---------------------------- MODULE EvidenceProofs ----------------------------
(***************************************************************************)
(* Proofs about EvidenceReview and what it extends: what is imported is    *)
(* what the manifest and its reports say, whatever they say; the rows that *)
(* are made of them pass the checks of the transaction they are in; and    *)
(* what a review says of the rows is what is in them.                      *)
(*                                                                         *)
(* There are two steps, so that the invariant is short: a result is the    *)
(* import of its input, or a review of that (ImportInv).  The argument is  *)
(* in the rows.  What joins them to the checks is that every key of a      *)
(* report has its path from a name in the report (KeysAreOf), that an id   *)
(* is chosen only from a set it is alone in (OnlyOne), and that the file   *)
(* of a parsed output is the one that was captured, as it is no file of    *)
(* the source (FilesAreTheirs).  What joins a review to the rows is that   *)
(* passes over the links end, as each one that adds anything has all of a  *)
(* link more (ExpandIs), that they end in no line which is not connected   *)
(* with what was asked (LinksAreReached), and what form a gap may have     *)
(* (GapIsOf), so that the gaps which are shown are those that are counted  *)
(* (ShownAreCounted).                                                      *)
(***************************************************************************)
EXTENDS ReviewAnswers, FiniteSetTheorems, SequenceTheorems, WellFoundedInduction, TLAPS

(***************************************************************************)
(* Recursion.  That a set of numbers has a least element takes the place   *)
(* of induction.                                                           *)
(***************************************************************************)
LEMMA Least ==
  ASSUME NEW T, T \subseteq Nat, T # {}
  PROVE  \E x \in T : \A y \in T : x <= y
<1> DEFINE R == OpToRel(<, Nat)
<1>1. IsWellFoundedOn(R, Nat)
  BY NatLessThanWellFounded, Zenon
<1>2. \A x, y \in Nat : <<x, y>> \in R <=> x < y
  BY DEF OpToRel
<1> HIDE DEF R
<1>3. PICK x \in T : \A y \in T : ~ (<<y, x>> \in R)
  BY <1>1, WFMin
<1>4. \A y \in T : x \in Nat /\ y \in Nat /\ ~ (y < x)
  BY <1>2, <1>3
<1>5. \A y \in T : x <= y
  BY <1>4
<1> QED
  BY <1>5

(* The first n steps of a row, taken one after the other.                  *)
Taken(f, X, n, start, step) ==
  f \in [0 .. n -> X] /\ f[0] = start /\ \A i \in 1 .. n : f[i] = step[i][f[i - 1]]

(* A row of steps can be taken.                                            *)
LEMMA Recursion ==
  ASSUME NEW X, NEW start \in X, NEW m \in Nat, NEW step \in [1 .. m -> [X -> X]]
  PROVE  \E f : Taken(f, X, m, start, step)
<1> DEFINE Wrong == {n \in 0 .. m : ~ \E f : Taken(f, X, n, start, step)}
<1>1. CASE Wrong # {}
  <2>1. Wrong \subseteq Nat
    OBVIOUS
  <2> HIDE DEF Wrong
  <2>2. PICK n \in Wrong : \A k \in Wrong : n <= k
    BY <1>1, <2>1, Least
  <2> USE DEF Wrong
  <2>3. n \in 0 .. m /\ ~ \E f : Taken(f, X, n, start, step)
    OBVIOUS
  <2>4. n # 0
    <3>1. Taken([i \in 0 .. 0 |-> start], X, 0, start, step)
      BY DEF Taken
    <3> QED
      BY <2>3, <3>1
  <2>5. n - 1 \in 0 .. m /\ n \in 1 .. m /\ n - 1 \in 0 .. n - 1
    BY <2>3, <2>4
  <2>6. \E f : Taken(f, X, n - 1, start, step)
    <3>1. n - 1 \notin Wrong
      <4> HIDE DEF Wrong
      <4> QED
        BY <2>2, <2>5
    <3> QED
      BY <2>5, <3>1
  <2>7. PICK f : Taken(f, X, n - 1, start, step)
    BY <2>6
  <2> DEFINE g == [i \in 0 .. n |-> IF i = n THEN step[n][f[n - 1]] ELSE f[i]]
  <2>8. f[n - 1] \in X /\ step[n][f[n - 1]] \in X
    BY <2>5, <2>7 DEF Taken
  <2>9. \A i \in 0 .. n : i # n => i \in 0 .. n - 1 /\ f[i] \in X
    BY <2>5, <2>7 DEF Taken
  <2>10. g \in [0 .. n -> X]
    BY <2>8, <2>9
  <2>11. g[0] = start
    BY <2>5, <2>7 DEF Taken
  <2>12. \A i \in 1 .. n : g[i] = step[i][g[i - 1]]
    <3> SUFFICES ASSUME NEW i \in 1 .. n
                 PROVE  g[i] = step[i][g[i - 1]]
      OBVIOUS
    <3>1. i - 1 \in 0 .. n /\ i - 1 # n /\ i \in 0 .. n
      BY <2>5
    <3>2. g[i - 1] = f[i - 1]
      BY <3>1
    <3>3. CASE i = n
      BY <3>1, <3>2, <3>3
    <3>4. CASE i # n
      <4>1. i \in 1 .. n - 1
        BY <2>5, <3>4
      <4> QED
        BY <2>7, <3>1, <3>2, <3>4, <4>1 DEF Taken
    <3> QED
      BY <3>3, <3>4
  <2>13. Taken(g, X, n, start, step)
    BY <2>10, <2>11, <2>12 DEF Taken
  <2> QED
    BY <2>3, <2>13
<1>2. CASE Wrong = {}
  <2>1. m \in 0 .. m
    OBVIOUS
  <2> QED
    BY <1>2, <2>1
<1> QED
  BY <1>1, <1>2

(* What satisfies the recursion of Total.                                  *)
Adding(seen, key, f) ==
  [n \in 0 .. Len(seen) |->
     IF n = 0 THEN 0
     ELSE IF seen[n].key = key THEN f[n - 1] + seen[n].count ELSE f[n - 1]]

(* What is counted for a key is more than zero if one count of it is.      *)
LEMMA TotalIs ==
  ASSUME NEW seen, NEW key, NEW m \in Nat, Len(seen) = m,
         \A i \in 1 .. m : seen[i].count \in Nat
  PROVE  /\ Ev!Total(seen, key) \in Nat
         /\ (Ev!Total(seen, key) > 0) <=>
              \E i \in 1 .. m : seen[i].key = key /\ seen[i].count > 0
<1> DEFINE Plus(i, n) == IF seen[i].key = key THEN n + seen[i].count ELSE n
           step == [i \in 1 .. m |-> [n \in Nat |-> Plus(i, n)]]
<1>1. step \in [1 .. m -> [Nat -> Nat]]
  OBVIOUS
<1>2. PICK F : Taken(F, Nat, m, 0, step)
  <2> HIDE DEF step
  <2> QED
    BY <1>1, Recursion
<1>3. \A i \in 0 .. m : F[i] = IF i = 0 THEN 0 ELSE Plus(i, F[i - 1])
  <2> SUFFICES ASSUME NEW i \in 0 .. m, i # 0
               PROVE  F[i] = Plus(i, F[i - 1])
    BY <1>2 DEF Taken
  <2>1. i \in 1 .. m /\ i - 1 \in 0 .. m
    OBVIOUS
  <2>2. F[i - 1] \in Nat
    BY <1>2, <2>1 DEF Taken
  <2>3. F[i] = step[i][F[i - 1]]
    BY <1>2, <2>1 DEF Taken
  <2> QED
    BY <2>1, <2>2, <2>3
<1>4. F = Adding(seen, key, F)
  BY <1>2, <1>3 DEF Adding, Taken
<1> DEFINE G == CHOOSE f : f = Adding(seen, key, f)
<1>5. G = Adding(seen, key, G)
  BY <1>4
<1>6. Ev!Total(seen, key) = G[Len(seen)]
  BY Zenon DEF Ev!Total, Adding
<1> HIDE DEF G
<1>7. \A i \in 0 .. m : G[i] = IF i = 0 THEN 0 ELSE Plus(i, G[i - 1])
  BY <1>5 DEF Adding
<1> DEFINE Some(n) == \E i \in 1 .. n : seen[i].key = key /\ seen[i].count > 0
           Right(n) == G[n] \in Nat /\ (G[n] > 0 <=> Some(n))
           Wrong == {n \in 0 .. m : ~ Right(n)}
<1>8. CASE Wrong # {}
  <2>1. Wrong \subseteq Nat
    OBVIOUS
  <2> HIDE DEF Wrong
  <2>2. PICK n \in Wrong : \A k \in Wrong : n <= k
    BY <1>8, <2>1, Least
  <2> USE DEF Wrong
  <2>3. n \in 0 .. m /\ ~ Right(n)
    OBVIOUS
  <2>4. n # 0
    <3>1. G[0] = 0
      BY <1>7
    <3> QED
      BY <2>3, <3>1
  <2>5. n - 1 \in 0 .. m /\ n \in 1 .. m /\ ~ (n <= n - 1)
    BY <2>3, <2>4
  <2>6. Right(n - 1)
    BY <2>2, <2>5
  <2>7. G[n] = Plus(n, G[n - 1])
    BY <1>7, <2>3, <2>4
  <2>8. seen[n].count \in Nat
    BY <2>5
  <2>9. Some(n) <=> Some(n - 1) \/ (seen[n].key = key /\ seen[n].count > 0)
    <3>1. \A i : i \in 1 .. n <=> i \in 1 .. n - 1 \/ i = n
      BY <2>5
    <3> QED
      BY <3>1, Zenon
  <2>10. CASE seen[n].key = key
    <3>1. G[n] = G[n - 1] + seen[n].count
      BY <2>7, <2>10
    <3>2. G[n - 1] \in Nat /\ (G[n - 1] > 0 <=> Some(n - 1))
      BY <2>6
    <3> HIDE DEF Some
    <3>3. G[n] \in Nat /\ (G[n] > 0 <=> Some(n - 1) \/ seen[n].count > 0)
      BY <2>8, <3>1, <3>2
    <3> QED
      BY <2>3, <2>9, <2>10, <3>3
  <2>11. CASE seen[n].key # key
    <3>1. G[n] = G[n - 1]
      BY <2>7, <2>11
    <3> HIDE DEF Some
    <3> QED
      BY <2>3, <2>6, <2>9, <2>11, <3>1
  <2> QED
    BY <2>10, <2>11
<1>9. CASE Wrong = {}
  <2>1. Right(m)
    BY <1>9
  <2> QED
    BY <1>6, <2>1
<1> QED
  BY <1>8, <1>9

(* A sequence that follows another one.                                    *)
LEMMA JoinKeeps ==
  ASSUME NEW S, NEW s \in Seq(S), NEW t \in Seq(S)
  PROVE  /\ s \o t \in Seq(S)
         /\ Ev!Range(s) \subseteq Ev!Range(s \o t) /\ Ev!Range(t) \subseteq Ev!Range(s \o t)
<1>1. /\ s \o t \in Seq(S) /\ Len(s \o t) = Len(s) + Len(t)
      /\ \A i \in 1 .. Len(s) : (s \o t)[i] = s[i]
      /\ \A i \in 1 .. Len(t) : (s \o t)[Len(s) + i] = t[i]
  OBVIOUS
<1>2. \A i \in 1 .. Len(s) : i \in DOMAIN (s \o t)
  BY <1>1
<1>3. \A i \in 1 .. Len(t) : Len(s) + i \in DOMAIN (s \o t)
  BY <1>1
<1>4. DOMAIN s = 1 .. Len(s) /\ DOMAIN t = 1 .. Len(t)
  OBVIOUS
<1>5. Ev!Range(s) \subseteq Ev!Range(s \o t)
  BY <1>1, <1>2, <1>4 DEF Ev!Range
<1>6. Ev!Range(t) \subseteq Ev!Range(s \o t)
  BY <1>1, <1>3, <1>4 DEF Ev!Range
<1> QED
  BY <1>1, <1>5, <1>6

(* What satisfies the recursion of FlattenSeq.                             *)
Unrolled(seqs, f) ==
  [i \in 1 .. Len(seqs) |-> IF i = 1 THEN seqs[i] ELSE f[i - 1] \o seqs[i]]

(* Sequences joined into one: it has their elements, and no element of     *)
(* them is left out.                                                       *)
LEMMA FlattenIs ==
  ASSUME NEW S, NEW seqs \in Seq(Seq(S))
  PROVE  /\ Ev!FlattenSeq(seqs) \in Seq(S)
         /\ \A i \in 1 .. Len(seqs) : Ev!Range(seqs[i]) \subseteq Ev!Range(Ev!FlattenSeq(seqs))
<1> DEFINE m == Len(seqs)
<1>1. m \in Nat /\ DOMAIN seqs = 1 .. m /\ \A i \in 1 .. m : seqs[i] \in Seq(S)
  OBVIOUS
<1>2. CASE m = 0
  <2>1. Ev!FlattenSeq(seqs) = seqs
    BY <1>2, Zenon DEF Ev!FlattenSeq
  <2>2. seqs = <<>>
    BY <1>2
  <2> QED
    BY <1>2, <2>1, <2>2
<1>3. CASE m # 0
  <2> HIDE DEF m
  <2> DEFINE step == [i \in 1 .. m |-> [s \in Seq(S) |-> s \o seqs[i]]]
  <2>1. step \in [1 .. m -> [Seq(S) -> Seq(S)]]
    BY <1>1
  <2>2. <<>> \in Seq(S)
    OBVIOUS
  <2>3. PICK F : Taken(F, Seq(S), m, <<>>, step)
    <3> HIDE DEF step
    <3> QED
      BY <1>1, <2>1, <2>2, Recursion
  <2>4. \A i \in 1 .. m : F[i] = F[i - 1] \o seqs[i]
    <3> SUFFICES ASSUME NEW i \in 1 .. m
                 PROVE  F[i] = F[i - 1] \o seqs[i]
      OBVIOUS
    <3>1. i - 1 \in 0 .. m
      BY <1>1
    <3>2. F[i - 1] \in Seq(S)
      BY <2>3, <3>1 DEF Taken
    <3> QED
      BY <2>3, <3>2 DEF Taken
  <2> DEFINE H == [i \in 1 .. m |-> F[i]]
  <2>5. H = Unrolled(seqs, H)
    <3>1. \A i \in 1 .. m : H[i] = IF i = 1 THEN seqs[i] ELSE H[i - 1] \o seqs[i]
      <4> SUFFICES ASSUME NEW i \in 1 .. m
                   PROVE  F[i] = IF i = 1 THEN seqs[i] ELSE H[i - 1] \o seqs[i]
        OBVIOUS
      <4>1. CASE i = 1
        <5>1. F[1] = <<>> \o seqs[1]
          <6>1. 1 \in 1 .. m /\ 1 - 1 = 0
            BY <4>1
          <6>2. F[1] = F[1 - 1] \o seqs[1]
            BY <2>4, <6>1
          <6> QED
            BY <2>3, <6>1, <6>2 DEF Taken
        <5>2. seqs[1] \in Seq(S)
          BY <1>1, <4>1
        <5> QED
          BY <4>1, <5>1, <5>2
      <4>2. CASE i # 1
        <5>1. i - 1 \in 1 .. m
          BY <1>1, <4>2
        <5> QED
          BY <2>4, <4>2, <5>1
      <4> QED
        BY <4>1, <4>2
    <3> QED
      BY <3>1 DEF Unrolled, m
  <2> DEFINE G == CHOOSE f : f = Unrolled(seqs, f)
  <2>6. G = Unrolled(seqs, G)
    <3> HIDE DEF H
    <3> QED
      BY <2>5
  <2>7. Ev!FlattenSeq(seqs) = IF Len(seqs) = 0 THEN seqs ELSE G[Len(seqs)]
    BY Zenon DEF Ev!FlattenSeq, Unrolled
  <2> HIDE DEF G, H, step
  <2>8. \A i \in 1 .. m : G[i] = IF i = 1 THEN seqs[i] ELSE G[i - 1] \o seqs[i]
    BY <2>6 DEF Unrolled, m
  <2> DEFINE Right(n) == /\ G[n] \in Seq(S)
                         /\ \A i \in 1 .. n : Ev!Range(seqs[i]) \subseteq Ev!Range(G[n])
             Wrong == {n \in 1 .. m : ~ Right(n)}
  <2>9. CASE Wrong # {}
    <3>1. Wrong \subseteq Nat
      BY <1>1
    <3> HIDE DEF Wrong
    <3>2. PICK n \in Wrong : \A k \in Wrong : n <= k
      BY <2>9, <3>1, Least
    <3> USE DEF Wrong
    <3>3. n \in 1 .. m /\ ~ Right(n)
      OBVIOUS
    <3>4. seqs[n] \in Seq(S)
      BY <1>1, <3>3
    <3>5. n # 1
      <4> SUFFICES ASSUME n = 1
                   PROVE  Right(n)
        BY <3>3
      <4>1. G[1] = seqs[1]
        BY <2>8, <3>3
      <4> QED
        BY <3>4, <4>1
    <3>6. n - 1 \in 1 .. m /\ ~ (n <= n - 1)
      BY <1>1, <3>3, <3>5
    <3>7. Right(n - 1)
      BY <3>2, <3>6
    <3>8. G[n] = G[n - 1] \o seqs[n]
      BY <2>8, <3>3, <3>5
    <3>9. /\ G[n] \in Seq(S)
          /\ Ev!Range(G[n - 1]) \subseteq Ev!Range(G[n])
          /\ Ev!Range(seqs[n]) \subseteq Ev!Range(G[n])
      BY <3>4, <3>7, <3>8, JoinKeeps
    <3>10. \A i \in 1 .. n : i = n \/ i \in 1 .. n - 1
      BY <1>1, <3>3
    <3> QED
      BY <3>3, <3>7, <3>9, <3>10
  <2>10. CASE Wrong = {}
    <3>1. m \in 1 .. m
      BY <1>1, <1>3
    <3>2. Right(m)
      BY <2>10, <3>1, Zenon
    <3> QED
      BY <1>3, <2>7, <3>2 DEF m
  <2> QED
    BY <2>9, <2>10
<1> QED
  BY <1>2, <1>3

(***************************************************************************)
(* What is finite, and what is alone in its set.                           *)
(***************************************************************************)
LEMMA ImageIsFinite ==
  ASSUME NEW f, IsFiniteSet(DOMAIN f)
  PROVE  IsFiniteSet(Ev!Range(f))
<1> DEFINE g == [x \in DOMAIN f |-> f[x]]
<1>1. g \in Surjection(DOMAIN f, Ev!Range(f))
  BY DEF Surjection, Ev!Range
<1> QED
  BY <1>1, FS_Surjection

LEMMA ListIsFinite ==
  ASSUME NEW s, Ev!Listed(s)
  PROVE  /\ Len(s) \in Nat /\ DOMAIN s = 1 .. Len(s)
         /\ IsFiniteSet(DOMAIN s) /\ IsFiniteSet(Ev!Range(s))
<1>1. s \in Seq(Ev!Range(s))
  BY DEF Ev!Listed
<1>2. Len(s) \in Nat /\ DOMAIN s = 1 .. Len(s)
  BY <1>1
<1>3. IsFiniteSet(1 .. Len(s))
  BY <1>2, FS_Interval
<1> QED
  BY <1>2, <1>3, ImageIsFinite

(* The ids of what the files have lists of.                                *)
LEMMA IdsAreFinite ==
  ASSUME NEW D, IsFiniteSet(D), NEW lists, \A p \in D : Ev!Listed(lists[p])
  PROVE  IsFiniteSet(UNION {{<<p, i>> : i \in DOMAIN lists[p]} : p \in D})
<1> DEFINE Of(p) == {<<p, i>> : i \in DOMAIN lists[p]}
           ids == [p \in D |-> Of(p)]
<1>1. \A p \in D : IsFiniteSet(Of(p))
  <2> SUFFICES ASSUME NEW p \in D
               PROVE  IsFiniteSet(Of(p))
    OBVIOUS
  <2> DEFINE pair == [i \in DOMAIN lists[p] |-> <<p, i>>]
  <2>1. IsFiniteSet(DOMAIN lists[p])
    BY ListIsFinite
  <2>2. IsFiniteSet(Ev!Range(pair))
    BY <2>1, ImageIsFinite
  <2>3. Ev!Range(pair) = Of(p)
    BY DEF Ev!Range
  <2> QED
    BY <2>2, <2>3
<1>2. IsFiniteSet(Ev!Range(ids))
  <2>1. DOMAIN ids = D
    OBVIOUS
  <2> HIDE DEF ids
  <2> QED
    BY <2>1, ImageIsFinite
<1>3. Ev!Range(ids) = {Of(p) : p \in D}
  BY DEF Ev!Range
<1>4. \A T \in {Of(p) : p \in D} : IsFiniteSet(T)
  <2> HIDE DEF Of
  <2> QED
    BY <1>1
<1> HIDE DEF ids
<1>5. IsFiniteSet({Of(p) : p \in D})
  BY <1>2, <1>3
<1>6. IsFiniteSet(UNION {Of(p) : p \in D})
  <2> HIDE DEF Of
  <2> QED
    BY <1>4, <1>5, FS_UNION
<1> QED
  BY <1>6

LEMMA SameCardinality == \A S : Ev!Cardinality(S) = Cardinality(S)
BY Zenon DEF Ev!Cardinality, Cardinality

LEMMA SameFinite == \A S : Ev!IsFiniteSet(S) <=> IsFiniteSet(S)
BY Zenon DEF Ev!IsFiniteSet, IsFiniteSet

(* What is chosen is in the set, and alone in it.                          *)
LEMMA OnlyOne ==
  ASSUME NEW T, IsFiniteSet(T), Nothing \notin T
  PROVE  /\ Ev!Cardinality(T) \in Nat
         /\ Ev!Cardinality(T) = 0 <=> T = {}
         /\ Ev!TheOnly(T) # Nothing <=> Ev!Cardinality(T) = 1
         /\ Ev!TheOnly(T) # Nothing => Ev!TheOnly(T) \in T /\ \A x \in T : x = Ev!TheOnly(T)
<1>1. Ev!Cardinality(T) \in Nat /\ (Ev!Cardinality(T) = 0 <=> T = {})
  BY SameCardinality, FS_CardinalityType, FS_EmptySet
<1>2. CASE Ev!Cardinality(T) = 1
  <2>1. PICK x : T = {x}
    BY <1>2, SameCardinality, FS_Singleton
  <2>2. Ev!TheOnly(T) = x
    BY <1>2, <2>1 DEF Ev!TheOnly
  <2> QED
    BY <1>1, <1>2, <2>1, <2>2
<1>3. CASE Ev!Cardinality(T) # 1
  BY <1>1, <1>3 DEF Ev!TheOnly
<1> QED
  BY <1>2, <1>3

(* A set of which another is in it and is not empty.                       *)
LEMMA OneIsOne ==
  ASSUME NEW T, IsFiniteSet(T), Ev!Cardinality(T) = 1, NEW U, U \subseteq T, U # {}
  PROVE  Ev!Cardinality(U) = 1
<1>1. PICK x : T = {x}
  BY SameCardinality, FS_Singleton
<1>2. U = T
  BY <1>1
<1> QED
  BY <1>2

(* Two of a set are not one.                                               *)
LEMMA TwoAreMore ==
  ASSUME NEW T, IsFiniteSet(T), NEW x \in T, NEW y \in T, x # y
  PROVE  Ev!Cardinality(T) > 1
<1>1. Ev!Cardinality(T) \in Nat /\ Ev!Cardinality(T) # 0
  BY SameCardinality, FS_CardinalityType, FS_EmptySet
<1>2. Ev!Cardinality(T) # 1
  <2> SUFFICES ASSUME Ev!Cardinality(T) = 1
               PROVE  FALSE
    OBVIOUS
  <2>1. \E z : T = {z}
    BY SameCardinality, FS_Singleton
  <2> QED
    BY <2>1
<1> QED
  BY <1>1, <1>2

(***************************************************************************)
(* The files of the image with its outputs.                                *)
(***************************************************************************)
(* What the import has got through before it makes rows.                   *)
Captured(in) ==
  Ev!CaptureHolds(in) /\ Ev!InputIsSound(in) /\ Ev!ParsedOutputs(in) \intersect DOMAIN in.files = {}

LEMMA FilesAreTheirs ==
  ASSUME NEW in, Captured(in)
  PROVE  /\ DOMAIN Ev!WithOutputs(in) = DOMAIN in.files \union Ev!ParsedOutputs(in)
         /\ \A p \in Ev!ParsedOutputs(in) : Ev!WithOutputs(in)[p] = in.disk[p].file
         /\ \A p \in DOMAIN in.files : Ev!WithOutputs(in)[p] = in.files[p]
BY DEF Captured, Ev!WithOutputs

LEMMA FilesAreFinite ==
  ASSUME NEW in, Captured(in)
  PROVE  LET files == Ev!WithOutputs(in)
         IN  /\ IsFiniteSet(Ev!NodesOf(files)) /\ IsFiniteSet(Ev!AllSites(files))
             /\ Nothing \notin Ev!NodesOf(files) /\ Nothing \notin Ev!AllSites(files)
<1> DEFINE m == in.manifest
           files == Ev!WithOutputs(in)
           outputs == [i \in DOMAIN m.generated |-> m.generated[i].output.path]
<1>1. /\ Ev!Listed(m.generated) /\ IsFiniteSet(DOMAIN in.files)
      /\ \A p \in DOMAIN files : Ev!Listed(files[p].nodes) /\ Ev!Listed(files[p].sites)
      /\ Nothing \notin Ev!NodesOf(files) \union Ev!AllSites(files)
  BY SameFinite, Zenon DEF Captured, Ev!InputIsSound
<1>2. IsFiniteSet(Ev!Range(outputs))
  <2>1. IsFiniteSet(DOMAIN outputs)
    BY <1>1, ListIsFinite
  <2> HIDE DEF outputs
  <2> QED
    BY <2>1, ImageIsFinite
<1>3. Ev!ParsedOutputs(in) \subseteq Ev!Range(outputs)
  BY DEF Ev!ParsedOutputs, Ev!Range
<1> HIDE DEF outputs
<1>4. IsFiniteSet(Ev!ParsedOutputs(in))
  BY <1>2, <1>3, FS_Subset
<1>5. IsFiniteSet(DOMAIN files)
  <2>1. DOMAIN files = DOMAIN in.files \union Ev!ParsedOutputs(in)
    BY FilesAreTheirs
  <2> HIDE DEF files
  <2> QED
    BY <1>1, <1>4, <2>1, FS_Union
<1> HIDE DEF files
<1> DEFINE nodes == [p \in DOMAIN files |-> files[p].nodes]
           sites == [p \in DOMAIN files |-> files[p].sites]
<1>6. IsFiniteSet(UNION {{<<p, i>> : i \in DOMAIN nodes[p]} : p \in DOMAIN files})
  <2>1. \A p \in DOMAIN files : Ev!Listed(nodes[p])
    BY <1>1
  <2> HIDE DEF nodes
  <2> QED
    BY <1>5, <2>1, IdsAreFinite
<1>7. IsFiniteSet(UNION {{<<p, i>> : i \in DOMAIN sites[p]} : p \in DOMAIN files})
  <2>1. \A p \in DOMAIN files : Ev!Listed(sites[p])
    BY <1>1
  <2> HIDE DEF sites
  <2> QED
    BY <1>5, <2>1, IdsAreFinite
<1>8. Ev!NodesOf(files) = UNION {{<<p, i>> : i \in DOMAIN nodes[p]} : p \in DOMAIN files}
  BY DEF Ev!NodesOf
<1>9. Ev!AllSites(files) = UNION {{<<p, i>> : i \in DOMAIN sites[p]} : p \in DOMAIN files}
  BY DEF Ev!AllSites
<1> QED
  BY <1>1, <1>6, <1>7, <1>8, <1>9, Zenon DEF files

(* The inclusions of the sources are where they were.                      *)
LEMMA SitesStay ==
  ASSUME NEW in, Captured(in), NEW name
  PROVE  Ev!Sites(in.files, name) \subseteq Ev!Sites(Ev!WithOutputs(in), name)
<1> SUFFICES ASSUME NEW site \in Ev!Sites(in.files, name)
             PROVE  site \in Ev!Sites(Ev!WithOutputs(in), name)
  OBVIOUS
<1>1. PICK p \in DOMAIN in.files : \E i \in DOMAIN in.files[p].sites : site = <<p, i>>
  BY DEF Ev!Sites, Ev!AllSites
<1>2. PICK i \in DOMAIN in.files[p].sites : site = <<p, i>>
  BY <1>1
<1>3. in.files[p].sites[i].hint = name
  BY <1>2 DEF Ev!Sites, Ev!SiteAt
<1>4. p \in DOMAIN Ev!WithOutputs(in) /\ Ev!WithOutputs(in)[p] = in.files[p]
  BY FilesAreTheirs
<1>5. site \in Ev!AllSites(Ev!WithOutputs(in))
  BY <1>2, <1>4 DEF Ev!AllSites
<1> QED
  BY <1>2, <1>3, <1>4, <1>5 DEF Ev!Sites, Ev!SiteAt

(* Outputs of one name that are not in contention are one.                 *)
LEMMA NamesAreOne ==
  ASSUME NEW m, Ev!Listed(m.generated), NEW g \in Ev!Range(m.generated),
         NEW h \in Ev!Range(m.generated),
         LastParts[g.output.path] = LastParts[h.output.path],
         ~ Ev!Contended(m, LastParts[g.output.path])
  PROVE  g.output.path = h.output.path
<1> DEFINE name == LastParts[g.output.path]
           named == {k.output.path : k \in {j \in Ev!Range(m.generated) :
                                             LastParts[j.output.path] = name}}
           outputs == [i \in DOMAIN m.generated |-> m.generated[i].output.path]
<1>1. IsFiniteSet(Ev!Range(outputs))
  <2>1. IsFiniteSet(DOMAIN outputs)
    BY ListIsFinite
  <2> HIDE DEF outputs
  <2> QED
    BY <2>1, ImageIsFinite
<1>2. named \subseteq Ev!Range(outputs)
  BY DEF Ev!Range
<1>3. IsFiniteSet(named)
  <2> HIDE DEF named, outputs
  <2> QED
    BY <1>1, <1>2, FS_Subset
<1>4. g.output.path \in named /\ h.output.path \in named
  OBVIOUS
<1>5. ~ Ev!Cardinality(named) > 1
  BY DEF Ev!Contended
<1> HIDE DEF named
<1> QED
  BY <1>3, <1>4, <1>5, TwoAreMore

(***************************************************************************)
(* require_provenance_invariants accepts the links.                        *)
(***************************************************************************)
LEMMA RowsAre ==
  ASSUME NEW in
  PROVE  LET files == Ev!WithOutputs(in)
             rows == Ev!Rows(in)
         IN  /\ rows.files = files /\ rows.artifacts = Ev!Artifacts(in)
             /\ rows.links = {Ev!Link(files, in.manifest, g)
                              : g \in Ev!Range(in.manifest.generated)}
             /\ rows.unobserved = Ev!Unobserved(files, rows.links)
             /\ rows.runs = Ev!RunRows(in, files) /\ rows.regions = Ev!RegionRows(files, rows.runs)
             /\ rows.branches = Ev!BranchRows(rows.runs)
             /\ rows.gaps = Ev!GapRows(files, rows.runs, rows.regions, rows.branches)
BY DEF Ev!Rows

(* A link is linked when it has both of its ends, and its site is the only *)
(* one of a name that is not in contention.                                *)
LEMMA LinkIs ==
  ASSUME NEW in, Captured(in), NEW g \in Ev!Range(in.manifest.generated)
  PROVE  LET files == Ev!WithOutputs(in)
             l == Ev!Link(files, in.manifest, g)
             name == LastParts[g.output.path]
         IN  /\ l.of = g
             /\ (l.state = "linked") <=> (l.generator # Nothing /\ l.site # Nothing)
             /\ l.site # Nothing =>
                  /\ ~ Ev!Contended(in.manifest, name) /\ IsFiniteSet(Ev!Sites(files, name))
                  /\ Ev!Cardinality(Ev!Sites(files, name)) = 1 /\ l.site \in Ev!Sites(files, name)
             /\ ~ Ev!Contended(in.manifest, name) => l.site = Ev!TheOnly(Ev!Sites(files, name))
<1> DEFINE files == Ev!WithOutputs(in)
           m == in.manifest
           l == Ev!Link(files, m, g)
           name == LastParts[g.output.path]
           makers == Ev!Generators(files, g.generator)
           sites == IF Ev!Contended(m, name) THEN {} ELSE Ev!Sites(files, name)
<1>1. /\ l.of = g /\ l.generator = Ev!TheOnly(makers) /\ l.site = Ev!TheOnly(sites)
      /\ l.state = IF Ev!Contended(m, name) \/ Ev!Cardinality(makers) > 1
                   \/ Ev!Cardinality(sites) > 1
                   THEN "ambiguous"
                   ELSE IF Ev!Cardinality(makers) = 1 /\ Ev!Cardinality(sites) = 1
                   THEN "linked" ELSE "unobserved"
  BY DEF Ev!Link
<1>2. /\ IsFiniteSet(Ev!NodesOf(files)) /\ IsFiniteSet(Ev!AllSites(files))
      /\ Nothing \notin Ev!NodesOf(files) /\ Nothing \notin Ev!AllSites(files)
  BY FilesAreFinite
<1>3. makers \subseteq Ev!NodesOf(files) /\ sites \subseteq Ev!AllSites(files)
  BY DEF Ev!Generators, Ev!Sites
<1> HIDE DEF files, l, makers
<1>4. IsFiniteSet(makers) /\ Nothing \notin makers
  BY <1>2, <1>3, FS_Subset
<1>5. IsFiniteSet(sites) /\ Nothing \notin sites
  <2> HIDE DEF sites
  <2> QED
    BY <1>2, <1>3, FS_Subset
<1>6. /\ Ev!Cardinality(makers) \in Nat
      /\ (Ev!TheOnly(makers) # Nothing <=> Ev!Cardinality(makers) = 1)
  BY <1>4, OnlyOne
<1>7. /\ Ev!Cardinality(sites) \in Nat /\ (Ev!Cardinality(sites) = 0 <=> sites = {})
      /\ Ev!TheOnly(sites) # Nothing <=> Ev!Cardinality(sites) = 1
      /\ Ev!TheOnly(sites) # Nothing => Ev!TheOnly(sites) \in sites
  <2> HIDE DEF sites
  <2> QED
    BY <1>5, OnlyOne
<1>8. Ev!Contended(m, name) => sites = {}
  OBVIOUS
<1>9. ~ Ev!Contended(m, name) => sites = Ev!Sites(files, name)
  OBVIOUS
<1> HIDE DEF sites, name, m
<1>10. (l.state = "linked") <=> (l.generator # Nothing /\ l.site # Nothing)
  BY <1>1, <1>6, <1>7, <1>8
<1>11. l.site # Nothing =>
         /\ ~ Ev!Contended(m, name) /\ IsFiniteSet(Ev!Sites(files, name))
         /\ Ev!Cardinality(Ev!Sites(files, name)) = 1 /\ l.site \in Ev!Sites(files, name)
  BY <1>1, <1>5, <1>7, <1>8, <1>9
<1>12. ~ Ev!Contended(m, name) => l.site = Ev!TheOnly(Ev!Sites(files, name))
  BY <1>1, <1>9
<1> QED
  BY <1>1, <1>10, <1>11, <1>12, Zenon DEF files, l, name, m

(* An output that is linked is in the image, with what was captured.       *)
LEMMA LinkedIsThere ==
  ASSUME NEW in, Captured(in), ~ Ev!Nested(in), NEW g \in Ev!Range(in.manifest.generated),
         Ev!Link(Ev!WithOutputs(in), in.manifest, g).site # Nothing
  PROVE  g.output.path \in Ev!ParsedOutputs(in)
<1> DEFINE name == LastParts[g.output.path]
           here == Ev!Sites(in.files, name)
           all == Ev!Sites(Ev!WithOutputs(in), name)
<1>1. /\ ~ Ev!Contended(in.manifest, name) /\ IsFiniteSet(all) /\ Ev!Cardinality(all) = 1
  BY LinkIs
<1>2. here # {}
  BY <1>1 DEF Ev!Nested
<1>3. here \subseteq all
  BY SitesStay
<1> HIDE DEF here, all
<1>4. Ev!Cardinality(here) = 1
  BY <1>1, <1>2, <1>3, OneIsOne
<1> QED
  BY <1>1, <1>4 DEF Ev!ParsedOutputs, here

(* Two links have one site if they have one output.                        *)
LEMMA OneSiteOneOutput ==
  ASSUME NEW in, Captured(in),
         NEW g \in Ev!Range(in.manifest.generated), NEW h \in Ev!Range(in.manifest.generated)
  PROVE  LET l == Ev!Link(Ev!WithOutputs(in), in.manifest, g)
             k == Ev!Link(Ev!WithOutputs(in), in.manifest, h)
         IN  l.site # Nothing /\ k.site # Nothing =>
               (l.site = k.site <=> g.output.path = h.output.path)
<1> DEFINE files == Ev!WithOutputs(in)
           l == Ev!Link(files, in.manifest, g)
           k == Ev!Link(files, in.manifest, h)
<1> SUFFICES ASSUME l.site # Nothing, k.site # Nothing
             PROVE  l.site = k.site <=> g.output.path = h.output.path
  OBVIOUS
<1>1. /\ ~ Ev!Contended(in.manifest, LastParts[g.output.path])
      /\ l.site \in Ev!Sites(files, LastParts[g.output.path])
      /\ l.site = Ev!TheOnly(Ev!Sites(files, LastParts[g.output.path]))
  BY LinkIs
<1>2. /\ ~ Ev!Contended(in.manifest, LastParts[h.output.path])
      /\ k.site \in Ev!Sites(files, LastParts[h.output.path])
      /\ k.site = Ev!TheOnly(Ev!Sites(files, LastParts[h.output.path]))
  BY LinkIs
<1> HIDE DEF l, k, files
<1>3. ASSUME g.output.path = h.output.path
      PROVE  l.site = k.site
  BY <1>1, <1>2, <1>3
<1>4. ASSUME l.site = k.site
      PROVE  g.output.path = h.output.path
  <2>1. LastParts[g.output.path] = LastParts[h.output.path]
    BY <1>1, <1>2, <1>4 DEF Ev!Sites
  <2>2. Ev!Listed(in.manifest.generated)
    BY Zenon DEF Captured, Ev!InputIsSound
  <2> QED
    BY <1>1, <2>1, <2>2, NamesAreOne
<1> QED
  BY <1>3, <1>4

LEMMA LinksAreSound ==
  ASSUME NEW in, Captured(in), ~ Ev!Nested(in), ~ Ev!Outdated(in)
  PROVE  Ev!LinksHold(Ev!Rows(in))
<1> DEFINE m == in.manifest
           files == Ev!WithOutputs(in)
           rows == Ev!Rows(in)
<1>1. /\ rows.files = files /\ rows.artifacts = Ev!Artifacts(in)
      /\ rows.links = {Ev!Link(files, m, g) : g \in Ev!Range(m.generated)}
  BY RowsAre
<1> HIDE DEF rows, files
<1>2. ASSUME NEW l \in rows.links
      PROVE  /\ (l.state = "linked") = (l.generator # Nothing /\ l.site # Nothing)
             /\ l.site # Nothing =>
                  \E a \in rows.artifacts :
                    /\ a.role = "generated-rust" /\ a.path = l.of.output.path
                    /\ a.path \in DOMAIN rows.files /\ rows.files[a.path] = a.content.file
             /\ \A k \in rows.links :
                  l.site # Nothing /\ k.site # Nothing =>
                    (l.site = k.site) = (l.of.output.path = k.of.output.path)
  <2>1. PICK g \in Ev!Range(m.generated) : l = Ev!Link(files, m, g)
    BY <1>1, <1>2
  <2>2. l.of = g /\ (l.state = "linked" <=> l.generator # Nothing /\ l.site # Nothing)
    BY <2>1, LinkIs DEF files
  <2>3. ASSUME l.site # Nothing
        PROVE  \E a \in rows.artifacts :
                 /\ a.role = "generated-rust" /\ a.path = l.of.output.path
                 /\ a.path \in DOMAIN rows.files /\ rows.files[a.path] = a.content.file
    <3> DEFINE p == g.output.path
               a == Ev!Artifact("generated-rust", p, in.disk[p])
    <3>1. p \in Ev!ParsedOutputs(in)
      BY <2>1, <2>3, LinkedIsThere DEF files
    <3>2. p \in DOMAIN files /\ files[p] = in.disk[p].file
      BY <3>1, FilesAreTheirs DEF files
    <3>3. a \in Ev!Artifacts(in)
      BY DEF Ev!Artifacts
    <3>4. a.role = "generated-rust" /\ a.path = p /\ a.content = in.disk[p]
      BY DEF Ev!Artifact
    <3> HIDE DEF a
    <3> QED
      BY <1>1, <2>2, <3>2, <3>3, <3>4
  <2>4. ASSUME NEW k \in rows.links, l.site # Nothing, k.site # Nothing
        PROVE  l.site = k.site <=> l.of.output.path = k.of.output.path
    <3>1. PICK h \in Ev!Range(m.generated) : k = Ev!Link(files, m, h)
      BY <1>1
    <3>2. k.of = h
      BY <3>1, LinkIs DEF files
    <3>3. l.site = k.site <=> g.output.path = h.output.path
      BY <2>1, <2>4, <3>1, OneSiteOneOutput DEF files
    <3> QED
      BY <2>2, <3>2, <3>3
  <2> QED
    BY <2>2, <2>3, <2>4
<1>3. ASSUME NEW a \in rows.artifacts, a.role = "generated-rust", a.path \in DOMAIN rows.files
      PROVE  rows.files[a.path] = a.content.file
  <2>1. PICK g \in Ev!Range(m.generated) :
          a = Ev!Artifact("generated-rust", g.output.path, in.disk[g.output.path])
    BY <1>1, <1>3 DEF Ev!Artifacts, Ev!Artifact
  <2> DEFINE p == g.output.path
  <2>2. a.path = p /\ a.content = in.disk[p]
    BY <2>1 DEF Ev!Artifact
  <2>3. CASE p \in Ev!ParsedOutputs(in)
    <3>1. files[p] = in.disk[p].file
      BY <2>3, FilesAreTheirs DEF files
    <3> QED
      BY <1>1, <2>2, <3>1
  <2>4. CASE p \notin Ev!ParsedOutputs(in)
    <3>1. p \in DOMAIN in.files /\ files[p] = in.files[p]
      BY <1>1, <1>3, <2>2, <2>4, FilesAreTheirs DEF files
    <3>2. in.files[p] = in.disk[p].file
      BY <2>4, <3>1 DEF Ev!Outdated
    <3> QED
      BY <1>1, <2>2, <3>1, <3>2
  <2> QED
    BY <2>3, <2>4
<1>4. Ev!LinksHold(rows)
  BY <1>2, <1>3, Zenon DEF Ev!LinksHold
<1> QED
  BY <1>4 DEF rows

(***************************************************************************)
(* What is read in a report.                                               *)
(***************************************************************************)
(* Every key is of a file that a name of the report stands for.            *)
KeysAreOf(seen, names) == \A s \in Ev!Range(seen) : \E n \in names : s.key.path = ReportPaths[n]

(* The elements of a sequence are of the set that it is of.                *)
LEMMA InSet ==
  ASSUME NEW S, NEW s \in Seq(S)
  PROVE  Ev!Range(s) \subseteq S
BY DEF Ev!Range

(* Every region of a report of LLVM is from one of kind 0, and every one   *)
(* of these is read.                                                       *)
LEMMA LlvmRegionsAre ==
  ASSUME NEW report, Ev!Listed(report.regions)
  PROVE  LET read == {Ev!Seen(Ev!LlvmKey(r), r.count) : r \in Ev!LlvmCode(report)}
         IN  Ev!LlvmRegions(report) \in Seq(read) /\ Ev!Range(Ev!LlvmRegions(report)) = read
<1> DEFINE rows == report.regions
           Read(r) == Ev!Seen(Ev!LlvmKey(r), r.count)
           read == {Read(r) : r \in Ev!LlvmCode(report)}
           seqs == [i \in DOMAIN rows |-> LET r == rows[i]
                                          IN  IF r \in Ev!LlvmCode(report)
                                                 THEN <<Read(r)>> ELSE <<>>]
<1>1. Len(rows) \in Nat /\ DOMAIN rows = 1 .. Len(rows)
  BY ListIsFinite
<1>2. \A i \in 1 .. Len(rows) :
        seqs[i] = IF rows[i] \in Ev!LlvmCode(report) THEN <<Read(rows[i])>> ELSE <<>>
  BY <1>1
<1>3. DOMAIN seqs = 1 .. Len(rows)
  BY <1>1
<1>4. Ev!LlvmRegions(report) = Ev!FlattenSeq(seqs)
  BY DEF Ev!LlvmRegions
<1>5. \A i \in 1 .. Len(rows) : seqs[i] \in Seq(read)
  <2> SUFFICES ASSUME NEW i \in 1 .. Len(rows)
               PROVE  seqs[i] \in Seq(read)
    OBVIOUS
  <2>1. CASE rows[i] \in Ev!LlvmCode(report)
    <3>1. Read(rows[i]) \in read
      BY <2>1
    <3>2. seqs[i] = <<Read(rows[i])>>
      BY <1>1, <2>1
    <3> HIDE DEF Read, read, seqs
    <3> QED
      BY <3>1, <3>2
  <2>2. CASE rows[i] \notin Ev!LlvmCode(report)
    <3>1. seqs[i] = <<>>
      BY <1>1, <2>2
    <3> HIDE DEF Read, read, seqs
    <3> QED
      BY <3>1
  <2> QED
    BY <2>1, <2>2
<1>6. seqs \in [1 .. Len(rows) -> Seq(read)]
  <2>1. seqs = [i \in 1 .. Len(rows) |-> seqs[i]]
    BY <1>1
  <2> HIDE DEF read, seqs
  <2> QED
    BY <1>5, <2>1
<1> HIDE DEF seqs
<1>7. seqs \in Seq(Seq(read)) /\ Len(seqs) = Len(rows)
  <2> HIDE DEF read
  <2> QED
    BY <1>1, <1>6
<1>8. /\ Ev!FlattenSeq(seqs) \in Seq(read)
      /\ \A i \in 1 .. Len(rows) : Ev!Range(seqs[i]) \subseteq Ev!Range(Ev!FlattenSeq(seqs))
  <2> HIDE DEF read
  <2> QED
    BY <1>7, FlattenIs
<1>9. Ev!Range(Ev!FlattenSeq(seqs)) \subseteq read
  <2> HIDE DEF read
  <2> QED
    BY <1>8, InSet
<1>10. ASSUME NEW r \in Ev!LlvmCode(report)
       PROVE  Read(r) \in Ev!Range(Ev!FlattenSeq(seqs))
  <2>1. PICK i \in 1 .. Len(rows) : r = rows[i]
    BY <1>1 DEF Ev!LlvmCode, Ev!Range
  <2> HIDE DEF Read
  <2>2. seqs[i] = <<Read(r)>>
    BY <1>2, <2>1
  <2>3. Read(r) \in Ev!Range(seqs[i])
    BY <2>2 DEF Ev!Range
  <2> QED
    BY <1>8, <2>1, <2>3
<1> QED
  BY <1>4, <1>8, <1>9, <1>10

LEMMA LlvmBranchesAre ==
  ASSUME NEW report, Ev!Listed(report.branches)
  PROVE  /\ KeysAreOf(Ev!LlvmBranches(report), {b.name : b \in Ev!Range(report.branches)})
         /\ \A s \in Ev!Range(Ev!LlvmBranches(report)) :
              \E b \in Ev!Range(report.branches), kind \in {"true-outcome", "false-outcome"} :
                s.key = Ev!Branch(ReportPaths[b.name], b.from, b.to, Nothing, kind)
<1> DEFINE rows == report.branches
           read == {Ev!Outcome(b, "true-outcome", b.yes) : b \in Ev!Range(rows)}
                     \union {Ev!Outcome(b, "false-outcome", b.no) : b \in Ev!Range(rows)}
           seqs == [i \in DOMAIN rows |->
                      LET b == rows[i]
                      IN  <<Ev!Outcome(b, "true-outcome", b.yes),
                            Ev!Outcome(b, "false-outcome", b.no)>>]
<1>1. Len(rows) \in Nat /\ DOMAIN rows = 1 .. Len(rows)
  BY ListIsFinite
<1>2. Ev!LlvmBranches(report) = Ev!FlattenSeq(seqs)
  BY DEF Ev!LlvmBranches
<1>3. seqs \in [1 .. Len(rows) -> Seq(read)]
  <2>1. \A i \in 1 .. Len(rows) :
          /\ Ev!Outcome(rows[i], "true-outcome", rows[i].yes) \in read
          /\ Ev!Outcome(rows[i], "false-outcome", rows[i].no) \in read
    BY <1>1 DEF Ev!Range
  <2> HIDE DEF read
  <2> QED
    BY <1>1, <2>1
<1> HIDE DEF seqs
<1>4. Ev!Range(Ev!FlattenSeq(seqs)) \subseteq read
  <2> HIDE DEF read
  <2>1. seqs \in Seq(Seq(read))
    BY <1>1, <1>3
  <2>2. Ev!FlattenSeq(seqs) \in Seq(read)
    BY <2>1, FlattenIs
  <2> QED
    BY <2>2, InSet
<1>5. \A s \in read : \E n \in {b.name : b \in Ev!Range(rows)} : s.key.path = ReportPaths[n]
  BY DEF Ev!Outcome, Ev!Seen, Ev!Branch
<1>6. \A s \in read :
        \E b \in Ev!Range(rows), kind \in {"true-outcome", "false-outcome"} :
          s.key = Ev!Branch(ReportPaths[b.name], b.from, b.to, Nothing, kind)
  BY DEF Ev!Outcome, Ev!Seen
<1> HIDE DEF read
<1> QED
  BY <1>2, <1>4, <1>5, <1>6 DEF KeysAreOf

LEMMA JoinedIn ==
  ASSUME NEW S, NEW n \in Nat, NEW seqs \in [1 .. n -> Seq(S)]
  PROVE  Ev!FlattenSeq(seqs) \in Seq(S)
<1>1. seqs \in Seq(Seq(S))
  OBVIOUS
<1> QED
  BY <1>1, FlattenIs

(* What Coverage.py can tell of the lines of a file, and of its arcs.      *)
LinesTold(f) ==
  {Ev!Seen(Ev!Region(ReportPaths[f.name], line, line, c), n) :
     line \in Ev!Range(f.executed) \union Ev!Range(f.missing),
     c \in {Nothing} \union UNION {Ev!Range(f.contexts[l]) : l \in DOMAIN f.contexts}, n \in {0, 1}}
ArcsTold(f) ==
  {Ev!Seen(Ev!Branch(ReportPaths[f.name], a[1], a[1], a[2], "arc"), n) :
     a \in Ev!Range(f.taken) \union Ev!Range(f.missed), n \in {0, 1}}

LEMMA PyLineIs ==
  ASSUME NEW f, \A l \in DOMAIN f.contexts : Ev!Listed(f.contexts[l]),
         NEW line \in Ev!Range(f.executed) \union Ev!Range(f.missing), NEW n \in {0, 1}
  PROVE  Ev!PyLine(f, line, n) \in Seq(LinesTold(f))
<1> DEFINE contexts == Ev!PyContexts(f, line)
           all == {Nothing} \union UNION {Ev!Range(f.contexts[l]) : l \in DOMAIN f.contexts}
<1>1. contexts \in Seq(all)
  <2>1. CASE line \in DOMAIN f.contexts /\ f.contexts[line] # <<>>
    <3>1. f.contexts[line] \in Seq(Ev!Range(f.contexts[line]))
      BY <2>1 DEF Ev!Listed
    <3>2. Ev!Range(f.contexts[line]) \subseteq all
      BY <2>1
    <3>3. f.contexts[line] \in Seq(all)
      <4> HIDE DEF all
      <4> QED
        BY <3>1, <3>2
    <3> QED
      BY <2>1, <3>3 DEF Ev!PyContexts
  <2>2. CASE ~ (line \in DOMAIN f.contexts /\ f.contexts[line] # <<>>)
    <3>1. contexts = <<Nothing>>
      BY <2>2 DEF Ev!PyContexts
    <3>2. Nothing \in all
      OBVIOUS
    <3> HIDE DEF all, contexts
    <3> QED
      BY <3>1, <3>2
  <2> QED
    BY <2>1, <2>2
<1>2. /\ Len(contexts) \in Nat /\ DOMAIN contexts = 1 .. Len(contexts)
      /\ \A j \in 1 .. Len(contexts) : contexts[j] \in all
  <2> HIDE DEF all, contexts
  <2> QED
    BY <1>1
<1>3. \A c \in all : Ev!Seen(Ev!Region(ReportPaths[f.name], line, line, c), n) \in LinesTold(f)
  BY DEF LinesTold
<1>4. Ev!PyLine(f, line, n) =
        [j \in 1 .. Len(contexts) |->
           Ev!Seen(Ev!Region(ReportPaths[f.name], line, line, contexts[j]), n)]
  BY <1>2 DEF Ev!PyLine
<1> HIDE DEF all, contexts
<1>5. Ev!PyLine(f, line, n) \in [1 .. Len(contexts) -> LinesTold(f)]
  BY <1>2, <1>3, <1>4
<1> QED
  BY <1>2, <1>5

LEMMA PyLinesAre ==
  ASSUME NEW f, \A l \in DOMAIN f.contexts : Ev!Listed(f.contexts[l]),
         NEW lines, Ev!Listed(lines),
         Ev!Range(lines) \subseteq Ev!Range(f.executed) \union Ev!Range(f.missing),
         NEW n \in {0, 1}
  PROVE  Ev!PyLines(f, lines, n) \in Seq(LinesTold(f))
<1> DEFINE seqs == [i \in DOMAIN lines |-> Ev!PyLine(f, lines[i], n)]
<1>1. Len(lines) \in Nat /\ DOMAIN lines = 1 .. Len(lines)
  BY ListIsFinite
<1>2. \A i \in 1 .. Len(lines) : lines[i] \in Ev!Range(f.executed) \union Ev!Range(f.missing)
  BY <1>1 DEF Ev!Range
<1>3. \A i \in 1 .. Len(lines) : Ev!PyLine(f, lines[i], n) \in Seq(LinesTold(f))
  BY <1>2, PyLineIs
<1>4. seqs \in [1 .. Len(lines) -> Seq(LinesTold(f))]
  BY <1>1, <1>3
<1>5. Ev!PyLines(f, lines, n) = Ev!FlattenSeq(seqs)
  BY DEF Ev!PyLines
<1> HIDE DEF seqs
<1> QED
  BY <1>1, <1>4, <1>5, JoinedIn

LEMMA PyArcsAre ==
  ASSUME NEW f, NEW arcs, Ev!Listed(arcs),
         Ev!Range(arcs) \subseteq Ev!Range(f.taken) \union Ev!Range(f.missed),
         NEW n \in {0, 1}
  PROVE  Ev!PyArcs(f, arcs, n) \in Seq(ArcsTold(f))
<1>1. Len(arcs) \in Nat /\ DOMAIN arcs = 1 .. Len(arcs)
  BY ListIsFinite
<1>2. \A i \in 1 .. Len(arcs) : arcs[i] \in Ev!Range(f.taken) \union Ev!Range(f.missed)
  BY <1>1 DEF Ev!Range
<1>3. \A a \in Ev!Range(f.taken) \union Ev!Range(f.missed) :
        Ev!Seen(Ev!Branch(ReportPaths[f.name], a[1], a[1], a[2], "arc"), n) \in ArcsTold(f)
  BY DEF ArcsTold
<1>4. Ev!PyArcs(f, arcs, n) \in [1 .. Len(arcs) -> ArcsTold(f)]
  BY <1>1, <1>2, <1>3 DEF Ev!PyArcs
<1> QED
  BY <1>1, <1>4

LEMMA PyRegionsAre ==
  ASSUME NEW files, Ev!Listed(files),
         \A f \in Ev!Range(files) :
           /\ Ev!Listed(f.executed) /\ Ev!Listed(f.missing)
           /\ \A l \in DOMAIN f.contexts : Ev!Listed(f.contexts[l])
  PROVE  /\ KeysAreOf(Ev!PyRegions(files), {f.name : f \in Ev!Range(files)})
         /\ \A s \in Ev!Range(Ev!PyRegions(files)) : \E f \in Ev!Range(files) : s \in LinesTold(f)
<1> DEFINE told == UNION {LinesTold(f) : f \in Ev!Range(files)}
           Of(f) == Ev!PyLines(f, f.executed, 1) \o Ev!PyLines(f, f.missing, 0)
           seqs == [i \in DOMAIN files |-> Of(files[i])]
<1>1. Len(files) \in Nat /\ DOMAIN files = 1 .. Len(files)
  BY ListIsFinite
<1>2. \A i \in 1 .. Len(files) : files[i] \in Ev!Range(files)
  BY <1>1 DEF Ev!Range
<1>3. ASSUME NEW f \in Ev!Range(files)
      PROVE  Of(f) \in Seq(told)
  <2>1. Ev!PyLines(f, f.executed, 1) \in Seq(LinesTold(f))
    BY PyLinesAre
  <2>2. Ev!PyLines(f, f.missing, 0) \in Seq(LinesTold(f))
    BY PyLinesAre
  <2>3. LinesTold(f) \subseteq told
    OBVIOUS
  <2> HIDE DEF told
  <2>4. Ev!PyLines(f, f.executed, 1) \in Seq(told) /\ Ev!PyLines(f, f.missing, 0) \in Seq(told)
    BY <2>1, <2>2, <2>3
  <2> QED
    BY <2>4
<1>4. seqs \in [1 .. Len(files) -> Seq(told)]
  <2> HIDE DEF Of, told
  <2> QED
    BY <1>1, <1>2, <1>3
<1>5. Ev!PyRegions(files) = Ev!FlattenSeq(seqs)
  BY DEF Ev!PyRegions
<1> HIDE DEF seqs
<1>6. Ev!Range(Ev!FlattenSeq(seqs)) \subseteq told
  <2> HIDE DEF told
  <2>1. Ev!FlattenSeq(seqs) \in Seq(told)
    BY <1>1, <1>4, JoinedIn
  <2> QED
    BY <2>1, InSet
<1>7. \A f \in Ev!Range(files) : \A s \in LinesTold(f) : s.key.path = ReportPaths[f.name]
  BY DEF LinesTold, Ev!Seen, Ev!Region
<1> QED
  BY <1>5, <1>6, <1>7 DEF KeysAreOf

LEMMA PyBranchesAre ==
  ASSUME NEW files, Ev!Listed(files),
         \A f \in Ev!Range(files) : Ev!Listed(f.taken) /\ Ev!Listed(f.missed)
  PROVE  /\ KeysAreOf(Ev!PyBranches(files), {f.name : f \in Ev!Range(files)})
         /\ \A s \in Ev!Range(Ev!PyBranches(files)) : \E f \in Ev!Range(files) : s \in ArcsTold(f)
<1> DEFINE told == UNION {ArcsTold(f) : f \in Ev!Range(files)}
           Of(f) == Ev!PyArcs(f, f.taken, 1) \o Ev!PyArcs(f, f.missed, 0)
           seqs == [i \in DOMAIN files |-> Of(files[i])]
<1>1. Len(files) \in Nat /\ DOMAIN files = 1 .. Len(files)
  BY ListIsFinite
<1>2. \A i \in 1 .. Len(files) : files[i] \in Ev!Range(files)
  BY <1>1 DEF Ev!Range
<1>3. ASSUME NEW f \in Ev!Range(files)
      PROVE  Of(f) \in Seq(told)
  <2>1. Ev!PyArcs(f, f.taken, 1) \in Seq(ArcsTold(f))
    BY PyArcsAre
  <2>2. Ev!PyArcs(f, f.missed, 0) \in Seq(ArcsTold(f))
    BY PyArcsAre
  <2>3. ArcsTold(f) \subseteq told
    OBVIOUS
  <2> HIDE DEF told
  <2>4. Ev!PyArcs(f, f.taken, 1) \in Seq(told) /\ Ev!PyArcs(f, f.missed, 0) \in Seq(told)
    BY <2>1, <2>2, <2>3
  <2> QED
    BY <2>4
<1>4. seqs \in [1 .. Len(files) -> Seq(told)]
  <2> HIDE DEF Of, told
  <2> QED
    BY <1>1, <1>2, <1>3
<1>5. Ev!PyBranches(files) = Ev!FlattenSeq(seqs)
  BY DEF Ev!PyBranches
<1> HIDE DEF seqs
<1>6. Ev!Range(Ev!FlattenSeq(seqs)) \subseteq told
  <2> HIDE DEF told
  <2>1. Ev!FlattenSeq(seqs) \in Seq(told)
    BY <1>1, <1>4, JoinedIn
  <2> QED
    BY <2>1, InSet
<1>7. \A f \in Ev!Range(files) : \A s \in ArcsTold(f) : s.key.path = ReportPaths[f.name]
  BY DEF ArcsTold, Ev!Seen, Ev!Branch
<1> QED
  BY <1>5, <1>6, <1>7 DEF KeysAreOf

(* A report that tells of a file outside of the worktree says so.          *)
ExternalIsTold(read) ==
  \A s \in read.regions \union read.branches : s.key.path = Outside => read.external > 0

LEMMA ParsedIs ==
  ASSUME NEW holds, NEW regions, NEW branches, NEW names, IsFiniteSet(names),
         KeysAreOf(regions, names), KeysAreOf(branches, names)
  PROVE  ExternalIsTold(Ev!Parsed(holds, regions, branches, names))
<1> DEFINE read == Ev!Parsed(holds, regions, branches, names)
           outside == {n \in names : ReportPaths[n] = Outside}
<1>1. /\ read.regions = Ev!Totals(regions) /\ read.branches = Ev!Totals(branches)
      /\ read.external = Ev!Cardinality(outside)
  BY DEF Ev!Parsed
<1> HIDE DEF read
<1>2. SUFFICES ASSUME NEW s \in Ev!Totals(regions) \union Ev!Totals(branches), s.key.path = Outside
               PROVE  Ev!Cardinality(outside) > 0
  BY <1>1 DEF ExternalIsTold, read
<1>3. s.key \in Ev!Keys(regions) \union Ev!Keys(branches)
  BY DEF Ev!Totals, Ev!Seen
<1>4. PICK n \in names : s.key.path = ReportPaths[n]
  BY <1>3 DEF Ev!Keys, KeysAreOf
<1>5. n \in outside
  BY <1>2, <1>4
<1> HIDE DEF outside
<1>6. IsFiniteSet(outside)
  BY FS_Subset DEF outside
<1>7. Ev!Cardinality(outside) \in Nat /\ Ev!Cardinality(outside) # 0
  BY <1>5, <1>6, SameCardinality, FS_CardinalityType, FS_EmptySet
<1> QED
  BY <1>7

LEMMA NamesAreFinite ==
  ASSUME NEW s, Ev!Listed(s)
  PROVE  IsFiniteSet({x.name : x \in Ev!Range(s)})
<1> DEFINE names == [i \in DOMAIN s |-> s[i].name]
<1>1. IsFiniteSet(DOMAIN names)
  BY ListIsFinite
<1>2. Ev!Range(names) = {x.name : x \in Ev!Range(s)}
  BY DEF Ev!Range
<1> HIDE DEF names
<1> QED
  BY <1>1, <1>2, ImageIsFinite

LEMMA ReadIs ==
  ASSUME NEW format, NEW report, Ev!ReportIsSound(format, report)
  PROVE  ExternalIsTold(Ev!ParseCoverage(format, report))
<1>1. CASE format = "llvm"
  <2> DEFINE names == {r.name : r \in Ev!LlvmCode(report) \union Ev!Range(report.branches)}
             some == {r.name : r \in Ev!Range(report.regions)}
             more == {b.name : b \in Ev!Range(report.branches)}
  <2>1. /\ Ev!Listed(report.regions) /\ Ev!Listed(report.branches)
    BY <1>1, Zenon DEF Ev!ReportIsSound
  <2>2. IsFiniteSet(some) /\ IsFiniteSet(more)
    BY <2>1, NamesAreFinite
  <2>3. names \subseteq some \union more
    BY DEF Ev!LlvmCode
  <2>4. IsFiniteSet(names)
    <3> HIDE DEF names, some, more
    <3> QED
      BY <2>2, <2>3, FS_Union, FS_Subset
  <2>5. KeysAreOf(Ev!LlvmRegions(report), names)
    <3>1. Ev!Range(Ev!LlvmRegions(report))
          = {Ev!Seen(Ev!LlvmKey(r), r.count) : r \in Ev!LlvmCode(report)}
      BY <2>1, LlvmRegionsAre
    <3>2. \A r \in Ev!LlvmCode(report) :
            r.name \in names /\ Ev!Seen(Ev!LlvmKey(r), r.count).key.path = ReportPaths[r.name]
      BY DEF Ev!Seen, Ev!LlvmKey, Ev!Region
    <3> HIDE DEF names
    <3> QED
      BY <3>1, <3>2 DEF KeysAreOf
  <2>6. KeysAreOf(Ev!LlvmBranches(report), names)
    <3>1. KeysAreOf(Ev!LlvmBranches(report), more)
      BY <2>1, LlvmBranchesAre
    <3>2. more \subseteq names
      OBVIOUS
    <3> HIDE DEF names, more
    <3> QED
      BY <3>1, <3>2 DEF KeysAreOf
  <2>7. \E holds : Ev!ParseCoverage(format, report) =
                     Ev!Parsed(holds, Ev!LlvmRegions(report), Ev!LlvmBranches(report), names)
    BY <1>1, Zenon DEF Ev!ParseCoverage, Ev!ParseLlvm
  <2> HIDE DEF names
  <2> QED
    BY <2>4, <2>5, <2>6, <2>7, ParsedIs
<1>2. CASE format # "llvm"
  <2> DEFINE files == report.files
             names == {f.name : f \in Ev!Range(files)}
  <2>1. /\ Ev!Listed(files)
        /\ \A f \in Ev!Range(files) :
             /\ Ev!Listed(f.executed) /\ Ev!Listed(f.missing)
             /\ Ev!Listed(f.taken) /\ Ev!Listed(f.missed)
             /\ \A l \in DOMAIN f.contexts : Ev!Listed(f.contexts[l])
    BY <1>2, Zenon DEF Ev!ReportIsSound
  <2>2. IsFiniteSet(names)
    BY <2>1, NamesAreFinite
  <2> HIDE DEF files
  <2>3. KeysAreOf(Ev!PyRegions(files), names)
    BY <2>1, PyRegionsAre
  <2>4. KeysAreOf(Ev!PyBranches(files), names)
    BY <2>1, PyBranchesAre
  <2>5. \E holds : Ev!ParseCoverage(format, report) =
                     Ev!Parsed(holds, Ev!PyRegions(files), Ev!PyBranches(files), names)
    BY <1>2, Zenon DEF Ev!ParseCoverage, Ev!ParsePy, files
  <2> HIDE DEF names
  <2> QED
    BY <2>2, <2>3, <2>4, <2>5, ParsedIs
<1> QED
  BY <1>1, <1>2

(* What is counted of a region of LLVM is more than zero if an observation *)
(* of it says that it ran.                                                 *)
LEMMA LlvmCounts ==
  ASSUME NEW report, Ev!ReportIsSound("llvm", report), NEW r \in Ev!LlvmCode(report)
  PROVE  \E s \in Ev!ParseCoverage("llvm", report).regions :
           s.key = Ev!LlvmKey(r) /\ (s.count > 0 <=> Ev!Ran(report, r.name, r.from, r.to))
<1> DEFINE seen == Ev!LlvmRegions(report)
           read == {Ev!Seen(Ev!LlvmKey(q), q.count) : q \in Ev!LlvmCode(report)}
           key == Ev!LlvmKey(r)
<1>1. /\ Ev!Listed(report.regions) /\ \A q \in Ev!Range(report.regions) : q.count \in Nat
  BY Zenon DEF Ev!ReportIsSound
<1>2. seen \in Seq(read) /\ Ev!Range(seen) = read
  BY <1>1, LlvmRegionsAre
<1>3. Len(seen) \in Nat /\ DOMAIN seen = 1 .. Len(seen)
  <2> HIDE DEF seen, read
  <2> QED
    BY <1>2
<1>4. Ev!ParseCoverage("llvm", report).regions = Ev!Totals(seen)
  BY DEF Ev!ParseCoverage, Ev!ParseLlvm, Ev!Parsed
<1>5. \A q \in Ev!LlvmCode(report) :
        /\ q \in Ev!Range(report.regions) /\ q.kind = 0 /\ q.count \in Nat
        /\ Ev!Seen(Ev!LlvmKey(q), q.count).key = Ev!LlvmKey(q)
        /\ Ev!Seen(Ev!LlvmKey(q), q.count).count = q.count
        /\ Ev!Seen(Ev!LlvmKey(q), q.count) \in read
  BY <1>1 DEF Ev!LlvmCode, Ev!Seen
<1>6. \A s \in read : \E q \in Ev!LlvmCode(report) : s = Ev!Seen(Ev!LlvmKey(q), q.count)
  OBVIOUS
<1> HIDE DEF seen, read
<1>7. \A i \in 1 .. Len(seen) : seen[i] \in read
  BY <1>2, <1>3 DEF Ev!Range
<1>8. \A i \in 1 .. Len(seen) : seen[i].count \in Nat
  BY <1>5, <1>6, <1>7
<1> DEFINE s == Ev!Seen(key, Ev!Total(seen, key))
<1>9. s.key = key /\ s.count = Ev!Total(seen, key)
  BY DEF Ev!Seen
<1>10. s \in Ev!Totals(seen)
  <2>1. key \in Ev!Keys(seen)
    BY <1>2, <1>5 DEF Ev!Keys
  <2> HIDE DEF key
  <2> QED
    BY <2>1 DEF Ev!Totals
<1>11. Ev!Total(seen, key) > 0 <=> \E i \in 1 .. Len(seen) : seen[i].key = key /\ seen[i].count > 0
  BY <1>3, <1>8, TotalIs
<1>12. (\E i \in 1 .. Len(seen) : seen[i].key = key /\ seen[i].count > 0)
         <=> \E q \in Ev!LlvmCode(report) : Ev!LlvmKey(q) = key /\ q.count > 0
  <2>1. ASSUME NEW i \in 1 .. Len(seen), seen[i].key = key, seen[i].count > 0
        PROVE  \E q \in Ev!LlvmCode(report) : Ev!LlvmKey(q) = key /\ q.count > 0
    <3>1. PICK q \in Ev!LlvmCode(report) : seen[i] = Ev!Seen(Ev!LlvmKey(q), q.count)
      BY <1>6, <1>7
    <3> HIDE DEF key
    <3> QED
      BY <1>5, <2>1, <3>1
  <2>2. ASSUME NEW q \in Ev!LlvmCode(report), Ev!LlvmKey(q) = key, q.count > 0
        PROVE  \E i \in 1 .. Len(seen) : seen[i].key = key /\ seen[i].count > 0
    <3>1. PICK i \in 1 .. Len(seen) : seen[i] = Ev!Seen(Ev!LlvmKey(q), q.count)
      BY <1>2, <1>3, <1>5 DEF Ev!Range
    <3> HIDE DEF key
    <3> QED
      BY <1>5, <2>2, <3>1
  <2> HIDE DEF key
  <2> QED
    BY <2>1, <2>2
<1>13. (\E q \in Ev!LlvmCode(report) : Ev!LlvmKey(q) = key /\ q.count > 0)
         <=> Ev!Ran(report, r.name, r.from, r.to)
  <2>1. \A q : Ev!LlvmKey(q) = key <=> /\ ReportPaths[q.name] = ReportPaths[r.name]
                                       /\ q.from = r.from /\ q.to = r.to
    BY DEF Ev!LlvmKey, Ev!Region
  <2>2. \A q : q \in Ev!LlvmCode(report) <=> q \in Ev!Range(report.regions) /\ q.kind = 0
    BY DEF Ev!LlvmCode
  <2>3. \A q : q \in Ev!Range(report.regions) <=>
                 \E i \in DOMAIN report.regions : q = report.regions[i]
    BY DEF Ev!Range
  <2> HIDE DEF key
  <2>4. (\E q \in Ev!LlvmCode(report) : Ev!LlvmKey(q) = key /\ q.count > 0)
          <=> \E i \in DOMAIN report.regions :
                /\ report.regions[i].kind = 0 /\ Ev!LlvmKey(report.regions[i]) = key
                /\ report.regions[i].count > 0
    BY <2>2, <2>3
  <2> QED
    BY <2>1, <2>4 DEF Ev!Ran
<1> HIDE DEF s, key
<1>14. s.count > 0 <=> Ev!Ran(report, r.name, r.from, r.to)
  BY <1>9, <1>11, <1>12, <1>13
<1> QED
  BY <1>4, <1>9, <1>10, <1>14 DEF key

(***************************************************************************)
(* require_evidence_invariants accepts the rows of the reports.            *)
(***************************************************************************)
(* A test that is found has the name, and one that is not has a reason.    *)
LEMMA TestIs ==
  ASSUME NEW in, Captured(in), NEW name
  PROVE  LET files == Ev!WithOutputs(in)
         IN  /\ Ev!TestOf(files, name) # Nothing
                  => Ev!NamesTest(files, Ev!TestOf(files, name), name)
             /\ Ev!TestReason(files, name) \in Ev!TestReasons
<1> DEFINE files == Ev!WithOutputs(in)
           named == Ev!TestsNamed(files, name)
<1>1. IsFiniteSet(Ev!NodesOf(files)) /\ Nothing \notin Ev!NodesOf(files)
  BY FilesAreFinite
<1>2. /\ named \subseteq Ev!NodesOf(files)
      /\ \A id \in named : Ev!NamesTest(files, id, name)
  BY DEF Ev!TestsNamed, Ev!NamesTest
<1>3. Ev!TestReason(files, name) \in Ev!TestReasons
  BY DEF Ev!TestReason, Ev!TestReasons
<1> HIDE DEF files, named
<1>4. IsFiniteSet(named) /\ Nothing \notin named
  BY <1>1, <1>2, FS_Subset
<1>5. Ev!TheOnly(named) # Nothing => Ev!TheOnly(named) \in named
  BY <1>4, OnlyOne
<1>6. Ev!TestOf(files, name) # Nothing => Ev!TestOf(files, name) = Ev!TheOnly(named)
  BY DEF Ev!TestOf, named
<1> QED
  BY <1>2, <1>3, <1>5, <1>6 DEF files

(* The gaps that there are.                                                *)
LEMMA GapsAre ==
  ASSUME NEW files, NEW runs, NEW regions, NEW branches
  PROVE  LET gaps == Ev!GapRows(files, runs, regions, branches)
         IN  /\ \A i \in DOMAIN runs :
                  /\ Ev!NeedsTestGap(files, runs[i].test) =>
                       Ev!Gap(i, Nothing, Nothing, Ev!TestReason(files, runs[i].test), runs[i].test)
                         \in gaps
                  /\ runs[i].read.external > 0 =>
                       Ev!Gap(i, Nothing, Nothing, "coverage-unmapped-file", Nothing) \in gaps
             /\ \A r \in regions :
                  /\ Ev!NeedsTestGap(files, r.key.context) =>
                       Ev!Gap(r.run, r.key.path, Ev!Lines(r.key.from, r.key.to),
                           Ev!TestReason(files, r.key.context), r.key.context) \in gaps
                  /\ Ev!MappingGaps(files, r.run, r.key.path, Ev!Lines(r.key.from, r.key.to))
                       \subseteq gaps
             /\ \A b \in branches :
                  Ev!MappingGaps(files, b.run, b.key.path, Ev!LinesOfBranch(b.key)) \subseteq gaps
<1> DEFINE gaps == Ev!GapRows(files, runs, regions, branches)
<1>1. /\ Ev!RunGaps(files, runs) \subseteq gaps /\ Ev!OutsideGaps(runs) \subseteq gaps
      /\ \A r \in regions : Ev!RegionGaps(files, r) \subseteq gaps
      /\ \A b \in branches : Ev!BranchGaps(files, b) \subseteq gaps
  BY DEF Ev!GapRows
<1>2. ASSUME NEW i \in DOMAIN runs
      PROVE  /\ Ev!NeedsTestGap(files, runs[i].test) =>
                  Ev!Gap(i, Nothing, Nothing, Ev!TestReason(files, runs[i].test), runs[i].test)
                    \in Ev!RunGaps(files, runs)
             /\ runs[i].read.external > 0 =>
                  Ev!Gap(i, Nothing, Nothing, "coverage-unmapped-file", Nothing)
                    \in Ev!OutsideGaps(runs)
  BY DEF Ev!RunGaps, Ev!OutsideGaps
<1>3. ASSUME NEW r \in regions
      PROVE  /\ Ev!NeedsTestGap(files, r.key.context) =>
                  Ev!Gap(r.run, r.key.path, Ev!Lines(r.key.from, r.key.to),
                      Ev!TestReason(files, r.key.context), r.key.context)
                        \in Ev!RegionGaps(files, r)
             /\ Ev!MappingGaps(files, r.run, r.key.path, Ev!Lines(r.key.from, r.key.to))
                  \subseteq Ev!RegionGaps(files, r)
  BY DEF Ev!RegionGaps
<1>4. \A b \in branches :
        Ev!MappingGaps(files, b.run, b.key.path, Ev!LinesOfBranch(b.key)) = Ev!BranchGaps(files, b)
  BY DEF Ev!BranchGaps
<1> HIDE DEF gaps
<1> QED
  BY <1>1, <1>2, <1>3, <1>4 DEF gaps

(* What could not be placed has its gap.                                   *)
LEMMA GapsAreTold ==
  ASSUME NEW in, Captured(in), NEW rows, rows = Ev!Rows(in), NEW row, NEW lines,
         row.run \in DOMAIN rows.runs,
         row.key.path = Outside => rows.runs[row.run].read.external > 0,
         Ev!MappingGaps(rows.files, row.run, row.key.path, lines) \subseteq rows.gaps
  PROVE  Ev!Mapped(rows, row, lines)
<1> DEFINE path == row.key.path
           files == rows.files
<1>1. /\ files = Ev!WithOutputs(in)
      /\ rows.gaps = Ev!GapRows(files, rows.runs, rows.regions, rows.branches)
  BY RowsAre
<1>2. Outside \notin DOMAIN files
  BY <1>1, Zenon DEF Captured, Ev!InputIsSound
<1>3. \A run, p, at, reason, target :
        LET g == Ev!Gap(run, p, at, reason, target)
        IN  g.run = run /\ g.path = p /\ g.lines = at /\ g.reason = reason
  BY DEF Ev!Gap
<1>4. CASE path \notin DOMAIN files /\ path = Outside
  <2> DEFINE g == Ev!Gap(row.run, Nothing, Nothing, "coverage-unmapped-file", Nothing)
  <2>1. rows.runs[row.run].read.external > 0
    BY <1>4
  <2>2. g \in rows.gaps
    BY <1>1, <2>1, GapsAre
  <2>3. /\ g.run = row.run /\ g.path = Nothing /\ g.lines = Nothing
        /\ g.reason = "coverage-unmapped-file"
    BY <1>3
  <2> HIDE DEF g
  <2> QED
    BY <1>4, <2>2, <2>3 DEF Ev!Mapped
<1>5. CASE path \notin DOMAIN files /\ path # Outside
  <2> DEFINE g == Ev!Gap(row.run, path, lines, "coverage-unmapped-file", Nothing)
  <2>1. g \in rows.gaps
    BY <1>5 DEF Ev!MappingGaps
  <2>2. /\ g.run = row.run /\ g.path = path /\ g.lines = lines
        /\ g.reason = "coverage-unmapped-file"
    BY <1>3
  <2> HIDE DEF g
  <2> QED
    BY <1>5, <2>1, <2>2 DEF Ev!Mapped
<1>6. CASE path \in DOMAIN files /\ ~ Ev!HasSymbol(files, path, lines)
  <2> DEFINE g == Ev!Gap(row.run, path, lines, "coverage-unmapped-region", Nothing)
  <2>1. g \in rows.gaps
    BY <1>6 DEF Ev!MappingGaps
  <2>2. /\ g.run = row.run /\ g.path = path /\ g.lines = lines
        /\ g.reason = "coverage-unmapped-region"
    BY <1>3
  <2> HIDE DEF g
  <2> QED
    BY <1>2, <1>6, <2>1, <2>2 DEF Ev!Mapped
<1>7. CASE path \in DOMAIN files /\ Ev!HasSymbol(files, path, lines)
  BY <1>7 DEF Ev!Mapped
<1> QED
  BY <1>4, <1>5, <1>6, <1>7

(* The runs, and what was read for them.                                   *)
LEMMA RunsAre ==
  ASSUME NEW in, Captured(in), NEW i \in DOMAIN Ev!Rows(in).runs
  PROVE  LET m == in.manifest
             run == Ev!Rows(in).runs[i]
             report == in.disk[m.coverage[i].path].report
         IN  /\ i \in DOMAIN m.coverage
             /\ run.format = m.coverage[i].format
             /\ run.node = Ev!TestOf(Ev!WithOutputs(in), run.test)
             /\ Ev!ReportIsSound(run.format, report)
             /\ run.read = Ev!ParseCoverage(run.format, report) /\ ExternalIsTold(run.read)
<1>1. Ev!Rows(in).runs = Ev!RunRows(in, Ev!WithOutputs(in))
  BY RowsAre
<1> DEFINE m == in.manifest
           run == Ev!Rows(in).runs[i]
           report == in.disk[m.coverage[i].path].report
<1>2. /\ i \in DOMAIN m.coverage /\ run.format = m.coverage[i].format
      /\ run.node = Ev!TestOf(Ev!WithOutputs(in), run.test)
      /\ run.read = Ev!ParseCoverage(run.format, report)
  <2>1. i \in DOMAIN m.coverage
    BY <1>1 DEF Ev!RunRows
  <2>2. run = [format |-> m.coverage[i].format, test |-> m.coverage[i].test,
               node |-> Ev!TestOf(Ev!WithOutputs(in), m.coverage[i].test),
               read |-> Ev!ParseCoverage(m.coverage[i].format, report)]
    BY <1>1, <2>1 DEF Ev!RunRows
  <2> HIDE DEF run, report
  <2>3. run.format = m.coverage[i].format /\ run.test = m.coverage[i].test
    BY <2>2
  <2>4. /\ run.node = Ev!TestOf(Ev!WithOutputs(in), m.coverage[i].test)
        /\ run.read = Ev!ParseCoverage(m.coverage[i].format, report)
    BY <2>2
  <2> QED
    BY <2>1, <2>3, <2>4
<1>3. Ev!ReportIsSound(m.coverage[i].format, report)
  BY <1>2, Zenon DEF Captured, Ev!InputIsSound
<1> HIDE DEF run, report
<1>4. ExternalIsTold(run.read)
  BY <1>2, <1>3, ReadIs
<1> QED
  BY <1>2, <1>3, <1>4 DEF run, report

(* A row of a region, and a row of a branch.                               *)
LEMMA RegionIs ==
  ASSUME NEW in, NEW r \in Ev!Rows(in).regions
  PROVE  LET files == Ev!WithOutputs(in)
             runs == Ev!Rows(in).runs
         IN  /\ r.run \in DOMAIN runs /\ \E s \in runs[r.run].read.regions : s.key = r.key
             /\ r.node = IF r.key.context # Nothing THEN Ev!TestOf(files, r.key.context)
                         ELSE IF runs[r.run].format = "llvm" THEN runs[r.run].node ELSE Nothing
<1>1. Ev!Rows(in).regions = Ev!RegionRows(Ev!WithOutputs(in), Ev!Rows(in).runs)
  BY RowsAre
<1> QED
  BY <1>1 DEF Ev!RegionRows

LEMMA BranchIs ==
  ASSUME NEW in, NEW b \in Ev!Rows(in).branches
  PROVE  LET runs == Ev!Rows(in).runs
         IN  /\ b.run \in DOMAIN runs /\ \E s \in runs[b.run].read.branches : s.key = b.key
             /\ b.node = IF runs[b.run].format = "llvm" THEN runs[b.run].node ELSE Nothing
<1>1. Ev!Rows(in).branches = Ev!BranchRows(Ev!Rows(in).runs)
  BY RowsAre
<1> QED
  BY <1>1 DEF Ev!BranchRows

(* What insert_evidence has made sure of before the checks.                *)
ReportsHold(in) ==
  LET runs == Ev!RunRows(in, Ev!WithOutputs(in))
  IN  \A i \in DOMAIN runs :
        runs[i].read.holds /\ \A b \in runs[i].read.branches : Ev!BranchHolds(b.key)

LEMMA CoverageIsSound ==
  ASSUME NEW in, Captured(in), ReportsHold(in)
  PROVE  Ev!CoverageHolds(Ev!Rows(in))
<1> DEFINE files == Ev!WithOutputs(in)
           rows == Ev!Rows(in)
           runs == rows.runs
<1>1. /\ rows.files = files /\ runs = Ev!RunRows(in, files)
      /\ rows.gaps = Ev!GapRows(files, runs, rows.regions, rows.branches)
  BY RowsAre
<1>2. \A name : /\ Ev!TestOf(files, name) # Nothing
                     => Ev!NamesTest(files, Ev!TestOf(files, name), name)
                /\ Ev!TestReason(files, name) \in Ev!TestReasons
  BY TestIs
<1>3. \A i \in DOMAIN runs :
        runs[i].node = Ev!TestOf(files, runs[i].test) /\ ExternalIsTold(runs[i].read)
  BY RunsAre
<1>4. Ev!TestOf(files, Nothing) = Nothing
  BY DEF Ev!TestOf
<1>5. \A run, p, at, reason, target :
        LET g == Ev!Gap(run, p, at, reason, target)
        IN  g.run = run /\ g.path = p /\ g.lines = at /\ g.reason = reason /\ g.target = target
  BY DEF Ev!Gap
<1>6. \A r \in rows.regions :
        /\ r.run \in DOMAIN runs /\ \E s \in runs[r.run].read.regions : s.key = r.key
        /\ r.node = IF r.key.context # Nothing THEN Ev!TestOf(files, r.key.context)
                    ELSE IF runs[r.run].format = "llvm" THEN runs[r.run].node ELSE Nothing
  BY RegionIs
<1>7. \A b \in rows.branches :
        /\ b.run \in DOMAIN runs /\ \E s \in runs[b.run].read.branches : s.key = b.key
        /\ b.node = IF runs[b.run].format = "llvm" THEN runs[b.run].node ELSE Nothing
  BY BranchIs
<1> HIDE DEF files
<1>8. ASSUME NEW i \in DOMAIN runs
      PROVE  /\ runs[i].node # Nothing => Ev!NamesTest(files, runs[i].node, runs[i].test)
             /\ runs[i].test # Nothing /\ runs[i].node = Nothing =>
                  \E g \in rows.gaps :
                    g.run = i /\ g.reason \in Ev!TestReasons /\ g.target = runs[i].test
  <2>1. ASSUME runs[i].test # Nothing, runs[i].node = Nothing
        PROVE  \E g \in rows.gaps :
                 g.run = i /\ g.reason \in Ev!TestReasons /\ g.target = runs[i].test
    <3> DEFINE g == Ev!Gap(i, Nothing, Nothing, Ev!TestReason(files, runs[i].test), runs[i].test)
    <3>1. Ev!NeedsTestGap(files, runs[i].test)
      BY <1>3, <2>1 DEF Ev!NeedsTestGap
    <3>2. g \in rows.gaps
      <4> HIDE DEF runs
      <4> QED
        BY <1>1, <3>1, GapsAre
    <3>3. g.run = i /\ g.reason = Ev!TestReason(files, runs[i].test) /\ g.target = runs[i].test
      BY <1>5
    <3> HIDE DEF g
    <3> QED
      BY <1>2, <3>2, <3>3
  <2>2. ASSUME runs[i].node # Nothing
        PROVE  Ev!NamesTest(files, runs[i].node, runs[i].test)
    BY <1>2, <1>3, <2>2
  <2> QED
    BY <2>1, <2>2
<1>9. ASSUME NEW r \in rows.regions
      PROVE  LET run == runs[r.run]
                 lines == Ev!Lines(r.key.from, r.key.to)
                 context == r.key.context
             IN  /\ context = Nothing =>
                      r.node = IF run.format = "llvm" THEN run.node ELSE Nothing
                 /\ context # Nothing /\ r.node # Nothing => Ev!NamesTest(files, r.node, context)
                 /\ context # Nothing /\ r.node = Nothing =>
                      \E g \in rows.gaps :
                        /\ g.run = r.run /\ g.reason \in Ev!TestReasons /\ g.target = context
                        /\ g.lines = lines
                 /\ Ev!Mapped(rows, r, lines)
  <2> DEFINE run == runs[r.run]
             lines == Ev!Lines(r.key.from, r.key.to)
             context == r.key.context
  <2>1. /\ r.run \in DOMAIN runs
        /\ r.node = IF context # Nothing THEN Ev!TestOf(files, context)
                    ELSE IF run.format = "llvm" THEN run.node ELSE Nothing
    BY <1>6
  <2>2. context # Nothing /\ r.node # Nothing => Ev!NamesTest(files, r.node, context)
    BY <1>2, <2>1
  <2>3. ASSUME context # Nothing, r.node = Nothing
        PROVE  \E g \in rows.gaps :
                 /\ g.run = r.run /\ g.reason \in Ev!TestReasons /\ g.target = context
                 /\ g.lines = lines
    <3> DEFINE g == Ev!Gap(r.run, r.key.path, lines, Ev!TestReason(files, context), context)
    <3>1. Ev!NeedsTestGap(files, context)
      BY <2>1, <2>3 DEF Ev!NeedsTestGap
    <3>2. g \in rows.gaps
      <4> HIDE DEF runs
      <4> QED
        BY <1>1, <3>1, GapsAre
    <3>3. /\ g.run = r.run /\ g.reason = Ev!TestReason(files, context) /\ g.target = context
          /\ g.lines = lines
      BY <1>5
    <3> HIDE DEF g, context, lines
    <3> QED
      BY <1>2, <3>2, <3>3
  <2>4. r.key.path = Outside => run.read.external > 0
    <3>1. PICK s \in run.read.regions : s.key = r.key
      BY <1>6
    <3>2. ExternalIsTold(run.read)
      BY <1>3, <2>1
    <3> HIDE DEF run
    <3> QED
      BY <3>1, <3>2 DEF ExternalIsTold
  <2>5. Ev!MappingGaps(files, r.run, r.key.path, lines) \subseteq rows.gaps
    <3> HIDE DEF runs
    <3> QED
      BY <1>1, GapsAre
  <2>6. Ev!Mapped(rows, r, lines)
    <3> HIDE DEF lines
    <3> QED
      BY <1>1, <2>1, <2>4, <2>5, GapsAreTold
  <2> QED
    BY <2>1, <2>2, <2>3, <2>6
<1>10. ASSUME NEW b \in rows.branches
       PROVE  /\ b.node = IF runs[b.run].format = "llvm" THEN runs[b.run].node ELSE Nothing
              /\ b.key.kind = "arc" => b.key.from > 0 \/ b.key.target > 0
              /\ Ev!Mapped(rows, b, Ev!LinesOfBranch(b.key))
  <2> DEFINE run == runs[b.run]
  <2>1. PICK s \in run.read.branches : s.key = b.key
    BY <1>7
  <2>2. b.run \in DOMAIN runs
    BY <1>7
  <2>3. Ev!BranchHolds(b.key)
    BY <1>1, <2>1, <2>2 DEF ReportsHold, files
  <2>4. b.key.kind = "arc" => b.key.from > 0 \/ b.key.target > 0
    BY <2>3 DEF Ev!BranchHolds, Ev!Ends
  <2>5. b.key.path = Outside => run.read.external > 0
    <3>1. ExternalIsTold(run.read)
      BY <1>3, <2>2
    <3> HIDE DEF run
    <3> QED
      BY <2>1, <3>1 DEF ExternalIsTold
  <2>6. Ev!MappingGaps(files, b.run, b.key.path, Ev!LinesOfBranch(b.key)) \subseteq rows.gaps
    <3> HIDE DEF runs
    <3> QED
      BY <1>1, GapsAre
  <2>7. Ev!Mapped(rows, b, Ev!LinesOfBranch(b.key))
    BY <1>1, <2>2, <2>5, <2>6, GapsAreTold
  <2> QED
    BY <1>7, <2>4, <2>7
<1>11. Ev!CoverageHolds(rows)
  <2> HIDE DEF rows
  <2> QED
    BY <1>1, <1>8, <1>9, <1>10, Zenon DEF Ev!CoverageHolds
<1> QED
  BY <1>11

(***************************************************************************)
(* An import.                                                              *)
(***************************************************************************)
LEMMA ImportCases ==
  ASSUME NEW in
  PROVE  \/ \E why \in {"manifest", "capture", "output", "report", "branch"} :
              Ev!ImportOf(in) = Ev!Refused(why)
         \/ /\ Ev!ManifestHolds(in.manifest) /\ Ev!CaptureHolds(in)
            /\ Ev!ParsedOutputs(in) \intersect DOMAIN in.files = {} /\ ReportsHold(in)
            /\ \/ Ev!ImportOf(in) = Ev!Refused("checks")
                    /\ ~ (Ev!LinksHold(Ev!Rows(in)) /\ Ev!CoverageHolds(Ev!Rows(in)))
               \/ Ev!ImportOf(in) = [status |-> "stored", rows |-> Ev!Rows(in)]
                    /\ Ev!LinksHold(Ev!Rows(in)) /\ Ev!CoverageHolds(Ev!Rows(in))
BY DEF Ev!ImportOf, ReportsHold

(* What is stored of a region of LLVM.                                     *)
LEMMA RegionsAreStored ==
  ASSUME NEW in, Captured(in), NEW i \in DOMAIN in.manifest.coverage,
         in.manifest.coverage[i].format = "llvm"
  PROVE  LET report == in.disk[in.manifest.coverage[i].path].report
         IN  \A r \in Ev!LlvmCode(report) :
               \E row \in Ev!Rows(in).regions :
                 /\ row.run = i /\ row.key = Ev!LlvmKey(r)
                 /\ row.count > 0 <=> Ev!Ran(report, r.name, r.from, r.to)
<1> DEFINE report == in.disk[in.manifest.coverage[i].path].report
           files == Ev!WithOutputs(in)
           runs == Ev!Rows(in).runs
<1>1. Ev!Rows(in).regions = Ev!RegionRows(files, runs) /\ runs = Ev!RunRows(in, files)
  BY RowsAre
<1>2. i \in DOMAIN runs
  BY <1>1 DEF Ev!RunRows
<1>3. Ev!ReportIsSound("llvm", report) /\ runs[i].read = Ev!ParseCoverage("llvm", report)
  BY <1>2, RunsAre
<1> SUFFICES ASSUME NEW r \in Ev!LlvmCode(report)
             PROVE  \E row \in Ev!Rows(in).regions :
                      /\ row.run = i /\ row.key = Ev!LlvmKey(r)
                      /\ row.count > 0 <=> Ev!Ran(report, r.name, r.from, r.to)
  OBVIOUS
<1>4. PICK s \in runs[i].read.regions :
        s.key = Ev!LlvmKey(r) /\ (s.count > 0 <=> Ev!Ran(report, r.name, r.from, r.to))
  BY <1>3, LlvmCounts
<1> DEFINE row == [run |-> i, key |-> s.key, count |-> s.count,
                   node |-> IF s.key.context # Nothing THEN Ev!TestOf(files, s.key.context)
                            ELSE IF runs[i].format = "llvm" THEN runs[i].node ELSE Nothing]
<1> HIDE DEF runs, files, report
<1>5. row \in Ev!RegionRows(files, runs)
  <2> DEFINE Of(j) ==
               {[run |-> j, key |-> q.key, count |-> q.count,
                 node |-> IF q.key.context # Nothing THEN Ev!TestOf(files, q.key.context)
                          ELSE IF runs[j].format = "llvm" THEN runs[j].node ELSE Nothing] :
                  q \in runs[j].read.regions}
  <2>1. row \in Of(i)
    OBVIOUS
  <2>2. Ev!RegionRows(files, runs) = UNION {Of(j) : j \in DOMAIN runs}
    BY DEF Ev!RegionRows
  <2> HIDE DEF Of, row
  <2> QED
    BY <1>2, <2>1, <2>2
<1>6. row.run = i /\ row.key = s.key /\ row.count = s.count
  OBVIOUS
<1> HIDE DEF row
<1> QED
  BY <1>1, <1>4, <1>5, <1>6

LEMMA ImportIsRight ==
  ASSUME result = Ev!ImportOf(input),
         Ev!ManifestHolds(input.manifest) /\ Ev!CaptureHolds(input) => Ev!InputIsSound(input)
  PROVE  Ev!EvidenceIsTheManifests
<1> DEFINE m == input.manifest
           rows == Ev!Rows(input)
<1>1. CASE \E why \in {"manifest", "capture", "output", "report", "branch"} :
             result = Ev!Refused(why)
  <2>1. result.status = "refused" /\ result.why # "checks"
    BY <1>1 DEF Ev!Refused
  <2> QED
    BY <2>1 DEF Ev!EvidenceIsTheManifests
<1>2. CASE Ev!ManifestHolds(m) /\ Ev!CaptureHolds(input) /\ ReportsHold(input)
             /\ Ev!ParsedOutputs(input) \intersect DOMAIN input.files = {}
             /\ result = Ev!Refused("checks") /\ ~ (Ev!LinksHold(rows) /\ Ev!CoverageHolds(rows))
  <2>1. Captured(input)
    BY <1>2 DEF Captured
  <2>2. Ev!CoverageHolds(rows)
    BY <1>2, <2>1, CoverageIsSound
  <2>3. Ev!Nested(input) \/ Ev!Outdated(input)
    BY <1>2, <2>1, <2>2, LinksAreSound
  <2>4. result.status = "refused"
    BY <1>2 DEF Ev!Refused
  <2> QED
    BY <2>3, <2>4 DEF Ev!EvidenceIsTheManifests
<1>3. CASE Ev!ManifestHolds(m) /\ Ev!CaptureHolds(input) /\ ReportsHold(input)
             /\ Ev!ParsedOutputs(input) \intersect DOMAIN input.files = {}
             /\ result = [status |-> "stored", rows |-> rows] /\ Ev!CoverageHolds(rows)
  <2>1. Captured(input)
    BY <1>3 DEF Captured
  <2>2. result.status = "stored" /\ result.rows = rows
    BY <1>3
  <2> HIDE DEF rows
  <2>3. ASSUME NEW g \in Ev!Range(m.generated)
        PROVE  /\ input.selected[g.input.path].id = g.inputId
               /\ input.disk[g.output.path].id = g.outputId
    <3>1. PICK i \in DOMAIN m.generated : g = m.generated[i]
      BY DEF Ev!Range
    <3> QED
      BY <1>3, <3>1 DEF Ev!CaptureHolds, Ev!Attested
  <2>4. ASSUME NEW i \in DOMAIN m.coverage, m.coverage[i].format = "llvm"
        PROVE  LET report == input.disk[m.coverage[i].path].report
               IN  \A r \in {q \in Ev!Range(report.regions) : q.kind = 0} :
                     \E row \in rows.regions :
                       /\ row.run = i
                       /\ row.key = Ev!Region(ReportPaths[r.name], r.from, r.to, Nothing)
                       /\ (row.count > 0) = Ev!Ran(report, r.name, r.from, r.to)
    <3> DEFINE report == input.disk[m.coverage[i].path].report
    <3>1. \A r \in Ev!LlvmCode(report) :
            \E row \in rows.regions :
              /\ row.run = i /\ row.key = Ev!LlvmKey(r)
              /\ row.count > 0 <=> Ev!Ran(report, r.name, r.from, r.to)
      BY <2>1, <2>4, RegionsAreStored DEF rows
    <3>2. Ev!LlvmCode(report) = {q \in Ev!Range(report.regions) : q.kind = 0}
      BY DEF Ev!LlvmCode
    <3>3. \A r : Ev!LlvmKey(r) = Ev!Region(ReportPaths[r.name], r.from, r.to, Nothing)
      BY DEF Ev!LlvmKey
    <3>4. \A r : Ev!Ran(report, r.name, r.from, r.to) \in BOOLEAN
      BY DEF Ev!Ran
    <3> HIDE DEF report
    <3>5. \A r \in {q \in Ev!Range(report.regions) : q.kind = 0} :
            \E row \in rows.regions :
              /\ row.run = i
              /\ row.key = Ev!Region(ReportPaths[r.name], r.from, r.to, Nothing)
              /\ (row.count > 0) = Ev!Ran(report, r.name, r.from, r.to)
      BY <3>1, <3>2, <3>3, <3>4
    <3> QED
      BY <3>5 DEF report
  <2>5. \A site \in rows.unobserved : \A l \in rows.links : l.site # site
    <3>1. rows.unobserved = Ev!Unobserved(Ev!WithOutputs(input), rows.links)
      BY RowsAre DEF rows
    <3> QED
      BY <3>1 DEF Ev!Unobserved
  <2>6. ASSUME NEW r \in rows.regions
        PROVE  \/ r.key.path \in DOMAIN rows.files
                    /\ Ev!HasSymbol(rows.files, r.key.path, Ev!Lines(r.key.from, r.key.to))
               \/ \E g \in rows.gaps :
                    /\ g.run = r.run /\ g.reason \notin Ev!TestReasons
                    /\ g.path \in {r.key.path, Nothing}
    <3>1. Ev!Mapped(rows, r, Ev!Lines(r.key.from, r.key.to))
      BY <1>3, Zenon DEF Ev!CoverageHolds
    <3>2. /\ "coverage-unmapped-file" \notin Ev!TestReasons
          /\ "coverage-unmapped-region" \notin Ev!TestReasons
      BY DEF Ev!TestReasons
    <3> QED
      BY <3>1, <3>2 DEF Ev!Mapped
  <2>7. result.status # "refused"
    BY <2>2
  <2> QED
    BY <2>2, <2>3, <2>4, <2>5, <2>6, <2>7, Zenon DEF Ev!EvidenceIsTheManifests
<1>4. \/ \E why \in {"manifest", "capture", "output", "report", "branch"} : result = Ev!Refused(why)
      \/ /\ Ev!ManifestHolds(m) /\ Ev!CaptureHolds(input)
         /\ Ev!ParsedOutputs(input) \intersect DOMAIN input.files = {} /\ ReportsHold(input)
         /\ \/ result = Ev!Refused("checks") /\ ~ (Ev!LinksHold(rows) /\ Ev!CoverageHolds(rows))
            \/ /\ result = [status |-> "stored", rows |-> rows]
               /\ Ev!LinksHold(rows) /\ Ev!CoverageHolds(rows)
  BY ImportCases, Zenon
<1> HIDE DEF m, rows
<1> QED
  BY <1>1, <1>2, <1>3, <1>4, Zenon

(* A result is the import of what was found, or what a review says of it.  *)
InputHolds ==
  Ev!ManifestHolds(input.manifest) /\ Ev!CaptureHolds(input) =>
    /\ Ev!InputIsSound(input)
    /\ \A asked \in input.asked : Ev!AskIsSound(Ev!WithOutputs(input), asked)
Reviewed ==
  /\ Ev!ImportOf(input).status = "stored"
  /\ \E asked \in input.asked :
       result = [status |-> "reviewed", rows |-> Ev!ImportOf(input).rows,
                 review |-> Ev!ReviewOf(input, Ev!ImportOf(input).rows, asked)]
ImportInv == result # Nothing => InputHolds /\ (result = Ev!ImportOf(input) \/ Reviewed)

LEMMA ImportKept ==
  ASSUME ImportInv, Ev!NextReview
  PROVE  ImportInv'
<1>1. CASE Ev!Import
  <2>1. PICK family \in Manifests : \E in \in family.inputs, disk \in family.disks :
              input' = Ev!Found(in, disk) /\ result' = Ev!ImportOf(Ev!Found(in, disk))
    BY <1>1 DEF Ev!Import
  <2>2. PICK in \in family.inputs, disk \in family.disks :
          input' = Ev!Found(in, disk) /\ result' = Ev!ImportOf(Ev!Found(in, disk))
    BY <2>1
  <2> DEFINE found == Ev!Found(in, disk)
  <2>3. Ev!ManifestHolds(found.manifest) /\ Ev!CaptureHolds(found) => Ev!InputIsSound(found)
    BY EvidenceAssumption, Zenon DEF EvidenceAssumption, Ev!InputsAreSound
  <2>4. Ev!ManifestHolds(found.manifest) /\ Ev!CaptureHolds(found) =>
          \A asked \in found.asked : Ev!AskIsSound(Ev!WithOutputs(found), asked)
    BY EvidenceAssumption, Zenon DEF EvidenceAssumption, Ev!AsksAreSound
  <2> HIDE DEF found
  <2>5. input' = found /\ result' = Ev!ImportOf(found)
    BY <2>2 DEF found
  <2> QED
    BY <2>3, <2>4, <2>5 DEF ImportInv, InputHolds
<1>2. CASE Ev!Review
  <2>1. /\ result # Nothing /\ result.status = "stored" /\ input' = input
        /\ \E asked \in input.asked :
             result' = [status |-> "reviewed", rows |-> result.rows,
                        review |-> Ev!ReviewOf(input, result.rows, asked)]
    BY <1>2 DEF Ev!Review
  <2>2. ~ Reviewed
    BY <2>1 DEF Reviewed
  <2>3. result = Ev!ImportOf(input) /\ InputHolds
    BY <2>1, <2>2 DEF ImportInv
  <2>4. Reviewed' /\ InputHolds'
    BY <2>1, <2>3 DEF Reviewed, InputHolds
  <2> QED
    BY <2>4 DEF ImportInv
<1> QED
  BY <1>1, <1>2 DEF Ev!NextReview

(* The invariant of the part of a review that is about evidence.           *)
LEMMA EvidenceKept ==
  ASSUME part = "evidence" => ImportInv, [NextAnswers]_answersVars, part' = "evidence"
  PROVE  ImportInv'
<1>1. CASE EvidenceStep
  BY <1>1, ImportKept DEF EvidenceStep
<1>2. CASE ChangesStep
  <2>1. part = "git" /\ part' = part
    BY <1>2 DEF ChangesStep, callsVars
  <2> QED
    BY <2>1
<1>3. CASE PagesStep
  <2>1. part = "pages" /\ part' = part
    BY <1>3 DEF PagesStep, callsVars
  <2> QED
    BY <2>1
<1>4. CASE UNCHANGED answersVars
  <2>1. part' = part /\ input' = input /\ result' = result
    BY <1>4 DEF answersVars, callsVars, answered
  <2> QED
    BY <2>1 DEF ImportInv, InputHolds, Reviewed
<1> QED
  BY <1>1, <1>2, <1>3, <1>4 DEF NextAnswers

(* A manifest that is captured as it was declared and whose reports can be *)
(* read is imported, and what is stored of it is what it and its reports   *)
(* say: capture_manifest, parse_coverage, build_generated_evidence and     *)
(* insert_evidence against require_provenance_invariants and               *)
(* require_evidence_invariants, for any manifests, files and reports.      *)
THEOREM ImportsAreTheManifests == SpecAnswers => []EvidenceIsTheManifests
<1>1. InitAnswers => (part = "evidence" => ImportInv)
  BY DEF InitAnswers, Ev!Init, ImportInv
<1>2. (part = "evidence" => ImportInv) /\ [NextAnswers]_answersVars
        => (part = "evidence" => ImportInv)'
  BY EvidenceKept
<1>3. (part = "evidence" => ImportInv) => EvidenceIsTheManifests
  <2> SUFFICES ASSUME ImportInv
               PROVE  Ev!EvidenceIsTheManifests
    BY DEF EvidenceIsTheManifests
  <2>1. CASE result = Nothing
    BY <2>1 DEF Ev!EvidenceIsTheManifests
  <2>2. CASE result # Nothing /\ result = Ev!ImportOf(input)
    BY <2>2, ImportIsRight DEF ImportInv, InputHolds
  <2>3. CASE Reviewed
    <3>1. result.status = "reviewed"
      BY <2>3 DEF Reviewed
    <3> QED
      BY <3>1 DEF Ev!EvidenceIsTheManifests
  <2> QED
    BY <2>1, <2>2, <2>3 DEF ImportInv
<1> QED
  BY <1>1, <1>2, <1>3, PTL DEF SpecAnswers

(***************************************************************************)
(* Scopes: what following the links adds to one.                           *)
(***************************************************************************)
IsScope(s) == s = Ev!Scope(s.whole, s.ranges, s.nodes)
Within(s, t) == s.whole = t.whole /\ s.ranges \subseteq t.ranges /\ s.nodes \subseteq t.nodes

(* All of a link is in a scope.                                            *)
Has(files, link, s) ==
  /\ \A x \in Ev!LinkSpans(files, link) : x \in s.ranges \/ x.path \in s.whole
  /\ Ev!LinkNodes(files, link) \subseteq s.nodes

(* Lines that links do not lead out of.                                    *)
ClosedUnder(files, links, whole, lines) ==
  \A l \in links :
    (\E x \in Ev!LinkSpans(files, l) : x.path \in whole \/ \E r \in lines : Ev!Overlap(r, x))
      => Ev!LinkSpans(files, l) \subseteq lines

AllNodes(files, links) == UNION {Ev!LinkNodes(files, l) : l \in links}
AllSpans(files, links) == UNION {Ev!LinkSpans(files, l) : l \in links}

LEMMA FollowIs ==
  ASSUME NEW files, NEW l, NEW s, IsScope(s)
  PROVE  LET t == Ev!Follow(files, l, s)
         IN  /\ IsScope(t) /\ Within(s, t)
             /\ t.ranges \subseteq s.ranges \union Ev!LinkSpans(files, l)
             /\ t.nodes \subseteq s.nodes \union Ev!LinkNodes(files, l)
             /\ ~ Ev!Touches(s, files, l) => t = s
             /\ Ev!Touches(s, files, l) => Has(files, l, t)
             /\ Has(files, l, s) => t = s
<1> DEFINE t == Ev!Follow(files, l, s)
           spans == Ev!LinkSpans(files, l)
           nodes == Ev!LinkNodes(files, l)
<1>1. CASE ~ Ev!Touches(s, files, l)
  <2>1. t = s
    BY <1>1 DEF Ev!Follow
  <2> QED
    BY <1>1, <2>1 DEF Within
<1>2. CASE Ev!Touches(s, files, l)
  <2> DEFINE added == s.ranges \union {x \in spans : x.path \notin s.whole}
  <2>1. t = Ev!Scope(s.whole, added, s.nodes \union nodes)
    BY <1>2 DEF Ev!Follow, Ev!AddRanges, IsScope, Ev!Scope
  <2>2. t.whole = s.whole /\ t.ranges = added /\ t.nodes = s.nodes \union nodes
    BY <2>1 DEF Ev!Scope
  <2>3. IsScope(t)
    BY <2>1, <2>2 DEF IsScope
  <2>4. Has(files, l, t)
    BY <2>2 DEF Has
  <2>5. ASSUME Has(files, l, s)
        PROVE  t = s
    <3>1. added = s.ranges /\ s.nodes \union nodes = s.nodes
      BY <2>5 DEF Has
    <3> QED
      BY <2>1, <3>1 DEF IsScope
  <2> QED
    BY <1>2, <2>2, <2>3, <2>4, <2>5 DEF Within
<1> QED
  BY <1>1, <1>2

LEMMA WithinKeeps ==
  ASSUME NEW files, NEW l, NEW s, NEW t, Within(s, t)
  PROVE  /\ Has(files, l, s) => Has(files, l, t)
         /\ Ev!Touches(s, files, l) => Ev!Touches(t, files, l)
         /\ \A u : Within(t, u) => Within(s, u)
<1>1. Has(files, l, s) => Has(files, l, t)
  BY DEF Within, Has
<1>2. Ev!Touches(s, files, l) => Ev!Touches(t, files, l)
  BY DEF Within, Ev!Touches, Ev!Relevant
<1>3. \A u : Within(t, u) => Within(s, u)
  BY DEF Within
<1> QED
  BY <1>1, <1>2, <1>3

(* Lines that links do not lead out of stay so when one is followed.       *)
LEMMA FollowStays ==
  ASSUME NEW files, NEW links, NEW l \in links, NEW s, IsScope(s), NEW lines,
         ClosedUnder(files, links, s.whole, lines), s.ranges \subseteq lines
  PROVE  Ev!Follow(files, l, s).ranges \subseteq lines
<1>1. CASE Ev!Touches(s, files, l)
  <2>1. \E x \in Ev!LinkSpans(files, l) :
          x.path \in s.whole \/ \E r \in lines : Ev!Overlap(r, x)
    BY <1>1 DEF Ev!Touches, Ev!Relevant
  <2>2. Ev!LinkSpans(files, l) \subseteq lines
    BY <2>1 DEF ClosedUnder
  <2> QED
    BY <2>2, FollowIs
<1>2. CASE ~ Ev!Touches(s, files, l)
  BY <1>2, FollowIs
<1> QED
  BY <1>1, <1>2

(* A finite set in a row.                                                  *)
LEMMA OrderIs ==
  ASSUME NEW S, IsFiniteSet(S)
  PROVE  LET order == Ev!SetToSeq(S)
             n == Ev!Cardinality(S)
         IN  /\ n \in Nat /\ order \in [1 .. n -> S] /\ Len(order) = n
             /\ \A x \in S : \E i \in 1 .. n : order[i] = x
<1> DEFINE n == Cardinality(S)
           Ordered(f) == f \in [1 .. n -> S] /\ Ev!IsInjective(f)
           order == CHOOSE f \in [1 .. n -> S] : Ev!IsInjective(f)
<1>1. n \in Nat /\ ExistsBijection(1 .. n, S)
  BY FS_CardinalityType
<1>2. PICK f : f \in Bijection(1 .. n, S)
  BY <1>1 DEF ExistsBijection
<1>3. Ordered(f)
  BY <1>2 DEF Bijection, Injection, IsInjective, Ev!IsInjective
<1>4. Ordered(order)
  BY <1>3
<1>5. Ev!SetToSeq(S) = order /\ Ev!Cardinality(S) = n
  BY SameCardinality, Zenon DEF Ev!SetToSeq
<1> HIDE DEF order
<1>6. order \in Injection(1 .. n, S)
  BY <1>4 DEF Injection, IsInjective, Ev!IsInjective
<1>7. Cardinality(1 .. n) = n
  <2> HIDE DEF n
  <2> QED
    BY <1>1, FS_Interval
<1>8. order \in Surjection(1 .. n, S)
  BY <1>6, <1>7, FS_Injection
<1>9. \A x \in S : \E i \in 1 .. n : order[i] = x
  BY <1>8 DEF Surjection
<1>10. Len(order) = n
  <2> HIDE DEF n
  <2>1. order \in Seq(S)
    BY <1>1, <1>4
  <2> QED
    BY <1>1, <1>4, <2>1
<1> HIDE DEF n
<1> QED
  BY <1>1, <1>4, <1>5, <1>9, <1>10
(***************************************************************************)
(* A pass, and passes until nothing is added.                              *)
(***************************************************************************)
Scopes(files, links, s) ==
  [whole : {s.whole}, ranges : SUBSET (s.ranges \union AllSpans(files, links)),
   nodes : SUBSET (s.nodes \union AllNodes(files, links))]

LEMMA ScopesAre ==
  ASSUME NEW files, NEW links, NEW s, IsScope(s), NEW t
  PROVE  t \in Scopes(files, links, s) <=>
           /\ IsScope(t) /\ t.whole = s.whole
           /\ t.ranges \subseteq s.ranges \union AllSpans(files, links)
           /\ t.nodes \subseteq s.nodes \union AllNodes(files, links)
BY DEF Scopes, IsScope, Ev!Scope

(* What satisfies the recursion of a pass.                                 *)
Following(files, order, s, f) ==
  [n \in 0 .. Len(order) |-> IF n = 0 THEN s ELSE Ev!Follow(files, order[n], f[n - 1])]

LEMMA PassTaken ==
  ASSUME NEW rows, IsFiniteSet(rows.links), NEW s, IsScope(s)
  PROVE  LET order == Ev!SetToSeq(rows.links)
             n == Ev!Cardinality(rows.links)
         IN  \E f : /\ f[0] = s /\ f[n] = Ev!Pass(rows, s)
                    /\ \A i \in 1 .. n : f[i] = Ev!Follow(rows.files, order[i], f[i - 1])
<1> DEFINE order == Ev!SetToSeq(rows.links)
           m == Ev!Cardinality(rows.links)
           files == rows.files
           X == Scopes(files, rows.links, s)
           step == [i \in 1 .. m |-> [t \in X |-> Ev!Follow(files, order[i], t)]]
<1>1. m \in Nat /\ order \in [1 .. m -> rows.links] /\ Len(order) = m
  BY OrderIs
<1> HIDE DEF order, m, X
<1>2. s \in X
  BY ScopesAre DEF X
<1>3. \A l \in rows.links : /\ Ev!LinkSpans(files, l) \subseteq AllSpans(files, rows.links)
                            /\ Ev!LinkNodes(files, l) \subseteq AllNodes(files, rows.links)
  BY DEF AllSpans, AllNodes
<1>4. ASSUME NEW i \in 1 .. m, NEW t \in X
      PROVE  Ev!Follow(files, order[i], t) \in X
  <2>1. /\ IsScope(t) /\ t.whole = s.whole
        /\ t.ranges \subseteq s.ranges \union AllSpans(files, rows.links)
        /\ t.nodes \subseteq s.nodes \union AllNodes(files, rows.links)
    BY ScopesAre DEF X
  <2> DEFINE u == Ev!Follow(files, order[i], t)
  <2>2. /\ IsScope(u) /\ Within(t, u)
        /\ u.ranges \subseteq t.ranges \union Ev!LinkSpans(files, order[i])
        /\ u.nodes \subseteq t.nodes \union Ev!LinkNodes(files, order[i])
    BY <2>1, FollowIs
  <2> HIDE DEF u
  <2>3. order[i] \in rows.links
    BY <1>1
  <2>4. /\ u.whole = s.whole
        /\ u.ranges \subseteq s.ranges \union AllSpans(files, rows.links)
        /\ u.nodes \subseteq s.nodes \union AllNodes(files, rows.links)
    BY <1>3, <2>1, <2>2, <2>3 DEF Within
  <2>5. u \in X
    BY <2>2, <2>4, ScopesAre DEF X
  <2> QED
    BY <2>5 DEF u
<1>5. step \in [1 .. m -> [X -> X]]
  BY <1>4
<1>6. PICK F : Taken(F, X, m, s, step)
  <2> HIDE DEF step
  <2> QED
    BY <1>1, <1>2, <1>5, Recursion
<1>7. \A i \in 0 .. m : F[i] = IF i = 0 THEN s ELSE Ev!Follow(files, order[i], F[i - 1])
  <2> SUFFICES ASSUME NEW i \in 0 .. m, i # 0
               PROVE  F[i] = Ev!Follow(files, order[i], F[i - 1])
    BY <1>6 DEF Taken
  <2>1. i \in 1 .. m /\ i - 1 \in 0 .. m
    BY <1>1
  <2>2. F[i - 1] \in X /\ F[i] = step[i][F[i - 1]]
    BY <1>6, <2>1 DEF Taken
  <2> QED
    BY <2>1, <2>2
<1> HIDE DEF step
<1>8. F = Following(files, order, s, F)
  BY <1>1, <1>6, <1>7 DEF Following, Taken
<1> DEFINE G == CHOOSE f : f = Following(files, order, s, f)
<1>9. G = Following(files, order, s, G)
  BY <1>8
<1>10. Ev!Pass(rows, s) = G[Len(order)]
  BY Zenon DEF Ev!Pass, Following, order, files
<1> HIDE DEF G
<1>11. \A i \in 0 .. m : G[i] = IF i = 0 THEN s ELSE Ev!Follow(files, order[i], G[i - 1])
  BY <1>1, <1>9 DEF Following
<1>12. /\ G[0] = s /\ G[m] = Ev!Pass(rows, s)
       /\ \A i \in 1 .. m : G[i] = Ev!Follow(files, order[i], G[i - 1])
  <2>1. 0 \in 0 .. m /\ \A i \in 1 .. m : i \in 0 .. m /\ i # 0
    BY <1>1
  <2> QED
    BY <1>1, <1>10, <1>11, <2>1
<1> QED
  BY <1>12 DEF order, m, files

(* A pass over the links of an image.                                      *)
LEMMA PassIs ==
  ASSUME NEW rows, IsFiniteSet(rows.links), NEW s, IsScope(s)
  PROVE  LET t == Ev!Pass(rows, s)
         IN  /\ IsScope(t) /\ Within(s, t)
             /\ t.nodes \subseteq s.nodes \union AllNodes(rows.files, rows.links)
             /\ \A l \in rows.links : Ev!Touches(s, rows.files, l) => Has(rows.files, l, t)
             /\ t = s \/ \E l \in rows.links : Has(rows.files, l, t) /\ ~ Has(rows.files, l, s)
             /\ \A lines :
                  ClosedUnder(rows.files, rows.links, s.whole, lines) /\ s.ranges \subseteq lines
                    => t.ranges \subseteq lines
<1> DEFINE order == Ev!SetToSeq(rows.links)
           m == Ev!Cardinality(rows.links)
           files == rows.files
<1>1. PICK f : /\ f[0] = s /\ f[m] = Ev!Pass(rows, s)
               /\ \A i \in 1 .. m : f[i] = Ev!Follow(files, order[i], f[i - 1])
  BY PassTaken
<1>2. /\ m \in Nat /\ order \in [1 .. m -> rows.links]
      /\ \A l \in rows.links : \E i \in 1 .. m : order[i] = l
  BY OrderIs
<1> HIDE DEF order, m
<1> DEFINE Kept(t) == /\ IsScope(t) /\ Within(s, t)
                      /\ t.nodes \subseteq s.nodes \union AllNodes(files, rows.links)
           Reaches(n, t) == \A i \in 1 .. n :
                              Ev!Touches(s, files, order[i]) => Has(files, order[i], t)
           Grows(t) == t = s \/ \E l \in rows.links : Has(files, l, t) /\ ~ Has(files, l, s)
           Stays(t) == \A lines :
                         ClosedUnder(files, rows.links, s.whole, lines) /\ s.ranges \subseteq lines
                           => t.ranges \subseteq lines
           Right(n) == Kept(f[n]) /\ Reaches(n, f[n]) /\ Grows(f[n]) /\ Stays(f[n])
           Wrong == {n \in 0 .. m : ~ Right(n)}
<1>3. CASE Wrong # {}
  <2>1. Wrong \subseteq Nat
    OBVIOUS
  <2> HIDE DEF Wrong
  <2>2. PICK n \in Wrong : \A k \in Wrong : n <= k
    BY <1>3, <2>1, Least
  <2> USE DEF Wrong
  <2> HIDE DEF Right
  <2>3. n \in 0 .. m /\ ~ Right(n)
    OBVIOUS
  <2>4. n # 0
    <3>1. Kept(s) /\ Grows(s) /\ Stays(s)
      BY DEF Within
    <3>2. Reaches(0, s)
      OBVIOUS
    <3> HIDE DEF Kept, Reaches, Grows, Stays
    <3>3. Right(0)
      BY <1>1, <3>1, <3>2 DEF Right
    <3> QED
      BY <2>3, <3>3
  <2>5. n - 1 \in 0 .. m /\ n \in 1 .. m /\ ~ (n <= n - 1)
    BY <1>2, <2>3, <2>4
  <2>6. Right(n - 1)
    BY <2>2, <2>5
  <2> DEFINE t == f[n - 1]
             u == f[n]
             l == order[n]
  <2>7. Kept(t) /\ Reaches(n - 1, t) /\ Grows(t) /\ Stays(t)
    BY <2>6 DEF Right
  <2>8. l \in rows.links /\ u = Ev!Follow(files, l, t)
    BY <1>1, <1>2, <2>5
  <2> HIDE DEF t, u, l
  <2>9. /\ IsScope(u) /\ Within(t, u)
        /\ u.nodes \subseteq t.nodes \union Ev!LinkNodes(files, l)
        /\ ~ Ev!Touches(t, files, l) => u = t
        /\ Ev!Touches(t, files, l) => Has(files, l, u)
        /\ Has(files, l, t) => u = t
    BY <2>7, <2>8, FollowIs
  <2>10. Kept(u)
    <3>1. Within(s, u)
      BY <2>7, <2>9, WithinKeeps
    <3>2. Ev!LinkNodes(files, l) \subseteq AllNodes(files, rows.links)
      BY <2>8 DEF AllNodes
    <3> QED
      BY <2>7, <2>9, <3>1, <3>2
  <2>11. Reaches(n, u)
    <3> SUFFICES ASSUME NEW i \in 1 .. n, Ev!Touches(s, files, order[i])
                 PROVE  Has(files, order[i], u)
      OBVIOUS
    <3>1. CASE i = n
      <4>1. Ev!Touches(t, files, l)
        BY <2>7, <3>1, WithinKeeps DEF l
      <4> QED
        BY <2>9, <3>1, <4>1 DEF l
    <3>2. CASE i # n
      <4>1. i \in 1 .. n - 1
        BY <2>5, <3>2
      <4>2. Has(files, order[i], t)
        BY <2>7, <4>1
      <4> QED
        BY <2>9, <4>2, WithinKeeps
    <3> QED
      BY <3>1, <3>2
  <2>12. Grows(u)
    <3>1. CASE u = t
      BY <2>7, <3>1
    <3>2. CASE u # t
      <4>1. ~ Has(files, l, t) /\ Has(files, l, u)
        BY <2>9, <3>2
      <4>2. ~ Has(files, l, s)
        BY <2>7, <4>1, WithinKeeps
      <4> QED
        BY <2>8, <4>1, <4>2
    <3> QED
      BY <3>1, <3>2
  <2>13. Stays(u)
    <3> SUFFICES ASSUME NEW lines, ClosedUnder(files, rows.links, s.whole, lines),
                        s.ranges \subseteq lines
                 PROVE  u.ranges \subseteq lines
      OBVIOUS
    <3>1. t.ranges \subseteq lines /\ t.whole = s.whole /\ IsScope(t)
      BY <2>7 DEF Within
    <3>2. ClosedUnder(files, rows.links, t.whole, lines)
      BY <3>1
    <3> QED
      BY <2>8, <3>1, <3>2, FollowStays
  <2> HIDE DEF Kept, Reaches, Grows, Stays
  <2> QED
    BY <2>3, <2>10, <2>11, <2>12, <2>13 DEF Right, u
<1>4. CASE Wrong = {}
  <2>1. Right(m)
    <3> HIDE DEF Right
    <3> QED
      BY <1>2, <1>4
  <2> DEFINE t == Ev!Pass(rows, s)
  <2>2. Kept(t) /\ Reaches(m, t) /\ Grows(t) /\ Stays(t)
    <3> HIDE DEF Kept, Reaches, Grows, Stays
    <3> QED
      BY <1>1, <2>1
  <2> HIDE DEF t
  <2>3. \A l \in rows.links : Ev!Touches(s, files, l) => Has(files, l, t)
    BY <1>2, <2>2
  <2> QED
    BY <2>2, <2>3 DEF t
<1> QED
  BY <1>3, <1>4
(* What satisfies the recursion of the passes.                             *)
Passing(rows, most, s, f) ==
  [n \in 0 .. most + 1 |-> IF n = 0 THEN s ELSE Ev!Pass(rows, f[n - 1])]

LEMMA ExpandTaken ==
  ASSUME NEW rows, IsFiniteSet(rows.links), NEW s, IsScope(s)
  PROVE  LET most == Ev!Cardinality(rows.links)
         IN  \E f : /\ f[0] = s
                    /\ \A n \in 1 .. most + 1 : f[n] = Ev!Pass(rows, f[n - 1])
                    /\ Ev!Expand(rows, s) = f[CHOOSE n \in 0 .. most : f[n + 1] = f[n]]
<1> DEFINE most == Ev!Cardinality(rows.links)
           files == rows.files
           X == Scopes(files, rows.links, s)
           all == s.ranges \union AllSpans(files, rows.links)
           step == [i \in 1 .. most + 1 |-> [t \in X |-> Ev!Pass(rows, t)]]
<1>1. most \in Nat
  BY OrderIs
<1> HIDE DEF most, X
<1>2. s \in X
  BY ScopesAre DEF X
<1>3. ASSUME NEW t \in X
      PROVE  Ev!Pass(rows, t) \in X
  <2>1. /\ IsScope(t) /\ t.whole = s.whole
        /\ t.ranges \subseteq all
        /\ t.nodes \subseteq s.nodes \union AllNodes(files, rows.links)
    BY ScopesAre DEF X
  <2> DEFINE u == Ev!Pass(rows, t)
  <2>2. /\ IsScope(u) /\ Within(t, u)
        /\ u.nodes \subseteq t.nodes \union AllNodes(files, rows.links)
        /\ ClosedUnder(files, rows.links, t.whole, all) /\ t.ranges \subseteq all
             => u.ranges \subseteq all
    BY <2>1, PassIs
  <2> HIDE DEF u
  <2>3. ClosedUnder(files, rows.links, t.whole, all)
    BY DEF ClosedUnder, AllSpans
  <2>4. /\ u.whole = s.whole /\ u.ranges \subseteq all
        /\ u.nodes \subseteq s.nodes \union AllNodes(files, rows.links)
    BY <2>1, <2>2, <2>3 DEF Within
  <2>5. u \in X
    BY <2>2, <2>4, ScopesAre DEF X
  <2> QED
    BY <2>5 DEF u
<1>4. step \in [1 .. most + 1 -> [X -> X]]
  BY <1>3
<1>5. PICK F : Taken(F, X, most + 1, s, step)
  <2> HIDE DEF step
  <2> QED
    BY <1>1, <1>2, <1>4, Recursion
<1>6. \A i \in 0 .. most + 1 : F[i] = IF i = 0 THEN s ELSE Ev!Pass(rows, F[i - 1])
  <2> SUFFICES ASSUME NEW i \in 0 .. most + 1, i # 0
               PROVE  F[i] = Ev!Pass(rows, F[i - 1])
    BY <1>5 DEF Taken
  <2>1. i \in 1 .. most + 1 /\ i - 1 \in 0 .. most + 1
    BY <1>1
  <2>2. F[i - 1] \in X /\ F[i] = step[i][F[i - 1]]
    BY <1>5, <2>1 DEF Taken
  <2> QED
    BY <2>1, <2>2
<1> HIDE DEF step
<1>7. F = Passing(rows, most, s, F)
  BY <1>5, <1>6 DEF Passing, Taken
<1> DEFINE G == CHOOSE f : f = Passing(rows, most, s, f)
<1>8. G = Passing(rows, most, s, G)
  BY <1>7
<1>9. Ev!Expand(rows, s) = G[CHOOSE n \in 0 .. most : G[n + 1] = G[n]]
  BY Zenon DEF Ev!Expand, Passing, most
<1> HIDE DEF G
<1>10. \A i \in 0 .. most + 1 : G[i] = IF i = 0 THEN s ELSE Ev!Pass(rows, G[i - 1])
  BY <1>8 DEF Passing
<1>11. G[0] = s /\ \A n \in 1 .. most + 1 : G[n] = Ev!Pass(rows, G[n - 1])
  <2>1. 0 \in 0 .. most + 1 /\ \A n \in 1 .. most + 1 : n \in 0 .. most + 1 /\ n # 0
    BY <1>1
  <2> QED
    BY <1>10, <2>1
<1> QED
  BY <1>9, <1>11 DEF most

(* The passes come to an end, as each of them that adds anything has a     *)
(* link more, and what they end in is all that the links lead to.          *)
LEMMA ExpandIs ==
  ASSUME NEW rows, IsFiniteSet(rows.links), NEW s, IsScope(s)
  PROVE  LET t == Ev!Expand(rows, s)
         IN  /\ IsScope(t) /\ Within(s, t)
             /\ \A l \in rows.links : Ev!Touches(t, rows.files, l) => Has(rows.files, l, t)
             /\ \A lines :
                  ClosedUnder(rows.files, rows.links, s.whole, lines) /\ s.ranges \subseteq lines
                    => t.ranges \subseteq lines
<1> DEFINE most == Ev!Cardinality(rows.links)
           files == rows.files
<1>1. PICK f : /\ f[0] = s
               /\ \A n \in 1 .. most + 1 : f[n] = Ev!Pass(rows, f[n - 1])
               /\ Ev!Expand(rows, s) = f[CHOOSE n \in 0 .. most : f[n + 1] = f[n]]
  BY ExpandTaken
<1>2. most \in Nat
  BY OrderIs
<1> HIDE DEF most
<1> DEFINE Kept(t) == IsScope(t) /\ Within(s, t)
           Stays(t) == \A lines :
                         ClosedUnder(files, rows.links, s.whole, lines) /\ s.ranges \subseteq lines
                           => t.ranges \subseteq lines
           Right(n) == Kept(f[n]) /\ Stays(f[n])
           Wrong == {n \in 0 .. most + 1 : ~ Right(n)}
<1>3. \A n \in 0 .. most + 1 : Right(n)
  <2> SUFFICES ASSUME Wrong # {}
               PROVE  FALSE
    OBVIOUS
  <2>1. Wrong \subseteq Nat
    OBVIOUS
  <2> HIDE DEF Wrong
  <2>2. PICK n \in Wrong : \A k \in Wrong : n <= k
    BY <2>1, Least
  <2> USE DEF Wrong
  <2> HIDE DEF Right
  <2>3. n \in 0 .. most + 1 /\ ~ Right(n)
    OBVIOUS
  <2>4. n # 0
    <3>1. Kept(s) /\ Stays(s)
      BY DEF Within
    <3> HIDE DEF Kept, Stays
    <3>2. Right(0)
      BY <1>1, <3>1 DEF Right
    <3> QED
      BY <2>3, <3>2
  <2>5. n - 1 \in 0 .. most + 1 /\ n \in 1 .. most + 1 /\ ~ (n <= n - 1)
    BY <1>2, <2>3, <2>4
  <2>6. Right(n - 1)
    BY <2>2, <2>5
  <2> DEFINE t == f[n - 1]
             u == f[n]
  <2>7. IsScope(t) /\ Within(s, t) /\ Stays(t)
    BY <2>6 DEF Right
  <2>8. u = Ev!Pass(rows, t)
    BY <1>1, <2>5
  <2> HIDE DEF t, u
  <2>9. /\ IsScope(u) /\ Within(t, u)
        /\ \A lines : ClosedUnder(files, rows.links, t.whole, lines) /\ t.ranges \subseteq lines
                        => u.ranges \subseteq lines
    BY <2>7, <2>8, PassIs
  <2>10. Within(s, u)
    BY <2>7, <2>9, WithinKeeps
  <2>11. Stays(u)
    <3>1. t.whole = s.whole
      BY <2>7 DEF Within
    <3> QED
      BY <2>7, <2>9, <3>1
  <2> HIDE DEF Stays
  <2> QED
    BY <2>3, <2>9, <2>10, <2>11 DEF Right, u
<1> HIDE DEF Wrong
<1>4. \E n \in 0 .. most : f[n + 1] = f[n]
  <2> DEFINE Of(n) == {l \in rows.links : Has(files, l, f[n])}
             Few == {n \in 0 .. most + 1 : ~ (n <= Cardinality(Of(n)))}
  <2>1. \A n : IsFiniteSet(Of(n)) /\ Cardinality(Of(n)) \in Nat /\ Cardinality(Of(n)) <= most
    <3>1. \A n : Of(n) \subseteq rows.links
      OBVIOUS
    <3> HIDE DEF Of
    <3> QED
      BY <3>1, FS_Subset, FS_CardinalityType, SameCardinality DEF most
  <2> SUFFICES ASSUME \A n \in 0 .. most : f[n + 1] # f[n]
               PROVE  FALSE
    OBVIOUS
  <2>2. most + 1 \in Few
    <3> HIDE DEF Of
    <3> QED
      BY <1>2, <2>1
  <2>3. Few \subseteq Nat /\ Few # {}
    <3> HIDE DEF Of
    <3> QED
      BY <1>2, <2>2
  <2> HIDE DEF Few
  <2>4. PICK n \in Few : \A k \in Few : n <= k
    BY <2>3, Least
  <2>5. n \in 0 .. most + 1 /\ ~ (n <= Cardinality(Of(n)))
    BY <2>4 DEF Few
  <2>6. n # 0
    <3> HIDE DEF Of
    <3> QED
      BY <2>1, <2>5
  <2>7. n - 1 \in 0 .. most /\ n - 1 \in 0 .. most + 1 /\ n \in 1 .. most + 1 /\ ~ (n <= n - 1)
        /\ (n - 1) + 1 = n
    BY <1>2, <2>5, <2>6
  <2>8. n - 1 <= Cardinality(Of(n - 1))
    <3>1. n - 1 \notin Few
      BY <2>4, <2>7
    <3> HIDE DEF Of
    <3> QED
      BY <2>7, <3>1 DEF Few
  <2> DEFINE t == f[n - 1]
             u == f[n]
  <2>9. u = Ev!Pass(rows, t) /\ IsScope(t) /\ u # t
    BY <1>1, <1>3, <2>7
  <2> HIDE DEF t, u
  <2>10. Within(t, u) /\ \E l \in rows.links : Has(files, l, u) /\ ~ Has(files, l, t)
    BY <2>9, PassIs
  <2>11. PICK l \in rows.links : Has(files, l, u) /\ ~ Has(files, l, t)
    BY <2>10
  <2>12. Of(n - 1) \union {l} \subseteq Of(n) /\ l \notin Of(n - 1)
    <3>1. \A k \in rows.links : Has(files, k, t) => Has(files, k, u)
      BY <2>10, WithinKeeps
    <3> QED
      BY <2>11, <3>1 DEF t, u
  <2> HIDE DEF Of
  <2>13. Cardinality(Of(n - 1) \union {l}) = Cardinality(Of(n - 1)) + 1
    BY <2>1, <2>12, FS_AddElement
  <2>14. Cardinality(Of(n - 1) \union {l}) <= Cardinality(Of(n))
    BY <2>1, <2>12, FS_Subset
  <2> QED
    BY <2>1, <2>5, <2>7, <2>8, <2>13, <2>14
<1> DEFINE k == CHOOSE n \in 0 .. most : f[n + 1] = f[n]
           t == f[k]
<1>5. k \in 0 .. most /\ f[k + 1] = f[k]
  BY <1>4
<1>6. Ev!Expand(rows, s) = t
  BY <1>1
<1> HIDE DEF k
<1>7. k \in 0 .. most + 1 /\ k + 1 \in 1 .. most + 1 /\ (k + 1) - 1 = k
  BY <1>2, <1>5
<1>8. t = Ev!Pass(rows, t)
  BY <1>1, <1>5, <1>7
<1>9. Kept(t) /\ Stays(t)
  <2> HIDE DEF Kept, Stays
  <2> QED
    BY <1>3, <1>7
<1> HIDE DEF t
<1>10. \A l \in rows.links : Ev!Touches(t, files, l) => Has(files, l, t)
  BY <1>8, <1>9, PassIs
<1> QED
  BY <1>6, <1>9, <1>10

(***************************************************************************)
(* The scope of what is asked.                                             *)
(***************************************************************************)
NodeSpan(files, id) ==
  Ev!Span(id[1], Ev!NodeAt(files, id).from, Ev!NodeAt(files, id).to)

LEMMA AddNodesIs ==
  ASSUME NEW files, NEW ids, NEW s, IsScope(s)
  PROVE  LET t == Ev!AddNodes(s, files, ids)
         IN  /\ IsScope(t) /\ Within(s, t)
             /\ t.ranges \subseteq s.ranges \union {NodeSpan(files, id) : id \in ids}
             /\ \A id \in ids : NodeSpan(files, id) \in t.ranges \/ id[1] \in t.whole
<1> DEFINE t == Ev!AddNodes(s, files, ids)
           spans == {NodeSpan(files, id) : id \in ids}
           added == s.ranges \union {x \in spans : x.path \notin s.whole}
<1>1. t = Ev!Scope(s.whole, added, s.nodes \union ids)
  <2> DEFINE u == Ev!AddRanges(s, spans)
  <2>1. u = Ev!Scope(s.whole, added, s.nodes)
    <3> HIDE DEF spans
    <3> QED
      BY DEF Ev!AddRanges, IsScope, Ev!Scope
  <2>2. t = [u EXCEPT !.nodes = @ \union ids]
    BY Zenon DEF Ev!AddNodes, NodeSpan
  <2> HIDE DEF u, added
  <2> QED
    BY <2>1, <2>2 DEF Ev!Scope
<1>2. t.whole = s.whole /\ t.ranges = added /\ t.nodes = s.nodes \union ids
  BY <1>1 DEF Ev!Scope
<1> HIDE DEF t
<1>3. IsScope(t) /\ Within(s, t)
  BY <1>1, <1>2 DEF IsScope, Within
<1>4. \A id \in ids : NodeSpan(files, id).path = id[1]
  BY DEF NodeSpan, Ev!Span
<1>5. \A id \in ids : NodeSpan(files, id) \in t.ranges \/ id[1] \in t.whole
  BY <1>2, <1>4
<1> QED
  BY <1>2, <1>3, <1>5 DEF t

(* Lines that are in a scope, in themselves or with their file.            *)
Holds(s, x) == x \in s.ranges \/ x.path \in s.whole

(* What is asked about.                                                    *)
AskedIds(rows, asked) ==
  asked.affected \union ({asked.view} \ {Nothing})
    \union UNION {Ev!ChangedNodes(rows.files, p, asked.files[p]) : p \in DOMAIN asked.files}
AskedLines(asked) ==
  UNION {{Ev!LinesOfSpan(p, s) : s \in asked.files[p].spans} : p \in DOMAIN asked.files}

LEMMA StartIs ==
  ASSUME NEW rows, NEW asked
  PROVE  Ev!Start(rows, asked) =
           AskedLines(asked) \union {NodeSpan(rows.files, id) : id \in AskedIds(rows, asked)}
BY DEF Ev!Start, AskedIds, AskedLines, NodeSpan

(* A scope is of the lines that are asked about and of what the links lead *)
(* to from there; in full mode it is of all of them.                       *)
ScopeIsOf(rows, asked, t) ==
  /\ IsScope(t)
  /\ \A l \in rows.links : Ev!Touches(t, rows.files, l) => Has(rows.files, l, t)
  /\ \A lines :
       ClosedUnder(rows.files, rows.links, t.whole, lines) /\ Ev!Start(rows, asked) \subseteq lines
         => t.ranges \subseteq lines
  /\ asked.mode = "full" => \A x \in Ev!Start(rows, asked) : Holds(t, x)

LEMMA ScopeOfSymbol ==
  ASSUME NEW rows, IsFiniteSet(rows.links), NEW asked, Ev!AskIsSound(rows.files, asked),
         asked.view # Nothing
  PROVE  ScopeIsOf(rows, asked, Ev!ScopeOf(rows, asked))
<1> DEFINE files == rows.files
           node == Ev!NodeAt(files, asked.view)
           s == IF node.kind = "file" THEN Ev!Scope({asked.view[1]}, {}, {asked.view})
                ELSE Ev!Scope({}, {Ev!Span(asked.view[1], node.from, node.to)}, {asked.view})
           t == Ev!Expand(rows, s)
<1>1. Ev!ScopeOf(rows, asked) = t
  BY Zenon DEF Ev!ScopeOf
<1>2. IsScope(s)
  BY DEF IsScope, Ev!Scope
<1>3. Ev!Start(rows, asked) = {NodeSpan(files, asked.view)}
  <2>1. asked.files = <<>> /\ asked.affected = {}
    BY DEF Ev!AskIsSound
  <2>2. DOMAIN asked.files = {}
    BY <2>1
  <2>3. AskedLines(asked) = {} /\ AskedIds(rows, asked) = {asked.view}
    BY <2>1, <2>2 DEF AskedLines, AskedIds
  <2> QED
    BY <2>3, StartIs
<1>4. s.ranges \subseteq {NodeSpan(files, asked.view)} /\ Holds(s, NodeSpan(files, asked.view))
  BY DEF Holds, NodeSpan, Ev!Span, Ev!Scope
<1> HIDE DEF s
<1>5. /\ IsScope(t) /\ Within(s, t)
      /\ \A l \in rows.links : Ev!Touches(t, files, l) => Has(files, l, t)
      /\ \A lines : ClosedUnder(files, rows.links, s.whole, lines) /\ s.ranges \subseteq lines
                      => t.ranges \subseteq lines
  BY <1>2, ExpandIs
<1> HIDE DEF t
<1>6. \A lines : ClosedUnder(files, rows.links, t.whole, lines)
                   /\ Ev!Start(rows, asked) \subseteq lines => t.ranges \subseteq lines
  BY <1>3, <1>4, <1>5 DEF Within
<1>7. \A x \in Ev!Start(rows, asked) : Holds(t, x)
  BY <1>3, <1>4, <1>5 DEF Within, Holds
<1>8. ScopeIsOf(rows, asked, t)
  BY <1>5, <1>6, <1>7, Zenon DEF ScopeIsOf
<1> QED
  BY <1>1, <1>8

(* What is asked of changes, before links are followed.                    *)
KeptPaths(asked) ==
  {p \in DOMAIN asked.files : ~ (asked.mode = "boundary" /\ p \in DependencyPaths)}
WholeOf(asked) ==
  {p \in KeptPaths(asked) : asked.files[p].whole}
    \union {p \in asked.artifacts : ~ (asked.mode = "boundary" /\ p \in DependencyPaths)}
LinesOf(asked) ==
  UNION {{Ev!LinesOfSpan(p, s) : s \in asked.files[p].spans} :
           p \in {q \in KeptPaths(asked) : ~ asked.files[q].whole}}
IdsOf(rows, asked) ==
  UNION {Ev!ChangedNodes(rows.files, p, asked.files[p]) : p \in KeptPaths(asked)}

LEMMA ChangesAre ==
  ASSUME NEW rows, NEW asked
  PROVE  Ev!ScopeOfChanges(rows, asked) =
           Ev!Expand(rows, Ev!AddNodes(Ev!Scope(WholeOf(asked), LinesOf(asked), {}), rows.files,
                                       IdsOf(rows, asked)))
BY Zenon DEF Ev!ScopeOfChanges, WholeOf, LinesOf, IdsOf, KeptPaths

LEMMA ScopeOfChangesIs ==
  ASSUME NEW rows, IsFiniteSet(rows.links), NEW asked, Ev!AskIsSound(rows.files, asked),
         asked.view = Nothing
  PROVE  ScopeIsOf(rows, asked, Ev!ScopeOf(rows, asked))
<1> DEFINE files == rows.files
           start == Ev!Start(rows, asked)
           s0 == Ev!Scope(WholeOf(asked), LinesOf(asked), {})
           s1 == Ev!AddNodes(s0, files, IdsOf(rows, asked))
           s2 == Ev!Expand(rows, s1)
           more == asked.affected \intersect Ev!NodesOf(files)
           s3 == Ev!AddNodes(s2, files, more)
           t == Ev!Expand(rows, s3)
<1>1. Ev!ScopeOf(rows, asked) = t
  BY ChangesAre, Zenon DEF Ev!ScopeOf
<1>2. IsScope(s0) /\ s0.whole = WholeOf(asked) /\ s0.ranges = LinesOf(asked)
  BY DEF IsScope, Ev!Scope
<1>3. more = asked.affected
  BY DEF Ev!AskIsSound
<1>4. /\ IdsOf(rows, asked) \subseteq AskedIds(rows, asked) /\ more \subseteq AskedIds(rows, asked)
      /\ LinesOf(asked) \subseteq AskedLines(asked)
  BY DEF IdsOf, AskedIds, LinesOf, AskedLines, KeptPaths
<1>5. start = AskedLines(asked) \union {NodeSpan(files, id) : id \in AskedIds(rows, asked)}
  BY StartIs
<1> HIDE DEF s0, more, start
<1>6. /\ IsScope(s1) /\ Within(s0, s1)
      /\ s1.ranges \subseteq s0.ranges \union {NodeSpan(files, id) : id \in IdsOf(rows, asked)}
      /\ \A id \in IdsOf(rows, asked) : NodeSpan(files, id) \in s1.ranges \/ id[1] \in s1.whole
  BY <1>2, AddNodesIs
<1> HIDE DEF s1
<1>7. /\ IsScope(s2) /\ Within(s1, s2)
      /\ \A lines : ClosedUnder(files, rows.links, s1.whole, lines) /\ s1.ranges \subseteq lines
                      => s2.ranges \subseteq lines
  BY <1>6, ExpandIs
<1> HIDE DEF s2
<1>8. /\ IsScope(s3) /\ Within(s2, s3)
      /\ s3.ranges \subseteq s2.ranges \union {NodeSpan(files, id) : id \in more}
      /\ \A id \in more : NodeSpan(files, id) \in s3.ranges \/ id[1] \in s3.whole
  BY <1>7, AddNodesIs
<1> HIDE DEF s3
<1>9. /\ IsScope(t) /\ Within(s3, t)
      /\ \A l \in rows.links : Ev!Touches(t, files, l) => Has(files, l, t)
      /\ \A lines : ClosedUnder(files, rows.links, s3.whole, lines) /\ s3.ranges \subseteq lines
                      => t.ranges \subseteq lines
  BY <1>8, ExpandIs
<1> HIDE DEF t
<1>10. ASSUME NEW lines, ClosedUnder(files, rows.links, t.whole, lines), start \subseteq lines
       PROVE  t.ranges \subseteq lines
  <2>1. t.whole = s3.whole /\ s3.whole = s2.whole /\ s2.whole = s1.whole
    BY <1>7, <1>8, <1>9 DEF Within
  <2>2. s1.ranges \subseteq lines
    BY <1>2, <1>4, <1>5, <1>6, <1>10
  <2>3. s2.ranges \subseteq lines
    BY <1>7, <1>10, <2>1, <2>2
  <2>4. s3.ranges \subseteq lines
    BY <1>4, <1>5, <1>8, <1>10, <2>3
  <2> QED
    BY <1>9, <1>10, <2>1, <2>4
<1>11. Within(s0, t) /\ Within(s1, t) /\ Within(s3, t)
  BY <1>6, <1>7, <1>8, <1>9 DEF Within
<1>12. ASSUME asked.mode = "full", NEW x \in start
       PROVE  Holds(t, x)
  <2>1. KeptPaths(asked) = DOMAIN asked.files
    BY <1>12 DEF KeptPaths
  <2>2. CASE x \in AskedLines(asked)
    <3>1. PICK p \in DOMAIN asked.files : \E s \in asked.files[p].spans : x = Ev!LinesOfSpan(p, s)
      BY <2>2 DEF AskedLines
    <3>2. x.path = p
      BY <3>1 DEF Ev!LinesOfSpan, Ev!Span
    <3>3. CASE asked.files[p].whole
      <4>1. p \in WholeOf(asked)
        BY <2>1, <3>3 DEF WholeOf
      <4> QED
        BY <1>2, <1>11, <3>2, <4>1 DEF Holds, Within
    <3>4. CASE ~ asked.files[p].whole
      <4>1. x \in LinesOf(asked)
        BY <2>1, <3>1, <3>4 DEF LinesOf
      <4> QED
        BY <1>2, <1>11, <4>1 DEF Holds, Within
    <3> QED
      BY <3>3, <3>4
  <2>3. CASE x \in {NodeSpan(files, id) : id \in AskedIds(rows, asked)}
    <3>1. PICK id \in AskedIds(rows, asked) : x = NodeSpan(files, id)
      BY <2>3
    <3>2. x.path = id[1]
      BY <3>1 DEF NodeSpan, Ev!Span
    <3>3. id \in IdsOf(rows, asked) \/ id \in more
      BY <1>3, <2>1, <3>1 DEF AskedIds, IdsOf
    <3> QED
      BY <1>6, <1>8, <1>11, <3>1, <3>2, <3>3 DEF Holds, Within
  <2> QED
    BY <1>5, <2>2, <2>3
<1>13. ScopeIsOf(rows, asked, t)
  BY <1>9, <1>10, <1>12, Zenon DEF ScopeIsOf, start
<1> QED
  BY <1>1, <1>13

LEMMA ScopeOfIs ==
  ASSUME NEW rows, IsFiniteSet(rows.links), NEW asked, Ev!AskIsSound(rows.files, asked)
  PROVE  ScopeIsOf(rows, asked, Ev!ScopeOf(rows, asked))
BY ScopeOfSymbol, ScopeOfChangesIs

(* Links that are connected with the lines of a scope.                     *)
Connected(rows, before, links) ==
  \A l \in rows.links :
    (\/ Ev!Touches(before, rows.files, l)
     \/ \E k \in links : \E s \in Ev!LinkSpans(rows.files, k), t \in Ev!LinkSpans(rows.files, l) :
          Ev!Overlap(s, t))
    => l \in links

(* The links of a review are those that are connected with what is asked.  *)
LEMMA LinksAreReached ==
  ASSUME NEW rows, NEW asked, NEW t, ScopeIsOf(rows, asked, t), asked.mode = "full"
  PROVE  Ev!LinksReached(rows, [t EXCEPT !.ranges = Ev!Start(rows, asked)], t)
<1> DEFINE files == rows.files
           start == Ev!Start(rows, asked)
           before == [t EXCEPT !.ranges = start]
           reached == {l \in rows.links : Ev!Touches(t, files, l)}
<1>1. /\ IsScope(t)
      /\ \A l \in rows.links : Ev!Touches(t, files, l) => Has(files, l, t)
      /\ \A lines : ClosedUnder(files, rows.links, t.whole, lines) /\ start \subseteq lines
                      => t.ranges \subseteq lines
      /\ \A x \in start : Holds(t, x)
  BY DEF ScopeIsOf
<1> HIDE DEF start
<1>2. before.whole = t.whole /\ before.ranges = start
  BY <1>1 DEF IsScope, Ev!Scope
<1> HIDE DEF before
<1>3. \A r, x : Ev!Overlap(r, x) => r.path = x.path
  BY DEF Ev!Overlap
<1>4. ASSUME NEW l, NEW x \in Ev!LinkSpans(files, l), NEW r, Holds(t, r), Ev!Overlap(r, x)
      PROVE  Ev!Touches(t, files, l)
  BY <1>3, <1>4 DEF Ev!Touches, Ev!Relevant, Holds
<1>5. Connected(rows, before, reached)
  <2> SUFFICES ASSUME NEW l \in rows.links,
                      \/ Ev!Touches(before, files, l)
                      \/ \E k \in reached : \E s \in Ev!LinkSpans(files, k),
                                               x \in Ev!LinkSpans(files, l) : Ev!Overlap(s, x)
               PROVE  Ev!Touches(t, files, l)
    BY DEF Connected
  <2>1. CASE Ev!Touches(before, files, l)
    <3>1. PICK x \in Ev!LinkSpans(files, l) :
            x.path \in t.whole \/ \E r \in start : Ev!Overlap(r, x)
      BY <1>2, <2>1 DEF Ev!Touches, Ev!Relevant
    <3>2. CASE x.path \in t.whole
      BY <3>2 DEF Ev!Touches, Ev!Relevant
    <3>3. CASE \E r \in start : Ev!Overlap(r, x)
      BY <1>1, <1>4, <3>3
    <3> QED
      BY <3>1, <3>2, <3>3
  <2>2. CASE \E k \in reached : \E s \in Ev!LinkSpans(files, k), x \in Ev!LinkSpans(files, l) :
               Ev!Overlap(s, x)
    <3>1. PICK k \in reached : \E s \in Ev!LinkSpans(files, k), x \in Ev!LinkSpans(files, l) :
                                 Ev!Overlap(s, x)
      BY <2>2
    <3>2. Has(files, k, t)
      BY <1>1, <3>1
    <3>3. \A s \in Ev!LinkSpans(files, k) : Holds(t, s)
      BY <3>2 DEF Has, Holds
    <3> QED
      BY <1>4, <3>1, <3>3
  <2> QED
    BY <2>1, <2>2
<1>6. ASSUME NEW links \in SUBSET reached, Connected(rows, before, links)
      PROVE  links = reached
  <2> DEFINE lines == start \union AllSpans(files, links)
  <2>1. ASSUME NEW l \in rows.links, NEW x \in Ev!LinkSpans(files, l),
               x.path \in t.whole \/ \E r \in lines : Ev!Overlap(r, x)
        PROVE  l \in links
    <3>1. CASE x.path \in t.whole \/ \E r \in start : Ev!Overlap(r, x)
      <4>1. Ev!Touches(before, files, l)
        BY <1>2, <3>1 DEF Ev!Touches, Ev!Relevant
      <4> QED
        BY <1>6, <4>1 DEF Connected
    <3>2. CASE \E r \in AllSpans(files, links) : Ev!Overlap(r, x)
      <4>1. \E k \in links : \E r \in Ev!LinkSpans(files, k) : Ev!Overlap(r, x)
        BY <3>2 DEF AllSpans
      <4> QED
        BY <1>6, <4>1 DEF Connected
    <3> QED
      BY <2>1, <3>1, <3>2
  <2> HIDE DEF lines
  <2>2. ClosedUnder(files, rows.links, t.whole, lines)
    <3>1. \A l \in links : Ev!LinkSpans(files, l) \subseteq lines
      BY DEF lines, AllSpans
    <3> QED
      BY <2>1, <3>1 DEF ClosedUnder
  <2>3. start \subseteq lines
    BY DEF lines
  <2>4. t.ranges \subseteq lines
    BY <1>1, <2>2, <2>3
  <2>5. \A l \in reached : \E x \in Ev!LinkSpans(files, l) :
          x.path \in t.whole \/ \E r \in lines : Ev!Overlap(r, x)
    BY <2>4 DEF Ev!Touches, Ev!Relevant
  <2> QED
    BY <2>1, <2>5
<1>7. \A l \in reached :
        /\ Ev!LinkNodes(files, l) \subseteq t.nodes
        /\ \A s \in Ev!LinkSpans(files, l) : s \in t.ranges \/ s.path \in t.whole
  BY <1>1 DEF Has
<1> QED
  BY <1>5, <1>6, <1>7, Zenon DEF Ev!LinksReached, Connected, before, start

(***************************************************************************)
(* Lines.  The least and the greatest of two numbers.                      *)
(***************************************************************************)
LEMMA TwoNumbers ==
  ASSUME NEW a \in Int, NEW b \in Int
  PROVE  /\ Ev!Max({a, b}) \in {a, b} /\ Ev!Max({a, b}) >= a /\ Ev!Max({a, b}) >= b
         /\ Ev!Min({a, b}) \in {a, b} /\ Ev!Min({a, b}) <= a /\ Ev!Min({a, b}) <= b
         /\ Ev!Max({a}) = a /\ Ev!Min({a}) = a
<1>1. \E x \in {a, b} : \A y \in {a, b} : x >= y
  <2>1. CASE a >= b
    BY <2>1
  <2>2. CASE ~ (a >= b)
    BY <2>2
  <2> QED
    BY <2>1, <2>2
<1>2. \E x \in {a, b} : \A y \in {a, b} : x =< y
  <2>1. CASE a >= b
    BY <2>1
  <2>2. CASE ~ (a >= b)
    BY <2>2
  <2> QED
    BY <2>1, <2>2
<1>3. Ev!Max({a, b}) \in {a, b} /\ \A y \in {a, b} : Ev!Max({a, b}) >= y
  BY <1>1, Zenon DEF Ev!Max
<1>4. Ev!Min({a, b}) \in {a, b} /\ \A y \in {a, b} : Ev!Min({a, b}) =< y
  BY <1>2, Zenon DEF Ev!Min
<1>5. a >= a /\ a =< a
  OBVIOUS
<1>6. Ev!Max({a}) = a /\ Ev!Min({a}) = a
  BY <1>5, Zenon DEF Ev!Max, Ev!Min
<1> QED
  BY <1>3, <1>4, <1>6

InOrder(lines) == lines.from \in Int /\ lines.to \in Int /\ lines.from <= lines.to

(* The lines of a branch, and of its ends.                                 *)
BranchIsLined(b) ==
  IF b.kind = "arc" THEN b.from \in Int /\ b.target \in Int ELSE InOrder(b)

LEMMA BranchLinesAre ==
  ASSUME NEW b, BranchIsLined(b), Ev!BranchHolds(b)
  PROVE  /\ InOrder(Ev!LinesOfBranch(b))
         /\ \A l \in Ev!BranchLines(b) :
              /\ InOrder(l)
              /\ Ev!LinesOfBranch(b).from <= l.from /\ l.to <= Ev!LinesOfBranch(b).to
         /\ Ev!BranchLines(b) # {}
<1>1. CASE b.kind # "arc"
  <2>1. Ev!LinesOfBranch(b) = Ev!Lines(b.from, b.to)
        /\ Ev!BranchLines(b) = {Ev!Lines(b.from, b.to)}
    BY <1>1 DEF Ev!LinesOfBranch, Ev!BranchLines
  <2>2. InOrder(b)
    BY <1>1 DEF BranchIsLined
  <2> QED
    BY <2>1, <2>2 DEF InOrder, Ev!Lines
<1>2. CASE b.kind = "arc"
  <2> DEFINE ends == Ev!Ends(b)
             low == Ev!Min(ends)
             high == Ev!Max(ends)
  <2>1. b.from \in Int /\ b.target \in Int /\ ends # {} /\ ends \subseteq {b.from, b.target}
    BY <1>2 DEF BranchIsLined, Ev!BranchHolds, Ev!Ends
  <2>2. ends = {b.from, b.target} \/ ends = {b.from} \/ ends = {b.target}
    <3> HIDE DEF ends
    <3> QED
      BY <2>1
  <2>3. low \in ends /\ high \in ends /\ \A l \in ends : low <= l /\ l <= high
    <3> HIDE DEF ends
    <3>1. CASE ends = {b.from, b.target}
      <4>1. /\ high \in {b.from, b.target} /\ high >= b.from /\ high >= b.target
            /\ low \in {b.from, b.target} /\ low <= b.from /\ low <= b.target
        <5> HIDE DEF low, high
        <5> QED
          BY <2>1, <3>1, TwoNumbers DEF low, high
      <4> HIDE DEF low, high
      <4>2. \A l \in {b.from, b.target} : low <= l /\ l <= high
        BY <2>1, <4>1
      <4> QED
        BY <3>1, <4>1, <4>2
    <3>2. CASE ends = {b.from}
      <4>1. low = b.from /\ high = b.from
        BY <2>1, <3>2, TwoNumbers
      <4> HIDE DEF low, high
      <4> QED
        BY <2>1, <3>2, <4>1
    <3>3. CASE ends = {b.target}
      <4>1. low = b.target /\ high = b.target
        BY <2>1, <3>3, TwoNumbers
      <4> HIDE DEF low, high
      <4> QED
        BY <2>1, <3>3, <4>1
    <3> QED
      BY <2>2, <3>1, <3>2, <3>3
  <2>4. /\ Ev!LinesOfBranch(b) = Ev!Lines(low, high)
        /\ Ev!BranchLines(b) = {Ev!Lines(l, l) : l \in ends}
    BY <1>2 DEF Ev!LinesOfBranch, Ev!BranchLines
  <2> HIDE DEF ends, low, high
  <2>5. ends \subseteq Int /\ ends # {}
    BY <2>1
  <2>6. /\ InOrder(Ev!LinesOfBranch(b))
        /\ Ev!LinesOfBranch(b).from = low /\ Ev!LinesOfBranch(b).to = high
    BY <2>3, <2>4, <2>5 DEF InOrder, Ev!Lines
  <2>7. \A l \in ends :
          InOrder(Ev!Lines(l, l)) /\ Ev!Lines(l, l).from = l /\ Ev!Lines(l, l).to = l
    BY <2>5 DEF InOrder, Ev!Lines
  <2> QED
    BY <2>3, <2>4, <2>5, <2>6, <2>7
<1> QED
  BY <1>1, <1>2

(***************************************************************************)
(* What is read in a report that holds.                                    *)
(***************************************************************************)
RegionIsLined(key) == InOrder(key) /\ "context" \in DOMAIN key

LEMMA KeysAreSeen ==
  ASSUME NEW holds, NEW regions, NEW branches, NEW names
  PROVE  LET read == Ev!Parsed(holds, regions, branches, names)
         IN  /\ read.holds => holds
             /\ \A s \in read.regions : \E q \in Ev!Range(regions) : s.key = q.key
             /\ \A s \in read.branches : \E q \in Ev!Range(branches) : s.key = q.key
<1> DEFINE read == Ev!Parsed(holds, regions, branches, names)
<1>1. /\ read.regions = Ev!Totals(regions) /\ read.branches = Ev!Totals(branches)
      /\ read.holds => holds
  BY DEF Ev!Parsed
<1> HIDE DEF read
<1>2. \A seen : \A s \in Ev!Totals(seen) : \E q \in Ev!Range(seen) : s.key = q.key
  BY DEF Ev!Totals, Ev!Keys, Ev!Seen
<1> QED
  BY <1>1, <1>2 DEF read

LEMMA KeysHold ==
  ASSUME NEW format, NEW report, Ev!ReportIsSound(format, report),
         Ev!ParseCoverage(format, report).holds
  PROVE  LET read == Ev!ParseCoverage(format, report)
         IN  /\ \A s \in read.regions :
                  RegionIsLined(s.key) /\ (format = "llvm" => s.key.context = Nothing)
             /\ \A s \in read.branches : BranchIsLined(s.key) /\ "context" \notin DOMAIN s.key
<1> DEFINE read == Ev!ParseCoverage(format, report)
<1>1. CASE format = "llvm"
  <2> DEFINE regions == Ev!LlvmRegions(report)
             branches == Ev!LlvmBranches(report)
             holds == /\ \A r \in Ev!Range(report.regions) : Ev!ValidSpan(r) /\ r.kind \in 0 .. 6
                      /\ \A b \in Ev!Range(report.branches) : Ev!ValidSpan(b)
                      /\ \A s \in Ev!Totals(regions) \union Ev!Totals(branches) :
                           s.count <= CountLimit
  <2>1. /\ Ev!Listed(report.regions) /\ Ev!Listed(report.branches)
        /\ \A r \in Ev!Range(report.regions) : Ev!Numbered(r)
        /\ \A b \in Ev!Range(report.branches) : Ev!Numbered(b)
    BY <1>1, Zenon DEF Ev!ReportIsSound
  <2>2. \E names : read = Ev!Parsed(holds, regions, branches, names)
    BY <1>1, Zenon DEF Ev!ParseCoverage, Ev!ParseLlvm
  <2> HIDE DEF holds, read
  <2>3. /\ holds
        /\ \A s \in read.regions : \E q \in Ev!Range(regions) : s.key = q.key
        /\ \A s \in read.branches : \E q \in Ev!Range(branches) : s.key = q.key
    BY <2>2, KeysAreSeen DEF read
  <2>4. /\ \A r \in Ev!Range(report.regions) : Ev!ValidSpan(r)
        /\ \A b \in Ev!Range(report.branches) : Ev!ValidSpan(b)
    BY <2>3 DEF holds
  <2>5. ASSUME NEW s \in read.regions
        PROVE  RegionIsLined(s.key) /\ s.key.context = Nothing
    <3>1. Ev!Range(regions) = {Ev!Seen(Ev!LlvmKey(r), r.count) : r \in Ev!LlvmCode(report)}
      BY <2>1, LlvmRegionsAre
    <3>2. PICK r \in Ev!LlvmCode(report) : s.key = Ev!LlvmKey(r)
      BY <2>3, <3>1 DEF Ev!Seen
    <3>3. r \in Ev!Range(report.regions)
      BY DEF Ev!LlvmCode
    <3>4. r.from \in Nat /\ r.to \in Nat /\ r.from <= r.to
      BY <2>1, <2>4, <3>3 DEF Ev!Numbered, Ev!ValidSpan
    <3> QED
      BY <3>2, <3>4 DEF Ev!LlvmKey, Ev!Region, RegionIsLined, InOrder
  <2>6. ASSUME NEW s \in read.branches
        PROVE  BranchIsLined(s.key) /\ "context" \notin DOMAIN s.key
    <3>1. PICK b \in Ev!Range(report.branches), kind \in {"true-outcome", "false-outcome"} :
            s.key = Ev!Branch(ReportPaths[b.name], b.from, b.to, Nothing, kind)
      <4>1. PICK q \in Ev!Range(branches) : s.key = q.key
        BY <2>3
      <4>2. \E b \in Ev!Range(report.branches), kind \in {"true-outcome", "false-outcome"} :
              q.key = Ev!Branch(ReportPaths[b.name], b.from, b.to, Nothing, kind)
        BY <2>1, LlvmBranchesAre
      <4> QED
        BY <4>1, <4>2
    <3>2. b.from \in Nat /\ b.to \in Nat /\ b.from <= b.to
      BY <2>1, <2>4 DEF Ev!Numbered, Ev!ValidSpan
    <3> QED
      BY <3>1, <3>2 DEF Ev!Branch, BranchIsLined, InOrder
  <2> QED
    BY <1>1, <2>5, <2>6 DEF read
<1>2. CASE format # "llvm"
  <2> DEFINE files == report.files
             regions == Ev!PyRegions(files)
             branches == Ev!PyBranches(files)
  <2>1. /\ Ev!Listed(files)
        /\ \A f \in Ev!Range(files) :
             /\ Ev!Listed(f.executed) /\ Ev!Listed(f.missing)
             /\ Ev!Listed(f.taken) /\ Ev!Listed(f.missed)
             /\ Ev!Range(f.executed) \union Ev!Range(f.missing) \subseteq Nat
             /\ Ev!Range(f.taken) \union Ev!Range(f.missed) \subseteq Int \X Int
             /\ \A l \in DOMAIN f.contexts : Ev!Listed(f.contexts[l])
    BY <1>2, Zenon DEF Ev!ReportIsSound
  <2>2. \E holds, names : read = Ev!Parsed(holds, regions, branches, names)
    BY <1>2, Zenon DEF Ev!ParseCoverage, Ev!ParsePy
  <2> HIDE DEF files, read
  <2>3. /\ \A s \in read.regions : \E q \in Ev!Range(regions) : s.key = q.key
        /\ \A s \in read.branches : \E q \in Ev!Range(branches) : s.key = q.key
    BY <2>2, KeysAreSeen
  <2>4. ASSUME NEW s \in read.regions
        PROVE  RegionIsLined(s.key)
    <3>1. PICK q \in Ev!Range(regions) : s.key = q.key
      BY <2>3
    <3>2. PICK f \in Ev!Range(files) : q \in LinesTold(f)
      BY <2>1, PyRegionsAre
    <3>3. PICK line \in Ev!Range(f.executed) \union Ev!Range(f.missing) :
            \E c, n : q = Ev!Seen(Ev!Region(ReportPaths[f.name], line, line, c), n)
      BY <3>2 DEF LinesTold
    <3>4. line \in Int /\ line <= line
      BY <2>1, <3>3
    <3> QED
      BY <3>1, <3>3, <3>4 DEF Ev!Seen, Ev!Region, RegionIsLined, InOrder
  <2>5. ASSUME NEW s \in read.branches
        PROVE  BranchIsLined(s.key) /\ "context" \notin DOMAIN s.key
    <3>1. PICK q \in Ev!Range(branches) : s.key = q.key
      BY <2>3
    <3>2. PICK f \in Ev!Range(files) : q \in ArcsTold(f)
      BY <2>1, PyBranchesAre
    <3>3. PICK a \in Ev!Range(f.taken) \union Ev!Range(f.missed) :
            \E n : q = Ev!Seen(Ev!Branch(ReportPaths[f.name], a[1], a[1], a[2], "arc"), n)
      BY <3>2 DEF ArcsTold
    <3>4. a[1] \in Int /\ a[2] \in Int
      BY <2>1, <3>3
    <3> QED
      BY <3>1, <3>3, <3>4 DEF Ev!Seen, Ev!Branch, BranchIsLined
  <2> QED
    BY <1>2, <2>4, <2>5 DEF read
<1> QED
  BY <1>1, <1>2

(* Rows, with the lines they are about.                                    *)
LEMMA ObservationsAre ==
  ASSUME NEW in, Captured(in), ReportsHold(in)
  PROVE  LET rows == Ev!Rows(in)
         IN  /\ \A r \in rows.regions :
                  /\ r.run \in DOMAIN rows.runs /\ RegionIsLined(r.key)
                  /\ rows.runs[r.run].format = "llvm" => r.key.context = Nothing
             /\ \A b \in rows.branches :
                  /\ b.run \in DOMAIN rows.runs /\ BranchIsLined(b.key) /\ Ev!BranchHolds(b.key)
                  /\ "context" \notin DOMAIN b.key
<1> DEFINE rows == Ev!Rows(in)
           runs == rows.runs
<1>1. \A i \in DOMAIN runs :
        runs[i].read.holds /\ \A b \in runs[i].read.branches : Ev!BranchHolds(b.key)
  BY RowsAre DEF ReportsHold
<1>2. ASSUME NEW i \in DOMAIN runs
      PROVE  /\ \A s \in runs[i].read.regions :
                  RegionIsLined(s.key) /\ (runs[i].format = "llvm" => s.key.context = Nothing)
             /\ \A s \in runs[i].read.branches :
                  BranchIsLined(s.key) /\ "context" \notin DOMAIN s.key
  <2> DEFINE report == in.disk[in.manifest.coverage[i].path].report
  <2>1. /\ Ev!ReportIsSound(runs[i].format, report)
        /\ runs[i].read = Ev!ParseCoverage(runs[i].format, report)
    BY RunsAre
  <2> HIDE DEF runs, report
  <2> QED
    BY <1>1, <1>2, <2>1, KeysHold
<1>3. ASSUME NEW r \in rows.regions
      PROVE  /\ r.run \in DOMAIN runs /\ RegionIsLined(r.key)
             /\ runs[r.run].format = "llvm" => r.key.context = Nothing
  <2>1. r.run \in DOMAIN runs /\ \E s \in runs[r.run].read.regions : s.key = r.key
    BY RegionIs
  <2> HIDE DEF runs
  <2> QED
    BY <1>2, <2>1
<1>4. ASSUME NEW b \in rows.branches
      PROVE  /\ b.run \in DOMAIN runs /\ BranchIsLined(b.key) /\ Ev!BranchHolds(b.key)
             /\ "context" \notin DOMAIN b.key
  <2>1. b.run \in DOMAIN runs /\ \E s \in runs[b.run].read.branches : s.key = b.key
    BY BranchIs
  <2> HIDE DEF runs
  <2> QED
    BY <1>1, <1>2, <2>1
<1> QED
  BY <1>3, <1>4

(***************************************************************************)
(* Gaps.                                                                   *)
(***************************************************************************)
(* A gap without a path is of a test or of a file that is not known, one   *)
(* with a path has lines, and one of a test that has lines is of the       *)
(* context of a region.                                                    *)
GapIsOf(rows, g) ==
  /\ g.path = Nothing => g.reason \in Ev!TestReasons \union {"coverage-unmapped-file"}
  /\ g.path # Nothing => InOrder(g.lines)
  /\ g.path # Nothing /\ g.reason \in Ev!TestReasons =>
       \E r \in rows.regions :
         g.run = r.run /\ g.target = r.key.context /\ Ev!NeedsTestGap(rows.files, r.key.context)

LEMMA MappingGapIs ==
  ASSUME NEW rows, Nothing \notin DOMAIN rows.files, NEW run, NEW path, NEW lines, InOrder(lines),
         NEW g \in Ev!MappingGaps(rows.files, run, path, lines)
  PROVE  GapIsOf(rows, g)
<1>1. \/ g = Ev!Gap(run, path, lines, "coverage-unmapped-file", Nothing)
      \/ g = Ev!Gap(run, path, lines, "coverage-unmapped-region", Nothing)
           /\ path \in DOMAIN rows.files
  BY DEF Ev!MappingGaps
<1>2. /\ "coverage-unmapped-file" \notin Ev!TestReasons
      /\ "coverage-unmapped-region" \notin Ev!TestReasons
  BY DEF Ev!TestReasons
<1> QED
  BY <1>1, <1>2 DEF Ev!Gap, GapIsOf

LEMMA GapsAreOf ==
  ASSUME NEW in, Captured(in), ReportsHold(in)
  PROVE  \A g \in Ev!Rows(in).gaps : GapIsOf(Ev!Rows(in), g)
<1> DEFINE rows == Ev!Rows(in)
           files == rows.files
           runs == rows.runs
<1>1. rows.gaps = Ev!GapRows(files, runs, rows.regions, rows.branches) /\ files = Ev!WithOutputs(in)
  BY RowsAre
<1>2. Nothing \notin DOMAIN files
  BY <1>1 DEF Captured, Ev!InputIsSound
<1>3. /\ \A r \in rows.regions : RegionIsLined(r.key)
      /\ \A b \in rows.branches : BranchIsLined(b.key) /\ Ev!BranchHolds(b.key)
  BY ObservationsAre
<1>4. \A name : Ev!TestReason(files, name) \in Ev!TestReasons
  BY <1>1, TestIs
<1> HIDE DEF rows
<1>5. ASSUME NEW g \in Ev!RunGaps(files, runs) \union Ev!OutsideGaps(runs)
      PROVE  GapIsOf(rows, g)
  <2>1. /\ g.path = Nothing
        /\ g.reason \in {Ev!TestReason(files, name) : name \in {runs[i].test : i \in DOMAIN runs}}
             \/ g.reason = "coverage-unmapped-file"
    BY DEF Ev!RunGaps, Ev!OutsideGaps, Ev!Gap
  <2> QED
    BY <1>4, <2>1 DEF GapIsOf
<1>6. ASSUME NEW r \in rows.regions, NEW g \in Ev!RegionGaps(files, r)
      PROVE  GapIsOf(rows, g)
  <2> DEFINE lines == Ev!Lines(r.key.from, r.key.to)
  <2>1. InOrder(lines)
    BY <1>3 DEF RegionIsLined, InOrder, Ev!Lines
  <2>2. CASE g \in Ev!MappingGaps(files, r.run, r.key.path, lines)
    <3> HIDE DEF lines
    <3> QED
      BY <1>2, <2>1, <2>2, MappingGapIs
  <2>3. CASE /\ Ev!NeedsTestGap(files, r.key.context)
             /\ g = Ev!Gap(r.run, r.key.path, lines, Ev!TestReason(files, r.key.context),
                           r.key.context)
    <3> HIDE DEF lines
    <3>1. /\ g.run = r.run /\ g.target = r.key.context /\ g.lines = lines
          /\ g.reason = Ev!TestReason(files, r.key.context)
      BY <2>3 DEF Ev!Gap
    <3> QED
      BY <1>4, <2>1, <2>3, <3>1 DEF GapIsOf
  <2> QED
    BY <2>2, <2>3 DEF Ev!RegionGaps
<1>7. ASSUME NEW b \in rows.branches, NEW g \in Ev!BranchGaps(files, b)
      PROVE  GapIsOf(rows, g)
  <2>1. InOrder(Ev!LinesOfBranch(b.key))
    BY <1>3, BranchLinesAre
  <2> QED
    BY <1>2, <2>1, MappingGapIs DEF Ev!BranchGaps
<1>8. \A g \in rows.gaps :
        \/ g \in Ev!RunGaps(files, runs) \union Ev!OutsideGaps(runs)
        \/ \E r \in rows.regions : g \in Ev!RegionGaps(files, r)
        \/ \E b \in rows.branches : g \in Ev!BranchGaps(files, b)
  BY <1>1 DEF Ev!GapRows
<1> QED
  BY <1>5, <1>6, <1>7, <1>8 DEF rows

(***************************************************************************)
(* Links, and the lines of a scope.                                        *)
(***************************************************************************)
LEMMA LinksAreFinite ==
  ASSUME NEW in, Captured(in)
  PROVE  IsFiniteSet(Ev!Rows(in).links)
<1> DEFINE generated == in.manifest.generated
           files == Ev!WithOutputs(in)
           links == [i \in DOMAIN generated |-> Ev!Link(files, in.manifest, generated[i])]
<1>1. Ev!Listed(generated)
  BY DEF Captured, Ev!InputIsSound
<1>2. IsFiniteSet(DOMAIN links)
  BY <1>1, ListIsFinite
<1>3. Ev!Rows(in).links = {Ev!Link(files, in.manifest, g) : g \in Ev!Range(generated)}
  BY RowsAre
<1>4. Ev!Rows(in).links = Ev!Range(links)
  <2>1. Ev!Range(links) = {Ev!Link(files, in.manifest, g) : g \in Ev!Range(generated)}
    <3> HIDE DEF generated, files
    <3> QED
      BY DEF Ev!Range
  <2> QED
    BY <1>3, <2>1
<1> HIDE DEF links
<1> QED
  BY <1>2, <1>4, ImageIsFinite

LEMMA LinkLinesAre ==
  ASSUME NEW in, Captured(in), NEW l \in Ev!Rows(in).links,
         NEW x \in Ev!LinkSpans(Ev!Rows(in).files, l)
  PROVE  x.from \in Int /\ x.to \in Int
<1> DEFINE files == Ev!WithOutputs(in)
<1>1. Ev!Rows(in).files = files
  BY RowsAre
<1>2. PICK g \in Ev!Range(in.manifest.generated) : l = Ev!Link(files, in.manifest, g)
  BY RowsAre
<1>3. /\ l.of = g
      /\ l.site # Nothing => l.site \in Ev!Sites(files, LastParts[g.output.path])
  BY <1>2, LinkIs
<1>4. Ev!Numbered(g.input) /\ Ev!Numbered(g.generator) /\ Ev!Numbered(g.output)
  BY DEF Captured, Ev!InputIsSound
<1>5. \A id \in Ev!AllSites(files) : Ev!SiteAt(files, id).line \in Nat
  BY DEF Captured, Ev!InputIsSound
<1> HIDE DEF files
<1>6. CASE x \in {l.of.input, l.of.output, l.of.generator}
  BY <1>3, <1>4, <1>6 DEF Ev!Numbered
<1>7. CASE x \in Ev!Include(files, l)
  <2>1. l.site # Nothing
        /\ x = Ev!Span(l.site[1], Ev!SiteAt(files, l.site).line, Ev!SiteAt(files, l.site).line)
    BY <1>7 DEF Ev!Include
  <2>2. l.site \in Ev!AllSites(files)
    BY <1>3, <2>1 DEF Ev!Sites
  <2> QED
    BY <1>5, <2>1, <2>2 DEF Ev!Span
<1> QED
  BY <1>1, <1>6, <1>7 DEF Ev!LinkSpans

LEMMA StartLinesAre ==
  ASSUME NEW in, Captured(in), NEW asked, Ev!AskIsSound(Ev!WithOutputs(in), asked),
         NEW x \in Ev!Start(Ev!Rows(in), asked)
  PROVE  x.from \in Int /\ x.to \in Int
<1> DEFINE files == Ev!WithOutputs(in)
           rows == Ev!Rows(in)
<1>1. rows.files = files
  BY RowsAre
<1>2. CASE x \in AskedLines(asked)
  <2>1. PICK p \in DOMAIN asked.files : \E s \in asked.files[p].spans : x = Ev!LinesOfSpan(p, s)
    BY <1>2 DEF AskedLines
  <2>2. PICK s \in asked.files[p].spans : x = Ev!LinesOfSpan(p, s)
    BY <2>1
  <2>3. s.from \in Nat /\ s.to \in Nat
    BY DEF Ev!AskIsSound, Ev!Numbered
  <2> DEFINE first == s.from \div 2
             last == s.to \div 2
  <2>4. first \in Int /\ last \in Int /\ 1 \in Int
    BY <2>3
  <2>5. Ev!LineOf(s.from) = Ev!Max({first, 1})
    BY DEF Ev!LineOf
  <2>6. x = Ev!Span(p, Ev!LineOf(s.from), Ev!Max({last, Ev!LineOf(s.from)}))
    BY <2>2 DEF Ev!LinesOfSpan
  <2> HIDE DEF first, last
  <2>7. Ev!LineOf(s.from) \in Int
    <3>1. Ev!Max({first, 1}) \in {first, 1}
      BY <2>4, TwoNumbers
    <3> QED
      BY <2>4, <2>5, <3>1
  <2>8. Ev!Max({last, Ev!LineOf(s.from)}) \in {last, Ev!LineOf(s.from)}
    BY <2>4, <2>7, TwoNumbers
  <2> QED
    BY <2>4, <2>6, <2>7, <2>8 DEF Ev!Span
<1>3. CASE x \in {NodeSpan(files, id) : id \in AskedIds(rows, asked)}
  <2>1. PICK id \in AskedIds(rows, asked) : x = NodeSpan(files, id)
    BY <1>3
  <2>2. id \in Ev!NodesOf(files)
    BY <1>1 DEF AskedIds, Ev!AskIsSound, Ev!ChangedNodes
  <2>3. Ev!Numbered(Ev!NodeAt(files, id))
    BY <2>2 DEF Captured, Ev!InputIsSound
  <2> HIDE DEF files
  <2> QED
    BY <2>1, <2>3 DEF NodeSpan, Ev!Span, Ev!Numbered
<1> QED
  BY <1>1, <1>2, <1>3, StartIs

LEMMA ScopeLinesAre ==
  ASSUME NEW in, Captured(in), NEW asked, Ev!AskIsSound(Ev!WithOutputs(in), asked),
         NEW t, ScopeIsOf(Ev!Rows(in), asked, t)
  PROVE  \A r \in t.ranges : r.from \in Int /\ r.to \in Int
<1> DEFINE rows == Ev!Rows(in)
           lines == Ev!Start(rows, asked) \union AllSpans(rows.files, rows.links)
<1>1. ClosedUnder(rows.files, rows.links, t.whole, lines)
  <2> HIDE DEF rows
  <2> QED
    BY DEF ClosedUnder, AllSpans
<1>2. t.ranges \subseteq lines
  <2> HIDE DEF rows
  <2>1. Ev!Start(rows, asked) \subseteq lines
    OBVIOUS
  <2> HIDE DEF lines
  <2> QED
    BY <1>1, <2>1 DEF ScopeIsOf, rows
<1>3. \A x \in AllSpans(rows.files, rows.links) : x.from \in Int /\ x.to \in Int
  BY LinkLinesAre DEF AllSpans
<1> QED
  BY <1>2, <1>3, StartLinesAre

(***************************************************************************)
(* Claims and gaps, as they are counted and as they are shown.             *)
(***************************************************************************)
LEMMA ShownAreCounted ==
  ASSUME NEW rows, \A g \in rows.gaps : GapIsOf(rows, g), NEW scope
  PROVE  Ev!ShownGaps(rows, scope) = Ev!CountedGaps(rows, scope)
<1> DEFINE observed == Ev!RelevantRegions(rows, scope) \union Ev!RelevantBranches(rows, scope)
           shown == {c.of.run : c \in Ev!ShownClaims(rows, scope)}
<1>1. shown = Ev!RelevantRuns(rows, scope)
  <2>1. \A r : Ev!RegionClaim(rows, r).of = r /\ Ev!BranchClaim(rows, r).of = r
    BY DEF Ev!RegionClaim, Ev!BranchClaim
  <2> QED
    BY <2>1 DEF Ev!ShownClaims, Ev!RelevantRuns
<1>2. Ev!ShownGaps(rows, scope) =
        {g \in rows.gaps :
           IF g.path # Nothing
             THEN Ev!Relevant(scope, Ev!Span(g.path, g.lines.from, g.lines.to))
             ELSE \/ g.reason = "coverage-unmapped-file"
                  \/ g.reason \in Ev!TestReasons /\ g.run \in shown}
  BY DEF Ev!ShownGaps
<1> HIDE DEF shown
<1>3. \A g \in rows.gaps :
        g.path = Nothing => g.reason \in Ev!TestReasons \/ g.reason = "coverage-unmapped-file"
  BY DEF GapIsOf
<1> QED
  BY <1>1, <1>2, <1>3 DEF Ev!CountedGaps

Covered(scope, span) ==
  span.path \in scope.whole \/
    \A l \in span.from .. span.to :
      \E r \in scope.ranges : r.path = span.path /\ r.from <= l /\ l <= r.to

(* Lines that meet lines which are all in a scope are relevant to it.      *)
LEMMA CoveredMeets ==
  ASSUME NEW scope, \A r \in scope.ranges : r.from \in Int /\ r.to \in Int,
         NEW path, NEW here, InOrder(here), NEW there, InOrder(there),
         there.from <= here.to, there.to >= here.from,
         Covered(scope, Ev!Span(path, here.from, here.to))
  PROVE  Ev!Relevant(scope, Ev!Span(path, there.from, there.to))
<1>1. \E l \in here.from .. here.to : there.from <= l /\ l <= there.to
  <2>1. CASE there.from <= here.from
    BY <2>1 DEF InOrder
  <2>2. CASE ~ (there.from <= here.from)
    BY <2>2 DEF InOrder
  <2> QED
    BY <2>1, <2>2
<1>2. PICK l \in here.from .. here.to : there.from <= l /\ l <= there.to
  BY <1>1
<1>3. \/ path \in scope.whole
      \/ \E r \in scope.ranges : r.path = path /\ r.from <= l /\ l <= r.to
  BY DEF Covered, Ev!Span
<1>4. CASE path \in scope.whole
  BY <1>4 DEF Ev!Relevant, Ev!Span
<1>5. CASE \E r \in scope.ranges : r.path = path /\ r.from <= l /\ l <= r.to
  <2>1. PICK r \in scope.ranges : r.path = path /\ r.from <= l /\ l <= r.to
    BY <1>5
  <2>2. r.from <= there.to /\ there.from <= r.to
    BY <1>2, <2>1 DEF InOrder
  <2> QED
    BY <2>1, <2>2 DEF Ev!Relevant, Ev!Overlap, Ev!Span
<1> QED
  BY <1>3, <1>4, <1>5

(* No gap of a run meets lines in a scope where none is counted.           *)
LEMMA NothingOverlaps ==
  ASSUME NEW rows, \A g \in rows.gaps : GapIsOf(rows, g), NEW scope,
         \A r \in scope.ranges : r.from \in Int /\ r.to \in Int,
         Ev!CountedGaps(rows, scope) = {}, NEW run, NEW path, path # Nothing,
         NEW lines, \A l \in lines : InOrder(l) /\ Covered(scope, Ev!Span(path, l.from, l.to))
  PROVE  ~ Ev!GapsOverlap(rows, run, path, lines)
<1> SUFFICES ASSUME Ev!GapsOverlap(rows, run, path, lines)
             PROVE  FALSE
  OBVIOUS
<1>1. PICK g \in rows.gaps :
        g.path = path /\ \E l \in lines : g.lines.from <= l.to /\ g.lines.to >= l.from
  BY DEF Ev!GapsOverlap
<1>2. PICK l \in lines : g.lines.from <= l.to /\ g.lines.to >= l.from
  BY <1>1
<1>3. InOrder(g.lines)
  BY <1>1 DEF GapIsOf
<1>4. Ev!Relevant(scope, Ev!Span(path, g.lines.from, g.lines.to))
  BY <1>2, <1>3, CoveredMeets
<1>5. g \in Ev!CountedGaps(rows, scope)
  BY <1>1, <1>4 DEF Ev!CountedGaps
<1> QED
  BY <1>5

(* Nor is a gap of a test of a run that is shown.                          *)
LEMMA NoTestIsMissing ==
  ASSUME NEW rows, \A g \in rows.gaps : GapIsOf(rows, g), NEW scope,
         Ev!CountedGaps(rows, scope) = {}, NEW run \in Ev!RelevantRuns(rows, scope), NEW name,
         Ev!TestGap(rows, run, name)
  PROVE  \E r \in rows.regions :
           r.run = run /\ r.key.context = name /\ Ev!NeedsTestGap(rows.files, name)
<1>1. PICK g \in rows.gaps : g.run = run /\ g.reason \in Ev!TestReasons /\ g.target = name
  BY DEF Ev!TestGap
<1>2. CASE g.path = Nothing
  <2>1. g \in Ev!CountedGaps(rows, scope)
    BY <1>1, <1>2 DEF Ev!CountedGaps
  <2> QED
    BY <2>1
<1>3. CASE g.path # Nothing
  BY <1>1, <1>3 DEF GapIsOf
<1> QED
  BY <1>2, <1>3

(* What is observed in a scope.                                            *)
LEMMA ObservedAre ==
  ASSUME NEW rows, NEW scope
  PROVE  /\ \A r \in Ev!RelevantRegions(rows, scope) :
              /\ r \in rows.regions /\ r.key.path \in DOMAIN rows.files
              /\ Ev!Relevant(scope, Ev!Span(r.key.path, r.key.from, r.key.to))
              /\ r.run \in Ev!RelevantRuns(rows, scope)
         /\ \A b \in Ev!RelevantBranches(rows, scope) :
              /\ b \in rows.branches /\ b.key.path \in DOMAIN rows.files
              /\ b.run \in Ev!RelevantRuns(rows, scope)
<1>1. /\ Ev!Observations(rows).regions = {r \in rows.regions : r.key.path \in DOMAIN rows.files}
      /\ Ev!Observations(rows).branches = {b \in rows.branches : b.key.path \in DOMAIN rows.files}
  BY DEF Ev!Observations
<1>2. \A o \in Ev!RelevantRegions(rows, scope) \union Ev!RelevantBranches(rows, scope) :
        o.run \in Ev!RelevantRuns(rows, scope)
  BY DEF Ev!RelevantRuns
<1> QED
  BY <1>1, <1>2 DEF Ev!RelevantRegions, Ev!RelevantBranches

(* A claim about lines that are all in scope is complete where no gap is   *)
(* counted.                                                                *)
LEMMA RegionIsComplete ==
  ASSUME NEW in, Captured(in), ReportsHold(in), NEW rows, rows = Ev!Rows(in), NEW scope,
         \A r \in scope.ranges : r.from \in Int /\ r.to \in Int,
         Ev!CountedGaps(rows, scope) = {}, NEW r \in Ev!RelevantRegions(rows, scope),
         \A s \in Ev!RegionClaim(rows, r).lines : Covered(scope, s)
  PROVE  Ev!RegionClaim(rows, r).complete
<1> DEFINE run == rows.runs[r.run]
           name == IF run.format = "llvm" THEN run.test ELSE r.key.context
           lines == Ev!Lines(r.key.from, r.key.to)
<1>1. /\ r \in rows.regions /\ r.key.path \in DOMAIN rows.files
      /\ Ev!Relevant(scope, Ev!Span(r.key.path, r.key.from, r.key.to))
      /\ r.run \in Ev!RelevantRuns(rows, scope)
  BY ObservedAre
<1>2. /\ r.run \in DOMAIN rows.runs /\ InOrder(r.key)
      /\ \A q \in rows.regions : rows.runs[q.run].format = "llvm" => q.key.context = Nothing
  BY <1>1, ObservationsAre DEF RegionIsLined
<1>3. \A g \in rows.gaps : GapIsOf(rows, g)
  BY GapsAreOf
<1>4. Nothing \notin DOMAIN rows.files
  BY RowsAre DEF Captured, Ev!InputIsSound
<1>5. Ev!RegionClaim(rows, r).lines = {Ev!Span(r.key.path, r.key.from, r.key.to)}
  BY DEF Ev!RegionClaim
<1>6. lines.from = r.key.from /\ lines.to = r.key.to /\ InOrder(lines)
  BY <1>2 DEF Ev!Lines, InOrder
<1>7. Ev!RegionClaim(rows, r).complete
        = (/\ ~ Ev!TestGap(rows, r.run, name)
           /\ ~ Ev!GapsOverlap(rows, r.run, r.key.path, {lines}))
  BY DEF Ev!RegionClaim
<1> HIDE DEF lines
<1>8. ~ Ev!GapsOverlap(rows, r.run, r.key.path, {lines})
  <2>1. r.key.path # Nothing
    BY <1>1, <1>4
  <2>2. \A l \in {lines} : InOrder(l) /\ Covered(scope, Ev!Span(r.key.path, l.from, l.to))
    BY <1>5, <1>6
  <2> QED
    BY <1>3, <2>1, <2>2, NothingOverlaps
<1>9. ~ Ev!TestGap(rows, r.run, name)
  <2> SUFFICES ASSUME Ev!TestGap(rows, r.run, name)
               PROVE  FALSE
    OBVIOUS
  <2> HIDE DEF name
  <2>1. PICK q \in rows.regions :
          q.run = r.run /\ q.key.context = name /\ Ev!NeedsTestGap(rows.files, name)
    BY <1>1, <1>3, NoTestIsMissing
  <2>2. name # Nothing
    BY <2>1 DEF Ev!NeedsTestGap
  <2>3. run.format # "llvm" /\ name = r.key.context
    BY <1>2, <2>1, <2>2 DEF name
  <2> DEFINE g == Ev!Gap(r.run, r.key.path, Ev!Lines(r.key.from, r.key.to),
                         Ev!TestReason(rows.files, r.key.context), r.key.context)
  <2>4. rows.gaps = Ev!GapRows(rows.files, rows.runs, rows.regions, rows.branches)
    BY RowsAre
  <2>5. g \in rows.gaps
    BY <1>1, <2>1, <2>3, <2>4, GapsAre
  <2>6. g.path = r.key.path /\ g.lines.from = r.key.from /\ g.lines.to = r.key.to
    BY DEF Ev!Gap, Ev!Lines
  <2> HIDE DEF g
  <2>7. g \in Ev!CountedGaps(rows, scope)
    BY <1>1, <1>4, <2>5, <2>6 DEF Ev!CountedGaps
  <2> QED
    BY <2>7
<1> QED
  BY <1>7, <1>8, <1>9

LEMMA BranchIsComplete ==
  ASSUME NEW in, Captured(in), ReportsHold(in), NEW rows, rows = Ev!Rows(in), NEW scope,
         \A r \in scope.ranges : r.from \in Int /\ r.to \in Int,
         Ev!CountedGaps(rows, scope) = {}, NEW b \in Ev!RelevantBranches(rows, scope),
         \A s \in Ev!BranchClaim(rows, b).lines : Covered(scope, s)
  PROVE  Ev!BranchClaim(rows, b).complete
<1> DEFINE run == rows.runs[b.run]
           lines == Ev!BranchLines(b.key)
<1>1. /\ b \in rows.branches /\ b.key.path \in DOMAIN rows.files
      /\ b.run \in Ev!RelevantRuns(rows, scope)
  BY ObservedAre
<1>2. /\ b.run \in DOMAIN rows.runs /\ BranchIsLined(b.key) /\ Ev!BranchHolds(b.key)
      /\ \A q \in rows.regions : rows.runs[q.run].format = "llvm" => q.key.context = Nothing
  BY <1>1, ObservationsAre
<1>3. \A g \in rows.gaps : GapIsOf(rows, g)
  BY GapsAreOf
<1>4. Nothing \notin DOMAIN rows.files
  BY RowsAre DEF Captured, Ev!InputIsSound
<1>5. Ev!BranchClaim(rows, b).lines = {Ev!Span(b.key.path, l.from, l.to) : l \in lines}
  BY DEF Ev!BranchClaim
<1>6. \A l \in lines : InOrder(l)
  BY <1>2, BranchLinesAre
<1>7. Ev!BranchClaim(rows, b).complete
        = (/\ ~ (run.format = "llvm" /\ Ev!TestGap(rows, b.run, run.test))
           /\ ~ Ev!GapsOverlap(rows, b.run, b.key.path, lines))
  BY DEF Ev!BranchClaim
<1> HIDE DEF lines
<1>8. ~ Ev!GapsOverlap(rows, b.run, b.key.path, lines)
  <2>1. b.key.path # Nothing
    BY <1>1, <1>4
  <2>2. \A l \in lines : InOrder(l) /\ Covered(scope, Ev!Span(b.key.path, l.from, l.to))
    BY <1>5, <1>6
  <2> QED
    BY <1>3, <2>1, <2>2, NothingOverlaps
<1>9. ~ (run.format = "llvm" /\ Ev!TestGap(rows, b.run, run.test))
  <2> SUFFICES ASSUME run.format = "llvm", Ev!TestGap(rows, b.run, run.test)
               PROVE  FALSE
    OBVIOUS
  <2>1. PICK q \in rows.regions :
          q.run = b.run /\ q.key.context = run.test /\ Ev!NeedsTestGap(rows.files, run.test)
    BY <1>1, <1>3, NoTestIsMissing
  <2>2. run.test # Nothing
    BY <2>1 DEF Ev!NeedsTestGap
  <2> QED
    BY <1>2, <2>1, <2>2
<1> QED
  BY <1>7, <1>8, <1>9

(* Lines that are claimed as observed or not are of a symbol: a region     *)
(* that is in no symbol has a gap of its own.                              *)
LEMMA RegionIsKnown ==
  ASSUME NEW in, Captured(in), ReportsHold(in), NEW rows, rows = Ev!Rows(in), NEW scope,
         NEW r \in Ev!RelevantRegions(rows, scope), Ev!RegionClaim(rows, r).says # "unknown"
  PROVE  Ev!HasSymbol(rows.files, r.key.path, Ev!Lines(r.key.from, r.key.to))
<1> DEFINE lines == Ev!Lines(r.key.from, r.key.to)
           g == Ev!Gap(r.run, r.key.path, lines, "coverage-unmapped-region", Nothing)
<1>1. r \in rows.regions /\ r.key.path \in DOMAIN rows.files
  BY ObservedAre
<1>2. InOrder(r.key)
  BY <1>1, ObservationsAre DEF RegionIsLined
<1>3. ~ Ev!GapsOverlap(rows, r.run, r.key.path, {lines})
  BY DEF Ev!RegionClaim
<1> SUFFICES ASSUME ~ Ev!HasSymbol(rows.files, r.key.path, lines)
             PROVE  FALSE
  OBVIOUS
<1>4. Ev!MappingGaps(rows.files, r.run, r.key.path, lines) \subseteq rows.gaps
  BY <1>1, RowsAre, GapsAre
<1>5. g \in rows.gaps
  BY <1>1, <1>4 DEF Ev!MappingGaps
<1>6. /\ g.run = r.run /\ g.reason = "coverage-unmapped-region" /\ g.path = r.key.path
      /\ g.lines = lines
  BY DEF Ev!Gap
<1>7. lines.from <= lines.to /\ lines.to >= lines.from
  BY <1>2 DEF InOrder, Ev!Lines
<1> HIDE DEF g, lines
<1>8. "coverage-unmapped-region" \notin Ev!TestReasons
  BY DEF Ev!TestReasons
<1> QED
  BY <1>3, <1>5, <1>6, <1>7, <1>8 DEF Ev!GapsOverlap

LEMMA BranchIsKnown ==
  ASSUME NEW in, Captured(in), ReportsHold(in), NEW rows, rows = Ev!Rows(in), NEW scope,
         NEW b \in Ev!RelevantBranches(rows, scope), Ev!BranchClaim(rows, b).says # "unknown"
  PROVE  Ev!HasSymbol(rows.files, b.key.path, Ev!LinesOfBranch(b.key))
<1> DEFINE lines == Ev!LinesOfBranch(b.key)
           g == Ev!Gap(b.run, b.key.path, lines, "coverage-unmapped-region", Nothing)
<1>1. b \in rows.branches /\ b.key.path \in DOMAIN rows.files
  BY ObservedAre
<1>2. BranchIsLined(b.key) /\ Ev!BranchHolds(b.key)
  BY <1>1, ObservationsAre
<1>3. ~ Ev!GapsOverlap(rows, b.run, b.key.path, Ev!BranchLines(b.key))
  BY DEF Ev!BranchClaim
<1> SUFFICES ASSUME ~ Ev!HasSymbol(rows.files, b.key.path, lines)
             PROVE  FALSE
  OBVIOUS
<1>4. Ev!MappingGaps(rows.files, b.run, b.key.path, lines) \subseteq rows.gaps
  BY <1>1, RowsAre, GapsAre
<1>5. g \in rows.gaps
  BY <1>1, <1>4 DEF Ev!MappingGaps
<1>6. /\ g.run = b.run /\ g.reason = "coverage-unmapped-region" /\ g.path = b.key.path
      /\ g.lines = lines
  BY DEF Ev!Gap
<1> HIDE DEF g
<1>7. PICK l \in Ev!BranchLines(b.key) :
        InOrder(l) /\ InOrder(lines) /\ lines.from <= l.from /\ l.to <= lines.to
  BY <1>2, BranchLinesAre
<1> HIDE DEF lines
<1>8. lines.from <= l.to /\ lines.to >= l.from
  BY <1>7 DEF InOrder
<1>9. "coverage-unmapped-region" \notin Ev!TestReasons
  BY DEF Ev!TestReasons
<1> QED
  BY <1>3, <1>5, <1>6, <1>7, <1>8, <1>9 DEF Ev!GapsOverlap

(***************************************************************************)
(* A review.                                                               *)
(***************************************************************************)
LEMMA ReviewIs ==
  ASSUME NEW in, NEW rows, NEW asked
  PROVE  LET review == Ev!ReviewOf(in, rows, asked)
             scope == Ev!ScopeOf(rows, asked)
             counted == Ev!CountedGaps(rows, scope)
             observed == Ev!RelevantRegions(rows, scope) \union Ev!RelevantBranches(rows, scope)
         IN  /\ review.asked = asked /\ review.scope = scope
             /\ review.links = {l \in rows.links : Ev!Touches(scope, rows.files, l)}
             /\ review.claims = Ev!ShownClaims(rows, scope)
             /\ review.gaps = Ev!ShownGaps(rows, scope)
             /\ review.execution = Ev!Status(rows.runs # <<>> /\ (observed # {} \/ counted # {}),
                                             counted = {})
             /\ review.provenance = "complete" =>
                  \A l \in review.links : Ev!LinkComplete(rows, l)
             /\ review.model = "complete" => review.static = {} /\ review.generated = {}
<1> DEFINE review == Ev!ReviewOf(in, rows, asked)
           scope == Ev!ScopeOf(rows, asked)
           links == {l \in rows.links : Ev!Touches(scope, rows.files, l)}
           counted == Ev!CountedGaps(rows, scope)
           observed == Ev!RelevantRegions(rows, scope) \union Ev!RelevantBranches(rows, scope)
           provenance == Ev!Status(links # {}, \A l \in links : Ev!LinkComplete(rows, l))
           execution == Ev!Status(rows.runs # <<>> /\ (observed # {} \/ counted # {}), counted = {})
<1>1. review =
        [asked |-> asked, scope |-> scope, links |-> links,
         generated |-> {g \in Ev!GeneratedGaps(rows) : Ev!GapRelevant(scope, g)},
         static |-> {g \in in.gaps : Ev!GapRelevant(scope, g)},
         claims |-> Ev!ShownClaims(rows, scope), gaps |-> Ev!ShownGaps(rows, scope),
         provenance |-> provenance, execution |-> execution,
         evidence |-> IF "partial" \in {provenance, execution} THEN "partial" ELSE "complete",
         model |-> IF asked.complete /\ Ev!StaticComplete(in, rows, scope)
                   THEN "complete" ELSE "partial"]
  BY Zenon DEF Ev!ReviewOf
<1> HIDE DEF scope, links, counted, observed, provenance, execution, review
<1>2. /\ review.asked = asked /\ review.scope = scope /\ review.links = links
      /\ review.claims = Ev!ShownClaims(rows, scope) /\ review.gaps = Ev!ShownGaps(rows, scope)
      /\ review.execution = execution /\ review.provenance = provenance
      /\ review.generated = {g \in Ev!GeneratedGaps(rows) : Ev!GapRelevant(scope, g)}
      /\ review.static = {g \in in.gaps : Ev!GapRelevant(scope, g)}
      /\ review.model = IF asked.complete /\ Ev!StaticComplete(in, rows, scope)
                        THEN "complete" ELSE "partial"
  BY <1>1
<1>3. provenance = "complete" => \A l \in links : Ev!LinkComplete(rows, l)
  BY DEF provenance, Ev!Status
<1>4. Ev!StaticComplete(in, rows, scope) => in.gaps = {} /\ Ev!GeneratedGaps(rows) = {}
  BY DEF Ev!StaticComplete, Ev!GeneratedGaps
<1>5. review.model = "complete" => review.static = {} /\ review.generated = {}
  BY <1>2, <1>4
<1> QED
  BY <1>2, <1>3, <1>5, Zenon DEF review, scope, links, counted, observed, execution

LEMMA StatusIs ==
  ASSUME NEW applicable \in BOOLEAN, NEW complete \in BOOLEAN
  PROVE  /\ Ev!Status(applicable, complete) = "not-applicable" => ~ applicable
         /\ Ev!Status(applicable, complete) = "complete" => complete
         /\ Ev!Status(applicable, complete) = "partial" => ~ complete
BY DEF Ev!Status

LEMMA ReviewIsHonest ==
  ASSUME NEW asked, Captured(input), ReportsHold(input),
         Ev!AskIsSound(Ev!WithOutputs(input), asked),
         result = [status |-> "reviewed", rows |-> Ev!Rows(input),
                   review |-> Ev!ReviewOf(input, Ev!Rows(input), asked)]
  PROVE  Ev!ClaimsAreHonest
<1> DEFINE rows == Ev!Rows(input)
           review == Ev!ReviewOf(input, rows, asked)
           scope == Ev!ScopeOf(rows, asked)
           counted == Ev!CountedGaps(rows, scope)
           observed == Ev!RelevantRegions(rows, scope) \union Ev!RelevantBranches(rows, scope)
<1>1. result.rows = rows /\ result.review = review
  OBVIOUS
<1>2. IsFiniteSet(rows.links) /\ rows.files = Ev!WithOutputs(input)
  BY LinksAreFinite, RowsAre
<1>3. ScopeIsOf(rows, asked, scope)
  BY <1>2, ScopeOfIs
<1>4. \A r \in scope.ranges : r.from \in Int /\ r.to \in Int
  BY <1>3, ScopeLinesAre
<1>5. /\ review.asked = asked /\ review.scope = scope
      /\ review.links = {l \in rows.links : Ev!Touches(scope, rows.files, l)}
      /\ review.claims = Ev!ShownClaims(rows, scope) /\ review.gaps = Ev!ShownGaps(rows, scope)
      /\ review.execution = Ev!Status(rows.runs # <<>> /\ (observed # {} \/ counted # {}),
                                      counted = {})
      /\ review.provenance = "complete" => \A l \in review.links : Ev!LinkComplete(rows, l)
      /\ review.model = "complete" => review.static = {} /\ review.generated = {}
  BY ReviewIs
<1>6. \A g \in rows.gaps : GapIsOf(rows, g)
  BY GapsAreOf
<1>7. review.gaps = counted
  <2> HIDE DEF rows, scope
  <2> QED
    BY <1>5, <1>6, ShownAreCounted
<1>8. \A c \in review.claims :
        \/ \E r \in Ev!RelevantRegions(rows, scope) : c = Ev!RegionClaim(rows, r)
        \/ \E b \in Ev!RelevantBranches(rows, scope) : c = Ev!BranchClaim(rows, b)
  BY <1>5 DEF Ev!ShownClaims
<1>9. rows.runs = <<>> => observed = {} /\ counted = {}
  <2> SUFFICES ASSUME rows.runs = <<>>
               PROVE  observed = {} /\ counted = {}
    OBVIOUS
  <2>1. DOMAIN rows.runs = {}
    OBVIOUS
  <2>2. rows.regions = {} /\ rows.branches = {}
    <3>1. /\ rows.regions = Ev!RegionRows(rows.files, rows.runs)
          /\ rows.branches = Ev!BranchRows(rows.runs)
      BY RowsAre
    <3> HIDE DEF rows
    <3> QED
      BY <2>1, <3>1 DEF Ev!RegionRows, Ev!BranchRows
  <2>3. rows.gaps = {}
    <3>1. rows.gaps = Ev!GapRows(rows.files, rows.runs, rows.regions, rows.branches)
      BY RowsAre
    <3> HIDE DEF rows
    <3> QED
      BY <2>1, <2>2, <3>1 DEF Ev!GapRows, Ev!RunGaps, Ev!OutsideGaps
  <2> HIDE DEF rows, scope
  <2>4. counted = {}
    BY <2>3 DEF Ev!CountedGaps
  <2>5. observed = {}
    BY <2>2, ObservedAre
  <2> QED
    BY <2>4, <2>5
<1> HIDE DEF rows, scope, counted, observed, review
<1>10. /\ review.execution = "not-applicable" => observed = {} /\ counted = {}
       /\ review.execution = "complete" => counted = {}
       /\ review.execution = "partial" => counted # {}
  BY <1>5, <1>9, StatusIs
<1>11. review.execution = "not-applicable" => review.claims = {} /\ review.gaps = {}
  BY <1>7, <1>8, <1>10 DEF observed
<1>12. ASSUME review.execution = "complete", NEW c \in review.claims,
              \A s \in c.lines : Covered(scope, s)
       PROVE  c.complete
  <2>1. Ev!CountedGaps(rows, scope) = {}
    BY <1>10, <1>12 DEF counted
  <2>2. CASE \E r \in Ev!RelevantRegions(rows, scope) : c = Ev!RegionClaim(rows, r)
    BY <1>4, <1>12, <2>1, <2>2, RegionIsComplete DEF rows
  <2>3. CASE \E b \in Ev!RelevantBranches(rows, scope) : c = Ev!BranchClaim(rows, b)
    BY <1>4, <1>12, <2>1, <2>3, BranchIsComplete DEF rows
  <2> QED
    BY <1>8, <2>2, <2>3
<1>13. ASSUME NEW c \in review.claims, c.says # "unknown"
       PROVE  Ev!HasSymbol(rows.files, c.of.key.path,
                           IF "context" \in DOMAIN c.of.key
                           THEN Ev!Lines(c.of.key.from, c.of.key.to)
                           ELSE Ev!LinesOfBranch(c.of.key))
  <2>1. CASE \E r \in Ev!RelevantRegions(rows, scope) : c = Ev!RegionClaim(rows, r)
    <3>1. PICK r \in Ev!RelevantRegions(rows, scope) : c = Ev!RegionClaim(rows, r)
      BY <2>1
    <3>2. c.of = r
      BY <3>1 DEF Ev!RegionClaim
    <3>3. "context" \in DOMAIN r.key
      BY ObservedAre, ObservationsAre DEF rows, RegionIsLined
    <3>4. Ev!HasSymbol(rows.files, r.key.path, Ev!Lines(r.key.from, r.key.to))
      BY <1>13, <3>1, RegionIsKnown DEF rows
    <3> QED
      BY <3>2, <3>3, <3>4
  <2>2. CASE \E b \in Ev!RelevantBranches(rows, scope) : c = Ev!BranchClaim(rows, b)
    <3>1. PICK b \in Ev!RelevantBranches(rows, scope) : c = Ev!BranchClaim(rows, b)
      BY <2>2
    <3>2. c.of = b
      BY <3>1 DEF Ev!BranchClaim
    <3>3. "context" \notin DOMAIN b.key
      BY ObservedAre, ObservationsAre DEF rows
    <3>4. Ev!HasSymbol(rows.files, b.key.path, Ev!LinesOfBranch(b.key))
      BY <1>13, <3>1, BranchIsKnown DEF rows
    <3> QED
      BY <3>2, <3>3, <3>4
  <2> QED
    BY <1>8, <2>1, <2>2
<1>14. asked.mode = "full" =>
         Ev!LinksReached(rows, [scope EXCEPT !.ranges = Ev!Start(rows, asked)], scope)
  BY <1>3, LinksAreReached
<1>15. review.provenance = "complete" =>
         \A l \in review.links : l.state = "linked" /\ l.of.output.path \in DOMAIN rows.files
  BY <1>5 DEF Ev!LinkComplete
<1> QED
  BY <1>1, <1>5, <1>7, <1>10, <1>11, <1>12, <1>13, <1>14, <1>15, SMTT(30)
     DEF Ev!ClaimsAreHonest, Covered

(* A review says of the evidence what is there, and calls it complete only *)
(* where nothing is left out: coverage_relevance, which decides what is    *)
(* counted, and render_evidence, which decides what is shown, agree for    *)
(* any manifests, reports and questions.                                   *)
THEOREM ClaimsAreTheRows == SpecAnswers => []ClaimsAreHonest
<1>1. InitAnswers => (part = "evidence" => ImportInv)
  BY DEF InitAnswers, Ev!Init, ImportInv
<1>2. (part = "evidence" => ImportInv) /\ [NextAnswers]_answersVars
        => (part = "evidence" => ImportInv)'
  BY EvidenceKept
<1>3. (part = "evidence" => ImportInv) => ClaimsAreHonest
  <2> SUFFICES ASSUME ImportInv, result # Nothing, result.status = "reviewed"
               PROVE  Ev!ClaimsAreHonest
    BY DEF ClaimsAreHonest, Ev!ClaimsAreHonest
  <2>1. InputHolds /\ (result = Ev!ImportOf(input) \/ Reviewed)
    BY DEF ImportInv
  <2>2. /\ Ev!ImportOf(input).status # "reviewed"
        /\ Ev!ImportOf(input).status = "stored" =>
             /\ Ev!ManifestHolds(input.manifest) /\ Ev!CaptureHolds(input)
             /\ Ev!ParsedOutputs(input) \intersect DOMAIN input.files = {} /\ ReportsHold(input)
             /\ Ev!ImportOf(input).rows = Ev!Rows(input)
    BY ImportCases DEF Ev!Refused
  <2>3. Reviewed
    BY <2>1, <2>2
  <2>4. PICK asked \in input.asked :
          result = [status |-> "reviewed", rows |-> Ev!Rows(input),
                    review |-> Ev!ReviewOf(input, Ev!Rows(input), asked)]
    BY <2>2, <2>3 DEF Reviewed
  <2>5. Captured(input) /\ ReportsHold(input) /\ Ev!AskIsSound(Ev!WithOutputs(input), asked)
    BY <2>1, <2>2, <2>3 DEF Reviewed, InputHolds, Captured
  <2> QED
    BY <2>4, <2>5, ReviewIsHonest
<1> QED
  BY <1>1, <1>2, <1>3, PTL DEF SpecAnswers

=============================================================================
