----------------------------- MODULE ReviewProofs -----------------------------
(***************************************************************************)
(* Proofs about ReviewAnswers: whoever follows the cursors of a review has *)
(* the review, whatever the texts, the budgets, the cache and the other    *)
(* readers are; and what is told of the captured changes is what changed,  *)
(* whatever the files are and whatever renames Git finds.                  *)
(***************************************************************************)
EXTENDS ReviewAnswers, WellFoundedInduction, FunctionTheorems, FiniteSetTheorems,
        SequenceTheorems, TLAPS

(***************************************************************************)
(* Numbers.  That a set of numbers has a least element takes the place of  *)
(* induction.                                                              *)
(***************************************************************************)
LEMMA Least ==
  ASSUME NEW T, T \subseteq Nat, T # {}
  PROVE  \E x \in T : \A y \in T : x <= y
<1> DEFINE R == OpToRel(<, Nat)
<1>1. IsWellFoundedOn(R, Nat)
  BY NatLessThanWellFounded, Zenon
<1>2. \A x, y \in Nat : <<x, y>> \in R <=> x < y
  BY DEF OpToRel
<1> HIDE DEF R
<1>3. PICK x \in T : \A y \in T : ~ (<<y, x>> \in R)
  BY <1>1, WFMin
<1>4. \A y \in T : x \in Nat /\ y \in Nat /\ ~ (y < x)
  BY <1>2, <1>3
<1>5. \A y \in T : x <= y
  BY <1>4
<1> QED
  BY <1>5

LEMMA Greatest ==
  ASSUME NEW T, NEW n \in Nat, T \subseteq 0 .. n, T # {}
  PROVE  \E x \in T : \A y \in T : y <= x
<1> DEFINE U == {u \in Nat : \A y \in T : y <= u}
<1>1. U \subseteq Nat /\ n \in U
  OBVIOUS
<1>2. PICK u \in U : \A v \in U : u <= v
  BY <1>1, Least
<1>3. CASE u \in T
  BY <1>2, <1>3
<1>4. CASE u \notin T
  <2>1. PICK y \in T : TRUE
    OBVIOUS
  <2>2. \A z \in T : z \in Nat /\ z <= u /\ z # u
    BY <1>2, <1>4
  <2>3. u - 1 \in Nat /\ \A z \in T : z <= u - 1
    BY <1>2, <2>1, <2>2
  <2>4. u - 1 \in U
    BY <2>3
  <2> QED
    BY <1>2, <2>4
<1> QED
  BY <1>3, <1>4

(* What Min and Max choose.                                                *)
LEMMA MinIs ==
  ASSUME NEW T, T \subseteq Nat, T # {}
  PROVE  Pages!Min(T) \in T /\ \A y \in T : Pages!Min(T) <= y
<1>1. \E x \in T : \A y \in T : x <= y
  BY Least
<1> QED
  BY <1>1, Zenon DEF Pages!Min

LEMMA MaxIs ==
  ASSUME NEW T, NEW n \in Nat, T \subseteq 0 .. n, T # {}
  PROVE  Pages!Max(T) \in T /\ \A y \in T : y <= Pages!Max(T)
<1>1. \E x \in T : \A y \in T : y <= x
  BY Greatest
<1>2. \A x \in T : \A y \in T : y <= x <=> x >= y
  OBVIOUS
<1>3. \E x \in T : \A y \in T : x >= y
  BY <1>1, <1>2
<1>4. Pages!Max(T) \in T /\ \A y \in T : Pages!Max(T) >= y
  BY <1>3, Zenon DEF Pages!Max
<1> QED
  BY <1>2, <1>4

LEMMA SameCardinality == \A S : Pages!Cardinality(S) = Cardinality(S)
BY Zenon DEF Pages!Cardinality, Cardinality

(***************************************************************************)
(* One page of one section: it ends behind its beginning, between two      *)
(* characters.                                                             *)
(***************************************************************************)
LEMMA WindowGrows ==
  ASSUME NEW text, NEW width \in Nat, Pages!IsText(text, width),
         NEW offset \in Nat, NEW room \in Nat, width <= room,
         offset < Len(text), Pages!Boundary(text, offset)
  PROVE  /\ Pages!Window(text, offset, room) \in offset + 1 .. Len(text)
         /\ Pages!Boundary(text, Pages!Window(text, offset, room))
<1> DEFINE last == Pages!Min({Len(text), offset + room})
           T == {i \in 0 .. last : Pages!Boundary(text, i)}
<1>1. Len(text) \in Nat
  BY DEF Pages!IsText
<1>2. last \in {Len(text), offset + room} /\ last <= Len(text) /\ last <= offset + room
  <2>1. {Len(text), offset + room} \subseteq Nat
    BY <1>1
  <2> QED
    BY <2>1, MinIs
<1>3. last \in Nat
  BY <1>1, <1>2
<1>4. PICK j \in offset + 1 .. offset + width : j <= Len(text) /\ Pages!Boundary(text, j)
  BY <1>1 DEF Pages!IsText
<1> HIDE DEF last
<1>5. j \in T
  BY <1>1, <1>2, <1>3, <1>4
<1>6. T \subseteq 0 .. last
  OBVIOUS
<1> HIDE DEF T
<1>7. Pages!Max(T) \in T /\ j <= Pages!Max(T)
  BY <1>3, <1>5, <1>6, MaxIs
<1>8. Pages!Window(text, offset, room) = Pages!Max(T)
  BY Zenon DEF Pages!Window, T, last
<1>9. Pages!Max(T) \in 0 .. last /\ Pages!Boundary(text, Pages!Max(T))
  BY <1>7 DEF T
<1>10. Pages!Max(T) \in offset + 1 .. Len(text)
  BY <1>1, <1>2, <1>3, <1>4, <1>7, <1>9
<1> QED
  BY <1>8, <1>9, <1>10

LEMMA CutHolds ==
  ASSUME NEW text, NEW width \in Nat, Pages!IsText(text, width),
         NEW offset \in Nat, NEW end \in offset + 1 .. Len(text), Pages!Boundary(text, end)
  PROVE  /\ Pages!Cut(text, offset, end) \in offset + 1 .. end
         /\ Pages!Boundary(text, Pages!Cut(text, offset, end))
<1> DEFINE lines == {i \in offset + 1 .. end : text[i] = "newline"}
<1>1. Len(text) \in Nat /\ end \in Nat
  BY DEF Pages!IsText
<1>2. CASE end < Len(text) /\ lines # {}
  <2>1. lines \subseteq 0 .. end
    BY <1>1
  <2>2. Pages!Max(lines) \in lines
    BY <1>1, <1>2, <2>1, MaxIs
  <2> DEFINE m == Pages!Max(lines)
  <2>3. m \in offset + 1 .. end /\ text[m] = "newline"
    BY <2>2
  <2>4. Pages!Cut(text, offset, end) = m
    BY <1>2 DEF Pages!Cut
  <2> HIDE DEF m
  <2>5. PICK k \in DOMAIN text : k = m + 1 /\ k - 1 = m
    BY <1>1, <1>2, <2>3 DEF Pages!IsText
  <2>6. text[m + 1] # "more"
    <3>1. text[k] = "more" => text[k - 1] \in {"char", "more"}
      BY DEF Pages!IsText
    <3> QED
      BY <2>3, <2>5, <3>1
  <2>7. Pages!Boundary(text, m)
    BY <1>1, <1>2, <2>3, <2>6 DEF Pages!Boundary
  <2> QED
    BY <2>3, <2>4, <2>7
<1>3. CASE ~ (end < Len(text) /\ lines # {})
  <2>1. Pages!Cut(text, offset, end) = end
    BY <1>3 DEF Pages!Cut
  <2> QED
    BY <1>1, <2>1
<1> QED
  BY <1>2, <1>3

LEMMA PageGrows ==
  ASSUME NEW text, NEW width \in Nat, Pages!IsText(text, width),
         NEW offset \in Nat, NEW room \in Nat, width <= room,
         offset < Len(text) \/ (text = <<>> /\ offset = 0), Pages!Boundary(text, offset)
  PROVE  \E end \in offset .. Len(text) :
           /\ Pages!Page(text, offset, room) = [start |-> offset, end |-> end]
           /\ Pages!Boundary(text, end) /\ (offset < Len(text) => offset < end)
<1>1. Len(text) \in Nat
  BY DEF Pages!IsText
<1>2. CASE text = <<>> /\ offset = 0
  <2>1. Len(text) = 0
    BY <1>2
  <2>2. Pages!Page(text, offset, room) = [start |-> offset, end |-> 0]
    BY <1>2 DEF Pages!Page
  <2> QED
    BY <1>2, <2>1, <2>2
<1>3. CASE offset < Len(text)
  <2> DEFINE window == Pages!Window(text, offset, room)
             end == Pages!Cut(text, offset, window)
  <2>1. window \in offset + 1 .. Len(text) /\ Pages!Boundary(text, window)
    BY <1>3, WindowGrows
  <2>2. end \in offset + 1 .. window /\ Pages!Boundary(text, end)
    BY <2>1, CutHolds
  <2>3. end \in offset .. Len(text) /\ offset < end
    BY <1>1, <2>1, <2>2
  <2>4. ~ (text = <<>> /\ offset = 0) /\ ~ (offset >= Len(text)) /\ ~ (end <= offset)
    BY <1>1, <1>3, <2>3
  <2>5. Pages!Page(text, offset, room) = [start |-> offset, end |-> end]
    BY <2>4, Zenon DEF Pages!Page
  <2> QED
    BY <2>2, <2>3, <2>5
<1> QED
  BY <1>2, <1>3

(***************************************************************************)
(* Ranges: lines, records and hunks lie one behind the other.              *)
(***************************************************************************)
Apart(ranges, n) ==
  /\ ranges \subseteq (0 .. n) \X (0 .. n)
  /\ \A r \in ranges : r[1] < r[2]
  /\ \A r, q \in ranges : r = q \/ r[2] <= q[1] \/ q[2] <= r[1]

(* A range of these begins at `from` and lasts until the next start.       *)
Lasts(range, starts, from, n) ==
  /\ range = <<from, range[2]>> /\ range[2] \in from + 1 .. n
  /\ range[2] \in starts \/ range[2] = n
  /\ \A i \in starts : i <= from \/ range[2] <= i

LEMMA UntilLasts ==
  ASSUME NEW text, NEW n \in Nat, n = Len(text),
         NEW starts, starts \subseteq 0 .. n - 1, NEW from \in starts
  PROVE  Lasts(Pages!Until(text, starts, from), starts, from, n)
<1> DEFINE later == {i \in starts : i > from} \union {n}
           to == Pages!Min(later)
<1>1. later \subseteq Nat /\ later # {}
  <2>1. starts \subseteq Nat
    OBVIOUS
  <2> QED
    BY <2>1
<1>2. to \in later /\ \A i \in later : to <= i
  BY <1>1, MinIs
<1>3. Pages!Until(text, starts, from) = <<from, to>>
  BY Zenon DEF Pages!Until
<1> HIDE DEF to
<1>4. to \in from + 1 .. n /\ (to \in starts \/ to = n)
  BY <1>2
<1>5. \A i \in starts : i <= from \/ to <= i
  BY <1>2
<1> QED
  BY <1>3, <1>4, <1>5 DEF Lasts

LEMMA SegmentsAreApart ==
  ASSUME NEW n \in Nat, NEW starts, starts \subseteq 0 .. n - 1,
         NEW ranges, \A r \in ranges : \E i \in starts : Lasts(r, starts, i, n)
  PROVE  Apart(ranges, n)
<1>1. ASSUME NEW r \in ranges
      PROVE  r \in (0 .. n) \X (0 .. n) /\ r[1] < r[2]
  <2>1. PICK i \in starts : Lasts(r, starts, i, n)
    OBVIOUS
  <2>2. r = <<i, r[2]>> /\ r[2] \in i + 1 .. n /\ i \in 0 .. n
    BY <2>1 DEF Lasts
  <2> QED
    BY <2>2
<1>2. ASSUME NEW r \in ranges, NEW q \in ranges PROVE r = q \/ r[2] <= q[1] \/ q[2] <= r[1]
  <2>1. PICK i \in starts : Lasts(r, starts, i, n)
    OBVIOUS
  <2>2. PICK k \in starts : Lasts(q, starts, k, n)
    OBVIOUS
  <2>3. r = <<i, r[2]>> /\ q = <<k, q[2]>> /\ i \in Nat /\ k \in Nat
        /\ r[2] \in i + 1 .. n /\ q[2] \in k + 1 .. n
    BY <2>1, <2>2 DEF Lasts
  <2>4. (k <= i \/ r[2] <= k) /\ (i <= k \/ q[2] <= i)
    BY <2>1, <2>2 DEF Lasts
  <2>5. CASE i = k
    <3>1. r[2] \in starts \/ r[2] = n
      BY <2>1 DEF Lasts
    <3>2. q[2] \in starts \/ q[2] = n
      BY <2>2 DEF Lasts
    <3>3. r[2] \in starts => r[2] <= i \/ q[2] <= r[2]
      BY <2>2, <2>5 DEF Lasts
    <3>4. q[2] \in starts => q[2] <= i \/ r[2] <= q[2]
      BY <2>1, <2>5 DEF Lasts
    <3>5. r[2] = q[2]
      BY <2>3, <2>5, <3>1, <3>2, <3>3, <3>4
    <3> QED
      BY <2>3, <2>5, <3>5
  <2> QED
    BY <2>3, <2>4, <2>5
<1> QED
  BY <1>1, <1>2 DEF Apart

LEMMA ApartPart ==
  ASSUME NEW ranges, NEW n, Apart(ranges, n), NEW some, some \subseteq ranges
  PROVE  Apart(some, n)
BY DEF Apart

LEMMA StartsAreInside ==
  ASSUME NEW text, NEW n \in Nat, n = Len(text), n # 0
  PROVE  Pages!LineStarts(text) \subseteq 0 .. n - 1
BY DEF Pages!LineStarts, Pages!LineEnds

LEMMA LinesAreApart ==
  ASSUME NEW text, NEW width \in Nat, Pages!IsText(text, width)
  PROVE  /\ Apart(Pages!Lines(text), Len(text))
         /\ \A r \in Pages!Lines(text) : Pages!Boundary(text, r[2])
<1> DEFINE n == Len(text)
<1>1. n \in Nat /\ (text = <<>> <=> n = 0) /\ DOMAIN text = 1 .. n
  BY EmptySeq DEF Pages!IsText
<1>0. n = Len(text)
  OBVIOUS
<1> HIDE DEF n
<1>2. CASE text = <<>>
  <2>1. Pages!Lines(text) = {}
    BY <1>2 DEF Pages!Lines
  <2> QED
    BY <1>0, <2>1 DEF Apart
<1>3. CASE text # <<>>
  <2> DEFINE starts == Pages!LineStarts(text)
  <2>1. starts \subseteq 0 .. n - 1
    BY <1>0, <1>1, <1>3, StartsAreInside
  <2>2. Pages!Lines(text) = {Pages!Until(text, starts, i) : i \in starts}
    BY <1>3, Zenon DEF Pages!Lines
  <2> HIDE DEF starts
  <2>5. \A i \in starts : Lasts(Pages!Until(text, starts, i), starts, i, n)
    BY <1>0, <1>1, <2>1, UntilLasts
  <2>6. \A r \in Pages!Lines(text) : \E i \in starts : Lasts(r, starts, i, n)
    BY <2>2, <2>5
  <2>3. Apart(Pages!Lines(text), n)
    BY <1>1, <2>1, <2>6, SegmentsAreApart
  <2>4. ASSUME NEW r \in Pages!Lines(text) PROVE Pages!Boundary(text, r[2])
    <3>1. PICK i \in starts : Lasts(r, starts, i, n)
      BY <2>6
    <3> DEFINE to == r[2]
    <3>2. to \in i + 1 .. n /\ (to \in starts \/ to = n)
      BY <3>1 DEF Lasts
    <3>3. r[2] = to
      OBVIOUS
    <3> HIDE DEF to
    <3>4. CASE to = n
      BY <1>0, <3>3, <3>4 DEF Pages!Boundary
    <3>5. CASE to \in starts
      <4>1. to \in 1 .. n - 1 /\ text[to] = "newline"
        BY <1>0, <1>1, <2>1, <3>2, <3>5 DEF starts, Pages!LineStarts, Pages!LineEnds
      <4>2. PICK k \in DOMAIN text : k = to + 1 /\ k - 1 = to
        BY <1>0, <1>1, <4>1
      <4>3. text[k] = "more" => text[k - 1] \in {"char", "more"}
        BY DEF Pages!IsText
      <4>4. text[to + 1] # "more"
        BY <4>1, <4>2, <4>3
      <4> QED
        BY <1>0, <1>1, <3>3, <4>1, <4>4 DEF Pages!Boundary
    <3> QED
      BY <3>2, <3>4, <3>5
  <2> QED
    BY <1>0, <2>3, <2>4
<1> QED
  BY <1>2, <1>3

LEMMA CountedIsApart ==
  ASSUME NEW text, NEW width \in Nat, Pages!IsText(text, width), NEW k \in Pages!Ranks
  PROVE  \A i \in DOMAIN Pages!Counted(Pages!Sections[k], text) :
           Apart(Pages!Counted(Pages!Sections[k], text)[i], Len(text))
<1>1. Len(text) \in Nat
  BY DEF Pages!IsText
<1>2. Apart(Pages!Lines(text), Len(text))
  BY LinesAreApart
<1>3. \A what : Apart(Pages!Marked(text, what), Len(text))
  <2>1. \A what : Pages!Marked(text, what) \subseteq Pages!Lines(text)
    BY DEF Pages!Marked
  <2> QED
    BY <1>2, <2>1, ApartPart
<1>4. Apart(Pages!Hunks(text), Len(text))
  <2> DEFINE heads == {i \in Pages!LineStarts(text) : Pages!Begins(text, i, {"hunk", "file"})}
             first == {h \in heads : Pages!Begins(text, h, {"hunk"})}
  <2>1. heads \subseteq 0 .. Len(text) - 1
    BY <1>1 DEF Pages!Begins, Pages!LineStarts, Pages!LineEnds
  <2>2. first \subseteq heads
    OBVIOUS
  <2>3. Pages!Hunks(text) = {Pages!Until(text, heads, i) : i \in first}
    BY Zenon DEF Pages!Hunks
  <2> HIDE DEF heads, first
  <2>4. PICK n \in Nat : n = Len(text)
    BY <1>1
  <2>5. \A i \in heads : Lasts(Pages!Until(text, heads, i), heads, i, n)
    BY <2>1, <2>4, UntilLasts
  <2>6. \A r \in Pages!Hunks(text) : \E i \in heads : Lasts(r, heads, i, n)
    BY <2>2, <2>3, <2>5
  <2>7. Apart(Pages!Hunks(text), n)
    BY <2>1, <2>4, <2>6, SegmentsAreApart
  <2> QED
    BY <2>4, <2>7
<1>5. k \in 1 .. 5 /\ Pages!Sections[k] \in {"files", "evidence", "diff", "artifacts", "graph"}
  BY DEF Pages!Ranks, Pages!Sections
<1> DEFINE section == Pages!Sections[k]
<1> HIDE DEF section
<1>6. \A i \in DOMAIN Pages!Counted(section, text) :
        Apart(Pages!Counted(section, text)[i], Len(text))
  <2>1. CASE section \in {"files", "evidence"}
    <3>1. Pages!Counted(section, text) = <<Pages!Lines(text)>>
      BY <2>1 DEF Pages!Counted
    <3> QED
      BY <1>2, <3>1
  <2>2. CASE section = "diff"
    <3>1. Pages!Counted(section, text) = <<Pages!Hunks(text)>>
      BY <2>2 DEF Pages!Counted
    <3> QED
      BY <1>4, <3>1
  <2>3. CASE section = "artifacts"
    <3>1. Pages!Counted(section, text)
            = <<Pages!Hunks(text), Pages!Marked(text, {"file"}), Pages!Marked(text, {"hunk"})>>
      BY <2>3 DEF Pages!Counted
    <3> QED
      BY <1>3, <1>4, <3>1
  <2>4. CASE section = "graph"
    <3>1. Pages!Counted(section, text) = <<Pages!Lines(text), Pages!Marked(text, {"hunk"})>>
      BY <2>4 DEF Pages!Counted
    <3> QED
      BY <1>2, <1>3, <3>1
  <2> QED
    BY <1>5, <2>1, <2>2, <2>3, <2>4 DEF section
<1> QED
  BY <1>6 DEF section

(***************************************************************************)
(* What a page counts of ranges.                                           *)
(***************************************************************************)
LEMMA CountSplits ==
  ASSUME NEW S, IsFiniteSet(S), NEW P, NEW Q, P \union Q = S, P \intersect Q = {}
  PROVE  /\ Pages!Cardinality(S) = Pages!Cardinality(P) + Pages!Cardinality(Q)
         /\ Pages!Cardinality(S) \in Nat /\ Pages!Cardinality(P) \in Nat
         /\ Pages!Cardinality(Q) \in Nat
<1>1. IsFiniteSet(P) /\ IsFiniteSet(Q)
  BY FS_Subset
<1>2. Cardinality(P) \in Nat /\ Cardinality(Q) \in Nat /\ Cardinality(S) \in Nat
      /\ Cardinality({}) = 0
  BY <1>1, FS_CardinalityType, FS_EmptySet
<1>3. Cardinality(P \union Q) = Cardinality(P) + Cardinality(Q) - Cardinality(P \intersect Q)
  BY <1>1, FS_Union
<1>4. Cardinality(S) = Cardinality(P) + Cardinality(Q)
  BY <1>2, <1>3
<1>5. /\ Pages!Cardinality(S) = Cardinality(S) /\ Pages!Cardinality(P) = Cardinality(P)
      /\ Pages!Cardinality(Q) = Cardinality(Q)
  BY Zenon, SameCardinality
<1> QED
  BY <1>2, <1>4, <1>5

LEMMA ApartIsFinite ==
  ASSUME NEW ranges, NEW n \in Nat, Apart(ranges, n)
  PROVE  IsFiniteSet(ranges)
<1>1. IsFiniteSet(0 .. n)
  BY FS_Interval
<1>2. IsFiniteSet((0 .. n) \X (0 .. n))
  BY <1>1, FS_Product
<1> QED
  BY <1>2, FS_Subset DEF Apart

Before(ranges, i) == {r \in ranges : r[2] <= i}
After(ranges, i) == {r \in ranges : r[1] >= i}
Touched(ranges, s, e) == {r \in ranges : r[2] > s /\ r[1] < e}
Whole(ranges, s, e) == {r \in Touched(ranges, s, e) : r[1] >= s /\ r[2] <= e}

LEMMA CoverageIs ==
  ASSUME NEW ranges, NEW s, NEW e
  PROVE  Pages!Coverage(ranges, [start |-> s, end |-> e])
           = [total |-> Pages!Cardinality(ranges),
              prior |-> Pages!Cardinality(Before(ranges, s)),
              emitted |-> Pages!Cardinality(Whole(ranges, s, e)),
              partial |-> Pages!Cardinality(Touched(ranges, s, e) \ Whole(ranges, s, e)),
              remaining |-> Pages!Cardinality(After(ranges, e))]
BY DEF Pages!Coverage, Before, After, Touched, Whole

(* The counts of one page add up.                                          *)
Sums(c) ==
  /\ c.total \in Nat /\ c.prior \in Nat /\ c.emitted \in Nat /\ c.partial \in Nat
  /\ c.remaining \in Nat
  /\ c.total = c.prior + c.emitted + c.partial + c.remaining

LEMMA PageSums ==
  ASSUME NEW ranges, NEW n \in Nat, Apart(ranges, n),
         NEW s \in Nat, NEW e \in Nat, s <= e
  PROVE  /\ Sums(Pages!Coverage(ranges, [start |-> s, end |-> e]))
         /\ Pages!Cardinality(Touched(ranges, s, e))
              = Pages!Coverage(ranges, [start |-> s, end |-> e]).emitted
                  + Pages!Coverage(ranges, [start |-> s, end |-> e]).partial
<1> DEFINE P == Before(ranges, s)
           R == After(ranges, e)
           T == Touched(ranges, s, e)
           W == Whole(ranges, s, e)
<1>1. \A r \in ranges : r[1] \in Nat /\ r[2] \in Nat /\ r[1] < r[2]
  BY DEF Apart
<1>2. IsFiniteSet(ranges)
  BY ApartIsFinite
<1>3. P \union (T \union R) = ranges /\ P \intersect (T \union R) = {}
  BY <1>1 DEF Before, After, Touched
<1>4. T \intersect R = {}
  BY <1>1 DEF After, Touched
<1>5. W \union (T \ W) = T /\ W \intersect (T \ W) = {}
  BY DEF Whole
<1> HIDE DEF P, R, T, W
<1>6. IsFiniteSet(T \union R) /\ IsFiniteSet(T)
  BY <1>2, <1>3, FS_Subset
<1>7. /\ Pages!Cardinality(ranges) = Pages!Cardinality(P) + Pages!Cardinality(T \union R)
      /\ Pages!Cardinality(ranges) \in Nat /\ Pages!Cardinality(P) \in Nat
  BY <1>2, <1>3, CountSplits
<1>8. /\ Pages!Cardinality(T \union R) = Pages!Cardinality(T) + Pages!Cardinality(R)
      /\ Pages!Cardinality(R) \in Nat
  BY <1>4, <1>6, CountSplits
<1>9. /\ Pages!Cardinality(T) = Pages!Cardinality(W) + Pages!Cardinality(T \ W)
      /\ Pages!Cardinality(W) \in Nat /\ Pages!Cardinality(T \ W) \in Nat
  BY <1>5, <1>6, CountSplits
<1> DEFINE c == Pages!Coverage(ranges, [start |-> s, end |-> e])
<1>10. /\ c.total = Pages!Cardinality(ranges) /\ c.prior = Pages!Cardinality(P)
       /\ c.emitted = Pages!Cardinality(W) /\ c.partial = Pages!Cardinality(T \ W)
       /\ c.remaining = Pages!Cardinality(R)
  <2>1. c = [total |-> Pages!Cardinality(ranges), prior |-> Pages!Cardinality(P),
             emitted |-> Pages!Cardinality(W), partial |-> Pages!Cardinality(T \ W),
             remaining |-> Pages!Cardinality(R)]
    BY Zenon, CoverageIs DEF P, R, T, W
  <2> HIDE DEF c
  <2> QED
    BY <2>1
<1> HIDE DEF c
<1>11. Sums(c) /\ Pages!Cardinality(T) = c.emitted + c.partial
  BY <1>7, <1>8, <1>9, <1>10 DEF Sums
<1> QED
  BY <1>11 DEF c, T

(* What a page leaves is what the next one shows or leaves; one record may *)
(* be on both.                                                             *)
Follows(b, a) ==
  LET both == b.total - b.remaining - a.prior
  IN  /\ both \in {0, 1} /\ both <= a.partial
      /\ b.remaining = a.emitted + a.partial - both + a.remaining

LEMMA AtMostOne ==
  ASSUME NEW S, \A x, y \in S : x = y
  PROVE  Pages!Cardinality(S) \in {0, 1}
<1>1. CASE S = {}
  BY <1>1, FS_EmptySet, SameCardinality
<1>2. CASE S # {}
  <2>1. PICK x \in S : TRUE
    BY <1>2
  <2>2. S = {x}
    BY <2>1
  <2> QED
    BY <2>2, FS_Singleton, SameCardinality
<1> QED
  BY <1>1, <1>2

LEMMA PagesFollow ==
  ASSUME NEW ranges, NEW n \in Nat, Apart(ranges, n),
         NEW s \in Nat, NEW e \in Nat, NEW f \in Nat, s <= e, e <= f
  PROVE  Follows(Pages!Coverage(ranges, [start |-> s, end |-> e]),
                 Pages!Coverage(ranges, [start |-> e, end |-> f]))
<1> DEFINE b == Pages!Coverage(ranges, [start |-> s, end |-> e])
           a == Pages!Coverage(ranges, [start |-> e, end |-> f])
           Over == {r \in ranges : r[1] < e /\ e < r[2]}
           Later == {r \in ranges : e <= r[1] /\ r[1] < f}
           T == Touched(ranges, e, f)
           W == Whole(ranges, e, f)
<1>1. \A r \in ranges : r[1] \in Nat /\ r[2] \in Nat /\ r[1] < r[2]
  BY DEF Apart
<1>2. IsFiniteSet(ranges)
  BY ApartIsFinite
<1>3. /\ Before(ranges, e) \union (Over \union After(ranges, e)) = ranges
      /\ Before(ranges, e) \intersect (Over \union After(ranges, e)) = {}
  BY <1>1 DEF Before, After
<1>4. Over \intersect After(ranges, e) = {}
  BY <1>1 DEF After
<1>5. Over \union Later = T /\ Over \intersect Later = {}
  BY <1>1 DEF Touched
<1>6. /\ Later \union After(ranges, f) = After(ranges, e)
      /\ Later \intersect After(ranges, f) = {}
  BY <1>1 DEF After
<1>7. Over \subseteq T \ W
  BY <1>1 DEF Touched, Whole
<1>8. \A x, y \in Over : x = y
  BY <1>1 DEF Apart
<1> HIDE DEF Over, Later, T, W
<1>9. IsFiniteSet(Over \union After(ranges, e)) /\ IsFiniteSet(T) /\ IsFiniteSet(T \ W)
      /\ IsFiniteSet(After(ranges, e))
  <2>1. T \subseteq ranges
    BY DEF T, Touched
  <2> QED
    BY <1>2, <1>3, <2>1, FS_Subset
<1>10. /\ Pages!Cardinality(ranges)
            = Pages!Cardinality(Before(ranges, e)) + Pages!Cardinality(Over \union After(ranges, e))
       /\ Pages!Cardinality(Before(ranges, e)) \in Nat
  BY <1>2, <1>3, CountSplits
<1>11. /\ Pages!Cardinality(Over \union After(ranges, e))
            = Pages!Cardinality(Over) + Pages!Cardinality(After(ranges, e))
       /\ Pages!Cardinality(Over) \in Nat /\ Pages!Cardinality(After(ranges, e)) \in Nat
  BY <1>4, <1>9, CountSplits
<1>12. /\ Pages!Cardinality(T) = Pages!Cardinality(Over) + Pages!Cardinality(Later)
       /\ Pages!Cardinality(Later) \in Nat
  BY <1>5, <1>9, CountSplits
<1>13. /\ Pages!Cardinality(After(ranges, e))
            = Pages!Cardinality(Later) + Pages!Cardinality(After(ranges, f))
       /\ Pages!Cardinality(After(ranges, f)) \in Nat
  <2> DEFINE L == After(ranges, e)
             M == After(ranges, f)
  <2>1. IsFiniteSet(L) /\ Later \union M = L /\ Later \intersect M = {}
    BY <1>6, <1>9
  <2> HIDE DEF L, M
  <2>2. /\ Pages!Cardinality(L) = Pages!Cardinality(Later) + Pages!Cardinality(M)
        /\ Pages!Cardinality(M) \in Nat
    BY <2>1, CountSplits
  <2> QED
    BY <2>2 DEF L, M
<1>14. Pages!Cardinality(Over) \in {0, 1}
  BY <1>8, AtMostOne
<1>15. Pages!Cardinality(Over) <= Pages!Cardinality(T \ W)
  BY <1>7, <1>9, FS_Subset, SameCardinality
<1>16. /\ b.total = Pages!Cardinality(ranges)
       /\ b.remaining = Pages!Cardinality(After(ranges, e))
       /\ a.prior = Pages!Cardinality(Before(ranges, e))
       /\ a.partial = Pages!Cardinality(T \ W)
       /\ a.remaining = Pages!Cardinality(After(ranges, f))
  <2>1. b = [total |-> Pages!Cardinality(ranges),
             prior |-> Pages!Cardinality(Before(ranges, s)),
             emitted |-> Pages!Cardinality(Whole(ranges, s, e)),
             partial |-> Pages!Cardinality(Touched(ranges, s, e) \ Whole(ranges, s, e)),
             remaining |-> Pages!Cardinality(After(ranges, e))]
    BY Zenon, CoverageIs
  <2>2. a = [total |-> Pages!Cardinality(ranges),
             prior |-> Pages!Cardinality(Before(ranges, e)),
             emitted |-> Pages!Cardinality(W), partial |-> Pages!Cardinality(T \ W),
             remaining |-> Pages!Cardinality(After(ranges, f))]
    BY Zenon, CoverageIs DEF T, W
  <2> HIDE DEF a, b
  <2> QED
    BY <2>1, <2>2
<1>17. Sums(a) /\ Pages!Cardinality(T) = a.emitted + a.partial
  BY PageSums DEF T
<1> HIDE DEF a, b
<1>18. b.total - b.remaining - a.prior = Pages!Cardinality(Over)
  BY <1>10, <1>11, <1>16
<1>19. Follows(b, a)
  BY <1>12, <1>13, <1>14, <1>15, <1>16, <1>17, <1>18 DEF Follows, Sums
<1> QED
  BY <1>19 DEF a, b

(***************************************************************************)
(* A page of the graph has at most so many records.                        *)
(***************************************************************************)
UpTo(S, m) == {f \in S : f <= m}

(* A set of numbers has a k-th element.                                    *)
LEMMA KthElement ==
  ASSUME NEW S, NEW n \in Nat, S \subseteq 0 .. n,
         NEW k \in Nat, k > 0, k <= Pages!Cardinality(S)
  PROVE  \E e \in S : Pages!Cardinality(UpTo(S, e)) = k
<1>0. \A f \in S : f \in Nat /\ f <= n
  OBVIOUS
<1>1. IsFiniteSet(S)
  <2>1. IsFiniteSet(0 .. n)
    BY FS_Interval
  <2> QED
    BY <2>1, FS_Subset
<1>2. \A P : P \subseteq S => IsFiniteSet(P) /\ Cardinality(P) \in Nat
  BY <1>1, FS_Subset, FS_CardinalityType
<1>3. \A P : Pages!Cardinality(P) = Cardinality(P)
  BY SameCardinality
<1> DEFINE T == {m \in Nat : Cardinality(UpTo(S, m)) >= k}
<1>4. UpTo(S, n) = S
  BY <1>0 DEF UpTo
<1>5. T \subseteq Nat /\ n \in T
  BY <1>3, <1>4
<1>6. PICK m \in T : \A i \in T : m <= i
  BY <1>5, Least
<1> DEFINE U == {f \in S : f < m}
<1>7. m \in Nat /\ Cardinality(UpTo(S, m)) >= k
  OBVIOUS
<1>8. IsFiniteSet(U) /\ Cardinality(U) \in Nat
  <2>1. U \subseteq S
    OBVIOUS
  <2> QED
    BY <1>2, <2>1
<1>9. Cardinality(U) < k
  <2>1. SUFFICES ASSUME Cardinality(U) >= k PROVE FALSE
    BY <1>8
  <2>2. CASE m = 0
    <3>1. \A f \in S : ~ (f < m)
      BY <1>0, <2>2
    <3>2. U = {}
      BY <3>1
    <3>3. Cardinality(U) = 0
      BY <3>2, FS_EmptySet, Zenon
    <3> QED
      BY <2>1, <3>3
  <2>3. CASE m # 0
    <3>1. m - 1 \in Nat /\ ~ (m <= m - 1)
      BY <1>7, <2>3
    <3>4. \A f \in S : f <= m - 1 <=> f < m
      BY <1>0, <1>7
    <3>2. UpTo(S, m - 1) = U
      BY <3>4 DEF UpTo
    <3>3. m - 1 \in T
      BY <2>1, <3>1, <3>2
    <3> QED
      BY <1>6, <3>1, <3>3
  <2> QED
    BY <2>2, <2>3
<1>10. m \in S
  <2>1. SUFFICES ASSUME m \notin S PROVE FALSE
    OBVIOUS
  <2>3. \A f \in S : f <= m <=> f < m
    BY <1>0, <1>7, <2>1
  <2>2. UpTo(S, m) = U
    BY <2>3 DEF UpTo
  <2> QED
    BY <1>7, <1>8, <1>9, <2>2
<1>11. UpTo(S, m) = U \union {m} /\ m \notin U
  <2>1. \A f \in S : f <= m <=> f < m \/ f = m
    BY <1>0, <1>7
  <2>2. ~ (m < m)
    BY <1>7
  <2> QED
    BY <1>10, <2>1, <2>2 DEF UpTo
<1> HIDE DEF U, T
<1>12. Cardinality(UpTo(S, m)) = Cardinality(U) + 1
  BY <1>8, <1>11, FS_AddElement
<1>13. Cardinality(UpTo(S, m)) = k
  BY <1>7, <1>8, <1>9, <1>12
<1> QED
  BY <1>3, <1>10, <1>13

(* Ranges that end at different places are as many as their ends.          *)
LEMMA EndsCount ==
  ASSUME NEW ranges, NEW n \in Nat, Apart(ranges, n),
         NEW some, some \subseteq ranges,
         NEW ends, ends \subseteq 0 .. n, \A r \in some : r[2] \in ends
  PROVE  Pages!Cardinality(some) <= Pages!Cardinality(ends)
<1> DEFINE F == [r \in some |-> r[2]]
<1>1. F \in [some -> ends]
  OBVIOUS
<1>2. ASSUME NEW r \in some, NEW q \in some, F[r] = F[q] PROVE r = q
  <2>1. r[2] = q[2]
    BY <1>2
  <2>2. r \in ranges /\ q \in ranges
    OBVIOUS
  <2>3. r[1] \in Nat /\ r[2] \in Nat /\ q[1] \in Nat /\ q[2] \in Nat /\ r[1] < r[2] /\ q[1] < q[2]
    BY <2>2 DEF Apart
  <2>4. r = q \/ r[2] <= q[1] \/ q[2] <= r[1]
    BY <2>2 DEF Apart
  <2> QED
    BY <2>1, <2>3, <2>4
<1>3. F \in Injection(some, ends)
  BY <1>1, <1>2, Fun_IsInj
<1>4. IsFiniteSet(ends)
  <2>1. IsFiniteSet(0 .. n)
    BY FS_Interval
  <2> QED
    BY <2>1, FS_Subset
<1>5. Cardinality(some) <= Cardinality(ends)
  BY <1>3, <1>4, FS_Injection
<1> QED
  BY <1>5, SameCardinality

Ends(text, s) == {r[2] : r \in {l \in Pages!Lines(text) : l[2] > s}}

LEMMA LimitHolds ==
  ASSUME NEW text, NEW width \in Nat, Pages!IsText(text, width),
         NEW s \in Nat, NEW e \in s .. Len(text), Pages!Boundary(text, e),
         NEW limit \in Nat, limit > 0
  PROVE  \E end \in s .. Len(text) :
           /\ Pages!Limit(text, [start |-> s, end |-> e], limit) = [start |-> s, end |-> end]
           /\ Pages!Boundary(text, end) /\ (s < e => s < end)
           /\ Pages!Cardinality(Touched(Pages!Lines(text), s, end)) <= limit
<1>1. PICK n \in Nat : n = Len(text)
  BY DEF Pages!IsText
<1> DEFINE lines == Pages!Lines(text)
           ends == Ends(text, s)
           page == [start |-> s, end |-> e]
<1>2. Apart(lines, n) /\ \A r \in lines : Pages!Boundary(text, r[2])
  BY <1>1, LinesAreApart
<1> HIDE DEF lines
<1>3. \A r \in lines : r[1] \in 0 .. n /\ r[2] \in 0 .. n /\ r[1] < r[2]
  BY <1>2 DEF Apart
<1>4. ends \subseteq 0 .. n
  BY <1>3 DEF Ends, lines
<1>5. \A end : Touched(lines, s, end) \subseteq lines
               /\ \A r \in Touched(lines, s, end) : r[2] \in ends
  BY DEF Touched, Ends, lines
<1>6. Pages!Limit(text, page, limit)
        = IF Pages!Cardinality(ends) < limit THEN page
          ELSE [page EXCEPT !.end = Pages!Min({@, CHOOSE m \in ends :
                    Pages!Cardinality(UpTo(ends, m)) = limit})]
  <2>1. page.start = s
    OBVIOUS
  <2> HIDE DEF page
  <2>2. Pages!Limit(text, page, limit)
          = IF Pages!Cardinality(Ends(text, page.start)) < limit THEN page
            ELSE [page EXCEPT !.end = Pages!Min({@, CHOOSE m \in Ends(text, page.start) :
                      Pages!Cardinality(UpTo(Ends(text, page.start), m)) = limit})]
    BY Zenon DEF Pages!Limit, UpTo, Ends
  <2> QED
    BY <2>1, <2>2
<1>7. Pages!Cardinality(ends) \in Nat
  <2>0. IsFiniteSet(0 .. n)
    BY FS_Interval
  <2>1. IsFiniteSet(ends)
    BY <1>4, <2>0, FS_Subset
  <2>2. Cardinality(ends) \in Nat
    BY <2>1, FS_CardinalityType
  <2> QED
    BY <2>2, SameCardinality
<1> HIDE DEF ends
<1>8. CASE Pages!Cardinality(ends) < limit
  <2>1. Pages!Limit(text, page, limit) = [start |-> s, end |-> e]
    BY <1>6, <1>8
  <2>2. Pages!Cardinality(Touched(lines, s, e)) <= Pages!Cardinality(ends)
    BY <1>2, <1>4, <1>5, EndsCount
  <2>3. Pages!Cardinality(Touched(lines, s, e)) \in Nat
    <3>1. IsFiniteSet(Touched(lines, s, e))
      BY <1>2, <1>5, ApartIsFinite, FS_Subset
    <3>2. Cardinality(Touched(lines, s, e)) \in Nat
      BY <3>1, FS_CardinalityType
    <3> QED
      BY <3>2, SameCardinality
  <2>4. Pages!Cardinality(Touched(lines, s, e)) <= limit
    BY <1>7, <1>8, <2>2, <2>3
  <2> QED
    BY <2>1, <2>4 DEF lines
<1>9. CASE ~ (Pages!Cardinality(ends) < limit)
  <2>1. limit <= Pages!Cardinality(ends)
    BY <1>7, <1>9
  <2>2. \E m \in ends : Pages!Cardinality(UpTo(ends, m)) = limit
    BY <1>4, <2>1, KthElement
  <2> DEFINE m == CHOOSE m \in ends : Pages!Cardinality(UpTo(ends, m)) = limit
             end == Pages!Min({e, m})
  <2>3. m \in ends /\ Pages!Cardinality(UpTo(ends, m)) = limit
    BY <2>2
  <2>4. Pages!Limit(text, page, limit) = [start |-> s, end |-> end]
    BY <1>6, <1>9
  <2> HIDE DEF m
  <2>5. PICK q \in lines : q[2] = m /\ m > s
    BY <2>3 DEF ends, Ends, lines
  <2>6. end \in {e, m} /\ end <= e /\ end <= m
    <3>1. {e, m} \subseteq Nat
      BY <1>1, <1>3, <2>5
    <3> QED
      BY <3>1, MinIs
  <2> HIDE DEF end
  <2>7. end \in s .. n /\ (s < e => s < end)
    BY <1>1, <1>3, <2>5, <2>6
  <2>8. Pages!Boundary(text, end)
    BY <1>2, <2>5, <2>6
  <2>9. ASSUME NEW r \in Touched(lines, s, end) PROVE r[2] \in UpTo(ends, m)
    <3>1. r \in lines /\ r[1] < end /\ r[2] \in ends
      BY <1>5 DEF Touched
    <3>2. r = q \/ r[2] <= q[1] \/ q[2] <= r[1]
      BY <1>2, <3>1 DEF Apart
    <3>3. r[2] <= m
      BY <1>3, <2>5, <2>6, <2>7, <3>1, <3>2
    <3> QED
      BY <3>1, <3>3 DEF UpTo
  <2>10. UpTo(ends, m) \subseteq 0 .. n
    BY <1>4 DEF UpTo
  <2>11. Pages!Cardinality(Touched(lines, s, end)) <= Pages!Cardinality(UpTo(ends, m))
    BY <1>2, <1>5, <2>9, <2>10, EndsCount
  <2>12. Pages!Cardinality(Touched(lines, s, end)) <= limit
    BY <2>3, <2>11
  <2> QED
    BY <1>1, <2>4, <2>7, <2>8, <2>12 DEF lines
<1> QED
  BY <1>8, <1>9


(***************************************************************************)
(* Texts that follow one another are joined into one.                      *)
(***************************************************************************)
Unrolled(seqs, f) ==
  [i \in 1 .. Len(seqs) |-> IF i = 1 THEN seqs[i] ELSE f[i - 1] \o seqs[i]]

(* What satisfies the recursion of FlattenSeq is what it computes.         *)
LEMMA FlattenIs ==
  ASSUME NEW seqs, NEW m \in Nat, m > 0, Len(seqs) = m, NEW F, F = Unrolled(seqs, F)
  PROVE  Pages!FlattenSeq(seqs) = F[m]
<1> DEFINE G == CHOOSE f : f = Unrolled(seqs, f)
<1>1. G = Unrolled(seqs, G)
  OBVIOUS
<1>2. Pages!FlattenSeq(seqs) = IF Len(seqs) = 0 THEN seqs ELSE G[Len(seqs)]
  BY Zenon DEF Pages!FlattenSeq, Unrolled
<1> HIDE DEF G
<1>3. \A i \in 1 .. m : G[i] = IF i = 1 THEN seqs[i] ELSE G[i - 1] \o seqs[i]
  BY <1>1 DEF Unrolled
<1>4. \A i \in 1 .. m : F[i] = IF i = 1 THEN seqs[i] ELSE F[i - 1] \o seqs[i]
  BY DEF Unrolled
<1> DEFINE Wrong == {i \in 1 .. m : G[i] # F[i]}
<1>5. CASE Wrong # {}
  <2>1. Wrong \subseteq Nat
    OBVIOUS
  <2>2. PICK i \in Wrong : \A k \in Wrong : i <= k
    BY <1>5, <2>1, Least
  <2>3. i \in 1 .. m /\ G[i] # F[i]
    OBVIOUS
  <2>4. i # 1
    BY <1>3, <1>4, <2>3
  <2>5. i - 1 \in 1 .. m /\ ~ (i <= i - 1)
    BY <2>3, <2>4
  <2>6. G[i - 1] = F[i - 1]
    BY <2>2, <2>5
  <2> QED
    BY <1>3, <1>4, <2>3, <2>4, <2>6
<1>6. CASE Wrong = {}
  <2>1. m \in 1 .. m
    OBVIOUS
  <2>2. G[m] = F[m]
    BY <1>6, <2>1
  <2> QED
    BY <1>2, <2>2
<1> QED
  BY <1>5, <1>6

(* Page i shows the text from at[i - 1] to at[i].                          *)
Joins(text, n, pages, at, m) ==
  /\ text \in Seq(Pages!Bytes) /\ n = Len(text)
  /\ DOMAIN pages = 1 .. m
  /\ at \in [0 .. m -> 0 .. n] /\ at[0] = 0
  /\ \A i \in 1 .. m :
       at[i - 1] <= at[i] /\ pages[i].text = SubSeq(text, at[i - 1] + 1, at[i])

JoinsTo(pages, text, end) == Pages!Joined(pages) = SubSeq(text, 1, end)

LEMMA JoinedIs ==
  ASSUME NEW text, NEW n \in Nat, NEW m \in Nat, m > 0, NEW pages, NEW at,
         Joins(text, n, pages, at, m)
  PROVE  JoinsTo(pages, text, at[m])
<1>0. /\ text \in Seq(Pages!Bytes) /\ n = Len(text) /\ DOMAIN pages = 1 .. m
      /\ at \in [0 .. m -> 0 .. n] /\ at[0] = 0
      /\ \A i \in 1 .. m :
           at[i - 1] <= at[i] /\ pages[i].text = SubSeq(text, at[i - 1] + 1, at[i])
  BY DEF Joins
<1>1. \A i \in 1 .. m : i - 1 \in 0 .. m /\ at[i - 1] \in 0 .. n /\ at[i] \in 0 .. n
  <2>1. TAKE i \in 1 .. m
  <2>2. i - 1 \in 0 .. m /\ i \in 0 .. m
    OBVIOUS
  <2>3. at \in [0 .. m -> 0 .. n]
    BY <1>0
  <2> QED
    BY <2>2, <2>3
<1>10. m \in 1 .. m
  OBVIOUS
<1> DEFINE F == [i \in 1 .. m |-> SubSeq(text, 1, at[i])]
<1>7. F[m] = SubSeq(text, 1, at[m])
  BY <1>10
<1> USE <1>0
<1> DEFINE seqs == [i \in DOMAIN pages |-> pages[i].text]
<1>2. \A i \in 1 .. n : text[i] \in Pages!Bytes
  BY ElementOfSeq
<1>3. ASSUME NEW i \in 1 .. m PROVE seqs[i] \in Seq(Pages!Bytes)
  <2> DEFINE s == at[i - 1]
             e == at[i]
  <2>1. s \in 0 .. n /\ e \in 0 .. n
    BY <1>1
  <2>2. seqs[i] = SubSeq(text, s + 1, e)
    OBVIOUS
  <2> HIDE DEF s, e, seqs
  <2>3. s + 1 \in Int /\ e \in Int /\ \A k \in s + 1 .. e : text[k] \in Pages!Bytes
    BY <1>2, <2>1
  <2>4. SubSeq(text, s + 1, e) \in Seq(Pages!Bytes)
    BY <2>3, SubSeqProperties
  <2> QED
    BY <2>2, <2>4
<1>4. Len(seqs) = m
  <2>1. seqs = [i \in 1 .. m |-> seqs[i]]
    OBVIOUS
  <2>2. seqs \in [1 .. m -> Seq(Pages!Bytes)]
    BY <1>3
  <2>3. seqs \in Seq(Seq(Pages!Bytes)) /\ DOMAIN seqs = 1 .. m
    BY <2>2, SeqDef
  <2> HIDE DEF seqs
  <2>4. Len(seqs) \in Nat /\ 1 .. Len(seqs) = 1 .. m
    BY <2>3, LenProperties
  <2> QED
    BY <2>4
<1>5. ASSUME NEW i \in 1 .. m
      PROVE  F[i] = IF i = 1 THEN seqs[i] ELSE F[i - 1] \o seqs[i]
  <2>1. F[i] = SubSeq(text, 1, at[i])
    OBVIOUS
  <2>2. seqs[i] = SubSeq(text, at[i - 1] + 1, at[i])
    OBVIOUS
  <2>3. CASE i = 1
    <3>1. at[i - 1] + 1 = 1
      BY <2>3
    <3> QED
      BY <2>1, <2>2, <2>3, <3>1
  <2>4. CASE i # 1
    <3>0. i - 1 \in 1 .. m
      BY <2>4
    <3>1. F[i - 1] = SubSeq(text, 1, at[i - 1])
      BY <3>0
    <3> DEFINE s == at[i - 1]
               e == at[i]
    <3>2. s \in 0 .. n /\ e \in 0 .. n /\ s <= e
      BY <1>1
    <3> HIDE DEF s, e
    <3>3. SubSeq(text, 1, s) \o SubSeq(text, s + 1, e) = SubSeq(text, 1, e)
      <4>1. 1 \in 1 .. Len(text) + 1 /\ s \in 1 - 1 .. Len(text) /\ e \in s .. Len(text)
        BY <3>2
      <4> QED
        BY <4>1, ConcatAdjacentSubSeq
    <3>4. F[i] = F[i - 1] \o seqs[i]
      BY <2>1, <2>2, <3>1, <3>3 DEF s, e
    <3> QED
      BY <2>4, <3>4
  <2> QED
    BY <2>3, <2>4
<1>6. F = Unrolled(seqs, F)
  <2>1. \A i \in 1 .. m : F[i] = Unrolled(seqs, F)[i]
    BY <1>4, <1>5 DEF Unrolled
  <2>2. DOMAIN Unrolled(seqs, F) = 1 .. m /\ DOMAIN F = 1 .. m
    BY <1>4 DEF Unrolled
  <2>3. Unrolled(seqs, F) = [i \in 1 .. m |-> Unrolled(seqs, F)[i]]
    BY <1>4 DEF Unrolled
  <2>4. F = [i \in 1 .. m |-> F[i]]
    OBVIOUS
  <2> HIDE DEF F
  <2> QED
    BY <2>1, <2>3, <2>4
<1>8. Pages!Joined(pages) = Pages!FlattenSeq(seqs)
  BY DEF Pages!Joined
<1> HIDE DEF seqs, F
<1>9. Pages!FlattenSeq(seqs) = F[m]
  BY <1>4, <1>6, FlattenIs
<1> QED
  BY <1>7, <1>8, <1>9 DEF JoinsTo

(***************************************************************************)
(* A page of a section, and a page of all sections.                        *)
(***************************************************************************)
Good(review, width) ==
  /\ \A k \in Pages!Ranks : Pages!IsText(review.texts[k], width)
  /\ review.maxNodes \in Nat \ {0}

(* The page shows the section from `s` on, and says where it ends.         *)
ShownFrom(review, k, s, page) ==
  /\ page = Pages!Shown(Pages!Sections[k], review.texts[k], [start |-> s, end |-> page.end])
  /\ page.end \in 0 .. Len(review.texts[k]) /\ s <= page.end
  /\ s < Len(review.texts[k]) => s < page.end
  /\ Pages!Boundary(review.texts[k], page.end)
  /\ Pages!Sections[k] = "graph" =>
       Pages!Cardinality(Touched(Pages!Lines(review.texts[k]), s, page.end)) <= review.maxNodes

LEMMA ShownIs ==
  ASSUME NEW section, NEW text, NEW s, NEW e
  PROVE  /\ Pages!Shown(section, text, [start |-> s, end |-> e]).end = e
         /\ ~ Pages!IsError(Pages!Shown(section, text, [start |-> s, end |-> e]))
<1> DEFINE t == SubSeq(text, s + 1, e)
           c == [i \in DOMAIN Pages!Counted(section, text) |->
                   Pages!Coverage(Pages!Counted(section, text)[i], [start |-> s, end |-> e])]
<1>1. [start |-> s, end |-> e].start = s /\ [start |-> s, end |-> e].end = e
  OBVIOUS
<1>2. Pages!Shown(section, text, [start |-> s, end |-> e]) = [text |-> t, counts |-> c, end |-> e]
  BY <1>1, Zenon DEF Pages!Shown
<1> HIDE DEF t, c
<1>3. [text |-> t, counts |-> c, end |-> e].end = e
      /\ ~ Pages!IsError([text |-> t, counts |-> c, end |-> e])
  BY DEF Pages!IsError
<1> QED
  BY <1>2, <1>3

LEMMA SectionPageHolds ==
  ASSUME NEW review, NEW width \in Nat, Good(review, width), NEW k \in Pages!Ranks,
         NEW s \in Nat, NEW budget \in Nat, PageHeader \in Nat, PageHeader + width <= budget,
         s < Len(review.texts[k]) \/ (review.texts[k] = <<>> /\ s = 0),
         Pages!Boundary(review.texts[k], s)
  PROVE  /\ ShownFrom(review, k, s, Pages!SectionPage(review, k, s, budget))
         /\ ~ Pages!IsError(Pages!SectionPage(review, k, s, budget))
<1> DEFINE text == review.texts[k]
           section == Pages!Sections[k]
           room == budget - PageHeader
           page == Pages!Page(text, s, room)
           cut == IF section = "graph" THEN Pages!Limit(text, page, review.maxNodes) ELSE page
<1>1. Pages!SectionPage(review, k, s, budget)
        = IF Pages!IsError(page) THEN page ELSE Pages!Shown(section, text, cut)
  BY Zenon DEF Pages!SectionPage
<1>2. Pages!IsText(text, width) /\ review.maxNodes \in Nat /\ review.maxNodes > 0
  BY DEF Good
<1>3. room \in Nat /\ width <= room
  OBVIOUS
<1>4. PICK n \in Nat : n = Len(text)
  BY <1>2 DEF Pages!IsText
<1> HIDE DEF text, section, room
<1>5. PICK e \in s .. Len(text) :
        /\ Pages!Page(text, s, room) = [start |-> s, end |-> e]
        /\ Pages!Boundary(text, e) /\ (s < Len(text) => s < e)
  <2>1. s < Len(text) \/ (text = <<>> /\ s = 0)
    BY DEF text
  <2>2. Pages!Boundary(text, s)
    BY DEF text
  <2> QED
    BY <1>2, <1>3, <2>1, <2>2, PageGrows
<1>6. ~ Pages!IsError(page)
  BY <1>5 DEF Pages!IsError
<1>7. PICK end \in s .. n :
        /\ cut = [start |-> s, end |-> end]
        /\ Pages!Boundary(text, end) /\ (s < n => s < end)
        /\ section = "graph" =>
             Pages!Cardinality(Touched(Pages!Lines(text), s, end)) <= review.maxNodes
  <2>1. CASE section = "graph"
    <3>1. PICK end \in s .. Len(text) :
            /\ Pages!Limit(text, [start |-> s, end |-> e], review.maxNodes)
                 = [start |-> s, end |-> end]
            /\ Pages!Boundary(text, end) /\ (s < e => s < end)
            /\ Pages!Cardinality(Touched(Pages!Lines(text), s, end)) <= review.maxNodes
      BY <1>2, <1>5, LimitHolds
    <3>2. cut = [start |-> s, end |-> end]
      BY <1>5, <2>1, <3>1
    <3> QED
      BY <1>4, <1>5, <3>1, <3>2
  <2>2. CASE section # "graph"
    <3>1. cut = [start |-> s, end |-> e]
      BY <1>5, <2>2
    <3> QED
      BY <1>4, <1>5, <2>2, <3>1
  <2> QED
    BY <2>1, <2>2
<1> DEFINE shown == Pages!Shown(section, text, [start |-> s, end |-> end])
<1>8. Pages!SectionPage(review, k, s, budget) = shown
  BY <1>1, <1>6, <1>7
<1>9. shown.end = end /\ ~ Pages!IsError(shown)
  BY ShownIs
<1>10. shown = Pages!Shown(section, text, [start |-> s, end |-> shown.end])
  BY <1>9
<1> HIDE DEF shown
<1>11. end \in 0 .. n /\ s <= end
  BY <1>7
<1>12. ShownFrom(review, k, s, shown)
  BY <1>4, <1>7, <1>9, <1>10, <1>11 DEF ShownFrom, text, section
<1> QED
  BY <1>8, <1>9, <1>12

(* Every section that is not exhausted has room on a further page.         *)
LEMMA BudgetHolds ==
  ASSUME NEW active, active \subseteq Pages!Ranks, active # {}, NEW k \in active,
         NEW width \in Nat, PageHeader \in Nat, NextPage \in Nat, NextPage >= 5 * (PageHeader + width)
  PROVE  Pages!Budget(active, k) \in Nat /\ PageHeader + width <= Pages!Budget(active, k)
<1>1. Pages!Ranks = 1 .. 5
  BY DEF Pages!Ranks, Pages!Sections
<1>2. IsFiniteSet(1 .. 5) /\ Cardinality(1 .. 5) = 5
  <2>1. 1 \in Int /\ 5 \in Int
    OBVIOUS
  <2>2. IsFiniteSet(1 .. 5) /\ Cardinality(1 .. 5) = IF 1 > 5 THEN 0 ELSE 5 - 1 + 1
    BY <2>1, FS_Interval
  <2> QED
    BY <2>2
<1> DEFINE c == Pages!Cardinality(active)
           rank == Pages!Cardinality({j \in active : j < k})
           payload == NextPage - c * PageHeader
           more == IF rank < payload % c THEN 1 ELSE 0
<1>3. IsFiniteSet(active) /\ Cardinality(active) <= 5 /\ Cardinality(active) \in Nat
  BY <1>1, <1>2, FS_Subset, FS_CardinalityType
<1>4. Cardinality(active) # 0
  BY <1>3, FS_EmptySet
<1>5. c \in 1 .. 5
  BY <1>3, <1>4, SameCardinality
<1>6. Pages!Budget(active, k) = PageHeader + payload \div c + more
  BY Zenon DEF Pages!Budget
<1>7. more \in Nat
  OBVIOUS
<1> HIDE DEF more, c
<1>8. payload \div c \in Nat /\ width <= payload \div c
  <2>1. CASE c = 1
    BY <2>1
  <2>2. CASE c = 2
    BY <2>2
  <2>3. CASE c = 3
    BY <2>3
  <2>4. CASE c = 4
    BY <2>4
  <2>5. CASE c = 5
    BY <2>5
  <2> QED
    BY <1>5, <2>1, <2>2, <2>3, <2>4, <2>5
<1> HIDE DEF payload
<1>9. PICK q \in Nat : q = payload \div c
  BY <1>8
<1> QED
  BY <1>6, <1>7, <1>8, <1>9

(***************************************************************************)
(* An answer: a page of each active section, and the next cursor.          *)
(***************************************************************************)
NextOffsets(offsets, pages) ==
  [k \in Pages!Ranks |-> IF k \in DOMAIN pages THEN pages[k].end ELSE offsets[k]]
NextCursor(review, offsets) ==
  IF Pages!Remains(review, offsets) THEN [offsets |-> offsets, review |-> review] ELSE Nothing

LEMMA AnswerIs ==
  ASSUME NEW review, NEW offsets, NEW pages,
         \A k \in DOMAIN pages : ~ Pages!IsError(pages[k])
  PROVE  /\ Pages!Answer(review, offsets, pages)
              = [pages |-> pages, cursor |-> NextCursor(review, NextOffsets(offsets, pages))]
         /\ ~ Pages!IsError(Pages!Answer(review, offsets, pages))
<1> DEFINE failed == {k \in DOMAIN pages : Pages!IsError(pages[k])}
           cursor == NextCursor(review, NextOffsets(offsets, pages))
<1>1. failed = {}
  OBVIOUS
<1>2. Pages!Answer(review, offsets, pages)
        = IF failed # {} THEN pages[Pages!Min(failed)] ELSE [pages |-> pages, cursor |-> cursor]
  BY Zenon DEF Pages!Answer, NextCursor, NextOffsets
<1>3. ~ Pages!IsError([pages |-> pages, cursor |-> cursor])
  BY DEF Pages!IsError
<1> QED
  BY <1>1, <1>2, <1>3

(* The answer to a call that shows what is active.                         *)
AnswerHolds(review, offsets, active, answer) ==
  /\ ~ Pages!IsError(answer)
  /\ DOMAIN answer.pages = active
  /\ \A k \in active : ShownFrom(review, k, offsets[k], answer.pages[k])
  /\ answer.cursor = NextCursor(review, NextOffsets(offsets, answer.pages))

AtStart == [k \in Pages!Ranks |-> 0]

LEMMA FirstAnswerHolds ==
  ASSUME NEW review, NEW width \in Nat, Good(review, width), PageHeader \in Nat,
         FirstPage \in [Pages!Ranks -> Nat],
         \A k \in Pages!Ranks : FirstPage[k] >= PageHeader + width
  PROVE  AnswerHolds(review, AtStart, Pages!Ranks, Pages!ReviewContext(review))
<1> DEFINE pages == [k \in Pages!Ranks |-> Pages!SectionPage(review, k, 0, FirstPage[k])]
<1>1. ASSUME NEW k \in Pages!Ranks
      PROVE  ShownFrom(review, k, 0, pages[k]) /\ ~ Pages!IsError(pages[k])
  <2> DEFINE text == review.texts[k]
             budget == FirstPage[k]
  <2>1. Pages!IsText(text, width)
    BY DEF Good
  <2>2. budget \in Nat /\ PageHeader + width <= budget
    OBVIOUS
  <2>3. 0 < Len(text) \/ text = <<>>
    BY <2>1, EmptySeq DEF Pages!IsText
  <2>4. Pages!Boundary(text, 0)
    <3>1. CASE 0 < Len(text)
      <4>1. PICK n \in Nat : n = Len(text) /\ DOMAIN text = 1 .. n
        BY <2>1, LenProperties DEF Pages!IsText
      <4>2. 1 \in DOMAIN text
        BY <3>1, <4>1
      <4>3. text[1] # "more"
        <5>1. ~ (1 > 1)
          OBVIOUS
        <5> QED
          BY <2>1, <4>2, <5>1 DEF Pages!IsText
      <4>4. 0 + 1 = 1
        OBVIOUS
      <4>5. text[0 + 1] # "more"
        BY <4>3, <4>4
      <4> QED
        BY <3>1, <4>5 DEF Pages!Boundary
    <3>2. CASE text = <<>>
      <4>1. Len(text) = 0
        BY <3>2
      <4> QED
        BY <4>1 DEF Pages!Boundary
    <3> QED
      BY <2>3, <3>1, <3>2
  <2>5. pages[k] = Pages!SectionPage(review, k, 0, budget)
    OBVIOUS
  <2> HIDE DEF pages, budget
  <2>6. 0 < Len(review.texts[k]) \/ (review.texts[k] = <<>> /\ 0 = 0)
    BY <2>3
  <2>7. ShownFrom(review, k, 0, Pages!SectionPage(review, k, 0, budget))
        /\ ~ Pages!IsError(Pages!SectionPage(review, k, 0, budget))
    BY <2>2, <2>4, <2>6, SectionPageHolds
  <2> QED
    BY <2>5, <2>7
<1>2. Pages!ReviewContext(review) = Pages!Answer(review, AtStart, pages)
  BY Zenon DEF Pages!ReviewContext, AtStart
<1>3. DOMAIN pages = Pages!Ranks
  OBVIOUS
<1> HIDE DEF pages
<1>4. Pages!ReviewContext(review)
        = [pages |-> pages, cursor |-> NextCursor(review, NextOffsets(AtStart, pages))]
      /\ ~ Pages!IsError(Pages!ReviewContext(review))
  BY <1>1, <1>2, <1>3, AnswerIs
<1>5. \A k \in Pages!Ranks : AtStart[k] = 0
  BY DEF AtStart
<1> QED
  BY <1>1, <1>3, <1>4, <1>5 DEF AnswerHolds

ActiveOf(review, offsets) == {k \in Pages!Ranks : offsets[k] < Len(review.texts[k])}

LEMMA FurtherAnswerHolds ==
  ASSUME NEW review, NEW width \in Nat, Good(review, width), PageHeader \in Nat,
         NextPage \in Nat, NextPage >= 5 * (PageHeader + width),
         NEW offsets, Pages!Remains(review, offsets),
         \A k \in Pages!Ranks : offsets[k] \in Nat /\ Pages!Boundary(review.texts[k], offsets[k])
  PROVE  AnswerHolds(review, offsets, ActiveOf(review, offsets),
           Pages!RenderReviewPage(review, [offsets |-> offsets, review |-> review]))
<1> DEFINE active == ActiveOf(review, offsets)
           cursor == [offsets |-> offsets, review |-> review]
           pages == [k \in active |->
                       Pages!SectionPage(review, k, offsets[k], Pages!Budget(active, k))]
<1>1. active # {} /\ active \subseteq Pages!Ranks
  BY DEF ActiveOf, Pages!Remains
<1>2. cursor.offsets = offsets /\ cursor.review = review
  OBVIOUS
<1>3. Pages!RenderReviewPage(review, cursor)
        = IF review # review THEN Pages!Invalid
          ELSE IF \E k \in Pages!Ranks : ~ Pages!Boundary(review.texts[k], offsets[k])
          THEN Pages!Invalid
          ELSE IF active = {} THEN Pages!Invalid
          ELSE Pages!Answer(review, offsets, pages)
  <2> HIDE DEF cursor
  <2> QED
    BY <1>2, Zenon DEF Pages!RenderReviewPage, ActiveOf
<1>4. Pages!RenderReviewPage(review, cursor) = Pages!Answer(review, offsets, pages)
  BY <1>1, <1>3
<1>5. ASSUME NEW k \in active
      PROVE  ShownFrom(review, k, offsets[k], pages[k]) /\ ~ Pages!IsError(pages[k])
  <2> DEFINE budget == Pages!Budget(active, k)
             s == offsets[k]
  <2>1. k \in Pages!Ranks /\ s \in Nat /\ Pages!Boundary(review.texts[k], s)
        /\ s < Len(review.texts[k])
    BY <1>1 DEF ActiveOf
  <2>2. pages[k] = Pages!SectionPage(review, k, s, budget)
    OBVIOUS
  <2> HIDE DEF active, pages
  <2>3. budget \in Nat /\ PageHeader + width <= budget
    BY <1>1, BudgetHolds
  <2> HIDE DEF budget, s
  <2>4. ShownFrom(review, k, s, Pages!SectionPage(review, k, s, budget))
        /\ ~ Pages!IsError(Pages!SectionPage(review, k, s, budget))
    BY <2>1, <2>3, SectionPageHolds
  <2> QED
    BY <2>2, <2>4 DEF s
<1>6. DOMAIN pages = active
  OBVIOUS
<1> HIDE DEF active, pages, cursor
<1>7. Pages!RenderReviewPage(review, cursor)
        = [pages |-> pages, cursor |-> NextCursor(review, NextOffsets(offsets, pages))]
      /\ ~ Pages!IsError(Pages!RenderReviewPage(review, cursor))
  BY <1>4, <1>5, <1>6, AnswerIs
<1>8. AnswerHolds(review, offsets, active, Pages!RenderReviewPage(review, cursor))
  BY <1>5, <1>6, <1>7 DEF AnswerHolds
<1> QED
  BY <1>8 DEF active, cursor

(***************************************************************************)
(* What has been read of a section, and where.                             *)
(***************************************************************************)
Listed(pages) == \E n \in Nat : pages = [i \in 1 .. n |-> pages[i]]

LEMMA AppendIs ==
  ASSUME NEW pages, NEW n \in Nat, pages = [i \in 1 .. n |-> pages[i]], NEW e
  PROVE  /\ Append(pages, e) = [i \in 1 .. n + 1 |-> Append(pages, e)[i]]
         /\ \A i \in 1 .. n : Append(pages, e)[i] = pages[i]
         /\ Append(pages, e)[n + 1] = e
         /\ Len(pages) = n
<1> DEFINE S == {pages[i] : i \in 1 .. n} \union {e}
<1>1. pages \in [1 .. n -> S]
  OBVIOUS
<1>2. e \in S
  OBVIOUS
<1> HIDE DEF S
<1>3. pages \in Seq(S) /\ DOMAIN pages = 1 .. n
  BY <1>1, SeqDef
<1>4. Len(pages) \in Nat /\ 1 .. Len(pages) = 1 .. n
  BY <1>3, LenProperties
<1>5. Len(pages) = n
  BY <1>4
<1>6. /\ Append(pages, e) \in Seq(S) /\ Len(Append(pages, e)) = n + 1
      /\ \A i \in 1 .. n : Append(pages, e)[i] = pages[i]
      /\ Append(pages, e)[n + 1] = e
  BY <1>2, <1>3, <1>5, AppendProperties
<1>7. Append(pages, e) \in [1 .. n + 1 -> S]
  BY <1>6, LenProperties
<1>8. Append(pages, e) = [i \in 1 .. n + 1 |-> Append(pages, e)[i]]
  BY <1>7
<1> QED
  BY <1>5, <1>6, <1>8

BeginsAt(pages, k, i) == IF i = 1 THEN 0 ELSE pages[i - 1][k].end

(* The first m pages have the section up to the offset, and if there are   *)
(* more pages that is all of it.                                           *)
ReadBy(review, pages, k, offset, n, m) ==
  /\ m \in 1 .. n
  /\ \A i \in 1 .. n : k \in DOMAIN pages[i] <=> i <= m
  /\ \A i \in 1 .. m : ShownFrom(review, k, BeginsAt(pages, k, i), pages[i][k])
  /\ offset = pages[m][k].end
  /\ m = n \/ offset = Len(review.texts[k])
ReadUpTo(review, pages, k, offset, n) == \E m \in Nat : ReadBy(review, pages, k, offset, n, m)

Read(review, pages, offsets) ==
  \E n \in Nat : /\ pages = [i \in 1 .. n |-> pages[i]]
                 /\ \A k \in Pages!Ranks : ReadUpTo(review, pages, k, offsets[k], n)

LEMMA OffsetHolds ==
  ASSUME NEW review, NEW pages, NEW offsets, Read(review, pages, offsets), NEW k \in Pages!Ranks
  PROVE  offsets[k] \in 0 .. Len(review.texts[k])
         /\ Pages!Boundary(review.texts[k], offsets[k])
<1>1. PICK n \in Nat : ReadUpTo(review, pages, k, offsets[k], n)
  BY DEF Read
<1>2. PICK m \in Nat : ReadBy(review, pages, k, offsets[k], n, m)
  BY <1>1 DEF ReadUpTo
<1>3. ShownFrom(review, k, BeginsAt(pages, k, m), pages[m][k]) /\ offsets[k] = pages[m][k].end
  BY <1>2 DEF ReadBy
<1> QED
  BY <1>3 DEF ShownFrom

(* The first page.                                                         *)
LEMMA FirstIsRead ==
  ASSUME NEW review, NEW answer, AnswerHolds(review, AtStart, Pages!Ranks, answer)
  PROVE  Read(review, Append(<<>>, answer.pages), NextOffsets(AtStart, answer.pages))
<1> DEFINE none == <<>>
           pages == Append(none, answer.pages)
<1>0. none = [i \in 1 .. 0 |-> none[i]] /\ 0 \in Nat
  OBVIOUS
<1> HIDE DEF none
<1>1. pages = [i \in 1 .. 0 + 1 |-> pages[i]] /\ pages[0 + 1] = answer.pages
  BY <1>0, AppendIs
<1> HIDE DEF pages
<1>2. pages = [i \in 1 .. 1 |-> pages[i]] /\ pages[1] = answer.pages
  BY <1>1
<1>3. ASSUME NEW k \in Pages!Ranks
      PROVE  ReadUpTo(review, pages, k, NextOffsets(AtStart, answer.pages)[k], 1)
  <2>1. k \in DOMAIN pages[1] /\ ShownFrom(review, k, 0, pages[1][k])
    BY <1>2 DEF AnswerHolds, AtStart
  <2>2. NextOffsets(AtStart, answer.pages)[k] = pages[1][k].end
    BY <1>2, <2>1 DEF NextOffsets
  <2>3. BeginsAt(pages, k, 1) = 0
    BY DEF BeginsAt
  <2>4. \A i \in 1 .. 1 : i = 1 /\ i <= 1
    OBVIOUS
  <2>5. 1 \in 1 .. 1 /\ 1 \in Nat
    OBVIOUS
  <2>6. ReadBy(review, pages, k, NextOffsets(AtStart, answer.pages)[k], 1, 1)
    BY <2>1, <2>2, <2>3, <2>4, <2>5 DEF ReadBy
  <2> QED
    BY <2>5, <2>6 DEF ReadUpTo
<1> QED
  BY <1>2, <1>3 DEF Read, pages, none

(* A further page.                                                         *)
LEMMA FurtherIsRead ==
  ASSUME NEW review, NEW pages, NEW offsets, Read(review, pages, offsets),
         NEW answer, AnswerHolds(review, offsets, ActiveOf(review, offsets), answer)
  PROVE  Read(review, Append(pages, answer.pages), NextOffsets(offsets, answer.pages))
<1> DEFINE after == Append(pages, answer.pages)
           next == NextOffsets(offsets, answer.pages)
<1>1. PICK n \in Nat : /\ pages = [i \in 1 .. n |-> pages[i]]
                       /\ \A k \in Pages!Ranks : ReadUpTo(review, pages, k, offsets[k], n)
  BY DEF Read
<1>2. /\ after = [i \in 1 .. n + 1 |-> after[i]]
      /\ \A i \in 1 .. n : after[i] = pages[i]
      /\ after[n + 1] = answer.pages
  BY <1>1, AppendIs
<1>3. ASSUME NEW k \in Pages!Ranks PROVE ReadUpTo(review, after, k, next[k], n + 1)
  <2>1. PICK m \in Nat : ReadBy(review, pages, k, offsets[k], n, m)
    BY <1>1 DEF ReadUpTo
  <2>2. m \in 1 .. n /\ m \in Nat
    BY <2>1 DEF ReadBy
  <2>3. \A i \in 1 .. m : BeginsAt(after, k, i) = BeginsAt(pages, k, i)
    <3>1. ASSUME NEW i \in 1 .. m, i # 1 PROVE after[i - 1] = pages[i - 1]
      <4>1. i - 1 \in 1 .. n
        BY <2>2, <3>1
      <4> QED
        BY <1>2, <4>1
    <3> HIDE DEF after
    <3> QED
      BY <3>1 DEF BeginsAt
  <2>4. \A i \in 1 .. m : after[i] = pages[i]
    BY <1>2, <2>2
  <2> HIDE DEF after
  <2>5. /\ \A i \in 1 .. m : ShownFrom(review, k, BeginsAt(after, k, i), after[i][k])
        /\ offsets[k] = after[m][k].end
    <3>1. m \in 1 .. m
      BY <2>2
    <3>2. \A i \in 1 .. m : ShownFrom(review, k, BeginsAt(pages, k, i), pages[i][k])
      BY <2>1 DEF ReadBy
    <3>3. offsets[k] = pages[m][k].end
      BY <2>1 DEF ReadBy
    <3> QED
      BY <2>3, <2>4, <3>1, <3>2, <3>3
  <2>6. DOMAIN after[n + 1] = ActiveOf(review, offsets)
    BY <1>2 DEF AnswerHolds
  <2>7. \A i \in 1 .. n : k \in DOMAIN after[i] <=> i <= m
    BY <1>2, <2>1 DEF ReadBy
  <2>8. \A i \in 1 .. n + 1 : i \in 1 .. n \/ i = n + 1
    OBVIOUS
  <2>9. next[k] = IF k \in ActiveOf(review, offsets) THEN after[n + 1][k].end ELSE offsets[k]
    BY <1>2, <2>6 DEF NextOffsets
  <2> HIDE DEF next
  <2>10. CASE k \in ActiveOf(review, offsets)
    <3>1. offsets[k] < Len(review.texts[k])
      BY <2>10 DEF ActiveOf
    <3>2. offsets[k] \in 0 .. Len(review.texts[k])
      BY OffsetHolds
    <3>3. m = n
      <4>1. m = n \/ offsets[k] = Len(review.texts[k])
        BY <2>1 DEF ReadBy
      <4> QED
        BY <3>1, <3>2, <4>1
    <3>4. BeginsAt(after, k, n + 1) = offsets[k]
      <4>1. n + 1 # 1 /\ (n + 1) - 1 = m
        BY <2>2, <3>3
      <4> QED
        BY <2>5, <4>1 DEF BeginsAt
    <3>5. ShownFrom(review, k, offsets[k], after[n + 1][k])
      BY <1>2, <2>10 DEF AnswerHolds
    <3>6. \A i \in 1 .. n + 1 : ShownFrom(review, k, BeginsAt(after, k, i), after[i][k])
      BY <2>5, <2>8, <3>3, <3>4, <3>5
    <3>7. \A i \in 1 .. n + 1 : k \in DOMAIN after[i] <=> i <= n + 1
      BY <2>6, <2>7, <2>8, <2>10, <3>3
    <3>8. n + 1 \in 1 .. n + 1 /\ n + 1 \in Nat
      OBVIOUS
    <3>9. ReadBy(review, after, k, next[k], n + 1, n + 1)
      BY <2>9, <2>10, <3>6, <3>7, <3>8 DEF ReadBy
    <3> QED
      BY <3>8, <3>9 DEF ReadUpTo
  <2>11. CASE k \notin ActiveOf(review, offsets)
    <3>1. offsets[k] = Len(review.texts[k])
      <4>1. ~ (offsets[k] < Len(review.texts[k]))
        BY <2>11 DEF ActiveOf
      <4>2. offsets[k] \in 0 .. Len(review.texts[k])
        BY OffsetHolds
      <4> QED
        BY <4>1, <4>2
    <3>2. m \in 1 .. n + 1 /\ ~ (n + 1 <= m)
      BY <2>2
    <3>3. \A i \in 1 .. n + 1 : k \in DOMAIN after[i] <=> i <= m
      BY <2>6, <2>7, <2>8, <2>11, <3>2
    <3>4. ReadBy(review, after, k, next[k], n + 1, m)
      BY <2>5, <2>9, <2>11, <3>1, <3>2, <3>3 DEF ReadBy
    <3> QED
      BY <3>4 DEF ReadUpTo
  <2> QED
    BY <2>10, <2>11
<1>4. n + 1 \in Nat
  OBVIOUS
<1> HIDE DEF after, next
<1>5. Read(review, after, next)
  BY <1>2, <1>3, <1>4 DEF Read
<1> QED
  BY <1>5 DEF after, next

(***************************************************************************)
(* The pages of a section are the section.                                 *)
(***************************************************************************)
PagesWith(read, k, m) == [i \in 1 .. m |-> read.pages[i][k]]

ShownOnFirst(read, k, n, m) ==
  /\ m \in 1 .. n /\ DOMAIN read.pages = 1 .. n
  /\ \A i \in 1 .. n : k \in DOMAIN read.pages[i] <=> i <= m
FirstShow(read, k, m) ==
  Pages!PagesOf(read, k) = PagesWith(read, k, m) /\ Pages!Showing(read, k) = 1 .. m

LEMMA PagesOfAre ==
  ASSUME NEW read, NEW n \in Nat, NEW m, NEW k, ShownOnFirst(read, k, n, m)
  PROVE  FirstShow(read, k, m)
<1>0. /\ m \in 1 .. n /\ DOMAIN read.pages = 1 .. n
      /\ \A i \in 1 .. n : k \in DOMAIN read.pages[i] <=> i <= m
  BY DEF ShownOnFirst
<1> USE <1>0
<1>1. Pages!Showing(read, k) = {i \in 1 .. n : k \in DOMAIN read.pages[i]}
  BY Zenon DEF Pages!Showing
<1>2. Pages!Showing(read, k) = {i \in 1 .. n : i <= m}
  BY <1>1
<1>3. \A i \in 1 .. n : i <= m <=> i \in 1 .. m
  OBVIOUS
<1>4. \A i \in 1 .. m : i \in 1 .. n
  OBVIOUS
<1>5. Pages!Showing(read, k) = 1 .. m
  BY <1>2, <1>3, <1>4
<1>6. Pages!Cardinality(1 .. m) = m
  <2>1. 1 \in Int /\ m \in Int /\ m \in Nat /\ m >= 1
    OBVIOUS
  <2>2. Cardinality(1 .. m) = IF 1 > m THEN 0 ELSE m - 1 + 1
    BY <2>1, FS_Interval
  <2>3. Cardinality(1 .. m) = m
    BY <2>1, <2>2
  <2> QED
    BY <2>3, SameCardinality
<1>7. Pages!Cardinality(Pages!Showing(read, k)) = m
  BY <1>5, <1>6
<1>8. Pages!PagesOf(read, k) = PagesWith(read, k, m)
  BY <1>7 DEF Pages!PagesOf, PagesWith
<1> QED
  BY <1>5, <1>8 DEF FirstShow

(* The counts of a page, and of two that follow one another.               *)
LEMMA ShownCounts ==
  ASSUME NEW section, NEW text, NEW s, NEW e, NEW page,
         page = Pages!Shown(section, text, [start |-> s, end |-> e])
  PROVE  /\ DOMAIN page.counts = DOMAIN Pages!Counted(section, text)
         /\ \A i \in DOMAIN page.counts :
              page.counts[i]
                = Pages!Coverage(Pages!Counted(section, text)[i], [start |-> s, end |-> e])
         /\ page.text = SubSeq(text, s + 1, e)
<1> DEFINE t == SubSeq(text, s + 1, e)
           c == [i \in DOMAIN Pages!Counted(section, text) |->
                   Pages!Coverage(Pages!Counted(section, text)[i], [start |-> s, end |-> e])]
<1>1. [start |-> s, end |-> e].start = s /\ [start |-> s, end |-> e].end = e
  OBVIOUS
<1>2. page = [text |-> t, counts |-> c, end |-> e]
  BY <1>1, Zenon DEF Pages!Shown
<1>3. /\ DOMAIN c = DOMAIN Pages!Counted(section, text)
      /\ \A i \in DOMAIN c :
           c[i] = Pages!Coverage(Pages!Counted(section, text)[i], [start |-> s, end |-> e])
  OBVIOUS
<1> HIDE DEF c, t
<1>4. page.text = t /\ page.counts = c
  BY <1>2
<1> QED
  BY <1>3, <1>4 DEF t

LEMMA CountsFollow ==
  ASSUME NEW review, NEW width \in Nat, Good(review, width), NEW k \in Pages!Ranks,
         NEW s \in Nat, NEW before, NEW after,
         ShownFrom(review, k, s, before), ShownFrom(review, k, before.end, after)
  PROVE  Pages!CountsAgree(before, after)
<1> DEFINE text == review.texts[k]
           section == Pages!Sections[k]
           ranges(i) == Pages!Counted(section, text)[i]
<1>1. PICK n \in Nat : n = Len(text) /\ Pages!IsText(text, width)
  BY DEF Good, Pages!IsText
<1>2. PICK e \in Nat : e = before.end /\ s <= e
  BY DEF ShownFrom
<1>3. PICK f \in Nat : f = after.end /\ e <= f
  BY <1>2 DEF ShownFrom
<1>4. before = Pages!Shown(section, text, [start |-> s, end |-> e])
  BY <1>2 DEF ShownFrom
<1>5. after = Pages!Shown(section, text, [start |-> e, end |-> f])
  BY <1>2, <1>3 DEF ShownFrom
<1>6. \A i \in DOMAIN Pages!Counted(section, text) : Apart(Pages!Counted(section, text)[i], n)
  BY <1>1, CountedIsApart
<1> HIDE DEF text, section
<1>7. DOMAIN before.counts = DOMAIN Pages!Counted(section, text)
      /\ \A i \in DOMAIN before.counts :
           before.counts[i] = Pages!Coverage(ranges(i), [start |-> s, end |-> e])
  BY <1>4, ShownCounts
<1>8. DOMAIN after.counts = DOMAIN Pages!Counted(section, text)
      /\ \A i \in DOMAIN after.counts :
           after.counts[i] = Pages!Coverage(ranges(i), [start |-> e, end |-> f])
  BY <1>5, ShownCounts
<1>9. ASSUME NEW i \in DOMAIN before.counts
      PROVE  /\ Follows(before.counts[i], after.counts[i])
             /\ Sums(before.counts[i]) /\ Sums(after.counts[i])
  <2>1. Apart(ranges(i), n)
    BY <1>6, <1>7
  <2>2. before.counts[i] = Pages!Coverage(ranges(i), [start |-> s, end |-> e])
        /\ after.counts[i] = Pages!Coverage(ranges(i), [start |-> e, end |-> f])
    BY <1>7, <1>8
  <2> HIDE DEF ranges
  <2>3. Sums(before.counts[i]) /\ Sums(after.counts[i])
    BY <1>2, <1>3, <2>1, <2>2, PageSums
  <2>4. Follows(before.counts[i], after.counts[i])
    BY <1>2, <1>3, <2>1, <2>2, PagesFollow
  <2> QED
    BY <2>3, <2>4
<1>10. ASSUME NEW b, NEW a, Follows(b, a), Sums(b), Sums(a)
       PROVE  LET whole == b.total - b.remaining - a.prior
              IN  /\ a.partial = Pages!Open(a) /\ b.partial = Pages!Open(b)
                  /\ whole \in {0, 1} /\ whole <= a.partial
                  /\ b.remaining = a.emitted + a.partial - whole + a.remaining
  <2>1. a.partial = Pages!Open(a) /\ b.partial = Pages!Open(b)
    BY <1>10 DEF Sums, Pages!Open
  <2> QED
    BY <1>10, <2>1, Zenon DEF Follows
<1> QED
  BY <1>9, <1>10, Zenon DEF Pages!CountsAgree

(* No page of the graph has too many records.                              *)
LEMMA GraphIsLimited ==
  ASSUME NEW review, NEW width \in Nat, Good(review, width), NEW k \in Pages!Ranks,
         NEW s \in Nat, NEW page, ShownFrom(review, k, s, page), Pages!Sections[k] = "graph"
  PROVE  page.counts[1].emitted + page.counts[1].partial <= review.maxNodes
<1> DEFINE text == review.texts[k]
           lines == Pages!Lines(text)
<1>1. PICK e \in Nat : e = page.end /\ s <= e
  BY DEF ShownFrom
<1>2. page = Pages!Shown("graph", text, [start |-> s, end |-> e])
  BY <1>1 DEF ShownFrom
<1>3. Pages!IsText(text, width)
  BY DEF Good
<1>4. PICK n \in Nat : n = Len(text)
  BY <1>3 DEF Pages!IsText
<1>5. Pages!Cardinality(Touched(lines, s, e)) <= review.maxNodes
  BY <1>1 DEF ShownFrom
<1> HIDE DEF text
<1>6. Apart(lines, n)
  BY <1>3, <1>4, LinesAreApart
<1> DEFINE hunks == Pages!Marked(text, {"hunk"})
<1>7. 1 \in DOMAIN Pages!Counted("graph", text) /\ Pages!Counted("graph", text)[1] = lines
  <2>1. "graph" \notin {"files", "evidence"} /\ "graph" # "diff" /\ "graph" # "artifacts"
    OBVIOUS
  <2> HIDE DEF hunks, lines
  <2>2. Pages!Counted("graph", text) = <<lines, hunks>>
    BY <2>1 DEF Pages!Counted, lines, hunks
  <2>3. 1 \in DOMAIN <<lines, hunks>> /\ <<lines, hunks>>[1] = lines
    OBVIOUS
  <2> QED
    BY <2>2, <2>3
<1> DEFINE section == "graph"
<1>8. page.counts[1] = Pages!Coverage(lines, [start |-> s, end |-> e])
  <2>1. page = Pages!Shown(section, text, [start |-> s, end |-> e])
        /\ 1 \in DOMAIN Pages!Counted(section, text)
        /\ Pages!Counted(section, text)[1] = lines
    BY <1>2, <1>7
  <2> HIDE DEF section, lines
  <2>2. /\ DOMAIN page.counts = DOMAIN Pages!Counted(section, text)
        /\ \A i \in DOMAIN page.counts :
             page.counts[i]
               = Pages!Coverage(Pages!Counted(section, text)[i], [start |-> s, end |-> e])
    BY <2>1, ShownCounts
  <2> QED
    BY <2>1, <2>2
<1> HIDE DEF lines
<1>9. Pages!Cardinality(Touched(lines, s, e)) = page.counts[1].emitted + page.counts[1].partial
  BY <1>1, <1>6, <1>8, PageSums
<1> QED
  BY <1>5, <1>9

(* What PagesAreTheReview says of one section of one reading.              *)
SectionIsRead(read, review, k) ==
  LET pages == Pages!PagesOf(read, k)
      text == review.texts[k]
  IN  /\ Pages!Showing(read, k) = DOMAIN pages
      /\ IF read.state = "over" THEN Pages!Joined(pages) = text
         ELSE Pages!Joined(pages) = SubSeq(text, 1, Len(Pages!Joined(pages)))
      /\ \A i \in DOMAIN pages :
           /\ Pages!Sections[k] = "graph" =>
                pages[i].counts[1].emitted + pages[i].counts[1].partial <= review.maxNodes
           /\ i > 1 => Pages!CountsAgree(pages[i - 1], pages[i])

OverMeansAll(read, review, offsets, k) ==
  read.state = "over" => offsets[k] = Len(review.texts[k])

LEMMA SectionsAreRead ==
  ASSUME NEW review, NEW width \in Nat, Good(review, width), NEW k \in Pages!Ranks,
         NEW read, NEW offsets, Read(review, read.pages, offsets),
         OverMeansAll(read, review, offsets, k)
  PROVE  SectionIsRead(read, review, k)
<1> DEFINE text == review.texts[k]
<1>1. PICK n \in Nat : /\ read.pages = [i \in 1 .. n |-> read.pages[i]]
                       /\ ReadUpTo(review, read.pages, k, offsets[k], n)
  BY DEF Read
<1>2. PICK m \in Nat : ReadBy(review, read.pages, k, offsets[k], n, m)
  BY <1>1 DEF ReadUpTo
<1>3. PICK length \in Nat : length = Len(text)
  BY DEF Good, Pages!IsText
<1>4. text \in Seq(Pages!Bytes)
  BY DEF Good, Pages!IsText
<1>5. m \in 1 .. n /\ m > 0
  BY <1>2 DEF ReadBy
<1> DEFINE pages == PagesWith(read, k, m)
<1>6. Pages!PagesOf(read, k) = pages /\ Pages!Showing(read, k) = 1 .. m
  <2>1. DOMAIN read.pages = 1 .. n
    BY <1>1
  <2>2. \A i \in 1 .. n : k \in DOMAIN read.pages[i] <=> i <= m
    BY <1>2 DEF ReadBy
  <2>3. ShownOnFirst(read, k, n, m)
    BY <1>5, <2>1, <2>2 DEF ShownOnFirst
  <2>4. FirstShow(read, k, m)
    BY <2>3, PagesOfAre
  <2> QED
    BY <2>4, Zenon DEF FirstShow
<1>7. DOMAIN pages = 1 .. m
  BY DEF PagesWith
<1>8. \A i \in 1 .. m : pages[i] = read.pages[i][k]
  BY DEF PagesWith
<1> DEFINE at == [i \in 0 .. m |-> IF i = 0 THEN 0 ELSE pages[i].end]
<1>9. \A i \in 0 .. m : at[i] = IF i = 0 THEN 0 ELSE pages[i].end
  OBVIOUS
<1>10. DOMAIN at = 0 .. m /\ at = [i \in 0 .. m |-> at[i]]
  OBVIOUS
<1> HIDE DEF pages, at
<1>11. ASSUME NEW i \in 1 .. m
       PROVE  ShownFrom(review, k, at[i - 1], pages[i]) /\ at[i] = pages[i].end
  <2>1. ShownFrom(review, k, BeginsAt(read.pages, k, i), pages[i])
    BY <1>2, <1>8 DEF ReadBy
  <2>2. BeginsAt(read.pages, k, i) = at[i - 1]
    <3>1. CASE i = 1
      <4>1. i - 1 = 0 /\ 0 \in 0 .. m
        BY <3>1
      <4>2. at[i - 1] = 0
        BY <1>9, <4>1
      <4> QED
        BY <3>1, <4>2 DEF BeginsAt
    <3>2. CASE i # 1
      <4>1. i - 1 \in 1 .. m /\ i - 1 \in 0 .. m /\ i - 1 # 0
        BY <3>2
      <4>2. at[i - 1] = pages[i - 1].end
        BY <1>9, <4>1
      <4>3. pages[i - 1] = read.pages[i - 1][k]
        BY <1>8, <4>1
      <4> QED
        BY <3>2, <4>2, <4>3 DEF BeginsAt
    <3> QED
      BY <3>1, <3>2
  <2>3. i \in 0 .. m /\ i # 0
    OBVIOUS
  <2> QED
    BY <1>9, <2>1, <2>2, <2>3
<1>12. \A i \in 0 .. m : at[i] \in 0 .. length
  <2>1. ASSUME NEW i \in 0 .. m, i # 0 PROVE at[i] \in 0 .. length
    <3>1. i \in 1 .. m
      BY <2>1
    <3> QED
      BY <1>3, <1>11, <3>1 DEF ShownFrom
  <2>2. 0 \in 0 .. m /\ 0 \in 0 .. length
    OBVIOUS
  <2>3. at[0] \in 0 .. length
    BY <1>9, <2>2
  <2> QED
    BY <2>1, <2>3
<1>13. at \in [0 .. m -> 0 .. length]
  BY <1>10, <1>12
<1>14. at[0] = 0
  <2>1. 0 \in 0 .. m
    OBVIOUS
  <2> QED
    BY <1>9, <2>1
<1>15. ASSUME NEW i \in 1 .. m
       PROVE  at[i - 1] <= at[i] /\ pages[i].text = SubSeq(text, at[i - 1] + 1, at[i])
  <2>1. ShownFrom(review, k, at[i - 1], pages[i]) /\ at[i] = pages[i].end
    BY <1>11
  <2>2. pages[i] = Pages!Shown(Pages!Sections[k], text, [start |-> at[i - 1], end |-> at[i]])
    BY <2>1 DEF ShownFrom
  <2> DEFINE s == at[i - 1]
             e == at[i]
             page == pages[i]
             section == Pages!Sections[k]
  <2>3. page = Pages!Shown(section, text, [start |-> s, end |-> e])
    BY <2>2
  <2> HIDE DEF s, e, page, section, text
  <2>4. page.text = SubSeq(text, s + 1, e)
    BY <2>3, ShownCounts
  <2> QED
    BY <2>1, <2>4 DEF s, e, page, ShownFrom
<1> HIDE DEF text
<1>16. Pages!Joined(pages) = SubSeq(text, 1, at[m])
  <2>1. Joins(text, length, pages, at, m)
    BY <1>3, <1>4, <1>7, <1>13, <1>14, <1>15 DEF Joins
  <2>2. m \in Nat /\ m > 0 /\ length \in Nat
    BY <1>5
  <2>3. JoinsTo(pages, text, at[m])
    BY <2>1, <2>2, JoinedIs
  <2> QED
    BY <2>3 DEF JoinsTo
<1>17. at[m] = offsets[k] /\ at[m] \in 0 .. length
  <2>1. m \in 1 .. m /\ m \in 0 .. m
    BY <1>5
  <2>2. offsets[k] = read.pages[m][k].end
    BY <1>2 DEF ReadBy
  <2> QED
    BY <1>8, <1>11, <1>12, <2>1, <2>2
<1>18. ASSUME read.state = "over" PROVE Pages!Joined(pages) = text
  <2>1. at[m] = Len(text)
    BY <1>17, <1>18 DEF text, OverMeansAll
  <2>2. SubSeq(text, 1, Len(text)) = text
    BY <1>4, SubSeqFull
  <2> QED
    BY <1>16, <2>1, <2>2
<1>19. Len(Pages!Joined(pages)) = at[m]
  <2> DEFINE e == at[m]
  <2>1. e \in 0 .. length /\ 1 \in Int /\ e \in Int
    BY <1>17
  <2> HIDE DEF e
  <2>2. \A i \in 1 .. e : text[i] \in Pages!Bytes
    <3>1. \A i \in 1 .. length : text[i] \in Pages!Bytes
      BY <1>3, <1>4, ElementOfSeq
    <3> QED
      BY <2>1, <3>1
  <2>3. Len(SubSeq(text, 1, e)) = IF 1 <= e THEN e - 1 + 1 ELSE 0
    BY <2>1, <2>2, SubSeqProperties
  <2>4. Len(SubSeq(text, 1, e)) = e
    BY <2>1, <2>3
  <2> QED
    BY <1>16, <2>4 DEF e
<1>20. ASSUME NEW i \in 1 .. m
       PROVE  /\ Pages!Sections[k] = "graph" =>
                   pages[i].counts[1].emitted + pages[i].counts[1].partial <= review.maxNodes
              /\ i > 1 => Pages!CountsAgree(pages[i - 1], pages[i])
  <2>1. i - 1 \in 0 .. m
    OBVIOUS
  <2>2. PICK s \in Nat : s = at[i - 1]
    BY <1>12, <2>1
  <2>3. ShownFrom(review, k, s, pages[i])
    BY <1>11, <2>2
  <2> DEFINE page == pages[i]
  <2>4. ShownFrom(review, k, s, page)
    BY <2>3
  <2> HIDE DEF page
  <2>5. Pages!Sections[k] = "graph" =>
          page.counts[1].emitted + page.counts[1].partial <= review.maxNodes
    BY <2>4, GraphIsLimited
  <2>6. ASSUME i > 1 PROVE Pages!CountsAgree(pages[i - 1], page)
    <3>1. i - 1 \in 1 .. m /\ (i - 1) - 1 \in 0 .. m
      BY <2>6
    <3>2. PICK r \in Nat : r = at[(i - 1) - 1]
      BY <1>12, <3>1
    <3>3. ShownFrom(review, k, r, pages[i - 1]) /\ s = pages[i - 1].end
      BY <1>11, <2>2, <3>1, <3>2
    <3> DEFINE before == pages[i - 1]
    <3>4. ShownFrom(review, k, r, before) /\ ShownFrom(review, k, before.end, page)
      BY <2>4, <3>3
    <3> HIDE DEF before
    <3>5. Pages!CountsAgree(before, page)
      BY <3>4, CountsFollow
    <3> QED
      BY <3>5 DEF before
  <2> QED
    BY <2>5, <2>6 DEF page
<1>21. IF read.state = "over" THEN Pages!Joined(pages) = text
       ELSE Pages!Joined(pages) = SubSeq(text, 1, Len(Pages!Joined(pages)))
  BY <1>16, <1>18, <1>19
<1> DEFINE all == Pages!PagesOf(read, k)
<1>22. all = pages /\ DOMAIN all = 1 .. m
  BY <1>6, <1>7
<1> HIDE DEF all
<1>23. /\ Pages!Showing(read, k) = DOMAIN all
       /\ IF read.state = "over" THEN Pages!Joined(all) = text
          ELSE Pages!Joined(all) = SubSeq(text, 1, Len(Pages!Joined(all)))
       /\ \A i \in DOMAIN all :
            /\ Pages!Sections[k] = "graph" =>
                 all[i].counts[1].emitted + all[i].counts[1].partial <= review.maxNodes
            /\ i > 1 => Pages!CountsAgree(all[i - 1], all[i])
  BY <1>6, <1>20, <1>21, <1>22
<1> QED
  BY <1>23, Zenon DEF SectionIsRead, all, text

(***************************************************************************)
(* The inductive invariant: where a reading is, and what is being asked    *)
(* and rendered for it.                                                    *)
(***************************************************************************)
Ended(review) == [k \in Pages!Ranks |-> Len(review.texts[k])]

OpenHolds(review, read) ==
  /\ ~ review.unchanged
  /\ read.cursor = [offsets |-> read.cursor.offsets, review |-> review]
  /\ read.cursor # Nothing
  /\ Pages!Remains(review, read.cursor.offsets)
  /\ Read(review, read.pages, read.cursor.offsets)

IsReading(read) ==
  read = [key |-> read.key, pages |-> read.pages, cursor |-> read.cursor, state |-> read.state]

ReadingHolds(reviews, read) ==
  /\ IsReading(read)
  /\ read.state \in {"none", "open", "over", "cursor mismatch", "invalid cursor"}
  /\ read.state = "none" => read.pages = <<>>
  /\ read.state \in {"open", "over"} => read.key \in DOMAIN reviews
  /\ read.state = "open" => OpenHolds(reviews[read.key], read)
  /\ read.state = "over" =>
       \/ reviews[read.key].unchanged
       \/ Read(reviews[read.key], read.pages, Ended(reviews[read.key]))
  /\ read.state \in {"cursor mismatch", "invalid cursor"} =>
       read.cursor.review # reviews[read.key]

(* A cursor that is used is none, or that of the reading.                  *)
CursorIs(read, cursor) ==
  \/ cursor = Nothing /\ read.state = "none"
  \/ cursor = read.cursor /\ read.state = "open"

CallHolds(reviews, read, call) ==
  \/ call = Pages!Idle
  \/ /\ call.key \in DOMAIN reviews /\ ~ reviews[call.key].unchanged
     /\ CursorIs(read, call.cursor)

PagesInv ==
  /\ situation \in PageSituations
  /\ DOMAIN rendered \subseteq DOMAIN situation.reviews
  /\ \A key \in DOMAIN rendered : rendered[key] = situation.reviews[key]
  /\ DOMAIN readings = PageReaders /\ DOMAIN calls = PageReaders
  /\ readings = [r \in PageReaders |-> readings[r]] /\ calls = [r \in PageReaders |-> calls[r]]
  /\ \A r \in PageReaders : /\ ReadingHolds(situation.reviews, readings[r])
                            /\ CallHolds(situation.reviews, readings[r], calls[r])

AnswersInv == part = "pages" => PagesInv

(***************************************************************************)
(* What the reader makes of an answer.                                     *)
(***************************************************************************)
Received(read, key, answer) ==
  IF Pages!IsError(answer) THEN [read EXCEPT !.key = key, !.state = answer.error]
  ELSE [key |-> key, pages |-> Append(read.pages, answer.pages), cursor |-> answer.cursor,
        state |-> IF answer.cursor = Nothing THEN "over" ELSE "open"]

GoodReviews(reviews, width) ==
  \A key \in DOMAIN reviews :
    /\ Good(reviews[key], width) /\ reviews[key].key = key
    /\ Nothing \notin [offsets : [Pages!Ranks -> Nat], review : {reviews[key]}]

LEMMA ReceivedIs ==
  ASSUME NEW read, NEW key, NEW answer, ~ Pages!IsError(answer), NEW got,
         got = Received(read, key, answer)
  PROVE  /\ got.key = key /\ got.pages = Append(read.pages, answer.pages)
         /\ got.cursor = answer.cursor
         /\ got.state = IF answer.cursor = Nothing THEN "over" ELSE "open"
         /\ IsReading(got)
<1> DEFINE p == Append(read.pages, answer.pages)
           s == IF answer.cursor = Nothing THEN "over" ELSE "open"
           c == answer.cursor
<1>1. got = [key |-> key, pages |-> p, cursor |-> c, state |-> s]
  BY Zenon DEF Received
<1> HIDE DEF p, s, c
<1>2. got.key = key /\ got.pages = p /\ got.cursor = c /\ got.state = s
  BY <1>1
<1> QED
  BY <1>1, <1>2 DEF p, s, c, IsReading

LEMMA ErrorIs ==
  ASSUME NEW read, NEW key,
         IsReading(read), NEW answer, Pages!IsError(answer),
         NEW got, got = Received(read, key, answer)
  PROVE  /\ got.cursor = read.cursor /\ got.key = key /\ got.state = answer.error
         /\ IsReading(got)
<1>0. read = [key |-> read.key, pages |-> read.pages, cursor |-> read.cursor,
              state |-> read.state]
  BY DEF IsReading
<1> DEFINE error == answer.error
<1>2. got = [read EXCEPT !.key = key, !.state = error]
  BY DEF Received
<1> DEFINE p == read.pages
           c == read.cursor
<1>3. got = [key |-> key, pages |-> p, cursor |-> c, state |-> error]
  BY <1>0, <1>2
<1> HIDE DEF p, c, error
<1>4. got.key = key /\ got.pages = p /\ got.cursor = c /\ got.state = error
  BY <1>3
<1> QED
  BY <1>3, <1>4 DEF p, c, error, IsReading

(* After an answer the reading is open where something remains, and over   *)
(* where nothing does.                                                     *)
LEMMA AnsweredHolds ==
  ASSUME NEW reviews, NEW width \in Nat, GoodReviews(reviews, width),
         NEW key \in DOMAIN reviews, ~ reviews[key].unchanged,
         NEW read, NEW answer, ~ Pages!IsError(answer), NEW next,
         next \in [Pages!Ranks -> Nat],
         Read(reviews[key], Append(read.pages, answer.pages), next),
         answer.cursor = NextCursor(reviews[key], next)
  PROVE  ReadingHolds(reviews, Received(read, key, answer))
<1> DEFINE got == Received(read, key, answer)
           review == reviews[key]
           cursor == [offsets |-> next, review |-> review]
<1>1. /\ got.key = key /\ got.pages = Append(read.pages, answer.pages)
      /\ got.cursor = answer.cursor
      /\ got.state = IF answer.cursor = Nothing THEN "over" ELSE "open"
      /\ IsReading(got)
  BY ReceivedIs
<1>2. cursor # Nothing
  <2>1. cursor \in [offsets : [Pages!Ranks -> Nat], review : {reviews[key]}]
    OBVIOUS
  <2> QED
    BY <2>1 DEF GoodReviews
<1>3. Read(review, got.pages, next)
  BY <1>1
<1> HIDE DEF got
<1>4. CASE Pages!Remains(review, next)
  <2>1. got.cursor = cursor /\ got.state = "open"
    BY <1>1, <1>2, <1>4 DEF NextCursor
  <2>2. got.cursor.offsets = next
    BY <2>1
  <2> HIDE DEF cursor
  <2>3. got.cursor = [offsets |-> got.cursor.offsets, review |-> review]
    BY <2>1, <2>2 DEF cursor
  <2>4. OpenHolds(review, got)
    BY <1>2, <1>3, <1>4, <2>1, <2>2, <2>3 DEF OpenHolds
  <2> QED
    BY <1>1, <2>1, <2>4 DEF ReadingHolds, got
<1>5. CASE ~ Pages!Remains(review, next)
  <2>1. got.state = "over"
    BY <1>1, <1>5 DEF NextCursor
  <2>2. ASSUME NEW k \in Pages!Ranks PROVE next[k] = Ended(review)[k]
    <3>1. next[k] \in 0 .. Len(review.texts[k])
      BY <1>3, OffsetHolds
    <3>2. ~ (next[k] < Len(review.texts[k]))
      BY <1>5 DEF Pages!Remains
    <3>3. next[k] \in Nat /\ Len(review.texts[k]) \in Nat
      BY DEF GoodReviews, Good, Pages!IsText
    <3> QED
      BY <3>1, <3>2, <3>3 DEF Ended
  <2>3. Read(review, got.pages, Ended(review))
    BY <1>3, <2>2 DEF Read
  <2> QED
    BY <1>1, <2>1, <2>3 DEF ReadingHolds, got
<1> QED
  BY <1>4, <1>5

LEMMA NextIsOffsets ==
  ASSUME NEW review, NEW pages, NEW offsets, NEW after,
         Read(review, pages, NextOffsets(offsets, after))
  PROVE  NextOffsets(offsets, after) \in [Pages!Ranks -> Nat]
<1> DEFINE next == NextOffsets(offsets, after)
<1>1. next = [k \in Pages!Ranks |-> next[k]]
  BY DEF NextOffsets
<1> HIDE DEF next
<1>2. ASSUME NEW k \in Pages!Ranks PROVE next[k] \in Nat
  <2>1. next[k] \in 0 .. Len(review.texts[k])
    BY OffsetHolds DEF next
  <2> QED
    BY <2>1
<1>3. next \in [Pages!Ranks -> Nat]
  BY <1>1, <1>2
<1> QED
  BY <1>3 DEF next

RoomHolds(width) ==
  /\ PageHeader \in Nat /\ NextPage \in Nat /\ FirstPage \in [Pages!Ranks -> Nat]
  /\ \A k \in Pages!Ranks : FirstPage[k] >= PageHeader + width
  /\ NextPage >= 5 * (PageHeader + width)

(* A review is served.                                                     *)
LEMMA ServedHolds ==
  ASSUME NEW reviews, NEW width \in Nat, GoodReviews(reviews, width), RoomHolds(width),
         NEW key \in DOMAIN reviews, ~ reviews[key].unchanged,
         NEW read, ReadingHolds(reviews, read), NEW cursor, CursorIs(read, cursor)
  PROVE  ReadingHolds(reviews, Received(read, key, Pages!Serve(key, cursor, reviews[key])))
<1> DEFINE review == reviews[key]
<1>1. Good(review, width) /\ review.key = key
  BY DEF GoodReviews
<1>2. CASE cursor = Nothing /\ read.state = "none"
  <2> DEFINE answer == Pages!ReviewContext(review)
             next == NextOffsets(AtStart, answer.pages)
  <2>1. AnswerHolds(review, AtStart, Pages!Ranks, answer)
    <3>1. /\ PageHeader \in Nat /\ FirstPage \in [Pages!Ranks -> Nat]
          /\ \A k \in Pages!Ranks : FirstPage[k] >= PageHeader + width
      BY DEF RoomHolds
    <3> QED
      BY <1>1, <3>1, FirstAnswerHolds
  <2>2. Pages!Serve(key, cursor, reviews[key]) = answer
    BY <1>2 DEF Pages!Serve
  <2> HIDE DEF answer, review
  <2>3. Read(review, Append(<<>>, answer.pages), next)
    BY <2>1, FirstIsRead
  <2>4. next \in [Pages!Ranks -> Nat]
    BY <2>3, NextIsOffsets
  <2>5. read.pages = <<>>
    BY <1>2 DEF ReadingHolds
  <2>6. ~ Pages!IsError(answer) /\ answer.cursor = NextCursor(review, next)
    BY <2>1 DEF AnswerHolds
  <2> HIDE DEF next
  <2>7. ReadingHolds(reviews, Received(read, key, answer))
    <3>1. Read(reviews[key], Append(read.pages, answer.pages), next)
          /\ answer.cursor = NextCursor(reviews[key], next)
      BY <2>3, <2>5, <2>6 DEF review
    <3> QED
      BY <2>4, <2>6, <3>1, AnsweredHolds
  <2> QED
    BY <2>2, <2>7
<1>3. CASE cursor = read.cursor /\ read.state = "open"
  <2>1. read.key \in DOMAIN reviews /\ OpenHolds(reviews[read.key], read)
    BY <1>3 DEF ReadingHolds
  <2> DEFINE from == reviews[read.key]
             offsets == cursor.offsets
  <2>2. /\ cursor = [offsets |-> offsets, review |-> from] /\ cursor # Nothing
        /\ Pages!Remains(from, offsets) /\ Read(from, read.pages, offsets)
    BY <1>3, <2>1 DEF OpenHolds
  <2>3. cursor.review = from
    <3> HIDE DEF offsets, from
    <3> QED
      BY <2>2
  <2>4. from.key = read.key
    BY <2>1 DEF GoodReviews
  <2>5. CASE read.key # key
    <3>1. cursor.review.key # key
      BY <2>3, <2>4, <2>5
    <3>2. Pages!Serve(key, cursor, reviews[key]) = [error |-> "cursor mismatch"]
      BY <2>2, <3>1 DEF Pages!Serve, Pages!Mismatch
    <3> DEFINE answer == [error |-> "cursor mismatch"]
               got == Received(read, key, answer)
    <3>3. IsReading(read)
      BY DEF ReadingHolds
    <3>7. got = Received(read, key, answer) /\ Pages!IsError(answer)
      BY DEF Pages!IsError
    <3>9. answer.error = "cursor mismatch"
      OBVIOUS
    <3> HIDE DEF got, answer
    <3>4. /\ got.cursor = read.cursor /\ got.key = key /\ got.state = answer.error
          /\ IsReading(got)
      BY <3>3, <3>7, ErrorIs
    <3>5. got.cursor.review # reviews[got.key]
      BY <1>1, <1>3, <2>3, <2>4, <2>5, <3>4
    <3>6. ReadingHolds(reviews, got)
      BY <3>4, <3>5, <3>9 DEF ReadingHolds
    <3>8. got = Received(read, key, Pages!Serve(key, cursor, reviews[key]))
      BY <3>2, Zenon DEF got, answer
    <3> QED
      BY <3>6, <3>8
  <2>6. CASE read.key = key
    <3> DEFINE answer == Pages!RenderReviewPage(review, [offsets |-> offsets, review |-> review])
               next == NextOffsets(offsets, answer.pages)
    <3>1. from = review /\ cursor = [offsets |-> offsets, review |-> review]
      BY <2>2, <2>6
    <3>2. Pages!Serve(key, cursor, reviews[key]) = answer
      <4>1. ~ (cursor = Nothing) /\ ~ (cursor.review.key # key)
        BY <2>2, <2>3, <2>4, <2>6
      <4>2. Pages!Serve(key, cursor, reviews[key]) = Pages!RenderReviewPage(review, cursor)
        BY <4>1 DEF Pages!Serve
      <4> QED
        BY <3>1, <4>2
    <3>3. Pages!Remains(review, offsets) /\ Read(review, read.pages, offsets)
      BY <2>2, <3>1
    <3> HIDE DEF answer, review, offsets
    <3>4. \A k \in Pages!Ranks : offsets[k] \in Nat /\ Pages!Boundary(review.texts[k], offsets[k])
      <4>1. ASSUME NEW k \in Pages!Ranks
            PROVE  offsets[k] \in 0 .. Len(review.texts[k])
                   /\ Pages!Boundary(review.texts[k], offsets[k])
        BY <3>3, OffsetHolds
      <4>2. ASSUME NEW k \in Pages!Ranks PROVE offsets[k] \in Nat
        BY <4>1
      <4> QED
        BY <4>1, <4>2
    <3>5. AnswerHolds(review, offsets, ActiveOf(review, offsets), answer)
      <4>1. PageHeader \in Nat /\ NextPage \in Nat /\ NextPage >= 5 * (PageHeader + width)
        BY DEF RoomHolds
      <4>2. AnswerHolds(review, offsets, ActiveOf(review, offsets),
              Pages!RenderReviewPage(review, [offsets |-> offsets, review |-> review]))
        BY <1>1, <3>3, <3>4, <4>1, FurtherAnswerHolds
      <4> QED
        BY <4>2 DEF answer
    <3>6. Read(review, Append(read.pages, answer.pages), next)
      BY <3>3, <3>5, FurtherIsRead
    <3>7. next \in [Pages!Ranks -> Nat]
      BY <3>6, NextIsOffsets
    <3>8. ~ Pages!IsError(answer) /\ answer.cursor = NextCursor(review, next)
      BY <3>5 DEF AnswerHolds
    <3> HIDE DEF next
    <3>9. ReadingHolds(reviews, Received(read, key, answer))
      <4>1. Read(reviews[key], Append(read.pages, answer.pages), next)
            /\ answer.cursor = NextCursor(reviews[key], next)
        BY <3>6, <3>8 DEF review
      <4> QED
        BY <3>7, <3>8, <4>1, AnsweredHolds
    <3> QED
      BY <3>2, <3>9
  <2> QED
    BY <2>5, <2>6
<1> QED
  BY <1>2, <1>3 DEF CursorIs

(* A snapshot without changes has no review.                               *)
LEMMA UnchangedHolds ==
  ASSUME NEW reviews, NEW width \in Nat, GoodReviews(reviews, width),
         NEW key \in DOMAIN reviews, reviews[key].unchanged,
         NEW read, ReadingHolds(reviews, read), NEW cursor, CursorIs(read, cursor)
  PROVE  ReadingHolds(reviews, Received(read, key, Pages!Unchanged(cursor)))
<1>1. CASE cursor = Nothing /\ read.state = "none"
  <2> DEFINE none == <<>>
             answer == [pages |-> none, cursor |-> Nothing]
             got == Received(read, key, answer)
  <2>1. Pages!Unchanged(cursor) = answer
    BY <1>1 DEF Pages!Unchanged
  <2> HIDE DEF none
  <2>2. ~ Pages!IsError(answer) /\ answer.cursor = Nothing
    BY DEF Pages!IsError
  <2> HIDE DEF answer
  <2>3. /\ got.key = key /\ got.state = "over"
        /\ IsReading(got)
    BY <2>2, ReceivedIs
  <2> HIDE DEF got
  <2>4. ReadingHolds(reviews, got)
    BY <2>3 DEF ReadingHolds
  <2> QED
    BY <2>1, <2>4 DEF got
<1>2. CASE cursor = read.cursor /\ read.state = "open"
  <2>1. read.key \in DOMAIN reviews /\ OpenHolds(reviews[read.key], read)
    BY <1>2 DEF ReadingHolds
  <2>2. /\ read.cursor = [offsets |-> read.cursor.offsets, review |-> reviews[read.key]]
        /\ read.cursor # Nothing /\ ~ reviews[read.key].unchanged
    BY <2>1 DEF OpenHolds
  <2>3. read.cursor.review = reviews[read.key]
    BY <2>2
  <2>4. read.key # key /\ reviews[read.key].key = read.key /\ reviews[key].key = key
    BY <2>1, <2>2 DEF GoodReviews
  <2> DEFINE answer == [error |-> "invalid cursor"]
             got == Received(read, key, answer)
  <2>5. Pages!Unchanged(cursor) = [error |-> "invalid cursor"]
    BY <1>2, <2>2 DEF Pages!Unchanged, Pages!Invalid
  <2>6. IsReading(read)
    BY DEF ReadingHolds
  <2>10. got = Received(read, key, answer) /\ Pages!IsError(answer)
    BY DEF Pages!IsError
  <2>12. answer.error = "invalid cursor"
    OBVIOUS
  <2> HIDE DEF got, answer
  <2>7. /\ got.cursor = read.cursor /\ got.key = key /\ got.state = answer.error
        /\ IsReading(got)
    BY <2>6, <2>10, ErrorIs
  <2>8. got.cursor.review # reviews[got.key]
    BY <2>3, <2>4, <2>7
  <2>9. ReadingHolds(reviews, got)
    BY <2>7, <2>8, <2>12 DEF ReadingHolds
  <2>11. got = Received(read, key, Pages!Unchanged(cursor))
    BY <2>5, Zenon DEF got, answer
  <2> QED
    BY <2>9, <2>11
<1> QED
  BY <1>1, <1>2 DEF CursorIs

(***************************************************************************)
(* Every step keeps the invariant.                                         *)
(***************************************************************************)
LEMMA Assumed ==
  \E width \in Nat :
    RoomHolds(width) /\ \A s \in PageSituations : GoodReviews(s.reviews, width)
<1>1. PICK width \in 1 .. NextPage :
        /\ \A k \in Pages!Ranks : FirstPage[k] >= PageHeader + width
        /\ NextPage >= 5 * (PageHeader + width)
        /\ \A s \in PageSituations : \A key \in DOMAIN s.reviews : \A k \in Pages!Ranks :
             Pages!IsText(s.reviews[key].texts[k], width)
  BY ReviewAnswersAssumption, Zenon DEF ReviewAnswersAssumption
<1>2. PageHeader \in Nat /\ NextPage \in Nat /\ FirstPage \in [Pages!Ranks -> Nat]
  BY ReviewAnswersAssumption, Zenon DEF ReviewAnswersAssumption
<1>3. width \in Nat
  BY <1>2
<1>4. RoomHolds(width)
  BY <1>1, <1>2 DEF RoomHolds
<1>5. ASSUME NEW s \in PageSituations, NEW key \in DOMAIN s.reviews
      PROVE  /\ Good(s.reviews[key], width) /\ s.reviews[key].key = key
             /\ Nothing \notin [offsets : [Pages!Ranks -> Nat], review : {s.reviews[key]}]
  <2>1. /\ s.reviews[key].key = key /\ s.reviews[key].maxNodes \in Nat \ {0}
        /\ Nothing \notin [offsets : [Pages!Ranks -> Nat], review : {s.reviews[key]}]
    BY ReviewAnswersAssumption, Zenon DEF ReviewAnswersAssumption
  <2>2. Good(s.reviews[key], width)
    BY <1>1, <2>1, Zenon DEF Good
  <2> QED
    BY <2>1, <2>2
<1>6. \A s \in PageSituations : GoodReviews(s.reviews, width)
  BY <1>5, Zenon DEF GoodReviews
<1> QED
  BY <1>3, <1>4, <1>6

RenderedHolds(reviews, map) ==
  DOMAIN map \subseteq DOMAIN reviews /\ \A key \in DOMAIN map : map[key] = reviews[key]

(* A step of one reader, who has then `read` and waits for `call`.         *)
LEMMA StepHolds ==
  ASSUME PagesInv, NEW r \in PageReaders, situation' = situation,
         NEW reviews, reviews = situation.reviews, RenderedHolds(reviews, rendered'),
         NEW read, readings' = [readings EXCEPT ![r] = read], ReadingHolds(reviews, read),
         NEW call, calls' = [calls EXCEPT ![r] = call], CallHolds(reviews, read, call)
  PROVE  PagesInv'
<1>1. readings' = [q \in PageReaders |-> IF q = r THEN read ELSE readings[q]]
      /\ calls' = [q \in PageReaders |-> IF q = r THEN call ELSE calls[q]]
  BY DEF PagesInv
<1>2. DOMAIN readings' = PageReaders /\ DOMAIN calls' = PageReaders
      /\ readings' = [q \in PageReaders |-> readings'[q]]
      /\ calls' = [q \in PageReaders |-> calls'[q]]
  BY <1>1
<1>3. situation' \in PageSituations /\ situation'.reviews = reviews
  BY DEF PagesInv
<1>4. ASSUME NEW q \in PageReaders
      PROVE  ReadingHolds(reviews, readings'[q]) /\ CallHolds(reviews, readings'[q], calls'[q])
  <2>1. CASE q = r
    <3>1. readings'[q] = read /\ calls'[q] = call
      BY <1>1, <2>1
    <3> QED
      BY <3>1
  <2>2. CASE q # r
    <3>1. readings'[q] = readings[q] /\ calls'[q] = calls[q]
      BY <1>1, <2>2
    <3>2. ReadingHolds(reviews, readings[q]) /\ CallHolds(reviews, readings[q], calls[q])
      BY DEF PagesInv
    <3> QED
      BY <3>1, <3>2
  <2> QED
    BY <2>1, <2>2
<1>5. /\ DOMAIN rendered' \subseteq DOMAIN situation'.reviews
      /\ \A key \in DOMAIN rendered' : rendered'[key] = situation'.reviews[key]
  BY <1>3 DEF RenderedHolds
<1>6. \A q \in PageReaders : /\ ReadingHolds(situation'.reviews, readings'[q])
                             /\ CallHolds(situation'.reviews, readings'[q], calls'[q])
  BY <1>3, <1>4
<1> QED
  BY <1>2, <1>3, <1>5, <1>6, Zenon DEF PagesInv

LEMMA ReceiveIs ==
  ASSUME NEW r, NEW key, NEW answer, Pages!Receive(r, key, answer)
  PROVE  readings' = [readings EXCEPT ![r] = Received(readings[r], key, answer)]
BY Zenon DEF Pages!Receive, Received

LEMMA CallKeeps ==
  ASSUME PagesInv, NEW r \in PageReaders, NEW key \in DOMAIN situation.reviews,
         NEW cursor, CursorIs(readings[r], cursor), Pages!Call(r, key, cursor)
  PROVE  PagesInv'
<1>1. PICK width \in Nat :
        RoomHolds(width) /\ \A s \in PageSituations : GoodReviews(s.reviews, width)
  BY Assumed
<1>2. PICK reviews : reviews = situation.reviews
  OBVIOUS
<1>3. PICK read : read = readings[r]
  OBVIOUS
<1>4. /\ GoodReviews(reviews, width) /\ ReadingHolds(reviews, read) /\ key \in DOMAIN reviews
      /\ CursorIs(read, cursor)
  BY <1>1, <1>2, <1>3 DEF PagesInv
<1>5. calls[r] = Pages!Idle /\ situation' = situation /\ rendered' = rendered
  BY DEF Pages!Call
<1>6. RenderedHolds(reviews, rendered) /\ RenderedHolds(reviews, rendered')
  BY <1>2, <1>5 DEF PagesInv, RenderedHolds
<1>7. CallHolds(reviews, Received(read, key, Pages!Unchanged(cursor)), Pages!Idle)
      /\ CallHolds(reviews, Received(read, key, Pages!Serve(key, cursor, reviews[key])), Pages!Idle)
  BY DEF CallHolds
<1>8. calls = [calls EXCEPT ![r] = calls[r]] /\ readings = [readings EXCEPT ![r] = readings[r]]
  BY DEF PagesInv
<1>9. CASE Pages!Review(key).unchanged /\ Pages!Receive(r, key, Pages!Unchanged(cursor))
           /\ calls' = calls
  <2>1. PICK answer : answer = Pages!Unchanged(cursor)
    OBVIOUS
  <2>2. Pages!Receive(r, key, answer)
    BY <1>9, <2>1
  <2>3. readings' = [readings EXCEPT ![r] = Received(read, key, answer)]
    BY <1>3, <2>2, ReceiveIs
  <2>4. reviews[key].unchanged
    BY <1>2, <1>9 DEF Pages!Review
  <2>5. ReadingHolds(reviews, Received(read, key, answer))
    BY <1>4, <2>1, <2>4, UnchangedHolds
  <2>6. calls' = [calls EXCEPT ![r] = Pages!Idle]
    BY <1>5, <1>8, <1>9
  <2>7. CallHolds(reviews, Received(read, key, answer), Pages!Idle)
    BY DEF CallHolds
  <2> QED
    BY <1>2, <1>5, <1>6, <2>3, <2>5, <2>6, <2>7, StepHolds
<1>10. CASE /\ ~ Pages!Review(key).unchanged /\ key \in DOMAIN rendered
            /\ Pages!Receive(r, key, Pages!Serve(key, cursor, rendered[key]))
            /\ calls' = calls
  <2>1. PICK answer : answer = Pages!Serve(key, cursor, reviews[key])
    OBVIOUS
  <2>2. Pages!Receive(r, key, answer)
    <3>1. rendered[key] = reviews[key]
      BY <1>6, <1>10 DEF RenderedHolds
    <3> QED
      BY <1>10, <2>1, <3>1
  <2>3. readings' = [readings EXCEPT ![r] = Received(read, key, answer)]
    BY <1>3, <2>2, ReceiveIs
  <2>4. ~ reviews[key].unchanged
    BY <1>2, <1>10 DEF Pages!Review
  <2>5. ReadingHolds(reviews, Received(read, key, answer))
    BY <1>1, <1>4, <2>1, <2>4, ServedHolds
  <2>6. calls' = [calls EXCEPT ![r] = Pages!Idle]
    BY <1>5, <1>8, <1>10
  <2>7. CallHolds(reviews, Received(read, key, answer), Pages!Idle)
    BY DEF CallHolds
  <2> QED
    BY <1>2, <1>5, <1>6, <2>3, <2>5, <2>6, <2>7, StepHolds
<1>11. CASE /\ ~ Pages!Review(key).unchanged /\ key \notin DOMAIN rendered
            /\ calls' = [calls EXCEPT ![r] = [key |-> key, cursor |-> cursor]]
            /\ readings' = readings
  <2> DEFINE call == [key |-> key, cursor |-> cursor]
  <2>1. call.key = key /\ call.cursor = cursor
    OBVIOUS
  <2>2. calls' = [calls EXCEPT ![r] = call]
    BY <1>11
  <2> HIDE DEF call
  <2>3. ~ reviews[key].unchanged
    BY <1>2, <1>11 DEF Pages!Review
  <2>4. CallHolds(reviews, read, call)
    BY <1>4, <2>1, <2>3 DEF CallHolds
  <2>5. readings' = [readings EXCEPT ![r] = read]
    BY <1>3, <1>8, <1>11
  <2> QED
    BY <1>2, <1>4, <1>5, <1>6, <2>2, <2>4, <2>5, StepHolds
<1> QED
  BY <1>9, <1>10, <1>11, Zenon DEF Pages!Call

Kept(map, key, fresh) ==
  [k \in DOMAIN map \union {key} |-> IF k \in DOMAIN map THEN map[k] ELSE fresh]
Without(map, gone) == [k \in DOMAIN map \ {gone} |-> map[k]]

LEMMA KeptHolds ==
  ASSUME NEW reviews, NEW map, RenderedHolds(reviews, map), NEW key \in DOMAIN reviews
  PROVE  /\ RenderedHolds(reviews, Kept(map, key, reviews[key]))
         /\ Kept(map, key, reviews[key])[key] = reviews[key]
         /\ \A gone : RenderedHolds(reviews, Without(map, gone))
BY DEF RenderedHolds, Kept, Without

LEMMA RenderKeeps ==
  ASSUME PagesInv, NEW r \in PageReaders, Pages!Render(r)
  PROVE  PagesInv'
<1>1. PICK width \in Nat :
        RoomHolds(width) /\ \A s \in PageSituations : GoodReviews(s.reviews, width)
  BY Assumed
<1>2. PICK reviews : reviews = situation.reviews
  OBVIOUS
<1>3. PICK read : read = readings[r]
  OBVIOUS
<1>4. PICK key : key = calls[r].key
  OBVIOUS
<1>5. PICK cursor : cursor = calls[r].cursor
  OBVIOUS
<1>6. GoodReviews(reviews, width) /\ ReadingHolds(reviews, read) /\ RenderedHolds(reviews, rendered)
  BY <1>1, <1>2, <1>3 DEF PagesInv, RenderedHolds
<1>7. key \in DOMAIN reviews /\ ~ reviews[key].unchanged /\ CursorIs(read, cursor)
  <2>1. calls[r] # Pages!Idle
    BY Zenon DEF Pages!Render
  <2>2. CallHolds(reviews, read, calls[r])
    BY <1>2, <1>3 DEF PagesInv
  <2> QED
    BY <1>4, <1>5, <2>1, <2>2 DEF CallHolds
<1>8. /\ \/ rendered' = Kept(rendered, calls[r].key, Pages!Review(calls[r].key))
         \/ \E gone \in DOMAIN rendered :
              rendered' = Kept(Without(rendered, gone), calls[r].key, Pages!Review(calls[r].key))
      /\ Pages!Receive(r, calls[r].key,
           Pages!Serve(calls[r].key, calls[r].cursor, rendered'[calls[r].key]))
      /\ calls' = [calls EXCEPT ![r] = Pages!Idle]
      /\ situation' = situation
  BY Zenon DEF Pages!Render, Kept, Without
<1>9. \E map : RenderedHolds(reviews, map) /\ rendered' = Kept(map, key, reviews[key])
  <2>1. Pages!Review(calls[r].key) = reviews[key]
    BY <1>2, <1>4 DEF Pages!Review
  <2>2. \A gone : RenderedHolds(reviews, Without(rendered, gone))
    BY <1>6, <1>7, KeptHolds
  <2> QED
    BY <1>4, <1>6, <1>8, <2>1, <2>2
<1>10. RenderedHolds(reviews, rendered') /\ rendered'[key] = reviews[key]
  BY <1>7, <1>9, KeptHolds
<1>11. PICK answer : answer = Pages!Serve(key, cursor, reviews[key])
  OBVIOUS
<1>12. Pages!Receive(r, key, answer)
  BY <1>4, <1>5, <1>8, <1>10, <1>11
<1>13. readings' = [readings EXCEPT ![r] = Received(read, key, answer)]
  BY <1>3, <1>12, ReceiveIs
<1>14. ReadingHolds(reviews, Received(read, key, answer))
  BY <1>1, <1>6, <1>7, <1>11, ServedHolds
<1>15. CallHolds(reviews, Received(read, key, answer), Pages!Idle)
  BY DEF CallHolds
<1> QED
  BY <1>2, <1>8, <1>10, <1>13, <1>14, <1>15, StepHolds

(***************************************************************************)
(* Theorems.                                                               *)
(***************************************************************************)
LEMMA PagesStart ==
  ASSUME Pages!Init
  PROVE  PagesInv
<1>1. PICK reviews : reviews = situation.reviews
  OBVIOUS
<1>2. /\ readings = [r \in PageReaders |-> Pages!NotReading]
      /\ calls = [r \in PageReaders |-> Pages!Idle]
      /\ situation \in PageSituations
      /\ rendered = [k \in {} |-> Nothing]
  BY DEF Pages!Init
<1>3. DOMAIN rendered = {}
  BY <1>2
<1>4. /\ Pages!NotReading.state = "none" /\ Pages!NotReading.pages = <<>>
      /\ IsReading(Pages!NotReading)
  <2> DEFINE none == <<>>
  <2>1. Pages!NotReading = [key |-> Nothing, pages |-> none, cursor |-> Nothing, state |-> "none"]
    BY DEF Pages!NotReading
  <2> HIDE DEF none
  <2>2. /\ Pages!NotReading.state = "none" /\ Pages!NotReading.pages = none
        /\ IsReading(Pages!NotReading)
    BY <2>1 DEF IsReading
  <2> QED
    BY <2>2 DEF none
<1>5. ReadingHolds(reviews, Pages!NotReading)
  BY <1>4 DEF ReadingHolds
<1>6. CallHolds(reviews, Pages!NotReading, Pages!Idle)
  BY DEF CallHolds
<1>7. \A r \in PageReaders : readings[r] = Pages!NotReading /\ calls[r] = Pages!Idle
  BY <1>2
<1>8. DOMAIN readings = PageReaders /\ DOMAIN calls = PageReaders
      /\ readings = [r \in PageReaders |-> readings[r]]
      /\ calls = [r \in PageReaders |-> calls[r]]
  BY <1>2
<1>9. \A r \in PageReaders : /\ ReadingHolds(situation.reviews, readings[r])
                             /\ CallHolds(situation.reviews, readings[r], calls[r])
  BY <1>1, <1>5, <1>6, <1>7
<1>10. /\ DOMAIN rendered \subseteq DOMAIN situation.reviews
       /\ \A key \in DOMAIN rendered : rendered[key] = situation.reviews[key]
  BY <1>3
<1> QED
  BY <1>2, <1>8, <1>9, <1>10, Zenon DEF PagesInv

LEMMA PagesKeep ==
  ASSUME PagesInv, Pages!Next
  PROVE  PagesInv'
<1>1. PICK r \in situation.readers :
        Pages!Begin(r) \/ Pages!Continue(r) \/ Pages!Stray(r) \/ Pages!Render(r)
  BY Zenon DEF Pages!Next, Pages!Active
<1>2. r \in PageReaders
  <2>1. \A s \in PageSituations : s.readers \subseteq PageReaders
    BY ReviewAnswersAssumption, Zenon DEF ReviewAnswersAssumption
  <2> QED
    BY <1>1, <2>1 DEF PagesInv
<1>3. ReadingHolds(situation.reviews, readings[r])
  BY <1>2 DEF PagesInv
<1>4. CASE Pages!Begin(r)
  <2>1. readings[r].state = "none"
    BY <1>4 DEF Pages!Begin
  <2>2. PICK key \in DOMAIN situation.reviews : Pages!Call(r, key, Nothing)
    BY <1>4, Zenon DEF Pages!Begin, Pages!Keys
  <2>3. CursorIs(readings[r], Nothing)
    BY <2>1 DEF CursorIs
  <2> QED
    BY <1>2, <2>2, <2>3, CallKeeps
<1>5. ASSUME readings[r].state = "open", NEW key \in DOMAIN situation.reviews,
             Pages!Call(r, key, readings[r].cursor)
      PROVE  PagesInv'
  <2>1. PICK cursor : cursor = readings[r].cursor
    OBVIOUS
  <2>2. CursorIs(readings[r], cursor) /\ Pages!Call(r, key, cursor)
    BY <1>5, <2>1 DEF CursorIs
  <2> QED
    BY <1>2, <2>2, CallKeeps
<1>6. CASE Pages!Continue(r)
  <2>1. readings[r].state = "open" /\ Pages!Call(r, readings[r].key, readings[r].cursor)
    BY <1>6, Zenon DEF Pages!Continue
  <2>2. PICK key : key = readings[r].key
    OBVIOUS
  <2>3. key \in DOMAIN situation.reviews /\ Pages!Call(r, key, readings[r].cursor)
    BY <1>3, <2>1, <2>2 DEF ReadingHolds
  <2> QED
    BY <1>5, <2>1, <2>3
<1>7. CASE Pages!Stray(r)
  <2>1. readings[r].state = "open"
    BY <1>7 DEF Pages!Stray
  <2>2. PICK key \in DOMAIN situation.reviews : Pages!Call(r, key, readings[r].cursor)
    BY <1>7, Zenon DEF Pages!Stray, Pages!Keys
  <2> QED
    BY <1>5, <2>1, <2>2
<1>8. CASE Pages!Render(r)
  BY <1>2, <1>8, RenderKeeps
<1> QED
  BY <1>1, <1>4, <1>6, <1>7, <1>8

(* What is kept of a review, asked for and read of it is always a part of  *)
(* it (Engine::changes and the cache of rendered reviews, index.rs).       *)
THEOREM ReadingsAreKept == SpecAnswers => []AnswersInv
<1>1. InitAnswers => AnswersInv
  BY PagesStart DEF InitAnswers, AnswersInv
<1>2. AnswersInv /\ [NextAnswers]_answersVars => AnswersInv'
  <2> SUFFICES ASSUME AnswersInv, [NextAnswers]_answersVars, part' = "pages" PROVE PagesInv'
    BY DEF AnswersInv
  <2>1. CASE PagesStep
    BY <2>1, PagesKeep DEF PagesStep, AnswersInv, callsVars
  <2>2. CASE ChangesStep
    <3>1. part = "git" /\ part' = part
      BY <2>2 DEF ChangesStep, callsVars
    <3> QED
      BY <3>1
  <2>3. CASE EvidenceStep
    <3>1. part = "evidence" /\ part' = part
      BY <2>3 DEF EvidenceStep, callsVars
    <3> QED
      BY <3>1
  <2>4. CASE UNCHANGED answersVars
    <3>1. PagesInv
      BY <2>4 DEF AnswersInv, answersVars, callsVars
    <3>2. UNCHANGED <<situation, rendered, calls, readings>>
      BY <2>4 DEF answersVars, paging
    <3> QED
      BY <3>1, <3>2, Zenon DEF PagesInv
  <2> QED
    BY <2>1, <2>2, <2>3, <2>4 DEF NextAnswers
<1> QED
  BY <1>1, <1>2, PTL DEF SpecAnswers

(* Whoever follows the cursors to the end has every section of the review  *)
(* exactly once and in order, with counts that agree, and a cursor is good *)
(* for its review for ever and for nothing else (page, limit_page_records, *)
(* record_coverage, render_review_page, index.rs).                         *)
THEOREM PagesAreWhole == SpecAnswers => []PagesAreTheReview
<1>1. AnswersInv => PagesAreTheReview
  <2> SUFFICES ASSUME AnswersInv, part = "pages" PROVE Pages!PagesAreTheReview /\ Pages!CursorsHold
    BY DEF PagesAreTheReview
  <2>1. PagesInv
    BY DEF AnswersInv
  <2>2. PICK width \in Nat :
          RoomHolds(width) /\ \A s \in PageSituations : GoodReviews(s.reviews, width)
    BY Assumed
  <2>3. GoodReviews(situation.reviews, width)
    BY <2>1, <2>2 DEF PagesInv
  <2>4. \A r \in PageReaders : ReadingHolds(situation.reviews, readings[r])
    BY <2>1 DEF PagesInv
  <2>5. ASSUME NEW r \in PageReaders, NEW read, read = readings[r],
               read.state \in {"open", "over"},
               NEW review, review = situation.reviews[read.key], ~ review.unchanged,
               NEW k \in Pages!Ranks
        PROVE  SectionIsRead(read, review, k)
    <3>1. ReadingHolds(situation.reviews, read) /\ read.key \in DOMAIN situation.reviews
      BY <2>4, <2>5 DEF ReadingHolds
    <3>2. Good(review, width)
      BY <2>3, <2>5, <3>1 DEF GoodReviews
    <3>3. CASE read.state = "open"
      <4>1. PICK offsets : offsets = read.cursor.offsets
        OBVIOUS
      <4>2. Read(review, read.pages, offsets)
        BY <2>5, <3>1, <3>3, <4>1 DEF ReadingHolds, OpenHolds
      <4>3. read.state # "over"
        BY <3>3
      <4>4. OverMeansAll(read, review, offsets, k)
        BY <4>3 DEF OverMeansAll
      <4> QED
        BY <3>2, <4>2, <4>4, SectionsAreRead
    <3>4. CASE read.state = "over"
      <4>1. PICK offsets : offsets = Ended(review)
        OBVIOUS
      <4>2. Read(review, read.pages, offsets)
        BY <2>5, <3>1, <3>4, <4>1 DEF ReadingHolds
      <4>3. offsets[k] = Len(review.texts[k])
        BY <4>1 DEF Ended
      <4>4. OverMeansAll(read, review, offsets, k)
        BY <4>3 DEF OverMeansAll
      <4> QED
        BY <3>2, <4>2, <4>4, SectionsAreRead
    <3> QED
      BY <2>5, <3>3, <3>4
  <2>6. Pages!PagesAreTheReview
    <3>1. ASSUME NEW r \in PageReaders, readings[r].state \in {"open", "over"},
                 ~ Pages!Review(readings[r].key).unchanged, NEW k \in Pages!Ranks
          PROVE  SectionIsRead(readings[r], Pages!Review(readings[r].key), k)
      <4>1. PICK read : read = readings[r]
        OBVIOUS
      <4>2. PICK review : review = Pages!Review(readings[r].key)
        OBVIOUS
      <4>3. review = situation.reviews[read.key]
        BY <4>1, <4>2 DEF Pages!Review
      <4>4. SectionIsRead(read, review, k)
        BY <2>5, <3>1, <4>1, <4>2, <4>3
      <4> QED
        BY <4>1, <4>2, <4>4
    <3> QED
      BY <3>1, Zenon DEF Pages!PagesAreTheReview, SectionIsRead
  <2>7. Pages!CursorsHold
    BY <2>4 DEF Pages!CursorsHold, Pages!Review, ReadingHolds
  <2> QED
    BY <2>6, <2>7
<1> QED
  BY <1>1, ReadingsAreKept, PTL

(***************************************************************************)
(* GitChanges.  What is captured is a state of the worktree.               *)
(***************************************************************************)
Held(tree, p) == tree[p] \in TreeEntries
InputHolds ==
  /\ input \in GitInputs
  /\ \A p \in TreePaths : Held(input.other, p) => ~ Held(input.now, p)
  /\ input.renames \in Git!Pairings(input.base, input.now)

Changed(p) == p \in TreePaths /\ input.base[p] # input.now[p]

LEMMA EntriesAre ==
  /\ \A e \in TreeEntries : /\ e # NoEntry /\ e.regular \in BOOLEAN
                            /\ e.form \in {"text", "binary", "large"}
  /\ \A t \in Git!Tree : \A p \in TreePaths : t[p] = NoEntry \/ Held(t, p)
<1>1. TreeEntries \subseteq [regular : BOOLEAN, form : Git!Forms, id : {e.id : e \in TreeEntries}]
      /\ NoEntry \notin TreeEntries
  BY GitChangesAssumption, Zenon DEF GitChangesAssumption
<1>2. ASSUME NEW e \in TreeEntries
      PROVE  e # NoEntry /\ e.regular \in BOOLEAN /\ e.form \in {"text", "binary", "large"}
  BY <1>1 DEF Git!Forms
<1>3. ASSUME NEW t \in Git!Tree, NEW p \in TreePaths PROVE t[p] = NoEntry \/ Held(t, p)
  BY DEF Git!Tree, Held
<1> QED
  BY <1>2, <1>3

LEMMA TreesAre ==
  ASSUME InputHolds
  PROVE  /\ input.base \in Git!Tree /\ input.now \in Git!Tree /\ input.other \in Git!Tree
         /\ input.renames \subseteq TreePaths \X TreePaths
BY DEF InputHolds, GitInputs

(* What is changed was added, deleted or modified, or is of another type.  *)
LEMMA KindIs ==
  ASSUME InputHolds, NEW p, Changed(p)
  PROVE  \/ /\ Git!KindOf(input.base[p], input.now[p]) = "added"
            /\ input.base[p] = NoEntry /\ Held(input.now, p)
         \/ /\ Git!KindOf(input.base[p], input.now[p]) = "deleted"
            /\ Held(input.base, p) /\ input.now[p] = NoEntry
         \/ /\ Git!KindOf(input.base[p], input.now[p]) = "type"
            /\ Held(input.base, p) /\ Held(input.now, p)
            /\ input.base[p].regular # input.now[p].regular
         \/ /\ Git!KindOf(input.base[p], input.now[p]) = "modified"
            /\ Held(input.base, p) /\ Held(input.now, p)
            /\ input.base[p].regular = input.now[p].regular
<1> DEFINE old == input.base[p]
           new == input.now[p]
<1>1. old # new /\ (old = NoEntry \/ Held(input.base, p)) /\ (new = NoEntry \/ Held(input.now, p))
  BY TreesAre, EntriesAre DEF Changed
<1>2. \A t, q : Held(t, q) => t[q] # NoEntry
  BY EntriesAre DEF Held
<1>3. CASE old = NoEntry
  <2>1. Git!KindOf(old, new) = "added" /\ Held(input.now, p)
    BY <1>1, <1>3 DEF Git!KindOf
  <2> QED
    BY <1>3, <2>1
<1>4. CASE old # NoEntry /\ new = NoEntry
  <2>1. Git!KindOf(old, new) = "deleted" /\ Held(input.base, p)
    BY <1>1, <1>4 DEF Git!KindOf
  <2> QED
    BY <1>4, <2>1
<1>5. CASE old # NoEntry /\ new # NoEntry
  <2>1. Held(input.base, p) /\ Held(input.now, p)
    BY <1>1, <1>5
  <2>2. CASE old.regular # new.regular
    <3>1. Git!KindOf(old, new) = "type"
      BY <1>5, <2>2 DEF Git!KindOf
    <3> QED
      BY <2>1, <2>2, <3>1
  <2>3. CASE old.regular = new.regular
    <3>1. Git!KindOf(old, new) = "modified"
      BY <1>5, <2>3 DEF Git!KindOf
    <3> QED
      BY <2>1, <2>3, <3>1
  <2> QED
    BY <2>2, <2>3
<1> QED
  BY <1>3, <1>4, <1>5

(* What a raw record of one path says.                                     *)
IsPlain(x, p) ==
  /\ Changed(p) /\ x.from = input.base[p] /\ x.to = input.now[p]
  /\ \/ /\ x.kind = "added" /\ x.old = Nothing /\ x.new = Git!Safe(p)
        /\ input.base[p] = NoEntry /\ Held(input.now, p)
     \/ /\ x.kind = "deleted" /\ x.old = Git!Safe(p) /\ x.new = Nothing
        /\ Held(input.base, p) /\ input.now[p] = NoEntry
     \/ /\ x.kind = "type" /\ x.old = Nothing /\ x.new = Git!Safe(p)
        /\ Held(input.base, p) /\ Held(input.now, p)
        /\ input.base[p].regular # input.now[p].regular
     \/ /\ x.kind = "modified" /\ x.old = Nothing /\ x.new = Git!Safe(p)
        /\ Held(input.base, p) /\ Held(input.now, p)
        /\ input.base[p].regular = input.now[p].regular

LEMMA PathsAre ==
  /\ Nothing \notin TreePaths /\ Git!Safe(Nothing) = Nothing
  /\ \A p \in TreePaths : Git!Safe(p) # Nothing <=> p \notin UnsafePaths
  /\ \A p \in TreePaths : p \notin UnsafePaths => Git!Safe(p) = p
  /\ \A p \in TreePaths : p \in UnsafePaths => Git!Safe(p) = Nothing
<1>1. Nothing \notin TreePaths
  BY GitChangesAssumption, Zenon DEF GitChangesAssumption
<1> QED
  BY <1>1 DEF Git!Safe

LEMMA PlainIs ==
  ASSUME InputHolds, NEW p, Changed(p)
  PROVE  IsPlain(Git!Plain(p), p)
<1> DEFINE kind == Git!KindOf(input.base[p], input.now[p])
           x == Git!Plain(p)
<1>1. CASE kind = "deleted"
  <2>1. x = [kind |-> kind, old |-> Git!Safe(p), new |-> Git!Safe(Nothing),
             from |-> input.base[p], to |-> input.now[p]]
    BY <1>1, Zenon DEF Git!Plain, Git!Raw
  <2>2. /\ x.kind = kind /\ x.old = Git!Safe(p) /\ x.new = Nothing
        /\ x.from = input.base[p] /\ x.to = input.now[p]
    <3> HIDE DEF x, kind
    <3> QED
      BY <2>1, PathsAre
  <2>3. Held(input.base, p) /\ input.now[p] = NoEntry
    <3> HIDE DEF x
    <3> QED
      BY <1>1, KindIs
  <2>4. IsPlain(x, p)
    <3> HIDE DEF x, kind
    <3> QED
      BY <1>1, <2>2, <2>3 DEF IsPlain
  <2> QED
    BY <2>4
<1>2. CASE kind # "deleted"
  <2>1. x = [kind |-> kind, old |-> Git!Safe(Nothing), new |-> Git!Safe(p),
             from |-> input.base[p], to |-> input.now[p]]
    BY <1>2, Zenon DEF Git!Plain, Git!Raw
  <2>2. /\ x.kind = kind /\ x.old = Nothing /\ x.new = Git!Safe(p)
        /\ x.from = input.base[p] /\ x.to = input.now[p]
    <3> HIDE DEF x, kind
    <3> QED
      BY <2>1, PathsAre
  <2>3. \/ kind = "added" /\ input.base[p] = NoEntry /\ Held(input.now, p)
        \/ /\ kind = "type" /\ Held(input.base, p) /\ Held(input.now, p)
           /\ input.base[p].regular # input.now[p].regular
        \/ /\ kind = "modified" /\ Held(input.base, p) /\ Held(input.now, p)
           /\ input.base[p].regular = input.now[p].regular
    <3> HIDE DEF x
    <3> QED
      BY <1>2, KindIs
  <2>4. IsPlain(x, p)
    <3> HIDE DEF x, kind
    <3> QED
      BY <2>2, <2>3 DEF IsPlain
  <2> QED
    BY <2>4
<1> QED
  BY <1>1, <1>2

(***************************************************************************)
(* Renames.                                                                *)
(***************************************************************************)
IsPair(r) ==
  /\ r \in input.renames /\ r[1] \in TreePaths /\ r[2] \in TreePaths /\ r = <<r[1], r[2]>>
  /\ Held(input.base, r[1]) /\ input.now[r[1]] = NoEntry
  /\ input.base[r[2]] = NoEntry /\ Held(input.now, r[2])
  /\ input.base[r[1]].regular = input.now[r[2]].regular
  /\ (input.base[r[1]].regular \/ input.base[r[1]] = input.now[r[2]])

LEMMA PairIs ==
  ASSUME InputHolds, NEW r \in input.renames
  PROVE  IsPair(r) /\ Changed(r[1]) /\ Changed(r[2])
<1>1. input.renames \in Git!Pairings(input.base, input.now)
  BY DEF InputHolds
<1>2. r \in {p \in TreePaths : input.base[p] # NoEntry /\ input.now[p] = NoEntry}
              \X {p \in TreePaths : input.base[p] = NoEntry /\ input.now[p] # NoEntry}
  BY <1>1 DEF Git!Pairings
<1>3. \/ input.base[r[1]].regular /\ input.now[r[2]].regular
      \/ input.base[r[1]] = input.now[r[2]]
  BY <1>1 DEF Git!Pairings
<1>4. /\ r[1] \in TreePaths /\ r[2] \in TreePaths /\ r = <<r[1], r[2]>>
      /\ input.base[r[1]] # NoEntry /\ input.now[r[1]] = NoEntry
      /\ input.base[r[2]] = NoEntry /\ input.now[r[2]] # NoEntry
  BY <1>2
<1>5. Held(input.base, r[1]) /\ Held(input.now, r[2])
  BY <1>4, TreesAre, EntriesAre
<1>6. input.base[r[1]].regular = input.now[r[2]].regular
  <2>1. input.base[r[1]].regular \in BOOLEAN /\ input.now[r[2]].regular \in BOOLEAN
    BY <1>5, EntriesAre DEF Held
  <2> QED
    BY <1>3, <2>1
<1> QED
  BY <1>3, <1>4, <1>5, <1>6 DEF IsPair, Changed

LEMMA PairsApart ==
  ASSUME InputHolds, NEW r \in input.renames, NEW s \in input.renames
  PROVE  /\ r[1] = s[1] => r = s
         /\ r[2] = s[2] => r = s
         /\ r[1] # s[2]
<1>1. r = s \/ (r[1] # s[1] /\ r[2] # s[2])
  BY DEF InputHolds, Git!Pairings
<1>2. Held(input.base, r[1]) /\ input.base[s[2]] = NoEntry
  BY PairIs DEF IsPair
<1>3. r[1] # s[2]
  BY <1>2, EntriesAre DEF Held
<1> QED
  BY <1>1, <1>3

RenameOf(r) == Git!Raw("renamed", r[1], r[2], r[1], r[2])
IsRename(x, r) ==
  /\ IsPair(r) /\ x.kind = "renamed" /\ x.old = Git!Safe(r[1]) /\ x.new = Git!Safe(r[2])
  /\ x.from = input.base[r[1]] /\ x.to = input.now[r[2]]

LEMMA RenameIs ==
  ASSUME InputHolds, NEW r \in input.renames
  PROVE  IsRename(RenameOf(r), r)
<1>1. IsPair(r)
  BY PairIs
<1> QED
  BY <1>1 DEF IsRename, RenameOf, Git!Raw

(***************************************************************************)
(* A patch.  A path is in one record of it.                                *)
(***************************************************************************)
Within(scope) == {r \in input.renames : r[1] \in scope /\ r[2] \in scope}
EndIn(pairs, p) == \E r \in pairs : p = r[1] \/ p = r[2]

LEMMA PatchIs ==
  ASSUME InputHolds, NEW scope, scope \subseteq TreePaths
  PROVE  /\ \A x \in Git!Patch(scope) :
              \/ \E r \in Within(scope) : x = RenameOf(r)
              \/ \E p \in scope : /\ Changed(p) /\ ~ EndIn(Within(scope), p)
                                  /\ x = Git!Plain(p) /\ x.kind # "type"
         /\ \A r \in Within(scope) : RenameOf(r) \in Git!Patch(scope)
         /\ \A p \in scope : Changed(p) /\ ~ EndIn(Within(scope), p) /\ Git!Plain(p).kind # "type"
                               => Git!Plain(p) \in Git!Patch(scope)
<1> DEFINE pairs == {r \in input.renames : r[1] \in scope /\ r[2] \in scope}
           ends == {r[1] : r \in pairs} \union {r[2] : r \in pairs}
           lone == Git!ChangedIn(scope) \ ends
<1>1. Git!Patch(scope) = {RenameOf(r) : r \in pairs}
                           \union {x \in {Git!Plain(p) : p \in lone} : x.kind # "type"}
  BY Zenon DEF Git!Patch, RenameOf
<1>2. pairs = Within(scope)
  BY DEF Within
<1>3. \A p : p \in lone <=> p \in scope /\ Changed(p) /\ ~ EndIn(Within(scope), p)
  BY <1>2 DEF Git!ChangedIn, Changed, EndIn
<1> HIDE DEF pairs, lone
<1> QED
  BY <1>1, <1>2, <1>3

SourceScope == {p \in TreeSources : ~ Git!Boundary(p)}
ArtifactScope == {p \in TreePaths \ TreeSources : ~ Git!Boundary(p)}

LEMMA ScopesAre ==
  /\ SourceScope \subseteq TreePaths /\ ArtifactScope \subseteq TreePaths
  /\ SourceScope \subseteq TreeSources /\ TreeSources \subseteq TreePaths
  /\ UnsafePaths \subseteq TreePaths
  /\ SourceScope \intersect ArtifactScope = {}
  /\ \A p \in ArtifactScope : p \notin TreeSources
  /\ Git!SourcePatch = Git!Patch(SourceScope) /\ Git!ArtifactPatch = Git!Patch(ArtifactScope)
<1>1. TreeSources \subseteq TreePaths /\ UnsafePaths \subseteq TreePaths
  BY GitChangesAssumption, Zenon DEF GitChangesAssumption
<1>2. Git!SourcePatch = Git!Patch(SourceScope) /\ Git!ArtifactPatch = Git!Patch(ArtifactScope)
  BY Zenon DEF Git!SourcePatch, Git!ArtifactPatch, SourceScope, ArtifactScope
<1> QED
  BY <1>1, <1>2 DEF SourceScope, ArtifactScope

Named(x, p) == p # Nothing /\ (p = x.old \/ p = x.new)

LEMMA NamedInPatch ==
  ASSUME InputHolds, NEW scope, scope \subseteq TreePaths, NEW x \in Git!Patch(scope),
         NEW p, Named(x, p)
  PROVE  /\ p \in scope /\ p \notin UnsafePaths
         /\ \/ \E r \in Within(scope) : x = RenameOf(r) /\ (p = r[1] \/ p = r[2])
            \/ Changed(p) /\ ~ EndIn(Within(scope), p) /\ x = Git!Plain(p) /\ x.kind # "type"
<1>1. CASE \E r \in Within(scope) : x = RenameOf(r)
  <2>1. PICK r \in Within(scope) : x = RenameOf(r)
    BY <1>1
  <2>2. r \in input.renames /\ r[1] \in scope /\ r[2] \in scope
    BY DEF Within
  <2>3. IsRename(x, r)
    BY <2>1, <2>2, RenameIs
  <2>4. x.old = Git!Safe(r[1]) /\ x.new = Git!Safe(r[2])
    BY <2>3 DEF IsRename
  <2>5. (p = r[1] \/ p = r[2]) /\ p \notin UnsafePaths
    BY <2>2, <2>4, PathsAre DEF Named
  <2> QED
    BY <2>1, <2>2, <2>5
<1>2. CASE \E q \in scope : /\ Changed(q) /\ ~ EndIn(Within(scope), q)
                            /\ x = Git!Plain(q) /\ x.kind # "type"
  <2>1. PICK q \in scope : /\ Changed(q) /\ ~ EndIn(Within(scope), q)
                           /\ x = Git!Plain(q) /\ x.kind # "type"
    BY <1>2
  <2>2. IsPlain(x, q)
    BY <2>1, PlainIs
  <2>3. x.old \in {Nothing, Git!Safe(q)} /\ x.new \in {Nothing, Git!Safe(q)}
    BY <2>2 DEF IsPlain
  <2>4. p = q /\ p \notin UnsafePaths
    BY <2>3, PathsAre DEF Named
  <2> QED
    BY <2>1, <2>4
<1> QED
  BY <1>1, <1>2, PatchIs

LEMMA OneRecord ==
  ASSUME InputHolds, NEW scope, scope \subseteq TreePaths,
         NEW x \in Git!Patch(scope), NEW y \in Git!Patch(scope),
         NEW p, Named(x, p), Named(y, p)
  PROVE  x = y
<1>1. ASSUME NEW r \in Within(scope), NEW s \in Within(scope),
             p = r[1] \/ p = r[2], p = s[1] \/ p = s[2]
      PROVE  r = s
  <2>1. r \in input.renames /\ s \in input.renames
    BY DEF Within
  <2>2. r[1] # s[2] /\ s[1] # r[2] /\ (r[1] = s[1] => r = s) /\ (r[2] = s[2] => r = s)
    BY <2>1, PairsApart
  <2> QED
    BY <1>1, <2>2
<1>2. \A r \in Within(scope) : p = r[1] \/ p = r[2] => EndIn(Within(scope), p)
  BY DEF EndIn
<1>3. \/ \E r \in Within(scope) : x = RenameOf(r) /\ (p = r[1] \/ p = r[2])
      \/ ~ EndIn(Within(scope), p) /\ x = Git!Plain(p)
  BY NamedInPatch
<1>4. \/ \E r \in Within(scope) : y = RenameOf(r) /\ (p = r[1] \/ p = r[2])
      \/ ~ EndIn(Within(scope), p) /\ y = Git!Plain(p)
  BY NamedInPatch
<1> QED
  BY <1>1, <1>2, <1>3, <1>4

(***************************************************************************)
(* The inventory.                                                          *)
(***************************************************************************)
Source(tree, p) == p \in TreeSources /\ Held(tree, p) /\ tree[p].regular
Tellable(p) == Changed(p) /\ p \notin UnsafePaths
ListedAs(p) == Git!InventoryPath(Git!Plain(p))
IsListed(c, p) ==
  /\ Tellable(p) /\ c.path = p /\ c.oldPath = Nothing /\ c.status = Git!Plain(p).kind
  /\ c.status \in {"added", "deleted", "type", "modified"}
  /\ c.language <=> \/ c.status = "deleted" /\ Source(input.base, p)
                    \/ c.status \in {"added", "modified"} /\ Source(input.now, p)
  /\ c = Git!Change(c.status, Nothing, FALSE, p, c.language, FALSE)

LEMMA RegularIs ==
  ASSUME NEW tree \in Git!Tree, NEW p \in TreePaths
  PROVE  Git!Regular(tree[p]) <=> Held(tree, p) /\ tree[p].regular
<1>1. tree[p] = NoEntry \/ Held(tree, p)
  BY EntriesAre
<1>2. Held(tree, p) => tree[p] # NoEntry
  BY EntriesAre DEF Held
<1> QED
  BY <1>1, <1>2 DEF Git!Regular

LEMMA LanguageIs ==
  \A p \in TreePaths : Git!Language(Git!Safe(p)) <=> p \in TreeSources /\ p \notin UnsafePaths
<1>1. ASSUME NEW p \in TreePaths
      PROVE  Git!Language(Git!Safe(p)) <=> p \in TreeSources /\ p \notin UnsafePaths
  <2>1. CASE p \in UnsafePaths
    BY <2>1, PathsAre DEF Git!Language
  <2>2. CASE p \notin UnsafePaths
    <3>1. Git!Safe(p) = p /\ p # Nothing
      BY <2>2, PathsAre
    <3> QED
      BY <2>2, <3>1 DEF Git!Language
  <2> QED
    BY <2>1, <2>2
<1> QED
  BY <1>1

LEMMA ListedAsIs ==
  ASSUME InputHolds, NEW p, Tellable(p)
  PROVE  IsListed(ListedAs(p), p) /\ Git!Named(Git!Plain(p))
<1> DEFINE x == Git!Plain(p)
           c == ListedAs(p)
<1>1. IsPlain(x, p) /\ p \in TreePaths /\ p \notin UnsafePaths
  BY PlainIs DEF Tellable, Changed
<1>2. Git!Safe(p) = p /\ p # Nothing
  BY <1>1, PathsAre
<1>3. /\ Git!Regular(input.base[p]) <=> Held(input.base, p) /\ input.base[p].regular
      /\ Git!Regular(input.now[p]) <=> Held(input.now, p) /\ input.now[p].regular
  BY <1>1, TreesAre, RegularIs
<1>4. Git!Language(p) <=> p \in TreeSources
  BY <1>1, <1>2, LanguageIs
<1> DEFINE gone == Git!Regular(x.from) /\ Git!Language(x.old)
           here == x.kind # "type" /\ Git!Regular(x.to) /\ Git!Language(x.new)
<1>5. c = IF x.kind = "deleted" THEN Git!Change("deleted", Nothing, FALSE, x.old, gone, FALSE)
          ELSE Git!Change(x.kind, Nothing, FALSE, x.new, here, FALSE)
  BY Zenon DEF Git!InventoryPath, ListedAs
<1> HIDE DEF c, x
<1>6. CASE x.kind = "deleted"
  <2>1. x.old = p /\ x.from = input.base[p]
    BY <1>1, <1>2, <1>6 DEF IsPlain
  <2>2. gone <=> Source(input.base, p)
    BY <1>3, <1>4, <2>1 DEF Source
  <2> HIDE DEF gone
  <2>3. c = Git!Change("deleted", Nothing, FALSE, p, gone, FALSE)
    BY <1>5, <1>6, <2>1
  <2>4. /\ c.path = p /\ c.oldPath = Nothing /\ c.status = "deleted"
        /\ c.language = gone
    BY <2>3 DEF Git!Change
  <2>5. c = Git!Change(c.status, Nothing, FALSE, p, c.language, FALSE)
    BY <2>3, <2>4
  <2>6. IsListed(c, p)
    BY <1>6, <2>2, <2>4, <2>5 DEF IsListed, x
  <2>7. Git!Named(x)
    BY <1>2, <1>6, <2>1 DEF Git!Named
  <2> QED
    BY <2>6, <2>7 DEF x, c
<1>7. CASE x.kind # "deleted"
  <2>1. x.new = p /\ x.to = input.now[p]
    BY <1>1, <1>2, <1>7 DEF IsPlain
  <2>2. here <=> x.kind # "type" /\ Source(input.now, p)
    BY <1>3, <1>4, <2>1 DEF Source
  <2> HIDE DEF here
  <2>3. c = Git!Change(x.kind, Nothing, FALSE, p, here, FALSE)
    BY <1>5, <1>7, <2>1
  <2>4. /\ c.path = p /\ c.oldPath = Nothing /\ c.status = x.kind
        /\ c.language = here
    BY <2>3 DEF Git!Change
  <2>5. c = Git!Change(c.status, Nothing, FALSE, p, c.language, FALSE)
    BY <2>3, <2>4
  <2>8. x.kind \in {"added", "type", "modified"}
    BY <1>1, <1>7 DEF IsPlain
  <2>6. IsListed(c, p)
    BY <2>2, <2>4, <2>5, <2>8 DEF IsListed, x
  <2>7. Git!Named(x)
    BY <1>2, <1>7, <2>1 DEF Git!Named
  <2> QED
    BY <2>6, <2>7 DEF x, c
<1> QED
  BY <1>6, <1>7

LEMMA ListedIs ==
  ASSUME InputHolds
  PROVE  \A c : c \in Git!Listed <=> \E p : Tellable(p) /\ c = ListedAs(p)
<1>1. \A p : p \in Git!ChangedIn(TreePaths) <=> Changed(p)
  BY DEF Git!ChangedIn, Changed
<1>2. ASSUME NEW p, Changed(p), Git!Named(Git!Plain(p))
      PROVE  Tellable(p)
  <2>1. IsPlain(Git!Plain(p), p) /\ p \in TreePaths
    BY <1>2, PlainIs DEF Changed
  <2>2. Git!Safe(p) # Nothing
    BY <1>2, <2>1 DEF IsPlain, Git!Named
  <2> QED
    BY <1>2, <2>1, <2>2, PathsAre DEF Tellable
<1>3. \A p : Tellable(p) => Changed(p) /\ Git!Named(Git!Plain(p))
  BY ListedAsIs DEF Tellable
<1>4. Git!Listed = {Git!InventoryPath(x) :
                      x \in {y \in {Git!Plain(p) : p \in Git!ChangedIn(TreePaths)} : Git!Named(y)}}
  BY Zenon DEF Git!Listed, Git!RawInventory
<1> QED
  BY <1>1, <1>2, <1>3, <1>4 DEF ListedAs

LEMMA ListedOnce ==
  ASSUME InputHolds, NEW c \in Git!Listed
  PROVE  IsListed(c, c.path) /\ c = ListedAs(c.path)
<1>1. PICK p : Tellable(p) /\ c = ListedAs(p)
  BY ListedIs
<1>2. IsListed(c, p)
  BY <1>1, ListedAsIs
<1>3. c.path = p
  BY <1>2 DEF IsListed
<1> QED
  BY <1>1, <1>2, <1>3

(***************************************************************************)
(* What merge_changes makes of the inventory and the renames.              *)
(***************************************************************************)
LEMMA SidesAre ==
  ASSUME InputHolds, NEW r \in Within(SourceScope)
  PROVE  /\ Git!OldSource(RenameOf(r)) <=> r[1] \notin UnsafePaths /\ input.base[r[1]].regular
         /\ Git!NewSource(RenameOf(r)) <=> r[2] \notin UnsafePaths /\ input.base[r[1]].regular
<1>1. r \in input.renames /\ r[1] \in TreeSources /\ r[2] \in TreeSources
  BY ScopesAre DEF Within
<1>2. IsPair(r) /\ IsRename(RenameOf(r), r)
  BY <1>1, PairIs, RenameIs
<1>3. /\ Git!Language(Git!Safe(r[1])) <=> r[1] \notin UnsafePaths
      /\ Git!Language(Git!Safe(r[2])) <=> r[2] \notin UnsafePaths
  BY <1>1, ScopesAre, LanguageIs
<1>4. /\ Git!Regular(input.base[r[1]]) <=> input.base[r[1]].regular
      /\ Git!Regular(input.now[r[2]]) <=> input.base[r[1]].regular
  BY <1>2, TreesAre, RegularIs DEF IsPair
<1> QED
  BY <1>2, <1>3, <1>4 DEF IsRename, Git!OldSource, Git!NewSource

Moves(r) ==
  /\ r \in input.renames /\ r[1] \notin UnsafePaths /\ r[2] \notin UnsafePaths
  /\ \/ r \in Within(ArtifactScope)
     \/ r \in Within(SourceScope) /\ input.base[r[1]].regular

LEMMA RenamedPlain ==
  ASSUME InputHolds, NEW p, Changed(p)
  PROVE  Git!Plain(p).kind # "renamed"
BY PlainIs DEF IsPlain

LEMMA PatchRenames ==
  ASSUME InputHolds, NEW scope, scope \subseteq TreePaths, NEW x \in Git!Patch(scope),
         x.kind = "renamed"
  PROVE  \E r \in Within(scope) : x = RenameOf(r) /\ IsRename(x, r)
<1>1. \E r \in Within(scope) : x = RenameOf(r)
  BY PatchIs, RenamedPlain
<1> QED
  BY <1>1, RenameIs DEF Within

LEMMA ArtifactRenamesAre ==
  ASSUME InputHolds
  PROVE  \A r : r \in Git!ArtifactRenames
                  <=> /\ r \in Within(ArtifactScope)
                      /\ r[1] \notin UnsafePaths /\ r[2] \notin UnsafePaths
<1>1. ASSUME NEW r \in Git!ArtifactRenames
      PROVE  r \in Within(ArtifactScope) /\ r[1] \notin UnsafePaths /\ r[2] \notin UnsafePaths
  <2>1. PICK x \in Git!ArtifactPatch :
          /\ r = <<x.old, x.new>> /\ x.kind = "renamed" /\ x.new # Nothing
          /\ Git!ArtifactPath(x) # Nothing
    BY DEF Git!ArtifactRenames, Git!ArtifactRaws
  <2>2. x.old # Nothing
    BY <2>1 DEF Git!ArtifactPath
  <2>3. PICK s \in Within(ArtifactScope) : x = RenameOf(s) /\ IsRename(x, s)
    BY <2>1, ScopesAre, PatchRenames
  <2>4. s[1] \in TreePaths /\ s[2] \in TreePaths /\ s = <<s[1], s[2]>>
    BY <2>3 DEF IsRename, IsPair
  <2>5. x.old = Git!Safe(s[1]) /\ x.new = Git!Safe(s[2])
    BY <2>3 DEF IsRename
  <2>6. s[1] \notin UnsafePaths /\ s[2] \notin UnsafePaths /\ x.old = s[1] /\ x.new = s[2]
    BY <2>1, <2>2, <2>4, <2>5, PathsAre
  <2>7. r = s
    BY <2>1, <2>4, <2>6
  <2> QED
    BY <2>6, <2>7
<1>2. ASSUME NEW r \in Within(ArtifactScope), r[1] \notin UnsafePaths, r[2] \notin UnsafePaths
      PROVE  r \in Git!ArtifactRenames
  <2> DEFINE x == RenameOf(r)
  <2>1. r \in input.renames
    BY DEF Within
  <2>2. IsRename(x, r) /\ x \in Git!ArtifactPatch
    BY <2>1, RenameIs, PatchIs, ScopesAre
  <2>3. r[1] \in TreePaths /\ r[2] \in TreePaths /\ r = <<r[1], r[2]>>
    BY <2>2 DEF IsRename, IsPair
  <2>4. x.old = r[1] /\ x.new = r[2] /\ x.kind = "renamed" /\ x.old # Nothing /\ x.new # Nothing
    BY <1>2, <2>2, <2>3, PathsAre DEF IsRename
  <2> HIDE DEF x
  <2>5. Git!ArtifactPath(x) # Nothing
    BY <2>4 DEF Git!ArtifactPath
  <2>6. r = <<x.old, x.new>>
    BY <2>3, <2>4
  <2> QED
    BY <2>2, <2>4, <2>5, <2>6 DEF Git!ArtifactRenames, Git!ArtifactRaws
<1> QED
  BY <1>1, <1>2

LEMMA SourceRenamesAre ==
  ASSUME InputHolds
  PROVE  \A r : (\E t \in Git!SourceRecords : t.status = "renamed" /\ r = <<t.path, t.new>>)
                  <=> /\ r \in Within(SourceScope) /\ input.base[r[1]].regular
                      /\ r[1] \notin UnsafePaths /\ r[2] \notin UnsafePaths
<1>1. ASSUME NEW t \in Git!SourceRecords, t.status = "renamed", NEW r, r = <<t.path, t.new>>
      PROVE  /\ r \in Within(SourceScope) /\ input.base[r[1]].regular
             /\ r[1] \notin UnsafePaths /\ r[2] \notin UnsafePaths
  <2>1. PICK x \in Git!SourcePatch : t \in Git!RecordOf(x)
    BY DEF Git!SourceRecords
  <2>2. /\ x.kind = "renamed" /\ Git!OldSource(x) /\ Git!NewSource(x)
        /\ t.path = x.old /\ t.new = x.new
    BY <1>1, <2>1 DEF Git!RecordOf, Git!Record
  <2>3. PICK s \in Within(SourceScope) : x = RenameOf(s) /\ IsRename(x, s)
    BY <2>2, ScopesAre, PatchRenames
  <2>4. s[1] \in TreePaths /\ s[2] \in TreePaths /\ s = <<s[1], s[2]>>
    BY <2>3 DEF IsRename, IsPair
  <2>5. s[1] \notin UnsafePaths /\ s[2] \notin UnsafePaths /\ input.base[s[1]].regular
    BY <2>2, <2>3, SidesAre
  <2>6. x.old = s[1] /\ x.new = s[2]
    BY <2>3, <2>4, <2>5, PathsAre DEF IsRename
  <2>7. r = s
    BY <1>1, <2>2, <2>4, <2>6
  <2> QED
    BY <2>5, <2>7
<1>2. ASSUME NEW r \in Within(SourceScope), input.base[r[1]].regular,
             r[1] \notin UnsafePaths, r[2] \notin UnsafePaths
      PROVE  \E t \in Git!SourceRecords : t.status = "renamed" /\ r = <<t.path, t.new>>
  <2> DEFINE x == RenameOf(r)
             t == Git!Record("renamed", x.old, x.new)
  <2>1. r \in input.renames
    BY DEF Within
  <2>2. IsRename(x, r) /\ x \in Git!SourcePatch
    BY <2>1, RenameIs, PatchIs, ScopesAre
  <2>3. Git!OldSource(x) /\ Git!NewSource(x)
    BY <1>2, SidesAre
  <2>4. r[1] \in TreePaths /\ r[2] \in TreePaths /\ r = <<r[1], r[2]>>
    BY <2>2 DEF IsRename, IsPair
  <2>5. x.old = r[1] /\ x.new = r[2] /\ x.kind = "renamed"
    BY <1>2, <2>2, <2>4, PathsAre DEF IsRename
  <2> HIDE DEF x
  <2>6. t \in Git!RecordOf(x)
    BY <2>3, <2>5 DEF Git!RecordOf
  <2>7. t \in Git!SourceRecords
    <3> HIDE DEF t
    <3> QED
      BY <2>2, <2>6 DEF Git!SourceRecords
  <2>8. t.status = "renamed" /\ t.path = x.old /\ t.new = x.new
    BY DEF Git!Record
  <2> HIDE DEF t
  <2> QED
    BY <2>4, <2>5, <2>7, <2>8
<1> QED
  BY <1>1, <1>2

LEMMA RenamePairsAre ==
  ASSUME InputHolds
  PROVE  \A r : r \in Git!RenamePairs <=> Moves(r)
<1>1. \A r : r \in Git!RenamePairs <=>
             \/ r \in Git!ArtifactRenames
             \/ \E t \in Git!SourceRecords : t.status = "renamed" /\ r = <<t.path, t.new>>
  BY DEF Git!RenamePairs
<1> QED
  BY <1>1, ArtifactRenamesAre, SourceRenamesAre DEF Moves, Within

LEMMA WholeIs ==
  ASSUME InputHolds, NEW r, Moves(r)
  PROVE  /\ IsPair(r) /\ Tellable(r[1]) /\ Tellable(r[2])
         /\ ListedAs(r[1]).status = "deleted" /\ ListedAs(r[2]).status = "added"
<1>1. r \in input.renames
  BY DEF Moves
<1>2. IsPair(r) /\ Tellable(r[1]) /\ Tellable(r[2])
  BY <1>1, PairIs DEF Moves, Tellable
<1>3. IsListed(ListedAs(r[1]), r[1]) /\ IsListed(ListedAs(r[2]), r[2])
  BY <1>2, ListedAsIs
<1>4. IsPlain(Git!Plain(r[1]), r[1]) /\ IsPlain(Git!Plain(r[2]), r[2])
  BY <1>2, PlainIs DEF Tellable
<1>5. /\ Held(input.base, r[1]) /\ ~ Held(input.now, r[1])
      /\ ~ Held(input.base, r[2]) /\ Held(input.now, r[2])
  BY <1>2, EntriesAre DEF IsPair, Held
<1>6. Git!Plain(r[1]).kind = "deleted"
  BY <1>4, <1>5, EntriesAre DEF IsPlain, Held
<1>7. Git!Plain(r[2]).kind = "added"
  BY <1>4, <1>5, EntriesAre DEF IsPlain, Held
<1> QED
  BY <1>2, <1>3, <1>6, <1>7 DEF IsListed

WholeAs(r) == Git!Renamed(Git!Listed, r)
IsWhole(c, r) ==
  /\ Moves(r) /\ c.status = "renamed" /\ c.oldPath = r[1] /\ c.path = r[2]
  /\ c.oldLanguage <=> Source(input.base, r[1])
  /\ c.language <=> Source(input.now, r[2])
  /\ c = Git!Change("renamed", r[1], c.oldLanguage, r[2], c.language, FALSE)

LEMMA WholeAsIs ==
  ASSUME InputHolds, NEW r, Moves(r)
  PROVE  IsWhole(WholeAs(r), r)
<1> DEFINE old == CHOOSE c \in Git!Listed : c.status = "deleted" /\ c.path = r[1]
           new == CHOOSE c \in Git!Listed : c.status = "added" /\ c.path = r[2]
           l1 == ListedAs(r[1])
           l2 == ListedAs(r[2])
<1>1. /\ Tellable(r[1]) /\ Tellable(r[2]) /\ l1.status = "deleted" /\ l2.status = "added"
  BY WholeIs
<1>2. IsListed(l1, r[1]) /\ IsListed(l2, r[2])
  BY <1>1, ListedAsIs
<1>3. l1 \in Git!Listed /\ l2 \in Git!Listed /\ l1.path = r[1] /\ l2.path = r[2]
  BY <1>1, <1>2, ListedIs DEF IsListed
<1>4. old \in Git!Listed /\ old.path = r[1]
  BY <1>1, <1>3
<1>5. new \in Git!Listed /\ new.path = r[2]
  BY <1>1, <1>3
<1>6. WholeAs(r) = Git!Change("renamed", r[1], old.language, r[2], new.language, FALSE)
  BY Zenon DEF WholeAs, Git!Renamed
<1> HIDE DEF old, new
<1>7. old = l1 /\ new = l2
  BY <1>4, <1>5, ListedOnce
<1>8. /\ l1.language <=> Source(input.base, r[1])
      /\ l2.language <=> Source(input.now, r[2])
  BY <1>1, <1>2 DEF IsListed
<1> HIDE DEF l1, l2
<1> DEFINE c == WholeAs(r)
<1>9. c = Git!Change("renamed", r[1], l1.language, r[2], l2.language, FALSE)
  BY <1>6, <1>7
<1> HIDE DEF c
<1>10. /\ c.status = "renamed" /\ c.oldPath = r[1] /\ c.path = r[2]
       /\ c.oldLanguage = l1.language /\ c.language = l2.language
  BY <1>9 DEF Git!Change
<1>11. IsWhole(c, r)
  BY <1>8, <1>9, <1>10 DEF IsWhole
<1> QED
  BY <1>11 DEF c

Half(p) == \E r : Moves(r) /\ (p = r[1] \/ p = r[2])
Told == Git!Coalesce(Git!Listed, Git!RenamePairs)

LEMMA ToldIs ==
  ASSUME InputHolds
  PROVE  \A c : c \in Told <=> \/ \E p : Tellable(p) /\ ~ Half(p) /\ c = ListedAs(p)
                               \/ \E r : Moves(r) /\ c = WholeAs(r)
<1> DEFINE Side(c) == \E r \in Git!RenamePairs : \/ c.status = "deleted" /\ c.path = r[1]
                                                 \/ c.status = "added" /\ c.path = r[2]
<1>1. Told = {c \in Git!Listed : ~ Side(c)} \union {WholeAs(r) : r \in Git!RenamePairs}
  BY Zenon DEF Told, Git!Coalesce, WholeAs
<1>2. ASSUME NEW p, Tellable(p)
      PROVE  Side(ListedAs(p)) <=> Half(p)
  <2>1. ListedAs(p).path = p
    BY <1>2, ListedAsIs DEF IsListed
  <2>2. ASSUME Side(ListedAs(p)) PROVE Half(p)
    BY <2>1, <2>2, RenamePairsAre DEF Half
  <2>3. ASSUME Half(p) PROVE Side(ListedAs(p))
    <3>1. PICK r : Moves(r) /\ (p = r[1] \/ p = r[2])
      BY <2>3 DEF Half
    <3>2. ListedAs(r[1]).status = "deleted" /\ ListedAs(r[2]).status = "added"
      BY <3>1, WholeIs
    <3>3. r \in Git!RenamePairs
      BY <3>1, RenamePairsAre
    <3> QED
      BY <2>1, <3>1, <3>2, <3>3
  <2> QED
    BY <2>2, <2>3
<1> HIDE DEF Side
<1>3. \A c : c \in {d \in Git!Listed : ~ Side(d)}
               <=> \E p : Tellable(p) /\ ~ Half(p) /\ c = ListedAs(p)
  BY <1>2, ListedIs
<1>4. \A c : c \in {WholeAs(r) : r \in Git!RenamePairs} <=> \E r : Moves(r) /\ c = WholeAs(r)
  BY RenamePairsAre
<1> QED
  BY <1>1, <1>3, <1>4

(* A change that is told is of one path, or of the two of a rename.        *)
LEMMA ToldCases ==
  ASSUME InputHolds, NEW c \in Told
  PROVE  \/ ~ Half(c.path) /\ IsListed(c, c.path)
         \/ IsWhole(c, <<c.oldPath, c.path>>)
<1>1. CASE \E p : Tellable(p) /\ ~ Half(p) /\ c = ListedAs(p)
  <2>1. PICK p : Tellable(p) /\ ~ Half(p) /\ c = ListedAs(p)
    BY <1>1
  <2>2. IsListed(c, p)
    BY <2>1, ListedAsIs
  <2>3. c.path = p
    BY <2>2 DEF IsListed
  <2> QED
    BY <2>1, <2>2, <2>3
<1>2. CASE \E r : Moves(r) /\ c = WholeAs(r)
  <2>1. PICK r : Moves(r) /\ c = WholeAs(r)
    BY <1>2
  <2>2. IsWhole(c, r)
    BY <2>1, WholeAsIs
  <2>3. r = <<r[1], r[2]>> /\ c.oldPath = r[1] /\ c.path = r[2]
    BY <2>1, <2>2, WholeIs DEF IsWhole, IsPair
  <2> QED
    BY <2>2, <2>3
<1> QED
  BY <1>1, <1>2, ToldIs

(***************************************************************************)
(* The result.                                                             *)
(***************************************************************************)
Counts == {Git!StatPath(x) : x \in Git!SourceStats}
            \union {Git!ArtifactPath(x) : x \in Git!ArtifactStats}
Captured == Counts \union Git!SourceOmitted
Artifacts == Git!ArtifactFiles \union UNION {Git!OtherArtifact(p) : p \in Git!Others}
OtherSources == {p \in Git!Others : Git!OtherChange(p).language /\ ~ Git!Boundary(p)}
AllPaths == {Git!WithStats(c, Captured, Counts) : c \in Told}
              \union {Git!OtherChange(p) : p \in Git!Others}
AllFiles ==
  Git!MergeFiles(Git!SourceFiles \union {[path |-> p, whole |-> TRUE] : p \in OtherSources})
AllRecords ==
  Git!KeepRecords(
    Git!SourceRecords \union {Git!Record("untracked", p, Nothing) : p \in OtherSources}, AllFiles)
SourcesSeen == {<<"current", f.path, Nothing>> : f \in Git!SourceFiles}
                 \union {<<t.status, t.path, t.new>> : t \in Git!SourceRecords}
Torn ==
  \/ Git!Cardinality(Git!SourceStats \union Git!ArtifactStats) # Git!Cardinality(Counts)
  \/ SourcesSeen # UNION {Git!Expected(c) : c \in Told}
  \/ Captured # UNION {Git!StatKeys(c, Captured) : c \in Told}
  \/ \E f, g \in Artifacts : f.path = g.path /\ f # g
Skipped == Git!Cardinality(Git!ChangedIn(UnsafePaths))
             + Git!Cardinality(Git!OtherPaths \ Git!Others)

LEMMA ResultIs ==
  Git!MergeChanges =
    IF ~ Git!Coalesces(Git!Listed, Git!RenamePairs) THEN Git!Refused
    ELSE IF Torn THEN Git!Refused
    ELSE [refused |-> FALSE, files |-> AllFiles, records |-> AllRecords, paths |-> AllPaths,
          artifacts |-> Artifacts \union Git!Omissions(AllPaths, Artifacts), skipped |-> Skipped]
BY Zenon DEF Git!MergeChanges, Git!Merge, Counts, Captured, Artifacts, OtherSources, AllPaths,
   AllFiles, AllRecords, SourcesSeen, Torn, Skipped, Told

LEMMA MergedIs ==
  ASSUME result = Git!MergeChanges, ~ result.refused
  PROVE  /\ result.files = AllFiles /\ result.records = AllRecords /\ result.paths = AllPaths
         /\ result.artifacts = Artifacts \union Git!Omissions(AllPaths, Artifacts)
         /\ result.skipped = Skipped
<1>1. Git!Refused.refused
  BY DEF Git!Refused
<1>2. result = [refused |-> FALSE, files |-> AllFiles, records |-> AllRecords, paths |-> AllPaths,
          artifacts |-> Artifacts \union Git!Omissions(AllPaths, Artifacts), skipped |-> Skipped]
  BY <1>1, ResultIs
<1> QED
  BY <1>2

LEMMA WithCount ==
  ASSUME NEW a, NEW b, NEW l, NEW p, NEW m, NEW n, NEW v
  PROVE  [Git!Change(a, b, l, p, m, n) EXCEPT !.counted = v] = Git!Change(a, b, l, p, m, v)
BY DEF Git!Change

LEMMA ChangeIs ==
  ASSUME NEW a, NEW b, NEW l, NEW p, NEW m, NEW n, NEW c, c = Git!Change(a, b, l, p, m, n)
  PROVE  /\ c.status = a /\ c.oldPath = b /\ c.oldLanguage = l /\ c.path = p /\ c.language = m
         /\ c.counted = n
BY DEF Git!Change

(* Figures change nothing else of a change.                                *)
LEMMA StatsAre ==
  ASSUME InputHolds, NEW c \in Told, NEW captured, NEW counted,
         NEW d, d = Git!WithStats(c, captured, counted)
  PROVE  /\ d.status = c.status /\ d.oldPath = c.oldPath /\ d.oldLanguage = c.oldLanguage
         /\ d.path = c.path /\ d.language = c.language
         /\ d.counted <=> /\ Git!StatKeys(c, captured) # {}
                          /\ Git!StatKeys(c, captured) \subseteq counted
<1> DEFINE v == Git!StatKeys(c, captured) # {} /\ Git!StatKeys(c, captured) \subseteq counted
<1>1. d = [c EXCEPT !.counted = v]
  BY Zenon DEF Git!WithStats
<1>2. \E a, b, l, p, m, n : c = Git!Change(a, b, l, p, m, n)
  <2>1. CASE IsListed(c, c.path)
    BY <2>1 DEF IsListed
  <2>2. CASE IsWhole(c, <<c.oldPath, c.path>>)
    <3>1. c = Git!Change("renamed", <<c.oldPath, c.path>>[1], c.oldLanguage,
                         <<c.oldPath, c.path>>[2], c.language, FALSE)
      BY <2>2, Zenon DEF IsWhole
    <3> QED
      BY <3>1
  <2> QED
    BY <2>1, <2>2, ToldCases
<1>3. PICK a, b, l, p, m, n : c = Git!Change(a, b, l, p, m, n)
  BY <1>2
<1> HIDE DEF v
<1>4. d = Git!Change(a, b, l, p, m, v)
  BY <1>1, <1>3, WithCount
<1>5. /\ c.status = a /\ c.oldPath = b /\ c.oldLanguage = l /\ c.path = p /\ c.language = m
  BY <1>3, ChangeIs
<1>6. /\ d.status = a /\ d.oldPath = b /\ d.oldLanguage = l /\ d.path = p /\ d.language = m
      /\ d.counted = v
  BY <1>4, ChangeIs
<1> QED
  BY <1>5, <1>6 DEF v

(***************************************************************************)
(* Untracked files.                                                        *)
(***************************************************************************)
LEMMA OthersAre ==
  ASSUME InputHolds
  PROVE  \A p : /\ p \in Git!OtherPaths <=> p \in TreePaths /\ Held(input.other, p)
                /\ p \in Git!Others <=> p \in Git!OtherPaths /\ p \notin UnsafePaths
<1>1. \A p \in TreePaths : input.other[p] # NoEntry <=> Held(input.other, p)
  BY TreesAre, EntriesAre DEF Held
<1> QED
  BY <1>1 DEF Git!OtherPaths, Git!Others

LEMMA OtherChangeIs ==
  ASSUME NEW p, NEW c, c = Git!OtherChange(p)
  PROVE  /\ c.status = "untracked" /\ c.oldPath = Nothing /\ c.path = p
         /\ c.counted <=> Git!Readable(p)
         /\ c.language <=> /\ input.other[p].regular /\ p \in TreeSources
                           /\ (input.other[p].form # "binary" \/ Git!Boundary(p))
<1> DEFINE m == /\ input.other[p].regular /\ p \in TreeSources
                /\ (input.other[p].form # "binary" \/ Git!Boundary(p))
           n == Git!Readable(p)
<1>1. c = Git!Change("untracked", Nothing, FALSE, p, m, n)
  BY Zenon DEF Git!OtherChange
<1> HIDE DEF m, n
<1>2. c.status = "untracked" /\ c.oldPath = Nothing /\ c.path = p /\ c.language = m /\ c.counted = n
  BY <1>1 DEF Git!Change
<1> QED
  BY <1>2 DEF m, n

Fully(f) == f.diff /\ f.omission = Nothing

LEMMA OmissionsAre ==
  /\ Nothing # "binary" /\ Nothing # "non_regular" /\ Nothing # "oversized"
  /\ Nothing # "type_changed"
BY GitChangesAssumption DEF GitChangesAssumption

LEMMA OtherArtifactIs ==
  ASSUME InputHolds, NEW p \in Git!Others, NEW f \in Git!OtherArtifact(p)
  PROVE  /\ f.path = p /\ ~ Git!Boundary(p)
         /\ Fully(f) => /\ Git!Readable(p) /\ p \notin TreeSources
                        /\ f = Git!ArtifactFile(p, TRUE, TRUE, Nothing)
<1> DEFINE e == input.other[p]
<1>1. e.regular \in BOOLEAN /\ e.form \in {"text", "binary", "large"}
  BY OthersAre, EntriesAre DEF Held
<1> DEFINE is == Git!OtherArtifact(p)
<1>2. /\ Git!Boundary(p) => is = {}
      /\ ~ Git!Boundary(p) /\ ~ e.regular => is = {Git!ArtifactFile(p, FALSE, FALSE, "non_regular")}
      /\ ~ Git!Boundary(p) /\ e.regular /\ e.form = "large"
           => is = IF p \in TreeSources THEN {}
                   ELSE {Git!ArtifactFile(p, FALSE, FALSE, "oversized")}
      /\ ~ Git!Boundary(p) /\ e.regular /\ e.form = "binary"
           => is = {Git!ArtifactFile(p, FALSE, FALSE, "binary")}
      /\ ~ Git!Boundary(p) /\ e.regular /\ e.form = "text"
           => is = IF p \in TreeSources THEN {} ELSE {Git!ArtifactFile(p, TRUE, TRUE, Nothing)}
  BY <1>1 DEF Git!OtherArtifact, Git!Readable
<1> HIDE DEF is, e
<1>7. f \in is
  BY DEF is
<1>8. ~ Git!Boundary(p)
  BY <1>2, <1>7
<1>3. CASE ~ e.regular
  <2>1. f = Git!ArtifactFile(p, FALSE, FALSE, "non_regular")
    BY <1>2, <1>3, <1>7, <1>8
  <2> QED
    BY <1>8, <2>1, OmissionsAre DEF Fully, Git!ArtifactFile
<1>4. CASE e.regular /\ e.form = "large"
  <2>1. f = Git!ArtifactFile(p, FALSE, FALSE, "oversized")
    BY <1>2, <1>4, <1>7, <1>8
  <2> QED
    BY <1>8, <2>1, OmissionsAre DEF Fully, Git!ArtifactFile
<1>5. CASE e.regular /\ e.form = "binary"
  <2>1. f = Git!ArtifactFile(p, FALSE, FALSE, "binary")
    BY <1>2, <1>5, <1>7, <1>8
  <2> QED
    BY <1>8, <2>1, OmissionsAre DEF Fully, Git!ArtifactFile
<1>6. CASE e.regular /\ e.form = "text"
  <2>1. Git!Readable(p)
    BY <1>6, <1>8 DEF Git!Readable, e
  <2>2. p \notin TreeSources /\ f = Git!ArtifactFile(p, TRUE, TRUE, Nothing)
    BY <1>2, <1>6, <1>7, <1>8
  <2> QED
    BY <1>8, <2>1, <2>2 DEF Git!ArtifactFile
<1> QED
  BY <1>1, <1>3, <1>4, <1>5, <1>6

LEMMA OtherArtifactThere ==
  ASSUME InputHolds, NEW p \in Git!Others, ~ Git!Boundary(p), p \notin TreeSources
  PROVE  Git!OtherArtifact(p) # {}
<1> DEFINE e == input.other[p]
<1>1. e.regular \in BOOLEAN /\ e.form \in {"text", "binary", "large"}
  BY OthersAre, EntriesAre DEF Held
<1> QED
  BY <1>1 DEF Git!OtherArtifact, Git!Readable

(***************************************************************************)
(* Artifacts of the patch.                                                 *)
(***************************************************************************)
ArtifactIs(f, x) ==
  /\ x \in Git!ArtifactPatch /\ f = Git!ArtifactOf(x) /\ f.path = Git!ArtifactPath(x)
  /\ Named(x, f.path) /\ f.path \in ArtifactScope

LEMMA ArtifactOfPath ==
  ASSUME NEW x
  PROVE  Git!ArtifactOf(x).path = Git!ArtifactPath(x)
<1>1. CASE Git!ShowsBinary(x)
  BY <1>1 DEF Git!ArtifactOf, Git!ArtifactFile
<1>2. CASE ~ Git!ShowsBinary(x)
  <2>1. CASE \E e \in {x.from, x.to} \ {NoEntry} : ~ e.regular
    BY <1>2, <2>1 DEF Git!ArtifactOf, Git!ArtifactFile
  <2>2. CASE ~ \E e \in {x.from, x.to} \ {NoEntry} : ~ e.regular
    BY <1>2, <2>2 DEF Git!ArtifactOf, Git!ArtifactFile
  <2> QED
    BY <2>1, <2>2
<1> QED
  BY <1>1, <1>2

LEMMA ArtifactPathIs ==
  ASSUME NEW x, Git!ArtifactPath(x) # Nothing
  PROVE  Named(x, Git!ArtifactPath(x))
<1>1. CASE x.kind = "deleted"
  BY <1>1 DEF Git!ArtifactPath, Named
<1>2. CASE x.kind = "renamed"
  BY <1>2 DEF Git!ArtifactPath, Named
<1>3. CASE x.kind # "deleted" /\ x.kind # "renamed"
  BY <1>3 DEF Git!ArtifactPath, Named
<1> QED
  BY <1>1, <1>2, <1>3

LEMMA ArtifactFilesAre ==
  ASSUME InputHolds
  PROVE  /\ \A f \in Git!ArtifactFiles : \E x : ArtifactIs(f, x)
         /\ \A x \in Git!ArtifactPatch : Git!ArtifactPath(x) # Nothing
              => Git!ArtifactOf(x) \in Git!ArtifactFiles
<1>1. ASSUME NEW f \in Git!ArtifactFiles
      PROVE  \E x : ArtifactIs(f, x)
  <2>1. PICK x \in Git!ArtifactPatch : f = Git!ArtifactOf(x) /\ Git!ArtifactPath(x) # Nothing
    BY DEF Git!ArtifactFiles, Git!ArtifactRaws
  <2>2. f.path = Git!ArtifactPath(x) /\ Named(x, f.path)
    BY <2>1, ArtifactOfPath, ArtifactPathIs
  <2>3. f.path \in ArtifactScope
    BY <2>2, ScopesAre, NamedInPatch
  <2> QED
    BY <2>1, <2>2, <2>3 DEF ArtifactIs
<1>2. \A x \in Git!ArtifactPatch : Git!ArtifactPath(x) # Nothing
        => Git!ArtifactOf(x) \in Git!ArtifactFiles
  BY DEF Git!ArtifactFiles, Git!ArtifactRaws
<1> QED
  BY <1>1, <1>2

(* An artifact with a diff and without an omission has text on both sides. *)
LEMMA FullArtifact ==
  ASSUME NEW x, Fully(Git!ArtifactOf(x)), NEW e, e = x.from \/ e = x.to, e # NoEntry
  PROVE  e.regular /\ (x.from # x.to => e.form # "binary")
<1>1. CASE Git!ShowsBinary(x)
  <2>1. Git!ArtifactOf(x) = Git!ArtifactFile(Git!ArtifactPath(x), FALSE, FALSE, "binary")
    BY <1>1 DEF Git!ArtifactOf
  <2>2. Git!ArtifactOf(x).omission = "binary"
    BY <2>1 DEF Git!ArtifactFile
  <2> QED
    BY <2>2, OmissionsAre DEF Fully
<1>2. CASE ~ Git!ShowsBinary(x) /\ \E d \in {x.from, x.to} \ {NoEntry} : ~ d.regular
  <2>1. Git!ArtifactOf(x) = Git!ArtifactFile(Git!ArtifactPath(x), TRUE, FALSE, "non_regular")
    BY <1>2 DEF Git!ArtifactOf
  <2>2. Git!ArtifactOf(x).omission = "non_regular"
    BY <2>1 DEF Git!ArtifactFile
  <2> QED
    BY <2>2, OmissionsAre DEF Fully
<1>3. CASE ~ Git!ShowsBinary(x) /\ ~ \E d \in {x.from, x.to} \ {NoEntry} : ~ d.regular
  <2>1. e.regular
    BY <1>3
  <2>2. x.from # x.to => e.form # "binary"
    BY <1>3 DEF Git!ShowsBinary
  <2> QED
    BY <2>1, <2>2
<1> QED
  BY <1>1, <1>2, <1>3

(***************************************************************************)
(* A complete review has everything.                                       *)
(***************************************************************************)
LEMMA GitCardinality == \A S : Git!Cardinality(S) = Cardinality(S)
BY Zenon DEF Git!Cardinality, Cardinality

LEMMA NoneSkipped ==
  ASSUME InputHolds, Skipped = 0
  PROVE  /\ \A p : Changed(p) => Tellable(p)
         /\ \A p \in Git!OtherPaths : p \in Git!Others
<1> DEFINE A == Git!ChangedIn(UnsafePaths)
           B == Git!OtherPaths \ Git!Others
<1>1. A \subseteq TreePaths /\ B \subseteq TreePaths /\ IsFiniteSet(TreePaths)
  BY ScopesAre, OthersAre, GitChangesAssumption DEF Git!ChangedIn, GitChangesAssumption
<1>2. IsFiniteSet(A) /\ IsFiniteSet(B)
  BY <1>1, FS_Subset
<1>3. Cardinality(A) \in Nat /\ Cardinality(B) \in Nat
  BY <1>2, FS_CardinalityType
<1>4. Cardinality(A) + Cardinality(B) = 0
  BY GitCardinality, Zenon DEF Skipped
<1>5. Cardinality(A) = 0 /\ Cardinality(B) = 0
  BY <1>3, <1>4
<1>6. A = {} /\ B = {}
  BY <1>2, <1>5, FS_EmptySet
<1> QED
  BY <1>6 DEF Git!ChangedIn, Changed, Tellable

Shows(p) ==
  \/ Git!Shown(p, input.base[p]) /\ Git!Shown(p, input.now[p])
  \/ \E r \in input.renames : p \in {r[1], r[2]} /\ input.base[r[1]] = input.now[r[2]]

(* Everything that is told has its figures or its artifact.                *)
Accounted ==
  /\ \A p : Changed(p) => Tellable(p)
  /\ \A p \in Git!OtherPaths : p \in Git!Others
  /\ \A f \in Artifacts : Fully(f)
  /\ \A c \in Told : /\ c.language => Git!StatKeys(c, Captured) # {}
                     /\ ~ c.language => \E f \in Artifacts : f.path = c.path
  /\ \A p \in Git!Others : LET c == Git!OtherChange(p)
                           IN  /\ c.language => Git!Readable(p)
                               /\ ~ c.language => \E f \in Artifacts : f.path = p

LEMMA CompleteAccounts ==
  ASSUME InputHolds, result = Git!MergeChanges, ~ result.refused, Git!ContentComplete(result)
  PROVE  Accounted
<1>1. /\ result.paths = AllPaths /\ result.skipped = Skipped
      /\ result.artifacts = Artifacts \union Git!Omissions(AllPaths, Artifacts)
  BY MergedIs
<1>2. /\ Skipped = 0
      /\ \A f \in Artifacts \union Git!Omissions(AllPaths, Artifacts) : Fully(f)
      /\ \A c \in AllPaths :
           IF c.language THEN (c.status # "renamed" \/ c.oldLanguage) /\ c.counted
           ELSE \E f \in Artifacts \union Git!Omissions(AllPaths, Artifacts) : f.path = c.path
  BY <1>1 DEF Git!ContentComplete, Fully
<1>3. \A f \in Git!Omissions(AllPaths, Artifacts) : ~ Fully(f)
  BY DEF Git!Omissions, Git!ArtifactFile, Fully
<1>4. Git!Omissions(AllPaths, Artifacts) = {}
  BY <1>2, <1>3
<1>5. \A c \in AllPaths : /\ c.language => c.counted
                          /\ ~ c.language => \E f \in Artifacts : f.path = c.path
  BY <1>2, <1>4
<1>6. ASSUME NEW c \in Told
      PROVE  /\ c.language => Git!StatKeys(c, Captured) # {}
             /\ ~ c.language => \E f \in Artifacts : f.path = c.path
  <2> DEFINE d == Git!WithStats(c, Captured, Counts)
  <2>1. d \in AllPaths
    BY DEF AllPaths
  <2>2. d.path = c.path /\ d.language = c.language
        /\ (d.counted => Git!StatKeys(c, Captured) # {})
    BY StatsAre
  <2> HIDE DEF d
  <2> QED
    BY <1>5, <2>1, <2>2
<1>7. ASSUME NEW p \in Git!Others
      PROVE  LET c == Git!OtherChange(p)
             IN  /\ c.language => Git!Readable(p)
                 /\ ~ c.language => \E f \in Artifacts : f.path = p
  <2> DEFINE c == Git!OtherChange(p)
  <2>1. c \in AllPaths
    BY DEF AllPaths
  <2>2. c.path = p /\ (c.counted <=> Git!Readable(p))
    BY OtherChangeIs
  <2> HIDE DEF c
  <2>3. (c.language => Git!Readable(p)) /\ (~ c.language => \E f \in Artifacts : f.path = p)
    BY <1>5, <2>1, <2>2
  <2> QED
    BY <2>3 DEF c
<1>8. \A f \in Artifacts : Fully(f)
  BY <1>2
<1>9. /\ \A p : Changed(p) => Tellable(p)
      /\ \A p \in Git!OtherPaths : p \in Git!Others
  BY <1>2, NoneSkipped
<1> QED
  BY <1>6, <1>7, <1>8, <1>9, Zenon DEF Accounted

(* Where an artifact comes from.                                           *)
LEMMA ArtifactsAre ==
  ASSUME InputHolds, NEW f \in Artifacts, Fully(f)
  PROVE  \/ \E x : ArtifactIs(f, x)
         \/ /\ f.path \in Git!Others /\ Git!Readable(f.path)
            /\ f.path \notin TreeSources /\ ~ Git!Boundary(f.path)
<1>1. CASE f \in Git!ArtifactFiles
  BY <1>1, ArtifactFilesAre
<1>2. CASE f \notin Git!ArtifactFiles
  <2>1. PICK p \in Git!Others : f \in Git!OtherArtifact(p)
    BY <1>2 DEF Artifacts
  <2>2. f.path = p /\ ~ Git!Boundary(p) /\ Git!Readable(p) /\ p \notin TreeSources
    BY <2>1, OtherArtifactIs
  <2> QED
    BY <2>1, <2>2
<1> QED
  BY <1>1, <1>2

(* A changed path that is in no rename is told of.                         *)
LEMMA AloneTold ==
  ASSUME InputHolds, NEW p, Tellable(p), ~ Half(p)
  PROVE  ListedAs(p) \in Told /\ IsListed(ListedAs(p), p)
BY ToldIs, ListedAsIs

LEMMA HalfIs ==
  ASSUME InputHolds, NEW p, Half(p)
  PROVE  /\ p \in SourceScope => EndIn(Within(SourceScope), p)
         /\ p \in ArtifactScope => EndIn(Within(ArtifactScope), p)
         /\ ~ Git!Boundary(p) /\ (p \in SourceScope \/ p \in ArtifactScope)
         /\ (input.base[p] = NoEntry \/ input.now[p] = NoEntry)
<1>1. PICK r : Moves(r) /\ (p = r[1] \/ p = r[2])
  BY DEF Half
<1>2. r \in Within(SourceScope) \/ r \in Within(ArtifactScope)
  BY <1>1 DEF Moves
<1>3. IsPair(r)
  BY <1>1, WholeIs
<1>4. \A q : q \in SourceScope \/ q \in ArtifactScope => ~ Git!Boundary(q)
  BY DEF SourceScope, ArtifactScope
<1> QED
  BY <1>1, <1>2, <1>3, <1>4, ScopesAre DEF Within, EndIn, IsPair

LEMMA CompleteUnbound ==
  ASSUME InputHolds, Accounted, NEW p, Changed(p)
  PROVE  p \notin UnsafePaths /\ ~ Git!Boundary(p)
<1>1. Tellable(p) /\ p \notin UnsafePaths
  BY DEF Accounted, Tellable
<1>2. CASE Half(p)
  BY <1>1, <1>2, HalfIs
<1>3. CASE ~ Half(p)
  <2> DEFINE c == ListedAs(p)
  <2>1. c \in Told /\ IsListed(c, p)
    BY <1>1, <1>3, AloneTold
  <2>2. c.path = p /\ c.oldPath = Nothing
    BY <2>1 DEF IsListed
  <2> HIDE DEF c
  <2>3. CASE c.language
    <3>1. Git!StatKeys(c, Captured) # {}
      BY <2>1, <2>3 DEF Accounted
    <3>2. ~ Git!Excluded(c)
      BY <3>1 DEF Git!StatKeys
    <3> QED
      BY <1>1, <2>2, <3>2 DEF Git!Excluded
  <2>4. CASE ~ c.language
    <3>1. PICK f \in Artifacts : f.path = p
      BY <2>1, <2>2, <2>4 DEF Accounted
    <3>2. Fully(f)
      BY DEF Accounted
    <3>3. f.path \in ArtifactScope \/ ~ Git!Boundary(f.path)
      BY <3>2, ArtifactsAre DEF ArtifactIs
    <3> QED
      BY <1>1, <3>1, <3>3 DEF ArtifactScope
  <2> QED
    BY <2>3, <2>4
<1> QED
  BY <1>2, <1>3

(* A change of type is always an omission.                                 *)
LEMMA CompleteTyped ==
  ASSUME InputHolds, Accounted, NEW p, Changed(p)
  PROVE  Git!Plain(p).kind # "type"
<1>1. SUFFICES ASSUME Git!Plain(p).kind = "type" PROVE FALSE
  OBVIOUS
<1>2. Tellable(p) /\ p \in TreePaths
  BY DEF Accounted, Changed
<1>3. Held(input.base, p) /\ Held(input.now, p)
  BY <1>1, PlainIs DEF IsPlain
<1>4. input.base[p] # NoEntry /\ input.now[p] # NoEntry
  BY <1>3, EntriesAre DEF Held
<1>5. ~ Half(p)
  BY <1>4, HalfIs
<1> DEFINE c == ListedAs(p)
<1>6. c \in Told /\ IsListed(c, p)
  BY <1>2, <1>5, AloneTold
<1>7. c.path = p /\ ~ c.language
  BY <1>1, <1>6 DEF IsListed
<1>8. PICK f \in Artifacts : f.path = p
  BY <1>6, <1>7 DEF Accounted
<1>9. Fully(f)
  BY DEF Accounted
<1>10. CASE \E x : ArtifactIs(f, x)
  <2>1. PICK x : ArtifactIs(f, x)
    BY <1>10
  <2>2. x \in Git!Patch(ArtifactScope) /\ Named(x, p)
    BY <1>8, <2>1, ScopesAre DEF ArtifactIs
  <2>3. CASE \E r \in Within(ArtifactScope) : x = RenameOf(r) /\ (p = r[1] \/ p = r[2])
    <3>1. PICK r \in input.renames : p = r[1] \/ p = r[2]
      BY <2>3 DEF Within
    <3>2. IsPair(r)
      BY PairIs
    <3> QED
      BY <1>4, <3>1, <3>2 DEF IsPair
  <2>4. CASE x = Git!Plain(p) /\ x.kind # "type"
    BY <1>1, <2>4
  <2> QED
    BY <2>2, <2>3, <2>4, ScopesAre, NamedInPatch
<1>11. CASE f.path \in Git!Others
  <2>1. Held(input.other, p)
    BY <1>8, <1>11, OthersAre
  <2> QED
    BY <1>2, <1>3, <2>1 DEF InputHolds
<1> QED
  BY <1>9, <1>10, <1>11, ArtifactsAre

(* Of a record of the artifacts.                                           *)
LEMMA CompleteArtifact ==
  ASSUME InputHolds, Accounted, NEW x \in Git!ArtifactPatch, Git!ArtifactPath(x) # Nothing,
         NEW e, e = x.from \/ e = x.to, e # NoEntry
  PROVE  e.regular /\ (x.from # x.to => e.form # "binary")
<1>1. Fully(Git!ArtifactOf(x))
  BY ArtifactFilesAre DEF Accounted, Artifacts
<1> QED
  BY <1>1, FullArtifact

LEMMA ShowsIs ==
  ASSUME NEW p, NEW e
  PROVE  /\ e = NoEntry => Git!Shown(p, e)
         /\ e.regular /\ (p \in TreeSources \/ e.form # "binary") => Git!Shown(p, e)
BY DEF Git!Shown

LEMMA CompleteSource ==
  ASSUME InputHolds, Accounted, NEW p \in TreeSources, Changed(p)
  PROVE  Shows(p)
<1>1. Tellable(p) /\ p \in SourceScope /\ p \notin ArtifactScope
  BY CompleteUnbound DEF Tellable, SourceScope, ArtifactScope
<1>2. CASE EndIn(Within(SourceScope), p)
  <2>1. PICK r \in input.renames : p = r[1] \/ p = r[2]
    BY <1>2 DEF EndIn, Within
  <2>2. IsPair(r)
    BY PairIs
  <2>3. CASE input.base[r[1]] = input.now[r[2]]
    BY <2>1, <2>3 DEF Shows
  <2>4. CASE input.base[r[1]] # input.now[r[2]]
    <3>1. input.base[r[1]].regular /\ input.now[r[2]].regular
      BY <2>2, <2>4 DEF IsPair
    <3>2. input.now[r[1]] = NoEntry /\ input.base[r[2]] = NoEntry
      BY <2>2 DEF IsPair
    <3>3. Git!Shown(p, input.base[p]) /\ Git!Shown(p, input.now[p])
      BY <2>1, <3>1, <3>2, ShowsIs
    <3> QED
      BY <3>3 DEF Shows
  <2> QED
    BY <2>3, <2>4
<1>3. CASE ~ EndIn(Within(SourceScope), p)
  <2> DEFINE c == ListedAs(p)
  <2>1. ~ Half(p)
    BY <1>1, <1>3, HalfIs
  <2>2. c \in Told /\ IsListed(c, p) /\ IsPlain(Git!Plain(p), p)
    BY <1>1, <2>1, AloneTold, PlainIs
  <2>3. c.path = p /\ c.status = Git!Plain(p).kind
    BY <2>2 DEF IsListed
  <2>4. c.language
    <3>1. SUFFICES ASSUME ~ c.language PROVE FALSE
      OBVIOUS
    <3>2. PICK f \in Artifacts : f.path = p
      BY <2>2, <2>3, <3>1 DEF Accounted
    <3>3. Fully(f)
      BY DEF Accounted
    <3> QED
      BY <1>1, <3>2, <3>3, ArtifactsAre DEF ArtifactIs
  <2>5. \/ c.status = "deleted" /\ Source(input.base, p)
        \/ c.status \in {"added", "modified"} /\ Source(input.now, p)
    BY <2>2, <2>4 DEF IsListed
  <2>6. /\ input.base[p] = NoEntry \/ input.base[p].regular
        /\ input.now[p] = NoEntry \/ input.now[p].regular
    <3> HIDE DEF c
    <3> QED
      BY <2>2, <2>3, <2>5 DEF IsPlain, Source
  <2>7. Git!Shown(p, input.base[p]) /\ Git!Shown(p, input.now[p])
    BY <2>6, ShowsIs
  <2> QED
    BY <2>7 DEF Shows
<1> QED
  BY <1>2, <1>3

LEMMA CompleteOther ==
  ASSUME InputHolds, Accounted, NEW p, p \notin TreeSources, Changed(p)
  PROVE  Shows(p)
<1>1. Tellable(p) /\ p \in ArtifactScope /\ p \in TreePaths
  BY CompleteUnbound DEF Tellable, ArtifactScope, Changed
<1>2. CASE EndIn(Within(ArtifactScope), p)
  <2>1. PICK r \in Within(ArtifactScope) : p = r[1] \/ p = r[2]
    BY <1>2 DEF EndIn
  <2>2. r \in input.renames
    BY DEF Within
  <2> DEFINE x == RenameOf(r)
  <2>3. IsPair(r) /\ IsRename(x, r) /\ Tellable(r[1]) /\ Tellable(r[2])
    BY <2>2, PairIs, RenameIs DEF Accounted
  <2>4. x \in Git!ArtifactPatch
    BY ScopesAre, PatchIs
  <2>5. x.kind = "renamed" /\ x.old = r[1] /\ x.new = r[2] /\ x.old # Nothing /\ x.new # Nothing
    <3>1. /\ r[1] \in TreePaths /\ r[2] \in TreePaths
          /\ r[1] \notin UnsafePaths /\ r[2] \notin UnsafePaths
      BY <2>3 DEF IsPair, Tellable
    <3> QED
      BY <2>3, <3>1, PathsAre DEF IsRename
  <2>6. x.from = input.base[r[1]] /\ x.to = input.now[r[2]]
    BY <2>3 DEF IsRename
  <2> HIDE DEF x
  <2>7. Git!ArtifactPath(x) # Nothing
    BY <2>5 DEF Git!ArtifactPath
  <2>8. CASE x.from = x.to
    BY <2>1, <2>2, <2>6, <2>8 DEF Shows
  <2>9. CASE x.from # x.to
    <3>1. input.base[r[1]] # NoEntry /\ input.now[r[2]] # NoEntry
      BY <2>3, EntriesAre DEF IsPair, Held
    <3>2. /\ input.base[r[1]].regular /\ input.base[r[1]].form # "binary"
          /\ input.now[r[2]].regular /\ input.now[r[2]].form # "binary"
      BY <2>4, <2>6, <2>7, <2>9, <3>1, CompleteArtifact
    <3>3. input.now[r[1]] = NoEntry /\ input.base[r[2]] = NoEntry
      BY <2>3 DEF IsPair
    <3>4. Git!Shown(p, input.base[p]) /\ Git!Shown(p, input.now[p])
      BY <2>1, <3>2, <3>3, ShowsIs
    <3> QED
      BY <3>4 DEF Shows
  <2> QED
    BY <2>8, <2>9
<1>3. CASE ~ EndIn(Within(ArtifactScope), p)
  <2> DEFINE x == Git!Plain(p)
  <2>1. x \in Git!ArtifactPatch /\ IsPlain(x, p)
    BY <1>1, <1>3, CompleteTyped, ScopesAre, PatchIs, PlainIs
  <2>2. x.from = input.base[p] /\ x.to = input.now[p] /\ x.from # x.to
    BY <2>1 DEF IsPlain, Changed
  <2>3. Git!Safe(p) = p /\ p # Nothing
    BY <1>1, PathsAre DEF Tellable
  <2> HIDE DEF x
  <2>4. Git!ArtifactPath(x) # Nothing
    BY <2>1, <2>3 DEF IsPlain, Git!ArtifactPath
  <2>5. \A e : (e = x.from \/ e = x.to) /\ e # NoEntry => e.regular /\ e.form # "binary"
    BY <2>1, <2>2, <2>4, CompleteArtifact
  <2>6. Git!Shown(p, input.base[p]) /\ Git!Shown(p, input.now[p])
    BY <2>2, <2>5, ShowsIs
  <2> QED
    BY <2>6 DEF Shows
<1> QED
  BY <1>2, <1>3

LEMMA CompleteUntracked ==
  ASSUME InputHolds, Accounted, NEW p \in Git!OtherPaths
  PROVE  p \notin UnsafePaths /\ Git!Readable(p)
<1>1. p \in Git!Others /\ p \notin UnsafePaths
  BY OthersAre DEF Accounted
<1>2. SUFFICES ASSUME ~ Git!Readable(p) PROVE FALSE
  BY <1>1
<1> DEFINE c == Git!OtherChange(p)
<1>3. ~ c.language /\ \E f \in Artifacts : f.path = p
  BY <1>1, <1>2 DEF Accounted
<1>4. PICK f \in Artifacts : f.path = p
  BY <1>3
<1>5. Fully(f)
  BY DEF Accounted
<1>6. p \in ArtifactScope
  BY <1>2, <1>4, <1>5, ArtifactsAre DEF ArtifactIs
<1>7. ~ Git!Boundary(p) /\ p \notin TreeSources
  BY <1>6 DEF ArtifactScope
<1>8. PICK g \in Git!OtherArtifact(p) : TRUE
  BY <1>1, <1>7, OtherArtifactThere
<1>9. g \in Artifacts
  BY <1>1, <1>8 DEF Artifacts
<1>10. Fully(g)
  BY <1>9 DEF Accounted
<1> QED
  BY <1>1, <1>2, <1>10, OtherArtifactIs

LEMMA CompleteHolds ==
  ASSUME InputHolds, result = Git!MergeChanges
  PROVE  Git!CompleteMeansComplete
<1>1. SUFFICES ASSUME ~ result.refused, Git!ContentComplete(result)
               PROVE  /\ \A p \in Git!ChangedIn(TreePaths) :
                           p \notin UnsafePaths /\ ~ Git!Boundary(p) /\ Shows(p)
                      /\ \A p \in Git!OtherPaths : p \notin UnsafePaths /\ Git!Readable(p)
  BY DEF Git!CompleteMeansComplete, Git!Merged, Shows
<1>2. Accounted
  BY <1>1, CompleteAccounts
<1>3. \A p \in Git!ChangedIn(TreePaths) : Changed(p)
  BY DEF Git!ChangedIn, Changed
<1>4. \A p : Changed(p) => p \notin UnsafePaths /\ ~ Git!Boundary(p) /\ Shows(p)
  BY <1>2, CompleteUnbound, CompleteSource, CompleteOther
<1>5. \A p \in Git!OtherPaths : p \notin UnsafePaths /\ Git!Readable(p)
  BY <1>2, CompleteUntracked
<1> QED
  BY <1>3, <1>4, <1>5

(***************************************************************************)
(* Every change is told.                                                   *)
(***************************************************************************)
Side(c, p) == p # Nothing /\ (p = c.path \/ p = c.oldPath)

LEMMA EndsAre ==
  ASSUME InputHolds, NEW c \in Told, NEW p, Side(c, p)
  PROVE  /\ Tellable(p)
         /\ \/ ~ Half(p) /\ c = ListedAs(p)
            \/ \E r : Moves(r) /\ (p = r[1] \/ p = r[2]) /\ c = WholeAs(r)
<1>1. CASE \E q : Tellable(q) /\ ~ Half(q) /\ c = ListedAs(q)
  <2>1. PICK q : Tellable(q) /\ ~ Half(q) /\ c = ListedAs(q)
    BY <1>1
  <2>2. IsListed(c, q)
    BY <2>1, ListedAsIs
  <2>3. p = q
    BY <2>2 DEF IsListed, Side
  <2> QED
    BY <2>1, <2>3
<1>2. CASE \E r : Moves(r) /\ c = WholeAs(r)
  <2>1. PICK r : Moves(r) /\ c = WholeAs(r)
    BY <1>2
  <2>2. IsWhole(c, r) /\ Tellable(r[1]) /\ Tellable(r[2])
    BY <2>1, WholeAsIs, WholeIs
  <2>3. p = r[1] \/ p = r[2]
    BY <2>2 DEF IsWhole, Side
  <2> QED
    BY <2>1, <2>2, <2>3
<1> QED
  BY <1>1, <1>2, ToldIs

LEMMA OneTells ==
  ASSUME InputHolds, NEW p, Tellable(p)
  PROVE  \E b \in Told : Side(b, p) /\ \A c \in Told : Side(c, p) => c = b
<1>1. p # Nothing
  BY PathsAre DEF Tellable, Changed
<1>2. CASE ~ Half(p)
  <2>1. ListedAs(p) \in Told /\ IsListed(ListedAs(p), p)
    BY <1>2, AloneTold
  <2>2. Side(ListedAs(p), p)
    BY <1>1, <2>1 DEF IsListed, Side
  <2>3. \A c \in Told : Side(c, p) => c = ListedAs(p)
    BY <1>2, EndsAre DEF Half
  <2> QED
    BY <2>1, <2>2, <2>3
<1>3. CASE Half(p)
  <2>1. PICK r : Moves(r) /\ (p = r[1] \/ p = r[2])
    BY <1>3 DEF Half
  <2>2. WholeAs(r) \in Told /\ IsWhole(WholeAs(r), r)
    BY <2>1, ToldIs, WholeAsIs
  <2>3. Side(WholeAs(r), p)
    BY <1>1, <2>1, <2>2 DEF IsWhole, Side
  <2>4. ASSUME NEW s, Moves(s), p = s[1] \/ p = s[2] PROVE s = r
    <3>1. r \in input.renames /\ s \in input.renames
      BY <2>1, <2>4 DEF Moves
    <3>2. r[1] # s[2] /\ s[1] # r[2] /\ (r[1] = s[1] => r = s) /\ (r[2] = s[2] => r = s)
      BY <3>1, PairsApart
    <3> QED
      BY <2>1, <2>4, <3>2
  <2>5. \A c \in Told : Side(c, p) => c = WholeAs(r)
    BY <1>3, <2>4, EndsAre
  <2> QED
    BY <2>2, <2>3, <2>5
<1> QED
  BY <1>2, <1>3

Telling(p) == {c \in AllPaths : c.status # "untracked" /\ p \in Git!EndsOf(c)}

LEMMA TellingIs ==
  ASSUME InputHolds, NEW p \in TreePaths \ UnsafePaths
  PROVE  Cardinality(Telling(p)) = IF input.base[p] # input.now[p] THEN 1 ELSE 0
<1>1. p # Nothing
  BY PathsAre
<1>2. ASSUME NEW c
      PROVE  c \in Telling(p)
               <=> \E b \in Told : Side(b, p) /\ c = Git!WithStats(b, Captured, Counts)
  <2>1. ASSUME NEW b \in Told, NEW d, d = Git!WithStats(b, Captured, Counts)
        PROVE  d.status # "untracked" /\ (p \in Git!EndsOf(d) <=> Side(b, p))
    <3>1. d.status = b.status /\ d.path = b.path /\ d.oldPath = b.oldPath
      BY <2>1, StatsAre
    <3>2. b.status # "untracked"
      <4>1. IsListed(b, b.path) => b.status # "untracked"
        BY DEF IsListed
      <4>2. IsWhole(b, <<b.oldPath, b.path>>) => b.status # "untracked"
        BY DEF IsWhole
      <4> QED
        BY <4>1, <4>2, ToldCases
    <3> QED
      BY <1>1, <3>1, <3>2 DEF Git!EndsOf, Side
  <2>2. \A q : Git!OtherChange(q).status = "untracked"
    BY OtherChangeIs
  <2> QED
    BY <2>1, <2>2 DEF Telling, AllPaths
<1>3. CASE Changed(p)
  <2>1. PICK b \in Told : Side(b, p) /\ \A c \in Told : Side(c, p) => c = b
    BY <1>3, OneTells DEF Tellable
  <2>2. Telling(p) = {Git!WithStats(b, Captured, Counts)}
    <3> DEFINE t == Git!WithStats(b, Captured, Counts)
    <3>1. \A c : c \in Telling(p) <=> c = t
      BY <1>2, <2>1
    <3> HIDE DEF t
    <3> QED
      BY <3>1 DEF t
  <2>3. Cardinality(Telling(p)) = 1
    BY <2>2, FS_Singleton
  <2> QED
    BY <1>3, <2>3 DEF Changed
<1>4. CASE ~ Changed(p)
  <2>1. \A b \in Told : ~ Side(b, p)
    BY <1>4, EndsAre DEF Tellable
  <2>2. Telling(p) = {}
    BY <1>2, <2>1
  <2>3. Cardinality(Telling(p)) = 0
    BY <2>2, FS_EmptySet
  <2> QED
    BY <1>4, <2>3 DEF Changed
<1> QED
  BY <1>3, <1>4

(* The files that are read.                                                *)
NewSources(p) ==
  /\ p \in SourceScope /\ Changed(p) /\ Source(input.now, p)
  /\ (input.base[p] = NoEntry \/ input.base[p].regular)

LEMMA NewSourceIs ==
  ASSUME InputHolds, NEW p, Tellable(p), p \in TreeSources,
         NEW x, x.to = input.now[p], x.new = p
  PROVE  Git!NewSource(x) <=> Source(input.now, p)
<1>1. p \in TreePaths /\ Git!Safe(p) = p /\ p \notin UnsafePaths
  BY PathsAre DEF Tellable, Changed
<1>2. Git!Language(p)
  BY <1>1, LanguageIs
<1>3. Git!Regular(x.to) <=> Held(input.now, p) /\ input.now[p].regular
  BY <1>1, TreesAre, RegularIs
<1> QED
  BY <1>2, <1>3 DEF Git!NewSource, Source

LEMMA OldSourceIs ==
  ASSUME InputHolds, NEW p, Tellable(p), p \in TreeSources,
         NEW x, x.from = input.base[p], x.old = p
  PROVE  Git!OldSource(x) <=> Source(input.base, p)
<1>1. p \in TreePaths /\ Git!Safe(p) = p /\ p \notin UnsafePaths
  BY PathsAre DEF Tellable, Changed
<1>2. Git!Language(p)
  BY <1>1, LanguageIs
<1>3. Git!Regular(x.from) <=> Held(input.base, p) /\ input.base[p].regular
  BY <1>1, TreesAre, RegularIs
<1> QED
  BY <1>2, <1>3 DEF Git!OldSource, Source

LEMMA SourceFilesAre ==
  ASSUME NEW p
  PROVE  (\E f \in Git!SourceFiles : f.path = p)
           <=> \E x \in Git!SourcePatch : x.kind # "deleted" /\ Git!NewSource(x) /\ x.new = p
<1>1. ASSUME NEW f \in Git!SourceFiles, f.path = p
      PROVE  \E x \in Git!SourcePatch : x.kind # "deleted" /\ Git!NewSource(x) /\ x.new = p
  <2>1. PICK x \in Git!SourcePatch : f \in Git!FileOf(x)
    BY DEF Git!SourceFiles
  <2>2. x.kind # "deleted" /\ Git!NewSource(x) /\ f.path = x.new
    BY <2>1 DEF Git!FileOf
  <2> QED
    BY <1>1, <2>2
<1>2. ASSUME NEW x \in Git!SourcePatch, x.kind # "deleted", Git!NewSource(x), x.new = p
      PROVE  \E f \in Git!SourceFiles : f.path = p
  <2> DEFINE w == x.kind # "modified"
             f == [path |-> x.new, whole |-> w]
  <2>1. Git!FileOf(x) = {f}
    BY <1>2, Zenon DEF Git!FileOf
  <2> HIDE DEF w
  <2>2. f.path = p
    BY <1>2
  <2> HIDE DEF f
  <2>3. f \in Git!SourceFiles
    BY <2>1 DEF Git!SourceFiles
  <2> QED
    BY <2>2, <2>3
<1> QED
  BY <1>1, <1>2

LEMMA FilesAre ==
  ASSUME InputHolds, NEW p \in TreePaths \ UnsafePaths
  PROVE  (\E f \in Git!SourceFiles : f.path = p) <=> NewSources(p)
<1>1. ASSUME NEW x \in Git!SourcePatch, x.kind # "deleted", Git!NewSource(x), x.new = p
      PROVE  NewSources(p)
  <2>1. p # Nothing /\ Named(x, p)
    BY <1>1, PathsAre DEF Named
  <2>2. p \in SourceScope
    BY <2>1, ScopesAre, NamedInPatch
  <2>3. CASE \E r \in Within(SourceScope) : x = RenameOf(r) /\ (p = r[1] \/ p = r[2])
    <3>1. PICK r \in Within(SourceScope) : x = RenameOf(r)
      BY <2>3
    <3>2. r \in input.renames
      BY DEF Within
    <3>3. IsRename(x, r) /\ IsPair(r) /\ Changed(r[2])
      BY <3>1, <3>2, RenameIs, PairIs
    <3>4. r[2] = p
      BY <1>1, <2>1, <3>3, PathsAre DEF IsRename, IsPair
    <3>5. input.base[p] = NoEntry /\ x.to = input.now[p]
      BY <3>3, <3>4 DEF IsRename, IsPair
    <3>6. Source(input.now, p)
      BY <1>1, <2>2, <3>3, <3>4, <3>5, ScopesAre, NewSourceIs DEF Tellable
    <3> QED
      BY <2>2, <3>3, <3>4, <3>5, <3>6 DEF NewSources
  <2>4. CASE Changed(p) /\ x = Git!Plain(p) /\ x.kind # "type"
    <3>1. IsPlain(x, p)
      BY <2>4, PlainIs
    <3>2. x.to = input.now[p] /\ (x.kind = "added" \/ x.kind = "modified")
      BY <1>1, <2>4, <3>1 DEF IsPlain
    <3>3. Source(input.now, p)
      BY <1>1, <2>2, <2>4, <3>2, ScopesAre, NewSourceIs DEF Tellable
    <3>4. input.base[p] = NoEntry \/ input.base[p].regular
      BY <3>1, <3>2, <3>3 DEF IsPlain, Source
    <3> QED
      BY <2>2, <2>4, <3>3, <3>4 DEF NewSources
  <2> QED
    BY <2>1, <2>3, <2>4, ScopesAre, NamedInPatch
<1>2. ASSUME NewSources(p)
      PROVE  \E x \in Git!SourcePatch : x.kind # "deleted" /\ Git!NewSource(x) /\ x.new = p
  <2>1. /\ p \in SourceScope /\ Changed(p) /\ Source(input.now, p) /\ Tellable(p)
        /\ p \in TreeSources /\ (input.base[p] = NoEntry \/ input.base[p].regular)
        /\ Git!Safe(p) = p
    BY <1>2, ScopesAre, PathsAre DEF NewSources, Tellable
  <2>2. input.now[p] # NoEntry /\ input.now[p].regular
    BY <2>1, EntriesAre DEF Source, Held
  <2>3. CASE EndIn(Within(SourceScope), p)
    <3>1. PICK r \in Within(SourceScope) : p = r[1] \/ p = r[2]
      BY <2>3 DEF EndIn
    <3>2. r \in input.renames
      BY DEF Within
    <3> DEFINE x == RenameOf(r)
    <3>3. IsRename(x, r) /\ IsPair(r) /\ x \in Git!SourcePatch
      BY <3>2, RenameIs, PairIs, PatchIs, ScopesAre
    <3>4. p = r[2]
      BY <2>2, <3>1, <3>3 DEF IsPair
    <3>5. x.to = input.now[p] /\ x.new = p /\ x.kind = "renamed"
      BY <2>1, <3>3, <3>4 DEF IsRename
    <3> HIDE DEF x
    <3>6. Git!NewSource(x)
      BY <2>1, <3>5, NewSourceIs
    <3> QED
      BY <3>3, <3>5, <3>6
  <2>4. CASE ~ EndIn(Within(SourceScope), p)
    <3> DEFINE x == Git!Plain(p)
    <3>1. IsPlain(x, p)
      BY <2>1, PlainIs
    <3>2. x.to = input.now[p] /\ x.new = p /\ x.kind # "deleted" /\ x.kind # "type"
      <4> HIDE DEF x
      <4> QED
        BY <2>1, <2>2, <3>1, EntriesAre DEF IsPlain, Held
    <3>3. x \in Git!SourcePatch
      BY <2>1, <2>4, <3>2, PatchIs, ScopesAre
    <3> HIDE DEF x
    <3>4. Git!NewSource(x)
      BY <2>1, <3>2, NewSourceIs
    <3> QED
      BY <3>2, <3>3, <3>4
  <2> QED
    BY <2>3, <2>4
<1> QED
  BY <1>1, <1>2, SourceFilesAre

LEMMA OtherSourcesAre ==
  ASSUME InputHolds, NEW p \in TreePaths \ UnsafePaths
  PROVE  p \in OtherSources
           <=> /\ p \in TreeSources /\ ~ Git!Boundary(p) /\ Git!Regular(input.other[p])
               /\ input.other[p].form # "binary"
<1>1. Git!Regular(input.other[p]) <=> Held(input.other, p) /\ input.other[p].regular
  BY TreesAre, RegularIs
<1>2. p \in Git!Others <=> Held(input.other, p)
  BY OthersAre
<1>3. Git!OtherChange(p).language <=> /\ input.other[p].regular /\ p \in TreeSources
                                      /\ (input.other[p].form # "binary" \/ Git!Boundary(p))
  BY OtherChangeIs
<1> QED
  BY <1>1, <1>2, <1>3 DEF OtherSources

LEMMA AllFilesAre ==
  ASSUME InputHolds, NEW p \in TreePaths \ UnsafePaths
  PROVE  (\E f \in AllFiles : f.path = p) <=> NewSources(p) \/ p \in OtherSources
<1> DEFINE X == Git!SourceFiles \union {[path |-> q, whole |-> TRUE] : q \in OtherSources}
<1>1. (\E f \in X : f.path = p)
        <=> (\E f \in Git!SourceFiles : f.path = p) \/ p \in OtherSources
  <2>1. \A q : [path |-> q, whole |-> TRUE].path = q
    OBVIOUS
  <2> QED
    BY <2>1
<1>2. AllFiles = Git!MergeFiles(X)
  BY Zenon DEF AllFiles
<1> HIDE DEF X
<1>3. (\E f \in Git!MergeFiles(X) : f.path = p) <=> \E f \in X : f.path = p
  <2>1. ASSUME NEW f \in X, f.path = p
        PROVE  \E g \in Git!MergeFiles(X) : g.path = p
    <3>1. CASE f \in Git!MergeFiles(X)
      BY <2>1, <3>1
    <3>2. CASE f \notin Git!MergeFiles(X)
      <4>1. PICK g \in X : g.path = f.path /\ g.whole
        BY <3>2 DEF Git!MergeFiles
      <4>2. g \in Git!MergeFiles(X)
        BY <4>1 DEF Git!MergeFiles
      <4> QED
        BY <2>1, <4>1, <4>2
    <3> QED
      BY <3>1, <3>2
  <2>2. Git!MergeFiles(X) \subseteq X
    BY DEF Git!MergeFiles
  <2> QED
    BY <2>1, <2>2
<1> QED
  BY <1>1, <1>2, <1>3, FilesAre

Went(t, p) == t.path = p /\ t.status \in {"deleted", "renamed"}

LEMMA RecordOfIs ==
  ASSUME NEW x, NEW t \in Git!RecordOf(x)
  PROVE  /\ t.path = x.old /\ Git!OldSource(x)
         /\ \/ x.kind = "renamed" /\ Git!NewSource(x) /\ t = Git!Record("renamed", x.old, x.new)
            \/ /\ x.kind = "deleted" \/ (x.kind = "renamed" /\ ~ Git!NewSource(x))
               /\ t = Git!Record("deleted", x.old, Nothing)
BY DEF Git!RecordOf, Git!Record

LEMMA RecordOfThere ==
  ASSUME NEW x, x.kind = "deleted" \/ x.kind = "renamed", Git!OldSource(x)
  PROVE  \E t \in Git!RecordOf(x) : Went(t, x.old)
<1>1. CASE x.kind = "renamed" /\ Git!NewSource(x)
  <2>1. Git!Record("renamed", x.old, x.new) \in Git!RecordOf(x)
    BY <1>1 DEF Git!RecordOf
  <2> QED
    BY <2>1 DEF Went, Git!Record
<1>2. CASE ~ (x.kind = "renamed" /\ Git!NewSource(x))
  <2>1. Git!Record("deleted", x.old, Nothing) \in Git!RecordOf(x)
    BY <1>2 DEF Git!RecordOf
  <2> QED
    BY <2>1 DEF Went, Git!Record
<1> QED
  BY <1>1, <1>2

(* A record says what went away.                                           *)
LEMMA RecordsAreTrue ==
  ASSUME InputHolds, NEW t \in Git!SourceRecords, NEW p, t.path = p
  PROVE  input.now[p] = NoEntry /\ input.base[p] # NoEntry
<1>1. PICK x \in Git!SourcePatch : t \in Git!RecordOf(x)
  BY DEF Git!SourceRecords
<1>2. x.old = p /\ Git!OldSource(x) /\ (x.kind = "renamed" \/ x.kind = "deleted")
  BY <1>1, RecordOfIs
<1>3. p # Nothing /\ Named(x, p)
  BY <1>2 DEF Git!OldSource, Git!Language, Named
<1>4. CASE \E r \in Within(SourceScope) : x = RenameOf(r) /\ (p = r[1] \/ p = r[2])
  <2>1. PICK r \in Within(SourceScope) : x = RenameOf(r)
    BY <1>4
  <2>2. r \in input.renames
    BY DEF Within
  <2>3. IsRename(x, r) /\ IsPair(r)
    BY <2>1, <2>2, RenameIs, PairIs
  <2>4. p = r[1]
    BY <1>2, <1>3, <2>3, PathsAre DEF IsRename, IsPair
  <2> QED
    BY <2>3, <2>4, EntriesAre DEF IsPair, Held
<1>5. CASE Changed(p) /\ x = Git!Plain(p)
  <2>1. IsPlain(x, p)
    BY <1>5, PlainIs
  <2> QED
    BY <1>2, <2>1, EntriesAre DEF IsPlain, Held
<1> QED
  BY <1>3, <1>4, <1>5, ScopesAre, NamedInPatch

LEMMA RecordsAreThere ==
  ASSUME InputHolds, NEW p \in SourceScope, p \notin UnsafePaths, Source(input.base, p),
         input.now[p] = NoEntry
  PROVE  \E t \in Git!SourceRecords : Went(t, p)
<1>1. Held(input.base, p) /\ p \in TreePaths /\ p \in TreeSources /\ Git!Safe(p) = p
  BY ScopesAre, PathsAre DEF Source
<1>2. Changed(p) /\ Tellable(p) /\ input.base[p] # NoEntry
  BY <1>1, EntriesAre DEF Changed, Tellable, Held
<1>3. \E x \in Git!SourcePatch :
        x.old = p /\ x.from = input.base[p] /\ (x.kind = "deleted" \/ x.kind = "renamed")
  <2>1. CASE EndIn(Within(SourceScope), p)
    <3>1. PICK r \in Within(SourceScope) : p = r[1] \/ p = r[2]
      BY <2>1 DEF EndIn
    <3>2. r \in input.renames
      BY DEF Within
    <3> DEFINE x == RenameOf(r)
    <3>3. IsRename(x, r) /\ IsPair(r) /\ x \in Git!SourcePatch
      BY <3>2, RenameIs, PairIs, PatchIs, ScopesAre
    <3>4. p = r[1]
      BY <1>2, <3>1, <3>3 DEF IsPair
    <3>5. x.from = input.base[p] /\ x.old = p /\ x.kind = "renamed"
      BY <1>1, <3>3, <3>4 DEF IsRename
    <3> QED
      BY <3>3, <3>5
  <2>2. CASE ~ EndIn(Within(SourceScope), p)
    <3> DEFINE x == Git!Plain(p)
    <3>1. IsPlain(x, p)
      BY <1>2, PlainIs
    <3>2. x.from = input.base[p] /\ x.old = p /\ x.kind = "deleted"
      <4> HIDE DEF x
      <4> QED
        BY <1>1, <1>2, <3>1, EntriesAre DEF IsPlain, Held
    <3>3. x \in Git!SourcePatch
      BY <1>2, <2>2, <3>2, PatchIs, ScopesAre
    <3> QED
      BY <3>2, <3>3
  <2> QED
    BY <2>1, <2>2
<1>4. PICK x \in Git!SourcePatch :
        x.old = p /\ x.from = input.base[p] /\ (x.kind = "deleted" \/ x.kind = "renamed")
  BY <1>3
<1>5. Git!OldSource(x)
  BY <1>1, <1>2, <1>4, OldSourceIs
<1>6. PICK t \in Git!RecordOf(x) : Went(t, x.old)
  BY <1>4, <1>5, RecordOfThere
<1> QED
  BY <1>4, <1>6 DEF Git!SourceRecords

LEMMA AllRecordsAre ==
  ASSUME InputHolds, NEW p
  PROVE  /\ (\E t \in AllRecords : Went(t, p)) => \E t \in Git!SourceRecords : Went(t, p)
         /\ (\E t \in Git!SourceRecords : Went(t, p))
              => \/ \E t \in AllRecords : Went(t, p)
                 \/ \E f \in AllFiles : f.path = p
<1> DEFINE X == {Git!Record("untracked", q, Nothing) : q \in OtherSources}
<1>1. AllRecords = {t \in Git!SourceRecords \union X :
                      ~ (t.status = "deleted" /\ \E f \in AllFiles : f.path = t.path)}
  BY Zenon DEF AllRecords, Git!KeepRecords
<1>2. \A t \in X : ~ Went(t, p)
  BY DEF Went, Git!Record
<1> HIDE DEF X
<1> QED
  BY <1>1, <1>2 DEF Went

LEMMA ToldHolds ==
  ASSUME InputHolds, result = Git!MergeChanges
  PROVE  Git!EveryChangeIsTold
<1>1. SUFFICES ASSUME ~ result.refused
               PROVE  Git!EveryChangeIsTold
  BY DEF Git!EveryChangeIsTold, Git!Merged
<1>2. result.files = AllFiles /\ result.records = AllRecords /\ result.paths = AllPaths
  BY <1>1, MergedIs
<1>3. ASSUME NEW p \in TreePaths \ UnsafePaths
      PROVE  LET telling == {c \in result.paths : c.status # "untracked" /\ p \in Git!EndsOf(c)}
                 gone == \E r \in result.records :
                           r.path = p /\ r.status \in {"deleted", "renamed"}
                 source(tree) == p \in TreeSources /\ ~ Git!Boundary(p) /\ Git!Regular(tree[p])
             IN  /\ Git!Cardinality(telling) = IF input.base[p] # input.now[p] THEN 1 ELSE 0
                 /\ (\E f \in result.files : f.path = p) =
                      (\/ source(input.now) /\ Git!Regular(input.base[p])
                            /\ input.base[p] # input.now[p]
                       \/ source(input.now) /\ input.base[p] = NoEntry
                       \/ source(input.other) /\ input.other[p].form # "binary")
                 /\ source(input.base) /\ input.now[p] = NoEntry
                      => gone \/ \E f \in result.files : f.path = p
                 /\ gone => input.now[p] = NoEntry /\ input.base[p] # NoEntry
  <2> DEFINE telling == {c \in result.paths : c.status # "untracked" /\ p \in Git!EndsOf(c)}
             gone == \E r \in result.records :
                       r.path = p /\ r.status \in {"deleted", "renamed"}
             source(tree) == p \in TreeSources /\ ~ Git!Boundary(p) /\ Git!Regular(tree[p])
             filed == \E f \in result.files : f.path = p
  <2>1. telling = Telling(p)
    BY <1>2 DEF Telling
  <2>2. Git!Cardinality(telling) = IF input.base[p] # input.now[p] THEN 1 ELSE 0
    BY <2>1, TellingIs, GitCardinality
  <2>3. filed <=> NewSources(p) \/ p \in OtherSources
    BY <1>2, AllFilesAre
  <2>4. gone <=> \E t \in AllRecords : Went(t, p)
    BY <1>2 DEF Went
  <2>5. /\ Git!Regular(input.base[p]) <=> Held(input.base, p) /\ input.base[p].regular
        /\ Git!Regular(input.now[p]) <=> Held(input.now, p) /\ input.now[p].regular
    BY TreesAre, RegularIs
  <2>6. /\ input.base[p] = NoEntry \/ Held(input.base, p)
        /\ Held(input.base, p) => input.base[p] # NoEntry
        /\ Held(input.now, p) => input.now[p] # NoEntry
    BY TreesAre, EntriesAre DEF Held
  <2>7. filed <=> \/ source(input.now) /\ Git!Regular(input.base[p])
                        /\ input.base[p] # input.now[p]
                  \/ source(input.now) /\ input.base[p] = NoEntry
                  \/ source(input.other) /\ input.other[p].form # "binary"
    <3>1. p \in OtherSources <=> source(input.other) /\ input.other[p].form # "binary"
      BY OtherSourcesAre
    <3>2. NewSources(p) <=> \/ source(input.now) /\ Git!Regular(input.base[p])
                                 /\ input.base[p] # input.now[p]
                            \/ source(input.now) /\ input.base[p] = NoEntry
      BY <2>5, <2>6 DEF NewSources, Source, Changed, SourceScope
    <3> HIDE DEF filed, source
    <3> QED
      BY <2>3, <3>1, <3>2
  <2>8. source(input.base) /\ input.now[p] = NoEntry => gone \/ filed
    <3>1. SUFFICES ASSUME source(input.base), input.now[p] = NoEntry PROVE gone \/ filed
      OBVIOUS
    <3>2. p \in SourceScope /\ Source(input.base, p)
      BY <2>5, <3>1 DEF SourceScope, Source
    <3>3. \E t \in Git!SourceRecords : Went(t, p)
      BY <3>1, <3>2, RecordsAreThere
    <3>4. (\E t \in AllRecords : Went(t, p)) \/ \E f \in AllFiles : f.path = p
      BY <3>3, AllRecordsAre
    <3> QED
      BY <1>2, <2>4, <3>4
  <2>9. gone => input.now[p] = NoEntry /\ input.base[p] # NoEntry
    <3>1. SUFFICES ASSUME gone PROVE input.now[p] = NoEntry /\ input.base[p] # NoEntry
      OBVIOUS
    <3>2. \E t \in Git!SourceRecords : Went(t, p)
      BY <2>4, <3>1, AllRecordsAre
    <3> QED
      BY <3>2, RecordsAreTrue DEF Went
  <2> HIDE DEF telling, gone, source, filed
  <2>10. /\ Git!Cardinality(telling) = IF input.base[p] # input.now[p] THEN 1 ELSE 0
         /\ filed = (\/ source(input.now) /\ Git!Regular(input.base[p])
                          /\ input.base[p] # input.now[p]
                     \/ source(input.now) /\ input.base[p] = NoEntry
                     \/ source(input.other) /\ input.other[p].form # "binary")
         /\ source(input.base) /\ input.now[p] = NoEntry => gone \/ filed
         /\ gone => input.now[p] = NoEntry /\ input.base[p] # NoEntry
    <3>1. filed \in BOOLEAN
      BY DEF filed
    <3> QED
      BY <2>2, <2>7, <2>8, <2>9, <3>1
  <2> QED
    BY <2>10, Zenon DEF telling, gone, source, filed
<1> QED
  BY <1>3, Zenon DEF Git!EveryChangeIsTold

(***************************************************************************)
(* One state is merged: what the answers of Git say about it agrees.       *)
(***************************************************************************)
LEMMA CoalescesHolds ==
  ASSUME InputHolds
  PROVE  Git!Coalesces(Git!Listed, Git!RenamePairs)
<1>1. ASSUME NEW r \in Git!RenamePairs
      PROVE  /\ \E c \in Git!Listed : c.status = "deleted" /\ c.path = r[1]
             /\ \E c \in Git!Listed : c.status = "added" /\ c.path = r[2]
  <2>1. Moves(r)
    BY RenamePairsAre
  <2>2. /\ Tellable(r[1]) /\ Tellable(r[2])
        /\ ListedAs(r[1]).status = "deleted" /\ ListedAs(r[2]).status = "added"
    BY <2>1, WholeIs
  <2>3. ListedAs(r[1]).path = r[1] /\ ListedAs(r[2]).path = r[2]
    BY <2>2, ListedAsIs DEF IsListed
  <2>4. ListedAs(r[1]) \in Git!Listed /\ ListedAs(r[2]) \in Git!Listed
    BY <2>2, ListedIs
  <2> QED
    BY <2>2, <2>3, <2>4
<1> QED
  BY <1>1 DEF Git!Coalesces

(* Figures are of one path each, and of one record.                        *)
SourceStat(x) == /\ x \in Git!Patch(SourceScope) /\ Named(x, Git!StatPath(x))
                 /\ Git!StatPath(x) \in SourceScope
ArtifactStat(x) == /\ x \in Git!Patch(ArtifactScope) /\ Named(x, Git!ArtifactPath(x))
                   /\ Git!ArtifactPath(x) \in ArtifactScope

LEMMA StatPathIs ==
  ASSUME NEW x, Git!StatPath(x) # Nothing
  PROVE  Named(x, Git!StatPath(x))
<1>1. Git!StatPath(x) \in {x.new, x.old, Nothing}
  BY DEF Git!StatPath
<1> QED
  BY <1>1 DEF Named

LEMMA StatsAreNamed ==
  ASSUME InputHolds
  PROVE  /\ \A x \in Git!SourcePatch : Git!StatPath(x) # Nothing => SourceStat(x)
         /\ \A x \in Git!ArtifactRaws : ArtifactStat(x)
<1>1. ASSUME NEW x \in Git!SourcePatch, Git!StatPath(x) # Nothing
      PROVE  SourceStat(x)
  <2>1. Named(x, Git!StatPath(x)) /\ x \in Git!Patch(SourceScope)
    BY <1>1, StatPathIs, ScopesAre
  <2>2. Git!StatPath(x) \in SourceScope
    BY <2>1, ScopesAre, NamedInPatch
  <2> QED
    BY <2>1, <2>2 DEF SourceStat
<1>2. ASSUME NEW x \in Git!ArtifactRaws
      PROVE  ArtifactStat(x)
  <2>1. x \in Git!Patch(ArtifactScope) /\ Git!ArtifactPath(x) # Nothing
    BY ScopesAre DEF Git!ArtifactRaws
  <2>2. Named(x, Git!ArtifactPath(x))
    BY <2>1, ArtifactPathIs
  <2>3. Git!ArtifactPath(x) \in ArtifactScope
    BY <2>1, <2>2, ScopesAre, NamedInPatch
  <2> QED
    BY <2>1, <2>2, <2>3 DEF ArtifactStat
<1> QED
  BY <1>1, <1>2

LEMMA CountsAgree ==
  ASSUME InputHolds
  PROVE  Cardinality(Git!SourceStats \union Git!ArtifactStats) = Cardinality(Counts)
<1> DEFINE A == Git!SourceStats
           B == Git!ArtifactStats
           at(x) == IF x \in A THEN Git!StatPath(x) ELSE Git!ArtifactPath(x)
           map == [x \in A \union B |-> at(x)]
<1>1. /\ \A x \in A : SourceStat(x)
      /\ \A x \in B : ArtifactStat(x)
  BY StatsAreNamed DEF Git!SourceStats, Git!ArtifactStats
<1>2. Counts = {Git!StatPath(x) : x \in A} \union {Git!ArtifactPath(x) : x \in B}
  BY Zenon DEF Counts
<1> HIDE DEF A, B
<1>3. \A x \in A : x \notin B
  <2>1. SUFFICES ASSUME NEW x \in A, x \in B PROVE FALSE
    OBVIOUS
  <2>2. SourceStat(x) /\ ArtifactStat(x)
    BY <1>1, <2>1
  <2>3. x \in Git!Patch(SourceScope) /\ Named(x, Git!ArtifactPath(x))
    BY <2>2 DEF SourceStat, ArtifactStat
  <2>4. Git!ArtifactPath(x) \in SourceScope
    BY <2>3, ScopesAre, NamedInPatch
  <2> QED
    BY <2>2, <2>4, ScopesAre DEF ArtifactStat
<1>4. ASSUME NEW x \in A \union B, NEW y \in A \union B, at(x) = at(y)
      PROVE  x = y
  <2>1. CASE x \in A /\ y \in A
    <3>1. SourceStat(x) /\ SourceStat(y) /\ Git!StatPath(x) = Git!StatPath(y)
      BY <1>1, <1>4, <2>1
    <3> QED
      BY <3>1, OneRecord, ScopesAre DEF SourceStat
  <2>2. CASE x \in B /\ y \in B
    <3>1. ArtifactStat(x) /\ ArtifactStat(y) /\ Git!ArtifactPath(x) = Git!ArtifactPath(y)
      BY <1>1, <1>3, <1>4, <2>2
    <3> QED
      BY <3>1, OneRecord, ScopesAre DEF ArtifactStat
  <2>3. ASSUME NEW u \in A, NEW v \in B PROVE at(u) # at(v)
    <3>1. at(u) = Git!StatPath(u) /\ at(v) = Git!ArtifactPath(v)
      BY <1>3
    <3> HIDE DEF at
    <3> QED
      BY <1>1, <3>1, ScopesAre DEF SourceStat, ArtifactStat
  <2> QED
    BY <1>4, <2>1, <2>2, <2>3
<1>5. \A p : p \in Counts <=> \E x \in A \union B : at(x) = p
  BY <1>2, <1>3
<1> HIDE DEF at
<1>6. map \in Bijection(A \union B, Counts)
  <2>1. map \in [A \union B -> Counts]
    BY <1>5
  <2>2. \A x, y \in A \union B : map[x] = map[y] => x = y
    BY <1>4
  <2>3. \A p \in Counts : \E x \in A \union B : map[x] = p
    BY <1>5
  <2> HIDE DEF map
  <2> QED
    BY <2>1, <2>2, <2>3 DEF Bijection, Injection, Surjection, IsInjective
<1>7. ExistsBijection(Counts, A \union B)
  <2>1. ExistsBijection(A \union B, Counts)
    BY <1>6 DEF ExistsBijection
  <2> QED
    BY <2>1, Fun_ExistsBijSymmetric
<1>8. IsFiniteSet(Counts)
  <2>1. Counts \subseteq TreePaths
    BY <1>1, <1>2, ScopesAre DEF SourceStat, ArtifactStat
  <2> QED
    BY <2>1, FS_Subset, GitChangesAssumption DEF GitChangesAssumption
<1>9. Cardinality(A \union B) = Cardinality(Counts)
  BY <1>7, <1>8, FS_Bijection
<1> QED
  BY <1>9 DEF A, B

(* Every path with figures is a path of a change.                          *)
LEMMA CapturedAgrees ==
  ASSUME InputHolds
  PROVE  Captured = UNION {Git!StatKeys(c, Captured) : c \in Told}
<1>1. \A c : Git!StatKeys(c, Captured) \subseteq Captured
  BY DEF Git!StatKeys
<1>2. ASSUME NEW q \in Captured
      PROVE  \E c \in Told : q \in Git!StatKeys(c, Captured)
  <2>1. \/ \E x : SourceStat(x) /\ q = Git!StatPath(x)
        \/ \E x : ArtifactStat(x) /\ q = Git!ArtifactPath(x)
    BY StatsAreNamed
       DEF Captured, Counts, Git!SourceStats, Git!ArtifactStats, Git!SourceOmitted
  <2>2. \E scope : /\ scope \in {SourceScope, ArtifactScope}
                   /\ \E x \in Git!Patch(scope) : Named(x, q)
    BY <2>1 DEF SourceStat, ArtifactStat
  <2>3. PICK scope, x : /\ scope \in {SourceScope, ArtifactScope}
                        /\ x \in Git!Patch(scope) /\ Named(x, q)
    BY <2>2
  <2>4. scope \subseteq TreePaths /\ \A p \in scope : ~ Git!Boundary(p)
    BY <2>3, ScopesAre DEF SourceScope, ArtifactScope
  <2>5. /\ q \in scope /\ q \notin UnsafePaths
        /\ \/ \E r \in Within(scope) : x = RenameOf(r) /\ (q = r[1] \/ q = r[2])
           \/ Changed(q) /\ ~ EndIn(Within(scope), q) /\ x = Git!Plain(q) /\ x.kind # "type"
    BY <2>3, <2>4, NamedInPatch
  <2>6. Changed(q) /\ Git!Plain(q).kind # "type"
    <3>1. CASE \E r \in Within(scope) : q = r[1] \/ q = r[2]
      <4>1. PICK r \in input.renames : q = r[1] \/ q = r[2]
        BY <3>1 DEF Within
      <4>2. IsPair(r) /\ Changed(r[1]) /\ Changed(r[2])
        BY PairIs
      <4>3. input.base[q] = NoEntry \/ input.now[q] = NoEntry
        BY <4>1, <4>2 DEF IsPair
      <4>4. IsPlain(Git!Plain(q), q)
        BY <4>1, <4>2, PlainIs
      <4>5. Git!Plain(q).kind # "type"
        BY <4>3, <4>4, EntriesAre DEF IsPlain, Held
      <4> QED
        BY <4>1, <4>2, <4>5
    <3> QED
      BY <2>5, <3>1
  <2>7. Tellable(q)
    BY <2>5, <2>6 DEF Tellable
  <2>8. PICK c \in Told : Side(c, q)
    BY <2>7, OneTells
  <2>9. CASE ~ Half(q) /\ c = ListedAs(q)
    <3>1. IsListed(c, q)
      BY <2>7, <2>9, ListedAsIs
    <3>2. c.path = q /\ c.status \in {"added", "deleted", "modified"} /\ ~ Git!Boundary(q)
      BY <2>4, <2>5, <2>6, <3>1 DEF IsListed
    <3>3. q \in Git!StatKeys(c, Captured)
      BY <3>2 DEF Git!StatKeys, Git!Excluded
    <3> QED
      BY <3>3
  <2>10. CASE \E r : Moves(r) /\ (q = r[1] \/ q = r[2]) /\ c = WholeAs(r)
    <3>1. PICK r : Moves(r) /\ (q = r[1] \/ q = r[2]) /\ c = WholeAs(r)
      BY <2>10
    <3>2. IsWhole(c, r)
      BY <3>1, WholeAsIs
    <3>3. Half(r[2])
      BY <3>1 DEF Half
    <3>4. ~ Git!Boundary(r[2])
      BY <3>3, HalfIs
    <3>5. /\ c.status = "renamed" /\ c.path = r[2] /\ c.oldPath = r[1] /\ ~ Git!Boundary(c.path)
      BY <3>2, <3>4 DEF IsWhole
    <3>6. q \in Git!StatKeys(c, Captured)
      BY <3>1, <3>5 DEF Git!StatKeys, Git!Excluded
    <3> QED
      BY <3>6
  <2> QED
    BY <2>8, <2>9, <2>10, EndsAre
<1> QED
  BY <1>1, <1>2

LEMMA ArtifactsAgree ==
  ASSUME InputHolds, ~ Git!TakenOut,
         NEW f \in Artifacts, NEW g \in Artifacts, f.path = g.path
  PROVE  f = g
<1>1. ASSUME NEW u \in Git!ArtifactFiles, NEW v \in Git!ArtifactFiles, u.path = v.path
      PROVE  u = v
  <2>1. PICK x : ArtifactIs(u, x)
    BY ArtifactFilesAre
  <2>2. PICK y : ArtifactIs(v, y)
    BY ArtifactFilesAre
  <2>3. x = y
    BY <1>1, <2>1, <2>2, OneRecord, ScopesAre DEF ArtifactIs
  <2> QED
    BY <2>1, <2>2, <2>3 DEF ArtifactIs
<1>2. ASSUME NEW p \in Git!Others, NEW u \in Git!OtherArtifact(p), NEW v \in Git!OtherArtifact(p)
      PROVE  u = v
  <2> DEFINE e == input.other[p]
             is == Git!OtherArtifact(p)
  <2>1. e.regular \in BOOLEAN /\ e.form \in {"text", "binary", "large"} /\ ~ Git!Boundary(p)
    BY OthersAre, EntriesAre, OtherArtifactIs DEF Held
  <2>2. /\ ~ e.regular => is = {Git!ArtifactFile(p, FALSE, FALSE, "non_regular")}
        /\ e.regular /\ e.form = "large"
             => is = IF p \in TreeSources THEN {}
                     ELSE {Git!ArtifactFile(p, FALSE, FALSE, "oversized")}
        /\ e.regular /\ e.form = "binary" => is = {Git!ArtifactFile(p, FALSE, FALSE, "binary")}
        /\ e.regular /\ e.form = "text"
             => is = IF p \in TreeSources THEN {} ELSE {Git!ArtifactFile(p, TRUE, TRUE, Nothing)}
    BY <2>1 DEF Git!OtherArtifact, Git!Readable
  <2>3. u \in is /\ v \in is
    OBVIOUS
  <2> HIDE DEF is, e
  <2>4. \E w : is = {w} \/ is = {}
    BY <2>1, <2>2
  <2> QED
    BY <2>3, <2>4
<1>3. ASSUME NEW u \in Git!ArtifactFiles, NEW p \in Git!Others, NEW v \in Git!OtherArtifact(p),
             u.path = v.path
      PROVE  u = v
  <2>1. PICK x : ArtifactIs(u, x)
    BY ArtifactFilesAre
  <2>2. v.path = p /\ ~ Git!Boundary(p)
    BY OtherArtifactIs
  <2>3. p \in TreePaths /\ Held(input.other, p) /\ p \notin UnsafePaths
    BY OthersAre
  <2>4. input.now[p] = NoEntry
    BY <2>3, TreesAre, EntriesAre DEF InputHolds
  <2>5. x \in Git!Patch(ArtifactScope) /\ Named(x, p) /\ Git!ArtifactPath(x) = p
        /\ p \in ArtifactScope /\ u = Git!ArtifactOf(x)
    BY <1>3, <2>1, <2>2, ScopesAre DEF ArtifactIs
  <2>6. x = Git!Plain(p) /\ Changed(p)
    <3>1. SUFFICES ASSUME NEW r \in Within(ArtifactScope), x = RenameOf(r) PROVE FALSE
      BY <2>5, ScopesAre, NamedInPatch
    <3>2. r \in input.renames
      BY DEF Within
    <3>3. IsRename(x, r) /\ IsPair(r)
      BY <3>1, <3>2, RenameIs, PairIs
    <3>4. x.old = Nothing \/ x.new = p
      BY <2>5, <3>3 DEF IsRename, Git!ArtifactPath
    <3>5. p # Nothing
      BY <2>3, PathsAre
    <3>6. x.new = p
      BY <2>5, <3>3, <3>4, <3>5 DEF IsRename, Git!ArtifactPath
    <3>7. r[2] = p
      BY <3>3, <3>5, <3>6, PathsAre DEF IsRename, IsPair
    <3> QED
      BY <2>4, <3>3, <3>7, EntriesAre DEF IsPair, Held
  <2>7. IsPlain(x, p)
    BY <2>6, PlainIs
  <2>8. /\ x.kind = "deleted" /\ Held(input.base, p) /\ x.from = input.base[p] /\ x.to = NoEntry
        /\ x.old = p /\ x.new = Nothing
    BY <2>3, <2>4, <2>7, EntriesAre, PathsAre DEF IsPlain, Held
  <2>9. /\ input.base[p].regular /\ input.base[p].form = "text"
        /\ input.other[p].regular /\ input.other[p].form = "text"
    <3>1. input.base[p] # NoEntry /\ input.other[p] # NoEntry
      BY <2>3, <2>8, EntriesAre DEF Held
    <3> QED
      BY <2>3, <3>1 DEF Git!TakenOut
  <2>10. u = Git!ArtifactFile(p, TRUE, TRUE, Nothing)
    <3>1. ~ Git!ShowsBinary(x)
      BY <2>8, <2>9 DEF Git!ShowsBinary
    <3>2. ~ \E e \in {x.from, x.to} \ {NoEntry} : ~ e.regular
      BY <2>8, <2>9
    <3>3. Git!Unreadable(x.old, x.from) = Nothing
      BY <2>8, <2>9 DEF Git!Unreadable
    <3>4. Git!Unreadable(x.new, x.to) = Nothing
      BY <2>8 DEF Git!Unreadable
    <3>5. Git!ArtifactOf(x) =
            Git!ArtifactFile(Git!ArtifactPath(x), TRUE, {Nothing, Nothing} = {Nothing}, Nothing)
      BY <2>8, <3>1, <3>2, <3>3, <3>4 DEF Git!ArtifactOf
    <3>6. ({Nothing, Nothing} = {Nothing}) = TRUE
      OBVIOUS
    <3> QED
      BY <2>5, <3>5, <3>6
  <2>11. p \notin TreeSources
    BY <2>5 DEF ArtifactScope
  <2>12. v = Git!ArtifactFile(p, TRUE, TRUE, Nothing)
    BY <2>2, <2>9, <2>11 DEF Git!OtherArtifact, Git!Readable
  <2> QED
    BY <2>10, <2>12
<1>4. \A u \in Artifacts : \/ u \in Git!ArtifactFiles
                           \/ \E p \in Git!Others : u \in Git!OtherArtifact(p)
  BY DEF Artifacts
<1>5. ASSUME NEW p \in Git!Others, NEW q \in Git!Others,
             f \in Git!OtherArtifact(p), g \in Git!OtherArtifact(q)
      PROVE  f = g
  <2>1. f.path = p
    BY <1>5, OtherArtifactIs
  <2>2. g.path = q
    BY <1>5, OtherArtifactIs
  <2> QED
    BY <1>2, <1>5, <2>1, <2>2
<1> QED
  BY <1>1, <1>3, <1>4, <1>5

(* What the inventory expects of the sources is what the patch has.        *)
Seen(what, p, q) == <<what, p, q>>

LEMMA SeenIs ==
  \A e : e \in SourcesSeen <=> \/ \E f \in Git!SourceFiles : e = Seen("current", f.path, Nothing)
                               \/ \E t \in Git!SourceRecords : e = Seen(t.status, t.path, t.new)
BY DEF SourcesSeen, Seen

(* What is expected of a change of one path.                               *)
LEMMA ExpectedOne ==
  ASSUME NEW c, NEW p, IsListed(c, p)
  PROVE  \A e : e \in Git!Expected(c) <=>
           /\ ~ Git!Boundary(p)
           /\ \/ c.status = "deleted" /\ Source(input.base, p) /\ e = Seen("deleted", p, Nothing)
              \/ /\ c.status \in {"added", "modified"} /\ Source(input.now, p)
                 /\ e = Seen("current", p, Nothing)
<1>1. c.path = p /\ c.oldPath = Nothing /\ c.status \in {"added", "deleted", "type", "modified"}
  BY DEF IsListed
<1>2. Git!Excluded(c) <=> Git!Boundary(p)
  BY <1>1 DEF Git!Excluded
<1> DEFINE is == Git!Expected(c)
<1>3. CASE Git!Boundary(p) \/ c.status = "type"
  <2>1. is = {}
    BY <1>2, <1>3 DEF Git!Expected
  <2> QED
    BY <1>3, <2>1
<1>4. CASE ~ Git!Boundary(p) /\ c.status \in {"added", "modified"}
  <2>1. is = IF c.language THEN {Seen("current", p, Nothing)} ELSE {}
    BY <1>1, <1>2, <1>4 DEF Git!Expected, Seen
  <2>2. c.language <=> Source(input.now, p)
    BY <1>4 DEF IsListed
  <2> HIDE DEF is
  <2>3. \A e : e \in is <=> Source(input.now, p) /\ e = Seen("current", p, Nothing)
    BY <2>1, <2>2
  <2> QED
    BY <1>4, <2>3 DEF is
<1>5. CASE ~ Git!Boundary(p) /\ c.status = "deleted"
  <2>1. is = IF c.language THEN {Seen("deleted", p, Nothing)} ELSE {}
    BY <1>1, <1>2, <1>5 DEF Git!Expected, Seen
  <2>2. c.language <=> Source(input.base, p)
    BY <1>5 DEF IsListed
  <2> HIDE DEF is
  <2>3. \A e : e \in is <=> Source(input.base, p) /\ e = Seen("deleted", p, Nothing)
    BY <2>1, <2>2
  <2> QED
    BY <1>5, <2>3 DEF is
<1> QED
  BY <1>1, <1>3, <1>4, <1>5

(* What is expected of a rename: both sides are sources, or none is.       *)
LEMMA SidesAgree ==
  ASSUME InputHolds, NEW r, Moves(r)
  PROVE  /\ r \in Within(SourceScope)
              => /\ Source(input.base, r[1]) /\ Source(input.now, r[2])
                 /\ r[1] \in TreePaths \ UnsafePaths /\ r[2] \in TreePaths \ UnsafePaths
         /\ r \notin Within(SourceScope)
              => ~ Source(input.base, r[1]) /\ ~ Source(input.now, r[2])
         /\ ~ Git!Boundary(r[2])
<1>1. IsPair(r)
  BY WholeIs
<1>2. CASE r \in Within(SourceScope)
  <2>1. /\ r[1] \in TreeSources /\ r[2] \in TreeSources /\ ~ Git!Boundary(r[2])
    BY <1>2 DEF Within, SourceScope
  <2>2. input.base[r[1]].regular
    BY <1>2, ScopesAre DEF Moves, Within
  <2> QED
    BY <1>1, <1>2, <2>1, <2>2 DEF IsPair, Source, Moves
<1>3. CASE r \notin Within(SourceScope)
  <2>1. r[1] \in ArtifactScope /\ r[2] \in ArtifactScope
    BY <1>3 DEF Moves, Within
  <2> QED
    BY <1>3, <2>1 DEF ArtifactScope, Source
<1> QED
  BY <1>2, <1>3

LEMMA ExpectedTwo ==
  ASSUME InputHolds, NEW c, NEW r, IsWhole(c, r)
  PROVE  \A e : e \in Git!Expected(c) <=>
           /\ r \in Within(SourceScope)
           /\ e = Seen("current", r[2], Nothing) \/ e = Seen("renamed", r[1], r[2])
<1>1. Moves(r) /\ c.status = "renamed" /\ c.path = r[2] /\ c.oldPath = r[1]
  BY DEF IsWhole
<1>2. ~ Git!Excluded(c)
  BY <1>1, SidesAgree DEF Git!Excluded
<1> DEFINE is == Git!Expected(c)
<1>3. is = (IF c.language THEN {Seen("current", r[2], Nothing)} ELSE {})
             \union (IF c.oldLanguage /\ c.language THEN {Seen("renamed", r[1], r[2])} ELSE {})
             \union (IF c.oldLanguage /\ ~ c.language
                     THEN {Seen("deleted", r[1], Nothing)} ELSE {})
  BY <1>1, <1>2 DEF Git!Expected, Seen
<1>4. (c.language <=> r \in Within(SourceScope)) /\ (c.oldLanguage <=> r \in Within(SourceScope))
  BY <1>1, SidesAgree DEF IsWhole
<1> HIDE DEF is
<1>5. \A e : e \in is <=>
           /\ r \in Within(SourceScope)
           /\ e = Seen("current", r[2], Nothing) \/ e = Seen("renamed", r[1], r[2])
  <2>1. CASE r \in Within(SourceScope)
    <3>1. is = {Seen("current", r[2], Nothing)} \union {Seen("renamed", r[1], r[2])}
      BY <1>3, <1>4, <2>1
    <3> QED
      BY <2>1, <3>1
  <2>2. CASE r \notin Within(SourceScope)
    <3>1. is = {}
      BY <1>3, <1>4, <2>2
    <3> QED
      BY <2>2, <3>1
  <2> QED
    BY <2>1, <2>2
<1> QED
  BY <1>5 DEF is

LEMMA FileIsTold ==
  ASSUME InputHolds, NEW p \in TreePaths \ UnsafePaths, NewSources(p)
  PROVE  \E c \in Told : Seen("current", p, Nothing) \in Git!Expected(c)
<1>1. /\ p \in SourceScope /\ Source(input.now, p) /\ Tellable(p) /\ ~ Git!Boundary(p)
      /\ input.base[p] = NoEntry \/ input.base[p].regular
      /\ input.now[p] # NoEntry /\ input.now[p].regular
  BY EntriesAre DEF NewSources, Tellable, Source, Held, SourceScope
<1>2. CASE Half(p)
  <2>1. PICK r : Moves(r) /\ (p = r[1] \/ p = r[2])
    BY <1>2 DEF Half
  <2>2. IsPair(r) /\ IsWhole(WholeAs(r), r) /\ WholeAs(r) \in Told
    BY <2>1, WholeIs, WholeAsIs, ToldIs
  <2>3. p = r[2]
    BY <1>1, <2>1, <2>2 DEF IsPair
  <2>4. r \in Within(SourceScope)
    BY <1>1, <2>1, <2>3, SidesAgree
  <2>5. Seen("current", p, Nothing) \in Git!Expected(WholeAs(r))
    BY <2>2, <2>3, <2>4, ExpectedTwo
  <2> QED
    BY <2>2, <2>5
<1>3. CASE ~ Half(p)
  <2> DEFINE c == ListedAs(p)
  <2>1. c \in Told /\ IsListed(c, p) /\ IsPlain(Git!Plain(p), p)
    BY <1>1, <1>3, AloneTold, PlainIs DEF Tellable
  <2>2. c.status = Git!Plain(p).kind
    BY <2>1 DEF IsListed
  <2> HIDE DEF c
  <2>3. c.status \in {"added", "modified"}
    BY <1>1, <2>1, <2>2, EntriesAre DEF IsPlain, Held
  <2>4. Seen("current", p, Nothing) \in Git!Expected(c)
    BY <1>1, <2>1, <2>3, ExpectedOne
  <2> QED
    BY <2>1, <2>4
<1> QED
  BY <1>2, <1>3

LEMMA RecordIsTold ==
  ASSUME InputHolds, NEW t \in Git!SourceRecords
  PROVE  \E c \in Told : Seen(t.status, t.path, t.new) \in Git!Expected(c)
<1>1. PICK x \in Git!SourcePatch : t \in Git!RecordOf(x)
  BY DEF Git!SourceRecords
<1> DEFINE p == x.old
<1>2. t.path = p /\ Git!OldSource(x)
  BY <1>1, RecordOfIs
<1>3. CASE t.status = "renamed"
  <2> DEFINE r == <<t.path, t.new>>
  <2>1. /\ r \in Within(SourceScope) /\ input.base[r[1]].regular
        /\ r[1] \notin UnsafePaths /\ r[2] \notin UnsafePaths
    BY <1>3, SourceRenamesAre
  <2>2. Moves(r)
    BY <2>1 DEF Moves, Within
  <2>3. IsWhole(WholeAs(r), r) /\ WholeAs(r) \in Told
    BY <2>2, WholeAsIs, ToldIs
  <2>4. Seen("renamed", r[1], r[2]) \in Git!Expected(WholeAs(r))
    BY <2>1, <2>3, ExpectedTwo
  <2>5. r[1] = t.path /\ r[2] = t.new
    OBVIOUS
  <2> HIDE DEF r
  <2> QED
    BY <1>3, <2>3, <2>4, <2>5
<1>4. CASE t.status # "renamed"
  <2>1. /\ t.status = "deleted" /\ t.new = Nothing
        /\ x.kind = "deleted" \/ (x.kind = "renamed" /\ ~ Git!NewSource(x))
    BY <1>1, <1>4, RecordOfIs DEF Git!Record
  <2>2. p # Nothing /\ Named(x, p)
    BY <1>2 DEF Git!OldSource, Git!Language, Named
  <2>3. /\ p \in SourceScope /\ p \notin UnsafePaths
        /\ \/ \E r \in Within(SourceScope) : x = RenameOf(r) /\ (p = r[1] \/ p = r[2])
           \/ Changed(p) /\ ~ EndIn(Within(SourceScope), p) /\ x = Git!Plain(p)
    BY <2>2, ScopesAre, NamedInPatch
  <2>4. input.now[p] = NoEntry /\ input.base[p] # NoEntry
    BY <1>2, RecordsAreTrue
  <2>5. Changed(p) /\ Tellable(p) /\ p \in TreeSources /\ ~ Git!Boundary(p)
    BY <2>3, <2>4, ScopesAre DEF Changed, Tellable, SourceScope
  <2>6. x.from = input.base[p]
    <3>1. CASE \E r \in Within(SourceScope) : x = RenameOf(r) /\ (p = r[1] \/ p = r[2])
      <4>1. PICK r \in Within(SourceScope) : x = RenameOf(r) /\ (p = r[1] \/ p = r[2])
        BY <3>1
      <4>2. r \in input.renames
        BY DEF Within
      <4>3. IsRename(x, r) /\ IsPair(r)
        BY <4>1, <4>2, RenameIs, PairIs
      <4>4. p = r[1]
        BY <2>4, <4>1, <4>3 DEF IsPair
      <4> QED
        BY <4>3, <4>4 DEF IsRename
    <3>2. CASE x = Git!Plain(p)
      BY <2>5, <3>2, PlainIs DEF IsPlain
    <3> QED
      BY <2>3, <3>1, <3>2
  <2>7. Source(input.base, p)
    BY <1>2, <2>5, <2>6, OldSourceIs
  <2>8. ~ Half(p)
    <3>1. SUFFICES ASSUME NEW r, Moves(r), p = r[1] \/ p = r[2] PROVE FALSE
      BY DEF Half
    <3>2. IsPair(r)
      BY <3>1, WholeIs
    <3>3. p = r[1]
      BY <2>4, <3>1, <3>2 DEF IsPair
    <3>4. r \in Within(SourceScope) /\ r \in input.renames
      BY <2>7, <3>1, <3>3, SidesAgree DEF Moves
    <3>5. x = RenameOf(r)
      <4>1. RenameOf(r) \in Git!SourcePatch /\ IsRename(RenameOf(r), r)
        BY <3>4, PatchIs, ScopesAre, RenameIs
      <4>2. Git!Safe(p) = p
        BY <2>3, <2>5, PathsAre DEF Changed
      <4>3. Named(RenameOf(r), p)
        BY <2>2, <3>3, <4>1, <4>2 DEF IsRename, Named
      <4> QED
        BY <2>2, <4>1, <4>3, OneRecord, ScopesAre
    <3>6. Git!NewSource(x)
      BY <3>1, <3>4, <3>5, SidesAre, SidesAgree DEF Moves, Source
    <3>7. x.kind = "renamed"
      BY <3>4, <3>5, RenameIs DEF IsRename
    <3> QED
      BY <2>1, <3>6, <3>7
  <2> DEFINE c == ListedAs(p)
  <2>9. c \in Told /\ IsListed(c, p) /\ IsPlain(Git!Plain(p), p)
    BY <2>5, <2>8, AloneTold, PlainIs
  <2>10. c.status = Git!Plain(p).kind
    BY <2>9 DEF IsListed
  <2>14. Git!Plain(p).kind = "deleted"
    BY <2>4, <2>9, EntriesAre DEF IsPlain, Held
  <2> HIDE DEF c
  <2>11. c.status = "deleted"
    BY <2>10, <2>14
  <2>12. Seen("deleted", p, Nothing) \in Git!Expected(c)
    BY <2>5, <2>7, <2>9, <2>11, ExpectedOne
  <2>13. Seen(t.status, t.path, t.new) = Seen("deleted", p, Nothing)
    BY <1>2, <2>1
  <2> QED
    BY <2>9, <2>12, <2>13
<1> QED
  BY <1>3, <1>4

LEMMA ToldIsSeen ==
  ASSUME InputHolds, NEW c \in Told, NEW e \in Git!Expected(c)
  PROVE  e \in SourcesSeen
<1>1. CASE ~ Half(c.path) /\ IsListed(c, c.path)
  <2> DEFINE p == c.path
  <2>1. /\ ~ Git!Boundary(p)
        /\ \/ c.status = "deleted" /\ Source(input.base, p) /\ e = Seen("deleted", p, Nothing)
           \/ /\ c.status \in {"added", "modified"} /\ Source(input.now, p)
              /\ e = Seen("current", p, Nothing)
    BY <1>1, ExpectedOne
  <2>2. Tellable(p) /\ c.status = Git!Plain(p).kind
    BY <1>1 DEF IsListed
  <2>3. IsPlain(Git!Plain(p), p) /\ p \in TreePaths \ UnsafePaths
    BY <2>2, PlainIs DEF Tellable, Changed
  <2>4. ~ Half(p)
    BY <1>1
  <2> HIDE DEF p
  <2>5. CASE /\ c.status \in {"added", "modified"} /\ Source(input.now, p)
             /\ e = Seen("current", p, Nothing)
    <3>1. input.base[p] = NoEntry \/ input.base[p].regular
      BY <2>2, <2>3, <2>5 DEF IsPlain, Source
    <3>2. NewSources(p)
      BY <2>1, <2>2, <2>5, <3>1 DEF NewSources, Tellable, Source, SourceScope
    <3>3. PICK f \in Git!SourceFiles : f.path = p
      BY <2>3, <3>2, FilesAre
    <3> QED
      BY <2>5, <3>3, SeenIs
  <2>6. CASE c.status = "deleted" /\ Source(input.base, p) /\ e = Seen("deleted", p, Nothing)
    <3>1. input.now[p] = NoEntry
      BY <2>2, <2>3, <2>6 DEF IsPlain
    <3>2. p \in SourceScope
      BY <2>1, <2>6 DEF Source, SourceScope
    <3>3. PICK t \in Git!SourceRecords : Went(t, p)
      BY <2>3, <2>6, <3>1, <3>2, RecordsAreThere
    <3>4. t.status # "renamed"
      <4>1. SUFFICES ASSUME t.status = "renamed" PROVE FALSE
        OBVIOUS
      <4> DEFINE r == <<t.path, t.new>>
      <4>2. /\ r \in Within(SourceScope) /\ input.base[r[1]].regular
            /\ r[1] \notin UnsafePaths /\ r[2] \notin UnsafePaths
        BY <4>1, SourceRenamesAre
      <4>3. Moves(r)
        BY <4>2 DEF Moves, Within
      <4>4. r[1] = p
        BY <3>3 DEF Went
      <4> HIDE DEF r
      <4> QED
        BY <2>4, <4>3, <4>4 DEF Half
    <3>5. PICK x : t \in Git!RecordOf(x)
      BY DEF Git!SourceRecords
    <3>6. t.new = Nothing /\ t.status = "deleted" /\ t.path = p
      BY <3>3, <3>4, <3>5, RecordOfIs DEF Went, Git!Record
    <3> QED
      BY <2>6, <3>6, SeenIs
  <2> QED
    BY <2>1, <2>5, <2>6
<1>2. CASE IsWhole(c, <<c.oldPath, c.path>>)
  <2> DEFINE r == <<c.oldPath, c.path>>
  <2>1. Moves(r)
    BY <1>2 DEF IsWhole
  <2>2. /\ r \in Within(SourceScope)
        /\ e = Seen("current", r[2], Nothing) \/ e = Seen("renamed", r[1], r[2])
    BY <1>2, ExpectedTwo
  <2>3. r = <<r[1], r[2]>>
    OBVIOUS
  <2> HIDE DEF r
  <2>4. /\ Source(input.base, r[1]) /\ Source(input.now, r[2])
        /\ r[1] \notin UnsafePaths /\ r[2] \in TreePaths \ UnsafePaths
    BY <2>1, <2>2, SidesAgree
  <2>5. CASE e = Seen("current", r[2], Nothing)
    <3>1. Changed(r[2]) /\ IsPair(r)
      BY <2>1, WholeIs DEF Tellable
    <3>2. NewSources(r[2])
      BY <2>2, <2>4, <3>1 DEF NewSources, IsPair, Within
    <3>3. PICK f \in Git!SourceFiles : f.path = r[2]
      BY <2>4, <3>2, FilesAre
    <3> QED
      BY <2>5, <3>3, SeenIs
  <2>6. CASE e = Seen("renamed", r[1], r[2])
    <3>1. PICK t \in Git!SourceRecords : t.status = "renamed" /\ r = <<t.path, t.new>>
      BY <2>2, <2>4, SourceRenamesAre DEF Source
    <3>2. r[1] = t.path /\ r[2] = t.new
      BY <3>1
    <3> QED
      BY <2>6, <3>1, <3>2, SeenIs
  <2> QED
    BY <2>2, <2>5, <2>6
<1> QED
  BY <1>1, <1>2, ToldCases

LEMMA SourcesAgree ==
  ASSUME InputHolds
  PROVE  SourcesSeen = UNION {Git!Expected(c) : c \in Told}
<1>1. ASSUME NEW e \in SourcesSeen
      PROVE  \E c \in Told : e \in Git!Expected(c)
  <2>1. CASE \E f \in Git!SourceFiles : e = Seen("current", f.path, Nothing)
    <3>1. PICK f \in Git!SourceFiles : e = Seen("current", f.path, Nothing)
      BY <2>1
    <3>2. PICK x \in Git!SourcePatch :
            x.kind # "deleted" /\ Git!NewSource(x) /\ x.new = f.path
      BY SourceFilesAre
    <3>3. Named(x, f.path)
      BY <3>2 DEF Git!NewSource, Git!Language, Named
    <3>4. f.path \in TreePaths \ UnsafePaths
      BY <3>3, ScopesAre, NamedInPatch
    <3>5. NewSources(f.path)
      BY <3>4, FilesAre
    <3> QED
      BY <3>1, <3>4, <3>5, FileIsTold
  <2>2. CASE \E t \in Git!SourceRecords : e = Seen(t.status, t.path, t.new)
    BY <2>2, RecordIsTold
  <2> QED
    BY <2>1, <2>2, SeenIs
<1>2. \A c \in Told : \A e \in Git!Expected(c) : e \in SourcesSeen
  BY ToldIsSeen
<1> QED
  BY <1>1, <1>2

LEMMA OneStateHolds ==
  ASSUME InputHolds, result = Git!MergeChanges
  PROVE  Git!OneStateIsMerged
<1>1. SUFFICES ASSUME ~ Git!TakenOut PROVE ~ result.refused
  BY DEF Git!OneStateIsMerged
<1>2. ~ Torn
  <2>1. Git!Cardinality(Git!SourceStats \union Git!ArtifactStats) = Git!Cardinality(Counts)
    BY CountsAgree, GitCardinality
  <2>2. \A f, g \in Artifacts : f.path = g.path => f = g
    BY <1>1, ArtifactsAgree
  <2>3. SourcesSeen = UNION {Git!Expected(c) : c \in Told}
        /\ Captured = UNION {Git!StatKeys(c, Captured) : c \in Told}
    BY SourcesAgree, CapturedAgrees
  <2> QED
    BY <2>1, <2>2, <2>3, Zenon DEF Torn
<1>3. result = [refused |-> FALSE, files |-> AllFiles, records |-> AllRecords, paths |-> AllPaths,
          artifacts |-> Artifacts \union Git!Omissions(AllPaths, Artifacts), skipped |-> Skipped]
  BY <1>2, ResultIs, CoalescesHolds
<1> QED
  BY <1>3

(* What is captured is an input, and what is told is merged from it.       *)
ChangesInv ==
  \/ input = Nothing /\ result = Nothing
  \/ InputHolds /\ result \in {Nothing, Git!MergeChanges}

LEMMA CaptureStarts ==
  ASSUME Git!GitAnswers, result = Nothing
  PROVE  ChangesInv'
<1>1. PICK family \in TreeStates : \E base, now, other \in family.trees :
        /\ \A p \in TreePaths : other[p] # NoEntry => now[p] = NoEntry
        /\ \E pairs \in Git!Pairings(base, now) :
             input' = [base |-> base, now |-> now, other |-> other, mode |-> family.mode,
                       renames |-> pairs]
  BY Zenon DEF Git!GitAnswers
<1>2. PICK base \in family.trees, now \in family.trees, other \in family.trees :
        /\ \A p \in TreePaths : other[p] # NoEntry => now[p] = NoEntry
        /\ \E pairs \in Git!Pairings(base, now) :
             input' = [base |-> base, now |-> now, other |-> other, mode |-> family.mode,
                       renames |-> pairs]
  BY <1>1, Zenon
<1>3. PICK pairs \in Git!Pairings(base, now) :
        /\ \A p \in TreePaths : other[p] # NoEntry => now[p] = NoEntry
        /\ input' = [base |-> base, now |-> now, other |-> other, mode |-> family.mode,
                     renames |-> pairs]
  BY <1>2, Zenon
<1>4. base \in Git!Tree /\ now \in Git!Tree /\ other \in Git!Tree
  <2>1. family.trees \subseteq Git!Tree
    BY GitChangesAssumption, Zenon DEF GitChangesAssumption
  <2> QED
    BY <2>1
<1>5. pairs \in SUBSET (TreePaths \X TreePaths)
  BY DEF Git!Pairings
<1>6. family.mode \in {f.mode : f \in TreeStates}
  OBVIOUS
<1>7. input' \in GitInputs
  BY <1>3, <1>4, <1>5, <1>6 DEF GitInputs
<1>8. \A p \in TreePaths : other[p] \in TreeEntries => ~ (now[p] \in TreeEntries)
  BY <1>3, EntriesAre
<1>9. /\ input'.base = base /\ input'.now = now /\ input'.other = other
      /\ input'.renames = pairs
  BY <1>3
<1>10. InputHolds'
  BY <1>7, <1>8, <1>9, Zenon DEF InputHolds, Held
<1>11. result' = Nothing
  BY DEF Git!GitAnswers
<1> QED
  BY <1>10, <1>11 DEF ChangesInv

(* The changes depend on nothing but the input.                            *)
LEMMA SameChanges ==
  ASSUME input' = input
  PROVE  (Git!MergeChanges)' = Git!MergeChanges
<1>1. \A p : (Git!Boundary(p))' = Git!Boundary(p)
  BY Zenon DEF Git!Boundary
<1>2. \A p : (Git!Plain(p))' = Git!Plain(p)
  BY Zenon DEF Git!Plain, Git!Raw
<1>3. \A S : (Git!Patch(S))' = Git!Patch(S)
  BY <1>2, Zenon DEF Git!Patch, Git!ChangedIn, Git!Raw
<1>4. /\ (Git!SourcePatch)' = Git!SourcePatch /\ (Git!ArtifactPatch)' = Git!ArtifactPatch
      /\ (Git!Listed)' = Git!Listed
  <2>1. {p \in TreeSources : ~ Git!Boundary(p)}' = {p \in TreeSources : ~ Git!Boundary(p)}
    BY <1>1
  <2>2. {p \in TreePaths \ TreeSources : ~ Git!Boundary(p)}'
          = {p \in TreePaths \ TreeSources : ~ Git!Boundary(p)}
    BY <1>1
  <2>3. (Git!RawInventory)' = Git!RawInventory
    BY <1>2, Zenon DEF Git!RawInventory, Git!ChangedIn
  <2>4. (Git!SourcePatch)' = Git!SourcePatch
    BY <1>3, <2>1, Zenon DEF Git!SourcePatch
  <2>5. (Git!ArtifactPatch)' = Git!ArtifactPatch
    BY <1>3, <2>2, Zenon DEF Git!ArtifactPatch
  <2>6. (Git!Listed)' = Git!Listed
    BY <2>3, Zenon DEF Git!Listed
  <2> QED
    BY <2>4, <2>5, <2>6
<1>5. /\ (Git!SourceFiles)' = Git!SourceFiles /\ (Git!SourceRecords)' = Git!SourceRecords
      /\ (Git!SourceStats)' = Git!SourceStats /\ (Git!SourceOmitted)' = Git!SourceOmitted
  BY <1>4, Zenon DEF Git!SourceFiles, Git!SourceRecords, Git!SourceStats, Git!SourceOmitted
<1>6. /\ (Git!ArtifactRaws)' = Git!ArtifactRaws /\ (Git!ArtifactFiles)' = Git!ArtifactFiles
      /\ (Git!ArtifactStats)' = Git!ArtifactStats
  BY <1>4, Zenon DEF Git!ArtifactRaws, Git!ArtifactFiles, Git!ArtifactStats
<1>7. (Git!RenamePairs)' = Git!RenamePairs
  BY <1>5, <1>6, Zenon DEF Git!RenamePairs, Git!ArtifactRenames, Git!ArtifactRaws
<1>8. /\ (Git!OtherPaths)' = Git!OtherPaths /\ (Git!Others)' = Git!Others
      /\ \A S : (Git!ChangedIn(S))' = Git!ChangedIn(S)
  BY Zenon DEF Git!OtherPaths, Git!Others, Git!ChangedIn
<1>9. /\ \A p : (Git!OtherChange(p))' = Git!OtherChange(p)
      /\ \A p : (Git!OtherArtifact(p))' = Git!OtherArtifact(p)
  BY Zenon DEF Git!OtherChange, Git!OtherArtifact, Git!Readable, Git!Boundary
<1>10. /\ \A c : (Git!Expected(c))' = Git!Expected(c)
       /\ \A c, k : (Git!StatKeys(c, k))' = Git!StatKeys(c, k)
  BY Zenon DEF Git!Expected, Git!StatKeys, Git!Excluded, Git!Boundary
<1>11. \A c, k, s : (Git!WithStats(c, k, s))' = Git!WithStats(c, k, s)
  BY <1>10, Zenon DEF Git!WithStats
<1>12. \A S, T : (Git!Omissions(S, T))' = Git!Omissions(S, T)
  BY <1>1, Zenon DEF Git!Omissions
<1>13. /\ Counts' = Counts /\ Captured' = Captured /\ Artifacts' = Artifacts
       /\ Told' = Told /\ OtherSources' = OtherSources
  BY <1>1, <1>4, <1>5, <1>6, <1>7, <1>8, <1>9, Zenon
     DEF Counts, Captured, Artifacts, Told, OtherSources
<1>14. AllPaths' = AllPaths /\ AllFiles' = AllFiles
  BY <1>5, <1>8, <1>9, <1>11, <1>13, Zenon DEF AllPaths, AllFiles
<1>15. AllRecords' = AllRecords /\ SourcesSeen' = SourcesSeen
  BY <1>5, <1>13, <1>14, Zenon DEF AllRecords, SourcesSeen
<1>16. Torn' = Torn
  <2>1. (Git!Cardinality(Git!SourceStats \union Git!ArtifactStats))'
          = Git!Cardinality(Git!SourceStats \union Git!ArtifactStats)
    BY <1>5, <1>6, Zenon
  <2>2. (UNION {Git!Expected(c) : c \in Told})' = UNION {Git!Expected(c) : c \in Told}
    BY <1>10, <1>13, Zenon
  <2>3. (UNION {Git!StatKeys(c, Captured) : c \in Told})'
          = UNION {Git!StatKeys(c, Captured) : c \in Told}
    <3>1. \A c : (Git!StatKeys(c, Captured))' = Git!StatKeys(c, Captured)
      BY <1>10, <1>13, Zenon
    <3> QED
      BY <1>13, <3>1, Zenon
  <2>4. (\E f, g \in Artifacts : f.path = g.path /\ f # g)'
          = \E f, g \in Artifacts : f.path = g.path /\ f # g
    BY <1>13
  <2>5. (Git!Cardinality(Counts))' = Git!Cardinality(Counts)
    BY <1>13, Zenon
  <2> QED
    BY <1>13, <1>15, <2>1, <2>2, <2>3, <2>4, <2>5, Zenon DEF Torn
<1>17. Skipped' = Skipped
  BY <1>8, Zenon DEF Skipped
<1>18. (Git!MergeChanges)' =
         IF ~ Git!Coalesces((Git!Listed)', (Git!RenamePairs)') THEN Git!Refused
         ELSE IF Torn' THEN Git!Refused
         ELSE [refused |-> FALSE, files |-> AllFiles', records |-> AllRecords',
               paths |-> AllPaths',
               artifacts |-> Artifacts' \union (Git!Omissions(AllPaths, Artifacts))',
               skipped |-> Skipped']
  BY Zenon DEF Git!MergeChanges, Git!Merge, Counts, Captured, Artifacts, OtherSources, AllPaths,
     AllFiles, AllRecords, SourcesSeen, Torn, Skipped, Told
<1>19. (Git!Omissions(AllPaths, Artifacts))' = Git!Omissions(AllPaths, Artifacts)
  BY <1>12, <1>13, <1>14, Zenon
<1> QED
  BY <1>4, <1>7, <1>13, <1>14, <1>15, <1>16, <1>17, <1>18, <1>19, ResultIs, Zenon

LEMMA SameInput ==
  ASSUME input' = input
  PROVE  InputHolds' = InputHolds /\ (Git!MergeChanges)' = Git!MergeChanges
<1>1. InputHolds' = InputHolds
  BY Zenon DEF InputHolds, Held
<1> QED
  BY <1>1, SameChanges

LEMMA ChangesKeep ==
  ASSUME ChangesInv, Git!Next
  PROVE  ChangesInv'
<1>1. CASE Git!GitAnswers
  <2>1. input = Nothing
    BY <1>1 DEF Git!GitAnswers
  <2>2. Nothing \notin GitInputs
    BY GitChangesAssumption, Zenon DEF GitChangesAssumption
  <2>3. result = Nothing
    BY <2>1, <2>2 DEF ChangesInv, InputHolds
  <2> QED
    BY <1>1, <2>3, CaptureStarts
<1>2. CASE Git!CaptureTargetChanges
  <2>1. input # Nothing /\ result' = Git!MergeChanges /\ input' = input
    BY <1>2, Zenon DEF Git!CaptureTargetChanges
  <2>2. InputHolds
    BY <2>1 DEF ChangesInv
  <2> QED
    BY <2>1, <2>2, SameInput, Zenon DEF ChangesInv
<1> QED
  BY <1>1, <1>2 DEF Git!Next

(* What Git answered is kept until the changes are merged from it, and     *)
(* they stay what was merged (capture_target_changes, merge_changes,       *)
(* git.rs).                                                                *)
THEOREM CapturesAreKept == SpecAnswers => [](part = "git" => ChangesInv)
<1>1. InitAnswers => (part = "git" => ChangesInv)
  BY DEF InitAnswers, Git!Init, ChangesInv
<1>2. (part = "git" => ChangesInv) /\ [NextAnswers]_answersVars => (part = "git" => ChangesInv)'
  <2> SUFFICES ASSUME part = "git" => ChangesInv, [NextAnswers]_answersVars, part' = "git"
               PROVE  ChangesInv'
    OBVIOUS
  <2>1. CASE ChangesStep
    BY <2>1, ChangesKeep DEF ChangesStep
  <2>2. CASE PagesStep
    <3>1. part = "pages" /\ part' = part
      BY <2>2 DEF PagesStep, callsVars
    <3> QED
      BY <3>1
  <2>3. CASE EvidenceStep
    <3>1. part = "evidence" /\ part' = part
      BY <2>3 DEF EvidenceStep, callsVars
    <3> QED
      BY <3>1
  <2>4. CASE UNCHANGED answersVars
    <3>1. part' = part /\ input' = input /\ result' = result
      BY <2>4 DEF answersVars, callsVars, answered
    <3> QED
      BY <3>1, SameInput, Zenon DEF ChangesInv
  <2> QED
    BY <2>1, <2>2, <2>3, <2>4 DEF NextAnswers
<1> QED
  BY <1>1, <1>2, PTL DEF SpecAnswers

(* Git's answers about one state of the worktree are never taken for       *)
(* answers about two, whatever the files are and whatever renames Git      *)
(* finds: each count is of one change, each change has its counts, and no  *)
(* path is captured twice (merge_changes, git.rs:3838-3991).               *)
THEOREM OneStateMerged == SpecAnswers => []OneStateIsMerged
<1>1. (part = "git" => ChangesInv) => OneStateIsMerged
  <2> SUFFICES ASSUME ChangesInv PROVE Git!OneStateIsMerged
    BY DEF OneStateIsMerged
  <2>1. CASE result = Nothing
    BY <2>1 DEF Git!OneStateIsMerged
  <2>2. CASE InputHolds /\ result = Git!MergeChanges
    BY <2>2, OneStateHolds
  <2> QED
    BY <2>1, <2>2 DEF ChangesInv
<1> QED
  BY <1>1, CapturesAreKept, PTL

(* Each changed path is told exactly once, as what it is, and the sources  *)
(* to read are those that have contents now (coalesce_renames,             *)
(* validate_source_projection, git.rs:3526-3708).                          *)
THEOREM ChangesAreTold == SpecAnswers => []EveryChangeIsTold
<1>1. (part = "git" => ChangesInv) => EveryChangeIsTold
  <2> SUFFICES ASSUME ChangesInv PROVE Git!EveryChangeIsTold
    BY DEF EveryChangeIsTold
  <2>1. CASE result = Nothing
    BY <2>1 DEF Git!EveryChangeIsTold, Git!Merged
  <2>2. CASE InputHolds /\ result = Git!MergeChanges
    BY <2>2, ToldHolds
  <2> QED
    BY <2>1, <2>2 DEF ChangesInv
<1> QED
  BY <1>1, CapturesAreKept, PTL

(* A review is called complete only if everything that differs is in it    *)
(* and can be shown (change_content_complete, git.rs:586-608).             *)
THEOREM CompleteIsComplete == SpecAnswers => []CompleteMeansComplete
<1>1. (part = "git" => ChangesInv) => CompleteMeansComplete
  <2> SUFFICES ASSUME ChangesInv PROVE Git!CompleteMeansComplete
    BY DEF CompleteMeansComplete
  <2>1. CASE result = Nothing
    BY <2>1 DEF Git!CompleteMeansComplete, Git!Merged
  <2>2. CASE InputHolds /\ result = Git!MergeChanges
    BY <2>2, CompleteHolds
  <2> QED
    BY <2>1, <2>2 DEF ChangesInv
<1> QED
  BY <1>1, CapturesAreKept, PTL
=============================================================================
