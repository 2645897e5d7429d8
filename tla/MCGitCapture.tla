----------------------------- MODULE MCGitCapture -----------------------------
(* Instances of GitCapture for TLC.                                        *)
EXTENDS GitCapture, TLC

CONSTANTS a, b, c1, c2, c3, h1, h2

ListedAs == a :> 1 @@ b :> 2
Base == a :> c1 @@ b :> Absent
AtHead == a :> c1 @@ b :> Absent

(* a is tracked: clean, racily clean but modified within the time of the   *)
(* index, modified, or deleted.  b is untracked, absent, or staged.  Or a  *)
(* is taken out of the index, and still there as text or binary.           *)
Of(content) == [content |-> content, time |-> 1, stamp |-> 0]
Blobbed(blob) == [blob |-> blob, time |-> 1]
At1(index, work) ==
  [head |-> h1, index |-> index, indexTime |-> 1, indexStamp |-> 0, work |-> work]
States ==
  {At1(a :> Blobbed(c1) @@ b :> e, a :> f @@ b :> g) :
     e \in {NoEntry, Blobbed(c2)}, f \in {Of(c1), Of(c2)}, g \in {NoFile, Of(c1)}}
    \union {At1(a :> Blobbed(c1) @@ b :> NoEntry, a :> NoFile @@ b :> Of(c2)),
            At1(a :> Blobbed(c1) @@ b :> Blobbed(c2), a :> Of(c2) @@ b :> Of(c2))}
    \union {At1(a :> NoEntry @@ b :> NoEntry, a :> f @@ b :> NoFile) : f \in {Of(c2), Of(c3)}}

(* b may be evidence, a requested input, or both.                          *)
AllCalls ==
  [target : {"worktree"}, untracked : BOOLEAN, evidence : {{}}, requested : {{a}}]
    \union
  [target : {"worktree"}, untracked : BOOLEAN, evidence : {{b}}, requested : {{}, {b}}]
    \union
  [target : {"commit", "index"}, untracked : {FALSE}, evidence : {{}}, requested : {{}, {a}}]
=============================================================================
