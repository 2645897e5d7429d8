-------------------------- MODULE MCSnapshotCache --------------------------
(* Instances of SnapshotCache for TLC.                                     *)
EXTENDS SnapshotCache, TLC

CONSTANTS b1, b2, p1, p2, s1, s2, s3, g1, g2, g3, r1, r2

(* One builder in each of two processes, or one alone.                     *)
TwoProcesses == b1 :> p1 @@ b2 :> p2
OneBuilder == b1 :> p1

(* s2 is a change on top of s1: its base graph is the graph of s1.  s3     *)
(* adds evidence to s1.                                                    *)
HeadGraphs == s1 :> g1 @@ s2 :> g2 @@ s3 :> g3
BaseGraphs == s1 :> NoValue @@ s2 :> g1 @@ s3 :> NoValue
OneWithEvidence == s1 :> NoValue @@ s2 :> NoValue @@ s3 :> s1

(* One snapshot with a base graph.                                         *)
OneHead == s1 :> g1
OneBase == s1 :> g2
OneReview == s1 :> r1
NoEvidence == s1 :> NoValue

OwnReviews == s1 :> r1 @@ s2 :> r2 @@ s3 :> r1
============================================================================
