---------------------------- MODULE GitCallsProofs ----------------------------
(***************************************************************************)
(* Proofs about GitCalls: whatever a process of Git writes, when it stops, *)
(* and how the polls of its caller fall, an answer is the whole output of  *)
(* a process that ended by itself, and each file gets its own blob.        *)
(***************************************************************************)
EXTENDS GitCalls, FiniteSetTheorems, SequenceTheorems, TLAPS

(***************************************************************************)
(* What a process has written.                                             *)
(***************************************************************************)
Written(w, s, n) == Cardinality({i \in 1 .. n : w[i] = s})

(* The next write counts for its own stream alone.                         *)
LEMMA WrittenGrows ==
  ASSUME NEW w, NEW s, NEW n \in Nat
  PROVE  /\ Written(w, s, n) \in Nat
         /\ Written(w, s, 0) = 0
         /\ w[n + 1] = s => Written(w, s, n + 1) = Written(w, s, n) + 1
         /\ w[n + 1] # s => Written(w, s, n + 1) = Written(w, s, n)
<1> DEFINE W(k) == {i \in 1 .. k : w[i] = s}
<1>1. IsFiniteSet(1 .. n) /\ W(n) \subseteq 1 .. n
  BY FS_Interval
<1>2. IsFiniteSet(W(n))
  BY <1>1, FS_Subset
<1>3. Cardinality(W(n)) \in Nat
  BY <1>2, FS_CardinalityType
<1>4. W(0) = {} /\ n + 1 \notin W(n)
  OBVIOUS
<1>5. Cardinality(W(n) \union {n + 1}) = Cardinality(W(n)) + 1
  BY <1>2, <1>4, FS_AddElement
<1>6. w[n + 1] = s => W(n + 1) = W(n) \union {n + 1}
  OBVIOUS
<1>7. w[n + 1] # s => W(n + 1) = W(n)
  OBVIOUS
<1>8. Cardinality(W(0)) = 0
  BY <1>4, FS_EmptySet
<1> QED
  BY <1>3, <1>5, <1>6, <1>7, <1>8 DEF Written

(* What was written so far is part of what will be written.                *)
LEMMA WrittenIsPart ==
  ASSUME NEW w, NEW s, NEW n \in Nat, NEW m \in Nat, n <= m
  PROVE  Written(w, s, n) <= Written(w, s, m)
<1> DEFINE W(k) == {i \in 1 .. k : w[i] = s}
<1>1. IsFiniteSet(1 .. m) /\ W(m) \subseteq 1 .. m
  BY FS_Interval
<1>2. IsFiniteSet(W(m)) /\ W(n) \subseteq W(m)
  BY <1>1, FS_Subset
<1>3. Cardinality(W(n)) <= Cardinality(W(m))
  BY <1>2, FS_Subset
<1> QED
  BY <1>3 DEF Written

(***************************************************************************)
(* One run of Git.                                                         *)
(***************************************************************************)
Loop == {"cancelled?", "overflow?", "deadline?", "wait?"}
Joining == {"join out", "join err", "judge"}
Reasons == {"cancelled", "overflow", "timed out", "not started", "unreadable", "failed"}
Errors == {Run!Error(r) : r \in Reasons}

RunTypeOK ==
  /\ command \in Commands
  /\ child \in [at : Nat, state : {"none", "running", "exited", "broken", "killed"}]
  /\ child.at <= Len(command.writes)
  /\ pipe \in [Run!Streams -> Nat]
  /\ pump \in [Run!Streams -> [got : Nat, state : {"none", "reading", "ended", "failed"}]]
  /\ overflow \in BOOLEAN /\ cancelled \in BOOLEAN /\ late \in BOOLEAN
  /\ caller \in [pc : {"start", "done"} \union Loop \union Joining,
                 status : {Nothing, [ok |-> TRUE]} \union Errors,
                 answer : {Nothing} \union Errors \union [ok : {TRUE}, output : Nat]]

(* A byte is in the pipe, read, or the one that was too much; a thread     *)
(* fails of that one alone.                                                *)
NothingIsLost ==
  \A s \in Run!Streams :
    /\ pump[s].got <= MaxOutput[s]
    /\ pump[s].state # "failed" =>
         Written(command.writes, s, child.at) = pipe[s] + pump[s].got
    /\ pump[s].state = "failed" =>
         Written(command.writes, s, child.at) = pipe[s] + MaxOutput[s] + 1

(* A thread ends behind its child, and no message is sent without failing. *)
ThreadsFollow ==
  /\ \A s \in Run!Streams :
       pump[s].state = "ended" => pipe[s] = 0 /\ child.state # "running"
  /\ child.state = "exited" => child.at = Len(command.writes)
  /\ overflow => \E s \in Run!Streams : pump[s].state = "failed"

(* What the loop ended with.                                               *)
StatusHolds ==
  \/ caller.status = [ok |-> TRUE] /\ child.state # "killed"
  \/ caller.status = Run!Error("cancelled") /\ cancelled
  \/ caller.status = Run!Error("timed out") /\ late
  \/ caller.status = Run!Error("overflow") /\ overflow

All(s) == Written(command.writes, s, Len(command.writes))
AnswerHolds ==
  \/ /\ Run!Success /\ caller.answer = [ok |-> TRUE, output |-> All("out")]
     /\ \A s \in Run!Streams : All(s) <= MaxOutput[s]
  \/ caller.answer = Run!Error("cancelled") /\ cancelled
  \/ caller.answer = Run!Error("timed out") /\ late
  \/ caller.answer = Run!Error("unreadable") /\ \E s \in Run!Streams : All(s) > MaxOutput[s]
  \/ caller.answer = Run!Error("failed") /\ child.state # "killed" /\ ~ Run!Success
  \/ caller.answer = Run!Error("not started") /\ child.state = "none"

CallerKnows ==
  /\ caller.pc # "done" => caller.answer = Nothing
  /\ caller.pc = "start" =>
       child.state = "none" /\ pump = [s \in Run!Streams |-> [got |-> 0, state |-> "none"]]
  /\ caller.pc \in Loop => child.state \notin {"none", "killed"}
  /\ caller.pc \in Joining => child.state \notin {"none", "running"} /\ StatusHolds
  /\ caller.pc \in {"join err", "judge"} => pump["out"].state = "ended"
  /\ caller.pc = "judge" => pump["err"].state = "ended"
  /\ caller.pc = "done" => child.state # "running" /\ AnswerHolds

RunInv == RunTypeOK /\ NothingIsLost /\ ThreadsFollow /\ CallerKnows

(***************************************************************************)
(* A reader of blobs.                                                      *)
(***************************************************************************)
Current == reader.number
Holds == Blobs!Holds
Oids(w) == {w[i].oid : i \in DOMAIN w}
Kept == {"blob", "large"}
Failures == {"not started", "not asked", "cancelled", "timed out", "overflow", "malformed",
            "wrong", "stopped"}

Outcomes == [what : Kept \union Failures, oid : Oids(works) \union {Nothing}]
Children == [state : {"none", "running", "dead", "killed"}, requests : Seq(Oids(works))]
Channels ==
  [sent : Seq([oid : Oids(works) \union {Nothing}, holds : Holds]),
   sending : BOOLEAN, stderr : BOOLEAN]

BlobTypeOK ==
  /\ works \in Works
  /\ thread \in [pc : {"next", "wait", "ended"}, done : Seq(Outcomes)]
  /\ reader \in [number : 0 .. Readers, input : BOOLEAN]
  /\ child \in [1 .. Readers -> Children]
  /\ answers \in [1 .. Readers -> Channels]
  /\ cancelled \in BOOLEAN /\ late \in BOOLEAN

(* Only the last reader may be open, and the others are gone.              *)
OneIsOpen ==
  /\ \A r \in 1 .. Readers :
       /\ r > Current =>
            /\ child[r].state = "none" /\ child[r].requests = <<>>
            /\ answers[r].sent = <<>> /\ ~ answers[r].sending
       /\ r < Current \/ (r = Current /\ ~ reader.input) =>
            child[r].state \in {"dead", "killed"} /\ ~ answers[r].sending
  /\ reader.input => Current > 0 /\ child[Current].state \in {"running", "dead"}

End == [oid |-> Nothing, holds |-> "nothing"]
Quiet(r) ==
  /\ child[r].requests = <<>>
  /\ \/ answers[r].sending /\ answers[r].sent = <<>>
     \/ ~ answers[r].sending /\ answers[r].sent = <<End>> /\ child[r].state = "dead"

(* What may be in the channel of a reader that was asked for a file.       *)
Expecting(r, file) ==
  LET answer == [oid |-> file.oid, holds |-> file.holds]
  IN  \/ /\ child[r].requests = <<file.oid>>
         /\ \/ answers[r].sending /\ answers[r].sent = <<>>
            \/ ~ answers[r].sending /\ answers[r].sent = <<End>> /\ child[r].state = "dead"
      \/ /\ child[r].requests = <<>>
         /\ \/ (answers[r].sending <=> file.holds = "blob") /\ answers[r].sent = <<answer>>
            \/ /\ file.holds = "blob" /\ ~ answers[r].sending
               /\ answers[r].sent = <<answer, End>> /\ child[r].state = "dead"

OneIsAsked ==
  /\ thread.pc \in {"next", "wait"} => Len(thread.done) <= Len(works)
  /\ thread.pc = "next" /\ reader.input => Quiet(Current)
  /\ thread.pc = "wait" =>
       reader.input /\ Len(thread.done) < Len(works) /\ Expecting(Current, Blobs!File)
  /\ thread.pc = "ended" => ~ reader.input /\ Len(thread.done) <= Len(works)

IsKept(i) ==
  \/ /\ thread.done[i].what = "blob" /\ works[i].holds = "blob"
     /\ thread.done[i].oid = works[i].oid
  \/ thread.done[i].what = "large" /\ works[i].holds = "large"
Reason(outcome, file) ==
  \/ outcome = "cancelled" /\ cancelled
  \/ outcome = "timed out" /\ late
  \/ outcome = "overflow" /\ answers[Current].stderr
  \/ outcome = "not started"
  \/ outcome = "not asked" /\ child[Current].state = "dead"
  \/ outcome = "malformed" /\ (file.holds = "nothing" \/ child[Current].state = "dead")

FilesAreTold ==
  \A i \in 1 .. Len(thread.done) :
    IsKept(i) \/ (i = Len(thread.done) /\ thread.pc = "ended"
                    /\ Reason(thread.done[i].what, works[i]))

BlobInv == BlobTypeOK /\ OneIsOpen /\ OneIsAsked /\ FilesAreTold

IInv == (part = "run" => RunInv) /\ (part = "blobs" => BlobInv)

(***************************************************************************)
(* A run of Git: each step preserves the invariant.                        *)
(***************************************************************************)

(* What a command is.                                                      *)
LEMMA CommandType ==
  ASSUME GitCallsAssumption, command \in Commands
  PROVE  /\ command.writes \in Seq(Run!Streams) /\ Len(command.writes) \in Nat
         /\ \A s \in Run!Streams : MaxOutput[s] \in Nat
BY DEF GitCallsAssumption

LEMMA RunStarts == ASSUME GitCallsAssumption, InitRun PROVE RunInv
<1> USE DEF InitRun, Run!Init, Run!Streams
<1>1. command \in Commands /\ Len(command.writes) \in Nat
      /\ \A s \in Run!Streams : MaxOutput[s] \in Nat
  BY CommandType
<1>2. /\ child \in [at : Nat, state : {"none", "running", "exited", "broken", "killed"}]
      /\ child.at = 0
  OBVIOUS
<1>3. /\ pump \in [Run!Streams -> [got : Nat, state : {"none", "reading", "ended", "failed"}]]
      /\ pipe \in [Run!Streams -> Nat]
  OBVIOUS
<1>4. caller \in [pc : {"start", "done"} \union Loop \union Joining,
                 status : {Nothing, [ok |-> TRUE]} \union Errors,
                 answer : {Nothing} \union Errors \union [ok : {TRUE}, output : Nat]]
  OBVIOUS
<1>5. /\ child.at <= Len(command.writes)
      /\ overflow \in BOOLEAN /\ cancelled \in BOOLEAN /\ late \in BOOLEAN
  <2>1. child.at <= Len(command.writes)
    BY <1>1, <1>2
  <2> QED
    BY <2>1
<1>9. RunTypeOK
  <2> HIDE DEF InitRun, Run!Init, Run!Streams
  <2> QED
    BY <1>1, <1>2, <1>3, <1>4, <1>5 DEF RunTypeOK
<1>6. \A s : Written(command.writes, s, 0) = 0
  BY WrittenGrows
<1>7. NothingIsLost
  BY <1>1, <1>2, <1>6 DEF NothingIsLost
<1>8. ThreadsFollow /\ CallerKnows
  BY DEF ThreadsFollow, CallerKnows, Loop, Joining
<1> QED
  BY <1>9, <1>7, <1>8 DEF RunInv

(* What Git is said to have written is all that it writes.                 *)
LEMMA AllWritten ==
  ASSUME GitCallsAssumption, command \in Commands, NEW s
  PROVE  Run!Written(s) = All(s)
<1>1. DOMAIN command.writes = 1 .. Len(command.writes)
  BY CommandType
<1>2. {i \in DOMAIN command.writes : command.writes[i] = s}
        = {i \in 1 .. Len(command.writes) : command.writes[i] = s}
  BY <1>1
<1>3. Run!Written(s) = Cardinality({i \in DOMAIN command.writes : command.writes[i] = s})
  BY Zenon DEF Run!Written, Run!Cardinality, Cardinality
<1>4. All(s) = Cardinality({i \in 1 .. Len(command.writes) : command.writes[i] = s})
  BY DEF All, Written
<1> QED
  BY <1>2, <1>3, <1>4

(* What the caller found stays true while others go on.                    *)
LEMMA FindingsStay ==
  ASSUME caller' = caller, command' = command, child' = child,
         cancelled => cancelled', late => late', overflow => overflow'
  PROVE  (StatusHolds => StatusHolds') /\ (AnswerHolds => AnswerHolds')
<1>1. StatusHolds => StatusHolds'
  BY DEF StatusHolds
<1>2. All("out")' = All("out") /\ \A s \in Run!Streams : All(s)' = All(s)
  BY DEF All
<1>3. Run!Success' = Run!Success
  BY DEF Run!Success
<1>4. AnswerHolds => AnswerHolds'
  BY <1>2, <1>3 DEF AnswerHolds
<1> QED
  BY <1>1, <1>4

(* A byte is written: it is in the pipe.                                   *)
LEMMA ChildWritesKeeps ==
  ASSUME GitCallsAssumption, RunInv, Run!ChildWrites PROVE RunInv'
<1> DEFINE s == command.writes[child.at + 1]
<1> USE DEF RunInv, Run!ChildWrites
<1>1. command \in Commands /\ child.at \in Nat /\ child.at < Len(command.writes)
  BY DEF RunTypeOK
<1>2. Len(command.writes) \in Nat /\ command.writes \in Seq(Run!Streams)
  BY <1>1, CommandType
<1>3. s \in Run!Streams
  BY <1>1, <1>2
<1>4. child.state = "running" /\ caller' = caller /\ pump' = pump /\ command' = command
  OBVIOUS
<1>5. CallerKnows'
  <2>1. child'.state \in {"running", "broken"}
    BY <1>4 DEF RunTypeOK
  <2>2. caller.pc \in Loop
    BY <1>4 DEF RunTypeOK, CallerKnows, Loop, Joining
  <2> QED
    BY <1>4, <2>1, <2>2 DEF CallerKnows, Loop, Joining
<1>6. CASE pump[s].state = "failed"
  <2>1. child'.at = child.at /\ child'.state = "broken" /\ pipe' = pipe
    BY <1>6 DEF RunTypeOK
  <2>2. RunTypeOK'
    BY <1>6, <2>1 DEF RunTypeOK
  <2>3. NothingIsLost' /\ ThreadsFollow'
    BY <2>1 DEF NothingIsLost, ThreadsFollow
  <2> QED
    BY <1>5, <2>2, <2>3
<1>7. CASE pump[s].state # "failed"
  <2>1. /\ child'.at = child.at + 1 /\ child'.state = "running"
        /\ pipe' = [pipe EXCEPT ![s] = @ + 1]
    BY <1>7 DEF RunTypeOK
  <2>2. RunTypeOK'
    <3>1. child' \in [at : Nat, state : {"none", "running", "exited", "broken", "killed"}]
      BY <1>7 DEF RunTypeOK
    <3>2. child'.at <= Len(command.writes)
      BY <1>1, <1>2, <2>1
    <3>3. pipe' \in [Run!Streams -> Nat]
      BY <1>3, <2>1 DEF RunTypeOK
    <3> QED
      BY <3>1, <3>2, <3>3 DEF RunTypeOK
  <2>3. ASSUME NEW t \in Run!Streams
        PROVE  /\ pump[t].got <= MaxOutput[t]
               /\ pump[t].state # "failed" =>
                    Written(command.writes, t, child.at + 1) = pipe'[t] + pump[t].got
               /\ pump[t].state = "failed" =>
                    Written(command.writes, t, child.at + 1) = pipe'[t] + MaxOutput[t] + 1
    <3>1. /\ pump[t].got \in Nat /\ pump[t].got <= MaxOutput[t] /\ pipe[t] \in Nat
          /\ MaxOutput[t] \in Nat
      BY <1>1, CommandType DEF RunTypeOK, NothingIsLost
    <3>2. /\ pump[t].state # "failed" =>
               Written(command.writes, t, child.at) = pipe[t] + pump[t].got
          /\ pump[t].state = "failed" =>
               Written(command.writes, t, child.at) = pipe[t] + MaxOutput[t] + 1
      BY DEF NothingIsLost
    <3>3. /\ t = s => pipe'[t] = pipe[t] + 1
          /\ t # s => pipe'[t] = pipe[t]
      BY <1>3, <2>1 DEF RunTypeOK
    <3>4. /\ s = t => Written(command.writes, t, child.at + 1)
                        = Written(command.writes, t, child.at) + 1
          /\ s # t => Written(command.writes, t, child.at + 1)
                        = Written(command.writes, t, child.at)
      BY <1>1, WrittenGrows
    <3> HIDE DEF s
    <3>5. CASE t = s
      BY <1>7, <3>1, <3>2, <3>3, <3>4, <3>5
    <3>6. CASE t # s
      BY <3>1, <3>2, <3>3, <3>4, <3>6
    <3> QED
      BY <3>5, <3>6
  <2>4. NothingIsLost'
    BY <1>4, <2>1, <2>3 DEF NothingIsLost
  <2>5. ThreadsFollow'
    BY <1>4, <2>1 DEF ThreadsFollow
  <2> QED
    BY <1>5, <2>2, <2>4, <2>5
<1> QED
  BY <1>6, <1>7

(* A child ends with all its writes done.                                  *)
LEMMA ChildExitsKeeps ==
  ASSUME RunInv, Run!ChildExits PROVE RunInv'
<1> USE DEF RunInv, Run!ChildExits
<1>1. child'.at = child.at /\ child'.state = "exited"
  BY DEF RunTypeOK
<1>2. RunTypeOK'
  BY DEF RunTypeOK
<1>3. NothingIsLost' /\ ThreadsFollow'
  BY <1>1 DEF NothingIsLost, ThreadsFollow
<1>4. CallerKnows'
  <2>1. caller.pc \in Loop
    BY DEF RunTypeOK, CallerKnows, Loop, Joining
  <2> QED
    BY <1>1, <2>1 DEF CallerKnows, Loop, Joining
<1> QED
  BY <1>2, <1>3, <1>4

(* A byte is read: it is kept, or it was the one too much.                 *)
LEMMA PumpReadsKeeps ==
  ASSUME GitCallsAssumption, RunInv, NEW s \in Run!Streams, Run!PumpReads(s) PROVE RunInv'
<1> USE DEF RunInv, Run!PumpReads
<1>1. /\ command \in Commands /\ command' = command /\ child' = child /\ caller' = caller
      /\ pump[s].state = "reading" /\ pipe[s] \in Nat /\ pipe[s] > 0
      /\ pipe' = [pipe EXCEPT ![s] = @ - 1] /\ pump[s].got \in Nat
      /\ cancelled' = cancelled /\ late' = late
  BY DEF RunTypeOK
<1>2. MaxOutput[s] \in Nat /\ pump[s].got <= MaxOutput[s]
  BY <1>1, CommandType DEF NothingIsLost
<1>3. pipe' \in [Run!Streams -> Nat] /\ pipe'[s] = pipe[s] - 1
      /\ \A t \in Run!Streams \ {s} : pipe'[t] = pipe[t]
  BY <1>1 DEF RunTypeOK
<1>4. /\ \A t \in Run!Streams \ {s} : pump'[t] = pump[t]
      /\ pump' \in [Run!Streams -> [got : Nat, state : {"none", "reading", "ended", "failed"}]]
      /\ overflow' \in BOOLEAN
      /\ \/ pump'[s].got = pump[s].got /\ pump'[s].state = "failed" /\ pump[s].got = MaxOutput[s]
         \/ /\ pump'[s].got = pump[s].got + 1 /\ pump'[s].state = "reading"
            /\ pump[s].got + 1 <= MaxOutput[s] /\ overflow' = overflow
  <2>1. CASE pump[s].got + 1 > MaxOutput[s]
    <3>1. pump' = [pump EXCEPT ![s].state = "failed"] /\ overflow'
      BY <2>1
    <3> QED
      BY <1>1, <1>2, <2>1, <3>1 DEF RunTypeOK
  <2>2. CASE ~ (pump[s].got + 1 > MaxOutput[s])
    <3>1. pump' = [pump EXCEPT ![s].got = @ + 1] /\ overflow' = overflow
      BY <2>2
    <3> QED
      BY <1>1, <1>2, <2>2, <3>1 DEF RunTypeOK
  <2> QED
    BY <2>1, <2>2
<1>5. RunTypeOK'
  BY <1>1, <1>3, <1>4 DEF RunTypeOK
<1>6. NothingIsLost'
  <2>1. ASSUME NEW t \in Run!Streams, t # s
        PROVE  pump'[t] = pump[t] /\ pipe'[t] = pipe[t]
    BY <1>3, <1>4, <2>1
  <2>2. Written(command.writes, s, child.at) = pipe[s] + pump[s].got
    BY <1>1 DEF NothingIsLost
  <2>3. /\ pump'[s].got <= MaxOutput[s]
        /\ pump'[s].state # "failed" =>
             Written(command.writes, s, child.at) = pipe'[s] + pump'[s].got
        /\ pump'[s].state = "failed" =>
             Written(command.writes, s, child.at) = pipe'[s] + MaxOutput[s] + 1
    BY <1>1, <1>2, <1>3, <1>4, <2>2
  <2> QED
    BY <1>1, <2>1, <2>3 DEF NothingIsLost
<1>7. ThreadsFollow'
  <2>1. \A t \in Run!Streams : pump'[t].state = "ended" => t # s /\ pump[t].state = "ended"
    BY <1>1, <1>4
  <2>2. overflow' => \E t \in Run!Streams : pump'[t].state = "failed"
    <3>1. overflow /\ overflow' = overflow => \E t \in Run!Streams : pump'[t].state = "failed"
      BY <1>1, <1>4 DEF ThreadsFollow
    <3> QED
      BY <1>4, <3>1
  <2> QED
    BY <1>1, <1>3, <2>1, <2>2 DEF ThreadsFollow
<1>8. CallerKnows'
  <2>1. pump[s].state # "ended" /\ pump[s].state # "none"
    BY <1>1
  <2>2. caller.pc \in {"join err", "judge"} => s # "out"
    BY <2>1 DEF CallerKnows
  <2>3. caller.pc = "judge" => s # "err"
    BY <2>1 DEF CallerKnows
  <2>4. caller.pc # "start"
    <3>1. caller.pc = "start" => pump = [t \in Run!Streams |-> [got |-> 0, state |-> "none"]]
      BY DEF CallerKnows
    <3> QED
      BY <1>1, <3>1
  <2>5. "out" \in Run!Streams /\ "err" \in Run!Streams
    BY DEF Run!Streams
  <2>6. overflow => overflow'
    OBVIOUS
  <2>7. (StatusHolds => StatusHolds') /\ (AnswerHolds => AnswerHolds')
    BY <1>1, <2>6, FindingsStay
  <2> QED
    BY <1>1, <1>4, <2>2, <2>3, <2>4, <2>5, <2>7 DEF CallerKnows
<1> QED
  BY <1>5, <1>6, <1>7, <1>8

(* A thread ends when its pipe is empty and no one will write to it.       *)
LEMMA PumpEndsKeeps ==
  ASSUME RunInv, NEW s \in Run!Streams, Run!PumpEnds(s) PROVE RunInv'
<1> USE DEF RunInv, Run!PumpEnds
<1>1. /\ \A t \in Run!Streams : pump'[t].got = pump[t].got
      /\ \A t \in Run!Streams \ {s} : pump'[t] = pump[t]
      /\ pump[s].state = "reading" /\ pump'[s].state = "ended"
  BY DEF RunTypeOK
<1>2. RunTypeOK'
  BY DEF RunTypeOK
<1>3. NothingIsLost'
  BY <1>1 DEF NothingIsLost
<1>4. ThreadsFollow'
  <2>1. \A t \in Run!Streams : pump[t].state = "failed" => pump'[t].state = "failed"
    BY <1>1
  <2> QED
    BY <1>1, <2>1 DEF ThreadsFollow
<1>5. CallerKnows'
  <2>1. "out" \in Run!Streams /\ "err" \in Run!Streams
    BY DEF Run!Streams
  <2>2. \A t \in Run!Streams : pump[t].state = "ended" => pump'[t].state = "ended"
    BY <1>1
  <2>3. (StatusHolds => StatusHolds') /\ (AnswerHolds => AnswerHolds')
    BY FindingsStay
  <2>4. caller.pc # "start"
    <3>1. caller.pc = "start" => pump = [t \in Run!Streams |-> [got |-> 0, state |-> "none"]]
      BY DEF CallerKnows
    <3> QED
      BY <1>1, <3>1
  <2>5. caller' = caller /\ child' = child
    OBVIOUS
  <2> QED
    BY <1>1, <2>1, <2>2, <2>3, <2>4, <2>5 DEF CallerKnows
<1> QED
  BY <1>2, <1>3, <1>4, <1>5

(* What a step of the caller leaves alone.                                 *)
Untouched ==
  /\ command' = command /\ pipe' = pipe /\ pump' = pump /\ overflow' = overflow
  /\ cancelled' = cancelled /\ late' = late

(* A step that only moves the caller preserves what is not about it.       *)
LEMMA CallerMoves ==
  ASSUME RunInv, Untouched, child' = child \/ child' = [child EXCEPT !.state = "killed"],
         caller' \in [pc : {"start", "done"} \union Loop \union Joining,
                      status : {Nothing, [ok |-> TRUE]} \union Errors,
                      answer : {Nothing} \union Errors \union [ok : {TRUE}, output : Nat]]
  PROVE  /\ RunTypeOK' /\ NothingIsLost' /\ ThreadsFollow'
         /\ child'.at = child.at
<1> USE DEF RunInv, Untouched
<1>1. child'.at = child.at /\ child'.state \in {child.state, "killed"}
      /\ child' \in [at : Nat, state : {"none", "running", "exited", "broken", "killed"}]
  BY DEF RunTypeOK
<1>2. RunTypeOK'
  BY <1>1 DEF RunTypeOK
<1>3. NothingIsLost' /\ ThreadsFollow'
  BY <1>1 DEF NothingIsLost, ThreadsFollow
<1> QED
  BY <1>1, <1>2, <1>3

(* The status and the answer are of the sets they are typed with.          *)
LEMMA CallerType ==
  ASSUME RunInv
  PROVE  /\ \A pc \in {"start", "done"} \union Loop \union Joining :
              [caller EXCEPT !.pc = pc]
                \in [pc : {"start", "done"} \union Loop \union Joining,
                     status : {Nothing, [ok |-> TRUE]} \union Errors,
                     answer : {Nothing} \union Errors \union [ok : {TRUE}, output : Nat]]
         /\ \A status \in {[ok |-> TRUE]} \union Errors :
              [caller EXCEPT !.pc = "join out", !.status = status]
                \in [pc : {"start", "done"} \union Loop \union Joining,
                     status : {Nothing, [ok |-> TRUE]} \union Errors,
                     answer : {Nothing} \union Errors \union [ok : {TRUE}, output : Nat]]
         /\ \A answer \in Errors \union [ok : {TRUE}, output : Nat] :
              [caller EXCEPT !.pc = "done", !.answer = answer]
                \in [pc : {"start", "done"} \union Loop \union Joining,
                     status : {Nothing, [ok |-> TRUE]} \union Errors,
                     answer : {Nothing} \union Errors \union [ok : {TRUE}, output : Nat]]
<1> DEFINE Places == {"start", "done"} \union Loop \union Joining
           Statuses == {Nothing, [ok |-> TRUE]} \union Errors
           Answers == {Nothing} \union Errors \union [ok : {TRUE}, output : Nat]
<1>1. caller \in [pc : Places, status : Statuses, answer : Answers]
  BY DEF RunInv, RunTypeOK
<1>2. "join out" \in Places /\ "done" \in Places
  BY DEF Joining
<1>3. {[ok |-> TRUE]} \union Errors \subseteq Statuses
      /\ Errors \union [ok : {TRUE}, output : Nat] \subseteq Answers
  OBVIOUS
<1> HIDE DEF Places, Statuses, Answers
<1>4. \A pc \in Places :
        [caller EXCEPT !.pc = pc] \in [pc : Places, status : Statuses, answer : Answers]
  BY <1>1
<1>5. \A status \in Statuses :
        [caller EXCEPT !.pc = "join out", !.status = status]
          \in [pc : Places, status : Statuses, answer : Answers]
  BY <1>1, <1>2
<1>6. \A answer \in Answers :
        [caller EXCEPT !.pc = "done", !.answer = answer]
          \in [pc : Places, status : Statuses, answer : Answers]
  BY <1>1, <1>2
<1> QED
  BY <1>3, <1>4, <1>5, <1>6 DEF Places, Statuses, Answers

(* The fields of the caller after such a step.                             *)
LEMMA CallerFields ==
  ASSUME RunInv, NEW x, NEW y
  PROVE  /\ [caller EXCEPT !.pc = x].pc = x
         /\ [caller EXCEPT !.pc = x].status = caller.status
         /\ [caller EXCEPT !.pc = x].answer = caller.answer
         /\ [caller EXCEPT !.pc = x, !.status = y].pc = x
         /\ [caller EXCEPT !.pc = x, !.status = y].status = y
         /\ [caller EXCEPT !.pc = x, !.status = y].answer = caller.answer
         /\ [caller EXCEPT !.pc = x, !.answer = y].pc = x
         /\ [caller EXCEPT !.pc = x, !.answer = y].status = caller.status
         /\ [caller EXCEPT !.pc = x, !.answer = y].answer = y
BY DEF RunInv, RunTypeOK

(* One look of the loop: it goes on, or kills the child and has a reason.  *)
LEMMA LookKeeps ==
  ASSUME RunInv, NEW pc \in Loop, NEW next \in Loop,
         NEW reason \in {"cancelled", "overflow", "timed out"},
         NEW condition \in BOOLEAN,
         condition => \/ reason = "cancelled" /\ cancelled
                      \/ reason = "timed out" /\ late
                      \/ reason = "overflow" /\ overflow,
         Run!Look(pc, condition, reason, next)
  PROVE  RunInv'
<1>1. /\ caller.pc = pc /\ Untouched
      /\ \/ condition /\ Run!Kill(reason)
         \/ ~ condition /\ Run!Goto(next) /\ child' = child
  BY DEF Run!Look, Untouched
<1>2. child.state \notin {"none", "killed"} /\ caller.answer = Nothing
  BY <1>1 DEF RunInv, CallerKnows, Loop
<1>3. CASE condition
  <2>1. /\ child' = [child EXCEPT !.state = IF @ = "running" THEN "killed" ELSE @]
        /\ caller' = [caller EXCEPT !.pc = "join out", !.status = Run!Error(reason)]
    BY <1>1, <1>3 DEF Run!Kill
  <2>2. child' = child \/ child' = [child EXCEPT !.state = "killed"]
    BY <2>1 DEF RunInv, RunTypeOK
  <2>3. child'.state \notin {"none", "running"}
    BY <1>2, <2>1 DEF RunInv, RunTypeOK
  <2>4. /\ caller'.pc = "join out" /\ caller'.status = Run!Error(reason)
        /\ caller'.answer = Nothing
    BY <1>2, <2>1 DEF RunInv, RunTypeOK
  <2>5. Run!Error(reason) \in {[ok |-> TRUE]} \union Errors
    BY DEF Errors, Reasons
  <2>6. RunTypeOK' /\ NothingIsLost' /\ ThreadsFollow'
    BY <1>1, <2>1, <2>2, <2>5, CallerMoves, CallerType
  <2>7. StatusHolds'
    BY <1>1, <1>3, <2>4 DEF StatusHolds, Untouched
  <2>8. CallerKnows'
    BY <2>3, <2>4, <2>7 DEF CallerKnows, Loop, Joining
  <2> QED
    BY <2>6, <2>8 DEF RunInv
<1>4. CASE ~ condition
  <2>1. caller' = [caller EXCEPT !.pc = next] /\ child' = child
    BY <1>1, <1>4 DEF Run!Goto
  <2>2. caller'.pc = next /\ caller'.answer = Nothing
    BY <1>2, <2>1, CallerFields
  <2>3. RunTypeOK' /\ NothingIsLost' /\ ThreadsFollow'
    BY <1>1, <2>1, CallerMoves, CallerType
  <2>4. CallerKnows'
    BY <1>2, <2>1, <2>2 DEF CallerKnows, Loop, Joining
  <2> QED
    BY <2>3, <2>4 DEF RunInv
<1> QED
  BY <1>3, <1>4

LEMMA PollKeeps == ASSUME RunInv, Run!Poll PROVE RunInv'
<1>1. cancelled \in BOOLEAN /\ late \in BOOLEAN /\ overflow \in BOOLEAN
  BY DEF RunInv, RunTypeOK
<1>2. CASE Run!Look("cancelled?", cancelled, "cancelled", "overflow?")
  BY <1>1, <1>2, LookKeeps DEF Loop
<1>3. CASE Run!Look("overflow?", overflow, "overflow", "deadline?")
  BY <1>1, <1>3, LookKeeps DEF Loop
<1>4. CASE Run!Look("deadline?", late, "timed out", "wait?")
  BY <1>1, <1>4, LookKeeps DEF Loop
<1> QED
  BY <1>2, <1>3, <1>4 DEF Run!Poll

(* The child is waited for without waiting.                                *)
LEMMA TryWaitKeeps == ASSUME RunInv, Run!TryWait PROVE RunInv'
<1>1. caller.pc = "wait?" /\ Untouched /\ child' = child
  BY DEF Run!TryWait, Untouched
<1>2. child.state \notin {"none", "killed"} /\ caller.answer = Nothing
  BY <1>1 DEF RunInv, CallerKnows, Loop
<1>3. CASE child.state = "running"
  <2>1. caller' = [caller EXCEPT !.pc = "cancelled?"]
    BY <1>3 DEF Run!TryWait, Run!Goto
  <2>2. caller'.pc = "cancelled?" /\ caller'.answer = Nothing
    BY <1>2, <2>1, CallerFields
  <2>3. RunTypeOK' /\ NothingIsLost' /\ ThreadsFollow'
    BY <1>1, <2>1, CallerMoves, CallerType DEF Loop
  <2>4. CallerKnows'
    BY <1>1, <1>2, <2>2 DEF CallerKnows, Loop, Joining
  <2> QED
    BY <2>3, <2>4 DEF RunInv
<1>4. CASE child.state # "running"
  <2>1. caller' = [caller EXCEPT !.pc = "join out", !.status = [ok |-> TRUE]]
    BY <1>4 DEF Run!TryWait
  <2>2. caller'.pc = "join out" /\ caller'.answer = Nothing /\ caller'.status = [ok |-> TRUE]
    BY <1>2, <2>1, CallerFields
  <2>3. RunTypeOK' /\ NothingIsLost' /\ ThreadsFollow'
    BY <1>1, <2>1, CallerMoves, CallerType
  <2>4. StatusHolds'
    BY <1>1, <1>2, <2>2 DEF StatusHolds
  <2>5. CallerKnows'
    BY <1>1, <1>2, <1>4, <2>2, <2>4 DEF CallerKnows, Loop, Joining
  <2> QED
    BY <2>3, <2>5 DEF RunInv
<1> QED
  BY <1>3, <1>4

(* The caller answers.                                                     *)
LEMMA AnswerKeeps ==
  ASSUME RunInv, Untouched, child' = child, child.state # "running",
         NEW answer \in Errors \union [ok : {TRUE}, output : Nat],
         Run!Answer(answer),
         \/ /\ Run!Success /\ answer = [ok |-> TRUE, output |-> All("out")]
            /\ \A s \in Run!Streams : All(s) <= MaxOutput[s]
         \/ answer = Run!Error("cancelled") /\ cancelled
         \/ answer = Run!Error("timed out") /\ late
         \/ answer = Run!Error("unreadable") /\ \E s \in Run!Streams : All(s) > MaxOutput[s]
         \/ answer = Run!Error("failed") /\ child.state # "killed" /\ ~ Run!Success
         \/ answer = Run!Error("not started") /\ child.state = "none"
  PROVE  RunInv'
<1>1. caller' = [caller EXCEPT !.pc = "done", !.answer = answer]
  BY DEF Run!Answer
<1>2. caller'.pc = "done" /\ caller'.answer = answer
  BY <1>1 DEF RunInv, RunTypeOK
<1>3. RunTypeOK' /\ NothingIsLost' /\ ThreadsFollow'
  BY <1>1, CallerMoves, CallerType
<1>4. All("out")' = All("out") /\ \A s \in Run!Streams : All(s)' = All(s)
  BY DEF All, Untouched
<1>5. Run!Success' = Run!Success
  BY DEF Run!Success, Untouched
<1>6. AnswerHolds'
  BY <1>2, <1>4, <1>5 DEF AnswerHolds, Untouched
<1>7. CallerKnows'
  BY <1>2, <1>6 DEF CallerKnows, Loop, Joining
<1> QED
  BY <1>3, <1>7 DEF RunInv

(* run_git begins: it answers at once, or starts the child and its threads. *)
LEMMA StartKeeps == ASSUME GitCallsAssumption, RunInv, Run!Start PROVE RunInv'
<1>1. /\ caller.pc = "start" /\ child.state = "none" /\ caller.answer = Nothing
      /\ pump = [s \in Run!Streams |-> [got |-> 0, state |-> "none"]]
  BY DEF Run!Start, RunInv, CallerKnows
<1>2. \A r \in Reasons : Run!Error(r) \in Errors
  BY DEF Errors
<1>3. CASE child' = child /\ pump' = pump
  <2>1. Untouched
    BY <1>3 DEF Run!Start, Untouched
  <2>2. CASE cancelled /\ Run!Answer(Run!Error("cancelled"))
    <3>1. Run!Error("cancelled") \in Errors \union [ok : {TRUE}, output : Nat]
      BY <1>2 DEF Reasons
    <3> QED
      BY <1>1, <1>3, <2>1, <2>2, <3>1, AnswerKeeps
  <2>3. CASE late /\ Run!Answer(Run!Error("timed out"))
    <3>1. Run!Error("timed out") \in Errors \union [ok : {TRUE}, output : Nat]
      BY <1>2 DEF Reasons
    <3> QED
      BY <1>1, <1>3, <2>1, <2>3, <3>1, AnswerKeeps
  <2>4. CASE Run!Answer(Run!Error("not started"))
    <3>1. Run!Error("not started") \in Errors \union [ok : {TRUE}, output : Nat]
      BY <1>2 DEF Reasons
    <3> QED
      BY <1>1, <1>3, <2>1, <2>4, <3>1, AnswerKeeps
  <2>5. child' # [child EXCEPT !.state = "running"]
    BY <1>1, <1>3 DEF RunInv, RunTypeOK
  <2> QED
    BY <2>2, <2>3, <2>4, <2>5 DEF Run!Start
<1>4. CASE /\ Run!Goto("cancelled?") /\ child' = [child EXCEPT !.state = "running"]
           /\ pump' = [s \in Run!Streams |-> [got |-> 0, state |-> "reading"]]
  <2>1. caller' = [caller EXCEPT !.pc = "cancelled?"]
    BY <1>4 DEF Run!Goto
  <2>2. caller'.pc = "cancelled?" /\ caller'.answer = Nothing
    BY <1>1, <2>1, CallerFields
  <2>3. caller' \in [pc : {"start", "done"} \union Loop \union Joining,
                     status : {Nothing, [ok |-> TRUE]} \union Errors,
                     answer : {Nothing} \union Errors \union [ok : {TRUE}, output : Nat]]
    BY <2>1, CallerType DEF Loop
  <2>4. /\ child' \in [at : Nat, state : {"none", "running", "exited", "broken", "killed"}]
        /\ child'.at = child.at /\ child'.state = "running"
    BY <1>4 DEF RunInv, RunTypeOK
  <2>5. pump' \in [Run!Streams -> [got : Nat, state : {"none", "reading", "ended", "failed"}]]
    BY <1>4
  <2>6. command' = command /\ pipe' = pipe /\ overflow' = overflow
        /\ cancelled' = cancelled /\ late' = late
    BY DEF Run!Start
  <2>7. RunTypeOK'
    BY <2>3, <2>4, <2>5, <2>6 DEF RunInv, RunTypeOK
  <2>8. \A s \in Run!Streams :
          /\ pump[s].got = 0 /\ pump[s].state = "none"
          /\ pump'[s].got = 0 /\ pump'[s].state = "reading"
    BY <1>1, <1>4
  <2>9. NothingIsLost'
    BY <2>4, <2>6, <2>8 DEF RunInv, NothingIsLost
  <2>10. ThreadsFollow'
    BY <2>4, <2>6, <2>8 DEF RunInv, ThreadsFollow
  <2>11. CallerKnows'
    BY <2>2, <2>4 DEF CallerKnows, Loop, Joining
  <2> QED
    BY <2>7, <2>9, <2>10, <2>11 DEF RunInv
<1> QED
  BY <1>3, <1>4 DEF Run!Start

LEMMA MoreThan == \A a, b, c, w \in Nat : w = b + c + 1 /\ w <= a => a > c
OBVIOUS

(* A thread is joined: its error is the answer, whatever the loop found.   *)
LEMMA JoinKeeps ==
  ASSUME GitCallsAssumption, RunInv, NEW s \in Run!Streams, NEW pc, NEW next,
         \/ s = "out" /\ pc = "join out" /\ next = "join err"
         \/ s = "err" /\ pc = "join err" /\ next = "judge",
         Run!Join(s, pc, next)
  PROVE  RunInv'
<1>1. /\ caller.pc = pc /\ pc \in Joining /\ next \in Joining
      /\ Untouched /\ child' = child /\ pump[s].state \in {"ended", "failed"}
      /\ next = "join err" => s = "out"
      /\ next = "judge" => s = "err" /\ pc = "join err"
      /\ next # "join out"
  BY DEF Run!Join, Untouched, Joining
<1>2. /\ child.state \notin {"none", "running"} /\ caller.answer = Nothing /\ StatusHolds
  BY <1>1 DEF RunInv, CallerKnows, Joining
<1>3. CASE pump[s].state = "failed"
  <2>1. Run!Answer(Run!Error("unreadable"))
    BY <1>3 DEF Run!Join
  <2>2. Run!Error("unreadable") \in Errors \union [ok : {TRUE}, output : Nat]
    BY DEF Errors, Reasons
  <2>3. command \in Commands /\ child.at \in Nat /\ child.at <= Len(command.writes)
        /\ pipe[s] \in Nat
    BY DEF RunInv, RunTypeOK
  <2>4. Len(command.writes) \in Nat /\ MaxOutput[s] \in Nat
    BY <2>3, CommandType
  <2>5. Written(command.writes, s, child.at) = pipe[s] + MaxOutput[s] + 1
    BY <1>3 DEF RunInv, NothingIsLost
  <2>6. /\ Written(command.writes, s, child.at) <= All(s)
        /\ All(s) \in Nat /\ Written(command.writes, s, child.at) \in Nat
    BY <2>3, <2>4, WrittenIsPart, WrittenGrows DEF All
  <2>7. All(s) > MaxOutput[s]
    BY <2>3, <2>4, <2>5, <2>6, MoreThan
  <2> QED
    BY <1>1, <1>2, <2>1, <2>2, <2>7, AnswerKeeps
<1>4. CASE pump[s].state = "ended"
  <2>1. caller' = [caller EXCEPT !.pc = next]
    BY <1>4 DEF Run!Join, Run!Goto
  <2>2. caller'.pc = next /\ caller'.answer = Nothing /\ caller'.status = caller.status
    BY <1>2, <2>1, CallerFields
  <2>3. RunTypeOK' /\ NothingIsLost' /\ ThreadsFollow'
    BY <1>1, <2>1, CallerMoves, CallerType
  <2>4. StatusHolds'
    BY <1>1, <1>2, <2>2 DEF StatusHolds, Untouched
  <2>5. pump' = pump
    BY <1>1 DEF Untouched
  <2>6. next \in {"join err", "judge"} => pump'["out"].state = "ended"
    BY <1>1, <1>4, <2>5 DEF RunInv, CallerKnows
  <2>7. next = "judge" => pump'["err"].state = "ended"
    BY <1>1, <1>4, <2>5
  <2>8. CallerKnows'
    BY <1>1, <1>2, <2>2, <2>4, <2>6, <2>7 DEF CallerKnows, Loop, Joining
  <2> QED
    BY <2>3, <2>8 DEF RunInv
<1> QED
  BY <1>1, <1>3, <1>4

LEMMA ErrorsAreNot == \A r : ~ Run!Error(r).ok
BY DEF Run!Error

(* The answer: no thread failed, so nothing overflowed, and what was read  *)
(* is what was written.                                                    *)
LEMMA JudgeKeeps == ASSUME GitCallsAssumption, RunInv, Run!Judge PROVE RunInv'
<1>1. /\ caller.pc = "judge" /\ Untouched /\ child' = child
      /\ Run!Answer(IF ~ caller.status.ok THEN caller.status
                    ELSE IF Run!Success THEN [ok |-> TRUE, output |-> pump["out"].got]
                    ELSE Run!Error("failed"))
  BY DEF Run!Judge, Untouched
<1>2. /\ child.state \notin {"none", "running"} /\ StatusHolds
      /\ pump["out"].state = "ended" /\ pump["err"].state = "ended"
  BY <1>1 DEF RunInv, CallerKnows, Joining
<1>3. \A s \in Run!Streams : pump[s].state = "ended" /\ pipe[s] = 0
  BY <1>2 DEF RunInv, ThreadsFollow, Run!Streams
<1>4. ~ overflow
  BY <1>3 DEF RunInv, ThreadsFollow
<1>5. command \in Commands /\ child.at \in Nat /\ pump["out"].got \in Nat
      /\ \A s \in Run!Streams : pump[s].got \in Nat
  BY DEF RunInv, RunTypeOK, Run!Streams
<1>6. CASE Run!Success
  <2>1. child.at = Len(command.writes)
    BY <1>6 DEF RunInv, ThreadsFollow, Run!Success
  <2>2. \A s \in Run!Streams : All(s) = pump[s].got /\ All(s) <= MaxOutput[s]
    BY <1>3, <1>5, <2>1 DEF RunInv, NothingIsLost, All
  <2>3. caller.status.ok => caller.status = [ok |-> TRUE]
    BY <1>2, ErrorsAreNot DEF StatusHolds
  <2>4. CASE caller.status.ok
    <3>1. Run!Answer([ok |-> TRUE, output |-> All("out")])
      BY <1>1, <1>6, <2>2, <2>4 DEF Run!Streams
    <3>2. [ok |-> TRUE, output |-> All("out")] \in Errors \union [ok : {TRUE}, output : Nat]
      BY <1>5, <2>2 DEF Run!Streams
    <3> QED
      BY <1>1, <1>2, <1>6, <2>2, <3>1, <3>2, AnswerKeeps
  <2>5. CASE ~ caller.status.ok
    <3>1. Run!Answer(caller.status)
      BY <1>1, <2>5
    <3>2. caller.status # [ok |-> TRUE]
      BY <2>5
    <3>3. \/ caller.status = Run!Error("cancelled") /\ cancelled
          \/ caller.status = Run!Error("timed out") /\ late
      BY <1>2, <1>4, <3>2 DEF StatusHolds
    <3>4. caller.status \in Errors \union [ok : {TRUE}, output : Nat]
      BY <3>3 DEF Errors, Reasons
    <3> QED
      BY <1>1, <1>2, <3>1, <3>3, <3>4, AnswerKeeps
  <2> QED
    BY <2>4, <2>5
<1>7. CASE ~ Run!Success
  <2>1. CASE caller.status = [ok |-> TRUE] /\ child.state # "killed"
    <3>1. Run!Answer(Run!Error("failed"))
      BY <1>1, <1>7, <2>1
    <3>2. Run!Error("failed") \in Errors \union [ok : {TRUE}, output : Nat]
      BY DEF Errors, Reasons
    <3> QED
      BY <1>1, <1>2, <1>7, <2>1, <3>1, <3>2, AnswerKeeps
  <2>2. CASE \/ caller.status = Run!Error("cancelled") /\ cancelled
             \/ caller.status = Run!Error("timed out") /\ late
    <3>1. ~ caller.status.ok
      BY <2>2, ErrorsAreNot
    <3>2. Run!Answer(caller.status)
      BY <1>1, <3>1
    <3>3. caller.status \in Errors \union [ok : {TRUE}, output : Nat]
      BY <2>2 DEF Errors, Reasons
    <3> QED
      BY <1>1, <1>2, <2>2, <3>2, <3>3, AnswerKeeps
  <2> QED
    BY <1>2, <1>4, <2>1, <2>2 DEF StatusHolds
<1> QED
  BY <1>6, <1>7

LEMMA ToldLasts ==
  ASSUME works' = works, thread' = thread, reader' = reader, child' = child,
         answers' = answers, cancelled => cancelled', late => late', FilesAreTold
  PROVE  FilesAreTold'
<1>1. ASSUME NEW i \in 1 .. Len(thread'.done)
      PROVE  \/ IsKept(i)'
             \/ i = Len(thread'.done) /\ thread'.pc = "ended"
                  /\ Reason(thread.done[i].what, works[i])'
  <2>1. \/ IsKept(i)
        \/ i = Len(thread.done) /\ thread.pc = "ended" /\ Reason(thread.done[i].what, works[i])
    BY <1>1, Zenon DEF FilesAreTold
  <2>2. IsKept(i) => IsKept(i)'
    BY Zenon DEF IsKept
  <2>3. Reason(thread.done[i].what, works[i]) => Reason(thread.done[i].what, works[i])'
    BY Zenon DEF Reason, Current
  <2> QED
    BY <2>1, <2>2, <2>3, Zenon
<1> QED
  BY <1>1, Zenon DEF FilesAreTold

(* The flag is set, or the deadline passes.                                *)
LEMMA OthersKeep ==
  ASSUME RunInv, Run!Cancel \/ Run!Tick PROVE RunInv'
<1>1. /\ command' = command /\ child' = child /\ pipe' = pipe /\ pump' = pump
      /\ overflow' = overflow /\ caller' = caller
      /\ cancelled' \in BOOLEAN /\ late' \in BOOLEAN
      /\ (cancelled => cancelled') /\ (late => late')
  BY DEF Run!Cancel, Run!Tick, RunInv, RunTypeOK
<1>2. RunTypeOK'
  BY <1>1 DEF RunInv, RunTypeOK
<1>3. NothingIsLost' /\ ThreadsFollow'
  BY <1>1 DEF RunInv, NothingIsLost, ThreadsFollow
<1>4. (StatusHolds => StatusHolds') /\ (AnswerHolds => AnswerHolds')
  BY <1>1, FindingsStay
<1>5. CallerKnows'
  BY <1>1, <1>4 DEF RunInv, CallerKnows
<1> QED
  BY <1>2, <1>3, <1>5 DEF RunInv

LEMMA RunSteps == ASSUME GitCallsAssumption, RunInv, Run!Next PROVE RunInv'
<1>1. CASE Run!Caller
  <2>1. CASE Run!JoinThreads
    <3>1. CASE Run!Join("out", "join out", "join err")
      BY <3>1, JoinKeeps DEF Run!Streams
    <3>2. CASE Run!Join("err", "join err", "judge")
      BY <3>2, JoinKeeps DEF Run!Streams
    <3> QED
      BY <2>1, <3>1, <3>2 DEF Run!JoinThreads
  <2> QED
    BY <1>1, <2>1, StartKeeps, PollKeeps, TryWaitKeeps, JudgeKeeps DEF Run!Caller
<1>2. CASE Run!Child
  BY <1>2, ChildWritesKeeps, ChildExitsKeeps DEF Run!Child
<1>3. ASSUME NEW s \in Run!Streams, Run!Pump(s) PROVE RunInv'
  BY <1>3, PumpReadsKeeps, PumpEndsKeeps DEF Run!Pump
<1> QED
  BY <1>1, <1>2, <1>3, OthersKeep DEF Run!Next

(* What holds of the answer is what was promised of it.                    *)
LEMMA RunInvSuffices == ASSUME GitCallsAssumption, RunInv PROVE Run!AnswerIsWhole
<1>1. command \in Commands
  BY DEF RunInv, RunTypeOK
<1>2. \A s : Run!Written(s) = All(s)
  BY <1>1, AllWritten
<1>3. SUFFICES ASSUME caller.answer # Nothing
               PROVE  Run!AnswerIsWhole
  BY DEF Run!AnswerIsWhole
<1>4. caller.pc = "done" /\ child.state # "running" /\ AnswerHolds
  BY <1>3 DEF RunInv, CallerKnows
<1>5. CASE /\ Run!Success /\ caller.answer = [ok |-> TRUE, output |-> All("out")]
           /\ \A s \in Run!Streams : All(s) <= MaxOutput[s]
  <2>1. caller.answer.ok /\ caller.answer.output = Run!Written("out")
    BY <1>2, <1>5
  <2>2. \A s \in Run!Streams : Run!Written(s) <= MaxOutput[s]
    BY <1>2, <1>5
  <2> QED
    BY <1>4, <1>5, <2>1, <2>2 DEF Run!AnswerIsWhole
<1>6. ASSUME NEW r, caller.answer = Run!Error(r)
      PROVE  ~ caller.answer.ok /\ caller.answer.reason = r
  BY <1>6, ErrorsAreNot DEF Run!Error
<1>7. CASE caller.answer = Run!Error("cancelled") /\ cancelled
  <2>1. ~ caller.answer.ok /\ caller.answer.reason = "cancelled"
    BY <1>6, <1>7
  <2> QED
    BY <1>4, <1>7, <2>1 DEF Run!AnswerIsWhole
<1>8. CASE caller.answer = Run!Error("timed out") /\ late
  <2>1. ~ caller.answer.ok /\ caller.answer.reason = "timed out"
    BY <1>6, <1>8
  <2> QED
    BY <1>4, <1>8, <2>1 DEF Run!AnswerIsWhole
<1>9. CASE caller.answer = Run!Error("unreadable") /\ \E s \in Run!Streams : All(s) > MaxOutput[s]
  <2>1. \E s \in Run!Streams : Run!Written(s) > MaxOutput[s]
    BY <1>2, <1>9
  <2>2. ~ caller.answer.ok /\ caller.answer.reason = "unreadable"
    BY <1>6, <1>9
  <2> QED
    BY <1>4, <2>1, <2>2 DEF Run!AnswerIsWhole
<1>10. CASE caller.answer = Run!Error("failed") /\ child.state # "killed" /\ ~ Run!Success
  <2>1. ~ caller.answer.ok /\ caller.answer.reason = "failed"
    BY <1>6, <1>10
  <2> QED
    BY <1>4, <1>10, <2>1 DEF Run!AnswerIsWhole
<1>11. CASE caller.answer = Run!Error("not started") /\ child.state = "none"
  <2>1. ~ caller.answer.ok /\ caller.answer.reason = "not started"
    BY <1>6, <1>11
  <2> QED
    BY <1>4, <1>11, <2>1 DEF Run!AnswerIsWhole
<1> QED
  BY <1>4, <1>5, <1>7, <1>8, <1>9, <1>10, <1>11 DEF AnswerHolds

(***************************************************************************)
(* A reader of blobs: each step preserves the invariant.                   *)
(***************************************************************************)

LEMMA PairAppended == ASSUME NEW a, NEW b PROVE Append(<<a>>, b) = <<a, b>>
<1> DEFINE t == Append(<<a>>, b)
           u == <<a, b>>
<1>1. t \in Seq({a, b})
  OBVIOUS
<1>2. Len(t) = 2
  OBVIOUS
<1>3. t[1] = a
  OBVIOUS
<1>4. t[2] = b
  OBVIOUS
<1>5. u \in Seq({a, b}) /\ Len(u) = 2 /\ u[1] = a /\ u[2] = b
  OBVIOUS
<1> HIDE DEF t, u
<1>6. t = [i \in 1 .. 2 |-> t[i]] /\ u = [i \in 1 .. 2 |-> u[i]]
  BY <1>1, <1>2, <1>5
<1>7. \A i \in 1 .. 2 : t[i] = u[i]
  BY <1>3, <1>4, <1>5
<1>8. t = u
  BY <1>6, <1>7
<1> QED
  BY <1>8 DEF t, u

(* What the works are: an object ID holds one thing.                       *)
LEMMA WorkType ==
  ASSUME GitCallsAssumption, works \in Works
  PROVE  /\ Readers \in Nat /\ Len(works) \in Nat /\ DOMAIN works = 1 .. Len(works)
         /\ \A i \in 1 .. Len(works) :
              /\ works[i].oid \in Oids(works) /\ works[i].oid # Nothing
              /\ works[i].holds \in Holds
              /\ Blobs!Holding(works[i].oid) = works[i].holds
<1>1. /\ works \in Seq([oid : {works[i].oid : i \in DOMAIN works} \ {Nothing}, holds : Holds])
      /\ \A i, j \in DOMAIN works : works[i].oid = works[j].oid => works[i].holds = works[j].holds
      /\ Readers \in Nat
  BY DEF GitCallsAssumption, Holds
<1>2. DOMAIN works = 1 .. Len(works) /\ Len(works) \in Nat
  BY <1>1
<1>3. ASSUME NEW i \in 1 .. Len(works)
      PROVE  /\ works[i].oid \in Oids(works) /\ works[i].oid # Nothing
             /\ works[i].holds \in Holds
             /\ Blobs!Holding(works[i].oid) = works[i].holds
  <2>1. works[i] \in [oid : {works[j].oid : j \in DOMAIN works} \ {Nothing}, holds : Holds]
    <3> DEFINE S == [oid : {works[j].oid : j \in DOMAIN works} \ {Nothing}, holds : Holds]
    <3>1. works \in Seq(S)
      BY <1>1
    <3> HIDE DEF S
    <3>2. works[i] \in S
      BY <1>2, <3>1
    <3> QED
      BY <3>2 DEF S
  <2>2. works[i].oid \in Oids(works) /\ works[i].oid # Nothing /\ works[i].holds \in Holds
    BY <2>1 DEF Oids
  <2>3. PICK j \in DOMAIN works :
          works[j].oid = works[i].oid /\ Blobs!Holding(works[i].oid) = works[j].holds
    BY <1>2 DEF Blobs!Holding
  <2>4. i \in DOMAIN works
    BY <1>2
  <2> QED
    BY <1>1, <2>2, <2>3, <2>4
<1> QED
  BY <1>1, <1>2, <1>3

LEMMA BlobsStart == ASSUME GitCallsAssumption, InitBlobs PROVE BlobInv
<1> USE DEF InitBlobs, Blobs!Init
<1>1. works \in Works /\ Readers \in Nat /\ Len(works) \in Nat
  BY WorkType
<1>2. thread \in [pc : {"next", "wait", "ended"}, done : Seq(Outcomes)] /\ thread.done = <<>>
      /\ thread.pc = "next" /\ Len(thread.done) = 0
  OBVIOUS
<1>3. reader \in [number : 0 .. Readers, input : BOOLEAN]
      /\ reader.number = 0 /\ ~ reader.input
  BY <1>1
<1>4. child \in [1 .. Readers -> Children]
      /\ \A r \in 1 .. Readers : child[r].state = "none" /\ child[r].requests = <<>>
  BY DEF Children
<1>5. answers \in [1 .. Readers -> Channels]
      /\ \A r \in 1 .. Readers : answers[r].sent = <<>> /\ ~ answers[r].sending
  BY DEF Channels
<1>6. cancelled \in BOOLEAN /\ late \in BOOLEAN
  OBVIOUS
<1> HIDE DEF InitBlobs, Blobs!Init
<1>7. BlobTypeOK
  BY <1>1, <1>2, <1>3, <1>4, <1>5, <1>6 DEF BlobTypeOK
<1>8. OneIsOpen
  BY <1>1, <1>3, <1>4, <1>5 DEF OneIsOpen, Current
<1>9. OneIsAsked /\ FilesAreTold
  BY <1>1, <1>2, <1>3 DEF OneIsAsked, FilesAreTold
<1> QED
  BY <1>7, <1>8, <1>9 DEF BlobInv

(* The parts of the type, for the steps.                                   *)
LEMMA BlobTypes ==
  ASSUME GitCallsAssumption, BlobInv
  PROVE  /\ works \in Works /\ Readers \in Nat /\ Current \in 0 .. Readers
         /\ thread.pc \in {"next", "wait", "ended"} /\ thread.done \in Seq(Outcomes)
         /\ Len(thread.done) \in Nat /\ Len(works) \in Nat
         /\ reader.input \in BOOLEAN
         /\ \A r \in 1 .. Readers :
              /\ child[r] \in Children /\ child[r].requests \in Seq(Oids(works))
              /\ child[r].state \in {"none", "running", "dead", "killed"}
              /\ answers[r] \in Channels
              /\ answers[r].sent \in Seq([oid : Oids(works) \union {Nothing}, holds : Holds])
              /\ answers[r].sending \in BOOLEAN /\ answers[r].stderr \in BOOLEAN
<1>1. /\ works \in Works /\ reader \in [number : 0 .. Readers, input : BOOLEAN]
      /\ thread \in [pc : {"next", "wait", "ended"}, done : Seq(Outcomes)]
      /\ child \in [1 .. Readers -> Children] /\ answers \in [1 .. Readers -> Channels]
  BY DEF BlobInv, BlobTypeOK
<1>2. thread.pc \in {"next", "wait", "ended"} /\ thread.done \in Seq(Outcomes)
      /\ Len(thread.done) \in Nat
  BY <1>1
<1>3. Readers \in Nat /\ Len(works) \in Nat
  BY <1>1, WorkType
<1>4. \A r \in 1 .. Readers : child[r] \in Children /\ answers[r] \in Channels
  BY <1>1
<1>5. \A c \in Children :
        c.requests \in Seq(Oids(works)) /\ c.state \in {"none", "running", "dead", "killed"}
  BY DEF Children
<1>6. \A c \in Channels :
        /\ c.sent \in Seq([oid : Oids(works) \union {Nothing}, holds : Holds])
        /\ c.sending \in BOOLEAN /\ c.stderr \in BOOLEAN
  BY DEF Channels
<1>7. Current \in 0 .. Readers /\ reader.input \in BOOLEAN
  BY <1>1 DEF Current
<1> QED
  BY <1>1, <1>2, <1>3, <1>4, <1>5, <1>6, <1>7

(* One child, or one channel, is changed.                                  *)
LEMMA ChildChanges ==
  ASSUME GitCallsAssumption, BlobInv, NEW r \in 1 .. Readers, NEW c \in Children,
         child' = [child EXCEPT ![r] = c]
  PROVE  /\ child' \in [1 .. Readers -> Children] /\ child'[r] = c
         /\ \A q \in 1 .. Readers : q # r => child'[q] = child[q]
BY DEF BlobInv, BlobTypeOK

LEMMA ChannelChanges ==
  ASSUME GitCallsAssumption, BlobInv, NEW r \in 1 .. Readers, NEW c \in Channels,
         answers' = [answers EXCEPT ![r] = c]
  PROVE  /\ answers' \in [1 .. Readers -> Channels] /\ answers'[r] = c
         /\ \A q \in 1 .. Readers : q # r => answers'[q] = answers[q]
BY DEF BlobInv, BlobTypeOK

(* The fields that a step of the model changes.                            *)
LEMMA ChildEdits ==
  ASSUME NEW c \in Children
  PROVE  /\ \A q \in Seq(Oids(works)) :
              /\ [c EXCEPT !.requests = q] \in Children
              /\ [c EXCEPT !.requests = q].requests = q
              /\ [c EXCEPT !.requests = q].state = c.state
         /\ \A s \in {"none", "running", "dead", "killed"} :
              /\ [c EXCEPT !.state = s] \in Children
              /\ [c EXCEPT !.state = s].requests = c.requests
              /\ [c EXCEPT !.state = s].state = s
<1> DEFINE Q == Seq(Oids(works))
<1> HIDE DEF Q
<1>1. Children = [state : {"none", "running", "dead", "killed"}, requests : Q]
  BY DEF Children, Q
<1>2. \A q \in Q :
        /\ [c EXCEPT !.requests = q] \in Children
        /\ [c EXCEPT !.requests = q].requests = q
        /\ [c EXCEPT !.requests = q].state = c.state
  BY <1>1
<1> QED
  BY <1>1, <1>2 DEF Q

LEMMA ChannelEdits ==
  ASSUME NEW c \in Channels, NEW b \in BOOLEAN,
         NEW q \in Seq([oid : Oids(works) \union {Nothing}, holds : Holds])
  PROVE  /\ [sent |-> q, sending |-> b, stderr |-> c.stderr] \in Channels
         /\ [c EXCEPT !.sent = q, !.sending = b]
              = [sent |-> q, sending |-> b, stderr |-> c.stderr]
         /\ [c EXCEPT !.sent = q] = [sent |-> q, sending |-> c.sending, stderr |-> c.stderr]
         /\ [c EXCEPT !.sending = b] = [sent |-> c.sent, sending |-> b, stderr |-> c.stderr]
<1> DEFINE Q == Seq([oid : Oids(works) \union {Nothing}, holds : Holds])
           x == [c EXCEPT !.sent = q, !.sending = b]
           y == [c EXCEPT !.sent = q]
           z == [c EXCEPT !.sending = b]
<1> HIDE DEF Q
<1>1. Channels = [sent : Q, sending : BOOLEAN, stderr : BOOLEAN] /\ q \in Q
  BY DEF Channels, Q
<1>2. /\ x \in [sent : {q}, sending : {b}, stderr : {c.stderr}]
      /\ y \in [sent : {q}, sending : {c.sending}, stderr : {c.stderr}]
      /\ z \in [sent : {c.sent}, sending : {b}, stderr : {c.stderr}]
  BY <1>1
<1>3. [sent |-> q, sending |-> b, stderr |-> c.stderr] \in Channels
  BY <1>1
<1> HIDE DEF x, y, z
<1>4. x = [sent |-> q, sending |-> b, stderr |-> c.stderr]
  BY <1>2
<1>5. y = [sent |-> q, sending |-> c.sending, stderr |-> c.stderr]
  BY <1>2
<1>6. z = [sent |-> c.sent, sending |-> b, stderr |-> c.stderr]
  BY <1>2
<1> QED
  BY <1>3, <1>4, <1>5, <1>6 DEF x, y, z

LEMMA ChannelSends ==
  ASSUME NEW c \in Channels, NEW b \in BOOLEAN,
         NEW q \in Seq([oid : Oids(works) \union {Nothing}, holds : Holds])
  PROVE  [c EXCEPT !.sent = q, !.sending = b]
           = [sent |-> q, sending |-> b, stderr |-> c.stderr]
<1> DEFINE Q == Seq([oid : Oids(works) \union {Nothing}, holds : Holds])
           x == [c EXCEPT !.sent = q, !.sending = b]
<1> HIDE DEF Q
<1>1. Channels = [sent : Q, sending : BOOLEAN, stderr : BOOLEAN] /\ q \in Q
  BY DEF Channels, Q
<1>2. x \in [sent : {q}, sending : {b}, stderr : {c.stderr}]
  BY <1>1
<1> HIDE DEF x
<1>3. x = [sent |-> q, sending |-> b, stderr |-> c.stderr]
  BY <1>2
<1> QED
  BY <1>3 DEF x

(* The reader that is open stays open.                                     *)
LEMMA OpenStays ==
  ASSUME GitCallsAssumption, BlobInv, reader' = reader, reader.input,
         child'[Current].state \in {"running", "dead"},
         \A q \in 1 .. Readers :
           q # Current => child'[q] = child[q] /\ answers'[q] = answers[q]
  PROVE  OneIsOpen'
<1>1. Current' = Current /\ Current \in Nat /\ Current > 0 /\ Readers \in Nat
  BY BlobTypes DEF Current, BlobInv, OneIsOpen
<1>2. ASSUME NEW q \in 1 .. Readers, q > Current
      PROVE  /\ child'[q].state = "none" /\ child'[q].requests = <<>>
             /\ answers'[q].sent = <<>> /\ ~ answers'[q].sending
  BY <1>1, <1>2 DEF BlobInv, OneIsOpen
<1>3. ASSUME NEW q \in 1 .. Readers, q < Current
      PROVE  child'[q].state \in {"dead", "killed"} /\ ~ answers'[q].sending
  BY <1>1, <1>3 DEF BlobInv, OneIsOpen
<1> QED
  BY <1>1, <1>2, <1>3 DEF OneIsOpen

(* A process that runs, or whose answers are awaited, is that of the       *)
(* reader that is open.                                                    *)
LEMMA OnlyOneRuns ==
  ASSUME GitCallsAssumption, BlobInv, NEW r \in 1 .. Readers,
         child[r].state = "running" \/ (answers[r].sending /\ child[r].state = "dead")
  PROVE  r = Current /\ reader.input /\ thread.pc \in {"next", "wait"}
<1>1. r \in Nat /\ Current \in Nat /\ reader.input \in BOOLEAN
  BY BlobTypes
<1>2. r > Current => child[r].state = "none"
  BY DEF BlobInv, OneIsOpen
<1>3. r < Current \/ (r = Current /\ ~ reader.input) =>
        child[r].state \in {"dead", "killed"} /\ ~ answers[r].sending
  BY DEF BlobInv, OneIsOpen
<1>4. r = Current /\ reader.input
  BY <1>1, <1>2, <1>3
<1> QED
  BY <1>4, BlobTypes DEF BlobInv, OneIsAsked

(* The file that was asked for.                                            *)
LEMMA FileType ==
  ASSUME GitCallsAssumption, BlobInv, Len(thread.done) < Len(works)
  PROVE  /\ Blobs!File.oid \in Oids(works) /\ Blobs!File.oid # Nothing
         /\ Blobs!File.holds \in Holds
         /\ Blobs!Holding(Blobs!File.oid) = Blobs!File.holds
<1>1. Len(thread.done) + 1 \in 1 .. Len(works)
  BY BlobTypes
<1> QED
  BY <1>1, BlobTypes, WorkType DEF Blobs!File

(* An answer to one request.                                               *)
LEMMA RespondKeeps ==
  ASSUME GitCallsAssumption, BlobInv, NEW r \in 1 .. Readers, Blobs!Respond(r)
  PROVE  BlobInv'
<1> DEFINE file == Blobs!File
           answer == [oid |-> file.oid, holds |-> file.holds]
           Old == <<works, thread, reader, cancelled, late>>
<1>1. /\ child[r].state = "running" /\ child[r].requests # <<>> /\ answers[r].sending
      /\ Old' = Old
  BY DEF Blobs!Respond
<1>2. r = Current /\ reader.input /\ thread.pc = "wait"
  <2>1. thread.pc # "next"
    BY <1>1, OnlyOneRuns DEF BlobInv, OneIsAsked, Quiet
  <2> QED
    BY <1>1, <2>1, OnlyOneRuns
<1>3. Len(thread.done) < Len(works) /\ Expecting(r, file)
  BY <1>2 DEF BlobInv, OneIsAsked
<1>4. child[r].requests = <<file.oid>> /\ answers[r].sent = <<>>
  BY <1>1, <1>3 DEF Expecting
<1>5. Head(child[r].requests) = file.oid /\ Tail(child[r].requests) = <<>>
  BY <1>4
<1>6. file.oid \in Oids(works) /\ file.holds \in Holds /\ Blobs!Holding(file.oid) = file.holds
  BY <1>3, FileType
<1>7. /\ child' = [child EXCEPT ![r].requests = <<>>]
      /\ answers' = [answers EXCEPT ![r].sent = Append(@, answer),
                                    ![r].sending = answer.holds = "blob"]
  BY <1>5, <1>6 DEF Blobs!Respond
<1>8. Append(answers[r].sent, answer) = <<answer>>
      /\ answer \in [oid : Oids(works) \union {Nothing}, holds : Holds]
  BY <1>4, <1>6
<1> HIDE DEF file, answer
<1>9. /\ child' \in [1 .. Readers -> Children]
      /\ child'[r].requests = <<>> /\ child'[r].state = child[r].state
      /\ \A q \in 1 .. Readers : q # r => child'[q] = child[q]
  <2> DEFINE c == [child[r] EXCEPT !.requests = <<>>]
  <2>1. c \in Children /\ c.requests = <<>> /\ c.state = child[r].state
    <3>1. <<>> \in Seq(Oids(works))
      OBVIOUS
    <3>2. child[r] \in Children
      BY BlobTypes
    <3> QED
      BY <3>1, <3>2, ChildEdits, Zenon
  <2>2. child' = [child EXCEPT ![r] = c]
    BY <1>7
  <2> HIDE DEF c
  <2> QED
    BY <2>1, <2>2, ChildChanges
<1>10. /\ answers' \in [1 .. Readers -> Channels]
       /\ answers'[r].sent = <<answer>> /\ answers'[r].sending = (answer.holds = "blob")
       /\ answers'[r].stderr = answers[r].stderr
       /\ \A q \in 1 .. Readers : q # r => answers'[q] = answers[q]
  <2> DEFINE b == answer.holds = "blob"
             c == [sent |-> <<answer>>, sending |-> b, stderr |-> answers[r].stderr]
  <2>1. <<answer>> \in Seq([oid : Oids(works) \union {Nothing}, holds : Holds])
    BY <1>8
  <2>2. c \in Channels
    <3> HIDE DEF b
    <3>1. b \in BOOLEAN /\ answers[r].stderr \in BOOLEAN
      BY BlobTypes DEF b
    <3> QED
      BY <2>1, <3>1 DEF Channels
  <2>4. [answers[r] EXCEPT !.sent = <<answer>>, !.sending = b] = c
    <3> HIDE DEF b
    <3>1. b \in BOOLEAN /\ answers[r] \in Channels
      BY BlobTypes DEF b
    <3>2. PICK d : d = answers[r]
      OBVIOUS
    <3>3. PICK q : q = <<answer>>
      OBVIOUS
    <3>4. PICK sending : sending = b
      OBVIOUS
    <3>5. /\ d \in Channels /\ sending \in BOOLEAN
          /\ q \in Seq([oid : Oids(works) \union {Nothing}, holds : Holds])
      BY <2>1, <3>1, <3>2, <3>3, <3>4
    <3>6. [d EXCEPT !.sent = q, !.sending = sending]
            = [sent |-> q, sending |-> sending, stderr |-> d.stderr]
      BY <3>5, ChannelSends, Zenon
    <3> QED
      BY <3>2, <3>3, <3>4, <3>6
  <2>3. answers' = [answers EXCEPT ![r] = c]
    BY <1>7, <1>8, <2>4
  <2>5. c.sent = <<answer>> /\ c.sending = b /\ c.stderr = answers[r].stderr
    OBVIOUS
  <2> HIDE DEF c
  <2> QED
    BY <2>2, <2>3, <2>5, ChannelChanges
<1>11. BlobTypeOK'
  BY <1>1, <1>9, <1>10 DEF BlobInv, BlobTypeOK, Outcomes, Children, Channels
<1>12. OneIsOpen'
  BY <1>1, <1>2, <1>9, <1>10, OpenStays
<1>13. Expecting(r, file)'
  BY <1>1, <1>9, <1>10 DEF Expecting, answer, file, Blobs!File
<1>14. OneIsAsked'
  BY <1>1, <1>2, <1>3, <1>13 DEF OneIsAsked, Current, file
<1>15. FilesAreTold'
  BY <1>1, <1>2 DEF BlobInv, FilesAreTold, IsKept
<1> QED
  BY <1>11, <1>12, <1>14, <1>15 DEF BlobInv

(* What is true of a reader stays true while its child dies or complains.  *)
LEMMA ToldStays ==
  ASSUME GitCallsAssumption, BlobInv, thread' = thread, works' = works,
         thread.pc # "ended"
  PROVE  FilesAreTold'
BY DEF BlobInv, FilesAreTold, IsKept

(* The end of the output of a child that died.                             *)
LEMMA ReadEndKeeps ==
  ASSUME GitCallsAssumption, BlobInv, NEW r \in 1 .. Readers, Blobs!ReadEnd(r)
  PROVE  BlobInv'
<1> DEFINE file == Blobs!File
           answer == [oid |-> file.oid, holds |-> file.holds]
           Records == [oid : Oids(works) \union {Nothing}, holds : Holds]
<1>1. /\ child[r].state = "dead" /\ answers[r].sending
      /\ works' = works /\ thread' = thread /\ reader' = reader /\ child' = child
      /\ cancelled' = cancelled /\ late' = late
      /\ answers' = [answers EXCEPT ![r].sent = Append(@, End), ![r].sending = FALSE]
  BY DEF Blobs!ReadEnd, End
<1>2. r = Current /\ reader.input /\ thread.pc \in {"next", "wait"}
  BY <1>1, OnlyOneRuns
<1>3. answers[r] \in Channels /\ answers[r].sent \in Seq(Records)
  BY BlobTypes
<1>4. End \in Records
  BY DEF End, Holds, Blobs!Holds
<1>5. Append(answers[r].sent, End) \in Seq(Records)
  <2> HIDE DEF Records
  <2> QED
    BY <1>3, <1>4
<1>6. /\ answers' \in [1 .. Readers -> Channels]
      /\ answers'[r].sent = Append(answers[r].sent, End) /\ ~ answers'[r].sending
      /\ answers'[r].stderr = answers[r].stderr
      /\ \A q \in 1 .. Readers : q # r => answers'[q] = answers[q]
  <2> DEFINE sent == Append(answers[r].sent, End)
             c == [sent |-> sent, sending |-> FALSE, stderr |-> answers[r].stderr]
  <2>1. c \in Channels /\ [answers[r] EXCEPT !.sent = sent, !.sending = FALSE] = c
    <3> HIDE DEF sent
    <3>1. sent \in Seq(Records)
      BY <1>5 DEF sent
    <3> QED
      BY <1>3, <3>1, ChannelEdits
  <2>2. answers' = [answers EXCEPT ![r] = c]
    BY <1>1, <2>1
  <2>3. c.sent = sent /\ c.sending = FALSE /\ c.stderr = answers[r].stderr
    OBVIOUS
  <2> HIDE DEF c
  <2> QED
    BY <2>1, <2>2, <2>3, ChannelChanges
<1>7. BlobTypeOK'
  BY <1>1, <1>6 DEF BlobInv, BlobTypeOK, Outcomes, Children, Channels
<1>8. child[Current].state \in {"running", "dead"}
  BY <1>1, <1>2
<1>9. OneIsOpen'
  BY <1>1, <1>2, <1>6, <1>8, OpenStays
<1>10. ASSUME thread.pc = "next" PROVE Quiet(Current)'
  <2>1. child[r].requests = <<>> /\ answers[r].sent = <<>>
    BY <1>1, <1>2, <1>10 DEF BlobInv, OneIsAsked, Quiet
  <2>2. Append(answers[r].sent, End) = <<End>>
    BY <2>1
  <2> QED
    BY <1>1, <1>2, <1>6, <2>1, <2>2 DEF Quiet, Current
<1>11. ASSUME thread.pc = "wait"
       PROVE  Len(thread.done) < Len(works) /\ Expecting(Current, file)'
  <2>1. Len(thread.done) < Len(works) /\ Expecting(r, file)
    BY <1>2, <1>11 DEF BlobInv, OneIsAsked
  <2>2. file' = file
    BY <1>1 DEF Blobs!File
  <2>3. CASE child[r].requests = <<file.oid>>
    <3>1. answers[r].sent = <<>>
      BY <1>1, <2>1, <2>3 DEF Expecting
    <3>2. Append(answers[r].sent, End) = <<End>>
      BY <3>1
    <3> HIDE DEF file
    <3> QED
      BY <1>1, <1>2, <1>6, <2>1, <2>2, <2>3, <3>2 DEF Expecting, Current
  <2>4. CASE child[r].requests = <<>>
    <3>1. answers[r].sent = <<answer>> /\ file.holds = "blob"
      BY <1>1, <2>1, <2>4 DEF Expecting
    <3>2. Append(answers[r].sent, End) = <<answer, End>>
      <4> HIDE DEF answer
      <4> QED
        BY <3>1, PairAppended
    <3> HIDE DEF file
    <3> QED
      BY <1>1, <1>2, <1>6, <2>1, <2>2, <2>4, <3>1, <3>2 DEF Expecting, Current
  <2> QED
    BY <2>1, <2>3, <2>4 DEF Expecting
<1>12. OneIsAsked'
  BY <1>1, <1>2, <1>10, <1>11 DEF BlobInv, OneIsAsked
<1>13. FilesAreTold'
  BY <1>1, <1>2, ToldStays
<1> QED
  BY <1>7, <1>9, <1>12, <1>13 DEF BlobInv

(* A child dies.                                                           *)
LEMMA DieKeeps ==
  ASSUME GitCallsAssumption, BlobInv, NEW r \in 1 .. Readers, Blobs!Die(r)
  PROVE  BlobInv'
<1>1. /\ child[r].state = "running"
      /\ works' = works /\ thread' = thread /\ reader' = reader /\ answers' = answers
      /\ cancelled' = cancelled /\ late' = late
      /\ child' = [child EXCEPT ![r].state = "dead"]
  BY DEF Blobs!Die
<1>2. r = Current /\ reader.input /\ thread.pc \in {"next", "wait"}
  BY <1>1, OnlyOneRuns
<1>3. /\ child' \in [1 .. Readers -> Children]
      /\ child'[r].requests = child[r].requests /\ child'[r].state = "dead"
      /\ \A q \in 1 .. Readers : q # r => child'[q] = child[q]
  <2> DEFINE c == [child[r] EXCEPT !.state = "dead"]
  <2>1. c \in Children /\ c.requests = child[r].requests /\ c.state = "dead"
    BY BlobTypes, ChildEdits
  <2>2. child' = [child EXCEPT ![r] = c]
    BY <1>1
  <2> HIDE DEF c
  <2> QED
    BY <2>1, <2>2, ChildChanges
<1>4. BlobTypeOK'
  BY <1>1, <1>3 DEF BlobInv, BlobTypeOK, Outcomes, Children, Channels
<1>5. OneIsOpen'
  BY <1>1, <1>2, <1>3, OpenStays
<1>6. Current' = Current /\ Blobs!File' = Blobs!File
  BY <1>1 DEF Current, Blobs!File
<1>7. ASSUME thread.pc = "next" PROVE Quiet(Current)'
  BY <1>1, <1>2, <1>3, <1>6, <1>7 DEF BlobInv, OneIsAsked, Quiet
<1>8. ASSUME thread.pc = "wait"
      PROVE  Len(thread.done) < Len(works) /\ Expecting(Current, Blobs!File)'
  <2>1. Len(thread.done) < Len(works) /\ Expecting(r, Blobs!File)
    BY <1>2, <1>8 DEF BlobInv, OneIsAsked
  <2> QED
    BY <1>1, <1>2, <1>3, <1>6, <2>1 DEF Expecting
<1>9. OneIsAsked'
  BY <1>1, <1>2, <1>7, <1>8 DEF BlobInv, OneIsAsked
<1>10. FilesAreTold'
  BY <1>1, <1>2, ToldStays
<1> QED
  BY <1>4, <1>5, <1>9, <1>10 DEF BlobInv

(* A child writes too much to its standard error.                          *)
LEMMA ComplainKeeps ==
  ASSUME GitCallsAssumption, BlobInv, NEW r \in 1 .. Readers, Blobs!Complain(r)
  PROVE  BlobInv'
<1>1. /\ child[r].state = "running"
      /\ works' = works /\ thread' = thread /\ reader' = reader /\ child' = child
      /\ cancelled' = cancelled /\ late' = late
      /\ answers' = [answers EXCEPT ![r].stderr = TRUE]
  BY DEF Blobs!Complain
<1>2. r = Current /\ reader.input /\ thread.pc \in {"next", "wait"}
  BY <1>1, OnlyOneRuns
<1>3. /\ answers' \in [1 .. Readers -> Channels]
      /\ answers'[r].sent = answers[r].sent /\ answers'[r].sending = answers[r].sending
      /\ \A q \in 1 .. Readers : q # r => answers'[q] = answers[q]
  <2> DEFINE c == [answers[r] EXCEPT !.stderr = TRUE]
             Q == Seq([oid : Oids(works) \union {Nothing}, holds : Holds])
  <2>1. c \in Channels /\ c.sent = answers[r].sent /\ c.sending = answers[r].sending
    <3> HIDE DEF Q
    <3>1. Channels = [sent : Q, sending : BOOLEAN, stderr : BOOLEAN]
      BY DEF Channels, Q
    <3> QED
      BY <3>1, BlobTypes
  <2>2. answers' = [answers EXCEPT ![r] = c]
    BY <1>1
  <2> HIDE DEF c
  <2> QED
    BY <2>1, <2>2, ChannelChanges
<1>4. BlobTypeOK'
  BY <1>1, <1>3 DEF BlobInv, BlobTypeOK, Outcomes, Children, Channels
<1>5. OneIsOpen'
  BY <1>1, <1>2, <1>3, OpenStays
<1>6. Current' = Current /\ Blobs!File' = Blobs!File
  BY <1>1 DEF Current, Blobs!File
<1>7. ASSUME thread.pc = "next" PROVE Quiet(Current)'
  BY <1>1, <1>2, <1>3, <1>6, <1>7 DEF BlobInv, OneIsAsked, Quiet
<1>8. ASSUME thread.pc = "wait"
      PROVE  Len(thread.done) < Len(works) /\ Expecting(Current, Blobs!File)'
  <2>1. Len(thread.done) < Len(works) /\ Expecting(r, Blobs!File)
    BY <1>2, <1>8 DEF BlobInv, OneIsAsked
  <2> QED
    BY <1>1, <1>2, <1>3, <1>6, <2>1 DEF Expecting
<1>9. OneIsAsked'
  BY <1>1, <1>2, <1>7, <1>8 DEF BlobInv, OneIsAsked
<1>10. FilesAreTold'
  BY <1>1, <1>2, ToldStays
<1> QED
  BY <1>4, <1>5, <1>9, <1>10 DEF BlobInv

(* The reader is shut down: its child is gone, and no one sends.           *)
LEMMA ShutDownCloses ==
  ASSUME GitCallsAssumption, BlobInv, reader.input, Blobs!ShutDown
  PROVE  /\ reader' \in [number : 0 .. Readers, input : BOOLEAN]
         /\ child' \in [1 .. Readers -> Children] /\ answers' \in [1 .. Readers -> Channels]
         /\ OneIsOpen' /\ Current' = Current /\ ~ reader'.input
         /\ child[Current].state = "dead" => child'[Current].state = "dead"
         /\ answers'[Current].stderr = answers[Current].stderr
         /\ \A r \in 1 .. Readers : child'[r].state # "running"
<1> DEFINE r == Current
           state == IF child[r].state = "running" THEN "killed" ELSE child[r].state
           c == [state |-> state, requests |-> <<>>]
           a == [sent |-> answers[r].sent, sending |-> FALSE, stderr |-> answers[r].stderr]
<1>1. /\ reader' = [reader EXCEPT !.input = FALSE]
      /\ child' = [child EXCEPT ![r].state = IF @ = "running" THEN "killed" ELSE @,
                                ![r].requests = <<>>]
      /\ answers' = [answers EXCEPT ![r].sending = FALSE]
  BY DEF Blobs!ShutDown, Blobs!Current, Current
<1>2. Current > 0 /\ child[r].state \in {"running", "dead"}
  BY DEF BlobInv, OneIsOpen
<1>3. r \in 1 .. Readers /\ Readers \in Nat
  BY <1>2, BlobTypes
<1>4. /\ reader' \in [number : 0 .. Readers, input : BOOLEAN]
      /\ reader'.number = reader.number /\ reader'.input = FALSE
  BY <1>1 DEF BlobInv, BlobTypeOK
<1>5. Current' = Current /\ ~ reader'.input
  BY <1>4 DEF Current
<1>6. /\ child[r] \in Children /\ answers[r] \in Channels
      /\ answers[r].sent \in Seq([oid : Oids(works) \union {Nothing}, holds : Holds])
      /\ answers[r].stderr \in BOOLEAN
  BY <1>3, BlobTypes
<1>7. state \in {"killed", "dead"} /\ (child[r].state = "dead" => state = "dead")
  BY <1>2
<1>8. c \in Children /\ [child[r] EXCEPT !.state = state, !.requests = <<>>] = c
  <2> DEFINE Q == Seq(Oids(works))
             x == [child[r] EXCEPT !.state = state, !.requests = <<>>]
             e == <<>>
  <2>1. e \in Q
    OBVIOUS
  <2> HIDE DEF Q, e, state
  <2>2. Children = [state : {"none", "running", "dead", "killed"}, requests : Q]
    BY DEF Children, Q
  <2>3. [state |-> state, requests |-> e] \in Children
    BY <1>7, <2>1, <2>2
  <2>4. [child[r] EXCEPT !.state = state, !.requests = e] \in [state : {state}, requests : {e}]
    BY <1>6, <2>2
  <2>5. \A y \in [state : {state}, requests : {e}] : y = [state |-> state, requests |-> e]
    OBVIOUS
  <2> QED
    BY <2>3, <2>4, <2>5 DEF e
<1>9. a \in Channels /\ [answers[r] EXCEPT !.sending = FALSE] = a
  BY <1>6, ChannelEdits
<1>10. child' = [child EXCEPT ![r] = c] /\ answers' = [answers EXCEPT ![r] = a]
  <2>1. child' = [child EXCEPT ![r] = [child[r] EXCEPT !.state = state, !.requests = <<>>]]
    BY <1>1
  <2>2. answers' = [answers EXCEPT ![r] = [answers[r] EXCEPT !.sending = FALSE]]
    BY <1>1
  <2> QED
    BY <1>8, <1>9, <2>1, <2>2, Zenon
<1>11. c.state = state /\ a.sending = FALSE /\ a.stderr = answers[r].stderr
  OBVIOUS
<1> HIDE DEF a, c, state
<1>12. /\ child' \in [1 .. Readers -> Children] /\ child'[r] = c
       /\ \A q \in 1 .. Readers : q # r => child'[q] = child[q]
  BY <1>3, <1>8, <1>10, ChildChanges
<1>13. /\ answers' \in [1 .. Readers -> Channels] /\ answers'[r] = a
       /\ \A q \in 1 .. Readers : q # r => answers'[q] = answers[q]
  BY <1>3, <1>9, <1>10, ChannelChanges
<1>14. ASSUME NEW q \in 1 .. Readers
       PROVE  /\ q > r =>
                   /\ child'[q].state = "none" /\ child'[q].requests = <<>>
                   /\ answers'[q].sent = <<>> /\ ~ answers'[q].sending
              /\ q <= r => child'[q].state \in {"dead", "killed"} /\ ~ answers'[q].sending
  <2>1. CASE q > r
    BY <1>3, <1>12, <1>13, <2>1 DEF BlobInv, OneIsOpen
  <2>2. CASE q < r
    BY <1>3, <1>12, <1>13, <2>2 DEF BlobInv, OneIsOpen
  <2>3. CASE q = r
    BY <1>3, <1>7, <1>11, <1>12, <1>13, <2>3
  <2> QED
    BY <1>3, <2>1, <2>2, <2>3
<1>15. OneIsOpen'
  <2> HIDE DEF r
  <2>1. Current' = r /\ r \in 0 .. Readers
    BY <1>3, <1>5 DEF r
  <2> QED
    BY <1>3, <1>5, <1>14, <2>1 DEF OneIsOpen
<1>16. \A q \in 1 .. Readers : child'[q].state # "running"
  BY <1>3, <1>14
<1> QED
  BY <1>4, <1>5, <1>7, <1>11, <1>12, <1>13, <1>15, <1>16

(* The outcome of one more file.                                           *)
LEMMA OutcomeAdds ==
  ASSUME GitCallsAssumption, BlobInv, thread.pc # "ended",
         Len(thread.done) < Len(works), works' = works,
         NEW o \in Outcomes, NEW pc \in {"next", "ended"},
         thread' = [pc |-> pc, done |-> Append(thread.done, o)],
         NEW file, file = Blobs!File,
         \/ o.what = "blob" /\ file.holds = "blob" /\ o.oid = file.oid
         \/ o.what = "large" /\ file.holds = "large"
         \/ pc = "ended" /\ Reason(o.what, file)'
  PROVE  /\ thread' \in [pc : {"next", "wait", "ended"}, done : Seq(Outcomes)]
         /\ thread'.pc = pc /\ Len(thread'.done) = Len(thread.done) + 1
         /\ Len(thread'.done) <= Len(works)
         /\ FilesAreTold'
<1> DEFINE n == Len(thread.done) + 1
<1>1. thread.done \in Seq(Outcomes) /\ Len(thread.done) \in Nat /\ Len(works) \in Nat
  BY BlobTypes
<1>2. thread'.done = Append(thread.done, o) /\ thread'.pc = pc
  OBVIOUS
<1>3. /\ thread'.done \in Seq(Outcomes) /\ Len(thread'.done) = n
      /\ thread'.done[n] = o
      /\ \A i \in 1 .. Len(thread.done) : thread'.done[i] = thread.done[i]
  BY <1>1, <1>2, AppendProperties
<1>4. thread' \in [pc : {"next", "wait", "ended"}, done : Seq(Outcomes)]
  BY <1>2, <1>3
<1>5. works[n] = file
  BY DEF Blobs!File
<1> HIDE DEF n
<1>6. ASSUME NEW i \in 1 .. n
      PROVE  \/ IsKept(i)'
             \/ /\ i = n /\ thread'.pc = "ended"
                /\ Reason(thread.done[i].what, works[i])'
  <2>1. CASE i = n
    <3>1. CASE \/ o.what = "blob" /\ file.holds = "blob" /\ o.oid = file.oid
               \/ o.what = "large" /\ file.holds = "large"
      BY <1>3, <1>5, <2>1, <3>1 DEF IsKept
    <3>2. CASE pc = "ended" /\ Reason(o.what, file)'
      BY <1>2, <1>3, <1>5, <2>1, <3>2 DEF Reason
    <3> QED
      BY <3>1, <3>2
  <2>2. CASE i # n
    <3>1. i \in 1 .. Len(thread.done)
      BY <1>1, <2>2 DEF n
    <3>2. IsKept(i)
      BY <3>1 DEF BlobInv, FilesAreTold
    <3> QED
      BY <1>3, <3>1, <3>2 DEF IsKept
  <2> QED
    BY <2>1, <2>2
<1>7. FilesAreTold'
  BY <1>3, <1>6 DEF FilesAreTold, Reason
<1> QED
  BY <1>1, <1>2, <1>3, <1>4, <1>7 DEF n

(* The reader is shut down on an error, which is the last outcome.         *)
LEMMA FailureEnds ==
  ASSUME GitCallsAssumption, BlobInv, thread.pc \in {"next", "wait"}, reader.input,
         Len(thread.done) < Len(works), Blobs!ShutDown,
         works' = works, cancelled' = cancelled, late' = late,
         NEW what \in Failures, Blobs!Done(what, "ended"),
         NEW file, file = Blobs!File, Reason(what, file)'
  PROVE  BlobInv'
<1> DEFINE o == [what |-> what, oid |-> Nothing]
<1>1. thread' = [pc |-> "ended", done |-> Append(thread.done, o)]
  BY DEF Blobs!Done, Blobs!Got
<1>2. o \in Outcomes /\ o.what = what
  BY DEF Outcomes
<1> HIDE DEF o
<1>3. /\ thread' \in [pc : {"next", "wait", "ended"}, done : Seq(Outcomes)]
      /\ thread'.pc = "ended" /\ Len(thread'.done) <= Len(works) /\ FilesAreTold'
  BY <1>1, <1>2, OutcomeAdds
<1>4. /\ reader' \in [number : 0 .. Readers, input : BOOLEAN]
      /\ child' \in [1 .. Readers -> Children] /\ answers' \in [1 .. Readers -> Channels]
      /\ OneIsOpen' /\ ~ reader'.input
  BY ShutDownCloses
<1>5. BlobTypeOK'
  BY <1>3, <1>4 DEF BlobInv, BlobTypeOK, Outcomes, Children, Channels
<1>6. OneIsAsked'
  BY <1>3, <1>4 DEF OneIsAsked
<1> QED
  BY <1>3, <1>4, <1>5, <1>6 DEF BlobInv

(* A reader is started, or cannot be.                                      *)
LEMMA SpawnKeeps == ASSUME GitCallsAssumption, BlobInv, Blobs!Spawn PROVE BlobInv'
<1> DEFINE n == Current + 1
<1>1. /\ thread.pc = "next" /\ Len(thread.done) < Len(works) /\ ~ reader.input
      /\ works' = works /\ cancelled' = cancelled /\ late' = late
  BY DEF Blobs!Spawn
<1>2. CASE Blobs!Done("not started", "ended") /\ Blobs!KeepReader
  <2> DEFINE o == [what |-> "not started", oid |-> Nothing]
  <2>1. thread' = [pc |-> "ended", done |-> Append(thread.done, o)]
        /\ reader' = reader /\ child' = child /\ answers' = answers
    BY <1>2 DEF Blobs!Done, Blobs!Got, Blobs!KeepReader
  <2>2. o \in Outcomes /\ o.what = "not started"
    BY DEF Outcomes, Failures
  <2> HIDE DEF o
  <2>3. PICK file : file = Blobs!File
    OBVIOUS
  <2>4. Reason(o.what, file)'
    BY <2>2 DEF Reason
  <2>5. /\ thread' \in [pc : {"next", "wait", "ended"}, done : Seq(Outcomes)]
        /\ thread'.pc = "ended" /\ Len(thread'.done) <= Len(works) /\ FilesAreTold'
    BY <1>1, <2>1, <2>2, <2>3, <2>4, OutcomeAdds
  <2>6. BlobTypeOK'
    BY <1>1, <2>1, <2>5 DEF BlobInv, BlobTypeOK, Outcomes, Children, Channels
  <2>7. OneIsOpen' /\ OneIsAsked'
    BY <1>1, <2>1, <2>5 DEF BlobInv, OneIsOpen, OneIsAsked, Current
  <2> QED
    BY <2>5, <2>6, <2>7 DEF BlobInv
<1>3. CASE /\ Current < Readers
           /\ reader' = [number |-> n, input |-> TRUE]
           /\ child' = [child EXCEPT ![n].state = "running"]
           /\ answers' = [answers EXCEPT ![n].sending = TRUE]
           /\ thread' = thread
  <2>1. n \in 1 .. Readers /\ Current \in 0 .. Readers /\ Readers \in Nat /\ n > Current
    BY <1>3, BlobTypes
  <2>2. /\ child[n].state = "none" /\ child[n].requests = <<>> /\ answers[n].sent = <<>>
    BY <2>1 DEF BlobInv, OneIsOpen
  <2>3. child[n] \in Children /\ answers[n] \in Channels
        /\ answers[n].sent \in Seq([oid : Oids(works) \union {Nothing}, holds : Holds])
    BY <2>1, BlobTypes
  <2>4. /\ child' \in [1 .. Readers -> Children]
        /\ child'[n].requests = <<>> /\ child'[n].state = "running"
        /\ \A q \in 1 .. Readers : q # n => child'[q] = child[q]
    <3> DEFINE c == [child[n] EXCEPT !.state = "running"]
    <3>1. c \in Children /\ c.requests = <<>> /\ c.state = "running"
      BY <2>2, <2>3, ChildEdits
    <3>2. child' = [child EXCEPT ![n] = c]
      BY <1>3
    <3> HIDE DEF c, n
    <3> QED
      BY <2>1, <3>1, <3>2, ChildChanges
  <2>5. /\ answers' \in [1 .. Readers -> Channels]
        /\ answers'[n].sent = <<>> /\ answers'[n].sending
        /\ \A q \in 1 .. Readers : q # n => answers'[q] = answers[q]
    <3> DEFINE c == [sent |-> answers[n].sent, sending |-> TRUE, stderr |-> answers[n].stderr]
    <3>1. c \in Channels /\ [answers[n] EXCEPT !.sending = TRUE] = c
      BY <2>3, ChannelEdits
    <3>2. answers' = [answers EXCEPT ![n] = c]
      BY <1>3, <3>1
    <3>3. c.sent = <<>> /\ c.sending
      BY <2>2
    <3> HIDE DEF c, n
    <3> QED
      BY <2>1, <3>1, <3>2, <3>3, ChannelChanges
  <2>6. Current' = n /\ reader'.input /\ reader' \in [number : 0 .. Readers, input : BOOLEAN]
    BY <1>3, <2>1 DEF Current
  <2>7. BlobTypeOK'
    BY <1>1, <1>3, <2>4, <2>5, <2>6 DEF BlobInv, BlobTypeOK, Outcomes, Children, Channels
  <2>8. ASSUME NEW q \in 1 .. Readers
        PROVE  /\ q > n =>
                    /\ child'[q].state = "none" /\ child'[q].requests = <<>>
                    /\ answers'[q].sent = <<>> /\ ~ answers'[q].sending
               /\ q < n => child'[q].state \in {"dead", "killed"} /\ ~ answers'[q].sending
    <3>1. q > n => q > Current /\ q # n
      BY <2>1
    <3>2. q < n => q <= Current /\ q # n
      BY <2>1
    <3>3. q <= Current => q < Current \/ q = Current
      BY <2>1
    <3> QED
      BY <1>1, <2>4, <2>5, <3>1, <3>2, <3>3 DEF BlobInv, OneIsOpen
  <2> HIDE DEF n
  <2>9. OneIsOpen'
    BY <2>1, <2>4, <2>6, <2>8 DEF OneIsOpen
  <2>10. Quiet(Current)'
    BY <2>4, <2>5, <2>6 DEF Quiet
  <2>11. OneIsAsked'
    BY <1>1, <1>3, <2>10, BlobTypes DEF OneIsAsked
  <2>12. FilesAreTold'
    BY <1>1, <1>3, ToldStays
  <2> QED
    BY <2>7, <2>9, <2>11, <2>12 DEF BlobInv
<1> QED
  BY <1>2, <1>3 DEF Blobs!Spawn, Blobs!Current, Current

(* One request, or an error.                                               *)
LEMMA AskKeeps == ASSUME GitCallsAssumption, BlobInv, Blobs!Ask PROVE BlobInv'
<1> DEFINE r == Current
<1>1. /\ thread.pc = "next" /\ Len(thread.done) < Len(works) /\ reader.input
      /\ works' = works /\ cancelled' = cancelled
  BY DEF Blobs!Ask
<1>2. PICK file : file = Blobs!File
  OBVIOUS
<1>3. r \in 1 .. Readers /\ Readers \in Nat
  BY <1>1, BlobTypes DEF BlobInv, OneIsOpen
<1>4. CASE /\ cancelled /\ Blobs!Done("cancelled", "ended") /\ Blobs!ShutDown /\ late' = late
  <2>1. Reason("cancelled", file)'
    BY <1>1, <1>4 DEF Reason
  <2> QED
    BY <1>1, <1>2, <1>4, <2>1, FailureEnds DEF Failures
<1>5. CASE /\ child[r].state = "dead" /\ Blobs!Done("not asked", "ended") /\ Blobs!ShutDown
           /\ late' = late
  <2>1. Current' = Current /\ child'[Current].state = "dead"
    BY <1>1, <1>5, ShutDownCloses
  <2>2. Reason("not asked", file)'
    BY <2>1 DEF Reason
  <2> QED
    BY <1>1, <1>2, <1>5, <2>2, FailureEnds DEF Failures
<1>6. CASE /\ child[r].state = "running"
           /\ child' = [child EXCEPT ![r].requests = Append(@, Blobs!File.oid)]
           /\ thread' = [thread EXCEPT !.pc = "wait"] /\ late' = FALSE
           /\ reader' = reader /\ answers' = answers
  <2>1. Quiet(r)
    BY <1>1 DEF BlobInv, OneIsAsked
  <2>2. child[r].requests = <<>> /\ answers[r].sending /\ answers[r].sent = <<>>
    BY <1>6, <2>1 DEF Quiet
  <2>3. file.oid \in Oids(works)
    BY <1>1, <1>2, FileType
  <2>4. Append(child[r].requests, file.oid) = <<file.oid>>
    BY <2>2
  <2>5. <<file.oid>> \in Seq(Oids(works))
    BY <2>3
  <2>6. /\ child' \in [1 .. Readers -> Children]
        /\ child'[r].requests = <<file.oid>> /\ child'[r].state = "running"
        /\ \A q \in 1 .. Readers : q # r => child'[q] = child[q]
    <3> DEFINE q == <<file.oid>>
               c == [child[r] EXCEPT !.requests = q]
    <3>1. child[r] \in Children
      BY <1>3, BlobTypes
    <3>2. c \in Children /\ c.requests = q /\ c.state = "running"
      <4>1. q \in Seq(Oids(works))
        BY <2>5
      <4>2. PICK d : d = child[r]
        OBVIOUS
      <4>3. d \in Children /\ d.state = "running"
        BY <1>6, <3>1, <4>2
      <4> HIDE DEF q, r
      <4>4. /\ [d EXCEPT !.requests = q] \in Children
            /\ [d EXCEPT !.requests = q].requests = q
            /\ [d EXCEPT !.requests = q].state = d.state
        BY <4>1, <4>3, ChildEdits, Zenon
      <4>5. c = [d EXCEPT !.requests = q]
        BY <4>2
      <4> QED
        BY <4>3, <4>4, <4>5, Zenon
    <3>3. child' = [child EXCEPT ![r] = c]
      BY <1>2, <1>6, <2>4
    <3> HIDE DEF c
    <3> QED
      BY <1>3, <3>2, <3>3, ChildChanges
  <2>7. thread'.pc = "wait" /\ thread'.done = thread.done
        /\ thread' \in [pc : {"next", "wait", "ended"}, done : Seq(Outcomes)]
    BY <1>6 DEF BlobInv, BlobTypeOK
  <2>8. BlobTypeOK'
    BY <1>1, <1>6, <2>6, <2>7 DEF BlobInv, BlobTypeOK, Outcomes, Children, Channels
  <2>9. OneIsOpen'
    BY <1>1, <1>6, <2>6, OpenStays
  <2>10. Current' = Current /\ Blobs!File' = file
    BY <1>1, <1>2, <1>6, <2>7 DEF Current, Blobs!File
  <2>11. Expecting(Current, Blobs!File)'
    BY <1>6, <2>2, <2>6, <2>10 DEF Expecting
  <2>12. OneIsAsked'
    BY <1>1, <1>6, <2>7, <2>11 DEF OneIsAsked
  <2>13. FilesAreTold'
    BY <1>1, <2>7 DEF BlobInv, FilesAreTold, IsKept
  <2> QED
    BY <2>8, <2>9, <2>12, <2>13 DEF BlobInv
<1> QED
  BY <1>4, <1>5, <1>6 DEF Blobs!Ask, Blobs!Current, Current

(* What is expected of a channel, by what is in it.                        *)
LEMMA ExpectingHolds ==
  ASSUME NEW r, NEW file, Expecting(r, file)
  PROVE  LET answer == [oid |-> file.oid, holds |-> file.holds]
             sent == answers[r].sent
         IN  \/ sent = <<>> /\ answers[r].sending
             \/ /\ sent # <<>> /\ Head(sent) = End /\ child[r].state = "dead"
             \/ /\ sent # <<>> /\ Head(sent) = answer /\ Tail(sent) = <<>>
                /\ child[r].requests = <<>> /\ (answers[r].sending <=> file.holds = "blob")
             \/ /\ sent # <<>> /\ Head(sent) = answer /\ Tail(sent) = <<End>>
                /\ child[r].requests = <<>> /\ file.holds = "blob"
                /\ ~ answers[r].sending /\ child[r].state = "dead"
<1> DEFINE answer == [oid |-> file.oid, holds |-> file.holds]
<1>1. ASSUME NEW a, answers[r].sent = <<a>>
      PROVE  answers[r].sent # <<>> /\ Head(answers[r].sent) = a /\ Tail(answers[r].sent) = <<>>
  BY <1>1
<1>2. ASSUME NEW a, NEW b, answers[r].sent = <<a, b>>
      PROVE  answers[r].sent # <<>> /\ Head(answers[r].sent) = a
             /\ Tail(answers[r].sent) = <<b>>
  BY <1>2
<1>3. \/ answers[r].sent = <<>> /\ answers[r].sending
      \/ answers[r].sent = <<End>> /\ child[r].state = "dead"
      \/ /\ answers[r].sent = <<answer>> /\ child[r].requests = <<>>
         /\ (answers[r].sending <=> file.holds = "blob")
      \/ /\ answers[r].sent = <<answer, End>> /\ child[r].requests = <<>>
         /\ file.holds = "blob" /\ ~ answers[r].sending /\ child[r].state = "dead"
  BY DEF Expecting
<1> HIDE DEF answer
<1> QED
  BY <1>1, <1>2, <1>3 DEF answer

(* The wait is given up; it never finds that no one sends.                 *)
LEMMA GiveUpKeeps == ASSUME GitCallsAssumption, BlobInv, Blobs!GiveUp PROVE BlobInv'
<1>1. /\ thread.pc = "wait" /\ Blobs!ShutDown
      /\ works' = works /\ cancelled' = cancelled /\ late' = late
  BY DEF Blobs!GiveUp
<1>2. reader.input /\ Len(thread.done) < Len(works) /\ Expecting(Current, Blobs!File)
  BY <1>1 DEF BlobInv, OneIsAsked
<1>3. PICK file : file = Blobs!File
  OBVIOUS
<1>4. Current' = Current /\ answers'[Current].stderr = answers[Current].stderr
  BY <1>1, <1>2, ShutDownCloses
<1>5. CASE cancelled /\ Blobs!Done("cancelled", "ended")
  <2>1. Reason("cancelled", file)'
    BY <1>1, <1>5 DEF Reason
  <2> QED
    BY <1>1, <1>2, <1>3, <1>5, <2>1, FailureEnds DEF Failures
<1>6. CASE answers[Current].stderr /\ Blobs!Done("overflow", "ended")
  <2>1. Reason("overflow", file)'
    BY <1>4, <1>6 DEF Reason
  <2> QED
    BY <1>1, <1>2, <1>3, <1>6, <2>1, FailureEnds DEF Failures
<1>7. CASE late /\ Blobs!Done("timed out", "ended")
  <2>1. Reason("timed out", file)'
    BY <1>1, <1>7 DEF Reason
  <2> QED
    BY <1>1, <1>2, <1>3, <1>7, <2>1, FailureEnds DEF Failures
<1>8. ~ (answers[Current].sent = <<>> /\ ~ answers[Current].sending)
  BY <1>2, ExpectingHolds
<1> QED
  BY <1>5, <1>6, <1>7, <1>8 DEF Blobs!GiveUp, Blobs!Current, Current

(* An answer is received: it is that of the file that was asked for.       *)
LEMMA ReceiveKeeps == ASSUME GitCallsAssumption, BlobInv, Blobs!Receive PROVE BlobInv'
<1> DEFINE r == Current
           sent == answers[r].sent
           answer == Head(sent)
<1>1. /\ thread.pc = "wait" /\ sent # <<>>
      /\ works' = works /\ cancelled' = cancelled /\ late' = late
  BY DEF Blobs!Receive, Blobs!Current, Current
<1>2. reader.input /\ Len(thread.done) < Len(works) /\ Expecting(r, Blobs!File)
  BY <1>1 DEF BlobInv, OneIsAsked
<1>3. PICK file : file = Blobs!File
  OBVIOUS
<1>4. r \in 1 .. Readers /\ Readers \in Nat
  BY <1>2, BlobTypes DEF BlobInv, OneIsOpen
<1>5. \/ answer = End /\ child[r].state = "dead"
      \/ /\ answer.oid = file.oid /\ answer.holds = file.holds /\ child[r].requests = <<>>
         /\ \/ Tail(sent) = <<>> /\ (answers[r].sending <=> file.holds = "blob")
            \/ /\ Tail(sent) = <<End>> /\ ~ answers[r].sending
               /\ child[r].state = "dead"
  <2> DEFINE own == [oid |-> file.oid, holds |-> file.holds]
  <2>1. \/ sent = <<>>
        \/ answer = End /\ child[r].state = "dead"
        \/ /\ answer = own /\ Tail(sent) = <<>> /\ child[r].requests = <<>>
           /\ (answers[r].sending <=> file.holds = "blob")
        \/ /\ answer = own /\ Tail(sent) = <<End>> /\ child[r].requests = <<>>
           /\ ~ answers[r].sending /\ child[r].state = "dead"
    <3>1. Expecting(r, file)
      BY <1>2, <1>3
    <3> HIDE DEF r
    <3> QED
      BY <3>1, ExpectingHolds
  <2>2. own.oid = file.oid /\ own.holds = file.holds
    OBVIOUS
  <2> HIDE DEF own
  <2> QED
    BY <1>1, <2>1, <2>2
<1>6. file.oid \in Oids(works)
  BY <1>2, <1>3, FileType
<1>7. CASE /\ answer.holds = "blob" /\ answer.oid = file.oid
           /\ Blobs!Got("blob", "next", answer.oid)
           /\ answers' = [answers EXCEPT ![r].sent = Tail(@)]
           /\ reader' = reader /\ child' = child
  <2> DEFINE o == [what |-> "blob", oid |-> answer.oid]
             rest == Tail(sent)
  <2>1. /\ answer.holds = file.holds /\ child[r].requests = <<>>
        /\ \/ rest = <<>> /\ answers[r].sending
           \/ rest = <<End>> /\ ~ answers[r].sending /\ child[r].state = "dead"
    BY <1>5, <1>7 DEF End
  <2>2. thread' = [pc |-> "next", done |-> Append(thread.done, o)]
    BY <1>7 DEF Blobs!Got
  <2>3. o \in Outcomes /\ o.what = "blob" /\ o.oid = file.oid
    BY <1>6, <1>7 DEF Outcomes, Kept
  <2>4. file.holds = "blob"
    BY <1>7, <2>1
  <2> HIDE DEF o
  <2>5. /\ thread' \in [pc : {"next", "wait", "ended"}, done : Seq(Outcomes)]
        /\ thread'.pc = "next" /\ Len(thread'.done) <= Len(works) /\ FilesAreTold'
    BY <1>1, <1>2, <1>3, <2>2, <2>3, <2>4, OutcomeAdds
  <2>6. /\ answers' \in [1 .. Readers -> Channels]
        /\ answers'[r].sent = rest /\ answers'[r].sending = answers[r].sending
        /\ \A q \in 1 .. Readers : q # r => answers'[q] = answers[q]
    <3> DEFINE c == [sent |-> rest, sending |-> answers[r].sending, stderr |-> answers[r].stderr]
               Records == [oid : Oids(works) \union {Nothing}, holds : Holds]
    <3>1. answers[r] \in Channels /\ sent \in Seq(Records) /\ answers[r].sending \in BOOLEAN
      BY <1>4, BlobTypes
    <3>2. rest \in Seq(Records)
      <4> HIDE DEF Records, sent
      <4> QED
        BY <1>1, <3>1
    <3>3. c \in Channels /\ [answers[r] EXCEPT !.sent = rest] = c
      <4> HIDE DEF rest
      <4> QED
        BY <3>1, <3>2, ChannelEdits
    <3>4. answers' = [answers EXCEPT ![r] = c]
      BY <1>7, <3>3
    <3>5. c.sent = rest /\ c.sending = answers[r].sending
      OBVIOUS
    <3> HIDE DEF c
    <3> QED
      BY <1>4, <3>3, <3>4, <3>5, ChannelChanges
  <2>7. BlobTypeOK'
    BY <1>1, <1>7, <2>5, <2>6 DEF BlobInv, BlobTypeOK, Outcomes, Children, Channels
  <2>8. child'[r].state \in {"running", "dead"} /\ Current' = r
    BY <1>2, <1>7 DEF BlobInv, OneIsOpen, Current
  <2>9. OneIsOpen'
    BY <1>2, <1>7, <2>6, <2>8, OpenStays
  <2>10. Quiet(Current)'
    BY <1>7, <2>1, <2>6, <2>8 DEF Quiet
  <2>11. OneIsAsked'
    BY <1>1, <2>5, <2>10 DEF OneIsAsked
  <2> QED
    BY <2>5, <2>7, <2>9, <2>11 DEF BlobInv
<1>8. CASE answer.holds = "large" /\ Blobs!Done("large", "next") /\ Blobs!ShutDown
  <2> DEFINE o == [what |-> "large", oid |-> Nothing]
  <2>1. file.holds = "large"
    BY <1>5, <1>8 DEF End
  <2>2. thread' = [pc |-> "next", done |-> Append(thread.done, o)]
    BY <1>8 DEF Blobs!Done, Blobs!Got
  <2>3. o \in Outcomes /\ o.what = "large"
    BY DEF Outcomes, Kept
  <2> HIDE DEF o
  <2>4. /\ thread' \in [pc : {"next", "wait", "ended"}, done : Seq(Outcomes)]
        /\ thread'.pc = "next" /\ Len(thread'.done) <= Len(works) /\ FilesAreTold'
    BY <1>1, <1>2, <1>3, <2>1, <2>2, <2>3, OutcomeAdds
  <2>5. /\ reader' \in [number : 0 .. Readers, input : BOOLEAN]
        /\ child' \in [1 .. Readers -> Children] /\ answers' \in [1 .. Readers -> Channels]
        /\ OneIsOpen' /\ ~ reader'.input
    BY <1>2, <1>8, ShutDownCloses
  <2>6. BlobTypeOK'
    BY <1>1, <2>4, <2>5 DEF BlobInv, BlobTypeOK, Outcomes, Children, Channels
  <2>7. OneIsAsked'
    BY <1>1, <2>4, <2>5 DEF OneIsAsked
  <2> QED
    BY <2>4, <2>5, <2>6, <2>7 DEF BlobInv
<1>9. CASE answer.holds = "nothing" /\ Blobs!Done("malformed", "ended") /\ Blobs!ShutDown
  <2>1. Current' = Current /\ (child[Current].state = "dead" => child'[Current].state = "dead")
    BY <1>2, <1>9, ShutDownCloses
  <2>2. file.holds = "nothing" \/ child'[Current'].state = "dead"
    BY <1>5, <1>9, <2>1
  <2>3. Reason("malformed", file)'
    BY <2>2 DEF Reason
  <2> QED
    BY <1>1, <1>2, <1>3, <1>9, <2>3, FailureEnds DEF Failures
<1>10. ~ (answer.holds = "blob" /\ answer.oid # file.oid)
  BY <1>5 DEF End
<1> QED
  BY <1>3, <1>7, <1>8, <1>9, <1>10 DEF Blobs!Receive, Blobs!Current, Current

(* The thread is done with its files.                                      *)
LEMMA LeaveKeeps == ASSUME GitCallsAssumption, BlobInv, Blobs!Leave PROVE BlobInv'
<1>1. /\ thread.pc = "next" /\ Len(thread.done) = Len(works)
      /\ thread' = [thread EXCEPT !.pc = "ended"]
      /\ works' = works /\ cancelled' = cancelled /\ late' = late
      /\ \/ reader.input /\ Blobs!ShutDown
         \/ ~ reader.input /\ reader' = reader /\ child' = child /\ answers' = answers
  BY DEF Blobs!Leave, Blobs!KeepReader
<1>2. /\ thread'.pc = "ended" /\ thread'.done = thread.done
      /\ thread' \in [pc : {"next", "wait", "ended"}, done : Seq(Outcomes)]
  BY <1>1 DEF BlobInv, BlobTypeOK
<1>3. /\ reader' \in [number : 0 .. Readers, input : BOOLEAN]
      /\ child' \in [1 .. Readers -> Children] /\ answers' \in [1 .. Readers -> Channels]
      /\ OneIsOpen' /\ ~ reader'.input
  <2>1. CASE reader.input /\ Blobs!ShutDown
    BY <2>1, ShutDownCloses
  <2>2. CASE ~ reader.input /\ reader' = reader /\ child' = child /\ answers' = answers
    BY <2>2 DEF BlobInv, BlobTypeOK, OneIsOpen, Current
  <2> QED
    BY <1>1, <2>1, <2>2
<1>4. BlobTypeOK'
  BY <1>1, <1>2, <1>3 DEF BlobInv, BlobTypeOK, Outcomes, Children, Channels
<1>5. OneIsAsked'
  BY <1>1, <1>2, <1>3, BlobTypes DEF OneIsAsked
<1>6. FilesAreTold'
  BY <1>1, <1>2 DEF BlobInv, FilesAreTold, IsKept
<1> QED
  BY <1>3, <1>4, <1>5, <1>6 DEF BlobInv

(* The flag is set, or the deadline passes.                                *)
LEMMA FlagsKeep == ASSUME GitCallsAssumption, BlobInv, Blobs!Cancel \/ Blobs!Tick PROVE BlobInv'
<1>1. /\ works' = works /\ thread' = thread /\ reader' = reader /\ child' = child
      /\ answers' = answers /\ cancelled' \in BOOLEAN /\ late' \in BOOLEAN
      /\ (cancelled => cancelled') /\ (late => late')
  BY DEF Blobs!Cancel, Blobs!Tick, BlobInv, BlobTypeOK
<1>2. BlobTypeOK'
  BY <1>1 DEF BlobInv, BlobTypeOK, Outcomes, Children, Channels
<1>3. OneIsOpen'
  BY <1>1 DEF BlobInv, OneIsOpen, Current
<1>4. OneIsAsked'
  BY <1>1 DEF BlobInv, OneIsAsked, Quiet, Expecting, Blobs!File, Current
<1>5. FilesAreTold'
  BY <1>1, ToldLasts, Zenon DEF BlobInv
<1> QED
  BY <1>2, <1>3, <1>4, <1>5 DEF BlobInv

LEMMA BlobSteps == ASSUME GitCallsAssumption, BlobInv, Blobs!Next PROVE BlobInv'
<1>1. CASE Blobs!Thread
  BY <1>1, SpawnKeeps, AskKeeps, GiveUpKeeps, ReceiveKeeps, LeaveKeeps DEF Blobs!Thread
<1>2. ASSUME NEW r \in 1 .. Readers,
             Blobs!Respond(r) \/ Blobs!ReadEnd(r) \/ Blobs!Die(r) \/ Blobs!Complain(r)
      PROVE  BlobInv'
  BY <1>2, RespondKeeps, ReadEndKeeps, DieKeeps, ComplainKeeps
<1> QED
  BY <1>1, <1>2, FlagsKeep DEF Blobs!Next

(* What holds of the outcomes is what was promised of them.                *)
LEMMA BlobInvSuffices == ASSUME GitCallsAssumption, BlobInv PROVE Blobs!BlobsAreTheFiles
<1>1. thread.done \in Seq(Outcomes) /\ DOMAIN thread.done = 1 .. Len(thread.done)
  BY BlobTypes
<1>2. ASSUME NEW i \in 1 .. Len(thread.done)
      PROVE  IsKept(i) \/ (i = Len(thread.done) /\ thread.pc = "ended"
                             /\ Reason(thread.done[i].what, works[i]))
  BY DEF BlobInv, FilesAreTold
<1>3. thread.pc = "ended" => \A r \in 1 .. Readers : child[r].state # "running"
  BY OnlyOneRuns
<1> QED
  BY <1>1, <1>2, <1>3 DEF Blobs!BlobsAreTheFiles, IsKept, Reason, Current, Blobs!Current

(***************************************************************************)
(* The theorems.                                                           *)
(***************************************************************************)

(* However the two ways of using Git go, their invariants hold: what a     *)
(* process wrote is in its pipe, read, or the byte too many (run_git), and *)
(* the channel of the one open reader holds at most the answer to the one  *)
(* request that is open (BlobReader).                                      *)
THEOREM CallsInvariant == SpecCalls => []IInv
<1>1. InitCalls => IInv
  BY GitCallsAssumption, RunStarts, BlobsStart DEF InitCalls, InitRun, InitBlobs, IInv
<1>2. IInv /\ [NextCalls]_callsVars => IInv'
  <2> SUFFICES ASSUME IInv, [NextCalls]_callsVars PROVE IInv'
    OBVIOUS
  <2>1. CASE RunStep
    BY <2>1, GitCallsAssumption, RunSteps DEF RunStep, IInv
  <2>2. CASE BlobStep
    BY <2>2, GitCallsAssumption, BlobSteps DEF BlobStep, IInv
  <2>3. CASE UNCHANGED callsVars
    <3>1. /\ part' = part /\ command' = command /\ pipe' = pipe /\ pump' = pump
          /\ overflow' = overflow /\ caller' = caller /\ works' = works
          /\ thread' = thread /\ reader' = reader /\ answers' = answers
          /\ child' = child /\ cancelled' = cancelled /\ late' = late
      BY <2>3 DEF callsVars, running, reading, process
    <3>2. RunTypeOK => RunTypeOK'
      BY <3>1 DEF RunTypeOK
    <3>3. NothingIsLost /\ ThreadsFollow => NothingIsLost' /\ ThreadsFollow'
      BY <3>1 DEF NothingIsLost, ThreadsFollow
    <3>4. CallerKnows => CallerKnows'
      BY <3>1, FindingsStay DEF CallerKnows
    <3>5. BlobTypeOK => BlobTypeOK'
      BY <3>1 DEF BlobTypeOK, Outcomes, Children, Channels
    <3>6. OneIsOpen => OneIsOpen'
      BY <3>1 DEF OneIsOpen, Current
    <3>7. OneIsAsked => OneIsAsked'
      BY <3>1 DEF OneIsAsked, Quiet, Expecting, Blobs!File, Current
    <3>8. FilesAreTold => FilesAreTold'
      BY <3>1, ToldLasts, Zenon
    <3> QED
      BY <3>1, <3>2, <3>3, <3>4, <3>5, <3>6, <3>7, <3>8 DEF IInv, RunInv, BlobInv
  <2> QED
    BY <2>1, <2>2, <2>3 DEF NextCalls
<1> QED
  BY <1>1, <1>2, PTL DEF SpecCalls

(* What Git is said to have answered is the whole of its answer, and each  *)
(* file gets its own blob, for every command, every limit, every list of   *)
(* files, and however a process and its callers interleave (run_git,       *)
(* BlobReader::read).                                                      *)
THEOREM GitAnswersWhole == SpecCalls => []AnswersAreGits
<1>1. IInv => AnswersAreGits
  BY GitCallsAssumption, RunInvSuffices, BlobInvSuffices DEF IInv, AnswersAreGits
<1> QED
  BY <1>1, CallsInvariant, PTL

=============================================================================
