------------------------------- MODULE BlobReader -------------------------------
(***************************************************************************)
(* A parser thread and the process it reads blobs from (BlobReader in      *)
(* src/src/git.rs, build_file in src/src/index.rs).  The thread asks for   *)
(* one blob at a time; a second thread reads the answers of the child into *)
(* a channel, and ends at the first that is not a blob.  A reader is shut  *)
(* down on any answer but a blob, and a new one started for the next file  *)
(* when the blob was only too large.                                       *)
(***************************************************************************)
EXTENDS Naturals, Sequences

CONSTANTS
  Works,      \* sequences of files: [oid, holds]
  Readers,    \* how many readers may be started
  NoValue

Holds == {"blob", "large", "nothing"}

VARIABLES
  works,
  thread,     \* the parser thread: its place, and what became of each file
  reader,     \* the reader's ends: number, input open
  child,      \* per reader, its state and the requests in its pipe
  answers,    \* per reader, the channel and whether someone may still send
  cancelled, late
vars == <<works, thread, reader, child, answers, cancelled, late>>

File == works[Len(thread.done) + 1]
Current == reader.number

Init ==
  /\ works \in Works
  /\ thread = [pc |-> "next", done |-> <<>>]
  /\ reader = [number |-> 0, input |-> FALSE]
  /\ child = [r \in 1 .. Readers |-> [state |-> "none", requests |-> <<>>]]
  /\ answers = [r \in 1 .. Readers |-> [sent |-> <<>>, sending |-> FALSE, stderr |-> FALSE]]
  /\ cancelled = FALSE /\ late = FALSE

(***************************************************************************)
(* The child and the threads that read it.                                 *)
(***************************************************************************)
Holding(oid) ==
  LET i == CHOOSE j \in DOMAIN works : works[j].oid = oid IN works[i].holds

(* read_blob_response; the channel does not fill.                          *)
Respond(r) ==
  LET oid == Head(child[r].requests)
      answer == [oid |-> oid, holds |-> Holding(oid)]
  IN  /\ child[r].state = "running" /\ child[r].requests # <<>> /\ answers[r].sending
      /\ child' = [child EXCEPT ![r].requests = Tail(@)]
      /\ answers' = [answers EXCEPT ![r].sent = Append(@, answer),
                                    ![r].sending = answer.holds = "blob"]
      /\ UNCHANGED <<works, thread, reader, cancelled, late>>

(* The thread reads the end of the output of a child that died.            *)
ReadEnd(r) ==
  /\ child[r].state = "dead" /\ answers[r].sending
  /\ answers' = [answers EXCEPT ![r].sent = Append(@, [oid |-> NoValue, holds |-> "nothing"]),
                                ![r].sending = FALSE]
  /\ UNCHANGED <<works, thread, reader, child, cancelled, late>>

Die(r) ==
  /\ child[r].state = "running"
  /\ child' = [child EXCEPT ![r].state = "dead"]
  /\ UNCHANGED <<works, thread, reader, answers, cancelled, late>>

Complain(r) ==
  /\ child[r].state = "running" /\ ~ answers[r].stderr
  /\ answers' = [answers EXCEPT ![r].stderr = TRUE]
  /\ UNCHANGED <<works, thread, reader, child, cancelled, late>>

(***************************************************************************)
(* The parser thread.                                                      *)
(***************************************************************************)

(* shutdown, also on drop: the child is killed, unless it died of itself,  *)
(* and both threads joined.                                                *)
ShutDown ==
  /\ reader' = [reader EXCEPT !.input = FALSE]
  /\ child' = [child EXCEPT ![Current].state = IF @ = "running" THEN "killed" ELSE @,
                            ![Current].requests = <<>>]
  /\ answers' = [answers EXCEPT ![Current].sending = FALSE]

KeepReader == UNCHANGED <<reader, child, answers>>

Got(what, pc, oid) ==
  thread' = [pc |-> pc, done |-> Append(thread.done, [what |-> what, oid |-> oid])]
Done(what, pc) == Got(what, pc, NoValue)

Spawn ==
  /\ thread.pc = "next" /\ Len(thread.done) < Len(works) /\ ~ reader.input
  /\ \/ /\ Done("not started", "ended") /\ KeepReader
     \/ /\ Current < Readers
        /\ reader' = [number |-> Current + 1, input |-> TRUE]
        /\ child' = [child EXCEPT ![Current + 1].state = "running"]
        /\ answers' = [answers EXCEPT ![Current + 1].sending = TRUE]
        /\ UNCHANGED thread
  /\ UNCHANGED <<works, cancelled, late>>

(* read: the request is one line.  A dead child does not take it.          *)
Ask ==
  /\ thread.pc = "next" /\ Len(thread.done) < Len(works) /\ reader.input
  /\ \/ /\ cancelled /\ Done("cancelled", "ended") /\ ShutDown
        /\ UNCHANGED late
     \/ /\ ~ cancelled /\ child[Current].state = "dead"
        /\ Done("not asked", "ended") /\ ShutDown /\ UNCHANGED late
     \/ /\ ~ cancelled /\ child[Current].state = "running"
        /\ child' = [child EXCEPT ![Current].requests = Append(@, File.oid)]
        /\ thread' = [thread EXCEPT !.pc = "wait"] /\ late' = FALSE
        /\ UNCHANGED <<reader, answers>>
  /\ UNCHANGED <<works, cancelled>>

(* What the loop may find, in the order in which it looks.                 *)
GiveUp ==
  /\ thread.pc = "wait"
  /\ \/ cancelled /\ Done("cancelled", "ended")
     \/ ~ cancelled /\ answers[Current].stderr /\ Done("overflow", "ended")
     \/ ~ cancelled /\ ~ answers[Current].stderr /\ late /\ Done("timed out", "ended")
     \/ /\ ~ cancelled /\ ~ answers[Current].stderr /\ ~ late
        /\ answers[Current].sent = <<>> /\ ~ answers[Current].sending
        /\ Done("stopped", "ended")
  /\ ShutDown
  /\ UNCHANGED <<works, cancelled, late>>

(* A fault for checking the checks: the reader that met a large blob stays *)
(* open.                                                                   *)
ReceiveKeeping ==
  LET answer == Head(answers[Current].sent)
  IN  /\ thread.pc = "wait" /\ answers[Current].sent # <<>> /\ ~ cancelled
      /\ ~ answers[Current].stderr /\ ~ late
      /\ answers' = [answers EXCEPT ![Current].sent = Tail(@)]
      /\ Got(answer.holds, IF answer.holds = "nothing" THEN "ended" ELSE "next", answer.oid)
      /\ UNCHANGED <<works, reader, child, cancelled, late>>

Receive ==
  LET answer == Head(answers[Current].sent)
      Taken == answers' = [answers EXCEPT ![Current].sent = Tail(@)]
  IN  /\ thread.pc = "wait" /\ answers[Current].sent # <<>> /\ ~ cancelled
      /\ ~ answers[Current].stderr /\ ~ late
      /\ \/ /\ answer.holds = "blob" /\ answer.oid = File.oid
            /\ Got("blob", "next", answer.oid) /\ Taken /\ UNCHANGED <<reader, child>>
         \/ /\ answer.holds = "blob" /\ answer.oid # File.oid
            /\ Done("wrong", "ended") /\ ShutDown
         \/ answer.holds = "large" /\ Done("large", "next") /\ ShutDown
         \/ answer.holds = "nothing" /\ Done("malformed", "ended") /\ ShutDown
      /\ UNCHANGED <<works, cancelled, late>>

(* The loop of build_index is over; the reader is dropped.                 *)
Leave ==
  /\ thread.pc = "next" /\ Len(thread.done) = Len(works)
  /\ thread' = [thread EXCEPT !.pc = "ended"]
  /\ IF reader.input THEN ShutDown ELSE KeepReader
  /\ UNCHANGED <<works, cancelled, late>>

Cancel == ~ cancelled /\ cancelled' = TRUE
          /\ UNCHANGED <<works, thread, reader, child, answers, late>>
Tick == thread.pc = "wait" /\ ~ late /\ late' = TRUE
        /\ UNCHANGED <<works, thread, reader, child, answers, cancelled>>

Thread == Spawn \/ Ask \/ GiveUp \/ Receive \/ Leave
Next ==
  \/ Thread \/ Cancel \/ Tick
  \/ \E r \in 1 .. Readers : Respond(r) \/ ReadEnd(r) \/ Die(r) \/ Complain(r)

Fairness == WF_vars(Thread) /\ WF_vars(Tick)
Spec == Init /\ [][Next]_vars
FairSpec == Spec /\ Fairness

(***************************************************************************)
(* Properties.                                                             *)
(***************************************************************************)

(* Each file is given its own blob, is skipped exactly if that is too      *)
(* large, and nothing is asked for after an error; an error has its        *)
(* reason: nothing of an earlier request, or of a reader that was shut     *)
(* down, disturbs the next (BlobReader::read, git.rs:1480-1524; build_file, *)
(* index.rs:2583-2620).                                                    *)
BlobsAreTheFiles ==
  /\ \A i \in DOMAIN thread.done :
       LET outcome == thread.done[i].what
           file == works[i]
       IN  \/ outcome = "blob" /\ file.holds = "blob" /\ thread.done[i].oid = file.oid
           \/ outcome = "large" /\ file.holds = "large"
           \/ /\ i = Len(thread.done) /\ thread.pc = "ended"
              /\ \/ outcome = "cancelled" /\ cancelled
                 \/ outcome = "timed out" /\ late
                 \/ outcome = "overflow" /\ answers[Current].stderr
                 \/ outcome = "not started"
                 \/ outcome = "not asked" /\ child[Current].state = "dead"
                 \/ outcome = "malformed"
                      /\ (file.holds = "nothing" \/ child[Current].state = "dead")
  /\ thread.pc = "ended" => \A r \in 1 .. Readers : child[r].state # "running"

(* A thread comes to its end, whatever the child does.                     *)
ThreadEnds == <>(thread.pc = "ended")

=============================================================================
