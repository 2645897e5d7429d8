--------------------------------- MODULE GitRun ---------------------------------
(***************************************************************************)
(* One run of Git by run_git (src/src/git.rs): the child writes two pipes  *)
(* that hold little, a thread reads each of them up to a limit, and the    *)
(* caller polls a cancellation flag, the overflow channel, a deadline and  *)
(* the child, kills it if it has to, and joins the threads.                *)
(*                                                                         *)
(* Output is counted in buffers of the reading threads.  A pipe is closed  *)
(* when the child is gone: Git is run so that it starts nothing that       *)
(* outlives it.                                                            *)
(***************************************************************************)
EXTENDS Naturals, Sequences, FiniteSets

CONSTANTS
  Commands,   \* [writes: sequence of streams, code, allowOne]
  PipeSize,
  MaxOutput,      \* per stream, STDOUT_LIMIT or STDERR_LIMIT
  NoValue

Streams == {"out", "err"}
Codes == {"zero", "one", "many", "never"}

VARIABLES
  command,
  child,      \* where in its writes it is, and its state
  pipe,       \* buffers in each pipe
  pump,       \* what each thread has read, and its state
  overflow,   \* a message in the overflow channel
  cancelled, late,
  caller      \* the caller's place, the status it has, the answer
vars == <<command, child, pipe, pump, overflow, cancelled, late, caller>>

Init ==
  /\ command \in Commands
  /\ child = [at |-> 0, state |-> "none"]
  /\ pipe = [s \in Streams |-> 0]
  /\ pump = [s \in Streams |-> [got |-> 0, state |-> "none"]]
  /\ overflow = FALSE /\ cancelled = FALSE /\ late = FALSE
  /\ caller = [pc |-> "start", status |-> NoValue, answer |-> NoValue]

(***************************************************************************)
(* The child.  It writes in its own order, waits while a pipe is full, and *)
(* dies of a pipe that no one reads.                                       *)
(***************************************************************************)
ChildWrites ==
  LET s == command.writes[child.at + 1]
  IN  /\ child.state = "running" /\ child.at < Len(command.writes)
      /\ \/ /\ pump[s].state = "failed"
            /\ child' = [child EXCEPT !.state = "broken"]
            /\ UNCHANGED pipe
         \/ /\ pump[s].state # "failed" /\ pipe[s] < PipeSize
            /\ child' = [child EXCEPT !.at = @ + 1]
            /\ pipe' = [pipe EXCEPT ![s] = @ + 1]
      /\ UNCHANGED <<command, pump, overflow, cancelled, late, caller>>

ChildExits ==
  /\ child.state = "running" /\ child.at = Len(command.writes) /\ command.code # "never"
  /\ child' = [child EXCEPT !.state = "exited"]
  /\ UNCHANGED <<command, pipe, pump, overflow, cancelled, late, caller>>

(***************************************************************************)
(* read_capped.                                                            *)
(***************************************************************************)
PumpReads(s) ==
  /\ pump[s].state = "reading" /\ pipe[s] > 0
  /\ pipe' = [pipe EXCEPT ![s] = @ - 1]
  /\ IF pump[s].got + 1 > MaxOutput[s]
     THEN /\ pump' = [pump EXCEPT ![s].state = "failed"]
          /\ overflow' = TRUE
     ELSE /\ pump' = [pump EXCEPT ![s].got = @ + 1]
          /\ UNCHANGED overflow
  /\ UNCHANGED <<command, child, cancelled, late, caller>>

PumpEnds(s) ==
  /\ pump[s].state = "reading" /\ pipe[s] = 0 /\ child.state # "running"
  /\ pump' = [pump EXCEPT ![s].state = "ended"]
  /\ UNCHANGED <<command, child, pipe, overflow, cancelled, late, caller>>

(***************************************************************************)
(* run_git.                                                                *)
(***************************************************************************)
Goto(pc) == caller' = [caller EXCEPT !.pc = pc]
Answer(answer) == caller' = [caller EXCEPT !.pc = "done", !.answer = answer]
Error(reason) == [ok |-> FALSE, reason |-> reason]

Start ==
  /\ caller.pc = "start"
  /\ \/ /\ cancelled /\ Answer(Error("cancelled"))
        /\ UNCHANGED <<child, pump>>
     \/ /\ ~ cancelled /\ late /\ Answer(Error("timed out"))
        /\ UNCHANGED <<child, pump>>
     \/ /\ ~ cancelled /\ ~ late /\ Answer(Error("not started"))
        /\ UNCHANGED <<child, pump>>
     \/ /\ ~ cancelled /\ ~ late /\ Goto("cancelled?")
        /\ child' = [child EXCEPT !.state = "running"]
        /\ pump' = [s \in Streams |-> [got |-> 0, state |-> "reading"]]
  /\ UNCHANGED <<command, pipe, overflow, cancelled, late>>

(* child.kill() and child.wait(): the child is gone afterwards.            *)
Kill(reason) ==
  /\ child' = [child EXCEPT !.state = IF @ = "running" THEN "killed" ELSE @]
  /\ caller' = [caller EXCEPT !.pc = "join out", !.status = Error(reason)]

(* One look at each thing that may end the loop, in this order.            *)
Look(pc, condition, reason, next) ==
  /\ caller.pc = pc
  /\ IF condition THEN Kill(reason) ELSE Goto(next) /\ UNCHANGED child
  /\ UNCHANGED <<command, pipe, pump, overflow, cancelled, late>>

(* A fault for checking the checks: the deadline is only looked at before. *)
PollPatiently ==
  \/ Look("cancelled?", cancelled, "cancelled", "overflow?")
  \/ Look("overflow?", overflow, "overflow", "wait?")

Poll ==
  \/ Look("cancelled?", cancelled, "cancelled", "overflow?")
  \/ Look("overflow?", overflow, "overflow", "deadline?")
  \/ Look("deadline?", late, "timed out", "wait?")

TryWait ==
  /\ caller.pc = "wait?"
  /\ IF child.state = "running" THEN Goto("cancelled?")
     ELSE caller' = [caller EXCEPT !.pc = "join out", !.status = [ok |-> TRUE]]
  /\ UNCHANGED <<command, child, pipe, pump, overflow, cancelled, late>>

(* A fault for checking the checks: what was read so far is the output.    *)
JoinAny(s, pc, next) ==
  /\ caller.pc = pc
  /\ IF pump[s].state = "failed" THEN Answer(Error("unreadable")) ELSE Goto(next)
  /\ UNCHANGED <<command, child, pipe, pump, overflow, cancelled, late>>

(* The thread's own error goes before what the loop found.                 *)
Join(s, pc, next) ==
  /\ caller.pc = pc /\ pump[s].state \in {"ended", "failed"}
  /\ IF pump[s].state = "failed" THEN Answer(Error("unreadable")) ELSE Goto(next)
  /\ UNCHANGED <<command, child, pipe, pump, overflow, cancelled, late>>

JoinThreads == Join("out", "join out", "join err") \/ Join("err", "join err", "judge")

Success ==
  /\ child.state = "exited"
  /\ command.code = "zero" \/ (command.allowOne /\ command.code = "one")
Judge ==
  /\ caller.pc = "judge"
  /\ Answer(IF ~ caller.status.ok THEN caller.status
            ELSE IF Success THEN [ok |-> TRUE, output |-> pump["out"].got]
            ELSE Error("failed"))
  /\ UNCHANGED <<command, child, pipe, pump, overflow, cancelled, late>>

Cancel ==
  /\ ~ cancelled /\ cancelled' = TRUE
  /\ UNCHANGED <<command, child, pipe, pump, overflow, late, caller>>
Tick ==
  /\ ~ late /\ late' = TRUE
  /\ UNCHANGED <<command, child, pipe, pump, overflow, cancelled, caller>>

Caller == Start \/ Poll \/ TryWait \/ JoinThreads \/ Judge
Child == ChildWrites \/ ChildExits
Pump(s) == PumpReads(s) \/ PumpEnds(s)
Next == Caller \/ Child \/ (\E s \in Streams : Pump(s)) \/ Cancel \/ Tick

(* The caller and its threads run and time passes; the child may stop.     *)
Fairness ==
  /\ WF_vars(Caller) /\ WF_vars(Tick) /\ \A s \in Streams : WF_vars(Pump(s))
Spec == Init /\ [][Next]_vars
FairSpec == Spec /\ Fairness

(***************************************************************************)
(* Properties.                                                             *)
(***************************************************************************)
Written(s) == Cardinality({i \in DOMAIN command.writes : command.writes[i] = s})

(* An answer is the whole output of a child that ended by itself with a    *)
(* code that is allowed; an error has its reason; and no child is left     *)
(* (run_git, git.rs:4520-4603).                                            *)
AnswerIsWhole ==
  LET answer == caller.answer
  IN  answer # NoValue =>
        /\ child.state # "running"
        /\ IF answer.ok
           THEN /\ Success /\ answer.output = Written("out")
                /\ \A s \in Streams : Written(s) <= MaxOutput[s]
           ELSE CASE answer.reason = "cancelled" -> cancelled
                  [] answer.reason = "timed out" -> late
                  [] answer.reason = "unreadable" -> \E s \in Streams : Written(s) > MaxOutput[s]
                  [] answer.reason = "failed" -> child.state # "killed" /\ ~ Success
                  [] answer.reason = "not started" -> child.state = "none"
                  [] OTHER -> FALSE

(* A run of Git ends, whatever the child does (run_git).                   *)
RunsEnd == <>(caller.pc = "done")

=============================================================================
