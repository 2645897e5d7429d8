-------------------------------- MODULE GitCalls --------------------------------
(***************************************************************************)
(* The two ways in which a process of Git is used (src/src/git.rs): run    *)
(* once for its output (GitRun), or kept and asked for one blob after      *)
(* another (BlobReader).  A behaviour is one of one part; the variables of *)
(* the other are idle.                                                     *)
(***************************************************************************)
EXTENDS Naturals, Sequences

CONSTANTS
  Commands, PipeSize, MaxOutput,   \* of GitRun
  Works, Readers,              \* of BlobReader
  Nothing

VARIABLES
  part,                                    \* the part that is run
  command, pipe, pump, overflow, caller,   \* of GitRun
  works, thread, reader, answers,          \* of BlobReader
  child, cancelled, late                   \* of both

running == <<command, pipe, pump, overflow, caller>>
reading == <<works, thread, reader, answers>>
process == <<child, cancelled, late>>
callsVars == <<part, running, reading, process>>

Run == INSTANCE GitRun WITH NoValue <- Nothing
Blobs == INSTANCE BlobReader WITH NoValue <- Nothing

(* An object ID names one content, and is never the mark of no value.      *)
GitCallsAssumption ==
  /\ \A c \in Commands :
       /\ c.writes \in Seq(Run!Streams) /\ c.code \in Run!Codes
       /\ c.allowOne \in BOOLEAN
  /\ MaxOutput \in [Run!Streams -> Nat]
  /\ Readers \in Nat
  /\ \A w \in Works :
       /\ w \in Seq([oid : {w[i].oid : i \in DOMAIN w} \ {Nothing}, holds : Blobs!Holds])
       /\ \A i, j \in DOMAIN w : w[i].oid = w[j].oid => w[i].holds = w[j].holds
ASSUME GitCallsAssumption

NoRunning ==
  command = Nothing /\ pipe = Nothing /\ pump = Nothing /\ overflow = Nothing
    /\ caller = Nothing
NoReading == works = Nothing /\ thread = Nothing /\ reader = Nothing /\ answers = Nothing
NoProcess == child = Nothing /\ cancelled = Nothing /\ late = Nothing
NoCall == NoRunning /\ NoReading /\ NoProcess

InitRun == part = "run" /\ Run!Init /\ NoReading
InitBlobs == part = "blobs" /\ Blobs!Init /\ NoRunning
InitCalls == InitRun \/ InitBlobs

RunStep == part = "run" /\ Run!Next /\ UNCHANGED <<part, reading>>
BlobStep == part = "blobs" /\ Blobs!Next /\ UNCHANGED <<part, running>>
NextCalls == RunStep \/ BlobStep

SpecCalls == InitCalls /\ [][NextCalls]_callsVars

(* The caller of Git and its threads run and time passes; the child may    *)
(* stop (run_git; BlobReader::read, which polls every 5 ms).               *)
FairCalls ==
  /\ WF_callsVars(RunStep /\ Run!Caller) /\ WF_callsVars(RunStep /\ Run!Tick)
  /\ \A s \in Run!Streams : WF_callsVars(RunStep /\ Run!Pump(s))
  /\ WF_callsVars(BlobStep /\ Blobs!Thread) /\ WF_callsVars(BlobStep /\ Blobs!Tick)

(***************************************************************************)
(* Properties.                                                             *)
(***************************************************************************)

(* What Git is said to have answered is the whole of its answer (run_git,  *)
(* git.rs:4520-4603), and each file gets its own blob (BlobReader::read,   *)
(* git.rs:1480-1524).                                                      *)
AnswersAreGits ==
  /\ part = "run" => Run!AnswerIsWhole
  /\ part = "blobs" => Blobs!BlobsAreTheFiles

(* Calls of Git end, whatever it does (run_git; BlobReader::read).         *)
GitCallsEnd ==
  <>(\/ part \notin {"run", "blobs"}
     \/ part = "run" /\ caller.pc = "done"
     \/ part = "blobs" /\ thread.pc = "ended")

=============================================================================
