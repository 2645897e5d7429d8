---------------------------- MODULE JobRegistry ----------------------------
(***************************************************************************)
(* The registry of background indexing jobs (src/src/job.rs) with the      *)
(* request key queue_index gives it (src/src/mcp.rs).                      *)
(*                                                                         *)
(* Processes: request handlers ("clients", each a spawn_blocking thread of *)
(* the MCP server), one worker thread per job, and the server thread that  *)
(* closes the registry when its input ends.  They share the registry mutex *)
(* (lock), one mutex per job, and one cancellation flag per job.           *)
(*                                                                         *)
(* A step is what one thread does between two points where another thread  *)
(* can observe it: `start` holds the registry mutex from its first line to *)
(* the push of the handle, so it is one step; `finish` holds it too, but   *)
(* writes the job's own mutex in the middle, where a poll that looked the  *)
(* job up earlier can read it, so it is three.                             *)
(***************************************************************************)
EXTENDS Naturals, FiniteSets

CONSTANTS
  Workspaces,   \* workspace ids
  Selections,   \* what identifies a selection inside a workspace: base, head,
                \* target and dependency mode of a JobRequestSummary
  Evidence,     \* evidence_manifest arguments; NoValue is an index call without
  Clients,      \* concurrent request handlers
  Reports,      \* the progress a build may report: a stage and its counters
  Caches,       \* paths a report may name as a rejected cache file
  MaxJobs,      \* bound on next_id: how many jobs a server lifetime starts
  NoValue       \* Rust's None

ASSUME JobsAssumption == MaxJobs \in Nat

ASSUME NoValueAssumption ==
  /\ NoValue \notin Workspaces
  /\ NoValue \notin Caches
  /\ NoValue \notin Clients
  /\ NoValue \notin Nat

Jobs == 1 .. MaxJobs

(* The arguments of an index call, after resolve_request.                  *)
Requests ==
  [workspace : Workspaces, selection : Selections,
   evidence : Evidence \union {NoValue}]

(* The key `start` compares is the serialized JobRequestSummary, which has *)
(* no field for the evidence manifest.                                     *)
RequestKey(r) == [workspace |-> r.workspace, selection |-> r.selection]

Stages ==
  {"capturing", "selecting_seed", "indexing", "resolving_graph", "publishing"}
Terminal == {"completed", "failed", "cancelled"}
JobStates == {"queued"} \union Stages \union Terminal
Results == {"ok", "job_cancelled", "other_error"}

Counters == [done : Nat, total : Nat, reused : Nat, parsed : Nat]

ASSUME ReportsAssumption == Reports \subseteq [stage : Stages, counters : Counters]

StageRank ==
  [s \in Stages |->
     CASE s = "capturing" -> 0
       [] s = "selecting_seed" -> 1
       [] s = "indexing" -> 2
       [] s = "resolving_graph" -> 3
       [] s = "publishing" -> 4]

(* How far a job has come, for comparing two readings of it.               *)
Age(s) ==
  CASE s = "queued" -> 0
    [] s \in Stages -> 1 + StageRank[s]
    [] OTHER -> 6

VARIABLES
  lock,       \* the job whose `finish` holds the registry mutex, or NoValue
  nextId,     \* next_id
  request,    \* jobs[j].request, with the evidence its worker captured
  state,      \* JobData.state; "absent" while j is not in the jobs map
  progress,   \* JobData.progress
  rejected,   \* JobData.rejected_cache
  cancelled,  \* the cancellation flag the job and its worker share
  active,     \* active_workspaces
  handles,    \* the jobs whose JoinHandle the registry holds
  worker,     \* where the job's thread is
  result,     \* what the build returned to its thread
  outcome,    \* the terminal state `finish` computed from result and flag
  closer,     \* where the thread that calls `close` is
  joining,    \* the handles `close` took and has not joined yet
  closedAt,   \* next_id when `close` last took the handles
  call,       \* what a client is in the middle of
  answer      \* what the call that returned last returned: the job, the
              \* arguments of an index call, the state in the reply

registryVars == <<lock, nextId, request, active, handles>>
jobVars == <<state, progress, rejected>>
workerVars == <<worker, result, outcome>>
closeVars == <<closer, joining, closedAt>>
clientVars == <<call, answer>>
vars == <<registryVars, jobVars, cancelled, workerVars, closeVars, clientVars>>

WorkerPhases ==
  {"none", "waiting", "working", "returned", "decided", "stored", "exited"}
Idle == [op |-> "idle", job |-> NoValue, asked |-> NoValue]
Calls ==
  [op : {"idle", "sending", "status", "cancel"},
   job : Jobs \union {NoValue}, asked : Requests \union {NoValue}]
Answers ==
  [job : Jobs \union {NoValue}, asked : Requests \union {NoValue},
   state : JobStates \union {"none", "busy", "not_found"}]

(* Type correctness: every variable holds what its Rust field can hold.    *)
TypeOK ==
  /\ lock \in Jobs \union {NoValue}
  /\ nextId \in 1 .. MaxJobs + 1
  /\ request \in [Jobs -> Requests \union {NoValue}]
  /\ state \in [Jobs -> JobStates \union {"absent"}]
  /\ progress \in [Jobs -> Reports \union {NoValue}]
  /\ rejected \in [Jobs -> Caches \union {NoValue}]
  /\ cancelled \in [Jobs -> BOOLEAN]
  /\ active \in [Workspaces -> Jobs \union {NoValue}]
  /\ handles \in SUBSET Jobs
  /\ worker \in [Jobs -> WorkerPhases]
  /\ result \in [Jobs -> Results \union {NoValue}]
  /\ outcome \in [Jobs -> Terminal \union {NoValue}]
  /\ closer \in {"open", "joining", "closed"}
  /\ joining \in SUBSET Jobs
  /\ closedAt \in 1 .. MaxJobs + 1
  /\ call \in [Clients -> Calls]
  /\ answer \in Answers

Init ==
  /\ lock = NoValue
  /\ nextId = 1
  /\ request = [j \in Jobs |-> NoValue]
  /\ state = [j \in Jobs |-> "absent"]
  /\ progress = [j \in Jobs |-> NoValue]
  /\ rejected = [j \in Jobs |-> NoValue]
  /\ cancelled = [j \in Jobs |-> FALSE]
  /\ active = [w \in Workspaces |-> NoValue]
  /\ handles = {}
  /\ worker = [j \in Jobs |-> "none"]
  /\ result = [j \in Jobs |-> NoValue]
  /\ outcome = [j \in Jobs |-> NoValue]
  /\ closer = "open"
  /\ joining = {}
  /\ closedAt = 1
  /\ call = [c \in Clients |-> Idle]
  /\ answer = [job |-> NoValue, asked |-> NoValue, state |-> "none"]

----------------------------------------------------------------------------
(* A call returns the status Job::status_from read, or an error.           *)
Answer(j, r, s) == answer' = [job |-> j, asked |-> r, state |-> s]

(* `start`, workspace idle, thread spawned: the job is registered, its     *)
(* handle pushed, and the new thread waits for the message c sends after   *)
(* it has released the registry mutex.                                     *)
StartSpawned(c, r) ==
  /\ lock = NoValue
  /\ call[c].op = "idle"
  /\ active[r.workspace] = NoValue
  /\ nextId \in Jobs
  /\ nextId' = nextId + 1
  /\ request' = [request EXCEPT ![nextId] = r]
  /\ state' = [state EXCEPT ![nextId] = "queued"]
  /\ active' = [active EXCEPT ![r.workspace] = nextId]
  /\ handles' = handles \union {nextId}
  /\ worker' = [worker EXCEPT ![nextId] = "waiting"]
  /\ call' = [call EXCEPT ![c] = [op |-> "sending", job |-> nextId, asked |-> r]]
  /\ UNCHANGED <<lock, progress, rejected, cancelled, result, outcome,
                 closeVars, answer>>

(* `start`, workspace idle, thread::Builder::spawn fails: the job stays in *)
(* the map as a failed one and the workspace is idle again.                *)
StartSpawnFails(c, r) ==
  /\ lock = NoValue
  /\ call[c].op = "idle"
  /\ active[r.workspace] = NoValue
  /\ nextId \in Jobs
  /\ nextId' = nextId + 1
  /\ request' = [request EXCEPT ![nextId] = r]
  /\ state' = [state EXCEPT ![nextId] = "failed"]
  /\ Answer(nextId, r, "failed")
  /\ UNCHANGED <<lock, active, handles, progress, rejected, cancelled,
                 workerVars, closeVars, call>>

(* `start` while the workspace has an active job: the same key gets that   *)
(* job's status, another key WorkspaceBusy with its id.                    *)
StartActive(c, r) ==
  /\ lock = NoValue
  /\ call[c].op = "idle"
  /\ active[r.workspace] # NoValue
  /\ LET j == active[r.workspace] IN
       Answer(j, r, IF RequestKey(request[j]) = RequestKey(r)
                    THEN state[j] ELSE "busy")
  /\ UNCHANGED <<registryVars, jobVars, cancelled, workerVars, closeVars, call>>

(* Mutant: a thread that finds its job cancelled exits before the build.   *)
SendStartUnlessCancelled(c) ==
  /\ call[c].op = "sending"
  /\ LET j == call[c].job IN
       /\ worker[j] = "waiting"
       /\ worker' = [worker EXCEPT ![j] = IF cancelled[j] THEN "exited" ELSE "working"]
       /\ Answer(j, call[c].asked, "queued")
  /\ call' = [call EXCEPT ![c] = Idle]
  /\ UNCHANGED <<registryVars, jobVars, cancelled, result, outcome, closeVars>>

(* start_tx.send: a rendezvous with the thread's recv, after which `start` *)
(* returns the status it read while it held the registry mutex.            *)
SendStart(c) ==
  /\ call[c].op = "sending"
  /\ LET j == call[c].job IN
       /\ worker[j] = "waiting"
       /\ worker' = [worker EXCEPT ![j] = "working"]
       /\ Answer(j, call[c].asked, "queued")
  /\ call' = [call EXCEPT ![c] = Idle]
  /\ UNCHANGED <<registryVars, jobVars, cancelled, result, outcome, closeVars>>

(* The first half of `status` and `cancel`: find the job under the         *)
(* registry mutex, keep the Arc, release the mutex.                        *)
Lookup(c, op, j) ==
  /\ lock = NoValue
  /\ call[c].op = "idle"
  /\ IF state[j] = "absent"
       THEN /\ Answer(j, NoValue, "not_found")
            /\ UNCHANGED call
       ELSE /\ call' = [call EXCEPT
                          ![c] = [op |-> op, job |-> j, asked |-> NoValue]]
            /\ UNCHANGED answer
  /\ UNCHANGED <<registryVars, jobVars, cancelled, workerVars, closeVars>>

(* The second half of `status`, under the job's mutex only.                *)
StatusRead(c) ==
  /\ call[c].op = "status"
  /\ Answer(call[c].job, NoValue, state[call[c].job])
  /\ call' = [call EXCEPT ![c] = Idle]
  /\ UNCHANGED <<registryVars, jobVars, cancelled, workerVars, closeVars>>

(* Mutant: cancel writes the terminal state itself.                        *)
CancelEnds(c) ==
  /\ call[c].op = "cancel"
  /\ LET j == call[c].job
         now == IF state[j] \in Terminal THEN state[j] ELSE "cancelled"
     IN  /\ cancelled' = [cancelled EXCEPT ![j] = @ \/ state[j] \notin Terminal]
         /\ state' = [state EXCEPT ![j] = now]
         /\ Answer(j, NoValue, now)
  /\ call' = [call EXCEPT ![c] = Idle]
  /\ UNCHANGED <<registryVars, progress, rejected, workerVars, closeVars>>

(* The second half of `cancel`: the flag is stored unless the state is     *)
(* already terminal; the state itself is left to the worker.               *)
CancelStore(c) ==
  /\ call[c].op = "cancel"
  /\ LET j == call[c].job IN
       /\ cancelled' = [cancelled EXCEPT ![j] = @ \/ state[j] \notin Terminal]
       /\ Answer(j, NoValue, state[j])
  /\ call' = [call EXCEPT ![c] = Idle]
  /\ UNCHANGED <<registryVars, jobVars, workerVars, closeVars>>

----------------------------------------------------------------------------
(* The worker thread.                                                      *)

ValidStage(j, p) ==
  /\ state[j] = "queued" => p.stage = "capturing"
  /\ state[j] \in Stages =>
       StageRank[p.stage] \in {StageRank[state[j]], StageRank[state[j]] + 1}
  /\ state[j] \notin Terminal \union {"absent"}

ValidCounters(j, p) ==
  progress[j] # NoValue =>
    \/ progress[j].stage = "capturing" /\ p.stage = "selecting_seed"
    \/ \A field \in {"done", "total", "reused", "parsed"} :
         p.counters[field] >= progress[j].counters[field]

(* Mutant: every report writes the rejected cache it has, or none.         *)
ReportOverwriting(j, p, cache) ==
  /\ worker[j] = "working"
  /\ ValidStage(j, p) /\ ValidCounters(j, p)
  /\ state' = [state EXCEPT ![j] = p.stage]
  /\ progress' = [progress EXCEPT ![j] = p]
  /\ rejected' = [rejected EXCEPT ![j] = cache]
  /\ UNCHANGED <<registryVars, cancelled, workerVars, closeVars, clientVars>>

(* JobReporter::report: one progress report of the build, taken whole or   *)
(* dropped whole.                                                          *)
Report(j, p, cache) ==
  /\ worker[j] = "working"
  /\ ValidStage(j, p) /\ ValidCounters(j, p)
  /\ state' = [state EXCEPT ![j] = p.stage]
  /\ progress' = [progress EXCEPT ![j] = p]
  /\ rejected' = [rejected EXCEPT ![j] = IF cache = NoValue THEN @ ELSE cache]
  /\ UNCHANGED <<registryVars, cancelled, workerVars, closeVars, clientVars>>

(* The build returns to the thread, a panic as Internal (catch_unwind).    *)
Return(j, r) ==
  /\ worker[j] = "working"
  /\ worker' = [worker EXCEPT ![j] = "returned"]
  /\ result' = [result EXCEPT ![j] = r]
  /\ UNCHANGED <<registryVars, jobVars, cancelled, outcome, closeVars, clientVars>>

(* Mutant: a panic leaves the job in the stage it had reached.             *)
OutcomeLeftOpen(j) ==
  CASE result[j] = "ok" -> "completed"
    [] result[j] = "job_cancelled" /\ cancelled[j] -> "cancelled"
    [] OTHER -> state[j]

(* Mutant: the flag decides, whatever the build returned.                  *)
OutcomeByFlag(j) ==
  IF cancelled[j] THEN "cancelled"
  ELSE IF result[j] = "ok" THEN "completed" ELSE "failed"

(* `finish` takes the registry mutex and evaluates the match, flag read    *)
(* included, before it locks the job.                                      *)
Outcome(j) ==
  CASE result[j] = "ok" -> "completed"
    [] result[j] = "job_cancelled" /\ cancelled[j] -> "cancelled"
    [] OTHER -> "failed"

(* Mutant: the state is stored before the registry mutex is taken.         *)
FinishDecideUnlocked(j) ==
  /\ worker[j] = "returned"
  /\ lock = NoValue
  /\ outcome' = [outcome EXCEPT ![j] = Outcome(j)]
  /\ worker' = [worker EXCEPT ![j] = "decided"]
  /\ UNCHANGED <<lock, nextId, request, active, handles, jobVars, cancelled,
                 result, closeVars, clientVars>>

FinishDecide(j) ==
  /\ worker[j] = "returned"
  /\ lock = NoValue
  /\ lock' = j
  /\ outcome' = [outcome EXCEPT ![j] = Outcome(j)]
  /\ worker' = [worker EXCEPT ![j] = "decided"]
  /\ UNCHANGED <<nextId, request, active, handles, jobVars, cancelled, result,
                 closeVars, clientVars>>

(* ... then stores the terminal state under the job's mutex ...            *)
FinishStore(j) ==
  /\ worker[j] = "decided"
  /\ state' = [state EXCEPT ![j] = outcome[j]]
  /\ worker' = [worker EXCEPT ![j] = "stored"]
  /\ UNCHANGED <<registryVars, progress, rejected, cancelled, result, outcome,
                 closeVars, clientVars>>

(* ... and frees the workspace if it is still this job's.  The mutex is    *)
(* released and the thread exits.                                          *)
FinishRelease(j) ==
  /\ worker[j] = "stored"
  /\ LET w == request[j].workspace IN
       active' = [active EXCEPT ![w] = IF @ = j THEN NoValue ELSE @]
  /\ lock' = NoValue
  /\ worker' = [worker EXCEPT ![j] = "exited"]
  /\ UNCHANGED <<nextId, request, handles, jobVars, cancelled, result, outcome,
                 closeVars, clientVars>>

----------------------------------------------------------------------------
(* `close`: request the cancellation of every active job and take the      *)
(* handles, in one critical section.  Nothing stops a later `start`.       *)
ActiveJobs == {active[w] : w \in Workspaces} \ {NoValue}

(* Mutant: close takes the active jobs out of the registry.                *)
CloseForgetting ==
  /\ closer # "joining"
  /\ lock = NoValue
  /\ cancelled' = [j \in Jobs |-> cancelled[j] \/ j \in ActiveJobs]
  /\ active' = [w \in Workspaces |-> NoValue]
  /\ joining' = handles
  /\ handles' = {}
  /\ closedAt' = nextId
  /\ closer' = "joining"
  /\ UNCHANGED <<lock, nextId, request, jobVars, workerVars, clientVars>>

(* Mutant: close joins without releasing the registry mutex.               *)
CloseHoldingMutex ==
  /\ closer # "joining"
  /\ lock = NoValue
  /\ lock' = IF handles = {} THEN NoValue ELSE CHOOSE j \in handles : TRUE
  /\ cancelled' = [j \in Jobs |-> cancelled[j] \/ j \in ActiveJobs]
  /\ joining' = handles
  /\ handles' = {}
  /\ closedAt' = nextId
  /\ closer' = "joining"
  /\ UNCHANGED <<nextId, request, active, jobVars, workerVars, clientVars>>

Close ==
  /\ closer # "joining"
  /\ lock = NoValue
  /\ cancelled' = [j \in Jobs |-> cancelled[j] \/ j \in ActiveJobs]
  /\ joining' = handles
  /\ handles' = {}
  /\ closedAt' = nextId
  /\ closer' = "joining"
  /\ UNCHANGED <<lock, nextId, request, active, jobVars, workerVars, clientVars>>

(* Mutant: a thread counts as joined once it has stored its state.         *)
JoinStored(j) ==
  /\ closer = "joining"
  /\ j \in joining
  /\ worker[j] \in {"stored", "exited"}
  /\ joining' = joining \ {j}
  /\ UNCHANGED <<registryVars, jobVars, cancelled, workerVars, closer, closedAt,
                 clientVars>>

(* One join returned.  The order of the handles is immaterial: `close`     *)
(* returns once all of them have exited.                                   *)
Join(j) ==
  /\ closer = "joining"
  /\ j \in joining
  /\ worker[j] = "exited"
  /\ joining' = joining \ {j}
  /\ UNCHANGED <<registryVars, jobVars, cancelled, workerVars, closer, closedAt,
                 clientVars>>

CloseReturns ==
  /\ closer = "joining"
  /\ joining = {}
  /\ closer' = "closed"
  /\ UNCHANGED <<registryVars, jobVars, cancelled, workerVars, joining, closedAt,
                 clientVars>>

----------------------------------------------------------------------------
Client(c) ==
  \/ \E r \in Requests :
       StartSpawned(c, r) \/ StartSpawnFails(c, r) \/ StartActive(c, r)
  \/ SendStart(c)
  \/ \E j \in Jobs, op \in {"status", "cancel"} : Lookup(c, op, j)
  \/ StatusRead(c)
  \/ CancelStore(c)

Worker(j) ==
  \/ \E p \in Reports, cache \in Caches \union {NoValue} : Report(j, p, cache)
  \/ \E r \in Results : Return(j, r)
  \/ FinishDecide(j)
  \/ FinishStore(j)
  \/ FinishRelease(j)

Closing == Close \/ CloseReturns \/ \E j \in Jobs : Join(j)

Next ==
  \/ \E c \in Clients : Client(c)
  \/ \E j \in Jobs : Worker(j)
  \/ Closing

SafetySpec == Init /\ [][Next]_vars

(* Threads run: a handler that is sending sends, a build returns (every    *)
(* stage of it is finite and polls the flag), a thread that wants the      *)
(* registry mutex gets it, and the closing thread joins.  Nobody is        *)
(* obliged to call start, cancel, status or close.                         *)
Fairness ==
  /\ \A c \in Clients : WF_vars(SendStart(c))
  /\ \A j \in Jobs :
       /\ WF_vars(\E r \in Results : Return(j, r))
       /\ WF_vars(FinishDecide(j))
       /\ WF_vars(FinishStore(j))
       /\ WF_vars(FinishRelease(j))
       /\ WF_vars(Join(j))
  /\ WF_vars(CloseReturns)

Spec == SafetySpec /\ Fairness

----------------------------------------------------------------------------
(* A workspace never has two jobs under way, whatever the order of starts, *)
(* finishes and spawn failures: two builds of one workspace would race for *)
(* the same cache.                                                         *)
Live(j) == state[j] \notin Terminal \union {"absent"}

OneJobPerWorkspace ==
  \A i, j \in Jobs :
    Live(i) /\ Live(j) /\ request[i].workspace = request[j].workspace => i = j

(* A client that has read a terminal state can start another selection:    *)
(* once the registry mutex is free, the job it saw end no longer occupies  *)
(* its workspace (`finish` stores the state and frees the workspace in one *)
(* critical section).                                                      *)
EndedJobFreesWorkspace ==
  answer.state \in Terminal /\ lock = NoValue =>
    \A w \in Workspaces : active[w] # answer.job

(* An answer never gets ahead of the job: what a client has read is at     *)
(* most as far as the job is now, and a terminal answer is the final one.  *)
(* So two polls never contradict each other.                               *)
AnswersNeverRegress ==
  answer.state \in JobStates =>
    /\ Age(answer.state) <= Age(state[answer.job])
    /\ answer.state \in Terminal => state[answer.job] = answer.state

(* A published snapshot is never hidden by a cancellation that came late:  *)
(* a build that returned Ok ends completed, flag or no flag; and a job     *)
(* ends cancelled only if somebody asked for it.                           *)
OutcomeIsHonest ==
  \A j \in Jobs : worker[j] \in {"stored", "exited"} =>
    /\ result[j] = "ok" <=> state[j] = "completed"
    /\ state[j] = "cancelled" => cancelled[j]

(* When `close` has returned, no thread of a job started before it took    *)
(* the handles is still running, and each of those jobs has its final      *)
(* state: the server does not exit under a build it knew of.               *)
CloseLeavesNothingRunning ==
  closer = "closed" =>
    \A j \in Jobs : j < closedAt =>
      worker[j] \in {"none", "exited"} /\ state[j] \in Terminal

(* A terminal state is final, and a rejected cache file, once reported,    *)
(* stays in the status.                                                    *)
EndIsFinal ==
  [][\A j \in Jobs :
       /\ state[j] \in Terminal => UNCHANGED <<state[j], rejected[j]>>
       /\ rejected[j] # NoValue => rejected'[j] # NoValue]_vars

(* Every job that was started ends, whoever holds the registry mutex and   *)
(* whoever is closing.                                                     *)
StartedJobsEnd == \A j \in Jobs : (state[j] = "queued") ~> (state[j] \in Terminal)

(* `close` returns: the joins wait only for threads that end.              *)
CloseEnds == (closer = "joining") ~> (closer = "closed")

(* The registry implements WorkspaceJobs: a job runs from its registration *)
(* to the store of its terminal state, which to every client is also the   *)
(* moment its workspace becomes idle.                                      *)
Busy(w) == active[w] # NoValue /\ state[active[w]] \notin Terminal

Abstract == INSTANCE WorkspaceJobs WITH
  current <- [w \in Workspaces |-> IF Busy(w) THEN active[w] ELSE NoValue],
  life <- [j \in Jobs |-> IF Live(j) THEN "running" ELSE state[j]],
  wanted <- cancelled

ImplementsWorkspaceJobs == Abstract!Spec

(* What README.md:211-215 says of an index call with an evidence manifest: *)
(* the job that answers it imports that manifest.                          *)
EvidenceIsImported ==
  /\ answer.asked # NoValue
  /\ answer.state \in JobStates
  /\ answer.asked.evidence # NoValue
  => request[answer.job].evidence = answer.asked.evidence
============================================================================
