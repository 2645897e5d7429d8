------------------------- MODULE JobRegistryProofs -------------------------
(***************************************************************************)
(* JobRegistry's safety properties, for every number of jobs, clients and  *)
(* workspaces and for every set of reports.                                *)
(*                                                                         *)
(* None of them is inductive alone.  The invariant ties the four places    *)
(* that speak of a job together: its thread, its state, the registry mutex *)
(* and the entry of its workspace.                                         *)
(***************************************************************************)
EXTENDS JobRegistry, TLAPS

Occupying == {"waiting", "working", "returned", "decided", "stored"}

(* A job not started yet has left no trace.                                *)
FreshInv ==
  \A j \in Jobs :
    IF j < nextId THEN /\ state[j] # "absent"
                       /\ request[j] \in Requests
                  ELSE /\ state[j] = "absent"
                       /\ worker[j] = "none"

(* A job's thread, its state and the registry mutex agree.                 *)
ThreadInv ==
  \A j \in Jobs :
    /\ worker[j] \in {"waiting", "working", "returned", "decided"} => Live(j)
    /\ worker[j] \in {"stored", "exited"} =>
         state[j] \in Terminal /\ state[j] = outcome[j]
    /\ worker[j] = "none" => state[j] \in {"absent", "failed"}
    /\ worker[j] \in {"decided", "stored"} <=> lock = j

(* What `finish` decided follows from what the build returned.             *)
OutcomeInv ==
  \A j \in Jobs : worker[j] \in {"decided", "stored", "exited"} =>
    /\ outcome[j] \in Terminal
    /\ result[j] = "ok" <=> outcome[j] = "completed"
    /\ outcome[j] = "cancelled" => cancelled[j]

(* A workspace's entry is the one job that occupies it.                    *)
ActiveInv ==
  /\ \A j \in Jobs :
       worker[j] \in Occupying => active[request[j].workspace] = j
  /\ \A w \in Workspaces : active[w] # NoValue =>
       /\ worker[active[w]] \in Occupying
       /\ request[active[w]].workspace = w

(* Every running thread can still be joined by somebody.                   *)
HandleInv ==
  /\ closer # "joining" => joining = {}
  /\ closedAt <= nextId
  /\ \A j \in Jobs : worker[j] \in Occupying => j \in handles \union joining
  /\ closer # "open" => \A j \in Jobs :
       j < closedAt => worker[j] \in {"none", "exited"} \/ j \in joining

(* A client in the middle of a call holds a job that is in the map, and an *)
(* answer with a state names one.                                          *)
ClientInv ==
  /\ \A c \in Clients : call[c].op # "idle" =>
       call[c].job \in Jobs /\ state[call[c].job] # "absent"
  /\ answer.state \in JobStates =>
       answer.job \in Jobs /\ state[answer.job] # "absent"

IInv ==
  /\ TypeOK
  /\ FreshInv
  /\ ThreadInv
  /\ OutcomeInv
  /\ ActiveInv
  /\ HandleInv
  /\ ClientInv
  /\ AnswersNeverRegress

----------------------------------------------------------------------------
(* The initial values have their types.                                    *)
LEMMA InitType == Init => TypeOK
  BY JobsAssumption DEF Init, TypeOK, Jobs, Idle, Calls, Answers, WorkerPhases

(* A state or an answer a client reads is one a reply can hold.            *)
LEMMA AnswerType ==
  ASSUME NEW j \in Jobs, NEW r \in Requests \union {NoValue},
         NEW s \in JobStates \union {"none", "busy", "not_found"}, Answer(j, r, s)
  PROVE  answer' \in Answers
  BY DEF Answer, Answers

(* Each outcome of `start` keeps the types.                                *)
LEMMA StartType ==
  ASSUME TypeOK, FreshInv, ActiveInv, NEW c \in Clients, NEW r \in Requests,
         StartSpawned(c, r) \/ StartSpawnFails(c, r) \/ StartActive(c, r)
  PROVE  TypeOK'
<1> USE JobsAssumption DEF TypeOK, Jobs, JobStates, Terminal, Stages,
        registryVars, jobVars, workerVars, closeVars, clientVars
<1>0. r.workspace \in Workspaces  BY DEF Requests
<1>1. CASE StartSpawned(c, r)
  <2> USE <1>1 DEF StartSpawned
  <2>1. call' \in [Clients -> Calls]
    BY DEF Calls
  <2>2. active' \in [Workspaces -> Jobs \union {NoValue}]
    BY <1>0
  <2>3. nextId' \in 1 .. MaxJobs + 1 /\ handles' \in SUBSET Jobs
    OBVIOUS
  <2>4. /\ request' \in [Jobs -> Requests \union {NoValue}]
        /\ state' \in [Jobs -> JobStates \union {"absent"}]
        /\ worker' \in [Jobs -> WorkerPhases]
    BY DEF WorkerPhases
  <2> QED BY <2>1, <2>2, <2>3, <2>4
<1>2. CASE StartSpawnFails(c, r)
  <2>1. answer' \in Answers
    BY <1>2, AnswerType DEF StartSpawnFails
  <2> QED BY <1>2, <2>1 DEF StartSpawnFails
<1>3. CASE StartActive(c, r)
  <2> DEFINE j == active[r.workspace]
             s == IF RequestKey(request[j]) = RequestKey(r) THEN state[j] ELSE "busy"
  <2> HIDE DEF Jobs, JobStates
  <2>a. active[r.workspace] # NoValue
    BY <1>3 DEF StartActive
  <2>b. j \in Jobs
    BY <1>0, <2>a
  <2>c. worker[j] \in Occupying
    BY <1>0, <2>a DEF ActiveInv
  <2>0. j \in Jobs /\ worker[j] # "none"
    BY <2>b, <2>c DEF Occupying
  <2>1. state[j] # "absent"
    BY <2>0 DEF FreshInv
  <2>2. s \in JobStates \union {"none", "busy", "not_found"}
    BY <2>0, <2>1
  <2>3. answer' \in Answers
    BY <1>3, <2>0, <2>2, AnswerType DEF StartActive
  <2> QED BY <1>3, <2>3 DEF StartActive
<1> QED BY <1>1, <1>2, <1>3

(* So does every other step of a request handler,                          *)
LEMMA ClientType ==
  ASSUME TypeOK, FreshInv, ActiveInv, ClientInv, NEW c \in Clients, Client(c)
  PROVE  TypeOK'
<1> USE DEF TypeOK, registryVars, jobVars, workerVars, closeVars, clientVars
<1>1. ASSUME NEW r \in Requests,
             StartSpawned(c, r) \/ StartSpawnFails(c, r) \/ StartActive(c, r)
      PROVE  TypeOK'
  BY <1>1, StartType
<1>2. CASE SendStart(c)
  <2>1. Idle \in Calls
    BY DEF Idle, Calls
  <2>2. call[c].job \in Jobs /\ call[c].asked \in Requests \union {NoValue}
    BY <1>2 DEF SendStart, ClientInv, Calls
  <2>3. answer' \in Answers
    BY <1>2, <2>2, AnswerType DEF SendStart, JobStates
  <2> QED BY <1>2, <2>1, <2>2, <2>3 DEF SendStart, WorkerPhases
<1>3. ASSUME NEW j \in Jobs, NEW op \in {"status", "cancel"}, Lookup(c, op, j)
      PROVE  TypeOK'
  <2>1. CASE state[j] = "absent"
    <3>1. answer' \in Answers
      BY <1>3, <2>1, AnswerType DEF Lookup
    <3> QED BY <1>3, <2>1, <3>1 DEF Lookup
  <2>2. CASE state[j] # "absent"
    <3>1. [op |-> op, job |-> j, asked |-> NoValue] \in Calls
      BY DEF Calls
    <3> QED BY <1>3, <2>2, <3>1 DEF Lookup
  <2> QED BY <2>1, <2>2
<1>4. CASE StatusRead(c)
  <2>1. Idle \in Calls
    BY DEF Idle, Calls
  <2>2. answer' \in Answers
    BY <1>4, AnswerType DEF StatusRead, ClientInv
  <2> QED BY <1>4, <2>1, <2>2 DEF StatusRead
<1>5. CASE CancelStore(c)
  <2>1. Idle \in Calls
    BY DEF Idle, Calls
  <2>2. answer' \in Answers
    BY <1>5, AnswerType DEF CancelStore, ClientInv
  <2>3. cancelled' \in [Jobs -> BOOLEAN]
    BY <1>5 DEF CancelStore
  <2> QED BY <1>5, <2>1, <2>2, <2>3 DEF CancelStore
<1> QED BY <1>1, <1>2, <1>3, <1>4, <1>5 DEF Client

(* every step of a worker thread,                                          *)
LEMMA WorkerType ==
  ASSUME TypeOK, FreshInv, ThreadInv, OutcomeInv, ActiveInv,
         NEW j \in Jobs, Worker(j)
  PROVE  TypeOK'
<1> USE DEF TypeOK, registryVars, jobVars, workerVars, closeVars, clientVars
<1>1. ASSUME NEW p \in Reports, NEW cache \in Caches \union {NoValue},
             Report(j, p, cache)
      PROVE  TypeOK'
  <2>1. p.stage \in JobStates
    BY ReportsAssumption DEF JobStates
  <2> QED BY <1>1, <2>1 DEF Report
<1>2. ASSUME NEW r \in Results, Return(j, r)
      PROVE  TypeOK'
  BY <1>2 DEF Return, WorkerPhases
<1>3. CASE FinishDecide(j)
  <2>1. Outcome(j) \in Terminal
    BY DEF Outcome, Terminal
  <2> QED BY <1>3, <2>1 DEF FinishDecide, WorkerPhases
<1>4. CASE FinishStore(j)
  BY <1>4 DEF FinishStore, OutcomeInv, JobStates, WorkerPhases
<1>5. CASE FinishRelease(j)
  <2>1. request[j] \in Requests
    BY <1>5 DEF FinishRelease, FreshInv
  <2>2. request[j].workspace \in Workspaces
    BY <2>1 DEF Requests
  <2> QED BY <1>5, <2>2 DEF FinishRelease, WorkerPhases
<1> QED BY <1>1, <1>2, <1>3, <1>4, <1>5 DEF Worker

(* and every step of `close`.                                              *)
LEMMA ClosingType ==
  ASSUME TypeOK, Closing
  PROVE  TypeOK'
<1> USE DEF TypeOK, registryVars, jobVars, workerVars, closeVars, clientVars
<1>1. CASE Close
  BY <1>1 DEF Close
<1>2. CASE CloseReturns
  BY <1>2 DEF CloseReturns
<1>3. ASSUME NEW j \in Jobs, Join(j)
      PROVE  TypeOK'
  BY <1>3 DEF Join
<1> QED BY <1>1, <1>2, <1>3 DEF Closing
----------------------------------------------------------------------------
(* Ages order the states a job goes through.                               *)
LEMMA AgeRange ==
  ASSUME NEW s \in JobStates
  PROVE  /\ Age(s) \in 0 .. 6
         /\ s \in Terminal => Age(s) = 6
         /\ s = "queued" => Age(s) = 0
         /\ s \in Stages => Age(s) = 1 + StageRank[s] /\ StageRank[s] \in 0 .. 4
<1>1. CASE s \in Stages
  <2>1. StageRank[s] \in 0 .. 4
    BY <1>1 DEF StageRank, Stages
  <2> QED BY <1>1, <2>1 DEF Age, Stages, Terminal
<1>2. CASE s \notin Stages
  BY <1>2 DEF Age, JobStates, Stages, Terminal
<1> QED BY <1>1, <1>2

(* An accepted report does not take a job back.                            *)
LEMMA ReportAdvances ==
  ASSUME NEW j \in Jobs, NEW p \in Reports, state[j] \in JobStates, ValidStage(j, p)
  PROVE  Age(state[j]) <= Age(p.stage) /\ state[j] \notin Terminal
<1>1. p.stage \in Stages /\ p.stage \in JobStates
  BY ReportsAssumption DEF JobStates
<1>2. Age(p.stage) = 1 + StageRank[p.stage] /\ StageRank[p.stage] \in 0 .. 4
  BY <1>1, AgeRange
<1>3. state[j] \notin Terminal
  BY DEF ValidStage
<1>4. CASE state[j] = "queued"
  BY <1>2, <1>3, <1>4, AgeRange
<1>5. CASE state[j] \in Stages
  <2>1. Age(state[j]) = 1 + StageRank[state[j]] /\ StageRank[state[j]] \in 0 .. 4
    BY <1>5, AgeRange
  <2>2. StageRank[p.stage] \in {StageRank[state[j]], StageRank[state[j]] + 1}
    BY <1>5 DEF ValidStage
  <2> QED BY <1>2, <1>3, <2>1, <2>2
<1> QED BY <1>3, <1>4, <1>5 DEF JobStates

----------------------------------------------------------------------------
(* The rest of the invariant, one step per action.                         *)
Links ==
  FreshInv /\ ThreadInv /\ OutcomeInv /\ ActiveInv /\ HandleInv /\ ClientInv
    /\ AnswersNeverRegress

(* A new job, spawned or not: its number is fresh, so nothing else changes. *)
LEMMA SpawnLinks ==
  ASSUME IInv, NEW c \in Clients, NEW r \in Requests, StartSpawned(c, r)
  PROVE  Links'
<1> USE JobsAssumption, NoValueAssumption
    DEF StartSpawned, closeVars, IInv, TypeOK, Links
<1> DEFINE n == nextId
<1>0. /\ n \in Jobs /\ state[n] = "absent" /\ worker[n] = "none"
      /\ \A j \in Jobs : j < nextId' <=> j < n \/ j = n
      /\ r.workspace \in Workspaces
      /\ n # NoValue
  BY DEF FreshInv, Jobs, Requests
<1>1. FreshInv'
  BY <1>0 DEF FreshInv
<1>2. ThreadInv'
  BY <1>0 DEF ThreadInv, Live, Terminal
<1>3. OutcomeInv'
  BY <1>0 DEF OutcomeInv
<1>4. ActiveInv'
  <2>1. ASSUME NEW j \in Jobs, worker'[j] \in Occupying
        PROVE  active'[request'[j].workspace] = j
    <3>1. CASE j = n
      BY <1>0, <3>1
    <3>2. CASE j # n
      <4>1. worker[j] \in Occupying /\ active[request[j].workspace] = j
        BY <2>1, <3>2 DEF ActiveInv
      <4>2. request[j] \in Requests
        BY <4>1 DEF FreshInv, Occupying
      <4>3. request[j].workspace \in Workspaces /\ request[j].workspace # r.workspace
        BY <4>1, <4>2 DEF Requests, Jobs
      <4> QED BY <3>2, <4>1, <4>3
    <3> QED BY <3>1, <3>2
  <2>2. ASSUME NEW w \in Workspaces, active'[w] # NoValue
        PROVE  /\ worker'[active'[w]] \in Occupying
               /\ request'[active'[w]].workspace = w
    <3>1. CASE w = r.workspace
      BY <1>0, <3>1 DEF Occupying
    <3>2. CASE w # r.workspace
      <4>1. active'[w] = active[w] /\ active[w] \in Jobs
        BY <1>0, <2>2, <3>2
      <4>2. worker[active[w]] \in Occupying /\ request[active[w]].workspace = w
        BY <2>2, <4>1 DEF ActiveInv
      <4>3. active[w] # n
        BY <1>0, <4>2 DEF Occupying
      <4> QED BY <4>1, <4>2, <4>3
    <3> QED BY <3>1, <3>2
  <2> QED BY <2>1, <2>2 DEF ActiveInv
<1>5. HandleInv'
  <2>1. /\ handles' = handles \union {n} /\ UNCHANGED <<closer, joining, closedAt>>
        /\ \A j \in Jobs : j # n => worker'[j] = worker[j]
        /\ closedAt \in Nat /\ nextId \in Nat /\ nextId' = nextId + 1
    BY <1>0 DEF Jobs
  <2>2. ASSUME NEW j \in Jobs, worker'[j] \in Occupying
        PROVE  j \in handles' \union joining'
    BY <2>1, <2>2 DEF HandleInv
  <2>3. ASSUME closer' # "open", NEW j \in Jobs, j < closedAt'
        PROVE  worker'[j] \in {"none", "exited"} \/ j \in joining'
    <3>1. j # n
      BY <2>1, <2>3 DEF HandleInv, Jobs
    <3> QED BY <2>1, <2>3, <3>1 DEF HandleInv
  <2>4. closedAt' <= nextId' /\ (closer' # "joining" => joining' = {})
    BY <2>1 DEF HandleInv
  <2> QED BY <2>2, <2>3, <2>4 DEF HandleInv
<1>6. ClientInv' /\ AnswersNeverRegress'
  <2>1. ClientInv'
    BY <1>0 DEF ClientInv
  <2>2. AnswersNeverRegress'
    BY <1>0 DEF ClientInv, AnswersNeverRegress
  <2> QED BY <2>1, <2>2
<1> QED BY <1>1, <1>2, <1>3, <1>4, <1>5, <1>6

(* A job whose thread was not spawned is born with its final state.        *)
LEMMA SpawnFailsLinks ==
  ASSUME IInv, NEW c \in Clients, NEW r \in Requests, StartSpawnFails(c, r)
  PROVE  Links'
<1> USE JobsAssumption, NoValueAssumption
    DEF StartSpawnFails, workerVars, closeVars, Answer, IInv, TypeOK, Links
<1> DEFINE n == nextId
<1>0. /\ n \in Jobs /\ state[n] = "absent" /\ worker[n] = "none"
      /\ \A j \in Jobs : j < nextId' <=> j < n \/ j = n
  BY DEF FreshInv, Jobs
<1>1. FreshInv'
  BY <1>0 DEF FreshInv
<1>2. ThreadInv'
  BY <1>0 DEF ThreadInv, Live
<1>3. OutcomeInv'
  BY DEF OutcomeInv
<1>4. ActiveInv'
  BY <1>0 DEF ActiveInv, Occupying
<1>5. HandleInv'
  BY <1>0 DEF HandleInv, Jobs
<1>6. ClientInv'
  BY <1>0 DEF ClientInv
<1>7. AnswersNeverRegress'
  BY <1>0, AgeRange DEF AnswersNeverRegress, JobStates, Terminal
<1> QED BY <1>1, <1>2, <1>3, <1>4, <1>5, <1>6, <1>7

(* A reply with the state of a job in the map; no job changes.             *)
LEMMA ReplyLinks ==
  ASSUME IInv, NEW j \in Jobs, NEW r \in Requests \union {NoValue},
         NEW s \in {state[j], "queued", "busy", "not_found"},
         s \in JobStates => state[j] # "absent",
         Answer(j, r, s), UNCHANGED state
  PROVE  /\ answer'.state \in JobStates =>
              answer'.job \in Jobs /\ state'[answer'.job] # "absent"
         /\ AnswersNeverRegress'
<1>1. answer' = [job |-> j, asked |-> r, state |-> s]
  BY DEF Answer
<1>2. CASE s \in JobStates
  <2>1. state[j] \in JobStates
    BY <1>2 DEF IInv, TypeOK
  <2>2. s = state[j] \/ s = "queued"
    BY <1>2 DEF JobStates, Stages, Terminal
  <2>3. Age(s) <= Age(state[j])
    BY <1>2, <2>1, <2>2, AgeRange
  <2>4. s \in Terminal => state[j] = s
    BY <2>2 DEF Terminal
  <2> QED BY <1>1, <1>2, <2>3, <2>4 DEF AnswersNeverRegress
<1>3. CASE s \notin JobStates
  BY <1>1, <1>3 DEF AnswersNeverRegress
<1> QED BY <1>2, <1>3

(* The reply about the job a workspace has already.                        *)
LEMMA StartActiveLinks ==
  ASSUME IInv, NEW c \in Clients, NEW r \in Requests, StartActive(c, r)
  PROVE  Links'
<1> USE DEF StartActive, registryVars, jobVars, workerVars, closeVars
<1> DEFINE j == active[r.workspace]
<1>1. r.workspace \in Workspaces /\ j \in Jobs /\ worker[j] \in Occupying
  BY DEF IInv, TypeOK, ActiveInv, Requests
<1>2. state[j] # "absent"
  BY <1>1 DEF IInv, FreshInv, Occupying
<1>3. FreshInv' /\ ThreadInv' /\ OutcomeInv' /\ ActiveInv' /\ HandleInv'
  BY DEF IInv, FreshInv, ThreadInv, OutcomeInv, ActiveInv, HandleInv, Live
<1>4. ClientInv' /\ AnswersNeverRegress'
  BY <1>1, <1>2, ReplyLinks DEF IInv, ClientInv
<1> QED BY <1>3, <1>4 DEF Links

(* The message that lets the thread begin.                                 *)
LEMMA SendLinks ==
  ASSUME IInv, NEW c \in Clients, SendStart(c)
  PROVE  Links'
<1> USE DEF SendStart, registryVars, jobVars, closeVars
<1> DEFINE j == call[c].job
<1>1. /\ j \in Jobs /\ state[j] # "absent"
      /\ call[c].asked \in Requests \union {NoValue}
  BY DEF IInv, TypeOK, ClientInv, Calls
<1>2. FreshInv' /\ OutcomeInv' /\ HandleInv'
  BY <1>1 DEF IInv, TypeOK, FreshInv, OutcomeInv, HandleInv, Occupying
<1>3. ThreadInv'
  BY <1>1 DEF IInv, TypeOK, ThreadInv, Live
<1>4. ActiveInv'
  BY <1>1 DEF IInv, TypeOK, ActiveInv, Occupying
<1>5. AnswersNeverRegress' /\ ClientInv'
  BY <1>1, ReplyLinks DEF IInv, TypeOK, ClientInv, Idle
<1> QED BY <1>2, <1>3, <1>4, <1>5 DEF Links

(* Lookups, and the reads and the flag that follow them.                   *)
LEMMA LookupLinks ==
  ASSUME IInv, NEW c \in Clients, NEW j \in Jobs,
         NEW op \in {"status", "cancel"}, Lookup(c, op, j)
  PROVE  Links'
<1> USE DEF Lookup, registryVars, jobVars, workerVars, closeVars
<1>1. FreshInv' /\ ThreadInv' /\ OutcomeInv' /\ ActiveInv' /\ HandleInv'
  BY DEF IInv, FreshInv, ThreadInv, OutcomeInv, ActiveInv, HandleInv, Live
<1>2. CASE state[j] = "absent"
  BY <1>1, <1>2, ReplyLinks DEF IInv, ClientInv, Links, JobStates, Stages, Terminal
<1>3. CASE state[j] # "absent"
  BY <1>1, <1>3 DEF IInv, TypeOK, ClientInv, AnswersNeverRegress, Links
<1> QED BY <1>2, <1>3

(* A status read or a cancellation under the job's own mutex.              *)
LEMMA ReadLinks ==
  ASSUME IInv, NEW c \in Clients, StatusRead(c) \/ CancelStore(c)
  PROVE  Links'
<1> USE DEF StatusRead, CancelStore, registryVars, jobVars, workerVars, closeVars
<1> DEFINE j == call[c].job
<1>1. j \in Jobs /\ state[j] # "absent"
  BY DEF IInv, ClientInv
<1>2. FreshInv' /\ ThreadInv' /\ ActiveInv' /\ HandleInv'
  BY DEF IInv, FreshInv, ThreadInv, ActiveInv, HandleInv, Live
<1>3. OutcomeInv'
  BY <1>1 DEF IInv, TypeOK, OutcomeInv
<1>4. AnswersNeverRegress' /\ ClientInv'
  BY <1>1, ReplyLinks DEF IInv, TypeOK, ClientInv, Idle
<1> QED BY <1>2, <1>3, <1>4 DEF Links

(* An accepted report: the one step that moves a live job on.              *)
LEMMA ReportLinks ==
  ASSUME IInv, NEW j \in Jobs, NEW p \in Reports,
         NEW cache \in Caches \union {NoValue}, Report(j, p, cache)
  PROVE  Links'
<1> USE DEF Report, registryVars, workerVars, closeVars, clientVars
<1>1. worker[j] = "working" /\ Live(j) /\ state[j] \in JobStates
  BY DEF IInv, TypeOK, ThreadInv, Live
<1>2. p.stage \in Stages /\ Age(state[j]) <= Age(p.stage)
  BY <1>1, ReportAdvances, ReportsAssumption
<1>3. FreshInv' /\ ActiveInv' /\ HandleInv' /\ OutcomeInv'
  BY <1>2 DEF IInv, TypeOK, FreshInv, ActiveInv, HandleInv, OutcomeInv, Stages
<1>4. ThreadInv'
  BY <1>1, <1>2 DEF IInv, TypeOK, ThreadInv, Live, Stages, Terminal
<1>5. ClientInv'
  BY <1>2 DEF IInv, TypeOK, ClientInv, Stages
<1>6. AnswersNeverRegress'
  <2> SUFFICES ASSUME answer.state \in JobStates
               PROVE  /\ Age(answer.state) <= Age(state'[answer.job])
                      /\ answer.state \in Terminal => state'[answer.job] = answer.state
    BY DEF AnswersNeverRegress
  <2>1. answer.job \in Jobs
    BY DEF IInv, ClientInv
  <2>2. CASE answer.job # j
    BY <2>1, <2>2 DEF IInv, TypeOK, AnswersNeverRegress
  <2>3. CASE answer.job = j
    <3>1. answer.state \notin Terminal /\ Age(answer.state) <= Age(state[j])
      BY <1>1, <2>3 DEF IInv, AnswersNeverRegress, Live
    <3>2. Age(answer.state) <= Age(p.stage)
      BY <1>1, <1>2, <3>1, AgeRange DEF JobStates
    <3> QED BY <2>3, <3>1, <3>2 DEF IInv, TypeOK
  <2> QED BY <2>2, <2>3
<1> QED BY <1>3, <1>4, <1>5, <1>6 DEF Links

(* The thread's steps that do not change a state.                          *)
LEMMA ThreadLinks ==
  ASSUME IInv, NEW j \in Jobs,
         (\E r \in Results : Return(j, r)) \/ FinishDecide(j) \/ FinishRelease(j)
  PROVE  Links'
<1> USE DEF registryVars, jobVars, workerVars, closeVars, clientVars, IInv, TypeOK
<1>1. ASSUME NEW r \in Results, Return(j, r)
      PROVE  Links'
  <2> USE <1>1 DEF Return
  <2>1. FreshInv' /\ ClientInv' /\ AnswersNeverRegress'
    BY DEF FreshInv, ClientInv, AnswersNeverRegress
  <2>2. ThreadInv' /\ OutcomeInv'
    BY DEF ThreadInv, OutcomeInv, Live
  <2>3. ActiveInv' /\ HandleInv'
    BY DEF ActiveInv, HandleInv, Occupying
  <2> QED BY <2>1, <2>2, <2>3 DEF Links
<1>2. CASE FinishDecide(j)
  <2> USE <1>2, NoValueAssumption DEF FinishDecide
  <2>1. FreshInv' /\ ClientInv' /\ AnswersNeverRegress'
    BY DEF FreshInv, ClientInv, AnswersNeverRegress
  <2>2. ThreadInv'
    BY DEF ThreadInv, Live, Jobs
  <2>3. OutcomeInv'
    <3>1. /\ Outcome(j) \in Terminal
          /\ result[j] = "ok" <=> Outcome(j) = "completed"
          /\ Outcome(j) = "cancelled" => cancelled[j]
      BY DEF Outcome, Terminal
    <3> QED BY <3>1 DEF OutcomeInv
  <2>4. ActiveInv' /\ HandleInv'
    BY DEF ActiveInv, HandleInv, Occupying
  <2> QED BY <2>1, <2>2, <2>3, <2>4 DEF Links
<1>3. CASE FinishRelease(j)
  <2> USE <1>3, NoValueAssumption DEF FinishRelease
  <2>1. FreshInv' /\ ClientInv' /\ AnswersNeverRegress'
    BY DEF FreshInv, ClientInv, AnswersNeverRegress
  <2>2. ThreadInv'
    BY DEF ThreadInv, Live, Jobs
  <2>3. OutcomeInv' /\ HandleInv'
    BY DEF OutcomeInv, HandleInv, Occupying
  <2>4. ActiveInv'
    <3>1. request[j] \in Requests
      BY DEF FreshInv
    <3>2. request[j].workspace \in Workspaces /\ active[request[j].workspace] = j
      BY <3>1 DEF Requests, ActiveInv, Occupying
    <3> QED BY <3>2 DEF ActiveInv, Occupying, Jobs
  <2> QED BY <2>1, <2>2, <2>3, <2>4 DEF Links
<1> QED BY <1>1, <1>2, <1>3

(* The store of the terminal state, between the two halves of `finish`.    *)
LEMMA StoreLinks ==
  ASSUME IInv, NEW j \in Jobs, FinishStore(j)
  PROVE  Links'
<1> USE DEF FinishStore, registryVars, closeVars, clientVars, IInv, TypeOK
<1>1. /\ outcome[j] \in Terminal /\ outcome[j] \in JobStates
      /\ Live(j) /\ state[j] \in JobStates
  BY DEF OutcomeInv, ThreadInv, Live, JobStates
<1>2. FreshInv' /\ ClientInv'
  BY <1>1 DEF FreshInv, ClientInv, JobStates, Stages, Terminal
<1>3. ThreadInv' /\ OutcomeInv'
  BY <1>1 DEF ThreadInv, OutcomeInv, Live
<1>4. ActiveInv' /\ HandleInv'
  BY DEF ActiveInv, HandleInv, Occupying
<1>5. AnswersNeverRegress'
  <2> SUFFICES ASSUME answer.state \in JobStates
               PROVE  /\ Age(answer.state) <= Age(state'[answer.job])
                      /\ answer.state \in Terminal => state'[answer.job] = answer.state
    BY DEF AnswersNeverRegress
  <2>1. answer.job \in Jobs
    BY DEF ClientInv
  <2>2. CASE answer.job # j
    BY <2>1, <2>2 DEF AnswersNeverRegress
  <2>3. CASE answer.job = j
    <3>1. answer.state \notin Terminal
      BY <1>1, <2>3 DEF AnswersNeverRegress, Live
    <3>2. Age(answer.state) <= Age(outcome[j])
      BY <1>1, AgeRange
    <3> QED BY <2>3, <3>1, <3>2
  <2> QED BY <2>2, <2>3
<1> QED BY <1>2, <1>3, <1>4, <1>5 DEF Links

(* `close` touches flags and handles, never a job's state.                 *)
LEMMA ClosingLinks ==
  ASSUME IInv, Closing
  PROVE  Links'
<1> USE DEF registryVars, jobVars, workerVars, clientVars, IInv, TypeOK
<1>1. /\ FreshInv' /\ ThreadInv' /\ ActiveInv' /\ ClientInv' /\ AnswersNeverRegress'
      /\ UNCHANGED <<nextId, worker, result, outcome>>
  BY DEF FreshInv, ThreadInv, ActiveInv, ClientInv, AnswersNeverRegress, Live,
         Closing, Close, CloseReturns, Join
<1>2. CASE Close
  <2>1. OutcomeInv'
    BY <1>2 DEF Close, OutcomeInv
  <2>2. HandleInv'
    BY <1>2 DEF Close, HandleInv, Occupying, WorkerPhases
  <2> QED BY <1>1, <2>1, <2>2 DEF Links
<1>3. CASE CloseReturns
  BY <1>1, <1>3 DEF CloseReturns, OutcomeInv, HandleInv, Links
<1>4. ASSUME NEW j \in Jobs, Join(j)
      PROVE  Links'
  <2>1. HandleInv'
    BY <1>4 DEF Join, HandleInv, Occupying
  <2> QED BY <1>1, <1>4, <2>1 DEF Join, OutcomeInv, Links
<1> QED BY <1>2, <1>3, <1>4 DEF Closing

----------------------------------------------------------------------------
(* Nothing is registered at first, so every link holds.                    *)
LEMMA InitLinks == Init => Links
  BY NoValueAssumption
     DEF Init, Links, FreshInv, ThreadInv, OutcomeInv, ActiveInv, HandleInv,
         ClientInv, AnswersNeverRegress, Idle, JobStates, Stages, Terminal, Jobs,
         Occupying

(* The invariant is inductive: one case for each action of Next.           *)
LEMMA StepInv == IInv /\ [Next]_vars => IInv'
<1> SUFFICES ASSUME IInv, [Next]_vars
             PROVE  TypeOK' /\ Links'
  BY DEF IInv, Links
<1>1. ASSUME NEW c \in Clients, Client(c)
      PROVE  TypeOK' /\ Links'
  <2>1. TypeOK'
    BY <1>1, ClientType DEF IInv
  <2>2. Links'
    BY <1>1, SpawnLinks, SpawnFailsLinks, StartActiveLinks, SendLinks,
       LookupLinks, ReadLinks DEF Client
  <2> QED BY <2>1, <2>2
<1>2. ASSUME NEW j \in Jobs, Worker(j)
      PROVE  TypeOK' /\ Links'
  <2>1. TypeOK'
    BY <1>2, WorkerType DEF IInv
  <2>2. Links'
    BY <1>2, ReportLinks, ThreadLinks, StoreLinks DEF Worker
  <2> QED BY <2>1, <2>2
<1>3. CASE Closing
  BY <1>3, ClosingType, ClosingLinks DEF IInv
<1>4. CASE UNCHANGED vars
  BY <1>4 DEF vars, registryVars, jobVars, workerVars, closeVars, clientVars, IInv,
      TypeOK, Links, FreshInv, ThreadInv, OutcomeInv, ActiveInv, HandleInv,
      ClientInv, AnswersNeverRegress, Live
<1> QED BY <1>1, <1>2, <1>3, <1>4 DEF Next

(* Type correctness holds of every behaviour, and so does the invariant    *)
(* that ties threads, states, mutex and workspaces together.               *)
THEOREM InvariantHolds == SafetySpec => []IInv
<1>1. Init => IInv
  BY InitType, InitLinks DEF IInv, Links
<1> QED BY <1>1, StepInv, PTL DEF SafetySpec

(* Every variable always holds a value of its field's type.                *)
THEOREM TypeCorrect == SafetySpec => []TypeOK
<1>1. IInv => TypeOK
  BY DEF IInv
<1> QED BY <1>1, InvariantHolds, PTL

(* A workspace never has two jobs under way: two live jobs of it would     *)
(* both be the one job its entry names.                                    *)
THEOREM Exclusion == SafetySpec => []OneJobPerWorkspace
<1>1. IInv => OneJobPerWorkspace
  <2> SUFFICES ASSUME IInv, NEW i \in Jobs, NEW j \in Jobs, Live(i), Live(j),
                      request[i].workspace = request[j].workspace
               PROVE  i = j
    BY DEF OneJobPerWorkspace
  <2>1. ASSUME NEW k \in Jobs, Live(k)
        PROVE  worker[k] \in Occupying
    BY <2>1 DEF IInv, TypeOK, ThreadInv, Live, Terminal, Occupying, WorkerPhases
  <2> QED BY <2>1 DEF IInv, ActiveInv
<1> QED BY <1>1, InvariantHolds, PTL

(* Once a client has read the end of a job, that job's workspace is idle   *)
(* whenever the registry mutex is free.                                    *)
THEOREM EndFrees == SafetySpec => []EndedJobFreesWorkspace
<1>1. IInv => EndedJobFreesWorkspace
  <2> SUFFICES ASSUME IInv, answer.state \in Terminal, lock = NoValue,
                      NEW w \in Workspaces, active[w] = answer.job
               PROVE  FALSE
    BY DEF EndedJobFreesWorkspace
  <2> DEFINE j == answer.job
  <2>1. j \in Jobs /\ state[j] \in Terminal
    BY DEF IInv, ClientInv, AnswersNeverRegress, JobStates
  <2>2. worker[j] \in {"stored"}
    BY <2>1, NoValueAssumption
       DEF IInv, ActiveInv, ThreadInv, Occupying, Live, Jobs
  <2>3. lock = j /\ j # NoValue
    BY <2>1, <2>2, NoValueAssumption DEF IInv, ThreadInv, Jobs
  <2> QED BY <2>3
<1> QED BY <1>1, InvariantHolds, PTL

(* Two polls never contradict each other, and an end that was read stays.  *)
THEOREM PollsAgree == SafetySpec => []AnswersNeverRegress
<1>1. IInv => AnswersNeverRegress
  BY DEF IInv
<1> QED BY <1>1, InvariantHolds, PTL

(* A late cancellation never hides a completed build, and a job ends as    *)
(* cancelled only if that was asked for.                                   *)
THEOREM HonestOutcome == SafetySpec => []OutcomeIsHonest
<1>1. IInv => OutcomeIsHonest
  BY DEF IInv, ThreadInv, OutcomeInv, OutcomeIsHonest
<1> QED BY <1>1, InvariantHolds, PTL

(* When `close` has returned, every job it knew of has ended and its       *)
(* thread has exited.                                                      *)
THEOREM CloseIsComplete == SafetySpec => []CloseLeavesNothingRunning
<1>1. IInv => CloseLeavesNothingRunning
  <2> SUFFICES ASSUME IInv, closer = "closed", NEW j \in Jobs, j < closedAt
               PROVE  worker[j] \in {"none", "exited"} /\ state[j] \in Terminal
    BY DEF CloseLeavesNothingRunning
  <2>1. worker[j] \in {"none", "exited"}
    BY DEF IInv, HandleInv
  <2>2. j < nextId
    BY JobsAssumption DEF IInv, TypeOK, HandleInv, Jobs
  <2>3. state[j] # "absent"
    BY <2>2 DEF IInv, FreshInv
  <2> QED BY <2>1, <2>3 DEF IInv, ThreadInv, Terminal
<1> QED BY <1>1, InvariantHolds, PTL

(* The end of a job is final, and a rejected cache file stays reported.    *)
THEOREM FinalEnd == SafetySpec => EndIsFinal
<1> DEFINE Final ==
      \A j \in Jobs :
        /\ state[j] \in Terminal => UNCHANGED <<state[j], rejected[j]>>
        /\ rejected[j] # NoValue => rejected'[j] # NoValue
<1>1. IInv /\ [Next]_vars => [Final]_vars
  <2> SUFFICES ASSUME IInv, Next
               PROVE  Final
    OBVIOUS
  <2> USE DEF IInv, TypeOK, registryVars, jobVars, workerVars, closeVars, clientVars
  <2>1. ASSUME NEW c \in Clients, Client(c)
        PROVE  Final
    <3>1. /\ rejected' = rejected
          /\ \/ state' = state
             \/ /\ nextId \in Jobs
                /\ \E s \in JobStates : state' = [state EXCEPT ![nextId] = s]
      BY <2>1 DEF Client, StartSpawned, StartSpawnFails, StartActive, SendStart,
                  Lookup, StatusRead, CancelStore, JobStates, Terminal
    <3>2. nextId \in Jobs => state[nextId] \notin Terminal
      BY DEF FreshInv, Jobs, Terminal
    <3> QED BY <3>1, <3>2
  <2>2. ASSUME NEW j \in Jobs, Worker(j)
        PROVE  Final
    <3>1. ASSUME NEW p \in Reports, NEW cache \in Caches \union {NoValue},
                 Report(j, p, cache)
          PROVE  Final
      BY <3>1, NoValueAssumption DEF Report, ValidStage
    <3>2. CASE FinishStore(j)
      BY <3>2 DEF FinishStore, ThreadInv, Live
    <3>3. CASE UNCHANGED jobVars
      BY <3>3
    <3> QED BY <2>2, <3>1, <3>2, <3>3 DEF Worker, Return, FinishDecide, FinishRelease
  <2>3. CASE Closing
    BY <2>3 DEF Closing, Close, CloseReturns, Join
  <2> QED BY <2>1, <2>2, <2>3 DEF Next
<1> QED BY <1>1, InvariantHolds, PTL DEF SafetySpec, EndIsFinal

----------------------------------------------------------------------------
(* Refinement: what every step of the registry is to WorkspaceJobs.        *)
AbstractCurrent == [w \in Workspaces |-> IF Busy(w) THEN active[w] ELSE NoValue]
AbstractLife == [j \in Jobs |-> IF Live(j) THEN "running" ELSE state[j]]

(* A step that leaves the mapped variables alone is a stutter.             *)
LEMMA Stutters ==
  ASSUME AbstractCurrent' = AbstractCurrent, AbstractLife' = AbstractLife,
         cancelled' = cancelled
  PROVE  UNCHANGED Abstract!vars
  BY DEF Abstract!vars, AbstractCurrent, AbstractLife

(* So is a step that changes no variable at all.                           *)
LEMMA UnchangedStutters ==
  ASSUME UNCHANGED <<state, active, cancelled>>
  PROVE  UNCHANGED Abstract!vars
<1>1. AbstractCurrent' = AbstractCurrent /\ AbstractLife' = AbstractLife
  BY DEF AbstractCurrent, AbstractLife, Busy, Live
<1> QED BY <1>1, Stutters

(* A spawned `start` begins a job of the abstract registry.                *)
LEMMA RefineSpawn ==
  ASSUME IInv, NEW c \in Clients, NEW r \in Requests, StartSpawned(c, r)
  PROVE  \E w \in Workspaces, j \in Jobs : Abstract!Begin(w, j)
<1> USE DEF StartSpawned, closeVars, IInv, TypeOK
<1> DEFINE n == nextId
<1>1. /\ n \in Jobs /\ state[n] = "absent" /\ r.workspace \in Workspaces
      /\ active[r.workspace] = NoValue /\ n # NoValue
      /\ \A w \in Workspaces : active[w] # n
  BY NoValueAssumption DEF FreshInv, ActiveInv, Occupying, Jobs, Requests
<1>2. AbstractCurrent' = [AbstractCurrent EXCEPT ![r.workspace] = n]
  BY <1>1 DEF AbstractCurrent, Busy, Terminal
<1>3. AbstractLife' = [AbstractLife EXCEPT ![n] = "running"]
  BY <1>1 DEF AbstractLife, Live, Terminal
<1>4. AbstractCurrent[r.workspace] = NoValue /\ AbstractLife[n] = "absent"
  BY <1>1 DEF AbstractCurrent, AbstractLife, Busy, Live
<1> QED BY <1>1, <1>2, <1>3, <1>4 DEF Abstract!Begin, AbstractCurrent, AbstractLife

(* A `start` whose spawn fails is a job that ends as it begins.            *)
LEMMA RefineSpawnFails ==
  ASSUME IInv, NEW c \in Clients, NEW r \in Requests, StartSpawnFails(c, r)
  PROVE  \E j \in Jobs : Abstract!Stillborn(j)
<1> USE DEF StartSpawnFails, closeVars, workerVars, IInv, TypeOK
<1> DEFINE n == nextId
<1>1. /\ n \in Jobs /\ state[n] = "absent"
      /\ \A w \in Workspaces : active[w] # n
  BY NoValueAssumption DEF FreshInv, ActiveInv, Occupying, Jobs
<1>2. AbstractCurrent' = AbstractCurrent
  BY <1>1 DEF AbstractCurrent, Busy
<1>3. AbstractLife' = [AbstractLife EXCEPT ![n] = "failed"]
  BY <1>1 DEF AbstractLife, Live, Terminal
<1>4. AbstractLife[n] = "absent"
  BY <1>1 DEF AbstractLife, Live
<1> QED BY <1>1, <1>2, <1>3, <1>4 DEF Abstract!Stillborn, AbstractCurrent, AbstractLife

(* Only live jobs get their flag stored, by `cancel` and by `close`.       *)
LEMMA RefineWant ==
  ASSUME IInv, NEW js \in SUBSET Jobs, \A j \in js : Live(j),
         cancelled' = [j \in Jobs |-> cancelled[j] \/ j \in js],
         UNCHANGED <<state, active>>
  PROVE  Abstract!Want(js)
<1>1. AbstractCurrent' = AbstractCurrent /\ AbstractLife' = AbstractLife
  BY DEF AbstractCurrent, AbstractLife, Busy, Live
<1>2. \A j \in js : AbstractLife[j] = "running"
  BY DEF AbstractLife
<1>3. Abstract!Jobs = Jobs
  BY DEF Abstract!Jobs, Jobs
<1> QED BY <1>1, <1>2, <1>3 DEF Abstract!Want, AbstractCurrent, AbstractLife

(* A cancellation is a want, or nothing if the job has ended.              *)
LEMMA RefineCancel ==
  ASSUME IInv, NEW c \in Clients, CancelStore(c)
  PROVE  \E js \in SUBSET Jobs : Abstract!Want(js)
<1> DEFINE j == call[c].job
           js == IF Live(j) THEN {j} ELSE {}
<1>1. j \in Jobs /\ state[j] # "absent"
  BY DEF CancelStore, IInv, ClientInv
<1>2. cancelled' = [k \in Jobs |-> cancelled[k] \/ k \in js]
  BY <1>1 DEF CancelStore, Live, IInv, TypeOK
<1>3. Abstract!Want(js)
  BY <1>1, <1>2, RefineWant DEF CancelStore, registryVars, jobVars
<1> QED BY <1>1, <1>3

(* `close` wants the end of every live job at once.                        *)
LEMMA RefineClose ==
  ASSUME IInv, Close
  PROVE  \E js \in SUBSET Jobs : Abstract!Want(js)
<1>1. ActiveJobs \in SUBSET Jobs
  BY DEF ActiveJobs, IInv, TypeOK
<1>2. ASSUME NEW j \in ActiveJobs
      PROVE  Live(j)
  BY <1>1, NoValueAssumption
     DEF ActiveJobs, Close, IInv, ActiveInv, ThreadInv, Occupying, Jobs
<1>3. PICK js \in SUBSET Jobs : js = ActiveJobs
  BY <1>1
<1>4. Abstract!Want(js)
  BY <1>2, <1>3, RefineWant DEF Close, jobVars
<1> QED BY <1>4

(* The store of the terminal state ends the abstract job.                  *)
LEMMA RefineStore ==
  ASSUME IInv, NEW j \in Jobs, FinishStore(j)
  PROVE  \E w \in Workspaces, end \in Terminal : Abstract!End(w, end)
<1> USE DEF FinishStore, registryVars, closeVars, clientVars, IInv, TypeOK
<1> DEFINE w == request[j].workspace
<1>1. /\ Live(j) /\ state[j] \notin Terminal /\ j # NoValue
      /\ outcome[j] \in Terminal
      /\ outcome[j] = "cancelled" => cancelled[j]
  BY NoValueAssumption DEF ThreadInv, OutcomeInv, Live, Jobs
<1>2. request[j] \in Requests
  BY DEF FreshInv
<1>3. /\ w \in Workspaces /\ active[w] = j
      /\ \A v \in Workspaces : active[v] = j => v = w
  BY <1>1, <1>2 DEF Requests, ActiveInv, Occupying
<1>4. AbstractCurrent' = [AbstractCurrent EXCEPT ![w] = NoValue]
  BY <1>1, <1>3 DEF AbstractCurrent, Busy
<1>5. AbstractLife' = [AbstractLife EXCEPT ![j] = outcome[j]]
  BY <1>1 DEF AbstractLife, Live
<1>6. AbstractCurrent[w] = j
  BY <1>1, <1>3 DEF AbstractCurrent, Busy
<1> QED BY <1>1, <1>3, <1>4, <1>5, <1>6 DEF Abstract!End, AbstractCurrent, AbstractLife

(* Freeing the workspace changes nothing a client could tell.              *)
LEMMA RefineRelease ==
  ASSUME IInv, NEW j \in Jobs, FinishRelease(j)
  PROVE  UNCHANGED Abstract!vars
<1> USE DEF FinishRelease, jobVars, closeVars, clientVars, IInv, TypeOK
<1>1. state[j] \in Terminal /\ request[j] \in Requests
  BY DEF ThreadInv, FreshInv
<1>2. AbstractCurrent' = AbstractCurrent
  BY <1>1 DEF AbstractCurrent, Busy, Requests
<1> QED BY <1>2, Stutters DEF AbstractLife, Live

(* A report keeps a running job running.                                   *)
LEMMA RefineReport ==
  ASSUME IInv, NEW j \in Jobs, NEW p \in Reports,
         NEW cache \in Caches \union {NoValue}, Report(j, p, cache)
  PROVE  UNCHANGED Abstract!vars
<1> USE DEF Report, registryVars, IInv, TypeOK
<1>1. /\ Live(j) /\ state[j] \notin Terminal
      /\ p.stage \notin Terminal /\ p.stage # "absent"
  BY ReportsAssumption DEF ThreadInv, Live, Stages, Terminal
<1>2. AbstractLife' = AbstractLife
  BY <1>1 DEF AbstractLife, Live
<1>3. AbstractCurrent' = AbstractCurrent
  BY <1>1 DEF AbstractCurrent, Busy
<1> QED BY <1>2, <1>3, Stutters

(* Every step of the registry is an abstract step or a stutter.            *)
LEMMA RefineStep == IInv /\ [Next]_vars => [Abstract!Next]_(Abstract!vars)
<1> SUFFICES ASSUME IInv, [Next]_vars
             PROVE  Abstract!Next \/ UNCHANGED Abstract!vars
  OBVIOUS
<1> USE DEF registryVars, jobVars, workerVars, closeVars, clientVars
<1>0. Abstract!Jobs = Jobs /\ Abstract!Ends = Terminal
  BY DEF Abstract!Jobs, Jobs, Abstract!Ends, Terminal
<1>1. ASSUME NEW c \in Clients, NEW r \in Requests, StartSpawned(c, r)
      PROVE  Abstract!Next
  BY <1>0, <1>1, RefineSpawn DEF Abstract!Next
<1>2. ASSUME NEW c \in Clients, NEW r \in Requests, StartSpawnFails(c, r)
      PROVE  Abstract!Next
  BY <1>0, <1>2, RefineSpawnFails DEF Abstract!Next
<1>3. ASSUME NEW c \in Clients, CancelStore(c)
      PROVE  Abstract!Next
  BY <1>0, <1>3, RefineCancel DEF Abstract!Next
<1>4. ASSUME Close
      PROVE  Abstract!Next
  BY <1>0, <1>4, RefineClose DEF Abstract!Next
<1>5. ASSUME NEW j \in Jobs, FinishStore(j)
      PROVE  Abstract!Next
  BY <1>0, <1>5, RefineStore DEF Abstract!Next
<1>6. ASSUME NEW j \in Jobs, FinishRelease(j)
      PROVE  UNCHANGED Abstract!vars
  BY <1>6, RefineRelease
<1>7. ASSUME NEW j \in Jobs, NEW p \in Reports,
             NEW cache \in Caches \union {NoValue}, Report(j, p, cache)
      PROVE  UNCHANGED Abstract!vars
  BY <1>7, RefineReport
<1>8. CASE UNCHANGED <<state, active, cancelled>>
  BY <1>8, UnchangedStutters
<1>9. ASSUME NEW c \in Clients, Client(c)
      PROVE  Abstract!Next \/ UNCHANGED <<state, active, cancelled>>
  BY <1>1, <1>2, <1>3, <1>9
     DEF Client, StartActive, SendStart, Lookup, StatusRead
<1>10. ASSUME NEW j \in Jobs, Worker(j)
       PROVE  \/ Abstract!Next
              \/ UNCHANGED Abstract!vars
              \/ UNCHANGED <<state, active, cancelled>>
  BY <1>5, <1>6, <1>7, <1>10 DEF Worker, Return, FinishDecide
<1>11. ASSUME Closing
       PROVE  Abstract!Next \/ UNCHANGED <<state, active, cancelled>>
  BY <1>4, <1>11 DEF Closing, CloseReturns, Join
<1> QED BY <1>8, <1>9, <1>10, <1>11 DEF Next, vars

(* The registry implements WorkspaceJobs.                                  *)
THEOREM Refinement == SafetySpec => ImplementsWorkspaceJobs
<1>1. Init => Abstract!Init
  BY NoValueAssumption
     DEF Init, Abstract!Init, Abstract!Jobs, Jobs, Busy, Live
<1> QED BY <1>1, RefineStep, InvariantHolds, PTL
        DEF SafetySpec, ImplementsWorkspaceJobs, Abstract!Spec
============================================================================
