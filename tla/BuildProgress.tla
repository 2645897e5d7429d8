--------------------------- MODULE BuildProgress ---------------------------
(***************************************************************************)
(* What a build tells the job about itself, and what the job shows of it:  *)
(* Engine::build_snapshot and base_graph (src/src/index.rs) report stages  *)
(* and counters, build_index reports from several parser threads, and      *)
(* JobReporter (src/src/job.rs) keeps a report or drops it.                *)
(*                                                                         *)
(* One build, from its first report to its last.  It indexes the files of  *)
(* the head and then, if the snapshot has a base graph of its own, the     *)
(* files of the base, whose counters continue the head's.  A round's files *)
(* are numbered in the order of the captured sources.                      *)
(***************************************************************************)
EXTENDS Naturals, FiniteSets, Sequences

CONSTANTS
  Rounds,    \* how many rounds: 1, or 2 with a base graph
  MaxFiles,  \* bound on the files of a round
  MaxTotal,  \* bound on the files of all rounds
  Threads,   \* hardware threads: available_parallelism
  Share,     \* files per parser thread before another one is worth it; 4 there
  None    \* Rust's None

ASSUME ProgressAssumption ==
  /\ {Rounds, Threads, Share} \subseteq Nat \ {0}
  /\ {MaxFiles, MaxTotal} \subseteq Nat
  /\ None \notin Nat

FileNumbers == 1 .. MaxFiles
Workers == 1 .. Threads

(* What becomes of a file: its rows are reused from the seed, it is parsed, *)
(* it is skipped (not UTF-8, or a blob over the size limit), or it fails    *)
(* the build (an I/O error, a changed capture, a cancellation).             *)
Fates == {"reused", "parsed", "skipped", "error"}
Stages ==
  {"capturing", "selecting_seed", "indexing", "resolving_graph", "publishing"}
Rank ==
  [s \in Stages |->
     CASE s = "capturing" -> 0
       [] s = "selecting_seed" -> 1
       [] s = "indexing" -> 2
       [] s = "resolving_graph" -> 3
       [] s = "publishing" -> 4]

VARIABLES
  fate,       \* fate[r]: the files of round r with what becomes of each
  exact,      \* exact[r]: the image of round r is in the cache already
  phase,      \* where the building thread is
  round,      \* the round it is in
  reusing,    \* the file the reuse loop looks at next
  pending,    \* the files it left for the parser threads
  crew,       \* the parser threads of this round
  next,       \* the shared index into pending
  completed,  \* the shared count of files dealt with
  lock,       \* the thread that holds progress_lock, or None
  worker,     \* where each parser thread is
  taken,      \* the file it works on, or None
  done,       \* the count it is about to report
  parts,      \* files built in this round, by the thread that built them
  sums,       \* files_done, files_reused, files_parsed of the rounds before
  sent,       \* the last report of the build
  shown       \* JobData: the last report the job kept

roundVars == <<phase, round, reusing, pending>>
sharedVars == <<next, completed, lock>>
workerVars == <<crew, worker, taken, done, parts>>
inputVars == <<fate, exact>>
progressVars == <<inputVars, roundVars, sharedVars, workerVars, sums, sent, shown>>

Report(stage, d, total, reused, parsed) ==
  [stage |-> stage, done |-> d, total |-> total, reused |-> reused, parsed |-> parsed]
NoReport == Report("capturing", 0, 0, 0, 0)

Total(r) == Len(fate[r])
With(r, f) == Cardinality({i \in 1 .. Total(r) : fate[r][i] = f})
Unreused(r) == {i \in 1 .. Total(r) : fate[r][i] # "reused"}

(* The files of a round.                                                   *)
Rows == UNION {[1 .. n -> Fates] : n \in 0 .. MaxFiles}

(* The counters and locals hold numbers the code's usize and indices hold. *)
TypesOfProgress ==
  /\ fate \in [1 .. Rounds -> Rows]
  /\ exact \in [1 .. Rounds -> BOOLEAN]
  /\ phase \in {"captured", "seeded", "start", "reuse", "spawn", "parse", "joined",
                "indexed", "resolved", "published", "failed"}
  /\ round \in 1 .. Rounds
  /\ reusing \in 1 .. MaxFiles + 1
  /\ pending \in Seq(FileNumbers)
  /\ crew \in SUBSET Workers
  /\ next \in 1 .. MaxFiles + Threads + 1
  /\ completed \in 0 .. MaxFiles
  /\ lock \in Workers \union {None}
  /\ worker \in [Workers -> {"out", "take", "build", "lock", "report", "error"}]
  /\ taken \in [Workers -> FileNumbers \union {None}]
  /\ done \in [Workers -> 0 .. MaxFiles]
  /\ parts \in [Workers -> SUBSET FileNumbers]
  /\ sums \in [done : Nat, reused : Nat, parsed : Nat]
  /\ {sent, shown} \subseteq
       [stage : Stages, done : Nat, total : Nat, reused : Nat, parsed : Nat]

InitProgress ==
  /\ fate \in [1 .. Rounds -> Rows]
  /\ Cardinality(UNION {{r} \X (1 .. Total(r)) : r \in 1 .. Rounds}) <= MaxTotal
  /\ exact \in [1 .. Rounds -> BOOLEAN]
  /\ phase = "captured"
  /\ round = 1
  /\ reusing = 1
  /\ pending = <<>>
  /\ crew = {}
  /\ next = 1
  /\ completed = 0
  /\ lock = None
  /\ worker = [w \in Workers |-> "out"]
  /\ taken = [w \in Workers |-> None]
  /\ done = [w \in Workers |-> 0]
  /\ parts = [w \in Workers |-> {}]
  /\ sums = [done |-> 0, reused |-> 0, parsed |-> 0]
  /\ sent = NoReport
  /\ shown = NoReport

----------------------------------------------------------------------------
(* JobReporter::report: a report is kept if its stage is the one shown or  *)
(* the next, and no counter falls back, the capture's counters apart.      *)
Follows(old, new) ==
  /\ Rank[new.stage] \in {Rank[old.stage], Rank[old.stage] + 1}
  /\ \/ old.stage = "capturing" /\ new.stage = "selecting_seed"
     \/ \A field \in {"done", "total", "reused", "parsed"} : new[field] >= old[field]

Send(r) ==
  /\ sent' = r
  /\ shown' = IF Follows(shown, r) THEN r ELSE shown

(* Mutant: the base's counters start again from nothing.                   *)
ProgressFromNothing(d, reused, parsed) ==
  Send(Report("indexing", d, Total(round), reused, parsed))

(* A report of the round under way: base_graph adds what the head did.     *)
Progress(d, reused, parsed) ==
  Send(Report("indexing", sums.done + d, sums.done + Total(round),
              sums.reused + reused, sums.parsed + parsed))

(* The closure build_index reports through counts as parsed whatever was   *)
(* not reused.                                                             *)
IndexProgress(d, reused) == Progress(d, reused, d - reused)

(* The capture is over; the seed is selected.                              *)
Captured ==
  /\ phase = "captured"
  /\ Send(Report("capturing", Total(1), Total(1), 0, 0))
  /\ phase' = "seeded"
  /\ UNCHANGED <<inputVars, round, reusing, pending, sharedVars, workerVars, sums>>

Seeded ==
  /\ phase = "seeded"
  /\ Send(Report("selecting_seed", 0, Total(1), 0, 0))
  /\ phase' = "start"
  /\ UNCHANGED <<inputVars, round, reusing, pending, sharedVars, workerVars, sums>>

(* The image is in the cache: one report, all files reused.                *)
UseExact ==
  /\ phase = "start"
  /\ exact[round]
  /\ Progress(Total(round), Total(round), 0)
  /\ sums' = [done |-> sums.done + Total(round), reused |-> sums.reused + Total(round),
              parsed |-> sums.parsed]
  /\ phase' = "indexed"
  /\ UNCHANGED <<inputVars, round, reusing, pending, sharedVars, workerVars>>

(* build_index starts: no file done yet.                                   *)
StartIndex ==
  /\ phase = "start"
  /\ ~ exact[round]
  /\ IndexProgress(0, 0)
  /\ reusing' = 1
  /\ pending' = <<>>
  /\ phase' = "reuse"
  /\ UNCHANGED <<inputVars, round, sharedVars, workerVars, sums>>

(* The loop over the files that takes the reused ones out.                 *)
ReuseFile ==
  /\ phase = "reuse"
  /\ reusing <= Total(round)
  /\ IF fate[round][reusing] = "reused"
       THEN LET reused == Cardinality({i \in 1 .. reusing : fate[round][i] = "reused"})
            IN  IndexProgress(reused, reused) /\ UNCHANGED pending
       ELSE pending' = Append(pending, reusing) /\ UNCHANGED <<sent, shown>>
  /\ reusing' = reusing + 1
  /\ UNCHANGED <<inputVars, phase, round, sharedVars, workerVars, sums>>

Ceiling(n, d) == (n + d - 1) \div d

(* One thread per Share pending files, at least one and at most Threads.   *)
(* With one, the building thread does the work itself and takes no lock.   *)
CrewSize == LET wanted == Ceiling(Len(pending), Share) IN
  IF wanted = 0 THEN 1 ELSE IF wanted > Threads THEN Threads ELSE wanted

Spawn ==
  /\ phase = "reuse"
  /\ reusing > Total(round)
  /\ crew' = 1 .. CrewSize
  /\ worker' = [w \in Workers |-> IF w \in crew' THEN "take" ELSE "out"]
  /\ next' = 1
  /\ completed' = With(round, "reused")
  /\ parts' = [w \in Workers |-> {}]
  /\ phase' = "parse"
  /\ UNCHANGED <<inputVars, round, reusing, pending, lock, taken, done, sums, sent, shown>>

----------------------------------------------------------------------------
(* A parser thread.                                                        *)

(* Mutant: the next file is found from the count of completed ones.        *)
TakeByCompleted(w) ==
  /\ worker[w] = "take"
  /\ LET i == completed - With(round, "reused") + 1 IN
       IF i <= Len(pending)
         THEN /\ taken' = [taken EXCEPT ![w] = pending[i]]
              /\ worker' = [worker EXCEPT ![w] = "build"]
         ELSE /\ worker' = [worker EXCEPT ![w] = "out"]
              /\ UNCHANGED taken
  /\ UNCHANGED <<inputVars, roundVars, next, completed, lock, crew, done, parts, sums,
                 sent, shown>>

(* pending.get(next.fetch_add(1)): the next file, or the thread is done.   *)
Take(w) ==
  /\ worker[w] = "take"
  /\ next' = next + 1
  /\ IF next <= Len(pending)
       THEN /\ taken' = [taken EXCEPT ![w] = pending[next]]
            /\ worker' = [worker EXCEPT ![w] = "build"]
       ELSE /\ worker' = [worker EXCEPT ![w] = "out"]
            /\ UNCHANGED taken
  /\ UNCHANGED <<inputVars, roundVars, completed, lock, crew, done, parts, sums,
                 sent, shown>>

(* build_file: an error ends this thread, not the others.                  *)
BuildFile(w) ==
  /\ worker[w] = "build"
  /\ IF fate[round][taken[w]] = "error"
       THEN /\ worker' = [worker EXCEPT ![w] = "error"]
            /\ UNCHANGED parts
       ELSE /\ parts' = [parts EXCEPT ![w] = @ \union {taken[w]}]
            /\ worker' = [worker EXCEPT ![w] = "lock"]
  /\ taken' = [taken EXCEPT ![w] = None]
  /\ UNCHANGED <<inputVars, roundVars, sharedVars, crew, done, sums, sent, shown>>

(* Under progress_lock: count the file ...                                 *)
Count(w) ==
  /\ worker[w] = "lock"
  /\ lock = None
  /\ lock' = w
  /\ completed' = completed + 1
  /\ done' = [done EXCEPT ![w] = completed']
  /\ worker' = [worker EXCEPT ![w] = "report"]
  /\ UNCHANGED <<inputVars, roundVars, next, crew, taken, parts, sums, sent, shown>>

(* ... and report the count, whatever the callback takes.                  *)
ReportFile(w) ==
  /\ worker[w] = "report"
  /\ IndexProgress(done[w], With(round, "reused"))
  /\ lock' = None
  /\ worker' = [worker EXCEPT ![w] = "take"]
  /\ UNCHANGED <<inputVars, roundVars, next, completed, crew, taken, done, parts, sums>>

----------------------------------------------------------------------------
(* Mutant: the errors of the threads are dropped.                          *)
JoinIgnoringErrors ==
  /\ phase = "parse"
  /\ \A w \in crew : worker[w] \in {"out", "error"}
  /\ phase' = "joined"
  /\ UNCHANGED <<inputVars, round, reusing, pending, sharedVars, workerVars, sums, sent,
                 shown>>

(* The building thread joins all of them; one error fails the build.       *)
Join ==
  /\ phase = "parse"
  /\ \A w \in crew : worker[w] \in {"out", "error"}
  /\ phase' = IF \E w \in crew : worker[w] = "error" THEN "failed" ELSE "joined"
  /\ UNCHANGED <<inputVars, round, reusing, pending, sharedVars, workerVars, sums, sent,
                 shown>>

(* The report of the finished round counts as parsed what was parsed.      *)
FinishRound ==
  /\ phase = "joined"
  /\ LET built == UNION {parts[w] : w \in crew}
         parsed == Cardinality({i \in built : fate[round][i] = "parsed"})
     IN  /\ Progress(Total(round), With(round, "reused"), parsed)
         /\ sums' = [done |-> sums.done + Total(round),
                     reused |-> sums.reused + With(round, "reused"),
                     parsed |-> sums.parsed + parsed]
  /\ phase' = "indexed"
  /\ UNCHANGED <<inputVars, round, reusing, pending, sharedVars, workerVars>>

(* On to the base, if there is one ...                                     *)
NextRound ==
  /\ phase = "indexed"
  /\ round < Rounds
  /\ round' = round + 1
  /\ phase' = "start"
  /\ UNCHANGED <<inputVars, reusing, pending, sharedVars, workerVars, sums, sent, shown>>

(* ... or to the graph: resolve and seal it ...                            *)
ResolveGraph ==
  /\ phase = "indexed"
  /\ round = Rounds
  /\ Send(Report("resolving_graph", sums.done, sums.done, sums.reused, sums.parsed))
  /\ phase' = "resolved"
  /\ UNCHANGED <<inputVars, round, reusing, pending, sharedVars, workerVars, sums>>

(* ... and publish.                                                        *)
Published ==
  /\ phase = "resolved"
  /\ Send(Report("publishing", sums.done, sums.done, sums.reused, sums.parsed))
  /\ phase' = "published"
  /\ UNCHANGED <<inputVars, round, reusing, pending, sharedVars, workerVars, sums>>

Ended == phase \in {"published", "failed"} /\ UNCHANGED progressVars

Builder ==
  \/ Captured \/ Seeded \/ UseExact \/ StartIndex \/ ReuseFile \/ Spawn
  \/ Join \/ FinishRound \/ NextRound \/ ResolveGraph \/ Published

Parser(w) == Take(w) \/ BuildFile(w) \/ Count(w) \/ ReportFile(w)

NextProgress == Builder \/ (\E w \in Workers : Parser(w)) \/ Ended

SpecProgress == InitProgress /\ [][NextProgress]_progressVars

(* Every thread runs; the scope joins them all.                            *)
FairProgress ==
  SpecProgress /\ WF_progressVars(Builder) /\ \A w \in Workers : WF_progressVars(Parser(w))

----------------------------------------------------------------------------
(* The threads divide the pending files among them: no file is built twice *)
(* and, when they have been joined without an error, none is left out, so  *)
(* that the graph has the rows of every source.                            *)
FilesAreDivided ==
  /\ \A v, w \in crew : v # w =>
       /\ parts[v] \intersect parts[w] = {}
       /\ taken[v] # None => taken[v] # taken[w] /\ taken[v] \notin parts[w]
  /\ phase = "joined" =>
       UNION {parts[w] : w \in crew} = Unreused(round)

Skips == \E r \in 1 .. Rounds : ~ exact[r] /\ With(r, "skipped") > 0

(* The job shows every report of a build that skips no file: nothing it    *)
(* says is dropped for being out of order, from one stage, thread or graph *)
(* to the next.                                                            *)
EveryReportIsShown == ~ Skips => shown = sent

(* A build ends published unless a file fails it, whatever the threads do. *)
BuildEnds ==
  <>(IF \E r \in 1 .. Rounds : ~ exact[r] /\ With(r, "error") > 0
       THEN phase = "failed" ELSE phase = "published")
============================================================================
