--------------------------- MODULE WorkspaceJobs ---------------------------
(***************************************************************************)
(* What the job registry promises, without threads, locks or progress: a   *)
(* workspace has at most one job at a time, a job ends once, in one of     *)
(* three ways, ends as cancelled only if that was wanted, and its end and  *)
(* the release of its workspace are one event.  JobRegistry implements it. *)
(***************************************************************************)
EXTENDS Naturals

CONSTANTS Workspaces, MaxJobs, NoValue

Jobs == 1 .. MaxJobs
Ends == {"completed", "failed", "cancelled"}

VARIABLES
  current,  \* the job each workspace is busy with, or NoValue
  life,     \* each job: absent, running, or how it ended
  wanted    \* whether a job's cancellation was asked for

vars == <<current, life, wanted>>

Init ==
  /\ current = [w \in Workspaces |-> NoValue]
  /\ life = [j \in Jobs |-> "absent"]
  /\ wanted = [j \in Jobs |-> FALSE]

(* An idle workspace gets a new job.                                       *)
Begin(w, j) ==
  /\ current[w] = NoValue
  /\ life[j] = "absent"
  /\ current' = [current EXCEPT ![w] = j]
  /\ life' = [life EXCEPT ![j] = "running"]
  /\ UNCHANGED wanted

(* A job that never gets a thread is failed from birth.                    *)
Stillborn(j) ==
  /\ life[j] = "absent"
  /\ life' = [life EXCEPT ![j] = "failed"]
  /\ UNCHANGED <<current, wanted>>

(* The cancellation of some running jobs is asked for; they run on.        *)
Want(js) ==
  /\ \A j \in js : life[j] = "running"
  /\ wanted' = [j \in Jobs |-> wanted[j] \/ j \in js]
  /\ UNCHANGED <<current, life>>

(* The job of a workspace ends and the workspace is idle.                  *)
End(w, end) ==
  /\ current[w] # NoValue
  /\ end = "cancelled" => wanted[current[w]]
  /\ life' = [life EXCEPT ![current[w]] = end]
  /\ current' = [current EXCEPT ![w] = NoValue]
  /\ UNCHANGED wanted

Next ==
  \/ \E w \in Workspaces, j \in Jobs : Begin(w, j)
  \/ \E j \in Jobs : Stillborn(j)
  \/ \E js \in SUBSET Jobs : Want(js)
  \/ \E w \in Workspaces, end \in Ends : End(w, end)

Spec == Init /\ [][Next]_vars
============================================================================
