---------------------------- MODULE JobLifecycle ----------------------------
(***************************************************************************)
(* What the workflow documentation promises of a provision job, with no    *)
(* sessions, threads or event loop: a job is queued, one attempt at a time *)
(* takes it to succeeded or failed, a failed or cancelled job may be       *)
(* queued again, a queued job may be cancelled, and success is final.      *)
(***************************************************************************)
CONSTANT Jobs

VARIABLES
  st,     \* the status of each job
  open    \* the jobs an attempt is working on

lifecycleVars == <<st, open>>

Start ==
  /\ st = [j \in Jobs |-> "absent"]
  /\ open = {}

Move(j, from, to) == st[j] \in from /\ st' = [st EXCEPT ![j] = to]

Submit(j)  == Move(j, {"absent"}, "queued") /\ UNCHANGED open
Cancel(j)  == Move(j, {"queued"}, "cancelled") /\ UNCHANGED open
Requeue(j) == Move(j, {"failed", "cancelled"}, "queued") /\ UNCHANGED open

Begin(j) ==
  /\ j \notin open
  /\ Move(j, {"queued"}, "running")
  /\ open' = open \cup {j}

End(j) ==
  /\ j \in open
  /\ \E outcome \in {"succeeded", "failed"} : Move(j, {"running"}, outcome)
  /\ open' = open \ {j}

(* A crash leaves the rows, so the jobs it interrupts stay running.        *)
Crash == open' = {} /\ UNCHANGED st

Step ==
  \/ \E j \in Jobs :
       Submit(j) \/ Cancel(j) \/ Requeue(j) \/ Begin(j) \/ End(j)
  \/ Crash

LifecycleSpec == Start /\ [][Step]_lifecycleVars

=============================================================================
