----------------------- MODULE ProvisionJobsRefinement -----------------------
(***************************************************************************)
(* What ProvisionJobs promises where nobody forces a run and no cancel     *)
(* thread runs (Calm): one attempt of a job at a time, success is final,   *)
(* and every step of the engine is a step of JobLifecycle or a stutter.    *)
(*                                                                         *)
(* StepKinds refines RunnerEffect: it adds what each kind of step does to  *)
(* the status and the events of the job.  CalmInv is proved by cases on    *)
(* it, and so is the simulation.                                           *)
(***************************************************************************)
EXTENDS ProvisionJobsSafety

(* The conditions of the documented lifecycle.                             *)
Calm == RunModes \subseteq {FALSE} /\ Cancellers = {}

(* Nothing but the row of job j changed, and it did not lose its tenant.   *)
OnlyRow(j) ==
  /\ \A i \in Jobs \ {j} : job'[i] = job[i]
  /\ job'[j].tenant = job[j].tenant

(* The kinds of steps, with the status they find and leave.                *)
Requeued(r) ==
  \E j \in Jobs :
    /\ OnlyRow(j) /\ UNCHANGED audit
    /\ job[j].status \in {"failed", "cancelled"}
    /\ job'[j].status = "queued"
    /\ run[r].pc = "idle"
    /\ \/ run'[r].pc = "idle"
       \/ run'[r].pc = "load" /\ run'[r].job = j

Opened(r) ==
  LET j == run[r].job
  IN /\ Opens(r) /\ OnlyRow(j)
     /\ job'[j].status = Col(job[j].status, run[r].obj.status, "running")

Failed(r) ==
  LET j == run[r].job
  IN /\ Ends(r) /\ OnlyRow(j) /\ run[r].pc \in Refreshed
     /\ job'[j].status = Col(job[j].status, run[r].obj.status, "failed")
     /\ audit'[j].succeeded = audit[j].succeeded

Succeeded(r) ==
  LET j == run[r].job
  IN /\ Ends(r) /\ OnlyRow(j) /\ run[r].pc = "complete"
     /\ job'[j].status = "succeeded"
     /\ audit'[j].succeeded = audit[j].succeeded + 1

(* Some client forces runs.                                                *)
Forcing == TRUE \in RunModes

(* How a coroutine is left by a step: what it came for, and whether it     *)
(* still ticks.                                                            *)
KindKept(r) ==
  /\ run'[r].kind = "force" => run[r].kind = "force" \/ Forcing
  /\ run'[r].pc = "tick" => run'[r].kind = "tick"
  /\ run'[r].pc = "load" /\ run'[r].kind = "retry" =>
       \/ run[r].pc = "tick" /\ run[r].kind = "retry"
       \/ Requeued(r)

LEMMA RestKind ==
  ASSUME NEW a \in RunType
  PROVE  Rest(a).kind = IF a.batch = {} THEN "none" ELSE "tick"
BY DEF Rest, RunType, IdleRun

(* A retry finds a failed or cancelled job and requeues it.                *)
LEMMA RetryKind ==
  ASSUME TypeOK, NEW r \in Runners, NEW j \in Jobs, NEW q \in RetryRequests,
         Retry(r, j, q)
  PROVE  Requeued(r) /\ KindKept(r)
<1> DEFINE a == [IdleRun EXCEPT !.pc = "load", !.job = j, !.kind = "retry"]
           f == [run EXCEPT ![r] = a]
<1>1. a \in RunType /\ a.pc = "load" /\ a.job = j /\ a.kind = "retry"
  BY IdleRunType DEF RunType, IdleRun, PCs, Kinds
<1>2. /\ run' = Postponed(f, j) \/ run' = Postponed(run, j)
      /\ run[r].pc = "idle" /\ UNCHANGED audit
      /\ job[j].status \in {"failed", "cancelled"}
  BY DEF Retry, Begins
<1> HIDE DEF a
<1>3. f \in [Runners -> RunType] /\ run \in [Runners -> RunType] /\ f[r] = a
  BY <1>1 DEF TypeOK
<1> HIDE DEF f
<1>4. \/ /\ run'[r].pc = "load" /\ run'[r].job = j /\ run'[r].kind = "retry"
      \/ run'[r].pc = "idle" /\ run'[r].kind = run[r].kind
  BY <1>1, <1>2, <1>3, PostponedFacts DEF SameLinks
<1>5. /\ job' = [job EXCEPT ![j] = RetriedRow(job[j], q)]
      /\ job[j] \in Row
  BY DEF Retry, TypeOK, NoRow
<1>6. /\ RetriedRow(job[j], q).status = "queued"
      /\ RetriedRow(job[j], q).tenant = job[j].tenant
  <2> DEFINE m == RetryMax(job[j], q)
             x == IF q.fail # "none" THEN q.fail
                  ELSE IF q.clear THEN "none" ELSE job[j].req.fail
  <2>1. RetriedRow(job[j], q) =
          [job[j] EXCEPT !.status = "queued", !.max = m, !.completed = FALSE,
                         !.locked = FALSE, !.next = TRUE,
                         !.req = [job[j].req EXCEPT !.fail = x]]
    BY <1>5 DEF RetriedRow, Row
  <2> HIDE DEF m, x
  <2> QED
    BY <1>5, <2>1 DEF Row
<1>7. Requeued(r)
  BY <1>2, <1>4, <1>5, <1>6 DEF Requeued, OnlyRow, TypeOK
<1> QED
  BY <1>2, <1>4, <1>7 DEF KindKept

(* The commit that opens an attempt sets the status unless the loaded copy *)
(* said running already.                                                   *)
LEMMA StartKind ==
  ASSUME TypeOK, LoopHeld, NEW r \in Runners, Start(r)
  PROVE  Opened(r) /\ KindKept(r)
<1> DEFINE j == run[r].job
           s == Col(job[j].status, run[r].obj.status, "running")
           n == Col(job[j].next, run[r].obj.next, FALSE)
           c == Col(job[j].completed, run[r].obj.completed, FALSE)
           row == [job[j] EXCEPT !.status = s,
                     !.attempts = run[r].obj.attempts + 1,
                     !.max = run[r].obj.max, !.locked = TRUE, !.next = n,
                     !.completed = c, !.req = run[r].obj.req]
<1>1. Opens(r)
  BY StartEffect DEF Opens
<1>2. run[r].job \in Jobs /\ job[j] \in Row
  BY RunFacts DEF Start, Linked
<1>3. job' = [job EXCEPT ![j] = row]
  BY <1>2 DEF Start, StartedRow, Row
<1>4. row.status = s /\ row.tenant = job[j].tenant
  <2> HIDE DEF s, n, c, j
  <2> QED
    BY <1>2 DEF Row
<1> HIDE DEF row
<1>5. OnlyRow(j) /\ job'[j].status = s
  BY <1>2, <1>3, <1>4 DEF OnlyRow, TypeOK
<1>6. run'[r].pc = "deploy" /\ run'[r].kind = run[r].kind
  <2> DEFINE a == [run[r] EXCEPT !.pc = "deploy", !.obj = NoRow]
  <2>1. run' = [run EXCEPT ![r] = a]
    BY DEF Start, Proceed, TypeOK
  <2>2. a.pc = "deploy" /\ a.kind = run[r].kind
    BY RunFacts DEF RunType
  <2> HIDE DEF a
  <2> QED
    BY <2>1, <2>2 DEF TypeOK
<1> QED
  BY <1>1, <1>5, <1>6 DEF Opened, KindKept

(* The failure handler of an attempt with a session writes failed unless   *)
(* the session had loaded failed.                                          *)
LEMMA FailKind ==
  ASSUME TypeOK, NEW r \in Runners, run[r].pc \in Refreshed,
         FailAttempt(r, run[r].obj)
  PROVE  Failed(r) /\ KindKept(r)
<1> DEFINE j == run[r].job
           obj == run[r].obj
           f == [run EXCEPT ![r] = Rest(@)]
           s == Col(job[j].status, obj.status, "failed")
           k == Col(job[j].locked, obj.locked, FALSE)
           n == IF obj.attempts >= obj.max
                THEN Col(job[j].next, obj.next, FALSE) ELSE TRUE
           row == [job[j] EXCEPT !.status = s, !.completed = TRUE,
                     !.locked = k, !.next = n, !.req = run[r].req]
<1>1. /\ run[r] \in RunType /\ j \in Jobs /\ job[j] \in Row /\ obj \in Row
      /\ run[r].pc \in Executing
  BY RunFacts, PcFacts DEF Linked
<1>2. Ends(r)
  BY <1>1, FailEffect
<1>3. /\ job' = [job EXCEPT ![j] = row]
      /\ audit' = [audit EXCEPT ![j].failed = audit[j].failed + 1]
      /\ run' = f \/ run' = Postponed(f, j)
  BY <1>1 DEF FailAttempt, FailedRow, Row
<1>4. row.status = s /\ row.tenant = job[j].tenant
  <2> HIDE DEF s, n, k, j, obj
  <2> QED
    BY <1>1 DEF Row
<1> HIDE DEF row
<1>5. OnlyRow(j) /\ job'[j].status = s
  BY <1>1, <1>3, <1>4 DEF OnlyRow, TypeOK
<1>6. audit'[j].succeeded = audit[j].succeeded
  <2> HIDE DEF j
  <2> QED
    BY <1>1, <1>3 DEF TypeOK
<1>7. run'[r].pc \in {"idle", "tick"} /\ run'[r].kind \in {"none", "tick"}
      /\ (run'[r].pc = "tick" => run'[r].kind = "tick")
  <2>1. f \in [Runners -> RunType] /\ f[r] = Rest(run[r])
    BY <1>1, RestFacts DEF TypeOK
  <2> HIDE DEF f, j
  <2>2. run'[r].pc = f[r].pc /\ run'[r].kind = f[r].kind
    BY <1>1, <1>3, <2>1, PostponedFacts DEF SameLinks
  <2> QED
    BY <1>1, <2>1, <2>2, RestFacts, RestKind
<1> QED
  BY <1>1, <1>2, <1>5, <1>6, <1>7 DEF Failed, KindKept

(* Success is written whatever the row says.                               *)
LEMMA CompleteKind ==
  ASSUME TypeOK, NEW r \in Runners, Complete(r)
  PROVE  Succeeded(r) /\ KindKept(r)
<1> DEFINE j == run[r].job
           row == SucceededRow(job[j], run[r].req)
<1>1. /\ run[r] \in RunType /\ j \in Jobs /\ job[j] \in Row
      /\ Ends(r) /\ run[r].pc = "complete"
  BY RunFacts, CompleteEffect DEF Linked, Executing, Phases
<1>2. /\ job' = [job EXCEPT ![j] = row]
      /\ audit' = [audit EXCEPT ![j].succeeded = audit[j].succeeded + 1]
      /\ run' = [run EXCEPT ![r] = Rest(run[r])]
  BY DEF Complete
<1>3. row.status = "succeeded" /\ row.tenant = job[j].tenant
  BY <1>1 DEF SucceededRow, Row
<1> HIDE DEF row
<1>4. OnlyRow(j) /\ job'[j].status = "succeeded"
  BY <1>1, <1>2, <1>3 DEF OnlyRow, TypeOK
<1>5. audit'[j].succeeded = audit[j].succeeded + 1
  <2> HIDE DEF j
  <2> QED
    BY <1>1, <1>2 DEF TypeOK
<1>6. run'[r] = Rest(run[r])
  BY <1>2 DEF TypeOK
<1> QED
  BY <1>1, <1>4, <1>5, <1>6, RestFacts, RestKind DEF Succeeded, KindKept

(* A commit or a read inside an attempt leaves what the coroutine is for.  *)
LEMMA InnerKind ==
  ASSUME TypeOK, NEW r \in Runners, NEW pc \in Executing,
         Proceed(r, pc) \/ Refresh(r, pc)
  PROVE  KindKept(r) /\ run'[r].pc = pc /\ run'[r].job = run[r].job
<1>1. PICK o : run' = [run EXCEPT ![r] = [run[r] EXCEPT !.pc = pc, !.obj = o]]
  BY DEF Proceed, Refresh, TypeOK
<1> DEFINE a == [run[r] EXCEPT !.pc = pc, !.obj = o]
<1>2. a.pc = pc /\ a.kind = run[r].kind /\ a.job = run[r].job
  BY RunFacts DEF RunType
<1>3. run'[r] = a
  BY <1>1 DEF TypeOK
<1> HIDE DEF a
<1> QED
  BY <1>2, <1>3, PcFacts DEF KindKept

(* Inside an attempt a step is quiet, fails or succeeds.                   *)
LEMMA ExecuteKind ==
  ASSUME TypeOK, LoopHeld, NEW r \in Runners, Execute(r)
  PROVE  KindKept(r) /\ (Quiet(r) \/ Failed(r) \/ Succeeded(r))
<1>1. CASE Complete(r)
  BY <1>1, CompleteKind
<1>2. CASE \/ Fail(r)
           \/ \E queried \in BOOLEAN : DeployTimeout(r, queried)
           \/ InitError(r)
           \/ \E made \in BOOLEAN : BindError(r, made)
  <2>1. run[r].pc \in Refreshed /\ FailAttempt(r, run[r].obj)
    BY <1>2 DEF Fail, DeployTimeout, InitError, BindError, Resumes, Refreshed
  <2> QED
    BY <2>1, FailKind
<1>3. CASE \/ MaybeFail(r) \/ Handle(r)
           \/ DeployCall(r) \/ InitCall(r) \/ BindCall(r)
           \/ DeployOk(r) \/ DeployRefused(r) \/ InitOk(r)
           \/ (\E made \in BOOLEAN : BindOk(r, made)) \/ Domains(r)
  <2>1. PICK pc \in Executing :
          /\ Proceed(r, pc) \/ Refresh(r, pc)
          /\ UNCHANGED audit
    BY <1>3, PcFacts
       DEF MaybeFail, Handle, DeployCall, InitCall, BindCall, Call, DeployOk,
           DeployRefused, InitOk, BindOk, Domains, Executing, Phases, Refreshed
  <2>2. KindKept(r) /\ run'[r].pc = pc
    BY <2>1, InnerKind
  <2>3. Quiet(r)
    BY <2>1, <2>2, ExecuteEffect, PcFacts DEF Ends
  <2> QED
    BY <2>2, <2>3
<1> QED
  BY <1>1, <1>2, <1>3 DEF Execute

(* Arrivals, and what comes before the guards.                             *)
LEMMA ArriveKind ==
  ASSUME TypeOK, NEW r \in Runners,
         \/ \E t \in Tenants, q \in Requests : Submit(r, t, q)
         \/ \E j \in Jobs, force \in RunModes : RunRequest(r, j, force)
         \/ TickList(r)
  PROVE  KindKept(r)
<1>1. ASSUME NEW t \in Tenants, NEW q \in Requests, Submit(r, t, q)
      PROVE  KindKept(r)
  <2> DEFINE k == IF q.inline THEN "create" ELSE "enqueue"
             a == [IdleRun EXCEPT !.pc = "insert", !.obj = NewRow(t, q),
                                  !.kind = k]
  <2>1. a.pc = "insert" /\ a.kind = k /\ k \notin {"force", "retry"}
    BY DEF IdleRun
  <2>2. run' = [run EXCEPT ![r] = a]
    BY <1>1 DEF Submit
  <2> HIDE DEF a, k
  <2> QED
    BY <2>1, <2>2, RunUpdated DEF KindKept
<1>2. ASSUME NEW j \in Jobs, NEW force \in RunModes, RunRequest(r, j, force)
      PROVE  KindKept(r)
  <2> DEFINE k == IF force THEN "force" ELSE "run"
             a == [IdleRun EXCEPT !.pc = "load", !.job = j, !.kind = k]
  <2>1. a.pc = "load" /\ a.kind = k
    BY DEF IdleRun
  <2>2. k # "retry" /\ (k # "force" \/ Forcing)
    BY InputAssumption DEF Forcing
  <2>3. run' = [run EXCEPT ![r] = a]
    BY <1>2 DEF RunRequest
  <2> HIDE DEF a, k
  <2> QED
    BY <2>1, <2>2, <2>3, RunUpdated DEF KindKept
<1>3. CASE TickList(r)
  <2> DEFINE B == {j \in QueuedJobs :
                   Cardinality({i \in QueuedJobs : i <= j}) <= TickLimit}
             a == [IdleRun EXCEPT !.pc = "tick", !.kind = "tick", !.batch = B]
  <2>1. run' = [run EXCEPT ![r] = a]
    BY <1>3 DEF TickList
  <2> HIDE DEF B
  <2>2. a.pc = "tick" /\ a.kind = "tick"
    BY DEF IdleRun
  <2> HIDE DEF a
  <2> QED
    BY <2>1, <2>2, RunUpdated DEF KindKept
<1> QED
  BY <1>1, <1>2, <1>3

LEMMA PickKind ==
  ASSUME TypeOK, NEW r \in Runners,
         Insert(r) \/ TickNext(r) \/ Refuse(r) \/ Load(r)
  PROVE  KindKept(r)
<1>1. run[r] \in RunType
  BY RunFacts
<1>2. /\ IdleRun.pc = "idle" /\ IdleRun.kind = "none"
  BY DEF IdleRun
<1>3. CASE run' = [run EXCEPT ![r] = IdleRun]
  BY <1>2, <1>3, RunUpdated DEF KindKept
<1>4. ASSUME NEW b \in RunType, run' = [run EXCEPT ![r] = Rest(b)]
      PROVE  KindKept(r)
  <2>1. /\ Rest(b).pc \in {"idle", "tick"} /\ Rest(b).kind \in {"none", "tick"}
        /\ Rest(b).pc = "tick" => Rest(b).kind = "tick"
    BY RestFacts, RestKind
  <2> QED
    BY <1>4, <2>1, RunUpdated DEF KindKept
<1>5. CASE Insert(r)
  <2>1. CASE run[r].kind = "create"
    <3>1. PICK j \in Jobs :
            \/ run' = [run EXCEPT ![r].pc = "load", ![r].job = j,
                                  ![r].obj = NoRow]
            \/ run' = [run EXCEPT ![r] = IdleRun]
      BY <1>5 DEF Insert
    <3> DEFINE a == [run[r] EXCEPT !.pc = "load", !.job = j, !.obj = NoRow]
    <3>2. a.pc = "load" /\ a.kind = "create"
      BY <1>1, <2>1 DEF RunType
    <3>3. run' = [run EXCEPT ![r] = a] \/ run' = [run EXCEPT ![r] = IdleRun]
      BY <3>1 DEF TypeOK
    <3> HIDE DEF a
    <3>4. CASE run' = [run EXCEPT ![r] = a]
      BY <3>2, <3>4, RunUpdated DEF KindKept
    <3> QED
      BY <1>3, <3>3, <3>4
  <2>2. CASE run[r].kind # "create"
    BY <1>3, <1>5, <2>2 DEF Insert
  <2> QED
    BY <2>1, <2>2
<1>6. CASE TickNext(r)
  <2>1. PICK j \in run[r].batch :
          LET rest == [run[r] EXCEPT !.batch = @ \ {j}, !.late = @ \ {j}]
          IN \/ run' = [run EXCEPT ![r] = Rest(rest)]
             \/ run' = [run EXCEPT ![r] = [rest EXCEPT !.pc = "load",
                                                       !.job = j]]
    BY <1>6 DEF TickNext
  <2> DEFINE rest == [run[r] EXCEPT !.batch = @ \ {j}, !.late = @ \ {j}]
             a == [rest EXCEPT !.pc = "load", !.job = j]
  <2>2. rest \in RunType /\ rest.kind = run[r].kind
    BY <1>1 DEF RunType
  <2>3. a.pc = "load" /\ a.kind = run[r].kind
    <3> HIDE DEF rest
    <3> QED BY <2>2 DEF RunType
  <2>4. run[r].pc = "tick"
    BY <1>6 DEF TickNext
  <2>5. run' = [run EXCEPT ![r] = Rest(rest)] \/ run' = [run EXCEPT ![r] = a]
    BY <2>1
  <2> HIDE DEF rest, a
  <2>6. CASE run' = [run EXCEPT ![r] = a]
    BY <2>3, <2>4, <2>6, RunUpdated DEF KindKept
  <2> QED
    BY <1>4, <2>2, <2>5, <2>6
<1>7. CASE Refuse(r)
  BY <1>3, <1>7 DEF Refuse
<1>8. CASE Load(r)
  <2> DEFINE row == job[run[r].job]
             a == [run[r] EXCEPT !.pc = "start", !.obj = row, !.req = row.req]
  <2>1. a.pc = "start" /\ a.kind = run[r].kind
    BY <1>1 DEF RunType
  <2>2. \/ run' = [run EXCEPT ![r] = Rest(run[r])]
        \/ run' = [run EXCEPT ![r] = a]
    BY <1>8 DEF Load, TypeOK
  <2> HIDE DEF a
  <2> QED
    BY <1>1, <1>4, <2>1, <2>2, RunUpdated DEF KindKept
<1> QED
  BY <1>5, <1>6, <1>7, <1>8

(* Every step of a runner, with the statuses it finds and leaves.          *)
LEMMA StepKinds ==
  ASSUME TypeOK, LoopHeld, NEW r \in Runners, Arrive(r) \/ Advance(r)
  PROVE  /\ Moved(r) /\ KindKept(r)
         /\ \/ Quiet(r) \/ Asks(r) \/ Claims(r) \/ Creates(r)
            \/ Requeued(r) \/ Opened(r) \/ Failed(r) \/ Succeeded(r)
<1>1. Moved(r)
  BY RunnerEffect
<1>2. ASSUME NEW j \in Jobs, NEW q \in RetryRequests, Retry(r, j, q)
      PROVE  KindKept(r) /\ Requeued(r)
  BY <1>2, RetryKind
<1>3. ASSUME NEW t \in Tenants, NEW q \in Requests, Submit(r, t, q)
      PROVE  KindKept(r) /\ Asks(r)
  BY <1>3, ArriveKind, SubmitEffect DEF Asks
<1>4. CASE \/ \E j \in Jobs, force \in RunModes : RunRequest(r, j, force)
           \/ TickList(r)
  BY <1>1, <1>4, ArriveKind, QuietArrivals
<1>5. CASE Insert(r)
  BY <1>1, <1>5, PickKind, InsertEffect DEF Creates
<1>6. CASE TickNext(r) \/ Refuse(r)
  BY <1>1, <1>6, PickKind, PickEffect
<1>7. CASE Load(r)
  BY <1>1, <1>7, PickKind, LoadEffect DEF Claims
<1>8. CASE Start(r)
  BY <1>1, <1>8, StartKind
<1>9. CASE Execute(r)
  BY <1>1, <1>9, ExecuteKind
<1> QED
  BY <1>1, <1>2, <1>3, <1>4, <1>5, <1>6, <1>7, <1>8, <1>9
     DEF Arrive, Advance

-----------------------------------------------------------------------------
(* One attempt at a time.                                                  *)

(* Nobody forces; a tick stays a tick.                                     *)
Unforced ==
  \A r \in Runners :
    run[r].kind # "force" /\ (run[r].pc = "tick" => run[r].kind = "tick")

(* A job is queued when a retry is about to pass its guards and when an    *)
(* attempt is about to open, and the loaded copy says so.                  *)
Waiting ==
  \A r \in Runners :
    /\ run[r].pc = "load" /\ run[r].kind = "retry" =>
         job[run[r].job].status = "queued"
    /\ run[r].pc = "start" =>
         job[run[r].job].status = "queued" /\ run[r].obj.status = "queued"

(* While an attempt is open the row says running, and so does the copy its *)
(* session holds.                                                          *)
AttemptRuns ==
  \A r \in Runners :
    /\ run[r].pc \in Executing => job[run[r].job].status = "running"
    /\ run[r].pc \in Refreshed => run[r].obj.status = "running"

(* Open attempts are attempts of different jobs.                           *)
Alone ==
  \A r, s \in Runners :
    run[r].pc \in Executing /\ run[s].pc \in Executing
      /\ run[r].job = run[s].job => r = s

(* OneAttemptAtATime is not inductive: that a second attempt is refused    *)
(* depends on the row, which must say running, queued or neither at the    *)
(* right points of the coroutines.                                         *)
CalmInv == Unforced /\ Waiting /\ AttemptRuns /\ Alone

(* Nobody else's job is written by a step of r.                            *)
LEMMA OthersJobs ==
  ASSUME TypeOK, LoopHeld, CalmInv, NEW r \in Runners,
         Arrive(r) \/ Advance(r),
         NEW s \in Runners \ {r}, run[s].pc \in Executing
  PROVE  job'[run[s].job] = job[run[s].job]
<1> DEFINE j == run[s].job
<1>1. j \in Jobs /\ job[j] \in Row /\ job[j].status = "running"
  BY RunFacts DEF Linked, CalmInv, AttemptRuns
<1>2. CASE Quiet(r) \/ Asks(r) \/ Claims(r)
  BY <1>2 DEF Quiet, Asks, Claims
<1>3. CASE Creates(r)
  BY <1>1, <1>3, NoRowIsNoRow DEF Creates
<1>4. CASE Requeued(r)
  BY <1>1, <1>4 DEF Requeued, OnlyRow
<1>5. CASE Opened(r)
  BY <1>1, <1>5 DEF Opened, Opens, OnlyRow, CalmInv, Waiting
<1>6. CASE Failed(r) \/ Succeeded(r)
  <2>1. run[r].job # j
    BY <1>6 DEF Failed, Succeeded, Ends, CalmInv, Alone
  <2> QED
    BY <1>1, <1>6, <2>1 DEF Failed, Succeeded, OnlyRow
<1> QED
  BY <1>2, <1>3, <1>4, <1>5, <1>6, StepKinds

(* What a step of r leaves true of r itself.                               *)
LEMMA OwnCalm ==
  ASSUME TypeOK, LoopHeld, CalmInv, ~Forcing, NEW r \in Runners,
         Arrive(r) \/ Advance(r)
  PROVE  /\ run'[r].kind # "force"
         /\ run'[r].pc = "tick" => run'[r].kind = "tick"
         /\ run'[r].pc = "load" /\ run'[r].kind = "retry" =>
              job'[run'[r].job].status = "queued"
         /\ run'[r].pc = "start" =>
              /\ job'[run'[r].job].status = "queued"
              /\ run'[r].obj.status = "queued"
         /\ run'[r].pc \in Executing => job'[run'[r].job].status = "running"
         /\ run'[r].pc \in Refreshed => run'[r].obj.status = "running"
<1>1. KindKept(r)
  BY StepKinds
<1>2. /\ run'[r].kind # "force"
      /\ run'[r].pc = "tick" => run'[r].kind = "tick"
  BY <1>1 DEF KindKept, CalmInv, Unforced
<1>3. ASSUME run'[r].pc = "load", run'[r].kind = "retry"
      PROVE  job'[run'[r].job].status = "queued"
  <2>1. Requeued(r)
    BY <1>1, <1>3 DEF KindKept, CalmInv, Unforced
  <2> QED
    BY <1>3, <2>1 DEF Requeued
<1>4. ASSUME run'[r].pc = "start"
      PROVE  /\ job'[run'[r].job].status = "queued"
             /\ run'[r].obj.status = "queued"
  <2>1. Claims(r)
    BY <1>4, StepKinds, PcFacts
       DEF Quiet, Asks, Creates, Requeued, Opened, Opens, Failed, Succeeded,
           Ends
  <2>2. run[r].job \in Jobs /\ job[run[r].job] \in Row
    BY <2>1, RunFacts DEF Claims, Linked
  <2>3. run[r].kind # "force"
    BY DEF CalmInv, Unforced
  <2>4. CASE run[r].kind = "retry"
    BY <2>1, <2>4 DEF Claims, CalmInv, Waiting
  <2>5. CASE ~Forced(run[r].kind)
    BY <2>1, <2>2, <2>5 DEF Claims, Refused, AlreadyDone, Row, Statuses
  <2> QED
    BY <2>3, <2>4, <2>5 DEF Forced
<1>5. ASSUME run'[r].pc \in Executing
      PROVE  /\ job'[run'[r].job].status = "running"
             /\ run'[r].pc \in Refreshed => run'[r].obj.status = "running"
  <2>1. Quiet(r) \/ Opened(r)
    BY <1>5, StepKinds, PcFacts
       DEF Asks, Claims, Creates, Requeued, Failed, Succeeded, Ends
  <2>2. CASE Quiet(r)
    BY <1>5, <2>2 DEF Quiet, CalmInv, AttemptRuns
  <2>3. CASE Opened(r)
    BY <2>3, PcFacts DEF Opened, Opens, Col, CalmInv, Waiting, Phases
  <2> QED
    BY <2>1, <2>2, <2>3
<1> QED
  BY <1>2, <1>3, <1>4, <1>5, PcFacts

(* A step of r cannot give it the job of another open attempt.             *)
LEMMA AloneStep ==
  ASSUME TypeOK, LoopHeld, CalmInv, NEW r \in Runners,
         Arrive(r) \/ Advance(r),
         NEW s \in Runners \ {r}, run[s].pc \in Executing,
         run'[r].pc \in Executing
  PROVE  run'[r].job # run[s].job
<1>1. Quiet(r) \/ Opened(r)
  BY StepKinds, PcFacts
     DEF Asks, Claims, Creates, Requeued, Failed, Succeeded, Ends
<1>2. CASE Quiet(r)
  BY <1>2 DEF Quiet, CalmInv, Alone
<1>3. CASE Opened(r)
  BY <1>3 DEF Opened, Opens, CalmInv, Waiting, AttemptRuns
<1> QED
  BY <1>1, <1>2, <1>3

LEMMA CalmStep ==
  ASSUME Calm, TypeOK, LoopHeld, CalmInv, [Next]_vars
  PROVE  CalmInv'
<1>1. ~Forcing
  BY DEF Calm, Forcing
<1>2. ASSUME NEW r \in Runners, Arrive(r) \/ Advance(r)
      PROVE  CalmInv'
  <2>1. Moved(r)
    BY <1>2, RunnerEffect
  <2>2. ASSUME NEW s \in Runners \ {r}
        PROVE  /\ run'[s].pc = run[s].pc /\ run'[s].job = run[s].job
               /\ run'[s].obj = run[s].obj /\ run'[s].kind = run[s].kind
               /\ run[s].pc \notin {"load", "start"}
    BY <2>1, Exclusive DEF SameRun, SameLinks, Held
  <2>3. Unforced'
    BY <1>1, <1>2, <2>2, OwnCalm DEF CalmInv, Unforced
  <2>4. Waiting'
    BY <1>1, <1>2, <2>2, OwnCalm DEF Waiting
  <2>5. AttemptRuns'
    <3>1. ASSUME NEW s \in Runners \ {r}
          PROVE  /\ run'[s].pc \in Executing =>
                      job'[run'[s].job].status = "running"
                 /\ run'[s].pc \in Refreshed => run'[s].obj.status = "running"
      BY <1>2, <2>2, OthersJobs DEF CalmInv, AttemptRuns
    <3> QED
      BY <1>1, <1>2, <3>1, OwnCalm DEF AttemptRuns
  <2>6. Alone'
    BY <1>2, <2>2, AloneStep DEF CalmInv, Alone
  <2> QED
    BY <2>3, <2>4, <2>5, <2>6 DEF CalmInv
<1>3. CASE Crash
  <2>1. \A r \in Runners : run'[r].pc = "idle" /\ run'[r].kind = "none"
    BY <1>3 DEF Crash, IdleRun
  <2> QED
    BY <2>1, PcFacts DEF CalmInv, Unforced, Waiting, AttemptRuns, Alone
<1>4. CASE UNCHANGED vars
  BY <1>4 DEF vars, CalmInv, Unforced, Waiting, AttemptRuns, Alone
<1> QED
  BY <1>2, <1>3, <1>4 DEF Next, Calm

LEMMA CalmInit == Init => CalmInv
<1>1. Init => \A r \in Runners : run[r].pc = "idle" /\ run[r].kind = "none"
  BY DEF Init, IdleRun
<1> QED
  BY <1>1, PcFacts DEF CalmInv, Unforced, Waiting, AttemptRuns, Alone

(* CalmInv is an invariant of the calm engine.                             *)
THEOREM CalmInductive == ASSUME Calm PROVE Spec => [](IInv /\ CalmInv)
<1>1. IInv /\ CalmInv /\ [Next]_vars => CalmInv'
  BY CalmStep DEF IInv
<1> QED
  BY <1>1, CalmInit, Inductive, PTL DEF Spec

(* Without forced runs and cancel threads no two attempts of a job overlap *)
(* (workflow_service.py:167-197), for any number of requests, jobs, ticks, *)
(* retries and crashes.                                                    *)
THEOREM OneAttempt == ASSUME Calm PROVE Spec => []OneAttemptAtATime
<1>1. IInv /\ CalmInv => OneAttemptAtATime
  <2> SUFFICES ASSUME CalmInv, NEW j \in Jobs
               PROVE  Cardinality(OpenRunners(j)) <= 1
    BY DEF OneAttemptAtATime
  <2>1. CASE OpenRunners(j) = {}
    BY <2>1, FS_EmptySet
  <2>2. ASSUME NEW r \in OpenRunners(j)
        PROVE  Cardinality(OpenRunners(j)) <= 1
    <3>1. OpenRunners(j) = {r}
      BY <2>2 DEF OpenRunners, Open, CalmInv, Alone
    <3>2. Cardinality({r}) = 1
      BY FS_Singleton
    <3> QED
      BY <3>1, <3>2
  <2> QED
    BY <2>1, <2>2
<1> QED
  BY <1>1, CalmInductive, PTL

(* A stale failure, a retry, a tick or another run never takes a job out   *)
(* of succeeded (workflow_service.py:167-183, 258-272), when nobody forces *)
(* or cancels.                                                             *)
THEOREM SuccessIsFinal == ASSUME Calm PROVE Spec => SucceededIsFinal
<1> DEFINE A == \A j \in Jobs :
                  job[j].status = "succeeded" => job'[j].status = "succeeded"
<1>1. IInv /\ CalmInv /\ [Next]_vars => [A]_vars
  <2> SUFFICES ASSUME IInv, CalmInv, Next,
                      NEW j \in Jobs, job[j].status = "succeeded"
               PROVE  job'[j].status = "succeeded"
    OBVIOUS
  <2>1. ASSUME NEW r \in Runners, Arrive(r) \/ Advance(r)
        PROVE  job'[j].status = "succeeded"
    <3>1. CASE Quiet(r) \/ Asks(r) \/ Claims(r)
      BY <3>1 DEF Quiet, Asks, Claims
    <3>2. CASE Creates(r)
      BY <3>2 DEF Creates, NoRow
    <3>3. CASE Requeued(r)
      BY <3>3 DEF Requeued, OnlyRow
    <3>4. CASE Opened(r)
      BY <3>4 DEF Opened, Opens, OnlyRow, CalmInv, Waiting
    <3>5. CASE Failed(r)
      BY <3>5 DEF Failed, Ends, OnlyRow, CalmInv, AttemptRuns
    <3>6. CASE Succeeded(r)
      BY <3>6 DEF Succeeded, OnlyRow
    <3> QED
      BY <2>1, <3>1, <3>2, <3>3, <3>4, <3>5, <3>6, StepKinds DEF IInv
  <2>2. CASE Crash
    BY <2>2, CrashEffect
  <2> QED
    BY <2>1, <2>2 DEF Next, Calm
<1> QED
  BY <1>1, CalmInductive, PTL DEF SucceededIsFinal, Spec

-----------------------------------------------------------------------------
(* The documented lifecycle.                                               *)

(* What the refinement mapping makes of a step of r that writes no row or  *)
(* one row: statuses elsewhere stay.                                       *)
LEMMA StatusMove ==
  ASSUME NEW j \in Jobs, \A i \in Jobs \ {j} : job'[i] = job[i]
  PROVE  [i \in Jobs |-> job'[i].status] =
           [[i \in Jobs |-> job[i].status] EXCEPT ![j] = job'[j].status]
OBVIOUS

(* The jobs an attempt works on, before and after a step of r.             *)
OpenJobs == {j \in Jobs : OpenRunners(j) # {}}

LEMMA OpenJobsStep ==
  ASSUME TypeOK, LoopHeld, CalmInv, NEW r \in Runners,
         Arrive(r) \/ Advance(r)
  PROVE  /\ ~Ends(r) /\ ~Opens(r) => OpenJobs' = OpenJobs
         /\ Ends(r) => /\ run[r].job \in OpenJobs
                       /\ OpenJobs' = OpenJobs \ {run[r].job}
         /\ Opened(r) => /\ run[r].job \in Jobs \ OpenJobs
                         /\ OpenJobs' = OpenJobs \cup {run[r].job}
<1>1. ASSUME ~Ends(r), ~Opens(r)
      PROVE  OpenJobs' = OpenJobs
  BY <1>1, OpenRunnersStep DEF OpenJobs
<1>2. ASSUME Ends(r)
      PROVE  /\ run[r].job \in OpenJobs
             /\ OpenJobs' = OpenJobs \ {run[r].job}
  <2>1. run[r].job \in Jobs /\ r \in OpenRunners(run[r].job)
    BY <1>2, RunFacts DEF Ends, Linked, OpenRunners, Open
  <2>2. OpenRunners(run[r].job) = {r}
    BY <1>2, <2>1 DEF Ends, OpenRunners, Open, CalmInv, Alone
  <2>3. \A j \in Jobs : OpenRunners(j)' = IF j = run[r].job THEN {}
                                          ELSE OpenRunners(j)
    BY <1>2, <2>2, OpenRunnersStep
  <2> QED
    BY <2>1, <2>3 DEF OpenJobs
<1>3. ASSUME Opened(r)
      PROVE  /\ run[r].job \in Jobs \ OpenJobs
             /\ OpenJobs' = OpenJobs \cup {run[r].job}
  <2>1. run[r].job \in Jobs /\ Opens(r)
    BY <1>3, RunFacts DEF Opened, Opens, Linked
  <2>2. OpenRunners(run[r].job) = {}
    BY <2>1 DEF Opens, OpenRunners, Open, CalmInv, Waiting, AttemptRuns
  <2>3. \A j \in Jobs : OpenRunners(j)' = IF j = run[r].job
                                          THEN OpenRunners(j) \cup {r}
                                          ELSE OpenRunners(j)
    BY <2>1, OpenRunnersStep
  <2> QED
    BY <2>1, <2>2, <2>3 DEF OpenJobs
<1> QED
  BY <1>1, <1>2, <1>3

(* Every step of a runner is a step of the lifecycle or none.              *)
LEMMA RunnerSimulates ==
  ASSUME IInv, CalmInv, NEW r \in Runners, Arrive(r) \/ Advance(r)
  PROVE  [Lifecycle!Step]_(Lifecycle!lifecycleVars)
<1> DEFINE st   == [j \in Jobs |-> job[j].status]
           stN  == [j \in Jobs |-> job'[j].status]
<1>1. TypeOK /\ LoopHeld
  BY DEF IInv
<1>2. CASE Quiet(r) \/ Asks(r) \/ Claims(r)
  <2>1. job' = job
    BY <1>2 DEF Quiet, Asks, Claims
  <2>2. ~Ends(r) /\ ~Opens(r)
    BY <1>1, <1>2, PcFacts DEF Quiet, Asks, Claims, Ends, Opens, Phases
  <2>3. OpenJobs' = OpenJobs
    BY <1>1, <2>2, OpenJobsStep
  <2> QED
    BY <2>1, <2>3 DEF Lifecycle!lifecycleVars, OpenJobs
<1>3. CASE Creates(r)
  <2>1. PICK j \in Jobs : /\ job[j] = NoRow /\ job'[j] = run[r].obj
                          /\ \A i \in Jobs \ {j} : job'[i] = job[i]
    BY <1>3 DEF Creates
  <2>2. job[j].status = "absent" /\ job'[j].status = "queued"
    BY <1>3, <2>1 DEF Creates, NoRow, IInv, InsertFresh
  <2>3. OpenJobs' = OpenJobs
    BY <1>1, <1>3, OpenJobsStep, PcFacts DEF Creates, Ends, Opens
  <2>4. stN = [st EXCEPT ![j] = "queued"]
    BY <2>1, <2>2, StatusMove
  <2>5. Lifecycle!Submit(j)
    BY <2>2, <2>3, <2>4 DEF Lifecycle!Submit, Lifecycle!Move, OpenJobs
  <2> QED
    BY <2>5 DEF Lifecycle!Step
<1>4. CASE Requeued(r)
  <2>1. PICK j \in Jobs : /\ OnlyRow(j)
                          /\ job[j].status \in {"failed", "cancelled"}
                          /\ job'[j].status = "queued"
    BY <1>4 DEF Requeued
  <2>2. OpenJobs' = OpenJobs
    BY <1>1, <1>4, OpenJobsStep, PcFacts DEF Requeued, Ends, Opens
  <2>3. stN = [st EXCEPT ![j] = "queued"]
    BY <2>1, StatusMove DEF OnlyRow
  <2>4. Lifecycle!Requeue(j)
    BY <2>1, <2>2, <2>3 DEF Lifecycle!Requeue, Lifecycle!Move, OpenJobs
  <2> QED
    BY <2>4 DEF Lifecycle!Step
<1>5. CASE Opened(r)
  <2>1. PICK j \in Jobs : j = run[r].job
    BY <1>1, <1>5, OpenJobsStep
  <2>2. j \notin OpenJobs /\ OpenJobs' = OpenJobs \cup {j}
    BY <1>1, <1>5, <2>1, OpenJobsStep
  <2>3. job[j].status = "queued" /\ job'[j].status = "running"
    BY <1>5, <2>1 DEF Opened, Opens, Col, CalmInv, Waiting
  <2>4. stN = [st EXCEPT ![j] = "running"]
    BY <1>5, <2>1, <2>3, StatusMove DEF Opened, OnlyRow
  <2>5. Lifecycle!Begin(j)
    BY <2>2, <2>3, <2>4 DEF Lifecycle!Begin, Lifecycle!Move, OpenJobs
  <2> QED
    BY <2>5 DEF Lifecycle!Step
<1>6. CASE Failed(r) \/ Succeeded(r)
  <2>1. PICK j \in Jobs : j = run[r].job
    BY <1>1, <1>6, OpenJobsStep DEF Failed, Succeeded, OpenJobs
  <2>2. j \in OpenJobs /\ OpenJobs' = OpenJobs \ {j}
    BY <1>1, <1>6, <2>1, OpenJobsStep DEF Failed, Succeeded
  <2>3. job[j].status = "running" /\ job'[j].status \in {"succeeded", "failed"}
    BY <1>6, <2>1 DEF Failed, Succeeded, Ends, Col, CalmInv, AttemptRuns
  <2>4. stN = [st EXCEPT ![j] = job'[j].status]
    BY <1>6, <2>1, StatusMove DEF Failed, Succeeded, OnlyRow
  <2>5. Lifecycle!End(j)
    BY <2>2, <2>3, <2>4 DEF Lifecycle!End, Lifecycle!Move, OpenJobs
  <2> QED
    BY <2>5 DEF Lifecycle!Step
<1> QED
  BY <1>1, <1>2, <1>3, <1>4, <1>5, <1>6, StepKinds

(* A crash empties the set of open jobs and leaves the statuses.           *)
LEMMA CrashSimulates ==
  ASSUME Crash
  PROVE  Lifecycle!Crash
<1>1. OpenJobs' = {}
  BY CrashEffect, PcFacts DEF OpenJobs, OpenRunners, Open
<1> QED
  BY <1>1, CrashEffect DEF Lifecycle!Crash, OpenJobs

(* The calm engine implements the documented lifecycle                     *)
(* (docs/WORKFLOW_WORKER.md): whatever sessions hold and in whatever order *)
(* coroutines resume, a job is queued, taken by one attempt to succeeded   *)
(* or failed, and may be queued again only from failed or cancelled.       *)
THEOREM LifecycleImplemented == ASSUME Calm PROVE Spec => ImplementsLifecycle
<1>1. Init => Lifecycle!Start
  <2> SUFFICES ASSUME Init PROVE Lifecycle!Start
    OBVIOUS
  <2>1. \A j \in Jobs : job[j].status = "absent" /\ OpenRunners(j) = {}
    BY PcFacts DEF Init, NoRow, IdleRun, OpenRunners, Open
  <2> QED
    BY <2>1 DEF Lifecycle!Start
<1>2. IInv /\ CalmInv /\ [Next]_vars
        => [Lifecycle!Step]_(Lifecycle!lifecycleVars)
  <2> SUFFICES ASSUME IInv, CalmInv, [Next]_vars
               PROVE  [Lifecycle!Step]_(Lifecycle!lifecycleVars)
    OBVIOUS
  <2>1. CASE Crash
    BY <2>1, CrashSimulates DEF Lifecycle!Step
  <2>2. CASE UNCHANGED vars
    BY <2>2 DEF vars, Lifecycle!lifecycleVars, OpenRunners, Open
  <2> QED
    BY <2>1, <2>2, RunnerSimulates DEF Next, Calm
<1> QED
  BY <1>1, <1>2, CalmInductive, PTL
     DEF Spec, ImplementsLifecycle, Lifecycle!LifecycleSpec

=============================================================================
