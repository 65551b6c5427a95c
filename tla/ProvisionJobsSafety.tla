------------------------ MODULE ProvisionJobsSafety ------------------------
(***************************************************************************)
(* The safety properties of ProvisionJobs, for every value of its          *)
(* constants.                                                              *)
(*                                                                         *)
(* The lemmas named ...Effect say what each action does to the rows, the   *)
(* events and the event loop; RunnerEffect sums them up in seven kinds of  *)
(* steps.  The invariants are then proved by cases on these kinds, and the *)
(* properties follow from the inductive invariant IInv at the end.         *)
(***************************************************************************)
EXTENDS ProvisionJobsTypes

(* The program counters at which a coroutine has the event loop.           *)
Held ==
  {"insert", "load", "start", "tick", "deploying", "raised", "failing"}
    \cup Phases

(* The event loop is not shared: whoever stands there has it.              *)
LoopHeld == \A r \in Runners : run[r].pc \in Held => loop = r

(* Coroutine states that agree in all the invariants read.                 *)
SameRun(a, b) == SameLinks(a, b) /\ a.kind = b.kind

(* Nobody but r moved.                                                     *)
Others(r) == \A s \in Runners \ {r} : SameRun(run'[s], run[s])

(* The event counts of a job.                                              *)
Counters == [started : Nat, succeeded : Nat, failed : Nat]

(* A step of r that writes no row and no event, and opens and closes no    *)
(* attempt.                                                                *)
Quiet(r) ==
  /\ UNCHANGED <<job, audit>>
  /\ run'[r].pc \notin {"insert", "start"}
  /\ \/ run[r].pc \notin Executing /\ run'[r].pc \notin Executing
     \/ /\ run[r].pc \in Executing /\ run'[r].pc \in Executing
        /\ run'[r].job = run[r].job
        /\ run'[r].pc \in Refreshed => run'[r].obj = job[run[r].job]

(* The columns of a row that no handler ever changes, and attempts.        *)
Kept(a, b) ==
  a.tenant = b.tenant /\ a.key = b.key /\ a.attempts = b.attempts

(* The step of r that ends its attempt: success, or failure, whose stale   *)
(* session may leave status running only if it had loaded failed.          *)
Ends(r) ==
  LET j == run[r].job
  IN /\ run[r].pc \in Executing /\ run'[r].pc \in {"idle", "tick"}
     /\ \A i \in Jobs \ {j} : job'[i] = job[i] /\ audit'[i] = audit[i]
     /\ Kept(job'[j], job[j])
     /\ job'[j].status = "running" =>
          /\ run[r].pc \in Refreshed /\ run[r].obj.status = "failed"
          /\ job[j].status = "running"
     /\ audit'[j].started = audit[j].started
     /\ audit'[j].succeeded + audit'[j].failed =
          audit[j].succeeded + audit[j].failed + 1

(* How the sets of program counters overlap.                               *)
LEMMA PcFacts ==
  /\ {"idle", "insert", "load", "start", "tick"} \cap Executing = {}
  /\ Phases \subseteq Executing /\ Refreshed \subseteq Executing
  /\ "raised" \in Executing
  /\ Phases \cap Refreshed = {} /\ "raised" \notin Refreshed
  /\ Held \cap Refreshed = {"deploying", "failing"}
BY DEF Executing, Phases, Refreshed, Held

(* An update of one coroutine leaves the others alone.                     *)
LEMMA RunUpdated ==
  ASSUME TypeOK, NEW r \in Runners, NEW a, run' = [run EXCEPT ![r] = a]
  PROVE  Others(r) /\ run'[r] = a
BY DEF TypeOK, Others, SameRun, SameLinks

(* What each action does, in the terms the invariants speak of.            *)
LEMMA SubmitEffect ==
  ASSUME TypeOK, NEW r \in Runners, NEW t \in Tenants, NEW q \in Requests,
         Submit(r, t, q)
  PROVE  /\ Others(r) /\ loop = None /\ loop' = r
         /\ UNCHANGED <<job, audit, cancel, lost, crashes>>
         /\ run[r].pc = "idle" /\ run'[r].pc = "insert"
         /\ run'[r].obj = NewRow(t, q)
         /\ IdempotentJobs(t, q.key) = {}
<1> DEFINE a == [IdleRun EXCEPT !.pc = "insert", !.obj = NewRow(t, q),
                               !.kind = IF q.inline THEN "create"
                                        ELSE "enqueue"]
<1>1. a.pc = "insert" /\ a.obj = NewRow(t, q)
  BY DEF IdleRun
<1>2. run' = [run EXCEPT ![r] = a]
  BY DEF Submit
<1> HIDE DEF a
<1> QED
  BY <1>1, <1>2, RunUpdated DEF Submit, Begins

(* Run requests and ticks take the loop and write nothing.                 *)
LEMMA QuietArrivals ==
  ASSUME TypeOK, NEW r \in Runners,
         \/ \E j \in Jobs, force \in RunModes : RunRequest(r, j, force)
         \/ TickList(r)
  PROVE  /\ Others(r) /\ Quiet(r) /\ loop = None /\ loop' = r
         /\ UNCHANGED <<cancel, lost, crashes>>
<1>1. \E a : run' = [run EXCEPT ![r] = a] /\ a.pc \in {"load", "tick"}
  <2>1. ASSUME NEW j \in Jobs, NEW force \in RunModes, RunRequest(r, j, force)
        PROVE  \E a : run' = [run EXCEPT ![r] = a] /\ a.pc \in {"load", "tick"}
    <3> DEFINE a == [IdleRun EXCEPT !.pc = "load", !.job = j,
                               !.kind = IF force THEN "force" ELSE "run"]
    <3>1. a.pc = "load"
      BY DEF IdleRun
    <3>2. run' = [run EXCEPT ![r] = a]
      BY <2>1 DEF RunRequest
    <3> HIDE DEF a
    <3> QED
      BY <3>1, <3>2
  <2>2. ASSUME TickList(r)
        PROVE  \E a : run' = [run EXCEPT ![r] = a] /\ a.pc \in {"load", "tick"}
    <3> DEFINE B == {j \in QueuedJobs :
                     Cardinality({i \in QueuedJobs : i <= j}) <= TickLimit}
               a == [IdleRun EXCEPT !.pc = "tick", !.kind = "tick", !.batch = B]
    <3>1. run' = [run EXCEPT ![r] = a]
      BY <2>2 DEF TickList
    <3> HIDE DEF B
    <3>2. a.pc = "tick"
      BY DEF IdleRun
    <3> HIDE DEF a
    <3> QED
      BY <3>1, <3>2
  <2> QED
    BY <2>1, <2>2
<1>2. Others(r) /\ run'[r].pc \in {"load", "tick"}
  BY <1>1, RunUpdated
<1>3. /\ run[r].pc = "idle" /\ loop = None /\ loop' = r
      /\ UNCHANGED <<job, audit, cancel, lost, crashes>>
  BY DEF RunRequest, TickList, Begins
<1> QED
  BY <1>2, <1>3, PcFacts DEF Quiet

(* A retry requeues one job and keeps its attempts.                        *)
LEMMA RetryEffect ==
  ASSUME TypeOK, NEW r \in Runners, NEW j \in Jobs, NEW q \in RetryRequests,
         Retry(r, j, q)
  PROVE  /\ Others(r) /\ loop = None
         /\ run[r].pc = "idle"
         /\ \/ run'[r].pc = "idle"
            \/ run'[r].pc = "load" /\ loop' = r
         /\ \A i \in Jobs \ {j} : job'[i] = job[i]
         /\ Kept(job'[j], job[j]) /\ job'[j].status = "queued"
         /\ UNCHANGED <<audit, cancel, lost, crashes>>
<1> DEFINE a == [IdleRun EXCEPT !.pc = "load", !.job = j, !.kind = "retry"]
           f == [run EXCEPT ![r] = a]
<1>1. /\ a \in RunType /\ a.pc = "load"
  BY IdleRunType DEF RunType, IdleRun, PCs, Kinds
<1>2. /\ run[r].pc = "idle" /\ loop = None
      /\ \/ run' = Postponed(f, j) /\ loop' = r
         \/ run' = Postponed(run, j) /\ UNCHANGED loop
      /\ job' = [job EXCEPT ![j] = RetriedRow(job[j], q)]
      /\ UNCHANGED <<audit, cancel, lost, crashes>>
  BY DEF Retry, Begins
<1> HIDE DEF a
<1>3. f \in [Runners -> RunType] /\ run \in [Runners -> RunType]
  BY <1>1 DEF TypeOK
<1>4. \A s \in Runners : f[s] = IF s = r THEN a ELSE run[s]
  BY DEF TypeOK
<1> HIDE DEF f
<1>5. \/ (\A s \in Runners : SameRun(run'[s], f[s])) /\ loop' = r
      \/ \A s \in Runners : SameRun(run'[s], run[s])
  BY <1>2, <1>3, PostponedFacts DEF SameRun
<1>6. /\ Others(r)
      /\ \/ run'[r].pc = "idle"
         \/ run'[r].pc = "load" /\ loop' = r
  BY <1>1, <1>2, <1>4, <1>5 DEF Others, SameRun, SameLinks
<1>7. job[j] \in Row
  BY DEF Retry, TypeOK, NoRow
<1>8. /\ Kept(RetriedRow(job[j], q), job[j])
      /\ RetriedRow(job[j], q).status = "queued"
  <2> DEFINE m == RetryMax(job[j], q)
             x == IF q.fail # "none" THEN q.fail
                  ELSE IF q.clear THEN "none" ELSE job[j].req.fail
  <2>1. RetriedRow(job[j], q) =
          [job[j] EXCEPT !.status = "queued", !.max = m, !.completed = FALSE,
                         !.locked = FALSE, !.next = TRUE,
                         !.req = [job[j].req EXCEPT !.fail = x]]
    BY <1>7 DEF RetriedRow, Row
  <2> HIDE DEF m, x
  <2> QED
    BY <1>7, <2>1 DEF Kept, Row
<1> QED
  BY <1>2, <1>6, <1>8 DEF TypeOK

(* The INSERT puts the row of the request where there was none.            *)
LEMMA InsertEffect ==
  ASSUME TypeOK, NEW r \in Runners, Insert(r)
  PROVE  /\ Others(r) /\ run[r].pc = "insert"
         /\ \/ run'[r].pc = "load" /\ UNCHANGED loop
            \/ run'[r].pc = "idle"
         /\ \E j \in Jobs : /\ job[j] = NoRow /\ job'[j] = run[r].obj
                            /\ \A i \in Jobs \ {j} : job'[i] = job[i]
         /\ UNCHANGED <<audit, cancel, lost, crashes>>
<1>1. PICK j \in Jobs :
        /\ job[j] = NoRow
        /\ job' = [job EXCEPT ![j] = run[r].obj]
        /\ \/ /\ run' = [run EXCEPT ![r].pc = "load", ![r].job = j,
                                    ![r].obj = NoRow]
              /\ UNCHANGED loop
           \/ run' = [run EXCEPT ![r] = IdleRun]
  BY DEF Insert
<1> DEFINE a == [run[r] EXCEPT !.pc = "load", !.job = j, !.obj = NoRow]
<1>2. a.pc = "load"
  BY RunFacts DEF RunType
<1>3. \/ run' = [run EXCEPT ![r] = a] /\ UNCHANGED loop
      \/ run' = [run EXCEPT ![r] = IdleRun]
  BY <1>1 DEF TypeOK
<1> HIDE DEF a
<1>4. /\ Others(r)
      /\ \/ run'[r].pc = "load" /\ UNCHANGED loop
         \/ run'[r].pc = "idle"
  BY <1>2, <1>3, RunUpdated DEF IdleRun
<1>5. run[r].pc = "insert" /\ UNCHANGED <<audit, cancel, lost, crashes>>
  BY DEF Insert
<1> QED
  BY <1>1, <1>4, <1>5 DEF TypeOK

(* Picking or refusing a job writes nothing.                               *)
LEMMA PickEffect ==
  ASSUME TypeOK, NEW r \in Runners, TickNext(r) \/ Refuse(r)
  PROVE  /\ Others(r) /\ Quiet(r) /\ run[r].pc \in {"tick", "load"}
         /\ run'[r].pc # "idle" => loop' \in {loop, r}
         /\ UNCHANGED <<cancel, lost, crashes>>
<1>1. /\ run[r].pc \in {"tick", "load"}
      /\ UNCHANGED <<job, audit, cancel, lost, crashes>>
  BY DEF TickNext, Refuse
<1>2. CASE TickNext(r)
  <2>1. PICK j \in run[r].batch :
        LET rest == [run[r] EXCEPT !.batch = @ \ {j}, !.late = @ \ {j}]
        IN \/ /\ run' = [run EXCEPT ![r] = Rest(rest)]
              /\ loop' = IF rest.batch = {} THEN None ELSE r
           \/ /\ run' = [run EXCEPT ![r] = [rest EXCEPT !.pc = "load",
                                                        !.job = j]]
              /\ UNCHANGED loop
    BY <1>2 DEF TickNext
  <2> DEFINE rest == [run[r] EXCEPT !.batch = @ \ {j}, !.late = @ \ {j}]
             a == [rest EXCEPT !.pc = "load", !.job = j]
  <2>2. rest \in RunType
    BY RunFacts DEF RunType
  <2>3. CASE run' = [run EXCEPT ![r] = Rest(rest)]
             /\ loop' = IF rest.batch = {} THEN None ELSE r
    <3> HIDE DEF rest
    <3>1. Others(r) /\ run'[r].pc = IF rest.batch = {} THEN "idle" ELSE "tick"
      BY <2>2, <2>3, RestFacts, RunUpdated
    <3> QED
      BY <1>1, <2>3, <3>1, PcFacts DEF Quiet
  <2>4. CASE run' = [run EXCEPT ![r] = a] /\ UNCHANGED loop
    <3>1. a.pc = "load"
      <4> HIDE DEF rest
      <4> QED BY <2>2 DEF RunType
    <3> HIDE DEF a
    <3>2. Others(r) /\ run'[r].pc = "load"
      BY <2>4, <3>1, RunUpdated
    <3> QED
      BY <1>1, <2>4, <3>2, PcFacts DEF Quiet
  <2> QED
    BY <2>1, <2>3, <2>4
<1>3. CASE Refuse(r)
  <2>1. run[r].pc = "load" /\ run' = [run EXCEPT ![r] = IdleRun]
    BY <1>3 DEF Refuse
  <2>2. IdleRun.pc = "idle"
    BY DEF IdleRun
  <2>3. Others(r) /\ run'[r].pc = "idle"
    BY <2>1, <2>2, RunUpdated
  <2> QED
    BY <1>1, <2>1, <2>3, PcFacts DEF Quiet
<1> QED
  BY <1>2, <1>3

(* The guards either end the handler or leave a fresh copy of the row.     *)
LEMMA LoadEffect ==
  ASSUME TypeOK, NEW r \in Runners, Load(r)
  PROVE  /\ Others(r) /\ run[r].pc = "load"
         /\ run'[r].pc # "idle" => loop' \in {loop, r}
         /\ \/ Quiet(r)
            \/ /\ run'[r].pc = "start" /\ run'[r].job = run[r].job
               /\ run'[r].kind = run[r].kind
               /\ run'[r].obj = job[run[r].job]
               /\ ~Refused(run[r].kind, job[run[r].job])
               /\ ~AlreadyDone(job[run[r].job])
         /\ UNCHANGED <<job, audit, cancel, lost, crashes>>
<1> DEFINE row == job[run[r].job]
           a == [run[r] EXCEPT !.pc = "start", !.obj = row, !.req = row.req]
<1>1. /\ run[r].pc = "load" /\ run[r] \in RunType
      /\ UNCHANGED <<job, audit, cancel, lost, crashes>>
      /\ \/ run' = [run EXCEPT ![r] = Rest(run[r])] /\ loop' = LoopAfter(r)
         \/ /\ run' = [run EXCEPT ![r] = a] /\ UNCHANGED loop
            /\ ~Refused(run[r].kind, row)
            /\ ~AlreadyDone(row)
  BY RunFacts DEF Load, TypeOK
<1>2. CASE run' = [run EXCEPT ![r] = Rest(run[r])] /\ loop' = LoopAfter(r)
  <2>1. Others(r) /\ run'[r].pc = IF run[r].batch = {} THEN "idle" ELSE "tick"
    BY <1>1, <1>2, RestFacts, RunUpdated
  <2> QED
    BY <1>1, <1>2, <2>1, PcFacts DEF Quiet, LoopAfter
<1>3. CASE /\ run' = [run EXCEPT ![r] = a] /\ UNCHANGED loop
           /\ ~Refused(run[r].kind, row)
           /\ ~AlreadyDone(row)
  <2>1. /\ a.pc = "start" /\ a.obj = row /\ a.job = run[r].job
        /\ a.kind = run[r].kind
    <3> HIDE DEF row
    <3> QED BY <1>1 DEF RunType
  <2> HIDE DEF a
  <2>2. Others(r) /\ run'[r] = a
    BY <1>3, RunUpdated
  <2> QED
    BY <1>1, <1>3, <2>1, <2>2
<1> QED
  BY <1>1, <1>2, <1>3

(* A commit inside an attempt keeps its job.                               *)
LEMMA ProceedEffect ==
  ASSUME TypeOK, NEW r \in Runners, NEW pc, Proceed(r, pc)
  PROVE  Others(r) /\ run'[r].pc = pc /\ run'[r].job = run[r].job
<1> DEFINE a == [run[r] EXCEPT !.pc = pc, !.obj = NoRow]
<1>1. a.pc = pc /\ a.job = run[r].job
  BY RunFacts DEF RunType
<1>2. run' = [run EXCEPT ![r] = a]
  BY DEF Proceed, TypeOK
<1> HIDE DEF a
<1> QED
  BY <1>1, <1>2, RunUpdated

(* The commit that opens an attempt counts it from the loaded copy.        *)
LEMMA StartEffect ==
  ASSUME TypeOK, NEW r \in Runners, Start(r)
  PROVE  LET j == run[r].job
         IN /\ Others(r) /\ run[r].pc = "start" /\ run'[r].pc = "deploy"
            /\ run'[r].job = j /\ UNCHANGED loop
            /\ \A i \in Jobs \ {j} : job'[i] = job[i] /\ audit'[i] = audit[i]
            /\ job'[j].tenant = job[j].tenant /\ job'[j].key = job[j].key
            /\ job'[j].attempts = run[r].obj.attempts + 1
            /\ job'[j].max = run[r].obj.max
            /\ audit'[j].started = audit[j].started + 1
            /\ audit'[j].succeeded = audit[j].succeeded
            /\ audit'[j].failed = audit[j].failed
            /\ UNCHANGED <<cancel, lost, crashes>>
<1> DEFINE j == run[r].job
<1>1. /\ run[r].pc = "start" /\ Proceed(r, "deploy") /\ UNCHANGED loop
      /\ job' = [job EXCEPT ![j] = StartedRow(job[j], run[r].obj)]
      /\ audit' = [audit EXCEPT ![j].started = audit[j].started + 1]
      /\ UNCHANGED <<cancel, lost, crashes>>
  BY DEF Start
<1>2. j \in Jobs /\ job[j] \in Row
  BY <1>1, RunFacts DEF Linked
<1>3. Others(r) /\ run'[r].pc = "deploy" /\ run'[r].job = j
  BY <1>1, ProceedEffect
<1>4. LET row == StartedRow(job[j], run[r].obj)
      IN /\ row.tenant = job[j].tenant /\ row.key = job[j].key
         /\ row.attempts = run[r].obj.attempts + 1
         /\ row.max = run[r].obj.max
  BY <1>2 DEF StartedRow, Row
<1>5. /\ \A i \in Jobs \ {j} : audit'[i] = audit[i]
      /\ audit'[j].started = audit[j].started + 1
      /\ audit'[j].succeeded = audit[j].succeeded
      /\ audit'[j].failed = audit[j].failed
  BY <1>1, <1>2 DEF TypeOK
<1> HIDE DEF j
<1>6. /\ \A i \in Jobs \ {j} : job'[i] = job[i]
      /\ job'[j] = StartedRow(job[j], run[r].obj)
  BY <1>1, <1>2 DEF TypeOK
<1> QED
  BY <1>1, <1>3, <1>4, <1>5, <1>6 DEF j

(* The failure handler ends the attempt; it leaves the status running only *)
(* where the session had loaded failed.                                    *)
LEMMA FailEffect ==
  ASSUME TypeOK, NEW r \in Runners, run[r].pc \in Executing, NEW obj \in Row,
         FailAttempt(r, obj),
         obj.status = "failed" /\ job[run[r].job].status = "running" =>
           run[r].pc \in Refreshed /\ run[r].obj = obj
  PROVE  /\ Others(r) /\ Ends(r)
         /\ run'[r].pc = "tick" => loop' = r
<1> DEFINE j == run[r].job
           f == [run EXCEPT ![r] = Rest(@)]
           row == FailedRow(job[j], obj, run[r].req)
<1>1. run[r] \in RunType /\ j \in Jobs /\ job[j] \in Row
  BY RunFacts DEF Linked
<1>2. /\ job' = [job EXCEPT ![j] = row]
      /\ audit' = [audit EXCEPT ![j].failed = audit[j].failed + 1]
      /\ run' = f \/ run' = Postponed(f, j)
      /\ loop' = LoopAfter(r)
  BY DEF FailAttempt
<1>3. /\ f \in [Runners -> RunType]
      /\ f[r].pc = IF run[r].batch = {} THEN "idle" ELSE "tick"
      /\ \A s \in Runners \ {r} : f[s] = run[s]
  BY <1>1, RestFacts DEF TypeOK
<1> HIDE DEF f
<1>4. \A s \in Runners : SameRun(run'[s], f[s])
  BY <1>1, <1>2, <1>3, PostponedFacts DEF SameRun, SameLinks
<1>5. /\ Others(r)
      /\ run'[r].pc = IF run[r].batch = {} THEN "idle" ELSE "tick"
  BY <1>3, <1>4 DEF Others, SameRun, SameLinks
<1>6. /\ Kept(row, job[j])
      /\ row.status = "running" =>
           obj.status = "failed" /\ job[j].status = "running"
  <2> DEFINE n == IF obj.attempts >= obj.max
                  THEN Col(job[j].next, obj.next, FALSE) ELSE TRUE
             s == Col(job[j].status, obj.status, "failed")
             k == Col(job[j].locked, obj.locked, FALSE)
  <2>1. row = [job[j] EXCEPT !.status = s, !.completed = TRUE, !.locked = k,
                             !.next = n, !.req = run[r].req]
    BY <1>1 DEF FailedRow, Row
  <2>2. s = "running" => obj.status = "failed" /\ job[j].status = "running"
    BY DEF Col
  <2> HIDE DEF n, s, k, row, j
  <2>3. row.status = s /\ Kept(row, job[j])
    BY <1>1, <2>1 DEF Kept, Row
  <2> QED
    BY <2>2, <2>3
<1> HIDE DEF row
<1>7. /\ \A i \in Jobs \ {j} : job'[i] = job[i] /\ audit'[i] = audit[i]
      /\ job'[j] = row
      /\ audit'[j].started = audit[j].started
      /\ audit'[j].succeeded + audit'[j].failed =
           audit[j].succeeded + audit[j].failed + 1
  <2> HIDE DEF j
  <2>1. audit[j] \in Counters
    BY <1>1 DEF TypeOK, Counters
  <2> QED
    BY <1>1, <1>2, <2>1 DEF TypeOK, Counters
<1> QED
  BY <1>2, <1>5, <1>6, <1>7 DEF Ends, LoopAfter

(* Success ends the attempt.                                               *)
LEMMA CompleteEffect ==
  ASSUME TypeOK, NEW r \in Runners, Complete(r)
  PROVE  /\ Others(r) /\ Ends(r) /\ run[r].pc = "complete"
         /\ run'[r].pc = "tick" => loop' = r
         /\ UNCHANGED <<cancel, lost, crashes>>
<1> DEFINE j == run[r].job
           row == SucceededRow(job[j], run[r].req)
<1>1. /\ run[r].pc = "complete"
      /\ job' = [job EXCEPT ![j] = row]
      /\ audit' = [audit EXCEPT ![j].succeeded = audit[j].succeeded + 1]
      /\ run' = [run EXCEPT ![r] = Rest(run[r])]
      /\ loop' = LoopAfter(r)
      /\ UNCHANGED <<cancel, lost, crashes>>
  BY DEF Complete
<1>2. /\ run[r] \in RunType /\ run[r].pc \in Executing
      /\ j \in Jobs /\ job[j] \in Row
  BY <1>1, RunFacts DEF Linked, Executing, Phases
<1>3. /\ Others(r)
      /\ run'[r].pc = IF run[r].batch = {} THEN "idle" ELSE "tick"
  BY <1>1, <1>2, RestFacts, RunUpdated
<1>4. Kept(row, job[j]) /\ row.status = "succeeded"
  BY <1>2 DEF SucceededRow, Row, Kept
<1> HIDE DEF row
<1>5. /\ \A i \in Jobs \ {j} : job'[i] = job[i] /\ audit'[i] = audit[i]
      /\ job'[j] = row
      /\ audit'[j].started = audit[j].started
      /\ audit'[j].succeeded + audit'[j].failed =
           audit[j].succeeded + audit[j].failed + 1
  <2> HIDE DEF j
  <2>1. audit[j] \in Counters
    BY <1>2 DEF TypeOK, Counters
  <2> QED
    BY <1>1, <1>2, <2>1 DEF TypeOK, Counters
<1> QED
  BY <1>1, <1>2, <1>3, <1>4, <1>5 DEF Ends, LoopAfter

(* A read inside an attempt leaves a fresh copy of the row.                *)
LEMMA RefreshEffect ==
  ASSUME TypeOK, NEW r \in Runners, run[r].pc \in Executing,
         NEW pc \in Refreshed, Refresh(r, pc), UNCHANGED <<job, audit>>
  PROVE  Others(r) /\ Quiet(r) /\ run'[r].pc = pc
<1> DEFINE a == [run[r] EXCEPT !.pc = pc, !.obj = job[run[r].job]]
<1>1. run' = [run EXCEPT ![r] = a]
  BY DEF Refresh, TypeOK
<1>2. a.pc = pc /\ a.job = run[r].job /\ a.obj = job[run[r].job]
  BY RunFacts DEF RunType
<1> HIDE DEF a
<1>3. Others(r) /\ run'[r] = a
  BY <1>1, RunUpdated
<1> QED
  BY <1>2, <1>3, PcFacts DEF Quiet, Executing

(* What all steps of a runner have in common.                              *)
Moved(r) ==
  /\ Others(r)
  /\ loop \in {None, r}
  /\ run'[r].pc \in Held => loop' = r
  /\ UNCHANGED <<cancel, lost, crashes>>

(* A phase that ends well is quiet.                                        *)
LEMMA ProceedQuiet ==
  ASSUME TypeOK, NEW r \in Runners, run[r].pc \in Executing,
         NEW pc \in Phases \cup {"raised"}, Proceed(r, pc),
         UNCHANGED <<job, audit>>
  PROVE  Others(r) /\ Quiet(r)
<1>1. Others(r) /\ run'[r].pc = pc /\ run'[r].job = run[r].job
  BY ProceedEffect
<1>2. pc \in Executing /\ pc \notin Refreshed /\ pc \notin {"insert", "start"}
  BY PcFacts DEF Phases
<1> QED
  BY <1>1, <1>2 DEF Quiet

(* A coroutine resumes with the loop free or its own.                      *)
LEMMA ReleasedFacts ==
  ASSUME NEW r, NEW real, loop = Released(real, r)
  PROVE  loop \in {None, r}
BY DEF Released

(* Inside an attempt every step is quiet or ends the attempt.              *)
LEMMA ExecuteEffect ==
  ASSUME TypeOK, LoopHeld, NEW r \in Runners, Execute(r)
  PROVE  /\ run[r].pc \in Executing
         /\ Moved(r)
         /\ Quiet(r) \/ Ends(r)
<1>1. run[r].pc \in Held => loop = r
  BY DEF LoopHeld
<1>2. run'[r].pc \in {"idle", "tick"} =>
        (run'[r].pc \in Held <=> run'[r].pc = "tick")
  BY DEF Held, Phases
<1>3. CASE MaybeFail(r) \/ Handle(r)
  <2>1. /\ run[r].pc \in Phases \cup {"raised"} /\ Refresh(r, "failing")
        /\ UNCHANGED <<job, audit, cancel, loop, lost, crashes>>
    BY <1>3 DEF MaybeFail, Handle
  <2>2. loop = r /\ run[r].pc \in Executing /\ "failing" \in Refreshed
    BY <1>1, <2>1, PcFacts DEF Held
  <2>3. Others(r) /\ Quiet(r)
    BY <2>1, <2>2, RefreshEffect
  <2> QED
    BY <2>1, <2>2, <2>3 DEF Moved
<1>4. ASSUME run[r].pc \in Refreshed, FailAttempt(r, run[r].obj),
             loop \in {None, r},
             UNCHANGED <<cancel, lost, crashes>>
      PROVE  /\ run[r].pc \in Executing /\ Moved(r) /\ Ends(r)
  <2>1. run[r].pc \in Executing /\ run[r].obj \in Row
    BY <1>4, RunFacts, PcFacts DEF Linked
  <2>2. Others(r) /\ Ends(r) /\ (run'[r].pc = "tick" => loop' = r)
    BY <1>4, <2>1, FailEffect
  <2> QED
    BY <1>2, <1>4, <2>1, <2>2 DEF Moved, Ends
<1>5. ASSUME NEW pc \in Phases \cup {"raised"}, Proceed(r, pc),
             run[r].pc \in Executing, loop \in {None, r}, loop' = r,
             UNCHANGED <<job, audit, cancel, lost, crashes>>
      PROVE  Moved(r) /\ Quiet(r)
  BY <1>5, ProceedQuiet DEF Moved
<1>6. CASE Domains(r)
  <2>1. run[r].pc \in Phases
    BY <1>6 DEF Domains, Phases
  <2>2. PICK pc \in Phases \cup {"raised"} :
          /\ Proceed(r, pc)
          /\ UNCHANGED <<job, audit, cancel, loop, lost, crashes>>
    BY <1>6 DEF Domains, Phases
  <2>3. loop = r /\ run[r].pc \in Executing
    BY <1>1, <2>1, PcFacts DEF Held
  <2> QED
    BY <1>5, <2>2, <2>3
<1>7. CASE DeployCall(r) \/ InitCall(r) \/ BindCall(r)
  <2>1. PICK phase \in Phases, calling \in Refreshed, real \in BOOLEAN :
          /\ Call(r, phase, calling, real)
          /\ calling = "deploying" => ~real
          /\ calling # "failing"
    <3>1. {RealNewAPI, RealSub2API} \subseteq BOOLEAN
      BY AdapterAssumption
    <3>2. (RealNewAPI \/ RealSub2API) \in BOOLEAN
      OBVIOUS
    <3>3. /\ {"deploy", "init", "bind"} \subseteq Phases
          /\ {"deploying", "initing", "binding"} \subseteq Refreshed
      BY DEF Phases, Refreshed
    <3>4. \/ Call(r, "deploy", "deploying", FALSE)
          \/ Call(r, "init", "initing", RealNewAPI)
          \/ Call(r, "bind", "binding", RealNewAPI \/ RealSub2API)
      BY <1>7 DEF DeployCall, InitCall, BindCall
    <3> QED
      BY <3>1, <3>2, <3>3, <3>4
  <2>2. /\ run[r].pc = phase /\ Refresh(r, calling)
        /\ loop' = Released(real, r)
        /\ UNCHANGED <<job, audit, cancel, lost, crashes>>
    BY <2>1 DEF Call
  <2>3. loop = r /\ run[r].pc \in Executing
    BY <1>1, <2>2, PcFacts DEF Held
  <2>4. Others(r) /\ Quiet(r) /\ run'[r].pc = calling
    BY <2>2, <2>3, RefreshEffect
  <2>5. run'[r].pc \in Held => loop' = r
    BY <2>1, <2>2, <2>4, PcFacts DEF Released
  <2> QED
    BY <2>2, <2>3, <2>4, <2>5 DEF Moved
<1>8. CASE Complete(r)
  <2>1. /\ Others(r) /\ Ends(r) /\ run[r].pc = "complete"
        /\ run'[r].pc = "tick" => loop' = r
        /\ UNCHANGED <<cancel, lost, crashes>>
    BY <1>8, CompleteEffect
  <2>2. loop = r
    BY <1>1, <2>1 DEF Held, Phases
  <2> QED
    BY <1>2, <2>1, <2>2 DEF Moved, Ends
<1>9. CASE DeployOk(r) \/ DeployRefused(r)
  <2>1. run[r].pc = "deploying" /\ loop = r
    BY <1>1, <1>9 DEF DeployOk, DeployRefused, Resumes, Held
  <2>2. PICK pc \in Phases \cup {"raised"} :
          /\ Proceed(r, pc)
          /\ UNCHANGED <<job, audit, cancel, loop, lost, crashes>>
    BY <1>9 DEF DeployOk, DeployRefused, Phases
  <2>3. run[r].pc \in Executing
    BY <2>1 DEF Executing, Refreshed
  <2> QED
    BY <1>5, <2>1, <2>2, <2>3
<1>10. CASE InitOk(r) \/ (\E made \in BOOLEAN : BindOk(r, made))
  <2>1. PICK pc \in Phases \cup {"raised"} :
          Proceed(r, pc) /\ UNCHANGED <<job, audit, cancel, lost, crashes>>
    BY <1>10 DEF InitOk, BindOk, Phases
  <2>2. run[r].pc \in Refreshed /\ loop' = r
    BY <1>10 DEF InitOk, BindOk, Resumes, Refreshed
  <2>3. loop \in {None, r}
    BY <1>10, ReleasedFacts DEF InitOk, BindOk, Resumes
  <2>4. run[r].pc \in Executing
    BY <2>2, PcFacts
  <2> QED
    BY <1>5, <2>1, <2>2, <2>3, <2>4
<1>11. CASE \/ Fail(r)
            \/ \E queried \in BOOLEAN : DeployTimeout(r, queried)
            \/ InitError(r)
            \/ \E made \in BOOLEAN : BindError(r, made)
  <2>1. run[r].pc \in Refreshed /\ loop \in {None, r}
    BY <1>1, <1>11, ReleasedFacts
       DEF Fail, DeployTimeout, InitError, BindError, Resumes,
           Refreshed, Held
  <2>2. FailAttempt(r, run[r].obj) /\ UNCHANGED <<cancel, lost, crashes>>
    BY <1>11 DEF Fail, DeployTimeout, InitError, BindError
  <2> QED
    BY <1>4, <2>1, <2>2
<1> QED
  BY <1>3, <1>6, <1>7, <1>8, <1>9, <1>10, <1>11 DEF Execute

(* The INSERT of a job.                                                    *)
Creates(r) ==
  /\ run[r].pc = "insert" /\ run'[r].pc \in {"load", "idle"}
  /\ \E j \in Jobs : /\ job[j] = NoRow /\ job'[j] = run[r].obj
                     /\ \A i \in Jobs \ {j} : job'[i] = job[i]
  /\ UNCHANGED audit

(* A retry.                                                                *)
Requeues(r) ==
  /\ run[r].pc = "idle" /\ run'[r].pc \in {"idle", "load"} /\ loop = None
  /\ \E j \in Jobs : /\ Kept(job'[j], job[j]) /\ job'[j].status = "queued"
                     /\ \A i \in Jobs \ {j} : job'[i] = job[i]
  /\ UNCHANGED audit

(* The SELECT that found no job of the key.                                *)
Asks(r) ==
  /\ run[r].pc = "idle" /\ run'[r].pc = "insert"
  /\ \E t \in Tenants, q \in Requests :
       run'[r].obj = NewRow(t, q) /\ IdempotentJobs(t, q.key) = {}
  /\ UNCHANGED <<job, audit>>

(* The guards of run_provision_job_inline passed.                          *)
Claims(r) ==
  /\ run[r].pc = "load" /\ run'[r].pc = "start"
  /\ run'[r].job = run[r].job /\ run'[r].kind = run[r].kind
  /\ run'[r].obj = job[run[r].job]
  /\ ~Refused(run[r].kind, job[run[r].job])
  /\ ~AlreadyDone(job[run[r].job])
  /\ UNCHANGED <<job, audit>>

(* The commit that opens an attempt.                                       *)
Opens(r) ==
  LET j == run[r].job
  IN /\ run[r].pc = "start" /\ run'[r].pc = "deploy" /\ run'[r].job = j
     /\ \A i \in Jobs \ {j} : job'[i] = job[i] /\ audit'[i] = audit[i]
     /\ job'[j].tenant = job[j].tenant /\ job'[j].key = job[j].key
     /\ job'[j].attempts = run[r].obj.attempts + 1
     /\ job'[j].max = run[r].obj.max
     /\ audit'[j].started = audit[j].started + 1
     /\ audit'[j].succeeded = audit[j].succeeded
     /\ audit'[j].failed = audit[j].failed

(* Every step of a runner is one of seven.                                 *)
LEMMA RunnerEffect ==
  ASSUME TypeOK, LoopHeld, NEW r \in Runners, Arrive(r) \/ Advance(r)
  PROVE  /\ Moved(r)
         /\ \/ Quiet(r) \/ Ends(r) \/ Creates(r) \/ Requeues(r)
            \/ Asks(r) \/ Claims(r) \/ Opens(r)
<1>1. /\ run[r].pc \in Held => loop = r
      /\ "idle" \notin Held
      /\ {"insert", "load", "start", "tick", "deploy"} \subseteq Held
  BY DEF LoopHeld, Held, Phases
<1>2. ASSUME NEW t \in Tenants, NEW q \in Requests, Submit(r, t, q)
      PROVE  Moved(r) /\ Asks(r)
  BY <1>2, SubmitEffect DEF Moved, Asks
<1>3. CASE \/ \E j \in Jobs, force \in RunModes : RunRequest(r, j, force)
           \/ TickList(r)
  BY <1>3, QuietArrivals DEF Moved
<1>4. ASSUME NEW j \in Jobs, NEW q \in RetryRequests, Retry(r, j, q)
      PROVE  Moved(r) /\ Requeues(r)
  BY <1>1, <1>4, RetryEffect DEF Moved, Requeues
<1>5. CASE Insert(r)
  BY <1>1, <1>5, InsertEffect DEF Moved, Creates
<1>6. CASE TickNext(r) \/ Refuse(r)
  BY <1>1, <1>6, PickEffect DEF Moved
<1>7. CASE Load(r)
  BY <1>1, <1>7, LoadEffect DEF Moved, Claims
<1>8. CASE Start(r)
  BY <1>1, <1>8, StartEffect DEF Moved, Opens
<1>9. CASE Execute(r)
  BY <1>9, ExecuteEffect
<1> QED
  BY <1>2, <1>3, <1>4, <1>5, <1>6, <1>7, <1>8, <1>9 DEF Arrive, Advance

(* A cancel changes neither attempts nor max_attempts.                     *)
LEMMA CancelEffect ==
  ASSUME TypeOK, NEW c \in Cancellers,
         (\E j \in Jobs : CancelLoad(c, j)) \/ CancelCommit(c)
  PROVE  /\ UNCHANGED <<audit, run, loop, lost, crashes>>
         /\ \A j \in Jobs :
              \/ job'[j] = job[j]
              \/ /\ Kept(job'[j], job[j]) /\ job'[j].max = job[j].max
                 /\ job'[j].status = "cancelled"
<1>1. CASE \E j \in Jobs : CancelLoad(c, j)
  BY <1>1 DEF CancelLoad
<1>2. CASE CancelCommit(c)
  <2> DEFINE j == cancel[c].job
             row == CancelledRow(job[j], cancel[c].obj)
  <2>1. /\ job' = [job EXCEPT ![j] = row]
        /\ cancel[c] # NoCancel
        /\ UNCHANGED <<audit, run, loop, lost, crashes>>
    BY <1>2 DEF CancelCommit
  <2>2. j \in Jobs /\ job[j] \in Row
    BY <2>1 DEF TypeOK
  <2>3. Kept(row, job[j]) /\ row.max = job[j].max /\ row.status = "cancelled"
    <3> DEFINE k == Col(job[j].locked, cancel[c].obj.locked, FALSE)
               n == Col(job[j].next, cancel[c].obj.next, FALSE)
    <3>1. row = [job[j] EXCEPT !.status = "cancelled", !.completed = TRUE,
                               !.locked = k, !.next = n]
      BY <2>2 DEF CancelledRow, Row
    <3> HIDE DEF k, n, row, j
    <3> QED
      BY <2>2, <3>1 DEF Kept, Row
  <2> HIDE DEF j, row
  <2> QED
    BY <2>1, <2>2, <2>3 DEF TypeOK
<1> QED
  BY <1>1, <1>2

(* A crash keeps the rows and charges the open attempts to lost.           *)
LEMMA CrashEffect ==
  ASSUME Crash
  PROVE  /\ UNCHANGED <<job, audit>> /\ loop' = None
         /\ \A r \in Runners : run'[r].pc = "idle"
         /\ lost' = [j \in Jobs |-> lost[j] + Cardinality(OpenRunners(j))]
BY DEF Crash, IdleRun

(* LoopHeld is inductive relative to TypeOK.                               *)
LEMMA LoopStep ==
  ASSUME TypeOK, LoopHeld, [Next]_vars
  PROVE  LoopHeld'
<1>1. ASSUME NEW r \in Runners, Arrive(r) \/ Advance(r)
      PROVE  LoopHeld'
  <2>1. Moved(r)
    BY <1>1, RunnerEffect
  <2>2. ASSUME NEW s \in Runners, run'[s].pc \in Held
        PROVE  loop' = s
    <3>1. CASE s = r
      BY <2>1, <2>2, <3>1 DEF Moved
    <3>2. CASE s # r
      <4>1. run[s].pc \in Held
        BY <2>1, <2>2, <3>2 DEF Moved, Others, SameRun, SameLinks
      <4>2. loop = s
        BY <4>1 DEF LoopHeld
      <4> QED
        BY <2>1, <3>2, <4>2, NoneAssumption DEF Moved
    <3> QED
      BY <3>1, <3>2
  <2> QED
    BY <2>2 DEF LoopHeld
<1>2. ASSUME NEW c \in Cancellers,
             (\E j \in Jobs : CancelLoad(c, j)) \/ CancelCommit(c)
      PROVE  LoopHeld'
  BY <1>2, CancelEffect DEF LoopHeld
<1>3. CASE Crash
  BY <1>3, CrashEffect DEF LoopHeld, Held, Phases
<1>4. CASE UNCHANGED vars
  BY <1>4 DEF vars, LoopHeld
<1> QED
  BY <1>1, <1>2, <1>3, <1>4 DEF Next

(* Between the guards and the commit of the start the loaded copy is as    *)
(* good as the row, and an unforced attempt is within the budget.          *)
StartFresh ==
  \A r \in Runners :
    run[r].pc = "start" =>
      LET row == job[run[r].job]
      IN /\ run[r].obj.attempts = row.attempts /\ run[r].obj.max = row.max
         /\ ~Forced(run[r].kind) => run[r].obj.attempts < run[r].obj.max

(* Two jobs answer to one idempotency key.                                 *)
SameKey(a, b) == a.tenant = b.tenant /\ a.key = b.key /\ a.key # None

(* Between the SELECT and the INSERT no job of the key appears.            *)
InsertFresh ==
  \A r \in Runners :
    run[r].pc = "insert" =>
      /\ run[r].obj.attempts = 0 /\ run[r].obj.status = "queued"
      /\ \A j \in Jobs : ~SameKey(job[j], run[r].obj)

(* An open attempt that will overwrite the status running when it ends,    *)
(* for its session has loaded running or will reload the row.              *)
OwnedBy(r, j) ==
  Open(r, j) /\ (run[r].pc \in Refreshed => run[r].obj.status = "running")

(* RunningIsOwned with such an attempt: RunningIsOwned itself is not       *)
(* inductive, for a handler that loaded failed leaves running.             *)
Owned ==
  \A j \in Jobs :
    job[j].status = "running" => lost[j] > 0 \/ \E r \in Runners : OwnedBy(r, j)

(* While r moves nobody else holds the loop, and the others stay.          *)
LEMMA Exclusive ==
  ASSUME LoopHeld, NEW r \in Runners, NEW s \in Runners \ {r}, Moved(r)
  PROVE  run[s].pc \notin Held /\ SameRun(run'[s], run[s])
BY NoneAssumption DEF LoopHeld, Moved, Others

(* Nobody retries, fails or starts a job between the guards and the commit *)
(* of a start, and a cancel keeps both numbers.                            *)
LEMMA StartFreshStep ==
  ASSUME TypeOK, LoopHeld, StartFresh, [Next]_vars
  PROVE  StartFresh'
<1>1. ASSUME NEW r \in Runners, Arrive(r) \/ Advance(r)
      PROVE  StartFresh'
  <2>1. Moved(r)
    BY <1>1, RunnerEffect
  <2>2. ASSUME NEW s \in Runners \ {r} PROVE run'[s].pc # "start"
    BY <2>1, <2>2, Exclusive DEF SameRun, SameLinks, Held
  <2>3. CASE Claims(r)
    <3>1. run[r].job \in Jobs /\ job[run[r].job] \in Row
      BY <2>3, RunFacts DEF Claims, Linked
    <3>2. ~Forced(run[r].kind) =>
             job[run[r].job].attempts < job[run[r].job].max
      BY <2>3, <3>1 DEF Claims, Refused, AlreadyDone, Row
    <3> QED
      BY <2>2, <2>3, <3>2 DEF Claims, StartFresh
  <2>4. CASE run'[r].pc # "start"
    BY <2>2, <2>4 DEF StartFresh
  <2>5. Claims(r) \/ run'[r].pc # "start"
    BY <1>1, RunnerEffect, PcFacts
       DEF Quiet, Ends, Creates, Requeues, Asks, Opens
  <2> QED
    BY <2>3, <2>4, <2>5
<1>2. ASSUME NEW c \in Cancellers,
             (\E j \in Jobs : CancelLoad(c, j)) \/ CancelCommit(c)
      PROVE  StartFresh'
  <2>1. \A j \in Jobs : /\ job'[j].attempts = job[j].attempts
                        /\ job'[j].max = job[j].max
    BY <1>2, CancelEffect DEF Kept
  <2>2. \A r \in Runners : run[r].pc = "start" => run[r].job \in Jobs
    BY RunFacts DEF Linked
  <2> QED
    BY <1>2, <2>1, <2>2, CancelEffect DEF StartFresh
<1>3. CASE Crash
  BY <1>3, CrashEffect DEF StartFresh
<1>4. CASE UNCHANGED vars
  BY <1>4 DEF vars, StartFresh
<1> QED
  BY <1>1, <1>2, <1>3, <1>4 DEF Next

(* Nobody inserts between the SELECT and the INSERT of another.            *)
LEMMA InsertFreshStep ==
  ASSUME TypeOK, LoopHeld, InsertFresh, [Next]_vars
  PROVE  InsertFresh'
<1>1. ASSUME NEW r \in Runners, Arrive(r) \/ Advance(r)
      PROVE  InsertFresh'
  <2>1. Moved(r)
    BY <1>1, RunnerEffect
  <2>2. ASSUME NEW s \in Runners \ {r} PROVE run'[s].pc # "insert"
    BY <2>1, <2>2, Exclusive DEF SameRun, SameLinks, Held
  <2>3. CASE Asks(r)
    <3>1. PICK t \in Tenants, q \in Requests :
            run'[r].obj = NewRow(t, q) /\ IdempotentJobs(t, q.key) = {}
      BY <2>3 DEF Asks
    <3>2. \A j \in Jobs : ~SameKey(job[j], NewRow(t, q))
      BY <3>1 DEF IdempotentJobs, SameKey, NewRow
    <3>3. NewRow(t, q).attempts = 0 /\ NewRow(t, q).status = "queued"
      BY DEF NewRow
    <3> QED
      BY <2>2, <2>3, <3>1, <3>2, <3>3 DEF Asks, InsertFresh
  <2>4. CASE run'[r].pc # "insert"
    BY <2>2, <2>4 DEF InsertFresh
  <2>5. Asks(r) \/ run'[r].pc # "insert"
    BY <1>1, RunnerEffect, PcFacts
       DEF Quiet, Ends, Creates, Requeues, Claims, Opens
  <2> QED
    BY <2>3, <2>4, <2>5
<1>2. ASSUME NEW c \in Cancellers,
             (\E j \in Jobs : CancelLoad(c, j)) \/ CancelCommit(c)
      PROVE  InsertFresh'
  <2>1. \A j \in Jobs :
          job'[j].tenant = job[j].tenant /\ job'[j].key = job[j].key
    BY <1>2, CancelEffect DEF Kept
  <2> QED
    BY <1>2, <2>1, CancelEffect DEF InsertFresh, SameKey
<1>3. CASE Crash
  BY <1>3, CrashEffect DEF InsertFresh
<1>4. CASE UNCHANGED vars
  BY <1>4 DEF vars, InsertFresh
<1> QED
  BY <1>1, <1>2, <1>3, <1>4 DEF Next

(* The increment from the loaded copy is the increment of the row.         *)
LEMMA CountedStep ==
  ASSUME TypeOK, LoopHeld, StartFresh, InsertFresh, AttemptsAreCounted,
         [Next]_vars
  PROVE  AttemptsAreCounted'
<1>1. ASSUME NEW r \in Runners, Arrive(r) \/ Advance(r)
      PROVE  AttemptsAreCounted'
  <2>1. CASE Quiet(r) \/ Asks(r) \/ Claims(r)
    BY <2>1 DEF Quiet, Asks, Claims, AttemptsAreCounted
  <2>2. CASE Ends(r) \/ Requeues(r)
    BY <2>2 DEF Ends, Requeues, AttemptsAreCounted, Kept
  <2>3. CASE Creates(r)
    BY <2>3 DEF Creates, AttemptsAreCounted, InsertFresh, NoRow
  <2>4. CASE Opens(r)
    BY <2>4 DEF Opens, AttemptsAreCounted, StartFresh
  <2> QED
    BY <1>1, <2>1, <2>2, <2>3, <2>4, RunnerEffect
<1>2. ASSUME NEW c \in Cancellers,
             (\E j \in Jobs : CancelLoad(c, j)) \/ CancelCommit(c)
      PROVE  AttemptsAreCounted'
  BY <1>2, CancelEffect DEF AttemptsAreCounted, Kept
<1>3. CASE Crash
  BY <1>3, CrashEffect DEF AttemptsAreCounted
<1>4. CASE UNCHANGED vars
  BY <1>4 DEF vars, AttemptsAreCounted
<1> QED
  BY <1>1, <1>2, <1>3, <1>4 DEF Next

(* An INSERT meets no other job of its key.                                *)
LEMMA KeysStep ==
  ASSUME TypeOK, LoopHeld, InsertFresh, KeysUnique, [Next]_vars
  PROVE  KeysUnique'
<1>1. ASSUME \A j \in Jobs :
               job'[j].tenant = job[j].tenant /\ job'[j].key = job[j].key
      PROVE  KeysUnique'
  BY <1>1 DEF KeysUnique
<1>2. ASSUME NEW r \in Runners, Arrive(r) \/ Advance(r)
      PROVE  KeysUnique'
  <2>1. CASE \/ Quiet(r) \/ Asks(r) \/ Claims(r)
             \/ Ends(r) \/ Requeues(r) \/ Opens(r)
    BY <1>1, <2>1 DEF Quiet, Asks, Claims, Ends, Requeues, Opens, Kept
  <2>2. CASE Creates(r)
    BY <2>2 DEF Creates, KeysUnique, InsertFresh, SameKey
  <2> QED
    BY <1>2, <2>1, <2>2, RunnerEffect
<1>3. ASSUME NEW c \in Cancellers,
             (\E j \in Jobs : CancelLoad(c, j)) \/ CancelCommit(c)
      PROVE  KeysUnique'
  BY <1>1, <1>3, CancelEffect DEF Kept
<1>4. CASE Crash \/ UNCHANGED vars
  BY <1>1, <1>4, CrashEffect DEF vars
<1> QED
  BY <1>2, <1>3, <1>4 DEF Next

(* Whoever ends the attempt that owns running overwrites it.               *)
LEMMA OwnedStep ==
  ASSUME TypeOK, LoopHeld, InsertFresh, Owned, [Next]_vars
  PROVE  Owned'
<1>1. ASSUME NEW r \in Runners, Arrive(r) \/ Advance(r)
      PROVE  Owned'
  <2>1. Others(r) /\ UNCHANGED lost
    BY <1>1, RunnerEffect DEF Moved
  <2>2. ASSUME NEW j, NEW w \in Runners \ {r}, OwnedBy(w, j)
        PROVE  OwnedBy(w, j)'
    BY <2>1, <2>2 DEF Others, SameRun, SameLinks, OwnedBy, Open
  <2>3. ASSUME NEW j \in Jobs, job'[j].status = "running", ~(lost'[j] > 0)
        PROVE  \E w \in Runners : OwnedBy(w, j)'
    <3>1. CASE /\ job[j].status = "running"
               /\ \E w \in Runners \ {r} : OwnedBy(w, j)
      BY <2>2, <3>1
    <3>2. CASE Opens(r) /\ run[r].job = j
      BY <3>2, PcFacts DEF Opens, OwnedBy, Open, Phases
    <3>3. CASE job[j].status = "running" /\ OwnedBy(r, j)
      <4>1. run[r].pc \in Executing /\ run[r].job = j
        BY <3>3 DEF OwnedBy, Open
      <4>2. CASE Quiet(r)
        <5>1. /\ run'[r].pc \in Executing /\ run'[r].job = j
              /\ run'[r].pc \in Refreshed => run'[r].obj = job[j]
          BY <4>1, <4>2 DEF Quiet
        <5>2. OwnedBy(r, j)'
          BY <3>3, <5>1 DEF OwnedBy, Open
        <5> QED
          BY <5>2
      <4>3. CASE Ends(r)
        BY <2>3, <3>3, <4>1, <4>3 DEF Ends, OwnedBy
      <4>4. CASE Creates(r) \/ Requeues(r) \/ Asks(r) \/ Claims(r) \/ Opens(r)
        BY <4>1, <4>4, PcFacts DEF Creates, Requeues, Asks, Claims, Opens
      <4> QED
        BY <1>1, <4>2, <4>3, <4>4, RunnerEffect
    <3>4. CASE job[j].status = "running"
      <4>1. \E w \in Runners : OwnedBy(w, j)
        BY <2>1, <2>3, <3>4 DEF Owned
      <4> QED
        BY <3>1, <3>3, <3>4, <4>1
    <3>5. CASE job[j].status # "running"
      <4>1. CASE Quiet(r) \/ Asks(r) \/ Claims(r)
        BY <2>3, <3>5, <4>1 DEF Quiet, Asks, Claims
      <4>2. CASE Ends(r)
        BY <2>3, <3>5, <4>2 DEF Ends
      <4>3. CASE Requeues(r)
        BY <2>3, <3>5, <4>3 DEF Requeues
      <4>4. CASE Creates(r)
        BY <2>3, <3>5, <4>4 DEF Creates, InsertFresh
      <4>5. CASE Opens(r)
        BY <2>3, <3>2, <3>5, <4>5 DEF Opens
      <4> QED
        BY <1>1, <4>1, <4>2, <4>3, <4>4, <4>5, RunnerEffect
    <3> QED
      BY <3>4, <3>5
  <2> QED
    BY <2>3 DEF Owned
<1>2. ASSUME NEW c \in Cancellers,
             (\E j \in Jobs : CancelLoad(c, j)) \/ CancelCommit(c)
      PROVE  Owned'
  BY <1>2, CancelEffect DEF Owned, OwnedBy, Open
<1>3. CASE Crash
  <2>1. ASSUME NEW j \in Jobs, job[j].status = "running"
        PROVE  lost'[j] > 0
    <3>1. lost'[j] = lost[j] + Cardinality(OpenRunners(j))
      BY <1>3, CrashEffect
    <3>2. lost[j] \in Nat /\ Cardinality(OpenRunners(j)) \in Nat
      BY OpenRunnersFinite DEF TypeOK
    <3>3. CASE OpenRunners(j) # {}
      <4>1. Cardinality(OpenRunners(j)) # 0
        BY <3>3, OpenRunnersFinite, FS_EmptySet
      <4> QED
        BY <3>1, <3>2, <4>1
    <3>4. CASE OpenRunners(j) = {}
      <4>1. lost[j] > 0
        BY <2>1, <3>4 DEF Owned, OwnedBy, OpenRunners
      <4> QED
        BY <3>1, <3>2, <4>1
    <3> QED
      BY <3>3, <3>4
  <2> QED
    BY <1>3, <2>1, CrashEffect DEF Owned
<1>4. CASE UNCHANGED vars
  BY <1>4 DEF vars, Owned, OwnedBy, Open
<1> QED
  BY <1>1, <1>2, <1>3, <1>4 DEF Next

(* Which runners have an attempt of job j open after a step of r.          *)
LEMMA OpenRunnersStep ==
  ASSUME TypeOK, LoopHeld, NEW r \in Runners, Arrive(r) \/ Advance(r),
         NEW j \in Jobs
  PROVE  /\ ~Ends(r) /\ ~Opens(r) => OpenRunners(j)' = OpenRunners(j)
         /\ Ends(r) => OpenRunners(j)' = IF run[r].job = j
                                         THEN OpenRunners(j) \ {r}
                                         ELSE OpenRunners(j)
         /\ Opens(r) => OpenRunners(j)' = IF run[r].job = j
                                          THEN OpenRunners(j) \cup {r}
                                          ELSE OpenRunners(j)
<1>1. Others(r)
  BY RunnerEffect DEF Moved
<1>2. \A s \in Runners \ {r} : Open(s, j)' <=> Open(s, j)
  BY <1>1 DEF Others, SameRun, SameLinks, Open
<1>3. ASSUME ~Ends(r), ~Opens(r)
      PROVE  Open(r, j)' <=> Open(r, j)
  BY <1>3, RunnerEffect, PcFacts
     DEF Quiet, Creates, Requeues, Asks, Claims, Open
<1>4. ASSUME Ends(r)
      PROVE  ~Open(r, j)' /\ (run[r].job = j <=> Open(r, j))
  BY <1>4, PcFacts DEF Ends, Open
<1>5. ASSUME Opens(r)
      PROVE  ~Open(r, j) /\ (run[r].job = j <=> Open(r, j)')
  BY <1>5, PcFacts DEF Opens, Open, Phases
<1> QED
  BY <1>2, <1>3, <1>4, <1>5 DEF OpenRunners

(* AttemptsAccounted for one job.                                          *)
Balanced(j) ==
  audit[j].started = audit[j].succeeded + audit[j].failed + lost[j]
                     + Cardinality(OpenRunners(j))

(* Started attempts are open, lost, or have exactly one outcome event.     *)
LEMMA AccountedStep ==
  ASSUME TypeOK, LoopHeld, AttemptsAccounted, [Next]_vars
  PROVE  AttemptsAccounted'
<1>1. ASSUME NEW j \in Jobs
      PROVE  Balanced(j) /\ audit[j] \in Counters /\ lost[j] \in Nat
  BY DEF Balanced, AttemptsAccounted, TypeOK, Counters
<1>2. ASSUME NEW r \in Runners, Arrive(r) \/ Advance(r), NEW j \in Jobs
      PROVE  Balanced(j)'
  <2>1. lost' = lost /\ IsFiniteSet(OpenRunners(j))
        /\ Cardinality(OpenRunners(j)) \in Nat
    BY <1>2, RunnerEffect, OpenRunnersFinite DEF Moved
  <2>2. CASE ~Ends(r) /\ ~Opens(r)
    <3>1. audit' = audit
      BY <1>2, <2>2, RunnerEffect DEF Quiet, Creates, Requeues, Asks, Claims
    <3>2. OpenRunners(j)' = OpenRunners(j)
      BY <1>2, <2>2, OpenRunnersStep
    <3> QED
      BY <1>1, <2>1, <3>1, <3>2 DEF Balanced
  <2>3. CASE Ends(r)
    <3>1. CASE run[r].job = j
      <4>1. OpenRunners(j)' = OpenRunners(j) \ {r}
        BY <1>2, <2>3, <3>1, OpenRunnersStep
      <4>2. r \in OpenRunners(j)
        BY <2>3, <3>1 DEF Ends, OpenRunners, Open
      <4>3. Cardinality(OpenRunners(j)') = Cardinality(OpenRunners(j)) - 1
        BY <2>1, <4>1, <4>2, FS_RemoveElement
      <4>4. /\ audit'[j].started = audit[j].started
            /\ audit'[j].succeeded + audit'[j].failed =
                 audit[j].succeeded + audit[j].failed + 1
        BY <2>3, <3>1 DEF Ends
      <4>5. audit'[j] \in Counters
        BY <1>2, TypeStep DEF TypeOK, Counters
      <4> QED
        BY <1>1, <2>1, <4>3, <4>4, <4>5 DEF Balanced, Counters
    <3>2. CASE run[r].job # j
      <4>1. OpenRunners(j)' = OpenRunners(j) /\ audit'[j] = audit[j]
        BY <1>2, <2>3, <3>2, OpenRunnersStep DEF Ends
      <4> QED
        BY <1>1, <2>1, <4>1 DEF Balanced
    <3> QED
      BY <3>1, <3>2
  <2>4. CASE Opens(r)
    <3>1. CASE run[r].job = j
      <4>1. OpenRunners(j)' = OpenRunners(j) \cup {r}
        BY <1>2, <2>4, <3>1, OpenRunnersStep
      <4>2. r \notin OpenRunners(j)
        BY <2>4, PcFacts DEF Opens, OpenRunners, Open
      <4>3. Cardinality(OpenRunners(j)') = Cardinality(OpenRunners(j)) + 1
        BY <2>1, <4>1, <4>2, FS_AddElement
      <4>4. /\ audit'[j].started = audit[j].started + 1
            /\ audit'[j].succeeded = audit[j].succeeded
            /\ audit'[j].failed = audit[j].failed
        BY <2>4, <3>1 DEF Opens
      <4> QED
        BY <1>1, <2>1, <4>3, <4>4 DEF Balanced, Counters
    <3>2. CASE run[r].job # j
      <4>1. OpenRunners(j)' = OpenRunners(j) /\ audit'[j] = audit[j]
        BY <1>2, <2>4, <3>2, OpenRunnersStep DEF Opens
      <4> QED
        BY <1>1, <2>1, <4>1 DEF Balanced
    <3> QED
      BY <3>1, <3>2
  <2> QED
    BY <2>2, <2>3, <2>4
<1>3. ASSUME NEW c \in Cancellers,
             (\E j \in Jobs : CancelLoad(c, j)) \/ CancelCommit(c)
      PROVE  AttemptsAccounted'
  BY <1>3, CancelEffect DEF AttemptsAccounted, OpenRunners, Open
<1>4. ASSUME Crash, NEW j \in Jobs
      PROVE  Balanced(j)'
  <2>1. OpenRunners(j)' = {}
    BY <1>4, CrashEffect, PcFacts DEF OpenRunners, Open
  <2>2. Cardinality(OpenRunners(j)') = 0
    BY <2>1, FS_EmptySet
  <2>3. /\ audit' = audit
        /\ lost'[j] = lost[j] + Cardinality(OpenRunners(j))
    BY <1>4, CrashEffect
  <2>4. Cardinality(OpenRunners(j)) \in Nat
    BY OpenRunnersFinite
  <2> QED
    BY <1>1, <2>2, <2>3, <2>4 DEF Balanced, Counters
<1>5. CASE UNCHANGED vars
  BY <1>5 DEF vars, AttemptsAccounted, OpenRunners, Open
<1>6. (\A j \in Jobs : Balanced(j)') => AttemptsAccounted'
  BY DEF Balanced, AttemptsAccounted
<1> QED
  BY <1>2, <1>3, <1>4, <1>5, <1>6 DEF Next

(* The inductive invariant of the job engine.                              *)
IInv ==
  /\ TypeOK /\ LoopHeld /\ StartFresh /\ InsertFresh /\ Owned
  /\ AttemptsAreCounted /\ AttemptsAccounted /\ KeysUnique

(* IInv holds initially ...                                                *)
LEMMA InitIInv == Init => IInv
<1> SUFFICES ASSUME Init PROVE IInv
  OBVIOUS
<1>1. TypeOK
  BY InitType
<1>2. \A r \in Runners : run[r].pc = "idle"
  BY DEF Init, IdleRun
<1>3. \A j \in Jobs : /\ job[j].status = "absent" /\ job[j].attempts = 0
                      /\ job[j].key = None
  BY DEF Init, NoRow
<1>4. LoopHeld /\ StartFresh /\ InsertFresh
  BY <1>2 DEF LoopHeld, StartFresh, InsertFresh, Held, Phases
<1>5. Owned /\ KeysUnique
  BY <1>3 DEF Owned, KeysUnique
<1>6. AttemptsAreCounted
  BY <1>3 DEF Init, AttemptsAreCounted
<1>7. AttemptsAccounted
  <2>1. ASSUME NEW j \in Jobs PROVE Cardinality(OpenRunners(j)) = 0
    <3>1. OpenRunners(j) = {}
      BY <1>2, PcFacts DEF OpenRunners, Open
    <3> QED
      BY <3>1, FS_EmptySet
  <2> QED
    BY <2>1 DEF Init, AttemptsAccounted
<1> QED
  BY <1>1, <1>4, <1>5, <1>6, <1>7 DEF IInv

(* ... and every step keeps it.                                            *)
LEMMA NextIInv == IInv /\ [Next]_vars => IInv'
<1> SUFFICES ASSUME IInv, [Next]_vars PROVE IInv'
  OBVIOUS
<1>1. TypeOK' /\ LoopHeld'
  BY TypeStep, LoopStep DEF IInv
<1>2. StartFresh' /\ InsertFresh'
  BY StartFreshStep, InsertFreshStep DEF IInv
<1>3. Owned' /\ KeysUnique'
  BY OwnedStep, KeysStep DEF IInv
<1>4. AttemptsAreCounted' /\ AttemptsAccounted'
  BY CountedStep, AccountedStep DEF IInv
<1> QED
  BY <1>1, <1>2, <1>3, <1>4 DEF IInv

(* IInv is an invariant of the job engine, from which the safety           *)
(* properties follow.                                                      *)
THEOREM Inductive == Spec => []IInv
BY InitIInv, NextIInv, PTL DEF Spec

(* No increment of job.attempts is lost (workflow_service.py:184-197), for *)
(* any number of jobs, requests, threads and crashes: the loop is held     *)
(* from the guards to the commit, and a cancel thread does not write the   *)
(* column.                                                                 *)
THEOREM AttemptsCounted == Spec => []AttemptsAreCounted
<1>1. IInv => AttemptsAreCounted
  BY DEF IInv
<1> QED
  BY <1>1, Inductive, PTL

(* Every attempt announced in the audit trail is open, was cut off by a    *)
(* crash, or has exactly one outcome event (workflow_service.py:238-272).  *)
THEOREM EveryAttemptAccounted == Spec => []AttemptsAccounted
<1>1. IInv => AttemptsAccounted
  BY DEF IInv
<1> QED
  BY <1>1, Inductive, PTL

(* A row says running only while an attempt is open that will overwrite    *)
(* it, or after a crash (workflow_service.py:184-272).                     *)
THEOREM RunningOwned == Spec => []RunningIsOwned
<1>1. IInv => RunningIsOwned
  BY DEF IInv, Owned, OwnedBy, RunningIsOwned, OpenRunners
<1> QED
  BY <1>1, Inductive, PTL

(* An idempotency key names at most one job of its tenant, although the    *)
(* column has no unique constraint (workflow_service.py:70-81): SELECT and *)
(* INSERT share one turn of the event loop.                                *)
THEOREM KeysStayUnique == Spec => []KeysUnique
<1>1. IInv => KeysUnique
  BY DEF IInv
<1> QED
  BY <1>1, Inductive, PTL

(* An attempt that starts without force is within max_attempts as the      *)
(* commit leaves it (workflow_service.py:178-185).                         *)
THEOREM BudgetKept == Spec => WithinBudget
<1> DEFINE A == \A r \in Runners :
                  run[r].pc = "start" /\ run'[r].pc = "deploy"
                  /\ ~Forced(run[r].kind) =>
                    job'[run[r].job].attempts <= job'[run[r].job].max
<1>1. IInv /\ [Next]_vars => [A]_vars
  <2> SUFFICES ASSUME IInv, Next,
                      NEW s \in Runners,
                      run[s].pc = "start", run'[s].pc = "deploy",
                      ~Forced(run[s].kind)
               PROVE  job'[run[s].job].attempts <= job'[run[s].job].max
    OBVIOUS
  <2>1. ASSUME NEW r \in Runners, Arrive(r) \/ Advance(r)
        PROVE  r = s /\ Opens(s)
    <3>1. r = s
      <4>1. Moved(r) /\ run[s].pc \in Held
        BY <2>1, RunnerEffect DEF IInv, Held
      <4> QED
        BY <4>1, Exclusive DEF IInv
    <3> QED
      <4>1. "deploy" \in Executing /\ "start" \notin Executing
        BY PcFacts DEF Phases
      <4> QED
        BY <2>1, <3>1, <4>1, RunnerEffect
           DEF IInv, Quiet, Ends, Creates, Requeues, Asks, Claims
  <2>2. Opens(s)
    BY <2>1, CancelEffect, CrashEffect DEF Next, IInv
  <2>3. /\ run[s].obj.attempts < run[s].obj.max
        /\ run[s].obj \in Row
    BY RunFacts DEF IInv, StartFresh, Linked
  <2> QED
    BY <2>2, <2>3 DEF Opens, Row
<1> QED
  BY <1>1, Inductive, PTL DEF Spec, WithinBudget

============================================================================
