------------------------- MODULE ProvisionJobsTypes -------------------------
(***************************************************************************)
(* Type correctness of ProvisionJobs, for every value of its constants.    *)
(*                                                                         *)
(* TypeOK is inductive.  Its last conjuncts (whoever works on a job points *)
(* to an existing row) relate the coroutines to the table, so the proof    *)
(* goes through RunnerStep: a step that keeps the types, moves one runner  *)
(* and deletes no row keeps them all.                                      *)
(***************************************************************************)
EXTENDS ProvisionJobs, FiniteSetTheorems, TLAPS

(* What the start, the failure handler, the success and a cancel write     *)
(* over a row is a row again.                                              *)
LEMMA RowTypes ==
  ASSUME NEW row \in Row, NEW obj \in Row, NEW req \in ReqType
  PROVE  /\ StartedRow(row, obj) \in Row
         /\ FailedRow(row, obj, req) \in Row
         /\ SucceededRow(row, req) \in Row
         /\ CancelledRow(row, obj) \in Row
<1>1. StartedRow(row, obj) \in Row
  <2>1. /\ Col(row.status, obj.status, "running") \in Statuses
        /\ Col(row.next, obj.next, FALSE) \in BOOLEAN
        /\ Col(row.completed, obj.completed, FALSE) \in BOOLEAN
    BY DEF Row, Col, Statuses
  <2>2. obj.attempts + 1 \in Nat /\ obj.max \in Nat /\ obj.req \in ReqType
    BY DEF Row
  <2> QED
    BY <2>1, <2>2 DEF StartedRow, Row
<1>2. FailedRow(row, obj, req) \in Row
  BY DEF FailedRow, Row, Col, Statuses
<1>3. SucceededRow(row, req) \in Row
  BY DEF SucceededRow, Row, Statuses
<1>4. CancelledRow(row, obj) \in Row
  BY DEF CancelledRow, Row, Col, Statuses
<1> QED
  BY <1>1, <1>2, <1>3, <1>4

(* A retried row is a row: max_attempts stays a number whether the body of *)
(* the retry gives it or not.                                              *)
LEMMA RetriedRowType ==
  ASSUME NEW row \in Row, NEW q \in RetryType
  PROVE  RetriedRow(row, q) \in Row
<1>1. RetryMax(row, q) \in Nat
  BY DEF RetryMax, Row, RetryType
<1>2. row.req \in ReqType
  BY DEF Row
<1>3. [row.req EXCEPT !.fail = IF q.fail # "none" THEN q.fail
                               ELSE IF q.clear THEN "none" ELSE @] \in ReqType
  BY <1>2 DEF ReqType, RetryType
<1> QED
  BY <1>1, <1>3 DEF RetriedRow, Row, Statuses

(* What an accepted request inserts is a row.                              *)
LEMMA NewRowType ==
  ASSUME NEW t \in Tenants, NEW q \in Requests
  PROVE  NewRow(t, q) \in Row
<1>1. q \in RequestType
  BY InputAssumption
<1> QED
  BY <1>1, BoundAssumption DEF NewRow, Row, RequestType, Statuses

(* The placeholder of a job that was never created is not a row.           *)
LEMMA NoRowIsNoRow == NoRow \notin Row
BY DEF NoRow, Row, Statuses

(* What a coroutine at work on a job points to exists: the conjuncts of    *)
(* TypeOK on one coroutine, for any table of rows.                         *)
Linked(a, rows) ==
  /\ a.pc \in {"load", "start"} \cup Executing =>
       a.job \in Jobs /\ rows[a.job] \in Row
  /\ a.pc \in {"insert", "start"} \cup Refreshed => a.obj \in Row
  /\ \A j \in a.batch : rows[j] \in Row

(* Two coroutine states that agree in all that Linked reads.               *)
SameLinks(a, b) ==
  a.pc = b.pc /\ a.job = b.job /\ a.obj = b.obj /\ a.batch = b.batch

(* No step of the engine deletes a row.                                    *)
RowsStay == \A j \in Jobs : job[j] \in Row => job'[j] \in Row

(* An idle coroutine is well typed ...                                     *)
LEMMA IdleRunType == IdleRun \in RunType
BY DEF IdleRun, RunType, PCs, Kinds, ReqType, Phases, NoReq

(* ... and points to nothing.                                              *)
LEMMA IdleLinked == \A rows : Linked(IdleRun, rows)
BY DEF IdleRun, Linked, Executing, Refreshed, Phases

(* A step of runner r that deletes no row leaves every other coroutine and *)
(* every cancel thread with an existing row.                               *)
LEMMA LinksStay ==
  ASSUME TypeOK, RowsStay, NEW r \in Runners,
         \A s \in Runners \ {r} : SameLinks(run'[s], run[s]),
         Linked(run'[r], job'), cancel' = cancel
  PROVE  /\ \A s \in Runners : Linked(run'[s], job')
         /\ \A c \in Cancellers :
              cancel'[c] # NoCancel => job'[cancel'[c].job] \in Row
<1>1. ASSUME NEW s \in Runners, s # r PROVE Linked(run'[s], job')
  <2>1. Linked(run[s], job) /\ run[s].batch \subseteq Jobs
    BY DEF TypeOK, Linked, RunType
  <2>2. SameLinks(run'[s], run[s])
    BY <1>1
  <2> QED
    BY <2>1, <2>2 DEF Linked, SameLinks, RowsStay
<1>2. ASSUME NEW c \in Cancellers, cancel[c] # NoCancel
      PROVE  job'[cancel[c].job] \in Row
  <2>1. cancel[c].job \in Jobs /\ job[cancel[c].job] \in Row
    BY <1>2 DEF TypeOK
  <2> QED
    BY <2>1 DEF RowsStay
<1> QED
  BY <1>1, <1>2

(* A step of runner r keeps TypeOK if it keeps the types and deletes no    *)
(* row.                                                                    *)
LEMMA RunnerStep ==
  ASSUME TypeOK, RowsStay, NEW r \in Runners,
         \A s \in Runners \ {r} : SameLinks(run'[s], run[s]),
         Linked(run'[r], job'),
         run' \in [Runners -> RunType],
         job' \in [Jobs -> Row \cup {NoRow}],
         audit' \in [Jobs -> [started : Nat, succeeded : Nat, failed : Nat]],
         ten' \in [Tenants -> TenantType],
         channels' \in [Tenants -> Nat],
         loop' \in Runners \cup {None},
         UNCHANGED <<cancel, lost, crashes>>
  PROVE  TypeOK'
<1>1. /\ \A s \in Runners : Linked(run'[s], job')
      /\ \A c \in Cancellers :
              cancel'[c] # NoCancel => job'[cancel'[c].job] \in Row
  BY LinksStay
<1> QED
  BY <1>1 DEF TypeOK, Linked

(* The same for the many steps that change only the coroutine.             *)
LEMMA RunnerOnlyStep ==
  ASSUME TypeOK, NEW r \in Runners, NEW a \in RunType, Linked(a, job),
         run' = [run EXCEPT ![r] = a],
         loop' \in Runners \cup {None},
         UNCHANGED <<job, audit, ten, channels, cancel, lost, crashes>>
  PROVE  TypeOK'
<1>1. RowsStay
  BY DEF RowsStay
<1>2. /\ \A s \in Runners \ {r} : SameLinks(run'[s], run[s])
      /\ run'[r] = a
      /\ run' \in [Runners -> RunType]
  BY DEF SameLinks, TypeOK
<1>3. Linked(run'[r], job')
  BY <1>2
<1> QED
  BY <1>1, <1>2, <1>3, RunnerStep DEF TypeOK

(* What TypeOK says of one coroutine.                                      *)
LEMMA RunFacts ==
  ASSUME TypeOK, NEW r \in Runners
  PROVE  run[r] \in RunType /\ Linked(run[r], job)
BY DEF TypeOK, Linked

(* The job of an open attempt belongs to a tenant.                         *)
LEMMA TenantOfType ==
  ASSUME TypeOK, NEW r \in Runners, run[r].pc \in Executing
  PROVE  TenantOf(r) \in Tenants
<1>1. job[run[r].job] \in Row
  BY DEF TypeOK
<1> QED
  BY <1>1 DEF Row, TenantOf

(* The commit that takes a coroutine to its next phase keeps TypeOK.       *)
LEMMA ProceedTypeOK ==
  ASSUME TypeOK, NEW r \in Runners, NEW pc \in Phases \cup {"raised"},
         run[r].pc \in {"start"} \cup Executing, Proceed(r, pc), RowsStay,
         job' \in [Jobs -> Row \cup {NoRow}],
         audit' \in [Jobs -> [started : Nat, succeeded : Nat, failed : Nat]],
         ten' \in [Tenants -> TenantType],
         channels' \in [Tenants -> Nat],
         loop' \in Runners \cup {None},
         UNCHANGED <<cancel, lost, crashes>>
  PROVE  TypeOK'
<1> DEFINE a == [run[r] EXCEPT !.pc = pc, !.obj = NoRow]
<1>1. run[r] \in RunType /\ Linked(run[r], job)
  BY RunFacts
<1>2. pc \in PCs
  BY DEF PCs, Executing
<1>3. /\ a \in RunType /\ a.pc = pc /\ a.job = run[r].job
      /\ a.batch = run[r].batch
  BY <1>1, <1>2 DEF RunType
<1>4. run' = [run EXCEPT ![r] = a]
  BY DEF Proceed, TypeOK
<1> HIDE DEF a
<1>5. pc \notin {"insert", "start", "load"} \cup Refreshed
  BY DEF Phases, Refreshed
<1>6. a.job \in Jobs /\ job'[a.job] \in Row
  BY <1>1, <1>3 DEF Linked, RowsStay
<1>7. \A j \in a.batch : job'[j] \in Row
  BY <1>1, <1>3 DEF Linked, RowsStay, RunType
<1>8. Linked(a, job')
  BY <1>3, <1>5, <1>6, <1>7 DEF Linked
<1> QED
  BY <1>3, <1>4, <1>8, RunnerStep DEF TypeOK, SameLinks

(* A read that refreshes the session of an attempt keeps TypeOK.           *)
LEMMA RefreshTypeOK ==
  ASSUME TypeOK, NEW r \in Runners, NEW pc \in Refreshed,
         run[r].pc \in Executing, Refresh(r, pc),
         loop' \in Runners \cup {None},
         UNCHANGED <<job, audit, ten, channels, cancel, lost, crashes>>
  PROVE  TypeOK'
<1> DEFINE a == [run[r] EXCEPT !.pc = pc, !.obj = job[run[r].job]]
<1>1. run[r] \in RunType /\ Linked(run[r], job)
  BY RunFacts
<1>2. pc \in PCs /\ pc \notin {"insert", "load"}
  BY DEF PCs, Executing, Refreshed
<1>3. run[r].job \in Jobs /\ job[run[r].job] \in Row
  BY <1>1 DEF Linked
<1>4. /\ a \in RunType /\ a.pc = pc /\ a.job = run[r].job
      /\ a.obj \in Row /\ a.batch = run[r].batch
  BY <1>1, <1>2, <1>3 DEF RunType
<1>5. run' = [run EXCEPT ![r] = a]
  BY DEF Refresh, TypeOK
<1> HIDE DEF a
<1>6. Linked(a, job)
  BY <1>1, <1>2, <1>3, <1>4 DEF Linked
<1> QED
  BY <1>4, <1>5, <1>6, RunnerOnlyStep

(* Postponing a job touches nothing of a coroutine but its set late.       *)
LEMMA PostponedFacts ==
  ASSUME NEW f \in [Runners -> RunType], NEW j \in Jobs
  PROVE  /\ Postponed(f, j) \in [Runners -> RunType]
         /\ \A s \in Runners :
              /\ SameLinks(Postponed(f, j)[s], f[s])
              /\ Postponed(f, j)[s].kind = f[s].kind
BY DEF Postponed, RunType, SameLinks

(* After a job, a tick with jobs left goes on and any other coroutine is   *)
(* idle.                                                                   *)
LEMMA RestFacts ==
  ASSUME NEW a \in RunType
  PROVE  /\ Rest(a) \in RunType
         /\ Rest(a).pc = IF a.batch = {} THEN "idle" ELSE "tick"
         /\ Rest(a).batch = a.batch
         /\ Rest(a).job = None
BY IdleRunType DEF Rest, RunType, PCs, Kinds, IdleRun

(* What is left of a batch points to existing rows.                        *)
LEMMA RestLinked ==
  ASSUME NEW a \in RunType, NEW rows, Linked(a, rows)
  PROVE  Linked(Rest(a), rows)
<1>1. Rest(a).pc \in {"idle", "tick"} /\ Rest(a).batch = a.batch
  BY RestFacts
<1> QED
  BY <1>1 DEF Linked, Executing, Refreshed, Phases

(* A coroutine that points to existing rows still does after a step.       *)
LEMMA LinkedStays ==
  ASSUME NEW a \in RunType, Linked(a, job), RowsStay
  PROVE  Linked(a, job')
BY DEF Linked, RowsStay, RunType

(* The failure handler keeps TypeOK, whatever row its session holds.       *)
LEMMA FailAttemptTypeOK ==
  ASSUME TypeOK, NEW r \in Runners, run[r].pc \in Executing, NEW obj \in Row,
         FailAttempt(r, obj),
         ten' \in [Tenants -> TenantType],
         channels' \in [Tenants -> Nat],
         UNCHANGED <<cancel, lost, crashes>>
  PROVE  TypeOK'
<1> DEFINE j == run[r].job
           f == [run EXCEPT ![r] = Rest(@)]
<1>1. run[r] \in RunType /\ Linked(run[r], job) /\ run[r].req \in ReqType
  BY RunFacts DEF RunType
<1>2. j \in Jobs /\ job[j] \in Row
  BY <1>1 DEF Linked
<1>3. FailedRow(job[j], obj, run[r].req) \in Row
  BY <1>1, <1>2, RowTypes
<1>4. /\ job' = [job EXCEPT ![j] = FailedRow(job[j], obj, run[r].req)]
      /\ audit' = [audit EXCEPT ![j].failed = audit[j].failed + 1]
      /\ run' = f \/ run' = Postponed(f, j)
      /\ loop' = LoopAfter(r)
  BY DEF FailAttempt
<1>5. /\ f \in [Runners -> RunType]
      /\ f[r] = Rest(run[r])
      /\ \A s \in Runners \ {r} : f[s] = run[s]
  BY <1>1, RestFacts DEF TypeOK
<1> HIDE DEF f, j
<1>6. /\ job' \in [Jobs -> Row \cup {NoRow}]
      /\ RowsStay
  BY <1>2, <1>3, <1>4 DEF TypeOK, RowsStay
<1>7. audit' \in [Jobs -> [started : Nat, succeeded : Nat, failed : Nat]]
  BY <1>2, <1>4 DEF TypeOK
<1>8. /\ run' \in [Runners -> RunType]
      /\ \A s \in Runners : SameLinks(run'[s], f[s])
  BY <1>2, <1>4, <1>5, PostponedFacts DEF SameLinks
<1>9. Linked(run'[r], job')
  <2>1. Linked(f[r], job')
    BY <1>1, <1>5, <1>6, RestLinked, RestFacts, LinkedStays
  <2> QED
    BY <2>1, <1>8 DEF Linked, SameLinks
<1>10. loop' \in Runners \cup {None}
  BY <1>4 DEF LoopAfter
<1> QED
  BY <1>5, <1>6, <1>7, <1>8, <1>9, <1>10, RunnerStep DEF SameLinks

(* The steps of TypeOK, one lemma per action.                              *)
LEMMA SubmitTypeOK ==
  ASSUME TypeOK, NEW r \in Runners, NEW t \in Tenants, NEW q \in Requests,
         Submit(r, t, q)
  PROVE  TypeOK'
<1> DEFINE a == [IdleRun EXCEPT !.pc = "insert", !.obj = NewRow(t, q),
                               !.kind = IF q.inline THEN "create"
                                        ELSE "enqueue"]
<1>1. a \in RunType /\ Linked(a, job)
  BY IdleRunType, NewRowType
     DEF RunType, IdleRun, PCs, Kinds, Linked, Executing, Refreshed, Phases
<1>2. run' = [run EXCEPT ![r] = a]
  BY DEF Submit
<1> HIDE DEF a
<1> QED
  BY <1>1, <1>2, RunnerOnlyStep DEF Submit

(* The INSERT adds one row and no other changes.                           *)
LEMMA InsertTypeOK ==
  ASSUME TypeOK, NEW r \in Runners, Insert(r)
  PROVE  TypeOK'
<1>1. run[r] \in RunType /\ Linked(run[r], job)
  BY RunFacts
<1>2. run[r].obj \in Row
  BY <1>1 DEF Insert, Linked
<1>3. PICK j \in Jobs :
        /\ job[j] = NoRow
        /\ job' = [job EXCEPT ![j] = run[r].obj]
        /\ \/ /\ run' = [run EXCEPT ![r].pc = "load", ![r].job = j,
                                    ![r].obj = NoRow]
              /\ UNCHANGED loop
           \/ /\ run' = [run EXCEPT ![r] = IdleRun]
              /\ loop' = None
  BY DEF Insert
<1>4. job' \in [Jobs -> Row \cup {NoRow}] /\ RowsStay /\ job'[j] \in Row
  BY <1>2, <1>3, NoRowIsNoRow DEF TypeOK, RowsStay
<1>5. UNCHANGED <<audit, ten, channels, cancel, lost, crashes>>
  BY DEF Insert
<1>6. CASE run' = [run EXCEPT ![r] = IdleRun] /\ loop' = None
  BY <1>4, <1>5, <1>6, IdleRunType, IdleLinked, RunnerStep
     DEF TypeOK, SameLinks
<1>7. CASE /\ run' = [run EXCEPT ![r].pc = "load", ![r].job = j,
                                 ![r].obj = NoRow]
           /\ UNCHANGED loop
  <2> DEFINE a == [run[r] EXCEPT !.pc = "load", !.job = j, !.obj = NoRow]
  <2>1. /\ a \in RunType /\ a.pc = "load" /\ a.job = j
        /\ a.batch = run[r].batch
    BY <1>1 DEF RunType, PCs
  <2>2. run' = [run EXCEPT ![r] = a]
    BY <1>7 DEF TypeOK
  <2> HIDE DEF a
  <2>3. Linked(a, job')
    BY <1>1, <1>4, <2>1 DEF Linked, RowsStay, RunType, Refreshed
  <2>4. /\ run' \in [Runners -> RunType] /\ run'[r] = a
        /\ \A s \in Runners \ {r} : SameLinks(run'[s], run[s])
    BY <2>1, <2>2 DEF TypeOK, SameLinks
  <2> QED
    BY <1>4, <1>5, <1>7, <2>3, <2>4, RunnerStep DEF TypeOK
<1> QED
  BY <1>3, <1>6, <1>7

(* A run request names an existing job.                                    *)
LEMMA RunRequestTypeOK ==
  ASSUME TypeOK, NEW r \in Runners, NEW j \in Jobs, NEW force \in RunModes,
         RunRequest(r, j, force)
  PROVE  TypeOK'
<1> DEFINE a == [IdleRun EXCEPT !.pc = "load", !.job = j,
                                !.kind = IF force THEN "force" ELSE "run"]
<1>1. /\ a \in RunType /\ a.pc = "load" /\ a.job = j /\ a.batch = {}
  BY IdleRunType DEF RunType, IdleRun, PCs, Kinds
<1>2. run' = [run EXCEPT ![r] = a]
  BY DEF RunRequest
<1> HIDE DEF a
<1>3. job[j] \in Row
  BY DEF RunRequest, TypeOK
<1>4. Linked(a, job)
  BY <1>1, <1>3 DEF Linked, Refreshed
<1> QED
  BY <1>1, <1>2, <1>4, RunnerOnlyStep DEF RunRequest

(* A retry rewrites the row and may postpone the job in the ticks under    *)
(* way.                                                                    *)
LEMMA RetryTypeOK ==
  ASSUME TypeOK, NEW r \in Runners, NEW j \in Jobs, NEW q \in RetryRequests,
         Retry(r, j, q)
  PROVE  TypeOK'
<1> DEFINE a == [IdleRun EXCEPT !.pc = "load", !.job = j, !.kind = "retry"]
           f == [run EXCEPT ![r] = a]
<1>1. /\ a \in RunType /\ a.pc = "load" /\ a.job = j /\ a.batch = {}
  BY IdleRunType DEF RunType, IdleRun, PCs, Kinds
<1>2. job[j] \in Row /\ job' = [job EXCEPT ![j] = RetriedRow(job[j], q)]
  BY DEF Retry, TypeOK, NoRow
<1>3. RetriedRow(job[j], q) \in Row
  BY <1>2, RetriedRowType, InputAssumption
<1>4. \/ run' = Postponed(f, j) /\ loop' = r
      \/ run' = Postponed(run, j) /\ UNCHANGED loop
  BY DEF Retry
<1> HIDE DEF a
<1>5. f \in [Runners -> RunType] /\ run \in [Runners -> RunType]
  BY <1>1 DEF TypeOK
<1>6. \A s \in Runners : f[s] = IF s = r THEN a ELSE run[s]
  BY DEF TypeOK
<1> HIDE DEF f
<1>7. job' \in [Jobs -> Row \cup {NoRow}] /\ RowsStay /\ job'[j] \in Row
  BY <1>2, <1>3 DEF TypeOK, RowsStay
<1>8. Linked(a, job') /\ Linked(run[r], job')
  BY <1>1, <1>7, RunFacts, LinkedStays DEF Linked, Refreshed
<1>9. /\ run' \in [Runners -> RunType]
      /\ \/ \A s \in Runners : SameLinks(run'[s], f[s])
         \/ \A s \in Runners : SameLinks(run'[s], run[s])
  BY <1>4, <1>5, PostponedFacts
<1>10. /\ \A s \in Runners \ {r} : SameLinks(run'[s], run[s])
       /\ SameLinks(run'[r], run[r]) \/ SameLinks(run'[r], a)
  BY <1>9, <1>6 DEF SameLinks
<1>11. Linked(run'[r], job')
  BY <1>8, <1>10 DEF SameLinks, Linked
<1>12. loop' \in Runners \cup {None}
  BY <1>4 DEF TypeOK
<1>13. UNCHANGED <<audit, ten, channels, cancel, lost, crashes>>
  BY DEF Retry
<1> QED
  BY <1>7, <1>9, <1>10, <1>11, <1>12, <1>13, RunnerStep DEF TypeOK

(* A batch holds existing jobs only.                                       *)
LEMMA TickListTypeOK ==
  ASSUME TypeOK, NEW r \in Runners, TickList(r)
  PROVE  TypeOK'
<1> DEFINE B == {j \in QueuedJobs :
                   Cardinality({i \in QueuedJobs : i <= j}) <= TickLimit}
           a == [IdleRun EXCEPT !.pc = "tick", !.kind = "tick", !.batch = B]
<1>1. run' = [run EXCEPT ![r] = a]
  BY DEF TickList
<1>2. B \in SUBSET Jobs /\ \A j \in B : job[j] \in Row
  BY DEF QueuedJobs, TypeOK, NoRow
<1> HIDE DEF B
<1>3. a \in RunType /\ a.pc = "tick" /\ a.batch = B
  BY <1>2, IdleRunType DEF RunType, IdleRun, PCs, Kinds
<1> HIDE DEF a
<1>4. Linked(a, job)
  BY <1>2, <1>3 DEF Linked, Executing, Phases, Refreshed
<1> QED
  BY <1>1, <1>3, <1>4, RunnerOnlyStep DEF TickList

(* The next job of the batch exists.                                       *)
LEMMA TickNextTypeOK ==
  ASSUME TypeOK, NEW r \in Runners, TickNext(r)
  PROVE  TypeOK'
<1>1. run[r] \in RunType /\ Linked(run[r], job)
  BY RunFacts
<1>2. PICK j \in run[r].batch :
        LET rest == [run[r] EXCEPT !.batch = @ \ {j}, !.late = @ \ {j}]
        IN \/ /\ run' = [run EXCEPT ![r] = Rest(rest)]
              /\ loop' \in {None, r}
           \/ /\ run' = [run EXCEPT ![r] = [rest EXCEPT !.pc = "load",
                                                        !.job = j]]
              /\ UNCHANGED loop
  BY DEF TickNext
<1> DEFINE rest == [run[r] EXCEPT !.batch = @ \ {j}, !.late = @ \ {j}]
           a == [rest EXCEPT !.pc = "load", !.job = j]
<1>3. j \in Jobs /\ job[j] \in Row
  BY <1>1 DEF Linked, RunType
<1>4. /\ rest \in RunType /\ rest.pc = run[r].pc
      /\ rest.batch = run[r].batch \ {j}
  BY <1>1 DEF RunType
<1>5. UNCHANGED <<job, audit, ten, channels, cancel, lost, crashes>>
  BY DEF TickNext
<1>6. CASE run' = [run EXCEPT ![r] = Rest(rest)] /\ loop' \in {None, r}
  <2> HIDE DEF rest
  <2>1. /\ Rest(rest) \in RunType /\ Rest(rest).pc \in {"idle", "tick"}
        /\ Rest(rest).batch = run[r].batch \ {j}
    BY <1>4, RestFacts
  <2>2. Linked(Rest(rest), job)
    BY <1>1, <2>1 DEF Linked, Executing, Refreshed, Phases
  <2> QED
    BY <1>5, <1>6, <2>1, <2>2, RunnerOnlyStep
<1>7. CASE run' = [run EXCEPT ![r] = a] /\ UNCHANGED loop
  <2>1. /\ a \in RunType /\ a.pc = "load" /\ a.job = j
        /\ a.batch = run[r].batch \ {j}
    <3> HIDE DEF rest
    <3> QED
      BY <1>3, <1>4 DEF RunType, PCs
  <2> HIDE DEF a
  <2>2. Linked(a, job)
    BY <1>1, <1>3, <2>1 DEF Linked, Refreshed
  <2>3. loop' \in Runners \cup {None}
    BY <1>7 DEF TypeOK
  <2> QED
    BY <1>5, <1>7, <2>1, <2>2, <2>3, RunnerOnlyStep
<1> QED
  BY <1>2, <1>6, <1>7

(* A refused coroutine is idle.                                            *)
LEMMA RefuseTypeOK ==
  ASSUME TypeOK, NEW r \in Runners, Refuse(r)
  PROVE  TypeOK'
BY IdleRunType, IdleLinked, RunnerOnlyStep DEF Refuse

(* The guards passed: the session holds the row.                           *)
LEMMA LoadTypeOK ==
  ASSUME TypeOK, NEW r \in Runners, Load(r)
  PROVE  TypeOK'
<1> DEFINE row == job[run[r].job]
           a == [run[r] EXCEPT !.pc = "start", !.obj = row, !.req = row.req]
<1>1. run[r] \in RunType /\ Linked(run[r], job) /\ run[r].pc = "load"
  BY RunFacts DEF Load
<1>2. row \in Row /\ row.req \in ReqType /\ run[r].job \in Jobs
  BY <1>1 DEF Linked, Row
<1>3. UNCHANGED <<job, audit, ten, channels, cancel, lost, crashes>>
  BY DEF Load
<1>4. \/ run' = [run EXCEPT ![r] = Rest(run[r])] /\ loop' = LoopAfter(r)
      \/ run' = [run EXCEPT ![r] = a] /\ UNCHANGED loop
  BY DEF Load, TypeOK
<1>5. CASE run' = [run EXCEPT ![r] = Rest(run[r])] /\ loop' = LoopAfter(r)
  BY <1>1, <1>3, <1>5, RestFacts, RestLinked, RunnerOnlyStep DEF LoopAfter
<1>6. CASE run' = [run EXCEPT ![r] = a] /\ UNCHANGED loop
  <2> HIDE DEF row
  <2>1. /\ a \in RunType /\ a.pc = "start" /\ a.job = run[r].job
        /\ a.obj = row /\ a.batch = run[r].batch
    BY <1>1, <1>2 DEF RunType, PCs
  <2> HIDE DEF a
  <2>2. Linked(a, job)
    BY <1>1, <1>2, <2>1 DEF Linked, row
  <2>3. loop' \in Runners \cup {None}
    BY <1>6 DEF TypeOK
  <2> QED
    BY <1>3, <1>6, <2>1, <2>2, <2>3, RunnerOnlyStep
<1> QED
  BY <1>4, <1>5, <1>6

(* The commit that opens an attempt writes a row and an event.             *)
LEMMA StartTypeOK ==
  ASSUME TypeOK, NEW r \in Runners, Start(r)
  PROVE  TypeOK'
<1> DEFINE j == run[r].job
<1>1. run[r] \in RunType /\ Linked(run[r], job) /\ run[r].pc = "start"
  BY RunFacts DEF Start
<1>2. j \in Jobs /\ job[j] \in Row /\ run[r].obj \in Row
  BY <1>1 DEF Linked
<1>3. StartedRow(job[j], run[r].obj) \in Row
  <2>1. run[r].req \in ReqType
    BY <1>1 DEF RunType
  <2> QED
    BY <1>2, <2>1, RowTypes
<1>4. /\ job' = [job EXCEPT ![j] = StartedRow(job[j], run[r].obj)]
      /\ audit' = [audit EXCEPT ![j].started = audit[j].started + 1]
      /\ Proceed(r, "deploy")
      /\ UNCHANGED <<ten, channels, cancel, loop, lost, crashes>>
  BY DEF Start
<1> HIDE DEF j
<1>5. job' \in [Jobs -> Row \cup {NoRow}] /\ RowsStay
  BY <1>2, <1>3, <1>4 DEF TypeOK, RowsStay
<1>6. audit' \in [Jobs -> [started : Nat, succeeded : Nat, failed : Nat]]
  BY <1>2, <1>4 DEF TypeOK
<1> QED
  <2>1. /\ ten' \in [Tenants -> TenantType] /\ channels' \in [Tenants -> Nat]
        /\ loop' \in Runners \cup {None}
    BY <1>4 DEF TypeOK
  <2>2. "deploy" \in Phases \cup {"raised"}
    BY DEF Phases
  <2> QED
    BY <1>1, <1>4, <1>5, <1>6, <2>1, <2>2, ProceedTypeOK

(* So does the commit of a success, and it activates the tenant.           *)
LEMMA CompleteTypeOK ==
  ASSUME TypeOK, NEW r \in Runners, Complete(r)
  PROVE  TypeOK'
<1> DEFINE j == run[r].job
<1>1. /\ run[r] \in RunType /\ Linked(run[r], job) /\ run[r].req \in ReqType
      /\ run[r].pc = "complete"
  BY RunFacts DEF Complete, RunType
<1>2. j \in Jobs /\ job[j] \in Row /\ TenantOf(r) \in Tenants
  BY <1>1, TenantOfType DEF Linked, Executing, Phases
<1>3. SucceededRow(job[j], run[r].req) \in Row
  BY <1>1, <1>2, RowTypes
<1>4. /\ job' = [job EXCEPT ![j] = SucceededRow(job[j], run[r].req)]
      /\ audit' = [audit EXCEPT ![j].succeeded = audit[j].succeeded + 1]
      /\ run' = [run EXCEPT ![r] = Rest(run[r])]
      /\ loop' = LoopAfter(r)
      /\ UNCHANGED <<channels, cancel, lost, crashes>>
  BY DEF Complete
<1> HIDE DEF j
<1>5. job' \in [Jobs -> Row \cup {NoRow}] /\ RowsStay
  BY <1>2, <1>3, <1>4 DEF TypeOK, RowsStay
<1>6. audit' \in [Jobs -> [started : Nat, succeeded : Nat, failed : Nat]]
  BY <1>2, <1>4 DEF TypeOK
<1>7. ten' \in [Tenants -> TenantType]
  <2> DEFINE t == TenantOf(r)
             s == IF MockDeploy(r) THEN "active_mock" ELSE "active"
  <2>1. ten' = [ten EXCEPT ![t].status = s]
    BY DEF Complete
  <2>2. s \in {"active", "active_mock"}
    OBVIOUS
  <2>3. t \in Tenants
    BY <1>2
  <2> HIDE DEF t, s
  <2>4. ten[t] \in TenantType
    BY <2>3 DEF TypeOK
  <2>5. [ten[t] EXCEPT !.status = s] \in TenantType
    BY <2>2, <2>4 DEF TenantType
  <2> QED
    BY <2>1, <2>3, <2>5 DEF TypeOK
<1>8. /\ run' \in [Runners -> RunType] /\ run'[r] = Rest(run[r])
      /\ \A s \in Runners \ {r} : SameLinks(run'[s], run[s])
  BY <1>1, <1>4, RestFacts DEF TypeOK, SameLinks
<1>9. Linked(run'[r], job')
  BY <1>1, <1>5, <1>8, RestLinked, LinkedStays
<1>10. loop' \in Runners \cup {None} /\ channels' \in [Tenants -> Nat]
  BY <1>4 DEF LoopAfter, TypeOK
<1> QED
  BY <1>4, <1>5, <1>6, <1>7, <1>8, <1>9, <1>10, RunnerStep

(* Every outcome of kubectl.                                               *)
LEMMA DeployTypeOK ==
  ASSUME TypeOK, NEW r \in Runners,
         \/ DeployOk(r) \/ DeployRefused(r)
         \/ \E queried \in BOOLEAN : DeployTimeout(r, queried)
  PROVE  TypeOK'
<1> DEFINE t == TenantOf(r)
<1>1. run[r].pc = "deploying"
  BY DEF DeployOk, DeployRefused, DeployTimeout, Resumes
<1>2. run[r].pc \in Executing /\ run[r].obj \in Row /\ t \in Tenants
  BY <1>1, TenantOfType, RunFacts DEF Executing, Refreshed, Linked
<1>3. {"init", "raised"} \subseteq Phases \cup {"raised"}
  BY DEF Phases
<1>4. CASE DeployOk(r)
  <2> DEFINE i == IF MockDeploy(r) THEN "running_mock" ELSE "running"
             s == IF MockDeploy(r) THEN "runtime_ready_mock"
                  ELSE "runtime_ready"
  <2>1. /\ ten' = [ten EXCEPT ![t].instance = i, ![t].status = s]
        /\ Proceed(r, "init")
        /\ UNCHANGED <<job, audit, channels, cancel, loop, lost, crashes>>
    BY <1>4 DEF DeployOk
  <2>2. /\ i \in {"running", "running_mock"}
        /\ s \in {"runtime_ready", "runtime_ready_mock"}
    OBVIOUS
  <2> HIDE DEF t, i, s
  <2>3. ten' \in [Tenants -> TenantType]
    <3>1. ten[t] \in TenantType
      BY <1>2 DEF TypeOK
    <3>2. [ten[t] EXCEPT !.instance = i, !.status = s] \in TenantType
      BY <3>1, <2>2 DEF TenantType
    <3> QED
      BY <1>2, <2>1, <3>1, <3>2 DEF TypeOK
  <2> QED
    BY <1>2, <1>3, <2>1, <2>3, ProceedTypeOK DEF TypeOK, RowsStay
<1>5. CASE DeployRefused(r)
  <2>1. PICK bad \in {"apply_failed", "not_ready", "resource_query_failed"} :
          ten' = [ten EXCEPT
            ![t].instance = bad,
            ![t].status = IF bad = "apply_failed" THEN bad
                          ELSE IF bad = "resource_query_failed"
                               THEN "runtime_ready" ELSE @]
    BY <1>5 DEF DeployRefused
  <2>2. /\ Proceed(r, "raised")
        /\ UNCHANGED <<job, audit, channels, cancel, loop, lost, crashes>>
    BY <1>5 DEF DeployRefused
  <2> HIDE DEF t
  <2>3. ten' \in [Tenants -> TenantType]
    <3>1. ten[t] \in TenantType
      BY <1>2 DEF TypeOK
    <3>2. [ten[t] EXCEPT
            !.instance = bad,
            !.status = IF bad = "apply_failed" THEN bad
                       ELSE IF bad = "resource_query_failed"
                            THEN "runtime_ready" ELSE @] \in TenantType
      BY <3>1, <2>1 DEF TenantType
    <3> QED
      BY <1>2, <2>1, <3>1, <3>2 DEF TypeOK
  <2> QED
    BY <1>2, <1>3, <2>2, <2>3, ProceedTypeOK DEF TypeOK, RowsStay
<1>6. CASE \E queried \in BOOLEAN : DeployTimeout(r, queried)
  <2>1. /\ \/ ten' = [ten EXCEPT ![t].instance = "running",
                                 ![t].status = "runtime_ready"]
           \/ ten' = ten
        /\ FailAttempt(r, run[r].obj)
        /\ UNCHANGED <<channels, cancel, lost, crashes>>
    BY <1>6 DEF DeployTimeout
  <2> HIDE DEF t
  <2>2. ten' \in [Tenants -> TenantType]
    <3>1. ten[t] \in TenantType
      BY <1>2 DEF TypeOK
    <3>2. [ten[t] EXCEPT !.instance = "running",
                         !.status = "runtime_ready"] \in TenantType
      BY <3>1, <2>1 DEF TenantType
    <3> QED
      BY <1>2, <2>1, <3>1, <3>2 DEF TypeOK
  <2> QED
    BY <1>2, <2>1, <2>2, FailAttemptTypeOK DEF TypeOK
<1> QED
  BY <1>4, <1>5, <1>6

(* Every outcome of create_token.                                          *)
LEMMA InitTypeOK ==
  ASSUME TypeOK, NEW r \in Runners, InitOk(r) \/ InitError(r)
  PROVE  TypeOK'
<1> DEFINE t == TenantOf(r)
<1>1. run[r].pc = "initing"
  BY DEF InitOk, InitError, Resumes
<1>2. run[r].pc \in Executing /\ run[r].obj \in Row /\ t \in Tenants
  BY <1>1, TenantOfType, RunFacts DEF Executing, Refreshed, Linked
<1>3. CASE InitOk(r)
  <2>1. /\ ten' = [ten EXCEPT ![t].instance = Initialized,
                              ![t].status = Initialized]
        /\ loop' = r
        /\ Proceed(r, "bind")
        /\ UNCHANGED <<job, audit, channels, cancel, lost, crashes>>
    BY <1>3 DEF InitOk
  <2>2. Initialized \in {"newapi_initialized", "newapi_initialized_mock"}
    BY DEF Initialized
  <2>3. "bind" \in Phases \cup {"raised"}
    BY DEF Phases
  <2> HIDE DEF t
  <2>4. ten' \in [Tenants -> TenantType]
    <3>1. ten[t] \in TenantType
      BY <1>2 DEF TypeOK
    <3>2. [ten[t] EXCEPT !.instance = Initialized,
                         !.status = Initialized] \in TenantType
      BY <3>1, <2>2 DEF TenantType
    <3> QED
      BY <1>2, <2>1, <3>1, <3>2 DEF TypeOK
  <2> QED
    BY <1>2, <2>1, <2>3, <2>4, ProceedTypeOK DEF TypeOK, RowsStay
<1>4. CASE InitError(r)
  BY <1>2, <1>4, FailAttemptTypeOK DEF InitError, TypeOK
<1> QED
  BY <1>3, <1>4

(* Every outcome of create_channel.                                        *)
LEMMA BindTypeOK ==
  ASSUME TypeOK, NEW r \in Runners, NEW made \in BOOLEAN,
         BindOk(r, made) \/ BindError(r, made)
  PROVE  TypeOK'
<1> DEFINE t == TenantOf(r)
<1>1. run[r].pc = "binding"
  BY DEF BindOk, BindError, Resumes
<1>2. run[r].pc \in Executing /\ run[r].obj \in Row /\ t \in Tenants
  BY <1>1, TenantOfType, RunFacts DEF Executing, Refreshed, Linked
<1>3. channels' \in [Tenants -> Nat]
  <2>1. channels' \in {channels, [channels EXCEPT ![t] = channels[t] + 1]}
    BY DEF BindOk, BindError
  <2> HIDE DEF t
  <2> QED
    BY <1>2, <2>1 DEF TypeOK
<1>4. CASE BindOk(r, made)
  <2> DEFINE s == IF Bound = "bound" THEN "upstream_bound"
                  ELSE "upstream_bound_mock"
  <2>1. /\ ten' = [ten EXCEPT ![t].upstream = Bound, ![t].status = s]
        /\ loop' = r
        /\ Proceed(r, "domains")
        /\ UNCHANGED <<job, audit, cancel, lost, crashes>>
    BY <1>4 DEF BindOk
  <2>2. /\ Bound \in {"bound", "bound_mock"}
        /\ s \in {"upstream_bound", "upstream_bound_mock"}
    BY DEF Bound
  <2>3. "domains" \in Phases \cup {"raised"}
    BY DEF Phases
  <2> HIDE DEF t, s
  <2>4. ten' \in [Tenants -> TenantType]
    <3>1. ten[t] \in TenantType
      BY <1>2 DEF TypeOK
    <3>2. [ten[t] EXCEPT !.upstream = Bound, !.status = s] \in TenantType
      BY <3>1, <2>2 DEF TenantType
    <3> QED
      BY <1>2, <2>1, <3>1, <3>2 DEF TypeOK
  <2> QED
    BY <1>2, <1>3, <2>1, <2>3, <2>4, ProceedTypeOK DEF TypeOK, RowsStay
<1>5. CASE BindError(r, made)
  BY <1>2, <1>3, <1>5, FailAttemptTypeOK DEF BindError, TypeOK
<1> QED
  BY <1>4, <1>5

(* The domain phase keeps TypeOK.                                          *)
LEMMA DomainsTypeOK ==
  ASSUME TypeOK, NEW r \in Runners, Domains(r)
  PROVE  TypeOK'
<1>1. run[r].pc \in Executing /\ "complete" \in Phases \cup {"raised"}
  BY DEF Domains, Executing, Phases
<1> QED
  BY <1>1, ProceedTypeOK DEF Domains, TypeOK, RowsStay

(* Every step a coroutine takes on its own keeps TypeOK.                   *)
LEMMA AdvanceTypeOK ==
  ASSUME TypeOK, NEW r \in Runners, Advance(r)
  PROVE  TypeOK'
<1>1. CASE Insert(r) \/ TickNext(r) \/ Refuse(r) \/ Load(r) \/ Start(r)
  BY <1>1, InsertTypeOK, TickNextTypeOK, RefuseTypeOK, LoadTypeOK, StartTypeOK
<1>2. CASE Fail(r)
  <2>1. run[r].pc \in Executing /\ run[r].obj \in Row
    BY <1>2, RunFacts DEF Fail, Executing, Refreshed, Linked
  <2> QED
    BY <1>2, <2>1, FailAttemptTypeOK DEF Fail, TypeOK
<1>3. CASE MaybeFail(r) \/ Handle(r)
  <2>1. /\ run[r].pc \in Executing /\ Refresh(r, "failing")
        /\ UNCHANGED <<job, audit, ten, channels, cancel, loop, lost, crashes>>
    BY <1>3 DEF MaybeFail, Handle, Executing
  <2>2. "failing" \in Refreshed /\ loop' \in Runners \cup {None}
    BY <2>1 DEF Refreshed, TypeOK
  <2> QED
    BY <2>1, <2>2, RefreshTypeOK
<1>4. CASE DeployCall(r) \/ InitCall(r) \/ BindCall(r)
  <2>1. PICK phase \in Phases, calling \in Refreshed :
          \E real : Call(r, phase, calling, real)
    BY <1>4 DEF DeployCall, InitCall, BindCall, Phases, Refreshed
  <2>2. /\ run[r].pc \in Executing /\ Refresh(r, calling)
        /\ loop' \in Runners \cup {None}
        /\ UNCHANGED <<job, audit, ten, channels, cancel, lost, crashes>>
    BY <2>1 DEF Call, Released, Executing
  <2> QED
    BY <2>1, <2>2, RefreshTypeOK
<1>5. CASE Complete(r)
  BY <1>5, CompleteTypeOK
<1>6. CASE \/ DeployOk(r) \/ DeployRefused(r)
           \/ \E queried \in BOOLEAN : DeployTimeout(r, queried)
  BY <1>6, DeployTypeOK
<1>7. CASE InitOk(r) \/ InitError(r)
  BY <1>7, InitTypeOK
<1>8. CASE \E made \in BOOLEAN : BindOk(r, made) \/ BindError(r, made)
  BY <1>8, BindTypeOK
<1>9. CASE Domains(r)
  BY <1>9, DomainsTypeOK
<1> QED
  BY <1>1, <1>2, <1>3, <1>4, <1>5, <1>6, <1>7, <1>8, <1>9 DEF Advance, Execute

(* Both steps of a cancel thread keep TypeOK.                              *)
LEMMA CancelTypeOK ==
  ASSUME TypeOK, NEW c \in Cancellers,
         (\E j \in Jobs : CancelLoad(c, j)) \/ CancelCommit(c)
  PROVE  TypeOK'
<1>1. ASSUME NEW j \in Jobs, CancelLoad(c, j)
      PROVE  TypeOK'
  <2>1. job[j] \in Row
    BY <1>1 DEF CancelLoad, TypeOK, NoRow
  <2>2. /\ cancel' = [cancel EXCEPT ![c] = [job |-> j, obj |-> job[j]]]
        /\ UNCHANGED <<job, audit, ten, channels, run, loop, lost, crashes>>
    BY <1>1 DEF CancelLoad
  <2>3. cancel' \in [Cancellers -> {NoCancel} \cup [job : Jobs, obj : Row]]
    BY <2>1, <2>2 DEF TypeOK
  <2>4. \A d \in Cancellers :
          cancel'[d] # NoCancel => job'[cancel'[d].job] \in Row
    BY <2>1, <2>2 DEF TypeOK
  <2> QED
    BY <2>2, <2>3, <2>4 DEF TypeOK
<1>2. CASE CancelCommit(c)
  <2> DEFINE j == cancel[c].job
  <2>1. /\ job' = [job EXCEPT ![j] = CancelledRow(job[j], cancel[c].obj)]
        /\ cancel[c] # NoCancel
        /\ cancel' = [cancel EXCEPT ![c] = NoCancel]
        /\ UNCHANGED <<audit, ten, channels, run, loop, lost, crashes>>
    BY <1>2 DEF CancelCommit
  <2>2. j \in Jobs /\ job[j] \in Row /\ cancel[c].obj \in Row
    BY <2>1 DEF TypeOK
  <2>3. CancelledRow(job[j], cancel[c].obj) \in Row
    <3>1. NoReq \in ReqType
      BY DEF NoReq, ReqType
    <3> QED
      BY <2>2, <3>1, RowTypes
  <2> HIDE DEF j
  <2>4. job' \in [Jobs -> Row \cup {NoRow}] /\ RowsStay
    BY <2>1, <2>2, <2>3 DEF TypeOK, RowsStay
  <2>5. cancel' \in [Cancellers -> {NoCancel} \cup [job : Jobs, obj : Row]]
    BY <2>1 DEF TypeOK
  <2>6. \A d \in Cancellers :
          cancel'[d] # NoCancel => job'[cancel'[d].job] \in Row
    BY <2>1, <2>4 DEF TypeOK, RowsStay
  <2>7. \A r \in Runners : Linked(run[r], job')
    BY <2>4, RunFacts, LinkedStays
  <2> QED
    BY <2>1, <2>4, <2>5, <2>6, <2>7 DEF TypeOK, Linked
<1> QED
  BY <1>1, <1>2

(* Only finitely many attempts are open, so they can be counted.           *)
LEMMA OpenRunnersFinite ==
  ASSUME NEW j
  PROVE  IsFiniteSet(OpenRunners(j)) /\ Cardinality(OpenRunners(j)) \in Nat
<1>1. OpenRunners(j) \subseteq Runners
  BY DEF OpenRunners
<1> QED
  BY <1>1, ActorsAssumption, FS_Subset, FS_CardinalityType

(* A crash leaves finitely many channels behind.                           *)
LEMMA PostedFinite ==
  ASSUME NEW made \in Posted, NEW t
  PROVE  /\ IsFiniteSet({r \in made : TenantOf(r) = t})
         /\ Cardinality({r \in made : TenantOf(r) = t}) \in Nat
<1>1. {r \in made : TenantOf(r) = t} \in SUBSET Runners
  BY DEF Posted
<1> QED
  BY <1>1, ActorsAssumption, FS_Subset, FS_CardinalityType

(* A crash keeps TypeOK.                                                   *)
LEMMA CrashTypeOK ==
  ASSUME TypeOK, Crash
  PROVE  TypeOK'
<1>1. lost' \in [Jobs -> Nat]
  <2>1. \A j \in Jobs : lost[j] + Cardinality(OpenRunners(j)) \in Nat
    BY OpenRunnersFinite DEF TypeOK
  <2> QED
    BY <2>1 DEF Crash
<1>2. /\ run' = [r \in Runners |-> IdleRun]
      /\ cancel' = [c \in Cancellers |-> NoCancel]
      /\ loop' = None /\ crashes' = crashes + 1
      /\ UNCHANGED <<job, audit, ten>>
  BY DEF Crash
<1>3. \A r \in Runners : run'[r] \in RunType /\ Linked(run'[r], job')
  BY <1>2, IdleRunType, IdleLinked
<1>4. channels' \in [Tenants -> Nat]
  <2>1. PICK made \in Posted :
          channels' = [t \in Tenants |-> channels[t]
                         + Cardinality({r \in made : TenantOf(r) = t})]
    BY DEF Crash
  <2> DEFINE n(t) == Cardinality({r \in made : TenantOf(r) = t})
  <2>2. \A t \in Tenants : n(t) \in Nat
    BY PostedFinite
  <2>3. channels' = [t \in Tenants |-> channels[t] + n(t)]
    BY <2>1
  <2> HIDE DEF n
  <2> QED
    BY <2>2, <2>3 DEF TypeOK
<1> QED
  BY <1>1, <1>2, <1>3, <1>4 DEF TypeOK, Linked

(* TypeOK holds initially.                                                 *)
LEMMA InitType == Init => TypeOK
<1> SUFFICES ASSUME Init PROVE TypeOK
  OBVIOUS
<1>1. \A r \in Runners : run[r] \in RunType /\ Linked(run[r], job)
  BY IdleRunType, IdleLinked DEF Init
<1>2. ten \in [Tenants -> TenantType]
  BY DEF Init, TenantType
<1> QED
  BY <1>1, <1>2 DEF Init, TypeOK, Linked

(* TypeOK is inductive on its own.                                         *)
LEMMA TypeStep == TypeOK /\ [Next]_vars => TypeOK'
<1> SUFFICES ASSUME TypeOK, [Next]_vars PROVE TypeOK'
  OBVIOUS
<1>1. CASE UNCHANGED vars
  BY <1>1 DEF vars, TypeOK
<1>2. ASSUME NEW r \in Runners, Arrive(r) PROVE TypeOK'
  BY <1>2, SubmitTypeOK, RunRequestTypeOK, RetryTypeOK, TickListTypeOK
     DEF Arrive
<1>3. ASSUME NEW r \in Runners, Advance(r) PROVE TypeOK'
  BY <1>3, AdvanceTypeOK
<1> QED
  BY <1>1, <1>2, <1>3, CancelTypeOK, CrashTypeOK DEF Next

(* Type correctness for every value of the constants: rows, events,        *)
(* tenants, coroutines and sessions keep their types, and no coroutine or  *)
(* thread of workflow_service.py ever works on a job row that does not     *)
(* exist.                                                                  *)
THEOREM TypeCorrect == Spec => []TypeOK
BY InitType, TypeStep, PTL DEF Spec

=============================================================================
