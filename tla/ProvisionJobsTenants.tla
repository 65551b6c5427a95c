------------------------ MODULE ProvisionJobsTenants ------------------------
(***************************************************************************)
(* What the jobs do to their tenants, for every value of the constants: an *)
(* active tenant is bound (any adapters) and initialized (mock adapters),  *)
(* and New API never holds more channels of a tenant than attempts were    *)
(* made on its jobs (any adapters, forced runs, cancels and crashes).      *)
(*                                                                         *)
(* TenantEffect and ChannelEffect say what the steps of a runner do to     *)
(* ten and channels; the invariants follow from them by cases.             *)
(***************************************************************************)
EXTENDS ProvisionJobsRefinement

ActiveStatuses == {"active", "active_mock"}
BoundStatuses  == {"bound", "bound_mock"}
InitStatuses   == {"newapi_initialized", "newapi_initialized_mock"}

(* No real adapter anywhere.                                               *)
AllMock == ~RealK8s /\ ~RealNewAPI /\ ~RealSub2API

(* The coroutines past the bind, and past the init.                        *)
PastBind == {"domains", "complete"}
PastInit == {"bind", "binding"} \cup PastBind

(* A row that exists keeps its tenant.                                     *)
TenantsKept ==
  \A j \in Jobs : job[j] \in Row => job'[j].tenant = job[j].tenant

(* The tenant a coroutine works for; the rows of other tenants.            *)
OthersKept(r) == \A t \in Tenants \ {TenantOf(r)} : ten'[t] = ten[t]

(* What a step of an attempt may write to the tenant it works for.         *)
TenantWrite(r) ==
  LET old == ten[TenantOf(r)]
      new == ten'[TenantOf(r)]
  IN /\ new.upstream \in {old.upstream} \cup BoundStatuses
     /\ new.status \in ActiveStatuses =>
          \/ new.status = old.status
          \/ run[r].pc = "complete" /\ Succeeded(r)
     /\ run'[r].pc \in PastBind =>
          run[r].pc = "domains" \/ new.upstream \in BoundStatuses

(* The same for the instance, when all adapters are mocks.                 *)
InstanceWrite(r) ==
  LET old == ten[TenantOf(r)]
      new == ten'[TenantOf(r)]
  IN /\ new.status \in ActiveStatuses => new.instance = old.instance
     /\ run'[r].pc \in PastInit =>
          \/ new.instance \in InitStatuses
          \/ run[r].pc \in PastInit /\ new.instance = old.instance

(* The commit of a phase: the columns of its tenant, and no other tenant.  *)
Written(r, s, i, u) ==
  LET new == ten'[TenantOf(r)]
  IN OthersKept(r) /\ new.status = s /\ new.instance = i /\ new.upstream = u

(* Each column that a phase assigns, with the others as they were.         *)
LEMMA Assigned ==
  ASSUME TypeOK, NEW r \in Runners, run[r].pc \in Executing, NEW x, NEW y
  PROVE  LET t == TenantOf(r)
         IN /\ ten' = [ten EXCEPT ![t].status = x] =>
                 Written(r, x, ten[t].instance, ten[t].upstream)
            /\ ten' = [ten EXCEPT ![t].instance = y, ![t].status = x] =>
                 Written(r, x, y, ten[t].upstream)
            /\ ten' = [ten EXCEPT ![t].upstream = y, ![t].status = x] =>
                 Written(r, x, ten[t].instance, y)
<1> DEFINE t == TenantOf(r)
           row == ten[t]
           a == [row EXCEPT !.status = x]
           b == [row EXCEPT !.instance = y, !.status = x]
           c == [row EXCEPT !.upstream = y, !.status = x]
<1>1. t \in Tenants /\ row \in TenantType
  BY TenantOfType DEF TypeOK
<1> HIDE DEF t
<1>2. ten \in [Tenants -> TenantType]
  BY DEF TypeOK
<1>3. /\ [ten EXCEPT ![t].status = x] = [ten EXCEPT ![t] = a]
      /\ [ten EXCEPT ![t].instance = y, ![t].status = x] = [ten EXCEPT ![t] = b]
      /\ [ten EXCEPT ![t].upstream = y, ![t].status = x] = [ten EXCEPT ![t] = c]
  BY <1>1, <1>2
<1>4. /\ a.status = x /\ a.instance = row.instance /\ a.upstream = row.upstream
      /\ b.status = x /\ b.instance = y /\ b.upstream = row.upstream
      /\ c.status = x /\ c.instance = row.instance /\ c.upstream = y
  <2> HIDE DEF row
  <2> QED
    BY <1>1 DEF TenantType
<1> HIDE DEF a, b, c
<1>5. \A d : ten' = [ten EXCEPT ![t] = d] =>
        (\A o \in Tenants \ {t} : ten'[o] = ten[o]) /\ ten'[t] = d
  BY <1>1, <1>2
<1> QED
  BY <1>3, <1>4, <1>5 DEF Written, OthersKept, t

(* A step inside an attempt that keeps the tenants.                        *)
LEMMA StillWrite ==
  ASSUME NEW r \in Runners, UNCHANGED ten,
         run'[r].pc \in PastBind => run[r].pc = "domains"
  PROVE  OthersKept(r) /\ TenantWrite(r)
<1>1. OthersKept(r)
  BY DEF OthersKept
<1>2. ten'[TenantOf(r)] = ten[TenantOf(r)]
  OBVIOUS
<1> QED
  BY <1>1, <1>2 DEF TenantWrite

(* The phases, each with what it writes.                                   *)
LEMMA DeployEffect ==
  ASSUME TypeOK, NEW r \in Runners,
         \/ DeployOk(r) \/ DeployRefused(r)
         \/ \E queried \in BOOLEAN : DeployTimeout(r, queried)
  PROVE  /\ run[r].pc \in Executing /\ OthersKept(r) /\ TenantWrite(r)
         /\ AllMock => InstanceWrite(r) /\ run'[r].pc = "init" /\ loop' = loop
<1> DEFINE t == TenantOf(r)
           old == ten[t]
<1>1. run[r].pc \in Executing /\ run[r].pc \in Refreshed
  BY DEF DeployOk, DeployRefused, DeployTimeout, Resumes, Executing, Refreshed
<1>2. old \in TenantType
  BY <1>1, TenantOfType DEF TypeOK
<1>3. AllMock => MockDeploy(r)
  BY DEF AllMock, MockDeploy
<1>4. CASE DeployOk(r)
  <2> DEFINE i == IF MockDeploy(r) THEN "running_mock" ELSE "running"
             s == IF MockDeploy(r) THEN "runtime_ready_mock" ELSE "runtime_ready"
  <2>1. ten' = [ten EXCEPT ![t].instance = i, ![t].status = s]
    BY <1>4 DEF DeployOk
  <2>2. s \notin ActiveStatuses
    BY DEF ActiveStatuses
  <2>3. run'[r].pc = "init" /\ loop' = loop
    BY <1>1, <1>4, InnerKind DEF DeployOk, Executing, Phases
  <2>4. Written(r, s, i, old.upstream)
    BY <1>1, <2>1, Assigned
  <2> HIDE DEF s, i
  <2> QED
    BY <1>1, <2>2, <2>3, <2>4
       DEF Written, TenantWrite, InstanceWrite, PastBind, PastInit
<1>5. CASE DeployRefused(r)
  <2>1. PICK i :
          ten' = [ten EXCEPT
                    ![t].instance = i,
                    ![t].status = IF i = "apply_failed" THEN i
                                  ELSE IF i = "resource_query_failed"
                                       THEN "runtime_ready"
                                  ELSE @]
    BY <1>5 DEF DeployRefused
  <2> DEFINE s == IF i = "apply_failed" THEN i
                  ELSE IF i = "resource_query_failed" THEN "runtime_ready"
                  ELSE old.status
  <2>a. ten' = [ten EXCEPT ![t].instance = i, ![t].status = s]
    <3>1. ten \in [Tenants -> TenantType] /\ t \in Tenants
      BY <1>1, TenantOfType DEF TypeOK
    <3> HIDE DEF t
    <3> QED
      BY <2>1, <3>1 DEF TenantType
  <2>b. s \in {old.status, "apply_failed", "runtime_ready"}
    OBVIOUS
  <2> HIDE DEF s
  <2>2. run'[r].pc = "raised"
    BY <1>1, <1>5, InnerKind DEF DeployRefused, Executing
  <2>3. Written(r, s, i, old.upstream)
    BY <1>1, <2>a, Assigned
  <2>4. ~AllMock
    BY <1>3, <1>5 DEF DeployRefused
  <2> QED
    BY <1>1, <2>b, <2>2, <2>3, <2>4
       DEF Written, TenantWrite, PastBind, ActiveStatuses
<1>6. ASSUME NEW queried \in BOOLEAN, DeployTimeout(r, queried)
      PROVE  OthersKept(r) /\ TenantWrite(r) /\ ~AllMock
  <2>1. run'[r].pc \notin PastBind
    BY <1>1, <1>6, FailKind DEF DeployTimeout, Failed, Ends, PastBind
  <2>2. ~AllMock
    BY <1>3, <1>6 DEF DeployTimeout
  <2>3. CASE queried
    <3>1. Written(r, "runtime_ready", "running", old.upstream)
      BY <1>1, <1>6, <2>3, Assigned DEF DeployTimeout
    <3> QED
      BY <2>1, <2>2, <3>1 DEF Written, TenantWrite, ActiveStatuses
  <2>4. CASE ~queried
    BY <1>6, <2>1, <2>2, <2>4, StillWrite DEF DeployTimeout
  <2> QED
    BY <2>3, <2>4
<1> QED
  BY <1>1, <1>4, <1>5, <1>6

LEMMA InitEffect ==
  ASSUME TypeOK, NEW r \in Runners, InitOk(r)
  PROVE  /\ run[r].pc \in Executing /\ OthersKept(r) /\ TenantWrite(r)
         /\ AllMock => InstanceWrite(r) /\ loop' = r
<1> DEFINE old == ten[TenantOf(r)]
<1>1. run[r].pc \in Executing
  BY DEF InitOk, Resumes, Executing, Refreshed
<1>2. Written(r, Initialized, Initialized, old.upstream)
  BY <1>1, Assigned DEF InitOk
<1>3. Initialized \in InitStatuses /\ Initialized \notin ActiveStatuses
  BY DEF Initialized, InitStatuses, ActiveStatuses
<1>4. run'[r].pc = "bind" /\ loop' = r
  BY <1>1, InnerKind DEF InitOk, Executing, Phases
<1> HIDE DEF old
<1> QED
  BY <1>1, <1>2, <1>3, <1>4
     DEF Written, TenantWrite, InstanceWrite, PastBind, old

LEMMA BindEffect ==
  ASSUME TypeOK, NEW r \in Runners, NEW made \in BOOLEAN, BindOk(r, made)
  PROVE  /\ run[r].pc \in Executing /\ OthersKept(r) /\ TenantWrite(r)
         /\ AllMock => InstanceWrite(r) /\ loop' = r
<1> DEFINE old == ten[TenantOf(r)]
           s == IF Bound = "bound" THEN "upstream_bound"
                ELSE "upstream_bound_mock"
<1>1. run[r].pc = "binding" /\ run[r].pc \in Executing
  BY DEF BindOk, Resumes, Executing, Refreshed
<1>2. Written(r, s, old.instance, Bound)
  BY <1>1, Assigned DEF BindOk
<1>3. s \notin ActiveStatuses /\ Bound \in BoundStatuses
  BY DEF Bound, BoundStatuses, ActiveStatuses
<1>4. run'[r].pc = "domains" /\ loop' = r
  BY <1>1, InnerKind DEF BindOk, Executing, Phases
<1> HIDE DEF old, s
<1> QED
  BY <1>1, <1>2, <1>3, <1>4
     DEF Written, TenantWrite, InstanceWrite, PastInit, PastBind, old

LEMMA ActivateEffect ==
  ASSUME TypeOK, NEW r \in Runners, Complete(r)
  PROVE  /\ run[r].pc \in Executing /\ OthersKept(r) /\ TenantWrite(r)
         /\ InstanceWrite(r) /\ run'[r].pc \notin Executing
<1> DEFINE old == ten[TenantOf(r)]
           s == IF MockDeploy(r) THEN "active_mock" ELSE "active"
<1>1. run[r].pc = "complete" /\ run[r].pc \in Executing /\ Succeeded(r)
  BY CompleteKind, PcFacts DEF Complete, Phases
<1>2. Written(r, s, old.instance, old.upstream)
  BY <1>1, Assigned DEF Complete
<1>3. run'[r].pc \in {"idle", "tick"}
  BY <1>1 DEF Succeeded, Ends
<1> HIDE DEF old, s
<1> QED
  BY <1>1, <1>2, <1>3, PcFacts
     DEF Written, TenantWrite, InstanceWrite, PastInit, PastBind, old

(* The steps inside an attempt that write no tenant.                       *)
LEMMA KeepEffect ==
  ASSUME TypeOK, LoopHeld, NEW r \in Runners,
         \/ MaybeFail(r) \/ Handle(r) \/ Fail(r) \/ Domains(r)
         \/ DeployCall(r) \/ InitCall(r) \/ BindCall(r)
         \/ InitError(r) \/ (\E made \in BOOLEAN : BindError(r, made))
  PROVE  /\ run[r].pc \in Executing /\ UNCHANGED ten
         /\ run'[r].pc \in PastBind => run[r].pc = "domains"
         /\ run'[r].pc \in PastInit => run[r].pc \in PastInit
         /\ AllMock /\ run'[r].pc \in Executing => loop' = r
<1>1. run[r].pc \in Held => loop = r
  BY DEF LoopHeld
<1>2. CASE MaybeFail(r) \/ Handle(r)
  <2>1. run[r].pc \in Phases \cup {"raised"} /\ loop' = loop
        /\ Refresh(r, "failing") /\ UNCHANGED ten
    BY <1>2 DEF MaybeFail, Handle
  <2>2. run'[r].pc = "failing" /\ run[r].pc \in Executing
    BY <2>1, InnerKind DEF Executing, Refreshed
  <2> QED
    BY <1>1, <2>1, <2>2 DEF PastBind, PastInit, Held
<1>3. CASE Domains(r)
  <2>1. run[r].pc = "domains" /\ loop' = loop /\ UNCHANGED ten
        /\ Proceed(r, "complete")
    BY <1>3 DEF Domains
  <2> QED
    BY <1>1, <2>1 DEF PastBind, PastInit, Held, Phases, Executing
<1>4. CASE DeployCall(r) \/ InitCall(r) \/ BindCall(r)
  <2>1. PICK phase \in {"deploy", "init", "bind"},
             calling \in {"deploying", "initing", "binding"}, real \in BOOLEAN :
          /\ Call(r, phase, calling, real)
          /\ calling = "binding" => phase = "bind"
          /\ AllMock => ~real
    <3>1. {RealNewAPI, RealSub2API} \subseteq BOOLEAN
          /\ (RealNewAPI \/ RealSub2API) \in BOOLEAN
      BY AdapterAssumption
    <3> QED
      BY <1>4, <3>1 DEF DeployCall, InitCall, BindCall, AllMock
  <2>2. /\ run[r].pc = phase /\ run[r].pc \in Executing
        /\ run'[r].pc = calling /\ UNCHANGED ten
        /\ loop' = Released(real, r)
    BY <2>1, InnerKind DEF Call, Executing, Phases, Refreshed
  <2> QED
    BY <2>1, <2>2 DEF PastBind, PastInit, Released
<1>5. CASE Fail(r) \/ InitError(r) \/ (\E made \in BOOLEAN : BindError(r, made))
  <2>1. run[r].pc \in Refreshed /\ UNCHANGED ten /\ FailAttempt(r, run[r].obj)
    BY <1>5 DEF Fail, InitError, BindError, Resumes, Refreshed
  <2>2. run'[r].pc \in {"idle", "tick"} /\ run[r].pc \in Executing
    BY <2>1, FailKind DEF Failed, Ends
  <2> QED
    BY <2>1, <2>2, PcFacts DEF PastBind, PastInit
<1> QED
  BY <1>2, <1>3, <1>4, <1>5

(* What the steps of a runner do to the tenants.                           *)
LEMMA TenantEffect ==
  ASSUME TypeOK, LoopHeld, NEW r \in Runners, Arrive(r) \/ Advance(r)
  PROVE  /\ run[r].pc \notin Executing =>
              UNCHANGED ten /\ run'[r].pc \notin PastInit
         /\ run[r].pc \in Executing => OthersKept(r) /\ TenantWrite(r)
         /\ AllMock =>
              /\ run[r].pc \in Executing => InstanceWrite(r)
              /\ run'[r].pc \in Executing => loop' = r
<1>1. run[r].pc \in Held => loop = r
  BY DEF LoopHeld
<1>2. CASE Arrive(r) \/ Insert(r) \/ TickNext(r) \/ Refuse(r) \/ Load(r) \/ Start(r)
  <2>1. run[r].pc \notin Executing /\ UNCHANGED ten
    BY <1>2, PcFacts DEF Arrive, Submit, RunRequest, Retry, TickList, Begins,
         Insert, TickNext, Refuse, Load, Start
  <2>2. run'[r].pc \in Executing => run'[r].pc = "deploy" /\ loop' = r
    <3>1. CASE Start(r)
      <4>1. loop' = loop /\ run[r].pc = "start" /\ Opened(r)
        BY <3>1, StartKind DEF Start
      <4> QED
        BY <1>1, <4>1 DEF Opened, Opens, Held
    <3>2. CASE Arrive(r) \/ Insert(r) \/ TickNext(r) \/ Refuse(r) \/ Load(r)
      <4>1. ~Opened(r) \/ run[r].pc = "start"
        BY DEF Opened, Opens
      <4>2. run[r].pc # "start"
        BY <3>2 DEF Arrive, Submit, RunRequest, Retry, TickList, Begins,
             Insert, TickNext, Refuse, Load
      <4> QED
        BY <2>1, <4>1, <4>2, StepKinds, PcFacts
           DEF Quiet, Asks, Claims, Creates, Requeued, Failed, Succeeded, Ends
    <3> QED
      BY <1>2, <3>1, <3>2
  <2>3. run'[r].pc \notin PastInit
    <3>1. PastInit \subseteq Executing /\ "deploy" \notin PastInit
      BY DEF PastInit, PastBind, Executing, Phases, Refreshed
    <3> QED
      BY <2>2, <3>1
  <2> QED
    BY <2>1, <2>2, <2>3
<1>3. CASE Execute(r)
  <2>1. CASE \/ DeployOk(r) \/ DeployRefused(r)
             \/ \E queried \in BOOLEAN : DeployTimeout(r, queried)
    <3>1. run[r].pc = "deploying"
      BY <2>1 DEF DeployOk, DeployRefused, DeployTimeout, Resumes
    <3> QED
      BY <1>1, <2>1, <3>1, DeployEffect DEF Held
  <2>2. CASE InitOk(r)
    BY <2>2, InitEffect
  <2>3. CASE \E made \in BOOLEAN : BindOk(r, made)
    BY <2>3, BindEffect
  <2>4. CASE Complete(r)
    BY <2>4, ActivateEffect
  <2>5. CASE \/ MaybeFail(r) \/ Handle(r) \/ Fail(r) \/ Domains(r)
             \/ DeployCall(r) \/ InitCall(r) \/ BindCall(r)
             \/ InitError(r) \/ (\E made \in BOOLEAN : BindError(r, made))
    <3>1. /\ run[r].pc \in Executing /\ UNCHANGED ten
          /\ run'[r].pc \in PastBind => run[r].pc = "domains"
          /\ run'[r].pc \in PastInit => run[r].pc \in PastInit
          /\ AllMock /\ run'[r].pc \in Executing => loop' = r
      BY <2>5, KeepEffect
    <3>2. OthersKept(r) /\ TenantWrite(r)
      BY <3>1, StillWrite
    <3>3. InstanceWrite(r)
      BY <3>1 DEF InstanceWrite
    <3> QED
      BY <3>1, <3>2, <3>3
  <2> QED
    BY <1>3, <2>1, <2>2, <2>3, <2>4, <2>5 DEF Execute
<1> QED
  BY <1>2, <1>3 DEF Advance

(* No row changes its tenant.                                              *)
LEMMA TenantsStay ==
  ASSUME TypeOK, LoopHeld, [Next]_vars
  PROVE  TenantsKept
<1>1. ASSUME NEW r \in Runners, Arrive(r) \/ Advance(r)
      PROVE  TenantsKept
  <2>1. CASE Quiet(r) \/ Asks(r) \/ Claims(r)
    BY <2>1 DEF Quiet, Asks, Claims, TenantsKept
  <2>2. CASE Creates(r)
    BY <2>2, NoRowIsNoRow DEF Creates, TenantsKept
  <2>3. CASE Requeued(r) \/ Opened(r) \/ Failed(r) \/ Succeeded(r)
    BY <2>3 DEF Requeued, Opened, Failed, Succeeded, OnlyRow, TenantsKept
  <2> QED
    BY <1>1, <2>1, <2>2, <2>3, StepKinds
<1>2. ASSUME NEW c \in Cancellers,
             (\E j \in Jobs : CancelLoad(c, j)) \/ CancelCommit(c)
      PROVE  TenantsKept
  BY <1>2, CancelEffect DEF TenantsKept, Kept
<1>3. CASE Crash
  BY <1>3, CrashEffect DEF TenantsKept
<1>4. CASE UNCHANGED vars
  BY <1>4 DEF vars, TenantsKept
<1> QED
  BY <1>1, <1>2, <1>3, <1>4 DEF Next

(* No event disappears.                                                    *)
LEMMA SuccessesStay ==
  ASSUME TypeOK, LoopHeld, [Next]_vars, NEW j \in Jobs, audit[j].succeeded > 0
  PROVE  audit'[j].succeeded > 0
<1>1. audit[j].succeeded \in Nat
  BY DEF TypeOK
<1>2. ASSUME NEW r \in Runners, Arrive(r) \/ Advance(r)
      PROVE  audit'[j].succeeded > 0
  <2>1. CASE Quiet(r) \/ Asks(r) \/ Claims(r) \/ Creates(r) \/ Requeued(r)
    BY <2>1 DEF Quiet, Asks, Claims, Creates, Requeued
  <2>2. CASE Opened(r) \/ Failed(r)
    BY <2>2 DEF Opened, Opens, Failed, Ends
  <2>3. CASE Succeeded(r)
    BY <1>1, <2>3 DEF Succeeded, Ends
  <2> QED
    BY <1>2, <2>1, <2>2, <2>3, StepKinds
<1>3. ASSUME NEW c \in Cancellers,
             (\E i \in Jobs : CancelLoad(c, i)) \/ CancelCommit(c)
      PROVE  audit'[j].succeeded > 0
  BY <1>3, CancelEffect
<1>4. CASE Crash
  BY <1>4, CrashEffect
<1>5. CASE UNCHANGED vars
  BY <1>5 DEF vars
<1> QED
  BY <1>2, <1>3, <1>4, <1>5 DEF Next

(* A step that is not a runner's leaves the tenants alone, and nobody past *)
(* the start of an attempt who was not there.                              *)
LEMMA OtherSteps ==
  ASSUME TypeOK, [Next]_vars,
         ~(\E r \in Runners : Arrive(r) \/ Advance(r))
  PROVE  /\ UNCHANGED <<ten, audit>>
         /\ \A r \in Runners :
              run'[r].pc \in Executing =>
                run'[r] = run[r] /\ loop' = loop
<1>1. CASE \E c \in Cancellers :
             (\E j \in Jobs : CancelLoad(c, j)) \/ CancelCommit(c)
  BY <1>1 DEF CancelLoad, CancelCommit
<1>2. CASE Crash
  BY <1>2, CrashEffect, PcFacts DEF Crash
<1>3. CASE UNCHANGED vars
  BY <1>3 DEF vars
<1> QED
  BY <1>1, <1>2, <1>3 DEF Next

-----------------------------------------------------------------------------
(* An active tenant is bound, whatever the adapters.                       *)

(* Past the bind the upstream of the tenant is bound, and nothing takes    *)
(* that back.                                                              *)
BoundInTime ==
  \A r \in Runners :
    run[r].pc \in PastBind => ten[TenantOf(r)].upstream \in BoundStatuses

BoundInv == BoundInTime /\ ActiveTenantIsBound

(* The tenant of an attempt stays its tenant.                              *)
LEMMA TenantOfStays ==
  ASSUME TypeOK, LoopHeld, [Next]_vars, NEW r \in Runners,
         run[r].pc \in Executing, run'[r].job = run[r].job
  PROVE  TenantOf(r)' = TenantOf(r) /\ TenantOf(r) \in Tenants
<1>1. run[r].job \in Jobs /\ job[run[r].job] \in Row
  BY RunFacts DEF Linked
<1> QED
  BY <1>1, TenantsStay, TenantOfType DEF TenantsKept, TenantOf

(* Where a coroutine past the start of its attempt has come from.          *)
LEMMA StaysInside ==
  ASSUME TypeOK, LoopHeld, NEW r \in Runners, Arrive(r) \/ Advance(r)
  PROVE  /\ run[r].pc \in Executing /\ run'[r].pc \in Executing =>
              run'[r].job = run[r].job
         /\ \A s \in Runners \ {r} :
              run'[s].pc = run[s].pc /\ run'[s].job = run[s].job
<1>1. Moved(r)
  BY RunnerEffect
<1> QED
  BY <1>1, StepKinds, PcFacts
     DEF Moved, Others, SameRun, SameLinks, Quiet, Asks, Claims, Creates,
         Requeued, Opened, Opens, Failed, Succeeded, Ends

LEMMA BoundStep ==
  ASSUME TypeOK, LoopHeld, BoundInv, [Next]_vars
  PROVE  BoundInv'
<1>1. PastBind \subseteq Executing
  BY DEF PastBind, Executing, Phases
<1>2. \A j \in Jobs, t \in Tenants :
        job[j].tenant = t /\ audit[j].succeeded > 0 =>
          job'[j].tenant = t /\ audit'[j].succeeded > 0
  <2>1. \A j \in Jobs, t \in Tenants : job[j].tenant = t => job[j] \in Row
    BY NoneAssumption DEF TypeOK, NoRow
  <2> QED
    BY <2>1, TenantsStay, SuccessesStay DEF TenantsKept
<1>3. ASSUME NEW r \in Runners, Arrive(r) \/ Advance(r)
      PROVE  BoundInv'
  <2>1. \A t \in Tenants :
          \/ ten'[t] = ten[t]
          \/ /\ run[r].pc \in Executing /\ t = TenantOf(r)
             /\ OthersKept(r) /\ TenantWrite(r)
    BY <1>3, TenantEffect DEF OthersKept
  <2>2. \A t \in Tenants :
          ten[t].upstream \in BoundStatuses => ten'[t].upstream \in BoundStatuses
    BY <2>1 DEF TenantWrite
  <2>3. ASSUME NEW s \in Runners, run'[s].pc \in PastBind
        PROVE  ten'[TenantOf(s)'].upstream \in BoundStatuses
    <3>1. CASE s # r
      <4>1. run[s].pc = run'[s].pc /\ run'[s].job = run[s].job
        BY <1>3, <3>1, StaysInside
      <4>2. TenantOf(s)' = TenantOf(s) /\ TenantOf(s) \in Tenants
        BY <1>1, <2>3, <4>1, TenantOfStays
      <4> QED
        BY <2>2, <2>3, <4>1, <4>2 DEF BoundInv, BoundInTime
    <3>2. CASE s = r
      <4>1. run[r].pc \in Executing /\ TenantWrite(r)
        BY <1>3, <2>3, <3>2, TenantEffect DEF PastInit
      <4>2. TenantOf(r)' = TenantOf(r) /\ TenantOf(r) \in Tenants
        BY <1>1, <1>3, <2>3, <3>2, <4>1, StaysInside, TenantOfStays
      <4>3. run[r].pc = "domains" => ten[TenantOf(r)].upstream \in BoundStatuses
        BY DEF BoundInv, BoundInTime, PastBind
      <4> QED
        BY <2>2, <2>3, <3>2, <4>1, <4>2, <4>3 DEF TenantWrite
    <3> QED
      BY <3>1, <3>2
  <2>4. ASSUME NEW t \in Tenants, ten'[t].status \in ActiveStatuses
        PROVE  /\ ten'[t].upstream \in BoundStatuses
               /\ \E j \in Jobs : job'[j].tenant = t /\ audit'[j].succeeded > 0
    <3>1. CASE ten[t].status \in ActiveStatuses
      BY <1>2, <2>2, <3>1
         DEF BoundInv, ActiveTenantIsBound, ActiveStatuses, BoundStatuses
    <3>2. CASE ten[t].status \notin ActiveStatuses
      <4>1. /\ run[r].pc = "complete" /\ t = TenantOf(r) /\ Succeeded(r)
            /\ run[r].pc \in Executing
        BY <2>1, <2>4, <3>2 DEF TenantWrite
      <4>2. ten[t].upstream \in BoundStatuses
        BY <4>1 DEF BoundInv, BoundInTime, PastBind
      <4>3. /\ run[r].job \in Jobs /\ job[run[r].job] \in Row
            /\ audit[run[r].job].succeeded \in Nat
        BY <4>1, RunFacts DEF Linked, TypeOK
      <4>4. /\ job'[run[r].job].tenant = t
            /\ audit'[run[r].job].succeeded > 0
        BY <4>1, <4>3 DEF Succeeded, OnlyRow, TenantOf
      <4> QED
        BY <2>2, <4>2, <4>3, <4>4
    <3> QED
      BY <3>1, <3>2
  <2> QED
    BY <2>3, <2>4
       DEF BoundInv, BoundInTime, ActiveTenantIsBound, ActiveStatuses,
           BoundStatuses
<1>4. CASE ~(\E r \in Runners : Arrive(r) \/ Advance(r))
  <2>1. ten' = ten /\ \A r \in Runners :
          run'[r].pc \in PastBind =>
            run'[r] = run[r] /\ TenantOf(r)' = TenantOf(r)
    BY <1>1, <1>4, OtherSteps, TenantOfStays
  <2>2. BoundInTime'
    BY <2>1 DEF BoundInv, BoundInTime
  <2>3. ActiveTenantIsBound'
    BY <1>2, <2>1 DEF BoundInv, ActiveTenantIsBound
  <2> QED
    BY <2>2, <2>3 DEF BoundInv
<1> QED
  BY <1>3, <1>4

(* A tenant is active only with its upstream bound and after a success of  *)
(* one of its jobs (workflow_service.py:198-251), with any adapters, any   *)
(* interleaving of forced attempts in their awaits, and crashes.           *)
THEOREM ActiveBound == Spec => []ActiveTenantIsBound
<1>1. Init => BoundInv
  BY DEF Init, IdleRun, BoundInv, BoundInTime, ActiveTenantIsBound, PastBind
<1>2. IInv /\ BoundInv /\ [Next]_vars => BoundInv'
  BY BoundStep DEF IInv
<1>3. BoundInv => ActiveTenantIsBound
  BY DEF BoundInv
<1> QED
  BY <1>1, <1>2, <1>3, Inductive, PTL DEF Spec

-----------------------------------------------------------------------------
(* With mock adapters an active tenant is served.                          *)

(* No await gives the loop up: attempts do not overlap at all.  This is    *)
(* what real adapters break, and with it the rest of MockInv.              *)
LoopKept == \A r \in Runners : run[r].pc \in Executing => loop = r

(* Past the init the instance of the tenant is initialized.                *)
InitInTime ==
  \A r \in Runners :
    run[r].pc \in PastInit => ten[TenantOf(r)].instance \in InitStatuses

ActiveInit ==
  \A t \in Tenants :
    ten[t].status \in ActiveStatuses => ten[t].instance \in InitStatuses

MockInv == LoopKept /\ InitInTime /\ ActiveInit

LEMMA MockStep ==
  ASSUME AllMock, TypeOK, LoopHeld, MockInv, [Next]_vars
  PROVE  MockInv'
<1>1. PastInit \subseteq Executing
  BY DEF PastInit, PastBind, Executing, Phases, Refreshed
<1>2. ASSUME NEW r \in Runners, Arrive(r) \/ Advance(r)
      PROVE  MockInv'
  <2>1. /\ Moved(r)
        /\ run'[r].pc \in Executing => loop' = r
        /\ run[r].pc \notin Executing =>
             UNCHANGED ten /\ run'[r].pc \notin PastInit
        /\ run[r].pc \in Executing => OthersKept(r) /\ InstanceWrite(r)
    BY <1>2, RunnerEffect, TenantEffect
  <2>2. ASSUME NEW s \in Runners \ {r}
        PROVE  run[s].pc \notin Executing /\ run'[s].pc \notin Executing
    BY <1>2, <2>1, NoneAssumption, StaysInside DEF Moved, MockInv, LoopKept
  <2>3. LoopKept'
    BY <2>1, <2>2 DEF LoopKept
  <2>4. ASSUME run'[r].pc \in PastInit
        PROVE  ten'[TenantOf(r)'].instance \in InitStatuses
    <3>1. run[r].pc \in Executing /\ InstanceWrite(r)
      BY <2>1, <2>4
    <3>2. TenantOf(r)' = TenantOf(r)
      BY <1>1, <1>2, <2>4, <3>1, StaysInside, TenantOfStays
    <3> QED
      BY <2>4, <3>1, <3>2 DEF InstanceWrite, MockInv, InitInTime
  <2>5. InitInTime'
    BY <1>1, <2>2, <2>4 DEF InitInTime
  <2>6. ASSUME NEW t \in Tenants, ten'[t].status \in ActiveStatuses
        PROVE  ten'[t].instance \in InitStatuses
    <3>1. CASE ten'[t] = ten[t]
      BY <2>6, <3>1 DEF MockInv, ActiveInit
    <3>2. CASE ten'[t] # ten[t]
      <4>1. /\ run[r].pc \in Executing /\ t = TenantOf(r)
            /\ TenantWrite(r) /\ InstanceWrite(r)
        BY <1>2, <2>1, <3>2, TenantEffect DEF OthersKept
      <4>2. CASE ten[t].status \in ActiveStatuses
        BY <2>6, <4>1, <4>2 DEF InstanceWrite, MockInv, ActiveInit
      <4>3. CASE ten[t].status \notin ActiveStatuses
        <5>1. run[r].pc = "complete"
          BY <2>6, <4>1, <4>3 DEF TenantWrite
        <5> QED
          BY <2>6, <4>1, <5>1
             DEF InstanceWrite, MockInv, InitInTime, PastInit, PastBind
      <4> QED
        BY <4>2, <4>3
    <3> QED
      BY <3>1, <3>2
  <2> QED
    BY <2>3, <2>5, <2>6 DEF MockInv, ActiveInit
<1>3. CASE ~(\E r \in Runners : Arrive(r) \/ Advance(r))
  <2>1. ten' = ten /\ \A r \in Runners :
          run'[r].pc \in Executing =>
            /\ run'[r] = run[r] /\ loop' = loop
            /\ TenantOf(r)' = TenantOf(r)
    BY <1>3, OtherSteps, TenantOfStays
  <2> QED
    BY <1>1, <2>1 DEF MockInv, LoopKept, InitInTime, ActiveInit
<1> QED
  BY <1>2, <1>3

(* With mock adapters an active tenant is served: bound, initialized, and  *)
(* after a success of one of its jobs (workflow_service.py:198-251), with  *)
(* any requests, forced runs, retries, cancels and crashes.                *)
THEOREM ActiveServed == ASSUME AllMock PROVE Spec => []ActiveTenantIsServed
<1>1. Init => MockInv
  <2>1. Init => \A r \in Runners : run[r].pc = "idle"
    BY DEF Init, IdleRun
  <2>2. Init => \A t \in Tenants : ten[t].status = "manifest_generated"
    BY DEF Init
  <2> QED
    BY <2>1, <2>2, PcFacts
       DEF MockInv, LoopKept, InitInTime, ActiveInit, ActiveStatuses,
           PastInit, PastBind
<1>2. IInv /\ MockInv /\ [Next]_vars => MockInv'
  BY MockStep DEF IInv
<1>3. MockInv /\ ActiveTenantIsBound => ActiveTenantIsServed
  BY DEF MockInv, ActiveInit, ActiveStatuses, InitStatuses,
         ActiveTenantIsBound, ActiveTenantIsServed
<1> QED
  BY <1>1, <1>2, <1>3, Inductive, ActiveBound, PTL DEF Spec

-----------------------------------------------------------------------------
(* The channels of a tenant.                                               *)

(* An attempt that has not come back from create_channel yet.              *)
BeforeBind == {"deploy", "deploying", "init", "initing", "bind", "binding"}

Unbound(t) == {r \in Runners : run[r].pc \in BeforeBind /\ TenantOf(r) = t}

(* Every such attempt has kept room for one more channel.                  *)
ChannelRoom ==
  \A t \in Tenants :
    /\ IsFiniteSet(AttemptsOf(t))
    /\ channels[t] + Cardinality(Unbound(t)) <= Cardinality(AttemptsOf(t))

(* Membership in the numbered attempts, whatever the table.                *)
LEMMA Numbered ==
  ASSUME NEW S, NEW ev, NEW x
  PROVE  x \in UNION {{j} \X (1 .. ev[j].started) : j \in S} <=>
           \E j \in S : \E n \in 1 .. ev[j].started : x = <<j, n>>
<1>1. x \in UNION {{j} \X (1 .. ev[j].started) : j \in S} <=>
        \E j \in S : x \in {j} \X (1 .. ev[j].started)
  OBVIOUS
<1>2. ASSUME NEW j
      PROVE  x \in {j} \X (1 .. ev[j].started) <=>
               \E n \in 1 .. ev[j].started : x = <<j, n>>
  OBVIOUS
<1> QED
  BY <1>1, <1>2

(* The attempts of a tenant before and after a step.                       *)
LEMMA AttemptsOfMember ==
  ASSUME NEW t, NEW x
  PROVE  /\ x \in AttemptsOf(t) <=>
              \E j \in Jobs : /\ job[j].tenant = t
                              /\ \E n \in 1 .. audit[j].started : x = <<j, n>>
         /\ x \in AttemptsOf(t)' <=>
              \E j \in Jobs : /\ job'[j].tenant = t
                              /\ \E n \in 1 .. audit'[j].started : x = <<j, n>>
BY Numbered DEF AttemptsOf

(* What the steps of a runner do to the channels.                          *)
LEMMA ChannelEffect ==
  ASSUME TypeOK, LoopHeld, NEW r \in Runners, Arrive(r) \/ Advance(r)
  PROVE  \/ channels' = channels
         \/ /\ run[r].pc = "binding" /\ run'[r].pc \notin BeforeBind
            /\ channels' = [channels EXCEPT
                              ![TenantOf(r)] = channels[TenantOf(r)] + 1]
<1>1. CASE \E made \in BOOLEAN : BindOk(r, made)
  <2>1. run[r].pc = "binding" /\ run[r].pc \in Executing
    BY <1>1 DEF BindOk, Resumes, Executing, Refreshed
  <2>2. run'[r].pc = "domains"
    BY <1>1, <2>1, InnerKind DEF BindOk, Executing, Phases
  <2> QED
    BY <1>1, <2>1, <2>2 DEF BindOk, BeforeBind
<1>2. CASE \E made \in BOOLEAN : BindError(r, made)
  <2>1. run[r].pc = "binding" /\ run[r].pc \in Refreshed
    BY <1>2 DEF BindError, Resumes, Refreshed
  <2>2. run'[r].pc \in {"idle", "tick"}
    BY <1>2, <2>1, FailKind DEF BindError, Failed, Ends
  <2> QED
    BY <1>2, <2>1, <2>2 DEF BindError, BeforeBind
<1>3. CASE ~(\E made \in BOOLEAN : BindOk(r, made) \/ BindError(r, made))
  BY <1>3 DEF Arrive, Submit, RunRequest, Retry, TickList, Advance, Insert,
       TickNext, Refuse, Load, Start, Execute, MaybeFail, Handle, Fail,
       DeployCall, InitCall, BindCall, Call, DeployOk, DeployRefused,
       DeployTimeout, InitOk, InitError, Domains, Complete
<1> QED
  BY <1>1, <1>2, <1>3

(* Whoever is before the bind was there, or its attempt has just opened.   *)
LEMMA BeforeBindStep ==
  ASSUME TypeOK, LoopHeld, NEW r \in Runners, Arrive(r) \/ Advance(r),
         run[r].pc \notin BeforeBind, run'[r].pc \in BeforeBind
  PROVE  Opened(r)
<1>1. BeforeBind \subseteq Executing /\ "start" \notin BeforeBind
  BY DEF BeforeBind, Executing, Phases, Refreshed
<1>2. CASE run[r].pc \notin Executing
  BY <1>1, <1>2, StepKinds, PcFacts
     DEF Quiet, Asks, Claims, Creates, Requeued, Failed, Succeeded, Ends
<1>3. CASE run[r].pc \in Executing
  <2>1. Execute(r)
    BY <1>3, PcFacts DEF Arrive, Submit, RunRequest, Retry, TickList, Begins,
         Advance, Insert, TickNext, Refuse, Load, Start
  <2>2. run'[r].pc \notin {"idle", "tick"}
    BY DEF BeforeBind
  <2>3. ~Complete(r)
    BY <2>2, CompleteKind DEF Succeeded, Ends
  <2>a. ~(run[r].pc \in Refreshed /\ FailAttempt(r, run[r].obj))
    BY <2>2, FailKind DEF Failed, Ends
  <2>b. ~(\/ Fail(r) \/ InitError(r)
          \/ \E queried \in BOOLEAN : DeployTimeout(r, queried)
          \/ \E made \in BOOLEAN : BindError(r, made))
    BY <2>a DEF Fail, InitError, DeployTimeout, BindError, Resumes, Refreshed
  <2>4. \E pc \in Executing :
          /\ Proceed(r, pc) \/ Refresh(r, pc)
          /\ pc \in BeforeBind => run[r].pc \in BeforeBind
    <3>1. CASE MaybeFail(r) \/ Handle(r)
      BY <3>1 DEF MaybeFail, Handle, BeforeBind, Executing, Refreshed
    <3>2. CASE DeployCall(r) \/ InitCall(r) \/ BindCall(r)
      BY <3>2 DEF DeployCall, InitCall, BindCall, Call, BeforeBind, Executing,
           Refreshed
    <3>3. CASE DeployOk(r) \/ DeployRefused(r)
      BY <3>3 DEF DeployOk, DeployRefused, Resumes, BeforeBind, Executing, Phases
    <3>4. CASE InitOk(r) \/ Domains(r) \/ \E made \in BOOLEAN : BindOk(r, made)
      BY <3>4 DEF InitOk, BindOk, Domains, Resumes, BeforeBind, Executing, Phases
    <3> QED
      BY <2>1, <2>3, <2>b, <3>1, <3>2, <3>3, <3>4 DEF Execute
  <2> QED
    BY <1>3, <2>4, InnerKind
<1> QED
  BY <1>2, <1>3

(* Only the step that opens an attempt announces one.                      *)
LEMMA AttemptsOfStep ==
  ASSUME IInv, NEW r \in Runners, Arrive(r) \/ Advance(r), NEW t \in Tenants
  PROVE  /\ ~Opened(r) => AttemptsOf(t)' = AttemptsOf(t)
         /\ Opened(r) =>
              LET j == run[r].job
              IN AttemptsOf(t)' = AttemptsOf(t) \cup
                   IF TenantOf(r) = t THEN {<<j, audit[j].started + 1>>} ELSE {}
<1>1. TypeOK /\ LoopHeld /\ audit \in [Jobs -> Counters]
  BY DEF IInv, TypeOK, Counters
<1>2. \A j \in Jobs : audit[j].started \in Nat
  BY <1>1 DEF Counters
<1>3. ASSUME ~Opened(r)
      PROVE  AttemptsOf(t)' = AttemptsOf(t)
  <2>1. \A j \in Jobs :
          /\ audit'[j].started = audit[j].started
          /\ \/ job'[j].tenant = job[j].tenant
             \/ audit[j].started = 0
    <3>1. CASE Quiet(r) \/ Asks(r) \/ Claims(r)
      BY <3>1 DEF Quiet, Asks, Claims
    <3>2. CASE Creates(r)
      BY <3>2 DEF Creates, NoRow, IInv, AttemptsAreCounted
    <3>3. CASE Requeued(r)
      BY <3>3 DEF Requeued, OnlyRow
    <3>4. CASE Failed(r) \/ Succeeded(r)
      BY <3>4 DEF Failed, Succeeded, OnlyRow, Ends
    <3> QED
      BY <1>1, <1>3, <3>1, <3>2, <3>3, <3>4, StepKinds
  <2>2. 1 .. 0 = {}
    OBVIOUS
  <2>3. \A x : x \in AttemptsOf(t)' <=> x \in AttemptsOf(t)
    BY <2>1, <2>2, AttemptsOfMember
  <2> QED
    BY <2>3
<1>4. ASSUME Opened(r)
      PROVE  LET j == run[r].job
             IN AttemptsOf(t)' = AttemptsOf(t) \cup
                  IF TenantOf(r) = t THEN {<<j, audit[j].started + 1>>} ELSE {}
  <2> DEFINE j == run[r].job
             k == audit[j].started
             new == IF TenantOf(r) = t THEN {<<j, k + 1>>} ELSE {}
  <2>1. j \in Jobs /\ k \in Nat
    BY <1>1, <1>2, <1>4, RunFacts DEF Opened, Opens, Linked
  <2>2. /\ \A i \in Jobs \ {j} : job'[i] = job[i] /\ audit'[i] = audit[i]
        /\ job'[j].tenant = job[j].tenant /\ audit'[j].started = k + 1
        /\ TenantOf(r) = job[j].tenant
    BY <1>4 DEF Opened, Opens, OnlyRow, TenantOf
  <2> HIDE DEF j
  <2>3. 1 .. (k + 1) = (1 .. k) \cup {k + 1}
    BY <2>1
  <2> HIDE DEF k
  <2>4. ASSUME NEW x
        PROVE  x \in AttemptsOf(t)' <=> x \in AttemptsOf(t) \cup new
    <3>1. \A i \in Jobs \ {j} :
            /\ job'[i].tenant = job[i].tenant
            /\ audit'[i].started = audit[i].started
      BY <2>2
    <3>2. (\E n \in 1 .. (k + 1) : x = <<j, n>>) <=>
            (\E n \in 1 .. k : x = <<j, n>>) \/ x = <<j, k + 1>>
      BY <2>3
    <3>3. x \in AttemptsOf(t)' <=>
            \/ \E i \in Jobs \ {j} :
                 /\ job[i].tenant = t
                 /\ \E n \in 1 .. audit[i].started : x = <<i, n>>
            \/ /\ job[j].tenant = t
               /\ (\E n \in 1 .. k : x = <<j, n>>) \/ x = <<j, k + 1>>
      BY <2>1, <2>2, <3>1, <3>2, AttemptsOfMember
    <3>4. x \in AttemptsOf(t) <=>
            \/ \E i \in Jobs \ {j} :
                 /\ job[i].tenant = t
                 /\ \E n \in 1 .. audit[i].started : x = <<i, n>>
            \/ job[j].tenant = t /\ (\E n \in 1 .. k : x = <<j, n>>)
      BY <2>1, AttemptsOfMember DEF k
    <3>5. x \in new <=> job[j].tenant = t /\ x = <<j, k + 1>>
      BY <2>2
    <3> HIDE DEF new
    <3> QED
      BY <3>3, <3>4, <3>5
  <2> QED
    BY <2>4 DEF j, k
<1> QED
  BY <1>3, <1>4

LEMMA UnboundFinite ==
  ASSUME NEW t
  PROVE  IsFiniteSet(Unbound(t)) /\ Cardinality(Unbound(t)) \in Nat
<1>1. Unbound(t) \subseteq Runners
  BY DEF Unbound
<1> QED
  BY <1>1, ActorsAssumption, FS_Subset, FS_CardinalityType

(* Only the runner that opens an attempt comes to stand before the bind.   *)
LEMMA UnboundStep ==
  ASSUME IInv, NEW r \in Runners, Arrive(r) \/ Advance(r), NEW t \in Tenants
  PROVE  Unbound(t)' \subseteq
           Unbound(t) \cup IF Opened(r) /\ TenantOf(r) = t THEN {r} ELSE {}
<1>1. TypeOK /\ LoopHeld /\ [Next]_vars /\ BeforeBind \subseteq Executing
  BY DEF IInv, Next, BeforeBind, Executing, Phases, Refreshed
<1>2. ASSUME NEW s \in Runners, run'[s].pc \in BeforeBind, TenantOf(s)' = t,
             run[s].pc \in BeforeBind
      PROVE  s \in Unbound(t)
  <2>1. run'[s].job = run[s].job
    BY <1>1, <1>2, StaysInside
  <2>2. TenantOf(s)' = TenantOf(s)
    BY <1>1, <1>2, <2>1, TenantOfStays
  <2> QED
    BY <1>2, <2>2 DEF Unbound
<1>3. ASSUME NEW s \in Runners, run'[s].pc \in BeforeBind, TenantOf(s)' = t,
             run[s].pc \notin BeforeBind
      PROVE  s = r /\ Opened(r) /\ TenantOf(r) = t
  <2>1. s = r
    BY <1>1, <1>3, StaysInside
  <2>2. Opened(r)
    BY <1>1, <1>3, <2>1, BeforeBindStep
  <2>3. TenantOf(r)' = TenantOf(r)
    BY <2>2 DEF Opened, Opens, OnlyRow, TenantOf
  <2> QED
    BY <1>3, <2>1, <2>2, <2>3
<1>4. Unbound(t)' = {s \in Runners : run'[s].pc \in BeforeBind /\ TenantOf(s)' = t}
  BY DEF Unbound
<1> QED
  BY <1>2, <1>3, <1>4

(* The steps of a runner keep the room.                                    *)
LEMMA RoomRunner ==
  ASSUME IInv, ChannelRoom, NEW r \in Runners, Arrive(r) \/ Advance(r),
         NEW t \in Tenants
  PROVE  /\ IsFiniteSet(AttemptsOf(t)')
         /\ channels'[t] + Cardinality(Unbound(t)') <= Cardinality(AttemptsOf(t)')
<1> DEFINE u == Cardinality(Unbound(t))
           a == Cardinality(AttemptsOf(t))
<1>1. TypeOK /\ LoopHeld
  BY DEF IInv
<1>2. /\ IsFiniteSet(AttemptsOf(t)) /\ channels[t] + u <= a
      /\ channels[t] \in Nat /\ u \in Nat /\ a \in Nat
      /\ IsFiniteSet(Unbound(t))
  BY <1>1, UnboundFinite, FS_CardinalityType DEF ChannelRoom, TypeOK
<1>3. CASE Opened(r) /\ TenantOf(r) = t
  <2> DEFINE x == <<run[r].job, audit[run[r].job].started + 1>>
  <2>1. AttemptsOf(t)' = AttemptsOf(t) \cup {x}
    BY <1>3, AttemptsOfStep
  <2>2. x \notin AttemptsOf(t)
    <3>1. run[r].job \in Jobs /\ audit[run[r].job].started \in Nat
      BY <1>1, <1>3, RunFacts DEF Opened, Opens, Linked, TypeOK
    <3>2. \A n \in 1 .. audit[run[r].job].started :
            n # audit[run[r].job].started + 1
      BY <3>1
    <3> QED
      BY <3>2, AttemptsOfMember
  <2> HIDE DEF x
  <2>3. IsFiniteSet(AttemptsOf(t)') /\ Cardinality(AttemptsOf(t)') = a + 1
    BY <1>2, <2>1, <2>2, FS_AddElement
  <2>4. Cardinality(Unbound(t)') \in Nat /\ Cardinality(Unbound(t)') <= u + 1
    <3>1. Unbound(t)' \subseteq Unbound(t) \cup {r}
      BY <1>3, UnboundStep
    <3>2. IsFiniteSet(Unbound(t) \cup {r})
          /\ Cardinality(Unbound(t) \cup {r}) \in {u, u + 1}
      BY <1>2, FS_AddElement
    <3>3. IsFiniteSet(Unbound(t)')
          /\ Cardinality(Unbound(t)') <= Cardinality(Unbound(t) \cup {r})
      BY <3>1, <3>2, FS_Subset
    <3>4. Cardinality(Unbound(t)') \in Nat
      BY <3>3, FS_CardinalityType
    <3> QED
      BY <1>2, <3>2, <3>3, <3>4
  <2>5. channels' = channels
    BY <1>1, <1>3, ChannelEffect DEF Opened, Opens
  <2> QED
    BY <1>2, <2>3, <2>4, <2>5
<1>4. CASE ~(Opened(r) /\ TenantOf(r) = t)
  <2>1. AttemptsOf(t)' = AttemptsOf(t)
    BY <1>4, AttemptsOfStep
  <2>2. Unbound(t)' \subseteq Unbound(t)
    BY <1>4, UnboundStep
  <2>3. CASE channels'[t] = channels[t]
    <3>1. IsFiniteSet(Unbound(t)') /\ Cardinality(Unbound(t)') <= u
      BY <1>2, <2>2, FS_Subset
    <3>2. Cardinality(Unbound(t)') \in Nat
      BY <3>1, FS_CardinalityType
    <3> QED
      BY <1>2, <2>1, <2>3, <3>1, <3>2
  <2>4. CASE channels'[t] # channels[t]
    <3>1. /\ run[r].pc = "binding" /\ run'[r].pc \notin BeforeBind
          /\ TenantOf(r) = t /\ channels'[t] = channels[t] + 1
      BY <1>1, <2>4, ChannelEffect DEF TypeOK
    <3>2. r \in Unbound(t) /\ r \notin Unbound(t)'
      BY <3>1 DEF Unbound, BeforeBind
    <3>3. IsFiniteSet(Unbound(t) \ {r}) /\ Cardinality(Unbound(t) \ {r}) = u - 1
      BY <1>2, <3>2, FS_RemoveElement
    <3>4. Unbound(t)' \subseteq Unbound(t) \ {r}
      BY <2>2, <3>2
    <3>5. IsFiniteSet(Unbound(t)') /\ Cardinality(Unbound(t)') <= u - 1
      BY <3>3, <3>4, FS_Subset
    <3>6. Cardinality(Unbound(t)') \in Nat
      BY <3>5, FS_CardinalityType
    <3> QED
      BY <1>2, <2>1, <3>1, <3>5, <3>6
  <2> QED
    BY <2>3, <2>4
<1> QED
  BY <1>3, <1>4

(* A crash uses the room of the posts it cuts off, and frees the rest.     *)
LEMMA RoomCrash ==
  ASSUME IInv, ChannelRoom, Crash, NEW t \in Tenants
  PROVE  /\ IsFiniteSet(AttemptsOf(t)')
         /\ channels'[t] + Cardinality(Unbound(t)') <= Cardinality(AttemptsOf(t)')
<1>1. PICK made \in Posted :
        channels' = [o \in Tenants |-> channels[o]
                       + Cardinality({r \in made : TenantOf(r) = o})]
  BY DEF Crash
<1> DEFINE M == {r \in made : TenantOf(r) = t}
           n == Cardinality(M)
           u == Cardinality(Unbound(t))
           a == Cardinality(AttemptsOf(t))
<1>2. channels'[t] = channels[t] + n
  BY <1>1
<1>3. M \subseteq Unbound(t)
  BY DEF Posted, Unbound, BeforeBind
<1>4. n \in Nat /\ n <= u
  BY <1>3, UnboundFinite, PostedFinite, FS_Subset
<1>5. Unbound(t)' = {}
  BY CrashEffect DEF Unbound, BeforeBind
<1>6. Cardinality(Unbound(t)') = 0
  BY <1>5, FS_EmptySet
<1>7. AttemptsOf(t)' = AttemptsOf(t)
  BY CrashEffect DEF AttemptsOf
<1>8. /\ IsFiniteSet(AttemptsOf(t)) /\ channels[t] + u <= a
      /\ channels[t] \in Nat /\ u \in Nat /\ a \in Nat
  BY UnboundFinite, FS_CardinalityType DEF ChannelRoom, IInv, TypeOK
<1> HIDE DEF n, u, a
<1> QED
  BY <1>2, <1>4, <1>6, <1>7, <1>8 DEF a

LEMMA RoomStep ==
  ASSUME IInv, ChannelRoom, [Next]_vars
  PROVE  ChannelRoom'
<1>1. ASSUME NEW r \in Runners, Arrive(r) \/ Advance(r)
      PROVE  ChannelRoom'
  BY <1>1, RoomRunner DEF ChannelRoom
<1>2. CASE Crash
  BY <1>2, RoomCrash DEF ChannelRoom
<1>3. ASSUME UNCHANGED <<audit, run, channels>>,
             \A j \in Jobs : job'[j].tenant = job[j].tenant
      PROVE  ChannelRoom'
  <2>1. TypeOK /\ LoopHeld /\ BeforeBind \subseteq Executing
    BY DEF IInv, BeforeBind, Executing, Phases, Refreshed
  <2>2. ASSUME NEW t \in Tenants
        PROVE  AttemptsOf(t)' = AttemptsOf(t) /\ Unbound(t)' = Unbound(t)
    <3>1. \A x : x \in AttemptsOf(t)' <=> x \in AttemptsOf(t)
      BY <1>3, AttemptsOfMember
    <3>2. \A r \in Runners : run[r].pc \in BeforeBind => TenantOf(r)' = TenantOf(r)
      BY <1>3, <2>1, TenantOfStays
    <3> QED
      BY <1>3, <3>1, <3>2 DEF Unbound
  <2> QED
    BY <1>3, <2>2 DEF ChannelRoom
<1>4. ASSUME NEW c \in Cancellers,
             (\E j \in Jobs : CancelLoad(c, j)) \/ CancelCommit(c)
      PROVE  ChannelRoom'
  <2>1. channels' = channels
    BY <1>4 DEF CancelLoad, CancelCommit
  <2> QED
    BY <1>3, <1>4, <2>1, CancelEffect DEF IInv, Kept
<1>5. CASE UNCHANGED vars
  BY <1>3, <1>5 DEF vars
<1> QED
  BY <1>1, <1>2, <1>4, <1>5 DEF Next

LEMMA RoomInit == Init => ChannelRoom
<1> SUFFICES ASSUME Init, NEW t \in Tenants
             PROVE  /\ IsFiniteSet(AttemptsOf(t))
                    /\ channels[t] + Cardinality(Unbound(t)) <=
                         Cardinality(AttemptsOf(t))
  BY DEF ChannelRoom
<1>1. \A j \in Jobs : job[j].tenant = None
  BY DEF Init, NoRow
<1>2. AttemptsOf(t) = {}
  BY <1>1, AttemptsOfMember, NoneAssumption
<1>3. Unbound(t) = {}
  BY DEF Init, IdleRun, Unbound, BeforeBind
<1>4. IsFiniteSet({}) /\ Cardinality({}) = 0
  BY FS_EmptySet
<1> QED
  BY <1>2, <1>3, <1>4 DEF Init

(* New API never holds more channels of a tenant than attempts were        *)
(* announced on its jobs (tenant_service.py:331-357), with any adapters,   *)
(* lost replies, forced runs, cancels and crashes during the post.         *)
THEOREM ChannelsCounted == Spec => []OneChannelPerAttempt
<1>1. IInv /\ ChannelRoom => OneChannelPerAttempt
  <2> SUFFICES ASSUME IInv, ChannelRoom, NEW t \in Tenants
               PROVE  channels[t] <= Cardinality(AttemptsOf(t))
    BY DEF OneChannelPerAttempt
  <2>1. /\ channels[t] \in Nat /\ Cardinality(Unbound(t)) \in Nat
        /\ Cardinality(AttemptsOf(t)) \in Nat
    BY UnboundFinite, FS_CardinalityType DEF ChannelRoom, IInv, TypeOK
  <2> QED
    BY <2>1 DEF ChannelRoom
<1>2. IInv /\ ChannelRoom /\ [Next]_vars => ChannelRoom'
  BY RoomStep
<1> QED
  BY <1>1, <1>2, RoomInit, Inductive, PTL DEF Spec

=============================================================================
