--------------------------- MODULE TenantRuntime ---------------------------
(***************************************************************************)
(* One tenant's runtime under the tenant endpoints (app/api/tenants.py     *)
(* and the operations behind them in app/services/tenant_service.py).      *)
(*                                                                         *)
(* deploy, apply, delete-runtime, suspend, resume and PATCH are plain      *)
(* functions and run on threads; init-newapi, bind-upstream and provision  *)
(* are coroutines of the event loop.  Each request has a session, which    *)
(* keeps the rows it loaded until it commits and then writes only the      *)
(* columns whose value it changed.  Beside the rows a deploy and a delete  *)
(* change the cluster, by kubectl, and the mock runtime file, each at a    *)
(* moment of its own.                                                      *)
(***************************************************************************)
EXTENDS Naturals

CONSTANTS
  None,            \* nobody
  Requests,        \* concurrent requests
  Targets,         \* statuses that suspend, resume and PATCH write: any
  RealK8s, RealNewAPI, RealSub2API,   \* real_external_enabled
  ArrivalBound,    \* bound: requests that ever arrive
  CrashBound       \* bound: crashes of the process

ASSUME RequestsAssumption == None \notin Requests
ASSUME SettingsAssumption ==
  {RealK8s, RealNewAPI, RealSub2API} \subseteq BOOLEAN
ASSUME BoundAssumption == {ArrivalBound, CrashBound} \subseteq Nat

VARIABLES
  row,        \* statuses of the tenant, its instance and its upstream
  cluster,    \* how many of the manifest's objects the cluster has
  file,       \* is there a mock runtime file for the tenant?
  run,        \* per request, its handler and its session
  loop,       \* the request that holds the event loop, or None
  disturbed,  \* history: deploys and deletes that overlapped or were cut off
  arrivals,   \* history: requests so far
  crashes     \* history: crashes so far

vars == <<row, cluster, file, run, loop, disturbed, arrivals, crashes>>

-----------------------------------------------------------------------------
(* Rows and sessions.                                                      *)

InstanceStatuses ==
  {"none", "generated", "running", "running_mock", "newapi_initialized",
   "newapi_initialized_mock", "apply_failed", "not_ready",
   "resource_query_failed", "deleted", "delete_failed"}

TenantStatuses ==
  {"created", "manifest_generated", "runtime_ready", "runtime_ready_mock",
   "newapi_initialized", "newapi_initialized_mock", "upstream_bound",
   "upstream_bound_mock", "active", "active_mock", "apply_failed",
   "runtime_deleted", "delete_failed"} \cup Targets

Row == [ten : TenantStatuses, inst : InstanceStatuses,
        up : {"created", "bound", "bound_mock"}]

(* Without deploy=true a tenant is created without an instance.            *)
Bare    == [ten |-> "created", inst |-> "none", up |-> "created"]
Planned == [ten |-> "manifest_generated", inst |-> "generated",
            up |-> "created"]

(* A flush of one column: it is written only if its value was changed.     *)
Col(current, loaded, new) == IF new = loaded THEN current ELSE new

(* A commit of a session that loaded `old` and assigned `new`.             *)
Flush(old, new) ==
  [ten |-> Col(row.ten, old.ten, new.ten),
   inst |-> Col(row.inst, old.inst, new.inst),
   up |-> Col(row.up, old.up, new.up)]

(* Where a request stands; the first row are the steps of a deploy or a    *)
(* delete.                                                                 *)
RuntimePCs == {"apply", "check", "file", "delete", "exists", "unlink", "record"}
PCs == {"idle", "set", "init", "initing", "bind", "binding", "final"}
       \cup RuntimePCs

Results == {"ok", "apply_failed", "not_ready", "resource_query_failed",
            "deleted", "delete_failed"}

IdleRun ==
  [pc |-> "idle", provision |-> FALSE, mock |-> FALSE, wait |-> FALSE,
   result |-> "ok", obj |-> Bare, alone |-> FALSE]

Init ==
  /\ row \in {Bare, Planned}
  /\ cluster = "absent"
  /\ file = FALSE
  /\ run = [r \in Requests |-> IdleRun]
  /\ loop = None
  /\ disturbed = FALSE
  /\ arrivals = 0
  /\ crashes = 0

Active(r) == run[r].pc \in RuntimePCs
Quiet     == \A r \in Requests : ~Active(r)

Begins(r) == loop = None /\ run[r].pc = "idle"

(* An await on a real adapter gives the loop up; without one there is none. *)
Released(real, r) == IF real THEN None ELSE r

(* The loop after the handler of r has ended.                              *)
Free(r) == IF loop = r THEN None ELSE loop

(* should_mock(force_dry_run)                                              *)
Mock(dry) == dry \/ ~RealK8s

Goto(r, pc) == run' = [run EXCEPT ![r].pc = pc]

(* A deploy or a delete begins, alone or beside another.                   *)
Enter(r, start) ==
  /\ run' = [s \in Requests |->
               IF s = r THEN [start EXCEPT !.alone = Quiet]
               ELSE [run[s] EXCEPT !.alone = FALSE]]
  /\ disturbed' = (disturbed \/ ~Quiet)

End(r) ==
  /\ run' = [run EXCEPT ![r] = IdleRun]
  /\ loop' = Free(r)

(* An exception between kubectl and the commit: no row is written.         *)
CutOff(r) == End(r) /\ disturbed' = TRUE /\ UNCHANGED <<row, crashes>>

-----------------------------------------------------------------------------
(* POST /deploy and /apply on a thread, POST /provision on the loop.       *)

Deploy(r, dry, wait) ==
  /\ run[r].pc = "idle"
  /\ row.inst # "none"
  /\ Enter(r, [IdleRun EXCEPT !.pc = "apply", !.mock = Mock(dry),
                              !.wait = wait, !.obj = row])
  /\ UNCHANGED <<row, cluster, file, loop, crashes>>

(* ensure_instance_manifest adds the instance, if there is none, to the    *)
(* session; nobody else sees it before the commit.                         *)
Provision(r, dry) ==
  /\ Begins(r)
  /\ Enter(r, [IdleRun EXCEPT
                 !.pc = "apply", !.provision = TRUE, !.mock = Mock(dry),
                 !.wait = TRUE,
                 !.obj = [row EXCEPT !.inst = IF @ = "none" THEN "generated"
                                              ELSE @]])
  /\ loop' = r
  /\ UNCHANGED <<row, cluster, file, crashes>>

(* kubectl did all its work, or an unknown part of it.                     *)
Partly(all) ==
  cluster' \in {cluster, all, IF cluster = all THEN all ELSE "partial"}

Apply(r) ==
  /\ run[r].pc = "apply"
  /\ \/ /\ run[r].mock
        /\ run' = [run EXCEPT ![r].pc = "file", ![r].wait = FALSE]
        /\ UNCHANGED <<row, cluster, loop, disturbed, crashes>>
     \/ /\ ~run[r].mock
        /\ cluster' = "present"
        /\ Goto(r, "check")
        /\ UNCHANGED <<row, loop, disturbed, crashes>>
     \/ /\ ~run[r].mock
        /\ Partly("present")
        /\ run' = [run EXCEPT ![r].pc = "record", ![r].result = "apply_failed"]
        /\ UNCHANGED <<row, loop, disturbed, crashes>>
     \/ ~run[r].mock /\ Partly("present") /\ CutOff(r)
  /\ UNCHANGED file

(* Mutant: rollout status without --timeout waits for ever.                *)
CheckForever(r) ==
  /\ run[r].pc = "check"
  /\ run[r].wait => cluster # "absent"
  /\ run' = [run EXCEPT ![r].pc = "file", ![r].wait = FALSE]
  /\ UNCHANGED <<row, cluster, file, loop, disturbed, crashes>>

(* kubectl rollout status, if asked to wait, and kubectl get; the former   *)
(* fails for a deployment that is gone, the latter may fail or time out.   *)
Check(r) ==
  /\ run[r].pc = "check"
  /\ \/ /\ run[r].wait => cluster # "absent"
        /\ run' = [run EXCEPT ![r].pc = "file", ![r].wait = FALSE]
        /\ UNCHANGED <<row, loop, disturbed, crashes>>
     \/ \E bad \in {"not_ready", "resource_query_failed"} :
          /\ bad = "not_ready" => run[r].wait
          /\ run' = [run EXCEPT ![r].pc = "record", ![r].result = bad]
          /\ UNCHANGED <<row, loop, disturbed, crashes>>
     \/ CutOff(r)
  /\ UNCHANGED <<cluster, file>>

WriteFile(r) ==
  /\ run[r].pc = "file"
  /\ file' = TRUE
  /\ run' = [run EXCEPT ![r].pc = "record", ![r].result = "ok"]
  /\ UNCHANGED <<row, cluster, loop, disturbed, crashes>>

(* What the handler has assigned by its commit.  When the resource query   *)
(* fails the tenant's status was assigned already.                         *)
Assigned(a) ==
  LET obj == a.obj
  IN CASE a.result = "ok" ->
            [obj EXCEPT !.inst = IF a.mock THEN "running_mock" ELSE "running",
                        !.ten = IF a.mock THEN "runtime_ready_mock"
                                ELSE "runtime_ready"]
       [] a.result = "not_ready" -> [obj EXCEPT !.inst = a.result]
       [] a.result = "resource_query_failed" ->
            [obj EXCEPT !.inst = a.result, !.ten = "runtime_ready"]
       [] a.result = "deleted" ->
            [obj EXCEPT !.inst = a.result, !.ten = "runtime_deleted"]
       [] OTHER -> [obj EXCEPT !.inst = a.result, !.ten = a.result]

(* Mutant: provision goes on after a deploy that failed.                   *)
GoesOnAnyway(a) == a.provision

GoesOn(a) == a.provision /\ a.result = "ok"

(* The commit; a deploy or delete that ran alone and did its work leaves   *)
(* rows, file and cluster in order, whatever happened before.              *)
Record(r) ==
  /\ run[r].pc = "record"
  /\ row' = Flush(run[r].obj, Assigned(run[r]))
  /\ disturbed' = (disturbed /\ ~( run[r].alone
                                   /\ run[r].result \in {"ok", "deleted"} ))
  /\ \/ /\ GoesOn(run[r])
        /\ run' = [run EXCEPT ![r] = [IdleRun EXCEPT !.pc = "init",
                                     !.provision = TRUE, !.mock = run[r].mock,
                                     !.result = run[r].result,
                                     !.alone = run[r].alone]]
        /\ UNCHANGED loop
     \/ ~GoesOn(run[r]) /\ End(r)
  /\ UNCHANGED <<cluster, file, crashes>>

-----------------------------------------------------------------------------
(* POST /delete-runtime, on a thread: kubectl, the file, the commit.       *)

Delete(r) ==
  /\ run[r].pc = "idle"
  /\ row.inst # "none"
  /\ Enter(r, [IdleRun EXCEPT !.pc = "delete", !.mock = Mock(FALSE),
                              !.obj = row])
  /\ UNCHANGED <<row, cluster, file, loop, crashes>>

Remove(r) ==
  /\ run[r].pc = "delete"
  /\ \/ \E result \in {"deleted", "delete_failed"} :
          /\ IF run[r].mock
             THEN result = "deleted" /\ UNCHANGED cluster
             ELSE IF result = "deleted" THEN cluster' = "absent"
             ELSE Partly("absent")
          /\ run' = [run EXCEPT ![r].pc = "exists", ![r].result = result]
          /\ UNCHANGED <<row, loop, disturbed, crashes>>
     \/ ~run[r].mock /\ Partly("absent") /\ CutOff(r)
  /\ UNCHANGED file

(* The file goes, also after a failed kubectl; path.exists() and           *)
(* path.unlink() are two calls.                                            *)
Exists(r) ==
  /\ run[r].pc = "exists"
  /\ Goto(r, IF file THEN "unlink" ELSE "record")
  /\ UNCHANGED <<row, cluster, file, loop, disturbed, crashes>>

(* Mutant: the file stays.                                                 *)
UnlinkNothing(r) ==
  /\ run[r].pc = "unlink"
  /\ Goto(r, "record")
  /\ UNCHANGED <<row, cluster, file, loop, disturbed, crashes>>

Unlink(r) ==
  /\ run[r].pc = "unlink"
  /\ \/ /\ file
        /\ file' = FALSE
        /\ Goto(r, "record")
        /\ UNCHANGED <<row, cluster, loop, disturbed, crashes>>
     \/ ~file /\ CutOff(r) /\ UNCHANGED <<cluster, file>>

-----------------------------------------------------------------------------
(* POST /suspend and /resume and PATCH with a status, on a thread.         *)

SetStatus(r, target) ==
  /\ run[r].pc = "idle"
  /\ run' = [run EXCEPT ![r] =
               [IdleRun EXCEPT !.pc = "set", !.result = target, !.obj = row]]
  /\ UNCHANGED <<row, cluster, file, loop, disturbed, crashes>>

CommitStatus(r) ==
  /\ run[r].pc = "set"
  /\ row' = Flush(run[r].obj, [run[r].obj EXCEPT !.ten = run[r].result])
  /\ End(r)
  /\ UNCHANGED <<cluster, file, disturbed, crashes>>

-----------------------------------------------------------------------------
(* POST /init-newapi and /bind-upstream, alone or as phases of a           *)
(* provision, which forces them.                                           *)

(* The session reads the rows, and the call goes out.                      *)
CallOut(r, calling, real) ==
  /\ run' = [run EXCEPT ![r].pc = calling, ![r].obj = row]
  /\ loop' = Released(real, r)
  /\ UNCHANGED <<row, cluster, file, disturbed, crashes>>

Resumes(r, calling, real) ==
  /\ run[r].pc = calling
  /\ loop = Released(real, r)

(* The phase commits; a provision goes on, an endpoint returns.            *)
Done(r, new, pc) ==
  /\ row' = Flush(run[r].obj, new)
  /\ \/ run[r].provision /\ Goto(r, pc) /\ loop' = r
     \/ ~run[r].provision /\ End(r)
  /\ UNCHANGED <<cluster, file, disturbed, crashes>>

(* The guard also lists runtime_ready and runtime_ready_mock, which no     *)
(* instance is ever given.                                                 *)
InitFrom == {"running", "running_mock"}

InitRequest(r, force) ==
  /\ Begins(r)
  /\ row.inst # "none"
  /\ force \/ row.inst \in InitFrom
  /\ CallOut(r, "initing", RealNewAPI)

InitPhase(r) == run[r].pc = "init" /\ CallOut(r, "initing", RealNewAPI)

Initialized == IF RealNewAPI THEN "newapi_initialized"
               ELSE "newapi_initialized_mock"

(* Mutant: the instance's own status is forgotten.                         *)
InitTenantOnly(r) ==
  /\ Resumes(r, "initing", RealNewAPI)
  /\ Done(r, [run[r].obj EXCEPT !.ten = Initialized], "bind")

InitOk(r) ==
  /\ Resumes(r, "initing", RealNewAPI)
  /\ Done(r, [run[r].obj EXCEPT !.inst = Initialized, !.ten = Initialized],
          "bind")

AwaitsBind == RealNewAPI \/ RealSub2API

BindFrom == InitFrom \cup {"newapi_initialized", "newapi_initialized_mock"}

BindRequest(r, force) ==
  /\ Begins(r)
  /\ row.inst # "none"
  /\ force \/ row.inst \in BindFrom
  /\ CallOut(r, "binding", AwaitsBind)

BindPhase(r) == run[r].pc = "bind" /\ CallOut(r, "binding", AwaitsBind)

Bound == IF RealNewAPI /\ RealSub2API THEN "bound" ELSE "bound_mock"

UpstreamBound == IF Bound = "bound" THEN "upstream_bound"
                 ELSE "upstream_bound_mock"

BindOk(r) ==
  /\ Resumes(r, "binding", AwaitsBind)
  /\ Done(r, [run[r].obj EXCEPT !.up = Bound, !.ten = UpstreamBound], "final")

(* An HTTP error of New API; the Sub2API probe never raises.               *)
CallError(r) ==
  /\ RealNewAPI
  /\ run[r].pc \in {"initing", "binding"}
  /\ loop = None
  /\ End(r)
  /\ UNCHANGED <<row, cluster, file, disturbed, crashes>>

(* The end of a provision.  The session is expired, so that the status is  *)
(* written whatever the row says.                                          *)
Final(r) ==
  /\ run[r].pc = "final"
  /\ row' = [row EXCEPT !.ten = IF run[r].mock THEN "active_mock" ELSE "active"]
  /\ End(r)
  /\ UNCHANGED <<cluster, file, disturbed, crashes>>

(* The process dies; rows, file and cluster stay.                          *)
Crash ==
  /\ crashes < CrashBound
  /\ crashes' = crashes + 1
  /\ run' = [r \in Requests |-> IdleRun]
  /\ loop' = None
  /\ disturbed' = (disturbed \/ ~Quiet)
  /\ UNCHANGED <<row, cluster, file, arrivals>>

-----------------------------------------------------------------------------

Arrive(r) ==
  /\ arrivals < ArrivalBound
  /\ arrivals' = arrivals + 1
  /\ \/ \E dry, wait \in BOOLEAN : Deploy(r, dry, wait)
     \/ \E dry \in BOOLEAN : Provision(r, dry)
     \/ Delete(r)
     \/ \E target \in Targets : SetStatus(r, target)
     \/ \E force \in BOOLEAN : InitRequest(r, force) \/ BindRequest(r, force)

Advance(r) ==
  /\ \/ Apply(r) \/ Check(r) \/ WriteFile(r) \/ Record(r)
     \/ Remove(r) \/ Exists(r) \/ Unlink(r)
     \/ CommitStatus(r)
     \/ InitPhase(r) \/ InitOk(r) \/ BindPhase(r) \/ BindOk(r)
     \/ CallError(r) \/ Final(r)
  /\ UNCHANGED arrivals

Next ==
  \/ \E r \in Requests : Arrive(r) \/ Advance(r)
  \/ Crash

Spec == Init /\ [][Next]_vars

(* The pool's threads run, the loop serves its ready coroutines in turn,   *)
(* HTTP calls and kubectl end at their timeouts.                           *)
FairSpec == Spec /\ \A r \in Requests : SF_vars(Advance(r))

-----------------------------------------------------------------------------
(* Properties.                                                             *)

Request ==
  [pc : PCs, provision : BOOLEAN, mock : BOOLEAN, wait : BOOLEAN,
   result : Results \cup Targets, obj : Row, alone : BOOLEAN]

(* Types; only a provision whose deploy succeeded goes on to the later     *)
(* phases, and there is an instance then (tenant_service.py:362-367).      *)
TypeOK ==
  /\ row \in Row
  /\ cluster \in {"absent", "partial", "present"}
  /\ file \in BOOLEAN
  /\ run \in [Requests -> Request]
  /\ loop \in Requests \cup {None}
  /\ disturbed \in BOOLEAN
  /\ arrivals \in Nat
  /\ crashes \in Nat
  /\ \A r \in Requests :
       run[r].pc \in {"init", "bind", "final"} =>
         /\ run[r].provision /\ run[r].result = "ok"
         /\ row.inst # "none"

(* What the rows say of the runtime.                                       *)
RowsTellTruth ==
  /\ row.inst \in {"running", "running_mock"} => file
  /\ row.inst = "running" => cluster # "absent"
  /\ row.inst = "deleted" => ~file /\ cluster = "absent"
  /\ cluster # "absent" => row.inst \notin {"none", "generated"}

(* While no deploy or delete is under way, the instance row, the mock      *)
(* runtime file and the cluster agree, after any sequence of deploys (dry, *)
(* unready, failed), deletes, inits, binds and status changes, in any      *)
(* overlap that leaves deploys and deletes apart, also after an overlap or *)
(* a cut-off one once a later one succeeds (tenant_service.py:203-310).    *)
Mirror == Quiet /\ ~disturbed => RowsTellTruth

(* A provision calls the tenant active only with a bound upstream; and if  *)
(* nobody deployed or deleted beside it, only over a runtime that is there *)
(* and whose New API is initialized, whatever inits, binds, statuses and   *)
(* failed calls of others were committed during its phases and awaits, and *)
(* whatever it had to start from (tenant_service.py:361-380).              *)
ProvisionDelivers ==
  \A r \in Requests : run[r].pc = "final" =>
    /\ row.up = Bound
    /\ run[r].alone => /\ row.inst = Initialized /\ file
                       /\ run[r].mock \/ cluster = "present"

(* Every request is answered, whatever else the loop and the pool serve.   *)
RequestsEnd == \A r \in Requests : run[r].pc # "idle" ~> run[r].pc = "idle"

(* docs/PHASE_2_5_MOCK.md:24, a mock deploy sets instance.status to        *)
(* running_mock: at least its commit does not leave the row deleted.       *)
DeployRecorded ==
  [][\A r \in Requests :
       run[r].pc = "record" /\ run'[r].pc # "record" /\ run[r].result = "ok"
         /\ crashes' = crashes =>
       row'.inst # "deleted"]_vars

=============================================================================
