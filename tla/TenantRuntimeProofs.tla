------------------------ MODULE TenantRuntimeProofs -------------------------
(***************************************************************************)
(* Type correctness, Mirror and ProvisionDelivers of TenantRuntime, for    *)
(* any requests, statuses, settings and bounds.                            *)
(*                                                                         *)
(* Mirror is inductive only with what a deploy or delete that runs alone   *)
(* may rely on at each of its steps (LoneHolds), which in turn rests on    *)
(* nobody else being able to start one beside it unnoticed (Alone).        *)
(* ProvisionDelivers carries that on through the later phases of a         *)
(* provision (DeliverInv), where a deploy or delete that begins takes the  *)
(* trust away from every provision under way.                              *)
(***************************************************************************)
EXTENDS TenantRuntime, TLAPS

Later == {"init", "initing", "bind", "binding", "final"}

(* What a request's own fields have to do with where it stands.            *)
Fits(a) ==
  /\ a.pc = "idle" => ~a.provision
  /\ a.pc = "set" => a.result \in Targets
  /\ a.pc \in {"exists", "unlink"} => a.result \in {"deleted", "delete_failed"}
  /\ a.pc = "record" => a.result \in Results
  /\ a.pc = "check" => ~a.mock
  /\ a.pc \in {"delete", "exists", "unlink"} => (a.mock <=> ~RealK8s)
  /\ a.pc \in RuntimePCs => a.obj.inst # "none" /\ (~RealK8s => a.mock)
  /\ a.pc \in Later /\ a.provision => a.result = "ok"

Shapes == \A r \in Requests : Fits(run[r])

(* Who works with an instance finds one, or has added it.                  *)
InstanceKept ==
  \A r \in Requests :
    /\ run[r].pc \in Later => row.inst # "none"
    /\ Active(r) => run[r].obj.inst = "generated" \/ row.inst # "none"

TypeInv == TypeOK /\ Shapes /\ InstanceKept

(* A binding that a session has seen stays.                                *)
UpKept == \A r \in Requests : run[r].obj.up = Bound => row.up = Bound

Lone(r) == Active(r) /\ run[r].alone

(* Nobody is active beside a lone request; only an overlap or a failure    *)
(* leaves one that is not alone.                                           *)
Alone ==
  /\ \A r, s \in Requests : Lone(r) /\ Active(s) => r = s
  /\ ~disturbed => \A r \in Requests : Active(r) => run[r].alone

(* Without the real adapter nothing reaches the cluster.                   *)
MockOnly == ~RealK8s => cluster = "absent"

(* What a lone deploy or delete relies on; only an init that awaited its   *)
(* call may have written the instance row since it was loaded.             *)
Holds(a) ==
  LET ok == \/ a.pc \in {"check", "file"}
            \/ a.pc = "record" /\ a.result = "ok"
      gone == a.pc \in {"exists", "unlink", "record"} /\ a.result = "deleted"
  IN /\ \/ row.inst \in {a.obj.inst, Initialized}
        \/ a.obj.inst = "generated"
     /\ ok /\ ~a.mock => cluster = "present"
     /\ gone => cluster = "absent"
     /\ a.pc = "record" /\ a.result = "ok" => file
     /\ a.pc = "record" /\ a.result = "deleted" => ~file

LoneHolds == \A r \in Requests : Lone(r) => Holds(run[r])

MirrorInv == Alone /\ MockOnly /\ LoneHolds /\ Mirror

-----------------------------------------------------------------------------
(* Types.                                                                  *)

LEMMA RowsTyped == Bare \in Row /\ Planned \in Row
BY DEF Bare, Planned, Row, TenantStatuses, InstanceStatuses

LEMMA IdleTyped == IdleRun \in Request /\ IdleRun.pc = "idle" /\ Fits(IdleRun)
BY RowsTyped DEF IdleRun, Request, PCs, Results, Fits, RuntimePCs, Later

LEMMA InitTypes == Init => TypeInv
<1> SUFFICES ASSUME Init PROVE TypeInv
  OBVIOUS
<1>1. run \in [Requests -> Request] /\ \A r \in Requests : run[r] = IdleRun
  BY IdleTyped DEF Init
<1>2. TypeOK
  BY <1>1, IdleTyped, RowsTyped DEF Init, TypeOK
<1>3. Shapes /\ InstanceKept
  BY <1>1, IdleTyped DEF Shapes, InstanceKept, Active, RuntimePCs, Later
<1> QED
  BY <1>2, <1>3 DEF TypeInv

(* A request is replaced, in a state where the instance row is kept.       *)
LEMMA Replaced ==
  ASSUME TypeInv, NEW r \in Requests, NEW a \in Request, Fits(a),
         run' = [run EXCEPT ![r] = a],
         row' \in Row, row.inst # "none" => row'.inst # "none",
         a.pc \in Later => row'.inst # "none",
         a.pc \in {"init", "bind", "final"} => a.provision,
         a.pc \in RuntimePCs => a.obj.inst = "generated" \/ row'.inst # "none"
  PROVE  /\ run' \in [Requests -> Request] /\ Shapes' /\ InstanceKept'
         /\ \A s \in Requests : run'[s].pc \in {"init", "bind", "final"} =>
              /\ run'[s].provision /\ run'[s].result = "ok"
              /\ row'.inst # "none"
BY DEF TypeInv, TypeOK, Shapes, InstanceKept, Active, Fits, Later

LEMMA FlushTyped ==
  ASSUME row \in Row, NEW old \in Row, NEW new \in Row, row' = Flush(old, new)
  PROVE  /\ row' \in Row
         /\ row.inst # "none" /\ new.inst # "none" => row'.inst # "none"
         /\ old.inst = new.inst => row'.inst = row.inst
         /\ old.inst # new.inst => row'.inst = new.inst
         /\ old.ten = new.ten => row'.ten = row.ten
         /\ old.ten # new.ten => row'.ten = new.ten
         /\ row'.up \in {row.up, new.up}
         /\ old.up # new.up => row'.up = new.up
         /\ old.up = new.up => row'.up = row.up
BY DEF Flush, Col, Row

(* What a deploy or delete has assigned, by its result.                    *)
LEMMA AssignedTyped ==
  ASSUME NEW a \in Request, a.result \in Results
  PROVE  /\ Assigned(a) \in Row
         /\ Assigned(a).up = a.obj.up
         /\ Assigned(a).ten \in {a.obj.ten, "runtime_ready",
              "runtime_ready_mock", "apply_failed", "runtime_deleted",
              "delete_failed"}
         /\ Assigned(a).inst =
              IF a.result = "ok"
              THEN IF a.mock THEN "running_mock" ELSE "running"
              ELSE a.result
BY DEF Request, Results, Assigned, Row, TenantStatuses, InstanceStatuses

(* A deploy, a provision or a delete begins.                               *)
LEMMA EnterTyped ==
  ASSUME TypeInv, NEW r \in Requests, NEW a \in Request, Fits(a),
         a.pc \in RuntimePCs, Enter(r, a), UNCHANGED row,
         a.obj.inst = "generated" \/ row.inst # "none"
  PROVE  /\ run' \in [Requests -> Request] /\ disturbed' \in BOOLEAN
         /\ Shapes' /\ InstanceKept'
         /\ \A s \in Requests : run'[s].pc \in {"init", "bind", "final"} =>
              /\ run'[s].provision /\ run'[s].result = "ok"
              /\ row'.inst # "none"
<1> DEFINE b == [a EXCEPT !.alone = Quiet]
<1>1. b \in Request /\ b.pc = a.pc /\ Fits(b) /\ b.obj = a.obj
  BY DEF Request, Quiet, Fits
<1>2. \A s \in Requests \ {r} :
        LET c == [run[s] EXCEPT !.alone = FALSE]
        IN /\ c \in Request /\ Fits(c) /\ c.pc = run[s].pc
           /\ c.provision = run[s].provision /\ c.result = run[s].result
           /\ c.obj = run[s].obj
  BY DEF TypeInv, TypeOK, Request, Shapes, Fits
<1>3. /\ run'[r] = b
      /\ \A s \in Requests \ {r} : run'[s] = [run[s] EXCEPT !.alone = FALSE]
      /\ DOMAIN run' = Requests
      /\ run' = [s \in Requests |-> run'[s]]
  BY DEF Enter
<1> HIDE DEF b
<1>a. \A s \in Requests \ {r} :
        /\ run'[s].pc = run[s].pc /\ run'[s].obj = run[s].obj
        /\ run'[s].result = run[s].result
        /\ run'[s].provision = run[s].provision
  BY <1>2, <1>3
<1>4. run' \in [Requests -> Request] /\ Shapes'
  BY <1>1, <1>2, <1>3 DEF Shapes
<1>5. disturbed' \in BOOLEAN
  BY DEF Enter, TypeInv, TypeOK, Quiet
<1>6. InstanceKept'
  <2>1. ASSUME NEW s \in Requests \ {r}
        PROVE  /\ run'[s].pc \in Later => row'.inst # "none"
               /\ run'[s].pc \in RuntimePCs =>
                    run'[s].obj.inst = "generated" \/ row'.inst # "none"
    BY <1>a, <2>1 DEF InstanceKept, Active, TypeInv
  <2>2. /\ run'[r].pc \notin Later
        /\ run'[r].obj.inst = "generated" \/ row'.inst # "none"
    BY <1>1, <1>3 DEF RuntimePCs, Later
  <2> QED
    BY <2>1, <2>2 DEF InstanceKept, Active
<1>7. \A s \in Requests : run'[s].pc \in {"init", "bind", "final"} =>
        /\ run'[s].provision /\ run'[s].result = "ok"
        /\ row'.inst # "none"
  <2>1. run'[r].pc \notin {"init", "bind", "final"}
    BY <1>1, <1>3 DEF RuntimePCs
  <2>2. ASSUME NEW s \in Requests \ {r},
               run'[s].pc \in {"init", "bind", "final"}
        PROVE  /\ run'[s].provision /\ run'[s].result = "ok"
               /\ row'.inst # "none"
    BY <1>a, <2>2 DEF TypeInv, TypeOK
  <2> QED
    BY <2>1, <2>2
<1> QED
  BY <1>4, <1>5, <1>6, <1>7

(* The other variables keep their types in every step.                     *)
LEMMA OthersTyped ==
  ASSUME TypeInv, NEW r \in Requests, Arrive(r) \/ Advance(r)
  PROVE  /\ cluster' \in {"absent", "partial", "present"}
         /\ file' \in BOOLEAN
         /\ loop' \in Requests \cup {None}
         /\ disturbed' \in BOOLEAN
         /\ arrivals' \in Nat
         /\ crashes' \in Nat
<1> USE DEF TypeInv, TypeOK
<1> DEFINE Typed == /\ cluster' \in {"absent", "partial", "present"}
                    /\ file' \in BOOLEAN
                    /\ loop' \in Requests \cup {None}
                    /\ disturbed' \in BOOLEAN
                    /\ crashes' \in Nat
<1>0. arrivals' \in Nat
  BY DEF Arrive, Advance
<1>1. ASSUME NEW a, Enter(r, a)  PROVE disturbed' \in BOOLEAN
  BY <1>1 DEF Enter, Quiet
<1>2. ASSUME End(r)  PROVE loop' \in Requests \cup {None}
  BY <1>2 DEF End, Free
<1>3. ASSUME NEW all \in {"absent", "present"}, Partly(all)
      PROVE  cluster' \in {"absent", "partial", "present"}
  BY <1>3 DEF Partly
<1>4. ASSUME NEW pc, NEW real, CallOut(r, pc, real)  PROVE Typed
  BY <1>4 DEF CallOut, Released
<1>5. ASSUME NEW pc, NEW new, Done(r, new, pc)  PROVE Typed
  BY <1>5, <1>2 DEF Done
<1>6. CASE Arrive(r)
  <2>1. ASSUME NEW dry \in BOOLEAN, NEW wait \in BOOLEAN, Deploy(r, dry, wait)
        PROVE  Typed
    BY <2>1, <1>1 DEF Deploy
  <2>2. ASSUME NEW dry \in BOOLEAN, Provision(r, dry)  PROVE Typed
    BY <2>2, <1>1 DEF Provision
  <2>3. CASE Delete(r)
    BY <1>0, <1>1, <2>3 DEF Delete
  <2>4. ASSUME NEW target \in Targets, SetStatus(r, target)  PROVE Typed
    BY <2>4 DEF SetStatus
  <2>5. ASSUME NEW force \in BOOLEAN,
               InitRequest(r, force) \/ BindRequest(r, force)
        PROVE  Typed
    BY <2>5, <1>4 DEF InitRequest, BindRequest
  <2> QED
    BY <1>0, <1>6, <2>1, <2>2, <2>3, <2>4, <2>5 DEF Arrive
<1>7. CASE Apply(r) \/ Check(r)
  BY <1>0, <1>2, <1>3, <1>7 DEF Apply, Check, CutOff
<1>8. CASE WriteFile(r) \/ Record(r)
  BY <1>0, <1>2, <1>8 DEF WriteFile, Record
<1>9. CASE Remove(r) \/ Exists(r) \/ Unlink(r)
  BY <1>0, <1>2, <1>3, <1>9 DEF Remove, Exists, Unlink, CutOff
<1>10. CASE CommitStatus(r) \/ CallError(r) \/ Final(r)
  BY <1>0, <1>2, <1>10 DEF CommitStatus, CallError, Final
<1>11. CASE InitPhase(r) \/ BindPhase(r)
  BY <1>0, <1>4, <1>11 DEF InitPhase, BindPhase
<1>12. CASE InitOk(r) \/ BindOk(r)
  BY <1>0, <1>5, <1>12 DEF InitOk, BindOk
<1> QED
  BY <1>6, <1>7, <1>8, <1>9, <1>10, <1>11, <1>12 DEF Advance

(* Rows and requests as the type invariant wants them.                     *)
RowsRuns ==
  /\ row \in Row /\ run \in [Requests -> Request] /\ Shapes /\ InstanceKept
  /\ \A s \in Requests : run[s].pc \in {"init", "bind", "final"} =>
       /\ run[s].provision /\ run[s].result = "ok"
       /\ row.inst # "none"

LEMMA ReplacedTyped ==
  ASSUME TypeInv, NEW r \in Requests, NEW a \in Request, Fits(a),
         run' = [run EXCEPT ![r] = a],
         row' \in Row, row.inst # "none" => row'.inst # "none",
         a.pc \in Later => row'.inst # "none",
         a.pc \in {"init", "bind", "final"} => a.provision,
         a.pc \in RuntimePCs => a.obj.inst = "generated" \/ row'.inst # "none"
  PROVE  RowsRuns'
BY Replaced DEF RowsRuns

LEMMA EndTyped ==
  ASSUME TypeInv, NEW r \in Requests, End(r),
         row' \in Row, row.inst # "none" => row'.inst # "none"
  PROVE  RowsRuns'
<1>1. run' = [run EXCEPT ![r] = IdleRun]
  BY DEF End
<1>2. IdleRun.pc \notin Later \cup RuntimePCs \cup {"init", "bind", "final"}
  BY IdleTyped DEF Later, RuntimePCs
<1> QED
  BY <1>1, <1>2, IdleTyped, ReplacedTyped

(* What is known of the request that steps.                                *)
LEMMA Known ==
  ASSUME TypeInv, NEW r \in Requests
  PROVE  /\ row \in Row /\ run[r] \in Request /\ run[r].obj \in Row
         /\ Fits(run[r])
         /\ run[r].pc \in Later => row.inst # "none"
         /\ run[r].pc \in RuntimePCs =>
              run[r].obj.inst = "generated" \/ row.inst # "none"
BY DEF TypeInv, TypeOK, Request, Shapes, InstanceKept, Active

(* A step of a deploy or delete that leaves the rows alone.                *)
LEMMA MovedTyped ==
  ASSUME TypeInv, NEW r \in Requests, Active(r), NEW a \in Request, Fits(a),
         a.pc \in RuntimePCs, a.obj = run[r].obj,
         run' = [run EXCEPT ![r] = a], UNCHANGED row
  PROVE  RowsRuns'
<1>1. a.pc \notin Later
  BY DEF RuntimePCs, Later
<1> QED
  BY <1>1, Known, ReplacedTyped DEF Active, Later

LEMMA CutOffTyped ==
  ASSUME TypeInv, NEW r \in Requests, CutOff(r)
  PROVE  RowsRuns'
BY EndTyped, Known DEF CutOff

LEMMA ApplyTyped ==
  ASSUME TypeInv, NEW r \in Requests, Apply(r)
  PROVE  RowsRuns'
<1> DEFINE x == run[r]
           a1 == [x EXCEPT !.pc = "file", !.wait = FALSE]
           a2 == [x EXCEPT !.pc = "check"]
           a3 == [x EXCEPT !.pc = "record", !.result = "apply_failed"]
<1>1. /\ x \in Request /\ Fits(x) /\ Active(r) /\ x.pc = "apply"
      /\ run \in [Requests -> Request]
  BY Known DEF Apply, Active, RuntimePCs, TypeInv, TypeOK
<1>2. CASE x.mock /\ UNCHANGED row /\ run' = [run EXCEPT ![r] = a1]
  <2>1. a1 \in Request /\ Fits(a1) /\ a1.pc \in RuntimePCs /\ a1.obj = x.obj
    BY <1>1 DEF Request, PCs, Fits, RuntimePCs, Later
  <2> HIDE DEF a1
  <2> QED
    BY <1>1, <1>2, <2>1, MovedTyped
<1>3. CASE ~x.mock /\ UNCHANGED row /\ run' = [run EXCEPT ![r] = a2]
  <2>1. a2 \in Request /\ Fits(a2) /\ a2.pc \in RuntimePCs /\ a2.obj = x.obj
    BY <1>1, <1>3 DEF Request, PCs, Fits, RuntimePCs, Later
  <2> HIDE DEF a2
  <2> QED
    BY <1>1, <1>3, <2>1, MovedTyped
<1>4. CASE ~x.mock /\ UNCHANGED row /\ run' = [run EXCEPT ![r] = a3]
  <2>1. a3 \in Request /\ Fits(a3) /\ a3.pc \in RuntimePCs /\ a3.obj = x.obj
    BY <1>1, <1>4 DEF Request, PCs, Fits, RuntimePCs, Later, Results
  <2> HIDE DEF a3
  <2> QED
    BY <1>1, <1>4, <2>1, MovedTyped
<1>5. CASE CutOff(r)
  BY <1>5, CutOffTyped
<1> QED
  BY <1>1, <1>2, <1>3, <1>4, <1>5 DEF Apply, Goto

LEMMA CheckTyped ==
  ASSUME TypeInv, NEW r \in Requests, Check(r)
  PROVE  RowsRuns'
<1> DEFINE x == run[r]
           a1 == [x EXCEPT !.pc = "file", !.wait = FALSE]
           a2(bad) == [x EXCEPT !.pc = "record", !.result = bad]
<1>1. /\ x \in Request /\ Fits(x) /\ Active(r) /\ x.pc = "check"
      /\ run \in [Requests -> Request]
  BY Known DEF Check, Active, RuntimePCs, TypeInv, TypeOK
<1>2. CASE UNCHANGED row /\ run' = [run EXCEPT ![r] = a1]
  <2>1. a1 \in Request /\ Fits(a1) /\ a1.pc \in RuntimePCs /\ a1.obj = x.obj
    BY <1>1 DEF Request, PCs, Fits, RuntimePCs, Later
  <2> HIDE DEF a1
  <2> QED
    BY <1>1, <1>2, <2>1, MovedTyped
<1>3. ASSUME NEW bad \in {"not_ready", "resource_query_failed"},
             UNCHANGED row, run' = [run EXCEPT ![r] = a2(bad)]
      PROVE  RowsRuns'
  <2>1. /\ a2(bad) \in Request /\ Fits(a2(bad)) /\ a2(bad).obj = x.obj
        /\ a2(bad).pc \in RuntimePCs
    BY <1>1, <1>3 DEF Request, PCs, Fits, RuntimePCs, Later, Results
  <2> HIDE DEF a2
  <2> QED
    BY <1>1, <1>3, <2>1, MovedTyped
<1>4. CASE CutOff(r)
  BY <1>4, CutOffTyped
<1> QED
  BY <1>1, <1>2, <1>3, <1>4 DEF Check

LEMMA WriteFileTyped ==
  ASSUME TypeInv, NEW r \in Requests, WriteFile(r)
  PROVE  RowsRuns'
<1> DEFINE x == run[r]
           a == [x EXCEPT !.pc = "record", !.result = "ok"]
<1>1. x \in Request /\ Fits(x) /\ Active(r) /\ x.pc = "file"
  BY Known DEF WriteFile, Active, RuntimePCs
<1>2. run' = [run EXCEPT ![r] = a] /\ UNCHANGED row
  BY DEF WriteFile, TypeInv, TypeOK
<1>3. a \in Request /\ Fits(a) /\ a.pc \in RuntimePCs /\ a.obj = x.obj
  BY <1>1 DEF Request, PCs, Fits, RuntimePCs, Later, Results
<1> HIDE DEF a
<1> QED
  BY <1>1, <1>2, <1>3, MovedTyped

LEMMA RecordTyped ==
  ASSUME TypeInv, NEW r \in Requests, Record(r)
  PROVE  RowsRuns'
<1> DEFINE x == run[r]
           a == [IdleRun EXCEPT !.pc = "init", !.provision = TRUE,
                                !.mock = x.mock, !.result = x.result,
                                !.alone = x.alone]
<1>1. /\ x \in Request /\ x.obj \in Row /\ Fits(x) /\ x.pc = "record"
      /\ row \in Row
      /\ x.obj.inst = "generated" \/ row.inst # "none"
  BY Known DEF Record, RuntimePCs
<1>2. x.result \in Results /\ x.obj.inst # "none"
  BY <1>1 DEF Fits, RuntimePCs
<1>3. /\ Assigned(x) \in Row
      /\ Assigned(x).inst \notin {"none", "generated"}
  BY <1>1, <1>2, AssignedTyped DEF Results
<1>4. row' = Flush(x.obj, Assigned(x))
  BY DEF Record
<1>5. row' \in Row /\ row'.inst # "none"
  <2> DEFINE new == Assigned(x)
  <2>1. x.obj \in Row /\ new \in Row /\ row' = Flush(x.obj, new)
    BY <1>1, <1>3, <1>4
  <2> HIDE DEF new
  <2>2. row \in Row /\ x.obj.inst # "none" /\ new.inst # "none"
    BY <1>1, <1>2, <1>3 DEF new
  <2>3. /\ row' \in Row
        /\ row.inst # "none" => row'.inst # "none"
        /\ x.obj.inst # new.inst => row'.inst = new.inst
    BY <2>1, <2>2, FlushTyped
  <2>4. new.inst # "generated"
    BY <1>3 DEF new
  <2> HIDE DEF x
  <2> QED
    BY <1>1, <2>2, <2>3, <2>4
<1>6. CASE GoesOn(x) /\ run' = [run EXCEPT ![r] = a]
  <2>1. a \in Request /\ a.pc = "init" /\ Fits(a) /\ a.provision
    BY <1>1, <1>6, IdleTyped
       DEF Request, PCs, Fits, RuntimePCs, Later, GoesOn
  <2> HIDE DEF a
  <2>2. a.pc \notin RuntimePCs
    BY <2>1 DEF RuntimePCs
  <2> QED
    BY <1>5, <1>6, <2>1, <2>2, ReplacedTyped
<1>7. CASE End(r)
  BY <1>5, <1>7, EndTyped
<1> QED
  BY <1>6, <1>7 DEF Record

LEMMA RemoveTyped ==
  ASSUME TypeInv, NEW r \in Requests, Remove(r)
  PROVE  RowsRuns'
<1> DEFINE x == run[r]
           a(result) == [x EXCEPT !.pc = "exists", !.result = result]
<1>1. /\ x \in Request /\ Fits(x) /\ Active(r) /\ x.pc = "delete"
      /\ run \in [Requests -> Request]
  BY Known DEF Remove, Active, RuntimePCs, TypeInv, TypeOK
<1>2. ASSUME NEW result \in {"deleted", "delete_failed"},
             UNCHANGED row, run' = [run EXCEPT ![r] = a(result)]
      PROVE  RowsRuns'
  <2>1. /\ a(result) \in Request /\ Fits(a(result))
        /\ a(result).obj = x.obj /\ a(result).pc \in RuntimePCs
    BY <1>1, <1>2 DEF Request, PCs, Fits, RuntimePCs, Later, Results
  <2> HIDE DEF a
  <2> QED
    BY <1>1, <1>2, <2>1, MovedTyped
<1>3. CASE CutOff(r)
  BY <1>3, CutOffTyped
<1> QED
  BY <1>1, <1>2, <1>3 DEF Remove

LEMMA UnlinkTyped ==
  ASSUME TypeInv, NEW r \in Requests, Exists(r) \/ Unlink(r)
  PROVE  RowsRuns'
<1> DEFINE x == run[r]
           a(pc) == [x EXCEPT !.pc = pc]
<1>1. /\ x \in Request /\ Fits(x) /\ Active(r)
      /\ x.pc \in {"exists", "unlink"} /\ run \in [Requests -> Request]
  BY Known DEF Exists, Unlink, Active, RuntimePCs, TypeInv, TypeOK
<1>2. ASSUME NEW pc \in {"unlink", "record"}, UNCHANGED row, Goto(r, pc)
      PROVE  RowsRuns'
  <2>1. /\ a(pc) \in Request /\ Fits(a(pc)) /\ a(pc).obj = x.obj
        /\ a(pc).pc \in RuntimePCs
    BY <1>1, <1>2 DEF Request, PCs, Fits, RuntimePCs, Later, Results
  <2>2. run' = [run EXCEPT ![r] = a(pc)]
    BY <1>1, <1>2 DEF Goto
  <2> HIDE DEF a
  <2> QED
    BY <1>1, <1>2, <2>1, <2>2, MovedTyped
<1>3. CASE CutOff(r)
  BY <1>3, CutOffTyped
<1> QED
  BY <1>1, <1>2, <1>3 DEF Exists, Unlink

LEMMA SetStatusTyped ==
  ASSUME TypeInv, NEW r \in Requests, NEW target \in Targets,
         SetStatus(r, target)
  PROVE  RowsRuns'
<1> DEFINE a == [IdleRun EXCEPT !.pc = "set", !.result = target, !.obj = row]
<1>1. row \in Row
  BY Known
<1>2. a \in Request /\ Fits(a) /\ a.pc = "set"
  BY <1>1, IdleTyped DEF Request, PCs, Fits, RuntimePCs, Later
<1>3. run' = [run EXCEPT ![r] = a] /\ UNCHANGED row
  BY DEF SetStatus
<1> HIDE DEF a
<1>4. a.pc \notin RuntimePCs \cup Later \cup {"init", "bind", "final"}
  BY <1>2 DEF RuntimePCs, Later
<1> QED
  BY <1>1, <1>2, <1>3, <1>4, ReplacedTyped

LEMMA CommitStatusTyped ==
  ASSUME TypeInv, NEW r \in Requests, CommitStatus(r)
  PROVE  RowsRuns'
<1> DEFINE new == [run[r].obj EXCEPT !.ten = run[r].result]
<1>1. run[r].obj \in Row /\ row \in Row /\ run[r].result \in Targets
  BY Known DEF CommitStatus, Fits
<1>2. new \in Row /\ new.inst = run[r].obj.inst
  BY <1>1 DEF Row, TenantStatuses
<1>3. row' = Flush(run[r].obj, new) /\ End(r)
  BY DEF CommitStatus
<1> HIDE DEF new
<1> QED
  BY <1>1, <1>2, <1>3, FlushTyped, EndTyped

LEMMA CallOutTyped ==
  ASSUME TypeInv, NEW r \in Requests, NEW pc \in {"initing", "binding"},
         NEW real, CallOut(r, pc, real), row.inst # "none",
         run[r].provision => run[r].result = "ok"
  PROVE  RowsRuns'
<1> DEFINE a == [run[r] EXCEPT !.pc = pc, !.obj = row]
<1>1. run[r] \in Request /\ row \in Row
  BY Known
<1>2. a \in Request /\ Fits(a) /\ a.pc = pc
  BY <1>1 DEF Request, PCs, Fits, RuntimePCs, Later
<1>3. run' = [run EXCEPT ![r] = a] /\ UNCHANGED row
  BY DEF CallOut, TypeInv, TypeOK
<1> HIDE DEF a
<1>4. a.pc \notin RuntimePCs \cup {"init", "bind", "final"}
  BY <1>2 DEF RuntimePCs
<1> QED
  BY <1>1, <1>2, <1>3, <1>4, ReplacedTyped

LEMMA DoneTyped ==
  ASSUME TypeInv, NEW r \in Requests, NEW pc \in {"bind", "final"},
         run[r].pc \in Later, NEW new \in Row, Done(r, new, pc),
         new.inst \in {run[r].obj.inst, Initialized}
  PROVE  RowsRuns'
<1> DEFINE a == [run[r] EXCEPT !.pc = pc]
<1>1. /\ run[r] \in Request /\ run[r].obj \in Row /\ row \in Row
      /\ row.inst # "none" /\ Fits(run[r])
  BY Known
<1>2. row' = Flush(run[r].obj, new)
  BY DEF Done
<1>3. row' \in Row /\ row'.inst # "none"
  BY <1>1, <1>2, FlushTyped DEF Initialized
<1>4. CASE run[r].provision /\ Goto(r, pc)
  <2>1. a \in Request /\ Fits(a) /\ a.pc = pc /\ a.provision
    BY <1>1, <1>4 DEF Request, PCs, Fits, RuntimePCs, Later
  <2>2. run' = [run EXCEPT ![r] = a]
    BY <1>4 DEF Goto, TypeInv, TypeOK
  <2> HIDE DEF a
  <2>3. a.pc \notin RuntimePCs
    BY <2>1 DEF RuntimePCs
  <2> QED
    BY <1>3, <2>1, <2>2, <2>3, ReplacedTyped
<1>5. CASE End(r)
  BY <1>3, <1>5, EndTyped
<1> QED
  BY <1>4, <1>5 DEF Done

LEMMA NewRows ==
  ASSUME NEW obj \in Row
  PROVE  /\ [obj EXCEPT !.inst = Initialized, !.ten = Initialized] \in Row
         /\ [obj EXCEPT !.up = Bound, !.ten = UpstreamBound] \in Row
         /\ \A mock \in BOOLEAN :
              [obj EXCEPT !.ten = IF mock THEN "active_mock" ELSE "active"]
                \in Row
BY DEF Row, Initialized, Bound, UpstreamBound, InstanceStatuses, TenantStatuses

LEMMA LaterTyped ==
  ASSUME TypeInv, NEW r \in Requests,
         \/ InitPhase(r) \/ InitOk(r) \/ BindPhase(r) \/ BindOk(r)
         \/ CallError(r) \/ Final(r)
  PROVE  RowsRuns'
<1>1. CASE InitPhase(r) \/ BindPhase(r)
  <2>1. /\ run[r].pc \in {"init", "bind"}
        /\ \E pc \in {"initing", "binding"} :
             CallOut(r, pc, RealNewAPI) \/ CallOut(r, pc, AwaitsBind)
    BY <1>1 DEF InitPhase, BindPhase
  <2>2. row.inst # "none" /\ run[r].result = "ok"
    BY <2>1 DEF TypeInv, TypeOK
  <2> QED
    BY <2>1, <2>2, CallOutTyped
<1>2. CASE InitOk(r)
  <2> DEFINE new == [run[r].obj EXCEPT !.inst = Initialized, !.ten = Initialized]
  <2>1. run[r].obj \in Row /\ run[r].pc \in Later /\ Done(r, new, "bind")
    BY <1>2, Known DEF InitOk, Resumes, Later
  <2>2. new \in Row /\ new.inst = Initialized
    BY <2>1, NewRows DEF Row
  <2> HIDE DEF new
  <2> QED
    BY <2>1, <2>2, DoneTyped
<1>3. CASE BindOk(r)
  <2> DEFINE new == [run[r].obj EXCEPT !.up = Bound, !.ten = UpstreamBound]
  <2>1. run[r].obj \in Row /\ run[r].pc \in Later /\ Done(r, new, "final")
    BY <1>3, Known DEF BindOk, Resumes, Later
  <2>2. new \in Row /\ new.inst = run[r].obj.inst
    BY <2>1, NewRows DEF Row
  <2> HIDE DEF new
  <2> QED
    BY <2>1, <2>2, DoneTyped
<1>4. CASE CallError(r)
  BY <1>4, Known, EndTyped DEF CallError
<1>5. CASE Final(r)
  <2>1. row \in Row /\ run[r].mock \in BOOLEAN /\ End(r)
    BY <1>5, Known DEF Request, Final
  <2>2. row' \in Row /\ row'.inst = row.inst
    BY <1>5, <2>1, NewRows DEF Final, Row
  <2> QED
    BY <2>1, <2>2, EndTyped
<1> QED
  BY <1>1, <1>2, <1>3, <1>4, <1>5

LEMMA ArriveTyped ==
  ASSUME TypeInv, NEW r \in Requests, Arrive(r)
  PROVE  RowsRuns'
<1>0. /\ row \in Row /\ run[r] \in Request /\ Fits(run[r])
      /\ IdleRun.provision = FALSE
  BY Known DEF IdleRun
<1>1. ASSUME NEW a \in Request, Fits(a), a.pc \in RuntimePCs, Enter(r, a),
             UNCHANGED row, a.obj.inst = "generated" \/ row.inst # "none"
      PROVE  RowsRuns'
  BY <1>0, <1>1, EnterTyped DEF RowsRuns
<1>2. ASSUME NEW dry \in BOOLEAN, NEW wait \in BOOLEAN, Deploy(r, dry, wait)
      PROVE  RowsRuns'
  <2> DEFINE a == [IdleRun EXCEPT !.pc = "apply", !.mock = Mock(dry),
                                  !.wait = wait, !.obj = row]
  <2>1. Enter(r, a) /\ UNCHANGED row /\ row.inst # "none"
    BY <1>2 DEF Deploy
  <2>2. /\ a \in Request /\ Fits(a)
        /\ a.pc \in RuntimePCs /\ a.obj = row
    BY <1>0, <2>1, IdleTyped, SettingsAssumption
       DEF Request, PCs, Fits, RuntimePCs, Later, Mock
  <2> HIDE DEF a
  <2> QED
    BY <1>1, <2>1, <2>2
<1>3. ASSUME NEW dry \in BOOLEAN, Provision(r, dry)
      PROVE  RowsRuns'
  <2> DEFINE obj == [row EXCEPT !.inst = IF @ = "none" THEN "generated" ELSE @]
             a == [IdleRun EXCEPT !.pc = "apply", !.provision = TRUE,
                                  !.mock = Mock(dry), !.wait = TRUE,
                                  !.obj = obj]
  <2>1. Enter(r, a) /\ UNCHANGED row
    BY <1>3 DEF Provision
  <2>2. /\ obj \in Row /\ obj.inst # "none"
        /\ obj.inst = "generated" \/ row.inst # "none"
    BY <1>0 DEF Row, InstanceStatuses
  <2> HIDE DEF obj
  <2>3. /\ a \in Request /\ Fits(a)
        /\ a.pc \in RuntimePCs /\ a.obj = obj
    BY <1>0, <2>2, IdleTyped, SettingsAssumption
       DEF Request, PCs, Fits, RuntimePCs, Later, Mock
  <2> HIDE DEF a
  <2> QED
    BY <1>1, <2>1, <2>2, <2>3
<1>4. CASE Delete(r)
  <2> DEFINE a == [IdleRun EXCEPT !.pc = "delete", !.mock = Mock(FALSE),
                                  !.obj = row]
  <2>1. Enter(r, a) /\ UNCHANGED row /\ row.inst # "none"
    BY <1>4 DEF Delete
  <2>2. /\ a \in Request /\ Fits(a)
        /\ a.pc \in RuntimePCs /\ a.obj = row
    BY <1>0, <2>1, IdleTyped, SettingsAssumption
       DEF Request, PCs, Fits, RuntimePCs, Later, Mock
  <2> HIDE DEF a
  <2> QED
    BY <1>1, <2>1, <2>2
<1>5. ASSUME NEW force \in BOOLEAN,
             InitRequest(r, force) \/ BindRequest(r, force)
      PROVE  RowsRuns'
  <2>1. /\ row.inst # "none" /\ ~run[r].provision
        /\ \E pc \in {"initing", "binding"} :
             CallOut(r, pc, RealNewAPI) \/ CallOut(r, pc, AwaitsBind)
    BY <1>0, <1>5 DEF InitRequest, BindRequest, Begins, Fits
  <2> QED
    BY <2>1, CallOutTyped
<1> QED
  BY <1>2, <1>3, <1>4, <1>5, SetStatusTyped DEF Arrive

LEMMA CrashTyped ==
  ASSUME TypeInv, Crash
  PROVE  TypeInv'
<1>1. run' \in [Requests -> Request] /\ \A r \in Requests : run'[r] = IdleRun
  BY IdleTyped DEF Crash
<1>2. TypeOK'
  BY <1>1, IdleTyped, BoundAssumption DEF Crash, TypeInv, TypeOK, Quiet
<1>3. Shapes' /\ InstanceKept'
  BY <1>1, IdleTyped DEF Shapes, InstanceKept, Active, RuntimePCs, Later
<1> QED
  BY <1>2, <1>3 DEF TypeInv

LEMMA TypeStep == TypeInv /\ [Next]_vars => TypeInv'
<1> SUFFICES ASSUME TypeInv, [Next]_vars PROVE TypeInv'
  OBVIOUS
<1>1. ASSUME NEW r \in Requests, Arrive(r) \/ Advance(r)
      PROVE  TypeInv'
  <2>1. RowsRuns'
    BY <1>1, ArriveTyped, ApplyTyped, CheckTyped, WriteFileTyped, RecordTyped,
       RemoveTyped, UnlinkTyped, CommitStatusTyped, LaterTyped DEF Advance
  <2> QED
    BY <1>1, <2>1, OthersTyped DEF RowsRuns, TypeInv, TypeOK
<1>2. CASE UNCHANGED vars
  BY <1>2 DEF vars, TypeInv, TypeOK, Shapes, InstanceKept, Active
<1> QED
  BY <1>1, <1>2, CrashTyped DEF Next

(* In every reachable state rows and requests are well formed, and only a  *)
(* provision whose deploy succeeded is in a later phase.                   *)
THEOREM TypeCorrect == Spec => []TypeOK
<1>1. Spec => []TypeInv
  BY InitTypes, TypeStep, PTL DEF Spec
<1> QED
  BY <1>1, PTL DEF TypeInv

-----------------------------------------------------------------------------
(* What a step does to requests.                                           *)

Same(a, b) ==
  a.pc = b.pc /\ a.obj = b.obj /\ a.result = b.result /\ a.mock = b.mock

(* A deploy or delete enters at its first step with the rows as they are.  *)
LEMMA Entered ==
  ASSUME TypeInv, NEW r \in Requests,
         \/ \E dry, wait \in BOOLEAN : Deploy(r, dry, wait)
         \/ \E dry \in BOOLEAN : Provision(r, dry)
         \/ Delete(r)
  PROVE  /\ run[r].pc = "idle" /\ UNCHANGED <<row, cluster, file, crashes>>
         /\ disturbed' = (disturbed \/ ~Quiet)
         /\ run'[r].pc \in {"apply", "delete"} /\ run'[r].alone = Quiet
         /\ \/ run'[r].obj = row
            \/ /\ run'[r].obj.inst = "generated"
               /\ run'[r].obj.up = row.up
         /\ \A s \in Requests \ {r} :
              Same(run'[s], run[s]) /\ run'[s].alone = FALSE
<1>0. row \in Row /\ run \in [Requests -> Request]
  BY DEF TypeInv, TypeOK
<1>1. ASSUME NEW a, Enter(r, a),
             a \in Request
      PROVE  /\ disturbed' = (disturbed \/ ~Quiet)
             /\ run'[r].pc = a.pc /\ run'[r].obj = a.obj
             /\ run'[r].alone = Quiet
             /\ \A s \in Requests \ {r} :
                  Same(run'[s], run[s]) /\ run'[s].alone = FALSE
  BY <1>0, <1>1 DEF Enter, Request, Same
<1>2. ASSUME NEW dry \in BOOLEAN, NEW wait \in BOOLEAN, Deploy(r, dry, wait)
      PROVE  /\ run[r].pc = "idle" /\ UNCHANGED <<row, cluster, file, crashes>>
             /\ \E a \in Request : /\ Enter(r, a) /\ a.obj = row
                                   /\ a.pc = "apply"
  <2> DEFINE a == [IdleRun EXCEPT !.pc = "apply", !.mock = Mock(dry),
                                  !.wait = wait, !.obj = row]
  <2>1. a \in Request /\ a.obj = row /\ a.pc = "apply"
    BY <1>0, IdleTyped, SettingsAssumption DEF Request, PCs, RuntimePCs, Mock
  <2>2. Enter(r, a) /\ run[r].pc = "idle"
    BY <1>2 DEF Deploy
  <2>3. UNCHANGED <<row, cluster, file, crashes>>
    BY <1>2 DEF Deploy
  <2> HIDE DEF a
  <2> QED
    BY <2>1, <2>2, <2>3
<1>3. ASSUME NEW dry \in BOOLEAN, Provision(r, dry)
      PROVE  /\ run[r].pc = "idle" /\ UNCHANGED <<row, cluster, file, crashes>>
             /\ \E a \in Request :
                  /\ Enter(r, a) /\ a.pc = "apply"
                  /\ \/ a.obj = row
                     \/ a.obj.inst = "generated" /\ a.obj.up = row.up
  <2> DEFINE obj == [row EXCEPT !.inst = IF @ = "none" THEN "generated" ELSE @]
             a == [IdleRun EXCEPT !.pc = "apply", !.provision = TRUE,
                                  !.mock = Mock(dry), !.wait = TRUE,
                                  !.obj = obj]
  <2>1. /\ obj \in Row
        /\ obj = row \/ (obj.inst = "generated" /\ obj.up = row.up)
    <3>1. CASE row.inst = "none"
      BY <1>0, <3>1 DEF Row, InstanceStatuses
    <3>2. CASE row.inst # "none"
      BY <1>0, <3>2 DEF Row
    <3> QED
      BY <3>1, <3>2
  <2> HIDE DEF obj
  <2>2. a \in Request /\ a.obj = obj /\ a.pc = "apply"
    BY <2>1, IdleTyped, SettingsAssumption DEF Request, PCs, RuntimePCs, Mock
  <2>3. Enter(r, a) /\ run[r].pc = "idle"
    BY <1>3 DEF Provision, Begins, obj
  <2>4. UNCHANGED <<row, cluster, file, crashes>>
    BY <1>3 DEF Provision
  <2> HIDE DEF a
  <2> QED
    BY <2>1, <2>2, <2>3, <2>4
<1>4. ASSUME Delete(r)
      PROVE  /\ run[r].pc = "idle" /\ UNCHANGED <<row, cluster, file, crashes>>
             /\ \E a \in Request : /\ Enter(r, a) /\ a.obj = row
                                   /\ a.pc = "delete"
  <2> DEFINE a == [IdleRun EXCEPT !.pc = "delete", !.mock = Mock(FALSE),
                                  !.obj = row]
  <2>1. a \in Request /\ a.obj = row /\ a.pc = "delete"
    BY <1>0, IdleTyped, SettingsAssumption DEF Request, PCs, RuntimePCs, Mock
  <2>2. Enter(r, a) /\ run[r].pc = "idle"
    BY <1>4 DEF Delete
  <2>3. UNCHANGED <<row, cluster, file, crashes>>
    BY <1>4 DEF Delete
  <2> HIDE DEF a
  <2> QED
    BY <2>1, <2>2, <2>3
<1> QED
  BY <1>1, <1>2, <1>3, <1>4

(* Every other step is of one request and its session.                     *)
Other(r) ==
  \/ \E target \in Targets : SetStatus(r, target)
  \/ \E force \in BOOLEAN : InitRequest(r, force) \/ BindRequest(r, force)
  \/ Advance(r)

LEMMA OneSteps ==
  ASSUME TypeInv, NEW r \in Requests, Other(r)
  PROVE  /\ \A s \in Requests \ {r} : run'[s] = run[s]
         /\ run'[r].obj \in {run[r].obj, row, Bare}
         /\ run'[r].pc = "final" => run[r].pc = "final" \/ BindOk(r)
<1> DEFINE Goal == /\ \A s \in Requests \ {r} : run'[s] = run[s]
                   /\ run'[r].obj \in {run[r].obj, row, Bare}
                   /\ run'[r].pc = "final" => run[r].pc = "final" \/ BindOk(r)
<1>0. run \in [Requests -> Request] /\ run[r] \in Request
  BY Known DEF TypeInv, TypeOK
<1>1. ASSUME NEW a, run' = [run EXCEPT ![r] = a],
             a.obj \in {run[r].obj, row, Bare},
             a.pc = "final" => run[r].pc = "final" \/ BindOk(r)
      PROVE  Goal
  BY <1>0, <1>1
<1>2. ASSUME End(r)  PROVE Goal
  <2>1. IdleRun.obj = Bare /\ IdleRun.pc # "final"
    BY DEF IdleRun
  <2> QED
    BY <1>1, <1>2, <2>1 DEF End
<1>3. ASSUME NEW pc, Goto(r, pc), pc = "final" => BindOk(r)  PROVE Goal
  <2> DEFINE a == [run[r] EXCEPT !.pc = pc]
  <2>1. a.obj = run[r].obj /\ a.pc = pc
    BY <1>0 DEF Request
  <2>2. run' = [run EXCEPT ![r] = a]
    BY <1>0, <1>3 DEF Goto
  <2> HIDE DEF a
  <2> QED
    BY <1>1, <1>3, <2>1, <2>2
<1>4. ASSUME NEW pc \in {"initing", "binding"}, NEW real, CallOut(r, pc, real)
      PROVE  Goal
  <2> DEFINE a == [run[r] EXCEPT !.pc = pc, !.obj = row]
  <2>1. a.obj = row /\ a.pc = pc
    BY <1>0 DEF Request
  <2>2. run' = [run EXCEPT ![r] = a]
    BY <1>0, <1>4 DEF CallOut
  <2> HIDE DEF a
  <2> QED
    BY <1>1, <1>4, <2>1, <2>2
<1>5. ASSUME NEW a, run' = [run EXCEPT ![r] = a], a.obj = run[r].obj,
             a.pc \in RuntimePCs
      PROVE  Goal
  BY <1>1, <1>5 DEF RuntimePCs
<1> HIDE DEF Goal
<1>6. ASSUME \E target \in Targets : SetStatus(r, target)
      PROVE  Goal
  <2> PICK target \in Targets : SetStatus(r, target)
    BY <1>6
  <2> DEFINE a == [IdleRun EXCEPT !.pc = "set", !.result = target, !.obj = row]
  <2>1. a.obj = row /\ a.pc = "set"
    BY IdleTyped DEF Request
  <2>2. run' = [run EXCEPT ![r] = a]
    BY DEF SetStatus
  <2> HIDE DEF a
  <2> QED
    BY <1>1, <2>1, <2>2
<1>7. ASSUME \/ \E force \in BOOLEAN : InitRequest(r, force) \/ BindRequest(r, force)
           \/ InitPhase(r) \/ BindPhase(r)
      PROVE  Goal
  BY <1>4, <1>7 DEF InitRequest, BindRequest, InitPhase, BindPhase
<1>8. ASSUME CommitStatus(r) \/ CallError(r) \/ Final(r)
      PROVE  Goal
  BY <1>2, <1>8 DEF CommitStatus, CallError, Final
<1>9. ASSUME InitOk(r) \/ BindOk(r)
      PROVE  Goal
  BY <1>2, <1>3, <1>9 DEF InitOk, BindOk, Done
<1>10. ASSUME Apply(r)
      PROVE  Goal
  <2> DEFINE a1 == [run[r] EXCEPT !.pc = "file", !.wait = FALSE]
             a2 == [run[r] EXCEPT !.pc = "record", !.result = "apply_failed"]
  <2>1. \A a \in {a1, a2} : a.obj = run[r].obj /\ a.pc \in RuntimePCs
    BY <1>0 DEF Request, RuntimePCs
  <2>2. \/ \E a \in {a1, a2} : run' = [run EXCEPT ![r] = a]
        \/ Goto(r, "check") \/ End(r)
    BY <1>0, <1>10 DEF Apply, CutOff
  <2> HIDE DEF a1, a2
  <2> QED
    BY <1>2, <1>3, <1>5, <2>1, <2>2
<1>11. ASSUME Check(r)
      PROVE  Goal
  <2> DEFINE a1 == [run[r] EXCEPT !.pc = "file", !.wait = FALSE]
             a2(bad) == [run[r] EXCEPT !.pc = "record", !.result = bad]
  <2>1. /\ a1.obj = run[r].obj /\ a1.pc \in RuntimePCs
        /\ \A bad : a2(bad).obj = run[r].obj /\ a2(bad).pc \in RuntimePCs
    BY <1>0 DEF Request, RuntimePCs
  <2>2. \/ run' = [run EXCEPT ![r] = a1]
        \/ \E bad : run' = [run EXCEPT ![r] = a2(bad)]
        \/ End(r)
    BY <1>0, <1>11 DEF Check, CutOff
  <2> HIDE DEF a1, a2
  <2> QED
    BY <1>2, <1>5, <2>1, <2>2
<1>12. ASSUME WriteFile(r)
      PROVE  Goal
  <2> DEFINE a == [run[r] EXCEPT !.pc = "record", !.result = "ok"]
  <2>1. a.obj = run[r].obj /\ a.pc \in RuntimePCs
    BY <1>0 DEF Request, RuntimePCs
  <2>2. run' = [run EXCEPT ![r] = a]
    BY <1>0, <1>12 DEF WriteFile
  <2> HIDE DEF a
  <2> QED
    BY <1>5, <2>1, <2>2
<1>13. ASSUME Remove(r)
      PROVE  Goal
  <2> DEFINE a(res) == [run[r] EXCEPT !.pc = "exists", !.result = res]
  <2>1. \A res : a(res).obj = run[r].obj /\ a(res).pc \in RuntimePCs
    BY <1>0 DEF Request, RuntimePCs
  <2>2. (\E res : run' = [run EXCEPT ![r] = a(res)]) \/ End(r)
    BY <1>0, <1>13 DEF Remove, CutOff
  <2> HIDE DEF a
  <2> QED
    BY <1>2, <1>5, <2>1, <2>2
<1>14. ASSUME Exists(r) \/ Unlink(r)
      PROVE  Goal
  BY <1>2, <1>3, <1>14 DEF Exists, Unlink, CutOff
<1>15. ASSUME Record(r)
      PROVE  Goal
  <2> DEFINE a == [IdleRun EXCEPT !.pc = "init", !.provision = TRUE,
                                  !.mock = run[r].mock,
                                  !.result = run[r].result,
                                  !.alone = run[r].alone]
  <2>1. a.obj = Bare /\ a.pc = "init"
    BY IdleTyped DEF Request, IdleRun
  <2>2. run' = [run EXCEPT ![r] = a] \/ End(r)
    BY <1>15 DEF Record
  <2> HIDE DEF a
  <2> QED
    BY <1>1, <1>2, <2>1, <2>2
<1> QED
  BY <1>6, <1>7, <1>8, <1>9, <1>10, <1>11, <1>12, <1>13, <1>14, <1>15
     DEF Other, Advance, Goal

-----------------------------------------------------------------------------
(* The upstream row.                                                       *)

(* Who is about to call the tenant active has just bound it.               *)
FinalBound == \A r \in Requests : run[r].pc = "final" => row.up = Bound

(* Only a bind changes the upstream, and it sets it to Bound.              *)
LEMMA RowBound ==
  ASSUME TypeInv, UpKept, NEW r \in Requests, Arrive(r) \/ Advance(r)
  PROVE  /\ row.up = Bound => row'.up = Bound
         /\ BindOk(r) => row'.up = Bound
<1>0. /\ row \in Row /\ run[r].obj \in Row /\ Fits(run[r])
      /\ run[r] \in Request
  BY Known
<1>1. ASSUME NEW new \in Row, row' = Flush(run[r].obj, new),
             new.up = run[r].obj.up
      PROVE  row'.up = row.up
  BY <1>0, <1>1, FlushTyped
<1>2. ASSUME BindOk(r)  PROVE row'.up = Bound
  <2> DEFINE new == [run[r].obj EXCEPT !.up = Bound, !.ten = UpstreamBound]
  <2>1. new \in Row /\ new.up = Bound
    BY <1>0, NewRows DEF Row
  <2>2. row' = Flush(run[r].obj, new)
    BY <1>2 DEF BindOk, Done
  <2>3. run[r].obj.up = Bound => row.up = Bound
    BY DEF UpKept
  <2> HIDE DEF new
  <2> QED
    BY <1>0, <2>1, <2>2, <2>3, FlushTyped
<1>3. ASSUME InitOk(r)  PROVE row'.up = row.up
  <2> DEFINE new == [run[r].obj EXCEPT !.inst = Initialized, !.ten = Initialized]
  <2>1. new \in Row /\ new.up = run[r].obj.up
    BY <1>0, NewRows DEF Row
  <2>2. row' = Flush(run[r].obj, new)
    BY <1>3 DEF InitOk, Done
  <2> HIDE DEF new
  <2> QED
    BY <1>1, <2>1, <2>2
<1>4. ASSUME Record(r)  PROVE row'.up = row.up
  <2> DEFINE new == Assigned(run[r])
  <2>1. run[r].result \in Results
    BY <1>0, <1>4 DEF Record, Fits
  <2>2. new \in Row /\ new.up = run[r].obj.up
    BY <1>0, <2>1, AssignedTyped
  <2>3. row' = Flush(run[r].obj, new)
    BY <1>4 DEF Record
  <2> HIDE DEF new
  <2> QED
    BY <1>1, <2>2, <2>3
<1>5. ASSUME CommitStatus(r)  PROVE row'.up = row.up
  <2> DEFINE new == [run[r].obj EXCEPT !.ten = run[r].result]
  <2>1. run[r].result \in Targets
    BY <1>0, <1>5 DEF CommitStatus, Fits
  <2>2. new \in Row /\ new.up = run[r].obj.up
    BY <1>0, <2>1 DEF Row, TenantStatuses
  <2>3. row' = Flush(run[r].obj, new)
    BY <1>5 DEF CommitStatus
  <2> HIDE DEF new
  <2> QED
    BY <1>1, <2>2, <2>3
<1>6. ASSUME Final(r)  PROVE row'.up = row.up
  BY <1>0, <1>6 DEF Final, Row
<1>7. ASSUME \/ Arrive(r) \/ Apply(r) \/ Check(r) \/ WriteFile(r) \/ Remove(r)
             \/ Exists(r) \/ Unlink(r) \/ InitPhase(r) \/ BindPhase(r)
             \/ CallError(r)
      PROVE  UNCHANGED row
  BY <1>7, Entered
     DEF Arrive, SetStatus, InitRequest, BindRequest, CallOut, Apply, Check,
         WriteFile, Remove, Exists, Unlink, CutOff, InitPhase, BindPhase,
         CallError
<1> QED
  BY <1>2, <1>3, <1>4, <1>5, <1>6, <1>7 DEF Advance

LEMMA BoundStep ==
  TypeInv /\ UpKept /\ FinalBound /\ [Next]_vars => UpKept' /\ FinalBound'
<1> SUFFICES ASSUME TypeInv, UpKept, FinalBound, [Next]_vars
             PROVE  UpKept' /\ FinalBound'
  OBVIOUS
<1>0. Bound # "created" /\ Bare.up = "created" /\ IdleRun.obj = Bare
      /\ IdleRun.pc = "idle" /\ Bound' = Bound
  BY DEF Bound, Bare, IdleRun
<1>1. ASSUME NEW r \in Requests, Arrive(r) \/ Advance(r)
      PROVE  UpKept' /\ FinalBound'
  <2>1. /\ row.up = Bound => row'.up = Bound
        /\ BindOk(r) => row'.up = Bound
    BY <1>1, RowBound
  <2>2. \A s \in Requests :
          /\ run'[s].obj.up \in {run[s].obj.up, row.up, "created"}
          /\ run'[s].pc = "final" =>
               run[s].pc = "final" \/ (s = r /\ BindOk(r))
    <3>1. CASE Other(r)
      BY <1>0, <3>1, OneSteps
    <3>2. CASE \/ \E dry, wait \in BOOLEAN : Deploy(r, dry, wait)
               \/ \E dry \in BOOLEAN : Provision(r, dry)
               \/ Delete(r)
      BY <3>2, Entered DEF Same
    <3> QED
      BY <1>1, <3>1, <3>2 DEF Arrive, Other
  <2> QED
    BY <1>0, <2>1, <2>2 DEF UpKept, FinalBound
<1>2. CASE Crash
  BY <1>0, <1>2 DEF Crash, UpKept, FinalBound
<1>3. CASE UNCHANGED vars
  BY <1>0, <1>3 DEF vars, UpKept, FinalBound
<1> QED
  BY <1>1, <1>2, <1>3 DEF Next

LEMMA InitBound == Init => UpKept /\ FinalBound
<1>1. Bare.up = "created" /\ IdleRun.obj = Bare /\ IdleRun.pc = "idle"
      /\ Bound # "created"
  BY DEF Bare, IdleRun, Bound
<1> QED
  BY <1>1 DEF Init, UpKept, FinalBound

-----------------------------------------------------------------------------
(* Mirror.                                                                 *)

LEMMA EnterMirror ==
  ASSUME TypeInv, MirrorInv, NEW r \in Requests,
         \/ \E dry, wait \in BOOLEAN : Deploy(r, dry, wait)
         \/ \E dry \in BOOLEAN : Provision(r, dry)
         \/ Delete(r)
  PROVE  MirrorInv'
<1>1. /\ run[r].pc = "idle" /\ UNCHANGED <<row, cluster, file>>
      /\ disturbed' = (disturbed \/ ~Quiet)
      /\ run'[r].pc \in {"apply", "delete"} /\ run'[r].alone = Quiet
      /\ run'[r].obj = row \/ run'[r].obj.inst = "generated"
      /\ \A s \in Requests \ {r} :
           run'[s].pc = run[s].pc /\ run'[s].alone = FALSE
  BY Entered DEF Same
<1>2. ~Active(r) /\ Active(r)'
  BY <1>1 DEF Active, RuntimePCs
<1>3. \A s \in Requests \ {r} : (Active(s)' <=> Active(s)) /\ ~Lone(s)'
  BY <1>1 DEF Active, Lone
<1>4. Alone'
  <2>1. Lone(r)' => \A s \in Requests \ {r} : ~Active(s)'
    BY <1>1, <1>3 DEF Lone, Quiet
  <2>2. ~disturbed' => \A s \in Requests : Active(s)' => run'[s].alone
    BY <1>1, <1>3 DEF Quiet
  <2> QED
    BY <1>3, <2>1, <2>2 DEF Alone
<1>5. MockOnly'
  BY <1>1 DEF MirrorInv, MockOnly
<1>6. LoneHolds'
  <2>1. Holds(run[r])'
    BY <1>1 DEF Holds
  <2> QED
    BY <1>3, <2>1 DEF LoneHolds
<1>7. Mirror'
  BY <1>2 DEF Mirror, Quiet
<1> QED
  BY <1>4, <1>5, <1>6, <1>7 DEF MirrorInv

(* A step that neither is of a deploy or delete nor begins one.            *)
LEMMA PassiveMirror ==
  ASSUME TypeInv, MirrorInv, NEW r \in Requests, ~Active(r), ~Active(r)',
         \A s \in Requests \ {r} : run'[s] = run[s],
         UNCHANGED <<cluster, file, disturbed>>,
         row'.inst \in {row.inst, Initialized}
  PROVE  MirrorInv'
<1>1. \A s \in Requests : Active(s)' \/ Active(s) =>
        s # r /\ run'[s] = run[s] /\ Active(s) /\ Active(s)'
  BY DEF Active
<1>2. Alone'
  BY <1>1 DEF MirrorInv, Alone, Lone
<1>3. MockOnly'
  BY DEF MirrorInv, MockOnly
<1>4. LoneHolds'
  <2> SUFFICES ASSUME NEW s \in Requests, Lone(s)' PROVE Holds(run[s])'
    BY DEF LoneHolds
  <2>1. Lone(s) /\ run'[s] = run[s]
    BY <1>1 DEF Lone, Active
  <2>2. Holds(run[s])
    BY <2>1 DEF MirrorInv, LoneHolds
  <2>3. Initialized' = Initialized
    BY DEF Initialized
  <2> QED
    BY <2>1, <2>2, <2>3 DEF Holds
<1>5. Mirror'
  <2>1. Initialized \notin {"running", "running_mock", "deleted", "none",
                           "generated"}
    BY DEF Initialized
  <2> QED
    <3>1. SUFFICES ASSUME Quiet', ~disturbed' PROVE RowsTellTruth'
      BY DEF Mirror
    <3>2. RowsTellTruth
      <4>1. Quiet
        BY <1>1, <3>1 DEF Quiet
      <4> QED
        BY <3>1, <4>1 DEF MirrorInv, Mirror
    <3> QED
      BY <2>1, <3>2 DEF RowsTellTruth
<1> QED
  BY <1>2, <1>3, <1>4, <1>5 DEF MirrorInv

(* A step inside a deploy or delete.                                       *)
LEMMA ActiveMirror ==
  ASSUME TypeInv, MirrorInv, NEW r \in Requests, Active(r), Active(r)',
         \A s \in Requests \ {r} : run'[s] = run[s],
         run'[r].alone = run[r].alone, UNCHANGED <<row, disturbed>>,
         MockOnly', Lone(r) => Holds(run[r])'
  PROVE  MirrorInv'
<1>1. \A s \in Requests : (Active(s)' <=> Active(s)) /\ (Lone(s)' <=> Lone(s))
  BY DEF Active, Lone
<1>2. Alone'
  BY <1>1 DEF MirrorInv, Alone, Lone
<1>3. LoneHolds'
  BY <1>1 DEF MirrorInv, Alone, LoneHolds
<1>4. Mirror'
  BY <1>1 DEF Mirror, Quiet
<1> QED
  BY <1>2, <1>3, <1>4 DEF MirrorInv

LEMMA CutOffMirror ==
  ASSUME TypeInv, MirrorInv, NEW r \in Requests, Active(r), CutOff(r),
         MockOnly'
  PROVE  MirrorInv'
<1>1. /\ run'[r] = IdleRun /\ \A s \in Requests \ {r} : run'[s] = run[s]
      /\ disturbed' = TRUE
  BY DEF CutOff, End, TypeInv, TypeOK
<1>2. ~Active(r)'
  BY <1>1, IdleTyped DEF Active, RuntimePCs
<1>3. \A s \in Requests : ~Lone(s)'
  BY <1>1, <1>2 DEF Lone, Active, MirrorInv, Alone
<1>4. Alone' /\ LoneHolds' /\ Mirror'
  BY <1>1, <1>3 DEF Alone, LoneHolds, Mirror
<1> QED
  BY <1>4 DEF MirrorInv

LEMMA ApplyMirror ==
  ASSUME TypeInv, MirrorInv, NEW r \in Requests, Apply(r)
  PROVE  MirrorInv'
<1>1. /\ Active(r) /\ run[r].pc = "apply" /\ run[r] \in Request
      /\ Fits(run[r]) /\ run \in [Requests -> Request]
  BY Known DEF Apply, Active, RuntimePCs, TypeInv, TypeOK
<1>2. MockOnly'
  BY <1>1 DEF Apply, MirrorInv, MockOnly, Fits, RuntimePCs
<1>3. CASE CutOff(r)
  BY <1>1, <1>2, <1>3, CutOffMirror
<1>4. CASE ~CutOff(r)
  <2>1. /\ UNCHANGED <<row, disturbed>> /\ run'[r].obj = run[r].obj
        /\ run'[r].alone = run[r].alone /\ run'[r].mock = run[r].mock
        /\ \A s \in Requests \ {r} : run'[s] = run[s]
        /\ \/ run'[r].pc = "file" /\ run[r].mock
           \/ run'[r].pc = "check" /\ cluster' = "present"
           \/ run'[r].pc = "record" /\ run'[r].result = "apply_failed"
    BY <1>1, <1>4 DEF Apply, Goto, Request
  <2>2. Active(r)'
    BY <2>1 DEF Active, RuntimePCs
  <2>3. Lone(r) => Holds(run[r])'
    <3>1. SUFFICES ASSUME Lone(r) PROVE Holds(run[r])'
      OBVIOUS
    <3>2. Holds(run[r]) /\ Initialized' = Initialized
      BY <3>1 DEF MirrorInv, LoneHolds, Initialized
    <3> QED
      BY <2>1, <3>2 DEF Holds
  <2> QED
    BY <1>1, <1>2, <2>1, <2>2, <2>3, ActiveMirror
<1> QED
  BY <1>3, <1>4

LEMMA CheckMirror ==
  ASSUME TypeInv, MirrorInv, NEW r \in Requests, Check(r)
  PROVE  MirrorInv'
<1>1. /\ Active(r) /\ run[r].pc = "check" /\ run[r] \in Request
      /\ run \in [Requests -> Request]
  BY Known DEF Check, Active, RuntimePCs, TypeInv, TypeOK
<1>2. MockOnly'
  BY DEF Check, MirrorInv, MockOnly
<1>3. CASE CutOff(r)
  BY <1>1, <1>2, <1>3, CutOffMirror
<1>4. CASE ~CutOff(r)
  <2>1. /\ UNCHANGED <<row, disturbed, cluster>> /\ run'[r].obj = run[r].obj
        /\ run'[r].alone = run[r].alone /\ run'[r].mock = run[r].mock
        /\ \A s \in Requests \ {r} : run'[s] = run[s]
        /\ \/ run'[r].pc = "file"
           \/ /\ run'[r].pc = "record"
              /\ run'[r].result \in {"not_ready", "resource_query_failed"}
    BY <1>1, <1>4 DEF Check, Request
  <2>2. Active(r)'
    BY <2>1 DEF Active, RuntimePCs
  <2>3. Lone(r) => Holds(run[r])'
    <3>1. SUFFICES ASSUME Lone(r) PROVE Holds(run[r])'
      OBVIOUS
    <3>2. Holds(run[r]) /\ Initialized' = Initialized
      BY <3>1 DEF MirrorInv, LoneHolds, Initialized
    <3> QED
      BY <1>1, <2>1, <3>2 DEF Holds
  <2> QED
    BY <1>1, <1>2, <2>1, <2>2, <2>3, ActiveMirror
<1> QED
  BY <1>3, <1>4

LEMMA WriteFileMirror ==
  ASSUME TypeInv, MirrorInv, NEW r \in Requests, WriteFile(r)
  PROVE  MirrorInv'
<1>1. /\ Active(r) /\ run[r].pc = "file" /\ run[r] \in Request
      /\ run \in [Requests -> Request]
  BY Known DEF WriteFile, Active, RuntimePCs, TypeInv, TypeOK
<1>2. MockOnly'
  BY DEF WriteFile, MirrorInv, MockOnly
<1>3. /\ UNCHANGED <<row, disturbed, cluster>> /\ run'[r].obj = run[r].obj
      /\ run'[r].alone = run[r].alone /\ run'[r].mock = run[r].mock
      /\ \A s \in Requests \ {r} : run'[s] = run[s]
      /\ run'[r].pc = "record" /\ run'[r].result = "ok" /\ file' = TRUE
  BY <1>1 DEF WriteFile, Request
<1>4. Active(r)'
  BY <1>3 DEF Active, RuntimePCs
<1>5. Lone(r) => Holds(run[r])'
  <2>1. SUFFICES ASSUME Lone(r) PROVE Holds(run[r])'
    OBVIOUS
  <2>2. Holds(run[r]) /\ Initialized' = Initialized
    BY <2>1 DEF MirrorInv, LoneHolds, Initialized
  <2> QED
    BY <1>1, <1>3, <2>2 DEF Holds
<1> QED
  BY <1>1, <1>2, <1>3, <1>4, <1>5, ActiveMirror

LEMMA RemoveMirror ==
  ASSUME TypeInv, MirrorInv, NEW r \in Requests, Remove(r)
  PROVE  MirrorInv'
<1>1. /\ Active(r) /\ run[r].pc = "delete" /\ run[r] \in Request
      /\ run[r].mock <=> ~RealK8s
      /\ run \in [Requests -> Request]
  BY Known DEF Remove, Active, RuntimePCs, TypeInv, TypeOK, Fits
<1>2. MockOnly'
  BY <1>1 DEF Remove, MirrorInv, MockOnly
<1>3. CASE CutOff(r)
  BY <1>1, <1>2, <1>3, CutOffMirror
<1>4. CASE ~CutOff(r)
  <2>1. /\ UNCHANGED <<row, disturbed>> /\ run'[r].obj = run[r].obj
        /\ run'[r].alone = run[r].alone /\ run'[r].mock = run[r].mock
        /\ \A s \in Requests \ {r} : run'[s] = run[s]
        /\ run'[r].pc = "exists"
        /\ run'[r].result = "deleted" =>
             IF run[r].mock THEN cluster' = cluster ELSE cluster' = "absent"
    BY <1>1, <1>4 DEF Remove, Request
  <2>2. Active(r)'
    BY <2>1 DEF Active, RuntimePCs
  <2>3. Lone(r) => Holds(run[r])'
    <3>1. SUFFICES ASSUME Lone(r) PROVE Holds(run[r])'
      OBVIOUS
    <3>2. Holds(run[r]) /\ Initialized' = Initialized
      BY <3>1 DEF MirrorInv, LoneHolds, Initialized
    <3>3. run'[r].result = "deleted" => cluster' = "absent"
      BY <1>1, <2>1 DEF MirrorInv, MockOnly
    <3> QED
      BY <2>1, <3>2, <3>3 DEF Holds
  <2> QED
    BY <1>1, <1>2, <2>1, <2>2, <2>3, ActiveMirror
<1> QED
  BY <1>3, <1>4

LEMMA UnlinkMirror ==
  ASSUME TypeInv, MirrorInv, NEW r \in Requests, Exists(r) \/ Unlink(r)
  PROVE  MirrorInv'
<1>1. /\ Active(r) /\ run[r].pc \in {"exists", "unlink"}
      /\ run[r] \in Request /\ run[r].result \in {"deleted", "delete_failed"}
      /\ run \in [Requests -> Request]
  BY Known DEF Exists, Unlink, Active, RuntimePCs, TypeInv, TypeOK, Fits
<1>2. MockOnly'
  BY DEF Exists, Unlink, MirrorInv, MockOnly
<1>3. CASE CutOff(r)
  BY <1>1, <1>2, <1>3, CutOffMirror
<1>4. CASE ~CutOff(r)
  <2>1. /\ UNCHANGED <<row, disturbed, cluster>> /\ run'[r].obj = run[r].obj
        /\ run'[r].alone = run[r].alone /\ run'[r].mock = run[r].mock
        /\ \A s \in Requests \ {r} : run'[s] = run[s]
        /\ run'[r].result = run[r].result
        /\ run'[r].pc \in {"unlink", "record"}
        /\ run'[r].pc = "record" => ~file'
    BY <1>1, <1>4 DEF Exists, Unlink, Goto, Request, TypeInv, TypeOK
  <2>2. Active(r)'
    BY <2>1 DEF Active, RuntimePCs
  <2>3. Lone(r) => Holds(run[r])'
    <3>1. SUFFICES ASSUME Lone(r) PROVE Holds(run[r])'
      OBVIOUS
    <3>2. Holds(run[r]) /\ Initialized' = Initialized
      BY <3>1 DEF MirrorInv, LoneHolds, Initialized
    <3> QED
      BY <1>1, <2>1, <3>2 DEF Holds
  <2> QED
    BY <1>1, <1>2, <2>1, <2>2, <2>3, ActiveMirror
<1> QED
  BY <1>3, <1>4

LEMMA RecordMirror ==
  ASSUME TypeInv, MirrorInv, NEW r \in Requests, Record(r)
  PROVE  MirrorInv'
<1>1. /\ Active(r) /\ run[r].pc = "record" /\ run[r] \in Request
      /\ run[r].result \in Results /\ run[r].obj \in Row /\ row \in Row
  BY Known DEF Record, Active, RuntimePCs, Fits
<1>2. /\ ~Active(r)' /\ UNCHANGED <<cluster, file>>
      /\ \A s \in Requests \ {r} : run'[s] = run[s]
      /\ disturbed' = (disturbed /\ ~( run[r].alone
                                     /\ run[r].result \in {"ok", "deleted"} ))
  <2> DEFINE a == [IdleRun EXCEPT !.pc = "init", !.provision = TRUE,
                                  !.mock = run[r].mock,
                                  !.result = run[r].result,
                                  !.alone = run[r].alone]
  <2>1. a.pc = "init" /\ IdleRun.pc = "idle"
    BY IdleTyped DEF Request, IdleRun
  <2>2. run' = [run EXCEPT ![r] = a] \/ run' = [run EXCEPT ![r] = IdleRun]
    BY DEF Record, End
  <2> HIDE DEF a
  <2>3. run'[r].pc \in {"init", "idle"}
    BY <2>1, <2>2 DEF TypeInv, TypeOK
  <2>4. \A s \in Requests \ {r} : run'[s] = run[s]
    BY <2>2 DEF TypeInv, TypeOK
  <2> QED
    BY <2>3, <2>4 DEF Record, Active, RuntimePCs
<1>3. MockOnly'
  BY <1>2 DEF MirrorInv, MockOnly
<1>4. \A s \in Requests : Active(s)' => s # r /\ Active(s) /\ run'[s] = run[s]
  BY <1>2 DEF Active
<1>5. \A s \in Requests : ~Lone(s)'
  BY <1>1, <1>4 DEF Lone, Active, MirrorInv, Alone
<1>6. ~disturbed' => Lone(r) /\ \A s \in Requests : ~Active(s)'
  <2>1. ~disturbed' => Lone(r)
    BY <1>1, <1>2 DEF Lone, MirrorInv, Alone
  <2> QED
    BY <1>1, <1>4, <2>1 DEF MirrorInv, Alone
<1>7. Alone' /\ LoneHolds'
  BY <1>5, <1>6 DEF Alone, LoneHolds
<1>8. Mirror'
  <2>1. SUFFICES ASSUME ~disturbed' PROVE RowsTellTruth'
    BY DEF Mirror
  <2>2. Holds(run[r])
    BY <1>6, <2>1 DEF MirrorInv, LoneHolds
  <2> DEFINE new == Assigned(run[r])
  <2>3. /\ new \in Row
        /\ new.inst = IF run[r].result = "ok"
                      THEN IF run[r].mock THEN "running_mock" ELSE "running"
                      ELSE run[r].result
    BY <1>1, AssignedTyped
  <2>4. row' = Flush(run[r].obj, new)
    BY DEF Record
  <2> HIDE DEF new
  <2>5. /\ run[r].obj.inst = new.inst => row'.inst = row.inst
        /\ run[r].obj.inst # new.inst => row'.inst = new.inst
    BY <1>1, <2>3, <2>4, FlushTyped
  <2>6. new.inst # "generated"
    BY <1>1, <2>3 DEF Results
  <2>7. row'.inst \in {new.inst, Initialized}
    BY <2>2, <2>5, <2>6 DEF Holds
  <2>8. /\ Initialized \notin {"running", "running_mock", "deleted", "none",
                              "generated"}
        /\ new.inst \notin {"none", "generated"}
    BY <1>1, <2>3 DEF Initialized, Results
  <2>9. /\ new.inst \in {"running", "running_mock"} => run[r].result = "ok"
        /\ new.inst = "running" => ~run[r].mock
        /\ new.inst = "deleted" => run[r].result = "deleted"
    BY <1>1, <2>3 DEF Results
  <2>10. /\ run[r].result = "ok" => file /\ (~run[r].mock => cluster # "absent")
         /\ run[r].result = "deleted" => ~file /\ cluster = "absent"
    BY <1>1, <2>2 DEF Holds
  <2> QED
    BY <1>2, <2>7, <2>8, <2>9, <2>10 DEF RowsTellTruth
<1> QED
  BY <1>3, <1>7, <1>8 DEF MirrorInv

(* Steps of status changes, inits and binds.                               *)
LEMMA PassiveEffect ==
  ASSUME TypeInv, NEW r \in Requests, Other(r), ~Active(r)
  PROVE  /\ UNCHANGED <<cluster, file, disturbed>>
         /\ run'[r].pc \notin RuntimePCs
         /\ row'.inst \in {row.inst, Initialized}
<1> DEFINE Goal == /\ UNCHANGED <<cluster, file, disturbed>>
                   /\ run'[r].pc \notin RuntimePCs
                   /\ row'.inst \in {row.inst, Initialized}
<1>0. /\ row \in Row /\ run[r].obj \in Row /\ run[r] \in Request
      /\ run \in [Requests -> Request] /\ IdleRun.pc = "idle"
      /\ \A s \in Requests \ {r} : run'[s] = run[s]
  BY Known, OneSteps, IdleTyped DEF TypeInv, TypeOK
<1> HIDE DEF Goal
<1>1. ASSUME run'[r].pc \notin RuntimePCs,
             UNCHANGED <<cluster, file, disturbed>>,
             row'.inst \in {row.inst, Initialized}
      PROVE  Goal
  BY <1>1 DEF Goal
<1>2. ASSUME NEW target \in Targets, SetStatus(r, target)  PROVE Goal
  <2> DEFINE a == [IdleRun EXCEPT !.pc = "set", !.result = target, !.obj = row]
  <2>1. a.pc = "set"
    BY IdleTyped DEF Request
  <2>2. run' = [run EXCEPT ![r] = a] /\ UNCHANGED <<row, cluster, file, disturbed>>
    BY <1>2 DEF SetStatus
  <2> HIDE DEF a
  <2> QED
    BY <1>0, <1>1, <2>1, <2>2 DEF RuntimePCs
<1>3. ASSUME NEW pc \in {"initing", "binding"}, NEW real, CallOut(r, pc, real)
      PROVE  Goal
  <2>1. run'[r].pc = pc
    BY <1>0, <1>3 DEF CallOut, Request
  <2> QED
    BY <1>1, <1>3, <2>1 DEF CallOut, RuntimePCs
<1>4. ASSUME NEW new \in Row, NEW pc \in {"bind", "final"}, Done(r, new, pc),
             new.inst \in {run[r].obj.inst, Initialized}
      PROVE  Goal
  <2>1. run'[r].pc \in {pc, "idle"}
    BY <1>0, <1>4 DEF Done, Goto, End, Request
  <2>2. row'.inst \in {row.inst, Initialized}
    BY <1>0, <1>4, FlushTyped DEF Done
  <2> QED
    BY <1>1, <1>4, <2>1, <2>2 DEF Done, RuntimePCs
<1>5. ASSUME InitOk(r)  PROVE Goal
  <2> DEFINE new == [run[r].obj EXCEPT !.inst = Initialized, !.ten = Initialized]
  <2>1. new \in Row /\ new.inst = Initialized /\ Done(r, new, "bind")
    BY <1>0, <1>5, NewRows DEF InitOk, Row
  <2> HIDE DEF new
  <2> QED
    BY <1>4, <2>1
<1>6. ASSUME BindOk(r)  PROVE Goal
  <2> DEFINE new == [run[r].obj EXCEPT !.up = Bound, !.ten = UpstreamBound]
  <2>1. /\ new \in Row /\ new.inst = run[r].obj.inst
        /\ Done(r, new, "final")
    BY <1>0, <1>6, NewRows DEF BindOk, Row
  <2> HIDE DEF new
  <2> QED
    BY <1>4, <2>1
<1>7. ASSUME CommitStatus(r)  PROVE Goal
  <2> DEFINE new == [run[r].obj EXCEPT !.ten = run[r].result]
  <2>1. run[r].result \in Targets
    BY <1>7, Known DEF CommitStatus, Fits
  <2>2. new \in Row /\ new.inst = run[r].obj.inst
    BY <1>0, <2>1 DEF Row, TenantStatuses
  <2>3. row' = Flush(run[r].obj, new) /\ run' = [run EXCEPT ![r] = IdleRun]
        /\ UNCHANGED <<cluster, file, disturbed>>
    BY <1>7 DEF CommitStatus, End
  <2> HIDE DEF new
  <2>4. row'.inst = row.inst
    BY <1>0, <2>2, <2>3, FlushTyped
  <2> QED
    BY <1>0, <1>1, <2>3, <2>4 DEF RuntimePCs
<1>8. ASSUME CallError(r) \/ Final(r)  PROVE Goal
  <2>1. row'.inst = row.inst
    BY <1>0, <1>8 DEF CallError, Final, Row
  <2>2. /\ run'[r].pc = "idle" /\ UNCHANGED <<cluster, file, disturbed>>
    BY <1>0, <1>8 DEF CallError, Final, End
  <2> QED
    BY <1>1, <2>1, <2>2 DEF RuntimePCs
<1>9. ASSUME \/ \E force \in BOOLEAN : InitRequest(r, force) \/ BindRequest(r, force)
             \/ InitPhase(r) \/ BindPhase(r)
      PROVE  Goal
  BY <1>3, <1>9 DEF InitRequest, BindRequest, InitPhase, BindPhase
<1>10. \/ \E target \in Targets : SetStatus(r, target)
       \/ \E force \in BOOLEAN : InitRequest(r, force) \/ BindRequest(r, force)
       \/ InitPhase(r) \/ BindPhase(r) \/ InitOk(r) \/ BindOk(r)
       \/ CommitStatus(r) \/ CallError(r) \/ Final(r)
  BY DEF Other, Advance, Active, RuntimePCs, Apply, Check, WriteFile, Record,
         Remove, Exists, Unlink
<1> QED
  BY <1>2, <1>5, <1>6, <1>7, <1>8, <1>9, <1>10 DEF Goal

LEMMA OtherMirror ==
  ASSUME TypeInv, MirrorInv, NEW r \in Requests, Other(r), ~Active(r)
  PROVE  MirrorInv'
BY PassiveEffect, OneSteps, PassiveMirror DEF Active

LEMMA MirrorStep == TypeInv /\ MirrorInv /\ [Next]_vars => MirrorInv'
<1> SUFFICES ASSUME TypeInv, MirrorInv, [Next]_vars PROVE MirrorInv'
  OBVIOUS
<1>1. ASSUME NEW r \in Requests, Arrive(r)  PROVE MirrorInv'
  <2>1. CASE Other(r)
    <3>1. ~Active(r)
      BY <1>1 DEF Arrive, Deploy, Provision, Delete, SetStatus, InitRequest,
                  BindRequest, Begins, Active, RuntimePCs
    <3> QED
      BY <2>1, <3>1, OtherMirror
  <2> QED
    BY <1>1, <2>1, EnterMirror DEF Arrive, Other
<1>2. ASSUME NEW r \in Requests, Advance(r)  PROVE MirrorInv'
  <2>1. CASE ~Active(r)
    BY <1>2, <2>1, OtherMirror DEF Other
  <2>2. CASE Active(r)
    <3>1. \/ Apply(r) \/ Check(r) \/ WriteFile(r) \/ Record(r) \/ Remove(r)
          \/ Exists(r) \/ Unlink(r)
      BY <1>2, <2>2 DEF Advance, Active, RuntimePCs, CommitStatus, InitPhase,
         InitOk, BindPhase, BindOk, CallError, Final, Resumes
    <3> QED
      BY <3>1, ApplyMirror, CheckMirror, WriteFileMirror, RecordMirror,
         RemoveMirror, UnlinkMirror
  <2> QED
    BY <2>1, <2>2
<1>3. CASE Crash
  <2>1. \A s \in Requests : ~Active(s)'
    BY <1>3, IdleTyped DEF Crash, Active, RuntimePCs
  <2>2. UNCHANGED <<row, cluster, file>> /\ disturbed' = (disturbed \/ ~Quiet)
    BY <1>3 DEF Crash
  <2>3. Alone' /\ LoneHolds' /\ MockOnly'
    BY <2>1, <2>2 DEF MirrorInv, Alone, LoneHolds, Lone, MockOnly
  <2>4. Mirror'
    BY <2>2 DEF MirrorInv, Mirror, RowsTellTruth
  <2> QED
    BY <2>3, <2>4 DEF MirrorInv
<1>4. CASE UNCHANGED vars
  BY <1>4 DEF vars, MirrorInv, Alone, LoneHolds, Lone, Active, MockOnly, Mirror,
     Quiet, Holds, RowsTellTruth, Initialized
<1> QED
  BY <1>1, <1>2, <1>3, <1>4 DEF Next

LEMMA InitMirror == Init => MirrorInv
<1> SUFFICES ASSUME Init PROVE MirrorInv
  OBVIOUS
<1>1. \A r \in Requests : ~Active(r)
  BY IdleTyped DEF Init, Active, RuntimePCs
<1>2. Alone /\ LoneHolds
  BY <1>1 DEF Alone, LoneHolds, Lone
<1>3. MockOnly /\ Mirror
  BY DEF Init, MockOnly, Mirror, RowsTellTruth, Bare, Planned
<1> QED
  BY <1>2, <1>3 DEF MirrorInv

(* While no deploy or delete is under way, and the last overlap or failure *)
(* has been followed by a success, rows, file and cluster agree.           *)
THEOREM RowsMirrorTheRuntime == Spec => []Mirror
<1> DEFINE I == TypeInv /\ MirrorInv
<1>1. Init => I
  BY InitTypes, InitMirror
<1>2. I /\ [Next]_vars => I'
  BY TypeStep, MirrorStep
<1>3. I => Mirror
  BY DEF MirrorInv
<1> QED
  BY <1>1, <1>2, <1>3, PTL DEF Spec

-----------------------------------------------------------------------------
(* ProvisionDelivers.                                                      *)

(* A provision beside which no deploy or delete has begun.                 *)
Trusted(r) == run[r].pc \in Later /\ run[r].provision /\ run[r].alone

(* What it relies on in its later phases; its init writes the instance     *)
(* row only if it did not find it initialized.                             *)
Backed(a) ==
  /\ file
  /\ a.mock \/ cluster = "present"
  /\ a.pc = "initing" /\ a.obj.inst = Initialized => row.inst = Initialized
  /\ a.pc \in {"bind", "binding", "final"} => row.inst = Initialized

DeliverInv == \A r \in Requests : Trusted(r) => Quiet /\ Backed(run[r])

(* What the phases of a provision do to it and to the instance row.        *)
LEMMA PhaseEffect ==
  ASSUME TypeInv, NEW r \in Requests, Other(r), ~Active(r), Trusted(r)'
  PROVE  /\ Trusted(r) /\ run'[r].mock = run[r].mock
         /\ \/ /\ run'[r].pc = "initing" /\ run'[r].obj = row
               /\ UNCHANGED row
            \/ /\ run[r].pc = "initing" /\ run'[r].pc = "bind"
               /\ row'.inst = IF run[r].obj.inst = Initialized
                              THEN row.inst ELSE Initialized
            \/ /\ run[r].pc \in {"bind", "binding"}
               /\ run'[r].pc \in {"binding", "final"}
               /\ row'.inst = row.inst
<1>0. /\ row \in Row /\ run[r].obj \in Row /\ run[r] \in Request
      /\ run \in [Requests -> Request] /\ Fits(run[r])
      /\ IdleRun.pc = "idle" /\ IdleRun.provision = FALSE
  BY Known, IdleTyped DEF TypeInv, TypeOK, IdleRun
<1>1. ~End(r)
  BY <1>0 DEF End, Trusted
<1>2. ASSUME NEW target \in Targets, SetStatus(r, target)  PROVE FALSE
  <2> DEFINE a == [IdleRun EXCEPT !.pc = "set", !.result = target, !.obj = row]
  <2>1. a.pc = "set"
    BY IdleTyped DEF Request
  <2>2. run' = [run EXCEPT ![r] = a]
    BY <1>2 DEF SetStatus
  <2> HIDE DEF a
  <2> QED
    BY <1>0, <2>1, <2>2 DEF Trusted, Later
<1>3. ASSUME NEW pc, NEW real, CallOut(r, pc, real)
      PROVE  /\ run'[r].pc = pc /\ run'[r].obj = row /\ UNCHANGED row
             /\ run'[r].mock = run[r].mock /\ run'[r].alone = run[r].alone
             /\ run'[r].provision = run[r].provision
  BY <1>0, <1>3 DEF CallOut, Request
<1>4. ASSUME NEW new, NEW pc, Done(r, new, pc)
      PROVE  /\ run'[r].pc = pc /\ row' = Flush(run[r].obj, new)
             /\ run'[r].mock = run[r].mock /\ run'[r].alone = run[r].alone
             /\ run'[r].provision = run[r].provision
  BY <1>0, <1>1, <1>4 DEF Done, Goto, Request
<1>5. ASSUME NEW force \in BOOLEAN,
             InitRequest(r, force) \/ BindRequest(r, force)
      PROVE  FALSE
  BY <1>0, <1>3, <1>5 DEF InitRequest, BindRequest, Begins, Fits, Trusted
<1>6. CASE InitPhase(r) \/ BindPhase(r)
  BY <1>3, <1>6 DEF InitPhase, BindPhase, Trusted, Later
<1>7. CASE InitOk(r)
  <2> DEFINE new == [run[r].obj EXCEPT !.inst = Initialized, !.ten = Initialized]
  <2>1. new \in Row /\ new.inst = Initialized
    BY <1>0, NewRows DEF Row
  <2>2. Done(r, new, "bind") /\ run[r].pc = "initing"
    BY <1>7 DEF InitOk, Resumes
  <2> HIDE DEF new
  <2>3. row' = Flush(run[r].obj, new)
    BY <1>4, <2>2
  <2>4. row'.inst = IF run[r].obj.inst = Initialized
                    THEN row.inst ELSE Initialized
    BY <1>0, <2>1, <2>3, FlushTyped
  <2> QED
    BY <1>4, <2>2, <2>4 DEF Trusted, Later
<1>8. CASE BindOk(r)
  <2> DEFINE new == [run[r].obj EXCEPT !.up = Bound, !.ten = UpstreamBound]
  <2>1. new \in Row /\ new.inst = run[r].obj.inst
    BY <1>0, NewRows DEF Row
  <2>2. Done(r, new, "final") /\ run[r].pc = "binding"
    BY <1>8 DEF BindOk, Resumes
  <2> HIDE DEF new
  <2>3. row'.inst = row.inst
    BY <1>0, <1>4, <2>1, <2>2, FlushTyped
  <2> QED
    BY <1>4, <2>2, <2>3 DEF Trusted, Later
<1>9. ~(CommitStatus(r) \/ CallError(r) \/ Final(r))
  BY <1>1 DEF CommitStatus, CallError, Final
<1>10. \/ \E target \in Targets : SetStatus(r, target)
       \/ \E force \in BOOLEAN : InitRequest(r, force) \/ BindRequest(r, force)
       \/ InitPhase(r) \/ BindPhase(r) \/ InitOk(r) \/ BindOk(r)
  BY <1>9 DEF Other, Advance, Active, RuntimePCs, Apply, Check, WriteFile,
     Record, Remove, Exists, Unlink
<1> QED
  BY <1>2, <1>5, <1>6, <1>7, <1>8, <1>10

(* Only the commit of a good deploy takes a provision to its later phases. *)
LEMMA DeployEffect ==
  ASSUME TypeInv, NEW r \in Requests, Active(r), Advance(r), Trusted(r)'
  PROVE  /\ run[r].pc = "record" /\ run[r].result = "ok" /\ run[r].alone
         /\ run'[r].pc = "init" /\ run'[r].mock = run[r].mock
         /\ UNCHANGED <<cluster, file>>
<1>0. run \in [Requests -> Request] /\ run[r] \in Request
      /\ IdleRun.provision = FALSE
  BY Known DEF TypeInv, TypeOK, IdleRun
<1>1. ~End(r)
  BY <1>0 DEF End, Trusted
<1>2. ASSUME NEW a, run' = [run EXCEPT ![r] = a], a.pc \in RuntimePCs
      PROVE  FALSE
  BY <1>0, <1>2 DEF Trusted, Later, RuntimePCs
<1>3. ASSUME Apply(r) \/ Check(r) \/ WriteFile(r) \/ Remove(r)
             \/ Exists(r) \/ Unlink(r)
      PROVE  run'[r].pc \in RuntimePCs
  BY <1>0, <1>1, <1>3 DEF Apply, Check, WriteFile, Remove, Exists, Unlink,
     Goto, CutOff, RuntimePCs, Request
<1>4. Record(r)
  BY <1>3 DEF Advance, Active, Trusted, Later, RuntimePCs, CommitStatus,
     InitPhase, InitOk, BindPhase, BindOk, CallError, Final, Resumes
<1> DEFINE a == [IdleRun EXCEPT !.pc = "init", !.provision = TRUE,
                                !.mock = run[r].mock,
                                !.result = run[r].result,
                                !.alone = run[r].alone]
<1>5. /\ run[r].pc = "record" /\ run[r].result = "ok"
      /\ run' = [run EXCEPT ![r] = a] /\ UNCHANGED <<cluster, file>>
  BY <1>1, <1>4 DEF Record, GoesOn
<1>6. a.pc = "init" /\ a.mock = run[r].mock /\ a.alone = run[r].alone
  BY <1>0, IdleTyped DEF Request
<1> HIDE DEF a
<1> QED
  BY <1>0, <1>5, <1>6 DEF Trusted

LEMMA DeliverStep ==
  TypeInv /\ MirrorInv /\ DeliverInv /\ [Next]_vars => DeliverInv'
<1> SUFFICES ASSUME TypeInv, MirrorInv, DeliverInv, [Next]_vars
             PROVE  DeliverInv'
  OBVIOUS
<1>0. Initialized' = Initialized
  BY DEF Initialized
<1>1. ASSUME NEW r \in Requests, Other(r), ~Active(r)  PROVE DeliverInv'
  <2>1. /\ UNCHANGED <<cluster, file>> /\ ~Active(r)'
        /\ row'.inst \in {row.inst, Initialized}
        /\ \A s \in Requests \ {r} : run'[s] = run[s]
    BY <1>1, PassiveEffect, OneSteps DEF Active
  <2>2. Quiet => Quiet'
    BY <2>1 DEF Quiet, Active
  <2>3. ASSUME NEW s \in Requests \ {r}, Trusted(s)'
        PROVE  Quiet' /\ Backed(run[s])'
    <3>1. Trusted(s) /\ run'[s] = run[s]
      BY <2>1, <2>3 DEF Trusted
    <3>2. Quiet /\ Backed(run[s])
      BY <3>1 DEF DeliverInv
    <3> QED
      BY <1>0, <2>1, <2>2, <3>1, <3>2 DEF Backed
  <2>4. ASSUME Trusted(r)'  PROVE Quiet' /\ Backed(run[r])'
    <3>1. /\ Trusted(r) /\ run'[r].mock = run[r].mock
          /\ \/ /\ run'[r].pc = "initing" /\ run'[r].obj = row
                /\ UNCHANGED row
             \/ /\ run[r].pc = "initing" /\ run'[r].pc = "bind"
                /\ row'.inst = IF run[r].obj.inst = Initialized
                               THEN row.inst ELSE Initialized
             \/ /\ run[r].pc \in {"bind", "binding"}
                /\ run'[r].pc \in {"binding", "final"}
                /\ row'.inst = row.inst
      BY <1>1, <2>4, PhaseEffect
    <3>2. Quiet /\ Backed(run[r])
      BY <3>1 DEF DeliverInv
    <3> QED
      BY <1>0, <2>1, <2>2, <3>1, <3>2 DEF Backed
  <2> QED
    BY <2>3, <2>4 DEF DeliverInv
<1>2. ASSUME NEW r \in Requests, Advance(r), Active(r)  PROVE DeliverInv'
  <2>1. \A s \in Requests : ~Trusted(s)
    BY <1>2 DEF DeliverInv, Quiet
  <2>2. \A s \in Requests \ {r} : run'[s] = run[s] /\ ~Trusted(s)'
    BY <1>2, <2>1, OneSteps DEF Other, Trusted
  <2>3. ASSUME Trusted(r)'  PROVE Quiet' /\ Backed(run[r])'
    <3>1. /\ run[r].pc = "record" /\ run[r].result = "ok" /\ run[r].alone
          /\ run'[r].pc = "init" /\ run'[r].mock = run[r].mock
          /\ UNCHANGED <<cluster, file>>
      BY <1>2, <2>3, DeployEffect
    <3>2. Holds(run[r]) /\ \A s \in Requests \ {r} : ~Active(s)
      BY <1>2, <3>1 DEF MirrorInv, LoneHolds, Alone, Lone
    <3>3. Quiet'
      BY <2>2, <3>1, <3>2 DEF Quiet, Active, RuntimePCs
    <3> QED
      BY <3>1, <3>2, <3>3 DEF Holds, Backed
  <2> QED
    BY <2>2, <2>3 DEF DeliverInv
<1>3. ASSUME NEW r \in Requests, Arrive(r)  PROVE DeliverInv'
  <2>1. CASE Other(r)
    <3>1. ~Active(r)
      BY <1>3 DEF Arrive, Deploy, Provision, Delete, SetStatus, InitRequest,
                  BindRequest, Begins, Active, RuntimePCs
    <3> QED
      BY <1>1, <2>1, <3>1
  <2>2. CASE \/ \E dry, wait \in BOOLEAN : Deploy(r, dry, wait)
             \/ \E dry \in BOOLEAN : Provision(r, dry)
             \/ Delete(r)
    <3>1. \A s \in Requests : ~Trusted(s)'
      BY <2>2, Entered DEF Trusted, Later
    <3> QED
      BY <3>1 DEF DeliverInv
  <2> QED
    BY <1>3, <2>1, <2>2 DEF Arrive, Other
<1>4. CASE Crash
  <2>1. \A s \in Requests : ~Trusted(s)'
    BY <1>4, IdleTyped DEF Crash, Trusted, Later
  <2> QED
    BY <2>1 DEF DeliverInv
<1>5. CASE UNCHANGED vars
  BY <1>0, <1>5 DEF vars, DeliverInv, Trusted, Quiet, Active, Backed
<1> QED
  BY <1>1, <1>2, <1>3, <1>4, <1>5 DEF Next, Other

LEMMA InitDeliver == Init => DeliverInv
BY IdleTyped DEF Init, DeliverInv, Trusted, Later

(* A provision is about to call its tenant active only with a bound        *)
(* upstream and, if no deploy or delete began beside it, over a deployed   *)
(* runtime with an initialized New API.                                    *)
THEOREM ProvisionDelivered == Spec => []ProvisionDelivers
<1> DEFINE I == /\ TypeInv /\ UpKept /\ FinalBound /\ MirrorInv
                /\ DeliverInv
<1>1. Init => I
  BY InitTypes, InitBound, InitMirror, InitDeliver
<1>2. I /\ [Next]_vars => I'
  BY TypeStep, BoundStep, MirrorStep, DeliverStep
<1>3. I => ProvisionDelivers
  BY DEF TypeInv, TypeOK, FinalBound, DeliverInv, Trusted, Later, Backed,
         ProvisionDelivers
<1> QED
  BY <1>1, <1>2, <1>3, PTL DEF Spec

=============================================================================
