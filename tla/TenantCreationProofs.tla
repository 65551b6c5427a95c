----------------------- MODULE TenantCreationProofs ------------------------
(***************************************************************************)
(* Type correctness, ManifestMatches and SubdomainOwned of TenantCreation, *)
(* for any clients, bodies, slugs and hosts.                               *)
(*                                                                         *)
(* The two are inductive only with what makes them so: the loop excludes   *)
(* other requests between two awaits (LoopHeld), and across an await the   *)
(* uncommitted row keeps the slug and the email reserved (Apart).          *)
(***************************************************************************)
EXTENDS TenantCreation, TLAPS

(* Whoever is between two awaits has the event loop.                       *)
LoopHeld ==
  \A c \in Clients : run[c].pc \in {"insert", "rows", "commit"} => loop = c

(* Two bodies that cannot both become tenants.                             *)
Alike(a, b) == Slug(a) = Slug(b) \/ a.email = b.email

(* What the lookup and the unique indexes keep apart: a create from the    *)
(* tenants there are, and the uncommitted rows from each other.            *)
Apart ==
  /\ \A c \in Clients : run[c].pc \in {"insert"} \cup Inserted =>
       \A t \in tenants : ~Alike(run[c].body, t)
  /\ \A c, d \in Clients :
       c # d /\ run[c].pc \in Inserted /\ run[d].pc \in Inserted =>
         ~Alike(run[c].body, run[d].body)

(* A request about to commit finds its subdomain free and its manifest     *)
(* written.                                                                *)
CommitReady ==
  \A c \in Clients : run[c].pc = "commit" =>
    /\ domain[HostOf[Slug(run[c].body)]] = None
    /\ run[c].body.deploy => manifest[Slug(run[c].body)] = run[c].body

Inv ==
  /\ TypeOK /\ LoopHeld /\ Apart /\ CommitReady
  /\ ManifestMatches /\ SubdomainOwned

-----------------------------------------------------------------------------
(* A step of one client writes nobody else's request, and is taken with    *)
(* the loop free or its own.                                               *)
LEMMA StepOfOne ==
  ASSUME TypeOK, LoopHeld, NEW c \in Clients, Arrive(c) \/ Advance(c)
  PROVE  /\ loop \in {None, c} /\ loop' \in {None, c}
         /\ \A d \in Clients \ {c} : run'[d] = run[d]
         /\ UNCHANGED crashes
<1> USE DEF TypeOK, LoopHeld, Begins, Released, Answer
<1>1. CASE Arrive(c)
  BY <1>1 DEF Arrive, Refuse, Create, AddDomain
<1>2. CASE Insert(c) \/ Key(c)
  BY <1>2 DEF Insert, Key
<1>3. CASE Rows(c) \/ Commit(c) \/ Hostname(c)
  BY <1>3 DEF Rows, Commit, Hostname
<1> QED
  BY <1>1, <1>2, <1>3 DEF Advance

(* Hence nobody else is between two awaits.                                *)
LEMMA OthersAwait ==
  ASSUME TypeOK, LoopHeld, NEW c \in Clients, loop \in {None, c}
  PROVE  \A d \in Clients \ {c} : run[d].pc \notin {"insert", "rows", "commit"}
BY NullAssumption DEF LoopHeld

(* What the next step of a request needs of it.                            *)
Ready(a) ==
  /\ a.pc \in {"insert"} \cup Inserted =>
       a.body \in Bodies /\ Slug(a.body) # None
  /\ a.pc = "hostname" => a.body \in Bodies /\ a.host \in Hosts

LEMMA RequestReplaced ==
  ASSUME TypeOK, NEW c \in Clients, NEW a \in Request, Ready(a),
         run' = [run EXCEPT ![c] = a]
  PROVE  /\ run' \in [Clients -> Request]
         /\ \A d \in Clients : Ready(run'[d])
BY DEF TypeOK, Ready

LEMMA RequestMoved ==
  ASSUME TypeOK, NEW c \in Clients, NEW p \in PCs,
         run' = [run EXCEPT ![c].pc = p],
         Ready([run[c] EXCEPT !.pc = p])
  PROVE  /\ run' \in [Clients -> Request]
         /\ \A d \in Clients : Ready(run'[d])
<1> DEFINE a == [run[c] EXCEPT !.pc = p]
<1>1. a \in Request
  BY DEF TypeOK, Request
<1>2. run' = [run EXCEPT ![c] = a]
  BY DEF TypeOK
<1>3. Ready(a)
  OBVIOUS
<1> HIDE DEF a
<1> QED
  BY <1>1, <1>2, <1>3, RequestReplaced

LEMMA RequestAnswered ==
  ASSUME TypeOK, NEW c \in Clients, NEW code \in Answers,
         run' = [run EXCEPT ![c].pc = "idle", ![c].answer = code]
  PROVE  /\ run' \in [Clients -> Request]
         /\ \A d \in Clients : Ready(run'[d])
<1> DEFINE a == [run[c] EXCEPT !.pc = "idle", !.answer = code]
<1>1. a \in Request /\ a.pc = "idle"
  BY DEF TypeOK, Request, PCs
<1>2. run' = [run EXCEPT ![c] = a]
  BY DEF TypeOK
<1>3. Ready(a)
  BY <1>1 DEF Ready, Inserted
<1> HIDE DEF a
<1> QED
  BY <1>1, <1>2, <1>3, RequestReplaced

(* The requests after a step of one of them.                               *)
LEMMA RequestsPreserved ==
  ASSUME TypeOK, NEW c \in Clients, Arrive(c) \/ Advance(c)
  PROVE  /\ run' \in [Clients -> Request]
         /\ \A d \in Clients : Ready(run'[d])
<1>1. ASSUME NEW b \in Sends[c], Refuse(c, b) \/ Create(c, b)
      PROVE  /\ run' \in [Clients -> Request]
             /\ \A d \in Clients : Ready(run'[d])
  <2> DEFINE a1 == [Quiet EXCEPT !.body = b, !.answer = Verdict(b)]
             a2 == [Quiet EXCEPT !.body = b, !.pc = "insert"]
  <2>0. b \in Bodies
    BY BodiesAssumption
  <2>1. a1 \in Request /\ a1.pc = "idle"
    BY <2>0 DEF Quiet, Request, PCs, Answers, Verdict
  <2>2. a2 \in Request /\ a2.pc = "insert" /\ a2.body = b
    BY <2>0 DEF Quiet, Request, PCs, Answers
  <2>3. Ready(a1)
    BY <2>1 DEF Ready, Inserted
  <2>4. CASE Refuse(c, b)
    <3>1. run' = [run EXCEPT ![c] = a1]
      BY <2>4 DEF Refuse
    <3> HIDE DEF a1
    <3> QED
      BY <2>1, <2>3, <3>1, RequestReplaced
  <2>5. CASE Create(c, b)
    <3>1. run' = [run EXCEPT ![c] = a2] /\ Slug(b) # None
      BY <2>5 DEF Create, SlugValid
    <3> HIDE DEF a2
    <3>2. Ready(a2)
      BY <2>0, <2>2, <3>1 DEF Ready
    <3> QED
      BY <2>2, <3>1, <3>2, RequestReplaced
  <2> QED
    BY <1>1, <2>4, <2>5
<1>2. ASSUME NEW t \in tenants, NEW h \in Adds[c], NEW cf \in BOOLEAN,
             AddDomain(c, t, h, cf)
      PROVE  /\ run' \in [Clients -> Request]
             /\ \A d \in Clients : Ready(run'[d])
  <2> DEFINE a == [Quiet EXCEPT !.answer = "conflict"]
             b == [Quiet EXCEPT !.pc = "hostname", !.body = t, !.host = h]
  <2>1. t \in Bodies /\ h \in Hosts
    BY BodiesAssumption DEF TypeOK
  <2>2. a \in Request /\ a.pc = "idle"
    BY DEF Quiet, Request, PCs, Answers
  <2>3. b \in Request /\ b.pc = "hostname" /\ b.body = t /\ b.host = h
    BY <2>1 DEF Quiet, Request, PCs, Answers
  <2>5. run' = [run EXCEPT ![c] = a] \/ run' = [run EXCEPT ![c] = b]
    BY <1>2 DEF AddDomain
  <2> HIDE DEF a, b
  <2>4. Ready(a) /\ Ready(b)
    BY <2>1, <2>2, <2>3 DEF Ready, Inserted
  <2> QED
    BY <2>2, <2>3, <2>4, <2>5, RequestReplaced
<1>3. ASSUME NEW p \in Inserted, run' = [run EXCEPT ![c].pc = p],
             run[c].pc \in {"insert"} \cup Inserted
      PROVE  /\ run' \in [Clients -> Request]
             /\ \A d \in Clients : Ready(run'[d])
  <2>1. p \in PCs /\ p # "hostname"
    BY DEF PCs, Inserted
  <2>2. Ready([run[c] EXCEPT !.pc = p])
    BY <1>3, <2>1 DEF TypeOK, Request, Ready
  <2> QED
    BY <1>3, <2>1, <2>2, RequestMoved
<1>4. ASSUME NEW code \in Answers, Answer(c, code)
      PROVE  /\ run' \in [Clients -> Request]
             /\ \A d \in Clients : Ready(run'[d])
  BY <1>4, RequestAnswered DEF Answer
<1>5. CASE Insert(c) \/ Key(c)
  BY <1>3, <1>5 DEF Insert, Key, Inserted
<1>6. CASE Rows(c)
  BY <1>3, <1>4, <1>6 DEF Rows, Inserted, Answers
<1>7. CASE Commit(c) \/ Hostname(c)
  BY <1>4, <1>7 DEF Commit, Hostname, Answers
<1> QED
  BY <1>1, <1>2, <1>5, <1>6, <1>7 DEF Arrive, Advance

LEMMA TypePreserved ==
  ASSUME TypeOK, LoopHeld, NEW c \in Clients, Arrive(c) \/ Advance(c)
  PROVE  TypeOK'
<1>1. loop' \in Clients \cup {None} /\ crashes' \in Nat
  BY StepOfOne DEF TypeOK
<1>2. /\ tenants' \subseteq {b \in Bodies : Slug(b) # None}
      /\ domain' \in [Hosts -> Bodies \cup {None}]
      /\ manifest' \in [Slugs -> Bodies \cup {None}]
  <2> USE DEF TypeOK
  <2>1. CASE Rows(c)
    BY <2>1, NamesAssumption, BodiesAssumption
    DEF Rows, Rendered, Inserted, Slug
  <2>2. CASE Commit(c)
    BY <2>2 DEF Commit, Inserted
  <2>3. CASE Hostname(c)
    BY <2>3 DEF Hostname
  <2>4. CASE Arrive(c)
    BY <2>4 DEF Arrive, Refuse, Create, AddDomain
  <2>5. CASE Insert(c) \/ Key(c)
    BY <2>5 DEF Insert, Key
  <2> QED
    BY <2>1, <2>2, <2>3, <2>4, <2>5 DEF Advance
<1> QED
  BY <1>1, <1>2, RequestsPreserved DEF TypeOK, Ready

(* Where the request of a step stands after it.                            *)
LEMMA Moves ==
  ASSUME TypeOK, NEW c \in Clients, Arrive(c) \/ Advance(c)
  PROVE  /\ run'[c].pc \in {"insert", "rows"} => loop' = c
         /\ run'[c].pc = "commit" => Rows(c)
         /\ run'[c].pc = "insert" =>
              \E b \in Sends[c] : Create(c, b) /\ run'[c].body = b
         /\ run'[c].pc \in Inserted =>
              /\ run[c].pc \in {"insert"} \cup Inserted
              /\ run'[c].body = run[c].body
              /\ run[c].pc = "insert" => Insert(c)
<1> USE DEF TypeOK, Request
<1>1. CASE \E b \in Sends[c] : Refuse(c, b)
  <2>1. run'[c].pc = "idle"
    BY <1>1 DEF Refuse, Quiet
  <2> QED
    BY <2>1 DEF Inserted
<1>2. ASSUME NEW b \in Sends[c], Create(c, b)
      PROVE  run'[c].pc = "insert" /\ run'[c].body = b /\ loop' = c
  BY <1>2 DEF Create, Quiet
<1>3. ASSUME NEW t \in tenants, NEW h \in Adds[c], NEW cf \in BOOLEAN,
             AddDomain(c, t, h, cf)
      PROVE  run'[c].pc \in {"idle", "hostname"}
  BY <1>3 DEF AddDomain, Quiet
<1>4. CASE Insert(c) \/ Key(c)
  BY <1>4 DEF Insert, Key, Inserted
<1>5. CASE Rows(c)
  BY <1>5 DEF Rows, Answer, Inserted
<1>6. CASE Commit(c) \/ Hostname(c)
  BY <1>6 DEF Commit, Hostname, Answer, Inserted
<1> QED
  BY <1>1, <1>2, <1>3, <1>4, <1>5, <1>6 DEF Arrive, Advance, Inserted

(* Only the step that reaches one of those points keeps the loop.          *)
LEMMA LoopPreserved ==
  ASSUME TypeOK, LoopHeld, NEW c \in Clients, Arrive(c) \/ Advance(c)
  PROVE  LoopHeld'
<1>1. \A d \in Clients \ {c} : run'[d] = run[d]
  BY StepOfOne
<1>2. \A d \in Clients \ {c} :
        run[d].pc \notin {"insert", "rows", "commit"}
  BY StepOfOne, OthersAwait
<1>3. ASSUME run'[c].pc = "commit"  PROVE loop' = c
  <2>1. Rows(c)
    BY <1>3, Moves
  <2>2. ~Answer(c, "error")
    BY <1>3 DEF Answer, TypeOK, Request
  <2> QED
    BY <2>1, <2>2 DEF Rows, LoopHeld
<1> QED
  BY <1>1, <1>2, <1>3, Moves DEF LoopHeld

(* Committing adds a body that is apart from the others; only Create and   *)
(* Insert bring a body under Apart, each behind its own check.             *)
LEMMA ApartPreserved ==
  ASSUME TypeOK, LoopHeld, Apart, NEW c \in Clients, Arrive(c) \/ Advance(c)
  PROVE  Apart'
<1> USE DEF Alike
<1>1. \A d \in Clients \ {c} : run'[d] = run[d]
  BY StepOfOne
<1>2. tenants' = tenants \/ Commit(c)
  BY DEF Arrive, Refuse, Create, AddDomain, Advance, Insert, Key, Rows,
         Hostname
<1>3. ASSUME NEW d \in Clients, run'[d].pc \in {"insert"} \cup Inserted,
             NEW t \in tenants
      PROVE  ~Alike(run'[d].body, t)
  <2>1. CASE d # c
    BY <1>1, <1>3, <2>1 DEF Apart
  <2>2. CASE d = c /\ run'[c].pc = "insert"
    BY <2>2, Moves DEF Create, Clash
  <2>3. CASE d = c /\ run'[c].pc \in Inserted
    BY <2>3, Moves DEF Apart
  <2> QED
    BY <1>3, <2>1, <2>2, <2>3
<1>4. ASSUME NEW d \in Clients, run'[d].pc \in {"insert"} \cup Inserted,
             Commit(c)
      PROVE  ~Alike(run'[d].body, run[c].body)
  <2>1. run'[c].pc = "idle" /\ run[c].pc = "commit"
    BY <1>4 DEF Commit, Answer, TypeOK, Request
  <2>2. d # c
    BY <1>4, <2>1 DEF Inserted
  <2>3. run[d].pc \in Inserted
    BY <1>1, <1>4, <2>1, <2>2, OthersAwait DEF LoopHeld
  <2> QED
    BY <1>1, <2>1, <2>2, <2>3 DEF Apart, Inserted
<1>5. ASSUME NEW d \in Clients \ {c}, run'[c].pc \in Inserted,
             run'[d].pc \in Inserted
      PROVE  ~Alike(run'[c].body, run'[d].body)
  <2>1. CASE run[c].pc \in Inserted
    BY <1>1, <1>5, <2>1, Moves DEF Apart
  <2>2. CASE run[c].pc = "insert"
    <3>1. run[d].body \in Uncommitted(c)
      BY <1>1, <1>5 DEF Uncommitted
    <3> QED
      BY <1>1, <1>5, <2>2, <3>1, Moves DEF Insert, Clash
  <2> QED
    BY <1>5, <2>1, <2>2, Moves
<1>6. ASSUME NEW d \in Clients, NEW e \in Clients, d # e,
             run'[d].pc \in Inserted, run'[e].pc \in Inserted
      PROVE  ~Alike(run'[d].body, run'[e].body)
  <2>1. CASE d = c
    BY <1>5, <1>6, <2>1
  <2>2. CASE e = c
    BY <1>5, <1>6, <2>2
  <2>3. CASE d # c /\ e # c
    BY <1>1, <1>6, <2>3 DEF Apart
  <2> QED
    BY <2>1, <2>2, <2>3
<1>7. \A t \in tenants' : t \in tenants \/ (Commit(c) /\ t = run[c].body)
  BY <1>2 DEF Commit
<1> QED
  BY <1>3, <1>4, <1>6, <1>7 DEF Apart, Inserted, Slug

(* A step that could spoil a request about to commit needs the loop, which *)
(* that request holds.                                                     *)
LEMMA CommitReadyPreserved ==
  ASSUME TypeOK, LoopHeld, CommitReady, NEW c \in Clients,
         Arrive(c) \/ Advance(c)
  PROVE  CommitReady'
<1>1. ASSUME run'[c].pc = "commit"
      PROVE  /\ domain'[HostOf[Slug(run'[c].body)]] = None
             /\ run'[c].body.deploy =>
                  manifest'[Slug(run'[c].body)] = run'[c].body
  <2>1. Rows(c) /\ run'[c].body = run[c].body
    BY <1>1, Moves DEF Inserted
  <2>2. HostFree(HostOf[Slug(run[c].body)]) /\ manifest' = Rendered(run[c].body)
    BY <1>1, <2>1 DEF Rows, Answer, TypeOK, Request
  <2>3. Slug(run[c].body) \in Slugs
    BY <2>1, NamesAssumption, BodiesAssumption
    DEF Rows, TypeOK, Inserted, Slug
  <2> QED
    BY <2>1, <2>2, <2>3 DEF Rows, HostFree, Rendered, TypeOK
<1>2. ASSUME NEW d \in Clients \ {c}, run'[d].pc = "commit"
      PROVE  FALSE
  BY <1>2, StepOfOne, OthersAwait
<1> QED
  BY <1>1, <1>2 DEF CommitReady, Slug

LEMMA ManifestPreserved ==
  ASSUME TypeOK, Apart, CommitReady, ManifestMatches,
         NEW c \in Clients, Arrive(c) \/ Advance(c)
  PROVE  ManifestMatches'
<1>1. CASE Rows(c)
  <2>1. \A t \in tenants : Slug(t) # Slug(run[c].body)
    BY <1>1 DEF Rows, Apart, Alike, Inserted
  <2>2. \A t \in tenants : Slug(t) \in Slugs
    BY NamesAssumption, BodiesAssumption DEF TypeOK, Slug
  <2>3. manifest' \in {manifest, Rendered(run[c].body)}
    BY <1>1 DEF Rows
  <2>4. \A t \in tenants : manifest'[Slug(t)] = manifest[Slug(t)]
    BY <2>1, <2>2, <2>3 DEF Rendered, TypeOK
  <2> QED
    BY <1>1, <2>4 DEF Rows, ManifestMatches, Slug
<1>2. CASE Commit(c)
  BY <1>2 DEF Commit, CommitReady, ManifestMatches, Slug
<1>3. CASE ~Rows(c) /\ ~Commit(c)
  <2>1. UNCHANGED <<tenants, manifest>>
    BY <1>3 DEF Arrive, Refuse, Create, AddDomain, Advance, Insert, Key,
                Hostname
  <2> QED
    BY <2>1 DEF ManifestMatches, Slug
<1> QED
  BY <1>1, <1>2, <1>3

(* A domain row is only written where there was none.                      *)
LEMMA SubdomainPreserved ==
  ASSUME TypeOK, CommitReady, SubdomainOwned,
         NEW c \in Clients, Arrive(c) \/ Advance(c)
  PROVE  SubdomainOwned'
<1>1. \A t \in tenants : t # None /\ HostOf[Slug(t)] \in Hosts
  BY NullAssumption, NamesAssumption, BodiesAssumption DEF TypeOK, Slug
<1>2. CASE Commit(c)
  <2>1. HostOf[Slug(run[c].body)] \in Hosts
    BY <1>2, NamesAssumption, BodiesAssumption
    DEF Commit, TypeOK, Inserted, Slug
  <2>2. \A t \in tenants : domain'[HostOf[Slug(t)]] = t
    BY <1>1, <1>2, <2>1 DEF Commit, CommitReady, SubdomainOwned, TypeOK
  <2>3. domain'[HostOf[Slug(run[c].body)]] = run[c].body
    BY <1>2, <2>1 DEF Commit, TypeOK
  <2> QED
    BY <1>2, <2>2, <2>3 DEF Commit, SubdomainOwned, Slug
<1>3. CASE Hostname(c)
  <2>1. \A t \in tenants : domain'[HostOf[Slug(t)]] = t
    BY <1>1, <1>3 DEF Hostname, HostFree, SubdomainOwned, TypeOK
  <2> QED
    BY <1>3, <2>1 DEF Hostname, SubdomainOwned, Slug
<1>4. CASE ~Commit(c) /\ ~Hostname(c)
  <2>1. UNCHANGED <<tenants, domain>>
    BY <1>4 DEF Arrive, Refuse, Create, AddDomain, Advance, Insert, Key, Rows
  <2> QED
    BY <2>1 DEF SubdomainOwned, Slug
<1> QED
  BY <1>2, <1>3, <1>4

-----------------------------------------------------------------------------

LEMMA InvInit == Init => Inv
<1> SUFFICES ASSUME Init PROVE Inv
  OBVIOUS
<1>1. Quiet \in Request /\ Quiet.pc = "idle"
  BY DEF Quiet, Request, PCs, Answers
<1> HIDE DEF Quiet
<1>2. TypeOK
  BY <1>1 DEF Init, TypeOK, Inserted
<1>3. LoopHeld /\ Apart /\ CommitReady
  BY <1>1 DEF Init, LoopHeld, Apart, CommitReady, Inserted
<1>4. ManifestMatches /\ SubdomainOwned
  BY DEF Init, ManifestMatches, SubdomainOwned
<1> QED
  BY <1>2, <1>3, <1>4 DEF Inv

LEMMA InvCrash ==
  ASSUME Inv, Crash
  PROVE  Inv'
<1> USE DEF Inv, Crash
<1>1. Quiet \in Request /\ Quiet.pc = "idle"
  BY DEF Quiet, Request, PCs, Answers
<1> HIDE DEF Quiet
<1>2. TypeOK'
  BY <1>1 DEF TypeOK, Inserted, Slug
<1>3. (LoopHeld /\ Apart /\ CommitReady)'
  BY <1>1 DEF LoopHeld, Apart, CommitReady, Inserted
<1>4. (ManifestMatches /\ SubdomainOwned)'
  BY DEF ManifestMatches, SubdomainOwned, Slug
<1> QED
  BY <1>2, <1>3, <1>4

LEMMA InvNext == Inv /\ [Next]_vars => Inv'
<1> SUFFICES ASSUME Inv, [Next]_vars PROVE Inv'
  OBVIOUS
<1>1. ASSUME NEW c \in Clients, Arrive(c) \/ Advance(c)  PROVE Inv'
  BY <1>1, TypePreserved, LoopPreserved, ApartPreserved, CommitReadyPreserved,
     ManifestPreserved, SubdomainPreserved
  DEF Inv
<1>2. CASE Crash
  BY <1>2, InvCrash
<1>3. CASE UNCHANGED vars
  BY <1>3 DEF vars, Inv, TypeOK, LoopHeld, Apart, Alike, CommitReady,
              ManifestMatches, SubdomainOwned, Slug
<1> QED
  BY <1>1, <1>2, <1>3 DEF Next

(* Every state has the types of TypeOK, and a request that goes on has the *)
(* body or the host it goes on with (tenant_service.py:94-182).            *)
THEOREM TenantTypes == Spec => []TypeOK
<1>1. Inv => TypeOK
  BY DEF Inv
<1> QED
  BY <1>1, InvInit, InvNext, PTL DEF Spec

(* Whatever runs beside a create, fails or crashes, the manifest at the    *)
(* path of a deployed tenant was rendered for it (tenant_service.py:126).  *)
THEOREM ManifestCorrect == Spec => []ManifestMatches
<1>1. Inv => ManifestMatches
  BY DEF Inv
<1> QED
  BY <1>1, InvInit, InvNext, PTL DEF Spec

(* A tenant's subdomain is its own, whatever custom domains are added      *)
(* during the await of its create (tenant_service.py:109-142, 164-180).    *)
THEOREM SubdomainCorrect == Spec => []SubdomainOwned
<1>1. Inv => SubdomainOwned
  BY DEF Inv
<1> QED
  BY <1>1, InvInit, InvNext, PTL DEF Spec

-----------------------------------------------------------------------------
(* The registry.                                                           *)

(* The commit of a create registers its body.                              *)
LEMMA CommitRegisters ==
  ASSUME Inv, NEW c \in Clients, Commit(c)
  PROVE  run[c].body \in Accounts /\ Registry!Register(run[c].body)
<1> DEFINE b == run[c].body
<1>1. run[c].pc = "commit" /\ run[c].pc \in Inserted
  BY DEF Commit, Inserted
<1>2. b \in Accounts
  BY <1>1 DEF Inv, TypeOK, Accounts
<1>3. tenants \subseteq Accounts
  BY DEF Inv, TypeOK, Accounts
<1>4. \A t \in tenants : Slug(t) # Slug(b) /\ t.email # b.email
  BY <1>1 DEF Inv, Apart, Alike
<1>5. domain[HostOf[Slug(b)]] = None
  BY <1>1 DEF Inv, CommitReady
<1>6. /\ tenants' = tenants \cup {b}
      /\ domain' = [domain EXCEPT ![HostOf[Slug(b)]] = b]
  BY DEF Commit
<1> HIDE DEF b
<1>7. Registry!Register(b)
  BY <1>2, <1>3, <1>4, <1>5, <1>6 DEF Registry!Register
<1> QED
  BY <1>2, <1>7 DEF b

(* The tenant that a custom domain is added for stays registered during    *)
(* the Cloudflare call, for no tenant is ever deleted.                     *)
HostnameReady ==
  \A c \in Clients : run[c].pc = "hostname" => run[c].body \in tenants

LEMMA HostnameReadyPreserved ==
  ASSUME TypeOK, LoopHeld, HostnameReady, [Next]_vars
  PROVE  HostnameReady'
<1>1. ASSUME NEW c \in Clients, Arrive(c) \/ Advance(c)
      PROVE  HostnameReady'
  <2>1. tenants \subseteq tenants'
    BY <1>1 DEF Arrive, Refuse, Create, AddDomain, Advance, Insert, Key, Rows,
         Commit, Hostname
  <2>2. \A d \in Clients \ {c} : run'[d] = run[d]
    BY <1>1, StepOfOne
  <2>3. ASSUME run'[c].pc = "hostname"
        PROVE  run'[c].body \in tenants
    <3>1. ASSUME NEW p, p # "hostname", run' = [run EXCEPT ![c].pc = p]
          PROVE  FALSE
      BY <2>3, <3>1 DEF TypeOK, Request
    <3>2. ASSUME NEW code, Answer(c, code)
          PROVE  FALSE
      BY <2>3, <3>2 DEF Answer, TypeOK, Request
    <3>3. CASE \/ Insert(c) \/ Key(c) \/ Rows(c) \/ Commit(c) \/ Hostname(c)
      BY <3>1, <3>2, <3>3 DEF Insert, Key, Rows, Commit, Hostname
    <3>4. CASE \E b \in Sends[c] : Refuse(c, b) \/ Create(c, b)
      BY <2>3, <3>4 DEF Refuse, Create, Quiet, TypeOK
    <3>5. ASSUME NEW t \in tenants, NEW h \in Adds[c], NEW cf \in BOOLEAN,
                 AddDomain(c, t, h, cf)
          PROVE  run'[c].body \in tenants
      BY <2>3, <3>5 DEF AddDomain, Quiet, TypeOK
    <3> QED
      BY <1>1, <3>3, <3>4, <3>5 DEF Arrive, Advance
  <2> QED
    BY <2>1, <2>2, <2>3 DEF HostnameReady
<1>2. CASE Crash
  BY <1>2 DEF Crash, Quiet, HostnameReady
<1>3. CASE UNCHANGED vars
  BY <1>3 DEF vars, HostnameReady
<1> QED
  BY <1>1, <1>2, <1>3 DEF Next

(* The INSERT of a custom domain assigns a host or nothing.                *)
LEMMA HostnameAssigns ==
  ASSUME TypeOK, HostnameReady, NEW c \in Clients, Hostname(c)
  PROVE  \/ UNCHANGED <<tenants, domain>>
         \/ \E a \in tenants, h \in Hosts : Registry!Assign(a, h)
<1>1. run[c].body \in tenants /\ run[c].host \in Hosts
  BY DEF Hostname, HostnameReady, TypeOK
<1>2. CASE UNCHANGED domain
  BY <1>2 DEF Hostname
<1>3. CASE HostFree(run[c].host)
           /\ domain' = [domain EXCEPT ![run[c].host] = run[c].body]
  BY <1>1, <1>3 DEF Hostname, HostFree, Registry!Assign
<1> QED
  BY <1>2, <1>3 DEF Hostname

(* Creating tenants and adding domains is one registration or assignment   *)
(* at a time for whoever reads the tables (tenant_service.py:94-182): for  *)
(* any clients, names and hosts, whatever overlaps in the awaits, is       *)
(* refused, fails or crashes.                                              *)
THEOREM RegistryImplemented == Spec => ImplementsRegistry
<1>1. Init => Inv /\ HostnameReady /\ Registry!Open
  BY InvInit DEF Init, Quiet, HostnameReady, Registry!Open
<1>2. Inv /\ HostnameReady /\ [Next]_vars
        => Inv' /\ HostnameReady' /\ [Registry!Step]_(Registry!registryVars)
  <2> SUFFICES ASSUME Inv, HostnameReady, [Next]_vars
               PROVE  [Registry!Step]_(Registry!registryVars)
    BY InvNext, HostnameReadyPreserved DEF Inv
  <2>1. ASSUME NEW c \in Clients, Commit(c) \/ Hostname(c)
        PROVE  [Registry!Step]_(Registry!registryVars)
    BY <2>1, CommitRegisters, HostnameAssigns
       DEF Inv, Registry!Step, Registry!registryVars
  <2>2. CASE UNCHANGED <<tenants, domain>>
    BY <2>2 DEF Registry!registryVars
  <2>3. \/ UNCHANGED <<tenants, domain>>
        \/ \E c \in Clients : Commit(c) \/ Hostname(c)
    BY DEF Next, vars, Arrive, Refuse, Create, AddDomain, Advance, Insert,
           Key, Rows, Crash
  <2> QED
    BY <2>1, <2>2, <2>3
<1> QED
  BY <1>1, <1>2, PTL DEF Spec, ImplementsRegistry, Registry!RegistrySpec

=============================================================================
