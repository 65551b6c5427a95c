--------------------------- MODULE TenantCreation ---------------------------
(***************************************************************************)
(* Creating tenants and their domains (create_tenant and                   *)
(* add_custom_domain in app/services/tenant_service.py, POST /tenants and  *)
(* POST /tenants/{id}/domains).                                            *)
(*                                                                         *)
(* Both handlers are coroutines of the one event loop.  create_tenant      *)
(* flushes the new row before it awaits the Sub2API key, so its slug and   *)
(* email are in the unique indexes, uncommitted, during the await.  An     *)
(* INSERT that meets such an entry waits inside Postgres for the other     *)
(* transaction to end, and as the driver is synchronous the event loop     *)
(* waits with it.                                                          *)
(***************************************************************************)
EXTENDS Naturals, FiniteSets

CONSTANTS
  None,            \* null
  Clients,         \* clients, one request at a time each
  Names, Slugs, Emails, Hosts,
  SlugOf,          \* normalize_slug: several names may give one slug, or none
  HostOf,          \* the subdomain of a slug
  Bodies,          \* bodies of POST /tenants
  Sends,           \* the bodies that each client sends
  Adds,            \* the hosts for which each client adds a custom domain
  RealSub2API, RealCloudflare,   \* real_external_enabled of the adapter
  TenantKey,       \* SUB2API_TENANT_KEY is set
  CrashBound       \* bound: crashes of the process

ASSUME NullAssumption ==
  /\ None \notin Slugs /\ None \notin Hosts
  /\ None \notin Bodies /\ None \notin Clients
ASSUME NamesAssumption ==
  /\ SlugOf \in [Names -> Slugs \cup {None}]
  /\ HostOf \in [Slugs -> Hosts]
ASSUME BodiesAssumption ==
  /\ Bodies \subseteq [name : Names, email : Emails, deploy : BOOLEAN]
  /\ Sends \in [Clients -> SUBSET Bodies]
  /\ Adds \in [Clients -> SUBSET Hosts]
ASSUME SettingsAssumption ==
  {RealSub2API, RealCloudflare, TenantKey} \subseteq BOOLEAN
ASSUME CrashAssumption == CrashBound \in Nat

VARIABLES
  tenants,    \* the committed tenants, as the bodies that made them
  domain,     \* the committed domain rows: host -> the tenant that has it
  manifest,   \* the manifest files: slug -> the body it was rendered from
  run,        \* per client, its request
  loop,       \* the request that holds the event loop, or None
  crashes     \* history: crashes so far

vars == <<tenants, domain, manifest, run, loop, crashes>>

-----------------------------------------------------------------------------

Slug(b) == SlugOf[b.name]

(* The tenants of B with the slug or the email of b.                       *)
Clash(b, B) == {t \in B : Slug(t) = Slug(b) \/ t.email = b.email}

(* Where a request stands; in the Inserted states its tenant row is in the *)
(* database, uncommitted.                                                  *)
Inserted == {"key", "rows", "commit"}
PCs      == {"idle", "insert", "hostname"} \cup Inserted
Answers  == {"none", "ok", "invalid", "conflict", "error"}

Quiet == [pc |-> "idle", body |-> None, host |-> None, answer |-> "none"]

Init ==
  /\ tenants = {}
  /\ domain = [h \in Hosts |-> None]
  /\ manifest = [s \in Slugs |-> None]
  /\ run = [c \in Clients |-> Quiet]
  /\ loop = None
  /\ crashes = 0

(* The rows that other requests have inserted and not yet committed.       *)
Uncommitted(c) ==
  {run[d].body : d \in {e \in Clients \ {c} : run[e].pc \in Inserted}}

Begins(c) == loop = None /\ run[c].pc = "idle"

(* An await on a real adapter gives the loop up; without one there is none. *)
Released(real, c) == IF real THEN None ELSE c

(* The request is answered and the loop is free.                           *)
(* Mutant: the handler keeps the loop after an answer.                     *)
AnswerHolding(c, code) ==
  /\ run' = [run EXCEPT ![c].pc = "idle", ![c].answer = code]
  /\ loop' = c

Answer(c, code) ==
  /\ run' = [run EXCEPT ![c].pc = "idle", ![c].answer = code]
  /\ loop' = None

-----------------------------------------------------------------------------
(* POST /tenants: the slug, then the lookup by slug or email; more than    *)
(* one row makes scalar_one_or_none raise.                                 *)

(* Mutant: an empty slug is not refused.                                   *)
SlugUnchecked(b) == TRUE

SlugValid(b) == Slug(b) # None

Verdict(b) ==
  IF ~SlugValid(b) THEN "invalid"
  ELSE IF Cardinality(Clash(b, tenants)) = 1 THEN "conflict"
  ELSE "error"

Refuse(c, b) ==
  /\ Begins(c)
  /\ SlugValid(b) => Clash(b, tenants) # {}
  /\ run' = [run EXCEPT ![c] = [Quiet EXCEPT !.body = b, !.answer = Verdict(b)]]
  /\ UNCHANGED <<tenants, domain, manifest, loop, crashes>>

Create(c, b) ==
  /\ Begins(c)
  /\ SlugValid(b)
  /\ Clash(b, tenants) = {}
  /\ run' = [run EXCEPT ![c] = [Quiet EXCEPT !.body = b, !.pc = "insert"]]
  /\ loop' = c
  /\ UNCHANGED <<tenants, domain, manifest, crashes>>

(* create_tenant_key calls out only to probe with the admin key.           *)
AwaitsKey == RealSub2API /\ ~TenantKey

(* Mutant: the columns have no unique index.                               *)
InsertUnindexed(c) ==
  /\ run[c].pc = "insert"
  /\ run' = [run EXCEPT ![c].pc = "key"]
  /\ loop' = Released(AwaitsKey, c)
  /\ UNCHANGED <<tenants, domain, manifest, crashes>>

(* The INSERT returns once no uncommitted row has the slug or the email:   *)
(* until then the request waits, with the loop.                            *)
Insert(c) ==
  /\ run[c].pc = "insert"
  /\ Clash(run[c].body, Uncommitted(c)) = {}
  /\ run' = [run EXCEPT ![c].pc = "key"]
  /\ loop' = Released(AwaitsKey, c)
  /\ UNCHANGED <<tenants, domain, manifest, crashes>>

(* Whatever came of the probe, a key is returned.                          *)
Key(c) ==
  /\ run[c].pc = "key"
  /\ loop = Released(AwaitsKey, c)
  /\ run' = [run EXCEPT ![c].pc = "rows"]
  /\ loop' = c
  /\ UNCHANGED <<tenants, domain, manifest, crashes>>

(* Mutant: the domain column has no unique index and is not looked up.     *)
HostFreeUnchecked(h) == TRUE

HostFree(h) == domain[h] = None

(* Mutant: a manifest file that is there already is used as it is.         *)
RenderedOnce(b) ==
  IF b.deploy /\ manifest[Slug(b)] = None THEN [manifest EXCEPT ![Slug(b)] = b]
  ELSE manifest

Rendered(b) ==
  IF b.deploy THEN [manifest EXCEPT ![Slug(b)] = b] ELSE manifest

(* The flush of the other rows, then the manifest file.  If the subdomain  *)
(* is taken the flush fails and SQLAlchemy rolls the transaction back, the *)
(* tenant's row with it, before it raises.                                 *)
Rows(c) ==
  LET b == run[c].body
  IN /\ run[c].pc = "rows"
     /\ \/ /\ HostFree(HostOf[Slug(b)])
           /\ manifest' = Rendered(b)
           /\ run' = [run EXCEPT ![c].pc = "commit"]
           /\ UNCHANGED loop
        \/ /\ ~HostFree(HostOf[Slug(b)])
           /\ Answer(c, "error")
           /\ UNCHANGED manifest
     /\ UNCHANGED <<tenants, domain, crashes>>

Commit(c) ==
  LET b == run[c].body
  IN /\ run[c].pc = "commit"
     /\ tenants' = tenants \cup {b}
     /\ domain' = [domain EXCEPT ![HostOf[Slug(b)]] = b]
     /\ Answer(c, "ok")
     /\ UNCHANGED <<manifest, crashes>>

-----------------------------------------------------------------------------
(* POST /tenants/{id}/domains for a tenant t: the lookup, the Cloudflare   *)
(* call if asked for, the INSERT and its commit.                           *)

AddDomain(c, t, h, cloudflare) ==
  /\ Begins(c)
  /\ \/ /\ ~HostFree(h)
        /\ run' = [run EXCEPT ![c] = [Quiet EXCEPT !.answer = "conflict"]]
        /\ UNCHANGED loop
     \/ /\ HostFree(h)
        /\ run' = [run EXCEPT ![c] = [Quiet EXCEPT !.pc = "hostname",
                                                   !.body = t, !.host = h]]
        /\ loop' = Released(cloudflare /\ RealCloudflare, c)
  /\ UNCHANGED <<tenants, domain, manifest, crashes>>

(* The reply, whatever its status, is followed by the INSERT; an HTTP      *)
(* error raises, and so does a name that was taken during the await.       *)
Hostname(c) ==
  /\ run[c].pc = "hostname"
  /\ \/ /\ loop \in {None, c}
        /\ HostFree(run[c].host)
        /\ domain' = [domain EXCEPT ![run[c].host] = run[c].body]
        /\ Answer(c, "ok")
     \/ /\ loop = None
        /\ Answer(c, "error")
        /\ UNCHANGED domain
  /\ UNCHANGED <<tenants, manifest, crashes>>

(* The process dies: requests and uncommitted rows are gone, files stay.   *)
Crash ==
  /\ crashes < CrashBound
  /\ crashes' = crashes + 1
  /\ run' = [c \in Clients |-> Quiet]
  /\ loop' = None
  /\ UNCHANGED <<tenants, domain, manifest>>

-----------------------------------------------------------------------------

Arrive(c) ==
  \/ \E b \in Sends[c] : Refuse(c, b) \/ Create(c, b)
  \/ \E t \in tenants, h \in Adds[c], cf \in BOOLEAN : AddDomain(c, t, h, cf)

Advance(c) ==
  \/ Insert(c) \/ Key(c) \/ Rows(c) \/ Commit(c) \/ Hostname(c)

Next ==
  \/ \E c \in Clients : Arrive(c) \/ Advance(c)
  \/ Crash

Spec == Init /\ [][Next]_vars

(* The loop serves its ready coroutines in turn, and calls end at their    *)
(* HTTP timeouts.                                                          *)
FairSpec == Spec /\ \A c \in Clients : SF_vars(Advance(c))

-----------------------------------------------------------------------------
(* Properties.                                                             *)

Request ==
  [pc : PCs, body : Bodies \cup {None}, host : Hosts \cup {None},
   answer : Answers]

(* Types, and that a request has the body or the host its next step needs. *)
TypeOK ==
  /\ tenants \subseteq {b \in Bodies : Slug(b) # None}
  /\ domain \in [Hosts -> Bodies \cup {None}]
  /\ manifest \in [Slugs -> Bodies \cup {None}]
  /\ run \in [Clients -> Request]
  /\ loop \in Clients \cup {None}
  /\ crashes \in Nat
  /\ \A c \in Clients :
       /\ run[c].pc \in {"insert"} \cup Inserted =>
            run[c].body \in Bodies /\ Slug(run[c].body) # None
       /\ run[c].pc = "hostname" =>
            run[c].body \in Bodies /\ run[c].host \in Hosts

(* The manifest at a deployed tenant's path was rendered for that tenant:  *)
(* no create that failed, crashed or ran beside it wrote its own over it   *)
(* (tenant_service.py:106-138).                                            *)
ManifestMatches ==
  \A t \in tenants : t.deploy => manifest[Slug(t)] = t

(* A tenant's subdomain row is its own, whoever added custom domains       *)
(* during the create's await (tenant_service.py:109-142, 164-180).         *)
SubdomainOwned ==
  \A t \in tenants : domain[HostOf[Slug(t)]] = t

(* A create, spread over an INSERT, an await, more INSERTs, a file and a   *)
(* commit, is one step for whoever reads the tables: two tenants never     *)
(* share a slug or an email, and no host changes its tenant (lines 94-182, *)
(* models/tenant.py:16-37).                                                *)
Accounts == {b \in Bodies : Slug(b) # None}

Registry == INSTANCE TenantRegistry WITH
  Name     <- [b \in Accounts |-> Slug(b)],
  Mail     <- [b \in Accounts |-> b.email],
  Home     <- [b \in Accounts |-> HostOf[Slug(b)]],
  accounts <- tenants,
  owner    <- domain

ImplementsRegistry == Registry!RegistrySpec

(* A request that the service took up is answered, whatever others do.     *)
RequestsAnswered ==
  \A c \in Clients : run[c].pc # "idle" ~> run[c].pc = "idle"

(* An INSERT that waits, with the loop, for a row whose request needs the  *)
(* loop to go on: for ever, unless the process dies.                       *)
Blocked(c) ==
  /\ run[c].pc = "insert"
  /\ \E d \in Clients \ {c} :
       run[d].pc = "key" /\ Clash(run[c].body, {run[d].body}) # {}

(* There is no other way not to be answered: custom domains, refused       *)
(* subdomains and crashes never keep a request, or the loop, for good      *)
(* (tenant_service.py:107-142, 164-180).                                   *)
AnsweredUnlessBlocked ==
  \A c \in Clients :
    run[c].pc # "idle" ~> run[c].pc = "idle" \/ \E d \in Clients : Blocked(d)

=============================================================================
