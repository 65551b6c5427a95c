----------------------------- MODULE RealCanary -----------------------------
(***************************************************************************)
(* The real canary: an operator runs scripts/real_k8s_canary_open.sh,      *)
(* _server_dry_run.sh, _apply_and_cleanup.sh and _cleanup.sh, one at a     *)
(* time, against the control plane and a cluster.                          *)
(*                                                                         *)
(* A script sources the environment file.  The API read its settings when  *)
(* its process started (get_settings is cached) and decides by them what   *)
(* it does for real; the file may be edited and the API restarted at any   *)
(* moment, also while a script runs.  A manifest is rendered when its      *)
(* tenant is created and never again.                                      *)
(***************************************************************************)
EXTENDS SafetyGate, Naturals, Sequences

CONSTANTS
  None,         \* no tenant, no script
  Slugs,        \* slugs of canaries; also their own namespaces
  Emails,       \* EMAIL of the operator's runs
  Shared,       \* K8S_TARGET_NAMESPACE, which exists beforehand
  Selected,     \* kinds that kubectl get is asked for in cleanup.sh
  Configs,      \* contents of the environment file
  ScriptBound,  \* bound: scripts run
  ChangeBound   \* bound: edits and restarts

(* A tenant: its email, and the settings its manifest was rendered under.  *)
Tenant == [email : Emails, by : Settings]

ASSUME NullAssumption     == None \notin Tenant
ASSUME SharedAssumption   == Shared \notin Slugs
ASSUME SelectedAssumption == Selected \subseteq WorkloadKinds
ASSUME ConfigsAssumption  == Configs \subseteq Settings
ASSUME BoundAssumption    == {ScriptBound, ChangeBound} \subseteq Nat

VARIABLES
  env,         \* the environment file
  api,         \* the settings that the API process has read
  tenants,     \* per slug, its tenant
  objects,     \* the cluster: <<slug, kind>> of every canary object
  namespaces,  \* the cluster: its namespaces
  script,      \* the script that runs, or ran last
  scripts,     \* history: scripts so far
  changes      \* history: edits and restarts so far

cluster == <<objects, namespaces>>
setup   == <<env, api, changes>>
vars    == <<setup, tenants, cluster, script, scripts>>

-----------------------------------------------------------------------------
(* Scripts.  Under set -e a script is a sequence of steps, each of which   *)
(* passes or ends it.  Of step3 the steps after its own deploy are left    *)
(* out, see OwnCreate.                                                     *)
Program ==
  [open    |-> <<"preflight", "create", "plan", "deploy", "list">>,
   dry_run |-> <<"env", "preflight", "create", "server_dry_run">>,
   step3   |-> <<"env", "preflight", "create", "server_dry_run",
                 "own_create", "plan", "deploy">>,
   cleanup |-> <<"lookup", "delete", "verify">>]

Kinds == DOMAIN Program

(* code is "running", or how the script ended; touched are the adapters it *)
(* made the API call for real; restarted, calm and answered are history:   *)
(* did the API restart meanwhile, did all calls come through, did the      *)
(* kubectl of the last step answer?                                        *)
Begun(kind, slug, dry, email) ==
  [kind |-> kind, at |-> 1, slug |-> slug, dry |-> dry, email |-> email,
   code |-> "running", touched |-> {}, restarted |-> FALSE, calm |-> TRUE,
   answered |-> TRUE]

Passed(sc) ==
  [sc EXCEPT !.at = @ + 1,
             !.code = IF sc.at = Len(Program[sc.kind]) THEN "ok" ELSE @]

Refused(sc) == [sc EXCEPT !.code = "failed"]

Broken(sc) == [sc EXCEPT !.code = "failed", !.calm = FALSE]

Touching(sc, c) == [sc EXCEPT !.touched = @ \cup {c}]

Running == script # None /\ script.code = "running"

At(step) == Running /\ Program[script.kind][script.at] = step

-----------------------------------------------------------------------------
(* Manifests and the cluster.                                              *)

Home(slug) == NamespaceFor(tenants[slug].by, slug, Shared)

Documents(slug) == RenderedKinds(tenants[slug].by)

(* The objects of a tenant that these documents stand for.                 *)
Of(slug, kinds) == {slug} \X (kinds \ {"Namespace"})

(* kubectl apply and kubectl delete of some documents of a manifest; an    *)
(* object needs its namespace, and goes with it.                           *)
Apply(slug, kinds) ==
  /\ namespaces' = namespaces \cup
       IF "Namespace" \in kinds THEN {Home(slug)} ELSE {}
  /\ kinds \ {"Namespace"} # {} => Home(slug) \in namespaces'
  /\ objects' = objects \cup Of(slug, kinds)

Within(space) ==
  {o \in objects : tenants[o[1]] # None /\ Home(o[1]) = space}

Delete(slug, kinds) ==
  IF "Namespace" \in kinds
  THEN /\ namespaces' = namespaces \ {Home(slug)}
       /\ objects' = objects \ (Of(slug, kinds) \cup Within(Home(slug)))
  ELSE objects' = objects \ Of(slug, kinds) /\ UNCHANGED namespaces

-----------------------------------------------------------------------------
(* The scripts' steps.                                                     *)

Begin(kind, slug, dry, email) ==
  /\ ~Running
  /\ scripts < ScriptBound
  /\ scripts' = scripts + 1
  /\ slug # dry
  /\ script' = Begun(kind, slug, dry, email)
  /\ UNCHANGED <<setup, tenants, cluster>>

(* A call of the step does not come through, or the operator interrupts.   *)
Fault ==
  /\ Running
  /\ script' = Broken(script)
  /\ UNCHANGED <<setup, tenants, cluster, scripts>>

(* A step that only asks a question passes or ends the script.             *)
Ask(step, passes) ==
  /\ At(step)
  /\ script' = IF passes THEN Passed(script) ELSE Refused(script)
  /\ UNCHANGED <<setup, tenants, cluster, scripts>>

CheckEnv ==
  Ask("env", IF script.kind = "step3" THEN Step3Passes(env) ELSE EnvPasses(env))

Preflight == Ask("preflight", PreflightPasses(api))

Plan == Ask("plan", PlanPasses(api))

(* kubectl apply --dry-run=server, by the host and in the container; the   *)
(* post-check selects app=$SLUG, a label that no object has.               *)
ServerDryRun == \E accepted \in BOOLEAN : Ask("server_dry_run", accepted)

(* kubectl get at the end of open.sh: an empty answer is an answer.        *)
List == Ask("list", TRUE)

(* POST /tenants with deploy=true.  The reply may be lost.                 *)
CreateTenant(step, slug) ==
  /\ At(step)
  /\ LET sc == IF ProbesSub2API(api) THEN Touching(script, "sub2api")
               ELSE script
     IN \/ /\ \/ tenants[slug] # None
              \/ \E t \in Slugs :
                   tenants[t] # None /\ tenants[t].email = script.email
           /\ script' = Refused(script)
           /\ UNCHANGED tenants
        \/ /\ tenants[slug] = None
           /\ \A t \in Slugs :
                tenants[t] # None => tenants[t].email # script.email
           /\ \/ /\ NamespaceKnown(api)
                 /\ tenants' = [tenants EXCEPT
                                  ![slug] = [email |-> script.email, by |-> api]]
                 /\ script' \in {Passed(sc), Broken(sc)}
              \/ /\ ~NamespaceKnown(api)
                 /\ script' = Refused(sc)
                 /\ UNCHANGED tenants
  /\ UNCHANGED <<setup, cluster, scripts>>

Create ==
  CreateTenant("create", IF script.kind = "step3" THEN script.dry
                         ELSE script.slug)

(* Step 3 creates its own tenant with the email that its dry run has just  *)
(* used.  No endpoint deletes a tenant or changes an email, so what        *)
(* follows this step in the script is never reached.                       *)
OwnCreate == CreateTenant("own_create", script.slug)

(* Mutant: a failed kubectl apply does not fail the request.               *)
DeployAnyway ==
  /\ At("deploy")
  /\ \/ \E kinds \in SUBSET Documents(script.slug) :
          /\ ~ShouldMock(api, FALSE)
          /\ Apply(script.slug, kinds)
          /\ script' = Passed(Touching(script, "k8s"))
     \/ /\ ShouldMock(api, FALSE)
        /\ script' = Passed(script)
        /\ UNCHANGED cluster
  /\ UNCHANGED <<setup, tenants, scripts>>

(* POST /tenants/{id}/deploy with dry_run=false: validation, then kubectl  *)
(* apply, rollout status and get.  If one fails, part of the apply or all  *)
(* of it was done, and the reply is an error.                              *)
Deploy ==
  LET slug == script.slug
      sc   == Touching(script, "k8s")
  IN /\ At("deploy")
     /\ \/ /\ ~(DesiredKinds(api) \subseteq Documents(slug))
           /\ script' = Refused(script)
           /\ UNCHANGED cluster
        \/ /\ DesiredKinds(api) \subseteq Documents(slug)
           /\ ShouldMock(api, FALSE)
           /\ script' = Passed(script)
           /\ UNCHANGED cluster
        \/ /\ DesiredKinds(api) \subseteq Documents(slug)
           /\ ~ShouldMock(api, FALSE)
           /\ \/ Apply(slug, Documents(slug)) /\ script' = Passed(sc)
              \/ \E kinds \in SUBSET Documents(slug) :
                   Apply(slug, kinds) /\ script' = Broken(sc)
     /\ UNCHANGED <<setup, tenants, scripts>>

(* Mutant: a lookup that finds nothing does not skip the delete.           *)
LookupAnyway ==
  /\ At("lookup")
  /\ script' = Passed(script)
  /\ UNCHANGED <<setup, tenants, cluster, scripts>>

(* cleanup.sh looks the tenant up; without one it only asks kubectl.       *)
Lookup ==
  /\ At("lookup")
  /\ script' = IF tenants[script.slug] # None THEN Passed(script)
               ELSE [script EXCEPT !.at = 3]
  /\ UNCHANGED <<setup, tenants, cluster, scripts>>

(* POST /tenants/{id}/delete-runtime.                                      *)
DeleteRuntime ==
  LET slug == script.slug
      sc   == Touching(script, "k8s")
  IN /\ At("delete")
     /\ \/ /\ ShouldMock(api, FALSE)
           /\ script' = Passed(script)
           /\ UNCHANGED cluster
        \/ /\ ~ShouldMock(api, FALSE)
           /\ \/ Delete(slug, Documents(slug)) /\ script' = Passed(sc)
              \/ \E kinds \in SUBSET Documents(slug) :
                   Delete(slug, kinds) /\ script' = Broken(sc)
     /\ UNCHANGED <<setup, tenants, scripts>>

(* Mutant: the selector of server_dry_run.sh, a label that nothing has.    *)
VerifyWrongLabel ==
  /\ At("verify")
  /\ script' = Passed(script)
  /\ UNCHANGED <<setup, tenants, cluster, scripts>>

(* if kubectl get ... | grep -q: found objects fail the script; none, or a *)
(* kubectl that does not end well, pass it (a failure of its own, or the   *)
(* pipe that grep -q closes at the first line: set -o pipefail).           *)
Verify ==
  /\ At("verify")
  /\ \/ script' = IF objects \cap Of(script.slug, Selected) = {}
                  THEN Passed(script) ELSE Refused(script)
     \/ script' = [Passed(script) EXCEPT !.answered = FALSE]
  /\ UNCHANGED <<setup, tenants, cluster, scripts>>

-----------------------------------------------------------------------------
(* The operator's other hand.                                              *)

Edit(config) ==
  /\ changes < ChangeBound
  /\ config # env
  /\ env' = config
  /\ changes' = changes + 1
  /\ UNCHANGED <<api, tenants, cluster, script, scripts>>

Restart ==
  /\ changes < ChangeBound
  /\ changes' = changes + 1
  /\ api' = env
  /\ script' = IF Running THEN [script EXCEPT !.restarted = TRUE] ELSE script
  /\ UNCHANGED <<env, tenants, cluster, scripts>>

Init ==
  /\ env \in Configs
  /\ api \in Configs
  /\ tenants = [slug \in Slugs |-> None]
  /\ objects = {}
  /\ namespaces = {Shared}
  /\ script = None
  /\ scripts = 0
  /\ changes = 0

Step ==
  \/ CheckEnv \/ Preflight \/ Create \/ OwnCreate \/ ServerDryRun
  \/ Plan \/ Deploy \/ List
  \/ Lookup \/ DeleteRuntime \/ Verify

Next ==
  \/ \E kind \in Kinds, slug, dry \in Slugs, email \in Emails :
       Begin(kind, slug, dry, email)
  \/ Step \/ Fault
  \/ \E config \in Configs : Edit(config)
  \/ Restart

Spec == Init /\ [][Next]_vars

-----------------------------------------------------------------------------
(* Properties.                                                             *)

Script ==
  [kind : Kinds, at : Nat \ {0}, slug : Slugs, dry : Slugs, email : Emails,
   code : {"running", "ok", "failed"}, touched : SUBSET Adapters,
   restarted : BOOLEAN, calm : BOOLEAN, answered : BOOLEAN]

(* Types; a script that plans, deploys or deletes works on a tenant there  *)
(* is, and every object lies in a namespace that exists                    *)
(* (real_k8s_canary_open.sh:82-98, real_k8s_canary_cleanup.sh:28-48).      *)
TypeOK ==
  /\ env \in Settings /\ api \in Settings
  /\ tenants \in [Slugs -> Tenant \cup {None}]
  /\ objects \subseteq Slugs \X WorkloadKinds
  /\ namespaces \subseteq Slugs \cup {Shared}
  /\ script = None \/ script \in Script
  /\ scripts \in Nat /\ changes \in Nat
  /\ \A step \in {"plan", "deploy", "delete"} :
       At(step) => tenants[script.slug] # None
  /\ \A o \in objects : tenants[o[1]] # None /\ Home(o[1]) \in namespaces

(* While the API keeps its settings, no script makes it call anything but  *)
(* Kubernetes, whatever the environment file and the API's settings are    *)
(* (real_k8s_canary_open.sh:55-64, real_k8s_canary_server_dry_run.sh:111). *)
OnlyK8sTouched ==
  script # None /\ ~script.restarted => script.touched \subseteq {"k8s"}

(* open.sh says "completed" only if every object of the manifest is in the *)
(* cluster, unless the API was restarted under it                          *)
(* (real_k8s_canary_open.sh:98-118).                                       *)
CompletedMeansCreated ==
  script # None /\ script.kind = "open" /\ script.code = "ok"
    /\ ~script.restarted =>
      Of(script.slug, Documents(script.slug)) \subseteq objects

(* A cleanup that says "completed" and whose kubectl answered has left     *)
(* nothing that it looks for, also if the API was in mock mode by then;    *)
(* with a real delete it has left nothing at all                           *)
(* (real_k8s_canary_cleanup.sh:48-58).                                     *)
CleanupHonest ==
  script # None /\ script.kind = "cleanup" /\ script.code = "ok" =>
    /\ script.answered => objects \cap Of(script.slug, Selected) = {}
    /\ "k8s" \in script.touched =>
         objects \cap Of(script.slug, WorkloadKinds) = {}

(* A cleanup takes objects of its own slug only, unless its manifest was   *)
(* rendered with the shared namespace as one of its documents              *)
(* (k8s_renderer.py:118, :355).                                            *)
OthersSurvive ==
  [][\A o \in objects \ objects' :
       LET by == tenants[script.slug].by
       IN \/ o[1] = script.slug
          \/ by.k8s_namespace_mode = "fixed" /\ by.k8s_create_namespace]_vars

(* docs/REAL_CANARY_0_RUNBOOK.md:175-178, "Step 3 will: create real        *)
(* Kubernetes canary resources": a Step 3 whose checks passed, whose calls *)
(* all came through and that found slugs and email unused has deployed.    *)
Step3Creates ==
  script # None /\ script.kind = "step3" /\ script.code # "running" =>
    \/ ~script.calm \/ script.restarted
    \/ script.at <= 4
    \/ "k8s" \in script.touched

=============================================================================
