----------------------------- MODULE SafetyGate -----------------------------
(***************************************************************************)
(* What the control plane may touch for real, as a function of its         *)
(* settings: the gate (app/services/safety.py), the verdicts that the      *)
(* preflight gives on it (app/services/realflow.py), and what the renderer *)
(* (app/services/k8s_renderer.py) makes of the namespace settings.         *)
(***************************************************************************)

CONSTANTS
  Names,          \* items of an allow list: the adapters, and other words
  WorkloadKinds   \* WORKLOAD_KINDS: Secret, Deployment, Service, ...

Adapters == {"k8s", "newapi", "sub2api", "cloudflare"}

ASSUME NamesAssumption == Adapters \subseteq Names
ASSUME KindsAssumption == "Namespace" \notin WorkloadKinds

-----------------------------------------------------------------------------
(* The settings.  A credential is absent, blank, a "change-me", or given;  *)
(* a site value is empty, the default of config.py, the sample of an       *)
(* example file, or given.  The allow list is the set of its items,        *)
(* stripped and in lower case.                                             *)

Credentials == {"none", "blank", "change-me", "given"}
Sites       == {"empty", "default", "sample", "given"}
Modes       == {"generated", "fixed", "other"}

Settings ==
  [allow_real_external_calls : BOOLEAN, real_external_allowlist : SUBSET Names,
   apply_k8s : BOOLEAN, k8s_apply_mode : {"mock", "dry-run", "real"},
   newapi_mock : BOOLEAN, newapi_admin_token : Credentials,
   newapi_admin_user_id : Credentials,
   sub2api_mock : BOOLEAN, sub2api_tenant_key : Credentials,
   sub2api_admin_key : Credentials,
   cloudflare_mock : BOOLEAN, cloudflare_api_token : Credentials,
   cloudflare_zone_id : Credentials,
   k8s_namespace_mode : Modes, k8s_target_namespace : BOOLEAN,
   k8s_create_namespace : BOOLEAN, k8s_server_dry_run_first : BOOLEAN,
   k8s_canary_mode : BOOLEAN,
   base_domain : Sites, public_gateway_cname : Sites,
   newapi_sql_dsn_template : Sites, newapi_redis_conn_template : Sites]

(* What is installed beside the process.                                   *)
Hosts == [kubectl : BOOLEAN, kubeconfig : BOOLEAN]

-----------------------------------------------------------------------------
(* safety.py                                                               *)

CredentialPresent(value) == value = "given"

AllowedRealAdapters(s) == s.real_external_allowlist \cap Adapters

(* The switch of each adapter, and the credentials without which it stays  *)
(* mocked.                                                                 *)
Wanted(s, c) ==
  CASE c = "k8s"        -> s.k8s_apply_mode = "real"
    [] c = "newapi"     -> ~s.newapi_mock
    [] c = "sub2api"    -> ~s.sub2api_mock
    [] c = "cloudflare" -> ~s.cloudflare_mock

Equipped(s, c) ==
  CASE c = "k8s"     -> s.apply_k8s
    [] c = "newapi"  -> CredentialPresent(s.newapi_admin_token)
    [] c = "sub2api" -> \/ CredentialPresent(s.sub2api_tenant_key)
                        \/ CredentialPresent(s.sub2api_admin_key)
    [] c = "cloudflare" -> /\ CredentialPresent(s.cloudflare_api_token)
                           /\ CredentialPresent(s.cloudflare_zone_id)

RealExternalEnabled(s, c) ==
  /\ s.allow_real_external_calls
  /\ c \in AllowedRealAdapters(s)
  /\ Wanted(s, c) /\ Equipped(s, c)

(* will_call_* of the snapshot.                                            *)
WillCall(s) == {c \in Adapters : RealExternalEnabled(s, c)}

(* The warnings of the snapshot: an adapter that is wanted, and what       *)
(* stands in its way, or a credential that it will miss.                   *)
Warnings(s) ==
  {<<c, "gate">> : c \in {a \in Adapters :
      Wanted(s, a) /\ ~s.allow_real_external_calls}}
  \cup {<<c, "allowlist">> : c \in {a \in Adapters :
      /\ Wanted(s, a) /\ s.allow_real_external_calls
      /\ a \notin AllowedRealAdapters(s)}}
  \cup {<<c, "credential">> : c \in {a \in {"newapi", "sub2api"} :
      /\ RealExternalEnabled(s, a)
      /\ ~CredentialPresent(IF a = "newapi" THEN s.newapi_admin_user_id
                            ELSE s.sub2api_tenant_key)}}

(* create_tenant_key probes Sub2API when it has no key to hand out.        *)
ProbesSub2API(s) ==
  RealExternalEnabled(s, "sub2api") /\ ~CredentialPresent(s.sub2api_tenant_key)

(* should_mock(settings, force_dry_run)                                    *)
ShouldMock(s, dry) == dry \/ ~RealExternalEnabled(s, "k8s")

-----------------------------------------------------------------------------
(* realflow.py: the checks that are required for real, and the verdicts.   *)

Required(s, h) ==
  [global_real_gate   |-> s.allow_real_external_calls,
   k8s_allowlisted    |-> "k8s" \in AllowedRealAdapters(s),
   k8s_real_mode      |-> RealExternalEnabled(s, "k8s"),
   kubectl_binary     |-> h.kubectl,
   kubeconfig_present |-> h.kubeconfig,
   namespace_mode     |-> s.k8s_namespace_mode \in {"generated", "fixed"},
   fixed_namespace    |-> s.k8s_namespace_mode = "fixed" =>
                            s.k8s_target_namespace,
   base_domain        |-> s.base_domain \notin {"empty", "default"},
   gateway_cname      |-> s.public_gateway_cname \notin {"empty", "default"},
   newapi_dsn         |-> s.newapi_sql_dsn_template # "default",
   newapi_redis       |-> s.newapi_redis_conn_template # "default"]

Blocking(s, h) ==
  {check \in DOMAIN Required(s, h) : ~Required(s, h)[check]}

ReadyForReal(s, h) == Blocking(s, h) = {}

ReadyForCanary(s, h) ==
  /\ ReadyForReal(s, h)
  /\ RealExternalEnabled(s, "k8s")
  /\ \A c \in {"newapi", "sub2api", "cloudflare"} : ~RealExternalEnabled(s, c)

-----------------------------------------------------------------------------
(* k8s_renderer.py: namespaces and kinds of documents.                     *)

(* namespace_for raises for a fixed namespace that is not set.             *)
NamespaceKnown(s) == s.k8s_namespace_mode = "fixed" => s.k8s_target_namespace

NamespaceFor(s, own, shared) ==
  IF s.k8s_namespace_mode = "fixed" THEN shared ELSE own

(* Mutant: the namespace is always one of the documents.                   *)
AlwaysRendersNamespace(s) == TRUE

RendersNamespace(s) ==
  s.k8s_namespace_mode = "generated" \/ s.k8s_create_namespace

RenderedKinds(s) ==
  WorkloadKinds \cup IF RendersNamespace(s) THEN {"Namespace"} ELSE {}

DesiredKinds(s) ==
  WorkloadKinds \cup
    IF s.k8s_namespace_mode = "fixed" /\ ~s.k8s_create_namespace
    THEN {} ELSE {"Namespace"}

-----------------------------------------------------------------------------
(* What the canary scripts ask for.                                        *)

(* Mutant: Sub2API is not asked about.                                     *)
PreflightForgetsSub2API(s) ==
  "k8s" \in WillCall(s) /\ WillCall(s) \subseteq {"k8s", "sub2api"}

(* The four assertions of open.sh and of the server-side dry run on        *)
(* will_call_k8s, will_call_newapi, will_call_sub2api, will_call_cloudflare. *)
PreflightPasses(s) ==
  /\ "k8s" \in WillCall(s)
  /\ \A c \in {"newapi", "sub2api", "cloudflare"} : c \notin WillCall(s)

(* The steps of the deployment plan that would call out; open.sh wants the *)
(* deploy to be the only one.                                              *)
PlanCalls(s) ==
  [deploy_newapi_runtime |-> RealExternalEnabled(s, "k8s"),
   init_newapi_admin_and_token |-> RealExternalEnabled(s, "newapi"),
   bind_sub2api_upstream_to_newapi_channel |->
     RealExternalEnabled(s, "newapi") \/ RealExternalEnabled(s, "sub2api"),
   verify_domains |-> RealExternalEnabled(s, "cloudflare")]

PlanPasses(s) ==
  \A step \in DOMAIN PlanCalls(s) :
    PlanCalls(s)[step] <=> step = "deploy_newapi_runtime"

(* The environment file as the dry run and its strict doctor want it; a    *)
(* secret that is not in the file reads as absent, blank or a "change-me". *)
EnvPasses(s) ==
  /\ s.allow_real_external_calls /\ s.real_external_allowlist = {"k8s"}
  /\ s.apply_k8s /\ s.k8s_apply_mode = "real" /\ s.k8s_server_dry_run_first
  /\ s.k8s_namespace_mode = "fixed" /\ s.k8s_target_namespace
  /\ ~s.k8s_create_namespace
  /\ s.newapi_mock /\ s.sub2api_mock /\ s.cloudflare_mock
  /\ \A secret \in {s.newapi_admin_token, s.sub2api_admin_key,
                    s.sub2api_tenant_key, s.cloudflare_api_token,
                    s.cloudflare_zone_id} : ~CredentialPresent(secret)
  /\ s.base_domain = "given" /\ s.public_gateway_cname = "given"
  /\ "empty" \notin {s.newapi_sql_dsn_template, s.newapi_redis_conn_template}

(* Step 3 asks for more.                                                   *)
Step3Passes(s) ==
  /\ EnvPasses(s) /\ s.k8s_canary_mode
  /\ s.newapi_sql_dsn_template = "given"
  /\ s.newapi_redis_conn_template = "given"

=============================================================================
