---------------------------- MODULE MCRealCanary ----------------------------
(* Small instances of RealCanary for TLC.                                  *)
EXTENDS RealCanary, TLC

MCNames == Adapters \cup {"redis"}

MCKinds == {"Secret", "Deployment"}

(* .env.real-canary.example with the site values of a test cluster.        *)
Canary ==
  [allow_real_external_calls |-> TRUE, real_external_allowlist |-> {"k8s"},
   apply_k8s |-> TRUE, k8s_apply_mode |-> "real",
   newapi_mock |-> TRUE, newapi_admin_token |-> "blank",
   newapi_admin_user_id |-> "blank",
   sub2api_mock |-> TRUE, sub2api_tenant_key |-> "blank",
   sub2api_admin_key |-> "blank",
   cloudflare_mock |-> TRUE, cloudflare_api_token |-> "blank",
   cloudflare_zone_id |-> "blank",
   k8s_namespace_mode |-> "fixed", k8s_target_namespace |-> TRUE,
   k8s_create_namespace |-> FALSE, k8s_server_dry_run_first |-> TRUE,
   k8s_canary_mode |-> TRUE,
   base_domain |-> "given", public_gateway_cname |-> "given",
   newapi_sql_dsn_template |-> "given",
   newapi_redis_conn_template |-> "given"]

(* The example file as it is: sample templates.                            *)
Sampled == [Canary EXCEPT !.newapi_sql_dsn_template = "sample"]

(* config.py's defaults.                                                   *)
Default ==
  [Canary EXCEPT !.allow_real_external_calls = FALSE,
                 !.real_external_allowlist = {},
                 !.apply_k8s = FALSE, !.k8s_apply_mode = "mock",
                 !.sub2api_admin_key = "change-me",
                 !.k8s_namespace_mode = "generated",
                 !.k8s_target_namespace = FALSE,
                 !.k8s_create_namespace = TRUE, !.k8s_canary_mode = FALSE,
                 !.base_domain = "default",
                 !.public_gateway_cname = "default",
                 !.newapi_sql_dsn_template = "default",
                 !.newapi_redis_conn_template = "default"]

(* Namespaces of their own, for real.                                      *)
Generated == [Canary EXCEPT !.k8s_namespace_mode = "generated"]

(* A fixed namespace that every manifest creates, and deletes.             *)
Creating == [Canary EXCEPT !.k8s_create_namespace = TRUE]

(* A fixed namespace that is not set.                                      *)
Nowhere == [Canary EXCEPT !.k8s_target_namespace = FALSE]

(* Sub2API for real, without a key to hand out.                            *)
Probing ==
  [Canary EXCEPT !.real_external_allowlist = {"k8s", "sub2api", "redis"},
                 !.sub2api_mock = FALSE, !.sub2api_admin_key = "given"]

MCConfigs ==
  {Canary, Default, Generated, Creating, Nowhere, Probing}

StepConfigs == {Canary, Sampled, Default}

=============================================================================
