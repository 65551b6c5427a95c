-------------------------- MODULE RealCanaryProofs --------------------------
(***************************************************************************)
(* Proofs about SafetyGate and RealCanary.  The first part is about the    *)
(* settings alone, the second about the scripts: one inductive invariant,  *)
(* from which the properties that the run checks follow.                   *)
(***************************************************************************)
EXTENDS RealCanary, TLAPS

-----------------------------------------------------------------------------
(* The settings.                                                           *)

(* The adapters are four, and each is one of them.                         *)
LEMMA CallFacts ==
  ASSUME NEW s
  PROVE  /\ WillCall(s) \subseteq Adapters
         /\ \A c \in Adapters : c \in WillCall(s) <=> RealExternalEnabled(s, c)
BY DEF WillCall

(* A closed gate or an empty allow list: nothing is called for real,       *)
(* whatever else is set (safety.py:33-39).                                 *)
THEOREM GateClosesAll ==
  ASSUME NEW s,
         ~s.allow_real_external_calls \/ s.real_external_allowlist = {}
  PROVE  WillCall(s) = {} /\ ShouldMock(s, FALSE) /\ ~ProbesSub2API(s)
BY DEF WillCall, RealExternalEnabled, AllowedRealAdapters, ShouldMock,
       ProbesSub2API

(* The plan has four steps, of which the deploy is one.                    *)
LEMMA OnlyK8sPasses ==
  ASSUME NEW s, RealExternalEnabled(s, "k8s"),
         \A c \in {"newapi", "sub2api", "cloudflare"} :
           ~RealExternalEnabled(s, c)
  PROVE  PreflightPasses(s) /\ PlanPasses(s)
<1>1. PreflightPasses(s)
  BY DEF PreflightPasses, WillCall, Adapters
<1>2. DOMAIN PlanCalls(s) =
        {"deploy_newapi_runtime", "init_newapi_admin_and_token",
         "bind_sub2api_upstream_to_newapi_channel", "verify_domains"}
  BY DEF PlanCalls
<1>3. /\ PlanCalls(s)["deploy_newapi_runtime"]
      /\ ~PlanCalls(s)["init_newapi_admin_and_token"]
      /\ ~PlanCalls(s)["bind_sub2api_upstream_to_newapi_channel"]
      /\ ~PlanCalls(s)["verify_domains"]
  BY DEF PlanCalls
<1> QED
  BY <1>1, <1>2, <1>3 DEF PlanPasses

(* An environment file that passes the dry run's checks makes an API that  *)
(* has read it pass the preflight, probe nothing and apply for real: the   *)
(* file's checks and the gate agree                                        *)
(* (real_k8s_canary_server_dry_run.sh:88-95, safety.py:33-51).             *)
THEOREM EnvImpliesPreflight ==
  ASSUME NEW s, EnvPasses(s)
  PROVE  /\ PreflightPasses(s) /\ PlanPasses(s)
         /\ ~ShouldMock(s, FALSE) /\ ~ProbesSub2API(s)
<1>1. /\ \A c \in {"newapi", "sub2api", "cloudflare"} :
           ~RealExternalEnabled(s, c)
      /\ RealExternalEnabled(s, "k8s")
  BY DEF EnvPasses, RealExternalEnabled, AllowedRealAdapters, Adapters,
         Wanted, Equipped
<1> QED
  BY <1>1, OnlyK8sPasses DEF ShouldMock, ProbesSub2API

(* The real-flow preflight's canary verdict implies what the scripts       *)
(* assert of its answer and of the plan (realflow.py:49-55).               *)
THEOREM CanaryVerdictSuffices ==
  ASSUME NEW s, NEW h, ReadyForCanary(s, h)
  PROVE  PreflightPasses(s) /\ PlanPasses(s)
BY OnlyK8sPasses DEF ReadyForCanary

(* The other way it takes more: a preflight that passes leaves only checks *)
(* that are not about the gate to block.                                   *)
THEOREM PreflightLeavesNoGate ==
  ASSUME NEW s, NEW h, PreflightPasses(s)
  PROVE  Blocking(s, h) \cap
           {"global_real_gate", "k8s_allowlisted", "k8s_real_mode"} = {}
<1>1. /\ s.allow_real_external_calls
      /\ "k8s" \in AllowedRealAdapters(s)
      /\ RealExternalEnabled(s, "k8s")
  BY DEF PreflightPasses, WillCall, RealExternalEnabled
<1>2. /\ Required(s, h)["global_real_gate"]
      /\ Required(s, h)["k8s_allowlisted"]
      /\ Required(s, h)["k8s_real_mode"]
  BY <1>1 DEF Required
<1> QED
  BY <1>2 DEF Blocking

(* A validation under the settings of the rendering misses no kind, just   *)
(* if the mode is known or the namespace is created; an unknown mode       *)
(* renders a manifest that can never be applied                            *)
(* (k8s_renderer.py:92-95, :118).                                          *)
THEOREM RenderedIsDesired ==
  ASSUME NEW s \in Settings
  PROVE  DesiredKinds(s) \subseteq RenderedKinds(s) <=>
           \/ s.k8s_namespace_mode \in {"generated", "fixed"}
           \/ s.k8s_create_namespace
<1>1. /\ s.k8s_namespace_mode \in {"generated", "fixed", "other"}
      /\ s.k8s_create_namespace \in BOOLEAN
  BY DEF Settings, Modes
<1> QED
  BY <1>1, KindsAssumption DEF DesiredKinds, RenderedKinds, RendersNamespace

(* An adapter that is wanted and has its credentials, and still is not     *)
(* called for real, is warned of by name (safety.py:66-81).                *)
THEOREM WarnedOrOpen ==
  ASSUME NEW s, NEW c \in Adapters, Wanted(s, c), Equipped(s, c),
         c \notin WillCall(s)
  PROVE  <<c, "gate">> \in Warnings(s) \/ <<c, "allowlist">> \in Warnings(s)
<1>1. \/ ~s.allow_real_external_calls
      \/ s.allow_real_external_calls /\ c \notin AllowedRealAdapters(s)
  BY DEF WillCall, RealExternalEnabled
<1>2. CASE ~s.allow_real_external_calls
  BY <1>2 DEF Warnings
<1>3. CASE s.allow_real_external_calls /\ c \notin AllowedRealAdapters(s)
  BY <1>3 DEF Warnings
<1> QED
  BY <1>1, <1>2, <1>3

-----------------------------------------------------------------------------
(* The scripts.                                                            *)

LEMMA FourPrograms == Kinds = {"open", "dry_run", "step3", "cleanup"}
BY DEF Kinds, Program

LEMMA Lengths ==
  /\ Len(Program.open) = 5 /\ Len(Program.dry_run) = 4
  /\ Len(Program.step3) = 7 /\ Len(Program.cleanup) = 3
BY DEF Program

(* Where a script stands that is at a step.                                *)
Stands(sc, step) ==
  /\ step = "env" => sc.kind \in {"dry_run", "step3"} /\ sc.at = 1
  /\ step = "preflight" =>
       \/ sc.kind = "open" /\ sc.at = 1
       \/ sc.kind \in {"dry_run", "step3"} /\ sc.at = 2
  /\ step = "create" =>
       \/ sc.kind = "open" /\ sc.at = 2
       \/ sc.kind \in {"dry_run", "step3"} /\ sc.at = 3
  /\ step = "server_dry_run" =>
       sc.kind \in {"dry_run", "step3"} /\ sc.at = 4
  /\ step = "own_create" => sc.kind = "step3" /\ sc.at = 5
  /\ step = "plan" => \/ sc.kind = "open" /\ sc.at = 3
                      \/ sc.kind = "step3" /\ sc.at = 6
  /\ step = "deploy" => \/ sc.kind = "open" /\ sc.at = 4
                        \/ sc.kind = "step3" /\ sc.at = 7
  /\ step = "list" => sc.kind = "open" /\ sc.at = 5
  /\ step = "lookup" => sc.kind = "cleanup" /\ sc.at = 1
  /\ step = "delete" => sc.kind = "cleanup" /\ sc.at = 2
  /\ step = "verify" => sc.kind = "cleanup" /\ sc.at = 3

LEMMA StandsThere ==
  ASSUME NEW sc, sc.kind \in Kinds, sc.at \in 1 .. Len(Program[sc.kind])
  PROVE  Stands(sc, Program[sc.kind][sc.at])
<1>1. CASE sc.kind = "open"
  <2>1. sc.at \in 1 .. 5 /\ Program[sc.kind] = Program.open
    BY <1>1, Lengths
  <2>2. /\ Program.open[1] = "preflight" /\ Program.open[2] = "create"
        /\ Program.open[3] = "plan" /\ Program.open[4] = "deploy"
        /\ Program.open[5] = "list"
    BY DEF Program
  <2> QED
    BY <1>1, <2>1, <2>2 DEF Stands
<1>2. CASE sc.kind = "dry_run"
  <2>1. sc.at \in 1 .. 4 /\ Program[sc.kind] = Program.dry_run
    BY <1>2, Lengths
  <2>2. /\ Program.dry_run[1] = "env" /\ Program.dry_run[2] = "preflight"
        /\ Program.dry_run[3] = "create"
        /\ Program.dry_run[4] = "server_dry_run"
    BY DEF Program
  <2> QED
    BY <1>2, <2>1, <2>2 DEF Stands
<1>3. CASE sc.kind = "step3"
  <2>1. sc.at \in 1 .. 7 /\ Program[sc.kind] = Program.step3
    BY <1>3, Lengths
  <2>2. /\ Program.step3[1] = "env" /\ Program.step3[2] = "preflight"
        /\ Program.step3[3] = "create"
        /\ Program.step3[4] = "server_dry_run"
        /\ Program.step3[5] = "own_create" /\ Program.step3[6] = "plan"
        /\ Program.step3[7] = "deploy"
    BY DEF Program
  <2> QED
    BY <1>3, <2>1, <2>2 DEF Stands
<1>4. CASE sc.kind = "cleanup"
  <2>1. sc.at \in 1 .. 3 /\ Program[sc.kind] = Program.cleanup
    BY <1>4, Lengths
  <2>2. /\ Program.cleanup[1] = "lookup" /\ Program.cleanup[2] = "delete"
        /\ Program.cleanup[3] = "verify"
    BY DEF Program
  <2> QED
    BY <1>4, <2>1, <2>2 DEF Stands
<1> QED
  BY <1>1, <1>2, <1>3, <1>4, FourPrograms

-----------------------------------------------------------------------------
(* The inductive invariant.                                                *)

(* The steps that need a tenant, and those that follow the preflight.      *)
NeedsTenant(sc) ==
  \/ sc.kind = "open" /\ sc.at \in {3, 4}
  \/ sc.kind = "step3" /\ sc.at \in {6, 7}
  \/ sc.kind = "cleanup" /\ sc.at = 2

AfterPreflight(sc) ==
  \/ sc.kind = "open" /\ sc.at >= 2
  \/ sc.kind \in {"dry_run", "step3"} /\ sc.at >= 3

(* A script that runs has passed what its program says up to here.         *)
Underway(sc) ==
  sc.code = "running" =>
    /\ sc.at \in 1 .. Len(Program[sc.kind])
    /\ NeedsTenant(sc) => tenants[sc.slug] # None
    /\ AfterPreflight(sc) /\ ~sc.restarted => PreflightPasses(api)
    /\ sc.kind = "cleanup" /\ sc.at \in {1, 2} => sc.touched = {}

(* An open that has deployed, a cleanup that has deleted.                  *)
Deployed(sc) ==
  /\ sc.kind = "open" /\ ~sc.restarted
  /\ \/ sc.code = "ok"
     \/ sc.code = "running" /\ sc.at = 5

Deleted(sc) ==
  /\ sc.kind = "cleanup" /\ "k8s" \in sc.touched
  /\ \/ sc.code = "ok"
     \/ sc.code = "running" /\ sc.at = 3

Effects(sc) ==
  /\ Deployed(sc) => Of(sc.slug, Documents(sc.slug)) \subseteq objects
  /\ Deleted(sc) => objects \cap Of(sc.slug, WorkloadKinds) = {}
  /\ sc.kind = "cleanup" /\ sc.code = "ok" /\ sc.answered =>
       objects \cap Of(sc.slug, Selected) = {}

Sound(sc) ==
  /\ sc \in Script
  /\ Underway(sc)
  /\ ~sc.restarted => sc.touched \subseteq {"k8s"}
  /\ Effects(sc)

Base ==
  /\ env \in Settings /\ api \in Settings
  /\ tenants \in [Slugs -> Tenant \cup {None}]
  /\ objects \subseteq Slugs \X WorkloadKinds
  /\ namespaces \subseteq Slugs \cup {Shared}
  /\ scripts \in Nat /\ changes \in Nat

Housed ==
  \A o \in objects : tenants[o[1]] # None /\ Home(o[1]) \in namespaces

Inv == Base /\ Housed /\ (script # None => Sound(script))

-----------------------------------------------------------------------------
(* What the parts of a step do to a script.                                *)

LEMMA ScriptFields ==
  ASSUME NEW sc \in Script
  PROVE  /\ sc.kind \in Kinds /\ sc.at \in Nat \ {0} /\ sc.slug \in Slugs
         /\ sc.touched \subseteq Adapters
         /\ sc.code \in {"running", "ok", "failed"}
         /\ sc.restarted \in BOOLEAN
BY DEF Script

(* A script that has failed owes nothing.                                  *)
LEMMA FailedIsSound ==
  ASSUME NEW sc \in Script, sc.code = "failed",
         ~sc.restarted => sc.touched \subseteq {"k8s"}
  PROVE  Sound(sc)
BY DEF Sound, Underway, Effects, Deployed, Deleted

LEMMA RefusedFields ==
  ASSUME NEW sc \in Script
  PROVE  /\ Refused(sc) \in Script /\ Broken(sc) \in Script
         /\ Refused(sc).code = "failed" /\ Broken(sc).code = "failed"
         /\ Refused(sc).touched = sc.touched
         /\ Broken(sc).touched = sc.touched
         /\ Refused(sc).restarted = sc.restarted
         /\ Broken(sc).restarted = sc.restarted
BY DEF Script, Refused, Broken

LEMMA PassedFields ==
  ASSUME NEW sc \in Script, sc.code = "running",
         sc.at \in 1 .. Len(Program[sc.kind])
  PROVE  /\ Passed(sc) \in Script
         /\ Passed(sc).kind = sc.kind /\ Passed(sc).slug = sc.slug
         /\ Passed(sc).at = sc.at + 1
         /\ Passed(sc).touched = sc.touched
         /\ Passed(sc).restarted = sc.restarted
         /\ Passed(sc).answered = sc.answered
         /\ Passed(sc).code = IF sc.at = Len(Program[sc.kind]) THEN "ok"
                              ELSE "running"
         /\ Passed(sc).code = "running" =>
              Passed(sc).at \in 1 .. Len(Program[Passed(sc).kind])
<1>1. Len(Program[sc.kind]) \in Nat
  BY Lengths, FourPrograms, ScriptFields
<1>2. /\ Passed(sc).kind = sc.kind /\ Passed(sc).slug = sc.slug
      /\ Passed(sc).at = sc.at + 1
      /\ Passed(sc).touched = sc.touched
      /\ Passed(sc).restarted = sc.restarted
      /\ Passed(sc).answered = sc.answered
      /\ Passed(sc).code = IF sc.at = Len(Program[sc.kind]) THEN "ok"
                           ELSE "running"
  BY DEF Script, Passed
<1>3. sc.at + 1 \in Nat \ {0}
  BY ScriptFields
<1>4. Passed(sc) \in Script
  BY <1>3 DEF Script, Passed
<1>5. sc.at # Len(Program[sc.kind]) =>
        sc.at + 1 \in 1 .. Len(Program[sc.kind])
  BY <1>1
<1> QED
  BY <1>2, <1>4, <1>5

LEMMA TouchingFields ==
  ASSUME NEW sc \in Script, NEW c \in Adapters
  PROVE  /\ Touching(sc, c) \in Script
         /\ Touching(sc, c).kind = sc.kind /\ Touching(sc, c).at = sc.at
         /\ Touching(sc, c).slug = sc.slug /\ Touching(sc, c).code = sc.code
         /\ Touching(sc, c).restarted = sc.restarted
         /\ Touching(sc, c).answered = sc.answered
         /\ Touching(sc, c).touched = sc.touched \cup {c}
BY DEF Script, Touching

(* A step of the script, where the script stands, and its typed state.     *)
LEMMA AtFacts ==
  ASSUME Inv, NEW step, At(step)
  PROVE  /\ script # None /\ script \in Script /\ script.code = "running"
         /\ Sound(script)
         /\ script.at \in 1 .. Len(Program[script.kind])
         /\ Stands(script, step)
<1>1. /\ script # None /\ script.code = "running" /\ Sound(script)
      /\ script \in Script
      /\ script.at \in 1 .. Len(Program[script.kind])
      /\ step = Program[script.kind][script.at]
  BY DEF Inv, At, Running, Sound, Underway
<1> QED
  BY <1>1, ScriptFields, StandsThere

-----------------------------------------------------------------------------
(* Initially, and after every step, the invariant holds.                   *)

LEMMA InitInv == Init => Inv
BY ConfigsAssumption DEF Init, Inv, Base, Housed

(* A step that changes the script alone has the script to answer for.      *)
LEMMA ScriptMoves ==
  ASSUME Inv, UNCHANGED <<setup, tenants, cluster>>, scripts' \in Nat,
         script' # None => Sound(script')
  PROVE  Inv'
<1>1. /\ env' = env /\ api' = api /\ changes' = changes
      /\ tenants' = tenants /\ objects' = objects
      /\ namespaces' = namespaces
  BY DEF setup, cluster
<1>2. Base'
  BY <1>1 DEF Inv, Base
<1>3. Housed'
  BY <1>1 DEF Inv, Housed, Home
<1>4. script' # None => Sound(script)'
  BY <1>1 DEF Sound, Underway, Effects, Documents
<1> QED
  BY <1>2, <1>3, <1>4 DEF Inv

LEMMA BeginKeeps ==
  ASSUME Inv, NEW kind \in Kinds, NEW slug \in Slugs, NEW dry \in Slugs,
         NEW email \in Emails, Begin(kind, slug, dry, email)
  PROVE  Inv'
<1> DEFINE sc == Begun(kind, slug, dry, email)
<1>1. /\ sc \in Script /\ sc.kind = kind /\ sc.at = 1
      /\ sc.code = "running" /\ sc.touched = {}
  BY DEF Begun, Script
<1>2. 1 \in 1 .. Len(Program[kind])
  <2>1. \/ kind = "open" /\ Len(Program[kind]) = 5
        \/ kind = "dry_run" /\ Len(Program[kind]) = 4
        \/ kind = "step3" /\ Len(Program[kind]) = 7
        \/ kind = "cleanup" /\ Len(Program[kind]) = 3
    BY Lengths, FourPrograms
  <2>2. \A n \in {3, 4, 5, 7} : 1 \in 1 .. n
    OBVIOUS
  <2> QED
    BY <2>1, <2>2
<1>3. Underway(sc)
  BY <1>1, <1>2 DEF Underway, NeedsTenant, AfterPreflight
<1>4. Effects(sc)
  BY <1>1 DEF Effects, Deployed, Deleted
<1>5. Sound(sc)
  BY <1>1, <1>3, <1>4 DEF Sound
<1>6. script' = sc /\ UNCHANGED <<setup, tenants, cluster>>
  BY DEF Begin
<1>7. scripts' \in Nat
  BY DEF Begin, Inv, Base
<1> QED
  BY <1>5, <1>6, <1>7, ScriptMoves

LEMMA FaultKeeps ==
  ASSUME Inv, Fault
  PROVE  Inv'
<1>1. script \in Script /\ Sound(script)
  BY DEF Inv, Fault, Running, Sound
<1>2. Sound(Broken(script))
  BY <1>1, RefusedFields, FailedIsSound DEF Sound
<1>3. /\ script' = Broken(script) /\ UNCHANGED <<setup, tenants, cluster>>
      /\ scripts' \in Nat
  BY DEF Fault, Inv, Base
<1> QED
  BY <1>2, <1>3, ScriptMoves

(* A step that asks, and with it five of the steps.                        *)
LEMMA AskKeeps ==
  ASSUME Inv,
         NEW step \in {"env", "preflight", "server_dry_run", "plan", "list"},
         NEW passes \in BOOLEAN, Ask(step, passes),
         step = "preflight" /\ passes => PreflightPasses(api)
  PROVE  Inv'
<1> DEFINE sc == Passed(script)
<1>1. /\ script # None /\ script \in Script /\ script.code = "running"
      /\ Sound(script) /\ script.at \in 1 .. Len(Program[script.kind])
      /\ Stands(script, step)
  BY AtFacts DEF Ask
<1>2. Sound(Refused(script))
  BY <1>1, RefusedFields, FailedIsSound DEF Sound
<1>3. ASSUME passes PROVE Sound(sc)
  <2>1. /\ sc \in Script /\ sc.kind = script.kind /\ sc.slug = script.slug
        /\ sc.at = script.at + 1 /\ sc.touched = script.touched
        /\ sc.restarted = script.restarted
        /\ sc.code = IF script.at = Len(Program[script.kind]) THEN "ok"
                     ELSE "running"
        /\ sc.code = "running" => sc.at \in 1 .. Len(Program[sc.kind])
    BY <1>1, PassedFields
  <2>2. /\ script.kind # "cleanup"
        /\ script.kind = "open" => script.at # 4
    BY <1>1 DEF Stands
  <2>3. sc.code = "running" /\ NeedsTenant(sc) => tenants[sc.slug] # None
    BY <1>1, <2>1 DEF Sound, Underway, NeedsTenant, Stands
  <2>4. sc.code = "running" /\ AfterPreflight(sc) /\ ~sc.restarted
          => PreflightPasses(api)
    BY <1>1, <1>3, <2>1 DEF Sound, Underway, AfterPreflight, Stands
  <2>5. Underway(sc)
    BY <2>1, <2>2, <2>3, <2>4 DEF Underway
  <2>6. Deployed(sc) => Deployed(script)
    <3>1. SUFFICES ASSUME Deployed(sc) PROVE Deployed(script)
      OBVIOUS
    <3>2. script.kind = "open" /\ Len(Program[script.kind]) = 5
      BY <2>1, <3>1, Lengths DEF Deployed
    <3>3. script.at = 5
      <4>1. script.at \in 1 .. 5
        BY <1>1, <3>2
      <4>2. script.at # 5 => sc.code = "running" /\ script.at + 1 # 5
        BY <2>1, <2>2, <3>2, <4>1
      <4> QED
        BY <2>1, <3>1, <4>1, <4>2 DEF Deployed
    <3> QED
      BY <1>1, <2>1, <3>1, <3>2, <3>3 DEF Deployed
  <2>7. Effects(sc)
    BY <1>1, <2>1, <2>2, <2>6 DEF Effects, Deleted, Sound
  <2> QED
    BY <1>1, <2>1, <2>5, <2>7 DEF Sound
<1>4. /\ script' = (IF passes THEN sc ELSE Refused(script))
      /\ UNCHANGED <<setup, tenants, cluster>> /\ scripts' \in Nat
  BY DEF Ask, Inv, Base
<1> QED
  BY <1>2, <1>3, <1>4, ScriptMoves

LEMMA LookupKeeps ==
  ASSUME Inv, Lookup
  PROVE  Inv'
<1> DEFINE sc == Passed(script)
           skip == [script EXCEPT !.at = 3]
<1>1. /\ script # None /\ script \in Script /\ script.code = "running"
      /\ Sound(script) /\ script.at \in 1 .. Len(Program[script.kind])
      /\ script.kind = "cleanup" /\ script.at = 1 /\ script.touched = {}
  BY AtFacts DEF Lookup, Stands, Sound, Underway
<1>2. Len(Program[script.kind]) = 3
  BY <1>1, Lengths
<1>3. ASSUME tenants[script.slug] # None PROVE Sound(sc)
  <2>0. /\ sc \in Script /\ sc.kind = script.kind /\ sc.slug = script.slug
        /\ sc.at = script.at + 1 /\ sc.touched = script.touched
        /\ sc.code = IF script.at = Len(Program[script.kind]) THEN "ok"
                     ELSE "running"
        /\ sc.code = "running" => sc.at \in 1 .. Len(Program[sc.kind])
    BY <1>1, PassedFields
  <2>1. /\ sc \in Script /\ sc.kind = "cleanup" /\ sc.slug = script.slug
        /\ sc.at = 2 /\ sc.touched = {} /\ sc.code = "running"
        /\ sc.at \in 1 .. Len(Program[sc.kind])
    BY <1>1, <1>2, <2>0
  <2>2. Underway(sc)
    BY <1>3, <2>1 DEF Underway, AfterPreflight
  <2>3. Effects(sc)
    BY <2>1 DEF Effects, Deployed, Deleted
  <2> QED
    BY <2>1, <2>2, <2>3 DEF Sound
<1>4. Sound(skip)
  <2>1. /\ skip \in Script /\ skip.kind = "cleanup" /\ skip.at = 3
        /\ skip.touched = {} /\ skip.code = "running"
    BY <1>1 DEF Script
  <2>2. skip.at \in 1 .. Len(Program[skip.kind])
    <3>1. Len(Program[skip.kind]) = 3
      BY <2>1, Lengths
    <3>2. 3 \in 1 .. 3
      OBVIOUS
    <3> QED
      BY <2>1, <3>1, <3>2
  <2>3. Underway(skip)
    BY <2>1, <2>2 DEF Underway, AfterPreflight, NeedsTenant
  <2>4. Effects(skip)
    BY <2>1 DEF Effects, Deployed, Deleted
  <2> QED
    BY <2>1, <2>3, <2>4 DEF Sound
<1>5. /\ script' = (IF tenants[script.slug] # None THEN sc ELSE skip)
      /\ UNCHANGED <<setup, tenants, cluster>> /\ scripts' \in Nat
  BY DEF Lookup, Inv, Base
<1> QED
  BY <1>3, <1>4, <1>5, ScriptMoves

LEMMA VerifyKeeps ==
  ASSUME Inv, Verify
  PROVE  Inv'
<1> DEFINE sc == Passed(script)
           unsure == [sc EXCEPT !.answered = FALSE]
<1>1. /\ script # None /\ script \in Script /\ script.code = "running"
      /\ Sound(script) /\ script.at \in 1 .. Len(Program[script.kind])
      /\ script.kind = "cleanup" /\ script.at = 3
  BY AtFacts DEF Verify, Stands
<1>2. Len(Program[script.kind]) = 3
  BY <1>1, Lengths
<1>3. /\ sc \in Script /\ sc.kind = "cleanup" /\ sc.slug = script.slug
      /\ sc.touched = script.touched /\ sc.restarted = script.restarted
      /\ sc.code = "ok"
  BY <1>1, <1>2, PassedFields
<1>4. /\ unsure \in Script /\ unsure.kind = "cleanup"
      /\ unsure.slug = script.slug /\ unsure.touched = script.touched
      /\ unsure.restarted = script.restarted /\ unsure.code = "ok"
      /\ ~unsure.answered
  BY <1>3 DEF Script
<1>5. "k8s" \in script.touched =>
        objects \cap Of(script.slug, WorkloadKinds) = {}
  BY <1>1 DEF Sound, Effects, Deleted
<1>6. Sound(Refused(script))
  BY <1>1, RefusedFields, FailedIsSound DEF Sound
<1>7. ASSUME objects \cap Of(script.slug, Selected) = {} PROVE Sound(sc)
  BY <1>1, <1>3, <1>5, <1>7
     DEF Sound, Underway, Effects, Deployed, Deleted
<1>8. Sound(unsure)
  BY <1>1, <1>4, <1>5 DEF Sound, Underway, Effects, Deployed, Deleted
<1>9. /\ \/ script' = IF objects \cap Of(script.slug, Selected) = {}
                     THEN sc ELSE Refused(script)
         \/ script' = unsure
      /\ UNCHANGED <<setup, tenants, cluster>> /\ scripts' \in Nat
  BY DEF Verify, Inv, Base
<1> QED
  BY <1>6, <1>7, <1>8, <1>9, ScriptMoves

LEMMA EditKeeps ==
  ASSUME Inv, NEW config \in Configs, Edit(config)
  PROVE  Inv'
<1>1. /\ env' \in Settings /\ changes' \in Nat /\ api' = api
      /\ tenants' = tenants /\ objects' = objects
      /\ namespaces' = namespaces /\ script' = script /\ scripts' = scripts
  BY ConfigsAssumption DEF Edit, Inv, Base, cluster
<1>2. Base'
  BY <1>1 DEF Inv, Base
<1>3. Housed'
  BY <1>1 DEF Inv, Housed, Home
<1>4. script' # None => Sound(script)'
  BY <1>1 DEF Inv, Sound, Underway, Effects, Documents
<1> QED
  BY <1>2, <1>3, <1>4 DEF Inv

(* A restarted API owes a script nothing, and a script at rest nothing.    *)
LEMMA RestartKeeps ==
  ASSUME Inv, Restart
  PROVE  Inv'
<1>1. /\ api' = env /\ env' = env /\ changes' \in Nat
      /\ tenants' = tenants /\ objects' = objects
      /\ namespaces' = namespaces /\ scripts' = scripts
  BY DEF Restart, Inv, Base, cluster
<1>2. Base'
  BY <1>1 DEF Inv, Base
<1>3. Housed'
  BY <1>1 DEF Inv, Housed, Home
<1>4. CASE Running
  <2> DEFINE sc == [script EXCEPT !.restarted = TRUE]
  <2>1. /\ script \in Script /\ Sound(script) /\ script.code = "running"
    BY <1>4 DEF Inv, Running, Sound
  <2>2. /\ sc \in Script /\ sc.kind = script.kind /\ sc.at = script.at
        /\ sc.slug = script.slug /\ sc.touched = script.touched
        /\ sc.code = "running" /\ sc.restarted
    BY <2>1 DEF Script
  <2>3. script' = sc
    BY <1>4 DEF Restart
  <2>4. Underway(script)'
    BY <1>1, <2>1, <2>2, <2>3 DEF Sound, Underway, NeedsTenant
  <2>5. Effects(script)'
    BY <1>1, <2>1, <2>2, <2>3 DEF Sound, Effects, Deployed, Deleted
  <2>6. Sound(script)'
    BY <2>2, <2>3, <2>4, <2>5 DEF Sound
  <2> QED
    BY <1>2, <1>3, <2>6 DEF Inv
<1>5. CASE ~Running
  <2>1. script' = script
    BY <1>5 DEF Restart
  <2>2. script' # None => Sound(script)'
    BY <1>1, <1>5, <2>1
       DEF Inv, Running, Sound, Underway, Effects, Documents
  <2> QED
    BY <1>2, <1>3, <2>2 DEF Inv
<1> QED
  BY <1>4, <1>5

(* POST /tenants: the dry run's and open's, and Step 3's own.              *)
LEMMA CreateKeeps ==
  ASSUME Inv, NEW step \in {"create", "own_create"}, NEW slug \in Slugs,
         CreateTenant(step, slug),
         script.kind = "open" \/ step = "own_create" => slug = script.slug
  PROVE  Inv'
<1> DEFINE sc == IF ProbesSub2API(api) THEN Touching(script, "sub2api")
                 ELSE script
           tenant == [email |-> script.email, by |-> api]
<1>1. /\ script # None /\ script \in Script /\ script.code = "running"
      /\ Sound(script) /\ script.at \in 1 .. Len(Program[script.kind])
      /\ Stands(script, step)
  BY AtFacts DEF CreateTenant
<1>2. /\ env' = env /\ api' = api /\ changes' = changes
      /\ objects' = objects /\ namespaces' = namespaces /\ scripts' = scripts
  BY DEF CreateTenant, setup, cluster
<1>3. /\ sc \in Script /\ sc.kind = script.kind /\ sc.at = script.at
      /\ sc.slug = script.slug /\ sc.code = "running"
      /\ sc.restarted = script.restarted
      /\ sc.touched = script.touched \/ ProbesSub2API(api)
  BY <1>1, TouchingFields DEF Adapters
<1>4. ~script.restarted => ~ProbesSub2API(api)
  BY <1>1 DEF Stands, Sound, Underway, AfterPreflight, PreflightPasses,
              WillCall, Adapters, ProbesSub2API
<1>5. ~sc.restarted => sc.touched \subseteq {"k8s"}
  BY <1>1, <1>3, <1>4 DEF Sound
<1>6. /\ Sound(Refused(script)) /\ Sound(Refused(sc)) /\ Sound(Broken(sc))
  BY <1>1, <1>3, <1>5, RefusedFields, FailedIsSound DEF Sound
<1>7. CASE /\ UNCHANGED tenants
           /\ script' \in {Refused(script), Refused(sc)}
  <2>1. UNCHANGED <<setup, tenants, cluster>> /\ scripts' \in Nat
    BY <1>2, <1>7 DEF setup, cluster, Inv, Base
  <2>2. Sound(script')
    BY <1>6, <1>7
  <2> QED
    BY <2>1, <2>2, ScriptMoves
<1>8. CASE /\ tenants[slug] = None
           /\ tenants' = [tenants EXCEPT ![slug] = tenant]
           /\ script' \in {Passed(sc), Broken(sc)}
  <2>1. tenant \in Tenant
    BY <1>1 DEF Tenant, Script, Inv, Base
  <2>2. /\ tenant # None
        /\ tenants'[slug] = tenant
        /\ \A t \in Slugs : t # slug => tenants'[t] = tenants[t]
    BY <1>8, <2>1, NullAssumption DEF Inv, Base
  <2>3. Base'
    BY <1>2, <1>8, <2>1 DEF Inv, Base
  <2>4. Housed'
    <3>1. SUFFICES ASSUME NEW o \in objects
                   PROVE  tenants'[o[1]] # None /\ Home(o[1])' \in namespaces
      BY <1>2 DEF Housed
    <3>2. o[1] \in Slugs /\ tenants[o[1]] # None /\ Home(o[1]) \in namespaces
      BY DEF Inv, Base, Housed
    <3>3. o[1] # slug
      BY <1>8, <3>2
    <3> QED
      BY <2>2, <3>2, <3>3 DEF Home
  <2>5. ASSUME script' = Broken(sc) PROVE Sound(script)'
    <3>1. /\ script' \in Script /\ script'.code = "failed"
          /\ ~script'.restarted => script'.touched \subseteq {"k8s"}
      BY <1>3, <1>5, <2>5, RefusedFields
    <3> QED
      BY <3>1 DEF Sound, Underway, Effects, Deployed, Deleted
  <2>6. ASSUME script' = Passed(sc) PROVE Sound(script)'
    <3> DEFINE pd == Passed(sc)
    <3>1. /\ pd \in Script /\ pd.kind = script.kind /\ pd.slug = script.slug
          /\ pd.at = script.at + 1 /\ pd.touched = sc.touched
          /\ pd.restarted = script.restarted
          /\ pd.code = "running" => pd.at \in 1 .. Len(Program[pd.kind])
      BY <1>1, <1>3, PassedFields
    <3>2. /\ pd.kind # "cleanup" /\ ~(pd.kind = "open" /\ pd.at = 5)
          /\ ~(pd.kind = "open" /\ pd.code = "ok")
      <4>1. CASE script.kind = "open"
        <5>1. script.at = 2 /\ Len(Program[sc.kind]) = 5 /\ sc.at = 2
          BY <1>1, <1>3, <4>1, Lengths DEF Stands
        <5>2. pd.code = IF sc.at = Len(Program[sc.kind]) THEN "ok"
                        ELSE "running"
          BY <1>1, <1>3, PassedFields
        <5>3. sc.at # Len(Program[sc.kind])
          BY <5>1
        <5> QED
          BY <3>1, <4>1, <5>1, <5>2, <5>3
      <4>2. CASE script.kind # "open"
        BY <1>1, <3>1, <4>2 DEF Stands
      <4> QED
        BY <4>1, <4>2
    <3>3. NeedsTenant(pd) => tenants'[pd.slug] # None
      BY <1>1, <2>2, <3>1 DEF Stands, NeedsTenant
    <3>4. AfterPreflight(pd) /\ ~pd.restarted => PreflightPasses(api)
      BY <1>1, <3>1 DEF Stands, Sound, Underway, AfterPreflight
    <3>5. Underway(script)'
      BY <1>2, <2>6, <3>1, <3>2, <3>3, <3>4
         DEF Underway, NeedsTenant, AfterPreflight
    <3>6. Effects(script)'
      BY <2>6, <3>1, <3>2 DEF Effects, Deployed, Deleted
    <3> QED
      BY <1>3, <1>5, <2>6, <3>1, <3>5, <3>6 DEF Sound
  <2> QED
    BY <1>8, <2>3, <2>4, <2>5, <2>6 DEF Inv
<1> QED
  BY <1>7, <1>8 DEF CreateTenant

-----------------------------------------------------------------------------
(* kubectl apply and kubectl delete.                                       *)

LEMMA HomeIsThere ==
  ASSUME Inv, NEW slug \in Slugs
  PROVE  Home(slug) \in Slugs \cup {Shared}
BY DEF Home, NamespaceFor

LEMMA DocumentKinds ==
  ASSUME NEW slug
  PROVE  /\ WorkloadKinds \subseteq Documents(slug)
         /\ Documents(slug) \ {"Namespace"} = WorkloadKinds
BY KindsAssumption DEF Documents, RenderedKinds

LEMMA ApplyKeeps ==
  ASSUME Inv, NEW slug \in Slugs, tenants[slug] # None,
         NEW kinds \in SUBSET Documents(slug), Apply(slug, kinds),
         UNCHANGED <<setup, tenants, scripts>>
  PROVE  Base' /\ Housed' /\ Of(slug, kinds) \subseteq objects'
<1>1. /\ env' = env /\ api' = api /\ changes' = changes
      /\ tenants' = tenants /\ scripts' = scripts
  BY DEF setup
<1>2. kinds \ {"Namespace"} \subseteq WorkloadKinds
  BY DocumentKinds
<1>3. Of(slug, kinds) \subseteq Slugs \X WorkloadKinds
  BY <1>2 DEF Of
<1>4. namespaces \subseteq namespaces' /\ namespaces' \subseteq Slugs \cup {Shared}
  BY HomeIsThere DEF Apply, Inv, Base
<1>5. Base'
  BY <1>1, <1>3, <1>4 DEF Inv, Base, Apply
<1>6. Housed'
  <2>1. SUFFICES ASSUME NEW o \in objects'
                 PROVE  tenants[o[1]] # None /\ Home(o[1]) \in namespaces'
    BY <1>1 DEF Housed, Home
  <2>2. CASE o \in objects
    BY <1>4, <2>2 DEF Inv, Housed
  <2>3. CASE o \in Of(slug, kinds)
    BY <2>3 DEF Of, Apply
  <2> QED
    BY <2>1, <2>2, <2>3 DEF Apply
<1> QED
  BY <1>5, <1>6 DEF Apply

LEMMA DeleteKeeps ==
  ASSUME Inv, NEW slug \in Slugs, tenants[slug] # None,
         NEW kinds \in SUBSET Documents(slug), Delete(slug, kinds),
         UNCHANGED <<setup, tenants, scripts>>
  PROVE  Base' /\ Housed' /\ objects' \cap Of(slug, kinds) = {}
<1>1. /\ env' = env /\ api' = api /\ changes' = changes
      /\ tenants' = tenants /\ scripts' = scripts
  BY DEF setup
<1>2. Base' /\ objects' \subseteq objects /\ objects' \cap Of(slug, kinds) = {}
  BY <1>1 DEF Inv, Base, Delete
<1>3. Housed'
  <2>1. SUFFICES ASSUME NEW o \in objects'
                 PROVE  tenants[o[1]] # None /\ Home(o[1]) \in namespaces'
    BY <1>1 DEF Housed, Home
  <2>2. tenants[o[1]] # None /\ Home(o[1]) \in namespaces
    BY <1>2 DEF Inv, Housed
  <2>3. CASE "Namespace" \in kinds
    BY <1>2, <2>2, <2>3 DEF Delete, Within
  <2>4. CASE "Namespace" \notin kinds
    BY <2>2, <2>4 DEF Delete
  <2> QED
    BY <2>3, <2>4
<1> QED
  BY <1>2, <1>3

LEMMA ClusterStill ==
  ASSUME Inv, UNCHANGED <<setup, tenants, cluster, scripts>>
  PROVE  Base' /\ Housed'
BY DEF Inv, Base, Housed, Home, setup, cluster

LEMMA FailedAfter ==
  ASSUME script' \in Script, script'.code = "failed",
         ~script'.restarted => script'.touched \subseteq {"k8s"}
  PROVE  Sound(script)'
BY DEF Sound, Underway, Effects, Deployed, Deleted

(* After a vetted preflight the deploy is real, and then all of it is in   *)
(* the cluster; after a restart nothing is promised.                       *)
LEMMA DeployInv ==
  ASSUME Inv, Deploy
  PROVE  Inv'
<1> DEFINE slug == script.slug
           sc == Touching(script, "k8s")
<1>1. /\ script # None /\ script \in Script /\ script.code = "running"
      /\ Sound(script) /\ script.at \in 1 .. Len(Program[script.kind])
      /\ Stands(script, "deploy")
      /\ UNCHANGED <<setup, tenants, scripts>> /\ api' = api
      /\ tenants' = tenants
  BY AtFacts DEF Deploy, setup
<1>2. /\ script.kind \in {"open", "step3"} /\ NeedsTenant(script)
      /\ AfterPreflight(script) /\ slug \in Slugs
      /\ script.kind = "open" => script.at = 4
      /\ script.kind = "step3" => script.at = 7
  BY <1>1, ScriptFields DEF Stands, NeedsTenant, AfterPreflight
<1>3. /\ tenants[slug] # None
      /\ ~script.restarted => PreflightPasses(api)
      /\ ~script.restarted => ~ShouldMock(api, FALSE)
  BY <1>1, <1>2 DEF Sound, Underway, PreflightPasses, WillCall, ShouldMock
<1>4. /\ sc \in Script /\ sc.kind = script.kind /\ sc.at = script.at
      /\ sc.slug = slug /\ sc.code = "running"
      /\ sc.restarted = script.restarted
      /\ sc.touched = script.touched \cup {"k8s"}
  BY <1>1, TouchingFields DEF Adapters
<1>5. /\ ~script.restarted => script.touched \subseteq {"k8s"}
      /\ ~sc.restarted => sc.touched \subseteq {"k8s"}
  BY <1>1, <1>4 DEF Sound
<1>6. \/ UNCHANGED cluster /\ script' = Refused(script)
      \/ /\ UNCHANGED cluster /\ ShouldMock(api, FALSE)
         /\ script' = Passed(script)
      \/ \E kinds \in SUBSET Documents(slug) :
           /\ Apply(slug, kinds)
           /\ \/ script' = Broken(sc)
              \/ script' = Passed(sc) /\ kinds = Documents(slug)
  BY DEF Deploy
<1>7. Base' /\ Housed'
  <2>1. ASSUME NEW kinds \in SUBSET Documents(slug), Apply(slug, kinds)
        PROVE  Base' /\ Housed'
    BY <1>1, <1>2, <1>3, <2>1, ApplyKeeps
  <2> QED
    BY <1>1, <1>6, <2>1, ClusterStill DEF setup, cluster
<1>8. CASE script' \in {Refused(script), Broken(sc)}
  BY <1>1, <1>4, <1>5, <1>7, <1>8, RefusedFields, FailedAfter DEF Inv
<1>9. ASSUME NEW sd \in {script, sc}, script' = Passed(sd),
             ~sd.restarted => Of(slug, Documents(slug)) \subseteq objects'
      PROVE  Inv'
  <2>1. /\ sd \in Script /\ sd.kind = script.kind /\ sd.at = script.at
        /\ sd.slug = slug /\ sd.code = "running"
        /\ sd.restarted = script.restarted
        /\ ~sd.restarted => sd.touched \subseteq {"k8s"}
    BY <1>1, <1>4, <1>5, <1>9
  <2>2. /\ script' \in Script /\ script'.kind = script.kind
        /\ script'.slug = slug /\ script'.at = script.at + 1
        /\ script'.restarted = script.restarted
        /\ ~script'.restarted => script'.touched \subseteq {"k8s"}
        /\ script'.code = "running" =>
             script'.at \in 1 .. Len(Program[script'.kind])
    BY <1>1, <1>9, <2>1, PassedFields
  <2>3. Underway(script)'
    <3>1. ~NeedsTenant(script)' /\ script'.kind # "cleanup"
      BY <1>1, <1>2, <2>2 DEF NeedsTenant
    <3> QED
      BY <1>1, <1>3, <2>2, <3>1 DEF Underway
  <2>4. Effects(script)'
    <3>1. /\ script'.kind # "cleanup"
          /\ Documents(slug)' = Documents(slug)
      BY <1>1, <1>2, <2>2 DEF Documents
    <3>2. Documents(script.slug)' = Documents(slug)
      BY <1>1, <2>2 DEF Documents
    <3> QED
      BY <1>9, <2>1, <2>2, <3>1, <3>2 DEF Effects, Deployed, Deleted
  <2> QED
    BY <1>7, <2>2, <2>3, <2>4 DEF Inv, Sound
<1>10. CASE UNCHANGED cluster /\ ShouldMock(api, FALSE)
              /\ script' = Passed(script)
  BY <1>3, <1>9, <1>10
<1>11. CASE Apply(slug, Documents(slug)) /\ script' = Passed(sc)
  <2>1. Of(slug, Documents(slug)) \subseteq objects'
    BY <1>11 DEF Apply
  <2> QED
    BY <1>9, <1>11, <2>1
<1> QED
  BY <1>6, <1>8, <1>10, <1>11

(* A real delete that succeeds leaves nothing; a mocked one touches        *)
(* nothing, and then the verification has to find what is left.            *)
LEMMA DeleteInv ==
  ASSUME Inv, DeleteRuntime
  PROVE  Inv'
<1> DEFINE slug == script.slug
           sc == Touching(script, "k8s")
<1>1. /\ script # None /\ script \in Script /\ script.code = "running"
      /\ Sound(script) /\ script.at \in 1 .. Len(Program[script.kind])
      /\ Stands(script, "delete")
      /\ UNCHANGED <<setup, tenants, scripts>> /\ api' = api
      /\ tenants' = tenants
  BY AtFacts DEF DeleteRuntime, setup
<1>2. /\ script.kind = "cleanup" /\ script.at = 2 /\ slug \in Slugs
      /\ tenants[slug] # None /\ script.touched = {}
      /\ Len(Program[script.kind]) = 3
  BY <1>1, ScriptFields, Lengths
     DEF Stands, Sound, Underway, NeedsTenant
<1>3. /\ sc \in Script /\ sc.kind = script.kind /\ sc.at = script.at
      /\ sc.slug = slug /\ sc.code = "running"
      /\ sc.restarted = script.restarted /\ sc.touched = {"k8s"}
  BY <1>1, <1>2, TouchingFields DEF Adapters
<1>4. \/ UNCHANGED cluster /\ script' = Passed(script)
      \/ \E kinds \in SUBSET Documents(slug) :
           /\ Delete(slug, kinds)
           /\ \/ script' = Broken(sc)
              \/ script' = Passed(sc) /\ kinds = Documents(slug)
  BY DEF DeleteRuntime
<1>5. Base' /\ Housed'
  <2>1. ASSUME NEW kinds \in SUBSET Documents(slug), Delete(slug, kinds)
        PROVE  Base' /\ Housed'
    BY <1>1, <1>2, <2>1, DeleteKeeps
  <2> QED
    BY <1>1, <1>4, <2>1, ClusterStill DEF setup, cluster
<1>6. CASE script' = Broken(sc)
  BY <1>1, <1>3, <1>5, <1>6, RefusedFields, FailedAfter DEF Inv
<1>7. ASSUME NEW sd \in {script, sc}, script' = Passed(sd),
             sd = sc => objects' \cap Of(slug, WorkloadKinds) = {}
      PROVE  Inv'
  <2>1. /\ sd \in Script /\ sd.kind = "cleanup" /\ sd.at = 2
        /\ sd.slug = slug /\ sd.code = "running"
        /\ sd.at \in 1 .. Len(Program[sd.kind])
        /\ sd.touched \subseteq {"k8s"}
        /\ "k8s" \in sd.touched => sd = sc
    BY <1>1, <1>2, <1>3, <1>7
  <2>2. /\ script' \in Script /\ script'.kind = "cleanup"
        /\ script'.slug = slug /\ script'.at = sd.at + 1
        /\ script'.touched = sd.touched
        /\ script'.code = IF sd.at = Len(Program[sd.kind]) THEN "ok"
                          ELSE "running"
        /\ script'.code = "running" =>
             script'.at \in 1 .. Len(Program[script'.kind])
    BY <1>7, <2>1, PassedFields
  <2>3. script'.at = 3 /\ script'.code = "running"
    <3>1. Len(Program[sd.kind]) = 3
      BY <2>1, Lengths
    <3>2. sd.at # Len(Program[sd.kind])
      BY <2>1, <3>1
    <3> QED
      BY <2>1, <2>2, <3>2
  <2>4. Underway(script)'
    BY <2>2, <2>3 DEF Underway, NeedsTenant, AfterPreflight
  <2>5. Effects(script)'
    BY <1>7, <2>1, <2>2, <2>3 DEF Effects, Deployed, Deleted
  <2> QED
    BY <1>5, <2>1, <2>2, <2>4, <2>5 DEF Inv, Sound
<1>8. CASE UNCHANGED cluster /\ script' = Passed(script)
  <2>1. script # sc
    BY <1>2, <1>3
  <2> QED
    BY <1>7, <1>8, <2>1
<1>9. CASE Delete(slug, Documents(slug)) /\ script' = Passed(sc)
  <2>1. objects' \cap Of(slug, Documents(slug)) = {}
    BY <1>1, <1>2, <1>9, DeleteKeeps
  <2>2. Of(slug, WorkloadKinds) = Of(slug, Documents(slug))
    BY DocumentKinds, KindsAssumption DEF Of
  <2> QED
    BY <1>7, <1>9, <2>1, <2>2
<1> QED
  BY <1>4, <1>6, <1>8, <1>9

-----------------------------------------------------------------------------
(* The theorems.                                                           *)

LEMMA StepKeeps ==
  ASSUME Inv, Step
  PROVE  Inv'
<1>1. CASE CheckEnv
  <2>1. PICK passes \in BOOLEAN : Ask("env", passes)
    BY <1>1 DEF CheckEnv, Ask
  <2> QED
    BY <2>1, AskKeeps
<1>2. CASE Preflight
  <2>1. PreflightPasses(api) \in BOOLEAN
    BY DEF PreflightPasses
  <2> QED
    BY <1>2, <2>1, AskKeeps DEF Preflight
<1>3. CASE Create
  <2> DEFINE slug == IF script.kind = "step3" THEN script.dry ELSE script.slug
  <2>1. CreateTenant("create", slug)
    BY <1>3 DEF Create
  <2>2. script \in Script
    BY <2>1, AtFacts DEF CreateTenant
  <2>3. slug \in Slugs
    BY <2>2 DEF Script
  <2> QED
    BY <2>1, <2>3, CreateKeeps
<1>4. CASE OwnCreate
  <2>1. script \in Script
    BY <1>4, AtFacts DEF OwnCreate, CreateTenant
  <2>2. script.slug \in Slugs
    BY <2>1 DEF Script
  <2> QED
    BY <1>4, <2>2, CreateKeeps DEF OwnCreate
<1>5. CASE ServerDryRun
  BY <1>5, AskKeeps DEF ServerDryRun
<1>6. CASE Plan
  <2>1. PlanPasses(api) \in BOOLEAN
    BY DEF PlanPasses
  <2> QED
    BY <1>6, <2>1, AskKeeps DEF Plan
<1>7. CASE List
  BY <1>7, AskKeeps DEF List
<1> QED
  BY <1>1, <1>2, <1>3, <1>4, <1>5, <1>6, <1>7, DeployInv, LookupKeeps,
     DeleteInv, VerifyKeeps DEF Step

LEMMA NextKeeps ==
  ASSUME Inv, [Next]_vars
  PROVE  Inv'
<1>1. CASE UNCHANGED vars
  <2>1. UNCHANGED <<setup, tenants, cluster, scripts, script>>
    BY <1>1 DEF vars
  <2>2. Base' /\ Housed'
    BY <2>1, ClusterStill
  <2>3. script' # None => Sound(script)'
    BY <2>1 DEF Inv, Sound, Underway, Effects, Documents, setup, cluster
  <2> QED
    BY <2>2, <2>3 DEF Inv
<1> QED
  BY <1>1, StepKeeps, BeginKeeps, FaultKeeps, EditKeeps, RestartKeeps DEF Next

THEOREM Inductive == Spec => []Inv
BY InitInv, NextKeeps, PTL DEF Spec

(* Types, tenants where a step needs one, and no object without its        *)
(* namespace (RealCanary's TypeOK).                                        *)
THEOREM TypeCorrect == Spec => []TypeOK
<1>1. Inv => TypeOK
  <2>1. SUFFICES ASSUME Inv PROVE TypeOK
    OBVIOUS
  <2>2. ASSUME NEW step \in {"plan", "deploy", "delete"}, At(step)
        PROVE  tenants[script.slug] # None
    <3>1. Sound(script) /\ script.code = "running" /\ Stands(script, step)
      BY <2>1, <2>2, AtFacts
    <3>2. NeedsTenant(script)
      BY <3>1, <2>2 DEF Stands, NeedsTenant
    <3> QED
      BY <3>1, <3>2 DEF Sound, Underway
  <2>3. script = None \/ script \in Script
    BY <2>1 DEF Inv, Sound
  <2> QED
    BY <2>1, <2>2, <2>3 DEF Inv, Base, Housed, TypeOK
<1> QED
  BY <1>1, Inductive, PTL

(* The canary's promise, for every environment file, every API and every   *)
(* order of runs: only Kubernetes is touched (real_k8s_canary_open.sh:55). *)
THEOREM OnlyKubernetes == Spec => []OnlyK8sTouched
<1>1. Inv => OnlyK8sTouched
  BY DEF Inv, Sound, OnlyK8sTouched
<1> QED
  BY <1>1, Inductive, PTL

(* "open completed" means that all objects of the manifest were created.   *)
THEOREM CompletedIsTrue == Spec => []CompletedMeansCreated
<1>1. Inv => CompletedMeansCreated
  BY DEF Inv, Sound, Effects, Deployed, CompletedMeansCreated
<1> QED
  BY <1>1, Inductive, PTL

(* "cleanup completed" is honest, up to a kubectl that did not answer.     *)
THEOREM CleanupIsTrue == Spec => []CleanupHonest
<1>1. Inv => CleanupHonest
  BY DEF Inv, Sound, Effects, Deleted, CleanupHonest
<1> QED
  BY <1>1, Inductive, PTL

(* Nothing but a delete takes an object away.                              *)
LEMMA OnlyDeletesRemove ==
  ASSUME [Next]_vars
  PROVE  objects \subseteq objects' \/ DeleteRuntime
<1>1. CASE UNCHANGED vars
  BY <1>1 DEF vars, cluster
<1>2. CASE Step
  BY <1>2 DEF Step, CheckEnv, Preflight, Create, OwnCreate, CreateTenant,
              ServerDryRun, Plan, List, Ask, Deploy, Apply, Lookup, Verify,
              cluster
<1> QED
  BY <1>1, <1>2 DEF Next, Begin, Fault, Edit, Restart, cluster

(* A cleanup leaves the objects of other canaries alone, for any number of *)
(* canaries, unless its manifest brought the shared namespace with it.     *)
THEOREM OthersAreSafe == Spec => OthersSurvive
<1> DEFINE A == \A o \in objects \ objects' :
                  LET by == tenants[script.slug].by
                  IN \/ o[1] = script.slug
                     \/ by.k8s_namespace_mode = "fixed" /\ by.k8s_create_namespace
<1>1. Inv /\ [Next]_vars => [A]_vars
  <2>1. SUFFICES ASSUME Inv, [Next]_vars, NEW o \in objects \ objects'
                 PROVE  LET by == tenants[script.slug].by
                        IN \/ o[1] = script.slug
                           \/ /\ by.k8s_namespace_mode = "fixed"
                              /\ by.k8s_create_namespace
    OBVIOUS
  <2> DEFINE slug == script.slug
             by == tenants[slug].by
  <2>2. DeleteRuntime
    BY <2>1, OnlyDeletesRemove
  <2>3. PICK kinds \in SUBSET Documents(slug) : Delete(slug, kinds)
    BY <2>1, <2>2 DEF DeleteRuntime, cluster
  <2>4. \/ o \in Of(slug, kinds)
        \/ "Namespace" \in kinds /\ o \in Within(Home(slug))
    BY <2>1, <2>3 DEF Delete
  <2>5. CASE o \in Of(slug, kinds)
    BY <2>5 DEF Of
  <2>6. CASE "Namespace" \in kinds /\ o \in Within(Home(slug))
    <3>1. Home(o[1]) = Home(slug) /\ o[1] \in Slugs
      BY <2>1, <2>6 DEF Within, Inv, Base
    <3>2. slug \in Slugs
      BY <2>1, <2>2, AtFacts, ScriptFields DEF DeleteRuntime
    <3>3. by.k8s_namespace_mode = "generated" \/ by.k8s_create_namespace
      BY <2>6, KindsAssumption DEF Documents, RenderedKinds, RendersNamespace
    <3>4. CASE by.k8s_namespace_mode = "fixed"
      BY <3>3, <3>4
    <3>5. CASE by.k8s_namespace_mode # "fixed"
      <4>1. Home(slug) = slug
        BY <3>5 DEF Home, NamespaceFor
      <4>2. Home(o[1]) \in {o[1], Shared}
        BY DEF Home, NamespaceFor
      <4> QED
        BY <3>1, <3>2, <4>1, <4>2, SharedAssumption
    <3> QED
      BY <3>4, <3>5
  <2> QED
    BY <2>4, <2>5, <2>6
<1> QED
  BY <1>1, Inductive, PTL DEF Spec, OthersSurvive

=============================================================================
