-------------------------- MODULE MCTenantCreation --------------------------
(* Small instances of TenantCreation for TLC.                              *)
EXTENDS TenantCreation, TLC

(* Two names that are normalized to one slug, one of its own, and one of   *)
(* which nothing is left.                                                  *)
MCSlugOf == [n \in {"acme", "Acme!", "beta", "!!"} |->
               IF n \in {"acme", "Acme!"} THEN "acme"
               ELSE IF n = "beta" THEN "beta" ELSE None]

MCHostOf == [s \in {"acme", "beta"} |-> <<s, "base">>]
MCHosts  == {<<"acme", "base">>, <<"beta", "base">>, <<"shop", "own">>}

Body(n, e, d) == [name |-> n, email |-> e, deploy |-> d]

MCBodies ==
  { Body("acme", "e1", TRUE), Body("Acme!", "e2", TRUE),
    Body("beta", "e2", FALSE), Body("!!", "e2", TRUE) }

(* Everybody sends everything.                                             *)
SendsAll == [c \in Clients |-> Bodies]
AddsAll  == [c \in Clients |-> Hosts]

AddsNone == [c \in Clients |-> {}]

=============================================================================
