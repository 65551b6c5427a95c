--------------------------- MODULE TenantRegistry ---------------------------
(***************************************************************************)
(* What creating tenants and adding domains promises, with no sessions,    *)
(* awaits or files: a tenant is registered in one step, under a slug and   *)
(* an email that no other tenant has and with its subdomain; a host is     *)
(* given to a registered tenant only while nobody has it, and for good.    *)
(***************************************************************************)
CONSTANTS
  None,       \* nobody
  Hosts,
  Accounts,   \* what can be registered
  Name,       \* the slug, the email and the subdomain of each account
  Mail,
  Home

VARIABLES
  accounts,   \* the registered accounts
  owner       \* the account that has each host, or None

registryVars == <<accounts, owner>>

Open ==
  /\ accounts = {}
  /\ owner = [h \in Hosts |-> None]

Register(a) ==
  /\ \A b \in accounts : Name[b] # Name[a] /\ Mail[b] # Mail[a]
  /\ owner[Home[a]] = None
  /\ accounts' = accounts \cup {a}
  /\ owner' = [owner EXCEPT ![Home[a]] = a]

Assign(a, h) ==
  /\ owner[h] = None
  /\ owner' = [owner EXCEPT ![h] = a]
  /\ UNCHANGED accounts

Step ==
  \/ \E a \in Accounts : Register(a)
  \/ \E a \in accounts, h \in Hosts : Assign(a, h)

RegistrySpec == Open /\ [][Step]_registryVars

=============================================================================
