-------------------------- MODULE MCProvisionJobs --------------------------
(* Small instances of ProvisionJobs for TLC.                               *)
EXTENDS ProvisionJobs, TLC

Body(phase, dry) == [fail |-> phase, dry |-> dry]

(* A job with a key that runs at once, and one without a key that waits    *)
(* for a tick and whose first attempt fails in the bind phase.             *)
TwoRequests ==
  { [key |-> "k1", max |-> 2, inline |-> TRUE,
     req |-> Body("none", FALSE)],
    [key |-> None, max |-> 1, inline |-> FALSE,
     req |-> Body("bind", FALSE)] }

(* A job for every phase that can be made to fail, dry runs among them.    *)
PhaseRequests ==
  { [key |-> "k1", max |-> 1, inline |-> TRUE,
     req |-> Body(p, p = "init")] : p \in Phases \cup {"none"} }
  \cup { [key |-> "k2", max |-> 2, inline |-> FALSE,
          req |-> Body("none", TRUE)] }

(* Run again at once, and requeue for a tick with the same failure.        *)
TwoRetries ==
  { [max |-> None, inline |-> TRUE, clear |-> TRUE, fail |-> "none"],
    [max |-> None, inline |-> FALSE, clear |-> FALSE, fail |-> "none"] }

(* A requeue that sets max_attempts to the attempts already made.          *)
LoweringRetries ==
  { [max |-> 1, inline |-> FALSE, clear |-> TRUE, fail |-> "none"] }

RaceRetries == TwoRetries \cup LoweringRetries

MCSymmetry == Permutations(Runners) \cup Permutations(Cancellers)

=============================================================================
