---------------------------- MODULE RateLimiter ----------------------------
(***************************************************************************)
(* POST /api/v1/runtime/{slug}/check-rpm (app/api/runtime.py) and the      *)
(* fixed-window counter behind it (app/services/rate_limit.py), for one    *)
(* tenant, beside PATCH .../quota.                                         *)
(*                                                                         *)
(* A handler runs on a thread: it reads the quota, then the clock, then    *)
(* makes two calls of Redis.  Time, other threads, a lost connection and   *)
(* the end of the process come between any two of these steps.             *)
(***************************************************************************)
EXTENDS Naturals

CONSTANTS
  Clients,      \* threads that serve check-rpm
  Limits,       \* the values of quota.rpm
  Window,       \* window_seconds, in ticks of the clock
  Slack,        \* how much longer than its window a key lives
  BucketBound,  \* bound: the last window
  AskBound,     \* bound: requests
  FaultBound    \* bound: lost connections and crashes

ASSUME LimitsAssumption == Limits \subseteq Nat \ {0}
ASSUME WindowAssumption == Window \in Nat \ {0} /\ Slack \in Nat
ASSUME BoundAssumption  == {BucketBound, AskBound, FaultBound} \subseteq Nat

VARIABLES
  bucket,    \* the current window
  offset,    \* ticks since it began
  key,       \* Redis: the counter of each window and its remaining lifetime
  limit,     \* quota.rpm
  run,       \* per client, where its request stands and what it has read
  admitted,  \* history: requests admitted on each window's counter
  top,       \* history: the largest limit compared with each counter
  expired,   \* history: windows whose key Redis has dropped
  orphans,   \* history: windows whose key was left before EXPIRE
  asks,      \* history: requests so far
  faults     \* history: lost connections and crashes so far

counter == <<key, admitted, top, orphans>>
time    == <<bucket, offset, expired>>
vars    == <<time, counter, limit, run, asks, faults>>

Buckets == 0 .. BucketBound

-----------------------------------------------------------------------------
(* A key without a lifetime (ttl = 0) never goes.                          *)
Keys  == [count : Nat, ttl : Nat]
NoKey == [count |-> 0, ttl |-> 0]

IdleRun == [pc |-> "idle", limit |-> 0, bucket |-> 0]

Init ==
  /\ bucket = 0 /\ offset = 0
  /\ key = [b \in Buckets |-> NoKey]
  /\ limit \in Limits
  /\ run = [c \in Clients |-> IdleRun]
  /\ admitted = [b \in Buckets |-> 0]
  /\ top = [b \in Buckets |-> 0]
  /\ expired = {} /\ orphans = {}
  /\ asks = 0 /\ faults = 0

(* The request of c ends with its step.                                    *)
End(c) == run' = [run EXCEPT ![c] = IdleRun]

(* INCR: Redis creates the key if it is not there.                         *)
Count(b) == key[b].count + 1

(* Mutants: the first count is missed; every call sets a lifetime.         *)
SecondCount(n) == n = 2
AnyCount(n)    == n > 0

FirstCount(n) == n = 1

(* Mutant: an off-by-one of the comparison.                                *)
AdmitsOneMore(n, max) == n <= max + 1

Admits(n, max) == n <= max

(* Mutant: the lifetime starts with the window, not with the call.         *)
ShortLifetime == Slack + 1

Lifetime == Window + Slack

-----------------------------------------------------------------------------
(* check_rpm loads the tenant and its quota.                               *)
Ask(c) ==
  /\ run[c].pc = "idle"
  /\ asks < AskBound
  /\ asks' = asks + 1
  /\ run' = [run EXCEPT ![c] = [IdleRun EXCEPT !.pc = "clock", !.limit = limit]]
  /\ UNCHANGED <<time, counter, limit, faults>>

(* now_bucket = int(time.time() // window_seconds)                         *)
ReadClock(c) ==
  /\ run[c].pc = "clock"
  /\ run' = [run EXCEPT ![c].pc = "incr", ![c].bucket = bucket]
  /\ UNCHANGED <<time, counter, limit, asks, faults>>

(* INCR decides; the first count goes on to EXPIRE.                        *)
Incr(c) ==
  LET b == run[c].bucket
      n == Count(b)
  IN /\ run[c].pc = "incr"
     /\ key' = [key EXCEPT ![b].count = n]
     /\ admitted' = [admitted EXCEPT
                       ![b] = IF Admits(n, run[c].limit) THEN @ + 1 ELSE @]
     /\ top' = [top EXCEPT
                  ![b] = IF run[c].limit > @ THEN run[c].limit ELSE @]
     /\ IF FirstCount(n) THEN run' = [run EXCEPT ![c].pc = "expire"]
        ELSE End(c)
     /\ UNCHANGED <<time, limit, orphans, asks, faults>>

(* EXPIRE; nothing happens to a key that is gone.                          *)
Expire(c) ==
  LET b == run[c].bucket
  IN /\ run[c].pc = "expire"
     /\ key' = [key EXCEPT ![b].ttl = IF key[b].count > 0 THEN Lifetime ELSE 0]
     /\ End(c)
     /\ UNCHANGED <<time, admitted, top, orphans, limit, asks, faults>>

(* The windows whose key is left without EXPIRE when these clients stop.   *)
Left(stopped) ==
  {run[c].bucket : c \in {d \in stopped : run[d].pc = "expire"}}

(* The connection to Redis is lost before a call, or after INCR was done   *)
(* and before its reply: the handler raises.                               *)
Disconnect(c) ==
  LET b == run[c].bucket
  IN /\ faults < FaultBound
     /\ faults' = faults + 1
     /\ run[c].pc \in {"incr", "expire"}
     /\ End(c)
     /\ \/ UNCHANGED key /\ orphans' = orphans \cup Left({c})
        \/ /\ run[c].pc = "incr"
           /\ key' = [key EXCEPT ![b].count = Count(b)]
           /\ orphans' = IF FirstCount(Count(b)) THEN orphans \cup {b}
                         ELSE orphans
     /\ UNCHANGED <<time, admitted, top, limit, asks>>

(* The process dies; Redis stays.                                          *)
Crash ==
  /\ faults < FaultBound
  /\ faults' = faults + 1
  /\ orphans' = orphans \cup Left(Clients)
  /\ run' = [c \in Clients |-> IdleRun]
  /\ UNCHANGED <<time, key, admitted, top, limit, asks>>

(* PATCH .../quota commits a new rpm.                                      *)
UpdateQuota(rpm) ==
  /\ rpm # limit
  /\ limit' = rpm
  /\ UNCHANGED <<time, counter, run, asks, faults>>

Aged(k) ==
  IF k.ttl = 1 THEN NoKey ELSE IF k.ttl > 1 THEN [k EXCEPT !.ttl = @ - 1] ELSE k

(* A tick of the clock: the window may end, and Redis drops dead keys.     *)
Tick ==
  /\ \/ offset + 1 < Window /\ offset' = offset + 1 /\ UNCHANGED bucket
     \/ /\ offset + 1 = Window /\ bucket < BucketBound
        /\ offset' = 0 /\ bucket' = bucket + 1
  /\ key' = [b \in Buckets |-> Aged(key[b])]
  /\ expired' = expired \cup {b \in Buckets : key[b].ttl = 1}
  /\ UNCHANGED <<admitted, top, orphans, limit, run, asks, faults>>

Next ==
  \/ \E c \in Clients :
       Ask(c) \/ ReadClock(c) \/ Incr(c) \/ Expire(c) \/ Disconnect(c)
  \/ Crash
  \/ \E rpm \in Limits : UpdateQuota(rpm)
  \/ Tick

Spec == Init /\ [][Next]_vars

-----------------------------------------------------------------------------
(* Properties.                                                             *)

Request == [pc : {"idle", "clock", "incr", "expire"},
            limit : Limits \cup {0}, bucket : Buckets]

(* Types; a request goes on with a quota it has read and a window that has *)
(* begun, and no two of them set the lifetime of one counter               *)
(* (rate_limit.py:10-17).                                                  *)
TypeOK ==
  /\ bucket \in Buckets /\ offset \in 0 .. Window - 1
  /\ key \in [Buckets -> Keys]
  /\ limit \in Limits
  /\ run \in [Clients -> Request]
  /\ admitted \in [Buckets -> Nat] /\ top \in [Buckets -> Nat]
  /\ expired \subseteq Buckets /\ orphans \subseteq Buckets
  /\ asks \in Nat /\ faults \in Nat
  /\ \A c \in Clients : run[c].pc # "idle" => run[c].limit \in Limits
  /\ \A c \in Clients : run[c].bucket <= bucket
  /\ \A c, d \in Clients :
       /\ run[c].pc = "expire" /\ run[d].pc = "expire"
       /\ run[c].bucket = run[d].bucket
       /\ run[c].bucket \notin expired
       => c = d

(* Whatever threads race, connections break and quotas change, a counter   *)
(* that has not been dropped has admitted no more requests than the        *)
(* largest quota they read (rate_limit.py:13-17).                          *)
AdmittedWithinLimit ==
  \A b \in Buckets \ expired : admitted[b] <= top[b]

(* Redis never drops a counter while its window lasts, at whatever moment  *)
(* of the window EXPIRE was called (rate_limit.py:15).                     *)
KeyOutlivesWindow == \A b \in expired : b < bucket

(* A key without a lifetime has a thread that is about to set one, or was  *)
(* left behind by a crash or a lost connection: nothing else makes a       *)
(* counter immortal (rate_limit.py:13-15).                                 *)
ImmortalOnlyByFault ==
  \A b \in Buckets :
    key[b].count > 0 /\ key[b].ttl = 0 =>
      b \in orphans \/ \E c \in Clients : run[c].pc = "expire" /\ run[c].bucket = b

=============================================================================
