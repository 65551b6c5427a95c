------------------------- MODULE RateLimiterProofs -------------------------
(***************************************************************************)
(* Type correctness and the three safety properties of RateLimiter, for    *)
(* any threads, quotas, lengths of a window and bounds.                    *)
(*                                                                         *)
(* The properties are inductive with Living: a counter's lifetime covers   *)
(* what is left of its window, windows to come have no counter, and a      *)
(* counter that was never dropped has counted all it has admitted.         *)
(***************************************************************************)
EXTENDS RateLimiter, TLAPS

(* What is left of a window is covered by the lifetime of its counter.     *)
Covered == key[bucket].ttl > 0 => key[bucket].ttl >= Window - offset

(* No counter of a later window exists.                                    *)
Future == \A b \in Buckets : b > bucket => key[b] = NoKey

(* What a counter has admitted it has counted, and a thread on its way to  *)
(* EXPIRE has counted too.                                                 *)
Counted ==
  /\ \A b \in Buckets \ expired : admitted[b] <= key[b].count
  /\ \A c \in Clients :
       run[c].pc = "expire" /\ run[c].bucket \notin expired =>
         key[run[c].bucket].count > 0

Living == Covered /\ Future /\ Counted

Inv ==
  /\ TypeOK /\ Living
  /\ AdmittedWithinLimit /\ KeyOutlivesWindow /\ ImmortalOnlyByFault

-----------------------------------------------------------------------------
(* The empty Redis satisfies the invariant.                                *)
LEMMA InitInv == Init => Inv
<1> SUFFICES ASSUME Init PROVE Inv
  OBVIOUS
<1> USE LimitsAssumption, WindowAssumption, BoundAssumption
    DEF Init, Buckets, NoKey, IdleRun
<1>1. TypeOK
  BY DEF TypeOK, Keys, Request
<1>2. Living
  BY DEF Living, Covered, Future, Counted
<1>3. AdmittedWithinLimit /\ KeyOutlivesWindow /\ ImmortalOnlyByFault
  BY DEF AdmittedWithinLimit, KeyOutlivesWindow, ImmortalOnlyByFault
<1> QED
  BY <1>1, <1>2, <1>3 DEF Inv

LEMMA Numbers ==
  ASSUME TypeOK
  PROVE  /\ Buckets \subseteq Nat
         /\ bucket \in Buckets /\ bucket \in Nat
         /\ offset \in Nat /\ offset < Window /\ Window \in Nat
BY WindowAssumption, BoundAssumption DEF TypeOK, Buckets

(* A request that has read its quota and a window that has begun.          *)
Ready(a) ==
  /\ a \in Request /\ a.bucket <= bucket
  /\ a.pc # "idle" => a.limit \in Limits

LEMMA IdleIsReady == ASSUME TypeOK PROVE Ready(IdleRun)
BY Numbers, BoundAssumption DEF Ready, IdleRun, Request, Buckets

LEMMA RequestMoved ==
  ASSUME TypeOK, NEW c \in Clients, NEW a, Ready(a),
         run' = [run EXCEPT ![c] = a]
  PROVE  /\ run' \in [Clients -> Request]
         /\ run'[c] = a
         /\ \A d \in Clients : d # c => run'[d] = run[d]
         /\ \A d \in Clients : Ready(run'[d])
BY DEF TypeOK, Ready

(* Requests that only read, and PATCH of the quota.                        *)
LEMMA ReadingKeepsInv ==
  ASSUME Inv, NEW c \in Clients, Ask(c) \/ ReadClock(c)
  PROVE  Inv'
<1> USE Numbers DEF Inv, TypeOK, IdleRun, time, counter
<1>1. /\ run' \in [Clients -> Request]
      /\ \A d \in Clients : Ready(run'[d])
      /\ \A d \in Clients : run'[d].pc = "expire" => run'[d] = run[d]
      /\ \A d \in Clients : run[d].pc = "expire" => run'[d] = run[d]
  <2>1. PICK a : /\ Ready(a) /\ a.pc # "expire"
                 /\ run' = [run EXCEPT ![c] = a]
    <3>1. CASE Ask(c)
      <4> DEFINE a == [IdleRun EXCEPT !.pc = "clock", !.limit = limit]
      <4>1. Ready(a) /\ a.pc # "expire"
        BY IdleIsReady DEF Ready, Request
      <4> QED
        BY <3>1, <4>1 DEF Ask
    <3>2. CASE ReadClock(c)
      <4> DEFINE a == [run[c] EXCEPT !.pc = "incr", !.bucket = bucket]
      <4>1. /\ run[c] \in Request /\ run[c].limit \in Limits
            /\ bucket \in Buckets /\ bucket <= bucket
        BY <3>2 DEF ReadClock
      <4>2. Ready(a) /\ a.pc # "expire"
        BY <4>1 DEF Ready, Request
      <4>3. run' = [run EXCEPT ![c] = a]
        BY <3>2 DEF ReadClock
      <4> QED
        BY <4>2, <4>3
    <3> QED
      BY <3>1, <3>2
  <2>2. run[c].pc # "expire"
    BY DEF Ask, ReadClock
  <2> QED
    BY <2>1, <2>2, RequestMoved
<1>2. /\ UNCHANGED <<bucket, offset, key, limit, admitted, top, expired>>
      /\ UNCHANGED <<orphans, faults>> /\ asks' \in Nat
  BY DEF Ask, ReadClock
<1>3. TypeOK'
  BY <1>1, <1>2 DEF Ready
<1>4. Living'
  BY <1>1, <1>2 DEF Living, Covered, Future, Counted
<1>5. AdmittedWithinLimit' /\ KeyOutlivesWindow'
  BY <1>2 DEF AdmittedWithinLimit, KeyOutlivesWindow
<1>6. ImmortalOnlyByFault'
  BY <1>1, <1>2 DEF ImmortalOnlyByFault
<1> QED
  BY <1>3, <1>4, <1>5, <1>6

LEMMA QuotaKeepsInv ==
  ASSUME Inv, NEW rpm \in Limits, UpdateQuota(rpm)
  PROVE  Inv'
BY DEF UpdateQuota, Inv, TypeOK, Living, Covered, Future, Counted, time,
       counter, AdmittedWithinLimit, KeyOutlivesWindow, ImmortalOnlyByFault

-----------------------------------------------------------------------------
LEMMA IncrKeepsInv ==
  ASSUME Inv, NEW c \in Clients, Incr(c)
  PROVE  Inv'
<1> DEFINE b == run[c].bucket
           n == Count(b)
<1> USE Numbers DEF Inv, TypeOK, Keys, time
<1>1. /\ b \in Buckets /\ b <= bucket /\ n = key[b].count + 1 /\ n \in Nat
      /\ run[c].pc = "incr" /\ run[c].limit \in Limits
      /\ bucket \in Nat /\ offset \in Nat
  BY DEF Incr, Count, Request
<1>2. /\ key' = [key EXCEPT ![b].count = n]
      /\ admitted' = [admitted EXCEPT
                        ![b] = IF Admits(n, run[c].limit) THEN @ + 1 ELSE @]
      /\ top' = [top EXCEPT
                   ![b] = IF run[c].limit > @ THEN run[c].limit ELSE @]
      /\ UNCHANGED <<bucket, offset, expired, limit, orphans, asks, faults>>
  BY DEF Incr
<1>3. \/ n = 1 /\ run' = [run EXCEPT ![c].pc = "expire"]
      \/ n # 1 /\ run' = [run EXCEPT ![c] = IdleRun]
  BY DEF Incr, FirstCount, End
<1> HIDE DEF b, n
<1>4. /\ run' \in [Clients -> Request]
      /\ \A d \in Clients : Ready(run'[d])
      /\ \A d \in Clients :
           run'[d].pc = "expire" =>
             \/ d # c /\ run'[d] = run[d]
             \/ d = c /\ run'[d].bucket = b /\ n = 1
      /\ \A d \in Clients : d # c => run'[d] = run[d]
      /\ n = 1 => run'[c].pc = "expire" /\ run'[c].bucket = b
  <2>1. CASE n = 1
    <3> DEFINE a == [run[c] EXCEPT !.pc = "expire"]
    <3>1. run[c] \in Request
      OBVIOUS
    <3>2. Ready(a) /\ a.bucket = b /\ a.pc = "expire"
      BY <1>1, <3>1 DEF Ready, Request, b
    <3>3. run' = [run EXCEPT ![c] = a]
      BY <1>3, <2>1
    <3> HIDE DEF a
    <3> QED
      BY <2>1, <3>2, <3>3, RequestMoved
  <2>2. CASE n # 1
    BY <1>3, <2>2, IdleIsReady, RequestMoved DEF IdleRun
  <2> QED
    BY <2>1, <2>2
<1>5. TypeOK'
  <2>1. key' \in [Buckets -> Keys]
    BY <1>1, <1>2
  <2>2. run[c].limit \in Nat
    BY <1>1, LimitsAssumption
  <2>3. admitted' \in [Buckets -> Nat] /\ top' \in [Buckets -> Nat]
    BY <1>1, <1>2, <2>2
  <2>4. \A d, e \in Clients :
          /\ run'[d].pc = "expire" /\ run'[e].pc = "expire"
          /\ run'[d].bucket = run'[e].bucket
          /\ run'[d].bucket \notin expired
          => d = e
    BY <1>1, <1>4 DEF Living, Counted
  <2> QED
    BY <1>2, <1>4, <2>1, <2>3, <2>4 DEF Ready
<1>6. Living'
  <2>1. Covered' /\ Future'
    BY <1>1, <1>2 DEF Living, Covered, Future, NoKey
  <2>2. \A e \in Buckets \ expired : admitted'[e] <= key'[e].count
    BY <1>1, <1>2 DEF Living, Counted, Admits
  <2>3. \A d \in Clients :
          run'[d].pc = "expire" /\ run'[d].bucket \notin expired =>
            key'[run'[d].bucket].count > 0
    BY <1>1, <1>2, <1>4 DEF Living, Counted
  <2> QED
    BY <1>2, <2>1, <2>2, <2>3 DEF Living, Counted
<1>7. AdmittedWithinLimit'
  <2>1. run[c].limit \in Nat
    BY <1>1, LimitsAssumption
  <2> QED
    BY <1>1, <1>2, <2>1 DEF AdmittedWithinLimit, Living, Counted, Admits
<1>8. KeyOutlivesWindow'
  BY <1>2 DEF KeyOutlivesWindow
<1>9. ImmortalOnlyByFault'
  <2> SUFFICES ASSUME NEW e \in Buckets, key'[e].count > 0, key'[e].ttl = 0
               PROVE  \/ e \in orphans
                      \/ \E d \in Clients :
                           run'[d].pc = "expire" /\ run'[d].bucket = e
    BY <1>2 DEF ImmortalOnlyByFault
  <2>1. CASE e = b /\ n = 1
    BY <1>4, <2>1
  <2>2. CASE ~(e = b /\ n = 1)
    <3>1. key[e].count > 0 /\ key[e].ttl = 0
      BY <1>1, <1>2, <2>2
    <3>2. \/ e \in orphans
          \/ \E d \in Clients : run[d].pc = "expire" /\ run[d].bucket = e
      BY <3>1 DEF ImmortalOnlyByFault
    <3> QED
      BY <1>1, <1>4, <3>2
  <2> QED
    BY <2>1, <2>2
<1> QED
  BY <1>5, <1>6, <1>7, <1>8, <1>9

(* A request that ends leaves the others alone.                            *)
LEMMA Ended ==
  ASSUME TypeOK, NEW c \in Clients, End(c)
  PROVE  /\ run' \in [Clients -> Request]
         /\ \A d \in Clients : Ready(run'[d])
         /\ \A d \in Clients : run'[d].pc = "expire" => run'[d] = run[d]
         /\ \A d \in Clients : d # c => run'[d] = run[d]
BY IdleIsReady, RequestMoved DEF End, IdleRun

LEMMA ExpireKeepsInv ==
  ASSUME Inv, NEW c \in Clients, Expire(c)
  PROVE  Inv'
<1> DEFINE b == run[c].bucket
<1> USE Numbers DEF Inv, TypeOK, Keys, time
<1>1. /\ b \in Buckets /\ key[b].count \in Nat
      /\ Lifetime \in Nat /\ Lifetime >= Window /\ Lifetime > 0
  BY WindowAssumption DEF Request, Lifetime
<1>2. /\ run[c].pc = "expire"
      /\ key' = [key EXCEPT
                   ![b].ttl = IF key[b].count > 0 THEN Lifetime ELSE 0]
      /\ UNCHANGED <<bucket, offset, expired, admitted, top, orphans>>
      /\ UNCHANGED <<limit, asks, faults>>
  BY DEF Expire
<1>3. /\ run' \in [Clients -> Request]
      /\ \A d \in Clients : Ready(run'[d])
      /\ \A d \in Clients : run'[d].pc = "expire" => run'[d] = run[d]
      /\ \A d \in Clients : d # c => run'[d] = run[d]
  BY Ended DEF Expire
<1> HIDE DEF b
<1>4. /\ key' \in [Buckets -> Keys]
      /\ \A e \in Buckets : key'[e].count = key[e].count
      /\ \A e \in Buckets : e # b => key'[e] = key[e]
      /\ key'[b].ttl = IF key[b].count > 0 THEN Lifetime ELSE 0
  BY <1>1, <1>2
<1>5. TypeOK'
  BY <1>2, <1>3, <1>4 DEF Ready
<1>6. Living'
  <2>1. Covered'
    BY <1>1, <1>2, <1>4 DEF Living, Covered
  <2>2. b <= bucket
    BY DEF b
  <2>3. Future'
    BY <1>1, <1>2, <1>4, <2>2 DEF Living, Future
  <2>4. Counted'
    <3>1. \A e \in Buckets \ expired : admitted'[e] <= key'[e].count
      BY <1>2, <1>4 DEF Living, Counted
    <3>2. \A d \in Clients :
            run'[d].pc = "expire" /\ run'[d].bucket \notin expired =>
              key'[run'[d].bucket].count > 0
      BY <1>3, <1>4 DEF Living, Counted, Ready, Request
    <3> QED
      BY <1>2, <3>1, <3>2 DEF Counted
  <2> QED
    BY <2>1, <2>3, <2>4 DEF Living
<1>7. AdmittedWithinLimit' /\ KeyOutlivesWindow'
  BY <1>2 DEF AdmittedWithinLimit, KeyOutlivesWindow
<1>8. ImmortalOnlyByFault'
  <2> SUFFICES ASSUME NEW e \in Buckets, key'[e].count > 0, key'[e].ttl = 0
               PROVE  \/ e \in orphans
                      \/ \E d \in Clients :
                           run'[d].pc = "expire" /\ run'[d].bucket = e
    BY <1>2 DEF ImmortalOnlyByFault
  <2>1. e # b
    BY <1>1, <1>4
  <2>2. \/ e \in orphans
        \/ \E d \in Clients : run[d].pc = "expire" /\ run[d].bucket = e
    BY <1>4, <2>1 DEF ImmortalOnlyByFault
  <2> QED
    BY <1>3, <2>1, <2>2 DEF b
<1> QED
  BY <1>5, <1>6, <1>7, <1>8

-----------------------------------------------------------------------------
LEMMA DisconnectKeepsInv ==
  ASSUME Inv, NEW c \in Clients, Disconnect(c)
  PROVE  Inv'
<1> DEFINE b == run[c].bucket
<1> USE Numbers DEF Inv, TypeOK, Keys, time
<1>1. /\ b \in Buckets /\ b <= bucket /\ key[b].count \in Nat
      /\ Count(b) = key[b].count + 1
  BY DEF Request, Count
<1>2. /\ UNCHANGED <<bucket, offset, expired, admitted, top, limit, asks>>
      /\ faults' \in Nat
  BY DEF Disconnect
<1>3. /\ run' \in [Clients -> Request]
      /\ \A d \in Clients : Ready(run'[d])
      /\ \A d \in Clients : run'[d].pc = "expire" => run'[d] = run[d]
      /\ \A d \in Clients : d # c => run'[d] = run[d]
  BY Ended DEF Disconnect
<1>4. \/ /\ UNCHANGED key
         /\ orphans' = IF run[c].pc = "expire" THEN orphans \cup {b}
                       ELSE orphans
      \/ /\ run[c].pc = "incr"
         /\ key' = [key EXCEPT ![b].count = Count(b)]
         /\ orphans' = IF Count(b) = 1 THEN orphans \cup {b} ELSE orphans
  BY DEF Disconnect, Left, FirstCount
<1> HIDE DEF b
<1>5. /\ key' \in [Buckets -> Keys]
      /\ \A e \in Buckets : /\ key'[e].count >= key[e].count
                            /\ key'[e].ttl = key[e].ttl
                            /\ e # b => key'[e] = key[e]
      /\ orphans \subseteq orphans' /\ orphans' \subseteq Buckets
  BY <1>1, <1>4
<1>6. TypeOK'
  BY <1>2, <1>3, <1>5 DEF Ready
<1>7. Living'
  <2>1. Covered'
    BY <1>2, <1>5 DEF Living, Covered
  <2>2. Future'
    BY <1>1, <1>2, <1>5 DEF Living, Future
  <2>3. \A e \in Buckets \ expired : admitted'[e] <= key'[e].count
    BY <1>2, <1>5 DEF Living, Counted
  <2>4. \A d \in Clients :
          run'[d].pc = "expire" /\ run'[d].bucket \notin expired =>
            key'[run'[d].bucket].count > 0
    BY <1>3, <1>5 DEF Living, Counted, Ready, Request
  <2> QED
    BY <1>2, <2>1, <2>2, <2>3, <2>4 DEF Living, Counted
<1>8. AdmittedWithinLimit' /\ KeyOutlivesWindow'
  BY <1>2 DEF AdmittedWithinLimit, KeyOutlivesWindow
<1>9. ImmortalOnlyByFault'
  <2> SUFFICES ASSUME NEW e \in Buckets, key'[e].count > 0, key'[e].ttl = 0,
                      e \notin orphans'
               PROVE  \E d \in Clients :
                        run'[d].pc = "expire" /\ run'[d].bucket = e
    BY DEF ImmortalOnlyByFault
  <2>1. key[e].count > 0 /\ key[e].ttl = 0
    BY <1>1, <1>4, <1>5
  <2>2. PICK d \in Clients : run[d].pc = "expire" /\ run[d].bucket = e
    BY <1>5, <2>1 DEF ImmortalOnlyByFault
  <2>3. d # c
    BY <1>4, <2>2 DEF b
  <2> QED
    BY <1>3, <2>2, <2>3
<1> QED
  BY <1>6, <1>7, <1>8, <1>9

LEMMA CrashKeepsInv ==
  ASSUME Inv, Crash
  PROVE  Inv'
<1> USE Numbers DEF Inv, TypeOK, time
<1>1. /\ UNCHANGED <<bucket, offset, expired, key, admitted, top>>
      /\ UNCHANGED <<limit, asks>> /\ faults' \in Nat
      /\ run' = [c \in Clients |-> IdleRun]
      /\ orphans' = orphans \cup Left(Clients)
  BY DEF Crash
<1>2. /\ run' \in [Clients -> Request]
      /\ \A c \in Clients : run'[c] = IdleRun /\ Ready(run'[c])
      /\ \A c \in Clients : run'[c].pc # "expire"
  BY <1>1, IdleIsReady DEF Ready, IdleRun
<1>3. /\ Left(Clients) \subseteq Buckets
      /\ \A c \in Clients :
           run[c].pc = "expire" => run[c].bucket \in Left(Clients)
  BY DEF Left, Request
<1>4. TypeOK'
  BY <1>1, <1>2, <1>3 DEF Ready
<1>5. Living'
  BY <1>1, <1>2 DEF Living, Covered, Future, Counted
<1>6. AdmittedWithinLimit' /\ KeyOutlivesWindow'
  BY <1>1 DEF AdmittedWithinLimit, KeyOutlivesWindow
<1>7. ImmortalOnlyByFault'
  BY <1>1, <1>3 DEF ImmortalOnlyByFault
<1> QED
  BY <1>4, <1>5, <1>6, <1>7

-----------------------------------------------------------------------------
(* The clock: only here do counters go.                                    *)
LEMMA AgedKey ==
  ASSUME NEW k \in Keys
  PROVE  /\ Aged(k) \in Keys
         /\ \/ k.ttl = 0 /\ Aged(k) = k
            \/ k.ttl = 1 /\ Aged(k) = NoKey
            \/ k.ttl > 1 /\ Aged(k).count = k.count /\ Aged(k).ttl = k.ttl - 1
<1>1. CASE k.ttl > 1
  BY <1>1 DEF Aged, Keys
<1>2. CASE k.ttl = 1
  BY <1>2 DEF Aged, Keys, NoKey
<1>3. CASE k.ttl = 0
  BY <1>3 DEF Aged, Keys
<1> QED
  BY <1>1, <1>2, <1>3 DEF Keys

LEMMA TickKeepsInv ==
  ASSUME Inv, Tick
  PROVE  Inv'
<1> USE Numbers DEF Inv, TypeOK, Keys
<1>1. /\ UNCHANGED <<admitted, top, orphans, limit, run, asks, faults>>
      /\ key' = [b \in Buckets |-> Aged(key[b])]
      /\ expired' = expired \cup {b \in Buckets : key[b].ttl = 1}
  BY DEF Tick
<1>2. \/ /\ offset + 1 < Window /\ offset' = offset + 1 /\ bucket' = bucket
      \/ /\ offset + 1 = Window /\ offset' = 0
         /\ bucket' = bucket + 1 /\ bucket' \in Buckets
  BY BoundAssumption DEF Tick, Buckets
<1>3. /\ key' \in [Buckets -> Keys]
      /\ \A b \in Buckets :
           \/ key[b].ttl = 0 /\ key'[b] = key[b]
           \/ key[b].ttl = 1 /\ key'[b] = NoKey /\ b \in expired'
           \/ /\ key[b].ttl > 1 /\ key'[b].count = key[b].count
              /\ key'[b].ttl = key[b].ttl - 1
  <2> SUFFICES ASSUME NEW b \in Buckets
               PROVE  /\ Aged(key[b]) \in Keys
                      /\ \/ key[b].ttl = 0 /\ Aged(key[b]) = key[b]
                         \/ key[b].ttl = 1 /\ Aged(key[b]) = NoKey
                         \/ /\ key[b].ttl > 1
                            /\ Aged(key[b]).count = key[b].count
                            /\ Aged(key[b]).ttl = key[b].ttl - 1
    BY <1>1
  <2> QED
    BY AgedKey
<1>4. TypeOK'
  <2>1. bucket' \in Buckets /\ offset' \in 0 .. Window - 1
    BY <1>2
  <2>2. \A c \in Clients : run'[c].bucket <= bucket'
    BY <1>1, <1>2 DEF Request
  <2> QED
    BY <1>1, <1>3, <2>1, <2>2
<1>5. Living'
  <2>1. Covered'
    <3>1. CASE bucket' = bucket
      BY <1>2, <1>3, <3>1 DEF Living, Covered, NoKey
    <3>2. CASE bucket' = bucket + 1
      BY <1>2, <1>3, <3>2 DEF Living, Future, Covered, NoKey
    <3> QED
      BY <1>2, <3>1, <3>2
  <2>2. Future'
    <3> SUFFICES ASSUME NEW b \in Buckets, b > bucket'
                 PROVE  key'[b] = NoKey
      BY DEF Future
    <3>1. key[b] = NoKey
      BY <1>2 DEF Living, Future
    <3> QED
      BY <1>3, <3>1 DEF NoKey
  <2>3. \A b \in Buckets \ expired' : /\ b \notin expired
                                      /\ key'[b].count = key[b].count
    BY <1>1, <1>3
  <2>4. Counted'
    BY <1>1, <2>3 DEF Living, Counted, Request
  <2> QED
    BY <2>1, <2>2, <2>4 DEF Living
<1>6. AdmittedWithinLimit'
  BY <1>1 DEF AdmittedWithinLimit
<1>7. KeyOutlivesWindow'
  <2> SUFFICES ASSUME NEW b \in expired' PROVE b < bucket'
    BY DEF KeyOutlivesWindow
  <2>1. CASE b \in expired
    BY <1>2, <2>1 DEF KeyOutlivesWindow
  <2>2. CASE b \in Buckets /\ key[b].ttl = 1
    <3>1. b <= bucket
      BY <2>2 DEF Living, Future, NoKey
    <3>2. CASE b = bucket
      BY <1>2, <2>2, <3>2 DEF Living, Covered
    <3>3. b \in Nat /\ bucket \in Nat
      BY <2>2
    <3>4. CASE b < bucket
      BY <1>2, <3>3, <3>4
    <3> QED
      BY <3>1, <3>2, <3>3, <3>4
  <2> QED
    BY <1>1, <2>1, <2>2
<1>8. ImmortalOnlyByFault'
  BY <1>1, <1>3 DEF ImmortalOnlyByFault, NoKey
<1> QED
  BY <1>4, <1>5, <1>6, <1>7, <1>8

-----------------------------------------------------------------------------
(* Every step of a thread, of the quota, of a fault and of the clock keeps *)
(* the invariant.                                                          *)
THEOREM Inductive == Spec => []Inv
<1>1. Inv /\ [Next]_vars => Inv'
  <2> SUFFICES ASSUME Inv, [Next]_vars PROVE Inv'
    OBVIOUS
  <2>1. CASE UNCHANGED vars
    BY <2>1 DEF vars, time, counter, Inv, TypeOK, Living, Covered, Future,
                Counted, AdmittedWithinLimit, KeyOutlivesWindow,
                ImmortalOnlyByFault
  <2>2. ASSUME NEW c \in Clients,
               Ask(c) \/ ReadClock(c) \/ Incr(c) \/ Expire(c) \/ Disconnect(c)
        PROVE  Inv'
    BY <2>2, ReadingKeepsInv, IncrKeepsInv, ExpireKeepsInv, DisconnectKeepsInv
  <2> QED
    BY <2>1, <2>2, CrashKeepsInv, QuotaKeepsInv, TickKeepsInv DEF Next
<1> QED
  BY <1>1, InitInv, PTL DEF Spec

(* Type correctness: no two threads set the lifetime of one counter.       *)
THEOREM TypeCorrect == Spec => []TypeOK
BY Inductive, PTL DEF Inv

(* A counter never admits more than the largest quota compared with it.    *)
THEOREM LimitHeld == Spec => []AdmittedWithinLimit
BY Inductive, PTL DEF Inv

(* Redis keeps a counter at least until its window is over.                *)
THEOREM CounterLives == Spec => []KeyOutlivesWindow
BY Inductive, PTL DEF Inv

(* Only a fault between INCR and EXPIRE leaves a counter for ever.         *)
THEOREM CountersGo == Spec => []ImmortalOnlyByFault
BY Inductive, PTL DEF Inv

=============================================================================
