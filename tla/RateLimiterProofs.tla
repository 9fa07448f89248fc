------------------------- MODULE RateLimiterProofs -------------------------
(***************************************************************************)
(* The spacing of requests by the limiter, proved for any interval, any    *)
(* number of calls and attempts, as long as calls do not overlap.          *)
(***************************************************************************)
EXTENDS RateLimiter, TLAPS

(* A call has made attempts only once it has got past the sleep, and every *)
(* request of it is one of those attempts.                                 *)
AttemptsCounted ==
  /\ \A c \in Calls :
       /\ pc[c] \in {"idle", "read", "sleep"} => attempt[c] = 0
       /\ pc[c] = "send" => attempt[c] < MAX_ATTEMPTS
       /\ pc[c] = "read" => mark[c] <= time
       /\ pc[c] = "store" => mark[c] <= time
  /\ \A r \in requests : r[3] <= time /\ r[2] <= attempt[r[1]]

(* Calls do not overlap. *)
OneInside ==
  \A c, d \in Calls : pc[c] \in Inside /\ pc[d] \in Inside => c = d

(* The time in the dict covers the requests of every call that is over,    *)
(* and the time about to be stored covers them all.                        *)
LastCovers ==
  /\ \A r \in requests : pc[r[1]] = "done" => last # Never /\ r[3] <= last
  /\ \A c \in Calls : pc[c] = "store" => \A r \in requests : r[3] <= mark[c]

(* When a call wakes up, and as long as it sends, the interval since every *)
(* request of any other call has passed.                                   *)
KeepsDistance ==
  \A c \in Calls : \A r \in requests :
    /\ pc[c] = "sleep" => mark[c] - r[3] >= MIN_REQUEST_INTERVAL
    /\ pc[c] \in {"send", "await"} /\ r[1] # c => time - r[3] >= MIN_REQUEST_INTERVAL

Serial == OneInside /\ LastCovers /\ KeepsDistance

LimiterInv == TypeOK /\ AttemptsCounted /\ (~concurrent => Serial /\ SpacedWhenSerial)

USE LimiterAssumption

(* Initially nothing has been sent.                                        *)
LEMMA LimiterInit == Init => LimiterInv
<1> SUFFICES ASSUME Init PROVE LimiterInv
  OBVIOUS
<1>1. TypeOK
  <2>1. concurrent \in BOOLEAN
    BY Zenon DEF Init
  <2>2. time \in 0 .. MaxTime /\ last \in {Never} \cup 0 .. MaxTime
    BY DEF Init
  <2>3. /\ pc \in [Calls -> {"idle", "done"} \cup Inside]
        /\ mark \in [Calls -> Nat]
        /\ attempt \in [Calls -> 0 .. MAX_ATTEMPTS]
        /\ requests \subseteq Calls \X (1 .. MAX_ATTEMPTS) \X (0 .. MaxTime)
    BY DEF Init
  <2>4. QED
    BY <2>1, <2>2, <2>3, Zenon DEF TypeOK
<1>2. AttemptsCounted
  BY DEF Init, AttemptsCounted
<1>3. Serial /\ SpacedWhenSerial
  BY DEF Init, Serial, OneInside, LastCovers, KeepsDistance, SpacedWhenSerial, Inside
<1>4. QED
  BY <1>1, <1>2, <1>3 DEF LimiterInv

(* Every step keeps the type invariant and the count of the attempts.      *)
LEMMA CountStep ==
  ASSUME TypeOK, AttemptsCounted, [Next]_vars
  PROVE  TypeOK' /\ AttemptsCounted'
<1> USE DEF TypeOK, AttemptsCounted, Inside, Never, Goto, SetMark
<1>1. ASSUME NEW c \in Calls, ReadClock(c) PROVE TypeOK' /\ AttemptsCounted'
  BY <1>1 DEF ReadClock
<1>2. ASSUME NEW c \in Calls, ReadLast(c) PROVE TypeOK' /\ AttemptsCounted'
  <2>1. Pause(c) \in Nat
    BY DEF Pause, Elapsed
  <2>2. QED
    BY <1>2, <2>1 DEF ReadLast
<1>3. ASSUME NEW c \in Calls, WakeUp(c) PROVE TypeOK' /\ AttemptsCounted'
  BY <1>3 DEF WakeUp
<1>4. ASSUME NEW c \in Calls, Send(c) PROVE TypeOK' /\ AttemptsCounted'
  BY <1>4 DEF Send
<1>5. ASSUME NEW c \in Calls, Retry(c) PROVE TypeOK' /\ AttemptsCounted'
  BY <1>5 DEF Retry
<1>6. ASSUME NEW c \in Calls, End(c) PROVE TypeOK' /\ AttemptsCounted'
  BY <1>6 DEF End
<1>7. ASSUME NEW c \in Calls, Store(c) PROVE TypeOK' /\ AttemptsCounted'
  BY <1>7 DEF Store
<1>8. CASE Tick
  BY <1>8 DEF Tick
<1>9. CASE UNCHANGED vars
  BY <1>9 DEF vars
<1>10. QED
  BY <1>1, <1>2, <1>3, <1>4, <1>5, <1>6, <1>7, <1>8, <1>9 DEF Next, Advance

(* As long as calls do not overlap, every step keeps the distance between  *)
(* their requests.                                                         *)
LEMMA SerialStep ==
  ASSUME LimiterInv, [Next]_vars, ~concurrent'
  PROVE  Serial' /\ SpacedWhenSerial'
<1> USE DEF Inside, Never, Goto, SetMark, Serial
<1>0. TypeOK /\ AttemptsCounted /\ OneInside /\ LastCovers /\ KeepsDistance
        /\ SpacedWhenSerial
  <2>1. ~concurrent
    <3>1. ASSUME NEW c \in Calls, ReadClock(c) PROVE ~concurrent
      BY <3>1, Zenon DEF ReadClock
    <3>2. ASSUME NEW c \in Calls, Advance(c) PROVE ~concurrent
      BY <3>2 DEF Advance, ReadLast, WakeUp, Send, Retry, End, Store
    <3>3. QED
      BY <3>1, <3>2 DEF Next, Tick, vars
  <2>2. QED
    BY <2>1, Zenon DEF LimiterInv, Serial
<1>a. TypeOK' /\ AttemptsCounted'
  BY <1>0, CountStep
<1>b. (UNCHANGED <<requests, concurrent>>) => SpacedWhenSerial'
  BY <1>0 DEF SpacedWhenSerial
<1>c. \A r \in requests : /\ r[1] \in Calls /\ r[2] \in 1 .. MAX_ATTEMPTS
                         /\ r[3] \in 0 .. MaxTime
  BY <1>0 DEF TypeOK
<1>d. \A c \in Calls : \A r \in requests :
        pc[c] \in {"read", "sleep", "send", "await", "store"} /\ r[1] # c
        => pc[r[1]] = "done"
  BY <1>0, <1>c DEF OneInside, AttemptsCounted, TypeOK
<1>1. ASSUME NEW c \in Calls, ReadClock(c) PROVE Serial' /\ SpacedWhenSerial'
  <2>1. /\ pc \in [Calls -> {"idle", "done"} \cup Inside]
        /\ pc'[c] = "read" /\ \A d \in Calls : d # c => pc'[d] = pc[d] /\ mark'[d] = mark[d]
        /\ requests' = requests /\ time' = time /\ last' = last
        /\ \A d \in Calls : pc[d] \notin Inside
    BY <1>0, <1>1 DEF ReadClock, TypeOK
  <2>2. OneInside'
    BY <2>1 DEF OneInside
  <2>3. \A r \in requests : pc'[r[1]] = "done" => pc[r[1]] = "done"
    BY <1>c, <2>1
  <2>4. LastCovers'
    BY <1>0, <2>1, <2>3 DEF LastCovers
  <2>5. KeepsDistance'
    BY <1>0, <2>1 DEF KeepsDistance
  <2>6. ~concurrent
    BY <1>1, Zenon DEF ReadClock
  <2>7. SpacedWhenSerial'
    BY <1>0, <2>1, <2>6 DEF SpacedWhenSerial
  <2>8. QED
    BY <2>2, <2>4, <2>5, <2>7
<1>2. ASSUME NEW c \in Calls, ReadLast(c) PROVE Serial' /\ SpacedWhenSerial'
  <2>1. \A r \in requests : pc[r[1]] = "done"
    BY <1>0, <1>2, <1>c, <1>d DEF ReadLast, AttemptsCounted
  <2>2. \A r \in requests : time + Pause(c) - r[3] >= MIN_REQUEST_INTERVAL
    BY <1>0, <1>2, <1>c, <2>1 DEF ReadLast, Pause, Elapsed, LastCovers, TypeOK, AttemptsCounted
  <2>3. OneInside' /\ LastCovers'
    BY <1>0, <1>2, <1>c DEF ReadLast, TypeOK, OneInside, LastCovers
  <2>4. mark'[c] = time + Pause(c) /\ pc'[c] = "sleep"
    BY <1>0, <1>2 DEF ReadLast, TypeOK
  <2>5. KeepsDistance'
    <3> SUFFICES ASSUME NEW d \in Calls, NEW r \in requests
                 PROVE  /\ pc'[d] = "sleep" => mark'[d] - r[3] >= MIN_REQUEST_INTERVAL
                        /\ pc'[d] \in {"send", "await"} /\ r[1] # d
                           => time' - r[3] >= MIN_REQUEST_INTERVAL
      BY <1>2 DEF ReadLast, KeepsDistance
    <3>1. CASE d = c
      <4>1. Pause(c) \in Int /\ r[3] \in Int /\ time \in Int
        BY <1>0, <1>c DEF TypeOK, Pause, Elapsed
      <4>2. QED
        BY <2>2, <2>4, <3>1, <4>1
    <3>2. CASE d # c
      BY <1>0, <1>2, <3>2 DEF ReadLast, TypeOK, KeepsDistance
    <3>3. QED
      BY <3>1, <3>2
  <2>6. SpacedWhenSerial'
    BY <1>2, <1>b DEF ReadLast
  <2>7. QED
    BY <2>3, <2>5, <2>6
<1>3. ASSUME NEW c \in Calls, WakeUp(c) PROVE Serial' /\ SpacedWhenSerial'
  BY <1>0, <1>3, <1>b, <1>c DEF WakeUp, TypeOK, OneInside, LastCovers, KeepsDistance
<1>4. ASSUME NEW c \in Calls, Send(c) PROVE Serial' /\ SpacedWhenSerial'
  <2> DEFINE new == <<c, attempt[c] + 1, time>>
  <2>1. \A r \in requests : r[1] # c => time - r[3] >= MIN_REQUEST_INTERVAL
    BY <1>0, <1>4 DEF Send, KeepsDistance
  <2>2. requests' = requests \cup {new} /\ new[1] = c /\ new[3] = time
    BY <1>4 DEF Send
  <2>3. OneInside'
    BY <1>0, <1>4 DEF Send, TypeOK, OneInside
  <2>4. LastCovers' /\ KeepsDistance'
    BY <1>0, <1>4, <1>c, <1>d, <2>1, <2>2 DEF Send, TypeOK, OneInside, LastCovers, KeepsDistance
  <2>5. SpacedWhenSerial'
    <3>1. \A q, r \in requests :
            q[1] # r[1] /\ q[3] <= r[3] /\ r[2] = 1
            => r[3] - q[3] >= MIN_REQUEST_INTERVAL
      <4>1. ~concurrent
        BY <1>4 DEF Send
      <4>2. QED
        BY <1>0, <4>1, Zenon DEF SpacedWhenSerial
    <3>2. \A q, r \in requests' :
            q[1] # r[1] /\ q[3] <= r[3] /\ r[2] = 1
            => r[3] - q[3] >= MIN_REQUEST_INTERVAL
      BY <1>0, <1>c, <2>1, <2>2, <3>1 DEF TypeOK, AttemptsCounted
    <3>3. QED
      BY <3>2, Zenon DEF SpacedWhenSerial
  <2>6. QED
    BY <2>3, <2>4, <2>5
<1>5. ASSUME NEW c \in Calls, Retry(c) PROVE Serial' /\ SpacedWhenSerial'
  BY <1>0, <1>5, <1>b, <1>c DEF Retry, TypeOK, OneInside, LastCovers, KeepsDistance
<1>6. ASSUME NEW c \in Calls, End(c) PROVE Serial' /\ SpacedWhenSerial'
  BY <1>0, <1>6, <1>b, <1>c DEF End, TypeOK, AttemptsCounted, OneInside, LastCovers, KeepsDistance
<1>7. ASSUME NEW c \in Calls, Store(c) PROVE Serial' /\ SpacedWhenSerial'
  BY <1>0, <1>7, <1>b, <1>c DEF Store, TypeOK, OneInside, LastCovers, KeepsDistance
<1>8. CASE Tick
  BY <1>0, <1>8, <1>b, <1>c DEF Tick, TypeOK, OneInside, LastCovers, KeepsDistance
<1>9. CASE UNCHANGED vars
  BY <1>0, <1>9, <1>b DEF vars, OneInside, LastCovers, KeepsDistance
<1>10. QED
  BY <1>1, <1>2, <1>3, <1>4, <1>5, <1>6, <1>7, <1>8, <1>9 DEF Next, Advance

(* The invariant is inductive.                                             *)
THEOREM LimiterInvariant == Spec => []LimiterInv
<1>1. Init => LimiterInv
  BY LimiterInit
<1>2. LimiterInv /\ [Next]_vars => LimiterInv'
  BY CountStep, SerialStep DEF LimiterInv
<1>3. QED
  BY <1>1, <1>2, PTL DEF Spec

(* The variables of the limiter keep their types; no call makes more than  *)
(* MAX_ATTEMPTS attempts.                                                  *)
THEOREM LimiterTypeCorrect == Spec => []TypeOK
<1>1. LimiterInv => TypeOK
  BY DEF LimiterInv
<1>2. QED
  BY <1>1, LimiterInvariant, PTL

(* Calls that do not overlap are spaced: the first request of each keeps   *)
(* the interval to every earlier request, retries included, however late   *)
(* answers come and sleeps end.                                            *)
THEOREM SerialCallsAreSpaced == Spec => []SpacedWhenSerial
<1>1. LimiterInv => SpacedWhenSerial
  BY DEF LimiterInv, SpacedWhenSerial
<1>2. QED
  BY <1>1, LimiterInvariant, PTL
=============================================================================
