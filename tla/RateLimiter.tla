---------------------------- MODULE RateLimiter ----------------------------
(***************************************************************************)
(* services/exchange_client_service.py:                                    *)
(* execute_adapter_order_with_rate_limit, the burst protection around the  *)
(* order requests to one exchange, with the attempts made inside it.       *)
(*                                                                         *)
(* The limiter keeps one time per exchange in a module-level dict, without *)
(* a lock: it reads the clock, then the dict, sleeps if the two are too    *)
(* close, makes its attempts and stores the time at the end.  Exchanges do *)
(* not share anything, so one is modelled.  Time is counted in ticks.      *)
(***************************************************************************)
EXTENDS Integers

CONSTANTS
  Calls,                 \* calls of the limiter for one exchange
  MIN_REQUEST_INTERVAL,  \* 0.1 s in the code
  MAX_ATTEMPTS,          \* 2 in the code
  MaxTime                \* bound on the clock

ASSUME LimiterAssumption ==
  /\ MIN_REQUEST_INTERVAL \in Nat
  /\ MAX_ATTEMPTS \in Nat \ {0}
  /\ MaxTime \in Nat

Never == -1   \* the exchange has no entry in the dict

VARIABLES
  time,        \* time.monotonic()
  last,        \* _exchange_last_request_time[exchange]
  pc,          \* where each call is
  mark,        \* the time each call is working with, see below
  attempt,     \* attempts each call has made
  requests,    \* history: <<call, attempt, time>> of every request sent
  concurrent   \* history: two calls have been in the limiter together

vars == <<time, last, pc, mark, attempt, requests, concurrent>>

(* mark[c] is `now` until the dict is read, then the end of the sleep, and *)
(* in the finally clause the time about to be stored; 0 in between.        *)

Inside == {"read", "sleep", "send", "await", "store"}

Init ==
  /\ time = 0
  /\ last = Never
  /\ pc = [c \in Calls |-> "idle"]
  /\ mark = [c \in Calls |-> 0]
  /\ attempt = [c \in Calls |-> 0]
  /\ requests = {}
  /\ concurrent = FALSE

Goto(c, there) == pc' = [pc EXCEPT ![c] = there]
SetMark(c, t) == mark' = [mark EXCEPT ![c] = t]

(* now = time.monotonic() *)
ReadClock(c) ==
  /\ pc[c] = "idle"
  /\ SetMark(c, time)
  /\ Goto(c, "read")
  /\ concurrent' = (concurrent \/ \E d \in Calls : pc[d] \in Inside)
  /\ UNCHANGED <<time, last, attempt, requests>>

(* The time of the last request may have been stored after the clock was   *)
(* read: elapsed is then negative, and the call sleeps longer.             *)
Elapsed(c) == mark[c] - last
(* Mutant of Pause: the time already elapsed is slept again.               *)
PauseElapsed(c) ==
  IF last = Never \/ Elapsed(c) >= MIN_REQUEST_INTERVAL THEN 0
  ELSE Elapsed(c)

Pause(c) ==
  IF last = Never \/ Elapsed(c) >= MIN_REQUEST_INTERVAL THEN 0
  ELSE MIN_REQUEST_INTERVAL - Elapsed(c)

ReadLast(c) ==
  /\ pc[c] = "read"
  /\ SetMark(c, time + Pause(c))
  /\ Goto(c, "sleep")
  /\ UNCHANGED <<time, last, attempt, requests, concurrent>>

(* Sleeping never ends early; it may end late. *)
WakeUp(c) ==
  /\ pc[c] = "sleep"
  /\ time >= mark[c]
  /\ SetMark(c, 0)
  /\ Goto(c, "send")
  /\ UNCHANGED <<time, last, attempt, requests, concurrent>>

Send(c) ==
  /\ pc[c] = "send"
  /\ attempt' = [attempt EXCEPT ![c] = @ + 1]
  /\ requests' = requests \cup {<<c, attempt[c] + 1, time>>}
  /\ Goto(c, "await")
  /\ UNCHANGED <<time, last, mark, concurrent>>

(* Mutant of Retry: one attempt too many.                                  *)
RetryOnceMore(c) ==
  /\ pc[c] = "await"
  /\ attempt[c] <= MAX_ATTEMPTS
  /\ Goto(c, "send")
  /\ UNCHANGED <<time, last, mark, attempt, requests, concurrent>>

(* A transport error with an attempt left: the next one follows at once. *)
Retry(c) ==
  /\ pc[c] = "await"
  /\ attempt[c] < MAX_ATTEMPTS
  /\ Goto(c, "send")
  /\ UNCHANGED <<time, last, mark, attempt, requests, concurrent>>

(* A result, an error not retried, or the last transport error: the        *)
(* finally clause reads the clock, ...                                     *)
End(c) ==
  /\ pc[c] = "await"
  /\ SetMark(c, time)
  /\ Goto(c, "store")
  /\ UNCHANGED <<time, last, attempt, requests, concurrent>>

(* ... and stores what it read, perhaps over a later time of another call. *)
Store(c) ==
  /\ pc[c] = "store"
  /\ last' = mark[c]
  /\ SetMark(c, 0)
  /\ Goto(c, "done")
  /\ UNCHANGED <<time, attempt, requests, concurrent>>

Tick ==
  /\ time < MaxTime
  /\ time' = time + 1
  /\ UNCHANGED <<last, pc, mark, attempt, requests, concurrent>>

Advance(c) ==
  ReadLast(c) \/ WakeUp(c) \/ Send(c) \/ Retry(c) \/ End(c) \/ Store(c)

Next == Tick \/ \E c \in Calls : ReadClock(c) \/ Advance(c)

Spec == Init /\ [][Next]_vars
-----------------------------------------------------------------------------
TypeOK ==
  /\ time \in 0 .. MaxTime
  /\ last \in {Never} \cup 0 .. MaxTime
  /\ pc \in [Calls -> {"idle", "done"} \cup Inside]
  /\ mark \in [Calls -> Nat]
  /\ attempt \in [Calls -> 0 .. MAX_ATTEMPTS]
  /\ requests \subseteq Calls \X (1 .. MAX_ATTEMPTS) \X (0 .. MaxTime)
  /\ concurrent \in BOOLEAN

(* As long as calls come one after the other, the first request of a call  *)
(* keeps the interval to every request of every earlier call, the retries  *)
(* of those included, however late their answers came.                     *)
SpacedWhenSerial ==
  ~concurrent =>
    \A q, r \in requests :
      q[1] # r[1] /\ q[3] <= r[3] /\ r[2] = 1
      => r[3] - q[3] >= MIN_REQUEST_INTERVAL

(* The docstring, exchange_client_service.py:87: at least 0.1 s between    *)
(* requests to one exchange.                                               *)
MinimumInterval ==
  \A q, r \in requests :
    q # r /\ q[3] <= r[3] => r[3] - q[3] >= MIN_REQUEST_INTERVAL
=============================================================================
