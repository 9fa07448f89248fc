----------------------- MODULE ExecutionEngineProofs -----------------------
(***************************************************************************)
(* Theorems about ExecutionEngine, for every set of calls and requests,    *)
(* every number of attempts and every number of restarts.                  *)
(***************************************************************************)
EXTENDS ExecutionEngine, TLAPS

-----------------------------------------------------------------------------
(* The inductive invariant.  A key "guarded" is one the engine still       *)
(* promises at most one order for.                                         *)

Guarded(c) == CallKey(c) \notin doubt \cup {NoKey}

(* A call has a request from the moment it is made. *)
Requested ==
  \A c \in Calls : pc[c] # "idle" => request[c] \in Requests

(* A call that is sending or waiting is at a proper attempt, and so is one *)
(* whose result is an answer of the exchange; it has passed the gate of    *)
(* real trading, and has no result before it has an answer.                *)
AtAttempt ==
  \A c \in Calls :
    \/ pc[c] \in {"send", "await"}
    \/ result[c] \in {"live_dispatched", "ExchangeOrderPlacementError"}
    => attempt[c] \in Attempts

GatePassed ==
  \A c \in Calls : pc[c] \in {"send", "await"} => realTrading

NoResultYet ==
  \A c \in Calls :
    pc[c] \in {"idle", "check", "dispatch", "send", "await"} => result[c] = "none"

(* Transmissions happen in the order of the attempts: none before the live *)
(* path, none beyond the current attempt.                                  *)
SentInOrder ==
  \A c \in Calls : \A a \in Attempts :
    /\ pc[c] \in {"idle", "check", "dispatch", "skipped"} => tx[<<c, a>>] = "unsent"
    /\ pc[c] = "send" /\ a >= attempt[c] => tx[<<c, a>>] = "unsent"
    /\ pc[c] = "await" /\ a > attempt[c] => tx[<<c, a>>] = "unsent"

(* Of the calls with a guarded key at most one is past the look-up without *)
(* having recorded the key, and the key is indeed not recorded.            *)
OneInWindow ==
  \A c, d \in Calls :
    c # d /\ pc[c] \in Window /\ pc[d] \in Window /\ CallKey(c) = CallKey(d)
    => ~Guarded(c)

WindowIsUnrecorded ==
  \A c \in Calls : pc[c] \in Window /\ Guarded(c) => CallKey(c) \notin executed

(* An order that is or may come to be held under a guarded key is the last *)
(* transmission of its call, and the call is still waiting for the answer, *)
(* or has it, or has recorded the key.                                     *)
Accounted(c) ==
  \/ pc[c] = "await"
  \/ pc[c] = "record" /\ result[c] = "live_dispatched"
  \/ pc[c] = "returned" /\ result[c] = "live_dispatched" /\ CallKey(c) \in executed

LiveIsAccounted ==
  \A c \in Calls : \A a \in Attempts :
    Live(<<c, a>>) /\ Guarded(c) => a = attempt[c] /\ Accounted(c)

OneLivePerKey ==
  \A x, y \in Transmissions :
    Live(x) /\ Live(y) /\ x # y /\ CallKey(x[1]) = CallKey(y[1]) => ~Guarded(x[1])

IInv ==
  /\ TypeOK
  /\ Requested
  /\ AtAttempt
  /\ GatePassed
  /\ NoResultYet
  /\ SentInOrder
  /\ OneInWindow
  /\ WindowIsUnrecorded
  /\ LiveIsAccounted
  /\ OneLivePerKey
  /\ ReportMatchesExchange
-----------------------------------------------------------------------------
(* The key of a call is a key of some request, or none. *)
LEMMA CallKeyType ==
  ASSUME TypeOK, NEW c \in Calls
  PROVE  CallKey(c) \in Keys \cup {NoKey}
BY DEF TypeOK, CallKey, RequestKey, Keys

(* Every step keeps the variables within their types. *)
LEMMA TypeStep ==
  ASSUME TypeOK, [Next]_vars
  PROVE  TypeOK'
<1> USE EngineAssumption DEF TypeOK, Attempts, Transmissions, Window, Running, Ended,
                             SimulatedStatuses, LiveStatuses, Exceptions, Goto
<1>1. ASSUME NEW c \in Calls, NEW r \in Requests, Call(c, r)
      PROVE  TypeOK'
  BY <1>1 DEF Call
<1>2. ASSUME NEW c \in Calls, Skip(c) \/ Pass(c) \/ RefuseMode(c) \/ ExecuteSimulated(c)
      PROVE  TypeOK'
  BY <1>2 DEF Skip, Pass, RefuseMode, ExecuteSimulated, Yield, Raise
<1>3. ASSUME NEW c \in Calls, Record(c)
      PROVE  TypeOK'
  BY <1>3, CallKeyType DEF Record
<1>4. ASSUME NEW c \in Calls, ExecuteStub(c) \/ NoLivePath(c) \/ GateClosed(c) \/ GateOpen(c)
      PROVE  TypeOK'
  BY <1>4 DEF ExecuteStub, NoLivePath, GateClosed, GateOpen, IsLiveOn, Yield, Raise
<1>5. ASSUME NEW c \in Calls, Send(c)
      PROVE  TypeOK'
  BY <1>5 DEF Send
<1>6. ASSUME NEW c \in Calls,
             ReplyAccepted(c) \/ ReplyRefused(c) \/ ReplyUncoded(c) \/ ReplyUnreadable(c)
      PROVE  TypeOK'
  BY <1>6 DEF ReplyAccepted, ReplyRefused, ReplyUncoded, ReplyUnreadable, Yield, Raise,
              LoseTrackOf
<1>7. ASSUME NEW c \in Calls, TransportError(c)
      PROVE  TypeOK'
  BY <1>7 DEF TransportError, Raise, LoseTrackOf
<1>8. ASSUME NEW x \in Transmissions, ExchangeAccepts(x) \/ ExchangeRefuses(x)
      PROVE  TypeOK'
  BY <1>8 DEF ExchangeAccepts, ExchangeRefuses, code
<1>9. CASE Restart
  BY <1>9 DEF Restart
<1>10. CASE UNCHANGED vars
  BY <1>10 DEF vars
<1> QED
  BY <1>1, <1>2, <1>3, <1>4, <1>5, <1>6, <1>7, <1>8, <1>9, <1>10 DEF Next, Advance

(* Type correctness: every variable of the engine keeps to its type.       *)
THEOREM TypeCorrect == Spec => []TypeOK
<1>1. Init => TypeOK
  BY EngineAssumption DEF Init, TypeOK, Running, Ended, Window
<1>2. TypeOK /\ [Next]_vars => TypeOK'
  BY TypeStep
<1> QED
  BY <1>1, <1>2, PTL DEF Spec
-----------------------------------------------------------------------------
(* Only Call gives a call its key. *)
LEMMA KeysStay ==
  ASSUME UNCHANGED request
  PROVE  \A c \in Calls : CallKey(c)' = CallKey(c)
BY DEF CallKey

(* A step that changes no order held, and no key, keeps guarded keys to    *)
(* one order each.                                                         *)
LEMMA LiveStaysSingle ==
  ASSUME OneLivePerKey, tx' = tx, doubt \subseteq doubt',
         \A d \in Calls : CallKey(d)' = CallKey(d)
  PROVE  OneLivePerKey'
<1> SUFFICES ASSUME NEW x \in Transmissions, NEW y \in Transmissions, Live(x)', Live(y)',
                    x # y, CallKey(x[1])' = CallKey(y[1])', Guarded(x[1])'
             PROVE  FALSE
  BY DEF OneLivePerKey
<1>1. x[1] \in Calls /\ y[1] \in Calls
  BY DEF Transmissions
<1>2. CallKey(x[1]) = CallKey(y[1]) /\ Guarded(x[1])
  BY <1>1 DEF Guarded
<1>3. Live(x) /\ Live(y)
  BY DEF Live
<1>4. QED
  BY <1>2, <1>3 DEF OneLivePerKey

(* What each call knows of itself stays true. *)
LEMMA ProgressStep ==
  ASSUME IInv, [Next]_vars
  PROVE  Requested' /\ AtAttempt' /\ GatePassed' /\ NoResultYet'
<1> TypeOK'
  BY TypeStep DEF IInv
<1>1. ASSUME NEW c \in Calls, NEW r \in Requests, Call(c, r)
      PROVE  Requested' /\ AtAttempt' /\ GatePassed' /\ NoResultYet'
  BY <1>1, EngineAssumption
  DEF IInv, TypeOK, Attempts, Transmissions, Goto,
                                  Requested, AtAttempt, GatePassed, NoResultYet,
                                  Window, SimulatedStatuses, Call
<1>2. ASSUME NEW c \in Calls, Skip(c)
      PROVE  Requested' /\ AtAttempt' /\ GatePassed' /\ NoResultYet'
  BY <1>2, EngineAssumption
  DEF IInv, TypeOK, Attempts, Transmissions, Goto,
                                  Requested, AtAttempt, GatePassed, NoResultYet,
                                  Window, SimulatedStatuses, Skip
<1>3. ASSUME NEW c \in Calls, Pass(c)
      PROVE  Requested' /\ AtAttempt' /\ GatePassed' /\ NoResultYet'
  BY <1>3, EngineAssumption
  DEF IInv, TypeOK, Attempts, Transmissions, Goto,
                                  Requested, AtAttempt, GatePassed, NoResultYet,
                                  Window, SimulatedStatuses, Pass
<1>4. ASSUME NEW c \in Calls, RefuseMode(c) \/ ExecuteSimulated(c)
      PROVE  Requested' /\ AtAttempt' /\ GatePassed' /\ NoResultYet'
  BY <1>4, EngineAssumption
  DEF IInv, TypeOK, Attempts, Transmissions, Goto,
                                  Requested, AtAttempt, GatePassed, NoResultYet,
                                  Window, SimulatedStatuses, RefuseMode,
                                  ExecuteSimulated, Yield, Raise
<1>5. ASSUME NEW c \in Calls, Record(c)
      PROVE  Requested' /\ AtAttempt' /\ GatePassed' /\ NoResultYet'
  BY <1>5, EngineAssumption
  DEF IInv, TypeOK, Attempts, Transmissions, Goto,
                                  Requested, AtAttempt, GatePassed, NoResultYet,
                                  Window, SimulatedStatuses, Record
<1>6. ASSUME NEW c \in Calls,
             ExecuteStub(c) \/ NoLivePath(c) \/ GateClosed(c) \/ GateOpen(c)
      PROVE  Requested' /\ AtAttempt' /\ GatePassed' /\ NoResultYet'
  BY <1>6, EngineAssumption
  DEF IInv, TypeOK, Attempts, Transmissions, Goto,
                                  Requested, AtAttempt, GatePassed, NoResultYet,
                                  Window, SimulatedStatuses, ExecuteStub, NoLivePath,
                                  GateClosed, GateOpen, IsLiveOn, Yield, Raise
<1>7. ASSUME NEW c \in Calls, Send(c)
      PROVE  Requested' /\ AtAttempt' /\ GatePassed' /\ NoResultYet'
  BY <1>7, EngineAssumption
  DEF IInv, TypeOK, Attempts, Transmissions, Goto,
                                  Requested, AtAttempt, GatePassed, NoResultYet,
                                  Window, SimulatedStatuses, Send
<1>8. ASSUME NEW c \in Calls, ReplyAccepted(c) \/ ReplyRefused(c) \/ ReplyUncoded(c)
      PROVE  Requested' /\ AtAttempt' /\ GatePassed' /\ NoResultYet'
  BY <1>8, EngineAssumption
  DEF IInv, TypeOK, Attempts, Transmissions, Goto,
                                  Requested, AtAttempt, GatePassed, NoResultYet,
                                  Window, SimulatedStatuses, ReplyAccepted,
                                  ReplyRefused, ReplyUncoded, Yield, Raise
<1>9. ASSUME NEW c \in Calls, ReplyUnreadable(c)
      PROVE  Requested' /\ AtAttempt' /\ GatePassed' /\ NoResultYet'
  BY <1>9, EngineAssumption
  DEF IInv, TypeOK, Attempts, Transmissions, Goto,
                                  Requested, AtAttempt, GatePassed, NoResultYet,
                                  Window, SimulatedStatuses, ReplyUnreadable, Raise,
                                  LoseTrackOf
<1>10. ASSUME NEW c \in Calls, TransportError(c)
      PROVE  Requested' /\ AtAttempt' /\ GatePassed' /\ NoResultYet'
  BY <1>10, EngineAssumption
  DEF IInv, TypeOK, Attempts, Transmissions, Goto,
                                   Requested, AtAttempt, GatePassed, NoResultYet,
                                   Window, SimulatedStatuses, TransportError, Raise,
                                   LoseTrackOf
<1>11. ASSUME NEW x \in Transmissions, ExchangeAccepts(x) \/ ExchangeRefuses(x)
      PROVE  Requested' /\ AtAttempt' /\ GatePassed' /\ NoResultYet'
  BY <1>11, EngineAssumption
  DEF IInv, TypeOK, Attempts, Transmissions, Goto,
                                   Requested, AtAttempt, GatePassed, NoResultYet,
                                   Window, SimulatedStatuses, ExchangeAccepts,
                                   ExchangeRefuses, code
<1>12. CASE Restart
  BY <1>12, EngineAssumption
  DEF IInv, TypeOK, Attempts, Transmissions, Goto,
                                   Requested, AtAttempt, GatePassed, NoResultYet,
                                   Window, SimulatedStatuses, Restart, Running
<1>13. CASE UNCHANGED vars
  BY <1>13, EngineAssumption
  DEF IInv, TypeOK, Attempts, Transmissions, Goto,
                                   Requested, AtAttempt, GatePassed, NoResultYet,
                                   Window, SimulatedStatuses, vars
<1> QED
  BY <1>1, <1>2, <1>3, <1>4, <1>5, <1>6, <1>7, <1>8, <1>9, <1>10, <1>11, <1>12, <1>13
  DEF Next, Advance

(* Transmissions go on in the order of the attempts; their outcome is final. *)
LEMMA SentStep ==
  ASSUME IInv, [Next]_vars
  PROVE  SentInOrder' /\ ReportMatchesExchange'
<1> TypeOK'
  BY TypeStep DEF IInv
<1>1. ASSUME NEW c \in Calls, NEW r \in Requests, Call(c, r)
      PROVE  SentInOrder' /\ ReportMatchesExchange'
  BY <1>1, EngineAssumption
  DEF IInv, TypeOK, Attempts, Transmissions, Goto,
                                  SentInOrder, ReportMatchesExchange, NoResultYet,
                                  AtAttempt, Sent, SimulatedStatuses, Call
<1>2. ASSUME NEW c \in Calls, Skip(c)
      PROVE  SentInOrder' /\ ReportMatchesExchange'
  BY <1>2, EngineAssumption
  DEF IInv, TypeOK, Attempts, Transmissions, Goto,
                                  SentInOrder, ReportMatchesExchange, NoResultYet,
                                  AtAttempt, Sent, SimulatedStatuses, Skip
<1>3. ASSUME NEW c \in Calls, Pass(c)
      PROVE  SentInOrder' /\ ReportMatchesExchange'
  BY <1>3, EngineAssumption
  DEF IInv, TypeOK, Attempts, Transmissions, Goto,
                                  SentInOrder, ReportMatchesExchange, NoResultYet,
                                  AtAttempt, Sent, SimulatedStatuses, Pass
<1>4. ASSUME NEW c \in Calls, RefuseMode(c) \/ ExecuteSimulated(c)
      PROVE  SentInOrder' /\ ReportMatchesExchange'
  BY <1>4, EngineAssumption
  DEF IInv, TypeOK, Attempts, Transmissions, Goto,
                                  SentInOrder, ReportMatchesExchange, NoResultYet,
                                  AtAttempt, Sent, SimulatedStatuses, RefuseMode,
                                  ExecuteSimulated, Yield, Raise
<1>5. ASSUME NEW c \in Calls, Record(c)
      PROVE  SentInOrder' /\ ReportMatchesExchange'
  BY <1>5, EngineAssumption
  DEF IInv, TypeOK, Attempts, Transmissions, Goto,
                                  SentInOrder, ReportMatchesExchange, NoResultYet,
                                  AtAttempt, Sent, SimulatedStatuses, Record
<1>6. ASSUME NEW c \in Calls,
             ExecuteStub(c) \/ NoLivePath(c) \/ GateClosed(c) \/ GateOpen(c)
      PROVE  SentInOrder' /\ ReportMatchesExchange'
  BY <1>6, EngineAssumption
  DEF IInv, TypeOK, Attempts, Transmissions, Goto,
                                  SentInOrder, ReportMatchesExchange, NoResultYet,
                                  AtAttempt, Sent, SimulatedStatuses, ExecuteStub,
                                  NoLivePath, GateClosed, GateOpen, IsLiveOn, Yield,
                                  Raise
<1>7. ASSUME NEW c \in Calls, Send(c)
      PROVE  SentInOrder' /\ ReportMatchesExchange'
  BY <1>7, EngineAssumption
  DEF IInv, TypeOK, Attempts, Transmissions, Goto,
                                  SentInOrder, ReportMatchesExchange, NoResultYet,
                                  AtAttempt, Sent, SimulatedStatuses, Send
<1>8. ASSUME NEW c \in Calls, ReplyAccepted(c) \/ ReplyRefused(c) \/ ReplyUncoded(c)
      PROVE  SentInOrder' /\ ReportMatchesExchange'
  <2>1. UNCHANGED tx /\ UNCHANGED attempt
    BY <1>8 DEF ReplyAccepted, ReplyRefused, ReplyUncoded
  <2>2. \A d \in Calls : pc'[d] = pc[d] \/ pc'[d] \in {"record", "raised"}
    BY <1>8 DEF IInv, TypeOK, ReplyAccepted, ReplyRefused, ReplyUncoded, Yield, Raise, Goto
  <2>3. \A d \in Calls \ {c} : result'[d] = result[d]
    BY <1>8 DEF IInv, TypeOK, ReplyAccepted, ReplyRefused, ReplyUncoded, Yield, Raise
  <2>4. /\ result'[c] = "live_dispatched" => tx[Sent(c)] = "accepted"
        /\ result'[c] = "ExchangeOrderPlacementError" => tx[Sent(c)] = "refused"
    BY <1>8 DEF IInv, TypeOK, ReplyAccepted, ReplyRefused, ReplyUncoded, Yield, Raise
  <2>5. SentInOrder'
    BY <2>1, <2>2 DEF IInv, SentInOrder
  <2>6. ReportMatchesExchange'
    BY <2>1, <2>3, <2>4 DEF IInv, ReportMatchesExchange, Sent
  <2> QED
    BY <2>5, <2>6
<1>9. ASSUME NEW c \in Calls, ReplyUnreadable(c)
      PROVE  SentInOrder' /\ ReportMatchesExchange'
  BY <1>9, EngineAssumption
  DEF IInv, TypeOK, Attempts, Transmissions, Goto,
                                  SentInOrder, ReportMatchesExchange, NoResultYet,
                                  AtAttempt, Sent, SimulatedStatuses, ReplyUnreadable,
                                  Raise, LoseTrackOf
<1>10. ASSUME NEW c \in Calls, TransportError(c)
      PROVE  SentInOrder' /\ ReportMatchesExchange'
  BY <1>10, EngineAssumption
  DEF IInv, TypeOK, Attempts, Transmissions, Goto,
                                   SentInOrder, ReportMatchesExchange, NoResultYet,
                                   AtAttempt, Sent, SimulatedStatuses, TransportError,
                                   Raise, LoseTrackOf
<1>11. ASSUME NEW x \in Transmissions, ExchangeAccepts(x) \/ ExchangeRefuses(x)
      PROVE  SentInOrder' /\ ReportMatchesExchange'
  BY <1>11, EngineAssumption
  DEF IInv, TypeOK, Attempts, Transmissions, Goto,
                                   SentInOrder, ReportMatchesExchange, NoResultYet,
                                   AtAttempt, Sent, SimulatedStatuses,
                                   ExchangeAccepts, ExchangeRefuses, code
<1>12. CASE Restart
  BY <1>12, EngineAssumption
  DEF IInv, TypeOK, Attempts, Transmissions, Goto,
                                   SentInOrder, ReportMatchesExchange, NoResultYet,
                                   AtAttempt, Sent, SimulatedStatuses, Restart,
                                   Running
<1>13. CASE UNCHANGED vars
  BY <1>13, EngineAssumption
  DEF IInv, TypeOK, Attempts, Transmissions, Goto,
                                   SentInOrder, ReportMatchesExchange, NoResultYet,
                                   AtAttempt, Sent, SimulatedStatuses, vars
<1> QED
  BY <1>1, <1>2, <1>3, <1>4, <1>5, <1>6, <1>7, <1>8, <1>9, <1>10, <1>11, <1>12, <1>13
  DEF Next, Advance

(* The window between look-up and recording stays one call's own. *)
LEMMA WindowStep ==
  ASSUME IInv, [Next]_vars
  PROVE  OneInWindow' /\ WindowIsUnrecorded'
<1> TypeOK'
  BY TypeStep DEF IInv
<1>1. ASSUME NEW c \in Calls, NEW r \in Requests, Call(c, r)
      PROVE  OneInWindow' /\ WindowIsUnrecorded'
  <2>1. \A d \in Calls \ {c} : CallKey(d)' = CallKey(d)
    BY <1>1 DEF Call, CallKey
  <2> QED
    BY <1>1, <2>1 DEF IInv, TypeOK, Attempts, Transmissions, Goto, OneInWindow,
                      WindowIsUnrecorded, Guarded, Window, Call
<1>2. ASSUME NEW c \in Calls, Skip(c)
      PROVE  OneInWindow' /\ WindowIsUnrecorded'
  BY <1>2, KeysStay, EngineAssumption
  DEF IInv, TypeOK, Attempts, Transmissions,
                                            Goto, OneInWindow, WindowIsUnrecorded,
                                            Guarded, Window, Skip
<1>3. ASSUME NEW c \in Calls, Pass(c)
      PROVE  OneInWindow' /\ WindowIsUnrecorded'
  BY <1>3, CallKeyType, KeysStay, EngineAssumption
  DEF IInv, TypeOK, Attempts,
                                                         Transmissions, Goto,
                                                         OneInWindow,
                                                         WindowIsUnrecorded, Guarded,
                                                         Window, Pass
<1>4. ASSUME NEW c \in Calls, RefuseMode(c) \/ ExecuteSimulated(c)
      PROVE  OneInWindow' /\ WindowIsUnrecorded'
  BY <1>4, KeysStay, EngineAssumption
  DEF IInv, TypeOK, Attempts, Transmissions,
                                            Goto, OneInWindow, WindowIsUnrecorded,
                                            Guarded, Window, RefuseMode,
                                            ExecuteSimulated, Yield, Raise
<1>5. ASSUME NEW c \in Calls, Record(c)
      PROVE  OneInWindow' /\ WindowIsUnrecorded'
  BY <1>5, CallKeyType, KeysStay, EngineAssumption
  DEF IInv, TypeOK, Attempts,
                                                         Transmissions, Goto,
                                                         OneInWindow,
                                                         WindowIsUnrecorded, Guarded,
                                                         Window, Record
<1>6. ASSUME NEW c \in Calls,
             ExecuteStub(c) \/ NoLivePath(c) \/ GateClosed(c) \/ GateOpen(c)
      PROVE  OneInWindow' /\ WindowIsUnrecorded'
  BY <1>6, KeysStay, EngineAssumption
  DEF IInv, TypeOK, Attempts, Transmissions,
                                            Goto, OneInWindow, WindowIsUnrecorded,
                                            Guarded, Window, ExecuteStub, NoLivePath,
                                            GateClosed, GateOpen, IsLiveOn, Yield,
                                            Raise
<1>7. ASSUME NEW c \in Calls, Send(c)
      PROVE  OneInWindow' /\ WindowIsUnrecorded'
  BY <1>7, KeysStay, EngineAssumption
  DEF IInv, TypeOK, Attempts, Transmissions,
                                            Goto, OneInWindow, WindowIsUnrecorded,
                                            Guarded, Window, Send
<1>8. ASSUME NEW c \in Calls, ReplyAccepted(c) \/ ReplyRefused(c) \/ ReplyUncoded(c)
      PROVE  OneInWindow' /\ WindowIsUnrecorded'
  BY <1>8, KeysStay, EngineAssumption
  DEF IInv, TypeOK, Attempts, Transmissions,
                                            Goto, OneInWindow, WindowIsUnrecorded,
                                            Guarded, Window, ReplyAccepted,
                                            ReplyRefused, ReplyUncoded, Yield, Raise
<1>9. ASSUME NEW c \in Calls, ReplyUnreadable(c)
      PROVE  OneInWindow' /\ WindowIsUnrecorded'
  BY <1>9, CallKeyType, KeysStay, EngineAssumption
  DEF IInv, TypeOK, Attempts,
                                                         Transmissions, Goto,
                                                         OneInWindow,
                                                         WindowIsUnrecorded, Guarded,
                                                         Window, ReplyUnreadable,
                                                         Raise, LoseTrackOf
<1>10. ASSUME NEW c \in Calls, TransportError(c)
      PROVE  OneInWindow' /\ WindowIsUnrecorded'
  BY <1>10, CallKeyType, KeysStay, EngineAssumption
  DEF IInv, TypeOK, Attempts,
                                                          Transmissions, Goto,
                                                          OneInWindow,
                                                          WindowIsUnrecorded, Guarded,
                                                          Window, TransportError,
                                                          Raise, LoseTrackOf
<1>11. ASSUME NEW x \in Transmissions, ExchangeAccepts(x) \/ ExchangeRefuses(x)
      PROVE  OneInWindow' /\ WindowIsUnrecorded'
  BY <1>11, KeysStay, EngineAssumption
  DEF IInv, TypeOK, Attempts, Transmissions,
                                             Goto, OneInWindow, WindowIsUnrecorded,
                                             Guarded, Window, ExchangeAccepts,
                                             ExchangeRefuses, code
<1>12. CASE Restart
  BY <1>12, CallKeyType, KeysStay, EngineAssumption
  DEF IInv, TypeOK, Attempts,
                                                          Transmissions, Goto,
                                                          OneInWindow,
                                                          WindowIsUnrecorded, Guarded,
                                                          Window, Restart, Running
<1>13. CASE UNCHANGED vars
  BY <1>13, KeysStay, EngineAssumption
  DEF IInv, TypeOK, Attempts, Transmissions,
                                             Goto, OneInWindow, WindowIsUnrecorded,
                                             Guarded, Window, vars
<1> QED
  BY <1>1, <1>2, <1>3, <1>4, <1>5, <1>6, <1>7, <1>8, <1>9, <1>10, <1>11, <1>12, <1>13
  DEF Next, Advance

(* Every live order stays accounted for. *)
LEMMA AccountStep ==
  ASSUME IInv, [Next]_vars
  PROVE  LiveIsAccounted'
<1> TypeOK'
  BY TypeStep DEF IInv
<1>1. ASSUME NEW c \in Calls, NEW r \in Requests, Call(c, r)
      PROVE  LiveIsAccounted'
  <2>1. \A d \in Calls \ {c} : CallKey(d)' = CallKey(d)
    BY <1>1 DEF Call, CallKey
  <2> QED
    BY <1>1, <2>1 DEF IInv, TypeOK, Attempts, Transmissions, Goto, LiveIsAccounted,
                      Accounted, Guarded, Live, Sent, Window, SentInOrder,
                      NoResultYet, AtAttempt, Call
<1>2. ASSUME NEW c \in Calls, Skip(c)
      PROVE  LiveIsAccounted'
  BY <1>2, KeysStay, EngineAssumption
  DEF IInv, TypeOK, Attempts, Transmissions,
                                            Goto, LiveIsAccounted, Accounted, Guarded,
                                            Live, Sent, Window, SentInOrder,
                                            NoResultYet, AtAttempt, Skip
<1>3. ASSUME NEW c \in Calls, Pass(c)
      PROVE  LiveIsAccounted'
  BY <1>3, CallKeyType, KeysStay, EngineAssumption
  DEF IInv, TypeOK, Attempts,
                                                         Transmissions, Goto,
                                                         LiveIsAccounted, Accounted,
                                                         Guarded, Live, Sent, Window,
                                                         SentInOrder, NoResultYet,
                                                         AtAttempt, Pass
<1>4. ASSUME NEW c \in Calls, RefuseMode(c) \/ ExecuteSimulated(c)
      PROVE  LiveIsAccounted'
  BY <1>4, KeysStay, EngineAssumption
  DEF IInv, TypeOK, Attempts, Transmissions,
                                            Goto, LiveIsAccounted, Accounted, Guarded,
                                            Live, Sent, Window, SentInOrder,
                                            NoResultYet, AtAttempt, RefuseMode,
                                            ExecuteSimulated, Yield, Raise
<1>5. ASSUME NEW c \in Calls, Record(c)
      PROVE  LiveIsAccounted'
  BY <1>5, CallKeyType, KeysStay, EngineAssumption
  DEF IInv, TypeOK, Attempts,
                                                         Transmissions, Goto,
                                                         LiveIsAccounted, Accounted,
                                                         Guarded, Live, Sent, Window,
                                                         SentInOrder, NoResultYet,
                                                         AtAttempt, Record
<1>6. ASSUME NEW c \in Calls,
             ExecuteStub(c) \/ NoLivePath(c) \/ GateClosed(c) \/ GateOpen(c)
      PROVE  LiveIsAccounted'
  BY <1>6, KeysStay, EngineAssumption
  DEF IInv, TypeOK, Attempts, Transmissions,
                                            Goto, LiveIsAccounted, Accounted, Guarded,
                                            Live, Sent, Window, SentInOrder,
                                            NoResultYet, AtAttempt, ExecuteStub,
                                            NoLivePath, GateClosed, GateOpen,
                                            IsLiveOn, Yield, Raise
<1>7. ASSUME NEW c \in Calls, Send(c)
      PROVE  LiveIsAccounted'
  BY <1>7, KeysStay, EngineAssumption
  DEF IInv, TypeOK, Attempts, Transmissions,
                                            Goto, LiveIsAccounted, Accounted, Guarded,
                                            Live, Sent, Window, SentInOrder,
                                            NoResultYet, AtAttempt, Send
<1>8. ASSUME NEW c \in Calls, ReplyAccepted(c) \/ ReplyRefused(c) \/ ReplyUncoded(c)
      PROVE  LiveIsAccounted'
  <2>1. UNCHANGED tx /\ UNCHANGED attempt /\ UNCHANGED doubt /\ UNCHANGED executed
    BY <1>8 DEF ReplyAccepted, ReplyRefused, ReplyUncoded
  <2>2. \A d \in Calls : CallKey(d)' = CallKey(d)
    BY <1>8, KeysStay DEF ReplyAccepted, ReplyRefused, ReplyUncoded
  <2>3. \A d \in Calls \ {c} : pc'[d] = pc[d] /\ result'[d] = result[d]
    BY <1>8 DEF IInv, TypeOK, ReplyAccepted, ReplyRefused, ReplyUncoded, Yield, Raise, Goto
  <2>4. Live(Sent(c)) => pc'[c] = "record" /\ result'[c] = "live_dispatched"
    BY <1>8 DEF IInv, TypeOK, Live, ReplyAccepted, ReplyRefused, ReplyUncoded, Yield, Raise, Goto
  <2> SUFFICES ASSUME NEW d \in Calls, NEW a \in Attempts, Live(<<d, a>>)', Guarded(d)'
               PROVE  (a = attempt[d] /\ Accounted(d))'
    BY DEF LiveIsAccounted
  <2>5. Live(<<d, a>>) /\ Guarded(d)
    BY <2>1, <2>2 DEF Live, Guarded
  <2>6. a = attempt[d] /\ Accounted(d)
    BY <2>5 DEF IInv, LiveIsAccounted
  <2>7. CASE d = c
    BY <2>1, <2>4, <2>5, <2>6, <2>7 DEF Accounted, Sent
  <2>8. CASE d # c
    BY <2>1, <2>2, <2>3, <2>6, <2>8 DEF Accounted
  <2> QED
    BY <2>7, <2>8
<1>9. ASSUME NEW c \in Calls, ReplyUnreadable(c)
      PROVE  LiveIsAccounted'
  BY <1>9, CallKeyType, KeysStay, EngineAssumption
  DEF IInv, TypeOK, Attempts,
                                                         Transmissions, Goto,
                                                         LiveIsAccounted, Accounted,
                                                         Guarded, Live, Sent, Window,
                                                         SentInOrder, NoResultYet,
                                                         AtAttempt, ReplyUnreadable,
                                                         Raise, LoseTrackOf
<1>10. ASSUME NEW c \in Calls, TransportError(c)
      PROVE  LiveIsAccounted'
  <2>1. UNCHANGED tx /\ UNCHANGED executed
    BY <1>10 DEF TransportError
  <2>2. \A d \in Calls : CallKey(d)' = CallKey(d)
    BY <1>10, KeysStay DEF TransportError
  <2>3. \A d \in Calls \ {c} :
          pc'[d] = pc[d] /\ result'[d] = result[d] /\ attempt'[d] = attempt[d]
    BY <1>10 DEF IInv, TypeOK, TransportError, Raise, Goto
  <2>4. /\ doubt \subseteq doubt'
        /\ Live(Sent(c)) /\ CallKey(c) # NoKey => CallKey(c) \in doubt'
    BY <1>10, CallKeyType DEF IInv, TransportError, LoseTrackOf
  <2> SUFFICES ASSUME NEW d \in Calls, NEW a \in Attempts, Live(<<d, a>>)', Guarded(d)'
               PROVE  (a = attempt[d] /\ Accounted(d))'
    BY DEF LiveIsAccounted
  <2>5. Live(<<d, a>>) /\ Guarded(d)
    BY <2>1, <2>2, <2>4 DEF Live, Guarded
  <2>6. a = attempt[d] /\ Accounted(d)
    BY <2>5 DEF IInv, LiveIsAccounted
  <2>7. d # c
    BY <2>2, <2>4, <2>5, <2>6 DEF Guarded, Sent
  <2> QED
    BY <2>1, <2>2, <2>3, <2>6, <2>7 DEF Accounted
<1>11. ASSUME NEW x \in Transmissions, ExchangeAccepts(x) \/ ExchangeRefuses(x)
      PROVE  LiveIsAccounted'
  BY <1>11, KeysStay, EngineAssumption
  DEF IInv, TypeOK, Attempts, Transmissions,
                                             Goto, LiveIsAccounted, Accounted,
                                             Guarded, Live, Sent, Window, SentInOrder,
                                             NoResultYet, AtAttempt, ExchangeAccepts,
                                             ExchangeRefuses, code
<1>12. CASE Restart
  BY <1>12, CallKeyType, KeysStay, EngineAssumption
  DEF IInv, TypeOK, Attempts,
                                                          Transmissions, Goto,
                                                          LiveIsAccounted, Accounted,
                                                          Guarded, Live, Sent, Window,
                                                          SentInOrder, NoResultYet,
                                                          AtAttempt, Restart, Running
<1>13. CASE UNCHANGED vars
  BY <1>13, KeysStay, EngineAssumption
  DEF IInv, TypeOK, Attempts, Transmissions,
                                             Goto, LiveIsAccounted, Accounted,
                                             Guarded, Live, Sent, Window, SentInOrder,
                                             NoResultYet, AtAttempt, vars
<1> QED
  BY <1>1, <1>2, <1>3, <1>4, <1>5, <1>6, <1>7, <1>8, <1>9, <1>10, <1>11, <1>12, <1>13
  DEF Next, Advance

(* No guarded key comes to have a second live order. *)
LEMMA OneLiveStep ==
  ASSUME IInv, [Next]_vars
  PROVE  OneLivePerKey'
<1> TypeOK'
  BY TypeStep DEF IInv
<1>1. ASSUME NEW c \in Calls, NEW r \in Requests, Call(c, r)
      PROVE  OneLivePerKey'
  <2>1. \A d \in Calls \ {c} : CallKey(d)' = CallKey(d)
    BY <1>1 DEF Call, CallKey
  <2>2. \A x \in Transmissions : Live(x) => x[1] \in Calls \ {c}
    BY <1>1 DEF IInv, SentInOrder, Call, Live, Transmissions
  <2>3. UNCHANGED tx /\ UNCHANGED doubt
    BY <1>1 DEF Call
  <2> QED
    BY <2>1, <2>2, <2>3 DEF IInv, OneLivePerKey, Live, Guarded
<1>2. ASSUME NEW c \in Calls, Skip(c)
      PROVE  OneLivePerKey'
  BY <1>2, KeysStay, EngineAssumption
  DEF IInv, TypeOK, Attempts, Transmissions,
                                            Goto, OneLivePerKey, LiveIsAccounted,
                                            Accounted, Guarded, Live, Sent, Window,
                                            OneInWindow, WindowIsUnrecorded, Skip
<1>3. ASSUME NEW c \in Calls, Pass(c)
      PROVE  OneLivePerKey'
  BY <1>3, CallKeyType, KeysStay, EngineAssumption
  DEF IInv, TypeOK, Attempts,
                                                         Transmissions, Goto,
                                                         OneLivePerKey,
                                                         LiveIsAccounted, Accounted,
                                                         Guarded, Live, Sent, Window,
                                                         OneInWindow,
                                                         WindowIsUnrecorded, Pass
<1>4. ASSUME NEW c \in Calls, RefuseMode(c) \/ ExecuteSimulated(c)
      PROVE  OneLivePerKey'
  BY <1>4, KeysStay, EngineAssumption
  DEF IInv, TypeOK, Attempts, Transmissions,
                                            Goto, OneLivePerKey, LiveIsAccounted,
                                            Accounted, Guarded, Live, Sent, Window,
                                            OneInWindow, WindowIsUnrecorded,
                                            RefuseMode, ExecuteSimulated, Yield, Raise
<1>5. ASSUME NEW c \in Calls, Record(c)
      PROVE  OneLivePerKey'
  BY <1>5, CallKeyType, KeysStay, EngineAssumption
  DEF IInv, TypeOK, Attempts,
                                                         Transmissions, Goto,
                                                         OneLivePerKey,
                                                         LiveIsAccounted, Accounted,
                                                         Guarded, Live, Sent, Window,
                                                         OneInWindow,
                                                         WindowIsUnrecorded, Record
<1>6. ASSUME NEW c \in Calls,
             ExecuteStub(c) \/ NoLivePath(c) \/ GateClosed(c) \/ GateOpen(c)
      PROVE  OneLivePerKey'
  BY <1>6, KeysStay, EngineAssumption
  DEF IInv, TypeOK, Attempts, Transmissions,
                                            Goto, OneLivePerKey, LiveIsAccounted,
                                            Accounted, Guarded, Live, Sent, Window,
                                            OneInWindow, WindowIsUnrecorded,
                                            ExecuteStub, NoLivePath, GateClosed,
                                            GateOpen, IsLiveOn, Yield, Raise
<1>7. ASSUME NEW c \in Calls, Send(c)
      PROVE  OneLivePerKey'
  <2>1. UNCHANGED doubt /\ \A d \in Calls : CallKey(d)' = CallKey(d)
    BY <1>7, KeysStay DEF Send
  <2>2. \A y \in Transmissions : Live(y)' /\ y # Sent(c) => Live(y)
    BY <1>7 DEF IInv, TypeOK, Send, Live, Sent
  <2>3. ASSUME NEW y \in Transmissions, Live(y), CallKey(y[1]) = CallKey(c), Guarded(c)
        PROVE  FALSE
    <3>1. PICK d \in Calls, a \in Attempts : y = <<d, a>>
      BY DEF Transmissions
    <3>2. Accounted(d)
      BY <2>3, <3>1 DEF IInv, LiveIsAccounted, Guarded
    <3>3. pc[c] = "send" /\ CallKey(d) = CallKey(c)
      BY <1>7, <2>3, <3>1 DEF Send
    <3> QED
      BY <2>3, <3>2, <3>3
      DEF IInv, Accounted, Guarded, Window, OneInWindow, WindowIsUnrecorded
  <2> SUFFICES ASSUME NEW x \in Transmissions, NEW y \in Transmissions, Live(x)', Live(y)',
                      x # y, CallKey(x[1])' = CallKey(y[1])', Guarded(x[1])'
               PROVE  FALSE
    BY DEF OneLivePerKey
  <2>4. x[1] \in Calls /\ y[1] \in Calls /\ Sent(c)[1] = c
    BY DEF Transmissions, Sent
  <2>5. CallKey(x[1]) = CallKey(y[1]) /\ Guarded(x[1]) /\ Guarded(y[1])
    BY <2>1, <2>4 DEF Guarded
  <2>6. CASE x = Sent(c)
    BY <2>2, <2>3, <2>4, <2>5, <2>6
  <2>7. CASE y = Sent(c)
    BY <2>2, <2>3, <2>4, <2>5, <2>7
  <2>8. CASE x # Sent(c) /\ y # Sent(c)
    BY <2>2, <2>5, <2>8 DEF IInv, OneLivePerKey
  <2> QED
    BY <2>6, <2>7, <2>8
<1>8. ASSUME NEW c \in Calls, ReplyAccepted(c) \/ ReplyRefused(c) \/ ReplyUncoded(c)
      PROVE  OneLivePerKey'
  BY <1>8, KeysStay, EngineAssumption
  DEF IInv, TypeOK, Attempts, Transmissions,
                                            Goto, OneLivePerKey, LiveIsAccounted,
                                            Accounted, Guarded, Live, Sent, Window,
                                            OneInWindow, WindowIsUnrecorded,
                                            ReplyAccepted, ReplyRefused, ReplyUncoded,
                                            Yield, Raise
<1>9. ASSUME NEW c \in Calls, ReplyUnreadable(c)
      PROVE  OneLivePerKey'
  <2>1. tx' = tx /\ doubt \subseteq doubt' /\ \A d \in Calls : CallKey(d)' = CallKey(d)
    BY <1>9, KeysStay DEF ReplyUnreadable, LoseTrackOf
  <2>2. QED
    BY <2>1, LiveStaysSingle DEF IInv
<1>10. ASSUME NEW c \in Calls, TransportError(c)
      PROVE  OneLivePerKey'
  BY <1>10, CallKeyType, KeysStay, EngineAssumption
  DEF IInv, TypeOK, Attempts,
                                                          Transmissions, Goto,
                                                          OneLivePerKey,
                                                          LiveIsAccounted, Accounted,
                                                          Guarded, Live, Sent, Window,
                                                          OneInWindow,
                                                          WindowIsUnrecorded,
                                                          TransportError, Raise,
                                                          LoseTrackOf
<1>11. ASSUME NEW x \in Transmissions, ExchangeAccepts(x) \/ ExchangeRefuses(x)
      PROVE  OneLivePerKey'
  BY <1>11, KeysStay, EngineAssumption
  DEF IInv, TypeOK, Attempts, Transmissions,
                                             Goto, OneLivePerKey, LiveIsAccounted,
                                             Accounted, Guarded, Live, Sent, Window,
                                             OneInWindow, WindowIsUnrecorded,
                                             ExchangeAccepts, ExchangeRefuses, code
<1>12. CASE Restart
  BY <1>12, CallKeyType, KeysStay, EngineAssumption
  DEF IInv, TypeOK, Attempts,
                                                          Transmissions, Goto,
                                                          OneLivePerKey,
                                                          LiveIsAccounted, Accounted,
                                                          Guarded, Live, Sent, Window,
                                                          OneInWindow,
                                                          WindowIsUnrecorded, Restart,
                                                          Running
<1>13. CASE UNCHANGED vars
  BY <1>13, KeysStay, EngineAssumption
  DEF IInv, TypeOK, Attempts, Transmissions,
                                             Goto, OneLivePerKey, LiveIsAccounted,
                                             Accounted, Guarded, Live, Sent, Window,
                                             OneInWindow, WindowIsUnrecorded, vars
<1> QED
  BY <1>1, <1>2, <1>3, <1>4, <1>5, <1>6, <1>7, <1>8, <1>9, <1>10, <1>11, <1>12, <1>13
  DEF Next, Advance

(* The inductive invariant holds in every reachable state: it holds at the *)
(* start, and every step of a call, the exchange or the process keeps it.  *)
THEOREM InductiveInvariant == Spec => []IInv
<1>1. Init => IInv
  <2> SUFFICES ASSUME Init PROVE IInv
    OBVIOUS
  <2>1. TypeOK
    BY EngineAssumption DEF Init, TypeOK, Running, Ended, Window
  <2> QED
    BY <2>1 DEF Init, IInv, Requested, AtAttempt, GatePassed, NoResultYet, SentInOrder,
       OneInWindow, WindowIsUnrecorded, LiveIsAccounted, OneLivePerKey,
       ReportMatchesExchange, Transmissions, Live, Window
<1>2. IInv /\ [Next]_vars => IInv'
  BY TypeStep, ProgressStep, SentStep, WindowStep, AccountStep, OneLiveStep DEF IInv
<1> QED
  BY <1>1, <1>2, PTL DEF Spec

(* At most one order per key: the exchange never holds two orders of one   *)
(* idempotency key, however the calls interleave, are repeated or fail,    *)
(* unless the key is in doubt.                                             *)
THEOREM AtMostOnce == Spec => []AtMostOncePerKey
<1>1. IInv => AtMostOncePerKey
  BY DEF IInv, OneLivePerKey, AtMostOncePerKey, Accepted, Live, Guarded
<1> QED
  BY <1>1, InductiveInvariant, PTL

(* No order the exchange holds under a key not in doubt goes unreported.   *)
THEOREM HeldOrdersAreReported == Spec => []HeldOrderIsReported
<1>1. IInv => HeldOrderIsReported
  <2> SUFFICES ASSUME IInv, NEW x \in Accepted, pc[x[1]] \in Ended, Guarded(x[1])
               PROVE  result[x[1]] = "live_dispatched" /\ x = Sent(x[1])
    BY DEF HeldOrderIsReported, Guarded
  <2>1. PICK c \in Calls, a \in Attempts : x = <<c, a>>
    BY DEF Accepted, Transmissions
  <2>2. a = attempt[c] /\ Accounted(c)
    BY <2>1 DEF IInv, LiveIsAccounted, Live, Accepted
  <2> QED
    BY <2>1, <2>2 DEF Accounted, Ended, Sent
<1> QED
  BY <1>1, InductiveInvariant, PTL

(* What a call reports is what the exchange did with its last attempt.     *)
THEOREM ReportsAreTrue == Spec => []ReportMatchesExchange
<1>1. IInv => ReportMatchesExchange
  BY DEF IInv
<1> QED
  BY <1>1, InductiveInvariant, PTL

(* A request goes out only from a process that may trade.                  *)
THEOREM RealOrdersNeedTheSetting == Spec => RealOrdersOnlyWhenEnabled
<1> DEFINE A == \A x \in Transmissions :
                  tx[x] = "unsent" /\ tx'[x] # "unsent" => realTrading
<1>1. IInv /\ [Next]_vars => A
  <2> SUFFICES ASSUME IInv, [Next]_vars, NEW x \in Transmissions,
                      tx[x] = "unsent", tx'[x] # "unsent"
               PROVE  realTrading
    OBVIOUS
  <2>1. ASSUME NEW c \in Calls, Send(c)
        PROVE  realTrading
    BY <2>1 DEF IInv, GatePassed, Send
  <2>2. ASSUME NEW y \in Transmissions, ExchangeAccepts(y) \/ ExchangeRefuses(y)
        PROVE  FALSE
    BY <2>2 DEF IInv, TypeOK, ExchangeAccepts, ExchangeRefuses
  <2>3. tx' = tx \/ (\E c \in Calls : Send(c))
          \/ \E y \in Transmissions : ExchangeAccepts(y) \/ ExchangeRefuses(y)
    BY DEF Next, Advance, Call, Skip, Pass, RefuseMode, ExecuteSimulated, Record, ExecuteStub,
       NoLivePath, GateClosed, GateOpen, ReplyAccepted, ReplyRefused, ReplyUncoded,
       ReplyUnreadable, TransportError, Restart, vars
  <2> QED
    BY <2>1, <2>2, <2>3
<1> QED
  BY <1>1, InductiveInvariant, PTL DEF Spec, RealOrdersOnlyWhenEnabled

-----------------------------------------------------------------------------
(* The refinement.  Under the mapping, a step of the engine is a step of   *)
(* DispatchGuard or leaves its variables as they are.                      *)

(* A step that moves call c moves the phase of no other call. *)
LEMMA PhaseMoves ==
  ASSUME TypeOK, NEW c \in Calls, NEW there, Goto(c, there)
  PROVE  /\ \A d \in Calls \ {c} : PhaseOf(d)' = PhaseOf(d)
         /\ pc'[c] = there
BY DEF TypeOK, Goto, PhaseOf

(* The orders the guard sees depend on the transmissions alone. *)
LEMMA SameAccepted ==
  ASSUME UNCHANGED tx
  PROVE  UNCHANGED Accepted
BY DEF Accepted

(* A step within the window is invisible to the guard, or is a failure. *)
LEMMA WithinWindow ==
  ASSUME TypeOK, NEW c \in Calls, pc[c] \in Window,
         NEW there \in Window \cup {"raised"}, Goto(c, there),
         UNCHANGED executed, UNCHANGED request, UNCHANGED restarts, UNCHANGED Accepted
  PROVE  Guard!Fail(c) \/ UNCHANGED Guard!vars
<1>1. PhaseOf(c) = "running"
  BY DEF PhaseOf, Window
<1>2. PhaseOf(c)' = IF there = "raised" THEN "failed" ELSE "running"
  BY PhaseMoves DEF PhaseOf, Window
<1>3. \A d \in Calls \ {c} : PhaseOf(d)' = PhaseOf(d)
  BY PhaseMoves
<1>4. \A d \in Calls : CallKey(d)' = CallKey(d)
  BY KeysStay
<1> QED
  BY <1>1, <1>2, <1>3, <1>4 DEF Guard!Fail, Guard!vars

(* Every step of the engine is a step of the guard, or none that it sees. *)
LEMMA GuardStep ==
  ASSUME IInv, [Next]_vars
  PROVE  Guard!Next \/ UNCHANGED Guard!vars
<1> TypeOK
  BY DEF IInv
<1>1. ASSUME NEW c \in Calls, NEW r \in Requests, Call(c, r)
      PROVE  Guard!Take(c, RequestKey(r)) /\ RequestKey(r) \in Keys \cup {NoKey}
  <2>1. RequestKey(r) \in Keys \cup {NoKey}
    BY DEF RequestKey, Keys
  <2>2. PhaseOf(c) = "waiting" /\ PhaseOf(c)' = "checking"
    BY <1>1, PhaseMoves DEF Call, PhaseOf, Window
  <2>3. \A d \in Calls \ {c} : PhaseOf(d)' = PhaseOf(d) /\ CallKey(d)' = CallKey(d)
    BY <1>1, PhaseMoves DEF Call, CallKey
  <2>4. CallKey(c)' = RequestKey(r)
    BY <1>1, EngineAssumption DEF Call, CallKey, TypeOK
  <2>5. UNCHANGED executed /\ UNCHANGED Accepted /\ UNCHANGED restarts
    BY <1>1, SameAccepted DEF Call
  <2> QED
    BY <2>1, <2>2, <2>3, <2>4, <2>5 DEF Guard!Take
<1>2. ASSUME NEW c \in Calls, Skip(c)
      PROVE  Guard!Skip(c)
  <2>1. PhaseOf(c) = "checking" /\ PhaseOf(c)' = "skipped"
    BY <1>2, PhaseMoves DEF Skip, PhaseOf, Window
  <2>2. \A d \in Calls \ {c} : PhaseOf(d)' = PhaseOf(d)
    BY <1>2, PhaseMoves DEF Skip
  <2>3. /\ \A d \in Calls : CallKey(d)' = CallKey(d)
        /\ UNCHANGED executed /\ UNCHANGED Accepted /\ UNCHANGED restarts
    BY <1>2, SameAccepted, KeysStay DEF Skip
  <2> QED
    BY <1>2, <2>1, <2>2, <2>3 DEF Guard!Skip, Skip
<1>3. ASSUME NEW c \in Calls, Pass(c)
      PROVE  Guard!Start(c)
  <2>1. PhaseOf(c) = "checking" /\ PhaseOf(c)' = "running"
    BY <1>3, PhaseMoves DEF Pass, PhaseOf, Window
  <2>2. \A d \in Calls \ {c} : PhaseOf(d)' = PhaseOf(d)
    BY <1>3, PhaseMoves DEF Pass
  <2>3. /\ \A d \in Calls : CallKey(d)' = CallKey(d)
        /\ UNCHANGED executed /\ UNCHANGED Accepted /\ UNCHANGED restarts
    BY <1>3, SameAccepted, KeysStay DEF Pass
  <2> QED
    BY <1>3, <2>1, <2>2, <2>3 DEF Guard!Start, Pass
<1>4. ASSUME NEW c \in Calls,
             \/ RefuseMode(c) \/ ExecuteSimulated(c) \/ ExecuteStub(c) \/ NoLivePath(c)
             \/ GateClosed(c) \/ GateOpen(c) \/ ReplyAccepted(c) \/ ReplyRefused(c)
             \/ ReplyUncoded(c) \/ ReplyUnreadable(c) \/ TransportError(c)
      PROVE  Guard!Fail(c) \/ UNCHANGED Guard!vars
  <2>1. /\ UNCHANGED executed /\ UNCHANGED request /\ UNCHANGED restarts
        /\ UNCHANGED Accepted
    BY <1>4, SameAccepted
    DEF RefuseMode, ExecuteSimulated, ExecuteStub, NoLivePath, GateClosed, GateOpen,
        ReplyAccepted, ReplyRefused, ReplyUncoded, ReplyUnreadable, TransportError
  <2>2. pc[c] \in Window /\ \E there \in Window \cup {"raised"} : Goto(c, there)
    BY <1>4
    DEF RefuseMode, ExecuteSimulated, ExecuteStub, NoLivePath, GateClosed, GateOpen, IsLiveOn,
        ReplyAccepted, ReplyRefused, ReplyUncoded, ReplyUnreadable, TransportError,
        Yield, Raise, Window
  <2> QED
    BY <2>1, <2>2, WithinWindow
<1>5. ASSUME NEW c \in Calls, Send(c)
      PROVE  Guard!Fail(c) \/ UNCHANGED Guard!vars
  <2>1. UNCHANGED Accepted
    BY <1>5 DEF IInv, SentInOrder, AtAttempt, TypeOK, Send, Accepted, Transmissions, Attempts
  <2> QED
    BY <1>5, <2>1, WithinWindow DEF Send, Window
<1>6. ASSUME NEW c \in Calls, Record(c)
      PROVE  Guard!Finish(c)
  <2>1. PhaseOf(c) = "running" /\ PhaseOf(c)' = "done"
    BY <1>6, PhaseMoves DEF Record, PhaseOf, Window
  <2>2. \A d \in Calls \ {c} : PhaseOf(d)' = PhaseOf(d)
    BY <1>6, PhaseMoves DEF Record
  <2>3. /\ \A d \in Calls : CallKey(d)' = CallKey(d)
        /\ UNCHANGED Accepted /\ UNCHANGED restarts
    BY <1>6, SameAccepted, KeysStay DEF Record
  <2> QED
    BY <1>6, <2>1, <2>2, <2>3 DEF Guard!Finish, Record
<1>7. ASSUME NEW x \in Transmissions, ExchangeAccepts(x)
      PROVE  \E c \in Calls, a \in Attempts : Guard!Place(c, a)
  <2>1. PICK c \in Calls, a \in Attempts : x = <<c, a>>
    BY DEF Transmissions
  <2>2. Accepted' = Accepted \cup {x} /\ x \notin Accepted
    BY <1>7 DEF ExchangeAccepts, Accepted, TypeOK
  <2>3. pc[c] \notin {"idle", "check", "skipped"}
    BY <1>7, <2>1 DEF ExchangeAccepts, IInv, SentInOrder
  <2>4. PhaseOf(c) \in {"running", "failed", "done", "killed"}
    BY <2>3 DEF PhaseOf, TypeOK, Running, Ended, Window
  <2>5. /\ \A d \in Calls : PhaseOf(d)' = PhaseOf(d) /\ CallKey(d)' = CallKey(d)
        /\ UNCHANGED executed /\ UNCHANGED restarts
    BY <1>7, KeysStay DEF ExchangeAccepts, code, PhaseOf
  <2> QED
    BY <2>1, <2>2, <2>4, <2>5 DEF Guard!Place
<1>8. ASSUME NEW x \in Transmissions, ExchangeRefuses(x)
      PROVE  UNCHANGED Guard!vars
  <2>1. UNCHANGED Accepted
    BY <1>8 DEF ExchangeRefuses, Accepted, TypeOK
  <2>2. /\ \A d \in Calls : PhaseOf(d)' = PhaseOf(d) /\ CallKey(d)' = CallKey(d)
        /\ UNCHANGED executed /\ UNCHANGED restarts
    BY <1>8, KeysStay DEF ExchangeRefuses, code, PhaseOf
  <2> QED
    BY <2>1, <2>2 DEF Guard!vars
<1>9. CASE Restart
  <2>1. \A d \in Calls : PhaseOf(d)' = IF PhaseOf(d) \in {"checking", "running"}
                                       THEN "killed" ELSE PhaseOf(d)
    BY <1>9 DEF Restart, PhaseOf, TypeOK, Running, Ended, Window
  <2>2. (\A d \in Calls : CallKey(d)' = CallKey(d)) /\ UNCHANGED Accepted
    BY <1>9, KeysStay, SameAccepted DEF Restart
  <2> QED
    BY <1>9, <2>1, <2>2 DEF Guard!Next, Guard!Restart, Guard!Active, Restart
<1>10. CASE UNCHANGED vars
  BY <1>10, KeysStay, SameAccepted DEF vars, Guard!vars, PhaseOf
<1> QED
  BY <1>1, <1>2, <1>3, <1>4, <1>5, <1>6, <1>7, <1>8, <1>9, <1>10
  DEF Next, Advance, Guard!Next

(* The engine, with its modes, attempts and lost answers, keeps the promise*)
(* of DispatchGuard.                                                       *)
THEOREM EngineImplementsGuard == Spec => ImplementsDispatchGuard
<1>1. Init => Guard!Init
  <2> SUFFICES ASSUME Init PROVE Guard!Init
    OBVIOUS
  <2>1. \A c \in Calls : PhaseOf(c) = "waiting" /\ CallKey(c) = NoKey
    <3>1. \A c \in Calls : pc[c] = "idle" /\ request[c] = NoRequest
      BY DEF Init
    <3> QED
      BY <3>1 DEF PhaseOf, CallKey, Window
  <2>2. Accepted = {}
    BY DEF Init, Accepted
  <2> QED
    BY <2>1, <2>2 DEF Init, Guard!Init
<1>2. IInv /\ [Next]_vars => Guard!Next \/ UNCHANGED Guard!vars
  BY GuardStep
<1> QED
  BY <1>1, <1>2, InductiveInvariant, PTL DEF Spec, ImplementsDispatchGuard, Guard!Spec

(* What is proved of the promise, of the engine's variables. *)
Kept == INSTANCE DispatchGuardProofs WITH
  OrderSlots <- Attempts,
  recorded <- executed,
  phase <- [c \in Calls |-> PhaseOf(c)],
  key <- [c \in Calls |-> CallKey(c)],
  placed <- Accepted

(* The engine's run as a run of the promise.                               *)
LEMMA PromiseIsKept == Spec => Kept!Spec
<1>1. Guard!Init => Kept!Init
  BY DEF Guard!Init, Kept!Init
<1>2. [Guard!Next]_Guard!vars => [Kept!Next]_Kept!vars
  <2>1. ASSUME NEW c \in Calls
        PROVE  /\ \A k : Guard!Take(c, k) => Kept!Take(c, k)
               /\ Guard!Skip(c) => Kept!Skip(c)
               /\ Guard!Start(c) => Kept!Start(c)
               /\ \A n : Guard!Place(c, n) => Kept!Place(c, n)
               /\ Guard!Finish(c) => Kept!Finish(c)
               /\ Guard!Fail(c) => Kept!Fail(c)
    BY DEF Guard!Take, Kept!Take, Guard!Skip, Kept!Skip, Guard!Start, Kept!Start,
           Guard!Place, Kept!Place, Guard!Finish, Kept!Finish, Guard!Fail, Kept!Fail
  <2>2. Guard!Restart => Kept!Restart
    BY DEF Guard!Restart, Kept!Restart, Guard!Active, Kept!Active
  <2> QED
    BY <2>1, <2>2 DEF Guard!Next, Kept!Next, Guard!vars, Kept!vars
<1> QED
  BY <1>1, <1>2, EngineImplementsGuard, PTL
  DEF ImplementsDispatchGuard, Guard!Spec, Kept!Spec

(* Only calls of execute_order_for_account that returned record their key. *)
THEOREM EngineRecordsByReturn == Spec => []RecordedByReturn
<1>1. Kept!RecordedByReturn => RecordedByReturn
  BY DEF Kept!RecordedByReturn, RecordedByReturn, Guard!RecordedByReturn
<1> QED
  BY <1>1, PromiseIsKept, Kept!OnlyReturnsRecord, PTL

(* A skip of execute_order_for_account stands for another call with the    *)
(* same key that returned, and has no order at the exchange.               *)
THEOREM EngineSkipsAreBacked == Spec => []SkipIsBacked
<1>1. Kept!SkipIsBacked => SkipIsBacked
  BY DEF Kept!SkipIsBacked, SkipIsBacked, Guard!SkipIsBacked
<1> QED
  BY <1>1, PromiseIsKept, Kept!SkipsAreBacked, PTL
=============================================================================
