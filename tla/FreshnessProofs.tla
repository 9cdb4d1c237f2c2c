--------------------------- MODULE FreshnessProofs ---------------------------
(***************************************************************************)
(* Proofs about Freshness, for every window, timeout, period, grain and    *)
(* set of clock differences.                                               *)
(*                                                                         *)
(* Neither property is inductive: both rest on Deadline, a bound on how    *)
(* long a call lives while the cleaner runs, and the first also on Stamped,*)
(* which says how far behind its maker's clock a message may be.           *)
(***************************************************************************)
EXTENDS Freshness, TLAPS

(* The next cleaner tick finds the call early enough.                      *)
Deadline == call = "live" /\ ~stuck => now + due <= RequestTimeout + CleanupPeriod

(* The request was made when the call was, an answer not before it.        *)
Stamped ==
  /\ request.at # "none" => request.stamp + Grain > 0
  /\ answer.at # "none" => answer.stamp + Grain > skew

(* Before the call there is no message and no elapsed time.                *)
NotYet ==
  call = "none" => now = 0 /\ request = Nowhere /\ answer = Nowhere /\ ~refused

Inv == TypeOK /\ Deadline /\ Stamped /\ NotYet /\ LiveIsFresh /\ OwnTimerIdle

(* The initial state satisfies the invariant.                              *)
LEMMA InitInv == ASSUME Init PROVE Inv
<1>1. TypeOK
  <2>1. request \in [at : Places, stamp : Int] /\ answer \in [at : Places, stamp : Int]
    BY DEF Init, Nowhere, Places
  <2>2. skew \in Int /\ now \in Nat /\ due \in Nat
    BY DEF Init
  <2> QED
    BY <2>1, <2>2, Zenon DEF Init, TypeOK
<1>2. Deadline /\ Stamped /\ NotYet
  BY DEF Init, Deadline, Stamped, NotYet, Nowhere
<1>3. LiveIsFresh /\ OwnTimerIdle
  BY DEF Init, LiveIsFresh, OwnTimerIdle
<1> QED
  BY <1>1, <1>2, <1>3 DEF Inv

(* Every step keeps the types.                                             *)
LEMMA StepTypeOK == ASSUME Inv, [Next]_vars PROVE TypeOK'
<1> USE TimesAssumption DEF Inv, TypeOK, Places
<1>1. CASE RegisterRequest
  BY <1>1 DEF RegisterRequest, Stamps
<1>2. CASE Tick
  BY <1>2 DEF Tick, Deadline
<1>3. CASE CleanupExpiredRequests
  BY <1>3 DEF CleanupExpiredRequests
<1>4. CASE GetStuck
  BY <1>4 DEF GetStuck
<1>5. CASE GiveUp
  BY <1>5 DEF GiveUp
<1>6. CASE OpenRequest
  BY <1>6 DEF OpenRequest
<1>7. CASE SendResponse
  BY <1>7 DEF SendResponse, Stamps
<1>8. CASE HandleMessage
  BY <1>8 DEF HandleMessage
<1>9. CASE ReceiveAnswer
  BY <1>9 DEF ReceiveAnswer, Nowhere
<1>10. CASE UNCHANGED vars
  BY <1>10 DEF vars
<1> QED
  BY <1>1, <1>2, <1>3, <1>4, <1>5, <1>6, <1>7, <1>8, <1>9, <1>10 DEF Next

(* The first tick comes within a period of the registration.               *)
LEMMA FirstTick ==
  ASSUME NEW n, n = 0, NEW d \in 0 .. CleanupPeriod
  PROVE  n + d <= RequestTimeout + CleanupPeriod
BY TimesAssumption

(* The bound on the life of a call: the clock moves towards the next tick, *)
(* and a tick that lets the call live finds it within RequestTimeout.      *)
LEMMA StepDeadline == ASSUME Inv, [Next]_vars PROVE Deadline'
<1>1. CASE RegisterRequest
  <2>1. now' = 0
    BY <1>1 DEF RegisterRequest, Inv, NotYet
  <2>2. due' \in 0 .. CleanupPeriod
    BY <1>1 DEF RegisterRequest
  <2>3. now' + due' <= RequestTimeout + CleanupPeriod
    BY <2>1, <2>2, FirstTick
  <2> QED
    BY <2>3 DEF Deadline
<1> USE TimesAssumption DEF Inv, TypeOK, Deadline
<1>2. CASE Tick
  BY <1>2 DEF Tick
<1>3. CASE CleanupExpiredRequests
  BY <1>3 DEF CleanupExpiredRequests
<1>4. CASE GetStuck
  BY <1>4 DEF GetStuck
<1>5. CASE GiveUp
  BY <1>5 DEF GiveUp
<1>6. CASE OpenRequest \/ SendResponse \/ HandleMessage \/ ReceiveAnswer
  BY <1>6 DEF OpenRequest, SendResponse, HandleMessage, ReceiveAnswer
<1>7. CASE UNCHANGED vars
  BY <1>7 DEF vars
<1> QED
  BY <1>1, <1>2, <1>3, <1>4, <1>5, <1>6, <1>7 DEF Next

(* No stamp is further back than Grain, and nothing precedes the call.     *)
LEMMA StepStamped == ASSUME Inv, [Next]_vars PROVE Stamped' /\ NotYet'
<1> USE TimesAssumption DEF Inv, TypeOK, Places, Stamped, NotYet, Nowhere
<1>1. CASE RegisterRequest
  BY <1>1 DEF RegisterRequest, Stamps
<1>2. CASE Tick \/ CleanupExpiredRequests \/ GetStuck \/ GiveUp
  BY <1>2 DEF Tick, CleanupExpiredRequests, GetStuck, GiveUp
<1>3. CASE OpenRequest
  BY <1>3 DEF OpenRequest
<1>4. CASE SendResponse
  BY <1>4 DEF SendResponse, Stamps
<1>5. CASE HandleMessage
  BY <1>5 DEF HandleMessage
<1>6. CASE ReceiveAnswer
  BY <1>6 DEF ReceiveAnswer
<1>7. CASE UNCHANGED vars
  BY <1>7 DEF vars
<1> QED
  BY <1>1, <1>2, <1>3, <1>4, <1>5, <1>6, <1>7 DEF Next

(* A message that is looked at while the cleaner runs is young enough.     *)
LEMMA StepLiveIsFresh == ASSUME Inv, [Next]_vars PROVE LiveIsFresh'
<1> USE TimesAssumption DEF Inv, TypeOK, LiveIsFresh, Tolerance
<1>1. CASE RegisterRequest
  BY <1>1 DEF RegisterRequest, NotYet
<1>2. CASE Tick \/ CleanupExpiredRequests \/ GetStuck \/ GiveUp \/ SendResponse
  BY <1>2 DEF Tick, CleanupExpiredRequests, GetStuck, GiveUp, SendResponse
<1>3. CASE OpenRequest
  BY <1>3 DEF OpenRequest, Fresh, Deadline, Stamped
<1>4. CASE HandleMessage
  BY <1>4 DEF HandleMessage, Fresh, Deadline, Stamped
<1>5. CASE ReceiveAnswer
  BY <1>5 DEF ReceiveAnswer, Fresh, Deadline, Stamped
<1>6. CASE UNCHANGED vars
  BY <1>6 DEF vars
<1> QED
  BY <1>1, <1>2, <1>3, <1>4, <1>5, <1>6 DEF Next

(* While the cleaner runs the handler's own timer is never due.            *)
LEMMA StepOwnTimerIdle == ASSUME Inv, [Next]_vars PROVE OwnTimerIdle'
<1> USE TimesAssumption DEF Inv, TypeOK, OwnTimerIdle
<1>1. CASE GiveUp
  BY <1>1 DEF GiveUp, OwnTimeout, Deadline
<1>2. CASE RegisterRequest \/ Tick \/ CleanupExpiredRequests \/ GetStuck
  BY <1>2 DEF RegisterRequest, Tick, CleanupExpiredRequests, GetStuck
<1>3. CASE OpenRequest \/ SendResponse \/ HandleMessage \/ ReceiveAnswer
  BY <1>3 DEF OpenRequest, SendResponse, HandleMessage, ReceiveAnswer
<1>4. CASE UNCHANGED vars
  BY <1>4 DEF vars
<1> QED
  BY <1>1, <1>2, <1>3, <1>4 DEF Next

(* The invariant is one.                                                   *)
THEOREM Invariance == Spec => []Inv
<1>1. Inv /\ [Next]_vars => Inv'
  BY StepTypeOK, StepDeadline, StepStamped, StepLiveIsFresh, StepOwnTimerIdle DEF Inv
<1> QED
  BY InitInv, <1>1, PTL DEF Spec

(* For every choice of the times: as long as the cleaner runs, no message  *)
(* of a live call is refused for its age if the clocks differ by at most   *)
(* Window - RequestTimeout - CleanupPeriod, less the grain (message.go:247,*)
(* crypto.go:202).                                                         *)
THEOREM NothingLiveIsStale == Spec => []LiveIsFresh
<1>1. Inv => LiveIsFresh
  BY DEF Inv
<1> QED
  BY <1>1, Invariance, PTL

(* For every choice of the times in which the cleaner's are the shorter    *)
(* ones: the handler's own timer ends a call only if the cleaner is stuck  *)
(* (handler.go:145, 231; server.go:378).                                   *)
THEOREM CleanerComesFirst == Spec => []OwnTimerIdle
<1>1. Inv => OwnTimerIdle
  BY DEF Inv
<1> QED
  BY <1>1, Invariance, PTL

=============================================================================
