------------------------------ MODULE Freshness ------------------------------
(***************************************************************************)
(* The age of the messages of one call.  Every message carries the time at *)
(* which it was made, and the receiver refuses one that is more than five  *)
(* minutes old.  Both machines use their own clocks, so this is also a     *)
(* bound on the difference of the clocks.                                  *)
(*                                                                         *)
(* Time is counted on the server's clock from the registration of the      *)
(* call, in units that the constants choose; the five seconds that the     *)
(* sending of the request may take are below the unit.  The timers of Go   *)
(* are taken to fire on time.                                              *)
(***************************************************************************)
EXTENDS Integers

CONSTANTS
  Window,            \* age at which a message is refused (5 minutes)
  RequestTimeout,    \* of cleanupExpiredRequests (2 minutes)
  CleanupPeriod,     \* of the ticker in cleanupRoutine (30 seconds)
  ResponseTimeout,   \* the handler's own timer for an answer (10 minutes)
  StreamTimeout,     \* and for a stream (15 minutes)
  Grain,             \* of a timestamp (a whole second in EncryptAndCompress)
  Skews              \* what the client's clock may be ahead of the server's

ASSUME TimesAssumption ==
  /\ Window \in Nat /\ RequestTimeout \in Nat /\ CleanupPeriod \in Nat
  /\ ResponseTimeout \in Nat /\ StreamTimeout \in Nat
  /\ Grain \in Nat \ {0}
  /\ Skews \subseteq Int

VARIABLES
  call,       \* "none", "live": in the requests map, "over"
  stream, skew,
  now,
  due,        \* time until cleanupRoutine's next tick
  stuck,      \* cleanupRoutine waits for a lock for ever
  request,    \* [at |-> where the request is, stamp |-> its time]
  answer,     \* the same for an answer, or a piece of one
  refused,    \* a message was refused although the call was live
  timedOut    \* the call was ended by the handler's own timer

vars == <<call, stream, skew, now, due, stuck, request, answer, refused, timedOut>>

Places == {"none", "sent", "accepted", "open"}

TypeOK ==
  /\ call \in {"none", "live", "over"}
  /\ stream \in BOOLEAN /\ skew \in Int
  /\ now \in Nat /\ due \in Nat /\ stuck \in BOOLEAN
  /\ request \in [at : Places, stamp : Int]
  /\ answer \in [at : Places, stamp : Int]
  /\ refused \in BOOLEAN /\ timedOut \in BOOLEAN

Nowhere == [at |-> "none", stamp |-> 0]

Init ==
  /\ call = "none" /\ stream = FALSE /\ skew = 0
  /\ now = 0 /\ due = 0 /\ stuck = FALSE
  /\ request = Nowhere /\ answer = Nowhere
  /\ refused = FALSE /\ timedOut = FALSE

(* What a clock that shows t may be written as.                            *)
Stamps(t) == (t - Grain + 1) .. t

(* Mutant: MessageTimeout, thirty seconds, is used.                        *)
FreshForMessageTimeout(clock, m) == clock - m.stamp <= CleanupPeriod

(* A time in the future is never refused.                                  *)
Fresh(clock, m) == clock - m.stamp <= Window

OwnTimeout == IF stream THEN StreamTimeout ELSE ResponseTimeout

(* EncryptAndCompress, NewMessage and RegisterRequest.                     *)
RegisterRequest ==
  /\ call = "none" /\ call' = "live"
  /\ stream' \in BOOLEAN
  /\ skew' \in Skews
  /\ due' \in 0 .. CleanupPeriod
  /\ \E s \in Stamps(now) : request' = [at |-> "sent", stamp |-> s]
  /\ UNCHANGED <<now, stuck, answer, refused, timedOut>>

(* No timer that should have fired is passed over.                         *)
Tick ==
  /\ call = "live"
  /\ stuck \/ due > 0
  /\ now < OwnTimeout
  /\ now' = now + 1
  /\ due' = IF stuck THEN due ELSE due - 1
  /\ UNCHANGED <<call, stream, skew, stuck, request, answer, refused, timedOut>>

(* Mutant: a stream is left to the handler's own timer.                    *)
CleanupSparesStreams ==
  /\ call = "live" /\ ~stuck /\ due = 0
  /\ due' = CleanupPeriod
  /\ call' = IF now > RequestTimeout /\ ~stream THEN "over" ELSE call
  /\ UNCHANGED <<stream, skew, now, stuck, request, answer, refused, timedOut>>

(* The StartTime of a call never changes, whatever its stream has sent.    *)
CleanupExpiredRequests ==
  /\ call = "live" /\ ~stuck /\ due = 0
  /\ due' = CleanupPeriod
  /\ call' = IF now > RequestTimeout THEN "over" ELSE call
  /\ UNCHANGED <<stream, skew, now, stuck, request, answer, refused, timedOut>>

(* cleanupDeadClients, which runs on the same goroutine, waits for itself. *)
GetStuck ==
  /\ call = "live" /\ stuck' = TRUE
  /\ UNCHANGED <<call, stream, skew, now, due, request, answer, refused, timedOut>>

GiveUp ==
  /\ call = "live" /\ now >= OwnTimeout
  /\ call' = "over" /\ timedOut' = TRUE
  /\ UNCHANGED <<stream, skew, now, due, stuck, request, answer, refused>>

(* The client decrypts the request when it has a free slot for it.         *)
OpenRequest ==
  /\ call = "live" /\ request.at = "sent"
  /\ IF Fresh(now + skew, request)
       THEN request' = [request EXCEPT !.at = "open"] /\ UNCHANGED refused
       ELSE request' = [request EXCEPT !.at = "none"] /\ refused' = TRUE
  /\ UNCHANGED <<call, stream, skew, now, due, stuck, answer, timedOut>>

(* sendResponse, or sendError, with the client's time.                     *)
SendResponse ==
  /\ call = "live" /\ request.at = "open" /\ answer.at = "none"
  /\ \E s \in Stamps(now + skew) : answer' = [at |-> "sent", stamp |-> s]
  /\ request' = [request EXCEPT !.at = IF stream THEN "open" ELSE "none"]
  /\ UNCHANGED <<call, stream, skew, now, due, stuck, refused, timedOut>>

(* IsValid, in the readPump of the server.                                 *)
HandleMessage ==
  /\ call = "live" /\ answer.at = "sent"
  /\ IF Fresh(now, answer)
       THEN answer' = [answer EXCEPT !.at = "accepted"] /\ UNCHANGED refused
       ELSE answer' = [answer EXCEPT !.at = "none"] /\ refused' = TRUE
  /\ UNCHANGED <<call, stream, skew, now, due, stuck, request, timedOut>>

(* DecryptAndDecompress, in the handler: a stream skips what it cannot     *)
(* decrypt, any other call ends.                                           *)
ReceiveAnswer ==
  /\ call = "live" /\ answer.at = "accepted"
  /\ answer' = Nowhere
  /\ refused' = (refused \/ ~Fresh(now, answer))
  /\ call' = IF stream THEN call ELSE "over"
  /\ UNCHANGED <<stream, skew, now, due, stuck, request, timedOut>>

Next ==
  \/ RegisterRequest \/ Tick \/ CleanupExpiredRequests \/ GetStuck \/ GiveUp
  \/ OpenRequest \/ SendResponse \/ HandleMessage \/ ReceiveAnswer
  \/ call = "over" /\ UNCHANGED vars

Spec == Init /\ [][Next]_vars

-----------------------------------------------------------------------------
(* Properties                                                              *)

(* The difference of the clocks that the cleaner leaves room for.          *)
Tolerance == Window - RequestTimeout - CleanupPeriod - Grain + 1

(* Although requests wait for a slot of the client and answers in          *)
(* ResponseChan, no message of a live call is refused for its age if the   *)
(* clocks differ by no more than what is left of the window (message.go:   *)
(* 247, crypto.go:202): two and a half minutes.  This needs a cleaner that *)
(* runs, for it bounds the time a call has.                                *)
LiveIsFresh ==
  ~stuck /\ skew <= Tolerance /\ -skew <= Tolerance => ~refused

(* The ten and fifteen minutes that the handlers allow (handler.go:145,    *)
(* 231) never pass: the cleaner ends each call long before (server.go:     *)
(* 378), and only a cleaner that is stuck leaves it to them.               *)
OwnTimerIdle ==
  RequestTimeout + CleanupPeriod < ResponseTimeout
    /\ RequestTimeout + CleanupPeriod < StreamTimeout
  => (timedOut => stuck)

=============================================================================
