----------------------------- MODULE ClientLink -----------------------------
(***************************************************************************)
(* The client's connection to the server.  connectionManager dials when    *)
(* isConnected is false; every successful dial replaces wsConn and starts  *)
(* a readPump and a writePump.  The pumps do not belong to a connection:   *)
(* each round they take whatever wsConn holds at that moment.  A readPump  *)
(* that ends calls disconnect, which closes the current wsConn and clears  *)
(* isConnected in two steps; a writePump ends only on a failed write.      *)
(*                                                                         *)
(* Two pumps of a kind may therefore be at work on one connection.         *)
(* gorilla's WriteMessage takes no lock and panics when it notices another *)
(* writer, and two readers race for the buffer; nobody recovers a panic,   *)
(* so the process ends ("crashed").                                        *)
(*                                                                         *)
(* Start polls isConnected and gives up after 30 seconds, and main then    *)
(* exits.  The client is not stopped here (ClientWorker models Stop, which *)
(* main calls only after a successful Start).  Connections are numbered in *)
(* the order they are dialled, and pumps by the dial that started them.    *)
(***************************************************************************)
EXTENDS Naturals

CONSTANTS
  MaxDials,       \* bound: successful dials
  MaxFailures,    \* bound: consecutive failed dials counted by the model
  Interval,       \* ReconnectInterval
  MaxDelay        \* longest pause between two dials (5 minutes)

ASSUME BoundsAssumption ==
  /\ MaxDials \in Nat \ {0} /\ MaxFailures \in Nat
  /\ Interval \in Nat \ {0} /\ MaxDelay \in Nat

Sockets == 1 .. MaxDials

VARIABLES
  wsConn,         \* the current connection, 0 for nil
  sock,           \* per connection: "none", "open", "closed" (by this side)
  lost,           \* connections dropped by network or server, or whose write
                  \* side has failed (the next ping cannot be answered)
  isConnected,
  start,          \* Client.Start: "waiting", "started", "failed"
  manager,        \* connectionManager
  failures,       \* reconnectCount
  delay,          \* the pause after a failed dial, 0 otherwise
  reader, readConn,   \* readPumps, and the connection each holds (0 for none)
  writer, writeConn,  \* writePumps, likewise
  crashed         \* a pump has panicked

managerVars == <<manager, failures, delay>>
pumpVars    == <<reader, readConn, writer, writeConn>>
linkVars == <<wsConn, sock, lost, isConnected, start, managerVars, pumpVars,
              crashed>>

LinkTypeOK ==
  /\ wsConn \in 0 .. MaxDials
  /\ sock \in [Sockets -> {"none", "open", "closed"}]
  /\ lost \subseteq Sockets
  /\ isConnected \in BOOLEAN
  /\ start \in {"waiting", "started", "failed"}
  /\ manager \in {"top", "dialling", "dialled", "resting", "closing", "clearing"}
  /\ failures \in 0 .. MaxFailures
  /\ delay \in 0 .. MaxDelay
  /\ reader \in [Sockets -> {"none", "loop", "reading", "closing", "clearing", "exited"}]
  /\ readConn \in [Sockets -> 0 .. MaxDials]
  /\ writer \in [Sockets -> {"none", "select", "holding", "writing", "exited"}]
  /\ writeConn \in [Sockets -> 0 .. MaxDials]
  /\ crashed \in BOOLEAN

Unconnected ==
  /\ wsConn = 0
  /\ sock = [s \in Sockets |-> "none"]
  /\ lost = {}
  /\ isConnected = FALSE
  /\ manager = "top"
  /\ failures = 0
  /\ delay = 0
  /\ reader = [s \in Sockets |-> "none"]
  /\ readConn = [s \in Sockets |-> 0]
  /\ writer = [s \in Sockets |-> "none"]
  /\ writeConn = [s \in Sockets |-> 0]
  /\ crashed = FALSE

LinkInit == Unconnected /\ start = "waiting"

Usable(s) == sock[s] = "open" /\ s \notin lost

(* disconnect: first the connection that is current now, then the flag.    *)
CloseCurrent ==
  sock' = [s \in Sockets |-> IF s = wsConn THEN "closed" ELSE sock[s]]

-----------------------------------------------------------------------------
(* connectionManager.  It is the only one to dial, so isConnecting is      *)
(* never set when it looks.                                                *)

ManagerMoves(from, to) == manager = from /\ manager' = to

(* Mutant: the manager asks for wsConn instead of isConnected.             *)
LookAtConn ==
  /\ ManagerMoves("top", IF wsConn # 0 THEN "resting" ELSE "dialling")
  /\ delay' = 0
  /\ UNCHANGED <<wsConn, sock, lost, isConnected, start, failures, pumpVars,
                 crashed>>

Look ==
  /\ ManagerMoves("top", IF isConnected THEN "resting" ELSE "dialling")
  /\ delay' = 0
  /\ UNCHANGED <<wsConn, sock, lost, isConnected, start, failures, pumpVars,
                 crashed>>

(* Mutant: no five-minute cap.                                             *)
Uncapped(n) == n

Capped(n) == IF n > MaxDelay THEN MaxDelay ELSE n

DialFails ==
  /\ ManagerMoves("dialling", "top")
  /\ failures' = IF failures < MaxFailures THEN failures + 1 ELSE failures
  /\ delay' = Capped(failures' * Interval)
  /\ UNCHANGED <<wsConn, sock, lost, isConnected, start, pumpVars, crashed>>

(* connect up to the assignment of wsConn.                                 *)
DialSucceeds ==
  /\ wsConn < MaxDials
  /\ ManagerMoves("dialling", "dialled")
  /\ wsConn' = wsConn + 1
  /\ sock' = [sock EXCEPT ![wsConn + 1] = "open"]
  /\ UNCHANGED <<lost, isConnected, start, failures, delay, pumpVars, crashed>>

(* Mutant: the writePump is started twice.                                 *)
StartWriterTwice ==
  /\ ManagerMoves("dialled", "resting")
  /\ isConnected' = TRUE
  /\ failures' = 0
  /\ reader' = [reader EXCEPT ![wsConn] = "loop"]
  /\ writer' = [writer EXCEPT ![wsConn] = "select", ![MaxDials] = "select"]
  /\ UNCHANGED <<wsConn, sock, lost, start, delay, readConn, writeConn, crashed>>

(* The rest of connect: the flag is set, then the pumps start.             *)
StartPumps ==
  /\ ManagerMoves("dialled", "resting")
  /\ isConnected' = TRUE
  /\ failures' = 0
  /\ reader' = [reader EXCEPT ![wsConn] = "loop"]
  /\ writer' = [writer EXCEPT ![wsConn] = "select"]
  /\ UNCHANGED <<wsConn, sock, lost, start, delay, readConn, writeConn,
                 crashed>>

Rest ==
  /\ ManagerMoves("resting", "top")
  /\ UNCHANGED <<wsConn, sock, lost, isConnected, start, failures, delay,
                 pumpVars, crashed>>

(* No pong for two minutes.  The 90-second read deadline comes first,      *)
(* unless messages keep arriving meanwhile: pongs stay away when no        *)
(* writePump is left to ask for them, or the server is slow to answer.     *)
NoticeSilence ==
  /\ isConnected
  /\ ManagerMoves("resting", "closing")
  /\ UNCHANGED <<wsConn, sock, lost, isConnected, start, failures, delay,
                 pumpVars, crashed>>

ManagerCloses ==
  /\ ManagerMoves("closing", "clearing")
  /\ CloseCurrent
  /\ UNCHANGED <<wsConn, lost, isConnected, start, failures, delay, pumpVars,
                 crashed>>

ManagerClears ==
  /\ ManagerMoves("clearing", "top")
  /\ isConnected' = FALSE
  /\ UNCHANGED <<wsConn, sock, lost, start, failures, delay, pumpVars,
                 crashed>>

-----------------------------------------------------------------------------
(* readPump number r                                                       *)

ReaderMoves(r, from, to) ==
  /\ reader[r] = from
  /\ reader' = [reader EXCEPT ![r] = to]

TakeConn(r) ==
  /\ ReaderMoves(r, "loop", "reading")
  /\ readConn' = [readConn EXCEPT ![r] = wsConn]
  /\ UNCHANGED <<wsConn, sock, lost, isConnected, start, managerVars, writer,
                 writeConn, crashed>>

ReadMessage(r) ==
  /\ reader[r] = "reading" /\ Usable(readConn[r])
  /\ ReaderMoves(r, "reading", "loop")
  /\ readConn' = [readConn EXCEPT ![r] = 0]
  /\ UNCHANGED <<wsConn, sock, lost, isConnected, start, managerVars, writer,
                 writeConn, crashed>>

(* Another readPump is reading from the connection that r reads from.      *)
SharesReading(r) ==
  \E q \in Sockets \ {r} : reader[q] = "reading" /\ readConn[q] = readConn[r]

(* A closed or dropped connection fails the read, the latter when the      *)
(* 90-second deadline passes at the latest; so does a frame of which       *)
(* another readPump has taken a part.                                      *)
ReadFails(r) ==
  /\ reader[r] = "reading"
  /\ ~Usable(readConn[r]) \/ SharesReading(r)
  /\ ReaderMoves(r, "reading", "closing")
  /\ readConn' = [readConn EXCEPT ![r] = 0]
  /\ UNCHANGED <<wsConn, sock, lost, isConnected, start, managerVars, writer,
                 writeConn, crashed>>

ReaderCloses(r) ==
  /\ ReaderMoves(r, "closing", "clearing")
  /\ CloseCurrent
  /\ UNCHANGED <<wsConn, lost, isConnected, start, managerVars, readConn,
                 writer, writeConn, crashed>>

(* The race of two readers for arriving bytes may leave the buffer's       *)
(* bounds in disorder.                                                     *)
CollideReading(r) ==
  /\ reader[r] = "reading" /\ Usable(readConn[r]) /\ SharesReading(r)
  /\ crashed' = TRUE
  /\ UNCHANGED <<wsConn, sock, lost, isConnected, start, managerVars, pumpVars>>

(* Mutant: a readPump that closes the connection and leaves the flag.      *)
ReaderForgetsFlag(r) ==
  /\ ReaderMoves(r, "clearing", "exited")
  /\ UNCHANGED <<wsConn, sock, lost, isConnected, start, managerVars,
                 readConn, writer, writeConn, crashed>>

ReaderClears(r) ==
  /\ ReaderMoves(r, "clearing", "exited")
  /\ isConnected' = FALSE
  /\ UNCHANGED <<wsConn, sock, lost, start, managerVars, readConn, writer,
                 writeConn, crashed>>

-----------------------------------------------------------------------------
(* writePump number w                                                      *)

WriterMoves(w, from, to) ==
  /\ writer[w] = from
  /\ writer' = [writer EXCEPT ![w] = to]

(* A message or the 30-second ticker, then the current connection.         *)
TakeMessage(w) ==
  /\ WriterMoves(w, "select", "holding")
  /\ writeConn' = [writeConn EXCEPT ![w] = wsConn]
  /\ UNCHANGED <<wsConn, sock, lost, isConnected, start, managerVars, reader,
                 readConn, crashed>>

BeginWrite(w) ==
  /\ writer[w] = "holding" /\ sock[writeConn[w]] = "open"
  /\ WriterMoves(w, "holding", "writing")
  /\ UNCHANGED <<wsConn, sock, lost, isConnected, start, managerVars, reader,
                 readConn, writeConn, crashed>>

EndWrite(w) ==
  /\ writer[w] = "writing" /\ Usable(writeConn[w])
  /\ WriterMoves(w, "writing", "select")
  /\ writeConn' = [writeConn EXCEPT ![w] = 0]
  /\ UNCHANGED <<wsConn, sock, lost, isConnected, start, managerVars, reader,
                 readConn, crashed>>

(* Another writePump is writing to the connection that w has taken.        *)
SharesWriting(w) ==
  \E v \in Sockets \ {w} : writer[v] = "writing" /\ writeConn[v] = writeConn[w]

(* The only way out: the connection is closed when the write starts, or    *)
(* fails under it, or another writePump has begun a message of its own     *)
(* there.  Neither isConnected nor the connection is touched.              *)
WriteFails(w) ==
  /\ \/ writer[w] = "holding" /\ sock[writeConn[w]] = "closed"
     \/ writer[w] = "writing" /\ (~Usable(writeConn[w]) \/ SharesWriting(w))
  /\ WriterMoves(w, writer[w], "exited")
  /\ writeConn' = [writeConn EXCEPT ![w] = 0]
  /\ UNCHANGED <<wsConn, sock, lost, isConnected, start, managerVars, reader,
                 readConn, crashed>>

(* gorilla notices the other writer when w begins to write, or has         *)
(* written.  It may also not notice: both go on, and the server drops the  *)
(* connection if their frames have mixed.                                  *)
CollideWriting(w) ==
  /\ writer[w] \in {"holding", "writing"} /\ SharesWriting(w)
  /\ crashed' = TRUE
  /\ UNCHANGED <<wsConn, sock, lost, isConnected, start, managerVars, pumpVars>>

-----------------------------------------------------------------------------
(* Start and the environment                                               *)

(* One of Start's looks at the flag, every 100 milliseconds.               *)
StartSucceeds ==
  /\ start = "waiting" /\ isConnected
  /\ start' = "started"
  /\ UNCHANGED <<wsConn, sock, lost, isConnected, managerVars, pumpVars,
                 crashed>>

(* None of them saw it set for 30 seconds; it may have been in between.    *)
StartTimesOut ==
  /\ start = "waiting"
  /\ start' = "failed"
  /\ UNCHANGED <<wsConn, sock, lost, isConnected, managerVars, pumpVars,
                 crashed>>

Drop(s) ==
  /\ Usable(s)
  /\ lost' = lost \cup {s}
  /\ UNCHANGED <<wsConn, sock, isConnected, start, managerVars, pumpVars,
                 crashed>>

-----------------------------------------------------------------------------

Manager == Look \/ DialFails \/ DialSucceeds \/ StartPumps \/ Rest
             \/ NoticeSilence \/ ManagerCloses \/ ManagerClears

Reader(r) == TakeConn(r) \/ ReadMessage(r) \/ ReadFails(r) \/ ReaderCloses(r)
               \/ ReaderClears(r) \/ CollideReading(r)

Writer(w) == TakeMessage(w) \/ BeginWrite(w) \/ EndWrite(w) \/ WriteFails(w)
               \/ CollideWriting(w)

(* The process ends when main returns the error of Start, or in a panic.   *)
LinkAlive == start # "failed" /\ ~crashed

Run ==
  \/ Manager
  \/ StartSucceeds \/ StartTimesOut
  \/ \E s \in Sockets : Reader(s) \/ Writer(s) \/ Drop(s)

LinkNext == (LinkAlive /\ Run) \/ (~LinkAlive /\ UNCHANGED linkVars)

LinkSpec == LinkInit /\ [][LinkNext]_linkVars

(* Goroutines are scheduled and the manager wakes up from its pauses; a    *)
(* dial that is tried again and again succeeds some time.                  *)
LinkFairness ==
  /\ WF_linkVars(LinkAlive /\ (\/ Look \/ StartPumps \/ Rest
                              \/ NoticeSilence \/ ManagerCloses \/ ManagerClears))
  /\ SF_linkVars(LinkAlive /\ DialSucceeds)
  /\ \A s \in Sockets :
       WF_linkVars(LinkAlive /\ Reader(s)) /\ WF_linkVars(LinkAlive /\ Writer(s))

FairLinkSpec == LinkSpec /\ LinkFairness

-----------------------------------------------------------------------------
(* Properties                                                              *)

(* A set flag has someone to clear it: while isConnected is true a         *)
(* readPump is running or the manager itself is disconnecting, so the loss *)
(* of the current connection cannot go unnoticed, whichever pump of which  *)
(* connection called disconnect in between.                                *)
ConnectedIsWatched ==
  isConnected =>
    \/ \E r \in Sockets : reader[r] \in {"loop", "reading", "closing", "clearing"}
    \/ manager \in {"closing", "clearing"}

(* A lost connection is noticed: isConnected is cleared or one that is not *)
(* lost takes its place, unless the process ends first: in Start, or       *)
(* because two pumps met on a connection.                                  *)
LossNoticed == wsConn \in lost ~> (~isConnected \/ wsConn \notin lost \/ ~LinkAlive)

(* A disconnected client is connected again, or has used up the dials of   *)
(* the bound and is about to dial once more, with the same two exceptions: *)
(* one that Start has never seen connected may give up, and one that has   *)
(* reconnected may have crashed.                                           *)
Reconnects ==
  ~isConnected ~>
    (isConnected \/ (wsConn = MaxDials /\ manager = "dialling") \/ ~LinkAlive)

(* The pumps of one connection never bring the process down: it takes a    *)
(* connection that this side has closed and a later one, which a pump of   *)
(* the former has found in its place.                                      *)
CrashAfterReconnect ==
  crashed => wsConn > 1 /\ \E s \in Sockets : s < wsConn /\ sock[s] = "closed"

(* README.md:14: a client that is disconnected reconnects automatically.   *)
AlwaysReconnects ==
  start = "started" /\ ~isConnected ~> isConnected \/ wsConn = MaxDials

=============================================================================
