--------------------------- MODULE ClientLinkProofs ---------------------------
(***************************************************************************)
(* Proofs about ClientLink, for any number of dials, any reconnect         *)
(* interval and any longest pause.                                         *)
(*                                                                         *)
(* ConnectedIsWatched is not inductive alone: StartPumps sets the flag and *)
(* starts the readPump of the connection just dialled, so a manager about  *)
(* to start pumps must have a connection (Numbered).                       *)
(*                                                                         *)
(* CrashAfterReconnect needs the past of every connection but the last.    *)
(* Two pumps of a kind bear two numbers, so there has been a second dial;  *)
(* the manager dials again only after the flag was cleared, and whoever    *)
(* clears it has closed a connection in the step before (Retired).         *)
(***************************************************************************)
EXTENDS ClientLink, TLAPS

(* One of the first n connections has been closed by this side.            *)
ClosedBy(n) == \E s \in Sockets : s <= n /\ sock[s] = "closed"

(* Pumps belong to dials that have taken place, and whoever relies on a    *)
(* connection has one.                                                     *)
Numbered ==
  /\ \A n \in Sockets : reader[n] # "none" \/ writer[n] # "none" => n <= wsConn
  /\ isConnected \/ manager \in {"closing", "dialled"} => wsConn # 0
  /\ manager = "dialling" => ~isConnected
  /\ crashed => wsConn > 1

(* Every connection that was given up has been closed: before the flag is  *)
(* cleared, while it is, and before the next dial.                         *)
Retired ==
  /\ (manager = "clearing" \/ \E r \in Sockets : reader[r] = "clearing")
       => ClosedBy(wsConn)
  /\ ~isConnected /\ wsConn # 0 /\ manager # "dialled" => ClosedBy(wsConn)
  /\ wsConn > 1 => ClosedBy(wsConn - 1)

IInv == LinkTypeOK /\ Numbered /\ Retired /\ ConnectedIsWatched

(* The pause after the n-th failure in a row, whatever the interval.       *)
LEMMA PauseType ==
  ASSUME NEW n \in Nat
  PROVE  Capped(n * Interval) \in 0 .. MaxDelay
<1>1. n * Interval \in Nat
  BY BoundsAssumption
<1> QED
  BY <1>1, BoundsAssumption DEF Capped

(* disconnect closes a connection, and the closed ones stay closed.        *)
LEMMA Closing ==
  ASSUME IInv, CloseCurrent, UNCHANGED wsConn, wsConn # 0
  PROVE  /\ sock' \in [Sockets -> {"none", "open", "closed"}]
         /\ ClosedBy(wsConn)'
         /\ \A n \in Nat : ClosedBy(n) => ClosedBy(n)'
<1>1. /\ wsConn \in Sockets /\ sock'[wsConn] = "closed"
      /\ sock' \in [Sockets -> {"none", "open", "closed"}]
  BY BoundsAssumption DEF IInv, LinkTypeOK, CloseCurrent, Sockets
<1>2. \A s \in Sockets : sock[s] = "closed" => sock'[s] = "closed"
  BY DEF CloseCurrent
<1>3. ClosedBy(wsConn)'
  BY <1>1 DEF ClosedBy, Sockets
<1>4. \A n \in Nat : ClosedBy(n) => ClosedBy(n)'
  BY <1>2 DEF ClosedBy
<1> QED
  BY <1>1, <1>3, <1>4

-----------------------------------------------------------------------------
(* connectionManager                                                       *)

(* Its steps keep the types, and the numbers of the pumps in order.        *)
LEMMA ManagerType ==
  ASSUME IInv, Manager
  PROVE  LinkTypeOK' /\ Numbered'
<1> USE BoundsAssumption
    DEF IInv, LinkTypeOK, Numbered, ManagerMoves, pumpVars, Sockets
<1>1. CASE Look
  BY <1>1 DEF Look
<1>2. CASE DialFails
  <2>1. failures' \in Nat /\ failures' \in 0 .. MaxFailures
    BY <1>2 DEF DialFails
  <2>2. delay' \in 0 .. MaxDelay
    BY <1>2, <2>1, PauseType DEF DialFails
  <2> QED
    BY <1>2, <2>1, <2>2 DEF DialFails
<1>3. CASE DialSucceeds
  BY <1>3 DEF DialSucceeds
<1>4. CASE StartPumps
  <2>1. LinkTypeOK'
    BY <1>4 DEF StartPumps
  <2> QED
    BY <1>4, <2>1 DEF StartPumps
<1>5. CASE Rest
  BY <1>5 DEF Rest
<1>6. CASE NoticeSilence
  BY <1>6 DEF NoticeSilence
<1>7. CASE ManagerCloses
  BY <1>7 DEF ManagerCloses, CloseCurrent
<1>8. CASE ManagerClears
  BY <1>8 DEF ManagerClears
<1> QED
  BY <1>1, <1>2, <1>3, <1>4, <1>5, <1>6, <1>7, <1>8 DEF Manager

(* It sets the flag only with a new readPump, and disconnects by itself    *)
(* only until it has cleared the flag.                                     *)
LEMMA ManagerWatch ==
  ASSUME IInv, Manager
  PROVE  ConnectedIsWatched'
<1> USE DEF IInv, ConnectedIsWatched, ManagerMoves, pumpVars
<1>1. CASE StartPumps
  <2>1. wsConn \in Sockets /\ reader'[wsConn] = "loop"
    BY <1>1, BoundsAssumption DEF StartPumps, LinkTypeOK, Numbered, Sockets
  <2> QED
    BY <2>1
<1>2. CASE ~StartPumps
  BY <1>2 DEF Manager, Look, DialFails, DialSucceeds, Rest, NoticeSilence,
              ManagerCloses, ManagerClears
<1> QED
  BY <1>1, <1>2

(* It closes what it clears, and dials only when the flag is not set.      *)
LEMMA ManagerRetires ==
  ASSUME IInv, Manager
  PROVE  Retired'
<1> USE DEF IInv, Retired, ManagerMoves, pumpVars
<1>1. CASE DialSucceeds
  <2>1. wsConn \in Nat /\ wsConn' = wsConn + 1 /\ wsConn + 1 \in Sockets
    BY <1>1, BoundsAssumption DEF DialSucceeds, LinkTypeOK, Sockets
  <2>2. \A n \in Nat : n <= wsConn /\ ClosedBy(n) => ClosedBy(n)'
    BY <1>1, <2>1 DEF DialSucceeds, ClosedBy, LinkTypeOK, Sockets
  <2>3. wsConn # 0 => ClosedBy(wsConn)
    BY <1>1 DEF DialSucceeds, Numbered
  <2>4. wsConn # 0 => \E s \in Sockets : s <= wsConn /\ sock'[s] = "closed"
    BY <2>1, <2>2, <2>3 DEF ClosedBy
  <2>5. wsConn' > 1 => ClosedBy(wsConn - 1)'
    BY <2>1, <2>4 DEF ClosedBy
  <2>6. wsConn # 0 => ClosedBy(wsConn)'
    BY <2>1, <2>4 DEF ClosedBy, Sockets
  <2>7. wsConn = 0 => ~\E r \in Sockets : reader[r] = "clearing"
    BY DEF Numbered, Sockets
  <2> QED
    BY <1>1, <2>5, <2>6, <2>7 DEF DialSucceeds
<1>2. CASE ManagerCloses
  <2>1. wsConn # 0 /\ UNCHANGED wsConn /\ CloseCurrent
    BY <1>2 DEF ManagerCloses, Numbered
  <2>2. ClosedBy(wsConn)' /\ \A n \in Nat : ClosedBy(n) => ClosedBy(n)'
    BY <2>1, Closing
  <2>3. wsConn' > 1 => ClosedBy(wsConn - 1)'
    BY <2>1, <2>2, BoundsAssumption DEF LinkTypeOK, ClosedBy
  <2> QED
    BY <1>2, <2>2, <2>3 DEF ManagerCloses
<1>3. CASE Look \/ DialFails \/ StartPumps \/ Rest \/ NoticeSilence \/ ManagerClears
  <2>1. UNCHANGED <<wsConn, sock>>
    BY <1>3 DEF Look, DialFails, StartPumps, Rest, NoticeSilence, ManagerClears
  <2>2. /\ ClosedBy(wsConn) <=> ClosedBy(wsConn)'
        /\ ClosedBy(wsConn - 1) <=> ClosedBy(wsConn - 1)'
    BY <2>1 DEF ClosedBy
  <2>3. \A r \in Sockets : reader'[r] = "clearing" => reader[r] = "clearing"
    BY <1>3 DEF Look, DialFails, StartPumps, Rest, NoticeSilence, ManagerClears, LinkTypeOK
  <2> QED
    BY <1>3, <2>1, <2>2, <2>3
       DEF Look, DialFails, StartPumps, Rest, NoticeSilence, ManagerClears
<1> QED
  BY <1>1, <1>2, <1>3 DEF Manager

-----------------------------------------------------------------------------
(* The pumps, Start and the network                                        *)

(* The steps of a readPump keep the types.                                 *)
LEMMA ReaderType ==
  ASSUME IInv, NEW r \in Sockets, Reader(r)
  PROVE  LinkTypeOK'
<1> USE DEF IInv, LinkTypeOK, ReaderMoves, managerVars, pumpVars
<1>0. 0 \in 0 .. MaxDials
  BY BoundsAssumption
<1>1. CASE TakeConn(r)
  BY <1>1 DEF TakeConn
<1>2. CASE ReadMessage(r)
  BY <1>0, <1>2 DEF ReadMessage
<1>3. CASE ReadFails(r)
  BY <1>0, <1>3 DEF ReadFails
<1>4. CASE ReaderCloses(r)
  BY <1>4 DEF ReaderCloses, CloseCurrent
<1>5. CASE ReaderClears(r)
  BY <1>5 DEF ReaderClears
<1>6. CASE CollideReading(r)
  BY <1>6 DEF CollideReading
<1> QED
  BY <1>1, <1>2, <1>3, <1>4, <1>5, <1>6 DEF Reader

(* A readPump leaves its watch only by clearing the flag.                  *)
LEMMA ReaderWatch ==
  ASSUME IInv, NEW r \in Sockets, Reader(r)
  PROVE  ConnectedIsWatched'
<1>1. CASE ReaderClears(r)
  BY <1>1 DEF ReaderClears, ConnectedIsWatched
<1>2. CASE CollideReading(r)
  BY <1>2 DEF CollideReading, IInv, ConnectedIsWatched, managerVars, pumpVars
<1>3. CASE ~ReaderClears(r) /\ ~CollideReading(r)
  <2>1. /\ reader' \in [Sockets -> {"none", "loop", "reading", "closing", "clearing", "exited"}]
        /\ reader'[r] \in {"loop", "reading", "closing", "clearing"}
    BY <1>3 DEF Reader, TakeConn, ReadMessage, ReadFails, ReaderCloses, ReaderMoves,
                IInv, LinkTypeOK
  <2> QED
    BY <2>1 DEF ConnectedIsWatched
<1> QED
  BY <1>1, <1>2, <1>3

(* Two readPumps at work bear two numbers, so a second dial has been made. *)
LEMMA ReaderNumbered ==
  ASSUME IInv, NEW r \in Sockets, Reader(r)
  PROVE  Numbered'
<1> USE DEF IInv, Numbered, managerVars, pumpVars
<1>1. CASE CollideReading(r)
  <2>1. PICK q \in Sockets : q # r /\ reader[q] = "reading"
    BY <1>1 DEF CollideReading, SharesReading
  <2>2. wsConn > 1
    BY <1>1, <2>1, BoundsAssumption DEF CollideReading, LinkTypeOK, Sockets
  <2> QED
    BY <1>1, <2>2 DEF CollideReading
<1>2. CASE ~CollideReading(r)
  <2>1. UNCHANGED <<wsConn, manager, crashed, writer>> /\ (isConnected' => isConnected)
    BY <1>2 DEF Reader, TakeConn, ReadMessage, ReadFails, ReaderCloses, ReaderClears
  <2>2. \A n \in Sockets : reader'[n] # "none" => reader[n] # "none"
    BY <1>2 DEF Reader, TakeConn, ReadMessage, ReadFails, ReaderCloses, ReaderClears,
                ReaderMoves, LinkTypeOK
  <2> QED
    BY <2>1, <2>2
<1> QED
  BY <1>1, <1>2

(* A readPump closes a connection before it clears the flag.               *)
LEMMA ReaderRetires ==
  ASSUME IInv, NEW r \in Sockets, Reader(r)
  PROVE  Retired'
<1> USE DEF IInv, Retired, managerVars, pumpVars
<1>1. CASE ReaderCloses(r)
  <2>1. wsConn # 0 /\ UNCHANGED wsConn /\ CloseCurrent
    BY <1>1, BoundsAssumption DEF ReaderCloses, ReaderMoves, Numbered, LinkTypeOK, Sockets
  <2>2. ClosedBy(wsConn)' /\ \A n \in Nat : ClosedBy(n) => ClosedBy(n)'
    BY <2>1, Closing
  <2>3. wsConn' > 1 => ClosedBy(wsConn - 1)'
    BY <2>1, <2>2, BoundsAssumption DEF LinkTypeOK, ClosedBy
  <2> QED
    BY <1>1, <2>2, <2>3 DEF ReaderCloses
<1>2. CASE ~ReaderCloses(r)
  <2>1. UNCHANGED <<wsConn, sock, manager>>
    BY <1>2 DEF Reader, TakeConn, ReadMessage, ReadFails, ReaderClears, CollideReading
  <2>2. /\ ClosedBy(wsConn) <=> ClosedBy(wsConn)'
        /\ ClosedBy(wsConn - 1) <=> ClosedBy(wsConn - 1)'
    BY <2>1 DEF ClosedBy
  <2>3. \A q \in Sockets : reader'[q] = "clearing" => reader[q] = "clearing"
    BY <1>2 DEF Reader, TakeConn, ReadMessage, ReadFails, ReaderClears, CollideReading,
                ReaderMoves, LinkTypeOK
  <2>4. isConnected' = isConnected \/ reader[r] = "clearing"
    BY <1>2 DEF Reader, TakeConn, ReadMessage, ReadFails, ReaderClears, CollideReading,
                ReaderMoves
  <2> QED
    BY <2>1, <2>2, <2>3, <2>4
<1> QED
  BY <1>1, <1>2

(* The steps of a writePump; two of them at work bear two numbers.         *)
LEMMA WriterStep ==
  ASSUME IInv, NEW w \in Sockets, Writer(w)
  PROVE  IInv'
<1> USE DEF IInv, managerVars, pumpVars, WriterMoves
<1>1. LinkTypeOK'
  <2> USE DEF LinkTypeOK
  <2>0. 0 \in 0 .. MaxDials
    BY BoundsAssumption
  <2>1. CASE TakeMessage(w)
    BY <2>1 DEF TakeMessage
  <2>2. CASE BeginWrite(w)
    BY <2>2 DEF BeginWrite
  <2>3. CASE EndWrite(w)
    BY <2>0, <2>3 DEF EndWrite
  <2>4. CASE WriteFails(w)
    BY <2>0, <2>4 DEF WriteFails
  <2>5. CASE CollideWriting(w)
    BY <2>5 DEF CollideWriting
  <2> QED
    BY <2>1, <2>2, <2>3, <2>4, <2>5 DEF Writer
<1>2. UNCHANGED <<wsConn, sock, isConnected, managerVars, reader>>
  BY DEF Writer, TakeMessage, BeginWrite, EndWrite, WriteFails, CollideWriting
<1>3. Numbered'
  <2> USE DEF Numbered
  <2>1. CASE CollideWriting(w)
    <3>1. PICK v \in Sockets : v # w /\ writer[v] = "writing"
      BY <2>1 DEF CollideWriting, SharesWriting
    <3>2. wsConn > 1
      BY <2>1, <3>1, BoundsAssumption DEF CollideWriting, LinkTypeOK, Sockets
    <3> QED
      BY <2>1, <3>2 DEF CollideWriting
  <2>2. CASE ~CollideWriting(w)
    <3>1. \A n \in Sockets : writer'[n] # "none" => writer[n] # "none"
      BY <2>2 DEF Writer, TakeMessage, BeginWrite, EndWrite, WriteFails, LinkTypeOK
    <3>2. UNCHANGED crashed
      BY <2>2 DEF Writer, TakeMessage, BeginWrite, EndWrite, WriteFails
    <3> QED
      BY <1>2, <3>1, <3>2
  <2> QED
    BY <2>1, <2>2
<1>4. Retired' /\ ConnectedIsWatched'
  BY <1>2 DEF Retired, ClosedBy, ConnectedIsWatched
<1> QED
  BY <1>1, <1>3, <1>4

(* Start and the network touch neither the flag nor a pump.                *)
LEMMA OthersStep ==
  ASSUME IInv,
         \/ \E s \in Sockets : Drop(s)
         \/ StartSucceeds \/ StartTimesOut \/ UNCHANGED linkVars
  PROVE  IInv'
<1> USE DEF IInv, LinkTypeOK, Numbered, Retired, ClosedBy, ConnectedIsWatched,
            managerVars, pumpVars
<1>1. ASSUME NEW s \in Sockets, Drop(s) PROVE IInv'
  BY <1>1 DEF Drop
<1>2. CASE StartSucceeds \/ StartTimesOut
  BY <1>2 DEF StartSucceeds, StartTimesOut
<1>3. CASE UNCHANGED linkVars
  BY <1>3 DEF linkVars
<1> QED
  BY <1>1, <1>2, <1>3

-----------------------------------------------------------------------------
(* The theorems                                                            *)

(* The inductive invariant holds in every state of every behaviour.        *)
THEOREM Inductive == LinkSpec => []IInv
<1>1. LinkInit => IInv
  <2> SUFFICES ASSUME LinkInit PROVE IInv
    OBVIOUS
  <2>1. 0 \in 0 .. MaxDials /\ 0 \in 0 .. MaxFailures /\ 0 \in 0 .. MaxDelay
    BY BoundsAssumption
  <2>2. LinkTypeOK
    BY <2>1 DEF LinkInit, Unconnected, LinkTypeOK
  <2> QED
    BY <2>2 DEF LinkInit, Unconnected, IInv, Numbered, Retired, ConnectedIsWatched
<1>2. IInv /\ [LinkNext]_linkVars => IInv'
  <2>1. IInv /\ Manager => IInv'
    BY ManagerType, ManagerWatch, ManagerRetires DEF IInv
  <2>2. \A r \in Sockets : IInv /\ Reader(r) => IInv'
    BY ReaderType, ReaderWatch, ReaderNumbered, ReaderRetires DEF IInv
  <2> QED
    BY <2>1, <2>2, WriterStep, OthersStep DEF LinkNext, Run
<1> QED
  BY <1>1, <1>2, PTL DEF LinkSpec

(* Every variable keeps its type; among them the pause between two dials,  *)
(* which stays within five minutes however long the server is away.        *)
THEOREM TypeCorrect == LinkSpec => []LinkTypeOK
<1>1. IInv => LinkTypeOK
  BY DEF IInv
<1> QED
  BY <1>1, Inductive, PTL

(* However many connections have come and gone, a set flag has a readPump  *)
(* or the manager to clear it.                                             *)
THEOREM Watched == LinkSpec => []ConnectedIsWatched
<1>1. IInv => ConnectedIsWatched
  BY DEF IInv
<1> QED
  BY <1>1, Inductive, PTL

(* However many times the client reconnects, a process that has crashed    *)
(* had given up a connection and taken another before: the two pumps that  *)
(* a dial starts never bring it down (client.go:360, 380, 398).            *)
THEOREM CrashNeedsReconnect == LinkSpec => []CrashAfterReconnect
<1>1. IInv => CrashAfterReconnect
  <2> SUFFICES ASSUME IInv, crashed
               PROVE  wsConn > 1 /\ \E s \in Sockets : s < wsConn /\ sock[s] = "closed"
    BY DEF CrashAfterReconnect
  <2>1. wsConn > 1 /\ ClosedBy(wsConn - 1)
    BY DEF IInv, Numbered, Retired
  <2> QED
    BY <2>1, BoundsAssumption DEF IInv, LinkTypeOK, ClosedBy, Sockets
<1> QED
  BY <1>1, Inductive, PTL

=============================================================================
