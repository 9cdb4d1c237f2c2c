-------------------------------- MODULE Relay --------------------------------
(***************************************************************************)
(* Server and client together: RequestTable with ClientWorker in the place *)
(* of its environment actions WriteRequest and RemoteReply.  The request a *)
(* writePump of the server writes is the one the client's readPump         *)
(* receives, and an answer goes from the client's sendChan through one of  *)
(* its writePumps to the server's readPump.                                *)
(*                                                                         *)
(* Each successful dial starts a writePump, which is not bound to its      *)
(* connection: it takes a message, then the current connection, and writes *)
(* (ClientLink).  Neither process is stopped here.  A client whose pumps   *)
(* bring it down (ClientLink) takes no more steps, as Spec always allows.  *)
(***************************************************************************)
EXTENDS Naturals, Sequences, FiniteSets

CONSTANTS
  Requests, Streams, Conns, NoConn, NoMsg, NoRequest,
  MaxConcurrentRequests,  \* of the server
  RespCap, SendCap,
  ClientMax,              \* MaxConcurrentRequests of the client
  RecvCap, ClientSendCap,
  MaxChunks               \* bound: events the model produces per stream

(* Those of RequestTable and ClientWorker together.                        *)
ASSUME RequestsAssumption ==
  IsFiniteSet(Requests) /\ Streams \subseteq Requests /\ NoRequest \notin Requests
ASSUME ConnsAssumption == NoConn \notin Conns
ASSUME CapacityAssumption ==
  /\ MaxConcurrentRequests \in Nat /\ ClientMax \in Nat /\ MaxChunks \in Nat
  /\ RespCap \in Nat \ {0} /\ SendCap \in Nat \ {0}
  /\ RecvCap \in Nat \ {0} /\ ClientSendCap \in Nat \ {0}

VARIABLES
  \* the server (RequestTable)
  pc, conn, outcome, chunks,
  table, respChan, respClosed, doneClosed, expired,
  link, sendChan, wire, fwd,
  sem, wedged, stopPc, panic,
  \* the client (ClientWorker)
  job, recvChan, inHand, procDone, jobs, events, answer, out, log,
  sendClosed, clientStop, clientPanic,
  \* the client's writePumps, one per dial
  pump,     \* "none", "idle", "holding", "exited"
  held,     \* the message and the connection a holding pump has taken
  current   \* the client's wsConn

serverVars == <<pc, conn, outcome, chunks, table, respChan, respClosed, doneClosed,
                expired, link, sendChan, wire, fwd, sem, wedged, stopPc, panic>>
clientVars == <<job, recvChan, inHand, procDone, jobs, events, answer, out, log,
                sendClosed, clientStop, clientPanic>>
pumpVars == <<pump, held, current>>
vars == <<serverVars, clientVars, pumpVars>>

Client == INSTANCE ClientWorker WITH
            MaxConcurrentRequests <- ClientMax, SendCap <- ClientSendCap,
            sem <- jobs, chunks <- events, sendChan <- out,
            stopPc <- clientStop, panic <- clientPanic

Nothing == [msg |-> <<NoRequest, 0>>, over |-> NoConn]

(* The k-th message of r is still in sendChan or in the hands of a pump.   *)
Waiting(r, k) ==
  \/ \E i \in DOMAIN out : out[i] = <<r, k>>
  \/ \E c \in Conns : held[c].msg = <<r, k>>

(* The message as the server's readPump will read it.                      *)
OnWire(m) == [id |-> m[1], kind |-> log[m[1]][m[2]], n |-> m[2]]

(* What RequestTable knows of the other end.                               *)
Asked == {r \in Requests : job[r] \notin {"new", "dropped"}}

Sent == [r \in Requests |-> {OnWire(<<r, k>>) : k \in {j \in DOMAIN log[r] : ~Waiting(r, j)}}]

Server == INSTANCE RequestTable WITH asked <- Asked, sent <- Sent

ASSUME NoMsgAssumption == NoMsg \notin Server!Messages

Init ==
  /\ Client!Init
  /\ pump = [c \in Conns |-> "none"]
  /\ held = [c \in Conns |-> Nothing]
  /\ current = NoConn
  /\ Server!Init

-----------------------------------------------------------------------------
(* Steps of one process                                                    *)

ServerMoves ==
  /\ UNCHANGED <<clientVars, pumpVars>>
  /\ \/ \E r \in Requests : Server!Admit(r) \/ Server!Refuse(r) \/ Server!Handler(r)
                              \/ Server!Expire(r)
     \/ \E c \in Conns : Server!Disconnect(c) \/ Server!ReadMessage(c)
                           \/ Server!ForwardMessage(c)
     \/ Server!CleanupExpiredRequests

ClientMoves ==
  /\ Client!Processor \/ \E r \in Requests : Client!Job(r)
  /\ UNCHANGED <<serverVars, pumpVars>>

-----------------------------------------------------------------------------
(* Steps of both                                                           *)

(* Mutant: connect starts a second writePump.                              *)
ConnectTwoPumps(c) ==
  /\ pump' = [d \in Conns |-> "idle"]
  /\ current' = c
  /\ UNCHANGED <<clientVars, held>>
  /\ Server!Connect(c)

(* connect: the server registers the connection, the client starts a pump. *)
Connect(c) ==
  /\ pump' = [pump EXCEPT ![c] = "idle"]
  /\ current' = c
  /\ UNCHANGED <<clientVars, held>>
  /\ Server!Connect(c)

(* The request reaches readPump of the client, ...                         *)
DeliverRequest(c) ==
  /\ sendChan[c] # <<>>
  /\ Client!Receive(Head(sendChan[c]))
  /\ UNCHANGED pumpVars
  /\ Server!WriteRequest(c)

(* ... or is lost: the client has left the connection, or it breaks.       *)
LoseRequest(c) ==
  /\ UNCHANGED <<clientVars, pumpVars>>
  /\ Server!WriteRequest(c)

TakeAnswer(w) ==
  /\ pump[w] = "idle"
  /\ Client!WriteAnswer
  /\ pump' = [pump EXCEPT ![w] = "holding"]
  /\ held' = [held EXCEPT ![w] = [msg |-> Head(out), over |-> current]]
  /\ UNCHANGED <<serverVars, current>>

PutDown(w, state) ==
  /\ pump[w] = "holding"
  /\ pump' = [pump EXCEPT ![w] = state]
  /\ held' = [held EXCEPT ![w] = Nothing]
  /\ UNCHANGED current

(* Mutant: the message is written again in the next round.                 *)
WriteHeldAgain(w) ==
  /\ pump[w] = "holding" /\ UNCHANGED pumpVars
  /\ LET c == held[w].over IN
       /\ link[c] = "up" /\ Len(wire[c]) < 2
       /\ wire' = [wire EXCEPT ![c] = Append(@, OnWire(held[w].msg))]
  /\ UNCHANGED <<clientVars, pc, conn, outcome, chunks, table, respChan, respClosed,
                 doneClosed, expired, link, sendChan, fwd, sem, wedged,
                 stopPc, panic>>

(* The connection that was current when the message was taken may still be *)
(* open after another dial: disconnect closes whatever is current then.    *)
WriteHeld(w) ==
  /\ PutDown(w, "idle")
  /\ LET c == held[w].over IN
       /\ link[c] = "up"
       /\ wire' = [wire EXCEPT ![c] = Append(@, OnWire(held[w].msg))]
  /\ UNCHANGED <<clientVars, pc, conn, outcome, chunks, table, respChan, respClosed,
                 doneClosed, expired, link, sendChan, fwd, sem, wedged,
                 stopPc, panic>>

(* The connection is broken: the write fails and the pump ends, or it      *)
(* fills a socket nobody reads and the pump goes on.                       *)
LoseHeld(w) ==
  /\ \E state \in {"idle", "exited"} : PutDown(w, state)
  /\ UNCHANGED <<clientVars, serverVars>>

Next ==
  \/ Server!Alive /\ (\/ ServerMoves \/ ClientMoves
                      \/ \E c \in Conns : \/ Connect(c)
                                          \/ DeliverRequest(c) \/ LoseRequest(c)
                                          \/ TakeAnswer(c)
                                          \/ WriteHeld(c) \/ LoseHeld(c))
  \/ (~Server!Alive \/ \A r \in Requests : pc[r] = "done") /\ UNCHANGED vars

Spec == Init /\ [][Next]_vars

-----------------------------------------------------------------------------
(* Properties                                                              *)

(* What the server is modelled to assume of the other end is what the      *)
(* client, its queues and its pumps do, over a reconnect too: every step   *)
(* of the two processes is one of RequestTable.  So what is shown of       *)
(* RequestTable holds of the pair.                                         *)
Assumed == Server!ServeSpec

(* What a caller is handed comes from the answer to its own call, no piece *)
(* twice; in order, unless the client has reconnected: then two writePumps *)
(* (client.go:359), or the old connection and the new one, race.           *)
Delivered ==
  \A r \in Requests :
    /\ \A i, j \in DOMAIN chunks[r] :
         /\ log[r][chunks[r][i]] = "chunk"
         /\ i < j => IF Server!Reconnected THEN chunks[r][i] # chunks[r][j]
                                           ELSE chunks[r][i] < chunks[r][j]
    /\ outcome[r] = "ended" => log[r][Len(log[r])] = "end"
    /\ outcome[r] = "relayed" => log[r] = <<"response">>

(* Over one connection the message that ends a call is the last there is:  *)
(* when the handler acts on it, none of the call's messages is on the      *)
(* wire, in readPump's hands or with a pump of the client.                 *)
NothingAfterLast ==
  \A r \in Requests :
    outcome[r] \in {"ended", "relayed", "failed"} /\ ~Server!Reconnected =>
      /\ \A c \in Conns : /\ \A i \in DOMAIN wire[c] : wire[c][i].id # r
                           /\ fwd[c] # NoMsg => fwd[c].id # r
      /\ \A k \in DOMAIN log[r] : ~Waiting(r, k)

=============================================================================
