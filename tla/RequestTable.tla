---------------------------- MODULE RequestTable ----------------------------
(***************************************************************************)
(* The request path of the llama-proxy server: every HTTP call runs        *)
(* handleProxyRequest in a goroutine of its own, takes a slot of the       *)
(* semaphore, registers a PendingRequest under a fresh request ID, hands   *)
(* the request to the web-socket client it picked and then waits in a      *)
(* select for answers, for its DoneChan, for its timer and for the         *)
(* server's context.  Answers are pushed into ResponseChan by the          *)
(* readPump goroutine of the connection.  A cleaner goroutine closes the   *)
(* DoneChan of requests older than two minutes, and Stop closes all.       *)
(*                                                                         *)
(* One action per critical section of requestsMu or channel operation;     *)
(* the goroutines interleave freely between them.  clientsMu and the life  *)
(* of a connection are ConnRegistry's subject: here a connection opens and *)
(* closes in one step, and the cleaner may stop for good ("wedged", which  *)
(* ConnRegistry shows to happen).  The client process and the llama-server *)
(* behind it are an environment (section "The other end").                 *)
(***************************************************************************)
EXTENDS Naturals, Sequences, FiniteSets

CONSTANTS
  Requests,               \* HTTP calls; each has one request ID (a UUID)
  Streams,                \* the calls whose body asks for "stream": true
  Conns,                  \* accepted web-socket connections
  NoConn,                 \* a call that has not picked a connection
  NoMsg,                  \* a readPump with no message in hand
  MaxConcurrentRequests,  \* capacity of sem
  RespCap,                \* buffer of a ResponseChan (10 in the code)
  SendCap,                \* buffer of a SendChan (100 in the code)
  MaxChunks               \* bound: pieces the model produces per stream

ASSUME RequestsAssumption ==
  IsFiniteSet(Requests) /\ Streams \subseteq Requests
ASSUME ConnsAssumption == NoConn \notin Conns
ASSUME CapacityAssumption ==
  /\ MaxConcurrentRequests \in Nat
  /\ RespCap \in Nat \ {0}
  /\ SendCap \in Nat \ {0}
  /\ MaxChunks \in Nat

Kinds == {"response", "chunk", "end", "error"}

(* A WebSocketMessage of a call; n numbers the messages of one call in the *)
(* order the client produced them.                                         *)
Messages == [id : Requests, kind : Kinds, n : Nat]

ASSUME NoMsgAssumption == NoMsg \notin Messages

VARIABLES
  \* the handler goroutine of each call
  pc, conn, outcome, chunks,
  \* s.requests and the channels of each PendingRequest
  table, respChan, respClosed, doneClosed, expired,
  \* the connections: SendChan, the TCP stream towards the server, and the
  \* message readPump holds between GetRequest and the send
  link, sendChan, wire, fwd,
  \* the other end: calls whose request has arrived, and per call the
  \* messages that have left it
  asked, sent,
  \* the server process
  sem, wedged, stopPc, panic

handlerVars == <<pc, conn, outcome, chunks>>
tableVars   == <<table, respChan, respClosed, doneClosed, expired>>
linkVars    == <<link, sendChan, wire, fwd>>
remoteVars  == <<asked, sent>>
procVars    == <<wedged, stopPc, panic>>
vars == <<handlerVars, tableVars, linkVars, remoteVars, sem, procVars>>

PCs == {"new", "admitted", "prepared", "sending", "waiting", "leaving",
        "releasing", "done"}

(* The branch by which a handler returned.                                 *)
Outcomes == {"none", "tooManyRequests", "shuttingDown", "noClient",
             "badRequest", "clientBusy", "aborted", "relayed", "undecodable",
             "failed", "ended", "cancelled", "timedOut"}

TypeOK ==
  /\ pc \in [Requests -> PCs]
  /\ conn \in [Requests -> Conns \cup {NoConn}]
  /\ outcome \in [Requests -> Outcomes]
  /\ chunks \in [Requests -> Seq(Nat)]
  /\ table \subseteq Requests
  /\ respChan \in [Requests -> Seq(Messages)]
  /\ respClosed \in [Requests -> BOOLEAN]
  /\ doneClosed \in [Requests -> BOOLEAN]
  /\ expired \in [Requests -> BOOLEAN]
  /\ link \in [Conns -> {"absent", "up", "closed"}]
  /\ sendChan \in [Conns -> Seq(Requests)]
  /\ wire \in [Conns -> Seq(Messages)]
  /\ fwd \in [Conns -> Messages \cup {NoMsg}]
  /\ asked \subseteq Requests
  /\ sent \in [Requests -> SUBSET Messages]
  /\ sem \in Nat
  /\ wedged \in BOOLEAN
  /\ stopPc \in {"running", "cancelled", "clientsClosed", "cleared",
                 "shutdown", "exited"}
  /\ panic \in {"none", "sendOnClosed", "closeOfClosed"}

Init ==
  /\ pc = [r \in Requests |-> "new"]
  /\ conn = [r \in Requests |-> NoConn]
  /\ outcome = [r \in Requests |-> "none"]
  /\ chunks = [r \in Requests |-> <<>>]
  /\ table = {}
  /\ respChan = [r \in Requests |-> <<>>]
  /\ respClosed = [r \in Requests |-> FALSE]
  /\ doneClosed = [r \in Requests |-> FALSE]
  /\ expired = [r \in Requests |-> FALSE]
  /\ link = [c \in Conns |-> "absent"]
  /\ sendChan = [c \in Conns |-> <<>>]
  /\ wire = [c \in Conns |-> <<>>]
  /\ fwd = [c \in Conns |-> NoMsg]
  /\ asked = {}
  /\ sent = [r \in Requests |-> {}]
  /\ sem = 0
  /\ wedged = FALSE
  /\ stopPc = "running"
  /\ panic = "none"

Cancelled == stopPc # "running"                      \* <-s.ctx.Done() is ready
Listening == stopPc \notin {"shutdown", "exited"}

-----------------------------------------------------------------------------
(* Handlers: handleProxyRequest                                            *)

GoTo(r, from, to) ==
  /\ pc[r] = from
  /\ pc' = [pc EXCEPT ![r] = to]

(* Return from the handler body; the deferred calls run from "to" on.      *)
Return(r, from, to, why) ==
  /\ GoTo(r, from, to)
  /\ outcome' = [outcome EXCEPT ![r] = why]

(* Mutant: the semaphore lets one call too many in. *)
AdmitOneTooMany(r) ==
  /\ Listening
  /\ sem <= MaxConcurrentRequests
  /\ GoTo(r, "new", "admitted")
  /\ sem' = sem + 1
  /\ UNCHANGED <<conn, outcome, chunks, tableVars, linkVars, remoteVars, procVars>>

Admit(r) ==
  /\ Listening
  /\ sem < MaxConcurrentRequests
  /\ GoTo(r, "new", "admitted")
  /\ sem' = sem + 1
  /\ UNCHANGED <<conn, outcome, chunks, tableVars, linkVars, remoteVars, procVars>>

(* Mutant: the slot is released on every return, taken or not. *)
RefuseReleases(r) ==
  /\ Listening
  /\ \/ Cancelled /\ Return(r, "new", "done", "shuttingDown")
     \/ /\ ~Cancelled
        /\ sem >= MaxConcurrentRequests
        /\ Return(r, "new", "done", "tooManyRequests")
  /\ UNCHANGED <<conn, chunks, tableVars, linkVars, remoteVars, procVars>>
  /\ sem' = sem - 1

(* The select has a default branch, so 429 is the answer only when neither *)
(* the semaphore nor the cancelled context is ready.                       *)
Refuse(r) ==
  /\ Listening
  /\ \/ Cancelled /\ Return(r, "new", "done", "shuttingDown")
     \/ /\ ~Cancelled
        /\ sem >= MaxConcurrentRequests
        /\ Return(r, "new", "done", "tooManyRequests")
  /\ UNCHANGED <<conn, chunks, tableVars, linkVars, remoteVars, sem, procVars>>

(* GetActiveClient needs clientsMu, which a wedged cleaner never releases. *)
PickClient(r) ==
  /\ ~wedged
  /\ \/ \E c \in Conns :
          /\ link[c] = "up"
          /\ GoTo(r, "admitted", "prepared")
          /\ conn' = [conn EXCEPT ![r] = c]
          /\ UNCHANGED outcome
     \/ /\ \A c \in Conns : link[c] # "up"
        /\ Return(r, "admitted", "releasing", "noClient")
        /\ UNCHANGED conn
  /\ UNCHANGED <<chunks, tableVars, linkVars, remoteVars, sem, procVars>>

(* Mutant: an early return that forgets the slot. *)
RejectKeepsSlot(r) ==
  /\ Return(r, "prepared", "done", "badRequest")
  /\ UNCHANGED <<conn, chunks, tableVars, linkVars, remoteVars, sem, procVars>>

(* Reading the body, serialising or encrypting the request fails.          *)
Reject(r) ==
  /\ Return(r, "prepared", "releasing", "badRequest")
  /\ UNCHANGED <<conn, chunks, tableVars, linkVars, remoteVars, sem, procVars>>

RegisterRequest(r) ==
  /\ GoTo(r, "prepared", "sending")
  /\ table' = table \cup {r}
  /\ UNCHANGED <<conn, outcome, chunks, respChan, respClosed, doneClosed,
                 expired, linkVars, remoteVars, sem, procVars>>

Sending(r, state) == pc[r] = "sending" /\ link[conn[r]] = state

(* The select on client.SendChan: there is room, ...                       *)
SendRequest(r) ==
  /\ Sending(r, "up")
  /\ Len(sendChan[conn[r]]) < SendCap
  /\ sendChan' = [sendChan EXCEPT ![conn[r]] = Append(@, r)]
  /\ GoTo(r, "sending", "waiting")
  /\ UNCHANGED <<conn, outcome, chunks, tableVars, link, wire, fwd,
                 remoteVars, sem, procVars>>

(* Mutant: UnregisterRequest is deferred only after the send succeeded.    *)
SendBusyBeforeDefer(r) ==
  /\ Sending(r, "up") /\ Len(sendChan[conn[r]]) >= SendCap
  /\ Return(r, "sending", "releasing", "clientBusy")
  /\ UNCHANGED <<conn, chunks, tableVars, linkVars, remoteVars, sem, procVars>>

(* Mutant: a send without time.After gives up only on a dead connection.   *)
SendBusyWaits(r) ==
  /\ Sending(r, "absent")
  /\ Return(r, "sending", "leaving", "clientBusy")
  /\ UNCHANGED <<conn, chunks, tableVars, linkVars, remoteVars, sem, procVars>>

(* ... there has been none for five seconds, ...                           *)
SendBusy(r) ==
  /\ Sending(r, "up") /\ Len(sendChan[conn[r]]) >= SendCap
  /\ Return(r, "sending", "leaving", "clientBusy")
  /\ UNCHANGED <<conn, chunks, tableVars, linkVars, remoteVars, sem, procVars>>

(* ... or it was closed since PickClient: the send panics, the deferred    *)
(* calls run and net/http recovers.                                        *)
SendPanics(r) ==
  /\ Sending(r, "closed")
  /\ Return(r, "sending", "leaving", "aborted")
  /\ UNCHANGED <<conn, chunks, tableVars, linkVars, remoteVars, sem, procVars>>

(* The client reports an error: its text, or "Unknown error" when it does  *)
(* not parse, is the answer, or the last event of a stream.                *)
AnswerError(r) == Return(r, "waiting", "leaving", "failed")

(* handleNonStreamResponse: the first message decides.                     *)
ReceiveAnswer(r) ==
  /\ r \notin Streams
  /\ respChan[r] # <<>>
  /\ respChan' = [respChan EXCEPT ![r] = Tail(@)]
  /\ IF Head(respChan[r]).kind = "error"
       THEN AnswerError(r)
       ELSE \E why \in {"relayed", "undecodable"} :
              Return(r, "waiting", "leaving", why)
  /\ UNCHANGED <<conn, chunks, table, respClosed, doneClosed, expired,
                 linkVars, remoteVars, sem, procVars>>

(* handleStreamResponse: a chunk is written, or skipped when it does not   *)
(* decrypt; "error" and "end" end the stream; other kinds are released and *)
(* the loop goes on.                                                       *)
ReceiveStream(r) ==
  /\ r \in Streams
  /\ pc[r] = "waiting"
  /\ respChan[r] # <<>>
  /\ LET m == Head(respChan[r]) IN
       \/ /\ m.kind = "error"
          /\ AnswerError(r)
          /\ UNCHANGED chunks
       \/ /\ m.kind = "end"
          /\ Return(r, "waiting", "leaving", "ended")
          /\ UNCHANGED chunks
       \/ /\ m.kind = "chunk"
          /\ \/ chunks' = [chunks EXCEPT ![r] = Append(@, m.n)]
             \/ UNCHANGED chunks
          /\ UNCHANGED <<pc, outcome>>
       \/ /\ m.kind = "response"
          /\ UNCHANGED <<pc, outcome, chunks>>
  /\ respChan' = [respChan EXCEPT ![r] = Tail(@)]
  /\ UNCHANGED <<conn, table, respClosed, doneClosed, expired, linkVars,
                 remoteVars, sem, procVars>>

(* Mutant: handlers with a timer as short as the cleaner's. *)
GiveUpAfterTwoMinutes(r) ==
  /\ \/ doneClosed[r] /\ Return(r, "waiting", "leaving", "cancelled")
     \/ Cancelled /\ Return(r, "waiting", "leaving", "shuttingDown")
     \/ expired[r] /\ Return(r, "waiting", "leaving", "timedOut")
  /\ UNCHANGED <<conn, chunks, tableVars, linkVars, remoteVars, sem, procVars>>

(* The other branches of the select.  The ten and fifteen minute timers    *)
(* can only fire when the cleaner, due 30 seconds after expiry, is stuck.  *)
GiveUp(r) ==
  /\ \/ doneClosed[r] /\ Return(r, "waiting", "leaving", "cancelled")
     \/ Cancelled /\ Return(r, "waiting", "leaving", "shuttingDown")
     \/ wedged /\ expired[r] /\ Return(r, "waiting", "leaving", "timedOut")
  /\ UNCHANGED <<conn, chunks, tableVars, linkVars, remoteVars, sem, procVars>>

(* Mutant: closed but not deleted. *)
UnregisterKeepsEntry(r) ==
  /\ GoTo(r, "leaving", "releasing")
  /\ IF r \in table
       THEN /\ panic' = IF respClosed[r] THEN "closeOfClosed" ELSE panic
            /\ respClosed' = [respClosed EXCEPT ![r] = TRUE]
            /\ UNCHANGED table
       ELSE UNCHANGED <<panic, respClosed, table>>
  /\ UNCHANGED <<conn, outcome, chunks, respChan, doneClosed, expired,
                 linkVars, remoteVars, sem, wedged, stopPc>>

(* Deferred: a request someone else already removed keeps its channel.     *)
UnregisterRequest(r) ==
  /\ GoTo(r, "leaving", "releasing")
  /\ IF r \in table
       THEN /\ panic' = IF respClosed[r] THEN "closeOfClosed" ELSE panic
            /\ respClosed' = [respClosed EXCEPT ![r] = TRUE]
            /\ table' = table \ {r}
       ELSE UNCHANGED <<panic, respClosed, table>>
  /\ UNCHANGED <<conn, outcome, chunks, respChan, doneClosed, expired,
                 linkVars, remoteVars, sem, wedged, stopPc>>

(* Deferred: <-s.sem.                                                      *)
ReleaseSlot(r) ==
  /\ GoTo(r, "releasing", "done")
  /\ sem' = sem - 1
  /\ UNCHANGED <<conn, outcome, chunks, tableVars, linkVars, remoteVars, procVars>>

Handler(r) ==
  \/ PickClient(r)
  \/ Reject(r)
  \/ RegisterRequest(r)
  \/ SendRequest(r) \/ SendBusy(r) \/ SendPanics(r)
  \/ ReceiveAnswer(r)
  \/ ReceiveStream(r)
  \/ GiveUp(r)
  \/ UnregisterRequest(r)
  \/ ReleaseSlot(r)

-----------------------------------------------------------------------------
(* Connections: handleWebSocket, readPump, writePump                       *)

(* A client that lost its connection dials again, often before the server  *)
(* notices the loss and while bytes of the old connection are still unread. *)
Connect(c) ==
  /\ Listening /\ ~wedged
  /\ link[c] = "absent"
  /\ link' = [link EXCEPT ![c] = "up"]
  /\ UNCHANGED <<handlerVars, tableVars, sendChan, wire, fwd, remoteVars, sem,
                 procVars>>

(* ClientConn.Close: requests that are queued are lost; of the answers on  *)
(* their way readPump may still find some in its buffer.                   *)
Shut(c) ==
  /\ link' = [link EXCEPT ![c] = "closed"]
  /\ sendChan' = [sendChan EXCEPT ![c] = <<>>]
  /\ \E n \in 0 .. Len(wire[c]) : wire' = [wire EXCEPT ![c] = SubSeq(@, 1, n)]
  /\ UNCHANGED fwd

Disconnect(c) ==
  /\ link[c] = "up"
  /\ Shut(c)
  /\ UNCHANGED <<handlerVars, tableVars, remoteVars, sem, procVars>>

(* handleMessage up to GetRequest.  A message is discarded when its        *)
(* request is gone or when it is more than five minutes old.               *)
ReadMessage(c) ==
  /\ fwd[c] = NoMsg
  /\ wire[c] # <<>>
  /\ wire' = [wire EXCEPT ![c] = Tail(@)]
  /\ \/ /\ Head(wire[c]).id \in table
        /\ fwd' = [fwd EXCEPT ![c] = Head(wire[c])]
     \/ UNCHANGED fwd
  /\ UNCHANGED <<handlerVars, tableVars, link, sendChan, remoteVars,
                 sem, procVars>>

(* handleMessage from the select on: runs on the PendingRequest it looked  *)
(* up, whatever became of it.  A send on a closed channel panics, in a     *)
(* goroutine nobody recovers: the server process dies.                     *)
ForwardMessage(c) ==
  /\ fwd[c] # NoMsg
  /\ LET r == fwd[c].id IN
       \/ /\ respClosed[r]
          /\ panic' = "sendOnClosed"
          /\ UNCHANGED respChan
       \/ /\ ~respClosed[r] /\ Len(respChan[r]) < RespCap
          /\ respChan' = [respChan EXCEPT ![r] = Append(@, fwd[c])]
          /\ UNCHANGED panic
       \/ /\ ~respClosed[r] /\ Len(respChan[r]) >= RespCap    \* five seconds
          /\ UNCHANGED <<respChan, panic>>
  /\ fwd' = [fwd EXCEPT ![c] = NoMsg]
  /\ UNCHANGED <<handlerVars, table, respClosed, doneClosed, expired, link,
                 sendChan, wire, remoteVars, sem, wedged, stopPc>>

(* One round of writePump: the request reaches the client, or is lost: the *)
(* client has left the connection and no readPump of its still reads from  *)
(* it, or its recvChan is full.                                            *)
WriteRequest(c) ==
  /\ link[c] = "up"
  /\ sendChan[c] # <<>>
  /\ sendChan' = [sendChan EXCEPT ![c] = Tail(@)]
  /\ \/ asked' = asked \cup {Head(sendChan[c])}
     \/ UNCHANGED asked
  /\ UNCHANGED <<handlerVars, tableVars, link, wire, fwd, sent, sem,
                 procVars>>

-----------------------------------------------------------------------------
(* The other end: one goroutine of the client process per call             *)

(* The client has opened a second connection.                              *)
Reconnected == Cardinality({c \in Conns : link[c] # "absent"}) > 1

Kind(r, n) ==
  IF r \notin Streams THEN {"response", "error"}
  ELSE {"end", "error"}
         \cup (IF n <= MaxChunks THEN {"chunk"} ELSE {})
         \cup (IF n = 1 THEN {"response"} ELSE {})

(* A message of r may leave now: a call has pieces and one last message.   *)
(* They leave in the order they were produced; a client that has           *)
(* reconnected has two writePumps, and one may overtake the other.         *)
MayLeave(r, m) ==
  /\ m.kind \in Kind(r, m.n)
  /\ \A o \in sent[r] :
       \/ o.n < m.n /\ o.kind = "chunk"
       \/ o.n > m.n /\ m.kind = "chunk" /\ Reconnected
  /\ m.n = Cardinality(sent[r]) + 1 \/ Reconnected

(* A message leaves over a connection, or is lost: the client's sendChan   *)
(* stays full for five seconds or the connection is gone.  It need not be  *)
(* the newest: a late disconnect of the client may close that one and      *)
(* leave an older one open for a pump that has taken it before.            *)
RemoteReply(r) ==
  /\ r \in asked
  /\ \E n \in 1 .. (MaxChunks + 1), k \in Kinds :
       LET m == [id |-> r, kind |-> k, n |-> n] IN
         /\ MayLeave(r, m)
         /\ sent' = [sent EXCEPT ![r] = @ \cup {m}]
         /\ \/ \E c \in Conns : /\ link[c] = "up"
                              /\ wire' = [wire EXCEPT ![c] = Append(@, m)]
            \/ UNCHANGED wire
  /\ UNCHANGED asked
  /\ UNCHANGED <<handlerVars, tableVars, link, sendChan, fwd, sem,
                 procVars>>

-----------------------------------------------------------------------------
(* Time, the cleaner and Stop                                              *)

(* Two minutes pass since RegisterRequest.                                 *)
Expire(r) ==
  /\ pc[r] \in {"sending", "waiting", "leaving"}
  /\ ~expired[r]
  /\ expired' = [expired EXCEPT ![r] = TRUE]
  /\ UNCHANGED <<handlerVars, table, respChan, respClosed, doneClosed,
                 linkVars, remoteVars, sem, procVars>>

(* Mutant: the entries stay in the table after their DoneChan is closed.   *)
CancelKeepsEntries(S) ==
  /\ panic' = IF \E r \in S : doneClosed[r] THEN "closeOfClosed" ELSE panic
  /\ doneClosed' = [r \in Requests |-> r \in S \/ doneClosed[r]]
  /\ UNCHANGED <<table, respChan, respClosed, expired>>

(* Close the DoneChan of every request in S and drop S from the table.     *)
CancelRequests(S) ==
  /\ panic' = IF \E r \in S : doneClosed[r] THEN "closeOfClosed" ELSE panic
  /\ doneClosed' = [r \in Requests |-> r \in S \/ doneClosed[r]]
  /\ table' = table \ S
  /\ UNCHANGED <<respChan, respClosed, expired>>

CleanupExpiredRequests ==
  /\ ~wedged
  /\ \E r \in table : expired[r]
  /\ CancelRequests({r \in table : expired[r]})
  /\ UNCHANGED <<handlerVars, linkVars, remoteVars, sem, wedged, stopPc>>

(* The cleaner or Stop closes a client while it holds clientsMu and blocks *)
(* in onClose; the lock is never released (ConnRegistry).                  *)
Wedge(C) ==
  /\ ~wedged
  /\ wedged' = TRUE
  /\ \E c \in C : Shut(c)

WedgeCleaner ==
  /\ Wedge({c \in Conns : link[c] # "absent"})
  /\ UNCHANGED <<handlerVars, tableVars, remoteVars, sem, stopPc, panic>>

StopStep(from, to) == stopPc = from /\ stopPc' = to

StopCancel ==
  /\ StopStep("running", "cancelled")
  /\ UNCHANGED <<handlerVars, tableVars, linkVars, remoteVars, sem, wedged, panic>>

(* The loop over the clients ends only if there are none left to close.    *)
StopCloseClients ==
  /\ ~wedged
  /\ \A c \in Conns : link[c] # "up"
  /\ StopStep("cancelled", "clientsClosed")
  /\ UNCHANGED <<handlerVars, tableVars, linkVars, remoteVars, sem, wedged, panic>>

StopBlocks ==
  /\ stopPc = "cancelled"
  /\ Wedge({c \in Conns : link[c] = "up"})
  /\ UNCHANGED <<handlerVars, tableVars, remoteVars, sem, stopPc, panic>>

StopClearRequests ==
  /\ StopStep("clientsClosed", "cleared")
  /\ CancelRequests(table)
  /\ UNCHANGED <<handlerVars, linkVars, remoteVars, sem, wedged>>

(* Shutdown waits five seconds for the handlers, whether they end or not.  *)
StopShutdown ==
  /\ StopStep("cleared", "shutdown")
  /\ UNCHANGED <<handlerVars, tableVars, linkVars, remoteVars, sem, wedged, panic>>

(* wg.Wait waits for the cleaner; then main returns.                       *)
StopExit ==
  /\ ~wedged
  /\ StopStep("shutdown", "exited")
  /\ UNCHANGED <<handlerVars, tableVars, linkVars, remoteVars, sem, wedged, panic>>

Stop ==
  \/ StopCancel
  \/ StopCloseClients \/ StopBlocks
  \/ StopClearRequests
  \/ StopShutdown
  \/ StopExit

-----------------------------------------------------------------------------

Serve ==
  \/ \E r \in Requests : Admit(r) \/ Refuse(r) \/ Handler(r) \/ RemoteReply(r) \/ Expire(r)
  \/ \E c \in Conns : Connect(c) \/ Disconnect(c) \/ ReadMessage(c)
                        \/ ForwardMessage(c) \/ WriteRequest(c)
  \/ CleanupExpiredRequests

(* A panic outside a handler, like the end of main, takes the process.     *)
Alive == panic = "none" /\ stopPc # "exited"

(* The server has nothing left to do for this finite set of calls.         *)
Finished ==
  /\ ~Alive \/ \A r \in Requests : pc[r] = "done"
  /\ UNCHANGED vars

Next == (Alive /\ (Serve \/ Stop \/ WedgeCleaner)) \/ Finished

Spec == Init /\ [][Next]_vars

(* A server that is not being stopped and whose cleaner is not stuck.      *)
ServeNext == (Alive /\ Serve) \/ Finished

ServeSpec == Init /\ [][ServeNext]_vars

(* Goroutines are scheduled, the HTTP caller keeps reading, the 30-second  *)
(* ticker ticks and time passes; nothing is assumed of the network or of   *)
(* the other end.                                                          *)
FairServeSpec ==
  /\ ServeSpec
  /\ \A r \in Requests : WF_vars(Alive /\ Handler(r)) /\ WF_vars(Alive /\ Expire(r))
  /\ WF_vars(Alive /\ CleanupExpiredRequests)

-----------------------------------------------------------------------------
(* Properties                                                              *)

Holding == {r \in Requests : pc[r] \notin {"new", "done"}}

(* The semaphore counts exactly the calls between admission and return, on *)
(* every path a handler takes out (early return, answer, cancellation,     *)
(* panic), and never exceeds its capacity: no slot is leaked or freed      *)
(* twice.                                                                  *)
SlotAccounting ==
  /\ sem = Cardinality(Holding)
  /\ sem <= MaxConcurrentRequests

(* The table holds an entry only while its handler still has the deferred  *)
(* UnregisterRequest before it, and both channels of that entry are open.  *)
(* A handler in its select never sees ResponseChan closed, so its          *)
(* "msg == nil" branch is dead; a closed DoneChan means the entry is gone. *)
TableOwnership ==
  \A r \in Requests :
    /\ r \in table => /\ pc[r] \in {"sending", "waiting", "leaving"}
                      /\ ~respClosed[r] /\ ~doneClosed[r]
    /\ respClosed[r] => pc[r] \in {"releasing", "done"}

(* The cleaner, Stop and the handlers race to retire the same entry; none  *)
(* of them ever closes a channel another has closed.                       *)
CloseDiscipline == panic # "closeOfClosed"

(* readPump sends into a ResponseChan that a handler may be closing, in a  *)
(* goroutine whose panic ends the server.  It takes a Stop, a stuck        *)
(* cleaner or a client that reconnected: otherwise a handler leaves its    *)
(* entry in the table only after the last message of the call.             *)
ForwardNeverPanics ==
  panic = "sendOnClosed" => Cancelled \/ wedged \/ Reconnected

(* main.go:127 announces a graceful shutdown: a server that is being       *)
(* stopped should not crash.  The handlers leave on the cancelled context  *)
(* and close channels that readPump is still sending to.                   *)
GracefulStop == Cancelled /\ ~wedged /\ ~Reconnected => panic = "none"

phase == [r \in Requests |->
            CASE pc[r] = "new" -> "new"
              [] pc[r] \in {"leaving", "releasing"} -> "answered"
              [] pc[r] = "done" -> "closed"
              [] OTHER -> "open"]

Abstract == INSTANCE ProxyCalls WITH
              delivered <- chunks, Pieces <- 1 .. (MaxChunks + 1)

(* The handlers, channels and connections implement ProxyCalls; the order  *)
(* of the pieces of a stream needs that the client keeps its connection.   *)
Contract == Abstract!Spec

(* An admitted call is answered and gives its slot back although requests  *)
(* and answers may be lost anywhere: a full SendChan ends in "Client busy" *)
(* and a silent client in the cleaner's closing of DoneChan.               *)
EveryCallAnswered == \A r \in Requests : pc[r] = "admitted" ~> pc[r] = "done"

(* proxy.go:140 answers a streaming call whose upstream did not stream     *)
(* with an ordinary response; the handler that takes it should answer.     *)
ResponseNotLost ==
  [][\A r \in Requests :
       /\ pc[r] = "waiting" /\ respChan[r] # <<>>
       /\ Head(respChan[r]).kind = "response"
       /\ respChan'[r] = Tail(respChan[r])
       => outcome'[r] \in {"relayed", "undecodable"}]_vars

(* README.md:13 promises complete support of streaming: a stream the model *)
(* is still producing should not be ended with [DONE] by a running server. *)
StreamRunsToItsEnd ==
  \A r \in Streams :
    outcome[r] = "cancelled" =>
      \/ Cancelled \/ link[conn[r]] # "up" \/ r \notin asked
      \/ \E m \in sent[r] : m.kind # "chunk"

=============================================================================
