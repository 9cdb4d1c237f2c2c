----------------------------- MODULE RelayProofs -----------------------------
(***************************************************************************)
(* Proofs about server and client together, for every finite set of calls, *)
(* every set of connections, every capacity and any number of pieces, and  *)
(* however often the client reconnects.                                    *)
(*                                                                         *)
(*   Implements   Spec => Assumed: the other end of RequestTable is a      *)
(*                sound picture of the client                              *)
(*   Delivery     Spec => []Delivered                                      *)
(*   Silence      Spec => []NothingAfterLast                               *)
(*   PairContract, PairNeverPanics                                         *)
(*                what ContractProofs shows of the server, without its     *)
(*                assumptions about the other end                          *)
(*                                                                         *)
(* RelayInv joins the invariants of the two processes, proved in           *)
(* ContractProofs and ClientWorkerProofs, by what lies between them: the   *)
(* messages of a call are in order from the client's log through sendChan  *)
(* to the pumps, and only a second pump can put one before another.  A     *)
(* step then is one of RequestTable, and what ContractProofs shows of      *)
(* RequestTable, read through Asked and Sent, is shown of the pair.        *)
(***************************************************************************)
EXTENDS Relay, FiniteSetTheorems, TLAPS

ServerProofs == INSTANCE ContractProofs WITH asked <- Asked, sent <- Sent

ClientProofs == INSTANCE ClientWorkerProofs WITH
                  MaxConcurrentRequests <- ClientMax, SendCap <- ClientSendCap,
                  sem <- jobs, chunks <- events, sendChan <- out,
                  stopPc <- clientStop, panic <- clientPanic

-----------------------------------------------------------------------------
(* What is proved of the two processes applies to their instances here     *)

(* The assumptions of the server's modules.                                *)
LEMMA ServerAssumed ==
  /\ ServerProofs!IsFiniteSet(Requests) /\ Streams \subseteq Requests
  /\ NoConn \notin Conns
  /\ MaxConcurrentRequests \in Nat /\ MaxChunks \in Nat
  /\ RespCap \in Nat \ {0} /\ SendCap \in Nat \ {0}
  /\ NoMsg \notin ServerProofs!Messages
BY RequestsAssumption, ConnsAssumption, CapacityAssumption, NoMsgAssumption
   DEF ServerProofs!IsFiniteSet, IsFiniteSet, ServerProofs!Messages, Server!Messages,
       ServerProofs!Kinds, Server!Kinds

(* Those of the client's.                                                 *)
LEMMA ClientAssumed ==
  /\ ClientProofs!IsFiniteSet(Requests) /\ Streams \subseteq Requests
  /\ NoRequest \notin Requests
  /\ ClientMax \in Nat /\ MaxChunks \in Nat
  /\ RecvCap \in Nat \ {0} /\ ClientSendCap \in Nat \ {0}
BY RequestsAssumption, CapacityAssumption DEF ClientProofs!IsFiniteSet, IsFiniteSet

(* Both instances of RequestTable mean the same steps.                     *)
LEMMA SameHandler ==
  ASSUME NEW r \in Requests, Server!Handler(r)
  PROVE  ServerProofs!Handler(r)
<1> USE DEF Server!handlerVars, ServerProofs!handlerVars,
            Server!tableVars, ServerProofs!tableVars, Server!linkVars,
            ServerProofs!linkVars, Server!remoteVars,
            ServerProofs!remoteVars, Server!procVars,
            ServerProofs!procVars, Server!GoTo, ServerProofs!GoTo,
            Server!Return, ServerProofs!Return, Server!Sending,
            ServerProofs!Sending, Server!AnswerError,
            ServerProofs!AnswerError, Server!Cancelled,
            ServerProofs!Cancelled
<1>1. Server!PickClient(r) => ServerProofs!PickClient(r)
  BY DEF Server!PickClient, ServerProofs!PickClient
<1>2. Server!Reject(r) => ServerProofs!Reject(r)
  BY DEF Server!Reject, ServerProofs!Reject
<1>3. Server!RegisterRequest(r) => ServerProofs!RegisterRequest(r)
  BY DEF Server!RegisterRequest, ServerProofs!RegisterRequest
<1>4. Server!SendRequest(r) => ServerProofs!SendRequest(r)
  BY DEF Server!SendRequest, ServerProofs!SendRequest
<1>5. Server!SendBusy(r) => ServerProofs!SendBusy(r)
  BY DEF Server!SendBusy, ServerProofs!SendBusy
<1>6. Server!SendPanics(r) => ServerProofs!SendPanics(r)
  BY DEF Server!SendPanics, ServerProofs!SendPanics
<1>7. Server!ReceiveAnswer(r) => ServerProofs!ReceiveAnswer(r)
  BY DEF Server!ReceiveAnswer, ServerProofs!ReceiveAnswer
<1>8. Server!ReceiveStream(r) => ServerProofs!ReceiveStream(r)
  BY DEF Server!ReceiveStream, ServerProofs!ReceiveStream
<1>9. Server!GiveUp(r) => ServerProofs!GiveUp(r)
  BY DEF Server!GiveUp, ServerProofs!GiveUp
<1>10. Server!UnregisterRequest(r) => ServerProofs!UnregisterRequest(r)
  BY DEF Server!UnregisterRequest, ServerProofs!UnregisterRequest
<1>11. Server!ReleaseSlot(r) => ServerProofs!ReleaseSlot(r)
  BY DEF Server!ReleaseSlot, ServerProofs!ReleaseSlot
<1> QED
  BY <1>1, <1>2, <1>3, <1>4, <1>5, <1>6, <1>7, <1>8, <1>9, <1>10, <1>11
     DEF Server!Handler, ServerProofs!Handler

LEMMA SameCount == \A S : Server!Cardinality(S) = ServerProofs!Cardinality(S)
  BY DEF Server!Cardinality, ServerProofs!Cardinality

LEMMA SameReconnected == Server!Reconnected <=> ServerProofs!Reconnected
BY SameCount DEF Server!Reconnected, ServerProofs!Reconnected

LEMMA SameSteps ==
  ASSUME Server!ServeNext
  PROVE  ServerProofs!ServeNext
<1> USE DEF Server!handlerVars, ServerProofs!handlerVars,
            Server!tableVars, ServerProofs!tableVars, Server!linkVars,
            ServerProofs!linkVars, Server!remoteVars,
            ServerProofs!remoteVars, Server!procVars,
            ServerProofs!procVars, Server!GoTo, ServerProofs!GoTo,
            Server!Return, ServerProofs!Return, Server!Listening,
            ServerProofs!Listening, Server!Cancelled,
            ServerProofs!Cancelled
<1>1. ASSUME NEW r \in Requests
      PROVE  /\ Server!Admit(r) => ServerProofs!Admit(r)
             /\ Server!Refuse(r) => ServerProofs!Refuse(r)
             /\ Server!Expire(r) => ServerProofs!Expire(r)
  BY DEF Server!Admit, ServerProofs!Admit, Server!Refuse,
         ServerProofs!Refuse, Server!Expire, ServerProofs!Expire
<1>2. ASSUME NEW r \in Requests
      PROVE  Server!RemoteReply(r) => ServerProofs!RemoteReply(r)
  <2>1. \A m : Server!MayLeave(r, m) <=> ServerProofs!MayLeave(r, m)
    BY SameCount, SameReconnected DEF Server!MayLeave, ServerProofs!MayLeave, Server!Kind,
      ServerProofs!Kind
  <2> QED
    BY <2>1 DEF Server!RemoteReply, ServerProofs!RemoteReply, Server!Kinds,
      ServerProofs!Kinds
<1>3. ASSUME NEW c \in Conns
      PROVE  /\ Server!Connect(c) => ServerProofs!Connect(c)
             /\ Server!Disconnect(c) => ServerProofs!Disconnect(c)
             /\ Server!ReadMessage(c) => ServerProofs!ReadMessage(c)
             /\ Server!ForwardMessage(c) => ServerProofs!ForwardMessage(c)
             /\ Server!WriteRequest(c) => ServerProofs!WriteRequest(c)
  BY DEF Server!Connect, ServerProofs!Connect, Server!Disconnect,
         ServerProofs!Disconnect, Server!Shut, ServerProofs!Shut,
         Server!ReadMessage, ServerProofs!ReadMessage,
         Server!ForwardMessage, ServerProofs!ForwardMessage,
         Server!WriteRequest, ServerProofs!WriteRequest
<1>4. Server!CleanupExpiredRequests => ServerProofs!CleanupExpiredRequests
  BY DEF Server!CleanupExpiredRequests,
         ServerProofs!CleanupExpiredRequests, Server!CancelRequests,
         ServerProofs!CancelRequests
<1>5. /\ Server!Alive <=> ServerProofs!Alive
      /\ Server!Finished => ServerProofs!Finished
  BY DEF Server!Alive, ServerProofs!Alive, Server!Finished,
         ServerProofs!Finished, Server!vars, ServerProofs!vars
<1> QED
  BY <1>1, <1>2, <1>3, <1>4, <1>5, SameHandler
     DEF Server!ServeNext, ServerProofs!ServeNext, Server!Serve,
         ServerProofs!Serve

LEMMA SameVars == UNCHANGED Server!vars => UNCHANGED ServerProofs!vars
BY DEF Server!vars, ServerProofs!vars, Server!handlerVars,
       ServerProofs!handlerVars, Server!tableVars, ServerProofs!tableVars,
       Server!linkVars, ServerProofs!linkVars, Server!remoteVars,
       ServerProofs!remoteVars, Server!procVars, ServerProofs!procVars

(* So what RequestTable does while it serves is a step of the instance the *)
(* proofs are about.                                                       *)
LEMMA SameNext ==
  ASSUME [Server!ServeNext]_(Server!vars)
  PROVE  [ServerProofs!Next]_(ServerProofs!vars)
<1>1. Server!ServeNext => ServerProofs!Next
  BY SameSteps DEF ServerProofs!ServeNext, ServerProofs!Next
<1>2. UNCHANGED Server!vars => UNCHANGED ServerProofs!vars
  BY SameVars
<1> QED
  BY <1>1, <1>2

(* A step of RequestTable keeps its invariant, ...                         *)
LEMMA ServerStep ==
  ASSUME ServerProofs!FullInv, [Server!ServeNext]_(Server!vars)
  PROVE  ServerProofs!FullInv'
BY SameNext, ServerAssumed, ServerProofs!FullStep

(* ... and one of ClientWorker its own.                                    *)
LEMMA ClientStep ==
  ASSUME ClientProofs!IInv, [ClientProofs!Next]_(ClientProofs!vars)
  PROVE  ClientProofs!IInv'
BY ClientAssumed, ClientProofs!InvStep

-----------------------------------------------------------------------------
(* The inductive invariant                                                 *)

(* The client is not stopped.                                              *)
Quiet == ~sendClosed /\ clientStop = "running" /\ ~clientPanic

(* The connections that have a writePump, or had one.                      *)
Dialled == {c \in Conns : pump[c] # "none"}

Alone == \A c, d \in Dialled : c = d

Holding == {c \in Conns : pump[c] = "holding"}

PumpInv ==
  /\ current \in Conns \cup {NoConn}
  /\ pump \in [Conns -> {"none", "idle", "holding", "exited"}]
  /\ held \in [Conns -> [msg : (Requests \cup {NoRequest}) \X Nat, over : Conns \cup {NoConn}]]
  /\ \A c \in Conns :
       /\ pump[c] # "holding" => held[c] = Nothing
       /\ pump[c] = "holding" => held[c].over \in Conns /\ held[c].msg[1] \in Requests
       /\ pump[c] = "none" <=> link[c] = "absent"
       /\ pump[c] # "none" => current \in Conns

(* What has been put into sendChan for r is what RequestTable expects, and *)
(* no more messages than there were events.                                *)
Logged(r) ==
  /\ job[r] \in {"new", "queued", "dropped", "started"} => log[r] = <<>> /\ events[r] = 0
  /\ \A i \in DOMAIN log[r] : log[r][i] \in Server!Kind(r, i) /\ i <= MaxChunks + 1
  /\ job[r] \in {"asking", "sending"} => Len(log[r]) <= events[r]
  /\ job[r] = "sending" =>
       /\ answer[r] = "chunk" => Len(log[r]) < events[r] /\ r \in Streams
       /\ answer[r] = "end" => r \in Streams
       /\ answer[r] = "response" => events[r] = 0

LogInv == \A r \in Requests : Logged(r)

(* Message k of r is in sendChan, ...                                      *)
InOut(r, k) == \E i \in DOMAIN out : out[i] = <<r, k>>

(* ... where the messages of a call are in order, the last ones without a  *)
(* gap, ...                                                                *)
OutInv ==
  /\ \A i \in DOMAIN out : out[i][2] \in DOMAIN log[out[i][1]]
  /\ \A i, j \in DOMAIN out : i < j /\ out[i][1] = out[j][1] => out[i][2] < out[j][2]
  /\ \A i \in DOMAIN out : \A k \in DOMAIN log[out[i][1]] :
       out[i][2] < k => InOut(out[i][1], k)

(* ... and the pumps hold earlier ones, each its own, the only pump the    *)
(* one just before them.                                                   *)
HeldInv ==
  /\ \A c \in Holding :
       /\ held[c].msg[2] \in DOMAIN log[held[c].msg[1]]
       /\ \A i \in DOMAIN out : out[i][1] = held[c].msg[1] => held[c].msg[2] < out[i][2]
  /\ \A c, d \in Holding : held[c].msg = held[d].msg => c = d
  /\ Alone => \A c \in Holding : \A k \in DOMAIN log[held[c].msg[1]] :
                held[c].msg[2] < k => InOut(held[c].msg[1], k)

RelayInv ==
  /\ Quiet /\ PumpInv /\ LogInv /\ OutInv /\ HeldInv
  /\ ClientProofs!IInv /\ ServerProofs!FullInv

-----------------------------------------------------------------------------
(* Types                                                                   *)

LEMMA ClientType ==
  ASSUME ClientProofs!IInv
  PROVE  /\ job \in [Requests -> {"new", "queued", "dropped", "started", "asking", "sending",
                                  "finishing", "done"}]
         /\ recvChan \in Seq(Requests) /\ inHand \in Requests \cup {NoRequest}
         /\ events \in [Requests -> 0 .. MaxChunks]
         /\ answer \in [Requests -> {"response", "chunk", "end", "error"}]
         /\ out \in Seq(Requests \X Nat)
         /\ log \in [Requests -> Seq({"response", "chunk", "end", "error"})]
BY DEF ClientProofs!IInv, ClientProofs!TypeOK, ClientProofs!Jobs, ClientProofs!Kinds

LEMMA ServerType ==
  ASSUME ServerProofs!FullInv
  PROVE  /\ link \in [Conns -> {"absent", "up", "closed"}]
         /\ sendChan \in [Conns -> Seq(Requests)]
BY DEF ServerProofs!FullInv, ServerProofs!IInv, ServerProofs!TypeOK

-----------------------------------------------------------------------------
(* The client's side of a step is a step of ClientWorker                   *)

LEMMA SameJob ==
  ASSUME NEW r \in Requests, Client!Job(r)
  PROVE  ClientProofs!Job(r)
<1> USE DEF Client!workVars, ClientProofs!workVars, Client!stopVars, ClientProofs!stopVars,
            Client!GoTo, ClientProofs!GoTo, Client!AfterSend, ClientProofs!AfterSend,
            Client!ctxDone, ClientProofs!ctxDone
<1>1. Client!Unreadable(r) => ClientProofs!Unreadable(r)
  BY DEF Client!Unreadable, ClientProofs!Unreadable
<1>2. Client!AskModel(r) => ClientProofs!AskModel(r)
  BY DEF Client!AskModel, ClientProofs!AskModel
<1>3. Client!ModelAnswers(r) => ClientProofs!ModelAnswers(r)
  BY DEF Client!ModelAnswers, ClientProofs!ModelAnswers, Client!PlainAnswer,
         ClientProofs!PlainAnswer, Client!ReadEvent, ClientProofs!ReadEvent
<1>4. Client!SendAnswer(r) => ClientProofs!SendAnswer(r)
  BY DEF Client!SendAnswer, ClientProofs!SendAnswer
<1>5. Client!LoseAnswer(r) => ClientProofs!LoseAnswer(r)
  BY DEF Client!LoseAnswer, ClientProofs!LoseAnswer
<1>6. Client!SendOnClosed(r) => ClientProofs!SendOnClosed(r)
  BY DEF Client!SendOnClosed, ClientProofs!SendOnClosed
<1>7. Client!Finish(r) => ClientProofs!Finish(r)
  BY DEF Client!Finish, ClientProofs!Finish
<1> QED
  BY <1>1, <1>2, <1>3, <1>4, <1>5, <1>6, <1>7 DEF Client!Job, ClientProofs!Job

LEMMA ClientSide ==
  ASSUME Quiet, ServerProofs!FullInv, [Next]_vars
  PROVE  [ClientProofs!Next]_(ClientProofs!vars) /\ Quiet'
<1> USE DEF Client!stopVars, ClientProofs!stopVars, Client!GoTo, ClientProofs!GoTo
<1>0. ClientProofs!Alive
  BY DEF ClientProofs!Alive, Quiet
<1>1. ASSUME NEW r \in Requests, Client!Job(r)
      PROVE  ClientProofs!Next /\ Quiet'
  <2>1. ClientProofs!Job(r)
    BY <1>1, SameJob
  <2>2. UNCHANGED <<sendClosed, clientStop, clientPanic>>
    BY <2>1 DEF Quiet, ClientProofs!Job, ClientProofs!Unreadable, ClientProofs!AskModel,
       ClientProofs!ModelAnswers, ClientProofs!SendAnswer, ClientProofs!LoseAnswer,
       ClientProofs!SendOnClosed, ClientProofs!Finish
  <2> QED
    BY <1>0, <2>1, <2>2 DEF Quiet, ClientProofs!Next, ClientProofs!Work
<1>2. ASSUME Client!Processor
      PROVE  ClientProofs!Next /\ Quiet'
  <2>1. ClientProofs!Processor /\ UNCHANGED <<sendClosed, clientStop, clientPanic>>
    BY <1>2 DEF Client!Processor, ClientProofs!Processor, Client!TakeRequest,
       ClientProofs!TakeRequest, Client!StartJob, ClientProofs!StartJob,
       Client!ProcessorReturns, ClientProofs!ProcessorReturns, Client!ctxDone,
       ClientProofs!ctxDone
  <2> QED
    BY <1>0, <2>1 DEF Quiet, ClientProofs!Next, ClientProofs!Work
<1>3. ASSUME NEW c \in Conns, DeliverRequest(c)
      PROVE  ClientProofs!Next /\ Quiet'
  <2>1. Head(sendChan[c]) \in Requests
    BY <1>3, ServerType DEF DeliverRequest
  <2>2. PICK r \in Requests : Client!Receive(r)
    BY <1>3, <2>1 DEF DeliverRequest
  <2>3. ClientProofs!Receive(r) /\ UNCHANGED <<sendClosed, clientStop, clientPanic>>
    BY <2>2 DEF Client!Receive, ClientProofs!Receive
  <2> QED
    BY <1>0, <2>3 DEF Quiet, ClientProofs!Next, ClientProofs!Work
<1>4. ASSUME NEW w \in Conns, TakeAnswer(w)
      PROVE  ClientProofs!Next /\ Quiet'
  <2>1. ClientProofs!WriteAnswer /\ UNCHANGED <<sendClosed, clientStop, clientPanic>>
    BY <1>4 DEF TakeAnswer, Client!WriteAnswer, ClientProofs!WriteAnswer, Client!workVars,
       ClientProofs!workVars
  <2> QED
    BY <1>0, <2>1 DEF Quiet, ClientProofs!Next, ClientProofs!Work
<1>5. ASSUME \/ ServerMoves \/ UNCHANGED vars
             \/ \E c \in Conns : Connect(c) \/ LoseRequest(c) \/ WriteHeld(c) \/ LoseHeld(c)
      PROVE  UNCHANGED ClientProofs!vars /\ Quiet'
  <2>1. UNCHANGED clientVars
    BY <1>5 DEF ServerMoves, Connect, LoseRequest, WriteHeld, LoseHeld, vars
  <2> QED
    BY <2>1 DEF clientVars, Quiet, ClientProofs!vars, ClientProofs!workVars
<1> QED
  BY <1>1, <1>2, <1>3, <1>4, <1>5 DEF Next, ClientMoves

-----------------------------------------------------------------------------
(* What a step does to the answers and to the pumps                        *)

SameDials == current' = current /\ \A c \in Conns : link'[c] = "absent" <=> link[c] = "absent"

(* goroutine r puts a message into sendChan *)
Sends(r) == Client!SendAnswer(r) /\ UNCHANGED <<pump, held>> /\ SameDials

Takes(w) == TakeAnswer(w) /\ UNCHANGED log /\ SameDials

Puts(w) ==
  (\E state \in {"idle", "exited"} : PutDown(w, state)) /\ UNCHANGED <<log, out>> /\ SameDials

Dials(c) ==
  /\ pump' = [pump EXCEPT ![c] = "idle"] /\ UNCHANGED <<log, out, held>>
  /\ link[c] = "absent" /\ link' = [link EXCEPT ![c] = "up"] /\ current' = c

LEMMA ServerSide ==
  ASSUME ServerProofs!FullInv, ServerMoves
  PROVE  SameDials
<1> USE ServerType DEF Server!linkVars
<1>1. ASSUME NEW r \in Requests, \/ Server!Admit(r) \/ Server!Refuse(r) \/ Server!Handler(r)
                                 \/ Server!Expire(r)
      PROVE  UNCHANGED link
  BY <1>1 DEF Server!Admit, Server!Refuse, Server!Handler, Server!Expire, Server!PickClient,
     Server!Reject, Server!RegisterRequest, Server!SendRequest, Server!SendBusy,
     Server!SendPanics, Server!ReceiveAnswer, Server!ReceiveStream, Server!GiveUp,
     Server!UnregisterRequest, Server!ReleaseSlot
<1>2. ASSUME NEW c \in Conns, Server!ReadMessage(c) \/ Server!ForwardMessage(c)
      PROVE  UNCHANGED link
  BY <1>2 DEF Server!ReadMessage, Server!ForwardMessage
<1>3. ASSUME NEW c \in Conns, Server!Disconnect(c)
      PROVE  \A d \in Conns : link'[d] = "absent" <=> link[d] = "absent"
  BY <1>3 DEF Server!Disconnect, Server!Shut
<1>4. ASSUME Server!CleanupExpiredRequests
      PROVE  UNCHANGED link
  BY <1>4 DEF Server!CleanupExpiredRequests
<1> QED
  BY <1>1, <1>2, <1>3, <1>4 DEF ServerMoves, SameDials, pumpVars

LEMMA Ways ==
  ASSUME RelayInv, [Next]_vars
  PROVE  \/ \E r \in Requests : Sends(r)
         \/ \E w \in Conns : Takes(w) \/ Puts(w) \/ Dials(w)
         \/ UNCHANGED <<log, out, pump, held>> /\ SameDials
<1> USE DEF RelayInv, clientVars, pumpVars, serverVars
<1>1. CASE ServerMoves
  BY <1>1, ServerSide DEF ServerMoves
<1>2. ASSUME NEW r \in Requests, Client!Job(r), UNCHANGED <<serverVars, pumpVars>>
      PROVE  Sends(r) \/ (UNCHANGED <<log, out, pump, held>> /\ SameDials)
  BY <1>2 DEF Client!Job, Client!Unreadable, Client!AskModel, Client!ModelAnswers,
     Client!LoseAnswer, Client!SendOnClosed, Client!Finish, Sends, SameDials
<1>3. ASSUME Client!Processor, UNCHANGED <<serverVars, pumpVars>>
      PROVE  UNCHANGED <<log, out, pump, held>> /\ SameDials
  BY <1>3 DEF Client!Processor, Client!TakeRequest, Client!StartJob,
     Client!ProcessorReturns, SameDials
<1>4. ASSUME NEW c \in Conns, Connect(c)
      PROVE  Dials(c)
  BY <1>4 DEF Connect, Server!Connect, Dials
<1>5. ASSUME NEW c \in Conns, DeliverRequest(c) \/ LoseRequest(c)
      PROVE  UNCHANGED <<log, out, pump, held>> /\ SameDials
  BY <1>5 DEF DeliverRequest, LoseRequest, Client!Receive, Server!WriteRequest, SameDials
<1>6. ASSUME NEW w \in Conns, TakeAnswer(w)
      PROVE  Takes(w)
  BY <1>6 DEF TakeAnswer, Client!WriteAnswer, Takes, SameDials
<1>7. ASSUME NEW w \in Conns, WriteHeld(w) \/ LoseHeld(w)
      PROVE  Puts(w)
  BY <1>7 DEF WriteHeld, LoseHeld, PutDown, Puts, SameDials
<1>8. CASE UNCHANGED vars
  BY <1>8 DEF vars, SameDials
<1> QED
  BY <1>1, <1>2, <1>3, <1>4, <1>5, <1>6, <1>7, <1>8 DEF Next, ClientMoves

-----------------------------------------------------------------------------
(* The pumps                                                               *)

LEMMA PumpStep ==
  ASSUME RelayInv, [Next]_vars
  PROVE  PumpInv' /\ (Alone' => Alone)
<1>1. /\ PumpInv /\ NoRequest \notin Requests /\ NoConn \notin Conns
      /\ out \in Seq(Requests \X Nat)
      /\ link \in [Conns -> {"absent", "up", "closed"}]
  BY RequestsAssumption, ConnsAssumption, ServerType, ClientType DEF RelayInv
<1> USE <1>1 DEF PumpInv, Alone, Dialled
<1>2. ASSUME UNCHANGED <<pump, held>>, SameDials
      PROVE  PumpInv' /\ (Alone' => Alone)
  BY <1>2 DEF SameDials
<1>3. ASSUME NEW w \in Conns, Takes(w)
      PROVE  PumpInv' /\ (Alone' => Alone)
  <2>1. out # <<>> /\ Head(out) \in Requests \X Nat
    BY <1>3 DEF Takes, TakeAnswer, Client!WriteAnswer
  <2>2. /\ pump[w] = "idle" /\ pump' = [pump EXCEPT ![w] = "holding"]
        /\ held' = [held EXCEPT ![w] = [msg |-> Head(out), over |-> current]]
    BY <1>3 DEF Takes, TakeAnswer
  <2>3. current \in Conns
    BY <2>2
  <2>4. /\ [msg |-> Head(out), over |-> current]
             \in [msg : (Requests \cup {NoRequest}) \X Nat, over : Conns \cup {NoConn}]
        /\ Head(out)[1] \in Requests
    BY <2>1, <2>3
  <2>5. /\ pump' \in [Conns -> {"none", "idle", "holding", "exited"}]
        /\ held' \in [Conns -> [msg : (Requests \cup {NoRequest}) \X Nat, over : Conns \cup {NoConn}]]
    BY <2>2, <2>4
  <2>6. /\ current' = current
        /\ \A c \in Conns : link'[c] = "absent" <=> link[c] = "absent"
    BY <1>3 DEF Takes, SameDials
  <2>7. \A c \in Conns : c # w => pump'[c] = pump[c] /\ held'[c] = held[c]
    BY <2>2
  <2>8. pump'[w] = "holding" /\ held'[w].over \in Conns /\ held'[w].msg[1] \in Requests
    BY <2>2, <2>3, <2>4
  <2>9. Nothing' = Nothing
    BY DEF Nothing
  <2>10. PumpInv'
    BY <2>2, <2>3, <2>5, <2>6, <2>7, <2>8, <2>9
  <2> QED
    BY <2>2, <2>7, <2>8, <2>10
<1>4. ASSUME NEW w \in Conns, Puts(w)
      PROVE  PumpInv' /\ (Alone' => Alone)
  <2>1. PICK state \in {"idle", "exited"} : PutDown(w, state)
    BY <1>4 DEF Puts
  <2>2. Nothing \in [msg : (Requests \cup {NoRequest}) \X Nat, over : Conns \cup {NoConn}]
    BY DEF Nothing
  <2>3. /\ pump[w] = "holding" /\ pump' = [pump EXCEPT ![w] = state]
        /\ held' = [held EXCEPT ![w] = Nothing]
    BY <2>1 DEF PutDown
  <2>4. /\ pump' \in [Conns -> {"none", "idle", "holding", "exited"}]
        /\ held' \in [Conns -> [msg : (Requests \cup {NoRequest}) \X Nat, over : Conns \cup {NoConn}]]
    BY <2>2, <2>3
  <2>5. SameDials
    BY <1>4 DEF Puts
  <2>6. Nothing' = Nothing
    BY DEF Nothing
  <2>7. PumpInv'
    BY <2>3, <2>4, <2>5, <2>6 DEF SameDials
  <2>8. Dialled' = Dialled
    BY <2>3
  <2> QED
    BY <2>7, <2>8
<1>5. ASSUME NEW c \in Conns, Dials(c)
      PROVE  PumpInv' /\ (Alone' => Alone)
  <2>1. Nothing' = Nothing
    BY DEF Nothing
  <2> QED
    BY <1>5, <2>1 DEF Dials
<1>6. ASSUME NEW r \in Requests, Sends(r)
      PROVE  UNCHANGED <<pump, held>> /\ SameDials
  BY <1>6 DEF Sends
<1> QED
  BY <1>2, <1>3, <1>4, <1>5, <1>6, Ways

-----------------------------------------------------------------------------
(* The messages of a call                                                  *)

LEMMA JobLogged ==
  ASSUME ClientProofs!IInv, NEW r \in Requests, Logged(r), Client!Job(r), clientStop = "running"
  PROVE  Logged(r)'
<1>1. /\ job \in [Requests -> {"new", "queued", "dropped", "started", "asking", "sending",
                               "finishing", "done"}]
      /\ events \in [Requests -> 0 .. MaxChunks]
      /\ answer \in [Requests -> {"response", "chunk", "end", "error"}]
      /\ log \in [Requests -> Seq({"response", "chunk", "end", "error"})]
      /\ MaxChunks \in Nat
  BY ClientType, ClientAssumed
<1>2. /\ Len(log[r]) \in Nat /\ DOMAIN log[r] = 1 .. Len(log[r])
      /\ events[r] \in Nat /\ events[r] <= MaxChunks
  BY <1>1
<1> USE DEF Client!GoTo
<1>3. CASE Client!Unreadable(r)
  <2>1. /\ UNCHANGED <<log, events>> /\ job[r] = "started"
        /\ job'[r] = "finishing" \/ (job'[r] = "sending" /\ answer'[r] = "error")
    BY <1>1, <1>3 DEF Client!Unreadable
  <2>2. Len(log[r]) = 0
    BY <1>1, <2>1 DEF Logged
  <2> QED
    BY <1>2, <2>1, <2>2 DEF Logged
<1>4. CASE Client!AskModel(r)
  <2>1. UNCHANGED <<log, events>> /\ job[r] = "started" /\ job'[r] = "asking"
    BY <1>1, <1>4 DEF Client!AskModel
  <2>2. Len(log[r]) = 0
    BY <1>1, <2>1 DEF Logged
  <2> QED
    BY <1>2, <2>1, <2>2 DEF Logged
<1>5. CASE Client!ModelAnswers(r)
  <2>1. PICK k \in Client!PlainAnswer(r) \cup Client!ReadEvent(r) :
          /\ answer' = [answer EXCEPT ![r] = k]
          /\ events' = [events EXCEPT ![r] = IF k = "chunk" THEN @ + 1 ELSE @]
    BY <1>5 DEF Client!ModelAnswers
  <2>2. UNCHANGED log /\ job[r] = "asking" /\ job'[r] = "sending" /\ answer'[r] = k
    BY <1>1, <1>5, <2>1 DEF Client!ModelAnswers
  <2>3. CASE k = "chunk"
    <3>1. r \in Streams /\ events'[r] = events[r] + 1
      BY <1>1, <2>1, <2>3 DEF Client!PlainAnswer, Client!ReadEvent
    <3> QED
      BY <1>2, <2>2, <2>3, <3>1 DEF Logged
  <2>4. CASE k # "chunk"
    <3>1. /\ events'[r] = events[r]
          /\ k = "end" => r \in Streams
          /\ k = "response" => events[r] = 0
      BY <1>1, <2>1, <2>4 DEF Client!PlainAnswer, Client!ReadEvent
    <3> QED
      BY <1>2, <2>2, <2>4, <3>1 DEF Logged
  <2> QED
    BY <2>3, <2>4
<1>6. CASE Client!SendAnswer(r)
  <2>1. /\ job[r] = "sending" /\ UNCHANGED events
        /\ job'[r] = "finishing" \/ (job'[r] = "asking" /\ answer[r] = "chunk")
        /\ log'[r] = Append(log[r], answer[r])
    BY <1>1, <1>6 DEF Client!SendAnswer, Client!AfterSend
  <2>2. /\ Len(log'[r]) = Len(log[r]) + 1 /\ DOMAIN log'[r] = 1 .. (Len(log[r]) + 1)
        /\ \A i \in 1 .. Len(log[r]) : log'[r][i] = log[r][i]
        /\ log'[r][Len(log[r]) + 1] = answer[r]
    BY <1>1, <2>1
  <2>3. answer[r] \in Server!Kind(r, Len(log[r]) + 1)
    <3>1. /\ answer[r] \in {"response", "chunk", "end", "error"}
          /\ Len(log[r]) <= events[r]
          /\ answer[r] = "chunk" => Len(log[r]) < events[r] /\ r \in Streams
          /\ answer[r] = "end" => r \in Streams
          /\ answer[r] = "response" => events[r] = 0
      BY <1>1, <2>1 DEF Logged
    <3>2. answer[r] = "response" => Len(log[r]) + 1 = 1
      BY <1>2, <3>1
    <3>3. answer[r] = "chunk" => Len(log[r]) + 1 <= MaxChunks
      BY <1>1, <1>2, <3>1
    <3> QED
      BY <3>1, <3>2, <3>3 DEF Server!Kind
  <2>4. Len(log[r]) + 1 <= MaxChunks + 1
    BY <1>1, <1>2, <2>1 DEF Logged
  <2>5. \A i \in DOMAIN log'[r] : log'[r][i] \in Server!Kind(r, i) /\ i <= MaxChunks + 1
    <3>1. \A i \in DOMAIN log'[r] : i \in DOMAIN log[r] \/ i = Len(log[r]) + 1
      BY <1>2, <2>2
    <3> QED
      BY <1>2, <2>2, <2>3, <2>4, <3>1 DEF Logged
  <2>6. answer[r] = "chunk" => Len(log[r]) + 1 <= events[r]
    BY <1>1, <1>2, <2>1 DEF Logged
  <2> QED
    BY <2>1, <2>2, <2>5, <2>6 DEF Logged, Server!Kind
<1>7. CASE Client!LoseAnswer(r)
  <2>1. /\ job[r] = "sending" /\ UNCHANGED <<events, log>>
        /\ job'[r] = "finishing" \/ job'[r] = "asking"
    BY <1>1, <1>7 DEF Client!LoseAnswer, Client!AfterSend
  <2> QED
    BY <2>1 DEF Logged
<1>8. CASE Client!SendOnClosed(r)
  BY <1>8 DEF Client!SendOnClosed, Client!workVars, Logged
<1>9. CASE Client!Finish(r)
  <2>1. job'[r] = "done" /\ UNCHANGED <<events, log>>
    BY <1>1, <1>9 DEF Client!Finish
  <2> QED
    BY <2>1 DEF Logged
<1> QED
  BY <1>3, <1>4, <1>5, <1>6, <1>7, <1>8, <1>9 DEF Client!Job

(* A goroutine touches the messages of its own request only.               *)
LEMMA JobLeaves ==
  ASSUME ClientProofs!IInv, NEW r \in Requests, NEW q \in Requests, q # r, Logged(q),
         Client!Job(r)
  PROVE  Logged(q)'
<1>1. /\ job'[q] = job[q] /\ events'[q] = events[q]
      /\ answer'[q] = answer[q] /\ log'[q] = log[q]
  BY ClientType DEF Client!Job, Client!Unreadable, Client!AskModel, Client!ModelAnswers,
     Client!SendAnswer, Client!LoseAnswer, Client!SendOnClosed, Client!Finish,
     Client!AfterSend, Client!GoTo
<1> QED
  BY <1>1 DEF Logged, Server!Kind

LEMMA LogStep ==
  ASSUME RelayInv, [Next]_vars
  PROVE  LogInv'
<1>1. LogInv /\ ClientProofs!IInv /\ clientStop = "running"
  BY DEF RelayInv, Quiet
<1>2. ASSUME NEW r \in Requests, Client!Job(r)
      PROVE  LogInv'
  BY <1>1, <1>2, JobLogged, JobLeaves DEF LogInv
<1>3. ASSUME \A q \in Requests : \/ job'[q] = job[q]
                                 \/ /\ job[q] \in {"new", "queued"}
                                    /\ job'[q] \in {"queued", "dropped", "started"},
             UNCHANGED <<events, answer, log>>
      PROVE  LogInv'
  BY <1>1, <1>3 DEF LogInv, Logged, Server!Kind
<1>4. CASE Client!Processor
  BY <1>1, <1>3, <1>4, ClientType DEF Client!Processor, Client!TakeRequest, Client!StartJob,
     Client!ProcessorReturns, Client!ctxDone, Client!GoTo
<1>5. ASSUME NEW c \in Conns, DeliverRequest(c)
      PROVE  LogInv'
  BY <1>3, <1>5, ClientType, <1>1 DEF DeliverRequest, Client!Receive, Client!GoTo
<1>6. ASSUME NEW w \in Conns, TakeAnswer(w)
      PROVE  LogInv'
  BY <1>3, <1>6 DEF TakeAnswer, Client!WriteAnswer
<1>7. ASSUME \/ ServerMoves \/ UNCHANGED vars
             \/ \E c \in Conns : Connect(c) \/ LoseRequest(c) \/ WriteHeld(c) \/ LoseHeld(c)
      PROVE  LogInv'
  <2>1. UNCHANGED clientVars
    BY <1>7 DEF ServerMoves, Connect, LoseRequest, WriteHeld, LoseHeld, vars
  <2> QED
    BY <1>3, <2>1 DEF clientVars
<1> QED
  BY <1>2, <1>4, <1>5, <1>6, <1>7 DEF Next, ClientMoves

-----------------------------------------------------------------------------
(* sendChan and the messages in the pumps' hands                           *)

(* A message is added at the end of its call and of sendChan.              *)
LEMMA SendsAt ==
  ASSUME RelayInv, NEW r \in Requests, Sends(r)
  PROVE  /\ UNCHANGED <<pump, held>>
         /\ Len(log[r]) \in Nat /\ DOMAIN log[r] = 1 .. Len(log[r])
         /\ log'[r] \in Seq({"response", "chunk", "end", "error"})
         /\ DOMAIN log'[r] = 1 .. (Len(log[r]) + 1)
         /\ \A k \in DOMAIN log[r] : log'[r][k] = log[r][k]
         /\ \A q \in Requests : q # r => log'[q] = log[q]
         /\ DOMAIN out \subseteq Nat /\ DOMAIN out' \subseteq Nat
         /\ \A i \in DOMAIN out : i \in DOMAIN out' /\ out'[i] = out[i]
         /\ \A i \in DOMAIN out' :
              \/ i \in DOMAIN out /\ out'[i] = out[i]
              \/ /\ out'[i] = <<r, Len(log[r]) + 1>>
                 /\ \A j \in DOMAIN out' : j <= i
         /\ \A k \in Nat : k = Len(log[r]) + 1 => InOut(r, k)'
<1>1. /\ log \in [Requests -> Seq({"response", "chunk", "end", "error"})]
      /\ answer \in [Requests -> {"response", "chunk", "end", "error"}]
      /\ out \in Seq(Requests \X Nat)
  BY ClientType DEF RelayInv
<1>2. /\ log' = [log EXCEPT ![r] = Append(@, answer[r])]
      /\ out' = Append(out, <<r, Len(log'[r])>>)
      /\ UNCHANGED <<pump, held>>
  BY DEF Sends, Client!SendAnswer
<1>3. Len(log[r]) \in Nat /\ DOMAIN log[r] = 1 .. Len(log[r])
  BY <1>1
<1>4. log'[r] = Append(log[r], answer[r]) /\ \A q \in Requests : q # r => log'[q] = log[q]
  BY <1>1, <1>2
<1>5. /\ log'[r] \in Seq({"response", "chunk", "end", "error"})
      /\ Len(log'[r]) = Len(log[r]) + 1 /\ DOMAIN log'[r] = 1 .. (Len(log[r]) + 1)
      /\ \A k \in DOMAIN log[r] : log'[r][k] = log[r][k]
  BY <1>1, <1>3, <1>4
<1>6. out' = Append(out, <<r, Len(log[r]) + 1>>) /\ <<r, Len(log[r]) + 1>> \in Requests \X Nat
  BY <1>2, <1>3, <1>5
<1>7. /\ DOMAIN out \subseteq Nat /\ DOMAIN out' \subseteq Nat
      /\ \A i \in DOMAIN out' :
           \/ i \in DOMAIN out /\ out'[i] = out[i]
           \/ /\ out'[i] = <<r, Len(log[r]) + 1>>
              /\ \A j \in DOMAIN out' : j <= i
  BY <1>1, <1>6, ServerAssumed, ServerProofs!AppendAt
<1>8. /\ \A i \in DOMAIN out : i \in DOMAIN out' /\ out'[i] = out[i]
      /\ Len(out) + 1 \in DOMAIN out' /\ out'[Len(out) + 1] = <<r, Len(log[r]) + 1>>
  <2>1. /\ Len(out) \in Nat /\ DOMAIN out = 1 .. Len(out)
        /\ DOMAIN out' = 1 .. (Len(out) + 1)
    BY <1>1, <1>6
  <2>2. /\ \A i \in 1 .. Len(out) : out'[i] = out[i]
        /\ out'[Len(out) + 1] = <<r, Len(log[r]) + 1>>
    BY <1>1, <1>6
  <2> QED
    BY <2>1, <2>2
<1>9. \A k \in Nat : k = Len(log[r]) + 1 => InOut(r, k)'
  BY <1>8 DEF InOut
<1> QED
  BY <1>2, <1>3, <1>4, <1>5, <1>7, <1>8, <1>9

(* The oldest message goes from sendChan to a pump.                        *)
LEMMA TakesAt ==
  ASSUME RelayInv, NEW w \in Conns, Takes(w)
  PROVE  /\ UNCHANGED log /\ held[w] = Nothing /\ w \notin Holding
         /\ Holding' = Holding \cup {w} /\ w \in Dialled /\ Dialled' = Dialled
         /\ 1 \in DOMAIN out /\ out[1] \in Requests \X Nat
         /\ held'[w].msg = out[1] /\ \A c \in Conns : c # w => held'[c] = held[c]
         /\ DOMAIN out \subseteq Nat
         /\ \A i \in DOMAIN out : i = 1 \/ (i - 1 \in DOMAIN out' /\ out'[i - 1] = out[i])
         /\ \A i \in DOMAIN out' : /\ i \in Nat /\ i + 1 \in DOMAIN out /\ 1 < i + 1
                                   /\ out'[i] = out[i + 1]
<1>1. PumpInv /\ out \in Seq(Requests \X Nat)
  BY ClientType DEF RelayInv
<1>2. /\ out # <<>> /\ out' = Tail(out) /\ pump[w] = "idle" /\ UNCHANGED log
      /\ pump' = [pump EXCEPT ![w] = "holding"]
      /\ held' = [held EXCEPT ![w] = [msg |-> Head(out), over |-> current]]
  BY DEF Takes, TakeAnswer, Client!WriteAnswer
<1>3. /\ held[w] = Nothing /\ held'[w].msg = Head(out)
      /\ \A c \in Conns : c # w => held'[c] = held[c]
      /\ Holding' = Holding \cup {w} /\ w \notin Holding
      /\ w \in Dialled /\ Dialled' = Dialled
  BY <1>1, <1>2 DEF PumpInv, Holding, Dialled
<1>4. /\ 1 \in DOMAIN out /\ Head(out) = out[1] /\ out[1] \in Requests \X Nat
      /\ DOMAIN out \subseteq Nat
      /\ \A i \in DOMAIN out' : /\ i \in Nat /\ i + 1 \in DOMAIN out /\ 1 < i + 1
                                /\ out'[i] = out[i + 1]
  BY <1>1, <1>2, ServerAssumed, ServerProofs!TailAt
<1>5. \A i \in DOMAIN out : i = 1 \/ (i - 1 \in DOMAIN out' /\ out'[i - 1] = out[i])
  <2>1. DOMAIN out' = 1 .. (Len(out) - 1) /\ DOMAIN out = 1 .. Len(out) /\ Len(out) \in Nat
    BY <1>1, <1>2
  <2> QED
    BY <1>4, <2>1
<1> QED
  BY <1>2, <1>3, <1>4, <1>5

(* A pump lets go of its message.                                          *)
LEMMA PutsAt ==
  ASSUME RelayInv, NEW w \in Conns, Puts(w)
  PROVE  /\ UNCHANGED <<log, out>> /\ w \in Holding /\ Holding' = Holding \ {w}
         /\ held'[w] = Nothing /\ \A c \in Conns : c # w => held'[c] = held[c]
         /\ Dialled' = Dialled
<1>1. PumpInv
  BY DEF RelayInv
<1>2. PICK state \in {"idle", "exited"} : PutDown(w, state)
  BY DEF Puts
<1> QED
  BY <1>1, <1>2 DEF Puts, PutDown, PumpInv, Holding, Dialled

LEMMA OutStep ==
  ASSUME RelayInv, [Next]_vars
  PROVE  OutInv'
<1>1. OutInv /\ out \in Seq(Requests \X Nat)
  BY ClientType DEF RelayInv
<1>2. CASE UNCHANGED <<log, out>>
  BY <1>1, <1>2 DEF OutInv, InOut
<1>3. ASSUME NEW r \in Requests, Sends(r)
      PROVE  OutInv'
  <2>1. PICK n \in Nat : n = Len(log[r]) + 1
    BY <1>3, SendsAt
  <2>2. /\ DOMAIN log[r] = 1 .. (n - 1) /\ DOMAIN log'[r] = 1 .. n
        /\ \A q \in Requests : q # r => log'[q] = log[q]
        /\ DOMAIN out \subseteq Nat /\ DOMAIN out' \subseteq Nat
        /\ \A i \in DOMAIN out : i \in DOMAIN out' /\ out'[i] = out[i]
        /\ \A i \in DOMAIN out' :
             \/ i \in DOMAIN out /\ out'[i] = out[i]
             \/ out'[i] = <<r, n>> /\ \A j \in DOMAIN out' : j <= i
        /\ InOut(r, n)' /\ n >= 1
    BY <1>3, <2>1, SendsAt
  <2>3. \A i \in DOMAIN out : out[i][1] \in Requests /\ out[i][2] \in Nat
    BY <1>1
  <2>4. ASSUME NEW i \in DOMAIN out'
        PROVE  out'[i][2] \in DOMAIN log'[out'[i][1]]
    <3>1. CASE i \in DOMAIN out /\ out'[i] = out[i]
      <4>1. out[i][2] \in DOMAIN log[out[i][1]]
        BY <1>1, <3>1 DEF OutInv
      <4> QED
        BY <2>2, <2>3, <3>1, <4>1
    <3>2. CASE out'[i] = <<r, n>>
      BY <2>2, <3>2
    <3> QED
      BY <2>2, <3>1, <3>2
  <2>5. ASSUME NEW i \in DOMAIN out', NEW j \in DOMAIN out', i < j, out'[i][1] = out'[j][1]
        PROVE  out'[i][2] < out'[j][2]
    <3>1. i \in DOMAIN out /\ out'[i] = out[i]
      BY <2>2, <2>5
    <3>2. CASE j \in DOMAIN out /\ out'[j] = out[j]
      BY <1>1, <2>5, <3>1, <3>2 DEF OutInv
    <3>3. CASE out'[j] = <<r, n>>
      <4>1. out[i][1] = r /\ out[i][2] \in 1 .. (n - 1)
        BY <1>1, <2>2, <2>5, <3>1, <3>3 DEF OutInv
      <4> QED
        BY <3>1, <3>3, <4>1
    <3> QED
      BY <2>2, <3>2, <3>3
  <2>6. ASSUME NEW i \in DOMAIN out', NEW k \in DOMAIN log'[out'[i][1]], out'[i][2] < k
        PROVE  \E j \in DOMAIN out' : out'[j] = <<out'[i][1], k>>
    <3>1. CASE out'[i] = <<r, n>>
      BY <2>2, <2>6, <3>1
    <3>2. CASE i \in DOMAIN out /\ out'[i] = out[i]
      <4>1. PICK q \in Requests : q = out[i][1]
        BY <2>3, <3>2
      <4>2. CASE k \in DOMAIN log[q]
        <5>1. PICK j \in DOMAIN out : out[j] = <<q, k>>
          BY <1>1, <2>6, <3>2, <4>1, <4>2 DEF OutInv, InOut
        <5> QED
          BY <2>2, <3>2, <4>1, <5>1 DEF InOut
      <4>3. CASE k \notin DOMAIN log[q]
        <5>1. q = r /\ k = n
          BY <2>1, <2>2, <2>6, <3>2, <4>1, <4>3
        <5> QED
          BY <2>2, <3>2, <4>1, <5>1 DEF InOut
      <4> QED
        BY <4>2, <4>3
    <3> QED
      BY <2>2, <3>1, <3>2
  <2> QED
    BY <2>4, <2>5, <2>6 DEF OutInv, InOut
<1>4. ASSUME NEW w \in Conns, Takes(w)
      PROVE  OutInv'
  <2>1. /\ UNCHANGED log /\ DOMAIN out \subseteq Nat /\ 1 \in DOMAIN out
        /\ \A i \in DOMAIN out : i = 1 \/ (i - 1 \in DOMAIN out' /\ out'[i - 1] = out[i])
        /\ \A i \in DOMAIN out' : /\ i \in Nat /\ i + 1 \in DOMAIN out /\ 1 < i + 1
                                  /\ out'[i] = out[i + 1]
    BY <1>4, TakesAt
  <2>2. \A i \in DOMAIN out' : out'[i][2] \in DOMAIN log'[out'[i][1]]
    BY <1>1, <2>1 DEF OutInv
  <2>3. ASSUME NEW i \in DOMAIN out', NEW j \in DOMAIN out', i < j, out'[i][1] = out'[j][1]
        PROVE  out'[i][2] < out'[j][2]
    <3>1. /\ i + 1 \in DOMAIN out /\ out'[i] = out[i + 1] /\ j + 1 \in DOMAIN out
          /\ out'[j] = out[j + 1] /\ i + 1 < j + 1
      BY <2>1, <2>3
    <3> QED
      BY <1>1, <2>3, <3>1 DEF OutInv
  <2>4. ASSUME NEW i \in DOMAIN out', NEW k \in DOMAIN log'[out'[i][1]], out'[i][2] < k
        PROVE  \E j \in DOMAIN out' : out'[j] = <<out'[i][1], k>>
    <3>1. i + 1 \in DOMAIN out /\ 1 < i + 1 /\ out'[i] = out[i + 1]
      BY <2>1
    <3>2. PICK q \in Requests : q = out[i + 1][1]
      BY <1>1, <3>1
    <3>3. PICK j \in DOMAIN out : out[j] = <<q, k>>
      BY <1>1, <2>1, <2>4, <3>1, <3>2 DEF OutInv, InOut
    <3>4. j # 1
      <4>1. j = 1 => out[j][2] < out[i + 1][2]
        BY <1>1, <2>1, <3>1, <3>2, <3>3 DEF OutInv
      <4>2. k \in Nat /\ out[i + 1][2] \in Nat /\ out[i + 1][2] < k /\ out[j][2] = k
        BY <1>1, <2>4, <3>1, <3>3
      <4> QED
        BY <4>1, <4>2
    <3>5. InOut(q, k)'
      BY <2>1, <3>3, <3>4 DEF InOut
    <3> QED
      BY <3>1, <3>2, <3>5 DEF InOut
  <2> QED
    BY <2>2, <2>3, <2>4 DEF OutInv, InOut
<1>5. ASSUME NEW w \in Conns, Puts(w) \/ Dials(w)
      PROVE  UNCHANGED <<log, out>>
  BY <1>5 DEF Puts, Dials
<1> QED
  BY <1>2, <1>3, <1>4, <1>5, Ways

LEMMA HeldStep ==
  ASSUME RelayInv, [Next]_vars
  PROVE  HeldInv'
<1>1. /\ PumpInv /\ OutInv /\ HeldInv /\ out \in Seq(Requests \X Nat)
      /\ \A c \in Holding : held[c].msg[1] \in Requests /\ held[c].msg[2] \in Nat
      /\ Holding \subseteq Conns /\ Holding \subseteq Dialled
  BY ClientType DEF RelayInv, PumpInv, Holding, Dialled
<1>2. CASE UNCHANGED <<log, out, pump, held>>
  BY <1>1, <1>2 DEF HeldInv, InOut, Holding, Alone, Dialled
<1>3. ASSUME NEW c \in Conns, Dials(c)
      PROVE  HeldInv'
  <2>1. UNCHANGED <<log, out, held>> /\ Holding' = Holding /\ (Alone' => Alone)
    BY <1>1, <1>3, PumpStep DEF Dials, PumpInv, Holding
  <2> QED
    BY <1>1, <2>1 DEF HeldInv, InOut
<1>4. ASSUME NEW r \in Requests, Sends(r)
      PROVE  HeldInv'
  <2>1. PICK n \in Nat : n = Len(log[r]) + 1
    BY <1>4, SendsAt
  <2>2. /\ DOMAIN log[r] = 1 .. (n - 1) /\ DOMAIN log'[r] = 1 .. n
        /\ \A q \in Requests : q # r => log'[q] = log[q]
        /\ \A i \in DOMAIN out : i \in DOMAIN out' /\ out'[i] = out[i]
        /\ \A i \in DOMAIN out' : \/ i \in DOMAIN out /\ out'[i] = out[i]
                                  \/ out'[i] = <<r, n>>
        /\ InOut(r, n)' /\ n >= 1
    BY <1>4, <2>1, SendsAt
  <2>3. held' = held /\ Holding' = Holding /\ Alone' = Alone
    BY <1>4 DEF Sends, Holding, Alone, Dialled
  <2>4. ASSUME NEW c \in Holding
        PROVE  /\ held[c].msg[2] \in DOMAIN log'[held[c].msg[1]]
               /\ \A i \in DOMAIN out' : out'[i][1] = held[c].msg[1] => held[c].msg[2] < out'[i][2]
    <3>1. held[c].msg[2] \in DOMAIN log[held[c].msg[1]] /\ held[c].msg[1] \in Requests
      BY <1>1 DEF HeldInv
    <3>2. held[c].msg[2] \in DOMAIN log'[held[c].msg[1]]
      BY <2>2, <3>1
    <3>3. ASSUME NEW i \in DOMAIN out', out'[i][1] = held[c].msg[1]
          PROVE  held[c].msg[2] < out'[i][2]
      <4>1. CASE i \in DOMAIN out /\ out'[i] = out[i]
        BY <1>1, <3>3, <4>1 DEF HeldInv
      <4>2. CASE out'[i] = <<r, n>>
        BY <2>2, <3>1, <3>3, <4>2
      <4> QED
        BY <2>2, <4>1, <4>2
    <3> QED
      BY <3>2, <3>3
  <2>5. ASSUME Alone, NEW c \in Holding, NEW k \in DOMAIN log'[held[c].msg[1]], held[c].msg[2] < k
        PROVE  \E j \in DOMAIN out' : out'[j] = <<held[c].msg[1], k>>
    <3>1. PICK q \in Requests : q = held[c].msg[1]
      BY <1>1
    <3>2. CASE k \in DOMAIN log[q]
      <4>1. PICK j \in DOMAIN out : out[j] = <<q, k>>
        BY <1>1, <2>5, <3>1, <3>2 DEF HeldInv, InOut
      <4> QED
        BY <2>2, <2>3, <3>1, <4>1 DEF InOut
    <3>3. CASE k \notin DOMAIN log[q]
      <4>1. q = r /\ k = n
        BY <2>1, <2>2, <2>5, <3>1, <3>3
      <4> QED
        BY <2>2, <2>3, <3>1, <4>1 DEF InOut
    <3> QED
      BY <3>2, <3>3
  <2>6. \A c, d \in Holding : held[c].msg = held[d].msg => c = d
    BY <1>1 DEF HeldInv
  <2> QED
    BY <2>3, <2>4, <2>5, <2>6 DEF HeldInv, InOut
<1>5. ASSUME NEW w \in Conns, Takes(w)
      PROVE  HeldInv'
  <2>1. PICK m \in Requests \X Nat : m = out[1]
    BY <1>5, TakesAt
  <2>2. /\ log' = log /\ Holding' = Holding \cup {w} /\ w \notin Holding
        /\ w \in Dialled /\ Alone' = Alone /\ 1 \in DOMAIN out
        /\ held'[w].msg = m /\ \A c \in Conns : c # w => held'[c] = held[c]
        /\ \A i \in DOMAIN out : i = 1 \/ (i - 1 \in DOMAIN out' /\ out'[i - 1] = out[i])
        /\ \A i \in DOMAIN out' : i + 1 \in DOMAIN out /\ 1 < i + 1 /\ out'[i] = out[i + 1]
    BY <1>5, <2>1, TakesAt DEF Alone
  <2>3. /\ m[2] \in DOMAIN log[m[1]]
        /\ \A i \in DOMAIN out' : out'[i][1] = m[1] => m[2] < out'[i][2]
    BY <1>1, <2>1, <2>2 DEF OutInv
  <2>4. ASSUME NEW c \in Holding
        PROVE  /\ held[c].msg[2] \in DOMAIN log[held[c].msg[1]]
               /\ \A i \in DOMAIN out' : out'[i][1] = held[c].msg[1] => held[c].msg[2] < out'[i][2]
               /\ held[c].msg # m
    BY <1>1, <2>1, <2>2 DEF HeldInv
  <2>5. ASSUME Alone, NEW c \in Holding'
        PROVE  c = w
    BY <1>1, <2>2, <2>5 DEF Alone
  <2>6. ASSUME NEW k \in DOMAIN log[m[1]], m[2] < k
        PROVE  InOut(m[1], k)'
    <3>1. PICK j \in DOMAIN out : out[j] = <<m[1], k>>
      BY <1>1, <2>1, <2>2, <2>6 DEF OutInv, InOut
    <3>2. j # 1
      BY <2>1, <2>6, <3>1
    <3> QED
      BY <2>2, <3>1, <3>2 DEF InOut
  <2>7. \A c, d \in Holding' : held'[c].msg = held'[d].msg => c = d
    <3>1. \A c, d \in Holding : held[c].msg = held[d].msg => c = d
      BY <1>1 DEF HeldInv
    <3> QED
      BY <1>1, <2>2, <2>4, <3>1
  <2>8. \A c \in Holding' :
          /\ held'[c].msg[2] \in DOMAIN log'[held'[c].msg[1]]
          /\ \A i \in DOMAIN out' : out'[i][1] = held'[c].msg[1] => held'[c].msg[2] < out'[i][2]
    <3>1. \A c \in Holding : held'[c] = held[c]
      BY <1>1, <2>2
    <3> QED
      BY <2>2, <2>3, <2>4, <3>1
  <2>9. Alone' => \A c \in Holding' : \A k \in DOMAIN log'[held'[c].msg[1]] :
                    held'[c].msg[2] < k =>
                      \E j \in DOMAIN out' : out'[j] = <<held'[c].msg[1], k>>
    BY <2>2, <2>5, <2>6 DEF InOut
  <2> QED
    BY <2>7, <2>8, <2>9 DEF HeldInv, InOut
<1>6. ASSUME NEW w \in Conns, Puts(w)
      PROVE  HeldInv'
  <2>1. /\ UNCHANGED <<log, out>> /\ Holding' = Holding \ {w} /\ Alone' = Alone
        /\ \A c \in Holding' : held'[c] = held[c]
    BY <1>1, <1>6, PutsAt DEF Alone
  <2> QED
    BY <1>1, <2>1 DEF HeldInv, InOut
<1> QED
  BY <1>2, <1>3, <1>4, <1>5, <1>6, Ways

-----------------------------------------------------------------------------
(* What has left the client                                                *)

Message(r, k) == [id |-> r, kind |-> log[r][k], n |-> k]

LEMMA SentIs ==
  \A r \in Requests : Sent[r] = {Message(r, k) : k \in {j \in DOMAIN log[r] : ~Waiting(r, j)}}
BY DEF Sent, OnWire, Message

(* A message a goroutine has put into sendChan waits there.                *)
LEMMA SendsNothing ==
  ASSUME RelayInv, NEW r \in Requests, Sends(r)
  PROVE  Sent' = Sent
<1>1. PICK n \in Nat : n = Len(log[r]) + 1
  BY SendsAt
<1>2. /\ DOMAIN log[r] = 1 .. (n - 1) /\ DOMAIN log'[r] = 1 .. n
      /\ \A k \in DOMAIN log[r] : log'[r][k] = log[r][k]
      /\ \A q \in Requests : q # r => log'[q] = log[q]
      /\ \A i \in DOMAIN out : i \in DOMAIN out' /\ out'[i] = out[i]
      /\ \A i \in DOMAIN out' : (i \in DOMAIN out /\ out'[i] = out[i]) \/ out'[i] = <<r, n>>
      /\ InOut(r, n)' /\ held' = held
  BY <1>1, SendsAt
<1>3. ASSUME NEW q \in Requests
      PROVE  \A k \in DOMAIN log[q] : Waiting(q, k)' <=> Waiting(q, k)
  BY <1>2 DEF Waiting
<1>4. ASSUME NEW q \in Requests
      PROVE  {j \in DOMAIN log'[q] : ~Waiting(q, j)'} = {j \in DOMAIN log[q] : ~Waiting(q, j)}
  <2>1. CASE q # r
    BY <1>2, <1>3, <2>1
  <2>2. CASE q = r
    <3>1. \A j \in DOMAIN log'[r] : j \in DOMAIN log[r] \/ j = n
      BY <1>1, <1>2
    <3>2. Waiting(r, n)'
      BY <1>2 DEF Waiting, InOut
    <3>3. DOMAIN log[r] \subseteq DOMAIN log'[r]
      BY <1>1, <1>2
    <3> QED
      BY <1>3, <2>2, <3>1, <3>2, <3>3
  <2> QED
    BY <2>1, <2>2
<1>5. ASSUME NEW q \in Requests
      PROVE  Sent[q]' = Sent[q]
  <2>1. \A k \in DOMAIN log[q] : Message(q, k)' = Message(q, k)
    BY <1>2 DEF Message
  <2>2. /\ Sent[q] = {Message(q, k) : k \in {j \in DOMAIN log[q] : ~Waiting(q, j)}}
        /\ Sent[q]' = {Message(q, k)' : k \in {j \in DOMAIN log'[q] : ~Waiting(q, j)'}}
    BY DEF Sent, OnWire, Message
  <2> QED
    BY <1>4, <2>1, <2>2
<1> QED
  BY <1>5 DEF Sent

(* A message a pump has taken is still to be written.                      *)
LEMMA TakesNothing ==
  ASSUME RelayInv, NEW w \in Conns, Takes(w)
  PROVE  Sent' = Sent
<1>1. /\ log' = log /\ held[w].msg[1] \notin Requests /\ 1 \in DOMAIN out
      /\ held'[w].msg = out[1] /\ \A c \in Conns : c # w => held'[c] = held[c]
      /\ \A i \in DOMAIN out : i = 1 \/ (i - 1 \in DOMAIN out' /\ out'[i - 1] = out[i])
      /\ \A i \in DOMAIN out' : i + 1 \in DOMAIN out /\ out'[i] = out[i + 1]
  BY TakesAt, RequestsAssumption DEF Nothing
<1>2. ASSUME NEW q \in Requests, NEW k
      PROVE  Waiting(q, k)' <=> Waiting(q, k)
  <2>1. ASSUME Waiting(q, k)
        PROVE  Waiting(q, k)'
    <3>1. CASE \E i \in DOMAIN out : out[i] = <<q, k>>
      BY <1>1, <3>1 DEF Waiting
    <3>2. CASE \E c \in Conns : held[c].msg = <<q, k>>
      BY <1>1, <3>2 DEF Waiting
    <3> QED
      BY <2>1, <3>1, <3>2 DEF Waiting
  <2>2. ASSUME Waiting(q, k)'
        PROVE  Waiting(q, k)
    <3>1. CASE \E i \in DOMAIN out' : out'[i] = <<q, k>>
      BY <1>1, <3>1 DEF Waiting
    <3>2. CASE \E c \in Conns : held'[c].msg = <<q, k>>
      BY <1>1, <3>2 DEF Waiting
    <3> QED
      BY <2>2, <3>1, <3>2 DEF Waiting
  <2> QED
    BY <2>1, <2>2
<1> QED
  BY <1>1, <1>2 DEF Sent, OnWire

(* The message a pump lets go of has left, the others have not moved.      *)
LEMMA PutsOne ==
  ASSUME RelayInv, NEW w \in Conns, Puts(w)
  PROVE  \E r \in Requests : \E k \in DOMAIN log[r] :
           /\ held[w].msg = <<r, k>>
           /\ Sent' = [Sent EXCEPT ![r] = @ \cup {Message(r, k)}]
           /\ \A i \in DOMAIN out : out[i][1] = r => k < out[i][2]
           /\ \A c \in Conns : held[c].msg = <<r, k>> => c = w
<1>1. /\ PumpInv /\ HeldInv /\ out \in Seq(Requests \X Nat)
      /\ log \in [Requests -> Seq({"response", "chunk", "end", "error"})]
  BY ClientType DEF RelayInv
<1>2. /\ log' = log /\ out' = out /\ w \in Holding
      /\ held'[w].msg[1] \notin Requests /\ \A c \in Conns : c # w => held'[c] = held[c]
  BY PutsAt, RequestsAssumption DEF Nothing
<1>3. PICK r \in Requests, k \in Nat : held[w].msg = <<r, k>>
  <2>1. held[w].msg \in (Requests \cup {NoRequest}) \X Nat
    BY <1>1 DEF PumpInv
  <2>2. held[w].msg[1] \in Requests
    BY <1>1, <1>2 DEF PumpInv, Holding
  <2> QED
    BY <2>1, <2>2
<1>4. k \in DOMAIN log[r] /\ \A i \in DOMAIN out : out[i][1] = r => k < out[i][2]
  <2>1. held[w].msg[1] = r /\ held[w].msg[2] = k
    BY <1>3
  <2> QED
    BY <1>1, <1>2, <2>1 DEF HeldInv
<1>5. \A c \in Conns : held[c].msg = <<r, k>> => c = w
  <2>1. \A c \in Conns : held[c].msg = <<r, k>> => c \in Holding
    BY <1>1, RequestsAssumption DEF PumpInv, Holding, Nothing
  <2> QED
    BY <1>1, <1>2, <1>3, <2>1 DEF HeldInv
<1>6. ASSUME NEW q \in Requests, NEW j
      PROVE  Waiting(q, j)' <=> Waiting(q, j) /\ <<q, j>> # <<r, k>>
  <2>1. ASSUME Waiting(q, j)'
        PROVE  Waiting(q, j) /\ <<q, j>> # <<r, k>>
    <3>1. CASE \E i \in DOMAIN out : out[i] = <<q, j>>
      <4>1. PICK i \in DOMAIN out : out[i] = <<q, j>>
        BY <3>1
      <4>2. out[i][1] = q /\ out[i][2] = j
        BY <4>1
      <4>3. q = r /\ j = k => k < k
        BY <1>4, <4>2
      <4> QED
        BY <4>1, <4>3 DEF Waiting
    <3>2. CASE \E c \in Conns : held'[c].msg = <<q, j>>
      BY <1>2, <1>5, <3>2 DEF Waiting
    <3> QED
      BY <1>2, <2>1, <3>1, <3>2 DEF Waiting
  <2>2. ASSUME Waiting(q, j), <<q, j>> # <<r, k>>
        PROVE  Waiting(q, j)'
    BY <1>2, <1>3, <2>2 DEF Waiting
  <2> QED
    BY <2>1, <2>2
<1>7. ASSUME NEW q \in Requests
      PROVE  Sent[q]' = IF q = r THEN Sent[r] \cup {Message(r, k)} ELSE Sent[q]
  <2>1. \A j : Message(q, j)' = Message(q, j)
    BY <1>2 DEF Message
  <2>2. /\ Sent[q] = {Message(q, j) : j \in {i \in DOMAIN log[q] : ~Waiting(q, i)}}
        /\ Sent[q]' = {Message(q, j)' : j \in {i \in DOMAIN log'[q] : ~Waiting(q, i)'}}
    BY DEF Sent, OnWire, Message
  <2>3. CASE q # r
    <3>1. \A j : Waiting(q, j)' <=> Waiting(q, j)
      BY <1>6, <2>3
    <3> QED
      BY <1>2, <2>1, <2>2, <2>3, <3>1
  <2>4. CASE q = r
    <3>1. \A j : ~Waiting(r, j)' <=> ~Waiting(r, j) \/ j = k
      BY <1>6
    <3>2. {i \in DOMAIN log'[r] : ~Waiting(r, i)'} = {i \in DOMAIN log[r] : ~Waiting(r, i)} \cup {k}
      BY <1>2, <1>4, <3>1
    <3> QED
      BY <2>1, <2>2, <2>4, <3>2
  <2> QED
    BY <2>3, <2>4
<1>8. Sent' = [Sent EXCEPT ![r] = @ \cup {Message(r, k)}]
  <2>1. Sent' = [q \in Requests |-> Sent[q]'] /\ Sent = [q \in Requests |-> Sent[q]]
    BY DEF Sent
  <2> QED
    BY <1>7, <2>1
<1> QED
  BY <1>3, <1>4, <1>5, <1>8

-----------------------------------------------------------------------------
(* What leaves is what RequestTable lets leave                             *)

LEMMA NotAlone ==
  ASSUME RelayInv, ~Server!Reconnected
  PROVE  Alone
<1>1. ServerProofs!LinkInv /\ PumpInv /\ ~ServerProofs!Reconnected
  BY SameReconnected DEF RelayInv, ServerProofs!FullInv, ServerProofs!PInv
<1>2. \A c, d \in ServerProofs!Opened : c = d
  BY <1>1, ServerAssumed, ServerProofs!OneConnection
<1>3. Dialled \subseteq ServerProofs!Opened
  BY <1>1 DEF Dialled, PumpInv, ServerProofs!Opened
<1> QED
  BY <1>2, <1>3 DEF Alone

(* The pieces of a call are numbered without a gap.                        *)
LEMMA CountMessages ==
  ASSUME NEW r, NEW k \in Nat, k >= 1
  PROVE  Cardinality({Message(r, j) : j \in 1 .. (k - 1)}) = k - 1
<1>1. IsFiniteSet(1 .. (k - 1)) /\ Cardinality(1 .. (k - 1)) = k - 1
  BY FS_Interval
<1>2. DEFINE f == [j \in 1 .. (k - 1) |-> Message(r, j)]
             S == {Message(r, j) : j \in 1 .. (k - 1)}
<1>3. f \in Bijection(1 .. (k - 1), S)
  <2>1. f \in Surjection(1 .. (k - 1), S)
    BY DEF Surjection
  <2>2. \A i, j \in 1 .. (k - 1) : f[i] = f[j] => i = j
    BY DEF Message
  <2> QED
    BY <2>1, <2>2 DEF Bijection, Injection, IsInjective, Surjection
<1> QED
  BY <1>1, <1>3, FS_Bijection DEF ExistsBijection

LEMMA SameCounts == \A S : Server!Cardinality(S) = Cardinality(S)
  BY DEF Server!Cardinality, Cardinality

LEMMA AnswersInShape ==
  ASSUME ClientProofs!IInv, NEW r \in Requests
  PROVE  /\ log[r] \in Seq({"response", "chunk", "end", "error"})
         /\ Len(log[r]) \in Nat /\ DOMAIN log[r] = 1 .. Len(log[r])
         /\ \A i \in DOMAIN log[r] : i < Len(log[r]) => log[r][i] = "chunk"
BY ClientType DEF ClientProofs!IInv, ClientProofs!AnswerShape

(* A message a pump lets go of may leave.                                  *)
LEMMA Leaves ==
  ASSUME RelayInv, NEW w \in Holding, NEW r \in Requests, NEW k \in DOMAIN log[r],
         held[w].msg = <<r, k>>,
         \A i \in DOMAIN out : out[i][1] = r => k < out[i][2],
         \A c \in Conns : held[c].msg = <<r, k>> => c = w
  PROVE  Server!MayLeave(r, Message(r, k))
<1>1. /\ Len(log[r]) \in Nat /\ DOMAIN log[r] = 1 .. Len(log[r])
      /\ \A i \in DOMAIN log[r] : i < Len(log[r]) => log[r][i] = "chunk"
  BY AnswersInShape DEF RelayInv
<1>2. Message(r, k).kind = log[r][k] /\ Message(r, k).n = k
  BY DEF Message
<1>3. log[r][k] \in Server!Kind(r, k)
  BY DEF RelayInv, LogInv, Logged
<1>4. ~Waiting(r, k) => FALSE
  BY DEF Waiting, Holding
<1>5. ASSUME Alone
      PROVE  \A j \in DOMAIN log[r] : ~Waiting(r, j) <=> j < k
  <2>1. ASSUME NEW j \in DOMAIN log[r], k < j
        PROVE  Waiting(r, j)
    <3>1. held[w].msg[1] = r /\ held[w].msg[2] = k
      OBVIOUS
    <3>2. InOut(r, j)
      BY <1>5, <2>1, <3>1 DEF RelayInv, HeldInv
    <3> QED
      BY <3>2 DEF InOut, Waiting
  <2>2. ASSUME NEW j \in DOMAIN log[r], j < k, Waiting(r, j)
        PROVE  FALSE
    <3>1. CASE \E i \in DOMAIN out : out[i] = <<r, j>>
      <4>1. PICK i \in DOMAIN out : out[i] = <<r, j>>
        BY <3>1
      <4>2. out[i][1] = r /\ out[i][2] = j
        BY <4>1
      <4> QED
        BY <1>1, <2>2, <4>2
    <3>2. CASE \E c \in Conns : held[c].msg = <<r, j>>
      <4>1. PICK c \in Conns : held[c].msg = <<r, j>>
        BY <3>2
      <4>2. c \in Dialled /\ w \in Dialled
        BY <4>1, RequestsAssumption DEF RelayInv, PumpInv, Nothing, Dialled, Holding
      <4>3. c = w
        BY <1>5, <4>2 DEF Alone
      <4> QED
        BY <1>1, <2>2, <4>1, <4>3
    <3> QED
      BY <2>2, <3>1, <3>2 DEF Waiting
  <2> QED
    BY <1>1, <1>4, <2>1, <2>2
<1>6. ASSUME NEW o \in Sent[r]
      PROVE  \/ o.n < k /\ o.kind = "chunk"
             \/ o.n > k /\ log[r][k] = "chunk" /\ Server!Reconnected
  <2>1. PICK j \in DOMAIN log[r] : o = Message(r, j) /\ ~Waiting(r, j)
    BY SentIs
  <2>2. o.n = j /\ o.kind = log[r][j] /\ j # k
    BY <1>4, <2>1 DEF Message
  <2>3. CASE j < k
    BY <1>1, <2>2, <2>3
  <2>4. CASE j > k
    <3>1. ~Alone
      BY <1>1, <1>5, <2>1, <2>4
    <3> QED
      BY <1>1, <2>2, <2>4, <3>1, NotAlone
  <2> QED
    BY <1>1, <2>2, <2>3, <2>4
<1>7. ASSUME ~Server!Reconnected
      PROVE  k = Server!Cardinality(Sent[r]) + 1
  <2>1. {j \in DOMAIN log[r] : ~Waiting(r, j)} = 1 .. (k - 1)
    BY <1>1, <1>5, <1>7, NotAlone
  <2>2. Sent[r] = {Message(r, j) : j \in 1 .. (k - 1)}
    BY <2>1, SentIs
  <2>3. k \in Nat /\ k >= 1
    BY <1>1
  <2>4. Cardinality(Sent[r]) = k - 1
    BY <2>2, <2>3, CountMessages
  <2> QED
    BY <2>3, <2>4, SameCounts
<1> QED
  BY <1>2, <1>3, <1>6, <1>7 DEF Server!MayLeave

LEMMA ReplyStep ==
  ASSUME RelayInv, NEW w \in Conns, WriteHeld(w) \/ LoseHeld(w)
  PROVE  \E r \in Requests : Server!RemoteReply(r)
<1>1. Puts(w)
  BY DEF WriteHeld, LoseHeld, PutDown, serverVars, clientVars, Puts, SameDials
<1>2. PICK r \in Requests : \E k \in DOMAIN log[r] :
        /\ held[w].msg = <<r, k>>
        /\ Sent' = [Sent EXCEPT ![r] = @ \cup {Message(r, k)}]
        /\ \A i \in DOMAIN out : out[i][1] = r => k < out[i][2]
        /\ \A c \in Conns : held[c].msg = <<r, k>> => c = w
  BY <1>1, PutsOne
<1>3. PICK k \in DOMAIN log[r] :
        /\ held[w].msg = <<r, k>>
        /\ Sent' = [Sent EXCEPT ![r] = @ \cup {Message(r, k)}]
        /\ \A i \in DOMAIN out : out[i][1] = r => k < out[i][2]
        /\ \A c \in Conns : held[c].msg = <<r, k>> => c = w
  BY <1>2
<1>4. Server!MayLeave(r, Message(r, k))
  BY <1>1, <1>3, PutsAt, Leaves
<1>5. /\ Len(log[r]) \in Nat /\ DOMAIN log[r] = 1 .. Len(log[r])
      /\ log[r][k] \in Server!Kinds
  <2>1. log[r] \in Seq({"response", "chunk", "end", "error"})
    BY AnswersInShape DEF RelayInv
  <2> QED
    BY <2>1 DEF Server!Kinds
<1>6. k \in 1 .. (MaxChunks + 1)
  <2>1. k <= MaxChunks + 1
    BY DEF RelayInv, LogInv, Logged
  <2> QED
    BY <1>5, <2>1, CapacityAssumption
<1>7. r \in Asked /\ Asked' = Asked
  <2>1. job[r] \notin {"new", "dropped"}
    BY <1>5 DEF RelayInv, LogInv, Logged
  <2>2. job' = job
    BY DEF WriteHeld, LoseHeld, clientVars
  <2> QED
    BY <2>1, <2>2 DEF Asked
<1>8. /\ UNCHANGED <<Server!handlerVars, Server!tableVars, link, sendChan, fwd, sem,
                     Server!procVars>>
      /\ \/ \E c \in Conns : /\ link[c] = "up"
                           /\ wire' = [wire EXCEPT ![c] = Append(@, Message(r, k))]
         \/ UNCHANGED wire
  <2>1. CASE WriteHeld(w)
    <3>1. OnWire(held[w].msg) = Message(r, k)
      BY <1>3 DEF OnWire, Message
    <3>2. held[w].over \in Conns
      BY <1>1, <2>1, PutsAt DEF WriteHeld, RelayInv, PumpInv, Holding
    <3> QED
      BY <2>1, <3>1, <3>2 DEF WriteHeld, Server!handlerVars, Server!tableVars, Server!procVars
  <2>2. CASE LoseHeld(w)
    BY <2>2 DEF LoseHeld, serverVars, Server!handlerVars, Server!tableVars, Server!procVars
  <2> QED
    BY <2>1, <2>2
<1>9. Message(r, k) = [id |-> r, kind |-> log[r][k], n |-> k]
  BY DEF Message
<1> QED
  BY <1>3, <1>4, <1>5, <1>6, <1>7, <1>8, <1>9 DEF Server!RemoteReply

-----------------------------------------------------------------------------
(* Every step is one of RequestTable                                       *)

LEMMA SameSent ==
  ASSUME UNCHANGED <<log, out, held>>
  PROVE  Sent' = Sent
BY DEF Sent, OnWire, Waiting

LEMMA StepServes ==
  ASSUME RelayInv, [Next]_vars
  PROVE  [Server!ServeNext]_(Server!vars)
<1>1. ASSUME Server!Alive, ServerMoves
      PROVE  Server!ServeNext
  BY <1>1 DEF ServerMoves, Server!ServeNext, Server!Serve
<1>2. ASSUME UNCHANGED serverVars, Asked' = Asked, Sent' = Sent
      PROVE  UNCHANGED Server!vars
  BY <1>2 DEF serverVars, Server!vars, Server!handlerVars, Server!tableVars, Server!linkVars,
     Server!remoteVars, Server!procVars
<1>3. ASSUME ClientMoves
      PROVE  UNCHANGED Server!vars
  <2>1. UNCHANGED serverVars /\ UNCHANGED <<pump, held, current>>
    BY <1>3 DEF ClientMoves, pumpVars
  <2>2. /\ clientStop = "running"
        /\ job \in [Requests -> {"new", "queued", "dropped", "started", "asking", "sending",
                                 "finishing", "done"}]
    BY ClientType DEF RelayInv, Quiet
  <2>3. Asked' = Asked
    <3>1. ASSUME NEW r \in Requests, Client!Job(r)
          PROVE  Asked' = Asked
      BY <2>2, <3>1 DEF Asked, Client!Job, Client!Unreadable, Client!AskModel,
         Client!ModelAnswers, Client!SendAnswer, Client!LoseAnswer, Client!SendOnClosed,
         Client!Finish, Client!AfterSend, Client!GoTo
    <3>2. CASE Client!Processor
      BY <2>2, <3>2 DEF Asked, Client!Processor, Client!TakeRequest, Client!StartJob,
         Client!ProcessorReturns, Client!ctxDone, Client!GoTo
    <3> QED
      BY <1>3, <3>1, <3>2 DEF ClientMoves
  <2>4. Sent' = Sent
    <3>1. CASE \E r \in Requests : Client!SendAnswer(r)
      <4>1. PICK r \in Requests : Client!SendAnswer(r)
        BY <3>1
      <4>2. Sends(r)
        BY <2>1, <4>1 DEF Sends, SameDials, serverVars
      <4> QED
        BY <4>2, SendsNothing
    <3>2. CASE ~\E r \in Requests : Client!SendAnswer(r)
      <4>1. UNCHANGED <<log, out>>
        BY <1>3, <3>2 DEF ClientMoves, Client!Job, Client!Unreadable, Client!AskModel,
           Client!ModelAnswers, Client!LoseAnswer, Client!SendOnClosed, Client!Finish,
           Client!Processor, Client!TakeRequest, Client!StartJob, Client!ProcessorReturns
      <4> QED
        BY <2>1, <4>1, SameSent
    <3> QED
      BY <3>1, <3>2
  <2> QED
    BY <1>2, <2>1, <2>3, <2>4
<1>4. ASSUME Server!Alive, NEW c \in Conns, Connect(c) \/ DeliverRequest(c) \/ LoseRequest(c)
      PROVE  Server!ServeNext
  BY <1>4 DEF Connect, DeliverRequest, LoseRequest, Server!ServeNext, Server!Serve
<1>5. ASSUME NEW w \in Conns, TakeAnswer(w)
      PROVE  UNCHANGED Server!vars
  <2>1. Takes(w)
    BY <1>5 DEF TakeAnswer, Client!WriteAnswer, Takes, SameDials, serverVars
  <2>2. Sent' = Sent
    BY <2>1, TakesNothing
  <2>3. UNCHANGED serverVars /\ job' = job
    BY <1>5 DEF TakeAnswer, Client!WriteAnswer
  <2> QED
    BY <1>2, <2>2, <2>3 DEF Asked
<1>6. ASSUME Server!Alive, NEW w \in Conns, WriteHeld(w) \/ LoseHeld(w)
      PROVE  Server!ServeNext
  BY <1>6, ReplyStep DEF Server!ServeNext, Server!Serve
<1>7. ASSUME UNCHANGED vars
      PROVE  UNCHANGED Server!vars
  BY <1>2, <1>7, SameSent DEF vars, serverVars, clientVars, pumpVars, Asked
<1> QED
  BY <1>1, <1>3, <1>4, <1>5, <1>6, <1>7 DEF Next

-----------------------------------------------------------------------------
(* The theorems                                                            *)

LEMMA RelayInit ==
  ASSUME Init
  PROVE  RelayInv
<1>1. /\ Client!Init /\ Server!Init
      /\ pump = [c \in Conns |-> "none"] /\ held = [c \in Conns |-> Nothing]
      /\ current = NoConn
  BY DEF Init
<1>2. ClientProofs!IInv
  <2>1. ClientProofs!Init
    BY <1>1 DEF Client!Init, ClientProofs!Init
  <2> QED
    BY <2>1, ClientAssumed, ClientProofs!Initially
<1>3. ServerProofs!FullInv
  <2>1. ServerProofs!Init
    BY <1>1 DEF Server!Init, ServerProofs!Init
  <2> QED
    BY <2>1, ServerAssumed, ServerProofs!FullInit
<1>4. Quiet
  BY <1>1 DEF Quiet, Client!Init
<1>5. PumpInv
  <2>1. Nothing \in [msg : (Requests \cup {NoRequest}) \X Nat, over : Conns \cup {NoConn}]
    BY DEF Nothing
  <2> QED
    BY <1>1, <2>1, ConnsAssumption DEF Server!Init, PumpInv
<1>6. DOMAIN (<<>>) = {} /\ Len(<<>>) = 0
  OBVIOUS
<1>7. LogInv
  BY <1>1, <1>6 DEF Client!Init, LogInv, Logged
<1>8. OutInv
  BY <1>1, <1>6 DEF Client!Init, OutInv
<1>9. HeldInv
  BY <1>1 DEF HeldInv, Holding
<1> QED
  BY <1>2, <1>3, <1>4, <1>5, <1>7, <1>8, <1>9 DEF RelayInv

LEMMA RelayStep ==
  ASSUME RelayInv, [Next]_vars
  PROVE  RelayInv'
<1>1. ClientProofs!IInv' /\ Quiet'
  BY ClientSide, ClientStep DEF RelayInv
<1>2. ServerProofs!FullInv'
  BY StepServes, ServerStep DEF RelayInv
<1>3. PumpInv' /\ LogInv' /\ OutInv' /\ HeldInv'
  BY PumpStep, LogStep, OutStep, HeldStep
<1> QED
  BY <1>1, <1>2, <1>3 DEF RelayInv

(* The inductive invariant: what each process keeps by itself, and between *)
(* them that a message waits at one place, in sendChan or with one pump,   *)
(* behind the earlier ones of its call as long as there is one pump.       *)
THEOREM Inductive == Spec => []RelayInv
<1> QED
  BY RelayInit, RelayStep, PTL DEF Spec

(* Every step of the two processes is one the server was modelled to       *)
(* expect, over a reconnect too: RequestTable assumes nothing of its other *)
(* end that the client, its queues and its pumps do not keep.              *)
THEOREM Implements == Spec => Assumed
<1>1. Init => Server!Init
  BY DEF Init
<1>2. RelayInv /\ [Next]_vars => [Server!ServeNext]_(Server!vars)
  BY StepServes
<1> QED
  BY <1>1, <1>2, Inductive, PTL DEF Spec, Assumed, Server!ServeSpec

(* So what is proved of RequestTable holds of the pair.                    *)
LEMMA PairAnswers == Spec => [](RelayInv /\ ServerProofs!AnswerInv)
<1>1. Server!Init => ServerProofs!Init
  BY DEF Server!Init, ServerProofs!Init
<1>2. [Server!ServeNext]_(Server!vars) => [ServerProofs!Next]_(ServerProofs!vars)
  BY SameNext
<1>3. ServerProofs!Spec => [](ServerProofs!FullInv /\ ServerProofs!AnswerInv)
  BY ServerAssumed, ServerProofs!Answers
<1> QED
  BY <1>1, <1>2, <1>3, Implements, Inductive, PTL
     DEF Assumed, Server!ServeSpec, ServerProofs!Spec

(* What is known of a message that has left.                               *)
LEMMA LeftFrom ==
  ASSUME NEW r \in Requests, NEW m \in Sent[r]
  PROVE  m.n \in DOMAIN log[r] /\ ~Waiting(r, m.n) /\ m.kind = log[r][m.n]
<1>1. PICK k \in DOMAIN log[r] : ~Waiting(r, k) /\ m = Message(r, k)
  BY SentIs
<1>2. m.n = k /\ m.kind = log[r][k]
  BY <1>1 DEF Message
<1> QED
  BY <1>1, <1>2

(* A message other than a piece is the last of its call.                   *)
LEMMA LastOfCall ==
  ASSUME RelayInv, NEW r \in Requests, NEW m \in Sent[r], m.kind # "chunk"
  PROVE  m.n = Len(log[r]) /\ log[r][Len(log[r])] = m.kind /\ ~Waiting(r, Len(log[r]))
BY LeftFrom, AnswersInShape DEF RelayInv

(* A caller is handed pieces of the answer to its own call, none twice and *)
(* in order unless the client has reconnected; a stream it sees end has    *)
(* ended, and an answer relayed to it is the whole answer.                 *)
THEOREM Delivery == Spec => []Delivered
<1>1. ASSUME RelayInv, ServerProofs!AnswerInv
      PROVE  Delivered
  <2>0. /\ ServerProofs!TransitInv /\ ServerProofs!OnceQueued /\ ServerProofs!OutcomeInv
        /\ ~Server!Reconnected => ServerProofs!ChunksInOrder
        /\ chunks \in [Requests -> Seq(Nat)]
    BY <1>1, SameReconnected DEF RelayInv, ServerProofs!FullInv, ServerProofs!PInv,
       ServerProofs!OneLine, ServerProofs!AnswerInv, ServerProofs!OnceInv,
       ServerProofs!IInv, ServerProofs!TypeOK
  <2> SUFFICES ASSUME NEW r \in Requests
               PROVE  /\ \A i, j \in DOMAIN chunks[r] :
                           /\ log[r][chunks[r][i]] = "chunk"
                           /\ i < j => IF Server!Reconnected
                                         THEN chunks[r][i] # chunks[r][j]
                                         ELSE chunks[r][i] < chunks[r][j]
                      /\ outcome[r] = "ended" => log[r][Len(log[r])] = "end"
                      /\ outcome[r] = "relayed" => log[r] = <<"response">>
    BY DEF Delivered
  <2>1. ASSUME NEW i \in DOMAIN chunks[r]
        PROVE  log[r][chunks[r][i]] = "chunk"
    <3>1. PICK m \in Sent[r] : m.n = chunks[r][i] /\ m.kind = "chunk"
      BY <2>0 DEF ServerProofs!TransitInv
    <3> QED
      BY <3>1, LeftFrom
  <2>2. ASSUME NEW i \in DOMAIN chunks[r], NEW j \in DOMAIN chunks[r], i < j
        PROVE  IF Server!Reconnected THEN chunks[r][i] # chunks[r][j]
                                     ELSE chunks[r][i] < chunks[r][j]
    <3>1. CASE Server!Reconnected
      <4>1. chunks[r][i] = chunks[r][j] => i = j
        BY <2>0 DEF ServerProofs!OnceQueued, ServerProofs!NoTwice
      <4>2. i \in Nat /\ j \in Nat
        BY <2>0
      <4> QED
        BY <2>2, <3>1, <4>1, <4>2
    <3>2. CASE ~Server!Reconnected
      BY <2>0, <2>2, <3>2 DEF ServerProofs!ChunksInOrder
    <3> QED
      BY <3>1, <3>2
  <2>3. ASSUME outcome[r] = "ended"
        PROVE  log[r][Len(log[r])] = "end"
    <3>1. PICK m \in Sent[r] : m.kind = "end"
      BY <2>0, <2>3 DEF ServerProofs!OutcomeInv
    <3> QED
      BY <1>1, <3>1, LastOfCall
  <2>4. ASSUME outcome[r] = "relayed"
        PROVE  log[r] = <<"response">>
    <3>1. r \notin Streams
      BY <2>0, <2>4 DEF ServerProofs!OutcomeInv
    <3>2. PICK m \in Sent[r] : m.kind = "response"
      BY <2>0, <2>4 DEF ServerProofs!OutcomeInv
    <3>3. /\ log[r] \in Seq({"response", "chunk", "end", "error"})
          /\ Len(log[r]) \in Nat /\ DOMAIN log[r] = 1 .. Len(log[r])
          /\ \A i \in DOMAIN log[r] : i < Len(log[r]) => log[r][i] = "chunk"
      BY <1>1, AnswersInShape DEF RelayInv
    <3>4. m.n = Len(log[r]) /\ m.n \in DOMAIN log[r] /\ log[r][Len(log[r])] = "response"
      BY <1>1, <3>2, LastOfCall, LeftFrom
    <3>5. \A i \in DOMAIN log[r] : log[r][i] # "chunk"
      BY <1>1, <3>1 DEF RelayInv, LogInv, Logged, Server!Kind
    <3>6. Len(log[r]) = 1
      <4>1. PICK n \in Nat : n = Len(log[r])
        BY <3>3
      <4>2. n >= 1 /\ DOMAIN log[r] = 1 .. n
        BY <3>3, <3>4, <4>1
      <4>3. ASSUME 1 < n
            PROVE  FALSE
        <5>1. 1 \in DOMAIN log[r]
          BY <4>2, <4>3
        <5>2. log[r][1] = "chunk"
          BY <3>3, <4>1, <4>3, <5>1
        <5> QED
          BY <3>5, <5>1, <5>2
      <4>4. n = 1
        <5>1. n >= 1 /\ ~(1 < n)
          BY <4>2, <4>3
        <5> QED
          BY <5>1
      <4> QED
        BY <4>1, <4>4
    <3> QED
      BY <3>3, <3>4, <3>6
  <2> QED
    BY <2>1, <2>2, <2>3, <2>4
<1> QED
  BY <1>1, PairAnswers, PTL

(* Over one connection nothing of a call is under way or waiting in either *)
(* process once its handler has acted on the message that ends it.         *)
THEOREM Silence == Spec => []NothingAfterLast
<1>1. ASSUME RelayInv, ServerProofs!AnswerInv
      PROVE  NothingAfterLast
  <2> SUFFICES ASSUME NEW r \in Requests, outcome[r] \in {"ended", "relayed", "failed"},
                      ~Server!Reconnected
               PROVE  /\ \A c \in Conns : /\ \A i \in DOMAIN wire[c] : wire[c][i].id # r
                                          /\ fwd[c] # NoMsg => fwd[c].id # r
                      /\ \A k \in DOMAIN log[r] : ~Waiting(r, k)
    BY DEF NothingAfterLast
  <2>1. ServerProofs!Passed(r) /\ \E m \in Sent[r] : m.kind # "chunk"
    BY <1>1, SameReconnected DEF ServerProofs!AnswerInv, ServerProofs!EndedInv,
       ServerProofs!Answered
  <2>2. ~Waiting(r, Len(log[r]))
    BY <1>1, <2>1, LastOfCall
  <2>3. Len(log[r]) \in Nat /\ DOMAIN log[r] = 1 .. Len(log[r])
    BY <1>1, AnswersInShape DEF RelayInv
  <2>4. ASSUME NEW k \in DOMAIN log[r], k # Len(log[r]), Waiting(r, k)
        PROVE  FALSE
    <3>1. Len(log[r]) \in DOMAIN log[r] /\ k < Len(log[r])
      BY <2>3, <2>4
    <3>2. InOut(r, Len(log[r]))
      <4>1. CASE \E i \in DOMAIN out : out[i] = <<r, k>>
        <5>1. PICK i \in DOMAIN out : out[i] = <<r, k>>
          BY <4>1
        <5>2. out[i][1] = r /\ out[i][2] = k
          BY <5>1
        <5> QED
          BY <1>1, <3>1, <5>2 DEF RelayInv, OutInv
      <4>2. CASE \E c \in Conns : held[c].msg = <<r, k>>
        <5>1. PICK c \in Conns : held[c].msg = <<r, k>>
          BY <4>2
        <5>2. held[c].msg[1] = r /\ held[c].msg[2] = k
          BY <5>1
        <5>3. c \in Holding
          BY <1>1, <5>2, RequestsAssumption DEF RelayInv, PumpInv, Holding, Nothing
        <5> QED
          BY <1>1, <3>1, <5>2, <5>3, NotAlone DEF RelayInv, HeldInv
      <4> QED
        BY <2>4, <4>1, <4>2 DEF Waiting
    <3> QED
      BY <2>2, <3>2 DEF InOut, Waiting
  <2> QED
    BY <2>1, <2>2, <2>4 DEF ServerProofs!Passed
<1> QED
  BY <1>1, PairAnswers, PTL

(* As long as the client keeps its connection, the two processes implement *)
(* ProxyCalls with nothing assumed of the client: slots, one answer per    *)
(* call, and the pieces of a stream in the order they were produced.       *)
THEOREM PairContract == Spec /\ []~Server!Reconnected => ServerProofs!Contract
<1>1. Server!Init => ServerProofs!Init
  BY DEF Server!Init, ServerProofs!Init
<1>2. [Server!ServeNext]_(Server!vars) => [ServerProofs!Next]_(ServerProofs!vars)
  BY SameNext
<1>3. ServerProofs!Spec /\ []~ServerProofs!Reconnected => ServerProofs!Contract
  BY ServerAssumed, ServerProofs!Refinement
<1>4. Server!Reconnected <=> ServerProofs!Reconnected
  BY SameReconnected
<1> QED
  BY <1>1, <1>2, <1>3, <1>4, Implements, PTL
     DEF Assumed, Server!ServeSpec, ServerProofs!Spec

(* ... and neither of them panics.                                         *)
THEOREM PairNeverPanics ==
  Spec /\ []~Server!Reconnected => [](panic = "none" /\ ~clientPanic)
<1>1. Server!Init => ServerProofs!Init
  BY DEF Server!Init, ServerProofs!Init
<1>2. Server!ServeNext => ServerProofs!ServeNext
  BY SameSteps
<1>3. UNCHANGED Server!vars => UNCHANGED ServerProofs!vars
  BY SameVars
<1>4. ServerProofs!ServeSpec /\ []~ServerProofs!Reconnected => [](panic = "none")
  BY ServerAssumed, ServerProofs!ServeNeverPanics
<1>5. Server!Reconnected <=> ServerProofs!Reconnected
  BY SameReconnected
<1>6. RelayInv => ~clientPanic
  BY DEF RelayInv, Quiet
<1> QED
  BY <1>1, <1>2, <1>3, <1>4, <1>5, <1>6, Implements, Inductive, PTL
     DEF Assumed, Server!ServeSpec, ServerProofs!ServeSpec

=============================================================================
