---------------------------- MODULE ClientWorker ----------------------------
(***************************************************************************)
(* The work of the client process: readPump puts requests into recvChan,   *)
(* messageProcessor takes a slot of its semaphore for each and starts      *)
(* handleMessage in a goroutine, which asks llama-server and puts its      *)
(* answers into sendChan for the writePumps.  Stop cancels the context,    *)
(* closes the connection, closes sendChan 100 milliseconds later and waits *)
(* at most five seconds for the goroutines.                                *)
(*                                                                         *)
(* The connection itself is ClientLink's subject, and llama-server an      *)
(* environment that answers a request in any way the client understands.   *)
(***************************************************************************)
EXTENDS Naturals, Sequences, FiniteSets

CONSTANTS
  Requests,               \* request messages the server sends
  Streams,                \* those with Stream set
  NoRequest,              \* messageProcessor holds no request
  MaxConcurrentRequests,  \* capacity of the processor's semaphore
  RecvCap,                \* buffer of recvChan (100 in the code)
  SendCap,                \* buffer of sendChan (100 in the code)
  MaxChunks               \* bound: events llama-server streams per request

ASSUME RequestsAssumption ==
  IsFiniteSet(Requests) /\ Streams \subseteq Requests /\ NoRequest \notin Requests
ASSUME CapacityAssumption ==
  /\ MaxConcurrentRequests \in Nat
  /\ RecvCap \in Nat \ {0} /\ SendCap \in Nat \ {0} /\ MaxChunks \in Nat

Kinds == {"response", "chunk", "end", "error"}

VARIABLES
  job,        \* handleMessage of each request
  recvChan,   \* requests not yet taken by messageProcessor
  inHand,     \* the request it has taken and has no slot for yet
  procDone,   \* messageProcessor has returned
  sem,        \* slots taken
  chunks,     \* events of the stream read so far
  answer,     \* the kind of message the goroutine is sending
  sendChan,   \* messages waiting for a writePump; <<r, k>> is the k-th of log[r]
  log,        \* per request, the kinds put into sendChan so far
  sendClosed, stopPc, panic

workVars == <<recvChan, inHand, procDone, sem>>
stopVars == <<sendClosed, stopPc>>
vars == <<job, workVars, chunks, answer, sendChan, log, stopVars, panic>>

Jobs == {"new", "queued", "dropped", "started", "asking", "sending",
         "finishing", "done"}

TypeOK ==
  /\ job \in [Requests -> Jobs]
  /\ recvChan \in Seq(Requests)
  /\ inHand \in Requests \cup {NoRequest}
  /\ procDone \in BOOLEAN
  /\ sem \in 0 .. MaxConcurrentRequests
  /\ chunks \in [Requests -> 0 .. MaxChunks]
  /\ answer \in [Requests -> Kinds]
  /\ sendChan \in Seq(Requests \X Nat)
  /\ log \in [Requests -> Seq(Kinds)]
  /\ sendClosed \in BOOLEAN
  /\ stopPc \in {"running", "sleeping", "waiting", "exited"}
  /\ panic \in BOOLEAN

Init ==
  /\ job = [r \in Requests |-> "new"]
  /\ recvChan = <<>>
  /\ inHand = NoRequest
  /\ procDone = FALSE
  /\ sem = 0
  /\ chunks = [r \in Requests |-> 0]
  /\ answer = [r \in Requests |-> "error"]
  /\ sendChan = <<>>
  /\ log = [r \in Requests |-> <<>>]
  /\ sendClosed = FALSE
  /\ stopPc = "running"
  /\ panic = FALSE

ctxDone == stopPc # "running"

GoTo(r, from, to) ==
  /\ job[r] = from
  /\ job' = [job EXCEPT ![r] = to]

-----------------------------------------------------------------------------
(* readPump and messageProcessor                                           *)

(* recvChan has room, or the request is dropped without an answer.  Stop    *)
(* closes the connection, but what was read before may still arrive.       *)
Receive(r) ==
  /\ IF Len(recvChan) < RecvCap
       THEN GoTo(r, "new", "queued") /\ recvChan' = Append(recvChan, r)
       ELSE GoTo(r, "new", "dropped") /\ UNCHANGED recvChan
  /\ UNCHANGED <<inHand, procDone, sem, chunks, answer, sendChan, log, stopVars, panic>>

TakeRequest ==
  /\ ~procDone /\ inHand = NoRequest /\ recvChan # <<>>
  /\ inHand' = Head(recvChan)
  /\ recvChan' = Tail(recvChan)
  /\ UNCHANGED <<job, procDone, sem, chunks, answer, sendChan, log, stopVars, panic>>

(* Mutant: a slot is taken without asking whether one is left.             *)
StartUnbounded ==
  /\ inHand # NoRequest
  /\ GoTo(inHand, "queued", "started")
  /\ sem' = sem + 1
  /\ inHand' = NoRequest
  /\ UNCHANGED <<recvChan, procDone, chunks, answer, sendChan, log, stopVars, panic>>

StartJob ==
  /\ inHand # NoRequest
  /\ sem < MaxConcurrentRequests
  /\ GoTo(inHand, "queued", "started")
  /\ sem' = sem + 1
  /\ inHand' = NoRequest
  /\ UNCHANGED <<recvChan, procDone, chunks, answer, sendChan, log, stopVars, panic>>

(* On a cancelled context messageProcessor releases what it holds; what is *)
(* queued stays there.                                                     *)
ProcessorReturns ==
  /\ ctxDone /\ ~procDone
  /\ procDone' = TRUE
  /\ inHand' = NoRequest
  /\ job' = IF inHand = NoRequest THEN job ELSE [job EXCEPT ![inHand] = "dropped"]
  /\ UNCHANGED <<recvChan, sem, chunks, answer, sendChan, log, stopVars, panic>>

-----------------------------------------------------------------------------
(* handleMessage of request r                                              *)

(* The message is no request the client can read: an error is sent, or     *)
(* nothing at all for an unexpected type.                                  *)
Unreadable(r) ==
  /\ \/ GoTo(r, "started", "sending") /\ answer' = [answer EXCEPT ![r] = "error"]
     \/ GoTo(r, "started", "finishing") /\ UNCHANGED answer
  /\ UNCHANGED <<workVars, chunks, sendChan, log, stopVars, panic>>

AskModel(r) ==
  /\ GoTo(r, "started", "asking")
  /\ UNCHANGED <<workVars, chunks, answer, sendChan, log, stopVars, panic>>

(* An ordinary answer, also to a streaming call whose upstream does not    *)
(* stream, or an error.                                                    *)
PlainAnswer(r) == IF chunks[r] = 0 THEN {"response", "error"} ELSE {}

(* readEvent: what has been read up to a double newline, or to the end of  *)
(* the body, is an event; the end with nothing read ends the stream; on    *)
(* another error what has been read is dropped.                            *)
ReadEvent(r) ==
  IF r \in Streams
    THEN {"end", "error"} \cup (IF chunks[r] < MaxChunks THEN {"chunk"} ELSE {})
    ELSE {}

(* The next thing to send.  httpClient gives up after fifteen minutes, so  *)
(* something always comes.                                                 *)
ModelAnswers(r) ==
  /\ GoTo(r, "asking", "sending")
  /\ \E k \in PlainAnswer(r) \cup ReadEvent(r) :
       /\ answer' = [answer EXCEPT ![r] = k]
       /\ chunks' = [chunks EXCEPT ![r] = IF k = "chunk" THEN @ + 1 ELSE @]
  /\ UNCHANGED <<workVars, sendChan, log, stopVars, panic>>

(* Mutant: handleStreamRequest goes on reading after an error.             *)
ErrorGoesOn(r) ==
  GoTo(r, "sending", IF answer[r] \in {"chunk", "error"} /\ ~ctxDone
                       THEN "asking" ELSE "finishing")

(* After a chunk the loop goes on unless the context is done; every other  *)
(* message is the last.                                                    *)
AfterSend(r) ==
  GoTo(r, "sending", IF answer[r] = "chunk" /\ ~ctxDone THEN "asking" ELSE "finishing")

SendAnswer(r) ==
  /\ AfterSend(r)
  /\ ~sendClosed /\ Len(sendChan) < SendCap
  /\ log' = [log EXCEPT ![r] = Append(@, answer[r])]
  /\ sendChan' = Append(sendChan, <<r, Len(log'[r])>>)
  /\ UNCHANGED <<workVars, chunks, answer, stopVars, panic>>

(* Encryption fails before the send is tried (errors are sent in clear),   *)
(* or sendChan stays full for five seconds.                                *)
LoseAnswer(r) ==
  /\ AfterSend(r)
  /\ sendClosed => answer[r] # "error"
  /\ UNCHANGED <<workVars, chunks, answer, sendChan, log, stopVars, panic>>

SendOnClosed(r) ==
  /\ job[r] = "sending" /\ sendClosed
  /\ panic' = TRUE
  /\ UNCHANGED <<job, workVars, chunks, answer, sendChan, log, stopVars>>

(* Mutant: the goroutine ends without <-sem.                               *)
FinishKeepsSlot(r) ==
  /\ GoTo(r, "finishing", "done")
  /\ UNCHANGED <<workVars, chunks, answer, sendChan, log, stopVars, panic>>

Finish(r) ==
  /\ GoTo(r, "finishing", "done")
  /\ sem' = sem - 1
  /\ UNCHANGED <<recvChan, inHand, procDone, chunks, answer, sendChan, log,
                 stopVars, panic>>

-----------------------------------------------------------------------------
(* writePumps and Stop                                                     *)

WriteAnswer ==
  /\ sendChan # <<>>
  /\ sendChan' = Tail(sendChan)
  /\ UNCHANGED <<job, workVars, chunks, answer, log, stopVars, panic>>

StopCancel ==
  /\ stopPc = "running"
  /\ stopPc' = "sleeping"
  /\ UNCHANGED <<job, workVars, chunks, answer, sendChan, log, sendClosed, panic>>

(* The select meant to tell whether sendChan is closed already: a message  *)
(* waiting in it is taken and lost, and the channel stays open.            *)
StopCloseChannel ==
  /\ stopPc = "sleeping"
  /\ stopPc' = "waiting"
  /\ IF sendChan # <<>>
       THEN sendChan' = Tail(sendChan) /\ UNCHANGED sendClosed
       ELSE sendClosed' = TRUE /\ UNCHANGED sendChan
  /\ UNCHANGED <<job, workVars, chunks, answer, log, panic>>

(* All goroutines have ended or five seconds have passed; main returns.    *)
StopReturns ==
  /\ stopPc = "waiting"
  /\ stopPc' = "exited"
  /\ UNCHANGED <<job, workVars, chunks, answer, sendChan, log, sendClosed, panic>>

-----------------------------------------------------------------------------

Job(r) == \/ Unreadable(r) \/ AskModel(r) \/ ModelAnswers(r) \/ SendAnswer(r)
          \/ LoseAnswer(r) \/ SendOnClosed(r) \/ Finish(r)

Processor == TakeRequest \/ StartJob \/ ProcessorReturns

Stop == StopCancel \/ StopCloseChannel \/ StopReturns

Alive == ~panic /\ stopPc # "exited"

Work == Processor \/ WriteAnswer \/ \E r \in Requests : Receive(r) \/ Job(r)

Finished ==
  /\ ~Alive \/ \A r \in Requests : job[r] \in {"dropped", "done"}
  /\ UNCHANGED vars

Next == (Alive /\ (Work \/ Stop)) \/ Finished

Spec == Init /\ [][Next]_vars

(* Goroutines are scheduled and llama-server answers or times out.         *)
WorkFairness ==
  /\ WF_vars(Alive /\ Processor)
  /\ \A r \in Requests : WF_vars(Alive /\ Job(r))

FairSpec == Spec /\ WorkFairness

-----------------------------------------------------------------------------
(* Properties                                                              *)

(* The semaphore counts the running goroutines exactly and bounds them.    *)
JobsBounded ==
  LET running == {r \in Requests : job[r] \in {"started", "asking", "sending", "finishing"}}
  IN sem = Cardinality(running) /\ sem <= MaxConcurrentRequests

(* What the server relies on: whatever fails or is lost on the way, the    *)
(* messages of a request are pieces of a stream followed by at most one    *)
(* message of another kind, which is the last the client ever sends.       *)
AnswerShape ==
  \A r \in Requests :
    /\ \A i \in DOMAIN log[r] : i < Len(log[r]) => log[r][i] = "chunk"
    /\ log[r] # <<>> /\ log[r][Len(log[r])] # "chunk" => job[r] \in {"finishing", "done"}

(* A request accepted into recvChan is worked on until its goroutine ends, *)
(* however long sendChan stays full, unless the client is stopped.         *)
AcceptedEnds ==
  \A r \in Requests : job[r] = "queued" ~> (job[r] = "done" \/ ctxDone)

(* client.go:161: sendChan is closed safely, without a panic.              *)
StopNeverPanics == ~panic

=============================================================================
