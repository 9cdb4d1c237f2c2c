-------------------------- MODULE ClientWorkerProofs --------------------------
(***************************************************************************)
(* Proofs about ClientWorker, for every finite set of requests, every      *)
(* capacity of the channels and of the semaphore, and whenever Stop comes. *)
(*                                                                         *)
(* The semaphore counts the goroutines only because a request is in one    *)
(* place at a time (QueueInv): messageProcessor drops what it holds when   *)
(* the context is cancelled, and what it drops must not be running.        *)
(***************************************************************************)
EXTENDS ClientWorker, FiniteSetTheorems, TLAPS

(* The requests whose goroutine holds a slot, as in JobsBounded.           *)
Running == {r \in Requests : job[r] \in {"started", "asking", "sending", "finishing"}}

(* A request waits in one place only, and waiting it is not worked on.     *)
QueueInv ==
  /\ inHand # NoRequest => job[inHand] = "queued"
  /\ \A i \in 1 .. Len(recvChan) : job[recvChan[i]] = "queued" /\ recvChan[i] # inHand
  /\ \A i, j \in 1 .. Len(recvChan) : recvChan[i] = recvChan[j] => i = j

IInv == TypeOK /\ QueueInv /\ JobsBounded /\ AnswerShape

-----------------------------------------------------------------------------
(* The slots                                                               *)

(* The goroutines can be counted.                                          *)
LEMMA RunningFinite == IsFiniteSet(Running) /\ Cardinality(Running) \in Nat
<1>1. IsFiniteSet(Running)
  BY RequestsAssumption, FS_Subset DEF Running
<1> QED
  BY <1>1, FS_CardinalityType

(* A goroutine that holds a slot is counted in the semaphore.              *)
LEMMA RunningCounted ==
  ASSUME JobsBounded, NEW r \in Running
  PROVE  sem \in Nat \ {0}
<1>1. Cardinality(Running) # 0
  BY RunningFinite, FS_EmptySet
<1> QED
  BY <1>1, RunningFinite DEF JobsBounded, Running

(* A step that moves neither the count nor the set.                        *)
LEMMA SameSlots ==
  ASSUME JobsBounded, sem' = sem, Running' = Running
  PROVE  JobsBounded'
BY DEF JobsBounded, Running

(* The steps of a goroutine before its last keep its slot.                 *)
LEMMA BodyKeepsSlot ==
  ASSUME TypeOK, NEW r \in Requests,
         \/ Unreadable(r) \/ AskModel(r) \/ ModelAnswers(r)
         \/ SendAnswer(r) \/ LoseAnswer(r) \/ SendOnClosed(r)
  PROVE  sem' = sem /\ Running' = Running
<1> USE DEF TypeOK, Running, GoTo, workVars
<1>1. CASE Unreadable(r)
  BY <1>1 DEF Unreadable
<1>2. CASE AskModel(r)
  BY <1>2 DEF AskModel
<1>3. CASE ModelAnswers(r)
  BY <1>3 DEF ModelAnswers
<1>4. CASE SendAnswer(r)
  BY <1>4 DEF SendAnswer, AfterSend
<1>5. CASE LoseAnswer(r)
  BY <1>5 DEF LoseAnswer, AfterSend
<1>6. CASE SendOnClosed(r)
  BY <1>6 DEF SendOnClosed
<1> QED
  BY <1>1, <1>2, <1>3, <1>4, <1>5, <1>6

(* The semaphore counts the goroutines through every step.                 *)
LEMMA SlotStep ==
  ASSUME TypeOK, QueueInv, JobsBounded, [Next]_vars
  PROVE  JobsBounded'
<1>1. ASSUME NEW r \in Requests, Receive(r) PROVE JobsBounded'
  <2>1. sem' = sem /\ Running' = Running
    BY <1>1 DEF Receive, TypeOK, Running, GoTo
  <2> QED
    BY <2>1, SameSlots
<1>2. ASSUME NEW r \in Requests, Job(r) PROVE JobsBounded'
  <2>1. CASE Finish(r)
    <3>1. Running' = Running \ {r} /\ r \in Running
      BY <2>1 DEF Finish, TypeOK, Running, GoTo
    <3>2. Cardinality(Running') = Cardinality(Running) - 1
      BY <3>1, RunningFinite, FS_RemoveElement
    <3>3. sem' = sem - 1 /\ sem \in Nat \ {0}
      BY <2>1, <3>1, RunningCounted DEF Finish
    <3> QED
      BY <3>2, <3>3, CapacityAssumption DEF JobsBounded, Running
  <2>2. CASE ~Finish(r)
    BY <1>2, <2>2, BodyKeepsSlot, SameSlots DEF Job
  <2> QED
    BY <2>1, <2>2
<1>3. CASE TakeRequest \/ WriteAnswer \/ Stop
  <2>1. sem' = sem /\ Running' = Running
    BY <1>3 DEF TakeRequest, WriteAnswer, Stop, StopCancel, StopCloseChannel,
                StopReturns, workVars, Running
  <2> QED
    BY <2>1, SameSlots
<1>4. CASE StartJob
  <2>1. Running' = Running \cup {inHand} /\ inHand \notin Running
    BY <1>4 DEF StartJob, TypeOK, QueueInv, Running, GoTo
  <2>2. Cardinality(Running') = Cardinality(Running) + 1
    BY <2>1, RunningFinite, FS_AddElement
  <2>3. sem' = sem + 1 /\ sem < MaxConcurrentRequests
    BY <1>4 DEF StartJob
  <2> QED
    BY <2>2, <2>3, CapacityAssumption DEF JobsBounded, Running, TypeOK
<1>5. CASE ProcessorReturns
  <2>1. sem' = sem /\ Running' = Running
    BY <1>5 DEF ProcessorReturns, TypeOK, QueueInv, Running
  <2> QED
    BY <2>1, SameSlots
<1>6. CASE UNCHANGED vars
  <2>1. sem' = sem /\ Running' = Running
    BY <1>6 DEF vars, workVars, Running
  <2> QED
    BY <2>1, SameSlots
<1> QED
  BY <1>1, <1>2, <1>3, <1>4, <1>5, <1>6 DEF Next, Work, Processor, Finished

-----------------------------------------------------------------------------
(* Types                                                                   *)

(* The steps of a goroutine keep every variable in its type.               *)
LEMMA JobType ==
  ASSUME TypeOK, JobsBounded, NEW r \in Requests, Job(r)
  PROVE  TypeOK'
<1> USE CapacityAssumption
    DEF TypeOK, Jobs, Kinds, GoTo, workVars, stopVars
<1>1. CASE Unreadable(r)
  BY <1>1 DEF Unreadable
<1>2. CASE AskModel(r)
  BY <1>2 DEF AskModel
<1>3. CASE ModelAnswers(r)
  <2>1. PICK k \in PlainAnswer(r) \cup ReadEvent(r) :
          /\ answer' = [answer EXCEPT ![r] = k]
          /\ chunks' = [chunks EXCEPT ![r] = IF k = "chunk" THEN @ + 1 ELSE @]
    BY <1>3 DEF ModelAnswers
  <2>2. k \in Kinds /\ (k = "chunk" => chunks[r] < MaxChunks)
    BY DEF PlainAnswer, ReadEvent
  <2>3. chunks' \in [Requests -> 0 .. MaxChunks]
    BY <2>1, <2>2
  <2> QED
    BY <1>3, <2>1, <2>2, <2>3 DEF ModelAnswers
<1>4. CASE SendAnswer(r)
  <2>1. Append(log[r], answer[r]) \in Seq(Kinds)
    OBVIOUS
  <2>2. log' \in [Requests -> Seq(Kinds)]
    BY <1>4, <2>1 DEF SendAnswer
  <2>3. <<r, Len(log'[r])>> \in Requests \X Nat
    BY <2>2
  <2>4. sendChan' \in Seq(Requests \X Nat)
    BY <1>4, <2>3 DEF SendAnswer
  <2> QED
    BY <1>4, <2>2, <2>4 DEF SendAnswer, AfterSend
<1>5. CASE LoseAnswer(r)
  BY <1>5 DEF LoseAnswer, AfterSend
<1>6. CASE SendOnClosed(r)
  BY <1>6 DEF SendOnClosed
<1>7. CASE Finish(r)
  <2>1. sem \in Nat \ {0}
    BY <1>7, RunningCounted DEF Finish, Running
  <2> QED
    BY <1>7, <2>1 DEF Finish
<1> QED
  BY <1>1, <1>2, <1>3, <1>4, <1>5, <1>6, <1>7 DEF Job

(* Every step keeps the types; Finish needs the slot count for sem.        *)
LEMMA TypeStep ==
  ASSUME TypeOK, JobsBounded, [Next]_vars
  PROVE  TypeOK'
<1> USE CapacityAssumption DEF TypeOK, Jobs, workVars, stopVars
<1>1. ASSUME NEW r \in Requests, Receive(r) PROVE TypeOK'
  <2>1. job' \in [Requests -> Jobs]
    BY <1>1 DEF Receive, GoTo
  <2>2. recvChan' \in Seq(Requests)
    <3>1. Append(recvChan, r) \in Seq(Requests)
      OBVIOUS
    <3> QED
      BY <1>1, <3>1 DEF Receive
  <2> QED
    BY <1>1, <2>1, <2>2 DEF Receive
<1>2. ASSUME NEW r \in Requests, Job(r) PROVE TypeOK'
  BY <1>2, JobType
<1>3. CASE TakeRequest
  BY <1>3 DEF TakeRequest
<1>4. CASE StartJob
  BY <1>4 DEF StartJob, GoTo
<1>5. CASE ProcessorReturns
  BY <1>5 DEF ProcessorReturns
<1>6. CASE WriteAnswer
  BY <1>6 DEF WriteAnswer
<1>7. CASE Stop
  <2>1. CASE StopCancel
    BY <2>1 DEF StopCancel
  <2>2. CASE StopCloseChannel
    <3>1. sendChan # <<>> => Tail(sendChan) \in Seq(Requests \X Nat)
      OBVIOUS
    <3>2. sendChan' \in Seq(Requests \X Nat) /\ sendClosed' \in BOOLEAN
      BY <2>2, <3>1 DEF StopCloseChannel
    <3> QED
      BY <2>2, <3>2 DEF StopCloseChannel
  <2>3. CASE StopReturns
    BY <2>3 DEF StopReturns
  <2> QED
    BY <1>7, <2>1, <2>2, <2>3 DEF Stop
<1>8. CASE UNCHANGED vars
  BY <1>8 DEF vars
<1> QED
  BY <1>1, <1>2, <1>3, <1>4, <1>5, <1>6, <1>7, <1>8 DEF Next, Work, Processor, Finished

-----------------------------------------------------------------------------
(* Where a request waits                                                   *)

(* Every step keeps a request in one place: it enters recvChan once, moves *)
(* to messageProcessor's hand and leaves it as started or dropped.         *)
LEMMA QueueStep ==
  ASSUME TypeOK, QueueInv, [Next]_vars
  PROVE  QueueInv'
<1> USE RequestsAssumption DEF TypeOK, QueueInv
<1>1. ASSUME NEW r \in Requests, Receive(r) PROVE QueueInv'
  <2>1. /\ inHand' = inHand /\ r # inHand
        /\ \A i \in 1 .. Len(recvChan) : recvChan[i] # r /\ recvChan[i] \in Requests
        /\ \A q \in Requests : q # r => job'[q] = job[q]
    BY <1>1 DEF Receive, GoTo
  <2>2. CASE recvChan' = recvChan
    BY <2>1, <2>2
  <2>3. CASE recvChan' = Append(recvChan, r) /\ job'[r] = "queued"
    <3>1. /\ Len(recvChan') = Len(recvChan) + 1 /\ Len(recvChan) \in Nat
          /\ recvChan'[Len(recvChan) + 1] = r
          /\ \A i \in 1 .. Len(recvChan) : recvChan'[i] = recvChan[i]
      BY <2>3
    <3>2. \A i \in 1 .. Len(recvChan) : job'[recvChan[i]] = "queued"
      BY <2>1
    <3>3. \A i \in 1 .. Len(recvChan') : i # Len(recvChan) + 1 => i \in 1 .. Len(recvChan)
      BY <3>1
    <3>4. inHand' # NoRequest => job'[inHand'] = "queued"
      BY <2>1
    <3>5. \A i \in 1 .. Len(recvChan') :
            job'[recvChan'[i]] = "queued" /\ recvChan'[i] # inHand'
      BY <2>1, <2>3, <3>1, <3>2, <3>3
    <3>6. ASSUME NEW i \in 1 .. Len(recvChan'), NEW j \in 1 .. Len(recvChan'),
                 recvChan'[i] = recvChan'[j]
          PROVE  i = j
      <4>1. CASE i \in 1 .. Len(recvChan) /\ j \in 1 .. Len(recvChan)
        <5>1. recvChan[i] = recvChan[j]
          BY <3>1, <3>6, <4>1
        <5> QED
          BY <4>1, <5>1
      <4>2. CASE i = Len(recvChan) + 1 \/ j = Len(recvChan) + 1
        BY <2>1, <3>1, <3>3, <3>6, <4>2
      <4> QED
        BY <3>3, <4>1, <4>2
    <3> QED
      BY <3>4, <3>5, <3>6
  <2> QED
    BY <1>1, <2>2, <2>3 DEF Receive, GoTo
<1>2. ASSUME NEW r \in Requests, Job(r) PROVE QueueInv'
  <2>1. recvChan' = recvChan /\ inHand' = inHand
    BY <1>2 DEF Job, Unreadable, AskModel, ModelAnswers, SendAnswer, LoseAnswer,
                SendOnClosed, Finish, workVars
  <2>2. job[r] # "queued" /\ \A q \in Requests : q # r => job'[q] = job[q]
    BY <1>2 DEF Job, Unreadable, AskModel, ModelAnswers, SendAnswer, LoseAnswer,
                SendOnClosed, Finish, AfterSend, GoTo
  <2>3. /\ inHand # r
        /\ \A i \in 1 .. Len(recvChan) : recvChan[i] # r /\ recvChan[i] \in Requests
    BY <2>2
  <2> QED
    BY <2>1, <2>2, <2>3
<1>3. CASE TakeRequest
  <2> DEFINE n == Len(recvChan)
  <2>1. n \in Nat \ {0} /\ Len(recvChan') = n - 1
    BY <1>3 DEF TakeRequest
  <2>2. inHand' = recvChan[1] /\ job' = job
    BY <1>3, <2>1 DEF TakeRequest
  <2>3. ASSUME NEW i \in 1 .. Len(recvChan')
        PROVE  i + 1 \in 1 .. n /\ i \in Nat /\ recvChan'[i] = recvChan[i + 1]
    BY <1>3, <2>1 DEF TakeRequest
  <2>4. 1 \in 1 .. n
    BY <2>1
  <2>5. inHand' # NoRequest => job'[inHand'] = "queued"
    BY <2>2, <2>4
  <2>6. ASSUME NEW i \in 1 .. Len(recvChan')
        PROVE  job'[recvChan'[i]] = "queued" /\ recvChan'[i] # inHand'
    <3>1. i + 1 # 1
      BY <2>3
    <3>2. recvChan[i + 1] # recvChan[1] /\ job[recvChan[i + 1]] = "queued"
      BY <2>3, <2>4, <3>1
    <3> QED
      BY <2>2, <2>3, <3>2
  <2>7. ASSUME NEW i \in 1 .. Len(recvChan'), NEW j \in 1 .. Len(recvChan'),
               recvChan'[i] = recvChan'[j]
        PROVE  i = j
    <3>1. i + 1 = j + 1
      BY <2>3, <2>7
    <3> QED
      BY <2>3, <3>1
  <2> QED
    BY <2>5, <2>6, <2>7
<1>4. CASE StartJob
  <2>1. /\ recvChan' = recvChan /\ inHand' = NoRequest
        /\ \A q \in Requests : q # inHand => job'[q] = job[q]
    BY <1>4 DEF StartJob, GoTo
  <2>2. \A i \in 1 .. Len(recvChan) :
          recvChan[i] \in Requests /\ recvChan[i] # inHand /\ recvChan[i] # NoRequest
    OBVIOUS
  <2> QED
    BY <2>1, <2>2
<1>5. CASE ProcessorReturns
  <2>1. /\ recvChan' = recvChan /\ inHand' = NoRequest
        /\ \A q \in Requests : q # inHand => job'[q] = job[q]
    BY <1>5 DEF ProcessorReturns
  <2>2. \A i \in 1 .. Len(recvChan) :
          recvChan[i] \in Requests /\ recvChan[i] # inHand /\ recvChan[i] # NoRequest
    OBVIOUS
  <2> QED
    BY <2>1, <2>2
<1>6. CASE WriteAnswer \/ Stop \/ UNCHANGED vars
  BY <1>6 DEF WriteAnswer, Stop, StopCancel, StopCloseChannel, StopReturns, vars,
              workVars
<1> QED
  BY <1>1, <1>2, <1>3, <1>4, <1>5, <1>6 DEF Next, Work, Processor, Finished

-----------------------------------------------------------------------------
(* What is put into sendChan                                               *)

(* Steps that send nothing and restart no request that has finished.       *)
LEMMA NothingSent ==
  ASSUME AnswerShape, log' = log,
         \A r \in Requests : job[r] \in {"finishing", "done"} =>
                             job'[r] \in {"finishing", "done"}
  PROVE  AnswerShape'
BY DEF AnswerShape

(* Every step keeps the shape: a goroutine sends again only after a chunk. *)
LEMMA ShapeStep ==
  ASSUME TypeOK, QueueInv, AnswerShape, [Next]_vars
  PROVE  AnswerShape'
<1> USE DEF TypeOK
<1>1. ASSUME NEW r \in Requests, Receive(r) PROVE AnswerShape'
  BY <1>1, NothingSent DEF Receive, GoTo
<1>2. ASSUME NEW r \in Requests, Job(r) PROVE AnswerShape'
  <2>1. CASE SendAnswer(r)
    <3>1. log[r] \in Seq(Kinds) /\ answer[r] \in Kinds
      OBVIOUS
    <3>2. /\ log'[r] = Append(log[r], answer[r])
          /\ \A q \in Requests : q # r => log'[q] = log[q] /\ job'[q] = job[q]
      BY <2>1 DEF SendAnswer, AfterSend, GoTo
    <3>3. \A i \in 1 .. Len(log[r]) : log[r][i] = "chunk"
      <4>1. job[r] = "sending"
        BY <2>1 DEF SendAnswer, AfterSend, GoTo
      <4>2. log[r] # <<>> => log[r][Len(log[r])] = "chunk"
        BY <4>1 DEF AnswerShape
      <4>3. \A i \in 1 .. Len(log[r]) : i < Len(log[r]) => log[r][i] = "chunk"
        BY <3>1 DEF AnswerShape
      <4> QED
        BY <3>1, <4>2, <4>3
    <3>4. \A i \in DOMAIN log'[r] : i < Len(log'[r]) => log'[r][i] = "chunk"
      BY <3>1, <3>2, <3>3
    <3>5. log'[r][Len(log'[r])] # "chunk" => job'[r] = "finishing"
      BY <2>1, <3>1, <3>2 DEF SendAnswer, AfterSend, GoTo
    <3>6. ASSUME NEW q \in Requests, q # r
          PROVE  /\ \A i \in DOMAIN log'[q] : i < Len(log'[q]) => log'[q][i] = "chunk"
                 /\ log'[q] # <<>> /\ log'[q][Len(log'[q])] # "chunk"
                      => job'[q] \in {"finishing", "done"}
      BY <3>2, <3>6 DEF AnswerShape
    <3> QED
      BY <3>4, <3>5, <3>6 DEF AnswerShape
  <2>2. CASE ~SendAnswer(r)
    <3>1. /\ log' = log
          /\ \A q \in Requests : job[q] \in {"finishing", "done"} =>
                                 job'[q] \in {"finishing", "done"}
      BY <1>2, <2>2 DEF Job, Unreadable, AskModel, ModelAnswers, LoseAnswer,
                        SendOnClosed, Finish, AfterSend, GoTo
    <3> QED
      BY <3>1, NothingSent
  <2> QED
    BY <2>1, <2>2
<1>3. CASE TakeRequest \/ StartJob
  BY <1>3, NothingSent DEF TakeRequest, StartJob, GoTo
<1>4. CASE ProcessorReturns
  BY <1>4, NothingSent DEF ProcessorReturns, QueueInv
<1>5. CASE WriteAnswer \/ Stop \/ UNCHANGED vars
  BY <1>5, NothingSent DEF WriteAnswer, Stop, StopCancel, StopCloseChannel,
                           StopReturns, vars
<1> QED
  BY <1>1, <1>2, <1>3, <1>4, <1>5 DEF Next, Work, Processor, Finished

-----------------------------------------------------------------------------
(* The theorems                                                            *)

(* The initial state satisfies the invariant.                              *)
LEMMA Initially == Init => IInv
<1> SUFFICES ASSUME Init PROVE IInv
  OBVIOUS
<1> USE DEF Init
<1>1. TypeOK
  <2>1. sem \in 0 .. MaxConcurrentRequests /\ chunks \in [Requests -> 0 .. MaxChunks]
    BY CapacityAssumption
  <2>2. /\ recvChan \in Seq(Requests) /\ sendChan \in Seq(Requests \X Nat)
        /\ log \in [Requests -> Seq(Kinds)]
    OBVIOUS
  <2> QED
    BY <2>1, <2>2 DEF TypeOK, Jobs, Kinds
<1>2. QueueInv
  BY DEF QueueInv
<1>3. JobsBounded
  <2>1. Running = {}
    BY DEF Running
  <2> QED
    BY <2>1, FS_EmptySet, CapacityAssumption DEF JobsBounded, Running
<1>4. AnswerShape
  BY DEF AnswerShape
<1> QED
  BY <1>1, <1>2, <1>3, <1>4 DEF IInv

(* Every step keeps it.                                                    *)
LEMMA InvStep ==
  ASSUME IInv, [Next]_vars
  PROVE  IInv'
BY TypeStep, QueueStep, SlotStep, ShapeStep DEF IInv

(* The inductive invariant: the types need the slot count (sem stays a     *)
(* natural number because a finishing goroutine is counted in it), and the *)
(* count needs QueueInv.                                                   *)
THEOREM Inductive == Spec => []IInv
BY Initially, InvStep, PTL DEF Spec

(* Every variable keeps its type, for every number of requests and every   *)
(* capacity, a client that may run no job at all included.                 *)
THEOREM TypeCorrect == Spec => []TypeOK
<1>1. IInv => TypeOK
  BY DEF IInv
<1> QED
  BY <1>1, Inductive, PTL

(* The client's semaphore never leaks a slot nor frees one twice, also     *)
(* when Stop makes messageProcessor drop the request it holds.             *)
THEOREM Slots == Spec => []JobsBounded
<1>1. IInv => JobsBounded
  BY DEF IInv
<1> QED
  BY <1>1, Inductive, PTL

(* Whatever is lost, a request's messages are pieces of a stream and then  *)
(* at most one message of another kind, after which nothing is sent.       *)
THEOREM Shape == Spec => []AnswerShape
<1>1. IInv => AnswerShape
  BY DEF IInv
<1> QED
  BY <1>1, Inductive, PTL

=============================================================================
