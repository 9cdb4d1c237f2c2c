-------------------------- MODULE ConnRegistryProofs --------------------------
(***************************************************************************)
(* Proofs about ConnRegistry, for any set of connections: two pumps per    *)
(* connection, the cleaner and Stop close what they find in any order.     *)
(*                                                                         *)
(* None of the properties is inductive.  Who may call Close depends on how *)
(* far handleWebSocket is (Stages), a sweeper's hold on clientsMu on its   *)
(* place in the loop (Sweeps), and a closed entry is still in the map only *)
(* while a sweeper is about to delete it (Gone).                           *)
(***************************************************************************)
EXTENDS ConnRegistry, FiniteSetTheorems, TLAPS

(* The processes inside the body of closeOnce, as in CloseOnce.            *)
Inside(c) ==
  {p \in {Reader(c), Writer(c)} : pc[p] = "callback"}
    \cup {p \in Sweepers : pc[p] = "callback" /\ target[p] = c}

(* The callback is set before the pumps start, and a connection is closed  *)
(* or in the map only once it has been registered.                         *)
Stages ==
  \A c \in Conns :
    /\ pc[Accept(c)] \in {"idle", "registered", "callbackSet", "running"}
    /\ hasCallback[c] <=> pc[Accept(c)] \in {"callbackSet", "running"}
    /\ pc[Accept(c)] # "running" => pc[Reader(c)] = "idle" /\ pc[Writer(c)] = "idle"
    /\ pc[Accept(c)] = "idle" =>
         once[c] = "fresh" /\ c \notin clients /\ \A p \in Sweepers : target[p] # c

(* A sweeper in its loop holds clientsMu and visits each entry once.       *)
Sweeps ==
  \A p \in Sweepers :
    pc[p] \in {"scanning", "close", "callback", "closed"} =>
      /\ mu = p /\ todo[p] \subseteq clients
      /\ pc[p] # "scanning" => target[p] \notin todo[p]

(* CloseOnce without counting.                                             *)
OneInside ==
  \A c \in Conns :
    IF once[c] = "running" THEN \E p \in Procs : Inside(c) = {p} ELSE Inside(c) = {}

(* A closed entry of the map belongs to the sweeper at work: Stop empties  *)
(* the map at the end, the cleaner deletes the entry next.                 *)
Gone ==
  \A c \in clients : once[c] = "done" =>
    mu = Stopper \/ (mu = Cleaner /\ pc[Cleaner] = "closed" /\ target[Cleaner] = c)

(* Close has marked the connection dead, unless Run came after a sweeper   *)
(* had begun to close it.                                                  *)
MarkedDead ==
  \A c \in Conns : alive[c] /\ once[c] = "running" =>
    \E p \in Sweepers : pc[p] = "callback" /\ target[p] = c

IInv == RegistryTypeOK /\ Stages /\ Sweeps /\ OneInside /\ Gone /\ MarkedDead

-----------------------------------------------------------------------------
(* The processes and their steps                                           *)

(* No process goes by two names.                                           *)
LEMMA Names ==
  /\ Cleaner \in Procs /\ Stopper \in Procs /\ Cleaner # Stopper
  /\ Sweepers = {Cleaner, Stopper}
  /\ \A c \in Conns : /\ Accept(c) \in Procs /\ Reader(c) \in Procs /\ Writer(c) \in Procs
                      /\ Accept(c) \notin Sweepers /\ Reader(c) \notin Sweepers
                      /\ Writer(c) \notin Sweepers
  /\ \A c, d \in Conns :
       /\ Accept(c) # Reader(d) /\ Accept(c) # Writer(d) /\ Reader(c) # Writer(d)
       /\ c # d => Accept(c) # Accept(d) /\ Reader(c) # Reader(d) /\ Writer(c) # Writer(d)
BY DEF Accept, Reader, Writer, Cleaner, Stopper, Sweepers, Procs, Pumps

(* p may call Close on c: a pump of c, or a sweeper that is looking at c.  *)
Caller(p, c) == p \in {Reader(c), Writer(c)} \/ (p \in Sweepers /\ target[p] = c)

(* A pump going about its work.                                            *)
PumpMoves(p) ==
  \E from \in {"reading", "handling", "writing", "closed"},
     to \in {"reading", "handling", "close", "exited"} : PumpStep(p, from, to)

(* Steps that no part of the invariant but the types depends on.           *)
Quiet ==
  /\ UNCHANGED <<clients, mu, alive, once, hasCallback, pc, target, todo>>
  /\ silent' \in [Conns -> BOOLEAN] /\ ctxDone' \in BOOLEAN
  /\ picked' \in Conns \cup {NoConn}

(* What a step of the specification is to the invariant.                   *)
Steps ==
  \/ \E c \in Conns : Register(c) \/ SetOnClose(c) \/ Run(c)
  \/ \E c \in Conns, p \in Procs : Caller(p, c) /\ Close(p, c)
  \/ \E c \in Conns : PumpMoves(Reader(c)) \/ PumpMoves(Writer(c))
  \/ \E p \in Sweepers : Lock(p, "idle")
  \/ \E p \in Sweepers, c \in Conns, dead \in BOOLEAN : Visit(p, c, dead)
  \/ CleanerDelete \/ StopNext \/ CleanerUnlock \/ StopUnlock \/ CleanerExit \/ StopExit
  \/ Quiet

LEMMA AllSteps == ASSUME RegistryTypeOK, [RegistryNext]_registryVars PROVE Steps
<1> USE Names
<1>1. ASSUME NEW c \in Conns, Connection(c) PROVE Steps
  <2>1. CASE Accepting(c)
    BY <2>1 DEF Accepting, Steps
  <2>2. CASE EndHandle(c) \/ ReaderStops(c) \/ WriterStops(c)
    BY <2>2 DEF EndHandle, ReaderStops, WriterStops, ReadFails, WriteFails, PumpMoves, Steps
  <2>3. ASSUME NEW p \in {Reader(c), Writer(c)}, PumpEnds(p, c) PROVE Steps
    BY <2>3 DEF PumpEnds, Exit, PumpMoves, Caller, Steps
  <2> QED
    BY <1>1, <2>1, <2>2, <2>3 DEF Connection
<1>2. ASSUME NEW c \in Conns, Peer(c) PROVE Steps
  <2>1. CASE Register(c)
    BY <2>1 DEF Steps
  <2>2. CASE Handle(c) \/ ReadFails(c) \/ WriteFails(c)
    BY <2>2 DEF Handle, ReadFails, WriteFails, PumpMoves, Steps
  <2>3. CASE FallSilent(c)
    BY <2>3 DEF FallSilent, RegistryTypeOK, Quiet, Steps
  <2> QED
    BY <1>2, <2>1, <2>2, <2>3 DEF Peer
<1>3. CASE LetGo \/ \E c \in Conns : Pick(c)
  BY <1>3 DEF LetGo, Pick, RegistryTypeOK, Quiet, Steps
<1>4. CASE CleanerTick
  BY <1>4 DEF CleanerTick, Steps
<1>5. CASE CleanerStep
  <2>1. CASE CleanerDelete \/ CleanerUnlock \/ CleanerExit
    BY <2>1 DEF Steps
  <2>2. ASSUME NEW c \in Conns, CleanerVisit(c) PROVE Steps
    <3>1. (~alive[c] \/ silent[c]) \in BOOLEAN
      OBVIOUS
    <3> QED
      BY <2>2, <3>1 DEF CleanerVisit, Steps
  <2>3. CASE target[Cleaner] # NoConn /\ Close(Cleaner, target[Cleaner])
    <3>1. target[Cleaner] \in Conns
      BY <2>3 DEF RegistryTypeOK
    <3> QED
      BY <2>3, <3>1 DEF Caller, Steps
  <2> QED
    BY <1>5, <2>1, <2>2, <2>3 DEF CleanerStep
<1>6. CASE StopCancel
  BY <1>6 DEF StopCancel, RegistryTypeOK, Quiet, Steps
<1>7. CASE StopStep
  <2>1. CASE StopLock \/ StopNext \/ StopUnlock \/ StopExit
    BY <2>1 DEF StopLock, Steps
  <2>2. ASSUME NEW c \in Conns, StopVisit(c) PROVE Steps
    BY <2>2 DEF StopVisit, Steps
  <2>3. CASE target[Stopper] # NoConn /\ Close(Stopper, target[Stopper])
    <3>1. target[Stopper] \in Conns
      BY <2>3 DEF RegistryTypeOK
    <3> QED
      BY <2>3, <3>1 DEF Caller, Steps
  <2> QED
    BY <1>7, <2>1, <2>2, <2>3 DEF StopStep
<1>8. CASE UNCHANGED registryVars
  BY <1>8 DEF registryVars, RegistryTypeOK, Quiet, Steps
<1> QED
  BY <1>1, <1>2, <1>3, <1>4, <1>5, <1>6, <1>7, <1>8 DEF RegistryNext, Traffic

-----------------------------------------------------------------------------
(* Types and stages                                                        *)

(* Every step keeps the types.                                             *)
LEMMA TypeStep == ASSUME RegistryTypeOK, Steps PROVE RegistryTypeOK'
<1> USE Names DEF RegistryTypeOK, PCs, GoTo
<1>1. ASSUME NEW c \in Conns, Register(c) \/ SetOnClose(c) \/ Run(c) PROVE RegistryTypeOK'
  BY <1>1 DEF Register, SetOnClose, Run
<1>2. ASSUME NEW c \in Conns, NEW p \in Procs, Close(p, c) PROVE RegistryTypeOK'
  BY <1>2 DEF Close, CloseBody, CloseAgain, OnClose
<1>3. ASSUME NEW p \in Procs, PumpMoves(p) PROVE RegistryTypeOK'
  BY <1>3 DEF PumpMoves, PumpStep
<1>4. ASSUME NEW p \in Sweepers, Lock(p, "idle") PROVE RegistryTypeOK'
  BY <1>4 DEF Lock
<1>5. ASSUME NEW p \in Sweepers, NEW c \in Conns, NEW dead \in BOOLEAN, Visit(p, c, dead)
      PROVE  RegistryTypeOK'
  BY <1>5 DEF Visit
<1>6. CASE CleanerDelete \/ StopNext \/ CleanerUnlock \/ StopUnlock \/ CleanerExit \/ StopExit
  BY <1>6 DEF CleanerDelete, StopNext, CleanerUnlock, StopUnlock, CleanerExit,
              StopExit, PumpStep
<1>7. CASE Quiet
  BY <1>7 DEF Quiet
<1> QED
  BY <1>1, <1>2, <1>3, <1>4, <1>5, <1>6, <1>7 DEF Steps

(* Only registered connections get pumps, callers of Close and entries.    *)
LEMMA StageStep == ASSUME RegistryTypeOK, Stages, Sweeps, Steps PROVE Stages'
<1> USE Names DEF RegistryTypeOK, GoTo
<1>1. ASSUME NEW c \in Conns, Register(c) \/ SetOnClose(c) \/ Run(c) PROVE Stages'
  BY <1>1 DEF Register, SetOnClose, Run, Stages
<1>2. ASSUME NEW c \in Conns, NEW p \in Procs, Caller(p, c), Close(p, c) PROVE Stages'
  <2>1. pc[Accept(c)] # "idle"
    BY <1>2 DEF Caller, Close, CloseBody, CloseAgain, OnClose, Stages
  <2>2. /\ UNCHANGED <<hasCallback, target>> /\ clients' \subseteq clients
        /\ \A q \in Procs : q # p => pc'[q] = pc[q]
        /\ \A d \in Conns : d # c => once'[d] = once[d]
        /\ pc[p] # "idle"
    BY <1>2 DEF Close, CloseBody, CloseAgain, OnClose
  <2> QED
    BY <1>2, <2>1, <2>2 DEF Caller, Stages
<1>3. ASSUME NEW c \in Conns, PumpMoves(Reader(c)) \/ PumpMoves(Writer(c)) PROVE Stages'
  BY <1>3 DEF PumpMoves, PumpStep, Stages
<1>4. ASSUME NEW p \in Sweepers, Lock(p, "idle") PROVE Stages'
  BY <1>4 DEF Lock, Stages
<1>5. ASSUME NEW p \in Sweepers, NEW c \in Conns, NEW dead \in BOOLEAN, Visit(p, c, dead)
      PROVE  Stages'
  <2>1. c \in clients
    BY <1>5 DEF Visit, Sweeps
  <2> QED
    BY <1>5, <2>1 DEF Visit, Stages
<1>6. CASE CleanerDelete \/ StopNext \/ CleanerUnlock \/ StopUnlock \/ CleanerExit \/ StopExit
  BY <1>6 DEF CleanerDelete, StopNext, CleanerUnlock, StopUnlock, CleanerExit,
              StopExit, PumpStep,
              Stages
<1>7. CASE Quiet
  BY <1>7 DEF Quiet, Stages
<1> QED
  BY <1>1, <1>2, <1>3, <1>4, <1>5, <1>6, <1>7 DEF Steps

-----------------------------------------------------------------------------
(* The sweepers                                                            *)

(* clientsMu goes from sweeper to sweeper only through Free, and while one *)
(* holds it no callback and no registration changes the map.               *)
LEMMA SweepStep == ASSUME RegistryTypeOK, Sweeps, Steps PROVE Sweeps'
<1> USE Names, FreeAssumption DEF RegistryTypeOK, GoTo
<1>1. ASSUME NEW c \in Conns, Register(c) \/ SetOnClose(c) \/ Run(c) PROVE Sweeps'
  BY <1>1 DEF Register, SetOnClose, Run, Sweeps
<1>2. ASSUME NEW c \in Conns, NEW p \in Procs, Caller(p, c), Close(p, c) PROVE Sweeps'
  <2>1. /\ UNCHANGED <<mu, todo, target>>
        /\ \A q \in Procs : q # p => pc'[q] = pc[q]
        /\ pc[p] \in {"close", "callback"} /\ pc'[p] \in {"callback", "closed"}
        /\ clients' # clients => mu = Free
    BY <1>2 DEF Close, CloseBody, CloseAgain, OnClose
  <2> QED
    BY <2>1 DEF Sweeps
<1>3. ASSUME NEW c \in Conns, PumpMoves(Reader(c)) \/ PumpMoves(Writer(c)) PROVE Sweeps'
  BY <1>3 DEF PumpMoves, PumpStep, Sweeps
<1>4. ASSUME NEW p \in Sweepers, Lock(p, "idle") PROVE Sweeps'
  BY <1>4 DEF Lock, Sweeps
<1>5. ASSUME NEW p \in Sweepers, NEW c \in Conns, NEW dead \in BOOLEAN, Visit(p, c, dead)
      PROVE  Sweeps'
  BY <1>5 DEF Visit, Sweeps
<1>6. CASE CleanerDelete \/ StopNext
  BY <1>6 DEF CleanerDelete, StopNext, Sweeps
<1>7. CASE CleanerUnlock \/ StopUnlock \/ CleanerExit \/ StopExit
  BY <1>7 DEF CleanerUnlock, StopUnlock, CleanerExit, StopExit, PumpStep, Sweeps
<1>8. CASE Quiet
  BY <1>8 DEF Quiet, Sweeps
<1> QED
  BY <1>1, <1>2, <1>3, <1>4, <1>5, <1>6, <1>7, <1>8 DEF Steps

-----------------------------------------------------------------------------
(* closeOnce                                                               *)

(* A step after which the same processes are inside Close.                 *)
LEMMA SameInside ==
  ASSUME OneInside, once' = once, \A c \in Conns : Inside(c)' = Inside(c)
  PROVE  OneInside'
BY DEF OneInside

(* The first caller enters, and no other does before it has left.          *)
LEMMA InsideStep == ASSUME RegistryTypeOK, Stages, OneInside, Steps PROVE OneInside'
<1> USE Names DEF RegistryTypeOK, GoTo
<1>1. ASSUME NEW c \in Conns, NEW p \in Procs, Caller(p, c), CloseBody(p, c)
      PROVE  OneInside'
  <2>1. Inside(c) = {} /\ once'[c] = "running"
    BY <1>1 DEF CloseBody, OneInside
  <2>2. Inside(c)' = Inside(c) \cup {p}
    BY <1>1 DEF CloseBody, Caller, Inside
  <2>3. ASSUME NEW d \in Conns, d # c PROVE Inside(d)' = Inside(d) /\ once'[d] = once[d]
    BY <1>1, <2>3 DEF CloseBody, Caller, Inside
  <2> QED
    BY <2>1, <2>2, <2>3 DEF OneInside
<1>2. ASSUME NEW c \in Conns, NEW p \in Procs, Caller(p, c), OnClose(p, c)
      PROVE  OneInside'
  <2>1. p \in Inside(c) /\ once'[c] = "done"
    BY <1>2 DEF OnClose, Caller, Inside
  <2>2. Inside(c)' = Inside(c) \ {p}
    BY <1>2 DEF OnClose, Caller, Inside
  <2>3. Inside(c) = {p}
    BY <2>1 DEF OneInside
  <2>4. ASSUME NEW d \in Conns, d # c PROVE Inside(d)' = Inside(d) /\ once'[d] = once[d]
    BY <1>2, <2>4 DEF OnClose, Caller, Inside
  <2> QED
    BY <2>1, <2>2, <2>3, <2>4 DEF OneInside
<1>3. ASSUME NEW c \in Conns, NEW p \in Procs, Caller(p, c), CloseAgain(p, c)
      PROVE  OneInside'
  BY <1>3, SameInside DEF CloseAgain, Caller, Inside
<1>4. ASSUME NEW c \in Conns, Register(c) \/ SetOnClose(c) \/ Run(c) PROVE OneInside'
  <2>1. Reader(c) \in Procs /\ Writer(c) \in Procs
        /\ (Run(c) => pc[Reader(c)] = "idle" /\ pc[Writer(c)] = "idle")
    BY DEF Run, Stages
  <2> QED
    BY <1>4, <2>1, SameInside DEF Register, SetOnClose, Run, Inside
<1>5. ASSUME NEW c \in Conns, PumpMoves(Reader(c)) \/ PumpMoves(Writer(c))
      PROVE  OneInside'
  BY <1>5, SameInside DEF PumpMoves, PumpStep, Inside
<1>6. ASSUME NEW p \in Sweepers, Lock(p, "idle") PROVE OneInside'
  BY <1>6, SameInside DEF Lock, Inside
<1>7. ASSUME NEW p \in Sweepers, NEW c \in Conns, NEW dead \in BOOLEAN, Visit(p, c, dead)
      PROVE  OneInside'
  BY <1>7, SameInside DEF Visit, Inside
<1>8. CASE CleanerDelete \/ StopNext \/ CleanerUnlock \/ StopUnlock \/ CleanerExit \/ StopExit
  BY <1>8, SameInside DEF CleanerDelete, StopNext, CleanerUnlock, StopUnlock,
                          CleanerExit, StopExit, PumpStep, Inside
<1>9. CASE Quiet
  BY <1>9, SameInside DEF Quiet, Inside
<1> QED
  BY <1>1, <1>2, <1>3, <1>4, <1>5, <1>6, <1>7, <1>8, <1>9 DEF Steps, Close

-----------------------------------------------------------------------------
(* The map and the marks                                                   *)

(* A pump's callback deletes the entry; a sweeper that closed a connection *)
(* whose callback was not set yet still holds clientsMu.                   *)
LEMMA GoneStep == ASSUME RegistryTypeOK, Stages, Sweeps, Gone, Steps PROVE Gone'
<1> USE Names, FreeAssumption DEF RegistryTypeOK, GoTo
<1>1. ASSUME NEW c \in Conns, Register(c) \/ SetOnClose(c) \/ Run(c) PROVE Gone'
  BY <1>1 DEF Register, SetOnClose, Run, Stages, Gone
<1>2. ASSUME NEW c \in Conns, NEW p \in Procs, Caller(p, c), CloseBody(p, c)
      PROVE  Gone'
  BY <1>2 DEF CloseBody, Gone
<1>3. ASSUME NEW c \in Conns, NEW p \in Procs, Caller(p, c), CloseAgain(p, c)
      PROVE  Gone'
  BY <1>3 DEF CloseAgain, Gone
<1>4. ASSUME NEW c \in Conns, NEW p \in Procs, Caller(p, c), OnClose(p, c)
      PROVE  Gone'
  <2>1. CASE p \in {Reader(c), Writer(c)}
    <3>1. hasCallback[c]
      BY <1>4, <2>1 DEF OnClose, Stages
    <3> QED
      BY <1>4, <2>1, <3>1 DEF OnClose, Gone
  <2>2. CASE p \in Sweepers /\ target[p] = c
    <3>1. mu = p /\ mu # Free
      BY <1>4, <2>2 DEF OnClose, Sweeps
    <3>2. /\ clients' = clients /\ mu' = mu /\ target' = target
          /\ pc'[p] = "closed" /\ pc[p] = "callback"
          /\ \A d \in Conns : d # c => once'[d] = once[d]
      BY <1>4, <3>1 DEF OnClose
    <3> QED
      BY <2>2, <3>1, <3>2 DEF Gone
  <2> QED
    BY <1>4, <2>1, <2>2 DEF Caller
<1>5. ASSUME NEW c \in Conns, PumpMoves(Reader(c)) \/ PumpMoves(Writer(c)) PROVE Gone'
  BY <1>5 DEF PumpMoves, PumpStep, Gone
<1>6. ASSUME NEW p \in Sweepers, Lock(p, "idle") PROVE Gone'
  BY <1>6 DEF Lock, Gone
<1>7. ASSUME NEW p \in Sweepers, NEW c \in Conns, NEW dead \in BOOLEAN, Visit(p, c, dead)
      PROVE  Gone'
  BY <1>7 DEF Visit, Gone
<1>8. CASE CleanerDelete \/ StopNext
  BY <1>8 DEF CleanerDelete, StopNext, Gone, Sweeps
<1>9. CASE CleanerUnlock \/ StopUnlock \/ CleanerExit \/ StopExit
  BY <1>9 DEF CleanerUnlock, StopUnlock, CleanerExit, StopExit, PumpStep, Gone, Sweeps
<1>10. CASE Quiet
  BY <1>10 DEF Quiet, Gone
<1> QED
  BY <1>1, <1>2, <1>3, <1>4, <1>5, <1>6, <1>7, <1>8, <1>9, <1>10 DEF Steps, Close

(* Run marks a connection alive that is being closed only if a sweeper is  *)
(* closing it: the pumps do not run yet.                                   *)
LEMMA MarkStep ==
  ASSUME RegistryTypeOK, Stages, OneInside, MarkedDead, Steps
  PROVE  MarkedDead'
<1> USE Names DEF RegistryTypeOK, GoTo
<1>1. ASSUME NEW c \in Conns, Register(c) \/ SetOnClose(c) PROVE MarkedDead'
  BY <1>1 DEF Register, SetOnClose, MarkedDead
<1>2. ASSUME NEW c \in Conns, Run(c) PROVE MarkedDead'
  <2>1. once[c] = "running" => \E p \in Sweepers : pc[p] = "callback" /\ target[p] = c
    <3>1. pc[Reader(c)] = "idle" /\ pc[Writer(c)] = "idle"
      BY <1>2 DEF Run, Stages
    <3>2. once[c] = "running" => \E p \in Procs : p \in Inside(c)
      BY DEF OneInside
    <3> QED
      BY <3>1, <3>2 DEF Inside
  <2> QED
    BY <1>2, <2>1 DEF Run, MarkedDead
<1>3. ASSUME NEW c \in Conns, NEW p \in Procs, Caller(p, c), CloseBody(p, c)
      PROVE  MarkedDead'
  BY <1>3 DEF CloseBody, MarkedDead
<1>4. ASSUME NEW c \in Conns, NEW p \in Procs, Caller(p, c), CloseAgain(p, c)
      PROVE  MarkedDead'
  BY <1>4 DEF CloseAgain, MarkedDead
<1>5. ASSUME NEW c \in Conns, NEW p \in Procs, Caller(p, c), OnClose(p, c)
      PROVE  MarkedDead'
  BY <1>5 DEF OnClose, Caller, MarkedDead
<1>6. ASSUME NEW c \in Conns, PumpMoves(Reader(c)) \/ PumpMoves(Writer(c))
      PROVE  MarkedDead'
  BY <1>6 DEF PumpMoves, PumpStep, MarkedDead
<1>7. ASSUME NEW p \in Sweepers, Lock(p, "idle") PROVE MarkedDead'
  BY <1>7 DEF Lock, MarkedDead
<1>8. ASSUME NEW p \in Sweepers, NEW c \in Conns, NEW dead \in BOOLEAN, Visit(p, c, dead)
      PROVE  MarkedDead'
  BY <1>8 DEF Visit, MarkedDead
<1>9. CASE CleanerDelete \/ StopNext \/ CleanerUnlock \/ StopUnlock \/ CleanerExit \/ StopExit
  BY <1>9 DEF CleanerDelete, StopNext, CleanerUnlock, StopUnlock, CleanerExit,
              StopExit, PumpStep,
              MarkedDead
<1>10. CASE Quiet
  BY <1>10 DEF Quiet, MarkedDead
<1> QED
  BY <1>1, <1>2, <1>3, <1>4, <1>5, <1>6, <1>7, <1>8, <1>9, <1>10 DEF Steps, Close

-----------------------------------------------------------------------------
(* The theorems                                                            *)

(* The initial state satisfies the invariant.                              *)
LEMMA Initially == ASSUME RegistryInit PROVE IInv
<1> USE Names DEF RegistryInit
<1>1. RegistryTypeOK
  BY DEF RegistryTypeOK, PCs
<1>2. Stages /\ Sweeps /\ Gone /\ MarkedDead
  BY ConnsAssumption DEF Stages, Sweeps, Gone, MarkedDead
<1>3. OneInside
  BY DEF OneInside, Inside
<1> QED
  BY <1>1, <1>2, <1>3 DEF IInv

(* Together the parts are inductive.                                       *)
THEOREM Inductive == RegistrySpec => []IInv
<1>1. IInv /\ [RegistryNext]_registryVars => IInv'
  BY AllSteps, TypeStep, StageStep, SweepStep, InsideStep, GoneStep, MarkStep DEF IInv
<1> QED
  BY <1>1, Initially, PTL DEF RegistrySpec

(* Every variable keeps its type.                                          *)
THEOREM TypeCorrect == RegistrySpec => []RegistryTypeOK
<1>1. IInv => RegistryTypeOK
  BY DEF IInv
<1> QED
  BY <1>1, Inductive, PTL

(* Whatever connections come and go, one sweeper at a time walks the map   *)
(* and nobody changes it meanwhile.                                        *)
THEOREM Exclusive == RegistrySpec => []SweepExclusive
<1>1. IInv => SweepExclusive
  BY DEF IInv, Sweeps, SweepExclusive
<1> QED
  BY <1>1, Inductive, PTL

(* SendChan and socket of a connection are closed once.                    *)
THEOREM Once == RegistrySpec => []CloseOnce
<1>1. IInv => CloseOnce
  <2> SUFFICES ASSUME IInv, NEW c \in Conns
               PROVE  Cardinality(Inside(c)) = IF once[c] = "running" THEN 1 ELSE 0
    BY DEF CloseOnce, Inside
  <2>1. CASE once[c] = "running"
    <3>1. PICK p \in Procs : Inside(c) = {p}
      BY <2>1 DEF IInv, OneInside
    <3> QED
      BY <2>1, <3>1, FS_Singleton
  <2>2. CASE once[c] # "running"
    BY <2>2, FS_EmptySet DEF IInv, OneInside
  <2> QED
    BY <2>1, <2>2
<1> QED
  BY <1>1, Inductive, PTL

(* Whoever finds clientsMu free finds no closed connection in the map.     *)
THEOREM Forgotten == RegistrySpec => []ClosedIsForgotten
<1>1. IInv => ClosedIsForgotten
  BY Names, FreeAssumption DEF IInv, Gone, ClosedIsForgotten
<1> QED
  BY <1>1, Inductive, PTL

(* A handler is never given a connection whose SendChan is closed.         *)
THEOREM Picks == RegistrySpec => PicksOpen
<1>1. IInv /\ [RegistryNext]_registryVars
        => [picked' # picked /\ picked' # NoConn => ~Closed(picked')]_registryVars
  <2> SUFFICES ASSUME IInv, [RegistryNext]_registryVars, picked' # picked, picked' # NoConn
               PROVE  once[picked'] = "fresh"
    BY DEF Closed
  <2>1. PICK c \in Conns : Pick(c)
    BY DEF RegistryNext, Traffic, LetGo, Connection, Accepting, SetOnClose, Run, EndHandle,
           ReaderStops, WriterStops, ReadFails, WriteFails, PumpEnds, Exit, PumpStep, Close,
           CloseBody, CloseAgain, OnClose, Peer, Register, Handle, FallSilent,
           CleanerTick, Lock, CleanerStep, CleanerDelete, CleanerUnlock, CleanerExit,
           CleanerVisit, Visit, StopCancel, StopStep, StopLock, StopNext, StopUnlock,
           StopExit, StopVisit, registryVars
  <2>2. mu = Free /\ c \in clients /\ alive[c] /\ picked' = c
    BY <2>1 DEF Pick
  <2>3. once[c] # "done"
    BY <2>2, Names, FreeAssumption DEF IInv, Gone
  <2>4. once[c] # "running"
    BY <2>2, Names, FreeAssumption DEF IInv, MarkedDead, Sweeps
  <2> QED
    BY <2>2, <2>3, <2>4 DEF IInv, RegistryTypeOK
<1> QED
  BY <1>1, Inductive, PTL DEF PicksOpen, RegistrySpec

=============================================================================
