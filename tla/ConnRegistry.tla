---------------------------- MODULE ConnRegistry ----------------------------
(***************************************************************************)
(* The server's registry of web-socket clients.  handleWebSocket registers *)
(* a connection under clientsMu, sets its onClose callback and starts its  *)
(* readPump and writePump; each pump closes the connection when it ends.   *)
(* ClientConn.Close runs once: it marks the connection dead, closes        *)
(* SendChan and the socket, and calls onClose, which takes clientsMu to    *)
(* delete the entry.  The cleaner and Stop call Close too, while they hold *)
(* clientsMu.                                                              *)
(*                                                                         *)
(* sync.Once blocks a second caller until the first has returned, and      *)
(* neither it nor clientsMu can be entered again by its holder: both locks *)
(* are modelled, each blocking step is an action.  GetActiveClient's read  *)
(* lock excludes the writers only, so a pick is one step.                  *)
(***************************************************************************)
EXTENDS Naturals, FiniteSets

CONSTANTS
  Conns,      \* accepted connections
  NoConn,     \* no connection
  Free        \* clientsMu is not held

ASSUME ConnsAssumption == NoConn \notin Conns

Accept(c) == <<"accept", c>>
Reader(c) == <<"reader", c>>
Writer(c) == <<"writer", c>>
Cleaner   == <<"cleaner", NoConn>>
Stopper   == <<"stop", NoConn>>

Pumps    == {Reader(c) : c \in Conns} \cup {Writer(c) : c \in Conns}
Sweepers == {Cleaner, Stopper}     \* they close what they find in the map
Procs    == {Accept(c) : c \in Conns} \cup Pumps \cup Sweepers

ASSUME FreeAssumption == Free \notin Procs

VARIABLES
  clients,      \* s.clients
  mu,           \* the writer that holds clientsMu, or Free
  alive,        \* isAlive
  silent,       \* lastPing is more than two minutes old
  once,         \* closeOnce: "fresh", "running", "done"
  hasCallback,  \* onClose has been set
  pc,
  target,       \* the connection a sweeper is closing
  todo,         \* entries of the map a sweeper has not looked at yet
  ctxDone,      \* the server's context is cancelled
  picked        \* what GetActiveClient last returned to a handler

registryVars == <<clients, mu, alive, silent, once, hasCallback, pc, target,
                  todo, ctxDone, picked>>

PCs == {"idle", "registered", "callbackSet", "running",      \* accept
        "reading", "handling", "writing",                    \* pumps
        "scanning", "finished",                              \* sweepers
        "close", "callback", "closed", "exited"}             \* inside Close

RegistryTypeOK ==
  /\ clients \subseteq Conns
  /\ mu \in Procs \cup {Free}
  /\ alive \in [Conns -> BOOLEAN]
  /\ silent \in [Conns -> BOOLEAN]
  /\ once \in [Conns -> {"fresh", "running", "done"}]
  /\ hasCallback \in [Conns -> BOOLEAN]
  /\ pc \in [Procs -> PCs]
  /\ target \in [Sweepers -> Conns \cup {NoConn}]
  /\ todo \in [Sweepers -> SUBSET Conns]
  /\ ctxDone \in BOOLEAN
  /\ picked \in Conns \cup {NoConn}

RegistryInit ==
  /\ clients = {}
  /\ mu = Free
  /\ alive = [c \in Conns |-> FALSE]
  /\ silent = [c \in Conns |-> FALSE]
  /\ once = [c \in Conns |-> "fresh"]
  /\ hasCallback = [c \in Conns |-> FALSE]
  /\ pc = [p \in Procs |-> "idle"]
  /\ target = [p \in Sweepers |-> NoConn]
  /\ todo = [p \in Sweepers |-> {}]
  /\ ctxDone = FALSE
  /\ picked = NoConn

(* SendChan and the socket are closed by the first step of Close.          *)
Closed(c) == once[c] # "fresh"

GoTo(p, from, to) ==
  /\ pc[p] = from
  /\ pc' = [pc EXCEPT ![p] = to]

-----------------------------------------------------------------------------
(* handleWebSocket and Run                                                 *)

(* Web sockets are accepted until Stop has shut the listener down.         *)
Register(c) ==
  /\ pc[Stopper] # "exited"
  /\ mu = Free
  /\ GoTo(Accept(c), "idle", "registered")
  /\ clients' = clients \cup {c}
  /\ UNCHANGED <<mu, alive, silent, once, hasCallback, target, todo, ctxDone, picked>>

SetOnClose(c) ==
  /\ GoTo(Accept(c), "registered", "callbackSet")
  /\ hasCallback' = [hasCallback EXCEPT ![c] = TRUE]
  /\ UNCHANGED <<clients, mu, alive, silent, once, target, todo, ctxDone, picked>>

(* Run marks the connection alive, even one a sweeper has just closed.     *)
Run(c) ==
  /\ pc[Accept(c)] = "callbackSet"
  /\ pc' = [pc EXCEPT ![Accept(c)] = "running", ![Reader(c)] = "reading",
                      ![Writer(c)] = "writing"]
  /\ alive' = [alive EXCEPT ![c] = TRUE]
  /\ UNCHANGED <<clients, mu, silent, once, hasCallback, target, todo, ctxDone, picked>>

-----------------------------------------------------------------------------
(* ClientConn.Close, called by process p on connection c                   *)

(* Mutant: without closeOnce every caller runs the body.                   *)
CloseUnguarded(p, c) ==
  /\ GoTo(p, "close", "callback")
  /\ once' = [once EXCEPT ![c] = "running"]
  /\ alive' = [alive EXCEPT ![c] = FALSE]
  /\ UNCHANGED <<clients, mu, silent, hasCallback, target, todo, ctxDone, picked>>

(* The body of Close up to onClose.                                        *)
CloseBody(p, c) ==
  /\ once[c] = "fresh"
  /\ GoTo(p, "close", "callback")
  /\ once' = [once EXCEPT ![c] = "running"]
  /\ alive' = [alive EXCEPT ![c] = FALSE]
  /\ UNCHANGED <<clients, mu, silent, hasCallback, target, todo, ctxDone, picked>>

(* A later caller returns once the body has; until then it waits.          *)
CloseAgain(p, c) ==
  /\ once[c] = "done"
  /\ GoTo(p, "close", "closed")
  /\ UNCHANGED <<clients, mu, alive, silent, once, hasCallback, target, todo,
                 ctxDone, picked>>

(* Mutant: a callback that does not delete the entry.                      *)
OnCloseForgets(p, c) ==
  /\ GoTo(p, "callback", "closed")
  /\ hasCallback[c] => mu = Free
  /\ once' = [once EXCEPT ![c] = "done"]
  /\ UNCHANGED <<clients, mu, alive, silent, hasCallback, target, todo, ctxDone,
                 picked>>

(* Mutant: a callback that trusts its caller to hold clientsMu.            *)
OnCloseUnlocked(p, c) ==
  /\ GoTo(p, "callback", "closed")
  /\ clients' = IF hasCallback[c] THEN clients \ {c} ELSE clients
  /\ once' = [once EXCEPT ![c] = "done"]
  /\ UNCHANGED <<mu, alive, silent, hasCallback, target, todo, ctxDone, picked>>

OnClose(p, c) ==
  /\ GoTo(p, "callback", "closed")
  /\ IF hasCallback[c] THEN mu = Free /\ clients' = clients \ {c}
                       ELSE UNCHANGED clients
  /\ once' = [once EXCEPT ![c] = "done"]
  /\ UNCHANGED <<mu, alive, silent, hasCallback, target, todo, ctxDone, picked>>

Close(p, c) == CloseBody(p, c) \/ CloseAgain(p, c) \/ OnClose(p, c)

-----------------------------------------------------------------------------
(* readPump and writePump                                                  *)

PumpStep(p, from, to) ==
  /\ GoTo(p, from, to)
  /\ UNCHANGED <<clients, mu, alive, silent, once, hasCallback, target, todo,
                 ctxDone, picked>>

Handle(c)       == PumpStep(Reader(c), "reading", "handling")
EndHandle(c)    == PumpStep(Reader(c), "handling", "reading")
ReadFails(c)    == PumpStep(Reader(c), "reading", "close")
WriteFails(c)   == PumpStep(Writer(c), "writing", "close")

(* A closed socket fails the read; writePump sees SendChan or the server's *)
(* context closed.                                                         *)
ReaderStops(c) == Closed(c) /\ ReadFails(c)
WriterStops(c) == (Closed(c) \/ ctxDone) /\ WriteFails(c)

Exit(p) == PumpStep(p, "closed", "exited")

(* The 90-second read deadline, re-armed by every pong, ends a silent      *)
(* client before two minutes pass, unless readPump is then at work on the  *)
(* messages it has buffered (each may take five seconds).                  *)
FallSilent(c) ==
  /\ pc[Reader(c)] = "handling"
  /\ ~silent[c]
  /\ silent' = [silent EXCEPT ![c] = TRUE]
  /\ UNCHANGED <<clients, mu, alive, once, hasCallback, pc, target, todo, ctxDone, picked>>

(* GetActiveClient, and the handler letting go of its result.              *)
Pick(c) ==
  /\ mu = Free
  /\ c \in clients /\ alive[c]
  /\ picked' = c
  /\ UNCHANGED <<clients, mu, alive, silent, once, hasCallback, pc, target,
                 todo, ctxDone>>

LetGo ==
  /\ picked # NoConn
  /\ picked' = NoConn
  /\ UNCHANGED <<clients, mu, alive, silent, once, hasCallback, pc, target,
                 todo, ctxDone>>

-----------------------------------------------------------------------------
(* The sweepers: cleanupDeadClients and Stop                               *)

Lock(p, from) ==
  /\ mu = Free
  /\ GoTo(p, from, "scanning")
  /\ mu' = p
  /\ todo' = [todo EXCEPT ![p] = clients]
  /\ UNCHANGED <<clients, alive, silent, once, hasCallback, target, ctxDone, picked>>

(* Look at the next entry of the map: close it or pass.                    *)
Visit(p, c, dead) ==
  /\ pc[p] = "scanning"
  /\ c \in todo[p]
  /\ todo' = [todo EXCEPT ![p] = @ \ {c}]
  /\ IF dead
       THEN /\ pc' = [pc EXCEPT ![p] = "close"]
            /\ target' = [target EXCEPT ![p] = c]
       ELSE UNCHANGED <<pc, target>>
  /\ UNCHANGED <<clients, mu, alive, silent, once, hasCallback, ctxDone, picked>>

(* The ticker, which a select may prefer to a context that is done.        *)
CleanerTick == Lock(Cleaner, "idle")

CleanerVisit(c) == Visit(Cleaner, c, ~alive[c] \/ silent[c])

(* Mutant: the entry is overwritten with nil instead of deleted.           *)
CleanerStoresNil ==
  /\ GoTo(Cleaner, "closed", "scanning")
  /\ clients' = (clients \ {target[Cleaner]}) \cup {NoConn}
  /\ UNCHANGED <<mu, alive, silent, once, hasCallback, target, todo, ctxDone, picked>>

(* Mutant: the cleaner leaves the deletion to onClose.                     *)
CleanerLeavesEntry ==
  /\ GoTo(Cleaner, "closed", "scanning")
  /\ UNCHANGED <<clients, mu, alive, silent, once, hasCallback, target, todo,
                 ctxDone, picked>>

CleanerDelete ==
  /\ GoTo(Cleaner, "closed", "scanning")
  /\ clients' = clients \ {target[Cleaner]}
  /\ UNCHANGED <<mu, alive, silent, once, hasCallback, target, todo, ctxDone, picked>>

CleanerUnlock ==
  /\ todo[Cleaner] = {}
  /\ GoTo(Cleaner, "scanning", "idle")
  /\ mu' = Free
  /\ UNCHANGED <<clients, alive, silent, once, hasCallback, target, todo, ctxDone, picked>>

CleanerExit ==
  /\ ctxDone
  /\ PumpStep(Cleaner, "idle", "exited")

StopCancel ==
  /\ ~ctxDone
  /\ ctxDone' = TRUE
  /\ UNCHANGED <<clients, mu, alive, silent, once, hasCallback, pc, target,
                 todo, picked>>

StopLock == ctxDone /\ Lock(Stopper, "idle")

StopVisit(c) == Visit(Stopper, c, TRUE)

StopNext ==
  /\ GoTo(Stopper, "closed", "scanning")
  /\ UNCHANGED <<clients, mu, alive, silent, once, hasCallback, target, todo,
                 ctxDone, picked>>

StopUnlock ==
  /\ todo[Stopper] = {}
  /\ GoTo(Stopper, "scanning", "finished")
  /\ clients' = {}
  /\ mu' = Free
  /\ UNCHANGED <<alive, silent, once, hasCallback, target, todo, ctxDone, picked>>

(* Shutdown, then wg.Wait for the cleaner; main returns.                   *)
StopExit ==
  /\ pc[Cleaner] = "exited"
  /\ PumpStep(Stopper, "finished", "exited")

-----------------------------------------------------------------------------

Accepting(c) == SetOnClose(c) \/ Run(c)

PumpEnds(p, c) == Close(p, c) \/ Exit(p)

Connection(c) ==
  \/ Accepting(c) \/ EndHandle(c) \/ ReaderStops(c) \/ WriterStops(c)
  \/ \E p \in {Reader(c), Writer(c)} : PumpEnds(p, c)

CleanerStep ==
  \/ CleanerDelete \/ CleanerUnlock \/ CleanerExit
  \/ \E c \in Conns : CleanerVisit(c)
  \/ target[Cleaner] # NoConn /\ Close(Cleaner, target[Cleaner])

StopStep ==
  \/ StopLock \/ StopNext \/ StopUnlock \/ StopExit
  \/ \E c \in Conns : StopVisit(c)
  \/ target[Stopper] # NoConn /\ Close(Stopper, target[Stopper])

Peer(c) == Register(c) \/ Handle(c) \/ ReadFails(c) \/ WriteFails(c) \/ FallSilent(c)

Traffic == LetGo \/ \E c \in Conns : Connection(c) \/ Peer(c) \/ Pick(c)

RegistryNext == Traffic \/ CleanerTick \/ CleanerStep \/ StopCancel \/ StopStep

RegistrySpec == RegistryInit /\ [][RegistryNext]_registryVars

(* Every goroutine that can step does; clientsMu is granted to a waiter    *)
(* that keeps asking (Go's RWMutex does not starve writers), and the       *)
(* messages buffered on a closed socket run out.                           *)
FairConnection ==
  \A c \in Conns :
    /\ WF_registryVars(Accepting(c))
    /\ WF_registryVars(EndHandle(c))
    /\ SF_registryVars(ReaderStops(c))
    /\ WF_registryVars(WriterStops(c))
    /\ SF_registryVars(PumpEnds(Reader(c), c))
    /\ SF_registryVars(PumpEnds(Writer(c), c))

FairRegistrySpec ==
  /\ RegistrySpec /\ FairConnection
  /\ SF_registryVars(CleanerStep) /\ SF_registryVars(StopStep)

-----------------------------------------------------------------------------
(* Properties                                                              *)

(* clientsMu is held by a sweeper in its loop and by no one else, so at    *)
(* most one of cleaner and Stop walks the map at a time, and the entries   *)
(* it still has to visit are in the map: no pump changes it meanwhile.     *)
SweepExclusive ==
  \A p \in Sweepers :
    pc[p] \in {"scanning", "close", "callback", "closed"} =>
      mu = p /\ todo[p] \subseteq clients

(* close(SendChan) and onClose run at most once although two pumps and two *)
(* sweepers call Close: only one process is inside the body, and none      *)
(* while the connection is fresh or done.                                  *)
CloseOnce ==
  \A c \in Conns :
    LET inside == {p \in {Reader(c), Writer(c)} : pc[p] = "callback"}
                    \cup {p \in Sweepers : pc[p] = "callback" /\ target[p] = c}
    IN Cardinality(inside) = IF once[c] = "running" THEN 1 ELSE 0

(* GetActiveClient never hands out a connection whose SendChan is already  *)
(* closed, although Run may set isAlive after a sweeper's Close: the       *)
(* sweeper has then removed the entry, or still holds clientsMu.           *)
PicksOpen ==
  [][picked' # picked /\ picked' # NoConn => ~Closed(picked')]_registryVars

(* A connection whose Close has returned is forgotten: whoever finds       *)
(* clientsMu free does not find it in the map, even if a sweeper closed it *)
(* before its callback was set.                                            *)
ClosedIsForgotten ==
  mu = Free => \A c \in clients : once[c] # "done"

(* server.go:200 and 390: Stop stops the server, cleanupDeadClients cleans *)
(* up: a sweep ends and releases clientsMu.                                *)
SweepEnds == \A p \in Sweepers : mu = p ~> mu # p

=============================================================================
