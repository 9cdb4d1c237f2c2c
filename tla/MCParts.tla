------------------------------- MODULE MCParts -------------------------------
(***************************************************************************)
(* Five parts that do not interact, checked in one run: the registry of    *)
(* connections, the life of a message object, the age of messages, the     *)
(* reader of streams, and the start of a process.  Each behaviour          *)
(* exercises the one that its initial state has chosen; the others stay in *)
(* their initial states.                                                   *)
(***************************************************************************)
EXTENDS ConnRegistry, Freshness, Sequences

CONSTANTS
  Requests, Objects, NoObject, SendCap, RespCap,   \* of MessagePool
  BufferSize, MaxPayloadSize, MaxBody,             \* of SSEReader
  MaxSet                                           \* of Startup

(* NoObject is for nil, neither a message nor a call, and lengths are      *)
(* lengths.                                                                *)
ASSUME PartsAssumption ==
  /\ NoObject \notin Requests \cup Objects
  /\ BufferSize \in Nat /\ MaxPayloadSize \in Nat /\ MaxBody \in Nat

VARIABLES
  part,
  content, pool, poolPc, own, sendChan, writer, writerPc, answers, reader, clone,
  respChan, seen,
  body, event, pieces, lost, state,
  stage, mode, found, path, file, cfg

Pool == INSTANCE MessagePool WITH pc <- poolPc
SSE == INSTANCE SSEReader
Start == INSTANCE Startup

poolVars == <<content, pool, poolPc, own, sendChan, writer, writerPc, answers,
              reader, clone, respChan, seen>>
sseVars == <<body, event, pieces, lost, state>>
startVars == <<stage, mode, found, path, file, cfg>>

partsVars == <<part, registryVars, vars, poolVars, sseVars, startVars>>

PartsInit ==
  /\ part \in {"registry", "pool", "clock", "sse", "startup"}
  /\ RegistryInit /\ Init /\ Pool!Init /\ SSE!Init /\ Start!Init

(* Thirty seconds are two units, and a clock may be ahead or behind by all *)
(* that is tolerated, and by one unit more.                                *)
MCSkews == {-Tolerance - 1, -Tolerance, 0, Tolerance, Tolerance + 1}

(* The part that has been chosen takes a step.                             *)
PartsNext ==
  \/ /\ part = "registry" /\ RegistryNext
     /\ UNCHANGED <<part, vars, poolVars, sseVars, startVars>>
  \/ /\ part = "pool" /\ Pool!Next
     /\ UNCHANGED <<part, registryVars, vars, sseVars, startVars>>
  \/ /\ part = "clock" /\ Next
     /\ UNCHANGED <<part, registryVars, poolVars, sseVars, startVars>>
  \/ /\ part = "sse" /\ SSE!Next
     /\ UNCHANGED <<part, registryVars, vars, poolVars, startVars>>
  \/ /\ part = "startup" /\ Start!Next
     /\ UNCHANGED <<part, registryVars, vars, poolVars, sseVars>>

PartsSpec == PartsInit /\ [][PartsNext]_partsVars

-----------------------------------------------------------------------------
(* Properties of the instances, under names of their own                   *)

(* The variables of the other parts keep their types (message.go:13-40,    *)
(* proxy.go:175-185, config.go:12-46).                                     *)
PartsTypeOK == TypeOK /\ Pool!TypeOK /\ SSE!TypeOK /\ Start!TypeOK

(* A message object has one owner or is in the pool (message.go:93-111,    *)
(* server.go:471-475, 498, 519).                                           *)
SoleOwner == Pool!SoleOwner

(* Nobody reads another call's message from a reused object (message.go:   *)
(* 93-111, 254-265).                                                       *)
NoMixUp == Pool!NoMixUp

(* The pieces put together are the body but for the bytes that readEvent   *)
(* is known to lose (proxy.go:219-232).                                    *)
Accounted == SSE!Accounted

(* Pieces end where events end, and no event is held back (proxy.go:       *)
(* 234-246).                                                               *)
PiecesEndEvents == SSE!PiecesEndEvents

(* The last of default, file, environment and flag wins in a process that  *)
(* needs no file or has read it (config.go:92-163, main.go:78-93, 163-178).*)
Precedence == Start!Precedence

(* Only what the models of the processes assume gets to run (config.go:    *)
(* 177-222).                                                               *)
RunsAsAssumed == Start!RunsAsAssumed

=============================================================================
