----------------------------- MODULE MessagePool -----------------------------
(***************************************************************************)
(* The pool of WebSocketMessage objects in the server process.  A request  *)
(* is written into an object by its handler, which gives it away through   *)
(* SendChan to writePump; writePump serialises and releases it.  readPump  *)
(* deserialises an answer into another object, forwards a clone of it to   *)
(* the handler and releases the original; the handler releases the clone.  *)
(* A released object is soon somebody else's, so whoever still held it     *)
(* would read the wrong message.                                           *)
(*                                                                         *)
(* One connection.  An object that is dropped without a release falls to   *)
(* the garbage collector, and New makes another in its place.              *)
(***************************************************************************)
EXTENDS Naturals, Sequences, FiniteSets

CONSTANTS
  Requests, Objects, NoObject,
  SendCap, RespCap

VARIABLES
  content,   \* of each object: the call, the kind of message, and its Payload
  pool,      \* objects messagePool.Get may return
  pc, own,   \* of each handler, and the object it holds
  sendChan, writer, writerPc,
  answers,   \* calls the client has an answer to
  reader, clone, respChan,
  seen       \* what was written to the network and handed to handlers

vars == <<content, pool, pc, own, sendChan, writer, writerPc, answers, reader,
          clone, respChan, seen>>

Contents ==
  [id : Requests \cup {NoObject}, kind : {"none", "request", "response"}, payload : BOOLEAN]

Message(r, k) == [id |-> r, kind |-> k, payload |-> TRUE]

TypeOK ==
  /\ content \in [Objects -> Contents]
  /\ pool \subseteq Objects
  /\ pc \in [Requests -> {"new", "sending", "waiting", "reading", "done"}]
  /\ own \in [Requests -> Objects \cup {NoObject}]
  /\ sendChan \in Seq(Objects)
  /\ writer \in Objects \cup {NoObject}
  /\ writerPc \in {"idle", "taken", "written"}
  /\ answers \subseteq Requests
  /\ reader \in Objects \cup {NoObject} /\ clone \in Objects \cup {NoObject}
  /\ respChan \in [Requests -> Seq(Objects)]
  /\ \A s \in seen : s.by \in Requests \cup {NoObject}

Init ==
  /\ content = [o \in Objects |-> [id |-> NoObject, kind |-> "none", payload |-> FALSE]]
  /\ pool = Objects
  /\ pc = [r \in Requests |-> "new"]
  /\ own = [r \in Requests |-> NoObject]
  /\ sendChan = <<>> /\ writer = NoObject /\ writerPc = "idle"
  /\ answers = {}
  /\ reader = NoObject /\ clone = NoObject
  /\ respChan = [r \in Requests |-> <<>>]
  /\ seen = {}

(* Get, then every field is set.                                           *)
Acquire(o, what) ==
  /\ o \in pool
  /\ pool' = pool \ {o}
  /\ content' = [content EXCEPT ![o] = what]

(* The Payload is set to nil, the other fields stay as they are.           *)
Release(o) ==
  /\ pool' = pool \cup {o}
  /\ content' = [content EXCEPT ![o].payload = FALSE]

(* The handler r goes on, holding o.                                       *)
Step(r, from, to, o) ==
  /\ pc[r] = from
  /\ pc' = [pc EXCEPT ![r] = to]
  /\ own' = [own EXCEPT ![r] = o]

-----------------------------------------------------------------------------
(* Handlers                                                                *)

NewMessage(r) ==
  \E o \in Objects :
    /\ Step(r, "new", "sending", o)
    /\ Acquire(o, Message(r, "request"))
    /\ UNCHANGED <<sendChan, writer, writerPc, answers, reader, clone, respChan, seen>>

SendMessage(r) ==
  /\ Len(sendChan) < SendCap
  /\ Step(r, "sending", "waiting", NoObject)
  /\ sendChan' = Append(sendChan, own[r])
  /\ UNCHANGED <<content, pool, writer, writerPc, answers, reader, clone, respChan, seen>>

(* Five seconds without room, or a closed SendChan: in a panic the object  *)
(* is left to the collector.                                               *)
SendFails(r) ==
  /\ Step(r, "sending", "done", NoObject)
  /\ Release(own[r])
  /\ UNCHANGED <<sendChan, writer, writerPc, answers, reader, clone, respChan, seen>>

TakeResponse(r) ==
  /\ respChan[r] # <<>>
  /\ Step(r, "waiting", "reading", Head(respChan[r]))
  /\ respChan' = [respChan EXCEPT ![r] = Tail(@)]
  /\ UNCHANGED <<content, pool, sendChan, writer, writerPc, answers, reader, clone, seen>>

(* Decrypt and write the payload, then release: a stream goes on waiting.  *)
UseResponse(r) ==
  /\ \E to \in {"waiting", "done"} : Step(r, "reading", to, NoObject)
  /\ seen' = seen \cup {[by |-> r, what |-> content[own[r]]]}
  /\ Release(own[r])
  /\ UNCHANGED <<sendChan, writer, writerPc, answers, reader, clone, respChan>>

GiveUp(r) ==
  /\ Step(r, "waiting", "done", NoObject)
  /\ UNCHANGED <<content, pool, sendChan, writer, writerPc, answers, reader, clone,
                 respChan, seen>>

(* The ResponseChan of a call that is over is collected with its entry.    *)
Collect(r) ==
  /\ pc[r] = "done" /\ respChan[r] # <<>>
  /\ Release(Head(respChan[r]))
  /\ respChan' = [respChan EXCEPT ![r] = Tail(@)]
  /\ UNCHANGED <<pc, own, sendChan, writer, writerPc, answers, reader, clone, seen>>

-----------------------------------------------------------------------------
(* writePump                                                               *)

(* Mutant: the object is released as soon as it has been taken.            *)
WriterReleasesFirst ==
  /\ writerPc = "idle" /\ sendChan # <<>>
  /\ writer' = Head(sendChan) /\ writerPc' = "taken"
  /\ sendChan' = Tail(sendChan)
  /\ Release(Head(sendChan))
  /\ UNCHANGED <<pc, own, answers, reader, clone, respChan, seen>>

WriterTakes ==
  /\ writerPc = "idle" /\ sendChan # <<>>
  /\ writer' = Head(sendChan) /\ writerPc' = "taken"
  /\ sendChan' = Tail(sendChan)
  /\ UNCHANGED <<content, pool, pc, own, answers, reader, clone, respChan, seen>>

(* Serialize and WriteMessage: the client answers, or never gets it.       *)
WriterWrites ==
  /\ writerPc = "taken" /\ writerPc' = "written"
  /\ seen' = seen \cup {[by |-> NoObject, what |-> content[writer]]}
  /\ \/ answers' = answers \cup {content[writer].id}
     \/ UNCHANGED answers
  /\ UNCHANGED <<content, pool, pc, own, sendChan, writer, reader, clone, respChan>>

WriterReleases ==
  /\ writerPc = "written" /\ writerPc' = "idle"
  /\ Release(writer)
  /\ writer' = NoObject
  /\ UNCHANGED <<pc, own, sendChan, answers, reader, clone, respChan, seen>>

-----------------------------------------------------------------------------
(* readPump: handleMessage                                                 *)

Deserialize ==
  /\ reader = NoObject
  /\ \E o \in Objects, r \in answers :
       /\ reader' = o
       /\ Acquire(o, Message(r, "response"))
  /\ UNCHANGED <<pc, own, sendChan, writer, writerPc, answers, clone, respChan, seen>>

(* Invalid, or its request is gone.                                        *)
Discard ==
  /\ reader # NoObject /\ clone = NoObject
  /\ Release(reader)
  /\ reader' = NoObject
  /\ UNCHANGED <<pc, own, sendChan, writer, writerPc, answers, clone, respChan, seen>>

(* Mutant: the message itself is forwarded.                                *)
NoClone ==
  /\ reader # NoObject /\ clone = NoObject /\ pc[content[reader].id] # "done"
  /\ clone' = reader
  /\ UNCHANGED <<content, pool, pc, own, sendChan, writer, writerPc, answers, reader,
                 respChan, seen>>

(* msg.Clone(), evaluated before the select waits.                         *)
Clone ==
  /\ reader # NoObject /\ clone = NoObject /\ pc[content[reader].id] # "done"
  /\ \E o \in Objects : clone' = o /\ Acquire(o, content[reader])
  /\ UNCHANGED <<pc, own, sendChan, writer, writerPc, answers, reader, respChan, seen>>

(* The select, and the deferred release of the original.  After five       *)
(* seconds without room the clone is left to the collector.                *)
Forward ==
  /\ clone # NoObject
  /\ LET r == content[reader].id IN
       \/ /\ Len(respChan[r]) < RespCap
          /\ respChan' = [respChan EXCEPT ![r] = Append(@, clone)]
          /\ Release(reader)
       \/ /\ Len(respChan[r]) >= RespCap
          /\ UNCHANGED respChan
          /\ pool' = pool \cup {reader, clone}
          /\ content' = [content EXCEPT ![reader].payload = FALSE,
                                        ![clone].payload = FALSE]
  /\ reader' = NoObject /\ clone' = NoObject
  /\ UNCHANGED <<pc, own, sendChan, writer, writerPc, answers, seen>>

Next ==
  \/ \E r \in Requests : \/ NewMessage(r) \/ SendMessage(r) \/ SendFails(r)
                         \/ TakeResponse(r) \/ UseResponse(r) \/ GiveUp(r) \/ Collect(r)
  \/ WriterTakes \/ WriterWrites \/ WriterReleases
  \/ Deserialize \/ Discard \/ Clone \/ Forward

Spec == Init /\ [][Next]_vars

-----------------------------------------------------------------------------
(* Properties                                                              *)

(* The pointers to object o.                                               *)
Pointers(o) ==
  {<<"handler", r>> : r \in {q \in Requests : own[q] = o}}
    \cup {<<"sendChan", i>> : i \in {j \in DOMAIN sendChan : sendChan[j] = o}}
    \cup (UNION {{<<"respChan", r, i>> : i \in {j \in DOMAIN respChan[r] : respChan[r][j] = o}}
                  : r \in Requests})
    \cup {p \in {<<"writer", writer>>, <<"reader", reader>>, <<"clone", clone>>} : p[2] = o}

(* Through all hand-overs, timeouts and abandoned calls an object is in    *)
(* the pool or has exactly one pointer to it: it is never released twice   *)
(* and never used after its release (server.go:471-475, 498, 519).         *)
SoleOwner ==
  \A o \in Objects : Cardinality(Pointers(o)) = IF o \in pool THEN 0 ELSE 1

(* writePump writes whole requests only, and a handler is handed answers   *)
(* to its own call only, with their Payload, whoever has used the objects  *)
(* before (message.go:93-111).                                             *)
NoMixUp ==
  \A s \in seen :
    s.what = IF s.by = NoObject THEN Message(s.what.id, "request")
                                ELSE Message(s.by, "response")

=============================================================================
