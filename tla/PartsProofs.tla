----------------------------- MODULE PartsProofs -----------------------------
(***************************************************************************)
(* Proofs about the parts that MCParts runs side by side, for any number of*)
(* calls, message objects and channel slots, any lengths of buffers, pieces*)
(* and bodies, and any number of settings found.                           *)
(*                                                                         *)
(* Message objects: every object is at one place (OnePlace), holds what it *)
(* is there for (InUse), and a step moves one object, Forward two.         *)
(* Start: what each stage has made of the sources (LoadedSoFar).           *)
(* Streams: FlattenSeq is a recursive function, so that what it computes   *)
(* is shown by induction first: NatInd states induction for a set, and     *)
(* follows from the well-foundedness of the naturals.                      *)
(***************************************************************************)
EXTENDS MCParts, FreshnessProofs, FiniteSetTheorems, SequenceTheorems, TLAPS

-----------------------------------------------------------------------------
(* Queues                                                                  *)

(* The head of a queue that holds nothing twice is not in the rest.        *)
LEMMA TakeFirst ==
  ASSUME NEW S, NEW s \in Seq(S), s # <<>>,
         \A i, j \in DOMAIN s : s[i] = s[j] => i = j
  PROVE  /\ Tail(s) \in Seq(S) /\ Head(s) \in S
         /\ \E i \in DOMAIN s : s[i] = Head(s)
         /\ \A x : (\E i \in DOMAIN Tail(s) : Tail(s)[i] = x)
                     <=> x # Head(s) /\ \E i \in DOMAIN s : s[i] = x
         /\ \A i, j \in DOMAIN Tail(s) : Tail(s)[i] = Tail(s)[j] => i = j
<1>1. Len(s) \in Nat /\ Len(s) >= 1 /\ DOMAIN s = 1 .. Len(s)
  OBVIOUS
<1>2. Tail(s) \in Seq(S) /\ Head(s) \in S /\ Head(s) = s[1]
  OBVIOUS
<1>3. DOMAIN Tail(s) = 1 .. (Len(s) - 1)
  <2>1. Len(Tail(s)) = Len(s) - 1
    OBVIOUS
  <2> QED
    BY <1>2, <2>1
<1>4. \A i \in DOMAIN Tail(s) : i + 1 \in DOMAIN s /\ i + 1 # 1 /\ Tail(s)[i] = s[i + 1]
  BY <1>1, <1>3
<1>5. \A j \in DOMAIN s : j # 1 => j - 1 \in DOMAIN Tail(s) /\ Tail(s)[j - 1] = s[j]
  BY <1>1, <1>3
<1>6. 1 \in DOMAIN s
  BY <1>1
<1>7. ASSUME NEW x
      PROVE  (\E i \in DOMAIN Tail(s) : Tail(s)[i] = x)
               <=> x # Head(s) /\ \E i \in DOMAIN s : s[i] = x
  <2>1. ASSUME NEW i \in DOMAIN Tail(s), Tail(s)[i] = x
        PROVE  x # Head(s) /\ \E j \in DOMAIN s : s[j] = x
    <3>1. i + 1 \in DOMAIN s /\ i + 1 # 1 /\ s[i + 1] = x
      BY <1>4, <2>1
    <3> QED
      BY <1>2, <1>6, <3>1
  <2>2. ASSUME x # Head(s), NEW j \in DOMAIN s, s[j] = x
        PROVE  \E i \in DOMAIN Tail(s) : Tail(s)[i] = x
    BY <1>2, <1>5, <2>2
  <2> QED
    BY <2>1, <2>2
<1>8. ASSUME NEW i \in DOMAIN Tail(s), NEW j \in DOMAIN Tail(s), Tail(s)[i] = Tail(s)[j]
      PROVE  i = j
  <2>1. i + 1 = j + 1
    BY <1>4, <1>8
  <2> QED
    BY <1>3, <2>1
<1> QED
  BY <1>2, <1>6, <1>7, <1>8

(* What joins a queue is in it then, once if it was not before.            *)
LEMMA PutLast ==
  ASSUME NEW S, NEW s \in Seq(S), NEW e \in S
  PROVE  /\ Append(s, e) \in Seq(S)
         /\ \A x : (\E i \in DOMAIN Append(s, e) : Append(s, e)[i] = x)
                     <=> x = e \/ \E i \in DOMAIN s : s[i] = x
         /\ /\ \A i, j \in DOMAIN s : s[i] = s[j] => i = j
            /\ \A i \in DOMAIN s : s[i] # e
            => \A i, j \in DOMAIN Append(s, e) : Append(s, e)[i] = Append(s, e)[j] => i = j
<1>1. Len(s) \in Nat /\ DOMAIN s = 1 .. Len(s) /\ Append(s, e) \in Seq(S)
  OBVIOUS
<1>2. DOMAIN Append(s, e) = 1 .. (Len(s) + 1)
  OBVIOUS
<1>3. /\ \A i \in DOMAIN s : i \in DOMAIN Append(s, e) /\ Append(s, e)[i] = s[i]
      /\ Len(s) + 1 \in DOMAIN Append(s, e) /\ Append(s, e)[Len(s) + 1] = e
  BY <1>1, <1>2
<1>4. \A i \in DOMAIN Append(s, e) : i \in DOMAIN s \/ i = Len(s) + 1
  BY <1>1, <1>2
<1>5. \A x : (\E i \in DOMAIN Append(s, e) : Append(s, e)[i] = x)
               <=> x = e \/ \E i \in DOMAIN s : s[i] = x
  BY <1>3, <1>4
<1> QED
  BY <1>1, <1>3, <1>4, <1>5

-----------------------------------------------------------------------------
(* The life of a message object: the inductive invariant                   *)

(* Where an object may be; a handler and a ResponseChan belong to a call.  *)
PoolPlaces == {"pool", "handler", "sendChan", "writer", "reader", "clone", "respChan"}

Nobody == NoObject
Callers == Requests \cup {Nobody}

(* Object o is at the place k, of call r if the place is a call's.         *)
At(k, r, o) ==
  \/ k = "pool" /\ r = Nobody /\ o \in pool
  \/ k = "handler" /\ r \in Requests /\ own[r] = o
  \/ k = "sendChan" /\ r = Nobody /\ \E i \in DOMAIN sendChan : sendChan[i] = o
  \/ k = "writer" /\ r = Nobody /\ writer = o
  \/ k = "reader" /\ r = Nobody /\ reader = o
  \/ k = "clone" /\ r = Nobody /\ clone = o
  \/ k = "respChan" /\ r \in Requests /\ \E i \in DOMAIN respChan[r] : respChan[r][i] = o

(* Every object is at one place ...                                        *)
OnePlace ==
  \A o \in Objects : \E k \in PoolPlaces, r \in Callers :
    /\ At(k, r, o)
    /\ \A l \in PoolPlaces, q \in Callers : At(l, q, o) => l = k /\ q = r

(* ... and in a channel only once.                                         *)
OnceQueued ==
  /\ \A i, j \in DOMAIN sendChan : sendChan[i] = sendChan[j] => i = j
  /\ \A r \in Requests : \A i, j \in DOMAIN respChan[r] :
       respChan[r][i] = respChan[r][j] => i = j

(* Who holds an object knows it.                                           *)
Holders ==
  /\ \A r \in Requests : poolPc[r] \in {"sending", "reading"} <=> own[r] # NoObject
  /\ writerPc = "idle" <=> writer = NoObject
  /\ clone # NoObject => reader # NoObject

(* What an object at the place k of r has to hold: what it was acquired    *)
(* for.                                                                    *)
Fits(k, r, o) ==
  /\ k = "handler" /\ poolPc[r] = "sending" => content[o] = Pool!Message(r, "request")
  /\ k = "handler" /\ poolPc[r] = "reading" => content[o] = Pool!Message(r, "response")
  /\ k \in {"sendChan", "writer"} =>
       \E p \in Requests : content[o] = Pool!Message(p, "request")
  /\ k = "reader" => \E p \in Requests : content[o] = Pool!Message(p, "response")
  /\ k = "clone" => content[o] = content[reader]
  /\ k = "respChan" => content[o] = Pool!Message(r, "response")

InUse ==
  \A o \in Objects, k \in PoolPlaces, r \in Callers : At(k, r, o) => Fits(k, r, o)

PoolInv == Pool!TypeOK /\ OnePlace /\ OnceQueued /\ Holders /\ InUse /\ NoMixUp

-----------------------------------------------------------------------------
(* The life of a message object: how objects move                          *)

(* Object o is at the place k of r and nowhere else.                       *)
Sits(k, r, o) ==
  \A l \in PoolPlaces, q \in Callers : At(l, q, o) <=> l = k /\ q = r

LEMMA OnePlaceSits ==
  OnePlace <=> \A o \in Objects : \E k \in PoolPlaces, r \in Callers : Sits(k, r, o)
  BY DEF OnePlace, Sits

(* The step moves o to the place l of q, and no other object.              *)
Relocates(o, l, q) ==
  \A x \in Objects, k \in PoolPlaces, r \in Callers :
    At(k, r, x)' <=> IF x = o THEN k = l /\ r = q ELSE At(k, r, x)

(* Such a step leaves every object at one place.                           *)
LEMMA Moves ==
  ASSUME OnePlace, NEW o \in Objects, NEW l, l \in PoolPlaces, NEW q, q \in Callers,
         Relocates(o, l, q)
  PROVE  OnePlace'
<1>1. Sits(l, q, o)'
  BY DEF Sits, Relocates
<1>2. ASSUME NEW x \in Objects, x # o
      PROVE  \E k \in PoolPlaces, r \in Callers : Sits(k, r, x)'
  <2>1. PICK k \in PoolPlaces, r \in Callers : Sits(k, r, x)
    BY OnePlaceSits
  <2>2. Sits(k, r, x)'
    BY <1>2, <2>1 DEF Sits, Relocates
  <2> QED
    BY <2>2
<1>3. \A x \in Objects : \E k \in PoolPlaces, r \in Callers : Sits(k, r, x)'
  BY <1>1, <1>2
<1> QED
  BY <1>3 DEF OnePlace, Sits

(* ... and with what it is there for, if the object that moves is, and the *)
(* handlers that go on are the one it moves to or from.                    *)
LEMMA MovesInUse ==
  ASSUME InUse, NEW o \in Objects, NEW l, l \in PoolPlaces, NEW q, q \in Callers,
         Relocates(o, l, q), Fits(l, q, o)',
         \A x \in Objects : x # o => content'[x] = content[x],
         \A p \in Requests : poolPc'[p] = poolPc[p] \/ own'[p] = o \/ own'[p] \notin Objects,
         \/ clone' = o \/ clone' \notin Objects
         \/ reader' = reader /\ content'[reader] = content[reader]
  PROVE  InUse'
<1>1. SUFFICES ASSUME NEW x \in Objects, NEW k \in PoolPlaces, NEW r \in Callers,
                      At(k, r, x)', x # o
               PROVE  Fits(k, r, x)'
  BY DEF InUse, Relocates
<1>2. At(k, r, x) /\ Fits(k, r, x)
  BY <1>1 DEF InUse, Relocates
<1>3. content'[x] = content[x]
  BY <1>1
<1>4. k = "handler" => r \in Requests /\ poolPc'[r] = poolPc[r]
  BY <1>1 DEF At
<1>5. k = "clone" => content'[x] = content'[reader']
  <2> HAVE k = "clone"
  <2>1. clone' = x
    BY <1>1 DEF At
  <2>2. content[x] = content[reader]
    BY <1>2 DEF Fits
  <2> QED
    BY <1>1, <1>3, <2>1, <2>2
<1> QED
  BY <1>2, <1>3, <1>4, <1>5 DEF Fits

(* Two objects at different places are different.                          *)
LEMMA Apart ==
  ASSUME OnePlace, NEW o \in Objects, NEW k \in PoolPlaces, NEW r \in Callers, At(k, r, o),
         NEW l \in PoolPlaces, NEW q \in Callers, At(l, q, o)
  PROVE  k = l /\ r = q
  BY DEF OnePlace
-----------------------------------------------------------------------------
(* The life of a message object: the steps of a handler                    *)

(* What an acquisition does to the objects.                                *)
LEMMA AcquireAt ==
  ASSUME Pool!TypeOK, OnePlace, NEW o \in Objects, NEW what \in Pool!Contents,
         Pool!Acquire(o, what)
  PROVE  /\ At("pool", Nobody, o)
         /\ \A x \in Objects : x \in pool' <=> x # o /\ x \in pool
         /\ content' \in [Objects -> Pool!Contents] /\ pool' \subseteq Objects
         /\ content'[o] = what
         /\ \A x \in Objects : x # o => content'[x] = content[x]
  BY DEF Pool!Acquire, Pool!TypeOK, At

(* What a release does to them.                                            *)
LEMMA ReleaseAt ==
  ASSUME Pool!TypeOK, NEW o \in Objects, Pool!Release(o)
  PROVE  /\ \A x \in Objects : x \in pool' <=> x = o \/ x \in pool
         /\ content' \in [Objects -> Pool!Contents] /\ pool' \subseteq Objects
         /\ \A x \in Objects : x # o => content'[x] = content[x]
<1>1. content[o] \in Pool!Contents
  BY DEF Pool!TypeOK
<1>2. [content[o] EXCEPT !.payload = FALSE] \in Pool!Contents
  BY <1>1 DEF Pool!Contents
<1> QED
  BY <1>2 DEF Pool!Release, Pool!TypeOK

(* What a handler writes is a message.                                     *)
LEMMA Messages ==
  ASSUME NEW r \in Requests, NEW k \in {"request", "response"}
  PROVE  Pool!Message(r, k) \in Pool!Contents /\ Pool!Message(r, k).id = r
  BY DEF Pool!Message, Pool!Contents

(* A handler step of r leaves the other handlers alone.                    *)
LEMMA Steps ==
  ASSUME Pool!TypeOK, NEW r \in Requests, NEW from, NEW to, NEW o,
         Pool!Step(r, from, to, o),
         to \in {"new", "sending", "waiting", "reading", "done"},
         o \in Objects \cup {NoObject}
  PROVE  /\ poolPc' \in [Requests -> {"new", "sending", "waiting", "reading", "done"}]
         /\ own' \in [Requests -> Objects \cup {NoObject}]
         /\ poolPc[r] = from /\ poolPc'[r] = to /\ own'[r] = o
         /\ \A p \in Requests : p # r => poolPc'[p] = poolPc[p] /\ own'[p] = own[p]
  BY DEF Pool!Step, Pool!TypeOK

(* What happens to another object does not change the one being cloned.    *)
LEMMA OriginalStays ==
  ASSUME Pool!TypeOK, OnePlace, Holders, NEW o \in Objects,
         NEW k \in PoolPlaces, NEW q \in Callers, At(k, q, o), k # "reader",
         UNCHANGED <<reader, clone>>,
         \A x \in Objects : x # o => content'[x] = content[x]
  PROVE  clone' \notin Objects \/ (reader' = reader /\ content'[reader] = content[reader])
<1>1. SUFFICES ASSUME clone \in Objects
               PROVE  content'[reader] = content[reader]
  OBVIOUS
<1>2. reader \in Objects
  BY <1>1, PartsAssumption DEF Holders, Pool!TypeOK
<1>3. At("reader", Nobody, reader) /\ "reader" \in PoolPlaces /\ Nobody \in Callers
  BY DEF At, PoolPlaces, Callers
<1>4. reader # o
  BY <1>2, <1>3, Apart
<1> QED
  BY <1>2, <1>4

LEMMA KeepsNewMessage ==
  ASSUME PoolInv, NEW r \in Requests, Pool!NewMessage(r)
  PROVE  PoolInv'
<1> USE PartsAssumption DEF PoolPlaces, Callers, Nobody
<1>0. OnePlace /\ Pool!TypeOK /\ Holders /\ OnceQueued /\ InUse /\ NoMixUp
  BY DEF PoolInv
<1>1. PICK o \in Objects : /\ Pool!Step(r, "new", "sending", o)
                           /\ Pool!Acquire(o, Pool!Message(r, "request"))
  BY DEF Pool!NewMessage
<1>2. UNCHANGED <<sendChan, writer, writerPc, answers, reader, clone, respChan, seen>>
  BY DEF Pool!NewMessage
<1>3. /\ poolPc' \in [Requests -> {"new", "sending", "waiting", "reading", "done"}]
      /\ own' \in [Requests -> Objects \cup {NoObject}]
      /\ poolPc[r] = "new" /\ poolPc'[r] = "sending" /\ own'[r] = o
      /\ \A p \in Requests : p # r => poolPc'[p] = poolPc[p] /\ own'[p] = own[p]
  BY <1>0, <1>1, Steps
<1>4. /\ At("pool", Nobody, o)
      /\ \A x \in Objects : x \in pool' <=> x # o /\ x \in pool
      /\ content' \in [Objects -> Pool!Contents] /\ pool' \subseteq Objects
      /\ content'[o] = Pool!Message(r, "request")
      /\ \A x \in Objects : x # o => content'[x] = content[x]
  BY <1>0, <1>1, AcquireAt, Messages
<1>5. own[r] = NoObject
  BY <1>0, <1>3 DEF Holders
<1>6. Relocates(o, "handler", r)
  <2>1. ASSUME NEW x \in Objects, NEW k \in PoolPlaces, NEW q \in Callers
        PROVE  At(k, q, x)' <=> IF x = o THEN k = "handler" /\ q = r ELSE At(k, q, x)
    <3>1. x = o => (At(k, q, x) <=> k = "pool" /\ q = Nobody)
      BY <1>0, <1>4, Apart
    <3> QED
      BY <1>2, <1>3, <1>4, <1>5, <3>1 DEF At
  <2> QED
    BY <2>1 DEF Relocates
<1>7. OnePlace'
  <2>1. "handler" \in PoolPlaces /\ r \in Callers
    OBVIOUS
  <2> QED
    BY <1>0, <1>6, <2>1, Moves, SMT
<1>8. InUse'
  <2>1. Fits("handler", r, o)'
    BY <1>3, <1>4 DEF Fits
  <2>2. \A p \in Requests : poolPc'[p] = poolPc[p] \/ own'[p] = o
    BY <1>3
  <2>3. clone' \notin Objects \/ (reader' = reader /\ content'[reader] = content[reader])
    BY <1>0, <1>2, <1>4, OriginalStays
  <2>4. "handler" \in PoolPlaces /\ r \in Callers
    OBVIOUS
  <2> QED
    BY <1>0, <1>4, <1>6, <2>1, <2>2, <2>3, <2>4, MovesInUse, SMT
<1>9. Pool!TypeOK' /\ OnceQueued' /\ NoMixUp'
  BY <1>0, <1>2, <1>3, <1>4 DEF Pool!TypeOK, OnceQueued, NoMixUp, Pool!NoMixUp
<1>10. Holders'
  BY <1>0, <1>2, <1>3 DEF Holders
<1> QED
  BY <1>7, <1>8, <1>9, <1>10 DEF PoolInv

LEMMA KeepsSendMessage ==
  ASSUME PoolInv, NEW r \in Requests, Pool!SendMessage(r)
  PROVE  PoolInv'
<1> USE PartsAssumption DEF PoolPlaces, Callers, Nobody
<1>0. OnePlace /\ Pool!TypeOK /\ Holders /\ OnceQueued /\ InUse /\ NoMixUp
  BY DEF PoolInv
<1>1. Pool!Step(r, "sending", "waiting", NoObject) /\ sendChan' = Append(sendChan, own[r])
  BY DEF Pool!SendMessage
<1>2. UNCHANGED <<content, pool, writer, writerPc, answers, reader, clone, respChan, seen>>
  BY DEF Pool!SendMessage
<1>3. /\ poolPc' \in [Requests -> {"new", "sending", "waiting", "reading", "done"}]
      /\ own' \in [Requests -> Objects \cup {NoObject}]
      /\ poolPc[r] = "sending" /\ poolPc'[r] = "waiting" /\ own'[r] = NoObject
      /\ \A p \in Requests : p # r => poolPc'[p] = poolPc[p] /\ own'[p] = own[p]
  BY <1>0, <1>1, Steps
<1>4. PICK o \in Objects : o = own[r] /\ At("handler", r, o)
  BY <1>0, <1>3 DEF Holders, Pool!TypeOK, At
<1>5. /\ sendChan' \in Seq(Objects)
      /\ \A x : (\E i \in DOMAIN sendChan' : sendChan'[i] = x)
                  <=> x = o \/ \E i \in DOMAIN sendChan : sendChan[i] = x
      /\ \A i, j \in DOMAIN sendChan' : sendChan'[i] = sendChan'[j] => i = j
  <2>1. sendChan \in Seq(Objects)
    BY <1>0 DEF Pool!TypeOK
  <2>2. \A i \in DOMAIN sendChan : sendChan[i] # o
    <3>1. ~At("sendChan", Nobody, o)
      BY <1>0, <1>4, Apart
    <3> QED
      BY <3>1 DEF At
  <2>3. \A i, j \in DOMAIN sendChan : sendChan[i] = sendChan[j] => i = j
    BY <1>0 DEF OnceQueued
  <2> QED
    BY <1>1, <1>4, <2>1, <2>2, <2>3, PutLast
<1>6. Relocates(o, "sendChan", Nobody)
  <2>1. ASSUME NEW x \in Objects, NEW k \in PoolPlaces, NEW q \in Callers
        PROVE  At(k, q, x)' <=> IF x = o THEN k = "sendChan" /\ q = Nobody ELSE At(k, q, x)
    <3>1. x = o => (At(k, q, x) <=> k = "handler" /\ q = r)
      BY <1>0, <1>4, Apart
    <3>2. At("sendChan", Nobody, x)' <=> x = o \/ At("sendChan", Nobody, x)
      BY <1>5 DEF At
    <3>3. k # "sendChan" /\ k # "handler" => (At(k, q, x)' <=> At(k, q, x))
      BY <1>2 DEF At
    <3>4. k = "handler" => (At(k, q, x)' <=> q # r /\ At(k, q, x))
      BY <1>3, <1>4 DEF At
    <3>5. k = "sendChan" /\ q # Nobody => ~At(k, q, x) /\ ~At(k, q, x)'
      BY DEF At
    <3>6. "sendChan" \in PoolPlaces /\ Nobody \in Callers
      OBVIOUS
    <3>7. k = "handler" /\ At(k, q, x) /\ q = r => x = o
      BY <1>4 DEF At
    <3> QED
      BY <3>1, <3>2, <3>3, <3>4, <3>5, <3>6, <3>7
  <2> QED
    BY <2>1 DEF Relocates
<1>7. OnePlace'
  <2>1. "sendChan" \in PoolPlaces /\ Nobody \in Callers
    OBVIOUS
  <2> QED
    BY <1>0, <1>4, <1>6, <2>1, Moves, SMT
<1>8. InUse'
  <2>1. Fits("sendChan", Nobody, o)'
    <3>1. Fits("handler", r, o)
      BY <1>0, <1>4 DEF InUse
    <3>2. content'[o] = Pool!Message(r, "request")
      BY <1>2, <1>3, <3>1 DEF Fits
    <3> QED
      BY <3>2 DEF Fits
  <2>2. \A p \in Requests : poolPc'[p] = poolPc[p] \/ own'[p] = o \/ own'[p] \notin Objects
    BY <1>3
  <2>3. /\ \A x \in Objects : x # o => content'[x] = content[x]
        /\ \/ clone' = o \/ clone' \notin Objects
           \/ reader' = reader /\ content'[reader] = content[reader]
    BY <1>2
  <2>4. "sendChan" \in PoolPlaces /\ Nobody \in Callers
    OBVIOUS
  <2> QED
    BY <1>0, <1>4, <1>6, <2>1, <2>2, <2>3, <2>4, MovesInUse, SMT
<1>9. Pool!TypeOK' /\ OnceQueued' /\ NoMixUp'
  BY <1>0, <1>2, <1>3, <1>5 DEF Pool!TypeOK, OnceQueued, NoMixUp, Pool!NoMixUp
<1>10. Holders'
  BY <1>0, <1>2, <1>3 DEF Holders
<1> QED
  BY <1>7, <1>8, <1>9, <1>10 DEF PoolInv

(* A handler that gives its object back, having used it or not.            *)
LEMMA KeepsHandBack ==
  ASSUME PoolInv, NEW r \in Requests, Pool!SendFails(r) \/ Pool!UseResponse(r)
  PROVE  PoolInv'
<1> USE PartsAssumption DEF PoolPlaces, Callers, Nobody
<1>0. OnePlace /\ Pool!TypeOK /\ Holders /\ OnceQueued /\ InUse /\ NoMixUp
  BY DEF PoolInv
<1>1. PICK from \in {"sending", "reading"}, to \in {"waiting", "done"} :
        Pool!Step(r, from, to, NoObject)
  BY DEF Pool!SendFails, Pool!UseResponse
<1>2. UNCHANGED <<sendChan, writer, writerPc, answers, reader, clone, respChan>>
  BY DEF Pool!SendFails, Pool!UseResponse
<1>3. /\ poolPc' \in [Requests -> {"new", "sending", "waiting", "reading", "done"}]
      /\ own' \in [Requests -> Objects \cup {NoObject}]
      /\ poolPc[r] = from /\ poolPc'[r] = to /\ own'[r] = NoObject
      /\ \A p \in Requests : p # r => poolPc'[p] = poolPc[p] /\ own'[p] = own[p]
  BY <1>0, <1>1, Steps
<1>4. PICK o \in Objects : o = own[r] /\ At("handler", r, o)
  BY <1>0, <1>3 DEF Holders, Pool!TypeOK, At
<1>5. Pool!Release(o)
  BY <1>4 DEF Pool!SendFails, Pool!UseResponse
<1>6. /\ \A x \in Objects : x \in pool' <=> x = o \/ x \in pool
      /\ content' \in [Objects -> Pool!Contents] /\ pool' \subseteq Objects
      /\ \A x \in Objects : x # o => content'[x] = content[x]
  BY <1>0, <1>4, <1>5, ReleaseAt
<1>7. \A s \in seen' : s \in seen \/ s = [by |-> r, what |-> Pool!Message(r, "response")]
  <2>1. CASE Pool!SendFails(r)
    BY <2>1 DEF Pool!SendFails
  <2>2. CASE Pool!UseResponse(r)
    <3>1. poolPc[r] = "reading" /\ seen' = seen \cup {[by |-> r, what |-> content[o]]}
      BY <1>4, <2>2 DEF Pool!UseResponse, Pool!Step
    <3>2. Fits("handler", r, o)
      BY <1>0, <1>4 DEF InUse
    <3> QED
      BY <3>1, <3>2 DEF Fits
  <2> QED
    BY <2>1, <2>2
<1>8. Relocates(o, "pool", Nobody)
  <2>1. ASSUME NEW x \in Objects, NEW k \in PoolPlaces, NEW q \in Callers
        PROVE  At(k, q, x)' <=> IF x = o THEN k = "pool" /\ q = Nobody ELSE At(k, q, x)
    <3>1. x = o => (At(k, q, x) <=> k = "handler" /\ q = r)
      BY <1>0, <1>4, Apart
    <3> QED
      BY <1>2, <1>3, <1>4, <1>6, <3>1 DEF At
  <2> QED
    BY <2>1 DEF Relocates
<1>9. "pool" \in PoolPlaces /\ Nobody \in Callers /\ "handler" \in PoolPlaces /\ r \in Callers
  OBVIOUS
<1>10. OnePlace'
  BY <1>0, <1>4, <1>8, <1>9, Moves, SMT
<1>11. InUse'
  <2>1. Fits("pool", Nobody, o)'
    BY DEF Fits
  <2>2. \A p \in Requests : poolPc'[p] = poolPc[p] \/ own'[p] = o \/ own'[p] \notin Objects
    BY <1>3
  <2>3. clone' \notin Objects \/ (reader' = reader /\ content'[reader] = content[reader])
    BY <1>0, <1>2, <1>4, <1>6, <1>9, OriginalStays
  <2> QED
    BY <1>0, <1>4, <1>6, <1>8, <1>9, <2>1, <2>2, <2>3, MovesInUse, SMT
<1>12. Pool!TypeOK' /\ OnceQueued' /\ NoMixUp'
  <2>1. Pool!TypeOK' /\ OnceQueued'
    BY <1>0, <1>2, <1>3, <1>6, <1>7 DEF Pool!TypeOK, OnceQueued
  <2>2. NoMixUp'
    BY <1>0, <1>7 DEF NoMixUp, Pool!NoMixUp
  <2> QED
    BY <2>1, <2>2
<1>13. Holders'
  BY <1>0, <1>2, <1>3 DEF Holders
<1> QED
  BY <1>10, <1>11, <1>12, <1>13 DEF PoolInv

(* The first message of a ResponseChan leaves it.                          *)
LEMMA FirstResponse ==
  ASSUME Pool!TypeOK, OnceQueued, NEW r \in Requests, respChan[r] # <<>>,
         respChan' = [respChan EXCEPT ![r] = Tail(@)]
  PROVE  \E o \in Objects :
           /\ o = Head(respChan[r]) /\ At("respChan", r, o)
           /\ respChan' \in [Requests -> Seq(Objects)]
           /\ \A x, q : At("respChan", q, x)' <=> At("respChan", q, x) /\ ~(q = r /\ x = o)
           /\ \A p \in Requests : \A i, j \in DOMAIN respChan'[p] :
                respChan'[p][i] = respChan'[p][j] => i = j
<1>1. /\ respChan \in [Requests -> Seq(Objects)] /\ respChan[r] \in Seq(Objects)
      /\ \A i, j \in DOMAIN respChan[r] : respChan[r][i] = respChan[r][j] => i = j
  BY DEF Pool!TypeOK, OnceQueued
<1>2. PICK o : o = Head(respChan[r])
  OBVIOUS
<1>3. /\ Tail(respChan[r]) \in Seq(Objects) /\ o \in Objects
      /\ \E i \in DOMAIN respChan[r] : respChan[r][i] = o
      /\ \A x : (\E i \in DOMAIN Tail(respChan[r]) : Tail(respChan[r])[i] = x)
                  <=> x # o /\ \E i \in DOMAIN respChan[r] : respChan[r][i] = x
      /\ \A i, j \in DOMAIN Tail(respChan[r]) :
           Tail(respChan[r])[i] = Tail(respChan[r])[j] => i = j
  BY <1>1, <1>2, TakeFirst
<1>4. /\ respChan' \in [Requests -> Seq(Objects)]
      /\ respChan'[r] = Tail(respChan[r])
      /\ \A p \in Requests : p # r => respChan'[p] = respChan[p]
  BY <1>1, <1>3
<1>5. ASSUME NEW x, NEW q
      PROVE  At("respChan", q, x)' <=> At("respChan", q, x) /\ ~(q = r /\ x = o)
  <2>1. CASE q = r
    BY <1>3, <1>4, <2>1 DEF At
  <2>2. CASE q # r
    BY <1>4, <2>2 DEF At
  <2> QED
    BY <2>1, <2>2
<1>6. ASSUME NEW p \in Requests, NEW i \in DOMAIN respChan'[p], NEW j \in DOMAIN respChan'[p],
             respChan'[p][i] = respChan'[p][j]
      PROVE  i = j
  <2>1. CASE p = r
    BY <1>3, <1>4, <1>6, <2>1
  <2>2. CASE p # r
    BY <1>4, <1>6, <2>2 DEF OnceQueued
  <2> QED
    BY <2>1, <2>2
<1>7. At("respChan", r, o)
  BY <1>3 DEF At
<1> QED
  BY <1>2, <1>3, <1>4, <1>5, <1>6, <1>7

LEMMA KeepsTakeResponse ==
  ASSUME PoolInv, NEW r \in Requests, Pool!TakeResponse(r)
  PROVE  PoolInv'
<1> USE PartsAssumption DEF PoolPlaces, Callers, Nobody
<1>0. OnePlace /\ Pool!TypeOK /\ Holders /\ OnceQueued /\ InUse /\ NoMixUp
  BY DEF PoolInv
<1>1. /\ Pool!Step(r, "waiting", "reading", Head(respChan[r]))
      /\ respChan[r] # <<>> /\ respChan' = [respChan EXCEPT ![r] = Tail(@)]
  BY DEF Pool!TakeResponse
<1>2. UNCHANGED <<content, pool, sendChan, writer, writerPc, answers, reader, clone, seen>>
  BY DEF Pool!TakeResponse
<1>3. PICK o \in Objects :
        /\ o = Head(respChan[r]) /\ At("respChan", r, o)
        /\ respChan' \in [Requests -> Seq(Objects)]
        /\ \A x, q : At("respChan", q, x)' <=> At("respChan", q, x) /\ ~(q = r /\ x = o)
        /\ \A p \in Requests : \A i, j \in DOMAIN respChan'[p] :
             respChan'[p][i] = respChan'[p][j] => i = j
  BY <1>0, <1>1, FirstResponse
<1>4. /\ poolPc' \in [Requests -> {"new", "sending", "waiting", "reading", "done"}]
      /\ own' \in [Requests -> Objects \cup {NoObject}]
      /\ poolPc[r] = "waiting" /\ poolPc'[r] = "reading" /\ own'[r] = o
      /\ \A p \in Requests : p # r => poolPc'[p] = poolPc[p] /\ own'[p] = own[p]
  BY <1>0, <1>1, <1>3, Steps
<1>5. own[r] = NoObject
  BY <1>0, <1>4 DEF Holders
<1>6. Relocates(o, "handler", r)
  <2>1. ASSUME NEW x \in Objects, NEW k \in PoolPlaces, NEW q \in Callers
        PROVE  At(k, q, x)' <=> IF x = o THEN k = "handler" /\ q = r ELSE At(k, q, x)
    <3>1. x = o => (At(k, q, x) <=> k = "respChan" /\ q = r)
      BY <1>0, <1>3, Apart
    <3>2. k # "respChan" /\ k # "handler" => (At(k, q, x)' <=> At(k, q, x))
      BY <1>2 DEF At
    <3>3. k = "handler" => (At(k, q, x)' <=> IF q = r THEN x = o ELSE At(k, q, x))
      BY <1>4 DEF At
    <3>4. k = "handler" /\ q = r => ~At(k, q, x)
      BY <1>5 DEF At
    <3> QED
      BY <1>3, <3>1, <3>2, <3>3, <3>4
  <2> QED
    BY <2>1 DEF Relocates
<1>7. "handler" \in PoolPlaces /\ r \in Callers
  OBVIOUS
<1>8. OnePlace'
  BY <1>0, <1>6, <1>7, Moves, SMT
<1>9. InUse'
  <2>1. Fits("handler", r, o)'
    <3>1. Fits("respChan", r, o)
      BY <1>0, <1>3 DEF InUse
    <3>2. content'[o] = Pool!Message(r, "response")
      BY <1>2, <3>1 DEF Fits
    <3> QED
      BY <1>4, <3>2 DEF Fits
  <2>2. \A p \in Requests : poolPc'[p] = poolPc[p] \/ own'[p] = o \/ own'[p] \notin Objects
    BY <1>4
  <2>3. /\ \A x \in Objects : x # o => content'[x] = content[x]
        /\ \/ clone' = o \/ clone' \notin Objects
           \/ reader' = reader /\ content'[reader] = content[reader]
    BY <1>2
  <2> QED
    BY <1>0, <1>6, <1>7, <2>1, <2>2, <2>3, MovesInUse, SMT
<1>10. Pool!TypeOK' /\ OnceQueued' /\ NoMixUp'
  BY <1>0, <1>2, <1>3, <1>4 DEF Pool!TypeOK, OnceQueued, NoMixUp, Pool!NoMixUp
<1>11. Holders'
  BY <1>0, <1>2, <1>4 DEF Holders
<1> QED
  BY <1>8, <1>9, <1>10, <1>11 DEF PoolInv

LEMMA KeepsCollect ==
  ASSUME PoolInv, NEW r \in Requests, Pool!Collect(r)
  PROVE  PoolInv'
<1> USE PartsAssumption DEF PoolPlaces, Callers, Nobody
<1>0. OnePlace /\ Pool!TypeOK /\ Holders /\ OnceQueued /\ InUse /\ NoMixUp
  BY DEF PoolInv
<1>1. /\ Pool!Release(Head(respChan[r]))
      /\ respChan[r] # <<>> /\ respChan' = [respChan EXCEPT ![r] = Tail(@)]
  BY DEF Pool!Collect
<1>2. UNCHANGED <<poolPc, own, sendChan, writer, writerPc, answers, reader, clone, seen>>
  BY DEF Pool!Collect
<1>3. PICK o \in Objects :
        /\ o = Head(respChan[r]) /\ At("respChan", r, o)
        /\ respChan' \in [Requests -> Seq(Objects)]
        /\ \A x, q : At("respChan", q, x)' <=> At("respChan", q, x) /\ ~(q = r /\ x = o)
        /\ \A p \in Requests : \A i, j \in DOMAIN respChan'[p] :
             respChan'[p][i] = respChan'[p][j] => i = j
  BY <1>0, <1>1, FirstResponse
<1>4. /\ \A x \in Objects : x \in pool' <=> x = o \/ x \in pool
      /\ content' \in [Objects -> Pool!Contents] /\ pool' \subseteq Objects
      /\ \A x \in Objects : x # o => content'[x] = content[x]
  BY <1>0, <1>1, <1>3, ReleaseAt
<1>6. Relocates(o, "pool", Nobody)
  <2>1. ASSUME NEW x \in Objects, NEW k \in PoolPlaces, NEW q \in Callers
        PROVE  At(k, q, x)' <=> IF x = o THEN k = "pool" /\ q = Nobody ELSE At(k, q, x)
    <3>1. x = o => (At(k, q, x) <=> k = "respChan" /\ q = r)
      BY <1>0, <1>3, Apart
    <3>2. k # "respChan" /\ k # "pool" => (At(k, q, x)' <=> At(k, q, x))
      BY <1>2 DEF At
    <3>3. k = "pool" => (At(k, q, x)' <=> (q = Nobody /\ x = o) \/ At(k, q, x))
      BY <1>4 DEF At
    <3> QED
      BY <1>3, <3>1, <3>2, <3>3
  <2> QED
    BY <2>1 DEF Relocates
<1>7. "pool" \in PoolPlaces /\ Nobody \in Callers /\ "respChan" \in PoolPlaces /\ r \in Callers
  OBVIOUS
<1>8. OnePlace'
  BY <1>0, <1>6, <1>7, Moves, SMT
<1>9. InUse'
  <2>1. Fits("pool", Nobody, o)'
    BY DEF Fits
  <2>2. \A p \in Requests : poolPc'[p] = poolPc[p] \/ own'[p] = o \/ own'[p] \notin Objects
    BY <1>2
  <2>3. clone' \notin Objects \/ (reader' = reader /\ content'[reader] = content[reader])
    BY <1>0, <1>2, <1>3, <1>4, <1>7, OriginalStays
  <2> QED
    BY <1>0, <1>4, <1>6, <1>7, <2>1, <2>2, <2>3, MovesInUse, SMT
<1>10. Pool!TypeOK' /\ OnceQueued' /\ NoMixUp'
  BY <1>0, <1>2, <1>3, <1>4 DEF Pool!TypeOK, OnceQueued, NoMixUp, Pool!NoMixUp
<1>11. Holders'
  BY <1>0, <1>2 DEF Holders
<1> QED
  BY <1>8, <1>9, <1>10, <1>11 DEF PoolInv

(* A step that moves no object and changes none.                           *)
LEMMA StaysInPlace ==
  ASSUME OnePlace, InUse, OnceQueued,
         UNCHANGED <<content, pool, own, sendChan, writer, reader, clone, respChan>>,
         \A p \in Requests : poolPc'[p] = poolPc[p] \/ own[p] \notin Objects
  PROVE  OnePlace' /\ InUse' /\ OnceQueued'
<1>1. \A k, r, x : At(k, r, x)' <=> At(k, r, x)
  BY DEF At
<1>2. OnePlace'
  BY <1>1 DEF OnePlace
<1>3. ASSUME NEW x \in Objects, NEW k \in PoolPlaces, NEW r \in Callers, At(k, r, x)'
      PROVE  Fits(k, r, x)'
  <2>1. At(k, r, x) /\ Fits(k, r, x)
    BY <1>1, <1>3 DEF InUse
  <2>2. k = "handler" => r \in Requests /\ poolPc'[r] = poolPc[r]
    BY <2>1 DEF At
  <2> QED
    BY <2>1, <2>2 DEF Fits
<1> QED
  BY <1>2, <1>3 DEF InUse, OnceQueued

LEMMA KeepsGiveUp ==
  ASSUME PoolInv, NEW r \in Requests, Pool!GiveUp(r)
  PROVE  PoolInv'
<1>0. OnePlace /\ Pool!TypeOK /\ Holders /\ OnceQueued /\ InUse /\ NoMixUp
  BY DEF PoolInv
<1>1. Pool!Step(r, "waiting", "done", NoObject)
  BY DEF Pool!GiveUp
<1>2. UNCHANGED <<content, pool, sendChan, writer, writerPc, answers, reader, clone,
                  respChan, seen>>
  BY DEF Pool!GiveUp
<1>3. /\ poolPc' \in [Requests -> {"new", "sending", "waiting", "reading", "done"}]
      /\ own' \in [Requests -> Objects \cup {NoObject}]
      /\ poolPc[r] = "waiting" /\ poolPc'[r] = "done" /\ own'[r] = NoObject
      /\ \A p \in Requests : p # r => poolPc'[p] = poolPc[p] /\ own'[p] = own[p]
  BY <1>0, <1>1, Steps
<1>4. own[r] = NoObject
  BY <1>0, <1>3 DEF Holders
<1>5. own' = own
  BY <1>0, <1>3, <1>4 DEF Pool!TypeOK
<1>6. OnePlace' /\ InUse' /\ OnceQueued'
  <2>1. \A p \in Requests : poolPc'[p] = poolPc[p] \/ own[p] \notin Objects
    BY <1>3, <1>4, PartsAssumption
  <2> QED
    BY <1>0, <1>2, <1>5, <2>1, StaysInPlace
<1>7. Pool!TypeOK' /\ NoMixUp'
  BY <1>0, <1>2, <1>3 DEF Pool!TypeOK, NoMixUp, Pool!NoMixUp
<1>8. Holders'
  BY <1>0, <1>2, <1>3, <1>4 DEF Holders
<1> QED
  BY <1>6, <1>7, <1>8 DEF PoolInv

-----------------------------------------------------------------------------
(* The life of a message object: the steps of writePump and readPump       *)

LEMMA KeepsWriterTakes ==
  ASSUME PoolInv, Pool!WriterTakes
  PROVE  PoolInv'
<1> USE PartsAssumption DEF PoolPlaces, Callers, Nobody
<1>0. OnePlace /\ Pool!TypeOK /\ Holders /\ OnceQueued /\ InUse /\ NoMixUp
  BY DEF PoolInv
<1>1. /\ writerPc = "idle" /\ sendChan # <<>>
      /\ writer' = Head(sendChan) /\ writerPc' = "taken" /\ sendChan' = Tail(sendChan)
  BY DEF Pool!WriterTakes
<1>2. UNCHANGED <<content, pool, poolPc, own, answers, reader, clone, respChan, seen>>
  BY DEF Pool!WriterTakes
<1>3. PICK o : o = Head(sendChan)
  OBVIOUS
<1>4. /\ sendChan' \in Seq(Objects) /\ o \in Objects
      /\ \E i \in DOMAIN sendChan : sendChan[i] = o
      /\ \A x : (\E i \in DOMAIN sendChan' : sendChan'[i] = x)
                  <=> x # o /\ \E i \in DOMAIN sendChan : sendChan[i] = x
      /\ \A i, j \in DOMAIN sendChan' : sendChan'[i] = sendChan'[j] => i = j
  <2>1. sendChan \in Seq(Objects)
    BY <1>0 DEF Pool!TypeOK
  <2>2. \A i, j \in DOMAIN sendChan : sendChan[i] = sendChan[j] => i = j
    BY <1>0 DEF OnceQueued
  <2>3. /\ Tail(sendChan) \in Seq(Objects) /\ Head(sendChan) \in Objects
        /\ \E i \in DOMAIN sendChan : sendChan[i] = Head(sendChan)
        /\ \A x : (\E i \in DOMAIN Tail(sendChan) : Tail(sendChan)[i] = x)
                    <=> x # Head(sendChan) /\ \E i \in DOMAIN sendChan : sendChan[i] = x
        /\ \A i, j \in DOMAIN Tail(sendChan) : Tail(sendChan)[i] = Tail(sendChan)[j] => i = j
    BY <1>1, <2>1, <2>2, TakeFirst
  <2> QED
    BY <1>1, <1>3, <2>3
<1>5. At("sendChan", Nobody, o)
  BY <1>4 DEF At
<1>6. Relocates(o, "writer", Nobody)
  <2>1. ASSUME NEW x \in Objects, NEW k \in PoolPlaces, NEW q \in Callers
        PROVE  At(k, q, x)' <=> IF x = o THEN k = "writer" /\ q = Nobody ELSE At(k, q, x)
    <3>1. x = o => (At(k, q, x) <=> k = "sendChan" /\ q = Nobody)
      BY <1>0, <1>4, <1>5, Apart
    <3>2. k # "sendChan" /\ k # "writer" => (At(k, q, x)' <=> At(k, q, x))
      BY <1>2 DEF At
    <3>3. k = "sendChan" => (At(k, q, x)' <=> x # o /\ At(k, q, x))
      BY <1>4 DEF At
    <3>4. k = "writer" => (At(k, q, x)' <=> q = Nobody /\ x = o)
      BY <1>1, <1>3 DEF At
    <3>5. k = "writer" => ~At(k, q, x)
      BY <1>0, <1>1 DEF At, Holders
    <3> QED
      BY <3>1, <3>2, <3>3, <3>4, <3>5
  <2> QED
    BY <2>1 DEF Relocates
<1>7. "writer" \in PoolPlaces /\ Nobody \in Callers /\ "sendChan" \in PoolPlaces
  OBVIOUS
<1>8. OnePlace'
  BY <1>0, <1>4, <1>6, <1>7, Moves, SMT
<1>9. InUse'
  <2>1. Fits("writer", Nobody, o)'
    <3>1. Fits("sendChan", Nobody, o)
      BY <1>0, <1>4, <1>5, <1>7 DEF InUse
    <3>2. \E p \in Requests : content'[o] = Pool!Message(p, "request")
      BY <1>2, <3>1 DEF Fits
    <3> QED
      BY <3>2 DEF Fits
  <2>2. \A p \in Requests : poolPc'[p] = poolPc[p] \/ own'[p] = o \/ own'[p] \notin Objects
    BY <1>2
  <2>3. /\ \A x \in Objects : x # o => content'[x] = content[x]
        /\ \/ clone' = o \/ clone' \notin Objects
           \/ reader' = reader /\ content'[reader] = content[reader]
    BY <1>2
  <2> QED
    BY <1>0, <1>4, <1>6, <1>7, <2>1, <2>2, <2>3, MovesInUse, SMT
<1>10. Pool!TypeOK' /\ OnceQueued' /\ NoMixUp'
  BY <1>0, <1>1, <1>2, <1>3, <1>4 DEF Pool!TypeOK, OnceQueued, NoMixUp, Pool!NoMixUp
<1>11. Holders'
  BY <1>0, <1>1, <1>2, <1>3, <1>4 DEF Holders
<1> QED
  BY <1>8, <1>9, <1>10, <1>11 DEF PoolInv

LEMMA KeepsWriterWrites ==
  ASSUME PoolInv, Pool!WriterWrites
  PROVE  PoolInv'
<1> USE PartsAssumption
<1>0. OnePlace /\ Pool!TypeOK /\ Holders /\ OnceQueued /\ InUse /\ NoMixUp
  BY DEF PoolInv
<1>1. /\ writerPc = "taken" /\ writerPc' = "written"
      /\ seen' = seen \cup {[by |-> NoObject, what |-> content[writer]]}
      /\ answers' = answers \cup {content[writer].id} \/ answers' = answers
  BY DEF Pool!WriterWrites
<1>2. UNCHANGED <<content, pool, poolPc, own, sendChan, writer, reader, clone, respChan>>
  BY DEF Pool!WriterWrites
<1>3. PICK p \in Requests : content[writer] = Pool!Message(p, "request")
  <2>1. writer \in Objects /\ At("writer", Nobody, writer)
    BY <1>0, <1>1 DEF Holders, Pool!TypeOK, At
  <2>2. "writer" \in PoolPlaces /\ Nobody \in Callers
    BY DEF PoolPlaces, Callers
  <2>3. Fits("writer", Nobody, writer)
    BY <1>0, <2>1, <2>2 DEF InUse
  <2> QED
    BY <2>3 DEF Fits
<1>4. content[writer].id = p
  BY <1>3, Messages
<1>5. OnePlace' /\ InUse' /\ OnceQueued'
  BY <1>0, <1>2, StaysInPlace
<1>6. Pool!TypeOK'
  BY <1>0, <1>1, <1>2, <1>4 DEF Pool!TypeOK
<1>7. NoMixUp'
  <2>1. seen' = seen \cup {[by |-> NoObject, what |-> Pool!Message(p, "request")]}
    BY <1>1, <1>3
  <2> QED
    BY <1>0, <1>3, <1>4, <2>1 DEF NoMixUp, Pool!NoMixUp
<1>8. Holders'
  BY <1>0, <1>1, <1>2 DEF Holders
<1> QED
  BY <1>5, <1>6, <1>7, <1>8 DEF PoolInv

LEMMA KeepsWriterReleases ==
  ASSUME PoolInv, Pool!WriterReleases
  PROVE  PoolInv'
<1> USE PartsAssumption DEF PoolPlaces, Callers, Nobody
<1>0. OnePlace /\ Pool!TypeOK /\ Holders /\ OnceQueued /\ InUse /\ NoMixUp
  BY DEF PoolInv
<1>1. /\ writerPc = "written" /\ writerPc' = "idle"
      /\ Pool!Release(writer) /\ writer' = NoObject
  BY DEF Pool!WriterReleases
<1>2. UNCHANGED <<poolPc, own, sendChan, answers, reader, clone, respChan, seen>>
  BY DEF Pool!WriterReleases
<1>3. PICK o \in Objects : o = writer /\ At("writer", Nobody, o)
  BY <1>0, <1>1 DEF Holders, Pool!TypeOK, At
<1>4. /\ \A x \in Objects : x \in pool' <=> x = o \/ x \in pool
      /\ content' \in [Objects -> Pool!Contents] /\ pool' \subseteq Objects
      /\ \A x \in Objects : x # o => content'[x] = content[x]
  BY <1>0, <1>1, <1>3, ReleaseAt
<1>5. Relocates(o, "pool", Nobody)
  <2>1. ASSUME NEW x \in Objects, NEW k \in PoolPlaces, NEW q \in Callers
        PROVE  At(k, q, x)' <=> IF x = o THEN k = "pool" /\ q = Nobody ELSE At(k, q, x)
    <3>1. x = o => (At(k, q, x) <=> k = "writer" /\ q = Nobody)
      BY <1>0, <1>3, Apart
    <3>2. k # "writer" /\ k # "pool" => (At(k, q, x)' <=> At(k, q, x))
      BY <1>2 DEF At
    <3>3. k = "pool" => (At(k, q, x)' <=> (q = Nobody /\ x = o) \/ At(k, q, x))
      BY <1>4 DEF At
    <3>4. k = "writer" => ~At(k, q, x)' /\ (At(k, q, x) => x = o)
      BY <1>1, <1>3 DEF At
    <3> QED
      BY <3>1, <3>2, <3>3, <3>4
  <2> QED
    BY <2>1 DEF Relocates
<1>6. "pool" \in PoolPlaces /\ Nobody \in Callers /\ "writer" \in PoolPlaces
  OBVIOUS
<1>7. OnePlace'
  BY <1>0, <1>5, <1>6, Moves, SMT
<1>8. InUse'
  <2>1. Fits("pool", Nobody, o)'
    BY DEF Fits
  <2>2. \A p \in Requests : poolPc'[p] = poolPc[p] \/ own'[p] = o \/ own'[p] \notin Objects
    BY <1>2
  <2>3. clone' \notin Objects \/ (reader' = reader /\ content'[reader] = content[reader])
    BY <1>0, <1>2, <1>3, <1>4, <1>6, OriginalStays
  <2> QED
    BY <1>0, <1>4, <1>5, <1>6, <2>1, <2>2, <2>3, MovesInUse, SMT
<1>9. Pool!TypeOK' /\ OnceQueued' /\ NoMixUp'
  BY <1>0, <1>1, <1>2, <1>4 DEF Pool!TypeOK, OnceQueued, NoMixUp, Pool!NoMixUp
<1>10. Holders'
  BY <1>0, <1>1, <1>2 DEF Holders
<1> QED
  BY <1>7, <1>8, <1>9, <1>10 DEF PoolInv

LEMMA KeepsDeserialize ==
  ASSUME PoolInv, Pool!Deserialize
  PROVE  PoolInv'
<1> USE PartsAssumption DEF PoolPlaces, Callers, Nobody
<1>0. OnePlace /\ Pool!TypeOK /\ Holders /\ OnceQueued /\ InUse /\ NoMixUp
  BY DEF PoolInv
<1>1. PICK o \in Objects, r \in answers :
        reader' = o /\ Pool!Acquire(o, Pool!Message(r, "response"))
  BY DEF Pool!Deserialize
<1>2. /\ UNCHANGED <<poolPc, own, sendChan, writer, writerPc, answers, clone, respChan, seen>>
      /\ reader = NoObject
  BY DEF Pool!Deserialize
<1>3. r \in Requests
  BY <1>0 DEF Pool!TypeOK
<1>4. /\ At("pool", Nobody, o)
      /\ \A x \in Objects : x \in pool' <=> x # o /\ x \in pool
      /\ content' \in [Objects -> Pool!Contents] /\ pool' \subseteq Objects
      /\ content'[o] = Pool!Message(r, "response")
      /\ \A x \in Objects : x # o => content'[x] = content[x]
  BY <1>0, <1>1, <1>3, AcquireAt, Messages
<1>5. Relocates(o, "reader", Nobody)
  <2>1. ASSUME NEW x \in Objects, NEW k \in PoolPlaces, NEW q \in Callers
        PROVE  At(k, q, x)' <=> IF x = o THEN k = "reader" /\ q = Nobody ELSE At(k, q, x)
    <3>1. x = o => (At(k, q, x) <=> k = "pool" /\ q = Nobody)
      BY <1>0, <1>4, Apart
    <3>2. k # "reader" /\ k # "pool" => (At(k, q, x)' <=> At(k, q, x))
      BY <1>2 DEF At
    <3>3. k = "pool" => (At(k, q, x)' <=> x # o /\ At(k, q, x))
      BY <1>4 DEF At
    <3>4. k = "reader" => ~At(k, q, x) /\ (At(k, q, x)' <=> q = Nobody /\ x = o)
      BY <1>1, <1>2 DEF At
    <3> QED
      BY <3>1, <3>2, <3>3, <3>4
  <2> QED
    BY <2>1 DEF Relocates
<1>6. "pool" \in PoolPlaces /\ Nobody \in Callers /\ "reader" \in PoolPlaces
  OBVIOUS
<1>7. OnePlace'
  BY <1>0, <1>5, <1>6, Moves, SMT
<1>8. InUse'
  <2>1. Fits("reader", Nobody, o)'
    BY <1>3, <1>4 DEF Fits
  <2>2. \A p \in Requests : poolPc'[p] = poolPc[p] \/ own'[p] = o \/ own'[p] \notin Objects
    BY <1>2
  <2>3. clone' \notin Objects
    BY <1>0, <1>2 DEF Holders
  <2> QED
    BY <1>0, <1>4, <1>5, <1>6, <2>1, <2>2, <2>3, MovesInUse, SMT
<1>9. Pool!TypeOK' /\ OnceQueued' /\ NoMixUp'
  BY <1>0, <1>1, <1>2, <1>4 DEF Pool!TypeOK, OnceQueued, NoMixUp, Pool!NoMixUp
<1>10. Holders'
  BY <1>0, <1>1, <1>2 DEF Holders
<1> QED
  BY <1>7, <1>8, <1>9, <1>10 DEF PoolInv

LEMMA KeepsDiscard ==
  ASSUME PoolInv, Pool!Discard
  PROVE  PoolInv'
<1> USE PartsAssumption DEF PoolPlaces, Callers, Nobody
<1>0. OnePlace /\ Pool!TypeOK /\ Holders /\ OnceQueued /\ InUse /\ NoMixUp
  BY DEF PoolInv
<1>1. reader # NoObject /\ clone = NoObject /\ Pool!Release(reader) /\ reader' = NoObject
  BY DEF Pool!Discard
<1>2. UNCHANGED <<poolPc, own, sendChan, writer, writerPc, answers, clone, respChan, seen>>
  BY DEF Pool!Discard
<1>3. PICK o \in Objects : o = reader /\ At("reader", Nobody, o)
  BY <1>0, <1>1 DEF Pool!TypeOK, At
<1>4. /\ \A x \in Objects : x \in pool' <=> x = o \/ x \in pool
      /\ content' \in [Objects -> Pool!Contents] /\ pool' \subseteq Objects
      /\ \A x \in Objects : x # o => content'[x] = content[x]
  BY <1>0, <1>1, <1>3, ReleaseAt
<1>5. Relocates(o, "pool", Nobody)
  <2>1. ASSUME NEW x \in Objects, NEW k \in PoolPlaces, NEW q \in Callers
        PROVE  At(k, q, x)' <=> IF x = o THEN k = "pool" /\ q = Nobody ELSE At(k, q, x)
    <3>1. x = o => (At(k, q, x) <=> k = "reader" /\ q = Nobody)
      BY <1>0, <1>3, Apart
    <3>2. k # "reader" /\ k # "pool" => (At(k, q, x)' <=> At(k, q, x))
      BY <1>2 DEF At
    <3>3. k = "pool" => (At(k, q, x)' <=> (q = Nobody /\ x = o) \/ At(k, q, x))
      BY <1>4 DEF At
    <3>4. k = "reader" => ~At(k, q, x)' /\ (At(k, q, x) => x = o)
      BY <1>1, <1>3 DEF At
    <3> QED
      BY <3>1, <3>2, <3>3, <3>4
  <2> QED
    BY <2>1 DEF Relocates
<1>6. "pool" \in PoolPlaces /\ Nobody \in Callers /\ "reader" \in PoolPlaces
  OBVIOUS
<1>7. OnePlace'
  BY <1>0, <1>5, <1>6, Moves, SMT
<1>8. InUse'
  <2>1. Fits("pool", Nobody, o)'
    BY DEF Fits
  <2>2. \A p \in Requests : poolPc'[p] = poolPc[p] \/ own'[p] = o \/ own'[p] \notin Objects
    BY <1>2
  <2>3. clone' \notin Objects
    BY <1>1, <1>2
  <2> QED
    BY <1>0, <1>4, <1>5, <1>6, <2>1, <2>2, <2>3, MovesInUse, SMT
<1>9. Pool!TypeOK' /\ OnceQueued' /\ NoMixUp'
  BY <1>0, <1>1, <1>2, <1>4 DEF Pool!TypeOK, OnceQueued, NoMixUp, Pool!NoMixUp
<1>10. Holders'
  BY <1>0, <1>1, <1>2 DEF Holders
<1> QED
  BY <1>7, <1>8, <1>9, <1>10 DEF PoolInv

LEMMA KeepsClone ==
  ASSUME PoolInv, Pool!Clone
  PROVE  PoolInv'
<1> USE PartsAssumption DEF PoolPlaces, Callers, Nobody
<1>0. OnePlace /\ Pool!TypeOK /\ Holders /\ OnceQueued /\ InUse /\ NoMixUp
  BY DEF PoolInv
<1>1. PICK o \in Objects : clone' = o /\ Pool!Acquire(o, content[reader])
  BY DEF Pool!Clone
<1>2. /\ UNCHANGED <<poolPc, own, sendChan, writer, writerPc, answers, reader, respChan, seen>>
      /\ reader # NoObject /\ clone = NoObject
  BY DEF Pool!Clone
<1>3. reader \in Objects /\ At("reader", Nobody, reader) /\ content[reader] \in Pool!Contents
  BY <1>0, <1>2 DEF Pool!TypeOK, At
<1>4. /\ At("pool", Nobody, o)
      /\ \A x \in Objects : x \in pool' <=> x # o /\ x \in pool
      /\ content' \in [Objects -> Pool!Contents] /\ pool' \subseteq Objects
      /\ content'[o] = content[reader]
      /\ \A x \in Objects : x # o => content'[x] = content[x]
  BY <1>0, <1>1, <1>3, AcquireAt
<1>5. Relocates(o, "clone", Nobody)
  <2>1. ASSUME NEW x \in Objects, NEW k \in PoolPlaces, NEW q \in Callers
        PROVE  At(k, q, x)' <=> IF x = o THEN k = "clone" /\ q = Nobody ELSE At(k, q, x)
    <3>1. x = o => (At(k, q, x) <=> k = "pool" /\ q = Nobody)
      BY <1>0, <1>4, Apart
    <3>2. k # "clone" /\ k # "pool" => (At(k, q, x)' <=> At(k, q, x))
      BY <1>2 DEF At
    <3>3. k = "pool" => (At(k, q, x)' <=> x # o /\ At(k, q, x))
      BY <1>4 DEF At
    <3>4. k = "clone" => ~At(k, q, x) /\ (At(k, q, x)' <=> q = Nobody /\ x = o)
      BY <1>1, <1>2 DEF At
    <3> QED
      BY <3>1, <3>2, <3>3, <3>4
  <2> QED
    BY <2>1 DEF Relocates
<1>6. /\ "pool" \in PoolPlaces /\ Nobody \in Callers /\ "clone" \in PoolPlaces
      /\ "reader" \in PoolPlaces
  OBVIOUS
<1>7. OnePlace'
  BY <1>0, <1>5, <1>6, Moves, SMT
<1>8. InUse'
  <2>1. Fits("clone", Nobody, o)'
    <3>1. reader # o
      BY <1>0, <1>3, <1>4, <1>6, Apart
    <3>2. content'[o] = content'[reader']
      BY <1>2, <1>3, <1>4, <3>1
    <3> QED
      BY <3>2 DEF Fits
  <2>2. \A p \in Requests : poolPc'[p] = poolPc[p] \/ own'[p] = o \/ own'[p] \notin Objects
    BY <1>2
  <2>3. clone' = o
    BY <1>1
  <2> QED
    BY <1>0, <1>4, <1>5, <1>6, <2>1, <2>2, <2>3, MovesInUse, SMT
<1>9. Pool!TypeOK' /\ OnceQueued' /\ NoMixUp'
  BY <1>0, <1>1, <1>2, <1>4 DEF Pool!TypeOK, OnceQueued, NoMixUp, Pool!NoMixUp
<1>10. Holders'
  BY <1>0, <1>1, <1>2 DEF Holders
<1> QED
  BY <1>7, <1>8, <1>9, <1>10 DEF PoolInv

(* The original goes back to the pool; the clone goes to the ResponseChan, *)
(* or is left to the collector.                                            *)
LEMMA ForwardMoves ==
  ASSUME PoolInv, Pool!Forward
  PROVE  \E o \in Objects, c \in Objects, r \in Requests :
           /\ o # c /\ At("reader", Nobody, o) /\ At("clone", Nobody, c)
           /\ content[c] = Pool!Message(r, "response")
           /\ content' \in [Objects -> Pool!Contents] /\ pool' \subseteq Objects
           /\ \A x \in Objects : x # o /\ x # c => content'[x] = content[x]
           /\ \/ /\ respChan' = [respChan EXCEPT ![r] = Append(@, c)]
                 /\ \A x \in Objects : x \in pool' <=> x = o \/ x \in pool
                 /\ content'[c] = content[c]
              \/ /\ respChan' = respChan
                 /\ \A x \in Objects : x \in pool' <=> x = o \/ x = c \/ x \in pool
<1> USE PartsAssumption DEF PoolPlaces, Callers, Nobody
<1>0. OnePlace /\ Pool!TypeOK /\ Holders /\ OnceQueued /\ InUse /\ NoMixUp
  BY DEF PoolInv
<1>1. clone # NoObject
  BY DEF Pool!Forward
<1>2. PICK o \in Objects : o = reader /\ At("reader", Nobody, o)
  BY <1>0, <1>1 DEF Pool!TypeOK, At, Holders
<1>3. PICK c \in Objects : c = clone /\ At("clone", Nobody, c)
  BY <1>0, <1>1 DEF Pool!TypeOK, At
<1>4. "reader" \in PoolPlaces /\ "clone" \in PoolPlaces /\ Nobody \in Callers
  OBVIOUS
<1>5. o # c
  BY <1>0, <1>2, <1>3, <1>4, Apart
<1>6. PICK r \in Requests : content[o] = Pool!Message(r, "response")
  <2>1. Fits("reader", Nobody, o)
    BY <1>0, <1>2, <1>4 DEF InUse
  <2> QED
    BY <2>1 DEF Fits
<1>7. content[c] = Pool!Message(r, "response")
  <2>1. Fits("clone", Nobody, c)
    BY <1>0, <1>3, <1>4 DEF InUse
  <2> QED
    BY <1>2, <1>6, <2>1 DEF Fits
<1>8. content[reader].id = r
  BY <1>2, <1>6, Messages
<1>9. \/ /\ respChan' = [respChan EXCEPT ![r] = Append(@, c)]
         /\ Pool!Release(o)
      \/ /\ UNCHANGED respChan
         /\ pool' = pool \cup {o, c}
         /\ content' = [content EXCEPT ![o].payload = FALSE, ![c].payload = FALSE]
  BY <1>2, <1>3, <1>8 DEF Pool!Forward
<1>10. CASE /\ respChan' = [respChan EXCEPT ![r] = Append(@, c)]
            /\ Pool!Release(o)
  <2>1. /\ \A x \in Objects : x \in pool' <=> x = o \/ x \in pool
        /\ content' \in [Objects -> Pool!Contents] /\ pool' \subseteq Objects
        /\ \A x \in Objects : x # o => content'[x] = content[x]
    BY <1>0, <1>10, ReleaseAt
  <2>2. content'[c] = content[c]
    BY <1>5, <2>1
  <2> QED
    BY <1>2, <1>3, <1>5, <1>7, <1>10, <2>1, <2>2
<1>11. CASE /\ UNCHANGED respChan
            /\ pool' = pool \cup {o, c}
            /\ content' = [content EXCEPT ![o].payload = FALSE, ![c].payload = FALSE]
  <2>1. content \in [Objects -> Pool!Contents] /\ pool \subseteq Objects
    BY <1>0 DEF Pool!TypeOK
  <2>2. /\ [content[o] EXCEPT !.payload = FALSE] \in Pool!Contents
        /\ [content[c] EXCEPT !.payload = FALSE] \in Pool!Contents
    BY <2>1 DEF Pool!Contents
  <2>3. /\ content' \in [Objects -> Pool!Contents] /\ pool' \subseteq Objects
        /\ \A x \in Objects : x # o /\ x # c => content'[x] = content[x]
    BY <1>5, <1>11, <2>1, <2>2
  <2> QED
    BY <1>2, <1>3, <1>5, <1>7, <1>11, <2>3
<1> QED
  BY <1>9, <1>10, <1>11

LEMMA KeepsForward ==
  ASSUME PoolInv, Pool!Forward
  PROVE  PoolInv'
<1> USE PartsAssumption DEF PoolPlaces, Callers, Nobody
<1>0. OnePlace /\ Pool!TypeOK /\ Holders /\ OnceQueued /\ InUse /\ NoMixUp
  BY DEF PoolInv
<1>1. PICK o \in Objects, c \in Objects, r \in Requests :
        /\ o # c /\ At("reader", Nobody, o) /\ At("clone", Nobody, c)
        /\ content[c] = Pool!Message(r, "response")
        /\ content' \in [Objects -> Pool!Contents] /\ pool' \subseteq Objects
        /\ \A x \in Objects : x # o /\ x # c => content'[x] = content[x]
        /\ \/ /\ respChan' = [respChan EXCEPT ![r] = Append(@, c)]
              /\ \A x \in Objects : x \in pool' <=> x = o \/ x \in pool
              /\ content'[c] = content[c]
           \/ /\ respChan' = respChan
              /\ \A x \in Objects : x \in pool' <=> x = o \/ x = c \/ x \in pool
  BY ForwardMoves
<1>2. /\ UNCHANGED <<poolPc, own, sendChan, writer, writerPc, answers, seen>>
      /\ reader' = NoObject /\ clone' = NoObject
  BY DEF Pool!Forward
<1>3. /\ \A q, x : ~At("reader", q, x)' \/ x = NoObject
      /\ \A q, x : ~At("clone", q, x)' \/ x = NoObject
      /\ reader = o /\ clone = c
  BY <1>1, <1>2 DEF At
<1>4. PICK l \in {"pool", "respChan"}, q \in Callers :
        /\ respChan' \in [Requests -> Seq(Objects)]
        /\ \A p \in Requests : \A i, j \in DOMAIN respChan'[p] :
             respChan'[p][i] = respChan'[p][j] => i = j
        /\ \A x \in Objects, p \in Callers :
             /\ At("pool", p, x)' <=> \/ p = Nobody /\ x = o
                                      \/ l = "pool" /\ p = q /\ x = c
                                      \/ At("pool", p, x)
             /\ At("respChan", p, x)' <=> \/ l = "respChan" /\ p = q /\ x = c
                                          \/ At("respChan", p, x)
        /\ Fits(l, q, c)'
  <2>1. CASE /\ respChan' = [respChan EXCEPT ![r] = Append(@, c)]
             /\ \A x \in Objects : x \in pool' <=> x = o \/ x \in pool
             /\ content'[c] = content[c]
    <3>1. /\ respChan[r] \in Seq(Objects) /\ respChan \in [Requests -> Seq(Objects)]
          /\ \A i, j \in DOMAIN respChan[r] : respChan[r][i] = respChan[r][j] => i = j
      BY <1>0 DEF Pool!TypeOK, OnceQueued
    <3>2. \A i \in DOMAIN respChan[r] : respChan[r][i] # c
      <4>1. "clone" \in PoolPlaces /\ "respChan" \in PoolPlaces /\ Nobody \in Callers /\ r \in Callers
        OBVIOUS
      <4>2. ~At("respChan", r, c)
        BY <1>0, <1>1, <4>1, Apart
      <4> QED
        BY <4>2 DEF At
    <3>3. /\ Append(respChan[r], c) \in Seq(Objects)
          /\ \A x : (\E i \in DOMAIN Append(respChan[r], c) : Append(respChan[r], c)[i] = x)
                      <=> x = c \/ \E i \in DOMAIN respChan[r] : respChan[r][i] = x
          /\ \A i, j \in DOMAIN Append(respChan[r], c) :
               Append(respChan[r], c)[i] = Append(respChan[r], c)[j] => i = j
      BY <3>1, <3>2, PutLast
    <3>4. /\ respChan' \in [Requests -> Seq(Objects)]
          /\ respChan'[r] = Append(respChan[r], c)
          /\ \A p \in Requests : p # r => respChan'[p] = respChan[p]
      BY <2>1, <3>1, <3>3
    <3>5. ASSUME NEW p \in Requests, NEW i \in DOMAIN respChan'[p], NEW j \in DOMAIN respChan'[p],
                 respChan'[p][i] = respChan'[p][j]
          PROVE  i = j
      <4>1. CASE p = r
        BY <3>3, <3>4, <3>5, <4>1
      <4>2. CASE p # r
        BY <1>0, <3>4, <3>5, <4>2 DEF OnceQueued
      <4> QED
        BY <4>1, <4>2
    <3>6. ASSUME NEW x \in Objects, NEW p \in Callers
          PROVE  At("respChan", p, x)' <=> (p = r /\ x = c) \/ At("respChan", p, x)
      <4>1. CASE p = r
        <5>1. At("respChan", r, x)'
                <=> \E i \in DOMAIN Append(respChan[r], c) : Append(respChan[r], c)[i] = x
          BY <3>4 DEF At
        <5>2. At("respChan", r, x) <=> \E i \in DOMAIN respChan[r] : respChan[r][i] = x
          BY DEF At
        <5>3. At("respChan", r, x)' <=> x = c \/ At("respChan", r, x)
          BY <3>3, <5>1, <5>2
        <5> QED
          BY <4>1, <5>3
      <4>2. CASE p # r
        BY <3>4, <4>2 DEF At
      <4> QED
        BY <4>1, <4>2
    <3>7. \A x \in Objects, p \in Callers :
            At("pool", p, x)' <=> (p = Nobody /\ x = o) \/ At("pool", p, x)
      BY <2>1 DEF At
    <3>8. Fits("respChan", r, c)'
      BY <1>1, <2>1 DEF Fits
    <3> QED
      BY <3>4, <3>5, <3>6, <3>7, <3>8
  <2>2. CASE /\ respChan' = respChan
             /\ \A x \in Objects : x \in pool' <=> x = o \/ x = c \/ x \in pool
    <3>1. \A x \in Objects, p \in Callers :
            /\ At("pool", p, x)' <=> (p = Nobody /\ (x = o \/ x = c)) \/ At("pool", p, x)
            /\ At("respChan", p, x)' <=> At("respChan", p, x)
      BY <2>2 DEF At
    <3>2. Fits("pool", Nobody, c)'
      BY DEF Fits
    <3>3. respChan' \in [Requests -> Seq(Objects)]
      BY <1>0, <2>2 DEF Pool!TypeOK
    <3>4. \A p \in Requests : \A i, j \in DOMAIN respChan'[p] :
            respChan'[p][i] = respChan'[p][j] => i = j
      BY <1>0, <2>2 DEF OnceQueued
    <3> QED
      BY <3>1, <3>2, <3>3, <3>4
  <2> QED
    BY <1>1, <2>1, <2>2
<1>5. ASSUME NEW x \in Objects, NEW k \in PoolPlaces, NEW p \in Callers
      PROVE  At(k, p, x)' <=> IF x = o THEN k = "pool" /\ p = Nobody
                              ELSE IF x = c THEN k = l /\ p = q
                              ELSE At(k, p, x)
  <2>1. /\ x = o => (At(k, p, x) <=> k = "reader" /\ p = Nobody)
        /\ x = c => (At(k, p, x) <=> k = "clone" /\ p = Nobody)
    BY <1>0, <1>1, Apart
  <2>2. k \notin {"pool", "respChan", "reader", "clone"} => (At(k, p, x)' <=> At(k, p, x))
    BY <1>2 DEF At
  <2>3. /\ k = "reader" => ~At(k, p, x)' /\ (At(k, p, x) => x = o)
        /\ k = "clone" => ~At(k, p, x)' /\ (At(k, p, x) => x = c)
    BY <1>3 DEF At
  <2>4. CASE k = "pool"
    BY <1>1, <1>4, <2>1, <2>4
  <2>5. CASE k = "respChan"
    BY <1>1, <1>4, <2>1, <2>5
  <2>6. CASE k \notin {"pool", "respChan"}
    BY <1>1, <1>4, <2>1, <2>2, <2>3, <2>6
  <2> QED
    BY <2>4, <2>5, <2>6
<1>6. OnePlace'
  <2>1. ASSUME NEW x \in Objects
        PROVE  \E k \in PoolPlaces, p \in Callers : Sits(k, p, x)'
    <3>1. CASE x = o
      <4>1. Sits("pool", Nobody, x)'
        BY <1>5, <3>1 DEF Sits
      <4> QED
        BY <4>1
    <3>2. CASE x = c
      <4>1. Sits(l, q, x)'
        BY <1>1, <1>5, <3>2 DEF Sits
      <4>2. l \in PoolPlaces
        OBVIOUS
      <4> QED
        BY <4>1, <4>2
    <3>3. CASE x # o /\ x # c
      <4>1. PICK k \in PoolPlaces, p \in Callers : Sits(k, p, x)
        BY <1>0, OnePlaceSits
      <4>2. Sits(k, p, x)'
        BY <1>5, <3>3, <4>1 DEF Sits
      <4> QED
        BY <4>2
    <3> QED
      BY <3>1, <3>2, <3>3
  <2> QED
    BY <2>1 DEF OnePlace, Sits
<1>7. InUse'
  <2>1. ASSUME NEW x \in Objects, NEW k \in PoolPlaces, NEW p \in Callers, At(k, p, x)'
        PROVE  Fits(k, p, x)'
    <3>1. CASE x = o
      BY <1>5, <2>1, <3>1 DEF Fits
    <3>2. CASE x = c
      BY <1>1, <1>4, <1>5, <2>1, <3>2
    <3>3. CASE x # o /\ x # c
      <4>1. At(k, p, x) /\ Fits(k, p, x) /\ content'[x] = content[x]
        BY <1>0, <1>1, <1>5, <2>1, <3>3 DEF InUse
      <4>2. k # "clone"
        BY <1>3, <3>3, <4>1 DEF At
      <4>3. k = "handler" => p \in Requests /\ poolPc'[p] = poolPc[p]
        BY <1>2, <4>1 DEF At
      <4> QED
        BY <4>1, <4>2, <4>3 DEF Fits
    <3> QED
      BY <3>1, <3>2, <3>3
  <2> QED
    BY <2>1 DEF InUse
<1>8. Pool!TypeOK' /\ OnceQueued' /\ NoMixUp'
  BY <1>0, <1>1, <1>2, <1>4 DEF Pool!TypeOK, OnceQueued, NoMixUp, Pool!NoMixUp
<1>9. Holders'
  BY <1>0, <1>2 DEF Holders
<1> QED
  BY <1>6, <1>7, <1>8, <1>9 DEF PoolInv

-----------------------------------------------------------------------------
(* The life of a message object: the theorems                              *)

LEMMA PoolInit ==
  ASSUME Pool!Init
  PROVE  PoolInv
<1> USE PartsAssumption DEF Pool!Init
<1>1. Pool!TypeOK /\ OnceQueued /\ Holders /\ NoMixUp
  BY DEF Pool!TypeOK, Pool!Contents, OnceQueued, Holders, NoMixUp, Pool!NoMixUp
<1>2. \A o \in Objects, k \in PoolPlaces, r \in Callers :
        At(k, r, o) <=> k = "pool" /\ r = Nobody
  BY DEF At, Nobody, PoolPlaces, Callers
<1>3. OnePlace
  <2>1. "pool" \in PoolPlaces /\ Nobody \in Callers
    BY DEF PoolPlaces, Callers
  <2> QED
    BY <1>2, <2>1 DEF OnePlace
<1>4. InUse
  BY <1>2 DEF InUse, Fits
<1> QED
  BY <1>1, <1>3, <1>4 DEF PoolInv

LEMMA PoolNext ==
  ASSUME PoolInv, Pool!Next
  PROVE  PoolInv'
<1>1. ASSUME NEW r \in Requests,
             \/ Pool!NewMessage(r) \/ Pool!SendMessage(r) \/ Pool!SendFails(r)
             \/ Pool!TakeResponse(r) \/ Pool!UseResponse(r) \/ Pool!GiveUp(r)
             \/ Pool!Collect(r)
      PROVE  PoolInv'
  BY <1>1, KeepsNewMessage, KeepsSendMessage, KeepsHandBack, KeepsTakeResponse,
     KeepsGiveUp, KeepsCollect
<1>2. \/ \E r \in Requests :
           \/ Pool!NewMessage(r) \/ Pool!SendMessage(r) \/ Pool!SendFails(r)
           \/ Pool!TakeResponse(r) \/ Pool!UseResponse(r) \/ Pool!GiveUp(r)
           \/ Pool!Collect(r)
      \/ Pool!WriterTakes \/ Pool!WriterWrites \/ Pool!WriterReleases
      \/ Pool!Deserialize \/ Pool!Discard \/ Pool!Clone \/ Pool!Forward
  BY DEF Pool!Next
<1> QED
  BY <1>1, <1>2, KeepsWriterTakes, KeepsWriterWrites, KeepsWriterReleases,
     KeepsDeserialize, KeepsDiscard, KeepsClone, KeepsForward

LEMMA PoolStutter ==
  ASSUME PoolInv, UNCHANGED poolVars
  PROVE  PoolInv'
<1>0. OnePlace /\ Pool!TypeOK /\ Holders /\ OnceQueued /\ InUse /\ NoMixUp
  BY DEF PoolInv
<1> USE DEF poolVars
<1>1. OnePlace' /\ InUse' /\ OnceQueued'
  BY <1>0, StaysInPlace
<1>2. Pool!TypeOK'
  BY <1>0 DEF Pool!TypeOK
<1>3. Holders' /\ NoMixUp'
  BY <1>0 DEF Holders, NoMixUp, Pool!NoMixUp
<1> QED
  BY <1>1, <1>2, <1>3 DEF PoolInv

(* Every behaviour of the parts keeps the invariant of the message objects *)
(* (message.go:93-111, server.go:471-475, 498, 519).                       *)
THEOREM PoolInductive == PartsSpec => []PoolInv
<1>1. PartsInit => PoolInv
  BY PoolInit DEF PartsInit
<1>2. PoolInv /\ [PartsNext]_partsVars => PoolInv'
  BY PoolNext, PoolStutter DEF PartsNext, partsVars, poolVars
<1> QED
  BY <1>1, <1>2, PTL DEF PartsSpec

(* No handler reads another call's message, and writePump writes requests  *)
(* that are whole, for any number of calls, objects, and channel slots     *)
(* (message.go:93-111, 254-265).                                           *)
THEOREM NothingMixedUp == PartsSpec => []NoMixUp
<1>1. PoolInv => NoMixUp
  BY DEF PoolInv
<1> QED
  BY <1>1, PoolInductive, PTL

(* The cardinalities that MessagePool counts are those of FiniteSets.      *)
LEMMA PoolCardinality ==
  ASSUME NEW S
  PROVE  Pool!Cardinality(S) = Cardinality(S)
  BY DEF Pool!Cardinality, Cardinality

(* A pointer to an object says where the object is.                        *)
LEMMA PointerPlaces ==
  ASSUME NEW o \in Objects
  PROVE  \A p : p \in Pool!Pointers(o)
                  <=> \/ \E r \in Requests : own[r] = o /\ p = <<"handler", r>>
                      \/ \E i \in DOMAIN sendChan : sendChan[i] = o /\ p = <<"sendChan", i>>
                      \/ \E r \in Requests : \E i \in DOMAIN respChan[r] :
                           respChan[r][i] = o /\ p = <<"respChan", r, i>>
                      \/ writer = o /\ p = <<"writer", writer>>
                      \/ reader = o /\ p = <<"reader", reader>>
                      \/ clone = o /\ p = <<"clone", clone>>
<1>1. ASSUME NEW p
      PROVE  p \in {x \in {<<"writer", writer>>, <<"reader", reader>>, <<"clone", clone>>} :
                      x[2] = o}
               <=> \/ writer = o /\ p = <<"writer", writer>>
                   \/ reader = o /\ p = <<"reader", reader>>
                   \/ clone = o /\ p = <<"clone", clone>>
  OBVIOUS
<1>2. ASSUME NEW p
      PROVE  p \in UNION {{<<"respChan", r, i>> : i \in {j \in DOMAIN respChan[r] :
                                                           respChan[r][j] = o}}
                           : r \in Requests}
               <=> \E r \in Requests : \E i \in DOMAIN respChan[r] :
                     respChan[r][i] = o /\ p = <<"respChan", r, i>>
  OBVIOUS
<1>3. ASSUME NEW p
      PROVE  p \in {<<"handler", r>> : r \in {q \in Requests : own[q] = o}}
               <=> \E r \in Requests : own[r] = o /\ p = <<"handler", r>>
  OBVIOUS
<1>4. ASSUME NEW p
      PROVE  p \in {<<"sendChan", i>> : i \in {j \in DOMAIN sendChan : sendChan[j] = o}}
               <=> \E i \in DOMAIN sendChan : sendChan[i] = o /\ p = <<"sendChan", i>>
  OBVIOUS
<1> DEFINE OfHandlers == {<<"handler", r>> : r \in {q \in Requests : own[q] = o}}
           OfQueue == {<<"sendChan", i>> : i \in {j \in DOMAIN sendChan : sendChan[j] = o}}
           OfCalls == UNION {{<<"respChan", r, i>> : i \in {j \in DOMAIN respChan[r] :
                                                             respChan[r][j] = o}}
                              : r \in Requests}
           OfPumps == {x \in {<<"writer", writer>>, <<"reader", reader>>, <<"clone", clone>>} :
                         x[2] = o}
<1>5. Pool!Pointers(o) = OfHandlers \cup OfQueue \cup OfCalls \cup OfPumps
  BY DEF Pool!Pointers
<1> HIDE DEF OfHandlers, OfQueue, OfCalls, OfPumps
<1>6. \A p : p \in Pool!Pointers(o)
               <=> p \in OfHandlers \/ p \in OfQueue \/ p \in OfCalls \/ p \in OfPumps
  BY <1>5
<1> QED
  BY <1>1, <1>2, <1>3, <1>4, <1>6 DEF OfHandlers, OfQueue, OfCalls, OfPumps

(* An object is in the pool or somebody's own, for any number of calls,    *)
(* objects, and channel slots: it is never released twice, and never used  *)
(* after its release (message.go:93-111, server.go:471-475, 498, 519).     *)
THEOREM OneOwner == PartsSpec => []SoleOwner
<1>1. ASSUME PoolInv, NEW o \in Objects
      PROVE  Cardinality(Pool!Pointers(o)) = IF o \in pool THEN 0 ELSE 1
  <2>0. OnePlace /\ OnceQueued /\ Pool!TypeOK
    BY <1>1 DEF PoolInv
  <2>1. PICK k \in PoolPlaces, r \in Callers : Sits(k, r, o)
    BY <2>0, OnePlaceSits
  <2>2. o \in pool <=> k = "pool"
    <3>1. "pool" \in PoolPlaces /\ Nobody \in Callers
      BY DEF PoolPlaces, Callers
    <3>2. At(k, r, o) /\ (At("pool", Nobody, o) => k = "pool")
      BY <2>1, <3>1 DEF Sits
    <3> QED
      BY <3>2 DEF At
  <2>3. ASSUME NEW p \in Pool!Pointers(o)
        PROVE  \/ k = "handler" /\ p = <<"handler", r>>
               \/ k = "sendChan" /\ \E i \in DOMAIN sendChan :
                    sendChan[i] = o /\ p = <<"sendChan", i>>
               \/ k = "respChan" /\ r \in Requests /\ \E i \in DOMAIN respChan[r] :
                    respChan[r][i] = o /\ p = <<"respChan", r, i>>
               \/ k \in {"writer", "reader", "clone"} /\ p = <<k, o>>
    <3>1. \A l \in PoolPlaces, q \in Callers : At(l, q, o) => l = k /\ q = r
      BY <2>1 DEF Sits
    <3>2. /\ \A l \in {"handler", "respChan"}, q \in Requests :
               At(l, q, o) => l = k /\ q = r
          /\ \A l \in {"sendChan", "writer", "reader", "clone"} :
               At(l, Nobody, o) => l = k
      BY <3>1 DEF PoolPlaces, Callers
    <3>3. CASE \E q \in Requests : own[q] = o /\ p = <<"handler", q>>
      BY <3>2, <3>3 DEF At
    <3>4. CASE \E i \in DOMAIN sendChan : sendChan[i] = o /\ p = <<"sendChan", i>>
      BY <3>2, <3>4 DEF At
    <3>5. CASE \E q \in Requests : \E i \in DOMAIN respChan[q] :
                 respChan[q][i] = o /\ p = <<"respChan", q, i>>
      BY <3>2, <3>5 DEF At
    <3>6. CASE \/ writer = o /\ p = <<"writer", writer>>
               \/ reader = o /\ p = <<"reader", reader>>
               \/ clone = o /\ p = <<"clone", clone>>
      BY <3>2, <3>6 DEF At
    <3> QED
      BY <3>3, <3>4, <3>5, <3>6, PointerPlaces
  <2>4. CASE k = "pool"
    <3>1. Pool!Pointers(o) = {}
      BY <2>3, <2>4
    <3> QED
      BY <2>2, <2>4, <3>1, FS_EmptySet
  <2>5. CASE k # "pool"
    <3>1. At(k, r, o)
      BY <2>1 DEF Sits
    <3>2. \E p : p \in Pool!Pointers(o)
      <4>1. k = "handler" => \E p : p \in Pool!Pointers(o)
        BY <3>1, PointerPlaces DEF At
      <4>2. k = "sendChan" => \E p : p \in Pool!Pointers(o)
        BY <3>1, PointerPlaces DEF At
      <4>3. k = "respChan" => \E p : p \in Pool!Pointers(o)
        <5>1. SUFFICES ASSUME k = "respChan"
                       PROVE  \E p : p \in Pool!Pointers(o)
          OBVIOUS
        <5>2. PICK i \in DOMAIN respChan[r] : r \in Requests /\ respChan[r][i] = o
          BY <3>1, <5>1 DEF At
        <5>3. <<"respChan", r, i>> \in Pool!Pointers(o)
          BY <5>2, PointerPlaces
        <5> QED
          BY <5>3
      <4>4. k \in {"writer", "reader", "clone"} => \E p : p \in Pool!Pointers(o)
        BY <3>1, PointerPlaces DEF At
      <4> QED
        BY <2>5, <4>1, <4>2, <4>3, <4>4 DEF PoolPlaces
    <3>3. \A p, s \in Pool!Pointers(o) : p = s
      BY <2>0, <2>3 DEF OnceQueued
    <3>4. PICK p : Pool!Pointers(o) = {p}
      BY <3>2, <3>3
    <3> QED
      BY <2>2, <2>5, <3>4, FS_Singleton
  <2> QED
    BY <2>4, <2>5
<1>2. PoolInv => SoleOwner
  BY <1>1, PoolCardinality DEF SoleOwner, Pool!SoleOwner
<1> QED
  BY <1>2, PoolInductive, PTL

-----------------------------------------------------------------------------
(* The start of a process: the inductive invariant                         *)

Pairs == Start!AllValues \cup (Start!Settings \X {"garbage"})

(* What each source holds, and the last of them over those before it.      *)
FromFile == Start!Override(Start!DefaultConfig, found["file"])
FromEnv == Start!Override(FromFile, found["env"])

(* The file cannot be read, and the defaults stand for it.                 *)
Defaulted == file \in {"missing", "broken"}

(* What has been looked at by each stage, and what has become of it.       *)
LoadedSoFar ==
  /\ stage = "new" => found["file"] = {} /\ cfg = Start!DefaultConfig
  /\ stage \in {"new", "read", "fallback"} => found["env"] = {}
  /\ stage \in {"new", "read", "fallback", "loaded"} => found["flag"] = {}
  /\ stage = "read" => file \in {"none", "good"} /\ cfg = FromFile
  /\ stage = "fallback" => Defaulted
  /\ stage = "loaded" => cfg = IF Defaulted THEN Start!DefaultConfig ELSE FromEnv
  /\ Start!Loaded =>
       cfg = Start!Override(IF Defaulted THEN Start!DefaultConfig ELSE FromEnv,
                            found["flag"])

(* Who runs was valid.                                                     *)
ValidSoFar ==
  /\ stage \in {"valid", "running", "panicked"} => Start!Valid
  /\ stage = "running" => ~(mode = "client" /\ cfg["addr"] = "malformed")
  /\ stage = "running" => cfg["max"] # "negative"
  /\ stage = "panicked" => cfg["max"] = "negative"

StartTyped ==
  /\ stage \in Start!Stages /\ mode \in Start!Modes
  /\ path \in {"none", "flag", "env"}
  /\ file \in {"none", "good", "missing", "broken"}
  /\ found \in [Start!Sources -> SUBSET Pairs]
  /\ \A s \in Start!Settings : cfg[s] \in Start!Values(s)

StartInv == StartTyped /\ LoadedSoFar /\ ValidSoFar

-----------------------------------------------------------------------------
(* The start of a process: lemmas                                          *)

(* A setting is replaced by a value that the source holds, if it holds one.*)
LEMMA Overridden ==
  ASSUME NEW c, NEW f, NEW s \in Start!Settings
  PROVE  IF \E v \in Start!Values(s) : <<s, v>> \in f
           THEN /\ Start!Override(c, f)[s] \in Start!Values(s)
                /\ <<s, Start!Override(c, f)[s]>> \in f
           ELSE Start!Override(c, f)[s] = c[s]
<1>1. Start!Override(c, f)[s]
        = IF \E v \in Start!Values(s) : <<s, v>> \in f
            THEN CHOOSE v \in Start!Values(s) : <<s, v>> \in f
            ELSE c[s]
  BY DEF Start!Override
<1> QED
  BY <1>1

LEMMA OverrideTyped ==
  ASSUME NEW c, NEW f, \A s \in Start!Settings : c[s] \in Start!Values(s)
  PROVE  \A s \in Start!Settings : Start!Override(c, f)[s] \in Start!Values(s)
<1>1. ASSUME NEW s \in Start!Settings
      PROVE  Start!Override(c, f)[s] \in Start!Values(s)
  <2>1. c[s] \in Start!Values(s)
    OBVIOUS
  <2>2. CASE \E v \in Start!Values(s) : <<s, v>> \in f
    BY <2>2, Overridden
  <2>3. CASE ~\E v \in Start!Values(s) : <<s, v>> \in f
    <3>1. Start!Override(c, f)[s] = c[s]
      BY <2>3, Overridden
    <3> QED
      BY <2>1, <3>1
  <2> QED
    BY <2>2, <2>3
<1> QED
  BY <1>1

LEMMA DefaultTyped ==
  \A s \in Start!Settings : Start!DefaultConfig[s] \in Start!Values(s)
  BY DEF Start!Settings, Start!DefaultConfig, Start!Values

(* A source that holds nothing changes nothing.                            *)
LEMMA NothingFound ==
  Start!Override(Start!DefaultConfig, {}) = Start!DefaultConfig
  BY DEF Start!Override, Start!DefaultConfig

LEMMA Found ==
  ASSUME NEW o \in Start!Sources, NEW M \in SUBSET Pairs,
         found \in [Start!Sources -> SUBSET Pairs], Start!Finds(o, M)
  PROVE  /\ found' \in [Start!Sources -> SUBSET Pairs]
         /\ \A p \in Start!Sources : p # o => found'[p] = found[p]
<1>1. PICK f \in SUBSET M : found' = [found EXCEPT ![o] = f]
  BY DEF Start!Finds, Start!kSubset
<1> QED
  BY <1>1

-----------------------------------------------------------------------------
(* The start of a process: the theorems                                    *)

LEMMA StartInit ==
  ASSUME Start!Init
  PROVE  StartInv
  BY DefaultTyped
  DEF Start!Init, StartInv, StartTyped, LoadedSoFar, ValidSoFar, Start!Stages, Start!Modes,
      Start!Sources, Start!Loaded, Pairs

LEMMA StartLoad ==
  ASSUME StartInv, Start!Load
  PROVE  StartInv'
<1>0. StartTyped /\ LoadedSoFar
  BY DEF StartInv
<1>1. stage = "new" /\ mode' \in Start!Modes
  BY DEF Start!Load
<1>2. found["file"] = {} /\ found["env"] = {} /\ found["flag"] = {} /\ cfg = Start!DefaultConfig
  BY <1>0, <1>1 DEF LoadedSoFar
<1>3. CASE /\ path' = "none" /\ file' = "none" /\ stage' = "read"
           /\ UNCHANGED <<found, cfg>>
  <2>1. FromFile' = Start!DefaultConfig
    BY <1>2, <1>3, NothingFound DEF FromFile
  <2> QED
    BY <1>0, <1>1, <1>2, <1>3, <2>1
    DEF StartInv, StartTyped, LoadedSoFar, ValidSoFar, Start!Stages, Start!Loaded
<1>4. CASE /\ path' \in {"flag", "env"} /\ file' = "good" /\ stage' = "read"
           /\ Start!Finds("file", Start!AllValues)
           /\ cfg' = Start!Override(cfg, found'["file"])
  <2>1. /\ found' \in [Start!Sources -> SUBSET Pairs]
        /\ found'["env"] = {} /\ found'["flag"] = {}
    <3>1. "file" \in Start!Sources /\ "env" \in Start!Sources /\ "flag" \in Start!Sources
      BY DEF Start!Sources
    <3>2. Start!AllValues \in SUBSET Pairs
      BY DEF Pairs
    <3> QED
      BY <1>0, <1>2, <1>4, <3>1, <3>2, Found DEF StartTyped
  <2>2. \A s \in Start!Settings : cfg'[s] \in Start!Values(s)
    BY <1>0, <1>4, OverrideTyped DEF StartTyped
  <2>3. cfg' = FromFile'
    BY <1>2, <1>4 DEF FromFile
  <2> QED
    BY <1>1, <1>4, <2>1, <2>2, <2>3
    DEF StartInv, StartTyped, LoadedSoFar, ValidSoFar, Start!Stages, Start!Loaded
<1>5. CASE /\ path' \in {"flag", "env"} /\ file' \in {"missing", "broken"}
           /\ stage' = "fallback"
           /\ UNCHANGED <<found, cfg>>
  BY <1>0, <1>1, <1>2, <1>5
  DEF StartInv, StartTyped, LoadedSoFar, ValidSoFar, Start!Stages, Start!Loaded, Defaulted
<1> QED
  BY <1>3, <1>4, <1>5 DEF Start!Load

LEMMA StartLoadFromEnv ==
  ASSUME StartInv, Start!LoadFromEnv
  PROVE  StartInv'
<1>0. StartTyped /\ LoadedSoFar
  BY DEF StartInv
<1>1. /\ stage = "read" /\ stage' = "loaded" /\ UNCHANGED <<mode, path, file>>
      /\ Start!Finds("env", Start!EnvMayHold)
      /\ cfg' = Start!Override(cfg, found'["env"])
  BY DEF Start!LoadFromEnv
<1>2. /\ found' \in [Start!Sources -> SUBSET Pairs]
      /\ found'["file"] = found["file"] /\ found'["flag"] = found["flag"]
  <2>1. "file" \in Start!Sources /\ "env" \in Start!Sources /\ "flag" \in Start!Sources
    BY DEF Start!Sources
  <2>2. Start!EnvMayHold \in SUBSET Pairs
    BY DEF Pairs, Start!EnvMayHold, Start!Settings
  <2> QED
    BY <1>0, <1>1, <2>1, <2>2, Found DEF StartTyped
<1>3. \A s \in Start!Settings : cfg'[s] \in Start!Values(s)
  BY <1>0, <1>1, OverrideTyped DEF StartTyped
<1>4. cfg = FromFile /\ file \in {"none", "good"} /\ found["flag"] = {}
  BY <1>0, <1>1 DEF LoadedSoFar
<1>5. cfg' = FromEnv' /\ ~Defaulted'
  BY <1>1, <1>2, <1>4 DEF FromEnv, FromFile, Defaulted
<1> QED
  BY <1>0, <1>1, <1>2, <1>3, <1>4, <1>5
  DEF StartInv, StartTyped, LoadedSoFar, ValidSoFar, Start!Stages, Start!Loaded

LEMMA StartFallBack ==
  ASSUME StartInv, Start!FallBack
  PROVE  StartInv'
<1>0. StartTyped /\ LoadedSoFar
  BY DEF StartInv
<1>1. stage = "fallback" /\ UNCHANGED <<mode, path, file>>
  BY DEF Start!FallBack
<1>2. Defaulted /\ Defaulted' /\ found["flag"] = {}
  BY <1>0, <1>1 DEF LoadedSoFar, Defaulted
<1>3. CASE /\ stage' = "loaded"
           /\ Start!Finds("env", Start!EnvMayHold)
           /\ cfg' = Start!DefaultConfig
  <2>1. found' \in [Start!Sources -> SUBSET Pairs] /\ found'["flag"] = {}
    <3>1. "env" \in Start!Sources /\ "flag" \in Start!Sources
      BY DEF Start!Sources
    <3>2. Start!EnvMayHold \in SUBSET Pairs
      BY DEF Pairs, Start!EnvMayHold, Start!Settings
    <3> QED
      BY <1>0, <1>2, <1>3, <3>1, <3>2, Found DEF StartTyped
  <2> QED
    BY <1>0, <1>1, <1>2, <1>3, <2>1, DefaultTyped
    DEF StartInv, StartTyped, LoadedSoFar, ValidSoFar, Start!Stages, Start!Loaded
<1>4. CASE stage' = "noConfig" /\ UNCHANGED <<found, cfg>>
  BY <1>0, <1>1, <1>2, <1>4
  DEF StartInv, StartTyped, LoadedSoFar, ValidSoFar, Start!Stages, Start!Loaded
<1> QED
  BY <1>3, <1>4 DEF Start!FallBack

LEMMA StartApplyFlags ==
  ASSUME StartInv, Start!ApplyFlags
  PROVE  StartInv'
<1>0. StartTyped /\ LoadedSoFar
  BY DEF StartInv
<1>1. /\ stage = "loaded" /\ stage' = "flagged" /\ UNCHANGED <<mode, path, file>>
      /\ Start!Finds("flag", Start!FlagMayHold)
      /\ cfg' = Start!Override(cfg, found'["flag"])
  BY DEF Start!ApplyFlags
<1>2. /\ found' \in [Start!Sources -> SUBSET Pairs]
      /\ found'["file"] = found["file"] /\ found'["env"] = found["env"]
  <2>1. "file" \in Start!Sources /\ "env" \in Start!Sources /\ "flag" \in Start!Sources
    BY DEF Start!Sources
  <2>2. Start!FlagMayHold \in SUBSET Pairs
    BY DEF Pairs, Start!FlagMayHold
  <2> QED
    BY <1>0, <1>1, <2>1, <2>2, Found DEF StartTyped
<1>3. \A s \in Start!Settings : cfg'[s] \in Start!Values(s)
  BY <1>0, <1>1, OverrideTyped DEF StartTyped
<1>4. cfg = IF Defaulted THEN Start!DefaultConfig ELSE FromEnv
  BY <1>0, <1>1 DEF LoadedSoFar
<1>5. FromEnv' = FromEnv /\ (Defaulted' <=> Defaulted)
  BY <1>1, <1>2 DEF FromEnv, FromFile, Defaulted
<1>6. cfg' = Start!Override(IF Defaulted' THEN Start!DefaultConfig ELSE FromEnv',
                            found'["flag"])
  BY <1>1, <1>4, <1>5
<1> QED
  BY <1>0, <1>1, <1>2, <1>3, <1>4, <1>6
  DEF StartInv, StartTyped, LoadedSoFar, ValidSoFar, Start!Stages, Start!Loaded

(* The steps after the flags change nothing but the stage.                 *)
LEMMA StartDecides ==
  ASSUME StartInv, Start!Validate \/ Start!Run
  PROVE  StartInv'
<1>0. StartTyped /\ LoadedSoFar /\ ValidSoFar
  BY DEF StartInv
<1>1. UNCHANGED <<mode, found, path, file, cfg>>
  BY DEF Start!Validate, Start!Run
<1>2. stage \in {"flagged", "valid"}
      /\ stage' \in {"valid", "rejected", "failed", "panicked", "running"}
  BY DEF Start!Validate, Start!Run
<1>3. StartTyped'
  BY <1>0, <1>1, <1>2 DEF StartTyped, Start!Stages
<1>4. LoadedSoFar'
  <2>1. cfg = Start!Override(IF Defaulted THEN Start!DefaultConfig ELSE FromEnv,
                             found["flag"])
    BY <1>0, <1>2 DEF LoadedSoFar, Start!Loaded
  <2>2. FromEnv' = FromEnv /\ (Defaulted' <=> Defaulted)
    BY <1>1 DEF FromEnv, FromFile, Defaulted
  <2> QED
    BY <1>1, <1>2, <2>1, <2>2 DEF LoadedSoFar
<1>5. ValidSoFar'
  <2>1. Start!Valid' <=> Start!Valid
    BY <1>1 DEF Start!Valid
  <2>2. CASE Start!Validate
    BY <2>1, <2>2 DEF Start!Validate, ValidSoFar
  <2>3. CASE Start!Run
    BY <1>0, <1>1, <2>1, <2>3 DEF Start!Run, ValidSoFar
  <2> QED
    BY <2>2, <2>3
<1> QED
  BY <1>3, <1>4, <1>5 DEF StartInv

LEMMA StartStutter ==
  ASSUME StartInv, UNCHANGED startVars
  PROVE  StartInv'
<1>0. StartTyped /\ LoadedSoFar /\ ValidSoFar
  BY DEF StartInv
<1> USE DEF startVars
<1>1. StartTyped'
  BY <1>0 DEF StartTyped
<1>2. LoadedSoFar'
  BY <1>0 DEF LoadedSoFar, FromEnv, FromFile, Defaulted, Start!Loaded
<1>3. ValidSoFar'
  BY <1>0 DEF ValidSoFar, Start!Valid
<1> QED
  BY <1>1, <1>2, <1>3 DEF StartInv

(* Every behaviour of the parts keeps the invariant of the start           *)
(* (config.go:92-222, main.go:78-93, 163-178, 280-290).                    *)
THEOREM StartInductive == PartsSpec => []StartInv
<1>1. PartsInit => StartInv
  BY StartInit DEF PartsInit
<1>2. ASSUME StartInv, Start!Next
      PROVE  StartInv'
  <2>1. CASE UNCHANGED Start!vars
    BY <1>2, <2>1, StartStutter DEF Start!vars, startVars
  <2> QED
    BY <1>2, <2>1, StartLoad, StartLoadFromEnv, StartFallBack, StartApplyFlags, StartDecides
    DEF Start!Next
<1>3. StartInv /\ [PartsNext]_partsVars => StartInv'
  BY <1>2, StartStutter DEF PartsNext, partsVars, startVars
<1> QED
  BY <1>1, <1>3, PTL DEF PartsSpec

(* A process that runs has the settings that the models of the processes   *)
(* assume, and one with a negative number of slots panics (config.go:      *)
(* 177-222).                                                               *)
THEOREM OnlyValidRun == PartsSpec => []RunsAsAssumed
<1>1. StartInv => RunsAsAssumed
  <2>1. SUFFICES ASSUME StartInv
                 PROVE  RunsAsAssumed
    OBVIOUS
  <2>2. mode \in Start!Modes /\ cfg["addr"] \in {"empty", "malformed", "given"} /\ ValidSoFar
    BY <2>1 DEF StartInv, StartTyped, Start!Settings, Start!Values
  <2> QED
    BY <2>2 DEF ValidSoFar, Start!Valid, RunsAsAssumed, Start!RunsAsAssumed
<1> QED
  BY <1>1, StartInductive, PTL

(* The setting s is what the source f holds, or else what it was in d.     *)
Won(s, c, f, d) ==
  IF \E v \in Start!Values(s) : <<s, v>> \in f THEN <<s, c[s]>> \in f ELSE c[s] = d[s]

LEMMA OverrideWon ==
  ASSUME NEW c, NEW f, NEW s \in Start!Settings
  PROVE  Won(s, Start!Override(c, f), f, c)
  BY Overridden DEF Won

(* Of default, file, environment and flag the last wins, whatever each of  *)
(* them holds and however much, in a process that needs no file or has     *)
(* read it (config.go:92-163, main.go:78-93, 163-178, 280-290).            *)
THEOREM LastSourceWins == PartsSpec => []Precedence
<1> DEFINE order == <<"flag", "env", "file">>
           sets(o, s) == \E v \in Start!Values(s) : <<s, v>> \in found[o]
<1>1. ASSUME StartInv, Start!Loaded, file \in {"none", "good"}, NEW s \in Start!Settings
      PROVE  IF \E i \in DOMAIN order : sets(order[i], s)
               THEN \E i \in DOMAIN order :
                      /\ <<s, cfg[s]>> \in found[order[i]]
                      /\ \A j \in 1 .. (i - 1) : ~sets(order[j], s)
               ELSE cfg[s] = Start!DefaultConfig[s]
  <2>1. /\ FromFile = Start!Override(Start!DefaultConfig, found["file"])
        /\ FromEnv = Start!Override(FromFile, found["env"])
        /\ cfg = Start!Override(FromEnv, found["flag"])
    BY <1>1 DEF StartInv, LoadedSoFar, Defaulted, FromEnv, FromFile
  <2>2. IF sets("flag", s) THEN <<s, cfg[s]>> \in found["flag"]
        ELSE IF sets("env", s) THEN <<s, cfg[s]>> \in found["env"]
        ELSE IF sets("file", s) THEN <<s, cfg[s]>> \in found["file"]
        ELSE cfg[s] = Start!DefaultConfig[s]
    <3>1. /\ Won(s, FromFile, found["file"], Start!DefaultConfig)
          /\ Won(s, FromEnv, found["env"], FromFile)
          /\ Won(s, cfg, found["flag"], FromEnv)
      BY <2>1, OverrideWon
    <3> QED
      BY <3>1 DEF Won
  <2>3. /\ DOMAIN order = {1, 2, 3}
        /\ order[1] = "flag" /\ order[2] = "env" /\ order[3] = "file"
    OBVIOUS
  <2> HIDE DEF order, sets
  <2>4. CASE sets("flag", s)
    BY <2>2, <2>3, <2>4
  <2>5. CASE ~sets("flag", s) /\ sets("env", s)
    <3>1. <<s, cfg[s]>> \in found[order[2]] /\ \A j \in 1 .. (2 - 1) : ~sets(order[j], s)
      BY <2>2, <2>3, <2>5
    <3> QED
      BY <2>3, <2>5, <3>1
  <2>6. CASE ~sets("flag", s) /\ ~sets("env", s) /\ sets("file", s)
    <3>1. <<s, cfg[s]>> \in found[order[3]] /\ \A j \in 1 .. (3 - 1) : ~sets(order[j], s)
      BY <2>2, <2>3, <2>6
    <3> QED
      BY <2>3, <2>6, <3>1
  <2>7. CASE ~sets("flag", s) /\ ~sets("env", s) /\ ~sets("file", s)
    BY <2>2, <2>3, <2>7
  <2> QED
    BY <2>4, <2>5, <2>6, <2>7
<1>3. StartInv => Precedence
  BY <1>1 DEF Precedence, Start!Precedence, Start!LastWins
<1> QED
  BY <1>3, StartInductive, PTL

-----------------------------------------------------------------------------
(* Streams: what FlattenSeq computes                                       *)

(* Induction over the naturals, for a set.                                 *)
LEMMA NatInd ==
  ASSUME NEW T, 0 \in T, \A n \in Nat : n \in T => n + 1 \in T
  PROVE  \A n \in Nat : n \in T
<1>1. SUFFICES ASSUME NEW m \in Nat, m \notin T
               PROVE  FALSE
  OBVIOUS
<1>2. PICK U : U = Nat \ T
  OBVIOUS
<1>3. U \subseteq Nat /\ U # {}
  BY <1>1, <1>2
<1>4. PICK R : R = OpToRel(<, Nat)
  OBVIOUS
<1>5. PICK x \in U : \A y \in U : <<y, x>> \notin R
  BY <1>3, <1>4, NatLessThanWellFounded, WFMin
<1>6. x # 0 /\ x \in Nat
  BY <1>2, <1>5
<1>7. x - 1 \in Nat /\ (x - 1) + 1 = x /\ x - 1 < x
  BY <1>6
<1>8. <<x - 1, x>> \in R
  BY <1>4, <1>6, <1>7 DEF OpToRel
<1>9. x - 1 \in T
  BY <1>2, <1>5, <1>7, <1>8
<1> QED
  BY <1>2, <1>5, <1>7, <1>9

(* The concatenations of up to n of the first parts of s.                  *)
Gathers(g, s, n) ==
  \A i \in 1 .. n : g[i] = IF i = 1 THEN s[i] ELSE g[i - 1] \o s[i]

LEMMA GathersExists ==
  ASSUME NEW S, NEW s \in Seq(Seq(S))
  PROVE  \E g \in [1 .. Len(s) -> Seq(S)] : Gathers(g, s, Len(s))
<1> DEFINE T == {n \in Nat : n <= Len(s) => \E g \in [1 .. n -> Seq(S)] : Gathers(g, s, n)}
<1>1. Len(s) \in Nat /\ \A i \in 1 .. Len(s) : s[i] \in Seq(S)
  OBVIOUS
<1>2. 0 \in T
  <2>1. [i \in 1 .. 0 |-> <<>>] \in [1 .. 0 -> Seq(S)]
    OBVIOUS
  <2>2. Gathers([i \in 1 .. 0 |-> <<>>], s, 0)
    BY DEF Gathers
  <2> QED
    BY <2>1, <2>2
<1>3. ASSUME NEW n \in Nat, n \in T
      PROVE  n + 1 \in T
  <2>1. SUFFICES ASSUME n + 1 <= Len(s)
                 PROVE  \E g \in [1 .. n + 1 -> Seq(S)] : Gathers(g, s, n + 1)
    OBVIOUS
  <2>2. PICK g \in [1 .. n -> Seq(S)] : Gathers(g, s, n)
    BY <1>1, <1>3, <2>1
  <2> HIDE DEF T
  <2>3. PICK e : e = IF n = 0 THEN s[n + 1] ELSE g[n] \o s[n + 1]
    OBVIOUS
  <2>4. e \in Seq(S)
    <3>1. s[n + 1] \in Seq(S)
      BY <1>1, <2>1
    <3>2. n # 0 => g[n] \in Seq(S)
      BY <2>2
    <3> QED
      BY <2>3, <3>1, <3>2
  <2>5. PICK h : h = [i \in 1 .. n + 1 |-> IF i = n + 1 THEN e ELSE g[i]]
    OBVIOUS
  <2>6. h \in [1 .. n + 1 -> Seq(S)]
    BY <2>4, <2>5
  <2>7. h[n + 1] = e /\ \A i \in 1 .. n : h[i] = g[i]
    BY <2>5
  <2>8. ASSUME NEW i \in 1 .. n + 1
        PROVE  h[i] = IF i = 1 THEN s[i] ELSE h[i - 1] \o s[i]
    <3>1. CASE i = n + 1
      <4>1. i # 1 => i - 1 = n /\ n \in 1 .. n
        BY <3>1
      <4>2. i = 1 => n = 0
        BY <3>1
      <4> QED
        BY <2>3, <2>7, <3>1, <4>1, <4>2
    <3>2. CASE i # n + 1
      <4>1. i \in 1 .. n /\ (i # 1 => i - 1 \in 1 .. n)
        BY <3>2
      <4> QED
        BY <2>2, <2>7, <4>1 DEF Gathers
    <3> QED
      BY <3>1, <3>2
  <2>9. Gathers(h, s, n + 1)
    BY <2>8 DEF Gathers
  <2> QED
    BY <2>6, <2>9
<1> HIDE DEF T
<1>4. \A n \in Nat : n \in T
  BY <1>2, <1>3, NatInd
<1>5. Len(s) \in T
  BY <1>1, <1>4
<1> QED
  BY <1>1, <1>5 DEF T

LEMMA FlattenIs ==
  ASSUME NEW S, NEW s \in Seq(Seq(S)), s # <<>>,
         NEW g \in [1 .. Len(s) -> Seq(S)], Gathers(g, s, Len(s))
  PROVE  SSE!FlattenSeq(s) = g[Len(s)]
<1> DEFINE flatten == CHOOSE f : f = [i \in 1 .. Len(s) |->
                                        IF i = 1 THEN s[i] ELSE f[i - 1] \o s[i]]
<1>1. Len(s) \in Nat /\ Len(s) # 0
  OBVIOUS
<1>2. SSE!FlattenSeq(s) = flatten[Len(s)]
  BY <1>1 DEF SSE!FlattenSeq
<1>3. g = [i \in 1 .. Len(s) |-> IF i = 1 THEN s[i] ELSE g[i - 1] \o s[i]]
  BY DEF Gathers
<1>4. flatten = [i \in 1 .. Len(s) |-> IF i = 1 THEN s[i] ELSE flatten[i - 1] \o s[i]]
  BY <1>3
<1>5. \A i \in 1 .. Len(s) : flatten[i] = IF i = 1 THEN s[i] ELSE flatten[i - 1] \o s[i]
  BY <1>4
<1> HIDE DEF flatten
<1> DEFINE T == {n \in Nat : n \in 1 .. Len(s) => flatten[n] = g[n]}
<1>6. 0 \in T
  OBVIOUS
<1>7. ASSUME NEW n \in Nat, n \in T
      PROVE  n + 1 \in T
  <2>1. SUFFICES ASSUME n + 1 \in 1 .. Len(s)
                 PROVE  flatten[n + 1] = g[n + 1]
    OBVIOUS
  <2>2. n # 0 => flatten[n] = g[n] /\ (n + 1) - 1 = n /\ n + 1 # 1
    BY <1>1, <1>7, <2>1
  <2>3. g[n + 1] = IF n + 1 = 1 THEN s[n + 1] ELSE g[(n + 1) - 1] \o s[n + 1]
    BY <2>1 DEF Gathers
  <2>4. flatten[n + 1] = IF n + 1 = 1 THEN s[n + 1] ELSE flatten[(n + 1) - 1] \o s[n + 1]
    BY <1>5, <2>1
  <2> QED
    BY <2>2, <2>3, <2>4
<1> HIDE DEF T
<1>8. \A n \in Nat : n \in T
  BY <1>6, <1>7, NatInd
<1>9. Len(s) \in T /\ Len(s) \in 1 .. Len(s)
  BY <1>1, <1>8
<1> QED
  BY <1>2, <1>9 DEF T

(* The flattening of a sequence with one more part ends with that part.    *)
LEMMA FlattenAppend ==
  ASSUME NEW S, NEW s \in Seq(Seq(S)), NEW e \in Seq(S)
  PROVE  /\ SSE!FlattenSeq(s) \in Seq(S)
         /\ SSE!FlattenSeq(Append(s, e)) = SSE!FlattenSeq(s) \o e
<1>1. PICK t : t = Append(s, e)
  OBVIOUS
<1>2. /\ t \in Seq(Seq(S)) /\ Len(t) = Len(s) + 1 /\ Len(s) \in Nat
      /\ t[Len(s) + 1] = e /\ \A i \in 1 .. Len(s) : t[i] = s[i]
  BY <1>1
<1>3. PICK g \in [1 .. Len(t) -> Seq(S)] : Gathers(g, t, Len(t))
  BY <1>2, GathersExists
<1>4. SSE!FlattenSeq(t) = g[Len(t)]
  BY <1>2, <1>3, FlattenIs
<1>5. g[Len(s) + 1] = IF Len(s) + 1 = 1 THEN e ELSE g[(Len(s) + 1) - 1] \o e
  <2>1. Len(s) + 1 \in 1 .. Len(t)
    BY <1>2
  <2> QED
    BY <1>2, <1>3, <2>1 DEF Gathers
<1>6. CASE s = <<>>
  <2>1. SSE!FlattenSeq(s) = <<>>
    BY <1>6 DEF SSE!FlattenSeq
  <2>2. g[Len(t)] = e
    BY <1>2, <1>5, <1>6
  <2>3. <<>> \o e = e
    OBVIOUS
  <2> QED
    BY <1>1, <1>4, <2>1, <2>2, <2>3
<1>7. CASE s # <<>>
  <2>1. Len(s) # 0 /\ Len(s) \in 1 .. Len(s)
    BY <1>2, <1>7
  <2>2. PICK h : h = [i \in 1 .. Len(s) |-> g[i]]
    OBVIOUS
  <2>3. h \in [1 .. Len(s) -> Seq(S)] /\ \A i \in 1 .. Len(s) : h[i] = g[i]
    BY <1>2, <1>3, <2>2
  <2>4. Gathers(h, s, Len(s))
    <3>1. ASSUME NEW i \in 1 .. Len(s)
          PROVE  h[i] = IF i = 1 THEN s[i] ELSE h[i - 1] \o s[i]
      <4>1. i \in 1 .. Len(t) /\ (i # 1 => i - 1 \in 1 .. Len(s))
        BY <1>2
      <4>2. g[i] = IF i = 1 THEN t[i] ELSE g[i - 1] \o t[i]
        BY <1>3, <4>1 DEF Gathers
      <4> QED
        BY <1>2, <2>3, <4>1, <4>2
    <3> QED
      BY <3>1 DEF Gathers
  <2>5. SSE!FlattenSeq(s) = h[Len(s)]
    BY <1>7, <2>3, <2>4, FlattenIs
  <2>6. h[Len(s)] = g[Len(s)] /\ h[Len(s)] \in Seq(S) /\ (Len(s) + 1) - 1 = Len(s)
    BY <1>2, <2>1, <2>3
  <2> QED
    BY <1>1, <1>2, <1>4, <1>5, <2>1, <2>5, <2>6
<1> QED
  BY <1>6, <1>7

-----------------------------------------------------------------------------
(* Streams: where lines end                                                *)

(* A stretch of s is u if its elements are u's.                            *)
LEMMA Stretch ==
  ASSUME NEW S, NEW s \in Seq(S), NEW u \in Seq(S), NEW m \in Int, NEW n \in Int,
         m >= 1, n <= Len(s), n = m + Len(u) - 1
  PROVE  SubSeq(s, m, n) = u <=> \A i \in 1 .. Len(u) : s[m + i - 1] = u[i]
<1>1. PICK t : t = SubSeq(s, m, n)
  OBVIOUS
<1>2. \A i \in m .. n : s[i] \in S
  OBVIOUS
<1>3. /\ t \in Seq(S) /\ Len(t) = IF m <= n THEN n - m + 1 ELSE 0
      /\ \A i \in 1 .. n - m + 1 : t[i] = s[m + i - 1]
  BY <1>1, <1>2, SubSeqProperties
<1>4. Len(t) = Len(u) /\ Len(u) \in Nat /\ n - m + 1 = Len(u)
  BY <1>3
<1>5. t = u <=> \A i \in 1 .. Len(u) : t[i] = u[i]
  BY <1>3, <1>4, SeqEqual
<1> QED
  BY <1>1, <1>3, <1>4, <1>5

(* The two kinds of empty lines, where they are looked for.                *)
LEMMA Stretches ==
  ASSUME NEW s \in Seq(SSE!Bytes), NEW p \in Int, p <= Len(s)
  PROVE  /\ p >= 2 => (SubSeq(s, p - 1, p) = <<"n", "n">> <=> s[p - 1] = "n" /\ s[p] = "n")
         /\ p >= 4 => (SubSeq(s, p - 3, p) = <<"r", "n", "r", "n">>
                         <=> s[p - 3] = "r" /\ s[p - 2] = "n" /\ s[p - 1] = "r" /\ s[p] = "n")
<1>1. ASSUME p >= 2
      PROVE  SubSeq(s, p - 1, p) = <<"n", "n">> <=> s[p - 1] = "n" /\ s[p] = "n"
  <2>1. PICK u : u = <<"n", "n">>
    OBVIOUS
  <2>2. u \in Seq(SSE!Bytes) /\ Len(u) = 2 /\ u[1] = "n" /\ u[2] = "n"
    BY <2>1 DEF SSE!Bytes
  <2>3. PICK m \in Int : m = p - 1
    OBVIOUS
  <2>4. SubSeq(s, m, p) = u <=> \A i \in 1 .. Len(u) : s[m + i - 1] = u[i]
    BY <1>1, <2>2, <2>3, Stretch
  <2>5. (\A i \in 1 .. 2 : s[m + i - 1] = u[i]) <=> s[p - 1] = "n" /\ s[p] = "n"
    <3>1. m + 1 - 1 = p - 1 /\ m + 2 - 1 = p
      BY <2>3
    <3> QED
      BY <2>2, <3>1
  <2> QED
    BY <2>1, <2>2, <2>3, <2>4, <2>5
<1>2. ASSUME p >= 4
      PROVE  SubSeq(s, p - 3, p) = <<"r", "n", "r", "n">>
               <=> s[p - 3] = "r" /\ s[p - 2] = "n" /\ s[p - 1] = "r" /\ s[p] = "n"
  <2>1. PICK u : u = <<"r", "n", "r", "n">>
    OBVIOUS
  <2>2. /\ u \in Seq(SSE!Bytes) /\ Len(u) = 4
        /\ u[1] = "r" /\ u[2] = "n" /\ u[3] = "r" /\ u[4] = "n"
    BY <2>1 DEF SSE!Bytes
  <2>3. PICK m \in Int : m = p - 3
    OBVIOUS
  <2>4. SubSeq(s, m, p) = u <=> \A i \in 1 .. Len(u) : s[m + i - 1] = u[i]
    <3>1. m >= 1 /\ p = m + Len(u) - 1
      BY <1>2, <2>2, <2>3
    <3> QED
      BY <2>2, <3>1, Stretch
  <2>5. (\A i \in 1 .. 4 : s[m + i - 1] = u[i])
          <=> s[p - 3] = "r" /\ s[p - 2] = "n" /\ s[p - 1] = "r" /\ s[p] = "n"
    <3>1. m + 1 - 1 = p - 3 /\ m + 2 - 1 = p - 2 /\ m + 3 - 1 = p - 1 /\ m + 4 - 1 = p
      BY <2>3
    <3>2. 1 .. 4 = {1, 2, 3, 4}
      OBVIOUS
    <3> QED
      BY <2>2, <3>1, <3>2
  <2> QED
    BY <2>1, <2>2, <2>3, <2>4, <2>5
<1> QED
  BY <1>1, <1>2

(* An empty line of s ends at p, byte by byte.                             *)
LineAt(s, p) ==
  \/ p >= 2 /\ s[p - 1] = "n" /\ s[p] = "n"
  \/ p >= 4 /\ s[p - 3] = "r" /\ s[p - 2] = "n" /\ s[p - 1] = "r" /\ s[p] = "n"

(* What readEvent takes for the end of an event.                           *)
LEMMA EndsEventIs ==
  ASSUME NEW d \in Seq(SSE!Bytes)
  PROVE  SSE!EndsEvent(d) <=> Len(d) >= 4 /\ LineAt(d, Len(d))
<1>1. SUFFICES ASSUME Len(d) >= 4
               PROVE  /\ SSE!IsSuffix(<<"n", "n">>, d)
                           <=> d[Len(d) - 1] = "n" /\ d[Len(d)] = "n"
                      /\ SSE!IsSuffix(<<"r", "n", "r", "n">>, d)
                           <=> /\ d[Len(d) - 3] = "r" /\ d[Len(d) - 2] = "n"
                               /\ d[Len(d) - 1] = "r" /\ d[Len(d)] = "n"
  BY DEF SSE!EndsEvent, LineAt
<1>2. PICK t : t = SSE!Reverse(d)
  OBVIOUS
<1>3. /\ t \in Seq(SSE!Bytes) /\ Len(t) = Len(d)
      /\ t[1] = d[Len(d)] /\ t[2] = d[Len(d) - 1]
      /\ t[3] = d[Len(d) - 2] /\ t[4] = d[Len(d) - 3]
  <2>1. t = [i \in 1 .. Len(d) |-> d[(Len(d) - i) + 1]]
    BY <1>2 DEF SSE!Reverse
  <2>2. \A i \in 1 .. Len(d) : d[(Len(d) - i) + 1] \in SSE!Bytes
    OBVIOUS
  <2>3. t \in Seq(SSE!Bytes) /\ Len(t) = Len(d)
    BY <2>1, <2>2
  <2> QED
    BY <1>1, <2>1, <2>3
<1>4. ASSUME NEW s \in Seq(SSE!Bytes), Len(s) <= 4
      PROVE  SSE!IsPrefix(s, t) <=> \A i \in 1 .. Len(s) : t[i] = s[i]
  <2>1. SubSeq(s, 1, Len(s)) = s
    BY SubSeqFull
  <2>2. PICK m \in Int, n \in Int : m = 1 /\ n = Len(s)
    OBVIOUS
  <2>3. SubSeq(t, m, n) = s <=> \A i \in 1 .. Len(s) : t[m + i - 1] = s[i]
    BY <1>1, <1>3, <1>4, <2>2, Stretch
  <2>4. \A i \in 1 .. Len(s) : m + i - 1 = i
    BY <2>2
  <2> QED
    BY <1>1, <1>3, <1>4, <2>1, <2>2, <2>3, <2>4 DEF SSE!IsPrefix
<1>5. SSE!IsSuffix(<<"n", "n">>, d) <=> t[1] = "n" /\ t[2] = "n"
  <2>1. PICK s : s = SSE!Reverse(<<"n", "n">>)
    OBVIOUS
  <2>2. s = <<"n", "n">>
    BY <2>1 DEF SSE!Reverse
  <2>3. s \in Seq(SSE!Bytes) /\ Len(s) = 2 /\ s[1] = "n" /\ s[2] = "n"
    BY <2>2 DEF SSE!Bytes
  <2>4. SSE!IsPrefix(s, t) <=> \A i \in 1 .. 2 : t[i] = s[i]
    <3>1. Len(s) <= 4 /\ 1 .. Len(s) = 1 .. 2
      BY <2>3
    <3>2. SSE!IsPrefix(s, t) <=> \A i \in 1 .. Len(s) : t[i] = s[i]
      BY <1>4, <2>3, <3>1
    <3> QED
      BY <3>1, <3>2
  <2> QED
    BY <1>2, <2>1, <2>3, <2>4 DEF SSE!IsSuffix
<1>6. SSE!IsSuffix(<<"r", "n", "r", "n">>, d)
        <=> t[4] = "r" /\ t[3] = "n" /\ t[2] = "r" /\ t[1] = "n"
  <2>1. PICK s : s = SSE!Reverse(<<"r", "n", "r", "n">>)
    OBVIOUS
  <2>2. s = <<"n", "r", "n", "r">>
    BY <2>1 DEF SSE!Reverse
  <2>3. /\ s \in Seq(SSE!Bytes) /\ Len(s) = 4
        /\ s[1] = "n" /\ s[2] = "r" /\ s[3] = "n" /\ s[4] = "r"
    BY <2>2 DEF SSE!Bytes
  <2>4. SSE!IsPrefix(s, t) <=> \A i \in {1, 2, 3, 4} : t[i] = s[i]
    <3>1. 1 .. 4 = {1, 2, 3, 4}
      OBVIOUS
    <3>2. SSE!IsPrefix(s, t) <=> \A i \in 1 .. Len(s) : t[i] = s[i]
      <4>1. Len(s) <= 4
        BY <2>3
      <4> QED
        BY <1>4, <2>3, <4>1
    <3> QED
      BY <2>3, <3>1, <3>2
  <2> QED
    BY <1>2, <2>1, <2>3, <2>4 DEF SSE!IsSuffix
<1> QED
  BY <1>3, <1>5, <1>6

(* What follows does not change where the lines before it end ...          *)
LEMMA LineStays ==
  ASSUME NEW S, NEW s \in Seq(S), NEW t \in Seq(S), NEW p \in 0 .. Len(s)
  PROVE  LineAt(s \o t, p) <=> LineAt(s, p)
<1>1. \A i \in 1 .. Len(s) : (s \o t)[i] = s[i]
  OBVIOUS
<1> QED
  BY <1>1 DEF LineAt

(* ... and what precedes four bytes not whether a line ends with them.     *)
LEMMA LineAtEnd ==
  ASSUME NEW S, NEW s \in Seq(S), NEW t \in Seq(S), Len(t) >= 4
  PROVE  LineAt(s \o t, Len(s \o t)) <=> LineAt(t, Len(t))
<1>1. PICK u : u = s \o t
  OBVIOUS
<1>2. Len(u) = Len(s) + Len(t) /\ Len(s) \in Nat /\ Len(t) \in Nat
  BY <1>1
<1>3. \A i \in 1 .. Len(t) : u[Len(s) + i] = t[i]
  BY <1>1
<1>4. /\ Len(s) + Len(t) = Len(u) /\ Len(s) + (Len(t) - 1) = Len(u) - 1
      /\ Len(s) + (Len(t) - 2) = Len(u) - 2 /\ Len(s) + (Len(t) - 3) = Len(u) - 3
      /\ Len(t) \in 1 .. Len(t) /\ Len(t) - 1 \in 1 .. Len(t)
      /\ Len(t) - 2 \in 1 .. Len(t) /\ Len(t) - 3 \in 1 .. Len(t)
  BY <1>2
<1>5. /\ u[Len(u)] = t[Len(t)] /\ u[Len(u) - 1] = t[Len(t) - 1]
      /\ u[Len(u) - 2] = t[Len(t) - 2] /\ u[Len(u) - 3] = t[Len(t) - 3]
  BY <1>3, <1>4
<1>6. LineAt(u, Len(u)) <=> LineAt(t, Len(t))
  BY <1>2, <1>5 DEF LineAt
<1> QED
  BY <1>1, <1>6

-----------------------------------------------------------------------------
(* Streams: the inductive invariant                                        *)

(* The bytes of the first i pieces.                                        *)
Upto(i) == Len(SSE!FlattenSeq(SubSeq(pieces, 1, i)))

(* Piece i ends where an event does, or where it may.                      *)
PieceEnds(i) ==
  \/ SSE!EmptyLine(Upto(i))
  \/ Len(pieces[i]) > MaxPayloadSize
  \/ i = Len(pieces) /\ state \in {"atEOF", "ended"}

(* What is gathered does not end with an event, or would not be gathered.  *)
Gathering == state = "reading" /\ Len(event) >= 4 => ~LineAt(event, Len(event))

StreamInv ==
  /\ SSE!TypeOK
  /\ Accounted
  /\ Gathering
  /\ \A i \in DOMAIN pieces : PieceEnds(i) /\ Upto(i) <= Len(body)

-----------------------------------------------------------------------------
(* Streams: the steps                                                      *)

LEMMA ReadsAre ==
  ASSUME NEW b \in SSE!Reads
  PROVE  b \in Seq(SSE!Bytes) /\ Len(b) <= BufferSize
<1>1. PICK n \in 0 .. BufferSize : b \in [1 .. n -> SSE!Bytes]
  BY DEF SSE!Reads
<1>2. n \in Nat /\ n <= BufferSize
  BY <1>1, PartsAssumption
<1> QED
  BY <1>1, <1>2

(* A piece more does not change the pieces before it.                      *)
LEMMA OnePieceMore ==
  ASSUME pieces \in Seq(Seq(SSE!Bytes)), NEW d \in Seq(SSE!Bytes),
         pieces' = Append(pieces, d), NEW n, n = Len(pieces) + 1
  PROVE  /\ pieces' \in Seq(Seq(SSE!Bytes)) /\ Len(pieces') = n
         /\ DOMAIN pieces' = DOMAIN pieces \cup {n}
         /\ \A i \in DOMAIN pieces : pieces'[i] = pieces[i] /\ Upto(i)' = Upto(i)
         /\ pieces'[n] = d
         /\ Upto(n)' = Len(SSE!FlattenSeq(pieces) \o d)
         /\ SSE!FlattenSeq(pieces)' = SSE!FlattenSeq(pieces) \o d
<1>1. /\ pieces' \in Seq(Seq(SSE!Bytes)) /\ Len(pieces') = n
      /\ Len(pieces) \in Nat /\ n \in Nat
      /\ pieces'[n] = d
      /\ \A i \in DOMAIN pieces : pieces'[i] = pieces[i]
  OBVIOUS
<1>2. DOMAIN pieces' = DOMAIN pieces \cup {n}
  <2>1. DOMAIN pieces' = 1 .. n /\ DOMAIN pieces = 1 .. Len(pieces)
    BY <1>1
  <2> QED
    BY <1>1, <2>1
<1>3. ASSUME NEW i \in DOMAIN pieces
      PROVE  Upto(i)' = Upto(i)
  <2>1. pieces' = pieces \o <<d>>
    BY AppendIsConcat
  <2>2. i \in 1 .. Len(pieces) /\ 1 \in 1 .. Len(pieces)
    BY <1>1
  <2>3. SubSeq(pieces \o <<d>>, 1, i) = SubSeq(pieces, 1, i)
    <3>1. <<d>> \in Seq(Seq(SSE!Bytes))
      OBVIOUS
    <3> QED
      BY <2>2, <3>1, SubSeqOfConcat1
  <2> QED
    BY <2>1, <2>3 DEF Upto
<1>4. SSE!FlattenSeq(pieces') = SSE!FlattenSeq(pieces) \o d
  BY FlattenAppend
<1>5. SubSeq(pieces', 1, n) = pieces'
  BY <1>1, SubSeqFull
<1> QED
  BY <1>1, <1>2, <1>3, <1>4, <1>5 DEF Upto

(* What the body gets more does not change where the old pieces end.       *)
LEMMA OldPieces ==
  ASSUME StreamInv, state = "reading", NEW b \in Seq(SSE!Bytes), body' = body \o b,
         NEW i \in DOMAIN pieces, Upto(i)' = Upto(i), pieces'[i] = pieces[i]
  PROVE  PieceEnds(i)' /\ Upto(i)' <= Len(body')
<1>1. body \in Seq(SSE!Bytes) /\ pieces \in Seq(Seq(SSE!Bytes))
  BY DEF StreamInv, SSE!TypeOK
<1>2. body' \in Seq(SSE!Bytes) /\ Len(body') = Len(body) + Len(b)
      /\ Len(b) \in Nat /\ Len(body) \in Nat
  BY <1>1
<1>3. PICK p \in Nat : p = Upto(i)
  <2>1. SubSeq(pieces, 1, i) \in Seq(Seq(SSE!Bytes))
    BY <1>1
  <2>2. SSE!FlattenSeq(SubSeq(pieces, 1, i)) \in Seq(SSE!Bytes)
    <3>1. <<>> \in Seq(SSE!Bytes)
      OBVIOUS
    <3> QED
      BY <2>1, <3>1, FlattenAppend
  <2> QED
    BY <2>2 DEF Upto
<1>4. PieceEnds(i) /\ p <= Len(body)
  BY <1>3 DEF StreamInv
<1>5. SSE!EmptyLine(p) => SSE!EmptyLine(p)'
  <2>1. SSE!EmptyLine(p) <=> LineAt(body, p)
    BY <1>1, <1>4, Stretches DEF SSE!EmptyLine, LineAt
  <2>2. p \in Int /\ p <= Len(body')
    BY <1>2, <1>4
  <2>3. SSE!EmptyLine(p)' <=> LineAt(body', p)
    BY <1>2, <2>2, Stretches DEF SSE!EmptyLine, LineAt
  <2>4. LineAt(body \o b, p) <=> LineAt(body, p)
    BY <1>1, <1>4, LineStays
  <2> QED
    BY <2>1, <2>3, <2>4
<1>6. SSE!EmptyLine(Upto(i))' <=> SSE!EmptyLine(p)'
  BY <1>3 DEF SSE!EmptyLine
<1>7. PieceEnds(i)'
  BY <1>3, <1>4, <1>5, <1>6 DEF PieceEnds
<1>8. Upto(i)' <= Len(body')
  BY <1>2, <1>3, <1>4
<1> QED
  BY <1>7, <1>8

(* While it reads, what it has read is the pieces and what is gathered.    *)
LEMMA WhileReading ==
  ASSUME StreamInv, state = "reading", NEW b \in Seq(SSE!Bytes)
  PROVE  /\ SSE!FlattenSeq(pieces) \in Seq(SSE!Bytes)
         /\ event \in Seq(SSE!Bytes) /\ event \o b \in Seq(SSE!Bytes)
         /\ body \in Seq(SSE!Bytes) /\ body \o b \in Seq(SSE!Bytes)
         /\ pieces \in Seq(Seq(SSE!Bytes))
         /\ body = SSE!FlattenSeq(pieces) \o event
         /\ body \o b = SSE!FlattenSeq(pieces) \o (event \o b)
         /\ lost = <<>>
<1>1. body \in Seq(SSE!Bytes) /\ pieces \in Seq(Seq(SSE!Bytes)) /\ event \in Seq(SSE!Bytes)
  BY DEF StreamInv, SSE!TypeOK
<1>2. PICK f : f = SSE!FlattenSeq(pieces)
  OBVIOUS
<1>3. f \in Seq(SSE!Bytes)
  BY <1>1, <1>2, FlattenAppend
<1>4. lost = <<>> /\ (f \o event) \o lost = body
  <2>1. (f \o event) \o lost = f \o event \o lost
    OBVIOUS
  <2> QED
    BY <1>2, <2>1 DEF StreamInv, Accounted, SSE!Accounted
<1>5. body = f \o event
  BY <1>1, <1>3, <1>4, ConcatEmptySeq
<1>6. (f \o event) \o b = f \o (event \o b)
  BY <1>1, <1>3, ConcatAssociative
<1> QED
  BY <1>1, <1>2, <1>3, <1>4, <1>5, <1>6

LEMMA KeepsRead ==
  ASSUME StreamInv, state = "reading", NEW b \in SSE!Reads,
         Len(body) + Len(b) <= MaxBody, body' = body \o b, SSE!Read(b), UNCHANGED state
  PROVE  StreamInv'
<1>1. b \in Seq(SSE!Bytes)
  BY ReadsAre
<1>2. PICK d : d = event \o b
  OBVIOUS
<1>3. PICK f : f = SSE!FlattenSeq(pieces)
  OBVIOUS
<1>4. /\ f \in Seq(SSE!Bytes) /\ d \in Seq(SSE!Bytes) /\ pieces \in Seq(Seq(SSE!Bytes))
      /\ body \in Seq(SSE!Bytes) /\ body' \in Seq(SSE!Bytes)
      /\ body' = f \o d /\ lost = <<>> /\ lost' = <<>>
  BY <1>1, <1>2, <1>3, WhileReading DEF SSE!Read
<1>5. Len(body') = Len(body) + Len(b) /\ Len(body') <= MaxBody
  <2>1. Len(body \o b) = Len(body) + Len(b)
    BY <1>1, <1>4, ConcatProperties
  <2> QED
    BY <2>1
<1>6. CASE SSE!Complete(d)
  <2>1. pieces' = Append(pieces, d) /\ event' = <<>>
    BY <1>2, <1>6 DEF SSE!Read, SSE!Return
  <2>2. PICK n : n = Len(pieces) + 1
    OBVIOUS
  <2>3. /\ pieces' \in Seq(Seq(SSE!Bytes)) /\ Len(pieces') = n
        /\ DOMAIN pieces' = DOMAIN pieces \cup {n}
        /\ \A i \in DOMAIN pieces : pieces'[i] = pieces[i] /\ Upto(i)' = Upto(i)
        /\ pieces'[n] = d /\ Upto(n)' = Len(f \o d)
        /\ SSE!FlattenSeq(pieces)' = f \o d
    BY <1>3, <1>4, <2>1, <2>2, OnePieceMore
  <2>4. PieceEnds(n)' /\ Upto(n)' <= Len(body')
    <3>1. PICK p \in Nat : p = Len(body')
      BY <1>4
    <3>2. SSE!EmptyLine(Upto(n))' <=> SSE!EmptyLine(p)'
      BY <1>4, <2>3, <3>1 DEF SSE!EmptyLine
    <3>3. SSE!EndsEvent(d) => SSE!EmptyLine(p)'
      <4>1. SUFFICES ASSUME SSE!EndsEvent(d)
                     PROVE  SSE!EmptyLine(p)'
        OBVIOUS
      <4>2. Len(d) >= 4 /\ LineAt(d, Len(d))
        BY <1>4, <4>1, EndsEventIs
      <4>3. LineAt(body', p)
        BY <1>4, <3>1, <4>2, LineAtEnd
      <4>4. p \in Int /\ p <= Len(body')
        BY <3>1
      <4>5. SSE!EmptyLine(p)' <=> LineAt(body', p)
        BY <1>4, <4>4, Stretches DEF SSE!EmptyLine, LineAt
      <4> QED
        BY <4>3, <4>5
    <3>4. PieceEnds(n)'
      BY <1>6, <2>3, <3>2, <3>3 DEF PieceEnds, SSE!Complete
    <3> QED
      BY <1>4, <2>3, <3>1, <3>4
  <2>5. \A i \in DOMAIN pieces : PieceEnds(i)' /\ Upto(i)' <= Len(body')
    BY <1>1, <2>3, OldPieces
  <2>6. SSE!TypeOK'
    BY <1>4, <1>5, <2>1, <2>3 DEF StreamInv, SSE!TypeOK
  <2>7. Accounted'
    <3>1. (f \o d) \o <<>> \o <<>> = body'
      BY <1>4, ConcatEmptySeq
    <3>2. <<>> \in Seq(SSE!Bytes)
      OBVIOUS
    <3> QED
      BY <1>4, <2>1, <2>3, <3>1 DEF Accounted, SSE!Accounted
  <2>8. Gathering'
    BY <2>1 DEF Gathering
  <2> QED
    BY <2>3, <2>4, <2>5, <2>6, <2>7, <2>8 DEF StreamInv
<1>7. CASE ~SSE!Complete(d)
  <2>1. event' = d /\ pieces' = pieces
    BY <1>2, <1>7 DEF SSE!Read
  <2>2. \A i \in DOMAIN pieces : PieceEnds(i)' /\ Upto(i)' <= Len(body')
    <3>1. \A i \in DOMAIN pieces : pieces'[i] = pieces[i] /\ Upto(i)' = Upto(i)
      BY <2>1 DEF Upto
    <3> QED
      BY <1>1, <3>1, OldPieces
  <2>3. SSE!TypeOK'
    BY <1>4, <1>5, <2>1 DEF StreamInv, SSE!TypeOK
  <2>4. Accounted'
    <3>1. f \o d \o <<>> = body'
      BY <1>4, ConcatEmptySeq
    <3> QED
      BY <1>3, <1>4, <2>1, <3>1 DEF Accounted, SSE!Accounted
  <2>5. Gathering'
    <3>1. ~SSE!EndsEvent(d)
      BY <1>7 DEF SSE!Complete
    <3> QED
      BY <1>4, <2>1, <3>1, EndsEventIs DEF Gathering
  <2> QED
    BY <2>1, <2>2, <2>3, <2>4, <2>5 DEF StreamInv
<1> QED
  BY <1>6, <1>7

LEMMA KeepsReadFails ==
  ASSUME StreamInv, state = "reading", NEW b \in SSE!Reads,
         Len(body) + Len(b) <= MaxBody, body' = body \o b, SSE!ReadFails(b)
  PROVE  StreamInv'
<1>1. b \in Seq(SSE!Bytes)
  BY ReadsAre
<1>2. PICK d : d = event \o b
  OBVIOUS
<1>3. PICK f : f = SSE!FlattenSeq(pieces)
  OBVIOUS
<1>4. /\ f \in Seq(SSE!Bytes) /\ d \in Seq(SSE!Bytes) /\ pieces \in Seq(Seq(SSE!Bytes))
      /\ body \in Seq(SSE!Bytes) /\ body' \in Seq(SSE!Bytes) /\ body' = f \o d
  BY <1>1, <1>2, <1>3, WhileReading
<1>5. lost' = d /\ event' = <<>> /\ state' = "failed" /\ pieces' = pieces
  BY <1>2 DEF SSE!ReadFails
<1>6. SSE!TypeOK'
  <2>1. Len(body \o b) = Len(body) + Len(b)
    BY <1>1, <1>4, ConcatProperties
  <2> QED
    BY <1>4, <1>5, <2>1 DEF SSE!TypeOK
<1>7. Accounted'
  <2>1. f \o <<>> \o d = body'
    BY <1>4, ConcatEmptySeq
  <2> QED
    BY <1>3, <1>5, <2>1 DEF Accounted, SSE!Accounted
<1>8. \A i \in DOMAIN pieces : PieceEnds(i)' /\ Upto(i)' <= Len(body')
  <2>1. \A i \in DOMAIN pieces : pieces'[i] = pieces[i] /\ Upto(i)' = Upto(i)
    BY <1>5 DEF Upto
  <2> QED
    BY <1>1, <2>1, OldPieces
<1> QED
  BY <1>5, <1>6, <1>7, <1>8 DEF StreamInv, Gathering

LEMMA KeepsReadEOF ==
  ASSUME StreamInv, state = "reading", NEW b \in SSE!Reads,
         Len(body) + Len(b) <= MaxBody, body' = body \o b, SSE!ReadEOF(b)
  PROVE  StreamInv'
<1>1. b \in Seq(SSE!Bytes) /\ Len(b) <= BufferSize
  BY ReadsAre
<1>2. PICK d : d = event
  OBVIOUS
<1>3. PICK f : f = SSE!FlattenSeq(pieces)
  OBVIOUS
<1>4. /\ f \in Seq(SSE!Bytes) /\ d \in Seq(SSE!Bytes) /\ pieces \in Seq(Seq(SSE!Bytes))
      /\ body \in Seq(SSE!Bytes) /\ body' \in Seq(SSE!Bytes) /\ body = f \o d
  BY <1>1, <1>2, <1>3, WhileReading
<1>5. lost' = b /\ state' = "atEOF"
  BY DEF SSE!ReadEOF
<1>6. Len(body') = Len(body) + Len(b) /\ Len(body') <= MaxBody /\ Len(body) <= Len(body')
  <2>1. Len(body \o b) = Len(body) + Len(b) /\ Len(b) \in Nat /\ Len(body) \in Nat
    BY <1>1, <1>4, ConcatProperties
  <2> QED
    BY <2>1
<1>7. CASE event # <<>>
  <2>1. pieces' = Append(pieces, d) /\ event' = <<>>
    BY <1>2, <1>7 DEF SSE!ReadEOF, SSE!Return
  <2>2. PICK n : n = Len(pieces) + 1
    OBVIOUS
  <2>3. /\ pieces' \in Seq(Seq(SSE!Bytes)) /\ Len(pieces') = n
        /\ DOMAIN pieces' = DOMAIN pieces \cup {n}
        /\ \A i \in DOMAIN pieces : pieces'[i] = pieces[i] /\ Upto(i)' = Upto(i)
        /\ pieces'[n] = d /\ Upto(n)' = Len(f \o d)
        /\ SSE!FlattenSeq(pieces)' = f \o d
    BY <1>3, <1>4, <2>1, <2>2, OnePieceMore
  <2>4. PieceEnds(n)' /\ Upto(n)' <= Len(body')
    BY <1>4, <1>5, <1>6, <2>3 DEF PieceEnds
  <2>5. \A i \in DOMAIN pieces : PieceEnds(i)' /\ Upto(i)' <= Len(body')
    BY <1>1, <2>3, OldPieces
  <2>6. SSE!TypeOK'
    BY <1>1, <1>4, <1>5, <1>6, <2>1, <2>3 DEF SSE!TypeOK
  <2>7. Accounted'
    <3>1. (f \o d) \o <<>> \o b = body'
      BY <1>4, ConcatEmptySeq
    <3> QED
      BY <1>1, <1>5, <2>1, <2>3, <3>1 DEF Accounted, SSE!Accounted
  <2> QED
    BY <1>5, <2>3, <2>4, <2>5, <2>6, <2>7 DEF StreamInv, Gathering
<1>8. CASE event = <<>>
  <2>1. pieces' = pieces /\ event' = <<>>
    BY <1>8 DEF SSE!ReadEOF
  <2>2. \A i \in DOMAIN pieces : PieceEnds(i)' /\ Upto(i)' <= Len(body')
    <3>1. \A i \in DOMAIN pieces : pieces'[i] = pieces[i] /\ Upto(i)' = Upto(i)
      BY <2>1 DEF Upto
    <3> QED
      BY <1>1, <3>1, OldPieces
  <2>3. SSE!TypeOK'
    BY <1>1, <1>4, <1>5, <1>6, <2>1 DEF SSE!TypeOK
  <2>4. Accounted'
    <3>1. f \o <<>> \o b = body'
      BY <1>2, <1>4, <1>8
    <3> QED
      BY <1>1, <1>3, <1>5, <2>1, <3>1 DEF Accounted, SSE!Accounted
  <2> QED
    BY <1>5, <2>1, <2>2, <2>3, <2>4 DEF StreamInv, Gathering
<1> QED
  BY <1>7, <1>8

LEMMA KeepsEnd ==
  ASSUME StreamInv, SSE!End
  PROVE  StreamInv'
<1>1. /\ state = "atEOF" /\ state' = "ended" /\ UNCHANGED <<body, event, pieces, lost>>
  BY DEF SSE!End
<1>2. SSE!TypeOK'
  BY <1>1 DEF StreamInv, SSE!TypeOK
<1>3. Accounted'
  BY <1>1 DEF StreamInv, Accounted, SSE!Accounted
<1>4. \A i : Upto(i)' = Upto(i) /\ (SSE!EmptyLine(Upto(i))' <=> SSE!EmptyLine(Upto(i)))
  BY <1>1 DEF Upto, SSE!EmptyLine
<1>5. \A i \in DOMAIN pieces : PieceEnds(i)' /\ Upto(i)' <= Len(body')
  BY <1>1, <1>4 DEF StreamInv, PieceEnds
<1> QED
  BY <1>1, <1>2, <1>3, <1>5 DEF StreamInv, Gathering

LEMMA StreamStutter ==
  ASSUME StreamInv, UNCHANGED sseVars
  PROVE  StreamInv'
<1>1. UNCHANGED <<body, event, pieces, lost, state>>
  BY DEF sseVars
<1>2. SSE!TypeOK'
  BY <1>1 DEF StreamInv, SSE!TypeOK
<1>3. Accounted' /\ Gathering'
  BY <1>1 DEF StreamInv, Accounted, SSE!Accounted, Gathering
<1>4. \A i : Upto(i)' = Upto(i) /\ (SSE!EmptyLine(Upto(i))' <=> SSE!EmptyLine(Upto(i)))
  BY <1>1 DEF Upto, SSE!EmptyLine
<1>5. \A i \in DOMAIN pieces : PieceEnds(i)' /\ Upto(i)' <= Len(body')
  BY <1>1, <1>4 DEF StreamInv, PieceEnds
<1> QED
  BY <1>1, <1>2, <1>3, <1>5 DEF StreamInv

LEMMA StreamInit ==
  ASSUME SSE!Init
  PROVE  StreamInv
<1>1. body = <<>> /\ event = <<>> /\ pieces = <<>> /\ lost = <<>> /\ state = "reading"
  BY DEF SSE!Init
<1>2. SSE!TypeOK /\ Gathering
  BY <1>1, PartsAssumption DEF SSE!TypeOK, Gathering
<1>3. Accounted
  BY <1>1 DEF Accounted, SSE!Accounted, SSE!FlattenSeq
<1> QED
  BY <1>1, <1>2, <1>3 DEF StreamInv

-----------------------------------------------------------------------------
(* Streams: the theorems                                                   *)

(* Every behaviour of the parts keeps the invariant of the streams         *)
(* (proxy.go:199-246).                                                     *)
THEOREM StreamInductive == PartsSpec => []StreamInv
<1>1. PartsInit => StreamInv
  BY StreamInit DEF PartsInit
<1>2. ASSUME StreamInv, SSE!Next
      PROVE  StreamInv'
  <2>1. CASE UNCHANGED SSE!vars
    BY <1>2, <2>1, StreamStutter DEF SSE!vars, sseVars
  <2>2. CASE SSE!End
    BY <1>2, <2>2, KeepsEnd
  <2>3. ASSUME NEW b \in SSE!Reads, state = "reading", Len(body) + Len(b) <= MaxBody,
               body' = body \o b, SSE!Read(b) \/ SSE!ReadFails(b) \/ SSE!ReadEOF(b)
        PROVE  StreamInv'
    <3>1. SSE!Read(b) => UNCHANGED state
      BY DEF SSE!Read
    <3> QED
      BY <1>2, <2>3, <3>1, KeepsRead, KeepsReadFails, KeepsReadEOF
  <2> QED
    BY <1>2, <2>1, <2>2, <2>3 DEF SSE!Next
<1>3. StreamInv /\ [PartsNext]_partsVars => StreamInv'
  BY <1>2, StreamStutter DEF PartsNext, partsVars, sseVars
<1> QED
  BY <1>1, <1>3, PTL DEF PartsSpec

(* For every length of the buffer and of the body, and wherever Read cuts  *)
(* it, the pieces put together are the body, but for what the last Read    *)
(* returned with io.EOF or what an error interrupted (proxy.go:219-232).   *)
THEOREM EveryByteAccounted == PartsSpec => []Accounted
<1>1. StreamInv => Accounted
  BY DEF StreamInv
<1> QED
  BY <1>1, StreamInductive, PTL

(* Likewise a piece ends with an event, but for the two exceptions, and an *)
(* event is not held back (proxy.go:234-246).                              *)
THEOREM PiecesAreEvents == PartsSpec => []PiecesEndEvents
<1>1. ASSUME StreamInv
      PROVE  PiecesEndEvents
  <2>1. \A i \in DOMAIN pieces : PieceEnds(i)
    BY <1>1 DEF StreamInv
  <2>2. ASSUME SSE!EmptyLine(Len(body)), state = "reading", ~(Len(event) < 4)
        PROVE  FALSE
    <3>1. /\ SSE!FlattenSeq(pieces) \in Seq(SSE!Bytes) /\ event \in Seq(SSE!Bytes)
          /\ body \in Seq(SSE!Bytes) /\ body = SSE!FlattenSeq(pieces) \o event
      <4>1. <<>> \in Seq(SSE!Bytes)
        OBVIOUS
      <4> QED
        BY <1>1, <2>2, <4>1, WhileReading
    <3>2. PICK p \in Nat : p = Len(body)
      BY <3>1
    <3>3. Len(event) >= 4
      BY <2>2, <3>1
    <3>4. LineAt(body, p)
      <4>1. p \in Int /\ p <= Len(body)
        BY <3>2
      <4>2. SSE!EmptyLine(p) <=> LineAt(body, p)
        BY <3>1, <4>1, Stretches DEF SSE!EmptyLine, LineAt
      <4> QED
        BY <2>2, <3>2, <4>2
    <3>5. LineAt(event, Len(event))
      BY <3>1, <3>2, <3>3, <3>4, LineAtEnd
    <3> QED
      BY <1>1, <2>2, <3>3, <3>5 DEF StreamInv, Gathering
  <2> QED
    BY <2>1, <2>2 DEF PiecesEndEvents, SSE!PiecesEndEvents, PieceEnds, Upto
<1> QED
  BY <1>1, StreamInductive, PTL

-----------------------------------------------------------------------------
(* Types                                                                   *)

(* The parts' clock is that of Freshness, and keeps its invariant.         *)
THEOREM ClockInductive == PartsSpec => []Inv
<1>1. PartsInit => Inv
  BY InitInv DEF PartsInit
<1>2. Inv /\ [Next]_vars => Inv'
  BY StepTypeOK, StepDeadline, StepStamped, StepLiveIsFresh, StepOwnTimerIdle DEF Inv
<1>3. [PartsNext]_partsVars => [Next]_vars
  BY DEF PartsNext, partsVars
<1> QED
  BY <1>1, <1>2, <1>3, PTL DEF PartsSpec

(* The variables of the other parts keep their types (message.go:13-40,    *)
(* proxy.go:175-185, config.go:12-46).                                     *)
THEOREM PartsTyped == PartsSpec => []PartsTypeOK
<1>1. ASSUME StartTyped
      PROVE  Start!TypeOK
  <2>1. ASSUME NEW o \in Start!Sources, NEW f \in found[o]
        PROVE  f[1] \in Start!Settings /\ f[2] \in Start!Values(f[1]) \cup {"garbage"}
    <3>1. f \in Start!AllValues \/ f \in Start!Settings \X {"garbage"}
      BY <1>1 DEF StartTyped, Pairs
    <3>2. ASSUME f \in Start!AllValues
          PROVE  f[1] \in Start!Settings /\ f[2] \in Start!Values(f[1])
      <4>1. PICK s \in Start!Settings : f \in {s} \X Start!Values(s)
        BY <3>2 DEF Start!AllValues
      <4> QED
        BY <4>1
    <3> QED
      BY <3>1, <3>2
  <2> QED
    BY <1>1, <2>1 DEF StartTyped, Start!TypeOK
<1>2. Inv /\ PoolInv /\ StreamInv /\ StartInv => PartsTypeOK
  BY <1>1 DEF Inv, PoolInv, StreamInv, StartInv, PartsTypeOK
<1> QED
  BY <1>2, ClockInductive, PoolInductive, StreamInductive, StartInductive, PTL

=============================================================================
