# llama-proxy: specifications, model checks and proofs

llama-proxy lets a cloud application use a llama-server that runs on a machine
without a public address.  The *server* process offers an OpenAI-compatible HTTP
API in the cloud; the *client* process runs beside llama-server, dials the server
over a web socket and carries out the requests it is sent.  Every payload is
compressed and encrypted on the way.

This directory holds TLA+ models of the two processes, TLC configurations that
check them on small instances, and proofs for TLAPS.  All paths below are
relative to the repository; `server.go`, `handler.go`, `websocket.go` are in
`internal/server`, `client.go` and `proxy.go` in `internal/client`.

## 1. Inventory

```
 HTTP caller --> handler goroutine --SendChan--> writePump ==> readPump --recvChan--> messageProcessor
                   ^  semaphore                    (server)     (client)                  | semaphore
                   |  request table                                                       v
                   +--ResponseChan-- readPump <== writePump <--sendChan-- handleMessage --> llama-server
                                     (server)     (client)
```

| part | state | operations |
|---|---|---|
| request path of the server (`handler.go`, `server.go`) | semaphore `sem`; `requests` (id to `PendingRequest`) under `requestsMu`; per request `ResponseChan` (10) and `DoneChan` | `handleProxyRequest` and the two response handlers, `RegisterRequest`, `UnregisterRequest`, `GetRequest`, `handleMessage`, `cleanupExpiredRequests`, `Stop` |
| connection registry (`server.go`, `websocket.go`) | `clients` under `clientsMu`; per connection `isAlive`, `lastPing`, `closeOnce`, `onClose`, `SendChan` (100) | `handleWebSocket`, `Run`, `readPump`, `writePump`, `Close`, `GetActiveClient`, `cleanupDeadClients`, `Stop` |
| client connection (`client.go`, `main.go`) | `wsConn` under `wsMu`; `isConnected`, `isConnecting`, `reconnectCount`, `lastPingTime` | `Start`, `connectionManager`, `connect`, `disconnect`, `readPump`, `writePump` |
| client work (`client.go`, `proxy.go`) | `recvChan` (100), `sendChan` (100), the processor's semaphore | `messageProcessor`, `handleMessage`, both request handlers, the send functions, `Stop` |
| SSE reader (`proxy.go`) | a 4 KB buffer | `readEvent` |
| message envelope and pools (`internal/protocol`) | four `sync.Pool`s | acquire, release, clone, serialise, `IsValid` |
| encryption (`internal/crypto`) | encoder and decoder pools, compression level | encrypt, decrypt, borrow and return of encoders |
| configuration (`internal/config`, `cmd/llama-proxy`) | none after start | load, environment, flags, validation |
| status endpoints, logger, OpenAI types, scripts | counters only, or nothing | read-only or unused at run time |

**How they interact.**  A handler and a connection share `SendChan`, which
`Close` closes under the handler's feet.  A connection's `readPump` and a handler
share `ResponseChan`, which the handler closes on its way out.  The cleaner
goroutine closes a handler's `DoneChan` and a connection's everything; `Stop` does
both too.  The order of locks is `clientsMu` inside `closeOnce` for a pump, and
`closeOnce` inside `clientsMu` for the cleaner and `Stop`.  On the client, pumps of
an old connection and of a new one share `wsConn`, `isConnected` and `sendChan`.

**What is hard.**  Which of several goroutines retires an entry and closes a
channel; pointers taken before an unlock and used after; messages lost at five
queues and on the network; three timers for one wait (2, 10 and 15 minutes); two
locks taken in opposite orders; pumps that outlive their connection and meet the next
one; two shutdown
procedures that close channels others still send to.  `PROJECT.json` lists each of
these hazards at its line.

**What makes each part correct.**

* Request path: a slot is given back exactly once on every path; an entry of the
  table has an owner and open channels; every admitted call is answered; pieces of
  a stream stay in order; nobody sends on a closed channel.
* Registry: `Close` runs once; a closed connection is not handed out and is
  forgotten; the cleaner and `Stop` end.
* Client connection: a loss is noticed and repaired, by a process that stays alive.
* Client work: bounded parallelism, every accepted request is carried out, the
  messages of a request form pieces and one end; `Stop` does not crash.
* Both together: a caller gets the answer to its own call, its pieces once and, over
  one connection, in order.
* SSE reader: pieces are whole events wherever the body is cut, and nothing is lost.
* Messages: a pooled object has one owner; a message of a live call is not refused
  for its age.
* Configuration: the later source wins; what runs has been validated.

## 2. Modules

| module | models | uses |
|---|---|---|
| `ProxyCalls` | what the server promises to its HTTP callers (abstract) | |
| `RequestTable` | request path of the server | refines `ProxyCalls` |
| `RequestTableProofs` | TLAPS proofs about `RequestTable`: types, slots, table | extends it |
| `ContractProofs` | TLAPS proofs about `RequestTable`: order of messages, panics, refinement | extends `RequestTableProofs` |
| `ConnRegistry` | connection registry of the server | |
| `ClientLink` | the client's connection and its pumps | |
| `ClientWorker` | the client's request work and `Stop` | |
| `ConnRegistryProofs`, `ClientLinkProofs`, `ClientWorkerProofs` | TLAPS proofs about these three | extend the module named |
| `Relay` | server and client together | instances of `RequestTable` and `ClientWorker` |
| `RelayProofs` | TLAPS proofs about server and client together | extends `Relay`, instances of `ContractProofs` and `ClientWorkerProofs` |
| `SSEReader` | how the client cuts a streamed body into pieces | |
| `MessagePool` | ownership of pooled messages in the server | |
| `Freshness` | the age check of messages under two clocks | |
| `FreshnessProofs` | TLAPS proofs about `Freshness` | extends it |
| `Startup` | configuration and the start of a process | |
| `MCRequestTable`, `MCRelay` | symmetry sets and views for TLC | extend the module named |
| `MCClient` | one run for the two modules of the client process | extends `ClientLink` and `ClientWorker` |
| `MCParts` | one run for five parts that do not interact | extends `ConnRegistry` and `Freshness`, instances of `SSEReader`, `MessagePool`, `Startup` |
| `PartsProofs` | TLAPS proofs about these parts, the registry excepted | extends `MCParts` and `FreshnessProofs` |

Operators that begin with a comment "Mutant:" are faulty variants of the
definition that follows them, each a plausible mistake in the code it models.
`PROJECT.json` pairs every checked property with a variant that breaks it; they are
used by no specification.

### RequestTable

`pc[r]` is the program counter of the handler goroutine of HTTP call `r`; one
action is one critical section of `requestsMu` or one channel operation.

| `pc` | next operation of the handler |
|---|---|
| `new` | the first select: `Admit` takes a slot, `Refuse` answers 429 or 503 |
| `admitted` | `PickClient` (`GetActiveClient`) |
| `prepared` | `Reject` (body, JSON or encryption fails) or `RegisterRequest` |
| `sending` | the select on `SendChan`: `SendRequest`, `SendBusy` (five seconds), `SendPanics` (the channel was closed) |
| `waiting` | the response handlers: `ReceiveAnswer`, `ReceiveStream`, `GiveUp` (`DoneChan`, context, timer) |
| `leaving` | deferred `UnregisterRequest` |
| `releasing` | deferred release of the slot |

`table` is the key set of `s.requests`; `respChan`, `respClosed`, `doneClosed` are
the channels of each `PendingRequest`, which live on when the entry is gone.
`ReadMessage` and `ForwardMessage` split `handleMessage` at the point where
`GetRequest` has returned a pointer and `requestsMu` is free again; `fwd[c]` is the
message in between.  `wire[c]` is what the client has written and the server not
yet read, `sendChan[c]` the reverse direction.  Real time is reduced to
`expired[r]`: two minutes have passed.  The ten and fifteen minute timers of the
response handlers are behind the cleaner's two minutes (and its 30-second period),
so they fire only when the cleaner is stuck.

The client and llama-server are the environment: `WriteRequest` hands a request
over (`asked`) or loses it, and `RemoteReply` lets a message of an asked call leave,
onto the wire of any connection that is up or into nothing (`sent`): which of two
connections a pump of the client holds is not the server's to know.  A connection that
is closed loses what is queued in `SendChan`, but `readPump` may still parse what it
has buffered (`Shut` keeps any prefix of the wire).  `MayLeave` is what is assumed: a call has
pieces and one last message, numbered in the order they were produced, and they
leave in that order unless the client has reconnected.  `Relay` shows that the client
keeps to this.  `wedged` is the fact, established with `ConnRegistry`, that the cleaner
or `Stop` may block for ever with `clientsMu` held.

`ProxyCalls` knows only calls, slots and delivered pieces.  The mapping is
`phase` (from `pc`) and `delivered <- chunks`.

### Relay

The variables are those of `RequestTable` and `ClientWorker` without the environment
of either: `asked` and `sent` of the server are defined from the client's state
(`Asked`, `Sent`), so a message has left when it is in the client's `log` and neither in
its `sendChan` nor held by a pump.  `pump[c]` is the `writePump` that the dial of
connection `c` started; it is not bound to `c`: `TakeAnswer` takes a message and then
reads `wsConn` (`current`), `WriteHeld` and `LoseHeld` write it there.  A connection
other than the current one may still be up, since `disconnect` closes whatever is
current when it gets there.  A client that crashes because two of its pumps meet
(`ClientLink`) is one that takes no more steps; what the properties say of callers
holds of it too.  The property `Assumed` is
`RequestTable`'s own specification under this mapping, so each step of the pair is a
step of the server or one its environment was allowed, and the properties of
`RequestTable` hold of the pair.

### SSEReader

A body is a sequence of bytes of three sorts (line feed, carriage return, other).
`Read`, `ReadFails` and `ReadEOF` are the three results of one call of `Read` with the
bytes `b` that came with it; `event` is the buffer of `readEvent`, `pieces` what it
returned, `lost` what was thrown away.

### MessagePool

An object has its `content`; whoever holds a pointer is a variable (`own`, `writer`,
`reader`, `clone`) or a channel.  `writePump` is split into taking, writing and
releasing, `handleMessage` into deserialising, cloning and forwarding, so that the
others may acquire a released object in between.

### Freshness

One call on the server's clock, which starts at its registration; `skew` is what the
client's clock is ahead.  A message has a place and a stamp.  Timers fire on time:
`Tick` does not pass over one that is due.  `Grain` is the coarseness of a stamp (the
one in the ciphertext is in whole seconds).

### Startup

Of each setting the values are those that the code distinguishes.  `path` says where the
name of a configuration file came from and `file` what became of it: none named, read,
missing, or broken.  `found` is what
file, environment and flags turned out to hold when they were looked at.  "max" and
"level" are the number of concurrent requests and the compression level, "addr" stands
for the addresses a client needs.

### ConnRegistry

Processes are the accepting goroutine, `readPump` and `writePump` of each
connection, the cleaner and `Stop`.  `clientsMu` (`mu`) and `closeOnce` (`once`) are
modelled as the blocking locks they are: a second caller of `Close` waits until the
body of the first has returned, and a process that asks for a lock it holds waits
for itself.  `SetOnClose` and `Run` are separate steps because a sweep can fall
between them.  The cleaner may find its ticker and the cancelled context at the same
time, so it can start one more pass after `StopCancel`; web sockets are accepted until
`Stop` has shut the HTTP servers down and waited for the cleaner (`StopExit`).  `silent` is a `lastPing` older than two minutes; the 90-second read
deadline normally ends such a connection first, so the flag can be raised only
while `readPump` is busy forwarding (each forward may take five seconds).

### ClientLink

The pumps of dial `n` are `reader[n]` and `writer[n]`; `readConn` and `writeConn` hold
the connection each took from `wsConn` in its current round, which need not be the
one it was started for.  `disconnect` is two steps, closing `wsConn` and clearing
`isConnected`, between which the others may run.  `lost` is what the network does.
`start` is `Client.Start`, which looks at `isConnected` every 100 milliseconds and
gives up after 30 seconds; `main` then ends the process.  So a client that is started
more than 30 seconds before its server does not reconnect: it is gone.

The process also ends when a pump panics (`crashed`).  gorilla allows one writer and
one reader per connection, `WriteMessage` at `client.go:380` and `398` is called with no
lock held, and nobody recovers.  `CollideWriting` is a `writePump` that begins or ends its
write while another one is writing to the same connection; gorilla may also fail to
notice (the flag it looks at is not synchronised), and then both go on or fail
(`WriteFails`).  `CollideReading` is the same for two `readPump`s that race for the bytes
in the buffer.  `LinkAlive` is a process with neither end, and the two liveness
properties name both: `Start` gave up, or two pumps met.  `CrashAfterReconnect` says when
the latter can happen, and the run `reconnect_crash` that it does.

`NoticeSilence`, the two-minute check of `connectionManager`, may fire whenever
`isConnected` is set: pongs stay away when no `writePump` is left to ask for them or the
server is slow, while other messages keep the 90-second read deadline from passing.

### ClientWorker

`job[r]` follows a request from `recvChan` through the processor's semaphore and
`handleMessage`; `log[r]` records what it has put into `sendChan`.  llama-server may
answer in any way the request handlers distinguish: an ordinary answer, events, the
end of a stream, a failure at any point.  `Stop` is three steps: cancel and close the
connection, the select that is meant to close `sendChan` safely, the wait of at most
five seconds.

## 3. Runs

| run | question | result |
|---|---|---|
| `serve` | slots, table and channels of the server with reconnects, a cleaner that may get stuck, and `Stop` | holds |
| `contract` | the detailed server implements `ProxyCalls`; every admitted call is answered | holds |
| `relay` | the client keeps to what `RequestTable` assumes; callers get their own answers, in order | holds |
| `client` | a set `isConnected` has a goroutine to clear it; a loss is noticed and the client reconnects, unless `Start` gave up or two pumps crashed on one connection, which takes a reconnect; semaphore accounting, the shape of the answers, an accepted request is carried out | holds |
| `parts` | `ConnRegistry`, `MessagePool`, `Freshness`, `SSEReader`, `Startup` (below) | holds |
| `graceful_stop` | `Stop` does not crash the server (`main.go:127`) | violated |
| `response_lost` | a streaming call answered with an ordinary response sees it (`proxy.go:140`) | violated |
| `stream_cut` | a stream is not ended while the model produces it (`README.md:13`) | violated |
| `sweep_hangs` | `cleanupDeadClients` and `Stop` end (`server.go:390`, `server.go:200`) | violated |
| `client_stop` | closing `sendChan` does not panic (`client.go:161`) | violated |
| `reconnect_crash` | a client that has started reconnects after every loss (`README.md:14`) | violated |
| `config` | a missing configuration file leaves the defaults and the environment in force (`main.go:283`, `README.md:255`) | violated |

`parts` checks five modules that share nothing.  The initial state chooses one, the
others do not move: the state space is the sum of the five, and each property speaks
of one of them.  `client` does the same with the two modules of the client: while the
work on requests moves, the connection stays in a final state (`Start` has given up), so
that its liveness properties ask nothing of that behaviour.

| property | what it shows |
|---|---|
| `SweepExclusive`, `CloseOnce` | cleaner and `Stop` walk the map one at a time; of two pumps, cleaner and `Stop` one closes a connection |
| `ClosedIsForgotten`, `PicksOpen` | a closed connection has left the map once `clientsMu` is free, and is not handed out |
| `SoleOwner`, `NoMixUp` | through hand-overs, timeouts and abandoned calls an object is in the pool or has one pointer to it; nobody reads another call's message |
| `LiveIsFresh` | no message of a live call is refused for its age if the clocks differ by at most two and a half minutes and the cleaner runs; with one unit more it is violated in either direction |
| `OwnTimerIdle` | the ten and fifteen minute timers of the handlers only ever fire if the cleaner is stuck |
| `Accounted` | the pieces of a stream are its body, but for the bytes that came with `io.EOF` (`proxy.go:221`) or before another error |
| `PiecesEndEvents` | a piece ends where an event ends, and a complete event is not held back unless it has fewer than four bytes |
| `Precedence` | default, file, environment, flag: the last usable value wins in a process that needs no file or has read it; what happens without the file is the question of `config` |
| `RunsAsAssumed` | what runs has a valid key; a negative number of slots panics and zero is accepted, as the models assume |

The counterexamples in words:

* `graceful_stop`: `readPump` has looked a request up; `Stop` cancels the context; the
  handler returns on it and closes `ResponseChan`; `readPump` sends.
* `response_lost`: llama-server refuses a streaming call with an ordinary JSON error;
  the client forwards it as a `response`; `handleStreamResponse` releases it and
  waits until the cleaner ends the call, two minutes later, with `[DONE]`.
* `stream_cut`: a stream that takes longer than two minutes is ended in the same way.
* `sweep_hangs`: a sweep closes a client, and `Close` calls `onClose`, which asks for the
  `clientsMu` its own goroutine holds; or a pump is inside `Close` already and waits in
  `onClose` for `clientsMu`, which the cleaner holds while it waits for the body of the
  `Once` to return (the trace TLC prints: the web socket is accepted during a `Stop`, the
  `writePump` ends on the cancelled context, and the cleaner makes one more pass).  For the cleaner the
  occasion is rare (a connection that is not running yet, is ending, or has been silent
  for two minutes); `Stop` needs only a connected client.
* `client_stop`: a goroutine waiting for llama-server when `Stop` closes `sendChan`.
* `reconnect_crash`: the first connection is lost; its `readPump` or the manager clears the
  flag, while its `writePump`, idle between two pings, learns nothing.  The manager dials
  again and starts the second `writePump`.  Both pumps take the second connection from
  `wsConn` and write to it; that connection is lost too, its `readPump` clears the flag,
  and gorilla notices the two writers and panics: nothing is left to reconnect.
* `config`: `-c` names a file that does not exist.  `Load` wraps the error, `os.IsNotExist`
  does not look into it, and the process ends without a configuration.  When the missing
  file is named by `LLAMA_PROXY_CONFIG` it goes on, with the defaults and without a look at
  the other variables: the other half of what the property denies.

Observations no run is spent on:

* The pause between dials grows linearly (`client.go:216`), not exponentially as the
  comment above it says.
* After a reconnect the `writePump` of the lost connection may take pieces of a stream
  beside the new one, and unless they crash (`reconnect_crash`) the pieces may overtake
  each other.  `relay` shows what it means for callers: none comes twice.
* The last bytes of a stream may be dropped (`Accounted`); if they are the model's own
  `data: [DONE]`, the server makes up for it.
* No variable sets the client's number of concurrent requests and compression level,
  although `README.md:255` says that every setting has one (`EnvMayHold`).
* The compression level is validated, but neither process passes it to its `Crypto`.

`ForwardNeverPanics` (in `serve`) is the exact extent of the panic in `readPump`: it
needs a `Stop` (`graceful_stop`), a cleaner that is stuck so that a handler's own timer
fires, or a client that has reconnected, because the pieces and the end of a call may
then arrive over two connections.  Otherwise the last message of a call has been
forwarded before its handler leaves with the entry still in the table.

### Bounds and why they are enough

* Calls: one streaming and one ordinary call.  The calls meet only in the
  semaphore, the cleaner's sweep, and the connections, and each meeting takes two.
  One slot makes them compete in `contract`; two slots let both be in the table at
  once in `serve`.  `relay` follows one streaming call, which is the one that has an
  order to lose; its one call is never answered with a whole response, so what
  `Delivered` says of such an answer is shown by the theorem `Delivery` only.  `client` has three requests for two slots and a queue of one, so that
  one waits, and one may be dropped.
* Connections: two in `serve`, `relay` and `parts`, for the old one and its
  successor; one in `contract`, since the order of pieces is promised for one
  connection only, and in `sweep_hangs`.  Two dials in `client`, so that pumps of the
  first connection meet the second; a third would multiply its states beyond use, and
  the safety properties are proved for any number.  Three in `reconnect_crash`: the
  property excuses a client that has used up the dials of the bound, so the two pumps
  meet on the second connection with one dial to spare, and the violation is not the bound's.
* Buffers of 1 or 2 instead of 10 and 100: full and not full both happen, and with
  two or three messages per call also full with more to come.  `RespCap = 2` in
  `contract` lets pieces queue up, which the order of pieces needs.
* `MaxChunks` is 0 to 2 pieces per stream.  In `serve` a stream has no pieces: its
  one message of each kind is enough for the channels, and the pieces would change no
  variable the run's invariants read.  With pieces, `ForwardNeverPanics` and the order are
  proved in `ContractProofs`.  In `relay` there are two pieces and an end.
* `parts`: two connections; three objects and two calls, so that a released object is acquired by
  somebody else while a third is under way; bodies of 8 bytes, buffers of 2 and a cut
  at 5, so that all ends of an event fall on all places of a buffer; a unit of 15
  seconds, so that the cleaner's 30 seconds have phases, and clocks that differ by all
  that is tolerated or by one unit more; at most three values found in file,
  environment and flags, since two sources and an exception are what a precedence
  needs.
* `MaxFailures` counts consecutive failed dials, up to 2 in `client` and 0 in
  `reconnect_crash`, where pauses do not matter; `Interval` and `MaxDelay`
  are chosen so that the second pause reaches the cap.

`serve` and `relay` use a VIEW: states that differ only in variables that no later
step and no property of the run reads (how a finished call was answered, what is left
in its channel) count as one.  `MCRequestTable` and `MCRelay` say which.

Deadlock is checked except in `serve`, `graceful_stop`, `parts` and `sweep_hangs`:
there the system really may stop (a server whose `clientsMu` is never
released, or one whose connections have all ended; in `parts`, calls that are over).

### Fairness and why the code justifies it

`serve`, `relay` and `parts` check safety only and assume no fairness.

* `FairServeSpec`: each handler goroutine is scheduled; time passes (`Expire`); the
  30-second ticker runs the cleaner.  Nothing is assumed of the network, the pumps,
  the client or llama-server: the call is answered because the cleaner ends it.
  A caller that stops reading while the server writes to it is not modelled.
* `FairRegistrySpec` of `ConnRegistry`: weak fairness for the goroutines of a connection,
  strong for the steps that wait for `clientsMu` or `closeOnce` (Go's mutexes hand over
  to waiters) and for the read of a closed socket, since buffered messages run out;
  the same for the sweepers, so that the counterexample of `sweep_hangs` is a real
  deadlock and not a process that was never scheduled.
* `LinkFairness` of `ClientLink`: scheduling, and a dial that is repeated for ever
  succeeds some time; the result is that nothing in the client prevents the repeated
  dial or the use of its success.
* `WorkFairness` of `ClientWorker`: scheduling, and llama-server answers or the 15-minute
  `httpClient` timeout does.

## 4. Proofs

`RequestTableProofs` proves, for every set of calls, any number of connections, any
capacities, and with `Stop` and a stuck cleaner included (`Spec`, not `ServeSpec`):

| theorem | statement |
|---|---|
| `TypeCorrect` | `Spec => []TypeOK` |
| `Slots` | `Spec => []SlotAccounting` |
| `Ownership` | `Spec => []TableOwnership` |
| `Closing` | `Spec => []CloseDiscipline` |

They rest on `Inductive == Spec => []IInv` with
`IInv == TypeOK /\ SlotAccounting /\ TableInv`.  `SlotAccounting` is needed for types
already: `sem - 1` is a natural number because the releasing call is one of those
counted.  `TableInv` adds to `TableOwnership` and `CloseDiscipline` that a closed
`DoneChan` belongs to a request that had been registered (`DoneNeedsEntry`): without
it a handler could register a request whose `DoneChan` is closed, and the next sweep
would close it again.  Each invariant has a lemma per group of actions with a case per
action; cardinalities are handled by the theorems on finite sets.

`ContractProofs` goes on from `IInv`, for the same `Spec`:

| theorem | statement |
|---|---|
| `NoForwardPanic` | `Spec => []ForwardNeverPanics` |
| `Answers` | `Spec => [](FullInv /\ AnswerInv)` |
| `Refinement` | `Spec /\ []~Reconnected => Contract` |
| `ServeNeverPanics` | `ServeSpec /\ []~Reconnected => [](panic = "none")` |

The refinement is conditional for the reason given under `contract`: a client that has
reconnected writes over two connections and pieces may overtake each other, so the
order `ProxyCalls` promises is promised for behaviours without a second connection.
Those are what the run has, with its one connection; the theorem needs no bound.

They rest on `FullInductive == Spec => []FullInv`, which adds `PInv` to `IInv`.  Four
parts always hold: nothing comes from a connection that was never accepted (`LinkInv`);
the client knows no call before its handler has sent it, and answers none it does not
know (`AskInv`); numbers and kinds of what was sent are those of an answer (`SentInv`);
and what is under way or in a `ResponseChan` was sent in answer to its call, and so was every
piece written to the caller (`TransitInv`).  Five more hold until a reconnect
(`OneLine`): the last message has the highest number (`LastIsLast`), numbers grow along
the wire (`WireInOrder`), from what is with `readPump` to the wire and from
`ResponseChan` to `readPump` (`QueueInOrder`), from what the caller has to what is
queued for him (`ChunksInOrder`), and a call whose handler has acted on its last message
has nothing under way any more (`SilenceInv`).  `ForwardNeverPanics` is `SilenceInv` at
the moment a handler closes its channel: without `Stop`, a stuck cleaner or a reconnect,
an entry is still in the table then only if the last message ended the call, and no
message is left to be sent into the closed channel.  The refinement has a
lemma per group of steps; that a slot is free in `ProxyCalls` when one is in
`RequestTable` is `SlotAccounting`.

`Answers` is about what a caller has seen, over reconnects too.  `OnceInv` says that no
message is twice between the client and the caller: not twice on the wires, in
`ResponseChan` or among the pieces written, and not in two of these places.  `OutcomeInv`
ties the branch by which a handler left to the message the client sent: "ended" to an end
of a stream, "relayed" to an ordinary answer.  `EndedInv`, until a reconnect, carries the
silence of `SilenceInv` on to the time after the channel is closed.

`RelayProofs` proves, for every finite set of calls, every set of connections, any
capacities of either process and any number of pieces:

| theorem | statement |
|---|---|
| `Implements` | `Spec => Assumed` |
| `Delivery` | `Spec => []Delivered` |
| `Silence` | `Spec => []NothingAfterLast` |
| `PairContract` | `Spec /\ []~Server!Reconnected => ServerProofs!Contract` |
| `PairNeverPanics` | `Spec /\ []~Server!Reconnected => [](panic = "none" /\ ~clientPanic)` |

The invariant `RelayInv` joins the invariants of both processes, taken from
`ContractProofs` and `ClientWorkerProofs`, by what lies between them: neither process is
being stopped (`Quiet`); a pump that holds a message holds one the client has produced,
over a connection that has been accepted (`PumpInv`); what the client has put into its
log about a call is an answer the server expects (`LogInv`); `sendChan` has the messages
of a call once and in order, and with a message waiting all later ones of its call wait
too (`OutInv`); what a pump holds is in no other place and precedes what is in `sendChan`,
and as long as there was one dial there is one pump (`HeldInv`).  With it `Implements` shows
each step to be a step of `RequestTable` under the mapping of `Asked` and `Sent`: a message
has left when a pump lets go of it, written or lost, and `MayLeave` allows it because what
precedes it is gone, or there has been a reconnect.  The theorems of `ContractProofs` then hold
of the pair and, read through `Sent`, give `Delivery` and `Silence`; its assumptions about
constants are proved to hold of the instance (`ServerAssumed`, `ClientAssumed`).
`PairContract` is the refinement with the client in place of the assumption.

`ConnRegistryProofs` proves, for every set of connections:

| theorem | statement |
|---|---|
| `TypeCorrect` | `RegistrySpec => []RegistryTypeOK` |
| `Exclusive` | `RegistrySpec => []SweepExclusive` |
| `Once` | `RegistrySpec => []CloseOnce` |
| `Forgotten` | `RegistrySpec => []ClosedIsForgotten` |
| `Picks` | `RegistrySpec => PicksOpen` |

The invariant has five parts.  `Stages`: the callback is set before the pumps start,
and only a registered connection is in the map, closed or looked at.  `Sweeps`: a
sweeper in its loop holds `clientsMu` and what it is closing is no longer among what it
has to visit.  `OneInside`: `CloseOnce` without cardinalities.  `Gone`: a closed
connection is in the map only while `Stop` is clearing it or the cleaner is about to
delete just that one.  `MarkedDead`: a connection that is being closed is marked dead,
unless `Run` marked it alive while a sweeper was closing it.  `PicksOpen` follows from
the last two: whoever picks finds `clientsMu` free, hence no sweeper in `Close`.  Lemma
`AllSteps` first sorts the steps of the specification by what they do to these parts.

`ClientLinkProofs` proves, for any number of dials, any interval and longest pause:

| theorem | statement |
|---|---|
| `TypeCorrect` | `LinkSpec => []LinkTypeOK`, the cap on the pause included |
| `Watched` | `LinkSpec => []ConnectedIsWatched` |
| `CrashNeedsReconnect` | `LinkSpec => []CrashAfterReconnect` |

`Numbered` says that a pump bears the number of a dial that has taken place, and that a
manager about to start pumps has a connection, which `ConnectedIsWatched` needs.
`CrashAfterReconnect` needs the past of all connections but the last: two pumps of a kind
bear two numbers, so there has been a second dial; the manager dials only on a cleared
flag, and whoever clears it has closed a connection the step before (`Retired`).

`ClientWorkerProofs` proves, for every finite set of requests and any capacities:

| theorem | statement |
|---|---|
| `TypeCorrect` | `Spec => []TypeOK` |
| `Slots` | `Spec => []JobsBounded` |
| `Shape` | `Spec => []AnswerShape` |

The invariant adds `QueueInv`: a request waits in `recvChan` once or in
`messageProcessor`'s hand, never in both, and waiting it is not worked on.  Without it
the request dropped on `Stop` could be one whose goroutine holds a slot.

`FreshnessProofs` proves, for every choice of the window, the timeouts, the cleaner's
period, the grain of timestamps and the differences of the clocks:

| theorem | statement |
|---|---|
| `NothingLiveIsStale` | `Spec => []LiveIsFresh` |
| `CleanerComesFirst` | `Spec => []OwnTimerIdle` |

Both need the invariant `Deadline`: while the cleaner runs, the next tick finds a live
call no older than `RequestTimeout + CleanupPeriod`, because a tick lets a call live
only within `RequestTimeout` and the clock and the time to the next tick move together.
`Stamped` bounds how far a stamp lies behind the clock it was taken from.

`PartsProofs` proves of the specification the run `parts` checks, for any number of
calls, objects and channel slots, any buffer and cut, any body, and whatever file,
environment and flags hold:

| theorem | statement |
|---|---|
| `OneOwner` | `PartsSpec => []SoleOwner` |
| `NothingMixedUp` | `PartsSpec => []NoMixUp` |
| `EveryByteAccounted` | `PartsSpec => []Accounted` |
| `PiecesAreEvents` | `PartsSpec => []PiecesEndEvents` |
| `LastSourceWins` | `PartsSpec => []Precedence` |
| `OnlyValidRun` | `PartsSpec => []RunsAsAssumed` |
| `PartsTyped` | `PartsSpec => []PartsTypeOK` |

* *Message objects* (`PoolInv`).  `SoleOwner` counts pointers, which is not inductive by
  itself: what a channel or a local variable may release next has to be known.  `OnePlace`
  says that every object is at exactly one place (pool, a handler, `SendChan`, a pump, a
  clone, a `ResponseChan`), `OnceQueued` that it is in a channel once, `Holders` which
  program counters go with a pointer, and `InUse` what the object contains there.  A step
  moves one object (`Moves`, `MovesInUse`), forwarding two.
* *Streams* (`StreamInv`).  `Gathering` is the loop invariant of `readEvent`: what it has
  gathered contains no place where it would have stopped.  `PieceEnds` restates
  `PiecesEndEvents` over prefixes of the pieces, so that a new piece changes nothing for
  those before it.  That `FlattenSeq` is concatenation (`FlattenAppend`) has to be shown by
  induction; `NatInd` states induction over the naturals for a set instead of a predicate,
  and follows from the well-foundedness of `<`.
* *Start* (`StartInv`).  `LoadedSoFar` says for each stage what of file, environment and
  flags is in the configuration by then; `ValidSoFar` that a later stage has passed `Valid`.

Assumed for `RequestTable`, `ClientWorker` and `Relay`: finitely many calls, the special values
`NoConn` and `NoMsg` are not connections, messages or requests, capacities are naturals,
and buffers have room for one message.  Assumed for `ConnRegistry`: the special values
are no connections and no processes; for `ClientLink`: its bounds are naturals, and
there is at least one dial; for `Freshness`: times are naturals, the grain is positive,
clock differences integers; for `MCParts`: `NoObject` is neither a request nor an object,
lengths are naturals.

Model-checked only: liveness and its fairness (`EveryCallAnswered`, `LossNoticed`,
`Reconnects`, `AcceptedEnds`), which the provers cannot reason about, and the seven
refutations.

## 5. Not modelled

* The ciphers, compression and JSON: any step may fail to decrypt or parse.
* Payload sizes: the 5 MB cut of request and answer bodies.
* The pools of HTTP request and response objects and of encoders: what is taken from
  them never leaves the function that took it.  The buffer pool is not used.
* `Stop` of either process in `Relay`; it is in `RequestTable` and `ClientWorker`.
* The subcommands `config` and `version`, which print; a listening address that cannot
  be bound (`Start` fails and `main` stops the server).
* `CloseClient`, `SendToClient`, `BroadcastToClients`: no caller in the program.
* `handleModels`, `handleHealth`, `handleStats`, byte counters, logger, `pkg/openai`,
  scripts: they keep no state the program's behaviour depends on.
* Data races on `lastPing`, `lastPingTime` and the map lengths read by `/health` and
  `/stats`: listed as hazards.
* What the client cannot know: that the server has given up a call whose request it still
  carries out.  Such work ends and gives its slot back (`AcceptedEnds`).

## 6. Plan

Order of work, most important behaviour first; all of it is done.

1. `RequestTable` with `ProxyCalls`; type, slot and table theorems.
2. `ConnRegistry`: the locks and the life of a connection.
3. `ClientLink`: reconnects, and pumps that meet on one connection.
4. `ClientWorker`: the client's work and `Stop`.
5. `Relay`: `RequestTable` with `ClientWorker` and the `writePump`s in place of its
   environment.
6. `SSEReader`: events cut at arbitrary read boundaries.
7. `MessagePool` and `Freshness`, with its theorems.
8. `Startup`: precedence and validation of settings.
9. Theorems: `ConnRegistry` (all its safety properties), `ClientLink`
   (`ConnectedIsWatched`, `CrashAfterReconnect`), `ClientWorker` (`JobsBounded`, `AnswerShape`).
10. `ContractProofs` (`ForwardNeverPanics`, the refinement behind `Contract`) and
    `PartsProofs` (`MessagePool`, `SSEReader`, `Startup`).
11. `RelayProofs`: the order of what is in the client's queue and its pumps, with it that
    each step of the pair is one of `RequestTable` (`Assumed`), and what follows for callers.
