# A TLA+ verification of pipeline-gnmi

pipeline collects model-driven telemetry from routers (TCP, UDP, gRPC, gNMI,
Kafka, replay of an archive) and passes it to consumers (Kafka, a gRPC server,
metrics in Prometheus or InfluxDB, a tap file).  Every input and output is a
*node*: goroutines of its own, an unbuffered control channel to the conductor
and, for an output, one buffered data channel that all inputs send to.

## Inventory

| part | source | state | operations and steps | what is hard |
|---|---|---|---|---|
| conductor | `pipeline.go` | node maps, data channels, signal channel | configure outputs, then inputs; on a signal SHUTDOWN / ACK / close, node by node, inputs first | nodes that do not answer, second signal, order of stages |
| message router | `message_router.go` | input queue, output channels, timer | take, route, easy send, congested: reroute, drop, block; drain and close | test-then-send, blocked send against timer, drain at shutdown |
| metrics module, Influx | `metrics.go`, `metrics_influx.go` | workers, round robin, WaitGroup | connect, receive, write, reconnect; SHUTDOWN waits for the workers | hunt for a free worker, a worker that never connects |
| metrics module, Prometheus | `metrics_prometheus.go` | one worker, its buffer | receive, build, post a group to the gateway | messages queued at shutdown, what a failed post leaves in the buffer |
| metrics extraction | `metrics.go`, `codec_gpb.go`, `codec_gnmi.go` | spec tree, tags on the way down, names filled on first use | build the spec, walk a message along with it, build and flush metrics | one array of tags for all levels, names filled by one worker and read by another |
| statistics table | `metrics.go` | stat records, two kinds of lock, evict token | find or create, update, evict stale | table at its limit, eviction against update, unsigned time |
| gRPC output | `xport_grpc_out.go` | children map, mutex, WaitGroup, server | add, feed, remove children; serve, drain, stop, restart | broadcast against leaving clients, reuse of the WaitGroup, drain timeout |
| TCP input | `xport_tcp.go` | listener, connections, cancel channel | accept, read, parse, spray, cancel | asynchronous shutdown, accept errors, blocked spray |
| UDP input | `xport_udp.go` | socket, cancel channel | bind and rebind, read, parse, drop or push, close | shutdown while reading or pushing, len/cap test with several senders |
| gRPC input | `xport_grpc.go` | subscriptions, server, connections | dial, subscribe, receive, redial; dial-out server | one goroutine per subscription, retry, synchronous cancel |
| gNMI input | `xport_gnmi.go`, `codec_gnmi.go` | subscriptions, connection | dial, subscribe, receive, redial; path parsing | as above |
| Kafka | `xport_kafka.go` | client, producer, checkpoint time | feed, close, reconnect; consume, push, mark and commit offsets | offsets against delivery, blocked push against control |
| replay, tap | `replay.go`, `tap.go` | file position, parser, counters | write header and payload; read, parse, push, loop | end of archive, overrun, header and payload |
| streaming telemetry framing | `encap.go`, `encap_st.go` | parser state, header, codec cache | next buffer, next block | state machine across reads |
| codecs and messages | `codec*.go`, `message.go`, `sample*` | decoders, decoded table of a message | decode once for all outputs, produce JSON, describe | outputs that share a message, names that repeat |
| metamonitoring, credentials, logging | `metamonitoring.go`, `crypt.go`, `pipeline.go` | - | scrape handler, RSA, flags | library calls |

## Modules

### MessageRouter, RouterContract, MetricsInflux

`MessageRouter` is `dataMsgRouter` with an arbitrary policy: `route()` is any
choice of channel, `handleCongested()` any of its three answers, so that what is
shown holds for every owner.  Messages are numbered in order of arrival;
`dataChanIn` is the interval `taken+1 .. arrived`, an output channel is the
sequence `sent[k]` of all that was put in it and the number `rcvd[k]` removed.
`pc` is the place in `run()` (`select`, `drain`, `close`, `done`) or in
`handleMsg()` (`route`, `send`, `congested`, `block`, `stop`).
`RouterContract` is the promise: messages are settled one by one in order, each
appended to one output or discarded, in one step.

`MetricsInflux` EXTENDS the router with the policy of `setupWorkers()` (round
robin, reroute while `attempts < workers`, then drop), the workers and the
control loop.  `Write()` may never return: the client is made without a timeout.

### GrpcOut

`outer` is `outermostLoop`, `loop` is `stickyLoop`, `pull[c]` the handler of one
Pull call, `wait` the goroutines in `childrenWG.Wait()`.  `childrenMutex` is held
for one step, except by `feedAllChildren`, which holds it while `loop = "feed"`.
A client's channel is the sequence `put[c]` and the count `taken[c]`.
sync.WaitGroup is external: a Wait() woken by the last Done() must find the
counter 0 when it runs, or it panics, which ends the process (`Alive`).

### Conductor

`loadConfig()`, `main()` and the signal goroutine of `run()`, with every node
abstracted to its control loop (`node`), an input's workers (`worker`, `at`, the
position in the spray over all data channels) and an output's queue.  The sets
`Async`, `Draining`, `Ends`, `Mute` and `Nil` say which nodes show the behaviour found
in the code: acknowledging before the workers have stopped (tcp, gnmi),
servicing the queue before the ACK (nodes with a router), a control loop that
returns on its own (replay at the end of its archive, a tap that cannot open its
file, a kafka input without a codec), taking SHUTDOWN without ever answering (the
cases of `ShutdownAcked` in the modules of the nodes: a gRPC node whose loop has
given up, a metrics module whose worker waits for its server or has no client),
and nil channels without an error (tap with `raw` and `encoding`).

The run `conductor` has one input that is both asynchronous and may end, and one
output that may neither service its channel nor answer; the properties say what
such nodes cost: the input's workers may feed an output that is shutting down, and
a signal may not stop the process.

### DataChannels, TcpIn, UdpIn, SocketInputs

`DataChannels` is what every input sees of the outputs: channel `o` is all that
was `put[o]` and the number `taken[o]`; an output in `dead` never receives again.
`TcpIn` has the control loop (`tcpCtl`), the acceptor (`accept`), and for each
connection its handler (`conn`), its socket and the goroutine that reads for it
(`reader`, `result`).  A failed Accept() goes on with a nil connection and ends in
`accept = "panic"`.  `UdpIn` has the sticky loop (`sticky`) and `runServer`
(`srv`), with the test of the capacity and the send as two steps.  `SocketInputs`
composes the two, so that each is "another producer" for the other.

### RpcBlock, GrpcIn, GnmiIn, RpcInputs

`RpcBlock` is `run()` as it stands in both `xport_grpc.go` and `xport_gnmi.go`
(`block`, `done` for childrenDone, `ctx` numbering the contexts made, `cancelled`)
and the receive-and-push loop of a stream.  `GrpcIn` adds the two sticky loops,
`GnmiIn` the gNMI one.  `watch[s]` is the context that the select statement of a
blocked push has evaluated: for dialout it is `control_ctx` at that time, which a
later sticky loop overwrites.  `grpc.Server.Stop()` does not wait for handlers
(version 1.13 in `go.mod`).  Two panics of the gNMI loop are modelled: a path
with a `[filter]` and a notification without prefix.

### EncapST, TapReplay

`EncapST` has the parser of `encap_st.go` as operators on a parser record: what
it wants next, what a header and a payload do to it.  `TapReplay` has the tap
writing records through a buffer that may fail or be lost with the process, the
archive as a sequence of pieces, and replay reading it, with firstn and loop.
`rec` is all the tap has received; a message without encapsulation gets no record.
`MCTapReplay` names the four messages of the run.

### KafkaOut, KafkaIn, KafkaLink

A pipeline that publishes (`KafkaOut`: setup, feeder loop, retry) and one that
consumes (`KafkaIn`: connection, consumption, push to all channels, checkpoint
and flush) around a topic whose partitions are logs.  The consuming process may
be stopped or killed and started again; what the consumer group remembers is
the `committed` offsets, external to the program.  The code leaves
`Consumer.Offsets.Initial` at the library's default, the newest message: a
consumer that finds no committed offset of a partition (0 here) starts behind
what is in the log, and `skipped`, a history variable, remembers how far that was.

### StatTable, LazyCache, MetricsSpec, MetricsWalk, MetricsWorkers, JsonStream, MetricsOutput

What a metrics module does with a message, and what outputs share of it.

`StatTable` is the table of `statRecordUpdate()` and `evictStale()`: records live
in `heap`, `statRecords` maps keys to them, and a worker between the two locks
holds its record in `upd[w]`, so that the record may be evicted under it.
Timestamps are subtracted modulo `Wrap` (2^64 in the code).

`LazyCache` is the double-checked locking that occurs twice in `codec_gpb.go`:
the decoded table of a compact message (`getGPBDecodedTbl`), which every output
that wants it may be the first to fill, and the internal names of the children of
a node of the specification.  A cache is filled piece by piece while others look.

`MetricsSpec` is the specification tree, as `buildSpecDB` makes it from the
operator's file.  `MetricsWalk` is the walk of a message along with it.  The
recursion of `produceMetrics` is a stack of loops, and a loop is the set of the
pieces of work it has not come to, so that a worker can be interrupted between
any two of them; pieces Go meets in the order of a map have the same place and
come in any order.  Go appends to the slice of tags in place; here the tags of
all levels are always in one shared array, and a level knows how many of them are
its own.  (Go copies when the array is full, which shares less.)

`MetricsWorkers` is the workers: they receive, decode, walk, build, flush and
ship, for Prometheus (lines in a buffer, one post per group of tags) and for
Influx (points in a batch, one write per message, reconnection), and the control
loop shuts them down.  A gNMI update without a value makes the worker panic
(`UpdatePanics`), and a panic ends the program (`Crash`).  The specification of the
module, `WorkersSpec`, leaves open which names and tables the workers find in the
caches, what the specification tree is, and whether another goroutine panics.

`JsonStream` is what `produceByteStream` makes of a GPB message: rows with keys
and content, each a drawer of values by name (`telemetryKvToSockDrawer`), in which
a name that repeats has a list under a name of its own (`Edit`).  A field that has
this name is lost when the list is made after it; if it comes after the list, the
list moves, and the next value for it makes the type assertion panic.  Keys or
content with a value JSON does not have (NaN) are left out of their row.

`MetricsOutput` composes them: the workers with the table of statistics and the
caches they share, the tree of `MetricsSpec`, the control loop with eviction, and
the goroutine of another output that makes JSON of the same messages.  Each of its
steps is by definition a step of `WorkersNext` or leaves the variables of the
workers alone.  `Want` says without passes and stacks what should be
exported of a message; `MetricsExact` compares.  How messages reach the workers
of an Influx module is `MetricsInflux`.  `MCMetrics` has the specification and
the feeds of the run.

## Runs

| run | bounds | what it shows |
|---|---|---|
| `router` | 2 channels of depth 1, input depth 2, 4 messages | every policy, every interleaving with shutdown, consumers and timer |
| `influx_server` | the same, client can be set up | policy, workers, SHUTDOWN handshake, liveness of the ACK |
| `grpc_out` | 2 clients, depth 1, 2 messages, 1 failure, TLS may fail | broadcast, drain and shutdown; ACK and restart under fairness |
| `grpc_out_waitgroup` | as above, TLS does not fail | **violated**: a late Pull reuses childrenWG under a Wait() |
| `conductor` | 2 inputs (one asynchronous, and it may end on its own), 3 outputs (one with nil channels, one that may never answer), depth 1, 2 messages per input, 2 signals | connection, order of the stages, drain, exit |
| `conductor_replay` | 1 input that ends on its own | **violated**: the signal does not stop the process |
| `socket_inputs` | 2 outputs of depth 1, 1 TCP connection with 2 messages, 1 datagram, 1 failure each | complete sprays, drops accounted for; SHUTDOWN of UDP, rebinding, end of the TCP handlers and readers |
| `rpc_inputs` | each kind, 2 outputs of depth 1, 2 streams, 2 messages, 2 sticky loops | complete sprays, one loop at a time, SHUTDOWN and cancel |
| `gnmi_ack` | gNMI, 1 loop, 1 message | **violated**: the outputs are still fed after the ACK |
| `tap_replay` | 4 kinds of message, 2 messages, 2 starts of the tap, with and without firstn | replay sends what was tapped, ACK after flush, loop, SHUTDOWN |
| `kafka` | 2 partitions, 2 sources, 2 messages, 2 outputs of depth 1, 2 lives of the consumer | offsets never ahead of delivery, order per source, SHUTDOWN at both ends |
| `metrics` | either kind of module, 2 workers and another output, feeds of one or two messages in every encoding, table of 0 or 1 records, stale after 1, clock 2 to 3, 1 failed post or write | the metrics asked for and no others, each in its group; statistics, caches, eviction, SHUTDOWN; nothing lost in JSON |

Every property of a passing run is violated by a mutant of a definition listed in
`PROJECT.json`.

What the properties except, because the code does not do it:

* a sticky loop of the gRPC input or output that returns "fatal, no retry" does
  not close childrenDone, and a SHUTDOWN after that is not acknowledged
  (`ShutdownAcked` in `GrpcOut` and `RpcInputs`);
* a Pull that comes in while the gRPC output waits for its children may make
  `childrenWG.Wait()` panic, and with it the process (`grpc_out_waitgroup`;
  `ShutdownAcked` and `ServerComesBack` in `GrpcOut`);
* a kafka input whose encoding has no codec (`json_events`, `template`) returns at
  once, and its control channel has no reader (`ShutdownAcked` in `KafkaLink`);
* a kafka consumer group without a committed offset starts at the newest message:
  what is published before its first connection is not consumed, nor what is
  published around a kill that comes before the first commit (at least a second
  after the first message) (`MarkedWasDelivered`, `SourceInOrder`);
* with `ClientOK = FALSE` (a malformed URL, credentials that do not decrypt) an
  Influx worker never looks at its closed channel and SHUTDOWN is not acknowledged;
* a second signal taken between clean up and exit makes the conductor send on a
  closed channel (`NoSendOnClosed` in `Conductor`);
* tcp and gNMI inputs acknowledge before their workers have stopped, and so does
  a dialout server whose handler is in a push;
* a dialout stream blocked since before a failure to accept looks at a context
  nobody can cancel (`CancelEndsStreams`);
* replay with firstn ends with the archive, although `README-PIPELINE.md:240-242`
  says it loops; the raw tap skips gNMI messages, which have no encapsulation
  (`AckMeansFlushed`), although `README-PIPELINE.md:222-224` says all input streams
  are captured;
* an Influx point of a gNMI message has the tags of the prefix only: `flushMetric`
  is not given the keys in the path of an update, and updates that have the same
  name overwrite each other in the point (`Want`); in every point a tag of a level
  takes the place of one with the same name above it, and a point with a field that
  is not a number is dropped (`Under`, `Level`);
* keys of a key-value row that come after its content are not tags of it
  (`KeysAhead`; the comment at `codec_gpb.go:771-773` says that the order is relied
  on);
* a gNMI update without a value makes a metrics worker dereference nil, and a field
  named like the list of a repeated one can make the JSON of another output panic;
  nothing recovers, so the process ends (`ShutdownAcked` in `MetricsOutput`);
* a field named like the list of a repeated one can also be lost from the JSON, and
  keys or content with a value that is not a number are (`JsonKeepsAll`);
* a Prometheus worker leaves a failed post in its buffer, and what is left goes
  with a later group of the same message (`GroupsApart`); it may also leave
  messages in its channel when SHUTDOWN comes (it shares `shutdownChan` and
  `dataChan` in one select), but none it has taken (`MetricsExact`);
* neither the HTTP client of Prometheus nor the one of Influx has a timeout, so
  SHUTDOWN waits for a server that does not answer (`ShutdownAcked` in
  `MetricsInflux` and `MetricsOutput`), and so do the conductor and the exit of the
  process (`SignalStops`);
* a record evicted between being found and being updated loses the update;
* `evictStale` compares our clock with the device's timestamps: a sensor whose
  device has a clock that lags by more than the time limit is dropped while it is
  updated, although `metrics.go:37` says "not updated for 5 minutes" (`FreshKept`);
* the pass that collects the tags of a key-value level stops after as many fields
  as the specification has tags there, so a tag that repeats hides a later one
  (`KVTags`, and `Want` asks for no more);
* the comment at `codec_gpb.go:818-820` says that a decoded table may be replaced by
  another goroutine's; it is out of date, the second look under the lock prevents
  it (`FilledOnce`).

Why the bounds suffice: two channels, clients, workers, inputs or outputs are
needed for one to be ahead of, blocked on or gone before the other; depth 1 makes
full and empty one step apart; four router messages are one in hand, two queued
and one more than the channels hold, so that hunting, dropping and draining all
happen; two sticky loops or lives of a process are one before and one after a
failure; two partitions let one be marked and the other not; two workers, another
output and a table of one record let a record, a table or a name be found missing
by two at once, and be evicted under the one that found it; a clock of two values
with timestamps from 1 to 4 has samples behind it, at it and ahead of it.  `Wrap`
need only exceed every timestamp.  The theorems below remove the bounds for most of
the safety properties.

Deadlock is not checked in these runs: the systems stop when shutdown is
complete, or when the bounded messages are used up.

## Fairness

Weak fairness of each goroutine's steps (the Go scheduler is preemptive at
channel operations), of timers, and strong fairness of leaving a `select` whose
cancel case is offered again and again (Go's select chooses at random).  No
fairness is assumed of inputs, signals, failures, clients' reading or clients'
cancelling: `gs.Send` returns for certain only once its stream is over.  Outputs
that are not dead service their channels in `SocketInputs`, `TapReplay` and
`KafkaLink`; `RpcInputs` does without.  Strong fairness is also assumed of taking
SHUTDOWN in `run()` (RpcInputs), whose select is offered childrenDone as well.  A
cancelled context, a closed socket or a stopped server ends a blocked receive:
that is what the libraries promise.

In `MetricsOutput` strong fairness of a worker is written with a predicate,
`CanStep`, in place of ENABLED, which TLC would evaluate by trying every action of
the walk.  That `CanStep` is ENABLED of the worker's actions, and its counterpart
for the other output, was checked as an invariant on all the states of the run.
Nothing is assumed of the gateway and the database.

## Theorems

All are proved for every value of the constants, from the named assumptions
(`RouterAssumption`, `GrpcOutAssumption`, `ConductorAssumption`,
`DataChannelsAssumption`, `KafkaOutAssumption`, `KafkaInAssumption`,
`RpcAssumption`, `StatAssumption`, `LazyAssumption`, `SocketAssumption`,
`EncapAssumption`, `TapReplayAssumption`, `SetupsAssumption`: sizes and bounds are natural numbers,
there is at least one channel, output or stream where the code needs one, a
header is not empty, the set of clients is finite, a key has one partition,
timestamps are subtracted modulo more than the clock can reach, the UDP socket is
not one of the TCP connections, a feed is a sequence and the keys of a gNMI path
are finitely many).

* `MetricsProofs`, the router: the invariant is the type invariant, `ExactlyOnce`,
  `SendSafe` and `DrainsQueue` together.  Only the router sends, so consumers can
  only make room between the test and the send; `taken + drain <= arrived` is
  what makes the drain loop never block and `taken + drain >= atShutdown` what
  makes it complete.  `RouterImplementsContract` maps the message in hand to a
  message not yet settled.
* `MetricsProofs`, the Influx module: the policy keeps `seenFull` equal to the last
  `attempts` workers of the round robin (modulo the number of workers), from
  which a drop after `attempts = workers` has seen all of them; a worker is gone
  only after the router has closed its channel and it is empty.
* `OutputProofs`, the gRPC output: `LifeInv` ties `outer`, `loop`, `server` and `childrenDone`
  together, `MapInv` says whose channel is closed and who is in the map,
  `DataInv` accounts for every message a client was offered, `DrainInv` counts
  the handlers still to call Done() so that a returned Wait() means all have.
* `ConductorProofs`: `HookInv` says that the channels collected are those of the
  outputs set up so far and that no input is set up before; `CurInv`, `StageInv`
  and `FirstInv` say how far a shutdown has come (the node being stopped, the
  nodes of the stage left, those that have answered) and which signal it is;
  `WorkInv` and `QueueInv` carry over to the exit that a synchronous input has no
  workers left and that nothing is added to a channel being drained.
* `KafkaLinkProofs`: `PublishInv` orders the numbers in the channel and in each
  partition; `DoneInv` says that all a consumer has handed out is delivered, but
  for the message in hand and the outputs still ahead of it, and that all that is
  marked or committed is; `OffsetInv` that a checkpoint belongs to the consumer
  that is connected, without which a flush after a reconnection could mark what
  the new consumer has not seen.  `SkipInv` says that a consumer hands out, marks
  and commits nothing that was skipped, so that it does not come up later.  `OrderInv` says that what was sent comes after
  all there is before it in its partition, also when it is sent a second time.
* `RpcInputsProofs`: a push that was cut short leaves its message in hand
  (`at[s] <= NumOut`); if the stream were set up again that message would be
  skipped.  `CtxInv` excludes it: only the last context is ever cancelled, by a
  `run()` that starts no other loop, and a loop that starts has a context that no
  stream has looked at.  `LoopInv` says that a client has streams only while its
  loop serves, from which `OneLoop` follows.
* `OutputProofs`, the statistics: of any specification whose steps are those of
  the table, the bound, one record per key, and each record accounting for the
  time between its first and last sample.  A record evicted under a worker is
  still a record of `heap`, so the last holds for it too.  `FreshKept` needs that
  `last` is the newest of all the samples, in whatever order they came, and that
  the clock read before the lock was taken is not ahead of the clock.
* `MetricsProofs`, the caches: the holder of the lock is the only one that
  fills, a cache is published complete, and once published it is not filled again.
* `MetricsWorkersProofs`: `GroupsApart` says nothing of what is still in a buffer
  and on the stack of a walk.  `Walk` does: loops that walk down write nothing, so
  the buffer is empty in them unless a post of the message failed; a loop that
  writes is on the top of the stack, with a flush of the same tags right under
  it, and what the buffer holds has the tags of that flush, although the array of
  tags is shared (for gNMI at least those, as an update appends behind them).
  `HeldBy` says that what a worker holds comes from its own message, because the
  context is cleared or made anew for each.  `SettleInv` says that a message taken
  and not settled is with a worker, from which `WorkersSettled` follows: when all
  workers are gone there is none.  The theorems hold for any feed, specification
  tree, cache contents, workers and failures.
* `SocketInputsProofs`: `SprayInv` and `PacketInv` say that whoever sprays has a
  message in hand and an output to go to; `StickyInv` ties the sticky loop, the
  listener and `runServer` together, from which nothing is read any more after a
  cancel and the one message cut short is the last.  `UdpKnown` bounds what is in a
  channel or counted as dropped by what was read: a number sent or counted is new
  to that output.
* `TapReplayProofs`: the properties count the units of a record, which is not
  inductive.  `Framed` says instead where units stand: behind every unit of a
  record are all the units before it, records follow in the order they were
  begun in, and one that breaks off is never continued.  It holds of the file
  with what the writer has buffered for it, so that it survives each way to
  spill, to fail after any number of units and to lose the buffer.  `CountWhole`
  shows that a record has as many units as it should exactly when its last one
  is there (`EndOf`), which turns `Boundary` and `TornBefore` into `WholeTo` and
  `TornTo`.  `ReaderInv` then follows replay: as long as nothing torn is behind
  it, it stands in front of a record or behind its header with that record's
  length and codec, also while the archive grows under it.

Proved and not repeated in a run: type correctness of the router and the gRPC
output, `ExactlyOnce` and `InOrder` of the router, `GoneIsForgotten` and
`AckMeansStopped` of the gRPC output.  The inductive invariants of the conductor,
Kafka, the RPC and socket inputs, tap and replay, and the metrics workers (with
the flush that `Walk` speaks of taken from the stack) were also checked with TLC
on the instances of the runs.

The theorems on the metrics workers are about `WorkersSpec` and not about
`MetricsOutput!Spec`, because `MetricsOutput` reaches recursive definitions, which
the prover does not accept; the run checks `GroupsApart` and, in `MetricsExact`,
`AckMeansSettled` of the composition.

Only model-checked: liveness and ENABLED (out of the prover's reach); and of
`MetricsExact` what it says beyond `AckMeansSettled`, and `JsonKeepsAll`, which
compare with recursive definitions (what those compute for every message needs an
induction over data).

## Not modelled

* REPORT (the conductor never sends it), logging and meta-monitoring counters,
  flag parsing and configuration parsing (a specification with fields below a tag
  is refused there: `SpecAssumption`); wall-clock durations (a timer may fire at
  any time after it is armed); credentials.
* Decoding: a decode is a choice of outcome.  A block of several messages on a TCP
  or UDP input is read as one message.  A row of a key-value message has its keys
  and its content once each, in either order.  Kafka topic templates and the tap's text
  modes.
* Values: numbers are not converted to floating point (uint64 loses precision
  there), of the errors of the Influx library's NewPoint only the one for a field
  that is not a number occurs, and the hash
  that names a Prometheus group is taken to tell groups apart.
* The order in which Go ranges over a map: it makes the tags of a gNMI prefix come
  in any order, and as the group's name is a hash of the tags in their order, the
  same series may be posted to different groups.  A group is a set of tags here.

## Plan

1. several messages per block in the socket inputs, and the datagram state of the
   framing;
2. conversions as operators against a reference: sensor paths, topic names.
