# A verification model of ferrings

ferrings is a native Node.js add-on that serves TCP and HTTP from Linux
`io_uring`. A Rust worker thread owns one ring; JavaScript sends it commands
through a bounded channel and gets events back through a bounded queue. On top
of that a JavaScript facade offers TCP and TLS servers; around it are a loader
that picks the native binary, a command-line program with a hardware test, and
the scripts that publish the packages. This directory holds TLA+ models of these
parts, the TLC configurations that check them, and proofs for TLAPS. Paths
below are relative to the repository.

## 1. The system

| component | state | operations | talks to |
|---|---|---|---|
| TCP worker (`src/uring.rs`, `run_tcp_worker_inner`) | `connections`, `id_to_fd`, `next_connection_id`; per connection its send queue, active send, closing flag and grace ticks | accept, receive, send completion, command drain, half-close expiry, idle expiry, shutdown drain | kernel ring, command channel, event emitter, buffer pools |
| fixed send buffer pool (`FixedSendBufferPool`) | free list of slots | `alloc`, `release`, `copy_slot` | TCP worker; the kernel reads the slots |
| command channel and server handle (`src/lib.rs`, `TcpNativeServer`) | bounded channel, eventfd, stop flag, join handle | `send`, `sendAndClose`, batches, `closeConnection`, `stop` | JavaScript calls it; wakes the worker |
| event emitter (`TcpEventEmitter`) | batch, number of events in flight | `emit`, `flush`, release after the JavaScript callback | TCP worker, JavaScript thread |
| receive buffers (`ProvidedBufferRing`, `LegacyProvidedBuffers`) | ring tail, buffers the kernel may fill | `consume_recv`, `discard_recv`, recycle | kernel, workers |
| HTTP worker (`run_worker_inner`) | connections with a request probe and a response offset | accept, receive, send, idle expiry | kernel ring |
| echo worker (`run_tcp_echo_worker_inner`) | one pending echo per connection | receive, send | kernel ring |
| zero-copy receive (`ZcrxInterface`, `*_zcrx_*`) | area, refill queue head and tail | recycle, refill, the workers' variants | kernel, network interface |
| server lifecycle (`start_*_server`, `stop`, `Drop`) | thread, eventfd, listener | start with a readiness wait, stop | all of the above |
| statistics (`TransportStats`) | counters | record, `info()` | every component |
| options, listener (`*Config::from_options`, `bind_tcp_listener`) | none | validation, socket options | start |
| TCP facade (`tcp-transport.js`, `IoUringTcpTransportServer`) | native server, connections by id, keep-alive timer, closed flag | `start`, `listen`, `close`, `ref`, `unref`, sends, batches of events | native server below, listeners of the application above, which call back or throw |
| TLS facade (`IoUringTlsTransportServer`) | a TCP server of its own, TLS sockets, handshake timers | `start`, `close`, handshakes | TCP facade, `node:tls` |
| bindings loader (`native.js`, `index.js`) | what was tried and failed, what was loaded | loading, once | file system, packages, environment |
| hardware smoke test (`zcrx-smoke.js`) | report, servers started, counters | one run | servers, network, NIC |
| command line (`bin/ferrings.js`) | arguments, report, exit status | five commands | all of the above |
| release scripts (`scripts/publish-npm-packages.js`, `check-release-publication-state.js`, `check-published.js`, `check-registry-install.js`) | none of their own; the registry's | look, publish, verify, install | npm registry, `release.yml` |

What is hard in it: the worker, the kernel and the JavaScript thread act
concurrently; completions of one descriptor arrive after the descriptor has a
new owner; a zero-copy send completes twice and its buffer must outlive both;
sends are partial, fail, are retried by another path; a connection may be
closed by the peer, by a command, after its sends, by two timeouts, by a failed
send or by the shutdown, in any combination; entries are pushed long before
they are submitted. In the facade every listener may close or restart the
server or throw, in the middle of a start, a close or a batch. Release runs die
half-way, lose answers and overlap. `PROJECT.json` lists these hazards at their lines with
the properties that watch them.

What makes each part correct, in a sentence each:
- TCP worker: the table is consistent, every descriptor has one owner, every
  connection has the operations in flight it needs and no more, bytes leave in
  order and without a gap until the connection closes, every connection ends
  with one close event, and closing, sending and stopping come to an end;
- buffer pool: each slot is free once or held once, and held as long as the
  kernel reads it;
- command channel: no accepted command is forgotten, no wake-up is lost;
- event emitter: the bound on events in flight is kept and given back;
- receive buffers: a buffer is either with the kernel or with the worker;
- HTTP worker: one response for the first request, then the close;
- refill ring: the tail never overtakes the head;
- TCP facade: the server and its native servers agree whatever a listener does;
  a connection is told its events in order and its close once;
- TLS facade: one TCP server at a time, every handshake that has a timeout ends,
  every socket is tracked until it closes;
- loader: what is loaded is what the host and the environment allow, and a
  failure names what was tried;
- smoke test and command line: a pass has its evidence, servers are stopped
  whatever fails, and the exit status says what the report says;
- release: the root package comes last, nothing is announced that is not
  complete, an npm that does not answer decides nothing, and a rerun finishes
  what another run has begun.

## 2. Modules

| module | what it is |
|---|---|
| `TcpWorker` | the TCP worker, the command channel, the kernel and the JavaScript thread |
| `TcpStream` | the abstract specification of a connection: an ordered stream that opens, is fed, leaves, closes |
| `MCTcpWorker` | symmetry sets for TLC |
| `TcpWorkerProofs` | types, accepts, consistency and ownership of the connection table, no forgotten descriptor, proved |
| `TcpSendProofs` | buffers, sends, the refinement of `TcpStream`, the life of a connection, what stays armed, proved |
| `NativeServer` | start, stop, the command channel, the eventfd and the skeleton of a worker |
| `NativeServerProofs` | no lost wake-up, descriptors and thread, proved |
| `EventQueue` | the event emitter, the count of events in flight, the threadsafe function |
| `EventQueueProofs` | the count is exact and bounded, events are in order and accounted for, proved |
| `HttpProbe` | the recognition of a request in the data of a receive, and its definition |
| `HttpWorker` | the HTTP worker with its kernel side |
| `HttpWorkerProofs` | whole connections and answers, only requests answered, the probe exact for all data, proved |
| `TcpFacade` | the TCP server of `tcp-transport.js`, with the calls in progress as a stack |
| `TcpFacadeProofs` | the server and its native servers agree, the protocol of the connections, the count of closes, proved |
| `TlsFacade` | the TLS server over it |
| `TlsFacadeProofs` | one TCP server, tracked sockets, timers of handshakes, proved |
| `NativeLoader` | `native.js` and the error report of `index.js` |
| `ZcrxSmoke` | the hardware test of zero-copy receive |
| `Cli` | the command-line program, with `ZcrxSmoke` behind one of its commands |
| `Release` | the release scripts, the registry and the workflow |
| `ToolingProofs` | the right binding and the report of a failed load; evidence of a pass, servers stopped and the exit status; order and completeness of a publication, npm errors that decide nothing, proved |
| `MCNativeServer`, `MCEventQueue`, `MCHttpWorker`, `MCTcpFacade`, `MCTlsFacade`, `MCNativeLoader`, `MCCli`, `MCRelease` | what the runs of these modules instantiate |

`TcpWorker` takes a command with its wake-up in one step and emits events
without loss. `NativeServer` and `EventQueue` look into these two interfaces
and leave out what the worker does between them, so that each can be checked
and proved in detail.

### TcpWorker

`pc` says where the worker thread is:

    drain -> expire -> (idle ->) wait -> process <-> redrain, and around again
    process -> stop -> wait -> stopProcess -> stop ... -> force -> exited

The actions correspond to the code as follows.

| action | code |
|---|---|
| `TakeCommand`, `ExecuteSend`, `ExecuteClose` | `drain_tcp_commands`: one command is a sequence of steps (a send, a close, a close after the sends); the drain goes on while the channel has commands, and JavaScript may add more meanwhile |
| `ExpireHalfClosed`, `ExpireIdle`, `CloseNext` | `close_expired_half_closed_connections`, `close_idle_tcp_connections` and the loops that call `close_tcp_connection` |
| `EnterWait`, `Reap` | `wait_for_completions` and the copy of the completion queue |
| `HandleAccept` | `handle_tcp_accept` with `connection_limit_reached`, `reject_connection` |
| `HandleRecvData`, `HandleRecvNoBuffer`, `HandleRecvEnd` | the three ways through `handle_tcp_recv` |
| `HandleSend` | `handle_tcp_send` with `finish_tcp_send_completion` (`FinishTcpSend`, `TakeNextSend`) |
| `HandleRead`, `FinishCommandCompletion` | `OP_COMMAND`: drain, then arm the read again |
| `HandleUnknown` | completions whose id is not in the table |
| `EndLoop` | `ring.submit()` and the loop condition |
| `StopRound`, `StopEndRound`, `StopForce`, `ForceClose`, `Exit` | `drain_tcp_shutdown_sends` and the return |
| `WorkerFails` | `wait_for_completions` returns an error |
| `Enqueue`, `Stop` | `TcpNativeServer::enqueue_command`, `stop` |
| `Kernel...` | the kernel (external): multishot accept and receive, sends with partial results and errors, zero-copy notifications, the eventfd read |

Three maps are kept apart, as in the code: `connections` by descriptor,
`id_to_fd` by id, and the kernel's own `fdSock` from descriptors to sockets. A
record with id 0 stands for "not in the map"; the code never assigns 0.
Payload bytes are numbers: the n-th byte accepted for a connection is n.
`wire`, `chunks`, `sockOf`, `accepted` and `events` are history.

What is abstracted, and why it may be:
- *Clock.* An idle connection may expire whenever the worker looks.
- *Kernel timing.* Sends, receives and the eventfd read complete only while
  the worker waits. The worker reads the completion queue nowhere else, these
  completions touch nothing the worker reads between two waits, and a socket
  that is closed in between makes the operation fail or end, which the
  kernel actions also allow. A wire transfer before a close in the same round
  is thereby shown after it as a failure or before it as a completion.
  Accepts take descriptor numbers, which closes free, so they happen at any
  moment.
- *Submission.* Entries are submitted when the worker enters the kernel.
  (`push_entry` submits earlier when the submission queue is full; queues of
  that length are beyond the bounds.)
- *Errors.* A receive that ends with an error takes the path of an orderly end
  (`result <= 0`). Every send error is the same error. An error of the
  eventfd read, which makes the worker return, is covered by `WorkerFails`.
- *Events* are emitted without loss here; the bounded queue is a part of its own.
- *Bound names.* `MaxSockets`, `MaxChunks` and `MaxCommands` bound what the
  environment does; `IdMax` stands for 2^32 - 1.

`HandleUnknown` leaves out one branch of `handle_tcp_recv`: a connection found
under an id that is not its own. `TcpWorkerProofs` shows that there is none
(`IdsResolve`).

### TcpStream

`TcpWorker` refines it through `Phase`, `accepted` and `wire`
(`ImplementsTcpStream`): ids live once; bytes leave in the order they were
accepted; an open connection leaves none out, a closing one may; nothing leaves
after the close. "May" is deliberate: after a failed send the code goes on
with the next payload, so that the peer sees a stream with a gap before the
close, and a closing connection drops the rest of a partial send (see the
findings).

### NativeServer

The JavaScript thread is in one call at a time (`js`): `Start`, `Spawn`, then
`Started` or `StartFails` when the worker has answered, failed, or two seconds
have passed; `TrySend` and `Wake` are the two steps of `enqueue_command`;
`Stop`, `WakeToStop` and `Stopped` those of `stop`. The worker goes

    setup -> announce -> loop -> drain -> wait -> redrain -> rearm -> loop
    setup, loop, wait -> close -> exited

with `read`, the eventfd read, pushed, armed or done: what `submit_command_read`
pushes is armed by the `ring.submit()` at the end of the round, and would be by
the next `wait_for_completions`. `fds` are the server's
own descriptors. Sends to a full channel or to a worker that is gone change
nothing and are left out, as are starts whose listener or eventfd cannot be
made, which close what they have opened before they return. The set-up can
fail at one point, the worker in its wait: what follows is the same wherever
it happens. Without commands it is the HTTP or the echo server.

### EventQueue

The worker's loop is reduced to the phases that end with a flush (`EndPhase`);
`Emit` stands for any event in them. A flush takes the batch (`StartFlush`),
reads the count (`Load`), swaps it (`Swap`) and calls (`Call`); without slots
it drops the batch (`Drop`). `Dispatch` and `Return` are a callback with the
release of its slots, `Stop` and `Joined` a `stop()` from a callback or from
elsewhere, `TearDown` the end of the JavaScript environment, after which calls
are refused (`Closing`). What the threadsafe function does is external: it
keeps calls in order, runs one at a time, and empties its queue without
calling when the environment goes.

### HttpWorker and HttpProbe

The loop is `CloseIdle`, `EnterWait`, `Reap`, the handlers, `EndLoop`; the
handlers are `HandleAccept` (`handle_accept`), `HandleRecv` (`handle_recv`),
`HandleSend` (`handle_send`) and `HandleUnknown`. Connections are closed at once
(`close_connection`), also with a send in flight. `connections`, `id_to_fd` and
the kernel's `fdSock` are kept apart as in `TcpWorker`, and the kernel acts at
the same moments. The response is the positions `1..ResponseLen`; `wire` is the
history of what left, for whom and on which socket. Loops that close several
connections are one step: nothing reads the table between two closes, and an
accept between them is the same as one after them. Two operations
are left out: the eventfd read (see `NativeServer`), and the notifications of
zero-copy sends, which the worker only counts.

`HttpProbe` translates `HttpRequestProbe` byte by byte; `IsRequest` is what it
should decide. `HttpWorker` uses it for the data of each receive (`Requests`).

### TcpFacade

JavaScript runs one call at a time, but every listener may call back into the
server. So the state has a stack of calls in progress; a frame holds the steps
its call has still to make, and whether it will throw in the end. A listener is
a frame on top: the application then closes, starts, sends, references, returns
or throws.

| action | code |
|---|---|
| `Start`, `StartFails`, `UndoStart` | `_startWithOptions`: the start, a `startBatch` that throws, a callback or listener that throws |
| `Close` (`Shut`) | `close`: everything is reset first, then the connections, the callback and the server are told |
| `Deliver`, `IgnoreEvent`, `HandleConnect`, `Install`, `HandleData`, `HandleClose` | `_handleNativeEvents`, `_handleEvent` |
| `TellConnection`, `TellServer`, `ListenerReturns`, `ListenerThrows`, `CallEnds` | `emitCapturing` and what the listeners do |
| `Send`, `Ref` | writes and batches, `ref` and `unref` with the keep-alive timer |
| `Report` | the native server from outside: what happens on its sockets, and the event queue, where an event is dropped without slots (`EventQueue`) or waits for the event loop, also after `stop()` |

Starting again while events or calls of the last run are not over sets
`overlap`. The code does not tell such events from those of the new run (see
below); `ConnectionProtocol` and `StaysInItsRun` hold up to that point,
`ServerWhole`, `NobodyForgotten` and `ClosesTold` always.

Any event may be dropped. A connection whose 'connect' was is made by its first
'data' (`_connectionFor`, `tcp-transport.js:350`; `found` in the model). When its
'connection' listener closes the server, `_handleEvent` goes on with the 'data':
it is told once after the 'close'. `ConnectionProtocol` allows that ("late") for
such a connection only. A connection whose 'close' was dropped stays in the map
until the server closes. Left out is an id that comes back within a run, which
takes 2^32 - 1 connections.

### TlsFacade

The stack is the same. `HandleTcpConnection` makes a TLS socket, with a handshake
timer if the server's `handshakeTimeout` (a variable that is chosen at the start
and stays) is greater than 0, which the socket keeps in `timed`; `Secure`,
`HandshakeTimeout`, `SocketEnds` and `SocketEvents` are what may become of it; `UndoTcpStart` and `UndoStart` are the two levels of the undo
of a start whose listener throws. The TCP server below is reduced to running or
closed. TLS itself (`node:tls`) is external: a handshake succeeds, fails or
hangs.

### NativeLoader

The host (platform, architecture, what it tells of its C library) and the
environment variables are chosen in `Init`. `Try` takes one native candidate
after the other, `TryWasiFile` and `TryWasiPackage` the WebAssembly ones,
`Finish` checks and stamps, `Report` is the error of `index.js`. A `require` is
external: it fails, or loads something with a version and possibly a target
mark of its own. The block of `native.js` that takes over the target of a
patched-in fallback (lines 752-771) is left out: this package patches none in.

### ZcrxSmoke and Cli

`stage` is where `runZcrxHardwareSmoke` is; each step fails or goes on, and the
three servers run one after the other. What the report claims is compared with
`through` and `rose`, what really happened. Between `server.start()` and the `try`
block the code asserts what `start()` returned (`zcrx-smoke.js:526`, `566`, `610`);
when that fails the server goes on running and is not in the report, which is
the third way of `StartServer`. `ReportedAreStopped` speaks of the servers that
are in the report. `Cli` adds the arguments, the four
other commands and the exit status; of the arguments only those that change the
control flow are kept.

### Release

Runs of the workflow are records with a `pc`; `Look`, `Decide` are
`check-release-publication-state.js`, `PackageExists`, `Put`, `Recheck` are
`publish-npm-packages.js`, `Verify` is `check-published.js`, `Install` is
`check-registry-install.js`. External are the workflow around them (`Begin`,
`Build`, `Announce`, `Die`) and the registry: it accepts a version once, shows
it later (`ShowUp`), loses answers, and remembers failed publications in its
transparency log. A run's `full` is history (npm showed everything when it
began). `calm` marks the moment from which on nothing fails that
need not.

## 3. Runs

Every run takes about three minutes or less with two workers. Deadlock is not checked
where a system rightly stops: its environment has used up its bounds, its worker
has returned, its program has ended. It is checked in `release`.

| run | instance | question |
|---|---|---|
| `sends` | one connection, zero-copy, 1 slot of 2 bytes, batches, stop with 2 drain rounds, failing worker | do buffers and bytes survive partial sends, both fallbacks, notifications and closes, is the stream implemented, do closing and stopping end? |
| `reuse` | 2 descriptors (symmetric), 2 sockets, limit of 1 connection, idle timeout | are table, descriptors, armed operations and events right through reuse? |
| `server` | 2 starts, 4 commands, channel of 2 | can a wake-up, a thread or a descriptor get lost between start, send and stop, and do commands and `stop()` end by the wake-ups alone? |
| `events` | 6 events, capacity 3, batches of 2 | is the count of events in flight safe, are events in order and accounted for, do they settle, and does `stop()` return when callbacks hold all slots? |
| `http` | 2 descriptors, 2 sockets, limit of 1, 2 receives with data, response of 2, both fallbacks; the probe on all inputs of up to 7 or 5 bytes | are requests, and nothing else, answered, once and in order, and their connections closed? |
| `facade` | 2 connection ids, 2 starts, 2 events for each, any of them dropped, 4 calls | does the server stay whole, and is every connection told what it must, whatever listeners do? |
| `tls` | 2 starts, 2 connections, 3 calls, `handshakeTimeout` 0 or not | is there one TCP server, is every socket tracked, has every handshake its timer if it asks for one, and does such a handshake end? |
| `release` | 1 native package, 2 overlapping runs, 2 attempts | is the order kept, is what is announced complete, does a failing npm never pass for a published or a missing package, and do reruns finish? |
| `loader` | a host for every branch, all environments, the limit of 16 attempts | is the right binding loaded, and the right error reported? |
| `cli` | all options, 3 kinds of report file, 2 interfaces | does a pass mean evidence, is every server in the report stopped, and does the exit status say what the report says? |
| `find_partial_send`, `tls_restart` | the smallest instances | the findings below |

Some properties are conjunctions of parts that belong together and are defined
beside each other: `BuffersSafe` (slots, buffers of the kernel, stream),
`SomeoneFinishes`, `DescriptorsOwned` (the two maps, the descriptors),
`ArmedOnce`, `ConnectionLife` of `TcpWorker`; `CountSafe` of `EventQueue`;
`ServerWhole` and `CallsTakeEffect` of `NativeServer`; `ConnectionsWhole` of
`HttpWorker`; `ServerWhole` of `TcpFacade`.

Why the bounds suffice: the worker treats connections alike and they meet
only in the pool, the limit, the descriptor numbers and batches, so that two
are enough for interference; one slot makes the pool run dry; a payload of two
bytes can be sent in part; a queue of one is full with two payloads; two sockets
on two descriptors show reuse under a pending completion. A channel of two is
full, empty and in between; a second start shows what the first has left. A
capacity of three is not a multiple of the batch size, so that batches are
refused with slots to spare, and equals the limit of the threadsafe function.
Two receives on one HTTP connection are a pipelined request, two sockets one
after the other show reuse; seven bytes hold a header end behind any three
others, and five a method. In the facades two runs overlap, two ids and two
events make a batch with something before and after a listener, and four calls
are a start, a nested close, a nested start and one more. One native package has
an order with the root; two runs overlap at every step, and the argument for more of
either is the proof; the two packages can be seen in part. The loader's hosts take every branch;
none has more than six candidates, so that the limit of 16 attempts never cuts.

The HTTP run has two kinds of data, a request and half of a header end. The
passing runs of the TCP worker use non-empty payloads: `ConnectionLife` is false
with empty ones (see the known behaviour below).

Every property of a passing run has a *mutant*: a variant of a definition with
a plausible fault (marked "Mutant" in the modules) under which TLC finds the
property violated.

### Fairness

`WorkerFairness` is weak fairness of the worker thread: the wait ends after
100 ms at the latest, so it never depends on the kernel. `StopReturns` needs no
more. `CloseCompletes` has `SendFairness` as its hypothesis: the kernel finishes
the sends of a connection and lets go of zero-copy buffers. It is strong
fairness only because the model lets the kernel act during waits, which recur.
The code does not bound how long a peer may leave a send unfinished, so
`CloseCompletes` is relative to peers that read or connections that break.
`RequestsEnd` of `HttpWorker` is relative in the same way, connection by
connection: its hypothesis is that no send of the connection stays with the
kernel for ever.

`NativeServer` assumes that both threads run and that the kernel completes a
read that can complete; it assumes nothing of the 100 ms, so that
`CallsTakeEffect` rests on the wake-ups alone. `EventQueue`
assumes that both threads run and that callbacks return.

`TlsFacade` assumes that calls end, that the event loop runs timers that are due
and emits what destroyed sockets owe; `HandshakesEnd` is about a
timeout greater than 0 (without one a peer that hangs is held until it leaves or the
server closes), and makes an exception when a listener throws out of a timer or an `error` event, because that ends the process
by default. `Cli` assumes that the program goes on and timers fire, not that
requests are answered. `Release` assumes that packages show up, runs go on, and a
maintainer starts a failed tag run again; `RerunsFinish` is about a time in which
nothing fails any more, and excludes packages published wrong, blocked by their
log entry, or complete under another dist-tag only.

### Findings

1. *The rest of a partial send is lost when closing* (`find_partial_send`,
   `src/uring.rs:5300`).
2. *A TLS server restarted in the callback of its close destroys its
   connections* (`tls_restart`, `tcp-transport.js:501`): the `close` event of
   the old TCP server comes after the callback and marks the new run closed.

`PROJECT.json` quotes what each one disagrees with.

*Known behaviour without a run of its own*, met while modelling; the properties
are stated around it, as the hazards' notes say:
- a connection accepted while the worker stops leaves its descriptor open
  (`src/uring.rs:4604`; `test/tcp-zero-copy-shutdown.js:55` expects none left);
- an empty answer to a half-closed connection clears its grace period and sends
  nothing, so that nothing closes it (`src/uring.rs:4397`);
- a receive pushed for a connection that closes in the same round is armed on
  the next connection with the same descriptor, which loses what it takes
  (`src/uring.rs:5102`); likewise a send of the HTTP worker, whose response then
  goes on there (`src/uring.rs:5762`);
- after a failed send the next queued payload is still submitted, so that the
  peer may see a gap before the close (`src/uring.rs:5317`);
- a payload that does not fit in the send queue is dropped, and `sendAndClose`
  closes the connection without it; `send_queue_drops` counts it
  (`src/uring.rs:5347`);
- a connection whose 'connect' event was dropped and whose 'connection' listener
  closes the server is told one 'data' after its 'close' (`tcp-transport.js:325`);
- the undo of a start that fails closes whatever run there is by then, also one a
  listener has started in between (`tcp-transport.js:171`); the TLS server's undo
  likewise forgets the TCP server of such a run (`tcp-transport.js:515`);
- events of a stopped native server are handed to a server restarted at once,
  whose connection ids start at 1 again (`tcp-transport.js:149`);
- a handshake timeout is reported twice, by the timer and by the error it
  destroys the socket with (`tcp-transport.js:555`, `580`);
- `ferrings doctor --require-ready` without `--json` gives 1 and not 2 when the
  binding does not load, because printing the missing capabilities throws
  (`bin/ferrings.js:538`);
- `zcrx-probe --all` with no interface at all is ready (`bin/ferrings.js:162`);
- the programmable server of the smoke test asserts in its event callback, so
  that a request in two pieces ends the process (`zcrx-smoke.js:605`), and an
  error writing the report replaces the outcome (`zcrx-smoke.js:113`);
- an assertion about what `start()` returned leaves its server running
  (`zcrx-smoke.js:526`, `566`, `610`), and a programmable server then keeps the
  process alive after its exit status is set;
- two release runs with different dist-tags can leave a version that each of
  them calls a conflict.

## 4. Proofs

Everything here holds for every value of the constants.

`TcpWorkerProofs` proves `TypeCorrect` (`Spec => []TypeOK`),
`AcceptsNeverOverwrite` (`Spec => []AcceptedFdsAreNew`) and
`NoDescriptorForgotten` (`Spec => []NoFdForgotten`), and `TableOwnsDescriptors`
(`Spec => []DescriptorsOwned`) under `IdsSuffice` (`IdMax > MaxSockets`: more ids
than sockets).

*The argument.* A handler finds a connection by its id and then updates the
record under that descriptor; types alone do not survive that, because an id
might lead to a descriptor without a record. So `IInv` adds `IdsResolve` (an
id in `id_to_fd` is the id of the record it leads to), which an accept would
break if it overwrote a live entry; hence `AcceptsNew` (descriptors in pending
accepts are open, new and different), for which the kernel must not hand out a
live descriptor; hence `LiveOpen` (live descriptors are open). `ForceTodo` and
`Phases` say what the loops and the batch hold in each phase. The table proof
needs the other direction as well (`FdsResolve`), which an accept would break
if it reused an id: ids and sockets are handed out in order, an id is never
ahead of its socket (`IdsUsed`, `SocksUsed`, `AcceptOrder`), so that with
`IdsSuffice` ids do not wrap (`TInv`). Without it the property is false: nothing
in `handle_tcp_accept` looks whether an id is in use. A descriptor is forgotten
by nobody because a completion with a descriptor leaves the queue only through
the accept handler, which enters or closes it.

Each action has a lemma; `NextKinds` sorts the actions into those that
leave ids and sockets alone (`Quiet`) and the four that do not, so that the
second proof has only these to look at.

`TcpSendProofs` continues with `SInv`: `TInv` and, for every id, `Sound`. An
active send has exactly one *token*, which is an entry to be submitted, an
operation of the kernel, a buffer the kernel still holds, or a final completion
nobody has read (`OneToken`); a zero-copy notification that is to come belongs
to a first completion that is to come or is stored in the payload
(`HoldsPaired`), and comes after it (`FirstsFirst`); tokens describe the payload
as it is now (`EntriesMatch`, `OpsMatch`, `ResultsMatch`); an open connection's
stream has left as far as the token says (`Reached`, `AllSent`), and its payloads
follow each other without a gap (`AllFed`). Tokens are counted in sequences
(`Cnt`), for which the module begins with the lemmas it needs.

Thirty actions times a dozen conjuncts would be unreadable, so the proof goes by
*kinds*: `EveryKind` shows that each step of the worker, the kernel and
JavaScript does one of a dozen things to a connection (it leaves it alone,
submits, completes, notifies, drops, enters, feeds, stores, finishes, ends in
force or by a failure), and each kind has one lemma per conjunct. From `SInv`
follow `BuffersAreSafe`, `SendsAreFinished` and `SendsKeepTheirSocket`. All
theorems of this module have `IdsSuffice` as a hypothesis.

`TcpStreamImplemented` (`Spec => ImplementsTcpStream`) is the refinement, by the same
kinds: `KeepsStream`, `CompletesStream`, `BirthsStream`, `FeedsStream` and so on
map each kind to `Open`, `Accept`, `Transmit`, `BeginClose` or `Close` of `TcpStream`,
or to a stutter.

`ConnectionsLive` (`ConnectionLife`) has its invariant beside `SInv`: who only waits
to close has a send under way, a grace period, or a place on the list of the
loop that is running (`Closers`), the shutdown starts only when it is asked for
(`StopIsAsked`), and the lists are empty in the other phases (`TodoEmpty`). It has
a second hypothesis, `0 \notin Lens`: an empty payload ends the grace period and
sends nothing, and the property is then false (see the known behaviour above).
`ListensOnce` (`ArmedOnce`) counts again: an accept, an eventfd read and a receive per
open connection are each in the queue of entries, in the kernel or in an unread
final completion, once (`AInv`).

`NativeServerProofs` proves `WakeupsAreNotLost` (`Spec => []NoLostWakeup`) and
`ServerIsWhole` (from `DescriptorsStayOpen` and `NothingIsLeftBehind`). A lost
wake-up is excluded because the worker goes to its wait only with a read armed
or done (`Listening`), with an empty channel, and with the stop flag unset when
it looked: whatever JavaScript does after that raises the count under an armed
read.

`EventQueueProofs` proves `CountIsSafe` (`Spec => []CountSafe`) from
`CountIsExact`, `CapacityIsKept` and `QueueIsNeverFull`. The count that has been checked is the
one that is swapped in (`Checked`), a flush holds at least one event
(`Flushing`), and what holds slots outside the queue is covered by the count
even when the environment has gone (`Covered`), so that it never falls below
zero. Since every call holds a slot and `eventQueueCapacity` is at most
`EVENT_QUEUE_CAPACITY`, the threadsafe function is never full.
`DeliveredInOrder` and `EventsAccounted` follow from a second invariant, `OInv`: what
was delivered, what is queued, what is being flushed and what is in the batch are
increasing sequences, each before the next (`Chain`), so that a batch that goes
from one to the other keeps the order; they are apart from what was dropped and
what was lost with the environment, and the dropped ones are as many as the
counter says.

`TcpFacadeProofs` proves all five invariants of the facade.
`ServerStaysWhole` (`Spec => []ServerWhole`) needs no look at the stack: of the steps of
calls in progress only the undo of a start touches the native server, and it
does what close does.

`NobodyIsForgotten` and `FacadeTyped` need the *shape of the stack* (`FInv`). A
batch is only ever the outermost call; an id about to be installed is not in the
map; a step that tells 'connection' is the very next one of the innermost call;
the server's 'close' comes last (`StepOK`). A step speaks of an object that exists,
and every connection that was given to the application is in the map or a call
will tell it (`Remembered`). Frames are only pushed, advanced, filled with the steps
of a handler, or popped, so there is one lemma for each of these (`PushOK`,
`AdvanceLow`, `Continues`, `PopLow`) and the actions cite them. `ClosesAreTold` counts:
the 'close' events that were emitted, the calls that have still to emit one
(`Announcers`) and the run in progress are together the native servers that were
started (`Counted`).

`ConnectionsFollowTheProtocol` (`ConnectionProtocol`) and `RunsDoNotMix` (`StaysInItsRun`)
are about a server that was not restarted in the middle of its previous run. The
invariant is `Calm`: the events of the batch in progress and then those that wait
in the loop, *replayed* on the ids of the map, lead to the connections that the
native server has open (`Replayed`); so a 'connect' finds its id unused, and a 'data' or
'close' finds its connection. Besides, a connection that is in the map has been
told 'connection' or is being told now (`CalmMap`), one that will be told 'close'
is open and no longer in the map (`LowStep`) and will be told only once
(`Once`), and everything in progress belongs to the native server that runs
(`FromRun`, `Ours`). When a new run
begins and nothing of the previous one is in progress, all its connections have
been told their close and are destroyed (`RunIsOver`); otherwise the flag `overlap` is set.

`TlsFacadeProofs` proves the three invariants of the TLS server:
`TlsOneTcpServer`, `TlsSocketsTracked` and `TlsTimerGuardsHandshake`. The stack keeps its
shape (`ShapeInv`): the event loop's calls are outermost, calls and listeners
alternate, and what a call has still to do is one of the few plans its code has
(`Plans`). So every step is a *turn* (`Turns`): one call on the stack becomes the
same call with less to do, or a listener comes or goes; what a step says of a
socket or of the servers then depends on these two frames alone. A live socket is
tracked, its TCP server runs, and a handshake has its timer or the timer that has
run will destroy it; a dead socket that is still tracked has events to come, or
the call that emits them will forget it (`SocketsOK`). A failed start is followed
through its undo: once its TCP server is closed it has only to be forgotten
(`Undone`, `ServersOK`), and a start begun in the middle of a start or a close sets
the flag that the property excludes.

`HttpWorkerProofs` proves `HttpConnectionsWhole` (`Spec => []ConnectionsWhole`). A
handler finds its connection by id, so as in `TcpWorker` the table has to be
consistent and accepts that wait must have a descriptor and an id of their own
(`TableInv`, `AcceptsNew`). `AnswerInOrder` is about the wire only and needs the
rest: a connection's receive and its send are *tokens* that are counted wherever
they wait, in the submission queue, the kernel, the completion queue and the
batch (`Tokens`). A live connection has one receive token, and one send token if it
has been answered; the token knows how much of the response has left
(`AnswerOK`): before its completion is handled, `sendOffset` and the result are
the bytes on the wire. A connection that was closed may still have its send on
the way, so `IdOK` keeps for ids what `AnswerOK` says for connections. Steps that
move tokens and send nothing are *quiet* (`QuietFor`) and share their lemmas;
handlers take one completion and push at most two entries (`HandlerStep`).

`HttpOnlyRequestsAnswered` (`Spec => []OnlyRequestsAnswered`) has two halves. Every
send, wherever it waits, belongs to a connection on which a request was heard
(`QueuesFollow`); and what the probe takes for a request is one. The second is
`HttpProbeIsExact`: for data of any length over any alphabet, cut in two buffers
anywhere, `ShouldRespond` of what `Observe` computes is `IsRequest`. What the probe
remembers after a beginning of the data (`Remembers`: the first five bytes,
whether a header end was there, and how much of one the data ends in) follows
for a byte more from `RemembersByte`, and so for all of the data by induction.

*Induction over data.* The induction rules of the library take an operator, which
the provers cannot instantiate. Both inductions here, over the data of a receive
and over the chain of causes of an error, take the *set* of the numbers up to which
the claim holds instead (`UpTo`: it holds 0 and with every number the next), which
follows from `WFMin`: a number that is missing has a least one (`LeastMember`).
That a recursive definition has a solution at all is proved by giving it
(`IteratesExists`, `CollectChain`).

`ToolingProofs` has the loader, the command-line program and the release scripts.

`BindingIsRight` (`LoaderSpec => []RightBinding`): the invariant says what has been
tried when the loader is at a point: while it is trying, what failed and what
is left in the queue are together the candidates of the host, and the WASI part
is entered before or after them as the environment says. `AttemptsAreReported`
(`LoaderSpec => []AttemptsReported`): what is thrown is the chain of what has
failed (`Reporting`), the walk along the causes of a chain of any length gives the
errors from the last to the first (`CollectChain`), and turned around and cut they
are the first ones (`AttemptsOfChain`).

`PassedMeansMeasured` and `ExitStatusTells`: the servers that have passed are the
first ones of the list, each with its request through the zero-copy ring
(`through`), and a stage has all its predecessors behind it; the report's parts
are made together and never changed.

`ReportedServersStopped`: a server in the report has passed and is stopped, but
for the last one while its request is under way (`AllStopped`).

`RootIsLast` and `AnnouncedComplete` (of `ReleaseSpec`): a run
that is at package n has found or published every package before n in the
registry; the registry never forgets, so other runs cannot disturb this; what a
check has passed stays passed, because an accepted package is immutable.

`NpmErrorsDecideNothing` (`ReleaseSpec => []ErrorsDecideNothing`): a run whose state is
"partial" has seen a package, which is still visible (`Resumes`); and a run that
begins when every package is visible (`full`) has, for each one it has looked at, either
seen it or had an error, never found it missing (`FullStays`, `Untouched`), so that it fails or
goes on to verify.

*Assumptions*: `FdAssumption`, `SlotAssumption`, `NumberAssumption`,
`OptionAssumption` of `TcpWorker`, which say what the configuration code
guarantees (capacities are positive, zero-copy sends use the fixed pool);
`BoundsAssumption` of `NativeServer`; `CapacityAssumption` of `EventQueue`,
which is what `validate_event_queue_capacity` and `validate_event_batch_size`
accept; `HttpAssumption`, `FacadeAssumption`, `LoaderAssumption` and
`ReleaseAssumption`, which only type the bounds and options, and
`ChunksAssumption`: data is a sequence of bytes, which the models write as strings.

Each strengthened invariant was first checked by TLC as an invariant of a small
instance of its own: `SInv` on 106 815 distinct states, `LInv` on 2 023 996, `AInv` on
378 546, `OInv` on 25 471, `CInv` (with `Calm`) on 321 752,
`IInv` of `TlsFacade` on 59 974, that of `Release` on 503 120 and that of `HttpWorker` on 10 347 179. `Reporting` was
checked on the 54 458 of the run `loader`.

*Only model-checked* is liveness, because temporal reasoning with fairness and
`ENABLED` is beyond the prover: `StopReturns` and `CloseCompletes` of `TcpWorker`,
`CallsTakeEffect` of `NativeServer`, `EventsSettle` and `StopReturns` of `EventQueue`,
`RequestsEnd` of `HttpWorker`, `HandshakesEnd` of `TlsFacade`, `RerunsFinish` of
`Release` and `RunEnds` of `Cli`. Every safety property, action property and
refinement that a passing run checks is also a theorem.

## 5. Not modelled

- *Receive buffers* (`ProvidedBufferRing`, `LegacyProvidedBuffers`): which buffer
  is whose is decided by the shared ring between kernel and worker, below the
  level of these models; received data is abstract in all of them.
- *Zero-copy receive* (the zcrx variants of the workers, the refill ring): it
  depends on the network card; its smoke test is modelled.
- *The echo worker*: its accept, receive, send and close are those of the other
  two workers with less around them.
- *Statistics*, *options* and *listener set-up*: counters and checks on which no
  behaviour of the models depends.
- *Check scripts* that compare texts of the repository (`check-release-ready.js`,
  `check-workflows.js`), benchmarks, examples and type declarations: no state.

What could follow: a model of the receive buffers (`RecvBufferRing`: a buffer with
one owner, through bundles), and the safety part of the liveness arguments, that
each wait has an enabled step that ends it.
