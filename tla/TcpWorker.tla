----------------------------- MODULE TcpWorker -----------------------------
(***************************************************************************)
(* The TCP worker thread of ferrings (src/src/uring.rs) together with the  *)
(* three parties it talks to: the JavaScript thread that enqueues commands *)
(* and stops the server (src/src/lib.rs), the kernel side of the io_uring  *)
(* instance, and the remote peers.                                         *)
(*                                                                         *)
(* The worker is a single thread that repeats                              *)
(*   drain commands - expire half-closed - expire idle - wait - process    *)
(* (run_tcp_worker_inner), and a bounded shutdown sequence after the stop  *)
(* flag is seen (drain_tcp_shutdown_sends).  "pc" is its position.         *)
(*                                                                         *)
(* Bytes are abstracted to their position in the stream of the connection: *)
(* the n-th byte that queue_tcp_send accepts for a connection is n.        *)
(* Received data is abstracted to the number of chunks.  The clock is      *)
(* abstracted to nondeterminism: an idle connection may expire whenever    *)
(* the worker looks at it.                                                 *)
(*                                                                         *)
(* The kernel completes sends, receives and reads of the command eventfd   *)
(* only while the worker is in wait: the worker looks at the completion    *)
(* queue there and nowhere else, so an earlier completion would be seen at *)
(* the same place.  Accepting is different, because it takes a descriptor  *)
(* number, and can happen at every moment.                                 *)
(***************************************************************************)
EXTENDS Integers, Sequences, FiniteSets

CONSTANTS
  Fds,                   \* descriptor numbers the kernel hands out
  NoFd,                  \* absence of a descriptor
  Slots,                 \* slots of the fixed send buffer pool
  NoSlot,                \* a heap buffer: no slot
  IdMax,                 \* largest connection id (2^32 - 1 in the code)
  MaxSockets,            \* bound: sockets the kernel ever accepts
  MaxChunks,             \* bound: chunks a peer sends on one socket
  MaxCommands,           \* bound: commands the JavaScript thread issues
  Lens,                  \* payload lengths the commands use
  Shapes,                \* commands the JavaScript thread uses
  CommandQueueCapacity,  \* commandQueueCapacity
  SendQueueCapacity,     \* sendQueueCapacity
  MaxConnections,        \* maxConnections, 0 is "no limit"
  SlotSize,              \* sendBufferSize
  UseZeroCopySend,       \* useZeroCopySend
  UseFixedSendBuffer,    \* useZeroCopySend or useRegisteredSendBuffer
  IdleTimeout,           \* idleTimeoutMs # 0
  GraceTicks,            \* HALF_CLOSE_RESPONSE_GRACE_TICKS
  DrainTicks,            \* SHUTDOWN_SEND_DRAIN_TICKS
  SendsMayFail,          \* whether the kernel may fail a send on an open socket
  MayStop,               \* whether the JavaScript thread stops the server
  WorkerMayFail          \* whether waiting for completions may return an error

Ids == 1..IdMax
Socks == 1..MaxSockets

ASSUME FdAssumption ==
  /\ IsFiniteSet(Fds)
  /\ NoFd \notin Fds
ASSUME SlotAssumption == NoSlot \notin Slots
ASSUME NumberAssumption ==
  /\ IdMax \in Nat \ {0}
  /\ MaxSockets \in Nat
  /\ MaxChunks \in Nat
  /\ MaxCommands \in Nat
  /\ Lens \subseteq Nat
  /\ CommandQueueCapacity \in Nat \ {0}
  /\ SendQueueCapacity \in Nat \ {0}
  /\ MaxConnections \in Nat
  /\ SlotSize \in Nat
  /\ GraceTicks \in Nat \ {0}
  /\ DrainTicks \in Nat
ASSUME OptionAssumption ==
  /\ {UseZeroCopySend, UseFixedSendBuffer, IdleTimeout, SendsMayFail, MayStop,
      WorkerMayFail}
       \subseteq BOOLEAN
  /\ UseZeroCopySend => UseFixedSendBuffer
  /\ Shapes \subseteq {"send", "sendAndClose", "close",
                       "sendBatch", "sendBatchAndClose"}

VARIABLES
  \* the worker thread
  pc,           \* where the worker is
  todo,         \* descriptors a loop over the connection table has yet to visit
  ticks,        \* rounds of the shutdown drain
  batch,        \* completions copied out of the ring, in order
  work,         \* rest of the command that is being executed
  connections,  \* TcpWorkerState.connections
  idToFd,       \* TcpWorkerState.id_to_fd
  nextId,       \* TcpWorkerState.next_connection_id
  free,         \* FixedSendBufferPool.free: how often each slot is in the list
  \* the JavaScript thread
  commands,     \* the bounded command channel
  issued,       \* commands enqueued so far (bounded by MaxCommands)
  shutdown,     \* the stop flag
  \* the kernel
  fdSock,       \* the socket behind each descriptor, 0 when it is closed
  nextSock,     \* number of the next socket to be accepted
  sq,           \* submission queue: entries pushed and not yet submitted
  ops,          \* operations the kernel is executing
  cq,           \* completion queue
  eventfd,      \* whether the command eventfd is readable
  \* history
  wire,         \* per socket, the stream positions handed to the network
  chunks,       \* per socket, chunks received from the peer
  sockOf,       \* the socket accepted as a connection id
  accepted,     \* bytes queue_tcp_send has accepted for a connection id
  events        \* events emitted for a connection id

workerVars == <<pc, todo, ticks, batch, work>>
tableVars == <<connections, idToFd, nextId, free>>
jsVars == <<commands, issued, shutdown>>
ringVars == <<fdSock, nextSock, sq, ops, cq, eventfd>>
historyVars == <<wire, chunks, sockOf, accepted, events>>
vars == <<workerVars, tableVars, jsVars, ringVars, historyVars>>

-----------------------------------------------------------------------------
(***************************************************************************)
(* Records.  A payload on its way out covers the stream positions          *)
(* start+1 .. start+len, of which the first "offset" are confirmed.  Empty *)
(* payloads are never stored, so len = 0 stands for "no payload", as id 0, *)
(* which the code never assigns, stands for "no connection".               *)
(***************************************************************************)
PendingSend ==
  [start : Nat, offset : Nat, len : Nat, slot : Slots \cup {NoSlot},
   zeroCopy : BOOLEAN, waiting : BOOLEAN, result : Int]

NoSend == [start |-> 0, offset |-> 0, len |-> 0, slot |-> NoSlot,
           zeroCopy |-> FALSE, waiting |-> FALSE, result |-> 0]

Connection ==
  [id : Ids \cup {0}, closeAfterSend : BOOLEAN, dataEventPending : BOOLEAN,
   graceTicks : 0..GraceTicks, sendQueue : Seq(PendingSend),
   activeSend : PendingSend]

NoConnection ==
  [id |-> 0, closeAfterSend |-> FALSE, dataEventPending |-> FALSE,
   graceTicks |-> 0, sendQueue |-> <<>>, activeSend |-> NoSend]

Live(fd) == connections[fd].id # 0
LiveFds == {fd \in Fds : Live(fd)}
HasSend(c) == c.activeSend.len > 0
OpenFds == {fd \in Fds : fdSock[fd] # 0}
IsOpen(sock) == \E fd \in Fds : sock # 0 /\ fdSock[fd] = sock

\* A submission queue entry; "pos" and "rem" are the stream position a send
\* starts after and the number of bytes it still has to send.
Entry ==
  {e \in [op : {"accept", "read", "recv", "send"}, id : Ids \cup {0},
          fd : Fds \cup {NoFd}, pos : Nat, rem : Int, zeroCopy : BOOLEAN,
          slot : Slots \cup {NoSlot}] :
     e.op \in {"recv", "send"} => e.id # 0 /\ e.fd # NoFd}

\* What the kernel works on: an entry bound to the socket its descriptor
\* named when it was submitted, or a zero-copy buffer it still holds.
Operation ==
  {o \in [op : {"accept", "read", "recv", "send", "hold"}, id : Ids \cup {0},
          sock : Socks \cup {0}, pos : Nat, rem : Int, zeroCopy : BOOLEAN,
          slot : Slots \cup {NoSlot}] :
     o.op \in {"recv", "send", "hold"} => o.id # 0}

\* A completion.  The id comes from the user data.  "result" is the number of
\* bytes of a send, 1 for received data; 0 is an orderly end and every other
\* negative result of a receive; ENoBufs is -ENOBUFS, and -1 any send error.
Completion ==
  {e \in [op : {"accept", "read", "recv", "send"}, id : Ids \cup {0},
          fd : Fds \cup {NoFd}, result : Int, more : BOOLEAN, notif : BOOLEAN] :
     e.op \in {"recv", "send"} => e.id # 0}

ENoBufs == -2

\* What one command makes the worker do, step by step.
Step == [op : {"send", "close", "closeAfterSend"}, id : Ids, len : Nat]

AcceptEntry == [op |-> "accept", id |-> 0, fd |-> NoFd, pos |-> 0, rem |-> 0,
                zeroCopy |-> FALSE, slot |-> NoSlot]
ReadEntry == [AcceptEntry EXCEPT !.op = "read"]
RecvEntry(fd, id) == [AcceptEntry EXCEPT !.op = "recv", !.id = id, !.fd = fd]
\* Mutant: the rest of a partial send starts at the first byte again.
SendEntryFromStart(fd, c) ==
  [op |-> "send", id |-> c.id, fd |-> fd, pos |-> c.activeSend.start,
   rem |-> c.activeSend.len, zeroCopy |-> c.activeSend.zeroCopy,
   slot |-> c.activeSend.slot]
\* Mutant: the rest of a partial send keeps the length of the whole.
SendEntryWholeLength(fd, c) ==
  [op |-> "send", id |-> c.id, fd |-> fd,
   pos |-> c.activeSend.start + c.activeSend.offset, rem |-> c.activeSend.len,
   zeroCopy |-> c.activeSend.zeroCopy, slot |-> c.activeSend.slot]
SendEntry(fd, c) ==
  [op |-> "send", id |-> c.id, fd |-> fd,
   pos |-> c.activeSend.start + c.activeSend.offset,
   rem |-> c.activeSend.len - c.activeSend.offset,
   zeroCopy |-> c.activeSend.zeroCopy, slot |-> c.activeSend.slot]

Bind(e) ==
  [op |-> e.op, id |-> e.id, sock |-> IF e.fd = NoFd THEN 0 ELSE fdSock[e.fd],
   pos |-> e.pos, rem |-> e.rem, zeroCopy |-> e.zeroCopy, slot |-> e.slot]

Init ==
  /\ pc = "process" /\ todo = {} /\ ticks = 0 /\ batch = <<>> /\ work = <<>>
  /\ connections = [fd \in Fds |-> NoConnection]
  /\ idToFd = [id \in Ids |-> NoFd]
  /\ nextId = 1
  /\ free = [s \in Slots |-> 1]
  /\ commands = <<>> /\ issued = 0 /\ shutdown = FALSE
  /\ fdSock = [fd \in Fds |-> 0]
  /\ nextSock = 1
  /\ sq = <<AcceptEntry, ReadEntry>> /\ ops = <<>>
  /\ cq = <<>> /\ eventfd = FALSE
  /\ wire = [s \in Socks |-> <<>>]
  /\ chunks = [s \in Socks |-> 0]
  /\ sockOf = [id \in Ids |-> 0]
  /\ accepted = [id \in Ids |-> 0]
  /\ events = [id \in Ids |-> <<>>]

-----------------------------------------------------------------------------
(***************************************************************************)
(* Building blocks of the worker's steps.  A definition marked "Mutant" is *)
(* a faulty variant of the one that follows it; it is not part of the      *)
(* model, it shows that a property would notice such a fault.              *)
(***************************************************************************)

\* Mutant: finished payloads keep their slots.
ReleasedNever(pool, sends) == pool
\* FixedSendBufferPool.release for every payload of a sequence.
Released(pool, sends) ==
  [s \in Slots |-> pool[s] + Cardinality({i \in DOMAIN sends : sends[i].slot = s})]

Keep(fd, c, pool) ==
  /\ connections' = [connections EXCEPT ![fd] = c]
  /\ free' = pool
  /\ UNCHANGED <<idToFd, fdSock, events>>

\* Mutant: id_to_fd.remove is missing.
RemoveButKeepId(fd, c, pool, emitClose) ==
  /\ connections' = [connections EXCEPT ![fd] = NoConnection]
  /\ free' = Released(pool, Append(c.sendQueue, c.activeSend))
  /\ fdSock' = [fdSock EXCEPT ![fd] = 0]
  /\ events' = IF emitClose THEN [events EXCEPT ![c.id] = Append(@, "close")]
                            ELSE events
  /\ UNCHANGED idToFd
\* The second half of close_tcp_connection and all of
\* force_close_tcp_connection: forget the connection, release its buffers,
\* close the descriptor and, if asked to, tell JavaScript.
RemoveConnection(fd, c, pool, emitClose) ==
  /\ connections' = [connections EXCEPT ![fd] = NoConnection]
  /\ idToFd' = [idToFd EXCEPT ![c.id] = NoFd]
  /\ free' = Released(pool, Append(c.sendQueue, c.activeSend))
  /\ fdSock' = [fdSock EXCEPT ![fd] = 0]
  /\ events' = IF emitClose THEN [events EXCEPT ![c.id] = Append(@, "close")]
                            ELSE events

\* close_tcp_connection: closing waits for a send the kernel works on.
CloseTcpConnection(fd, emitClose) ==
  LET c == connections[fd]
  IN  IF HasSend(c)
      THEN Keep(fd, [c EXCEPT !.closeAfterSend = TRUE], free)
      ELSE RemoveConnection(fd, c, free, emitClose)

\* Mutant: the active send is not waited for.
CloseWithoutFlush(fd) == RemoveConnection(fd, connections[fd], free, TRUE)
\* close_tcp_connection_after_send.
CloseTcpConnectionAfterSend(fd) ==
  LET c == connections[fd]
  IN  IF HasSend(c) \/ c.sendQueue # <<>>
      THEN Keep(fd, [c EXCEPT !.closeAfterSend = TRUE], free)
      ELSE RemoveConnection(fd, c, free, TRUE)

\* defer_tcp_recv_shutdown: after the peer's end of stream the connection
\* stays for a response to data it has announced, or for queued sends.
MustDeferRecvShutdown(c) ==
  c.dataEventPending \/ HasSend(c) \/ c.sendQueue # <<>>
\* Mutant: the descriptor is closed although the connection stays.
DeferButCloseFd(fd) ==
  /\ connections' = [connections EXCEPT ![fd].closeAfterSend = TRUE,
                                        ![fd].graceTicks = GraceTicks]
  /\ fdSock' = [fdSock EXCEPT ![fd] = 0]
  /\ UNCHANGED <<idToFd, free, events>>
\* Mutant: the grace period is not started.
DeferWithoutGrace(fd) ==
  Keep(fd, [connections[fd] EXCEPT !.closeAfterSend = TRUE], free)
DeferTcpRecvShutdown(fd) ==
  LET c == connections[fd]
  IN  Keep(fd, [c EXCEPT !.closeAfterSend = TRUE,
                         !.graceTicks = IF c.dataEventPending THEN GraceTicks
                                                              ELSE @], free)

\* FixedSendBufferPool.alloc, with the heap as the fallback.
SlotChoices(len) ==
  LET available == {s \in Slots : free[s] > 0}
  IN  IF UseFixedSendBuffer /\ len <= SlotSize /\ available # {}
      THEN available ELSE {NoSlot}

\* queue_tcp_command_send and queue_tcp_send.
QueueTcpSend(fd, len) ==
  LET c == [connections[fd] EXCEPT !.dataEventPending = FALSE, !.graceTicks = 0]
  IN  IF len = 0 \/ (HasSend(c) /\ Len(c.sendQueue) >= SendQueueCapacity)
      THEN Keep(fd, c, free) /\ UNCHANGED <<sq, accepted>>
      ELSE \E slot \in SlotChoices(len) :
             LET p == [NoSend EXCEPT !.start = accepted[c.id], !.len = len,
                                     !.slot = slot, !.zeroCopy = UseZeroCopySend]
                 pool == [s \in Slots |-> IF s = slot THEN free[s] - 1 ELSE free[s]]
             IN  /\ accepted' = [accepted EXCEPT ![c.id] = @ + len]
                 /\ IF HasSend(c)
                    THEN /\ Keep(fd, [c EXCEPT !.sendQueue = Append(@, p)], pool)
                         /\ UNCHANGED sq
                    ELSE LET d == [c EXCEPT !.activeSend = p]
                         IN  Keep(fd, d, pool) /\ sq' = Append(sq, SendEntry(fd, d))

\* Mutant: the entry is never pushed.
SubmitForgotten(fd, c, pool) == Keep(fd, c, pool) /\ UNCHANGED sq
\* submit_tcp_send for the active send of the connection record c.
Submit(fd, c, pool) == Keep(fd, c, pool) /\ sq' = Append(sq, SendEntry(fd, c))

\* Mutant: a closing connection forgets its queue.
TakeNextUnlessClosing(fd, c, pool) ==
  IF c.sendQueue # <<>> /\ ~c.closeAfterSend
  THEN Submit(fd, [c EXCEPT !.activeSend = Head(c.sendQueue), !.sendQueue = Tail(@)],
              pool)
  ELSE Keep(fd, [c EXCEPT !.activeSend = NoSend], pool) /\ UNCHANGED sq
\* Mutant: the connection closes without its event.
TakeNextClosingSilently(fd, c, pool) ==
  IF c.sendQueue # <<>>
  THEN Submit(fd, [c EXCEPT !.activeSend = Head(c.sendQueue), !.sendQueue = Tail(@)],
              pool)
  ELSE LET d == [c EXCEPT !.activeSend = NoSend]
       IN  /\ IF c.closeAfterSend THEN RemoveConnection(fd, d, pool, FALSE)
                                  ELSE Keep(fd, d, pool)
           /\ UNCHANGED sq
\* The end of finish_tcp_send_completion, with the close its caller adds when
\* told to: the next payload, or nothing more to send.
TakeNextSend(fd, c, pool) ==
  IF c.sendQueue # <<>>
  THEN Submit(fd, [c EXCEPT !.activeSend = Head(c.sendQueue), !.sendQueue = Tail(@)],
              pool)
  ELSE LET d == [c EXCEPT !.activeSend = NoSend]
       IN  /\ IF c.closeAfterSend THEN RemoveConnection(fd, d, pool, TRUE)
                                  ELSE Keep(fd, d, pool)
           /\ UNCHANGED sq

\* finish_tcp_send_completion: retry a failed zero-copy send by copying, then a
\* failed send from a registered slot from the heap; go on with the rest of a
\* payload, unless the connection is closing; or finish it.
FinishTcpSend(fd, c, result) ==
  LET a == c.activeSend
      d == [c EXCEPT !.closeAfterSend = @ \/ result <= 0,
                     !.activeSend.offset = IF result > 0 THEN @ + result ELSE @]
      pool == Released(free, <<a>>)
  IN  CASE result < 0 /\ a.zeroCopy ->
             Submit(fd, [c EXCEPT !.activeSend.zeroCopy = FALSE,
                                  !.activeSend.waiting = FALSE], free)
        [] result < 0 /\ ~a.zeroCopy /\ a.slot # NoSlot ->
             Submit(fd, [c EXCEPT !.activeSend.slot = NoSlot,
                                  !.activeSend.waiting = FALSE], pool)
        [] OTHER ->
             IF d.activeSend.offset < a.len /\ ~d.closeAfterSend
             THEN Submit(fd, d, free) ELSE TakeNextSend(fd, d, pool)

-----------------------------------------------------------------------------
(***************************************************************************)
(* The JavaScript thread.                                                  *)
(***************************************************************************)

\* Ids a "connect" event has announced; they may be closed by now.
KnownIds == {id \in Ids : events[id] # <<>>}

SendStep(id, len) == [op |-> "send", id |-> id, len |-> len]
CloseStep(id) == [op |-> "close", id |-> id, len |-> 0]
CloseAfterSendStep(id) == [op |-> "closeAfterSend", id |-> id, len |-> 0]

\* The commands, each as the steps drain_tcp_commands takes for it.  Batches
\* hold two sends, possibly for the same connection.
CommandSteps(shape) ==
  CASE shape = "send" ->
         {<<SendStep(i, n)>> : i \in KnownIds, n \in Lens}
    [] shape = "sendAndClose" ->
         {<<SendStep(i, n), CloseAfterSendStep(i)>> : i \in KnownIds, n \in Lens}
    [] shape = "close" ->
         {<<CloseStep(i)>> : i \in KnownIds}
    [] shape = "sendBatch" ->
         {<<SendStep(i, m), SendStep(j, n)>> :
            i \in KnownIds, j \in KnownIds, m \in Lens, n \in Lens}
    [] shape = "sendBatchAndClose" ->
         {<<SendStep(i, m), SendStep(j, n), CloseAfterSendStep(i),
            CloseAfterSendStep(j)>> :
            i \in KnownIds, j \in KnownIds, m \in Lens, n \in Lens}

\* command_rx.try_recv() finds the channel empty.
Drained == work = <<>> /\ commands = <<>>

\* TcpNativeServer.enqueue_command: a full channel refuses the command and
\* changes nothing here; otherwise the worker is woken.
Enqueue ==
  /\ ~shutdown /\ issued < MaxCommands
  /\ Len(commands) < CommandQueueCapacity
  /\ pc \notin {"exited", "failed"}
  /\ \E shape \in Shapes : \E steps \in CommandSteps(shape) :
       commands' = Append(commands, steps)
  /\ issued' = issued + 1
  /\ eventfd' = TRUE
  /\ UNCHANGED <<workerVars, tableVars, shutdown, fdSock, nextSock, sq, ops, cq,
                 historyVars>>

\* TcpNativeServer.stop: from here on the thread waits in join.
Stop ==
  /\ MayStop /\ ~shutdown
  /\ shutdown' = TRUE
  /\ eventfd' = TRUE
  /\ UNCHANGED <<workerVars, tableVars, commands, issued, fdSock, nextSock, sq,
                 ops, cq, historyVars>>

-----------------------------------------------------------------------------
(***************************************************************************)
(* The kernel.                                                             *)
(***************************************************************************)

WithoutOp(i) == [k \in 1..(Len(ops) - 1) |-> IF k < i THEN ops[k] ELSE ops[k + 1]]

Posted(op, id, fd, result, more, notif) ==
  cq' = Append(cq, [op |-> op, id |-> id, fd |-> fd, result |-> result,
                    more |-> more, notif |-> notif])

\* The multishot accept hands out a closed descriptor; "more" says that it
\* stays armed.
KernelAccept(i) ==
  /\ ops[i].op = "accept" /\ nextSock <= MaxSockets
  /\ \E fd \in Fds \ OpenFds, more \in BOOLEAN :
       /\ fdSock' = [fdSock EXCEPT ![fd] = nextSock]
       /\ Posted("accept", 0, fd, 1, more, FALSE)
       /\ ops' = IF more THEN ops ELSE WithoutOp(i)
  /\ nextSock' = nextSock + 1
  /\ UNCHANGED <<workerVars, tableVars, jsVars, sq, eventfd, historyVars>>

KernelAcceptError(i) ==
  /\ pc = "wait" /\ ops[i].op = "accept"
  /\ Posted("accept", 0, NoFd, -1, FALSE, FALSE)
  /\ ops' = WithoutOp(i)
  /\ UNCHANGED <<workerVars, tableVars, jsVars, fdSock, nextSock, sq, eventfd,
                 historyVars>>

\* A chunk arrives and the receive takes it into a provided buffer.
KernelRecvData(i) ==
  /\ pc = "wait" /\ ops[i].op = "recv" /\ IsOpen(ops[i].sock)
  /\ chunks[ops[i].sock] < MaxChunks
  /\ chunks' = [chunks EXCEPT ![ops[i].sock] = @ + 1]
  /\ \E more \in BOOLEAN :
       /\ Posted("recv", ops[i].id, NoFd, 1, more, FALSE)
       /\ ops' = IF more THEN ops ELSE WithoutOp(i)
  /\ UNCHANGED <<workerVars, tableVars, jsVars, fdSock, nextSock, sq, eventfd,
                 wire, sockOf, accepted, events>>

\* The end of the stream, a reset, a closed descriptor, or no buffer left.
KernelRecvEnd(i) ==
  /\ pc = "wait" /\ ops[i].op = "recv"
  /\ \E result \in {0, ENoBufs} : Posted("recv", ops[i].id, NoFd, result, FALSE, FALSE)
  /\ ops' = WithoutOp(i)
  /\ UNCHANGED <<workerVars, tableVars, jsVars, fdSock, nextSock, sq, eventfd,
                 historyVars>>

\* A send hands 1..rem bytes to the network.  A zero-copy send announces with
\* "more" that the kernel holds the buffer until a notification.
KernelSend(i) ==
  /\ pc = "wait" /\ ops[i].op = "send" /\ IsOpen(ops[i].sock)
  /\ \E n \in 1..ops[i].rem :
       /\ wire' = [wire EXCEPT ![ops[i].sock] =
                     @ \o [k \in 1..n |-> ops[i].pos + k]]
       /\ Posted("send", ops[i].id, NoFd, n, ops[i].zeroCopy, FALSE)
  /\ ops' = IF ops[i].zeroCopy THEN [ops EXCEPT ![i].op = "hold"] ELSE WithoutOp(i)
  /\ UNCHANGED <<workerVars, tableVars, jsVars, fdSock, nextSock, sq, eventfd,
                 chunks, sockOf, accepted, events>>

\* A send fails; a failed zero-copy send may or may not notify.
KernelSendError(i) ==
  /\ pc = "wait" /\ ops[i].op = "send"
  /\ SendsMayFail \/ ~IsOpen(ops[i].sock)
  /\ \E hold \in BOOLEAN :
       /\ hold => ops[i].zeroCopy
       /\ Posted("send", ops[i].id, NoFd, -1, hold, FALSE)
       /\ ops' = IF hold THEN [ops EXCEPT ![i].op = "hold"] ELSE WithoutOp(i)
  /\ UNCHANGED <<workerVars, tableVars, jsVars, fdSock, nextSock, sq, eventfd,
                 historyVars>>

KernelNotify(i) ==
  /\ pc = "wait" /\ ops[i].op = "hold"
  /\ Posted("send", ops[i].id, NoFd, 0, FALSE, TRUE)
  /\ ops' = WithoutOp(i)
  /\ UNCHANGED <<workerVars, tableVars, jsVars, fdSock, nextSock, sq, eventfd,
                 historyVars>>

\* The read of the command eventfd completes and clears it.
KernelRead(i) ==
  /\ pc = "wait" /\ ops[i].op = "read" /\ eventfd
  /\ eventfd' = FALSE
  /\ Posted("read", 0, NoFd, 8, FALSE, FALSE)
  /\ ops' = WithoutOp(i)
  /\ UNCHANGED <<workerVars, tableVars, jsVars, fdSock, nextSock, sq, historyVars>>

Kernel ==
  \E i \in DOMAIN ops :
    \/ KernelAccept(i) \/ KernelAcceptError(i)
    \/ KernelRecvData(i) \/ KernelRecvEnd(i)
    \/ KernelSend(i) \/ KernelSendError(i) \/ KernelNotify(i)
    \/ KernelRead(i)

\* Entering the kernel submits everything that was pushed.
SubmitRing ==
  /\ ops' = ops \o [i \in DOMAIN sq |-> Bind(sq[i])]
  /\ sq' = <<>>

-----------------------------------------------------------------------------
(***************************************************************************)
(* The worker's loop.                                                      *)
(***************************************************************************)

\* command_rx.try_recv() in drain_tcp_commands.
TakeCommand ==
  /\ pc \in {"drain", "redrain"} /\ work = <<>> /\ commands # <<>>
  /\ work' = Head(commands)
  /\ commands' = Tail(commands)
  /\ UNCHANGED <<pc, todo, ticks, batch, tableVars, issued, shutdown, ringVars,
                 historyVars>>

\* The steps of a command; an id that is not in the table is ignored.
ExecuteSend ==
  /\ work # <<>> /\ Head(work).op = "send"
  /\ LET fd == idToFd[Head(work).id]
     IN  IF fd = NoFd \/ ~Live(fd)
         THEN UNCHANGED <<connections, idToFd, free, fdSock, events, sq, accepted>>
         ELSE QueueTcpSend(fd, Head(work).len)
  /\ work' = Tail(work)
  /\ UNCHANGED <<pc, todo, ticks, batch, nextId, jsVars, nextSock, ops, cq, eventfd,
                 wire, chunks, sockOf>>

ExecuteClose ==
  /\ work # <<>> /\ Head(work).op \in {"close", "closeAfterSend"}
  /\ LET fd == idToFd[Head(work).id]
     IN  IF fd = NoFd \/ ~Live(fd)
         THEN UNCHANGED <<connections, idToFd, free, fdSock, events>>
         ELSE IF Head(work).op = "close" THEN CloseTcpConnection(fd, TRUE)
              ELSE CloseTcpConnectionAfterSend(fd)
  /\ work' = Tail(work)
  /\ UNCHANGED <<pc, todo, ticks, batch, nextId, jsVars, nextSock, sq, ops, cq,
                 eventfd, wire, chunks, sockOf, accepted>>

\* The channel is empty: the drain after a wake-up arms the read again and
\* goes on with the completions.
FinishCommandCompletion ==
  /\ pc = "redrain" /\ Drained
  /\ sq' = Append(sq, ReadEntry)
  /\ pc' = "process"
  /\ UNCHANGED <<todo, ticks, batch, work, tableVars, jsVars, fdSock, nextSock, ops,
                 cq, eventfd, historyVars>>

\* The drain at the top of the loop goes on with the half-closed connections:
\* close_expired_half_closed_connections counts down those that send nothing.
Expires(c) == c.graceTicks > 0 /\ ~HasSend(c) /\ c.sendQueue = <<>>
ExpireHalfClosed ==
  /\ pc = "drain" /\ Drained
  /\ connections' = [fd \in Fds |->
       IF Expires(connections[fd])
       THEN [connections[fd] EXCEPT !.graceTicks = @ - 1] ELSE connections[fd]]
  /\ todo' = {fd \in Fds : Expires(connections[fd]) /\ connections[fd].graceTicks = 1}
  /\ pc' = "expire"
  /\ UNCHANGED <<ticks, batch, work, idToFd, nextId, free, jsVars, ringVars,
                 historyVars>>

\* close_idle_tcp_connections: any set of connections that send nothing may
\* have been quiet for long enough.
IdleFds == {fd \in LiveFds : ~HasSend(connections[fd])
                             /\ connections[fd].sendQueue = <<>>}
ExpireIdle ==
  /\ IdleTimeout /\ pc = "expire" /\ todo = {}
  /\ todo' \in SUBSET IdleFds
  /\ pc' = "idle"
  /\ UNCHANGED <<ticks, batch, work, tableVars, jsVars, ringVars, historyVars>>

\* Only the shutdown closes without an event.
EmitsClose == pc # "stop"

\* The loops that call close_tcp_connection for a list of descriptors.
CloseNext ==
  /\ pc \in {"expire", "idle", "stop"}
  /\ \E fd \in todo :
       /\ todo' = todo \ {fd}
       /\ IF Live(fd) THEN CloseTcpConnection(fd, EmitsClose)
          ELSE UNCHANGED <<connections, idToFd, free, fdSock, events>>
  /\ UNCHANGED <<pc, ticks, batch, work, nextId, jsVars, nextSock, sq, ops, cq,
                 eventfd, wire, chunks, sockOf, accepted>>

\* wait_for_completions submits and blocks; it returns with a completion or
\* after its timeout, and the worker copies what is in the completion queue.
EnterWait ==
  /\ pc = (IF IdleTimeout THEN "idle" ELSE "expire") /\ todo = {}
  /\ SubmitRing
  /\ pc' = "wait"
  /\ UNCHANGED <<todo, ticks, batch, work, tableVars, jsVars, fdSock, nextSock, cq,
                 eventfd, historyVars>>

Reap ==
  /\ pc = "wait"
  /\ batch' = cq /\ cq' = <<>>
  /\ pc' = IF ticks = 0 THEN "process" ELSE "stopProcess"
  /\ UNCHANGED <<todo, ticks, work, tableVars, jsVars, fdSock, nextSock, sq, ops,
                 eventfd, historyVars>>

\* wait_for_completions fails: the worker returns, its state is dropped, the
\* ring is closed and its operations are cancelled.
WorkerFails ==
  /\ WorkerMayFail /\ pc = "wait"
  /\ pc' = "failed"
  /\ connections' = [fd \in Fds |-> NoConnection]
  /\ idToFd' = [id \in Ids |-> NoFd]
  /\ sq' = <<>> /\ ops' = <<>> /\ cq' = <<>>
  /\ UNCHANGED <<todo, ticks, batch, work, nextId, free, jsVars, fdSock, nextSock,
                 eventfd, historyVars>>

-----------------------------------------------------------------------------
(***************************************************************************)
(* Completions, one at a time in the order of the batch.                   *)
(***************************************************************************)
Cqe == Head(batch)
CqeFd == idToFd[Cqe.id]

\* handle_tcp_accept; a refused connection is closed at once.
AcceptConnection(fd) ==
  /\ connections' = [connections EXCEPT ![fd] = [NoConnection EXCEPT !.id = nextId]]
  /\ idToFd' = [idToFd EXCEPT ![nextId] = fd]
  /\ nextId' = IF nextId = IdMax THEN 1 ELSE nextId + 1
  /\ sockOf' = [sockOf EXCEPT ![nextId] = fdSock[fd]]
  /\ events' = [events EXCEPT ![nextId] = Append(@, "connect")]
  /\ UNCHANGED fdSock

\* Mutant: the refused descriptor stays open.
RejectWithoutClose(fd) ==
  UNCHANGED <<fdSock, connections, idToFd, nextId, sockOf, events>>
RejectConnection(fd) ==
  /\ fdSock' = [fdSock EXCEPT ![fd] = 0]
  /\ UNCHANGED <<connections, idToFd, nextId, sockOf, events>>

ConnectionLimitReached ==
  MaxConnections # 0 /\ Cardinality(LiveFds) >= MaxConnections

\* Mutant: not after an error.
RearmAfterSuccess == IF Cqe.more \/ Cqe.fd = NoFd THEN <<>> ELSE <<AcceptEntry>>
\* A multishot accept that has ended is armed again, after an error too.
Rearm == IF Cqe.more THEN <<>> ELSE <<AcceptEntry>>

HandleAccept ==
  /\ pc = "process" /\ batch # <<>> /\ Cqe.op = "accept"
  /\ IF Cqe.fd = NoFd
     THEN /\ sq' = sq \o Rearm
          /\ UNCHANGED <<connections, idToFd, nextId, sockOf, events, fdSock>>
     ELSE IF ConnectionLimitReached
          THEN RejectConnection(Cqe.fd) /\ sq' = sq \o Rearm
          ELSE /\ AcceptConnection(Cqe.fd)
               /\ sq' = Append(sq, RecvEntry(Cqe.fd, nextId)) \o Rearm
  /\ batch' = Tail(batch)
  /\ UNCHANGED <<pc, todo, ticks, work, free, jsVars, nextSock, ops, cq, eventfd,
                 wire, chunks, accepted>>

\* A completion for an id that is not in the table any more.
HandleUnknown ==
  /\ batch # <<>>
  /\ \/ pc = "process" /\ Cqe.op \in {"recv", "send"} /\ CqeFd = NoFd
     \/ pc = "stopProcess" /\ (Cqe.op = "send" => CqeFd = NoFd)
  /\ batch' = Tail(batch)
  /\ UNCHANGED <<pc, todo, ticks, work, tableVars, jsVars, ringVars, historyVars>>

\* handle_tcp_recv with data: tell JavaScript, and arm again when the
\* multishot receive has ended.
HandleRecvData ==
  /\ pc = "process" /\ batch # <<>> /\ Cqe.op = "recv" /\ Cqe.result > 0
  /\ CqeFd # NoFd /\ connections[CqeFd].id = Cqe.id
  /\ events' = [events EXCEPT ![Cqe.id] = Append(@, "data")]
  /\ connections' = [connections EXCEPT ![CqeFd].dataEventPending = TRUE]
  /\ sq' = IF Cqe.more THEN sq ELSE Append(sq, RecvEntry(CqeFd, Cqe.id))
  /\ batch' = Tail(batch)
  /\ UNCHANGED <<pc, todo, ticks, work, idToFd, nextId, free, jsVars, fdSock,
                 nextSock, ops, cq, eventfd, wire, chunks, sockOf, accepted>>

\* Mutant: nothing is armed again.
HandleRecvNoBufferDeaf ==
  /\ pc = "process" /\ batch # <<>> /\ Cqe.op = "recv" /\ Cqe.result = ENoBufs
  /\ CqeFd # NoFd /\ connections[CqeFd].id = Cqe.id
  /\ batch' = Tail(batch)
  /\ UNCHANGED <<pc, todo, ticks, work, tableVars, jsVars, ringVars, historyVars>>
\* ... without a buffer: arm again, unless the connection is closing.
HandleRecvNoBuffer ==
  /\ pc = "process" /\ batch # <<>> /\ Cqe.op = "recv" /\ Cqe.result = ENoBufs
  /\ CqeFd # NoFd /\ connections[CqeFd].id = Cqe.id
  /\ sq' = IF connections[CqeFd].closeAfterSend THEN sq
           ELSE Append(sq, RecvEntry(CqeFd, Cqe.id))
  /\ batch' = Tail(batch)
  /\ UNCHANGED <<pc, todo, ticks, work, tableVars, jsVars, fdSock, nextSock, ops,
                 cq, eventfd, historyVars>>

\* ... at the end of the stream or with an error.
HandleRecvEnd ==
  /\ pc = "process" /\ batch # <<>> /\ Cqe.op = "recv"
  /\ Cqe.result <= 0 /\ Cqe.result # ENoBufs
  /\ CqeFd # NoFd /\ connections[CqeFd].id = Cqe.id
  /\ IF MustDeferRecvShutdown(connections[CqeFd])
     THEN DeferTcpRecvShutdown(CqeFd)
     ELSE CloseTcpConnection(CqeFd, TRUE)
  /\ batch' = Tail(batch)
  /\ UNCHANGED <<pc, todo, ticks, work, nextId, jsVars, nextSock, sq, ops, cq,
                 eventfd, wire, chunks, sockOf, accepted>>

\* Mutant: the first completion counts as the end of the send.
AwaitsNothing(c) == FALSE
\* Mutant: a zero-copy send waits even when no notification is announced.
AwaitsAlways(c) == HasSend(c) /\ c.activeSend.zeroCopy
\* Whether this is the first of the two completions of a zero-copy send.
AwaitsNotification(c) == HasSend(c) /\ c.activeSend.zeroCopy /\ Cqe.more

\* handle_tcp_send: the notification of a zero-copy send, the first of its two
\* completions, any other completion.
HandleSend ==
  /\ pc \in {"process", "stopProcess"} /\ batch # <<>> /\ Cqe.op = "send"
  /\ CqeFd # NoFd
  /\ LET fd == CqeFd
         c == connections[fd]
     IN  CASE Cqe.notif /\ ~c.activeSend.waiting ->
                Keep(fd, c, free) /\ UNCHANGED sq
           [] Cqe.notif /\ c.activeSend.waiting ->
                FinishTcpSend(fd, [c EXCEPT !.activeSend.waiting = FALSE],
                              c.activeSend.result)
           [] ~Cqe.notif /\ ~HasSend(c) ->
                /\ IF Cqe.result <= 0
                   THEN RemoveConnection(fd, c, free, TRUE) ELSE Keep(fd, c, free)
                /\ UNCHANGED sq
           [] ~Cqe.notif /\ AwaitsNotification(c) ->
                /\ Keep(fd, [c EXCEPT !.activeSend.waiting = TRUE,
                                      !.activeSend.result = Cqe.result], free)
                /\ UNCHANGED sq
           [] OTHER -> FinishTcpSend(fd, c, Cqe.result)
  /\ batch' = Tail(batch)
  /\ UNCHANGED <<pc, todo, ticks, work, nextId, jsVars, nextSock, ops, cq, eventfd,
                 wire, chunks, sockOf, accepted>>

\* A wake-up: drain the channel, then arm the read again.
HandleRead ==
  /\ pc = "process" /\ batch # <<>> /\ Cqe.op = "read"
  /\ batch' = Tail(batch)
  /\ pc' = "redrain"
  /\ UNCHANGED <<todo, ticks, work, tableVars, jsVars, ringVars, historyVars>>

\* The batch is done: ring.submit(), and around the loop while the stop flag
\* is not set.  The worker enters its loop here, with the first entries pushed.
EndLoop ==
  /\ pc = "process" /\ batch = <<>>
  /\ SubmitRing
  /\ IF shutdown THEN pc' = "stop" /\ todo' = LiveFds
                 ELSE pc' = "drain" /\ UNCHANGED todo
  /\ UNCHANGED <<ticks, batch, work, tableVars, jsVars, fdSock, nextSock, cq,
                 eventfd, historyVars>>

-----------------------------------------------------------------------------
(***************************************************************************)
(* drain_tcp_shutdown_sends: close what sends nothing, then wait for the   *)
(* active sends for a few rounds, then close by force.                     *)
(***************************************************************************)

SomeActiveSend == \E fd \in LiveFds : HasSend(connections[fd])

\* Mutant: the rounds are not counted.
StopRoundUncounted ==
  /\ pc = "stop" /\ todo = {}
  /\ SomeActiveSend /\ ticks < DrainTicks
  /\ ticks' = 1
  /\ SubmitRing
  /\ pc' = "wait"
  /\ UNCHANGED <<todo, batch, work, tableVars, jsVars, fdSock, nextSock, cq,
                 eventfd, historyVars>>
\* One more round of waiting, while a send is active and rounds are left.
StopRound ==
  /\ pc = "stop" /\ todo = {}
  /\ SomeActiveSend /\ ticks < DrainTicks
  /\ ticks' = ticks + 1
  /\ SubmitRing
  /\ pc' = "wait"
  /\ UNCHANGED <<todo, batch, work, tableVars, jsVars, fdSock, nextSock, cq,
                 eventfd, historyVars>>

StopForce ==
  /\ pc = "stop" /\ todo = {}
  /\ ~(SomeActiveSend /\ ticks < DrainTicks)
  /\ todo' = LiveFds
  /\ pc' = "force"
  /\ UNCHANGED <<ticks, batch, work, tableVars, jsVars, ringVars, historyVars>>

\* The end of a round: close what sends nothing now.
StopEndRound ==
  /\ pc = "stopProcess" /\ batch = <<>>
  /\ todo' = LiveFds
  /\ pc' = "stop"
  /\ UNCHANGED <<ticks, batch, work, tableVars, jsVars, ringVars, historyVars>>

\* force_close_tcp_connection.
ForceClose ==
  /\ pc = "force"
  /\ \E fd \in todo :
       /\ todo' = todo \ {fd}
       /\ RemoveConnection(fd, connections[fd], free, FALSE)
  /\ UNCHANGED <<pc, ticks, batch, work, nextId, jsVars, nextSock, sq, ops, cq,
                 eventfd, wire, chunks, sockOf, accepted>>

\* The worker returns; dropping the ring cancels what it still runs.
Exit ==
  /\ pc = "force" /\ todo = {}
  /\ pc' = "exited"
  /\ sq' = <<>> /\ ops' = <<>> /\ cq' = <<>>
  /\ UNCHANGED <<todo, ticks, batch, work, tableVars, jsVars, fdSock, nextSock,
                 eventfd, historyVars>>

Worker ==
  \/ TakeCommand \/ ExecuteSend \/ ExecuteClose
  \/ FinishCommandCompletion \/ ExpireHalfClosed \/ ExpireIdle \/ CloseNext
  \/ EnterWait \/ Reap
  \/ HandleAccept \/ HandleUnknown \/ HandleRecvData \/ HandleRecvNoBuffer
  \/ HandleRecvEnd \/ HandleSend \/ HandleRead \/ EndLoop
  \/ StopRound \/ StopEndRound \/ StopForce \/ ForceClose \/ Exit

Next == Worker \/ WorkerFails \/ Kernel \/ Enqueue \/ Stop

Spec == Init /\ [][Next]_vars

\* The worker thread is scheduled.  A blocked wait returns after 100 ms even
\* when nothing completes, so Reap needs nothing but the worker.
WorkerFairness == WF_vars(Worker)

\* The kernel finishes the sends it was given and lets go of their buffers:
\* the peer reads, or the connection breaks.  The model lets the kernel act
\* while the worker waits, so "it is at work all the time" is strong fairness.
KernelFinishesSend(id) ==
  \E i \in DOMAIN ops : ops[i].id = id /\ (KernelSend(i) \/ KernelSendError(i))
KernelReleasesBuffer(id) ==
  \E i \in DOMAIN ops : ops[i].id = id /\ KernelNotify(i)
SendFairness ==
  \A id \in Ids :
    SF_vars(KernelFinishesSend(id)) /\ SF_vars(KernelReleasesBuffer(id))

\* Stopping needs the worker alone to be fair; closing also needs the kernel,
\* which CloseCompletes therefore has as a hypothesis.
WorkerSpec == Spec /\ WorkerFairness

-----------------------------------------------------------------------------
(***************************************************************************)
(* Types.                                                                  *)
(***************************************************************************)
PCs == {"drain", "expire", "idle", "wait", "process", "redrain",
        "stop", "stopProcess", "force", "exited", "failed"}

\* Every variable stays in its set: among others, only known ids and open
\* positions of the loop, and every buffer record well-formed.
TypeOK ==
  /\ pc \in PCs
  /\ todo \subseteq Fds
  /\ ticks \in 0..DrainTicks
  /\ batch \in Seq(Completion)
  /\ work \in Seq(Step)
  /\ connections \in [Fds -> Connection]
  /\ idToFd \in [Ids -> Fds \cup {NoFd}]
  /\ nextId \in Ids
  /\ free \in [Slots -> Nat]
  /\ commands \in Seq(Seq(Step))
  /\ issued \in 0..MaxCommands
  /\ shutdown \in BOOLEAN
  /\ fdSock \in [Fds -> Socks \cup {0}]
  /\ nextSock \in 1..(MaxSockets + 1)
  /\ sq \in Seq(Entry)
  /\ ops \in Seq(Operation)
  /\ cq \in Seq(Completion)
  /\ eventfd \in BOOLEAN
  /\ wire \in [Socks -> Seq(Nat)]
  /\ chunks \in [Socks -> 0..MaxChunks]
  /\ sockOf \in [Ids -> Socks \cup {0}]
  /\ accepted \in [Ids -> Nat]
  /\ events \in [Ids -> Seq({"connect", "data", "close"})]

-----------------------------------------------------------------------------
(***************************************************************************)
(* The connection table.                                                   *)
(***************************************************************************)

Running == pc \notin {"exited", "failed"}

\* connections and id_to_fd are each other's inverse after any sequence of
\* accepts, closes and reused descriptors, although they are updated by
\* separate inserts and removes (handle_tcp_accept, close_tcp_connection).
TableConsistent ==
  /\ \A fd \in Fds : Live(fd) => idToFd[connections[fd].id] = fd
  /\ \A id \in Ids : idToFd[id] # NoFd => connections[idToFd[id]].id = id

\* A descriptor in the table is open and still names the socket that was
\* accepted under its id: nothing closes it behind the table's back.
FdsOwned ==
  \A fd \in LiveFds : /\ fdSock[fd] # 0
                      /\ fdSock[fd] = sockOf[connections[fd].id]

\* The table and the descriptors agree: a completion, a command or a close
\* that finds a connection acts on the socket accepted under that id, although
\* the kernel reuses the numbers (handle_tcp_accept, close_tcp_connection).
DescriptorsOwned == TableConsistent /\ FdsOwned

Pending == batch \o cq

\* While the worker runs, every open descriptor is in the table or in one
\* accept completion it has yet to process: none is forgotten.
NoFdForgotten ==
  pc \notin {"stop", "stopProcess", "force", "exited", "failed"} /\ ticks = 0 =>
    \A fd \in OpenFds \ LiveFds :
      \E i \in DOMAIN Pending : Pending[i].op = "accept" /\ Pending[i].fd = fd

\* A descriptor in an accept completion is not in the table yet.
AcceptedFdsAreNew ==
  Running => \A i \in DOMAIN Pending :
    Pending[i].op = "accept" /\ Pending[i].fd # NoFd => ~Live(Pending[i].fd)

-----------------------------------------------------------------------------
(***************************************************************************)
(* Sends and their buffers.                                                *)
(***************************************************************************)
SendsOf(c) == Append(c.sendQueue, c.activeSend)

\* Queued payloads wait behind an active one: no path leaves a queue that
\* nothing will ever submit.
QueueHasActiveSend == \A fd \in Fds :
  connections[fd].sendQueue # <<>> => HasSend(connections[fd])

\* A slot is in the free list once, or held by one payload, and never both:
\* no double release, no sharing, no leak, on every path through completions,
\* retries, notifications and closes.
SlotHolders(s) ==
  {at \in Fds \X (1..(SendQueueCapacity + 1)) :
     LET held == SendsOf(connections[at[1]])
     IN  at[2] \in DOMAIN held /\ held[at[2]].slot = s}
SlotsConserved ==
  pc # "failed" => \A s \in Slots : free[s] + Cardinality(SlotHolders(s)) = 1

\* What the kernel sends from belongs to the active payload of a live
\* connection: the slot (or heap buffer) is not given back while an entry, an
\* operation or a zero-copy hold refers to it.
Sending(q) == {i \in DOMAIN q : q[i].op \in {"send", "hold"}}
KernelBuffersHeld ==
  pc \notin {"force", "exited", "failed"} =>
    \A q \in {sq, ops} : \A i \in Sending(q) :
      LET fd == idToFd[q[i].id]
      IN  /\ fd # NoFd
          /\ HasSend(connections[fd])
          /\ q[i].slot = connections[fd].activeSend.slot
          /\ q[i].pos = connections[fd].activeSend.start
                          + connections[fd].activeSend.offset

\* A connection has one active send exactly when one completion that will
\* finish it is still to be processed: the connection cannot hang waiting for
\* a completion that was swallowed, and no completion is taken for another.
SendTokens(id) ==
  Cardinality({i \in Sending(sq) : sq[i].id = id})
  + Cardinality({i \in Sending(ops) : ops[i].id = id})
  + Cardinality({i \in DOMAIN Pending :
                   Pending[i].op = "send" /\ Pending[i].id = id /\ ~Pending[i].more})
OneSendInFlight ==
  pc \notin {"force", "exited", "failed"} =>
    \A fd \in LiveFds :
      SendTokens(connections[fd].id) = IF HasSend(connections[fd]) THEN 1 ELSE 0

\* A connection that is not closing has exactly one receive armed, or the
\* completion that ended it still to be processed: never deaf, never armed
\* twice.  (Closing connections may stop receiving.)
RecvTokens(id) ==
  Cardinality({i \in DOMAIN sq : sq[i].op = "recv" /\ sq[i].id = id})
  + Cardinality({i \in DOMAIN ops : ops[i].op = "recv" /\ ops[i].id = id})
  + Cardinality({i \in DOMAIN Pending :
                   Pending[i].op = "recv" /\ Pending[i].id = id /\ ~Pending[i].more})
OneRecvPerConnection ==
  pc \notin {"stop", "stopProcess", "force", "exited", "failed"} /\ ticks = 0 =>
    \A fd \in LiveFds :
      LET n == RecvTokens(connections[fd].id)
      IN  IF connections[fd].closeAfterSend THEN n <= 1 ELSE n = 1

\* The listener stays armed: one accept is in flight or about to be armed.
AcceptTokens ==
  Cardinality({i \in DOMAIN sq : sq[i].op = "accept"})
  + Cardinality({i \in DOMAIN ops : ops[i].op = "accept"})
  + Cardinality({i \in DOMAIN Pending : Pending[i].op = "accept" /\ ~Pending[i].more})
ReadTokens ==
  Cardinality({i \in DOMAIN sq : sq[i].op = "read"})
  + Cardinality({i \in DOMAIN ops : ops[i].op = "read"})
  + Cardinality({i \in DOMAIN Pending : Pending[i].op = "read"})
  + (IF pc = "redrain" THEN 1 ELSE 0)
OneAcceptAndOneRead ==
  pc \notin {"stop", "stopProcess", "force", "exited", "failed"} /\ ticks = 0 =>
    AcceptTokens = 1 /\ ReadTokens = 1

\* What the worker listens to stays armed, and once: every connection's
\* receive, the accept and the eventfd read, through the ways in which a
\* multishot operation can end (handle_tcp_recv, handle_tcp_accept).
ArmedOnce == OneRecvPerConnection /\ OneAcceptAndOneRead

\* Whatever is to be sent has somebody who goes on with it: an active send its
\* completion, a queued payload the active send in front of it
\* (finish_tcp_send_completion, queue_tcp_send).
SomeoneFinishes == OneSendInFlight /\ QueueHasActiveSend

-----------------------------------------------------------------------------
(***************************************************************************)
(* The byte stream.                                                        *)
(***************************************************************************)

\* An active payload has bytes left (what remains never underflows), and
\* until a connection starts to close, the bytes on the wire, the unsent part
\* of the active payload and the queued payloads are exactly what was
\* accepted, without a gap.
Contiguous(c) ==
  LET q == <<c.activeSend>> \o c.sendQueue
  IN  \A i \in 1..(Len(q) - 1) : q[i + 1].start = q[i].start + q[i].len
StreamConserved ==
  pc \notin {"force", "exited", "failed"} =>
    \A fd \in LiveFds :
      LET c == connections[fd]
          w == wire[sockOf[c.id]]
          last == IF c.sendQueue = <<>> THEN c.activeSend
                  ELSE c.sendQueue[Len(c.sendQueue)]
      IN  /\ HasSend(c) => c.activeSend.offset < c.activeSend.len
          /\ Contiguous(c)
          /\ HasSend(c) => accepted[c.id] = last.start + last.len
          /\ ~c.closeAfterSend =>
               /\ \A k \in DOMAIN w : w[k] = k
               /\ HasSend(c) => /\ Len(w) >= c.activeSend.start + c.activeSend.offset
                                /\ Len(w) <= c.activeSend.start + c.activeSend.len
               /\ ~HasSend(c) => Len(w) = accepted[c.id]

\* Payloads, their buffers and the bytes the kernel reads from them agree
\* through partial sends, fallbacks, notifications, closes and a stop
\* (submit_tcp_send, finish_tcp_send_completion, release_tcp_send).
BuffersSafe == SlotsConserved /\ KernelBuffersHeld /\ StreamConserved

-----------------------------------------------------------------------------
(***************************************************************************)
(* Events, closing and shutdown.                                           *)
(***************************************************************************)

\* JavaScript sees "connect", then "data", then "close" once, for each id;
\* and while the worker runs an id has left the table only with its "close".
EventProtocol ==
  \A id \in Ids :
    LET e == events[id]
    IN  /\ \A i \in DOMAIN e : /\ (e[i] = "connect") = (i = 1)
                               /\ e[i] = "close" => i = Len(e)
        /\ idToFd[id] # NoFd => e # <<>> /\ e[Len(e)] # "close"
        /\ ~shutdown /\ Running /\ e # <<>> /\ idToFd[id] = NoFd
             => e[Len(e)] = "close"

\* A connection that stays open only to send or to answer has something that
\* will close it: a send in flight or a running grace period.
ClosingHasCloser ==
  pc \notin {"stop", "stopProcess", "force", "exited", "failed"} =>
    \A fd \in LiveFds : connections[fd].closeAfterSend =>
      HasSend(connections[fd]) \/ connections[fd].graceTicks > 0 \/ fd \in todo

\* A connection's life: events in order, a close for whoever leaves the table,
\* and for a connection that only waits to close somebody who closes it
\* (close_tcp_connection, defer_tcp_recv_shutdown, close_expired_*).
ConnectionLife == EventProtocol /\ ClosingHasCloser

\* A send the kernel runs is on the socket of its own connection.
SendOnOwnSocket ==
  \A i \in DOMAIN ops : ops[i].op = "send" => ops[i].sock = sockOf[ops[i].id]

\* A connection that ends without a failed send has sent what it accepted.
AllSentBeforeClose ==
  \A id \in Ids : events[id] # <<>> /\ events[id][Len(events[id])] = "close" =>
    Len(wire[sockOf[id]]) = accepted[id]

\* stop() returns: the worker leaves its loop and its bounded drain whatever
\* the kernel and the peers do.
StopReturns == shutdown ~> ~Running

\* A connection that is to close does close, if the kernel finishes sends and
\* lets go of zero-copy buffers: whatever is partial, fails, falls back or
\* waits for its notification, the send ends and the close follows.
Closing(id) == idToFd[id] # NoFd /\ connections[idToFd[id]].closeAfterSend
CloseCompletes ==
  SendFairness => \A id \in Ids : Closing(id) ~> idToFd[id] = NoFd

-----------------------------------------------------------------------------
(***************************************************************************)
(* The worker implements the streams of TcpStream: seen through this       *)
(* mapping, every step of it opens, feeds, sends on or closes connections. *)
(***************************************************************************)
Phase(id) ==
  CASE events[id] = <<>> -> "unborn"
    [] events[id] # <<>> /\ idToFd[id] = NoFd -> "closed"
    [] OTHER -> IF connections[idToFd[id]].closeAfterSend THEN "closing" ELSE "open"

Streams == INSTANCE TcpStream WITH
  Ids <- Ids,
  phase <- [id \in Ids |-> Phase(id)],
  accepted <- accepted,
  sent <- [id \in Ids |-> IF sockOf[id] = 0 THEN <<>> ELSE wire[sockOf[id]]]

\* Bytes leave in order and, until the connection closes, without a gap;
\* nothing leaves after the close; no id comes back.
ImplementsTcpStream == Streams!StreamSpec
=============================================================================
