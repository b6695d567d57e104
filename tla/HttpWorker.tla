---------------------------- MODULE HttpWorker ----------------------------
(***************************************************************************)
(* The HTTP worker thread (run_worker_inner in src/src/uring.rs) with the  *)
(* kernel side of its ring and the peers.  It answers the first request of *)
(* a connection with one fixed response and closes the connection.  There  *)
(* are no commands and no events; its eventfd read only ends a wait, which *)
(* NativeServer looks at.                                                  *)
(*                                                                         *)
(* The response is the positions 1..ResponseLen.  Time and the kernel's    *)
(* timing are abstracted as in TcpWorker: an idle connection may expire    *)
(* whenever the worker looks; accepts happen at any moment, since they     *)
(* take descriptor numbers, and everything else while the worker waits.    *)
(***************************************************************************)
EXTENDS Integers, Sequences, FiniteSets, HttpProbe

CONSTANTS
  Fds,             \* descriptor numbers the kernel hands out
  NoFd,            \* absence of a descriptor
  MaxSockets,      \* bound: sockets the kernel ever accepts; as many ids
  MaxChunks,       \* bound: receives with data, on all sockets
  Chunks,          \* data such a receive may have
  ResponseLen,     \* length of the response
  MaxConnections,  \* maxConnections, 0 is "no limit"
  UseZeroCopySend, \* useZeroCopySend
  RegisteredSendBuffer, \* whether the response buffer is registered
  IdleTimeout      \* idleTimeoutMs # 0

Ids == 1..MaxSockets
Socks == 1..MaxSockets

ASSUME HttpAssumption ==
  /\ IsFiniteSet(Fds) /\ NoFd \notin Fds
  /\ MaxSockets \in Nat \ {0} /\ MaxChunks \in Nat /\ MaxConnections \in Nat
  /\ ResponseLen \in Nat \ {0}
  /\ {UseZeroCopySend, RegisteredSendBuffer, IdleTimeout} \subseteq BOOLEAN

\* A byte is the string of its character, as in HttpProbe.
ASSUME ChunksAssumption == Chunks \subseteq Seq(STRING)

VARIABLES
  pc,           \* where the worker is
  batch,        \* completions copied out of the ring, in order
  connections,  \* by descriptor; id 0 is "not in the map"
  idToFd,       \* id_to_fd
  nextId,       \* next_connection_id
  shutdown,     \* the stop flag
  fdSock,       \* kernel: the socket behind each descriptor, 0 when closed
  nextSock,     \* kernel: number of the next socket
  sq,           \* submission queue: entries pushed and not yet submitted
  ops,          \* kernel: operations it is executing
  cq,           \* completion queue
  heard,        \* history: receives with data, as [id, data]
  sockOf,       \* history: the socket accepted as a connection id
  wire          \* history: what was sent, as [id, sock, pos]

tableVars == <<connections, idToFd, nextId>>
kernelVars == <<fdSock, nextSock, ops, cq, heard, wire>>
vars == <<pc, batch, tableVars, shutdown, fdSock, nextSock, sq, ops, cq, heard,
          sockOf, wire>>

-----------------------------------------------------------------------------
Connection ==
  [id : Ids \cup {0}, sendStarted : BOOLEAN, sendOffset : 0..(ResponseLen - 1),
   zeroCopyDisabled : BOOLEAN, registeredDisabled : BOOLEAN]

NoConnection ==
  [id |-> 0, sendStarted |-> FALSE, sendOffset |-> 0,
   zeroCopyDisabled |-> FALSE, registeredDisabled |-> FALSE]

LiveFds == {fd \in Fds : connections[fd].id # 0}
OpenFds == {fd \in Fds : fdSock[fd] # 0}
IsOpen(sock) == \E fd \in OpenFds : fdSock[fd] = sock

\* An entry; a send starts after position "pos" of the response.
Entry == [op : {"accept", "recv", "send"}, id : Ids \cup {0}, fd : Fds \cup {NoFd},
          pos : 0..ResponseLen]
AcceptEntry == [op |-> "accept", id |-> 0, fd |-> NoFd, pos |-> 0]
RecvEntry(fd, id) == [op |-> "recv", id |-> id, fd |-> fd, pos |-> 0]
SendEntry(fd, c) == [op |-> "send", id |-> c.id, fd |-> fd, pos |-> c.sendOffset]

\* Once submitted, an entry works on the socket its descriptor names then.
Operation == [op : {"accept", "recv", "send"}, id : Ids \cup {0},
              sock : Socks \cup {0}, pos : 0..ResponseLen]
Bind(e) == [op |-> e.op, id |-> e.id, pos |-> e.pos,
            sock |-> IF e.fd = NoFd THEN 0 ELSE fdSock[e.fd]]

\* "result" is the number of bytes of a send, 1 for a receive with data, 0 for
\* an orderly end, -1 for an error, ENoBufs for -ENOBUFS.
ENoBufs == -2
Completion == [op : {"accept", "recv", "send"}, id : Ids \cup {0},
               fd : Fds \cup {NoFd}, result : ENoBufs..(ResponseLen + 1),
               data : Chunks \cup {<<>>}, more : BOOLEAN]

Init ==
  /\ pc = "process" /\ batch = <<>> /\ shutdown = FALSE
  /\ connections = [fd \in Fds |-> NoConnection]
  /\ idToFd = [id \in Ids |-> NoFd] /\ nextId = 1
  /\ fdSock = [fd \in Fds |-> 0] /\ nextSock = 1
  /\ sq = <<AcceptEntry>> /\ ops = <<>> /\ cq = <<>>
  /\ heard = <<>> /\ sockOf = [id \in Ids |-> 0] /\ wire = <<>>

-----------------------------------------------------------------------------
\* close_connection, for every descriptor of a set.
Close(fds) ==
  /\ connections' = [fd \in Fds |-> IF fd \in fds THEN NoConnection ELSE connections[fd]]
  /\ idToFd' = [id \in Ids |-> IF idToFd[id] \in fds THEN NoFd ELSE idToFd[id]]
  /\ fdSock' = [fd \in Fds |-> IF fd \in fds THEN 0 ELSE fdSock[fd]]

Keep(fd, c) ==
  /\ connections' = [connections EXCEPT ![fd] = c]
  /\ UNCHANGED <<idToFd, fdSock>>

\* Both ring.submit() and wait_for_completions submit what was pushed.
Submit == /\ ops' = ops \o [i \in DOMAIN sq |-> Bind(sq[i])]
          /\ sq' = <<>>

-----------------------------------------------------------------------------
(***************************************************************************)
(* The loop.                                                               *)
(***************************************************************************)

\* close_idle_connections leaves alone what is being answered.
IdleFds == {fd \in LiveFds : IdleTimeout /\ ~connections[fd].sendStarted}
CloseIdle ==
  /\ pc = "loop"
  /\ \E fds \in SUBSET IdleFds : Close(fds)
  /\ pc' = "enter"
  /\ UNCHANGED <<batch, nextId, shutdown, nextSock, sq, ops, cq, heard, sockOf, wire>>

EnterWait ==
  /\ pc = "enter"
  /\ Submit
  /\ pc' = "wait"
  /\ UNCHANGED <<batch, tableVars, shutdown, fdSock, nextSock, cq, heard, sockOf, wire>>

\* The wait ends with completions or after 100 ms.
Reap ==
  /\ pc = "wait"
  /\ batch' = cq /\ cq' = <<>>
  /\ pc' = "process"
  /\ UNCHANGED <<tableVars, shutdown, fdSock, nextSock, sq, ops, heard, sockOf, wire>>

Cqe == Head(batch)
Fd == idToFd[Cqe.id]

ConnectionLimitReached ==
  MaxConnections # 0 /\ Cardinality(LiveFds) >= MaxConnections

AcceptConnection(fd) ==
  /\ connections' = [connections EXCEPT ![fd] = [NoConnection EXCEPT !.id = nextId]]
  /\ idToFd' = [idToFd EXCEPT ![nextId] = fd]
  /\ nextId' = nextId + 1
  /\ sockOf' = [sockOf EXCEPT ![nextId] = fdSock[fd]]
  /\ UNCHANGED fdSock

RejectConnection(fd) ==
  /\ fdSock' = [fdSock EXCEPT ![fd] = 0]
  /\ UNCHANGED <<connections, idToFd, nextId, sockOf>>

\* handle_accept: a connection or a refusal, and a new accept if this one ended.
HandleAccept ==
  /\ pc = "process" /\ batch # <<>> /\ Cqe.op = "accept"
  /\ batch' = Tail(batch)
  /\ LET again == IF Cqe.more THEN <<>> ELSE <<AcceptEntry>>
     IN  \/ /\ Cqe.result < 0
            /\ sq' = sq \o again
            /\ UNCHANGED <<tableVars, fdSock, sockOf>>
         \/ /\ Cqe.result >= 0 /\ ConnectionLimitReached
            /\ RejectConnection(Cqe.fd)
            /\ sq' = sq \o again
         \/ /\ Cqe.result >= 0 /\ ~ConnectionLimitReached
            /\ AcceptConnection(Cqe.fd)
            /\ sq' = sq \o <<RecvEntry(Cqe.fd, nextId)>> \o again
  /\ UNCHANGED <<pc, shutdown, nextSock, ops, cq, heard, wire>>

\* A completion of a connection that has gone.
HandleUnknown ==
  /\ pc = "process" /\ batch # <<>> /\ Cqe.op # "accept" /\ Fd = NoFd
  /\ batch' = Tail(batch)
  /\ UNCHANGED <<pc, tableVars, shutdown, sq, kernelVars, sockOf>>

\* Data that makes a new probe respond.
Requests == {data \in Chunks : ShouldRespond(Observe(NewProbe, data))}

\* Mutant: a pipelined request is answered as well.
AnswersAlways(c, data) == data \in Requests
\* handle_recv: data with a request that is the first.
Answers(c, data) == data \in Requests /\ ~c.sendStarted

\* Mutant: a receive that ends with data is not armed again.
RecvAgainNever(fd, id) == <<>>
\* resubmit_tcp_recv_multi, after the last data of a multishot receive.
RecvAgain(fd, id) == IF Cqe.more THEN <<>> ELSE <<RecvEntry(fd, id)>>

\* handle_recv: no buffer, the end of the peer's stream, or data.
HandleRecv ==
  /\ pc = "process" /\ batch # <<>> /\ Cqe.op = "recv" /\ Fd # NoFd
  /\ batch' = Tail(batch)
  /\ LET c == connections[Fd]
     IN  \/ /\ Cqe.result = ENoBufs
            /\ sq' = Append(sq, RecvEntry(Fd, c.id))
            /\ UNCHANGED <<connections, idToFd, fdSock>>
         \/ /\ Cqe.result <= 0 /\ Cqe.result # ENoBufs
            /\ Close({Fd})
            /\ UNCHANGED sq
         \/ /\ Cqe.result > 0 /\ Answers(c, Cqe.data)
            /\ Keep(Fd, [c EXCEPT !.sendStarted = TRUE])
            /\ sq' = sq \o <<[SendEntry(Fd, c) EXCEPT !.pos = 0]>> \o RecvAgain(Fd, c.id)
         \/ /\ Cqe.result > 0 /\ ~Answers(c, Cqe.data)
            /\ sq' = sq \o RecvAgain(Fd, c.id)
            /\ UNCHANGED <<connections, idToFd, fdSock>>
  /\ UNCHANGED <<pc, nextId, shutdown, nextSock, ops, cq, heard, sockOf, wire>>

CanFallBack(c) == \/ UseZeroCopySend /\ ~c.zeroCopyDisabled
                  \/ RegisteredSendBuffer /\ ~c.registeredDisabled
\* First from zero-copy to copying, then from the registered buffer to the heap.
FallBack(c) == IF UseZeroCopySend /\ ~c.zeroCopyDisabled
               THEN [c EXCEPT !.zeroCopyDisabled = TRUE]
               ELSE [c EXCEPT !.registeredDisabled = TRUE]

\* connection.send_offset += bytes_sent.
Sent(c, n) == [c EXCEPT !.sendOffset = @ + n]

Complete(c) == c.sendOffset >= ResponseLen

\* Mutant: a failed send is not tried again.
RetryNever(fd, c) == Keep(fd, c) /\ UNCHANGED sq
\* submit_send from the offset the connection has.
Retry(fd, c) == Keep(fd, c) /\ sq' = Append(sq, SendEntry(fd, c))

\* handle_send: fall back, give up, go on, or close after the last byte.
HandleSend ==
  /\ pc = "process" /\ batch # <<>> /\ Cqe.op = "send" /\ Fd # NoFd
  /\ batch' = Tail(batch)
  /\ LET c == connections[Fd]
         d == Sent(c, Cqe.result)
     IN  \/ /\ Cqe.result < 0 /\ CanFallBack(c)
            /\ Retry(Fd, FallBack(c))
         \/ /\ Cqe.result <= 0 /\ ~(Cqe.result < 0 /\ CanFallBack(c))
            /\ Close({Fd}) /\ UNCHANGED sq
         \/ /\ Cqe.result > 0 /\ ~Complete(d)
            /\ Retry(Fd, d)
         \/ /\ Cqe.result > 0 /\ Complete(d)
            /\ Close({Fd}) /\ UNCHANGED sq
  /\ UNCHANGED <<pc, nextId, shutdown, nextSock, ops, cq, heard, sockOf, wire>>

\* ring.submit() and the loop condition; the worker enters its loop here.
EndLoop ==
  /\ pc = "process" /\ batch = <<>>
  /\ Submit
  /\ pc' = IF shutdown THEN "close" ELSE "loop"
  /\ UNCHANGED <<batch, tableVars, shutdown, fdSock, nextSock, cq, heard, sockOf, wire>>

\* The worker closes its connections and returns; the ring goes with it.
Exit ==
  /\ pc = "close"
  /\ Close(LiveFds)
  /\ pc' = "exited"
  /\ ops' = <<>> /\ cq' = <<>>
  /\ UNCHANGED <<batch, nextId, shutdown, nextSock, sq, heard, sockOf, wire>>

Worker == \/ CloseIdle \/ EnterWait \/ Reap \/ HandleAccept \/ HandleUnknown
          \/ HandleRecv \/ HandleSend \/ EndLoop \/ Exit

\* wait_for_completions returns an error, and with it the worker.
WorkerFails ==
  /\ pc = "wait"
  /\ pc' = "exited"
  /\ ops' = <<>> /\ cq' = <<>>
  /\ UNCHANGED <<batch, tableVars, shutdown, fdSock, nextSock, sq, heard, sockOf, wire>>

\* UringHttpServer.stop sets the flag.
Stop ==
  /\ ~shutdown /\ shutdown' = TRUE
  /\ UNCHANGED <<pc, batch, tableVars, sq, kernelVars, sockOf>>

-----------------------------------------------------------------------------
(***************************************************************************)
(* The kernel and the peers.  Notifications of zero-copy sends are left    *)
(* out: the worker only counts them, and the response outlives every send  *)
(* but those of a worker that returns.                                     *)
(***************************************************************************)
WithoutOp(i) == SubSeq(ops, 1, i - 1) \o SubSeq(ops, i + 1, Len(ops))

Posted(op, id, fd, result, data, more) ==
  cq' = Append(cq, [op |-> op, id |-> id, fd |-> fd, result |-> result,
                    data |-> data, more |-> more])

KernelAccept(i) ==
  /\ ops[i].op = "accept" /\ nextSock <= MaxSockets
  /\ \E fd \in Fds \ OpenFds, more \in BOOLEAN :
       /\ fdSock' = [fdSock EXCEPT ![fd] = nextSock]
       /\ Posted("accept", 0, fd, 1, <<>>, more)
       /\ ops' = IF more THEN ops ELSE WithoutOp(i)
  /\ nextSock' = nextSock + 1
  /\ UNCHANGED <<pc, batch, tableVars, shutdown, sq, heard, sockOf, wire>>

KernelAcceptError(i) ==
  /\ pc = "wait" /\ ops[i].op = "accept"
  /\ Posted("accept", 0, NoFd, -1, <<>>, FALSE)
  /\ ops' = WithoutOp(i)
  /\ UNCHANGED <<pc, batch, tableVars, shutdown, fdSock, nextSock, sq, heard, sockOf,
                 wire>>

KernelRecvData(i) ==
  /\ pc = "wait" /\ ops[i].op = "recv" /\ IsOpen(ops[i].sock)
  /\ Len(heard) < MaxChunks
  /\ \E data \in Chunks, more \in BOOLEAN :
       /\ heard' = Append(heard, [id |-> ops[i].id, data |-> data])
       /\ Posted("recv", ops[i].id, NoFd, 1, data, more)
       /\ ops' = IF more THEN ops ELSE WithoutOp(i)
  /\ UNCHANGED <<pc, batch, tableVars, shutdown, fdSock, nextSock, sq, sockOf, wire>>

\* The end of the stream, an error, a closed descriptor, or no buffer left.
KernelRecvEnd(i) ==
  /\ pc = "wait" /\ ops[i].op = "recv"
  /\ \E result \in {0, ENoBufs} : Posted("recv", ops[i].id, NoFd, result, <<>>, FALSE)
  /\ ops' = WithoutOp(i)
  /\ UNCHANGED <<pc, batch, tableVars, shutdown, fdSock, nextSock, sq, heard, sockOf,
                 wire>>

\* A send hands some of the rest of the response to the network.
KernelSend(i) ==
  /\ pc = "wait" /\ ops[i].op = "send" /\ IsOpen(ops[i].sock)
  /\ \E n \in 1..(ResponseLen - ops[i].pos) :
       /\ wire' = wire \o [k \in 1..n |-> [id |-> ops[i].id, sock |-> ops[i].sock,
                                           pos |-> ops[i].pos + k]]
       /\ Posted("send", ops[i].id, NoFd, n, <<>>, FALSE)
  /\ ops' = WithoutOp(i)
  /\ UNCHANGED <<pc, batch, tableVars, shutdown, fdSock, nextSock, sq, heard, sockOf>>

KernelSendError(i) ==
  /\ pc = "wait" /\ ops[i].op = "send"
  /\ Posted("send", ops[i].id, NoFd, -1, <<>>, FALSE)
  /\ ops' = WithoutOp(i)
  /\ UNCHANGED <<pc, batch, tableVars, shutdown, fdSock, nextSock, sq, heard, sockOf,
                 wire>>

Kernel ==
  \E i \in DOMAIN ops :
    \/ KernelAccept(i) \/ KernelAcceptError(i) \/ KernelRecvData(i)
    \/ KernelRecvEnd(i) \/ KernelSend(i) \/ KernelSendError(i)

Next == Worker \/ WorkerFails \/ Stop \/ Kernel

Spec == Init /\ [][Next]_vars

\* The worker thread is scheduled; a wait returns after 100 ms at the latest.
FairSpec == Spec /\ WF_vars(Worker)

-----------------------------------------------------------------------------
(***************************************************************************)
(* Properties.                                                             *)
(***************************************************************************)

\* Every variable keeps its type; a connection in the table has a part of the
\* response left to send, which submit_send relies on.
TypeOK ==
  /\ pc \in {"loop", "enter", "wait", "process", "close", "exited"}
  /\ batch \in Seq(Completion) /\ cq \in Seq(Completion)
  /\ connections \in [Fds -> Connection]
  /\ idToFd \in [Ids -> Fds \cup {NoFd}] /\ nextId \in 1..(MaxSockets + 1)
  /\ shutdown \in BOOLEAN
  /\ fdSock \in [Fds -> Socks \cup {0}] /\ nextSock \in 1..(MaxSockets + 1)
  /\ sq \in Seq(Entry) /\ ops \in Seq(Operation)
  /\ heard \in Seq([id : Ids, data : Chunks]) /\ sockOf \in [Ids -> Socks \cup {0}]
  /\ wire \in Seq([id : Ids, sock : Socks, pos : 1..ResponseLen])

\* The two maps of the table are inverse to each other, and a descriptor in it
\* is open and names the socket accepted under its id, although descriptor
\* numbers are reused while completions of their former owners arrive.
TableConsistent ==
  /\ \A fd \in LiveFds : /\ idToFd[connections[fd].id] = fd
                         /\ fdSock[fd] = sockOf[connections[fd].id]
                         /\ fdSock[fd] # 0
  /\ \A id \in Ids : idToFd[id] # NoFd => connections[idToFd[id]].id = id

\* A connection has exactly one receive: pushed, with the kernel, or with a
\* completion on its way that ends it.
Receives(id) ==
  LET last(s) == Cardinality({i \in DOMAIN s : s[i].op = "recv" /\ s[i].id = id
                                                /\ ~s[i].more})
      all(s) == Cardinality({i \in DOMAIN s : s[i].op = "recv" /\ s[i].id = id})
  IN  all(sq) + all(ops) + last(batch) + last(cq)
OneRecvArmed ==
  pc # "exited" => \A fd \in LiveFds : Receives(connections[fd].id) = 1

\* A connection sends the response once, from its first byte on, without a gap
\* or a repetition, through pipelined requests, partial sends and both
\* fallbacks (handle_recv and handle_send).
SentBefore(k) == {j \in 1..k : wire[j].id = wire[k].id}
AnswerInOrder == \A k \in DOMAIN wire : wire[k].pos = Cardinality(SentBefore(k))

\* A connection keeps its own through reuse, refusals, errors and closes: its
\* descriptor, its one receive and its one answer, and while it is in the table
\* a part of the response is left to send (TypeOK).
ConnectionsWhole == TypeOK /\ TableConsistent /\ OneRecvArmed /\ AnswerInOrder

\* Only connections that were sent a request are answered: the probe decides as
\* its definition does, wherever a bundle is cut, and every byte that leaves
\* belongs to a connection on which such data has arrived.
OnlyRequestsAnswered ==
  /\ ProbeIsExact
  /\ \A k \in DOMAIN wire : \E j \in DOMAIN heard :
       heard[j].id = wire[k].id /\ IsRequest(heard[j].data)

\* A connection whose request was recognised is closed in the end if the kernel
\* keeps none of its sends for ever: the peer reads, or the connection breaks.
\* It is closed after the response or because of an error; nothing else ends
\* it, since idle timeouts leave it alone (close_idle_connections).
Answering(id) == idToFd[id] # NoFd /\ connections[idToFd[id]].sendStarted
Sending(id) == \E i \in DOMAIN ops : ops[i].op = "send" /\ ops[i].id = id
RequestsEnd ==
  \A id \in Ids :
    []<>~Sending(id) => (Answering(id) ~> idToFd[id] = NoFd \/ pc = "exited")
=============================================================================
