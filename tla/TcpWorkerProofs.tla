-------------------------- MODULE TcpWorkerProofs --------------------------
(***************************************************************************)
(* Type correctness of the TCP worker, that an accept never overwrites a   *)
(* live entry of its table, that the table stays consistent and owns its   *)
(* descriptors, and that none is forgotten, for every value of the         *)
(* constants.                                                              *)
(*                                                                         *)
(* None of it is inductive alone.  IInv, stated below, adds what a handler *)
(* relies on when it looks a connection up; the lemmas <Action>Step show   *)
(* that each action preserves it, and NextIInv puts them together.  Every  *)
(* change of the table goes through one of five operators, whose effect is *)
(* stated once (KeepEffect, RemoveEffect, SubmitEffect, QueueEffect,       *)
(* FinishEffect).                                                          *)
(***************************************************************************)
EXTENDS TcpWorker, FiniteSetTheorems, TLAPS

(***************************************************************************)
(* Values of the record types.                                             *)
(***************************************************************************)

LEMMA NoSendType == NoSend \in PendingSend
  BY DEF NoSend, PendingSend

LEMMA NoConnectionType == NoConnection \in Connection /\ NoConnection.id = 0
  BY NoSendType, NumberAssumption DEF NoConnection, Connection

LEMMA ReleasedType ==
  ASSUME NEW pool \in [Slots -> Nat], NEW q \in Seq(PendingSend)
  PROVE  Released(pool, q) \in [Slots -> Nat]
<1>1. ASSUME NEW s \in Slots
      PROVE  pool[s] + Cardinality({i \in DOMAIN q : q[i].slot = s}) \in Nat
  <2>1. DOMAIN q = 1..Len(q) /\ Len(q) \in Nat
    OBVIOUS
  <2>2. IsFiniteSet(1..Len(q))
    BY <2>1, FS_Interval
  <2>3. IsFiniteSet({i \in DOMAIN q : q[i].slot = s})
    BY <2>1, <2>2, FS_Subset
  <2> QED
    BY <2>3, FS_CardinalityType
<1> QED
  BY <1>1 DEF Released

\* The updates of a connection record that the worker makes give connection
\* records again and do not change the id.
LEMMA ConnectionFields ==
  ASSUME NEW c \in Connection
  PROVE  /\ c.id \in Ids \cup {0} /\ c.closeAfterSend \in BOOLEAN
         /\ c.dataEventPending \in BOOLEAN /\ c.graceTicks \in 0..GraceTicks
         /\ c.sendQueue \in Seq(PendingSend) /\ c.activeSend \in PendingSend
  BY DEF Connection

LEMMA SetClosing ==
  ASSUME NEW c \in Connection, NEW b \in BOOLEAN
  PROVE  LET d == [c EXCEPT !.closeAfterSend = b]
         IN  d \in Connection /\ d.id = c.id
  BY DEF Connection

LEMMA SetGrace ==
  ASSUME NEW c \in Connection, NEW g \in 0..GraceTicks
  PROVE  LET d == [c EXCEPT !.closeAfterSend = TRUE, !.graceTicks = g]
         IN  d \in Connection /\ d.id = c.id
  BY DEF Connection

LEMMA SetActive ==
  ASSUME NEW c \in Connection, NEW p \in PendingSend
  PROVE  LET d == [c EXCEPT !.activeSend = p]
         IN  d \in Connection /\ d.id = c.id
  BY DEF Connection

LEMMA SetQueue ==
  ASSUME NEW c \in Connection, NEW q \in Seq(PendingSend)
  PROVE  LET d == [c EXCEPT !.sendQueue = q]
         IN  d \in Connection /\ d.id = c.id
  BY DEF Connection

LEMMA NextActive ==
  ASSUME NEW c \in Connection, c.sendQueue # <<>>
  PROVE  LET d == [c EXCEPT !.activeSend = Head(c.sendQueue), !.sendQueue = Tail(@)]
         IN  d \in Connection /\ d.id = c.id
<1>1. Tail(c.sendQueue) \in Seq(PendingSend) /\ Head(c.sendQueue) \in PendingSend
  BY ConnectionFields
<1> QED
  BY <1>1 DEF Connection

LEMMA ActiveUpdates ==
  ASSUME NEW c \in Connection
  PROVE  /\ \A b \in BOOLEAN : LET d == [c EXCEPT !.activeSend.waiting = b]
                               IN  d \in Connection /\ d.id = c.id
         /\ \A r \in Int : LET d == [c EXCEPT !.activeSend.waiting = TRUE,
                                              !.activeSend.result = r]
                           IN  d \in Connection /\ d.id = c.id
         /\ LET d == [c EXCEPT !.activeSend.zeroCopy = FALSE,
                               !.activeSend.waiting = FALSE]
            IN  d \in Connection /\ d.id = c.id
         /\ LET d == [c EXCEPT !.activeSend.slot = NoSlot,
                               !.activeSend.waiting = FALSE]
            IN  d \in Connection /\ d.id = c.id
  BY DEF Connection, PendingSend

LEMMA OffsetUpdate ==
  ASSUME NEW c \in Connection, NEW result \in Int, NEW b \in BOOLEAN
  PROVE  LET d == [c EXCEPT !.closeAfterSend = b,
                     !.activeSend.offset = IF result > 0 THEN @ + result ELSE @]
         IN  d \in Connection /\ d.id = c.id /\ d.sendQueue = c.sendQueue
<1> DEFINE n == IF result > 0 THEN c.activeSend.offset + result ELSE c.activeSend.offset
           p == [c.activeSend EXCEPT !.offset = n]
<1>1. c.activeSend \in PendingSend
  BY ConnectionFields
<1>2. c.activeSend.offset \in Nat
  BY <1>1 DEF PendingSend
<1>3. n \in Nat
  BY <1>2
<1>4. p \in PendingSend
  BY <1>1, <1>3 DEF PendingSend
<1>5. [c EXCEPT !.closeAfterSend = b,
                !.activeSend.offset = IF result > 0 THEN @ + result ELSE @]
      = [c EXCEPT !.closeAfterSend = b, !.activeSend = p]
  OBVIOUS
<1> HIDE DEF p
<1>6. LET d == [c EXCEPT !.closeAfterSend = b, !.activeSend = p]
      IN  d \in Connection /\ d.id = c.id /\ d.sendQueue = c.sendQueue
  BY <1>4 DEF Connection
<1> QED
  BY <1>5, <1>6

LEMMA SendEntryType ==
  ASSUME NEW fd \in Fds, NEW c \in Connection, c.id \in Ids
  PROVE  SendEntry(fd, c) \in Entry
<1>1. SendEntry(fd, c)
        \in [op : {"accept", "read", "recv", "send"}, id : Ids \cup {0},
            fd : Fds \cup {NoFd}, pos : Nat, rem : Int, zeroCopy : BOOLEAN,
            slot : Slots \cup {NoSlot}]
  BY DEF SendEntry, Connection, PendingSend
<1> QED
  BY <1>1, FdAssumption DEF Entry, SendEntry, Ids

-----------------------------------------------------------------------------
(***************************************************************************)
(* What the worker's steps do to the connection table.  The table          *)
(* invariants only look at the ids, id_to_fd and the descriptors, and a    *)
(* step leaves those alone, or removes one connection, or adds one.        *)
(***************************************************************************)

TableTypes ==
  /\ connections \in [Fds -> Connection]
  /\ idToFd \in [Ids -> Fds \cup {NoFd}]
  /\ free \in [Slots -> Nat]
  /\ fdSock \in [Fds -> Socks \cup {0}]
  /\ events \in [Ids -> Seq({"connect", "data", "close"})]

SameTable ==
  /\ \A f \in Fds : connections'[f].id = connections[f].id
  /\ UNCHANGED <<idToFd, fdSock>>

Removes(fd) ==
  /\ \A f \in Fds : connections'[f].id = IF f = fd THEN 0 ELSE connections[f].id
  /\ idToFd' = [idToFd EXCEPT ![connections[fd].id] = NoFd]
  /\ fdSock' = [fdSock EXCEPT ![fd] = 0]

LEMMA KeepEffect ==
  ASSUME TableTypes, NEW fd \in Fds, NEW c \in Connection,
         c.id = connections[fd].id,
         NEW pool \in [Slots -> Nat], Keep(fd, c, pool)
  PROVE  TableTypes' /\ SameTable
  BY DEF TableTypes, Keep, SameTable

LEMMA RemoveEffect ==
  ASSUME TableTypes, NEW fd \in Fds, NEW c \in Connection,
         c.id = connections[fd].id,
         NEW pool \in [Slots -> Nat], NEW e \in BOOLEAN,
         RemoveConnection(fd, c, pool, e)
  PROVE  TableTypes' /\ Removes(fd)
<1>1. Append(c.sendQueue, c.activeSend) \in Seq(PendingSend)
  BY ConnectionFields
<1>2. free' \in [Slots -> Nat]
  BY <1>1, ReleasedType DEF RemoveConnection
<1>3. events' \in [Ids -> Seq({"connect", "data", "close"})]
  <2>1. \A id \in Ids : Append(events[id], "close") \in Seq({"connect", "data", "close"})
    BY DEF TableTypes
  <2> QED
    BY <2>1 DEF RemoveConnection, TableTypes
<1>4. connections' \in [Fds -> Connection]
  BY NoConnectionType DEF RemoveConnection, TableTypes
<1>5. Removes(fd)
  BY NoConnectionType DEF RemoveConnection, Removes, TableTypes
<1> QED
  BY <1>2, <1>3, <1>4, <1>5 DEF RemoveConnection, TableTypes

LEMMA CloseEffect ==
  ASSUME TableTypes, NEW fd \in Fds, NEW e \in BOOLEAN, CloseTcpConnection(fd, e)
  PROVE  TableTypes' /\ (SameTable \/ Removes(fd))
<1> DEFINE c == connections[fd]
<1>1. c \in Connection /\ free \in [Slots -> Nat]
  BY DEF TableTypes
<1>2. \/ Keep(fd, [c EXCEPT !.closeAfterSend = TRUE], free)
      \/ RemoveConnection(fd, c, free, e)
  BY DEF CloseTcpConnection
<1>3. LET d == [c EXCEPT !.closeAfterSend = TRUE]
      IN  d \in Connection /\ d.id = c.id
  BY <1>1, SetClosing
<1> QED
  BY <1>1, <1>2, <1>3, KeepEffect, RemoveEffect

LEMMA CloseAfterSendEffect ==
  ASSUME TableTypes, NEW fd \in Fds, CloseTcpConnectionAfterSend(fd)
  PROVE  TableTypes' /\ (SameTable \/ Removes(fd))
<1> DEFINE c == connections[fd]
<1>1. c \in Connection /\ free \in [Slots -> Nat]
  BY DEF TableTypes
<1>2. \/ Keep(fd, [c EXCEPT !.closeAfterSend = TRUE], free)
      \/ RemoveConnection(fd, c, free, TRUE)
  BY DEF CloseTcpConnectionAfterSend
<1>3. LET d == [c EXCEPT !.closeAfterSend = TRUE]
      IN  d \in Connection /\ d.id = c.id
  BY <1>1, SetClosing
<1> QED
  BY <1>1, <1>2, <1>3, KeepEffect, RemoveEffect

LEMMA DeferEffect ==
  ASSUME TableTypes, NEW fd \in Fds, DeferTcpRecvShutdown(fd)
  PROVE  TableTypes' /\ SameTable
<1> DEFINE c == connections[fd]
           g == IF c.dataEventPending THEN GraceTicks ELSE c.graceTicks
<1>1. c \in Connection /\ free \in [Slots -> Nat]
  BY DEF TableTypes
<1>2. g \in 0..GraceTicks
  BY <1>1, ConnectionFields, NumberAssumption
<1>3. [c EXCEPT !.closeAfterSend = TRUE,
                !.graceTicks = IF c.dataEventPending THEN GraceTicks ELSE @]
      = [c EXCEPT !.closeAfterSend = TRUE, !.graceTicks = g]
  OBVIOUS
<1>4. Keep(fd, [c EXCEPT !.closeAfterSend = TRUE, !.graceTicks = g], free)
  BY <1>3 DEF DeferTcpRecvShutdown
<1> HIDE DEF g
<1> QED
  BY <1>1, <1>2, <1>4, SetGrace, KeepEffect

LEMMA SubmitEffect ==
  ASSUME TableTypes, sq \in Seq(Entry), NEW fd \in Fds, NEW c \in Connection,
         c.id = connections[fd].id, c.id \in Ids,
         NEW pool \in [Slots -> Nat], Submit(fd, c, pool)
  PROVE  TableTypes' /\ SameTable /\ sq' \in Seq(Entry)
  BY KeepEffect, SendEntryType DEF Submit

LEMMA QueueEffect ==
  ASSUME TableTypes, sq \in Seq(Entry), accepted \in [Ids -> Nat],
         NEW fd \in Fds, Live(fd), NEW len \in Nat, QueueTcpSend(fd, len)
  PROVE  /\ TableTypes' /\ SameTable
         /\ sq' \in Seq(Entry) /\ accepted' \in [Ids -> Nat]
<1> DEFINE c == [connections[fd] EXCEPT !.dataEventPending = FALSE, !.graceTicks = 0]
           p(slot) == [NoSend EXCEPT !.start = accepted[c.id], !.len = len,
                                     !.slot = slot, !.zeroCopy = UseZeroCopySend]
           pool(slot) == [s \in Slots |-> IF s = slot THEN free[s] - 1 ELSE free[s]]
<1>1. connections[fd] \in Connection /\ free \in [Slots -> Nat] /\ 0 \in 0..GraceTicks
  BY NumberAssumption DEF TableTypes
<1>2. c \in Connection /\ c.id = connections[fd].id
  BY <1>1 DEF Connection
<1>3. c.id \in Ids
  BY <1>2, ConnectionFields DEF Live
<1>4. CASE len = 0 \/ (HasSend(c) /\ Len(c.sendQueue) >= SendQueueCapacity)
  <2>1. Keep(fd, c, free) /\ UNCHANGED <<sq, accepted>>
    BY <1>4 DEF QueueTcpSend
  <2> QED
    BY <2>1, <1>1, <1>2, KeepEffect
<1>5. CASE ~(len = 0 \/ (HasSend(c) /\ Len(c.sendQueue) >= SendQueueCapacity))
  <2>1. PICK slot \in SlotChoices(len) :
          /\ accepted' = [accepted EXCEPT ![c.id] = @ + len]
          /\ IF HasSend(c)
             THEN /\ Keep(fd, [c EXCEPT !.sendQueue = Append(@, p(slot))], pool(slot))
                  /\ UNCHANGED sq
             ELSE /\ Keep(fd, [c EXCEPT !.activeSend = p(slot)], pool(slot))
                  /\ sq' = Append(sq, SendEntry(fd, [c EXCEPT !.activeSend = p(slot)]))
    BY <1>5 DEF QueueTcpSend
  <2>2. slot \in Slots => free[slot] > 0
    BY SlotAssumption DEF SlotChoices
  <2>3. slot \in Slots \cup {NoSlot}
    BY DEF SlotChoices
  <2>4. pool(slot) \in [Slots -> Nat]
    BY <1>1, <2>2
  <2>5. p(slot) \in PendingSend
    <3>1. accepted[c.id] \in Nat /\ UseZeroCopySend \in BOOLEAN
      BY <1>3, OptionAssumption
    <3> QED
      BY <3>1, <2>3, NoSendType DEF PendingSend
  <2>6. accepted' \in [Ids -> Nat]
    BY <2>1, <1>3
  <2> HIDE DEF p, pool, c
  <2>7. CASE HasSend(c)
    <3>1. Append(c.sendQueue, p(slot)) \in Seq(PendingSend)
      BY <1>2, <2>5, ConnectionFields
    <3>2. LET d == [c EXCEPT !.sendQueue = Append(@, p(slot))]
          IN  d \in Connection /\ d.id = c.id
      BY <1>2, <3>1, SetQueue
    <3>3. Keep(fd, [c EXCEPT !.sendQueue = Append(@, p(slot))], pool(slot)) /\ UNCHANGED sq
      BY <2>1, <2>7
    <3> QED
      BY <1>2, <2>4, <2>6, <3>2, <3>3, KeepEffect
  <2>8. CASE ~HasSend(c)
    <3>1. LET d == [c EXCEPT !.activeSend = p(slot)]
          IN  d \in Connection /\ d.id = c.id
      BY <1>2, <2>5, SetActive
    <3> DEFINE d == [c EXCEPT !.activeSend = p(slot)]
    <3>2. Keep(fd, d, pool(slot)) /\ sq' = Append(sq, SendEntry(fd, d))
      BY <2>1, <2>8
    <3> HIDE DEF d
    <3>3. SendEntry(fd, d) \in Entry
      BY <1>3, <3>1, SendEntryType DEF d
    <3>4. sq' \in Seq(Entry)
      BY <3>2, <3>3
    <3>5. d \in Connection /\ d.id = connections[fd].id
      BY <1>2, <3>1 DEF d
    <3> QED
      BY <2>4, <2>6, <3>2, <3>4, <3>5, KeepEffect
  <2> QED
    BY <2>7, <2>8
<1> QED
  BY <1>4, <1>5

LEMMA FinishEffect ==
  ASSUME TableTypes, sq \in Seq(Entry), NEW fd \in Fds, NEW c \in Connection,
         c.id = connections[fd].id, c.id \in Ids,
         NEW result \in Int, FinishTcpSend(fd, c, result)
  PROVE  TableTypes' /\ (SameTable \/ Removes(fd)) /\ sq' \in Seq(Entry)
<1> DEFINE a == c.activeSend
           closing == c.closeAfterSend \/ result <= 0
           d == [c EXCEPT !.closeAfterSend = @ \/ result <= 0,
                   !.activeSend.offset = IF result > 0 THEN @ + result ELSE @]
           pool == Released(free, <<a>>)
<1>1. free \in [Slots -> Nat] /\ a \in PendingSend /\ closing \in BOOLEAN
  BY ConnectionFields DEF TableTypes
<1>2. pool \in [Slots -> Nat]
  <2>1. <<a>> \in Seq(PendingSend)
    BY <1>1
  <2> QED
    BY <1>1, <2>1, ReleasedType
<1>3. d \in Connection /\ d.id = c.id /\ d.sendQueue = c.sendQueue
  <2>1. d = [c EXCEPT !.closeAfterSend = closing,
               !.activeSend.offset = IF result > 0 THEN @ + result ELSE @]
    OBVIOUS
  <2> HIDE DEF closing, d
  <2> QED
    BY <1>1, <2>1, OffsetUpdate, Zenon
<1> DEFINE retry == [c EXCEPT !.activeSend.zeroCopy = FALSE, !.activeSend.waiting = FALSE]
           copy == [c EXCEPT !.activeSend.slot = NoSlot, !.activeSend.waiting = FALSE]
           next == [d EXCEPT !.activeSend = Head(d.sendQueue), !.sendQueue = Tail(@)]
           idle == [d EXCEPT !.activeSend = NoSend]
<1>4. \/ Submit(fd, retry, free)
      \/ Submit(fd, copy, pool)
      \/ Submit(fd, d, free)
      \/ d.sendQueue # <<>> /\ Submit(fd, next, pool)
      \/ RemoveConnection(fd, idle, pool, TRUE) /\ UNCHANGED sq
      \/ Keep(fd, idle, pool) /\ UNCHANGED sq
  <2> HIDE DEF d, pool, retry, copy, next, idle
  <2>1. \/ Submit(fd, retry, free)
        \/ Submit(fd, copy, pool)
        \/ Submit(fd, d, free)
        \/ TakeNextSend(fd, d, pool)
    BY DEF FinishTcpSend, d, pool, retry, copy
  <2>2. TakeNextSend(fd, d, pool) =>
          \/ d.sendQueue # <<>> /\ Submit(fd, next, pool)
          \/ RemoveConnection(fd, idle, pool, TRUE) /\ UNCHANGED sq
          \/ Keep(fd, idle, pool) /\ UNCHANGED sq
    BY DEF TakeNextSend, next, idle
  <2> QED
    BY <2>1, <2>2
<1>5. retry \in Connection /\ retry.id = c.id /\ copy \in Connection /\ copy.id = c.id
  BY ActiveUpdates, Zenon
<1>6. d.sendQueue # <<>> => next \in Connection /\ next.id = c.id
  <2> HIDE DEF d
  <2> QED
    BY <1>3, NextActive
<1>7. idle \in Connection /\ idle.id = c.id
  BY <1>3, NoSendType, SetActive
<1> HIDE DEF d, pool, retry, copy, next, idle
<1> QED
  BY <1>1, <1>2, <1>3, <1>4, <1>5, <1>6, <1>7, SubmitEffect, KeepEffect, RemoveEffect

-----------------------------------------------------------------------------
(***************************************************************************)
(* The inductive invariant.  Types alone are not inductive: a handler that *)
(* looks an id up must find that very connection (IdsResolve), which needs *)
(* that an accepted descriptor never overwrites a live one (AcceptsNew),   *)
(* which needs that live descriptors are open, so that the kernel does not *)
(* hand them out (LiveOpen).                                               *)
(***************************************************************************)

IdsResolve == \A id \in Ids : idToFd[id] # NoFd => connections[idToFd[id]].id = id

LiveOpen == \A fd \in Fds : Live(fd) => fdSock[fd] # 0

IsAccept(e) == e.op = "accept" /\ e.fd # NoFd

AcceptsNew ==
  /\ \A i \in DOMAIN Pending : IsAccept(Pending[i]) =>
       fdSock[Pending[i].fd] # 0 /\ connections[Pending[i].fd].id = 0
  /\ \A i, j \in DOMAIN Pending :
       IsAccept(Pending[i]) /\ IsAccept(Pending[j]) /\ i # j =>
         Pending[i].fd # Pending[j].fd

ForceTodo == pc = "force" => \A fd \in todo : Live(fd)

Phases ==
  /\ pc \notin {"process", "redrain", "stopProcess"} => batch = <<>>
  /\ pc \notin {"drain", "redrain"} => work = <<>>

IInv ==
  /\ TypeOK
  /\ IdsResolve
  /\ LiveOpen
  /\ AcceptsNew
  /\ ForceTodo
  /\ Phases

LEMMA TypesSplit ==
  TypeOK <=>
    /\ TableTypes
    /\ pc \in PCs /\ todo \subseteq Fds /\ ticks \in 0..DrainTicks
    /\ batch \in Seq(Completion) /\ work \in Seq(Step)
    /\ nextId \in Ids
    /\ commands \in Seq(Seq(Step)) /\ issued \in 0..MaxCommands
    /\ shutdown \in BOOLEAN
    /\ nextSock \in 1..(MaxSockets + 1)
    /\ sq \in Seq(Entry) /\ ops \in Seq(Operation) /\ cq \in Seq(Completion)
    /\ eventfd \in BOOLEAN
    /\ wire \in [Socks -> Seq(Nat)] /\ chunks \in [Socks -> 0..MaxChunks]
    /\ sockOf \in [Ids -> Socks \cup {0}] /\ accepted \in [Ids -> Nat]
  BY DEF TypeOK, TableTypes

-----------------------------------------------------------------------------
(***************************************************************************)
(* Sequences of operations and completions.                                *)
(***************************************************************************)

LEMMA WithoutOpType ==
  ASSUME ops \in Seq(Operation), NEW i \in DOMAIN ops
  PROVE  WithoutOp(i) \in Seq(Operation)
<1>1. Len(ops) \in Nat /\ i \in 1..Len(ops) /\ Len(ops) - 1 \in Nat
  OBVIOUS
<1>2. \A k \in 1..(Len(ops) - 1) : (IF k < i THEN ops[k] ELSE ops[k + 1]) \in Operation
  BY <1>1
<1> QED
  BY <1>1, <1>2 DEF WithoutOp

LEMMA HoldType ==
  ASSUME ops \in Seq(Operation), NEW i \in DOMAIN ops, ops[i].op = "send"
  PROVE  [ops EXCEPT ![i].op = "hold"] \in Seq(Operation)
<1>1. ops[i] \in Operation /\ Len(ops) \in Nat /\ i \in 1..Len(ops)
  OBVIOUS
<1>2. [ops[i] EXCEPT !.op = "hold"] \in Operation
  BY <1>1 DEF Operation
<1>3. \A x \in Operation : [ops EXCEPT ![i] = x] \in Seq(Operation)
  BY <1>1
<1> QED
  BY <1>2, <1>3

LEMMA SubmitRingType ==
  ASSUME TypeOK, SubmitRing
  PROVE  sq' \in Seq(Entry) /\ ops' \in Seq(Operation)
<1>1. ASSUME NEW e \in Entry
      PROVE  Bind(e) \in Operation
  <2>1. (IF e.fd = NoFd THEN 0 ELSE fdSock[e.fd]) \in Socks \cup {0}
    BY DEF Entry, TypeOK
  <2> QED
    BY <2>1 DEF Bind, Entry, Operation
<1>2. [i \in DOMAIN sq |-> Bind(sq[i])] \in Seq(Operation)
  <2>1. sq \in Seq(Entry) /\ DOMAIN sq = 1..Len(sq) /\ Len(sq) \in Nat
    BY DEF TypeOK
  <2>2. \A i \in 1..Len(sq) : Bind(sq[i]) \in Operation
    BY <2>1, <1>1
  <2> QED
    BY <2>1, <2>2
<1> QED
  BY <1>2 DEF SubmitRing, TypeOK

LEMMA PendingType ==
  ASSUME TypeOK
  PROVE  Pending \in Seq(Completion)
  BY DEF Pending, TypeOK

LEMMA PendingTail ==
  ASSUME TypeOK, batch # <<>>, batch' = Tail(batch), cq' = cq
  PROVE  Pending # <<>> /\ Pending' = Tail(Pending)
<1>1. batch \in Seq(Completion) /\ cq \in Seq(Completion)
  BY DEF TypeOK
<1> QED
  BY <1>1 DEF Pending

LEMMA PendingHead ==
  ASSUME TypeOK, batch # <<>>
  PROVE  /\ Cqe \in Completion
         /\ Pending # <<>> /\ 1 \in DOMAIN Pending /\ Pending[1] = Cqe
<1>1. batch \in Seq(Completion) /\ cq \in Seq(Completion)
  BY DEF TypeOK
<1> QED
  BY <1>1 DEF Pending, Cqe

LEMMA PendingAppend ==
  ASSUME TypeOK, batch' = batch, NEW e \in Completion, cq' = Append(cq, e)
  PROVE  Pending' = Append(Pending, e)
<1>1. batch \in Seq(Completion) /\ cq \in Seq(Completion)
  BY DEF TypeOK
<1> QED
  BY <1>1 DEF Pending

LEMMA TailElements ==
  ASSUME NEW S, NEW s \in Seq(S), s # <<>>
  PROVE  /\ Tail(s) \in Seq(S)
         /\ \A i \in DOMAIN Tail(s) : i + 1 \in DOMAIN s /\ i + 1 # 1 /\ Tail(s)[i] = s[i + 1]
  OBVIOUS

-----------------------------------------------------------------------------
(***************************************************************************)
(* How the table invariants survive the kinds of steps.                    *)
(***************************************************************************)

Untouched ==
  \A fd \in Fds : fdSock[fd] # 0 /\ connections[fd].id = 0 =>
                    fdSock'[fd] # 0 /\ connections'[fd].id = 0

PendingShrinks == \/ Pending' = Pending
                  \/ Pending # <<>> /\ Pending' = Tail(Pending)

Posts == \E e \in Completion : Pending' = Append(Pending, e) /\ ~IsAccept(e)

\* The steps that accept no connection.
Quiet ==
  /\ SameTable \/ \E fd \in Fds : Live(fd) /\ Removes(fd)
  /\ PendingShrinks \/ Posts
  /\ UNCHANGED <<nextId, nextSock, sockOf>>

LEMMA AcceptsShrink ==
  ASSUME TypeOK, TypeOK', AcceptsNew, Untouched, PendingShrinks
  PROVE  AcceptsNew'
<1>1. Pending \in Seq(Completion)
  BY PendingType
<1>2. \A e \in Completion : IsAccept(e) => e.fd \in Fds
  BY DEF Completion, IsAccept
<1>3. \A i \in DOMAIN Pending : Pending[i] \in Completion
  BY <1>1
<1>4. CASE Pending' = Pending
  BY <1>2, <1>3, <1>4 DEF AcceptsNew, Untouched
<1>5. CASE Pending # <<>> /\ Pending' = Tail(Pending)
  <2>1. \A i \in DOMAIN Pending' : /\ i + 1 \in DOMAIN Pending
                                   /\ Pending'[i] = Pending[i + 1]
    BY <1>1, <1>5, TailElements
  <2>2. \A i \in DOMAIN Pending' : IsAccept(Pending'[i]) =>
          fdSock'[Pending'[i].fd] # 0 /\ connections'[Pending'[i].fd].id = 0
    BY <2>1, <1>2, <1>3 DEF AcceptsNew, Untouched
  <2>3. \A i, j \in DOMAIN Pending' : i # j => i + 1 # j + 1
    <3>1. Pending' \in Seq(Completion)
      BY <1>1, <1>5, TailElements
    <3> QED
      BY <3>1
  <2>4. \A i, j \in DOMAIN Pending' :
          IsAccept(Pending'[i]) /\ IsAccept(Pending'[j]) /\ i # j =>
            Pending'[i].fd # Pending'[j].fd
    BY <2>1, <2>3 DEF AcceptsNew
  <2> QED
    BY <2>2, <2>4 DEF AcceptsNew, IsAccept
<1> QED
  BY <1>4, <1>5 DEF PendingShrinks

LEMMA SameTableKeeps ==
  ASSUME TypeOK, TypeOK', IdsResolve, LiveOpen, SameTable
  PROVE  IdsResolve' /\ LiveOpen' /\ Untouched
  BY FdAssumption DEF SameTable, IdsResolve, LiveOpen, Untouched, Live, TypeOK

LEMMA RemovesKeeps ==
  ASSUME TypeOK, TypeOK', IdsResolve, LiveOpen, NEW fd \in Fds, Live(fd), Removes(fd)
  PROVE  IdsResolve' /\ LiveOpen' /\ Untouched
<1>1. connections[fd].id \in Ids
  BY ConnectionFields DEF Live, TypeOK
<1>2. IdsResolve'
  BY <1>1, FdAssumption DEF Removes, IdsResolve, TypeOK
<1>3. LiveOpen' /\ Untouched
  BY DEF Removes, LiveOpen, Untouched, Live, TypeOK
<1> QED
  BY <1>2, <1>3

LEMMA TableStep ==
  ASSUME IInv, TypeOK', PendingShrinks,
         SameTable \/ \E fd \in Fds : Live(fd) /\ Removes(fd)
  PROVE  IdsResolve' /\ LiveOpen' /\ AcceptsNew'
<1>1. IdsResolve' /\ LiveOpen' /\ Untouched
  BY SameTableKeeps, RemovesKeeps DEF IInv
<1> QED
  BY <1>1, AcceptsShrink DEF IInv

\* A completion that accepts nothing is posted.
LEMMA PostStep ==
  ASSUME IInv, TypeOK', SameTable, batch' = batch,
         NEW e \in Completion, cq' = Append(cq, e), ~IsAccept(e)
  PROVE  IdsResolve' /\ LiveOpen' /\ AcceptsNew' /\ Posts
<1>1. IdsResolve' /\ LiveOpen' /\ Untouched
  BY SameTableKeeps DEF IInv
<1>2. Pending' = Append(Pending, e) /\ Pending \in Seq(Completion)
  BY PendingAppend, PendingType DEF IInv
<1>3. \A i \in DOMAIN Pending' : IsAccept(Pending'[i]) =>
        i \in DOMAIN Pending /\ Pending'[i] = Pending[i] /\ Pending[i].fd \in Fds
  BY <1>2 DEF Completion, IsAccept
<1>4. AcceptsNew'
  <2>1. \A i \in DOMAIN Pending' : IsAccept(Pending'[i]) =>
          fdSock'[Pending'[i].fd] # 0 /\ connections'[Pending'[i].fd].id = 0
    BY <1>1, <1>3 DEF AcceptsNew, Untouched, IInv
  <2>3. \A i, j \in DOMAIN Pending' :
          IsAccept(Pending'[i]) /\ IsAccept(Pending'[j]) /\ i # j =>
            Pending'[i].fd # Pending'[j].fd
    BY <1>3 DEF AcceptsNew, IInv
  <2> QED
    BY <2>1, <2>3 DEF AcceptsNew, IsAccept
<1> QED
  BY <1>1, <1>2, <1>4 DEF Posts

-----------------------------------------------------------------------------
(***************************************************************************)
(* One lemma for each action.                                              *)
(***************************************************************************)

LEMMA EnqueueStep ==
  ASSUME IInv, Enqueue
  PROVE  IInv' /\ Quiet
<1>1. PICK shape \in Shapes : \E steps \in CommandSteps(shape) :
        commands' = Append(commands, steps)
  BY DEF Enqueue
<1>2. \A steps \in CommandSteps(shape) : steps \in Seq(Step)
  <2>1. /\ KnownIds \subseteq Ids /\ Lens \subseteq Nat
        /\ shape \in {"send", "sendAndClose", "close", "sendBatch", "sendBatchAndClose"}
    BY NumberAssumption, OptionAssumption DEF KnownIds
  <2>2. \A i \in KnownIds : /\ \A n \in Lens : SendStep(i, n) \in Step
                            /\ CloseStep(i) \in Step
                            /\ CloseAfterSendStep(i) \in Step
    BY <2>1 DEF SendStep, CloseStep, CloseAfterSendStep, Step
  <2> HIDE DEF KnownIds
  <2>3. ASSUME shape = "send", NEW steps \in CommandSteps(shape)
        PROVE  steps \in Seq(Step)
    <3>1. PICK i \in KnownIds, n \in Lens :
            steps = <<SendStep(i, n)>>
      BY <2>3 DEF CommandSteps
    <3> QED
      BY <2>2, <3>1
  <2>4. ASSUME shape = "sendAndClose", NEW steps \in CommandSteps(shape)
        PROVE  steps \in Seq(Step)
    <3>1. PICK i \in KnownIds, n \in Lens :
            steps = <<SendStep(i, n), CloseAfterSendStep(i)>>
      BY <2>4 DEF CommandSteps
    <3> QED
      BY <2>2, <3>1
  <2>5. ASSUME shape = "close", NEW steps \in CommandSteps(shape)
        PROVE  steps \in Seq(Step)
    <3>1. PICK i \in KnownIds :
            steps = <<CloseStep(i)>>
      BY <2>5 DEF CommandSteps
    <3> QED
      BY <2>2, <3>1
  <2>6. ASSUME shape = "sendBatch", NEW steps \in CommandSteps(shape)
        PROVE  steps \in Seq(Step)
    <3>1. PICK i \in KnownIds, j \in KnownIds, m \in Lens, n \in Lens :
            steps = <<SendStep(i, m), SendStep(j, n)>>
      BY <2>6 DEF CommandSteps
    <3> QED
      BY <2>2, <3>1
  <2>7. ASSUME shape = "sendBatchAndClose", NEW steps \in CommandSteps(shape)
        PROVE  steps \in Seq(Step)
    <3>1. PICK i \in KnownIds, j \in KnownIds, m \in Lens, n \in Lens :
            steps = <<SendStep(i, m), SendStep(j, n), CloseAfterSendStep(i),
              CloseAfterSendStep(j)>>
      BY <2>7 DEF CommandSteps
    <3> QED
      BY <2>2, <3>1
  <2> QED
    BY <2>1, <2>3, <2>4, <2>5, <2>6, <2>7
<1>3. commands' \in Seq(Seq(Step))
  BY <1>1, <1>2 DEF IInv, TypeOK
<1>4. TypeOK'
  <2>1. issued' \in 0..MaxCommands /\ eventfd' \in BOOLEAN
    BY NumberAssumption DEF Enqueue, IInv, TypeOK
  <2> QED
    BY <1>3, <2>1 DEF Enqueue, IInv, TypeOK, workerVars, tableVars, historyVars
<1>5. SameTable /\ PendingShrinks
  BY DEF Enqueue, SameTable, PendingShrinks, Pending, workerVars, tableVars
<1>6. ForceTodo' /\ Phases'
  BY DEF Enqueue, workerVars, tableVars, IInv, ForceTodo, Phases, Live
<1>7. UNCHANGED <<nextId, nextSock, sockOf>>
  BY DEF Enqueue, tableVars, ringVars, historyVars
<1> QED
  BY <1>4, <1>5, <1>6, <1>7, TableStep DEF IInv, Quiet

LEMMA StopStep ==
  ASSUME IInv, Stop
  PROVE  IInv' /\ Quiet
<1>1. TypeOK'
  BY DEF Stop, IInv, TypeOK, workerVars, tableVars, historyVars
<1>2. SameTable /\ PendingShrinks
  BY DEF Stop, SameTable, PendingShrinks, Pending, workerVars, tableVars
<1>3. ForceTodo' /\ Phases'
  BY DEF Stop, workerVars, tableVars, IInv, ForceTodo, Phases, Live
<1>4. UNCHANGED <<nextId, nextSock, sockOf>>
  BY DEF Stop, tableVars, ringVars, historyVars
<1> QED
  BY <1>1, <1>2, <1>3, <1>4, TableStep DEF IInv, Quiet

LEMMA KernelAcceptStep ==
  ASSUME IInv, NEW i \in DOMAIN ops, KernelAccept(i)
  PROVE  IInv'
<1>1. PICK fd \in Fds \ OpenFds, more \in BOOLEAN :
        /\ fdSock' = [fdSock EXCEPT ![fd] = nextSock]
        /\ Posted("accept", 0, fd, 1, more, FALSE)
        /\ ops' = IF more THEN ops ELSE WithoutOp(i)
  BY DEF KernelAccept
<1>2. fd \in Fds /\ fdSock[fd] = 0 /\ ~Live(fd)
  BY DEF OpenFds, IInv, LiveOpen
<1>3. nextSock \in Socks /\ nextSock' \in 1..(MaxSockets + 1) /\ nextSock # 0
  BY NumberAssumption DEF KernelAccept, IInv, TypeOK, Socks
<1>4. PICK e \in Completion : cq' = Append(cq, e) /\ e.op = "accept" /\ e.fd = fd
  <2> DEFINE e == [op |-> "accept", id |-> 0, fd |-> fd, result |-> 1,
                   more |-> more, notif |-> FALSE]
  <2>1. e \in Completion /\ e.op = "accept" /\ e.fd = fd
    BY <1>2 DEF Completion
  <2>2. cq' = Append(cq, e)
    BY <1>1 DEF Posted
  <2> HIDE DEF e
  <2> QED
    BY <2>1, <2>2
<1>5. ops' \in Seq(Operation)
  BY <1>1, WithoutOpType DEF IInv, TypeOK
<1>6. TypeOK'
  <2>1. fdSock' \in [Fds -> Socks \cup {0}] /\ cq' \in Seq(Completion)
    BY <1>1, <1>3, <1>4 DEF IInv, TypeOK
  <2> QED
    BY <2>1, <1>3, <1>5
       DEF KernelAccept, IInv, TypeOK, workerVars, tableVars, jsVars, historyVars
<1>7. IdsResolve' /\ LiveOpen'
  BY <1>1, <1>2, <1>3 DEF KernelAccept, tableVars, IInv, IdsResolve, LiveOpen, Live, TypeOK
<1>8. Pending' = Append(Pending, e) /\ Pending \in Seq(Completion)
  BY <1>4, PendingAppend, PendingType DEF IInv, KernelAccept, workerVars
<1>9. AcceptsNew'
  <2>1. \A k \in DOMAIN Pending : IsAccept(Pending[k]) =>
          /\ Pending[k].fd \in Fds \ {fd}
          /\ fdSock'[Pending[k].fd] # 0 /\ connections'[Pending[k].fd].id = 0
    <3>1. \A k \in DOMAIN Pending : IsAccept(Pending[k]) => Pending[k].fd \in Fds
      BY <1>8 DEF IsAccept, Completion
    <3> QED
      BY <3>1, <1>1, <1>2, <1>3 DEF IInv, AcceptsNew, TypeOK, KernelAccept, tableVars
  <2>2. fdSock'[fd] # 0 /\ connections'[fd].id = 0
    BY <1>1, <1>2, <1>3 DEF IInv, TypeOK, KernelAccept, tableVars, Live
  <2>3. \A k \in DOMAIN Pending' :
          \/ k \in DOMAIN Pending /\ Pending'[k] = Pending[k]
          \/ k = Len(Pending) + 1 /\ Pending'[k] = e
    BY <1>8
  <2>4. \A k \in DOMAIN Pending' : IsAccept(Pending'[k]) =>
          fdSock'[Pending'[k].fd] # 0 /\ connections'[Pending'[k].fd].id = 0
    BY <1>4, <2>1, <2>2, <2>3
  <2>5. \A k, l \in DOMAIN Pending' :
          IsAccept(Pending'[k]) /\ IsAccept(Pending'[l]) /\ k # l =>
            Pending'[k].fd # Pending'[l].fd
    BY <1>4, <2>1, <2>3 DEF IInv, AcceptsNew
  <2> QED
    BY <2>4, <2>5 DEF AcceptsNew, IsAccept
<1>10. ForceTodo' /\ Phases'
  BY DEF KernelAccept, workerVars, tableVars, IInv, ForceTodo, Phases, Live
<1> QED
  BY <1>6, <1>7, <1>9, <1>10 DEF IInv

KernelPost(i) ==
  \/ KernelAcceptError(i) \/ KernelRecvData(i) \/ KernelRecvEnd(i)
  \/ KernelSend(i) \/ KernelSendError(i) \/ KernelNotify(i) \/ KernelRead(i)

\* Every kernel step but a successful accept.
LEMMA KernelPostStep ==
  ASSUME IInv, NEW i \in DOMAIN ops, KernelPost(i)
  PROVE  IInv' /\ Quiet
<1> USE DEF KernelPost
<1>1. ops[i] \in Operation /\ NoFd \in Fds \cup {NoFd} /\ 0 \in Ids \cup {0}
  BY DEF IInv, TypeOK
<1>2. PICK e \in Completion : cq' = Append(cq, e) /\ ~IsAccept(e)
  <2>1. ops[i].op \in {"recv", "send", "hold"} => ops[i].id \in Ids \cup {0} /\ ops[i].id # 0
    BY <1>1 DEF Operation
  <2>2. cq \in Seq(Completion)
    BY DEF IInv, TypeOK
  <2>3. CASE KernelAcceptError(i)
    <3>1. Posted("accept", 0, NoFd, -1, FALSE, FALSE)
      BY <2>3 DEF KernelAcceptError
    <3> DEFINE e == [op |-> "accept", id |-> 0, fd |-> NoFd, result |-> -1,
                     more |-> FALSE, notif |-> FALSE]
    <3>3. e \in Completion /\ ~IsAccept(e)
      BY <1>1, <3>1 DEF Completion, IsAccept
    <3>4. cq' = Append(cq, e)
      BY <3>1 DEF Posted
    <3> HIDE DEF e
    <3> QED
      BY <3>3, <3>4
  <2>4. CASE KernelRecvData(i)
    <3>1. PICK more \in BOOLEAN : Posted("recv", ops[i].id, NoFd, 1, more, FALSE)
      BY <2>4 DEF KernelRecvData
    <3> DEFINE e == [op |-> "recv", id |-> ops[i].id, fd |-> NoFd, result |-> 1,
                     more |-> more, notif |-> FALSE]
    <3>2. ops[i].op = "recv" /\ ops[i].zeroCopy \in BOOLEAN /\ ops[i].rem \in Int
      BY <1>1, <2>4 DEF KernelRecvData, Operation
    <3>3. e \in Completion /\ ~IsAccept(e)
      BY <1>1, <2>1, <3>2, <3>1 DEF Completion, IsAccept
    <3>4. cq' = Append(cq, e)
      BY <3>1 DEF Posted
    <3> HIDE DEF e
    <3> QED
      BY <3>3, <3>4
  <2>5. CASE KernelRecvEnd(i)
    <3>1. PICK result \in {0, ENoBufs} : Posted("recv", ops[i].id, NoFd, result, FALSE, FALSE)
      BY <2>5 DEF KernelRecvEnd
    <3> DEFINE e == [op |-> "recv", id |-> ops[i].id, fd |-> NoFd, result |-> result,
                     more |-> FALSE, notif |-> FALSE]
    <3>2. ops[i].op = "recv" /\ ops[i].zeroCopy \in BOOLEAN /\ ops[i].rem \in Int
      BY <1>1, <2>5 DEF KernelRecvEnd, Operation
    <3>3. e \in Completion /\ ~IsAccept(e)
      BY <1>1, <2>1, <3>2, <3>1 DEF Completion, IsAccept, ENoBufs
    <3>4. cq' = Append(cq, e)
      BY <3>1 DEF Posted
    <3> HIDE DEF e
    <3> QED
      BY <3>3, <3>4
  <2>6. CASE KernelSend(i)
    <3>1. PICK n \in 1..ops[i].rem : Posted("send", ops[i].id, NoFd, n, ops[i].zeroCopy, FALSE)
      BY <2>6 DEF KernelSend
    <3> DEFINE e == [op |-> "send", id |-> ops[i].id, fd |-> NoFd, result |-> n,
                     more |-> ops[i].zeroCopy, notif |-> FALSE]
    <3>2. ops[i].op = "send" /\ ops[i].zeroCopy \in BOOLEAN /\ ops[i].rem \in Int
      BY <1>1, <2>6 DEF KernelSend, Operation
    <3>3. e \in Completion /\ ~IsAccept(e)
      BY <1>1, <2>1, <3>2, <3>1 DEF Completion, IsAccept
    <3>4. cq' = Append(cq, e)
      BY <3>1 DEF Posted
    <3> HIDE DEF e
    <3> QED
      BY <3>3, <3>4
  <2>7. CASE KernelSendError(i)
    <3>1. PICK hold \in BOOLEAN : Posted("send", ops[i].id, NoFd, -1, hold, FALSE)
      BY <2>7 DEF KernelSendError
    <3> DEFINE e == [op |-> "send", id |-> ops[i].id, fd |-> NoFd, result |-> -1,
                     more |-> hold, notif |-> FALSE]
    <3>2. ops[i].op = "send" /\ ops[i].zeroCopy \in BOOLEAN /\ ops[i].rem \in Int
      BY <1>1, <2>7 DEF KernelSendError, Operation
    <3>3. e \in Completion /\ ~IsAccept(e)
      BY <1>1, <2>1, <3>2, <3>1 DEF Completion, IsAccept
    <3>4. cq' = Append(cq, e)
      BY <3>1 DEF Posted
    <3> HIDE DEF e
    <3> QED
      BY <3>3, <3>4
  <2>8. CASE KernelNotify(i)
    <3>1. Posted("send", ops[i].id, NoFd, 0, FALSE, TRUE)
      BY <2>8 DEF KernelNotify
    <3> DEFINE e == [op |-> "send", id |-> ops[i].id, fd |-> NoFd, result |-> 0,
                     more |-> FALSE, notif |-> TRUE]
    <3>2. ops[i].op = "hold" /\ ops[i].zeroCopy \in BOOLEAN /\ ops[i].rem \in Int
      BY <1>1, <2>8 DEF KernelNotify, Operation
    <3>3. e \in Completion /\ ~IsAccept(e)
      BY <1>1, <2>1, <3>2, <3>1 DEF Completion, IsAccept
    <3>4. cq' = Append(cq, e)
      BY <3>1 DEF Posted
    <3> HIDE DEF e
    <3> QED
      BY <3>3, <3>4
  <2>9. CASE KernelRead(i)
    <3>1. Posted("read", 0, NoFd, 8, FALSE, FALSE)
      BY <2>9 DEF KernelRead
    <3> DEFINE e == [op |-> "read", id |-> 0, fd |-> NoFd, result |-> 8,
                     more |-> FALSE, notif |-> FALSE]
    <3>3. e \in Completion /\ ~IsAccept(e)
      BY <1>1, <3>1 DEF Completion, IsAccept
    <3>4. cq' = Append(cq, e)
      BY <3>1 DEF Posted
    <3> HIDE DEF e
    <3> QED
      BY <3>3, <3>4
  <2> QED
    BY <2>3, <2>4, <2>5, <2>6, <2>7, <2>8, <2>9
<1>3. ops' \in Seq(Operation)
  <2>1. WithoutOp(i) \in Seq(Operation)
    BY WithoutOpType DEF IInv, TypeOK
  <2>2. ops[i].op = "send" => [ops EXCEPT ![i].op = "hold"] \in Seq(Operation)
    BY HoldType DEF IInv, TypeOK
  <2>3. \/ ops' = ops \/ ops' = WithoutOp(i)
        \/ ops[i].op = "send" /\ ops' = [ops EXCEPT ![i].op = "hold"]
    BY DEF KernelAcceptError, KernelRecvData, KernelRecvEnd, KernelSend,
           KernelSendError, KernelNotify, KernelRead
  <2> QED
    BY <2>1, <2>2, <2>3 DEF IInv, TypeOK
<1>4. wire' \in [Socks -> Seq(Nat)]
  <2>1. CASE KernelSend(i)
    <3>1. PICK n \in 1..ops[i].rem : wire' = [wire EXCEPT ![ops[i].sock] =
                                       @ \o [k \in 1..n |-> ops[i].pos + k]]
      BY <2>1 DEF KernelSend
    <3>2. n \in Nat /\ ops[i].pos \in Nat
      BY <1>1 DEF Operation
    <3>3. [k \in 1..n |-> ops[i].pos + k] \in Seq(Nat)
      BY <3>2
    <3>4. \A s \in Socks : wire[s] \o [k \in 1..n |-> ops[i].pos + k] \in Seq(Nat)
      BY <3>3 DEF IInv, TypeOK
    <3> QED
      BY <3>1, <3>4 DEF IInv, TypeOK
  <2>2. CASE UNCHANGED wire
    BY <2>2 DEF IInv, TypeOK
  <2> QED
    BY <2>1, <2>2
       DEF KernelAcceptError, KernelRecvData, KernelRecvEnd, KernelSendError,
           KernelNotify, KernelRead, historyVars
<1>5. chunks' \in [Socks -> 0..MaxChunks]
  <2>1. CASE KernelRecvData(i)
    <3>1. \A s \in Socks : chunks[s] < MaxChunks => chunks[s] + 1 \in 0..MaxChunks
      BY NumberAssumption DEF IInv, TypeOK
    <3> QED
      BY <2>1, <3>1 DEF KernelRecvData, IInv, TypeOK
  <2>2. CASE UNCHANGED chunks
    BY <2>2 DEF IInv, TypeOK
  <2> QED
    BY <2>1, <2>2
       DEF KernelAcceptError, KernelSend, KernelRecvEnd, KernelSendError,
           KernelNotify, KernelRead, historyVars
<1>6. /\ UNCHANGED <<workerVars, tableVars, jsVars, fdSock, nextSock, sq>>
      /\ UNCHANGED <<sockOf, accepted, events>> /\ eventfd' \in BOOLEAN
  BY DEF KernelAcceptError, KernelRecvData, KernelRecvEnd, KernelSend,
         KernelSendError, KernelNotify, KernelRead, historyVars, IInv, TypeOK
<1>7. TypeOK'
  BY <1>2, <1>3, <1>4, <1>5, <1>6 DEF IInv, TypeOK, workerVars, tableVars, jsVars
<1>8. SameTable /\ batch' = batch
  BY <1>6 DEF SameTable, tableVars, workerVars
<1>9. ForceTodo' /\ Phases'
  BY <1>6 DEF workerVars, tableVars, IInv, ForceTodo, Phases, Live
<1>10. UNCHANGED <<nextId, nextSock, sockOf>>
  BY <1>6 DEF tableVars
<1> QED
  BY <1>2, <1>7, <1>8, <1>9, <1>10, PostStep DEF IInv, Quiet

LEMMA TakeCommandStep ==
  ASSUME IInv, TakeCommand
  PROVE  IInv' /\ Quiet
<1>1. work' \in Seq(Step) /\ commands' \in Seq(Seq(Step))
  BY DEF TakeCommand, IInv, TypeOK
<1>2. TypeOK'
  BY <1>1 DEF TakeCommand, IInv, TypeOK, tableVars, ringVars, historyVars
<1>3. SameTable /\ PendingShrinks
  BY DEF TakeCommand, SameTable, PendingShrinks, Pending, tableVars, ringVars
<1>4. ForceTodo' /\ Phases'
  BY DEF TakeCommand, tableVars, IInv, ForceTodo, Phases, Live
<1>5. UNCHANGED <<nextId, nextSock, sockOf>>
  BY DEF TakeCommand, tableVars, ringVars, historyVars
<1> QED
  BY <1>2, <1>3, <1>4, <1>5, TableStep DEF IInv, Quiet

\* The id of a command or a completion resolves to its own live connection.
LEMMA Resolved ==
  ASSUME TypeOK, IdsResolve, NEW id \in Ids, idToFd[id] # NoFd
  PROVE  /\ idToFd[id] \in Fds /\ connections[idToFd[id]].id = id
         /\ Live(idToFd[id])
<1>1. id # 0
  BY NumberAssumption DEF Ids
<1>2. idToFd[id] \in Fds /\ connections[idToFd[id]].id = id
  BY DEF TypeOK, IdsResolve
<1> QED
  BY <1>1, <1>2 DEF Live

LEMMA ExecuteSendStep ==
  ASSUME IInv, ExecuteSend
  PROVE  IInv' /\ Quiet
<1> DEFINE fd == idToFd[Head(work).id]
<1>1. /\ Head(work) \in Step /\ Tail(work) \in Seq(Step)
      /\ Head(work).id \in Ids /\ Head(work).len \in Nat
  <2>1. Head(work) \in Step /\ Tail(work) \in Seq(Step)
    BY DEF ExecuteSend, IInv, TypeOK
  <2> QED
    BY <2>1 DEF Step
<1>2. /\ TableTypes' /\ SameTable
      /\ sq' \in Seq(Entry) /\ accepted' \in [Ids -> Nat]
  <2>1. CASE fd = NoFd \/ ~Live(fd)
    BY <2>1 DEF ExecuteSend, IInv, TypesSplit, TypeOK, TableTypes, SameTable
  <2>2. CASE ~(fd = NoFd \/ ~Live(fd))
    <3>1. fd \in Fds
      BY <1>1, <2>2 DEF IInv, TypeOK
    <3>2. QueueTcpSend(fd, Head(work).len)
      BY <2>2 DEF ExecuteSend
    <3>3. TableTypes /\ sq \in Seq(Entry) /\ accepted \in [Ids -> Nat]
      BY TypesSplit DEF IInv
    <3> HIDE DEF fd
    <3> QED
      BY <1>1, <2>2, <3>1, <3>2, <3>3, QueueEffect
  <2> QED
    BY <2>1, <2>2
<1>3. TypeOK'
  BY <1>1, <1>2 DEF ExecuteSend, IInv, TypeOK, TableTypes, jsVars
<1>4. PendingShrinks
  BY DEF ExecuteSend, PendingShrinks, Pending
<1>5. ForceTodo' /\ Phases'
  BY DEF ExecuteSend, IInv, ForceTodo, Phases
<1>6. UNCHANGED <<nextId, nextSock, sockOf>>
  BY DEF ExecuteSend, tableVars, ringVars, historyVars
<1> QED
  BY <1>2, <1>3, <1>4, <1>5, <1>6, TableStep DEF IInv, Quiet

LEMMA ExecuteCloseStep ==
  ASSUME IInv, ExecuteClose
  PROVE  IInv' /\ Quiet
<1> DEFINE fd == idToFd[Head(work).id]
<1>1. /\ Tail(work) \in Seq(Step) /\ Head(work).id \in Ids
  <2>1. Head(work) \in Step /\ Tail(work) \in Seq(Step)
    BY DEF ExecuteClose, IInv, TypeOK
  <2> QED
    BY <2>1 DEF Step
<1>2. TableTypes' /\ (SameTable \/ \E f \in Fds : Live(f) /\ Removes(f))
  <2>1. CASE fd = NoFd \/ ~Live(fd)
    BY <2>1 DEF ExecuteClose, IInv, TypeOK, TableTypes, SameTable
  <2>2. CASE ~(fd = NoFd \/ ~Live(fd))
    <3>1. fd \in Fds /\ TableTypes
      BY <1>1, <2>2, TypesSplit DEF IInv, TypeOK
    <3>2. CloseTcpConnection(fd, TRUE) \/ CloseTcpConnectionAfterSend(fd)
      BY <2>2 DEF ExecuteClose
    <3> HIDE DEF fd
    <3> QED
      BY <2>2, <3>1, <3>2, CloseEffect, CloseAfterSendEffect
  <2> QED
    BY <2>1, <2>2
<1>3. TypeOK'
  BY <1>1, <1>2 DEF ExecuteClose, IInv, TypeOK, TableTypes, jsVars
<1>4. PendingShrinks
  BY DEF ExecuteClose, PendingShrinks, Pending
<1>5. ForceTodo' /\ Phases'
  BY DEF ExecuteClose, IInv, ForceTodo, Phases
<1>6. UNCHANGED <<nextId, nextSock, sockOf>>
  BY DEF ExecuteClose, tableVars, ringVars, historyVars
<1> QED
  BY <1>2, <1>3, <1>4, <1>5, <1>6, TableStep DEF IInv, Quiet

LEMMA EntryTypes ==
  /\ AcceptEntry \in Entry /\ ReadEntry \in Entry
  /\ \A fd \in Fds, id \in Ids : RecvEntry(fd, id) \in Entry
<1>1. \A id \in Ids : id # 0
  BY NumberAssumption DEF Ids
<1>2. AcceptEntry \in Entry
  BY DEF AcceptEntry, Entry
<1> DEFINE Fields == [op : {"accept", "read", "recv", "send"}, id : Ids \cup {0},
                      fd : Fds \cup {NoFd}, pos : Nat, rem : Int, zeroCopy : BOOLEAN,
                      slot : Slots \cup {NoSlot}]
<1>3. ReadEntry \in Entry
  <2>1. ReadEntry \in Fields /\ ReadEntry.op = "read"
    BY <1>2 DEF ReadEntry, Entry
  <2> QED
    BY <2>1 DEF Entry
<1>4. ASSUME NEW fd \in Fds, NEW id \in Ids
      PROVE  RecvEntry(fd, id) \in Entry
  <2> DEFINE e == RecvEntry(fd, id)
  <2>1. e \in Fields /\ e.op = "recv" /\ e.id = id /\ e.fd = fd
    BY <1>2 DEF RecvEntry, Entry
  <2> QED
    BY <1>1, <2>1, FdAssumption DEF Entry
<1> QED
  BY <1>2, <1>3, <1>4

LEMMA FinishCommandCompletionStep ==
  ASSUME IInv, FinishCommandCompletion
  PROVE  IInv' /\ Quiet
<1>1. sq' \in Seq(Entry)
  BY EntryTypes DEF FinishCommandCompletion, IInv, TypeOK
<1>2. TypeOK'
  BY <1>1 DEF FinishCommandCompletion, IInv, TypeOK, tableVars, jsVars, historyVars, PCs
<1>3. SameTable /\ PendingShrinks
  BY DEF FinishCommandCompletion, SameTable, PendingShrinks, Pending, tableVars
<1>4. ForceTodo' /\ Phases'
  BY DEF FinishCommandCompletion, Drained, IInv, ForceTodo, Phases
<1>5. UNCHANGED <<nextId, nextSock, sockOf>>
  BY DEF FinishCommandCompletion, tableVars, ringVars, historyVars
<1> QED
  BY <1>2, <1>3, <1>4, <1>5, TableStep DEF IInv, Quiet

LEMMA ExpireHalfClosedStep ==
  ASSUME IInv, ExpireHalfClosed
  PROVE  IInv' /\ Quiet
<1>1. ASSUME NEW fd \in Fds
      PROVE  /\ connections'[fd] \in Connection
             /\ connections'[fd].id = connections[fd].id
  <2>1. connections[fd] \in Connection
    BY DEF IInv, TypeOK
  <2>2. Expires(connections[fd]) => connections[fd].graceTicks - 1 \in 0..GraceTicks
    BY <2>1, ConnectionFields, NumberAssumption DEF Expires
  <2> QED
    BY <2>1, <2>2 DEF ExpireHalfClosed, Connection
<1>2. connections' \in [Fds -> Connection]
  BY <1>1 DEF ExpireHalfClosed
<1>3. TypeOK'
  BY <1>2 DEF ExpireHalfClosed, IInv, TypeOK, jsVars, ringVars, historyVars, PCs
<1>4. SameTable /\ PendingShrinks
  BY <1>1 DEF ExpireHalfClosed, SameTable, PendingShrinks, Pending, ringVars
<1>5. ForceTodo' /\ Phases'
  BY DEF ExpireHalfClosed, Drained, IInv, ForceTodo, Phases
<1>6. UNCHANGED <<nextId, nextSock, sockOf>>
  BY DEF ExpireHalfClosed, tableVars, ringVars, historyVars
<1> QED
  BY <1>3, <1>4, <1>5, <1>6, TableStep DEF IInv, Quiet

LEMMA ExpireIdleStep ==
  ASSUME IInv, ExpireIdle
  PROVE  IInv' /\ Quiet
<1>1. todo' \subseteq Fds
  BY DEF ExpireIdle, IdleFds, LiveFds
<1>2. TypeOK'
  BY <1>1 DEF ExpireIdle, IInv, TypeOK, tableVars, jsVars, ringVars, historyVars, PCs
<1>3. SameTable /\ PendingShrinks
  BY DEF ExpireIdle, SameTable, PendingShrinks, Pending, tableVars, ringVars
<1>4. ForceTodo' /\ Phases'
  BY DEF ExpireIdle, IInv, ForceTodo, Phases
<1>5. UNCHANGED <<nextId, nextSock, sockOf>>
  BY DEF ExpireIdle, tableVars, ringVars, historyVars
<1> QED
  BY <1>2, <1>3, <1>4, <1>5, TableStep DEF IInv, Quiet

LEMMA CloseNextStep ==
  ASSUME IInv, CloseNext
  PROVE  IInv' /\ Quiet
<1>1. PICK fd \in todo :
        /\ todo' = todo \ {fd}
        /\ IF Live(fd) THEN CloseTcpConnection(fd, EmitsClose)
           ELSE UNCHANGED <<connections, idToFd, free, fdSock, events>>
  BY DEF CloseNext
<1>2. fd \in Fds /\ TableTypes
  BY TypesSplit DEF IInv
<1>3. TableTypes' /\ (SameTable \/ \E f \in Fds : Live(f) /\ Removes(f))
  <2>1. CASE Live(fd)
    <3>1. CloseTcpConnection(fd, TRUE) \/ CloseTcpConnection(fd, FALSE)
      BY <1>1, <2>1 DEF CloseTcpConnection, EmitsClose
    <3> QED
      BY <1>2, <2>1, <3>1, CloseEffect
  <2>2. CASE ~Live(fd)
    BY <1>1, <1>2, <2>2 DEF TableTypes, SameTable
  <2> QED
    BY <2>1, <2>2
<1>4. TypeOK'
  BY <1>1, <1>3 DEF CloseNext, IInv, TypeOK, TableTypes, jsVars
<1>5. PendingShrinks
  BY DEF CloseNext, PendingShrinks, Pending
<1>6. ForceTodo' /\ Phases'
  BY DEF CloseNext, IInv, ForceTodo, Phases
<1>7. UNCHANGED <<nextId, nextSock, sockOf>>
  BY DEF CloseNext, tableVars, ringVars, historyVars
<1> QED
  BY <1>3, <1>4, <1>5, <1>6, <1>7, TableStep DEF IInv, Quiet

LEMMA EnterWaitStep ==
  ASSUME IInv, EnterWait
  PROVE  IInv' /\ Quiet
<1>1. sq' \in Seq(Entry) /\ ops' \in Seq(Operation)
  BY SubmitRingType DEF EnterWait, IInv
<1>2. TypeOK'
  BY <1>1 DEF EnterWait, IInv, TypeOK, tableVars, jsVars, historyVars, PCs
<1>3. SameTable /\ PendingShrinks
  BY DEF EnterWait, SameTable, PendingShrinks, Pending, tableVars
<1>4. ForceTodo' /\ Phases'
  BY DEF EnterWait, IInv, ForceTodo, Phases
<1>5. UNCHANGED <<nextId, nextSock, sockOf>>
  BY DEF EnterWait, tableVars, ringVars, historyVars
<1> QED
  BY <1>2, <1>3, <1>4, <1>5, TableStep DEF IInv, Quiet

LEMMA ReapStep ==
  ASSUME IInv, Reap
  PROVE  IInv' /\ Quiet
<1>1. TypeOK'
  BY DEF Reap, IInv, TypeOK, tableVars, jsVars, historyVars, PCs
<1>2. batch = <<>> /\ cq \in Seq(Completion)
  BY DEF Reap, IInv, Phases, TypeOK
<1>3. Pending' = Pending
  BY <1>2 DEF Reap, Pending
<1>4. SameTable
  BY DEF Reap, SameTable, tableVars
<1>5. ForceTodo' /\ Phases'
  BY DEF Reap, IInv, ForceTodo, Phases
<1>6. UNCHANGED <<nextId, nextSock, sockOf>>
  BY DEF Reap, tableVars, ringVars, historyVars
<1> QED
  BY <1>1, <1>3, <1>4, <1>5, <1>6, TableStep DEF IInv, Quiet, PendingShrinks

LEMMA WorkerFailsStep ==
  ASSUME IInv, WorkerFails
  PROVE  IInv'
<1>1. TypeOK'
  <2>1. connections' \in [Fds -> Connection] /\ idToFd' \in [Ids -> Fds \cup {NoFd}]
    BY NoConnectionType DEF WorkerFails
  <2>2. sq' \in Seq(Entry) /\ ops' \in Seq(Operation) /\ cq' \in Seq(Completion)
    BY DEF WorkerFails
  <2> QED
    BY <2>1, <2>2 DEF WorkerFails, IInv, TypeOK, jsVars, historyVars, PCs
<1>2. IdsResolve' /\ LiveOpen'
  BY NoConnectionType DEF WorkerFails, IdsResolve, LiveOpen, Live
<1>3. batch' = <<>> /\ cq' = <<>>
  BY DEF WorkerFails, IInv, Phases
<1>4. Pending' = <<>>
  BY <1>3 DEF Pending
<1>5. AcceptsNew'
  BY <1>4 DEF AcceptsNew
<1>6. ForceTodo' /\ Phases'
  BY DEF WorkerFails, IInv, ForceTodo, Phases
<1> QED
  BY <1>1, <1>2, <1>5, <1>6 DEF IInv

-----------------------------------------------------------------------------
(***************************************************************************)
(* The handlers of completions.                                            *)
(***************************************************************************)

LEMMA BatchTail ==
  ASSUME IInv, batch # <<>>, batch' = Tail(batch), cq' = cq
  PROVE  /\ batch' \in Seq(Completion) /\ PendingShrinks
         /\ pc \in {"process", "redrain", "stopProcess"}
<1>1. batch' \in Seq(Completion)
  BY DEF IInv, TypeOK
<1>2. PendingShrinks
  BY PendingTail DEF IInv, PendingShrinks
<1> QED
  BY <1>1, <1>2 DEF IInv, Phases

LEMMA HandleUnknownStep ==
  ASSUME IInv, HandleUnknown
  PROVE  IInv' /\ Quiet
<1>1. batch # <<>> /\ batch' = Tail(batch) /\ cq' = cq
  BY DEF HandleUnknown, ringVars
<1>2. TypeOK'
  BY <1>1, BatchTail
     DEF HandleUnknown, IInv, TypeOK, tableVars, jsVars, ringVars, historyVars
<1>3. SameTable
  BY DEF HandleUnknown, SameTable, tableVars, ringVars
<1>4. ForceTodo' /\ Phases'
  BY <1>1, BatchTail DEF HandleUnknown, IInv, ForceTodo, Phases
<1>5. UNCHANGED <<nextId, nextSock, sockOf>>
  BY DEF HandleUnknown, tableVars, ringVars, historyVars
<1> QED
  BY <1>1, <1>2, <1>3, <1>4, BatchTail, <1>5, TableStep DEF IInv, Quiet

LEMMA HandleRecvDataStep ==
  ASSUME IInv, HandleRecvData
  PROVE  IInv' /\ Quiet
<1>1. batch # <<>> /\ batch' = Tail(batch) /\ cq' = cq /\ Cqe \in Completion
  BY PendingHead DEF HandleRecvData, IInv
<1>2. Cqe.id \in Ids
  BY <1>1 DEF HandleRecvData, Completion
<1>3. CqeFd \in Fds
  BY <1>2, Resolved DEF HandleRecvData, CqeFd, IInv
<1>4. connections[CqeFd] \in Connection
  BY <1>3 DEF IInv, TypeOK
<1>5. connections' \in [Fds -> Connection]
  <2>1. [connections[CqeFd] EXCEPT !.dataEventPending = TRUE] \in Connection
    BY <1>4 DEF Connection
  <2>2. connections' = [connections EXCEPT ![CqeFd] =
                          [connections[CqeFd] EXCEPT !.dataEventPending = TRUE]]
    BY <1>3 DEF HandleRecvData, IInv, TypeOK
  <2> QED
    BY <2>1, <2>2 DEF IInv, TypeOK
<1>6. \A f \in Fds : connections'[f].id = connections[f].id
  BY <1>3, <1>4 DEF HandleRecvData, IInv, TypeOK, Connection
<1>7. events' \in [Ids -> Seq({"connect", "data", "close"})]
  <2>1. \A id \in Ids : Append(events[id], "data") \in Seq({"connect", "data", "close"})
    BY DEF IInv, TypeOK
  <2> QED
    BY <1>2, <2>1 DEF HandleRecvData, IInv, TypeOK
<1>8. sq' \in Seq(Entry)
  <2>1. RecvEntry(CqeFd, Cqe.id) \in Entry
    BY <1>2, <1>3, EntryTypes
  <2> QED
    BY <2>1 DEF HandleRecvData, IInv, TypeOK
<1>9. TypeOK'
  BY <1>1, <1>5, <1>7, <1>8, BatchTail DEF HandleRecvData, IInv, TypeOK, jsVars
<1>10. SameTable
  BY <1>6 DEF HandleRecvData, SameTable
<1>11. ForceTodo' /\ Phases'
  BY <1>1, BatchTail DEF HandleRecvData, IInv, ForceTodo, Phases
<1>12. UNCHANGED <<nextId, nextSock, sockOf>>
  BY DEF HandleRecvData, tableVars, ringVars, historyVars
<1> QED
  BY <1>1, <1>9, <1>10, <1>11, BatchTail, <1>12, TableStep DEF IInv, Quiet

LEMMA HandleRecvNoBufferStep ==
  ASSUME IInv, HandleRecvNoBuffer
  PROVE  IInv' /\ Quiet
<1>1. batch # <<>> /\ batch' = Tail(batch) /\ cq' = cq /\ Cqe \in Completion
  BY PendingHead DEF HandleRecvNoBuffer, IInv
<1>2. Cqe.id \in Ids
  BY <1>1 DEF HandleRecvNoBuffer, Completion
<1>3. CqeFd \in Fds
  BY <1>2, Resolved DEF HandleRecvNoBuffer, CqeFd, IInv
<1>4. sq' \in Seq(Entry)
  <2>1. RecvEntry(CqeFd, Cqe.id) \in Entry
    BY <1>2, <1>3, EntryTypes
  <2> QED
    BY <2>1 DEF HandleRecvNoBuffer, IInv, TypeOK
<1>5. TypeOK'
  BY <1>1, <1>4, BatchTail
     DEF HandleRecvNoBuffer, IInv, TypeOK, tableVars, jsVars, historyVars
<1>6. SameTable
  BY DEF HandleRecvNoBuffer, SameTable, tableVars
<1>7. ForceTodo' /\ Phases'
  BY <1>1, BatchTail DEF HandleRecvNoBuffer, IInv, ForceTodo, Phases
<1>8. UNCHANGED <<nextId, nextSock, sockOf>>
  BY DEF HandleRecvNoBuffer, tableVars, ringVars, historyVars
<1> QED
  BY <1>1, <1>5, <1>6, <1>7, BatchTail, <1>8, TableStep DEF IInv, Quiet

LEMMA HandleRecvEndStep ==
  ASSUME IInv, HandleRecvEnd
  PROVE  IInv' /\ Quiet
<1>1. batch # <<>> /\ batch' = Tail(batch) /\ cq' = cq /\ Cqe \in Completion
  BY PendingHead DEF HandleRecvEnd, IInv
<1>2. Cqe.id \in Ids
  BY <1>1 DEF HandleRecvEnd, Completion
<1>3. CqeFd \in Fds /\ Live(CqeFd) /\ TableTypes
  BY <1>2, Resolved, TypesSplit DEF HandleRecvEnd, CqeFd, IInv
<1>4. TableTypes' /\ (SameTable \/ Removes(CqeFd))
  <2>1. DeferTcpRecvShutdown(CqeFd) \/ CloseTcpConnection(CqeFd, TRUE)
    BY DEF HandleRecvEnd
  <2> QED
    BY <1>3, <2>1, DeferEffect, CloseEffect
<1>5. TypeOK'
  BY <1>1, <1>4, BatchTail DEF HandleRecvEnd, IInv, TypeOK, TableTypes, jsVars
<1>6. ForceTodo' /\ Phases'
  BY <1>1, BatchTail DEF HandleRecvEnd, IInv, ForceTodo, Phases
<1>7. UNCHANGED <<nextId, nextSock, sockOf>>
  BY DEF HandleRecvEnd, tableVars, ringVars, historyVars
<1> QED
  BY <1>1, <1>3, <1>4, <1>5, <1>6, BatchTail, <1>7, TableStep DEF IInv, Quiet

LEMMA HandleSendStep ==
  ASSUME IInv, HandleSend
  PROVE  IInv' /\ Quiet
<1> DEFINE fd == CqeFd
           c == connections[fd]
           finished == [c EXCEPT !.activeSend.waiting = FALSE]
           waiting == [c EXCEPT !.activeSend.waiting = TRUE,
                                !.activeSend.result = Cqe.result]
<1>1. batch # <<>> /\ batch' = Tail(batch) /\ cq' = cq /\ Cqe \in Completion
  BY PendingHead DEF HandleSend, IInv
<1>2. Cqe.id \in Ids /\ Cqe.result \in Int
  BY <1>1 DEF HandleSend, Completion
<1>3. fd \in Fds /\ Live(fd) /\ TableTypes /\ c.id = Cqe.id
  <2>1. TypeOK /\ IdsResolve /\ TableTypes
    BY TypesSplit DEF IInv
  <2>2. idToFd[Cqe.id] # NoFd
    BY DEF HandleSend, CqeFd
  <2> QED
    BY <1>2, <2>1, <2>2, Resolved DEF CqeFd
<1>4. c \in Connection /\ free \in [Slots -> Nat] /\ sq \in Seq(Entry)
  BY <1>3 DEF IInv, TypeOK
<1>5. /\ finished \in Connection /\ finished.id = c.id
      /\ waiting \in Connection /\ waiting.id = c.id
      /\ c.activeSend.result \in Int
  <2>1. c.activeSend.result \in Int
    BY <1>4, ConnectionFields DEF PendingSend
  <2> QED
    BY <1>2, <1>4, <2>1, ActiveUpdates, Zenon
<1>6. \/ Keep(fd, c, free) /\ UNCHANGED sq
      \/ FinishTcpSend(fd, finished, c.activeSend.result)
      \/ RemoveConnection(fd, c, free, TRUE) /\ UNCHANGED sq
      \/ Keep(fd, waiting, free) /\ UNCHANGED sq
      \/ FinishTcpSend(fd, c, Cqe.result)
  <2> HIDE DEF fd, c
  <2> QED
    BY DEF HandleSend, fd, c
<1>7. TableTypes' /\ (SameTable \/ Removes(fd)) /\ sq' \in Seq(Entry)
  <2> HIDE DEF fd, c, finished, waiting
  <2> QED
    BY <1>2, <1>3, <1>4, <1>5, <1>6, KeepEffect, RemoveEffect, FinishEffect DEF c
<1>8. TypeOK'
  BY <1>1, <1>7, BatchTail DEF HandleSend, IInv, TypeOK, TableTypes, jsVars
<1>9. ForceTodo' /\ Phases'
  BY <1>1, BatchTail DEF HandleSend, IInv, ForceTodo, Phases
<1>10. UNCHANGED <<nextId, nextSock, sockOf>>
  BY DEF HandleSend, tableVars, ringVars, historyVars
<1> QED
  BY <1>1, <1>3, <1>7, <1>8, <1>9, BatchTail, <1>10, TableStep DEF IInv, Quiet

LEMMA HandleReadStep ==
  ASSUME IInv, HandleRead
  PROVE  IInv' /\ Quiet
<1>1. batch # <<>> /\ batch' = Tail(batch) /\ cq' = cq
  BY DEF HandleRead, ringVars
<1>2. TypeOK'
  BY <1>1, BatchTail
     DEF HandleRead, IInv, TypeOK, tableVars, jsVars, ringVars, historyVars, PCs
<1>3. SameTable
  BY DEF HandleRead, SameTable, tableVars, ringVars
<1>4. ForceTodo' /\ Phases'
  BY DEF HandleRead, IInv, ForceTodo, Phases
<1>5. UNCHANGED <<nextId, nextSock, sockOf>>
  BY DEF HandleRead, tableVars, ringVars, historyVars
<1> QED
  BY <1>1, <1>2, <1>3, <1>4, BatchTail, <1>5, TableStep DEF IInv, Quiet

LEMMA EndLoopStep ==
  ASSUME IInv, EndLoop
  PROVE  IInv' /\ Quiet
<1>1. sq' \in Seq(Entry) /\ ops' \in Seq(Operation)
  BY SubmitRingType DEF EndLoop, IInv
<1>2. TypeOK'
  BY <1>1 DEF EndLoop, IInv, TypeOK, tableVars, jsVars, historyVars, PCs, LiveFds
<1>3. SameTable /\ PendingShrinks
  BY DEF EndLoop, SameTable, PendingShrinks, Pending, tableVars
<1>4. ForceTodo' /\ Phases'
  BY DEF EndLoop, IInv, ForceTodo, Phases
<1>5. UNCHANGED <<nextId, nextSock, sockOf>>
  BY DEF EndLoop, tableVars, ringVars, historyVars
<1> QED
  BY <1>2, <1>3, <1>4, <1>5, TableStep DEF IInv, Quiet

-----------------------------------------------------------------------------
(***************************************************************************)
(* Shutdown.                                                               *)
(***************************************************************************)

LEMMA StopRoundStep ==
  ASSUME IInv, StopRound
  PROVE  IInv' /\ Quiet
<1>1. sq' \in Seq(Entry) /\ ops' \in Seq(Operation)
  BY SubmitRingType DEF StopRound, IInv
<1>2. ticks' \in 0..DrainTicks
  BY NumberAssumption DEF StopRound, IInv, TypeOK
<1>3. TypeOK'
  BY <1>1, <1>2 DEF StopRound, IInv, TypeOK, tableVars, jsVars, historyVars, PCs
<1>4. SameTable /\ PendingShrinks
  BY DEF StopRound, SameTable, PendingShrinks, Pending, tableVars
<1>5. ForceTodo' /\ Phases'
  BY DEF StopRound, IInv, ForceTodo, Phases
<1>6. UNCHANGED <<nextId, nextSock, sockOf>>
  BY DEF StopRound, tableVars, ringVars, historyVars
<1> QED
  BY <1>3, <1>4, <1>5, <1>6, TableStep DEF IInv, Quiet

LEMMA StopEndRoundStep ==
  ASSUME IInv, StopEndRound
  PROVE  IInv' /\ Quiet
<1>1. TypeOK'
  BY DEF StopEndRound, IInv, TypeOK, tableVars, jsVars, ringVars, historyVars, PCs,
         LiveFds
<1>2. SameTable /\ PendingShrinks
  BY DEF StopEndRound, SameTable, PendingShrinks, Pending, tableVars, ringVars
<1>3. ForceTodo' /\ Phases'
  BY DEF StopEndRound, IInv, ForceTodo, Phases
<1>4. UNCHANGED <<nextId, nextSock, sockOf>>
  BY DEF StopEndRound, tableVars, ringVars, historyVars
<1> QED
  BY <1>1, <1>2, <1>3, <1>4, TableStep DEF IInv, Quiet

LEMMA StopForceStep ==
  ASSUME IInv, StopForce
  PROVE  IInv' /\ Quiet
<1>1. TypeOK'
  BY DEF StopForce, IInv, TypeOK, tableVars, jsVars, ringVars, historyVars, PCs,
         LiveFds
<1>2. SameTable /\ PendingShrinks
  BY DEF StopForce, SameTable, PendingShrinks, Pending, tableVars, ringVars
<1>3. ForceTodo' /\ Phases'
  BY DEF StopForce, IInv, ForceTodo, Phases, LiveFds, Live, tableVars
<1>4. UNCHANGED <<nextId, nextSock, sockOf>>
  BY DEF StopForce, tableVars, ringVars, historyVars
<1> QED
  BY <1>1, <1>2, <1>3, <1>4, TableStep DEF IInv, Quiet

LEMMA ForceCloseStep ==
  ASSUME IInv, ForceClose
  PROVE  IInv' /\ Quiet
<1>1. PICK fd \in todo : /\ todo' = todo \ {fd}
                         /\ RemoveConnection(fd, connections[fd], free, FALSE)
  BY DEF ForceClose
<1>2. fd \in Fds /\ Live(fd) /\ TableTypes
  BY TypesSplit DEF IInv, ForceTodo, ForceClose
<1>3. connections[fd] \in Connection /\ free \in [Slots -> Nat]
  BY <1>2 DEF TableTypes
<1>4. TableTypes' /\ Removes(fd)
  BY <1>1, <1>2, <1>3, RemoveEffect
<1>5. TypeOK'
  BY <1>1, <1>4 DEF ForceClose, IInv, TypeOK, TableTypes, jsVars
<1>6. PendingShrinks
  BY DEF ForceClose, PendingShrinks, Pending
<1>7. ForceTodo' /\ Phases'
  <2>1. \A f \in todo' : f # fd /\ connections[f].id # 0 /\ f \in Fds
    BY <1>1 DEF IInv, ForceTodo, ForceClose, Live, TypeOK
  <2>2. \A f \in todo' : connections'[f].id # 0
    BY <1>4, <2>1 DEF Removes
  <2> QED
    BY <2>2 DEF ForceClose, IInv, ForceTodo, Phases, Live
<1>8. UNCHANGED <<nextId, nextSock, sockOf>>
  BY DEF ForceClose, tableVars, ringVars, historyVars
<1> QED
  BY <1>2, <1>4, <1>5, <1>6, <1>7, <1>8, TableStep DEF IInv, Quiet

LEMMA ExitStep ==
  ASSUME IInv, Exit
  PROVE  IInv'
<1>1. TypeOK'
  <2>1. sq' \in Seq(Entry) /\ ops' \in Seq(Operation) /\ cq' \in Seq(Completion)
    BY DEF Exit
  <2> QED
    BY <2>1 DEF Exit, IInv, TypeOK, tableVars, jsVars, historyVars, PCs
<1>2. SameTable
  BY DEF Exit, SameTable, tableVars
<1>3. IdsResolve' /\ LiveOpen'
  BY <1>1, <1>2, SameTableKeeps DEF IInv
<1>4. batch' = <<>> /\ cq' = <<>>
  BY DEF Exit, IInv, Phases
<1>5. Pending' = <<>>
  BY <1>4 DEF Pending
<1>6. AcceptsNew'
  BY <1>5 DEF AcceptsNew
<1>7. ForceTodo' /\ Phases'
  BY DEF Exit, IInv, ForceTodo, Phases
<1> QED
  BY <1>1, <1>3, <1>6, <1>7 DEF IInv

LEMMA AcceptConnectionStep ==
  ASSUME IInv, batch # <<>>, Cqe.op = "accept", Cqe.fd # NoFd,
         AcceptConnection(Cqe.fd), free' = free
  PROVE  /\ TableTypes' /\ nextId' \in Ids /\ sockOf' \in [Ids -> Socks \cup {0}]
         /\ IdsResolve' /\ LiveOpen'
         /\ \A f \in Fds : f # Cqe.fd => /\ connections'[f].id = connections[f].id
                                         /\ fdSock'[f] = fdSock[f]
<1> DEFINE fd == Cqe.fd
           c == [NoConnection EXCEPT !.id = nextId]
<1>1. Cqe \in Completion /\ 1 \in DOMAIN Pending /\ Pending[1] = Cqe
  BY PendingHead DEF IInv
<1>2. fd \in Fds
  BY <1>1 DEF Completion
<1>3. fdSock[fd] # 0 /\ connections[fd].id = 0
  BY <1>1 DEF IInv, AcceptsNew, IsAccept
<1>4. nextId \in Ids /\ nextId # 0 /\ nextId' \in Ids
  <2>1. nextId \in Ids
    BY DEF IInv, TypeOK
  <2> QED
    BY <2>1, NumberAssumption DEF AcceptConnection, Ids
<1>5. c \in Connection /\ c.id = nextId
  BY <1>4, NoConnectionType DEF Connection
<1>6. connections' = [connections EXCEPT ![fd] = c]
  BY DEF AcceptConnection
<1> HIDE DEF c
<1>7. TableTypes'
  <2>1. connections' \in [Fds -> Connection]
    BY <1>2, <1>5, <1>6 DEF IInv, TypeOK
  <2>2. idToFd' \in [Ids -> Fds \cup {NoFd}] /\ fdSock' \in [Fds -> Socks \cup {0}]
    BY <1>2 DEF AcceptConnection, IInv, TypeOK
  <2>3. events' \in [Ids -> Seq({"connect", "data", "close"})]
    <3>1. \A id \in Ids : Append(events[id], "connect") \in Seq({"connect", "data", "close"})
      BY DEF IInv, TypeOK
    <3> QED
      BY <1>4, <3>1 DEF AcceptConnection, IInv, TypeOK
  <2> QED
    BY <2>1, <2>2, <2>3 DEF TableTypes, IInv, TypeOK
<1>8. sockOf' \in [Ids -> Socks \cup {0}]
  BY <1>2, <1>4 DEF AcceptConnection, IInv, TypeOK
<1>9. \A f \in Fds : connections'[f].id = IF f = fd THEN nextId ELSE connections[f].id
  BY <1>2, <1>5, <1>6 DEF IInv, TypeOK
<1>10. IdsResolve'
  <2>1. ASSUME NEW id \in Ids, idToFd'[id] # NoFd
        PROVE  connections'[idToFd'[id]].id = id
    <3>1. CASE id = nextId
      BY <1>2, <1>4, <1>9, <3>1 DEF AcceptConnection, IInv, TypeOK
    <3>2. CASE id # nextId
      <4>1. idToFd'[id] = idToFd[id]
        BY <1>4, <3>2 DEF AcceptConnection, IInv, TypeOK
      <4>2. idToFd[id] \in Fds /\ connections[idToFd[id]].id = id /\ id # 0
        BY <2>1, <4>1, NumberAssumption DEF IInv, IdsResolve, TypeOK, Ids
      <4>3. idToFd[id] # fd
        BY <1>3, <4>2
      <4> QED
        BY <1>9, <4>1, <4>2, <4>3
    <3> QED
      BY <3>1, <3>2
  <2> QED
    BY <2>1 DEF IdsResolve
<1>11. LiveOpen'
  BY <1>3, <1>9 DEF AcceptConnection, IInv, LiveOpen, Live
<1> QED
  BY <1>4, <1>7, <1>8, <1>9, <1>10, <1>11 DEF AcceptConnection

\* The accept completion at the head of the batch is consumed; nothing happens
\* to the other descriptors.
LEMMA AcceptsPop ==
  ASSUME TypeOK, TypeOK', AcceptsNew, batch # <<>>, batch' = Tail(batch), cq' = cq,
         Cqe.op = "accept", Cqe.fd # NoFd,
         \A f \in Fds : f # Cqe.fd => /\ connections'[f].id = connections[f].id
                                      /\ fdSock'[f] = fdSock[f]
  PROVE  AcceptsNew'
<1>1. /\ Pending \in Seq(Completion) /\ Pending # <<>>
      /\ 1 \in DOMAIN Pending /\ Pending[1] = Cqe /\ Pending' = Tail(Pending)
  BY PendingType, PendingHead, PendingTail
<1>2. \A i \in DOMAIN Pending' : /\ i + 1 \in DOMAIN Pending /\ i + 1 # 1
                                 /\ Pending'[i] = Pending[i + 1]
  BY <1>1, TailElements
<1>3. \A i \in DOMAIN Pending' : IsAccept(Pending'[i]) =>
        Pending'[i].fd \in Fds /\ Pending'[i].fd # Cqe.fd
  <2>1. \A e \in Completion : IsAccept(e) => e.fd \in Fds
    BY DEF IsAccept, Completion
  <2>2. IsAccept(Cqe)
    BY DEF IsAccept
  <2> QED
    BY <1>1, <1>2, <2>1, <2>2 DEF AcceptsNew
<1>4. \A i \in DOMAIN Pending' : IsAccept(Pending'[i]) =>
        fdSock'[Pending'[i].fd] # 0 /\ connections'[Pending'[i].fd].id = 0
  BY <1>2, <1>3 DEF AcceptsNew
<1>5. \A i, j \in DOMAIN Pending' : i # j => i + 1 # j + 1
  <2>1. Pending' \in Seq(Completion)
    BY <1>1, TailElements
  <2> QED
    BY <2>1
<1>6. \A i, j \in DOMAIN Pending' :
        IsAccept(Pending'[i]) /\ IsAccept(Pending'[j]) /\ i # j =>
          Pending'[i].fd # Pending'[j].fd
  BY <1>2, <1>5 DEF AcceptsNew
<1> QED
  BY <1>4, <1>6 DEF AcceptsNew, IsAccept

LEMMA HandleAcceptStep ==
  ASSUME IInv, HandleAccept
  PROVE  IInv'
<1>1. batch # <<>> /\ batch' = Tail(batch) /\ cq' = cq /\ Cqe \in Completion
  BY PendingHead DEF HandleAccept, IInv
<1>2. Rearm \in Seq(Entry)
  BY EntryTypes DEF Rearm
<1>3. CASE Cqe.fd = NoFd
  <2>1. /\ sq' = sq \o Rearm
        /\ UNCHANGED <<connections, idToFd, nextId, sockOf, events, fdSock>>
    BY <1>3 DEF HandleAccept
  <2>2. sq' \in Seq(Entry)
    BY <1>2, <2>1 DEF IInv, TypeOK
  <2>3. TypeOK'
    BY <1>1, <2>1, <2>2, BatchTail DEF HandleAccept, IInv, TypeOK, jsVars
  <2>4. SameTable
    BY <2>1 DEF SameTable
  <2>5. ForceTodo' /\ Phases'
    BY <1>1, BatchTail DEF HandleAccept, IInv, ForceTodo, Phases
  <2> QED
    BY <1>1, <2>3, <2>4, <2>5, BatchTail, TableStep DEF IInv
<1>4. CASE Cqe.fd # NoFd /\ ConnectionLimitReached
  <2>1. RejectConnection(Cqe.fd) /\ sq' = sq \o Rearm
    BY <1>4 DEF HandleAccept
  <2>2. sq' \in Seq(Entry)
    BY <1>2, <2>1 DEF IInv, TypeOK
  <2>3. Cqe.fd \in Fds
    BY <1>1, <1>4 DEF Completion
  <2>4. TypeOK'
    <3>1. fdSock' \in [Fds -> Socks \cup {0}]
      BY <2>1, <2>3 DEF RejectConnection, IInv, TypeOK
    <3> QED
      BY <1>1, <2>1, <2>2, <3>1, BatchTail
         DEF HandleAccept, RejectConnection, IInv, TypeOK, jsVars
  <2>5. connections[Cqe.fd].id = 0
    BY <1>1, <1>4, PendingHead DEF HandleAccept, IInv, AcceptsNew, IsAccept
  <2>6. IdsResolve' /\ LiveOpen'
    BY <2>1, <2>3, <2>5 DEF RejectConnection, IInv, IdsResolve, LiveOpen, Live, TypeOK
  <2>7. \A f \in Fds : f # Cqe.fd => /\ connections'[f].id = connections[f].id
                                     /\ fdSock'[f] = fdSock[f]
    BY <2>1, <2>3 DEF RejectConnection, IInv, TypeOK
  <2>8. AcceptsNew'
    BY <1>1, <1>4, <2>4, <2>7, AcceptsPop DEF HandleAccept, IInv
  <2>9. ForceTodo' /\ Phases'
    BY <1>1, BatchTail DEF HandleAccept, IInv, ForceTodo, Phases
  <2> QED
    BY <2>4, <2>6, <2>8, <2>9 DEF IInv
<1>5. CASE Cqe.fd # NoFd /\ ~ConnectionLimitReached
  <2>1. /\ AcceptConnection(Cqe.fd)
        /\ sq' = Append(sq, RecvEntry(Cqe.fd, nextId)) \o Rearm
    BY <1>5 DEF HandleAccept
  <2>2. sq' \in Seq(Entry)
    <3>1. RecvEntry(Cqe.fd, nextId) \in Entry
      BY <1>1, <1>5, EntryTypes DEF Completion, IInv, TypeOK
    <3> QED
      BY <1>2, <2>1, <3>1 DEF IInv, TypeOK
  <2>3. /\ TableTypes' /\ nextId' \in Ids /\ sockOf' \in [Ids -> Socks \cup {0}]
        /\ IdsResolve' /\ LiveOpen'
        /\ \A f \in Fds : f # Cqe.fd => /\ connections'[f].id = connections[f].id
                                        /\ fdSock'[f] = fdSock[f]
    BY <1>1, <1>5, <2>1, AcceptConnectionStep DEF HandleAccept
  <2>4. TypeOK'
    BY <1>1, <2>2, <2>3, BatchTail DEF HandleAccept, IInv, TypeOK, TableTypes, jsVars
  <2>5. AcceptsNew'
    BY <1>1, <1>5, <2>3, <2>4, AcceptsPop DEF HandleAccept, IInv
  <2>6. ForceTodo' /\ Phases'
    BY <1>1, BatchTail DEF HandleAccept, IInv, ForceTodo, Phases
  <2> QED
    BY <2>3, <2>4, <2>5, <2>6 DEF IInv
<1> QED
  BY <1>3, <1>4, <1>5

-----------------------------------------------------------------------------
(***************************************************************************)
(* The invariant holds of every reachable state.                           *)
(***************************************************************************)

LEMMA InitIInv == Init => IInv
<1> SUFFICES ASSUME Init PROVE IInv
  OBVIOUS
<1>1. TypeOK
  <2>1. connections \in [Fds -> Connection] /\ free \in [Slots -> Nat]
    BY NoConnectionType DEF Init
  <2>2. sq \in Seq(Entry)
    BY EntryTypes DEF Init
  <2>3. /\ ticks \in 0..DrainTicks /\ issued \in 0..MaxCommands /\ nextId \in Ids
        /\ nextSock \in 1..(MaxSockets + 1) /\ 0 \in 0..MaxChunks
    BY NumberAssumption DEF Init, Ids
  <2>4. chunks \in [Socks -> 0..MaxChunks]
    BY <2>3 DEF Init
  <2>5. /\ batch \in Seq(Completion) /\ work \in Seq(Step)
        /\ commands \in Seq(Seq(Step)) /\ ops \in Seq(Operation)
        /\ cq \in Seq(Completion)
    BY DEF Init
  <2>6. /\ wire \in [Socks -> Seq(Nat)] /\ sockOf \in [Ids -> Socks \cup {0}]
        /\ accepted \in [Ids -> Nat]
        /\ events \in [Ids -> Seq({"connect", "data", "close"})]
    BY DEF Init
  <2>7. /\ pc \in PCs /\ todo \subseteq Fds /\ idToFd \in [Ids -> Fds \cup {NoFd}]
        /\ shutdown \in BOOLEAN /\ fdSock \in [Fds -> Socks \cup {0}]
        /\ eventfd \in BOOLEAN
    BY DEF Init, PCs
  <2> QED
    BY <2>1, <2>2, <2>3, <2>4, <2>5, <2>6, <2>7 DEF TypeOK
<1>2. IdsResolve /\ LiveOpen
  BY NoConnectionType DEF Init, IdsResolve, LiveOpen, Live
<1>3. Pending = <<>>
  BY DEF Init, Pending
<1>4. AcceptsNew
  BY <1>3 DEF AcceptsNew
<1>5. ForceTodo /\ Phases
  BY DEF Init, ForceTodo, Phases
<1> QED
  BY <1>1, <1>2, <1>4, <1>5 DEF IInv

LEMMA StutterIInv ==
  ASSUME IInv, UNCHANGED vars
  PROVE  IInv' /\ Quiet
<1> USE DEF vars, workerVars, tableVars, jsVars, ringVars, historyVars
<1>1. TypeOK'
  BY DEF IInv, TypeOK
<1>2. SameTable /\ PendingShrinks
  BY DEF SameTable, PendingShrinks, Pending
<1>3. ForceTodo' /\ Phases'
  BY DEF IInv, ForceTodo, Phases, Live
<1>4. UNCHANGED <<nextId, nextSock, sockOf>>
  OBVIOUS
<1> QED
  BY <1>1, <1>2, <1>3, <1>4, TableStep DEF IInv, Quiet

\* Only an accept adds to the table or to the accepted descriptors; only the
\* end of the worker empties the rest.
LEMMA NextKinds ==
  ASSUME IInv, [Next]_vars
  PROVE  /\ IInv'
         /\ \/ Quiet \/ WorkerFails \/ Exit \/ HandleAccept
            \/ \E i \in DOMAIN ops : KernelAccept(i)
<1>1. CASE Worker
  BY <1>1, TakeCommandStep, ExecuteSendStep, ExecuteCloseStep,
     FinishCommandCompletionStep, ExpireHalfClosedStep, ExpireIdleStep, CloseNextStep,
     EnterWaitStep, ReapStep, HandleAcceptStep, HandleUnknownStep, HandleRecvDataStep,
     HandleRecvNoBufferStep, HandleRecvEndStep, HandleSendStep, HandleReadStep,
     EndLoopStep, StopRoundStep, StopEndRoundStep, StopForceStep, ForceCloseStep,
     ExitStep
     DEF Worker
<1>2. CASE WorkerFails
  BY <1>2, WorkerFailsStep
<1>3. CASE Kernel
  <2>1. PICK i \in DOMAIN ops : KernelAccept(i) \/ KernelPost(i)
    BY <1>3 DEF Kernel, KernelPost
  <2> QED
    BY <2>1, KernelAcceptStep, KernelPostStep
<1>4. CASE Enqueue
  BY <1>4, EnqueueStep
<1>5. CASE Stop
  BY <1>5, StopStep
<1>6. CASE UNCHANGED vars
  BY <1>6, StutterIInv
<1> QED
  BY <1>1, <1>2, <1>3, <1>4, <1>5, <1>6 DEF Next

LEMMA NextIInv == IInv /\ [Next]_vars => IInv'
  BY NextKinds

LEMMA InvariantHolds == Spec => []IInv
  BY InitIInv, NextIInv, PTL DEF Spec

\* Every variable keeps its type, in every interleaving of the worker, the
\* kernel and the JavaScript thread and for every size of the tables: above
\* all, a handler that looks a completion's id up in id_to_fd only ever gets
\* a descriptor that connections has a record of (uring.rs handle_tcp_send).
THEOREM TypeCorrect == Spec => []TypeOK
<1>1. IInv => TypeOK
  BY DEF IInv
<1> QED
  BY <1>1, InvariantHolds, PTL

\* A descriptor in an accept completion that is still to be processed is not
\* in the connection table, so that handle_tcp_accept never overwrites a live
\* connection: descriptors are closed only when their connection is removed.
THEOREM AcceptsNeverOverwrite == Spec => []AcceptedFdsAreNew
<1>1. IInv => AcceptedFdsAreNew
  BY DEF IInv, AcceptsNew, IsAccept, AcceptedFdsAreNew, Live
<1> QED
  BY <1>1, InvariantHolds, PTL

-----------------------------------------------------------------------------
(***************************************************************************)
(* That the connection table stays consistent: the two maps remain         *)
(* inverse to each other and every descriptor in the table is the one      *)
(* accepted under its id.                                                  *)
(*                                                                         *)
(* The hypothesis is that ids do not wrap around: a server that accepts    *)
(* fewer sockets than there are ids never gives one out twice.  (After a   *)
(* wrap, handle_tcp_accept does not look whether an id is still in use.)   *)
(***************************************************************************)
IdsSuffice == IdMax > MaxSockets

\* Ids are given out in order and sockets are accepted in order, so that an
\* id is never larger than the number of the socket that will get it.
FdsResolve == \A fd \in Fds : Live(fd) => idToFd[connections[fd].id] = fd

IdsUsed == \A fd \in Fds : Live(fd) => connections[fd].id < nextId

OwnSocket == \A fd \in Fds : Live(fd) => fdSock[fd] = sockOf[connections[fd].id]

SocksUsed == nextId <= nextSock /\ \A fd \in Fds : fdSock[fd] < nextSock

AcceptOrder ==
  /\ \A i \in DOMAIN Pending :
       IsAccept(Pending[i]) => nextId <= fdSock[Pending[i].fd]
  /\ \A i, j \in DOMAIN Pending :
       IsAccept(Pending[i]) /\ IsAccept(Pending[j]) /\ i < j =>
         fdSock[Pending[i].fd] < fdSock[Pending[j].fd]

TInv ==
  /\ IInv
  /\ FdsResolve
  /\ IdsUsed
  /\ OwnSocket
  /\ SocksUsed
  /\ AcceptOrder

-----------------------------------------------------------------------------
LEMMA NumberTypes ==
  ASSUME IInv
  PROVE  /\ nextId \in Nat \ {0} /\ nextSock \in Nat \ {0}
         /\ \A fd \in Fds : fdSock[fd] \in Nat /\ connections[fd].id \in Nat
         /\ \A fd \in Fds : Live(fd) => connections[fd].id \in Ids
<1>1. nextId \in Nat \ {0}
  BY DEF IInv, TypeOK, Ids
<1>2. nextSock \in Nat \ {0}
  <2>1. nextSock \in 1..(MaxSockets + 1)
    BY DEF IInv, TypeOK
  <2> QED
    BY <2>1, NumberAssumption
<1>3. ASSUME NEW fd \in Fds
      PROVE  fdSock[fd] \in Nat
  <2>1. fdSock[fd] \in Socks \cup {0}
    BY DEF IInv, TypeOK
  <2> QED
    BY <2>1 DEF Socks
<1>4. ASSUME NEW fd \in Fds
      PROVE  /\ connections[fd].id \in Nat
             /\ connections[fd].id # 0 => connections[fd].id \in Ids
  <2>1. connections[fd].id \in Ids \cup {0}
    BY ConnectionFields DEF IInv, TypeOK
  <2>2. CASE connections[fd].id = 0
    BY <2>2
  <2>3. CASE connections[fd].id \in Ids
    BY <2>3 DEF Ids
  <2> QED
    BY <2>1, <2>2, <2>3
<1> QED
  BY <1>1, <1>2, <1>3, <1>4 DEF Live

LEMMA AcceptedPending ==
  ASSUME IInv, NEW i \in DOMAIN Pending, IsAccept(Pending[i])
  PROVE  /\ Pending[i].fd \in Fds /\ fdSock[Pending[i].fd] # 0
         /\ connections[Pending[i].fd].id = 0
<1>1. Pending[i] \in Completion
  BY PendingType DEF IInv
<1> QED
  BY <1>1 DEF IsAccept, Completion, IInv, AcceptsNew

LEMMA SameTableTInv ==
  ASSUME TInv, IInv', SameTable, UNCHANGED <<nextId, nextSock, sockOf>>
  PROVE  FdsResolve' /\ IdsUsed' /\ OwnSocket' /\ SocksUsed'
  BY DEF TInv, SameTable, FdsResolve, IdsUsed, OwnSocket, SocksUsed, Live

LEMMA RemovesTInv ==
  ASSUME TInv, IInv', NEW fd \in Fds, Live(fd), Removes(fd),
         UNCHANGED <<nextId, nextSock, sockOf>>
  PROVE  FdsResolve' /\ IdsUsed' /\ OwnSocket' /\ SocksUsed'
<1>1. idToFd \in [Ids -> Fds \cup {NoFd}] /\ fdSock \in [Fds -> Socks \cup {0}]
  BY DEF TInv, IInv, TypeOK
<1>2. \A f \in Fds : Live(f) => connections[f].id \in Ids
  BY NumberTypes DEF TInv
<1>3. ASSUME NEW f \in Fds, connections'[f].id # 0
      PROVE  /\ f # fd /\ connections'[f].id = connections[f].id /\ Live(f)
             /\ idToFd'[connections[f].id] = f
  <2>1. f # fd /\ connections'[f].id = connections[f].id /\ Live(f)
    BY <1>3 DEF Removes, Live
  <2>2. connections[f].id # connections[fd].id
    BY <2>1 DEF TInv, FdsResolve
  <2> QED
    BY <1>1, <1>2, <2>1, <2>2 DEF Removes, TInv, FdsResolve
<1>4. FdsResolve' /\ IdsUsed'
  BY <1>3 DEF FdsResolve, IdsUsed, TInv, Live
<1>5. OwnSocket'
  BY <1>1, <1>3 DEF OwnSocket, TInv, Removes, Live
<1>6. SocksUsed'
  <2>1. nextSock > 0
    BY NumberTypes DEF TInv
  <2> QED
    BY <1>1, <2>1 DEF SocksUsed, TInv, Removes
<1> QED
  BY <1>4, <1>5, <1>6

LEMMA QuietOrder ==
  ASSUME TInv, IInv', Quiet
  PROVE  AcceptOrder'
<1>1. ASSUME NEW i \in DOMAIN Pending, IsAccept(Pending[i])
      PROVE  fdSock'[Pending[i].fd] = fdSock[Pending[i].fd]
  <2>1. Pending[i].fd \in Fds /\ connections[Pending[i].fd].id = 0
    BY <1>1, AcceptedPending DEF TInv
  <2>2. CASE SameTable
    BY <2>2 DEF SameTable
  <2>3. ASSUME NEW fd \in Fds, Live(fd), Removes(fd)
        PROVE  fdSock'[Pending[i].fd] = fdSock[Pending[i].fd]
    BY <2>1, <2>3 DEF Removes, Live, TInv, IInv, TypeOK
  <2> QED
    BY <2>2, <2>3 DEF Quiet
<1>2. Pending \in Seq(Completion) /\ nextId' = nextId
  BY PendingType DEF TInv, IInv, Quiet
<1>3. CASE Pending' = Pending
  BY <1>1, <1>2, <1>3 DEF AcceptOrder, TInv
<1>4. CASE Pending # <<>> /\ Pending' = Tail(Pending)
  <2>1. \A i \in DOMAIN Pending' : /\ i + 1 \in DOMAIN Pending
                                   /\ Pending'[i] = Pending[i + 1]
    BY <1>2, <1>4, TailElements
  <2>2. \A i, j \in DOMAIN Pending' : i < j => i + 1 < j + 1
    BY <1>2, <1>4
  <2> QED
    BY <1>1, <1>2, <2>1, <2>2 DEF AcceptOrder, TInv
<1>5. CASE Posts
  <2>1. \A i \in DOMAIN Pending' : IsAccept(Pending'[i]) =>
          i \in DOMAIN Pending /\ Pending'[i] = Pending[i]
    BY <1>2, <1>5 DEF Posts
  <2> QED
    BY <1>1, <1>2, <2>1 DEF AcceptOrder, TInv
<1> QED
  BY <1>3, <1>4, <1>5 DEF Quiet, PendingShrinks

LEMMA QuietTInv ==
  ASSUME TInv, IInv', Quiet
  PROVE  TInv'
<1>1. FdsResolve' /\ IdsUsed' /\ OwnSocket' /\ SocksUsed'
  BY SameTableTInv, RemovesTInv DEF Quiet
<1> QED
  BY <1>1, QuietOrder DEF TInv

LEMMA KernelAcceptTInv ==
  ASSUME TInv, IInv', NEW i \in DOMAIN ops, KernelAccept(i)
  PROVE  TInv'
<1>1. PICK fd \in Fds \ OpenFds, more \in BOOLEAN :
        /\ fdSock' = [fdSock EXCEPT ![fd] = nextSock]
        /\ Posted("accept", 0, fd, 1, more, FALSE)
  BY DEF KernelAccept
<1>2. /\ nextSock' = nextSock + 1 /\ UNCHANGED <<connections, idToFd, nextId, sockOf>>
      /\ batch' = batch
  BY DEF KernelAccept, tableVars, historyVars, workerVars
<1>3. fd \in Fds /\ fdSock[fd] = 0 /\ ~Live(fd)
  BY DEF OpenFds, TInv, IInv, LiveOpen
<1>4. \A f \in Fds : fdSock'[f] = IF f = fd THEN nextSock ELSE fdSock[f]
  BY <1>1 DEF TInv, IInv, TypeOK
<1>5. nextSock \in Nat /\ nextId \in Nat /\ \A f \in Fds : fdSock[f] \in Nat
  BY NumberTypes DEF TInv
<1>6. FdsResolve' /\ IdsUsed'
  BY <1>2 DEF TInv, FdsResolve, IdsUsed, Live
<1>7. OwnSocket'
  BY <1>2, <1>3, <1>4 DEF TInv, OwnSocket, Live
<1>8. SocksUsed'
  BY <1>2, <1>4, <1>5 DEF TInv, SocksUsed
<1>9. PICK e \in Completion : Pending' = Append(Pending, e) /\ e.fd = fd
  <2> DEFINE e == [op |-> "accept", id |-> 0, fd |-> fd, result |-> 1,
                   more |-> more, notif |-> FALSE]
  <2>1. e \in Completion /\ e.fd = fd
    BY <1>3 DEF Completion
  <2>2. cq' = Append(cq, e)
    BY <1>1 DEF Posted
  <2> HIDE DEF e
  <2> QED
    BY <1>2, <2>1, <2>2, PendingAppend DEF TInv, IInv
<1>10. Pending \in Seq(Completion)
  BY PendingType DEF TInv, IInv
<1>11. \A k \in DOMAIN Pending' :
         \/ k \in DOMAIN Pending /\ k < Len(Pending) + 1 /\ Pending'[k] = Pending[k]
         \/ k = Len(Pending) + 1 /\ Pending'[k] = e
  BY <1>9, <1>10
<1>12. ASSUME NEW k \in DOMAIN Pending, IsAccept(Pending[k])
       PROVE  /\ fdSock'[Pending[k].fd] = fdSock[Pending[k].fd]
              /\ fdSock[Pending[k].fd] < nextSock
  <2>1. Pending[k].fd \in Fds /\ fdSock[Pending[k].fd] # 0
    BY <1>12, AcceptedPending DEF TInv
  <2> QED
    BY <1>3, <1>4, <2>1 DEF TInv, SocksUsed
<1>13. AcceptOrder'
  <2>1. \A k \in DOMAIN Pending' :
          IsAccept(Pending'[k]) => nextId' <= fdSock'[Pending'[k].fd]
    <3>1. nextId <= fdSock'[fd]
      BY <1>3, <1>4 DEF TInv, SocksUsed
    <3> QED
      BY <1>2, <1>9, <1>11, <1>12, <3>1 DEF TInv, AcceptOrder
  <2>2. ASSUME NEW k \in DOMAIN Pending', NEW l \in DOMAIN Pending',
               IsAccept(Pending'[k]), IsAccept(Pending'[l]), k < l
        PROVE  fdSock'[Pending'[k].fd] < fdSock'[Pending'[l].fd]
    <3>1. k \in DOMAIN Pending /\ Pending'[k] = Pending[k]
      BY <1>9, <1>10, <1>11, <2>2
    <3>2. CASE l \in DOMAIN Pending /\ Pending'[l] = Pending[l]
      BY <1>12, <2>2, <3>1, <3>2 DEF TInv, AcceptOrder
    <3>3. CASE Pending'[l] = e
      BY <1>3, <1>4, <1>9, <1>12, <2>2, <3>1, <3>3
    <3> QED
      BY <1>11, <3>2, <3>3
  <2> QED
    BY <2>1, <2>2 DEF AcceptOrder, IsAccept
<1> QED
  BY <1>6, <1>7, <1>8, <1>13 DEF TInv

\* An accept completion at the head of the batch is consumed: the sockets of
\* the others are newer than its own.
LEMMA PopOrder ==
  ASSUME TInv, IInv', batch # <<>>, batch' = Tail(batch), cq' = cq,
         IsAccept(Cqe), nextId' \in Nat, nextId' <= nextId + 1,
         \A f \in Fds : f # Cqe.fd => fdSock'[f] = fdSock[f]
  PROVE  AcceptOrder'
<1>1. /\ Pending \in Seq(Completion) /\ Pending # <<>>
      /\ 1 \in DOMAIN Pending /\ Pending[1] = Cqe /\ Pending' = Tail(Pending)
  BY PendingType, PendingHead, PendingTail DEF TInv, IInv
<1>2. \A i \in DOMAIN Pending' : /\ i + 1 \in DOMAIN Pending /\ i + 1 # 1 /\ 1 < i + 1
                                 /\ Pending'[i] = Pending[i + 1]
  BY <1>1, TailElements
<1>3. \A i, j \in DOMAIN Pending' : i < j => i + 1 < j + 1
  BY <1>1
<1>4. ASSUME NEW i \in DOMAIN Pending', IsAccept(Pending'[i])
      PROVE  /\ fdSock'[Pending'[i].fd] = fdSock[Pending'[i].fd]
             /\ nextId' <= fdSock[Pending'[i].fd]
  <2> DEFINE f == Pending'[i].fd
  <2>1. i + 1 \in DOMAIN Pending /\ 1 < i + 1 /\ Pending'[i] = Pending[i + 1]
    BY <1>2
  <2>2. f \in Fds /\ Cqe.fd \in Fds
    BY <1>1, <1>4, <2>1, AcceptedPending DEF TInv
  <2>3. fdSock[Cqe.fd] < fdSock[f] /\ nextId <= fdSock[Cqe.fd]
    BY <1>1, <1>4, <2>1 DEF TInv, AcceptOrder
  <2>4. fdSock[f] \in Nat /\ fdSock[Cqe.fd] \in Nat /\ nextId \in Nat
    BY <2>2, NumberTypes DEF TInv
  <2>5. f # Cqe.fd
    BY <2>3, <2>4
  <2> HIDE DEF f
  <2>6. fdSock'[f] = fdSock[f] /\ nextId' <= fdSock[f]
    BY <2>2, <2>3, <2>4, <2>5
  <2> QED
    BY <2>6 DEF f
<1>5. ASSUME NEW i \in DOMAIN Pending', NEW j \in DOMAIN Pending',
             IsAccept(Pending'[i]), IsAccept(Pending'[j]), i < j
      PROVE  fdSock'[Pending'[i].fd] < fdSock'[Pending'[j].fd]
  BY <1>2, <1>3, <1>4, <1>5 DEF TInv, AcceptOrder
<1> QED
  BY <1>4, <1>5 DEF AcceptOrder, IsAccept

LEMMA HandleAcceptTInv ==
  ASSUME IdsSuffice, TInv, IInv', HandleAccept
  PROVE  TInv'
<1>1. /\ batch # <<>> /\ batch' = Tail(batch) /\ cq' = cq /\ nextSock' = nextSock
      /\ Cqe \in Completion /\ 1 \in DOMAIN Pending /\ Pending[1] = Cqe
  BY PendingHead DEF HandleAccept, TInv, IInv
<1>2. /\ nextId \in Nat \ {0} /\ nextSock \in Nat
      /\ \A f \in Fds : fdSock[f] \in Nat /\ connections[f].id \in Nat
      /\ \A f \in Fds : Live(f) => connections[f].id \in Ids
  BY NumberTypes DEF TInv
<1>3. CASE Cqe.fd = NoFd
  <2>1. UNCHANGED <<connections, idToFd, nextId, sockOf, events, fdSock>>
    BY <1>3 DEF HandleAccept
  <2>2. PendingShrinks
    BY <1>1, BatchTail DEF TInv
  <2>3. Quiet
    BY <1>1, <2>1, <2>2 DEF Quiet, SameTable
  <2> QED
    BY <2>3, QuietTInv
<1>4. ASSUME Cqe.fd # NoFd
      PROVE  /\ IsAccept(Cqe) /\ Cqe.fd \in Fds
             /\ connections[Cqe.fd].id = 0 /\ nextId <= fdSock[Cqe.fd]
  <2>1. IsAccept(Cqe)
    BY <1>4 DEF HandleAccept, IsAccept
  <2> QED
    BY <1>1, <2>1, AcceptedPending DEF TInv, AcceptOrder
<1>5. CASE Cqe.fd # NoFd /\ ConnectionLimitReached
  <2>1. RejectConnection(Cqe.fd)
    BY <1>5 DEF HandleAccept
  <2>2. /\ UNCHANGED <<connections, idToFd, nextId, sockOf>>
        /\ \A f \in Fds : fdSock'[f] = IF f = Cqe.fd THEN 0 ELSE fdSock[f]
    BY <1>4, <1>5, <2>1 DEF RejectConnection, TInv, IInv, TypeOK
  <2>3. FdsResolve' /\ IdsUsed'
    BY <2>2 DEF TInv, FdsResolve, IdsUsed, Live
  <2>4. OwnSocket'
    BY <1>4, <1>5, <2>2 DEF TInv, OwnSocket, Live
  <2>5. SocksUsed'
    <3>1. nextSock > 0
      BY NumberTypes DEF TInv
    <3> QED
      BY <1>1, <2>2, <3>1 DEF TInv, SocksUsed
  <2>6. AcceptOrder'
    <3>1. nextId' \in Nat /\ nextId' <= nextId + 1
      BY <1>2, <2>2
    <3>2. \A f \in Fds : f # Cqe.fd => fdSock'[f] = fdSock[f]
      BY <2>2
    <3> QED
      BY <1>1, <1>4, <1>5, <3>1, <3>2, PopOrder
  <2> QED
    BY <2>3, <2>4, <2>5, <2>6 DEF TInv
<1>6. CASE Cqe.fd # NoFd /\ ~ConnectionLimitReached
  <2> DEFINE fd == Cqe.fd
  <2>1. AcceptConnection(fd)
    BY <1>6 DEF HandleAccept
  <2>2. fd \in Fds /\ IsAccept(Cqe) /\ connections[fd].id = 0 /\ nextId <= fdSock[fd]
    BY <1>4, <1>6
  <2>3. nextId \in Ids /\ nextId < nextSock /\ nextId' = nextId + 1
    <3>1. fdSock[fd] < nextSock /\ nextSock <= MaxSockets + 1
      <4>1. nextSock \in 1..(MaxSockets + 1)
        BY DEF TInv, IInv, TypeOK
      <4> QED
        BY <2>2, <4>1, NumberAssumption DEF TInv, SocksUsed
    <3>2. nextId <= MaxSockets /\ nextId < nextSock
      <4>1. fdSock[fd] \in Nat
        BY <1>2, <2>2
      <4> HIDE DEF fd
      <4> QED
        BY <1>2, <2>2, <3>1, <4>1, NumberAssumption
    <3>3. nextId # IdMax
      BY <1>2, <3>2, NumberAssumption DEF IdsSuffice
    <3> QED
      BY <2>1, <3>2, <3>3 DEF AcceptConnection, TInv, IInv, TypeOK
  <2>4. \A f \in Fds : connections'[f].id = IF f = fd THEN nextId ELSE connections[f].id
    <3>1. [NoConnection EXCEPT !.id = nextId].id = nextId
      BY DEF NoConnection
    <3> QED
      BY <2>1, <2>2, <3>1 DEF AcceptConnection, TInv, IInv, TypeOK
  <2>5. \A id \in Ids : /\ idToFd'[id] = IF id = nextId THEN fd ELSE idToFd[id]
                        /\ sockOf'[id] = IF id = nextId THEN fdSock[fd] ELSE sockOf[id]
    BY <2>1, <2>3 DEF AcceptConnection, TInv, IInv, TypeOK
  <2>6. fdSock' = fdSock
    BY <2>1 DEF AcceptConnection
  <2> HIDE DEF fd
  <2>7. ASSUME NEW f \in Fds, f # fd, connections[f].id # 0
        PROVE  connections[f].id \in Ids /\ connections[f].id < nextId
    BY <1>2, <2>7 DEF TInv, IdsUsed, Live
  <2>8. FdsResolve'
    <3>1. ASSUME NEW f \in Fds, connections'[f].id # 0
          PROVE  idToFd'[connections'[f].id] = f
      <4>1. CASE f = fd
        BY <2>3, <2>4, <2>5, <4>1
      <4>2. CASE f # fd
        <5>1. connections'[f].id = connections[f].id /\ connections[f].id # nextId
          BY <1>2, <2>4, <2>7, <3>1, <4>2
        <5>2. idToFd'[connections[f].id] = idToFd[connections[f].id]
          BY <2>4, <2>5, <2>7, <3>1, <4>2, <5>1
        <5> QED
          BY <3>1, <5>1, <5>2 DEF TInv, FdsResolve, Live
      <4> QED
        BY <4>1, <4>2
    <3> QED
      BY <3>1 DEF FdsResolve, Live
  <2>9. IdsUsed'
    BY <1>2, <2>3, <2>4, <2>7 DEF IdsUsed, Live
  <2>10. OwnSocket'
    <3>1. ASSUME NEW f \in Fds, connections'[f].id # 0
          PROVE  fdSock[f] = sockOf'[connections'[f].id]
      <4>1. CASE f = fd
        BY <2>3, <2>4, <2>5, <4>1
      <4>2. CASE f # fd
        <5>1. connections'[f].id = connections[f].id /\ connections[f].id # nextId
          BY <1>2, <2>4, <2>7, <3>1, <4>2
        <5>2. sockOf'[connections[f].id] = sockOf[connections[f].id]
          BY <2>4, <2>5, <2>7, <3>1, <4>2, <5>1
        <5> QED
          BY <3>1, <5>1, <5>2 DEF TInv, OwnSocket, Live
      <4> QED
        BY <4>1, <4>2
    <3> QED
      BY <2>6, <3>1 DEF OwnSocket, Live
  <2>11. SocksUsed'
    BY <1>1, <1>2, <2>3, <2>6 DEF TInv, SocksUsed
  <2>12. AcceptOrder'
    <3>1. nextId' \in Nat /\ nextId' <= nextId + 1
      BY <1>2, <2>3
    <3>2. \A f \in Fds : f # Cqe.fd => fdSock'[f] = fdSock[f]
      BY <2>6
    <3> QED
      BY <1>1, <2>2, <3>1, <3>2, PopOrder
  <2> QED
    BY <2>8, <2>9, <2>10, <2>11, <2>12 DEF TInv
<1> QED
  BY <1>3, <1>5, <1>6

LEMMA EndTInv ==
  ASSUME TInv, IInv', WorkerFails \/ Exit
  PROVE  TInv'
<1>1. batch' = <<>> /\ cq' = <<>> /\ UNCHANGED <<nextId, nextSock, sockOf, fdSock>>
  BY DEF WorkerFails, Exit, TInv, IInv, Phases, tableVars, historyVars
<1>2. Pending' = <<>>
  BY <1>1 DEF Pending
<1>3. AcceptOrder'
  BY <1>2 DEF AcceptOrder
<1>4. SocksUsed'
  BY <1>1 DEF TInv, SocksUsed
<1>5. FdsResolve' /\ IdsUsed' /\ OwnSocket'
  <2>1. CASE WorkerFails
    BY <2>1, NoConnectionType DEF WorkerFails, FdsResolve, IdsUsed, OwnSocket, Live
  <2>2. CASE Exit
    BY <2>2 DEF Exit, tableVars, historyVars, TInv, FdsResolve, IdsUsed, OwnSocket, Live
  <2> QED
    BY <2>1, <2>2
<1> QED
  BY <1>3, <1>4, <1>5 DEF TInv

LEMMA InitTInv == Init => TInv
<1> SUFFICES ASSUME Init PROVE TInv
  OBVIOUS
<1>1. \A fd \in Fds : ~Live(fd)
  BY NoConnectionType DEF Init, Live
<1>2. Pending = <<>>
  BY DEF Init, Pending
<1>3. AcceptOrder
  BY <1>2 DEF AcceptOrder
<1>4. SocksUsed
  BY DEF Init, SocksUsed
<1> QED
  BY <1>1, <1>3, <1>4, InitIInv DEF TInv, FdsResolve, IdsUsed, OwnSocket

LEMMA NextTInv == IdsSuffice /\ TInv /\ [Next]_vars => TInv'
<1> SUFFICES ASSUME IdsSuffice, TInv, [Next]_vars PROVE TInv'
  OBVIOUS
<1>1. /\ IInv'
      /\ \/ Quiet \/ WorkerFails \/ Exit \/ HandleAccept
         \/ \E i \in DOMAIN ops : KernelAccept(i)
  BY NextKinds DEF TInv
<1> QED
  BY <1>1, QuietTInv, EndTInv, HandleAcceptTInv, KernelAcceptTInv

LEMMA TInvHolds == IdsSuffice /\ Spec => []TInv
<1>1. ASSUME IdsSuffice PROVE Spec => []TInv
  <2>1. TInv /\ [Next]_vars => TInv'
    BY <1>1, NextTInv
  <2> QED
    BY <2>1, InitTInv, PTL DEF Spec
<1> QED
  BY <1>1

\* connections and id_to_fd stay inverse to each other through every sequence
\* of accepts, closes and reused descriptors: a completion or a command finds
\* the connection of its id or none (get_tcp_connection).
THEOREM TableIsConsistent == IdsSuffice /\ Spec => []TableConsistent
<1>1. TInv => TableConsistent
  BY DEF TInv, IInv, IdsResolve, FdsResolve, TableConsistent
<1> QED
  BY <1>1, TInvHolds, PTL

\* A descriptor in the table is open and names the socket accepted under its
\* id: no close ever hits a descriptor the kernel has given to another
\* connection (close_tcp_connection, reject_connection).
THEOREM DescriptorsAreOwned == IdsSuffice /\ Spec => []FdsOwned
<1>1. TInv => FdsOwned
  BY DEF TInv, IInv, LiveOpen, OwnSocket, FdsOwned, LiveFds
<1> QED
  BY <1>1, TInvHolds, PTL

\* Both: whoever finds a connection in the table acts on its own socket.
THEOREM TableOwnsDescriptors == IdsSuffice /\ Spec => []DescriptorsOwned
  BY TableIsConsistent, DescriptorsAreOwned, PTL DEF DescriptorsOwned

-----------------------------------------------------------------------------
(***************************************************************************)
(* No descriptor is forgotten.  While the worker listens, a completion     *)
(* leaves the queue only by being handled, and only HandleAccept handles   *)
(* an accept.                                                              *)
(***************************************************************************)
Listening == /\ pc \notin {"stop", "stopProcess", "force", "exited", "failed"}
             /\ ticks = 0

\* Once it is told to stop, the worker does not listen again.
LEMMA ListeningBefore ==
  ASSUME IInv, [Next]_vars, Listening'
  PROVE  Listening
<1>0. ticks \in Nat
  BY NumberAssumption DEF IInv, TypeOK
<1> USE <1>0 DEF Listening
<1>1. CASE Worker
  <2>1. ~StopRound
    BY DEF StopRound
  <2>2. CASE \/ TakeCommand \/ ExecuteSend \/ ExecuteClose \/ CloseNext \/ ForceClose
             \/ HandleAccept \/ HandleUnknown \/ HandleRecvData \/ HandleRecvNoBuffer
             \/ HandleRecvEnd \/ HandleSend
    BY <2>2 DEF TakeCommand, ExecuteSend, ExecuteClose, CloseNext, ForceClose, HandleAccept,
       HandleUnknown, HandleRecvData, HandleRecvNoBuffer, HandleRecvEnd, HandleSend
  <2>3. CASE \/ FinishCommandCompletion \/ ExpireHalfClosed \/ ExpireIdle \/ EnterWait
             \/ Reap \/ HandleRead \/ EndLoop
    BY <2>3 DEF FinishCommandCompletion, ExpireHalfClosed, ExpireIdle, EnterWait, Reap,
       HandleRead, EndLoop
  <2>4. ~StopEndRound /\ ~StopForce /\ ~Exit
    BY DEF StopEndRound, StopForce, Exit
  <2> QED
    BY <1>1, <2>1, <2>2, <2>3, <2>4 DEF Worker
<1>2. CASE WorkerFails
  BY <1>2 DEF WorkerFails
<1>3. CASE Kernel
  BY <1>3 DEF Kernel, KernelAccept, KernelAcceptError, KernelRecvData, KernelRecvEnd,
     KernelSend, KernelSendError, KernelNotify, KernelRead, workerVars
<1>4. CASE Enqueue \/ Stop \/ UNCHANGED vars
  BY <1>4 DEF Enqueue, Stop, vars, workerVars
<1> QED
  BY <1>1, <1>2, <1>3, <1>4 DEF Next

\* What a step of a listening worker does to the completions.
PendingStays == \A k \in DOMAIN Pending : k \in DOMAIN Pending' /\ Pending'[k] = Pending[k]
Pops == batch # <<>> /\ batch' = Tail(batch) /\ cq' = cq

LEMMA PostedStays ==
  ASSUME IInv, batch' = batch, NEW e, cq' = Append(cq, e)
  PROVE  PendingStays
<1>1. batch \in Seq(Completion) /\ cq \in Seq(Completion)
  BY DEF IInv, TypeOK
<1>2. /\ Len(cq) \in Nat /\ Len(batch) \in Nat /\ DOMAIN batch = 1..Len(batch)
      /\ DOMAIN cq = 1..Len(cq) /\ cq' \in Seq(Completion \cup {e})
      /\ Len(cq') = Len(cq) + 1 /\ \A k \in 1..Len(cq) : cq'[k] = cq[k]
      /\ batch \in Seq(Completion \cup {e}) /\ cq \in Seq(Completion \cup {e})
  BY <1>1
<1>3. DOMAIN Pending = 1..(Len(batch) + Len(cq)) /\ DOMAIN Pending' = 1..(Len(batch) + Len(cq) + 1)
  BY <1>2 DEF Pending
<1>4. ASSUME NEW k \in DOMAIN Pending
      PROVE  Pending'[k] = Pending[k]
  <2>1. Pending[k] = IF k <= Len(batch) THEN batch[k] ELSE cq[k - Len(batch)]
    BY <1>2, <1>3 DEF Pending
  <2>2. Pending'[k] = IF k <= Len(batch) THEN batch[k] ELSE cq'[k - Len(batch)]
    BY <1>2, <1>3 DEF Pending
  <2> QED
    BY <1>2, <1>3, <2>1, <2>2
<1> QED
  BY <1>3, <1>4 DEF PendingStays

LEMMA PendingMoves ==
  ASSUME IInv, [Next]_vars, Listening'
  PROVE  PendingStays \/ HandleAccept \/ (Pops /\ ~IsAccept(Cqe))
<1>0. Pending' = Pending => PendingStays
  BY DEF PendingStays
<1>1. CASE Worker
  <2>1. CASE \/ TakeCommand \/ ExecuteSend \/ ExecuteClose \/ FinishCommandCompletion
             \/ ExpireHalfClosed \/ ExpireIdle \/ CloseNext \/ EnterWait \/ EndLoop
             \/ StopRound \/ StopEndRound \/ StopForce \/ ForceClose
    BY <1>0, <2>1 DEF TakeCommand, ExecuteSend, ExecuteClose, FinishCommandCompletion,
       ExpireHalfClosed, ExpireIdle, CloseNext, EnterWait, EndLoop, StopRound,
       StopEndRound, StopForce, ForceClose, ringVars, Pending
  <2>2. CASE Reap
    <3>1. batch = <<>> /\ batch' = cq /\ cq' = <<>> /\ cq \in Seq(Completion)
      BY <2>2 DEF Reap, IInv, Phases, TypeOK
    <3>2. Pending = cq /\ Pending' = cq
      BY <3>1 DEF Pending
    <3> QED
      BY <1>0, <3>2
  <2>3. CASE \/ HandleUnknown \/ HandleRecvData \/ HandleRecvNoBuffer \/ HandleRecvEnd
             \/ HandleSend \/ HandleRead
    BY <2>3 DEF HandleUnknown, HandleRecvData, HandleRecvNoBuffer, HandleRecvEnd,
       HandleSend, HandleRead, ringVars, Pops, IsAccept, Listening
  <2>4. ~Exit
    BY DEF Exit, Listening
  <2> QED
    BY <1>1, <2>1, <2>2, <2>3, <2>4 DEF Worker
<1>2. ~WorkerFails
  BY DEF WorkerFails, Listening
<1>3. CASE Kernel
  <2>1. PICK i \in DOMAIN ops :
          \/ KernelAccept(i) \/ KernelAcceptError(i) \/ KernelRecvData(i) \/ KernelRecvEnd(i)
          \/ KernelSend(i) \/ KernelSendError(i) \/ KernelNotify(i) \/ KernelRead(i)
    BY <1>3 DEF Kernel
  <2>2. batch' = batch /\ \E e : cq' = Append(cq, e)
    BY <2>1 DEF KernelAccept, KernelAcceptError, KernelRecvData, KernelRecvEnd,
       KernelSend, KernelSendError, KernelNotify, KernelRead, Posted, workerVars
  <2> QED
    BY <2>2, PostedStays
<1>4. CASE Enqueue \/ Stop \/ UNCHANGED vars
  BY <1>0, <1>4 DEF Enqueue, Stop, vars, workerVars, ringVars, Pending
<1> QED
  BY <1>1, <1>2, <1>3, <1>4 DEF Next

\* Fd is the descriptor of an accept completion.
Awaited(fd) == \E i \in DOMAIN Pending : Pending[i].op = "accept" /\ Pending[i].fd = fd

LEMMA AwaitedKept ==
  ASSUME IInv, NEW fd \in Fds, Awaited(fd),
         PendingStays \/ (Pops /\ (IsAccept(Cqe) => Cqe.fd # fd))
  PROVE  Awaited(fd)'
<1>1. PICK i \in DOMAIN Pending : Pending[i].op = "accept" /\ Pending[i].fd = fd
  BY DEF Awaited
<1>2. CASE PendingStays
  BY <1>1, <1>2 DEF PendingStays, Awaited
<1>3. CASE Pops /\ (IsAccept(Cqe) => Cqe.fd # fd)
  <2>1. /\ Pending \in Seq(Completion) /\ Pending # <<>> /\ Pending[1] = Cqe
        /\ Pending' = Tail(Pending)
    BY <1>3, PendingType, PendingHead, PendingTail DEF Pops, IInv
  <2>2. i # 1
    BY <1>1, <1>3, <2>1, FdAssumption DEF IsAccept
  <2>3. i - 1 \in DOMAIN Tail(Pending) /\ Tail(Pending)[i - 1] = Pending[i]
    BY <1>1, <2>1, <2>2
  <2> QED
    BY <1>1, <2>1, <2>3 DEF Awaited
<1> QED
  BY <1>2, <1>3

Forgotten(fd) == fdSock[fd] # 0 /\ connections[fd].id = 0 /\ ~Awaited(fd)
NoneForgotten == Listening => \A fd \in Fds : ~Forgotten(fd)

LEMMA NextForgets ==
  ASSUME IInv, NoneForgotten, [Next]_vars
  PROVE  NoneForgotten'
<1> SUFFICES ASSUME Listening', NEW fd \in Fds, fdSock'[fd] # 0, connections'[fd].id = 0
             PROVE  Awaited(fd)'
  BY DEF NoneForgotten, Forgotten
<1>1. IInv' /\ Listening
  BY NextIInv, ListeningBefore
<1>2. fdSock[fd] # 0 /\ connections[fd].id = 0 => Awaited(fd)
  BY <1>1 DEF NoneForgotten, Forgotten
<1>3. CASE HandleAccept
  <2>1. Pops /\ Cqe \in Completion /\ Cqe.op = "accept"
    BY <1>3, PendingHead DEF HandleAccept, Pops, IInv
  <2>2. CASE Cqe.fd = NoFd
    <3>1. UNCHANGED <<connections, fdSock>>
      BY <1>3, <2>2 DEF HandleAccept
    <3> QED
      BY <1>2, <2>1, <2>2, <3>1, AwaitedKept DEF IsAccept
  <2>3. CASE Cqe.fd # NoFd /\ RejectConnection(Cqe.fd)
    <3>1. /\ Cqe.fd \in Fds /\ connections' = connections
          /\ \A f \in Fds : fdSock'[f] = IF f = Cqe.fd THEN 0 ELSE fdSock[f]
      BY <2>1, <2>3 DEF RejectConnection, Completion, IInv, TypeOK
    <3> QED
      BY <1>2, <2>1, <3>1, AwaitedKept
  <2>4. CASE Cqe.fd # NoFd /\ AcceptConnection(Cqe.fd)
    <3>1. nextId # 0 /\ Cqe.fd \in Fds
      BY <2>1, <2>4, NumberAssumption DEF Completion, IInv, TypeOK, Ids
    <3>2. [NoConnection EXCEPT !.id = nextId].id = nextId
      BY DEF NoConnection
    <3>3. connections'[Cqe.fd].id = nextId
      BY <2>4, <3>1, <3>2 DEF AcceptConnection, IInv, TypeOK
    <3>4. /\ fdSock' = fdSock
          /\ \A f \in Fds : f # Cqe.fd => connections'[f] = connections[f]
      BY <2>4, <3>1 DEF AcceptConnection, IInv, TypeOK
    <3> QED
      BY <1>2, <2>1, <3>1, <3>3, <3>4, AwaitedKept
  <2> QED
    BY <1>3, <2>2, <2>3, <2>4 DEF HandleAccept
<1>4. CASE Quiet /\ ~HandleAccept
  <2>1. fdSock[fd] # 0 /\ connections[fd].id = 0
    <3>1. CASE SameTable
      BY <3>1 DEF SameTable
    <3>2. ASSUME NEW f \in Fds, Live(f), Removes(f)
          PROVE  fdSock[fd] # 0 /\ connections[fd].id = 0
      BY <3>2 DEF Removes, IInv, TypeOK
    <3> QED
      BY <1>4, <3>1, <3>2 DEF Quiet
  <2> QED
    BY <1>2, <1>4, <2>1, PendingMoves, AwaitedKept
<1>5. ASSUME NEW i \in DOMAIN ops, KernelAccept(i), ~HandleAccept
      PROVE  Awaited(fd)'
  <2>1. PICK f \in Fds \ OpenFds, more \in BOOLEAN :
          /\ fdSock' = [fdSock EXCEPT ![f] = nextSock]
          /\ Posted("accept", 0, f, 1, more, FALSE)
    BY <1>5 DEF KernelAccept
  <2>2. connections' = connections /\ batch' = batch
    BY <1>5 DEF KernelAccept, tableVars, workerVars
  <2>3. CASE fd = f
    <3>1. PICK e \in Completion : cq' = Append(cq, e) /\ e.op = "accept" /\ e.fd = fd
      <4> DEFINE e == [op |-> "accept", id |-> 0, fd |-> f, result |-> 1,
                       more |-> more, notif |-> FALSE]
      <4>1. e \in Completion /\ e.op = "accept" /\ e.fd = fd
        BY <2>3 DEF Completion
      <4>2. cq' = Append(cq, e)
        BY <2>1 DEF Posted
      <4> HIDE DEF e
      <4> QED
        BY <4>1, <4>2
    <3>2. Pending' = Append(Pending, e) /\ Pending \in Seq(Completion)
      BY <2>2, <3>1, PendingAppend, PendingType DEF IInv
    <3>3. Len(Pending) + 1 \in DOMAIN Pending' /\ Pending'[Len(Pending) + 1] = e
      BY <3>2
    <3> QED
      BY <3>1, <3>3 DEF Awaited
  <2>4. CASE fd # f
    <3>1. fdSock'[fd] = fdSock[fd]
      BY <2>1, <2>4 DEF IInv, TypeOK
    <3>2. PendingStays
      BY <2>1, <2>2, PostedStays DEF Posted
    <3> QED
      BY <1>2, <2>2, <3>1, <3>2, AwaitedKept
  <2> QED
    BY <2>3, <2>4
<1>6. ~WorkerFails /\ ~Exit
  BY DEF WorkerFails, Exit, Listening
<1> QED
  BY <1>3, <1>4, <1>5, <1>6, NextKinds

\* No accepted descriptor is lost: until the worker stops, an open descriptor
\* is in the table or in an accept completion that waits to be handled
\* (handle_tcp_accept, close_tcp_connection, the connection limit).
THEOREM NoDescriptorForgotten == Spec => []NoFdForgotten
<1>1. Init => IInv /\ NoneForgotten
  <2>1. Init => NoneForgotten
    BY DEF Init, NoneForgotten, Forgotten
  <2> QED
    BY <2>1, InitIInv
<1>2. IInv /\ NoneForgotten /\ [Next]_vars => IInv' /\ NoneForgotten'
  BY NextIInv, NextForgets
<1>3. NoneForgotten => NoFdForgotten
  BY DEF NoneForgotten, NoFdForgotten, Listening, Forgotten, Awaited, OpenFds, LiveFds, Live
<1> QED
  BY <1>1, <1>2, <1>3, PTL DEF Spec
=============================================================================
