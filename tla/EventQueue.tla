----------------------------- MODULE EventQueue -----------------------------
(***************************************************************************)
(* The event queue from the TCP worker to JavaScript: TcpEventEmitter and  *)
(* emit_tcp_event (src/src/uring.rs), the shared count of events in flight *)
(* (TransportStats) and the threadsafe function that carries the batches   *)
(* to the JavaScript thread.                                               *)
(*                                                                         *)
(* The worker collects events in a batch and hands a batch over when it is *)
(* full and at fixed points of its loop.  Handing over takes a slot per    *)
(* event; without slots the whole batch is dropped and counted.  The slots *)
(* come back when the JavaScript callback has returned.  The worker never  *)
(* waits for JavaScript, since JavaScript waits for it in stop().          *)
(*                                                                         *)
(* A sink with one callback per event (emit_tcp_event) does the same with  *)
(* batches of one event.  Events are numbered as they are emitted.         *)
(***************************************************************************)
EXTENDS Integers, Sequences, FiniteSets

CONSTANTS
  MaxEvents,      \* bound: events the worker emits
  Capacity,       \* eventQueueCapacity
  BatchSize,      \* eventBatchSize
  TsfnCapacity,   \* EVENT_QUEUE_CAPACITY, calls the threadsafe function holds
  MayStop,        \* whether JavaScript stops the server
  MayTearDown     \* whether the JavaScript environment may go away

\* What validate_event_queue_capacity and validate_event_batch_size accept.
ASSUME CapacityAssumption ==
  /\ MaxEvents \in Nat
  /\ TsfnCapacity \in Nat \ {0}
  /\ Capacity \in 1..TsfnCapacity
  /\ BatchSize \in 1..Capacity
ASSUME EnvironmentAssumption == {MayStop, MayTearDown} \subseteq BOOLEAN

VARIABLES
  pc,         \* where the worker is
  then,       \* where it goes on after a flush
  batch,      \* TcpEventEmitter.batch
  flushing,   \* the batch flush has taken
  current,    \* the count the worker has read last
  drops,      \* event_queue_drops
  inflight,   \* event_queue_inflight
  queue,      \* events in the threadsafe function, the ends of batches marked
  closing,    \* whether the threadsafe function refuses calls
  js,         \* where the JavaScript thread is
  handling,   \* the batch the JavaScript callback has
  shutdown,   \* the stop flag
  emitted,    \* history: how many events were emitted
  delivered,  \* history: the events JavaScript has received, in order
  dropped,    \* history: the events dropped for want of slots
  lost        \* history: the events that went with the environment

workerVars == <<pc, then, batch, flushing, current, drops, emitted, dropped>>
jsVars == <<js, handling, shutdown, closing, delivered>>
vars == <<workerVars, jsVars, inflight, queue, lost>>

Event == Nat
Queued == [n : Event, last : BOOLEAN]

Init ==
  /\ pc = "loop" /\ then = "loop"
  /\ batch = <<>> /\ flushing = <<>> /\ current = 0 /\ drops = 0
  /\ inflight = 0 /\ queue = <<>> /\ closing = FALSE
  /\ js = "idle" /\ handling = <<>> /\ shutdown = FALSE
  /\ emitted = 0 /\ delivered = <<>> /\ dropped = {} /\ lost = {}

Elements(s) == {s[i] : i \in DOMAIN s}

-----------------------------------------------------------------------------
(***************************************************************************)
(* The worker: drain, wait, process, and around; stop after the stop flag. *)
(***************************************************************************)

\* Mutant: the events are sent and kept.
FlushWithoutTaking(events, next) ==
  /\ flushing' = events /\ batch' = events
  /\ pc' = "load" /\ then' = next
\* TcpEventEmitter.flush up to the look at the count: the batch is taken.
StartFlush(events, next) ==
  /\ flushing' = events /\ batch' = <<>>
  /\ pc' = "load" /\ then' = next

\* TcpEventEmitter.emit while commands, timeouts and completions are handled.
Emit ==
  /\ pc \in {"drain", "process", "stop"} /\ emitted < MaxEvents
  /\ emitted' = emitted + 1
  /\ LET events == Append(batch, emitted + 1)
     IN  IF Len(events) >= BatchSize
         THEN StartFlush(events, pc)
         ELSE batch' = events /\ UNCHANGED <<pc, then, flushing>>
  /\ UNCHANGED <<current, drops, dropped, jsVars, inflight, queue, lost>>

NextPhase == CASE pc = "drain" -> "wait" [] pc = "process" -> "loop"
               [] pc = "stop" -> "exited"

\* Every phase ends with a flush, which returns at once for an empty batch.
NothingToFlush == batch = <<>>
EndPhase ==
  /\ pc \in {"drain", "process", "stop"}
  /\ IF NothingToFlush
     THEN pc' = NextPhase /\ UNCHANGED <<then, batch, flushing>>
     ELSE StartFlush(batch, NextPhase)
  /\ UNCHANGED <<current, drops, emitted, dropped, jsVars, inflight, queue, lost>>

\* wait_for_completions returns, after 100 ms at the latest.
EndWait ==
  /\ pc = "wait" /\ pc' = "process"
  /\ UNCHANGED <<then, batch, flushing, current, drops, emitted, dropped, jsVars,
                 inflight, queue, lost>>

\* The loop condition.
Loop ==
  /\ pc = "loop"
  /\ pc' = IF shutdown THEN "stop" ELSE "drain"
  /\ UNCHANGED <<then, batch, flushing, current, drops, emitted, dropped, jsVars,
                 inflight, queue, lost>>

-----------------------------------------------------------------------------
(***************************************************************************)
(* Slots: try_acquire_event_queue_slots reads the count, then swaps it if  *)
(* it is still the same.  (A swap that fails for no reason changes         *)
(* nothing.)                                                               *)
(***************************************************************************)

Fits(count) == count + Len(flushing) <= Capacity

\* Mutant: one drop per batch.
DropsOne == 1
\* record_event_queue_drop(event_count).
EventCount == Len(flushing)

\* No slots: the batch is dropped and counted.
Drop ==
  /\ drops' = drops + EventCount
  /\ dropped' = dropped \cup Elements(flushing)
  /\ flushing' = <<>>
  /\ pc' = then

\* Mutant: the worker tries again until there are slots.
WaitForSlots ==
  pc' = "load" /\ UNCHANGED <<drops, dropped, flushing>>
\* try_acquire_event_queue_slots with the count it has read returns false.
Refuse == Drop

Load ==
  /\ pc = "load"
  /\ current' = inflight
  /\ IF Fits(inflight) THEN pc' = "swap" /\ UNCHANGED <<drops, dropped, flushing>>
                       ELSE Refuse
  /\ UNCHANGED <<then, batch, emitted, jsVars, inflight, queue, lost>>

\* Mutant: a plain store.
SwapSucceedsAlways == TRUE
\* compare_exchange succeeds when the count is still the one that was read.
SwapSucceeds == inflight = current

Swap ==
  /\ pc = "swap"
  /\ IF SwapSucceeds
     THEN /\ inflight' = current + Len(flushing)
          /\ pc' = "call"
          /\ UNCHANGED <<current, drops, dropped, flushing>>
     ELSE /\ current' = inflight
          /\ IF Fits(inflight) THEN UNCHANGED <<pc, drops, dropped, flushing>>
                               ELSE Refuse
          /\ UNCHANGED inflight
  /\ UNCHANGED <<then, batch, emitted, jsVars, queue, lost>>

\* Calls in the threadsafe function: one per marked event.
Calls == {i \in DOMAIN queue : queue[i].last}
Marked(b) == [i \in DOMAIN b |-> [n |-> b[i], last |-> i = Len(b)]]

\* call_with_return_value(events, NonBlocking): Ok, Closing or QueueFull; the
\* latter two give the slots back.
Call ==
  /\ pc = "call"
  /\ IF closing
     THEN /\ inflight' = inflight - Len(flushing)
          /\ lost' = lost \cup Elements(flushing)
          /\ flushing' = <<>> /\ pc' = then
          /\ UNCHANGED <<queue, drops, dropped>>
     ELSE IF Cardinality(Calls) >= TsfnCapacity
     THEN /\ inflight' = inflight - Len(flushing)
          /\ Drop
          /\ UNCHANGED <<queue, lost>>
     ELSE /\ queue' = queue \o Marked(flushing)
          /\ flushing' = <<>> /\ pc' = then
          /\ UNCHANGED <<inflight, drops, dropped, lost>>
  /\ UNCHANGED <<then, batch, current, emitted, jsVars>>

Worker == Emit \/ EndPhase \/ EndWait \/ Loop \/ Load \/ Swap \/ Call

-----------------------------------------------------------------------------
(***************************************************************************)
(* The JavaScript thread.                                                  *)
(***************************************************************************)

\* The first call of the queue runs the callback with its batch.
Dispatch ==
  /\ js = "idle" /\ ~closing
  /\ \E k \in Calls :
       /\ \A i \in 1..(k - 1) : ~queue[i].last
       /\ handling' = [i \in 1..k |-> queue[i].n]
       /\ queue' = SubSeq(queue, k + 1, Len(queue))
  /\ delivered' = delivered \o handling'
  /\ js' = "callback"
  /\ UNCHANGED <<workerVars, shutdown, closing, inflight, lost>>

\* Mutant: as many slots as a full batch takes.
ReleasedFullBatch == BatchSize
\* release_event_queue_slots(event_count) after the callback has returned.
ReleasedSlots == Len(handling)
Return ==
  /\ js = "callback"
  /\ inflight' = inflight - ReleasedSlots
  /\ handling' = <<>>
  /\ js' = "idle"
  /\ UNCHANGED <<workerVars, shutdown, closing, delivered, queue, lost>>

\* TcpNativeServer.stop, called from a callback or from elsewhere, joins the
\* worker thread.
Stop ==
  /\ MayStop /\ js \in {"idle", "callback"} /\ ~shutdown
  /\ shutdown' = TRUE
  /\ js' = "joining"
  /\ UNCHANGED <<workerVars, handling, closing, delivered, inflight, queue, lost>>

Joined ==
  /\ js = "joining" /\ pc = "exited"
  /\ js' = IF handling = <<>> THEN "idle" ELSE "callback"
  /\ UNCHANGED <<workerVars, handling, shutdown, closing, delivered, inflight,
                 queue, lost>>

\* The environment goes away: its queue is emptied without calling back.
TearDown ==
  /\ MayTearDown /\ js = "idle" /\ ~closing
  /\ closing' = TRUE
  /\ queue' = <<>>
  /\ lost' = lost \cup {queue[i].n : i \in DOMAIN queue}
  /\ UNCHANGED <<workerVars, js, handling, shutdown, delivered, inflight>>

JavaScript == Dispatch \/ Return \/ Joined

Next == Worker \/ JavaScript \/ Stop \/ TearDown

Spec == Init /\ [][Next]_vars

\* Both threads are scheduled, and callbacks return.
Fairness == WF_vars(Worker) /\ WF_vars(JavaScript)
FairSpec == Spec /\ Fairness

-----------------------------------------------------------------------------
(***************************************************************************)
(* Properties.                                                             *)
(***************************************************************************)
Phases == {"loop", "drain", "wait", "process", "stop", "exited"}

\* Every variable stays in its set; in particular the unsigned count never
\* goes below zero.
TypeOK ==
  /\ pc \in Phases \cup {"load", "swap", "call"}
  /\ then \in Phases
  /\ batch \in Seq(Event) /\ flushing \in Seq(Event) /\ handling \in Seq(Event)
  /\ current \in Nat /\ drops \in Nat /\ inflight \in Nat
  /\ queue \in Seq(Queued)
  /\ closing \in BOOLEAN /\ shutdown \in BOOLEAN
  /\ js \in {"idle", "callback", "joining"}
  /\ emitted \in 0..MaxEvents
  /\ delivered \in Seq(Event)
  /\ dropped \subseteq Event /\ lost \subseteq Event

\* While JavaScript lives, the count is exactly the events that hold a slot,
\* although two threads change it without a lock: no slot leaks and none is
\* given back twice (try_acquire_event_queue_slots against the callbacks).
InflightExact ==
  ~closing =>
    inflight = Len(queue) + Len(handling) + (IF pc = "call" THEN Len(flushing) ELSE 0)

\* eventQueueCapacity bounds the events on their way to JavaScript.
WithinCapacity == inflight <= Capacity

\* The threadsafe function is never full: the QueueFull branches of flush and
\* emit_tcp_event are dead code, since eventQueueCapacity is at most
\* EVENT_QUEUE_CAPACITY and every call holds a slot.
NeverQueueFull == pc = "call" /\ ~closing => Cardinality(Calls) < TsfnCapacity

\* The count bounds what it counts, exactly.
CountSafe == InflightExact /\ WithinCapacity /\ NeverQueueFull

\* JavaScript receives events in the order they were emitted, none twice,
\* through full batches, flushes and drops.
InOrder == \A i, j \in DOMAIN delivered : i < j => delivered[i] < delivered[j]

\* Every event is in one place; the ones JavaScript never gets while it lives
\* are exactly those that event_queue_drops reports.
Waiting == Elements(batch) \cup Elements(flushing) \cup {queue[i].n : i \in DOMAIN queue}
Accounted ==
  /\ 1..emitted = Waiting \cup Elements(delivered) \cup dropped \cup lost
  /\ Cardinality(dropped) = drops
  /\ dropped \cap (Waiting \cup Elements(delivered) \cup lost) = {}

\* Every emitted event is delivered, dropped or lost in the end.
EventsSettle ==
  \A n \in 1..MaxEvents :
    emitted >= n ~> n \in Elements(delivered) \cup dropped \cup lost

\* stop() returns, even when it is called from a callback whose batch holds
\* all the slots the worker needs.
StopReturns == js = "joining" ~> js # "joining"
=============================================================================
