-------------------------- MODULE EventQueueProofs --------------------------
(***************************************************************************)
(* The count of events in flight is exact and bounded, and the threadsafe  *)
(* function is never full, for every capacity, batch size and number of    *)
(* events.  What makes it inductive: a flush holds at least one event      *)
(* (Flushing), a count that has been checked still fits when it is swapped *)
(* in (Checked), and what holds slots outside the queue is covered by the  *)
(* count even after the environment is gone (Covered).                     *)
(* Then the order of the events and the account of the dropped ones: the   *)
(* sequences an event goes through are ordered one after the other (Chain) *)
(* and apart from what was dropped and lost (OInv).                        *)
(***************************************************************************)
EXTENDS EventQueue, FiniteSetTheorems, FunctionTheorems, SequenceTheorems, TLAPS

InCall == IF pc = "call" THEN Len(flushing) ELSE 0

Flushing == pc \in {"load", "swap", "call"} <=> flushing # <<>>
Checked == pc = "swap" => current + Len(flushing) <= Capacity
Covered == inflight >= Len(handling) + InCall
JsPhase == js = "idle" => handling = <<>>

IInv ==
  /\ TypeOK
  /\ InflightExact
  /\ WithinCapacity
  /\ Flushing
  /\ Checked
  /\ Covered
  /\ JsPhase

-----------------------------------------------------------------------------
LEMMA Constants ==
  Capacity \in Nat /\ BatchSize \in Nat \ {0} /\ Capacity <= TsfnCapacity
  /\ TsfnCapacity \in Nat /\ MaxEvents \in Nat
  BY CapacityAssumption

LEMMA InitIInv == Init => IInv
<1> SUFFICES ASSUME Init PROVE IInv
  OBVIOUS
<1>1. /\ batch \in Seq(Event) /\ flushing \in Seq(Event) /\ handling \in Seq(Event)
      /\ delivered \in Seq(Event)
  BY DEF Init
<1>2. queue \in Seq(Queued)
  BY DEF Init
<1>3. emitted \in 0..MaxEvents
  BY Constants DEF Init
<1>4. TypeOK
  BY <1>1, <1>2, <1>3 DEF Init, TypeOK, Phases
<1>5. InflightExact /\ WithinCapacity /\ Flushing /\ Checked /\ Covered /\ JsPhase
  BY Constants DEF Init, InflightExact, WithinCapacity, Flushing, Checked, Covered,
    InCall, JsPhase
<1> QED
  BY <1>4, <1>5 DEF IInv

\* What a flush that begins needs: at least one event.
LEMMA StartFlushStep ==
  ASSUME IInv, NEW events \in Seq(Event), events # <<>>, NEW next \in Phases,
         StartFlush(events, next), pc \in Phases,
         UNCHANGED <<current, drops, dropped, jsVars, inflight, queue, lost>>,
         emitted' \in 0..MaxEvents
  PROVE  IInv'
<1>1. TypeOK'
  BY DEF IInv, TypeOK, StartFlush, jsVars
<1>2. pc # "call" /\ pc' = "load"
  BY DEF Phases, StartFlush
<1>3. InflightExact' /\ Covered'
  BY <1>2 DEF IInv, InflightExact, Covered, InCall, jsVars
<1>4. WithinCapacity' /\ Flushing' /\ Checked' /\ JsPhase'
  BY <1>2 DEF IInv, WithinCapacity, Flushing, Checked, JsPhase, StartFlush, jsVars
<1> QED
  BY <1>1, <1>3, <1>4 DEF IInv

\* A step between two phases that touches neither events nor slots.
LEMMA PhaseStep ==
  ASSUME IInv, pc \in Phases, pc' \in Phases, batch' \in Seq(Event),
         emitted' \in 0..MaxEvents,
         UNCHANGED <<then, flushing, current, drops, dropped, jsVars, inflight, queue,
                     lost>>
  PROVE  IInv'
<1>1. TypeOK'
  BY DEF IInv, TypeOK, jsVars
<1>2. InflightExact' /\ Covered'
  BY DEF IInv, InflightExact, Covered, InCall, jsVars, Phases
<1>3. WithinCapacity' /\ Flushing' /\ Checked' /\ JsPhase'
  BY DEF IInv, WithinCapacity, Flushing, Checked, JsPhase, jsVars, Phases
<1> QED
  BY <1>1, <1>2, <1>3 DEF IInv

LEMMA EmitStep == IInv /\ Emit => IInv'
<1> SUFFICES ASSUME IInv, Emit PROVE IInv'
  OBVIOUS
<1> DEFINE events == Append(batch, emitted + 1)
<1>1. batch \in Seq(Event) /\ emitted + 1 \in Event /\ pc \in Phases
      /\ emitted' \in 0..MaxEvents
  BY Constants DEF IInv, TypeOK, Emit, Event, Phases
<1>2. events \in Seq(Event) /\ events # <<>>
  BY <1>1
<1>3. CASE StartFlush(events, pc)
  BY <1>1, <1>2, <1>3, StartFlushStep DEF Emit
<1>4. CASE batch' = events /\ UNCHANGED <<pc, then, flushing>>
  BY <1>1, <1>2, <1>4, PhaseStep DEF Emit
<1> QED
  BY <1>3, <1>4 DEF Emit

LEMMA EndPhaseStep == IInv /\ EndPhase => IInv'
<1> SUFFICES ASSUME IInv, EndPhase PROVE IInv'
  OBVIOUS
<1>1. pc \in Phases /\ NextPhase \in Phases /\ batch \in Seq(Event)
      /\ emitted' \in 0..MaxEvents
  BY DEF EndPhase, NextPhase, Phases, IInv, TypeOK
<1>2. CASE NothingToFlush
  BY <1>1, <1>2, PhaseStep DEF EndPhase
<1>3. CASE ~NothingToFlush
  BY <1>1, <1>3, StartFlushStep DEF EndPhase, NothingToFlush
<1> QED
  BY <1>2, <1>3

LEMMA EndWaitStep == IInv /\ EndWait => IInv'
  BY PhaseStep DEF EndWait, Phases, IInv, TypeOK

LEMMA LoopStep == IInv /\ Loop => IInv'
  BY PhaseStep DEF Loop, Phases, IInv, TypeOK

\* A batch that is dropped holds no slots any more.
LEMMA DropStep ==
  ASSUME IInv, Drop, pc \in {"load", "swap"}, current' \in Nat,
         UNCHANGED <<then, batch, emitted, jsVars, inflight, queue, lost>>
  PROVE  IInv'
<1>1. then \in Phases /\ Len(flushing) \in Nat /\ flushing \in Seq(Event)
  BY DEF IInv, TypeOK
<1>2. Elements(flushing) \subseteq Event
  BY <1>1 DEF Elements
<1>3. TypeOK'
  BY <1>1, <1>2 DEF IInv, TypeOK, Drop, EventCount, jsVars
<1>4. pc' \in Phases /\ flushing' = <<>>
  BY <1>1 DEF Drop
<1>5. InflightExact' /\ Covered'
  BY <1>4 DEF IInv, InflightExact, Covered, InCall, jsVars, Phases
<1>6. WithinCapacity' /\ Flushing' /\ Checked' /\ JsPhase'
  BY <1>4 DEF IInv, WithinCapacity, Flushing, Checked, JsPhase, jsVars, Phases
<1> QED
  BY <1>3, <1>5, <1>6 DEF IInv

LEMMA LoadStep == IInv /\ Load => IInv'
<1> SUFFICES ASSUME IInv, Load PROVE IInv'
  OBVIOUS
<1>1. inflight \in Nat /\ pc = "load" /\ current' = inflight
  BY DEF IInv, TypeOK, Load
<1>2. CASE Fits(inflight)
  <2>1. TypeOK'
    BY <1>1, <1>2 DEF IInv, TypeOK, Load, jsVars
  <2>2. InflightExact' /\ Covered' /\ WithinCapacity' /\ Flushing' /\ Checked' /\ JsPhase'
    BY <1>1, <1>2 DEF IInv, InflightExact, Covered, InCall, WithinCapacity, Flushing,
      Checked, JsPhase, Load, Fits, jsVars
  <2> QED
    BY <2>1, <2>2 DEF IInv
<1>3. CASE ~Fits(inflight)
  BY <1>1, <1>3, DropStep DEF Load, Refuse
<1> QED
  BY <1>2, <1>3

LEMMA SwapStep == IInv /\ Swap => IInv'
<1> SUFFICES ASSUME IInv, Swap PROVE IInv'
  OBVIOUS
<1>1. inflight \in Nat /\ current \in Nat /\ pc = "swap" /\ Len(flushing) \in Nat
      /\ Len(handling) \in Nat /\ Len(queue) \in Nat
  BY DEF IInv, TypeOK, Swap
<1>2. CASE SwapSucceeds
  <2>1. inflight' = inflight + Len(flushing) /\ pc' = "call"
        /\ UNCHANGED <<flushing, queue, handling, closing, js>>
    BY <1>2 DEF Swap, SwapSucceeds, jsVars
  <2>2. TypeOK'
    BY <1>1, <1>2, <2>1 DEF IInv, TypeOK, Swap, jsVars
  <2>3. InflightExact' /\ Covered'
    BY <1>1, <2>1 DEF IInv, InflightExact, Covered, InCall
  <2>4. WithinCapacity' /\ Flushing' /\ Checked' /\ JsPhase'
    BY <1>1, <1>2, <2>1 DEF IInv, WithinCapacity, Flushing, Checked, JsPhase, SwapSucceeds
  <2> QED
    BY <2>2, <2>3, <2>4 DEF IInv
<1>3. CASE ~SwapSucceeds /\ Fits(inflight)
  <2>1. TypeOK'
    BY <1>1, <1>3 DEF IInv, TypeOK, Swap, jsVars
  <2>2. InflightExact' /\ Covered' /\ WithinCapacity' /\ Flushing' /\ Checked' /\ JsPhase'
    BY <1>1, <1>3 DEF IInv, InflightExact, Covered, InCall, WithinCapacity, Flushing,
      Checked, JsPhase, Swap, Fits, jsVars
  <2> QED
    BY <2>1, <2>2 DEF IInv
<1>4. CASE ~SwapSucceeds /\ ~Fits(inflight)
  BY <1>1, <1>4, DropStep DEF Swap, Refuse
<1> QED
  BY <1>2, <1>3, <1>4

LEMMA MarkedType ==
  ASSUME NEW b \in Seq(Event)
  PROVE  Marked(b) \in Seq(Queued) /\ Len(Marked(b)) = Len(b)
<1>1. \A i \in DOMAIN b : b[i] \in Event
  OBVIOUS
<1>2. DOMAIN Marked(b) = 1..Len(b) /\ Len(b) \in Nat
  BY DEF Marked
<1>3. \A i \in 1..Len(b) : Marked(b)[i] \in Queued
  BY <1>1, <1>2 DEF Marked, Queued
<1>4. Marked(b) = [i \in 1..Len(b) |-> [n |-> b[i], last |-> i = Len(b)]]
  BY DEF Marked
<1>5. Marked(b) \in Seq(Queued)
  BY <1>2, <1>3, <1>4
<1> QED
  BY <1>2, <1>4, <1>5

LEMMA CallsBound ==
  ASSUME IInv
  PROVE  Cardinality(Calls) \in Nat /\ Cardinality(Calls) <= Len(queue)
<1>1. DOMAIN queue = 1..Len(queue) /\ Len(queue) \in Nat
  BY DEF IInv, TypeOK
<1>2. IsFiniteSet(1..Len(queue)) /\ Cardinality(1..Len(queue)) = Len(queue)
  <2>1. 1 \in Int /\ Len(queue) \in Int
    BY <1>1
  <2>2. /\ IsFiniteSet(1..Len(queue))
        /\ Cardinality(1..Len(queue)) = IF 1 > Len(queue) THEN 0 ELSE Len(queue) - 1 + 1
    BY <2>1, FS_Interval
  <2> QED
    BY <1>1, <2>2
<1>3. Calls \subseteq 1..Len(queue)
  BY <1>1 DEF Calls
<1> QED
  BY <1>2, <1>3, FS_Subset, FS_CardinalityType

LEMMA RoomForCall == IInv => NeverQueueFull
<1> SUFFICES ASSUME IInv, pc = "call", ~closing
             PROVE  Cardinality(Calls) < TsfnCapacity
  BY DEF NeverQueueFull
<1>1. Len(flushing) \in Nat /\ Len(queue) \in Nat /\ Len(handling) \in Nat
      /\ flushing \in Seq(Event)
  BY DEF IInv, TypeOK
<1>2. Len(flushing) >= 1
  BY <1>1 DEF IInv, Flushing
<1>3. Len(queue) + 1 <= Capacity
  BY <1>1, <1>2, Constants DEF IInv, InflightExact, WithinCapacity
<1> QED
  BY <1>1, <1>3, CallsBound, Constants

LEMMA CallStep == IInv /\ Call => IInv'
<1> SUFFICES ASSUME IInv, Call PROVE IInv'
  OBVIOUS
<1>1. inflight \in Nat /\ pc = "call" /\ Len(flushing) \in Nat /\ flushing \in Seq(Event)
      /\ Len(handling) \in Nat /\ Len(queue) \in Nat /\ queue \in Seq(Queued)
      /\ then \in Phases
  BY DEF IInv, TypeOK, Call
<1>2. inflight >= Len(handling) + Len(flushing)
  BY <1>1 DEF IInv, Covered, InCall
<1>3. Elements(flushing) \subseteq Event
  BY <1>1 DEF Elements
<1>4. CASE closing
  <2>1. inflight' = inflight - Len(flushing) /\ pc' = then /\ flushing' = <<>>
        /\ UNCHANGED <<queue, handling, closing, js, current>>
    BY <1>4 DEF Call, jsVars
  <2>2. TypeOK'
    BY <1>1, <1>2, <1>3, <1>4, <2>1 DEF IInv, TypeOK, Call, jsVars
  <2>3. InflightExact' /\ Covered' /\ WithinCapacity'
    BY <1>1, <1>2, <1>4, <2>1, Constants
      DEF IInv, InflightExact, Covered, InCall, WithinCapacity, Phases
  <2>4. Flushing' /\ Checked' /\ JsPhase'
    BY <1>1, <2>1 DEF IInv, Flushing, Checked, JsPhase, Phases
  <2> QED
    BY <2>2, <2>3, <2>4 DEF IInv
<1>5. CASE ~closing
  <2>1. Cardinality(Calls) < TsfnCapacity /\ Cardinality(Calls) \in Nat
    BY <1>1, <1>5, RoomForCall, CallsBound DEF NeverQueueFull
  <2>2. queue' = queue \o Marked(flushing) /\ flushing' = <<>> /\ pc' = then
        /\ UNCHANGED <<inflight, drops, dropped, lost>>
    BY <1>5, <2>1, Constants DEF Call
  <2>3. queue' \in Seq(Queued) /\ Len(queue') = Len(queue) + Len(flushing)
    <3>1. Marked(flushing) \in Seq(Queued) /\ Len(Marked(flushing)) = Len(flushing)
      BY <1>1, MarkedType
    <3>2. /\ queue \o Marked(flushing) \in Seq(Queued)
          /\ Len(queue \o Marked(flushing)) = Len(queue) + Len(Marked(flushing))
      BY <1>1, <3>1, ConcatProperties
    <3> QED
      BY <2>2, <3>1, <3>2
  <2>4. TypeOK'
    BY <1>1, <2>2, <2>3 DEF IInv, TypeOK, Call, jsVars
  <2>5. UNCHANGED <<handling, closing, js, current>>
    BY DEF Call, jsVars
  <2>6. InflightExact' /\ Covered' /\ WithinCapacity'
    BY <1>1, <1>2, <1>5, <2>2, <2>3, <2>5
      DEF IInv, InflightExact, Covered, InCall, WithinCapacity, Phases
  <2>7. Flushing' /\ Checked' /\ JsPhase'
    BY <1>1, <2>2, <2>5 DEF IInv, Flushing, Checked, JsPhase, Phases
  <2> QED
    BY <2>4, <2>6, <2>7 DEF IInv
<1> QED
  BY <1>4, <1>5

-----------------------------------------------------------------------------
LEMMA DispatchStep == IInv /\ Dispatch => IInv'
<1> SUFFICES ASSUME IInv, Dispatch PROVE IInv'
  OBVIOUS
<1>1. queue \in Seq(Queued) /\ Len(queue) \in Nat /\ handling = <<>> /\ ~closing
      /\ delivered \in Seq(Event) /\ inflight \in Nat
  BY DEF IInv, TypeOK, JsPhase, Dispatch
<1>2. PICK k \in Calls : /\ handling' = [i \in 1..k |-> queue[i].n]
                         /\ queue' = SubSeq(queue, k + 1, Len(queue))
  BY DEF Dispatch
<1>3. k \in 1..Len(queue)
  BY <1>1 DEF Calls
<1>4. handling' \in Seq(Event) /\ Len(handling') = k
  <2>1. \A i \in 1..k : queue[i] \in Queued
    BY <1>1, <1>3
  <2>2. \A i \in 1..k : queue[i].n \in Event
    BY <2>1 DEF Queued
  <2> QED
    BY <1>2, <1>3, <2>2
<1>5. queue' \in Seq(Queued) /\ Len(queue') = Len(queue) - k
  BY <1>1, <1>2, <1>3
<1>6. delivered' \in Seq(Event)
  BY <1>1, <1>4 DEF Dispatch
<1>7. UNCHANGED <<workerVars, closing, inflight>> /\ js' = "callback"
  BY DEF Dispatch
<1>8. TypeOK'
  BY <1>4, <1>5, <1>6, <1>7 DEF IInv, TypeOK, Dispatch, workerVars
<1>9. inflight = Len(queue) + InCall /\ InCall' = InCall /\ InCall \in Nat
  BY <1>1, <1>7 DEF IInv, TypeOK, InflightExact, InCall, workerVars
<1>10. InflightExact' /\ Covered'
  <2>1. inflight' = inflight /\ Len(queue') + Len(handling') = Len(queue)
        /\ Len(handling') <= Len(queue) /\ Len(handling') \in Nat
    BY <1>1, <1>3, <1>4, <1>5, <1>7
  <2>2. Len(queue') \in Nat /\ InCall' = InCall
    BY <1>5, <1>9
  <2>3. InflightExact'
    BY <1>1, <1>9, <2>1, <2>2 DEF InflightExact, InCall
  <2>4. Covered'
    BY <1>1, <1>9, <2>1, <2>2 DEF Covered
  <2> QED
    BY <2>3, <2>4
<1>11. WithinCapacity' /\ Flushing' /\ Checked' /\ JsPhase'
  BY <1>7 DEF IInv, WithinCapacity, Flushing, Checked, JsPhase, workerVars
<1> QED
  BY <1>8, <1>10, <1>11 DEF IInv

LEMMA ReturnStep == IInv /\ Return => IInv'
<1> SUFFICES ASSUME IInv, Return PROVE IInv'
  OBVIOUS
<1>1. inflight \in Nat /\ Len(handling) \in Nat /\ Len(queue) \in Nat /\ InCall \in Nat
  BY DEF IInv, TypeOK, InCall
<1>2. inflight' = inflight - Len(handling) /\ handling' = <<>> /\ js' = "idle"
      /\ UNCHANGED <<workerVars, closing, queue>>
  BY DEF Return, ReleasedSlots
<1>3. inflight >= Len(handling) + InCall /\ InCall' = InCall
  BY <1>2 DEF IInv, Covered, InCall, workerVars
<1>4. TypeOK'
  BY <1>1, <1>2, <1>3 DEF IInv, TypeOK, Return, workerVars
<1>5. InflightExact' /\ Covered' /\ WithinCapacity'
  <2>1. Len(handling') = 0 /\ Len(queue') = Len(queue) /\ closing' = closing
    BY <1>2
  <2>2. ~closing => inflight = Len(queue) + Len(handling) + InCall
    BY DEF IInv, InflightExact, InCall
  <2>3. ~closing' => inflight' = Len(queue') + Len(handling') + InCall'
    <3> SUFFICES ASSUME ~closing PROVE inflight' = Len(queue') + Len(handling') + InCall'
      BY <2>1
    <3> QED
      BY <1>1, <1>2, <1>3, <2>1, <2>2
  <2>4. InflightExact'
    BY <2>3 DEF InflightExact, InCall
  <2>5. Covered' /\ WithinCapacity'
    BY <1>1, <1>2, <1>3, <2>1, Constants DEF IInv, Covered, WithinCapacity
  <2> QED
    BY <2>4, <2>5
<1>6. Flushing' /\ Checked' /\ JsPhase'
  BY <1>2 DEF IInv, Flushing, Checked, JsPhase, workerVars
<1> QED
  BY <1>4, <1>5, <1>6 DEF IInv

LEMMA StopAndJoinStep == IInv /\ (Stop \/ Joined) => IInv'
<1> SUFFICES ASSUME IInv, Stop \/ Joined PROVE IInv'
  OBVIOUS
<1>1. UNCHANGED <<workerVars, handling, closing, delivered, inflight, queue, lost>>
  BY DEF Stop, Joined
<1>2. TypeOK' /\ JsPhase'
  BY DEF IInv, TypeOK, JsPhase, Stop, Joined, workerVars
<1>3. InflightExact' /\ Covered' /\ WithinCapacity' /\ Flushing' /\ Checked'
  BY <1>1 DEF IInv, InflightExact, Covered, InCall, WithinCapacity, Flushing, Checked,
    workerVars
<1> QED
  BY <1>2, <1>3 DEF IInv

LEMMA TearDownStep == IInv /\ TearDown => IInv'
<1> SUFFICES ASSUME IInv, TearDown PROVE IInv'
  OBVIOUS
<1>1. {queue[i].n : i \in DOMAIN queue} \subseteq Event
  <2>1. \A i \in DOMAIN queue : queue[i] \in Queued
    BY DEF IInv, TypeOK
  <2> QED
    BY <2>1 DEF Queued
<1>2. TypeOK'
  BY <1>1 DEF IInv, TypeOK, TearDown, workerVars
<1>3. InflightExact' /\ Covered' /\ WithinCapacity' /\ Flushing' /\ Checked' /\ JsPhase'
  BY DEF IInv, InflightExact, Covered, InCall, WithinCapacity, Flushing, Checked,
    JsPhase, TearDown, workerVars
<1> QED
  BY <1>2, <1>3 DEF IInv

LEMMA NextIInv == IInv /\ [Next]_vars => IInv'
<1>1. ASSUME IInv, UNCHANGED vars PROVE IInv'
  <2>1. TypeOK'
    BY <1>1 DEF IInv, TypeOK, vars, workerVars, jsVars
  <2>2. InflightExact' /\ Covered' /\ WithinCapacity'
    BY <1>1 DEF IInv, InflightExact, Covered, InCall, WithinCapacity, vars, workerVars,
      jsVars
  <2>3. Flushing' /\ Checked' /\ JsPhase'
    BY <1>1 DEF IInv, Flushing, Checked, JsPhase, vars, workerVars, jsVars
  <2> QED
    BY <2>1, <2>2, <2>3 DEF IInv
<1> QED
  BY <1>1, EmitStep, EndPhaseStep, EndWaitStep, LoopStep, LoadStep, SwapStep, CallStep,
    DispatchStep, ReturnStep, StopAndJoinStep, TearDownStep
    DEF Next, Worker, JavaScript

LEMMA InvariantHolds == Spec => []IInv
  BY InitIInv, NextIInv, PTL DEF Spec

\* The count of events in flight, which the worker raises by compare-and-swap
\* and the callbacks lower, is at every moment the number of events that hold
\* a slot: no slot is lost or given back twice, in any interleaving.
THEOREM CountIsExact == Spec => []InflightExact
<1>1. IInv => InflightExact
  BY DEF IInv
<1> QED
  BY <1>1, InvariantHolds, PTL

\* The three together: the property that the run checks.
THEOREM CountIsSafe == Spec => []CountSafe
<1>1. IInv => CountSafe
  BY RoomForCall DEF IInv, CountSafe
<1> QED
  BY <1>1, InvariantHolds, PTL

\* eventQueueCapacity is an upper bound of the events on their way.
THEOREM CapacityIsKept == Spec => []WithinCapacity
<1>1. IInv => WithinCapacity
  BY DEF IInv
<1> QED
  BY <1>1, InvariantHolds, PTL

\* The QueueFull branches of flush and emit_tcp_event cannot be taken, for
\* every configuration that from_options accepts.
THEOREM QueueIsNeverFull == Spec => []NeverQueueFull
  BY RoomForCall, InvariantHolds, PTL

-----------------------------------------------------------------------------
(***************************************************************************)
(* The order of events, and where each of them is.  An event goes from the *)
(* batch through the flush and the queue to JavaScript; Chain says that    *)
(* along this way, backwards, the numbers only grow.                       *)
(***************************************************************************)
Growing(s) == \A i, j \in DOMAIN s : i < j => s[i] < s[j]
Before(S, T) == \A x \in S, y \in T : x < y

Ordered(d, q, f, b) ==
  /\ Growing(d) /\ Growing(q) /\ Growing(f) /\ Growing(b)
  /\ Before(Elements(d), Elements(q))
  /\ Before(Elements(d), Elements(f)) /\ Before(Elements(q), Elements(f))
  /\ Before(Elements(d), Elements(b)) /\ Before(Elements(q), Elements(b))
  /\ Before(Elements(f), Elements(b))

Numbers == [i \in DOMAIN queue |-> queue[i].n]
Chain == Ordered(delivered, Numbers, flushing, batch)

OnTheirWay == Elements(batch) \cup Elements(flushing)
Whereabouts == OnTheirWay \cup Elements(Numbers) \cup Elements(delivered)

OInv ==
  /\ Chain
  /\ 1..emitted = Whereabouts \cup dropped \cup lost
  /\ Cardinality(dropped) = drops
  /\ dropped \cap (Whereabouts \cup lost) = {}
  /\ lost \cap OnTheirWay = {}

-----------------------------------------------------------------------------
LEMMA NoElements == Elements(<<>>) = {} /\ Growing(<<>>)
  BY DEF Elements, Growing

LEMMA ConcatElements ==
  ASSUME NEW X, NEW s \in Seq(X), NEW t \in Seq(X)
  PROVE  /\ Elements(s \o t) = Elements(s) \cup Elements(t)
         /\ \A i \in DOMAIN (s \o t) :
              \/ i \in DOMAIN s /\ (s \o t)[i] = s[i]
              \/ i > Len(s) /\ i - Len(s) \in DOMAIN t /\ (s \o t)[i] = t[i - Len(s)]
<1> DEFINE u == s \o t
<1>1. /\ u \in Seq(X) /\ Len(u) = Len(s) + Len(t)
      /\ \A i \in 1..Len(u) : u[i] = IF i <= Len(s) THEN s[i] ELSE t[i - Len(s)]
  BY ConcatProperties
<1>2. /\ DOMAIN u = 1..Len(u) /\ DOMAIN s = 1..Len(s) /\ DOMAIN t = 1..Len(t)
      /\ Len(s) \in Nat /\ Len(t) \in Nat
  BY <1>1
<1> HIDE DEF u
<1>3. \A i \in DOMAIN u : \/ i \in DOMAIN s /\ u[i] = s[i]
                          \/ i > Len(s) /\ i - Len(s) \in DOMAIN t /\ u[i] = t[i - Len(s)]
  BY <1>1, <1>2
<1>4. /\ \A i \in DOMAIN s : i \in DOMAIN u /\ u[i] = s[i]
      /\ \A i \in DOMAIN t : i + Len(s) \in DOMAIN u /\ u[i + Len(s)] = t[i]
  <2>1. \A i \in DOMAIN s : i \in DOMAIN u /\ u[i] = s[i]
    BY <1>1, <1>2
  <2>2. ASSUME NEW i \in DOMAIN t
        PROVE  i + Len(s) \in DOMAIN u /\ u[i + Len(s)] = t[i]
    <3>1. i + Len(s) \in 1..Len(u) /\ ~(i + Len(s) <= Len(s)) /\ (i + Len(s)) - Len(s) = i
      BY <1>1, <1>2
    <3> QED
      BY <1>1, <1>2, <3>1
  <2> QED
    BY <2>1, <2>2
<1>5. Elements(u) = Elements(s) \cup Elements(t)
  BY <1>3, <1>4 DEF Elements
<1> QED
  BY <1>3, <1>5 DEF u

LEMMA ConcatGrows ==
  ASSUME NEW s \in Seq(Event), NEW t \in Seq(Event), Growing(s), Growing(t),
         Before(Elements(s), Elements(t))
  PROVE  Growing(s \o t)
<1> DEFINE u == s \o t
<1>1. \A i \in DOMAIN u : \/ i \in DOMAIN s /\ u[i] = s[i]
                          \/ i > Len(s) /\ i - Len(s) \in DOMAIN t /\ u[i] = t[i - Len(s)]
  BY ConcatElements
<1>2. DOMAIN s = 1..Len(s) /\ DOMAIN u = 1..Len(u) /\ Len(s) \in Nat /\ Len(u) \in Nat
      /\ DOMAIN t = 1..Len(t) /\ Len(t) \in Nat
  <2>1. u \in Seq(Event)
    BY ConcatProperties
  <2> QED
    BY <2>1
<1> HIDE DEF u
<1>3. ASSUME NEW i \in DOMAIN u, NEW j \in DOMAIN u, i < j
      PROVE  u[i] < u[j]
  <2>1. CASE j \in DOMAIN s /\ u[j] = s[j]
    <3>1. i \in DOMAIN s /\ u[i] = s[i]
      BY <1>1, <1>2, <1>3, <2>1
    <3> QED
      BY <1>3, <2>1, <3>1 DEF Growing
  <2>2. CASE j > Len(s) /\ j - Len(s) \in DOMAIN t /\ u[j] = t[j - Len(s)]
    <3>1. CASE i \in DOMAIN s /\ u[i] = s[i]
      BY <2>2, <3>1 DEF Before, Elements
    <3>2. CASE i > Len(s) /\ i - Len(s) \in DOMAIN t /\ u[i] = t[i - Len(s)]
      <4>1. i - Len(s) < j - Len(s)
        BY <1>2, <1>3
      <4> QED
        BY <2>2, <3>2, <4>1 DEF Growing
    <3> QED
      BY <1>1, <3>1, <3>2
  <2> QED
    BY <1>1, <2>1, <2>2
<1> QED
  BY <1>3 DEF Growing, u

\* The tail that a cut leaves.
LEMMA CutProperties ==
  ASSUME NEW X, NEW s \in Seq(X), NEW k \in 1..Len(s)
  PROVE  /\ SubSeq(s, k + 1, Len(s)) \in Seq(X)
         /\ Len(SubSeq(s, k + 1, Len(s))) = Len(s) - k
         /\ \A i \in 1..(Len(s) - k) : SubSeq(s, k + 1, Len(s))[i] = s[i + k]
<1>1. Len(s) \in Nat /\ DOMAIN s = 1..Len(s) /\ \A i \in 1..Len(s) : s[i] \in X
  OBVIOUS
<1>2. PICK n : n = Len(s)
  OBVIOUS
<1>3. PICK b : b = SubSeq(s, k + 1, n)
  OBVIOUS
<1>4. n \in Nat /\ k \in 1..n /\ k + 1 \in Int /\ n \in Int
      /\ \A i \in (k + 1)..n : s[i] \in X
  BY <1>1, <1>2
<1>5. /\ b \in Seq(X) /\ Len(b) = IF k + 1 <= n THEN n - (k + 1) + 1 ELSE 0
      /\ \A i \in 1..(n - (k + 1) + 1) : b[i] = s[(k + 1) + i - 1]
  BY <1>3, <1>4, SubSeqProperties
<1>6. PICK l : l = Len(b)
  OBVIOUS
<1>7. l = IF k + 1 <= n THEN n - (k + 1) + 1 ELSE 0
  BY <1>5, <1>6
<1>8. l = n - k
  BY ONLY <1>4, <1>7
<1>9. ASSUME NEW i \in 1..(n - k) PROVE b[i] = s[i + k]
  <2>1. i \in 1..(n - (k + 1) + 1) /\ (k + 1) + i - 1 = i + k
    BY <1>4
  <2> QED
    BY <1>5, <2>1
<1> QED
  BY <1>2, <1>3, <1>5, <1>6, <1>8, <1>9

\* A sequence that is cut.
CutAt(s, k, a, b) == a = [i \in 1..k |-> s[i]] /\ b = SubSeq(s, k + 1, Len(s))
LEMMA CutElements ==
  ASSUME NEW s \in Seq(Event), NEW k \in 1..Len(s), Growing(s),
         NEW a, NEW b, CutAt(s, k, a, b)
  PROVE  /\ a \in Seq(Event) /\ b \in Seq(Event)
         /\ Elements(s) = Elements(a) \cup Elements(b)
         /\ Growing(a) /\ Growing(b) /\ Before(Elements(a), Elements(b))
<1>0. a = [i \in 1..k |-> s[i]] /\ b = SubSeq(s, k + 1, Len(s))
  BY DEF CutAt
<1>1. Len(s) \in Nat /\ DOMAIN s = 1..Len(s) /\ \A i \in 1..Len(s) : s[i] \in Event
  OBVIOUS
<1>2. a \in Seq(Event) /\ DOMAIN a = 1..k /\ \A i \in 1..k : a[i] = s[i]
  <2>1. k \in Nat /\ \A i \in 1..k : i \in 1..Len(s)
    BY <1>1
  <2>2. \A i \in 1..k : s[i] \in Event
    BY <1>1, <2>1
  <2>3. a \in [1..k -> Event] /\ DOMAIN a = 1..k /\ \A i \in 1..k : a[i] = s[i]
    BY <1>0, <2>2
  <2>4. a \in Seq(Event)
    BY <2>1, <2>3
  <2> QED
    BY <2>3, <2>4
<1>3. /\ b \in Seq(Event) /\ DOMAIN b = 1..(Len(s) - k)
      /\ \A i \in 1..(Len(s) - k) : b[i] = s[i + k]
  <2>1. /\ b \in Seq(Event) /\ Len(b) = Len(s) - k
        /\ \A i \in 1..(Len(s) - k) : b[i] = s[i + k]
    BY <1>0, CutProperties
  <2>2. DOMAIN b = 1..Len(b)
    BY <2>1
  <2> QED
    BY <2>1, <2>2
<1>4. \A i \in 1..Len(s) : i \in 1..k \/ (i - k \in 1..(Len(s) - k) /\ (i - k) + k = i)
  BY <1>1
<1>5. \A i \in 1..k : i \in 1..Len(s)
  BY <1>1
<1>6. \A i \in 1..(Len(s) - k) : i + k \in 1..Len(s)
  BY <1>1
<1>7. Elements(s) = Elements(a) \cup Elements(b)
  <2>1. ASSUME NEW i \in 1..Len(s) PROVE s[i] \in Elements(a) \cup Elements(b)
    <3>1. CASE i \in 1..k
      BY <1>2, <3>1 DEF Elements
    <3>2. CASE i - k \in 1..(Len(s) - k) /\ (i - k) + k = i
      <4>1. b[i - k] = s[i]
        BY <1>3, <3>2
      <4> QED
        BY <1>3, <3>2, <4>1 DEF Elements
    <3> QED
      BY <1>4, <3>1, <3>2
  <2>2. Elements(a) \subseteq Elements(s)
    BY <1>1, <1>2, <1>5 DEF Elements
  <2>3. Elements(b) \subseteq Elements(s)
    BY <1>1, <1>3, <1>6 DEF Elements
  <2> QED
    BY <1>1, <2>1, <2>2, <2>3 DEF Elements
<1>8. Growing(a)
  BY <1>1, <1>2, <1>5 DEF Growing
<1>9. Growing(b)
  <2>1. ASSUME NEW i \in 1..(Len(s) - k), NEW j \in 1..(Len(s) - k), i < j
        PROVE  b[i] < b[j]
    <3>1. i + k < j + k /\ i + k \in 1..Len(s) /\ j + k \in 1..Len(s)
      BY <1>1, <1>6, <2>1
    <3> QED
      BY <1>1, <1>3, <3>1 DEF Growing
  <2> QED
    BY <1>3, <2>1 DEF Growing
<1>10. Before(Elements(a), Elements(b))
  <2>1. ASSUME NEW i \in 1..k, NEW j \in 1..(Len(s) - k)
        PROVE  a[i] < b[j]
    <3>1. i < j + k /\ i \in 1..Len(s) /\ j + k \in 1..Len(s)
      BY <1>1, <1>5, <1>6
    <3>2. s[i] < s[j + k]
      BY <1>1, <3>1 DEF Growing
    <3> QED
      BY <1>2, <1>3, <3>2
  <2>2. ASSUME NEW x \in Elements(a), NEW y \in Elements(b) PROVE x < y
    <3>1. PICK i \in 1..k : x = a[i]
      BY <1>2 DEF Elements
    <3>2. PICK j \in 1..(Len(s) - k) : y = b[j]
      BY <1>3 DEF Elements
    <3> QED
      BY <2>1, <3>1, <3>2
  <2> QED
    BY <2>2 DEF Before
<1> QED
  BY <1>2, <1>3, <1>7, <1>8, <1>9, <1>10

\* As many events as positions.
LEMMA GrowingCount ==
  ASSUME NEW s \in Seq(Event), Growing(s)
  PROVE  IsFiniteSet(Elements(s)) /\ Cardinality(Elements(s)) = Len(s)
<1>1. Len(s) \in Nat /\ DOMAIN s = 1..Len(s) /\ \A i \in 1..Len(s) : s[i] \in Nat
  BY DEF Event
<1>2. s \in Bijection(1..Len(s), Elements(s))
  <2>1. \A i, j \in 1..Len(s) : s[i] = s[j] => i = j
    <3>1. \A i, j \in 1..Len(s) : i < j \/ j < i \/ i = j
      BY <1>1
    <3>2. \A i, j \in 1..Len(s) : i < j => s[i] # s[j]
      BY <1>1 DEF Growing
    <3> QED
      BY <3>1, <3>2
  <2>2. s \in [1..Len(s) -> Elements(s)]
    <3>1. s = [i \in 1..Len(s) |-> s[i]]
      BY <1>1
    <3>2. \A i \in 1..Len(s) : s[i] \in Elements(s)
      BY <1>1 DEF Elements
    <3> QED
      BY <3>1, <3>2
  <2>3. \A x \in Elements(s) : \E i \in 1..Len(s) : s[i] = x
    BY <1>1 DEF Elements
  <2> QED
    BY <2>1, <2>2, <2>3, Fun_IsBij
<1>3. IsFiniteSet(1..Len(s)) /\ Cardinality(1..Len(s)) = Len(s)
  <2>1. 1 \in Int /\ Len(s) \in Int
    BY <1>1
  <2>2. /\ IsFiniteSet(1..Len(s))
        /\ Cardinality(1..Len(s)) = IF 1 > Len(s) THEN 0 ELSE Len(s) - 1 + 1
    BY <2>1, FS_Interval
  <2> QED
    BY <1>1, <2>2
<1>4. ExistsBijection(1..Len(s), Elements(s))
  BY <1>2 DEF ExistsBijection
<1>5. /\ IsFiniteSet(Elements(s))
      /\ Cardinality(Elements(s)) = Cardinality(1..Len(s))
  BY <1>3, <1>4, FS_Bijection
<1> QED
  BY <1>3, <1>5

-----------------------------------------------------------------------------
\* What the steps do to the order.
LEMMA OrderTakes ==
  ASSUME NEW d, NEW q, NEW b, Ordered(d, q, <<>>, b)
  PROVE  Ordered(d, q, b, <<>>)
  BY NoElements DEF Ordered, Before

LEMMA OrderLoses ==
  ASSUME NEW d, NEW q, NEW f, NEW b, Ordered(d, q, f, b)
  PROVE  Ordered(d, q, <<>>, b) /\ Ordered(d, <<>>, f, b)
  BY NoElements DEF Ordered, Before

LEMMA OrderPushes ==
  ASSUME NEW d, NEW q \in Seq(Event), NEW f \in Seq(Event), NEW b,
         Ordered(d, q, f, b)
  PROVE  Ordered(d, q \o f, <<>>, b)
<1>1. Growing(q \o f)
  BY ConcatGrows DEF Ordered
<1>2. Elements(q \o f) = Elements(q) \cup Elements(f)
  BY ConcatElements
<1> DEFINE u == q \o f
<1> HIDE DEF u
<1>3. Growing(u) /\ Elements(u) = Elements(q) \cup Elements(f)
  BY <1>1, <1>2 DEF u
<1>4. Ordered(d, u, <<>>, b)
  BY <1>3, NoElements DEF Ordered, Before
<1> QED
  BY <1>4 DEF u

LEMMA OrderDelivers ==
  ASSUME NEW d \in Seq(Event), NEW q, NEW f, NEW b,
         NEW h \in Seq(Event), NEW r,
         Ordered(d, q, f, b),
         Elements(q) = Elements(h) \cup Elements(r),
         Growing(h), Growing(r), Before(Elements(h), Elements(r))
  PROVE  Ordered(d \o h, r, f, b)
<1>1. Before(Elements(d), Elements(h))
  BY DEF Ordered, Before
<1>2. Growing(d \o h)
  BY <1>1, ConcatGrows DEF Ordered
<1>3. Elements(d \o h) = Elements(d) \cup Elements(h)
  BY ConcatElements
<1> DEFINE u == d \o h
<1> HIDE DEF u
<1>4. Growing(u) /\ Elements(u) = Elements(d) \cup Elements(h)
  BY <1>2, <1>3 DEF u
<1>5. Ordered(u, r, f, b)
  BY <1>4 DEF Ordered, Before
<1> QED
  BY <1>5 DEF u

LEMMA AppendGrows ==
  ASSUME NEW s \in Seq(Event), NEW n \in Event, Growing(s),
         \A x \in Elements(s) : x < n
  PROVE  /\ Growing(Append(s, n))
         /\ Elements(Append(s, n)) = Elements(s) \cup {n}
<1> DEFINE u == Append(s, n)
<1>1. /\ DOMAIN s = 1..Len(s) /\ Len(s) \in Nat
      /\ DOMAIN u = 1..(Len(s) + 1)
      /\ \A i \in 1..Len(s) : u[i] = s[i]
      /\ u[Len(s) + 1] = n
  OBVIOUS
<1> HIDE DEF u
<1>2. PICK l : l = Len(s)
  OBVIOUS
<1>3. l \in Nat /\ DOMAIN s = 1..l /\ DOMAIN u = 1..(l + 1) /\ u[l + 1] = n
      /\ \A i \in 1..l : u[i] = s[i]
  BY <1>1, <1>2
<1>4. l + 1 \in 1..(l + 1) /\ \A i \in 1..(l + 1) : i \in 1..l \/ i = l + 1
  BY <1>3
<1>5. Elements(u) = Elements(s) \cup {n}
  <2>1. ASSUME NEW x \in Elements(u) PROVE x \in Elements(s) \cup {n}
    BY <1>3, <1>4 DEF Elements
  <2>2. ASSUME NEW x \in Elements(s) PROVE x \in Elements(u)
    <3>1. PICK i \in 1..l : x = s[i]
      BY <1>3 DEF Elements
    <3>2. i \in 1..(l + 1) /\ x = u[i]
      BY <1>3, <3>1
    <3> QED
      BY <1>3, <3>2 DEF Elements
  <2>3. n \in Elements(u)
    BY <1>3, <1>4 DEF Elements
  <2> QED
    BY <2>1, <2>2, <2>3
<1>6. ASSUME NEW i \in 1..(l + 1), NEW j \in 1..(l + 1), i < j PROVE u[i] < u[j]
  <2>1. i \in 1..l
    BY <1>3, <1>6
  <2>2. u[i] = s[i]
    BY <1>3, <2>1
  <2>3. CASE j \in 1..l
    BY <1>3, <1>6, <2>1, <2>2, <2>3 DEF Growing
  <2>4. CASE j = l + 1
    <3>1. s[i] \in Elements(s)
      BY <1>3, <2>1 DEF Elements
    <3> QED
      BY <1>3, <2>2, <2>4, <3>1
  <2> QED
    BY <1>4, <2>3, <2>4
<1>7. Growing(u)
  BY <1>3, <1>6 DEF Growing
<1> QED
  BY <1>5, <1>7 DEF u

LEMMA OrderAppends ==
  ASSUME NEW d, NEW q, NEW f, NEW b \in Seq(Event), NEW n \in Event,
         Ordered(d, q, f, b),
         \A x \in Elements(d) \cup Elements(q) \cup Elements(f) \cup Elements(b) : x < n
  PROVE  Ordered(d, q, f, Append(b, n))
<1>1. Growing(Append(b, n)) /\ Elements(Append(b, n)) = Elements(b) \cup {n}
  BY AppendGrows DEF Ordered
<1> DEFINE u == Append(b, n)
<1> HIDE DEF u
<1>2. Growing(u) /\ Elements(u) = Elements(b) \cup {n}
  BY <1>1 DEF u
<1>3. Ordered(d, q, f, u)
  BY <1>2 DEF Ordered, Before
<1> QED
  BY <1>3 DEF u

-----------------------------------------------------------------------------
LEMMA NumbersType ==
  ASSUME IInv
  PROVE  /\ Numbers \in Seq(Event)
         /\ Elements(Numbers) = {queue[i].n : i \in DOMAIN queue}
         /\ DOMAIN Numbers = DOMAIN queue
<1>1. queue \in Seq(Queued)
  BY DEF IInv, TypeOK
<1>2. DOMAIN queue = 1..Len(queue) /\ Len(queue) \in Nat
      /\ \A i \in 1..Len(queue) : queue[i] \in Queued
  BY <1>1
<1>3. \A i \in 1..Len(queue) : queue[i].n \in Event
  BY <1>2 DEF Queued
<1>4. Numbers = [i \in 1..Len(queue) |-> queue[i].n]
  BY <1>2 DEF Numbers
<1>5. Numbers \in Seq(Event)
  BY <1>2, <1>3, <1>4
<1>6. DOMAIN Numbers = DOMAIN queue
  BY DEF Numbers
<1>7. Elements(Numbers) = {queue[i].n : i \in DOMAIN queue}
  BY DEF Elements, Numbers
<1> QED
  BY <1>5, <1>6, <1>7

\* The four sequences hold numbers, and what is ordered is apart.
LEMMA Apart ==
  ASSUME IInv, OInv
  PROVE  /\ Elements(flushing) \cap (Elements(batch) \cup Elements(Numbers)
                                       \cup Elements(delivered)) = {}
         /\ Elements(Numbers) \cap OnTheirWay = {}
         /\ \A x \in Whereabouts \cup dropped \cup lost : x \in 1..emitted
<1>1. \A x \in Whereabouts \cup dropped \cup lost : x \in 1..emitted
  BY DEF OInv
<1>2. \A x \in Whereabouts : x \in Int
  BY <1>1
<1>3. Ordered(delivered, Numbers, flushing, batch)
  BY DEF OInv, Chain
<1>4. \A x \in Int : ~(x < x)
  OBVIOUS
<1> QED
  BY <1>1, <1>2, <1>3, <1>4 DEF Ordered, Before, Whereabouts, OnTheirWay

LEMMA InitOInv == Init => OInv
<1> SUFFICES ASSUME Init PROVE OInv
  OBVIOUS
<1>1. batch = <<>> /\ flushing = <<>> /\ delivered = <<>> /\ queue = <<>>
      /\ dropped = {} /\ lost = {} /\ drops = 0 /\ emitted = 0
  BY DEF Init
<1>2. Numbers = <<>>
  BY <1>1 DEF Numbers
<1>3. Chain
  BY <1>1, <1>2, NoElements DEF Chain, Ordered, Before
<1>4. Whereabouts = {} /\ OnTheirWay = {}
  BY <1>1, <1>2, NoElements DEF Whereabouts, OnTheirWay
<1>5. 1..emitted = {}
  BY <1>1
<1>6. Cardinality(dropped) = drops
  BY <1>1, FS_EmptySet
<1> QED
  BY <1>1, <1>3, <1>4, <1>5, <1>6 DEF OInv

\* Nothing moves.
LEMMA OrderRests ==
  ASSUME OInv, UNCHANGED <<batch, flushing, queue, delivered, emitted, drops, dropped,
                           lost>>
  PROVE  OInv'
<1>1. Numbers' = Numbers
  BY DEF Numbers
<1>2. Chain' /\ Whereabouts' = Whereabouts /\ OnTheirWay' = OnTheirWay
  BY <1>1 DEF OInv, Chain, Whereabouts, OnTheirWay
<1> QED
  BY <1>2 DEF OInv

LEMMA EmitOrder == IInv /\ OInv /\ Emit => OInv'
<1> SUFFICES ASSUME IInv, OInv, Emit PROVE OInv'
  OBVIOUS
<1>1. PICK n : n = emitted + 1
  OBVIOUS
<1>2. /\ batch \in Seq(Event) /\ n \in Event /\ emitted \in Nat /\ emitted' = n
      /\ flushing = <<>> /\ n \in Int
  BY <1>1, Constants DEF IInv, TypeOK, Emit, Event, Flushing
<1>3. \A x \in Whereabouts \cup dropped \cup lost : x < n /\ x # n
  BY <1>1, <1>2, Apart
<1>4. UNCHANGED <<queue, delivered, drops, dropped, lost>>
  BY DEF Emit, jsVars
<1>5. Numbers' = Numbers
  BY <1>4 DEF Numbers
<1>6. PICK events : events = Append(batch, n)
  OBVIOUS
<1>7. \/ batch' = <<>> /\ flushing' = events
      \/ batch' = events /\ flushing' = <<>>
  BY <1>1, <1>2, <1>6 DEF Emit, StartFlush
<1>8. Ordered(delivered, Numbers, <<>>, batch)
  BY <1>2 DEF OInv, Chain
<1>9. Elements(events) = Elements(batch) \cup {n}
  <2>1. \A x \in Elements(batch) : x < n
    BY <1>3 DEF Whereabouts, OnTheirWay
  <2> QED
    BY <1>2, <1>6, <1>8, <2>1, AppendGrows DEF Ordered
<1>10. Ordered(delivered, Numbers, <<>>, events)
  <2>1. \A x \in Elements(delivered) \cup Elements(Numbers) \cup Elements(<<>>)
                   \cup Elements(batch) : x < n
    BY <1>3, NoElements DEF Whereabouts, OnTheirWay
  <2> QED
    BY <1>2, <1>6, <1>8, <2>1, OrderAppends
<1>11. Chain'
  <2>1. Ordered(delivered, Numbers, events, <<>>)
    BY <1>10, OrderTakes
  <2>2. CASE batch' = <<>> /\ flushing' = events
    BY <1>4, <1>5, <2>1, <2>2 DEF Chain
  <2>3. CASE batch' = events /\ flushing' = <<>>
    BY <1>4, <1>5, <1>10, <2>3 DEF Chain
  <2> QED
    BY <1>7, <2>2, <2>3
<1>12. OnTheirWay = Elements(batch)
  BY <1>2, NoElements DEF OnTheirWay
<1>13. OnTheirWay' = OnTheirWay \cup {n}
  <2>1. CASE batch' = <<>> /\ flushing' = events
    BY <1>9, <1>12, <2>1, NoElements DEF OnTheirWay
  <2>2. CASE batch' = events /\ flushing' = <<>>
    BY <1>9, <1>12, <2>2, NoElements DEF OnTheirWay
  <2> QED
    BY <1>7, <2>1, <2>2
<1>14. Whereabouts' = Whereabouts \cup {n}
  BY <1>4, <1>5, <1>13 DEF Whereabouts
<1>15. 1..emitted' = (1..emitted) \cup {n}
  BY <1>1, <1>2
<1> QED
  BY <1>3, <1>4, <1>11, <1>13, <1>14, <1>15 DEF OInv

LEMMA EndPhaseOrder == IInv /\ OInv /\ EndPhase => OInv'
<1> SUFFICES ASSUME IInv, OInv, EndPhase PROVE OInv'
  OBVIOUS
<1>1. CASE NothingToFlush
  BY <1>1, OrderRests DEF EndPhase, jsVars
<1>2. CASE ~NothingToFlush
  <2>1. flushing = <<>> /\ flushing' = batch /\ batch' = <<>>
        /\ UNCHANGED <<queue, delivered, emitted, drops, dropped, lost>>
    BY <1>2 DEF EndPhase, StartFlush, jsVars, IInv, Flushing
  <2>2. Numbers' = Numbers
    BY <2>1 DEF Numbers
  <2>3. Ordered(delivered, Numbers, batch, <<>>)
    BY <2>1, OrderTakes DEF OInv, Chain
  <2>4. Chain'
    BY <2>1, <2>2, <2>3 DEF Chain
  <2>5. OnTheirWay' = OnTheirWay /\ Whereabouts' = Whereabouts
    BY <2>1, <2>2, NoElements DEF OnTheirWay, Whereabouts
  <2> QED
    BY <2>1, <2>4, <2>5 DEF OInv
<1> QED
  BY <1>1, <1>2

\* The batch that is dropped held as many events as are counted.
LEMMA DropOrder ==
  ASSUME IInv, OInv, Drop, UNCHANGED <<batch, queue, delivered, emitted, lost>>
  PROVE  OInv'
<1>1. PICK F : F = Elements(flushing)
  OBVIOUS
<1>2. /\ flushing' = <<>> /\ dropped' = dropped \cup F /\ drops' = drops + Len(flushing)
      /\ flushing \in Seq(Event) /\ drops \in Nat
  BY <1>1 DEF Drop, EventCount, IInv, TypeOK
<1>3. Numbers' = Numbers
  BY DEF Numbers
<1>4. Chain'
  BY <1>2, <1>3, OrderLoses DEF OInv, Chain
<1>5. /\ F \cap (Elements(batch) \cup Elements(Numbers) \cup Elements(delivered)) = {}
      /\ \A x \in dropped \cup F : x \in 1..emitted
  BY <1>1, Apart DEF Whereabouts, OnTheirWay
<1>6. /\ OnTheirWay = Elements(batch) \cup F /\ OnTheirWay' = Elements(batch)
      /\ Whereabouts' = Elements(batch) \cup Elements(Numbers) \cup Elements(delivered)
      /\ Whereabouts = Whereabouts' \cup F
  BY <1>1, <1>2, <1>3, NoElements DEF OnTheirWay, Whereabouts
<1>7. Cardinality(dropped') = drops'
  <2>1. IsFiniteSet(F) /\ Cardinality(F) = Len(flushing)
    BY <1>1, <1>2, GrowingCount DEF OInv, Chain, Ordered
  <2>2. IsFiniteSet(dropped)
    <3>1. 1 \in Int /\ emitted \in Int
      BY DEF IInv, TypeOK
    <3>2. IsFiniteSet(1..emitted)
      BY <3>1, FS_Interval
    <3>3. dropped \subseteq 1..emitted
      BY <1>5
    <3> QED
      BY <3>2, <3>3, FS_Subset
  <2>3. dropped \cap F = {}
    BY <1>6 DEF OInv
  <2>4. Cardinality(dropped \cup F)
          = Cardinality(dropped) + Cardinality(F) - Cardinality(dropped \cap F)
    BY <2>1, <2>2, FS_Union
  <2>5. Cardinality(dropped \cap F) = 0
    BY <2>3, FS_EmptySet
  <2>6. Cardinality(dropped) = drops
    BY DEF OInv
  <2>7. Len(flushing) \in Nat
    BY <1>2
  <2> QED
    BY <1>2, <2>1, <2>4, <2>5, <2>6, <2>7
<1> QED
  BY <1>2, <1>4, <1>5, <1>6, <1>7 DEF OInv

LEMMA LoadOrder == IInv /\ OInv /\ Load => OInv'
<1> SUFFICES ASSUME IInv, OInv, Load PROVE OInv'
  OBVIOUS
<1>1. CASE Fits(inflight)
  BY <1>1, OrderRests DEF Load, jsVars
<1>2. CASE ~Fits(inflight)
  BY <1>2, DropOrder DEF Load, Refuse, jsVars
<1> QED
  BY <1>1, <1>2

LEMMA SwapOrder == IInv /\ OInv /\ Swap => OInv'
<1> SUFFICES ASSUME IInv, OInv, Swap PROVE OInv'
  OBVIOUS
<1>1. CASE SwapSucceeds \/ Fits(inflight)
  BY <1>1, OrderRests DEF Swap, jsVars
<1>2. CASE ~SwapSucceeds /\ ~Fits(inflight)
  BY <1>2, DropOrder DEF Swap, Refuse, jsVars
<1> QED
  BY <1>1, <1>2

LEMMA CallOrder == IInv /\ OInv /\ Call => OInv'
<1> SUFFICES ASSUME IInv, OInv, Call PROVE OInv'
  OBVIOUS
<1>1. PICK F : F = Elements(flushing)
  OBVIOUS
<1>2. flushing \in Seq(Event) /\ flushing' = <<>> /\ Numbers \in Seq(Event)
      /\ queue \in Seq(Queued)
      /\ UNCHANGED <<batch, delivered, emitted>>
  BY NumbersType DEF Call, Drop, jsVars, IInv, TypeOK
<1>3. CASE closing
  <2>1. lost' = lost \cup F /\ UNCHANGED <<queue, drops, dropped>>
    BY <1>1, <1>3 DEF Call
  <2>2. Numbers' = Numbers
    BY <2>1 DEF Numbers
  <2>3. Chain'
    BY <1>2, <2>2, OrderLoses DEF OInv, Chain
  <2>4. F \cap Elements(batch) = {}
    BY <1>1, Apart
  <2>5. /\ OnTheirWay = Elements(batch) \cup F /\ OnTheirWay' = Elements(batch)
        /\ Whereabouts = Whereabouts' \cup F
    BY <1>1, <1>2, <2>2, NoElements DEF OnTheirWay, Whereabouts
  <2> QED
    BY <1>2, <2>1, <2>3, <2>4, <2>5 DEF OInv
<1>4. CASE ~closing
  <2>1. Cardinality(Calls) < TsfnCapacity /\ Cardinality(Calls) \in Nat
    <3>1. pc = "call"
      BY DEF Call
    <3> QED
      BY <1>4, <3>1, RoomForCall, CallsBound DEF NeverQueueFull
  <2>2. queue' = queue \o Marked(flushing) /\ UNCHANGED <<drops, dropped, lost>>
    BY <1>4, <2>1, Constants DEF Call
  <2>3. Numbers' = Numbers \o flushing
    <3>1. PICK m : m = Marked(flushing)
      OBVIOUS
    <3>2. m \in Seq(Queued) /\ Len(m) = Len(flushing)
      BY <1>2, <3>1, MarkedType
    <3>3. \A i \in 1..Len(flushing) : m[i].n = flushing[i]
      BY <1>2, <3>1 DEF Marked
    <3>4. /\ queue' \in Seq(Queued) /\ Len(queue') = Len(queue) + Len(m)
          /\ \A i \in 1..Len(queue') :
               queue'[i] = IF i <= Len(queue) THEN queue[i] ELSE m[i - Len(queue)]
      <4>1. queue \in Seq(Queued) /\ m \in Seq(Queued) /\ queue' = queue \o m
        BY <1>2, <2>2, <3>1, <3>2
      <4>2. /\ queue \o m \in Seq(Queued) /\ Len(queue \o m) = Len(queue) + Len(m)
            /\ \A i \in 1..Len(queue \o m) :
                 (queue \o m)[i] = IF i <= Len(queue) THEN queue[i] ELSE m[i - Len(queue)]
        BY <4>1, ConcatProperties
      <4> QED
        BY <4>1, <4>2, Zenon
    <3>5. PICK u : u = Numbers \o flushing
      OBVIOUS
    <3>6. /\ u \in Seq(Event) /\ Len(u) = Len(Numbers) + Len(flushing)
          /\ \A i \in 1..Len(u) :
               u[i] = IF i <= Len(Numbers) THEN Numbers[i] ELSE flushing[i - Len(Numbers)]
      BY <1>2, <3>5, ConcatProperties
    <3>7. Len(Numbers) = Len(queue) /\ \A i \in 1..Len(queue) : Numbers[i] = queue[i].n
      <4>1. DOMAIN Numbers = 1..Len(queue) /\ DOMAIN Numbers = 1..Len(Numbers)
            /\ Len(queue) \in Nat /\ Len(Numbers) \in Nat
        BY <1>2, NumbersType
      <4>2. PICK x, y : x = Len(queue) /\ y = Len(Numbers)
        OBVIOUS
      <4>3. x \in Nat /\ y \in Nat /\ 1..x = 1..y
        BY <4>1, <4>2
      <4>4. ~(x < y)
        <5>1. x < y => y \in 1..y /\ y \notin 1..x
          BY <4>3
        <5> QED
          BY <4>3, <5>1
      <4>5. ~(y < x)
        <5>1. y < x => x \in 1..x /\ x \notin 1..y
          BY <4>3
        <5> QED
          BY <4>3, <5>1
      <4>6. x = y
        BY <4>3, <4>4, <4>5
      <4>7. Len(Numbers) = Len(queue)
        BY <4>2, <4>6, Zenon
      <4>8. \A i \in 1..Len(queue) : Numbers[i] = queue[i].n
        <5>1. Numbers = [i \in DOMAIN queue |-> queue[i].n] /\ DOMAIN queue = 1..Len(queue)
          BY <1>2 DEF Numbers
        <5> QED
          BY <5>1
      <4> QED
        BY <4>7, <4>8
    <3>8. PICK lq, lf : lq = Len(queue) /\ lf = Len(flushing)
      OBVIOUS
    <3>9. lq \in Nat /\ lf \in Nat
      BY <1>2, <3>8
    <3>10. DOMAIN queue' = 1..(lq + lf) /\ DOMAIN u = 1..(lq + lf)
      BY <3>2, <3>4, <3>6, <3>7, <3>8, <3>9
    <3>11. ASSUME NEW i \in 1..(lq + lf) PROVE queue'[i].n = u[i]
      <4>1. CASE i <= lq
        <5>1. i \in 1..lq
          BY <3>9, <4>1
        <5>2. i \in DOMAIN queue' /\ i \in DOMAIN u
          BY <3>10
        <5>3. queue'[i] = queue[i]
          BY <3>2, <3>4, <3>8, <3>9, <4>1, <5>2
        <5>4. u[i] = Numbers[i]
          BY <3>6, <3>7, <3>8, <3>9, <4>1, <5>2
        <5>5. Numbers[i] = queue[i].n
          BY <3>7, <3>8, <5>1
        <5> QED
          BY <5>3, <5>4, <5>5
      <4>2. CASE ~(i <= lq)
        <5>1. i - lq \in 1..lf
          BY <3>9, <4>2
        <5>2. queue'[i] = m[i - lq] /\ u[i] = flushing[i - lq]
          <6>1. i \in DOMAIN queue' /\ i \in DOMAIN u
            BY <3>10
          <6>2. queue'[i] = m[i - lq]
            BY <3>2, <3>4, <3>8, <3>9, <4>2, <6>1
          <6>3. u[i] = flushing[i - lq]
            BY <3>6, <3>7, <3>8, <3>9, <4>2, <6>1
          <6> QED
            BY <6>2, <6>3
        <5> QED
          BY <3>3, <3>8, <5>1, <5>2
      <4> QED
        BY <4>1, <4>2
    <3>12. u = [i \in 1..(lq + lf) |-> u[i]]
      <4>1. u = [i \in 1..Len(u) |-> u[i]] /\ DOMAIN u = 1..Len(u)
        BY <3>6
      <4> QED
        BY <3>10, <4>1
    <3>13. Numbers' = [i \in 1..(lq + lf) |-> queue'[i].n]
      BY <3>10 DEF Numbers
    <3> QED
      BY <3>5, <3>11, <3>12, <3>13
  <2>4. Chain'
    BY <1>2, <2>3, OrderPushes DEF OInv, Chain
  <2>5. Elements(Numbers') = Elements(Numbers) \cup F
    BY <1>1, <1>2, <2>3, ConcatElements
  <2>6. /\ OnTheirWay = Elements(batch) \cup F /\ OnTheirWay' = Elements(batch)
        /\ Whereabouts = Whereabouts'
    <3>1. Elements(Numbers)' = Elements(Numbers')
      BY DEF Elements
    <3> QED
      BY <1>1, <1>2, <2>5, <3>1, NoElements DEF OnTheirWay, Whereabouts
  <2> QED
    BY <1>2, <2>2, <2>4, <2>6 DEF OInv
<1> QED
  BY <1>3, <1>4

-----------------------------------------------------------------------------
\* The callback gets the head of the queue, and the rest is what waits.
LEMMA DispatchOrder == IInv /\ OInv /\ Dispatch => OInv'
<1> SUFFICES ASSUME IInv, OInv, Dispatch PROVE OInv'
  OBVIOUS
<1>1. /\ queue \in Seq(Queued) /\ delivered \in Seq(Event) /\ Numbers \in Seq(Event)
      /\ DOMAIN Numbers = DOMAIN queue
      /\ UNCHANGED <<batch, flushing, emitted, drops, dropped, lost>>
  BY NumbersType DEF Dispatch, workerVars, IInv, TypeOK
<1>2. PICK k \in Calls : /\ handling' = [i \in 1..k |-> queue[i].n]
                         /\ queue' = SubSeq(queue, k + 1, Len(queue))
  BY DEF Dispatch
<1>3. DOMAIN queue = 1..Len(queue) /\ DOMAIN Numbers = 1..Len(Numbers)
      /\ Len(queue) \in Nat /\ Len(Numbers) \in Nat
  BY <1>1
<1>4. PICK l : l = Len(queue)
  OBVIOUS
<1>5. l \in Nat /\ k \in 1..l /\ Len(Numbers) = l
  <2>1. k \in DOMAIN queue
    BY DEF Calls
  <2>2. PICK y : y = Len(Numbers)
    OBVIOUS
  <2>3. y = l
    BY <1>1, <1>3, <1>4, <2>2
  <2> QED
    BY <1>3, <1>4, <2>1, <2>2, <2>3
<1>6. PICK h : h = [i \in 1..k |-> Numbers[i]]
  OBVIOUS
<1>7. PICK r : r = SubSeq(Numbers, k + 1, Len(Numbers))
  OBVIOUS
<1>8. /\ h \in Seq(Event) /\ r \in Seq(Event)
      /\ Elements(Numbers) = Elements(h) \cup Elements(r)
      /\ Growing(h) /\ Growing(r) /\ Before(Elements(h), Elements(r))
  <2>1. Growing(Numbers)
    BY DEF OInv, Chain, Ordered
  <2>2. k \in 1..Len(Numbers)
    BY <1>5
  <2> QED
    <3>1. PICK s : s = Numbers
      OBVIOUS
    <3>2. s \in Seq(Event) /\ k \in 1..Len(s) /\ Growing(s)
          /\ CutAt(s, k, h, r)
      BY <1>1, <1>6, <1>7, <2>1, <2>2, <3>1 DEF CutAt
    <3>3. /\ h \in Seq(Event) /\ r \in Seq(Event)
          /\ Elements(s) = Elements(h) \cup Elements(r)
          /\ Growing(h) /\ Growing(r) /\ Before(Elements(h), Elements(r))
      BY <3>2, CutElements
    <3> QED
      BY <3>1, <3>3
<1>9. handling' = h
  <2>1. \A i \in 1..k : Numbers[i] = queue[i].n
    BY <1>3, <1>4, <1>5 DEF Numbers
  <2> QED
    BY <1>2, <1>6, <2>1
<1>10. Numbers' = r
  <2>1. /\ Len(queue') = l - k /\ queue' \in Seq(Queued)
        /\ \A i \in 1..(l - k) : queue'[i] = queue[i + k]
    BY <1>1, <1>2, <1>4, <1>5, CutProperties
  <2>2. /\ Len(r) = l - k
        /\ \A i \in 1..(l - k) : r[i] = Numbers[i + k]
    BY <1>1, <1>5, <1>7, CutProperties
  <2>3. DOMAIN queue' = 1..(l - k)
    BY <2>1
  <2>4. r = [i \in 1..(l - k) |-> r[i]]
    <3>1. r = [i \in 1..Len(r) |-> r[i]]
      BY <1>8
    <3> QED
      BY <2>2, <3>1
  <2>5. \A i \in 1..(l - k) : i + k \in 1..l
    BY <1>5
  <2>6. \A i \in 1..(l - k) : queue'[i].n = r[i]
    BY <1>3, <1>4, <2>1, <2>2, <2>5 DEF Numbers
  <2>7. Numbers' = [i \in 1..(l - k) |-> queue'[i].n]
    BY <2>3 DEF Numbers
  <2> QED
    BY <2>4, <2>6, <2>7
<1>11. delivered' = delivered \o h
  BY <1>9 DEF Dispatch
<1>12. Chain'
  <2>1. Ordered(delivered \o h, r, flushing, batch)
    BY <1>1, <1>8, OrderDelivers DEF OInv, Chain
  <2> QED
    BY <1>1, <1>10, <1>11, <2>1 DEF Chain
<1>13. Elements(delivered') = Elements(delivered) \cup Elements(h)
  BY <1>1, <1>8, <1>11, ConcatElements
<1>14. OnTheirWay' = OnTheirWay /\ Whereabouts' = Whereabouts
  <2>1. Elements(delivered)' = Elements(delivered') /\ Elements(Numbers)' = Elements(r)
        /\ Elements(batch)' = Elements(batch) /\ Elements(flushing)' = Elements(flushing)
    BY <1>1, <1>10 DEF Elements
  <2> QED
    BY <1>8, <1>13, <2>1 DEF OnTheirWay, Whereabouts
<1> QED
  BY <1>1, <1>12, <1>14 DEF OInv

LEMMA TearDownOrder == IInv /\ OInv /\ TearDown => OInv'
<1> SUFFICES ASSUME IInv, OInv, TearDown PROVE OInv'
  OBVIOUS
<1>1. /\ queue' = <<>> /\ lost' = lost \cup Elements(Numbers)
      /\ UNCHANGED <<batch, flushing, delivered, emitted, drops, dropped>>
  BY NumbersType DEF TearDown, workerVars
<1>2. Numbers' = <<>>
  BY <1>1 DEF Numbers
<1>3. Chain'
  BY <1>1, <1>2, OrderLoses DEF OInv, Chain
<1>4. Elements(Numbers)' = {}
  <2>1. Elements(Numbers)' = Elements(Numbers')
    BY DEF Elements
  <2> QED
    BY <1>2, <2>1, NoElements
<1>5. /\ OnTheirWay' = OnTheirWay
      /\ Whereabouts = Whereabouts' \cup Elements(Numbers)
  BY <1>1, <1>4 DEF OnTheirWay, Whereabouts
<1>6. Elements(Numbers) \cap OnTheirWay = {}
  BY Apart
<1> QED
  BY <1>1, <1>3, <1>5, <1>6 DEF OInv

LEMMA OtherOrder ==
  IInv /\ OInv /\ (EndWait \/ Loop \/ Return \/ Stop \/ Joined) => OInv'
  BY OrderRests DEF EndWait, Loop, Return, Stop, Joined, jsVars, workerVars

LEMMA NextOInv == IInv /\ OInv /\ [Next]_vars => OInv'
<1>1. ASSUME OInv, UNCHANGED vars PROVE OInv'
  BY <1>1, OrderRests DEF vars, workerVars, jsVars
<1> QED
  BY <1>1, EmitOrder, EndPhaseOrder, LoadOrder, SwapOrder, CallOrder, DispatchOrder,
    TearDownOrder, OtherOrder DEF Next, Worker, JavaScript

LEMMA OrderHolds == Spec => [](IInv /\ OInv)
<1>1. Init => IInv /\ OInv
  BY InitIInv, InitOInv
<1>2. (IInv /\ OInv) /\ [Next]_vars => (IInv /\ OInv)'
  BY NextIInv, NextOInv
<1> QED
  BY <1>1, <1>2, PTL DEF Spec

\* JavaScript receives the events in the order in which the worker emitted
\* them and none twice, for every batch size and capacity and in every
\* interleaving of the two threads, with batches dropped in between.
THEOREM DeliveredInOrder == Spec => []InOrder
<1>1. OInv => InOrder
  BY DEF OInv, Chain, Ordered, Growing, InOrder
<1> QED
  BY <1>1, OrderHolds, PTL

\* Every event is somewhere, and event_queue_drops is exactly the number of
\* events JavaScript will never get while it lives.
THEOREM EventsAccounted == Spec => []Accounted
<1>1. IInv /\ OInv => Accounted
  <2>1. ASSUME IInv, OInv PROVE Waiting \cup Elements(delivered) = Whereabouts
    BY <2>1, NumbersType DEF Waiting, Whereabouts, OnTheirWay
  <2> QED
    BY <2>1 DEF OInv, Accounted
<1> QED
  BY <1>1, OrderHolds, PTL
=============================================================================
