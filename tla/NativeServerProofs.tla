------------------------- MODULE NativeServerProofs -------------------------
(***************************************************************************)
(* No wake-up is lost, and start and stop handle their descriptors and     *)
(* their thread, for every number of starts and commands and every         *)
(* capacity of the channel.  What makes it inductive: a read is armed or   *)
(* done whenever the worker is on its way to the wait (Listening), the     *)
(* stop flag is covered from the look at it on (StopCovered), and the      *)
(* phases of the JavaScript thread say what the others have (Lifecycle).   *)
(***************************************************************************)
EXTENDS NativeServer, TLAPS

Listening ==
  /\ pc \in {"announce", "loop", "drain", "wait"} => read \in {"armed", "done"}
  /\ pc = "rearm" => read = "pushed"

CommandsCovered == pc = "wait" /\ channel # <<>> /\ js # "wake" => WillWake

StopCovered == pc \in {"drain", "wait"} /\ shutdown /\ js # "wakeToStop" => WillWake

Lifecycle ==
  /\ js = "spawning" => pc = "exited"
  /\ js = "spawning" => fds = {"listen", "event"}
  /\ pc = "exited" /\ js # "spawning" => "listen" \notin fds
  /\ js = "wake" => server
  /\ js = "spawning" => ~server

IInv ==
  /\ TypeOK
  /\ Listening
  /\ CommandsCovered
  /\ StopCovered
  /\ Lifecycle
  /\ WorkerHasItsFds
  /\ NothingLeftBehind

-----------------------------------------------------------------------------
LEMMA Bounds ==
  /\ Capacity \in Nat /\ 0 <= Capacity
  /\ 0 \in 0..MaxCommands /\ 0 \in 0..MaxStarts
  BY BoundsAssumption

LEMMA InitIInv == Init => IInv
<1> SUFFICES ASSUME Init PROVE IInv
  OBVIOUS
<1>1. channel \in Seq(Nat) /\ executed \in Seq(Nat) /\ Len(channel) = 0
  BY DEF Init
<1>2. TypeOK
  BY <1>1, Bounds DEF Init, TypeOK, JsPhases, WorkerPhases
<1>3. Listening /\ CommandsCovered /\ StopCovered
  BY DEF Init, Listening, CommandsCovered, StopCovered, WillWake
<1>4. Lifecycle /\ WorkerHasItsFds /\ NothingLeftBehind
  BY DEF Init, Lifecycle, WorkerHasItsFds, NothingLeftBehind
<1> QED
  BY <1>2, <1>3, <1>4 DEF IInv

\* Steps of the JavaScript thread.

LEMMA StartStep == IInv /\ Start => IInv'
<1> SUFFICES ASSUME IInv, Start PROVE IInv'
  OBVIOUS
<1>1. pc = "exited" /\ fds = {}
  BY DEF IInv, NothingLeftBehind, Start
<1>2. channel' \in Seq(Nat) /\ Len(channel') = 0
  BY DEF Start
<1>3. starts' \in 0..MaxStarts
  BY BoundsAssumption DEF IInv, TypeOK, Start
<1>4. TypeOK'
  BY <1>2, <1>3, Bounds DEF IInv, TypeOK, JsPhases, WorkerPhases, Start
<1>5. Listening' /\ CommandsCovered' /\ StopCovered'
  BY <1>1 DEF Start, Listening, CommandsCovered, StopCovered
<1>6. Lifecycle' /\ WorkerHasItsFds' /\ NothingLeftBehind'
  BY <1>1 DEF IInv, Start, Lifecycle, WorkerHasItsFds, NothingLeftBehind
<1> QED
  BY <1>4, <1>5, <1>6 DEF IInv

LEMMA SpawnStep == IInv /\ (Spawn \/ SpawnFails) => IInv'
<1> SUFFICES ASSUME IInv, Spawn \/ SpawnFails PROVE IInv'
  OBVIOUS
<1>1. js = "spawning" /\ pc = "exited" /\ fds = {"listen", "event"} /\ ~server
  BY DEF IInv, Lifecycle, Spawn, SpawnFails
<1>2. TypeOK'
  BY DEF IInv, TypeOK, JsPhases, WorkerPhases, Spawn, SpawnFails, workerVars, sharedVars
<1>3. Listening' /\ CommandsCovered' /\ StopCovered'
  BY <1>1 DEF Spawn, SpawnFails, Listening, CommandsCovered, StopCovered, workerVars,
    sharedVars
<1>4. Lifecycle' /\ WorkerHasItsFds' /\ NothingLeftBehind'
  BY <1>1 DEF Spawn, SpawnFails, Lifecycle, WorkerHasItsFds, NothingLeftBehind,
    workerVars, sharedVars
<1> QED
  BY <1>2, <1>3, <1>4 DEF IInv

LEMMA StartedStep == IInv /\ Started => IInv'
<1> SUFFICES ASSUME IInv, Started PROVE IInv'
  OBVIOUS
<1>1. TypeOK'
  BY DEF IInv, TypeOK, JsPhases, Started, workerVars, sharedVars
<1>2. Listening' /\ CommandsCovered' /\ StopCovered'
  BY DEF IInv, Started, Listening, CommandsCovered, StopCovered, WillWake, workerVars,
    sharedVars
<1>3. Lifecycle' /\ WorkerHasItsFds' /\ NothingLeftBehind'
  BY DEF IInv, Started, Lifecycle, WorkerHasItsFds, NothingLeftBehind, workerVars,
    sharedVars
<1> QED
  BY <1>1, <1>2, <1>3 DEF IInv

\* A start that fails, and stop, set the flag.
LEMMA FlagStep == IInv /\ (StartFails \/ Stop) => IInv'
<1> SUFFICES ASSUME IInv, StartFails \/ Stop PROVE IInv'
  OBVIOUS
<1>1. js' = "wakeToStop" /\ js \in {"starting", "idle"} /\ shutdown'
      /\ UNCHANGED <<server, starts, sent, workerVars, fds, channel, counter, read>>
  BY DEF StartFails, Stop, AbortPhase
<1>2. TypeOK'
  BY DEF IInv, TypeOK, JsPhases, StartFails, Stop, AbortPhase, workerVars
<1>3. Listening' /\ CommandsCovered' /\ StopCovered'
  BY <1>1 DEF IInv, Listening, CommandsCovered, StopCovered, WillWake, workerVars
<1>4. Lifecycle' /\ WorkerHasItsFds' /\ NothingLeftBehind'
  BY <1>1 DEF IInv, Lifecycle, WorkerHasItsFds, NothingLeftBehind, workerVars
<1> QED
  BY <1>2, <1>3, <1>4 DEF IInv

LEMMA TrySendStep == IInv /\ TrySend => IInv'
<1> SUFFICES ASSUME IInv, TrySend PROVE IInv'
  OBVIOUS
<1>1. channel \in Seq(Nat) /\ sent \in Nat /\ Len(channel) \in Nat
  BY BoundsAssumption DEF IInv, TypeOK
<1>2. sent + 1 \in Nat /\ sent + 1 \in 0..MaxCommands
  BY <1>1, BoundsAssumption DEF TrySend
<1>3. channel' \in Seq(Nat) /\ Len(channel') = Len(channel) + 1
  BY <1>1, <1>2 DEF TrySend
<1>4. TypeOK'
  BY <1>1, <1>2, <1>3, BoundsAssumption DEF IInv, TypeOK, JsPhases, TrySend, HasRoom,
    workerVars
<1>5. Listening' /\ CommandsCovered' /\ StopCovered'
  BY DEF IInv, TrySend, Listening, CommandsCovered, StopCovered, WillWake, workerVars
<1>6. Lifecycle' /\ WorkerHasItsFds' /\ NothingLeftBehind'
  BY DEF IInv, TrySend, Lifecycle, WorkerHasItsFds, NothingLeftBehind, workerVars
<1> QED
  BY <1>4, <1>5, <1>6 DEF IInv

\* Where the worker listens, a raised count will wake it.
LEMMA WakeStep == IInv /\ (Wake \/ WakeToStop) => IInv'
<1> SUFFICES ASSUME IInv, Wake \/ WakeToStop PROVE IInv'
  OBVIOUS
<1>1. counter' = counter + 1 /\ js \in {"wake", "wakeToStop"} /\ js' \in {"idle", "joining"}
      /\ UNCHANGED <<server, starts, sent, workerVars, shutdown, fds, channel, read>>
  BY DEF Wake, WakeToStop
<1>2. counter \in Nat /\ counter' \in Nat /\ counter' > 0
  BY <1>1 DEF IInv, TypeOK
<1>3. TypeOK'
  BY <1>1, <1>2 DEF IInv, TypeOK, JsPhases, workerVars
<1>4. Listening' /\ CommandsCovered' /\ StopCovered'
  BY <1>1, <1>2 DEF IInv, Listening, CommandsCovered, StopCovered, WillWake, workerVars
<1>5. Lifecycle' /\ WorkerHasItsFds' /\ NothingLeftBehind'
  BY <1>1 DEF IInv, Lifecycle, WorkerHasItsFds, NothingLeftBehind, workerVars,
    Wake, WakeToStop
<1> QED
  BY <1>3, <1>4, <1>5 DEF IInv

LEMMA StoppedStep == IInv /\ Stopped => IInv'
<1> SUFFICES ASSUME IInv, Stopped PROVE IInv'
  OBVIOUS
<1>1. pc = "exited" /\ "listen" \notin fds /\ js = "joining" /\ fds \subseteq {"listen", "event"}
  BY DEF IInv, TypeOK, Lifecycle, Stopped, Joined
<1>2. fds' = {}
  BY <1>1 DEF Stopped
<1>3. channel' \in Seq(Nat) /\ Len(channel') = 0
  BY DEF Stopped
<1>4. TypeOK'
  BY <1>2, <1>3, Bounds DEF IInv, TypeOK, JsPhases, Stopped, workerVars
<1>5. Listening' /\ CommandsCovered' /\ StopCovered'
  BY <1>1 DEF Stopped, Listening, CommandsCovered, StopCovered, workerVars
<1>6. Lifecycle' /\ WorkerHasItsFds' /\ NothingLeftBehind'
  BY <1>1, <1>2 DEF Stopped, Lifecycle, WorkerHasItsFds, NothingLeftBehind, workerVars
<1> QED
  BY <1>4, <1>5, <1>6 DEF IInv

-----------------------------------------------------------------------------
\* Steps of the worker and the kernel.

LEMMA SetUpStep == IInv /\ (SetUp \/ SetUpFails \/ Announce) => IInv'
<1> SUFFICES ASSUME IInv, SetUp \/ SetUpFails \/ Announce PROVE IInv'
  OBVIOUS
<1>1. TypeOK'
  BY DEF IInv, TypeOK, WorkerPhases, SetUp, SetUpFails, Announce, jsVars, sharedVars
<1>2. Listening' /\ CommandsCovered' /\ StopCovered'
  BY DEF IInv, Listening, CommandsCovered, StopCovered, SetUp, SetUpFails, Announce,
    sharedVars
<1>3. Lifecycle' /\ WorkerHasItsFds' /\ NothingLeftBehind'
  BY DEF IInv, Lifecycle, WorkerHasItsFds, NothingLeftBehind, SetUp, SetUpFails, Announce,
    jsVars, sharedVars
<1> QED
  BY <1>1, <1>2, <1>3 DEF IInv

LEMMA LoopStep == IInv /\ (Loop \/ EnterWait \/ WaitEnds \/ WorkerFails) => IInv'
<1> SUFFICES ASSUME IInv, Loop \/ EnterWait \/ WaitEnds \/ WorkerFails PROVE IInv'
  OBVIOUS
<1>1. TypeOK'
  BY DEF IInv, TypeOK, WorkerPhases, Loop, EnterWait, WaitEnds, WorkerFails, Submitted,
    jsVars, sharedVars
<1>2. Listening' /\ CommandsCovered' /\ StopCovered'
  BY DEF IInv, Listening, CommandsCovered, StopCovered, WillWake, Loop, Running, EnterWait,
    WaitEnds, WorkerFails, Submitted, jsVars, sharedVars
<1>3. Lifecycle' /\ WorkerHasItsFds' /\ NothingLeftBehind'
  BY DEF IInv, Lifecycle, WorkerHasItsFds, NothingLeftBehind, Loop, EnterWait, WaitEnds,
    WorkerFails, jsVars, sharedVars
<1> QED
  BY <1>1, <1>2, <1>3 DEF IInv

LEMMA ExecuteStep == IInv /\ Execute => IInv'
<1> SUFFICES ASSUME IInv, Execute PROVE IInv'
  OBVIOUS
<1>1. channel \in Seq(Nat) /\ channel # <<>> /\ executed \in Seq(Nat) /\ pc # "wait"
  BY DEF IInv, TypeOK, Execute
<1>2. Head(channel) \in Nat /\ Tail(channel) \in Seq(Nat)
      /\ Len(Tail(channel)) = Len(channel) - 1 /\ Len(channel) \in Nat
  BY <1>1
<1>3. executed' \in Seq(Nat) /\ channel' \in Seq(Nat) /\ Len(channel') <= Capacity
  BY <1>1, <1>2, BoundsAssumption DEF IInv, TypeOK, Execute
<1>4. TypeOK'
  BY <1>3 DEF IInv, TypeOK, Execute, jsVars
<1>5. Listening' /\ CommandsCovered' /\ StopCovered'
  BY <1>1 DEF IInv, Listening, CommandsCovered, StopCovered, WillWake, Execute, jsVars
<1>6. Lifecycle' /\ WorkerHasItsFds' /\ NothingLeftBehind'
  BY DEF IInv, Lifecycle, WorkerHasItsFds, NothingLeftBehind, Execute, jsVars
<1> QED
  BY <1>4, <1>5, <1>6 DEF IInv

LEMMA ReadStep == IInv /\ (HandleRead \/ Rearm \/ EndRound) => IInv'
<1> SUFFICES ASSUME IInv, HandleRead \/ Rearm \/ EndRound PROVE IInv'
  OBVIOUS
<1>1. TypeOK'
  BY DEF IInv, TypeOK, WorkerPhases, HandleRead, AfterCompletion, Rearm, EndRound,
    Submitted, jsVars
<1>2. CommandsCovered' /\ StopCovered'
  BY DEF IInv, CommandsCovered, StopCovered, HandleRead, AfterCompletion, Rearm, EndRound
<1>3. Listening'
  BY DEF IInv, Listening, HandleRead, AfterCompletion, Rearm, EndRound, Submitted
<1>4. Lifecycle' /\ WorkerHasItsFds' /\ NothingLeftBehind'
  BY DEF IInv, Lifecycle, WorkerHasItsFds, NothingLeftBehind, HandleRead,
    AfterCompletion, Rearm, EndRound, jsVars
<1> QED
  BY <1>1, <1>2, <1>3, <1>4 DEF IInv

LEMMA ExitStep == IInv /\ Exit => IInv'
<1> SUFFICES ASSUME IInv, Exit PROVE IInv'
  OBVIOUS
<1>1. TypeOK'
  BY DEF IInv, TypeOK, WorkerPhases, Exit, jsVars
<1>2. Listening' /\ CommandsCovered' /\ StopCovered'
  BY DEF Listening, CommandsCovered, StopCovered, Exit
<1>3. js # "spawning" /\ ~(js = "idle" /\ ~server)
  BY DEF IInv, Lifecycle, NothingLeftBehind, Exit
<1>4. Lifecycle' /\ WorkerHasItsFds' /\ NothingLeftBehind'
  BY <1>3 DEF IInv, Lifecycle, WorkerHasItsFds, NothingLeftBehind, Exit, jsVars
<1> QED
  BY <1>1, <1>2, <1>4 DEF IInv

LEMMA KernelStep == IInv /\ KernelRead => IInv'
<1> SUFFICES ASSUME IInv, KernelRead PROVE IInv'
  OBVIOUS
<1>1. TypeOK'
  BY DEF IInv, TypeOK, KernelRead, jsVars, workerVars
<1>2. Listening' /\ CommandsCovered' /\ StopCovered'
  BY DEF IInv, Listening, CommandsCovered, StopCovered, WillWake, KernelRead, jsVars,
    workerVars
<1>3. Lifecycle' /\ WorkerHasItsFds' /\ NothingLeftBehind'
  BY DEF IInv, Lifecycle, WorkerHasItsFds, NothingLeftBehind, KernelRead, jsVars,
    workerVars
<1> QED
  BY <1>1, <1>2, <1>3 DEF IInv

LEMMA NextIInv == IInv /\ [Next]_vars => IInv'
<1>1. ASSUME IInv, UNCHANGED vars PROVE IInv'
  <2>1. TypeOK'
    BY <1>1 DEF IInv, TypeOK, vars, jsVars, workerVars, sharedVars
  <2>2. Listening' /\ CommandsCovered' /\ StopCovered'
    BY <1>1 DEF IInv, Listening, CommandsCovered, StopCovered, WillWake, vars, jsVars,
      workerVars, sharedVars
  <2>3. Lifecycle' /\ WorkerHasItsFds' /\ NothingLeftBehind'
    BY <1>1 DEF IInv, Lifecycle, WorkerHasItsFds, NothingLeftBehind, vars, jsVars,
      workerVars, sharedVars
  <2> QED
    BY <2>1, <2>2, <2>3 DEF IInv
<1> QED
  BY <1>1, StartStep, SpawnStep, StartedStep, FlagStep, TrySendStep, WakeStep,
    StoppedStep, SetUpStep, LoopStep, ExecuteStep, ReadStep, ExitStep, KernelStep
    DEF Next, JavaScript, Worker

LEMMA InvariantHolds == Spec => []IInv
  BY InitIInv, NextIInv, PTL DEF Spec

\* A worker that waits while the channel holds commands or the stop flag is
\* set will be woken, however enqueue_command and stop interleave with its
\* drains, its re-arming of the read and the kernel.
THEOREM WakeupsAreNotLost == Spec => []NoLostWakeup
<1>1. IInv => NoLostWakeup
  BY DEF IInv, CommandsCovered, StopCovered, NoLostWakeup
<1> QED
  BY <1>1, InvariantHolds, PTL

\* Nobody closes the listener or the eventfd of a worker that runs.
THEOREM DescriptorsStayOpen == Spec => []WorkerHasItsFds
<1>1. IInv => WorkerHasItsFds
  BY DEF IInv
<1> QED
  BY <1>1, InvariantHolds, PTL

\* When start has failed or stop has returned, the thread and both
\* descriptors are gone.
THEOREM NothingIsLeftBehind == Spec => []NothingLeftBehind
<1>1. IInv => NothingLeftBehind
  BY DEF IInv
<1> QED
  BY <1>1, InvariantHolds, PTL

\* Both: the worker has its descriptors until it ends, and nothing outlives
\* the server.
THEOREM ServerIsWhole == Spec => []ServerWhole
<1>1. IInv => ServerWhole
  BY DEF IInv, ServerWhole
<1> QED
  BY <1>1, InvariantHolds, PTL

=============================================================================
