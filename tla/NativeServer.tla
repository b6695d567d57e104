---------------------------- MODULE NativeServer ----------------------------
(***************************************************************************)
(* A native server between JavaScript and its worker thread: start and its *)
(* wait for the worker, stop, the command channel and the eventfd that     *)
(* wakes the worker (src/src/lib.rs: NativeServer, TcpNativeServer;        *)
(* src/src/uring.rs: start_server, start_tcp_server, start_tcp_echo_server *)
(* and the skeleton of the worker loops).                                  *)
(*                                                                         *)
(* A command travels in two steps: into the channel, then one is added to  *)
(* the eventfd.  The worker hears of it through a read of the eventfd that *)
(* it keeps in the ring: a completion ends its wait, it drains the channel *)
(* and arms the read again.  What commands do is in TcpWorker; here they   *)
(* are numbered.  The wait also ends after 100 ms; the properties show     *)
(* that nothing depends on that.                                           *)
(***************************************************************************)
EXTENDS Integers, Sequences, FiniteSets

CONSTANTS
  MaxStarts,      \* bound: calls of start
  MaxCommands,    \* bound: commands JavaScript sends, 0 for HTTP and echo servers
  Capacity        \* commandQueueCapacity

ASSUME BoundsAssumption ==
  /\ MaxStarts \in Nat /\ MaxCommands \in Nat
  /\ Capacity \in Nat \ {0}

VARIABLES
  js,         \* where the JavaScript thread is in a call
  server,     \* whether UringTcpServer.server is Some
  pc,         \* where the worker thread is
  ready,      \* what the worker has sent through ready_tx
  shutdown,   \* the stop flag
  fds,        \* which of the server's descriptors are open
  channel,    \* the command channel
  counter,    \* the count of the eventfd
  read,       \* the read of the eventfd
  starts,     \* bound: how often start was called
  sent,       \* history: how many commands were accepted
  executed    \* history: the commands executed, in order

jsVars == <<js, server, starts, sent>>
workerVars == <<pc, ready, executed>>
sharedVars == <<shutdown, fds, channel, counter, read>>
vars == <<jsVars, workerVars, sharedVars>>

Init ==
  /\ js = "idle" /\ server = FALSE /\ starts = 0 /\ sent = 0
  /\ pc = "exited" /\ ready = "none" /\ executed = <<>>
  /\ shutdown = FALSE /\ fds = {} /\ channel = <<>> /\ counter = 0 /\ read = "none"

-----------------------------------------------------------------------------
(***************************************************************************)
(* JavaScript: start.                                                      *)
(***************************************************************************)

\* The listener is bound, and a fresh stop flag, channel and eventfd made.
Start ==
  /\ js = "idle" /\ ~server /\ starts < MaxStarts
  /\ starts' = starts + 1
  /\ fds' = {"listen", "event"}
  /\ shutdown' = FALSE /\ channel' = <<>> /\ counter' = 0 /\ read' = "none"
  /\ ready' = "none"
  /\ js' = "spawning"
  /\ UNCHANGED <<server, sent, pc, executed>>

Spawn ==
  /\ js = "spawning"
  /\ pc' = "setup" /\ js' = "starting"
  /\ UNCHANGED <<server, starts, sent, ready, executed, sharedVars>>

\* thread::Builder::spawn fails: the starter closes both descriptors.
SpawnFails ==
  /\ js = "spawning"
  /\ fds' = {} /\ js' = "idle"
  /\ UNCHANGED <<server, starts, sent, workerVars, shutdown, channel, counter, read>>

\* ready_rx.recv_timeout gives Ok(Ok(..)).
Started ==
  /\ js = "starting" /\ ready = "ok"
  /\ server' = TRUE /\ js' = "idle"
  /\ UNCHANGED <<starts, sent, workerVars, sharedVars>>

\* Mutant: the worker is left alone.
GivesUp == "idle"
\* The flag, the wake-up and the join, as in stop.
AbortPhase == "wakeToStop"
\* It gives Ok(Err(..)), or two seconds pass, perhaps just before the answer.
StartFails ==
  /\ js = "starting" /\ ready # "ok"
  /\ shutdown' = TRUE /\ js' = AbortPhase
  /\ UNCHANGED <<server, starts, sent, workerVars, fds, channel, counter, read>>

-----------------------------------------------------------------------------
(***************************************************************************)
(* JavaScript: send and stop.                                              *)
(***************************************************************************)

\* The channel is bounded by commandQueueCapacity.
HasRoom == Len(channel) < Capacity

\* enqueue_command: command_tx.try_send.  A full channel or a worker that is
\* gone refuses the command and changes nothing here.
TrySend ==
  /\ js = "idle" /\ server /\ sent < MaxCommands
  /\ HasRoom /\ pc # "exited"
  /\ sent' = sent + 1
  /\ channel' = Append(channel, sent + 1)
  /\ js' = "wake"
  /\ UNCHANGED <<server, starts, workerVars, shutdown, fds, counter, read>>

\* ... then wake_event_fd.
Wake ==
  /\ js = "wake"
  /\ counter' = counter + 1
  /\ js' = "idle"
  /\ UNCHANGED <<server, starts, sent, workerVars, shutdown, fds, channel, read>>

\* stop, or the drop of the handle.
Stop ==
  /\ js = "idle" /\ server
  /\ shutdown' = TRUE /\ js' = "wakeToStop"
  /\ UNCHANGED <<server, starts, sent, workerVars, fds, channel, counter, read>>

\* Mutant: the flag is set and the worker left to its 100 ms.
StopWithoutWake ==
  /\ js = "wakeToStop"
  /\ js' = "joining"
  /\ UNCHANGED <<server, starts, sent, workerVars, sharedVars>>

WakeToStop ==
  /\ js = "wakeToStop"
  /\ counter' = counter + 1
  /\ js' = "joining"
  /\ UNCHANGED <<server, starts, sent, workerVars, shutdown, fds, channel, read>>

\* Mutant: the thread is not joined.
JoinedAtOnce == TRUE
\* join.join() has returned.
Joined == pc = "exited"

\* The eventfd is closed after the join; the handle goes, with what is left in
\* the channel.
Stopped ==
  /\ js = "joining" /\ Joined
  /\ fds' = fds \ {"event"}
  /\ server' = FALSE /\ channel' = <<>> /\ js' = "idle"
  /\ UNCHANGED <<starts, sent, workerVars, shutdown, counter, read>>

JavaScript == \/ Spawn \/ SpawnFails \/ Started \/ StartFails
              \/ Wake \/ WakeToStop \/ Stopped

-----------------------------------------------------------------------------
(***************************************************************************)
(* The worker.                                                             *)
(***************************************************************************)

\* The set-up of a worker: the first read is submitted before ready is sent.
SetUp ==
  /\ pc = "setup"
  /\ read' = "armed" /\ pc' = "announce"
  /\ UNCHANGED <<jsVars, ready, executed, shutdown, fds, channel, counter>>

Announce ==
  /\ pc = "announce"
  /\ ready' = "ok" /\ pc' = "loop"
  /\ UNCHANGED <<jsVars, executed, sharedVars>>

\* The set-up fails, before or after the first submission.
SetUpFails ==
  /\ pc = "setup"
  /\ ready' = "error" /\ pc' = "close"
  /\ UNCHANGED <<jsVars, executed, sharedVars>>

\* The loop condition.
Running == ~shutdown
Loop ==
  /\ pc = "loop"
  /\ pc' = IF Running THEN "drain" ELSE "close"
  /\ UNCHANGED <<jsVars, ready, executed, sharedVars>>

\* drain_tcp_commands: try_recv takes a command, and it is executed.
Execute ==
  /\ pc \in {"drain", "redrain"} /\ channel # <<>>
  /\ executed' = Append(executed, Head(channel))
  /\ channel' = Tail(channel)
  /\ UNCHANGED <<jsVars, pc, ready, shutdown, fds, counter, read>>

\* What is pushed is armed by ring.submit() and by wait_for_completions.
Submitted == IF read = "pushed" THEN "armed" ELSE read

\* The first drain of a round has emptied the channel; wait_for_completions.
EnterWait ==
  /\ pc = "drain" /\ channel = <<>>
  /\ read' = Submitted /\ pc' = "wait"
  /\ UNCHANGED <<jsVars, ready, executed, shutdown, fds, channel, counter>>

\* Mutant: the worker goes on without a drain.
AfterRead == "rearm"
\* handle_command_completion, then the drain.
AfterCompletion == "redrain"
\* The wait ends with the read among the completions.
HandleRead ==
  /\ pc = "wait" /\ read = "done"
  /\ read' = "none" /\ pc' = AfterCompletion
  /\ UNCHANGED <<jsVars, ready, executed, shutdown, fds, channel, counter>>

\* The wait ends without it: other completions, or 100 ms have passed.
WaitEnds ==
  /\ pc = "wait" /\ read # "done"
  /\ pc' = "loop"
  /\ UNCHANGED <<jsVars, ready, executed, sharedVars>>

\* wait_for_completions, or handling a completion, fails.
WorkerFails ==
  /\ pc = "wait"
  /\ pc' = "close"
  /\ UNCHANGED <<jsVars, ready, executed, sharedVars>>

\* Mutant: the read is not armed again.
RearmNever ==
  /\ pc = "redrain" /\ channel = <<>>
  /\ pc' = "rearm"
  /\ UNCHANGED <<jsVars, ready, executed, sharedVars>>

\* The second drain has emptied the channel: submit_command_read.  (HTTP and
\* echo workers leave it when they are to stop; they do not wait again.)
Rearm ==
  /\ pc = "redrain" /\ channel = <<>>
  /\ read' = "pushed"
  /\ pc' = "rearm"
  /\ UNCHANGED <<jsVars, ready, executed, shutdown, fds, channel, counter>>

\* The end of a round: ring.submit().
EndRound ==
  /\ pc = "rearm"
  /\ read' = Submitted /\ pc' = "loop"
  /\ UNCHANGED <<jsVars, ready, executed, shutdown, fds, channel, counter>>

\* The worker has closed its connections; run_tcp_worker closes the listener,
\* the ring and the channel's receiver go, the thread ends.
Exit ==
  /\ pc = "close"
  /\ fds' = fds \ {"listen"}
  /\ read' = "none" /\ pc' = "exited"
  /\ UNCHANGED <<jsVars, ready, executed, shutdown, channel, counter>>

Worker == \/ SetUp \/ SetUpFails \/ Announce \/ Loop \/ Execute \/ EnterWait
          \/ HandleRead \/ Rearm \/ EndRound \/ Exit

\* The read completes when the count is not zero, and takes all of it.
KernelRead ==
  /\ read = "armed" /\ counter > 0
  /\ read' = "done" /\ counter' = 0
  /\ UNCHANGED <<jsVars, workerVars, shutdown, fds, channel>>

Next == \/ JavaScript \/ Start \/ TrySend \/ Stop
        \/ Worker \/ WaitEnds \/ WorkerFails
        \/ KernelRead

Spec == Init /\ [][Next]_vars

\* Threads run and the kernel completes a read that can complete.  Nothing is
\* said of WaitEnds: the worker may sleep for ever if nothing wakes it.
Fairness == WF_vars(JavaScript) /\ WF_vars(Worker) /\ WF_vars(KernelRead)
FairSpec == Spec /\ Fairness

-----------------------------------------------------------------------------
(***************************************************************************)
(* Properties.                                                             *)
(***************************************************************************)
JsPhases == {"idle", "spawning", "starting", "wake", "wakeToStop", "joining"}
WorkerPhases == {"setup", "announce", "loop", "drain", "wait", "redrain", "rearm",
                 "close", "exited"}

TypeOK ==
  /\ js \in JsPhases /\ server \in BOOLEAN
  /\ pc \in WorkerPhases /\ ready \in {"none", "ok", "error"}
  /\ shutdown \in BOOLEAN /\ fds \subseteq {"listen", "event"}
  /\ channel \in Seq(Nat) /\ Len(channel) <= Capacity
  /\ counter \in Nat /\ read \in {"none", "pushed", "armed", "done"}
  /\ starts \in 0..MaxStarts /\ sent \in 0..MaxCommands
  /\ executed \in Seq(Nat)

\* Whether something will end the worker's wait.
WillWake == read = "done" \/ (read = "armed" /\ counter > 0)

\* No wake-up is lost: a worker that waits with commands in the channel, or
\* with the stop flag set, will be woken, once the JavaScript thread has done
\* its second step (enqueue_command and stop against the drain and the re-arm
\* of the worker).
NoLostWakeup ==
  pc = "wait" =>
    /\ channel # <<>> /\ js # "wake" => WillWake
    /\ shutdown /\ js # "wakeToStop" => WillWake

\* While the worker runs, its listener and its eventfd are open: stop and a
\* start that fails close the eventfd only after the thread has ended.
WorkerHasItsFds == pc # "exited" => fds = {"listen", "event"}

\* Between calls a server that is not there has left nothing behind: no
\* thread, no descriptor, whatever way start failed or stop raced.
NothingLeftBehind == js = "idle" /\ ~server => pc = "exited" /\ fds = {}

\* The worker has what it works with as long as it runs, and takes everything
\* along when it ends.
ServerWhole == WorkerHasItsFds /\ NothingLeftBehind

\* A command that was accepted is executed unless the server is stopped or the
\* worker has failed, without the help of the 100 ms.
CommandsExecuted ==
  \A n \in 1..MaxCommands :
    (\E i \in DOMAIN channel : channel[i] = n) ~>
      \/ \E i \in DOMAIN executed : executed[i] = n
      \/ js \in {"wakeToStop", "joining"} \/ pc \in {"close", "exited"}

\* stop() and a failing start() return, without the help of the 100 ms.
StopReturns == js = "wakeToStop" ~> js = "idle"

\* What JavaScript asks of the worker takes effect.
CallsTakeEffect == CommandsExecuted /\ StopReturns
=============================================================================
