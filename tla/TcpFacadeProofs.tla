--------------------------- MODULE TcpFacadeProofs ---------------------------
(***************************************************************************)
(* The JavaScript TCP server, for every number of restarts, connections,   *)
(* calls in progress and throwing listeners:                               *)
(*                                                                         *)
(*  - the server's state and its native servers agree (LifeInv): start, a  *)
(*    start that fails, close and ref each make their whole change before  *)
(*    anybody else runs, so that what is on the stack does not matter;     *)
(*  - the stack keeps its shape (FInv): a step that a call has still to    *)
(*    make finds what it speaks about, and a connection that was given to  *)
(*    the application is in the map or a call has still to tell it;        *)
(*  - every native server that was started runs, or its 'close' has been   *)
(*    emitted, or a call has still to emit it (Counted);                   *)
(*  - in a server that was not restarted in the middle of its previous     *)
(*    run, whatever events were lost, an event that waits is the first of  *)
(*    its connection if it is a 'connect', and a connection that a call    *)
(*    has still to tell something can be told it (Calm).                   *)
(***************************************************************************)
EXTENDS TcpFacade, FiniteSetTheorems, SequenceTheorems, TLAPS

\* The part of the type that the argument needs.
LifeType ==
    /\ native \in 0 .. MaxStarts
    /\ closed \in BOOLEAN
    /\ refed \in BOOLEAN
    /\ natives \in [Natives -> {"unborn", "running", "stopped", "failed"}]

LifeInv == LifeType /\ ServerWhole

LEMMA InitLifeInv == Init => LifeInv
<1> SUFFICES ASSUME Init PROVE LifeInv
  OBVIOUS
<1>1. LifeType
  BY FacadeAssumption DEF Init, LifeType, Natives
<1>2. RunningIsWhole
  BY DEF Init, RunningIsWhole, Timer
<1>3. NoNativeLeftRunning
  BY DEF Init, NoNativeLeftRunning
<1> QED
  BY <1>1, <1>2, <1>3 DEF LifeInv, ServerWhole

\* Steps that leave the lifecycle alone.
LEMMA LifecycleUnchanged ==
  ASSUME LifeInv, UNCHANGED lifecycle PROVE LifeInv'
<1>1. /\ native' = native /\ info' = info /\ closed' = closed
      /\ keepAlive' = keepAlive /\ refed' = refed /\ natives' = natives
  BY DEF lifecycle
<1>2. LifeType'
  BY <1>1 DEF LifeInv, LifeType
<1>3. RunningIsWhole'
  BY <1>1 DEF LifeInv, ServerWhole, RunningIsWhole, Timer
<1>4. NoNativeLeftRunning'
  BY <1>1 DEF LifeInv, ServerWhole, NoNativeLeftRunning
<1> QED
  BY <1>2, <1>3, <1>4 DEF LifeInv, ServerWhole

LEMMA StartStep ==
  ASSUME LifeInv, NEW n \in Natives, Start(n) PROVE LifeInv'
<1> USE DEF Natives
<1>1. native = 0 /\ closed /\ keepAlive = "none"
  BY DEF LifeInv, ServerWhole, RunningIsWhole, Start, Timer
<1>2. /\ native' = n /\ info' = n /\ closed' = FALSE /\ refed' = refed
      /\ natives' = [natives EXCEPT ![n] = "running"]
      /\ keepAlive' = IF keepAlive = "none" THEN Timer(TRUE) ELSE keepAlive
  BY DEF Start
<1>3. n # 0
  BY FacadeAssumption
<1>4. LifeType'
  <2>1. native' \in 0 .. MaxStarts
    BY <1>2, FacadeAssumption
  <2>2. natives' \in [Natives -> {"unborn", "running", "stopped", "failed"}]
    <3> HIDE DEF Natives
    <3> QED
      BY <1>2 DEF LifeInv, LifeType
  <2> QED
    BY <1>2, <2>1, <2>2 DEF LifeInv, LifeType
<1>5. RunningIsWhole'
  BY <1>1, <1>2, <1>3 DEF RunningIsWhole, Timer
<1>6. NoNativeLeftRunning'
  BY <1>1, <1>2, <1>3 DEF LifeInv, LifeType, ServerWhole, NoNativeLeftRunning
<1> QED
  BY <1>4, <1>5, <1>6 DEF LifeInv, ServerWhole

LEMMA StartFailsStep ==
  ASSUME LifeInv, NEW n \in Natives, StartFails(n) PROVE LifeInv'
<1> USE DEF Natives
<1>1. native = 0
  BY DEF LifeInv, ServerWhole, RunningIsWhole, StartFails
<1>2. /\ native' = 0 /\ info' = 0 /\ closed' = TRUE /\ refed' = refed
      /\ natives' = [natives EXCEPT ![n] = "failed"]
      /\ keepAlive' = "none"
  BY DEF StartFails
<1>3. LifeType'
  BY <1>2, FacadeAssumption DEF LifeInv, LifeType
<1>4. RunningIsWhole'
  BY <1>2 DEF RunningIsWhole, Timer
<1>5. NoNativeLeftRunning'
  BY <1>1, <1>2 DEF LifeInv, LifeType, ServerWhole, NoNativeLeftRunning
<1> QED
  BY <1>3, <1>4, <1>5 DEF LifeInv, ServerWhole

\* close(), called by the application or by a start that has to be undone.
LEMMA ShutStep ==
  ASSUME LifeInv, NEW base, NEW callback, Shut(base, callback) PROVE LifeInv'
<1>1. CASE closed
  <2>1. UNCHANGED lifecycle
    BY <1>1 DEF Shut
  <2> QED
    BY <2>1, LifecycleUnchanged
<1>2. CASE ~closed
  <2>1. native \in Natives
    BY <1>2, FacadeAssumption DEF LifeInv, LifeType, ServerWhole, RunningIsWhole, Natives
  <2>2. /\ native' = 0 /\ info' = 0 /\ closed' = TRUE /\ refed' = refed
        /\ natives' = [natives EXCEPT ![native] = "stopped"]
        /\ keepAlive' = "none"
    BY <1>2 DEF Shut
  <2>3. LifeType'
    BY <2>1, <2>2, FacadeAssumption DEF LifeInv, LifeType
  <2>4. RunningIsWhole'
    BY <2>2 DEF RunningIsWhole, Timer
  <2>5. NoNativeLeftRunning'
    BY <2>1, <2>2 DEF LifeInv, LifeType, ServerWhole, NoNativeLeftRunning
  <2> QED
    BY <2>3, <2>4, <2>5 DEF LifeInv, ServerWhole
<1> QED
  BY <1>1, <1>2

LEMMA RefStep ==
  ASSUME LifeInv, NEW on \in BOOLEAN, Ref(on) PROVE LifeInv'
<1>1. /\ native' = native /\ info' = info /\ closed' = closed
      /\ natives' = natives /\ refed' = on
      /\ keepAlive' = IF keepAlive = "none" THEN "none"
                      ELSE IF on THEN "refed" ELSE "unrefed"
  BY DEF Ref
<1>2. LifeType'
  BY <1>1 DEF LifeInv, LifeType
<1>3. RunningIsWhole'
  BY <1>1 DEF LifeInv, ServerWhole, RunningIsWhole, Timer
<1>4. NoNativeLeftRunning'
  BY <1>1 DEF LifeInv, ServerWhole, NoNativeLeftRunning
<1> QED
  BY <1>2, <1>3, <1>4 DEF LifeInv, ServerWhole

LEMMA NextLifeInv == LifeInv /\ [Next]_vars => LifeInv'
<1> SUFFICES ASSUME LifeInv, [Next]_vars PROVE LifeInv'
  OBVIOUS
<1>1. CASE UNCHANGED vars
  BY <1>1, LifecycleUnchanged DEF vars
<1>2. CASE Handling
  <2>1. CASE UndoStart
    BY <2>1, ShutStep DEF UndoStart
  <2>2. CASE ~UndoStart
    <3>1. UNCHANGED lifecycle
      BY <1>2, <2>2 DEF Handling, IgnoreEvent, HandleConnect, Install, HandleData,
         HandleClose, TellConnection, TellServer, ListenerReturns, ListenerThrows,
         CallEnds
    <3> QED
      BY <3>1, LifecycleUnchanged
  <2> QED
    BY <2>1, <2>2
<1>3. CASE Application
  <2>1. CASE Task
    BY <2>1, LifecycleUnchanged DEF Task
  <2>2. CASE Close
    BY <2>2, ShutStep DEF Close
  <2>3. ASSUME NEW n \in Natives, Start(n) PROVE LifeInv'
    BY <2>3, StartStep
  <2>4. ASSUME NEW n \in Natives, StartFails(n) PROVE LifeInv'
    BY <2>4, StartFailsStep
  <2>5. ASSUME NEW batch \in SUBSET Objects, NEW andClose \in BOOLEAN,
               Send(batch, andClose)
        PROVE  LifeInv'
    BY <2>5, LifecycleUnchanged DEF Send
  <2>6. ASSUME NEW on \in BOOLEAN, Ref(on) PROVE LifeInv'
    BY <2>6, RefStep
  <2> QED
    BY <1>3, <2>1, <2>2, <2>3, <2>4, <2>5, <2>6 DEF Application
<1>4. ASSUME NEW n \in Natives, Report(n) \/ Deliver(n) PROVE LifeInv'
  BY <1>4, LifecycleUnchanged DEF Report, Deliver
<1> QED
  BY <1>1, <1>2, <1>3, <1>4 DEF Next

LEMMA LifeInvHolds == Spec => []LifeInv
  BY InitLifeInv, NextLifeInv, PTL DEF Spec

\* Whatever listeners do, throw or restart in the middle of a start, a close
\* or a batch of events: _native, _info, _closed and the keep-alive timer agree
\* after every step, and no native server runs that close() cannot reach
\* (_startWithOptions, close, ref, unref).
THEOREM ServerStaysWhole == Spec => []ServerWhole
<1>1. LifeInv => ServerWhole
  BY DEF LifeInv
<1> QED
  BY <1>1, LifeInvHolds, PTL

-----------------------------------------------------------------------------
(* The shape of the stack.  What follows is written over explicit arguments *)
(* (a stack st, the objects os and the map cs) so that one lemma serves     *)
(* every action that makes the same change to the stack.                    *)

Events == {"connect", "data", "close"}
Tells == {"connection", "tellData", "tellClose"}
Kinds == Events \cup Tells \cup {"install", "server", "callback", "serverClose", "undo"}

Does(call) ==
    CASE call = "batch" -> Events \cup Tells \cup {"install", "server"}
      [] call = "start" -> {"callback", "server", "undo"}
      [] call = "close" -> {"tellClose", "callback", "serverClose"}
      [] OTHER -> {}

Steps == [do : Kinds, n : Nat, k : Nat]
Frames == [call : {"batch", "start", "close", "listener"}, todo : Seq(Steps),
           err : BOOLEAN]

Known(cs, o) == \E i \in DOMAIN cs : cs[i] = o

\* What a step of a frame may be, and where it may stand: a new connection is
\* told at once, an id that is about to be installed is not in the map, the
\* server's 'close' comes last, and nothing but events follows an event.
StepOK(F, i, top, os, cs) ==
    LET s == F.todo[i] IN
    /\ s.do \in Does(F.call)
    /\ s.do \in Events \cup {"install"} =>
         /\ s.n \in Natives /\ s.k \in Ids
         /\ \A j \in DOMAIN F.todo : i < j => F.todo[j].do \in Events
    /\ s.do \in Tells => s.k \in DOMAIN os
    /\ s.do = "connection" => top /\ i = 1 /\ Known(cs, s.k)
    /\ s.do = "install" => \A c \in DOMAIN cs : os[cs[c]].id # s.k
    /\ s.do = "serverClose" => i = Len(F.todo)

FrameOK(F, top, os, cs) == \A i \in DOMAIN F.todo : StepOK(F, i, top, os, cs)

StackOK(st, os, cs) ==
    \A f \in DOMAIN st : /\ FrameOK(st[f], f = Len(st), os, cs)
                         /\ st[f].call = "batch" => f = 1

\* A stack on which another call may be put.
LowOK(st, os, cs) ==
    \A f \in DOMAIN st : /\ FrameOK(st[f], FALSE, os, cs)
                         /\ st[f].call = "batch" => f = 1

MapOK(os, cs) ==
    /\ \A i \in DOMAIN cs : cs[i] \in DOMAIN os
    /\ \A i, j \in DOMAIN cs : os[cs[i]].id = os[cs[j]].id => i = j

\* Objects keep their ids, and nothing enters the map.
Shrinks(os, cs, os2, cs2) ==
    /\ \A o \in DOMAIN os : o \in DOMAIN os2 /\ os2[o].id = os[o].id
    /\ \A i \in DOMAIN cs2 : Known(cs, cs2[i])

-----------------------------------------------------------------------------
(* Sequences of frames and of steps.                                       *)

Replaced(st, G) == Append(SubSeq(st, 1, Len(st) - 1), G)

LEMMA FrontFacts ==
  ASSUME NEW X, NEW st \in Seq(X), st # <<>>
  PROVE  /\ Len(st) \in Nat /\ Len(st) >= 1 /\ DOMAIN st = 1..Len(st)
         /\ st[Len(st)] \in X
         /\ SubSeq(st, 1, Len(st) - 1) \in Seq(X)
         /\ Len(SubSeq(st, 1, Len(st) - 1)) = Len(st) - 1
         /\ \A f \in 1..(Len(st) - 1) : SubSeq(st, 1, Len(st) - 1)[f] = st[f]
<1>1. Len(st) \in Nat /\ DOMAIN st = 1..Len(st) /\ Len(st) # 0
  OBVIOUS
<1>2. PICK l : l = Len(st)
  OBVIOUS
<1>3. l \in Nat /\ l >= 1 /\ \A i \in 1..l : st[i] \in X
  BY <1>1, <1>2
<1>4. PICK b : b = SubSeq(st, 1, l - 1)
  OBVIOUS
<1>5. 1 \in Int /\ l - 1 \in Int /\ \A i \in 1..(l - 1) : st[i] \in X
  BY <1>3
<1>6. /\ b \in Seq(X) /\ Len(b) = IF 1 <= l - 1 THEN (l - 1) - 1 + 1 ELSE 0
      /\ \A i \in 1..((l - 1) - 1 + 1) : b[i] = st[1 + i - 1]
  BY <1>4, <1>5, SubSeqProperties
<1>7. PICK m : m = Len(b)
  OBVIOUS
<1>8. m = IF 1 <= l - 1 THEN (l - 1) - 1 + 1 ELSE 0
  BY <1>6, <1>7
<1>9. m = l - 1
  BY ONLY <1>3, <1>8
<1>10. ASSUME NEW f \in 1..(l - 1) PROVE b[f] = st[f]
  <2>1. f \in 1..((l - 1) - 1 + 1) /\ 1 + f - 1 = f
    BY <1>3
  <2> QED
    BY <1>6, <2>1
<1>11. /\ l \in Nat /\ l >= 1 /\ DOMAIN st = 1..l /\ st[l] \in X
       /\ b \in Seq(X) /\ Len(b) = l - 1
       /\ \A f \in 1..(l - 1) : b[f] = st[f]
  <2>1. DOMAIN st = 1..l /\ st[l] \in X
    BY <1>1, <1>2, <1>3
  <2> QED
    BY <1>3, <1>6, <1>7, <1>9, <1>10, <2>1
<1> QED
  BY <1>2, <1>4, <1>11, Zenon

LEMMA PushFacts ==
  ASSUME NEW X, NEW st \in Seq(X), NEW G \in X
  PROVE  /\ Append(st, G) \in Seq(X)
         /\ Len(st) \in Nat
         /\ Len(Append(st, G)) = Len(st) + 1
         /\ DOMAIN st = 1..Len(st)
         /\ DOMAIN Append(st, G) = 1..(Len(st) + 1)
         /\ \A f \in 1..Len(st) : Append(st, G)[f] = st[f]
         /\ Append(st, G)[Len(st) + 1] = G
  OBVIOUS

LEMMA ReplacedFacts ==
  ASSUME NEW X, NEW st \in Seq(X), st # <<>>, NEW G \in X
  PROVE  /\ Replaced(st, G) \in Seq(X)
         /\ Len(st) \in Nat /\ Len(st) >= 1
         /\ Len(Replaced(st, G)) = Len(st)
         /\ DOMAIN st = 1..Len(st)
         /\ DOMAIN Replaced(st, G) = 1..Len(st)
         /\ \A f \in 1..(Len(st) - 1) : Replaced(st, G)[f] = st[f]
         /\ Replaced(st, G)[Len(st)] = G
<1>1. PICK b : b = SubSeq(st, 1, Len(st) - 1)
  OBVIOUS
<1>2. PICK l : l = Len(st)
  OBVIOUS
<1>3. l \in Nat /\ l >= 1 /\ DOMAIN st = 1..l /\ b \in Seq(X) /\ Len(b) = l - 1
      /\ \A f \in 1..(l - 1) : b[f] = st[f]
  BY <1>1, <1>2, FrontFacts
<1>4. PICK w : w = Append(b, G)
  OBVIOUS
<1>5. w \in Seq(X) /\ Len(w) = Len(b) + 1 /\ DOMAIN w = 1..(Len(b) + 1)
      /\ (\A f \in 1..Len(b) : w[f] = b[f]) /\ w[Len(b) + 1] = G
  BY <1>3, <1>4, PushFacts
<1>6. Len(b) + 1 = l
  BY <1>3
<1>7. w \in Seq(X) /\ Len(w) = l /\ DOMAIN w = 1..l /\ w[l] = G
      /\ \A f \in 1..(l - 1) : w[f] = st[f]
  BY <1>3, <1>5, <1>6
<1>8. w = Replaced(st, G)
  BY <1>1, <1>4 DEF Replaced
<1> QED
  BY <1>2, <1>3, <1>7, <1>8

LEMMA TailFacts ==
  ASSUME NEW t \in Seq(Steps), t # <<>>
  PROVE  /\ Tail(t) \in Seq(Steps)
         /\ Len(t) \in Nat /\ Len(t) >= 1 /\ DOMAIN t = 1..Len(t)
         /\ Len(Tail(t)) = Len(t) - 1 /\ DOMAIN Tail(t) = 1..(Len(t) - 1)
         /\ \A i \in 1..(Len(t) - 1) : Tail(t)[i] = t[i + 1]
         /\ Head(t) = t[1] /\ t[1] \in Steps
<1>1. Len(t) \in Nat /\ DOMAIN t = 1..Len(t) /\ Len(t) # 0
  OBVIOUS
<1>2. Len(t) >= 1 /\ t[1] \in Steps
  BY <1>1
<1>3. Tail(t) \in Seq(Steps) /\ Len(Tail(t)) = Len(t) - 1
      /\ \A i \in 1..Len(Tail(t)) : Tail(t)[i] = t[i + 1]
  BY HeadTailProperties
<1>4. DOMAIN Tail(t) = 1..Len(Tail(t))
  BY <1>3
<1> QED
  BY <1>1, <1>2, <1>3, <1>4, HeadTailProperties

Advanced(F) == [F EXCEPT !.todo = Tail(@)]

LEMMA AdvancedFacts ==
  ASSUME NEW F \in Frames, F.todo # <<>>
  PROVE  /\ Advanced(F) \in Frames
         /\ Advanced(F).call = F.call /\ Advanced(F).err = F.err
         /\ Advanced(F).todo = Tail(F.todo)
<1>1. F.todo \in Seq(Steps)
  BY DEF Frames
<1>2. Tail(F.todo) \in Seq(Steps)
  BY <1>1, TailFacts
<1> QED
  BY <1>2 DEF Advanced, Frames

\* The stack below, with what an error makes of its last call.
LEMMA ThrownFacts ==
  ASSUME NEW b \in Seq(Frames)
  PROVE  /\ Thrown(b) \in Seq(Frames) /\ Len(Thrown(b)) = Len(b)
         /\ \A f \in DOMAIN b :
              /\ Thrown(b)[f].call = b[f].call
              /\ \/ Thrown(b)[f].todo = b[f].todo
                 \/ b[f].call = "start" /\ Thrown(b)[f].todo = <<Step("undo", 0, 0)>>
<1>1. CASE b = <<>> \/ b[Len(b)].call = "listener"
  BY <1>1 DEF Thrown
<1>2. CASE ~(b = <<>> \/ b[Len(b)].call = "listener")
  <2>1. Len(b) \in Nat /\ Len(b) \in DOMAIN b /\ DOMAIN b = 1..Len(b)
    BY <1>2
  <2>2. PICK F : F = b[Len(b)]
    OBVIOUS
  <2>3. PICK t : t = IF F.call = "start" /\ ~F.err THEN <<Step("undo", 0, 0)>> ELSE F.todo
    OBVIOUS
  <2>4. PICK G : G = [F EXCEPT !.err = TRUE, !.todo = t]
    OBVIOUS
  <2>5. Thrown(b) = [b EXCEPT ![Len(b)] = G]
    BY <1>2, <2>2, <2>3, <2>4 DEF Thrown
  <2>6. F \in Frames
    BY <2>1, <2>2
  <2>7. t \in Seq(Steps)
    <3>1. Step("undo", 0, 0) \in Steps
      BY DEF Step, Steps, Kinds
    <3> QED
      BY <2>3, <2>6, <3>1 DEF Frames
  <2>8. G \in Frames /\ G.call = F.call /\ G.todo = t
    BY <2>4, <2>6, <2>7 DEF Frames
  <2>9. \/ G.todo = F.todo
        \/ F.call = "start" /\ G.todo = <<Step("undo", 0, 0)>>
    BY <2>3, <2>8
  <2>10. PICK w : w = [b EXCEPT ![Len(b)] = G]
    OBVIOUS
  <2>11. w \in Seq(Frames) /\ Len(w) = Len(b)
         /\ \A f \in DOMAIN b : w[f] = IF f = Len(b) THEN G ELSE b[f]
    BY <2>1, <2>8, <2>10
  <2> QED
    BY <2>2, <2>5, <2>8, <2>9, <2>10, <2>11
<1> QED
  BY <1>1, <1>2

-----------------------------------------------------------------------------
(* What the changes of the stack keep.                                     *)

LEMMA LowIsOK ==
  ASSUME NEW F, NEW top, NEW os, NEW cs, FrameOK(F, FALSE, os, cs)
  PROVE  FrameOK(F, top, os, cs)
  BY DEF FrameOK, StepOK

LEMMA AdvancedOK ==
  ASSUME NEW F \in Frames, F.todo # <<>>, NEW top \in BOOLEAN, NEW os, NEW cs,
         FrameOK(F, top, os, cs)
  PROVE  FrameOK(Advanced(F), FALSE, os, cs)
<1>1. PICK G : G = Advanced(F)
  OBVIOUS
<1>2. PICK t : t = F.todo
  OBVIOUS
<1>3. PICK u : u = Tail(t)
  OBVIOUS
<1>4. PICK n : n = Len(t)
  OBVIOUS
<1>5. /\ n \in Nat /\ DOMAIN t = 1..n /\ DOMAIN u = 1..(n - 1) /\ Len(u) = n - 1
      /\ \A i \in 1..(n - 1) : u[i] = t[i + 1]
  BY <1>2, <1>3, <1>4, TailFacts DEF Frames
<1>6. G.call = F.call /\ G.todo = u
  BY <1>1, <1>2, <1>3, AdvancedFacts
<1>7. ASSUME NEW i \in 1..(n - 1) PROVE StepOK(G, i, FALSE, os, cs)
  <2>1. PICK s : s = t[i + 1]
    OBVIOUS
  <2>2. i + 1 \in 1..n /\ i + 1 # 1 /\ u[i] = s
    BY <1>5, <2>1
  <2>3. /\ s.do \in Does(F.call)
        /\ s.do \in Events \cup {"install"} =>
             /\ s.n \in Natives /\ s.k \in Ids
             /\ \A j \in 1..n : i + 1 < j => t[j].do \in Events
        /\ s.do \in Tells => s.k \in DOMAIN os
        /\ s.do # "connection"
        /\ s.do = "install" => \A c \in DOMAIN cs : os[cs[c]].id # s.k
        /\ s.do = "serverClose" => i + 1 = n
    <3>1. PICK k : k = i + 1
      OBVIOUS
    <3>2. k \in DOMAIN F.todo /\ k # 1 /\ F.todo[k] = s /\ DOMAIN F.todo = 1..n /\ Len(F.todo) = n
      BY <1>2, <1>4, <1>5, <2>1, <2>2, <3>1, Zenon
    <3>3. StepOK(F, k, top, os, cs)
      BY <3>2, Zenon DEF FrameOK
    <3>4. /\ s.do \in Does(F.call)
          /\ s.do \in Events \cup {"install"} =>
               /\ s.n \in Natives /\ s.k \in Ids
               /\ \A j \in 1..n : k < j => F.todo[j].do \in Events
          /\ s.do \in Tells => s.k \in DOMAIN os
          /\ s.do # "connection"
          /\ s.do = "install" => \A c \in DOMAIN cs : os[cs[c]].id # s.k
          /\ s.do = "serverClose" => k = n
      BY <3>2, <3>3, Zenon DEF StepOK
    <3> QED
      BY <1>2, <3>1, <3>4, Zenon
  <2>4. s.do \in Events \cup {"install"} =>
          \A j \in 1..(n - 1) : i < j => u[j].do \in Events
    <3>1. \A j \in 1..(n - 1) : j + 1 \in 1..n /\ (i < j => i + 1 < j + 1)
      BY <1>5
    <3> QED
      BY <1>5, <2>3, <3>1
  <2>5. s.do = "serverClose" => i = Len(u)
    BY <1>5, <2>3
  <2> QED
    BY <1>5, <1>6, <2>2, <2>3, <2>4, <2>5 DEF StepOK
<1> QED
  BY <1>1, <1>5, <1>6, <1>7 DEF FrameOK

LEMMA ShrinksOK ==
  ASSUME NEW F, NEW os, NEW cs, NEW os2, NEW cs2,
         FrameOK(F, FALSE, os, cs), MapOK(os, cs), Shrinks(os, cs, os2, cs2)
  PROVE  FrameOK(F, FALSE, os2, cs2)
<1> SUFFICES ASSUME NEW i \in DOMAIN F.todo PROVE StepOK(F, i, FALSE, os2, cs2)
  BY DEF FrameOK
<1>1. StepOK(F, i, FALSE, os, cs)
  BY DEF FrameOK
<1>2. PICK s : s = F.todo[i]
  OBVIOUS
<1>3. s.do = "install" => \A c \in DOMAIN cs2 : os2[cs2[c]].id # s.k
  <2> SUFFICES ASSUME s.do = "install", NEW c \in DOMAIN cs2 PROVE os2[cs2[c]].id # s.k
    OBVIOUS
  <2>1. PICK d \in DOMAIN cs : cs[d] = cs2[c]
    BY DEF Shrinks, Known
  <2>2. os2[cs2[c]].id = os[cs[d]].id
    BY <2>1 DEF MapOK, Shrinks
  <2>3. os[cs[d]].id # s.k
    BY <1>1, <1>2 DEF StepOK
  <2> QED
    BY <2>2, <2>3
<1>4. s.do \in Tells => s.k \in DOMAIN os2
  BY <1>1, <1>2 DEF StepOK, Shrinks
<1> QED
  BY <1>1, <1>2, <1>3, <1>4 DEF StepOK

LEMMA ShrinksLow ==
  ASSUME NEW st, NEW os, NEW cs, NEW os2, NEW cs2,
         LowOK(st, os, cs), MapOK(os, cs), Shrinks(os, cs, os2, cs2)
  PROVE  LowOK(st, os2, cs2)
  BY ShrinksOK DEF LowOK

LEMMA LowStackOK ==
  ASSUME NEW st, NEW os, NEW cs, LowOK(st, os, cs)
  PROVE  StackOK(st, os, cs)
  BY LowIsOK DEF LowOK, StackOK

LEMMA AdvanceLow ==
  ASSUME NEW st \in Seq(Frames), st # <<>>, st[Len(st)].todo # <<>>, NEW os, NEW cs,
         StackOK(st, os, cs)
  PROVE  /\ Replaced(st, Advanced(st[Len(st)])) \in Seq(Frames)
         /\ LowOK(Replaced(st, Advanced(st[Len(st)])), os, cs)
<1>1. PICK l : l = Len(st)
  OBVIOUS
<1>2. PICK F : F = st[l]
  OBVIOUS
<1>3. l \in Nat /\ l >= 1 /\ F \in Frames /\ DOMAIN st = 1..l
  BY <1>1, <1>2, FrontFacts
<1>4. PICK G : G = Advanced(F)
  OBVIOUS
<1>5. G \in Frames /\ G.call = F.call
  BY <1>1, <1>2, <1>3, <1>4, AdvancedFacts
<1>6. FrameOK(G, FALSE, os, cs)
  <2>1. FrameOK(F, TRUE, os, cs)
    <3>1. FrameOK(F, l = l, os, cs) /\ l \in DOMAIN st
      BY <1>1, <1>2, <1>3 DEF StackOK
    <3> QED
      BY <3>1
  <2> QED
    BY <1>1, <1>2, <1>3, <1>4, <2>1, AdvancedOK
<1>7. PICK w : w = Replaced(st, G)
  OBVIOUS
<1>8. /\ w \in Seq(Frames) /\ DOMAIN w = 1..l /\ w[l] = G
      /\ \A f \in 1..(l - 1) : w[f] = st[f]
  <2>1. /\ Replaced(st, G) \in Seq(Frames) /\ DOMAIN Replaced(st, G) = 1..Len(st)
        /\ Replaced(st, G)[Len(st)] = G
        /\ \A f \in 1..(Len(st) - 1) : Replaced(st, G)[f] = st[f]
    BY <1>5, ReplacedFacts
  <2> QED
    BY <1>1, <1>7, <2>1, Zenon
<1>9. ASSUME NEW f \in DOMAIN w
      PROVE  FrameOK(w[f], FALSE, os, cs) /\ (w[f].call = "batch" => f = 1)
  <2>1. CASE f = l
    <3>1. F.call = "batch" => l = 1
      BY <1>1, <1>2, <1>3 DEF StackOK
    <3> QED
      BY <1>5, <1>6, <1>8, <2>1, <3>1
  <2>2. CASE f # l
    <3>1. f \in 1..(l - 1) /\ f \in DOMAIN st /\ f # l
      BY <1>3, <1>8, <2>2
    <3>2. FrameOK(st[f], FALSE, os, cs) /\ (st[f].call = "batch" => f = 1)
      <4>1. FrameOK(st[f], f = Len(st), os, cs) /\ (st[f].call = "batch" => f = 1)
        BY <3>1 DEF StackOK
      <4>2. (f = Len(st)) = FALSE
        BY <1>1, <3>1
      <4> QED
        BY <4>1, <4>2
    <3> QED
      BY <1>8, <3>1, <3>2
  <2> QED
    BY <2>1, <2>2
<1>10. LowOK(w, os, cs)
  BY <1>9 DEF LowOK
<1> QED
  BY <1>1, <1>2, <1>4, <1>7, <1>8, <1>10

LEMMA PopLow ==
  ASSUME NEW st \in Seq(Frames), st # <<>>, NEW os, NEW cs, StackOK(st, os, cs)
  PROVE  LowOK(SubSeq(st, 1, Len(st) - 1), os, cs)
<1>1. PICK l : l = Len(st)
  OBVIOUS
<1>2. PICK b : b = SubSeq(st, 1, l - 1)
  OBVIOUS
<1>3. /\ l \in Nat /\ DOMAIN st = 1..l /\ b \in Seq(Frames) /\ Len(b) = l - 1
      /\ \A f \in 1..(l - 1) : b[f] = st[f]
  BY <1>1, <1>2, FrontFacts
<1>4. DOMAIN b = 1..(l - 1)
  BY <1>3
<1>5. ASSUME NEW f \in DOMAIN b
      PROVE  FrameOK(b[f], FALSE, os, cs) /\ (b[f].call = "batch" => f = 1)
  <2>1. f \in DOMAIN st /\ f # l /\ b[f] = st[f]
    BY <1>3, <1>4
  <2>2. FrameOK(st[f], f = Len(st), os, cs) /\ (st[f].call = "batch" => f = 1)
    BY <2>1 DEF StackOK
  <2>3. (f = Len(st)) = FALSE
    BY <1>1, <2>1
  <2> QED
    BY <2>1, <2>2, <2>3
<1> QED
  BY <1>1, <1>2, <1>5 DEF LowOK

LEMMA UndoOK ==
  ASSUME NEW F, NEW os, NEW cs, NEW top, F.call = "start",
         F.todo = <<Step("undo", 0, 0)>>
  PROVE  FrameOK(F, top, os, cs)
<1>1. DOMAIN F.todo = {1} /\ F.todo[1].do = "undo"
  BY DEF Step
<1>2. StepOK(F, 1, top, os, cs)
  BY <1>1 DEF StepOK, Does, Events, Tells
<1> QED
  BY <1>1, <1>2 DEF FrameOK

LEMMA ThrownLow ==
  ASSUME NEW b \in Seq(Frames), NEW os, NEW cs, LowOK(b, os, cs)
  PROVE  LowOK(Thrown(b), os, cs)
<1>1. PICK w : w = Thrown(b)
  OBVIOUS
<1>2. /\ w \in Seq(Frames) /\ Len(w) = Len(b)
      /\ \A f \in DOMAIN b :
           /\ w[f].call = b[f].call
           /\ \/ w[f].todo = b[f].todo
              \/ b[f].call = "start" /\ w[f].todo = <<Step("undo", 0, 0)>>
  BY <1>1, ThrownFacts
<1>3. DOMAIN w = DOMAIN b
  BY <1>2
<1>4. ASSUME NEW f \in DOMAIN b
      PROVE  FrameOK(w[f], FALSE, os, cs) /\ (w[f].call = "batch" => f = 1)
  <2>1. FrameOK(b[f], FALSE, os, cs) /\ (b[f].call = "batch" => f = 1)
    BY DEF LowOK
  <2>2. CASE w[f].todo = b[f].todo
    BY <1>2, <2>1, <2>2 DEF FrameOK, StepOK
  <2>3. CASE b[f].call = "start" /\ w[f].todo = <<Step("undo", 0, 0)>>
    BY <1>2, <2>1, <2>3, UndoOK
  <2> QED
    BY <1>2, <2>2, <2>3
<1> QED
  BY <1>1, <1>3, <1>4 DEF LowOK

LEMMA PushOK ==
  ASSUME NEW st \in Seq(Frames), NEW os, NEW cs, LowOK(st, os, cs),
         NEW F \in Frames, FrameOK(F, TRUE, os, cs), F.call = "batch" => st = <<>>
  PROVE  Append(st, F) \in Seq(Frames) /\ StackOK(Append(st, F), os, cs)
<1>1. PICK l : l = Len(st)
  OBVIOUS
<1>2. PICK w : w = Append(st, F)
  OBVIOUS
<1>3. /\ l \in Nat /\ w \in Seq(Frames) /\ Len(w) = l + 1 /\ DOMAIN st = 1..l
      /\ DOMAIN w = 1..(l + 1) /\ w[l + 1] = F
      /\ \A f \in 1..l : w[f] = st[f]
  BY <1>1, <1>2, PushFacts
<1>4. ASSUME NEW f \in DOMAIN w
      PROVE  FrameOK(w[f], f = Len(w), os, cs) /\ (w[f].call = "batch" => f = 1)
  <2>1. CASE f \in 1..l
    BY <1>3, <2>1, LowIsOK DEF LowOK
  <2>2. CASE f = l + 1
    <3>1. PICK top : top = (f = Len(w))
      OBVIOUS
    <3>4. top = TRUE
      BY <1>3, <2>2, <3>1
    <3>2. F.call = "batch" => l = 0
      BY <1>1
    <3>5. FrameOK(F, top, os, cs)
      BY <3>4
    <3>6. w[f] = F /\ (F.call = "batch" => f = 1)
      BY <1>3, <2>2, <3>2
    <3> QED
      BY <3>1, <3>5, <3>6, Zenon
  <2> QED
    BY <1>3, <2>1, <2>2
<1> QED
  BY <1>2, <1>3, <1>4 DEF StackOK

LEMMA ListenerOK == \A top, os, cs : Listener \in Frames /\ FrameOK(Listener, top, os, cs)
<1>1. Listener.todo = <<>> /\ Listener.call = "listener" /\ Listener.err = FALSE
  BY DEF Listener, Frame
<1>2. <<>> \in Seq(Steps) /\ DOMAIN <<>> = {}
  OBVIOUS
<1>3. Listener \in Frames
  BY <1>2 DEF Frames, Listener, Frame
<1> QED
  BY <1>1, <1>2, <1>3 DEF FrameOK

-----------------------------------------------------------------------------
(* Who is owed an event of a connection, and which calls have still to emit *)
(* the server's 'close'.                                                    *)

Owing(F, o) == \E i \in DOMAIN F.todo : /\ F.todo[i].do \in {"connection", "tellClose"}
                                        /\ F.todo[i].k = o
Owes(st, o) == \E f \in DOMAIN st : Owing(st[f], o)
Remembered(st, os, cs) ==
    \A o \in DOMAIN os : os[o].life \in {"new", "open"} => Known(cs, o) \/ Owes(st, o)

Announces(F) == \E i \in DOMAIN F.todo : F.todo[i].do = "serverClose"
Announcers(st) == {f \in DOMAIN st : Announces(st[f])}

LEMMA AdvancedOwes ==
  ASSUME NEW F \in Frames, F.todo # <<>>, NEW o, Owing(F, o)
  PROVE  \/ Owing(Advanced(F), o)
         \/ Head(F.todo).do \in {"connection", "tellClose"} /\ Head(F.todo).k = o
<1>1. PICK t : t = F.todo
  OBVIOUS
<1>2. PICK u : u = Tail(t)
  OBVIOUS
<1>3. PICK n : n = Len(t)
  OBVIOUS
<1>4. /\ n \in Nat /\ DOMAIN t = 1..n /\ DOMAIN u = 1..(n - 1) /\ Head(t) = t[1]
      /\ \A i \in 1..(n - 1) : u[i] = t[i + 1]
  BY <1>1, <1>2, <1>3, TailFacts DEF Frames
<1>5. Advanced(F).todo = u
  BY <1>1, <1>2, AdvancedFacts
<1>6. PICK i \in 1..n : t[i].do \in {"connection", "tellClose"} /\ t[i].k = o
  BY <1>1, <1>4 DEF Owing
<1>7. CASE i = 1
  BY <1>1, <1>4, <1>6, <1>7
<1>8. CASE i # 1
  <2>1. i - 1 \in 1..(n - 1) /\ (i - 1) + 1 = i
    BY <1>4, <1>8
  <2>2. u[i - 1] = t[i]
    BY <1>4, <2>1
  <2> QED
    BY <1>4, <1>5, <1>6, <2>1, <2>2 DEF Owing
<1> QED
  BY <1>7, <1>8

LEMMA AdvanceOwes ==
  ASSUME NEW st \in Seq(Frames), st # <<>>, st[Len(st)].todo # <<>>,
         NEW o, Owes(st, o)
  PROVE  \/ Owes(Replaced(st, Advanced(st[Len(st)])), o)
         \/ /\ Head(st[Len(st)].todo).do \in {"connection", "tellClose"}
            /\ Head(st[Len(st)].todo).k = o
<1>1. PICK l : l = Len(st)
  OBVIOUS
<1>2. PICK F : F = st[l]
  OBVIOUS
<1>3. PICK G : G = Advanced(F)
  OBVIOUS
<1>4. PICK w : w = Replaced(st, G)
  OBVIOUS
<1>5. l \in Nat /\ l >= 1 /\ DOMAIN st = 1..l /\ F \in Frames
  BY <1>1, <1>2, FrontFacts
<1>6. G \in Frames
  BY <1>1, <1>2, <1>3, <1>5, AdvancedFacts
<1>7. /\ DOMAIN w = 1..l /\ w[l] = G /\ \A f \in 1..(l - 1) : w[f] = st[f]
  <2>1. /\ DOMAIN Replaced(st, G) = 1..Len(st)
        /\ Replaced(st, G)[Len(st)] = G
        /\ \A f \in 1..(Len(st) - 1) : Replaced(st, G)[f] = st[f]
    BY <1>6, ReplacedFacts
  <2> QED
    BY <1>1, <1>4, <2>1, Zenon
<1>8. PICK f \in 1..l : Owing(st[f], o)
  BY <1>5 DEF Owes
<1>9. CASE f = l
  <2>1. \/ Owing(G, o)
        \/ Head(F.todo).do \in {"connection", "tellClose"} /\ Head(F.todo).k = o
    BY <1>1, <1>2, <1>3, <1>5, <1>8, <1>9, AdvancedOwes
  <2>2. l \in DOMAIN w
    BY <1>5, <1>7
  <2> QED
    BY <1>1, <1>2, <1>3, <1>4, <1>7, <2>1, <2>2 DEF Owes
<1>10. CASE f # l
  <2>1. f \in 1..(l - 1) /\ f \in DOMAIN w
    BY <1>5, <1>7, <1>10
  <2> QED
    BY <1>1, <1>2, <1>3, <1>4, <1>7, <1>8, <2>1 DEF Owes
<1> QED
  BY <1>9, <1>10

LEMMA PushOwes ==
  ASSUME NEW st \in Seq(Frames), NEW F \in Frames, NEW o,
         Owes(st, o) \/ Owing(F, o)
  PROVE  Owes(Append(st, F), o)
<1>1. PICK l : l = Len(st)
  OBVIOUS
<1>2. PICK w : w = Append(st, F)
  OBVIOUS
<1>3. /\ l \in Nat /\ DOMAIN st = 1..l /\ DOMAIN w = 1..(l + 1) /\ w[l + 1] = F
      /\ \A f \in 1..l : w[f] = st[f]
  BY <1>1, <1>2, PushFacts
<1>4. l + 1 \in DOMAIN w /\ \A f \in DOMAIN st : f \in DOMAIN w /\ w[f] = st[f]
  BY <1>3
<1>5. Owes(w, o)
  BY <1>3, <1>4 DEF Owes
<1> QED
  BY <1>2, <1>5

LEMMA PopOwes ==
  ASSUME NEW st \in Seq(Frames), st # <<>>, st[Len(st)].todo = <<>>, NEW o, Owes(st, o)
  PROVE  Owes(SubSeq(st, 1, Len(st) - 1), o)
<1>1. PICK l : l = Len(st)
  OBVIOUS
<1>2. PICK b : b = SubSeq(st, 1, l - 1)
  OBVIOUS
<1>3. /\ l \in Nat /\ DOMAIN st = 1..l /\ b \in Seq(Frames) /\ Len(b) = l - 1
      /\ \A f \in 1..(l - 1) : b[f] = st[f]
  BY <1>1, <1>2, FrontFacts
<1>4. DOMAIN b = 1..(l - 1)
  BY <1>3
<1>5. PICK f \in 1..l : Owing(st[f], o)
  BY <1>3 DEF Owes
<1>6. DOMAIN <<>> = {}
  OBVIOUS
<1>7. f # l
  BY <1>1, <1>5, <1>6 DEF Owing
<1>8. f \in 1..(l - 1)
  BY <1>3, <1>7
<1> QED
  BY <1>1, <1>2, <1>3, <1>4, <1>5, <1>8 DEF Owes

LEMMA ThrownOwes ==
  ASSUME NEW b \in Seq(Frames), NEW os, NEW cs, LowOK(b, os, cs), NEW o, Owes(b, o)
  PROVE  Owes(Thrown(b), o)
<1>1. PICK w : w = Thrown(b)
  OBVIOUS
<1>2. /\ w \in Seq(Frames) /\ Len(w) = Len(b)
      /\ \A f \in DOMAIN b :
           /\ w[f].call = b[f].call
           /\ \/ w[f].todo = b[f].todo
              \/ b[f].call = "start" /\ w[f].todo = <<Step("undo", 0, 0)>>
  BY <1>1, ThrownFacts
<1>3. DOMAIN w = DOMAIN b
  BY <1>2
<1>4. PICK f \in DOMAIN b : Owing(b[f], o)
  BY DEF Owes
<1>5. b[f].call # "start"
  <2>1. PICK i \in DOMAIN b[f].todo : b[f].todo[i].do \in {"connection", "tellClose"}
    BY <1>4 DEF Owing
  <2>2. b[f].todo[i].do \in Does(b[f].call)
    BY DEF LowOK, FrameOK, StepOK
  <2> QED
    BY <2>1, <2>2 DEF Does
<1> QED
  BY <1>1, <1>2, <1>3, <1>4, <1>5 DEF Owes, Owing

-----------------------------------------------------------------------------
LEMMA AdvancedAnnounces ==
  ASSUME NEW F \in Frames, F.todo # <<>>, NEW os, NEW cs, NEW top,
         FrameOK(F, top, os, cs)
  PROVE  /\ Head(F.todo).do = "serverClose" => Announces(F) /\ ~Announces(Advanced(F))
         /\ Head(F.todo).do # "serverClose" => (Announces(Advanced(F)) <=> Announces(F))
<1>1. PICK t : t = F.todo
  OBVIOUS
<1>2. PICK u : u = Tail(t)
  OBVIOUS
<1>3. PICK n : n = Len(t)
  OBVIOUS
<1>4. /\ n \in Nat /\ n >= 1 /\ DOMAIN t = 1..n /\ DOMAIN u = 1..(n - 1) /\ Head(t) = t[1]
      /\ \A i \in 1..(n - 1) : u[i] = t[i + 1]
  BY <1>1, <1>2, <1>3, TailFacts DEF Frames
<1>5. Advanced(F).todo = u
  BY <1>1, <1>2, AdvancedFacts
<1>6. \A i \in 1..n : t[i].do = "serverClose" => i = n
  BY <1>1, <1>3, <1>4 DEF FrameOK, StepOK
<1>7. Announces(F) <=> \E i \in 1..n : t[i].do = "serverClose"
  BY <1>1, <1>4 DEF Announces
<1>8. Announces(Advanced(F)) <=> \E i \in 1..(n - 1) : u[i].do = "serverClose"
  BY <1>4, <1>5 DEF Announces
<1>9. 1 \in 1..n /\ \A i \in 1..(n - 1) : i + 1 \in 1..n
  BY <1>4
<1>10. \A i \in 1..n : i = 1 \/ (i - 1 \in 1..(n - 1) /\ (i - 1) + 1 = i)
  BY <1>4
<1>11. CASE Head(F.todo).do = "serverClose"
  <2>1. n = 1
    BY <1>1, <1>4, <1>6, <1>9, <1>11
  <2>2. 1..(n - 1) = {}
    BY <2>1
  <2> QED
    BY <1>1, <1>4, <1>7, <1>8, <1>9, <1>11, <2>2
<1>12. CASE Head(F.todo).do # "serverClose"
  <2>1. t[1].do # "serverClose"
    BY <1>1, <1>4, <1>12
  <2>2. ASSUME NEW i \in 1..n, t[i].do = "serverClose"
        PROVE  \E j \in 1..(n - 1) : u[j].do = "serverClose"
    <3>1. i - 1 \in 1..(n - 1) /\ u[i - 1] = t[i]
      BY <1>4, <1>10, <2>1, <2>2
    <3> QED
      BY <2>2, <3>1
  <2>3. ASSUME NEW j \in 1..(n - 1), u[j].do = "serverClose"
        PROVE  \E i \in 1..n : t[i].do = "serverClose"
    BY <1>4, <1>9, <2>3
  <2> QED
    BY <1>7, <1>8, <1>12, <2>2, <2>3
<1> QED
  BY <1>11, <1>12

LEMMA AdvanceAnnouncers ==
  ASSUME NEW st \in Seq(Frames), st # <<>>, st[Len(st)].todo # <<>>, NEW os, NEW cs,
         StackOK(st, os, cs)
  PROVE  /\ Head(st[Len(st)].todo).do = "serverClose" =>
              /\ Len(st) \in Announcers(st)
              /\ Announcers(Replaced(st, Advanced(st[Len(st)])))
                   = Announcers(st) \ {Len(st)}
         /\ Head(st[Len(st)].todo).do # "serverClose" =>
              Announcers(Replaced(st, Advanced(st[Len(st)]))) = Announcers(st)
<1>1. PICK l : l = Len(st)
  OBVIOUS
<1>2. PICK F : F = st[l]
  OBVIOUS
<1>3. PICK G : G = Advanced(F)
  OBVIOUS
<1>4. PICK w : w = Replaced(st, G)
  OBVIOUS
<1>5. l \in Nat /\ l >= 1 /\ DOMAIN st = 1..l /\ F \in Frames /\ l \in DOMAIN st
  BY <1>1, <1>2, FrontFacts
<1>6. G \in Frames
  BY <1>1, <1>2, <1>3, <1>5, AdvancedFacts
<1>7. /\ DOMAIN w = 1..l /\ w[l] = G /\ \A f \in 1..(l - 1) : w[f] = st[f]
  <2>1. /\ DOMAIN Replaced(st, G) = 1..Len(st)
        /\ Replaced(st, G)[Len(st)] = G
        /\ \A f \in 1..(Len(st) - 1) : Replaced(st, G)[f] = st[f]
    BY <1>6, ReplacedFacts
  <2> QED
    BY <1>1, <1>4, <2>1, Zenon
<1>8. \A f \in 1..l : f # l => f \in 1..(l - 1)
  BY <1>5
<1>9. /\ Head(F.todo).do = "serverClose" => Announces(F) /\ ~Announces(G)
      /\ Head(F.todo).do # "serverClose" => (Announces(G) <=> Announces(F))
  <2>1. PICK top : FrameOK(F, top, os, cs)
    BY <1>2, <1>5 DEF StackOK
  <2> QED
    BY <1>1, <1>2, <1>3, <1>5, <2>1, AdvancedAnnounces
<1>10. /\ Head(F.todo).do = "serverClose" =>
            l \in Announcers(st) /\ Announcers(w) = Announcers(st) \ {l}
       /\ Head(F.todo).do # "serverClose" => Announcers(w) = Announcers(st)
  BY <1>2, <1>5, <1>7, <1>8, <1>9 DEF Announcers
<1> QED
  BY <1>1, <1>2, <1>3, <1>4, <1>10, Zenon

LEMMA PushAnnouncers ==
  ASSUME NEW st \in Seq(Frames), NEW F \in Frames
  PROVE  /\ Announces(F) => /\ Announcers(Append(st, F)) = Announcers(st) \cup {Len(st) + 1}
                            /\ Len(st) + 1 \notin Announcers(st)
         /\ ~Announces(F) => Announcers(Append(st, F)) = Announcers(st)
<1>1. PICK l : l = Len(st)
  OBVIOUS
<1>2. PICK w : w = Append(st, F)
  OBVIOUS
<1>3. /\ l \in Nat /\ DOMAIN st = 1..l /\ DOMAIN w = 1..(l + 1) /\ w[l + 1] = F
      /\ \A f \in 1..l : w[f] = st[f]
  BY <1>1, <1>2, PushFacts
<1>4. /\ l + 1 \in DOMAIN w /\ l + 1 \notin DOMAIN st
      /\ \A f \in DOMAIN w : f \in DOMAIN st \/ f = l + 1
      /\ \A f \in DOMAIN st : f \in DOMAIN w /\ w[f] = st[f]
  BY <1>3
<1>5. /\ Announces(F) => Announcers(w) = Announcers(st) \cup {l + 1}
                         /\ l + 1 \notin Announcers(st)
      /\ ~Announces(F) => Announcers(w) = Announcers(st)
  BY <1>3, <1>4 DEF Announcers
<1> QED
  BY <1>1, <1>2, <1>5

LEMMA PopAnnouncers ==
  ASSUME NEW st \in Seq(Frames), st # <<>>, st[Len(st)].todo = <<>>
  PROVE  Announcers(SubSeq(st, 1, Len(st) - 1)) = Announcers(st)
<1>1. PICK l : l = Len(st)
  OBVIOUS
<1>2. PICK b : b = SubSeq(st, 1, l - 1)
  OBVIOUS
<1>3. /\ l \in Nat /\ l >= 1 /\ DOMAIN st = 1..l /\ b \in Seq(Frames) /\ Len(b) = l - 1
      /\ \A f \in 1..(l - 1) : b[f] = st[f]
  BY <1>1, <1>2, FrontFacts
<1>4. DOMAIN b = 1..(l - 1)
  BY <1>3
<1>5. DOMAIN <<>> = {}
  OBVIOUS
<1>6. ~Announces(st[l])
  BY <1>1, <1>5 DEF Announces
<1>7. \A f \in 1..l : f = l \/ f \in 1..(l - 1)
  BY <1>3
<1>8. \A f \in 1..(l - 1) : f \in 1..l
  BY <1>3
<1>9. Announcers(b) = Announcers(st)
  BY <1>3, <1>4, <1>6, <1>7, <1>8 DEF Announcers
<1> QED
  BY <1>1, <1>2, <1>9

LEMMA ThrownAnnouncers ==
  ASSUME NEW b \in Seq(Frames), NEW os, NEW cs, LowOK(b, os, cs)
  PROVE  Announcers(Thrown(b)) = Announcers(b)
<1>1. PICK w : w = Thrown(b)
  OBVIOUS
<1>2. /\ w \in Seq(Frames) /\ Len(w) = Len(b)
      /\ \A f \in DOMAIN b :
           /\ w[f].call = b[f].call
           /\ \/ w[f].todo = b[f].todo
              \/ b[f].call = "start" /\ w[f].todo = <<Step("undo", 0, 0)>>
  BY <1>1, ThrownFacts
<1>3. DOMAIN w = DOMAIN b
  BY <1>2
<1>4. ASSUME NEW f \in DOMAIN b PROVE Announces(w[f]) <=> Announces(b[f])
  <2>1. CASE w[f].todo = b[f].todo
    BY <2>1 DEF Announces
  <2>2. CASE b[f].call = "start" /\ w[f].todo = <<Step("undo", 0, 0)>>
    <3>1. ~Announces(b[f])
      <4>1. \A i \in DOMAIN b[f].todo : b[f].todo[i].do \in Does(b[f].call)
        BY DEF LowOK, FrameOK, StepOK
      <4> QED
        BY <2>2, <4>1 DEF Announces, Does
    <3>2. ~Announces(w[f])
      <4>1. DOMAIN w[f].todo = {1} /\ w[f].todo[1].do = "undo"
        BY <2>2 DEF Step
      <4> QED
        BY <4>1 DEF Announces
    <3> QED
      BY <3>1, <3>2
  <2> QED
    BY <1>2, <2>1, <2>2
<1>5. Announcers(w) = Announcers(b)
  BY <1>3, <1>4 DEF Announcers
<1> QED
  BY <1>1, <1>5

-----------------------------------------------------------------------------
(* The state.                                                              *)

Objs == [id : Ids, src : Natives, found : BOOLEAN, destroyed : BOOLEAN,
         life : {"new", "open", "closed", "late", "broken"}]
Wires == [Natives -> [Ids -> {"unused", "open", "gone"}]]

PendingOK ==
    /\ pending \in [Natives -> Seq(Steps)]
    /\ \A n \in Natives : \A i \in DOMAIN pending[n] :
         pending[n][i].do \in Events /\ pending[n][i].n = n /\ pending[n][i].k \in Ids

Shape(st, os, cs) ==
    /\ st \in Seq(Frames)
    /\ StackOK(st, os, cs)
    /\ MapOK(os, cs)
    /\ Remembered(st, os, cs)

FInv ==
    /\ TypeOK
    /\ LifeInv
    /\ PendingOK
    /\ Shape(stack, objs, connections)

LEMMA TypeFacts ==
  ASSUME FInv
  PROVE  /\ objs \in Seq(Objs) /\ connections \in Seq(Nat \ {0})
         /\ DOMAIN objs = 1..Len(objs) /\ Len(objs) \in Nat
         /\ DOMAIN connections = 1..Len(connections) /\ Len(connections) \in Nat
         /\ stack \in Seq(Frames) /\ StackOK(stack, objs, connections)
         /\ MapOK(objs, connections) /\ Remembered(stack, objs, connections)
<1>1. objs \in Seq(Objs) /\ connections \in Seq(Nat \ {0})
  BY DEF FInv, TypeOK, Objs
<1> QED
  BY <1>1 DEF FInv, Shape

LEMMA TopIs ==
  /\ Top = stack[Len(stack)] /\ Below = SubSeq(stack, 1, Len(stack) - 1)
  /\ Rest = Advanced(Top)
  /\ WithTop(Rest) = Replaced(stack, Advanced(stack[Len(stack)]))
  BY DEF Top, Below, Rest, Advanced, WithTop, Replaced

\* The call that goes on makes one step less.
LEMMA Advances ==
  ASSUME FInv, stack # <<>>, Top.todo # <<>>
  PROVE  /\ WithTop(Rest) \in Seq(Frames)
         /\ LowOK(WithTop(Rest), objs, connections)
         /\ \A o : Owes(stack, o) =>
              \/ Owes(WithTop(Rest), o)
              \/ Head(Top.todo).do \in {"connection", "tellClose"} /\ Head(Top.todo).k = o
         /\ Head(Top.todo).do = "serverClose" =>
              /\ Len(stack) \in Announcers(stack)
              /\ Announcers(WithTop(Rest)) = Announcers(stack) \ {Len(stack)}
         /\ Head(Top.todo).do # "serverClose" => Announcers(WithTop(Rest)) = Announcers(stack)
<1>1. stack \in Seq(Frames) /\ StackOK(stack, objs, connections)
  BY TypeFacts
<1>2. stack[Len(stack)].todo # <<>>
  BY TopIs
<1>3. /\ WithTop(Rest) \in Seq(Frames)
      /\ LowOK(WithTop(Rest), objs, connections)
  BY <1>1, <1>2, AdvanceLow, TopIs
<1>4. ASSUME NEW o, Owes(stack, o)
      PROVE  \/ Owes(WithTop(Rest), o)
             \/ Head(Top.todo).do \in {"connection", "tellClose"} /\ Head(Top.todo).k = o
  <2>1. \/ Owes(Replaced(stack, Advanced(stack[Len(stack)])), o)
        \/ /\ Head(stack[Len(stack)].todo).do \in {"connection", "tellClose"}
           /\ Head(stack[Len(stack)].todo).k = o
    BY <1>1, <1>2, <1>4, AdvanceOwes
  <2> QED
    BY <2>1, TopIs
<1>5. /\ Head(Top.todo).do = "serverClose" =>
           /\ Len(stack) \in Announcers(stack)
           /\ Announcers(WithTop(Rest)) = Announcers(stack) \ {Len(stack)}
      /\ Head(Top.todo).do # "serverClose" => Announcers(WithTop(Rest)) = Announcers(stack)
  <2>1. /\ Head(stack[Len(stack)].todo).do = "serverClose" =>
             /\ Len(stack) \in Announcers(stack)
             /\ Announcers(Replaced(stack, Advanced(stack[Len(stack)])))
                  = Announcers(stack) \ {Len(stack)}
        /\ Head(stack[Len(stack)].todo).do # "serverClose" =>
             Announcers(Replaced(stack, Advanced(stack[Len(stack)]))) = Announcers(stack)
    BY <1>1, <1>2, AdvanceAnnouncers
  <2> QED
    BY <2>1, TopIs
<1> QED
  BY <1>3, <1>4, <1>5

LEMMA HeadFacts ==
  ASSUME FInv, stack # <<>>, Top.todo # <<>>
  PROVE  /\ Top \in Frames /\ Top.todo \in Seq(Steps) /\ Len(stack) \in Nat
         /\ Head(Top.todo) = Top.todo[1] /\ Head(Top.todo) \in Steps
         /\ 1 \in DOMAIN Top.todo
         /\ StepOK(Top, 1, TRUE, objs, connections)
         /\ Top.call = "batch" => Len(stack) = 1
<1>1. stack \in Seq(Frames) /\ StackOK(stack, objs, connections)
  BY TypeFacts
<1>2. /\ Len(stack) \in Nat /\ Len(stack) >= 1 /\ DOMAIN stack = 1..Len(stack)
      /\ stack[Len(stack)] \in Frames
  BY <1>1, FrontFacts
<1>3. Top \in Frames /\ Top.todo \in Seq(Steps) /\ Top = stack[Len(stack)]
  BY <1>2, TopIs DEF Frames
<1>4. Head(Top.todo) = Top.todo[1] /\ Top.todo[1] \in Steps /\ 1 \in DOMAIN Top.todo
  BY <1>3, TailFacts
<1>5. FrameOK(Top, TRUE, objs, connections) /\ (Top.call = "batch" => Len(stack) = 1)
  <2>1. Len(stack) \in DOMAIN stack
    BY <1>2
  <2>2. PICK l : l = Len(stack)
    OBVIOUS
  <2>3. FrameOK(stack[l], l = l, objs, connections) /\ (stack[l].call = "batch" => l = 1)
    BY <1>1, <2>1, <2>2 DEF StackOK
  <2> QED
    BY <1>3, <2>2, <2>3
<1> QED
  BY <1>2, <1>3, <1>4, <1>5 DEF FrameOK

\* The head of the innermost call is an event or what is left of one: the call
\* is the batch, it is the only one, and nothing but events follows.
LEMMA BatchTop ==
  ASSUME FInv, NEW x \in Events \cup {"install"}, About(x)
  PROVE  /\ Top \in Frames /\ Top.call = "batch" /\ Top.todo # <<>>
         /\ stack # <<>> /\ Len(stack) = 1
         /\ Head(Top.todo).n \in Natives /\ Head(Top.todo).k \in Ids
         /\ x = "install" => \A c \in DOMAIN connections :
                                objs[connections[c]].id # Head(Top.todo).k
         /\ \A j \in DOMAIN Tail(Top.todo) :
              /\ Tail(Top.todo)[j].do \in Events
              /\ Tail(Top.todo)[j].n \in Natives /\ Tail(Top.todo)[j].k \in Ids
         /\ \A o : ~Owes(stack, o)
<1>1. stack # <<>> /\ Top.todo # <<>> /\ Head(Top.todo).do = x
  BY DEF About
<1>2. PICK t : t = Top.todo
  OBVIOUS
<1>3. /\ Top \in Frames /\ t \in Seq(Steps) /\ Head(t) = t[1] /\ 1 \in DOMAIN t
      /\ StepOK(Top, 1, TRUE, objs, connections) /\ (Top.call = "batch" => Len(stack) = 1)
  BY <1>1, <1>2, HeadFacts
<1>4. /\ t[1].do = x /\ x \in Does(Top.call)
      /\ t[1].n \in Natives /\ t[1].k \in Ids
      /\ \A j \in DOMAIN t : 1 < j => t[j].do \in Events
      /\ x = "install" => \A c \in DOMAIN connections : objs[connections[c]].id # t[1].k
  BY <1>1, <1>2, <1>3 DEF StepOK
<1>5. Top.call = "batch" /\ Len(stack) = 1
  BY <1>3, <1>4 DEF Does, Events, Frames
<1>6. PICK n : n = Len(t)
  OBVIOUS
<1>7. /\ n \in Nat /\ DOMAIN t = 1..n /\ DOMAIN Tail(t) = 1..(n - 1)
      /\ \A i \in 1..(n - 1) : Tail(t)[i] = t[i + 1]
  BY <1>1, <1>2, <1>3, <1>6, TailFacts
<1>8. FrameOK(Top, TRUE, objs, connections)
  <2>1. StackOK(stack, objs, connections) /\ 1 \in DOMAIN stack /\ Top = stack[1]
    BY <1>1, <1>5, TypeFacts, TopIs
  <2>2. FrameOK(stack[1], 1 = Len(stack), objs, connections)
    BY <2>1 DEF StackOK
  <2> QED
    BY <1>5, <2>1, <2>2
<1>9. \A i \in 1..(n - 1) : /\ i + 1 \in DOMAIN t /\ 1 < i + 1
                            /\ t[i + 1].do \in Events
                            /\ t[i + 1].n \in Natives /\ t[i + 1].k \in Ids
  <2> SUFFICES ASSUME NEW i \in 1..(n - 1)
               PROVE  /\ i + 1 \in DOMAIN t /\ 1 < i + 1
                      /\ t[i + 1].do \in Events
                      /\ t[i + 1].n \in Natives /\ t[i + 1].k \in Ids
    OBVIOUS
  <2>1. i + 1 \in DOMAIN t /\ 1 < i + 1
    BY <1>7
  <2>2. t[i + 1].do \in Events
    BY <1>4, <2>1
  <2>3. StepOK(Top, i + 1, TRUE, objs, connections)
    BY <1>2, <1>8, <2>1 DEF FrameOK
  <2> QED
    BY <1>2, <2>1, <2>2, <2>3 DEF StepOK
<1>10. ASSUME NEW o PROVE ~Owes(stack, o)
  <2>1. DOMAIN stack = {1} /\ Top = stack[1]
    <3>1. stack \in Seq(Frames)
      BY TypeFacts
    <3> QED
      BY <1>5, <3>1, TopIs
  <2>2. \A i \in DOMAIN t : t[i].do \in Events \cup {"install"}
    <3>1. \A i \in 1..n : i = 1 \/ 1 < i
      BY <1>7
    <3> QED
      BY <1>4, <1>7, <3>1
  <2> QED
    BY <1>2, <2>1, <2>2 DEF Owes, Owing, Events
<1> QED
  BY <1>1, <1>2, <1>3, <1>4, <1>5, <1>7, <1>9, <1>10

\* What a handler may put before the events that follow.
FitsIn(s, i, m, os, cs) ==
    /\ s.do \in Tells \cup {"install", "server"}
    /\ s.do \in Tells => s.k \in DOMAIN os
    /\ s.do = "connection" => i = 1 /\ Known(cs, s.k)
    /\ s.do = "install" => /\ i = m /\ s.n \in Natives /\ s.k \in Ids
                           /\ \A c \in DOMAIN cs : os[cs[c]].id # s.k

LEMMA FilledOK ==
  ASSUME NEW F \in Frames, F.call = "batch",
         NEW rest \in Seq(Steps),
         \A j \in DOMAIN rest : /\ rest[j].do \in Events
                                /\ rest[j].n \in Natives /\ rest[j].k \in Ids,
         NEW os, NEW cs, NEW steps \in Seq(Steps),
         \A i \in DOMAIN steps : FitsIn(steps[i], i, Len(steps), os, cs),
         NEW G, G \in Frames, G.call = "batch", G.todo = steps \o rest
  PROVE  /\ FrameOK(G, TRUE, os, cs)
         /\ \A i \in DOMAIN steps : i \in DOMAIN G.todo /\ G.todo[i] = steps[i]
         /\ ~Announces(G)
<1>1. PICK u : u = steps \o rest
  OBVIOUS
<1>2. PICK m : m = Len(steps)
  OBVIOUS
<1>3. PICK r : r = Len(rest)
  OBVIOUS
<1>4. /\ u \in Seq(Steps) /\ Len(u) = Len(steps) + Len(rest)
      /\ \A i \in 1..Len(u) : u[i] = IF i <= Len(steps) THEN steps[i] ELSE rest[i - Len(steps)]
  BY <1>1, ConcatProperties
<1>5. /\ m \in Nat /\ r \in Nat /\ DOMAIN steps = 1..m /\ DOMAIN rest = 1..r
  BY <1>2, <1>3
<1>6. DOMAIN u = 1..(m + r)
  BY <1>2, <1>3, <1>4
<1>7. /\ \A i \in 1..m : i \in 1..(m + r) /\ u[i] = steps[i]
      /\ \A i \in 1..(m + r) : i \in 1..m \/ (i - m \in 1..r /\ u[i] = rest[i - m])
  <2>1. \A i \in 1..m : i \in 1..(m + r) /\ i <= m
    BY <1>5
  <2>2. \A i \in 1..(m + r) : i \in 1..m \/ (i - m \in 1..r /\ ~(i <= m))
    BY <1>5
  <2>3. Len(u) = m + r
    BY <1>2, <1>3, <1>4
  <2> QED
    BY <1>2, <1>4, <2>1, <2>2, <2>3
<1>8. ASSUME NEW i \in 1..(m + r) PROVE StepOK(G, i, TRUE, os, cs) /\ u[i].do # "serverClose"
  <2>1. CASE i \in 1..m
    <3>1. FitsIn(u[i], i, m, os, cs)
      BY <1>2, <1>5, <1>7, <2>1
    <3>2. u[i].do = "install" =>
            \A j \in DOMAIN u : i < j => u[j].do \in Events
      <4> SUFFICES ASSUME u[i].do = "install", NEW j \in 1..(m + r), i < j
                   PROVE  u[j].do \in Events
        BY <1>6
      <4>1. i = m
        BY <3>1 DEF FitsIn
      <4>2. j \notin 1..m
        BY <1>5, <4>1
      <4> QED
        BY <1>5, <1>7, <4>2
    <3>3. u[i].do \notin Events /\ u[i].do # "serverClose"
      BY <3>1 DEF FitsIn, Tells, Events
    <3>4. u[i].do \in Does("batch")
      BY <3>1 DEF FitsIn, Does
    <3> QED
      BY <1>1, <1>6, <3>1, <3>2, <3>3, <3>4 DEF StepOK, FitsIn
  <2>2. CASE i - m \in 1..r /\ u[i] = rest[i - m] /\ i \notin 1..m
    <3>1. u[i].do \in Events /\ u[i].n \in Natives /\ u[i].k \in Ids
      BY <1>5, <2>2
    <3>2. \A j \in 1..(m + r) : i < j => u[j].do \in Events
      <4> SUFFICES ASSUME NEW j \in 1..(m + r), i < j PROVE u[j].do \in Events
        OBVIOUS
      <4>1. j \notin 1..m
        BY <1>5, <2>2
      <4> QED
        BY <1>5, <1>7, <4>1
    <3>3. u[i].do \in Does("batch")
      BY <3>1 DEF Does
    <3> QED
      BY <1>1, <1>6, <3>1, <3>2, <3>3 DEF StepOK, Events, Tells
  <2> QED
    BY <1>7, <2>1, <2>2
<1> QED
  BY <1>1, <1>5, <1>6, <1>7, <1>8 DEF FrameOK, Announces

LEMMA Continues ==
  ASSUME FInv, NEW x \in Events \cup {"install"}, About(x),
         NEW os, NEW cs, NEW steps \in Seq(Steps),
         \A i \in DOMAIN steps : FitsIn(steps[i], i, Len(steps), os, cs)
  PROVE  /\ Continue(steps) \in Seq(Frames) /\ StackOK(Continue(steps), os, cs)
         /\ \A i \in DOMAIN steps : steps[i].do \in {"connection", "tellClose"} =>
              Owes(Continue(steps), steps[i].k)
         /\ Announcers(stack) = {} /\ Announcers(Continue(steps)) = {}
<1>1. /\ Top \in Frames /\ Top.call = "batch" /\ Top.todo # <<>>
      /\ stack # <<>> /\ Len(stack) = 1
      /\ \A j \in DOMAIN Tail(Top.todo) :
           /\ Tail(Top.todo)[j].do \in Events
           /\ Tail(Top.todo)[j].n \in Natives /\ Tail(Top.todo)[j].k \in Ids
  BY BatchTop
<1>2. stack \in Seq(Frames) /\ StackOK(stack, objs, connections)
  BY TypeFacts
<1>3. PICK rest : rest = Tail(Top.todo)
  OBVIOUS
<1>4. rest \in Seq(Steps)
  BY <1>1, <1>3, TailFacts DEF Frames
<1>5. PICK t : t = steps \o rest
  OBVIOUS
<1>6. t \in Seq(Steps)
  BY <1>4, <1>5, ConcatProperties
<1>7. PICK G : G = [Top EXCEPT !.todo = t]
  OBVIOUS
<1>8. G \in Frames /\ G.call = "batch" /\ G.todo = steps \o rest
  BY <1>1, <1>5, <1>6, <1>7 DEF Frames
<1>9. Continue(steps) = Replaced(stack, G)
  BY <1>3, <1>5, <1>7 DEF Continue, WithTop, Below, Replaced
<1>10. /\ FrameOK(G, TRUE, os, cs)
       /\ \A i \in DOMAIN steps : i \in DOMAIN G.todo /\ G.todo[i] = steps[i]
       /\ ~Announces(G)
  BY <1>1, <1>3, <1>4, <1>8, FilledOK
<1>11. PICK w : w = Replaced(stack, G)
  OBVIOUS
<1>12. w \in Seq(Frames) /\ Len(w) = 1 /\ DOMAIN w = {1} /\ w[1] = G
  <2>1. /\ Replaced(stack, G) \in Seq(Frames) /\ Len(Replaced(stack, G)) = Len(stack)
        /\ DOMAIN Replaced(stack, G) = 1..Len(stack)
        /\ Replaced(stack, G)[Len(stack)] = G
    <3>1. PICK st : st = stack
      OBVIOUS
    <3>2. st \in Seq(Frames) /\ st # <<>>
      BY <1>1, <1>2, <3>1
    <3>3. /\ Replaced(st, G) \in Seq(Frames) /\ Len(Replaced(st, G)) = Len(st)
          /\ DOMAIN Replaced(st, G) = 1..Len(st)
          /\ Replaced(st, G)[Len(st)] = G
      BY <1>8, <3>2, ReplacedFacts
    <3> QED
      BY <3>1, <3>3, Zenon
  <2> QED
    BY <1>1, <1>11, <2>1
<1>13. StackOK(w, os, cs)
  BY <1>10, <1>12 DEF StackOK
<1>14. \A i \in DOMAIN steps : steps[i].do \in {"connection", "tellClose"} =>
         Owes(w, steps[i].k)
  BY <1>10, <1>12 DEF Owes, Owing
<1>15. Announcers(w) = {}
  BY <1>10, <1>12 DEF Announcers
<1>16. Announcers(stack) = {}
  <2>1. DOMAIN stack = {1}
    BY <1>1, <1>2
  <2>2. ~Announces(stack[1])
    <3>1. \A i \in DOMAIN stack[1].todo : stack[1].todo[i].do \in Does(stack[1].call)
      BY <1>2, <2>1 DEF StackOK, FrameOK, StepOK
    <3>2. stack[1].call = "batch"
      BY <1>1, TopIs
    <3> QED
      BY <3>1, <3>2 DEF Announces, Does, Events, Tells
  <2> QED
    BY <2>1, <2>2 DEF Announcers
<1> QED
  BY <1>9, <1>11, <1>12, <1>13, <1>14, <1>15, <1>16

LEMMA ObjAt ==
  ASSUME FInv, NEW i \in DOMAIN connections
  PROVE  connections[i] \in DOMAIN objs /\ connections[i] \in Objects
         /\ connections[i] \in Nat \ {0}
  BY TypeFacts DEF MapOK, Objects

LEMMA LookupIs ==
  ASSUME FInv, NEW id
  PROVE  /\ \A o \in Lookup(id) : o \in DOMAIN objs /\ Known(connections, o) /\ objs[o].id = id
         /\ Lookup(id) = {} <=> \A i \in DOMAIN connections : objs[connections[i]].id # id
  BY ObjAt DEF Lookup, Known, Objects

LEMMA WithoutFacts ==
  ASSUME FInv, NEW o, Known(connections, o)
  PROVE  /\ Without(o) \in Seq(Nat \ {0})
         /\ \A i \in DOMAIN Without(o) : /\ Known(connections, Without(o)[i])
                                         /\ Without(o)[i] # o
                                         /\ objs[Without(o)[i]].id # objs[o].id
         /\ \A c : Known(connections, c) /\ c # o => Known(Without(o), c)
         /\ MapOK(objs, Without(o))
<1>1. PICK n : n = Len(connections)
  OBVIOUS
<1>2. /\ n \in Nat /\ DOMAIN connections = 1..n
      /\ \A i \in 1..n : connections[i] \in DOMAIN objs /\ connections[i] \in Nat \ {0}
      /\ \A i, j \in 1..n : objs[connections[i]].id = objs[connections[j]].id => i = j
  <2>1. n \in Nat /\ DOMAIN connections = 1..n /\ connections \in Seq(Nat \ {0})
    BY <1>1, TypeFacts
  <2>2. \A i \in 1..n : connections[i] \in Nat \ {0}
    BY <1>1, <2>1
  <2>3. MapOK(objs, connections)
    BY TypeFacts
  <2> QED
    BY <2>1, <2>2, <2>3 DEF MapOK
<1>3. PICK at \in 1..n : /\ connections[at] = o
                         /\ Without(o) = [i \in 1..(n - 1) |->
                                            connections[IF i < at THEN i ELSE i + 1]]
  <2>1. \E i \in DOMAIN connections : connections[i] = o
    BY DEF Known
  <2>2. PICK at : at = CHOOSE i \in DOMAIN connections : connections[i] = o
    OBVIOUS
  <2>3. at \in DOMAIN connections /\ connections[at] = o
    BY <2>1, <2>2
  <2>4. Without(o) = [i \in 1..(n - 1) |-> connections[IF i < at THEN i ELSE i + 1]]
    BY <1>1, <2>2 DEF Without
  <2> QED
    BY <1>2, <2>3, <2>4
<1>4. PICK W : W = Without(o)
  OBVIOUS
<1>5. /\ DOMAIN W = 1..(n - 1)
      /\ \A i \in 1..(n - 1) : W[i] = connections[IF i < at THEN i ELSE i + 1]
  BY <1>3, <1>4
<1>6. \A i \in 1..(n - 1) :
        \E j \in 1..n : j # at /\ W[i] = connections[j] /\ j = (IF i < at THEN i ELSE i + 1)
  <2> SUFFICES ASSUME NEW i \in 1..(n - 1)
               PROVE  \E j \in 1..n : /\ j # at /\ W[i] = connections[j]
                                      /\ j = (IF i < at THEN i ELSE i + 1)
    OBVIOUS
  <2>1. PICK j : j = (IF i < at THEN i ELSE i + 1)
    OBVIOUS
  <2>2. j \in 1..n /\ j # at
    BY <1>2, <2>1
  <2>3. W[i] = connections[j]
    BY <1>5, <2>1
  <2> QED
    BY <2>1, <2>2, <2>3
<1>7. W \in Seq(Nat \ {0})
  <2>1. n - 1 \in Nat
    BY <1>2
  <2>2. W \in [1..(n - 1) -> Nat \ {0}]
    <3>1. \A i \in 1..(n - 1) : W[i] \in Nat \ {0}
      BY <1>2, <1>6
    <3>2. W = [i \in 1..(n - 1) |-> W[i]]
      BY <1>3, <1>4
    <3> QED
      BY <3>1, <3>2
  <2> QED
    BY <2>1, <2>2
<1>8. \A i \in DOMAIN W : /\ Known(connections, W[i]) /\ W[i] # o
                          /\ objs[W[i]].id # objs[o].id
  <2> SUFFICES ASSUME NEW i \in 1..(n - 1)
               PROVE  /\ Known(connections, W[i]) /\ W[i] # o
                      /\ objs[W[i]].id # objs[o].id
    BY <1>5
  <2>1. PICK j \in 1..n : j # at /\ W[i] = connections[j]
    BY <1>6
  <2>2. objs[connections[j]].id # objs[connections[at]].id
    BY <1>2, <2>1
  <2>3. Known(connections, W[i])
    BY <1>2, <2>1 DEF Known
  <2> QED
    BY <1>3, <2>1, <2>2, <2>3
<1>9. ASSUME NEW c, Known(connections, c), c # o PROVE Known(W, c)
  <2>1. PICK j \in 1..n : connections[j] = c
    BY <1>2, <1>9 DEF Known
  <2>2. j # at
    BY <1>3, <1>9, <2>1
  <2>3. CASE j < at
    <3>1. j \in 1..(n - 1)
      BY <1>2, <2>3
    <3> QED
      BY <1>5, <2>1, <2>3, <3>1 DEF Known
  <2>4. CASE j > at
    <3>1. j - 1 \in 1..(n - 1) /\ ~(j - 1 < at) /\ (j - 1) + 1 = j
      BY <1>2, <2>4
    <3>2. W[j - 1] = connections[j]
      BY <1>5, <3>1
    <3> QED
      BY <1>5, <2>1, <3>1, <3>2 DEF Known
  <2> QED
    BY <1>2, <2>2, <2>3, <2>4
<1>10. MapOK(objs, W)
  <2>1. \A i \in DOMAIN W : W[i] \in DOMAIN objs
    BY <1>2, <1>5, <1>6
  <2>2. ASSUME NEW i \in 1..(n - 1), NEW j \in 1..(n - 1), objs[W[i]].id = objs[W[j]].id
        PROVE  i = j
    <3>1. PICK a \in 1..n : W[i] = connections[a] /\ a = (IF i < at THEN i ELSE i + 1)
      BY <1>6
    <3>2. PICK b \in 1..n : W[j] = connections[b] /\ b = (IF j < at THEN j ELSE j + 1)
      BY <1>6
    <3>3. a = b
      BY <1>2, <2>2, <3>1, <3>2
    <3> QED
      BY <1>2, <3>1, <3>2, <3>3
  <2> QED
    BY <1>5, <2>1, <2>2 DEF MapOK
<1> QED
  BY <1>4, <1>7, <1>8, <1>9, <1>10

\* A connection whose id is not in the map enters it.
Fresh(id, n, b) == [id |-> id, src |-> n, found |-> b, destroyed |-> FALSE, life |-> "new"]

Enters(id, n, b, o, os, cs) ==
    /\ id \in Ids /\ n \in Natives /\ b \in BOOLEAN /\ Lookup(id) = {}
    /\ o = Len(objs) + 1
    /\ os = Append(objs, Fresh(id, n, b))
    /\ cs = With(o, id)

\* What the map and the objects are then.
HasEntered(id, n, b, o, os, cs) ==
    /\ os \in Seq(Objs) /\ cs \in Seq(Nat \ {0})
    /\ DOMAIN os = DOMAIN objs \cup {o} /\ o \notin DOMAIN objs
    /\ os[o] = Fresh(id, n, b)
    /\ \A p \in DOMAIN objs : os[p] = objs[p]
    /\ \A c : Known(cs, c) <=> Known(connections, c) \/ c = o
    /\ MapOK(os, cs)
    /\ o \in Nat \ {0} /\ cs = Append(connections, o)

LEMMA EnterFacts ==
  ASSUME FInv, NEW id, NEW n, NEW b, NEW o, NEW os, NEW cs, Enters(id, n, b, o, os, cs)
  PROVE  HasEntered(id, n, b, o, os, cs)
<1>1. /\ objs \in Seq(Objs) /\ connections \in Seq(Nat \ {0})
      /\ DOMAIN objs = 1..Len(objs) /\ Len(objs) \in Nat
      /\ MapOK(objs, connections)
  BY TypeFacts
<1>0. /\ id \in Ids /\ n \in Natives /\ b \in BOOLEAN /\ Lookup(id) = {} /\ o = Len(objs) + 1
      /\ os = Append(objs, Fresh(id, n, b)) /\ cs = With(o, id)
  BY DEF Enters
<1> DEFINE obj == Fresh(id, n, b)
<1>2. obj \in Objs /\ obj.id = id
  BY <1>0 DEF Objs, Fresh
<1> HIDE DEF obj
<1>3. /\ os \in Seq(Objs) /\ DOMAIN os = 1..(Len(objs) + 1)
      /\ (\A p \in 1..Len(objs) : os[p] = objs[p]) /\ os[Len(objs) + 1] = obj
  <2>1. os = Append(objs, obj)
    BY <1>0 DEF obj
  <2> QED
    BY <1>1, <1>2, <2>1, PushFacts
<1>4. /\ DOMAIN os = DOMAIN objs \cup {o} /\ o \notin DOMAIN objs
      /\ os[o] = obj /\ \A p \in DOMAIN objs : os[p] = objs[p]
      /\ o \in Nat \ {0}
  BY <1>0, <1>1, <1>3
<1>5. cs = Append(connections, o)
  BY <1>0 DEF With
<1>6. PICK m : m = Len(connections)
  OBVIOUS
<1>7. /\ cs \in Seq(Nat \ {0}) /\ m \in Nat /\ DOMAIN connections = 1..m
      /\ DOMAIN cs = 1..(m + 1) /\ cs[m + 1] = o
      /\ \A i \in 1..m : cs[i] = connections[i]
  <2>1. connections \in Seq(Nat \ {0}) /\ o \in Nat \ {0}
    BY <1>1, <1>4
  <2>2. /\ Append(connections, o) \in Seq(Nat \ {0}) /\ Len(connections) \in Nat
        /\ DOMAIN connections = 1..Len(connections)
        /\ DOMAIN Append(connections, o) = 1..(Len(connections) + 1)
        /\ \A f \in 1..Len(connections) : Append(connections, o)[f] = connections[f]
        /\ Append(connections, o)[Len(connections) + 1] = o
    BY <2>1, PushFacts
  <2> QED
    BY <1>5, <1>6, <2>2, Zenon
<1>8. /\ m + 1 \in 1..(m + 1) /\ \A i \in 1..(m + 1) : i \in 1..m \/ i = m + 1
      /\ \A i \in 1..m : i \in 1..(m + 1) /\ i # m + 1
  BY <1>7
<1>9. \A c : Known(cs, c) <=> Known(connections, c) \/ c = o
  BY <1>7, <1>8 DEF Known
<1>10. \A i \in 1..m : /\ connections[i] \in DOMAIN objs
                       /\ os[connections[i]].id = objs[connections[i]].id
                       /\ objs[connections[i]].id # id
  BY <1>0, <1>1, <1>4, <1>7, LookupIs DEF MapOK
<1>11. os[o].id = id
  BY <1>2, <1>4
<1>12. MapOK(os, cs)
  <2>1. \A i \in DOMAIN cs : cs[i] \in DOMAIN os
    BY <1>4, <1>7, <1>8, <1>10
  <2>2. ASSUME NEW i \in 1..(m + 1), NEW j \in 1..(m + 1), os[cs[i]].id = os[cs[j]].id
        PROVE  i = j
    <3>1. CASE i \in 1..m /\ j \in 1..m
      <4>1. objs[connections[i]].id = objs[connections[j]].id
        <5>1. cs[i] = connections[i] /\ cs[j] = connections[j]
          BY <1>7, <3>1
        <5> QED
          BY <1>10, <2>2, <3>1, <5>1
      <4>2. \A a, c \in DOMAIN connections :
              objs[connections[a]].id = objs[connections[c]].id => a = c
        BY <1>1 DEF MapOK
      <4> QED
        BY <1>7, <3>1, <4>1, <4>2
    <3>2. CASE i = m + 1 /\ j \in 1..m
      BY <1>7, <1>10, <1>11, <2>2, <3>2
    <3>3. CASE i \in 1..m /\ j = m + 1
      BY <1>7, <1>10, <1>11, <2>2, <3>3
    <3> QED
      BY <1>8, <3>1, <3>2, <3>3
  <2> QED
    BY <1>7, <2>1, <2>2 DEF MapOK
<1> QED
  BY <1>3, <1>4, <1>5, <1>7, <1>9, <1>12 DEF obj, HasEntered

\* What every step has to establish: the shape, and the types of what it changes.
NewShape ==
    /\ Shape(stack', objs', connections')
    /\ objs' \in Seq(Objs) /\ connections' \in Seq(Nat \ {0})

\* The calls that have still to emit the server's 'close' stay the same.
Quiet == Announcers(stack') = Announcers(stack)

LEMMA RestShape ==
  ASSUME FInv, UNCHANGED <<stack, objs, connections>> PROVE NewShape
  BY TypeFacts DEF NewShape, Shape

\* Objects that keep their ids and lives.
LEMMA SendShape ==
  ASSUME FInv, NEW batch, NEW andClose, Send(batch, andClose) PROVE NewShape
<1>1. /\ objs \in Seq(Objs) /\ connections \in Seq(Nat \ {0})
      /\ DOMAIN objs = 1..Len(objs) /\ Len(objs) \in Nat
      /\ stack \in Seq(Frames) /\ StackOK(stack, objs, connections)
      /\ MapOK(objs, connections) /\ Remembered(stack, objs, connections)
  BY TypeFacts
<1>2. stack' = stack /\ connections' = connections
      /\ objs' = [o \in Objects |->
                    IF o \in batch /\ andClose THEN [objs[o] EXCEPT !.destroyed = TRUE]
                    ELSE objs[o]]
  BY DEF Send
<1>3. Objects = 1..Len(objs)
  BY <1>1 DEF Objects
<1>4. \A o \in 1..Len(objs) : objs[o] \in Objs
  BY <1>1
<1>5. \A o \in 1..Len(objs) : /\ objs'[o] \in Objs /\ objs'[o].id = objs[o].id
                              /\ objs'[o].life = objs[o].life
  <2> SUFFICES ASSUME NEW o \in 1..Len(objs)
               PROVE  /\ objs'[o] \in Objs /\ objs'[o].id = objs[o].id
                      /\ objs'[o].life = objs[o].life
    OBVIOUS
  <2>1. objs'[o] = [objs[o] EXCEPT !.destroyed = TRUE] \/ objs'[o] = objs[o]
    BY <1>2, <1>3
  <2> QED
    BY <1>4, <2>1 DEF Objs
<1>6. DOMAIN objs' = DOMAIN objs
  BY <1>1, <1>2, <1>3
<1>7. objs' \in Seq(Objs)
  <2>1. PICK l : l = Len(objs)
    OBVIOUS
  <2>2. PICK w : w = objs'
    OBVIOUS
  <2>3. l \in Nat /\ w = [o \in 1..l |-> w[o]] /\ \A o \in 1..l : w[o] \in Objs
    <3>1. w = [o \in 1..l |-> w[o]]
      BY <1>2, <1>3, <2>1, <2>2
    <3> QED
      BY <1>1, <1>5, <2>1, <2>2, <3>1
  <2>4. w \in Seq(Objs)
    BY ONLY <2>3
  <2> QED
    BY <2>2, <2>4
<1>8. StackOK(stack, objs', connections)
  <2>1. \A F, top : FrameOK(F, top, objs, connections) => FrameOK(F, top, objs', connections)
    <3> SUFFICES ASSUME NEW F, NEW top, FrameOK(F, top, objs, connections),
                        NEW i \in DOMAIN F.todo
                 PROVE  StepOK(F, i, top, objs', connections)
      BY DEF FrameOK
    <3>1. StepOK(F, i, top, objs, connections)
      BY DEF FrameOK
    <3>2. \A c \in DOMAIN connections : objs'[connections[c]].id = objs[connections[c]].id
      BY <1>1, <1>5 DEF MapOK
    <3> QED
      BY <1>6, <3>1, <3>2 DEF StepOK
  <2> QED
    BY <1>1, <2>1 DEF StackOK
<1>9. MapOK(objs', connections) /\ Remembered(stack, objs', connections)
  BY <1>1, <1>5, <1>6 DEF MapOK, Remembered
<1> QED
  BY <1>1, <1>2, <1>7, <1>8, <1>9 DEF NewShape, Shape

LEMMA EmptyStack == ASSUME FInv, stack = <<>>
  PROVE /\ \A o \in DOMAIN objs : objs[o].life \in {"new", "open"} => Known(connections, o)
        /\ Announcers(stack) = {}
<1>1. \A o : ~Owes(<<>>, o)
  <2>1. DOMAIN <<>> = {}
    OBVIOUS
  <2> QED
    BY <2>1 DEF Owes
<1>2. Announcers(<<>>) = {}
  <2>1. DOMAIN <<>> = {}
    OBVIOUS
  <2> QED
    BY <2>1 DEF Announcers
<1> QED
  BY <1>1, <1>2, TypeFacts DEF Remembered

LEMMA SingleFrame ==
  ASSUME FInv, stack = <<>>, NEW F \in Frames, FrameOK(F, TRUE, objs, connections),
         F.call # "close"
  PROVE  Shape(<<F>>, objs, connections) /\ Announcers(<<F>>) = {}
<1>1. PICK w : w = <<F>>
  OBVIOUS
<1>2. w \in Seq(Frames) /\ DOMAIN w = {1} /\ Len(w) = 1 /\ w[1] = F
  BY <1>1
<1>3. StackOK(w, objs, connections)
  BY <1>2 DEF StackOK
<1>4. Remembered(w, objs, connections)
  BY EmptyStack DEF Remembered
<1>5. MapOK(objs, connections)
  BY TypeFacts
<1>6. Shape(w, objs, connections)
  BY <1>2, <1>3, <1>4, <1>5 DEF Shape
<1>7. Announcers(w) = {}
  <2>1. \A i \in DOMAIN F.todo : F.todo[i].do \in Does(F.call)
    BY DEF FrameOK, StepOK
  <2>2. ~Announces(F)
    BY <2>1 DEF Announces, Does, Events, Tells
  <2> QED
    BY <1>2, <2>2 DEF Announcers
<1> QED
  BY <1>1, <1>6, <1>7

LEMMA TaskShape == ASSUME FInv, Task PROVE NewShape /\ Quiet
<1>1. stack = <<>> /\ stack' = <<Listener>> /\ UNCHANGED <<objs, connections>>
  BY DEF Task
<1>2. Shape(<<Listener>>, objs, connections) /\ Announcers(<<Listener>>) = {}
  <2>1. Listener.call # "close"
    BY DEF Listener, Frame
  <2> QED
    BY <1>1, <2>1, ListenerOK, SingleFrame
<1>3. Announcers(stack) = {}
  BY <1>1, EmptyStack
<1> QED
  BY <1>1, <1>2, <1>3, TypeFacts DEF NewShape, Quiet

\* The events of a batch are the first ones that wait.
LEMMA BatchFrame ==
  ASSUME FInv, NEW n \in Natives, NEW size \in 1..Len(pending[n])
  PROVE  /\ Frame("batch", SubSeq(pending[n], 1, size), FALSE) \in Frames
         /\ \A os, cs :
              FrameOK(Frame("batch", SubSeq(pending[n], 1, size), FALSE), TRUE, os, cs)
         /\ Len(SubSeq(pending[n], 1, size)) = size
         /\ \A i \in 1..size : SubSeq(pending[n], 1, size)[i] = pending[n][i]
         /\ SubSeq(pending[n], size + 1, Len(pending[n])) \in Seq(Steps)
         /\ Len(SubSeq(pending[n], size + 1, Len(pending[n]))) = Len(pending[n]) - size
         /\ \A i \in 1..(Len(pending[n]) - size) :
              SubSeq(pending[n], size + 1, Len(pending[n]))[i] = pending[n][i + size]
<1>1. PICK p : p = pending[n]
  OBVIOUS
<1>2. PICK l : l = Len(p)
  OBVIOUS
<1>3. /\ p \in Seq(Steps) /\ l \in Nat /\ DOMAIN p = 1..l /\ size \in 1..l
      /\ \A i \in 1..l : p[i] \in Steps /\ p[i].do \in Events /\ p[i].n = n /\ p[i].k \in Ids
  <2>1. p \in Seq(Steps)
    BY <1>1 DEF FInv, PendingOK
  <2>2. l \in Nat /\ DOMAIN p = 1..l /\ \A i \in 1..l : p[i] \in Steps
    BY <1>2, <2>1
  <2>3. \A i \in DOMAIN p : p[i].do \in Events /\ p[i].n = n /\ p[i].k \in Ids
    BY <1>1 DEF FInv, PendingOK
  <2> QED
    BY <1>1, <1>2, <2>1, <2>2, <2>3
<1>4. PICK u : u = SubSeq(p, 1, size)
  OBVIOUS
<1>5. PICK v : v = SubSeq(p, size + 1, l)
  OBVIOUS
<1>6. u \in Seq(Steps) /\ Len(u) = size /\ \A i \in 1..size : u[i] = p[i]
  <2>1. 1 \in Int /\ size \in Int /\ \A i \in 1..size : p[i] \in Steps
    BY <1>3
  <2>2. /\ u \in Seq(Steps) /\ Len(u) = IF 1 <= size THEN size - 1 + 1 ELSE 0
        /\ \A i \in 1..(size - 1 + 1) : u[i] = p[1 + i - 1]
    BY <1>4, <2>1, SubSeqProperties
  <2>3. size - 1 + 1 = size /\ 1 <= size /\ \A i \in 1..size : 1 + i - 1 = i
    BY <1>3
  <2> QED
    BY <2>2, <2>3
<1>7. /\ v \in Seq(Steps) /\ Len(v) = l - size
      /\ \A i \in 1..(l - size) : v[i] = p[i + size]
  <2>1. size + 1 \in Int /\ l \in Int /\ \A i \in (size + 1)..l : p[i] \in Steps
    BY <1>3
  <2>2. /\ v \in Seq(Steps)
        /\ Len(v) = IF size + 1 <= l THEN l - (size + 1) + 1 ELSE 0
        /\ \A i \in 1..(l - (size + 1) + 1) : v[i] = p[(size + 1) + i - 1]
    BY <1>5, <2>1, SubSeqProperties
  <2>3. PICK m : m = Len(v)
    OBVIOUS
  <2>4. m = IF size + 1 <= l THEN l - (size + 1) + 1 ELSE 0
    BY <2>2, <2>3
  <2>5. m = l - size
    BY ONLY <1>3, <2>4
  <2>6. ASSUME NEW i \in 1..(l - size) PROVE v[i] = p[i + size]
    <3>1. i \in 1..(l - (size + 1) + 1) /\ (size + 1) + i - 1 = i + size
      BY <1>3
    <3> QED
      BY <2>2, <3>1
  <2> QED
    BY <2>2, <2>3, <2>5, <2>6
<1>8. PICK F : F = Frame("batch", u, FALSE)
  OBVIOUS
<1>9. F \in Frames /\ F.call = "batch" /\ F.todo = u
  BY <1>6, <1>8 DEF Frame, Frames
<1>10. ASSUME NEW os, NEW cs PROVE FrameOK(F, TRUE, os, cs)
  <2>1. DOMAIN u = 1..size
    BY <1>6
  <2>2. \A i \in 1..size : u[i].do \in Events /\ u[i].n \in Natives /\ u[i].k \in Ids
    BY <1>3, <1>6
  <2>3. \A i \in 1..size : StepOK(F, i, TRUE, os, cs)
    BY <1>9, <2>1, <2>2 DEF StepOK, Does, Events, Tells
  <2> QED
    BY <1>9, <2>1, <2>3 DEF FrameOK
<1> QED
  BY <1>1, <1>2, <1>4, <1>5, <1>6, <1>7, <1>8, <1>9, <1>10

LEMMA DeliverShape == ASSUME FInv, NEW n \in Natives, Deliver(n) PROVE NewShape /\ Quiet
<1>1. PICK size \in 1..Len(pending[n]) :
        stack' = <<Frame("batch", SubSeq(pending[n], 1, size), FALSE)>>
  BY DEF Deliver
<1>2. stack = <<>> /\ UNCHANGED <<objs, connections>>
  BY DEF Deliver
<1>3. PICK F : F = Frame("batch", SubSeq(pending[n], 1, size), FALSE)
  OBVIOUS
<1>4. F \in Frames /\ FrameOK(F, TRUE, objs, connections)
  BY <1>3, BatchFrame
<1>5. Shape(<<F>>, objs, connections) /\ Announcers(<<F>>) = {}
  <2>1. F.call # "close"
    BY <1>3 DEF Frame
  <2> QED
    BY <1>2, <1>4, <2>1, SingleFrame
<1>6. Announcers(stack) = {}
  BY <1>2, EmptyStack
<1> QED
  BY <1>1, <1>2, <1>3, <1>5, <1>6, TypeFacts DEF NewShape, Quiet

\* The next step is dropped.
LEMMA DropShape ==
  ASSUME FInv, NEW x \in Events, About(x), stack' = WithTop(Rest),
         UNCHANGED <<objs, connections>>
  PROVE  NewShape /\ Quiet
<1>1. /\ stack # <<>> /\ Top.todo # <<>>
      /\ Head(Top.todo).do \notin {"connection", "tellClose", "serverClose"}
  BY DEF About, Events
<1>2. /\ stack' \in Seq(Frames) /\ LowOK(stack', objs, connections)
      /\ \A o : Owes(stack, o) => Owes(stack', o)
      /\ Announcers(stack') = Announcers(stack)
  BY <1>1, Advances
<1>3. StackOK(stack', objs, connections) /\ Remembered(stack', objs, connections)
  BY <1>2, LowStackOK, TypeFacts DEF Remembered
<1> QED
  BY <1>2, <1>3, TypeFacts DEF NewShape, Shape, Quiet

LEMMA IgnoreShape == ASSUME FInv, IgnoreEvent PROVE NewShape /\ Quiet
  BY DropShape DEF IgnoreEvent, Events

\* A handler puts its steps first.
LEMMA FillShape ==
  ASSUME FInv, NEW x \in Events \cup {"install"}, About(x),
         NEW steps \in Seq(Steps), stack' = Continue(steps),
         \A i \in DOMAIN steps : FitsIn(steps[i], i, Len(steps), objs', connections'),
         objs' \in Seq(Objs), connections' \in Seq(Nat \ {0}),
         MapOK(objs', connections'),
         \A o \in DOMAIN objs' : objs'[o].life \in {"new", "open"} =>
            \/ Known(connections', o)
            \/ \E i \in DOMAIN steps : /\ steps[i].do \in {"connection", "tellClose"}
                                       /\ steps[i].k = o
  PROVE  NewShape /\ Quiet
<1>1. PICK os : os = objs'
  OBVIOUS
<1>2. PICK cs : cs = connections'
  OBVIOUS
<1>3. \A i \in DOMAIN steps : FitsIn(steps[i], i, Len(steps), os, cs)
  BY <1>1, <1>2
<1>4. /\ Continue(steps) \in Seq(Frames) /\ StackOK(Continue(steps), os, cs)
      /\ \A i \in DOMAIN steps : steps[i].do \in {"connection", "tellClose"} =>
           Owes(Continue(steps), steps[i].k)
      /\ Announcers(stack) = {} /\ Announcers(Continue(steps)) = {}
  BY <1>3, Continues
<1>5. PICK w : w = stack'
  OBVIOUS
<1>6. /\ w \in Seq(Frames) /\ StackOK(w, os, cs)
      /\ \A i \in DOMAIN steps : steps[i].do \in {"connection", "tellClose"} =>
           Owes(w, steps[i].k)
  BY <1>4, <1>5
<1>7. Remembered(w, os, cs)
  BY <1>1, <1>2, <1>6 DEF Remembered
<1> QED
  BY <1>1, <1>2, <1>4, <1>5, <1>6, <1>7 DEF NewShape, Shape, Quiet

\* Before an event is handled, everybody who is owed something is known.
LEMMA BatchKnown ==
  ASSUME FInv, NEW x \in Events \cup {"install"}, About(x)
  PROVE  \A o \in DOMAIN objs : objs[o].life \in {"new", "open"} => Known(connections, o)
  BY BatchTop, TypeFacts DEF Remembered

LEMMA TellType ==
  /\ \A what \in Tells \cup {"server", "callback", "serverClose"}, o \in Nat :
        Tell(what, o) \in Steps /\ Tell(what, o).do = what /\ Tell(what, o).k = o
  /\ \A n \in Natives, k \in Ids :
        /\ Step("install", n, k) \in Steps /\ Step("install", n, k).do = "install"
        /\ Step("install", n, k).n = n /\ Step("install", n, k).k = k
<1>1. \A what \in Tells \cup {"server", "callback", "serverClose"}, o \in Nat :
        Tell(what, o) \in Steps /\ Tell(what, o).do = what /\ Tell(what, o).k = o
  BY DEF Tell, Step, Steps, Kinds
<1>2. \A n \in Natives, k \in Ids : n \in Nat /\ k \in Nat
  BY FacadeAssumption DEF Natives
<1>3. \A n \in Natives, k \in Ids :
        /\ Step("install", n, k) \in Steps /\ Step("install", n, k).do = "install"
        /\ Step("install", n, k).n = n /\ Step("install", n, k).k = k
  BY <1>2 DEF Step, Steps, Kinds
<1> QED
  BY <1>1, <1>3

LEMMA OneStep ==
  ASSUME NEW a \in Steps, NEW s, s = <<a>>
  PROVE  s \in Seq(Steps) /\ Len(s) = 1 /\ DOMAIN s = {1} /\ s[1] = a
  OBVIOUS

LEMMA TwoSteps ==
  ASSUME NEW a \in Steps, NEW b \in Steps, NEW s, s = <<a, b>>
  PROVE  s \in Seq(Steps) /\ Len(s) = 2 /\ DOMAIN s = {1, 2} /\ s[1] = a /\ s[2] = b
  OBVIOUS

LEMMA ThreeSteps ==
  ASSUME NEW a \in Steps, NEW b \in Steps, NEW c \in Steps, NEW s, s = <<a, b, c>>
  PROVE  s \in Seq(Steps) /\ Len(s) = 3 /\ DOMAIN s = {1, 2, 3}
         /\ s[1] = a /\ s[2] = b /\ s[3] = c
  OBVIOUS

\* A connection is told its 'close': what it needs to stand in a batch.
LEMMA DropKnown ==
  ASSUME FInv, NEW x \in Events \cup {"install"}, About(x), NEW o, Known(connections, o),
         NEW cs, cs = Without(o)
  PROVE  /\ o \in DOMAIN objs /\ o \in Nat
         /\ cs \in Seq(Nat \ {0}) /\ MapOK(objs, cs)
         /\ \A p \in DOMAIN objs : objs[p].life \in {"new", "open"} =>
              Known(cs, p) \/ p = o
         /\ \A i \in DOMAIN cs : objs[cs[i]].id # objs[o].id
<1>1. o \in DOMAIN objs
  BY TypeFacts DEF Known, MapOK
<1>2. o \in Nat
  BY <1>1, TypeFacts
<1>3. /\ cs \in Seq(Nat \ {0}) /\ MapOK(objs, cs)
      /\ \A c : Known(connections, c) /\ c # o => Known(cs, c)
      /\ \A i \in DOMAIN cs : objs[cs[i]].id # objs[o].id
  BY WithoutFacts
<1>4. \A p \in DOMAIN objs : objs[p].life \in {"new", "open"} => Known(connections, p)
  BY BatchKnown
<1> QED
  BY <1>1, <1>2, <1>3, <1>4

LEMMA ConnectShape == ASSUME FInv, HandleConnect PROVE NewShape /\ Quiet
<1>1. About("connect") /\ objs' = objs
  BY DEF HandleConnect
<1>2. PICK e : e = Head(Top.todo)
  OBVIOUS
<1>3. e.n \in Natives /\ e.k \in Ids
  BY <1>1, <1>2, BatchTop DEF Events
<1>4. Step("install", e.n, e.k) \in Steps
  BY <1>3, TellType
<1>5. CASE Lookup(e.k) = {}
  <2>1. stack' = Continue(<<Step("install", e.n, e.k)>>) /\ connections' = connections
    BY <1>2, <1>5 DEF HandleConnect
  <2>2. PICK s : s = <<Step("install", e.n, e.k)>>
    OBVIOUS
  <2>3. s \in Seq(Steps) /\ Len(s) = 1 /\ DOMAIN s = {1} /\ s[1] = Step("install", e.n, e.k)
    BY <1>4, <2>2, OneStep
  <2>4. FitsIn(s[1], 1, 1, objs, connections)
    BY <1>3, <1>5, <2>3, TellType, LookupIs DEF FitsIn, Tells
  <2>5. \A i \in DOMAIN s : FitsIn(s[i], i, Len(s), objs', connections')
    BY <1>1, <2>1, <2>3, <2>4
  <2>6. /\ objs' \in Seq(Objs) /\ connections' \in Seq(Nat \ {0})
        /\ MapOK(objs', connections')
    BY <1>1, <2>1, TypeFacts
  <2>7. \A o \in DOMAIN objs' : objs'[o].life \in {"new", "open"} => Known(connections', o)
    BY <1>1, <2>1, BatchKnown DEF Events
  <2>8. stack' = Continue(s)
    BY <2>1, <2>2
  <2> QED
    BY <1>1, <2>3, <2>5, <2>6, <2>7, <2>8, FillShape DEF Events
<1>6. CASE Lookup(e.k) # {}
  <2>1. PICK old \in Lookup(e.k) :
          /\ connections' = Without(old)
          /\ stack' = Continue(<<Tell("tellClose", old), Tell("server", old),
                                 Step("install", e.n, e.k)>>)
    BY <1>2, <1>6 DEF HandleConnect
  <2>2. Known(connections, old) /\ objs[old].id = e.k
    BY LookupIs
  <2>3. PICK cs : cs = connections'
    OBVIOUS
  <2>4. /\ old \in DOMAIN objs /\ old \in Nat
        /\ cs \in Seq(Nat \ {0}) /\ MapOK(objs, cs)
        /\ \A p \in DOMAIN objs : objs[p].life \in {"new", "open"} =>
              Known(cs, p) \/ p = old
        /\ \A i \in DOMAIN cs : objs[cs[i]].id # objs[old].id
    BY <1>1, <2>1, <2>2, <2>3, DropKnown DEF Events
  <2>5. Tell("tellClose", old) \in Steps /\ Tell("server", old) \in Steps
    BY <2>4, TellType DEF Tells
  <2>6. PICK s : s = <<Tell("tellClose", old), Tell("server", old), Step("install", e.n, e.k)>>
    OBVIOUS
  <2>7. /\ s \in Seq(Steps) /\ Len(s) = 3 /\ DOMAIN s = {1, 2, 3}
        /\ s[1] = Tell("tellClose", old) /\ s[2] = Tell("server", old)
        /\ s[3] = Step("install", e.n, e.k)
    BY <1>4, <2>5, <2>6, ThreeSteps
  <2>8. s[1].do = "tellClose" /\ s[1].k = old /\ s[2].do = "server"
        /\ s[3].do = "install" /\ s[3].n = e.n /\ s[3].k = e.k
    BY <1>3, <2>4, <2>7, TellType DEF Tells
  <2>9. \A i \in DOMAIN s : FitsIn(s[i], i, Len(s), objs, cs)
    BY <1>3, <2>2, <2>4, <2>7, <2>8 DEF FitsIn, Tells
  <2>10. \A p \in DOMAIN objs : objs[p].life \in {"new", "open"} =>
            \/ Known(cs, p)
            \/ \E i \in DOMAIN s : s[i].do \in {"connection", "tellClose"} /\ s[i].k = p
    BY <2>4, <2>7, <2>8
  <2>11. stack' = Continue(s)
    BY <2>1, <2>6
  <2>12. objs \in Seq(Objs)
    BY TypeFacts
  <2> QED
    BY <1>1, <2>3, <2>4, <2>7, <2>9, <2>10, <2>11, <2>12, FillShape DEF Events
<1> QED
  BY <1>5, <1>6

\* A new connection enters the map and is about to be told.
LEMMA EnterRemembered ==
  ASSUME FInv, NEW x \in Events \cup {"install"}, About(x),
         NEW id, NEW n, NEW b, NEW o, NEW os, NEW cs, Enters(id, n, b, o, os, cs)
  PROVE  \A p \in DOMAIN os : os[p].life \in {"new", "open"} => Known(cs, p)
<1>0. HasEntered(id, n, b, o, os, cs)
  BY EnterFacts
<1>1. /\ DOMAIN os = DOMAIN objs \cup {o}
      /\ \A p \in DOMAIN objs : os[p] = objs[p]
      /\ \A c : Known(cs, c) <=> Known(connections, c) \/ c = o
  BY <1>0 DEF HasEntered
<1>2. \A p \in DOMAIN objs : objs[p].life \in {"new", "open"} => Known(connections, p)
  BY BatchKnown
<1> QED
  BY <1>1, <1>2

LEMMA InstallShape == ASSUME FInv, Install PROVE NewShape /\ Quiet
<1>1. About("install")
  BY DEF Install
<1>2. PICK e : e = Head(Top.todo)
  OBVIOUS
<1>3. e.n \in Natives /\ e.k \in Ids /\ Lookup(e.k) = {}
  BY <1>1, <1>2, BatchTop, LookupIs
<1>4. PICK o : o = Len(objs) + 1
  OBVIOUS
<1>15. PICK b \in BOOLEAN : b = (e.do = "data")
  OBVIOUS
<1>6. PICK os : os = Append(objs, Fresh(e.k, e.n, b))
  OBVIOUS
<1>7. PICK cs : cs = With(o, e.k)
  OBVIOUS
<1>5. Enters(e.k, e.n, b, o, os, cs)
  BY <1>3, <1>4, <1>6, <1>7 DEF Enters
<1>8. objs' = os /\ connections' = cs /\ stack' = Continue(<<Tell("connection", o)>>)
  BY <1>2, <1>4, <1>6, <1>7, <1>15 DEF Install, NewObject, Fresh
<1>9. /\ os \in Seq(Objs) /\ cs \in Seq(Nat \ {0}) /\ MapOK(os, cs)
      /\ o \in DOMAIN os /\ Known(cs, o) /\ o \in Nat
  <2>1. HasEntered(e.k, e.n, b, o, os, cs)
    BY <1>5, EnterFacts
  <2> QED
    BY <2>1 DEF HasEntered
<1>10. \A p \in DOMAIN os : os[p].life \in {"new", "open"} => Known(cs, p)
  BY <1>1, <1>5, EnterRemembered
<1>11. PICK s : s = <<Tell("connection", o)>>
  OBVIOUS
<1>12. /\ s \in Seq(Steps) /\ Len(s) = 1 /\ DOMAIN s = {1}
       /\ s[1].do = "connection" /\ s[1].k = o
  <2>1. Tell("connection", o) \in Steps /\ Tell("connection", o).do = "connection"
        /\ Tell("connection", o).k = o
    BY <1>9, TellType DEF Tells
  <2> QED
    BY <1>11, <2>1, OneStep
<1>13. \A i \in DOMAIN s : FitsIn(s[i], i, Len(s), os, cs)
  BY <1>9, <1>12 DEF FitsIn, Tells
<1>14. stack' = Continue(s)
  BY <1>8, <1>11
<1> QED
  BY <1>1, <1>8, <1>9, <1>10, <1>12, <1>13, <1>14, FillShape

LEMMA DataShape == ASSUME FInv, HandleData PROVE NewShape /\ Quiet
<1>1. About("data")
  BY DEF HandleData
<1>2. PICK e : e = Head(Top.todo)
  OBVIOUS
<1>3. e.n \in Natives /\ e.k \in Ids
  BY <1>1, <1>2, BatchTop DEF Events
<1>4. CASE Lookup(e.k) = {}
  <2>1. PICK o : o = Len(objs) + 1
    OBVIOUS
  <2>12. PICK b \in BOOLEAN : b = (e.do = "data")
    OBVIOUS
  <2>3. PICK os : os = Append(objs, Fresh(e.k, e.n, b))
    OBVIOUS
  <2>4. PICK cs : cs = With(o, e.k)
    OBVIOUS
  <2>2. Enters(e.k, e.n, b, o, os, cs)
    BY <1>3, <1>4, <2>1, <2>3, <2>4 DEF Enters
  <2>5. /\ objs' = os /\ connections' = cs
        /\ stack' = Continue(<<Tell("connection", o), Tell("tellData", o), Tell("server", o)>>)
    BY <1>2, <1>4, <2>1, <2>3, <2>4, <2>12 DEF HandleData, NewObject, Fresh
  <2>6. /\ os \in Seq(Objs) /\ cs \in Seq(Nat \ {0}) /\ MapOK(os, cs)
        /\ o \in DOMAIN os /\ Known(cs, o) /\ o \in Nat
    <3>1. HasEntered(e.k, e.n, b, o, os, cs)
      BY <2>2, EnterFacts
    <3> QED
      BY <3>1 DEF HasEntered
  <2>7. \A p \in DOMAIN os : os[p].life \in {"new", "open"} => Known(cs, p)
    BY <1>1, <2>2, EnterRemembered DEF Events
  <2>8. PICK s : s = <<Tell("connection", o), Tell("tellData", o), Tell("server", o)>>
    OBVIOUS
  <2>9. /\ s \in Seq(Steps) /\ Len(s) = 3 /\ DOMAIN s = {1, 2, 3}
        /\ s[1].do = "connection" /\ s[1].k = o
        /\ s[2].do = "tellData" /\ s[2].k = o
        /\ s[3].do = "server"
    <3>1. /\ Tell("connection", o) \in Steps /\ Tell("connection", o).do = "connection"
          /\ Tell("connection", o).k = o
          /\ Tell("tellData", o) \in Steps /\ Tell("tellData", o).do = "tellData"
          /\ Tell("tellData", o).k = o
          /\ Tell("server", o) \in Steps /\ Tell("server", o).do = "server"
      BY <2>6, TellType DEF Tells
    <3> QED
      BY <2>8, <3>1, ThreeSteps
  <2>10. \A i \in DOMAIN s : FitsIn(s[i], i, Len(s), os, cs)
    BY <2>6, <2>9 DEF FitsIn, Tells
  <2>11. stack' = Continue(s)
    BY <2>5, <2>8
  <2> QED
    BY <1>1, <2>5, <2>6, <2>7, <2>9, <2>10, <2>11, FillShape DEF Events
<1>5. CASE Lookup(e.k) # {}
  <2>1. PICK o \in Lookup(e.k) : stack' = Continue(<<Tell("tellData", o), Tell("server", o)>>)
    BY <1>2, <1>5 DEF HandleData
  <2>2. objs' = objs /\ connections' = connections
    BY <1>2, <1>5 DEF HandleData
  <2>3. o \in DOMAIN objs /\ o \in Nat
    <3>1. o \in DOMAIN objs
      BY LookupIs
    <3> QED
      BY <3>1, TypeFacts
  <2>4. PICK s : s = <<Tell("tellData", o), Tell("server", o)>>
    OBVIOUS
  <2>5. /\ s \in Seq(Steps) /\ Len(s) = 2 /\ DOMAIN s = {1, 2}
        /\ s[1].do = "tellData" /\ s[1].k = o /\ s[2].do = "server"
    <3>1. /\ Tell("tellData", o) \in Steps /\ Tell("tellData", o).do = "tellData"
          /\ Tell("tellData", o).k = o
          /\ Tell("server", o) \in Steps /\ Tell("server", o).do = "server"
      BY <2>3, TellType DEF Tells
    <3> QED
      BY <2>4, <3>1, TwoSteps
  <2>6. \A i \in DOMAIN s : FitsIn(s[i], i, Len(s), objs, connections)
    BY <2>3, <2>5 DEF FitsIn, Tells
  <2>7. \A p \in DOMAIN objs : objs[p].life \in {"new", "open"} => Known(connections, p)
    BY <1>1, BatchKnown DEF Events
  <2>8. stack' = Continue(s)
    BY <2>1, <2>4
  <2> QED
    BY <1>1, <2>2, <2>5, <2>6, <2>7, <2>8, FillShape, TypeFacts DEF Events
<1> QED
  BY <1>4, <1>5

LEMMA CloseShape == ASSUME FInv, HandleClose PROVE NewShape /\ Quiet
<1>1. About("close") /\ objs' = objs
  BY DEF HandleClose
<1>2. PICK e : e = Head(Top.todo)
  OBVIOUS
<1>3. CASE Lookup(e.k) = {}
  <2>1. stack' = WithTop(Rest) /\ connections' = connections
    BY <1>2, <1>3 DEF HandleClose
  <2> QED
    BY <1>1, <2>1, DropShape DEF Events
<1>4. CASE Lookup(e.k) # {}
  <2>1. PICK o \in Lookup(e.k) :
          /\ connections' = Without(o)
          /\ stack' = Continue(<<Tell("tellClose", o), Tell("server", o)>>)
    BY <1>2, <1>4 DEF HandleClose
  <2>2. Known(connections, o)
    BY LookupIs
  <2>3. PICK cs : cs = connections'
    OBVIOUS
  <2>4. /\ o \in DOMAIN objs /\ o \in Nat
        /\ cs \in Seq(Nat \ {0}) /\ MapOK(objs, cs)
        /\ \A p \in DOMAIN objs : objs[p].life \in {"new", "open"} =>
              Known(cs, p) \/ p = o
    BY <1>1, <2>1, <2>2, <2>3, DropKnown DEF Events
  <2>5. PICK s : s = <<Tell("tellClose", o), Tell("server", o)>>
    OBVIOUS
  <2>6. /\ s \in Seq(Steps) /\ Len(s) = 2 /\ DOMAIN s = {1, 2}
        /\ s[1].do = "tellClose" /\ s[1].k = o /\ s[2].do = "server"
    <3>1. /\ Tell("tellClose", o) \in Steps /\ Tell("tellClose", o).do = "tellClose"
          /\ Tell("tellClose", o).k = o
          /\ Tell("server", o) \in Steps /\ Tell("server", o).do = "server"
      BY <2>4, TellType DEF Tells
    <3> QED
      BY <2>5, <3>1, TwoSteps
  <2>7. \A i \in DOMAIN s : FitsIn(s[i], i, Len(s), objs, cs)
    BY <2>4, <2>6 DEF FitsIn, Tells
  <2>8. \A p \in DOMAIN objs : objs[p].life \in {"new", "open"} =>
            \/ Known(cs, p)
            \/ \E i \in DOMAIN s : s[i].do \in {"connection", "tellClose"} /\ s[i].k = p
    BY <2>4, <2>6
  <2>9. stack' = Continue(s)
    BY <2>1, <2>5
  <2>10. objs \in Seq(Objs)
    BY TypeFacts
  <2> QED
    BY <1>1, <2>3, <2>4, <2>6, <2>7, <2>8, <2>9, <2>10, FillShape DEF Events
<1> QED
  BY <1>3, <1>4

\* A connection is told: it keeps its id, and only its life changes.
LEMMA ToldObjs ==
  ASSUME FInv, TellConnection, NEW s, s = Head(Top.todo)
  PROVE  /\ stack # <<>> /\ Top.todo # <<>>
         /\ s.do \in Tells /\ s.k \in DOMAIN objs
         /\ s.do = "connection" => Known(connections, s.k)
         /\ objs' \in Seq(Objs) /\ DOMAIN objs' = DOMAIN objs
         /\ \A o \in DOMAIN objs : /\ objs'[o].id = objs[o].id
                                   /\ objs'[o].src = objs[o].src
                                   /\ objs'[o].found = objs[o].found
                                   /\ o # s.k => objs'[o] = objs[o]
         /\ objs'[s.k].life = Told(objs[s.k].life, s.do)
         /\ objs'[s.k].destroyed = (objs[s.k].destroyed \/ s.do = "tellClose")
<1>1. stack # <<>> /\ Top.todo # <<>> /\ s.do \in Tells
  BY DEF TellConnection, About, Tells
<1>2. StepOK(Top, 1, TRUE, objs, connections) /\ s = Top.todo[1]
  BY <1>1, HeadFacts
<1>3. s.k \in DOMAIN objs /\ (s.do = "connection" => Known(connections, s.k))
  BY <1>1, <1>2 DEF StepOK
<1>4. objs \in Seq(Objs) /\ DOMAIN objs = 1..Len(objs) /\ Len(objs) \in Nat
  BY TypeFacts
<1>5. PICK c : c = s.k
  OBVIOUS
<1>6. PICK l : l = Told(objs[c].life, s.do)
  OBVIOUS
<1>7. PICK d : d = (objs[c].destroyed \/ s.do = "tellClose")
  OBVIOUS
<1>8. objs[c] \in Objs
  BY <1>3, <1>4, <1>5
<1>9. l \in {"new", "open", "closed", "late", "broken"} /\ d \in BOOLEAN
  BY <1>6, <1>7, <1>8 DEF Told, Objs
<1>10. PICK b : b = [objs[c] EXCEPT !.life = l, !.destroyed = d]
  OBVIOUS
<1>11. /\ b \in Objs /\ b.id = objs[c].id /\ b.src = objs[c].src /\ b.found = objs[c].found
       /\ b.life = l /\ b.destroyed = d
  BY <1>8, <1>9, <1>10, Zenon DEF Objs
<1>12. objs' = [objs EXCEPT ![c] = b]
  BY <1>5, <1>6, <1>7, <1>10, Zenon DEF TellConnection
<1>13. /\ objs' \in Seq(Objs) /\ DOMAIN objs' = DOMAIN objs
       /\ \A o \in DOMAIN objs : o # c => objs'[o] = objs[o]
       /\ objs'[c] = b
  BY <1>3, <1>4, <1>5, <1>11, <1>12
<1> QED
  BY <1>1, <1>3, <1>5, <1>6, <1>7, <1>11, <1>13

\* A listener is put on a stack that owes what the old one owed.
LEMMA PushListener ==
  ASSUME NEW st \in Seq(Frames), NEW os, NEW cs, LowOK(st, os, cs), MapOK(os, cs),
         Remembered(st, os, cs)
  PROVE  /\ Shape(Append(st, Listener), os, cs)
         /\ Announcers(Append(st, Listener)) = Announcers(st)
<1>1. Listener \in Frames /\ FrameOK(Listener, TRUE, os, cs)
  BY ListenerOK
<1>2. Listener.call # "batch"
  BY DEF Listener, Frame
<1>3. Append(st, Listener) \in Seq(Frames) /\ StackOK(Append(st, Listener), os, cs)
  BY <1>1, <1>2, PushOK
<1>4. Remembered(Append(st, Listener), os, cs)
  BY <1>1, PushOwes DEF Remembered
<1>5. ~Announces(Listener)
  <2>1. Listener.todo = <<>> /\ DOMAIN <<>> = {}
    BY DEF Listener, Frame
  <2> QED
    BY <2>1 DEF Announces
<1>6. Announcers(Append(st, Listener)) = Announcers(st)
  BY <1>1, <1>5, PushAnnouncers
<1> QED
  BY <1>3, <1>4, <1>6 DEF Shape

LEMMA TellConnectionShape == ASSUME FInv, TellConnection PROVE NewShape /\ Quiet
<1>1. PICK s : s = Head(Top.todo)
  OBVIOUS
<1>2. PICK os : os = objs'
  OBVIOUS
<1>3. PICK st : st = WithTop(Rest)
  OBVIOUS
<1>4. stack' = Append(st, Listener) /\ connections' = connections
  BY <1>3 DEF TellConnection
<1>5. /\ stack # <<>> /\ Top.todo # <<>>
      /\ s.do \in Tells /\ s.k \in DOMAIN objs
      /\ s.do = "connection" => Known(connections, s.k)
      /\ os \in Seq(Objs) /\ DOMAIN os = DOMAIN objs
      /\ \A o \in DOMAIN objs : /\ os[o].id = objs[o].id
                                /\ o # s.k => os[o] = objs[o]
      /\ os[s.k].life = Told(objs[s.k].life, s.do)
  BY <1>1, <1>2, ToldObjs
<1>6. /\ st \in Seq(Frames) /\ LowOK(st, objs, connections)
      /\ \A o : Owes(stack, o) =>
           Owes(st, o) \/ (s.do \in {"connection", "tellClose"} /\ s.k = o)
      /\ Announcers(st) = Announcers(stack)
  <2>1. s.do # "serverClose"
    BY <1>5 DEF Tells
  <2> QED
    BY <1>1, <1>3, <1>5, <2>1, Advances
<1>7. MapOK(objs, connections) /\ Remembered(stack, objs, connections)
  BY TypeFacts
<1>8. LowOK(st, os, connections) /\ MapOK(os, connections)
  <2>1. Shrinks(objs, connections, os, connections)
    BY <1>5 DEF Shrinks, Known
  <2>2. MapOK(os, connections)
    BY <1>5, <1>7 DEF MapOK
  <2> QED
    BY <1>6, <1>7, <2>1, <2>2, ShrinksLow
<1>9. Remembered(st, os, connections)
  <2> SUFFICES ASSUME NEW o \in DOMAIN objs, os[o].life \in {"new", "open"}
               PROVE  Known(connections, o) \/ Owes(st, o)
    BY <1>5 DEF Remembered
  <2>1. CASE o # s.k
    BY <1>5, <1>6, <1>7, <2>1 DEF Remembered
  <2>2. CASE o = s.k
    <3>1. \/ s.do = "connection"
          \/ s.do = "tellData" /\ objs[o].life = "open"
      BY <1>5, <2>2 DEF Told, Tells
    <3> QED
      BY <1>5, <1>6, <1>7, <2>2, <3>1 DEF Remembered
  <2> QED
    BY <2>1, <2>2
<1>10. /\ Shape(Append(st, Listener), os, connections)
       /\ Announcers(Append(st, Listener)) = Announcers(st)
  BY <1>6, <1>8, <1>9, PushListener
<1>11. connections \in Seq(Nat \ {0})
  BY TypeFacts
<1> QED
  BY <1>2, <1>4, <1>5, <1>6, <1>10, <1>11 DEF NewShape, Quiet

LEMMA TellServerShape == ASSUME FInv, TellServer
  PROVE /\ NewShape
        /\ IF About("serverClose")
           THEN /\ Len(stack) \in Announcers(stack)
                /\ Announcers(stack') = Announcers(stack) \ {Len(stack)}
           ELSE Quiet
<1>1. PICK st : st = WithTop(Rest)
  OBVIOUS
<1>2. stack' = Append(st, Listener) /\ connections' = connections /\ objs' = objs
  BY <1>1 DEF TellServer
<1>3. /\ stack # <<>> /\ Top.todo # <<>>
      /\ Head(Top.todo).do \in {"server", "callback", "serverClose"}
  BY DEF TellServer, About
<1>4. /\ st \in Seq(Frames) /\ LowOK(st, objs, connections)
      /\ \A o : Owes(stack, o) => Owes(st, o)
      /\ IF About("serverClose")
         THEN /\ Len(stack) \in Announcers(stack)
              /\ Announcers(st) = Announcers(stack) \ {Len(stack)}
         ELSE Announcers(st) = Announcers(stack)
  BY <1>1, <1>3, Advances DEF About
<1>5. MapOK(objs, connections) /\ Remembered(stack, objs, connections)
      /\ objs \in Seq(Objs) /\ connections \in Seq(Nat \ {0})
  BY TypeFacts
<1>6. Remembered(st, objs, connections)
  BY <1>4, <1>5 DEF Remembered
<1>7. /\ Shape(Append(st, Listener), objs, connections)
      /\ Announcers(Append(st, Listener)) = Announcers(st)
  BY <1>4, <1>5, <1>6, PushListener
<1> QED
  BY <1>2, <1>4, <1>5, <1>7 DEF NewShape, Quiet

\* A call ends, with an error or without one.
LEMMA PopShape ==
  ASSUME FInv, stack # <<>>, Top.todo = <<>>,
         stack' = Below \/ stack' = Thrown(Below), UNCHANGED <<objs, connections>>
  PROVE  NewShape /\ Quiet
<1>1. PICK b : b = Below
  OBVIOUS
<1>2. /\ stack \in Seq(Frames) /\ StackOK(stack, objs, connections)
      /\ MapOK(objs, connections) /\ Remembered(stack, objs, connections)
      /\ objs \in Seq(Objs) /\ connections \in Seq(Nat \ {0})
  BY TypeFacts
<1>3. stack[Len(stack)].todo = <<>> /\ b = SubSeq(stack, 1, Len(stack) - 1)
  BY <1>1, TopIs
<1>4. b \in Seq(Frames)
  BY <1>2, <1>3, FrontFacts
<1>5. LowOK(b, objs, connections)
  BY <1>2, <1>3, PopLow
<1>6. \A o : Owes(stack, o) => Owes(b, o)
  BY <1>2, <1>3, PopOwes
<1>11. Announcers(b) = Announcers(stack)
  BY <1>2, <1>3, PopAnnouncers
<1>7. PICK w : w = stack'
  OBVIOUS
<1>8. /\ w \in Seq(Frames) /\ LowOK(w, objs, connections)
      /\ \A o : Owes(stack, o) => Owes(w, o)
      /\ Announcers(w) = Announcers(stack)
  <2>1. CASE w = b
    BY <1>4, <1>5, <1>6, <1>11, <2>1
  <2>2. CASE w = Thrown(b)
    <3>1. Thrown(b) \in Seq(Frames)
      BY <1>4, ThrownFacts
    <3>2. LowOK(Thrown(b), objs, connections)
      BY <1>4, <1>5, ThrownLow
    <3>3. \A o : Owes(b, o) => Owes(Thrown(b), o)
      BY <1>4, <1>5, ThrownOwes
    <3>4. Announcers(Thrown(b)) = Announcers(b)
      BY <1>4, <1>5, ThrownAnnouncers
    <3> QED
      BY <1>6, <1>11, <2>2, <3>1, <3>2, <3>3, <3>4
  <2> QED
    BY <1>1, <1>7, <2>1, <2>2
<1>9. Remembered(w, objs, connections)
  BY <1>2, <1>8 DEF Remembered
<1>10. StackOK(w, objs, connections)
  BY <1>8, LowStackOK
<1> QED
  BY <1>2, <1>7, <1>8, <1>9, <1>10 DEF NewShape, Shape, Quiet

\* A listener makes no step of its own.
LEMMA ListenerTop == ASSUME FInv, InListener
  PROVE /\ stack # <<>> /\ Top.todo = <<>> /\ Top.call = "listener"
        /\ LowOK(stack, objs, connections)
<1>1. stack # <<>> /\ Top.call = "listener"
  BY DEF InListener
<1>2. stack \in Seq(Frames) /\ StackOK(stack, objs, connections)
  BY TypeFacts
<1>3. PICK l : l = Len(stack)
  OBVIOUS
<1>4. l \in DOMAIN stack /\ DOMAIN stack = 1..l /\ Top = stack[l] /\ Top \in Frames
  BY <1>1, <1>2, <1>3, FrontFacts, TopIs
<1>5. DOMAIN Top.todo = {}
  <2>1. PICK top : FrameOK(Top, top, objs, connections)
    BY <1>2, <1>4 DEF StackOK
  <2>2. \A i \in DOMAIN Top.todo : Top.todo[i].do \in Does("listener")
    BY <1>1, <2>1 DEF FrameOK, StepOK
  <2> QED
    BY <2>2 DEF Does
<1>6. Top.todo = <<>>
  <2>1. Top.todo \in Seq(Steps)
    BY <1>4 DEF Frames
  <2>2. Len(Top.todo) = 0
    <3>1. Len(Top.todo) \in Nat /\ DOMAIN Top.todo = 1..Len(Top.todo)
      BY <2>1
    <3>2. PICK n : n = Len(Top.todo)
      OBVIOUS
    <3>3. n \in Nat /\ 1..n = {}
      BY <1>5, <3>1, <3>2
    <3>4. n = 0
      <4>1. n # 0 => 1 \in 1..n
        BY <3>3
      <4> QED
        BY <3>3, <4>1
    <3> QED
      BY <3>2, <3>4
  <2> QED
    BY <2>1, <2>2
<1>7. ASSUME NEW f \in DOMAIN stack
      PROVE  FrameOK(stack[f], FALSE, objs, connections) /\ (stack[f].call = "batch" => f = 1)
  <2>1. FrameOK(stack[f], f = l, objs, connections) /\ (stack[f].call = "batch" => f = 1)
    BY <1>2, <1>3 DEF StackOK
  <2>2. CASE f = l
    BY <1>4, <1>5, <2>1, <2>2 DEF FrameOK
  <2>3. CASE f # l
    <3>1. (f = l) = FALSE
      BY <2>3
    <3> QED
      BY <2>1, <3>1
  <2> QED
    BY <2>2, <2>3
<1> QED
  BY <1>1, <1>6, <1>7 DEF LowOK

LEMMA ListenerEndsShape == ASSUME FInv, ListenerReturns \/ ListenerThrows PROVE NewShape /\ Quiet
<1>1. InListener /\ (stack' = Below \/ stack' = Thrown(Below)) /\ UNCHANGED <<objs, connections>>
  BY DEF ListenerReturns, ListenerThrows
<1> QED
  BY <1>1, ListenerTop, PopShape

LEMMA CallEndsShape == ASSUME FInv, CallEnds PROVE NewShape /\ Quiet
<1>1. /\ stack # <<>> /\ Top.todo = <<>> /\ (stack' = Below \/ stack' = Thrown(Below))
      /\ UNCHANGED <<objs, connections>>
  BY DEF CallEnds
<1> QED
  BY <1>1, PopShape

\* u is s followed by t, and they have m and r elements.
Joined(s, t, u, m, r) ==
    /\ u \in Seq(Steps) /\ m \in Nat /\ r \in Nat /\ Len(u) = m + r
    /\ DOMAIN s = 1..m /\ DOMAIN t = 1..r /\ DOMAIN u = 1..(m + r)
    /\ \A i \in 1..m : i \in 1..(m + r) /\ u[i] = s[i]
    /\ \A j \in 1..r : m + j \in 1..(m + r) /\ u[m + j] = t[j]
    /\ \A i \in 1..(m + r) : i \in 1..m \/ (i - m \in 1..r /\ u[i] = t[i - m])

LEMMA JoinFacts ==
  ASSUME NEW s \in Seq(Steps), NEW t \in Seq(Steps), NEW u, u = s \o t,
         NEW m, m = Len(s), NEW r, r = Len(t)
  PROVE  Joined(s, t, u, m, r)
<1>1. /\ m \in Nat /\ r \in Nat /\ DOMAIN s = 1..m /\ DOMAIN t = 1..r
  OBVIOUS
<1>2. /\ u \in Seq(Steps) /\ Len(u) = m + r
      /\ \A i \in 1..(m + r) : u[i] = IF i <= m THEN s[i] ELSE t[i - m]
  <2>1. /\ s \o t \in Seq(Steps) /\ Len(s \o t) = Len(s) + Len(t)
        /\ \A i \in 1..Len(s) + Len(t) :
              (s \o t)[i] = IF i <= Len(s) THEN s[i] ELSE t[i - Len(s)]
    BY ConcatProperties
  <2> QED
    BY <2>1, Zenon
<1>3. /\ Len(u) = m + r /\ DOMAIN u = 1..(m + r)
      /\ \A i \in 1..(m + r) : u[i] = IF i <= m THEN s[i] ELSE t[i - m]
  BY <1>1, <1>2
<1>4. \A i \in 1..m : i \in 1..(m + r) /\ i <= m
  BY <1>1
<1>5. \A j \in 1..r : m + j \in 1..(m + r) /\ ~(m + j <= m) /\ (m + j) - m = j
  BY <1>1
<1>6. \A i \in 1..(m + r) : i \in 1..m \/ (i - m \in 1..r /\ ~(i <= m))
  BY <1>1
<1>7. \A i \in 1..m : i \in 1..(m + r) /\ u[i] = s[i]
  BY <1>3, <1>4
<1>8. \A j \in 1..r : m + j \in 1..(m + r) /\ u[m + j] = t[j]
  <2> SUFFICES ASSUME NEW j \in 1..r PROVE m + j \in 1..(m + r) /\ u[m + j] = t[j]
    OBVIOUS
  <2>1. m + j \in 1..(m + r) /\ ~(m + j <= m) /\ (m + j) - m = j
    BY <1>5
  <2>2. u[m + j] = t[(m + j) - m]
    BY <1>3, <2>1
  <2> QED
    BY <2>1, <2>2
<1>9. \A i \in 1..(m + r) : i \in 1..m \/ (i - m \in 1..r /\ u[i] = t[i - m])
  BY <1>3, <1>6
<1> QED
  BY <1>1, <1>2, <1>3, <1>7, <1>8, <1>9 DEF Joined

\* The optional callback of start and close.
Asked(callback) == IF callback THEN <<Tell("callback", 0)>> ELSE <<>>

LEMMA AskedFacts ==
  ASSUME NEW callback \in BOOLEAN
  PROVE  /\ Asked(callback) \in Seq(Steps) /\ Len(Asked(callback)) \in {0, 1}
         /\ \A i \in DOMAIN Asked(callback) : Asked(callback)[i].do = "callback"
<1>1. PICK a : a = Tell("callback", 0)
  OBVIOUS
<1>2. a \in Steps /\ a.do = "callback"
  BY <1>1, TellType
<1>3. CASE callback
  <2>1. PICK s : s = <<a>>
    OBVIOUS
  <2>2. s \in Seq(Steps) /\ Len(s) = 1 /\ DOMAIN s = {1} /\ s[1] = a
    BY <1>2, <2>1, OneStep
  <2>3. Asked(callback) = s
    BY <1>1, <1>3, <2>1 DEF Asked
  <2> QED
    BY <1>2, <2>2, <2>3
<1>4. CASE ~callback
  <2>1. <<>> \in Seq(Steps) /\ Len(<<>>) = 0 /\ DOMAIN <<>> = {}
    OBVIOUS
  <2>2. Asked(callback) = <<>>
    BY <1>4 DEF Asked
  <2> QED
    BY <2>1, <2>2
<1> QED
  BY <1>3, <1>4

\* The steps of a start.
LEMMA StartFrame ==
  ASSUME NEW callback \in BOOLEAN, NEW F,
         F = Frame("start", Asked(callback) \o <<Tell("server", 0)>>, FALSE)
  PROVE  /\ F \in Frames /\ F.call = "start"
         /\ \A i \in DOMAIN F.todo : F.todo[i].do \in {"callback", "server"}
         /\ \A os, cs, top : FrameOK(F, top, os, cs)
<1>1. Tell("server", 0) \in Steps /\ Tell("server", 0).do = "server"
  BY TellType
<1>2. PICK a : a = Asked(callback)
  OBVIOUS
<1>3. a \in Seq(Steps) /\ \A i \in DOMAIN a : a[i].do = "callback"
  BY <1>2, AskedFacts
<1>4. PICK b : b = <<Tell("server", 0)>>
  OBVIOUS
<1>5. b \in Seq(Steps) /\ DOMAIN b = {1} /\ b[1].do = "server"
  BY <1>1, <1>4, OneStep
<1>6. PICK t : t = a \o b
  OBVIOUS
<1>7. t \in Seq(Steps) /\ \A i \in DOMAIN t : t[i].do \in {"callback", "server"}
  <2>1. PICK m : m = Len(a)
    OBVIOUS
  <2>2. PICK r : r = Len(b)
    OBVIOUS
  <2>3. /\ t \in Seq(Steps) /\ DOMAIN a = 1..m /\ DOMAIN b = 1..r /\ DOMAIN t = 1..(m + r)
        /\ \A i \in 1..m : i \in 1..(m + r) /\ t[i] = a[i]
        /\ \A i \in 1..(m + r) : i \in 1..m \/ (i - m \in 1..r /\ t[i] = b[i - m])
    <3>1. Joined(a, b, t, m, r)
      BY <1>3, <1>5, <1>6, <2>1, <2>2, JoinFacts
    <3> QED
      BY <3>1 DEF Joined
  <2> QED
    BY <1>3, <1>5, <2>3
<1>8. F \in Frames /\ F.call = "start" /\ F.todo = t
  BY <1>2, <1>4, <1>6, <1>7 DEF Frame, Frames
<1>9. ASSUME NEW os, NEW cs, NEW top PROVE FrameOK(F, top, os, cs)
  BY <1>7, <1>8 DEF FrameOK, StepOK, Does, Events, Tells
<1> QED
  BY <1>7, <1>8, <1>9

LEMMA StartShape == ASSUME FInv, NEW n \in Natives, Start(n) PROVE NewShape /\ Quiet
<1>1. PICK callback \in BOOLEAN :
        stack' = Append(stack,
                   Frame("start",
                         (IF callback THEN <<Tell("callback", 0)>> ELSE <<>>)
                           \o <<Tell("server", 0)>>, FALSE))
  BY DEF Start
<1>2. PICK F : F = Frame("start", Asked(callback) \o <<Tell("server", 0)>>, FALSE)
  OBVIOUS
<1>3. stack' = Append(stack, F) /\ UNCHANGED <<objs, connections>>
  BY <1>1, <1>2 DEF Start, Asked
<1>4. F \in Frames /\ F.call = "start" /\ FrameOK(F, TRUE, objs, connections)
  BY <1>2, StartFrame
<1>5. InListener
  BY DEF Start, Call
<1>6. LowOK(stack, objs, connections)
  BY <1>5, ListenerTop
<1>7. /\ stack \in Seq(Frames) /\ MapOK(objs, connections)
      /\ Remembered(stack, objs, connections)
      /\ objs \in Seq(Objs) /\ connections \in Seq(Nat \ {0})
  BY TypeFacts
<1>8. Append(stack, F) \in Seq(Frames) /\ StackOK(Append(stack, F), objs, connections)
  BY <1>4, <1>6, <1>7, PushOK
<1>10. Announcers(Append(stack, F)) = Announcers(stack)
  <2>1. ~Announces(F)
    <3>1. \A i \in DOMAIN F.todo : F.todo[i].do \in {"callback", "server"}
      BY <1>2, StartFrame
    <3> QED
      BY <3>1 DEF Announces
  <2> QED
    BY <1>4, <1>7, <2>1, PushAnnouncers
<1>9. Remembered(Append(stack, F), objs, connections)
  BY <1>4, <1>7, PushOwes DEF Remembered
<1> QED
  BY <1>3, <1>7, <1>8, <1>9, <1>10 DEF NewShape, Shape, Quiet

Goodbyes == [i \in DOMAIN connections |-> Tell("tellClose", connections[i])]

\* The steps of a close(): a 'close' for every connection, the callback, and the
\* server's 'close' at the end.
LEMMA CloseFrame ==
  ASSUME FInv, NEW callback \in BOOLEAN, NEW stopError \in BOOLEAN,
         NEW F, F = Frame("close", Goodbyes \o Asked(callback) \o <<Tell("serverClose", 0)>>,
                          stopError)
  PROVE  /\ F \in Frames /\ F.call = "close"
         /\ Len(F.todo) \in Nat /\ DOMAIN F.todo = 1..Len(F.todo) /\ Len(F.todo) > 0
         /\ \A i \in DOMAIN connections :
              i \in DOMAIN F.todo /\ F.todo[i].do = "tellClose" /\ F.todo[i].k = connections[i]
         /\ \A i \in DOMAIN F.todo :
              \/ i \in DOMAIN connections
              \/ F.todo[i].do = "callback"
              \/ F.todo[i].do = "serverClose" /\ i = Len(F.todo)
         /\ F.todo[Len(F.todo)].do = "serverClose"
<1>1. PICK n : n = Len(connections)
  OBVIOUS
<1>2. /\ n \in Nat /\ DOMAIN connections = 1..n
      /\ \A i \in 1..n : connections[i] \in Nat
  <2>1. connections \in Seq(Nat \ {0}) /\ DOMAIN connections = 1..Len(connections)
        /\ Len(connections) \in Nat
    BY TypeFacts
  <2> QED
    BY <1>1, <2>1
<1>3. PICK c : c = Goodbyes
  OBVIOUS
<1>4. c \in Seq(Steps) /\ Len(c) = n
      /\ \A i \in 1..n : c[i].do = "tellClose" /\ c[i].k = connections[i]
  <2>1. \A i \in 1..n : /\ Tell("tellClose", connections[i]) \in Steps
                        /\ Tell("tellClose", connections[i]).do = "tellClose"
                        /\ Tell("tellClose", connections[i]).k = connections[i]
    BY <1>2, TellType DEF Tells
  <2>2. c = [i \in 1..n |-> Tell("tellClose", connections[i])]
    BY <1>2, <1>3 DEF Goodbyes
  <2>3. \A i \in 1..n : c[i] \in Steps /\ c[i].do = "tellClose" /\ c[i].k = connections[i]
    BY <2>1, <2>2
  <2>4. c = [i \in 1..n |-> c[i]]
    BY <2>2
  <2>5. c \in [1..n -> Steps]
    BY <2>3, <2>4
  <2>6. c \in Seq(Steps)
    BY <1>2, <2>5
  <2>7. Len(c) = n
    BY <1>2, <2>5
  <2> QED
    BY <2>3, <2>6, <2>7
<1>5. PICK a : a = Asked(callback)
  OBVIOUS
<1>6. PICK p : p = Len(a)
  OBVIOUS
<1>7. a \in Seq(Steps) /\ p \in Nat /\ DOMAIN a = 1..p /\ \A i \in 1..p : a[i].do = "callback"
  <2>1. a \in Seq(Steps) /\ \A i \in DOMAIN a : a[i].do = "callback"
    BY <1>5, AskedFacts
  <2> QED
    BY <1>6, <2>1
<1>8. PICK v : v = c \o a
  OBVIOUS
<1>9. /\ v \in Seq(Steps) /\ Len(v) = n + p
      /\ \A i \in 1..n : i \in 1..(n + p) /\ v[i] = c[i]
      /\ \A i \in 1..(n + p) : i \in 1..n \/ (i - n \in 1..p /\ v[i] = a[i - n])
  <2>1. Len(c) = n
    BY <1>4
  <2>2. Joined(c, a, v, n, p)
    BY <1>4, <1>6, <1>7, <1>8, <2>1, JoinFacts
  <2> QED
    BY <2>2 DEF Joined
<1>10. PICK b : b = <<Tell("serverClose", 0)>>
  OBVIOUS
<1>11. b \in Seq(Steps) /\ Len(b) = 1 /\ DOMAIN b = {1} /\ b[1].do = "serverClose"
  <2>1. Tell("serverClose", 0) \in Steps /\ Tell("serverClose", 0).do = "serverClose"
    BY TellType
  <2> QED
    BY <1>10, <2>1, OneStep
<1>12. PICK q : q = n + p
  OBVIOUS
<1>13. PICK t : t = v \o b
  OBVIOUS
<1>14. /\ t \in Seq(Steps) /\ q \in Nat /\ Len(t) = q + 1 /\ DOMAIN t = 1..(q + 1)
       /\ \A i \in 1..q : i \in 1..(q + 1) /\ t[i] = v[i]
       /\ \A j \in 1..1 : q + j \in 1..(q + 1) /\ t[q + j] = b[j]
       /\ \A i \in 1..(q + 1) : i \in 1..q \/ (i - q \in 1..1 /\ t[i] = b[i - q])
  <2>1. Len(v) = q /\ Len(b) = 1
    BY <1>9, <1>11, <1>12
  <2>2. PICK r : r = Len(b)
    OBVIOUS
  <2>3. /\ t \in Seq(Steps) /\ q \in Nat /\ Len(t) = q + r /\ DOMAIN t = 1..(q + r)
        /\ \A i \in 1..q : i \in 1..(q + r) /\ t[i] = v[i]
        /\ \A j \in 1..r : q + j \in 1..(q + r) /\ t[q + j] = b[j]
        /\ \A i \in 1..(q + r) : i \in 1..q \/ (i - q \in 1..r /\ t[i] = b[i - q])
    <3>1. q = Len(v) /\ r = Len(b) /\ t = v \o b
      BY <1>13, <2>1, <2>2
    <3> QED
      <4>1. Joined(v, b, t, q, r)
        BY <1>9, <1>11, <3>1, JoinFacts
      <4> QED
        BY <4>1 DEF Joined
  <2>4. r = 1
    BY <2>1, <2>2
  <2> QED
    BY <2>3, <2>4
<1>15. F.call = "close" /\ F.todo = t /\ F \in Frames
  BY <1>3, <1>5, <1>8, <1>10, <1>13, <1>14 DEF Frame, Frames
<1>16. \A i \in 1..n : i \in 1..(q + 1) /\ t[i] = c[i]
  BY <1>9, <1>12, <1>14
<1>17. \A i \in 1..(q + 1) : \/ i \in 1..n
                             \/ t[i].do = "callback"
                             \/ t[i].do = "serverClose" /\ i = q + 1
  <2> SUFFICES ASSUME NEW i \in 1..(q + 1)
               PROVE  i \in 1..n \/ t[i].do = "callback" \/ (t[i].do = "serverClose" /\ i = q + 1)
    OBVIOUS
  <2>1. CASE i \in 1..q
    <3>1. t[i] = v[i] /\ i \in 1..(n + p)
      BY <1>12, <1>14, <2>1
    <3> QED
      BY <1>7, <1>9, <3>1
  <2>2. CASE i - q \in 1..1 /\ t[i] = b[i - q]
    <3>1. i = q + 1 /\ i - q = 1
      BY <1>14, <2>2
    <3> QED
      BY <1>11, <2>2, <3>1
  <2> QED
    BY <1>14, <2>1, <2>2
<1>18. q + 1 > 0 /\ t[q + 1].do = "serverClose"
  <2>1. 1 \in 1..1
    OBVIOUS
  <2> QED
    BY <1>11, <1>14, <2>1
<1>19. q + 1 \in Nat
  BY <1>14
<1> QED
  BY <1>2, <1>4, <1>14, <1>15, <1>16, <1>17, <1>18, <1>19

LEMMA CloseFrameOK ==
  ASSUME FInv, NEW callback \in BOOLEAN, NEW stopError \in BOOLEAN,
         NEW F, F = Frame("close", Goodbyes \o Asked(callback) \o <<Tell("serverClose", 0)>>,
                          stopError)
  PROVE  /\ F \in Frames /\ F.call = "close" /\ Announces(F)
         /\ FrameOK(F, TRUE, objs, <<>>)
         /\ \A o : Known(connections, o) => Owing(F, o)
<1>1. /\ F \in Frames /\ F.call = "close"
      /\ Len(F.todo) \in Nat /\ DOMAIN F.todo = 1..Len(F.todo) /\ Len(F.todo) > 0
      /\ \A i \in DOMAIN connections :
           i \in DOMAIN F.todo /\ F.todo[i].do = "tellClose" /\ F.todo[i].k = connections[i]
      /\ \A i \in DOMAIN F.todo :
           \/ i \in DOMAIN connections
           \/ F.todo[i].do = "callback"
           \/ F.todo[i].do = "serverClose" /\ i = Len(F.todo)
      /\ F.todo[Len(F.todo)].do = "serverClose"
  BY CloseFrame
<1>2. ASSUME NEW i \in DOMAIN F.todo PROVE StepOK(F, i, TRUE, objs, <<>>)
  <2>1. CASE i \in DOMAIN connections
    <3>1. F.todo[i].k \in DOMAIN objs
      BY <1>1, <2>1, ObjAt
    <3> QED
      BY <1>1, <2>1, <3>1 DEF StepOK, Does, Events, Tells
  <2>2. CASE F.todo[i].do = "callback"
    BY <1>1, <2>2 DEF StepOK, Does, Events, Tells
  <2>3. CASE F.todo[i].do = "serverClose" /\ i = Len(F.todo)
    BY <1>1, <2>3 DEF StepOK, Does, Events, Tells
  <2> QED
    BY <1>1, <2>1, <2>2, <2>3
<1>3. Announces(F)
  <2>1. Len(F.todo) \in DOMAIN F.todo
    BY <1>1
  <2> QED
    BY <1>1, <2>1 DEF Announces
<1> QED
  BY <1>1, <1>2, <1>3 DEF FrameOK, Known, Owing

\* close() on a closed server only calls back.
LEMMA ClosedFrame ==
  ASSUME NEW callback \in BOOLEAN, NEW F, F = Frame("close", Asked(callback), FALSE)
  PROVE  /\ F \in Frames /\ F.call = "close" /\ ~Announces(F)
         /\ \A i \in DOMAIN F.todo : F.todo[i].do = "callback"
         /\ \A os, cs, top : FrameOK(F, top, os, cs)
<1>1. Asked(callback) \in Seq(Steps)
      /\ \A i \in DOMAIN Asked(callback) : Asked(callback)[i].do = "callback"
  BY AskedFacts
<1>2. F \in Frames /\ F.call = "close" /\ F.todo = Asked(callback)
  BY <1>1 DEF Frame, Frames
<1>3. ASSUME NEW os, NEW cs, NEW top PROVE FrameOK(F, top, os, cs)
  BY <1>1, <1>2 DEF FrameOK, StepOK, Does, Events, Tells
<1>4. ~Announces(F)
  BY <1>1, <1>2 DEF Announces
<1> QED
  BY <1>1, <1>2, <1>3, <1>4

LEMMA ShutShape ==
  ASSUME FInv, NEW callback \in BOOLEAN,
         NEW st \in Seq(Frames), LowOK(st, objs, connections),
         \A o : Owes(stack, o) => Owes(st, o),
         Announcers(st) = Announcers(stack),
         Shut(st, callback), objs' = objs
  PROVE  /\ NewShape
         /\ IF closed THEN Quiet
            ELSE /\ Announcers(stack') = Announcers(stack) \cup {Len(st) + 1}
                 /\ Len(st) + 1 \notin Announcers(stack)
<1>1. /\ objs \in Seq(Objs) /\ connections \in Seq(Nat \ {0})
      /\ MapOK(objs, connections) /\ Remembered(stack, objs, connections)
  BY TypeFacts
<1>2. CASE closed
  <2>1. PICK F : F = Frame("close", Asked(callback), FALSE)
    OBVIOUS
  <2>2. stack' = Append(st, F) /\ connections' = connections
    BY <1>2, <2>1 DEF Shut, Asked
  <2>3. /\ F \in Frames /\ F.call = "close" /\ FrameOK(F, TRUE, objs, connections)
        /\ ~Announces(F)
    BY <2>1, ClosedFrame
  <2>6. Announcers(Append(st, F)) = Announcers(st)
    BY <2>3, PushAnnouncers
  <2>4. Append(st, F) \in Seq(Frames) /\ StackOK(Append(st, F), objs, connections)
    BY <2>3, PushOK
  <2>5. Remembered(Append(st, F), objs, connections)
    BY <1>1, <2>3, PushOwes DEF Remembered
  <2> QED
    BY <1>1, <1>2, <2>2, <2>4, <2>5, <2>6 DEF NewShape, Shape, Quiet
<1>3. CASE ~closed
  <2>1. PICK stopError \in BOOLEAN :
          stack' = Append(st, Frame("close",
             Goodbyes \o Asked(callback) \o <<Tell("serverClose", 0)>>, stopError))
    BY <1>3 DEF Shut, Asked, Goodbyes
  <2>2. PICK F : F = Frame("close", Goodbyes \o Asked(callback) \o <<Tell("serverClose", 0)>>,
                           stopError)
    OBVIOUS
  <2>3. stack' = Append(st, F) /\ connections' = <<>>
    BY <1>3, <2>1, <2>2 DEF Shut
  <2>4. /\ F \in Frames /\ F.call = "close" /\ Announces(F)
        /\ FrameOK(F, TRUE, objs, <<>>)
        /\ \A o : Known(connections, o) => Owing(F, o)
    BY <2>2, CloseFrameOK
  <2>5. DOMAIN <<>> = {} /\ <<>> \in Seq(Nat \ {0})
    OBVIOUS
  <2>6. Shrinks(objs, connections, objs, <<>>) /\ MapOK(objs, <<>>)
    BY <2>5 DEF Shrinks, MapOK
  <2>7. LowOK(st, objs, <<>>)
    BY <1>1, <2>6, ShrinksLow
  <2>8. Append(st, F) \in Seq(Frames) /\ StackOK(Append(st, F), objs, <<>>)
    BY <2>4, <2>7, PushOK
  <2>9. Remembered(Append(st, F), objs, <<>>)
    BY <1>1, <2>4, PushOwes DEF Remembered
  <2>10. /\ Announcers(Append(st, F)) = Announcers(st) \cup {Len(st) + 1}
         /\ Len(st) + 1 \notin Announcers(st)
    BY <2>4, PushAnnouncers
  <2> QED
    BY <1>1, <1>3, <2>3, <2>5, <2>6, <2>8, <2>9, <2>10 DEF NewShape, Shape
<1> QED
  BY <1>2, <1>3

LEMMA UserCloseShape == ASSUME FInv, Close
  PROVE /\ NewShape
        /\ IF closed THEN Quiet
           ELSE \E f : /\ f \notin Announcers(stack)
                       /\ Announcers(stack') = Announcers(stack) \cup {f}
<1>1. PICK callback \in BOOLEAN : Shut(stack, callback)
  BY DEF Close
<1>2. InListener /\ objs' = objs
  BY DEF Close, Call
<1>3. LowOK(stack, objs, connections) /\ stack \in Seq(Frames)
  BY <1>2, ListenerTop, TypeFacts
<1> QED
  BY <1>1, <1>2, <1>3, ShutShape

LEMMA UndoShape == ASSUME FInv, UndoStart
  PROVE /\ NewShape
        /\ IF closed THEN Quiet
           ELSE \E f : /\ f \notin Announcers(stack)
                       /\ Announcers(stack') = Announcers(stack) \cup {f}
<1>1. /\ Shut(WithTop(Rest), FALSE) /\ objs' = objs
      /\ stack # <<>> /\ Top.todo # <<>> /\ Head(Top.todo).do = "undo"
  BY DEF UndoStart, About
<1>2. PICK st : st = WithTop(Rest)
  OBVIOUS
<1>3. /\ st \in Seq(Frames) /\ LowOK(st, objs, connections)
      /\ \A o : Owes(stack, o) => Owes(st, o)
      /\ Announcers(st) = Announcers(stack)
  BY <1>1, <1>2, Advances
<1>4. Shut(st, FALSE)
  BY <1>1, <1>2
<1> QED
  BY <1>1, <1>3, <1>4, ShutShape

LEMMA NextShape == ASSUME FInv, Next PROVE NewShape
<1>1. CASE Handling
  BY <1>1, IgnoreShape, ConnectShape, InstallShape, DataShape, CloseShape,
     TellConnectionShape, TellServerShape, ListenerEndsShape, CallEndsShape, UndoShape
     DEF Handling
<1>2. CASE Application
  <2>1. ASSUME NEW n \in Natives, StartFails(n) PROVE NewShape
    <3>1. UNCHANGED <<stack, objs, connections>>
      BY <2>1 DEF StartFails
    <3> QED
      BY <3>1, RestShape
  <2>2. ASSUME NEW on \in BOOLEAN, Ref(on) PROVE NewShape
    <3>1. UNCHANGED <<stack, objs, connections>>
      BY <2>2 DEF Ref
    <3> QED
      BY <3>1, RestShape
  <2> QED
    BY <1>2, <2>1, <2>2, TaskShape, UserCloseShape, StartShape, SendShape DEF Application
<1>3. ASSUME NEW n \in Natives, Report(n) PROVE NewShape
  <2>1. UNCHANGED <<stack, objs, connections>>
    BY <1>3 DEF Report
  <2> QED
    BY <2>1, RestShape
<1> QED
  BY <1>1, <1>2, <1>3, DeliverShape DEF Next

\* What a running native server reports is an event of its own.
LEMMA ReportStep ==
  ASSUME FInv, NEW n \in Natives, Report(n)
  PROVE  PendingOK' /\ wire' \in Wires /\ reported' \in [Natives -> Nat]
<1>1. /\ pending \in [Natives -> Seq(Steps)]
      /\ \A m \in Natives : \A i \in DOMAIN pending[m] :
           pending[m][i].do \in Events /\ pending[m][i].n = m /\ pending[m][i].k \in Ids
      /\ wire \in Wires /\ reported \in [Natives -> Nat]
  BY DEF FInv, PendingOK, TypeOK, Wires
<1>2. PICK id \in Ids, do \in Events, is \in {"open", "gone"} :
        /\ \/ pending' = [pending EXCEPT ![n] = Append(@, Step(do, n, id))]
           \/ pending' = pending
        /\ wire' = [wire EXCEPT ![n][id] = is]
  BY DEF Report, Events
<1>3. PICK e : e = Step(do, n, id)
  OBVIOUS
<1>4. e \in Steps /\ e.do \in Events /\ e.n = n /\ e.k \in Ids
  <2>1. n \in Nat /\ id \in Nat
    BY FacadeAssumption DEF Natives
  <2> QED
    BY <1>3, <2>1 DEF Step, Steps, Kinds
<1>5. PICK p : p = Append(pending[n], e)
  OBVIOUS
<1>6. PICK q : q = pending[n]
  OBVIOUS
<1>7. /\ p \in Seq(Steps) /\ Len(q) \in Nat /\ DOMAIN q = 1..Len(q)
      /\ DOMAIN p = 1..(Len(q) + 1) /\ p[Len(q) + 1] = e
      /\ \A i \in 1..Len(q) : p[i] = q[i]
  <2>1. q \in Seq(Steps)
    BY <1>1, <1>6
  <2> QED
    BY <1>4, <1>5, <1>6, <2>1, PushFacts
<1>8. \A i \in 1..(Len(q) + 1) : i \in 1..Len(q) \/ i = Len(q) + 1
  BY <1>7
<1>9. pending' = [pending EXCEPT ![n] = p] \/ pending' = pending
  BY <1>2, <1>3, <1>5
<1>10. \A i \in DOMAIN p : p[i].do \in Events /\ p[i].n = n /\ p[i].k \in Ids
  BY <1>1, <1>4, <1>6, <1>7, <1>8
<1>11. PendingOK'
  <2>1. CASE pending' = pending
    BY <1>1, <2>1 DEF PendingOK
  <2>2. CASE pending' = [pending EXCEPT ![n] = p]
    <3>1. pending' \in [Natives -> Seq(Steps)]
      BY <1>1, <1>7, <2>2
    <3>2. ASSUME NEW m \in Natives
          PROVE  \A i \in DOMAIN pending'[m] :
                   pending'[m][i].do \in Events /\ pending'[m][i].n = m /\ pending'[m][i].k \in Ids
      BY <1>1, <1>10, <2>2
    <3> QED
      BY <3>1, <3>2 DEF PendingOK
  <2> QED
    BY <1>9, <2>1, <2>2
<1>12. wire' \in Wires
  BY <1>1, <1>2 DEF Wires
<1>13. reported' \in [Natives -> Nat]
  BY <1>1 DEF Report
<1> QED
  BY <1>11, <1>12, <1>13

LEMMA DeliverStep ==
  ASSUME FInv, NEW n \in Natives, Deliver(n) PROVE PendingOK'
<1>1. /\ pending \in [Natives -> Seq(Steps)]
      /\ \A m \in Natives : \A i \in DOMAIN pending[m] :
           pending[m][i].do \in Events /\ pending[m][i].n = m /\ pending[m][i].k \in Ids
  BY DEF FInv, PendingOK
<1>2. PICK size \in 1..Len(pending[n]) :
        pending' = [pending EXCEPT ![n] = SubSeq(@, size + 1, Len(pending[n]))]
  BY DEF Deliver
<1>3. PICK v : v = SubSeq(pending[n], size + 1, Len(pending[n]))
  OBVIOUS
<1>4. PICK l : l = Len(pending[n])
  OBVIOUS
<1>5. /\ v \in Seq(Steps) /\ Len(v) = l - size
      /\ \A i \in 1..(l - size) : v[i] = pending[n][i + size]
  <2>1. /\ SubSeq(pending[n], size + 1, Len(pending[n])) \in Seq(Steps)
        /\ Len(SubSeq(pending[n], size + 1, Len(pending[n]))) = Len(pending[n]) - size
        /\ \A i \in 1..(Len(pending[n]) - size) :
              SubSeq(pending[n], size + 1, Len(pending[n]))[i] = pending[n][i + size]
    BY BatchFrame
  <2> QED
    BY <1>3, <1>4, <2>1, Zenon
<1>6. /\ l \in Nat /\ DOMAIN pending[n] = 1..l /\ size \in 1..l
  <2>1. pending[n] \in Seq(Steps)
    BY <1>1
  <2> QED
    BY <1>2, <1>4, <2>1
<1>7. \A i \in 1..(l - size) : i + size \in DOMAIN pending[n]
  BY <1>6
<1>8. DOMAIN v = 1..(l - size)
  BY <1>5
<1>9. \A i \in DOMAIN v : v[i].do \in Events /\ v[i].n = n /\ v[i].k \in Ids
  BY <1>1, <1>5, <1>7, <1>8
<1>10. pending' = [pending EXCEPT ![n] = v]
  BY <1>2, <1>3
<1>11. pending' \in [Natives -> Seq(Steps)]
  BY <1>1, <1>5, <1>10
<1>12. ASSUME NEW m \in Natives
       PROVE  \A i \in DOMAIN pending'[m] :
                pending'[m][i].do \in Events /\ pending'[m][i].n = m /\ pending'[m][i].k \in Ids
  BY <1>1, <1>9, <1>10
<1> QED
  BY <1>11, <1>12 DEF PendingOK

\* The events that wait change when one is reported or a batch is taken.
LEMMA PendingStep == ASSUME FInv, [Next]_vars PROVE PendingOK'
<1>1. CASE pending' = pending
  BY <1>1 DEF FInv, PendingOK
<1>2. ASSUME NEW n \in Natives, Report(n) PROVE PendingOK'
  BY <1>2, ReportStep
<1>3. ASSUME NEW n \in Natives, Deliver(n) PROVE PendingOK'
  BY <1>3, DeliverStep
<1>4. Handling \/ Application \/ UNCHANGED vars => pending' = pending
  BY DEF Handling, Application, vars, source, IgnoreEvent, HandleConnect, Install,
     HandleData, HandleClose, TellConnection, TellServer, ListenerReturns, ListenerThrows,
     CallEnds, UndoStart, Task, Close, Start, StartFails, Send, Ref
<1> QED
  BY <1>1, <1>2, <1>3, <1>4 DEF Next

\* The counters, the wire and the flags keep their types.
LEMMA CounterTypes ==
  ASSUME FInv, [Next]_vars
  PROVE  /\ wire' \in Wires /\ reported' \in [Natives -> Nat]
         /\ calls' \in Nat /\ closes' \in Nat
         /\ overlap' \in BOOLEAN /\ crossed' \subseteq {"event", "send"}
<1>1. /\ wire \in Wires /\ reported \in [Natives -> Nat]
      /\ calls \in Nat /\ closes \in Nat
      /\ overlap \in BOOLEAN /\ crossed \subseteq {"event", "send"}
  BY DEF FInv, TypeOK, Wires
<1>2. CASE UNCHANGED vars
  BY <1>1, <1>2 DEF vars, source
<1>3. CASE Handling
  <2>1. CASE TellServer
    BY <1>1, <2>1 DEF TellServer, source
  <2>2. CASE HandleConnect
    BY <1>1, <2>2 DEF HandleConnect, Crossing, source
  <2>3. CASE HandleData
    BY <1>1, <2>3 DEF HandleData, Crossing, source
  <2>4. CASE HandleClose
    BY <1>1, <2>4 DEF HandleClose, Crossing, source
  <2>5. CASE /\ ~TellServer /\ ~HandleConnect /\ ~HandleData /\ ~HandleClose
    <3>1. UNCHANGED <<source, calls, closes, overlap, crossed>>
      BY <1>3, <2>5 DEF Handling, IgnoreEvent, Install, TellConnection, ListenerReturns,
         ListenerThrows, CallEnds, UndoStart
    <3> QED
      BY <1>1, <3>1 DEF source
  <2> QED
    BY <2>1, <2>2, <2>3, <2>4, <2>5
<1>4. CASE Application
  <2>3. ASSUME NEW n \in Natives, Start(n)
        PROVE  UNCHANGED <<source, closes, crossed>> /\ calls' = calls + 1
               /\ overlap' \in BOOLEAN
    <3>1. overlap' = (overlap \/ Busy)
      BY <2>3 DEF Start
    <3>2. UNCHANGED <<source, closes, crossed>> /\ calls' = calls + 1
      BY <2>3 DEF Start, Call
    <3> QED
      BY <3>1, <3>2
  <2>4. ASSUME NEW n \in Natives, StartFails(n)
        PROVE  UNCHANGED <<source, closes, overlap, crossed>> /\ calls' = calls + 1
    BY <2>4 DEF StartFails, Call
  <2>5. ASSUME NEW batch \in SUBSET Objects, NEW andClose \in BOOLEAN, Send(batch, andClose)
        PROVE  /\ UNCHANGED <<source, closes, overlap>> /\ calls' = calls + 1
               /\ crossed' \subseteq {"event", "send"}
    BY <1>1, <2>5 DEF Send, Call
  <2>6. ASSUME NEW on \in BOOLEAN, Ref(on)
        PROVE  UNCHANGED <<source, closes, overlap, crossed>> /\ calls' = calls + 1
    BY <2>6 DEF Ref, Call
  <2>7. /\ UNCHANGED <<source, closes>>
        /\ calls' = calls + 1 \/ calls' = calls
        /\ overlap' = overlap \/ overlap' \in BOOLEAN
        /\ crossed' = crossed \/ crossed' \subseteq {"event", "send"}
    <3>1. CASE Task \/ Close
      BY <3>1 DEF Task, Close, Call
    <3>2. CASE ~Task /\ ~Close
      BY <1>4, <2>3, <2>4, <2>5, <2>6, <3>2 DEF Application
    <3> QED
      BY <3>1, <3>2
  <2>8. wire' = wire /\ reported' = reported /\ closes' = closes
    BY <2>7 DEF source
  <2>9. calls' \in Nat
    BY <1>1, <2>7
  <2>10. crossed' \subseteq {"event", "send"}
    BY <1>1, <2>7
  <2>11. overlap' \in BOOLEAN
    BY <1>1, <2>7, Zenon
  <2> QED
    BY <1>1, <2>8, <2>9, <2>10, <2>11, Zenon
<1>5. ASSUME NEW n \in Natives, Report(n)
      PROVE  /\ wire' \in Wires /\ reported' \in [Natives -> Nat]
             /\ UNCHANGED <<calls, closes, overlap, crossed>>
  BY <1>5, ReportStep DEF Report
<1>6. ASSUME NEW n \in Natives, Deliver(n)
      PROVE  UNCHANGED <<wire, reported, calls, closes, overlap, crossed>>
  BY <1>6 DEF Deliver
<1> QED
  BY <1>1, <1>2, <1>3, <1>4, <1>5, <1>6 DEF Next

LEMMA TypeKept ==
  ASSUME FInv, [Next]_vars, LifeInv', NewShape PROVE TypeOK'
<1>1. /\ native' \in 0 .. MaxStarts /\ closed' \in BOOLEAN /\ refed' \in BOOLEAN
      /\ natives' \in [Natives -> {"unborn", "running", "stopped", "failed"}]
  BY DEF LifeInv, LifeType
<1>2. info' \in 0 .. MaxStarts
  BY <1>1 DEF LifeInv, ServerWhole, RunningIsWhole
<1>3. keepAlive' \in {"none", "refed", "unrefed"}
  BY DEF LifeInv, ServerWhole, RunningIsWhole, Timer
<1>4. /\ objs' \in Seq(Objs) /\ connections' \in Seq(Nat \ {0})
  BY DEF NewShape
<1>5. /\ wire' \in Wires /\ reported' \in [Natives -> Nat]
      /\ calls' \in Nat /\ closes' \in Nat
      /\ overlap' \in BOOLEAN /\ crossed' \subseteq {"event", "send"}
  BY CounterTypes
<1> QED
  BY <1>1, <1>2, <1>3, <1>4, <1>5 DEF TypeOK, Objs, Wires

LEMMA InitFInv == Init => FInv
<1> SUFFICES ASSUME Init PROVE FInv
  OBVIOUS
<1>1. LifeInv
  BY InitLifeInv
<1>2. /\ connections = <<>> /\ objs = <<>> /\ stack = <<>>
      /\ <<>> \in Seq(Objs) /\ <<>> \in Seq(Nat \ {0}) /\ <<>> \in Seq(Frames)
      /\ DOMAIN <<>> = {} /\ <<>> \in Seq(Steps)
  BY DEF Init
<1>3. Shape(stack, objs, connections)
  BY <1>2 DEF Shape, StackOK, MapOK, Remembered
<1>4. PendingOK
  <2>1. pending = [n \in Natives |-> <<>>]
    BY DEF Init
  <2> QED
    BY <1>2, <2>1 DEF PendingOK
<1>5. TypeOK
  <2>1. native = 0 /\ info = 0 /\ 0 \in 0 .. MaxStarts
    BY FacadeAssumption DEF Init
  <2>2. /\ wire \in Wires /\ reported \in [Natives -> Nat]
        /\ natives \in [Natives -> {"unborn", "running", "stopped", "failed"}]
    BY DEF Init, Wires
  <2>3. /\ closed \in BOOLEAN /\ keepAlive \in {"none", "refed", "unrefed"}
        /\ refed \in BOOLEAN /\ calls \in Nat /\ closes \in Nat
        /\ overlap \in BOOLEAN /\ crossed \subseteq {"event", "send"}
    BY DEF Init
  <2> QED
    BY <1>2, <2>1, <2>2, <2>3 DEF TypeOK, Objs, Wires
<1> QED
  BY <1>1, <1>3, <1>4, <1>5 DEF FInv

LEMMA NextFInv == FInv /\ [Next]_vars => FInv'
<1> SUFFICES ASSUME FInv, [Next]_vars PROVE FInv'
  OBVIOUS
<1>1. LifeInv'
  BY NextLifeInv DEF FInv
<1>2. NewShape
  <2>1. CASE UNCHANGED vars
    <3>1. UNCHANGED <<stack, objs, connections>>
      BY <2>1 DEF vars
    <3> QED
      BY <3>1, RestShape
  <2> QED
    BY <2>1, NextShape
<1>3. TypeOK'
  BY <1>1, <1>2, TypeKept
<1>4. PendingOK'
  BY PendingStep
<1>5. Shape(stack, objs, connections)'
  BY <1>2 DEF NewShape
<1> QED
  BY <1>1, <1>3, <1>4, <1>5 DEF FInv

LEMMA FInvHolds == Spec => []FInv
  BY InitFInv, NextFInv, PTL DEF Spec

\* The map, the objects, the flags and the counters stay of their types,
\* however calls nest (the fields of IoUringTcpTransportServer).
THEOREM FacadeTyped == Spec => []TypeOK
<1>1. FInv => TypeOK
  BY DEF FInv
<1> QED
  BY <1>1, FInvHolds, PTL

\* A connection the application has been given is never dropped in silence,
\* whatever listeners throw, close or restart (_handleEvent, close).
THEOREM NobodyIsForgotten == Spec => []NobodyForgotten
<1>1. FInv => NobodyForgotten
  <2> SUFFICES ASSUME FInv, NEW o \in Objects, objs[o].life \in {"new", "open"} PROVE Owed(o)
    BY DEF NobodyForgotten
  <2>1. Known(connections, o) \/ Owes(stack, o)
    BY TypeFacts DEF Remembered, Objects
  <2> QED
    BY <2>1 DEF Known, Owes, Owing, Owed
<1> QED
  BY <1>1, FInvHolds, PTL

-----------------------------------------------------------------------------
(* Every native server that was started is running, or a call in progress   *)
(* has still to emit the server's 'close', or it has been emitted.          *)

Up(n) == IF n = 0 THEN 0 ELSE 1

Counted == closes + Cardinality(Announcers(stack)) + Up(native) = Cardinality(Started)

LEMMA CountFinite ==
  ASSUME FInv
  PROVE  /\ IsFiniteSet(Announcers(stack)) /\ Cardinality(Announcers(stack)) \in Nat
         /\ IsFiniteSet(Started) /\ Cardinality(Started) \in Nat
         /\ closes \in Nat /\ Up(native) \in Nat
<1>1. stack \in Seq(Frames)
  BY TypeFacts
<1>2. PICK l : l = Len(stack)
  OBVIOUS
<1>3. l \in Nat /\ DOMAIN stack = 1..l
  BY <1>1, <1>2
<1>4. IsFiniteSet(1..l) /\ Announcers(stack) \subseteq 1..l
  BY <1>3, FS_Interval DEF Announcers
<1>5. IsFiniteSet(Announcers(stack)) /\ Cardinality(Announcers(stack)) \in Nat
  BY <1>4, FS_Subset, FS_CardinalityType
<1>6. IsFiniteSet(Natives) /\ Started \subseteq Natives
  BY FacadeAssumption, FS_Interval DEF Natives, Started
<1>7. IsFiniteSet(Started) /\ Cardinality(Started) \in Nat
  BY <1>6, FS_Subset, FS_CardinalityType
<1>8. closes \in Nat /\ Up(native) \in Nat
  BY DEF FInv, TypeOK, Up
<1> QED
  BY <1>5, <1>7, <1>8

LEMMA SameCount ==
  ASSUME Counted, Quiet, closes' = closes, native' = native, Started' = Started
  PROVE  Counted'
  BY DEF Counted, Quiet, Up

LEMMA SameStarted ==
  ASSUME UNCHANGED natives PROVE Started' = Started
  BY DEF Started

\* The server's 'close' is emitted.
LEMMA TellServerCount == ASSUME FInv, Counted, TellServer PROVE Counted'
<1>1. native' = native /\ Started' = Started
  BY SameStarted DEF TellServer, lifecycle
<1>2. CASE ~About("serverClose")
  <2>1. Quiet /\ closes' = closes
    BY <1>2, TellServerShape DEF TellServer
  <2> QED
    BY <1>1, <2>1, SameCount
<1>3. CASE About("serverClose")
  <2>1. closes' = closes + 1
    BY <1>3 DEF TellServer
  <2>2. /\ Len(stack) \in Announcers(stack)
        /\ Announcers(stack') = Announcers(stack) \ {Len(stack)}
    BY <1>3, TellServerShape
  <2>3. Cardinality(Announcers(stack')) = Cardinality(Announcers(stack)) - 1
    <3>1. IsFiniteSet(Announcers(stack))
      BY CountFinite
    <3> QED
      BY <2>2, <3>1, FS_RemoveElement
  <2>4. PICK a : a = Cardinality(Announcers(stack))
    OBVIOUS
  <2>5. PICK u : u = Up(native)
    OBVIOUS
  <2>6. PICK s : s = Cardinality(Started)
    OBVIOUS
  <2>7. closes + a + u = s /\ closes \in Nat /\ a \in Nat /\ u \in Nat /\ s \in Nat
    BY <2>4, <2>5, <2>6, CountFinite DEF Counted
  <2>8. (closes + 1) + (a - 1) + u = s
    BY <2>7
  <2>9. Up(native') = u /\ Cardinality(Started') = s /\ Cardinality(Announcers(stack')) = a - 1
    BY <1>1, <2>3, <2>4, <2>5, <2>6
  <2> QED
    BY <2>1, <2>8, <2>9 DEF Counted
<1> QED
  BY <1>2, <1>3

\* A running server becomes one whose 'close' has still to be emitted.
LEMMA ShutCount ==
  ASSUME FInv, Counted, NEW base, NEW callback, Shut(base, callback), closes' = closes,
         IF closed THEN Quiet
         ELSE \E f : /\ f \notin Announcers(stack)
                     /\ Announcers(stack') = Announcers(stack) \cup {f}
  PROVE  Counted'
<1>1. CASE closed
  <2>1. native' = native /\ natives' = natives
    BY <1>1 DEF Shut, lifecycle
  <2> QED
    BY <1>1, <2>1, SameStarted, SameCount
<1>2. CASE ~closed
  <2>1. PICK f : f \notin Announcers(stack) /\ Announcers(stack') = Announcers(stack) \cup {f}
    BY <1>2
  <2>2. native' = 0 /\ natives' = [natives EXCEPT ![native] = "stopped"]
    BY <1>2 DEF Shut
  <2>3. native \in Natives /\ native # 0 /\ natives[native] = "running"
    BY <1>2, FacadeAssumption
       DEF FInv, LifeInv, LifeType, ServerWhole, RunningIsWhole, NoNativeLeftRunning, Natives
  <2>4. Started' = Started
    BY <2>2, <2>3 DEF Started, FInv, LifeInv, LifeType
  <2>5. Cardinality(Announcers(stack')) = Cardinality(Announcers(stack)) + 1
    <3>1. IsFiniteSet(Announcers(stack))
      BY CountFinite
    <3> QED
      BY <2>1, <3>1, FS_AddElement
  <2>6. PICK a : a = Cardinality(Announcers(stack))
    OBVIOUS
  <2>7. PICK s : s = Cardinality(Started)
    OBVIOUS
  <2>8. closes + a + 1 = s /\ closes \in Nat /\ a \in Nat /\ s \in Nat
    BY <2>3, <2>6, <2>7, CountFinite DEF Counted, Up
  <2>9. closes + (a + 1) + 0 = s
    BY <2>8
  <2> QED
    BY <2>2, <2>4, <2>5, <2>6, <2>7, <2>9 DEF Counted, Up
<1> QED
  BY <1>1, <1>2

LEMMA StartCount == ASSUME FInv, Counted, NEW n \in Natives, Start(n) PROVE Counted'
<1>1. /\ native' = n /\ natives' = [natives EXCEPT ![n] = "running"]
      /\ natives[n] = "unborn" /\ closes' = closes /\ info = 0
  BY DEF Start
<1>2. native = 0 /\ n # 0
  BY <1>1, FacadeAssumption DEF FInv, LifeInv, ServerWhole, RunningIsWhole, Natives
<1>3. Started' = Started \cup {n} /\ n \notin Started
  BY <1>1 DEF Started, FInv, LifeInv, LifeType
<1>4. Cardinality(Started') = Cardinality(Started) + 1
  <2>1. IsFiniteSet(Started)
    BY CountFinite
  <2> QED
    BY <1>3, <2>1, FS_AddElement
<1>5. Announcers(stack') = Announcers(stack)
  BY StartShape DEF Quiet
<1>6. PICK a : a = Cardinality(Announcers(stack))
  OBVIOUS
<1>7. PICK s : s = Cardinality(Started)
  OBVIOUS
<1>8. closes + a + 0 = s /\ closes \in Nat /\ a \in Nat /\ s \in Nat
  BY <1>2, <1>6, <1>7, CountFinite DEF Counted, Up
<1>9. closes + a + 1 = s + 1
  BY <1>8
<1> QED
  BY <1>1, <1>2, <1>4, <1>5, <1>6, <1>7, <1>9 DEF Counted, Up

LEMMA StartFailsCount == ASSUME FInv, Counted, NEW n \in Natives, StartFails(n) PROVE Counted'
<1>1. /\ native' = 0 /\ natives' = [natives EXCEPT ![n] = "failed"]
      /\ natives[n] = "unborn" /\ closes' = closes /\ info = 0 /\ stack' = stack
  BY DEF StartFails
<1>2. native = 0
  BY <1>1 DEF FInv, LifeInv, ServerWhole, RunningIsWhole
<1>3. Started' = Started
  BY <1>1 DEF Started, FInv, LifeInv, LifeType
<1>4. Quiet
  BY <1>1 DEF Quiet
<1> QED
  BY <1>1, <1>2, <1>3, <1>4, SameCount

LEMMA NextCount == FInv /\ Counted /\ [Next]_vars => Counted'
<1> SUFFICES ASSUME FInv, Counted, [Next]_vars PROVE Counted'
  OBVIOUS
<1>1. CASE UNCHANGED vars
  <2>1. Quiet /\ closes' = closes /\ native' = native /\ natives' = natives
    BY <1>1 DEF vars, lifecycle, Quiet
  <2> QED
    BY <2>1, SameStarted, SameCount
<1>2. CASE UndoStart
  <2>1. Shut(WithTop(Rest), FALSE) /\ closes' = closes
    BY <1>2 DEF UndoStart
  <2> QED
    BY <1>2, <2>1, UndoShape, ShutCount
<1>3. CASE Handling /\ ~UndoStart /\ ~TellServer
  <2>1. Quiet
    BY <1>3, IgnoreShape, ConnectShape, InstallShape, DataShape, CloseShape,
       TellConnectionShape, ListenerEndsShape, CallEndsShape DEF Handling
  <2>2. closes' = closes /\ native' = native /\ natives' = natives
    BY <1>3 DEF Handling, lifecycle, IgnoreEvent, HandleConnect, Install, HandleData,
       HandleClose, TellConnection, ListenerReturns, ListenerThrows, CallEnds
  <2> QED
    BY <2>1, <2>2, SameStarted, SameCount
<1>4. CASE Application
  <2>1. CASE Task
    <3>1. closes' = closes /\ native' = native /\ natives' = natives
      BY <2>1 DEF Task, lifecycle
    <3> QED
      BY <2>1, <3>1, TaskShape, SameStarted, SameCount
  <2>2. CASE Close
    <3>1. closes' = closes /\ \E callback \in BOOLEAN : Shut(stack, callback)
      BY <2>2 DEF Close
    <3> QED
      BY <2>2, <3>1, UserCloseShape, ShutCount
  <2>3. ASSUME NEW batch \in SUBSET Objects, NEW andClose \in BOOLEAN, Send(batch, andClose)
        PROVE  Counted'
    <3>1. Quiet /\ closes' = closes /\ native' = native /\ natives' = natives
      BY <2>3 DEF Send, lifecycle, Quiet
    <3> QED
      BY <3>1, SameStarted, SameCount
  <2>4. ASSUME NEW on \in BOOLEAN, Ref(on) PROVE Counted'
    <3>1. Quiet /\ closes' = closes /\ native' = native /\ natives' = natives
      BY <2>4 DEF Ref, Quiet
    <3> QED
      BY <3>1, SameStarted, SameCount
  <2> QED
    BY <1>4, <2>1, <2>2, <2>3, <2>4, StartCount, StartFailsCount DEF Application
<1>5. ASSUME NEW n \in Natives, Report(n) PROVE Counted'
  <2>1. Quiet /\ closes' = closes /\ native' = native /\ natives' = natives
    BY <1>5 DEF Report, lifecycle, Quiet
  <2> QED
    BY <2>1, SameStarted, SameCount
<1>6. ASSUME NEW n \in Natives, Deliver(n) PROVE Counted'
  <2>1. closes' = closes /\ native' = native /\ natives' = natives
    BY <1>6 DEF Deliver, lifecycle
  <2> QED
    BY <1>6, <2>1, DeliverShape, SameStarted, SameCount
<1> QED
  BY <1>1, <1>2, <1>3, <1>4, <1>5, <1>6, TellServerCount DEF Next, Handling

LEMMA InitCount == Init => Counted
<1> SUFFICES ASSUME Init PROVE Counted
  OBVIOUS
<1>1. Announcers(stack) = {}
  <2>1. stack = <<>> /\ DOMAIN <<>> = {}
    BY DEF Init
  <2> QED
    BY <2>1 DEF Announcers
<1>2. Started = {}
  BY DEF Init, Started
<1>3. closes = 0 /\ native = 0
  BY DEF Init
<1> QED
  BY <1>1, <1>2, <1>3, FS_EmptySet DEF Counted, Up

\* Between two calls of the event loop every run of the server that is over has
\* emitted 'close' exactly once, whatever listeners threw (close, start).
THEOREM ClosesAreTold == Spec => []ClosesTold
<1>1. FInv /\ Counted => ClosesTold
  <2> SUFFICES ASSUME FInv, Counted, stack = <<>>
               PROVE  closes + (IF native = 0 THEN 0 ELSE 1) = Cardinality(Started)
    BY DEF ClosesTold
  <2>1. Announcers(stack) = {}
    BY EmptyStack
  <2>2. Cardinality(Announcers(stack)) = 0
    BY <2>1, FS_EmptySet
  <2>3. closes + 0 + Up(native) = Cardinality(Started) /\ closes \in Nat /\ Up(native) \in Nat
    BY <2>2, CountFinite DEF Counted
  <2>4. closes + Up(native) = Cardinality(Started)
    BY <2>3
  <2> QED
    BY <2>4 DEF Up
<1>2. Spec => []Counted
  BY InitCount, NextCount, FInvHolds, PTL DEF Spec
<1> QED
  BY <1>1, <1>2, FInvHolds, PTL

-----------------------------------------------------------------------------
(* The ids that have been named: by the map, or by an event before.  Events   *)
(* may be lost, but a 'connect' is the first event of its id.  A witness     *)
(* gives the set before every event that waits.                              *)

IdsOf(os, cs) == {os[cs[i]].id : i \in DOMAIN cs}

Moves(s, before, after) ==
    /\ s.do \in {"connect", "install"} => s.k \notin before
    /\ s.do \in {"connect", "install", "data"} => after = before \cup {s.k}
    /\ s.do \notin {"connect", "install", "data"} => after = before

Witness(K, A, from, to) ==
    /\ K \in [0..Len(A) -> SUBSET Ids]
    /\ K[0] = from /\ K[Len(A)] = to
    /\ \A i \in 1..Len(A) : Moves(A[i], K[i - 1], K[i])

Replays(A, from, to) == \E K : Witness(K, A, from, to)

LEMMA NothingReplays ==
  ASSUME NEW from \in SUBSET Ids
  PROVE  Replays(<<>>, from, from) /\ \A to : Replays(<<>>, from, to) => from = to
<1>1. Len(<<>>) = 0
  OBVIOUS
<1>2. PICK K : K = [i \in 0..0 |-> from]
  OBVIOUS
<1>3. Witness(K, <<>>, from, from)
  BY <1>1, <1>2 DEF Witness
<1> QED
  BY <1>1, <1>3 DEF Replays, Witness

\* The first event has been handled.
LEMMA SkipReplays ==
  ASSUME NEW A \in Seq(Steps), A # <<>>, NEW from, NEW to, Replays(A, from, to)
  PROVE  \E mid \in SUBSET Ids : Moves(A[1], from, mid) /\ Replays(Tail(A), mid, to)
<1>1. PICK K : Witness(K, A, from, to)
  BY DEF Replays
<1>2. PICK n : n = Len(A)
  OBVIOUS
<1>3. PICK u : u = Tail(A)
  OBVIOUS
<1>4. /\ n \in Nat /\ n >= 1 /\ Len(u) = n - 1 /\ \A i \in 1..(n - 1) : u[i] = A[i + 1]
  BY <1>2, <1>3, TailFacts
<1>5. /\ K \in [0..n -> SUBSET Ids] /\ K[0] = from /\ K[n] = to
      /\ \A i \in 1..n : Moves(A[i], K[i - 1], K[i])
  BY <1>1, <1>2 DEF Witness
<1>6. PICK J : J = [i \in 0..(n - 1) |-> K[i + 1]]
  OBVIOUS
<1>7. J \in [0..(n - 1) -> SUBSET Ids] /\ J[0] = K[1] /\ J[n - 1] = to
  <2>1. \A i \in 0..(n - 1) : i + 1 \in 0..n
    BY <1>4
  <2>2. 0 \in 0..(n - 1) /\ n - 1 \in 0..(n - 1) /\ (n - 1) + 1 = n /\ 0 + 1 = 1
    BY <1>4
  <2> QED
    BY <1>5, <1>6, <2>1, <2>2
<1>8. \A i \in 1..(n - 1) : Moves(u[i], J[i - 1], J[i])
  <2> SUFFICES ASSUME NEW i \in 1..(n - 1) PROVE Moves(u[i], J[i - 1], J[i])
    OBVIOUS
  <2>1. i + 1 \in 1..n /\ i - 1 \in 0..(n - 1) /\ i \in 0..(n - 1)
        /\ (i - 1) + 1 = i /\ (i + 1) - 1 = i
    BY <1>4
  <2>2. Moves(A[i + 1], K[(i + 1) - 1], K[i + 1])
    BY <1>5, <2>1
  <2>3. J[i - 1] = K[i] /\ J[i] = K[i + 1]
    BY <1>6, <2>1
  <2> QED
    BY <1>4, <2>1, <2>2, <2>3
<1>9. Witness(J, u, K[1], to)
  BY <1>4, <1>7, <1>8 DEF Witness
<1>10. Moves(A[1], from, K[1]) /\ K[1] \in SUBSET Ids
  <2>1. 1 \in 1..n /\ 1 \in 0..n /\ 1 - 1 = 0
    BY <1>4
  <2> QED
    BY <1>5, <2>1
<1> QED
  BY <1>3, <1>9, <1>10 DEF Replays

\* Steps are put in front: the first one may move, the others do not.
LEMMA PutReplays ==
  ASSUME NEW s \in Seq(Steps), NEW A \in Seq(Steps), s # <<>>,
         NEW from \in SUBSET Ids, NEW mid \in SUBSET Ids, NEW to,
         Moves(s[1], from, mid),
         \A i \in DOMAIN s : i # 1 => s[i].do \notin Events \cup {"install"},
         Replays(A, mid, to)
  PROVE  Replays(s \o A, from, to)
<1>1. PICK K : Witness(K, A, mid, to)
  BY DEF Replays
<1>2. PICK m : m = Len(s)
  OBVIOUS
<1>3. PICK n : n = Len(A)
  OBVIOUS
<1>4. PICK u : u = s \o A
  OBVIOUS
<1>5. Joined(s, A, u, m, n)
  BY <1>2, <1>3, <1>4, JoinFacts
<1>6. /\ m \in Nat /\ n \in Nat /\ m >= 1 /\ Len(u) = m + n /\ DOMAIN s = 1..m
      /\ \A i \in 1..m : u[i] = s[i]
      /\ \A i \in 1..(m + n) : i \in 1..m \/ (i - m \in 1..n /\ u[i] = A[i - m])
  BY <1>2, <1>5 DEF Joined
<1>7. /\ K \in [0..n -> SUBSET Ids] /\ K[0] = mid /\ K[n] = to
      /\ \A i \in 1..n : Moves(A[i], K[i - 1], K[i])
  BY <1>1, <1>3 DEF Witness
<1>8. PICK J : J = [i \in 0..(m + n) |-> IF i = 0 THEN from
                                         ELSE IF i <= m THEN mid ELSE K[i - m]]
  OBVIOUS
<1>9. /\ \A i \in 1..m : J[i] = mid
      /\ \A i \in 0..(m + n) : i >= m => J[i] = K[i - m]
      /\ J[0] = from
  <2>1. \A i \in 1..m : i \in 0..(m + n) /\ i # 0 /\ i <= m
    BY <1>6
  <2>2. ASSUME NEW i \in 0..(m + n), i >= m PROVE J[i] = K[i - m]
    <3>1. i # 0 /\ (i <= m => i - m = 0)
      BY <1>6, <2>2
    <3> QED
      BY <1>7, <1>8, <3>1
  <2>3. 0 \in 0..(m + n)
    BY <1>6
  <2> QED
    BY <1>8, <2>1, <2>2, <2>3
<1>10. J \in [0..(m + n) -> SUBSET Ids] /\ J[m + n] = to
  <2>1. \A i \in 0..(m + n) : i = 0 \/ i <= m \/ i - m \in 0..n
    BY <1>6
  <2>2. \A i \in 0..(m + n) : (IF i = 0 THEN from ELSE IF i <= m THEN mid ELSE K[i - m])
                               \in SUBSET Ids
    BY <1>7, <2>1
  <2>3. m + n \in 0..(m + n) /\ m + n >= m /\ (m + n) - m = n
    BY <1>6
  <2> QED
    BY <1>7, <1>8, <1>9, <2>2, <2>3
<1>11. ASSUME NEW i \in 1..(m + n) PROVE Moves(u[i], J[i - 1], J[i])
  <2>1. CASE i = 1
    <3>1. 1 \in 1..m /\ i - 1 = 0
      BY <1>6, <2>1
    <3> QED
      BY <1>6, <1>9, <2>1, <3>1
  <2>2. CASE i \in 1..m /\ i # 1
    <3>1. i - 1 \in 1..m
      BY <1>6, <2>2
    <3>2. J[i - 1] = mid /\ J[i] = mid /\ u[i].do \notin Events \cup {"install"}
      BY <1>6, <1>9, <2>2, <3>1
    <3> QED
      BY <3>2 DEF Moves, Events
  <2>3. CASE i \notin 1..m
    <3>1. i - m \in 1..n /\ u[i] = A[i - m]
      BY <1>6, <2>3
    <3>2. i - 1 \in 0..(m + n) /\ i - 1 >= m /\ i \in 0..(m + n) /\ i >= m
          /\ (i - 1) - m = (i - m) - 1
      BY <1>6, <3>1
    <3>3. J[i - 1] = K[(i - m) - 1] /\ J[i] = K[i - m]
      BY <1>9, <3>2
    <3> QED
      BY <1>7, <3>1, <3>3
  <2> QED
    BY <2>1, <2>2, <2>3
<1>12. Witness(J, u, from, to)
  BY <1>6, <1>9, <1>10, <1>11 DEF Witness
<1> QED
  BY <1>4, <1>12 DEF Replays

\* Another event is reported.
LEMMA AddReplays ==
  ASSUME NEW A \in Seq(Steps), NEW e \in Steps, NEW from, NEW mid, NEW to \in SUBSET Ids,
         Replays(A, from, mid), Moves(e, mid, to)
  PROVE  Replays(Append(A, e), from, to)
<1>1. PICK K : Witness(K, A, from, mid)
  BY DEF Replays
<1>2. PICK n : n = Len(A)
  OBVIOUS
<1>3. PICK u : u = Append(A, e)
  OBVIOUS
<1>4. n \in Nat /\ Len(u) = n + 1 /\ u[n + 1] = e /\ \A i \in 1..n : u[i] = A[i]
  BY <1>2, <1>3, PushFacts
<1>5. /\ K \in [0..n -> SUBSET Ids] /\ K[0] = from /\ K[n] = mid
      /\ \A i \in 1..n : Moves(A[i], K[i - 1], K[i])
  BY <1>1, <1>2 DEF Witness
<1>6. PICK J : J = [i \in 0..(n + 1) |-> IF i = n + 1 THEN to ELSE K[i]]
  OBVIOUS
<1>7. J[n + 1] = to /\ \A i \in 0..n : J[i] = K[i]
  <2>1. n + 1 \in 0..(n + 1) /\ \A i \in 0..n : i \in 0..(n + 1) /\ i # n + 1
    BY <1>4
  <2> QED
    BY <1>6, <2>1
<1>8. J \in [0..(n + 1) -> SUBSET Ids] /\ J[0] = from
  <2>1. \A i \in 0..(n + 1) : i = n + 1 \/ i \in 0..n
    BY <1>4
  <2>2. 0 \in 0..n
    BY <1>4
  <2> QED
    BY <1>5, <1>6, <1>7, <2>1, <2>2
<1>9. ASSUME NEW i \in 1..(n + 1) PROVE Moves(u[i], J[i - 1], J[i])
  <2>1. CASE i = n + 1
    <3>1. i - 1 = n /\ n \in 0..n
      BY <1>4, <2>1
    <3> QED
      BY <1>4, <1>5, <1>7, <2>1, <3>1
  <2>2. CASE i # n + 1
    <3>1. i \in 1..n /\ i \in 0..n /\ i - 1 \in 0..n
      BY <1>4, <2>2
    <3> QED
      BY <1>4, <1>5, <1>7, <3>1
  <2> QED
    BY <2>1, <2>2
<1>10. Witness(J, u, from, to)
  BY <1>4, <1>7, <1>8, <1>9 DEF Witness
<1> QED
  BY <1>3, <1>10 DEF Replays

\* A batch u of the first events is taken, v waits on.
Splits(A, l, size, u, v) ==
    /\ l \in Nat /\ l = Len(A) /\ size \in 1..l
    /\ Len(u) = size /\ \A i \in 1..size : u[i] = A[i]
    /\ Len(v) = l - size /\ \A i \in 1..(l - size) : v[i] = A[i + size]

LEMMA SplitReplays ==
  ASSUME NEW A, NEW l, NEW size, NEW u, NEW v, Splits(A, l, size, u, v),
         NEW from, NEW to, Replays(A, from, to)
  PROVE  \E mid \in SUBSET Ids : Replays(u, from, mid) /\ Replays(v, mid, to)
<1> USE DEF Splits
<1>1. PICK K : Witness(K, A, from, to)
  BY DEF Replays
<1>2. /\ K \in [0..l -> SUBSET Ids] /\ K[0] = from /\ K[l] = to
      /\ \A i \in 1..l : Moves(A[i], K[i - 1], K[i])
  BY <1>1 DEF Witness
<1>3. PICK I : I = [i \in 0..size |-> K[i]]
  OBVIOUS
<1>4. PICK J : J = [i \in 0..(l - size) |-> K[i + size]]
  OBVIOUS
<1>5. Witness(I, u, from, K[size])
  <2>1. /\ \A i \in 0..size : i \in 0..l
        /\ \A i \in 1..size : i \in 1..l /\ i - 1 \in 0..size /\ i \in 0..size
        /\ 0 \in 0..size /\ size \in 0..size
    OBVIOUS
  <2>2. I \in [0..size -> SUBSET Ids] /\ I[0] = from /\ I[size] = K[size]
    BY <1>2, <1>3, <2>1
  <2>3. \A i \in 1..size : Moves(u[i], I[i - 1], I[i])
    BY <1>2, <1>3, <2>1
  <2> QED
    BY <2>2, <2>3 DEF Witness
<1>6. Witness(J, v, K[size], to)
  <2>1. /\ \A i \in 0..(l - size) : i + size \in 0..l
        /\ 0 \in 0..(l - size) /\ l - size \in 0..(l - size)
        /\ 0 + size = size /\ (l - size) + size = l
    OBVIOUS
  <2>2. J \in [0..(l - size) -> SUBSET Ids] /\ J[0] = K[size] /\ J[l - size] = to
    BY <1>2, <1>4, <2>1
  <2>3. ASSUME NEW i \in 1..(l - size) PROVE Moves(v[i], J[i - 1], J[i])
    <3>1. /\ i + size \in 1..l /\ i - 1 \in 0..(l - size) /\ i \in 0..(l - size)
          /\ (i - 1) + size = (i + size) - 1
      OBVIOUS
    <3>2. J[i - 1] = K[(i + size) - 1] /\ J[i] = K[i + size] /\ v[i] = A[i + size]
      BY <1>4, <3>1
    <3> QED
      BY <1>2, <3>1, <3>2
  <2> QED
    BY <2>2, <2>3 DEF Witness
<1>7. K[size] \in SUBSET Ids
  <2>1. size \in 0..l
    OBVIOUS
  <2> QED
    BY <1>2, <2>1
<1> QED
  BY <1>5, <1>6, <1>7 DEF Replays

-----------------------------------------------------------------------------
(* A server that was not restarted in the middle of its previous run.       *)

\* The step a call makes next.
IsHead(st, f, i) == f = Len(st) /\ i = 1

\* A connection that will be told 'connection' is new, one that will be told
\* 'close' is open and has left the map; 'data' comes after 'close' at most once
\* and only for a connection that a 'data' event made.
HeadStep(s, os, cs) ==
    /\ s.do = "connection" => os[s.k].life = "new"
    /\ s.do = "tellData" => /\ os[s.k].life # "late"
                            /\ os[s.k].life = "closed" => os[s.k].found
    /\ s.do = "tellClose" => os[s.k].life = "open" /\ ~Known(cs, s.k)

\* A step that waits concerns a connection only if a close() left it, or if it is
\* the 'data' that made the connection.
LowStep(s, call, os, cs) ==
    /\ s.do \notin {"connection", "install"}
    /\ s.do = "tellData" => /\ call = "batch"
                            /\ os[s.k].found /\ os[s.k].life # "late"
    /\ s.do = "tellClose" => /\ call = "close"
                             /\ os[s.k].life = "open" /\ ~Known(cs, s.k)

CalmStack(st, os, cs) ==
    \A f \in DOMAIN st : \A i \in DOMAIN st[f].todo :
       IF IsHead(st, f, i) THEN HeadStep(st[f].todo[i], os, cs)
                           ELSE LowStep(st[f].todo[i], st[f].call, os, cs)
CalmLow(st, os, cs) ==
    \A f \in DOMAIN st : \A i \in DOMAIN st[f].todo :
       LowStep(st[f].todo[i], st[f].call, os, cs)

\* Nobody is about to be told 'data' twice, or 'close' twice.
OnceOnly == {"tellData", "tellClose"}

Once(st) ==
    \A f, g \in DOMAIN st : \A i \in DOMAIN st[f].todo, j \in DOMAIN st[g].todo :
       /\ st[f].todo[i].do \in OnceOnly /\ st[g].todo[j].do = st[f].todo[i].do
       /\ st[g].todo[j].k = st[f].todo[i].k
       => f = g /\ i = j

\* What is in progress belongs to the run of native server n.
FromRun(st, n) ==
    \A f \in DOMAIN st :
      /\ st[f].call # "close"
      /\ \A i \in DOMAIN st[f].todo :
           st[f].todo[i].do \in Events \cup {"install"} => st[f].todo[i].n = n

\* The next step of the innermost call tells a connection of itself.
Telling(st, o) ==
    /\ st # <<>> /\ st[Len(st)].todo # <<>>
    /\ Head(st[Len(st)].todo).do = "connection" /\ Head(st[Len(st)].todo).k = o

CalmMap(st, os, cs) ==
    /\ \A c \in DOMAIN cs : \/ os[cs[c]].life = "open"
                            \/ os[cs[c]].life = "new" /\ Telling(st, cs[c])
    /\ \A o \in DOMAIN os : os[o].life = "new" => Telling(st, o)

Unbroken(os) ==
    \A o \in DOMAIN os : /\ os[o].life # "broken"
                         /\ os[o].life = "late" => os[o].found
Ours(os, n) == \A o \in DOMAIN os : ~os[o].destroyed => os[o].src = n

BatchTodo(st) == IF st # <<>> /\ st[1].call = "batch" THEN st[1].todo ELSE <<>>

\* The ids that the native server has used.
Used(ws) == {id \in Ids : ws[id] # "unused"}

\* Some ids, those of the map among them, have been named; the events of the
\* batch and then those that wait name more, and all of them have been used.
Replayed(st, ids, p, ws) ==
    \E from, mid, last \in SUBSET Ids :
       /\ ids \subseteq from /\ last \subseteq Used(ws)
       /\ Replays(BatchTodo(st), from, mid)
       /\ Replays(p, mid, last)

RunCalm(n, st, os, cs, p, w) ==
    /\ FromRun(st, n)
    /\ Ours(os, n)
    /\ \A m \in Natives : m # n => p[m] = <<>>
    /\ Replayed(st, IdsOf(os, cs), p[n], w[n])

Calm ==
    /\ Unbroken(objs)
    /\ crossed = {}
    /\ CalmStack(stack, objs, connections)
    /\ closed => connections = <<>> /\ CalmLow(stack, objs, connections)
    /\ Once(stack)
    /\ CalmMap(stack, objs, connections)
    /\ native # 0 => RunCalm(native, stack, objs, connections, pending, wire)

\* A connection that has told 'close' is destroyed.
Bereaved(os) == \A o \in DOMAIN os : os[o].life \in {"closed", "late"} => os[o].destroyed

-----------------------------------------------------------------------------
(* A stack that has only gone on: each of its steps was a step before, and   *)
(* not the one that was made.                                               *)

Later(st2, st) ==
    \A f \in DOMAIN st2 :
      /\ f \in DOMAIN st /\ st2[f].call = st[f].call
      /\ \E d \in {0, 1} : \A i \in DOMAIN st2[f].todo :
           \/ st2[f].todo[i].do = "undo"
           \/ /\ i + d \in DOMAIN st[f].todo /\ ~IsHead(st, f, i + d)
              /\ st2[f].todo[i] = st[f].todo[i + d]

LEMMA LaterLow ==
  ASSUME NEW st, NEW st2, NEW os, NEW cs, CalmStack(st, os, cs), Later(st2, st)
  PROVE  CalmLow(st2, os, cs)
<1> SUFFICES ASSUME NEW f \in DOMAIN st2, NEW i \in DOMAIN st2[f].todo
             PROVE  LowStep(st2[f].todo[i], st2[f].call, os, cs)
  BY DEF CalmLow
<1>1. CASE st2[f].todo[i].do = "undo"
  BY <1>1 DEF LowStep
<1>2. CASE st2[f].todo[i].do # "undo"
  <2>1. f \in DOMAIN st /\ st2[f].call = st[f].call
    BY DEF Later
  <2>2. PICK d \in {0, 1} : /\ i + d \in DOMAIN st[f].todo /\ ~IsHead(st, f, i + d)
                            /\ st2[f].todo[i] = st[f].todo[i + d]
    BY <1>2 DEF Later
  <2>3. LowStep(st[f].todo[i + d], st[f].call, os, cs)
    BY <2>1, <2>2 DEF CalmStack
  <2> QED
    BY <2>1, <2>2, <2>3
<1> QED
  BY <1>1, <1>2

LEMMA LaterRun ==
  ASSUME NEW st, NEW st2, NEW n, FromRun(st, n), Later(st2, st)
  PROVE  FromRun(st2, n)
<1> SUFFICES ASSUME NEW f \in DOMAIN st2
             PROVE  /\ st2[f].call # "close"
                    /\ \A i \in DOMAIN st2[f].todo :
                         st2[f].todo[i].do \in Events \cup {"install"} => st2[f].todo[i].n = n
  BY DEF FromRun
<1>1. f \in DOMAIN st /\ st2[f].call = st[f].call
  BY DEF Later
<1>2. ASSUME NEW i \in DOMAIN st2[f].todo, st2[f].todo[i].do \in Events \cup {"install"}
      PROVE  st2[f].todo[i].n = n
  <2>1. st2[f].todo[i].do # "undo"
    BY <1>2 DEF Events
  <2>2. PICK d \in {0, 1} : /\ i + d \in DOMAIN st[f].todo
                            /\ st2[f].todo[i] = st[f].todo[i + d]
    BY <2>1 DEF Later
  <2>3. st[f].todo[i + d].do \in Events \cup {"install"} => st[f].todo[i + d].n = n
    BY <1>1, <2>2 DEF FromRun
  <2> QED
    BY <1>2, <2>2, <2>3
<1> QED
  BY <1>1, <1>2 DEF FromRun

LEMMA LaterOnce ==
  ASSUME NEW st, NEW st2, st2 \in Seq(Frames), Once(st), Later(st2, st)
  PROVE  Once(st2)
<1> SUFFICES ASSUME NEW f \in DOMAIN st2, NEW g \in DOMAIN st2,
                    NEW i \in DOMAIN st2[f].todo, NEW j \in DOMAIN st2[g].todo,
                    st2[f].todo[i].do \in OnceOnly, st2[g].todo[j].do = st2[f].todo[i].do,
                    st2[g].todo[j].k = st2[f].todo[i].k
             PROVE  f = g /\ i = j
  BY DEF Once
<1>0. st2[f].todo[i].do # "undo"
  BY DEF OnceOnly
<1>1. f \in DOMAIN st /\ g \in DOMAIN st
  BY DEF Later
<1>2. PICK d \in {0, 1} : \A a \in DOMAIN st2[f].todo :
        st2[f].todo[a].do = "undo" \/ (/\ a + d \in DOMAIN st[f].todo
                                       /\ st2[f].todo[a] = st[f].todo[a + d])
  BY DEF Later
<1>3. PICK e \in {0, 1} : \A a \in DOMAIN st2[g].todo :
        st2[g].todo[a].do = "undo" \/ (/\ a + e \in DOMAIN st[g].todo
                                       /\ st2[g].todo[a] = st[g].todo[a + e])
  BY DEF Later
<1>4. i + d \in DOMAIN st[f].todo /\ st2[f].todo[i] = st[f].todo[i + d]
  BY <1>0, <1>2
<1>5. j + e \in DOMAIN st[g].todo /\ st2[g].todo[j] = st[g].todo[j + e]
  BY <1>0, <1>3
<1>6. f = g /\ i + d = j + e
  BY <1>1, <1>4, <1>5 DEF Once
<1>7. j \in DOMAIN st2[f].todo /\ st2[f].todo[j] = st2[g].todo[j]
  BY <1>6
<1>8. j + d \in DOMAIN st[f].todo /\ st2[f].todo[j] = st[f].todo[j + d]
  BY <1>0, <1>2, <1>7
<1>9. i + d = j + d
  BY <1>1, <1>4, <1>6, <1>7, <1>8 DEF Once
<1>10. i \in Nat /\ j \in Nat
  <2>1. st2[f].todo \in Seq(Steps) /\ st2[g].todo \in Seq(Steps)
    <3>1. st2[f] \in Frames /\ st2[g] \in Frames
      OBVIOUS
    <3> QED
      BY <3>1 DEF Frames
  <2> QED
    BY <2>1
<1> QED
  BY <1>6, <1>9, <1>10

LEMMA LowCalm ==
  ASSUME NEW st, NEW os, NEW cs, CalmLow(st, os, cs)
  PROVE  CalmStack(st, os, cs)
  BY DEF CalmLow, CalmStack, LowStep, HeadStep

\* Objects and a map in which the connections that wait for their 'close' or
\* their first 'data' are what they were.
LEMMA KeepLow ==
  ASSUME NEW st, NEW os, NEW cs, NEW os2, NEW cs2, CalmLow(st, os, cs),
         \A f \in DOMAIN st : \A i \in DOMAIN st[f].todo :
           st[f].todo[i].do = "tellClose" =>
             /\ os2[st[f].todo[i].k].life = os[st[f].todo[i].k].life
             /\ Known(cs2, st[f].todo[i].k) => Known(cs, st[f].todo[i].k),
         \A f \in DOMAIN st : \A i \in DOMAIN st[f].todo :
           st[f].todo[i].do = "tellData" =>
             /\ os2[st[f].todo[i].k].found = os[st[f].todo[i].k].found
             /\ os2[st[f].todo[i].k].life # "late"
  PROVE  CalmLow(st, os2, cs2)
  BY DEF CalmLow, LowStep

LEMMA PushLow ==
  ASSUME NEW st \in Seq(Frames), NEW F \in Frames, NEW os, NEW cs, CalmLow(st, os, cs),
         \A i \in DOMAIN F.todo : LowStep(F.todo[i], F.call, os, cs)
  PROVE  CalmLow(Append(st, F), os, cs)
<1>1. PICK w : w = Append(st, F)
  OBVIOUS
<1>2. /\ DOMAIN st = 1..Len(st) /\ DOMAIN w = 1..(Len(st) + 1) /\ Len(st) \in Nat
      /\ \A f \in 1..Len(st) : w[f] = st[f]
      /\ w[Len(st) + 1] = F
  BY <1>1, PushFacts
<1>3. ASSUME NEW f \in DOMAIN w, NEW i \in DOMAIN w[f].todo
      PROVE  LowStep(w[f].todo[i], w[f].call, os, cs)
  <2>1. CASE f = Len(st) + 1
    BY <1>2, <2>1
  <2>2. CASE f # Len(st) + 1
    <3>1. f \in DOMAIN st /\ w[f] = st[f]
      BY <1>2, <2>2
    <3>2. LowStep(st[f].todo[i], st[f].call, os, cs)
      BY <3>1 DEF CalmLow
    <3> QED
      BY <3>1, <3>2
  <2> QED
    BY <2>1, <2>2
<1> QED
  BY <1>1, <1>3 DEF CalmLow

LEMMA PushOnce ==
  ASSUME NEW st \in Seq(Frames), NEW F \in Frames, Once(st),
         \A i, j \in DOMAIN F.todo :
           /\ F.todo[i].do \in OnceOnly /\ F.todo[j].do = F.todo[i].do
           /\ F.todo[j].k = F.todo[i].k
           => i = j,
         \A f \in DOMAIN st : \A i \in DOMAIN st[f].todo, j \in DOMAIN F.todo :
           F.todo[j].do \in OnceOnly /\ st[f].todo[i].do = F.todo[j].do
             => st[f].todo[i].k # F.todo[j].k
  PROVE  Once(Append(st, F))
<1>1. PICK w : w = Append(st, F)
  OBVIOUS
<1>2. /\ DOMAIN st = 1..Len(st) /\ DOMAIN w = 1..(Len(st) + 1) /\ Len(st) \in Nat
      /\ \A f \in 1..Len(st) : w[f] = st[f]
      /\ w[Len(st) + 1] = F
  BY <1>1, PushFacts
<1>3. \A f \in DOMAIN w : (f = Len(st) + 1 /\ w[f] = F) \/ (f \in DOMAIN st /\ w[f] = st[f])
  BY <1>2
<1>4. ASSUME NEW f \in DOMAIN w, NEW g \in DOMAIN w,
             NEW i \in DOMAIN w[f].todo, NEW j \in DOMAIN w[g].todo,
             w[f].todo[i].do \in OnceOnly, w[g].todo[j].do = w[f].todo[i].do,
             w[g].todo[j].k = w[f].todo[i].k
      PROVE  f = g /\ i = j
  <2>1. CASE f = Len(st) + 1 /\ w[f] = F
    <3>1. CASE g = Len(st) + 1 /\ w[g] = F
      BY <1>4, <2>1, <3>1
    <3>2. CASE g \in DOMAIN st /\ w[g] = st[g]
      BY <1>4, <2>1, <3>2
    <3> QED
      BY <1>3, <3>1, <3>2
  <2>2. CASE f \in DOMAIN st /\ w[f] = st[f]
    <3>1. CASE g = Len(st) + 1 /\ w[g] = F
      BY <1>4, <2>2, <3>1
    <3>2. CASE g \in DOMAIN st /\ w[g] = st[g]
      BY <1>4, <2>2, <3>2 DEF Once
    <3> QED
      BY <1>3, <3>1, <3>2
  <2> QED
    BY <1>3, <2>1, <2>2
<1> QED
  BY <1>1, <1>4 DEF Once

LEMMA PushRun ==
  ASSUME NEW st \in Seq(Frames), NEW F \in Frames, NEW n, FromRun(st, n), F.call # "close",
         \A i \in DOMAIN F.todo : F.todo[i].do \notin Events \cup {"install"}
  PROVE  FromRun(Append(st, F), n)
<1>1. PICK w : w = Append(st, F)
  OBVIOUS
<1>2. /\ DOMAIN st = 1..Len(st) /\ DOMAIN w = 1..(Len(st) + 1) /\ Len(st) \in Nat
      /\ \A f \in 1..Len(st) : w[f] = st[f]
      /\ w[Len(st) + 1] = F
  BY <1>1, PushFacts
<1>3. \A f \in DOMAIN w : (f = Len(st) + 1 /\ w[f] = F) \/ (f \in DOMAIN st /\ w[f] = st[f])
  BY <1>2
<1>4. ASSUME NEW f \in DOMAIN w
      PROVE  /\ w[f].call # "close"
             /\ \A i \in DOMAIN w[f].todo :
                  w[f].todo[i].do \in Events \cup {"install"} => w[f].todo[i].n = n
  BY <1>3 DEF FromRun
<1> QED
  BY <1>1, <1>4 DEF FromRun

-----------------------------------------------------------------------------
(* The ways in which the stack goes on.                                    *)

LEMMA AdvanceLater ==
  ASSUME NEW st \in Seq(Frames), st # <<>>, st[Len(st)].todo # <<>>
  PROVE  Later(Replaced(st, Advanced(st[Len(st)])), st)
<1>1. PICK l : l = Len(st)
  OBVIOUS
<1>2. PICK F : F = st[l]
  OBVIOUS
<1>3. l \in Nat /\ l >= 1 /\ F \in Frames /\ DOMAIN st = 1..l /\ F.todo # <<>>
  BY <1>1, <1>2, FrontFacts
<1>4. PICK G : G = Advanced(F)
  OBVIOUS
<1>5. G \in Frames /\ G.call = F.call /\ G.todo = Tail(F.todo)
  BY <1>1, <1>2, <1>3, <1>4, AdvancedFacts
<1>6. PICK w : w = Replaced(st, G)
  OBVIOUS
<1>7. /\ DOMAIN w = 1..l /\ w[l] = G /\ \A f \in 1..(l - 1) : w[f] = st[f]
  <2>1. /\ Replaced(st, G) \in Seq(Frames) /\ DOMAIN Replaced(st, G) = 1..Len(st)
        /\ Replaced(st, G)[Len(st)] = G
        /\ \A f \in 1..(Len(st) - 1) : Replaced(st, G)[f] = st[f]
    BY <1>5, ReplacedFacts
  <2> QED
    BY <1>1, <1>6, <2>1, Zenon
<1>8. PICK t : t = F.todo
  OBVIOUS
<1>9. t \in Seq(Steps) /\ t # <<>>
  BY <1>3, <1>8 DEF Frames
<1>10. PICK u : u = Tail(t)
  OBVIOUS
<1>11. PICK m : m = Len(t)
  OBVIOUS
<1>12. m \in Nat /\ DOMAIN t = 1..m /\ DOMAIN u = 1..(m - 1)
       /\ \A i \in 1..(m - 1) : u[i] = t[i + 1]
  BY <1>9, <1>10, <1>11, TailFacts
<1>13. ASSUME NEW f \in DOMAIN w
       PROVE  /\ f \in DOMAIN st /\ w[f].call = st[f].call
              /\ \E d \in {0, 1} : \A i \in DOMAIN w[f].todo :
                   \/ w[f].todo[i].do = "undo"
                   \/ /\ i + d \in DOMAIN st[f].todo /\ ~IsHead(st, f, i + d)
                      /\ w[f].todo[i] = st[f].todo[i + d]
  <2>1. CASE f = l
    <3>1. w[f].todo = u /\ st[f].todo = t /\ w[f].call = st[f].call /\ f \in DOMAIN st
      BY <1>2, <1>3, <1>5, <1>7, <1>8, <1>10, <2>1
    <3>2. \A i \in DOMAIN u : i + 1 \in DOMAIN t /\ u[i] = t[i + 1] /\ i + 1 # 1
      BY <1>12
    <3> QED
      BY <3>1, <3>2 DEF IsHead
  <2>2. CASE f # l
    <3>1. f \in 1..(l - 1) /\ w[f] = st[f] /\ f \in DOMAIN st /\ f # Len(st)
      BY <1>1, <1>3, <1>7, <2>2
    <3>2. DOMAIN st[f].todo \subseteq Nat
      <4>1. st[f] \in Frames
        BY <3>1
      <4>2. st[f].todo \in Seq(Steps)
        BY <4>1 DEF Frames
      <4> QED
        BY <4>2
    <3>3. \A i \in DOMAIN st[f].todo : i + 0 = i
      BY <3>2
    <3> QED
      BY <3>1, <3>3 DEF IsHead
  <2> QED
    BY <2>1, <2>2
<1>14. Later(w, st)
  BY <1>13 DEF Later
<1> QED
  BY <1>1, <1>2, <1>4, <1>6, <1>14

LEMMA PopLater ==
  ASSUME NEW st \in Seq(Frames), st # <<>>
  PROVE  /\ Later(SubSeq(st, 1, Len(st) - 1), st)
         /\ Later(Thrown(SubSeq(st, 1, Len(st) - 1)), st)
<1>1. PICK l : l = Len(st)
  OBVIOUS
<1>2. PICK b : b = SubSeq(st, 1, l - 1)
  OBVIOUS
<1>3. /\ l \in Nat /\ DOMAIN st = 1..l /\ b \in Seq(Frames) /\ Len(b) = l - 1
      /\ \A f \in 1..(l - 1) : b[f] = st[f]
  BY <1>1, <1>2, FrontFacts
<1>4. DOMAIN b = 1..(l - 1)
  BY <1>3
<1>5. PICK w : w = Thrown(b)
  OBVIOUS
<1>6. /\ w \in Seq(Frames) /\ Len(w) = Len(b)
      /\ \A f \in DOMAIN b :
           /\ w[f].call = b[f].call
           /\ \/ w[f].todo = b[f].todo
              \/ b[f].call = "start" /\ w[f].todo = <<Step("undo", 0, 0)>>
  BY <1>3, <1>5, ThrownFacts
<1>7. DOMAIN w = DOMAIN b
  BY <1>3, <1>4, <1>6
<1>8. ASSUME NEW f \in DOMAIN b
      PROVE  /\ f \in DOMAIN st /\ b[f] = st[f]
             /\ \A i \in DOMAIN st[f].todo : i + 0 = i /\ ~IsHead(st, f, i + 0)
  <2>1. f \in DOMAIN st /\ b[f] = st[f] /\ f # Len(st)
    BY <1>1, <1>3, <1>4
  <2>2. st[f].todo \in Seq(Steps)
    <3>1. st[f] \in Frames
      BY <2>1
    <3> QED
      BY <3>1 DEF Frames
  <2>3. \A i \in DOMAIN st[f].todo : i + 0 = i
    BY <2>2
  <2> QED
    BY <2>1, <2>3 DEF IsHead
<1>9. Later(b, st)
  BY <1>8 DEF Later
<1>10. Later(w, st)
  <2> SUFFICES ASSUME NEW f \in DOMAIN b
               PROVE  /\ f \in DOMAIN st /\ w[f].call = st[f].call
                      /\ \A i \in DOMAIN w[f].todo :
                           \/ w[f].todo[i].do = "undo"
                           \/ /\ i + 0 \in DOMAIN st[f].todo /\ ~IsHead(st, f, i + 0)
                              /\ w[f].todo[i] = st[f].todo[i + 0]
    BY <1>7 DEF Later
  <2>1. CASE w[f].todo = b[f].todo
    BY <1>6, <1>8, <2>1
  <2>2. CASE w[f].todo = <<Step("undo", 0, 0)>>
    <3>1. \A i \in DOMAIN w[f].todo : w[f].todo[i].do = "undo"
      BY <2>2 DEF Step
    <3> QED
      BY <1>6, <1>8, <3>1
  <2> QED
    BY <1>6, <2>1, <2>2
<1> QED
  BY <1>1, <1>2, <1>5, <1>9, <1>10

LEMMA StayLater ==
  ASSUME NEW st \in Seq(Frames), st # <<>> => st[Len(st)].todo = <<>>
  PROVE  Later(st, st)
<1> SUFFICES ASSUME NEW f \in DOMAIN st
             PROVE  \A i \in DOMAIN st[f].todo : i + 0 = i /\ ~IsHead(st, f, i + 0)
  BY DEF Later
<1>1. st[f].todo \in Seq(Steps)
  <2>1. st[f] \in Frames
    OBVIOUS
  <2> QED
    BY <2>1 DEF Frames
<1>2. \A i \in DOMAIN st[f].todo : i + 0 = i
  BY <1>1
<1>3. st # <<>>
  OBVIOUS
<1>4. f = Len(st) => st[f].todo = <<>>
  BY <1>3
<1>5. DOMAIN <<>> = {}
  OBVIOUS
<1> QED
  BY <1>2, <1>4, <1>5 DEF IsHead

-----------------------------------------------------------------------------
(* The batch in progress, and what is left of its events.                   *)

LEMMA AdvanceBatch ==
  ASSUME NEW st \in Seq(Frames), st # <<>>, st[Len(st)].todo # <<>>,
         NEW os, NEW cs, StackOK(st, os, cs)
  PROVE  IF st[Len(st)].call = "batch"
         THEN /\ BatchTodo(st) = st[Len(st)].todo
              /\ BatchTodo(Replaced(st, Advanced(st[Len(st)]))) = Tail(st[Len(st)].todo)
         ELSE BatchTodo(Replaced(st, Advanced(st[Len(st)]))) = BatchTodo(st)
<1>1. PICK l : l = Len(st)
  OBVIOUS
<1>2. PICK F : F = st[l]
  OBVIOUS
<1>3. l \in Nat /\ l >= 1 /\ F \in Frames /\ DOMAIN st = 1..l /\ F.todo # <<>>
  BY <1>1, <1>2, FrontFacts
<1>4. PICK G : G = Advanced(F)
  OBVIOUS
<1>5. G \in Frames /\ G.call = F.call /\ G.todo = Tail(F.todo)
  BY <1>1, <1>2, <1>3, <1>4, AdvancedFacts
<1>6. PICK w : w = Replaced(st, G)
  OBVIOUS
<1>7. /\ w \in Seq(Frames) /\ DOMAIN w = 1..l /\ w[l] = G
      /\ \A f \in 1..(l - 1) : w[f] = st[f]
  <2>1. /\ Replaced(st, G) \in Seq(Frames) /\ DOMAIN Replaced(st, G) = 1..Len(st)
        /\ Replaced(st, G)[Len(st)] = G
        /\ \A f \in 1..(Len(st) - 1) : Replaced(st, G)[f] = st[f]
    BY <1>5, ReplacedFacts
  <2> QED
    BY <1>1, <1>6, <2>1, Zenon
<1>8. w # <<>>
  <2>1. l \in DOMAIN w
    BY <1>3, <1>7
  <2>2. DOMAIN <<>> = {}
    OBVIOUS
  <2> QED
    BY <2>1, <2>2
<1>9. CASE F.call = "batch"
  <2>1. l = 1
    BY <1>1, <1>2, <1>3, <1>9 DEF StackOK
  <2>2. st[1] = F /\ w[1] = G
    BY <1>2, <1>7, <2>1
  <2>3. BatchTodo(st) = F.todo /\ BatchTodo(w) = Tail(F.todo)
    BY <1>5, <1>8, <1>9, <2>2 DEF BatchTodo
  <2> QED
    BY <1>1, <1>2, <1>4, <1>6, <1>9, <2>3
<1>10. CASE F.call # "batch"
  <2>1. BatchTodo(w) = BatchTodo(st)
    <3>1. CASE l = 1
      BY <1>2, <1>5, <1>7, <1>8, <1>10, <3>1 DEF BatchTodo
    <3>2. CASE l # 1
      <4>1. 1 \in 1..(l - 1)
        BY <1>3, <3>2
      <4> QED
        BY <1>7, <1>8, <4>1 DEF BatchTodo
    <3> QED
      BY <3>1, <3>2
  <2> QED
    BY <1>1, <1>2, <1>4, <1>6, <1>10, <2>1
<1> QED
  BY <1>9, <1>10

LEMMA PopBatch ==
  ASSUME NEW st \in Seq(Frames), st # <<>>, st[Len(st)].todo = <<>>
  PROVE  /\ BatchTodo(SubSeq(st, 1, Len(st) - 1)) = BatchTodo(st)
         /\ BatchTodo(Thrown(SubSeq(st, 1, Len(st) - 1))) = BatchTodo(st)
<1>1. PICK l : l = Len(st)
  OBVIOUS
<1>2. PICK b : b = SubSeq(st, 1, l - 1)
  OBVIOUS
<1>3. /\ l \in Nat /\ l >= 1 /\ DOMAIN st = 1..l /\ b \in Seq(Frames) /\ Len(b) = l - 1
      /\ \A f \in 1..(l - 1) : b[f] = st[f]
  BY <1>1, <1>2, FrontFacts
<1>4. PICK w : w = Thrown(b)
  OBVIOUS
<1>5. /\ w \in Seq(Frames) /\ Len(w) = Len(b)
      /\ \A f \in DOMAIN b :
           /\ w[f].call = b[f].call
           /\ \/ w[f].todo = b[f].todo
              \/ b[f].call = "start" /\ w[f].todo = <<Step("undo", 0, 0)>>
  BY <1>3, <1>4, ThrownFacts
<1>6. BatchTodo(b) = BatchTodo(st) /\ BatchTodo(w) = BatchTodo(st)
  <2>1. CASE l = 1
    <3>1. b = <<>> /\ w = <<>>
      BY <1>3, <1>5, <2>1
    <3>2. st[1].todo = <<>>
      BY <1>1, <2>1
    <3> QED
      BY <3>1, <3>2 DEF BatchTodo
  <2>2. CASE l # 1
    <3>1. 1 \in 1..(l - 1) /\ 1 \in DOMAIN b /\ Len(b) # 0 /\ Len(w) # 0
      BY <1>3, <1>5, <2>2
    <3>2. Len(<<>>) = 0
      OBVIOUS
    <3>3. b # <<>> /\ w # <<>> /\ b[1] = st[1] /\ w[1].call = st[1].call
      BY <1>3, <1>5, <3>1, <3>2
    <3>4. st[1].call = "batch" => w[1].todo = st[1].todo
      BY <1>5, <3>1, <3>3
    <3> QED
      BY <3>3, <3>4 DEF BatchTodo
  <2> QED
    BY <2>1, <2>2
<1> QED
  BY <1>1, <1>2, <1>4, <1>6

LEMMA PushBatch ==
  ASSUME NEW st \in Seq(Frames), NEW F \in Frames, F.call # "batch"
  PROVE  BatchTodo(Append(st, F)) = BatchTodo(st)
<1>1. PICK w : w = Append(st, F)
  OBVIOUS
<1>2. /\ w \in Seq(Frames) /\ Len(w) = Len(st) + 1
      /\ DOMAIN st = 1..Len(st) /\ Len(st) \in Nat
      /\ \A f \in 1..Len(st) : w[f] = st[f]
      /\ w[Len(st) + 1] = F
  BY <1>1, PushFacts
<1>3. w # <<>>
  BY <1>2
<1>4. CASE st = <<>>
  <2>1. w[1] = F
    BY <1>2, <1>4
  <2> QED
    BY <1>1, <1>4, <2>1 DEF BatchTodo
<1>5. CASE st # <<>>
  <2>1. w[1] = st[1]
    BY <1>2, <1>5
  <2> QED
    BY <1>1, <1>3, <1>5, <2>1 DEF BatchTodo
<1> QED
  BY <1>4, <1>5

\* A step that names no id leaves the set of ids alone.
LEMMA AdvanceReplayed ==
  ASSUME NEW st \in Seq(Frames), st # <<>>, st[Len(st)].todo # <<>>,
         NEW os, NEW cs, StackOK(st, os, cs),
         Head(st[Len(st)].todo).do \notin {"connect", "install", "data"},
         NEW ids, NEW p, NEW w, Replayed(st, ids, p, w)
  PROVE  Replayed(Replaced(st, Advanced(st[Len(st)])), ids, p, w)
<1>1. PICK st2 : st2 = Replaced(st, Advanced(st[Len(st)]))
  OBVIOUS
<1>2. PICK t : t = st[Len(st)].todo
  OBVIOUS
<1>3. t \in Seq(Steps) /\ t # <<>>
  <2>1. st[Len(st)] \in Frames
    <3>1. Len(st) \in DOMAIN st
      OBVIOUS
    <3> QED
      BY <3>1
  <2> QED
    BY <1>2, <2>1 DEF Frames
<1>4. Head(t) = t[1] /\ t[1].do \notin {"connect", "install", "data"}
  BY <1>2, <1>3, TailFacts
<1>5. PICK from \in SUBSET Ids, mid \in SUBSET Ids, last \in SUBSET Ids :
        /\ ids \subseteq from /\ last \subseteq Used(w)
        /\ Replays(BatchTodo(st), from, mid) /\ Replays(p, mid, last)
  BY DEF Replayed
<1>6. Replays(BatchTodo(st2), from, mid)
  <2>1. CASE st[Len(st)].call = "batch"
    <3>1. BatchTodo(st) = t /\ BatchTodo(st2) = Tail(t)
      BY <1>1, <1>2, <2>1, AdvanceBatch
    <3>2. PICK m \in SUBSET Ids : Moves(t[1], from, m) /\ Replays(Tail(t), m, mid)
      BY <1>3, <1>5, <3>1, SkipReplays
    <3>3. m = from
      BY <1>4, <3>2 DEF Moves
    <3> QED
      BY <3>1, <3>2, <3>3
  <2>2. CASE st[Len(st)].call # "batch"
    BY <1>1, <1>5, <2>2, AdvanceBatch
  <2> QED
    BY <2>1, <2>2
<1> QED
  BY <1>1, <1>5, <1>6 DEF Replayed

-----------------------------------------------------------------------------
(* Steps that change neither the map nor an object.                         *)

\* A stack that another call may be put on, in a calm run.
Settles(st) ==
    /\ st \in Seq(Frames)
    /\ CalmLow(st, objs, connections)
    /\ Once(st)
    /\ native # 0 =>
         /\ FromRun(st, native)
         /\ \A ids, p, w : Replayed(stack, ids, p, w) => Replayed(st, ids, p, w)

LEMMA LaterSettles ==
  ASSUME FInv, Calm, NEW st \in Seq(Frames), Later(st, stack),
         \A ids, p, w : Replayed(stack, ids, p, w) => Replayed(st, ids, p, w)
  PROVE  Settles(st)
<1>1. CalmLow(st, objs, connections)
  BY LaterLow DEF Calm
<1>2. Once(st)
  BY LaterOnce DEF Calm
<1>3. native # 0 => FromRun(st, native)
  BY LaterRun DEF Calm, RunCalm
<1> QED
  BY <1>1, <1>2, <1>3 DEF Settles

LEMMA PushSettles ==
  ASSUME NEW st, Settles(st), NEW F \in Frames, F.call # "batch",
         native # 0 => F.call # "close",
         \A i \in DOMAIN F.todo : F.todo[i].do \in {"server", "callback", "serverClose"}
  PROVE  Settles(Append(st, F))
<1>0. st \in Seq(Frames)
  BY DEF Settles
<1>1. PICK w : w = Append(st, F)
  OBVIOUS
<1>2. w \in Seq(Frames)
  BY <1>0, <1>1
<1>3. CalmLow(w, objs, connections)
  <2>1. \A i \in DOMAIN F.todo : LowStep(F.todo[i], F.call, objs, connections)
    BY DEF LowStep
  <2> QED
    BY <1>0, <1>1, <2>1, PushLow DEF Settles
<1>4. Once(w)
  <2>1. \A i \in DOMAIN F.todo : F.todo[i].do \notin OnceOnly
    BY DEF OnceOnly
  <2>2. Once(st)
    BY DEF Settles
  <2> QED
    BY <1>0, <1>1, <2>1, <2>2, PushOnce
<1>5. native # 0 => FromRun(w, native)
  <2>1. \A i \in DOMAIN F.todo : F.todo[i].do \notin Events \cup {"install"}
    BY DEF Events
  <2> QED
    BY <1>0, <1>1, <2>1, PushRun DEF Settles
<1>6. BatchTodo(w) = BatchTodo(st)
  BY <1>0, <1>1, PushBatch
<1>7. \A ids, p, v : Replayed(st, ids, p, v) => Replayed(w, ids, p, v)
  BY <1>6 DEF Replayed
<1> QED
  BY <1>1, <1>2, <1>3, <1>4, <1>5, <1>7 DEF Settles

LEMMA AdvanceSettles ==
  ASSUME FInv, Calm, stack # <<>>, Top.todo # <<>>,
         native # 0 => Head(Top.todo).do \notin {"connect", "install", "data"}
  PROVE  Settles(WithTop(Rest))
<1>1. stack \in Seq(Frames) /\ StackOK(stack, objs, connections)
  BY TypeFacts
<1>2. Top = stack[Len(stack)] /\ WithTop(Rest) = Replaced(stack, Advanced(stack[Len(stack)]))
  BY TopIs
<1>3. PICK st : st = WithTop(Rest)
  OBVIOUS
<1>4. st \in Seq(Frames)
  BY <1>3, Advances
<1>5. Later(st, stack)
  BY <1>1, <1>2, <1>3, AdvanceLater
<1>6. CalmLow(st, objs, connections)
  BY <1>5, LaterLow DEF Calm
<1>7. Once(st)
  BY <1>4, <1>5, LaterOnce DEF Calm
<1>8. native # 0 => FromRun(st, native)
  BY <1>5, LaterRun DEF Calm, RunCalm
<1>9. ASSUME native # 0, NEW ids, NEW p, NEW w, Replayed(stack, ids, p, w)
      PROVE  Replayed(st, ids, p, w)
  BY <1>1, <1>2, <1>3, <1>9, AdvanceReplayed
<1> QED
  BY <1>3, <1>4, <1>6, <1>7, <1>8, <1>9 DEF Settles

LEMMA PopSettles ==
  ASSUME FInv, Calm, stack # <<>>, Top.todo = <<>>
  PROVE  Settles(Below) /\ Settles(Thrown(Below)) /\ Settles(stack)
<1>1. stack \in Seq(Frames)
  BY TypeFacts
<1>2. Top = stack[Len(stack)] /\ Below = SubSeq(stack, 1, Len(stack) - 1)
  BY TopIs
<1>3. /\ Below \in Seq(Frames) /\ Later(Below, stack) /\ Later(Thrown(Below), stack)
      /\ BatchTodo(Below) = BatchTodo(stack)
      /\ BatchTodo(Thrown(Below)) = BatchTodo(stack)
  BY <1>1, <1>2, FrontFacts, PopLater, PopBatch
<1>4. Thrown(Below) \in Seq(Frames)
  BY <1>3, ThrownFacts
<1>5. Later(stack, stack)
  BY <1>1, <1>2, StayLater
<1>6. Settles(Below)
  BY <1>3, LaterSettles DEF Replayed
<1>7. Settles(Thrown(Below))
  BY <1>3, <1>4, LaterSettles DEF Replayed
<1>8. Settles(stack)
  BY <1>1, <1>5, LaterSettles
<1> QED
  BY <1>6, <1>7, <1>8

\* Whoever is in the map is open, unless the next thing is to tell of it.
LEMMA MapOpen ==
  ASSUME Calm, stack # <<>> /\ Top.todo # <<>> => Head(Top.todo).do # "connection"
  PROVE  /\ \A c \in DOMAIN connections : objs[connections[c]].life = "open"
         /\ \A o \in DOMAIN objs : objs[o].life # "new"
  BY DEF Calm, CalmMap, Telling, Top

\* A step of this kind: the stack goes on and the rest of a run stays.
LEMMA SettledCalm ==
  ASSUME FInv, Calm, Settles(stack'),
         stack # <<>> /\ Top.todo # <<>> => Head(Top.todo).do # "connection",
         UNCHANGED <<native, closed, objs, connections, pending, wire, crossed>>
  PROVE  Calm'
<1>1. objs' = objs /\ connections' = connections /\ native' = native /\ closed' = closed
      /\ pending' = pending /\ wire' = wire /\ crossed' = crossed
  OBVIOUS
<1>2. PICK st : st = stack'
  OBVIOUS
<1>3. Settles(st)
  BY <1>2
<1>4. CalmLow(st, objs, connections) /\ Once(st)
  BY <1>3 DEF Settles
<1>5. CalmStack(st, objs, connections)
  BY <1>4, LowCalm
<1>6. CalmMap(st, objs, connections)
  BY MapOpen DEF CalmMap
<1>7. native # 0 => RunCalm(native, st, objs, connections, pending, wire)
  BY <1>3 DEF Calm, RunCalm, Settles
<1>8. Unbroken(objs) /\ crossed = {} /\ (closed => connections = <<>>)
  BY DEF Calm
<1> QED
  BY <1>1, <1>2, <1>4, <1>5, <1>6, <1>7, <1>8 DEF Calm

\* Events are handled only in a run that is calm, and they are of this run.
LEMMA CalmEvent ==
  ASSUME FInv, Calm, NEW x \in Events \cup {"install"}, About(x), ~closed \/ x = "install"
  PROVE  /\ ~closed /\ native # 0
         /\ RunCalm(native, stack, objs, connections, pending, wire)
         /\ Head(Top.todo).n = native
         /\ \A c \in DOMAIN connections : objs[connections[c]].life = "open"
         /\ \A o \in DOMAIN objs : objs[o].life # "new"
<1>1. stack \in Seq(Frames) /\ StackOK(stack, objs, connections)
  BY TypeFacts
<1>2. /\ Top \in Frames /\ Top.todo # <<>> /\ stack # <<>> /\ Len(stack) = 1
      /\ Head(Top.todo) = Top.todo[1] /\ 1 \in DOMAIN Top.todo
  BY BatchTop, HeadFacts
<1>3. Top = stack[1] /\ 1 \in DOMAIN stack
  BY <1>1, <1>2, TopIs
<1>4. Head(Top.todo).do = x
  BY DEF About
<1>5. ~closed
  <2>1. CASE x = "install"
    <3>1. ~LowStep(stack[1].todo[1], stack[1].call, objs, connections)
      BY <1>2, <1>3, <1>4, <2>1 DEF LowStep
    <3>2. ~CalmLow(stack, objs, connections)
      BY <1>2, <1>3, <3>1 DEF CalmLow
    <3> QED
      BY <3>2 DEF Calm
  <2> QED
    BY <2>1
<1>6. native # 0
  BY <1>5 DEF FInv, LifeInv, ServerWhole, RunningIsWhole
<1>7. RunCalm(native, stack, objs, connections, pending, wire)
  BY <1>6 DEF Calm
<1>8. Head(Top.todo).n = native
  BY <1>2, <1>3, <1>4, <1>7 DEF RunCalm, FromRun
<1>9. /\ \A c \in DOMAIN connections : objs[connections[c]].life = "open"
      /\ \A o \in DOMAIN objs : objs[o].life # "new"
  BY <1>4, MapOpen DEF Events
<1> QED
  BY <1>5, <1>6, <1>7, <1>8, <1>9

\* What a handler leaves of a calm stack: its own steps, and the events behind.
ContinuesCalm(st, steps, os, cs, n, rest) ==
    /\ CalmStack(st, os, cs)
    /\ Once(st)
    /\ FromRun(st, n)
    /\ BatchTodo(st) = steps \o rest
    /\ steps[1].do = "connection" => Telling(st, steps[1].k)

\* The handler tells a new connection its first 'data' second.
FirstData(steps, i, os) ==
    /\ i = 2 /\ steps[i].do = "tellData" /\ steps[1].do # "tellData"
    /\ os[steps[i].k].found /\ os[steps[i].k].life # "late"

LEMMA ContinueCalm ==
  ASSUME FInv, Calm, NEW x \in Events \cup {"install"}, About(x),
         NEW n, FromRun(stack, n), NEW os, NEW cs,
         NEW steps \in Seq(Steps), steps # <<>>,
         HeadStep(steps[1], os, cs),
         steps[1].do \in Events \cup {"install"} => steps[1].n = n,
         \A i \in DOMAIN steps : i # 1 => steps[i].do = "server" \/ FirstData(steps, i, os)
  PROVE  ContinuesCalm(Continue(steps), steps, os, cs, n, Tail(Top.todo))
<1>1. /\ Top \in Frames /\ Top.call = "batch" /\ Top.todo # <<>>
      /\ stack # <<>> /\ Len(stack) = 1
      /\ \A j \in DOMAIN Tail(Top.todo) : Tail(Top.todo)[j].do \in Events
  BY BatchTop
<1>2. stack \in Seq(Frames)
  BY TypeFacts
<1>3. PICK rest : rest = Tail(Top.todo)
  OBVIOUS
<1>4. PICK old : old = Top.todo
  OBVIOUS
<1>5. old \in Seq(Steps) /\ old # <<>>
  BY <1>1, <1>4 DEF Frames
<1>6. /\ rest \in Seq(Steps) /\ DOMAIN rest = 1..(Len(old) - 1) /\ Len(old) \in Nat
      /\ DOMAIN old = 1..Len(old)
      /\ \A i \in 1..(Len(old) - 1) : rest[i] = old[i + 1]
  BY <1>3, <1>4, <1>5, TailFacts
<1>7. \A j \in DOMAIN rest : rest[j].do \in Events /\ rest[j].n = n
  <2>1. stack[1].todo = old /\ 1 \in DOMAIN stack
    BY <1>1, <1>2, <1>4, TopIs
  <2>2. \A i \in DOMAIN old : old[i].do \in Events \cup {"install"} => old[i].n = n
    BY <2>1 DEF FromRun
  <2>3. \A j \in DOMAIN rest : j + 1 \in DOMAIN old /\ rest[j] = old[j + 1]
    BY <1>6
  <2>4. \A j \in DOMAIN rest : rest[j].do \in Events
    BY <1>1, <1>3
  <2> QED
    BY <2>2, <2>3, <2>4
<1>8. PICK t : t = steps \o rest
  OBVIOUS
<1>9. PICK m : m = Len(steps)
  OBVIOUS
<1>10. PICK r : r = Len(rest)
  OBVIOUS
<1>11. Joined(steps, rest, t, m, r)
  BY <1>6, <1>8, <1>9, <1>10, JoinFacts
<1>12. /\ t \in Seq(Steps) /\ m \in Nat /\ r \in Nat /\ DOMAIN t = 1..(m + r)
       /\ DOMAIN steps = 1..m /\ DOMAIN rest = 1..r
       /\ \A i \in 1..m : i \in 1..(m + r) /\ t[i] = steps[i]
       /\ \A i \in 1..(m + r) : i \in 1..m \/ (i - m \in 1..r /\ t[i] = rest[i - m])
  BY <1>11 DEF Joined
<1>13. 1 \in 1..m /\ t[1] = steps[1] /\ 1 \in DOMAIN t
  <2>1. m # 0
    BY <1>9
  <2> QED
    BY <1>12, <2>1
<1>14. \A i \in DOMAIN t : \/ i = 1
                           \/ t[i].do = "server"
                           \/ FirstData(t, i, os)
                           \/ (t[i].do \in Events /\ t[i].n = n)
  <2> SUFFICES ASSUME NEW i \in DOMAIN t, i # 1
               PROVE  \/ t[i].do = "server"
                      \/ FirstData(t, i, os)
                      \/ (t[i].do \in Events /\ t[i].n = n)
    OBVIOUS
  <2>1. CASE i \in 1..m
    BY <1>12, <1>13, <2>1 DEF FirstData
  <2>2. CASE i - m \in 1..r /\ t[i] = rest[i - m]
    BY <1>7, <1>12, <2>2
  <2> QED
    BY <1>12, <2>1, <2>2
<1>15. PICK G : G = [Top EXCEPT !.todo = t]
  OBVIOUS
<1>16. G \in Frames /\ G.call = "batch" /\ G.todo = t
  BY <1>1, <1>12, <1>15 DEF Frames
<1>17. Continue(steps) = Replaced(stack, G)
  BY <1>3, <1>8, <1>15 DEF Continue, WithTop, Below, Replaced
<1>18. PICK w : w = Replaced(stack, G)
  OBVIOUS
<1>19. w \in Seq(Frames) /\ Len(w) = 1 /\ DOMAIN w = {1} /\ w[1] = G
  <2>1. PICK st : st = stack
    OBVIOUS
  <2>2. st \in Seq(Frames) /\ st # <<>>
    BY <1>1, <1>2, <2>1
  <2>3. /\ Replaced(st, G) \in Seq(Frames) /\ Len(Replaced(st, G)) = Len(st)
        /\ DOMAIN Replaced(st, G) = 1..Len(st)
        /\ Replaced(st, G)[Len(st)] = G
    BY <1>16, <2>2, ReplacedFacts
  <2>4. /\ w \in Seq(Frames) /\ Len(w) = Len(stack)
        /\ DOMAIN w = 1..Len(stack) /\ w[Len(stack)] = G
    BY <1>18, <2>1, <2>3, Zenon
  <2> QED
    BY <1>1, <2>4
<1>20. CalmStack(w, os, cs)
  <2>1. \A i \in DOMAIN t : i # 1 => LowStep(t[i], "batch", os, cs)
    BY <1>14 DEF LowStep, Events, FirstData
  <2>2. HeadStep(t[1], os, cs)
    BY <1>13
  <2> QED
    BY <1>16, <1>19, <2>1, <2>2 DEF CalmStack, IsHead
<1>21. Once(w)
  <2>1. \A i \in DOMAIN t : /\ t[i].do = "tellClose" => i = 1
                            /\ t[i].do = "tellData" => i = 1 \/ FirstData(t, i, os)
    BY <1>14 DEF Events, FirstData
  <2>2. \A i, j \in DOMAIN t : t[i].do \in OnceOnly /\ t[j].do = t[i].do => i = j
    BY <2>1 DEF OnceOnly, FirstData
  <2> QED
    BY <1>16, <1>19, <2>2 DEF Once
<1>22. FromRun(w, n)
  <2>1. \A i \in DOMAIN t : t[i].do \in Events \cup {"install"} => t[i].n = n
    BY <1>13, <1>14 DEF Events, FirstData
  <2> QED
    BY <1>16, <1>19, <2>1 DEF FromRun
<1>23. w # <<>>
  <2>1. DOMAIN <<>> = {}
    OBVIOUS
  <2> QED
    BY <1>19, <2>1
<1>24. BatchTodo(w) = steps \o rest
  BY <1>8, <1>16, <1>19, <1>23 DEF BatchTodo
<1>25. steps[1].do = "connection" => Telling(w, steps[1].k)
  <2>1. t # <<>> /\ Head(t) = t[1]
    BY <1>12, <1>13
  <2> QED
    BY <1>13, <1>16, <1>19, <1>23, <2>1 DEF Telling
<1> QED
  BY <1>3, <1>17, <1>18, <1>20, <1>21, <1>22, <1>24, <1>25 DEF ContinuesCalm

\* What is left of the batch, and what waits behind it.
Leads(mid, last, end) ==
    /\ mid \in SUBSET Ids /\ last \in SUBSET Ids /\ end \in SUBSET Ids
    /\ Replays(Tail(Top.todo), mid, last)
    /\ Replays(pending[native], last, end)
    /\ end \subseteq Used(wire[native])

\* The event at hand and the ids it finds.
LEMMA EventReplays ==
  ASSUME FInv, Calm, NEW x \in Events \cup {"install"}, About(x), ~closed \/ x = "install",
         NEW ids, ids = IdsOf(objs, connections)
  PROVE  \E from, mid, last, end \in SUBSET Ids :
            /\ ids \subseteq from /\ Moves(Head(Top.todo), from, mid)
            /\ Leads(mid, last, end)
<1>1. stack \in Seq(Frames) /\ StackOK(stack, objs, connections)
  BY TypeFacts
<1>2. /\ Top \in Frames /\ Top.todo # <<>> /\ stack # <<>> /\ Top.call = "batch"
      /\ Head(Top.todo) = Top.todo[1]
  BY BatchTop, HeadFacts
<1>3. Top = stack[Len(stack)]
  BY TopIs
<1>4. BatchTodo(stack) = Top.todo
  BY <1>1, <1>2, <1>3, AdvanceBatch
<1>5. RunCalm(native, stack, objs, connections, pending, wire)
  BY CalmEvent
<1>6. PICK from \in SUBSET Ids, last \in SUBSET Ids, end \in SUBSET Ids :
        /\ ids \subseteq from /\ end \subseteq Used(wire[native])
        /\ Replays(Top.todo, from, last) /\ Replays(pending[native], last, end)
  BY <1>4, <1>5 DEF RunCalm, Replayed
<1>7. Top.todo \in Seq(Steps)
  BY <1>2 DEF Frames
<1>8. PICK mid \in SUBSET Ids : Moves(Top.todo[1], from, mid) /\ Replays(Tail(Top.todo), mid, last)
  BY <1>2, <1>6, <1>7, SkipReplays
<1> QED
  BY <1>2, <1>6, <1>8 DEF Leads

LEMMA LookupInMap ==
  ASSUME FInv, NEW id
  PROVE  Lookup(id) = {} <=> id \notin IdsOf(objs, connections)
  BY LookupIs DEF IdsOf

-----------------------------------------------------------------------------
(* A calm run handles an event.                                            *)

\* The handler puts its steps first; the first of them may be to tell the new
\* connection, and it and the events that are left account for the ids.
Handles(steps, os, cs, from, mid, last, end) ==
    /\ os \in Seq(Objs) /\ MapOK(os, cs)
    /\ steps \in Seq(Steps) /\ steps # <<>> /\ HeadStep(steps[1], os, cs)
    /\ steps[1].do \in Events \cup {"install"} => steps[1].n = native
    /\ \A i \in DOMAIN steps : i # 1 => steps[i].do = "server" \/ FirstData(steps, i, os)
    /\ from \in SUBSET Ids /\ IdsOf(os, cs) \subseteq from
    /\ Moves(steps[1], from, mid) /\ Leads(mid, last, end)
    /\ Unbroken(os) /\ Ours(os, native)
    /\ \A c \in DOMAIN cs : \/ os[cs[c]].life = "open"
                            \/ /\ os[cs[c]].life = "new"
                               /\ steps[1].do = "connection" /\ steps[1].k = cs[c]
    /\ \A o \in DOMAIN os : os[o].life = "new" => steps[1].do = "connection" /\ steps[1].k = o

LEMMA EventCalm ==
  ASSUME FInv, Calm, NEW x \in Events \cup {"install"}, About(x), ~closed \/ x = "install",
         NEW os, os = objs', NEW cs, cs = connections',
         NEW steps, NEW from, NEW mid, NEW last, NEW end,
         Handles(steps, os, cs, from, mid, last, end), stack' = Continue(steps),
         UNCHANGED <<lifecycle, source>>, crossed' = {}
  PROVE  Calm'
<1> USE DEF Handles
<1>1. ~closed /\ native # 0 /\ RunCalm(native, stack, objs, connections, pending, wire)
  BY CalmEvent
<1>2. PICK st : st = stack'
  OBVIOUS
<1>3. ContinuesCalm(st, steps, os, cs, native, Tail(Top.todo))
  <2>1. FromRun(stack, native)
    BY <1>1 DEF RunCalm
  <2> QED
    BY <1>2, <2>1, ContinueCalm
<1>4. /\ CalmStack(st, os, cs) /\ Once(st) /\ FromRun(st, native)
      /\ BatchTodo(st) = steps \o Tail(Top.todo)
      /\ steps[1].do = "connection" => Telling(st, steps[1].k)
  BY <1>3 DEF ContinuesCalm
<1>5. /\ mid \in SUBSET Ids /\ last \in SUBSET Ids /\ end \in SUBSET Ids
      /\ Replays(Tail(Top.todo), mid, last) /\ Replays(pending[native], last, end)
      /\ end \subseteq Used(wire[native])
  BY DEF Leads
<1>6. Tail(Top.todo) \in Seq(Steps)
  <2>1. Top \in Frames /\ Top.todo # <<>>
    BY BatchTop
  <2>2. Top.todo \in Seq(Steps)
    BY <2>1 DEF Frames
  <2> QED
    BY <2>1, <2>2, TailFacts
<1>7. Replays(steps \o Tail(Top.todo), from, last)
  <2>1. \A i \in DOMAIN steps : i # 1 => steps[i].do \notin Events \cup {"install"}
    BY DEF Events, FirstData
  <2> QED
    BY <1>5, <1>6, <2>1, PutReplays
<1>8. Replayed(st, IdsOf(os, cs), pending[native], wire[native])
  BY <1>4, <1>5, <1>7 DEF Replayed
<1>9. RunCalm(native, st, os, cs, pending, wire)
  BY <1>1, <1>4, <1>8 DEF RunCalm
<1>10. CalmMap(st, os, cs)
  BY <1>4 DEF CalmMap
<1>11. native' = native /\ closed' = closed /\ pending' = pending /\ wire' = wire
  BY DEF lifecycle, source
<1> QED
  BY <1>1, <1>2, <1>4, <1>9, <1>10, <1>11 DEF Calm

LEMMA ConnectCalm == ASSUME FInv, Calm, HandleConnect PROVE Calm'
<1>1. About("connect") /\ ~closed
  BY DEF HandleConnect
<1>2. PICK e : e = Head(Top.todo)
  OBVIOUS
<1>3. PICK ids : ids = IdsOf(objs, connections)
  OBVIOUS
<1>4. e.do = "connect" /\ e.n \in Natives /\ e.k \in Ids
  BY <1>1, <1>2, BatchTop DEF About, Events
<1>5. /\ RunCalm(native, stack, objs, connections, pending, wire) /\ e.n = native
      /\ \A c \in DOMAIN connections : objs[connections[c]].life = "open"
      /\ \A p \in DOMAIN objs : objs[p].life # "new"
  BY <1>1, <1>2, CalmEvent DEF Events
<1>6. PICK from \in SUBSET Ids, mid \in SUBSET Ids, last \in SUBSET Ids, end \in SUBSET Ids :
        ids \subseteq from /\ Moves(e, from, mid) /\ Leads(mid, last, end)
  BY <1>1, <1>2, <1>3, EventReplays DEF Events
<1>7. e.k \notin from /\ mid = from \cup {e.k}
  BY <1>4, <1>6 DEF Moves
<1>8. Lookup(e.k) = {}
  BY <1>3, <1>6, <1>7, LookupInMap
<1>9. PICK s : s = <<Step("install", e.n, e.k)>>
  OBVIOUS
<1>10. /\ s \in Seq(Steps) /\ s # <<>> /\ DOMAIN s = {1}
       /\ s[1].do = "install" /\ s[1].n = native /\ s[1].k = e.k
  <2>1. /\ Step("install", e.n, e.k) \in Steps /\ Step("install", e.n, e.k).do = "install"
        /\ Step("install", e.n, e.k).n = e.n /\ Step("install", e.n, e.k).k = e.k
    BY <1>4, TellType
  <2>2. s \in Seq(Steps) /\ Len(s) = 1 /\ DOMAIN s = {1} /\ s[1] = Step("install", e.n, e.k)
    BY <1>9, <2>1, OneStep
  <2>3. DOMAIN <<>> = {}
    OBVIOUS
  <2> QED
    BY <1>5, <2>1, <2>2, <2>3
<1>11. stack' = Continue(s) /\ objs' = objs /\ connections' = connections
       /\ UNCHANGED <<lifecycle, source>> /\ crossed' = {}
  <2>1. Crossing(e) = {}
    BY <1>5 DEF Crossing
  <2>2. crossed = {}
    BY DEF Calm
  <2> QED
    BY <1>2, <1>8, <1>9, <2>1, <2>2 DEF HandleConnect
<1>12. HeadStep(s[1], objs, connections)
  BY <1>10 DEF HeadStep
<1>13. Moves(s[1], from, mid)
  BY <1>7, <1>10 DEF Moves
<1>14. objs \in Seq(Objs) /\ MapOK(objs, connections)
  BY TypeFacts
<1>15. Unbroken(objs) /\ Ours(objs, native)
  BY <1>5 DEF Calm, RunCalm
<1>16. Handles(s, objs, connections, from, mid, last, end)
  BY <1>3, <1>5, <1>6, <1>10, <1>12, <1>13, <1>14, <1>15 DEF Handles
<1> QED
  BY <1>1, <1>11, <1>16, EventCalm DEF Events

\* A new connection enters the map and is told of.
Introduces(s, o, b) ==
    /\ s \in Seq(Steps) /\ s # <<>> /\ s[1].do = "connection" /\ s[1].k = o
    /\ \A i \in DOMAIN s : i # 1 => \/ s[i].do = "server"
                                    \/ i = 2 /\ s[i].do = "tellData" /\ s[i].k = o /\ b = TRUE

LEMMA EnterCalm ==
  ASSUME FInv, Calm, NEW x \in Events \cup {"install"}, About(x), ~closed \/ x = "install",
         NEW id, NEW b, NEW o, NEW os, NEW cs, HasEntered(id, native, b, o, os, cs),
         os = objs', cs = connections',
         NEW s, Introduces(s, o, b), stack' = Continue(s),
         NEW mid, NEW last, NEW end, Leads(mid, last, end),
         IdsOf(objs, connections) \cup {id} \subseteq mid,
         UNCHANGED <<lifecycle, source>>, crossed' = {}
  PROVE  Calm'
<1> USE DEF Introduces
<1>0. mid \in SUBSET Ids
  BY DEF Leads
<1>1. /\ RunCalm(native, stack, objs, connections, pending, wire)
      /\ \A c \in DOMAIN connections : objs[connections[c]].life = "open"
      /\ \A p \in DOMAIN objs : objs[p].life # "new"
  BY CalmEvent
<1>2. /\ os \in Seq(Objs) /\ DOMAIN os = DOMAIN objs \cup {o} /\ o \notin DOMAIN objs
      /\ os[o] = Fresh(id, native, b)
      /\ \A p \in DOMAIN objs : os[p] = objs[p]
      /\ \A c : Known(cs, c) <=> Known(connections, c) \/ c = o
      /\ MapOK(os, cs)
  BY DEF HasEntered
<1>3. os[o].life = "new" /\ os[o].id = id /\ os[o].src = native /\ os[o].found = b
  BY <1>2 DEF Fresh
<1>4. \A c \in DOMAIN cs : cs[c] # o => \E d \in DOMAIN connections :
                                           /\ connections[d] = cs[c]
                                           /\ os[cs[c]] = objs[connections[d]]
  <2> SUFFICES ASSUME NEW c \in DOMAIN cs, cs[c] # o
               PROVE  \E d \in DOMAIN connections : /\ connections[d] = cs[c]
                                                    /\ os[cs[c]] = objs[connections[d]]
    OBVIOUS
  <2>1. Known(cs, cs[c])
    BY DEF Known
  <2>2. PICK d \in DOMAIN connections : connections[d] = cs[c]
    BY <1>2, <2>1 DEF Known
  <2> QED
    BY <1>2, <2>2, ObjAt
<1>5. \A c \in DOMAIN cs : \/ os[cs[c]].life = "open"
                           \/ os[cs[c]].life = "new" /\ s[1].do = "connection" /\ s[1].k = cs[c]
  BY <1>1, <1>3, <1>4
<1>6. \A p \in DOMAIN os : os[p].life = "new" => s[1].do = "connection" /\ s[1].k = p
  BY <1>1, <1>2
<1>7. IdsOf(os, cs) \subseteq mid
  <2> SUFFICES ASSUME NEW c \in DOMAIN cs PROVE os[cs[c]].id \in mid
    BY DEF IdsOf
  <2>1. CASE cs[c] = o
    BY <1>3, <2>1
  <2>2. CASE cs[c] # o
    BY <1>4, <2>2 DEF IdsOf
  <2> QED
    BY <2>1, <2>2
<1>8. HeadStep(s[1], os, cs)
  BY <1>3 DEF HeadStep
<1>9. Moves(s[1], mid, mid) /\ s[1].do \notin Events \cup {"install"}
  BY DEF Moves, Events
<1>10. Unbroken(os)
  BY <1>2, <1>3 DEF Calm, Unbroken
<1>11. Ours(os, native)
  BY <1>1, <1>2, <1>3 DEF RunCalm, Ours
<1>12. \A i \in DOMAIN s : i # 1 => s[i].do = "server" \/ FirstData(s, i, os)
  BY <1>3 DEF FirstData
<1>13. Handles(s, os, cs, mid, mid, last, end)
  BY <1>0, <1>2, <1>5, <1>6, <1>7, <1>8, <1>9, <1>10, <1>11, <1>12 DEF Handles
<1> QED
  BY <1>13, EventCalm

LEMMA InstallCalm == ASSUME FInv, Calm, Install PROVE Calm'
<1>1. About("install")
  BY DEF Install
<1>2. PICK e : e = Head(Top.todo)
  OBVIOUS
<1>3. PICK ids : ids = IdsOf(objs, connections)
  OBVIOUS
<1>4. e.do = "install" /\ e.n \in Natives /\ e.k \in Ids /\ Lookup(e.k) = {}
  BY <1>1, <1>2, BatchTop, LookupIs DEF About
<1>5. e.n = native
  BY <1>1, <1>2, CalmEvent
<1>6. PICK from \in SUBSET Ids, mid \in SUBSET Ids, last \in SUBSET Ids, end \in SUBSET Ids :
        ids \subseteq from /\ Moves(e, from, mid) /\ Leads(mid, last, end)
  BY <1>1, <1>2, <1>3, EventReplays
<1>7. ids \cup {e.k} \subseteq mid
  BY <1>4, <1>6 DEF Moves
<1>8. PICK o : o = Len(objs) + 1
  OBVIOUS
<1>9. PICK os : os = Append(objs, Fresh(e.k, e.n, FALSE))
  OBVIOUS
<1>10. PICK cs : cs = With(o, e.k)
  OBVIOUS
<1>11. HasEntered(e.k, e.n, FALSE, o, os, cs)
  <2>1. Enters(e.k, e.n, FALSE, o, os, cs)
    BY <1>4, <1>8, <1>9, <1>10 DEF Enters
  <2> QED
    BY <2>1, EnterFacts
<1>12. NewObject(e) = Fresh(e.k, e.n, FALSE)
  BY <1>4 DEF NewObject, Fresh
<1>13. /\ objs' = os /\ connections' = cs /\ stack' = Continue(<<Tell("connection", o)>>)
       /\ UNCHANGED <<lifecycle, source>> /\ crossed' = {}
  BY <1>2, <1>8, <1>9, <1>10, <1>12 DEF Install, Calm
<1>14. PICK s : s = <<Tell("connection", o)>>
  OBVIOUS
<1>15. /\ s \in Seq(Steps) /\ s # <<>> /\ DOMAIN s = {1}
       /\ s[1].do = "connection" /\ s[1].k = o
  <2>1. Tell("connection", o) \in Steps /\ Tell("connection", o).do = "connection"
        /\ Tell("connection", o).k = o
    BY <1>11, TellType DEF HasEntered, Tells
  <2>2. s \in Seq(Steps) /\ Len(s) = 1 /\ DOMAIN s = {1} /\ s[1] = Tell("connection", o)
    BY <1>14, <2>1, OneStep
  <2>3. DOMAIN <<>> = {}
    OBVIOUS
  <2> QED
    BY <2>1, <2>2, <2>3
<1>16. \A i \in DOMAIN s : i # 1 => s[i].do = "server"
  BY <1>15
<1>17. HasEntered(e.k, native, FALSE, o, os, cs)
  BY <1>5, <1>11
<1>18. Introduces(s, o, FALSE)
  BY <1>15, <1>16 DEF Introduces
<1>19. IdsOf(objs, connections) \cup {e.k} \subseteq mid
  BY <1>3, <1>7
<1> QED
  BY <1>1, <1>6, <1>13, <1>14, <1>17, <1>18, <1>19, EnterCalm

LEMMA DataCalm == ASSUME FInv, Calm, HandleData PROVE Calm'
<1>1. About("data") /\ ~closed
  BY DEF HandleData
<1>2. PICK e : e = Head(Top.todo)
  OBVIOUS
<1>3. PICK ids : ids = IdsOf(objs, connections)
  OBVIOUS
<1>4. e.do = "data" /\ e.n \in Natives /\ e.k \in Ids
  BY <1>1, <1>2, BatchTop DEF About, Events
<1>5. /\ RunCalm(native, stack, objs, connections, pending, wire) /\ e.n = native
      /\ \A c \in DOMAIN connections : objs[connections[c]].life = "open"
      /\ \A p \in DOMAIN objs : objs[p].life # "new"
  BY <1>1, <1>2, CalmEvent DEF Events
<1>6. PICK from \in SUBSET Ids, mid \in SUBSET Ids, last \in SUBSET Ids, end \in SUBSET Ids :
        ids \subseteq from /\ Moves(e, from, mid) /\ Leads(mid, last, end)
  BY <1>1, <1>2, <1>3, EventReplays DEF Events
<1>7. ids \cup {e.k} \subseteq mid
  BY <1>4, <1>6 DEF Moves
<1>8. UNCHANGED <<lifecycle, source>> /\ crossed' = {}
  <2>1. Crossing(e) = {}
    BY <1>5 DEF Crossing
  <2>2. crossed = {}
    BY DEF Calm
  <2> QED
    BY <1>2, <2>1, <2>2 DEF HandleData
<1>9. CASE Lookup(e.k) = {}
  <2>1. PICK o : o = Len(objs) + 1
    OBVIOUS
  <2>2. PICK os : os = Append(objs, Fresh(e.k, e.n, TRUE))
    OBVIOUS
  <2>3. PICK cs : cs = With(o, e.k)
    OBVIOUS
  <2>4. HasEntered(e.k, e.n, TRUE, o, os, cs)
    <3>1. Enters(e.k, e.n, TRUE, o, os, cs)
      BY <1>4, <1>9, <2>1, <2>2, <2>3 DEF Enters
    <3> QED
      BY <3>1, EnterFacts
  <2>5. NewObject(e) = Fresh(e.k, e.n, TRUE)
    BY <1>4 DEF NewObject, Fresh
  <2>6. PICK s : s = <<Tell("connection", o), Tell("tellData", o), Tell("server", o)>>
    OBVIOUS
  <2>7. objs' = os /\ connections' = cs /\ stack' = Continue(s)
    BY <1>2, <1>9, <2>1, <2>2, <2>3, <2>5, <2>6 DEF HandleData
  <2>8. /\ s \in Seq(Steps) /\ s # <<>> /\ DOMAIN s = {1, 2, 3}
        /\ s[1].do = "connection" /\ s[1].k = o
        /\ s[2].do = "tellData" /\ s[2].k = o
        /\ s[3].do = "server"
    <3>1. /\ Tell("connection", o) \in Steps /\ Tell("connection", o).do = "connection"
          /\ Tell("connection", o).k = o
          /\ Tell("tellData", o) \in Steps /\ Tell("tellData", o).do = "tellData"
          /\ Tell("tellData", o).k = o
          /\ Tell("server", o) \in Steps /\ Tell("server", o).do = "server"
      BY <2>4, TellType DEF HasEntered, Tells
    <3>2. /\ s \in Seq(Steps) /\ DOMAIN s = {1, 2, 3} /\ s[1] = Tell("connection", o)
          /\ s[2] = Tell("tellData", o) /\ s[3] = Tell("server", o)
      BY <2>6, <3>1, ThreeSteps
    <3>3. DOMAIN <<>> = {}
      OBVIOUS
    <3> QED
      BY <3>1, <3>2, <3>3
  <2>9. \A i \in DOMAIN s : i # 1 => \/ s[i].do = "server"
                                     \/ i = 2 /\ s[i].do = "tellData" /\ s[i].k = o
    BY <2>8
  <2>10. HasEntered(e.k, native, TRUE, o, os, cs)
    BY <1>5, <2>4
  <2>11. Introduces(s, o, TRUE)
    BY <2>8, <2>9 DEF Introduces
  <2>12. IdsOf(objs, connections) \cup {e.k} \subseteq mid
    BY <1>3, <1>7
  <2> QED
    BY <1>1, <1>6, <1>8, <2>7, <2>10, <2>11, <2>12, EnterCalm DEF Events
<1>10. CASE Lookup(e.k) # {}
  <2>1. PICK o \in Lookup(e.k) : stack' = Continue(<<Tell("tellData", o), Tell("server", o)>>)
    BY <1>2, <1>10 DEF HandleData
  <2>2. objs' = objs /\ connections' = connections
    BY <1>2, <1>10 DEF HandleData
  <2>3. o \in DOMAIN objs /\ o \in Nat /\ objs[o].life = "open"
    <3>1. o \in DOMAIN objs /\ Known(connections, o)
      BY LookupIs
    <3>2. objs[o].life = "open"
      BY <1>5, <3>1 DEF Known
    <3> QED
      BY <3>1, <3>2, TypeFacts
  <2>4. PICK s : s = <<Tell("tellData", o), Tell("server", o)>>
    OBVIOUS
  <2>5. /\ s \in Seq(Steps) /\ s # <<>> /\ DOMAIN s = {1, 2}
        /\ s[1].do = "tellData" /\ s[1].k = o /\ s[2].do = "server"
    <3>1. /\ Tell("tellData", o) \in Steps /\ Tell("tellData", o).do = "tellData"
          /\ Tell("tellData", o).k = o
          /\ Tell("server", o) \in Steps /\ Tell("server", o).do = "server"
      BY <2>3, TellType DEF Tells
    <3>2. /\ s \in Seq(Steps) /\ DOMAIN s = {1, 2}
          /\ s[1] = Tell("tellData", o) /\ s[2] = Tell("server", o)
      BY <2>4, <3>1, TwoSteps
    <3>3. DOMAIN <<>> = {}
      OBVIOUS
    <3> QED
      BY <3>1, <3>2, <3>3
  <2>6. HeadStep(s[1], objs, connections)
    BY <2>3, <2>5 DEF HeadStep
  <2>7. Moves(s[1], mid, mid) /\ s[1].do \notin Events \cup {"install"}
    BY <2>5 DEF Moves, Events
  <2>8. objs \in Seq(Objs) /\ MapOK(objs, connections)
    BY TypeFacts
  <2>9. Unbroken(objs) /\ Ours(objs, native)
    BY <1>5 DEF Calm, RunCalm
  <2>10. stack' = Continue(s)
    BY <2>1, <2>4
  <2>11. \A i \in DOMAIN s : i # 1 => s[i].do = "server"
    BY <2>5
  <2>12. IdsOf(objs, connections) \subseteq mid
    BY <1>3, <1>7
  <2>13. Handles(s, objs, connections, mid, mid, last, end)
    BY <1>5, <1>6, <2>5, <2>6, <2>7, <2>8, <2>9, <2>11, <2>12 DEF Handles
  <2> QED
    BY <1>1, <1>8, <2>2, <2>10, <2>13, EventCalm DEF Events
<1> QED
  BY <1>9, <1>10

LEMMA CloseCalm == ASSUME FInv, Calm, HandleClose PROVE Calm'
<1>1. About("close") /\ ~closed
  BY DEF HandleClose
<1>2. PICK e : e = Head(Top.todo)
  OBVIOUS
<1>3. PICK ids : ids = IdsOf(objs, connections)
  OBVIOUS
<1>4. e.do = "close"
  BY <1>1, <1>2 DEF About
<1>5. /\ RunCalm(native, stack, objs, connections, pending, wire) /\ e.n = native
      /\ \A c \in DOMAIN connections : objs[connections[c]].life = "open"
      /\ \A p \in DOMAIN objs : objs[p].life # "new"
  BY <1>1, <1>2, CalmEvent DEF Events
<1>6. PICK from \in SUBSET Ids, mid \in SUBSET Ids, last \in SUBSET Ids, end \in SUBSET Ids :
        ids \subseteq from /\ Moves(e, from, mid) /\ Leads(mid, last, end)
  BY <1>1, <1>2, <1>3, EventReplays DEF Events
<1>7. mid = from
  BY <1>4, <1>6 DEF Moves
<1>8. objs' = objs /\ UNCHANGED <<lifecycle, source>> /\ crossed' = {}
  <2>1. Crossing(e) = {}
    BY <1>5 DEF Crossing
  <2>2. crossed = {}
    BY DEF Calm
  <2> QED
    BY <1>2, <2>1, <2>2 DEF HandleClose
<1>9. CASE Lookup(e.k) = {}
  <2>1. stack' = WithTop(Rest) /\ connections' = connections
    BY <1>2, <1>9 DEF HandleClose
  <2>2. stack # <<>> /\ Top.todo # <<>> /\ Head(Top.todo).do = "close"
    BY <1>1 DEF About
  <2>3. Settles(stack')
    BY <2>1, <2>2, AdvanceSettles
  <2>4. UNCHANGED <<native, closed, objs, connections, pending, wire, crossed>>
    BY <1>8, <2>1 DEF lifecycle, source, Calm
  <2> QED
    BY <2>2, <2>3, <2>4, SettledCalm
<1>10. CASE Lookup(e.k) # {}
  <2>1. PICK o \in Lookup(e.k) :
          /\ connections' = Without(o)
          /\ stack' = Continue(<<Tell("tellClose", o), Tell("server", o)>>)
    BY <1>2, <1>10 DEF HandleClose
  <2>2. o \in DOMAIN objs /\ o \in Nat /\ objs[o].life = "open" /\ Known(connections, o)
    <3>1. o \in DOMAIN objs /\ Known(connections, o)
      BY LookupIs
    <3>2. objs[o].life = "open"
      BY <1>5, <3>1 DEF Known
    <3> QED
      BY <3>1, <3>2, TypeFacts
  <2>3. PICK cs : cs = Without(o)
    OBVIOUS
  <2>4. /\ \A i \in DOMAIN cs : Known(connections, cs[i]) /\ cs[i] # o
        /\ MapOK(objs, cs)
    BY <2>2, <2>3, WithoutFacts
  <2>5. IdsOf(objs, cs) \subseteq mid
    <3> SUFFICES ASSUME NEW i \in DOMAIN cs PROVE objs[cs[i]].id \in ids
      BY <1>6, <1>7 DEF IdsOf
    <3>1. PICK d \in DOMAIN connections : connections[d] = cs[i]
      BY <2>4 DEF Known
    <3> QED
      BY <1>3, <3>1 DEF IdsOf
  <2>6. PICK s : s = <<Tell("tellClose", o), Tell("server", o)>>
    OBVIOUS
  <2>7. /\ s \in Seq(Steps) /\ s # <<>> /\ DOMAIN s = {1, 2}
        /\ s[1].do = "tellClose" /\ s[1].k = o /\ s[2].do = "server"
    <3>1. /\ Tell("tellClose", o) \in Steps /\ Tell("tellClose", o).do = "tellClose"
          /\ Tell("tellClose", o).k = o
          /\ Tell("server", o) \in Steps /\ Tell("server", o).do = "server"
      BY <2>2, TellType DEF Tells
    <3>2. /\ s \in Seq(Steps) /\ DOMAIN s = {1, 2}
          /\ s[1] = Tell("tellClose", o) /\ s[2] = Tell("server", o)
      BY <2>6, <3>1, TwoSteps
    <3>3. DOMAIN <<>> = {}
      OBVIOUS
    <3> QED
      BY <3>1, <3>2, <3>3
  <2>8. HeadStep(s[1], objs, cs)
    <3>1. ~Known(cs, o)
      BY <2>4 DEF Known
    <3> QED
      BY <2>2, <2>7, <3>1 DEF HeadStep
  <2>9. Moves(s[1], mid, mid) /\ s[1].do \notin Events \cup {"install"}
    BY <2>7 DEF Moves, Events
  <2>10. objs \in Seq(Objs) /\ MapOK(objs, cs)
    BY <2>4, TypeFacts
  <2>11. Unbroken(objs) /\ Ours(objs, native)
    BY <1>5 DEF Calm, RunCalm
  <2>12. \A c \in DOMAIN cs : objs[cs[c]].life = "open"
    BY <1>5, <2>4 DEF Known
  <2>13. stack' = Continue(s) /\ cs = connections'
    BY <2>1, <2>3, <2>6
  <2>14. \A i \in DOMAIN s : i # 1 => s[i].do = "server"
    BY <2>7
  <2>15. Handles(s, objs, cs, mid, mid, last, end)
    BY <1>5, <1>6, <2>5, <2>7, <2>8, <2>9, <2>10, <2>11, <2>12, <2>14 DEF Handles
  <2> QED
    BY <1>1, <1>8, <2>13, <2>15, EventCalm DEF Events
<1> QED
  BY <1>9, <1>10

LEMMA IgnoreCalm == ASSUME FInv, Calm, IgnoreEvent PROVE Calm'
<1>1. PICK x \in Events : About(x)
  BY DEF IgnoreEvent, Events
<1>2. closed /\ stack' = WithTop(Rest)
      /\ UNCHANGED <<native, closed, objs, connections, pending, wire, crossed>>
  BY DEF IgnoreEvent, lifecycle, source
<1>3. native = 0
  BY <1>2 DEF FInv, LifeInv, ServerWhole, RunningIsWhole
<1>4. stack # <<>> /\ Top.todo # <<>> /\ Head(Top.todo).do # "connection"
  BY <1>1 DEF About, Events
<1>5. Settles(WithTop(Rest))
  BY <1>3, <1>4, AdvanceSettles
<1> QED
  BY <1>2, <1>4, <1>5, SettledCalm

LEMMA TellServerCalm == ASSUME FInv, Calm, TellServer PROVE Calm'
<1>1. PICK x \in {"server", "callback", "serverClose"} : About(x)
  BY DEF TellServer
<1>2. stack' = Append(WithTop(Rest), Listener)
      /\ UNCHANGED <<native, closed, objs, connections, pending, wire, crossed>>
  BY DEF TellServer, lifecycle, source
<1>3. /\ stack # <<>> /\ Top.todo # <<>> /\ Head(Top.todo).do # "connection"
      /\ Head(Top.todo).do \notin Events \cup {"install"}
  BY <1>1 DEF About, Events
<1>4. Settles(WithTop(Rest))
  BY <1>3, AdvanceSettles DEF Events
<1>5. Listener \in Frames
  BY ListenerOK
<1>6. Listener.call = "listener" /\ DOMAIN Listener.todo = {}
  BY DEF Listener, Frame
<1>7. Settles(stack')
  BY <1>2, <1>4, <1>5, <1>6, PushSettles
<1> QED
  BY <1>2, <1>3, <1>7, SettledCalm

LEMMA PopCalm ==
  ASSUME FInv, Calm, stack # <<>>, Top.todo = <<>>, stack' = Below \/ stack' = Thrown(Below),
         UNCHANGED <<lifecycle, objs, connections, source, crossed>>
  PROVE  Calm'
<1>1. Settles(stack')
  BY PopSettles
<1>2. UNCHANGED <<native, closed, objs, connections, pending, wire, crossed>>
  BY DEF lifecycle, source
<1> QED
  BY <1>1, <1>2, SettledCalm

-----------------------------------------------------------------------------
(* The other steps of a calm run.                                          *)

\* What comes later does not tell the same connection the same again.
LEMMA LaterFree ==
  ASSUME NEW st \in Seq(Frames), st # <<>>, st[Len(st)].todo # <<>>,
         NEW s, s = Head(st[Len(st)].todo), s.do \in OnceOnly,
         Once(st), NEW st2, Later(st2, st),
         NEW f \in DOMAIN st2, NEW i \in DOMAIN st2[f].todo,
         st2[f].todo[i].do = s.do
  PROVE  st2[f].todo[i].k # s.k
<1>1. PICK l : l = Len(st)
  OBVIOUS
<1>2. PICK t : t = st[l].todo
  OBVIOUS
<1>3. l \in DOMAIN st /\ st[l] \in Frames
  BY <1>1, FrontFacts
<1>4. t \in Seq(Steps) /\ t # <<>>
  BY <1>1, <1>2, <1>3 DEF Frames
<1>5. 1 \in DOMAIN t /\ t[1] = s
  <2>1. Head(t) = t[1] /\ DOMAIN t = 1..Len(t) /\ Len(t) \in Nat /\ Len(t) >= 1
    BY <1>4, TailFacts
  <2> QED
    BY <1>1, <1>2, <2>1
<1>6. f \in DOMAIN st
  BY DEF Later
<1>7. PICK d \in {0, 1} : /\ i + d \in DOMAIN st[f].todo /\ ~IsHead(st, f, i + d)
                          /\ st2[f].todo[i] = st[f].todo[i + d]
  <2>1. st2[f].todo[i].do # "undo"
    BY DEF OnceOnly
  <2> QED
    BY <2>1 DEF Later
<1>8. SUFFICES ASSUME st2[f].todo[i].k = s.k PROVE FALSE
  OBVIOUS
<1>9. 1 \in DOMAIN st[l].todo /\ st[l].todo[1] = s
  BY <1>2, <1>5
<1>10. st[f].todo[i + d].do = s.do /\ st[f].todo[i + d].k = s.k
  BY <1>7, <1>8
<1>11. f = l /\ i + d = 1
  BY <1>3, <1>6, <1>7, <1>9, <1>10 DEF Once
<1> QED
  BY <1>1, <1>7, <1>11 DEF IsHead

LEMMA TellConnectionCalm == ASSUME FInv, Calm, TellConnection PROVE Calm'
<1>1. PICK s : s = Head(Top.todo)
  OBVIOUS
<1>2. /\ stack # <<>> /\ Top.todo # <<>>
      /\ s.do \in Tells /\ s.k \in DOMAIN objs
      /\ s.do = "connection" => Known(connections, s.k)
      /\ objs' \in Seq(Objs) /\ DOMAIN objs' = DOMAIN objs
      /\ \A o \in DOMAIN objs : /\ objs'[o].id = objs[o].id
                                /\ objs'[o].src = objs[o].src
                                /\ objs'[o].found = objs[o].found
                                /\ o # s.k => objs'[o] = objs[o]
      /\ objs'[s.k].life = Told(objs[s.k].life, s.do)
      /\ objs'[s.k].destroyed = (objs[s.k].destroyed \/ s.do = "tellClose")
  BY <1>1, ToldObjs
<1>3. PICK os : os = objs'
  OBVIOUS
<1>4. PICK st : st = WithTop(Rest)
  OBVIOUS
<1>5. stack' = Append(st, Listener)
      /\ UNCHANGED <<native, closed, connections, pending, wire, crossed>>
  BY <1>4 DEF TellConnection, lifecycle, source
<1>6. Settles(st)
  <2>1. Head(Top.todo).do \notin Events \cup {"install"}
    BY <1>1, <1>2 DEF Tells, Events
  <2> QED
    BY <1>2, <1>4, <2>1, AdvanceSettles DEF Events
<1>7. HeadStep(s, objs, connections)
  <2>1. PICK l : l = Len(stack)
    OBVIOUS
  <2>2. stack \in Seq(Frames)
    BY TypeFacts
  <2>3. l \in DOMAIN stack
    BY <1>2, <2>1, <2>2, FrontFacts
  <2>4. 1 \in DOMAIN stack[l].todo /\ stack[l].todo[1] = s
    BY <1>1, <1>2, <2>1, HeadFacts, TopIs
  <2>5. IsHead(stack, l, 1)
    BY <2>1 DEF IsHead
  <2> QED
    BY <2>3, <2>4, <2>5 DEF Calm, CalmStack
<1>8. /\ s.do = "connection" => objs[s.k].life = "new" /\ os[s.k].life = "open"
      /\ s.do = "tellData" => \/ objs[s.k].life = "open" /\ os[s.k].life = "open"
                              \/ /\ objs[s.k].life = "closed" /\ os[s.k].life = "late"
                                 /\ os[s.k].found
      /\ s.do = "tellClose" => objs[s.k].life = "open" /\ os[s.k].life = "closed"
                               /\ ~Known(connections, s.k)
  <2>1. CASE s.do = "tellData"
    <3>1. objs[s.k].life # "new"
      <4>1. Head(Top.todo).do # "connection"
        BY <1>1, <2>1
      <4> QED
        BY <1>2, <4>1, MapOpen
    <3>2. objs[s.k].life \in {"open", "closed"}
      <4>1. objs[s.k] \in Objs
        BY <1>2, TypeFacts
      <4>2. objs[s.k].life # "broken" /\ objs[s.k].life # "late"
        BY <1>2, <1>7, <2>1 DEF Calm, Unbroken, HeadStep
      <4> QED
        BY <3>1, <4>1, <4>2 DEF Objs
    <3>3. objs[s.k].life = "closed" => os[s.k].found
      BY <1>2, <1>3, <1>7, <2>1 DEF HeadStep
    <3> QED
      BY <1>2, <1>3, <2>1, <3>2, <3>3 DEF Told
  <2>2. CASE s.do # "tellData"
    BY <1>2, <1>3, <1>7, <2>2 DEF HeadStep, Told
  <2> QED
    BY <2>1, <2>2
<1>9. CalmLow(st, os, connections)
  <2>1. ASSUME NEW f \in DOMAIN st, NEW i \in DOMAIN st[f].todo, st[f].todo[i].do \in OnceOnly
        PROVE  /\ st[f].todo[i].k \in DOMAIN objs
               /\ st[f].todo[i].do = s.do => st[f].todo[i].k # s.k
    <3>1. LowOK(st, objs, connections)
      BY <1>2, <1>4, Advances
    <3>2. st[f].todo[i].k \in DOMAIN objs
      BY <2>1, <3>1 DEF LowOK, FrameOK, StepOK, Tells, OnceOnly
    <3>3. ASSUME st[f].todo[i].do = s.do PROVE st[f].todo[i].k # s.k
      <4>1. stack \in Seq(Frames)
        BY TypeFacts
      <4>2. Later(st, stack)
        BY <1>2, <1>4, <4>1, AdvanceLater, TopIs
      <4>3. s = Head(stack[Len(stack)].todo) /\ stack[Len(stack)].todo # <<>>
        BY <1>1, <1>2, TopIs
      <4>4. Once(stack)
        BY DEF Calm
      <4> QED
        BY <1>2, <2>1, <3>3, <4>1, <4>2, <4>3, <4>4, LaterFree
    <3> QED
      BY <3>2, <3>3
  <2>2. ASSUME NEW f \in DOMAIN st, NEW i \in DOMAIN st[f].todo,
               st[f].todo[i].do = "tellClose"
        PROVE  os[st[f].todo[i].k].life = objs[st[f].todo[i].k].life
    <3>1. PICK k : k = st[f].todo[i].k
      OBVIOUS
    <3>2. objs[k].life = "open"
      BY <1>6, <2>2, <3>1 DEF Settles, CalmLow, LowStep
    <3>3. k \in DOMAIN objs /\ (s.do = "tellClose" => k # s.k)
      BY <2>1, <2>2, <3>1 DEF OnceOnly
    <3>4. CASE k = s.k
      BY <1>2, <1>8, <3>1, <3>2, <3>3, <3>4 DEF Tells
    <3>5. CASE k # s.k
      BY <1>2, <1>3, <3>1, <3>3, <3>5
    <3> QED
      BY <3>4, <3>5
  <2>3. ASSUME NEW f \in DOMAIN st, NEW i \in DOMAIN st[f].todo,
               st[f].todo[i].do = "tellData"
        PROVE  /\ os[st[f].todo[i].k].found = objs[st[f].todo[i].k].found
               /\ os[st[f].todo[i].k].life # "late"
    <3>1. PICK k : k = st[f].todo[i].k
      OBVIOUS
    <3>2. objs[k].life # "late"
      BY <1>6, <2>3, <3>1 DEF Settles, CalmLow, LowStep
    <3>3. k \in DOMAIN objs /\ (s.do = "tellData" => k # s.k)
      BY <2>1, <2>3, <3>1 DEF OnceOnly
    <3>4. os[k].found = objs[k].found
      BY <1>2, <1>3, <3>3
    <3>5. CASE k = s.k
      BY <1>2, <1>8, <3>1, <3>3, <3>4, <3>5 DEF Tells
    <3>6. CASE k # s.k
      BY <1>2, <1>3, <3>1, <3>2, <3>3, <3>4, <3>6
    <3> QED
      BY <3>5, <3>6
  <2> QED
    BY <1>6, <2>2, <2>3, KeepLow DEF Settles
<1>10. PICK w : w = Append(st, Listener)
  OBVIOUS
<1>11. Listener \in Frames /\ Listener.call = "listener" /\ DOMAIN Listener.todo = {}
       /\ Listener.todo = <<>>
  BY ListenerOK DEF Listener, Frame
<1>12. Settles(w)
  BY <1>6, <1>10, <1>11, PushSettles
<1>13. CalmLow(w, os, connections)
  BY <1>6, <1>9, <1>10, <1>11, PushLow DEF Settles
<1>14. CalmStack(w, os, connections)
  BY <1>13, LowCalm
<1>15. \A c \in DOMAIN connections : os[connections[c]].life = "open"
  <2> SUFFICES ASSUME NEW c \in DOMAIN connections PROVE os[connections[c]].life = "open"
    OBVIOUS
  <2>1. PICK o : o = connections[c]
    OBVIOUS
  <2>2. Known(connections, o) /\ o \in DOMAIN objs
    BY <2>1, ObjAt DEF Known
  <2>3. CASE o = s.k
    <3>1. s.do # "connection" => objs[o].life = "open"
      BY <1>1, <1>2, <2>1, MapOpen
    <3> QED
      BY <1>2, <1>8, <2>1, <2>2, <2>3, <3>1 DEF Tells
  <2>4. CASE o # s.k
    <3>1. os[o] = objs[o]
      BY <1>2, <1>3, <2>2, <2>4
    <3>2. ~Telling(stack, o)
      BY <1>1, <2>4, TopIs DEF Telling
    <3> QED
      BY <2>1, <3>1, <3>2 DEF Calm, CalmMap
  <2> QED
    BY <2>3, <2>4
<1>16. CalmMap(w, os, connections)
  <2>1. ASSUME NEW o \in DOMAIN os PROVE os[o].life # "new"
    <3>1. o \in DOMAIN objs
      BY <1>2, <1>3
    <3>2. CASE o = s.k
      BY <1>2, <1>8, <3>2 DEF Tells
    <3>3. CASE o # s.k
      <4>1. os[o] = objs[o]
        BY <1>2, <1>3, <3>1, <3>3
      <4>2. ~Telling(stack, o)
        BY <1>1, <3>3, TopIs DEF Telling
      <4> QED
        BY <3>1, <4>1, <4>2 DEF Calm, CalmMap
    <3> QED
      BY <3>2, <3>3
  <2> QED
    BY <1>15, <2>1 DEF CalmMap
<1>17. Unbroken(os)
  <2> SUFFICES ASSUME NEW o \in DOMAIN os
               PROVE  os[o].life # "broken" /\ (os[o].life = "late" => os[o].found)
    BY DEF Unbroken
  <2>1. o \in DOMAIN objs
    BY <1>2, <1>3
  <2>2. CASE o = s.k
    BY <1>2, <1>8, <2>2 DEF Tells
  <2>3. CASE o # s.k
    BY <1>2, <1>3, <2>1, <2>3 DEF Calm, Unbroken
  <2> QED
    BY <2>2, <2>3
<1>18. IdsOf(os, connections) = IdsOf(objs, connections)
  BY <1>2, <1>3, ObjAt DEF IdsOf
<1>19. ASSUME native # 0 PROVE RunCalm(native, w, os, connections, pending, wire)
  <2>1. RunCalm(native, stack, objs, connections, pending, wire)
    BY <1>19 DEF Calm
  <2>2. FromRun(w, native)
    BY <1>12, <1>19 DEF Settles
  <2>3. Replayed(w, IdsOf(os, connections), pending[native], wire[native])
    BY <1>12, <1>18, <1>19, <2>1 DEF Settles, RunCalm
  <2>4. Ours(os, native)
    <3> SUFFICES ASSUME NEW o \in DOMAIN os, ~os[o].destroyed PROVE os[o].src = native
      BY DEF Ours
    <3>1. o \in DOMAIN objs
      BY <1>2, <1>3
    <3>2. ~objs[o].destroyed
      <4>1. CASE o = s.k
        BY <1>2, <1>3, <4>1
      <4>2. CASE o # s.k
        BY <1>2, <1>3, <3>1, <4>2
      <4> QED
        BY <4>1, <4>2
    <3> QED
      BY <1>2, <1>3, <2>1, <3>1, <3>2 DEF RunCalm, Ours
  <2> QED
    BY <2>1, <2>2, <2>3, <2>4 DEF RunCalm
<1>20. Once(w)
  BY <1>12 DEF Settles
<1>21. crossed = {} /\ (closed => connections = <<>>)
  BY DEF Calm
<1> QED
  BY <1>3, <1>5, <1>10, <1>13, <1>14, <1>16, <1>17, <1>19, <1>20, <1>21 DEF Calm

\* close(): whoever is open is told, and nobody is told twice.
LEMMA ShutCalm ==
  ASSUME FInv, Calm, NEW callback \in BOOLEAN, NEW st, Settles(st), Shut(st, callback),
         stack # <<>> /\ Top.todo # <<>> => Head(Top.todo).do # "connection",
         UNCHANGED <<objs, source, crossed>>
  PROVE  Calm'
<1>0. st \in Seq(Frames)
  BY DEF Settles
<1>1. CASE closed
  <2>1. PICK F : F = Frame("close", Asked(callback), FALSE)
    OBVIOUS
  <2>2. stack' = Append(st, F) /\ UNCHANGED <<lifecycle, connections>>
    BY <1>1, <2>1 DEF Shut, Asked
  <2>3. F \in Frames /\ F.call = "close" /\ \A i \in DOMAIN F.todo : F.todo[i].do = "callback"
    BY <2>1, ClosedFrame
  <2>4. native = 0
    BY <1>1 DEF FInv, LifeInv, ServerWhole, RunningIsWhole
  <2>5. Settles(stack')
    BY <2>2, <2>3, <2>4, PushSettles
  <2>6. UNCHANGED <<native, closed, objs, connections, pending, wire, crossed>>
    BY <2>2 DEF lifecycle, source
  <2> QED
    BY <2>5, <2>6, SettledCalm
<1>2. CASE ~closed
  <2>1. PICK stopError \in BOOLEAN :
          stack' = Append(st, Frame("close",
             Goodbyes \o Asked(callback) \o <<Tell("serverClose", 0)>>, stopError))
    BY <1>2 DEF Shut, Asked, Goodbyes
  <2>2. PICK F : F = Frame("close", Goodbyes \o Asked(callback) \o <<Tell("serverClose", 0)>>,
                           stopError)
    OBVIOUS
  <2>3. stack' = Append(st, F) /\ connections' = <<>> /\ native' = 0 /\ closed' = TRUE
    BY <1>2, <2>1, <2>2 DEF Shut
  <2>4. /\ F \in Frames /\ F.call = "close"
        /\ \A i \in DOMAIN connections :
             i \in DOMAIN F.todo /\ F.todo[i].do = "tellClose" /\ F.todo[i].k = connections[i]
        /\ \A i \in DOMAIN F.todo :
             \/ i \in DOMAIN connections
             \/ F.todo[i].do \in {"callback", "serverClose"}
    <3>1. /\ F \in Frames /\ F.call = "close"
          /\ \A i \in DOMAIN connections :
               i \in DOMAIN F.todo /\ F.todo[i].do = "tellClose" /\ F.todo[i].k = connections[i]
          /\ \A i \in DOMAIN F.todo :
               \/ i \in DOMAIN connections
               \/ F.todo[i].do = "callback"
               \/ F.todo[i].do = "serverClose" /\ i = Len(F.todo)
      BY <2>2, CloseFrame
    <3> QED
      BY <3>1
  <2>5. \A i \in DOMAIN F.todo :
          F.todo[i].do = "tellClose" => i \in DOMAIN connections /\ F.todo[i].k = connections[i]
    BY <2>4
  <2>6. DOMAIN <<>> = {}
    OBVIOUS
  <2>7. \A o : ~Known(<<>>, o)
    BY <2>6 DEF Known
  <2>8. CalmLow(st, objs, <<>>)
    <3>1. CalmLow(st, objs, connections)
      BY DEF Settles
    <3>2. \A f \in DOMAIN st : \A i \in DOMAIN st[f].todo :
            st[f].todo[i].do = "tellData" => objs[st[f].todo[i].k].life # "late"
      BY <3>1 DEF CalmLow, LowStep
    <3> QED
      BY <2>7, <3>1, <3>2, KeepLow
  <2>9. \A i \in DOMAIN F.todo : LowStep(F.todo[i], F.call, objs, <<>>)
    <3>1. \A c \in DOMAIN connections : objs[connections[c]].life = "open"
      BY MapOpen
    <3> QED
      BY <2>4, <2>5, <2>7, <3>1 DEF LowStep
  <2>10. PICK w : w = Append(st, F)
    OBVIOUS
  <2>11. CalmLow(w, objs, <<>>)
    BY <1>0, <2>4, <2>8, <2>9, <2>10, PushLow
  <2>12. CalmStack(w, objs, <<>>)
    BY <2>11, LowCalm
  <2>13. Once(w)
    <3>1. Once(st)
      BY DEF Settles
    <3>4. \A i \in DOMAIN F.todo : F.todo[i].do \in OnceOnly => F.todo[i].do = "tellClose"
      BY <2>4 DEF OnceOnly
    <3>2. \A i, j \in DOMAIN F.todo :
            /\ F.todo[i].do \in OnceOnly /\ F.todo[j].do = F.todo[i].do
            /\ F.todo[j].k = F.todo[i].k
            => i = j
      <4>1. \A i, j \in DOMAIN connections : connections[i] = connections[j] => i = j
        BY TypeFacts DEF MapOK
      <4> QED
        BY <2>5, <3>4, <4>1
    <3>3. \A f \in DOMAIN st : \A i \in DOMAIN st[f].todo, j \in DOMAIN F.todo :
            F.todo[j].do \in OnceOnly /\ st[f].todo[i].do = F.todo[j].do
              => st[f].todo[i].k # F.todo[j].k
      <4> SUFFICES ASSUME NEW f \in DOMAIN st, NEW i \in DOMAIN st[f].todo,
                          NEW j \in DOMAIN F.todo,
                          st[f].todo[i].do = "tellClose", F.todo[j].do = "tellClose"
                   PROVE  st[f].todo[i].k # F.todo[j].k
        BY <3>4
      <4>1. ~Known(connections, st[f].todo[i].k)
        BY DEF Settles, CalmLow, LowStep
      <4>2. Known(connections, F.todo[j].k)
        BY <2>5 DEF Known
      <4> QED
        BY <4>1, <4>2
    <3> QED
      BY <1>0, <2>4, <2>10, <3>1, <3>2, <3>3, PushOnce
  <2>14. CalmMap(w, objs, <<>>)
    BY <2>6, MapOpen DEF CalmMap
  <2>15. Unbroken(objs) /\ crossed = {}
    BY DEF Calm
  <2> QED
    BY <2>3, <2>10, <2>11, <2>12, <2>13, <2>14, <2>15 DEF Calm
<1> QED
  BY <1>1, <1>2

LEMMA UserCloseCalm == ASSUME FInv, Calm, Close PROVE Calm'
<1>1. PICK callback \in BOOLEAN : Shut(stack, callback)
  BY DEF Close
<1>2. InListener /\ UNCHANGED <<objs, source, crossed>>
  BY DEF Close, Call
<1>3. stack # <<>> /\ Top.todo = <<>>
  BY <1>2, ListenerTop
<1>4. Settles(stack)
  BY <1>3, PopSettles
<1> QED
  BY <1>1, <1>2, <1>3, <1>4, ShutCalm

LEMMA UndoCalm == ASSUME FInv, Calm, UndoStart PROVE Calm'
<1>1. /\ Shut(WithTop(Rest), FALSE) /\ UNCHANGED <<objs, source, crossed>>
      /\ stack # <<>> /\ Top.todo # <<>> /\ Head(Top.todo).do = "undo"
  BY DEF UndoStart, About
<1>2. Settles(WithTop(Rest))
  BY <1>1, AdvanceSettles DEF Events
<1> QED
  BY <1>1, <1>2, ShutCalm

\* Nothing is in progress: a call from the event loop begins.
LEMMA SettledEmpty ==
  ASSUME FInv, Calm, stack = <<>>, NEW F \in Frames, F.call # "close",
         native # 0 => \A i \in DOMAIN F.todo :
            F.todo[i].do \in Events /\ F.todo[i].n = native,
         \A i \in DOMAIN F.todo : F.todo[i].do \in Events,
         NEW w, w = <<F>>
  PROVE  /\ w \in Seq(Frames) /\ CalmLow(w, objs, connections) /\ Once(w)
         /\ native # 0 => FromRun(w, native)
         /\ BatchTodo(w) = IF F.call = "batch" THEN F.todo ELSE <<>>
<1>1. w \in Seq(Frames) /\ DOMAIN w = {1} /\ w[1] = F /\ w # <<>>
  OBVIOUS
<1>2. CalmLow(w, objs, connections)
  BY <1>1 DEF CalmLow, LowStep, Events
<1>3. Once(w)
  BY <1>1 DEF Once, OnceOnly, Events
<1>4. native # 0 => FromRun(w, native)
  BY <1>1 DEF FromRun
<1>5. BatchTodo(w) = IF F.call = "batch" THEN F.todo ELSE <<>>
  BY <1>1 DEF BatchTodo
<1> QED
  BY <1>1, <1>2, <1>3, <1>4, <1>5

LEMMA TaskCalm == ASSUME FInv, Calm, Task PROVE Calm'
<1>1. stack = <<>> /\ stack' = <<Listener>>
      /\ UNCHANGED <<native, closed, objs, connections, pending, wire, crossed>>
  BY DEF Task, lifecycle, source
<1>2. Listener \in Frames /\ Listener.call = "listener" /\ DOMAIN Listener.todo = {}
  BY ListenerOK DEF Listener, Frame
<1>3. PICK w : w = <<Listener>>
  OBVIOUS
<1>4. /\ w \in Seq(Frames) /\ CalmLow(w, objs, connections) /\ Once(w)
      /\ native # 0 => FromRun(w, native)
      /\ BatchTodo(w) = <<>>
  BY <1>1, <1>2, <1>3, SettledEmpty
<1>5. BatchTodo(stack) = <<>>
  BY <1>1 DEF BatchTodo
<1>6. Settles(w)
  BY <1>4, <1>5 DEF Settles, Replayed
<1> QED
  BY <1>1, <1>3, <1>6, SettledCalm

LEMMA DeliverCalm == ASSUME FInv, Calm, NEW n \in Natives, Deliver(n) PROVE Calm'
<1>1. PICK size \in 1..Len(pending[n]) :
        /\ stack' = <<Frame("batch", SubSeq(pending[n], 1, size), FALSE)>>
        /\ pending' = [pending EXCEPT ![n] = SubSeq(@, size + 1, Len(pending[n]))]
  BY DEF Deliver
<1>2. stack = <<>>
      /\ UNCHANGED <<native, closed, objs, connections, wire, crossed>>
  BY DEF Deliver, lifecycle
<1>3. PICK F : F = Frame("batch", SubSeq(pending[n], 1, size), FALSE)
  OBVIOUS
<1>4. PICK q : q = pending[n]
  OBVIOUS
<1>5. PICK u : u = SubSeq(pending[n], 1, size)
  OBVIOUS
<1>6. PICK v : v = SubSeq(pending[n], size + 1, Len(pending[n]))
  OBVIOUS
<1>7. PICK l : l = Len(q)
  OBVIOUS
<1>8. /\ F \in Frames /\ F.call = "batch" /\ F.todo = u
      /\ Len(u) = size /\ \A i \in 1..size : u[i] = q[i]
      /\ v \in Seq(Steps) /\ Len(v) = l - size /\ \A i \in 1..(l - size) : v[i] = q[i + size]
  <2>1. F \in Frames /\ Len(u) = size /\ \A i \in 1..size : u[i] = q[i]
    BY <1>3, <1>4, <1>5, BatchFrame
  <2>2. v \in Seq(Steps) /\ Len(v) = l - size /\ \A i \in 1..(l - size) : v[i] = q[i + size]
    BY <1>4, <1>6, <1>7, BatchFrame
  <2> QED
    BY <1>3, <1>5, <2>1, <2>2 DEF Frame
<1>9. /\ q \in Seq(Steps) /\ l \in Nat /\ DOMAIN q = 1..l
      /\ size \in 1..l /\ pending \in [Natives -> Seq(Steps)]
      /\ \A i \in DOMAIN q : q[i].do \in Events /\ q[i].n = n
  <2>1. /\ pending \in [Natives -> Seq(Steps)]
        /\ \A i \in DOMAIN q : q[i].do \in Events /\ q[i].n = n
    BY <1>4 DEF FInv, PendingOK
  <2>2. q \in Seq(Steps)
    BY <1>4, <2>1
  <2>3. size \in 1..l
    BY <1>4, <1>7
  <2> QED
    BY <1>7, <2>1, <2>2, <2>3
<1>10. \A i \in DOMAIN u : u[i].do \in Events /\ u[i].n = n
  <2>1. DOMAIN u = 1..size
    <3>1. u \in Seq(Steps)
      BY <1>8 DEF Frames
    <3> QED
      BY <1>8, <3>1
  <2>2. \A i \in 1..size : i \in 1..l
    BY <1>9
  <2> QED
    BY <1>8, <1>9, <2>1, <2>2
<1>11. native # 0 => n = native
  <2>1. ASSUME native # 0, n # native PROVE FALSE
    <3>1. q = <<>>
      BY <1>4, <2>1 DEF Calm, RunCalm
    <3>2. l = 0
      BY <1>7, <3>1
    <3> QED
      BY <1>9, <3>2
  <2> QED
    BY <2>1
<1>12. PICK w : w = <<F>>
  OBVIOUS
<1>13. /\ CalmLow(w, objs, connections) /\ Once(w)
       /\ native # 0 => FromRun(w, native)
       /\ BatchTodo(w) = u
  BY <1>2, <1>8, <1>10, <1>11, <1>12, SettledEmpty
<1>14. CalmStack(w, objs, connections)
  BY <1>13, LowCalm
<1>15. CalmMap(w, objs, connections)
  BY <1>2, MapOpen DEF CalmMap
<1>16. pending'[n] = v /\ \A m \in Natives : m # n => pending'[m] = pending[m]
  BY <1>1, <1>6, <1>9
<1>17. ASSUME native # 0 PROVE RunCalm(native, w, objs, connections, pending', wire)
  <2>1. n = native
    BY <1>11, <1>17
  <2>2. RunCalm(native, stack, objs, connections, pending, wire)
    BY <1>17 DEF Calm
  <2>3. PICK ids : ids = IdsOf(objs, connections)
    OBVIOUS
  <2>4. PICK from \in SUBSET Ids, mid \in SUBSET Ids, last \in SUBSET Ids :
          /\ ids \subseteq from /\ last \subseteq Used(wire[n])
          /\ Replays(BatchTodo(stack), from, mid) /\ Replays(q, mid, last)
    BY <1>4, <2>1, <2>2, <2>3 DEF RunCalm, Replayed
  <2>6. mid = from
    <3>1. BatchTodo(stack) = <<>>
      BY <1>2 DEF BatchTodo
    <3> QED
      BY <2>4, <3>1, NothingReplays
  <2>7. PICK m \in SUBSET Ids : Replays(u, from, m) /\ Replays(v, m, last)
    <3>1. Splits(q, l, size, u, v)
      <4>1. l \in Nat /\ l = Len(q) /\ size \in 1..l
        BY <1>7, <1>9
      <4>2. Len(u) = size /\ \A i \in 1..size : u[i] = q[i]
        BY <1>8
      <4>3. Len(v) = l - size /\ \A i \in 1..(l - size) : v[i] = q[i + size]
        BY <1>8
      <4> QED
        BY ONLY <4>1, <4>2, <4>3 DEF Splits
    <3>2. Replays(q, from, last)
      BY <2>4, <2>6
    <3> QED
      BY <3>1, <3>2, SplitReplays
  <2>8. Replayed(w, ids, v, wire[n])
    BY <1>13, <2>4, <2>7 DEF Replayed
  <2> QED
    BY <1>13, <1>16, <1>17, <2>1, <2>2, <2>3, <2>8 DEF RunCalm
<1>18. Unbroken(objs) /\ crossed = {} /\ (closed => connections = <<>>)
  BY DEF Calm
<1>19. stack' = w
  BY <1>1, <1>3, <1>12
<1> QED
  BY <1>2, <1>13, <1>14, <1>15, <1>17, <1>18, <1>19 DEF Calm

LEMMA ReportCalm == ASSUME FInv, Calm, NEW n \in Natives, Report(n) PROVE Calm'
<1>1. /\ stack = <<>> /\ natives[n] = "running"
      /\ UNCHANGED <<native, closed, objs, connections, stack, crossed>>
  BY DEF Report, lifecycle
<1>2. n = native /\ native # 0
  BY <1>1 DEF FInv, LifeInv, ServerWhole, NoNativeLeftRunning
<1>3. PICK id \in Ids, do \in Events, is \in {"open", "gone"} :
        /\ Happens(do, wire[n][id], is)
        /\ wire' = [wire EXCEPT ![n][id] = is]
        /\ \/ pending' = [pending EXCEPT ![n] = Append(@, Step(do, n, id))]
           \/ pending' = pending
  BY DEF Report, Events
<1>4. PICK e : e = Step(do, n, id)
  OBVIOUS
<1>5. e \in Steps /\ e.do = do /\ e.k = id
  <2>1. n \in Nat /\ id \in Nat
    BY FacadeAssumption DEF Natives
  <2> QED
    BY <1>4, <2>1 DEF Step, Steps, Kinds
<1>6. /\ pending \in [Natives -> Seq(Steps)] /\ wire \in Wires
  BY DEF FInv, PendingOK, TypeOK, Wires
<1>7. /\ \A m \in Natives : m # n => pending'[m] = pending[m]
      /\ pending'[n] = Append(pending[n], e) \/ pending'[n] = pending[n]
  BY <1>3, <1>4, <1>6
<1>8. /\ Used(wire[n]) \subseteq Used(wire'[n]) /\ id \in Used(wire'[n])
      /\ do = "connect" => id \notin Used(wire[n])
  <2>1. wire[n] \in [Ids -> {"unused", "open", "gone"}]
    BY <1>6 DEF Wires
  <2>2. wire'[n] = [wire[n] EXCEPT ![id] = is]
    BY <1>3, <1>6 DEF Wires
  <2>3. wire'[n][id] = is /\ \A k \in Ids : k # id => wire'[n][k] = wire[n][k]
    BY <2>1, <2>2
  <2>4. is # "unused" /\ (do = "connect" => wire[n][id] = "unused")
    BY <1>3 DEF Happens
  <2> QED
    BY <2>3, <2>4 DEF Used
<1>9. RunCalm(native, stack, objs, connections, pending, wire)
  BY <1>2 DEF Calm
<1>10. PICK ids : ids = IdsOf(objs, connections)
  OBVIOUS
<1>11. PICK from \in SUBSET Ids, mid \in SUBSET Ids, last \in SUBSET Ids :
         /\ ids \subseteq from /\ last \subseteq Used(wire[n])
         /\ Replays(BatchTodo(stack), from, mid) /\ Replays(pending[n], mid, last)
  BY <1>2, <1>9, <1>10 DEF RunCalm, Replayed
<1>12. CASE pending'[n] = pending[n]
  <2>1. Replayed(stack, ids, pending'[n], wire'[n])
    <3>1. last \subseteq Used(wire'[n])
      BY <1>8, <1>11
    <3> QED
      BY <1>11, <1>12, <3>1 DEF Replayed
  <2>2. RunCalm(native, stack, objs, connections, pending', wire')
    BY <1>2, <1>7, <1>9, <1>10, <2>1 DEF RunCalm
  <2> QED
    BY <1>1, <2>2 DEF Calm
<1>13. CASE pending'[n] = Append(pending[n], e)
  <2>1. PICK end \in SUBSET Ids : Moves(e, last, end) /\ end \subseteq last \cup {id}
    <3>1. CASE do = "close"
      <4>1. Moves(e, last, last)
        BY <1>5, <3>1 DEF Moves
      <4> QED
        BY <4>1
    <3>2. CASE do # "close"
      <4>1. do \in {"connect", "data"}
        BY <3>2 DEF Events
      <4>2. do = "connect" => id \notin last
        BY <1>8, <1>11
      <4>3. Moves(e, last, last \cup {id})
        BY <1>5, <4>1, <4>2 DEF Moves
      <4>4. last \cup {id} \in SUBSET Ids
        OBVIOUS
      <4> QED
        BY <4>3, <4>4
    <3> QED
      BY <3>1, <3>2
  <2>2. Replays(Append(pending[n], e), mid, end)
    <3>1. pending[n] \in Seq(Steps)
      BY <1>6
    <3> QED
      BY <1>5, <1>11, <2>1, <3>1, AddReplays
  <2>3. end \subseteq Used(wire'[n])
    BY <1>8, <1>11, <2>1
  <2>4. Replayed(stack, ids, pending'[n], wire'[n])
    BY <1>11, <1>13, <2>2, <2>3 DEF Replayed
  <2>5. RunCalm(native, stack, objs, connections, pending', wire')
    BY <1>2, <1>7, <1>9, <1>10, <2>4 DEF RunCalm
  <2> QED
    BY <1>1, <2>5 DEF Calm
<1> QED
  BY <1>7, <1>12, <1>13

LEMMA SendCalm == ASSUME FInv, Calm, NEW batch \in SUBSET Objects, NEW andClose, Send(batch, andClose)
                  PROVE  Calm'
<1>1. /\ native # 0 /\ \A o \in batch : ~objs[o].destroyed
      /\ objs' = [o \in Objects |->
                    IF o \in batch /\ andClose THEN [objs[o] EXCEPT !.destroyed = TRUE]
                    ELSE objs[o]]
      /\ crossed' = crossed \cup
                      (IF \A o \in batch : objs[o].src = native THEN {} ELSE {"send"})
      /\ UNCHANGED <<native, closed, connections, pending, wire, stack>>
      /\ InListener
  BY DEF Send, Call, lifecycle, source
<1>2. PICK os : os = objs'
  OBVIOUS
<1>3. /\ DOMAIN os = DOMAIN objs
      /\ \A o \in DOMAIN objs : /\ os[o].life = objs[o].life /\ os[o].id = objs[o].id
                                /\ os[o].src = objs[o].src /\ os[o].found = objs[o].found
                                /\ ~os[o].destroyed => ~objs[o].destroyed
  <2>1. DOMAIN os = DOMAIN objs
    BY <1>1, <1>2 DEF Objects
  <2>2. ASSUME NEW o \in DOMAIN objs
        PROVE  /\ os[o].life = objs[o].life /\ os[o].id = objs[o].id
               /\ os[o].src = objs[o].src /\ os[o].found = objs[o].found
               /\ (~os[o].destroyed => ~objs[o].destroyed)
    <3>1. os[o] = [objs[o] EXCEPT !.destroyed = TRUE] \/ os[o] = objs[o]
      BY <1>1, <1>2 DEF Objects
    <3>2. objs[o] \in Objs
      BY TypeFacts
    <3> QED
      BY <3>1, <3>2 DEF Objs
  <2> QED
    BY <2>1, <2>2
<1>4. RunCalm(native, stack, objs, connections, pending, wire)
  BY <1>1 DEF Calm
<1>5. crossed' = {}
  <2>1. \A o \in batch : objs[o].src = native
    BY <1>1, <1>4 DEF RunCalm, Ours, Objects
  <2> QED
    BY <1>1, <2>1 DEF Calm
<1>6. stack # <<>> /\ Top.todo = <<>>
  BY <1>1, ListenerTop
<1>7. Settles(stack)
  BY <1>6, PopSettles
<1>8. CalmLow(stack, os, connections)
  <2>1. ASSUME NEW f \in DOMAIN stack, NEW i \in DOMAIN stack[f].todo,
               stack[f].todo[i].do \in {"tellClose", "tellData"}
        PROVE  stack[f].todo[i].k \in DOMAIN objs
    BY <2>1, TypeFacts DEF StackOK, FrameOK, StepOK, Tells
  <2>2. CalmLow(stack, objs, connections)
    BY <1>7 DEF Settles
  <2>3. ASSUME NEW f \in DOMAIN stack, NEW i \in DOMAIN stack[f].todo,
               stack[f].todo[i].do = "tellData"
        PROVE  /\ os[stack[f].todo[i].k].found = objs[stack[f].todo[i].k].found
               /\ os[stack[f].todo[i].k].life # "late"
    <3>1. objs[stack[f].todo[i].k].life # "late"
      BY <2>2, <2>3 DEF CalmLow, LowStep
    <3> QED
      BY <1>3, <2>1, <2>3, <3>1
  <2> QED
    BY <1>3, <2>1, <2>2, <2>3, KeepLow
<1>9. CalmStack(stack, os, connections)
  BY <1>8, LowCalm
<1>10. CalmMap(stack, os, connections)
  BY <1>3, <1>6, MapOpen, ObjAt DEF CalmMap
<1>11. Unbroken(os)
  BY <1>3 DEF Calm, Unbroken
<1>12. IdsOf(os, connections) = IdsOf(objs, connections)
  BY <1>3, ObjAt DEF IdsOf
<1>13. RunCalm(native, stack, os, connections, pending, wire)
  BY <1>3, <1>4, <1>12 DEF RunCalm, Ours
<1>14. Once(stack) /\ (closed => connections = <<>>)
  BY DEF Calm
<1> QED
  BY <1>1, <1>2, <1>5, <1>8, <1>9, <1>10, <1>11, <1>13, <1>14 DEF Calm

-----------------------------------------------------------------------------
(* A new run begins when nothing of the previous one is left.               *)

\* The server is closed and no event, batch or close() is in progress: no
\* connection of the previous run is alive.
LEMMA RunIsOver ==
  ASSUME FInv, Calm, Bereaved(objs), info = 0, ~Busy
  PROVE  /\ native = 0 /\ closed /\ connections = <<>>
         /\ \A f \in DOMAIN stack : stack[f].call \notin {"batch", "close"}
         /\ \A m \in Natives : pending[m] = <<>>
         /\ \A o \in DOMAIN objs : objs[o].destroyed
<1>1. native = 0 /\ closed
  BY DEF FInv, LifeInv, ServerWhole, RunningIsWhole
<1>2. connections = <<>> /\ CalmLow(stack, objs, connections)
  BY <1>1 DEF Calm
<1>3. \A f \in DOMAIN stack : stack[f].call \notin {"batch", "close"}
  BY DEF Busy
<1>4. \A m \in Natives : pending[m] = <<>>
  BY DEF Busy
<1>5. ASSUME NEW o \in DOMAIN objs PROVE objs[o].destroyed
  <2>1. ~Known(connections, o)
    <3>1. DOMAIN <<>> = {}
      OBVIOUS
    <3> QED
      BY <1>2, <3>1 DEF Known
  <2>2. ~Owes(stack, o)
    <3> SUFFICES ASSUME NEW f \in DOMAIN stack, NEW i \in DOMAIN stack[f].todo,
                        stack[f].todo[i].do \in {"connection", "tellClose"}
                 PROVE  FALSE
      BY DEF Owes, Owing
    <3>1. LowStep(stack[f].todo[i], stack[f].call, objs, connections)
      BY <1>2 DEF CalmLow
    <3> QED
      BY <1>3, <3>1 DEF LowStep
  <2>3. objs[o].life \notin {"new", "open"}
    BY <2>1, <2>2, TypeFacts DEF Remembered
  <2>4. objs[o].life # "broken"
    BY DEF Calm, Unbroken
  <2>5. objs[o] \in Objs
    BY TypeFacts
  <2>6. objs[o].life \in {"closed", "late"}
    BY <2>3, <2>4, <2>5 DEF Objs
  <2> QED
    BY <2>6 DEF Bereaved
<1> QED
  BY <1>1, <1>2, <1>3, <1>4, <1>5

LEMMA StartCalm ==
  ASSUME FInv, Bereaved(objs), Calm, ~Busy, NEW n \in Natives, Start(n)
  PROVE  Calm'
<1>1. PICK callback \in BOOLEAN :
        stack' = Append(stack,
                   Frame("start",
                         (IF callback THEN <<Tell("callback", 0)>> ELSE <<>>)
                           \o <<Tell("server", 0)>>, FALSE))
  BY DEF Start
<1>2. PICK F : F = Frame("start", Asked(callback) \o <<Tell("server", 0)>>, FALSE)
  OBVIOUS
<1>3. /\ stack' = Append(stack, F) /\ native' = n /\ closed' = FALSE
      /\ UNCHANGED <<objs, connections, pending, wire, crossed>>
  BY <1>1, <1>2 DEF Start, Asked, source
<1>4. /\ F \in Frames /\ F.call = "start"
      /\ \A i \in DOMAIN F.todo : F.todo[i].do \in {"callback", "server"}
  BY <1>2, StartFrame
<1>5. InListener /\ info = 0 /\ natives[n] = "unborn"
  BY DEF Start, Call
<1>6. stack # <<>> /\ stack \in Seq(Frames) /\ StackOK(stack, objs, connections)
  BY <1>5, TypeFacts DEF InListener
<1>7. /\ native = 0 /\ closed /\ connections = <<>>
      /\ \A f \in DOMAIN stack : stack[f].call \notin {"batch", "close"}
      /\ \A m \in Natives : pending[m] = <<>>
      /\ \A o \in DOMAIN objs : objs[o].destroyed
  BY <1>5, RunIsOver
<1>8. PICK w : w = Append(stack, F)
  OBVIOUS
<1>9. CalmLow(w, objs, connections)
  <2>1. CalmLow(stack, objs, connections)
    BY <1>7 DEF Calm
  <2>2. \A i \in DOMAIN F.todo : LowStep(F.todo[i], F.call, objs, connections)
    BY <1>4 DEF LowStep
  <2> QED
    BY <1>4, <1>6, <1>8, <2>1, <2>2, PushLow
<1>10. CalmStack(w, objs, connections)
  BY <1>9, LowCalm
<1>11. Once(w)
  <2>1. Once(stack)
    BY DEF Calm
  <2>2. \A i \in DOMAIN F.todo : F.todo[i].do \notin OnceOnly
    BY <1>4 DEF OnceOnly
  <2> QED
    BY <1>4, <1>6, <1>8, <2>1, <2>2, PushOnce
<1>12. DOMAIN connections = {}
  <2>1. DOMAIN <<>> = {}
    OBVIOUS
  <2> QED
    BY <1>7, <2>1
<1>13. CalmMap(w, objs, connections)
  <2>1. Top.todo = <<>>
    BY <1>5, ListenerTop
  <2> QED
    BY <1>12, <2>1, MapOpen DEF CalmMap
<1>14. FromRun(w, n)
  <2>1. FromRun(stack, n)
    <3> SUFFICES ASSUME NEW f \in DOMAIN stack, NEW i \in DOMAIN stack[f].todo
                 PROVE  stack[f].todo[i].do \notin Events \cup {"install"}
      BY <1>7 DEF FromRun
    <3>1. stack[f].todo[i].do \in Does(stack[f].call)
      BY <1>6 DEF StackOK, FrameOK, StepOK
    <3>2. stack[f].call \in {"start", "listener"}
      <4>1. stack[f] \in Frames
        BY <1>6
      <4> QED
        BY <1>7, <4>1 DEF Frames
    <3> QED
      BY <3>1, <3>2 DEF Does, Events
  <2> QED
    BY <1>4, <1>6, <1>8, <2>1, PushRun DEF Events
<1>15. Replayed(w, {}, <<>>, wire[n])
  <2>1. BatchTodo(stack) = <<>>
    <3>1. 1 \in DOMAIN stack
      BY <1>6, FrontFacts
    <3> QED
      BY <1>7, <3>1 DEF BatchTodo
  <2>2. BatchTodo(w) = <<>>
    BY <1>4, <1>6, <1>8, <2>1, PushBatch
  <2>3. {} \in SUBSET Ids
    OBVIOUS
  <2>4. Replays(<<>>, {}, {})
    BY <2>3, NothingReplays
  <2> QED
    BY <2>2, <2>3, <2>4 DEF Replayed
<1>16. RunCalm(n, w, objs, connections, pending, wire)
  <2>1. IdsOf(objs, connections) = {}
    BY <1>12 DEF IdsOf
  <2> QED
    BY <1>7, <1>14, <1>15, <2>1 DEF RunCalm, Ours
<1>17. Unbroken(objs) /\ crossed = {}
  BY DEF Calm
<1> QED
  BY <1>3, <1>8, <1>10, <1>11, <1>13, <1>16, <1>17 DEF Calm

LEMMA StartFailsCalm == ASSUME FInv, Calm, NEW n \in Natives, StartFails(n) PROVE Calm'
<1>1. /\ info = 0 /\ native' = 0 /\ closed' = TRUE
      /\ UNCHANGED <<objs, connections, stack, crossed>>
  BY DEF StartFails
<1>2. closed
  BY <1>1 DEF FInv, LifeInv, ServerWhole, RunningIsWhole
<1> QED
  BY <1>1, <1>2 DEF Calm

LEMMA StutterCalm ==
  ASSUME Calm, UNCHANGED <<native, closed, objs, connections, stack, pending, wire, crossed>>
  PROVE  Calm'
  BY DEF Calm

LEMMA HandlingCalm == ASSUME FInv, Calm, Handling PROVE Calm'
<1>1. CASE ListenerReturns \/ ListenerThrows
  <2>1. InListener /\ (stack' = Below \/ stack' = Thrown(Below))
        /\ UNCHANGED <<lifecycle, objs, connections, source, crossed>>
    BY <1>1 DEF ListenerReturns, ListenerThrows
  <2>2. stack # <<>> /\ Top.todo = <<>>
    BY <2>1, ListenerTop
  <2> QED
    BY <2>1, <2>2, PopCalm
<1>2. CASE CallEnds
  BY <1>2, PopCalm DEF CallEnds
<1> QED
  BY <1>1, <1>2, IgnoreCalm, ConnectCalm, InstallCalm, DataCalm, CloseCalm,
     TellConnectionCalm, TellServerCalm, UndoCalm DEF Handling

-----------------------------------------------------------------------------
(* What holds in every run: a connection that is closed is destroyed.       *)

LEMMA AddedBereaved ==
  ASSUME FInv, Bereaved(objs), NEW obj \in Objs, obj.life = "new",
         objs' = Append(objs, obj)
  PROVE  Bereaved(objs')
<1>1. PICK os : os = Append(objs, obj)
  OBVIOUS
<1>2. PICK m : m = Len(objs)
  OBVIOUS
<1>3. /\ m \in Nat /\ DOMAIN os = 1..(m + 1) /\ DOMAIN objs = 1..m
      /\ \A o \in 1..m : os[o] = objs[o]
      /\ os[m + 1] = obj
  <2>1. objs \in Seq(Objs)
    BY TypeFacts
  <2> QED
    BY <1>1, <1>2, <2>1, PushFacts
<1>4. ASSUME NEW o \in DOMAIN os, os[o].life \in {"closed", "late"} PROVE os[o].destroyed
  <2>1. o # m + 1
    BY <1>3, <1>4
  <2>2. o \in 1..m
    BY <1>3, <2>1
  <2> QED
    BY <1>3, <1>4, <2>2 DEF Bereaved
<1> QED
  BY <1>1, <1>4 DEF Bereaved

LEMMA BereavedKept == ASSUME FInv, Bereaved(objs), [Next]_vars PROVE Bereaved(objs')
<1>1. CASE objs' = objs
  BY <1>1
<1>2. CASE Install
  <2>1. About("install") /\ objs' = Append(objs, NewObject(Head(Top.todo)))
    BY <1>2 DEF Install
  <2>2. NewObject(Head(Top.todo)) \in Objs /\ NewObject(Head(Top.todo)).life = "new"
    <3>1. Head(Top.todo).n \in Natives /\ Head(Top.todo).k \in Ids
      BY <2>1, BatchTop
    <3> QED
      BY <3>1 DEF NewObject, Objs
  <2> QED
    BY <2>1, <2>2, AddedBereaved
<1>3. CASE HandleData
  <2>1. About("data") /\ (objs' = Append(objs, NewObject(Head(Top.todo))) \/ objs' = objs)
    BY <1>3 DEF HandleData
  <2>2. NewObject(Head(Top.todo)) \in Objs /\ NewObject(Head(Top.todo)).life = "new"
    <3>1. Head(Top.todo).n \in Natives /\ Head(Top.todo).k \in Ids
      BY <2>1, BatchTop DEF Events
    <3> QED
      BY <3>1 DEF NewObject, Objs
  <2> QED
    BY <1>1, <2>1, <2>2, AddedBereaved
<1>4. CASE TellConnection
  <2>1. PICK s : s = Head(Top.todo)
    OBVIOUS
  <2>2. /\ s.k \in DOMAIN objs /\ DOMAIN objs' = DOMAIN objs
        /\ \A o \in DOMAIN objs : o # s.k => objs'[o] = objs[o]
        /\ objs'[s.k].life = Told(objs[s.k].life, s.do)
        /\ objs'[s.k].destroyed = (objs[s.k].destroyed \/ s.do = "tellClose")
    BY <1>4, <2>1, ToldObjs
  <2>3. /\ objs'[s.k].life = "closed" => s.do = "tellClose"
        /\ objs'[s.k].life = "late" => objs[s.k].life = "closed"
    BY <2>2 DEF Told
  <2>4. objs'[s.k].life \in {"closed", "late"} => objs'[s.k].destroyed
    BY <2>2, <2>3 DEF Bereaved
  <2>5. \A o \in DOMAIN objs : o # s.k /\ objs'[o].life \in {"closed", "late"} => objs'[o].destroyed
    BY <2>2 DEF Bereaved
  <2> QED
    BY <2>2, <2>4, <2>5 DEF Bereaved
<1>5. ASSUME NEW batch, NEW andClose, Send(batch, andClose) PROVE Bereaved(objs')
  <2>1. objs' = [o \in Objects |->
                   IF o \in batch /\ andClose THEN [objs[o] EXCEPT !.destroyed = TRUE]
                   ELSE objs[o]]
    BY <1>5 DEF Send
  <2>2. ASSUME NEW o \in DOMAIN objs, objs'[o].life \in {"closed", "late"}
        PROVE  objs'[o].destroyed
    <3>1. objs'[o] = [objs[o] EXCEPT !.destroyed = TRUE] \/ objs'[o] = objs[o]
      BY <2>1 DEF Objects
    <3>2. objs[o] \in Objs
      BY TypeFacts
    <3>3. CASE objs'[o] = [objs[o] EXCEPT !.destroyed = TRUE]
      BY <3>2, <3>3 DEF Objs
    <3>4. CASE objs'[o] = objs[o]
      BY <2>2, <3>4 DEF Bereaved
    <3> QED
      BY <3>1, <3>3, <3>4
  <2> QED
    BY <2>1, <2>2 DEF Bereaved, Objects
<1>6. CASE Handling
  BY <1>1, <1>2, <1>3, <1>4, <1>6 DEF Handling, IgnoreEvent, HandleConnect, HandleClose,
     TellServer, ListenerReturns, ListenerThrows, CallEnds, UndoStart
<1>7. CASE Application
  <2>1. ASSUME NEW n \in Natives, Start(n) \/ StartFails(n) PROVE objs' = objs
    BY <2>1 DEF Start, StartFails
  <2>2. ASSUME NEW on, Ref(on) PROVE objs' = objs
    BY <2>2 DEF Ref
  <2>3. Task \/ Close => objs' = objs
    BY DEF Task, Close
  <2> QED
    BY <1>1, <1>5, <1>7, <2>1, <2>2, <2>3 DEF Application
<1>8. ASSUME NEW n \in Natives, Report(n) \/ Deliver(n) PROVE objs' = objs
  BY <1>8 DEF Report, Deliver
<1>9. CASE UNCHANGED vars
  BY <1>1, <1>9 DEF vars
<1> QED
  BY <1>1, <1>6, <1>7, <1>8, <1>9 DEF Next

\* A run that was disturbed is never calm again: `overlap' stays.
LEMMA NotDisturbed ==
  ASSUME [Next]_vars, ~overlap'
  PROVE  ~overlap /\ \A n \in Natives : Start(n) => ~Busy
<1>1. ASSUME NEW n \in Natives, Start(n) PROVE ~overlap /\ ~Busy
  BY <1>1 DEF Start
<1>2. UNCHANGED vars => overlap' = overlap
  BY DEF vars
<1>3. Handling => overlap' = overlap
  BY DEF Handling, IgnoreEvent, HandleConnect, Install, HandleData, HandleClose,
     TellConnection, TellServer, ListenerReturns, ListenerThrows, CallEnds, UndoStart
<1>4. CASE Application
  <2>1. ASSUME NEW n \in Natives, StartFails(n) PROVE overlap' = overlap
    BY <2>1 DEF StartFails
  <2>2. ASSUME NEW on, Ref(on) PROVE overlap' = overlap
    BY <2>2 DEF Ref
  <2>3. ASSUME NEW batch, NEW andClose, Send(batch, andClose) PROVE overlap' = overlap
    BY <2>3 DEF Send
  <2>4. Task \/ Close => overlap' = overlap
    BY DEF Task, Close
  <2> QED
    BY <1>1, <1>4, <2>1, <2>2, <2>3, <2>4 DEF Application
<1>5. ASSUME NEW n \in Natives, Report(n) \/ Deliver(n) PROVE overlap' = overlap
  BY <1>5 DEF Report, Deliver
<1> QED
  BY <1>1, <1>2, <1>3, <1>4, <1>5 DEF Next

CInv == /\ FInv
        /\ Bereaved(objs)
        /\ ~overlap => Calm

LEMMA InitCInv == Init => CInv
<1> SUFFICES ASSUME Init PROVE CInv
  OBVIOUS
<1>1. DOMAIN <<>> = {}
  OBVIOUS
<1>2. /\ native = 0 /\ connections = <<>> /\ objs = <<>> /\ stack = <<>> /\ crossed = {}
  BY DEF Init
<1>4. Bereaved(objs)
  BY <1>1, <1>2 DEF Bereaved
<1>5. Calm
  BY <1>1, <1>2 DEF Calm, Unbroken, CalmStack, CalmLow, Once, CalmMap
<1> QED
  BY <1>4, <1>5, InitFInv DEF CInv

LEMMA NextCInv == CInv /\ [Next]_vars => CInv'
<1> SUFFICES ASSUME CInv, [Next]_vars PROVE CInv'
  OBVIOUS
<1>1. FInv /\ Bereaved(objs) /\ (~overlap => Calm)
  BY DEF CInv
<1>2. FInv'
  BY <1>1, NextFInv
<1>4. Bereaved(objs')
  BY <1>1, BereavedKept
<1>5. ASSUME ~overlap' PROVE Calm'
  <2>1. Calm /\ \A n \in Natives : Start(n) => ~Busy
    BY <1>1, <1>5, NotDisturbed
  <2>2. CASE UNCHANGED vars
    BY <2>1, <2>2, StutterCalm DEF vars, lifecycle, source
  <2>3. CASE Handling
    BY <1>1, <2>1, <2>3, HandlingCalm
  <2>4. CASE Application
    <3>1. ASSUME NEW on, Ref(on) PROVE Calm'
      BY <2>1, <3>1, StutterCalm DEF Ref, source
    <3>2. ASSUME NEW n \in Natives, Start(n) PROVE Calm'
      BY <1>1, <2>1, <3>2, StartCalm
    <3>3. ASSUME NEW n \in Natives, StartFails(n) PROVE Calm'
      BY <1>1, <2>1, <3>3, StartFailsCalm
    <3>4. ASSUME NEW batch \in SUBSET Objects, NEW andClose \in BOOLEAN, Send(batch, andClose)
          PROVE  Calm'
      BY <1>1, <2>1, <3>4, SendCalm
    <3> QED
      BY <1>1, <2>1, <2>4, <3>1, <3>2, <3>3, <3>4, TaskCalm, UserCloseCalm DEF Application
  <2>5. ASSUME NEW n \in Natives, Report(n) \/ Deliver(n) PROVE Calm'
    BY <1>1, <2>1, <2>5, ReportCalm, DeliverCalm
  <2> QED
    BY <2>2, <2>3, <2>4, <2>5 DEF Next
<1> QED
  BY <1>2, <1>4, <1>5 DEF CInv

LEMMA CInvHolds == Spec => []CInv
  BY InitCInv, NextCInv, PTL DEF Spec

\* Whatever events the native server loses, a connection tells 'connection' once
\* and first, 'data' while it is open and 'close' once; only a connection that a
\* 'data' event made tells one 'data' after its 'close'.  There is one object per
\* id, and none is left on a closed server (_handleEvent, _connectionFor and
\* close() of IoUringTcpTransportServer), unless the server was restarted in the
\* middle of its previous run.
THEOREM ConnectionsFollowTheProtocol == Spec => []ConnectionProtocol
<1>1. CInv => ConnectionProtocol
  <2> SUFFICES ASSUME CInv PROVE ConnectionProtocol
    OBVIOUS
  <2>1. FInv /\ (~overlap => Calm)
    BY DEF CInv
  <2>2. TypeOK
    BY <2>1 DEF FInv
  <2>3. \A i, j \in DOMAIN connections :
          objs[connections[i]].id = objs[connections[j]].id => i = j
    BY <2>1, TypeFacts DEF MapOK
  <2>4. ~overlap => /\ \A o \in Objects : /\ objs[o].life # "broken"
                                          /\ objs[o].life = "late" => objs[o].found
                    /\ closed => connections = <<>>
    BY <2>1 DEF Calm, Unbroken, Objects
  <2> QED
    BY <2>2, <2>3, <2>4 DEF ConnectionProtocol
<1> QED
  BY <1>1, CInvHolds, PTL

\* Events are handled in the run of the native server that reported them, and
\* what is written to a connection goes to the native server it came from
\* (write, sendBatch: `this._native' is that of the connection), unless the
\* server was restarted in the middle of its previous run.
THEOREM RunsDoNotMix == Spec => []StaysInItsRun
<1>1. CInv => StaysInItsRun
  BY DEF CInv, Calm, StaysInItsRun
<1> QED
  BY <1>1, CInvHolds, PTL
=============================================================================
