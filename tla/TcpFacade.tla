------------------------------ MODULE TcpFacade ------------------------------
(***************************************************************************)
(* The JavaScript TCP server of tcp-transport.js: IoUringTcpTransportServer *)
(* and the connections it hands out.                                       *)
(*                                                                         *)
(* JavaScript runs one call at a time, but every listener and callback may *)
(* call back into the server, restart it or throw, so the calls in         *)
(* progress form a stack.  A frame holds the steps a call has still to     *)
(* make ("todo") and whether it has to rethrow an error when it is done.   *)
(* A listener is a frame without steps of its own: the application decides *)
(* what it does next.  Between two calls from the event loop the stack is  *)
(* empty.                                                                  *)
(*                                                                         *)
(* Abstracted: payloads, addresses, argument checking (a call that throws  *)
(* for its arguments changes nothing).  The native server is what          *)
(* NativeServer and EventQueue describe, seen from outside: it accepts or  *)
(* refuses commands, it drops events when the callback queue is full, and  *)
(* its events wait for the event loop even after stop().  An id comes back *)
(* after 2^32 - 1 connections, which is left out.                          *)
(***************************************************************************)
EXTENDS Naturals, Sequences, FiniteSets

CONSTANTS
    Ids,        \* connection ids of a native server
    MaxStarts,  \* bound: native servers made
    MaxEvents,  \* bound: events a native server reports
    MaxCalls    \* bound: calls the application makes

ASSUME FacadeAssumption ==
    /\ Ids \subseteq Nat
    /\ MaxStarts \in Nat
    /\ MaxEvents \in Nat
    /\ MaxCalls \in Nat

VARIABLES
    native,       \* this._native, as a number; 0 is null
    info,         \* this._info: the native server it describes; 0 is null
    closed,       \* this._closed
    connections,  \* this._connections: objects in insertion order
    keepAlive,    \* this._keepAlive: "none", "refed" or "unrefed"
    refed,        \* this._keepAliveRefed
    objs,         \* every IoUringTcpConnection made so far
    natives,      \* what became of each UringTcpServer
    wire,         \* what became of each id in each native server
    pending,      \* events of each native server the loop has not run yet
    reported,     \* number of events each native server has reported
    stack,        \* calls in progress, the innermost last
    calls,        \* calls made by the application
    closes,       \* number of 'close' events of the server
    overlap,      \* the server was restarted while events or calls of its
                  \* previous run were not over
    crossed       \* what went from one run of the server to another one

lifecycle == <<native, info, closed, keepAlive, refed, natives>>
source    == <<wire, pending, reported>>
vars == <<lifecycle, connections, objs, source, stack, calls, closes, overlap,
          crossed>>

Natives == 1 .. MaxStarts
Objects == DOMAIN objs

-----------------------------------------------------------------------------
(* Steps and frames.                                                       *)

Step(do, n, k) == [do |-> do, n |-> n, k |-> k]
Tell(what, o)  == Step(what, 0, o)

Frame(call, todo, err) == [call |-> call, todo |-> todo, err |-> err]
Listener == Frame("listener", <<>>, FALSE)

Top == stack[Len(stack)]
Below == SubSeq(stack, 1, Len(stack) - 1)
WithTop(f) == Append(Below, f)

InListener == stack # <<>> /\ Top.call = "listener"

\* The top frame is about to make a step of this kind.
About(do) ==
    /\ stack # <<>>
    /\ Top.todo # <<>>
    /\ Head(Top.todo).do = do

Rest == [Top EXCEPT !.todo = Tail(@)]

Init ==
    /\ native = 0 /\ info = 0
    /\ closed = TRUE
    /\ connections = <<>>
    /\ keepAlive = "none" /\ refed = TRUE
    /\ objs = <<>>
    /\ natives = [n \in Natives |-> "unborn"]
    /\ wire = [n \in Natives |-> [id \in Ids |-> "unused"]]
    /\ pending = [n \in Natives |-> <<>>]
    /\ reported = [n \in Natives |-> 0]
    /\ stack = <<>>
    /\ calls = 0 /\ closes = 0
    /\ overlap = FALSE /\ crossed = {}

-----------------------------------------------------------------------------
(* The native server and the event loop.                                   *)

\* A connection is accepted, has data or ends.
Happens(what, was, is) ==
    CASE what = "connect" -> was = "unused" /\ is = "open"
      [] what = "data"    -> was = "open"   /\ is = "open"
      [] what = "close"   -> was = "open"   /\ is = "gone"

\* A running native server reports what happens on its sockets; the event is
\* lost when no slots are left for its batch.
Report(n) ==
    /\ stack = <<>>
    /\ natives[n] = "running"
    /\ reported[n] < MaxEvents
    /\ \E id \in Ids, what \in {"connect", "data", "close"}, is \in {"open", "gone"} :
        /\ Happens(what, wire[n][id], is)
        /\ wire' = [wire EXCEPT ![n][id] = is]
        /\ \/ pending' = [pending EXCEPT ![n] = Append(@, Step(what, n, id))]
           \/ UNCHANGED pending
    /\ reported' = [reported EXCEPT ![n] = @ + 1]
    /\ UNCHANGED <<lifecycle, connections, objs, stack, calls, closes, overlap,
                   crossed>>

\* The event loop calls _handleNativeEvents with a batch of any size: the
\* closure made by _startWithOptions does not look which server it is for.
Deliver(n) ==
    /\ stack = <<>>
    /\ \E size \in 1 .. Len(pending[n]) :
        /\ stack' = <<Frame("batch", SubSeq(pending[n], 1, size), FALSE)>>
        /\ pending' = [pending EXCEPT
                         ![n] = SubSeq(@, size + 1, Len(pending[n]))]
    /\ UNCHANGED <<lifecycle, connections, objs, wire, reported, calls, closes,
                   overlap, crossed>>

\* The event loop runs some other code of the application.
Task ==
    /\ stack = <<>>
    /\ calls < MaxCalls
    /\ stack' = <<Listener>>
    /\ UNCHANGED <<lifecycle, connections, objs, source, calls, closes, overlap,
                   crossed>>

-----------------------------------------------------------------------------
(* _handleEvent, one event of a batch.                                     *)

Lookup(id) == {o \in Objects : /\ objs[o].id = id
                               /\ \E i \in DOMAIN connections : connections[i] = o}

\* _connections.delete and _connections.set: an entry goes, an entry is put in
\* the place of the one with the same id or at the end.
Without(o) ==
    LET at == CHOOSE i \in DOMAIN connections : connections[i] = o
    IN  [i \in 1 .. Len(connections) - 1 |->
           connections[IF i < at THEN i ELSE i + 1]]

With(o, id) ==
    IF Lookup(id) = {} THEN Append(connections, o)
    ELSE [i \in DOMAIN connections |->
            IF objs[connections[i]].id = id THEN o ELSE connections[i]]

\* "found": made by a 'data' event, its 'connect' was never seen.
NewObject(e) == [id |-> e.k, src |-> e.n, found |-> e.do = "data",
                 destroyed |-> FALSE, life |-> "new"]

\* An event of a native server is taken by another one's run.
Crossing(e) == IF e.n = native THEN {} ELSE {"event"}

Continue(steps) == WithTop([Top EXCEPT !.todo = steps \o Tail(@)])

\* `if (this._closed) return`.
IgnoreEvent ==
    /\ \/ About("connect")
       \/ About("data")
       \/ About("close")
    /\ closed
    /\ stack' = WithTop(Rest)
    /\ UNCHANGED <<lifecycle, connections, objs, source, calls, closes, overlap,
                   crossed>>

\* 'connect': an earlier connection with this id is dropped first.
HandleConnect ==
    LET e == Head(Top.todo) IN
    /\ About("connect")
    /\ ~closed
    /\ IF Lookup(e.k) = {}
       THEN /\ stack' = Continue(<<Step("install", e.n, e.k)>>)
            /\ UNCHANGED connections
       ELSE \E old \in Lookup(e.k) :
            /\ connections' = Without(old)
            /\ stack' = Continue(<<Tell("tellClose", old), Tell("server", old),
                                   Step("install", e.n, e.k)>>)
    /\ crossed' = crossed \cup Crossing(e)
    /\ UNCHANGED <<lifecycle, objs, source, calls, closes, overlap>>

\* new IoUringTcpConnection, set, emit('connection').
Install ==
    LET e == Head(Top.todo)
        o == Len(objs) + 1 IN
    /\ About("install")
    /\ objs' = Append(objs, NewObject(e))
    /\ connections' = With(o, e.k)
    /\ stack' = Continue(<<Tell("connection", o)>>)
    /\ UNCHANGED <<lifecycle, source, calls, closes, overlap, crossed>>

\* 'data': _connectionFor makes the connection when it is not known.
HandleData ==
    LET e == Head(Top.todo)
        o == Len(objs) + 1 IN
    /\ About("data")
    /\ ~closed
    /\ IF Lookup(e.k) = {}
       THEN /\ objs' = Append(objs, NewObject(e))
            /\ connections' = With(o, e.k)
            /\ stack' = Continue(<<Tell("connection", o), Tell("tellData", o), Tell("server", o)>>)
       ELSE \E known \in Lookup(e.k) :
            /\ stack' = Continue(<<Tell("tellData", known), Tell("server", known)>>)
            /\ UNCHANGED <<objs, connections>>
    /\ crossed' = crossed \cup Crossing(e)
    /\ UNCHANGED <<lifecycle, source, calls, closes, overlap>>

\* Mutant: a closed connection stays in the map.
CloseKeepsConnection ==
    LET e == Head(Top.todo) IN
    /\ About("close")
    /\ ~closed
    /\ \E known \in Lookup(e.k) :
         stack' = Continue(<<Tell("tellClose", known), Tell("server", known)>>)
    /\ UNCHANGED <<lifecycle, connections, objs, source, calls, closes, overlap, crossed>>

\* 'close': forgotten first, told afterwards; unknown ids are ignored.
HandleClose ==
    LET e == Head(Top.todo) IN
    /\ About("close")
    /\ ~closed
    /\ IF Lookup(e.k) = {}
       THEN /\ stack' = WithTop(Rest)
            /\ UNCHANGED connections
       ELSE \E known \in Lookup(e.k) :
            /\ connections' = Without(known)
            /\ stack' = Continue(<<Tell("tellClose", known), Tell("server", known)>>)
    /\ crossed' = crossed \cup Crossing(e)
    /\ UNCHANGED <<lifecycle, objs, source, calls, closes, overlap>>

-----------------------------------------------------------------------------
(* Emitting: the listener becomes the innermost call.                      *)

\* What a connection object has told its listeners, in order; "late" is one
\* 'data' after 'close'.
Told(life, what) ==
    CASE what = "connection" /\ life = "new"  -> "open"
      [] what = "tellData"   /\ life = "open" -> "open"
      [] what = "tellClose"  /\ life = "open" -> "closed"
      [] what = "tellData"   /\ life = "closed" -> "late"
      [] OTHER -> "broken"

\* A connection's 'connection', 'data' or 'close'; `destroyed` is set before
\* 'close' is emitted.
TellConnection ==
    LET s == Head(Top.todo) IN
    /\ \/ About("connection")
       \/ About("tellData")
       \/ About("tellClose")
    /\ objs' = [objs EXCEPT
                  ![s.k].life = Told(@, s.do),
                  ![s.k].destroyed = @ \/ s.do = "tellClose"]
    /\ stack' = Append(WithTop(Rest), Listener)
    /\ UNCHANGED <<lifecycle, connections, source, calls, closes, overlap, crossed>>

\* The server's 'data', 'connectionClose', 'listening' and 'close', and the
\* callbacks of start and close.
TellServer ==
    /\ \/ About("server")
       \/ About("callback")
       \/ About("serverClose")
    /\ closes' = IF About("serverClose") THEN closes + 1 ELSE closes
    /\ stack' = Append(WithTop(Rest), Listener)
    /\ UNCHANGED <<lifecycle, connections, objs, source, calls, overlap, crossed>>

\* Mutant: the first error ends the call below.
ThrownAborts(below) ==
    IF below = <<>> \/ below[Len(below)].call = "listener" THEN below
    ELSE [below EXCEPT ![Len(below)].err = TRUE, ![Len(below)].todo = <<>>]

\* A call that ends with an error gives it to the call below: a batch and
\* close() remember it and go on, start() closes the server, a listener
\* may catch it or throw in turn.
Thrown(below) ==
    IF below = <<>> \/ below[Len(below)].call = "listener" THEN below
    ELSE LET f == below[Len(below)] IN
         [below EXCEPT ![Len(below)] =
            [f EXCEPT !.err = TRUE,
                      !.todo = IF f.call = "start" /\ ~f.err
                               THEN <<Step("undo", 0, 0)>> ELSE @]]

ListenerReturns ==
    /\ InListener
    /\ stack' = Below
    /\ UNCHANGED <<lifecycle, connections, objs, source, calls, closes, overlap,
                   crossed>>

ListenerThrows ==
    /\ InListener
    /\ stack' = Thrown(Below)
    /\ UNCHANGED <<lifecycle, connections, objs, source, calls, closes, overlap,
                   crossed>>

\* _handleNativeEvents, close and start reach their end.
CallEnds ==
    /\ stack # <<>>
    /\ ~InListener
    /\ Top.todo = <<>>
    /\ stack' = IF Top.err THEN Thrown(Below) ELSE Below
    /\ UNCHANGED <<lifecycle, connections, objs, source, calls, closes, overlap,
                   crossed>>

-----------------------------------------------------------------------------
(* The application's calls, from a listener or a task.                     *)

Call ==
    /\ InListener
    /\ calls < MaxCalls
    /\ calls' = calls + 1

\* Mutant: a new timer forgets what unref() asked.
TimerAlwaysRefed(running) == IF running THEN "refed" ELSE "none"

Timer(running) ==
    IF ~running THEN "none" ELSE IF refed THEN "refed" ELSE "unrefed"

Busy ==
    \/ \E n \in Natives : pending[n] # <<>>
    \/ \E i \in DOMAIN stack : stack[i].call \in {"batch", "close"}

\* _startWithOptions: startBatch succeeds.
Start(n) ==
    /\ Call
    /\ info = 0
    /\ n \in Natives /\ natives[n] = "unborn"
    /\ \A m \in Natives : m < n => natives[m] # "unborn"
    /\ natives' = [natives EXCEPT ![n] = "running"]
    /\ native' = n /\ info' = n
    /\ closed' = FALSE
    /\ keepAlive' = IF keepAlive = "none" THEN Timer(TRUE) ELSE keepAlive
    /\ overlap' = (overlap \/ Busy)
    /\ \E callback \in BOOLEAN :
        stack' = Append(stack,
                   Frame("start",
                         (IF callback THEN <<Tell("callback", 0)>> ELSE <<>>)
                           \o <<Tell("server", 0)>>, FALSE))
    /\ UNCHANGED <<refed, connections, objs, source, closes, crossed>>

\* startBatch throws: the native server is stopped, the error goes to the
\* caller.
StartFails(n) ==
    /\ Call
    /\ info = 0
    /\ n \in Natives /\ natives[n] = "unborn"
    /\ \A m \in Natives : m < n => natives[m] # "unborn"
    /\ natives' = [natives EXCEPT ![n] = "failed"]
    /\ native' = 0 /\ info' = 0
    /\ closed' = TRUE
    /\ keepAlive' = "none"
    /\ UNCHANGED <<refed, connections, objs, source, stack, closes, overlap,
                   crossed>>

\* Mutant: close() forgets to stop the native server.
ShutWithoutStop(base, callback) ==
    /\ closed' = TRUE
    /\ connections' = <<>>
    /\ native' = 0 /\ info' = 0
    /\ keepAlive' = "none"
    /\ stack' = Append(base, Frame("close", <<Tell("serverClose", 0)>>, FALSE))
    /\ UNCHANGED <<refed, natives>>

\* Mutant: the map is cleared before its connections are copied.
ShutClearsFirst(base, callback) ==
    /\ closed' = TRUE
    /\ connections' = <<>>
    /\ native' = 0 /\ info' = 0
    /\ keepAlive' = "none"
    /\ natives' = IF closed THEN natives ELSE [natives EXCEPT ![native] = "stopped"]
    /\ stack' = Append(base, Frame("close",
                   IF closed THEN <<>> ELSE <<Tell("serverClose", 0)>>, FALSE))
    /\ UNCHANGED refed

\* close(): everything is reset before anyone is told.  native.stop() may
\* throw; the worker has ended all the same.
Shut(base, callback) ==
    LET told == IF callback THEN <<Tell("callback", 0)>> ELSE <<>> IN
    IF closed
    THEN /\ stack' = Append(base, Frame("close", told, FALSE))
         /\ UNCHANGED <<lifecycle, connections>>
    ELSE /\ closed' = TRUE
         /\ connections' = <<>>
         /\ native' = 0 /\ info' = 0
         /\ keepAlive' = "none"
         /\ natives' = [natives EXCEPT ![native] = "stopped"]
         /\ \E stopError \in BOOLEAN :
             stack' = Append(base,
                        Frame("close",
                              [i \in DOMAIN connections |-> Tell("tellClose", connections[i])]
                                \o told \o <<Tell("serverClose", 0)>>, stopError))
         /\ UNCHANGED refed

Close ==
    /\ Call
    /\ \E callback \in BOOLEAN : Shut(stack, callback)
    /\ UNCHANGED <<objs, source, closes, overlap, crossed>>

\* A startup callback or 'listening' listener threw: start() closes.
UndoStart ==
    /\ About("undo")
    /\ Shut(WithTop(Rest), FALSE)
    /\ UNCHANGED <<objs, source, calls, closes, overlap, crossed>>

\* Mutant: a batch is sent although one of its connections is destroyed.
SendAnyway(batch, andClose) ==
    /\ Call
    /\ batch # {}
    /\ native # 0
    /\ crossed' = crossed \cup
                    (IF \A o \in batch : objs[o].src = native THEN {} ELSE {"send"})
    /\ UNCHANGED <<lifecycle, connections, objs, source, stack, closes, overlap>>

\* write, end, destroy, sendBatch, sendBatchAndClose: one destroyed
\* connection refuses the whole batch; the native server may refuse it too.
Send(batch, andClose) ==
    /\ Call
    /\ batch # {}
    /\ native # 0
    /\ \A o \in batch : ~objs[o].destroyed
    /\ objs' = [o \in Objects |->
                  IF o \in batch /\ andClose THEN [objs[o] EXCEPT !.destroyed = TRUE]
                  ELSE objs[o]]
    /\ crossed' = crossed \cup
                    (IF \A o \in batch : objs[o].src = native THEN {} ELSE {"send"})
    /\ UNCHANGED <<lifecycle, connections, source, stack, closes, overlap>>

\* ref() and unref().
Ref(on) ==
    /\ Call
    /\ refed' = on
    /\ keepAlive' = IF keepAlive = "none" THEN "none"
                    ELSE IF on THEN "refed" ELSE "unrefed"
    /\ UNCHANGED <<native, info, closed, natives, connections, objs, source,
                   stack, closes, overlap, crossed>>

-----------------------------------------------------------------------------
Handling ==
    \/ IgnoreEvent \/ HandleConnect \/ Install \/ HandleData \/ HandleClose
    \/ TellConnection \/ TellServer
    \/ ListenerReturns \/ ListenerThrows \/ CallEnds \/ UndoStart

Application ==
    \/ Task \/ Close
    \/ \E n \in Natives : Start(n) \/ StartFails(n)
    \/ \E batch \in SUBSET Objects, andClose \in BOOLEAN : Send(batch, andClose)
    \/ \E on \in BOOLEAN : Ref(on)

Next ==
    \/ Handling
    \/ Application
    \/ \E n \in Natives : Report(n) \/ Deliver(n)

Spec == Init /\ [][Next]_vars

-----------------------------------------------------------------------------
(* Properties.                                                             *)

TypeOK ==
    /\ native \in 0 .. MaxStarts
    /\ info \in 0 .. MaxStarts
    /\ closed \in BOOLEAN
    /\ connections \in Seq(Nat \ {0})
    /\ keepAlive \in {"none", "refed", "unrefed"}
    /\ refed \in BOOLEAN
    /\ objs \in Seq([id : Ids, src : Natives, found : BOOLEAN, destroyed : BOOLEAN,
                     life : {"new", "open", "closed", "late", "broken"}])
    /\ natives \in [Natives -> {"unborn", "running", "stopped", "failed"}]
    /\ wire \in [Natives -> [Ids -> {"unused", "open", "gone"}]]
    /\ reported \in [Natives -> Nat]
    /\ calls \in Nat /\ closes \in Nat
    /\ overlap \in BOOLEAN
    /\ crossed \subseteq {"event", "send"}

\* Whatever listener throws or calls back, _native, _info, _closed and the
\* keep-alive timer agree: the process is held exactly while a native server
\* runs and as ref()/unref() last asked.
RunningIsWhole ==
    /\ info = native
    /\ closed <=> native = 0
    /\ keepAlive = Timer(native # 0)

\* No native server runs that close() could not reach any more: not after a
\* failed start, a throwing callback, or a restart from a listener.
NoNativeLeftRunning ==
    \A n \in Natives : natives[n] = "running" <=> n = native /\ native # 0

\* The facade and its native servers agree, whatever throws.
ServerWhole == RunningIsWhole /\ NoNativeLeftRunning

\* Unless the server was restarted in the middle of its previous run: whatever
\* events were dropped, a connection tells 'connection', then 'data' any number
\* of times, then 'close' once; one object per id; none on a closed server.
\* Only a connection whose 'connect' was lost tells 'data' after its 'close',
\* once, when its 'connection' listener closes the server: _handleEvent goes on
\* with the connection that _connectionFor has just made.
ConnectionProtocol ==
    /\ TypeOK
    /\ ~overlap =>
        /\ \A o \in Objects : /\ objs[o].life # "broken"
                              /\ objs[o].life = "late" => objs[o].found
        /\ \A i, j \in DOMAIN connections :
             objs[connections[i]].id = objs[connections[j]].id => i = j
        /\ closed => connections = <<>>

Owed(o) ==
    \/ \E i \in DOMAIN connections : connections[i] = o
    \/ \E f \in DOMAIN stack : \E i \in DOMAIN stack[f].todo :
          /\ stack[f].todo[i].do \in {"connection", "tellClose"}
          /\ stack[f].todo[i].k = o

\* A connection the application has been given is never dropped in silence:
\* its 'close' has been told, or it is still known, or a call in progress is
\* about to tell.
NobodyForgotten ==
    \A o \in Objects : objs[o].life \in {"new", "open"} => Owed(o)

Started == {n \in Natives : natives[n] \in {"running", "stopped"}}

\* Between two calls of the event loop, every run of the server that is over
\* has emitted the server's 'close' exactly once, whatever threw meanwhile.
ClosesTold ==
    stack = <<>> => closes + (IF native = 0 THEN 0 ELSE 1) = Cardinality(Started)

\* The bytes an application writes to a connection go to the native server
\* that reported it, unless the server was restarted meanwhile.
StaysInItsRun == ~overlap => crossed = {}
=============================================================================
