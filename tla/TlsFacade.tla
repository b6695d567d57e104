------------------------------ MODULE TlsFacade ------------------------------
(***************************************************************************)
(* The TLS server of tcp-transport.js, IoUringTlsTransportServer: a new    *)
(* TCP server for every start, and one tls.TLSSocket per connection, over  *)
(* an IoUringConnectionDuplex.                                             *)
(*                                                                         *)
(* As in TcpFacade, the calls in progress form a stack and a listener is a *)
(* frame whose next calls the application decides.  Each inner TCP server  *)
(* is seen from outside: closed or running, and what its close() calls     *)
(* back.  Its late events stay with it, so that they cannot reach another  *)
(* run.  Node's TLSSocket is external: handshakes succeed, fail or never   *)
(* end, and a destroyed socket emits 'error', if there is one, and 'close' *)
(* in one go once the current call is over.                                *)
(***************************************************************************)
EXTENDS Naturals, Sequences, FiniteSets

CONSTANTS
    MaxStarts,   \* bound: TCP servers made
    MaxSockets,  \* bound: connections accepted
    MaxCalls,    \* bound: calls the application makes
    HandshakeLimits  \* values of the option handshakeTimeout; 0 asks for no timer

ASSUME TlsAssumption ==
    /\ MaxStarts \in Nat /\ MaxSockets \in Nat /\ MaxCalls \in Nat
    /\ HandshakeLimits \subseteq Nat

VARIABLES
    handshakeTimeout,  \* this._tlsOptions.handshakeTimeout, never assigned again
    tcpServer,  \* this._tcpServer, as a number; 0 is null
    closed,     \* this._closed
    tcp,        \* every inner TCP server: "unborn", "running" or "closed"
    sockets,    \* every TLS socket made
    stack,      \* calls in progress, the innermost last
    calls,      \* calls made by the application
    nested,     \* the server was started in the middle of a start() or close()
    threw,      \* a listener threw out of a TLS socket's event or timer
    refused     \* a running TCP server's connection was destroyed unseen

vars == <<handshakeTimeout, tcpServer, closed, tcp, sockets, stack, calls, nested, threw,
          refused>>

Servers == 1 .. MaxStarts
Sockets == DOMAIN sockets

Frame(call, n, todo, err) == [call |-> call, n |-> n, todo |-> todo, err |-> err]
Listener == Frame("listener", 0, <<>>, FALSE)

Top == stack[Len(stack)]
Below == SubSeq(stack, 1, Len(stack) - 1)
Rest == [Top EXCEPT !.todo = Tail(@)]
WithTop(f) == Append(Below, f)
InListener == stack # <<>> /\ Top.call = "listener"

About(do) == stack # <<>> /\ Top.todo # <<>> /\ Head(Top.todo) = do

\* secureSocket.destroy(error): nothing on a socket destroyed before; the
\* events follow after the current call.
Destroyed(s, owed) ==
    IF s.phase = "dead" THEN s ELSE [s EXCEPT !.phase = "dead", !.owed = owed]

Init ==
    /\ handshakeTimeout \in HandshakeLimits
    /\ tcpServer = 0 /\ closed = TRUE
    /\ tcp = [n \in Servers |-> "unborn"]
    /\ sockets = <<>>
    /\ stack = <<>> /\ calls = 0
    /\ nested = FALSE /\ threw = FALSE /\ refused = FALSE

-----------------------------------------------------------------------------
(* What the event loop calls.                                              *)

Task ==
    /\ stack = <<>>
    /\ calls < MaxCalls
    /\ stack' = <<Listener>>
    /\ UNCHANGED <<handshakeTimeout, tcpServer, closed, tcp, sockets, calls, nested,
                   threw, refused>>

\* Mutant: a timer for every handshake, whatever the option says.
TimerAlways(n) ==
    /\ stack = <<>>
    /\ tcp[n] = "running"
    /\ Len(sockets) < MaxSockets
    /\ IF closed
       THEN /\ refused' = TRUE
            /\ UNCHANGED sockets
       ELSE /\ sockets' = Append(sockets,
                 [srv |-> n, phase |-> "handshake", timed |-> handshakeTimeout > 0,
                  timer |-> TRUE, tracked |-> TRUE,
                  owed |-> "nothing", errors |-> 0])
            /\ UNCHANGED refused
    /\ UNCHANGED <<handshakeTimeout, tcpServer, closed, tcp, stack, calls, nested, threw>>

\* The TCP server's 'connection' listener, _handleTcpConnection.
HandleTcpConnection(n) ==
    /\ stack = <<>>
    /\ tcp[n] = "running"
    /\ Len(sockets) < MaxSockets
    /\ IF closed
       THEN /\ refused' = TRUE
            /\ UNCHANGED sockets
       ELSE /\ sockets' = Append(sockets,
                 [srv |-> n, phase |-> "handshake", timed |-> handshakeTimeout > 0,
                  timer |-> handshakeTimeout > 0, tracked |-> TRUE,
                  owed |-> "nothing", errors |-> 0])
            /\ UNCHANGED refused
    /\ UNCHANGED <<handshakeTimeout, tcpServer, closed, tcp, stack, calls, nested, threw>>

\* Mutant: the handshake timer is not cleared.
SecureKeepsTimer(s) ==
    /\ stack = <<>>
    /\ sockets[s].phase = "handshake"
    /\ sockets' = [sockets EXCEPT ![s].phase = "secure"]
    /\ stack' = <<Frame("secure", s, <<"secureConnection">>, FALSE)>>
    /\ UNCHANGED <<handshakeTimeout, tcpServer, closed, tcp, calls, nested,
                   threw, refused>>

\* once('secure').
Secure(s) ==
    /\ stack = <<>>
    /\ sockets[s].phase = "handshake"
    /\ sockets' = [sockets EXCEPT ![s].phase = "secure", ![s].timer = FALSE]
    /\ stack' = <<Frame("secure", s, <<"secureConnection">>, FALSE)>>
    /\ UNCHANGED <<handshakeTimeout, tcpServer, closed, tcp, calls, nested,
                   threw, refused>>

\* Mutant: the timer reports the handshake and leaves the socket.
TimeoutOnlyReports(s) ==
    /\ stack = <<>>
    /\ sockets[s].timer
    /\ sockets' = [sockets EXCEPT ![s].timer = FALSE]
    /\ stack' = <<Frame("timeout", s, <<"tlsClientError">>, FALSE)>>
    /\ UNCHANGED <<handshakeTimeout, tcpServer, closed, tcp, calls, nested,
                   threw, refused>>

\* setTimeout(handshakeTimeout).
HandshakeTimeout(s) ==
    /\ stack = <<>>
    /\ sockets[s].timer
    /\ sockets' = [sockets EXCEPT ![s].timer = FALSE]
    /\ stack' = <<Frame("timeout", s, <<"tlsClientError", "destroy">>, FALSE)>>
    /\ UNCHANGED <<handshakeTimeout, tcpServer, closed, tcp, calls, nested,
                   threw, refused>>

\* A failed handshake, a reset, a write the native server refuses (_write
\* calls back with an error), or the end of the peer's stream (the
\* connection's 'close' ends and destroys the duplex).
SocketEnds(s) ==
    /\ stack = <<>>
    /\ sockets[s].phase # "dead"
    /\ \E owed \in {"error", "close"} :
        sockets' = [sockets EXCEPT ![s] = Destroyed(@, owed)]
    /\ UNCHANGED <<handshakeTimeout, tcpServer, closed, tcp, stack, calls, nested,
                   threw, refused>>

\* The socket emits 'error', if it was destroyed with one, and 'close'.
SocketEvents(s) ==
    /\ stack = <<>>
    /\ sockets[s].owed # "nothing"
    /\ sockets' = [sockets EXCEPT
                     ![s].owed = "nothing",
                     ![s].timer = @ /\ sockets[s].owed = "close"]
    /\ stack' = <<Frame("events", s,
                    IF sockets[s].owed = "close" THEN <<"socketClose">>
                    ELSE <<"socketError", "socketClose">>, FALSE)>>
    /\ UNCHANGED <<handshakeTimeout, tcpServer, closed, tcp, calls, nested,
                   threw, refused>>

-----------------------------------------------------------------------------
(* Steps of the calls in progress.                                         *)

\* Events and callbacks without an effect of their own.
Emit ==
    /\ \/ About("callback")
       \/ About("listening")
       \/ About("secureConnection")
    /\ stack' = Append(WithTop(Rest), Listener)
    /\ UNCHANGED <<handshakeTimeout, tcpServer, closed, tcp, sockets, calls, nested,
                   threw, refused>>

\* on('error') and the timer report the socket; only an 'error' of a socket
\* that has been secure is a 'clientError'.
ReportError ==
    /\ \/ About("tlsClientError")
       \/ About("socketError")
    /\ sockets' = [sockets EXCEPT ![Top.n].errors = @ + 1]
    /\ stack' = Append(WithTop(Rest), Listener)
    /\ UNCHANGED <<handshakeTimeout, tcpServer, closed, tcp, calls, nested,
                   threw, refused>>

DestroySocket ==
    /\ About("destroy")
    /\ sockets' = [sockets EXCEPT ![Top.n] = Destroyed(@, "error")]
    /\ stack' = WithTop(Rest)
    /\ UNCHANGED <<handshakeTimeout, tcpServer, closed, tcp, calls, nested,
                   threw, refused>>

\* Mutant: a closed socket stays in _tlsSockets.
CloseKeepsSocket ==
    /\ About("socketClose")
    /\ sockets' = [sockets EXCEPT ![Top.n].timer = FALSE]
    /\ stack' = WithTop(Rest)
    /\ UNCHANGED <<handshakeTimeout, tcpServer, closed, tcp, calls, nested,
                   threw, refused>>

\* once('close').
SocketClose ==
    /\ About("socketClose")
    /\ sockets' = [sockets EXCEPT ![Top.n].timer = FALSE, ![Top.n].tracked = FALSE]
    /\ stack' = WithTop(Rest)
    /\ UNCHANGED <<handshakeTimeout, tcpServer, closed, tcp, calls, nested,
                   threw, refused>>

\* The TCP server's 'close': the TLS server is closed and says so.
TcpClose ==
    /\ About("tcpClose")
    /\ closed' = TRUE
    /\ stack' = Append(WithTop(Rest), Listener)
    /\ UNCHANGED <<handshakeTimeout, tcpServer, tcp, sockets, calls, nested,
                   threw, refused>>

\* The inner start() closes its server when a startup callback throws ...
UndoTcpStart ==
    LET n == Top.n IN
    /\ About("undoTcp")
    /\ tcp' = [tcp EXCEPT ![n] = "closed"]
    /\ sockets' = [s \in Sockets |->
                     IF sockets[s].srv = n THEN Destroyed(sockets[s], "close")
                     ELSE sockets[s]]
    /\ stack' = WithTop([Top EXCEPT
                  !.todo = (IF tcp[n] = "running" THEN <<"tcpClose">> ELSE <<>>)
                             \o Tail(@)])
    /\ UNCHANGED <<handshakeTimeout, tcpServer, closed, calls, nested, threw, refused>>

\* Mutant: the closed TCP server stays in _tcpServer.
UndoKeepsServer ==
    /\ About("undo")
    /\ closed' = TRUE
    /\ stack' = WithTop(Rest)
    /\ UNCHANGED <<handshakeTimeout, tcpServer, tcp, sockets, calls, nested,
                   threw, refused>>

\* ... and the outer one forgets it; its own close() finds it closed.
UndoStart ==
    /\ About("undo")
    /\ tcpServer' = 0
    /\ closed' = TRUE
    /\ stack' = WithTop(Rest)
    /\ UNCHANGED <<handshakeTimeout, tcp, sockets, calls, nested, threw, refused>>

\* What an error does to the call that was waiting: start() undoes itself,
\* close() goes on and rethrows, the 'secure' handler destroys the socket;
\* the timer and the socket's 'error' end there.
Recovery(f) ==
    CASE f.call = "start" /\ ~f.err -> <<"undoTcp", "undo">>
      [] f.call = "secure"          -> <<"destroy">>
      [] f.call \in {"timeout", "events"} -> <<>>
      [] OTHER -> f.todo

Thrown(below) ==
    IF below = <<>> \/ below[Len(below)].call = "listener" THEN below
    ELSE [below EXCEPT ![Len(below)].err = TRUE,
                       ![Len(below)].todo = Recovery(below[Len(below)])]

ListenerReturns ==
    /\ InListener
    /\ stack' = Below
    /\ UNCHANGED <<handshakeTimeout, tcpServer, closed, tcp, sockets, calls, nested,
                   threw, refused>>

ListenerThrows ==
    /\ InListener
    /\ stack' = Thrown(Below)
    /\ threw' = (threw \/ \E i \in DOMAIN Below :
                            Below[i].call \in {"timeout", "events"})
    /\ UNCHANGED <<handshakeTimeout, tcpServer, closed, tcp, sockets, calls,
                   nested, refused>>

CallEnds ==
    /\ stack # <<>>
    /\ ~InListener
    /\ Top.todo = <<>>
    /\ stack' = IF Top.err THEN Thrown(Below) ELSE Below
    /\ UNCHANGED <<handshakeTimeout, tcpServer, closed, tcp, sockets, calls, nested,
                   threw, refused>>

-----------------------------------------------------------------------------
(* The application's calls.                                                *)

Call ==
    /\ InListener
    /\ calls < MaxCalls
    /\ calls' = calls + 1

\* A start() is in progress, or a close() whose TCP server has not emitted
\* 'close' yet.
HalfWay ==
    \E i \in DOMAIN stack :
        \/ stack[i].call = "start"
        \/ \E j \in DOMAIN stack[i].todo : stack[i].todo[j] = "tcpClose"

\* start() and listen(): _startTcpServer makes a TCP server of its own; it
\* runs, or its start throws.
Start(n) ==
    /\ Call
    /\ tcpServer = 0
    /\ n \in Servers /\ tcp[n] = "unborn"
    /\ \A m \in Servers : m < n => tcp[m] # "unborn"
    /\ \/ /\ tcp' = [tcp EXCEPT ![n] = "running"]
          /\ tcpServer' = n
          /\ closed' = FALSE
          /\ \E callback \in BOOLEAN :
              stack' = Append(stack,
                         Frame("start", n,
                           (IF callback THEN <<"callback">> ELSE <<>>)
                             \o <<"listening">>, FALSE))
       \/ /\ tcp' = [tcp EXCEPT ![n] = "closed"]
          /\ closed' = TRUE
          /\ UNCHANGED <<tcpServer, stack>>
    /\ nested' = (nested \/ HalfWay)
    /\ UNCHANGED <<handshakeTimeout, sockets, threw, refused>>

\* close(): the sockets are destroyed and forgotten, then the TCP server is
\* closed, which calls back before it emits 'close'.
Close ==
    /\ Call
    /\ \E callback \in BOOLEAN :
        LET told == IF callback THEN <<"callback">> ELSE <<>> IN
        IF tcpServer = 0
        THEN /\ stack' = Append(stack, Frame("close", 0, told, FALSE))
             /\ UNCHANGED <<tcpServer, closed, tcp, sockets>>
        ELSE /\ stack' = Append(stack, Frame("close", 0,
                   told \o (IF tcp[tcpServer] = "running" THEN <<"tcpClose">> ELSE <<>>),
                   FALSE))
             /\ tcpServer' = 0
             /\ closed' = TRUE
             /\ tcp' = [tcp EXCEPT ![tcpServer] = "closed"]
             /\ sockets' = [s \in Sockets |->
                              IF sockets[s].tracked
                              THEN [Destroyed(sockets[s], "close") EXCEPT !.tracked = FALSE]
                              ELSE sockets[s]]
    /\ UNCHANGED <<handshakeTimeout, nested, threw, refused>>

-----------------------------------------------------------------------------
Handling ==
    \/ Emit \/ ReportError \/ DestroySocket \/ SocketClose \/ TcpClose
    \/ UndoTcpStart \/ UndoStart \/ ListenerReturns \/ ListenerThrows \/ CallEnds

Application ==
    \/ Task \/ Close
    \/ \E n \in Servers : Start(n)

Next ==
    \/ Handling
    \/ Application
    \/ \E n \in Servers : HandleTcpConnection(n)
    \/ \E s \in Sockets :
         Secure(s) \/ HandshakeTimeout(s) \/ SocketEnds(s) \/ SocketEvents(s)

\* Calls end and listeners return or throw.  Strong fairness where the event
\* loop chooses: every round of it runs the timers that are due and the events
\* of destroyed sockets, whatever else the application schedules.
Fairness ==
    /\ WF_vars(Handling)
    /\ \A s \in 1 .. MaxSockets :
        /\ SF_vars(s \in Sockets /\ HandshakeTimeout(s))
        /\ SF_vars(s \in Sockets /\ SocketEvents(s))

Spec == Init /\ [][Next]_vars /\ Fairness

-----------------------------------------------------------------------------
(* Properties.                                                             *)

Undoing == \E i \in DOMAIN stack : \E j \in DOMAIN stack[i].todo :
              stack[i].todo[j] = "undo"

\* Unless it was started in the middle of a start() or close(), the TLS
\* server runs one TCP server, the one it can close, and is open exactly
\* then; only while a failed start is undone do the two differ.
OneTcpServer ==
    ~nested /\ ~Undoing =>
        /\ closed <=> tcpServer = 0
        /\ \A n \in Servers : tcp[n] = "running" <=> n = tcpServer

\* A TLS socket that is not destroyed belongs to a running server and is in
\* _tlsSockets, where close() finds it; one that is done leaves the set.
SocketsTracked ==
    /\ \A s \in Sockets :
         sockets[s].phase # "dead" =>
            sockets[s].tracked /\ tcp[sockets[s].srv] = "running"
    /\ stack = <<>> /\ ~threw =>
         \A s \in Sockets : sockets[s].tracked /\ sockets[s].phase = "dead" =>
                              sockets[s].owed # "nothing"

InTimeout(s) == \E i \in DOMAIN stack : stack[i].call = "timeout" /\ stack[i].n = s

\* Every handshake is under its timer if handshakeTimeout asks for one, and
\* under none if it is 0; the timer can end nothing else: a socket that became
\* secure in time is never destroyed by it.
TimerGuardsHandshake ==
    /\ \A s \in Sockets : sockets[s].phase = "handshake" =>
         IF sockets[s].timed THEN sockets[s].timer \/ InTimeout(s) \/ threw
         ELSE ~sockets[s].timer /\ ~InTimeout(s)
    /\ \A s \in Sockets : sockets[s].phase = "secure" =>
         ~sockets[s].timer /\ ~InTimeout(s)

InHandshake(s) == s \in Sockets /\ sockets[s].phase = "handshake"

\* A handshake that neither succeeds nor fails is ended by its timer.  With a
\* handshakeTimeout of 0 nothing ends it.
HandshakesEnd ==
    \A s \in 1 .. MaxSockets :
        InHandshake(s) /\ sockets[s].timed ~> ~InHandshake(s) \/ threw

\* A connection of a listening server gets its TLS socket.
ConnectionsServed == ~refused
=============================================================================
