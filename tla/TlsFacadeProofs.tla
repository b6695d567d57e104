---------------------------- MODULE TlsFacadeProofs ----------------------------
(***************************************************************************)
(* The JavaScript TLS server, for every number of starts, sockets and      *)
(* calls in progress:                                                      *)
(*                                                                         *)
(*  - the stack keeps its shape (ShapeInv): calls and listeners take       *)
(*    turns, and what a call has still to do is one of the plans its code  *)
(*    has;                                                                 *)
(*  - each socket is tracked and timed, or the call that is about to end   *)
(*    it is still in progress (SocketsOK);                                 *)
(*  - a start() and a close() in progress agree with the servers they have *)
(*    changed so far (ServersOK).                                          *)
(*                                                                         *)
(* Every step is a Turn: one call F at place k of the stack becomes G, and *)
(* listeners come and go.  What a step says of a socket or of the servers  *)
(* then depends on F and G alone.                                          *)
(***************************************************************************)
EXTENDS TlsFacade, SequenceTheorems, TLAPS

-----------------------------------------------------------------------------
(* The invariant.                                                          *)

\* What a call does step by step.
Kinds == {"callback", "listening", "secureConnection", "tlsClientError", "socketError",
          "destroy", "socketClose", "tcpClose", "undoTcp", "undo"}

\* Calls the event loop makes; they begin on an empty stack.
LoopCalls == {"secure", "timeout", "events"}
Calls == {"start", "close", "listener"} \cup LoopCalls

\* What a call may still have to do; a start that has failed undoes itself.
Plans(call, err) ==
    CASE call = "start" /\ err ->
           {<<"undoTcp", "undo">>, <<"tcpClose", "undo">>, <<"undo">>, <<>>}
      [] call = "start" /\ ~err -> {<<"callback", "listening">>, <<"listening">>, <<>>}
      [] call = "close" -> {<<"callback", "tcpClose">>, <<"callback">>, <<"tcpClose">>, <<>>}
      [] call = "secure" -> {<<"secureConnection">>, <<"destroy">>, <<>>}
      [] call = "timeout" -> {<<"tlsClientError", "destroy">>, <<"destroy">>, <<>>}
      [] call = "events" -> {<<"socketError", "socketClose">>, <<"socketClose">>, <<>>}
      [] OTHER -> {<<>>}

Frames == [call : Calls, n : Nat, todo : Seq(Kinds), err : BOOLEAN]

\* Frame i of a stack, in a server that has made len sockets.
FrameOK(F, i, len) ==
    /\ F.todo \in Plans(F.call, F.err)
    /\ F.call = "start" => F.n \in Servers
    /\ F.call \in LoopCalls => i = 1 /\ F.n \in 1 .. len

\* A call that is not a listener was made by one.
Alternates(st) ==
    \A i \in DOMAIN st : i > 1 /\ st[i].call # "listener" => st[i - 1].call = "listener"
StackOK(st, len) ==
    /\ \A i \in DOMAIN st : FrameOK(st[i], i, len)
    /\ Alternates(st)

Sock == [srv : Servers, phase : {"handshake", "secure", "dead"}, timed : BOOLEAN,
         timer : BOOLEAN, tracked : BOOLEAN, owed : {"nothing", "error", "close"}, errors : Nat]

TlsType ==
    /\ tcpServer \in 0 .. MaxStarts /\ closed \in BOOLEAN
    /\ tcp \in [Servers -> {"unborn", "running", "closed"}]
    /\ sockets \in Seq(Sock) /\ stack \in Seq(Frames)
    /\ calls \in Nat /\ nested \in BOOLEAN /\ threw \in BOOLEAN /\ refused \in BOOLEAN

\* Something to do is still to come; a call about s is in progress; one of
\* those that are has something still to do.
Has(todo, do) == \E j \in DOMAIN todo : todo[j] = do
InCall(st, call, s) == \E i \in DOMAIN st : st[i].call = call /\ st[i].n = s
Runs(st, call, s, do) ==
    \E i \in DOMAIN st : st[i].call = call /\ st[i].n = s /\ Has(st[i].todo, do)

\* A live socket is tracked, its TCP server runs and it has no events to emit.
\* A timed handshake is under its timer, or the timer that has run will destroy
\* it.  A dead tracked socket has events to emit, or the call that emits them
\* will forget it.  Only an error thrown out of such a call breaks this.
SocketOK(S, s, st, thr, tcps) ==
    /\ S.phase # "dead" => S.tracked /\ tcps[S.srv] = "running" /\ S.owed = "nothing"
                           /\ ~InCall(st, "events", s)
    /\ S.phase = "handshake" =>
         IF S.timed THEN S.timer \/ thr \/ Runs(st, "timeout", s, "destroy")
         ELSE ~S.timer /\ ~InCall(st, "timeout", s)
    /\ S.phase = "secure" => ~S.timer /\ ~InCall(st, "timeout", s)
    /\ S.phase = "dead" /\ S.tracked /\ S.owed = "nothing" =>
         thr \/ Runs(st, "events", s, "socketClose")
SocketsOK == \A s \in DOMAIN sockets : SocketOK(sockets[s], s, stack, threw, tcp)

\* A failed start whose inner TCP server has been closed.
Undone(F) == F.err /\ F.todo # <<"undoTcp", "undo">>

\* What a start() or close() in progress knows of the servers.
ServerFrameOK(F) ==
    /\ F.call = "start" => tcpServer \in {0, F.n} /\ (Undone(F) => tcp[F.n] = "closed")
    /\ F.call = "close" /\ Has(F.todo, "tcpClose") => tcpServer = 0 /\ closed

\* OneTcpServer, with what the calls in progress have still to make true.
ServersOK ==
    ~nested =>
        /\ \A i \in DOMAIN stack : ServerFrameOK(stack[i])
        /\ \A i, j \in DOMAIN stack :
             stack[i].call = "start" /\ stack[j].call = "start" => i = j
        /\ \A n \in Servers : tcp[n] = "running" => n = tcpServer
        /\ ~Undoing => /\ closed <=> tcpServer = 0
                       /\ tcpServer # 0 => tcp[tcpServer] = "running"

ShapeInv == TlsType /\ StackOK(stack, Len(sockets))
IInv == ShapeInv /\ SocketsOK /\ ServersOK

-----------------------------------------------------------------------------
(* How a step changes the stack.                                           *)

\* The call F at place k of a stack turns into G; a call that ends turns into a
\* listener, and a listener into a call that begins.  Listeners come and go.
Turns(st, st2, k, F, G) ==
    /\ \A i \in DOMAIN st2 : \/ i = k /\ st2[i] = G
                             \/ i # k /\ i \in DOMAIN st /\ st2[i] = st[i]
                             \/ st2[i] = Listener
    /\ \A i \in DOMAIN st : \/ i = k /\ st[i] = F
                            \/ i # k /\ i \in DOMAIN st2 /\ st2[i] = st[i]
                            \/ st[i].call = "listener"
    /\ \A i \in DOMAIN st2 : st2[i].call # "listener" => i <= k
    /\ G.call # "listener" => /\ k \in DOMAIN st2 /\ st2[k] = G
                              /\ k > 1 => st2[k - 1].call = "listener"
    /\ F.call # "listener" => k \in DOMAIN st /\ st[k] = F

\* A stack whose innermost call is now G.
Replaced(st, G) == Append(SubSeq(st, 1, Len(st) - 1), G)

\* What is below the top, what is pushed, replaced and updated.
LEMMA FrontFacts ==
  ASSUME NEW X, NEW st \in Seq(X), st # <<>>
  PROVE  /\ Len(st) \in Nat /\ Len(st) >= 1 /\ DOMAIN st = 1..Len(st)
         /\ st[Len(st)] \in X
         /\ SubSeq(st, 1, Len(st) - 1) \in Seq(X)
         /\ Len(SubSeq(st, 1, Len(st) - 1)) = Len(st) - 1
         /\ DOMAIN SubSeq(st, 1, Len(st) - 1) = 1..(Len(st) - 1)
         /\ \A f \in 1..(Len(st) - 1) : SubSeq(st, 1, Len(st) - 1)[f] = st[f]
<1>1. Len(st) \in Nat /\ DOMAIN st = 1..Len(st) /\ Len(st) # 0
  OBVIOUS
<1>2. PICK l : l = Len(st)
  OBVIOUS
<1>3. l \in Nat /\ l >= 1 /\ \A i \in 1..l : st[i] \in X
  BY <1>1, <1>2
<1>4. PICK b : b = SubSeq(st, 1, l - 1)
  OBVIOUS
<1>5. 1 \in Int /\ l - 1 \in Int /\ \A i \in 1..(l - 1) : st[i] \in X
  BY <1>3
<1>6. /\ b \in Seq(X) /\ Len(b) = IF 1 <= l - 1 THEN (l - 1) - 1 + 1 ELSE 0
      /\ \A i \in 1..((l - 1) - 1 + 1) : b[i] = st[1 + i - 1]
  BY <1>4, <1>5, SubSeqProperties
<1>7. PICK m : m = Len(b)
  OBVIOUS
<1>8. m = IF 1 <= l - 1 THEN (l - 1) - 1 + 1 ELSE 0
  BY <1>6, <1>7
<1>9. m = l - 1
  BY ONLY <1>3, <1>8
<1>10. ASSUME NEW f \in 1..(l - 1) PROVE b[f] = st[f]
  <2>1. f \in 1..((l - 1) - 1 + 1) /\ 1 + f - 1 = f
    BY <1>3
  <2> QED
    BY <1>6, <2>1
<1>11. /\ l \in Nat /\ l >= 1 /\ DOMAIN st = 1..l /\ st[l] \in X
       /\ b \in Seq(X) /\ Len(b) = l - 1 /\ DOMAIN b = 1..(l - 1)
       /\ \A f \in 1..(l - 1) : b[f] = st[f]
  <2>1. DOMAIN st = 1..l /\ st[l] \in X
    BY <1>1, <1>2, <1>3
  <2>2. DOMAIN b = 1..(l - 1)
    BY <1>6, <1>7, <1>9
  <2> QED
    BY <1>3, <1>6, <1>7, <1>9, <1>10, <2>1, <2>2
<1> QED
  BY <1>2, <1>4, <1>11, Zenon

LEMMA PushFacts ==
  ASSUME NEW X, NEW st \in Seq(X), NEW G \in X
  PROVE  /\ Append(st, G) \in Seq(X)
         /\ Len(st) \in Nat
         /\ Len(Append(st, G)) = Len(st) + 1
         /\ DOMAIN st = 1..Len(st)
         /\ DOMAIN Append(st, G) = 1..(Len(st) + 1)
         /\ \A f \in 1..Len(st) : Append(st, G)[f] = st[f]
         /\ Append(st, G)[Len(st) + 1] = G
  OBVIOUS

LEMMA ReplacedFacts ==
  ASSUME NEW X, NEW st \in Seq(X), st # <<>>, NEW G \in X
  PROVE  /\ Replaced(st, G) \in Seq(X)
         /\ Len(st) \in Nat /\ Len(st) >= 1
         /\ Len(Replaced(st, G)) = Len(st)
         /\ DOMAIN st = 1..Len(st)
         /\ DOMAIN Replaced(st, G) = 1..Len(st)
         /\ \A f \in 1..(Len(st) - 1) : Replaced(st, G)[f] = st[f]
         /\ Replaced(st, G)[Len(st)] = G
<1>1. PICK b : b = SubSeq(st, 1, Len(st) - 1)
  OBVIOUS
<1>2. PICK l : l = Len(st)
  OBVIOUS
<1>3. l \in Nat /\ l >= 1 /\ DOMAIN st = 1..l /\ b \in Seq(X) /\ Len(b) = l - 1
      /\ \A f \in 1..(l - 1) : b[f] = st[f]
  BY <1>1, <1>2, FrontFacts
<1>4. PICK w : w = Append(b, G)
  OBVIOUS
<1>5. w \in Seq(X) /\ Len(w) = Len(b) + 1 /\ DOMAIN w = 1..(Len(b) + 1)
      /\ (\A f \in 1..Len(b) : w[f] = b[f]) /\ w[Len(b) + 1] = G
  BY <1>3, <1>4, PushFacts
<1>6. Len(b) + 1 = l
  BY <1>3
<1>7. w \in Seq(X) /\ Len(w) = l /\ DOMAIN w = 1..l /\ w[l] = G
      /\ \A f \in 1..(l - 1) : w[f] = st[f]
  BY <1>3, <1>5, <1>6
<1>8. w = Replaced(st, G)
  BY <1>1, <1>4 DEF Replaced
<1> QED
  BY <1>2, <1>3, <1>7, <1>8

LEMMA UpdateFacts ==
  ASSUME NEW X, NEW b \in Seq(X), NEW m \in DOMAIN b, NEW G \in X
  PROVE  /\ [b EXCEPT ![m] = G] \in Seq(X)
         /\ Len([b EXCEPT ![m] = G]) = Len(b)
         /\ DOMAIN [b EXCEPT ![m] = G] = DOMAIN b
         /\ \A f \in DOMAIN b : [b EXCEPT ![m] = G][f] = IF f = m THEN G ELSE b[f]
  OBVIOUS

LEMMA ListenerIsFrame == Listener \in Frames /\ Listener.call = "listener"
  BY DEF Listener, Frame, Frames, Calls

\* The innermost call goes on, with or without a listener above it.
LEMMA AdvanceTurns ==
  ASSUME NEW st \in Seq(Frames), st # <<>>, NEW G \in Frames,
         st[Len(st)].call # "listener", G.call = st[Len(st)].call, Alternates(st)
  PROVE  /\ Replaced(st, G) \in Seq(Frames)
         /\ Turns(st, Replaced(st, G), Len(st), st[Len(st)], G)
<1>1. PICK l : l = Len(st)
  OBVIOUS
<1>2. PICK w : w = Replaced(st, G)
  OBVIOUS
<1>3. /\ w \in Seq(Frames) /\ l \in Nat /\ l >= 1 /\ DOMAIN st = 1..l /\ DOMAIN w = 1..l
      /\ \A f \in 1..(l - 1) : w[f] = st[f]
      /\ w[l] = G
  <2>1. /\ Replaced(st, G) \in Seq(Frames)
        /\ Len(st) \in Nat /\ Len(st) >= 1
        /\ Len(Replaced(st, G)) = Len(st)
        /\ DOMAIN st = 1..Len(st)
        /\ DOMAIN Replaced(st, G) = 1..Len(st)
        /\ \A f \in 1..(Len(st) - 1) : Replaced(st, G)[f] = st[f]
        /\ Replaced(st, G)[Len(st)] = G
    BY ReplacedFacts
  <2> QED
    BY <1>1, <1>2, <2>1
<1>4. l > 1 => w[l - 1].call = "listener"
  BY <1>1, <1>3 DEF Alternates
<1>5. PICK F : F = st[l]
  OBVIOUS
<1>6. Turns(st, w, l, F, G)
  BY <1>3, <1>4, <1>5 DEF Turns
<1> QED
  BY <1>1, <1>2, <1>3, <1>5, <1>6

LEMMA AdvanceListenerTurns ==
  ASSUME NEW st \in Seq(Frames), st # <<>>, NEW G \in Frames,
         st[Len(st)].call # "listener", G.call = st[Len(st)].call, Alternates(st)
  PROVE  /\ Append(Replaced(st, G), Listener) \in Seq(Frames)
         /\ Turns(st, Append(Replaced(st, G), Listener), Len(st), st[Len(st)], G)
<1>1. PICK l : l = Len(st)
  OBVIOUS
<1>2. PICK w : w = Replaced(st, G)
  OBVIOUS
<1>3. /\ w \in Seq(Frames) /\ l \in Nat /\ l >= 1 /\ DOMAIN st = 1..l /\ DOMAIN w = 1..l
      /\ Len(w) = l
      /\ \A f \in 1..(l - 1) : w[f] = st[f]
      /\ w[l] = G
  <2>1. /\ Replaced(st, G) \in Seq(Frames)
        /\ Len(st) \in Nat /\ Len(st) >= 1
        /\ Len(Replaced(st, G)) = Len(st)
        /\ DOMAIN st = 1..Len(st)
        /\ DOMAIN Replaced(st, G) = 1..Len(st)
        /\ \A f \in 1..(Len(st) - 1) : Replaced(st, G)[f] = st[f]
        /\ Replaced(st, G)[Len(st)] = G
    BY ReplacedFacts
  <2> QED
    BY <1>1, <1>2, <2>1
<1>4. l > 1 => st[l - 1].call = "listener"
  BY <1>1, <1>3 DEF Alternates
<1>5. PICK F : F = st[l]
  OBVIOUS
<1>6. PICK v : v = Append(w, Listener)
  OBVIOUS
<1>7. /\ v \in Seq(Frames) /\ DOMAIN v = 1..(l + 1)
      /\ \A f \in 1..l : v[f] = w[f]
      /\ v[l + 1] = Listener
  BY <1>3, <1>6, PushFacts, ListenerIsFrame
<1>8. \A f \in 1..(l - 1) : v[f] = st[f]
  BY <1>3, <1>7
<1>9. v[l] = G
  BY <1>3, <1>7
<1>10. \A f \in 1..(l + 1) : f = l \/ f \in 1..(l - 1) \/ f = l + 1
  BY <1>3
<1>11. l > 1 => v[l - 1].call = "listener"
  BY <1>3, <1>4, <1>8
<1>12. Turns(st, v, l, F, G)
  <2>1. \A i \in DOMAIN v : \/ i = l /\ v[i] = G
                            \/ i # l /\ i \in DOMAIN st /\ v[i] = st[i]
                            \/ v[i] = Listener
    BY <1>3, <1>7, <1>8, <1>9, <1>10
  <2>2. \A i \in DOMAIN st : \/ i = l /\ st[i] = F
                             \/ i # l /\ i \in DOMAIN v /\ v[i] = st[i]
                             \/ st[i].call = "listener"
    BY <1>3, <1>5, <1>7, <1>8
  <2>3. \A i \in DOMAIN v : v[i].call # "listener" => i <= l
    BY <1>3, <1>7, <1>10, ListenerIsFrame
  <2> QED
    BY <1>3, <1>5, <1>7, <1>9, <1>11, <2>1, <2>2, <2>3 DEF Turns
<1> QED
  BY <1>1, <1>2, <1>5, <1>6, <1>7, <1>12

\* The innermost call ends.
LEMMA PopTurns ==
  ASSUME NEW st \in Seq(Frames), st # <<>>
  PROVE  /\ SubSeq(st, 1, Len(st) - 1) \in Seq(Frames)
         /\ Turns(st, SubSeq(st, 1, Len(st) - 1), Len(st), st[Len(st)], Listener)
<1>1. PICK l : l = Len(st)
  OBVIOUS
<1>2. PICK b : b = SubSeq(st, 1, l - 1)
  OBVIOUS
<1>3. /\ l \in Nat /\ l >= 1 /\ DOMAIN st = 1..l /\ b \in Seq(Frames)
      /\ DOMAIN b = 1..(l - 1)
      /\ \A f \in 1..(l - 1) : b[f] = st[f]
  BY <1>1, <1>2, FrontFacts
<1>4. PICK F : F = st[l]
  OBVIOUS
<1>5. Turns(st, b, l, F, Listener)
  BY <1>3, <1>4, ListenerIsFrame DEF Turns
<1> QED
  BY <1>1, <1>2, <1>3, <1>4, <1>5

\* A call begins.
LEMMA PushTurns ==
  ASSUME NEW st \in Seq(Frames), NEW G \in Frames,
         st = <<>> \/ st[Len(st)].call = "listener"
  PROVE  /\ Append(st, G) \in Seq(Frames)
         /\ Turns(st, Append(st, G), Len(st) + 1, Listener, G)
<1>1. PICK l : l = Len(st)
  OBVIOUS
<1>2. PICK w : w = Append(st, G)
  OBVIOUS
<1>3. /\ l \in Nat /\ w \in Seq(Frames) /\ DOMAIN st = 1..l /\ DOMAIN w = 1..(l + 1)
      /\ \A f \in 1..l : w[f] = st[f]
      /\ w[l + 1] = G
  BY <1>1, <1>2, PushFacts
<1>4. l + 1 > 1 => w[(l + 1) - 1].call = "listener"
  <2>1. l # 0 => st # <<>>
    BY <1>1
  <2> QED
    BY <1>1, <1>3, <2>1
<1>5. Turns(st, w, l + 1, Listener, G)
  BY <1>3, <1>4, ListenerIsFrame DEF Turns
<1> QED
  BY <1>1, <1>2, <1>3, <1>5

\* The first call of an empty stack.
LEMMA FirstTurns ==
  ASSUME NEW G \in Frames
  PROVE  <<G>> \in Seq(Frames) /\ Turns(<<>>, <<G>>, 1, Listener, G)
<1>1. PICK w : w = <<G>>
  OBVIOUS
<1>2. w \in Seq(Frames) /\ DOMAIN w = {1} /\ w[1] = G
  BY <1>1
<1>3. PICK e : e = <<>> /\ DOMAIN e = {}
  OBVIOUS
<1>4. Turns(e, w, 1, Listener, G)
  BY <1>2, <1>3, ListenerIsFrame DEF Turns
<1> QED
  BY <1>1, <1>2, <1>3, <1>4

LEMMA SameTurns ==
  ASSUME NEW st \in Seq(Frames)
  PROVE  Turns(st, st, Len(st) + 1, Listener, Listener)
<1>1. Len(st) \in Nat /\ DOMAIN st = 1..Len(st)
  OBVIOUS
<1> QED
  BY <1>1, ListenerIsFrame DEF Turns

\* What an error makes of the call it meets.
Struck(F) == [F EXCEPT !.err = TRUE, !.todo = Recovery(F)]

LEMMA ThrowTurns ==
  ASSUME NEW st \in Seq(Frames), st # <<>>, st[Len(st)].call = "listener",
         NEW b, b = SubSeq(st, 1, Len(st) - 1), b # <<>>, b[Len(b)].call # "listener",
         Alternates(st), Struck(b[Len(b)]) \in Frames
  PROVE  /\ Thrown(b) \in Seq(Frames)
         /\ Turns(st, Thrown(b), Len(b), b[Len(b)], Struck(b[Len(b)]))
         /\ Len(b) \in DOMAIN st /\ st[Len(b)] = b[Len(b)] /\ Len(b) \in DOMAIN b
<1>1. PICK l : l = Len(st)
  OBVIOUS
<1>2. PICK m : m = Len(b)
  OBVIOUS
<1>3. /\ l \in Nat /\ l >= 1 /\ DOMAIN st = 1..l /\ b \in Seq(Frames) /\ m = l - 1
      /\ DOMAIN b = 1..(l - 1)
      /\ \A f \in 1..(l - 1) : b[f] = st[f]
  BY <1>1, <1>2, FrontFacts
<1>4. m \in Nat /\ m >= 1
  <2>1. m # 0
    BY <1>2, <1>3
  <2> QED
    BY <1>3, <2>1
<1>5. PICK F : F = b[m]
  OBVIOUS
<1>6. PICK G : G = Struck(F)
  OBVIOUS
<1>7. PICK w : w = [b EXCEPT ![m] = G]
  OBVIOUS
<1>8. w = Thrown(b)
  BY <1>2, <1>5, <1>6, <1>7 DEF Thrown, Struck
<1>9. G \in Frames /\ F.call # "listener" /\ F \in Frames
  BY <1>2, <1>3, <1>4, <1>5, <1>6
<1>10. G.call = F.call
  BY <1>6, <1>9 DEF Struck, Frames
<1>11. /\ w \in Seq(Frames) /\ DOMAIN w = 1..m /\ w[m] = G
       /\ \A f \in 1..(m - 1) : w[f] = b[f]
  <2>1. DOMAIN b = 1..m /\ m \in DOMAIN b
    BY <1>3, <1>4
  <2>2. b \in Seq(Frames) /\ G \in Frames
    BY <1>3, <1>9
  <2>3. /\ [b EXCEPT ![m] = G] \in Seq(Frames)
        /\ Len([b EXCEPT ![m] = G]) = Len(b)
        /\ DOMAIN [b EXCEPT ![m] = G] = DOMAIN b
        /\ \A f \in DOMAIN b : [b EXCEPT ![m] = G][f] = IF f = m THEN G ELSE b[f]
    BY ONLY <2>1, <2>2, UpdateFacts
  <2>4. w \in Seq(Frames) /\ DOMAIN w = 1..m
        /\ \A f \in 1..m : w[f] = IF f = m THEN G ELSE b[f]
    BY <1>7, <2>1, <2>3
  <2>5. m \in 1..m /\ \A f \in 1..(m - 1) : f \in 1..m /\ f # m
    BY ONLY <1>4
  <2> QED
    BY <2>4, <2>5
<1>12. st[m] = F /\ m \in DOMAIN st /\ m \in DOMAIN b
  BY <1>3, <1>4, <1>5
<1>13. \A f \in 1..(m - 1) : w[f] = st[f]
  BY <1>3, <1>11
<1>14. m > 1 => w[m - 1].call = "listener"
  <2> SUFFICES ASSUME m > 1 PROVE w[m - 1].call = "listener"
    OBVIOUS
  <2>1. m - 1 \in 1..(m - 1)
    BY <1>4
  <2>2. st[m - 1].call = "listener"
    BY <1>9, <1>12 DEF Alternates
  <2> QED
    BY <1>13, <2>1, <2>2
<1>15. \A f \in 1..l : f = m \/ f \in 1..(m - 1) \/ f = l
  BY <1>3
<1>16. Turns(st, w, m, F, G)
  <2>1. \A i \in DOMAIN w : \/ i = m /\ w[i] = G
                            \/ i # m /\ i \in DOMAIN st /\ w[i] = st[i]
                            \/ w[i] = Listener
    <3>1. \A i \in 1..m : i = m \/ (i # m /\ i \in 1..(m - 1) /\ i \in 1..l)
      BY <1>3, <1>4
    <3> QED
      BY <1>3, <1>11, <1>13, <3>1
  <2>2. \A i \in DOMAIN st : \/ i = m /\ st[i] = F
                             \/ i # m /\ i \in DOMAIN w /\ w[i] = st[i]
                             \/ st[i].call = "listener"
    <3>1. \A i \in 1..(m - 1) : i # m /\ i \in 1..m
      BY <1>4
    <3> QED
      BY <1>1, <1>3, <1>11, <1>12, <1>13, <1>15, <3>1
  <2>3. \A i \in DOMAIN w : w[i].call # "listener" => i <= m
    BY <1>4, <1>11
  <2>4. m \in DOMAIN w
    BY <1>4, <1>11
  <2> QED
    BY <1>11, <1>12, <1>14, <2>1, <2>2, <2>3, <2>4 DEF Turns
<1> QED
  BY <1>2, <1>5, <1>6, <1>8, <1>11, <1>12, <1>16

-----------------------------------------------------------------------------
(* What a call may have still to do.                                       *)

\* Membership in the plans.
LEMMA HasOne == \A a, do : Has(<<a>>, do) <=> do = a
<1> SUFFICES ASSUME NEW a, NEW do PROVE Has(<<a>>, do) <=> do = a
  OBVIOUS
<1>1. PICK t : t = <<a>>
  OBVIOUS
<1>2. DOMAIN t = {1} /\ t[1] = a
  BY <1>1
<1> QED
  BY <1>1, <1>2 DEF Has

LEMMA HasTwo == \A a, b, do : Has(<<a, b>>, do) <=> do = a \/ do = b
<1> SUFFICES ASSUME NEW a, NEW b, NEW do PROVE Has(<<a, b>>, do) <=> do = a \/ do = b
  OBVIOUS
<1>1. PICK t : t = <<a, b>>
  OBVIOUS
<1>2. DOMAIN t = {1, 2} /\ t[1] = a /\ t[2] = b
  BY <1>1
<1> QED
  BY <1>1, <1>2 DEF Has

LEMMA HasNone == \A do : ~Has(<<>>, do)
<1>1. PICK t : t = <<>> /\ DOMAIN t = {}
  OBVIOUS
<1> QED
  BY <1>1 DEF Has

LEMMA OneFacts == \A a : <<a>> # <<>> /\ Head(<<a>>) = a /\ Tail(<<a>>) = <<>>
  OBVIOUS
LEMMA TwoFacts == \A a, b : <<a, b>> # <<>> /\ Head(<<a, b>>) = a /\ Tail(<<a, b>>) = <<b>>
  OBVIOUS

\* A plan is a sequence of the steps calls have.
LEMMA PlanTypes ==
  ASSUME NEW call, NEW err, NEW t \in Plans(call, err) PROVE t \in Seq(Kinds)
<1>1. <<>> \in Seq(Kinds)
  OBVIOUS
<1>2. \A a \in Kinds : <<a>> \in Seq(Kinds)
  OBVIOUS
<1>3. \A a, b \in Kinds : <<a, b>> \in Seq(Kinds)
  OBVIOUS
<1>4. \/ t = <<>>
      \/ \E a \in Kinds : t = <<a>>
      \/ \E a, b \in Kinds : t = <<a, b>>
  BY Zenon DEF Plans, Kinds
<1> QED
  BY <1>1, <1>2, <1>3, <1>4

\* What is left of a plan is a plan.
LEMMA PlanTail ==
  ASSUME NEW call, NEW err \in BOOLEAN, NEW t \in Plans(call, err), t # <<>>
  PROVE  Tail(t) \in Plans(call, err)
<1>1. CASE call = "start" /\ err
  BY <1>1, OneFacts, TwoFacts DEF Plans
<1>2. CASE call = "start" /\ ~err
  BY <1>2, OneFacts, TwoFacts DEF Plans
<1>3. CASE call = "close"
  BY <1>3, OneFacts, TwoFacts DEF Plans
<1>4. CASE call = "secure"
  BY <1>4, OneFacts, TwoFacts DEF Plans
<1>5. CASE call = "timeout"
  BY <1>5, OneFacts, TwoFacts DEF Plans
<1>6. CASE call = "events"
  BY <1>6, OneFacts, TwoFacts DEF Plans
<1>7. CASE call \notin {"start", "close", "secure", "timeout", "events"}
  BY <1>7 DEF Plans
<1> QED
  BY <1>1, <1>2, <1>3, <1>4, <1>5, <1>6, <1>7

\* The next step of a plan says whose plan it is.
LEMMA PlanHead ==
  ASSUME NEW call, NEW err \in BOOLEAN, NEW t \in Plans(call, err), t # <<>>
  PROVE  /\ call \in {"start", "close"} \cup LoopCalls
         /\ Head(t) = "destroy" => call \in {"secure", "timeout"} /\ t = <<"destroy">>
         /\ Head(t) = "socketClose" => call = "events" /\ t = <<"socketClose">>
         /\ Head(t) = "tcpClose" => \/ call = "close" /\ t = <<"tcpClose">>
                                    \/ call = "start" /\ err /\ t = <<"tcpClose", "undo">>
         /\ Head(t) = "undoTcp" => call = "start" /\ err /\ t = <<"undoTcp", "undo">>
         /\ Head(t) = "undo" => call = "start" /\ err /\ t = <<"undo">>
         /\ Head(t) = "tlsClientError" => call = "timeout" /\ t = <<"tlsClientError", "destroy">>
         /\ Head(t) = "socketError" => call = "events" /\ t = <<"socketError", "socketClose">>
         /\ Head(t) = "callback" => \/ call = "start" /\ ~err
                                    \/ call = "close" /\ t \in {<<"callback", "tcpClose">>, <<"callback">>}
         /\ Head(t) = "listening" => call = "start" /\ ~err
         /\ Head(t) = "secureConnection" => call = "secure" /\ t = <<"secureConnection">>
<1> USE OneFacts, TwoFacts DEF LoopCalls
<1>1. CASE call = "start" /\ err
  BY <1>1 DEF Plans
<1>2. CASE call = "start" /\ ~err
  BY <1>2 DEF Plans
<1>3. CASE call = "close"
  BY <1>3 DEF Plans
<1>4. CASE call = "secure"
  BY <1>4 DEF Plans
<1>5. CASE call = "timeout"
  BY <1>5 DEF Plans
<1>6. CASE call = "events"
  BY <1>6 DEF Plans
<1>7. CASE call \notin {"start", "close", "secure", "timeout", "events"}
  BY <1>7 DEF Plans
<1> QED
  BY <1>1, <1>2, <1>3, <1>4, <1>5, <1>6, <1>7

\* Only a start that has failed has something to undo.
LEMMA OnlyStartsUndo ==
  ASSUME NEW call, NEW err \in BOOLEAN, NEW t \in Plans(call, err), Has(t, "undo")
  PROVE  call = "start" /\ err
<1>1. ~Has(<<"callback", "listening">>, "undo") /\ ~Has(<<"listening">>, "undo")
      /\ ~Has(<<"callback", "tcpClose">>, "undo") /\ ~Has(<<"callback">>, "undo")
      /\ ~Has(<<"tcpClose">>, "undo") /\ ~Has(<<"secureConnection">>, "undo")
      /\ ~Has(<<"destroy">>, "undo") /\ ~Has(<<"socketClose">>, "undo")
      /\ ~Has(<<"tlsClientError", "destroy">>, "undo")
      /\ ~Has(<<"socketError", "socketClose">>, "undo")
  BY HasOne, HasTwo
<1> QED
  BY <1>1, HasNone DEF Plans

LEMMA ListenerOK == \A i, len : FrameOK(Listener, i, len)
  BY DEF FrameOK, Listener, Frame, Plans, LoopCalls

\* A stack keeps its shape when the call that changes keeps its own.
LEMMA TurnsShape ==
  ASSUME NEW st \in Seq(Frames), NEW st2 \in Seq(Frames), NEW k \in Nat, NEW F, NEW G,
         NEW len \in Nat, NEW len2 \in Nat, len <= len2,
         StackOK(st, len), Turns(st, st2, k, F, G), FrameOK(G, k, len2)
  PROVE  StackOK(st2, len2)
<1>1. ASSUME NEW i \in DOMAIN st2 PROVE FrameOK(st2[i], i, len2)
  <2>1. CASE i = k /\ st2[i] = G
    BY <2>1
  <2>2. CASE i \in DOMAIN st /\ st2[i] = st[i]
    <3>1. FrameOK(st[i], i, len)
      BY <2>2 DEF StackOK
    <3>2. \A n \in 1 .. len : n \in 1 .. len2
      OBVIOUS
    <3>3. FrameOK(st[i], i, len2)
      BY <3>1, <3>2, Zenon DEF FrameOK
    <3> QED
      BY <2>2, <3>3
  <2>3. CASE st2[i] = Listener
    BY <2>3, ListenerOK
  <2> QED
    BY <2>1, <2>2, <2>3 DEF Turns
<1>2. Alternates(st2)
  <2> SUFFICES ASSUME NEW i \in DOMAIN st2, i > 1, st2[i].call # "listener"
               PROVE  st2[i - 1].call = "listener"
    BY DEF Alternates
  <2>1. DOMAIN st2 = 1..Len(st2) /\ Len(st2) \in Nat
    OBVIOUS
  <2>2. i \in Nat /\ i - 1 \in DOMAIN st2 /\ i <= k
    BY <2>1 DEF Turns
  <2>3. CASE i = k /\ st2[i] = G
    BY <2>3 DEF Turns
  <2>4. CASE i # k /\ i \in DOMAIN st /\ st2[i] = st[i]
    <3>1. st[i - 1].call = "listener"
      BY <2>4 DEF StackOK, Alternates
    <3>2. i - 1 # k
      BY <2>2
    <3> QED
      BY <2>2, <3>1, <3>2, ListenerIsFrame DEF Turns
  <2>5. CASE st2[i] = Listener
    BY <2>5, ListenerIsFrame
  <2> QED
    BY <2>3, <2>4, <2>5 DEF Turns
<1> QED
  BY <1>1, <1>2 DEF StackOK

\* What the calls of the new stack are, and what they have still to do.
LEMMA TurnsCalls ==
  ASSUME NEW st, NEW st2, NEW k, NEW F, NEW G, Turns(st, st2, k, F, G)
  PROVE  /\ \A call, s : call # "listener" /\ InCall(st2, call, s) =>
              InCall(st, call, s) \/ (G.call = call /\ G.n = s)
         /\ \A call, s, do : call # "listener" /\ Runs(st, call, s, do) =>
              Runs(st2, call, s, do) \/ (F.call = call /\ F.n = s /\ Has(F.todo, do))
         /\ G.call # "listener" =>
              /\ InCall(st2, G.call, G.n)
              /\ \A do : Has(G.todo, do) => Runs(st2, G.call, G.n, do)
         /\ F.call # "listener" => InCall(st, F.call, F.n)
<1>1. ASSUME NEW call, NEW s, call # "listener", InCall(st2, call, s)
      PROVE  InCall(st, call, s) \/ (G.call = call /\ G.n = s)
  <2>1. PICK i \in DOMAIN st2 : st2[i].call = call /\ st2[i].n = s
    BY <1>1 DEF InCall
  <2>2. st2[i] # Listener
    BY <1>1, <2>1, ListenerIsFrame
  <2>3. st2[i] = G \/ (i \in DOMAIN st /\ st2[i] = st[i])
    BY <2>2 DEF Turns
  <2> QED
    BY <2>1, <2>3 DEF InCall
<1>2. ASSUME NEW call, NEW s, NEW do, call # "listener", Runs(st, call, s, do)
      PROVE  Runs(st2, call, s, do) \/ (F.call = call /\ F.n = s /\ Has(F.todo, do))
  <2>1. PICK i \in DOMAIN st : st[i].call = call /\ st[i].n = s /\ Has(st[i].todo, do)
    BY <1>2 DEF Runs
  <2>2. st[i] = F \/ (i \in DOMAIN st2 /\ st2[i] = st[i])
    BY <1>2, <2>1 DEF Turns
  <2> QED
    BY <2>1, <2>2 DEF Runs
<1>3. ASSUME G.call # "listener"
      PROVE  /\ InCall(st2, G.call, G.n)
             /\ \A do : Has(G.todo, do) => Runs(st2, G.call, G.n, do)
  <2>1. k \in DOMAIN st2 /\ st2[k] = G
    BY <1>3 DEF Turns
  <2> QED
    BY <2>1 DEF InCall, Runs
<1>4. ASSUME F.call # "listener" PROVE InCall(st, F.call, F.n)
  BY <1>4 DEF InCall, Turns
<1> QED
  BY <1>1, <1>2, <1>3, <1>4

-----------------------------------------------------------------------------
(* The innermost call.                                                     *)

\* The innermost call, and the same call one step later.
LEMMA TopFacts ==
  ASSUME ShapeInv, stack # <<>>
  PROVE  /\ stack \in Seq(Frames) /\ Len(stack) \in Nat /\ Len(stack) \in DOMAIN stack
         /\ Top = stack[Len(stack)] /\ Top \in Frames
         /\ FrameOK(Top, Len(stack), Len(sockets)) /\ Alternates(stack)
<1>1. stack \in Seq(Frames)
  BY DEF ShapeInv, TlsType
<1>2. Len(stack) \in Nat /\ Len(stack) \in DOMAIN stack /\ stack[Len(stack)] \in Frames
  BY <1>1
<1> QED
  BY <1>1, <1>2 DEF ShapeInv, StackOK, Top

LEMMA RestFacts ==
  ASSUME ShapeInv, stack # <<>>, Top.todo # <<>>
  PROVE  /\ Rest \in Frames /\ Rest.call = Top.call /\ Rest.n = Top.n /\ Rest.err = Top.err
         /\ Rest.todo = Tail(Top.todo) /\ Top.call # "listener"
         /\ FrameOK(Rest, Len(stack), Len(sockets))
<1>1. PICK F : F = Top
  OBVIOUS
<1>2. PICK t : t = Tail(F.todo)
  OBVIOUS
<1>3. F \in Frames /\ FrameOK(F, Len(stack), Len(sockets))
  BY <1>1, TopFacts
<1>4. F.err \in BOOLEAN /\ F.todo \in Plans(F.call, F.err) /\ F.todo # <<>>
  BY <1>1, <1>3 DEF Frames, FrameOK
<1>5. t \in Plans(F.call, F.err)
  BY <1>2, <1>4, PlanTail
<1>6. t \in Seq(Kinds)
  BY <1>5, PlanTypes
<1>7. F.call \in {"start", "close"} \cup LoopCalls
  BY <1>4, PlanHead
<1>8. PICK G : G = [F EXCEPT !.todo = t]
  OBVIOUS
<1>9. G = Rest
  BY <1>1, <1>2, <1>8 DEF Rest
<1>10. G \in Frames /\ G.call = F.call /\ G.n = F.n /\ G.err = F.err /\ G.todo = t
  BY <1>3, <1>6, <1>8 DEF Frames
<1>11. FrameOK(G, Len(stack), Len(sockets))
  BY <1>3, <1>5, <1>10 DEF FrameOK
<1> QED
  BY <1>1, <1>2, <1>7, <1>9, <1>10, <1>11 DEF LoopCalls

\* Replacing the innermost call is a turn, with or without a new listener.
LEMMA WithTopTurns ==
  ASSUME ShapeInv, stack # <<>>, Top.call # "listener", NEW G \in Frames, G.call = Top.call
  PROVE  /\ WithTop(G) \in Seq(Frames)
         /\ Turns(stack, WithTop(G), Len(stack), Top, G)
         /\ Append(WithTop(G), Listener) \in Seq(Frames)
         /\ Turns(stack, Append(WithTop(G), Listener), Len(stack), Top, G)
<1>1. stack \in Seq(Frames) /\ Top = stack[Len(stack)] /\ Alternates(stack)
  BY TopFacts
<1>2. WithTop(G) = Replaced(stack, G)
  BY DEF WithTop, Below, Replaced
<1>3. stack[Len(stack)].call # "listener" /\ G.call = stack[Len(stack)].call
  BY <1>1
<1>4. /\ Replaced(stack, G) \in Seq(Frames)
      /\ Turns(stack, Replaced(stack, G), Len(stack), stack[Len(stack)], G)
  BY <1>1, <1>3, AdvanceTurns
<1>5. /\ Append(Replaced(stack, G), Listener) \in Seq(Frames)
      /\ Turns(stack, Append(Replaced(stack, G), Listener), Len(stack), stack[Len(stack)], G)
  BY <1>1, <1>3, AdvanceListenerTurns
<1> QED
  BY <1>1, <1>2, <1>4, <1>5

LEMMA RestTurns ==
  ASSUME ShapeInv, stack # <<>>, Top.todo # <<>>
  PROVE  /\ WithTop(Rest) \in Seq(Frames)
         /\ Turns(stack, WithTop(Rest), Len(stack), Top, Rest)
         /\ Append(WithTop(Rest), Listener) \in Seq(Frames)
         /\ Turns(stack, Append(WithTop(Rest), Listener), Len(stack), Top, Rest)
  BY RestFacts, WithTopTurns

LEMMA BelowTurns ==
  ASSUME ShapeInv, stack # <<>>
  PROVE  Below \in Seq(Frames) /\ Turns(stack, Below, Len(stack), Top, Listener)
  BY TopFacts, PopTurns DEF Below, Top

\* A listener that throws strikes the call it was called from, if there is one.
LEMMA ThrowFacts ==
  ASSUME ShapeInv, InListener
  PROVE  \/ Thrown(Below) = Below
         \/ /\ Below \in Seq(Frames) /\ Len(Below) \in DOMAIN Below
            /\ Below[Len(Below)] \in Frames /\ Below[Len(Below)].call # "listener"
            /\ Len(Below) \in Nat
            /\ FrameOK(Below[Len(Below)], Len(Below), Len(sockets))
            /\ Thrown(Below) \in Seq(Frames)
            /\ Struck(Below[Len(Below)]) \in Frames
            /\ FrameOK(Struck(Below[Len(Below)]), Len(Below), Len(sockets))
            /\ Turns(stack, Thrown(Below), Len(Below), Below[Len(Below)],
                     Struck(Below[Len(Below)]))
<1> SUFFICES ASSUME ~(Below = <<>> \/ Below[Len(Below)].call = "listener")
             PROVE  /\ Below \in Seq(Frames) /\ Len(Below) \in DOMAIN Below
                    /\ Below[Len(Below)] \in Frames /\ Below[Len(Below)].call # "listener"
                    /\ Len(Below) \in Nat
                    /\ FrameOK(Below[Len(Below)], Len(Below), Len(sockets))
                    /\ Thrown(Below) \in Seq(Frames)
                    /\ Struck(Below[Len(Below)]) \in Frames
                    /\ FrameOK(Struck(Below[Len(Below)]), Len(Below), Len(sockets))
                    /\ Turns(stack, Thrown(Below), Len(Below), Below[Len(Below)],
                             Struck(Below[Len(Below)]))
  BY DEF Thrown
<1>1. PICK b : b = Below
  OBVIOUS
<1>2. PICK m : m = Len(b)
  OBVIOUS
<1>3. PICK F : F = b[m]
  OBVIOUS
<1>4. /\ stack \in Seq(Frames) /\ stack # <<>> /\ Alternates(stack)
      /\ stack[Len(stack)].call = "listener" /\ b = SubSeq(stack, 1, Len(stack) - 1)
  BY <1>1, TopFacts DEF InListener, Below
<1>5. /\ Len(stack) \in Nat /\ Len(stack) >= 1 /\ DOMAIN stack = 1..Len(stack)
      /\ b \in Seq(Frames) /\ m = Len(stack) - 1 /\ DOMAIN b = 1..(Len(stack) - 1)
      /\ \A f \in 1..(Len(stack) - 1) : b[f] = stack[f]
  BY <1>2, <1>4, FrontFacts
<1>6. b # <<>> /\ F.call # "listener"
  BY <1>1, <1>2, <1>3
<1>7. m \in Nat /\ m >= 1 /\ m \in DOMAIN b /\ m \in DOMAIN stack
  <2>1. m # 0
    BY <1>2, <1>5, <1>6
  <2> QED
    BY <1>5, <2>1
<1>8. F \in Frames /\ F = stack[m]
  BY <1>3, <1>5, <1>7
<1>9. FrameOK(F, m, Len(sockets))
  BY <1>7, <1>8 DEF ShapeInv, StackOK
<1>10. Recovery(F) \in Plans(F.call, TRUE)
  <2>1. F.call \in Calls /\ F.err \in BOOLEAN /\ F.todo \in Plans(F.call, F.err)
    BY <1>8, <1>9 DEF Frames, FrameOK
  <2> QED
    BY <2>1, <1>6 DEF Plans, Recovery, Calls, LoopCalls
<1>11. Recovery(F) \in Seq(Kinds)
  BY <1>10, PlanTypes
<1>12. PICK G : G = Struck(F)
  OBVIOUS
<1>13. /\ G \in Frames /\ G.call = F.call /\ G.n = F.n /\ G.err = TRUE
       /\ G.todo = Recovery(F)
  BY <1>8, <1>11, <1>12 DEF Struck, Frames
<1>14. FrameOK(G, m, Len(sockets))
  BY <1>9, <1>10, <1>13 DEF FrameOK
<1>15. b[Len(b)].call # "listener" /\ Struck(b[Len(b)]) \in Frames
  BY <1>2, <1>3, <1>6, <1>12, <1>13
<1>16. /\ Thrown(b) \in Seq(Frames)
       /\ Turns(stack, Thrown(b), Len(b), b[Len(b)], Struck(b[Len(b)]))
  BY <1>4, <1>6, <1>15, ThrowTurns
<1> QED
  BY <1>1, <1>2, <1>3, <1>5, <1>6, <1>7, <1>8, <1>9, <1>12, <1>13, <1>14, <1>16

\* A call that ends has nobody below it but a listener.
LEMMA EndTurns ==
  ASSUME ShapeInv, CallEnds
  PROVE  stack' = Below
<1>1. stack # <<>> /\ Top.call # "listener"
  BY DEF CallEnds, InListener
<1>2. /\ stack \in Seq(Frames) /\ stack # <<>> /\ Alternates(stack)
      /\ stack[Len(stack)].call # "listener"
  BY <1>1, TopFacts
<1>3. PICK b : b = Below
  OBVIOUS
<1>4. PICK l : l = Len(stack)
  OBVIOUS
<1>5. /\ l \in Nat /\ l >= 1 /\ DOMAIN stack = 1..l
      /\ b \in Seq(Frames) /\ Len(b) = l - 1 /\ DOMAIN b = 1..(l - 1)
      /\ \A f \in 1..(l - 1) : b[f] = stack[f]
  BY <1>2, <1>3, <1>4, FrontFacts DEF Below
<1>6. CASE l = 1
  <2>1. b = <<>>
    BY <1>5, <1>6
  <2> QED
    BY <1>3, <2>1 DEF CallEnds, Thrown
<1>7. CASE l > 1
  <2>1. b[l - 1].call = "listener"
    BY <1>2, <1>4, <1>5, <1>7 DEF Alternates
  <2>2. b[Len(b)].call = "listener"
    BY <1>5, <2>1
  <2> QED
    BY <1>3, <2>2 DEF CallEnds, Thrown
<1> QED
  BY <1>5, <1>6, <1>7

-----------------------------------------------------------------------------
(* What a step must keep.                                                  *)

\* What a change of the stack from F to G must not do to socket s: begin a call
\* about it, or forget what a call has still to do to it.
Quiet(F, G, s, thr2) ==
    /\ G.call \in {"timeout", "events"} /\ G.n = s => F.call = G.call /\ F.n = s
    /\ F.call = "timeout" /\ F.n = s /\ Has(F.todo, "destroy") =>
         thr2 \/ (G.call = F.call /\ G.n = s /\ Has(G.todo, "destroy"))
    /\ F.call = "events" /\ F.n = s /\ Has(F.todo, "socketClose") =>
         thr2 \/ (G.call = F.call /\ G.n = s /\ Has(G.todo, "socketClose"))

SameSocket(S, S2) ==
    /\ S2.srv = S.srv /\ S2.phase = S.phase /\ S2.timed = S.timed
    /\ S2.timer = S.timer /\ S2.tracked = S.tracked /\ S2.owed = S.owed

\* Such a change keeps what is known of the socket.
LEMMA QuietSocket ==
  ASSUME NEW st, NEW st2, NEW k, NEW F, NEW G, Turns(st, st2, k, F, G),
         NEW S, NEW S2, NEW s, SameSocket(S, S2), NEW thr, NEW thr2, thr => thr2,
         NEW tcps, NEW tcps2, S.phase # "dead" => tcps2[S.srv] = "running",
         Quiet(F, G, s, thr2), SocketOK(S, s, st, thr, tcps)
  PROVE  SocketOK(S2, s, st2, thr2, tcps2)
<1>1. /\ InCall(st2, "events", s) => InCall(st, "events", s)
      /\ InCall(st2, "timeout", s) => InCall(st, "timeout", s)
  <2>1. ASSUME NEW call \in {"timeout", "events"}, InCall(st2, call, s)
        PROVE  InCall(st, call, s)
    <3>1. InCall(st, call, s) \/ (G.call = call /\ G.n = s)
      BY <2>1, TurnsCalls
    <3>2. CASE G.call = call /\ G.n = s
      <4>1. F.call = call /\ F.n = s /\ F.call # "listener"
        BY <3>2 DEF Quiet
      <4> QED
        BY <4>1, TurnsCalls
    <3> QED
      BY <3>1, <3>2
  <2> QED
    BY <2>1
<1>2. ASSUME NEW call \in {"timeout", "events"}, NEW do,
             <<call, do>> \in {<<"timeout", "destroy">>, <<"events", "socketClose">>},
             Runs(st, call, s, do)
      PROVE  thr2 \/ Runs(st2, call, s, do)
  <2>1. Runs(st2, call, s, do) \/ (F.call = call /\ F.n = s /\ Has(F.todo, do))
    BY <1>2, TurnsCalls
  <2>2. CASE F.call = call /\ F.n = s /\ Has(F.todo, do)
    <3>1. thr2 \/ (G.call = call /\ G.n = s /\ Has(G.todo, do))
      BY <1>2, <2>2 DEF Quiet
    <3>2. CASE G.call = call /\ G.n = s /\ Has(G.todo, do)
      <4>1. G.call # "listener"
        BY <3>2
      <4> QED
        BY <3>2, <4>1, TurnsCalls
    <3> QED
      BY <3>1, <3>2
  <2> QED
    BY <2>1, <2>2
<1>3. Runs(st, "timeout", s, "destroy") => thr2 \/ Runs(st2, "timeout", s, "destroy")
  BY <1>2
<1>4. Runs(st, "events", s, "socketClose") => thr2 \/ Runs(st2, "events", s, "socketClose")
  BY <1>2
<1> QED
  BY <1>1, <1>3, <1>4, Zenon DEF SocketOK, SameSocket

\* A socket destroyed now is fine whatever the stack holds.
LEMMA DeadSocket ==
  ASSUME NEW S2, S2.phase = "dead", S2.owed # "nothing" \/ ~S2.tracked,
         NEW s, NEW st2, NEW thr2, NEW tcps2
  PROVE  SocketOK(S2, s, st2, thr2, tcps2)
  BY DEF SocketOK

LEMMA SocketsAre ==
  ASSUME ShapeInv
  PROVE  /\ sockets \in Seq(Sock) /\ Len(sockets) \in Nat /\ Sockets = 1..Len(sockets)
         /\ \A s \in Sockets : sockets[s] \in Sock
  BY DEF ShapeInv, TlsType, Sockets

\* A step that keeps the types and the shape of the stack.
LEMMA ShapeKept ==
  ASSUME ShapeInv, NEW k \in Nat, NEW F, NEW G, stack' \in Seq(Frames),
         Turns(stack, stack', k, F, G), FrameOK(G, k, Len(sockets')),
         sockets' \in Seq(Sock), Len(sockets) <= Len(sockets'),
         tcpServer' \in 0 .. MaxStarts, closed' \in BOOLEAN,
         tcp' \in [Servers -> {"unborn", "running", "closed"}],
         calls' \in Nat, nested' \in BOOLEAN, threw' \in BOOLEAN, refused' \in BOOLEAN
  PROVE  ShapeInv'
<1>1. PICK st2 : st2 = stack'
  OBVIOUS
<1>2. PICK len2 : len2 = Len(sockets')
  OBVIOUS
<1>3. st2 \in Seq(Frames) /\ len2 \in Nat /\ Len(sockets) <= len2
  BY <1>1, <1>2
<1>4. stack \in Seq(Frames) /\ StackOK(stack, Len(sockets)) /\ Len(sockets) \in Nat
  BY SocketsAre DEF ShapeInv, TlsType
<1>5. Turns(stack, st2, k, F, G) /\ FrameOK(G, k, len2)
  BY <1>1, <1>2
<1>6. StackOK(st2, len2)
  BY <1>3, <1>4, <1>5, TurnsShape
<1>7. StackOK(stack, Len(sockets))'
  BY <1>1, <1>2, <1>6
<1>8. TlsType'
  BY DEF TlsType
<1> QED
  BY <1>7, <1>8 DEF ShapeInv

\* What a change of the stack from F to G must not do to the servers.
Harmless(F, G) ==
    /\ G.call = "start" => F.call = "start" /\ G.n = F.n /\ (Undone(G) => Undone(F))
    /\ G.call = "close" /\ Has(G.todo, "tcpClose") =>
         F.call = "close" /\ Has(F.todo, "tcpClose")

\* A failed start that has still to be undone stays so unless its call changes.
LEMMA UndoingStays ==
  ASSUME ShapeInv, NEW k, NEW F, NEW G, Turns(stack, stack', k, F, G), Undoing
  PROVE  Undoing' \/ Has(F.todo, "undo")
<1>1. PICK i \in DOMAIN stack : \E j \in DOMAIN stack[i].todo : stack[i].todo[j] = "undo"
  BY DEF Undoing
<1>2. stack[i].call # "listener"
  <2>1. FrameOK(stack[i], i, Len(sockets))
    BY DEF ShapeInv, StackOK
  <2>2. stack[i].call = "listener" => stack[i].todo = <<>>
    BY <2>1 DEF FrameOK, Plans
  <2> QED
    BY <1>1, <2>2, HasNone DEF Has
<1>3. (stack[i] = F) \/ (i \in DOMAIN stack' /\ stack'[i] = stack[i])
  BY <1>2 DEF Turns
<1> QED
  BY <1>1, <1>3 DEF Undoing, Has

LEMMA UndoingComes ==
  ASSUME NEW k, NEW F, NEW G, Turns(stack, stack', k, F, G), G.call # "listener",
         Has(G.todo, "undo")
  PROVE  Undoing'
  BY DEF Undoing, Has, Turns

\* The calls of the new stack are those of the old one, but for G.
LEMMA ServerFramesKept ==
  ASSUME NEW k, NEW F, NEW G, Turns(stack, stack', k, F, G), ~nested, ServersOK,
         G.call = "start" => F.call = "start",
         \A i \in DOMAIN stack : \A H :
           stack[i] = H /\ ServerFrameOK(H) => ServerFrameOK(H)',
         ServerFrameOK(G)', ServerFrameOK(Listener)'
  PROVE  /\ \A i \in DOMAIN stack' : ServerFrameOK(stack[i])'
         /\ \A i, j \in DOMAIN stack' :
              stack'[i].call = "start" /\ stack'[j].call = "start" => i = j
<1>1. ASSUME NEW i \in DOMAIN stack' PROVE ServerFrameOK(stack[i])'
  <2>1. PICK H : H = stack'[i]
    OBVIOUS
  <2>2. H = G \/ H = Listener \/ (i \in DOMAIN stack /\ stack[i] = H)
    BY <2>1 DEF Turns
  <2>3. i \in DOMAIN stack /\ stack[i] = H => ServerFrameOK(H)'
    BY DEF ServersOK
  <2>4. ServerFrameOK(H)'
    BY <2>2, <2>3
  <2> QED
    BY <2>1, <2>4 DEF ServerFrameOK, Undone
<1>2. ASSUME NEW i \in DOMAIN stack', stack'[i].call = "start"
      PROVE  i \in DOMAIN stack /\ stack[i].call = "start"
  <2>1. stack'[i] # Listener
    BY <1>2, ListenerIsFrame
  <2>2. CASE i = k /\ stack'[i] = G
    <3>1. F.call = "start"
      BY <1>2, <2>2
    <3> QED
      BY <2>2, <3>1 DEF Turns
  <2>3. CASE i \in DOMAIN stack /\ stack'[i] = stack[i]
    BY <1>2, <2>3
  <2> QED
    BY <2>1, <2>2, <2>3 DEF Turns
<1>3. \A i, j \in DOMAIN stack :
        stack[i].call = "start" /\ stack[j].call = "start" => i = j
  BY DEF ServersOK
<1> QED
  BY <1>1, <1>2, <1>3

LEMMA ListenerServes == ServerFrameOK(Listener)'
  BY ListenerIsFrame DEF ServerFrameOK

\* A step that leaves the servers alone.
LEMMA ServersKept ==
  ASSUME ShapeInv, ServersOK, NEW k, NEW F, NEW G, Turns(stack, stack', k, F, G),
         F = Listener \/ \E i \in DOMAIN stack : stack[i] = F,
         nested' = nested, tcpServer' = tcpServer, tcp' = tcp,
         \/ nested
         \/ closed' = closed /\ (Has(F.todo, "undo") =>
                                   G.call # "listener" /\ Has(G.todo, "undo"))
         \/ closed' = TRUE /\ G.call # "listener" /\ Has(G.todo, "undo"),
         Harmless(F, G)
  PROVE  ServersOK'
<1> SUFFICES ASSUME ~nested
             PROVE  /\ \A i \in DOMAIN stack' : ServerFrameOK(stack[i])'
                    /\ \A i, j \in DOMAIN stack' :
                         stack'[i].call = "start" /\ stack'[j].call = "start" => i = j
                    /\ \A n \in Servers : tcp'[n] = "running" => n = tcpServer'
                    /\ ~Undoing' => /\ closed' <=> tcpServer' = 0
                                    /\ tcpServer' # 0 => tcp'[tcpServer'] = "running"
  BY DEF ServersOK
<1>1. \A H : ServerFrameOK(H) => ServerFrameOK(H)'
  BY DEF ServerFrameOK, Undone
<1>2. ServerFrameOK(F)
  <2>1. ServerFrameOK(Listener)
    BY ListenerIsFrame DEF ServerFrameOK
  <2> QED
    BY <2>1 DEF ServersOK
<1>3. ServerFrameOK(G)'
  BY <1>2 DEF ServerFrameOK, Undone, Harmless
<1>4. /\ \A i \in DOMAIN stack' : ServerFrameOK(stack[i])'
      /\ \A i, j \in DOMAIN stack' :
           stack'[i].call = "start" /\ stack'[j].call = "start" => i = j
  BY <1>1, <1>3, ServerFramesKept, ListenerServes DEF Harmless
<1>5. \A n \in Servers : tcp'[n] = "running" => n = tcpServer'
  BY DEF ServersOK
<1>6. ~Undoing' => closed' = closed /\ ~Undoing
  BY UndoingStays, UndoingComes
<1> QED
  BY <1>4, <1>5, <1>6 DEF ServersOK

-----------------------------------------------------------------------------
(* Steps of the stack.                                                     *)

\* A step that changes neither sockets nor TCP servers.
LEMMA StackStep ==
  ASSUME IInv, NEW k \in Nat, NEW F, NEW G, stack' \in Seq(Frames),
         Turns(stack, stack', k, F, G), FrameOK(G, k, Len(sockets)),
         F = Listener \/ \E i \in DOMAIN stack : stack[i] = F,
         UNCHANGED <<tcpServer, tcp, sockets, nested, refused>>,
         calls' \in Nat, threw' \in BOOLEAN, threw => threw',
         \A s \in Sockets : Quiet(F, G, s, threw'),
         Harmless(F, G),
         closed' \in BOOLEAN,
         \/ nested
         \/ closed' = closed /\ (Has(F.todo, "undo") =>
                                   G.call # "listener" /\ Has(G.todo, "undo"))
         \/ closed' = TRUE /\ G.call # "listener" /\ Has(G.todo, "undo")
  PROVE  IInv'
<1>1. ShapeInv'
  <2>2. /\ sockets' \in Seq(Sock) /\ Len(sockets) <= Len(sockets')
        /\ FrameOK(G, k, Len(sockets')) /\ ShapeInv
        /\ tcpServer' \in 0 .. MaxStarts /\ nested' \in BOOLEAN /\ refused' \in BOOLEAN
        /\ tcp' \in [Servers -> {"unborn", "running", "closed"}]
    BY SocketsAre DEF IInv, ShapeInv, TlsType
  <2> QED
    BY <2>2, ShapeKept
<1>2. SocketsOK'
  <2> SUFFICES ASSUME NEW s \in Sockets
               PROVE  SocketOK(sockets[s], s, stack', threw', tcp)
    BY DEF SocketsOK, Sockets
  <2>1. SocketOK(sockets[s], s, stack, threw, tcp)
    BY DEF IInv, SocketsOK, Sockets
  <2>2. SameSocket(sockets[s], sockets[s])
    BY DEF SameSocket
  <2>3. sockets[s].phase # "dead" => tcp[sockets[s].srv] = "running"
    BY <2>1 DEF SocketOK
  <2> QED
    BY <2>1, <2>2, <2>3, QuietSocket
<1>3. ServersOK'
  BY ServersKept DEF IInv
<1> QED
  BY <1>1, <1>2, <1>3 DEF IInv

\* A step about one socket, and perhaps its call.
LEMMA SocketStep ==
  ASSUME IInv, NEW k \in Nat, NEW F, NEW G, stack' \in Seq(Frames),
         Turns(stack, stack', k, F, G), FrameOK(G, k, Len(sockets)),
         F = Listener \/ \E i \in DOMAIN stack : stack[i] = F,
         UNCHANGED <<tcpServer, closed, tcp, nested, threw, refused, calls>>,
         NEW s \in Sockets, NEW T \in Sock, sockets' = [sockets EXCEPT ![s] = T],
         SocketOK(T, s, stack', threw, tcp),
         \A r \in Sockets : r # s => Quiet(F, G, r, threw),
         Harmless(F, G),
         Has(F.todo, "undo") => G.call # "listener" /\ Has(G.todo, "undo")
  PROVE  IInv'
<1>1. /\ sockets' \in Seq(Sock) /\ Len(sockets') = Len(sockets)
      /\ DOMAIN sockets' = DOMAIN sockets
      /\ \A r \in DOMAIN sockets : sockets'[r] = IF r = s THEN T ELSE sockets[r]
  <2>1. sockets \in Seq(Sock) /\ s \in DOMAIN sockets
    BY SocketsAre DEF IInv, Sockets
  <2>2. /\ [sockets EXCEPT ![s] = T] \in Seq(Sock)
        /\ Len([sockets EXCEPT ![s] = T]) = Len(sockets)
        /\ DOMAIN [sockets EXCEPT ![s] = T] = DOMAIN sockets
        /\ \A f \in DOMAIN sockets :
             [sockets EXCEPT ![s] = T][f] = IF f = s THEN T ELSE sockets[f]
    BY <2>1, UpdateFacts
  <2> QED
    BY <2>2
<1>2. ShapeInv'
  <2>1. /\ Len(sockets) <= Len(sockets')
        /\ FrameOK(G, k, Len(sockets')) /\ ShapeInv
        /\ tcpServer' \in 0 .. MaxStarts /\ nested' \in BOOLEAN /\ refused' \in BOOLEAN
        /\ closed' \in BOOLEAN /\ calls' \in Nat /\ threw' \in BOOLEAN
        /\ tcp' \in [Servers -> {"unborn", "running", "closed"}]
    BY <1>1, SocketsAre DEF IInv, ShapeInv, TlsType
  <2> QED
    BY <1>1, <2>1, ShapeKept
<1>3. SocketsOK'
  <2> SUFFICES ASSUME NEW r \in Sockets
               PROVE  SocketOK(sockets'[r], r, stack', threw, tcp)
    BY <1>1 DEF SocketsOK, Sockets
  <2>1. CASE r = s
    BY <1>1, <2>1 DEF Sockets
  <2>2. CASE r # s
    <3>1. SocketOK(sockets[r], r, stack, threw, tcp)
      BY DEF IInv, SocketsOK, Sockets
    <3>2. SameSocket(sockets[r], sockets[r]) /\ Quiet(F, G, r, threw)
      BY <2>2 DEF SameSocket
    <3>3. sockets[r].phase # "dead" => tcp[sockets[r].srv] = "running"
      BY <3>1 DEF SocketOK
    <3>4. sockets'[r] = sockets[r]
      BY <1>1, <2>2 DEF Sockets
    <3>5. SocketOK(sockets[r], r, stack', threw, tcp)
      BY <3>1, <3>2, <3>3, QuietSocket
    <3> QED
      BY <3>4, <3>5
  <2> QED
    BY <2>1, <2>2
<1>4. ServersOK'
  BY ServersKept DEF IInv
<1> QED
  BY <1>2, <1>3, <1>4 DEF IInv

\* The server begins closed and with nothing in progress.
LEMMA InitIInv == Init => IInv
<1> SUFFICES ASSUME Init PROVE IInv
  OBVIOUS
<1>10. <<>> \in Seq(Frames)
  OBVIOUS
<1>11. <<>> \in Seq(Sock)
  OBVIOUS
<1>12. DOMAIN <<>> = {}
  OBVIOUS
<1>1. PICK e : e = <<>>
  OBVIOUS
<1>13. e \in Seq(Frames) /\ e \in Seq(Sock) /\ DOMAIN e = {}
  BY <1>10, <1>11, <1>12, <1>1
<1>2. stack = e /\ sockets = e
  BY <1>1 DEF Init
<1>3. TlsType
  <2>1. tcp \in [Servers -> {"unborn", "running", "closed"}]
    BY DEF Init
  <2>2. tcpServer \in 0 .. MaxStarts /\ calls \in Nat
    BY TlsAssumption DEF Init
  <2>3. closed \in BOOLEAN /\ nested \in BOOLEAN /\ threw \in BOOLEAN /\ refused \in BOOLEAN
    BY DEF Init
  <2> QED
    BY <1>13, <1>2, <2>1, <2>2, <2>3 DEF TlsType
<1>4. StackOK(stack, Len(sockets))
  BY <1>13, <1>2 DEF StackOK, Alternates
<1>5. SocketsOK
  BY <1>13, <1>2 DEF SocketsOK
<1>6. ServersOK
  BY <1>13, <1>2 DEF Init, ServersOK
<1> QED
  BY <1>3, <1>4, <1>5, <1>6 DEF IInv, ShapeInv

LEMMA SameStep == ASSUME IInv, UNCHANGED vars PROVE IInv'
<1>1. /\ tcpServer' = tcpServer /\ closed' = closed /\ tcp' = tcp /\ sockets' = sockets
      /\ stack' = stack /\ calls' = calls /\ nested' = nested /\ threw' = threw
      /\ refused' = refused
  BY DEF vars
<1>2. ShapeInv'
  BY <1>1 DEF IInv, ShapeInv, TlsType
<1>3. SocketsOK'
  BY <1>1 DEF IInv, SocketsOK
<1>4. Undoing' <=> Undoing
  BY <1>1 DEF Undoing
<1>5. \A F : ServerFrameOK(F)' <=> ServerFrameOK(F)
  BY <1>1 DEF ServerFrameOK
<1>6. ServersOK'
  <2> SUFFICES ASSUME ~nested
               PROVE  /\ \A i \in DOMAIN stack : ServerFrameOK(stack[i])'
                      /\ \A i, j \in DOMAIN stack :
                           stack[i].call = "start" /\ stack[j].call = "start" => i = j
                      /\ \A n \in Servers : tcp[n] = "running" => n = tcpServer
                      /\ ~Undoing => /\ closed <=> tcpServer = 0
                                     /\ tcpServer # 0 => tcp[tcpServer] = "running"
    BY <1>1, <1>4 DEF ServersOK
  <2>1. \A i \in DOMAIN stack : ServerFrameOK(stack[i])'
    BY <1>1 DEF IInv, ServersOK, ServerFrameOK
  <2> QED
    BY <2>1 DEF IInv, ServersOK
<1> QED
  BY <1>2, <1>3, <1>6 DEF IInv

\* A first frame: every event-loop call finds an empty stack.
LEMMA EmptyHas == ASSUME IInv, stack = <<>>, NEW G \in Frames
  PROVE  <<G>> \in Seq(Frames) /\ Turns(stack, <<G>>, 1, Listener, G)
<1>1. <<G>> \in Seq(Frames) /\ Turns(<<>>, <<G>>, 1, Listener, G)
  BY FirstTurns
<1> QED
  BY <1>1, Zenon

\* A listener is asked for nothing.
LEMMA ListenerTodo == ~Has(Listener.todo, "undo") /\ Listener.todo = <<>>
                      /\ Listener.call = "listener"
  BY HasNone DEF Listener, Frame

LEMMA TaskStep == ASSUME IInv, Task PROVE IInv'
<1>1. stack' \in Seq(Frames) /\ Turns(stack, stack', 1, Listener, Listener)
  BY EmptyHas, ListenerIsFrame DEF Task
<1>2. FrameOK(Listener, 1, Len(sockets))
  BY ListenerOK
<1>3. \A s \in Sockets : Quiet(Listener, Listener, s, threw')
  BY ListenerTodo DEF Quiet
<1>4. Harmless(Listener, Listener)
  BY ListenerTodo DEF Harmless
<1>5. /\ UNCHANGED <<tcpServer, tcp, sockets, nested, refused>>
      /\ calls' \in Nat /\ threw' \in BOOLEAN /\ (threw => threw')
      /\ closed' = closed /\ closed' \in BOOLEAN
  BY DEF Task, IInv, ShapeInv, TlsType
<1> QED
  BY <1>1, <1>2, <1>3, <1>4, <1>5, ListenerTodo, StackStep

\* A call that takes its next step.
LEMMA RestKeeps ==
  ASSUME IInv, stack # <<>>, Top.todo # <<>>
  PROVE  /\ Head(Top.todo) \notin {"destroy", "socketClose"} =>
              \A s, thr : Quiet(Top, Rest, s, thr)
         /\ Head(Top.todo) \in {"destroy", "socketClose"} =>
              \A s, thr : s # Top.n => Quiet(Top, Rest, s, thr)
         /\ Head(Top.todo) # "undoTcp" => Harmless(Top, Rest)
         /\ Has(Top.todo, "undo") /\ Head(Top.todo) # "undo" =>
              Rest.call # "listener" /\ Has(Rest.todo, "undo")
<1>1. PICK F : F = Top
  OBVIOUS
<1>2. PICK G : G = Rest
  OBVIOUS
<1>3. PICK t : t = F.todo
  OBVIOUS
<1>4. PICK u : u = Tail(t)
  OBVIOUS
<1>5. F \in Frames /\ F.err \in BOOLEAN /\ t \in Plans(F.call, F.err) /\ t # <<>>
  BY <1>1, <1>3, TopFacts DEF IInv, FrameOK, Frames
<1>6. /\ G.call = F.call /\ G.n = F.n /\ G.err = F.err /\ G.todo = u
      /\ F.call # "listener"
  BY <1>1, <1>2, <1>3, <1>4, RestFacts DEF IInv
<1>7. F.call \in {"start", "close"} \cup LoopCalls
  BY <1>5, PlanHead
<1>8. ASSUME F.call = "timeout", Has(t, "destroy"), Head(t) # "destroy" PROVE Has(u, "destroy")
  <2>1. t = <<"tlsClientError", "destroy">>
    BY <1>5, <1>8, HasNone, OneFacts DEF Plans
  <2> QED
    BY <1>4, <2>1, TwoFacts, HasOne
<1>9. ASSUME F.call = "events", Has(t, "socketClose"), Head(t) # "socketClose"
      PROVE  Has(u, "socketClose")
  <2>1. t = <<"socketError", "socketClose">>
    BY <1>5, <1>9, HasNone, OneFacts DEF Plans
  <2> QED
    BY <1>4, <2>1, TwoFacts, HasOne
<1>10. ASSUME NEW s, NEW thr, s # F.n \/ Head(t) \notin {"destroy", "socketClose"}
       PROVE  Quiet(F, G, s, thr)
  BY <1>3, <1>6, <1>8, <1>9, <1>10 DEF Quiet
<1>11. ASSUME F.call = "start", Undone(G), Head(t) # "undoTcp" PROVE Undone(F)
  <2>1. t # <<"undoTcp", "undo">>
    BY <1>11, TwoFacts
  <2> QED
    BY <1>3, <1>6, <1>11, <2>1 DEF Undone
<1>12. ASSUME F.call = "close", Has(u, "tcpClose") PROVE Has(t, "tcpClose")
  <2>1. \/ t = <<"callback", "tcpClose">> \/ t = <<"callback">> \/ t = <<"tcpClose">>
    BY <1>5, <1>12 DEF Plans
  <2>2. t # <<"callback">>
    BY <1>4, <1>12, OneFacts, HasNone
  <2>3. Has(<<"callback", "tcpClose">>, "tcpClose") /\ Has(<<"tcpClose">>, "tcpClose")
    BY HasOne, HasTwo
  <2> QED
    BY <2>1, <2>2, <2>3
<1>13. Head(t) # "undoTcp" => Harmless(F, G)
  BY <1>3, <1>6, <1>11, <1>12 DEF Harmless
<1>14. ASSUME Has(t, "undo"), Head(t) # "undo" PROVE Has(u, "undo")
  <2>1. F.call = "start" /\ F.err
    BY <1>5, <1>14, OnlyStartsUndo
  <2>2. t = <<"undoTcp", "undo">> \/ t = <<"tcpClose", "undo">>
    BY <1>5, <1>14, <2>1, HasNone, OneFacts DEF Plans
  <2>3. u = <<"undo">>
    BY <1>4, <2>2, TwoFacts
  <2> QED
    BY <2>3, HasOne
<1>15. /\ Head(F.todo) \notin {"destroy", "socketClose"} => \A s, thr : Quiet(F, G, s, thr)
       /\ Head(F.todo) \in {"destroy", "socketClose"} =>
            \A s, thr : s # F.n => Quiet(F, G, s, thr)
       /\ Head(F.todo) # "undoTcp" => Harmless(F, G)
       /\ Has(F.todo, "undo") /\ Head(F.todo) # "undo" =>
            G.call # "listener" /\ Has(G.todo, "undo")
  BY <1>3, <1>6, <1>10, <1>13, <1>14
<1> QED
  BY <1>1, <1>2, <1>15, Zenon

\* The call that takes a step, and its plan.
LEMMA AboutFacts ==
  ASSUME IInv, NEW do, About(do)
  PROVE  /\ stack # <<>> /\ Top.todo # <<>> /\ Head(Top.todo) = do
         /\ Top \in Frames /\ Top.err \in BOOLEAN
         /\ Top.todo \in Plans(Top.call, Top.err)
         /\ FrameOK(Top, Len(stack), Len(sockets)) /\ Len(stack) \in Nat
         /\ \E i \in DOMAIN stack : stack[i] = Top
<1>1. stack # <<>> /\ Top.todo # <<>> /\ Head(Top.todo) = do /\ ShapeInv
  BY DEF About, IInv
<1>2. PICK F : F = Top
  OBVIOUS
<1>3. /\ F \in Frames /\ FrameOK(F, Len(stack), Len(sockets)) /\ Len(stack) \in Nat
      /\ Len(stack) \in DOMAIN stack /\ stack[Len(stack)] = F
  BY <1>1, <1>2, TopFacts
<1>4. F.err \in BOOLEAN /\ F.todo \in Plans(F.call, F.err)
  BY <1>3 DEF Frames, FrameOK
<1> QED
  BY <1>1, <1>2, <1>3, <1>4

LEMMA EmitStep == ASSUME IInv, Emit PROVE IInv'
<1>1. PICK do \in {"callback", "listening", "secureConnection"} : About(do)
  BY DEF Emit
<1>2. /\ stack # <<>> /\ Top.todo # <<>> /\ Head(Top.todo) = do /\ Len(stack) \in Nat
      /\ \E i \in DOMAIN stack : stack[i] = Top
  BY <1>1, AboutFacts
<1>3. stack' \in Seq(Frames) /\ Turns(stack, stack', Len(stack), Top, Rest)
  BY <1>2, RestTurns DEF IInv, Emit
<1>4. FrameOK(Rest, Len(stack), Len(sockets))
  BY <1>2, RestFacts DEF IInv
<1>5. /\ \A s \in Sockets : Quiet(Top, Rest, s, threw')
      /\ Harmless(Top, Rest)
      /\ Has(Top.todo, "undo") => Rest.call # "listener" /\ Has(Rest.todo, "undo")
  BY <1>1, <1>2, RestKeeps
<1>6. /\ UNCHANGED <<tcpServer, tcp, sockets, nested, refused>>
      /\ calls' \in Nat /\ threw' \in BOOLEAN /\ (threw => threw')
      /\ closed' = closed /\ closed' \in BOOLEAN
  BY DEF Emit, IInv, ShapeInv, TlsType
<1> QED
  BY <1>2, <1>3, <1>4, <1>5, <1>6, StackStep

-----------------------------------------------------------------------------
(* Steps that end a call or strike it.                                     *)

\* The TCP server's 'close' reaches the TLS server.
LEMMA TcpCloseStep == ASSUME IInv, TcpClose PROVE IInv'
<1>1. /\ stack # <<>> /\ Top.todo # <<>> /\ Head(Top.todo) = "tcpClose"
      /\ Len(stack) \in Nat /\ Top.err \in BOOLEAN
      /\ Top.todo \in Plans(Top.call, Top.err)
      /\ \E i \in DOMAIN stack : stack[i] = Top
  BY AboutFacts DEF TcpClose
<1>2. stack' \in Seq(Frames) /\ Turns(stack, stack', Len(stack), Top, Rest)
  BY <1>1, RestTurns DEF IInv, TcpClose
<1>3. FrameOK(Rest, Len(stack), Len(sockets)) /\ Rest.todo = Tail(Top.todo)
      /\ Rest.call = Top.call
  BY <1>1, RestFacts DEF IInv
<1>4. /\ \A s \in Sockets : Quiet(Top, Rest, s, threw')
      /\ Harmless(Top, Rest)
      /\ Has(Top.todo, "undo") => Rest.call # "listener" /\ Has(Rest.todo, "undo")
  BY <1>1, RestKeeps
<1>5. /\ UNCHANGED <<tcpServer, tcp, sockets, nested, refused>>
      /\ calls' \in Nat /\ threw' \in BOOLEAN /\ (threw => threw')
      /\ closed' = TRUE
  BY DEF TcpClose, IInv, ShapeInv, TlsType
<1>6. \/ Top.call = "close" /\ Top.todo = <<"tcpClose">>
      \/ Top.call = "start" /\ Top.todo = <<"tcpClose", "undo">>
  BY <1>1, PlanHead
<1>7. CASE Top.call = "start" /\ Top.todo = <<"tcpClose", "undo">>
  <2>1. Rest.call # "listener" /\ Has(Rest.todo, "undo")
    BY <1>3, <1>7, TwoFacts, HasOne
  <2> QED
    BY <1>1, <1>2, <1>3, <1>4, <1>5, <2>1, StackStep
<1>8. CASE Top.call = "close" /\ Top.todo = <<"tcpClose">> /\ ~nested
  <2>1. ServerFrameOK(Top)
    BY <1>1, <1>8 DEF IInv, ServersOK
  <2>2. Has(Top.todo, "tcpClose")
    BY <1>8, HasOne
  <2>3. closed' = closed
    BY <1>5, <1>8, <2>1, <2>2 DEF ServerFrameOK, IInv, ShapeInv, TlsType
  <2> QED
    BY <1>1, <1>2, <1>3, <1>4, <1>5, <2>3, StackStep
<1>9. CASE nested
  BY <1>1, <1>2, <1>3, <1>4, <1>5, <1>9, StackStep
<1> QED
  BY <1>6, <1>7, <1>8, <1>9

\* Calls that end, and listeners that return or throw.
LEMMA PopStep ==
  ASSUME IInv, stack # <<>>, Top.todo = <<>>, stack' = Below,
         UNCHANGED <<tcpServer, closed, tcp, sockets, nested, refused, calls>>,
         threw' \in BOOLEAN, threw => threw'
  PROVE  IInv'
<1>1. /\ stack' \in Seq(Frames) /\ Turns(stack, stack', Len(stack), Top, Listener)
      /\ Len(stack) \in Nat /\ \E i \in DOMAIN stack : stack[i] = Top
  <2>1. Len(stack) \in Nat /\ Len(stack) \in DOMAIN stack /\ stack[Len(stack)] = Top
    BY TopFacts DEF IInv
  <2> QED
    BY <2>1, BelowTurns DEF IInv
<1>2. FrameOK(Listener, Len(stack), Len(sockets))
  BY ListenerOK
<1>3. \A s \in Sockets : Quiet(Top, Listener, s, threw')
  BY ListenerTodo, HasNone DEF Quiet
<1>4. Harmless(Top, Listener) /\ ~Has(Top.todo, "undo")
  BY ListenerTodo, HasNone DEF Harmless
<1>5. calls' \in Nat /\ closed' \in BOOLEAN
  BY DEF IInv, ShapeInv, TlsType
<1> QED
  BY <1>1, <1>2, <1>3, <1>4, <1>5, StackStep

LEMMA ListenerTopTodo == ASSUME IInv, InListener PROVE stack # <<>> /\ Top.todo = <<>>
<1>1. stack # <<>> /\ Top.call = "listener" /\ FrameOK(Top, Len(stack), Len(sockets))
  BY TopFacts DEF IInv, InListener
<1> QED
  BY <1>1 DEF FrameOK, Plans

LEMMA ReturnStep == ASSUME IInv, ListenerReturns \/ CallEnds PROVE IInv'
<1>1. CASE ListenerReturns
  <2>1. stack # <<>> /\ Top.todo = <<>>
    BY <1>1, ListenerTopTodo DEF ListenerReturns
  <2>2. /\ UNCHANGED <<tcpServer, closed, tcp, sockets, nested, refused, calls>>
        /\ threw' \in BOOLEAN /\ (threw => threw') /\ stack' = Below
    BY <1>1 DEF ListenerReturns, IInv, ShapeInv, TlsType
  <2> QED
    BY <2>1, <2>2, PopStep
<1>2. CASE CallEnds
  <2>1. stack # <<>> /\ Top.todo = <<>>
    BY <1>2 DEF CallEnds
  <2>2. /\ UNCHANGED <<tcpServer, closed, tcp, sockets, nested, refused, calls>>
        /\ threw' \in BOOLEAN /\ (threw => threw') /\ stack' = Below
    BY <1>2, EndTurns DEF CallEnds, IInv, ShapeInv, TlsType
  <2> QED
    BY <2>1, <2>2, PopStep
<1> QED
  BY <1>1, <1>2

LEMMA ThrowStep == ASSUME IInv, ListenerThrows PROVE IInv'
<1>1. /\ UNCHANGED <<tcpServer, closed, tcp, sockets, nested, refused, calls>>
      /\ threw' = (threw \/ \E i \in DOMAIN Below : Below[i].call \in {"timeout", "events"})
      /\ InListener /\ stack' = Thrown(Below)
  BY DEF ListenerThrows
<1>2. threw' \in BOOLEAN /\ (threw => threw') /\ calls' \in Nat /\ closed' \in BOOLEAN
  BY <1>1 DEF IInv, ShapeInv, TlsType
<1>3. CASE Thrown(Below) = Below
  <2>1. stack # <<>> /\ Top.todo = <<>>
    BY <1>1, ListenerTopTodo
  <2> QED
    BY <1>1, <1>2, <1>3, <2>1, PopStep
<1>4. CASE Thrown(Below) # Below
  <2>1. PICK b : b = Below
    OBVIOUS
  <2>2. PICK m : m = Len(b)
    OBVIOUS
  <2>3. PICK F : F = b[m]
    OBVIOUS
  <2>4. PICK G : G = Struck(F)
    OBVIOUS
  <2>5. /\ m \in Nat /\ m \in DOMAIN b /\ F \in Frames /\ F.call # "listener"
        /\ FrameOK(F, m, Len(sockets)) /\ Thrown(b) \in Seq(Frames)
        /\ G \in Frames /\ FrameOK(G, m, Len(sockets))
        /\ Turns(stack, Thrown(b), m, F, G)
    BY <1>1, <1>4, <2>1, <2>2, <2>3, <2>4, ThrowFacts DEF IInv
  <2>6. stack' \in Seq(Frames) /\ Turns(stack, stack', m, F, G)
    BY <1>1, <2>1, <2>5
  <2>7. \E i \in DOMAIN stack : stack[i] = F
    BY <2>5 DEF Turns
  <2>8. G.call = F.call /\ G.n = F.n /\ G.err = TRUE /\ G.todo = Recovery(F)
    BY <2>4, <2>5 DEF Struck, Frames
  <2>9. F.call \in {"timeout", "events"} => threw'
    BY <1>1, <2>1, <2>3, <2>5
  <2>10. \A s \in Sockets : Quiet(F, G, s, threw')
    BY <2>8, <2>9 DEF Quiet
  <2>11. F.err \in BOOLEAN /\ F.todo \in Plans(F.call, F.err)
    BY <2>5 DEF Frames, FrameOK
  <2>12. ASSUME F.call = "start", Undone(G) PROVE Undone(F)
    <3>1. CASE F.err
      BY <2>8, <2>12, <3>1 DEF Undone, Recovery
    <3>2. CASE ~F.err
      BY <2>8, <2>12, <3>2 DEF Undone, Recovery
    <3> QED
      BY <3>1, <3>2
  <2>13. F.call = "close" => G.todo = F.todo
    BY <2>8 DEF Recovery
  <2>14. Harmless(F, G)
    BY <2>8, <2>12, <2>13 DEF Harmless
  <2>15. Has(F.todo, "undo") => G.call # "listener" /\ Has(G.todo, "undo")
    <3> SUFFICES ASSUME Has(F.todo, "undo") PROVE Has(G.todo, "undo")
      BY <2>5, <2>8
    <3>1. F.call = "start" /\ F.err
      BY <2>11, OnlyStartsUndo
    <3>2. G.todo = F.todo
      BY <2>8, <3>1 DEF Recovery
    <3> QED
      BY <3>2
  <2> QED
    BY <1>1, <1>2, <2>5, <2>6, <2>7, <2>10, <2>14, <2>15, StackStep
<1> QED
  BY <1>3, <1>4

-----------------------------------------------------------------------------
(* Steps of one socket.                                                    *)

\* What the invariant says of one socket.
LEMMA SockFacts ==
  ASSUME IInv, NEW s \in Sockets
  PROVE  sockets[s] \in Sock /\ SocketOK(sockets[s], s, stack, threw, tcp)
  BY SocketsAre DEF IInv, SocketsOK, Sockets

\* The call at the top is about a socket: it is the bottom of the stack.
LEMMA LoopTop ==
  ASSUME IInv, stack # <<>>, Top.call \in LoopCalls
  PROVE  Len(stack) = 1 /\ Top.n \in Sockets
  BY TopFacts, SocketsAre DEF IInv, FrameOK

LEMMA ReportErrorStep == ASSUME IInv, ReportError PROVE IInv'
<1>1. PICK do \in {"tlsClientError", "socketError"} : About(do)
  BY DEF ReportError
<1>2. /\ stack # <<>> /\ Top.todo # <<>> /\ Head(Top.todo) = do /\ Len(stack) \in Nat
      /\ Top.err \in BOOLEAN /\ Top.todo \in Plans(Top.call, Top.err)
      /\ \E i \in DOMAIN stack : stack[i] = Top
  BY <1>1, AboutFacts
<1>3. stack' \in Seq(Frames) /\ Turns(stack, stack', Len(stack), Top, Rest)
  BY <1>2, RestTurns DEF IInv, ReportError
<1>4. FrameOK(Rest, Len(stack), Len(sockets))
  BY <1>2, RestFacts DEF IInv
<1>5. /\ \A s : Quiet(Top, Rest, s, threw)
      /\ Harmless(Top, Rest)
      /\ Has(Top.todo, "undo") => Rest.call # "listener" /\ Has(Rest.todo, "undo")
  BY <1>1, <1>2, RestKeeps
<1>6. UNCHANGED <<tcpServer, closed, tcp, nested, threw, refused, calls>>
  BY DEF ReportError
<1>7. Top.call \in LoopCalls
  BY <1>1, <1>2, PlanHead DEF LoopCalls
<1>8. PICK s : s = Top.n
  OBVIOUS
<1>9. s \in Sockets
  BY <1>2, <1>7, <1>8, LoopTop
<1>10. sockets[s] \in Sock /\ SocketOK(sockets[s], s, stack, threw, tcp)
  BY <1>9, SockFacts
<1>11. PICK T : T = [sockets[s] EXCEPT !.errors = @ + 1]
  OBVIOUS
<1>12. T \in Sock /\ SameSocket(sockets[s], T)
  BY <1>10, <1>11 DEF Sock, SameSocket
<1>13. sockets' = [sockets EXCEPT ![s] = T]
  BY <1>8, <1>11 DEF ReportError
<1>14. sockets[s].phase # "dead" => tcp[sockets[s].srv] = "running"
  BY <1>10 DEF SocketOK
<1>15. SocketOK(T, s, stack', threw, tcp)
  BY <1>3, <1>5, <1>10, <1>12, <1>14, QuietSocket
<1>16. \A r \in Sockets : r # s => Quiet(Top, Rest, r, threw)
  BY <1>5
<1> QED
  BY <1>2, <1>3, <1>4, <1>5, <1>6, <1>9, <1>12, <1>13, <1>15, <1>16, SocketStep

LEMMA DestroySocketStep == ASSUME IInv, DestroySocket PROVE IInv'
<1>1. /\ stack # <<>> /\ Top.todo # <<>> /\ Head(Top.todo) = "destroy" /\ Len(stack) \in Nat
      /\ Top.err \in BOOLEAN /\ Top.todo \in Plans(Top.call, Top.err)
      /\ \E i \in DOMAIN stack : stack[i] = Top
  BY AboutFacts DEF DestroySocket
<1>2. stack' \in Seq(Frames) /\ Turns(stack, stack', Len(stack), Top, Rest)
  BY <1>1, RestTurns DEF IInv, DestroySocket
<1>3. FrameOK(Rest, Len(stack), Len(sockets)) /\ Rest.call = Top.call /\ Rest.n = Top.n
  BY <1>1, RestFacts DEF IInv
<1>4. /\ \A r \in Sockets : r # Top.n => Quiet(Top, Rest, r, threw)
      /\ Harmless(Top, Rest)
      /\ Has(Top.todo, "undo") => Rest.call # "listener" /\ Has(Rest.todo, "undo")
  BY <1>1, RestKeeps
<1>5. UNCHANGED <<tcpServer, closed, tcp, nested, threw, refused, calls>>
  BY DEF DestroySocket
<1>6. Top.call \in {"secure", "timeout"}
  BY <1>1, PlanHead
<1>7. PICK s : s = Top.n
  OBVIOUS
<1>8. s \in Sockets
  BY <1>1, <1>6, <1>7, LoopTop DEF LoopCalls
<1>9. PICK S : S = sockets[s]
  OBVIOUS
<1>10. S \in Sock /\ SocketOK(S, s, stack, threw, tcp)
  BY <1>8, <1>9, SockFacts
<1>11. PICK T : T = Destroyed(S, "error")
  OBVIOUS
<1>12. sockets' = [sockets EXCEPT ![s] = T]
  BY <1>7, <1>9, <1>11 DEF DestroySocket
<1>13. CASE S.phase = "dead"
  <2>1. T \in Sock /\ SameSocket(S, T)
    BY <1>10, <1>11, <1>13 DEF Destroyed, SameSocket
  <2>2. SocketOK(T, s, stack', threw, tcp)
    <3>1. ~Has(Top.todo, "socketClose") \/ Top.call # "events"
      BY <1>6
    <3>2. /\ InCall(stack', "events", s) => InCall(stack, "events", s)
          /\ Runs(stack, "events", s, "socketClose") => Runs(stack', "events", s, "socketClose")
      BY <1>2, <1>3, <1>6, TurnsCalls
    <3> QED
      BY <1>10, <1>13, <2>1, <3>2 DEF SocketOK, SameSocket
  <2> QED
    BY <1>1, <1>2, <1>3, <1>4, <1>5, <1>7, <1>8, <1>12, <2>1, <2>2, SocketStep
<1>14. CASE S.phase # "dead"
  <2>1. T = [S EXCEPT !.phase = "dead", !.owed = "error"]
    BY <1>11, <1>14 DEF Destroyed
  <2>2. T \in Sock /\ T.phase = "dead" /\ T.owed # "nothing"
    BY <1>10, <2>1 DEF Sock
  <2>3. SocketOK(T, s, stack', threw, tcp)
    BY <2>2, DeadSocket
  <2> QED
    BY <1>1, <1>2, <1>3, <1>4, <1>5, <1>7, <1>8, <1>12, <2>2, <2>3, SocketStep
<1> QED
  BY <1>13, <1>14

LEMMA SocketCloseStep == ASSUME IInv, SocketClose PROVE IInv'
<1>1. /\ stack # <<>> /\ Top.todo # <<>> /\ Head(Top.todo) = "socketClose"
      /\ Len(stack) \in Nat
      /\ Top.err \in BOOLEAN /\ Top.todo \in Plans(Top.call, Top.err)
      /\ \E i \in DOMAIN stack : stack[i] = Top
  BY AboutFacts DEF SocketClose
<1>2. stack' \in Seq(Frames) /\ Turns(stack, stack', Len(stack), Top, Rest)
  BY <1>1, RestTurns DEF IInv, SocketClose
<1>3. FrameOK(Rest, Len(stack), Len(sockets))
  BY <1>1, RestFacts DEF IInv
<1>4. /\ \A r \in Sockets : r # Top.n => Quiet(Top, Rest, r, threw)
      /\ Harmless(Top, Rest)
      /\ Has(Top.todo, "undo") => Rest.call # "listener" /\ Has(Rest.todo, "undo")
  BY <1>1, RestKeeps
<1>5. UNCHANGED <<tcpServer, closed, tcp, nested, threw, refused, calls>>
  BY DEF SocketClose
<1>6. Top.call = "events"
  BY <1>1, PlanHead
<1>7. PICK s : s = Top.n
  OBVIOUS
<1>8. s \in Sockets
  BY <1>1, <1>6, <1>7, LoopTop DEF LoopCalls
<1>9. PICK S : S = sockets[s]
  OBVIOUS
<1>10. S \in Sock /\ SocketOK(S, s, stack, threw, tcp)
  BY <1>8, <1>9, SockFacts
<1>11. InCall(stack, "events", s)
  BY <1>1, <1>6, <1>7 DEF InCall
<1>12. S.phase = "dead"
  BY <1>10, <1>11 DEF SocketOK
<1>13. PICK T : T = [S EXCEPT !.timer = FALSE, !.tracked = FALSE]
  OBVIOUS
<1>14. sockets' = [sockets EXCEPT ![s] = T]
  BY <1>7, <1>9, <1>13 DEF SocketClose
<1>15. T \in Sock /\ T.phase = "dead" /\ ~T.tracked
  BY <1>10, <1>12, <1>13 DEF Sock
<1>16. SocketOK(T, s, stack', threw, tcp)
  BY <1>15, DeadSocket
<1> QED
  BY <1>1, <1>2, <1>3, <1>4, <1>5, <1>7, <1>8, <1>14, <1>15, <1>16, SocketStep

\* A call of the event loop about a socket.
LoopCall(call, s, todo) == Frame(call, s, todo, FALSE)
LoopPlans(call) == Plans(call, FALSE)

\* The calls of the event loop begin as they should.
LEMMA LoopFrame ==
  ASSUME NEW call \in LoopCalls, NEW s \in Sockets, ShapeInv, NEW todo \in LoopPlans(call),
         NEW G, G = LoopCall(call, s, todo)
  PROVE  /\ G \in Frames /\ FrameOK(G, 1, Len(sockets))
         /\ G.call = call /\ G.n = s /\ G.todo = todo
<1>1. todo \in Seq(Kinds)
  BY PlanTypes DEF LoopPlans
<1>2. s \in Nat /\ s \in 1..Len(sockets)
  BY SocketsAre
<1>3. /\ G \in Frames /\ G.err = FALSE
      /\ G.call = call /\ G.n = s /\ G.todo = todo
  BY <1>1, <1>2 DEF LoopCall, Frame, Frames, Calls
<1>4. FrameOK(G, 1, Len(sockets))
  BY <1>2, <1>3 DEF FrameOK, LoopPlans, LoopCalls
<1> QED
  BY <1>3, <1>4

LEMMA LoopStep ==
  ASSUME IInv, stack = <<>>, NEW G \in Frames, G.call \in LoopCalls, G.n \in Sockets,
         FrameOK(G, 1, Len(sockets)), stack' = <<G>>
  PROVE  /\ stack' \in Seq(Frames) /\ Turns(stack, stack', 1, Listener, G)
         /\ \A r \in Sockets : r # G.n => Quiet(Listener, G, r, threw)
         /\ Harmless(Listener, G) /\ ~Has(Listener.todo, "undo")
         /\ \A call, r : ~InCall(stack, call, r)
         /\ \A call, r : call # "listener" /\ InCall(stack', call, r) => call = G.call /\ r = G.n
<1>1. stack' \in Seq(Frames) /\ Turns(stack, stack', 1, Listener, G)
  BY EmptyHas
<1>2. \A r \in Sockets : r # G.n => Quiet(Listener, G, r, threw)
  BY ListenerTodo DEF Quiet
<1>3. Harmless(Listener, G) /\ ~Has(Listener.todo, "undo")
  BY ListenerTodo DEF Harmless, LoopCalls
<1>4. \A call, r : ~InCall(stack, call, r)
  BY DEF InCall
<1>5. \A call, r : call # "listener" /\ InCall(stack', call, r) => call = G.call /\ r = G.n
  BY <1>1, <1>4, TurnsCalls
<1> QED
  BY <1>1, <1>2, <1>3, <1>4, <1>5

LEMMA SecureStep == ASSUME IInv, NEW s \in Sockets, Secure(s) PROVE IInv'
<1>1. PICK G : G = LoopCall("secure", s, <<"secureConnection">>)
  OBVIOUS
<1>2. G \in Frames /\ FrameOK(G, 1, Len(sockets)) /\ G.call = "secure" /\ G.n = s
  <2>1. <<"secureConnection">> \in LoopPlans("secure") /\ "secure" \in LoopCalls
    BY DEF LoopPlans, Plans, LoopCalls
  <2>2. ShapeInv
    BY DEF IInv
  <2> QED
    BY <1>1, <2>1, <2>2, LoopFrame
<1>3. stack = <<>> /\ stack' = <<G>>
  BY <1>1 DEF Secure, LoopCall
<1>4. /\ stack' \in Seq(Frames) /\ Turns(stack, stack', 1, Listener, G)
      /\ \A r \in Sockets : r # s => Quiet(Listener, G, r, threw)
      /\ Harmless(Listener, G) /\ ~Has(Listener.todo, "undo")
      /\ \A call, r : call # "listener" /\ InCall(stack', call, r) => call = "secure" /\ r = s
  BY <1>2, <1>3, LoopStep DEF LoopCalls
<1>5. PICK S : S = sockets[s]
  OBVIOUS
<1>6. S \in Sock /\ SocketOK(S, s, stack, threw, tcp) /\ S.phase = "handshake"
  BY <1>5, SockFacts DEF Secure
<1>7. PICK T : T = [S EXCEPT !.phase = "secure", !.timer = FALSE]
  OBVIOUS
<1>8. sockets' = [sockets EXCEPT ![s] = T]
  BY <1>5, <1>7 DEF Secure
<1>9. /\ T \in Sock /\ T.phase = "secure" /\ ~T.timer /\ T.srv = S.srv
      /\ T.tracked = S.tracked /\ T.owed = S.owed
  BY <1>6, <1>7 DEF Sock
<1>10. ~InCall(stack', "timeout", s) /\ ~InCall(stack', "events", s)
  BY <1>4
<1>11. SocketOK(T, s, stack', threw, tcp)
  BY <1>6, <1>9, <1>10 DEF SocketOK
<1>12. UNCHANGED <<tcpServer, closed, tcp, nested, threw, refused, calls>>
  BY DEF Secure
<1> QED
  BY <1>2, <1>4, <1>8, <1>9, <1>11, <1>12, SocketStep

LEMMA TimeoutStep == ASSUME IInv, NEW s \in Sockets, HandshakeTimeout(s) PROVE IInv'
<1>1. PICK G : G = LoopCall("timeout", s, <<"tlsClientError", "destroy">>)
  OBVIOUS
<1>2. /\ G \in Frames /\ FrameOK(G, 1, Len(sockets)) /\ G.call = "timeout" /\ G.n = s
      /\ G.todo = <<"tlsClientError", "destroy">>
  <2>1. <<"tlsClientError", "destroy">> \in LoopPlans("timeout") /\ "timeout" \in LoopCalls
    BY DEF LoopPlans, Plans, LoopCalls
  <2>2. ShapeInv
    BY DEF IInv
  <2> QED
    BY <1>1, <2>1, <2>2, LoopFrame
<1>3. stack = <<>> /\ stack' = <<G>>
  BY <1>1 DEF HandshakeTimeout, LoopCall
<1>4. /\ stack' \in Seq(Frames) /\ Turns(stack, stack', 1, Listener, G)
      /\ \A r \in Sockets : r # s => Quiet(Listener, G, r, threw)
      /\ Harmless(Listener, G) /\ ~Has(Listener.todo, "undo")
      /\ \A call, r : ~InCall(stack, call, r)
      /\ \A call, r : call # "listener" /\ InCall(stack', call, r) => call = "timeout" /\ r = s
  BY <1>2, <1>3, LoopStep DEF LoopCalls
<1>5. PICK S : S = sockets[s]
  OBVIOUS
<1>6. S \in Sock /\ SocketOK(S, s, stack, threw, tcp) /\ S.timer
  BY <1>5, SockFacts DEF HandshakeTimeout
<1>7. PICK T : T = [S EXCEPT !.timer = FALSE]
  OBVIOUS
<1>8. sockets' = [sockets EXCEPT ![s] = T]
  BY <1>5, <1>7 DEF HandshakeTimeout
<1>9. /\ T \in Sock /\ T.phase = S.phase /\ T.srv = S.srv /\ T.timed = S.timed
      /\ T.tracked = S.tracked /\ T.owed = S.owed
  BY <1>6, <1>7 DEF Sock
<1>10. ~InCall(stack', "events", s) /\ ~Runs(stack, "events", s, "socketClose")
  BY <1>4 DEF InCall, Runs
<1>11. Runs(stack', "timeout", s, "destroy")
  <2>1. Has(G.todo, "destroy") /\ G.call # "listener"
    BY <1>2, HasTwo
  <2> QED
    BY <1>2, <1>4, <2>1, TurnsCalls
<1>12. S.phase # "secure"
  BY <1>6 DEF SocketOK
<1>13. SocketOK(T, s, stack', threw, tcp)
  BY <1>6, <1>9, <1>10, <1>11, <1>12 DEF SocketOK
<1>14. UNCHANGED <<tcpServer, closed, tcp, nested, threw, refused, calls>>
  BY DEF HandshakeTimeout
<1> QED
  BY <1>2, <1>4, <1>8, <1>9, <1>13, <1>14, SocketStep

LEMMA EventsStep == ASSUME IInv, NEW s \in Sockets, SocketEvents(s) PROVE IInv'
<1>1. PICK t : t = IF sockets[s].owed = "close" THEN <<"socketClose">>
                   ELSE <<"socketError", "socketClose">>
  OBVIOUS
<1>2. PICK G : G = LoopCall("events", s, t)
  OBVIOUS
<1>3. /\ G \in Frames /\ FrameOK(G, 1, Len(sockets)) /\ G.call = "events" /\ G.n = s
      /\ G.todo = t
  <2>1. t \in LoopPlans("events") /\ "events" \in LoopCalls
    BY <1>1 DEF LoopPlans, Plans, LoopCalls
  <2>2. ShapeInv
    BY DEF IInv
  <2> QED
    BY <1>2, <2>1, <2>2, LoopFrame
<1>4. stack = <<>> /\ stack' = <<G>>
  BY <1>1, <1>2 DEF SocketEvents, LoopCall
<1>5. /\ stack' \in Seq(Frames) /\ Turns(stack, stack', 1, Listener, G)
      /\ \A r \in Sockets : r # s => Quiet(Listener, G, r, threw)
      /\ Harmless(Listener, G) /\ ~Has(Listener.todo, "undo")
  BY <1>3, <1>4, LoopStep DEF LoopCalls
<1>6. PICK S : S = sockets[s]
  OBVIOUS
<1>7. S \in Sock /\ SocketOK(S, s, stack, threw, tcp) /\ S.owed # "nothing"
  BY <1>6, SockFacts DEF SocketEvents
<1>8. S.phase = "dead"
  BY <1>7 DEF SocketOK
<1>9. PICK T : T = [S EXCEPT !.owed = "nothing", !.timer = @ /\ S.owed = "close"]
  OBVIOUS
<1>10. sockets' = [sockets EXCEPT ![s] = T]
  BY <1>6, <1>9 DEF SocketEvents
<1>11. T \in Sock /\ T.phase = "dead"
  BY <1>7, <1>8, <1>9 DEF Sock
<1>12. Runs(stack', "events", s, "socketClose")
  <2>1. Has(G.todo, "socketClose") /\ G.call # "listener"
    BY <1>1, <1>3, HasOne, HasTwo
  <2> QED
    BY <1>3, <1>5, <2>1, TurnsCalls
<1>13. SocketOK(T, s, stack', threw, tcp)
  BY <1>11, <1>12 DEF SocketOK
<1>14. UNCHANGED <<tcpServer, closed, tcp, nested, threw, refused, calls>>
  BY DEF SocketEvents
<1> QED
  BY <1>3, <1>5, <1>10, <1>11, <1>13, <1>14, SocketStep

LEMMA SocketEndsStep == ASSUME IInv, NEW s \in Sockets, SocketEnds(s) PROVE IInv'
<1>1. PICK owed \in {"error", "close"} :
        sockets' = [sockets EXCEPT ![s] = Destroyed(@, owed)]
  BY DEF SocketEnds
<1>2. PICK S : S = sockets[s]
  OBVIOUS
<1>3. S \in Sock /\ S.phase # "dead"
  BY <1>2, SockFacts DEF SocketEnds
<1>4. PICK T : T = Destroyed(S, owed)
  OBVIOUS
<1>5. sockets' = [sockets EXCEPT ![s] = T]
  BY <1>1, <1>2, <1>4
<1>6. T = [S EXCEPT !.phase = "dead", !.owed = owed]
  BY <1>3, <1>4 DEF Destroyed
<1>7. T \in Sock /\ T.phase = "dead" /\ T.owed # "nothing"
  BY <1>3, <1>6 DEF Sock
<1>8. PICK k : k = Len(stack) + 1
  OBVIOUS
<1>9. /\ k \in Nat /\ stack' \in Seq(Frames)
      /\ Turns(stack, stack', k, Listener, Listener)
  <2>1. stack \in Seq(Frames) /\ stack' = stack
    BY DEF IInv, ShapeInv, TlsType, SocketEnds
  <2>2. Turns(stack, stack, Len(stack) + 1, Listener, Listener) /\ Len(stack) \in Nat
    BY <2>1, SameTurns
  <2> QED
    BY <1>8, <2>1, <2>2
<1>10. FrameOK(Listener, k, Len(sockets))
  BY ListenerOK
<1>11. \A r \in Sockets : Quiet(Listener, Listener, r, threw)
  BY ListenerTodo DEF Quiet
<1>12. Harmless(Listener, Listener)
  BY ListenerTodo DEF Harmless
<1>13. SocketOK(T, s, stack', threw, tcp)
  BY <1>7, DeadSocket
<1>14. UNCHANGED <<tcpServer, closed, tcp, nested, threw, refused, calls>>
  BY DEF SocketEnds
<1> QED
  BY <1>5, <1>7, <1>9, <1>10, <1>11, <1>12, <1>13, <1>14, ListenerTodo, SocketStep

-----------------------------------------------------------------------------
(* Connections, and the end of a failed start.                             *)

\* What the invariant says of the variables.
LEMMA ServersAre ==
  ASSUME IInv
  PROVE  /\ tcpServer \in 0 .. MaxStarts /\ closed \in BOOLEAN
         /\ tcp \in [Servers -> {"unborn", "running", "closed"}]
         /\ calls \in Nat /\ nested \in BOOLEAN /\ threw \in BOOLEAN /\ refused \in BOOLEAN
         /\ stack \in Seq(Frames) /\ ShapeInv /\ SocketsOK /\ ServersOK
         /\ \A n \in Servers : n # 0 /\ n \in 0 .. MaxStarts
         /\ tcpServer # 0 => tcpServer \in Servers
  BY TlsAssumption DEF IInv, ShapeInv, TlsType, Servers

\* A step that leaves the stack alone is a turn too.
LEMMA StayStep ==
  ASSUME IInv, stack' = stack
  PROVE  /\ stack' \in Seq(Frames) /\ Len(stack) + 1 \in Nat
         /\ Turns(stack, stack', Len(stack) + 1, Listener, Listener)
         /\ FrameOK(Listener, Len(stack) + 1, Len(sockets'))
         /\ \A s, thr : Quiet(Listener, Listener, s, thr)
         /\ Harmless(Listener, Listener)
<1>1. stack \in Seq(Frames) /\ Len(stack) \in Nat
  BY ServersAre
<1>2. Turns(stack, stack, Len(stack) + 1, Listener, Listener)
  BY <1>1, SameTurns
<1>3. \A s, thr : Quiet(Listener, Listener, s, thr)
  BY ListenerTodo DEF Quiet
<1>4. Harmless(Listener, Listener)
  BY ListenerTodo DEF Harmless
<1> QED
  BY <1>1, <1>2, <1>3, <1>4, ListenerOK

\* A new socket is tracked and under its timer; a closed server makes none.
LEMMA AcceptStep == ASSUME IInv, NEW n \in Servers, HandleTcpConnection(n) PROVE IInv'
<1>1. /\ stack = <<>> /\ stack' = stack /\ tcp[n] = "running"
      /\ UNCHANGED <<tcpServer, closed, tcp, calls, nested, threw>>
  BY DEF HandleTcpConnection
<1>2. PICK k : k = Len(stack) + 1
  OBVIOUS
<1>3. /\ stack' \in Seq(Frames) /\ k \in Nat
      /\ Turns(stack, stack', k, Listener, Listener)
      /\ FrameOK(Listener, k, Len(sockets'))
      /\ \A s, thr : Quiet(Listener, Listener, s, thr)
      /\ Harmless(Listener, Listener)
  BY <1>1, <1>2, StayStep
<1>4. ServersOK'
  BY <1>1, <1>3, ServersAre, ListenerTodo, ServersKept
<1>5. CASE closed
  <2>1. refused' = TRUE /\ sockets' = sockets
    BY <1>5 DEF HandleTcpConnection
  <2>2. ShapeInv'
    <3>1. /\ sockets' \in Seq(Sock) /\ Len(sockets) <= Len(sockets') /\ ShapeInv
      BY <2>1, SocketsAre DEF IInv
    <3>2. /\ tcpServer' \in 0 .. MaxStarts /\ closed' \in BOOLEAN
          /\ tcp' \in [Servers -> {"unborn", "running", "closed"}]
          /\ calls' \in Nat /\ nested' \in BOOLEAN /\ threw' \in BOOLEAN /\ refused' \in BOOLEAN
      BY <1>1, <2>1, ServersAre
    <3> QED
      BY <1>3, <3>1, <3>2, ShapeKept
  <2>3. SocketsOK'
    BY <1>1, <2>1 DEF IInv, SocketsOK
  <2> QED
    BY <1>4, <2>2, <2>3 DEF IInv
<1>6. CASE ~closed
  <2>1. PICK T : T = [srv |-> n, phase |-> "handshake", timed |-> handshakeTimeout > 0,
                      timer |-> handshakeTimeout > 0, tracked |-> TRUE, owed |-> "nothing", errors |-> 0]
    OBVIOUS
  <2>2. sockets' = Append(sockets, T) /\ refused' = refused
    BY <1>6, <2>1 DEF HandleTcpConnection
  <2>3. T \in Sock
    BY <2>1 DEF Sock
  <2>4. sockets \in Seq(Sock) /\ Len(sockets) \in Nat /\ DOMAIN sockets = 1..Len(sockets)
    BY SocketsAre DEF IInv, Sockets
  <2>5. /\ sockets' \in Seq(Sock) /\ Len(sockets') = Len(sockets) + 1
        /\ DOMAIN sockets' = 1..(Len(sockets) + 1)
        /\ \A s \in 1..Len(sockets) : sockets'[s] = sockets[s]
        /\ sockets'[Len(sockets) + 1] = T
    BY <2>2, <2>3, <2>4
  <2>6. ShapeInv'
    <3>1. Len(sockets) <= Len(sockets') /\ ShapeInv
      BY <2>4, <2>5 DEF IInv
    <3>2. /\ tcpServer' \in 0 .. MaxStarts /\ closed' \in BOOLEAN
          /\ tcp' \in [Servers -> {"unborn", "running", "closed"}]
          /\ calls' \in Nat /\ nested' \in BOOLEAN /\ threw' \in BOOLEAN /\ refused' \in BOOLEAN
      BY <1>1, <2>2, ServersAre
    <3> QED
      BY <1>3, <2>5, <3>1, <3>2, ShapeKept
  <2>7. \A call, s : ~InCall(stack', call, s)
    BY <1>1 DEF InCall
  <2>8. SocketsOK'
    <3> SUFFICES ASSUME NEW s \in DOMAIN sockets'
                 PROVE  SocketOK(sockets'[s], s, stack', threw, tcp)
      BY <1>1 DEF SocketsOK
    <3>1. CASE s \in 1..Len(sockets)
      <4>1. sockets'[s] = sockets[s] /\ SocketOK(sockets[s], s, stack, threw, tcp)
        BY <2>4, <2>5, <3>1 DEF IInv, SocketsOK
      <4> QED
        BY <1>1, <4>1
    <3>2. CASE s = Len(sockets) + 1
      <4>1. sockets'[s] = T
        BY <2>5, <3>2
      <4>2. SocketOK(T, s, stack', threw, tcp)
        BY <1>1, <2>1, <2>7 DEF SocketOK
      <4> QED
        BY <4>1, <4>2
    <3> QED
      BY <2>4, <2>5, <3>1, <3>2
  <2> QED
    BY <1>4, <2>6, <2>8 DEF IInv
<1> QED
  BY <1>5, <1>6

\* The undone start has closed its TCP server before it forgets it.
LEMMA UndoStartStep == ASSUME IInv, UndoStart PROVE IInv'
<1>1. /\ stack # <<>> /\ Top.todo # <<>> /\ Head(Top.todo) = "undo" /\ Len(stack) \in Nat
      /\ Top.err \in BOOLEAN /\ Top.todo \in Plans(Top.call, Top.err)
      /\ \E i \in DOMAIN stack : stack[i] = Top
  BY AboutFacts DEF UndoStart
<1>2. stack' \in Seq(Frames) /\ Turns(stack, stack', Len(stack), Top, Rest)
  BY <1>1, RestTurns DEF IInv, UndoStart
<1>3. /\ FrameOK(Rest, Len(stack), Len(sockets)) /\ Rest.call = Top.call /\ Rest.n = Top.n
      /\ Rest.err = Top.err
  BY <1>1, RestFacts DEF IInv
<1>4. \A s, thr : Quiet(Top, Rest, s, thr)
  BY <1>1, RestKeeps
<1>5. /\ tcpServer' = 0 /\ closed' = TRUE
      /\ UNCHANGED <<tcp, sockets, calls, nested, threw, refused>>
  BY DEF UndoStart
<1>6. Top.call = "start" /\ Top.err /\ Top.todo = <<"undo">>
  BY <1>1, PlanHead
<1>7. ShapeInv'
  <2>1. /\ sockets' \in Seq(Sock) /\ Len(sockets) <= Len(sockets') /\ ShapeInv
        /\ FrameOK(Rest, Len(stack), Len(sockets'))
    BY <1>3, <1>5, SocketsAre DEF IInv
  <2>2. /\ tcpServer' \in 0 .. MaxStarts /\ closed' \in BOOLEAN
        /\ tcp' \in [Servers -> {"unborn", "running", "closed"}]
        /\ calls' \in Nat /\ nested' \in BOOLEAN /\ threw' \in BOOLEAN /\ refused' \in BOOLEAN
    BY <1>5, ServersAre, TlsAssumption
  <2> QED
    BY <1>1, <1>2, <2>1, <2>2, ShapeKept
<1>8. SocketsOK'
  <2> SUFFICES ASSUME NEW s \in Sockets
               PROVE  SocketOK(sockets[s], s, stack', threw, tcp)
    BY <1>5 DEF SocketsOK, Sockets
  <2>1. SocketOK(sockets[s], s, stack, threw, tcp)
    BY SockFacts
  <2>2. SameSocket(sockets[s], sockets[s])
    BY DEF SameSocket
  <2>3. sockets[s].phase # "dead" => tcp[sockets[s].srv] = "running"
    BY <2>1 DEF SocketOK
  <2> QED
    BY <1>2, <1>4, <2>1, <2>2, <2>3, QuietSocket
<1>9. ServersOK'
  <2> SUFFICES ASSUME ~nested
               PROVE  /\ \A i \in DOMAIN stack' : ServerFrameOK(stack[i])'
                      /\ \A i, j \in DOMAIN stack' :
                           stack'[i].call = "start" /\ stack'[j].call = "start" => i = j
                      /\ \A n \in Servers : tcp[n] # "running"
    BY <1>5 DEF ServersOK
  <2>1. PICK F : F = Top
    OBVIOUS
  <2>2. PICK G : G = Rest
    OBVIOUS
  <2>3. /\ Turns(stack, stack', Len(stack), F, G)
        /\ G.call = F.call /\ G.n = F.n /\ G.err = F.err
        /\ F.call = "start" /\ F.err /\ F.todo = <<"undo">>
        /\ FrameOK(F, Len(stack), Len(sockets))
    BY <1>1, <1>2, <1>3, <1>6, <2>1, <2>2, TopFacts DEF IInv
  <2>4. ServerFrameOK(F)
    BY <1>1, <2>1, ServersAre DEF ServersOK
  <2>5. Undone(F)
    <3>1. <<"undo">> # <<"undoTcp", "undo">>
      OBVIOUS
    <3> QED
      BY <2>3, <3>1 DEF Undone
  <2>6. tcpServer \in {0, F.n} /\ tcp[F.n] = "closed"
    BY <2>3, <2>4, <2>5 DEF ServerFrameOK
  <2>7. \A n \in Servers : tcp[n] = "running" => n = tcpServer
    BY ServersAre DEF ServersOK
  <2>8. \A n \in Servers : tcp[n] # "running"
    BY <2>6, <2>7, ServersAre
  <2>9. \A H : ServerFrameOK(H) => ServerFrameOK(H)'
    BY <1>5 DEF ServerFrameOK, Undone
  <2>10. ServerFrameOK(G)'
    <3>1. tcpServer' = 0 /\ tcp'[G.n] = "closed" /\ G.call = "start"
      BY <1>5, <2>3, <2>6
    <3> QED
      BY <3>1 DEF ServerFrameOK
  <2>11. /\ \A i \in DOMAIN stack' : ServerFrameOK(stack[i])'
         /\ \A i, j \in DOMAIN stack' :
              stack'[i].call = "start" /\ stack'[j].call = "start" => i = j
    BY <2>3, <2>9, <2>10, ServersAre, ServerFramesKept, ListenerServes
  <2> QED
    BY <2>8, <2>11
<1> QED
  BY <1>7, <1>8, <1>9 DEF IInv

-----------------------------------------------------------------------------
(* A failed start closes its TCP server.                                   *)

\* Concatenations of what calls have to do.
LEMMA OneOne == \A a, b : <<a>> \o <<b>> = <<a, b>>
<1> SUFFICES ASSUME NEW a, NEW b PROVE <<a>> \o <<b>> = <<a, b>>
  OBVIOUS
<1>1. PICK s : s = <<a>>
  OBVIOUS
<1>2. PICK t : t = <<b>>
  OBVIOUS
<1>3. PICK u : u = <<a, b>>
  OBVIOUS
<1>4. s \in Seq({a, b}) /\ Len(s) = 1 /\ s[1] = a
  BY <1>1
<1>5. t \in Seq({a, b}) /\ Len(t) = 1 /\ t[1] = b
  BY <1>2
<1>6. u \in Seq({a, b}) /\ Len(u) = 2 /\ u[1] = a /\ u[2] = b
  BY <1>3
<1>7. PICK v : v = s \o t
  OBVIOUS
<1>8. v \in Seq({a, b}) /\ Len(v) = Len(s) + Len(t)
      /\ \A i \in 1..2 : v[i] = IF i <= 1 THEN s[i] ELSE t[i - 1]
  BY <1>4, <1>5, <1>7, ConcatProperties
<1>9. v[1] = a /\ v[2] = b
  BY <1>4, <1>5, <1>8
<1>10. \A i \in 1..Len(u) : v[i] = u[i]
  <2>1. \A i \in 1..2 : i = 1 \/ i = 2
    OBVIOUS
  <2> QED
    BY <1>6, <1>9, <2>1
<1>11. v \in Seq({a, b}) /\ u \in Seq({a, b}) /\ Len(v) = Len(u)
  BY <1>4, <1>5, <1>6, <1>8
<1>12. \A i \in 1..Len(v) : v[i] = u[i]
  BY <1>10, <1>11
<1>13. v = u
  BY <1>11, <1>12, SeqEqual, Zenon
<1> QED
  BY <1>1, <1>2, <1>3, <1>7, <1>13

LEMMA NoneOne == \A a : <<>> \o <<a>> = <<a>>
  OBVIOUS

LEMMA OneNone == \A a : <<a>> \o <<>> = <<a>>
  OBVIOUS

LEMMA NoneNone == <<>> \o <<>> = <<>>
  OBVIOUS

\* A sweep over the sockets makes a sequence of as many.
LEMMA SweptFacts ==
  ASSUME NEW st \in Seq(Sock), NEW w \in [DOMAIN st -> Sock]
  PROVE  w \in Seq(Sock) /\ Len(w) = Len(st) /\ DOMAIN w = DOMAIN st
<1>1. Len(st) \in Nat /\ DOMAIN st = 1..Len(st)
  OBVIOUS
<1>2. w \in [1..Len(st) -> Sock]
  BY <1>1
<1>3. w \in Seq(Sock)
  BY <1>1, <1>2, SeqDef
<1>4. Len(w) \in Nat /\ DOMAIN w = 1..Len(w)
  BY <1>3
<1>5. 1..Len(w) = 1..Len(st)
  BY <1>1, <1>2, <1>4
<1>6. Len(w) = Len(st)
  BY ONLY <1>1, <1>4, <1>5
<1> QED
  BY <1>1, <1>3, <1>4, <1>5, <1>6

\* What destroy() makes of a socket.
LEMMA DestroyedFacts ==
  ASSUME NEW S \in Sock, NEW owed \in {"error", "close"}
  PROVE  /\ Destroyed(S, owed) \in Sock /\ Destroyed(S, owed).phase = "dead"
         /\ Destroyed(S, owed).srv = S.srv /\ Destroyed(S, owed).tracked = S.tracked
         /\ S.phase = "dead" => Destroyed(S, owed) = S
         /\ S.phase # "dead" => Destroyed(S, owed).owed = owed
  BY DEF Sock, Destroyed

\* A dead socket stays as it is.
LEMMA StillDead ==
  ASSUME IInv, NEW s \in Sockets, sockets[s].phase = "dead",
         NEW st2, NEW k, NEW F, NEW G, Turns(stack, st2, k, F, G),
         Quiet(F, G, s, threw), NEW tcps2
  PROVE  SocketOK(sockets[s], s, st2, threw, tcps2)
<1>1. SocketOK(sockets[s], s, stack, threw, tcp) /\ SameSocket(sockets[s], sockets[s])
  BY SockFacts DEF SameSocket
<1> QED
  BY <1>1, QuietSocket

\* What is left of a failed start once its TCP server is closed.
LEMMA UndoTcpFrame ==
  ASSUME IInv, UndoTcpStart
  PROVE  \E F, G :
           /\ F = Top /\ Turns(stack, stack', Len(stack), F, G) /\ stack' \in Seq(Frames)
           /\ F.call = "start" /\ F.err /\ F.n \in Servers /\ F.todo = <<"undoTcp", "undo">>
           /\ FrameOK(G, Len(stack), Len(sockets))
           /\ G.call = "start" /\ G.n = F.n /\ G.err
           /\ G.todo \in {<<"tcpClose", "undo">>, <<"undo">>}
<1>1. /\ stack # <<>> /\ Top.todo # <<>> /\ Head(Top.todo) = "undoTcp" /\ Len(stack) \in Nat
      /\ Top.err \in BOOLEAN /\ Top.todo \in Plans(Top.call, Top.err)
  BY AboutFacts DEF UndoTcpStart
<1>2. PICK F : F = Top
  OBVIOUS
<1>3. F.call = "start" /\ F.err /\ F.todo = <<"undoTcp", "undo">>
  BY <1>1, <1>2, PlanHead
<1>4. F \in Frames /\ FrameOK(F, Len(stack), Len(sockets))
  BY <1>1, <1>2, TopFacts DEF IInv
<1>5. F.n \in Servers
  BY <1>3, <1>4 DEF FrameOK
<1>6. PICK t : t = (IF tcp[F.n] = "running" THEN <<"tcpClose">> ELSE <<>>) \o Tail(F.todo)
  OBVIOUS
<1>7. t \in {<<"tcpClose", "undo">>, <<"undo">>}
  <2>1. <<"tcpClose">> \o <<"undo">> = <<"tcpClose", "undo">>
    BY OneOne
  <2>2. <<>> \o <<"undo">> = <<"undo">>
    BY NoneOne
  <2>3. Tail(F.todo) = <<"undo">>
    BY <1>3, TwoFacts
  <2> QED
    BY <1>6, <2>1, <2>2, <2>3
<1>8. t \in Plans("start", F.err)
  BY <1>3, <1>7 DEF Plans
<1>9. t \in Seq(Kinds)
  BY <1>8, PlanTypes
<1>10. PICK G : G = [F EXCEPT !.todo = t]
  OBVIOUS
<1>11. G \in Frames /\ G.call = "start" /\ G.n = F.n /\ G.err = F.err /\ G.todo = t
  BY <1>3, <1>4, <1>9, <1>10 DEF Frames
<1>12. FrameOK(G, Len(stack), Len(sockets))
  BY <1>5, <1>8, <1>11 DEF FrameOK, LoopCalls
<1>13. stack' = WithTop(G)
  BY <1>2, <1>6, <1>10 DEF UndoTcpStart
<1>14. stack' \in Seq(Frames) /\ Turns(stack, stack', Len(stack), F, G)
  BY <1>1, <1>2, <1>3, <1>11, <1>13, WithTopTurns DEF IInv
<1> QED
  BY <1>2, <1>3, <1>5, <1>7, <1>11, <1>12, <1>14

\* The sockets of the TCP server that is closed are destroyed with it.
LEMMA UndoTcpStartStep == ASSUME IInv, UndoTcpStart PROVE IInv'
<1>1. PICK F, G :
           /\ F = Top /\ Turns(stack, stack', Len(stack), F, G) /\ stack' \in Seq(Frames)
           /\ F.call = "start" /\ F.err /\ F.n \in Servers /\ F.todo = <<"undoTcp", "undo">>
           /\ FrameOK(G, Len(stack), Len(sockets))
           /\ G.call = "start" /\ G.n = F.n /\ G.err
           /\ G.todo \in {<<"tcpClose", "undo">>, <<"undo">>}
  BY UndoTcpFrame
<1>2. stack # <<>> /\ Len(stack) \in Nat /\ \E i \in DOMAIN stack : stack[i] = F
  BY <1>1, AboutFacts DEF UndoTcpStart
<1>3. PICK n : n = F.n
  OBVIOUS
<1>4. /\ tcp' = [tcp EXCEPT ![n] = "closed"]
      /\ sockets' = [s \in Sockets |->
                     IF sockets[s].srv = n THEN Destroyed(sockets[s], "close")
                     ELSE sockets[s]]
      /\ UNCHANGED <<tcpServer, closed, calls, nested, threw, refused>>
  BY <1>1, <1>3 DEF UndoTcpStart
<1>5. /\ tcp' \in [Servers -> {"unborn", "running", "closed"}]
      /\ tcp'[n] = "closed" /\ \A m \in Servers : m # n => tcp'[m] = tcp[m]
  BY <1>1, <1>3, <1>4, ServersAre
<1>6. /\ sockets \in Seq(Sock) /\ Sockets = DOMAIN sockets /\ Len(sockets) \in Nat
      /\ \A s \in Sockets : sockets[s] \in Sock
  BY SocketsAre DEF IInv, Sockets
<1>7. sockets' \in Seq(Sock) /\ Len(sockets') = Len(sockets) /\ DOMAIN sockets' = Sockets
  <2>1. sockets' \in [DOMAIN sockets -> Sock]
    BY <1>4, <1>6, DestroyedFacts
  <2> QED
    BY <1>6, <2>1, SweptFacts
<1>8. \A s, thr : Quiet(F, G, s, thr)
  BY <1>1 DEF Quiet
<1>9. ShapeInv'
  <2>1. /\ Len(sockets) <= Len(sockets') /\ FrameOK(G, Len(stack), Len(sockets')) /\ ShapeInv
    BY <1>1, <1>6, <1>7 DEF IInv
  <2>2. /\ tcpServer' \in 0 .. MaxStarts /\ closed' \in BOOLEAN
        /\ calls' \in Nat /\ nested' \in BOOLEAN /\ threw' \in BOOLEAN /\ refused' \in BOOLEAN
    BY <1>4, ServersAre
  <2> QED
    BY <1>1, <1>2, <1>5, <1>7, <2>1, <2>2, ShapeKept
<1>10. SocketsOK'
  <2> SUFFICES ASSUME NEW s \in Sockets
               PROVE  SocketOK(sockets'[s], s, stack', threw, tcp')
    BY <1>4, <1>7, Zenon DEF SocketsOK
  <2>1. PICK S : S = sockets[s]
    OBVIOUS
  <2>2. S \in Sock /\ SocketOK(S, s, stack, threw, tcp) /\ SameSocket(S, S)
    BY <2>1, SockFacts DEF SameSocket
  <2>3. CASE S.phase = "dead"
    <3>1. sockets'[s] = S
      BY <1>4, <2>1, <2>2, <2>3, DestroyedFacts
    <3>2. SocketOK(S, s, stack', threw, tcp')
      BY <1>1, <1>8, <2>1, <2>3, StillDead
    <3> QED
      BY <3>1, <3>2
  <2>4. CASE S.phase # "dead" /\ S.srv = n
    <3>1. PICK T : T = Destroyed(S, "close")
      OBVIOUS
    <3>2. sockets'[s] = T
      BY <1>4, <2>1, <2>4, <3>1
    <3>3. T.phase = "dead" /\ T.owed # "nothing"
      BY <2>2, <2>4, <3>1, DestroyedFacts
    <3>4. SocketOK(T, s, stack', threw, tcp')
      BY <3>3, DeadSocket
    <3> QED
      BY <3>2, <3>4
  <2>5. CASE S.phase # "dead" /\ S.srv # n
    <3>1. sockets'[s] = S
      BY <1>4, <2>1, <2>5
    <3>2. S.srv \in Servers /\ tcp[S.srv] = "running"
      BY <2>2, <2>5 DEF Sock, SocketOK
    <3>3. tcp'[S.srv] = "running"
      BY <1>5, <2>5, <3>2
    <3>4. Quiet(F, G, s, threw)
      BY <1>8
    <3>5. SocketOK(S, s, stack', threw, tcp')
      BY <1>1, <2>2, <3>3, <3>4, QuietSocket
    <3> QED
      BY <3>1, <3>5
  <2> QED
    BY <2>3, <2>4, <2>5, Zenon
<1>11. ServersOK'
  <2>1. Has(G.todo, "undo") /\ G.call # "listener"
    BY <1>1, HasOne, HasTwo
  <2>2. Undoing'
    BY <1>1, <2>1, UndoingComes
  <2> SUFFICES ASSUME ~nested
               PROVE  /\ \A i \in DOMAIN stack' : ServerFrameOK(stack[i])'
                      /\ \A i, j \in DOMAIN stack' :
                           stack'[i].call = "start" /\ stack'[j].call = "start" => i = j
                      /\ \A m \in Servers : tcp'[m] = "running" => m = tcpServer
    BY <1>4, <2>2 DEF ServersOK
  <2>3. ServerFrameOK(F)
    BY <1>2, ServersAre DEF ServersOK
  <2>4. \A H : ServerFrameOK(H) => ServerFrameOK(H)'
    <3> SUFFICES ASSUME NEW H, ServerFrameOK(H) PROVE ServerFrameOK(H)'
      OBVIOUS
    <3>1. tcp[H.n] = "closed" => tcp'[H.n] = "closed"
      BY <1>4, <1>5, ServersAre
    <3> QED
      BY <1>4, <3>1 DEF ServerFrameOK, Undone
  <2>5. ServerFrameOK(G)'
    <3>1. tcpServer' \in {0, G.n} /\ tcp'[G.n] = "closed" /\ G.call = "start"
      BY <1>1, <1>3, <1>4, <1>5, <2>3 DEF ServerFrameOK
    <3> QED
      BY <3>1 DEF ServerFrameOK
  <2>6. /\ \A i \in DOMAIN stack' : ServerFrameOK(stack[i])'
        /\ \A i, j \in DOMAIN stack' :
             stack'[i].call = "start" /\ stack'[j].call = "start" => i = j
    BY <1>1, <2>4, <2>5, ServersAre, ServerFramesKept, ListenerServes
  <2>7. \A m \in Servers : tcp[m] = "running" => m = tcpServer
    BY ServersAre DEF ServersOK
  <2>8. \A m \in Servers : tcp'[m] = "running" => m = tcpServer
    BY <1>5, <2>7
  <2> QED
    BY <2>6, <2>8
<1> QED
  BY <1>9, <1>10, <1>11 DEF IInv

-----------------------------------------------------------------------------
(* start() and listen().                                                   *)

\* The calls start() and close() begin with.
StartPlans == {<<"callback", "listening">>, <<"listening">>}
ClosePlans == {<<"callback", "tcpClose">>, <<"callback">>, <<"tcpClose">>, <<>>}
StartCall(n, todo) == Frame("start", n, todo, FALSE)
CloseCall(todo) == Frame("close", 0, todo, FALSE)

LEMMA StartFrame ==
  ASSUME NEW n \in Servers, NEW todo \in StartPlans, NEW G, G = StartCall(n, todo)
  PROVE  /\ G \in Frames /\ G.call = "start" /\ G.n = n /\ G.todo = todo /\ ~G.err
         /\ \A i, len : FrameOK(G, i, len)
<1>1. \A err : err = FALSE => todo \in Plans("start", err)
  BY DEF StartPlans, Plans
<1>2. todo \in Seq(Kinds)
  BY <1>1, PlanTypes
<1>3. G.call = "start" /\ G.n = n /\ G.todo = todo /\ G.err = FALSE
  BY DEF StartCall, Frame
<1>4. G \in Frames
  BY <1>2 DEF StartCall, Frame, Frames, Calls, Servers
<1>5. todo \in Plans(G.call, G.err)
  BY <1>1, <1>3
<1> QED
  BY <1>3, <1>4, <1>5 DEF FrameOK, LoopCalls

LEMMA CloseFrame ==
  ASSUME NEW todo \in ClosePlans, NEW G, G = CloseCall(todo)
  PROVE  /\ G \in Frames /\ G.call = "close" /\ G.todo = todo
         /\ \A i, len : FrameOK(G, i, len)
<1>1. \A err : err = FALSE => todo \in Plans("close", err)
  BY DEF ClosePlans, Plans
<1>2. todo \in Seq(Kinds)
  BY <1>1, PlanTypes
<1>3. G.call = "close" /\ G.n = 0 /\ G.todo = todo /\ G.err = FALSE
  BY DEF CloseCall, Frame
<1>4. G \in Frames
  BY <1>2 DEF CloseCall, Frame, Frames, Calls
<1>5. todo \in Plans(G.call, G.err)
  BY <1>1, <1>3
<1> QED
  BY <1>3, <1>4, <1>5 DEF FrameOK, LoopCalls

\* A call of the application: it begins above the listener that makes it.
LEMMA CallTurns ==
  ASSUME IInv, InListener, NEW G \in Frames, stack' = Append(stack, G)
  PROVE  /\ stack' \in Seq(Frames) /\ Len(stack) + 1 \in Nat
         /\ Turns(stack, stack', Len(stack) + 1, Listener, G)
<1>1. stack \in Seq(Frames) /\ stack[Len(stack)].call = "listener" /\ Len(stack) \in Nat
  BY TopFacts DEF IInv, InListener
<1> QED
  BY <1>1, PushTurns

\* A start() of its own, or its failure.
LEMMA StartCases ==
  ASSUME NEW n, Start(n)
  PROVE  /\ InListener /\ tcpServer = 0 /\ n \in Servers /\ tcp[n] = "unborn"
         /\ calls' = calls + 1 /\ nested' = (nested \/ HalfWay)
         /\ UNCHANGED <<sockets, threw, refused>>
         /\ \/ /\ tcp' = [tcp EXCEPT ![n] = "running"] /\ tcpServer' = n /\ closed' = FALSE
               /\ \E todo \in StartPlans : stack' = Append(stack, StartCall(n, todo))
            \/ /\ tcp' = [tcp EXCEPT ![n] = "closed"] /\ closed' = TRUE
               /\ tcpServer' = tcpServer /\ stack' = stack
<1>1. <<"callback">> \o <<"listening">> = <<"callback", "listening">>
  BY OneOne
<1>2. <<>> \o <<"listening">> = <<"listening">>
  BY NoneOne
<1>3. \A callback \in BOOLEAN :
        (IF callback THEN <<"callback">> ELSE <<>>) \o <<"listening">> \in StartPlans
  BY <1>1, <1>2 DEF StartPlans
<1> QED
  BY <1>3 DEF Start, Call, StartCall

\* The sockets of a start(): a new TCP server has none.
LEMMA StartSockets ==
  ASSUME IInv, NEW n \in Servers, tcp[n] # "running",
         \A m \in Servers : m # n => tcp'[m] = tcp[m],
         sockets' = sockets, threw' = threw,
         NEW k, NEW G, G.call = "start" \/ G.call = "listener",
         Turns(stack, stack', k, Listener, G)
  PROVE  SocketsOK'
<1> SUFFICES ASSUME NEW s \in Sockets
             PROVE  SocketOK(sockets[s], s, stack', threw, tcp')
  BY DEF SocketsOK, Sockets
<1>1. PICK S : S = sockets[s]
  OBVIOUS
<1>2. S \in Sock /\ SocketOK(S, s, stack, threw, tcp) /\ SameSocket(S, S)
  BY <1>1, SockFacts DEF SameSocket
<1>3. S.phase # "dead" => S.srv \in Servers /\ S.srv # n /\ tcp[S.srv] = "running"
  BY <1>2 DEF Sock, SocketOK
<1>4. S.phase # "dead" => tcp'[S.srv] = "running"
  BY <1>3, ServersAre
<1>5. Quiet(Listener, G, s, threw)
  BY ListenerIsFrame DEF Quiet
<1>6. SocketOK(S, s, stack', threw, tcp')
  BY <1>2, <1>4, <1>5, QuietSocket
<1> QED
  BY <1>1, <1>6

LEMMA StartShape ==
  ASSUME IInv, NEW n \in Servers, NEW st \in {"running", "closed"}, tcp' = [tcp EXCEPT ![n] = st],
         tcpServer' \in 0 .. MaxStarts, closed' \in BOOLEAN, calls' = calls + 1,
         nested' \in BOOLEAN, UNCHANGED <<sockets, threw, refused>>,
         NEW k \in Nat, NEW G, \A i, len : FrameOK(G, i, len), stack' \in Seq(Frames),
         Turns(stack, stack', k, Listener, G)
  PROVE  ShapeInv'
<1>1. /\ tcp' \in [Servers -> {"unborn", "running", "closed"}]
      /\ calls' \in Nat /\ threw' \in BOOLEAN /\ refused' \in BOOLEAN
  BY ServersAre
<1>2. /\ sockets' \in Seq(Sock) /\ Len(sockets) <= Len(sockets')
      /\ FrameOK(G, k, Len(sockets')) /\ ShapeInv
  BY SocketsAre DEF IInv
<1> QED
  BY <1>1, <1>2, ShapeKept

\* Outside a start() and a close(), a server that can start is closed.
LEMMA NotHalfWay ==
  ASSUME IInv, ~nested, ~HalfWay, tcpServer = 0
  PROVE  /\ \A i \in DOMAIN stack : stack[i].call # "start" /\ ~Has(stack[i].todo, "tcpClose")
         /\ \A m \in Servers : tcp[m] # "running"
<1>1. \A i \in DOMAIN stack : stack[i].call # "start" /\ ~Has(stack[i].todo, "tcpClose")
  BY DEF HalfWay, Has
<1>2. \A m \in Servers : tcp[m] = "running" => m = tcpServer
  BY DEF IInv, ServersOK
<1> QED
  BY <1>1, <1>2, ServersAre

\* A server that starts outside a start and a close finds none that runs.
LEMMA StartsStep ==
  ASSUME IInv, NEW n, Start(n), tcpServer' = n, tcp' = [tcp EXCEPT ![n] = "running"],
         closed' = FALSE, NEW todo \in StartPlans, stack' = Append(stack, StartCall(n, todo))
  PROVE  IInv'
<1>1. /\ InListener /\ tcpServer = 0 /\ n \in Servers /\ tcp[n] = "unborn"
      /\ calls' = calls + 1 /\ nested' = (nested \/ HalfWay)
      /\ UNCHANGED <<sockets, threw, refused>>
  BY StartCases
<1>2. PICK G : G = StartCall(n, todo)
  OBVIOUS
<1>3. /\ G \in Frames /\ G.call = "start" /\ G.n = n /\ G.todo = todo /\ ~G.err
      /\ \A i, len : FrameOK(G, i, len)
  BY <1>1, <1>2, StartFrame
<1>4. PICK k : k = Len(stack) + 1
  OBVIOUS
<1>5. stack' \in Seq(Frames) /\ k \in Nat /\ Turns(stack, stack', k, Listener, G)
  BY <1>1, <1>2, <1>3, <1>4, CallTurns
<1>6. ShapeInv'
  <2>1. tcpServer' \in 0 .. MaxStarts /\ closed' \in BOOLEAN /\ nested' \in BOOLEAN
    BY <1>1, ServersAre DEF Servers, HalfWay
  <2> QED
    BY <1>1, <1>3, <1>5, <2>1, StartShape
<1>7. SocketsOK'
  <2>1. /\ n \in Servers /\ tcp[n] # "running" /\ (G.call = "start" \/ G.call = "listener")
        /\ sockets' = sockets /\ threw' = threw /\ Turns(stack, stack', k, Listener, G)
    BY <1>1, <1>3, <1>5
  <2>2. \A m \in Servers : m # n => tcp'[m] = tcp[m]
    BY <1>1, ServersAre
  <2> QED
    BY <2>1, <2>2, StartSockets
<1>8. ServersOK'
  <2> SUFFICES ASSUME ~nested, ~HalfWay
               PROVE  /\ \A i \in DOMAIN stack' : ServerFrameOK(stack[i])'
                      /\ \A i, j \in DOMAIN stack' :
                           stack'[i].call = "start" /\ stack'[j].call = "start" => i = j
                      /\ \A m \in Servers : tcp'[m] = "running" => m = n
                      /\ n # 0 /\ tcp'[n] = "running"
    BY <1>1, ServersAre DEF ServersOK
  <2>1. /\ \A i \in DOMAIN stack : stack[i].call # "start" /\ ~Has(stack[i].todo, "tcpClose")
        /\ \A m \in Servers : tcp[m] # "running"
    BY <1>1, NotHalfWay
  <2>2. /\ tcp'[n] = "running" /\ \A m \in Servers : m # n => tcp'[m] = tcp[m]
        /\ n # 0
    BY <1>1, ServersAre
  <2>3. ServerFrameOK(G)'
    BY <1>3 DEF ServerFrameOK, Undone
  <2>4. ASSUME NEW i \in DOMAIN stack' PROVE ServerFrameOK(stack[i])'
    <3>1. PICK H : H = stack'[i]
      OBVIOUS
    <3>2. H = G \/ H = Listener \/ (i \in DOMAIN stack /\ stack[i] = H)
      BY <1>5, <3>1 DEF Turns
    <3>3. i \in DOMAIN stack /\ stack[i] = H => ServerFrameOK(H)'
      BY <2>1 DEF ServerFrameOK
    <3>4. ServerFrameOK(H)'
      BY <2>3, <3>2, <3>3, ListenerServes
    <3> QED
      BY <3>1, <3>4 DEF ServerFrameOK, Undone
  <2>5. ASSUME NEW i \in DOMAIN stack', stack'[i].call = "start" PROVE i = k
    BY <1>5, <2>1, <2>5, ListenerIsFrame DEF Turns
  <2> QED
    BY <2>1, <2>2, <2>4, <2>5
<1> QED
  BY <1>6, <1>7, <1>8 DEF IInv

\* A start that throws at once leaves a closed server.
LEMMA StartFailsStep ==
  ASSUME IInv, NEW n, Start(n), tcpServer' = tcpServer, tcp' = [tcp EXCEPT ![n] = "closed"],
         closed' = TRUE, stack' = stack
  PROVE  IInv'
<1>1. /\ InListener /\ tcpServer = 0 /\ n \in Servers /\ tcp[n] = "unborn"
      /\ calls' = calls + 1 /\ nested' = (nested \/ HalfWay)
      /\ UNCHANGED <<sockets, threw, refused>>
  BY StartCases
<1>2. PICK k : k = Len(stack) + 1
  OBVIOUS
<1>3. /\ stack' \in Seq(Frames) /\ k \in Nat /\ Turns(stack, stack', k, Listener, Listener)
  BY <1>2, StayStep
<1>4. ShapeInv'
  <2>1. tcpServer' \in 0 .. MaxStarts /\ closed' \in BOOLEAN /\ nested' \in BOOLEAN
    BY <1>1, ServersAre DEF HalfWay
  <2> QED
    BY <1>1, <1>3, <2>1, ListenerOK, StartShape
<1>5. SocketsOK'
  <2>1. PICK G : G = Listener
    OBVIOUS
  <2>2. /\ n \in Servers /\ tcp[n] # "running" /\ (G.call = "start" \/ G.call = "listener")
        /\ sockets' = sockets /\ threw' = threw /\ Turns(stack, stack', k, Listener, G)
    BY <1>1, <1>3, <2>1, ListenerIsFrame
  <2>3. \A m \in Servers : m # n => tcp'[m] = tcp[m]
    BY <1>1, ServersAre
  <2> QED
    BY <2>2, <2>3, StartSockets
<1>6. ServersOK'
  <2> SUFFICES ASSUME ~nested, ~HalfWay
               PROVE  /\ \A i \in DOMAIN stack : ServerFrameOK(stack[i])'
                      /\ \A i \in DOMAIN stack : stack[i].call # "start"
                      /\ \A m \in Servers : tcp'[m] # "running"
    BY <1>1 DEF ServersOK
  <2>1. /\ \A i \in DOMAIN stack : stack[i].call # "start" /\ ~Has(stack[i].todo, "tcpClose")
        /\ \A m \in Servers : tcp[m] # "running"
    BY <1>1, NotHalfWay
  <2>2. tcp'[n] = "closed" /\ \A m \in Servers : m # n => tcp'[m] = tcp[m]
    BY <1>1, ServersAre
  <2>3. ASSUME NEW i \in DOMAIN stack PROVE ServerFrameOK(stack[i])'
    <3>1. PICK H : H = stack[i]
      OBVIOUS
    <3>2. H = stack'[i] /\ ServerFrameOK(H)'
      BY <2>1, <3>1 DEF ServerFrameOK
    <3> QED
      BY <3>1, <3>2 DEF ServerFrameOK, Undone
  <2> QED
    BY <2>1, <2>2, <2>3
<1> QED
  BY <1>4, <1>5, <1>6 DEF IInv

LEMMA StartStep == ASSUME IInv, NEW n, Start(n) PROVE IInv'
  BY StartCases, StartsStep, StartFailsStep

-----------------------------------------------------------------------------
(* close().                                                                *)

\* The callback of close(), and the 'close' of a TCP server that ran.
Told(callback) == IF callback THEN <<"callback">> ELSE <<>>
Closing == IF tcp[tcpServer] = "running" THEN <<"tcpClose">> ELSE <<>>

LEMMA CloseTodo ==
  ASSUME NEW callback \in BOOLEAN
  PROVE  Told(callback) \in ClosePlans /\ Told(callback) \o Closing \in ClosePlans
<1>1. <<"callback">> \o <<"tcpClose">> = <<"callback", "tcpClose">>
  BY OneOne
<1>2. <<>> \o <<"tcpClose">> = <<"tcpClose">> /\ <<"callback">> \o <<>> = <<"callback">>
      /\ <<>> \o <<>> = <<>>
  BY NoneOne, OneNone, NoneNone
<1> QED
  BY <1>1, <1>2 DEF Told, Closing, ClosePlans

\* A close() that finds no TCP server, or closes the one it finds.
LEMMA CloseCases ==
  ASSUME Close
  PROVE  /\ InListener /\ calls' = calls + 1 /\ UNCHANGED <<nested, threw, refused>>
         /\ \E todo \in ClosePlans :
              /\ stack' = Append(stack, CloseCall(todo))
              /\ Has(todo, "tcpClose") => tcpServer # 0
         /\ \/ tcpServer = 0 /\ UNCHANGED <<tcpServer, closed, tcp, sockets>>
            \/ /\ tcpServer # 0 /\ tcpServer' = 0 /\ closed' = TRUE
               /\ tcp' = [tcp EXCEPT ![tcpServer] = "closed"]
               /\ sockets' = [s \in Sockets |->
                              IF sockets[s].tracked
                              THEN [Destroyed(sockets[s], "close") EXCEPT !.tracked = FALSE]
                              ELSE sockets[s]]
<1>1. PICK callback \in BOOLEAN :
        IF tcpServer = 0
        THEN /\ stack' = Append(stack, Frame("close", 0, Told(callback), FALSE))
             /\ UNCHANGED <<tcpServer, closed, tcp, sockets>>
        ELSE /\ stack' = Append(stack, Frame("close", 0, Told(callback) \o Closing, FALSE))
             /\ tcpServer' = 0
             /\ closed' = TRUE
             /\ tcp' = [tcp EXCEPT ![tcpServer] = "closed"]
             /\ sockets' = [s \in Sockets |->
                              IF sockets[s].tracked
                              THEN [Destroyed(sockets[s], "close") EXCEPT !.tracked = FALSE]
                              ELSE sockets[s]]
  BY DEF Close, Told, Closing
<1>2. InListener /\ calls' = calls + 1 /\ UNCHANGED <<nested, threw, refused>>
  BY DEF Close, Call
<1>3. Told(callback) \in ClosePlans /\ Told(callback) \o Closing \in ClosePlans
  BY CloseTodo
<1>4. ~Has(Told(callback), "tcpClose")
  BY HasOne, HasNone DEF Told
<1>5. CASE tcpServer = 0
  <2>1. stack' = Append(stack, CloseCall(Told(callback)))
    BY <1>1, <1>5 DEF CloseCall
  <2>2. UNCHANGED <<tcpServer, closed, tcp, sockets>>
    BY <1>1, <1>5
  <2> QED
    BY <1>2, <1>3, <1>4, <1>5, <2>1, <2>2
<1>6. CASE tcpServer # 0
  <2>1. stack' = Append(stack, CloseCall(Told(callback) \o Closing))
    BY <1>1, <1>6 DEF CloseCall
  <2>2. /\ tcpServer # 0 /\ tcpServer' = 0 /\ closed' = TRUE
        /\ tcp' = [tcp EXCEPT ![tcpServer] = "closed"]
        /\ sockets' = [s \in Sockets |->
                              IF sockets[s].tracked
                              THEN [Destroyed(sockets[s], "close") EXCEPT !.tracked = FALSE]
                              ELSE sockets[s]]
    BY <1>1, <1>6
  <2> QED
    BY <1>2, <1>3, <2>1, <2>2
<1> QED
  BY <1>5, <1>6

\* close() destroys every live socket: they are all tracked.
LEMMA CloseStep == ASSUME IInv, Close PROVE IInv'
<1>1. InListener /\ calls' = calls + 1 /\ UNCHANGED <<nested, threw, refused>>
  BY CloseCases
<1>2. PICK todo \in ClosePlans :
              /\ stack' = Append(stack, CloseCall(todo))
              /\ Has(todo, "tcpClose") => tcpServer # 0
  BY CloseCases
<1>3. PICK G : G = CloseCall(todo)
  OBVIOUS
<1>4. /\ G \in Frames /\ G.call = "close" /\ G.todo = todo
      /\ \A i, len : FrameOK(G, i, len)
  BY <1>3, CloseFrame
<1>5. PICK k : k = Len(stack) + 1
  OBVIOUS
<1>6. stack' \in Seq(Frames) /\ k \in Nat /\ Turns(stack, stack', k, Listener, G)
  BY <1>1, <1>2, <1>3, <1>4, <1>5, CallTurns
<1>7. \A s, thr : Quiet(Listener, G, s, thr)
  BY <1>4, ListenerIsFrame DEF Quiet
<1>8. CASE tcpServer = 0 /\ UNCHANGED <<tcpServer, closed, tcp, sockets>>
  <2>1. Harmless(Listener, G) /\ ~Has(Listener.todo, "undo")
    BY <1>2, <1>4, <1>8, ListenerTodo DEF Harmless
  <2>2. calls' \in Nat /\ threw' \in BOOLEAN /\ closed' \in BOOLEAN
    BY <1>1, <1>8, ServersAre
  <2>3. FrameOK(G, k, Len(sockets)) /\ \A s \in Sockets : Quiet(Listener, G, s, threw')
    BY <1>4, <1>7
  <2> QED
    BY <1>1, <1>6, <1>8, <2>1, <2>2, <2>3, StackStep
<1>9. CASE /\ tcpServer # 0 /\ tcpServer' = 0 /\ closed' = TRUE
           /\ tcp' = [tcp EXCEPT ![tcpServer] = "closed"]
           /\ sockets' = [s \in Sockets |->
                              IF sockets[s].tracked
                              THEN [Destroyed(sockets[s], "close") EXCEPT !.tracked = FALSE]
                              ELSE sockets[s]]
  <2>1. /\ tcp' \in [Servers -> {"unborn", "running", "closed"}] /\ tcpServer \in Servers
        /\ tcp'[tcpServer] = "closed" /\ \A m \in Servers : m # tcpServer => tcp'[m] = tcp[m]
    BY <1>9, ServersAre
  <2>2. /\ sockets \in Seq(Sock) /\ Sockets = DOMAIN sockets /\ Len(sockets) \in Nat
        /\ \A s \in Sockets : sockets[s] \in Sock
    BY SocketsAre DEF IInv, Sockets
  <2>3. ASSUME NEW S \in Sock, NEW T, T = [Destroyed(S, "close") EXCEPT !.tracked = FALSE]
        PROVE  T \in Sock /\ T.phase = "dead" /\ ~T.tracked
    <3>1. PICK D : D = Destroyed(S, "close")
      OBVIOUS
    <3>2. D \in Sock /\ D.phase = "dead"
      BY <3>1, DestroyedFacts
    <3>3. T = [D EXCEPT !.tracked = FALSE]
      BY <2>3, <3>1
    <3> QED
      BY <3>2, <3>3 DEF Sock
  <2>4. /\ sockets' \in Seq(Sock) /\ Len(sockets') = Len(sockets) /\ DOMAIN sockets' = Sockets
    <3>1. sockets' \in [DOMAIN sockets -> Sock]
      BY <1>9, <2>2, <2>3
    <3> QED
      BY <2>2, <3>1, SweptFacts
  <2>5. ShapeInv'
    <3>1. /\ Len(sockets) <= Len(sockets') /\ FrameOK(G, k, Len(sockets')) /\ ShapeInv
      BY <1>4, <2>2, <2>4 DEF IInv
    <3>2. /\ tcpServer' \in 0 .. MaxStarts /\ closed' \in BOOLEAN
          /\ calls' \in Nat /\ nested' \in BOOLEAN /\ threw' \in BOOLEAN /\ refused' \in BOOLEAN
      BY <1>1, <1>9, ServersAre, TlsAssumption
    <3> QED
      BY <1>6, <2>1, <2>4, <3>1, <3>2, ShapeKept
  <2>6. SocketsOK'
    <3> SUFFICES ASSUME NEW s \in Sockets
                 PROVE  SocketOK(sockets'[s], s, stack', threw, tcp')
      BY <1>1, <2>4 DEF SocketsOK
    <3>1. PICK S : S = sockets[s]
      OBVIOUS
    <3>2. S \in Sock /\ SocketOK(S, s, stack, threw, tcp)
      BY <3>1, SockFacts
    <3>3. CASE S.tracked
      <4>1. PICK T : T = [Destroyed(S, "close") EXCEPT !.tracked = FALSE]
        OBVIOUS
      <4>2. T.phase = "dead" /\ ~T.tracked
        BY <2>3, <3>2, <4>1
      <4>3. sockets'[s] = T
        BY <1>9, <3>1, <3>3, <4>1
      <4>4. SocketOK(T, s, stack', threw, tcp')
        BY <4>2, DeadSocket
      <4> QED
        BY <4>3, <4>4
    <3>4. CASE ~S.tracked
      <4>1. S.phase = "dead"
        BY <3>2, <3>4 DEF SocketOK
      <4>2. sockets'[s] = S
        BY <1>9, <3>1, <3>4
      <4>3. SocketOK(S, s, stack', threw, tcp')
        BY <1>6, <1>7, <3>1, <4>1, StillDead
      <4> QED
        BY <4>2, <4>3
    <3> QED
      BY <3>3, <3>4
  <2>7. ServersOK'
    <3> SUFFICES ASSUME ~nested
                 PROVE  /\ \A i \in DOMAIN stack' : ServerFrameOK(stack[i])'
                        /\ \A i, j \in DOMAIN stack' :
                             stack'[i].call = "start" /\ stack'[j].call = "start" => i = j
                        /\ \A m \in Servers : tcp'[m] # "running"
      BY <1>1, <1>9 DEF ServersOK
    <3>1. \A m \in Servers : tcp[m] = "running" => m = tcpServer
      BY ServersAre DEF ServersOK
    <3>2. \A m \in Servers : tcp'[m] # "running"
      BY <2>1, <3>1
    <3>3. \A H : ServerFrameOK(H) => ServerFrameOK(H)'
      <4> SUFFICES ASSUME NEW H, ServerFrameOK(H) PROVE ServerFrameOK(H)'
        OBVIOUS
      <4>1. tcp[H.n] = "closed" => tcp'[H.n] = "closed"
        BY <1>9, <2>1, ServersAre
      <4> QED
        BY <1>9, <4>1 DEF ServerFrameOK, Undone
    <3>4. ServerFrameOK(G)'
      BY <1>4, <1>9 DEF ServerFrameOK
    <3>5. /\ \A i \in DOMAIN stack' : ServerFrameOK(stack[i])'
          /\ \A i, j \in DOMAIN stack' :
               stack'[i].call = "start" /\ stack'[j].call = "start" => i = j
      BY <1>4, <1>6, <3>3, <3>4, ServersAre, ServerFramesKept, ListenerServes
    <3> QED
      BY <3>2, <3>5
  <2> QED
    BY <2>5, <2>6, <2>7 DEF IInv
<1> QED
  BY <1>8, <1>9, CloseCases

\* Every step keeps the invariant.
LEMMA NextIInv == IInv /\ [Next]_vars => IInv'
<1> SUFFICES ASSUME IInv, [Next]_vars PROVE IInv'
  OBVIOUS
<1>1. CASE Handling
  BY <1>1, EmitStep, ReportErrorStep, DestroySocketStep, SocketCloseStep, TcpCloseStep,
     UndoTcpStartStep, UndoStartStep, ReturnStep, ThrowStep, PopStep DEF Handling
<1>2. CASE Application
  BY <1>2, TaskStep, CloseStep, StartStep DEF Application
<1>3. CASE \E n \in Servers : HandleTcpConnection(n)
  BY <1>3, AcceptStep
<1>4. CASE \E s \in Sockets :
             Secure(s) \/ HandshakeTimeout(s) \/ SocketEnds(s) \/ SocketEvents(s)
  BY <1>4, SecureStep, TimeoutStep, SocketEndsStep, EventsStep
<1>5. CASE UNCHANGED vars
  BY <1>5, SameStep
<1> QED
  BY <1>1, <1>2, <1>3, <1>4, <1>5 DEF Next

LEMMA IInvHolds == Spec => []IInv
<1>1. Init => IInv
  BY InitIInv
<1>2. IInv /\ [Next]_vars => IInv'
  BY NextIInv
<1> QED
  BY <1>1, <1>2, PTL DEF Spec

\* Outside a start() that is being undone, the TLS server is open exactly when
\* it has a TCP server, and that one is the only one that runs, however
\* listeners throw or close in between (_startTcpServer, start, close), unless
\* it was started in the middle of a start() or close().
THEOREM TlsOneTcpServer == Spec => []OneTcpServer
<1>1. IInv => OneTcpServer
  <2> SUFFICES ASSUME IInv, ~nested, ~Undoing
               PROVE  /\ closed <=> tcpServer = 0
                      /\ \A n \in Servers : tcp[n] = "running" <=> n = tcpServer
    BY DEF OneTcpServer
  <2>1. /\ closed <=> tcpServer = 0
        /\ tcpServer # 0 => tcp[tcpServer] = "running"
        /\ \A n \in Servers : tcp[n] = "running" => n = tcpServer
    BY DEF IInv, ServersOK
  <2> QED
    BY <2>1, ServersAre
<1> QED
  BY <1>1, IInvHolds, PTL

\* Every TLS socket that is not destroyed is in _tlsSockets and belongs to a
\* running TCP server, and unless a listener threw none stays there once its
\* events are out (_handleTcpConnection, close).
THEOREM TlsSocketsTracked == Spec => []SocketsTracked
<1>1. IInv => SocketsTracked
  <2> SUFFICES ASSUME IInv PROVE SocketsTracked
    OBVIOUS
  <2>1. ASSUME NEW s \in Sockets, sockets[s].phase # "dead"
        PROVE  sockets[s].tracked /\ tcp[sockets[s].srv] = "running"
    BY <2>1, SockFacts DEF SocketOK
  <2>2. ASSUME stack = <<>>, ~threw, NEW s \in Sockets, sockets[s].tracked,
               sockets[s].phase = "dead"
        PROVE  sockets[s].owed # "nothing"
    <3>1. ~Runs(stack, "events", s, "socketClose")
      BY <2>2 DEF Runs
    <3> QED
      BY <2>2, <3>1, SockFacts DEF SocketOK
  <2> QED
    BY <2>1, <2>2 DEF SocketsTracked
<1> QED
  BY <1>1, IInvHolds, PTL

\* If handshakeTimeout asks for a timer, every handshake is under it or being
\* ended by it, unless a listener threw; if it is 0, none is; and no secure
\* socket ever is (_handleTcpConnection).
THEOREM TlsTimerGuardsHandshake == Spec => []TimerGuardsHandshake
<1>1. IInv => TimerGuardsHandshake
  <2> SUFFICES ASSUME IInv, NEW s \in Sockets
               PROVE  /\ sockets[s].phase = "handshake" =>
                           IF sockets[s].timed
                           THEN sockets[s].timer \/ InTimeout(s) \/ threw
                           ELSE ~sockets[s].timer /\ ~InTimeout(s)
                      /\ sockets[s].phase = "secure" => ~sockets[s].timer /\ ~InTimeout(s)
    BY DEF TimerGuardsHandshake
  <2>1. InTimeout(s) <=> InCall(stack, "timeout", s)
    BY DEF InTimeout, InCall
  <2>2. Runs(stack, "timeout", s, "destroy") => InCall(stack, "timeout", s)
    BY DEF Runs, InCall
  <2> QED
    BY <2>1, <2>2, SockFacts DEF SocketOK
<1> QED
  BY <1>1, IInvHolds, PTL
=============================================================================
