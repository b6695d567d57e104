---------------------------- MODULE TcpSendProofs ----------------------------
(***************************************************************************)
(* What the TCP worker sends: payloads, their buffers, the completions     *)
(* that finish them, the bytes that leave; that the worker implements      *)
(* TcpStream; the life of its connections; and what stays armed.           *)
(*                                                                         *)
(* SInv is the inductive invariant.  The proof does not go from action to  *)
(* action: EveryKind shows that each action is a step of one of a dozen    *)
(* kinds (a send completes, a payload is accepted, a connection leaves,    *)
(* ...), and each part of SInv, and the refinement, is then proved kind by *)
(* kind.  LInv (the life of a connection) and AInv (what is armed) are     *)
(* inductive relative to SInv.                                             *)
(***************************************************************************)
EXTENDS TcpWorkerProofs

-----------------------------------------------------------------------------
(***************************************************************************)
(* Counting in sequences: Cnt(s, S) is the number of positions of s that   *)
(* hold a member of S, Elems(s) the members themselves.                    *)
(***************************************************************************)
At(s, S) == {i \in DOMAIN s : s[i] \in S}
Cnt(s, S) == Cardinality(At(s, S))
Elems(s) == {s[i] : i \in DOMAIN s}
Bit(b) == IF b THEN 1 ELSE 0

LEMMA AtFinite ==
  ASSUME NEW X, NEW s \in Seq(X), NEW S
  PROVE  IsFiniteSet(At(s, S)) /\ Cnt(s, S) \in Nat /\ At(s, S) \subseteq 1..Len(s)
<1>1. At(s, S) \subseteq 1..Len(s) /\ Len(s) \in Nat
  BY DEF At
<1>2. IsFiniteSet(1..Len(s))
  BY <1>1, FS_Interval
<1>3. IsFiniteSet(At(s, S))
  BY <1>1, <1>2, FS_Subset
<1> QED
  BY <1>1, <1>3, FS_CardinalityType DEF Cnt

LEMMA DisjointUnion ==
  ASSUME NEW A, NEW B, IsFiniteSet(A), IsFiniteSet(B), A \cap B = {}
  PROVE  /\ IsFiniteSet(A \cup B)
         /\ Cardinality(A \cup B) = Cardinality(A) + Cardinality(B)
<1>1. Cardinality(A \cup B) = Cardinality(A) + Cardinality(B) - Cardinality(A \cap B)
  BY FS_Union
<1>2. Cardinality(A \cap B) = 0
  BY FS_EmptySet
<1>3. Cardinality(A) \in Nat /\ Cardinality(B) \in Nat
  BY FS_CardinalityType
<1> QED
  BY <1>1, <1>2, <1>3, FS_Union

LEMMA Removal ==
  ASSUME NEW A, NEW x, IsFiniteSet(A)
  PROVE  /\ IsFiniteSet(A \ {x})
         /\ Cardinality(A \ {x}) = Cardinality(A) - Bit(x \in A)
<1>1. Cardinality(A) \in Nat
  BY FS_CardinalityType
<1>2. Cardinality(A \ {x}) = IF x \in A THEN Cardinality(A) - 1 ELSE Cardinality(A)
  BY FS_RemoveElement
<1>3. IsFiniteSet(A \ {x})
  BY FS_RemoveElement
<1> QED
  BY <1>1, <1>2, <1>3 DEF Bit

LEMMA Shift ==
  ASSUME NEW T \in SUBSET Int, IsFiniteSet(T), NEW d \in Int
  PROVE  LET U == {t + d : t \in T}
         IN  IsFiniteSet(U) /\ Cardinality(U) = Cardinality(T)
<1> DEFINE U == {t + d : t \in T}
           f == [t \in T |-> t + d]
<1>1. f \in [T -> U]
  OBVIOUS
<1>2. \A a, b \in T : f[a] = f[b] => a = b
  OBVIOUS
<1>3. \A u \in U : \E t \in T : f[t] = u
  OBVIOUS
<1>4. f \in Bijection(T, U)
  BY <1>1, <1>2, <1>3 DEF Bijection, Injection, Surjection, IsInjective
<1> QED
  BY <1>4, FS_Bijection DEF ExistsBijection

LEMMA CntEmpty == \A S : Cnt(<<>>, S) = 0
  BY FS_EmptySet DEF Cnt, At

LEMMA CntAppend ==
  ASSUME NEW X, NEW s \in Seq(X), NEW e, NEW S
  PROVE  Cnt(Append(s, e), S) = Cnt(s, S) + Bit(e \in S)
<1>1. IsFiniteSet(At(s, S)) /\ Len(s) + 1 \notin At(s, S) /\ Cnt(s, S) \in Nat
  BY AtFinite
<1>2. At(Append(s, e), S) = IF e \in S THEN At(s, S) \cup {Len(s) + 1} ELSE At(s, S)
  BY DEF At
<1>3. Cardinality(At(s, S) \cup {Len(s) + 1}) = Cardinality(At(s, S)) + 1
  BY <1>1, FS_AddElement
<1> QED
  BY <1>1, <1>2, <1>3 DEF Cnt, Bit

LEMMA CntConcat ==
  ASSUME NEW X, NEW s \in Seq(X), NEW t \in Seq(X), NEW S
  PROVE  Cnt(s \o t, S) = Cnt(s, S) + Cnt(t, S)
<1> DEFINE U == {i + Len(s) : i \in At(t, S)}
<1>1. IsFiniteSet(At(s, S)) /\ At(s, S) \subseteq 1..Len(s) /\ Cnt(s, S) \in Nat
  BY AtFinite
<1>2. IsFiniteSet(At(t, S)) /\ At(t, S) \subseteq 1..Len(t) /\ Cnt(t, S) \in Nat
  BY AtFinite
<1>3. IsFiniteSet(U) /\ Cardinality(U) = Cardinality(At(t, S))
  <2>1. At(t, S) \in SUBSET Int /\ Len(s) \in Int
    BY <1>2
  <2> QED
    BY <1>2, <2>1, Shift
<1>4. At(s \o t, S) = At(s, S) \cup U
  <2>1. \A i \in At(s \o t, S) : i \in At(s, S) \cup U
    <3> SUFFICES ASSUME NEW i \in At(s \o t, S) PROVE i \in At(s, S) \cup U
      OBVIOUS
    <3>1. i \in 1..(Len(s) + Len(t)) /\ (s \o t)[i] \in S
      BY DEF At
    <3>2. CASE i <= Len(s)
      BY <3>1, <3>2 DEF At
    <3>3. CASE i > Len(s)
      <4>1. i - Len(s) \in 1..Len(t) /\ t[i - Len(s)] \in S
        BY <3>1, <3>3
      <4>2. i - Len(s) \in At(t, S) /\ i = (i - Len(s)) + Len(s)
        BY <4>1 DEF At
      <4> QED
        BY <4>2
    <3> QED
      BY <3>1, <3>2, <3>3
  <2>2. At(s, S) \subseteq At(s \o t, S)
    BY DEF At
  <2>3. U \subseteq At(s \o t, S)
    BY DEF At
  <2> QED
    BY <2>1, <2>2, <2>3
<1>5. At(s, S) \cap U = {}
  BY <1>1, <1>2
<1> HIDE DEF U
<1> QED
  BY <1>1, <1>3, <1>4, <1>5, DisjointUnion DEF Cnt

LEMMA CntTail ==
  ASSUME NEW X, NEW s \in Seq(X), s # <<>>, NEW S
  PROVE  Cnt(Tail(s), S) = Cnt(s, S) - Bit(Head(s) \in S)
<1> DEFINE none == <<>>
           first == Append(none, Head(s))
           rest == Tail(s)
<1>1. s = first \o rest /\ first \in Seq(X) /\ rest \in Seq(X) /\ none \in Seq(X)
  OBVIOUS
<1>2. Cnt(none, S) = 0
  BY CntEmpty
<1>3. Cnt(first, S) = Cnt(none, S) + Bit(Head(s) \in S)
  <2> HIDE DEF none
  <2> QED
    BY <1>1, CntAppend
<1> HIDE DEF none, first, rest
<1>4. Cnt(s, S) = Cnt(first, S) + Cnt(rest, S)
  BY <1>1, CntConcat
<1>5. Cnt(rest, S) \in Nat
  BY <1>1, AtFinite
<1> QED
  BY <1>2, <1>3, <1>4, <1>5 DEF Bit, rest

LEMMA CntExcept ==
  ASSUME NEW X, NEW s \in Seq(X), NEW i \in DOMAIN s, NEW e \in X, NEW S
  PROVE  Cnt([s EXCEPT ![i] = e], S) = Cnt(s, S) - Bit(s[i] \in S) + Bit(e \in S)
<1> DEFINE t == [s EXCEPT ![i] = e]
<1>1. IsFiniteSet(At(s, S)) /\ Cnt(s, S) \in Nat
  BY AtFinite
<1>2. At(t, S) = IF e \in S THEN (At(s, S) \ {i}) \cup {i} ELSE At(s, S) \ {i}
  BY DEF At
<1>3. i \in At(s, S) <=> s[i] \in S
  BY DEF At
<1>4. /\ IsFiniteSet(At(s, S) \ {i})
      /\ Cardinality(At(s, S) \ {i}) = Cnt(s, S) - Bit(i \in At(s, S))
  BY <1>1, Removal DEF Cnt
<1>5. Cardinality((At(s, S) \ {i}) \cup {i}) = Cardinality(At(s, S) \ {i}) + 1
  BY <1>4, FS_AddElement
<1> HIDE DEF t
<1> QED
  BY <1>1, <1>2, <1>3, <1>4, <1>5 DEF Cnt, Bit, t

\* s without its i-th element.
Dropped(s, i) == [k \in 1..(Len(s) - 1) |-> IF k < i THEN s[k] ELSE s[k + 1]]

LEMMA CntDropped ==
  ASSUME NEW X, NEW s \in Seq(X), NEW i \in DOMAIN s, NEW S
  PROVE  Cnt(Dropped(s, i), S) = Cnt(s, S) - Bit(s[i] \in S)
<1> DEFINE low == {k \in At(s, S) : k < i}
           high == {k \in At(s, S) : k > i}
           down == {k + (-1) : k \in high}
<1>1. IsFiniteSet(At(s, S)) /\ Cnt(s, S) \in Nat /\ At(s, S) \subseteq 1..Len(s)
  BY AtFinite
<1>2. Len(s) \in Nat /\ i \in 1..Len(s)
  OBVIOUS
<1>3. IsFiniteSet(low) /\ IsFiniteSet(high) /\ high \subseteq Int
  BY <1>1, FS_Subset
<1>4. IsFiniteSet(down) /\ Cardinality(down) = Cardinality(high)
  <2> HIDE DEF high
  <2>1. -1 \in Int
    OBVIOUS
  <2> QED
    BY <1>3, <2>1, Shift
<1>5. low \cap down = {}
  BY <1>1, <1>2
<1>6. low \cap high = {}
  BY <1>1, <1>2
<1>7. At(s, S) \ {i} = low \cup high
  BY <1>1, <1>2
<1>8. At(Dropped(s, i), S) = low \cup down
  <2>1. DOMAIN Dropped(s, i) = 1..(Len(s) - 1)
    BY DEF Dropped
  <2>2. ASSUME NEW k \in At(Dropped(s, i), S) PROVE k \in low \cup down
    <3>1. k \in 1..(Len(s) - 1) /\ (IF k < i THEN s[k] ELSE s[k + 1]) \in S
      BY <2>1 DEF At, Dropped
    <3>2. CASE k < i
      BY <1>2, <3>1, <3>2 DEF At
    <3>3. CASE ~(k < i)
      <4>1. k + 1 \in high
        BY <1>2, <3>1, <3>3 DEF At
      <4>2. k = (k + 1) + (-1)
        BY <3>1
      <4> QED
        BY <4>1, <4>2
    <3> QED
      BY <3>2, <3>3
  <2>3. ASSUME NEW k \in low PROVE k \in At(Dropped(s, i), S)
    <3>1. k \in 1..(Len(s) - 1) /\ k < i /\ s[k] \in S
      BY <1>2 DEF At
    <3> QED
      BY <2>1, <3>1 DEF At, Dropped
  <2>4. ASSUME NEW k \in down PROVE k \in At(Dropped(s, i), S)
    <3>1. PICK m \in high : k = m + (-1)
      OBVIOUS
    <3>2. m \in 1..Len(s) /\ m > i /\ s[m] \in S
      BY <3>1 DEF At
    <3>3. k \in 1..(Len(s) - 1) /\ ~(k < i) /\ k + 1 = m
      BY <1>2, <3>1, <3>2
    <3> QED
      BY <2>1, <3>2, <3>3 DEF At, Dropped
  <2> QED
    BY <2>2, <2>3, <2>4
<1>9. i \in At(s, S) <=> s[i] \in S
  BY DEF At
<1> HIDE DEF low, high, down
<1>10. Cardinality(low \cup down) = Cardinality(low) + Cardinality(high)
  BY <1>3, <1>4, <1>5, DisjointUnion
<1>11. Cardinality(low \cup high) = Cardinality(low) + Cardinality(high)
  BY <1>3, <1>6, DisjointUnion
<1>12. Cardinality(At(s, S) \ {i}) = Cnt(s, S) - Bit(s[i] \in S)
  <2>1. Bit(i \in At(s, S)) = Bit(s[i] \in S)
    BY <1>9 DEF Bit
  <2> QED
    BY <1>1, <2>1, Removal DEF Cnt
<1> QED
  BY <1>7, <1>8, <1>10, <1>11, <1>12 DEF Cnt

LEMMA CntAlike ==
  ASSUME NEW X, NEW s \in Seq(X), NEW S, NEW t, NEW T, DOMAIN t = DOMAIN s,
         \A i \in DOMAIN s : s[i] \in S <=> t[i] \in T
  PROVE  Cnt(t, T) = Cnt(s, S)
<1>1. At(t, T) = At(s, S)
  BY DEF At
<1> QED
  BY <1>1 DEF Cnt

LEMMA CntPositive ==
  ASSUME NEW X, NEW s \in Seq(X), NEW S
  PROVE  (\E e \in Elems(s) : e \in S) <=> Cnt(s, S) > 0
<1>1. IsFiniteSet(At(s, S)) /\ Cnt(s, S) \in Nat
  BY AtFinite
<1>2. Cnt(s, S) = 0 <=> At(s, S) = {}
  BY <1>1, FS_EmptySet DEF Cnt
<1>3. At(s, S) # {} <=> \E e \in Elems(s) : e \in S
  BY DEF At, Elems
<1> QED
  BY <1>1, <1>2, <1>3

LEMMA CntSplit ==
  ASSUME NEW X, NEW s \in Seq(X), NEW S, NEW T, S \cap T = {}
  PROVE  Cnt(s, S \cup T) = Cnt(s, S) + Cnt(s, T)
<1>1. IsFiniteSet(At(s, S)) /\ IsFiniteSet(At(s, T)) /\ Cnt(s, S) \in Nat /\ Cnt(s, T) \in Nat
  BY AtFinite
<1>2. At(s, S \cup T) = At(s, S) \cup At(s, T) /\ At(s, S) \cap At(s, T) = {}
  BY DEF At
<1> QED
  BY <1>1, <1>2, DisjointUnion DEF Cnt

LEMMA ElemsOf ==
  ASSUME NEW X, NEW s \in Seq(X)
  PROVE  /\ Elems(s) \subseteq X
         /\ \A i \in DOMAIN s : s[i] \in Elems(s)
         /\ \A e : Elems(Append(s, e)) = Elems(s) \cup {e}
         /\ s # <<>> => Head(s) \in Elems(s) /\ Elems(Tail(s)) \subseteq Elems(s)
  <1>1. Elems(s) \subseteq X /\ \A i \in DOMAIN s : s[i] \in Elems(s)
    BY DEF Elems
  <1>2. ASSUME NEW e PROVE Elems(Append(s, e)) = Elems(s) \cup {e}
    <2>1. \A i \in 1..Len(s) : Append(s, e)[i] = s[i]
      OBVIOUS
    <2>2. Append(s, e)[Len(s) + 1] = e /\ DOMAIN Append(s, e) = 1..(Len(s) + 1)
      OBVIOUS
    <2>3. /\ Len(s) \in Nat /\ DOMAIN s = 1..Len(s) /\ Len(s) + 1 \in 1..(Len(s) + 1)
          /\ \A i \in 1..(Len(s) + 1) : i \in 1..Len(s) \/ i = Len(s) + 1
          /\ \A i \in 1..Len(s) : i \in 1..(Len(s) + 1)
      OBVIOUS
    <2> QED
      BY <2>1, <2>2, <2>3 DEF Elems
  <1>3. s # <<>> => Head(s) \in Elems(s) /\ Elems(Tail(s)) \subseteq Elems(s)
    BY DEF Elems
  <1> QED
    BY <1>1, <1>2, <1>3

LEMMA ElemsConcat ==
  ASSUME NEW X, NEW s \in Seq(X), NEW t \in Seq(X)
  PROVE  Elems(s \o t) = Elems(s) \cup Elems(t)
<1>1. ASSUME NEW e \in Elems(s \o t) PROVE e \in Elems(s) \cup Elems(t)
  <2>1. PICK i \in DOMAIN (s \o t) : e = (s \o t)[i]
    BY DEF Elems
  <2>2. CASE i <= Len(s)
    <3>1. i \in DOMAIN s /\ e = s[i]
      BY <2>1, <2>2
    <3> QED
      BY <3>1 DEF Elems
  <2>3. CASE i > Len(s)
    <3>1. i - Len(s) \in DOMAIN t /\ e = t[i - Len(s)]
      BY <2>1, <2>3
    <3> QED
      BY <3>1 DEF Elems
  <2> QED
    BY <2>2, <2>3
<1>2. \A i \in DOMAIN s : i \in DOMAIN (s \o t) /\ (s \o t)[i] = s[i]
  OBVIOUS
<1>3. \A i \in DOMAIN t : i + Len(s) \in DOMAIN (s \o t) /\ (s \o t)[i + Len(s)] = t[i]
  OBVIOUS
<1>4. Elems(s) \subseteq Elems(s \o t)
  BY <1>2 DEF Elems
<1>5. Elems(t) \subseteq Elems(s \o t)
  BY <1>3 DEF Elems
<1> QED
  BY <1>1, <1>4, <1>5

LEMMA ElemsDropped ==
  ASSUME NEW X, NEW s \in Seq(X), NEW i \in DOMAIN s
  PROVE  Elems(Dropped(s, i)) \subseteq Elems(s)
<1>1. DOMAIN Dropped(s, i) = 1..(Len(s) - 1) /\ DOMAIN s = 1..Len(s) /\ Len(s) \in Nat
  BY DEF Dropped
<1>2. \A k \in 1..(Len(s) - 1) : Dropped(s, i)[k] \in Elems(s)
  <2> SUFFICES ASSUME NEW k \in 1..(Len(s) - 1) PROVE Dropped(s, i)[k] \in Elems(s)
    OBVIOUS
  <2>1. k \in 1..Len(s) /\ k + 1 \in 1..Len(s)
    BY <1>1
  <2>2. Dropped(s, i)[k] = s[k] \/ Dropped(s, i)[k] = s[k + 1]
    BY DEF Dropped
  <2> QED
    BY <1>1, <2>1, <2>2 DEF Elems
<1> QED
  BY <1>1, <1>2 DEF Elems

LEMMA ElemsExcept ==
  ASSUME NEW X, NEW s \in Seq(X), NEW i \in DOMAIN s, NEW e
  PROVE  Elems([s EXCEPT ![i] = e]) \subseteq Elems(s) \cup {e}
  BY DEF Elems

-----------------------------------------------------------------------------
(***************************************************************************)
(* The invariant.  Each connection is Sound: it has at most one thing in   *)
(* flight, whose place in the ring, position and result fit its payload.   *)
(***************************************************************************)

\* While the worker serves, what it has sent is still in the ring; closing by
\* force and leaving give that up.
Serving == pc \notin {"force", "exited", "failed"}

ConnOf(id) == connections[idToFd[id]]
Active(id) == ConnOf(id).activeSend
IsActive(id) == idToFd[id] # NoFd /\ HasSend(ConnOf(id))
IsWaiting(id) == idToFd[id] # NoFd /\ Active(id).waiting

\* The places a send of a connection passes through: an entry, an operation,
\* a buffer the kernel holds; and its completions: the first of the two of a
\* zero-copy send, the only one of another, the notification.
Queued(id) == {e \in Entry : e.op = "send" /\ e.id = id}
InKernel(id) == {o \in Operation : o.op = "send" /\ o.id = id}
Held(id) == {o \in Operation : o.op = "hold" /\ o.id = id}
Firsts(id) == {e \in Completion : e.op = "send" /\ e.id = id /\ e.more}
Finals(id) == {e \in Completion : e.op = "send" /\ e.id = id /\ ~e.more /\ ~e.notif}
Notifs(id) == {e \in Completion : e.op = "send" /\ e.id = id /\ ~e.more /\ e.notif}

NQ(id) == Cnt(sq, Queued(id))
NK(id) == Cnt(ops, InKernel(id))
NH(id) == Cnt(ops, Held(id))
NM(id) == Cnt(Pending, Firsts(id))
NF(id) == Cnt(Pending, Finals(id))
NN(id) == Cnt(Pending, Notifs(id))

FirstsFirst(s, id) == \A i, j \in DOMAIN s :
  s[i] \in Firsts(id) /\ s[j] \in Notifs(id) => i < j

\* A result the kernel may give for the payload a: an error, or as many bytes
\* as were asked for at most.
ResultOf(a, r) == r = -1 \/ (r \in Int /\ r > 0 /\ a.offset + r <= a.len)

\* The entry or operation o does what the payload a asks for.
Carries(o, a) ==
  /\ o.pos = a.start + a.offset /\ o.rem = a.len - a.offset
  /\ o.slot = a.slot /\ o.zeroCopy = a.zeroCopy

\* What has left on the wire w: an open connection has sent exactly the first
\* n positions, a closing one none after n.
Gone(w, closing, n) ==
  IF closing THEN Streams!LastOf(w) <= n ELSE w = [k \in 1..n |-> k]
\* How far the stream is after the result r for the payload a.
Plus(a, r) == a.start + a.offset + (IF r > 0 THEN r ELSE 0)
Reached(id, n) == Gone(wire[sockOf[id]], ConnOf(id).closeAfterSend, n)

EntryOK(id, e) == /\ e.fd = idToFd[id] /\ Carries(e, Active(id))
                  /\ Reached(id, Plus(Active(id), 0))
SendOK(id, o) == Carries(o, Active(id)) /\ Reached(id, Plus(Active(id), 0))
HoldOK(id, o) == Carries(o, Active(id)) /\ o.zeroCopy
ResultOK(id, r) == ResultOf(Active(id), r) /\ Reached(id, Plus(Active(id), r))

\* A connection has one thing in flight when it has an active payload and
\* none otherwise.
OneToken(id) == NQ(id) + NK(id) + NH(id) + NF(id) + NN(id) = Bit(IsActive(id))
\* A buffer the kernel holds, or its notification, belongs to a first
\* completion that is still to come or was stored in the payload.
HoldsPaired(id) == NH(id) + NN(id) = NM(id) + Bit(IsWaiting(id))
EntriesMatch(id) == \A e \in Elems(sq) : e \in Queued(id) => EntryOK(id, e)
OpsMatch(id) == \A o \in Elems(ops) : /\ o \in InKernel(id) => SendOK(id, o)
                                      /\ o \in Held(id) => HoldOK(id, o)
ResultsMatch(id) ==
  /\ \A e \in Elems(Pending) :
       /\ e.op = "send" /\ e.id = id => ~(e.notif /\ e.more)
       /\ e \in Firsts(id) \cup Finals(id) => ResultOK(id, e.result)
       /\ e \in Firsts(id) => Active(id).zeroCopy
  /\ IsWaiting(id) => ResultOK(id, Active(id).result)
AllSent(id) == idToFd[id] # NoFd /\ ~IsActive(id) => Reached(id, accepted[id])

Sound(id) ==
  /\ OneToken(id)
  /\ HoldsPaired(id)
  /\ FirstsFirst(Pending, id)
  /\ EntriesMatch(id)
  /\ OpsMatch(id)
  /\ ResultsMatch(id)
  /\ AllSent(id)

Fresh(p) == p.len > 0 /\ p.offset = 0 /\ ~p.waiting
WellFormed(c) ==
  /\ ~HasSend(c) => c.activeSend = NoSend /\ c.sendQueue = <<>>
  /\ HasSend(c) => c.activeSend.offset < c.activeSend.len
  /\ Len(c.sendQueue) <= SendQueueCapacity
  /\ \A i \in DOMAIN c.sendQueue : Fresh(c.sendQueue[i])
Shape == \A fd \in Fds : WellFormed(connections[fd]) /\ (~Live(fd) => ~HasSend(connections[fd]))

Upto(p) == p.start + p.len
Fed(c, n) ==
  /\ HasSend(c) => Upto(c.activeSend) <= n
  /\ \A i \in DOMAIN c.sendQueue : Upto(c.sendQueue[i]) <= n
  /\ \A i \in DOMAIN c.sendQueue :
       c.sendQueue[i].start = IF i = 1 THEN Upto(c.activeSend) ELSE Upto(c.sendQueue[i - 1])
  /\ HasSend(c) => n = Upto(IF c.sendQueue = <<>> THEN c.activeSend ELSE c.sendQueue[Len(c.sendQueue)])
AllFed == \A fd \in Fds : Live(fd) => Fed(connections[fd], accepted[connections[fd].id])

OwnSockets == \A o \in Elems(ops) : o.op \in {"send", "hold"} => o.sock = sockOf[o.id]

\* ids and sockets not used yet
Unborn ==
  /\ \A id \in Ids : id >= nextId => sockOf[id] = 0 /\ accepted[id] = 0 /\ events[id] = <<>>
  /\ \A id \in Ids : id < nextId => sockOf[id] # 0 /\ events[id] # <<>>
SocketsOrdered ==
  /\ \A id \in Ids : sockOf[id] < nextSock
  /\ \A id \in Ids, i \in DOMAIN Pending : IsAccept(Pending[i]) => sockOf[id] < fdSock[Pending[i].fd]
  /\ \A id, jd \in Ids : sockOf[id] = sockOf[jd] /\ sockOf[id] # 0 => id = jd
Silent == \A s \in Socks : (\A id \in Ids : sockOf[id] # s) => wire[s] = <<>>

SInv ==
  /\ TInv
  /\ Serving => \A id \in Ids : Sound(id)
  /\ Shape
  /\ AllFed
  /\ OwnSockets
  /\ Unborn
  /\ SocketsOrdered
  /\ Silent

WithSlot(s) == {p \in PendingSend : p.slot = s}
\* How often the payloads of c hold the slot s.
Slotted(c, s) == Cnt(c.sendQueue, WithSlot(s)) + Bit(c.activeSend.slot = s)

LEMMA PayloadTypes ==
  ASSUME NEW p \in PendingSend
  PROVE  /\ p.start \in Nat /\ p.offset \in Nat /\ p.len \in Nat /\ p.result \in Int
         /\ p.slot \in Slots \cup {NoSlot} /\ p.zeroCopy \in BOOLEAN
         /\ p.waiting \in BOOLEAN
  BY DEF PendingSend

LEMMA SlottedType ==
  ASSUME NEW c \in Connection, NEW s
  PROVE  /\ Cnt(c.sendQueue, WithSlot(s)) \in Nat /\ Slotted(c, s) \in Nat
         /\ Cnt(SendsOf(c), WithSlot(s)) = Slotted(c, s)
<1>1. c.sendQueue \in Seq(PendingSend) /\ c.activeSend \in PendingSend
  BY ConnectionFields
<1>2. Cnt(c.sendQueue, WithSlot(s)) \in Nat
  BY <1>1, AtFinite
<1>3. c.activeSend \in WithSlot(s) <=> c.activeSend.slot = s
  BY <1>1 DEF WithSlot
<1>4. Cnt(Append(c.sendQueue, c.activeSend), WithSlot(s))
        = Cnt(c.sendQueue, WithSlot(s)) + Bit(c.activeSend \in WithSlot(s))
  BY <1>1, CntAppend
<1> QED
  BY <1>2, <1>3, <1>4 DEF Slotted, Bit, SendsOf

LEMMA ReleasedAt ==
  ASSUME NEW pool \in [Slots -> Nat], NEW q \in Seq(PendingSend), NEW s \in Slots
  PROVE  Released(pool, q)[s] = pool[s] + Cnt(q, WithSlot(s))
<1>1. At(q, WithSlot(s)) = {i \in DOMAIN q : q[i].slot = s}
  BY DEF At, WithSlot
<1> QED
  BY <1>1 DEF Released, Cnt

LEMMA ReleasedOne ==
  ASSUME NEW pool \in [Slots -> Nat], NEW a \in PendingSend, NEW s \in Slots
  PROVE  Released(pool, <<a>>)[s] = pool[s] + Bit(a.slot = s)
<1> DEFINE none == <<>>
           one == Append(none, a)
<1>1. none \in Seq(PendingSend) /\ one \in Seq(PendingSend) /\ one = <<a>>
  OBVIOUS
<1>2. Cnt(none, WithSlot(s)) = 0
  BY CntEmpty
<1>3. Cnt(one, WithSlot(s)) = Cnt(none, WithSlot(s)) + Bit(a \in WithSlot(s))
  <2> HIDE DEF none
  <2> QED
    BY <1>1, CntAppend
<1>4. Bit(a \in WithSlot(s)) = Bit(a.slot = s)
  BY DEF WithSlot, Bit
<1>5. Released(pool, one)[s] = pool[s] + Cnt(one, WithSlot(s))
  <2> HIDE DEF one
  <2> QED
    BY <1>1, ReleasedAt
<1>6. Bit(a.slot = s) \in Nat
  BY DEF Bit
<1> HIDE DEF one, none
<1> QED
  BY <1>1, <1>2, <1>3, <1>4, <1>5, <1>6

-----------------------------------------------------------------------------
(***************************************************************************)
(* What the ways to change the payloads of a connection do to its form, to *)
(* the positions it covers and to the slots it holds.                      *)
(***************************************************************************)

\* queue_tcp_send behind an active payload.
LEMMA AppendedSend ==
  ASSUME NEW c \in Connection, NEW d \in Connection, NEW p \in PendingSend,
         WellFormed(c), HasSend(c), Len(c.sendQueue) < SendQueueCapacity, Fresh(p),
         d.activeSend = c.activeSend, d.sendQueue = Append(c.sendQueue, p)
  PROVE  /\ WellFormed(d)
         /\ \A n \in Nat : Fed(c, n) /\ p.start = n => Fed(d, n + p.len)
         /\ \A s \in Slots : Slotted(d, s) = Slotted(c, s) + Bit(p.slot = s)
<1>1. /\ c.sendQueue \in Seq(PendingSend) /\ c.activeSend \in PendingSend
      /\ p.len \in Nat /\ p.start \in Nat
      /\ \A i \in DOMAIN c.sendQueue : c.sendQueue[i] \in PendingSend
  BY ConnectionFields, PayloadTypes
<1>2. /\ Len(d.sendQueue) = Len(c.sendQueue) + 1 /\ d.sendQueue # <<>>
      /\ DOMAIN d.sendQueue = 1..(Len(c.sendQueue) + 1)
      /\ DOMAIN c.sendQueue = 1..Len(c.sendQueue) /\ Len(c.sendQueue) \in Nat
      /\ \A i \in 1..Len(c.sendQueue) : d.sendQueue[i] = c.sendQueue[i]
      /\ d.sendQueue[Len(c.sendQueue) + 1] = p
  BY <1>1
<1>3. WellFormed(d)
  <2>1. \A i \in DOMAIN d.sendQueue : Fresh(d.sendQueue[i])
    <3> SUFFICES ASSUME NEW i \in DOMAIN d.sendQueue PROVE Fresh(d.sendQueue[i])
      OBVIOUS
    <3>1. CASE i \in 1..Len(c.sendQueue)
      BY <1>2, <3>1 DEF WellFormed
    <3>2. CASE i = Len(c.sendQueue) + 1
      BY <1>2, <3>2
    <3> QED
      BY <1>2, <3>1, <3>2
  <2>2. HasSend(d) /\ d.activeSend.offset < d.activeSend.len
    BY DEF WellFormed, HasSend
  <2>3. Len(d.sendQueue) <= SendQueueCapacity
    BY <1>2, NumberAssumption
  <2> QED
    BY <2>1, <2>2, <2>3 DEF WellFormed
<1>4. ASSUME NEW n \in Nat, Fed(c, n), p.start = n
      PROVE  Fed(d, n + p.len)
  <2>1. Upto(p) = n + p.len /\ n + p.len \in Nat /\ n <= n + p.len
    BY <1>1, <1>4 DEF Upto
  <2>2. \A q \in PendingSend : Upto(q) \in Nat
    BY PayloadTypes DEF Upto
  <2>3. HasSend(d) => Upto(d.activeSend) <= n + p.len
    BY <1>1, <1>4, <2>1, <2>2 DEF Fed, HasSend
  <2>4. \A i \in DOMAIN d.sendQueue : Upto(d.sendQueue[i]) <= n + p.len
    <3> SUFFICES ASSUME NEW i \in DOMAIN d.sendQueue
                 PROVE  Upto(d.sendQueue[i]) <= n + p.len
      OBVIOUS
    <3>1. CASE i \in 1..Len(c.sendQueue)
      <4>1. Upto(c.sendQueue[i]) <= n /\ Upto(c.sendQueue[i]) \in Nat
        BY <1>1, <1>2, <1>4, <2>2, <3>1 DEF Fed
      <4> QED
        BY <1>2, <2>1, <3>1, <4>1
    <3>2. CASE i = Len(c.sendQueue) + 1
      BY <1>2, <2>1, <3>2
    <3> QED
      BY <1>2, <3>1, <3>2
  <2>5. \A i \in DOMAIN d.sendQueue : d.sendQueue[i].start =
          IF i = 1 THEN Upto(d.activeSend) ELSE Upto(d.sendQueue[i - 1])
    <3> SUFFICES ASSUME NEW i \in DOMAIN d.sendQueue
                 PROVE  d.sendQueue[i].start =
                          IF i = 1 THEN Upto(d.activeSend) ELSE Upto(d.sendQueue[i - 1])
      OBVIOUS
    <3>1. CASE i \in 1..Len(c.sendQueue)
      <4>1. i # 1 => i - 1 \in 1..Len(c.sendQueue)
        BY <1>2, <3>1
      <4> QED
        BY <1>2, <1>4, <3>1, <4>1 DEF Fed
    <3>2. CASE i = Len(c.sendQueue) + 1
      <4>1. n = Upto(IF c.sendQueue = <<>> THEN c.activeSend
                     ELSE c.sendQueue[Len(c.sendQueue)])
        BY <1>4 DEF Fed
      <4>2. CASE c.sendQueue = <<>>
        <5>1. i = 1
          BY <3>2, <4>2
        <5> QED
          BY <1>2, <1>4, <3>2, <4>1, <4>2, <5>1
      <4>3. CASE c.sendQueue # <<>>
        <5>1. i # 1 /\ i - 1 = Len(c.sendQueue) /\ Len(c.sendQueue) \in 1..Len(c.sendQueue)
          BY <1>1, <1>2, <3>2, <4>3
        <5> QED
          BY <1>2, <1>4, <3>2, <4>1, <4>3, <5>1
      <4> QED
        BY <4>2, <4>3
    <3> QED
      BY <1>2, <3>1, <3>2
  <2> QED
    BY <1>2, <2>1, <2>3, <2>4, <2>5 DEF Fed
<1>5. ASSUME NEW s \in Slots
      PROVE  Slotted(d, s) = Slotted(c, s) + Bit(p.slot = s)
  <2>1. Cnt(d.sendQueue, WithSlot(s)) = Cnt(c.sendQueue, WithSlot(s)) + Bit(p \in WithSlot(s))
    BY <1>1, CntAppend
  <2>2. Bit(p \in WithSlot(s)) = Bit(p.slot = s) /\ Bit(p.slot = s) \in Nat
    BY DEF WithSlot, Bit
  <2>3. Cnt(c.sendQueue, WithSlot(s)) \in Nat /\ Bit(c.activeSend.slot = s) \in Nat
    BY SlottedType DEF Bit
  <2> QED
    BY <2>1, <2>2, <2>3 DEF Slotted
<1> QED
  BY <1>3, <1>4, <1>5

\* queue_tcp_send with nothing active.
LEMMA StartedSend ==
  ASSUME NEW c \in Connection, NEW d \in Connection, NEW p \in PendingSend,
         WellFormed(c), ~HasSend(c), Fresh(p),
         d.activeSend = p, d.sendQueue = c.sendQueue
  PROVE  /\ WellFormed(d) /\ HasSend(d)
         /\ \A n \in Nat : p.start = n => Fed(d, n + p.len)
         /\ \A s \in Slots : Slotted(d, s) = Slotted(c, s) + Bit(p.slot = s)
<1>1. /\ c.activeSend = NoSend /\ c.sendQueue = <<>> /\ d.sendQueue = <<>>
      /\ DOMAIN d.sendQueue = {} /\ Len(d.sendQueue) = 0
  BY DEF WellFormed
<1>2. p.len \in Nat /\ p.start \in Nat /\ p.len > 0 /\ p.offset = 0
  BY PayloadTypes DEF Fresh
<1>3. WellFormed(d) /\ HasSend(d)
  BY <1>1, <1>2, NumberAssumption DEF WellFormed, HasSend
<1>4. \A n \in Nat : p.start = n => Fed(d, n + p.len)
  BY <1>1, <1>2 DEF Fed, Upto
<1>5. ASSUME NEW s \in Slots
      PROVE  Slotted(d, s) = Slotted(c, s) + Bit(p.slot = s)
  <2>1. NoSend.slot # s
    BY SlotAssumption DEF NoSend
  <2> QED
    BY <1>1, <2>1, CntEmpty DEF Slotted, Bit
<1> QED
  BY <1>3, <1>4, <1>5

\* finish_tcp_send_completion takes the next payload.
LEMMA NextSend ==
  ASSUME NEW c \in Connection, NEW d \in Connection,
         WellFormed(c), HasSend(c), c.sendQueue # <<>>,
         d.activeSend = Head(c.sendQueue), d.sendQueue = Tail(c.sendQueue)
  PROVE  /\ WellFormed(d) /\ HasSend(d) /\ ~d.activeSend.waiting
         /\ \A n \in Nat : Fed(c, n) =>
              Fed(d, n) /\ Plus(d.activeSend, 0) = Upto(c.activeSend)
         /\ \A s \in Slots : Slotted(d, s) + Bit(c.activeSend.slot = s) = Slotted(c, s)
<1> DEFINE q == c.sendQueue
<1>1. /\ q \in Seq(PendingSend) /\ Len(q) \in Nat \ {0} /\ Len(d.sendQueue) = Len(q) - 1
      /\ DOMAIN q = 1..Len(q) /\ DOMAIN d.sendQueue = 1..(Len(q) - 1)
      /\ d.activeSend = q[1] /\ q[1] \in PendingSend
      /\ \A i \in 1..(Len(q) - 1) : d.sendQueue[i] = q[i + 1]
  BY ConnectionFields
<1>2. Fresh(q[1]) /\ q[1].len \in Nat /\ q[1].start \in Nat
  BY <1>1, PayloadTypes DEF WellFormed
<1>3. WellFormed(d) /\ HasSend(d) /\ ~d.activeSend.waiting
  <2>1. \A i \in 1..(Len(q) - 1) : i + 1 \in 1..Len(q)
    BY <1>1
  <2>2. \A i \in DOMAIN d.sendQueue : Fresh(d.sendQueue[i])
    BY <1>1, <2>1 DEF WellFormed
  <2>3. HasSend(d) /\ d.activeSend.offset < d.activeSend.len /\ ~d.activeSend.waiting
    BY <1>1, <1>2 DEF Fresh, HasSend
  <2>4. Len(d.sendQueue) <= SendQueueCapacity
    BY <1>1, NumberAssumption DEF WellFormed
  <2> QED
    BY <2>2, <2>3, <2>4 DEF WellFormed
<1>4. ASSUME NEW n \in Nat, Fed(c, n)
      PROVE  Fed(d, n) /\ Plus(d.activeSend, 0) = Upto(c.activeSend)
  <2>1. \A i \in 1..(Len(q) - 1) : i + 1 \in 1..Len(q) /\ i + 1 # 1 /\ (i + 1) - 1 = i
    BY <1>1
  <2>2. Upto(d.activeSend) <= n
    BY <1>1, <1>4 DEF Fed
  <2>3. \A i \in DOMAIN d.sendQueue : Upto(d.sendQueue[i]) <= n
    BY <1>1, <1>4, <2>1 DEF Fed
  <2>4. \A i \in DOMAIN d.sendQueue : d.sendQueue[i].start =
          IF i = 1 THEN Upto(d.activeSend) ELSE Upto(d.sendQueue[i - 1])
    <3> SUFFICES ASSUME NEW i \in 1..(Len(q) - 1)
                 PROVE  q[i + 1].start =
                          IF i = 1 THEN Upto(q[1]) ELSE Upto(d.sendQueue[i - 1])
      BY <1>1
    <3>1. q[i + 1].start = Upto(q[i])
      BY <1>1, <1>4, <2>1 DEF Fed
    <3>2. i # 1 => i - 1 \in 1..(Len(q) - 1) /\ (i - 1) + 1 = i
      BY <1>1
    <3> QED
      BY <1>1, <3>1, <3>2
  <2>5. n = Upto(q[Len(q)])
    BY <1>1, <1>4 DEF Fed
  <2>6. n = Upto(IF d.sendQueue = <<>> THEN d.activeSend ELSE d.sendQueue[Len(d.sendQueue)])
    <3>1. CASE d.sendQueue = <<>>
      <4>1. Len(d.sendQueue) = 0
        <5>1. Len(<<>>) = 0
          OBVIOUS
        <5> HIDE DEF q
        <5> QED
          BY <3>1, <5>1
      <4>2. Len(q) = 1
        BY <1>1, <4>1
      <4> QED
        BY <1>1, <2>5, <3>1, <4>2
    <3>2. CASE d.sendQueue # <<>>
      <4>1. d.sendQueue \in Seq(PendingSend)
        BY ConnectionFields
      <4>2. Len(q) - 1 \in 1..(Len(q) - 1)
        BY <1>1, <3>2, <4>1
      <4>3. d.sendQueue[Len(q) - 1] = q[Len(q)]
        BY <1>1, <4>2
      <4> QED
        BY <1>1, <2>5, <3>2, <4>3
    <3> QED
      BY <3>1, <3>2
  <2>7. Fed(d, n)
    BY <2>2, <2>3, <2>4, <2>6 DEF Fed
  <2>8. q[1].start = Upto(c.activeSend)
    BY <1>1, <1>4 DEF Fed
  <2>9. Plus(q[1], 0) = q[1].start
    BY <1>2 DEF Plus, Fresh
  <2> QED
    BY <1>1, <2>7, <2>8, <2>9
<1>5. ASSUME NEW s \in Slots
      PROVE  Slotted(d, s) + Bit(c.activeSend.slot = s) = Slotted(c, s)
  <2>1. Cnt(d.sendQueue, WithSlot(s)) = Cnt(q, WithSlot(s)) - Bit(Head(q) \in WithSlot(s))
    BY <1>1, CntTail
  <2>2. Bit(Head(q) \in WithSlot(s)) = Bit(d.activeSend.slot = s)
    BY <1>1 DEF WithSlot, Bit
  <2>3. /\ Cnt(c.sendQueue, WithSlot(s)) \in Nat
        /\ Bit(c.activeSend.slot = s) \in Nat /\ Bit(d.activeSend.slot = s) \in Nat
    BY SlottedType DEF Bit
  <2> QED
    BY <2>1, <2>2, <2>3 DEF Slotted
<1> QED
  BY <1>3, <1>4, <1>5

\* ... or finds none.
LEMMA EndedSend ==
  ASSUME NEW c \in Connection, NEW d \in Connection,
         c.sendQueue = <<>>, d.activeSend = NoSend, d.sendQueue = c.sendQueue
  PROVE  /\ WellFormed(d) /\ ~HasSend(d)
         /\ \A n \in Nat : Fed(d, n)
         /\ \A n \in Nat : Fed(c, n) /\ HasSend(c) => n = Upto(c.activeSend)
         /\ \A s \in Slots : /\ Slotted(d, s) = 0
                             /\ Slotted(c, s) = Bit(c.activeSend.slot = s)
<1>1. d.sendQueue = <<>> /\ DOMAIN d.sendQueue = {} /\ Len(d.sendQueue) = 0
  OBVIOUS
<1>2. ~HasSend(d)
  BY DEF HasSend, NoSend
<1>3. WellFormed(d)
  BY <1>1, <1>2, NumberAssumption DEF WellFormed
<1>4. \A n \in Nat : Fed(d, n)
  BY <1>1, <1>2 DEF Fed
<1>5. \A n \in Nat : Fed(c, n) /\ HasSend(c) => n = Upto(c.activeSend)
  BY DEF Fed
<1>6. ASSUME NEW s \in Slots
      PROVE  Slotted(d, s) = 0 /\ Slotted(c, s) = Bit(c.activeSend.slot = s)
  <2>1. NoSend.slot # s
    BY SlotAssumption DEF NoSend
  <2>2. Cnt(<<>>, WithSlot(s)) = 0
    BY CntEmpty
  <2> QED
    BY <2>1, <2>2 DEF Slotted, Bit
<1> QED
  BY <1>2, <1>3, <1>4, <1>5, <1>6

\* The active payload goes on, is retried, or waits.
LEMMA ChangedSend ==
  ASSUME NEW c \in Connection, NEW d \in Connection,
         WellFormed(c), HasSend(c), d.sendQueue = c.sendQueue,
         d.activeSend.start = c.activeSend.start, d.activeSend.len = c.activeSend.len,
         d.activeSend.offset < d.activeSend.len
  PROVE  /\ WellFormed(d) /\ HasSend(d)
         /\ \A n \in Nat : Fed(c, n) => Fed(d, n)
         /\ \A s \in Slots :
              Slotted(d, s) + Bit(c.activeSend.slot = s)
                = Slotted(c, s) + Bit(d.activeSend.slot = s)
<1>1. WellFormed(d) /\ HasSend(d)
  BY DEF WellFormed, HasSend
<1>2. Upto(d.activeSend) = Upto(c.activeSend)
  BY DEF Upto
<1>3. \A n \in Nat : Fed(c, n) => Fed(d, n)
  BY <1>1, <1>2 DEF Fed, HasSend
<1>4. ASSUME NEW s \in Slots
      PROVE  Slotted(d, s) + Bit(c.activeSend.slot = s)
               = Slotted(c, s) + Bit(d.activeSend.slot = s)
  BY SlottedType DEF Slotted, Bit
<1> QED
  BY <1>1, <1>3, <1>4

-----------------------------------------------------------------------------
(***************************************************************************)
(* finish_tcp_send_completion: in each of its cases the record follows     *)
(* from the one before, as far as bytes and slots go.                      *)
(***************************************************************************)

LEMMA GoneWeaken ==
  ASSUME NEW w \in Seq(Nat), NEW closing \in BOOLEAN, NEW n \in Nat, NEW m \in Nat,
         n <= m, Gone(w, closing, n)
  PROVE  Gone(w, TRUE, m)
<1>1. CASE closing
  <2>1. Streams!LastOf(w) \in Nat
    <3>1. w # <<>> => w[Len(w)] \in Nat
      OBVIOUS
    <3> QED
      BY <3>1 DEF Streams!LastOf
  <2>2. Streams!LastOf(w) <= n
    BY <1>1 DEF Gone
  <2>3. Streams!LastOf(w) <= m
    BY <2>1, <2>2
  <2> QED
    BY <2>3 DEF Gone
<1>2. CASE ~closing
  <2>1. w = [k \in 1..n |-> k]
    BY <1>2 DEF Gone
  <2>2. Len(w) = n /\ (n # 0 => w[n] = n)
    BY <2>1
  <2>3. Streams!LastOf(w) <= m
    <3>1. CASE w = <<>>
      BY <3>1 DEF Streams!LastOf
    <3>2. CASE w # <<>>
      <4>1. n # 0
        BY <2>2, <3>2
      <4> QED
        BY <2>2, <3>2, <4>1 DEF Streams!LastOf
    <3> QED
      BY <3>1, <3>2
  <2> QED
    BY <2>3 DEF Gone
<1> QED
  BY <1>1, <1>2

\* The connection record after finish_tcp_send_completion.
Follows(c, d, pool, r) ==
  /\ d.id = c.id /\ WellFormed(d) /\ ~d.activeSend.waiting
  /\ c.closeAfterSend => d.closeAfterSend
  /\ \A s \in Slots : pool[s] + Slotted(d, s) = free[s] + Slotted(c, s)
  /\ \A n \in Nat : Fed(c, n) =>
       /\ Fed(d, n)
       /\ \A w \in Seq(Nat) : Gone(w, c.closeAfterSend, Plus(c.activeSend, r)) =>
            Gone(w, d.closeAfterSend, IF HasSend(d) THEN Plus(d.activeSend, 0) ELSE n)

Confirmed(c) == [c EXCEPT !.activeSend.waiting = FALSE]

LEMMA ConfirmedFields ==
  ASSUME NEW c \in Connection
  PROVE  LET e == Confirmed(c)
         IN  /\ e \in Connection /\ e.id = c.id /\ e.sendQueue = c.sendQueue
             /\ e.closeAfterSend = c.closeAfterSend
             /\ e.activeSend = [c.activeSend EXCEPT !.waiting = FALSE]
             /\ e.activeSend \in PendingSend
             /\ e.activeSend.start = c.activeSend.start
             /\ e.activeSend.offset = c.activeSend.offset
             /\ e.activeSend.len = c.activeSend.len
             /\ e.activeSend.slot = c.activeSend.slot
             /\ e.activeSend.zeroCopy = c.activeSend.zeroCopy
<1>1. Confirmed(c) \in Connection /\ Confirmed(c).id = c.id
  BY ActiveUpdates, ZenonT(20) DEF Confirmed
<1>2. /\ Confirmed(c).sendQueue = c.sendQueue
      /\ Confirmed(c).closeAfterSend = c.closeAfterSend
      /\ Confirmed(c).activeSend = [c.activeSend EXCEPT !.waiting = FALSE]
  BY DEF Confirmed, Connection
<1>3. /\ c.activeSend \in PendingSend /\ Confirmed(c).activeSend \in PendingSend
  BY <1>1, ConnectionFields
<1>4. PICK a \in PendingSend : a = c.activeSend
  BY <1>3
<1>5. PICK b : b = [a EXCEPT !.waiting = FALSE]
  OBVIOUS
<1>6. /\ b.start = a.start /\ b.offset = a.offset /\ b.len = a.len /\ b.slot = a.slot
      /\ b.zeroCopy = a.zeroCopy
  BY <1>4, <1>5 DEF PendingSend
<1> HIDE DEF Confirmed
<1> QED
  BY <1>1, <1>2, <1>3, <1>4, <1>5, <1>6

LEMMA FinishCases ==
  ASSUME TableTypes, NEW fd \in Fds, Live(fd), WellFormed(connections[fd]),
         HasSend(connections[fd]), NEW r \in Int,
         ResultOf(connections[fd].activeSend, r),
         FinishTcpSend(fd, Confirmed(connections[fd]), r)
  PROVE  \E d \in Connection, pool \in [Slots -> Nat] :
           /\ Follows(connections[fd], d, pool, r)
           /\ \/ HasSend(d) /\ Submit(fd, d, pool)
              \/ ~HasSend(d) /\ ~d.closeAfterSend /\ Keep(fd, d, pool) /\ UNCHANGED sq
              \/ /\ ~HasSend(d) /\ d.closeAfterSend
                 /\ RemoveConnection(fd, d, pool, TRUE) /\ UNCHANGED sq
<1> DEFINE c == connections[fd]
           b == c.activeSend
           e == Confirmed(c)
           a == e.activeSend
           closing == e.closeAfterSend \/ r <= 0
           x == [e EXCEPT !.closeAfterSend = @ \/ r <= 0,
                   !.activeSend.offset = IF r > 0 THEN @ + r ELSE @]
           pool == Released(free, <<a>>)
<1>1. c \in Connection /\ free \in [Slots -> Nat]
  BY DEF TableTypes
<1>2. /\ e \in Connection /\ e.id = c.id /\ e.sendQueue = c.sendQueue
      /\ e.closeAfterSend = c.closeAfterSend /\ a \in PendingSend
      /\ a.start = b.start /\ a.offset = b.offset /\ a.len = b.len /\ a.slot = b.slot
      /\ a.zeroCopy = b.zeroCopy /\ a = [b EXCEPT !.waiting = FALSE]
  BY <1>1, ConfirmedFields
<1>3. /\ b \in PendingSend /\ b.start \in Nat /\ b.offset \in Nat /\ b.len \in Nat
      /\ b.slot \in Slots \cup {NoSlot} /\ b.zeroCopy \in BOOLEAN
      /\ b.offset < b.len /\ c.closeAfterSend \in BOOLEAN
  BY <1>1, ConnectionFields, PayloadTypes DEF WellFormed
<1>4. /\ pool \in [Slots -> Nat]
      /\ \A s \in Slots : pool[s] = free[s] + Bit(b.slot = s)
  <2>1. <<a>> \in Seq(PendingSend)
    BY <1>2
  <2>2. pool \in [Slots -> Nat]
    BY <1>1, <2>1, ReleasedType
  <2>3. \A s \in Slots : Released(free, <<a>>)[s] = free[s] + Bit(a.slot = s)
    BY <1>1, <1>2, ReleasedOne
  <2> QED
    BY <1>2, <2>2, <2>3
<1>5. /\ x \in Connection /\ x.id = c.id /\ x.sendQueue = c.sendQueue
      /\ x.closeAfterSend = closing /\ x.activeSend \in PendingSend
      /\ x.activeSend.start = b.start /\ x.activeSend.len = b.len
      /\ x.activeSend.slot = b.slot /\ x.activeSend.waiting = FALSE
      /\ x.activeSend.offset = IF r > 0 THEN b.offset + r ELSE b.offset
  <2>1. closing \in BOOLEAN
    BY <1>2, <1>3
  <2>2. x = [e EXCEPT !.closeAfterSend = closing,
               !.activeSend.offset = IF r > 0 THEN @ + r ELSE @]
    OBVIOUS
  <2>3. x \in Connection /\ x.id = e.id /\ x.sendQueue = e.sendQueue
    <3>1. e \in Connection
      BY <1>2
    <3> HIDE DEF closing, x, e
    <3>2. LET y == [e EXCEPT !.closeAfterSend = closing,
                      !.activeSend.offset = IF r > 0 THEN @ + r ELSE @]
          IN  y \in Connection /\ y.id = e.id /\ y.sendQueue = e.sendQueue
      BY <2>1, <3>1, OffsetUpdate
    <3> QED
      BY <2>2, <3>2
  <2>4. /\ x.closeAfterSend = closing
        /\ x.activeSend = [a EXCEPT !.offset = IF r > 0 THEN a.offset + r ELSE a.offset]
    <3> HIDE DEF closing, e
    <3> QED
      BY <1>2, <2>2 DEF Connection
  <2>5. x.activeSend \in PendingSend
    BY <2>3, ConnectionFields
  <2> HIDE DEF x, e
  <2>6. a.waiting = FALSE
    BY <1>2, <1>3 DEF PendingSend
  <2> QED
    BY <1>2, <2>3, <2>4, <2>5, <2>6 DEF PendingSend
<1>6. /\ Plus(b, r) = b.start + b.offset + (IF r > 0 THEN r ELSE 0)
      /\ Plus(b, r) \in Nat /\ Plus(b, r) <= Upto(b) /\ Upto(b) = b.start + b.len
      /\ Upto(b) \in Nat /\ r \in Int
  BY <1>3 DEF Plus, Upto, ResultOf
<1>7. CASE r < 0 /\ a.zeroCopy
  <2> DEFINE d == [e EXCEPT !.activeSend.zeroCopy = FALSE, !.activeSend.waiting = FALSE]
  <2>1. Submit(fd, d, free)
    BY <1>7 DEF FinishTcpSend
  <2>2. d \in Connection /\ d.id = c.id
    BY <1>2, ActiveUpdates, ZenonT(20)
  <2>3. /\ d.sendQueue = c.sendQueue /\ d.closeAfterSend = c.closeAfterSend
        /\ d.activeSend = [a EXCEPT !.zeroCopy = FALSE, !.waiting = FALSE]
    <3> HIDE DEF e
    <3> QED
      BY <1>2 DEF Connection
  <2> HIDE DEF d, e
  <2>4. /\ d.activeSend.start = b.start /\ d.activeSend.len = b.len
        /\ d.activeSend.offset = b.offset /\ d.activeSend.slot = b.slot
        /\ d.activeSend.waiting = FALSE
    BY <1>2, <2>3 DEF PendingSend
  <2> HIDE DEF b, c
  <2>5. /\ WellFormed(d) /\ HasSend(d) /\ \A n \in Nat : Fed(c, n) => Fed(d, n)
        /\ \A s \in Slots : Slotted(d, s) + Bit(b.slot = s) = Slotted(c, s) + Bit(b.slot = s)
    <3>1. /\ d.activeSend.start = c.activeSend.start /\ d.activeSend.len = c.activeSend.len
          /\ d.activeSend.offset < d.activeSend.len /\ WellFormed(c) /\ HasSend(c)
      BY <1>3, <2>4 DEF b, c
    <3> HIDE DEF a
    <3>2. /\ WellFormed(d) /\ HasSend(d) /\ \A n \in Nat : Fed(c, n) => Fed(d, n)
          /\ \A s \in Slots : Slotted(d, s) + Bit(c.activeSend.slot = s)
                              = Slotted(c, s) + Bit(d.activeSend.slot = s)
      BY <1>1, <2>2, <2>3, <3>1, ChangedSend
    <3>3. c.activeSend.slot = b.slot
      BY DEF b
    <3> QED
      BY <2>4, <3>2, <3>3
  <2>6. \A s \in Slots : free[s] + Slotted(d, s) = free[s] + Slotted(c, s)
    <3>1. \A s \in Slots : /\ Slotted(d, s) \in Nat /\ Slotted(c, s) \in Nat
                           /\ Bit(b.slot = s) \in Nat
      BY <1>1, <2>2, SlottedType DEF Bit
    <3> QED
      BY <2>5, <3>1
  <2>7. Plus(d.activeSend, 0) = Plus(b, r)
    BY <1>6, <1>7, <2>4 DEF Plus
  <2>8. Follows(c, d, free, r)
    BY <2>2, <2>3, <2>4, <2>5, <2>6, <2>7 DEF Follows, b
  <2> QED
    BY <1>1, <2>1, <2>2, <2>5, <2>8, ZenonT(20) DEF c
<1>8. CASE r < 0 /\ ~a.zeroCopy /\ a.slot # NoSlot
  <2> DEFINE d == [e EXCEPT !.activeSend.slot = NoSlot, !.activeSend.waiting = FALSE]
  <2>1. Submit(fd, d, pool)
    BY <1>8 DEF FinishTcpSend
  <2>2. d \in Connection /\ d.id = c.id
    BY <1>2, ActiveUpdates, ZenonT(20)
  <2>3. /\ d.sendQueue = c.sendQueue /\ d.closeAfterSend = c.closeAfterSend
        /\ d.activeSend = [a EXCEPT !.slot = NoSlot, !.waiting = FALSE]
    <3> HIDE DEF e
    <3> QED
      BY <1>2 DEF Connection
  <2> HIDE DEF d, e
  <2>4. /\ d.activeSend.start = b.start /\ d.activeSend.len = b.len
        /\ d.activeSend.offset = b.offset /\ d.activeSend.slot = NoSlot
        /\ d.activeSend.waiting = FALSE
    BY <1>2, <2>3 DEF PendingSend
  <2> HIDE DEF b, c, pool
  <2>5. /\ WellFormed(d) /\ HasSend(d) /\ \A n \in Nat : Fed(c, n) => Fed(d, n)
        /\ \A s \in Slots : Slotted(d, s) + Bit(b.slot = s) = Slotted(c, s) + Bit(NoSlot = s)
    <3>1. /\ d.activeSend.start = c.activeSend.start /\ d.activeSend.len = c.activeSend.len
          /\ d.activeSend.offset < d.activeSend.len /\ WellFormed(c) /\ HasSend(c)
      BY <1>3, <2>4 DEF b, c
    <3> HIDE DEF a
    <3>2. /\ WellFormed(d) /\ HasSend(d) /\ \A n \in Nat : Fed(c, n) => Fed(d, n)
          /\ \A s \in Slots : Slotted(d, s) + Bit(c.activeSend.slot = s)
                              = Slotted(c, s) + Bit(d.activeSend.slot = s)
      BY <1>1, <2>2, <2>3, <3>1, ChangedSend
    <3>3. c.activeSend.slot = b.slot
      BY DEF b
    <3> QED
      BY <2>4, <3>2, <3>3
  <2>6. \A s \in Slots : pool[s] + Slotted(d, s) = free[s] + Slotted(c, s)
    <3>1. \A s \in Slots : /\ Slotted(d, s) \in Nat /\ Slotted(c, s) \in Nat
                           /\ Bit(b.slot = s) \in Nat /\ Bit(NoSlot = s) = 0
      BY <1>1, <2>2, SlottedType, SlotAssumption DEF Bit
    <3> QED
      BY <1>1, <1>4, <2>5, <3>1
  <2>7. Plus(d.activeSend, 0) = Plus(b, r)
    BY <1>6, <1>8, <2>4 DEF Plus
  <2>8. Follows(c, d, pool, r)
    BY <2>2, <2>3, <2>4, <2>5, <2>6, <2>7 DEF Follows, b
  <2> QED
    BY <1>4, <2>1, <2>2, <2>5, <2>8, ZenonT(20) DEF c
<1>9. CASE /\ ~(r < 0 /\ a.zeroCopy) /\ ~(r < 0 /\ ~a.zeroCopy /\ a.slot # NoSlot)
           /\ x.activeSend.offset < a.len /\ ~x.closeAfterSend
  <2>1. Submit(fd, x, free)
    BY <1>9 DEF FinishTcpSend
  <2> HIDE DEF x, e
  <2>2. r > 0 /\ ~c.closeAfterSend /\ ~x.closeAfterSend
    <3>1. ~x.closeAfterSend
      BY <1>9
    <3>2. x.closeAfterSend = closing
      BY <1>5
    <3>3. ~closing
      <4> HIDE DEF closing
      <4> QED
        BY <3>1, <3>2
    <3>4. e.closeAfterSend = c.closeAfterSend /\ ~e.closeAfterSend /\ ~(r <= 0)
      BY <1>2, <3>3
    <3> HIDE DEF closing, c, b, a, pool
    <3> QED
      BY <3>1, <3>4
  <2> HIDE DEF b, c, pool, closing
  <2>3. /\ WellFormed(x) /\ HasSend(x) /\ \A n \in Nat : Fed(c, n) => Fed(x, n)
        /\ \A s \in Slots : Slotted(x, s) + Bit(b.slot = s) = Slotted(c, s) + Bit(b.slot = s)
    BY <1>1, <1>2, <1>5, <1>9, ChangedSend DEF b, c
  <2>4. \A s \in Slots : free[s] + Slotted(x, s) = free[s] + Slotted(c, s)
    <3>1. \A s \in Slots : /\ Slotted(x, s) \in Nat /\ Slotted(c, s) \in Nat
                           /\ Bit(b.slot = s) \in Nat
      BY <1>1, <1>5, SlottedType DEF Bit
    <3> QED
      BY <2>3, <3>1
  <2>5. Plus(x.activeSend, 0) = Plus(b, r)
    BY <1>3, <1>5, <1>6, <2>2 DEF Plus
  <2>6. x.closeAfterSend = c.closeAfterSend
    BY <1>1, <1>5, <2>2, ConnectionFields
  <2>7. Follows(c, x, free, r)
    BY <1>5, <2>3, <2>4, <2>5, <2>6 DEF Follows, b
  <2> QED
    BY <1>1, <1>5, <2>1, <2>3, <2>7 DEF c
<1>10. CASE /\ ~(r < 0 /\ a.zeroCopy) /\ ~(r < 0 /\ ~a.zeroCopy /\ a.slot # NoSlot)
            /\ ~(x.activeSend.offset < a.len /\ ~x.closeAfterSend)
  <2>1. TakeNextSend(fd, x, pool)
    BY <1>10 DEF FinishTcpSend
  <2> HIDE DEF x, e
  <2>2. /\ c.closeAfterSend => x.closeAfterSend
        /\ ~x.closeAfterSend => Plus(b, r) = Upto(b)
    BY <1>2, <1>3, <1>5, <1>6, <1>10 DEF ResultOf
  <2> HIDE DEF b, c, pool, closing
  \* Whatever was sent lies within the payload that ends here.
  <2>3. \A w \in Seq(Nat) : Gone(w, c.closeAfterSend, Plus(b, r)) =>
                              Gone(w, x.closeAfterSend, Upto(b))
    <3> SUFFICES ASSUME NEW w \in Seq(Nat), Gone(w, c.closeAfterSend, Plus(b, r))
                 PROVE  Gone(w, x.closeAfterSend, Upto(b))
      OBVIOUS
    <3>1. CASE x.closeAfterSend
      <4>1. Gone(w, TRUE, Upto(b))
        BY <1>3, <1>6, GoneWeaken
      <4>2. x.closeAfterSend = TRUE
        BY <1>5, <3>1, ConnectionFields
      <4> QED
        BY <4>1, <4>2
    <3>2. CASE ~x.closeAfterSend
      <4>1. c.closeAfterSend = x.closeAfterSend
        BY <1>3, <1>5, <2>2, <3>2, ConnectionFields
      <4> QED
        BY <2>2, <3>2, <4>1
    <3> QED
      BY <3>1, <3>2
  <2>4. CASE x.sendQueue # <<>>
    <3> DEFINE d == [x EXCEPT !.activeSend = Head(x.sendQueue), !.sendQueue = Tail(@)]
    <3>1. Submit(fd, d, pool)
      BY <2>1, <2>4 DEF TakeNextSend
    <3>2. d \in Connection /\ d.id = c.id
      BY <1>5, <2>4, NextActive
    <3>3. /\ d.sendQueue = Tail(c.sendQueue) /\ d.activeSend = Head(c.sendQueue)
          /\ d.closeAfterSend = x.closeAfterSend /\ c.sendQueue # <<>>
      BY <1>5, <2>4 DEF Connection
    <3> HIDE DEF d
    <3>4. /\ WellFormed(d) /\ HasSend(d) /\ ~d.activeSend.waiting
          /\ \A n \in Nat : Fed(c, n) => Fed(d, n) /\ Plus(d.activeSend, 0) = Upto(b)
          /\ \A s \in Slots : Slotted(d, s) + Bit(b.slot = s) = Slotted(c, s)
      BY <1>1, <3>2, <3>3, NextSend DEF b, c
    <3>5. \A s \in Slots : pool[s] + Slotted(d, s) = free[s] + Slotted(c, s)
      <4>1. \A s \in Slots : /\ Slotted(d, s) \in Nat /\ Slotted(c, s) \in Nat
                             /\ Bit(b.slot = s) \in Nat
        BY <1>1, <3>2, SlottedType DEF Bit
      <4> QED
        BY <1>1, <1>4, <3>4, <4>1
    <3>6. Follows(c, d, pool, r)
      BY <2>2, <2>3, <3>2, <3>3, <3>4, <3>5 DEF Follows, b
    <3> QED
      BY <1>4, <3>1, <3>2, <3>4, <3>6 DEF c
  <2>5. CASE x.sendQueue = <<>>
    <3> DEFINE d == [x EXCEPT !.activeSend = NoSend]
    <3>1. \/ x.closeAfterSend /\ RemoveConnection(fd, d, pool, TRUE) /\ UNCHANGED sq
          \/ ~x.closeAfterSend /\ Keep(fd, d, pool) /\ UNCHANGED sq
      BY <2>1, <2>5 DEF TakeNextSend
    <3>2. d \in Connection /\ d.id = c.id
      BY <1>5, NoSendType, SetActive
    <3>3. /\ d.sendQueue = c.sendQueue /\ d.activeSend = NoSend
          /\ d.closeAfterSend = x.closeAfterSend /\ c.sendQueue = <<>>
      BY <1>5, <2>5 DEF Connection
    <3> HIDE DEF d
    <3>4. /\ WellFormed(d) /\ ~HasSend(d) /\ ~d.activeSend.waiting
          /\ \A n \in Nat : Fed(d, n) /\ (Fed(c, n) => n = Upto(b))
          /\ \A s \in Slots : Slotted(d, s) = 0 /\ Slotted(c, s) = Bit(b.slot = s)
      <4>1. HasSend(c) /\ b = c.activeSend
        BY DEF b, c
      <4>2. ~d.activeSend.waiting
        BY <3>3 DEF NoSend
      <4> QED
        BY <1>1, <3>2, <3>3, <4>1, <4>2, EndedSend
    <3>5. \A s \in Slots : pool[s] + Slotted(d, s) = free[s] + Slotted(c, s)
      <4>1. \A s \in Slots : Bit(b.slot = s) \in Nat
        BY DEF Bit
      <4> QED
        BY <1>1, <1>4, <3>4, <4>1
    <3>6. Follows(c, d, pool, r)
      BY <2>2, <2>3, <3>2, <3>3, <3>4, <3>5 DEF Follows, b
    <3> QED
      BY <1>4, <3>1, <3>2, <3>3, <3>4, <3>6 DEF c
  <2> QED
    BY <2>4, <2>5
<1> HIDE DEF x, e, pool, b, c, closing
<1> QED
  BY <1>7, <1>8, <1>9, <1>10

-----------------------------------------------------------------------------
(***************************************************************************)
(* When a change of the ring leaves the sends of a connection alone.       *)
(***************************************************************************)

SqLike(t, s, id) ==
  /\ Cnt(t, Queued(id)) = Cnt(s, Queued(id))
  /\ \A e \in Elems(t) : e \in Queued(id) => e \in Elems(s)
OpsLike(t, s, id) ==
  /\ Cnt(t, InKernel(id)) = Cnt(s, InKernel(id))
  /\ Cnt(t, Held(id)) = Cnt(s, Held(id))
  /\ \A o \in Elems(t) : o \in InKernel(id) \cup Held(id) => o \in Elems(s)
PendLike(t, s, id) ==
  /\ Cnt(t, Firsts(id)) = Cnt(s, Firsts(id))
  /\ Cnt(t, Finals(id)) = Cnt(s, Finals(id))
  /\ Cnt(t, Notifs(id)) = Cnt(s, Notifs(id))
  /\ \A e \in Elems(t) : e.op = "send" /\ e.id = id => e \in Elems(s)
  /\ FirstsFirst(s, id) => FirstsFirst(t, id)

RingSame(id) == SqLike(sq', sq, id) /\ OpsLike(ops', ops, id) /\ PendLike(Pending', Pending, id)

LEMMA AppendedEntry ==
  ASSUME NEW s \in Seq(Entry), NEW e \in Entry, NEW id, ~(e.op = "send" /\ e.id = id)
  PROVE  SqLike(Append(s, e), s, id)
<1>1. e \notin Queued(id)
  BY DEF Queued
<1>2. Cnt(Append(s, e), Queued(id)) = Cnt(s, Queued(id)) + 0
  BY <1>1, CntAppend DEF Bit
<1>3. Cnt(s, Queued(id)) \in Nat
  BY AtFinite
<1>4. Elems(Append(s, e)) = Elems(s) \cup {e}
  BY ElemsOf
<1> QED
  BY <1>1, <1>2, <1>3, <1>4 DEF SqLike

LEMMA DroppedOp ==
  ASSUME ops \in Seq(Operation), NEW i \in DOMAIN ops, NEW id,
         ~(ops[i].op \in {"send", "hold"} /\ ops[i].id = id)
  PROVE  OpsLike(WithoutOp(i), ops, id) /\ OpsLike(ops, ops, id)
<1>1. ops[i] \notin InKernel(id) /\ ops[i] \notin Held(id)
  BY DEF InKernel, Held
<1>2. WithoutOp(i) = Dropped(ops, i)
  BY DEF WithoutOp, Dropped
<1>3. /\ Cnt(Dropped(ops, i), InKernel(id)) = Cnt(ops, InKernel(id)) - 0
      /\ Cnt(Dropped(ops, i), Held(id)) = Cnt(ops, Held(id)) - 0
  BY <1>1, CntDropped DEF Bit
<1>4. Cnt(ops, InKernel(id)) \in Nat /\ Cnt(ops, Held(id)) \in Nat
  BY AtFinite
<1>5. Elems(Dropped(ops, i)) \subseteq Elems(ops)
  BY ElemsDropped
<1> HIDE DEF Dropped
<1> QED
  BY <1>2, <1>3, <1>4, <1>5 DEF OpsLike

LEMMA HeldOp ==
  ASSUME ops \in Seq(Operation), NEW i \in DOMAIN ops, ops[i].op = "send", NEW id,
         ops[i].id # id
  PROVE  OpsLike([ops EXCEPT ![i].op = "hold"], ops, id)
<1> DEFINE e == [ops[i] EXCEPT !.op = "hold"]
           t == [ops EXCEPT ![i] = e]
<1>1. ops[i] \in Operation /\ e \in Operation /\ e.id = ops[i].id
  <2>1. ops[i] \in Operation
    OBVIOUS
  <2> QED
    BY <2>1 DEF Operation
<1>2. /\ ops[i] \notin InKernel(id) /\ ops[i] \notin Held(id)
      /\ e \notin InKernel(id) /\ e \notin Held(id)
  BY <1>1 DEF InKernel, Held
<1>3. t = [ops EXCEPT ![i].op = "hold"]
  OBVIOUS
<1> HIDE DEF e
<1>4. /\ Cnt(t, InKernel(id)) = Cnt(ops, InKernel(id)) - 0 + 0
      /\ Cnt(t, Held(id)) = Cnt(ops, Held(id)) - 0 + 0
  BY <1>1, <1>2, CntExcept DEF Bit
<1>5. Cnt(ops, InKernel(id)) \in Nat /\ Cnt(ops, Held(id)) \in Nat
  BY AtFinite
<1>6. Elems(t) \subseteq Elems(ops) \cup {e}
  BY ElemsExcept
<1> HIDE DEF t
<1>7. OpsLike(t, ops, id)
  BY <1>2, <1>4, <1>5, <1>6 DEF OpsLike
<1> QED
  BY <1>3, <1>7

LEMMA PostedOther ==
  ASSUME NEW s \in Seq(Completion), NEW e \in Completion, NEW id,
         ~(e.op = "send" /\ e.id = id)
  PROVE  PendLike(Append(s, e), s, id)
<1>1. e \notin Firsts(id) /\ e \notin Finals(id) /\ e \notin Notifs(id)
  BY DEF Firsts, Finals, Notifs
<1>2. /\ Cnt(Append(s, e), Firsts(id)) = Cnt(s, Firsts(id)) + 0
      /\ Cnt(Append(s, e), Finals(id)) = Cnt(s, Finals(id)) + 0
      /\ Cnt(Append(s, e), Notifs(id)) = Cnt(s, Notifs(id)) + 0
  BY <1>1, CntAppend DEF Bit
<1>3. /\ Cnt(s, Firsts(id)) \in Nat /\ Cnt(s, Finals(id)) \in Nat
      /\ Cnt(s, Notifs(id)) \in Nat
  BY AtFinite
<1>4. Elems(Append(s, e)) = Elems(s) \cup {e}
  BY ElemsOf
<1>5. FirstsFirst(s, id) => FirstsFirst(Append(s, e), id)
  <2>1. \A i \in DOMAIN Append(s, e) :
          \/ i \in DOMAIN s /\ Append(s, e)[i] = s[i]
          \/ Append(s, e)[i] = e
    OBVIOUS
  <2> QED
    BY <1>1, <2>1 DEF FirstsFirst
<1> QED
  BY <1>2, <1>3, <1>4, <1>5 DEF PendLike

LEMMA TailKeepsOrder ==
  ASSUME NEW s \in Seq(Completion), s # <<>>, NEW id, FirstsFirst(s, id)
  PROVE  FirstsFirst(Tail(s), id)
<1>1. /\ Tail(s) \in Seq(Completion)
      /\ \A i \in DOMAIN Tail(s) : i + 1 \in DOMAIN s /\ Tail(s)[i] = s[i + 1]
  BY TailElements
<1>2. ASSUME NEW i \in DOMAIN Tail(s), NEW j \in DOMAIN Tail(s),
             Tail(s)[i] \in Firsts(id), Tail(s)[j] \in Notifs(id)
      PROVE  i < j
  <2>1. i + 1 \in DOMAIN s /\ j + 1 \in DOMAIN s
        /\ s[i + 1] \in Firsts(id) /\ s[j + 1] \in Notifs(id)
    BY <1>1, <1>2
  <2>2. i + 1 < j + 1
    BY <2>1 DEF FirstsFirst
  <2> QED
    BY <1>1, <2>2
<1> QED
  BY <1>2 DEF FirstsFirst

LEMMA ReadOther ==
  ASSUME NEW s \in Seq(Completion), s # <<>>, NEW id,
         ~(Head(s).op = "send" /\ Head(s).id = id)
  PROVE  PendLike(Tail(s), s, id)
<1> DEFINE e == Head(s)
<1>1. e \notin Firsts(id) /\ e \notin Finals(id) /\ e \notin Notifs(id)
  BY DEF Firsts, Finals, Notifs
<1>2. /\ Cnt(Tail(s), Firsts(id)) = Cnt(s, Firsts(id)) - 0
      /\ Cnt(Tail(s), Finals(id)) = Cnt(s, Finals(id)) - 0
      /\ Cnt(Tail(s), Notifs(id)) = Cnt(s, Notifs(id)) - 0
  BY <1>1, CntTail DEF Bit
<1>3. /\ Cnt(s, Firsts(id)) \in Nat /\ Cnt(s, Finals(id)) \in Nat
      /\ Cnt(s, Notifs(id)) \in Nat
  BY AtFinite
<1>4. Elems(Tail(s)) \subseteq Elems(s)
  BY ElemsOf
<1>5. FirstsFirst(s, id) => FirstsFirst(Tail(s), id)
  BY TailKeepsOrder
<1> QED
  BY <1>2, <1>3, <1>4, <1>5 DEF PendLike

-----------------------------------------------------------------------------
(***************************************************************************)
(* A connection whose sends and ring entries a step leaves alone stays     *)
(* sound; that it starts to close does no harm.                            *)
(***************************************************************************)

ConnSame(id) ==
  /\ idToFd'[id] = idToFd[id]
  /\ idToFd[id] # NoFd =>
       /\ connections'[idToFd[id]].activeSend = connections[idToFd[id]].activeSend
       /\ connections[idToFd[id]].closeAfterSend
            => connections'[idToFd[id]].closeAfterSend
       /\ sockOf'[id] = sockOf[id] /\ wire'[sockOf[id]] = wire[sockOf[id]]
       /\ IsActive(id) \/ accepted'[id] = accepted[id]

\* Nothing in the ring belongs to an id that does not resolve.
LEMMA Nothing ==
  ASSUME TypeOK, NEW id \in Ids, OneToken(id), HoldsPaired(id), ~IsActive(id), ~IsWaiting(id)
  PROVE  /\ NQ(id) = 0 /\ NK(id) = 0 /\ NH(id) = 0 /\ NM(id) = 0 /\ NF(id) = 0 /\ NN(id) = 0
         /\ \A e \in Elems(sq) : e \notin Queued(id)
         /\ \A o \in Elems(ops) : o \notin InKernel(id) /\ o \notin Held(id)
         /\ \A e \in Elems(Pending) : e \notin Firsts(id) /\ e \notin Finals(id)
                                       /\ e \notin Notifs(id)
<1>1. sq \in Seq(Entry) /\ ops \in Seq(Operation) /\ Pending \in Seq(Completion)
  BY PendingType DEF TypeOK
<1>2. /\ NQ(id) \in Nat /\ NK(id) \in Nat /\ NH(id) \in Nat
      /\ NM(id) \in Nat /\ NF(id) \in Nat /\ NN(id) \in Nat
  BY <1>1, AtFinite DEF NQ, NK, NH, NM, NF, NN
<1>3. /\ NQ(id) = 0 /\ NK(id) = 0 /\ NH(id) = 0
      /\ NM(id) = 0 /\ NF(id) = 0 /\ NN(id) = 0
  <2>1. Bit(IsActive(id)) = 0 /\ Bit(IsWaiting(id)) = 0
    BY DEF Bit
  <2>2. NQ(id) + NK(id) + NH(id) + NF(id) + NN(id) = 0
    BY <2>1 DEF OneToken
  <2>3. NH(id) + NN(id) = NM(id) + 0
    BY <2>1 DEF HoldsPaired
  <2>4. NQ(id) = 0 /\ NK(id) = 0 /\ NH(id) = 0 /\ NF(id) = 0 /\ NN(id) = 0
    BY <1>2, <2>2
  <2>5. NM(id) = 0
    BY <1>2, <2>3, <2>4
  <2> QED
    BY <2>4, <2>5
<1>4. \A e \in Elems(sq) : e \notin Queued(id)
  BY <1>1, <1>3, CntPositive DEF NQ
<1>5. \A o \in Elems(ops) : o \notin InKernel(id) /\ o \notin Held(id)
  BY <1>1, <1>3, CntPositive DEF NK, NH
<1>6. \A e \in Elems(Pending) : e \notin Firsts(id) /\ e \notin Finals(id) /\ e \notin Notifs(id)
  BY <1>1, <1>3, CntPositive DEF NM, NF, NN
<1> QED
  BY <1>3, <1>4, <1>5, <1>6

LEMMA SameCounts ==
  ASSUME NEW id \in Ids, RingSame(id)
  PROVE  /\ NQ(id)' = NQ(id) /\ NK(id)' = NK(id) /\ NH(id)' = NH(id)
         /\ NM(id)' = NM(id) /\ NF(id)' = NF(id) /\ NN(id)' = NN(id)
         /\ FirstsFirst(Pending, id) => FirstsFirst(Pending, id)'
  BY DEF RingSame, SqLike, OpsLike, PendLike, NQ, NK, NH, NM, NF, NN, FirstsFirst,
         Queued, InKernel, Held, Firsts, Finals, Notifs

\* A result, and a position, in terms of what it is about.
LEMMA PlusType ==
  ASSUME NEW a \in PendingSend, NEW r \in Int
  PROVE  Plus(a, r) \in Nat
  BY PayloadTypes DEF Plus

LEMMA ReachedSame ==
  ASSUME TypeOK, TypeOK', NEW id \in Ids, IdsResolve, idToFd[id] # NoFd, sockOf[id] # 0,
         ConnSame(id), NEW n \in Nat, Reached(id, n)
  PROVE  Reached(id, n)'
<1>1. idToFd[id] \in Fds /\ idToFd'[id] = idToFd[id] /\ sockOf'[id] = sockOf[id]
  BY DEF TypeOK, ConnSame
<1> DEFINE c == connections[idToFd[id]]
           d == connections'[idToFd[id]]
<1>2. c \in Connection /\ d \in Connection
  BY <1>1 DEF TypeOK
<1>3. wire[sockOf[id]] \in Seq(Nat) /\ wire'[sockOf[id]] = wire[sockOf[id]]
  BY DEF TypeOK, ConnSame
<1>4. c.closeAfterSend \in BOOLEAN /\ d.closeAfterSend \in BOOLEAN
      /\ (c.closeAfterSend => d.closeAfterSend)
  BY <1>2, ConnectionFields DEF ConnSame
<1>5. Gone(wire[sockOf[id]], c.closeAfterSend, n)
  BY DEF Reached, ConnOf
<1>6. Gone(wire[sockOf[id]], d.closeAfterSend, n)
  <2> HIDE DEF c, d
  <2>1. CASE c.closeAfterSend = d.closeAfterSend
    BY <1>5, <2>1
  <2>2. CASE c.closeAfterSend # d.closeAfterSend
    <3>1. d.closeAfterSend = TRUE
      BY <1>4, <2>2
    <3>2. Gone(wire[sockOf[id]], TRUE, n)
      <4>1. n <= n
        OBVIOUS
      <4> QED
        BY <1>3, <1>4, <1>5, <4>1, GoneWeaken
    <3> QED
      BY <3>1, <3>2
  <2> QED
    BY <2>1, <2>2
<1> QED
  BY <1>1, <1>3, <1>6 DEF Reached, ConnOf

LEMMA FrameSound ==
  ASSUME TInv, TypeOK', Unborn, NEW id \in Ids, Sound(id), RingSame(id), ConnSame(id)
  PROVE  Sound(id)'
<1>1. /\ TypeOK /\ IdsResolve /\ idToFd'[id] = idToFd[id]
      /\ NQ(id)' = NQ(id) /\ NK(id)' = NK(id) /\ NH(id)' = NH(id)
      /\ NM(id)' = NM(id) /\ NF(id)' = NF(id) /\ NN(id)' = NN(id)
      /\ FirstsFirst(Pending, id)'
  BY SameCounts DEF TInv, IInv, ConnSame, Sound
<1>2. /\ sq' \in Seq(Entry) /\ ops' \in Seq(Operation) /\ Pending' \in Seq(Completion)
  BY PendingType DEF TypeOK, Pending
<1>3. /\ \A e \in Elems(sq') : e \in Queued(id) => e \in Elems(sq)
      /\ \A o \in Elems(ops') : o \in InKernel(id) \/ o \in Held(id) => o \in Elems(ops)
      /\ \A e \in Elems(Pending') : e.op = "send" /\ e.id = id => e \in Elems(Pending)
  BY DEF RingSame, SqLike, OpsLike, PendLike
<1>4. CASE idToFd[id] = NoFd
  <2>1. ~IsActive(id) /\ ~IsWaiting(id) /\ ~IsActive(id)' /\ ~IsWaiting(id)'
    BY <1>1, <1>4 DEF IsActive, IsWaiting
  <2>2. OneToken(id)' /\ HoldsPaired(id)'
    <3>1. (Bit(IsActive(id)) = 0 /\ Bit(IsWaiting(id)) = 0)
          /\ (Bit(IsActive(id)) = 0 /\ Bit(IsWaiting(id)) = 0)'
      BY <2>1 DEF Bit
    <3>2. /\ NQ(id) + NK(id) + NH(id) + NF(id) + NN(id) = 0
          /\ NH(id) + NN(id) = NM(id) + 0
      BY <3>1 DEF Sound, OneToken, HoldsPaired
    <3>3. /\ (NQ(id) + NK(id) + NH(id) + NF(id) + NN(id))' = 0
          /\ (NH(id) + NN(id) = NM(id) + 0)'
      BY <1>1, <3>2
    <3> QED
      BY <3>1, <3>3 DEF OneToken, HoldsPaired
  <2>3. /\ \A e \in Elems(sq') : e \notin Queued(id)
        /\ \A o \in Elems(ops') : o \notin InKernel(id) /\ o \notin Held(id)
        /\ \A e \in Elems(Pending') : e \notin Firsts(id) /\ e \notin Finals(id)
    <3>1. /\ \A e \in Elems(sq) : e \notin Queued(id)
          /\ \A o \in Elems(ops) : o \notin InKernel(id) /\ o \notin Held(id)
          /\ \A e \in Elems(Pending) : e \notin Firsts(id) /\ e \notin Finals(id)
      BY <1>1, <2>1, Nothing DEF Sound
    <3> QED
      BY <1>3, <3>1 DEF Firsts, Finals
  <2>4. EntriesMatch(id)' /\ OpsMatch(id)' /\ AllSent(id)'
    BY <1>1, <1>4, <2>3 DEF EntriesMatch, OpsMatch, AllSent, Queued, InKernel, Held
  <2>5. ResultsMatch(id)'
    BY <1>3, <2>1, <2>3 DEF ResultsMatch, Sound, Firsts, Finals
  <2> QED
    BY <1>1, <2>2, <2>4, <2>5 DEF Sound
<1>5. CASE idToFd[id] # NoFd
  <2> DEFINE a == Active(id)
  <2>1. /\ Active(id)' = a /\ (IsActive(id)' <=> IsActive(id))
        /\ (IsWaiting(id)' <=> IsWaiting(id))
        /\ IsActive(id) \/ accepted'[id] = accepted[id]
        /\ accepted[id] \in Nat
    BY <1>1, <1>5 DEF ConnSame, IsActive, IsWaiting, HasSend, Active, ConnOf, TypeOK
  <2>2. sockOf[id] # 0
    <3>1. idToFd[id] \in Fds /\ connections[idToFd[id]].id = id /\ Live(idToFd[id])
      BY <1>1, <1>5, Resolved
    <3>2. id < nextId
      BY <3>1 DEF TInv, IdsUsed
    <3> QED
      BY <3>2 DEF Unborn
  <2>3. \A n \in Nat : Reached(id, n) => Reached(id, n)'
    BY <1>1, <1>5, <2>2, ReachedSame
  <2>4. a \in PendingSend /\ \A r \in Int : Plus(a, r) \in Nat
    <3>1. connections[idToFd[id]] \in Connection
      BY <1>5 DEF TypeOK, TInv, IInv
    <3> QED
      BY <3>1, ConnectionFields, PlusType DEF Active, ConnOf
  <2>5. OneToken(id)' /\ HoldsPaired(id)'
    <3>1. (Bit(IsActive(id)))' = Bit(IsActive(id)) /\ (Bit(IsWaiting(id)))' = Bit(IsWaiting(id))
      BY <2>1 DEF Bit
    <3> QED
      BY <1>1, <3>1 DEF OneToken, HoldsPaired, Sound
  <2> HIDE DEF a
  <2>6. \A r \in Int : ResultOK(id, r) => ResultOK(id, r)'
    BY <2>1, <2>3, <2>4 DEF ResultOK, a
  <2>7. EntriesMatch(id)'
    <3> SUFFICES ASSUME NEW e \in Elems(sq'), e \in Queued(id)
                 PROVE  EntryOK(id, e)'
      BY DEF EntriesMatch, Queued
    <3>1. e.fd = idToFd[id] /\ Carries(e, a) /\ Reached(id, Plus(a, 0))
      BY <1>3 DEF Sound, EntriesMatch, EntryOK, a
    <3>2. Plus(a, 0) \in Nat
      BY <2>4
    <3>3. Reached(id, Plus(a, 0))'
      BY <2>1, <2>3, <3>1, <3>2 DEF a
    <3> QED
      BY <1>1, <2>1, <3>1, <3>3 DEF EntryOK, Carries, a
  <2>8. OpsMatch(id)'
    <3>1. ASSUME NEW o \in Elems(ops'), o \in InKernel(id)
          PROVE  SendOK(id, o)'
      <4>1. Carries(o, a) /\ Reached(id, Plus(a, 0)) /\ Plus(a, 0) \in Nat
        BY <1>3, <2>4, <3>1 DEF Sound, OpsMatch, SendOK, a
      <4>2. Reached(id, Plus(a, 0))'
        BY <2>1, <2>3, <4>1 DEF a
      <4> QED
        BY <2>1, <4>1, <4>2 DEF SendOK, Carries, a
    <3>2. ASSUME NEW o \in Elems(ops'), o \in Held(id)
          PROVE  HoldOK(id, o)'
      BY <1>3, <2>1, <3>2 DEF Sound, OpsMatch, HoldOK, Carries, a
    <3> QED
      BY <3>1, <3>2 DEF OpsMatch, InKernel, Held
  <2>9. ResultsMatch(id)'
    <3>1. ASSUME NEW e \in Elems(Pending')
          PROVE  /\ e.op = "send" /\ e.id = id => ~(e.notif /\ e.more)
                 /\ e \in Firsts(id) \cup Finals(id) => ResultOK(id, e.result)'
                 /\ e \in Firsts(id) => (Active(id).zeroCopy)'
      <4>1. e \in Completion
        BY <1>2, <3>1, ElemsOf
      <4>2. e.result \in Int
        BY <4>1 DEF Completion
      <4>3. CASE e.op = "send" /\ e.id = id
        BY <1>3, <2>1, <2>6, <3>1, <4>2, <4>3 DEF Sound, ResultsMatch, a
      <4>4. CASE ~(e.op = "send" /\ e.id = id)
        BY <4>4 DEF Firsts, Finals
      <4> QED
        BY <4>3, <4>4
    <3>2. IsWaiting(id)' => (ResultOK(id, Active(id).result))'
      <4>1. a.result \in Int
        BY <2>4, PayloadTypes
      <4> QED
        BY <2>1, <2>6, <4>1 DEF Sound, ResultsMatch, a
    <3> QED
      BY <3>1, <3>2 DEF ResultsMatch, Firsts, Finals
  <2>10. AllSent(id)'
    BY <1>1, <1>5, <2>1, <2>3 DEF AllSent, Sound
  <2> QED
    BY <1>1, <2>5, <2>7, <2>8, <2>9, <2>10 DEF Sound
<1> QED
  BY <1>4, <1>5

-----------------------------------------------------------------------------
(***************************************************************************)
(* One send on its way: from an entry to an operation, from there to a     *)
(* completion or a held buffer, and from the last completion to the next   *)
(* payload.  Sound survives each of these moves.                           *)
(***************************************************************************)

Honest(id) == \A e \in Elems(Pending) : e.op = "send" /\ e.id = id => ~(e.notif /\ e.more)

CountTypes(id) == /\ NQ(id) \in Nat /\ NK(id) \in Nat /\ NH(id) \in Nat
                  /\ NM(id) \in Nat /\ NF(id) \in Nat /\ NN(id) \in Nat

LEMMA CountsAreNat ==
  ASSUME TypeOK, NEW id
  PROVE  CountTypes(id)
<1>1. sq \in Seq(Entry) /\ ops \in Seq(Operation) /\ Pending \in Seq(Completion)
  BY PendingType DEF TypeOK
<1> QED
  BY <1>1, AtFinite DEF CountTypes, NQ, NK, NH, NM, NF, NN

\* The equations, with the truth values replaced by numbers.
LEMMA Equations ==
  ASSUME NEW id, OneToken(id), HoldsPaired(id)
  PROVE  /\ NQ(id) + NK(id) + NH(id) + NF(id) + NN(id) = IF IsActive(id) THEN 1 ELSE 0
         /\ NH(id) + NN(id) = NM(id) + (IF IsWaiting(id) THEN 1 ELSE 0)
  BY DEF OneToken, HoldsPaired, Bit

\* No completion, and nothing on the way to one.
Quiescent(id) == NQ(id) = 0 /\ NK(id) = 0 /\ NH(id) = 0 /\ NM(id) = 0 /\ NF(id) = 0 /\ NN(id) = 0

LEMMA IdleNext ==
  ASSUME TypeOK', NEW id \in Ids, Quiescent(id)', ~IsActive(id)', ~IsWaiting(id)',
         Honest(id)', AllSent(id)'
  PROVE  Sound(id)'
<1>1. /\ sq' \in Seq(Entry) /\ ops' \in Seq(Operation) /\ Pending' \in Seq(Completion)
  BY PendingType DEF TypeOK, Pending
<1>2. OneToken(id)' /\ HoldsPaired(id)'
  <2>1. (Bit(IsActive(id)) = 0)' /\ (Bit(IsWaiting(id)) = 0)'
    BY DEF Bit
  <2>2. (NQ(id) + NK(id) + NH(id) + NF(id) + NN(id) = 0)' /\ (NH(id) + NN(id) = NM(id) + 0)'
    BY DEF Quiescent
  <2> QED
    BY <2>1, <2>2 DEF OneToken, HoldsPaired
<1>3. /\ \A e \in Elems(sq') : e \notin Queued(id)
      /\ \A o \in Elems(ops') : o \notin InKernel(id) /\ o \notin Held(id)
      /\ \A e \in Elems(Pending') : e \notin Firsts(id) /\ e \notin Finals(id)
                                     /\ e \notin Notifs(id)
  <2>1. /\ Cnt(sq', Queued(id)) = 0 /\ Cnt(ops', InKernel(id)) = 0 /\ Cnt(ops', Held(id)) = 0
        /\ Cnt(Pending', Firsts(id)) = 0 /\ Cnt(Pending', Finals(id)) = 0
        /\ Cnt(Pending', Notifs(id)) = 0
    BY DEF Quiescent, NQ, NK, NH, NM, NF, NN, Queued, InKernel, Held, Firsts, Finals, Notifs
  <2> QED
    BY <1>1, <2>1, CntPositive
<1>4. FirstsFirst(Pending, id)'
  BY <1>3 DEF FirstsFirst, Elems, Firsts
<1>5. EntriesMatch(id)' /\ OpsMatch(id)'
  BY <1>3 DEF EntriesMatch, OpsMatch, Queued, InKernel, Held
<1>6. ResultsMatch(id)'
  BY <1>3 DEF ResultsMatch, Honest, Firsts, Finals
<1> QED
  BY <1>2, <1>4, <1>5, <1>6 DEF Sound

LEMMA QueuedNext ==
  ASSUME TypeOK', NEW id \in Ids, NQ(id)' = 1, NK(id)' = 0, NH(id)' = 0, NM(id)' = 0,
         NF(id)' = 0, NN(id)' = 0, IsActive(id)', ~IsWaiting(id)', Honest(id)',
         EntriesMatch(id)'
  PROVE  Sound(id)'
<1>1. /\ sq' \in Seq(Entry) /\ ops' \in Seq(Operation) /\ Pending' \in Seq(Completion)
  BY PendingType DEF TypeOK, Pending
<1>2. OneToken(id)' /\ HoldsPaired(id)'
  <2>1. (Bit(IsActive(id)) = 1)' /\ (Bit(IsWaiting(id)) = 0)'
    BY DEF Bit
  <2>2. (NQ(id) + NK(id) + NH(id) + NF(id) + NN(id) = 1)' /\ (NH(id) + NN(id) = NM(id) + 0)'
    OBVIOUS
  <2> QED
    BY <2>1, <2>2 DEF OneToken, HoldsPaired
<1>3. /\ \A o \in Elems(ops') : o \notin InKernel(id) /\ o \notin Held(id)
      /\ \A e \in Elems(Pending') : e \notin Firsts(id) /\ e \notin Finals(id)
                                     /\ e \notin Notifs(id)
  <2>1. /\ Cnt(ops', InKernel(id)) = 0 /\ Cnt(ops', Held(id)) = 0
        /\ Cnt(Pending', Firsts(id)) = 0 /\ Cnt(Pending', Finals(id)) = 0
        /\ Cnt(Pending', Notifs(id)) = 0
    BY DEF NK, NH, NM, NF, NN, InKernel, Held, Firsts, Finals, Notifs
  <2> QED
    BY <1>1, <2>1, CntPositive
<1>4. FirstsFirst(Pending, id)'
  BY <1>3 DEF FirstsFirst, Elems, Firsts
<1>5. OpsMatch(id)' /\ AllSent(id)'
  BY <1>3 DEF OpsMatch, InKernel, Held, AllSent
<1>6. ResultsMatch(id)'
  BY <1>3 DEF ResultsMatch, Honest, Firsts, Finals
<1> QED
  BY <1>2, <1>4, <1>5, <1>6 DEF Sound

\* Where the one token of a connection is.
LEMMA InKernelAlone ==
  ASSUME TInv, NEW id \in Ids, Sound(id), NEW o \in Elems(ops), o \in InKernel(id)
  PROVE  /\ IsActive(id) /\ ~IsWaiting(id)
         /\ NQ(id) = 0 /\ NK(id) = 1 /\ NH(id) = 0 /\ NM(id) = 0 /\ NF(id) = 0 /\ NN(id) = 0
<1>1. CountTypes(id)
  BY CountsAreNat DEF TInv, IInv
<1>2. NK(id) > 0
  <2>1. ops \in Seq(Operation)
    BY DEF TInv, IInv, TypeOK
  <2> QED
    BY <2>1, CntPositive DEF NK
<1>3. /\ NQ(id) + NK(id) + NH(id) + NF(id) + NN(id) = IF IsActive(id) THEN 1 ELSE 0
      /\ NH(id) + NN(id) = NM(id) + (IF IsWaiting(id) THEN 1 ELSE 0)
  BY Equations DEF Sound
<1>4. IsActive(id) /\ NQ(id) = 0 /\ NK(id) = 1 /\ NH(id) = 0 /\ NF(id) = 0 /\ NN(id) = 0
  BY <1>1, <1>2, <1>3 DEF CountTypes
<1>5. NM(id) = 0 /\ ~IsWaiting(id)
  BY <1>1, <1>3, <1>4 DEF CountTypes
<1> QED
  BY <1>4, <1>5

LEMMA HeldAlone ==
  ASSUME TInv, NEW id \in Ids, Sound(id), NEW o \in Elems(ops), o \in Held(id)
  PROVE  /\ IsActive(id)
         /\ NQ(id) = 0 /\ NK(id) = 0 /\ NH(id) = 1 /\ NF(id) = 0 /\ NN(id) = 0
         /\ NM(id) + (IF IsWaiting(id) THEN 1 ELSE 0) = 1
<1>1. CountTypes(id)
  BY CountsAreNat DEF TInv, IInv
<1>2. NH(id) > 0
  <2>1. ops \in Seq(Operation)
    BY DEF TInv, IInv, TypeOK
  <2> QED
    BY <2>1, CntPositive DEF NH
<1>3. /\ NQ(id) + NK(id) + NH(id) + NF(id) + NN(id) = IF IsActive(id) THEN 1 ELSE 0
      /\ NH(id) + NN(id) = NM(id) + (IF IsWaiting(id) THEN 1 ELSE 0)
  BY Equations DEF Sound
<1>4. IsActive(id) /\ NQ(id) = 0 /\ NK(id) = 0 /\ NH(id) = 1 /\ NF(id) = 0 /\ NN(id) = 0
  BY <1>1, <1>2, <1>3 DEF CountTypes
<1>5. NM(id) + (IF IsWaiting(id) THEN 1 ELSE 0) = 1
  BY <1>1, <1>3, <1>4 DEF CountTypes
<1> QED
  BY <1>4, <1>5

\* The completion the worker looks at.
LEMMA FinalAlone ==
  ASSUME TInv, batch # <<>>, NEW id \in Ids, Sound(id), Cqe \in Finals(id)
  PROVE  /\ IsActive(id) /\ ~IsWaiting(id)
         /\ NQ(id) = 0 /\ NK(id) = 0 /\ NH(id) = 0 /\ NM(id) = 0 /\ NF(id) = 1 /\ NN(id) = 0
<1>1. CountTypes(id)
  BY CountsAreNat DEF TInv, IInv
<1>2. Pending \in Seq(Completion) /\ 1 \in DOMAIN Pending /\ Pending[1] = Cqe
  BY PendingHead, PendingType DEF TInv, IInv
<1>3. NF(id) > 0
  <2>1. Cqe \in Elems(Pending)
    BY <1>2 DEF Elems
  <2> QED
    BY <1>2, <2>1, CntPositive DEF NF
<1>4. /\ NQ(id) + NK(id) + NH(id) + NF(id) + NN(id) = IF IsActive(id) THEN 1 ELSE 0
      /\ NH(id) + NN(id) = NM(id) + (IF IsWaiting(id) THEN 1 ELSE 0)
  BY Equations DEF Sound
<1>5. IsActive(id) /\ NQ(id) = 0 /\ NK(id) = 0 /\ NH(id) = 0 /\ NF(id) = 1 /\ NN(id) = 0
  BY <1>1, <1>3, <1>4 DEF CountTypes
<1>6. NM(id) = 0 /\ ~IsWaiting(id)
  BY <1>1, <1>4, <1>5 DEF CountTypes
<1> QED
  BY <1>5, <1>6

LEMMA NotifAlone ==
  ASSUME TInv, batch # <<>>, NEW id \in Ids, Sound(id), Cqe \in Notifs(id)
  PROVE  /\ IsActive(id) /\ IsWaiting(id)
         /\ NQ(id) = 0 /\ NK(id) = 0 /\ NH(id) = 0 /\ NM(id) = 0 /\ NF(id) = 0 /\ NN(id) = 1
<1>1. CountTypes(id)
  BY CountsAreNat DEF TInv, IInv
<1>2. Pending \in Seq(Completion) /\ 1 \in DOMAIN Pending /\ Pending[1] = Cqe
  BY PendingHead, PendingType DEF TInv, IInv
<1>3. NN(id) > 0
  <2>1. Cqe \in Elems(Pending)
    BY <1>2 DEF Elems
  <2> QED
    BY <1>2, <2>1, CntPositive DEF NN
<1>4. /\ NQ(id) + NK(id) + NH(id) + NF(id) + NN(id) = IF IsActive(id) THEN 1 ELSE 0
      /\ NH(id) + NN(id) = NM(id) + (IF IsWaiting(id) THEN 1 ELSE 0)
  BY Equations DEF Sound
<1>5. IsActive(id) /\ NQ(id) = 0 /\ NK(id) = 0 /\ NH(id) = 0 /\ NF(id) = 0 /\ NN(id) = 1
  BY <1>1, <1>3, <1>4 DEF CountTypes
\* A first completion would come before.
<1>6. NM(id) = 0
  <2>1. \A e \in Elems(Pending) : e \notin Firsts(id)
    <3> SUFFICES ASSUME NEW i \in DOMAIN Pending, Pending[i] \in Firsts(id)
                 PROVE  FALSE
      BY DEF Elems
    <3>1. i < 1
      BY <1>2 DEF Sound, FirstsFirst
    <3> QED
      BY <1>2, <3>1
  <2> QED
    BY <1>1, <1>2, <2>1, CntPositive DEF NM, CountTypes
<1>7. IsWaiting(id)
  BY <1>4, <1>5, <1>6
<1> QED
  BY <1>5, <1>6, <1>7

LEMMA FirstAlone ==
  ASSUME TInv, batch # <<>>, NEW id \in Ids, Sound(id), Cqe \in Firsts(id)
  PROVE  /\ IsActive(id) /\ ~IsWaiting(id)
         /\ NQ(id) = 0 /\ NK(id) = 0 /\ NM(id) = 1 /\ NF(id) = 0
         /\ NH(id) + NN(id) = 1
<1>1. CountTypes(id)
  BY CountsAreNat DEF TInv, IInv
<1>2. Pending \in Seq(Completion) /\ 1 \in DOMAIN Pending /\ Pending[1] = Cqe
  BY PendingHead, PendingType DEF TInv, IInv
<1>3. NM(id) > 0
  <2>1. Cqe \in Elems(Pending)
    BY <1>2 DEF Elems
  <2> QED
    BY <1>2, <2>1, CntPositive DEF NM
<1>4. /\ NQ(id) + NK(id) + NH(id) + NF(id) + NN(id) = IF IsActive(id) THEN 1 ELSE 0
      /\ NH(id) + NN(id) = NM(id) + (IF IsWaiting(id) THEN 1 ELSE 0)
  BY Equations DEF Sound
<1>5. NH(id) + NN(id) > 0
  BY <1>1, <1>3, <1>4 DEF CountTypes
<1>6. IsActive(id) /\ NQ(id) = 0 /\ NK(id) = 0 /\ NF(id) = 0 /\ NH(id) + NN(id) = 1
  BY <1>1, <1>4, <1>5 DEF CountTypes
<1>7. NM(id) = 1 /\ ~IsWaiting(id)
  BY <1>1, <1>3, <1>4, <1>6 DEF CountTypes
<1> QED
  BY <1>6, <1>7

TableSame == UNCHANGED <<connections, idToFd, sockOf, accepted>>

\* The operation of a send ends with a completion, or turns into a held buffer.
SendCompletes(i, r, hold) ==
  /\ ops' = IF hold THEN [ops EXCEPT ![i].op = "hold"] ELSE WithoutOp(i)
  /\ Posted("send", ops[i].id, NoFd, r, hold, FALSE)
  /\ batch' = batch /\ sq' = sq /\ TableSame

LEMMA OpFacts ==
  ASSUME TInv, NEW i \in DOMAIN ops, ops[i].op \in {"send", "hold"}
  PROVE  /\ ops[i] \in Operation /\ ops[i].id \in Ids /\ ops[i] \in Elems(ops)
         /\ ops[i].op = "send" => ops[i] \in InKernel(ops[i].id)
         /\ ops[i].op = "hold" => ops[i] \in Held(ops[i].id)
<1>1. ops \in Seq(Operation)
  BY DEF TInv, IInv, TypeOK
<1>2. ops[i] \in Operation /\ ops[i] \in Elems(ops)
  BY <1>1, ElemsOf
<1>3. ops[i].id \in Ids
  BY <1>2 DEF Operation
<1> QED
  BY <1>2, <1>3 DEF InKernel, Held

LEMMA SendCompletesSound ==
  ASSUME TInv, TypeOK', NEW i \in DOMAIN ops, NEW o, ops[i] = o, o.op = "send",
         NEW id, o.id = id, Sound(id),
         NEW r \in Int, NEW hold \in BOOLEAN, hold => o.zeroCopy,
         SendCompletes(i, r, hold),
         ResultOf(Active(id), r), Reached(id, Plus(Active(id), r))'
  PROVE  Sound(id)'
<1> DEFINE e == [op |-> "send", id |-> id, fd |-> NoFd, result |-> r, more |-> hold,
                 notif |-> FALSE]
<1>1. o \in Operation /\ id \in Ids /\ o \in Elems(ops) /\ o \in InKernel(id)
  BY OpFacts
<1>2. /\ IsActive(id) /\ ~IsWaiting(id)
      /\ NQ(id) = 0 /\ NK(id) = 1 /\ NH(id) = 0 /\ NM(id) = 0 /\ NF(id) = 0 /\ NN(id) = 0
  BY <1>1, InKernelAlone
<1>3. e \in Completion /\ Pending' = Append(Pending, e) /\ Pending \in Seq(Completion)
  <2>1. e \in Completion
    <3>1. id # 0
      BY <1>1 DEF Ids
    <3> QED
      BY <1>1, <3>1 DEF Completion
  <2>2. cq' = Append(cq, e) /\ batch' = batch
    BY DEF SendCompletes, Posted
  <2> HIDE DEF e
  <2> QED
    BY <2>1, <2>2, PendingAppend, PendingType DEF TInv, IInv
<1>4. /\ e \in Firsts(id) <=> hold
      /\ e \in Finals(id) <=> ~hold
      /\ e \notin Notifs(id)
      /\ e.result = r /\ ~e.notif
  BY <1>3 DEF Firsts, Finals, Notifs
<1>5. /\ ops \in Seq(Operation) /\ Carries(o, Active(id))
      /\ Honest(id)
  BY <1>1 DEF TInv, IInv, TypeOK, Sound, OpsMatch, SendOK, ResultsMatch, Honest
<1>6. /\ Active(id)' = Active(id) /\ IsActive(id)' /\ ~IsWaiting(id)'
      /\ UNCHANGED <<sq, idToFd>>
  BY <1>2 DEF SendCompletes, TableSame, Active, ConnOf, IsActive, IsWaiting
<1> HIDE DEF e
<1>7. /\ NM(id)' = IF hold THEN 1 ELSE 0
      /\ NF(id)' = IF hold THEN 0 ELSE 1
      /\ NN(id)' = 0
  <2>1. /\ Cnt(Pending', Firsts(id)) = Cnt(Pending, Firsts(id)) + Bit(e \in Firsts(id))
        /\ Cnt(Pending', Finals(id)) = Cnt(Pending, Finals(id)) + Bit(e \in Finals(id))
        /\ Cnt(Pending', Notifs(id)) = Cnt(Pending, Notifs(id)) + Bit(e \in Notifs(id))
    BY <1>3, CntAppend
  <2>2. /\ Cnt(Pending, Firsts(id)) = 0 /\ Cnt(Pending, Finals(id)) = 0
        /\ Cnt(Pending, Notifs(id)) = 0
    BY <1>2 DEF NM, NF, NN
  <2>3. /\ Cnt(Pending', Firsts(id)) = IF hold THEN 1 ELSE 0
        /\ Cnt(Pending', Finals(id)) = IF hold THEN 0 ELSE 1
        /\ Cnt(Pending', Notifs(id)) = 0
    BY <1>4, <2>1, <2>2 DEF Bit
  <2>4. /\ NM(id)' = Cnt(Pending', Firsts(id)) /\ NF(id)' = Cnt(Pending', Finals(id))
        /\ NN(id)' = Cnt(Pending', Notifs(id))
    BY DEF NM, NF, NN, Firsts, Finals, Notifs
  <2> QED
    BY <2>3, <2>4
<1>8. /\ NQ(id)' = 0 /\ NK(id)' = 0 /\ NH(id)' = IF hold THEN 1 ELSE 0
      /\ \A x \in Elems(ops') :
           \/ x \in Elems(ops) /\ (~hold => x \notin Held(id))
           \/ hold /\ x = [o EXCEPT !.op = "hold"]
      /\ \A x \in Elems(ops') : x \notin InKernel(id)
  <2>1. NQ(id)' = 0
    BY <1>2, <1>6 DEF NQ, Queued
  <2>2. /\ NK(id)' = Cnt(ops', InKernel(id)) /\ NH(id)' = Cnt(ops', Held(id))
        /\ Cnt(ops, InKernel(id)) = 1 /\ Cnt(ops, Held(id)) = 0
    BY <1>2 DEF NK, NH, InKernel, Held
  <2>3. o \notin Held(id) /\ \A x \in Elems(ops) : x \notin Held(id)
    BY <1>1, <1>5, <2>2, CntPositive DEF InKernel, Held
  <2>4. ops' \in Seq(Operation)
    BY DEF TypeOK
  <2>5. CASE hold
    <3> DEFINE h == [o EXCEPT !.op = "hold"]
               t == [ops EXCEPT ![i] = h]
    <3>1. h \in Operation /\ h \in Held(id) /\ h \notin InKernel(id)
      BY <1>1 DEF Operation, InKernel, Held
    <3>2. ops' = t
      BY <2>5 DEF SendCompletes
    <3> HIDE DEF h
    <3>3. /\ Elems(t) \subseteq Elems(ops) \cup {h}
          /\ \A S : Cnt(t, S) = Cnt(ops, S) - Bit(ops[i] \in S) + Bit(h \in S)
      <4>1. Elems(t) \subseteq Elems(ops) \cup {h}
        BY <1>5, ElemsExcept
      <4>2. \A S : Cnt(t, S) = Cnt(ops, S) - Bit(ops[i] \in S) + Bit(h \in S)
        BY <1>5, <3>1, CntExcept
      <4> QED
        BY <4>1, <4>2
    <3>4. Cnt(t, InKernel(id)) = 0 /\ Cnt(t, Held(id)) = 1
      <4>1. /\ Bit(ops[i] \in InKernel(id)) = 1 /\ Bit(h \in InKernel(id)) = 0
            /\ Bit(ops[i] \in Held(id)) = 0 /\ Bit(h \in Held(id)) = 1
        BY <1>1, <2>3, <3>1 DEF Bit
      <4> HIDE DEF t
      <4>2. Cnt(t, InKernel(id)) = Cnt(ops, InKernel(id)) - Bit(ops[i] \in InKernel(id))
                                     + Bit(h \in InKernel(id))
        BY <3>3
      <4>3. Cnt(t, Held(id)) = Cnt(ops, Held(id)) - Bit(ops[i] \in Held(id))
                                 + Bit(h \in Held(id))
        BY <3>3
      <4> QED
        BY <2>2, <4>1, <4>2, <4>3
    <3> HIDE DEF t
    <3>5. \A x \in Elems(ops') : x \notin InKernel(id)
      BY <2>4, <3>2, <3>4, CntPositive
    <3> QED
      BY <2>1, <2>2, <2>3, <2>5, <3>2, <3>3, <3>4, <3>5 DEF h
  <2>6. CASE ~hold
    <3> DEFINE t == Dropped(ops, i)
    <3>1. ops' = t
      BY <2>6 DEF SendCompletes, WithoutOp, Dropped
    <3>2. /\ Cnt(t, InKernel(id)) = Cnt(ops, InKernel(id)) - Bit(ops[i] \in InKernel(id))
          /\ Cnt(t, Held(id)) = Cnt(ops, Held(id)) - Bit(ops[i] \in Held(id))
          /\ Elems(t) \subseteq Elems(ops)
      BY <1>5, CntDropped, ElemsDropped
    <3>3. Cnt(t, InKernel(id)) = 0 /\ Cnt(t, Held(id)) = 0
      <4>1. Bit(ops[i] \in InKernel(id)) = 1 /\ Bit(ops[i] \in Held(id)) = 0
        BY <1>1, <2>3 DEF Bit
      <4> QED
        BY <2>2, <3>2, <4>1
    <3> HIDE DEF t
    <3>4. \A x \in Elems(ops') : x \notin InKernel(id)
      BY <2>4, <3>1, <3>3, CntPositive
    <3> QED
      BY <2>1, <2>2, <2>3, <2>6, <3>1, <3>2, <3>3, <3>4
  <2> QED
    BY <2>5, <2>6
<1>9. OneToken(id)' /\ HoldsPaired(id)'
  <2>1. (Bit(IsActive(id)) = 1)' /\ (Bit(IsWaiting(id)) = 0)'
    BY <1>6 DEF Bit
  <2>2. (NQ(id) + NK(id) + NH(id) + NF(id) + NN(id) = 1)'
    BY <1>7, <1>8
  <2>3. (NH(id) + NN(id) = NM(id) + 0)'
    BY <1>7, <1>8
  <2> QED
    BY <2>1, <2>2, <2>3 DEF OneToken, HoldsPaired
<1>10. FirstsFirst(Pending, id)'
  <2>1. \A x \in Elems(Pending') : x \notin Notifs(id)
    <3>1. Cnt(Pending', Notifs(id)) = 0 /\ Pending' \in Seq(Completion)
      <4>1. Cnt(Pending', Notifs(id)) = 0
        BY <1>7 DEF NN, Notifs
      <4>2. Pending' \in Seq(Completion)
        BY <1>3
      <4> QED
        BY <4>1, <4>2
    <3> QED
      BY <3>1, CntPositive
  <2> QED
    BY <2>1 DEF FirstsFirst, Elems, Notifs
<1>11. EntriesMatch(id)'
  <2>1. \A x \in Elems(sq) : x \notin Queued(id)
    <3>1. sq \in Seq(Entry)
      BY DEF TInv, IInv, TypeOK
    <3> QED
      BY <1>2, <3>1, CntPositive DEF NQ
  <2> QED
    BY <1>6, <2>1 DEF EntriesMatch, Queued
<1>12. OpsMatch(id)'
  <2>1. ASSUME NEW x \in Elems(ops'), x \in Held(id)
        PROVE  HoldOK(id, x)'
    <3>1. hold /\ x = [o EXCEPT !.op = "hold"]
      <4>1. \A y \in Elems(ops) : y \notin Held(id)
        BY <1>2, <1>5, CntPositive DEF NH
      <4> QED
        BY <1>8, <2>1, <4>1
    <3>2. Carries(x, Active(id)) /\ x.zeroCopy
      BY <1>1, <1>5, <3>1 DEF Carries, Operation
    <3> QED
      BY <1>6, <3>2 DEF HoldOK, Carries
  <2> QED
    BY <1>8, <2>1 DEF OpsMatch, InKernel, Held
<1>13. ResultsMatch(id)'
  <2>1. ResultOK(id, r)'
    BY <1>6 DEF ResultOK, ResultOf
  <2>2. Elems(Pending') = Elems(Pending) \cup {e}
    BY <1>3, ElemsOf
  <2>3. \A x \in Elems(Pending) : x \notin Firsts(id) /\ x \notin Finals(id)
    BY <1>2, <1>3, CntPositive DEF NM, NF
  <2>4. hold => Active(id).zeroCopy
    BY <1>5 DEF Carries
  <2>5. ASSUME NEW x \in Elems(Pending')
        PROVE  /\ x.op = "send" /\ x.id = id => ~(x.notif /\ x.more)
               /\ x \in Firsts(id) \cup Finals(id) => ResultOK(id, x.result)'
               /\ x \in Firsts(id) => (Active(id).zeroCopy)'
    <3>1. CASE x \in Elems(Pending)
      BY <1>5, <2>3, <3>1 DEF Honest
    <3>2. CASE x = e
      BY <1>4, <1>6, <2>1, <2>4, <3>2
    <3> QED
      BY <2>2, <2>5, <3>1, <3>2
  <2> QED
    BY <1>6, <2>5 DEF ResultsMatch, Firsts, Finals
<1>14. AllSent(id)'
  BY <1>6 DEF AllSent
<1> QED
  BY <1>9, <1>10, <1>11, <1>12, <1>13, <1>14 DEF Sound

LEMMA NotifySound ==
  ASSUME TInv, TypeOK', NEW i \in DOMAIN ops, NEW o, ops[i] = o, o.op = "hold",
         NEW id, o.id = id, Sound(id),
         Posted("send", o.id, NoFd, 0, FALSE, TRUE), ops' = WithoutOp(i),
         batch' = batch, sq' = sq, TableSame, UNCHANGED wire
  PROVE  Sound(id)'
<1> DEFINE e == [op |-> "send", id |-> id, fd |-> NoFd, result |-> 0, more |-> FALSE,
                 notif |-> TRUE]
           t == Dropped(ops, i)
<1>1. o \in Operation /\ id \in Ids /\ o \in Elems(ops) /\ o \in Held(id) /\ o \notin InKernel(id)
  BY OpFacts DEF InKernel
<1>2. /\ IsActive(id)
      /\ NQ(id) = 0 /\ NK(id) = 0 /\ NH(id) = 1 /\ NF(id) = 0 /\ NN(id) = 0
      /\ NM(id) + (IF IsWaiting(id) THEN 1 ELSE 0) = 1
  BY <1>1, HeldAlone
<1>3. e \in Completion /\ Pending' = Append(Pending, e) /\ Pending \in Seq(Completion)
  <2>1. e \in Completion
    <3>1. id # 0
      BY <1>1 DEF Ids
    <3> QED
      BY <1>1, <3>1 DEF Completion
  <2>2. cq' = Append(cq, e) /\ batch' = batch
    BY DEF Posted
  <2> HIDE DEF e
  <2> QED
    BY <2>1, <2>2, PendingAppend, PendingType DEF TInv, IInv
<1>4. e \notin Firsts(id) /\ e \notin Finals(id) /\ e \in Notifs(id) /\ ~e.more
  BY <1>3 DEF Firsts, Finals, Notifs
<1>5. ops \in Seq(Operation) /\ Honest(id) /\ ops' = t /\ Elems(t) \subseteq Elems(ops)
  <2>1. ops \in Seq(Operation) /\ Honest(id)
    BY DEF TInv, IInv, TypeOK, Sound, ResultsMatch, Honest
  <2>2. ops' = t
    BY DEF WithoutOp, Dropped
  <2> QED
    BY <2>1, <2>2, ElemsDropped
<1>6. /\ Active(id)' = Active(id) /\ IsActive(id)' /\ (IsWaiting(id)' <=> IsWaiting(id))
      /\ UNCHANGED <<sq, idToFd>> /\ \A n : Reached(id, n)' <=> Reached(id, n)
  BY <1>2 DEF TableSame, Active, ConnOf, IsActive, IsWaiting, Reached
<1> HIDE DEF e
<1>7. NM(id)' = NM(id) /\ NF(id)' = 0 /\ NN(id)' = 1
  <2>1. /\ Cnt(Pending', Firsts(id)) = Cnt(Pending, Firsts(id)) + Bit(e \in Firsts(id))
        /\ Cnt(Pending', Finals(id)) = Cnt(Pending, Finals(id)) + Bit(e \in Finals(id))
        /\ Cnt(Pending', Notifs(id)) = Cnt(Pending, Notifs(id)) + Bit(e \in Notifs(id))
    BY <1>3, CntAppend
  <2>2. Bit(e \in Firsts(id)) = 0 /\ Bit(e \in Finals(id)) = 0 /\ Bit(e \in Notifs(id)) = 1
    BY <1>4 DEF Bit
  <2>3. Cnt(Pending, Firsts(id)) \in Nat
    BY <1>3, AtFinite
  <2> QED
    BY <1>2, <2>1, <2>2, <2>3 DEF NM, NF, NN
<1>8. NQ(id)' = 0 /\ NK(id)' = 0 /\ NH(id)' = 0
  <2>1. /\ Cnt(t, InKernel(id)) = Cnt(ops, InKernel(id)) - Bit(ops[i] \in InKernel(id))
        /\ Cnt(t, Held(id)) = Cnt(ops, Held(id)) - Bit(ops[i] \in Held(id))
    BY <1>5, CntDropped
  <2>2. Bit(ops[i] \in InKernel(id)) = 0 /\ Bit(ops[i] \in Held(id)) = 1
    BY <1>1 DEF Bit
  <2> QED
    BY <1>2, <1>5, <1>6, <2>1, <2>2 DEF NQ, NK, NH
<1>9. OneToken(id)' /\ HoldsPaired(id)'
  <2>1. (Bit(IsActive(id)) = 1)' /\ (Bit(IsWaiting(id)))' = IF IsWaiting(id) THEN 1 ELSE 0
    BY <1>6 DEF Bit
  <2>2. (NQ(id) + NK(id) + NH(id) + NF(id) + NN(id) = 1)'
    BY <1>7, <1>8
  <2>3. (NH(id) + NN(id))' = NM(id)' + (IF IsWaiting(id) THEN 1 ELSE 0)
    BY <1>2, <1>7, <1>8
  <2> QED
    BY <2>1, <2>2, <2>3 DEF OneToken, HoldsPaired
<1>10. FirstsFirst(Pending, id)'
  <2> SUFFICES ASSUME NEW j \in DOMAIN Pending', NEW k \in DOMAIN Pending',
                      Pending'[j] \in Firsts(id), Pending'[k] \in Notifs(id)
               PROVE  j < k
    BY DEF FirstsFirst
  <2>1. \A x \in Elems(Pending) : x \notin Notifs(id)
    BY <1>2, <1>3, CntPositive DEF NN
  <2>2. /\ j \in DOMAIN Pending \/ (j = Len(Pending) + 1 /\ Pending'[j] = e)
        /\ j \in DOMAIN Pending => Pending'[j] = Pending[j]
        /\ k \in DOMAIN Pending \/ k = Len(Pending) + 1
        /\ k \in DOMAIN Pending => Pending'[k] = Pending[k]
    BY <1>3
  <2>3. j \in DOMAIN Pending /\ k = Len(Pending) + 1
    BY <1>4, <2>1, <2>2 DEF Elems
  <2> QED
    BY <1>3, <2>3
<1>11. EntriesMatch(id)'
  <2>1. \A x \in Elems(sq) : x \notin Queued(id)
    <3>1. sq \in Seq(Entry)
      BY DEF TInv, IInv, TypeOK
    <3> QED
      BY <1>2, <3>1, CntPositive DEF NQ
  <2> QED
    BY <1>6, <2>1 DEF EntriesMatch
<1>12. OpsMatch(id)'
  <2>1. /\ ops' \in Seq(Operation) /\ Cnt(ops', InKernel(id)) = 0 /\ Cnt(ops', Held(id)) = 0
    BY <1>8 DEF TypeOK, NK, NH
  <2>2. \A x \in Elems(ops') : x \notin InKernel(id) /\ x \notin Held(id)
    BY <2>1, CntPositive
  <2> QED
    BY <2>2 DEF OpsMatch
<1>13. ResultsMatch(id)'
  <2>1. Elems(Pending') = Elems(Pending) \cup {e}
    BY <1>3, ElemsOf
  <2>2. ASSUME NEW x \in Elems(Pending')
        PROVE  /\ x.op = "send" /\ x.id = id => ~(x.notif /\ x.more)
               /\ x \in Firsts(id) \cup Finals(id) => ResultOK(id, x.result)'
               /\ x \in Firsts(id) => (Active(id).zeroCopy)'
    <3>1. CASE x \in Elems(Pending)
      BY <1>6, <3>1 DEF Sound, ResultsMatch, ResultOK
    <3>2. CASE x = e
      BY <1>4, <3>2
    <3> QED
      BY <2>1, <2>2, <3>1, <3>2
  <2> QED
    BY <1>6, <2>2 DEF ResultsMatch, ResultOK, Sound
<1>14. AllSent(id)'
  BY <1>6 DEF AllSent
<1> QED
  BY <1>9, <1>10, <1>11, <1>12, <1>13, <1>14 DEF Sound

\* Entries become operations.
LEMMA BoundRing ==
  ASSUME TypeOK, SubmitRing, NEW id \in Ids
  PROVE  /\ NQ(id)' = 0 /\ NK(id)' = NK(id) + NQ(id) /\ NH(id)' = NH(id)
         /\ Elems(sq') = {}
         /\ \A o \in Elems(ops') : o \in Elems(ops) \/ \E e \in Elems(sq) : o = Bind(e)
<1> DEFINE b == [i \in DOMAIN sq |-> Bind(sq[i])]
<1>1. /\ sq \in Seq(Entry) /\ ops \in Seq(Operation) /\ ops' = ops \o b /\ sq' = <<>>
      /\ \A i \in DOMAIN sq : sq[i] \in Entry
  BY DEF TypeOK, SubmitRing
<1>2. ASSUME NEW e \in Entry
      PROVE  Bind(e) \in Operation
  <2>1. fdSock \in [Fds -> Socks \cup {0}]
    BY DEF TypeOK
  <2> QED
    BY <2>1 DEF Entry, Operation, Bind
<1>3. b \in Seq(Operation) /\ DOMAIN b = DOMAIN sq /\ \A i \in DOMAIN sq : b[i] = Bind(sq[i])
  BY <1>1, <1>2
<1> HIDE DEF b
<1>4. \A i \in DOMAIN sq : sq[i] \in Queued(id) <=> b[i] \in InKernel(id)
  <2>1. \A e \in Entry : e \in Queued(id) <=> Bind(e) \in InKernel(id)
    BY <1>2 DEF Queued, InKernel, Bind
  <2> QED
    BY <1>1, <1>3, <2>1
<1>5. Cnt(b, InKernel(id)) = Cnt(sq, Queued(id))
  BY <1>1, <1>3, <1>4, CntAlike, SMTT(20)
<1>6. Cnt(b, Held(id)) = 0
  <2>1. \A o \in Elems(b) : o \notin Held(id)
    <3>1. \A e \in Entry : Bind(e) \notin Held(id)
      BY DEF Entry, Bind, Held
    <3> QED
      BY <1>1, <1>3, <3>1 DEF Elems
  <2>2. Cnt(b, Held(id)) \in Nat
    BY <1>3, AtFinite
  <2> QED
    BY <1>3, <2>1, <2>2, CntPositive
<1>7. /\ Cnt(ops \o b, InKernel(id)) = Cnt(ops, InKernel(id)) + Cnt(b, InKernel(id))
      /\ Cnt(ops \o b, Held(id)) = Cnt(ops, Held(id)) + Cnt(b, Held(id))
  BY <1>1, <1>3, CntConcat
<1>8. Cnt(ops, Held(id)) \in Nat
  BY <1>1, AtFinite
<1>9. NQ(id)' = 0 /\ Elems(sq') = {}
  <2>1. Cnt(<<>>, Queued(id)) = 0
    BY CntEmpty
  <2> QED
    BY <1>1, <2>1 DEF NQ, Elems
<1>10. \A o \in Elems(ops') : o \in Elems(ops) \/ \E e \in Elems(sq) : o = Bind(e)
  <2>1. Elems(ops \o b) = Elems(ops) \cup Elems(b)
    BY <1>1, <1>3, ElemsConcat
  <2>2. \A o \in Elems(b) : \E e \in Elems(sq) : o = Bind(e)
    BY <1>3 DEF Elems
  <2> QED
    BY <1>1, <2>1, <2>2
<1> QED
  BY <1>1, <1>5, <1>6, <1>7, <1>8, <1>9, <1>10 DEF NQ, NK, NH

LEMMA SubmitSound ==
  ASSUME TInv, TypeOK', SubmitRing, NEW id \in Ids, Sound(id), TableSame,
         UNCHANGED <<batch, cq, wire>>
  PROVE  Sound(id)'
<1>1. /\ NQ(id)' = 0 /\ NK(id)' = NK(id) + NQ(id) /\ NH(id)' = NH(id)
      /\ Elems(sq') = {}
      /\ \A o \in Elems(ops') : o \in Elems(ops) \/ \E e \in Elems(sq) : o = Bind(e)
  BY BoundRing DEF TInv, IInv
<1>2. /\ Active(id)' = Active(id) /\ (IsActive(id)' <=> IsActive(id))
      /\ (IsWaiting(id)' <=> IsWaiting(id)) /\ idToFd' = idToFd /\ accepted' = accepted
      /\ Pending' = Pending /\ \A n : Reached(id, n)' <=> Reached(id, n)
  BY DEF TableSame, Active, ConnOf, IsActive, IsWaiting, Reached, Pending
<1>3. NM(id)' = NM(id) /\ NF(id)' = NF(id) /\ NN(id)' = NN(id) /\ CountTypes(id)
  BY <1>2, CountsAreNat DEF NM, NF, NN, TInv, IInv
<1>4. OneToken(id)' /\ HoldsPaired(id)'
  <2>1. (Bit(IsActive(id)))' = Bit(IsActive(id)) /\ (Bit(IsWaiting(id)))' = Bit(IsWaiting(id))
    BY <1>2 DEF Bit
  <2>2. (NQ(id) + NK(id) + NH(id) + NF(id) + NN(id))' = NQ(id) + NK(id) + NH(id) + NF(id) + NN(id)
    BY <1>1, <1>3 DEF CountTypes
  <2>3. (NH(id) + NN(id))' = NH(id) + NN(id) /\ NM(id)' = NM(id)
    BY <1>1, <1>3
  <2> QED
    BY <2>1, <2>2, <2>3 DEF OneToken, HoldsPaired, Sound
<1>5. FirstsFirst(Pending, id)' /\ EntriesMatch(id)' /\ ResultsMatch(id)' /\ AllSent(id)'
  BY <1>1, <1>2 DEF Sound, FirstsFirst, EntriesMatch, ResultsMatch, AllSent, ResultOK
<1>6. OpsMatch(id)'
  <2> SUFFICES ASSUME NEW o \in Elems(ops')
               PROVE  /\ o \in InKernel(id) => SendOK(id, o)'
                      /\ o \in Held(id) => HoldOK(id, o)'
    BY DEF OpsMatch
  <2>1. CASE o \in Elems(ops)
    BY <1>2, <2>1 DEF Sound, OpsMatch, SendOK, HoldOK, Carries
  <2>2. ASSUME NEW e \in Elems(sq), o = Bind(e)
        PROVE  /\ o \in InKernel(id) => SendOK(id, o)'
               /\ o \in Held(id) => HoldOK(id, o)'
    <3>1. e \in Entry
      BY ElemsOf DEF TInv, IInv, TypeOK
    <3>2. o \notin Held(id) /\ (o \in InKernel(id) => e \in Queued(id))
      BY <2>2, <3>1 DEF Held, InKernel, Queued, Bind, Entry
    <3>3. o \in InKernel(id) => EntryOK(id, e)
      BY <3>2 DEF Sound, EntriesMatch
    <3> QED
      BY <1>2, <2>2, <3>2, <3>3 DEF EntryOK, SendOK, Carries, Bind
  <2> QED
    BY <1>1, <2>1, <2>2
<1> QED
  BY <1>4, <1>5, <1>6 DEF Sound

\* The entry of a payload is pushed for a connection with nothing in flight.
LEMMA PushedSound ==
  ASSUME TInv, TypeOK', NEW id \in Ids, NEW fd \in Fds, idToFd'[id] = fd,
         NEW d \in Connection, connections'[fd] = d, d.id = id,
         HasSend(d), ~d.activeSend.waiting, sq' = Append(sq, SendEntry(fd, d)),
         NQ(id) = 0, NK(id)' = 0, NH(id)' = 0, NM(id)' = 0, NF(id)' = 0, NN(id)' = 0,
         Honest(id)', Gone(wire'[sockOf'[id]], d.closeAfterSend, Plus(d.activeSend, 0))
  PROVE  Sound(id)'
<1> DEFINE e == SendEntry(fd, d)
<1>1. /\ e \in Entry /\ e \in Queued(id) /\ sq \in Seq(Entry)
      /\ e.fd = fd /\ Carries(e, d.activeSend)
  <2>1. e \in Entry
    BY SendEntryType
  <2>2. e.op = "send" /\ e.id = id /\ e.fd = fd /\ Carries(e, d.activeSend)
    BY DEF SendEntry, Carries
  <2> HIDE DEF e
  <2> QED
    BY <2>1, <2>2 DEF Queued, TInv, IInv, TypeOK
<1> HIDE DEF e
<1>2. NQ(id)' = 1
  <2>1. Cnt(Append(sq, e), Queued(id)) = Cnt(sq, Queued(id)) + Bit(e \in Queued(id))
    BY <1>1, CntAppend
  <2>2. Bit(e \in Queued(id)) = 1
    BY <1>1 DEF Bit
  <2> QED
    BY <2>1, <2>2 DEF NQ, e
<1>3. Active(id)' = d.activeSend /\ IsActive(id)' /\ ~IsWaiting(id)'
  BY FdAssumption DEF Active, ConnOf, IsActive, IsWaiting
<1>4. EntriesMatch(id)'
  <2>1. Elems(sq') = Elems(sq) \cup {e}
    BY <1>1, ElemsOf DEF e
  <2>2. \A x \in Elems(sq) : x \notin Queued(id)
    BY <1>1, CntPositive DEF NQ
  <2>3. EntryOK(id, e)'
    BY <1>1, <1>3 DEF EntryOK, Reached, ConnOf, Carries
  <2> QED
    BY <2>1, <2>2, <2>3 DEF EntriesMatch
<1> QED
  BY <1>2, <1>3, <1>4, QueuedNext

LEMMA PopCounts ==
  ASSUME TInv, Pops, NEW id
  PROVE  /\ NM(id)' = NM(id) - Bit(Cqe \in Firsts(id))
         /\ NF(id)' = NF(id) - Bit(Cqe \in Finals(id))
         /\ NN(id)' = NN(id) - Bit(Cqe \in Notifs(id))
         /\ Honest(id) => Honest(id)'
         /\ Elems(Pending') \subseteq Elems(Pending) /\ Cqe \in Elems(Pending)
         /\ FirstsFirst(Pending, id) => FirstsFirst(Pending, id)'
<1>1. /\ Pending \in Seq(Completion) /\ Pending # <<>> /\ Head(Pending) = Cqe
      /\ Pending' = Tail(Pending)
  <2>1. /\ Pending \in Seq(Completion) /\ Pending # <<>> /\ Pending[1] = Cqe
        /\ Pending' = Tail(Pending)
    BY PendingType, PendingHead, PendingTail DEF TInv, IInv, Pops
  <2> QED
    BY <2>1
<1>2. /\ Cnt(Tail(Pending), Firsts(id)) = Cnt(Pending, Firsts(id)) - Bit(Head(Pending) \in Firsts(id))
      /\ Cnt(Tail(Pending), Finals(id)) = Cnt(Pending, Finals(id)) - Bit(Head(Pending) \in Finals(id))
      /\ Cnt(Tail(Pending), Notifs(id)) = Cnt(Pending, Notifs(id)) - Bit(Head(Pending) \in Notifs(id))
  BY <1>1, CntTail
<1>3. Elems(Tail(Pending)) \subseteq Elems(Pending) /\ Head(Pending) \in Elems(Pending)
  BY <1>1, ElemsOf
<1>4. FirstsFirst(Pending, id) => FirstsFirst(Pending, id)'
  <2>1. FirstsFirst(Pending, id) => FirstsFirst(Tail(Pending), id)
    BY <1>1, TailKeepsOrder
  <2> QED
    BY <1>1, <2>1 DEF FirstsFirst
<1>5. /\ NM(id)' = NM(id) - Bit(Cqe \in Firsts(id))
      /\ NF(id)' = NF(id) - Bit(Cqe \in Finals(id))
      /\ NN(id)' = NN(id) - Bit(Cqe \in Notifs(id))
  BY <1>1, <1>2 DEF NM, NF, NN
<1> QED
  BY <1>1, <1>3, <1>4, <1>5 DEF Honest

LEMMA CqeIsInt ==
  ASSUME TInv, batch # <<>>
  PROVE  Cqe \in Completion /\ Cqe.result \in Int /\ Cqe.more \in BOOLEAN /\ Cqe.notif \in BOOLEAN
<1>1. Cqe \in Completion
  BY PendingHead DEF TInv, IInv
<1> QED
  BY <1>1 DEF Completion

\* The last completion of a send is read: nothing is in flight any more, and
\* its result is one the payload allows.
FinishedResult(id) == IF Cqe.notif THEN Active(id).result ELSE Cqe.result

LEMMA FinishedClear ==
  ASSUME TInv, Pops, NEW id \in Ids, Sound(id), Cqe \in Finals(id) \cup Notifs(id), ops' = ops
  PROVE  /\ IsActive(id) /\ (IsWaiting(id) <=> Cqe.notif)
         /\ NQ(id) = 0 /\ NK(id)' = 0 /\ NH(id)' = 0
         /\ NM(id)' = 0 /\ NF(id)' = 0 /\ NN(id)' = 0 /\ Honest(id)'
         /\ FinishedResult(id) \in Int /\ ResultOK(id, FinishedResult(id))
<1>1. /\ NM(id)' = NM(id) - Bit(Cqe \in Firsts(id))
      /\ NF(id)' = NF(id) - Bit(Cqe \in Finals(id))
      /\ NN(id)' = NN(id) - Bit(Cqe \in Notifs(id))
      /\ Honest(id)' /\ Cqe \in Elems(Pending)
  <2>1. Honest(id)
    BY DEF Sound, ResultsMatch, Honest
  <2> QED
    BY <2>1, PopCounts
<1>2. Cqe \in Completion /\ Cqe.result \in Int /\ Cqe.notif \in BOOLEAN
  BY CqeIsInt DEF Pops
<1>3. NK(id)' = NK(id) /\ NH(id)' = NH(id)
  BY DEF NK, NH
<1>4. CASE Cqe \in Finals(id)
  <2>1. Bit(Cqe \in Firsts(id)) = 0 /\ Bit(Cqe \in Finals(id)) = 1 /\ Bit(Cqe \in Notifs(id)) = 0
    BY <1>4 DEF Firsts, Finals, Notifs, Bit
  <2>2. /\ IsActive(id) /\ ~IsWaiting(id) /\ ~Cqe.notif
        /\ NQ(id) = 0 /\ NK(id) = 0 /\ NH(id) = 0 /\ NM(id) = 0 /\ NF(id) = 1 /\ NN(id) = 0
    BY <1>4, FinalAlone DEF Pops, Finals
  <2>3. ResultOK(id, Cqe.result)
    BY <1>1, <1>4 DEF Sound, ResultsMatch
  <2>4. NM(id)' = 0 /\ NF(id)' = 0 /\ NN(id)' = 0
    BY <1>1, <2>1, <2>2
  <2> QED
    BY <1>1, <1>2, <1>3, <2>2, <2>3, <2>4 DEF FinishedResult
<1>5. CASE Cqe \in Notifs(id)
  <2>1. Bit(Cqe \in Firsts(id)) = 0 /\ Bit(Cqe \in Finals(id)) = 0 /\ Bit(Cqe \in Notifs(id)) = 1
    BY <1>5 DEF Firsts, Finals, Notifs, Bit
  <2>2. /\ IsActive(id) /\ IsWaiting(id) /\ Cqe.notif
        /\ NQ(id) = 0 /\ NK(id) = 0 /\ NH(id) = 0 /\ NM(id) = 0 /\ NF(id) = 0 /\ NN(id) = 1
    BY <1>5, NotifAlone DEF Pops, Notifs
  <2>3. ResultOK(id, Active(id).result)
    BY <2>2 DEF Sound, ResultsMatch
  <2>4. Active(id).result \in Int
    <3>1. connections[idToFd[id]] \in Connection
      BY <2>2 DEF IsActive, TInv, IInv, TypeOK
    <3> QED
      BY <3>1, ConnectionFields, PayloadTypes DEF Active, ConnOf
  <2>5. NM(id)' = 0 /\ NF(id)' = 0 /\ NN(id)' = 0
    BY <1>1, <2>1, <2>2
  <2> QED
    BY <1>1, <1>2, <1>3, <2>2, <2>3, <2>4, <2>5 DEF FinishedResult
<1> QED
  BY <1>4, <1>5

\* The first of two completions is stored.
\* The record d of a connection whose send waits with the result r.
WaitsWith(d, fd, id, r) ==
  /\ d.activeSend = [Active(id) EXCEPT !.waiting = TRUE, !.result = r]
  /\ d.closeAfterSend = connections[fd].closeAfterSend

LEMMA WaitSound ==
  ASSUME TInv, TypeOK', Pops, NEW id \in Ids, Sound(id), Cqe \in Firsts(id),
         NEW r, r = Cqe.result,
         ops' = ops, sq' = sq, NEW fd, fd = idToFd[id], NEW d, connections'[fd] = d,
         WaitsWith(d, fd, id, r),
         UNCHANGED <<idToFd, sockOf, accepted, wire>>
  PROVE  Sound(id)'
<1> DEFINE a == Active(id)
           b == Active(id)'
<1>1. /\ IsActive(id) /\ ~IsWaiting(id) /\ NQ(id) = 0 /\ NK(id) = 0 /\ NM(id) = 1 /\ NF(id) = 0
      /\ NH(id) + NN(id) = 1
  BY FirstAlone DEF Pops
<1>2. /\ NM(id)' = NM(id) - Bit(Cqe \in Firsts(id))
      /\ NF(id)' = NF(id) - Bit(Cqe \in Finals(id))
      /\ NN(id)' = NN(id) - Bit(Cqe \in Notifs(id))
      /\ Honest(id)' /\ Cqe \in Elems(Pending) /\ Elems(Pending') \subseteq Elems(Pending)
      /\ FirstsFirst(Pending, id)'
  <2>1. Honest(id) /\ FirstsFirst(Pending, id)
    BY DEF Sound, ResultsMatch, Honest
  <2> QED
    BY <2>1, PopCounts
<1>3. a \in PendingSend /\ r \in Int
  <2>1. connections[idToFd[id]] \in Connection
    BY <1>1 DEF IsActive, TInv, IInv, TypeOK
  <2> QED
    BY <2>1, ConnectionFields, CqeIsInt DEF Active, ConnOf, Pops
<1>4. /\ b = [a EXCEPT !.waiting = TRUE, !.result = r]
      /\ ConnOf(id)' = d /\ ConnOf(id) = connections[fd]
      /\ d.closeAfterSend = connections[fd].closeAfterSend
  BY DEF Active, ConnOf, WaitsWith
<1> HIDE DEF a, b
<1>5. /\ b.start = a.start /\ b.offset = a.offset /\ b.len = a.len /\ b.slot = a.slot
      /\ b.zeroCopy = a.zeroCopy /\ b.waiting = TRUE /\ b.result = r
  BY <1>3, <1>4 DEF PendingSend
<1>6. IsActive(id)' /\ IsWaiting(id)'
  BY <1>1, <1>4, <1>5 DEF IsActive, IsWaiting, HasSend, a, b, Active, ConnOf
<1>7. \A n : Reached(id, n)' <=> Reached(id, n)
  BY <1>4 DEF Reached
<1>8. \A n : Plus(b, n) = Plus(a, n) /\ (ResultOf(b, n) <=> ResultOf(a, n))
             /\ (ResultOK(id, n)' <=> ResultOK(id, n))
  BY <1>5, <1>7 DEF Plus, ResultOf, ResultOK, a, b
<1>9. NM(id)' = 0 /\ NF(id)' = 0 /\ NN(id)' = NN(id) /\ NQ(id)' = 0 /\ NK(id)' = 0 /\ NH(id)' = NH(id)
  <2>1. Bit(Cqe \in Firsts(id)) = 1 /\ Bit(Cqe \in Finals(id)) = 0 /\ Bit(Cqe \in Notifs(id)) = 0
    BY DEF Firsts, Finals, Notifs, Bit
  <2>2. CountTypes(id)
    BY CountsAreNat DEF TInv, IInv
  <2> QED
    BY <1>1, <1>2, <2>1, <2>2 DEF NQ, NK, NH, CountTypes
<1>10. OneToken(id)' /\ HoldsPaired(id)'
  <2>1. (Bit(IsActive(id)) = 1)' /\ (Bit(IsWaiting(id)) = 1)'
    BY <1>6 DEF Bit
  <2>2. CountTypes(id)
    BY CountsAreNat DEF TInv, IInv
  <2>3. (NQ(id) + NK(id) + NH(id) + NF(id) + NN(id))' = 1
    BY <1>1, <1>9, <2>2 DEF CountTypes
  <2>4. (NH(id) + NN(id) = NM(id) + 1)'
    BY <1>1, <1>9
  <2> QED
    BY <2>1, <2>3, <2>4 DEF OneToken, HoldsPaired
<1>11. EntriesMatch(id)' /\ OpsMatch(id)'
  <2>1. /\ \A e \in Elems(sq) : e \notin Queued(id)
        /\ \A o \in Elems(ops) : o \notin InKernel(id)
    <3>1. sq \in Seq(Entry) /\ ops \in Seq(Operation)
      BY DEF TInv, IInv, TypeOK
    <3> QED
      BY <1>1, <3>1, CntPositive DEF NQ, NK
  <2>2. \A o \in Elems(ops) : o \in Held(id) => HoldOK(id, o)'
    BY <1>5 DEF Sound, OpsMatch, HoldOK, Carries, a, b
  <2> QED
    BY <2>1, <2>2 DEF EntriesMatch, OpsMatch
<1>12. ResultsMatch(id)'
  <2>1. \A e \in Elems(Pending') :
          /\ e.op = "send" /\ e.id = id => ~(e.notif /\ e.more)
          /\ e \in Firsts(id) \cup Finals(id) => ResultOK(id, e.result)'
          /\ e \in Firsts(id) => (Active(id).zeroCopy)'
    BY <1>2, <1>5, <1>8 DEF Sound, ResultsMatch, a, b
  <2>2. ResultOK(id, r)'
    BY <1>2, <1>8 DEF Sound, ResultsMatch
  <2>3. (ResultOK(id, Active(id).result))'
    BY <1>5, <2>2 DEF b
  <2> QED
    BY <2>1, <2>3 DEF ResultsMatch
<1>13. AllSent(id)'
  BY <1>6 DEF AllSent
<1> QED
  BY <1>2, <1>10, <1>11, <1>12, <1>13 DEF Sound

-----------------------------------------------------------------------------
(***************************************************************************)
(* queue_tcp_send.                                                         *)
(***************************************************************************)

\* queue_tcp_send takes a payload of n bytes: the record of the connection
\* becomes d, and the payload waits, or is submitted.
Grows(fd, d, pool, n) ==
  LET c == connections[fd]
  IN  /\ Live(fd) /\ n \in Nat /\ n > 0
      /\ d.id = c.id /\ d.closeAfterSend = c.closeAfterSend
      /\ WellFormed(d) /\ HasSend(d)
      /\ Fed(c, accepted[c.id]) => Fed(d, accepted[c.id] + n)
      /\ \A s \in Slots : pool[s] + Slotted(d, s) = free[s] + Slotted(c, s)
      /\ accepted' = [accepted EXCEPT ![c.id] = @ + n]
      /\ Keep(fd, d, pool)
      /\ \/ HasSend(c) /\ d.activeSend = c.activeSend /\ sq' = sq
         \/ /\ ~HasSend(c) /\ ~d.activeSend.waiting
            /\ Plus(d.activeSend, 0) = accepted[c.id]
            /\ sq' = Append(sq, SendEntry(fd, d))

\* Only what close_tcp_connection and the reading side look at changes.
Touches(fd, d) ==
  LET c == connections[fd]
  IN  /\ Live(fd) /\ d \in Connection /\ d.id = c.id
      /\ d.sendQueue = c.sendQueue /\ d.activeSend = c.activeSend
      /\ c.closeAfterSend => d.closeAfterSend
      /\ Keep(fd, d, free)

LEMMA QueueCases ==
  ASSUME TableTypes, accepted \in [Ids -> Nat], NEW fd \in Fds, Live(fd),
         WellFormed(connections[fd]), NEW n \in Nat, QueueTcpSend(fd, n)
  PROVE  \/ \E d : Touches(fd, d) /\ UNCHANGED <<sq, accepted>>
         \/ \E d \in Connection, pool \in [Slots -> Nat] : Grows(fd, d, pool, n)
<1> DEFINE b == connections[fd]
           c == [b EXCEPT !.dataEventPending = FALSE, !.graceTicks = 0]
           p(slot) == [NoSend EXCEPT !.start = accepted[c.id], !.len = n,
                                     !.slot = slot, !.zeroCopy = UseZeroCopySend]
           pool(slot) == [s \in Slots |-> IF s = slot THEN free[s] - 1 ELSE free[s]]
<1>1. b \in Connection /\ free \in [Slots -> Nat] /\ 0 \in 0..GraceTicks
  BY NumberAssumption DEF TableTypes
<1>2. /\ c \in Connection /\ c.id = b.id /\ c.sendQueue = b.sendQueue
      /\ c.activeSend = b.activeSend /\ c.closeAfterSend = b.closeAfterSend
  BY <1>1 DEF Connection
<1>3. b.id \in Ids
  BY <1>1, ConnectionFields DEF Live
<1>4. CASE n = 0 \/ (HasSend(c) /\ Len(c.sendQueue) >= SendQueueCapacity)
  <2>1. Keep(fd, c, free) /\ UNCHANGED <<sq, accepted>>
    BY <1>4 DEF QueueTcpSend
  <2>2. Touches(fd, c)
    BY <1>2, <2>1 DEF Touches
  <2> QED
    BY <2>1, <2>2
<1>5. CASE ~(n = 0 \/ (HasSend(c) /\ Len(c.sendQueue) >= SendQueueCapacity))
  <2>1. PICK slot \in SlotChoices(n) :
          /\ accepted' = [accepted EXCEPT ![c.id] = @ + n]
          /\ IF HasSend(c)
             THEN /\ Keep(fd, [c EXCEPT !.sendQueue = Append(@, p(slot))], pool(slot))
                  /\ UNCHANGED sq
             ELSE /\ Keep(fd, [c EXCEPT !.activeSend = p(slot)], pool(slot))
                  /\ sq' = Append(sq, SendEntry(fd, [c EXCEPT !.activeSend = p(slot)]))
    BY <1>5 DEF QueueTcpSend
  <2>2. slot \in Slots => free[slot] > 0
    BY SlotAssumption DEF SlotChoices
  <2>3. slot \in Slots \cup {NoSlot}
    BY DEF SlotChoices
  <2>4. /\ pool(slot) \in [Slots -> Nat]
        /\ \A s \in Slots : pool(slot)[s] + Bit(slot = s) = free[s]
    BY <1>1, <2>2 DEF Bit
  <2>5. /\ p(slot) \in PendingSend /\ Fresh(p(slot)) /\ p(slot).start = accepted[b.id]
        /\ p(slot).len = n /\ p(slot).slot = slot /\ Plus(p(slot), 0) = accepted[b.id]
        /\ accepted[b.id] \in Nat /\ ~p(slot).waiting
    <3>1. accepted[b.id] \in Nat /\ UseZeroCopySend \in BOOLEAN
      BY <1>3, OptionAssumption
    <3>2. p(slot) \in PendingSend
      BY <1>2, <3>1, <2>3, NoSendType DEF PendingSend
    <3>3. p(slot).start = accepted[b.id] /\ p(slot).len = n /\ p(slot).slot = slot
          /\ p(slot).offset = 0 /\ p(slot).waiting = FALSE
      BY <1>2 DEF NoSend
    <3> HIDE DEF p
    <3> QED
      BY <1>5, <3>1, <3>2, <3>3 DEF Fresh, Plus
  <2> HIDE DEF p, pool, c, b
  <2>6. /\ WellFormed(c) /\ (HasSend(c) <=> HasSend(b))
        /\ \A m : Fed(b, m) => Fed(c, m)
        /\ \A s \in Slots : Slotted(c, s) = Slotted(b, s)
    <3>1. WellFormed(b)
      BY DEF b
    <3> QED
      BY <1>2, <3>1 DEF WellFormed, HasSend, Fed, Slotted
  <2>7. \A d : d \in Connection => \A s \in Slots : Slotted(d, s) \in Nat
    BY SlottedType
  <2>8. CASE HasSend(c)
    <3> DEFINE d == [c EXCEPT !.sendQueue = Append(@, p(slot))]
    <3>1. Append(c.sendQueue, p(slot)) \in Seq(PendingSend)
      BY <1>2, <2>5, ConnectionFields
    <3>2. /\ d \in Connection /\ d.id = b.id /\ d.activeSend = c.activeSend
          /\ d.sendQueue = Append(c.sendQueue, p(slot))
          /\ d.closeAfterSend = b.closeAfterSend
      BY <1>2, <3>1 DEF Connection
    <3>3. Keep(fd, d, pool(slot)) /\ UNCHANGED sq
      BY <2>1, <2>8
    <3> HIDE DEF d
    <3>4. Len(c.sendQueue) < SendQueueCapacity
      <4>1. c.sendQueue \in Seq(PendingSend)
        BY <1>2, ConnectionFields
      <4> QED
        BY <1>5, <2>8, <4>1, NumberAssumption
    <3>5. /\ WellFormed(d)
          /\ \A m \in Nat : Fed(c, m) /\ p(slot).start = m => Fed(d, m + p(slot).len)
          /\ \A s \in Slots : Slotted(d, s) = Slotted(c, s) + Bit(p(slot).slot = s)
      BY <1>2, <2>5, <2>6, <2>8, <3>2, <3>4, AppendedSend, ZenonT(30)
    <3>6. \A s \in Slots : pool(slot)[s] + Slotted(d, s) = free[s] + Slotted(b, s)
      <4> SUFFICES ASSUME NEW s \in Slots
                   PROVE  pool(slot)[s] + Slotted(d, s) = free[s] + Slotted(b, s)
        OBVIOUS
      <4>1. /\ Slotted(d, s) = Slotted(c, s) + Bit(p(slot).slot = s)
            /\ Bit(p(slot).slot = s) = Bit(slot = s) /\ Slotted(c, s) = Slotted(b, s)
        BY <2>5, <2>6, <3>5
      <4>2. pool(slot)[s] \in Nat /\ Slotted(c, s) \in Nat /\ Bit(slot = s) \in Nat
        BY <1>2, <2>4, <2>7 DEF Bit
      <4>3. pool(slot)[s] + Bit(slot = s) = free[s]
        BY <2>4
      <4> QED
        BY <4>1, <4>2, <4>3
    <3>7. HasSend(d)
      BY <2>8, <3>2 DEF HasSend
    <3>8. Fed(b, accepted[b.id]) => Fed(d, accepted[b.id] + n)
      BY <2>5, <2>6, <3>5
    <3>9. accepted' = [accepted EXCEPT ![b.id] = @ + n]
      BY <1>2, <2>1
    <3>10. n > 0
      BY <1>5
    <3>11. Grows(fd, d, pool(slot), n)
      BY <1>2, <2>6, <2>8, <3>2, <3>3, <3>5, <3>6, <3>7, <3>8, <3>9, <3>10 DEF Grows, b
    <3> QED
      BY <2>4, <3>2, <3>11
  <2>9. CASE ~HasSend(c)
    <3> DEFINE d == [c EXCEPT !.activeSend = p(slot)]
    <3>1. /\ d \in Connection /\ d.id = b.id /\ d.activeSend = p(slot)
          /\ d.sendQueue = c.sendQueue /\ d.closeAfterSend = b.closeAfterSend
      BY <1>2, <2>5 DEF Connection
    <3>2. Keep(fd, d, pool(slot)) /\ sq' = Append(sq, SendEntry(fd, d))
      BY <2>1, <2>9
    <3> HIDE DEF d
    <3>3. /\ WellFormed(d) /\ HasSend(d)
          /\ \A m \in Nat : p(slot).start = m => Fed(d, m + p(slot).len)
          /\ \A s \in Slots : Slotted(d, s) = Slotted(c, s) + Bit(p(slot).slot = s)
      BY <1>2, <2>5, <2>6, <2>9, <3>1, StartedSend
    <3>4. \A s \in Slots : pool(slot)[s] + Slotted(d, s) = free[s] + Slotted(b, s)
      <4> SUFFICES ASSUME NEW s \in Slots
                   PROVE  pool(slot)[s] + Slotted(d, s) = free[s] + Slotted(b, s)
        OBVIOUS
      <4>1. /\ Slotted(d, s) = Slotted(c, s) + Bit(p(slot).slot = s)
            /\ Bit(p(slot).slot = s) = Bit(slot = s) /\ Slotted(c, s) = Slotted(b, s)
        BY <2>5, <2>6, <3>3
      <4>2. pool(slot)[s] \in Nat /\ Slotted(c, s) \in Nat /\ Bit(slot = s) \in Nat
        BY <1>2, <2>4, <2>7 DEF Bit
      <4>3. pool(slot)[s] + Bit(slot = s) = free[s]
        BY <2>4
      <4> QED
        BY <4>1, <4>2, <4>3
    <3>5. Fed(d, accepted[b.id] + n)
      BY <2>5, <3>3
    <3>6. accepted' = [accepted EXCEPT ![b.id] = @ + n]
      BY <1>2, <2>1
    <3>7. n > 0
      BY <1>5
    <3>8. Grows(fd, d, pool(slot), n)
      BY <2>5, <2>6, <2>9, <3>1, <3>2, <3>3, <3>4, <3>5, <3>6, <3>7 DEF Grows, b
    <3> QED
      BY <2>4, <3>1, <3>8
  <2> QED
    BY <2>8, <2>9
<1> QED
  BY <1>4, <1>5

-----------------------------------------------------------------------------
(***************************************************************************)
(* The kinds of steps, as far as payloads and their bytes are concerned.   *)
(***************************************************************************)

RingQuiet == \A id \in Ids : RingSame(id)
EventsStay == \A id \in Ids : events'[id] = <<>> <=> events[id] = <<>>

SameSends(f) ==
  /\ connections'[f].id = connections[f].id
  /\ connections'[f].sendQueue = connections[f].sendQueue
  /\ connections'[f].activeSend = connections[f].activeSend
  /\ connections[f].closeAfterSend => connections'[f].closeAfterSend
Begins(f) == ~connections[f].closeAfterSend /\ connections'[f].closeAfterSend

\* No payload moves; one connection may begin to close.
Calm ==
  /\ \A f \in Fds : SameSends(f)
  /\ \A f, g \in Fds : Begins(f) /\ Begins(g) => f = g
  /\ RingQuiet /\ EventsStay
  /\ UNCHANGED <<idToFd, free, nextId, sockOf, accepted, wire>>

Submits ==
  /\ Serving /\ SubmitRing
  /\ UNCHANGED <<connections, idToFd, sockOf, accepted, batch, cq, wire, free, nextId, events>>

\* The kernel is done with a send.
Completes(i, r, hold) ==
  /\ Serving /\ ops[i].op = "send" /\ (hold => ops[i].zeroCopy)
  /\ SendCompletes(i, r, hold)
  /\ \/ r = -1 /\ wire' = wire
     \/ /\ r \in 1..ops[i].rem
        /\ wire' = [wire EXCEPT ![ops[i].sock] = @ \o [k \in 1..r |-> ops[i].pos + k]]
  /\ UNCHANGED <<free, nextId, events>>

Notifies(i) ==
  /\ Serving /\ ops[i].op = "hold"
  /\ Posted("send", ops[i].id, NoFd, 0, FALSE, TRUE) /\ ops' = WithoutOp(i)
  /\ UNCHANGED <<connections, idToFd, sockOf, accepted, batch, sq, wire, free, nextId, events>>

\* A connection with nothing to send leaves the table.
Drops(fd) ==
  /\ Live(fd) /\ ~HasSend(connections[fd])
  /\ \E e \in BOOLEAN : RemoveConnection(fd, connections[fd], free, e)
  /\ RingQuiet
  /\ UNCHANGED <<nextId, sockOf, accepted, wire>>

\* A connection enters it.
Births(fd) ==
  /\ Serving /\ fd \in Fds /\ ~Live(fd) /\ AcceptConnection(fd)
  /\ RingQuiet /\ \A id \in Ids : sockOf[id] < fdSock[fd]
  /\ UNCHANGED <<free, accepted, wire>>

\* A payload is accepted.
Feeds(fd, d, pool, n) ==
  /\ Serving /\ Grows(fd, d, pool, n)
  /\ UNCHANGED <<batch, cq, ops, nextId, sockOf, wire>>

\* The first of two completions is read, or the last one.
Stores(id, d) ==
  /\ Serving /\ Pops /\ Cqe \in Firsts(id) /\ idToFd[id] # NoFd
  /\ d = [ConnOf(id) EXCEPT !.activeSend.waiting = TRUE, !.activeSend.result = Cqe.result]
  /\ Keep(idToFd[id], d, free)
  /\ UNCHANGED <<sq, ops, nextId, sockOf, accepted, wire>>
Finishes(id) ==
  /\ Serving /\ Pops /\ Cqe \in Finals(id) \cup Notifs(id) /\ idToFd[id] # NoFd
  /\ FinishTcpSend(idToFd[id], Confirmed(ConnOf(id)), FinishedResult(id))
  /\ UNCHANGED <<ops, nextId, sockOf, accepted, wire>>

\* The end: connections are closed by force, the ring is dropped.
Forced(fd) ==
  /\ Live(fd) /\ RemoveConnection(fd, connections[fd], free, FALSE)
  /\ ~Serving' /\ RingQuiet
  /\ UNCHANGED <<nextId, sockOf, accepted, wire>>
Quits ==
  /\ ~Serving' /\ ops' = <<>>
  /\ UNCHANGED <<connections, idToFd, free, nextId, sockOf, accepted, wire, events>>
Fails ==
  /\ pc' = "failed" /\ ops' = <<>>
  /\ connections' = [fd \in Fds |-> NoConnection]
  /\ idToFd' = [id \in Ids |-> NoFd]
  /\ UNCHANGED <<free, nextId, sockOf, accepted, wire, events>>

Kinds ==
  \/ Calm \/ Submits \/ Quits \/ Fails
  \/ \E i \in DOMAIN ops : Notifies(i) \/ \E r \in Int, hold \in BOOLEAN : Completes(i, r, hold)
  \/ \E fd \in Fds : \/ Drops(fd) \/ Births(fd) \/ Forced(fd)
                     \/ \E d \in Connection, pool \in [Slots -> Nat], n \in Nat : Feeds(fd, d, pool, n)
  \/ \E id \in Ids : Finishes(id) \/ \E d : Stores(id, d)

-----------------------------------------------------------------------------
\* The ring as far as it is left alone.
LEMMA PartsSame ==
  ASSUME NEW id
  PROVE  /\ sq' = sq => SqLike(sq', sq, id)
         /\ ops' = ops => OpsLike(ops', ops, id)
         /\ Pending' = Pending => PendLike(Pending', Pending, id)
  BY DEF SqLike, OpsLike, PendLike

LEMMA RingStays ==
  ASSUME UNCHANGED <<sq, ops, batch, cq>>
  PROVE  RingQuiet
<1>1. Pending' = Pending
  BY DEF Pending
<1> QED
  BY <1>1, PartsSame DEF RingQuiet, RingSame

LEMMA PopsQuiet ==
  ASSUME TInv, Pops, Cqe.op # "send", ops' = ops,
         \A id \in Ids : SqLike(sq', sq, id)
  PROVE  RingQuiet
<1>1. /\ Pending \in Seq(Completion) /\ Pending # <<>> /\ Pending[1] = Cqe
      /\ Pending' = Tail(Pending)
  BY PendingType, PendingHead, PendingTail DEF TInv, IInv, Pops
<1>2. Head(Pending) = Cqe
  BY <1>1
<1>3. ASSUME NEW id \in Ids
      PROVE  PendLike(Pending', Pending, id)
  BY <1>1, <1>2, ReadOther
<1> QED
  BY <1>3, PartsSame DEF RingQuiet, RingSame

LEMMA TouchesCalm ==
  ASSUME TypeOK, NEW fd \in Fds, NEW d, Touches(fd, d), RingQuiet,
         UNCHANGED <<nextId, sockOf, accepted, wire>>
  PROVE  Calm
<1>1. /\ d.id = connections[fd].id /\ d.sendQueue = connections[fd].sendQueue
      /\ d.activeSend = connections[fd].activeSend
      /\ connections[fd].closeAfterSend => d.closeAfterSend
      /\ connections' = [connections EXCEPT ![fd] = d] /\ free' = free
      /\ UNCHANGED <<idToFd, events>>
  BY DEF Touches, Keep
<1>2. connections \in [Fds -> Connection]
  BY DEF TypeOK
<1>3. \A f \in Fds : connections'[f] = IF f = fd THEN d ELSE connections[f]
  BY <1>1, <1>2
<1>4. \A f \in Fds : SameSends(f)
  BY <1>1, <1>3 DEF SameSends
<1>5. \A f \in Fds : Begins(f) => f = fd
  BY <1>3 DEF Begins
<1> QED
  BY <1>1, <1>4, <1>5 DEF Calm, EventsStay

LEMMA CalmIf ==
  ASSUME RingQuiet,
         UNCHANGED <<connections, events, idToFd, free, nextId, sockOf, accepted, wire>>
  PROVE  Calm
  BY DEF Calm, SameSends, Begins, EventsStay

\* close_tcp_connection and close_tcp_connection_after_send.
LEMMA CloseKinds ==
  ASSUME TypeOK, NEW fd \in Fds, Live(fd), WellFormed(connections[fd]),
         \/ \E e \in BOOLEAN : CloseTcpConnection(fd, e)
         \/ CloseTcpConnectionAfterSend(fd),
         RingQuiet, UNCHANGED <<nextId, sockOf, accepted, wire>>
  PROVE  Calm \/ Drops(fd)
<1> DEFINE c == connections[fd]
           d == [c EXCEPT !.closeAfterSend = TRUE]
<1>1. c \in Connection
  BY DEF TypeOK
<1>2. d \in Connection /\ d.id = c.id
  BY <1>1, SetClosing
<1>3. d.sendQueue = c.sendQueue /\ d.activeSend = c.activeSend /\ d.closeAfterSend = TRUE
  BY <1>1 DEF Connection
<1>4. ~HasSend(c) => c.sendQueue = <<>>
  BY DEF WellFormed
<1>5. \/ Keep(fd, d, free)
      \/ ~HasSend(c) /\ \E e \in BOOLEAN : RemoveConnection(fd, c, free, e)
  BY <1>4 DEF CloseTcpConnection, CloseTcpConnectionAfterSend
<1>6. CASE Keep(fd, d, free)
  <2>1. Touches(fd, d)
    BY <1>2, <1>3, <1>6 DEF Touches
  <2> QED
    BY <2>1, TouchesCalm
<1> QED
  BY <1>5, <1>6 DEF Drops

-----------------------------------------------------------------------------
(***************************************************************************)
(* Each action of the model is a step of one of these kinds.               *)
(***************************************************************************)

LEMMA ClientKinds ==
  ASSUME SInv, Enqueue \/ Stop \/ UNCHANGED vars
  PROVE  Calm /\ pc' = pc
<1>1. /\ UNCHANGED <<sq, ops, batch, cq, pc>>
      /\ UNCHANGED <<connections, events, idToFd, free, nextId, sockOf, accepted, wire>>
  BY DEF Enqueue, Stop, vars, workerVars, tableVars, historyVars, ringVars, jsVars
<1> QED
  BY <1>1, RingStays, CalmIf

\* The completions the kernel posts for what is not a send.
LEMMA OtherPosted ==
  ASSUME TInv, NEW i \in DOMAIN ops, ops[i].op \notin {"send", "hold"},
         NEW e \in Completion, e.op # "send", cq' = Append(cq, e),
         ops' = ops \/ ops' = WithoutOp(i),
         UNCHANGED <<sq, batch>>
  PROVE  RingQuiet
<1>1. /\ Pending' = Append(Pending, e) /\ Pending \in Seq(Completion)
      /\ ops \in Seq(Operation)
  BY PendingAppend, PendingType DEF TInv, IInv, TypeOK
<1>2. ASSUME NEW id \in Ids
      PROVE  PendLike(Pending', Pending, id) /\ OpsLike(ops', ops, id)
  BY <1>1, PostedOther, DroppedOp
<1> QED
  BY <1>2, PartsSame DEF RingQuiet, RingSame

LEMMA KernelKinds ==
  ASSUME SInv, Kernel
  PROVE  Kinds /\ pc' = pc
<1>1. PICK i \in DOMAIN ops :
        \/ KernelAccept(i) \/ KernelAcceptError(i)
        \/ KernelRecvData(i) \/ KernelRecvEnd(i)
        \/ KernelSend(i) \/ KernelSendError(i) \/ KernelNotify(i)
        \/ KernelRead(i)
  BY DEF Kernel
<1>2. TInv /\ ops[i] \in Operation
  BY DEF SInv, TInv, IInv, TypeOK
<1>3. pc' = pc
  BY <1>1 DEF KernelAccept, KernelAcceptError, KernelRecvData, KernelRecvEnd, KernelSend,
              KernelSendError, KernelNotify, KernelRead, workerVars
<1>4. ASSUME KernelAccept(i) \/ KernelAcceptError(i) \/ KernelRecvData(i)
               \/ KernelRecvEnd(i) \/ KernelRead(i)
      PROVE  Calm
  <2>1. \E e \in Completion : e.op # "send" /\ cq' = Append(cq, e)
    <3>1. ASSUME NEW op \in {"accept", "read", "recv"}, NEW id \in Ids \cup {0},
                 op = "recv" => id # 0,
                 NEW fd \in Fds \cup {NoFd}, NEW r \in Int, NEW more \in BOOLEAN,
                 Posted(op, id, fd, r, more, FALSE)
          PROVE  \E e \in Completion : e.op # "send" /\ cq' = Append(cq, e)
      <4> DEFINE e == [op |-> op, id |-> id, fd |-> fd, result |-> r, more |-> more,
                       notif |-> FALSE]
      <4>1. e \in Completion /\ e.op # "send"
        BY <3>1 DEF Completion
      <4>2. cq' = Append(cq, e)
        BY <3>1 DEF Posted
      <4> HIDE DEF e
      <4> QED
        BY <4>1, <4>2
    <3>2. ops[i].id \in Ids \cup {0} /\ (ops[i].op = "recv" => ops[i].id # 0)
      BY <1>2 DEF Operation
    <3>3. 0 \in Int /\ 1 \in Int /\ 8 \in Int /\ -1 \in Int /\ ENoBufs \in Int
      BY DEF ENoBufs
    <3>4. CASE KernelAccept(i)
      <4>1. PICK fd \in Fds \ OpenFds, more \in BOOLEAN : Posted("accept", 0, fd, 1, more, FALSE)
        BY <3>4 DEF KernelAccept
      <4> QED
        BY <3>1, <3>3, <4>1
    <3>5. CASE KernelAcceptError(i)
      <4>1. Posted("accept", 0, NoFd, -1, FALSE, FALSE)
        BY <3>5 DEF KernelAcceptError
      <4> QED
        BY <3>1, <3>3, <4>1
    <3>6. CASE KernelRecvData(i)
      <4>1. PICK more \in BOOLEAN : Posted("recv", ops[i].id, NoFd, 1, more, FALSE)
        BY <3>6 DEF KernelRecvData
      <4> QED
        BY <3>1, <3>2, <3>3, <3>6, <4>1 DEF KernelRecvData
    <3>7. CASE KernelRecvEnd(i)
      <4>1. PICK r \in {0, ENoBufs} : Posted("recv", ops[i].id, NoFd, r, FALSE, FALSE)
        BY <3>7 DEF KernelRecvEnd
      <4> QED
        BY <3>1, <3>2, <3>3, <3>7, <4>1 DEF KernelRecvEnd
    <3>8. CASE KernelRead(i)
      <4>1. Posted("read", 0, NoFd, 8, FALSE, FALSE)
        BY <3>8 DEF KernelRead
      <4> QED
        BY <3>1, <3>3, <4>1
    <3> QED
      BY <1>4, <3>4, <3>5, <3>6, <3>7, <3>8
  <2>2. ops[i].op \notin {"send", "hold"} /\ (ops' = ops \/ ops' = WithoutOp(i))
    BY <1>4 DEF KernelAccept, KernelAcceptError, KernelRecvData, KernelRecvEnd, KernelRead
  <2>3. /\ UNCHANGED <<sq, batch>>
        /\ UNCHANGED <<connections, events, idToFd, free, nextId, sockOf, accepted, wire>>
    BY <1>4 DEF KernelAccept, KernelAcceptError, KernelRecvData, KernelRecvEnd, KernelRead,
                workerVars, tableVars, historyVars
  <2> QED
    BY <1>2, <2>1, <2>2, <2>3, OtherPosted, CalmIf
<1>5. ASSUME KernelSend(i)
      PROVE  \E r \in Int, hold \in BOOLEAN : Completes(i, r, hold)
  <2>1. PICK n \in 1..ops[i].rem :
          /\ wire' = [wire EXCEPT ![ops[i].sock] = @ \o [k \in 1..n |-> ops[i].pos + k]]
          /\ Posted("send", ops[i].id, NoFd, n, ops[i].zeroCopy, FALSE)
    BY <1>5 DEF KernelSend
  <2>2. Completes(i, n, ops[i].zeroCopy)
    BY <1>5, <2>1 DEF KernelSend, Completes, SendCompletes, TableSame, Serving,
                      workerVars, tableVars
  <2>3. n \in Int /\ ops[i].zeroCopy \in BOOLEAN
    BY <1>2 DEF Operation
  <2> QED
    BY <2>2, <2>3
<1>6. ASSUME KernelSendError(i)
      PROVE  \E r \in Int, hold \in BOOLEAN : Completes(i, r, hold)
  <2>1. PICK hold \in BOOLEAN :
          /\ hold => ops[i].zeroCopy
          /\ Posted("send", ops[i].id, NoFd, -1, hold, FALSE)
          /\ ops' = IF hold THEN [ops EXCEPT ![i].op = "hold"] ELSE WithoutOp(i)
    BY <1>6 DEF KernelSendError
  <2>2. Completes(i, -1, hold)
    BY <1>6, <2>1 DEF KernelSendError, Completes, SendCompletes, TableSame, Serving,
                      workerVars, tableVars, historyVars
  <2>3. -1 \in Int
    OBVIOUS
  <2> QED
    BY <2>2, <2>3
<1>7. ASSUME KernelNotify(i)
      PROVE  Notifies(i)
  BY <1>7 DEF KernelNotify, Notifies, Serving, workerVars, tableVars, historyVars
<1> QED
  BY <1>1, <1>3, <1>4, <1>5, <1>6, <1>7 DEF Kinds

LEMMA CommandKinds ==
  ASSUME SInv, TakeCommand \/ FinishCommandCompletion \/ ExpireHalfClosed \/ ExpireIdle
                 \/ StopEndRound \/ StopForce \/ Reap
  PROVE  Calm
<1>1. TypeOK /\ sq \in Seq(Entry) /\ cq \in Seq(Completion) /\ connections \in [Fds -> Connection]
  BY DEF SInv, TInv, IInv, TypeOK
<1>2. UNCHANGED <<events, idToFd, free, nextId, sockOf, accepted, wire>>
  BY DEF TakeCommand, FinishCommandCompletion, ExpireHalfClosed, ExpireIdle,
         StopEndRound, StopForce, Reap, tableVars, historyVars
<1>3. RingQuiet
  <2>1. CASE TakeCommand \/ ExpireHalfClosed \/ ExpireIdle \/ StopEndRound \/ StopForce
    BY <2>1, RingStays DEF TakeCommand, ExpireHalfClosed, ExpireIdle,
         StopEndRound, StopForce, ringVars
  <2>2. CASE FinishCommandCompletion
    <3>1. /\ Pending' = Pending /\ ops' = ops /\ sq' = Append(sq, ReadEntry)
          /\ ReadEntry \in Entry /\ ReadEntry.op # "send"
      BY <2>2, EntryTypes DEF FinishCommandCompletion, Pending, ReadEntry, AcceptEntry
    <3> QED
      BY <1>1, <3>1, AppendedEntry, PartsSame DEF RingQuiet, RingSame
  <2>3. CASE Reap
    <3>1. batch = <<>> /\ batch' = cq /\ cq' = <<>> /\ sq' = sq /\ ops' = ops
      BY <2>3 DEF Reap, SInv, TInv, IInv, Phases
    <3>2. Pending' = cq \o <<>> /\ Pending = <<>> \o cq
      BY <3>1 DEF Pending
    <3>3. cq \o <<>> = cq /\ <<>> \o cq = cq
      BY <1>1
    <3> QED
      BY <3>1, <3>2, <3>3, PartsSame DEF RingQuiet, RingSame
  <2> QED
    BY <2>1, <2>2, <2>3
<1>4. CASE ExpireHalfClosed
  <2>1. \A f \in Fds : connections'[f] = IF Expires(connections[f])
          THEN [connections[f] EXCEPT !.graceTicks = @ - 1] ELSE connections[f]
    BY <1>4 DEF ExpireHalfClosed
  <2>2. ASSUME NEW f \in Fds
        PROVE  SameSends(f) /\ ~Begins(f)
    <3>1. connections[f] \in Connection
      BY <1>1
    <3> QED
      BY <2>1, <3>1 DEF SameSends, Begins, Connection
  <2> QED
    BY <1>2, <1>3, <2>2 DEF Calm, EventsStay
<1>5. CASE ~ExpireHalfClosed
  <2>1. connections' = connections
    BY <1>5 DEF TakeCommand, FinishCommandCompletion, ExpireIdle,
         StopEndRound, StopForce, Reap, tableVars
  <2> QED
    BY <1>2, <1>3, <2>1, CalmIf
<1> QED
  BY <1>4, <1>5

LEMMA SubmitKinds ==
  ASSUME SInv, EnterWait \/ EndLoop \/ StopRound
  PROVE  Submits
  BY DEF EnterWait, EndLoop, StopRound, Submits, Serving, tableVars, historyVars

\* The commands, and the loops that close connections.
LEMMA ExecuteKinds ==
  ASSUME SInv, ExecuteSend \/ ExecuteClose \/ CloseNext
  PROVE  Kinds
<1>1. /\ TypeOK /\ TableTypes /\ accepted \in [Ids -> Nat] /\ work \in Seq(Step)
      /\ todo \subseteq Fds /\ IdsResolve /\ Phases
  BY TypesSplit DEF SInv, TInv, IInv
<1>2. CASE ExecuteSend
  <2> DEFINE fd == idToFd[Head(work).id]
             n == Head(work).len
  <2>1. work # <<>> /\ Head(work).id \in Ids /\ n \in Nat /\ Serving
    <3>1. Head(work) \in Step
      BY <1>1, <1>2 DEF ExecuteSend
    <3> QED
      BY <1>1, <1>2, <3>1 DEF ExecuteSend, Phases, Serving, Step
  <2>2. UNCHANGED <<batch, nextId, ops, cq, wire, sockOf>>
    BY <1>2 DEF ExecuteSend
  <2>3. \/ UNCHANGED <<connections, idToFd, free, fdSock, events, sq, accepted>>
        \/ fd # NoFd /\ Live(fd) /\ QueueTcpSend(fd, n)
    BY <1>2 DEF ExecuteSend
  <2>4. CASE UNCHANGED <<connections, idToFd, free, fdSock, events, sq, accepted>>
    BY <2>2, <2>4, RingStays, CalmIf DEF Kinds
  <2>5. CASE fd # NoFd /\ Live(fd) /\ QueueTcpSend(fd, n)
    <3>1. fd \in Fds /\ WellFormed(connections[fd])
      BY <1>1, <2>1, <2>5, Resolved DEF SInv, Shape
    <3> HIDE DEF fd, n
    <3>2. \/ \E d : Touches(fd, d) /\ UNCHANGED <<sq, accepted>>
          \/ \E d \in Connection, pool \in [Slots -> Nat] : Grows(fd, d, pool, n)
      BY <1>1, <2>1, <2>5, <3>1, QueueCases
    <3>3. ASSUME NEW d, Touches(fd, d), UNCHANGED <<sq, accepted>>
          PROVE  Calm
      BY <1>1, <2>2, <3>1, <3>3, RingStays, TouchesCalm
    <3>4. ASSUME NEW d \in Connection, NEW pool \in [Slots -> Nat], Grows(fd, d, pool, n)
          PROVE  Feeds(fd, d, pool, n)
      BY <2>1, <2>2, <3>4 DEF Feeds
    <3> QED
      BY <2>1, <3>1, <3>2, <3>3, <3>4 DEF Kinds
  <2> QED
    BY <2>3, <2>4, <2>5
<1>3. CASE ExecuteClose \/ CloseNext
  <2>1. UNCHANGED <<batch, nextId, sq, ops, cq, wire, sockOf, accepted>>
    BY <1>3 DEF ExecuteClose, CloseNext
  <2>2. \/ UNCHANGED <<connections, idToFd, free, fdSock, events>>
        \/ \E fd \in Fds : /\ Live(fd)
                           /\ \/ \E e \in BOOLEAN : CloseTcpConnection(fd, e)
                              \/ CloseTcpConnectionAfterSend(fd)
    <3>1. CASE ExecuteClose
      <4> DEFINE fd == idToFd[Head(work).id]
      <4>1. Head(work) \in Step
        BY <1>1, <3>1 DEF ExecuteClose
      <4>2. fd # NoFd => fd \in Fds
        BY <1>1, <4>1, Resolved DEF Step
      <4> QED
        BY <3>1, <4>2 DEF ExecuteClose
    <3>2. CASE CloseNext
      <4>1. EmitsClose \in BOOLEAN
        BY DEF EmitsClose
      <4> QED
        BY <1>1, <3>2, <4>1 DEF CloseNext
    <3> QED
      BY <1>3, <3>1, <3>2
  <2>3. RingQuiet
    BY <2>1, RingStays
  <2>4. ASSUME NEW fd \in Fds, Live(fd),
               \/ \E e \in BOOLEAN : CloseTcpConnection(fd, e)
               \/ CloseTcpConnectionAfterSend(fd)
        PROVE  Calm \/ Drops(fd)
    <3>1. WellFormed(connections[fd])
      BY DEF SInv, Shape
    <3> QED
      BY <1>1, <2>1, <2>3, <2>4, <3>1, CloseKinds
  <2>5. CASE UNCHANGED <<connections, idToFd, free, fdSock, events>>
    BY <2>1, <2>3, <2>5, CalmIf DEF Kinds
  <2> QED
    BY <2>2, <2>4, <2>5 DEF Kinds
<1> QED
  BY <1>2, <1>3

\* What the worker reads.
LEMMA PopsAre ==
  ASSUME SInv, batch # <<>>, batch' = Tail(batch), cq' = cq
  PROVE  /\ Pops /\ TInv /\ TypeOK /\ Cqe \in Completion /\ sq \in Seq(Entry) /\ Serving
         /\ Cqe.op \in {"recv", "send"} => Cqe.id \in Ids
         /\ Cqe.op \in {"recv", "send"} /\ CqeFd # NoFd
              => CqeFd \in Fds /\ Live(CqeFd) /\ connections[CqeFd].id = Cqe.id
<1>1. /\ TInv /\ TypeOK /\ Cqe \in Completion /\ sq \in Seq(Entry) /\ Serving
  BY CqeIsInt DEF SInv, TInv, IInv, TypeOK, Phases, Serving
<1>2. Cqe.op \in {"recv", "send"} => Cqe.id \in Ids
  BY <1>1 DEF Completion
<1> QED
  BY <1>1, <1>2, Resolved DEF Pops, CqeFd, TInv, IInv

\* An unread send completion belongs to a connection in the table.
LEMMA SendResolves ==
  ASSUME SInv, batch # <<>>, batch' = Tail(batch), cq' = cq, Cqe.op = "send"
  PROVE  /\ Cqe.id \in Ids /\ CqeFd # NoFd
         /\ Cqe \in Firsts(Cqe.id) \/ Cqe \in Finals(Cqe.id) \/ Cqe \in Notifs(Cqe.id)
         /\ Cqe \in Firsts(Cqe.id) => ~Cqe.notif
<1>1. /\ Cqe \in Completion /\ Cqe.id \in Ids /\ TInv /\ TypeOK /\ Serving
  BY PopsAre
<1>2. Sound(Cqe.id)
  BY <1>1 DEF SInv
<1>3. Cqe \in Elems(Pending)
  BY <1>1, PopCounts, PopsAre
<1>4. Cqe \in Firsts(Cqe.id) \/ Cqe \in Finals(Cqe.id) \/ Cqe \in Notifs(Cqe.id)
  BY <1>1 DEF Firsts, Finals, Notifs
<1>5. CqeFd # NoFd
  <2>1. SUFFICES ASSUME idToFd[Cqe.id] = NoFd PROVE FALSE
    BY DEF CqeFd
  <2>2. ~IsActive(Cqe.id) /\ ~IsWaiting(Cqe.id)
    BY <2>1 DEF IsActive, IsWaiting
  <2>3. \A e \in Elems(Pending) : e \notin Firsts(Cqe.id) /\ e \notin Finals(Cqe.id)
                                   /\ e \notin Notifs(Cqe.id)
    BY <1>1, <1>2, <2>2, Nothing DEF Sound
  <2> QED
    BY <1>3, <1>4, <2>3
<1>6. Cqe \in Firsts(Cqe.id) => ~Cqe.notif
  BY <1>2, <1>3 DEF Sound, ResultsMatch, Firsts
<1> QED
  BY <1>1, <1>4, <1>5, <1>6

LEMMA ReadKinds ==
  ASSUME SInv, HandleUnknown \/ HandleRecvData \/ HandleRecvNoBuffer \/ HandleRecvEnd
                 \/ HandleRead
  PROVE  Kinds
<1>1. batch # <<>> /\ batch' = Tail(batch) /\ cq' = cq /\ ops' = ops
  BY DEF HandleUnknown, HandleRecvData, HandleRecvNoBuffer, HandleRecvEnd, HandleRead, ringVars
<1>2. /\ Pops /\ TInv /\ TypeOK /\ Cqe \in Completion /\ sq \in Seq(Entry) /\ Serving
      /\ Cqe.op \in {"recv", "send"} => Cqe.id \in Ids
      /\ Cqe.op \in {"recv", "send"} /\ CqeFd # NoFd
              => CqeFd \in Fds /\ Live(CqeFd) /\ connections[CqeFd].id = Cqe.id
  BY <1>1, PopsAre
<1>3. Cqe.op # "send"
  <2>1. CASE HandleUnknown
    BY <1>1, <1>2, <2>1, SendResolves DEF HandleUnknown
  <2>2. CASE ~HandleUnknown
    BY <2>2 DEF HandleRecvData, HandleRecvNoBuffer, HandleRecvEnd, HandleRead
  <2> QED
    BY <2>1, <2>2
<1>4. UNCHANGED <<free, nextId, sockOf, accepted, wire>> \/ HandleRecvEnd
  BY DEF HandleUnknown, HandleRecvData, HandleRecvNoBuffer, HandleRead, tableVars, historyVars
<1>5. RingQuiet
  <2>1. \/ sq' = sq
        \/ CqeFd \in Fds /\ Cqe.id \in Ids /\ sq' = Append(sq, RecvEntry(CqeFd, Cqe.id))
    BY <1>2 DEF HandleUnknown, HandleRecvData, HandleRecvNoBuffer, HandleRecvEnd, HandleRead,
                ringVars
  <2>2. ASSUME NEW id \in Ids PROVE SqLike(sq', sq, id)
    <3>1. CqeFd \in Fds /\ Cqe.id \in Ids =>
            RecvEntry(CqeFd, Cqe.id) \in Entry /\ RecvEntry(CqeFd, Cqe.id).op # "send"
      BY EntryTypes DEF RecvEntry, AcceptEntry
    <3> QED
      BY <1>2, <2>1, <3>1, PartsSame, AppendedEntry
  <2> QED
    BY <1>1, <1>2, <1>3, <2>2, PopsQuiet
<1>6. CASE HandleUnknown \/ HandleRecvNoBuffer \/ HandleRead
  <2>1. UNCHANGED <<connections, events, idToFd, free, nextId, sockOf, accepted, wire>>
    BY <1>6 DEF HandleUnknown, HandleRecvNoBuffer, HandleRead, tableVars, historyVars
  <2> QED
    BY <1>5, <2>1, CalmIf DEF Kinds
<1>7. CASE HandleRecvData
  <2> DEFINE c == connections[CqeFd]
             d == [c EXCEPT !.dataEventPending = TRUE]
  <2>1. /\ CqeFd \in Fds /\ c \in Connection
        /\ connections' = [connections EXCEPT ![CqeFd] = d]
        /\ events' = [events EXCEPT ![Cqe.id] = Append(@, "data")]
        /\ events \in [Ids -> Seq({"connect", "data", "close"})]
        /\ idToFd[Cqe.id] # NoFd /\ Cqe.id \in Ids
        /\ UNCHANGED <<idToFd, free, nextId, sockOf, accepted, wire>>
        /\ Live(CqeFd) /\ connections[CqeFd].id = Cqe.id
    BY <1>2, <1>7 DEF HandleRecvData, TypeOK, CqeFd
  <2>2. /\ d.id = c.id /\ d.sendQueue = c.sendQueue /\ d.activeSend = c.activeSend
        /\ d.closeAfterSend = c.closeAfterSend
    BY <2>1 DEF Connection
  <2>3. \A f \in Fds : connections'[f] = IF f = CqeFd THEN d ELSE connections[f]
    BY <1>2, <2>1 DEF TypeOK
  <2> HIDE DEF d
  <2>4. \A f \in Fds : SameSends(f) /\ ~Begins(f)
    BY <2>2, <2>3 DEF SameSends, Begins
  <2>5. EventsStay
    <3>1. Cqe.id < nextId
      BY <1>2, <2>1 DEF TInv, IdsUsed
    <3>2. events[Cqe.id] # <<>>
      BY <2>1, <3>1 DEF SInv, Unborn
    <3>3. ASSUME NEW q \in Seq({"connect", "data", "close"})
          PROVE  Append(q, "data") # <<>>
      OBVIOUS
    <3>4. \A id \in Ids : events'[id] = IF id = Cqe.id THEN Append(events[id], "data")
                                                      ELSE events[id]
      BY <2>1
    <3>5. events'[Cqe.id] # <<>>
      BY <2>1, <3>3, <3>4
    <3> QED
      BY <3>2, <3>4, <3>5 DEF EventsStay
  <2> QED
    BY <1>5, <2>1, <2>4, <2>5 DEF Calm, Kinds
<1>8. CASE HandleRecvEnd
  <2> DEFINE fd == CqeFd
             c == connections[fd]
  <2>1. fd \in Fds /\ Live(fd) /\ UNCHANGED <<nextId, sockOf, accepted, wire>>
    BY <1>2, <1>8 DEF HandleRecvEnd
  <2>2. c \in Connection /\ WellFormed(c)
    BY <1>2, <2>1 DEF TypeOK, SInv, Shape
  <2> HIDE DEF fd
  <2>3. CASE CloseTcpConnection(fd, TRUE)
    BY <1>2, <1>5, <2>1, <2>2, <2>3, CloseKinds DEF Kinds
  <2>4. CASE DeferTcpRecvShutdown(fd)
    <3> DEFINE g == IF c.dataEventPending THEN GraceTicks ELSE c.graceTicks
               d == [c EXCEPT !.closeAfterSend = TRUE, !.graceTicks = g]
    <3>1. g \in 0..GraceTicks
      BY <2>2, NumberAssumption, ConnectionFields
    <3>2. Keep(fd, d, free)
      BY <2>4 DEF DeferTcpRecvShutdown
    <3>3. d \in Connection /\ d.id = c.id
      BY <2>2, <3>1, SetGrace
    <3>4. d.sendQueue = c.sendQueue /\ d.activeSend = c.activeSend /\ d.closeAfterSend = TRUE
      BY <2>2 DEF Connection
    <3> HIDE DEF d
    <3>5. Touches(fd, d)
      BY <2>1, <3>2, <3>3, <3>4 DEF Touches
    <3> QED
      BY <1>2, <1>5, <2>1, <3>5, TouchesCalm DEF Kinds
  <2> QED
    BY <1>8, <2>3, <2>4 DEF HandleRecvEnd, fd
<1> QED
  BY <1>6, <1>7, <1>8

LEMMA RearmQuiet ==
  ASSUME NEW s \in Seq(Entry), NEW id
  PROVE  SqLike(s \o Rearm, s, id)
<1>1. /\ AcceptEntry \in Entry /\ AcceptEntry.op # "send"
      /\ s \o <<>> = s /\ s \o <<AcceptEntry>> = Append(s, AcceptEntry)
  BY EntryTypes DEF AcceptEntry
<1>2. SqLike(Append(s, AcceptEntry), s, id)
  BY <1>1, AppendedEntry
<1>3. SqLike(s, s, id)
  BY DEF SqLike
<1> QED
  BY <1>1, <1>2, <1>3 DEF Rearm

LEMMA AcceptKinds ==
  ASSUME SInv, HandleAccept
  PROVE  Kinds
<1>1. /\ batch # <<>> /\ batch' = Tail(batch) /\ cq' = cq /\ ops' = ops /\ Cqe.op = "accept"
      /\ UNCHANGED <<free, accepted, wire>>
  BY DEF HandleAccept
<1>2. /\ Pops /\ TInv /\ TypeOK /\ Cqe \in Completion /\ sq \in Seq(Entry) /\ Serving
  BY <1>1, PopsAre
<1>3. nextId \in Ids
  BY <1>2 DEF TypeOK
<1>4. Cqe.fd # NoFd => /\ Cqe.fd \in Fds /\ ~Live(Cqe.fd)
                       /\ \A id \in Ids : sockOf[id] < fdSock[Cqe.fd]
  <2>1. 1 \in DOMAIN Pending /\ Pending[1] = Cqe
    BY <1>1, <1>2, PendingHead
  <2> QED
    BY <1>1, <1>2, <2>1, AcceptedPending DEF IsAccept, TInv, Live, SInv, SocketsOrdered
<1>5. \/ sq' = sq \o Rearm
      \/ Cqe.fd # NoFd /\ sq' = Append(sq, RecvEntry(Cqe.fd, nextId)) \o Rearm
  BY DEF HandleAccept
<1>6. RingQuiet
  <2>1. ASSUME NEW id \in Ids
        PROVE  SqLike(sq', sq, id)
    <3>1. CASE sq' = sq \o Rearm
      BY <1>2, <3>1, RearmQuiet
    <3>2. CASE Cqe.fd # NoFd /\ sq' = Append(sq, RecvEntry(Cqe.fd, nextId)) \o Rearm
      <4> DEFINE e == RecvEntry(Cqe.fd, nextId)
                 t == Append(sq, e)
      <4>1. e \in Entry /\ e.op # "send"
        BY <1>3, <1>4, <3>2, EntryTypes DEF RecvEntry, AcceptEntry
      <4> HIDE DEF e
      <4>2. t \in Seq(Entry) /\ SqLike(t, sq, id)
        BY <1>2, <4>1, AppendedEntry
      <4>3. sq' = t \o Rearm
        BY <3>2 DEF e
      <4> HIDE DEF t
      <4>4. SqLike(t \o Rearm, t, id)
        BY <4>2, RearmQuiet
      <4> QED
        BY <4>2, <4>3, <4>4 DEF SqLike
    <3> QED
      BY <1>5, <3>1, <3>2
  <2> QED
    BY <1>1, <1>2, <2>1, PopsQuiet
<1>7. \/ UNCHANGED <<connections, idToFd, nextId, sockOf, events>>
      \/ Cqe.fd # NoFd /\ AcceptConnection(Cqe.fd)
  BY DEF HandleAccept, RejectConnection
<1>8. CASE UNCHANGED <<connections, idToFd, nextId, sockOf, events>>
  BY <1>1, <1>6, <1>8, CalmIf DEF Kinds
<1>9. CASE Cqe.fd # NoFd /\ AcceptConnection(Cqe.fd)
  BY <1>1, <1>2, <1>4, <1>6, <1>9 DEF Births, Kinds
<1> QED
  BY <1>7, <1>8, <1>9

LEMMA SendIs ==
  ASSUME SInv, HandleSend
  PROVE  \E id \in Ids : Finishes(id) \/ \E d : Stores(id, d)
<1>1. /\ batch # <<>> /\ batch' = Tail(batch) /\ cq' = cq /\ ops' = ops /\ Cqe.op = "send"
      /\ UNCHANGED <<nextId, sockOf, accepted, wire>>
  BY DEF HandleSend
<1> DEFINE fd == CqeFd
           id == Cqe.id
           c == connections[fd]
<1>2. /\ Pops /\ TInv /\ TypeOK /\ Cqe \in Completion /\ Serving
      /\ id \in Ids /\ fd # NoFd /\ fd \in Fds /\ Live(fd) /\ c.id = id /\ fd = idToFd[id]
      /\ c = ConnOf(id) /\ c \in Connection
  BY <1>1, PopsAre, SendResolves DEF CqeFd, ConnOf, TypeOK
<1>3. /\ Cqe \in Firsts(id) \/ Cqe \in Finals(id) \/ Cqe \in Notifs(id)
      /\ Cqe \in Firsts(id) => ~Cqe.notif
      /\ Cqe.more \in BOOLEAN /\ Cqe.notif \in BOOLEAN
  BY <1>1, <1>2, SendResolves, CqeIsInt
<1>4. Sound(id)
  BY <1>2 DEF SInv
<1>5. CASE Cqe \in Firsts(id)
  <2>1. IsActive(id) /\ Cqe.more /\ ~Cqe.notif /\ HasSend(c) /\ c.activeSend.zeroCopy
    <3>1. IsActive(id)
      BY <1>1, <1>2, <1>4, <1>5, FirstAlone
    <3>2. Cqe \in Elems(Pending)
      BY <1>2, PopCounts
    <3>3. Active(id).zeroCopy
      BY <1>4, <1>5, <3>2 DEF Sound, ResultsMatch
    <3> QED
      BY <1>2, <1>3, <1>5, <3>1, <3>3 DEF IsActive, Firsts, Active
  <2> DEFINE d == [c EXCEPT !.activeSend.waiting = TRUE, !.activeSend.result = Cqe.result]
  <2>2. Keep(fd, d, free) /\ UNCHANGED sq
    BY <2>1 DEF HandleSend, AwaitsNotification
  <2>3. Stores(id, d)
    BY <1>1, <1>2, <1>5, <2>2 DEF Stores
  <2> QED
    BY <1>2, <2>3
<1>6. CASE Cqe \in Finals(id) \cup Notifs(id)
  <2>1. /\ IsActive(id) /\ (IsWaiting(id) <=> Cqe.notif) /\ ~Cqe.more
    BY <1>1, <1>2, <1>4, <1>6, FinishedClear DEF Finals, Notifs
  <2>2. HasSend(c) /\ (c.activeSend.waiting <=> Cqe.notif)
    BY <1>2, <2>1 DEF IsActive, IsWaiting, Active
  <2>3. CASE Cqe.notif
    <3>1. FinishTcpSend(fd, Confirmed(c), c.activeSend.result)
      BY <2>2, <2>3 DEF HandleSend, Confirmed
    <3>2. FinishedResult(id) = c.activeSend.result
      BY <1>2, <2>3 DEF FinishedResult, Active
    <3> QED
      BY <1>1, <1>2, <1>6, <3>1, <3>2 DEF Finishes
  <2>4. CASE ~Cqe.notif
    <3>1. FinishTcpSend(fd, c, Cqe.result)
      BY <2>1, <2>2, <2>4 DEF HandleSend, AwaitsNotification
    <3>2. Confirmed(c) = c
      <4>1. c.activeSend \in PendingSend /\ c.activeSend.waiting = FALSE
        BY <1>2, <2>2, <2>4, ConnectionFields, PayloadTypes
      <4>2. [c.activeSend EXCEPT !.waiting = FALSE] = c.activeSend
        BY <4>1 DEF PendingSend
      <4>3. Confirmed(c) = [c EXCEPT !.activeSend = c.activeSend]
        BY <4>2 DEF Confirmed
      <4> QED
        BY <1>2, <4>3 DEF Connection
    <3>3. FinishedResult(id) = Cqe.result
      BY <2>4 DEF FinishedResult
    <3>4. FinishTcpSend(idToFd[id], Confirmed(ConnOf(id)), FinishedResult(id))
      BY <1>2, <3>1, <3>2, <3>3
    <3> QED
      BY <1>1, <1>2, <1>6, <3>4 DEF Finishes
  <2> QED
    BY <2>3, <2>4
<1> QED
  BY <1>3, <1>5, <1>6

LEMMA SendKinds ==
  ASSUME SInv, HandleSend
  PROVE  Kinds
  BY SendIs DEF Kinds

LEMMA EndKinds ==
  ASSUME SInv, ForceClose \/ Exit \/ WorkerFails
  PROVE  Kinds
<1>1. CASE ForceClose
  <2>1. pc = "force" /\ pc' = pc /\ UNCHANGED <<batch, nextId, sq, ops, cq, wire, sockOf, accepted>>
    BY <1>1 DEF ForceClose
  <2>2. PICK fd \in todo : RemoveConnection(fd, connections[fd], free, FALSE)
    BY <1>1 DEF ForceClose
  <2>3. fd \in Fds /\ Live(fd)
    BY <2>1 DEF SInv, TInv, IInv, TypeOK, ForceTodo
  <2>4. RingQuiet
    BY <2>1, RingStays
  <2> QED
    BY <2>1, <2>2, <2>3, <2>4 DEF Forced, Serving, Kinds
<1>2. CASE Exit
  BY <1>2 DEF Exit, Quits, Serving, Kinds, tableVars, historyVars
<1>3. CASE WorkerFails
  BY <1>3 DEF WorkerFails, Fails, Kinds, historyVars
<1> QED
  BY <1>1, <1>2, <1>3

LEMMA NextPhase ==
  ASSUME SInv, [Next]_vars
  PROVE  /\ Serving' => Serving
         /\ pc' # "failed" => pc # "failed"
<1>1. Phases /\ TypeOK
  BY DEF SInv, TInv, IInv
<1>2. CASE Worker
  BY <1>1, <1>2 DEF Worker, TakeCommand, ExecuteSend, ExecuteClose,
     FinishCommandCompletion, ExpireHalfClosed, ExpireIdle, CloseNext,
     EnterWait, Reap, HandleAccept, HandleUnknown, HandleRecvData,
     HandleRecvNoBuffer, HandleRecvEnd, HandleSend, HandleRead,
     EndLoop, StopRound, StopEndRound, StopForce, ForceClose, Exit, Serving, Phases
<1>3. CASE ~Worker
  <2>1. WorkerFails \/ pc' = pc
    BY <1>3, ClientKinds, KernelKinds DEF Next
  <2> QED
    BY <2>1 DEF WorkerFails, Serving
<1> QED
  BY <1>2, <1>3

LEMMA EveryKind ==
  ASSUME SInv, [Next]_vars
  PROVE  Kinds
<1>1. CASE Worker
  BY <1>1, CommandKinds, ExecuteKinds, SubmitKinds, AcceptKinds, ReadKinds, SendKinds, EndKinds
     DEF Worker, Kinds
<1>2. CASE ~Worker
  BY <1>2, ClientKinds, KernelKinds, EndKinds DEF Next, Kinds
<1> QED
  BY <1>1, <1>2

-----------------------------------------------------------------------------
(***************************************************************************)
(* Every kind of step keeps the sends of every connection sound.           *)
(***************************************************************************)

\* A change at the connection id0 is none at another one.
LEMMA OtherConn ==
  ASSUME TInv, NEW fd \in Fds, NEW d, NEW id0,
         connections' = [connections EXCEPT ![fd] = d], connections[fd].id \in {0, id0},
         NEW g \in Ids, g # id0, idToFd'[g] = idToFd[g], sockOf'[g] = sockOf[g],
         accepted'[g] = accepted[g], wire' = wire
  PROVE  ConnSame(g)
<1>1. TypeOK /\ IdsResolve
  BY DEF TInv, IInv
<1>2. idToFd[g] # NoFd => /\ idToFd[g] \in Fds /\ connections[idToFd[g]].id = g /\ g # 0
                          /\ idToFd[g] # fd
  BY <1>1, Resolved DEF Ids
<1>3. idToFd[g] # NoFd => connections'[idToFd[g]] = connections[idToFd[g]]
  BY <1>1, <1>2 DEF TypeOK
<1> QED
  BY <1>3 DEF ConnSame

\* What is known of a connection whose sends are all at rest.
LEMMA AtRest ==
  ASSUME TInv, NEW id \in Ids, Sound(id), ~IsActive(id), ~IsWaiting(id)
  PROVE  Quiescent(id) /\ Honest(id)
<1>1. TypeOK
  BY DEF TInv, IInv
<1> QED
  BY <1>1, Nothing DEF Sound, Quiescent, Honest, ResultsMatch

LEMMA RestNext ==
  ASSUME NEW id \in Ids, Quiescent(id), Honest(id), RingSame(id)
  PROVE  Quiescent(id)' /\ Honest(id)'
<1>1. Quiescent(id)'
  BY SameCounts DEF Quiescent
<1>2. \A e \in Elems(Pending') : e.op = "send" /\ e.id = id => e \in Elems(Pending)
  BY DEF RingSame, PendLike
<1> QED
  BY <1>1, <1>2 DEF Honest

\* A connection of the table.
LEMMA InTable ==
  ASSUME SInv, NEW fd \in Fds, Live(fd)
  PROVE  /\ TInv /\ TypeOK /\ connections[fd] \in Connection
         /\ connections[fd].id \in Ids /\ idToFd[connections[fd].id] = fd
         /\ connections[fd].id < nextId /\ sockOf[connections[fd].id] \in Socks
         /\ WellFormed(connections[fd])
         /\ ConnOf(connections[fd].id) = connections[fd]
<1>1. TInv /\ TypeOK
  BY DEF SInv, TInv, IInv
<1>2. connections[fd] \in Connection /\ connections[fd].id \in Ids
  BY <1>1, NumberTypes DEF TInv, TypeOK
<1>3. idToFd[connections[fd].id] = fd /\ connections[fd].id < nextId
  BY <1>1 DEF TInv, FdsResolve, IdsUsed
<1>4. sockOf[connections[fd].id] \in Socks
  BY <1>1, <1>2, <1>3 DEF SInv, Unborn, TypeOK
<1>5. WellFormed(connections[fd])
  BY DEF SInv, Shape
<1> QED
  BY <1>1, <1>2, <1>3, <1>4, <1>5 DEF ConnOf

LEMMA CalmSound ==
  ASSUME SInv, TInv', Serving, Calm
  PROVE  \A id \in Ids : Sound(id)'
<1>1. TInv /\ TypeOK /\ TypeOK' /\ Unborn /\ \A id \in Ids : Sound(id)
  BY DEF SInv, TInv, IInv
<1>2. ASSUME NEW id \in Ids
      PROVE  ConnSame(id) /\ RingSame(id)
  <2>1. idToFd[id] # NoFd => idToFd[id] \in Fds
    BY <1>1 DEF TypeOK
  <2> QED
    BY <2>1 DEF Calm, SameSends, ConnSame, RingQuiet
<1> QED
  BY <1>1, <1>2, FrameSound

LEMMA SubmitsSound ==
  ASSUME SInv, TInv', Submits
  PROVE  \A id \in Ids : Sound(id)'
<1>1. TInv /\ TypeOK /\ TypeOK' /\ \A id \in Ids : Sound(id)
  BY DEF SInv, TInv, IInv, Submits
<1> QED
  BY <1>1, SubmitSound DEF Submits, TableSame

\* An operation ends, or turns into a held buffer, and posts a completion:
\* nothing of that concerns another connection.
LEMMA OtherOps ==
  ASSUME SInv, NEW i \in DOMAIN ops, ops[i].op \in {"send", "hold"},
         NEW r \in Int, NEW more \in BOOLEAN, NEW notif \in BOOLEAN,
         Posted("send", ops[i].id, NoFd, r, more, notif),
         batch' = batch, sq' = sq,
         \/ ops' = WithoutOp(i)
         \/ ops[i].op = "send" /\ ops' = [ops EXCEPT ![i].op = "hold"],
         NEW g \in Ids, g # ops[i].id
  PROVE  RingSame(g)
<1> DEFINE e == [op |-> "send", id |-> ops[i].id, fd |-> NoFd, result |-> r,
                 more |-> more, notif |-> notif]
<1>1. TInv /\ TypeOK /\ ops \in Seq(Operation) /\ ops[i].id \in Ids
  BY OpFacts DEF SInv, TInv, IInv, TypeOK
<1>2. e \in Completion /\ e.id = ops[i].id /\ cq' = Append(cq, e)
  BY <1>1 DEF Completion, Posted, Ids
<1> HIDE DEF e
<1>3. Pending' = Append(Pending, e) /\ Pending \in Seq(Completion)
  BY <1>1, <1>2, PendingAppend, PendingType
<1>4. PendLike(Pending', Pending, g)
  BY <1>2, <1>3, PostedOther
<1>5. OpsLike(ops', ops, g)
  BY <1>1, DroppedOp, HeldOp
<1> QED
  BY <1>4, <1>5, PartsSame DEF RingSame

\* What a successful send adds to the wire.
LEMMA GoneFurther ==
  ASSUME NEW w \in Seq(Nat), NEW closing \in BOOLEAN, NEW p \in Nat, NEW r \in Nat \ {0},
         Gone(w, closing, p)
  PROVE  Gone(w \o [k \in 1..r |-> p + k], closing, p + r)
<1> DEFINE t == [k \in 1..r |-> p + k]
           u == w \o t
<1>1. /\ t \in Seq(Nat) /\ Len(t) = r /\ u \in Seq(Nat) /\ Len(u) = Len(w) + r
      /\ \A k \in 1..r : t[k] = p + k
  OBVIOUS
<1>2. /\ \A k \in 1..Len(w) : u[k] = w[k]
      /\ \A k \in (Len(w) + 1)..(Len(w) + r) : u[k] = t[k - Len(w)]
  BY <1>1
<1> HIDE DEF t, u
<1>3. CASE closing
  <2>1. u[Len(w) + r] = p + r
    <3>1. /\ Len(w) \in Nat /\ Len(w) + r \in (Len(w) + 1)..(Len(w) + r)
          /\ (Len(w) + r) - Len(w) = r /\ r \in 1..r
      OBVIOUS
    <3>2. u[Len(w) + r] = t[(Len(w) + r) - Len(w)]
      BY <1>2, <3>1
    <3> QED
      BY <1>1, <3>1, <3>2
  <2>2. Streams!LastOf(u) = p + r
    BY <1>1, <2>1 DEF Streams!LastOf
  <2> QED
    BY <1>3, <2>2 DEF Gone, u, t
<1>4. CASE ~closing
  <2>1. w = [k \in 1..p |-> k]
    BY <1>4 DEF Gone
  <2>2. Len(w) = p /\ \A k \in 1..p : w[k] = k
    BY <2>1
  <2>3. Len(u) = p + r /\ \A k \in 1..(p + r) : u[k] = k
    BY <1>1, <1>2, <2>2
  <2>4. u = [k \in 1..(p + r) |-> k]
    BY <1>1, <2>3
  <2> QED
    BY <1>4, <2>4 DEF Gone, u, t
<1> QED
  BY <1>3, <1>4

\* A send operation, and the payload it carries.
LEMMA OpCarries ==
  ASSUME SInv, Serving, NEW i \in DOMAIN ops, ops[i].op = "send"
  PROVE  LET id == ops[i].id
         IN  /\ id \in Ids /\ Sound(id) /\ IsActive(id) /\ SendOK(id, ops[i])
             /\ idToFd[id] \in Fds /\ Live(idToFd[id]) /\ ConnOf(id) \in Connection
             /\ ConnOf(id).id = id
             /\ sockOf[id] \in Socks /\ ops[i].sock = sockOf[id]
             /\ ops[i].pos \in Nat /\ ops[i].rem \in Int
             /\ WellFormed(ConnOf(id)) /\ Active(id) \in PendingSend
<1> DEFINE id == ops[i].id
<1>1. TInv /\ TypeOK /\ IdsResolve /\ FdsResolve
  BY DEF SInv, TInv, IInv
<1>2. /\ ops[i] \in Operation /\ id \in Ids /\ ops[i] \in Elems(ops)
      /\ ops[i] \in InKernel(id)
  BY <1>1, OpFacts
<1>3. Sound(id)
  BY <1>2 DEF SInv
<1>4. IsActive(id) /\ SendOK(id, ops[i])
  BY <1>1, <1>2, <1>3, InKernelAlone DEF Sound, OpsMatch
<1>5. idToFd[id] \in Fds /\ Live(idToFd[id]) /\ connections[idToFd[id]].id = id
  BY <1>1, <1>2, <1>4, Resolved DEF IsActive
<1>6. sockOf[id] \in Socks /\ ConnOf(id) \in Connection /\ WellFormed(ConnOf(id))
  BY <1>5, InTable DEF ConnOf
<1>7. ops[i].sock = sockOf[id]
  BY <1>2 DEF SInv, OwnSockets
<1>8. Active(id) \in PendingSend
  BY <1>6, ConnectionFields DEF Active
<1>9. ops[i].pos \in Nat /\ ops[i].rem \in Int
  BY <1>2 DEF Operation
<1> QED
  BY <1>2, <1>3, <1>4, <1>5, <1>6, <1>7, <1>8, <1>9 DEF ConnOf

LEMMA CompletesSound ==
  ASSUME SInv, TInv', NEW i \in DOMAIN ops, NEW r \in Int, NEW hold \in BOOLEAN,
         Completes(i, r, hold)
  PROVE  \A g \in Ids : Sound(g)'
<1>1. /\ TInv /\ TypeOK /\ TypeOK' /\ Unborn /\ Serving /\ ops[i].op = "send"
      /\ hold => ops[i].zeroCopy
      /\ SendCompletes(i, r, hold) /\ TableSame
      /\ \A g \in Ids : Sound(g)
  BY DEF SInv, TInv, IInv, Completes, SendCompletes
<1>2. PICK o : o = ops[i]
  OBVIOUS
<1>3. PICK id \in Ids : id = o.id
  BY <1>1, <1>2, OpCarries
<1>4. /\ Sound(id) /\ IsActive(id) /\ SendOK(id, o) /\ ConnOf(id) \in Connection
      /\ sockOf[id] \in Socks /\ o.sock = sockOf[id] /\ o.pos \in Nat /\ o.rem \in Int
      /\ WellFormed(ConnOf(id)) /\ Active(id) \in PendingSend
  BY <1>1, <1>2, <1>3, OpCarries
<1> DEFINE a == Active(id)
           p == a.start + a.offset
<1>5. /\ o.pos = p /\ o.rem = a.len - a.offset /\ p \in Nat
      /\ Reached(id, p) /\ Plus(a, 0) = p
      /\ a.start \in Nat /\ a.offset \in Nat /\ a.len \in Nat
  <2>1. a.start \in Nat /\ a.offset \in Nat /\ a.len \in Nat
    BY <1>4, PayloadTypes
  <2>2. Plus(a, 0) = p
    BY <2>1 DEF Plus
  <2> QED
    BY <1>4, <2>1, <2>2 DEF SendOK, Carries
<1>6. /\ wire \in [Socks -> Seq(Nat)]
      /\ \/ r = -1 /\ wire' = wire
         \/ /\ r \in Nat \ {0} /\ r <= o.rem
            /\ wire' = [wire EXCEPT ![sockOf[id]] = @ \o [k \in 1..r |-> p + k]]
  <2>1. wire \in [Socks -> Seq(Nat)]
    BY <1>1 DEF TypeOK
  <2>2. \/ r = -1 /\ wire' = wire
        \/ /\ r \in 1..o.rem
           /\ wire' = [wire EXCEPT ![o.sock] = @ \o [k \in 1..r |-> o.pos + k]]
    BY <1>2 DEF Completes
  <2>3. r \in 1..o.rem => r \in Nat \ {0} /\ r <= o.rem
    BY <1>4
  <2>4. o.pos = p /\ o.sock = sockOf[id]
    BY <1>4, <1>5
  <2> HIDE DEF p
  <2> QED
    BY <2>1, <2>2, <2>3, <2>4
<1>7. ResultOf(a, r)
  BY <1>5, <1>6 DEF ResultOf
<1>8. /\ ConnOf(id).closeAfterSend \in BOOLEAN /\ wire[sockOf[id]] \in Seq(Nat)
      /\ Gone(wire[sockOf[id]], ConnOf(id).closeAfterSend, p)
  BY <1>4, <1>5, <1>6, ConnectionFields DEF Reached
<1>9. Gone(wire'[sockOf[id]], ConnOf(id).closeAfterSend, Plus(a, r))
  <2>1. CASE r = -1 /\ wire' = wire
    <3>1. Plus(a, r) = p
      BY <1>5, <2>1 DEF Plus
    <3> QED
      BY <1>8, <2>1, <3>1
  <2>2. CASE /\ r \in Nat \ {0}
             /\ wire' = [wire EXCEPT ![sockOf[id]] = @ \o [k \in 1..r |-> p + k]]
    <3>1. Plus(a, r) = p + r
      BY <1>5, <2>2 DEF Plus
    <3>2. wire'[sockOf[id]] = wire[sockOf[id]] \o [k \in 1..r |-> p + k]
      BY <1>4, <1>6, <2>2
    <3> HIDE DEF p
    <3> QED
      BY <1>5, <1>8, <2>2, <3>1, <3>2, GoneFurther
  <2> QED
    BY <1>6, <2>1, <2>2
<1>10. Reached(id, Plus(Active(id), r))'
  BY <1>1, <1>9 DEF Reached, TableSame, ConnOf, Active
<1>11. Sound(id)'
  BY <1>1, <1>2, <1>3, <1>4, <1>7, <1>10, SendCompletesSound
<1>12. ASSUME NEW g \in Ids, g # id
       PROVE  Sound(g)'
  <2>1. RingSame(g)
    BY <1>1, <1>2, <1>3, <1>12, OtherOps DEF SendCompletes
  <2>2. ConnSame(g)
    <3>1. idToFd[g] # NoFd => sockOf[g] # sockOf[id] /\ sockOf[g] \in Socks
      <4>1. ASSUME idToFd[g] # NoFd
            PROVE  sockOf[g] \in Socks
        <5>1. idToFd[g] \in Fds /\ Live(idToFd[g]) /\ connections[idToFd[g]].id = g
          BY <1>1, <4>1, Resolved DEF TInv, IInv
        <5> QED
          BY <5>1, InTable
      <4> QED
        BY <1>4, <1>12, <4>1 DEF SInv, SocketsOrdered, Socks
    <3>2. idToFd[g] # NoFd => wire'[sockOf[g]] = wire[sockOf[g]]
      BY <1>6, <3>1
    <3> QED
      BY <1>1, <3>2 DEF ConnSame, TableSame
  <2> QED
    BY <1>1, <2>1, <2>2, FrameSound
<1> QED
  BY <1>11, <1>12

LEMMA NotifiesSound ==
  ASSUME SInv, TInv', NEW i \in DOMAIN ops, Notifies(i)
  PROVE  \A g \in Ids : Sound(g)'
<1>1. /\ TInv /\ TypeOK /\ TypeOK' /\ Unborn /\ Serving /\ ops[i].op = "hold"
      /\ TableSame /\ \A g \in Ids : Sound(g)
  BY DEF SInv, TInv, IInv, Notifies, TableSame
<1>2. PICK o : o = ops[i]
  OBVIOUS
<1>3. PICK id \in Ids : id = o.id
  BY <1>1, <1>2, OpFacts
<1>4. /\ Posted("send", o.id, NoFd, 0, FALSE, TRUE) /\ ops' = WithoutOp(i)
      /\ batch' = batch /\ sq' = sq /\ UNCHANGED wire
  BY <1>2 DEF Notifies
<1>5. Sound(id)'
  BY <1>1, <1>2, <1>3, <1>4, NotifySound
<1>6. ASSUME NEW g \in Ids, g # id
      PROVE  Sound(g)'
  <2>1. RingSame(g)
    <3>1. 0 \in Int
      OBVIOUS
    <3> QED
      BY <1>1, <1>2, <1>3, <1>4, <1>6, <3>1, OtherOps
  <2>2. ConnSame(g)
    BY <1>1, <1>4 DEF ConnSame, TableSame
  <2> QED
    BY <1>1, <2>1, <2>2, FrameSound
<1> QED
  BY <1>5, <1>6

LEMMA NothingGone == Gone(<<>>, FALSE, 0)
<1>1. [k \in 1..0 |-> k] \in Seq(Nat) /\ Len([k \in 1..0 |-> k]) = 0
  OBVIOUS
<1>2. [k \in 1..0 |-> k] = <<>>
  BY <1>1
<1> QED
  BY <1>2 DEF Gone

\* A record of the table changes and nothing else but, maybe, the ring.
LEMMA KeepOther ==
  ASSUME SInv, Serving, TInv', NEW fd \in Fds, Live(fd), NEW d, NEW pool, Keep(fd, d, pool),
         UNCHANGED <<sockOf, wire>>,
         NEW g \in Ids, g # connections[fd].id, RingSame(g),
         accepted'[g] = accepted[g]
  PROVE  Sound(g)'
<1>1. TInv /\ TypeOK' /\ Unborn /\ Sound(g)
  BY DEF SInv, TInv, IInv
<1>2. ConnSame(g)
  BY <1>1, OtherConn DEF Keep
<1> QED
  BY <1>1, <1>2, FrameSound

LEMMA RemoveOther ==
  ASSUME SInv, Serving, TInv', NEW fd \in Fds, Live(fd), NEW d, NEW pool, NEW e, d.id = connections[fd].id,
         RemoveConnection(fd, d, pool, e),
         UNCHANGED <<sockOf, wire, accepted>>,
         NEW g \in Ids, g # connections[fd].id, RingSame(g)
  PROVE  Sound(g)'
<1>1. TInv /\ TypeOK' /\ Unborn /\ Sound(g) /\ TypeOK
  BY DEF SInv, TInv, IInv
<1>2. ConnSame(g)
  <2>1. idToFd'[g] = idToFd[g]
    BY <1>1 DEF RemoveConnection, TypeOK
  <2> QED
    BY <1>1, <2>1, OtherConn DEF RemoveConnection
<1> QED
  BY <1>1, <1>2, FrameSound

LEMMA GoneNext ==
  ASSUME TypeOK', NEW id \in Ids, idToFd'[id] = NoFd, Quiescent(id)', Honest(id)'
  PROVE  Sound(id)'
<1>1. ~IsActive(id)' /\ ~IsWaiting(id)' /\ AllSent(id)'
  BY DEF IsActive, IsWaiting, AllSent
<1> QED
  BY <1>1, IdleNext

LEMMA DropsSound ==
  ASSUME SInv, TInv', Serving, NEW fd \in Fds, Drops(fd)
  PROVE  \A g \in Ids : Sound(g)'
<1> DEFINE c == connections[fd]
<1>1. PICK id \in Ids : id = c.id
  BY InTable DEF Drops
<1>2. /\ TInv /\ TypeOK /\ TypeOK' /\ Live(fd) /\ ~HasSend(c) /\ WellFormed(c)
      /\ idToFd[id] = fd /\ ConnOf(id) = c /\ Sound(id) /\ RingQuiet
      /\ UNCHANGED <<sockOf, wire, accepted>>
  BY <1>1, InTable DEF Drops, SInv, TInv, IInv
<1>3. PICK e \in BOOLEAN : RemoveConnection(fd, c, free, e)
  BY DEF Drops
<1>4. idToFd'[id] = NoFd
  BY <1>1, <1>2, <1>3 DEF RemoveConnection, TypeOK
<1>5. ~IsActive(id) /\ ~IsWaiting(id)
  BY <1>2 DEF IsActive, IsWaiting, Active, WellFormed, NoSend
<1>6. Quiescent(id)' /\ Honest(id)'
  BY <1>2, <1>5, AtRest, RestNext DEF RingQuiet
<1>7. Sound(id)'
  BY <1>2, <1>4, <1>6, GoneNext
<1>8. ASSUME NEW g \in Ids, g # id
      PROVE  Sound(g)'
  BY <1>1, <1>2, <1>3, <1>8, RemoveOther DEF RingQuiet
<1> QED
  BY <1>7, <1>8

LEMMA BirthsSound ==
  ASSUME IdsSuffice, SInv, TInv', Serving, NEW fd \in Fds, Births(fd)
  PROVE  \A g \in Ids : Sound(g)'
<1>1. /\ TInv /\ TypeOK /\ TypeOK' /\ Unborn /\ ~Live(fd) /\ RingQuiet
      /\ UNCHANGED <<wire, accepted>>
      /\ AcceptConnection(fd) /\ \A id \in Ids : sockOf[id] < fdSock[fd]
      /\ \A g \in Ids : Sound(g)
  BY DEF Births, SInv, TInv, IInv
<1>2. PICK id \in Ids : id = nextId
  BY <1>1 DEF TypeOK
<1>3. /\ connections' = [connections EXCEPT ![fd] = [NoConnection EXCEPT !.id = nextId]]
      /\ \A g \in Ids : /\ idToFd'[g] = IF g = id THEN fd ELSE idToFd[g]
                        /\ sockOf'[g] = IF g = id THEN fdSock[fd] ELSE sockOf[g]
  BY <1>1, <1>2 DEF AcceptConnection, TypeOK
<1>4. ASSUME NEW g \in Ids, g # id
      PROVE  Sound(g)'
  <2>1. connections[fd].id = 0
    BY <1>1 DEF Live
  <2>2. PICK d : d = [NoConnection EXCEPT !.id = nextId]
    OBVIOUS
  <2>3. connections' = [connections EXCEPT ![fd] = d] /\ connections[fd].id \in {0, id}
    BY <1>3, <2>1, <2>2
  <2>4. idToFd'[g] = idToFd[g] /\ sockOf'[g] = sockOf[g] /\ accepted'[g] = accepted[g]
        /\ wire' = wire
    BY <1>1, <1>3, <1>4
  <2>5. ConnSame(g)
    BY <1>1, <1>4, <2>3, <2>4, OtherConn
  <2> QED
    BY <1>1, <2>5, FrameSound DEF RingQuiet
<1>5. Sound(id)'
  <2>1. idToFd[id] = NoFd
    <3>1. id \in Nat /\ ~(id < id)
      BY DEF Ids
    <3> QED
      BY <1>1, <1>2, <3>1, Resolved DEF TInv, IInv, IdsUsed
  <2>2. Quiescent(id)' /\ Honest(id)'
    BY <1>1, <2>1, AtRest, RestNext DEF RingQuiet, IsActive, IsWaiting
  <2>3. connections'[fd] = [NoConnection EXCEPT !.id = nextId]
    BY <1>1, <1>3 DEF TypeOK
  <2>4. idToFd'[id] = fd /\ ~HasSend(connections'[fd]) /\ ~connections'[fd].activeSend.waiting
        /\ connections'[fd].closeAfterSend = FALSE
    BY <1>3, <2>3 DEF HasSend, NoConnection, NoSend
  <2>5. ~IsActive(id)' /\ ~IsWaiting(id)'
    BY <2>4 DEF IsActive, IsWaiting, Active, ConnOf, HasSend
  <2>6. wire'[sockOf'[id]] = <<>> /\ accepted'[id] = 0
    <3>1. fdSock[fd] \in Socks
      <4>1. fdSock[fd] \in Socks \cup {0} /\ sockOf[id] \in Socks \cup {0} /\ sockOf[id] < fdSock[fd]
        BY <1>1 DEF TypeOK
      <4>2. fdSock[fd] # 0
        BY <4>1 DEF Socks
      <4> QED
        BY <4>1, <4>2
    <3>2. \A g \in Ids : sockOf[g] # fdSock[fd]
      <4>1. ASSUME NEW g \in Ids PROVE sockOf[g] # fdSock[fd]
        <5>1. sockOf[g] \in Socks \cup {0} /\ sockOf[g] < fdSock[fd]
          BY <1>1 DEF TypeOK
        <5> QED
          BY <5>1 DEF Socks
      <4> QED
        BY <4>1
    <3>3. nextId >= nextId
      BY <1>2 DEF Ids
    <3> QED
      BY <1>1, <1>2, <1>3, <3>1, <3>2, <3>3 DEF SInv, Silent, Unborn
  <2>7. AllSent(id)'
    BY <2>4, <2>6, NothingGone DEF AllSent, Reached, ConnOf
  <2> QED
    BY <1>1, <2>2, <2>5, <2>7, IdleNext
<1> QED
  BY <1>4, <1>5

LEMMA FeedsSound ==
  ASSUME SInv, TInv', NEW fd \in Fds, NEW d \in Connection, NEW pool \in [Slots -> Nat],
         NEW n \in Nat, Feeds(fd, d, pool, n)
  PROVE  \A g \in Ids : Sound(g)'
<1> DEFINE c == connections[fd]
<1>1. /\ Serving /\ Live(fd) /\ d.id = c.id /\ d.closeAfterSend = c.closeAfterSend
      /\ HasSend(d) /\ accepted' = [accepted EXCEPT ![c.id] = @ + n]
      /\ Keep(fd, d, pool)
      /\ \/ HasSend(c) /\ d.activeSend = c.activeSend /\ sq' = sq
         \/ /\ ~HasSend(c) /\ ~d.activeSend.waiting
            /\ Plus(d.activeSend, 0) = accepted[c.id]
            /\ sq' = Append(sq, SendEntry(fd, d))
      /\ UNCHANGED <<batch, cq, ops, sockOf, wire>>
  BY DEF Feeds, Grows
<1>2. PICK id \in Ids : id = c.id
  BY <1>1, InTable
<1>3. /\ TInv /\ TypeOK /\ TypeOK' /\ Unborn /\ Sound(id) /\ idToFd[id] = fd /\ ConnOf(id) = c
      /\ WellFormed(c) /\ sq \in Seq(Entry) /\ accepted \in [Ids -> Nat] /\ c \in Connection
  BY <1>1, <1>2, InTable DEF SInv, TInv, IInv, TypeOK
<1>4. Pending' = Pending
  BY <1>1 DEF Pending
<1>5. idToFd'[id] = fd /\ connections'[fd] = d
  BY <1>1, <1>3 DEF Keep, TypeOK
<1>6. CASE HasSend(c) /\ d.activeSend = c.activeSend /\ sq' = sq
  <2>1. \A g \in Ids : RingSame(g)
    BY <1>1, <1>4, <1>6, PartsSame DEF RingSame
  <2>2. ConnSame(id)
    BY <1>1, <1>2, <1>3, <1>5, <1>6 DEF ConnSame, IsActive
  <2>3. Sound(id)'
    BY <1>3, <2>1, <2>2, FrameSound
  <2>4. ASSUME NEW g \in Ids, g # id
        PROVE  Sound(g)'
    <3>1. accepted'[g] = accepted[g]
      BY <1>1, <1>2, <1>3, <2>4
    <3> QED
      BY <1>1, <1>2, <2>1, <2>4, <3>1, KeepOther
  <2> QED
    BY <2>3, <2>4
<1>7. CASE /\ ~HasSend(c) /\ ~d.activeSend.waiting
           /\ Plus(d.activeSend, 0) = accepted[c.id]
           /\ sq' = Append(sq, SendEntry(fd, d))
  <2>1. SendEntry(fd, d) \in Entry /\ SendEntry(fd, d).id = id
    BY <1>1, <1>2, SendEntryType DEF SendEntry
  <2>2. ~IsActive(id) /\ ~IsWaiting(id)
    BY <1>3, <1>7 DEF IsActive, IsWaiting, Active, WellFormed, NoSend
  <2>3. Quiescent(id) /\ Honest(id) /\ Reached(id, accepted[id])
    BY <1>3, <2>2, AtRest, FdAssumption DEF Sound, AllSent
  <2>4. /\ NK(id)' = NK(id) /\ NH(id)' = NH(id) /\ NM(id)' = NM(id)
        /\ NF(id)' = NF(id) /\ NN(id)' = NN(id) /\ Honest(id)'
    BY <1>1, <1>4, <2>3 DEF NK, NH, NM, NF, NN, Honest, InKernel, Held, Firsts, Finals, Notifs
  <2>5. Gone(wire'[sockOf'[id]], d.closeAfterSend, Plus(d.activeSend, 0))
    BY <1>1, <1>2, <1>3, <1>7, <2>3 DEF Reached
  <2>6. Sound(id)'
    BY <1>1, <1>2, <1>3, <1>5, <1>7, <2>3, <2>4, <2>5, PushedSound DEF Quiescent
  <2>7. ASSUME NEW g \in Ids, g # id
        PROVE  Sound(g)'
    <3>1. accepted'[g] = accepted[g]
      BY <1>1, <1>2, <1>3, <2>7
    <3>2. SqLike(sq', sq, g)
      BY <1>3, <1>7, <2>1, <2>7, AppendedEntry
    <3>3. RingSame(g)
      BY <1>1, <1>4, <3>2, PartsSame DEF RingSame
    <3> QED
      BY <1>1, <1>2, <2>7, <3>1, <3>3, KeepOther
  <2> QED
    BY <2>6, <2>7
<1> QED
  BY <1>1, <1>6, <1>7

\* Reading a send completion concerns its own connection.
LEMMA PopsOther ==
  ASSUME TInv, Pops, NEW g \in Ids, Cqe.id # g, ops' = ops, SqLike(sq', sq, g)
  PROVE  RingSame(g)
<1>1. /\ Pending \in Seq(Completion) /\ Pending # <<>> /\ Pending[1] = Cqe
      /\ Pending' = Tail(Pending)
  BY PendingType, PendingHead, PendingTail DEF TInv, IInv, Pops
<1>2. Head(Pending) = Cqe
  BY <1>1
<1>3. PendLike(Pending', Pending, g)
  BY <1>1, <1>2, ReadOther
<1> QED
  BY <1>3, PartsSame DEF RingSame

LEMMA StoresSound ==
  ASSUME SInv, TInv', NEW id \in Ids, NEW d, Stores(id, d)
  PROVE  \A g \in Ids : Sound(g)'
<1>1. PICK fd : fd = idToFd[id]
  OBVIOUS
<1>2. PICK r : r = Cqe.result
  OBVIOUS
<1>3. /\ Serving /\ Pops /\ Cqe \in Firsts(id) /\ fd # NoFd
      /\ d = [ConnOf(id) EXCEPT !.activeSend.waiting = TRUE, !.activeSend.result = r]
      /\ Keep(fd, d, free) /\ sq' = sq /\ ops' = ops
      /\ UNCHANGED <<sockOf, accepted, wire>>
  BY <1>1, <1>2 DEF Stores
<1>4. /\ TInv /\ TypeOK /\ TypeOK' /\ Sound(id)
  BY <1>3 DEF SInv, TInv, IInv
<1>5. fd \in Fds /\ connections[fd].id = id /\ Live(fd) /\ connections[fd] \in Connection
      /\ ConnOf(id) = connections[fd]
  BY <1>1, <1>3, <1>4, Resolved DEF TInv, IInv, TypeOK, ConnOf
<1>6. connections'[fd] = d /\ idToFd' = idToFd
  BY <1>3, <1>4, <1>5 DEF Keep, TypeOK
<1>7. WaitsWith(d, fd, id, r)
  BY <1>3, <1>5 DEF Connection, Active, WaitsWith
<1>8. Sound(id)'
  <2>1. UNCHANGED <<idToFd, sockOf, accepted, wire>> /\ ops' = ops /\ sq' = sq
    BY <1>3, <1>6
  <2>2. connections'[fd] = d
    BY <1>6
  <2> QED
    BY <1>1, <1>2, <1>3, <1>4, <1>7, <2>1, <2>2, WaitSound
<1>9. ASSUME NEW g \in Ids, g # id
      PROVE  Sound(g)'
  <2>1. Cqe.id # g
    BY <1>3, <1>9 DEF Firsts
  <2>2. RingSame(g)
    BY <1>3, <1>4, <2>1, PopsOther, PartsSame
  <2> QED
    BY <1>3, <1>5, <1>9, <2>2, KeepOther
<1> QED
  BY <1>8, <1>9

LEMMA FinishesAre ==
  ASSUME SInv, NEW id \in Ids, Finishes(id)
  PROVE  \E fd \in Fds, d \in Connection, pool \in [Slots -> Nat], r \in Int :
           LET c == connections[fd]
           IN  /\ fd = idToFd[id] /\ Live(fd) /\ c.id = id /\ c \in Connection
               /\ ConnOf(id) = c /\ HasSend(c) /\ Fed(c, accepted[id])
               /\ ResultOK(id, r) /\ Follows(c, d, pool, r)
               /\ \/ HasSend(d) /\ Submit(fd, d, pool)
                  \/ ~HasSend(d) /\ ~d.closeAfterSend /\ Keep(fd, d, pool) /\ UNCHANGED sq
                  \/ /\ ~HasSend(d) /\ d.closeAfterSend
                     /\ RemoveConnection(fd, d, pool, TRUE) /\ UNCHANGED sq
<1>1. PICK fd : fd = idToFd[id]
  OBVIOUS
<1>2. /\ Serving /\ Pops /\ Cqe \in Finals(id) \cup Notifs(id) /\ fd # NoFd
      /\ FinishTcpSend(fd, Confirmed(ConnOf(id)), FinishedResult(id))
      /\ ops' = ops
  BY <1>1 DEF Finishes
<1>3. /\ TInv /\ TypeOK /\ TableTypes /\ Sound(id)
  BY <1>2, TypesSplit DEF SInv, TInv, IInv
<1>4. fd \in Fds /\ connections[fd].id = id /\ Live(fd)
  BY <1>1, <1>2, <1>3, Resolved DEF TInv, IInv
<1> DEFINE c == connections[fd]
<1>5. c \in Connection /\ ConnOf(id) = c /\ WellFormed(c) /\ Fed(c, accepted[id])
  BY <1>1, <1>4, InTable DEF ConnOf, SInv, AllFed
<1>6. PICK r \in Int : r = FinishedResult(id)
  BY <1>2, <1>3, FinishedClear
<1>7. ResultOK(id, r) /\ HasSend(c) /\ ResultOf(c.activeSend, r)
  BY <1>2, <1>3, <1>5, <1>6, FinishedClear DEF IsActive, ResultOK, Active
<1>8. PICK d \in Connection, pool \in [Slots -> Nat] :
         /\ Follows(c, d, pool, r)
         /\ \/ HasSend(d) /\ Submit(fd, d, pool)
            \/ ~HasSend(d) /\ ~d.closeAfterSend /\ Keep(fd, d, pool) /\ UNCHANGED sq
            \/ /\ ~HasSend(d) /\ d.closeAfterSend
               /\ RemoveConnection(fd, d, pool, TRUE) /\ UNCHANGED sq
  BY <1>2, <1>3, <1>4, <1>5, <1>6, <1>7, FinishCases
<1> QED
  BY <1>1, <1>4, <1>5, <1>7, <1>8

LEMMA FinishesSound ==
  ASSUME SInv, TInv', NEW id \in Ids, Finishes(id)
  PROVE  \A g \in Ids : Sound(g)'
<1>1. PICK fd \in Fds, d \in Connection, pool \in [Slots -> Nat], r \in Int :
        LET c == connections[fd]
        IN  /\ fd = idToFd[id] /\ Live(fd) /\ c.id = id /\ c \in Connection
            /\ ConnOf(id) = c /\ HasSend(c) /\ Fed(c, accepted[id])
            /\ ResultOK(id, r) /\ Follows(c, d, pool, r)
            /\ \/ HasSend(d) /\ Submit(fd, d, pool)
               \/ ~HasSend(d) /\ ~d.closeAfterSend /\ Keep(fd, d, pool) /\ UNCHANGED sq
               \/ /\ ~HasSend(d) /\ d.closeAfterSend
                  /\ RemoveConnection(fd, d, pool, TRUE) /\ UNCHANGED sq
  BY FinishesAre
<1> DEFINE c == connections[fd]
<1>2. /\ Serving /\ Pops /\ Cqe \in Finals(id) \cup Notifs(id) /\ fd # NoFd
      /\ ops' = ops /\ UNCHANGED <<sockOf, accepted, wire>>
  BY <1>1, FdAssumption DEF Finishes
<1>3. /\ TInv /\ TypeOK /\ TypeOK' /\ Sound(id) /\ sq \in Seq(Entry)
      /\ accepted \in [Ids -> Nat] /\ wire \in [Socks -> Seq(Nat)]
  BY <1>2 DEF SInv, TInv, IInv, TypeOK
<1>4. fd \in Fds /\ connections[fd].id = id /\ Live(fd)
  BY <1>1
<1>5. c \in Connection /\ sockOf[id] \in Socks /\ Fed(c, accepted[id])
  BY <1>1, <1>4, InTable
<1>7. /\ NQ(id) = 0 /\ NK(id)' = 0 /\ NH(id)' = 0
      /\ NM(id)' = 0 /\ NF(id)' = 0 /\ NN(id)' = 0 /\ Honest(id)'
  BY <1>2, <1>3, FinishedClear
<1>8. Gone(wire[sockOf[id]], c.closeAfterSend, Plus(c.activeSend, r))
  BY <1>1 DEF ResultOK, Active, Reached
<1>9. /\ Follows(c, d, pool, r)
      /\ \/ HasSend(d) /\ Submit(fd, d, pool)
         \/ ~HasSend(d) /\ Keep(fd, d, pool) /\ UNCHANGED sq
         \/ /\ ~HasSend(d) /\ d.closeAfterSend
            /\ RemoveConnection(fd, d, pool, TRUE) /\ UNCHANGED sq
  BY <1>1
<1>10. /\ d.id = id /\ ~d.activeSend.waiting
       /\ Gone(wire[sockOf[id]], d.closeAfterSend,
               IF HasSend(d) THEN Plus(d.activeSend, 0) ELSE accepted[id])
  BY <1>3, <1>4, <1>5, <1>8, <1>9 DEF Follows
<1>11. \A g \in Ids : g # id => Cqe.id # g
  BY <1>2 DEF Finals, Notifs
<1>12. CASE HasSend(d) /\ Submit(fd, d, pool)
  <2>1. Keep(fd, d, pool) /\ sq' = Append(sq, SendEntry(fd, d))
    BY <1>12 DEF Submit
  <2>2. connections'[fd] = d /\ idToFd'[id] = fd
    BY <1>1, <1>3, <1>4, <2>1 DEF Keep, TypeOK
  <2>3. Sound(id)'
    <3>1. Gone(wire'[sockOf'[id]], d.closeAfterSend, Plus(d.activeSend, 0))
      BY <1>2, <1>10, <1>12
    <3> QED
      BY <1>3, <1>4, <1>7, <1>10, <1>12, <2>1, <2>2, <3>1, PushedSound
  <2>4. SendEntry(fd, d) \in Entry /\ SendEntry(fd, d).id = id
    BY <1>4, <1>10, SendEntryType DEF SendEntry
  <2>5. ASSUME NEW g \in Ids, g # id
        PROVE  Sound(g)'
    <3>1. SqLike(sq', sq, g)
      BY <1>3, <2>1, <2>4, <2>5, AppendedEntry
    <3>2. RingSame(g)
      BY <1>2, <1>3, <1>11, <2>5, <3>1, PopsOther
    <3> QED
      BY <1>2, <1>4, <2>1, <2>5, <3>2, KeepOther
  <2> QED
    BY <2>3, <2>5
<1>13. ASSUME sq' = sq
       PROVE  Quiescent(id)' /\ \A g \in Ids : g # id => RingSame(g)
  <2>1. NQ(id)' = NQ(id)
    BY <1>13 DEF NQ, Queued
  <2>2. Quiescent(id)'
    BY <1>7, <2>1 DEF Quiescent
  <2> QED
    BY <1>2, <1>3, <1>11, <1>13, <2>2, PopsOther, PartsSame
<1>14. CASE ~HasSend(d) /\ Keep(fd, d, pool) /\ UNCHANGED sq
  <2>1. connections'[fd] = d /\ idToFd'[id] = fd
    BY <1>1, <1>3, <1>4, <1>14 DEF Keep, TypeOK
  <2>2. ~IsActive(id)' /\ ~IsWaiting(id)'
    BY <1>10, <1>14, <2>1 DEF IsActive, IsWaiting, Active, ConnOf, HasSend
  <2>3. AllSent(id)'
    BY <1>2, <1>10, <1>14, <2>1 DEF AllSent, Reached, ConnOf
  <2>4. Sound(id)'
    BY <1>3, <1>7, <1>13, <1>14, <2>2, <2>3, IdleNext
  <2>5. ASSUME NEW g \in Ids, g # id
        PROVE  Sound(g)'
    BY <1>2, <1>4, <1>13, <1>14, <2>5, KeepOther
  <2> QED
    BY <2>4, <2>5
<1>15. CASE /\ ~HasSend(d) /\ d.closeAfterSend
            /\ RemoveConnection(fd, d, pool, TRUE) /\ UNCHANGED sq
  <2>1. idToFd'[id] = NoFd
    BY <1>3, <1>10, <1>15 DEF RemoveConnection, TypeOK
  <2>2. Sound(id)'
    BY <1>3, <1>7, <1>13, <1>15, <2>1, GoneNext
  <2>3. ASSUME NEW g \in Ids, g # id
        PROVE  Sound(g)'
    <3>1. RemoveConnection(fd, d, pool, TRUE) /\ RingSame(g) /\ UNCHANGED <<sockOf, wire, accepted>>
      BY <1>2, <1>13, <1>15, <2>3
    <3> QED
      BY <1>2, <1>4, <1>10, <2>3, <3>1, RemoveOther
  <2> QED
    BY <2>2, <2>3
<1> QED
  BY <1>9, <1>12, <1>14, <1>15

-----------------------------------------------------------------------------
(***************************************************************************)
(* The payloads of the table and their slots.                              *)
(***************************************************************************)

\* One record changes: its payloads stay in order, and a slot it no longer
\* holds is in the free list.
Evolves(fd, d, pool) ==
  /\ d \in Connection /\ WellFormed(d) /\ (d.id = 0 => ~HasSend(d))
  /\ connections' = [connections EXCEPT ![fd] = d] /\ free' = pool
  /\ \A s \in Slots : pool[s] + Slotted(d, s) = free[s] + Slotted(connections[fd], s)
  /\ d.id # 0 => Fed(d, accepted'[d.id])
  /\ \A f \in Fds : f # fd /\ Live(f) =>
       accepted'[connections[f].id] = accepted[connections[f].id]
TableStill == (\A f \in Fds : SameSends(f)) /\ UNCHANGED <<free, accepted>>

HoldersIn(c, s) == {k \in 1..(SendQueueCapacity + 1) :
                      k \in DOMAIN SendsOf(c) /\ SendsOf(c)[k].slot = s}
HoldersBut(fd, s) == {at \in SlotHolders(s) : at[1] # fd}

LEMMA HoldersInCount ==
  ASSUME NEW c \in Connection, WellFormed(c), NEW s
  PROVE  IsFiniteSet(HoldersIn(c, s)) /\ Cardinality(HoldersIn(c, s)) = Slotted(c, s)
<1> DEFINE q == SendsOf(c)
<1>1. /\ c.sendQueue \in Seq(PendingSend) /\ c.activeSend \in PendingSend
      /\ Len(c.sendQueue) <= SendQueueCapacity
  BY ConnectionFields DEF WellFormed
<1>2. q \in Seq(PendingSend) /\ DOMAIN q \subseteq 1..(SendQueueCapacity + 1)
  BY <1>1, NumberAssumption DEF SendsOf
<1> HIDE DEF q
<1>3. At(q, WithSlot(s)) = {k \in DOMAIN q : q[k].slot = s}
  BY <1>2 DEF At, WithSlot
<1>4. HoldersIn(c, s) = At(q, WithSlot(s))
  BY <1>2, <1>3 DEF HoldersIn, q
<1>5. Cnt(q, WithSlot(s)) = Slotted(c, s)
  BY SlottedType DEF q
<1> QED
  BY <1>2, <1>4, <1>5, AtFinite DEF Cnt

LEMMA HoldersSplit ==
  ASSUME TypeOK, Shape, NEW fd \in Fds, NEW s
  PROVE  /\ Cardinality(SlotHolders(s))
              = Cardinality(HoldersBut(fd, s)) + Slotted(connections[fd], s)
         /\ Cardinality(HoldersBut(fd, s)) \in Nat
<1> DEFINE N == 1..(SendQueueCapacity + 1)
           c == connections[fd]
           own == {fd} \X HoldersIn(c, s)
<1>1. IsFiniteSet(Fds \X N)
  <2>1. IsFiniteSet(N)
    BY FS_Interval, NumberAssumption
  <2> QED
    BY <2>1, FdAssumption, FS_Product
<1>2. c \in Connection /\ WellFormed(c)
  BY DEF TypeOK, Shape
<1>3. SlotHolders(s) \subseteq Fds \X N /\ HoldersBut(fd, s) \subseteq Fds \X N
  BY DEF SlotHolders, HoldersBut
<1>4. IsFiniteSet(HoldersBut(fd, s)) /\ Cardinality(HoldersBut(fd, s)) \in Nat
  BY <1>1, <1>3, FS_Subset, FS_CardinalityType
<1>5. IsFiniteSet(own) /\ Cardinality(own) = Slotted(c, s)
  <2>1. IsFiniteSet({fd}) /\ Cardinality({fd}) = 1
    BY FS_Singleton
  <2>2. IsFiniteSet(HoldersIn(c, s)) /\ Cardinality(HoldersIn(c, s)) = Slotted(c, s)
    BY <1>2, HoldersInCount
  <2>3. Slotted(c, s) \in Nat
    BY <1>2, SlottedType
  <2> DEFINE A == {fd}
             B == HoldersIn(c, s)
  <2> HIDE DEF A, B
  <2>4. IsFiniteSet(A) /\ IsFiniteSet(B) /\ Cardinality(A) = 1 /\ Cardinality(B) = Slotted(c, s)
    BY <2>1, <2>2 DEF A, B
  <2>5. IsFiniteSet(A \X B) /\ Cardinality(A \X B) = Cardinality(A) * Cardinality(B)
    BY <2>4, FS_Product
  <2>6. Cardinality(A \X B) = Slotted(c, s)
    BY <2>3, <2>4, <2>5
  <2> QED
    BY <2>5, <2>6 DEF A, B
<1>6. SlotHolders(s) = HoldersBut(fd, s) \cup own
  <2>1. ASSUME NEW at \in Fds \X N
        PROVE  at \in SlotHolders(s) <=> at \in HoldersBut(fd, s) \/ at \in own
    <3>1. at = <<at[1], at[2]>> /\ at[1] \in Fds /\ at[2] \in N
      OBVIOUS
    <3>2. CASE at[1] = fd
      <4>1. at \in own <=> at[2] \in HoldersIn(c, s)
        BY <3>1, <3>2
      <4>2. at \in SlotHolders(s) <=> at[2] \in HoldersIn(c, s)
        BY <3>1, <3>2 DEF SlotHolders, HoldersIn
      <4> QED
        BY <3>2, <4>1, <4>2 DEF HoldersBut
    <3>3. CASE at[1] # fd
      BY <3>1, <3>3 DEF HoldersBut
    <3> QED
      BY <3>2, <3>3
  <2>2. own \subseteq Fds \X N
    BY DEF HoldersIn
  <2> QED
    BY <1>3, <2>1, <2>2
<1>7. HoldersBut(fd, s) \cap own = {}
  BY DEF HoldersBut
<1> HIDE DEF own
<1> QED
  BY <1>4, <1>5, <1>6, <1>7, DisjointUnion

LEMMA EvolvesKeeps ==
  ASSUME TypeOK, TypeOK', Shape, AllFed, NEW fd \in Fds, NEW d, NEW pool, Evolves(fd, d, pool)
  PROVE  /\ Shape' /\ AllFed'
         /\ \A s \in Slots : free[s] + Cardinality(SlotHolders(s)) = 1
                               => (free[s] + Cardinality(SlotHolders(s)) = 1)'
<1>1. \A f \in Fds : connections'[f] = IF f = fd THEN d ELSE connections[f]
  BY DEF Evolves, TypeOK
<1>2. Shape'
  BY <1>1 DEF Shape, Evolves, Live
<1>3. AllFed'
  BY <1>1 DEF AllFed, Evolves, Live
<1>4. ASSUME NEW s \in Slots, free[s] + Cardinality(SlotHolders(s)) = 1
      PROVE  (free[s] + Cardinality(SlotHolders(s)) = 1)'
  <2>1. /\ Cardinality(SlotHolders(s))
             = Cardinality(HoldersBut(fd, s)) + Slotted(connections[fd], s)
        /\ Cardinality(HoldersBut(fd, s)) \in Nat
    BY HoldersSplit
  <2>2. /\ Cardinality(SlotHolders(s)')
             = Cardinality(HoldersBut(fd, s)') + Slotted(connections'[fd], s)
    <3>1. (/\ Cardinality(SlotHolders(s))
                = Cardinality(HoldersBut(fd, s)) + Slotted(connections[fd], s))'
      BY <1>2, HoldersSplit, PTL
    <3> QED
      BY <3>1 DEF Slotted, Cnt, At
  <2>3. HoldersBut(fd, s)' = HoldersBut(fd, s)
    BY <1>1 DEF HoldersBut, SlotHolders
  <2>4. connections'[fd] = d /\ free' = pool
        /\ pool[s] + Slotted(d, s) = free[s] + Slotted(connections[fd], s)
    BY <1>1 DEF Evolves
  <2>5. /\ free[s] \in Nat /\ pool[s] \in Nat
        /\ Slotted(d, s) \in Nat /\ Slotted(connections[fd], s) \in Nat
    BY <2>4, SlottedType DEF TypeOK, Evolves
  <2> QED
    BY <1>4, <2>1, <2>2, <2>3, <2>4, <2>5
<1> QED
  BY <1>2, <1>3, <1>4

LEMMA StillKeeps ==
  ASSUME TypeOK, TypeOK', Shape, AllFed, TableStill
  PROVE  /\ Shape' /\ AllFed'
         /\ \A s \in Slots : (free[s] + Cardinality(SlotHolders(s)))'
                               = free[s] + Cardinality(SlotHolders(s))
<1>1. Shape'
  BY DEF Shape, TableStill, SameSends, Live, WellFormed, HasSend
<1>2. AllFed'
  BY DEF AllFed, TableStill, SameSends, Live, Fed, HasSend
<1>3. \A s \in Slots : SlotHolders(s)' = SlotHolders(s)
  BY DEF TableStill, SameSends, SlotHolders, SendsOf
<1> QED
  BY <1>1, <1>2, <1>3 DEF TableStill

\* A removed connection gives back whatever it holds.
LEMMA RemoveEvolves ==
  ASSUME TypeOK, NEW fd \in Fds, NEW d \in Connection, NEW pool \in [Slots -> Nat], NEW e,
         RemoveConnection(fd, d, pool, e), UNCHANGED accepted,
         \A s \in Slots : pool[s] + Slotted(d, s) = free[s] + Slotted(connections[fd], s)
  PROVE  \E p : Evolves(fd, NoConnection, p)
<1> DEFINE p == Released(pool, SendsOf(d))
<1>1. connections' = [connections EXCEPT ![fd] = NoConnection] /\ free' = p
  BY DEF RemoveConnection, SendsOf
<1>2. /\ NoConnection \in Connection /\ NoConnection.id = 0 /\ ~HasSend(NoConnection)
      /\ NoConnection.sendQueue = <<>> /\ NoConnection.activeSend = NoSend
      /\ NoConnection \in Connection
  BY NoConnectionType DEF NoConnection, HasSend, NoSend
<1>3. WellFormed(NoConnection) /\ \A s \in Slots : Slotted(NoConnection, s) = 0
  BY <1>2, EndedSend
<1>4. SendsOf(d) \in Seq(PendingSend)
  BY ConnectionFields DEF SendsOf
<1>5. ASSUME NEW s \in Slots
      PROVE  p[s] = pool[s] + Slotted(d, s)
  BY <1>4, ReleasedAt, SlottedType
<1>6. \A s \in Slots : p[s] \in Nat
  BY <1>5, SlottedType
<1> HIDE DEF p
<1>7. \A s \in Slots : p[s] + Slotted(NoConnection, s) = free[s] + Slotted(connections[fd], s)
  BY <1>3, <1>5, <1>6
<1>8. Evolves(fd, NoConnection, p)
  BY <1>1, <1>2, <1>3, <1>7 DEF Evolves
<1> QED
  BY <1>8

\* What each kind of step does to the payloads of the table.
LEMMA DropsEvolves ==
  ASSUME SInv, NEW fd \in Fds, Drops(fd) \/ Forced(fd)
  PROVE  \E p : Evolves(fd, NoConnection, p)
<1>1. TypeOK /\ connections[fd] \in Connection /\ free \in [Slots -> Nat]
  BY DEF SInv, TInv, IInv, TypeOK
<1>2. PICK c : c = connections[fd]
  OBVIOUS
<1>3. PICK pool : pool = free
  OBVIOUS
<1>4. PICK e : RemoveConnection(fd, c, pool, e) /\ UNCHANGED accepted
  BY <1>2, <1>3 DEF Drops, Forced
<1> QED
  BY <1>1, <1>2, <1>3, <1>4, RemoveEvolves

LEMMA BirthsEvolves ==
  ASSUME SInv, NEW fd \in Fds, Births(fd)
  PROVE  \E d, p : Evolves(fd, d, p)
<1>1. /\ TypeOK /\ nextId \in Ids /\ ~Live(fd) /\ AcceptConnection(fd)
      /\ UNCHANGED <<free, accepted>> /\ connections[fd] \in Connection
      /\ ~HasSend(connections[fd]) /\ WellFormed(connections[fd])
  BY DEF SInv, TInv, IInv, TypeOK, Births, Shape
<1>2. PICK d : d = [NoConnection EXCEPT !.id = nextId]
  OBVIOUS
<1>3. /\ d \in Connection /\ d.id = nextId /\ d.sendQueue = <<>> /\ d.activeSend = NoSend
  BY <1>1, <1>2, NoConnectionType DEF Connection, NoConnection
<1>4. WellFormed(d) /\ ~HasSend(d) /\ (\A s \in Slots : Slotted(d, s) = 0) /\ \A n \in Nat : Fed(d, n)
  <2>1. NoConnection \in Connection /\ NoConnection.sendQueue = <<>> /\ NoConnection.activeSend = NoSend
    BY NoConnectionType DEF NoConnection
  <2> QED
    BY <1>3, <2>1, EndedSend
<1>5. \A s \in Slots : Slotted(connections[fd], s) = 0
  <2>1. connections[fd].sendQueue = <<>> /\ connections[fd].activeSend = NoSend
    BY <1>1 DEF WellFormed
  <2> QED
    BY <1>1, <2>1, EndedSend
<1>6. accepted'[d.id] \in Nat
  BY <1>1, <1>3 DEF TypeOK
<1>7. PICK p : p = free
  OBVIOUS
<1>8. connections' = [connections EXCEPT ![fd] = d] /\ free' = p
  BY <1>1, <1>2, <1>7 DEF AcceptConnection
<1>9. Evolves(fd, d, p)
  BY <1>1, <1>3, <1>4, <1>5, <1>6, <1>7, <1>8 DEF Evolves, Ids
<1> QED
  BY <1>9

LEMMA FeedsEvolves ==
  ASSUME SInv, NEW fd \in Fds, NEW d \in Connection, NEW pool \in [Slots -> Nat],
         NEW n \in Nat, Feeds(fd, d, pool, n)
  PROVE  Evolves(fd, d, pool)
<1> DEFINE c == connections[fd]
<1>1. /\ Live(fd) /\ d.id = c.id /\ WellFormed(d) /\ HasSend(d)
      /\ Fed(c, accepted[c.id]) => Fed(d, accepted[c.id] + n)
      /\ \A s \in Slots : pool[s] + Slotted(d, s) = free[s] + Slotted(c, s)
      /\ accepted' = [accepted EXCEPT ![c.id] = @ + n]
      /\ Keep(fd, d, pool)
  BY DEF Feeds, Grows
<1>2. c.id \in Ids /\ TypeOK /\ TInv /\ c.id # 0
  BY <1>1, InTable DEF Live
<1>3. Fed(c, accepted[c.id]) /\ accepted'[c.id] = accepted[c.id] + n
  BY <1>1, <1>2 DEF SInv, AllFed, TypeOK
<1>4. ASSUME NEW f \in Fds, f # fd, Live(f)
      PROVE  accepted'[connections[f].id] = accepted[connections[f].id]
  <2>1. connections[f].id \in Ids /\ connections[f].id # c.id
    BY <1>1, <1>4, InTable
  <2> QED
    BY <1>1, <1>2, <2>1 DEF TypeOK
<1> QED
  BY <1>1, <1>2, <1>3, <1>4 DEF Evolves, Keep

LEMMA StoresEvolves ==
  ASSUME SInv, NEW id \in Ids, NEW d, Stores(id, d)
  PROVE  \E fd \in Fds : \E p : Evolves(fd, d, p)
<1>1. PICK fd : fd = idToFd[id]
  OBVIOUS
<1>2. PICK p : p = free
  OBVIOUS
<1>3. /\ Serving /\ Pops /\ Cqe \in Firsts(id) /\ fd # NoFd
      /\ d = [ConnOf(id) EXCEPT !.activeSend.waiting = TRUE, !.activeSend.result = Cqe.result]
      /\ Keep(fd, d, p) /\ UNCHANGED accepted
  BY <1>1, <1>2 DEF Stores
<1>4. /\ TInv /\ TypeOK /\ Sound(id) /\ Cqe.result \in Int
  BY <1>3, CqeIsInt DEF SInv, TInv, IInv, Pops
<1>5. fd \in Fds /\ connections[fd].id = id /\ Live(fd)
  BY <1>1, <1>3, <1>4, Resolved DEF TInv, IInv
<1> DEFINE c == connections[fd]
<1>6. c \in Connection /\ ConnOf(id) = c /\ WellFormed(c) /\ Fed(c, accepted[c.id])
  BY <1>1, <1>5, InTable DEF ConnOf, SInv, AllFed
<1>7. HasSend(c)
  <2>1. IsActive(id)
    BY <1>3, <1>4, FirstAlone DEF Pops
  <2> QED
    BY <1>6, <2>1 DEF IsActive
<1>8. d \in Connection /\ d.id = c.id
  <2>1. PICK r \in Int : r = Cqe.result
    BY <1>4
  <2>2. d = [c EXCEPT !.activeSend.waiting = TRUE, !.activeSend.result = r]
    BY <1>3, <1>6, <2>1
  <2> HIDE DEF c
  <2> QED
    BY <1>6, <2>2, ActiveUpdates, ZenonT(20)
<1>9. /\ d.sendQueue = c.sendQueue /\ d.activeSend.start = c.activeSend.start
      /\ d.activeSend.len = c.activeSend.len /\ d.activeSend.offset = c.activeSend.offset
      /\ d.activeSend.slot = c.activeSend.slot
  BY <1>3, <1>6 DEF Connection, PendingSend
<1>10. /\ WellFormed(d) /\ HasSend(d) /\ (\A n \in Nat : Fed(c, n) => Fed(d, n))
       /\ \A s \in Slots : Slotted(d, s) + Bit(c.activeSend.slot = s)
                             = Slotted(c, s) + Bit(d.activeSend.slot = s)
  <2>1. d.activeSend.offset < d.activeSend.len
    BY <1>6, <1>7, <1>9 DEF WellFormed
  <2> QED
    BY <1>6, <1>7, <1>8, <1>9, <2>1, ChangedSend
<1>11. \A s \in Slots : Slotted(d, s) = Slotted(c, s)
  <2>1. \A s \in Slots : Slotted(d, s) \in Nat /\ Slotted(c, s) \in Nat
                         /\ Bit(c.activeSend.slot = s) \in Nat
    BY <1>6, <1>8, SlottedType DEF Bit
  <2> QED
    BY <1>9, <1>10, <2>1
<1>12. accepted[id] \in Nat /\ Fed(d, accepted'[d.id])
  BY <1>3, <1>4, <1>5, <1>6, <1>8, <1>10 DEF TypeOK
<1>13. Evolves(fd, d, p)
  <2>1. /\ connections' = [connections EXCEPT ![fd] = d] /\ free' = p
        /\ accepted' = accepted
    BY <1>3 DEF Keep
  <2>2. d.id # 0
    BY <1>5, <1>8 DEF Live
  <2>3. \A s \in Slots : p[s] + Slotted(d, s) = free[s] + Slotted(c, s)
    BY <1>2, <1>11
  <2> QED
    BY <1>8, <1>10, <1>12, <2>1, <2>2, <2>3 DEF Evolves
<1> QED
  BY <1>5, <1>13

LEMMA FinishesEvolves ==
  ASSUME SInv, NEW id \in Ids, Finishes(id)
  PROVE  \E fd \in Fds : \E d, p : Evolves(fd, d, p)
<1>1. PICK fd \in Fds, d \in Connection, pool \in [Slots -> Nat], r \in Int :
        LET c == connections[fd]
        IN  /\ fd = idToFd[id] /\ Live(fd) /\ c.id = id /\ c \in Connection
            /\ ConnOf(id) = c /\ HasSend(c) /\ Fed(c, accepted[id])
            /\ ResultOK(id, r) /\ Follows(c, d, pool, r)
            /\ \/ HasSend(d) /\ Submit(fd, d, pool)
               \/ ~HasSend(d) /\ ~d.closeAfterSend /\ Keep(fd, d, pool) /\ UNCHANGED sq
               \/ /\ ~HasSend(d) /\ d.closeAfterSend
                  /\ RemoveConnection(fd, d, pool, TRUE) /\ UNCHANGED sq
  BY FinishesAre
<1> DEFINE c == connections[fd]
<1>2. UNCHANGED accepted
  BY DEF Finishes
<1>3. /\ TInv /\ TypeOK /\ accepted \in [Ids -> Nat]
  BY DEF SInv, TInv, IInv, TypeOK
<1>4. fd \in Fds /\ connections[fd].id = id /\ Live(fd)
  BY <1>1
<1>5. c \in Connection /\ Fed(c, accepted[id])
  BY <1>1
<1>8. /\ Follows(c, d, pool, r)
      /\ \/ HasSend(d) /\ Submit(fd, d, pool)
         \/ ~HasSend(d) /\ Keep(fd, d, pool) /\ UNCHANGED sq
         \/ /\ ~HasSend(d) /\ d.closeAfterSend
            /\ RemoveConnection(fd, d, pool, TRUE) /\ UNCHANGED sq
  BY <1>1
<1>9. /\ d.id = id /\ WellFormed(d) /\ Fed(d, accepted[id])
      /\ \A s \in Slots : pool[s] + Slotted(d, s) = free[s] + Slotted(c, s)
  BY <1>3, <1>4, <1>5, <1>8 DEF Follows
<1>10. CASE Keep(fd, d, pool)
  <2>1. Evolves(fd, d, pool)
    BY <1>2, <1>9, <1>10 DEF Evolves, Keep, Ids
  <2> QED
    BY <1>4, <2>1
<1>11. CASE RemoveConnection(fd, d, pool, TRUE)
  <2>1. \E p : Evolves(fd, NoConnection, p)
    BY <1>2, <1>3, <1>4, <1>9, <1>11, RemoveEvolves
  <2> QED
    BY <1>4, <2>1
<1> QED
  BY <1>8, <1>10, <1>11 DEF Submit

LEMMA TableKinds ==
  ASSUME SInv, Kinds
  PROVE  TableStill \/ Fails \/ \E fd \in Fds : \E d, p : Evolves(fd, d, p)
<1>1. Calm => TableStill
  BY DEF Calm, TableStill
<1>2. ASSUME \/ Submits \/ Quits
             \/ \E i \in DOMAIN ops : Notifies(i) \/ \E r \in Int, hold \in BOOLEAN : Completes(i, r, hold)
      PROVE  TableStill
  BY <1>2 DEF Submits, Quits, Notifies, Completes, SendCompletes, TableSame, TableStill, SameSends
<1> QED
  BY <1>1, <1>2, DropsEvolves, BirthsEvolves, FeedsEvolves, StoresEvolves, FinishesEvolves
     DEF Kinds

-----------------------------------------------------------------------------
(***************************************************************************)
(* Ids, sockets and what is on the wire.                                   *)
(***************************************************************************)

LEMMA BirthNext ==
  ASSUME SInv, TInv', NEW fd \in Fds, Births(fd)
  PROVE  /\ nextId \in Ids /\ nextId' = nextId + 1
         /\ idToFd[nextId] = NoFd
         /\ sockOf[nextId] = 0 /\ accepted[nextId] = 0 /\ events[nextId] = <<>>
         /\ connections'[fd].id = nextId /\ fdSock[fd] \in Socks
<1>1. /\ TInv /\ TypeOK /\ Unborn /\ AcceptConnection(fd)
      /\ \A id \in Ids : sockOf[id] < fdSock[fd]
  BY DEF Births, SInv, TInv, IInv
<1>2. nextId \in Ids
  BY <1>1 DEF TypeOK
<1>3. /\ connections' = [connections EXCEPT ![fd] = [NoConnection EXCEPT !.id = nextId]]
      /\ nextId' = IF nextId = IdMax THEN 1 ELSE nextId + 1
  BY <1>1 DEF AcceptConnection
<1>4. connections'[fd].id = nextId
  <2>1. [NoConnection EXCEPT !.id = nextId].id = nextId
    BY DEF NoConnection
  <2> QED
    BY <1>1, <1>3, <2>1 DEF TypeOK
<1>5. nextId < nextId'
  <2>1. IdsUsed'
    BY DEF TInv
  <2> QED
    BY <1>2, <1>4, <2>1 DEF IdsUsed, Live, Ids
<1>6. nextId' = nextId + 1
  BY <1>2, <1>3, <1>5 DEF Ids
<1>7. nextId >= nextId /\ ~(nextId < nextId)
  BY <1>2 DEF Ids
<1>8. idToFd[nextId] = NoFd
  BY <1>1, <1>2, <1>7, Resolved DEF TInv, IInv, IdsUsed
<1>9. fdSock[fd] \in Socks
  <2>1. /\ fdSock[fd] \in Socks \cup {0} /\ sockOf[nextId] \in Socks \cup {0}
        /\ sockOf[nextId] < fdSock[fd]
    BY <1>1, <1>2 DEF TypeOK
  <2> QED
    BY <2>1 DEF Socks
<1> QED
  BY <1>1, <1>2, <1>4, <1>6, <1>7, <1>8, <1>9 DEF Unborn

LEMMA QuietOwns ==
  ASSUME SInv, TypeOK', RingQuiet, UNCHANGED sockOf \/ \E fd \in Fds : Births(fd), TInv'
  PROVE  OwnSockets'
<1>1. ASSUME NEW o \in Elems(ops'), o.op \in {"send", "hold"}
      PROVE  o.sock = sockOf'[o.id]
  <2>1. o \in Operation
    BY ElemsOf DEF TypeOK
  <2>2. o.id \in Ids /\ o \in InKernel(o.id) \cup Held(o.id)
    BY <1>1, <2>1 DEF Operation, InKernel, Held
  <2>3. o \in Elems(ops)
    BY <1>1, <2>2 DEF RingQuiet, RingSame, OpsLike
  <2>4. o.sock = sockOf[o.id]
    BY <1>1, <2>3 DEF SInv, OwnSockets
  <2>5. ASSUME NEW fd \in Fds, Births(fd)
        PROVE  sockOf'[o.id] = sockOf[o.id]
    <3>1. /\ nextId \in Ids /\ idToFd[nextId] = NoFd
      BY <2>5, BirthNext
    <3>2. sockOf' = [sockOf EXCEPT ![nextId] = fdSock[fd]] /\ Serving
      BY <2>5 DEF Births, AcceptConnection
    <3>3. Sound(nextId) /\ TypeOK
      BY <3>1, <3>2 DEF SInv, TInv, IInv
    <3>4. o \notin InKernel(nextId) /\ o \notin Held(nextId)
      BY <2>3, <3>1, <3>3, Nothing DEF Sound, IsActive, IsWaiting
    <3>5. o.id # nextId
      BY <2>2, <3>4
    <3> QED
      BY <2>2, <3>2, <3>3, <3>5 DEF TypeOK
  <2> QED
    BY <2>4, <2>5
<1> QED
  BY <1>1 DEF OwnSockets

LEMMA OwnNext ==
  ASSUME SInv, TInv', Kinds
  PROVE  OwnSockets'
<1>1. /\ TypeOK /\ TypeOK' /\ TInv /\ OwnSockets /\ ops \in Seq(Operation) /\ sq \in Seq(Entry)
  BY DEF SInv, TInv, IInv, TypeOK
<1>2. ASSUME RingQuiet, UNCHANGED sockOf \/ \E fd \in Fds : Births(fd)
      PROVE  OwnSockets'
  BY <1>1, <1>2, QuietOwns
<1>3. ASSUME Elems(ops') \subseteq Elems(ops), sockOf' = sockOf
      PROVE  OwnSockets'
  BY <1>1, <1>3 DEF OwnSockets
<1>4. ASSUME NEW i \in DOMAIN ops
      PROVE  Elems(WithoutOp(i)) \subseteq Elems(ops)
  <2>1. WithoutOp(i) = Dropped(ops, i)
    BY DEF WithoutOp, Dropped
  <2> QED
    BY <1>1, <2>1, ElemsDropped
<1>5. ASSUME NEW i \in DOMAIN ops, ops[i].op = "send", ops' = [ops EXCEPT ![i].op = "hold"],
             sockOf' = sockOf
      PROVE  OwnSockets'
  <2> DEFINE e == [ops[i] EXCEPT !.op = "hold"]
  <2>1. ops' = [ops EXCEPT ![i] = e]
    BY <1>5
  <2>2. ops[i] \in Operation /\ ops[i] \in Elems(ops)
    BY <1>1, ElemsOf
  <2>3. e.id = ops[i].id /\ e.sock = ops[i].sock
    BY <2>2 DEF Operation
  <2>4. e.sock = sockOf[e.id]
    BY <1>1, <1>5, <2>2, <2>3 DEF OwnSockets
  <2> HIDE DEF e
  <2>5. Elems(ops') \subseteq Elems(ops) \cup {e}
    BY <1>1, <2>1, ElemsExcept
  <2> QED
    BY <1>1, <1>5, <2>4, <2>5 DEF OwnSockets
<1>6. CASE Calm \/ \E fd \in Fds : Drops(fd) \/ Births(fd) \/ Forced(fd)
  BY <1>2, <1>6 DEF Calm, Drops, Births, Forced
<1>7. CASE \E i \in DOMAIN ops : Notifies(i) \/ \E r \in Int, hold \in BOOLEAN : Completes(i, r, hold)
  BY <1>3, <1>4, <1>5, <1>7 DEF Notifies, Completes, SendCompletes, TableSame
<1>8. CASE \/ \E fd \in Fds, d \in Connection, pool \in [Slots -> Nat], n \in Nat : Feeds(fd, d, pool, n)
           \/ \E id \in Ids : Finishes(id) \/ \E d : Stores(id, d)
  BY <1>3, <1>8 DEF Feeds, Finishes, Stores
<1>9. CASE Quits \/ Fails
  BY <1>9 DEF Quits, Fails, OwnSockets, Elems
<1>10. CASE Submits
  <2>1. /\ Serving /\ SubmitRing /\ sockOf' = sockOf
    BY <1>10 DEF Submits
  <2>2. ASSUME NEW e \in Elems(sq), e.op = "send"
        PROVE  Bind(e).sock = sockOf[e.id] /\ Bind(e).id = e.id
    <3>1. e \in Entry /\ e.id \in Ids /\ e \in Queued(e.id) /\ e.fd # NoFd
      <4>1. e \in Entry
        BY <1>1, ElemsOf
      <4> QED
        BY <2>2, <4>1 DEF Entry, Queued
    <3>2. Sound(e.id)
      BY <2>1, <3>1 DEF SInv
    <3>3. e.fd = idToFd[e.id]
      BY <3>1, <3>2 DEF Sound, EntriesMatch, EntryOK
    <3>4. e.fd \in Fds /\ Live(e.fd) /\ connections[e.fd].id = e.id
      BY <1>1, <3>1, <3>3, Resolved DEF TInv, IInv
    <3>5. fdSock[e.fd] = sockOf[e.id]
      BY <1>1, <3>4 DEF TInv, OwnSocket
    <3> QED
      BY <3>1, <3>5 DEF Bind
  <2>3. ASSUME NEW o \in Elems(ops'), o.op \in {"send", "hold"}
        PROVE  o.sock = sockOf[o.id]
    <3>2. o \in Elems(ops) \/ \E e \in Elems(sq) : o = Bind(e)
      <4>1. 1 \in Ids
        BY NumberAssumption DEF Ids
      <4> QED
        BY <1>1, <2>1, <4>1, BoundRing
    <3>3. ASSUME NEW e \in Elems(sq), o = Bind(e)
          PROVE  o.sock = sockOf[o.id]
      <4>1. e.op = "send"
        <5>1. e \in Entry /\ o.op = e.op
          BY <1>1, <3>3, ElemsOf DEF Bind
        <5> QED
          BY <2>3, <5>1 DEF Entry
      <4> QED
        BY <2>2, <3>3, <4>1
    <3> QED
      BY <1>1, <2>3, <3>2, <3>3 DEF OwnSockets
  <2> QED
    BY <2>1, <2>3 DEF OwnSockets
<1> QED
  BY <1>6, <1>7, <1>8, <1>9, <1>10 DEF Kinds

\* The ids of the history variables, except for a birth.
LEMMA RemoveEvents ==
  ASSUME SInv, NEW fd \in Fds, Live(fd), NEW d, d.id = connections[fd].id, NEW pool, NEW e,
         RemoveConnection(fd, d, pool, e)
  PROVE  EventsStay
<1>1. /\ TypeOK /\ connections[fd].id \in Ids /\ connections[fd].id < nextId
  BY InTable
<1>2. events[connections[fd].id] # <<>>
  BY <1>1 DEF SInv, Unborn
<1>3. \/ events' = events
      \/ events' = [events EXCEPT ![d.id] = Append(@, "close")]
  BY DEF RemoveConnection
<1>4. ASSUME NEW q \in Seq({"connect", "data", "close"})
      PROVE  Append(q, "close") # <<>>
  OBVIOUS
<1>5. ASSUME NEW id \in Ids
      PROVE  events'[id] = <<>> <=> events[id] = <<>>
  <2>1. PICK q \in Seq({"connect", "data", "close"}) : q = events[id]
    BY <1>1 DEF TypeOK
  <2>2. \/ events'[id] = q
        \/ id = connections[fd].id /\ events'[id] = Append(q, "close")
    BY <1>1, <1>3, <2>1 DEF TypeOK
  <2> QED
    BY <1>2, <1>4, <2>1, <2>2
<1> QED
  BY <1>5 DEF EventsStay

LEMMA UnbornNext ==
  ASSUME SInv, TInv', Kinds
  PROVE  Unborn'
<1>0. TypeOK /\ TypeOK' /\ TInv /\ Unborn
  <2>1. TypeOK'
    BY DEF TInv, IInv
  <2> QED
    BY <2>1 DEF SInv, TInv, IInv
<1>1. /\ TypeOK /\ TypeOK' /\ TInv /\ Unborn /\ sockOf \in [Ids -> Socks \cup {0}]
      /\ accepted \in [Ids -> Nat] /\ nextId \in Ids
  <2>1. sockOf \in [Ids -> Socks \cup {0}] /\ accepted \in [Ids -> Nat] /\ nextId \in Ids
    BY <1>0 DEF TypeOK
  <2> QED
    BY <1>0, <2>1
<1>2. ASSUME UNCHANGED <<nextId, sockOf, accepted>>, EventsStay
      PROVE  Unborn'
  BY <1>1, <1>2 DEF Unborn, EventsStay
<1>3. CASE \/ Submits \/ Quits \/ Fails
           \/ \E i \in DOMAIN ops : Notifies(i) \/ \E r \in Int, hold \in BOOLEAN : Completes(i, r, hold)
           \/ \E id \in Ids : \E d : Stores(id, d)
  <2>1. UNCHANGED <<nextId, sockOf, accepted, events>>
    BY <1>3 DEF Submits, Quits, Fails, Notifies, Completes, SendCompletes, TableSame,
                Stores, Keep
  <2> QED
    BY <1>2, <2>1 DEF EventsStay
<1>8. CASE Calm
  BY <1>2, <1>8 DEF Calm
<1>4. ASSUME NEW fd \in Fds, Drops(fd) \/ Forced(fd)
      PROVE  Unborn'
  <2>1. PICK c : c = connections[fd]
    OBVIOUS
  <2>2. PICK p : p = free
    OBVIOUS
  <2>3. PICK e : RemoveConnection(fd, c, p, e)
    BY <1>4, <2>1, <2>2 DEF Drops, Forced
  <2>4. EventsStay
    BY <1>4, <2>1, <2>3, RemoveEvents DEF Drops, Forced
  <2> QED
    BY <1>2, <1>4, <2>4 DEF Drops, Forced
<1>5. ASSUME NEW id \in Ids, Finishes(id)
      PROVE  Unborn'
  <2>1. PICK fd \in Fds, d \in Connection, pool \in [Slots -> Nat], r \in Int :
          /\ Live(fd) /\ Follows(connections[fd], d, pool, r)
          /\ \/ HasSend(d) /\ Submit(fd, d, pool)
             \/ ~HasSend(d) /\ ~d.closeAfterSend /\ Keep(fd, d, pool) /\ UNCHANGED sq
             \/ /\ ~HasSend(d) /\ d.closeAfterSend
                /\ RemoveConnection(fd, d, pool, TRUE) /\ UNCHANGED sq
    BY <1>5, FinishesAre, ZenonT(30)
  <2>2. EventsStay
    <3>1. d.id = connections[fd].id
      BY <2>1 DEF Follows
    <3>2. CASE Keep(fd, d, pool)
      BY <3>2 DEF Keep, EventsStay
    <3>3. CASE RemoveConnection(fd, d, pool, TRUE)
      BY <2>1, <3>1, <3>3, RemoveEvents
    <3> QED
      BY <2>1, <3>2, <3>3 DEF Submit
  <2> QED
    BY <1>2, <1>5, <2>2 DEF Finishes
<1>6. ASSUME NEW fd \in Fds, NEW d \in Connection, NEW pool \in [Slots -> Nat], NEW n \in Nat,
             Feeds(fd, d, pool, n)
      PROVE  Unborn'
  <2>1. /\ UNCHANGED <<nextId, sockOf>> /\ events' = events
        /\ accepted' = [accepted EXCEPT ![connections[fd].id] = @ + n] /\ Live(fd)
    BY <1>6 DEF Feeds, Grows, Keep
  <2>2. connections[fd].id < nextId /\ connections[fd].id \in Ids
    BY <2>1, InTable
  <2>3. ASSUME NEW g \in Ids, g >= nextId
        PROVE  accepted'[g] = accepted[g]
    <3>1. g # connections[fd].id
      BY <1>1, <2>2, <2>3 DEF Ids
    <3> QED
      BY <1>1, <2>1, <3>1
  <2> QED
    BY <2>1, <2>3 DEF SInv, Unborn
<1>7. ASSUME NEW fd \in Fds, Births(fd)
      PROVE  Unborn'
  <2>1. /\ nextId' = nextId + 1 /\ fdSock[fd] \in Socks
        /\ sockOf' = [sockOf EXCEPT ![nextId] = fdSock[fd]]
        /\ events' = [events EXCEPT ![nextId] = Append(@, "connect")]
        /\ accepted' = accepted
    BY <1>7, BirthNext DEF Births, AcceptConnection
  <2>2. events \in [Ids -> Seq({"connect", "data", "close"})]
    BY <1>1 DEF TypeOK
  <2>3. ASSUME NEW q \in Seq({"connect", "data", "close"})
        PROVE  Append(q, "connect") # <<>>
    OBVIOUS
  <2>4. sockOf'[nextId] # 0 /\ events'[nextId] # <<>>
    <3>1. PICK q \in Seq({"connect", "data", "close"}) : q = events[nextId]
      BY <1>1, <2>2
    <3>2. sockOf'[nextId] = fdSock[fd] /\ events'[nextId] = Append(q, "connect")
      BY <1>1, <2>1, <2>2, <3>1
    <3>3. Append(q, "connect") # <<>>
      BY <2>3
    <3> QED
      BY <2>1, <3>2, <3>3 DEF Socks
  <2>5. \A g \in Ids : g # nextId => sockOf'[g] = sockOf[g] /\ events'[g] = events[g]
    BY <1>1, <2>1, <2>2
  <2>6. ASSUME NEW g \in Ids
        PROVE  /\ g >= nextId + 1 => g >= nextId /\ g # nextId
               /\ g < nextId + 1 => g < nextId \/ g = nextId
    BY <1>1 DEF Ids
  <2> QED
    BY <1>1, <2>1, <2>4, <2>5, <2>6 DEF Unborn
<1> QED
  BY <1>3, <1>4, <1>5, <1>6, <1>7, <1>8 DEF Kinds

LEMMA SilentNext ==
  ASSUME SInv, TInv', Kinds
  PROVE  Silent'
<1>1. /\ TypeOK /\ TInv /\ Silent /\ sockOf \in [Ids -> Socks \cup {0}] /\ wire \in [Socks -> Seq(Nat)]
  BY DEF SInv, TInv, IInv, TypeOK
<1>2. ASSUME UNCHANGED <<wire, sockOf>>
      PROVE  Silent'
  BY <1>1, <1>2 DEF Silent
<1>3. ASSUME NEW fd \in Fds, Births(fd)
      PROVE  Silent'
  <2>1. /\ nextId \in Ids /\ sockOf[nextId] = 0 /\ wire' = wire
        /\ sockOf' = [sockOf EXCEPT ![nextId] = fdSock[fd]]
    BY <1>3, BirthNext DEF Births, AcceptConnection
  <2>2. ASSUME NEW s \in Socks, \A id \in Ids : sockOf'[id] # s
        PROVE  \A id \in Ids : sockOf[id] # s
    BY <1>1, <2>1, <2>2 DEF Socks
  <2> QED
    BY <1>1, <2>1, <2>2 DEF Silent
<1>4. ASSUME NEW i \in DOMAIN ops, NEW r \in Int, NEW hold \in BOOLEAN, Completes(i, r, hold)
      PROVE  Silent'
  <2>1. /\ Serving /\ ops[i].op = "send" /\ sockOf' = sockOf
        /\ \/ wire' = wire
           \/ wire' = [wire EXCEPT ![ops[i].sock] = @ \o [k \in 1..r |-> ops[i].pos + k]]
    BY <1>4 DEF Completes, SendCompletes, TableSame
  <2>2. ops[i].id \in Ids /\ ops[i].sock = sockOf[ops[i].id]
    BY <2>1, OpCarries
  <2>3. \A s \in Socks : s # ops[i].sock => wire'[s] = wire[s]
    BY <1>1, <2>1
  <2> QED
    BY <1>1, <2>1, <2>2, <2>3 DEF Silent
<1>5. CASE \/ Calm \/ Submits \/ Quits \/ Fails
           \/ \E i \in DOMAIN ops : Notifies(i)
           \/ \E fd \in Fds : \/ Drops(fd) \/ Forced(fd)
                     \/ \E d \in Connection, pool \in [Slots -> Nat], n \in Nat : Feeds(fd, d, pool, n)
           \/ \E id \in Ids : Finishes(id) \/ \E d : Stores(id, d)
  BY <1>2, <1>5 DEF Calm, Submits, Quits, Fails, Notifies, Drops, Forced, Feeds, Finishes, Stores
<1> QED
  BY <1>3, <1>4, <1>5 DEF Kinds

-----------------------------------------------------------------------------
(***************************************************************************)
(* Sockets are given to ids in the order in which they were accepted.      *)
(***************************************************************************)

Above == \A id \in Ids, i \in DOMAIN Pending :
           IsAccept(Pending[i]) => sockOf[id] < fdSock[Pending[i].fd]

LEMMA QuietAbove ==
  ASSUME SInv, IInv', Quiet
  PROVE  Above'
<1>0. TInv /\ Above /\ sockOf' = sockOf
  BY DEF SInv, SocketsOrdered, Above, Quiet
<1>1. ASSUME NEW i \in DOMAIN Pending, IsAccept(Pending[i])
      PROVE  fdSock'[Pending[i].fd] = fdSock[Pending[i].fd]
  <2>1. Pending[i].fd \in Fds /\ connections[Pending[i].fd].id = 0
    BY <1>0, <1>1, AcceptedPending DEF TInv
  <2>2. CASE SameTable
    BY <2>2 DEF SameTable
  <2>3. ASSUME NEW fd \in Fds, Live(fd), Removes(fd)
        PROVE  fdSock'[Pending[i].fd] = fdSock[Pending[i].fd]
    BY <1>0, <2>1, <2>3 DEF Removes, Live, TInv, IInv, TypeOK
  <2> QED
    BY <2>2, <2>3 DEF Quiet
<1>2. Pending \in Seq(Completion)
  BY <1>0, PendingType DEF TInv, IInv
<1>3. ASSUME \A i \in DOMAIN Pending' : IsAccept(Pending'[i]) =>
                \E j \in DOMAIN Pending : Pending'[i] = Pending[j]
      PROVE  Above'
  BY <1>0, <1>1, <1>3 DEF Above, IsAccept
<1>4. CASE Pending' = Pending
  BY <1>3, <1>4
<1>5. CASE Pending # <<>> /\ Pending' = Tail(Pending)
  <2>1. \A i \in DOMAIN Pending' : /\ i + 1 \in DOMAIN Pending
                                   /\ Pending'[i] = Pending[i + 1]
    BY <1>2, <1>5, TailElements
  <2> QED
    BY <1>3, <2>1
<1>6. CASE Posts
  <2>1. \A i \in DOMAIN Pending' : IsAccept(Pending'[i]) =>
          i \in DOMAIN Pending /\ Pending'[i] = Pending[i]
    BY <1>2, <1>6 DEF Posts
  <2> QED
    BY <1>3, <2>1
<1> QED
  BY <1>4, <1>5, <1>6 DEF Quiet, PendingShrinks

LEMMA AcceptedAbove ==
  ASSUME SInv, IInv', NEW k \in DOMAIN ops, KernelAccept(k)
  PROVE  SocketsOrdered'
<1>0. TInv /\ Above /\ TypeOK
  BY DEF SInv, SocketsOrdered, Above, TInv, IInv
<1>1. PICK fd \in Fds \ OpenFds, more \in BOOLEAN :
        /\ fdSock' = [fdSock EXCEPT ![fd] = nextSock]
        /\ Posted("accept", 0, fd, 1, more, FALSE)
  BY DEF KernelAccept
<1>2. /\ nextSock' = nextSock + 1 /\ UNCHANGED <<connections, idToFd, nextId, sockOf>>
      /\ batch' = batch
  BY DEF KernelAccept, tableVars, historyVars, workerVars
<1>3. fd \in Fds /\ fdSock[fd] = 0
  BY DEF OpenFds
<1>4. \A f \in Fds : fdSock'[f] = IF f = fd THEN nextSock ELSE fdSock[f]
  BY <1>0, <1>1 DEF TypeOK
<1>5. nextSock \in Nat
  BY <1>0, NumberTypes DEF TInv
<1>6. PICK e \in Completion : Pending' = Append(Pending, e) /\ e.fd = fd
  <2> DEFINE e == [op |-> "accept", id |-> 0, fd |-> fd, result |-> 1,
                   more |-> more, notif |-> FALSE]
  <2>1. e \in Completion /\ e.fd = fd
    BY <1>3 DEF Completion
  <2>2. cq' = Append(cq, e)
    BY <1>1 DEF Posted
  <2> HIDE DEF e
  <2> QED
    BY <1>0, <1>2, <2>1, <2>2, PendingAppend DEF TInv, IInv
<1>7. Pending \in Seq(Completion)
  BY <1>0, PendingType DEF TInv, IInv
<1>8. \A i \in DOMAIN Pending' : \/ i \in DOMAIN Pending /\ Pending'[i] = Pending[i]
                                 \/ Pending'[i] = e
  BY <1>6, <1>7
<1>9. ASSUME NEW i \in DOMAIN Pending, IsAccept(Pending[i])
      PROVE  fdSock'[Pending[i].fd] = fdSock[Pending[i].fd]
  <2>1. Pending[i].fd \in Fds /\ fdSock[Pending[i].fd] # 0
    BY <1>0, <1>9, AcceptedPending DEF TInv
  <2> QED
    BY <1>3, <1>4, <2>1
<1>10. \A id \in Ids : sockOf[id] < nextSock /\ sockOf[id] \in Nat
  BY <1>0 DEF SInv, SocketsOrdered, TypeOK, Socks
<1>11. Above'
  <2>1. ASSUME NEW id \in Ids, NEW i \in DOMAIN Pending', IsAccept(Pending'[i])
        PROVE  sockOf[id] < fdSock'[Pending'[i].fd]
    <3>1. CASE i \in DOMAIN Pending /\ Pending'[i] = Pending[i]
      BY <1>0, <1>9, <2>1, <3>1 DEF Above
    <3>2. CASE Pending'[i] = e
      BY <1>3, <1>4, <1>6, <1>10, <3>2
    <3> QED
      BY <1>8, <3>1, <3>2
  <2> QED
    BY <1>2, <2>1 DEF Above, IsAccept
<1>12. \A id \in Ids : sockOf[id] < nextSock + 1
  BY <1>5, <1>10
<1> QED
  BY <1>2, <1>11, <1>12 DEF SInv, SocketsOrdered, Above

\* handle_tcp_accept.
LEMMA TakenAbove ==
  ASSUME IdsSuffice, SInv, TInv', IInv', HandleAccept
  PROVE  SocketsOrdered'
<1>1. /\ TInv /\ TypeOK /\ SocketsOrdered /\ Above /\ AcceptOrder
  BY DEF SInv, SocketsOrdered, Above, TInv, IInv
<1>2. /\ batch # <<>> /\ batch' = Tail(batch) /\ cq' = cq /\ nextSock' = nextSock
      /\ Cqe \in Completion /\ 1 \in DOMAIN Pending /\ Pending[1] = Cqe
      /\ Pending \in Seq(Completion) /\ Pending # <<>> /\ Pending' = Tail(Pending)
  BY <1>1, PendingHead, PendingType, PendingTail DEF HandleAccept, TInv, IInv
<1>3. \A i \in DOMAIN Pending' : /\ i + 1 \in DOMAIN Pending /\ 1 < i + 1
                                 /\ Pending'[i] = Pending[i + 1]
  BY <1>2, TailElements
<1>4. CASE Cqe.fd = NoFd
  <2>1. UNCHANGED <<sockOf, fdSock>>
    BY <1>4 DEF HandleAccept
  <2> QED
    BY <1>1, <1>2, <1>3, <2>1 DEF SocketsOrdered, Above, IsAccept
<1>5. ASSUME Cqe.fd # NoFd
      PROVE  /\ IsAccept(Cqe) /\ Cqe.fd \in Fds /\ ~Live(Cqe.fd)
             /\ \A i \in DOMAIN Pending' : IsAccept(Pending'[i]) =>
                  /\ Pending'[i].fd \in Fds
                  /\ fdSock[Cqe.fd] < fdSock[Pending'[i].fd]
  <2>1. IsAccept(Cqe)
    BY <1>5 DEF HandleAccept, IsAccept
  <2>2. Cqe.fd \in Fds /\ connections[Cqe.fd].id = 0
    BY <1>1, <1>2, <2>1, AcceptedPending DEF TInv
  <2>3. ASSUME NEW i \in DOMAIN Pending', IsAccept(Pending'[i])
        PROVE  /\ Pending'[i].fd \in Fds
               /\ fdSock[Cqe.fd] < fdSock[Pending'[i].fd]
    <3>1. i + 1 \in DOMAIN Pending /\ 1 < i + 1 /\ Pending'[i] = Pending[i + 1]
      BY <1>3
    <3>2. Pending[i + 1].fd \in Fds
      BY <1>1, <2>3, <3>1, AcceptedPending DEF TInv
    <3> QED
      BY <1>1, <1>2, <2>1, <2>3, <3>1, <3>2 DEF AcceptOrder
  <2> QED
    BY <2>1, <2>2, <2>3 DEF Live
<1>6. ASSUME NEW f \in Fds PROVE fdSock[f] \in Nat
  BY <1>1, NumberTypes DEF TInv
<1>7. CASE Cqe.fd # NoFd /\ ConnectionLimitReached
  <2>1. PICK fd : fd = Cqe.fd
    OBVIOUS
  <2>2. sockOf' = sockOf /\ fdSock' = [fdSock EXCEPT ![fd] = 0]
    BY <1>7, <2>1 DEF HandleAccept, RejectConnection
  <2>3. ASSUME NEW i \in DOMAIN Pending', IsAccept(Pending'[i])
        PROVE  fdSock'[Pending'[i].fd] = fdSock[Pending'[i].fd]
    <3>1. PICK f \in Fds : f = Pending'[i].fd
      BY <1>5, <1>7, <2>3
    <3>2. fdSock[fd] < fdSock[f] /\ fd \in Fds
      BY <1>5, <1>7, <2>1, <2>3, <3>1
    <3>3. f # fd
      BY <1>6, <3>2
    <3>4. fdSock'[f] = fdSock[f]
      BY <1>1, <2>2, <3>3 DEF TypeOK
    <3> QED
      BY <3>1, <3>4
  <2> QED
    BY <1>1, <1>2, <1>3, <2>2, <2>3 DEF SocketsOrdered, Above, IsAccept
<1>8. CASE Cqe.fd # NoFd /\ ~ConnectionLimitReached
  <2>1. PICK fd : fd = Cqe.fd
    OBVIOUS
  <2>2. fd \in Fds /\ ~Live(fd) /\ AcceptConnection(fd)
    BY <1>5, <1>8, <2>1 DEF HandleAccept
  <2>3. /\ nextId \in Ids /\ fdSock' = fdSock
        /\ sockOf' = [sockOf EXCEPT ![nextId] = fdSock[fd]]
    BY <1>1, <2>2 DEF AcceptConnection, TypeOK
  <2>4. \A id \in Ids : sockOf'[id] = IF id = nextId THEN fdSock[fd] ELSE sockOf[id]
    BY <1>1, <2>3 DEF TypeOK
  <2>5. \A id \in Ids : sockOf[id] < fdSock[fd] /\ sockOf[id] \in Nat
    <3>1. 1 \in DOMAIN Pending /\ IsAccept(Pending[1]) /\ Pending[1].fd = fd
      BY <1>2, <1>5, <1>8, <2>1
    <3>2. \A id \in Ids : sockOf[id] < fdSock[fd]
      BY <1>1, <3>1 DEF Above
    <3> QED
      BY <1>1, <3>2 DEF TypeOK, Socks
  <2>6. fdSock[fd] < nextSock /\ fdSock[fd] \in Nat
    BY <1>1, <1>6, <2>2 DEF TInv, SocksUsed
  <2>7. \A id \in Ids : sockOf'[id] < nextSock
    BY <1>1, <2>4, <2>6 DEF SocketsOrdered
  <2>8. ASSUME NEW id \in Ids, NEW i \in DOMAIN Pending', IsAccept(Pending'[i])
        PROVE  sockOf'[id] < fdSock[Pending'[i].fd]
    <3>1. PICK f \in Fds : f = Pending'[i].fd
      BY <1>5, <1>8, <2>8
    <3>2. fdSock[fd] < fdSock[f]
      BY <1>5, <1>8, <2>1, <2>8, <3>1
    <3>3. sockOf[id] < fdSock[f]
      BY <1>6, <2>5, <2>2, <3>2
    <3> QED
      BY <2>4, <3>1, <3>2, <3>3
  <2>9. ASSUME NEW id \in Ids, NEW jd \in Ids, sockOf'[id] = sockOf'[jd], sockOf'[id] # 0
        PROVE  id = jd
    <3>1. \A g \in Ids : sockOf[g] # fdSock[fd]
      BY <2>5, <2>6
    <3> QED
      BY <1>1, <2>4, <2>9, <3>1 DEF SocketsOrdered
  <2> QED
    BY <1>2, <2>3, <2>7, <2>8, <2>9 DEF SocketsOrdered, IsAccept
<1> QED
  BY <1>4, <1>7, <1>8

LEMMA OrderedNext ==
  ASSUME IdsSuffice, SInv, [Next]_vars
  PROVE  SocketsOrdered'
<1>1. TInv' /\ IInv' /\ TInv
  BY NextTInv DEF SInv, TInv
<1>2. \/ Quiet \/ WorkerFails \/ Exit \/ HandleAccept
      \/ \E i \in DOMAIN ops : KernelAccept(i)
  BY <1>1, NextKinds DEF TInv
<1>3. CASE Quiet
  <2>1. UNCHANGED <<sockOf, nextSock>>
    BY <1>3 DEF Quiet
  <2>2. Above'
    BY <1>1, <1>3, QuietAbove
  <2> QED
    BY <2>1, <2>2 DEF SInv, SocketsOrdered, Above
<1>4. CASE WorkerFails \/ Exit
  <2>1. batch' = <<>> /\ cq' = <<>> /\ UNCHANGED <<nextSock, sockOf>>
    BY <1>1, <1>4 DEF WorkerFails, Exit, TInv, IInv, Phases, tableVars, historyVars
  <2>2. Pending' = <<>>
    BY <2>1 DEF Pending
  <2> QED
    BY <2>1, <2>2 DEF SInv, SocketsOrdered
<1> QED
  BY <1>1, <1>2, <1>3, <1>4, TakenAbove, AcceptedAbove

-----------------------------------------------------------------------------
(***************************************************************************)
(* The invariant.                                                          *)
(***************************************************************************)

LEMMA InitSound ==
  ASSUME Init, TInv, NEW id \in Ids
  PROVE  Sound(id)
<1>1. /\ sq = <<AcceptEntry, ReadEntry>> /\ ops = <<>> /\ Pending = <<>> /\ idToFd[id] = NoFd
  BY DEF Init, Pending
<1>2. ~IsActive(id) /\ ~IsWaiting(id)
  BY <1>1 DEF IsActive, IsWaiting
<1>3. Bit(IsActive(id)) = 0 /\ Bit(IsWaiting(id)) = 0
  BY <1>2 DEF Bit
<1>4. \A e \in Elems(sq) : e \notin Queued(id)
  BY <1>1 DEF Elems, Queued, AcceptEntry, ReadEntry
<1>5. NQ(id) = 0
  <2>1. \A i \in DOMAIN sq : sq[i] \notin Queued(id)
    BY <1>1, <1>4 DEF Elems
  <2> QED
    BY <2>1, FS_EmptySet DEF NQ, Cnt, At
<1>6. NK(id) = 0 /\ NH(id) = 0 /\ NM(id) = 0 /\ NF(id) = 0 /\ NN(id) = 0
  BY <1>1, CntEmpty DEF NK, NH, NM, NF, NN
<1>7. OneToken(id) /\ HoldsPaired(id)
  BY <1>3, <1>5, <1>6 DEF OneToken, HoldsPaired
<1>8. Elems(<<>>) = {} /\ DOMAIN <<>> = {}
  BY DEF Elems
<1> QED
  BY <1>1, <1>2, <1>4, <1>7, <1>8
     DEF Sound, FirstsFirst, EntriesMatch, OpsMatch, ResultsMatch, AllSent

LEMMA InitSInv == Init => SInv
<1> SUFFICES ASSUME Init PROVE SInv
  OBVIOUS
<1>1. TInv /\ TypeOK
  BY InitTInv DEF TInv, IInv
<1>2. /\ NoConnection \in Connection /\ NoConnection.id = 0 /\ ~HasSend(NoConnection)
      /\ NoConnection.sendQueue = <<>> /\ NoConnection.activeSend = NoSend
  BY NoConnectionType, NoSendType DEF NoConnection, HasSend, NoSend
<1>3. \A fd \in Fds : connections[fd] = NoConnection
  BY DEF Init
<1>4. Shape
  <2>1. Len(<<>>) = 0 /\ DOMAIN <<>> = {}
    OBVIOUS
  <2> QED
    BY <1>2, <1>3, <2>1, NumberAssumption DEF Shape, WellFormed
<1>5. AllFed
  BY <1>2, <1>3 DEF AllFed, Live
<1>6. OwnSockets
  BY DEF Init, OwnSockets, Elems
<1>7. Unborn
  <2>1. nextId = 1 /\ \A id \in Ids : ~(id < 1)
    BY DEF Init, Ids
  <2> QED
    BY <2>1 DEF Init, Unborn
<1>8. SocketsOrdered
  BY DEF Init, SocketsOrdered, Pending
<1>9. Silent
  BY DEF Init, Silent
<1> QED
  BY <1>1, <1>4, <1>5, <1>6, <1>7, <1>8, <1>9, InitSound DEF SInv

\* Everybody's payloads stay sound, as long as the worker serves.
LEMMA SoundNext ==
  ASSUME IdsSuffice, SInv, TInv', Serving, Serving', Kinds
  PROVE  \A id \in Ids : Sound(id)'
<1>1. ~Fails
  BY DEF Fails, Serving
<1> QED
  BY <1>1, CalmSound, SubmitsSound, NotifiesSound, CompletesSound, DropsSound, BirthsSound,
     FeedsSound, FinishesSound, StoresSound DEF Kinds, Forced, Quits

LEMMA FailsKeeps ==
  ASSUME Fails, TypeOK
  PROVE  Shape' /\ AllFed'
<1>1. /\ NoConnection.id = 0 /\ ~HasSend(NoConnection)
      /\ NoConnection.sendQueue = <<>> /\ NoConnection.activeSend = NoSend
  BY NoConnectionType, NoSendType DEF NoConnection, HasSend, NoSend
<1>2. \A fd \in Fds : connections'[fd] = NoConnection
  BY DEF Fails
<1>3. Len(<<>>) = 0 /\ DOMAIN <<>> = {}
  OBVIOUS
<1> QED
  BY <1>1, <1>2, <1>3, NumberAssumption DEF Shape, AllFed, Live, WellFormed, HasSend

LEMMA NextSInv ==
  ASSUME IdsSuffice, SInv, [Next]_vars
  PROVE  SInv' /\ (SlotsConserved => SlotsConserved')
<1>1. TInv' /\ TypeOK /\ TypeOK' /\ Kinds /\ Shape /\ AllFed
  BY NextTInv, EveryKind DEF SInv, TInv, IInv
<1>2. (Serving => \A id \in Ids : Sound(id))'
  BY <1>1, SoundNext, NextPhase DEF SInv
<1>3. /\ Shape' /\ AllFed'
      /\ pc' # "failed" => \A s \in Slots :
           free[s] + Cardinality(SlotHolders(s)) = 1
             => (free[s] + Cardinality(SlotHolders(s)) = 1)'
  <2>1. CASE Fails
    BY <1>1, <2>1, FailsKeeps DEF Fails
  <2>2. CASE TableStill
    BY <1>1, <2>2, StillKeeps
  <2>3. CASE \E fd \in Fds : \E d, p : Evolves(fd, d, p)
    BY <1>1, <2>3, EvolvesKeeps
  <2> QED
    BY <1>1, <2>1, <2>2, <2>3, TableKinds
<1>4. OwnSockets' /\ Unborn' /\ Silent' /\ SocketsOrdered'
  BY <1>1, OwnNext, UnbornNext, SilentNext, OrderedNext
<1>5. SInv'
  BY <1>1, <1>2, <1>3, <1>4 DEF SInv
<1>6. SlotsConserved => SlotsConserved'
  BY <1>3, NextPhase DEF SlotsConserved
<1> QED
  BY <1>5, <1>6

LEMMA InitSlots == Init => SlotsConserved
<1> SUFFICES ASSUME Init PROVE SlotsConserved
  OBVIOUS
<1>1. /\ NoConnection.sendQueue = <<>> /\ NoConnection.activeSend = NoSend
  BY DEF NoConnection
<1>2. \A s \in Slots : SlotHolders(s) = {}
  <2>1. \A fd \in Fds : connections[fd] = NoConnection
    BY DEF Init
  <2>2. SendsOf(NoConnection) = <<NoSend>> /\ NoSend.slot \notin Slots
    BY <1>1, SlotAssumption DEF SendsOf, NoSend
  <2> QED
    BY <2>1, <2>2 DEF SlotHolders
<1>3. \A s \in Slots : free[s] = 1
  BY DEF Init
<1> QED
  BY <1>2, <1>3, FS_EmptySet DEF SlotsConserved

LEMMA SInvHolds == IdsSuffice /\ Spec => [](SInv /\ SlotsConserved)
<1>1. ASSUME IdsSuffice PROVE Spec => [](SInv /\ SlotsConserved)
  <2>1. SInv /\ SlotsConserved /\ [Next]_vars => (SInv /\ SlotsConserved)'
    BY <1>1, NextSInv
  <2> QED
    BY <2>1, InitSInv, InitSlots, PTL DEF Spec
<1> QED
  BY <1>1

-----------------------------------------------------------------------------
(***************************************************************************)
(* What follows from the invariant.                                        *)
(***************************************************************************)

\* A connection with an active payload has sent up to some point within it.
LEMMA InFlight ==
  ASSUME TInv, NEW id \in Ids, Sound(id), IsActive(id)
  PROVE  \E r \in Int : /\ r = 0 \/ ResultOf(Active(id), r)
                        /\ Reached(id, Plus(Active(id), r))
<1>1. CountTypes(id) /\ TypeOK
  BY CountsAreNat DEF TInv, IInv
<1>2. sq \in Seq(Entry) /\ ops \in Seq(Operation) /\ Pending \in Seq(Completion)
  BY <1>1, PendingType DEF TypeOK
<1>3. /\ NQ(id) + NK(id) + NH(id) + NF(id) + NN(id) = 1
      /\ NH(id) + NN(id) = NM(id) + (IF IsWaiting(id) THEN 1 ELSE 0)
  BY Equations DEF Sound
<1>4. CASE NQ(id) > 0
  <2>1. PICK e \in Elems(sq) : e \in Queued(id)
    BY <1>2, <1>4, CntPositive DEF NQ
  <2> QED
    BY <2>1 DEF Sound, EntriesMatch, EntryOK
<1>5. CASE NK(id) > 0
  <2>1. PICK e \in Elems(ops) : e \in InKernel(id)
    BY <1>2, <1>5, CntPositive DEF NK
  <2> QED
    BY <2>1 DEF Sound, OpsMatch, SendOK
<1>6. ASSUME NEW e \in Elems(Pending), e \in Firsts(id) \cup Finals(id)
      PROVE  \E r \in Int : ResultOf(Active(id), r) /\ Reached(id, Plus(Active(id), r))
  <2>1. ResultOK(id, e.result)
    BY <1>6 DEF Sound, ResultsMatch
  <2>2. e.result \in Int
    BY <1>6 DEF Firsts, Finals, Completion
  <2> QED
    BY <2>1, <2>2 DEF ResultOK
<1>7. CASE NF(id) > 0
  BY <1>2, <1>6, <1>7, CntPositive DEF NF
<1>8. CASE NM(id) > 0
  BY <1>2, <1>6, <1>8, CntPositive DEF NM
<1>9. CASE IsWaiting(id)
  <2>1. ResultOK(id, Active(id).result)
    BY <1>9 DEF Sound, ResultsMatch
  <2> QED
    BY <2>1 DEF ResultOK, ResultOf
<1> QED
  BY <1>1, <1>3, <1>4, <1>5, <1>7, <1>8, <1>9 DEF CountTypes

LEMMA Contiguously ==
  ASSUME NEW c \in Connection, WellFormed(c), NEW n \in Nat, Fed(c, n)
  PROVE  /\ Contiguous(c)
         /\ HasSend(c) =>
              n = Upto(IF c.sendQueue = <<>> THEN c.activeSend ELSE c.sendQueue[Len(c.sendQueue)])
<1> DEFINE a == c.activeSend
           s == c.sendQueue
           q == <<a>> \o s
<1>1. a \in PendingSend /\ s \in Seq(PendingSend)
  BY ConnectionFields
<1>2. \A i \in DOMAIN s : s[i].start = IF i = 1 THEN Upto(a) ELSE Upto(s[i - 1])
  BY DEF Fed
<1> HIDE DEF a, s
<1>3. Len(q) = Len(s) + 1 /\ q[1] = a /\ \A i \in DOMAIN s : q[i + 1] = s[i]
  BY <1>1
<1>4. ASSUME NEW i \in 1..(Len(q) - 1)
      PROVE  q[i + 1].start = q[i].start + q[i].len
  <2>1. i \in DOMAIN s /\ q[i + 1] = s[i]
    BY <1>1, <1>3
  <2>2. CASE i = 1
    BY <1>2, <1>3, <2>1, <2>2 DEF Upto
  <2>3. CASE i # 1
    <3>1. i - 1 \in DOMAIN s /\ (i - 1) + 1 = i
      BY <1>1, <2>1, <2>3
    <3>2. q[i] = s[i - 1]
      BY <1>3, <3>1
    <3> QED
      BY <1>2, <2>1, <2>3, <3>2 DEF Upto
  <2> QED
    BY <2>2, <2>3
<1> QED
  BY <1>4 DEF Contiguous, Fed, a, s

LEMMA StreamSound == SInv => StreamConserved
<1> SUFFICES ASSUME SInv, Serving, NEW fd \in Fds, Live(fd)
             PROVE  LET c == connections[fd]
                        w == wire[sockOf[c.id]]
                        last == IF c.sendQueue = <<>> THEN c.activeSend
                                ELSE c.sendQueue[Len(c.sendQueue)]
                    IN  /\ HasSend(c) => c.activeSend.offset < c.activeSend.len
                        /\ Contiguous(c)
                        /\ HasSend(c) => accepted[c.id] = last.start + last.len
                        /\ ~c.closeAfterSend =>
                             /\ \A k \in DOMAIN w : w[k] = k
                             /\ HasSend(c) => /\ Len(w) >= c.activeSend.start + c.activeSend.offset
                                              /\ Len(w) <= c.activeSend.start + c.activeSend.len
                             /\ ~HasSend(c) => Len(w) = accepted[c.id]
  BY DEF StreamConserved, Serving, LiveFds
<1>1. PICK c : c = connections[fd]
  OBVIOUS
<1>2. PICK id : id = c.id
  OBVIOUS
<1>3. PICK w : w = wire[sockOf[id]]
  OBVIOUS
<1>4. /\ TInv /\ TypeOK /\ c \in Connection /\ id \in Ids /\ idToFd[id] = fd
      /\ WellFormed(c) /\ ConnOf(id) = c /\ Active(id) = c.activeSend /\ c.id = id
  BY <1>1, <1>2, InTable DEF Active
<1>5. Sound(id) /\ Fed(c, accepted[id]) /\ accepted[id] \in Nat /\ fd # NoFd
  BY <1>1, <1>2, <1>4, FdAssumption DEF SInv, AllFed, TypeOK
<1>6. IsActive(id) <=> HasSend(c)
  BY <1>4, <1>5 DEF IsActive
<1>7. c.activeSend \in PendingSend
  BY <1>4, ConnectionFields
<1>8. HasSend(c) => c.activeSend.offset < c.activeSend.len
  BY <1>4 DEF WellFormed
<1>9. /\ Contiguous(c)
      /\ HasSend(c) => LET last == IF c.sendQueue = <<>> THEN c.activeSend
                                   ELSE c.sendQueue[Len(c.sendQueue)]
                       IN  accepted[id] = last.start + last.len
  BY <1>4, <1>5, Contiguously DEF Upto
<1>10. ASSUME ~c.closeAfterSend, NEW n \in Nat, Reached(id, n)
       PROVE  (\A k \in DOMAIN w : w[k] = k) /\ Len(w) = n
  <2>1. w = [k \in 1..n |-> k]
    BY <1>3, <1>4, <1>10 DEF Reached, Gone
  <2> QED
    BY <2>1
<1>11. ASSUME ~c.closeAfterSend, HasSend(c)
       PROVE  /\ \A k \in DOMAIN w : w[k] = k
              /\ Len(w) >= c.activeSend.start + c.activeSend.offset
              /\ Len(w) <= c.activeSend.start + c.activeSend.len
  <2>1. PICK r \in Int : /\ r = 0 \/ ResultOf(c.activeSend, r)
                         /\ Reached(id, Plus(c.activeSend, r))
    BY <1>4, <1>5, <1>6, <1>11, InFlight
  <2>2. PICK n : n = Plus(c.activeSend, r)
    OBVIOUS
  <2>3. c.activeSend.start \in Nat /\ c.activeSend.offset \in Nat /\ c.activeSend.len \in Nat
    BY <1>7 DEF PendingSend
  <2>4. /\ n \in Nat /\ n >= c.activeSend.start + c.activeSend.offset
        /\ n <= c.activeSend.start + c.activeSend.len
    BY <1>8, <1>11, <2>1, <2>2, <2>3 DEF Plus, ResultOf
  <2> QED
    BY <1>10, <1>11, <2>1, <2>2, <2>4
<1>12. ASSUME ~c.closeAfterSend, ~HasSend(c)
       PROVE  (\A k \in DOMAIN w : w[k] = k) /\ Len(w) = accepted[id]
  <2>1. Reached(id, accepted[id])
    BY <1>4, <1>5, <1>6, <1>12 DEF Sound, AllSent
  <2> QED
    BY <1>5, <1>10, <1>12, <2>1
<1> QED
  BY <1>1, <1>2, <1>3, <1>8, <1>9, <1>11, <1>12

LEMMA HeldSound == SInv => KernelBuffersHeld
<1>1. ASSUME SInv, Serving, NEW id \in Ids, IsActive(id)
      PROVE  idToFd[id] # NoFd /\ HasSend(connections[idToFd[id]])
             /\ Active(id) = connections[idToFd[id]].activeSend
  BY <1>1 DEF IsActive, Active, ConnOf
<1>2. ASSUME SInv, Serving, NEW id \in Ids, NQ(id) > 0 \/ NK(id) > 0 \/ NH(id) > 0
      PROVE  IsActive(id)
  <2>1. CountTypes(id) /\ Sound(id)
    BY <1>2, CountsAreNat DEF SInv, TInv, IInv
  <2>2. NQ(id) + NK(id) + NH(id) + NF(id) + NN(id) = IF IsActive(id) THEN 1 ELSE 0
    BY <2>1, Equations DEF Sound
  <2> QED
    BY <1>2, <2>1, <2>2 DEF CountTypes
<1>3. ASSUME SInv, Serving, NEW i \in Sending(sq)
      PROVE  LET id == sq[i].id
             IN  id \in Ids /\ IsActive(id) /\ Carries(sq[i], Active(id))
  <2>1. sq \in Seq(Entry) /\ i \in DOMAIN sq /\ sq[i].op \in {"send", "hold"}
    BY <1>3 DEF Sending, SInv, TInv, IInv, TypeOK
  <2>2. PICK id : id = sq[i].id
    OBVIOUS
  <2>3. sq[i] \in Entry /\ sq[i] \in Elems(sq)
    BY <2>1, ElemsOf
  <2>4. id \in Ids /\ sq[i] \in Queued(id)
    BY <2>1, <2>2, <2>3 DEF Entry, Queued
  <2>5. NQ(id) > 0
    BY <2>1, <2>3, <2>4, CntPositive DEF NQ
  <2>6. EntryOK(id, sq[i])
    BY <1>3, <2>3, <2>4 DEF SInv, Sound, EntriesMatch
  <2> QED
    BY <1>2, <1>3, <2>2, <2>4, <2>5, <2>6 DEF EntryOK
<1>4. ASSUME SInv, Serving, NEW i \in Sending(ops)
      PROVE  LET id == ops[i].id
             IN  id \in Ids /\ IsActive(id) /\ Carries(ops[i], Active(id))
  <2>1. ops \in Seq(Operation) /\ i \in DOMAIN ops /\ ops[i].op \in {"send", "hold"}
    BY <1>4 DEF Sending, SInv, TInv, IInv, TypeOK
  <2>2. PICK id : id = ops[i].id
    OBVIOUS
  <2>3. ops[i] \in Operation /\ ops[i] \in Elems(ops)
    BY <2>1, ElemsOf
  <2>4. id \in Ids /\ ops[i] \in InKernel(id) \cup Held(id)
    BY <2>1, <2>2, <2>3 DEF Operation, InKernel, Held
  <2>5. NK(id) > 0 \/ NH(id) > 0
    BY <2>1, <2>3, <2>4, CntPositive DEF NK, NH
  <2>6. Carries(ops[i], Active(id))
    BY <1>4, <2>3, <2>4 DEF SInv, Sound, OpsMatch, SendOK, HoldOK
  <2> QED
    BY <1>2, <1>4, <2>2, <2>4, <2>5, <2>6
<1>5. SUFFICES ASSUME SInv, Serving, NEW q \in {sq, ops}, NEW i \in Sending(q)
               PROVE  LET fd == idToFd[q[i].id]
                      IN  /\ fd # NoFd
                          /\ HasSend(connections[fd])
                          /\ q[i].slot = connections[fd].activeSend.slot
                          /\ q[i].pos = connections[fd].activeSend.start
                                          + connections[fd].activeSend.offset
  BY DEF KernelBuffersHeld, Serving
<1>6. q[i].id \in Ids /\ IsActive(q[i].id) /\ Carries(q[i], Active(q[i].id))
  BY <1>3, <1>4, <1>5
<1> QED
  BY <1>1, <1>5, <1>6 DEF Carries

LEMMA TokensSound == SInv => SomeoneFinishes
<1> SUFFICES ASSUME SInv PROVE SomeoneFinishes
  OBVIOUS
<1>1. TInv /\ TypeOK
  BY DEF SInv, TInv, IInv
<1>2. QueueHasActiveSend
  BY DEF SInv, Shape, WellFormed, QueueHasActiveSend
<1>3. ASSUME NEW id \in Ids, Sound(id)
      PROVE  SendTokens(id) = NQ(id) + NK(id) + NH(id) + NF(id) + NN(id)
  <2> DEFINE A == {i \in Sending(sq) : sq[i].id = id}
             B == {i \in Sending(ops) : ops[i].id = id}
             C == {i \in DOMAIN Pending :
                     Pending[i].op = "send" /\ Pending[i].id = id /\ ~Pending[i].more}
  <2>1. sq \in Seq(Entry) /\ ops \in Seq(Operation) /\ Pending \in Seq(Completion)
    BY <1>1, PendingType DEF TypeOK
  <2>2. A = At(sq, Queued(id))
    <3>1. \A i \in DOMAIN sq : sq[i] \in Entry /\ sq[i].op # "hold"
      BY <2>1 DEF Entry
    <3> QED
      BY <3>1 DEF At, Queued, Sending
  <2>3. B = At(ops, InKernel(id) \cup Held(id))
    <3>1. \A i \in DOMAIN ops : ops[i] \in Operation
      BY <2>1
    <3> QED
      BY <3>1 DEF At, InKernel, Held, Sending
  <2>4. C = At(Pending, Finals(id) \cup Notifs(id))
    <3>1. \A i \in DOMAIN Pending : Pending[i] \in Completion
      BY <2>1
    <3> QED
      BY <3>1 DEF At, Finals, Notifs
  <2>5. Cnt(ops, InKernel(id) \cup Held(id)) = NK(id) + NH(id)
    <3>1. InKernel(id) \cap Held(id) = {}
      BY DEF InKernel, Held
    <3> QED
      BY <2>1, <3>1, CntSplit DEF NK, NH
  <2>6. Cnt(Pending, Finals(id) \cup Notifs(id)) = NF(id) + NN(id)
    <3>1. Finals(id) \cap Notifs(id) = {}
      BY DEF Finals, Notifs
    <3> QED
      BY <2>1, <3>1, CntSplit DEF NF, NN
  <2>7. CountTypes(id)
    BY <1>1, CountsAreNat
  <2>8. SendTokens(id) = Cardinality(A) + Cardinality(B) + Cardinality(C)
    BY DEF SendTokens
  <2>9. Cardinality(A) = NQ(id) /\ Cardinality(B) = NK(id) + NH(id)
        /\ Cardinality(C) = NF(id) + NN(id)
    BY <2>2, <2>3, <2>4, <2>5, <2>6 DEF NQ, Cnt
  <2> HIDE DEF A, B, C
  <2> QED
    BY <2>7, <2>8, <2>9 DEF CountTypes
<1>4. ASSUME Serving, NEW fd \in Fds, Live(fd)
      PROVE  SendTokens(connections[fd].id) = IF HasSend(connections[fd]) THEN 1 ELSE 0
  <2>1. PICK id : id = connections[fd].id
    OBVIOUS
  <2>2. id \in Ids /\ idToFd[id] = fd /\ ConnOf(id) = connections[fd] /\ fd # NoFd
    BY <1>4, <2>1, InTable, FdAssumption
  <2>3. IsActive(id) <=> HasSend(connections[fd])
    BY <2>2 DEF IsActive
  <2>4. Sound(id)
    BY <1>4, <2>2 DEF SInv
  <2>5. NQ(id) + NK(id) + NH(id) + NF(id) + NN(id) = IF IsActive(id) THEN 1 ELSE 0
    BY <2>4, <1>1, <2>2, Equations DEF Sound
  <2> QED
    BY <1>3, <2>1, <2>2, <2>3, <2>4, <2>5
<1> QED
  BY <1>2, <1>4 DEF SomeoneFinishes, OneSendInFlight, Serving, LiveFds

LEMMA OwnSound == SInv => SendOnOwnSocket
<1>1. ASSUME SInv, NEW i \in DOMAIN ops, ops[i].op = "send"
      PROVE  ops[i].sock = sockOf[ops[i].id]
  BY <1>1 DEF SInv, OwnSockets, Elems
<1> QED
  BY <1>1 DEF SendOnOwnSocket

\* Payloads, their buffers and the bytes the kernel reads from them agree, for
\* every number of connections, slots and payloads: no slot is shared, leaked
\* or released twice, the kernel sends from what the active payload holds, and
\* an open connection has sent a prefix of what it accepted, without a gap.
THEOREM BuffersAreSafe == IdsSuffice /\ Spec => []BuffersSafe
<1>1. SInv /\ SlotsConserved => BuffersSafe
  BY StreamSound, HeldSound DEF BuffersSafe
<1> QED
  BY <1>1, SInvHolds, PTL

\* An active payload has one completion ahead of it that finishes it, and what
\* is queued an active payload in front of it: no send waits for nobody.
THEOREM SendsAreFinished == IdsSuffice /\ Spec => []SomeoneFinishes
<1>1. SInv => SomeoneFinishes
  BY TokensSound
<1> QED
  BY <1>1, SInvHolds, PTL

\* A send in the kernel is on the socket accepted under its id, however often
\* its descriptor has been closed and given out again.
THEOREM SendsKeepTheirSocket == IdsSuffice /\ Spec => []SendOnOwnSocket
<1>1. SInv => SendOnOwnSocket
  BY OwnSound
<1> QED
  BY <1>1, SInvHolds, PTL

-----------------------------------------------------------------------------
(***************************************************************************)
(* The worker implements TcpStream.                                        *)
(***************************************************************************)
SentOf(id) == IF sockOf[id] = 0 THEN <<>> ELSE wire[sockOf[id]]
PhaseMap == [id \in Ids |-> Phase(id)]
SentMap == [id \in Ids |-> SentOf(id)]
Abstractly == [Streams!StreamNext]_(Streams!streamVars)
IsUp(id) == Phase(id) \in {"open", "closing"}

LEMMA PhaseIs ==
  ASSUME NEW id
  PROVE  /\ Phase(id) = IF events[id] = <<>> THEN "unborn"
                        ELSE IF idToFd[id] = NoFd THEN "closed"
                        ELSE IF ConnOf(id).closeAfterSend THEN "closing" ELSE "open"
         /\ Phase(id)' = IF events'[id] = <<>> THEN "unborn"
                         ELSE IF idToFd'[id] = NoFd THEN "closed"
                         ELSE IF ConnOf(id).closeAfterSend' THEN "closing" ELSE "open"
  BY DEF Phase, ConnOf

LEMMA StutterStep ==
  ASSUME \A id \in Ids : Phase(id)' = Phase(id) /\ SentOf(id)' = SentOf(id),
         accepted' = accepted
  PROVE  Abstractly
<1>1. PhaseMap' = PhaseMap /\ SentMap' = SentMap
  BY DEF PhaseMap, SentMap
<1> QED
  BY <1>1 DEF Abstractly, Streams!streamVars, PhaseMap, SentMap, SentOf

LEMMA OpenStep ==
  ASSUME NEW id \in Ids, Phase(id) = "unborn", Phase(id)' = "open",
         \A g \in Ids : g # id => Phase(g)' = Phase(g),
         \A g \in Ids : SentOf(g)' = SentOf(g), accepted' = accepted
  PROVE  Abstractly
<1>1. PhaseMap' = [PhaseMap EXCEPT ![id] = "open"] /\ SentMap' = SentMap /\ PhaseMap[id] = "unborn"
  BY DEF PhaseMap, SentMap
<1> QED
  BY <1>1 DEF Abstractly, Streams!StreamNext, Streams!Open, PhaseMap, SentMap, SentOf

LEMMA BeginStep ==
  ASSUME NEW id \in Ids, Phase(id) = "open", Phase(id)' = "closing",
         \A g \in Ids : g # id => Phase(g)' = Phase(g),
         \A g \in Ids : SentOf(g)' = SentOf(g), accepted' = accepted
  PROVE  Abstractly
<1>1. PhaseMap' = [PhaseMap EXCEPT ![id] = "closing"] /\ SentMap' = SentMap /\ PhaseMap[id] = "open"
  BY DEF PhaseMap, SentMap
<1> QED
  BY <1>1 DEF Abstractly, Streams!StreamNext, Streams!BeginClose, PhaseMap, SentMap, SentOf

LEMMA EndStep ==
  ASSUME NEW ending \in SUBSET Ids, ending # {}, \A id \in ending : IsUp(id),
         \A id \in Ids : Phase(id)' = IF id \in ending THEN "closed" ELSE Phase(id),
         \A g \in Ids : SentOf(g)' = SentOf(g), accepted' = accepted
  PROVE  Abstractly
<1>1. /\ PhaseMap' = [id \in Ids |-> IF id \in ending THEN "closed" ELSE PhaseMap[id]]
      /\ SentMap' = SentMap
      /\ \A id \in ending : PhaseMap[id] \in {"open", "closing"}
  BY DEF PhaseMap, SentMap, IsUp
<1>2. ending # {} /\ ending \subseteq Ids
  OBVIOUS
<1>3. Streams!Close
  BY <1>1, <1>2 DEF Streams!Close, PhaseMap, SentMap, SentOf
<1> QED
  BY <1>3 DEF Abstractly, Streams!StreamNext

LEMMA AcceptStep ==
  ASSUME accepted \in [Ids -> Nat], NEW id \in Ids, IsUp(id), NEW n \in Nat, n > 0,
         accepted' = [accepted EXCEPT ![id] = @ + n],
         \A g \in Ids : Phase(g)' = Phase(g) /\ SentOf(g)' = SentOf(g)
  PROVE  Abstractly
<1>1. PhaseMap' = PhaseMap /\ SentMap' = SentMap /\ PhaseMap[id] \in {"open", "closing"}
  BY DEF PhaseMap, SentMap, IsUp
<1>2. /\ accepted'[id] = accepted[id] + n /\ accepted[id] \in Nat
      /\ accepted' = [accepted EXCEPT ![id] = accepted'[id]]
  OBVIOUS
<1>3. accepted'[id] > accepted[id]
  BY <1>2
<1> QED
  BY <1>1, <1>2, <1>3
     DEF Abstractly, Streams!StreamNext, Streams!Accept, PhaseMap, SentMap, SentOf

LEMMA TransmitStep ==
  ASSUME accepted \in [Ids -> Nat], NEW id \in Ids, IsUp(id),
         NEW p \in Nat, NEW r \in Nat \ {0}, p + r <= accepted[id], SentOf(id) \in Seq(Nat),
         Gone(SentOf(id), Phase(id) = "closing", p),
         SentOf(id)' = SentOf(id) \o [k \in 1..r |-> p + k],
         \A g \in Ids : Phase(g)' = Phase(g), accepted' = accepted,
         \A g \in Ids : g # id => SentOf(g)' = SentOf(g)
  PROVE  Abstractly
<1>1. PhaseMap' = PhaseMap /\ PhaseMap[id] = Phase(id) /\ SentMap[id] = SentOf(id)
  BY DEF PhaseMap, SentMap
<1>2. PICK first \in 1..accepted[id] : first = p + 1
  OBVIOUS
<1>3. PICK last \in first..accepted[id] : last = p + r
  BY <1>2
<1>4. IF Phase(id) = "open" THEN first = Len(SentOf(id)) + 1
                            ELSE first > Streams!LastOf(SentOf(id))
  <2>1. CASE Phase(id) = "open"
    <3>1. SentOf(id) = [k \in 1..p |-> k]
      BY <2>1 DEF Gone
    <3>2. Len([k \in 1..p |-> k]) = p
      OBVIOUS
    <3> QED
      BY <1>2, <2>1, <3>1, <3>2
  <2>2. CASE Phase(id) = "closing"
    <3>1. PICK l \in Nat : l = Streams!LastOf(SentOf(id))
      BY DEF Streams!LastOf
    <3>2. l <= p
      BY <2>2, <3>1 DEF Gone
    <3> QED
      BY <1>2, <2>2, <3>1, <3>2
  <2> QED
    BY <2>1, <2>2 DEF IsUp
<1>5. [k \in 1..(last - first + 1) |-> first + k - 1] = [k \in 1..r |-> p + k]
  <2>1. last - first + 1 = r /\ \A k \in 1..r : first + k - 1 = p + k
    BY <1>2, <1>3
  <2> QED
    BY <2>1
<1>6. SentMap' = [SentMap EXCEPT ![id] =
                    @ \o [k \in 1..(last - first + 1) |-> first + k - 1]]
  BY <1>5 DEF SentMap
<1>7. \E f \in 1..accepted[id] : \E l \in f..accepted[id] :
        /\ IF PhaseMap[id] = "open" THEN f = Len(SentMap[id]) + 1
                                    ELSE f > Streams!LastOf(SentMap[id])
        /\ SentMap' = [SentMap EXCEPT ![id] = @ \o [k \in 1..(l - f + 1) |-> f + k - 1]]
  BY <1>1, <1>4, <1>6
<1>8. PhaseMap[id] \in {"open", "closing"}
  BY <1>1 DEF IsUp
<1> QED
  BY <1>1, <1>7, <1>8
     DEF Abstractly, Streams!StreamNext, Streams!Transmit, PhaseMap, SentMap, SentOf

LEMMA StreamTypes ==
  ASSUME SInv
  PROVE  /\ TInv /\ TypeOK /\ accepted \in [Ids -> Nat]
         /\ wire \in [Socks -> Seq(Nat)] /\ sockOf \in [Ids -> Socks \cup {0}]
         /\ \A id \in Ids : SentOf(id) \in Seq(Nat)
<1>1. /\ TInv /\ TypeOK /\ accepted \in [Ids -> Nat]
      /\ wire \in [Socks -> Seq(Nat)] /\ sockOf \in [Ids -> Socks \cup {0}]
  BY DEF SInv, TInv, IInv, TypeOK
<1>2. ASSUME NEW id \in Ids
      PROVE  SentOf(id) \in Seq(Nat)
  <2>1. <<>> \in Seq(Nat)
    OBVIOUS
  <2> QED
    BY <1>1, <2>1 DEF SentOf
<1> QED
  BY <1>1, <1>2

\* A connection of the table is open or closing.
LEMMA UpInTable ==
  ASSUME SInv, NEW fd \in Fds, Live(fd)
  PROVE  LET id == connections[fd].id
         IN  /\ id \in Ids /\ idToFd[id] = fd /\ fd # NoFd /\ events[id] # <<>>
             /\ IsUp(id) /\ sockOf[id] \in Socks
             /\ Phase(id) = IF connections[fd].closeAfterSend THEN "closing" ELSE "open"
<1>1. PICK id : id = connections[fd].id
  OBVIOUS
<1>2. /\ id \in Ids /\ idToFd[id] = fd /\ id < nextId /\ sockOf[id] \in Socks
      /\ ConnOf(id) = connections[fd] /\ fd # NoFd
  BY <1>1, InTable, FdAssumption
<1>3. events[id] # <<>>
  BY <1>2 DEF SInv, Unborn
<1>4. Phase(id) = IF connections[fd].closeAfterSend THEN "closing" ELSE "open"
  BY <1>2, <1>3, PhaseIs
<1> QED
  BY <1>1, <1>2, <1>3, <1>4 DEF IsUp

\* A record of the table changes: its connection may begin to close.
LEMMA KeepsStream ==
  ASSUME SInv, NEW fd \in Fds, Live(fd), NEW d,
         connections' = [connections EXCEPT ![fd] = d],
         connections[fd].closeAfterSend => d.closeAfterSend,
         d.closeAfterSend \in BOOLEAN,
         UNCHANGED <<idToFd, events, sockOf, wire, accepted>>
  PROVE  Abstractly
<1>1. PICK id \in Ids : id = connections[fd].id
  BY UpInTable
<1>2. /\ idToFd[id] = fd /\ fd # NoFd /\ events[id] # <<>>
      /\ Phase(id) = IF connections[fd].closeAfterSend THEN "closing" ELSE "open"
  BY <1>1, UpInTable
<1>3. connections'[fd] = d /\ \A f \in Fds : f # fd => connections'[f] = connections[f]
  BY StreamTypes DEF TypeOK
<1>4. \A g \in Ids : SentOf(g)' = SentOf(g)
  BY DEF SentOf
<1>5. Phase(id)' = IF d.closeAfterSend THEN "closing" ELSE "open"
  BY <1>2, <1>3, PhaseIs DEF ConnOf
<1>6. ASSUME NEW g \in Ids, g # id
      PROVE  Phase(g)' = Phase(g)
  <2>1. TypeOK /\ IdsResolve
    BY DEF SInv, TInv, IInv
  <2>2. CASE idToFd[g] = NoFd
    BY <2>2, PhaseIs
  <2>3. CASE idToFd[g] # NoFd
    <3>1. idToFd[g] \in Fds /\ connections[idToFd[g]].id = g
      BY <2>1, <2>3, Resolved
    <3>2. ConnOf(g)' = ConnOf(g)
      BY <1>1, <1>3, <1>6, <3>1 DEF ConnOf
    <3>3. ConnOf(g).closeAfterSend' = ConnOf(g).closeAfterSend
      BY <3>2
    <3> QED
      BY <3>3, PhaseIs
  <2> QED
    BY <2>2, <2>3
<1>7. CASE connections[fd].closeAfterSend = d.closeAfterSend
  <2>1. Phase(id)' = Phase(id)
    BY <1>2, <1>5, <1>7
  <2> QED
    BY <1>4, <1>6, <2>1, StutterStep
<1>8. CASE connections[fd].closeAfterSend # d.closeAfterSend
  <2>1. connections[fd].closeAfterSend = FALSE /\ d.closeAfterSend = TRUE
    <3>1. connections[fd].closeAfterSend \in BOOLEAN
      BY StreamTypes, ConnectionFields DEF TypeOK
    <3> QED
      BY <1>8, <3>1
  <2>2. Phase(id) = "open" /\ Phase(id)' = "closing"
    BY <1>2, <1>5, <2>1
  <2> QED
    BY <1>4, <1>6, <2>2, BeginStep
<1> QED
  BY <1>7, <1>8

\* A connection leaves the table.
LEMMA RemovesStream ==
  ASSUME SInv, NEW fd \in Fds, Live(fd), NEW d, d.id = connections[fd].id, NEW pool, NEW e,
         RemoveConnection(fd, d, pool, e), UNCHANGED <<sockOf, wire, accepted>>
  PROVE  Abstractly
<1>1. PICK id \in Ids : id = connections[fd].id
  BY UpInTable
<1>2. idToFd[id] = fd /\ fd # NoFd /\ events[id] # <<>> /\ IsUp(id)
  BY <1>1, UpInTable
<1>3. /\ connections' = [connections EXCEPT ![fd] = NoConnection]
      /\ idToFd' = [idToFd EXCEPT ![id] = NoFd]
  BY <1>1 DEF RemoveConnection
<1>4. EventsStay
  BY RemoveEvents
<1>5. \A g \in Ids : SentOf(g)' = SentOf(g)
  BY DEF SentOf
<1>6. TypeOK /\ IdsResolve
  BY DEF SInv, TInv, IInv
<1>7. Phase(id)' = "closed"
  <2>1. idToFd'[id] = NoFd /\ events'[id] # <<>>
    BY <1>2, <1>3, <1>4, <1>6 DEF EventsStay, TypeOK
  <2> QED
    BY <2>1, PhaseIs
<1>8. ASSUME NEW g \in Ids, g # id
      PROVE  Phase(g)' = Phase(g)
  <2>1. idToFd'[g] = idToFd[g]
    BY <1>3, <1>6, <1>8 DEF TypeOK
  <2>2. (events'[g] = <<>>) <=> (events[g] = <<>>)
    BY <1>4 DEF EventsStay
  <2>3. CASE idToFd[g] = NoFd
    BY <2>1, <2>2, <2>3, PhaseIs
  <2>4. CASE idToFd[g] # NoFd
    <3>1. idToFd[g] \in Fds /\ connections[idToFd[g]].id = g
      BY <1>6, <2>4, Resolved
    <3>2. idToFd[g] # fd
      BY <1>1, <1>8, <3>1
    <3>3. connections'[idToFd[g]] = connections[idToFd[g]]
      BY <1>3, <1>6, <3>1, <3>2 DEF TypeOK
    <3>4. ConnOf(g).closeAfterSend' = ConnOf(g).closeAfterSend
      BY <2>1, <3>3 DEF ConnOf
    <3> QED
      BY <2>1, <2>2, <3>4, PhaseIs
  <2> QED
    BY <2>3, <2>4
<1>9. \A g \in Ids : Phase(g)' = IF g \in {id} THEN "closed" ELSE Phase(g)
  BY <1>7, <1>8
<1>10. {id} \in SUBSET Ids /\ {id} # {} /\ \A g \in {id} : IsUp(g)
  BY <1>2
<1> QED
  BY <1>5, <1>9, <1>10, EndStep

\* The kernel sends.
LEMMA CompletesStream ==
  ASSUME SInv, NEW i \in DOMAIN ops, NEW r \in Int, NEW hold \in BOOLEAN, Completes(i, r, hold)
  PROVE  Abstractly
<1>1. /\ Serving /\ ops[i].op = "send"
      /\ UNCHANGED <<connections, idToFd, events, sockOf, accepted>>
      /\ \/ r = -1 /\ wire' = wire
         \/ /\ r \in 1..ops[i].rem
            /\ wire' = [wire EXCEPT ![ops[i].sock] = @ \o [k \in 1..r |-> ops[i].pos + k]]
  BY DEF Completes, SendCompletes, TableSame
<1>2. \A g \in Ids : Phase(g)' = Phase(g)
  BY <1>1, PhaseIs DEF ConnOf
<1>3. CASE wire' = wire
  BY <1>1, <1>2, <1>3, StutterStep DEF SentOf
<1>4. CASE /\ r \in 1..ops[i].rem
           /\ wire' = [wire EXCEPT ![ops[i].sock] = @ \o [k \in 1..r |-> ops[i].pos + k]]
  <2>1. PICK id : id = ops[i].id
    OBVIOUS
  <2>2. PICK p : p = ops[i].pos
    OBVIOUS
  <2>3. PICK s : s = sockOf[id]
    OBVIOUS
  <2>4. PICK fd : fd = idToFd[id]
    OBVIOUS
  <2>5. PICK a : a = Active(id)
    OBVIOUS
  <2>6. /\ id \in Ids /\ Sound(id) /\ SendOK(id, ops[i]) /\ fd \in Fds /\ Live(fd)
        /\ connections[fd].id = id /\ s \in Socks /\ ops[i].sock = s /\ p \in Nat
        /\ ops[i].rem \in Int /\ a \in PendingSend /\ ConnOf(id) = connections[fd]
        /\ HasSend(connections[fd]) /\ a = connections[fd].activeSend
    BY <1>1, <2>1, <2>2, <2>3, <2>4, <2>5, OpCarries DEF ConnOf, IsActive, Active
  <2>7. p = a.start + a.offset /\ ops[i].rem = a.len - a.offset
    BY <2>2, <2>5, <2>6 DEF SendOK, Carries
  <2>8. a.start \in Nat /\ a.offset \in Nat /\ a.len \in Nat
    BY <2>6 DEF PendingSend
  <2>9. r \in Nat \ {0} /\ p + r <= a.start + a.len
    <3>1. PICK m : m = ops[i].rem
      OBVIOUS
    <3>2. m \in Int /\ m = a.len - a.offset
      BY <2>6, <2>7, <3>1
    <3>3. r \in 1..m
      BY <1>4, <3>1
    <3>4. r \in Nat \ {0} /\ r <= a.len - a.offset
      BY <2>8, <3>2, <3>3
    <3> QED
      BY <2>7, <2>8, <3>4
  <2>10. a.start + a.len <= accepted[id] /\ accepted[id] \in Nat
    <3>1. Fed(connections[fd], accepted[id])
      BY <2>6 DEF SInv, AllFed
    <3> QED
      BY <2>6, <3>1, StreamTypes DEF Fed, Upto
  <2>11. p + r <= accepted[id]
    BY <2>6, <2>8, <2>9, <2>10
  <2>12. SentOf(id) = wire[s] /\ SentOf(id) \in Seq(Nat)
    BY <2>3, <2>6, StreamTypes DEF SentOf, Socks
  <2>13. IsUp(id) /\ ((Phase(id) = "closing") <=> connections[fd].closeAfterSend)
    BY <2>6, UpInTable
  <2>14. Gone(SentOf(id), Phase(id) = "closing", p)
    <3>1. Plus(a, 0) = p
      BY <2>7, <2>8 DEF Plus
    <3>2. Gone(wire[s], connections[fd].closeAfterSend, p)
      BY <2>3, <2>5, <2>6, <3>1 DEF SendOK, Reached
    <3> QED
      BY <2>12, <2>13, <3>2 DEF Gone
  <2>15. SentOf(id)' = SentOf(id) \o [k \in 1..r |-> p + k]
    <3>1. wire'[s] = wire[s] \o [k \in 1..r |-> p + k]
      BY <1>4, <2>2, <2>6, StreamTypes
    <3>2. sockOf'[id] = s /\ s # 0
      BY <1>1, <2>3, <2>6 DEF Socks
    <3> QED
      BY <2>12, <3>1, <3>2 DEF SentOf
  <2>16. ASSUME NEW g \in Ids, g # id
         PROVE  SentOf(g)' = SentOf(g)
    <3>1. sockOf[g] # s
      BY <2>3, <2>6, <2>16 DEF SInv, SocketsOrdered, Socks
    <3>2. sockOf[g] # 0 => wire'[sockOf[g]] = wire[sockOf[g]]
      BY <1>4, <2>6, <3>1, StreamTypes
    <3> QED
      BY <1>1, <3>2 DEF SentOf
  <2> QED
    BY <1>1, <1>2, <2>6, <2>9, <2>11, <2>12, <2>13, <2>14, <2>15, <2>16, StreamTypes,
       TransmitStep
<1> QED
  BY <1>1, <1>3, <1>4

LEMMA CalmStream ==
  ASSUME SInv, Calm
  PROVE  Abstractly
<1>1. /\ \A f \in Fds : SameSends(f)
      /\ \A f, g \in Fds : Begins(f) /\ Begins(g) => f = g
      /\ EventsStay /\ UNCHANGED <<idToFd, sockOf, accepted, wire>>
  BY DEF Calm
<1>2. TypeOK /\ IdsResolve
  BY DEF SInv, TInv, IInv
<1>3. \A g \in Ids : SentOf(g)' = SentOf(g)
  BY <1>1 DEF SentOf
<1>4. ASSUME NEW g \in Ids, idToFd[g] # NoFd => ~Begins(idToFd[g])
      PROVE  Phase(g)' = Phase(g)
  <2>1. (events'[g] = <<>>) <=> (events[g] = <<>>)
    BY <1>1 DEF EventsStay
  <2>2. CASE idToFd[g] = NoFd
    BY <1>1, <2>1, <2>2, PhaseIs
  <2>3. CASE idToFd[g] # NoFd
    <3>1. idToFd[g] \in Fds
      BY <1>2, <2>3, Resolved
    <3>2. ConnOf(g).closeAfterSend' <=> ConnOf(g).closeAfterSend
      BY <1>1, <1>4, <2>3, <3>1 DEF SameSends, Begins, ConnOf
    <3> QED
      BY <1>1, <2>1, <3>2, PhaseIs
  <2> QED
    BY <2>2, <2>3
<1>5. CASE \E id \in Ids : idToFd[id] # NoFd /\ Begins(idToFd[id])
  <2>1. PICK id \in Ids : idToFd[id] # NoFd /\ Begins(idToFd[id])
    BY <1>5
  <2>2. idToFd[id] \in Fds /\ connections[idToFd[id]].id = id /\ Live(idToFd[id])
    BY <1>2, <2>1, Resolved
  <2>3. Phase(id) = "open"
    BY <2>1, <2>2, UpInTable DEF Begins
  <2>4. Phase(id)' = "closing"
    <3>1. events[id] # <<>> /\ events'[id] # <<>>
      BY <1>1, <2>2, UpInTable DEF EventsStay
    <3>2. ConnOf(id).closeAfterSend'
      BY <1>1, <2>1 DEF Begins, ConnOf
    <3> QED
      BY <1>1, <2>1, <3>1, <3>2, PhaseIs
  <2>5. ASSUME NEW g \in Ids, g # id
        PROVE  Phase(g)' = Phase(g)
    <3>1. ASSUME idToFd[g] # NoFd, Begins(idToFd[g])
          PROVE  FALSE
      <4>1. idToFd[g] \in Fds /\ connections[idToFd[g]].id = g
        BY <1>2, <3>1, Resolved
      <4>2. idToFd[g] = idToFd[id]
        BY <1>1, <2>1, <2>2, <3>1, <4>1
      <4> QED
        BY <2>2, <2>5, <4>1, <4>2
    <3> QED
      BY <1>4, <3>1
  <2> QED
    BY <1>1, <1>3, <2>3, <2>4, <2>5, BeginStep
<1>6. CASE ~ \E id \in Ids : idToFd[id] # NoFd /\ Begins(idToFd[id])
  BY <1>1, <1>3, <1>4, <1>6, StutterStep
<1> QED
  BY <1>5, <1>6

LEMMA BirthsStream ==
  ASSUME SInv, TInv', NEW fd \in Fds, Births(fd)
  PROVE  Abstractly
<1>1. PICK id : id = nextId
  OBVIOUS
<1>2. PICK s : s = fdSock[fd]
  OBVIOUS
<1>3. /\ id \in Ids /\ idToFd[id] = NoFd /\ sockOf[id] = 0 /\ events[id] = <<>> /\ s \in Socks
  BY <1>1, <1>2, BirthNext
<1>4. /\ connections' = [connections EXCEPT ![fd] = [NoConnection EXCEPT !.id = id]]
      /\ idToFd' = [idToFd EXCEPT ![id] = fd]
      /\ sockOf' = [sockOf EXCEPT ![id] = s]
      /\ events' = [events EXCEPT ![id] = Append(@, "connect")]
      /\ UNCHANGED <<accepted, wire>> /\ \A g \in Ids : sockOf[g] < s
      /\ ~Live(fd)
  BY <1>1, <1>2 DEF Births, AcceptConnection
<1>5. TypeOK /\ IdsResolve /\ events \in [Ids -> Seq({"connect", "data", "close"})]
  BY DEF SInv, TInv, IInv, TypeOK
<1>6. Phase(id) = "unborn"
  BY <1>3, PhaseIs
<1>7. Phase(id)' = "open"
  <2>1. [NoConnection EXCEPT !.id = id].closeAfterSend = FALSE
    BY DEF NoConnection
  <2>2. idToFd'[id] = fd /\ fd # NoFd
    BY <1>3, <1>4, <1>5, FdAssumption DEF TypeOK
  <2>3. connections'[fd].closeAfterSend = FALSE
    BY <1>4, <1>5, <2>1 DEF TypeOK
  <2>4. events'[id] # <<>>
    <3>1. ASSUME NEW q \in Seq({"connect", "data", "close"})
          PROVE  Append(q, "connect") # <<>>
      OBVIOUS
    <3> QED
      BY <1>3, <1>4, <1>5, <3>1
  <2>5. ConnOf(id).closeAfterSend' = FALSE
    BY <2>2, <2>3 DEF ConnOf
  <2> QED
    BY <2>2, <2>4, <2>5, PhaseIs
<1>8. ASSUME NEW g \in Ids, g # id
      PROVE  Phase(g)' = Phase(g)
  <2>1. idToFd'[g] = idToFd[g] /\ events'[g] = events[g]
    BY <1>4, <1>5, <1>8 DEF TypeOK
  <2>2. CASE idToFd[g] = NoFd
    BY <2>1, <2>2, PhaseIs
  <2>3. CASE idToFd[g] # NoFd
    <3>1. idToFd[g] \in Fds /\ Live(idToFd[g])
      BY <1>5, <2>3, Resolved
    <3>2. connections'[idToFd[g]] = connections[idToFd[g]]
      BY <1>4, <1>5, <3>1 DEF TypeOK
    <3>3. ConnOf(g).closeAfterSend' = ConnOf(g).closeAfterSend
      BY <2>1, <3>2 DEF ConnOf
    <3> QED
      BY <2>1, <3>3, PhaseIs
  <2> QED
    BY <2>2, <2>3
<1>9. ASSUME NEW g \in Ids
      PROVE  SentOf(g)' = SentOf(g)
  <2>1. CASE g = id
    <3>1. sockOf'[id] = s /\ s # 0
      BY <1>3, <1>4, StreamTypes DEF Socks
    <3>2. wire[s] = <<>>
      <4>1. \A h \in Ids : sockOf[h] # s
        BY <1>3, <1>4 DEF Socks
      <4> QED
        BY <1>3, <4>1 DEF SInv, Silent
    <3> QED
      BY <1>3, <1>4, <2>1, <3>1, <3>2 DEF SentOf
  <2>2. CASE g # id
    <3>1. sockOf'[g] = sockOf[g]
      BY <1>4, <2>2, StreamTypes
    <3> QED
      BY <1>4, <3>1 DEF SentOf
  <2> QED
    BY <2>1, <2>2
<1> QED
  BY <1>3, <1>4, <1>6, <1>7, <1>8, <1>9, OpenStep

LEMMA FeedsStream ==
  ASSUME SInv, NEW fd \in Fds, NEW d \in Connection, NEW pool \in [Slots -> Nat],
         NEW n \in Nat, Feeds(fd, d, pool, n)
  PROVE  Abstractly
<1>1. /\ Live(fd) /\ n > 0 /\ d.closeAfterSend = connections[fd].closeAfterSend
      /\ connections' = [connections EXCEPT ![fd] = d]
      /\ UNCHANGED <<idToFd, events, sockOf, wire>>
      /\ accepted' = [accepted EXCEPT ![connections[fd].id] = @ + n]
  BY DEF Feeds, Grows, Keep
<1>2. PICK id \in Ids : id = connections[fd].id
  BY <1>1, UpInTable
<1>3. IsUp(id)
  BY <1>1, <1>2, UpInTable
<1>4. \A f \in Fds : connections'[f].closeAfterSend = connections[f].closeAfterSend
  BY <1>1, StreamTypes DEF TypeOK
<1>5. ASSUME NEW g \in Ids
      PROVE  Phase(g)' = Phase(g)
  <2>1. CASE idToFd[g] = NoFd
    BY <1>1, <2>1, PhaseIs
  <2>2. CASE idToFd[g] # NoFd
    <3>1. idToFd[g] \in Fds
      BY <2>2, StreamTypes DEF TypeOK
    <3>2. ConnOf(g).closeAfterSend' = ConnOf(g).closeAfterSend
      BY <1>1, <1>4, <3>1 DEF ConnOf
    <3> QED
      BY <1>1, <3>2, PhaseIs
  <2> QED
    BY <2>1, <2>2
<1>6. \A g \in Ids : SentOf(g)' = SentOf(g)
  BY <1>1 DEF SentOf
<1> QED
  BY <1>1, <1>2, <1>3, <1>5, <1>6, StreamTypes, AcceptStep

LEMMA FailsStream ==
  ASSUME SInv, Fails
  PROVE  Abstractly
<1>1. /\ idToFd' = [id \in Ids |-> NoFd] /\ UNCHANGED <<sockOf, accepted, wire, events>>
  BY DEF Fails
<1>2. \A g \in Ids : SentOf(g)' = SentOf(g)
  BY <1>1 DEF SentOf
<1>3. PICK ending \in SUBSET Ids : ending = {id \in Ids : IsUp(id)}
  OBVIOUS
<1>4. ASSUME NEW g \in Ids
      PROVE  Phase(g)' = IF g \in ending THEN "closed" ELSE Phase(g)
  <2>1. /\ IsUp(g) <=> events[g] # <<>> /\ idToFd[g] # NoFd
        /\ ~IsUp(g) => Phase(g) = IF events[g] = <<>> THEN "unborn" ELSE "closed"
    BY PhaseIs DEF IsUp
  <2>2. Phase(g)' = IF events[g] = <<>> THEN "unborn" ELSE "closed"
    BY <1>1, PhaseIs
  <2> QED
    BY <1>3, <2>1, <2>2
<1>5. CASE ending = {}
  BY <1>1, <1>2, <1>4, <1>5, StutterStep
<1>6. CASE ending # {}
  BY <1>1, <1>2, <1>3, <1>4, <1>6, EndStep
<1> QED
  BY <1>5, <1>6

LEMMA StoresStream ==
  ASSUME SInv, NEW id \in Ids, NEW d, Stores(id, d)
  PROVE  Abstractly
<1>1. PICK fd : fd = idToFd[id]
  OBVIOUS
<1>2. PICK r : r = Cqe.result
  OBVIOUS
<1>3. /\ fd # NoFd /\ d = [ConnOf(id) EXCEPT !.activeSend.waiting = TRUE, !.activeSend.result = r]
      /\ connections' = [connections EXCEPT ![fd] = d]
      /\ UNCHANGED <<idToFd, events, sockOf, wire, accepted>>
  BY <1>1, <1>2 DEF Stores, Keep
<1>4. fd \in Fds /\ Live(fd)
  BY <1>1, <1>3, Resolved DEF SInv, TInv, IInv
<1>5. PICK c \in Connection : c = connections[fd]
  BY <1>4, InTable
<1>6. d.closeAfterSend = c.closeAfterSend
  BY <1>1, <1>3, <1>5 DEF Connection, ConnOf
<1>7. c.closeAfterSend \in BOOLEAN
  BY ConnectionFields
<1> QED
  BY <1>3, <1>4, <1>5, <1>6, <1>7, KeepsStream

LEMMA FinishesStream ==
  ASSUME SInv, NEW id \in Ids, Finishes(id)
  PROVE  Abstractly
<1>0. PICK fd \in Fds, d \in Connection, pool \in [Slots -> Nat], r \in Int :
        LET c == connections[fd]
        IN  /\ fd = idToFd[id] /\ Live(fd) /\ c.id = id /\ c \in Connection
            /\ ConnOf(id) = c /\ HasSend(c) /\ Fed(c, accepted[id])
            /\ ResultOK(id, r) /\ Follows(c, d, pool, r)
            /\ \/ HasSend(d) /\ Submit(fd, d, pool)
               \/ ~HasSend(d) /\ ~d.closeAfterSend /\ Keep(fd, d, pool) /\ UNCHANGED sq
               \/ /\ ~HasSend(d) /\ d.closeAfterSend
                  /\ RemoveConnection(fd, d, pool, TRUE) /\ UNCHANGED sq
  BY FinishesAre
<1>1. /\ Live(fd) /\ d.id = connections[fd].id
      /\ connections[fd].closeAfterSend => d.closeAfterSend
      /\ Keep(fd, d, pool) \/ RemoveConnection(fd, d, pool, TRUE)
  BY <1>0 DEF Submit, Follows
<1>2. UNCHANGED <<sockOf, wire, accepted>>
  BY DEF Finishes
<1>3. CASE Keep(fd, d, pool)
  <2>1. d.closeAfterSend \in BOOLEAN
    BY ConnectionFields
  <2> QED
    BY <1>1, <1>2, <1>3, <2>1, KeepsStream DEF Keep
<1>4. CASE RemoveConnection(fd, d, pool, TRUE)
  BY <1>1, <1>2, <1>4, RemovesStream
<1> QED
  BY <1>1, <1>3, <1>4

LEMMA EveryStep ==
  ASSUME SInv, TInv', Kinds
  PROVE  Abstractly
<1>1. ASSUME UNCHANGED <<connections, idToFd, events, sockOf, wire, accepted>>
      PROVE  Abstractly
  BY <1>1, StutterStep, PhaseIs DEF SentOf, ConnOf
<1>2. CASE Submits \/ Quits \/ \E i \in DOMAIN ops : Notifies(i)
  BY <1>1, <1>2 DEF Submits, Quits, Notifies
<1>3. ASSUME NEW fd \in Fds, Drops(fd) \/ Forced(fd)
      PROVE  Abstractly
  <2>1. PICK c : c = connections[fd]
    OBVIOUS
  <2>2. PICK p : p = free
    OBVIOUS
  <2>3. PICK e : RemoveConnection(fd, c, p, e)
    BY <1>3, <2>1, <2>2 DEF Drops, Forced
  <2>4. Live(fd) /\ UNCHANGED <<sockOf, wire, accepted>>
    BY <1>3 DEF Drops, Forced
  <2> QED
    BY <2>1, <2>3, <2>4, RemovesStream
<1> QED
  BY <1>2, <1>3, CalmStream, FailsStream, CompletesStream, BirthsStream, FeedsStream,
     FinishesStream, StoresStream DEF Kinds

LEMMA InitStream == Init => Streams!StreamInit
<1> SUFFICES ASSUME Init PROVE Streams!StreamInit
  OBVIOUS
<1>1. accepted = [id \in Ids |-> 0]
  BY DEF Init
<1>2. \A id \in Ids : Phase(id) = "unborn" /\ SentOf(id) = <<>>
  <2>1. \A id \in Ids : events[id] = <<>> /\ sockOf[id] = 0
    BY DEF Init
  <2> QED
    BY <2>1, PhaseIs DEF SentOf
<1> QED
  BY <1>1, <1>2 DEF Streams!StreamInit, SentOf

\* Refinement: the bytes of a connection leave in the order in which they were
\* accepted, without a gap until it closes, and none after its end; a partial
\* or failed send, a zero-copy notification, a retry, a close in between and a
\* stop are all steps or stutters of TcpStream.
THEOREM TcpStreamImplemented == IdsSuffice /\ Spec => ImplementsTcpStream
<1>1. ASSUME IdsSuffice PROVE Spec => ImplementsTcpStream
  <2>1. SInv /\ [Next]_vars => [Streams!StreamNext]_(Streams!streamVars)
    <3> SUFFICES ASSUME SInv, [Next]_vars
                 PROVE  [Streams!StreamNext]_(Streams!streamVars)
      OBVIOUS
    <3>1. TInv' /\ Kinds
      BY <1>1, NextTInv, EveryKind DEF SInv
    <3>2. Abstractly
      BY <3>1, EveryStep
    <3> QED
      BY <3>2 DEF Abstractly
  <2>2. Spec => []SInv
    BY <1>1, SInvHolds, PTL
  <2> QED
    BY <2>1, <2>2, InitStream, PTL DEF Spec, ImplementsTcpStream, Streams!StreamSpec
<1> QED
  BY <1>1

-----------------------------------------------------------------------------
(***************************************************************************)
(* The life of a connection: its events in order, and somebody to close it *)
(* when it only waits to be closed.                                        *)
(***************************************************************************)
Closes(c) == c.closeAfterSend => HasSend(c) \/ c.graceTicks > 0

\* Only the stop flag leads into the shutdown.
StopIsAsked == pc \in {"stop", "stopProcess", "force", "exited"} \/ ticks > 0 => shutdown

TodoEmpty == pc \in {"drain", "wait", "process", "redrain"} => todo = {}

Closers ==
  /\ pc \in {"drain", "expire", "idle", "wait", "process", "redrain"} =>
       \A fd \in Fds : Live(fd) => Closes(connections[fd]) \/ fd \in todo
  /\ pc = "stop" => \A fd \in Fds : Live(fd) => HasSend(connections[fd]) \/ fd \in todo

LInv == EventProtocol /\ StopIsAsked /\ TodoEmpty /\ Closers

-----------------------------------------------------------------------------
(***************************************************************************)
(* What a step does to the table, as far as closing is concerned.          *)
(***************************************************************************)
Still == UNCHANGED <<connections, idToFd, events>>

\* The record of a connection changes, and keeps whoever closes it.
Changes(fd) ==
  /\ fd \in Fds /\ Live(fd)
  /\ \E d \in Connection :
       /\ connections' = [connections EXCEPT ![fd] = d]
       /\ d.id = connections[fd].id /\ (Closes(connections[fd]) => Closes(d))
       /\ pc \in {"expire", "idle", "stop"} => HasSend(d)
  /\ UNCHANGED <<idToFd, events>>

Leaves(fd, e) ==
  /\ fd \in Fds /\ Live(fd)
  /\ connections' = [connections EXCEPT ![fd] = NoConnection]
  /\ idToFd' = [idToFd EXCEPT ![connections[fd].id] = NoFd]
  /\ events' = IF e THEN [events EXCEPT ![connections[fd].id] = Append(@, "close")]
                    ELSE events

LEMMA KeepChanges ==
  ASSUME NEW fd \in Fds, Live(fd), NEW d \in Connection, NEW pool, Keep(fd, d, pool),
         d.id = connections[fd].id, Closes(connections[fd]) => Closes(d),
         pc \in {"expire", "idle", "stop"} => HasSend(d)
  PROVE  Changes(fd)
  BY DEF Keep, Changes

LEMMA RemoveLeaves ==
  ASSUME NEW fd \in Fds, Live(fd), NEW d, d.id = connections[fd].id, NEW pool,
         NEW e \in BOOLEAN, RemoveConnection(fd, d, pool, e)
  PROVE  Leaves(fd, e)
  BY DEF RemoveConnection, Leaves

LEMMA CloseLife ==
  ASSUME SInv, NEW fd \in Fds, Live(fd), NEW e \in BOOLEAN, CloseTcpConnection(fd, e)
  PROVE  Changes(fd) \/ Leaves(fd, e)
<1> DEFINE c == connections[fd]
           d == [c EXCEPT !.closeAfterSend = TRUE]
<1>1. c \in Connection
  BY StreamTypes DEF TypeOK
<1>2. d \in Connection /\ d.id = c.id /\ (HasSend(c) => HasSend(d) /\ Closes(d))
  BY <1>1 DEF Connection, HasSend, Closes
<1>3. CASE HasSend(c) /\ Keep(fd, d, free)
  <2> HIDE DEF d
  <2> QED
    BY <1>2, <1>3, KeepChanges
<1>4. CASE RemoveConnection(fd, c, free, e)
  BY <1>4, RemoveLeaves
<1> QED
  BY <1>3, <1>4 DEF CloseTcpConnection

LEMMA CloseAfterSendLife ==
  ASSUME SInv, NEW fd \in Fds, Live(fd), pc \notin {"expire", "idle", "stop"},
         CloseTcpConnectionAfterSend(fd)
  PROVE  Changes(fd) \/ Leaves(fd, TRUE)
<1> DEFINE c == connections[fd]
           d == [c EXCEPT !.closeAfterSend = TRUE]
<1>1. c \in Connection /\ WellFormed(c)
  BY StreamTypes DEF TypeOK, SInv, Shape
<1>2. d \in Connection /\ d.id = c.id /\ (HasSend(c) \/ c.sendQueue # <<>> => Closes(d))
  BY <1>1 DEF Connection, HasSend, Closes, WellFormed
<1>3. CASE (HasSend(c) \/ c.sendQueue # <<>>) /\ Keep(fd, d, free)
  <2> HIDE DEF d
  <2> QED
    BY <1>2, <1>3, KeepChanges
<1>4. CASE RemoveConnection(fd, c, free, TRUE)
  BY <1>4, RemoveLeaves
<1> QED
  BY <1>3, <1>4 DEF CloseTcpConnectionAfterSend

LEMMA DeferLife ==
  ASSUME SInv, NEW fd \in Fds, Live(fd), pc \notin {"expire", "idle", "stop"},
         MustDeferRecvShutdown(connections[fd]), DeferTcpRecvShutdown(fd)
  PROVE  Changes(fd)
<1> DEFINE c == connections[fd]
           d == [c EXCEPT !.closeAfterSend = TRUE,
                          !.graceTicks = IF c.dataEventPending THEN GraceTicks ELSE @]
<1>1. c \in Connection /\ WellFormed(c)
  BY StreamTypes DEF TypeOK, SInv, Shape
<1>2. d \in Connection /\ d.id = c.id
  <2>1. PICK g : g = IF c.dataEventPending THEN GraceTicks ELSE c.graceTicks
    OBVIOUS
  <2>2. g \in 0..GraceTicks
    BY <1>1, <2>1, NumberAssumption DEF Connection
  <2>3. d = [c EXCEPT !.closeAfterSend = TRUE, !.graceTicks = g]
    BY <1>1, <2>1 DEF Connection
  <2> QED
    BY <1>1, <2>2, <2>3, SetGrace
<1>5. Closes(d)
  <2>1. CASE c.dataEventPending
    <3>1. d.graceTicks = GraceTicks
      BY <1>1, <2>1 DEF Connection
    <3> QED
      BY <3>1, NumberAssumption DEF Closes
  <2>2. CASE ~c.dataEventPending
    <3>1. HasSend(c) /\ d.activeSend = c.activeSend
      BY <1>1, <2>2 DEF Connection, WellFormed, MustDeferRecvShutdown
    <3> QED
      BY <3>1 DEF Closes, HasSend
  <2> QED
    BY <2>1, <2>2
<1>3. Keep(fd, d, free)
  BY DEF DeferTcpRecvShutdown
<1> HIDE DEF d
<1> QED
  BY <1>2, <1>3, <1>5, KeepChanges

\* An answer clears the grace period, and is itself what closes then.
LEMMA QueueLife ==
  ASSUME SInv, NEW fd \in Fds, Live(fd), pc \notin {"expire", "idle", "stop"},
         NEW n \in Nat, n > 0, QueueTcpSend(fd, n)
  PROVE  Changes(fd)
<1> DEFINE c == connections[fd]
<1>1. /\ c \in Connection /\ WellFormed(c) /\ TableTypes /\ accepted \in [Ids -> Nat]
      /\ c.id \in Ids
  BY StreamTypes, TypesSplit, UpInTable DEF TypeOK, SInv, Shape
<1>2. ASSUME NEW d, Touches(fd, d), UNCHANGED accepted
      PROVE  Changes(fd)
  <2>1. HasSend(c)
    <3>1. SUFFICES ASSUME ~HasSend(c) PROVE FALSE
      OBVIOUS
    <3> DEFINE e == [c EXCEPT !.dataEventPending = FALSE, !.graceTicks = 0]
    <3>3. ~HasSend(e) /\ e.id = c.id
      BY <1>1, <3>1 DEF Connection, HasSend
    <3>2. \/ n = 0 \/ (HasSend(e) /\ Len(e.sendQueue) >= SendQueueCapacity)
          \/ accepted' = [accepted EXCEPT ![e.id] = @ + n]
      BY DEF QueueTcpSend
    <3> HIDE DEF e
    <3>4. accepted' = [accepted EXCEPT ![e.id] = @ + n]
      BY <3>2, <3>3
    <3>5. accepted'[c.id] = accepted[c.id] + n
      BY <1>1, <3>3, <3>4
    <3> QED
      BY <1>1, <1>2, <3>5
  <2>2. d \in Connection /\ d.id = c.id /\ Closes(d) /\ Keep(fd, d, free)
    BY <1>2, <2>1 DEF Touches, Closes, HasSend
  <2> QED
    BY <2>2, KeepChanges
<1>3. ASSUME NEW d \in Connection, NEW pool, Grows(fd, d, pool, n)
      PROVE  Changes(fd)
  <2>1. d.id = c.id /\ Closes(d) /\ Keep(fd, d, pool)
    BY <1>3 DEF Grows, Closes
  <2> QED
    BY <2>1, KeepChanges
<1> QED
  BY <1>1, <1>2, <1>3, QueueCases

LEMMA SendLife ==
  ASSUME SInv, HandleSend
  PROVE  \E fd \in Fds : Changes(fd) \/ Leaves(fd, TRUE)
<1>0. pc \notin {"expire", "idle", "stop"}
  BY DEF HandleSend
<1>1. PICK id \in Ids : Finishes(id) \/ \E d : Stores(id, d)
  BY SendIs
<1>2. CASE Finishes(id)
  <2>1. PICK fd \in Fds, d \in Connection, pool \in [Slots -> Nat], r \in Int :
          /\ Live(fd) /\ connections[fd].id = id /\ HasSend(connections[fd])
          /\ Follows(connections[fd], d, pool, r)
          /\ \/ HasSend(d) /\ Submit(fd, d, pool)
             \/ ~HasSend(d) /\ ~d.closeAfterSend /\ Keep(fd, d, pool) /\ UNCHANGED sq
             \/ /\ ~HasSend(d) /\ d.closeAfterSend
                /\ RemoveConnection(fd, d, pool, TRUE) /\ UNCHANGED sq
    BY <1>2, FinishesAre, ZenonT(30)
  <2>2. d.id = connections[fd].id
    BY <2>1 DEF Follows
  <2>3. CASE HasSend(d) /\ Submit(fd, d, pool)
    BY <1>0, <2>1, <2>2, <2>3, KeepChanges DEF Submit, Closes
  <2>4. CASE ~d.closeAfterSend /\ Keep(fd, d, pool)
    BY <1>0, <2>1, <2>2, <2>4, KeepChanges DEF Closes
  <2>5. CASE RemoveConnection(fd, d, pool, TRUE)
    BY <2>1, <2>2, <2>5, RemoveLeaves
  <2> QED
    BY <2>1, <2>3, <2>4, <2>5
<1>3. ASSUME NEW d, Stores(id, d)
      PROVE  \E fd \in Fds : Changes(fd)
  <2>1. PICK fd : fd = idToFd[id]
    OBVIOUS
  <2>2. PICK r : r = Cqe.result
    OBVIOUS
  <2>3. /\ fd # NoFd /\ Cqe \in Firsts(id) /\ TypeOK /\ IdsResolve
        /\ d = [ConnOf(id) EXCEPT !.activeSend.waiting = TRUE, !.activeSend.result = r]
        /\ Keep(fd, d, free)
    BY <1>3, <2>1, <2>2, StreamTypes DEF Stores, TInv, IInv
  <2>4. /\ fd \in Fds /\ Live(fd) /\ connections[fd] \in Connection
        /\ ConnOf(id) = connections[fd]
    <3>1. idToFd[id] # NoFd /\ TypeOK /\ IdsResolve
      BY <2>1, <2>3
    <3>2. fd \in Fds /\ Live(fd)
      BY <2>1, <3>1, Resolved
    <3>3. connections[fd] \in Connection
      BY <3>1, <3>2 DEF TypeOK
    <3>4. ConnOf(id) = connections[fd]
      BY <2>1 DEF ConnOf
    <3> QED
      BY <3>2, <3>3, <3>4
  <2>5. r \in Int
    BY <2>2, <2>3 DEF Firsts, Completion
  <2>6. d \in Connection /\ d.id = connections[fd].id
    <3>1. PICK c \in Connection : c = connections[fd]
      BY <2>4
    <3>2. d = [c EXCEPT !.activeSend.waiting = TRUE, !.activeSend.result = r]
      BY <2>3, <2>4, <3>1, Zenon
    <3>3. d \in Connection /\ d.id = c.id
      BY <2>5, <3>2, ActiveUpdates, Zenon
    <3> QED
      BY <3>1, <3>3, Zenon
  <2>7. Closes(connections[fd]) => Closes(d)
    BY <2>3, <2>4, ConnectionFields DEF Connection, PendingSend, Closes, HasSend
  <2> QED
    BY <1>0, <2>3, <2>4, <2>6, <2>7, KeepChanges
<1> QED
  BY <1>1, <1>2, <1>3

-----------------------------------------------------------------------------
(***************************************************************************)
(* The steps, one kind after the other.                                    *)
(***************************************************************************)

Paced == UNCHANGED <<pc, todo, ticks, shutdown>>
Onward == (shutdown => shutdown') /\ (Running' => Running)

LEMMA PacedNext ==
  ASSUME \/ TakeCommand \/ ExecuteSend \/ ExecuteClose \/ HandleAccept \/ HandleUnknown
         \/ HandleRecvData \/ HandleRecvNoBuffer \/ HandleRecvEnd \/ HandleSend
         \/ Kernel \/ Enqueue \/ UNCHANGED vars
  PROVE  Paced
<1>1. CASE TakeCommand \/ ExecuteSend \/ ExecuteClose \/ HandleAccept \/ HandleUnknown
           \/ HandleRecvData \/ HandleRecvNoBuffer \/ HandleRecvEnd \/ HandleSend
  BY <1>1 DEF TakeCommand, ExecuteSend, ExecuteClose, HandleAccept, HandleUnknown,
              HandleRecvData, HandleRecvNoBuffer, HandleRecvEnd, HandleSend, Paced, jsVars
<1>2. CASE Kernel
  BY <1>2 DEF Kernel, KernelAccept, KernelAcceptError, KernelRecvData, KernelRecvEnd,
              KernelSend, KernelSendError, KernelNotify, KernelRead, Paced, workerVars, jsVars
<1>3. CASE Enqueue \/ UNCHANGED vars
  BY <1>3 DEF Enqueue, vars, Paced, workerVars, jsVars
<1> QED
  BY <1>1, <1>2, <1>3

LEMMA OnwardNext ==
  ASSUME TypeOK, StopIsAsked, TodoEmpty, [Next]_vars
  PROVE  Onward /\ StopIsAsked' /\ TodoEmpty'
<1>1. ticks \in Nat
  BY NumberAssumption DEF TypeOK
<1>2. CASE Paced
  BY <1>2 DEF Paced, Onward, Running, StopIsAsked, TodoEmpty
<1>3. CASE Stop
  BY <1>3 DEF Stop, workerVars, Onward, Running, StopIsAsked, TodoEmpty
<1>4. CASE CloseNext \/ ForceClose \/ WorkerFails \/ Exit
  BY <1>4 DEF CloseNext, ForceClose, WorkerFails, Exit, jsVars, Onward, Running,
              StopIsAsked, TodoEmpty
<1>5. CASE FinishCommandCompletion \/ ExpireHalfClosed \/ ExpireIdle \/ HandleRead \/ EndLoop
  BY <1>5 DEF FinishCommandCompletion, ExpireHalfClosed, ExpireIdle, HandleRead, EndLoop,
              jsVars, Onward, Running, StopIsAsked, TodoEmpty
<1>6. CASE EnterWait \/ Reap \/ StopRound \/ StopEndRound \/ StopForce
  BY <1>1, <1>6 DEF EnterWait, Reap, StopRound, StopEndRound, StopForce, jsVars, Onward,
                    Running, StopIsAsked, TodoEmpty
<1> QED
  BY <1>2, <1>3, <1>4, <1>5, <1>6, PacedNext DEF Next, Worker

-----------------------------------------------------------------------------
(***************************************************************************)
(* The events of a connection.                                             *)
(***************************************************************************)

Told(e) == \A i \in DOMAIN e : /\ (e[i] = "connect") = (i = 1)
                               /\ e[i] = "close" => i = Len(e)

LEMMA ProtocolIs ==
  EventProtocol <=>
    \A id \in Ids :
      /\ Told(events[id])
      /\ idToFd[id] # NoFd => events[id] # <<>> /\ events[id][Len(events[id])] # "close"
      /\ ~shutdown /\ Running /\ events[id] # <<>> /\ idToFd[id] = NoFd
           => events[id][Len(events[id])] = "close"
  BY DEF EventProtocol, Told

\* A further event after one that was not the last.
LEMMA ToldAppend ==
  ASSUME NEW e \in Seq({"connect", "data", "close"}), Told(e), e # <<>>, e[Len(e)] # "close",
         NEW x \in {"data", "close"}
  PROVE  LET f == Append(e, x) IN Told(f) /\ f # <<>> /\ f[Len(f)] = x
<1> DEFINE f == Append(e, x)
<1>1. /\ Len(e) \in Nat \ {0} /\ Len(f) = Len(e) + 1 /\ DOMAIN f = 1..(Len(e) + 1)
      /\ f[Len(e) + 1] = x /\ \A i \in 1..Len(e) : f[i] = e[i] /\ i \in DOMAIN e
      /\ DOMAIN e = 1..Len(e)
  OBVIOUS
<1>2. ASSUME NEW i \in DOMAIN f
      PROVE  (f[i] = "connect") = (i = 1) /\ (f[i] = "close" => i = Len(f))
  <2> HIDE DEF f
  <2>1. CASE i = Len(e) + 1
    BY <1>1, <2>1
  <2>2. CASE i \in 1..Len(e)
    <3>1. f[i] = e[i] /\ i \in DOMAIN e
      BY <1>1, <2>2
    <3>2. (e[i] = "connect") = (i = 1) /\ (e[i] = "close" => i = Len(e))
      BY <3>1 DEF Told
    <3> QED
      BY <3>1, <3>2
  <2> QED
    BY <1>1, <2>1, <2>2
<1>3. f # <<>>
  OBVIOUS
<1> QED
  BY <1>1, <1>2, <1>3 DEF Told

LEMMA SameEvents ==
  ASSUME EventProtocol, Onward, UNCHANGED <<idToFd, events>>
  PROVE  EventProtocol'
<1>1. ASSUME NEW id \in Ids
      PROVE  /\ Told(events'[id])
             /\ idToFd'[id] # NoFd => events'[id] # <<>> /\ events'[id][Len(events'[id])] # "close"
             /\ ~shutdown' /\ Running' /\ events'[id] # <<>> /\ idToFd'[id] = NoFd
                  => events'[id][Len(events'[id])] = "close"
  BY ProtocolIs DEF Onward
<1> QED
  BY <1>1 DEF EventProtocol, Told

LEMMA EventsLeave ==
  ASSUME SInv, EventProtocol, Onward, NEW fd, NEW e \in BOOLEAN, Leaves(fd, e), ~e => shutdown
  PROVE  EventProtocol'
<1>1. PICK g : g = connections[fd].id
  OBVIOUS
<1>2. /\ g \in Ids /\ idToFd[g] = fd /\ fd # NoFd /\ TypeOK
      /\ idToFd' = [idToFd EXCEPT ![g] = NoFd]
      /\ events' = IF e THEN [events EXCEPT ![g] = Append(@, "close")] ELSE events
  BY <1>1, InTable, FdAssumption DEF Leaves
<1>3. /\ events[g] \in Seq({"connect", "data", "close"}) /\ Told(events[g])
      /\ events[g] # <<>> /\ events[g][Len(events[g])] # "close"
  BY <1>2, ProtocolIs DEF TypeOK
<1>4. PICK f : f = Append(events[g], "close")
  OBVIOUS
<1>5. Told(f) /\ f # <<>> /\ f[Len(f)] = "close"
  BY <1>3, <1>4, ToldAppend
<1>6. ASSUME NEW id \in Ids
      PROVE  /\ Told(events'[id])
             /\ idToFd'[id] # NoFd => events'[id] # <<>> /\ events'[id][Len(events'[id])] # "close"
             /\ ~shutdown' /\ Running' /\ events'[id] # <<>> /\ idToFd'[id] = NoFd
                  => events'[id][Len(events'[id])] = "close"
  <2>1. CASE id = g
    <3>1. idToFd'[id] = NoFd
      BY <1>2, <2>1 DEF TypeOK
    <3>2. events'[id] = IF e THEN f ELSE events[g]
      BY <1>2, <1>4, <2>1 DEF TypeOK
    <3> QED
      BY <1>3, <1>5, <3>1, <3>2 DEF Onward
  <2>2. CASE id # g
    <3>1. idToFd'[id] = idToFd[id] /\ events'[id] = events[id]
      BY <1>2, <2>2 DEF TypeOK
    <3> QED
      BY <3>1, ProtocolIs DEF Onward
  <2> QED
    BY <2>1, <2>2
<1> QED
  BY <1>6 DEF EventProtocol, Told

LEMMA DataEvents ==
  ASSUME SInv, EventProtocol, Onward, HandleRecvData
  PROVE  EventProtocol'
<1>1. PICK g : g = Cqe.id
  OBVIOUS
<1>2. /\ TypeOK /\ idToFd' = idToFd /\ idToFd[g] # NoFd
      /\ events' = [events EXCEPT ![g] = Append(@, "data")]
  BY <1>1 DEF HandleRecvData, SInv, TInv, IInv, CqeFd
<1>3. g \in Ids
  <2>1. Cqe \in Completion /\ Cqe.op = "recv"
    BY PendingHead DEF HandleRecvData, SInv, TInv, IInv
  <2> QED
    BY <1>1, <2>1 DEF Completion
<1>4. /\ events[g] \in Seq({"connect", "data", "close"}) /\ Told(events[g])
      /\ events[g] # <<>> /\ events[g][Len(events[g])] # "close"
  BY <1>2, <1>3, ProtocolIs DEF TypeOK
<1>5. PICK f : f = Append(events[g], "data")
  OBVIOUS
<1>6. Told(f) /\ f # <<>> /\ f[Len(f)] = "data"
  BY <1>4, <1>5, ToldAppend
<1>7. ASSUME NEW id \in Ids
      PROVE  /\ Told(events'[id])
             /\ idToFd'[id] # NoFd => events'[id] # <<>> /\ events'[id][Len(events'[id])] # "close"
             /\ ~shutdown' /\ Running' /\ events'[id] # <<>> /\ idToFd'[id] = NoFd
                  => events'[id][Len(events'[id])] = "close"
  <2>1. CASE id = g
    <3>1. events'[id] = f
      BY <1>2, <1>5, <2>1 DEF TypeOK
    <3> QED
      BY <1>2, <1>6, <2>1, <3>1
  <2>2. CASE id # g
    <3>1. idToFd'[id] = idToFd[id] /\ events'[id] = events[id]
      BY <1>2, <2>2 DEF TypeOK
    <3> QED
      BY <3>1, ProtocolIs DEF Onward
  <2> QED
    BY <2>1, <2>2
<1> QED
  BY <1>7 DEF EventProtocol, Told

LEMMA AcceptEvents ==
  ASSUME SInv, EventProtocol, Onward, HandleAccept
  PROVE  EventProtocol'
<1>1. TypeOK /\ nextId \in Ids /\ events[nextId] = <<>> /\ nextId \in Int
  BY DEF SInv, TInv, IInv, TypeOK, Unborn, Ids
<1>2. CASE UNCHANGED <<idToFd, events>>
  BY <1>2, SameEvents
<1>3. ASSUME NEW fd, fd # NoFd, AcceptConnection(fd)
      PROVE  EventProtocol'
  <2>1. /\ idToFd' = [idToFd EXCEPT ![nextId] = fd]
        /\ events' = [events EXCEPT ![nextId] = Append(@, "connect")]
    BY <1>3 DEF AcceptConnection
  <2>2. events'[nextId] = <<"connect">>
    BY <1>1, <2>1 DEF TypeOK
  <2>3. Told(<<"connect">>) /\ Len(<<"connect">>) = 1
    BY DEF Told
  <2>4. ASSUME NEW id \in Ids
        PROVE  /\ Told(events'[id])
               /\ idToFd'[id] # NoFd => events'[id] # <<>> /\ events'[id][Len(events'[id])] # "close"
               /\ ~shutdown' /\ Running' /\ events'[id] # <<>> /\ idToFd'[id] = NoFd
                    => events'[id][Len(events'[id])] = "close"
    <3>1. CASE id = nextId
      <4>1. idToFd'[id] # NoFd
        BY <1>1, <1>3, <2>1, <3>1 DEF TypeOK
      <4> QED
        BY <2>2, <2>3, <3>1, <4>1
    <3>2. CASE id # nextId
      <4>1. idToFd'[id] = idToFd[id] /\ events'[id] = events[id]
        BY <1>1, <2>1, <3>2 DEF TypeOK
      <4> QED
        BY <4>1, ProtocolIs DEF Onward
    <3> QED
      BY <3>1, <3>2
  <2> QED
    BY <2>4 DEF EventProtocol, Told
<1> QED
  BY <1>2, <1>3 DEF HandleAccept, RejectConnection

LEMMA FailEvents ==
  ASSUME EventProtocol, WorkerFails
  PROVE  EventProtocol'
<1>1. events' = events /\ (\A id \in Ids : idToFd'[id] = NoFd) /\ ~Running'
  BY DEF WorkerFails, historyVars, Running
<1> QED
  BY <1>1, ProtocolIs DEF EventProtocol, Told

-----------------------------------------------------------------------------
(***************************************************************************)
(* Who closes a connection.                                                *)
(***************************************************************************)

Looping == pc \in {"drain", "expire", "idle", "wait", "process", "redrain"}
Tended(fd) == Live(fd) =>
  /\ Looping => Closes(connections[fd]) \/ fd \in todo
  /\ pc = "stop" => HasSend(connections[fd]) \/ fd \in todo

LEMMA ClosersAre == Closers <=> \A fd \in Fds : Tended(fd)
  BY DEF Closers, Tended, Looping

LEMMA TendedStays ==
  ASSUME NEW fd \in Fds, Tended(fd), connections'[fd] = connections[fd], pc' = pc,
         fd \in todo => fd \in todo'
  PROVE  Tended(fd)'
  BY DEF Tended, Looping, Live

LEMMA PacedClosers ==
  ASSUME Closers, Paced, connections' = connections
  PROVE  Closers'
  BY DEF Closers, Paced, Live

LEMMA MovesClosers ==
  ASSUME Closers, TodoEmpty, connections' = connections,
         \/ FinishCommandCompletion \/ ExpireIdle \/ HandleRead \/ EndLoop \/ EnterWait
         \/ Reap \/ StopRound \/ StopEndRound \/ StopForce \/ Exit \/ Stop
  PROVE  Closers'
<1>1. CASE Stop
  BY <1>1 DEF Stop, Closers, Live, workerVars
<1>2. CASE FinishCommandCompletion \/ ExpireIdle \/ HandleRead \/ EnterWait
  BY <1>2 DEF FinishCommandCompletion, ExpireIdle, HandleRead, EnterWait, Closers, Live
<1>3. CASE EndLoop \/ StopEndRound
  BY <1>3 DEF EndLoop, StopEndRound, Closers, Live, LiveFds, TodoEmpty
<1>4. CASE Reap \/ StopForce \/ Exit
  BY <1>4 DEF Reap, StopForce, Exit, Closers, Live
<1>5. CASE StopRound
  BY <1>5 DEF StopRound, Closers, Closes, Live
<1> QED
  BY <1>1, <1>2, <1>3, <1>4, <1>5

LEMMA ChangesClosers ==
  ASSUME TypeOK, Closers, TodoEmpty, NEW fd, Changes(fd), pc' = pc, todo \ {fd} \subseteq todo',
         fd \in todo => fd \in todo' \/ pc \in {"expire", "idle", "stop"}
  PROVE  Closers'
<1>1. PICK d \in Connection :
        /\ connections' = [connections EXCEPT ![fd] = d]
        /\ d.id = connections[fd].id /\ (Closes(connections[fd]) => Closes(d))
        /\ pc \in {"expire", "idle", "stop"} => HasSend(d)
  BY DEF Changes
<1>2. connections'[fd] = d /\ fd \in Fds /\ Live(fd)
  BY <1>1 DEF TypeOK, Changes
<1>3. Tended(fd)'
  BY <1>1, <1>2, ClosersAre DEF Tended, Looping, Closes, TodoEmpty
<1>4. ASSUME NEW f \in Fds, f # fd
      PROVE  Tended(f)'
  <2>1. connections'[f] = connections[f]
    BY <1>1, <1>4 DEF TypeOK
  <2>2. f \in todo => f \in todo'
    BY <1>4
  <2> QED
    BY <2>1, <2>2, ClosersAre, TendedStays
<1>5. \A f \in Fds : Tended(f)'
  BY <1>3, <1>4
<1> QED
  BY <1>5 DEF Closers, Tended, Looping

LEMMA LeavesClosers ==
  ASSUME TypeOK, Closers, NEW fd, NEW e, Leaves(fd, e), pc' = pc, todo \ {fd} \subseteq todo'
  PROVE  Closers'
<1>1. connections' = [connections EXCEPT ![fd] = NoConnection] /\ fd \in Fds
  BY DEF Leaves
<1>2. Tended(fd)'
  BY <1>1 DEF Tended, TypeOK, Live, NoConnection
<1>3. ASSUME NEW f \in Fds, f # fd
      PROVE  Tended(f)'
  <2>1. connections'[f] = connections[f]
    BY <1>1, <1>3 DEF TypeOK
  <2>2. f \in todo => f \in todo'
    BY <1>3
  <2> QED
    BY <2>1, <2>2, ClosersAre, TendedStays
<1>4. \A f \in Fds : Tended(f)'
  BY <1>2, <1>3
<1> QED
  BY <1>4 DEF Closers, Tended, Looping

\* Data changes nothing about closing.
LEMMA DataClosers ==
  ASSUME SInv, Closers, TodoEmpty, HandleRecvData
  PROVE  Closers'
<1>1. PICK fd : fd = CqeFd
  OBVIOUS
<1>2. TypeOK /\ connections' = [connections EXCEPT ![fd].dataEventPending = TRUE]
      /\ pc' = pc /\ todo' = todo
  BY <1>1 DEF HandleRecvData, SInv, TInv, IInv
<1>3. ASSUME NEW f \in Fds
      PROVE  /\ connections'[f].id = connections[f].id
             /\ HasSend(connections'[f]) <=> HasSend(connections[f])
             /\ Closes(connections'[f]) <=> Closes(connections[f])
  BY <1>2 DEF TypeOK, Connection, HasSend, Closes
<1> QED
  BY <1>2, <1>3 DEF Closers, Live

LEMMA AcceptClosers ==
  ASSUME SInv, Closers, HandleAccept
  PROVE  Closers'
<1>1. TypeOK /\ pc' = pc /\ todo' = todo /\ pc = "process"
  BY DEF HandleAccept, SInv, TInv, IInv
<1>2. CASE connections' = connections
  BY <1>1, <1>2 DEF Closers, Live
<1>3. ASSUME NEW fd, AcceptConnection(fd)
      PROVE  Closers'
  <2>1. PICK d : d = [NoConnection EXCEPT !.id = nextId]
    OBVIOUS
  <2>2. connections' = [connections EXCEPT ![fd] = d] /\ ~d.closeAfterSend
    BY <1>3, <2>1 DEF AcceptConnection, NoConnection
  <2>3. \A f \in Fds : connections'[f] = d \/ connections'[f] = connections[f]
    BY <1>1, <2>2 DEF TypeOK
  <2> QED
    BY <1>1, <2>2, <2>3 DEF Closers, Live, Closes
<1> QED
  BY <1>2, <1>3 DEF HandleAccept, RejectConnection

LEMMA ExpireClosers ==
  ASSUME SInv, Closers, TodoEmpty, ExpireHalfClosed
  PROVE  Closers'
<1>1. /\ TypeOK /\ pc = "drain" /\ todo = {} /\ pc' = "expire"
      /\ todo' = {fd \in Fds : Expires(connections[fd]) /\ connections[fd].graceTicks = 1}
  BY DEF ExpireHalfClosed, TodoEmpty, SInv, TInv, IInv
<1>2. ASSUME NEW fd \in Fds, connections'[fd].id # 0
      PROVE  Closes(connections'[fd]) \/ fd \in todo'
  <2>1. PICK c \in Connection : c = connections[fd]
    BY <1>1 DEF TypeOK
  <2>2. connections'[fd] = IF Expires(c) THEN [c EXCEPT !.graceTicks = @ - 1] ELSE c
    BY <2>1 DEF ExpireHalfClosed
  <2>3. c.graceTicks \in Nat
    BY <2>1, NumberAssumption DEF Connection
  <2>4. CASE Expires(c)
    <3>1. /\ connections'[fd].id = c.id /\ connections'[fd].graceTicks = c.graceTicks - 1
          /\ c.graceTicks > 0
      BY <2>1, <2>2, <2>4 DEF Connection, Expires
    <3> QED
      BY <1>1, <2>1, <2>3, <2>4, <3>1 DEF Closes
  <2>5. CASE ~Expires(c)
    <3>1. Closes(c)
      BY <1>1, <1>2, <2>1, <2>2, <2>5 DEF Closers, Live
    <3> QED
      BY <2>2, <2>5, <3>1
  <2> QED
    BY <2>4, <2>5
<1> QED
  BY <1>1, <1>2 DEF Closers, Live

-----------------------------------------------------------------------------
(***************************************************************************)
(* Every send of a command carries bytes, when JavaScript's do.            *)
(***************************************************************************)

FullStep == {s \in Step : s.op = "send" => s.len # 0}
AllFull == work \in Seq(FullStep) /\ commands \in Seq(Seq(FullStep))

LEMMA EnqueueFull ==
  ASSUME 0 \notin Lens, AllFull, Enqueue
  PROVE  AllFull'
<1>1. PICK shape \in Shapes : \E steps \in CommandSteps(shape) :
        commands' = Append(commands, steps)
  BY DEF Enqueue
<1>2. \A steps \in CommandSteps(shape) : steps \in Seq(FullStep)
  <2>1. /\ KnownIds \subseteq Ids /\ Lens \subseteq Nat
        /\ shape \in {"send", "sendAndClose", "close", "sendBatch", "sendBatchAndClose"}
    BY NumberAssumption, OptionAssumption DEF KnownIds
  <2>2. \A i \in KnownIds : /\ \A n \in Lens : SendStep(i, n) \in FullStep
                            /\ CloseStep(i) \in FullStep
                            /\ CloseAfterSendStep(i) \in FullStep
    BY <2>1 DEF SendStep, CloseStep, CloseAfterSendStep, Step, FullStep
  <2> HIDE DEF KnownIds
  <2>3. ASSUME shape = "send", NEW steps \in CommandSteps(shape)
        PROVE  steps \in Seq(FullStep)
    <3>1. PICK i \in KnownIds, n \in Lens :
            steps = <<SendStep(i, n)>>
      BY <2>3 DEF CommandSteps
    <3> QED
      BY <2>2, <3>1
  <2>4. ASSUME shape = "sendAndClose", NEW steps \in CommandSteps(shape)
        PROVE  steps \in Seq(FullStep)
    <3>1. PICK i \in KnownIds, n \in Lens :
            steps = <<SendStep(i, n), CloseAfterSendStep(i)>>
      BY <2>4 DEF CommandSteps
    <3> QED
      BY <2>2, <3>1
  <2>5. ASSUME shape = "close", NEW steps \in CommandSteps(shape)
        PROVE  steps \in Seq(FullStep)
    <3>1. PICK i \in KnownIds :
            steps = <<CloseStep(i)>>
      BY <2>5 DEF CommandSteps
    <3> QED
      BY <2>2, <3>1
  <2>6. ASSUME shape = "sendBatch", NEW steps \in CommandSteps(shape)
        PROVE  steps \in Seq(FullStep)
    <3>1. PICK i \in KnownIds, j \in KnownIds, m \in Lens, n \in Lens :
            steps = <<SendStep(i, m), SendStep(j, n)>>
      BY <2>6 DEF CommandSteps
    <3> QED
      BY <2>2, <3>1
  <2>7. ASSUME shape = "sendBatchAndClose", NEW steps \in CommandSteps(shape)
        PROVE  steps \in Seq(FullStep)
    <3>1. PICK i \in KnownIds, j \in KnownIds, m \in Lens, n \in Lens :
            steps = <<SendStep(i, m), SendStep(j, n), CloseAfterSendStep(i),
              CloseAfterSendStep(j)>>
      BY <2>7 DEF CommandSteps
    <3> QED
      BY <2>2, <3>1
  <2> QED
    BY <2>1, <2>3, <2>4, <2>5, <2>6, <2>7
<1>3. work' = work
  BY DEF Enqueue, workerVars
<1> QED
  BY <1>1, <1>2, <1>3 DEF AllFull

LEMMA FullNext ==
  ASSUME 0 \notin Lens, AllFull, [Next]_vars
  PROVE  AllFull'
<1>1. CASE TakeCommand
  <2>1. PICK q : q = commands
    OBVIOUS
  <2>2. q \in Seq(Seq(FullStep)) /\ q # <<>> /\ work' = Head(q) /\ commands' = Tail(q)
    BY <1>1, <2>1 DEF TakeCommand, AllFull
  <2> QED
    BY <2>2 DEF AllFull
<1>2. CASE ExecuteSend \/ ExecuteClose
  <2>1. work # <<>> /\ work' = Tail(work) /\ commands' = commands
    BY <1>2 DEF ExecuteSend, ExecuteClose, jsVars
  <2> QED
    BY <2>1 DEF AllFull
<1>3. ASSUME UNCHANGED <<work, commands>>
      PROVE  AllFull'
  BY <1>3 DEF AllFull
<1>4. CASE Kernel \/ Stop \/ WorkerFails \/ UNCHANGED vars
  BY <1>3, <1>4 DEF Kernel, KernelAccept, KernelAcceptError, KernelRecvData, KernelRecvEnd,
       KernelSend, KernelSendError, KernelNotify, KernelRead, workerVars, jsVars, Stop,
       WorkerFails, vars
<1>5. CASE FinishCommandCompletion \/ ExpireHalfClosed \/ ExpireIdle \/ CloseNext
           \/ EnterWait \/ Reap \/ EndLoop \/ StopRound \/ StopEndRound \/ StopForce
           \/ ForceClose \/ Exit
  BY <1>3, <1>5 DEF FinishCommandCompletion, ExpireHalfClosed, ExpireIdle, CloseNext,
       EnterWait, Reap, EndLoop, StopRound, StopEndRound, StopForce, ForceClose, Exit, jsVars
<1>6. CASE HandleAccept \/ HandleUnknown \/ HandleRecvData \/ HandleRecvNoBuffer
           \/ HandleRecvEnd \/ HandleSend \/ HandleRead
  BY <1>3, <1>6 DEF HandleAccept, HandleUnknown, HandleRecvData, HandleRecvNoBuffer,
       HandleRecvEnd, HandleSend, HandleRead, jsVars
<1> QED
  BY <1>1, <1>2, <1>4, <1>5, <1>6, EnqueueFull DEF Next, Worker

-----------------------------------------------------------------------------
LEMMA StillNext ==
  ASSUME \/ TakeCommand \/ HandleUnknown \/ HandleRecvNoBuffer \/ Kernel \/ Enqueue
         \/ UNCHANGED vars \/ FinishCommandCompletion \/ ExpireIdle \/ HandleRead \/ EndLoop
         \/ EnterWait \/ Reap \/ StopRound \/ StopEndRound \/ StopForce \/ Exit \/ Stop
  PROVE  Still
<1>1. CASE Kernel
  BY <1>1 DEF Kernel, KernelAccept, KernelAcceptError, KernelRecvData, KernelRecvEnd,
       KernelSend, KernelSendError, KernelNotify, KernelRead, Still, tableVars, historyVars
<1>2. CASE TakeCommand \/ HandleUnknown \/ HandleRecvNoBuffer \/ Enqueue \/ UNCHANGED vars
           \/ HandleRead \/ Stop
  BY <1>2 DEF TakeCommand, HandleUnknown, HandleRecvNoBuffer, Enqueue, vars, HandleRead, Stop,
       Still, tableVars, historyVars
<1>3. CASE FinishCommandCompletion \/ ExpireIdle \/ EndLoop \/ EnterWait \/ Reap \/ StopRound
           \/ StopEndRound \/ StopForce \/ Exit
  BY <1>3 DEF FinishCommandCompletion, ExpireIdle, EndLoop, EnterWait, Reap, StopRound,
       StopEndRound, StopForce, Exit, Still, tableVars, historyVars
<1> QED
  BY <1>1, <1>2, <1>3

\* The steps that work on one connection.
LEMMA OneLife ==
  ASSUME SInv, LInv, [Next]_vars, pc' = pc, NEW fd, NEW e \in BOOLEAN,
         Changes(fd) \/ Leaves(fd, e), ~e => shutdown, todo \ {fd} \subseteq todo',
         fd \in todo => fd \in todo' \/ pc \in {"expire", "idle", "stop"}
  PROVE  LInv'
<1>1. TypeOK /\ Onward /\ StopIsAsked' /\ TodoEmpty'
  BY OnwardNext DEF LInv, SInv, TInv, IInv
<1>2. CASE Changes(fd)
  BY <1>1, <1>2, SameEvents, ChangesClosers DEF LInv, Changes
<1>3. CASE Leaves(fd, e)
  BY <1>1, <1>3, EventsLeave, LeavesClosers DEF LInv
<1> QED
  BY <1>2, <1>3

LEMMA NextLife ==
  ASSUME SInv, LInv, AllFull, [Next]_vars
  PROVE  LInv'
<1>1. TypeOK /\ Onward /\ StopIsAsked' /\ TodoEmpty' /\ EventProtocol /\ TodoEmpty /\ Closers
  BY OnwardNext DEF LInv, SInv, TInv, IInv
<1>2. CASE \/ TakeCommand \/ HandleUnknown \/ HandleRecvNoBuffer \/ Kernel \/ Enqueue
           \/ UNCHANGED vars
  BY <1>1, <1>2, StillNext, PacedNext, SameEvents, PacedClosers DEF LInv, Still
<1>3. CASE \/ FinishCommandCompletion \/ ExpireIdle \/ HandleRead \/ EndLoop \/ EnterWait
           \/ Reap \/ StopRound \/ StopEndRound \/ StopForce \/ Exit \/ Stop
  BY <1>1, <1>3, StillNext, SameEvents, MovesClosers DEF LInv, Still
<1>4. CASE HandleAccept
  BY <1>1, <1>4, AcceptEvents, AcceptClosers DEF LInv
<1>5. CASE HandleRecvData
  BY <1>1, <1>5, DataEvents, DataClosers DEF LInv
<1>6. CASE WorkerFails
  <2>1. Closers'
    BY <1>6 DEF WorkerFails, Closers
  <2> QED
    BY <1>1, <1>6, <2>1, FailEvents DEF LInv
<1>7. CASE ExpireHalfClosed
  <2>1. UNCHANGED <<idToFd, events>>
    BY <1>7 DEF ExpireHalfClosed, historyVars
  <2> QED
    BY <1>1, <1>7, <2>1, SameEvents, ExpireClosers DEF LInv
<1>8. ASSUME NEW fd, Changes(fd) \/ Leaves(fd, TRUE), UNCHANGED <<pc, todo>>
      PROVE  LInv'
  BY <1>8, OneLife
<1>9. ASSUME UNCHANGED <<pc, todo, connections, idToFd, events, ticks, shutdown>>
      PROVE  LInv'
  BY <1>1, <1>9, SameEvents, PacedClosers DEF LInv, Paced
<1>10. CASE ExecuteSend
  <2>1. PICK fd : fd = idToFd[Head(work).id]
    OBVIOUS
  <2>2. PICK n : n = Head(work).len
    OBVIOUS
  <2>3. /\ pc \notin {"expire", "idle", "stop"} /\ Head(work) \in FullStep
        /\ Head(work).op = "send" /\ UNCHANGED <<pc, todo, ticks, shutdown>>
    <3>1. work # <<>> /\ Head(work).op = "send" /\ UNCHANGED <<pc, todo, ticks, shutdown>>
      BY <1>10 DEF ExecuteSend, jsVars
    <3>2. pc \in {"drain", "redrain"}
      BY <3>1 DEF SInv, TInv, IInv, Phases
    <3> QED
      BY <3>1, <3>2 DEF AllFull
  <2>4. n \in Nat /\ n > 0 /\ Head(work).id \in Ids
    BY <2>2, <2>3 DEF FullStep, Step
  <2>5. CASE UNCHANGED <<connections, idToFd, events>>
    BY <1>9, <2>3, <2>5
  <2>6. CASE fd # NoFd /\ Live(fd) /\ QueueTcpSend(fd, n)
    <3>1. fd \in Fds
      BY <1>1, <2>1, <2>4, <2>6 DEF TypeOK
    <3> QED
      BY <1>8, <2>3, <2>4, <2>6, <3>1, QueueLife
  <2> QED
    BY <1>10, <2>1, <2>2, <2>5, <2>6 DEF ExecuteSend
<1>11. CASE ExecuteClose
  <2>1. PICK fd : fd = idToFd[Head(work).id]
    OBVIOUS
  <2>3. /\ pc \notin {"expire", "idle", "stop"} /\ Head(work).id \in Ids
        /\ UNCHANGED <<pc, todo, ticks, shutdown>>
    <3>1. work # <<>> /\ UNCHANGED <<pc, todo, ticks, shutdown>>
      BY <1>11 DEF ExecuteClose, jsVars
    <3>2. pc \in {"drain", "redrain"}
      BY <3>1 DEF SInv, TInv, IInv, Phases
    <3>3. Head(work) \in Step
      BY <1>1, <3>1 DEF TypeOK
    <3> QED
      BY <3>1, <3>2, <3>3 DEF Step
  <2>5. CASE UNCHANGED <<connections, idToFd, events>>
    BY <1>9, <2>3, <2>5
  <2>6. CASE /\ fd # NoFd /\ Live(fd)
             /\ CloseTcpConnection(fd, TRUE) \/ CloseTcpConnectionAfterSend(fd)
    <3>1. fd \in Fds
      BY <1>1, <2>1, <2>3, <2>6 DEF TypeOK
    <3> QED
      BY <1>8, <2>3, <2>6, <3>1, CloseLife, CloseAfterSendLife
  <2> QED
    BY <1>11, <2>1, <2>5, <2>6 DEF ExecuteClose
<1>12. CASE HandleRecvEnd
  <2>1. PICK fd : fd = CqeFd
    OBVIOUS
  <2>2. /\ pc = "process" /\ batch # <<>> /\ Cqe.op = "recv" /\ UNCHANGED <<pc, todo>>
        /\ fd # NoFd /\ connections[fd].id = Cqe.id
        /\ IF MustDeferRecvShutdown(connections[fd]) THEN DeferTcpRecvShutdown(fd)
           ELSE CloseTcpConnection(fd, TRUE)
    BY <1>12, <2>1 DEF HandleRecvEnd
  <2>3. Cqe.id \in Ids /\ Cqe.id # 0
    BY <2>2, PendingHead, NumberAssumption DEF SInv, TInv, IInv, Completion, Ids
  <2>4. fd \in Fds /\ Live(fd)
    BY <1>1, <2>1, <2>2, <2>3 DEF CqeFd, TypeOK, Live
  <2> QED
    BY <1>8, <2>2, <2>4, DeferLife, CloseLife
<1>13. CASE HandleSend
  <2>1. UNCHANGED <<pc, todo>>
    BY <1>13 DEF HandleSend
  <2> QED
    BY <1>8, <1>13, <2>1, SendLife
<1>14. CASE CloseNext
  <2>1. PICK fd \in todo :
          /\ pc' = pc /\ todo' = todo \ {fd} /\ pc \in {"expire", "idle", "stop"}
          /\ IF Live(fd) THEN CloseTcpConnection(fd, EmitsClose)
             ELSE UNCHANGED <<connections, idToFd, events>>
          /\ UNCHANGED <<ticks, shutdown>>
    BY <1>14 DEF CloseNext, jsVars
  <2>2. fd \in Fds
    BY <1>1, <2>1 DEF TypeOK
  <2>3. CASE Live(fd)
    <3>1. PICK e \in BOOLEAN : e = EmitsClose
      BY DEF EmitsClose
    <3>2. ~e => shutdown
      BY <3>1 DEF EmitsClose, LInv, StopIsAsked
    <3>3. Changes(fd) \/ Leaves(fd, e)
      BY <2>1, <2>2, <2>3, <3>1, CloseLife
    <3> QED
      BY <2>1, <3>2, <3>3, OneLife
  <2>4. CASE ~Live(fd)
    <3>1. UNCHANGED <<connections, idToFd, events>>
      BY <2>1, <2>4
    <3>2. ASSUME NEW f \in Fds PROVE Tended(f)'
      <4>1. CASE f = fd
        BY <2>4, <3>1, <4>1 DEF Tended, Live
      <4>2. CASE f # fd
        BY <1>1, <2>1, <3>1, <4>2, ClosersAre, TendedStays
      <4> QED
        BY <4>1, <4>2
    <3>3. Closers'
      BY <3>2 DEF Closers, Tended, Looping
    <3> QED
      BY <1>1, <3>1, <3>3, SameEvents DEF LInv
  <2> QED
    BY <2>3, <2>4
<1>15. CASE ForceClose
  <2>1. PICK fd \in todo :
          /\ pc = "force" /\ pc' = pc /\ todo' = todo \ {fd}
          /\ RemoveConnection(fd, connections[fd], free, FALSE)
    BY <1>15 DEF ForceClose
  <2>2. fd \in Fds /\ Live(fd) /\ shutdown
    BY <1>1, <2>1 DEF TypeOK, SInv, TInv, IInv, ForceTodo, LInv, StopIsAsked
  <2>3. PICK c : c = connections[fd]
    OBVIOUS
  <2>4. PICK p : p = free
    OBVIOUS
  <2>5. RemoveConnection(fd, c, p, FALSE)
    BY <2>1, <2>3, <2>4
  <2>6. Leaves(fd, FALSE)
    BY <2>2, <2>3, <2>5, RemoveLeaves
  <2>7. Closers'
    BY <2>1 DEF Closers
  <2> QED
    BY <1>1, <2>2, <2>6, <2>7, EventsLeave DEF LInv
<1> QED
  BY <1>2, <1>3, <1>4, <1>5, <1>6, <1>7, <1>10, <1>11, <1>12, <1>13, <1>14, <1>15
     DEF Next, Worker

LEMMA InitLife == Init => LInv /\ AllFull
<1> SUFFICES ASSUME Init PROVE LInv /\ AllFull
  OBVIOUS
<1>1. \A id \in Ids : events[id] = <<>> /\ idToFd[id] = NoFd
  BY DEF Init
<1>2. EventProtocol
  BY <1>1 DEF EventProtocol
<1>3. \A fd \in Fds : ~Live(fd)
  BY DEF Init, Live, NoConnection
<1>4. StopIsAsked /\ TodoEmpty
  BY DEF Init, StopIsAsked, TodoEmpty
<1>5. AllFull
  BY DEF Init, AllFull
<1> QED
  BY <1>2, <1>3, <1>4, <1>5 DEF LInv, Closers

LEMMA ClosingTold ==
  ASSUME TypeOK, LInv
  PROVE  ConnectionLife
<1>1. ASSUME pc \notin {"stop", "stopProcess", "force", "exited", "failed"},
             NEW fd \in LiveFds, connections[fd].closeAfterSend
      PROVE  HasSend(connections[fd]) \/ connections[fd].graceTicks > 0 \/ fd \in todo
  <2>1. pc \in {"drain", "expire", "idle", "wait", "process", "redrain"}
    BY <1>1 DEF TypeOK, PCs
  <2>2. fd \in Fds /\ Live(fd)
    BY <1>1 DEF LiveFds
  <2> QED
    BY <1>1, <2>1, <2>2 DEF LInv, Closers, Closes
<1> QED
  BY <1>1 DEF LInv, ConnectionLife, ClosingHasCloser

\* ConnectionLife: a connection's events come in order and the close event last
\* and once, and whoever only waits to be closed has somebody to close it, after
\* any race of answers, ends of stream, timers, commands and the stop.  A client
\* that sends empty payloads can break it (an empty answer ends the grace
\* period and sends nothing), hence the second hypothesis.
THEOREM ConnectionsLive == IdsSuffice /\ 0 \notin Lens /\ Spec => []ConnectionLife
<1>1. ASSUME IdsSuffice, 0 \notin Lens PROVE Spec => []ConnectionLife
  <2>1. SInv /\ LInv /\ AllFull /\ [Next]_vars => LInv' /\ AllFull'
    BY <1>1, NextLife, FullNext
  <2>2. SInv /\ LInv => ConnectionLife
    BY ClosingTold DEF SInv, TInv, IInv
  <2>3. Spec => []SInv
    BY <1>1, SInvHolds, PTL
  <2>4. Init => LInv /\ AllFull
    BY InitLife
  <2> QED
    BY <2>1, <2>2, <2>3, <2>4, PTL DEF Spec
<1> QED
  BY <1>1

-----------------------------------------------------------------------------
(***************************************************************************)
(* What stays armed: the accept, the read of the eventfd, and the receive  *)
(* of every open connection.  A receive, the accept or the read is armed   *)
(* while an entry waits, an operation runs, or the completion that ended   *)
(* it is still to be processed.                                            *)
(***************************************************************************)
AnyId == Ids \cup {0}
EntriesOf(op, I) == {e \in Entry : e.op = op /\ e.id \in I}
OpsOf(op, I) == {o \in Operation : o.op = op /\ o.id \in I}
EndsOf(op, I) == {e \in Completion : e.op = op /\ e.id \in I /\ ~e.more}

InQueue(op, I) == Cnt(sq, EntriesOf(op, I))
InRing(op, I) == Cnt(ops, OpsOf(op, I))
Ended(op, I) == Cnt(Pending, EndsOf(op, I))
Armed(op, I) == InQueue(op, I) + InRing(op, I) + Ended(op, I)

\* What is counted: the accept and the read, which are nobody's, and receives.
Counted(op, I) == \/ op \in {"accept", "read"} /\ I = AnyId
                  \/ op = "recv" /\ I \subseteq Ids

\* A read is never multishot, and the end of a stream ends the receive.
Lasts(e) == /\ e.op = "read" => ~e.more
            /\ e.op = "recv" /\ e.result <= 0 => ~e.more
EndsAreLast == \A e \in Elems(Pending) : Lasts(e)

RecvArmed(id) ==
  /\ Armed("recv", {id}) <= 1
  /\ Phase(id) = "open" => Armed("recv", {id}) = 1
  /\ Phase(id) = "unborn" => Armed("recv", {id}) = 0

AInv == Listening =>
  /\ EndsAreLast
  /\ Armed("accept", AnyId) = 1
  /\ Armed("read", AnyId) + Bit(pc = "redrain") = 1
  /\ \A id \in Ids : RecvArmed(id)

LEMMA ArmedType ==
  ASSUME TypeOK, NEW op, NEW I
  PROVE  /\ InQueue(op, I) \in Nat /\ InRing(op, I) \in Nat /\ Ended(op, I) \in Nat
         /\ Armed(op, I) \in Nat
<1>1. sq \in Seq(Entry) /\ ops \in Seq(Operation) /\ Pending \in Seq(Completion)
  BY PendingType DEF TypeOK
<1>2. InQueue(op, I) \in Nat
  BY <1>1, AtFinite DEF InQueue
<1>3. InRing(op, I) \in Nat
  BY <1>1, AtFinite DEF InRing
<1>4. Ended(op, I) \in Nat
  BY <1>1, AtFinite DEF Ended
<1> QED
  BY <1>2, <1>3, <1>4 DEF Armed

\* Entries that the worker pushes.
LEMMA Pushed ==
  ASSUME TypeOK, NEW e \in Entry, sq' = Append(sq, e), NEW op, NEW I
  PROVE  InQueue(op, I)' = InQueue(op, I) + Bit(e \in EntriesOf(op, I))
<1>1. sq \in Seq(Entry)
  BY DEF TypeOK
<1>2. Cnt(Append(sq, e), EntriesOf(op, I)) = Cnt(sq, EntriesOf(op, I)) + Bit(e \in EntriesOf(op, I))
  BY <1>1, CntAppend
<1> QED
  BY <1>2 DEF InQueue

LEMMA Counts ==
  ASSUME NEW op, NEW I, Counted(op, I), NEW fd \in Fds, NEW id \in Ids
  PROVE  /\ AcceptEntry \in Entry /\ ReadEntry \in Entry /\ RecvEntry(fd, id) \in Entry
         /\ Bit(AcceptEntry \in EntriesOf(op, I)) = Bit(op = "accept")
         /\ Bit(ReadEntry \in EntriesOf(op, I)) = Bit(op = "read")
         /\ Bit(RecvEntry(fd, id) \in EntriesOf(op, I)) = Bit(op = "recv" /\ id \in I)
<1>1. id # 0 /\ fd # NoFd
  BY NumberAssumption, FdAssumption DEF Ids
<1>2. /\ AcceptEntry \in Entry /\ ReadEntry \in Entry /\ RecvEntry(fd, id) \in Entry
      /\ AcceptEntry.op = "accept" /\ AcceptEntry.id = 0
      /\ ReadEntry.op = "read" /\ ReadEntry.id = 0
      /\ RecvEntry(fd, id).op = "recv" /\ RecvEntry(fd, id).id = id
  <2>1. AcceptEntry \in Entry /\ ReadEntry \in Entry /\ RecvEntry(fd, id) \in Entry
    BY EntryTypes
  <2> QED
    BY <2>1 DEF AcceptEntry, ReadEntry, RecvEntry
<1>3. 0 \in AnyId
  BY DEF AnyId
<1> QED
  BY <1>2, <1>3 DEF EntriesOf, Counted, Bit

LEMMA ArmedSame ==
  ASSUME UNCHANGED <<sq, ops>>, Pending' = Pending, NEW op, NEW I
  PROVE  Armed(op, I)' = Armed(op, I) /\ (EndsAreLast => EndsAreLast')
  BY DEF Armed, InQueue, InRing, Ended, EndsAreLast

\* A completion is read.
LEMMA ArmedPops ==
  ASSUME TypeOK, TypeOK', Pops, ops' = ops, NEW op, NEW I
  PROVE  /\ Armed(op, I)' = InQueue(op, I)' + InRing(op, I) + Ended(op, I)
                              - Bit(Cqe \in EndsOf(op, I))
         /\ EndsAreLast => EndsAreLast' /\ Lasts(Cqe)
<1>1. /\ Pending \in Seq(Completion) /\ Pending # <<>> /\ Head(Pending) = Cqe
      /\ Pending' = Tail(Pending)
  <2>1. /\ Pending \in Seq(Completion) /\ Pending # <<>> /\ Pending[1] = Cqe
        /\ Pending' = Tail(Pending)
    BY PendingType, PendingHead, PendingTail DEF Pops
  <2> QED
    BY <2>1
<1>2. Cnt(Tail(Pending), EndsOf(op, I)) = Cnt(Pending, EndsOf(op, I)) - Bit(Head(Pending) \in EndsOf(op, I))
  BY <1>1, CntTail
<1>3. Elems(Tail(Pending)) \subseteq Elems(Pending) /\ Head(Pending) \in Elems(Pending)
  BY <1>1, ElemsOf
<1>4. Ended(op, I)' = Ended(op, I) - Bit(Cqe \in EndsOf(op, I)) /\ InRing(op, I)' = InRing(op, I)
  BY <1>1, <1>2 DEF Ended, InRing
<1>5. InRing(op, I) \in Nat /\ Ended(op, I) \in Nat /\ InQueue(op, I)' \in Int
  <2>1. InRing(op, I) \in Nat /\ Ended(op, I) \in Nat
    BY ArmedType
  <2>2. Cnt(sq', EntriesOf(op, I)) \in Nat
    BY AtFinite DEF TypeOK
  <2> QED
    BY <2>1, <2>2 DEF InQueue
<1> QED
  BY <1>1, <1>3, <1>4, <1>5 DEF Armed, EndsAreLast

\* The kernel takes the entries.
LEMMA ArmedSubmit ==
  ASSUME TypeOK, SubmitRing, Pending' = Pending, NEW op, NEW I
  PROVE  Armed(op, I)' = Armed(op, I) /\ (EndsAreLast => EndsAreLast')
<1> DEFINE b == [i \in DOMAIN sq |-> Bind(sq[i])]
<1>1. /\ sq \in Seq(Entry) /\ ops \in Seq(Operation) /\ ops' = ops \o b /\ sq' = <<>>
      /\ \A i \in DOMAIN sq : sq[i] \in Entry
  BY DEF TypeOK, SubmitRing
<1>2. ASSUME NEW e \in Entry
      PROVE  Bind(e) \in Operation
  <2>1. fdSock \in [Fds -> Socks \cup {0}]
    BY DEF TypeOK
  <2> QED
    BY <2>1 DEF Entry, Operation, Bind
<1>3. b \in Seq(Operation) /\ DOMAIN b = DOMAIN sq /\ \A i \in DOMAIN sq : b[i] = Bind(sq[i])
  BY <1>1, <1>2
<1> HIDE DEF b
<1>4. \A i \in DOMAIN sq : sq[i] \in EntriesOf(op, I) <=> b[i] \in OpsOf(op, I)
  <2>1. \A e \in Entry : e \in EntriesOf(op, I) <=> Bind(e) \in OpsOf(op, I)
    BY <1>2 DEF EntriesOf, OpsOf, Bind
  <2> QED
    BY <1>1, <1>3, <2>1
<1>5. Cnt(b, OpsOf(op, I)) = Cnt(sq, EntriesOf(op, I))
  <2>1. sq \in Seq(Entry) /\ DOMAIN b = DOMAIN sq
    BY <1>1, <1>3
  <2> QED
    BY <1>4, <2>1, CntAlike
<1>6. Cnt(ops \o b, OpsOf(op, I)) = Cnt(ops, OpsOf(op, I)) + Cnt(b, OpsOf(op, I))
  BY <1>1, <1>3, CntConcat
<1>7. Cnt(<<>>, EntriesOf(op, I)) = 0
  BY CntEmpty
<1>8. InQueue(op, I)' = 0 /\ InRing(op, I)' = InRing(op, I) + InQueue(op, I) /\ Ended(op, I)' = Ended(op, I)
  BY <1>1, <1>5, <1>6, <1>7 DEF InQueue, InRing, Ended
<1>9. InQueue(op, I) \in Nat /\ InRing(op, I) \in Nat /\ Ended(op, I) \in Nat
  BY ArmedType
<1> QED
  BY <1>8, <1>9 DEF Armed, EndsAreLast

\* The kernel is done with a send, or with all of it but its buffer.
Settles(i) == ops' = WithoutOp(i) \/ ops' = [ops EXCEPT ![i].op = "hold"]

\* The kernel posts a completion: of a multishot operation that goes on, of
\* one that ends here, or of a send.
LEMMA ArmedPosted ==
  ASSUME TypeOK, NEW i \in DOMAIN ops, NEW e \in Completion, cq' = Append(cq, e),
         batch' = batch, sq' = sq, Lasts(e), NEW op, NEW I, Counted(op, I),
         \/ ops' = ops /\ e.more
         \/ /\ ops' = WithoutOp(i) /\ ~e.more /\ e.op = ops[i].op
            /\ e.op = "recv" => e.id = ops[i].id
         \/ /\ Settles(i)
            /\ e.op = "send" /\ ops[i].op \in {"send", "hold"}
  PROVE  Armed(op, I)' = Armed(op, I) /\ (EndsAreLast => EndsAreLast')
<1>1. /\ Pending \in Seq(Completion) /\ ops \in Seq(Operation) /\ ops[i] \in Operation
      /\ Pending' = Append(Pending, e)
  <2>1. Pending \in Seq(Completion) /\ Pending' = Append(Pending, e)
    BY PendingType, PendingAppend
  <2>2. ops \in Seq(Operation)
    BY DEF TypeOK
  <2> QED
    BY <2>1, <2>2
<1>2. Cnt(Append(Pending, e), EndsOf(op, I)) = Cnt(Pending, EndsOf(op, I)) + Bit(e \in EndsOf(op, I))
  BY <1>1, CntAppend
<1>3. Elems(Append(Pending, e)) = Elems(Pending) \cup {e}
  BY <1>1, ElemsOf
<1>4. Ended(op, I)' = Ended(op, I) + Bit(e \in EndsOf(op, I))
  BY <1>1, <1>2 DEF Ended
<1>5. InQueue(op, I)' = InQueue(op, I)
  BY DEF InQueue
<1>6. InRing(op, I)' + Bit(e \in EndsOf(op, I)) = InRing(op, I) /\ InRing(op, I)' \in Nat
  <2>0. InRing(op, I) \in Nat
    BY ArmedType
  <2>1. CASE ops' = ops /\ e.more
    <3>1. Bit(e \in EndsOf(op, I)) = 0 /\ InRing(op, I)' = InRing(op, I)
      BY <2>1 DEF EndsOf, Bit, InRing
    <3> QED
      BY <2>0, <3>1
  <2>2. ops[i].id \in AnyId /\ e.id \in AnyId
    BY <1>1 DEF Operation, Completion, AnyId
  <2>3. CASE ops' = WithoutOp(i)
    <3>1. ops' = Dropped(ops, i)
      BY <2>3 DEF WithoutOp, Dropped
    <3>2. Cnt(Dropped(ops, i), OpsOf(op, I)) = Cnt(ops, OpsOf(op, I)) - Bit(ops[i] \in OpsOf(op, I))
      BY <1>1, CntDropped
    <3>3. InRing(op, I)' = InRing(op, I) - Bit(ops[i] \in OpsOf(op, I))
      BY <3>1, <3>2 DEF InRing
    <3>4. Bit(ops[i] \in OpsOf(op, I)) = Bit(e \in EndsOf(op, I)) \/ (ops' = ops /\ e.more)
      BY <1>1, <2>2 DEF OpsOf, EndsOf, Bit, Counted
    <3>5. ops[i] \in OpsOf(op, I) => InRing(op, I) # 0
      <4>1. ops[i] \in Elems(ops)
        BY <1>1, ElemsOf
      <4>2. (\E o \in Elems(ops) : o \in OpsOf(op, I)) <=> Cnt(ops, OpsOf(op, I)) > 0
        BY <1>1, CntPositive
      <4> QED
        BY <4>1, <4>2 DEF InRing
    <3> QED
      BY <2>0, <2>1, <3>3, <3>4, <3>5 DEF Bit
  <2>4. CASE ops' = [ops EXCEPT ![i].op = "hold"] /\ e.op = "send" /\ ops[i].op \in {"send", "hold"}
    <3>1. PICK o : o = [ops[i] EXCEPT !.op = "hold"]
      OBVIOUS
    <3>2. o \in Operation /\ ops' = [ops EXCEPT ![i] = o]
      BY <1>1, <2>4, <3>1 DEF Operation
    <3>3. Cnt([ops EXCEPT ![i] = o], OpsOf(op, I))
            = Cnt(ops, OpsOf(op, I)) - Bit(ops[i] \in OpsOf(op, I)) + Bit(o \in OpsOf(op, I))
      <4>1. ops \in Seq(Operation) /\ i \in DOMAIN ops /\ o \in Operation
        BY <1>1, <3>2
      <4> QED
        BY <4>1, CntExcept
    <3>4. /\ Bit(ops[i] \in OpsOf(op, I)) = 0 /\ Bit(o \in OpsOf(op, I)) = 0
          /\ Bit(e \in EndsOf(op, I)) = 0
      BY <1>1, <2>4, <3>1 DEF OpsOf, EndsOf, Bit, Counted, Operation
    <3> QED
      BY <2>0, <3>2, <3>3, <3>4 DEF InRing
  <2> QED
    BY <2>1, <2>3, <2>4 DEF Settles
<1>7. InQueue(op, I) \in Nat /\ Ended(op, I) \in Nat /\ InRing(op, I) \in Nat
      /\ Bit(e \in EndsOf(op, I)) \in Nat
  BY ArmedType DEF Bit
<1> QED
  BY <1>1, <1>3, <1>4, <1>5, <1>6, <1>7 DEF Armed, EndsAreLast

-----------------------------------------------------------------------------
(***************************************************************************)
(* The steps that leave alone what is armed.                               *)
(***************************************************************************)
ArmedStays ==
  /\ EndsAreLast => EndsAreLast'
  /\ \A op, I : Counted(op, I) => Armed(op, I)' = Armed(op, I)

LEMMA KernelArmed ==
  ASSUME TypeOK, Kernel
  PROVE  ArmedStays
<1>1. PICK i \in DOMAIN ops :
        \/ KernelAccept(i) \/ KernelAcceptError(i)
        \/ KernelRecvData(i) \/ KernelRecvEnd(i)
        \/ KernelSend(i) \/ KernelSendError(i) \/ KernelNotify(i)
        \/ KernelRead(i)
  BY DEF Kernel
<1>2. ops[i] \in Operation
  BY DEF TypeOK
<1>3. batch' = batch /\ sq' = sq
  BY <1>1 DEF KernelAccept, KernelAcceptError, KernelRecvData, KernelRecvEnd, KernelSend,
              KernelSendError, KernelNotify, KernelRead, workerVars
<1>4. ASSUME NEW o \in {"accept", "read", "recv", "send"}, NEW id \in Ids \cup {0},
             o \in {"recv", "send"} => id = ops[i].id /\ id # 0,
             NEW fd \in Fds \cup {NoFd}, NEW r \in Int, NEW more \in BOOLEAN,
             NEW notif \in BOOLEAN,
             Posted(o, id, fd, r, more, notif),
             o = "read" => ~more, o = "recv" /\ r <= 0 => ~more,
             \/ ops' = ops /\ more
             \/ ops' = WithoutOp(i) /\ ~more /\ o = ops[i].op
             \/ /\ Settles(i)
                /\ o = "send" /\ ops[i].op \in {"send", "hold"}
      PROVE  ArmedStays
  <2>1. PICK e : e = [op |-> o, id |-> id, fd |-> fd, result |-> r, more |-> more,
                      notif |-> notif]
    OBVIOUS
  <2>2. /\ e \in Completion /\ e.op = o /\ e.id = id /\ e.more = more /\ Lasts(e)
    BY <1>4, <2>1 DEF Completion, Lasts
  <2>3. cq' = Append(cq, e)
    BY <1>4, <2>1 DEF Posted
  <2>4. \/ ops' = ops /\ e.more
        \/ ops' = WithoutOp(i) /\ ~e.more /\ e.op = ops[i].op /\ (e.op = "recv" => e.id = ops[i].id)
        \/ /\ Settles(i)
           /\ e.op = "send" /\ ops[i].op \in {"send", "hold"}
    BY <1>4, <2>2
  <2>5. ASSUME NEW op, NEW I, Counted(op, I)
        PROVE  Armed(op, I)' = Armed(op, I) /\ (EndsAreLast => EndsAreLast')
    BY <1>3, <2>2, <2>3, <2>4, <2>5, ArmedPosted
  <2>6. Counted("accept", AnyId)
    BY DEF Counted
  <2> QED
    BY <2>5, <2>6 DEF ArmedStays
<1>5. ops[i].id \in Ids \cup {0} /\ (ops[i].op \in {"recv", "send", "hold"} => ops[i].id # 0)
      /\ ops[i].zeroCopy \in BOOLEAN /\ ops[i].rem \in Int
  BY <1>2 DEF Operation
<1>6. 0 \in Int /\ 1 \in Int /\ 8 \in Int /\ -1 \in Int /\ ENoBufs \in Int /\ ENoBufs <= 0
      /\ ~(1 <= 0) /\ TRUE \in BOOLEAN /\ FALSE \in BOOLEAN
  BY DEF ENoBufs
<1>7. CASE KernelAccept(i)
  <2>1. PICK fd \in Fds \ OpenFds, more \in BOOLEAN :
          /\ Posted("accept", 0, fd, 1, more, FALSE) /\ ops[i].op = "accept"
          /\ ops' = IF more THEN ops ELSE WithoutOp(i)
    BY <1>7 DEF KernelAccept
  <2> QED
    BY <1>4, <1>6, <2>1
<1>8. CASE KernelAcceptError(i)
  <2>1. Posted("accept", 0, NoFd, -1, FALSE, FALSE) /\ ops[i].op = "accept" /\ ops' = WithoutOp(i)
    BY <1>8 DEF KernelAcceptError
  <2> QED
    BY <1>4, <1>6, <2>1
<1>9. CASE KernelRecvData(i)
  <2>1. PICK more \in BOOLEAN :
          /\ Posted("recv", ops[i].id, NoFd, 1, more, FALSE) /\ ops[i].op = "recv"
          /\ ops' = IF more THEN ops ELSE WithoutOp(i)
    BY <1>9 DEF KernelRecvData
  <2> QED
    BY <1>4, <1>5, <1>6, <2>1
<1>10. CASE KernelRecvEnd(i)
  <2>1. PICK r \in {0, ENoBufs} : Posted("recv", ops[i].id, NoFd, r, FALSE, FALSE)
    BY <1>10 DEF KernelRecvEnd
  <2>2. ops[i].op = "recv" /\ ops' = WithoutOp(i)
    BY <1>10 DEF KernelRecvEnd
  <2> QED
    BY <1>4, <1>5, <1>6, <2>1, <2>2
<1>11. CASE KernelRead(i)
  <2>1. Posted("read", 0, NoFd, 8, FALSE, FALSE) /\ ops[i].op = "read" /\ ops' = WithoutOp(i)
    BY <1>11 DEF KernelRead
  <2> QED
    BY <1>4, <1>6, <2>1
<1>12. CASE KernelSend(i)
  <2>1. PICK n \in 1..ops[i].rem : Posted("send", ops[i].id, NoFd, n, ops[i].zeroCopy, FALSE)
    BY <1>12 DEF KernelSend
  <2>2. /\ ops[i].op = "send" /\ n \in Int
        /\ Settles(i)
    BY <1>5, <1>12 DEF KernelSend, Settles
  <2> QED
    BY <1>4, <1>5, <1>6, <2>1, <2>2
<1>13. CASE KernelSendError(i)
  <2>1. PICK hold \in BOOLEAN : Posted("send", ops[i].id, NoFd, -1, hold, FALSE)
         /\ ops' = IF hold THEN [ops EXCEPT ![i].op = "hold"] ELSE WithoutOp(i)
    BY <1>13 DEF KernelSendError
  <2>2. ops[i].op = "send" /\ Settles(i)
    BY <1>13, <2>1 DEF KernelSendError, Settles
  <2> QED
    BY <1>4, <1>5, <1>6, <2>1, <2>2
<1>14. CASE KernelNotify(i)
  <2>1. Posted("send", ops[i].id, NoFd, 0, FALSE, TRUE) /\ ops[i].op = "hold" /\ Settles(i)
    BY <1>14 DEF KernelNotify, Settles
  <2> QED
    BY <1>4, <1>5, <1>6, <2>1
<1> QED
  BY <1>1, <1>7, <1>8, <1>9, <1>10, <1>11, <1>12, <1>13, <1>14

\* The worker pushes a send, or nothing.
PushesSend == sq' = sq \/ \E fd, c : sq' = Append(sq, SendEntry(fd, c))

LEMMA PushedSend ==
  ASSUME TypeOK, TypeOK', PushesSend, NEW op, NEW I, Counted(op, I)
  PROVE  InQueue(op, I)' = InQueue(op, I)
<1>1. CASE sq' = sq
  BY <1>1 DEF InQueue
<1>2. ASSUME NEW fd, NEW c, sq' = Append(sq, SendEntry(fd, c))
      PROVE  InQueue(op, I)' = InQueue(op, I)
  <2>1. PICK e : e = SendEntry(fd, c)
    OBVIOUS
  <2>2. e.op = "send" /\ sq' = Append(sq, e)
    BY <1>2, <2>1 DEF SendEntry
  <2>3. e \in Entry
    <3>1. sq \in Seq(Entry) /\ sq' \in Seq(Entry)
      BY DEF TypeOK
    <3>2. sq'[Len(sq) + 1] = e /\ Len(sq) + 1 \in DOMAIN sq'
      BY <2>2, <3>1
    <3> QED
      BY <3>1, <3>2
  <2>4. InQueue(op, I)' = InQueue(op, I) + Bit(e \in EntriesOf(op, I))
    BY <2>2, <2>3, Pushed
  <2>5. Bit(e \in EntriesOf(op, I)) = 0
    BY <2>2 DEF Bit, EntriesOf, Counted
  <2>6. InQueue(op, I) \in Nat
    BY ArmedType
  <2> QED
    BY <2>4, <2>5, <2>6
<1> QED
  BY <1>1, <1>2 DEF PushesSend

LEMMA FinishPushes ==
  ASSUME NEW fd, NEW c, NEW r, FinishTcpSend(fd, c, r)
  PROVE  PushesSend
<1>1. ASSUME NEW f, NEW d, NEW p, TakeNextSend(f, d, p)
      PROVE  PushesSend
  <2>1. CASE d.sendQueue # <<>>
    <3>1. PICK g : Submit(f, g, p)
      BY <1>1, <2>1 DEF TakeNextSend
    <3> QED
      BY <3>1 DEF Submit, PushesSend
  <2>2. CASE d.sendQueue = <<>>
    BY <1>1, <2>2 DEF TakeNextSend, PushesSend
  <2> QED
    BY <2>1, <2>2
<1>2. (\E g, p : Submit(fd, g, p)) \/ \E g, p : TakeNextSend(fd, g, p)
  BY Zenon DEF FinishTcpSend
<1> QED
  BY <1>1, <1>2 DEF Submit, PushesSend

LEMMA QueuePushes ==
  ASSUME NEW fd, NEW n, QueueTcpSend(fd, n)
  PROVE  PushesSend
<1>1. sq' = sq \/ \E d : sq' = Append(sq, SendEntry(fd, d))
  BY Zenon DEF QueueTcpSend
<1> QED
  BY <1>1 DEF PushesSend

LEMMA QuietArmed ==
  ASSUME SInv, TypeOK', Listening,
         \/ TakeCommand \/ ExecuteSend \/ ExecuteClose \/ ExpireHalfClosed \/ ExpireIdle
         \/ CloseNext \/ EnterWait \/ Reap \/ HandleSend \/ EndLoop
         \/ Kernel \/ Enqueue \/ Stop \/ UNCHANGED vars
  PROVE  ArmedStays /\ (pc' = "redrain" <=> pc = "redrain")
<1>1. TypeOK /\ Phases
  BY DEF SInv, TInv, IInv
<1>2. CASE Kernel
  <2>1. pc' = pc
    BY <1>2, KernelKinds
  <2> QED
    BY <1>1, <1>2, <2>1, KernelArmed
<1>3. CASE \/ TakeCommand \/ ExecuteClose \/ ExpireHalfClosed \/ ExpireIdle \/ CloseNext
           \/ Reap \/ Enqueue \/ Stop \/ UNCHANGED vars
  <2>1. UNCHANGED <<sq, ops>> /\ Pending' = Pending /\ (pc' = "redrain" <=> pc = "redrain")
    <3>1. CASE Reap
      <4>1. batch = <<>> /\ cq \in Seq(Completion)
        BY <1>1, <3>1 DEF Reap, Phases, TypeOK
      <4>2. <<>> \o cq = cq /\ cq \o <<>> = cq
        BY <4>1
      <4> QED
        BY <3>1, <4>1, <4>2 DEF Reap, Pending
    <3>2. CASE TakeCommand \/ ExecuteClose \/ ExpireHalfClosed \/ ExpireIdle \/ CloseNext
      BY <3>2 DEF TakeCommand, ExecuteClose, ExpireHalfClosed, ExpireIdle, CloseNext, ringVars,
                  Pending
    <3>3. CASE Enqueue \/ Stop \/ UNCHANGED vars
      BY <3>3 DEF Enqueue, Stop, vars, workerVars, ringVars, Pending
    <3> QED
      BY <1>3, <3>1, <3>2, <3>3
  <2>2. Counted("accept", AnyId)
    BY DEF Counted
  <2> QED
    BY <2>1, <2>2, ArmedSame DEF ArmedStays
<1>4. CASE EnterWait \/ EndLoop
  <2>1. SubmitRing /\ Pending' = Pending /\ (pc' = "redrain" <=> pc = "redrain")
    BY <1>4 DEF EnterWait, EndLoop, Pending
  <2>2. Counted("accept", AnyId)
    BY DEF Counted
  <2> QED
    BY <1>1, <2>1, <2>2, ArmedSubmit DEF ArmedStays
<1>5. CASE ExecuteSend
  <2>1. ops' = ops /\ pc' = pc /\ Pending' = Pending /\ PushesSend
    BY <1>5, QueuePushes DEF ExecuteSend, Pending, PushesSend
  <2>2. ASSUME NEW op, NEW I, Counted(op, I)
        PROVE  Armed(op, I)' = Armed(op, I)
    <3>1. InQueue(op, I)' = InQueue(op, I)
      BY <1>1, <2>1, <2>2, PushedSend
    <3> QED
      BY <2>1, <3>1 DEF Armed, InRing, Ended
  <2>3. EndsAreLast => EndsAreLast'
    BY <2>1 DEF EndsAreLast
  <2> QED
    BY <2>1, <2>2, <2>3 DEF ArmedStays
<1>6. CASE HandleSend
  <2>1. Pops /\ ops' = ops /\ pc' = pc /\ Cqe.op = "send"
    BY <1>6 DEF HandleSend, Pops
  <2>2. PushesSend
    <3>1. sq' = sq \/ \E fd, c, r : FinishTcpSend(fd, c, r)
      BY <1>6, Zenon DEF HandleSend
    <3> QED
      BY <3>1, FinishPushes DEF PushesSend
  <2>3. ASSUME NEW op, NEW I, Counted(op, I)
        PROVE  Armed(op, I)' = Armed(op, I) /\ (EndsAreLast => EndsAreLast')
    <3>1. InQueue(op, I)' = InQueue(op, I)
      BY <1>1, <2>2, <2>3, PushedSend
    <3>2. Bit(Cqe \in EndsOf(op, I)) = 0
      BY <2>1, <2>3 DEF Bit, EndsOf, Counted
    <3>3. InQueue(op, I) \in Nat /\ InRing(op, I) \in Nat /\ Ended(op, I) \in Nat
      BY <1>1, ArmedType
    <3>4. /\ Armed(op, I)' = InQueue(op, I)' + InRing(op, I) + Ended(op, I)
                               - Bit(Cqe \in EndsOf(op, I))
          /\ EndsAreLast => EndsAreLast'
      BY <1>1, <2>1, ArmedPops
    <3> QED
      BY <3>1, <3>2, <3>3, <3>4 DEF Armed
  <2>4. Counted("accept", AnyId)
    BY DEF Counted
  <2> QED
    BY <2>1, <2>3, <2>4 DEF ArmedStays
<1> QED
  BY <1>2, <1>3, <1>4, <1>5, <1>6

-----------------------------------------------------------------------------
(***************************************************************************)
(* Nobody reopens, and only an accept gives birth.                         *)
(***************************************************************************)
Ages(id) == /\ Phase(id)' = "open" => Phase(id) = "open"
            /\ Phase(id)' = "unborn" => Phase(id) = "unborn"

LEMMA PhaseAges ==
  ASSUME SInv, SInv', [Next]_vars, NEW id \in Ids,
         nextId' = nextId \/ (nextId' = nextId + 1 /\ id # nextId)
  PROVE  Ages(id)
<1>1. TInv' /\ Kinds
  BY EveryKind DEF SInv
<1>2. Abstractly
  BY <1>1, EveryStep
<1>3. /\ Phase(id) = "unborn" <=> id >= nextId
      /\ Phase(id)' = "unborn" <=> id >= nextId'
  <2>1. /\ id \in Nat /\ nextId \in Nat /\ nextId' \in Nat
    BY DEF SInv, TInv, IInv, TypeOK, Ids
  <2>2. events[id] = <<>> <=> id >= nextId
    BY <2>1 DEF SInv, Unborn
  <2>3. events'[id] = <<>> <=> id >= nextId'
    BY <2>1 DEF SInv, Unborn
  <2> QED
    BY <2>2, <2>3, PhaseIs
<1>4. \/ Phase(id)' = Phase(id)
      \/ Phase(id)' \in {"closing", "closed"}
      \/ Phase(id) = "unborn"
  <2>1. \/ PhaseMap' = PhaseMap
        \/ \E g \in Ids : PhaseMap[g] = "unborn" /\ PhaseMap' = [PhaseMap EXCEPT ![g] = "open"]
        \/ \E g \in Ids : PhaseMap' = [PhaseMap EXCEPT ![g] = "closing"]
        \/ \E E : PhaseMap' = [g \in Ids |-> IF g \in E THEN "closed" ELSE PhaseMap[g]]
    BY <1>2 DEF Abstractly, Streams!StreamNext, Streams!streamVars, Streams!Open, Streams!Accept,
       Streams!BeginClose, Streams!Transmit, Streams!Close, PhaseMap
  <2>2. PhaseMap = [g \in Ids |-> Phase(g)] /\ PhaseMap' = [g \in Ids |-> Phase(g)']
    BY DEF PhaseMap
  <2>3. PhaseMap[id] = Phase(id) /\ PhaseMap'[id] = Phase(id)' /\ DOMAIN PhaseMap = Ids
    BY <2>2
  <2> HIDE DEF PhaseMap
  <2> QED
    BY <2>1, <2>3
<1>5. id \in Nat /\ nextId \in Nat
  BY DEF SInv, TInv, IInv, TypeOK, Ids
<1> QED
  BY <1>3, <1>4, <1>5 DEF Ages

-----------------------------------------------------------------------------
(***************************************************************************)
(* The steps that arm again, or read what has ended.                       *)
(***************************************************************************)
LEMMA PopsArmed ==
  ASSUME SInv, TypeOK', Pops, ops' = ops, NEW op, NEW I, Counted(op, I),
         NEW n \in Int, InQueue(op, I)' = InQueue(op, I) + n
  PROVE  /\ Armed(op, I)' = Armed(op, I) + n
               - Bit(Cqe.op = op /\ (op = "recv" => Cqe.id \in I) /\ ~Cqe.more)
         /\ Armed(op, I) \in Nat /\ Armed(op, I)' \in Nat
         /\ EndsAreLast => EndsAreLast' /\ Lasts(Cqe)
<1>1. TypeOK /\ Cqe \in Completion
  <2>1. TypeOK /\ batch # <<>>
    BY DEF SInv, TInv, IInv, Pops
  <2> QED
    BY <2>1, PendingHead
<1>2. /\ Armed(op, I)' = InQueue(op, I)' + InRing(op, I) + Ended(op, I)
                           - Bit(Cqe \in EndsOf(op, I))
      /\ EndsAreLast => EndsAreLast' /\ Lasts(Cqe)
  BY <1>1, ArmedPops
<1>3. Cqe \in EndsOf(op, I)
        <=> (Cqe.op = op /\ (op = "recv" => Cqe.id \in I) /\ ~Cqe.more)
  <2>1. Cqe.id \in AnyId
    BY <1>1 DEF Completion, AnyId
  <2> QED
    BY <1>1, <2>1 DEF EndsOf, Counted
<1>4. InQueue(op, I) \in Nat /\ InRing(op, I) \in Nat /\ Ended(op, I) \in Nat
  BY <1>1, ArmedType
<1>5. Armed(op, I)' \in Nat
  <2>1. sq' \in Seq(Entry) /\ ops' \in Seq(Operation) /\ Pending' \in Seq(Completion)
    BY DEF TypeOK, Pending
  <2>2. Cnt(sq', EntriesOf(op, I)) \in Nat
    BY <2>1, AtFinite
  <2>3. Cnt(ops', OpsOf(op, I)) \in Nat
    BY <2>1, AtFinite
  <2>4. Cnt(Pending', EndsOf(op, I)) \in Nat
    BY <2>1, AtFinite
  <2> QED
    BY <2>2, <2>3, <2>4 DEF Armed, InQueue, InRing, Ended
<1>6. Bit(Cqe \in EndsOf(op, I)) \in Nat
  BY DEF Bit
<1> QED
  BY <1>2, <1>3, <1>4, <1>5, <1>6 DEF Armed, Bit

LEMMA RecvKept ==
  ASSUME NEW id, RecvArmed(id), Ages(id), Armed("recv", {id})' = Armed("recv", {id})
  PROVE  RecvArmed(id)'
  BY DEF RecvArmed, Ages

\* Everything is armed as before.
LEMMA StaysArmed ==
  ASSUME AInv, Listening, ArmedStays, pc' = "redrain" <=> pc = "redrain",
         \A id \in Ids : Ages(id)
  PROVE  AInv'
<1>1. /\ EndsAreLast' /\ Armed("accept", AnyId)' = 1
      /\ Armed("read", AnyId)' + Bit(pc' = "redrain") = 1
  BY DEF AInv, ArmedStays, Counted, Bit
<1>2. ASSUME NEW id \in Ids
      PROVE  RecvArmed(id)'
  <2>1. Counted("recv", {id})
    BY DEF Counted
  <2> QED
    BY <2>1, RecvKept DEF AInv, ArmedStays
<1> QED
  BY <1>1, <1>2 DEF AInv, Bit

\* A completion of a receive: the receive is armed again, goes on, or is over
\* for a connection that is not open any more.
LEMMA RecvArms ==
  ASSUME SInv, TypeOK', AInv, Listening, \A id \in Ids : Ages(id),
         Pops, ops' = ops, pc = "process", pc' = pc, Cqe.op = "recv",
         \/ sq' = sq /\ \A id \in Ids : id = Cqe.id /\ Phase(id)' = "open" => Cqe.more
         \/ /\ CqeFd \in Fds /\ ~Cqe.more
            /\ sq' = Append(sq, RecvEntry(CqeFd, Cqe.id))
  PROVE  AInv'
<1>1. TypeOK /\ Cqe \in Completion /\ Cqe.id \in Ids
  <2>1. TypeOK /\ batch # <<>>
    BY DEF SInv, TInv, IInv, Pops
  <2>2. Cqe \in Completion
    BY <2>1, PendingHead
  <2> QED
    BY <2>1, <2>2 DEF Completion
<1> DEFINE p == sq' # sq
<1>0. /\ p => ~Cqe.more
      /\ ~p => \A id \in Ids : id = Cqe.id /\ Phase(id)' = "open" => Cqe.more
      /\ CqeFd \in Fds /\ sq' = Append(sq, RecvEntry(CqeFd, Cqe.id)) => p
  <2>1. ASSUME CqeFd \in Fds, sq' = Append(sq, RecvEntry(CqeFd, Cqe.id))
        PROVE  p
    <3>1. PICK e : e = RecvEntry(CqeFd, Cqe.id)
      OBVIOUS
    <3>2. e \in Entry /\ sq' = Append(sq, e) /\ sq \in Seq(Entry)
      BY <1>1, <2>1, <3>1, EntryTypes DEF TypeOK
    <3>3. Len(sq') = Len(sq) + 1 /\ Len(sq) \in Nat
      BY <3>2
    <3> QED
      BY <3>3
  <2> QED
    BY <2>1
<1>2. ASSUME NEW op, NEW I, Counted(op, I)
      PROVE  InQueue(op, I)' = InQueue(op, I) + Bit(p /\ op = "recv" /\ Cqe.id \in I)
  <2>1. CASE sq' = sq
    <3>1. InQueue(op, I)' = InQueue(op, I) /\ InQueue(op, I) \in Nat
      BY <1>1, <2>1, ArmedType DEF InQueue
    <3> QED
      BY <2>1, <3>1 DEF Bit
  <2>2. CASE CqeFd \in Fds /\ sq' = Append(sq, RecvEntry(CqeFd, Cqe.id))
    <3>1. PICK e : e = RecvEntry(CqeFd, Cqe.id)
      OBVIOUS
    <3>2. /\ e \in Entry /\ sq' = Append(sq, e)
          /\ Bit(e \in EntriesOf(op, I)) = Bit(op = "recv" /\ Cqe.id \in I)
      BY <1>1, <1>2, <2>2, <3>1, Counts
    <3>3. InQueue(op, I)' = InQueue(op, I) + Bit(e \in EntriesOf(op, I))
      BY <1>1, <3>2, Pushed
    <3> QED
      BY <1>0, <2>2, <3>2, <3>3
  <2> QED
    BY <2>1, <2>2
<1> HIDE DEF p
<1>3. ASSUME NEW op, NEW I, Counted(op, I)
      PROVE  /\ Armed(op, I)' = Armed(op, I) + Bit(p /\ op = "recv" /\ Cqe.id \in I)
                   - Bit(Cqe.op = op /\ (op = "recv" => Cqe.id \in I) /\ ~Cqe.more)
             /\ Armed(op, I) \in Nat /\ Armed(op, I)' \in Nat
             /\ EndsAreLast'
  <2>1. Bit(p /\ op = "recv" /\ Cqe.id \in I) \in Int
    BY DEF Bit
  <2>2. EndsAreLast
    BY DEF AInv
  <2> QED
    BY <1>2, <1>3, <2>1, <2>2, PopsArmed
<1>4. /\ EndsAreLast' /\ Armed("accept", AnyId)' = 1 /\ Armed("read", AnyId)' = Armed("read", AnyId)
  <2>1. Counted("accept", AnyId) /\ Counted("read", AnyId)
    BY DEF Counted
  <2>2. Armed("accept", AnyId) = 1
    BY DEF AInv
  <2>3. EndsAreLast' /\ Armed("accept", AnyId)' = Armed("accept", AnyId) + 0 - 0
    BY <1>3, <2>1 DEF Bit
  <2>4. Armed("read", AnyId)' = Armed("read", AnyId) + 0 - 0 /\ Armed("read", AnyId) \in Nat
    BY <1>3, <2>1 DEF Bit
  <2> QED
    BY <2>2, <2>3, <2>4
<1>5. ASSUME NEW id \in Ids
      PROVE  RecvArmed(id)'
  <2>1. Counted("recv", {id}) /\ RecvArmed(id) /\ Ages(id)
    BY <1>5 DEF Counted, AInv
  <2>2. /\ Armed("recv", {id})' = Armed("recv", {id}) + Bit(p /\ Cqe.id = id)
                                    - Bit(Cqe.id = id /\ ~Cqe.more)
        /\ Armed("recv", {id}) \in Nat /\ Armed("recv", {id})' \in Nat
    BY <1>3, <2>1
  <2>3. CASE Cqe.id # id \/ (p <=> ~Cqe.more)
    <3>1. Armed("recv", {id})' = Armed("recv", {id})
      BY <2>2, <2>3 DEF Bit
    <3> QED
      BY <2>1, <3>1, RecvKept
  <2>4. CASE Cqe.id = id /\ ~p /\ ~Cqe.more
    <3>1. Armed("recv", {id})' = Armed("recv", {id}) - 1
      BY <2>2, <2>4 DEF Bit
    <3>2. Phase(id)' # "open"
      BY <1>0, <2>4
    <3> QED
      BY <2>1, <2>2, <3>1, <3>2 DEF RecvArmed, Ages
  <2> QED
    BY <1>0, <2>3, <2>4
<1> QED
  BY <1>4, <1>5 DEF AInv, Bit

\* The end of a stream: the connection is closing afterwards, or gone.
LEMMA EndCloses ==
  ASSUME SInv, HandleRecvEnd, NEW id \in Ids, id = Cqe.id
  PROVE  Phase(id)' # "open"
<1> DEFINE fd == CqeFd
           c == connections[fd]
<1>1. /\ fd \in Fds /\ c.id = id /\ id = Cqe.id /\ idToFd[id] = fd
      /\ connections \in [Fds -> Connection] /\ idToFd \in [Ids -> Fds \cup {NoFd}] /\ fd # NoFd
  <2>1. batch # <<>> /\ batch' = Tail(batch) /\ cq' = cq /\ CqeFd # NoFd /\ Cqe.op = "recv"
    BY DEF HandleRecvEnd
  <2>2. fd \in Fds /\ c.id = id
    BY <2>1, PopsAre
  <2>3. TypeOK
    BY DEF SInv, TInv, IInv
  <2> QED
    BY <2>1, <2>2, <2>3 DEF TypeOK, CqeFd
<1>2. c \in Connection
  BY <1>1
<1>3. ASSUME NEW d, d.closeAfterSend = TRUE, Keep(fd, d, free)
      PROVE  Phase(id)' # "open"
  <2>1. idToFd' = idToFd /\ connections' = [connections EXCEPT ![fd] = d]
    BY <1>3 DEF Keep
  <2>2. connections'[idToFd'[id]] = d
    BY <1>1, <2>1
  <2>3. ConnOf(id).closeAfterSend'
    BY <1>3, <2>2 DEF ConnOf
  <2> QED
    BY <2>3, PhaseIs
<1>4. \/ \E d : d.closeAfterSend = TRUE /\ Keep(fd, d, free)
      \/ RemoveConnection(fd, c, free, TRUE)
  <2>1. CASE MustDeferRecvShutdown(c)
    <3>1. DeferTcpRecvShutdown(fd)
      BY <2>1 DEF HandleRecvEnd
    <3>2. PICK g : g = IF c.dataEventPending THEN GraceTicks ELSE c.graceTicks
      OBVIOUS
    <3>3. PICK d : d = [c EXCEPT !.closeAfterSend = TRUE, !.graceTicks = g]
      OBVIOUS
    <3>4. d = [c EXCEPT !.closeAfterSend = TRUE,
                        !.graceTicks = IF c.dataEventPending THEN GraceTicks ELSE @]
      BY <1>2, <3>2, <3>3 DEF Connection
    <3>5. Keep(fd, d, free)
      BY <3>1, <3>4 DEF DeferTcpRecvShutdown
    <3>6. d.closeAfterSend = TRUE
      BY <1>2, <3>3 DEF Connection
    <3> QED
      BY <3>5, <3>6
  <2>2. CASE ~MustDeferRecvShutdown(c)
    <3>1. CloseTcpConnection(fd, TRUE)
      BY <2>2 DEF HandleRecvEnd
    <3>2. PICK d : d = [c EXCEPT !.closeAfterSend = TRUE]
      OBVIOUS
    <3>3. d.closeAfterSend = TRUE
      BY <1>2, <3>2 DEF Connection
    <3>4. Keep(fd, d, free) \/ RemoveConnection(fd, c, free, TRUE)
      BY <3>1, <3>2 DEF CloseTcpConnection
    <3> QED
      BY <3>3, <3>4
  <2> QED
    BY <2>1, <2>2
<1>5. CASE RemoveConnection(fd, c, free, TRUE)
  <2>1. idToFd' = [idToFd EXCEPT ![id] = NoFd]
    BY <1>1, <1>5 DEF RemoveConnection
  <2>2. idToFd'[id] = NoFd
    BY <1>1, <2>1
  <2> QED
    BY <2>2, PhaseIs
<1> HIDE DEF fd, c
<1> QED
  BY <1>3, <1>4, <1>5

LEMMA UnknownClosed ==
  ASSUME idToFd' = idToFd, NEW id \in Ids, idToFd[id] = NoFd
  PROVE  Phase(id)' # "open"
  BY PhaseIs

LEMMA RecvArmedNext ==
  ASSUME SInv, SInv', AInv, Listening,
         HandleRecvData \/ HandleRecvNoBuffer \/ HandleRecvEnd \/ HandleUnknown
  PROVE  AInv'
<1>1. /\ batch # <<>> /\ batch' = Tail(batch) /\ cq' = cq /\ ops' = ops
      /\ pc = "process" /\ pc' = pc /\ nextId' = nextId
  BY DEF HandleRecvData, HandleRecvNoBuffer, HandleRecvEnd, HandleUnknown, ringVars, tableVars,
         Listening
<1>2. /\ Pops /\ Cqe \in Completion
      /\ Cqe.op \in {"recv", "send"} => Cqe.id \in Ids
      /\ Cqe.op \in {"recv", "send"} /\ CqeFd # NoFd => CqeFd \in Fds
  BY <1>1, PopsAre
<1>3. TypeOK /\ TypeOK' /\ [Next]_vars
  <2>1. Worker
    BY DEF Worker
  <2> QED
    BY <2>1 DEF SInv, TInv, IInv, Next
<1>4. \A id \in Ids : Ages(id)
  BY <1>1, <1>3, PhaseAges
<1>5. Lasts(Cqe)
  <2>1. Pending \in Seq(Completion) /\ 1 \in DOMAIN Pending /\ Pending[1] = Cqe
    BY <1>1, <1>3, PendingHead, PendingType
  <2> QED
    BY <2>1 DEF AInv, EndsAreLast, Elems
<1>6. CASE HandleRecvData
  <2>1. /\ Cqe.op = "recv" /\ CqeFd # NoFd
        /\ sq' = IF Cqe.more THEN sq ELSE Append(sq, RecvEntry(CqeFd, Cqe.id))
    BY <1>6 DEF HandleRecvData
  <2> QED
    BY <1>1, <1>2, <1>3, <1>4, <2>1, RecvArms
<1>7. CASE HandleRecvEnd
  <2>1. Cqe.op = "recv" /\ sq' = sq
    BY <1>7 DEF HandleRecvEnd
  <2>2. \A id \in Ids : id = Cqe.id /\ Phase(id)' = "open" => Cqe.more
    BY <1>7, EndCloses
  <2> QED
    BY <1>1, <1>2, <1>3, <1>4, <2>1, <2>2, RecvArms
<1>8. CASE HandleRecvNoBuffer
  <2>1. /\ Cqe.op = "recv" /\ CqeFd # NoFd /\ UNCHANGED <<connections, idToFd>>
        /\ sq' = IF connections[CqeFd].closeAfterSend THEN sq
                 ELSE Append(sq, RecvEntry(CqeFd, Cqe.id))
    BY <1>8 DEF HandleRecvNoBuffer, tableVars
  <2>2. ~Cqe.more
    BY <1>5, <1>8 DEF HandleRecvNoBuffer, Lasts, ENoBufs
  <2>3. ASSUME NEW id \in Ids, id = Cqe.id, connections[CqeFd].closeAfterSend
        PROVE  Phase(id)' # "open"
    <3>1. ConnOf(id)' = connections[CqeFd]
      BY <2>1, <2>3 DEF ConnOf, CqeFd
    <3>2. ConnOf(id).closeAfterSend'
      BY <2>3, <3>1
    <3> QED
      BY <3>2, PhaseIs
  <2> QED
    BY <1>1, <1>2, <1>3, <1>4, <2>1, <2>2, <2>3, RecvArms
<1>9. CASE HandleUnknown
  <2>1. sq' = sq /\ idToFd' = idToFd /\ CqeFd = NoFd /\ Cqe.op \in {"recv", "send"}
    BY <1>1, <1>9 DEF HandleUnknown, ringVars, tableVars
  <2>2. CASE Cqe.op = "recv"
    <3>1. \A id \in Ids : id = Cqe.id /\ Phase(id)' = "open" => Cqe.more
      BY <2>1, UnknownClosed DEF CqeFd
    <3> QED
      BY <1>1, <1>2, <1>3, <1>4, <2>1, <2>2, <3>1, RecvArms
  <2>3. CASE Cqe.op = "send"
    <3>1. ASSUME NEW op, NEW I, Counted(op, I)
          PROVE  Armed(op, I)' = Armed(op, I) /\ (EndsAreLast => EndsAreLast')
      <4>1. InQueue(op, I)' = InQueue(op, I) + 0 /\ 0 \in Int
        <5>1. InQueue(op, I) \in Nat
          BY <1>3, ArmedType
        <5> QED
          BY <2>1, <5>1 DEF InQueue
      <4>2. Cqe.op # op
        BY <2>3, <3>1 DEF Counted
      <4>3. /\ Armed(op, I)' = Armed(op, I) + 0
                   - Bit(Cqe.op = op /\ (op = "recv" => Cqe.id \in I) /\ ~Cqe.more)
            /\ Armed(op, I) \in Nat /\ (EndsAreLast => EndsAreLast')
        BY <1>1, <1>2, <1>3, <3>1, <4>1, PopsArmed
      <4> QED
        BY <4>2, <4>3 DEF Bit
    <3>2. Counted("accept", AnyId)
      BY DEF Counted
    <3>3. ArmedStays
      BY <3>1, <3>2 DEF ArmedStays
    <3> QED
      BY <1>1, <1>4, <3>3, StaysArmed
  <2> QED
    BY <2>1, <2>2, <2>3
<1> QED
  BY <1>6, <1>7, <1>8, <1>9

LEMMA ReadArmedNext ==
  ASSUME SInv, SInv', AInv, Listening, HandleRead
  PROVE  AInv'
<1>1. /\ Pops /\ ops' = ops /\ pc = "process" /\ pc' = "redrain" /\ nextId' = nextId
      /\ sq' = sq /\ Cqe.op = "read" /\ batch # <<>>
  BY DEF HandleRead, ringVars, tableVars, Pops
<1>2. TypeOK /\ TypeOK' /\ [Next]_vars
  <2>1. Worker
    BY DEF Worker
  <2> QED
    BY <2>1 DEF SInv, TInv, IInv, Next
<1>3. \A id \in Ids : Ages(id)
  BY <1>1, <1>2, PhaseAges
<1>4. ASSUME NEW op, NEW I, Counted(op, I)
      PROVE  /\ Armed(op, I)' = Armed(op, I) - Bit(op = "read")
             /\ Armed(op, I) \in Nat /\ EndsAreLast'
  <2>1. InQueue(op, I)' = InQueue(op, I) + 0 /\ 0 \in Int
    <3>1. InQueue(op, I) \in Nat
      BY <1>2, ArmedType
    <3> QED
      BY <1>1, <3>1 DEF InQueue
  <2>2. /\ Armed(op, I)' = Armed(op, I) + 0
               - Bit(Cqe.op = op /\ (op = "recv" => Cqe.id \in I) /\ ~Cqe.more)
        /\ Armed(op, I) \in Nat /\ (EndsAreLast => EndsAreLast' /\ Lasts(Cqe))
    BY <1>1, <1>2, <1>4, <2>1, PopsArmed
  <2>3. EndsAreLast
    BY DEF AInv
  <2> QED
    BY <1>1, <2>2, <2>3 DEF Bit, Lasts
<1>5. Counted("accept", AnyId) /\ Counted("read", AnyId) /\ \A id \in Ids : Counted("recv", {id})
  BY DEF Counted
<1>6. EndsAreLast' /\ Armed("accept", AnyId)' = 1
  <2>1. Armed("accept", AnyId) = 1
    BY DEF AInv
  <2>2. EndsAreLast' /\ Armed("accept", AnyId)' = Armed("accept", AnyId) - 0
    BY <1>4, <1>5 DEF Bit
  <2> QED
    BY <2>1, <2>2
<1>7. Armed("read", AnyId)' = 0
  <2>1. Armed("read", AnyId) + 0 = 1
    BY <1>1 DEF AInv, Bit
  <2>2. Armed("read", AnyId)' = Armed("read", AnyId) - 1 /\ Armed("read", AnyId) \in Nat
    BY <1>4, <1>5 DEF Bit
  <2> QED
    BY <2>1, <2>2
<1>8. ASSUME NEW id \in Ids
      PROVE  RecvArmed(id)'
  <2>1. Armed("recv", {id})' = Armed("recv", {id}) - 0 /\ Armed("recv", {id}) \in Nat
    BY <1>4, <1>5 DEF Bit
  <2> QED
    BY <1>3, <2>1, RecvKept DEF AInv
<1> QED
  BY <1>1, <1>6, <1>7, <1>8 DEF AInv, Bit

LEMMA RedrainNext ==
  ASSUME SInv, SInv', AInv, Listening, FinishCommandCompletion
  PROVE  AInv'
<1>1. /\ ops' = ops /\ Pending' = Pending /\ pc = "redrain" /\ pc' = "process"
      /\ nextId' = nextId /\ sq' = Append(sq, ReadEntry)
  BY DEF FinishCommandCompletion, tableVars, Pending
<1>2. TypeOK /\ TypeOK' /\ [Next]_vars
  <2>1. Worker
    BY DEF Worker
  <2> QED
    BY <2>1 DEF SInv, TInv, IInv, Next
<1>3. \A id \in Ids : Ages(id)
  BY <1>1, <1>2, PhaseAges
<1>4. ASSUME NEW op, NEW I, Counted(op, I)
      PROVE  /\ Armed(op, I)' = Armed(op, I) + Bit(op = "read")
             /\ Armed(op, I) \in Nat
  <2>1. PICK e : e = ReadEntry
    OBVIOUS
  <2>2. e.op = "read" /\ e.id = 0 /\ e \in Entry /\ sq' = Append(sq, e)
    BY <1>1, <2>1, EntryTypes DEF ReadEntry, AcceptEntry
  <2>3. InQueue(op, I)' = InQueue(op, I) + Bit(e \in EntriesOf(op, I))
    BY <1>2, <2>2, Pushed
  <2>4. e \in EntriesOf(op, I) <=> op = "read"
    BY <1>4, <2>2 DEF EntriesOf, Counted, AnyId
  <2>5. InRing(op, I)' = InRing(op, I) /\ Ended(op, I)' = Ended(op, I)
    BY <1>1 DEF InRing, Ended
  <2>6. InQueue(op, I) \in Nat /\ InRing(op, I) \in Nat /\ Ended(op, I) \in Nat
    BY <1>2, ArmedType
  <2> QED
    BY <2>3, <2>4, <2>5, <2>6 DEF Armed, Bit
<1>5. Counted("accept", AnyId) /\ Counted("read", AnyId) /\ \A id \in Ids : Counted("recv", {id})
  BY DEF Counted
<1>6. EndsAreLast' /\ Armed("accept", AnyId)' = 1
  <2>1. Armed("accept", AnyId) = 1 /\ EndsAreLast
    BY DEF AInv
  <2>2. Armed("accept", AnyId)' = Armed("accept", AnyId) + 0
    BY <1>4, <1>5 DEF Bit
  <2> QED
    BY <1>1, <2>1, <2>2 DEF EndsAreLast
<1>7. Armed("read", AnyId)' = 1
  <2>1. Armed("read", AnyId) + 1 = 1
    BY <1>1 DEF AInv, Bit
  <2>2. Armed("read", AnyId)' = Armed("read", AnyId) + 1 /\ Armed("read", AnyId) \in Nat
    BY <1>4, <1>5 DEF Bit
  <2> QED
    BY <2>1, <2>2
<1>8. ASSUME NEW id \in Ids
      PROVE  RecvArmed(id)'
  <2>1. Armed("recv", {id})' = Armed("recv", {id}) + 0 /\ Armed("recv", {id}) \in Nat
    BY <1>4, <1>5 DEF Bit
  <2> QED
    BY <1>3, <2>1, RecvKept DEF AInv
<1> QED
  BY <1>1, <1>6, <1>7, <1>8 DEF AInv, Bit

LEMMA AcceptArmedNext ==
  ASSUME SInv, SInv', AInv, Listening, HandleAccept
  PROVE  AInv'
<1> DEFINE born == Cqe.fd # NoFd /\ AcceptConnection(Cqe.fd)
<1>1. /\ Pops /\ batch # <<>> /\ batch' = Tail(batch) /\ cq' = cq /\ ops' = ops
      /\ pc' = pc /\ pc = "process" /\ Cqe.op = "accept"
      /\ \/ born /\ sq' = Append(sq, RecvEntry(Cqe.fd, nextId)) \o Rearm
         \/ nextId' = nextId /\ sq' = sq \o Rearm
  BY DEF HandleAccept, RejectConnection, Pops
<1>2. TypeOK /\ TypeOK' /\ [Next]_vars
  <2>1. Worker
    BY DEF Worker
  <2> QED
    BY <2>1 DEF SInv, TInv, IInv, Next
<1>3. Cqe \in Completion /\ sq \in Seq(Entry) /\ nextId \in Ids
  BY <1>1, <1>2, PopsAre DEF TypeOK
<1>4. born => nextId' = nextId + 1 /\ Phase(nextId) = "unborn" /\ events'[nextId] # <<>>
  <2>1. SUFFICES ASSUME born PROVE nextId' = nextId + 1 /\ Phase(nextId) = "unborn"
                                   /\ events'[nextId] # <<>>
    OBVIOUS
  <2>2. events[nextId] = <<>>
    BY <1>3 DEF SInv, Unborn, Ids
  <2>3. events'[nextId] # <<>>
    <3>1. events \in [Ids -> Seq({"connect", "data", "close"})]
      BY <1>2 DEF TypeOK
    <3>2. events'[nextId] = Append(events[nextId], "connect")
      BY <1>3, <2>1, <3>1 DEF AcceptConnection
    <3> QED
      BY <2>2, <3>2
  <2>4. nextId' # 1
    <3>1. ASSUME nextId' = 1 PROVE FALSE
      <4>1. nextId \in Ids /\ nextId >= 1
        BY <1>3 DEF Ids
      <4>2. \A id \in Ids : id >= nextId' => events'[id] = <<>>
        BY DEF SInv, Unborn
      <4> QED
        BY <2>3, <3>1, <4>1, <4>2
    <3> QED
      BY <3>1
  <2> QED
    BY <1>3, <2>1, <2>2, <2>3, <2>4, PhaseIs DEF AcceptConnection
<1>5. ASSUME NEW id \in Ids, ~born \/ id # nextId
      PROVE  Ages(id)
  <2>1. nextId' = nextId \/ (nextId' = nextId + 1 /\ id # nextId)
    BY <1>1, <1>4, <1>5
  <2> QED
    BY <1>2, <2>1, PhaseAges
<1>6. ASSUME NEW s \in Seq(Entry), NEW op, NEW I, Counted(op, I)
      PROVE  Cnt(s \o Rearm, EntriesOf(op, I))
               = Cnt(s, EntriesOf(op, I)) + Bit(op = "accept" /\ ~Cqe.more)
  <2>1. PICK e : e = AcceptEntry
    OBVIOUS
  <2>2. e \in Entry /\ e.op = "accept" /\ e.id = 0
    BY <2>1, EntryTypes DEF AcceptEntry
  <2>3. e \in EntriesOf(op, I) <=> op = "accept"
    BY <1>6, <2>2 DEF EntriesOf, Counted, AnyId
  <2>4. Cnt(s, EntriesOf(op, I)) \in Nat
    BY AtFinite
  <2>5. CASE Cqe.more
    <3>1. s \o Rearm = s
      BY <2>5 DEF Rearm
    <3> QED
      BY <2>4, <2>5, <3>1 DEF Bit
  <2>6. CASE ~Cqe.more
    <3>1. s \o Rearm = Append(s, e)
      <4>1. Rearm = <<e>>
        BY <2>1, <2>6 DEF Rearm
      <4>2. s \o <<e>> = Append(s, e)
        BY <2>2
      <4> QED
        BY <4>1, <4>2
    <3>2. Cnt(Append(s, e), EntriesOf(op, I)) = Cnt(s, EntriesOf(op, I)) + Bit(e \in EntriesOf(op, I))
      BY <2>2, CntAppend
    <3> QED
      BY <2>3, <2>6, <3>1, <3>2 DEF Bit
  <2> QED
    BY <2>5, <2>6
<1>7. born => Cqe.fd \in Fds
  BY <1>3 DEF Completion
<1> HIDE DEF born
<1>8. ASSUME NEW op, NEW I, Counted(op, I)
      PROVE  InQueue(op, I)' = InQueue(op, I) + Bit(born /\ op = "recv" /\ nextId \in I)
                                + Bit(op = "accept" /\ ~Cqe.more)
  <2>1. CASE nextId' = nextId /\ sq' = sq \o Rearm
    <3>1. ~born
      BY <1>3, <1>4, <2>1 DEF Ids
    <3>2. InQueue(op, I)' = InQueue(op, I) + Bit(op = "accept" /\ ~Cqe.more) /\ InQueue(op, I) \in Nat
      BY <1>2, <1>3, <1>6, <1>8, <2>1, ArmedType DEF InQueue
    <3> QED
      BY <3>1, <3>2 DEF Bit
  <2>2. CASE born /\ sq' = Append(sq, RecvEntry(Cqe.fd, nextId)) \o Rearm
    <3>1. PICK e : e = RecvEntry(Cqe.fd, nextId)
      OBVIOUS
    <3>2. /\ e \in Entry
          /\ Bit(e \in EntriesOf(op, I)) = Bit(op = "recv" /\ nextId \in I)
      BY <1>3, <1>7, <1>8, <2>2, <3>1, Counts
    <3>3. Cnt(Append(sq, e), EntriesOf(op, I)) = Cnt(sq, EntriesOf(op, I)) + Bit(e \in EntriesOf(op, I))
      BY <1>3, <3>2, CntAppend
    <3>4. PICK t : t = Append(sq, e)
      OBVIOUS
    <3>5. t \in Seq(Entry) /\ sq' = t \o Rearm
      BY <1>3, <2>2, <3>1, <3>2, <3>4
    <3>6. Cnt(t \o Rearm, EntriesOf(op, I)) = Cnt(t, EntriesOf(op, I)) + Bit(op = "accept" /\ ~Cqe.more)
      BY <1>6, <1>8, <3>5
    <3>7. Bit(born /\ op = "recv" /\ nextId \in I) = Bit(op = "recv" /\ nextId \in I)
      BY <2>2 DEF Bit
    <3> QED
      BY <3>2, <3>3, <3>4, <3>5, <3>6, <3>7 DEF InQueue
  <2> QED
    BY <1>1, <2>1, <2>2
<1>9. ASSUME NEW op, NEW I, Counted(op, I)
      PROVE  /\ Armed(op, I)' = Armed(op, I) + Bit(born /\ op = "recv" /\ nextId \in I)
             /\ Armed(op, I) \in Nat /\ EndsAreLast'
  <2>1. PICK n : n = Bit(born /\ op = "recv" /\ nextId \in I) + Bit(op = "accept" /\ ~Cqe.more)
    OBVIOUS
  <2>2. InQueue(op, I)' = InQueue(op, I) + n /\ n \in Int
    <3>1. InQueue(op, I) \in Nat
      BY <1>2, ArmedType
    <3> QED
      BY <1>8, <1>9, <2>1, <3>1 DEF Bit
  <2>3. /\ Armed(op, I)' = Armed(op, I) + n
               - Bit(Cqe.op = op /\ (op = "recv" => Cqe.id \in I) /\ ~Cqe.more)
        /\ Armed(op, I) \in Nat /\ (EndsAreLast => EndsAreLast')
    BY <1>1, <1>2, <1>9, <2>2, PopsArmed
  <2>4. EndsAreLast
    BY DEF AInv
  <2>5. Bit(Cqe.op = op /\ (op = "recv" => Cqe.id \in I) /\ ~Cqe.more) = Bit(op = "accept" /\ ~Cqe.more)
    BY <1>1 DEF Bit
  <2> QED
    BY <2>1, <2>3, <2>4, <2>5 DEF Bit
<1>10. Counted("accept", AnyId) /\ Counted("read", AnyId) /\ \A id \in Ids : Counted("recv", {id})
  BY DEF Counted
<1>11. EndsAreLast' /\ Armed("accept", AnyId)' = 1
  <2>1. Armed("accept", AnyId) = 1
    BY DEF AInv
  <2>2. EndsAreLast' /\ Armed("accept", AnyId)' = Armed("accept", AnyId) + 0
    BY <1>9, <1>10 DEF Bit
  <2> QED
    BY <2>1, <2>2
<1>12. Armed("read", AnyId)' = Armed("read", AnyId)
  <2>1. Armed("read", AnyId)' = Armed("read", AnyId) + 0 /\ Armed("read", AnyId) \in Nat
    BY <1>9, <1>10 DEF Bit
  <2> QED
    BY <2>1
<1>13. ASSUME NEW id \in Ids
       PROVE  RecvArmed(id)'
  <2>1. /\ Armed("recv", {id})' = Armed("recv", {id}) + Bit(born /\ nextId = id)
        /\ Armed("recv", {id}) \in Nat
    <3>1. Counted("recv", {id})
      BY <1>10
    <3>2. /\ Armed("recv", {id})' = Armed("recv", {id}) + Bit(born /\ "recv" = "recv" /\ nextId \in {id})
          /\ Armed("recv", {id}) \in Nat
      BY <1>9, <3>1
    <3> QED
      BY <3>2 DEF Bit
  <2>2. CASE ~born \/ id # nextId
    <3>1. Armed("recv", {id})' = Armed("recv", {id}) /\ Ages(id)
      BY <1>5, <2>1, <2>2 DEF Bit
    <3> QED
      BY <3>1, RecvKept DEF AInv
  <2>3. CASE born /\ id = nextId
    <3>1. Armed("recv", {id}) = 0
      <4>1. RecvArmed(id) /\ Phase(id) = "unborn"
        BY <1>4, <2>3 DEF AInv
      <4> QED
        BY <4>1 DEF RecvArmed
    <3>2. Armed("recv", {id})' = 1
      BY <2>1, <2>3, <3>1 DEF Bit
    <3>3. Phase(id)' # "unborn"
      <4>1. events'[id] # <<>>
        BY <1>4, <2>3
      <4> QED
        BY <4>1, PhaseIs
    <3> QED
      BY <3>2, <3>3 DEF RecvArmed
  <2> QED
    BY <2>2, <2>3
<1> QED
  BY <1>1, <1>11, <1>12, <1>13 DEF AInv, Bit

LEMMA NextArmed ==
  ASSUME SInv, SInv', AInv, [Next]_vars
  PROVE  AInv'
<1> SUFFICES ASSUME Listening' PROVE AInv'
  BY DEF AInv
<1>1. Listening /\ TypeOK' /\ IInv
  BY ListeningBefore DEF SInv, TInv, IInv
<1>2. ASSUME \/ TakeCommand \/ ExecuteSend \/ ExecuteClose \/ ExpireHalfClosed \/ ExpireIdle
             \/ CloseNext \/ EnterWait \/ Reap \/ HandleSend \/ EndLoop
             \/ Kernel \/ Enqueue \/ Stop \/ UNCHANGED vars
      PROVE  AInv'
  <2>1. nextId' = nextId
    <3>1. CASE TakeCommand \/ ExecuteSend \/ ExecuteClose \/ ExpireHalfClosed \/ ExpireIdle
                 \/ CloseNext \/ EnterWait
      BY <3>1 DEF TakeCommand, ExecuteSend, ExecuteClose, ExpireHalfClosed, ExpireIdle,
                  CloseNext, EnterWait, tableVars
    <3>2. CASE Reap \/ HandleSend \/ EndLoop \/ Enqueue \/ Stop \/ UNCHANGED vars
      BY <3>2 DEF Reap, HandleSend, EndLoop, Enqueue, Stop, vars, tableVars
    <3>3. CASE Kernel
      BY <3>3 DEF Kernel, KernelAccept, KernelAcceptError, KernelRecvData, KernelRecvEnd,
         KernelSend, KernelSendError, KernelNotify, KernelRead, tableVars
    <3> QED
      BY <1>2, <3>1, <3>2, <3>3
  <2>2. \A id \in Ids : Ages(id)
    BY <2>1, PhaseAges
  <2>3. ArmedStays /\ (pc' = "redrain" <=> pc = "redrain")
    BY <1>1, <1>2, QuietArmed
  <2> QED
    BY <1>1, <2>2, <2>3, StaysArmed
<1>3. CASE \/ StopRound \/ StopEndRound \/ StopForce \/ ForceClose \/ Exit \/ WorkerFails
  <2>1. ticks \in Nat
    BY <1>1, NumberAssumption DEF IInv, TypeOK
  <2>2. ~Listening'
    BY <1>1, <1>3, <2>1 DEF StopRound, StopEndRound, StopForce, ForceClose, Exit, WorkerFails,
                            Listening
  <2> QED
    BY <2>2
<1> QED
  BY <1>1, <1>2, <1>3, RecvArmedNext, ReadArmedNext, RedrainNext, AcceptArmedNext
     DEF Next, Worker

LEMMA CntTwo ==
  ASSUME NEW e, NEW f, NEW S
  PROVE  Cnt(<<e, f>>, S) = Bit(e \in S) + Bit(f \in S)
<1>1. At(<<e, f>>, S) = {i \in {1, 2} : (i = 1 /\ e \in S) \/ (i = 2 /\ f \in S)}
  BY DEF At
<1>2. Cardinality({1}) = 1 /\ Cardinality({2}) = 1 /\ Cardinality({}) = 0
  BY FS_Singleton, FS_EmptySet
<1>3. Cardinality({1, 2}) = 2
  <2>1. IsFiniteSet({1})
    BY FS_Singleton
  <2>2. Cardinality({1} \cup {2}) = Cardinality({1}) + 1
    <3>1. PICK A : A = {1}
      OBVIOUS
    <3>2. IsFiniteSet(A) /\ 2 \notin A
      BY <2>1, <3>1, 2 # 1
    <3>3. Cardinality(A \cup {2}) = Cardinality(A) + 1
      BY <3>2, FS_AddElement
    <3> QED
      BY <3>1, <3>3
  <2>3. {1} \cup {2} = {1, 2}
    OBVIOUS
  <2> QED
    BY <1>2, <2>2, <2>3
<1>4. CASE e \in S /\ f \in S
  <2>1. At(<<e, f>>, S) = {1, 2}
    BY <1>1, <1>4
  <2> QED
    BY <1>3, <1>4, <2>1 DEF Cnt, Bit
<1>5. CASE e \in S /\ f \notin S
  <2>1. At(<<e, f>>, S) = {1}
    BY <1>1, <1>5
  <2> QED
    BY <1>2, <1>5, <2>1 DEF Cnt, Bit
<1>6. CASE e \notin S /\ f \in S
  <2>1. At(<<e, f>>, S) = {2}
    BY <1>1, <1>6
  <2> QED
    BY <1>2, <1>6, <2>1 DEF Cnt, Bit
<1>7. CASE e \notin S /\ f \notin S
  <2>1. At(<<e, f>>, S) = {}
    BY <1>1, <1>7
  <2> QED
    BY <1>2, <1>7, <2>1 DEF Cnt, Bit
<1> QED
  BY <1>4, <1>5, <1>6, <1>7

LEMMA InitArmed == Init => AInv
<1> SUFFICES ASSUME Init PROVE AInv
  OBVIOUS
<1>1. /\ sq = <<AcceptEntry, ReadEntry>> /\ ops = <<>> /\ Pending = <<>> /\ pc = "process"
      /\ \A id \in Ids : events[id] = <<>>
  BY DEF Init, Pending
<1>2. EndsAreLast
  BY <1>1 DEF EndsAreLast, Elems
<1>3. ASSUME NEW op, NEW I, Counted(op, I)
      PROVE  Armed(op, I) = Bit(op = "accept") + Bit(op = "read")
  <2>0. PICK e : e = AcceptEntry
    OBVIOUS
  <2>1. PICK f : f = ReadEntry
    OBVIOUS
  <2>2. /\ e \in Entry /\ e.op = "accept" /\ e.id = 0
        /\ f \in Entry /\ f.op = "read" /\ f.id = 0
    BY <2>0, <2>1, EntryTypes DEF ReadEntry, AcceptEntry
  <2>3. /\ e \in EntriesOf(op, I) <=> op = "accept"
        /\ f \in EntriesOf(op, I) <=> op = "read"
    BY <1>3, <2>2 DEF EntriesOf, Counted, AnyId
  <2>4. Cnt(sq, EntriesOf(op, I)) = Bit(e \in EntriesOf(op, I)) + Bit(f \in EntriesOf(op, I))
    BY <1>1, <2>0, <2>1, CntTwo
  <2>5. Cnt(ops, OpsOf(op, I)) = 0 /\ Cnt(Pending, EndsOf(op, I)) = 0
    BY <1>1, CntEmpty
  <2> QED
    BY <2>3, <2>4, <2>5 DEF Armed, InQueue, InRing, Ended, Bit
<1>4. Counted("accept", AnyId) /\ Counted("read", AnyId) /\ \A id \in Ids : Counted("recv", {id})
  BY DEF Counted
<1>5. Armed("accept", AnyId) = 1 /\ Armed("read", AnyId) = 1
  BY <1>3, <1>4 DEF Bit
<1>6. ASSUME NEW id \in Ids PROVE RecvArmed(id)
  <2>1. Armed("recv", {id}) = 0
    BY <1>3, <1>4 DEF Bit
  <2>2. Phase(id) = "unborn"
    BY <1>1, PhaseIs
  <2> QED
    BY <2>1, <2>2 DEF RecvArmed
<1> QED
  BY <1>1, <1>2, <1>5, <1>6 DEF AInv, Bit

-----------------------------------------------------------------------------
(***************************************************************************)
(* The property.                                                           *)
(***************************************************************************)
LEMMA TokensAre ==
  ASSUME TypeOK
  PROVE  /\ \A id \in Ids : RecvTokens(id) = Armed("recv", {id})
         /\ AcceptTokens = Armed("accept", AnyId)
         /\ EndsAreLast => ReadTokens = Armed("read", AnyId) + Bit(pc = "redrain")
<1>1. sq \in Seq(Entry) /\ ops \in Seq(Operation) /\ Pending \in Seq(Completion)
  BY PendingType DEF TypeOK
<1>2. /\ \A i \in DOMAIN sq : sq[i] \in Entry /\ sq[i].id \in AnyId
      /\ \A i \in DOMAIN ops : ops[i] \in Operation /\ ops[i].id \in AnyId
      /\ \A i \in DOMAIN Pending : Pending[i] \in Completion /\ Pending[i].id \in AnyId
  <2>1. /\ \A e \in Entry : e.id \in AnyId
        /\ \A o \in Operation : o.id \in AnyId
        /\ \A e \in Completion : e.id \in AnyId
    BY DEF Entry, Operation, Completion, AnyId
  <2>2. /\ \A i \in DOMAIN sq : sq[i] \in Entry
        /\ \A i \in DOMAIN ops : ops[i] \in Operation
        /\ \A i \in DOMAIN Pending : Pending[i] \in Completion
    BY <1>1
  <2> QED
    BY <2>1, <2>2
<1>3. ASSUME NEW id \in Ids
      PROVE  RecvTokens(id) = Armed("recv", {id})
  <2>1. {i \in DOMAIN sq : sq[i].op = "recv" /\ sq[i].id = id} = At(sq, EntriesOf("recv", {id}))
    BY <1>2 DEF At, EntriesOf
  <2>2. {i \in DOMAIN ops : ops[i].op = "recv" /\ ops[i].id = id} = At(ops, OpsOf("recv", {id}))
    BY <1>2 DEF At, OpsOf
  <2>3. {i \in DOMAIN Pending : Pending[i].op = "recv" /\ Pending[i].id = id /\ ~Pending[i].more}
          = At(Pending, EndsOf("recv", {id}))
    BY <1>2 DEF At, EndsOf
  <2> QED
    BY <2>1, <2>2, <2>3 DEF RecvTokens, Armed, InQueue, InRing, Ended, Cnt
<1>4. ASSUME NEW op
      PROVE  /\ {i \in DOMAIN sq : sq[i].op = op} = At(sq, EntriesOf(op, AnyId))
             /\ {i \in DOMAIN ops : ops[i].op = op} = At(ops, OpsOf(op, AnyId))
             /\ {i \in DOMAIN Pending : Pending[i].op = op /\ ~Pending[i].more}
                  = At(Pending, EndsOf(op, AnyId))
  BY <1>2 DEF At, EntriesOf, OpsOf, EndsOf
<1>5. AcceptTokens = Armed("accept", AnyId)
  BY <1>4 DEF AcceptTokens, Armed, InQueue, InRing, Ended, Cnt
<1>6. ASSUME EndsAreLast
      PROVE  ReadTokens = Armed("read", AnyId) + Bit(pc = "redrain")
  <2>1. \A i \in DOMAIN Pending : Pending[i].op = "read" => ~Pending[i].more
    BY <1>6 DEF EndsAreLast, Elems, Lasts
  <2>2. {i \in DOMAIN Pending : Pending[i].op = "read"}
          = {i \in DOMAIN Pending : Pending[i].op = "read" /\ ~Pending[i].more}
    BY <2>1
  <2> QED
    BY <1>4, <2>2 DEF ReadTokens, Armed, InQueue, InRing, Ended, Cnt, Bit
<1> QED
  BY <1>3, <1>5, <1>6

LEMMA ArmedSound == SInv /\ AInv => ArmedOnce
<1> SUFFICES ASSUME SInv, AInv, Listening
             PROVE  /\ \A fd \in LiveFds :
                         LET n == RecvTokens(connections[fd].id)
                         IN  IF connections[fd].closeAfterSend THEN n <= 1 ELSE n = 1
                    /\ AcceptTokens = 1 /\ ReadTokens = 1
  BY DEF ArmedOnce, OneRecvPerConnection, OneAcceptAndOneRead, Listening
<1>1. TypeOK /\ FdsResolve /\ IdsUsed /\ Unborn
  BY DEF SInv, TInv, IInv
<1>2. AcceptTokens = 1 /\ ReadTokens = 1
  BY <1>1, TokensAre DEF AInv
<1>3. ASSUME NEW fd \in LiveFds
      PROVE  LET n == RecvTokens(connections[fd].id)
             IN  IF connections[fd].closeAfterSend THEN n <= 1 ELSE n = 1
  <2>1. PICK id : id = connections[fd].id
    OBVIOUS
  <2>2. fd \in Fds /\ id \in Ids /\ idToFd[id] = fd /\ fd # NoFd /\ id < nextId
    <3>1. fd \in Fds /\ Live(fd)
      BY DEF LiveFds
    <3>2. connections[fd] \in Connection
      BY <1>1, <3>1 DEF TypeOK
    <3>3. connections[fd].id \in Ids
      BY <3>1, <3>2, ConnectionFields DEF Live
    <3> QED
      BY <1>1, <2>1, <3>1, <3>3, FdAssumption DEF FdsResolve, IdsUsed
  <2>3. RecvTokens(id) = Armed("recv", {id}) /\ RecvArmed(id)
    BY <1>1, <2>2, TokensAre DEF AInv
  <2>4. ~connections[fd].closeAfterSend => Phase(id) = "open"
    BY <1>1, <2>2, PhaseIs DEF Unborn, ConnOf
  <2> QED
    BY <2>1, <2>3, <2>4 DEF RecvArmed
<1> QED
  BY <1>2, <1>3

\* What the worker listens to stays armed, and once: through every way in which
\* a multishot accept or receive ends, every drain after a wake-up, every reused
\* descriptor and every close, an open connection has exactly one receive, the
\* listener one accept, and the eventfd one read (handle_tcp_recv,
\* handle_tcp_accept, drain_tcp_commands).
THEOREM ListensOnce == IdsSuffice /\ Spec => []ArmedOnce
<1>1. ASSUME IdsSuffice PROVE Spec => []ArmedOnce
  <2>1. SInv /\ SInv' /\ AInv /\ [Next]_vars => AInv'
    BY NextArmed
  <2>2. SInv /\ AInv => ArmedOnce
    BY ArmedSound
  <2>3. Spec => []SInv
    BY <1>1, SInvHolds, PTL
  <2>4. Init => AInv
    BY InitArmed
  <2> QED
    BY <2>1, <2>2, <2>3, <2>4, PTL DEF Spec
<1> QED
  BY <1>1
=============================================================================
