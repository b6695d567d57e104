------------------------- MODULE HttpWorkerProofs -------------------------
(***************************************************************************)
(* What holds of the HTTP worker for any number of sockets, descriptors    *)
(* and receives, any data and any length of the response.                  *)
(*                                                                         *)
(* A connection has one receive and, once it is answered, one send; each   *)
(* is a token that moves from the submission queue to the kernel, from     *)
(* there to the completion queue and into the batch, and back when its     *)
(* handler pushes it again.  The invariant counts them wherever they wait, *)
(* for descriptors and ids may be others' by the time they arrive.         *)
(*                                                                         *)
(* The probe is proved right by induction over the data, as the least      *)
(* counterexample: the set of the lengths up to which it is right holds 0  *)
(* and with every number the next.                                         *)
(***************************************************************************)
EXTENDS HttpWorker, FiniteSetTheorems, SequenceTheorems, WellFoundedInduction, TLAPS

-----------------------------------------------------------------------------
(* Induction, and what observe computes.                                   *)

\* A set of natural numbers has a least member.
LEMMA LeastMember ==
  ASSUME NEW T, T \subseteq Nat, T # {}
  PROVE  \E m \in T : \A n \in T : m <= n
<1>1. \E m \in T : \A n \in T : ~(n < m)
  <2>1. IsWellFoundedOn(OpToRel(<, Nat), Nat)
    BY NatLessThanWellFounded
  <2>2. \E m \in T : \A n \in T : ~(<<n, m>> \in OpToRel(<, Nat))
    BY <2>1, WFMin
  <2> QED
    BY <2>2 DEF OpToRel
<1>2. \A m, n \in Nat : ~(n < m) => m <= n
  OBVIOUS
<1> QED
  BY <1>1, <1>2

\* Induction: a property of every number up to n, as the set of those that lack it.
LEMMA UpTo ==
  ASSUME NEW n \in Nat, NEW P, 0 \in P, \A k \in 1..n : k - 1 \in P => k \in P
  PROVE  0..n \subseteq P
<1>1. SUFFICES ASSUME 0..n \ P # {} PROVE FALSE
  OBVIOUS
<1>2. PICK m \in 0..n \ P : \A k \in 0..n \ P : m <= k
  <2>1. 0..n \ P \subseteq Nat
    OBVIOUS
  <2> QED
    BY <1>1, <2>1, LeastMember
<1>3. m \in 1..n /\ m - 1 \in 0..n /\ ~(m <= m - 1)
  BY <1>2
<1>4. m - 1 \in P
  BY <1>2, <1>3
<1> QED
  BY <1>2, <1>3, <1>4

\* The folding function of the community modules over the first n bytes:
\* sets of positions, the last of which is read last.
Iterates(g, probe, s, n) ==
  g = [t \in SUBSET (1..n) |->
         IF t = {} THEN probe ELSE ObserveByte(g[t \ {Max(t)}], s[Max(t)])]

Iteration(probe, s, n) == CHOOSE g : Iterates(g, probe, s, n)

\* observe is that function at all the positions.
LEMMA ObserveIs ==
  ASSUME NEW S, NEW probe, NEW s \in Seq(S)
  PROVE  Observe(probe, s) = Iteration(probe, s, Len(s))[1..Len(s)]
<1>1. DOMAIN s = 1..Len(s)
  OBVIOUS
<1> QED
  BY <1>1 DEF Observe, FoldLeft, MapThenFoldSet, Iterates, Iteration

\* The last position of a set that has position n.
LEMMA MaxIs ==
  ASSUME NEW n \in Nat, NEW t \in SUBSET (1..n), n \in t
  PROVE  Max(t) = n
<1>1. /\ \A m \in t : n >= m
      /\ \A x \in t : (\A m \in t : x >= m) => x = n
  OBVIOUS
<1>2. \E x \in t : \A m \in t : x >= m
  BY <1>1
<1>3. PICK x : x = Max(t)
  OBVIOUS
<1>4. x \in t /\ \A m \in t : x >= m
  BY <1>2, <1>3 DEF Max
<1> QED
  BY <1>1, <1>3, <1>4

\* No position.
LEMMA NoneIs == 1..0 = {}
OBVIOUS

\* The fold is well defined.
LEMMA IteratesExists ==
  ASSUME NEW probe, NEW s, NEW n \in Nat
  PROVE  \E g : Iterates(g, probe, s, n)
<1>1. PICK P : P = {k \in 0..n : \E g : Iterates(g, probe, s, k)}
  OBVIOUS
<1>2. 0 \in P
  <2>1. PICK g : g = [t \in SUBSET (1..0) |-> probe]
    OBVIOUS
  <2>2. \A t \in SUBSET (1..0) : t = {}
    OBVIOUS
  <2>3. Iterates(g, probe, s, 0)
    BY <2>1, <2>2 DEF Iterates
  <2> QED
    BY <1>1, <2>3
<1>3. ASSUME NEW k \in 1..n, k - 1 \in P PROVE k \in P
  <2>1. PICK g : Iterates(g, probe, s, k - 1)
    BY <1>1, <1>3
  <2>2. PICK old : old = SUBSET (1..(k - 1))
    OBVIOUS
  <2>3. g = [t \in old |-> IF t = {} THEN probe
                           ELSE ObserveByte(g[t \ {Max(t)}], s[Max(t)])]
    BY <2>1, <2>2 DEF Iterates
  <2>4. PICK h : h = [t \in SUBSET (1..k) |->
                        IF k \in t THEN ObserveByte(g[t \ {k}], s[k]) ELSE g[t]]
    OBVIOUS
  <2>5. ASSUME NEW t \in SUBSET (1..k)
        PROVE  h[t] = IF t = {} THEN probe ELSE ObserveByte(h[t \ {Max(t)}], s[Max(t)])
    <3>1. CASE k \in t
      <4>1. Max(t) = k /\ t # {}
        BY <3>1, MaxIs
      <4>2. t \ {k} \in SUBSET (1..k) /\ k \notin t \ {k}
        OBVIOUS
      <4>3. h[t] = ObserveByte(g[t \ {k}], s[k]) /\ h[t \ {k}] = g[t \ {k}]
        BY <2>4, <3>1, <4>2
      <4> QED
        BY <4>1, <4>3
    <3>2. CASE k \notin t
      <4>1. t \in old /\ h[t] = g[t]
        BY <2>2, <2>4, <3>2
      <4>2. t \ {Max(t)} \in SUBSET (1..k) /\ k \notin t \ {Max(t)}
        BY <3>2
      <4>3. h[t \ {Max(t)}] = g[t \ {Max(t)}]
        BY <2>4, <4>2
      <4> QED
        BY <2>3, <4>1, <4>3
    <3> QED
      BY <3>1, <3>2
  <2>6. h = [t \in SUBSET (1..k) |->
               IF t = {} THEN probe ELSE ObserveByte(h[t \ {Max(t)}], s[Max(t)])]
    BY <2>4, <2>5
  <2>7. Iterates(h, probe, s, k)
    BY <2>6 DEF Iterates
  <2> QED
    BY <1>1, <2>7
<1>4. 0..n \subseteq P
  BY <1>2, <1>3, UpTo
<1> QED
  BY <1>1, <1>4

\* So CHOOSE finds one.
LEMMA IterationIs ==
  ASSUME NEW probe, NEW s, NEW n \in Nat
  PROVE  Iterates(Iteration(probe, s, n), probe, s, n)
BY IteratesExists DEF Iteration

\* One more byte.
ByteByByte(g, s, n) == \A k \in 1..n : g[1..k] = ObserveByte(g[1..(k - 1)], s[k])

\* One byte more.
LEMMA IteratesStep ==
  ASSUME NEW probe, NEW s, NEW n \in Nat, NEW g, Iterates(g, probe, s, n)
  PROVE  ByteByByte(g, s, n)
<1> SUFFICES ASSUME NEW k \in 1..n PROVE g[1..k] = ObserveByte(g[1..(k - 1)], s[k])
  BY DEF ByteByByte
<1>1. 1..k \in SUBSET (1..n) /\ 1..k # {} /\ (1..k) \ {k} = 1..(k - 1) /\ Max(1..k) = k
  <2>1. k \in Nat /\ k \in 1..k /\ 1..k \in SUBSET (1..k)
    OBVIOUS
  <2>2. Max(1..k) = k
    BY <2>1, MaxIs
  <2>3. 1..k \in SUBSET (1..n) /\ (1..k) \ {k} = 1..(k - 1)
    OBVIOUS
  <2> QED
    BY <2>1, <2>2, <2>3
<1> QED
  BY <1>1 DEF Iterates

\* An empty buffer leaves the probe alone.
LEMMA ObserveNothing ==
  ASSUME NEW probe
  PROVE  Observe(probe, <<>>) = probe
<1>1. <<>> \in Seq({}) /\ Len(<<>>) = 0
  OBVIOUS
<1>2. PICK g : g = Iteration(probe, <<>>, 0)
  OBVIOUS
<1>3. Iterates(g, probe, <<>>, 0)
  <2>1. \E h : Iterates(h, probe, <<>>, 0)
    BY IteratesExists
  <2> QED
    BY <1>2, <2>1 DEF Iteration
<1>4. 1..0 = {} /\ {} \in SUBSET (1..0)
  OBVIOUS
<1>5. g[{}] = probe
  BY <1>3, <1>4 DEF Iterates
<1>6. Observe(probe, <<>>) = Iteration(probe, <<>>, 0)[1..0]
  <2>1. PICK s : s = <<>>
    OBVIOUS
  <2>2. s \in Seq({}) /\ Len(s) = 0
    BY <1>1, <2>1
  <2>3. Observe(probe, s) = Iteration(probe, s, Len(s))[1..Len(s)]
    BY <2>2, ObserveIs
  <2> QED
    BY <2>1, <2>2, <2>3
<1> QED
  BY <1>2, <1>4, <1>5, <1>6

\* observe reads byte by byte.
LEMMA ObserveAppend ==
  ASSUME NEW S, NEW probe, NEW s \in Seq(S), NEW b \in S
  PROVE  Observe(probe, Append(s, b)) = ObserveByte(Observe(probe, s), b)
<1>1. PICK t : t = Append(s, b)
  OBVIOUS
<1>2. PICK n : n = Len(s)
  OBVIOUS
<1>3. t \in Seq(S) /\ Len(t) = n + 1 /\ n \in Nat /\ t[n + 1] = b /\ \A k \in 1..n : t[k] = s[k]
  BY <1>1, <1>2
<1>4. PICK g : g = Iteration(probe, s, n)
  OBVIOUS
<1>5. PICK h : h = Iteration(probe, t, n + 1)
  OBVIOUS
<1>6. Iterates(g, probe, s, n) /\ Iterates(h, probe, t, n + 1)
  <2>1. n + 1 \in Nat
    BY <1>3
  <2>2. Iterates(Iteration(probe, t, n + 1), probe, t, n + 1)
    BY <2>1, IterationIs
  <2>3. Iterates(Iteration(probe, s, n), probe, s, n)
    BY <1>3, IterationIs
  <2> QED
    BY <1>4, <1>5, <2>2, <2>3
<1>7. Observe(probe, s) = g[1..n]
  <2>1. Observe(probe, s) = Iteration(probe, s, Len(s))[1..Len(s)]
    BY ObserveIs
  <2> QED
    BY <1>2, <1>4, <2>1
<1>8. Observe(probe, t) = h[1..(n + 1)]
  <2>1. Observe(probe, t) = Iteration(probe, t, Len(t))[1..Len(t)]
    BY <1>3, ObserveIs
  <2> QED
    BY <1>3, <1>5, <2>1
<1>a. ByteByByte(g, s, n) /\ ByteByByte(h, t, n + 1)
  <2>1. PICK m : m = n + 1
    OBVIOUS
  <2>2. Iterates(h, probe, t, m) /\ m \in Nat
    BY <1>3, <1>6, <2>1
  <2>3. ByteByByte(h, t, m)
    BY <2>2, IteratesStep
  <2>4. ByteByByte(g, s, n)
    BY <1>3, <1>6, IteratesStep
  <2> QED
    BY <2>1, <2>3, <2>4
<1>9. h[1..(n + 1)] = ObserveByte(h[1..n], b)
  <2>1. PICK k : k = n + 1
    OBVIOUS
  <2>2. k \in 1..k /\ k \in Nat /\ k - 1 = n /\ t[k] = b
    BY <1>3, <2>1
  <2>3. ByteByByte(h, t, k)
    BY <1>a, <2>1
  <2>4. h[1..k] = ObserveByte(h[1..(k - 1)], t[k])
    BY <2>2, <2>3 DEF ByteByByte
  <2> QED
    BY <2>1, <2>2, <2>4
<1>10. PICK P : P = {k \in 0..n : h[1..k] = g[1..k]}
  OBVIOUS
<1>11. 0 \in P
  <2>0. \A T : {} \in SUBSET T
    OBVIOUS
  <2>1. {} \in SUBSET (1..n) /\ {} \in SUBSET (1..(n + 1))
    BY <2>0, Zenon
  <2>2. g[{}] = probe /\ h[{}] = probe
    BY <1>6, <2>1 DEF Iterates
  <2>3. h[1..0] = g[1..0]
    BY <2>2, NoneIs, Zenon
  <2>4. 0 \in 0..n
    BY <1>3
  <2> QED
    BY <1>10, <2>3, <2>4
<1>12. ASSUME NEW k \in 1..n, k - 1 \in P PROVE k \in P
  <2>1. k \in 1..(n + 1) /\ n + 1 \in Nat
    BY <1>3
  <2>2. h[1..k] = ObserveByte(h[1..(k - 1)], t[k])
    BY <1>a, <2>1 DEF ByteByByte
  <2>3. g[1..k] = ObserveByte(g[1..(k - 1)], s[k])
    BY <1>a DEF ByteByByte
  <2>4. h[1..(k - 1)] = g[1..(k - 1)]
    BY <1>10, <1>12
  <2> QED
    BY <1>3, <1>10, <2>2, <2>3, <2>4
<1>13. h[1..n] = g[1..n]
  <2>1. 0..n \subseteq P
    BY <1>3, <1>11, <1>12, UpTo
  <2> QED
    BY <1>3, <1>10, <2>1
<1> QED
  BY <1>1, <1>7, <1>8, <1>9, <1>13

-----------------------------------------------------------------------------
(* What the probe remembers.                                               *)

\* The end of what was read, as a beginning of the header end.
Ends1(d) == Len(d) >= 1 /\ d[Len(d)] = CR
Ends2(d) == Len(d) >= 2 /\ d[Len(d) - 1] = CR /\ d[Len(d)] = LF
Ends3(d) == Len(d) >= 3 /\ d[Len(d) - 2] = CR /\ d[Len(d) - 1] = LF /\ d[Len(d)] = CR
EndsAt(d, i) == d[i - 3] = CR /\ d[i - 2] = LF /\ d[i - 1] = CR /\ d[i] = LF
HasHeaderEnd(d) == \E i \in 4..Len(d) : EndsAt(d, i)

\* What the probe remembers of the data d it has read.
Matches(m, d) ==
  /\ m \in 0..3
  /\ m = 3 <=> Ends3(d)
  /\ m = 2 <=> Ends2(d)
  /\ m = 1 <=> Ends1(d) /\ ~Ends3(d)
Remembers(p, d) ==
  /\ p.prefix = SubSeq(d, 1, IF Len(d) < 5 THEN Len(d) ELSE 5)
  /\ p.headerEndMatch \in 0..3
  /\ p.sawHeaderEnd \in BOOLEAN /\ (p.sawHeaderEnd <=> HasHeaderEnd(d))
  /\ ~p.sawHeaderEnd => Matches(p.headerEndMatch, d)

\* The header end, byte by byte.
LEMMA HeaderEndIs ==
  /\ CR # LF /\ Len(HeaderEnd) = 4 /\ HeaderEnd \in Seq({CR, LF})
  /\ HeaderEnd[1] = CR /\ HeaderEnd[2] = LF /\ HeaderEnd[3] = CR /\ HeaderEnd[4] = LF
<1>1. CR # LF
  BY DEF CR, LF
<1>2. HeaderEnd \in Seq({CR, LF}) /\ Len(HeaderEnd) = 4
  BY DEF HeaderEnd
<1>3. HeaderEnd[1] = CR /\ HeaderEnd[2] = LF /\ HeaderEnd[3] = CR /\ HeaderEnd[4] = LF
  BY DEF HeaderEnd
<1> QED
  BY <1>1, <1>2, <1>3

\* A byte that goes on with the match, or starts it again.
LEMMA MatchIs ==
  ASSUME NEW m \in 0..3, NEW b
  PROVE  /\ m = 0 => Match(m, b) = IF b = CR THEN 1 ELSE 0
         /\ m = 1 => Match(m, b) = IF b = LF THEN 2 ELSE IF b = CR THEN 1 ELSE 0
         /\ m = 2 => Match(m, b) = IF b = CR THEN 3 ELSE 0
         /\ m = 3 => Match(m, b) = IF b = LF THEN 4 ELSE IF b = CR THEN 1 ELSE 0
<1>1. Match(m, b) = IF b = HeaderEnd[m + 1] THEN m + 1 ELSE IF b = CR THEN 1 ELSE 0
  BY HeaderEndIs DEF Match
<1>2. 0 + 1 = 1 /\ 1 + 1 = 2 /\ 2 + 1 = 3 /\ 3 + 1 = 4
  OBVIOUS
<1>3. CASE m = 0
  BY <1>1, <1>2, <1>3, HeaderEndIs
<1>4. CASE m = 1
  BY <1>1, <1>2, <1>4, HeaderEndIs
<1>5. CASE m = 2
  BY <1>1, <1>2, <1>5, HeaderEndIs
<1>6. CASE m = 3
  BY <1>1, <1>2, <1>6, HeaderEndIs
<1> QED
  BY <1>3, <1>4, <1>5, <1>6

\* One byte more.
LEMMA RemembersByte ==
  ASSUME NEW S, NEW d \in Seq(S), NEW b \in S, NEW p, Remembers(p, d)
  PROVE  Remembers(ObserveByte(p, b), Append(d, b))
<1>1. PICK e : e = Append(d, b)
  OBVIOUS
<1>2. PICK n : n = Len(d)
  OBVIOUS
<1>3. /\ n \in Nat /\ e \in Seq(S) /\ Len(e) = n + 1 /\ e[n + 1] = b
      /\ \A i \in 1..n : e[i] = d[i]
  BY <1>1, <1>2
<1>4. PICK m : m = p.headerEndMatch
  OBVIOUS
<1>5. PICK k : k = Match(m, b)
  OBVIOUS
<1>6. m \in 0..3 /\ k \in 0..4
  BY <1>4, <1>5, MatchIs DEF Remembers
<1>7. PICK q : q = ObserveByte(p, b)
  OBVIOUS
<1>8. /\ q.headerEndMatch = k % 4
      /\ q.sawHeaderEnd = (p.sawHeaderEnd \/ k = 4)
      /\ q.prefix = IF Len(p.prefix) < 5 THEN Append(p.prefix, b) ELSE p.prefix
  BY <1>4, <1>5, <1>7 DEF ObserveByte
<1>9. k % 4 = IF k = 4 THEN 0 ELSE k
  BY <1>6
<1>10. q.headerEndMatch \in 0..3
  BY <1>6, <1>8, <1>9
<1>11. q.prefix = SubSeq(e, 1, IF Len(e) < 5 THEN Len(e) ELSE 5)
  <2>1. p.prefix = SubSeq(d, 1, IF n < 5 THEN n ELSE 5)
    BY <1>2 DEF Remembers
  <2>2. CASE n < 5
    <3>1. p.prefix = d
      BY <1>2, <2>1, <2>2
    <3>2. q.prefix = e
      BY <1>1, <1>2, <1>8, <2>2, <3>1
    <3>3. (IF Len(e) < 5 THEN Len(e) ELSE 5) = n + 1
      BY <1>3, <2>2
    <3>4. SubSeq(e, 1, n + 1) = e
      BY <1>3
    <3> QED
      BY <3>2, <3>3, <3>4
  <2>3. CASE ~(n < 5)
    <3>1. p.prefix = SubSeq(d, 1, 5) /\ Len(p.prefix) = 5
      BY <1>2, <1>3, <2>1, <2>3
    <3>2. q.prefix = p.prefix /\ (IF Len(e) < 5 THEN Len(e) ELSE 5) = 5
      BY <1>3, <1>8, <2>3, <3>1
    <3>3. SubSeq(e, 1, 5) = SubSeq(d, 1, 5)
      <4>1. /\ SubSeq(e, 1, 5) \in Seq(S) /\ Len(SubSeq(e, 1, 5)) = 5
            /\ SubSeq(d, 1, 5) \in Seq(S) /\ Len(SubSeq(d, 1, 5)) = 5
        BY <1>2, <1>3, <2>3
      <4>2. \A i \in 1..5 : SubSeq(e, 1, 5)[i] = e[i] /\ SubSeq(d, 1, 5)[i] = d[i]
        BY <1>2, <1>3, <2>3
      <4>3. \A i \in 1..5 : i \in 1..n
        BY <1>3, <2>3
      <4> QED
        BY <1>3, <4>1, <4>2, <4>3
    <3> QED
      BY <3>1, <3>2, <3>3
  <2> QED
    BY <2>2, <2>3
<1>12. HasHeaderEnd(e) <=> HasHeaderEnd(d) \/ (b = LF /\ Ends3(d))
  <2>1. ASSUME NEW i \in 4..n PROVE EndsAt(e, i) <=> EndsAt(d, i)
    <3>1. i \in 1..n /\ i - 1 \in 1..n /\ i - 2 \in 1..n /\ i - 3 \in 1..n
      BY <1>3
    <3> QED
      BY <1>3, <3>1 DEF EndsAt
  <2>2. ASSUME n + 1 \in 4..(n + 1) PROVE EndsAt(e, n + 1) <=> b = LF /\ Ends3(d)
    <3>1. n \in 1..n /\ n - 1 \in 1..n /\ n - 2 \in 1..n
      BY <1>3, <2>2
    <3>2. (n + 1) - 3 = n - 2 /\ (n + 1) - 2 = n - 1 /\ (n + 1) - 1 = n
      BY <1>3
    <3>3. EndsAt(e, n + 1) <=> d[n - 2] = CR /\ d[n - 1] = LF /\ d[n] = CR /\ b = LF
      BY <1>3, <3>1, <3>2 DEF EndsAt
    <3> QED
      BY <1>2, <1>3, <2>2, <3>3 DEF Ends3
  <2>3. ~(n + 1 \in 4..(n + 1)) => ~Ends3(d)
    BY <1>2, <1>3 DEF Ends3
  <2>4. 4..(n + 1) = 4..n \cup (4..(n + 1) \cap {n + 1})
    BY <1>3
  <2> QED
    BY <1>2, <1>3, <2>1, <2>2, <2>3, <2>4 DEF HasHeaderEnd
<1>13. /\ Ends1(e) <=> b = CR
       /\ Ends2(e) <=> b = LF /\ Ends1(d)
       /\ Ends3(e) <=> b = CR /\ Ends2(d)
  <2>1. /\ (n + 1) - 1 = n /\ (n + 1) - 2 = n - 1 /\ n + 1 >= 1
        /\ (n + 1 >= 2 <=> n >= 1) /\ (n + 1 >= 3 <=> n >= 2)
        /\ (n >= 1 => n \in 1..n) /\ (n >= 2 => n - 1 \in 1..n /\ n \in 1..n)
    BY <1>3
  <2>2. Ends1(e) <=> b = CR
    BY <1>3, <2>1 DEF Ends1
  <2>3. Ends2(e) <=> b = LF /\ Ends1(d)
    BY <1>2, <1>3, <2>1 DEF Ends1, Ends2
  <2>4. Ends3(e) <=> b = CR /\ Ends2(d)
    BY <1>2, <1>3, <2>1 DEF Ends2, Ends3
  <2> QED
    BY <2>2, <2>3, <2>4
<1>14. CASE p.sawHeaderEnd
  <2>1. HasHeaderEnd(e) /\ q.sawHeaderEnd
    BY <1>8, <1>12, <1>14 DEF Remembers
  <2> QED
    BY <1>1, <1>7, <1>10, <1>11, <2>1 DEF Remembers
<1>15. CASE ~p.sawHeaderEnd
  <2>1. Matches(m, d) /\ ~HasHeaderEnd(d)
    BY <1>4, <1>15 DEF Remembers
  <2>2. k = 4 <=> b = LF /\ Ends3(d)
    BY <1>5, <1>6, <2>1, MatchIs, HeaderEndIs DEF Matches
  <2>3. q.sawHeaderEnd \in BOOLEAN /\ (q.sawHeaderEnd <=> HasHeaderEnd(e))
    BY <1>8, <1>12, <1>15, <2>1, <2>2
  <2>4. k # 4 => Matches(k, e)
    <3>1. Ends1(d) \/ Ends2(d) \/ Ends3(d) => Len(d) >= 1
      BY <1>2, <1>3 DEF Ends1, Ends2, Ends3
    <3>2. Ends2(d) => ~Ends1(d)
      BY HeaderEndIs DEF Ends1, Ends2
    <3>3. Ends3(d) => Ends1(d)
      BY <1>2, <1>3 DEF Ends1, Ends3
    <3>4. CASE m = 0
      BY <1>5, <1>6, <1>13, <2>1, <3>2, <3>3, <3>4, MatchIs, HeaderEndIs DEF Matches
    <3>5. CASE m = 1
      BY <1>5, <1>6, <1>13, <2>1, <3>2, <3>3, <3>5, MatchIs, HeaderEndIs DEF Matches
    <3>6. CASE m = 2
      BY <1>5, <1>6, <1>13, <2>1, <3>2, <3>3, <3>6, MatchIs, HeaderEndIs DEF Matches
    <3>7. CASE m = 3
      BY <1>5, <1>6, <1>13, <2>1, <3>2, <3>3, <3>7, MatchIs, HeaderEndIs DEF Matches
    <3> QED
      BY <1>6, <3>4, <3>5, <3>6, <3>7
  <2>5. ~q.sawHeaderEnd => Matches(q.headerEndMatch, e)
    BY <1>8, <1>9, <2>4
  <2> QED
    BY <1>1, <1>7, <1>10, <1>11, <2>3, <2>5 DEF Remembers
<1> QED
  BY <1>14, <1>15 DEF Remembers

-----------------------------------------------------------------------------
(* The probe decides as its definition does.                               *)

\* Induction over a sequence: a step at a time along its beginnings.
LEMMA BeginningIs ==
  ASSUME NEW S, NEW d \in Seq(S), NEW k \in 1..Len(d)
  PROVE  /\ SubSeq(d, 1, k - 1) \in Seq(S) /\ d[k] \in S
         /\ SubSeq(d, 1, k) = Append(SubSeq(d, 1, k - 1), d[k])
<1>1. PICK s : s = SubSeq(d, 1, k - 1)
  OBVIOUS
<1>2. PICK t : t = SubSeq(d, 1, k)
  OBVIOUS
<1>3. s \in Seq(S) /\ Len(s) = k - 1 /\ \A i \in 1..(k - 1) : s[i] = d[i]
  BY <1>1
<1>4. t \in Seq(S) /\ Len(t) = k /\ \A i \in 1..k : t[i] = d[i]
  BY <1>2
<1>5. PICK u : u = Append(s, d[k])
  OBVIOUS
<1>6. d[k] \in S /\ k \in Nat
  OBVIOUS
<1>7. u \in Seq(S) /\ Len(u) = k /\ \A i \in 1..k : u[i] = IF i = k THEN d[k] ELSE s[i]
  BY <1>3, <1>5, <1>6
<1>8. \A i \in 1..k : u[i] = t[i]
  BY <1>3, <1>4, <1>7
<1>9. u = t
  BY <1>4, <1>7, <1>8
<1> QED
  BY <1>1, <1>2, <1>3, <1>5, <1>6, <1>9

\* Beginnings of the second buffer, after the first.
LEMMA Beginnings ==
  ASSUME NEW S, NEW d \in Seq(S)
  PROVE  \E B \in [0..Len(d) -> Seq(S)] :
           /\ B[0] = <<>> /\ B[Len(d)] = d
           /\ \A k \in 1..Len(d) : d[k] \in S /\ B[k] = Append(B[k - 1], d[k])
<1>1. PICK B : B = [k \in 0..Len(d) |-> SubSeq(d, 1, k)]
  OBVIOUS
<1>2. Len(d) \in Nat /\ 0 \in 0..Len(d) /\ Len(d) \in 0..Len(d)
  OBVIOUS
<1>3. B \in [0..Len(d) -> Seq(S)]
  <2>1. \A k \in 0..Len(d) : SubSeq(d, 1, k) \in Seq(S)
    OBVIOUS
  <2> QED
    BY <1>1, <2>1
<1>4. B[0] = <<>> /\ B[Len(d)] = d
  <2>1. SubSeq(d, 1, 0) = <<>> /\ SubSeq(d, 1, Len(d)) = d
    OBVIOUS
  <2> QED
    BY <1>1, <1>2, <2>1
<1>5. ASSUME NEW k \in 1..Len(d) PROVE d[k] \in S /\ B[k] = Append(B[k - 1], d[k])
  <2>1. k \in 0..Len(d) /\ k - 1 \in 0..Len(d)
    OBVIOUS
  <2> QED
    BY <1>1, <2>1, BeginningIs
<1> QED
  BY <1>3, <1>4, <1>5

\* A bundle may be cut anywhere.
LEMMA ObserveConcat ==
  ASSUME NEW S, NEW probe, NEW s \in Seq(S), NEW t \in Seq(S)
  PROVE  Observe(probe, s \o t) = Observe(Observe(probe, s), t)
<1>1. PICK n : n = Len(t)
  OBVIOUS
<1>2. PICK B \in [0..n -> Seq(S)] :
        /\ B[0] = <<>> /\ B[n] = t
        /\ \A k \in 1..n : t[k] \in S /\ B[k] = Append(B[k - 1], t[k])
  <2>1. \E B \in [0..Len(t) -> Seq(S)] :
          /\ B[0] = <<>> /\ B[Len(t)] = t
          /\ \A k \in 1..Len(t) : t[k] \in S /\ B[k] = Append(B[k - 1], t[k])
    BY Beginnings
  <2> QED
    BY <1>1, <2>1
<1>3. PICK P : P = {k \in 0..n : Observe(probe, s \o B[k]) = Observe(Observe(probe, s), B[k])}
  OBVIOUS
<1>4. n \in Nat /\ 0 \in 0..n /\ n \in 0..n
  BY <1>1
<1>5. 0 \in P
  <2>1. s \o B[0] = s
    BY <1>2
  <2>2. Observe(Observe(probe, s), B[0]) = Observe(probe, s)
    BY <1>2, ObserveNothing
  <2>3. Observe(probe, s \o B[0]) = Observe(Observe(probe, s), B[0])
    BY <2>1, <2>2
  <2> QED
    BY <1>3, <1>4, <2>3
<1>6. ASSUME NEW k \in 1..n, k - 1 \in P PROVE k \in P
  <2>1. PICK u : u = B[k - 1]
    OBVIOUS
  <2>2. PICK b : b = t[k]
    OBVIOUS
  <2>3. u \in Seq(S) /\ b \in S /\ B[k] = Append(u, b)
    <3>1. k - 1 \in 0..n
      BY <1>3, <1>6
    <3> QED
      BY <1>2, <2>1, <2>2, <3>1
  <2>4. Observe(probe, s \o u) = Observe(Observe(probe, s), u)
    BY <1>3, <1>6, <2>1
  <2>5. s \o B[k] = Append(s \o u, b) /\ s \o u \in Seq(S)
    BY <2>3
  <2>6. Observe(probe, s \o B[k]) = ObserveByte(Observe(probe, s \o u), b)
    <3>1. PICK v : v = s \o u
      OBVIOUS
    <3>2. v \in Seq(S)
      BY <2>5, <3>1
    <3>3. Observe(probe, Append(v, b)) = ObserveByte(Observe(probe, v), b)
      BY <2>3, <3>2, ObserveAppend
    <3> QED
      BY <2>5, <3>1, <3>3
  <2>7. Observe(Observe(probe, s), B[k]) = ObserveByte(Observe(Observe(probe, s), u), b)
    <3>1. PICK q : q = Observe(probe, s)
      OBVIOUS
    <3>2. Observe(q, Append(u, b)) = ObserveByte(Observe(q, u), b)
      BY <2>3, ObserveAppend
    <3> QED
      BY <2>3, <3>1, <3>2
  <2>8. k \in 0..n
    BY <1>4
  <2> QED
    BY <1>3, <2>4, <2>6, <2>7, <2>8
<1>7. n \in P
  <2>1. 0..n \subseteq P
    BY <1>4, <1>5, <1>6, UpTo
  <2> QED
    BY <1>4, <2>1
<1> QED
  BY <1>2, <1>3, <1>7

\* What a new probe remembers of any data.
LEMMA ObserveRemembers ==
  ASSUME NEW S, NEW d \in Seq(S)
  PROVE  Remembers(Observe(NewProbe, d), d)
<1>1. PICK n : n = Len(d)
  OBVIOUS
<1>2. PICK B \in [0..n -> Seq(S)] :
        /\ B[0] = <<>> /\ B[n] = d
        /\ \A k \in 1..n : d[k] \in S /\ B[k] = Append(B[k - 1], d[k])
  <2>1. \E B \in [0..Len(d) -> Seq(S)] :
          /\ B[0] = <<>> /\ B[Len(d)] = d
          /\ \A k \in 1..Len(d) : d[k] \in S /\ B[k] = Append(B[k - 1], d[k])
    BY Beginnings
  <2> QED
    BY <1>1, <2>1
<1>3. PICK P : P = {k \in 0..n : Remembers(Observe(NewProbe, B[k]), B[k])}
  OBVIOUS
<1>4. n \in Nat /\ 0 \in 0..n /\ n \in 0..n
  BY <1>1
<1>5. 0 \in P
  <2>1. PICK e : e = <<>>
    OBVIOUS
  <2>2. e \in Seq(S) /\ Len(e) = 0 /\ SubSeq(e, 1, 0) = e
    BY <2>1
  <2>3. Matches(0, e) /\ ~HasHeaderEnd(e)
    BY <2>2 DEF Matches, Ends1, Ends2, Ends3, HasHeaderEnd
  <2>4. Remembers(NewProbe, e)
    BY <2>1, <2>2, <2>3 DEF Remembers, NewProbe
  <2>5. Observe(NewProbe, e) = NewProbe
    BY <2>1, ObserveNothing
  <2>6. Remembers(Observe(NewProbe, B[0]), B[0])
    BY <1>2, <2>1, <2>4, <2>5
  <2> QED
    BY <1>3, <1>4, <2>6
<1>6. ASSUME NEW k \in 1..n, k - 1 \in P PROVE k \in P
  <2>1. PICK u : u = B[k - 1]
    OBVIOUS
  <2>2. PICK b : b = d[k]
    OBVIOUS
  <2>3. u \in Seq(S) /\ b \in S /\ B[k] = Append(u, b)
    <3>1. k - 1 \in 0..n
      BY <1>3, <1>6
    <3> QED
      BY <1>2, <2>1, <2>2, <3>1
  <2>4. PICK p : p = Observe(NewProbe, u)
    OBVIOUS
  <2>5. Remembers(p, u)
    BY <1>3, <1>6, <2>1, <2>4
  <2>6. Remembers(ObserveByte(p, b), Append(u, b))
    BY <2>3, <2>5, RemembersByte
  <2>7. Observe(NewProbe, Append(u, b)) = ObserveByte(p, b)
    BY <2>3, <2>4, ObserveAppend
  <2>8. k \in 0..n
    BY <1>4
  <2> QED
    BY <1>3, <2>3, <2>6, <2>7, <2>8
<1>7. n \in P
  <2>1. 0..n \subseteq P
    BY <1>4, <1>5, <1>6, UpTo
  <2> QED
    BY <1>4, <2>1
<1> QED
  BY <1>2, <1>3, <1>7

\* A method at the beginning is in the first five bytes.
LEMMA PrefixIs ==
  ASSUME NEW S, NEW d \in Seq(S), NEW p, NEW s \in Seq(p), Len(s) <= 5
  PROVE  IsPrefix(s, SubSeq(d, 1, IF Len(d) < 5 THEN Len(d) ELSE 5)) <=> IsPrefix(s, d)
<1>1. PICK n : n = IF Len(d) < 5 THEN Len(d) ELSE 5
  OBVIOUS
<1>2. PICK e : e = SubSeq(d, 1, n)
  OBVIOUS
<1>3. /\ n \in Nat /\ n <= Len(d) /\ n <= 5 /\ e \in Seq(S) /\ Len(e) = n
      /\ \A i \in 1..n : e[i] = d[i]
  BY <1>1, <1>2
<1>4. Len(s) \in Nat /\ (Len(s) <= n <=> Len(s) <= Len(d))
  BY <1>1
<1>5. Len(s) <= n => SubSeq(e, 1, Len(s)) = SubSeq(d, 1, Len(s))
  <2> SUFFICES ASSUME Len(s) <= n PROVE SubSeq(e, 1, Len(s)) = SubSeq(d, 1, Len(s))
    OBVIOUS
  <2>1. PICK k : k = Len(s)
    OBVIOUS
  <2>2. k \in Nat /\ k <= n /\ k <= Len(d)
    BY <1>3, <2>1
  <2>3. SubSeq(e, 1, k) \in Seq(S) /\ Len(SubSeq(e, 1, k)) = k
        /\ \A i \in 1..k : SubSeq(e, 1, k)[i] = e[i]
    BY <1>3, <2>2
  <2>4. SubSeq(d, 1, k) \in Seq(S) /\ Len(SubSeq(d, 1, k)) = k
        /\ \A i \in 1..k : SubSeq(d, 1, k)[i] = d[i]
    BY <2>2
  <2>5. \A i \in 1..k : e[i] = d[i]
    BY <1>3, <2>2
  <2> QED
    BY <2>1, <2>3, <2>4, <2>5
<1> QED
  BY <1>1, <1>2, <1>3, <1>4, <1>5 DEF IsPrefix

\* The methods, as sequences.
LEMMA Word ==
  /\ \A a, b, c, d : <<a, b, c, d>> \in Seq({a, b, c, d}) /\ Len(<<a, b, c, d>>) = 4
  /\ \A a, b, c, d, e : <<a, b, c, d, e>> \in Seq({a, b, c, d, e})
                          /\ Len(<<a, b, c, d, e>>) = 5
OBVIOUS

\* The two ways to say that a header end is there.
LEMMA HeaderEndFound ==
  ASSUME NEW S, NEW d \in Seq(S)
  PROVE  HasHeaderEnd(d) <=> \E i \in 0..(Len(d) - 4) : SubSeq(d, i + 1, i + 4) = HeaderEnd
<1>1. ASSUME NEW i \in 0..(Len(d) - 4)
      PROVE  SubSeq(d, i + 1, i + 4) = HeaderEnd <=> EndsAt(d, i + 4)
  <2>1. PICK s : s = SubSeq(d, i + 1, i + 4)
    OBVIOUS
  <2>2. s \in Seq(S) /\ Len(s) = 4
    BY <2>1
  <2>9. \A k \in 1..4 : s[k] = d[i + k]
    BY <2>1
  <2>3. s[1] = d[i + 1] /\ s[2] = d[i + 2] /\ s[3] = d[i + 3] /\ s[4] = d[i + 4]
    BY <2>9
  <2>4. (i + 4) - 3 = i + 1 /\ (i + 4) - 2 = i + 2 /\ (i + 4) - 1 = i + 3
    OBVIOUS
  <2>5. EndsAt(d, i + 4) <=> s[1] = CR /\ s[2] = LF /\ s[3] = CR /\ s[4] = LF
    BY <2>3, <2>4 DEF EndsAt
  <2>6. s = HeaderEnd <=> s[1] = HeaderEnd[1] /\ s[2] = HeaderEnd[2] /\ s[3] = HeaderEnd[3]
                            /\ s[4] = HeaderEnd[4]
    <3>1. \A k \in 1..4 : k = 1 \/ k = 2 \/ k = 3 \/ k = 4
      OBVIOUS
    <3>2. ASSUME \A k \in 1..4 : s[k] = HeaderEnd[k] PROVE s = HeaderEnd
      BY <2>2, <3>2, HeaderEndIs
    <3> QED
      BY <3>1, <3>2
  <2> QED
    BY <2>1, <2>5, <2>6, HeaderEndIs
<1>2. ASSUME NEW i \in 4..Len(d)
      PROVE  i - 4 \in 0..(Len(d) - 4) /\ (i - 4) + 4 = i
  OBVIOUS
<1>3. ASSUME NEW i \in 0..(Len(d) - 4) PROVE i + 4 \in 4..Len(d)
  OBVIOUS
<1>4. ASSUME HasHeaderEnd(d)
      PROVE  \E i \in 0..(Len(d) - 4) : SubSeq(d, i + 1, i + 4) = HeaderEnd
  <2>1. PICK i \in 4..Len(d) : EndsAt(d, i)
    BY <1>4 DEF HasHeaderEnd
  <2>2. PICK j : j = i - 4
    OBVIOUS
  <2>3. j \in 0..(Len(d) - 4) /\ j + 4 = i
    BY <1>2, <2>2
  <2> QED
    BY <1>1, <2>1, <2>3
<1>5. ASSUME NEW i \in 0..(Len(d) - 4), SubSeq(d, i + 1, i + 4) = HeaderEnd
      PROVE  HasHeaderEnd(d)
  BY <1>1, <1>3, <1>5 DEF HasHeaderEnd
<1> QED
  BY <1>4, <1>5

\* The probe decides as the definition does, on data of any length and kind, cut
\* anywhere into two buffers.
LEMMA ProbeDecides ==
  ASSUME NEW S, NEW d \in Seq(S)
  PROVE  ShouldRespond(Observe(NewProbe, d)) <=> IsRequest(d)
<1>1. PICK p : p = Observe(NewProbe, d)
  OBVIOUS
<1>2. /\ p.prefix = SubSeq(d, 1, IF Len(d) < 5 THEN Len(d) ELSE 5)
      /\ p.sawHeaderEnd <=> HasHeaderEnd(d)
  BY <1>1, ObserveRemembers DEF Remembers
<1>3. PICK get : get = <<"G", "E", "T", " ">>
  OBVIOUS
<1>4. PICK post : post = <<"P", "O", "S", "T", " ">>
  OBVIOUS
<1>5. /\ get \in Seq({"G", "E", "T", " "}) /\ Len(get) <= 5
      /\ post \in Seq({"P", "O", "S", "T", " "}) /\ Len(post) <= 5
  <2>0. 4 <= 5 /\ 5 <= 5
    OBVIOUS
  <2>1. get \in Seq({"G", "E", "T", " "}) /\ Len(get) = 4
    BY <1>3, Word
  <2>2. post \in Seq({"P", "O", "S", "T", " "}) /\ Len(post) = 5
    BY <1>4, Word
  <2>3. Len(get) <= 5 /\ Len(post) <= 5
    BY <2>0, <2>1, <2>2
  <2> QED
    BY <2>1, <2>2, <2>3
<1>6. /\ IsPrefix(get, p.prefix) <=> IsPrefix(get, d)
      /\ IsPrefix(post, p.prefix) <=> IsPrefix(post, d)
  <2>1. PICK n : n = IF Len(d) < 5 THEN Len(d) ELSE 5
    OBVIOUS
  <2>2. PICK e : e = SubSeq(d, 1, n)
    OBVIOUS
  <2>3. p.prefix = e
    BY <1>2, <2>1, <2>2
  <2>4. \A A : \A s \in Seq(A) : Len(s) <= 5 => (IsPrefix(s, e) <=> IsPrefix(s, d))
    BY <2>1, <2>2, PrefixIs
  <2> QED
    BY <1>5, <2>3, <2>4
<1>7. p.sawHeaderEnd <=> \E i \in 0..(Len(d) - 4) : SubSeq(d, i + 1, i + 4) = HeaderEnd
  BY <1>2, HeaderEndFound
<1> QED
  BY <1>1, <1>3, <1>4, <1>6, <1>7 DEF ShouldRespond, IsRequest

\* The probe answers exactly the data that begins with one of the two methods
\* or holds the end of a header, whatever the data and wherever the bundle is
\* cut in two (HttpRequestProbe).
THEOREM HttpProbeIsExact ==
  ASSUME NEW S, NEW data \in Seq(S), NEW cut \in 0..Len(data)
  PROVE  ShouldRespond(Observe(Observe(NewProbe, SubSeq(data, 1, cut)),
                               SubSeq(data, cut + 1, Len(data))))
           <=> IsRequest(data)
<1>1. PICK s : s = SubSeq(data, 1, cut)
  OBVIOUS
<1>2. PICK t : t = SubSeq(data, cut + 1, Len(data))
  OBVIOUS
<1>3. s \in Seq(S) /\ t \in Seq(S) /\ s \o t = data
  <2>1. s \in Seq(S) /\ Len(s) = cut /\ \A i \in 1..cut : s[i] = data[i]
    BY <1>1
  <2>2. t \in Seq(S) /\ Len(t) = Len(data) - cut
        /\ \A i \in 1..(Len(data) - cut) : t[i] = data[cut + i]
    BY <1>2
  <2>3. PICK u : u = s \o t
    OBVIOUS
  <2>4. /\ u \in Seq(S) /\ Len(u) = Len(s) + Len(t)
        /\ \A i \in 1..(Len(s) + Len(t)) : u[i] = IF i <= Len(s) THEN s[i] ELSE t[i - Len(s)]
    BY <2>1, <2>2, <2>3
  <2>5. Len(u) = Len(data)
    BY <2>1, <2>2, <2>4
  <2>6. ASSUME NEW i \in 1..Len(data) PROVE u[i] = data[i]
    <3>1. CASE i <= cut
      BY <2>1, <2>2, <2>4, <3>1
    <3>2. CASE ~(i <= cut)
      <4>1. i - cut \in 1..(Len(data) - cut) /\ cut + (i - cut) = i
        BY <3>2
      <4> QED
        BY <2>1, <2>2, <2>4, <3>2, <4>1
    <3> QED
      BY <3>1, <3>2
  <2>7. u = data
    BY <2>4, <2>5, <2>6
  <2> QED
    BY <2>1, <2>2, <2>3, <2>7
<1>4. Observe(Observe(NewProbe, s), t) = Observe(NewProbe, data)
  <2>0. s \in Seq(S) /\ t \in Seq(S)
    BY <1>3
  <2>1. \A probe : Observe(probe, s \o t) = Observe(Observe(probe, s), t)
    BY <2>0, ObserveConcat
  <2>2. PICK d : d = s \o t
    OBVIOUS
  <2>3. \A probe : Observe(probe, d) = Observe(Observe(probe, s), t)
    BY <2>1, <2>2
  <2>4. d = data
    BY <1>3, <2>2
  <2> QED
    BY <2>3, <2>4
<1> QED
  BY <1>1, <1>2, <1>4, ProbeDecides

\* So it does on the inputs TLC enumerates.
LEMMA ProbeExact == ProbeIsExact
<1> SUFFICES ASSUME NEW data \in ProbeInputs, NEW cut \in 0..Len(data)
             PROVE  ShouldRespond(Observe(Observe(NewProbe, SubSeq(data, 1, cut)),
                                          SubSeq(data, cut + 1, Len(data))))
                      <=> IsRequest(data)
  BY DEF ProbeIsExact
<1>1. ASSUME NEW S, NEW n \in Nat, NEW s \in BoundedSeq(S, n) PROVE s \in Seq(S)
  BY DEF BoundedSeq, SeqOf
<1>2. \E S : data \in Seq(S)
  BY <1>1 DEF ProbeInputs
<1> QED
  BY <1>2, HttpProbeIsExact

-----------------------------------------------------------------------------
(* The invariant.                                                          *)

\* Where a sequence has a member of S, and how often.
At(s, S) == {i \in DOMAIN s : s[i] \in S}
Cnt(s, S) == Cardinality(At(s, S))
Elems(s) == {s[i] : i \in DOMAIN s}

\* What waits for connection id in a queue: entries, operations, and the
\* completions that end one.
Queued(op, id) == {e \in Entry : e.op = op /\ e.id = id}
Running(op, id) == {o \in Operation : o.op = op /\ o.id = id}
Ended(op, id) == {x \in Completion : x.op = op /\ x.id = id /\ ~x.more}
Tokens(op, id) == Cnt(sq, Queued(op, id)) + Cnt(ops, Running(op, id))
                    + Cnt(batch, Ended(op, id)) + Cnt(cq, Ended(op, id))

\* A connection accepted on descriptor fd that the worker has not seen.
Accepted(fd) == {x \in Completion : x.op = "accept" /\ x.result >= 0 /\ x.fd = fd}
AllAccepted == {x \in Completion : x.op = "accept" /\ x.result >= 0}
Pending(S) == Cnt(batch, S) + Cnt(cq, S)

\* Ids in the queues have been handed out, and completions are as the kernel
\* posts them.
KnownId(op, id) == IF op = "accept" THEN id = 0 ELSE id \in 1..(nextId - 1)
CompletionOK(x) ==
  /\ KnownId(x.op, x.id)
  /\ x.op = "recv" /\ x.result <= 0 => ~x.more
  /\ x.op = "send" => ~x.more
  /\ x.op = "accept" /\ x.result >= 0 => x.fd \in Fds

Known ==
  /\ \A e \in Elems(sq) : KnownId(e.op, e.id)
  /\ \A o \in Elems(ops) : KnownId(o.op, o.id)
  /\ \A x \in Elems(batch) \cup Elems(cq) : CompletionOK(x)
  /\ \A k \in DOMAIN wire : wire[k].id < nextId

\* Accepts that the worker has not seen have an id left each, and a descriptor
\* of their own that is in nobody's row.
AcceptsNew ==
  /\ nextId + Pending(AllAccepted) <= nextSock
  /\ \A fd \in Fds : /\ Pending(Accepted(fd)) <= 1
                     /\ Pending(Accepted(fd)) = 1 => fdSock[fd] # 0 /\ connections[fd].id = 0

\* The table names ids that have been handed out.
TableInv ==
  /\ TableConsistent
  /\ \A fd \in Fds : connections[fd].id < nextId

\* The bytes of a connection that have left.
SentBytes(id) == Cardinality({j \in DOMAIN wire : wire[j].id = id})
\* The bytes that have left once completion x is counted.
Counted(c, x) == c.sendOffset + (IF x.result > 0 THEN x.result ELSE 0)
Sends(s, id) == {e \in Elems(s) : e.op = "send" /\ e.id = id}

\* The one send of a live connection knows how much has left: with its
\* completion counted, sendOffset does.
AnswerOK(c) ==
  /\ Tokens("send", c.id) = IF c.sendStarted THEN 1 ELSE 0
  /\ ~c.sendStarted => c.sendOffset = 0 /\ SentBytes(c.id) = 0
  /\ \A e \in Sends(sq, c.id) \cup Sends(ops, c.id) : c.sendOffset = SentBytes(c.id)
  /\ \A x \in Sends(batch, c.id) \cup Sends(cq, c.id) : Counted(c, x) = SentBytes(c.id)

\* The same for a connection the worker may have closed: no second send waits,
\* and it starts where the bytes that left end.
IdOK(id) ==
  /\ Tokens("send", id) <= 1
  /\ \A e \in Sends(sq, id) \cup Sends(ops, id) : e.pos = SentBytes(id) /\ e.pos < ResponseLen
ConnOK(c) == Tokens("recv", c.id) = 1 /\ AnswerOK(c)
Lines == /\ \A id \in Ids : IdOK(id)
         /\ \A fd \in LiveFds : ConnOK(connections[fd])

\* What the queues say of the connections.
QueueInv == Known /\ AcceptsNew /\ Lines

\* Inductive, with the types and the table.
IInv ==
  /\ TypeOK /\ TableInv /\ AnswerInOrder
  /\ pc # "process" => batch = <<>>
  /\ IF pc = "exited" THEN ops = <<>> ELSE QueueInv

-----------------------------------------------------------------------------
(* Counting in sequences.                                                  *)

\* A count of one or none.
Bit(b) == IF b THEN 1 ELSE 0

\* Counts are natural numbers.
LEMMA AtFinite ==
  ASSUME NEW X, NEW s \in Seq(X), NEW S
  PROVE  IsFiniteSet(At(s, S)) /\ Cnt(s, S) \in Nat /\ At(s, S) \subseteq 1..Len(s)
<1>1. At(s, S) \subseteq 1..Len(s) /\ Len(s) \in Nat
  BY DEF At
<1>2. IsFiniteSet(1..Len(s))
  BY <1>1, FS_Interval
<1>3. IsFiniteSet(At(s, S))
  BY <1>1, <1>2, FS_Subset
<1> QED
  BY <1>1, <1>3, FS_CardinalityType DEF Cnt

\* Cardinalities of disjoint sets add up.
LEMMA DisjointUnion ==
  ASSUME NEW A, NEW B, IsFiniteSet(A), IsFiniteSet(B), A \cap B = {}
  PROVE  /\ IsFiniteSet(A \cup B)
         /\ Cardinality(A \cup B) = Cardinality(A) + Cardinality(B)
<1>1. Cardinality(A \cup B) = Cardinality(A) + Cardinality(B) - Cardinality(A \cap B)
  BY FS_Union
<1>2. Cardinality(A \cap B) = 0
  BY FS_EmptySet
<1>3. Cardinality(A) \in Nat /\ Cardinality(B) \in Nat
  BY FS_CardinalityType
<1> QED
  BY <1>1, <1>2, <1>3, FS_Union

\* A set of positions, moved, has as many.
LEMMA Shift ==
  ASSUME NEW T \in SUBSET Int, IsFiniteSet(T), NEW d \in Int
  PROVE  LET U == {t + d : t \in T}
         IN  IsFiniteSet(U) /\ Cardinality(U) = Cardinality(T)
<1> DEFINE U == {t + d : t \in T}
           f == [t \in T |-> t + d]
<1>1. f \in [T -> U]
  OBVIOUS
<1>2. \A a, b \in T : f[a] = f[b] => a = b
  OBVIOUS
<1>3. \A u \in U : \E t \in T : f[t] = u
  OBVIOUS
<1>4. f \in Bijection(T, U)
  BY <1>1, <1>2, <1>3 DEF Bijection, Injection, Surjection, IsInjective
<1> QED
  BY <1>4, FS_Bijection DEF ExistsBijection

\* Nothing to count.
LEMMA CntEmpty == \A S : Cnt(<<>>, S) = 0
  BY FS_EmptySet DEF Cnt, At

\* One more at the end.
LEMMA CntAppend ==
  ASSUME NEW X, NEW s \in Seq(X), NEW e, NEW S
  PROVE  Cnt(Append(s, e), S) = Cnt(s, S) + Bit(e \in S)
<1>1. IsFiniteSet(At(s, S)) /\ Len(s) + 1 \notin At(s, S) /\ Cnt(s, S) \in Nat
  BY AtFinite
<1>2. At(Append(s, e), S) = IF e \in S THEN At(s, S) \cup {Len(s) + 1} ELSE At(s, S)
  BY DEF At
<1>3. Cardinality(At(s, S) \cup {Len(s) + 1}) = Cardinality(At(s, S)) + 1
  BY <1>1, FS_AddElement
<1> QED
  BY <1>1, <1>2, <1>3 DEF Cnt, Bit

\* One after the other.
LEMMA CntConcat ==
  ASSUME NEW X, NEW s \in Seq(X), NEW t \in Seq(X), NEW S
  PROVE  Cnt(s \o t, S) = Cnt(s, S) + Cnt(t, S)
<1> DEFINE U == {i + Len(s) : i \in At(t, S)}
<1>1. IsFiniteSet(At(s, S)) /\ At(s, S) \subseteq 1..Len(s) /\ Cnt(s, S) \in Nat
  BY AtFinite
<1>2. IsFiniteSet(At(t, S)) /\ At(t, S) \subseteq 1..Len(t) /\ Cnt(t, S) \in Nat
  BY AtFinite
<1>3. IsFiniteSet(U) /\ Cardinality(U) = Cardinality(At(t, S))
  <2>1. At(t, S) \in SUBSET Int /\ Len(s) \in Int
    BY <1>2
  <2> QED
    BY <1>2, <2>1, Shift
<1>4. At(s \o t, S) = At(s, S) \cup U
  <2>1. \A i \in At(s \o t, S) : i \in At(s, S) \cup U
    <3> SUFFICES ASSUME NEW i \in At(s \o t, S) PROVE i \in At(s, S) \cup U
      OBVIOUS
    <3>1. i \in 1..(Len(s) + Len(t)) /\ (s \o t)[i] \in S
      BY DEF At
    <3>2. CASE i <= Len(s)
      BY <3>1, <3>2 DEF At
    <3>3. CASE i > Len(s)
      <4>1. i - Len(s) \in 1..Len(t) /\ t[i - Len(s)] \in S
        BY <3>1, <3>3
      <4>2. i - Len(s) \in At(t, S) /\ i = (i - Len(s)) + Len(s)
        BY <4>1 DEF At
      <4> QED
        BY <4>2
    <3> QED
      BY <3>1, <3>2, <3>3
  <2>2. At(s, S) \subseteq At(s \o t, S)
    BY DEF At
  <2>3. U \subseteq At(s \o t, S)
    BY DEF At
  <2> QED
    BY <2>1, <2>2, <2>3
<1>5. At(s, S) \cap U = {}
  BY <1>1, <1>2
<1> HIDE DEF U
<1> QED
  BY <1>1, <1>3, <1>4, <1>5, DisjointUnion DEF Cnt

\* Without the first.
LEMMA CntTail ==
  ASSUME NEW X, NEW s \in Seq(X), s # <<>>, NEW S
  PROVE  Cnt(Tail(s), S) = Cnt(s, S) - Bit(Head(s) \in S)
<1> DEFINE none == <<>>
           first == Append(none, Head(s))
           rest == Tail(s)
<1>1. s = first \o rest /\ first \in Seq(X) /\ rest \in Seq(X) /\ none \in Seq(X)
  OBVIOUS
<1>2. Cnt(none, S) = 0
  BY CntEmpty
<1>3. Cnt(first, S) = Cnt(none, S) + Bit(Head(s) \in S)
  <2> HIDE DEF none
  <2> QED
    BY <1>1, CntAppend
<1> HIDE DEF none, first, rest
<1>4. Cnt(s, S) = Cnt(first, S) + Cnt(rest, S)
  BY <1>1, CntConcat
<1>5. Cnt(rest, S) \in Nat
  BY <1>1, AtFinite
<1> QED
  BY <1>2, <1>3, <1>4, <1>5 DEF Bit, rest

\* Sets that look alike in a sequence count alike.
LEMMA CntAlike ==
  ASSUME NEW X, NEW s \in Seq(X), NEW S, NEW t, NEW T, DOMAIN t = DOMAIN s,
         \A i \in DOMAIN s : s[i] \in S <=> t[i] \in T
  PROVE  Cnt(t, T) = Cnt(s, S)
<1>1. At(t, T) = At(s, S)
  BY DEF At
<1> QED
  BY <1>1 DEF Cnt

\* What is there counts.
LEMMA CntPositive ==
  ASSUME NEW X, NEW s \in Seq(X), NEW S
  PROVE  (\E e \in Elems(s) : e \in S) <=> Cnt(s, S) > 0
<1>1. IsFiniteSet(At(s, S)) /\ Cnt(s, S) \in Nat
  BY AtFinite
<1>2. Cnt(s, S) = 0 <=> At(s, S) = {}
  BY <1>1, FS_EmptySet DEF Cnt
<1>3. At(s, S) # {} <=> \E e \in Elems(s) : e \in S
  BY DEF At, Elems
<1> QED
  BY <1>1, <1>2, <1>3

\* The members of a sequence after Append and Tail.
LEMMA ElemsOf ==
  ASSUME NEW X, NEW s \in Seq(X)
  PROVE  /\ Elems(s) \subseteq X
         /\ \A i \in DOMAIN s : s[i] \in Elems(s)
         /\ \A e : Elems(Append(s, e)) = Elems(s) \cup {e}
         /\ s # <<>> => Head(s) \in Elems(s) /\ Elems(Tail(s)) \subseteq Elems(s)
  <1>1. Elems(s) \subseteq X /\ \A i \in DOMAIN s : s[i] \in Elems(s)
    BY DEF Elems
  <1>2. ASSUME NEW e PROVE Elems(Append(s, e)) = Elems(s) \cup {e}
    <2>1. \A i \in 1..Len(s) : Append(s, e)[i] = s[i]
      OBVIOUS
    <2>2. Append(s, e)[Len(s) + 1] = e /\ DOMAIN Append(s, e) = 1..(Len(s) + 1)
      OBVIOUS
    <2>3. /\ Len(s) \in Nat /\ DOMAIN s = 1..Len(s) /\ Len(s) + 1 \in 1..(Len(s) + 1)
          /\ \A i \in 1..(Len(s) + 1) : i \in 1..Len(s) \/ i = Len(s) + 1
          /\ \A i \in 1..Len(s) : i \in 1..(Len(s) + 1)
      OBVIOUS
    <2> QED
      BY <2>1, <2>2, <2>3 DEF Elems
  <1>3. s # <<>> => Head(s) \in Elems(s) /\ Elems(Tail(s)) \subseteq Elems(s)
    BY DEF Elems
  <1> QED
    BY <1>1, <1>2, <1>3

\* And after \o.
LEMMA ElemsConcat ==
  ASSUME NEW X, NEW s \in Seq(X), NEW t \in Seq(X)
  PROVE  Elems(s \o t) = Elems(s) \cup Elems(t)
<1>1. ASSUME NEW e \in Elems(s \o t) PROVE e \in Elems(s) \cup Elems(t)
  <2>1. PICK i \in DOMAIN (s \o t) : e = (s \o t)[i]
    BY DEF Elems
  <2>2. CASE i <= Len(s)
    <3>1. i \in DOMAIN s /\ e = s[i]
      BY <2>1, <2>2
    <3> QED
      BY <3>1 DEF Elems
  <2>3. CASE i > Len(s)
    <3>1. i - Len(s) \in DOMAIN t /\ e = t[i - Len(s)]
      BY <2>1, <2>3
    <3> QED
      BY <3>1 DEF Elems
  <2> QED
    BY <2>2, <2>3
<1>2. \A i \in DOMAIN s : i \in DOMAIN (s \o t) /\ (s \o t)[i] = s[i]
  OBVIOUS
<1>3. \A i \in DOMAIN t : i + Len(s) \in DOMAIN (s \o t) /\ (s \o t)[i + Len(s)] = t[i]
  OBVIOUS
<1>4. Elems(s) \subseteq Elems(s \o t)
  BY <1>2 DEF Elems
<1>5. Elems(t) \subseteq Elems(s \o t)
  BY <1>3 DEF Elems
<1> QED
  BY <1>1, <1>4, <1>5

\* A sequence without its i-th element.
Without(s, i) == SubSeq(s, 1, i - 1) \o SubSeq(s, i + 1, Len(s))

\* Its members, and how often they occur.
LEMMA WithoutFacts ==
  ASSUME NEW X, NEW s \in Seq(X), NEW i \in DOMAIN s
  PROVE  /\ Without(s, i) \in Seq(X) /\ Elems(Without(s, i)) \subseteq Elems(s)
         /\ \A S : Cnt(Without(s, i), S) = Cnt(s, S) - Bit(s[i] \in S)
<1>0. PICK t : t = Without(s, i)
  OBVIOUS
<1>1. Len(s) \in Nat /\ i \in 1..Len(s) /\ DOMAIN s = 1..Len(s) /\ \A k \in 1..Len(s) : s[k] \in X
  OBVIOUS
<1>2. PICK a : a = SubSeq(s, 1, i - 1)
  OBVIOUS
<1>3. PICK b : b = SubSeq(s, i + 1, Len(s))
  OBVIOUS
<1>4. PICK e : e = s[i]
  OBVIOUS
<1>5. /\ 1 \in Int /\ i - 1 \in Int /\ \A k \in 1..(i - 1) : s[k] \in X
      /\ i + 1 \in Int /\ Len(s) \in Int /\ \A k \in (i + 1)..Len(s) : s[k] \in X
  BY <1>1
<1>6. /\ a \in Seq(X) /\ Len(a) = IF 1 <= i - 1 THEN (i - 1) - 1 + 1 ELSE 0
      /\ \A k \in 1..((i - 1) - 1 + 1) : a[k] = s[1 + k - 1]
  BY <1>2, <1>5, SubSeqProperties
<1>7. /\ b \in Seq(X) /\ Len(b) = IF i + 1 <= Len(s) THEN Len(s) - (i + 1) + 1 ELSE 0
      /\ \A k \in 1..(Len(s) - (i + 1) + 1) : b[k] = s[i + 1 + k - 1]
  BY <1>3, <1>5, SubSeqProperties
<1>8. Len(a) = i - 1 /\ \A k \in 1..(i - 1) : a[k] = s[k]
  BY <1>1, <1>6
<1>9. Len(b) = Len(s) - i /\ \A k \in 1..(Len(s) - i) : b[k] = s[i + k]
  <2>1. Len(b) = Len(s) - i
    BY <1>1, <1>7
  <2> SUFFICES ASSUME NEW k \in 1..(Len(s) - i) PROVE b[k] = s[i + k]
    BY <2>1
  <2>2. k \in 1..(Len(s) - (i + 1) + 1) /\ i + 1 + k - 1 = i + k
    BY <1>1
  <2> QED
    BY <1>7, <2>2
<1>10. PICK c : c = Append(a, e)
  OBVIOUS
<1>11. /\ c \in Seq(X) /\ Len(c) = i /\ c[i] = e
       /\ \A k \in 1..(i - 1) : c[k] = a[k]
  BY <1>1, <1>4, <1>6, <1>8, <1>10
<1>12. PICK u : u = c \o b
  OBVIOUS
<1>13. /\ u \in Seq(X) /\ Len(u) = Len(c) + Len(b)
       /\ \A k \in 1..(Len(c) + Len(b)) : u[k] = IF k <= Len(c) THEN c[k] ELSE b[k - Len(c)]
  BY <1>7, <1>11, <1>12, ConcatProperties
<1>14. Len(u) = Len(s) /\ \A k \in 1..Len(u) : u[k] = s[k]
  <2>1. Len(u) = Len(s)
    BY <1>1, <1>9, <1>11, <1>13
  <2> SUFFICES ASSUME NEW k \in 1..Len(s) PROVE u[k] = s[k]
    BY <2>1
  <2>2. k \in 1..(Len(c) + Len(b)) /\ Len(c) = i
    BY <1>1, <2>1, <1>11, <1>13
  <2>3. CASE k < i
    <3>1. k \in 1..(i - 1) /\ k <= Len(c)
      <4>1. i \in Int /\ k \in Int /\ 1 <= k
        BY <1>1
      <4> QED
        BY ONLY <4>1, <2>2, <2>3
    <3>2. u[k] = c[k]
      <4>1. u[k] = IF k <= Len(c) THEN c[k] ELSE b[k - Len(c)]
        BY <1>13, <2>2
      <4> QED
        BY <3>1, <4>1
    <3>3. c[k] = a[k]
      BY <1>11, <3>1
    <3>4. a[k] = s[k]
      BY <1>8, <3>1
    <3> QED
      BY <3>2, <3>3, <3>4
  <2>4. CASE k = i
    BY <1>1, <1>4, <1>11, <1>13, <2>2, <2>4
  <2>5. CASE k > i
    <3>1. k - i \in 1..(Len(s) - i) /\ i + (k - i) = k
      BY <1>1, <2>5
    <3>2. u[k] = b[k - i]
      BY <1>1, <1>11, <1>13, <2>2, <2>5
    <3> QED
      BY <1>9, <3>1, <3>2
  <2> QED
    BY <1>1, <2>3, <2>4, <2>5
<1>15. u = s
  <2>1. Len(u) = Len(s) /\ \A k \in 1..Len(u) : u[k] = s[k]
    BY <1>14
  <2> QED
    BY <1>13, <2>1, SeqEqual, Zenon
<1>16. t \in Seq(X) /\ t = a \o b
  BY <1>0, <1>2, <1>3, <1>6, <1>7 DEF Without
<1>17. Elems(t) \subseteq Elems(s)
  <2>1. Elems(a \o b) = Elems(a) \cup Elems(b)
    BY <1>6, <1>7, ElemsConcat
  <2>2. Elems(c) = Elems(a) \cup {e}
    BY <1>6, <1>10, ElemsOf
  <2>3. Elems(u) = Elems(c) \cup Elems(b)
    BY <1>7, <1>11, <1>12, ElemsConcat
  <2> QED
    BY <1>15, <1>16, <2>1, <2>2, <2>3
<1>18. ASSUME NEW S PROVE Cnt(t, S) = Cnt(s, S) - Bit(s[i] \in S)
  <2>1. Cnt(a \o b, S) = Cnt(a, S) + Cnt(b, S)
    BY <1>6, <1>7, CntConcat
  <2>2. Cnt(c, S) = Cnt(a, S) + Bit(e \in S)
    BY <1>6, <1>10, CntAppend
  <2>3. Cnt(u, S) = Cnt(c, S) + Cnt(b, S)
    BY <1>7, <1>11, <1>12, CntConcat
  <2>4. Cnt(a, S) \in Nat /\ Cnt(b, S) \in Nat
    BY <1>6, <1>7, AtFinite
  <2>5. Cnt(s, S) = Cnt(a, S) + Bit(s[i] \in S) + Cnt(b, S)
    BY <1>4, <1>15, <2>2, <2>3
  <2> QED
    <3>1. Cnt(t, S) = Cnt(a, S) + Cnt(b, S)
      BY <1>16, <2>1
    <3>2. Bit(s[i] \in S) \in Nat
      BY DEF Bit
    <3> QED
      BY <2>4, <2>5, <3>1, <3>2
<1> QED
  BY <1>0, <1>16, <1>17, <1>18

-----------------------------------------------------------------------------
(* How the steps move what waits.                                          *)

\* Tokens are counted in natural numbers.
LEMMA TokenTypes ==
  ASSUME TypeOK, NEW op, NEW id
  PROVE  /\ Cnt(sq, Queued(op, id)) \in Nat /\ Cnt(ops, Running(op, id)) \in Nat
         /\ Cnt(batch, Ended(op, id)) \in Nat /\ Cnt(cq, Ended(op, id)) \in Nat
         /\ Tokens(op, id) \in Nat
<1>1. sq \in Seq(Entry) /\ ops \in Seq(Operation) /\ batch \in Seq(Completion)
      /\ cq \in Seq(Completion)
  BY DEF TypeOK
<1>2. Cnt(sq, Queued(op, id)) \in Nat /\ Cnt(ops, Running(op, id)) \in Nat
  BY <1>1, AtFinite
<1>3. Cnt(batch, Ended(op, id)) \in Nat /\ Cnt(cq, Ended(op, id)) \in Nat
  BY <1>1, AtFinite
<1> QED
  BY <1>2, <1>3 DEF Tokens

\* What it takes to count a token of each kind.
LEMMA TokenShown ==
  ASSUME TypeOK, NEW op, NEW id
  PROVE  /\ \A e \in Elems(sq) : e.op = op /\ e.id = id => Cnt(sq, Queued(op, id)) > 0
         /\ \A o \in Elems(ops) : o.op = op /\ o.id = id => Cnt(ops, Running(op, id)) > 0
         /\ \A x \in Elems(batch) : x.op = op /\ x.id = id /\ ~x.more
                                      => Cnt(batch, Ended(op, id)) > 0
         /\ \A x \in Elems(cq) : x.op = op /\ x.id = id /\ ~x.more
                                      => Cnt(cq, Ended(op, id)) > 0
<1>1. sq \in Seq(Entry) /\ ops \in Seq(Operation) /\ batch \in Seq(Completion)
      /\ cq \in Seq(Completion)
  BY DEF TypeOK
<1>2. Elems(sq) \subseteq Entry /\ Elems(ops) \subseteq Operation
      /\ Elems(batch) \subseteq Completion /\ Elems(cq) \subseteq Completion
  BY <1>1, ElemsOf
<1>3. ASSUME NEW e \in Elems(sq), e.op = op, e.id = id
      PROVE  Cnt(sq, Queued(op, id)) > 0
  <2>1. e \in Queued(op, id)
    BY <1>2, <1>3 DEF Queued
  <2> QED
    BY <1>1, <2>1, CntPositive
<1>4. ASSUME NEW e \in Elems(ops), e.op = op, e.id = id
      PROVE  Cnt(ops, Running(op, id)) > 0
  <2>1. e \in Running(op, id)
    BY <1>2, <1>4 DEF Running
  <2> QED
    BY <1>1, <2>1, CntPositive
<1>5. ASSUME NEW e \in Elems(batch), e.op = op, e.id = id, ~e.more
      PROVE  Cnt(batch, Ended(op, id)) > 0
  <2>1. e \in Ended(op, id)
    BY <1>2, <1>5 DEF Ended
  <2> QED
    BY <1>1, <2>1, CntPositive
<1>6. ASSUME NEW e \in Elems(cq), e.op = op, e.id = id, ~e.more
      PROVE  Cnt(cq, Ended(op, id)) > 0
  <2>1. e \in Ended(op, id)
    BY <1>2, <1>6 DEF Ended
  <2> QED
    BY <1>1, <2>1, CntPositive
<1> QED
  BY <1>3, <1>4, <1>5, <1>6

\* Ids nobody has got yet have no tokens, and no bytes of theirs have left.
LEMMA NewId ==
  ASSUME TypeOK, Known, NEW op, op # "accept", NEW id \in Nat, id >= nextId
  PROVE  /\ Tokens(op, id) = 0
         /\ \A e \in Elems(sq) \cup Elems(ops) \cup Elems(batch) \cup Elems(cq) :
              ~(e.op = op /\ e.id = id)
         /\ SentBytes(id) = 0
<1>1. sq \in Seq(Entry) /\ ops \in Seq(Operation) /\ batch \in Seq(Completion)
      /\ cq \in Seq(Completion) /\ nextId \in Nat
  BY DEF TypeOK, HttpAssumption
<1>2. \A e \in Elems(sq) \cup Elems(ops) \cup Elems(batch) \cup Elems(cq) :
        ~(e.op = op /\ e.id = id)
  BY <1>1 DEF Known, KnownId, CompletionOK
<1>3. Cnt(sq, Queued(op, id)) = 0
  <2>1. ~ \E e \in Elems(sq) : e \in Queued(op, id)
    BY <1>2 DEF Queued
  <2> QED
    BY <1>1, <2>1, CntPositive, AtFinite
<1>4. Cnt(ops, Running(op, id)) = 0
  <2>1. ~ \E e \in Elems(ops) : e \in Running(op, id)
    BY <1>2 DEF Running
  <2> QED
    BY <1>1, <2>1, CntPositive, AtFinite
<1>5. Cnt(batch, Ended(op, id)) = 0
  <2>1. ~ \E e \in Elems(batch) : e \in Ended(op, id)
    BY <1>2 DEF Ended
  <2> QED
    BY <1>1, <2>1, CntPositive, AtFinite
<1>6. Cnt(cq, Ended(op, id)) = 0
  <2>1. ~ \E e \in Elems(cq) : e \in Ended(op, id)
    BY <1>2 DEF Ended
  <2> QED
    BY <1>1, <2>1, CntPositive, AtFinite
<1>7. SentBytes(id) = 0
  <2>1. {j \in DOMAIN wire : wire[j].id = id} = {}
    BY <1>1 DEF Known
  <2> QED
    BY <2>1, FS_EmptySet DEF SentBytes
<1> QED
  BY <1>2, <1>3, <1>4, <1>5, <1>6, <1>7 DEF Tokens

\* An entry that is submitted stays of its kind.
LEMMA BindFacts ==
  ASSUME TypeOK, NEW e \in Entry
  PROVE  /\ Bind(e) \in Operation /\ Bind(e).op = e.op /\ Bind(e).id = e.id
         /\ Bind(e).pos = e.pos
<1>1. (IF e.fd = NoFd THEN 0 ELSE fdSock[e.fd]) \in Socks \cup {0}
  BY DEF TypeOK, Entry
<1> QED
  BY <1>1 DEF Bind, Entry, Operation

\* Submitting moves what was pushed to the kernel.
LEMMA SubmitMoves ==
  ASSUME TypeOK, Submit, batch' = batch, cq' = cq
  PROVE  /\ ops' \in Seq(Operation) /\ sq' = <<>> /\ Elems(sq') = {}
         /\ \A o \in Elems(ops') : o \in Elems(ops) \/ \E e \in Elems(sq) : o = Bind(e)
         /\ \A op, id : Tokens(op, id)' = Tokens(op, id)
<1>1. sq \in Seq(Entry) /\ ops \in Seq(Operation)
  BY DEF TypeOK
<1>2. PICK b : b = [i \in DOMAIN sq |-> Bind(sq[i])]
  OBVIOUS
<1>3. ops' = ops \o b /\ sq' = <<>>
  BY <1>2 DEF Submit
<1>4. DOMAIN sq = 1..Len(sq) /\ Len(sq) \in Nat /\ \A i \in DOMAIN sq : sq[i] \in Entry
  BY <1>1
<1>5. \A i \in DOMAIN sq : Bind(sq[i]) \in Operation
  BY <1>4, BindFacts
<1>6. b \in Seq(Operation) /\ DOMAIN b = DOMAIN sq /\ \A i \in DOMAIN sq : b[i] = Bind(sq[i])
  BY <1>2, <1>4, <1>5
<1>7. ops' \in Seq(Operation) /\ Elems(ops') = Elems(ops) \cup Elems(b)
  BY <1>1, <1>3, <1>6, ElemsConcat
<1>8. \A o \in Elems(b) : \E e \in Elems(sq) : o = Bind(e)
  BY <1>6 DEF Elems
<1>9. DOMAIN <<>> = {}
  OBVIOUS
<1>10. Elems(sq') = {}
  BY <1>3, <1>9 DEF Elems
<1>11. ASSUME NEW op, NEW id
       PROVE  Tokens(op, id)' = Tokens(op, id)
  <2>1. Cnt(sq', Queued(op, id)) = 0
    BY <1>3, CntEmpty
  <2>2. Cnt(ops', Running(op, id)) = Cnt(ops, Running(op, id)) + Cnt(b, Running(op, id))
    BY <1>1, <1>3, <1>6, CntConcat
  <2>3. \A i \in DOMAIN sq : sq[i] \in Queued(op, id) <=> b[i] \in Running(op, id)
    <3> SUFFICES ASSUME NEW i \in DOMAIN sq
                 PROVE  sq[i] \in Queued(op, id) <=> b[i] \in Running(op, id)
      OBVIOUS
    <3>1. b[i] = Bind(sq[i]) /\ sq[i] \in Entry
      BY <1>4, <1>6
    <3>2. b[i] \in Operation /\ b[i].op = sq[i].op /\ b[i].id = sq[i].id
      BY <3>1, BindFacts
    <3> QED
      BY <3>1, <3>2 DEF Queued, Running
  <2>4. Cnt(b, Running(op, id)) = Cnt(sq, Queued(op, id))
    BY <1>1, <1>6, <2>3, CntAlike
  <2>5. Cnt(sq, Queued(op, id)) \in Nat /\ Cnt(ops, Running(op, id)) \in Nat
        /\ Cnt(batch, Ended(op, id)) \in Nat /\ Cnt(cq, Ended(op, id)) \in Nat
    BY TokenTypes
  <2>6. Tokens(op, id)' = Cnt(sq', Queued(op, id)) + Cnt(ops', Running(op, id))
                    + Cnt(batch, Ended(op, id)) + Cnt(cq, Ended(op, id))
    BY DEF Tokens, Queued, Running, Ended
  <2> QED
    BY <2>1, <2>2, <2>4, <2>5, <2>6 DEF Tokens
<1> QED
  BY <1>3, <1>7, <1>8, <1>10, <1>11

\* Reaping moves the completions to the batch.
LEMMA ReapMoves ==
  ASSUME TypeOK, batch = <<>>, batch' = cq, cq' = <<>>, ops' = ops, sq' = sq
  PROVE  /\ Elems(batch') = Elems(cq) /\ Elems(cq') = {}
         /\ \A op, id : Tokens(op, id)' = Tokens(op, id)
         /\ \A S : Cnt(batch', S) + Cnt(cq', S) = Cnt(batch, S) + Cnt(cq, S)
<1>1. DOMAIN <<>> = {}
  OBVIOUS
<1>2. \A S : Cnt(batch, S) = 0 /\ Cnt(cq', S) = 0 /\ Cnt(batch', S) = Cnt(cq, S)
  BY CntEmpty
<1>3. \A S : Cnt(cq, S) \in Nat
  <2>1. cq \in Seq(Completion)
    BY DEF TypeOK
  <2> QED
    BY <2>1, AtFinite
<1>4. ASSUME NEW op, NEW id PROVE Tokens(op, id)' = Tokens(op, id)
  <2>1. Tokens(op, id)' = Cnt(sq, Queued(op, id)) + Cnt(ops, Running(op, id))
                    + Cnt(batch', Ended(op, id)) + Cnt(cq', Ended(op, id))
    BY DEF Tokens, Queued, Running, Ended
  <2>2. Cnt(sq, Queued(op, id)) \in Nat /\ Cnt(ops, Running(op, id)) \in Nat
    BY TokenTypes
  <2> QED
    BY <1>2, <1>3, <2>1, <2>2 DEF Tokens
<1> QED
  BY <1>1, <1>2, <1>3, <1>4 DEF Elems

\* A handler takes the first completion and pushes "new".
LEMMA HandlerMoves ==
  ASSUME TypeOK, batch # <<>>, batch' = Tail(batch), NEW new \in Seq(Entry),
         sq' = sq \o new, ops' = ops, cq' = cq
  PROVE  /\ batch' \in Seq(Completion) /\ sq' \in Seq(Entry)
         /\ Elems(sq') = Elems(sq) \cup Elems(new) /\ Elems(batch') \subseteq Elems(batch)
         /\ Cqe \in Elems(batch) /\ Cqe \in Completion
         /\ \A S : Cnt(batch', S) = Cnt(batch, S) - Bit(Cqe \in S)
         /\ \A op, id : Tokens(op, id)'
                = Tokens(op, id) - Bit(Cqe \in Ended(op, id)) + Cnt(new, Queued(op, id))
<1>1. sq \in Seq(Entry) /\ batch \in Seq(Completion)
  BY DEF TypeOK
<1>2. batch' \in Seq(Completion) /\ sq' \in Seq(Entry)
  BY <1>1
<1>3. Elems(sq') = Elems(sq) \cup Elems(new)
  BY <1>1, ElemsConcat
<1>4. Elems(batch') \subseteq Elems(batch) /\ Cqe \in Elems(batch) /\ Cqe \in Completion
  BY <1>1, ElemsOf DEF Cqe
<1>5. \A S : Cnt(batch', S) = Cnt(batch, S) - Bit(Cqe \in S)
  BY <1>1, CntTail DEF Cqe
<1>6. ASSUME NEW op, NEW id
      PROVE  Tokens(op, id)'
                = Tokens(op, id) - Bit(Cqe \in Ended(op, id)) + Cnt(new, Queued(op, id))
  <2>1. Tokens(op, id)' = Cnt(sq', Queued(op, id)) + Cnt(ops, Running(op, id))
                    + Cnt(batch', Ended(op, id)) + Cnt(cq, Ended(op, id))
    BY DEF Tokens, Queued, Running, Ended
  <2>2. Cnt(sq', Queued(op, id)) = Cnt(sq, Queued(op, id)) + Cnt(new, Queued(op, id))
    BY <1>1, CntConcat
  <2>3. Cnt(sq, Queued(op, id)) \in Nat /\ Cnt(ops, Running(op, id)) \in Nat
        /\ Cnt(batch, Ended(op, id)) \in Nat /\ Cnt(cq, Ended(op, id)) \in Nat
    BY TokenTypes
  <2>4. Cnt(new, Queued(op, id)) \in Nat
    BY AtFinite
  <2>5. Cnt(batch', Ended(op, id)) = Cnt(batch, Ended(op, id)) - Bit(Cqe \in Ended(op, id))
    BY <1>5
  <2>6. Bit(Cqe \in Ended(op, id)) \in Nat
    BY DEF Bit
  <2> QED
    BY <2>1, <2>2, <2>3, <2>4, <2>5, <2>6 DEF Tokens
<1> QED
  BY <1>2, <1>3, <1>4, <1>5, <1>6

\* The kernel posts a completion x of its operation i, which ends unless
\* there is more to come.
LEMMA KernelMoves ==
  ASSUME TypeOK, NEW i \in DOMAIN ops, NEW x \in Completion,
         x.op = ops[i].op, x.id = ops[i].id,
         cq' = Append(cq, x), ops' = IF x.more THEN ops ELSE WithoutOp(i),
         sq' = sq, batch' = batch
  PROVE  /\ cq' \in Seq(Completion) /\ ops' \in Seq(Operation)
         /\ Elems(cq') = Elems(cq) \cup {x} /\ Elems(ops') \subseteq Elems(ops)
         /\ ops[i] \in Elems(ops) /\ ops[i] \in Operation
         /\ \A S : Cnt(cq', S) = Cnt(cq, S) + Bit(x \in S)
         /\ \A op, id : Tokens(op, id)' = Tokens(op, id)
<1>1. cq \in Seq(Completion) /\ ops \in Seq(Operation)
  BY DEF TypeOK
<1>2. cq' \in Seq(Completion) /\ Elems(cq') = Elems(cq) \cup {x}
  BY <1>1, ElemsOf
<1>3. ops[i] \in Elems(ops) /\ ops[i] \in Operation
  BY <1>1, ElemsOf
<1>4. /\ WithoutOp(i) \in Seq(Operation) /\ Elems(WithoutOp(i)) \subseteq Elems(ops)
      /\ \A S : Cnt(WithoutOp(i), S) = Cnt(ops, S) - Bit(ops[i] \in S)
  <2>1. WithoutOp(i) = Without(ops, i)
    BY DEF WithoutOp, Without
  <2>2. /\ Without(ops, i) \in Seq(Operation) /\ Elems(Without(ops, i)) \subseteq Elems(ops)
        /\ \A S : Cnt(Without(ops, i), S) = Cnt(ops, S) - Bit(ops[i] \in S)
    BY <1>1, WithoutFacts
  <2> QED
    BY <2>1, <2>2
<1>5. ops' \in Seq(Operation) /\ Elems(ops') \subseteq Elems(ops)
  BY <1>1, <1>4
<1>6. \A S : Cnt(cq', S) = Cnt(cq, S) + Bit(x \in S)
  BY <1>1, CntAppend
<1>7. ASSUME NEW op, NEW id PROVE Tokens(op, id)' = Tokens(op, id)
  <2>1. Tokens(op, id)' = Cnt(sq, Queued(op, id)) + Cnt(ops', Running(op, id))
                    + Cnt(batch, Ended(op, id)) + Cnt(cq', Ended(op, id))
    BY DEF Tokens, Queued, Running, Ended
  <2>2. Cnt(sq, Queued(op, id)) \in Nat /\ Cnt(ops, Running(op, id)) \in Nat
        /\ Cnt(batch, Ended(op, id)) \in Nat /\ Cnt(cq, Ended(op, id)) \in Nat
    BY TokenTypes
  <2>3. Cnt(cq', Ended(op, id)) = Cnt(cq, Ended(op, id)) + Bit(x \in Ended(op, id))
    BY <1>6
  <2>4. CASE x.more
    <3>1. Bit(x \in Ended(op, id)) = 0 /\ ops' = ops
      BY <2>4 DEF Ended, Bit
    <3> QED
      BY <2>1, <2>2, <2>3, <3>1 DEF Tokens
  <2>5. CASE ~x.more
    <3>1. x \in Ended(op, id) <=> ops[i] \in Running(op, id)
      BY <1>3, <2>5 DEF Ended, Running
    <3>2. Bit(x \in Ended(op, id)) = Bit(ops[i] \in Running(op, id))
          /\ Bit(x \in Ended(op, id)) \in Nat
      BY <3>1 DEF Bit
    <3>3. Cnt(ops', Running(op, id)) = Cnt(ops, Running(op, id)) - Bit(ops[i] \in Running(op, id))
      BY <1>4, <2>5
    <3> QED
      BY <2>1, <2>2, <2>3, <3>2, <3>3 DEF Tokens
  <2> QED
    BY <2>4, <2>5
<1> QED
  BY <1>2, <1>3, <1>5, <1>6, <1>7

-----------------------------------------------------------------------------
(* The table of connections.                                               *)

\* The types of the table's variables.
TableTypes ==
  /\ connections \in [Fds -> Connection] /\ idToFd \in [Ids -> Fds \cup {NoFd}]
  /\ nextId \in 1..(MaxSockets + 1)
  /\ fdSock \in [Fds -> Socks \cup {0}] /\ sockOf \in [Ids -> Socks \cup {0}]

\* TypeOK gives them.
LEMMA TableIs == TypeOK => TableTypes
BY DEF TypeOK, TableTypes

\* The row of a connection.
LEMMA ConnectionIs ==
  /\ NoConnection \in Connection /\ NoConnection.id = 0
  /\ \A id \in Ids : LET c == [NoConnection EXCEPT !.id = id]
                     IN  c \in Connection /\ c.id = id /\ ~c.sendStarted /\ c.sendOffset = 0
<1>1. 0 \in 0..(ResponseLen - 1)
  BY HttpAssumption
<1> QED
  BY <1>1 DEF NoConnection, Connection

\* What the table says of a live connection.
LEMMA LiveFacts ==
  ASSUME TableTypes, TableInv, NEW fd \in LiveFds
  PROVE  /\ fd \in Fds /\ connections[fd] \in Connection
         /\ connections[fd].id \in Ids /\ connections[fd].id < nextId
         /\ idToFd[connections[fd].id] = fd /\ fdSock[fd] # 0
<1>1. fd \in Fds /\ connections[fd].id # 0
  BY DEF LiveFds
<1>2. connections[fd] \in Connection
  BY <1>1 DEF TableTypes
<1>3. connections[fd].id \in Ids
  BY <1>1, <1>2 DEF Connection
<1> QED
  BY <1>1, <1>2, <1>3 DEF TableInv, TableConsistent

\* The descriptor of an id that is in the table.
LEMMA KnownFd ==
  ASSUME TableTypes, TableInv, NEW id \in Ids, idToFd[id] # NoFd
  PROVE  idToFd[id] \in LiveFds /\ connections[idToFd[id]].id = id
<1>1. idToFd[id] \in Fds
  BY DEF TableTypes
<1>2. connections[idToFd[id]].id = id
  BY DEF TableInv, TableConsistent
<1>3. id # 0
  BY HttpAssumption DEF Ids
<1> QED
  BY <1>1, <1>2, <1>3 DEF LiveFds

\* close_connection takes the row, the id and the descriptor.
LEMMA CloseTable ==
  ASSUME TableTypes, TableInv, NEW fds \in SUBSET LiveFds, Close(fds),
         nextId' = nextId, sockOf' = sockOf
  PROVE  /\ TableTypes' /\ TableInv' /\ LiveFds' = LiveFds \ fds
         /\ \A fd \in LiveFds' : connections'[fd] = connections[fd]
         /\ \A fd \in Fds : connections'[fd] = connections[fd] \/ connections'[fd].id = 0
         /\ \A fd \in Fds \ fds : fdSock'[fd] = fdSock[fd]
<1>1. fds \subseteq Fds
  BY DEF LiveFds
<1>2. /\ connections' = [fd \in Fds |-> IF fd \in fds THEN NoConnection ELSE connections[fd]]
      /\ idToFd' = [id \in Ids |-> IF idToFd[id] \in fds THEN NoFd ELSE idToFd[id]]
      /\ fdSock' = [fd \in Fds |-> IF fd \in fds THEN 0 ELSE fdSock[fd]]
  BY DEF Close
<1>3. TableTypes'
  <2>1. connections' \in [Fds -> Connection]
    BY <1>2, ConnectionIs DEF TableTypes
  <2>2. idToFd' \in [Ids -> Fds \cup {NoFd}]
    BY <1>2 DEF TableTypes
  <2>3. fdSock' \in [Fds -> Socks \cup {0}]
    BY <1>2 DEF TableTypes
  <2> QED
    BY <2>1, <2>2, <2>3 DEF TableTypes
<1>4. LiveFds' = LiveFds \ fds
  BY <1>2, ConnectionIs DEF LiveFds
<1>5. \A fd \in LiveFds' : connections'[fd] = connections[fd] /\ fd \in LiveFds /\ fd \notin fds
  BY <1>2, <1>4 DEF LiveFds
<1>6. \A fd \in Fds : connections'[fd] = connections[fd] \/ connections'[fd].id = 0
  BY <1>2, ConnectionIs
<1>7. \A fd \in Fds \ fds : fdSock'[fd] = fdSock[fd]
  BY <1>2
<1>8. ASSUME NEW fd \in LiveFds'
      PROVE  /\ idToFd'[connections'[fd].id] = fd
             /\ fdSock'[fd] = sockOf'[connections'[fd].id] /\ fdSock'[fd] # 0
  <2>1. connections'[fd] = connections[fd] /\ fd \in LiveFds /\ fd \notin fds
    BY <1>5
  <2>2. connections[fd].id \in Ids /\ idToFd[connections[fd].id] = fd /\ fd \in Fds
    BY <2>1, LiveFacts
  <2>3. idToFd'[connections[fd].id] = fd /\ fdSock'[fd] = fdSock[fd]
    BY <1>2, <2>1, <2>2
  <2>4. fdSock[fd] = sockOf[connections[fd].id] /\ fdSock[fd] # 0
    BY <2>1 DEF TableInv, TableConsistent
  <2> QED
    BY <2>1, <2>3, <2>4
<1>9. ASSUME NEW id \in Ids, idToFd'[id] # NoFd
      PROVE  connections'[idToFd'[id]].id = id
  <2>1. idToFd'[id] = idToFd[id] /\ idToFd[id] \notin fds
    BY <1>2, <1>9
  <2>2. idToFd[id] \in LiveFds /\ connections[idToFd[id]].id = id
    BY <1>9, <2>1, KnownFd
  <2>3. idToFd[id] \in LiveFds'
    BY <1>4, <2>1, <2>2
  <2> QED
    BY <1>5, <2>1, <2>2, <2>3
<1>10. \A fd \in Fds : connections'[fd].id < nextId
  <2>1. 0 < nextId
    BY DEF TableTypes
  <2> QED
    BY <1>6, <2>1 DEF TableInv
<1> QED
  BY <1>3, <1>4, <1>5, <1>6, <1>7, <1>8, <1>9, <1>10 DEF TableInv, TableConsistent

\* A handler that changes a row and keeps its id.
LEMMA KeepTable ==
  ASSUME TableTypes, TableInv, NEW fd \in LiveFds, NEW c \in Connection,
         c.id = connections[fd].id, Keep(fd, c), nextId' = nextId, sockOf' = sockOf
  PROVE  /\ TableTypes' /\ TableInv' /\ LiveFds' = LiveFds /\ connections'[fd] = c
         /\ \A g \in Fds : connections'[g] = connections[g] \/ connections'[g].id = c.id
         /\ \A g \in Fds : connections'[g].id = connections[g].id
         /\ \A g \in Fds \ {fd} : connections'[g] = connections[g]
         /\ fdSock' = fdSock
<1>1. fd \in Fds
  BY DEF LiveFds
<1>2. connections' = [connections EXCEPT ![fd] = c] /\ idToFd' = idToFd /\ fdSock' = fdSock
  BY DEF Keep
<1>3. connections' \in [Fds -> Connection] /\ connections'[fd] = c
      /\ \A g \in Fds \ {fd} : connections'[g] = connections[g]
  BY <1>1, <1>2 DEF TableTypes
<1>4. \A g \in Fds : connections'[g].id = connections[g].id
  BY <1>3
<1>5. LiveFds' = LiveFds
  BY <1>4 DEF LiveFds
<1>6. TableTypes'
  BY <1>2, <1>3 DEF TableTypes
<1>7. ASSUME NEW g \in LiveFds'
      PROVE  /\ idToFd'[connections'[g].id] = g
             /\ fdSock'[g] = sockOf'[connections'[g].id] /\ fdSock'[g] # 0
  <2>1. g \in LiveFds /\ connections'[g].id = connections[g].id
    BY <1>4, <1>5 DEF LiveFds
  <2>2. idToFd[connections[g].id] = g /\ fdSock[g] = sockOf[connections[g].id] /\ fdSock[g] # 0
    BY <2>1 DEF TableInv, TableConsistent
  <2> QED
    BY <1>2, <2>1, <2>2
<1>8. ASSUME NEW id \in Ids, idToFd'[id] # NoFd PROVE connections'[idToFd'[id]].id = id
  <2>1. idToFd[id] \in LiveFds /\ connections[idToFd[id]].id = id
    BY <1>2, <1>8, KnownFd
  <2> QED
    BY <1>2, <1>4, <2>1 DEF LiveFds
<1>9. \A g \in Fds : connections'[g].id < nextId'
  BY <1>4 DEF TableInv
<1> QED
  BY <1>2, <1>3, <1>4, <1>5, <1>6, <1>7, <1>8, <1>9 DEF TableInv, TableConsistent

\* A row for a new connection.
LEMMA AcceptTable ==
  ASSUME TableTypes, TableInv, NEW fd \in Fds, connections[fd].id = 0, fdSock[fd] # 0,
         nextId <= MaxSockets, AcceptConnection(fd)
  PROVE  /\ TableTypes' /\ TableInv' /\ LiveFds' = LiveFds \cup {fd} /\ nextId \in Ids
         /\ nextId' = nextId + 1 /\ connections'[fd] = [NoConnection EXCEPT !.id = nextId]
         /\ \A g \in Fds \ {fd} : connections'[g] = connections[g]
         /\ fdSock' = fdSock
<1> DEFINE c == [NoConnection EXCEPT !.id = nextId]
<1>0. MaxSockets \in Nat
  BY HttpAssumption
<1>1. nextId \in Ids
  BY <1>0 DEF TableTypes, Ids
<1>2. c \in Connection /\ c.id = nextId /\ nextId # 0
  BY <1>0, <1>1, ConnectionIs DEF Ids
<1>3. /\ connections' = [connections EXCEPT ![fd] = c]
      /\ idToFd' = [idToFd EXCEPT ![nextId] = fd] /\ nextId' = nextId + 1
      /\ sockOf' = [sockOf EXCEPT ![nextId] = fdSock[fd]] /\ fdSock' = fdSock
  BY DEF AcceptConnection
<1>4. c.id = nextId /\ c \in Connection
  BY <1>2
<1> HIDE DEF c
<1>5. /\ connections' \in [Fds -> Connection] /\ connections'[fd] = c
      /\ \A g \in Fds \ {fd} : connections'[g] = connections[g]
  BY <1>3, <1>4 DEF TableTypes
<1>6. /\ idToFd' \in [Ids -> Fds \cup {NoFd}] /\ idToFd'[nextId] = fd
      /\ \A id \in Ids \ {nextId} : idToFd'[id] = idToFd[id]
  BY <1>1, <1>3 DEF TableTypes
<1>7. /\ sockOf' \in [Ids -> Socks \cup {0}] /\ sockOf'[nextId] = fdSock[fd]
      /\ \A id \in Ids \ {nextId} : sockOf'[id] = sockOf[id]
  <2>1. fdSock[fd] \in Socks \cup {0}
    BY DEF TableTypes
  <2> QED
    BY <1>1, <1>3, <2>1 DEF TableTypes
<1>8. nextId' \in 1..(MaxSockets + 1)
  BY <1>0, <1>3 DEF TableTypes
<1>9. TableTypes'
  BY <1>3, <1>5, <1>6, <1>7, <1>8 DEF TableTypes
<1>10. LiveFds' = LiveFds \cup {fd}
  <2>1. \A g \in Fds : connections'[g].id # 0 <=> (connections[g].id # 0 \/ g = fd)
    BY <1>2, <1>4, <1>5
  <2> QED
    BY <2>1 DEF LiveFds
<1>11. ASSUME NEW g \in LiveFds'
      PROVE  /\ idToFd'[connections'[g].id] = g
             /\ fdSock'[g] = sockOf'[connections'[g].id] /\ fdSock'[g] # 0
  <2>1. CASE g = fd
    BY <1>3, <1>4, <1>5, <1>6, <1>7, <2>1
  <2>2. CASE g # fd
    <3>1. g \in LiveFds /\ connections'[g] = connections[g]
      BY <1>5, <1>10, <2>2 DEF LiveFds
    <3>2. connections[g].id \in Ids \ {nextId}
      <4>1. connections[g].id < nextId /\ connections[g].id \in Ids /\ nextId \in Int
        BY <3>1, LiveFacts DEF TableTypes
      <4> QED
        BY <1>0, <4>1 DEF Ids
    <3>3. idToFd[connections[g].id] = g /\ fdSock[g] = sockOf[connections[g].id] /\ fdSock[g] # 0
      BY <3>1 DEF TableInv, TableConsistent
    <3> QED
      BY <1>3, <1>6, <1>7, <3>1, <3>2, <3>3
  <2> QED
    BY <2>1, <2>2
<1>12. ASSUME NEW id \in Ids, idToFd'[id] # NoFd PROVE connections'[idToFd'[id]].id = id
  <2>1. CASE id = nextId
    BY <1>4, <1>5, <1>6, <2>1
  <2>2. CASE id # nextId
    <3>1. idToFd'[id] = idToFd[id]
      BY <1>6, <2>2
    <3>2. idToFd[id] \in LiveFds /\ connections[idToFd[id]].id = id
      BY <1>12, <3>1, KnownFd
    <3>3. idToFd[id] \in Fds \ {fd}
      BY <3>2 DEF LiveFds
    <3> QED
      BY <1>5, <3>1, <3>2, <3>3
  <2> QED
    BY <2>1, <2>2
<1>13. \A g \in Fds : connections'[g].id < nextId'
  <2> SUFFICES ASSUME NEW g \in Fds PROVE connections'[g].id < nextId'
    OBVIOUS
  <2>1. nextId \in Int /\ connections[g].id < nextId /\ connections[g].id \in Int
    BY <1>0 DEF TableInv, TableTypes, Connection, Ids
  <2>2. connections'[g].id = connections[g].id \/ connections'[g].id = nextId
    BY <1>4, <1>5
  <2> QED
    BY <1>3, <2>1, <2>2
<1> QED
  BY <1>1, <1>3, <1>5, <1>9, <1>10, <1>11, <1>12, <1>13 DEF TableInv, TableConsistent, c

\* A socket on a descriptor in nobody's row.
LEMMA OtherSocketTable ==
  ASSUME TableTypes, TableInv, NEW fd \in Fds, connections[fd].id = 0, NEW s \in Socks \cup {0},
         fdSock' = [fdSock EXCEPT ![fd] = s],
         UNCHANGED <<connections, idToFd, nextId, sockOf>>
  PROVE  /\ TableTypes' /\ TableInv' /\ LiveFds' = LiveFds
         /\ fdSock'[fd] = s /\ \A g \in Fds \ {fd} : fdSock'[g] = fdSock[g]
<1>1. /\ fdSock' \in [Fds -> Socks \cup {0}] /\ fdSock'[fd] = s
      /\ \A g \in Fds \ {fd} : fdSock'[g] = fdSock[g]
  BY DEF TableTypes
<1>2. TableTypes'
  BY <1>1 DEF TableTypes
<1>3. LiveFds' = LiveFds /\ fd \notin LiveFds
  BY DEF LiveFds
<1>4. \A g \in LiveFds' : fdSock'[g] = fdSock[g]
  BY <1>1, <1>3 DEF LiveFds
<1>5. TableInv'
  BY <1>3, <1>4 DEF TableInv, TableConsistent
<1> QED
  BY <1>1, <1>2, <1>3, <1>5

\* Nothing happens to the table.
LEMMA SameTable ==
  ASSUME TableTypes, TableInv, UNCHANGED <<connections, idToFd, nextId, sockOf, fdSock>>
  PROVE  TableTypes' /\ TableInv' /\ LiveFds' = LiveFds
BY DEF TableTypes, TableInv, TableConsistent, LiveFds

-----------------------------------------------------------------------------
(* Steps that send nothing.                                                *)

\* Nothing of the response left, and what waits for the connection waited
\* before: the same entries, and completions that were there or that report
\* an error of such an entry.
QuietFor(id) ==
  /\ SentBytes(id)' = SentBytes(id)
  /\ \A e \in Sends(sq', id) \cup Sends(ops', id) :
       \E d \in Sends(sq, id) \cup Sends(ops, id) : d.pos = e.pos
  /\ \A x \in Sends(batch', id) \cup Sends(cq', id) :
       \/ x \in Sends(batch, id) \cup Sends(cq, id)
       \/ ~(x.result > 0) /\ Sends(sq, id) \cup Sends(ops, id) # {}

\* Such a step keeps what is known of an id.
LEMMA QuietId ==
  ASSUME NEW id, QuietFor(id), IdOK(id), Tokens("send", id)' <= 1
  PROVE  IdOK(id)'
<1>1. SentBytes(id)' = SentBytes(id)
  BY DEF QuietFor
<1>2. ASSUME NEW e \in Sends(sq', id) \cup Sends(ops', id)
      PROVE  e.pos = SentBytes(id)' /\ e.pos < ResponseLen
  <2>1. PICK d \in Sends(sq, id) \cup Sends(ops, id) : d.pos = e.pos
    BY <1>2 DEF QuietFor
  <2>2. d.pos = SentBytes(id) /\ d.pos < ResponseLen
    BY <2>1 DEF IdOK
  <2> QED
    BY <1>1, <2>1, <2>2
<1>3. \A e \in Sends(sq, id)' \cup Sends(ops, id)' : e.pos = SentBytes(id)' /\ e.pos < ResponseLen
  BY <1>2 DEF Sends, Elems
<1> QED
  BY <1>3 DEF IdOK

\* And of a connection.
LEMMA QuietConn ==
  ASSUME NEW c, c.sendOffset \in Int, QuietFor(c.id), ConnOK(c),
         Tokens("send", c.id)' = Tokens("send", c.id),
         Tokens("recv", c.id)' = Tokens("recv", c.id)
  PROVE  ConnOK(c)'
<1> DEFINE id == c.id
<1>1. SentBytes(id)' = SentBytes(id)
  BY DEF QuietFor
<1>2. /\ Tokens("send", id) = IF c.sendStarted THEN 1 ELSE 0
      /\ ~c.sendStarted => c.sendOffset = 0 /\ SentBytes(id) = 0
      /\ \A e \in Sends(sq, id) \cup Sends(ops, id) : c.sendOffset = SentBytes(id)
      /\ \A x \in Sends(batch, id) \cup Sends(cq, id) : Counted(c, x) = SentBytes(id)
  BY DEF ConnOK, AnswerOK
<1>3. ASSUME NEW e \in Sends(sq', id) \cup Sends(ops', id)
      PROVE  c.sendOffset = SentBytes(id)'
  <2>1. PICK d \in Sends(sq, id) \cup Sends(ops, id) : d.pos = e.pos
    BY <1>3 DEF QuietFor
  <2> QED
    BY <1>1, <1>2, <2>1
<1>4. ASSUME NEW x \in Sends(batch', id) \cup Sends(cq', id)
      PROVE  Counted(c, x) = SentBytes(id)'
  <2>1. CASE x \in Sends(batch, id) \cup Sends(cq, id)
    BY <1>1, <1>2, <2>1
  <2>2. CASE ~(x.result > 0) /\ Sends(sq, id) \cup Sends(ops, id) # {}
    <3>1. c.sendOffset = SentBytes(id)
      BY <1>2, <2>2
    <3>2. Counted(c, x) = c.sendOffset
      BY <2>2 DEF Counted
    <3> QED
      BY <1>1, <3>1, <3>2
  <2> QED
    BY <1>4, <2>1, <2>2 DEF QuietFor
<1>5. \A e \in Sends(sq, id)' \cup Sends(ops, id)' : c.sendOffset = SentBytes(id)'
  BY <1>3 DEF Sends, Elems
<1>6. \A x \in Sends(batch, id)' \cup Sends(cq, id)' : Counted(c, x) = SentBytes(id)'
  BY <1>4 DEF Sends, Elems
<1> QED
  BY <1>1, <1>2, <1>5, <1>6 DEF ConnOK, AnswerOK, Counted

\* A step that is quiet for everyone and keeps the tokens.
LEMMA QuietLines ==
  ASSUME TableTypes, TableInv, Lines,
         \A id \in Ids : QuietFor(id) /\ \A op : Tokens(op, id)' = Tokens(op, id),
         \A fd \in LiveFds' : fd \in LiveFds /\ connections'[fd] = connections[fd]
  PROVE  Lines'
<1>1. ASSUME NEW id \in Ids PROVE IdOK(id)'
  <2>1. IdOK(id) /\ QuietFor(id) /\ Tokens("send", id)' = Tokens("send", id)
    BY DEF Lines
  <2>2. Tokens("send", id) <= 1
    BY <2>1 DEF IdOK
  <2> QED
    BY <2>1, <2>2, QuietId
<1>2. ASSUME NEW fd \in LiveFds' PROVE ConnOK(connections[fd])'
  <2>1. PICK c : c = connections[fd]
    OBVIOUS
  <2>2. fd \in LiveFds /\ connections'[fd] = c
    BY <2>1
  <2>3. c \in Connection /\ c.id \in Ids
    BY <2>1, <2>2, LiveFacts
  <2>4. c.sendOffset \in Int
    BY <2>3, HttpAssumption DEF Connection
  <2>5. ConnOK(c)
    BY <2>1, <2>2 DEF Lines
  <2>6. ConnOK(c)'
    BY <2>3, <2>4, <2>5, QuietConn
  <2> QED
    BY <2>2, <2>6
<1> QED
  BY <1>1, <1>2 DEF Lines

-----------------------------------------------------------------------------
(* Steps of the queues.                                                    *)

\* What is known of ids stays known.
LEMMA KnownKept ==
  ASSUME Known, nextId \in Int, nextId' \in Int, nextId' >= nextId,
         \A e \in Elems(sq') : e \in Elems(sq) \/ KnownId(e.op, e.id)',
         \A o \in Elems(ops') : o \in Elems(ops) \/ KnownId(o.op, o.id)',
         \A x \in Elems(batch') \cup Elems(cq') :
           x \in Elems(batch) \cup Elems(cq) \/ CompletionOK(x)',
         \A k \in DOMAIN wire' : wire'[k].id < nextId'
  PROVE  Known'
<1>1. \A op, id : KnownId(op, id) => KnownId(op, id)'
  BY DEF KnownId
<1>2. \A e \in Elems(sq)' : KnownId(e.op, e.id)'
  <2> SUFFICES ASSUME NEW e \in Elems(sq)' PROVE KnownId(e.op, e.id)'
    OBVIOUS
  <2>1. e \in Elems(sq) \/ KnownId(e.op, e.id)'
    BY DEF Elems
  <2>2. e \in Elems(sq) => KnownId(e.op, e.id)
    BY DEF Known
  <2> QED
    BY <1>1, <2>1, <2>2
<1>3. \A o \in Elems(ops)' : KnownId(o.op, o.id)'
  <2> SUFFICES ASSUME NEW o \in Elems(ops)' PROVE KnownId(o.op, o.id)'
    OBVIOUS
  <2>1. o \in Elems(ops) \/ KnownId(o.op, o.id)'
    BY DEF Elems
  <2>2. o \in Elems(ops) => KnownId(o.op, o.id)
    BY DEF Known
  <2> QED
    BY <1>1, <2>1, <2>2
<1>4. \A x \in Elems(batch)' \cup Elems(cq)' : CompletionOK(x)'
  <2> SUFFICES ASSUME NEW x \in Elems(batch)' \cup Elems(cq)' PROVE CompletionOK(x)'
    OBVIOUS
  <2>1. x \in Elems(batch) \cup Elems(cq) \/ CompletionOK(x)'
    BY DEF Elems
  <2>2. x \in Elems(batch) \cup Elems(cq) => CompletionOK(x)
    BY DEF Known
  <2>3. CompletionOK(x) => CompletionOK(x)'
    BY <1>1 DEF CompletionOK
  <2> QED
    BY <2>1, <2>2, <2>3
<1> QED
  BY <1>2, <1>3, <1>4 DEF Known

\* What is known of the members of a queue.
LEMMA KnownOf ==
  ASSUME Known
  PROVE  /\ \A e \in Elems(sq) : KnownId(e.op, e.id)
         /\ \A o \in Elems(ops) : KnownId(o.op, o.id)
         /\ \A x \in Elems(batch) \cup Elems(cq) : CompletionOK(x)
         /\ \A k \in DOMAIN wire : wire[k].id < nextId
BY DEF Known

\* Submitting is quiet.
LEMMA SubmitQuiet ==
  ASSUME TypeOK, Known, Submit, batch' = batch, cq' = cq, wire' = wire, nextId' = nextId
  PROVE  /\ \A id : QuietFor(id) /\ \A op : Tokens(op, id)' = Tokens(op, id)
         /\ Known' /\ ops' \in Seq(Operation) /\ sq' = <<>>
<1>1. /\ ops' \in Seq(Operation) /\ sq' = <<>> /\ Elems(sq') = {}
      /\ \A o \in Elems(ops') : o \in Elems(ops) \/ \E e \in Elems(sq) : o = Bind(e)
      /\ \A op, id : Tokens(op, id)' = Tokens(op, id)
  BY SubmitMoves
<1>2. Elems(sq) \subseteq Entry
  <2>1. sq \in Seq(Entry)
    BY DEF TypeOK
  <2> QED
    BY <2>1, ElemsOf
<1>3. \A e \in Elems(sq) : Bind(e).op = e.op /\ Bind(e).id = e.id /\ Bind(e).pos = e.pos
  BY <1>2, BindFacts
<1>4. ASSUME NEW id PROVE QuietFor(id)
  <2>1. SentBytes(id)' = SentBytes(id)
    BY DEF SentBytes
  <2>2. ASSUME NEW o \in Sends(sq', id) \cup Sends(ops', id)
        PROVE  \E d \in Sends(sq, id) \cup Sends(ops, id) : d.pos = o.pos
    <3>1. o \in Elems(ops') /\ o.op = "send" /\ o.id = id
      BY <1>1, <2>2 DEF Sends
    <3>2. CASE o \in Elems(ops)
      BY <3>1, <3>2 DEF Sends
    <3>3. CASE \E e \in Elems(sq) : o = Bind(e)
      <4>1. PICK e \in Elems(sq) : o = Bind(e)
        BY <3>3
      <4>2. e.op = "send" /\ e.id = id /\ e.pos = o.pos
        BY <1>3, <3>1, <4>1
      <4> QED
        BY <4>2 DEF Sends
    <3> QED
      BY <1>1, <3>1, <3>2, <3>3
  <2>3. \A x \in Sends(batch', id) \cup Sends(cq', id) : x \in Sends(batch, id) \cup Sends(cq, id)
    BY DEF Sends
  <2> QED
    BY <2>1, <2>2, <2>3 DEF QuietFor
<1>5. Known'
  <2>1. \A o \in Elems(ops') : o \in Elems(ops) \/ KnownId(o.op, o.id)'
    <3> SUFFICES ASSUME NEW o \in Elems(ops'), o \notin Elems(ops) PROVE KnownId(o.op, o.id)'
      OBVIOUS
    <3>1. PICK e \in Elems(sq) : o = Bind(e)
      BY <1>1
    <3>2. KnownId(e.op, e.id) /\ o.op = e.op /\ o.id = e.id
      BY <1>3, <3>1, KnownOf
    <3> QED
      BY <3>2 DEF KnownId
  <2>2. nextId \in Int
    BY DEF TypeOK
  <2>3. \A k \in DOMAIN wire' : wire'[k].id < nextId'
    BY KnownOf
  <2>4. \A e \in Elems(sq') : e \in Elems(sq) \/ KnownId(e.op, e.id)'
    BY <1>1
  <2>5. \A x \in Elems(batch') \cup Elems(cq') :
           x \in Elems(batch) \cup Elems(cq) \/ CompletionOK(x)'
    OBVIOUS
  <2>6. nextId' \in Int /\ nextId' >= nextId
    BY <2>2
  <2> QED
    BY <2>1, <2>2, <2>3, <2>4, <2>5, <2>6, KnownKept
<1> QED
  BY <1>1, <1>4, <1>5

\* Reaping is quiet.
LEMMA ReapQuiet ==
  ASSUME TypeOK, Known, batch = <<>>, batch' = cq, cq' = <<>>, ops' = ops, sq' = sq,
         wire' = wire, nextId' = nextId
  PROVE  /\ \A id : QuietFor(id) /\ \A op : Tokens(op, id)' = Tokens(op, id)
         /\ Known' /\ \A S : Pending(S)' = Pending(S)
<1>1. /\ Elems(batch') = Elems(cq) /\ Elems(cq') = {}
      /\ \A op, id : Tokens(op, id)' = Tokens(op, id)
      /\ \A S : Cnt(batch', S) + Cnt(cq', S) = Cnt(batch, S) + Cnt(cq, S)
  BY ReapMoves
<1>2. ASSUME NEW id PROVE QuietFor(id)
  <2>1. SentBytes(id)' = SentBytes(id)
    BY DEF SentBytes
  <2>2. \A e \in Sends(sq', id) \cup Sends(ops', id) :
           \E d \in Sends(sq, id) \cup Sends(ops, id) : d.pos = e.pos
    BY DEF Sends
  <2>3. \A x \in Sends(batch', id) \cup Sends(cq', id) : x \in Sends(batch, id) \cup Sends(cq, id)
    BY <1>1 DEF Sends
  <2> QED
    BY <2>1, <2>2, <2>3 DEF QuietFor
<1>3. Known'
  <2>1. \A x \in Elems(batch') \cup Elems(cq') :
           x \in Elems(batch) \cup Elems(cq) \/ CompletionOK(x)'
    BY <1>1
  <2>2. nextId \in Int
    BY DEF TypeOK
  <2>3. \A k \in DOMAIN wire' : wire'[k].id < nextId'
    BY KnownOf
  <2>4. \A e \in Elems(sq') : e \in Elems(sq) \/ KnownId(e.op, e.id)'
    OBVIOUS
  <2>5. \A o \in Elems(ops') : o \in Elems(ops) \/ KnownId(o.op, o.id)'
    OBVIOUS
  <2>6. nextId' \in Int /\ nextId' >= nextId
    BY <2>2
  <2> QED
    BY <2>1, <2>2, <2>3, <2>4, <2>5, <2>6, KnownKept
<1>4. \A S : Pending(S)' = Pending(S)
  BY <1>1 DEF Pending
<1> QED
  BY <1>1, <1>2, <1>3, <1>4

\* A completion that reports nothing sent.
LEMMA KernelQuiet ==
  ASSUME TypeOK, Known, NEW i \in DOMAIN ops, NEW x \in Completion,
         x.op = ops[i].op, x.id = ops[i].id,
         cq' = Append(cq, x), ops' = IF x.more THEN ops ELSE WithoutOp(i),
         sq' = sq, batch' = batch, wire' = wire, nextId' = nextId,
         x.op = "send" => ~(x.result > 0) /\ ~x.more,
         x.op = "recv" /\ x.result <= 0 => ~x.more,
         x.op = "accept" /\ x.result >= 0 => x.fd \in Fds
  PROVE  /\ \A id : QuietFor(id) /\ \A op : Tokens(op, id)' = Tokens(op, id)
         /\ Known' /\ cq' \in Seq(Completion) /\ ops' \in Seq(Operation)
         /\ \A S : Pending(S)' = Pending(S) + Bit(x \in S)
<1>1. /\ cq' \in Seq(Completion) /\ ops' \in Seq(Operation)
      /\ Elems(cq') = Elems(cq) \cup {x} /\ Elems(ops') \subseteq Elems(ops)
      /\ ops[i] \in Elems(ops) /\ ops[i] \in Operation
      /\ \A S : Cnt(cq', S) = Cnt(cq, S) + Bit(x \in S)
      /\ \A op, id : Tokens(op, id)' = Tokens(op, id)
  BY KernelMoves
<1>2. ASSUME NEW id PROVE QuietFor(id)
  <2>1. SentBytes(id)' = SentBytes(id)
    BY DEF SentBytes
  <2>2. \A e \in Sends(sq', id) \cup Sends(ops', id) :
           \E d \in Sends(sq, id) \cup Sends(ops, id) : d.pos = e.pos
    BY <1>1 DEF Sends
  <2>3. \A y \in Sends(batch', id) \cup Sends(cq', id) :
           \/ y \in Sends(batch, id) \cup Sends(cq, id)
           \/ ~(y.result > 0) /\ Sends(sq, id) \cup Sends(ops, id) # {}
    <3> SUFFICES ASSUME NEW y \in Sends(batch', id) \cup Sends(cq', id),
                        y \notin Sends(batch, id) \cup Sends(cq, id)
                 PROVE  ~(y.result > 0) /\ Sends(sq, id) \cup Sends(ops, id) # {}
      OBVIOUS
    <3>1. y = x /\ x.op = "send" /\ x.id = id
      BY <1>1 DEF Sends
    <3>2. ops[i] \in Sends(ops, id)
      BY <1>1, <3>1 DEF Sends
    <3> QED
      BY <3>1, <3>2
  <2> QED
    BY <2>1, <2>2, <2>3 DEF QuietFor
<1>3. Known'
  <2>1. CompletionOK(x)'
    <3>1. KnownId(ops[i].op, ops[i].id)
      BY <1>1, KnownOf
    <3>2. KnownId(x.op, x.id)'
      BY <3>1 DEF KnownId
    <3> QED
      BY <3>2 DEF CompletionOK
  <2>2. nextId \in Int
    BY DEF TypeOK
  <2>3. \A k \in DOMAIN wire' : wire'[k].id < nextId'
    BY KnownOf
  <2>4. \A e \in Elems(sq') : e \in Elems(sq) \/ KnownId(e.op, e.id)'
    OBVIOUS
  <2>5. \A o \in Elems(ops') : o \in Elems(ops) \/ KnownId(o.op, o.id)'
    BY <1>1
  <2>6. nextId' \in Int /\ nextId' >= nextId
    BY <2>2
  <2>7. \A y \in Elems(batch') \cup Elems(cq') :
           y \in Elems(batch) \cup Elems(cq) \/ CompletionOK(y)'
    <3> SUFFICES ASSUME NEW y \in Elems(batch') \cup Elems(cq'),
                        y \notin Elems(batch) \cup Elems(cq)
                 PROVE  CompletionOK(y)'
      OBVIOUS
    <3>1. y = x
      BY <1>1
    <3> QED
      BY <2>1, <3>1
  <2> QED
    BY <2>2, <2>3, <2>4, <2>5, <2>6, <2>7, KnownKept
<1>4. \A S : Pending(S)' = Pending(S) + Bit(x \in S)
  <2> SUFFICES ASSUME NEW S PROVE Pending(S)' = Pending(S) + Bit(x \in S)
    OBVIOUS
  <2>1. batch \in Seq(Completion) /\ cq \in Seq(Completion)
    BY DEF TypeOK
  <2>2. Cnt(batch, S) \in Nat /\ Cnt(cq, S) \in Nat /\ Bit(x \in S) \in Nat
    BY <2>1, AtFinite DEF Bit
  <2>3. Pending(S)' = Cnt(batch, S) + Cnt(cq', S)
    BY DEF Pending
  <2> QED
    BY <1>1, <2>2, <2>3 DEF Pending
<1> QED
  BY <1>1, <1>2, <1>3, <1>4

-----------------------------------------------------------------------------
(* Steps of a handler.                                                     *)

\* What a handler pushes: one entry, none, or two.
LEMMA OneEntry ==
  ASSUME NEW X, NEW e \in X
  PROVE  /\ <<e>> \in Seq(X) /\ Elems(<<e>>) = {e}
         /\ \A S : Cnt(<<e>>, S) = Bit(e \in S)
<1>1. <<>> \in Seq(X) /\ <<e>> = Append(<<>>, e) /\ <<e>> \in Seq(X)
  OBVIOUS
<1>2. Elems(<<e>>) = {e}
  <2>1. DOMAIN <<e>> = {1} /\ <<e>>[1] = e
    OBVIOUS
  <2> QED
    BY <2>1 DEF Elems
<1>3. ASSUME NEW S PROVE Cnt(<<e>>, S) = Bit(e \in S)
  <2>1. PICK none : none = <<>>
    OBVIOUS
  <2>2. none \in Seq(X) /\ Cnt(none, S) = 0
    BY <1>1, <2>1, CntEmpty
  <2>3. Cnt(Append(none, e), S) = Cnt(none, S) + Bit(e \in S)
    BY <2>2, CntAppend
  <2> QED
    BY <1>1, <2>1, <2>2, <2>3 DEF Bit
<1> QED
  BY <1>1, <1>2, <1>3

\* Queues that are put together.
LEMMA Rebracket == \A s, t, u \in Seq(Entry) : (s \o t) \o u = s \o (t \o u)
BY ConcatAssociative

\* None.
LEMMA NoEntry ==
  ASSUME NEW X
  PROVE  <<>> \in Seq(X) /\ Elems(<<>>) = {} /\ \A S : Cnt(<<>>, S) = 0
<1>1. DOMAIN <<>> = {} /\ <<>> \in Seq(X)
  OBVIOUS
<1> QED
  BY <1>1, CntEmpty DEF Elems

\* Two.
LEMMA TwoEntries ==
  ASSUME NEW X, NEW s \in Seq(X), NEW t \in Seq(X)
  PROVE  /\ s \o t \in Seq(X) /\ Elems(s \o t) = Elems(s) \cup Elems(t)
         /\ \A S : Cnt(s \o t, S) = Cnt(s, S) + Cnt(t, S)
<1>1. s \o t \in Seq(X)
  OBVIOUS
<1> QED
  BY <1>1, ElemsConcat, CntConcat

\* A byte of the response that has left.
Byte == [id : Ids, sock : Socks, pos : 1..ResponseLen]

\* The wire is a sequence of them.
LEMMA WireIs ==
  ASSUME TypeOK
  PROVE  wire \in Seq(Byte) /\ \A k \in DOMAIN wire : wire[k] \in Byte /\ wire[k].id \in Ids
<1>1. wire \in Seq(Byte)
  BY DEF TypeOK, Byte
<1>2. \A k \in DOMAIN wire : wire[k] \in Byte
  BY <1>1
<1>3. \A b \in Byte : b.id \in Ids
  BY DEF Byte
<1> QED
  BY <1>1, <1>2, <1>3

\* A handler takes a completion of "own" and pushes "new", for it or an accept.
HandlerStep(new, own) ==
  /\ batch # <<>> /\ batch' = Tail(batch)
  /\ Cqe.op # "accept" => Cqe.id = own
  /\ sq' = sq \o new /\ new \in Seq(Entry)
  /\ \A e \in Elems(new) : /\ e.op # "accept" => e.id = own
                           /\ KnownId(e.op, e.id)'
  /\ ops' = ops /\ cq' = cq /\ wire' = wire
  /\ nextId' \in Int /\ nextId' >= nextId

\* Such a step is quiet for everyone else.
LEMMA HandlerQuiet ==
  ASSUME TypeOK, Known, NEW new, NEW own, HandlerStep(new, own)
  PROVE  /\ Known' /\ batch' \in Seq(Completion) /\ sq' \in Seq(Entry)
         /\ \A id : id # own \/ (\A e \in Elems(new) : e.op # "send") => QuietFor(id)
         /\ \A op, id : id # own /\ op # "accept" => Tokens(op, id)' = Tokens(op, id)
         /\ \A op : Tokens(op, own)'
               = Tokens(op, own) - Bit(Cqe \in Ended(op, own)) + Cnt(new, Queued(op, own))
         /\ \A S : Pending(S)' = Pending(S) - Bit(Cqe \in S)
<1>1. /\ batch # <<>> /\ batch' = Tail(batch) /\ new \in Seq(Entry)
      /\ sq' = sq \o new /\ ops' = ops /\ cq' = cq /\ wire' = wire
      /\ nextId' \in Int /\ nextId' >= nextId
  BY DEF HandlerStep
<1>2. /\ batch' \in Seq(Completion) /\ sq' \in Seq(Entry)
      /\ Elems(sq') = Elems(sq) \cup Elems(new) /\ Elems(batch') \subseteq Elems(batch)
      /\ Cqe \in Elems(batch) /\ Cqe \in Completion
      /\ \A S : Cnt(batch', S) = Cnt(batch, S) - Bit(Cqe \in S)
      /\ \A op, id : Tokens(op, id)'
                = Tokens(op, id) - Bit(Cqe \in Ended(op, id)) + Cnt(new, Queued(op, id))
  BY <1>1, HandlerMoves
<1>3. \A e \in Elems(new) : (e.op # "accept" => e.id = own) /\ KnownId(e.op, e.id)'
  BY DEF HandlerStep
<1>4. Known'
  <2>1. \A e \in Elems(sq') : e \in Elems(sq) \/ KnownId(e.op, e.id)'
    BY <1>2, <1>3
  <2>2. nextId \in Int
    BY DEF TypeOK
  <2>3. \A k \in DOMAIN wire' : wire'[k].id < nextId'
    <3> SUFFICES ASSUME NEW k \in DOMAIN wire' PROVE wire'[k].id < nextId'
      OBVIOUS
    <3>1. k \in DOMAIN wire /\ wire'[k] = wire[k] /\ wire[k].id < nextId
      BY <1>1, KnownOf
    <3>2. wire[k].id \in Int
      <4>1. wire[k].id \in Ids
        BY <3>1, WireIs
      <4> QED
        BY <4>1 DEF Ids
    <3> QED
      BY <1>1, <2>2, <3>1, <3>2
  <2>4. \A o \in Elems(ops') : o \in Elems(ops) \/ KnownId(o.op, o.id)'
    BY <1>1
  <2>5. \A y \in Elems(batch') \cup Elems(cq') :
           y \in Elems(batch) \cup Elems(cq) \/ CompletionOK(y)'
    BY <1>1, <1>2
  <2> QED
    BY <1>1, <2>1, <2>2, <2>3, <2>4, <2>5, KnownKept
<1>5. ASSUME NEW id, id # own \/ (\A e \in Elems(new) : e.op # "send")
      PROVE  QuietFor(id)
  <2>1. SentBytes(id)' = SentBytes(id)
    BY <1>1 DEF SentBytes
  <2>2. \A e \in Sends(sq', id) \cup Sends(ops', id) :
           \E d \in Sends(sq, id) \cup Sends(ops, id) : d.pos = e.pos
    <3>1. \A e \in Elems(new) : ~(e.op = "send" /\ e.id = id)
      BY <1>3, <1>5
    <3>2. Sends(sq', id) \cup Sends(ops', id) \subseteq Sends(sq, id) \cup Sends(ops, id)
      BY <1>1, <1>2, <3>1 DEF Sends
    <3> QED
      BY <3>2
  <2>3. \A x \in Sends(batch', id) \cup Sends(cq', id) : x \in Sends(batch, id) \cup Sends(cq, id)
    BY <1>1, <1>2 DEF Sends
  <2> QED
    BY <2>1, <2>2, <2>3 DEF QuietFor
<1>6. ASSUME NEW op, NEW id, id # own, op # "accept" PROVE Tokens(op, id)' = Tokens(op, id)
  <2>1. Cqe \notin Ended(op, id)
    BY <1>6 DEF HandlerStep, Ended
  <2>2. Cnt(new, Queued(op, id)) = 0
    <3>1. ~ \E e \in Elems(new) : e \in Queued(op, id)
      BY <1>3, <1>6 DEF Queued
    <3> QED
      BY <1>1, <3>1, CntPositive, AtFinite
  <2>3. Tokens(op, id) \in Nat
    BY TokenTypes
  <2> QED
    BY <1>2, <2>1, <2>2, <2>3 DEF Bit
<1>7. \A S : Pending(S)' = Pending(S) - Bit(Cqe \in S)
  <2> SUFFICES ASSUME NEW S PROVE Pending(S)' = Pending(S) - Bit(Cqe \in S)
    OBVIOUS
  <2>1. batch \in Seq(Completion) /\ cq \in Seq(Completion)
    BY DEF TypeOK
  <2>2. Cnt(batch, S) \in Nat /\ Cnt(cq, S) \in Nat /\ Bit(Cqe \in S) \in Nat
    BY <2>1, AtFinite DEF Bit
  <2>3. Pending(S)' = Cnt(batch', S) + Cnt(cq, S)
    BY <1>1 DEF Pending
  <2> QED
    BY <1>2, <2>2, <2>3 DEF Pending
<1> QED
  BY <1>2, <1>4, <1>5, <1>6, <1>7

\* So it keeps what is known if its own connection is fine.
LEMMA HandlerLines ==
  ASSUME TypeOK, TableInv, Known, Lines, NEW new, NEW own, HandlerStep(new, own),
         own \in Ids => IdOK(own)',
         \A fd \in LiveFds' : \/ fd \in LiveFds /\ connections'[fd] = connections[fd]
                                  /\ connections[fd].id # own
                              \/ ConnOK(connections[fd])'
  PROVE  Lines'
<1>0. TableTypes
  BY TableIs
<1>1. /\ \A id : id # own => QuietFor(id)
      /\ \A id : id # own => Tokens("send", id)' = Tokens("send", id)
                             /\ Tokens("recv", id)' = Tokens("recv", id)
  BY HandlerQuiet
<1>2. ASSUME NEW id \in Ids PROVE IdOK(id)'
  <2>1. CASE id = own
    BY <2>1
  <2>2. CASE id # own
    <3>1. IdOK(id) /\ QuietFor(id) /\ Tokens("send", id)' = Tokens("send", id)
      BY <1>1, <2>2 DEF Lines
    <3>2. Tokens("send", id) <= 1
      BY <3>1 DEF IdOK
    <3> QED
      BY <3>1, <3>2, QuietId
  <2> QED
    BY <2>1, <2>2
<1>3. ASSUME NEW fd \in LiveFds' PROVE ConnOK(connections[fd])'
  <2> SUFFICES ASSUME fd \in LiveFds /\ connections'[fd] = connections[fd]
                        /\ connections[fd].id # own
               PROVE  ConnOK(connections[fd])'
    OBVIOUS
  <2>1. PICK c : c = connections[fd]
    OBVIOUS
  <2>3. c \in Connection /\ c.id \in Ids /\ c.id # own
    BY <1>0, <2>1, LiveFacts
  <2>4. c.sendOffset \in Int
    BY <2>3, HttpAssumption DEF Connection
  <2>5. ConnOK(c)
    BY <2>1 DEF Lines
  <2>6. QuietFor(c.id) /\ Tokens("send", c.id)' = Tokens("send", c.id)
                      /\ Tokens("recv", c.id)' = Tokens("recv", c.id)
    BY <1>1, <2>3
  <2>7. ConnOK(c)'
    BY <2>4, <2>5, <2>6, QuietConn
  <2> QED
    BY <2>1, <2>7
<1> QED
  BY <1>2, <1>3 DEF Lines

-----------------------------------------------------------------------------
(* Bytes that leave.                                                       *)

\* The bytes of one connection.
OfId(id) == {b \in Byte : b.id = id}

\* The n bytes after position p of the response, for connection a on socket s.
Bytes(a, s, p, n) == [k \in 1..n |-> [id |-> a, sock |-> s, pos |-> p + k]]

\* n more bytes of the response leave, after the SentBytes(a) that have left.
LEMMA WireGrows ==
  ASSUME wire \in Seq(Byte), NEW a \in Ids, NEW s \in Socks, NEW p \in 0..ResponseLen,
         NEW n \in 1..(ResponseLen - p), p = SentBytes(a), AnswerInOrder,
         wire' = wire \o Bytes(a, s, p, n)
  PROVE  /\ wire' \in Seq(Byte) /\ AnswerInOrder'
         /\ \A id : SentBytes(id)' = SentBytes(id) + (IF id = a THEN n ELSE 0)
         /\ \A k \in DOMAIN wire' : (k \in DOMAIN wire /\ wire'[k] = wire[k]) \/ wire'[k].id = a
<1>0. n \in Nat /\ n > 0 /\ p \in Nat /\ ResponseLen \in Nat /\ p + n <= ResponseLen
  BY HttpAssumption
<1>1. PICK w : w = [k \in 1..n |-> [id |-> a, sock |-> s, pos |-> p + k]]
  OBVIOUS
<1>2. \A k \in 1..n : p + k \in 1..ResponseLen
  BY <1>0
<1>3. /\ DOMAIN w = 1..n
      /\ \A k \in 1..n : w[k] \in Byte /\ w[k].id = a /\ w[k].pos = p + k
  BY <1>1, <1>2 DEF Byte
<1>4. w \in Seq(Byte) /\ Len(w) = n
  <2>1. w = [k \in 1..n |-> w[k]]
    BY <1>1, <1>3
  <2>2. w \in [1..n -> Byte]
    BY <1>3, <2>1
  <2> QED
    BY <1>0, <1>3, <2>2
<1>5. wire' = wire \o w
  BY <1>1 DEF Bytes
<1>6. PICK v : v = wire
  OBVIOUS
<1>7. PICK u : u = v \o w
  OBVIOUS
<1>8. v \in Seq(Byte) /\ wire' = u
  BY <1>5, <1>6, <1>7
<1>9. /\ u \in Seq(Byte) /\ Len(u) = Len(v) + n
      /\ \A k \in 1..(Len(v) + Len(w)) : u[k] = IF k <= Len(v) THEN v[k] ELSE w[k - Len(v)]
  BY <1>4, <1>7, <1>8, ConcatProperties
<1>10. Len(v) \in Nat /\ DOMAIN v = 1..Len(v) /\ DOMAIN u = 1..(Len(v) + n)
  BY <1>8, <1>9
<1>11. \A k \in 1..Len(v) : u[k] = v[k]
  <2> SUFFICES ASSUME NEW k \in 1..Len(v) PROVE u[k] = v[k]
    OBVIOUS
  <2>1. k \in 1..(Len(v) + Len(w)) /\ k <= Len(v)
    BY <1>0, <1>4, <1>10
  <2>2. u[k] = IF k <= Len(v) THEN v[k] ELSE w[k - Len(v)]
    BY <1>9, <2>1
  <2> QED
    BY <2>1, <2>2
<1>12. \A m \in 1..n : u[Len(v) + m].id = a /\ u[Len(v) + m].pos = p + m
  <2> SUFFICES ASSUME NEW m \in 1..n
               PROVE  u[Len(v) + m].id = a /\ u[Len(v) + m].pos = p + m
    OBVIOUS
  <2>1. PICK k : k = Len(v) + m
    OBVIOUS
  <2>2. k \in 1..(Len(v) + Len(w)) /\ ~(k <= Len(v)) /\ k - Len(v) = m
    BY <1>0, <1>4, <1>10, <2>1
  <2>3. u[k] = IF k <= Len(v) THEN v[k] ELSE w[k - Len(v)]
    BY <1>9, <2>2
  <2>4. u[k] = w[m]
    BY <2>2, <2>3
  <2> QED
    BY <1>3, <2>1, <2>4
<1>13. \A k \in 1..(Len(v) + n) : k \in 1..Len(v) \/ \E m \in 1..n : k = Len(v) + m
  <2> SUFFICES ASSUME NEW k \in 1..(Len(v) + n), k \notin 1..Len(v)
               PROVE  \E m \in 1..n : k = Len(v) + m
    OBVIOUS
  <2>1. k - Len(v) \in 1..n /\ k = Len(v) + (k - Len(v))
    BY <1>0, <1>10
  <2> QED
    BY <2>1
<1>14. ASSUME NEW id
       PROVE  /\ SentBytes(id)' = SentBytes(id) + (IF id = a THEN n ELSE 0)
              /\ SentBytes(id) \in Nat
  <2>1. \A t \in Seq(Byte) : {j \in DOMAIN t : t[j].id = id} = At(t, OfId(id))
    <3> SUFFICES ASSUME NEW t \in Seq(Byte)
                 PROVE  {j \in DOMAIN t : t[j].id = id} = At(t, OfId(id))
      OBVIOUS
    <3>1. \A j \in DOMAIN t : t[j] \in Byte
      OBVIOUS
    <3> QED
      BY <3>1 DEF At, OfId
  <2>2. SentBytes(id) = Cnt(v, OfId(id))
    BY <1>6, <1>8, <2>1 DEF SentBytes, Cnt
  <2>3. SentBytes(id)' = Cnt(u, OfId(id))
    BY <1>8, <1>9, <2>1 DEF SentBytes, Cnt
  <2>4. Cnt(u, OfId(id)) = Cnt(v, OfId(id)) + Cnt(w, OfId(id))
    BY <1>4, <1>7, <1>8, CntConcat
  <2>5. Cnt(w, OfId(id)) = IF id = a THEN n ELSE 0
    <3>1. At(w, OfId(id)) = IF id = a THEN 1..n ELSE {}
      BY <1>3 DEF At, OfId
    <3>2. Cardinality(1..n) = n
      BY <1>0, FS_Interval
    <3> QED
      BY <3>1, <3>2, FS_EmptySet DEF Cnt
  <2>6. Cnt(v, OfId(id)) \in Nat
    BY <1>8, AtFinite
  <2> QED
    BY <2>2, <2>3, <2>4, <2>5, <2>6
<1>15. \A k \in 1..Len(v) : v[k].pos = Cardinality({j \in 1..k : v[j].id = v[k].id})
  BY <1>6, <1>10 DEF AnswerInOrder, SentBefore
<1>16. ASSUME NEW k \in DOMAIN u
       PROVE  u[k].pos = Cardinality({j \in 1..k : u[j].id = u[k].id})
  <2>1. CASE k \in 1..Len(v)
    <3>1. \A j \in 1..k : j \in 1..Len(v) /\ u[j] = v[j]
      <4> SUFFICES ASSUME NEW j \in 1..k PROVE j \in 1..Len(v) /\ u[j] = v[j]
        OBVIOUS
      <4>1. j \in 1..Len(v)
        BY <1>10, <2>1
      <4> QED
        BY <1>11, <4>1
    <3>2. u[k] = v[k]
      BY <1>11, <2>1
    <3>3. {j \in 1..k : u[j].id = u[k].id} = {j \in 1..k : v[j].id = v[k].id}
      BY <3>1, <3>2
    <3> QED
      BY <1>15, <2>1, <3>2, <3>3
  <2>2. CASE k \notin 1..Len(v)
    <3>1. PICK m \in 1..n : k = Len(v) + m
      BY <1>10, <1>13, <2>2
    <3>2. u[k].id = a /\ u[k].pos = p + m
      BY <1>12, <3>1
    <3> DEFINE L == {j \in 1..Len(v) : v[j].id = a}
               R == (Len(v) + 1)..(Len(v) + m)
    <3>3. {j \in 1..k : u[j].id = a} = L \cup R
      <4>1. ASSUME NEW j \in 1..k PROVE u[j].id = a <=> j \in L \cup R
        <5>1. m \in Int /\ m >= 1 /\ m <= n /\ j \in Int /\ 1 <= j /\ j <= Len(v) + m
          BY <1>0, <1>10, <3>1
        <5>2. CASE j <= Len(v)
          <6>1. j \in 1..Len(v) /\ j \notin R
            BY <1>10, <5>1, <5>2
          <6>2. u[j] = v[j]
            BY <1>11, <6>1
          <6> QED
            BY <6>1, <6>2
        <5>3. CASE ~(j <= Len(v))
          <6>1. j \in R /\ j - Len(v) \in 1..n /\ j = Len(v) + (j - Len(v))
            BY <1>0, <1>10, <5>1, <5>3
          <6>2. u[j].id = a
            BY <1>12, <6>1
          <6> QED
            BY <6>1, <6>2
        <5> QED
          BY <5>2, <5>3
      <4>2. L \cup R \subseteq 1..k
        BY <1>0, <1>10, <3>1
      <4> QED
        BY <4>1, <4>2
    <3>4. IsFiniteSet(L) /\ IsFiniteSet(R) /\ L \cap R = {}
      <4>1. IsFiniteSet(1..Len(v)) /\ IsFiniteSet(R)
        BY <1>0, <1>10, <3>1, FS_Interval
      <4>2. L \subseteq 1..Len(v) /\ L \cap R = {}
        BY <1>10
      <4> QED
        BY <4>1, <4>2, FS_Subset
    <3>5. Cardinality(R) = m
      <4>1. Len(v) + 1 \in Int /\ Len(v) + m \in Int /\ Len(v) + 1 <= Len(v) + m
            /\ (Len(v) + m) - (Len(v) + 1) + 1 = m
        BY <1>0, <1>10, <3>1
      <4> QED
        BY <4>1, FS_Interval
    <3>6. Cardinality(L) = p
      BY <1>6, <1>10 DEF SentBytes
    <3>7. Cardinality(L \cup R) = p + m
      <4> HIDE DEF L, R
      <4> QED
        BY <3>4, <3>5, <3>6, DisjointUnion
    <3> QED
      BY <3>2, <3>3, <3>7
  <2> QED
    BY <2>1, <2>2
<1>17. AnswerInOrder'
  <2> SUFFICES ASSUME NEW k \in DOMAIN wire'
               PROVE  wire'[k].pos = Cardinality(SentBefore(k)')
    BY DEF AnswerInOrder
  <2>1. SentBefore(k)' = {j \in 1..k : u[j].id = u[k].id}
    BY <1>8 DEF SentBefore
  <2>2. k \in DOMAIN u /\ wire'[k] = u[k]
    BY <1>8
  <2> QED
    BY <1>16, <2>1, <2>2
<1>18. \A k \in DOMAIN wire' : (k \in DOMAIN wire /\ wire'[k] = wire[k]) \/ wire'[k].id = a
  <2> SUFFICES ASSUME NEW k \in DOMAIN wire', ~(wire'[k].id = a)
               PROVE  k \in DOMAIN wire /\ wire'[k] = wire[k]
    OBVIOUS
  <2>1. k \in 1..(Len(v) + n) /\ wire'[k] = u[k]
    BY <1>8, <1>10
  <2>2. k \in 1..Len(v)
    BY <1>12, <1>13, <2>1
  <2>3. u[k] = v[k] /\ k \in DOMAIN v
    BY <1>10, <1>11, <2>2
  <2> QED
    BY <1>6, <2>1, <2>3
<1> QED
  BY <1>8, <1>9, <1>14, <1>17, <1>18

-----------------------------------------------------------------------------
(* A send goes out.                                                        *)

\* What the lemma below needs of the types.
LEMMA IdTypes ==
  ASSUME TypeOK, Known
  PROVE  /\ \A e \in Elems(sq) : e \in Entry /\ (e.op # "accept" => e.id \in Ids /\ e.id < nextId)
         /\ \A o \in Elems(ops) :
              o \in Operation /\ (o.op # "accept" => o.id \in Ids /\ o.id < nextId)
         /\ \A x \in Elems(batch) \cup Elems(cq) :
              x \in Completion /\ (x.op # "accept" => x.id \in Ids /\ x.id < nextId)
<1>1. Elems(sq) \subseteq Entry /\ Elems(ops) \subseteq Operation
      /\ Elems(batch) \subseteq Completion /\ Elems(cq) \subseteq Completion
  <2>1. sq \in Seq(Entry) /\ ops \in Seq(Operation) /\ batch \in Seq(Completion)
        /\ cq \in Seq(Completion)
    BY DEF TypeOK
  <2> QED
    BY <2>1, ElemsOf
<1>2. \A op, id : op # "accept" /\ KnownId(op, id) => id \in Ids /\ id < nextId
  <2>1. nextId \in 1..(MaxSockets + 1) /\ MaxSockets \in Nat
    BY HttpAssumption DEF TypeOK
  <2> QED
    BY <2>1 DEF KnownId, Ids
<1> QED
  BY <1>1, <1>2, KnownOf DEF CompletionOK

\* A send goes out: its bytes follow those that have left.
LEMMA KernelSendLines ==
  ASSUME TypeOK, TableInv, Known, Lines, AnswerInOrder, NEW i \in DOMAIN ops, KernelSend(i)
  PROVE  /\ cq' \in Seq(Completion) /\ ops' \in Seq(Operation) /\ wire' \in Seq(Byte)
         /\ Known' /\ Lines' /\ AnswerInOrder'
         /\ Pending(AllAccepted)' = Pending(AllAccepted)
         /\ \A fd \in Fds : Pending(Accepted(fd))' = Pending(Accepted(fd))
<1>0. TableTypes
  BY TableIs
<1>a. PICK a : a = ops[i].id
  OBVIOUS
<1>1. /\ ops[i].op = "send" /\ IsOpen(ops[i].sock) /\ ops' = WithoutOp(i)
      /\ UNCHANGED <<batch, connections, idToFd, nextId, fdSock, sq, sockOf>>
  BY DEF KernelSend, tableVars
<1>2. PICK n \in 1..(ResponseLen - ops[i].pos) :
        /\ wire' = wire \o [k \in 1..n |-> [id |-> ops[i].id, sock |-> ops[i].sock,
                                            pos |-> ops[i].pos + k]]
        /\ Posted("send", ops[i].id, NoFd, n, <<>>, FALSE)
  BY DEF KernelSend
<1>3. PICK x : x = [op |-> "send", id |-> ops[i].id, fd |-> NoFd, result |-> n,
                    data |-> <<>>, more |-> FALSE]
  OBVIOUS
<1>4. cq' = Append(cq, x)
  BY <1>2, <1>3 DEF Posted
<1>5. ops[i] \in Elems(ops) /\ ops[i] \in Operation
  <2>1. ops \in Seq(Operation)
    BY DEF TypeOK
  <2> QED
    BY <2>1, ElemsOf
<1>6. a \in Ids /\ a < nextId
  BY <1>a, <1>1, <1>5, IdTypes
<1>7. ops[i].pos \in 0..ResponseLen /\ ResponseLen \in Nat /\ n \in 1..ResponseLen
  BY <1>5, HttpAssumption DEF Operation
<1>8. x \in Completion /\ x.op = "send" /\ x.id = a /\ x.result = n /\ x.more = FALSE
  BY <1>a, <1>3, <1>6, <1>7 DEF Completion, ENoBufs
<1>9. ops[i].sock \in Socks
  BY <1>0, <1>1 DEF IsOpen, OpenFds, TableTypes
<1>10. ops[i].pos = SentBytes(a)
  <2>1. ops[i] \in Sends(ops, a)
    BY <1>a, <1>1, <1>5 DEF Sends
  <2> QED
    BY <1>6, <2>1 DEF Lines, IdOK
<1>11. /\ wire' \in Seq(Byte) /\ AnswerInOrder'
       /\ \A id : SentBytes(id)' = SentBytes(id) + (IF id = a THEN n ELSE 0)
       /\ \A k \in DOMAIN wire' : (k \in DOMAIN wire /\ wire'[k] = wire[k]) \/ wire'[k].id = a
  <2>1. PICK s : s = ops[i].sock
    OBVIOUS
  <2>2. PICK p : p = ops[i].pos
    OBVIOUS
  <2>3. PICK b : b = a
    OBVIOUS
  <2>4. /\ wire' = wire \o Bytes(b, s, p, n)
        /\ n \in 1..(ResponseLen - p) /\ s \in Socks /\ b \in Ids /\ p \in 0..ResponseLen
        /\ p = SentBytes(b)
    BY <1>a, <1>2, <1>6, <1>7, <1>9, <1>10, <2>1, <2>2, <2>3 DEF Bytes
  <2>5. wire \in Seq(Byte)
    BY WireIs
  <2>6. /\ wire' \in Seq(Byte) /\ AnswerInOrder'
        /\ \A id : SentBytes(id)' = SentBytes(id) + (IF id = b THEN n ELSE 0)
        /\ \A k \in DOMAIN wire' : (k \in DOMAIN wire /\ wire'[k] = wire[k]) \/ wire'[k].id = b
    BY <2>4, <2>5, WireGrows
  <2>7. \A id : SentBytes(id)' = SentBytes(id) + (IF id = a THEN n ELSE 0)
    BY <2>3, <2>6
  <2>8. \A k \in DOMAIN wire' : (k \in DOMAIN wire /\ wire'[k] = wire[k]) \/ wire'[k].id = a
    BY <2>3, <2>6
  <2> QED
    BY <2>6, <2>7, <2>8
<1>12. /\ cq' \in Seq(Completion) /\ ops' \in Seq(Operation)
       /\ Elems(cq') = Elems(cq) \cup {x} /\ Elems(ops') \subseteq Elems(ops)
       /\ \A S : Cnt(cq', S) = Cnt(cq, S) + Bit(x \in S)
       /\ \A op, id : Tokens(op, id)' = Tokens(op, id)
  <2>1. x.op = ops[i].op /\ x.id = ops[i].id /\ ops' = IF x.more THEN ops ELSE WithoutOp(i)
    BY <1>a, <1>1, <1>8
  <2>2. sq' = sq /\ batch' = batch
    BY <1>1
  <2> QED
    BY <1>4, <1>8, <2>1, <2>2, KernelMoves
<1>13. Known'
  <2>1. CompletionOK(x)'
    <3>1. KnownId("send", a)
      BY <1>a, <1>1, <1>5, KnownOf
    <3>2. KnownId(x.op, x.id)'
      BY <1>1, <1>8, <3>1 DEF KnownId
    <3> QED
      BY <1>8, <3>2 DEF CompletionOK
  <2>2. nextId \in Int /\ nextId' \in Int /\ nextId' >= nextId
    BY <1>0, <1>1 DEF TableTypes
  <2>3. \A k \in DOMAIN wire' : wire'[k].id < nextId'
    BY <1>1, <1>6, <1>11, KnownOf
  <2>4. \A e \in Elems(sq') : e \in Elems(sq) \/ KnownId(e.op, e.id)'
    BY <1>1
  <2>5. \A o \in Elems(ops') : o \in Elems(ops) \/ KnownId(o.op, o.id)'
    BY <1>12
  <2>6. \A y \in Elems(batch') \cup Elems(cq') :
           y \in Elems(batch) \cup Elems(cq) \/ CompletionOK(y)'
    <3> SUFFICES ASSUME NEW y \in Elems(batch') \cup Elems(cq'),
                        y \notin Elems(batch) \cup Elems(cq)
                 PROVE  CompletionOK(y)'
      OBVIOUS
    <3>1. y = x
      BY <1>1, <1>12
    <3> QED
      BY <2>1, <3>1
  <2> QED
    BY <2>2, <2>3, <2>4, <2>5, <2>6, KnownKept
\* The token of the send was the only one, and is now with its completion.
<1>14. Tokens("send", a) = 1 /\ Cnt(ops, Running("send", a)) = 1
       /\ Cnt(sq, Queued("send", a)) = 0 /\ Cnt(batch, Ended("send", a)) = 0
       /\ Cnt(cq, Ended("send", a)) = 0
  <2>1. /\ Cnt(sq, Queued("send", a)) \in Nat /\ Cnt(ops, Running("send", a)) \in Nat
        /\ Cnt(batch, Ended("send", a)) \in Nat /\ Cnt(cq, Ended("send", a)) \in Nat
    BY TokenTypes
  <2>2. Cnt(ops, Running("send", a)) > 0
    BY <1>a, <1>1, <1>5, TokenShown
  <2>3. Tokens("send", a) <= 1
    BY <1>6 DEF Lines, IdOK
  <2> QED
    BY <2>1, <2>2, <2>3 DEF Tokens
<1>15. /\ \A e \in Elems(sq) : ~(e.op = "send" /\ e.id = a)
       /\ \A y \in Elems(batch) \cup Elems(cq) : ~(y.op = "send" /\ y.id = a)
  <2>1. \A y \in Elems(batch) \cup Elems(cq) : y.op = "send" => ~y.more
    BY KnownOf DEF CompletionOK
  <2>2. /\ \A e \in Elems(sq) : e.op = "send" /\ e.id = a => Cnt(sq, Queued("send", a)) > 0
        /\ \A y \in Elems(batch) : y.op = "send" /\ y.id = a /\ ~y.more
                                      => Cnt(batch, Ended("send", a)) > 0
        /\ \A y \in Elems(cq) : y.op = "send" /\ y.id = a /\ ~y.more
                                      => Cnt(cq, Ended("send", a)) > 0
    BY TokenShown
  <2>3. ~(0 > 0)
    OBVIOUS
  <2> QED
    BY <1>14, <2>1, <2>2, <2>3
<1>16. \A o \in Elems(ops') : ~(o.op = "send" /\ o.id = a)
  <2>1. x \in Ended("send", a)
    BY <1>8 DEF Ended
  <2>2. Cnt(cq', Ended("send", a)) = 1
    BY <1>12, <1>14, <2>1 DEF Bit
  <2>3. Cnt(ops', Running("send", a)) \in Nat
    BY <1>12, AtFinite
  <2>4. Tokens("send", a)' = Cnt(sq, Queued("send", a)) + Cnt(ops', Running("send", a))
                    + Cnt(batch, Ended("send", a)) + Cnt(cq', Ended("send", a))
    BY <1>1 DEF Tokens, Queued, Running, Ended
  <2>5. Cnt(ops', Running("send", a)) = 0
    BY <1>12, <1>14, <2>2, <2>3, <2>4
  <2>6. ~ \E o \in Elems(ops') : o \in Running("send", a)
    BY <1>12, <2>5, CntPositive
  <2>7. Elems(ops') \subseteq Operation
    BY <1>12, ElemsOf
  <2> QED
    BY <2>6, <2>7 DEF Running
<1>17. \A id : id # a => QuietFor(id)
  <2> SUFFICES ASSUME NEW id, id # a PROVE QuietFor(id)
    OBVIOUS
  <2>0. SentBytes(id) \in Int
    <3>1. PICK z : z = SentBytes(id)
      OBVIOUS
    <3>2. At(wire, OfId(id)) = {j \in DOMAIN wire : wire[j].id = id}
      BY WireIs DEF At, OfId
    <3>3. Cnt(wire, OfId(id)) \in Nat
      BY WireIs, AtFinite
    <3> QED
      BY <3>2, <3>3 DEF SentBytes, Cnt
  <2>1. SentBytes(id)' = SentBytes(id)
    BY <1>11, <2>0
  <2>2. \A e \in Sends(sq', id) \cup Sends(ops', id) :
           \E d \in Sends(sq, id) \cup Sends(ops, id) : d.pos = e.pos
    BY <1>1, <1>12 DEF Sends
  <2>3. \A y \in Sends(batch', id) \cup Sends(cq', id) : y \in Sends(batch, id) \cup Sends(cq, id)
    BY <1>1, <1>8, <1>12 DEF Sends
  <2> QED
    BY <2>1, <2>2, <2>3 DEF QuietFor
<1>18. ASSUME NEW id \in Ids PROVE IdOK(id)'
  <2>1. CASE id # a
    <3>1. IdOK(id) /\ QuietFor(id) /\ Tokens("send", id)' = Tokens("send", id)
      BY <1>12, <1>17, <2>1 DEF Lines
    <3>2. Tokens("send", id) <= 1
      BY <3>1 DEF IdOK
    <3> QED
      BY <3>1, <3>2, QuietId
  <2>2. CASE id = a
    <3>1. Sends(sq, id)' \cup Sends(ops, id)' = {}
      BY <1>1, <1>15, <1>16, <2>2 DEF Sends, Elems
    <3>2. Tokens("send", id)' = 1
      BY <1>12, <1>14, <2>2
    <3> QED
      BY <3>1, <3>2 DEF IdOK
  <2> QED
    BY <2>1, <2>2
<1>19. ASSUME NEW fd \in LiveFds' PROVE ConnOK(connections[fd])'
  <2>1. PICK c : c = connections[fd]
    OBVIOUS
  <2>2. fd \in LiveFds /\ connections'[fd] = c
    BY <1>1, <2>1 DEF LiveFds
  <2>3. c \in Connection /\ c.id \in Ids
    BY <1>0, <2>1, <2>2, LiveFacts
  <2>4. c.sendOffset \in Int
    BY <2>3, HttpAssumption DEF Connection
  <2>5. ConnOK(c)
    BY <2>1, <2>2 DEF Lines
  <2>6. /\ Tokens("send", c.id)' = Tokens("send", c.id)
        /\ Tokens("recv", c.id)' = Tokens("recv", c.id)
    BY <1>12
  <2>7. CASE c.id # a
    <3>1. QuietFor(c.id)
      BY <1>17, <2>7
    <3>2. ConnOK(c)'
      BY <2>4, <2>5, <2>6, <3>1, QuietConn
    <3> QED
      BY <2>2, <3>2
  <2>8. CASE c.id = a
    <3>1. c.sendStarted /\ c.sendOffset = SentBytes(a)
      <4>1. ops[i] \in Sends(ops, c.id)
        BY <1>a, <1>1, <1>5, <2>8 DEF Sends
      <4> QED
        BY <1>14, <2>5, <2>8, <4>1 DEF ConnOK, AnswerOK
    <3>2. Sends(sq, c.id)' \cup Sends(ops, c.id)' = {}
      BY <1>1, <1>15, <1>16, <2>8 DEF Sends, Elems
    <3>3. \A y \in Sends(batch, c.id)' \cup Sends(cq, c.id)' : y = x
      BY <1>1, <1>12, <1>15, <2>8 DEF Sends, Elems
    <3>4. Counted(c, x) = SentBytes(c.id)'
      BY <1>7, <1>8, <1>11, <2>8, <3>1 DEF Counted
    <3>5. Tokens("send", c.id)' = 1 /\ Tokens("recv", c.id)' = 1
      BY <1>14, <2>5, <2>6, <2>8 DEF ConnOK
    <3>6. ConnOK(c)'
      BY <3>1, <3>2, <3>3, <3>4, <3>5 DEF ConnOK, AnswerOK, Counted
    <3> QED
      BY <2>2, <3>6
  <2> QED
    BY <2>7, <2>8
<1>20. Lines'
  BY <1>18, <1>19 DEF Lines
<1>21. ASSUME NEW S, x \notin S PROVE Pending(S)' = Pending(S)
  <2>1. cq \in Seq(Completion)
    BY DEF TypeOK
  <2>2. Cnt(cq, S) \in Nat
    BY <2>1, AtFinite
  <2>3. Cnt(cq', S) = Cnt(cq, S)
    BY <1>12, <1>21, <2>2 DEF Bit
  <2> QED
    BY <1>1, <2>3 DEF Pending
<1>22. x \notin AllAccepted /\ \A fd \in Fds : x \notin Accepted(fd)
  BY <1>8 DEF AllAccepted, Accepted
<1>23. Pending(AllAccepted)' = Pending(AllAccepted)
  <2>1. PICK S : S = AllAccepted
    OBVIOUS
  <2>2. Pending(S)' = Pending(S)
    BY <1>21, <1>22, <2>1
  <2> QED
    BY <2>1, <2>2 DEF AllAccepted
<1>24. \A fd \in Fds : Pending(Accepted(fd))' = Pending(Accepted(fd))
  <2> SUFFICES ASSUME NEW fd \in Fds PROVE Pending(Accepted(fd))' = Pending(Accepted(fd))
    OBVIOUS
  <2>1. PICK S : S = Accepted(fd)
    OBVIOUS
  <2>2. Pending(S)' = Pending(S)
    BY <1>21, <1>22, <2>1
  <2> QED
    BY <2>1, <2>2 DEF Accepted
<1> QED
  BY <1>11, <1>12, <1>13, <1>20, <1>23, <1>24

-----------------------------------------------------------------------------
(* The loop.                                                               *)

\* A worker that has not returned, and all that the invariant says of it.
PcTypes == pc \in {"loop", "enter", "wait", "process", "close", "exited"}
Alive ==
  /\ TypeOK /\ TableInv /\ AnswerInOrder
  /\ pc # "process" => batch = <<>>
  /\ Known /\ AcceptsNew /\ Lines

\* The invariant gives that.
LEMMA AliveIs == IInv /\ pc # "exited" => Alive
BY DEF IInv, Alive, QueueInv

\* Accepts that wait are counted in natural numbers.
LEMMA PendingTypes ==
  ASSUME TypeOK, NEW S
  PROVE  Pending(S) \in Nat
<1>1. batch \in Seq(Completion) /\ cq \in Seq(Completion)
  BY DEF TypeOK
<1> QED
  BY <1>1, AtFinite DEF Pending

\* With the accepts and the table nothing is lost.
LEMMA AcceptsKept ==
  ASSUME AcceptsNew, nextId' = nextId, nextSock' = nextSock,
         Pending(AllAccepted)' = Pending(AllAccepted),
         \A fd \in Fds : Pending(Accepted(fd))' = Pending(Accepted(fd)),
         \A fd \in Fds : connections[fd].id = 0 /\ fdSock[fd] # 0
                           => connections'[fd].id = 0 /\ fdSock'[fd] # 0
  PROVE  AcceptsNew'
BY DEF AcceptsNew

\* A step that is not an accept leaves the accepts alone.
LEMMA AcceptsUntouched ==
  ASSUME AcceptsNew, nextId' = nextId, nextSock' = nextSock,
         \A S : Pending(S)' = Pending(S),
         \A fd \in Fds : connections[fd].id = 0 /\ fdSock[fd] # 0
                           => connections'[fd].id = 0 /\ fdSock'[fd] # 0
  PROVE  AcceptsNew'
<1>1. Pending(AllAccepted)' = Pending(AllAccepted)
  <2>1. PICK S : S = AllAccepted
    OBVIOUS
  <2>2. Pending(S)' = Pending(S)
    OBVIOUS
  <2> QED
    BY <2>1, <2>2 DEF AllAccepted
<1>2. \A fd \in Fds : Pending(Accepted(fd))' = Pending(Accepted(fd))
  <2> SUFFICES ASSUME NEW fd \in Fds PROVE Pending(Accepted(fd))' = Pending(Accepted(fd))
    OBVIOUS
  <2>1. PICK S : S = Accepted(fd)
    OBVIOUS
  <2>2. Pending(S)' = Pending(S)
    OBVIOUS
  <2> QED
    BY <2>1, <2>2 DEF Accepted
<1> QED
  BY <1>1, <1>2, AcceptsKept

\* An accept that is handled waits no longer.
LEMMA PendingLess ==
  ASSUME NEW x, \A S : Pending(S)' = Pending(S) - Bit(x \in S), TypeOK,
         ~(x.op = "accept" /\ x.result >= 0)
  PROVE  /\ Pending(AllAccepted)' = Pending(AllAccepted)
         /\ \A fd \in Fds : Pending(Accepted(fd))' = Pending(Accepted(fd))
<1>1. x \notin AllAccepted /\ \A fd \in Fds : x \notin Accepted(fd)
  BY DEF AllAccepted, Accepted
<1>2. ASSUME NEW S, x \notin S PROVE Pending(S)' = Pending(S)
  BY <1>2, PendingTypes DEF Bit
<1>3. Pending(AllAccepted)' = Pending(AllAccepted)
  <2>1. PICK S : S = AllAccepted
    OBVIOUS
  <2>2. Pending(S)' = Pending(S)
    BY <1>1, <1>2, <2>1
  <2> QED
    BY <2>1, <2>2 DEF AllAccepted
<1>4. \A fd \in Fds : Pending(Accepted(fd))' = Pending(Accepted(fd))
  <2> SUFFICES ASSUME NEW fd \in Fds PROVE Pending(Accepted(fd))' = Pending(Accepted(fd))
    OBVIOUS
  <2>1. PICK S : S = Accepted(fd)
    OBVIOUS
  <2>2. Pending(S)' = Pending(S)
    BY <1>1, <1>2, <2>1
  <2> QED
    BY <2>1, <2>2 DEF Accepted
<1> QED
  BY <1>3, <1>4

\* Nothing leaves.
LEMMA WireSame ==
  ASSUME AnswerInOrder, wire' = wire
  PROVE  AnswerInOrder'
BY DEF AnswerInOrder, SentBefore

\* A step of the loop that leaves the queues alone, or moves what is in them.
LEMMA LoopStep ==
  ASSUME Alive, TableTypes', TableInv', PcTypes', pc' # "process" => batch' = <<>>,
         pc' # "exited", Known',
         batch' \in Seq(Completion), cq' \in Seq(Completion), sq' \in Seq(Entry),
         ops' \in Seq(Operation), shutdown' \in BOOLEAN,
         UNCHANGED <<wire, heard, nextSock, nextId>>,
         \A id : QuietFor(id) /\ \A op : Tokens(op, id)' = Tokens(op, id),
         \A S : Pending(S)' = Pending(S),
         \A fd \in LiveFds' : fd \in LiveFds /\ connections'[fd] = connections[fd],
         \A fd \in Fds : connections[fd].id = 0 /\ fdSock[fd] # 0
                           => connections'[fd].id = 0 /\ fdSock'[fd] # 0
  PROVE  IInv'
<1>1. TypeOK /\ TableInv /\ AnswerInOrder /\ AcceptsNew /\ Lines
  BY DEF Alive
<1>2. TypeOK'
  BY <1>1 DEF TypeOK, TableTypes, PcTypes
<1>3. AnswerInOrder'
  BY <1>1, WireSame
<1>4. AcceptsNew'
  BY <1>1, AcceptsUntouched
<1>5. Lines'
  <2>1. TableTypes
    BY <1>1, TableIs
  <2>2. \A id \in Ids : QuietFor(id) /\ \A op : Tokens(op, id)' = Tokens(op, id)
    OBVIOUS
  <2> QED
    BY <1>1, <2>1, <2>2, QuietLines
<1> QED
  BY <1>2, <1>3, <1>4, <1>5 DEF IInv, QueueInv

\* Nothing moves.
LEMMA StillQuiet ==
  ASSUME TypeOK, Known, UNCHANGED <<sq, ops, batch, cq, wire, nextId>>
  PROVE  /\ \A id : QuietFor(id) /\ \A op : Tokens(op, id)' = Tokens(op, id)
         /\ \A S : Pending(S)' = Pending(S)
         /\ Known'
<1>1. ASSUME NEW id PROVE QuietFor(id)
  <2>1. SentBytes(id)' = SentBytes(id)
    BY DEF SentBytes
  <2> QED
    BY <2>1 DEF QuietFor, Sends
<1>2. \A op, id : Tokens(op, id)' = Tokens(op, id)
  BY DEF Tokens, Queued, Running, Ended
<1>3. \A S : Pending(S)' = Pending(S)
  BY DEF Pending
<1>4. Known'
  BY DEF Known, KnownId, CompletionOK, Elems
<1> QED
  BY <1>1, <1>2, <1>3, <1>4

\* close_idle_connections closes connections that have not been answered.
LEMMA CloseIdleStep ==
  ASSUME Alive, CloseIdle
  PROVE  IInv'
<1>1. /\ pc = "loop" /\ pc' = "enter"
      /\ UNCHANGED <<batch, nextId, shutdown, nextSock, sq, ops, cq, heard, sockOf, wire>>
  BY DEF CloseIdle
<1>2. PICK fds \in SUBSET IdleFds : Close(fds)
  BY DEF CloseIdle
<1>3. TypeOK /\ TableInv /\ Known /\ TableTypes /\ batch = <<>>
  BY <1>1, TableIs DEF Alive
<1>4. fds \in SUBSET LiveFds
  BY DEF IdleFds
<1>5. /\ TableTypes' /\ TableInv' /\ LiveFds' = LiveFds \ fds
      /\ \A fd \in LiveFds' : connections'[fd] = connections[fd]
      /\ \A fd \in Fds : connections'[fd] = connections[fd] \/ connections'[fd].id = 0
      /\ \A fd \in Fds \ fds : fdSock'[fd] = fdSock[fd]
  BY <1>1, <1>2, <1>3, <1>4, CloseTable
<1>6. \A fd \in LiveFds' : fd \in LiveFds /\ connections'[fd] = connections[fd]
  BY <1>5
<1>7. \A fd \in Fds : connections[fd].id = 0 /\ fdSock[fd] # 0
                        => connections'[fd].id = 0 /\ fdSock'[fd] # 0
  BY <1>4, <1>5 DEF LiveFds
<1>8. /\ \A id : QuietFor(id) /\ \A op : Tokens(op, id)' = Tokens(op, id)
      /\ \A S : Pending(S)' = Pending(S)
      /\ Known'
  BY <1>1, <1>3, StillQuiet
<1>9. /\ PcTypes' /\ (pc' # "process" => batch' = <<>>) /\ pc' # "exited"
      /\ batch' \in Seq(Completion) /\ cq' \in Seq(Completion) /\ sq' \in Seq(Entry)
      /\ ops' \in Seq(Operation) /\ shutdown' \in BOOLEAN
      /\ UNCHANGED <<wire, heard, nextSock, nextId>>
  BY <1>1, <1>3 DEF PcTypes, TypeOK
<1> QED
  BY <1>5, <1>6, <1>7, <1>8, <1>9, LoopStep

\* The stop flag is set.
LEMMA StopStep ==
  ASSUME Alive, Stop, pc # "exited"
  PROVE  IInv'
<1>1. /\ shutdown' = TRUE
      /\ UNCHANGED <<pc, batch, connections, idToFd, nextId, fdSock, nextSock, sq, ops, cq,
                     heard, sockOf, wire>>
  BY DEF Stop, tableVars, kernelVars
<1>2. TypeOK /\ TableInv /\ Known /\ TableTypes
  BY TableIs DEF Alive
<1>3. TableTypes' /\ TableInv' /\ LiveFds' = LiveFds
  BY <1>1, <1>2, SameTable
<1>4. \A fd \in LiveFds' : fd \in LiveFds /\ connections'[fd] = connections[fd]
  BY <1>1, <1>3
<1>5. \A fd \in Fds : connections[fd].id = 0 /\ fdSock[fd] # 0
                        => connections'[fd].id = 0 /\ fdSock'[fd] # 0
  BY <1>1
<1>6. /\ \A id : QuietFor(id) /\ \A op : Tokens(op, id)' = Tokens(op, id)
      /\ \A S : Pending(S)' = Pending(S)
      /\ Known'
  BY <1>1, <1>2, StillQuiet
<1>7. /\ PcTypes' /\ (pc' # "process" => batch' = <<>>) /\ pc' # "exited"
      /\ batch' \in Seq(Completion) /\ cq' \in Seq(Completion) /\ sq' \in Seq(Entry)
      /\ ops' \in Seq(Operation) /\ shutdown' \in BOOLEAN
      /\ UNCHANGED <<wire, heard, nextSock, nextId>>
  BY <1>1, <1>2 DEF PcTypes, TypeOK, Alive
<1> QED
  BY <1>3, <1>4, <1>5, <1>6, <1>7, LoopStep

\* submit_and_wait.
LEMMA SubmitStep ==
  ASSUME Alive, EnterWait \/ EndLoop
  PROVE  IInv'
<1>1. /\ Submit /\ batch = <<>> /\ pc' \in {"wait", "close", "loop"}
      /\ UNCHANGED <<batch, connections, idToFd, nextId, shutdown, fdSock, nextSock, cq,
                     heard, sockOf, wire>>
  BY DEF EnterWait, EndLoop, tableVars, Alive
<1>2. TypeOK /\ TableInv /\ Known /\ TableTypes
  BY TableIs DEF Alive
<1>3. TableTypes' /\ TableInv' /\ LiveFds' = LiveFds
  BY <1>1, <1>2, SameTable
<1>4. \A fd \in LiveFds' : fd \in LiveFds /\ connections'[fd] = connections[fd]
  BY <1>1, <1>3
<1>5. \A fd \in Fds : connections[fd].id = 0 /\ fdSock[fd] # 0
                        => connections'[fd].id = 0 /\ fdSock'[fd] # 0
  BY <1>1
<1>6. /\ \A id : QuietFor(id) /\ \A op : Tokens(op, id)' = Tokens(op, id)
      /\ Known' /\ ops' \in Seq(Operation) /\ sq' = <<>>
  BY <1>1, <1>2, SubmitQuiet
<1>7. \A S : Pending(S)' = Pending(S)
  BY <1>1 DEF Pending
<1>8. <<>> \in Seq(Entry)
  OBVIOUS
<1>9. /\ PcTypes' /\ (pc' # "process" => batch' = <<>>) /\ pc' # "exited"
      /\ batch' \in Seq(Completion) /\ cq' \in Seq(Completion) /\ sq' \in Seq(Entry)
      /\ ops' \in Seq(Operation) /\ shutdown' \in BOOLEAN
      /\ UNCHANGED <<wire, heard, nextSock, nextId>>
  BY <1>1, <1>2, <1>6, <1>8 DEF PcTypes, TypeOK
<1> QED
  BY <1>3, <1>4, <1>5, <1>6, <1>7, <1>9, LoopStep

\* The completion queue is copied out.
LEMMA ReapStep ==
  ASSUME Alive, Reap
  PROVE  IInv'
<1>1. /\ pc = "wait" /\ pc' = "process" /\ batch' = cq /\ cq' = <<>>
      /\ UNCHANGED <<connections, idToFd, nextId, shutdown, fdSock, nextSock, sq, ops,
                     heard, sockOf, wire>>
  BY DEF Reap, tableVars
<1>2. TypeOK /\ TableInv /\ Known /\ TableTypes /\ batch = <<>>
  BY <1>1, TableIs DEF Alive
<1>3. TableTypes' /\ TableInv' /\ LiveFds' = LiveFds
  BY <1>1, <1>2, SameTable
<1>4. \A fd \in LiveFds' : fd \in LiveFds /\ connections'[fd] = connections[fd]
  BY <1>1, <1>3
<1>5. \A fd \in Fds : connections[fd].id = 0 /\ fdSock[fd] # 0
                        => connections'[fd].id = 0 /\ fdSock'[fd] # 0
  BY <1>1
<1>6. /\ \A id : QuietFor(id) /\ \A op : Tokens(op, id)' = Tokens(op, id)
      /\ Known' /\ \A S : Pending(S)' = Pending(S)
  BY <1>1, <1>2, ReapQuiet
<1>7. <<>> \in Seq(Completion)
  OBVIOUS
<1>8. /\ PcTypes' /\ (pc' # "process" => batch' = <<>>) /\ pc' # "exited"
      /\ batch' \in Seq(Completion) /\ cq' \in Seq(Completion) /\ sq' \in Seq(Entry)
      /\ ops' \in Seq(Operation) /\ shutdown' \in BOOLEAN
      /\ UNCHANGED <<wire, heard, nextSock, nextId>>
  BY <1>1, <1>2, <1>7 DEF PcTypes, TypeOK
<1> QED
  BY <1>3, <1>4, <1>5, <1>6, <1>8, LoopStep

\* The worker closes what is left and returns.
LEMMA ExitStep ==
  ASSUME Alive, Exit
  PROVE  IInv'
<1>1. /\ pc = "close" /\ pc' = "exited" /\ ops' = <<>> /\ cq' = <<>> /\ Close(LiveFds)
      /\ UNCHANGED <<batch, nextId, shutdown, nextSock, sq, heard, sockOf, wire>>
  BY DEF Exit
<1>2. TypeOK /\ TableInv /\ AnswerInOrder /\ TableTypes /\ batch = <<>>
  BY <1>1, TableIs DEF Alive
<1>3. LiveFds \in SUBSET LiveFds
  OBVIOUS
<1>4. TableTypes' /\ TableInv'
  BY <1>1, <1>2, <1>3, CloseTable
<1>5. AnswerInOrder'
  BY <1>1, <1>2, WireSame
<1>6. <<>> \in Seq(Operation) /\ <<>> \in Seq(Completion)
  OBVIOUS
<1>7. TypeOK'
  BY <1>1, <1>2, <1>4, <1>6 DEF TypeOK, TableTypes
<1> QED
  BY <1>1, <1>2, <1>4, <1>5, <1>7 DEF IInv

\* submit_and_wait failed.
LEMMA WorkerFailsStep ==
  ASSUME Alive, WorkerFails
  PROVE  IInv'
<1>1. /\ pc = "wait" /\ pc' = "exited" /\ ops' = <<>> /\ cq' = <<>>
      /\ UNCHANGED <<batch, connections, idToFd, nextId, shutdown, fdSock, nextSock, sq,
                     heard, sockOf, wire>>
  BY DEF WorkerFails, tableVars
<1>2. TypeOK /\ TableInv /\ AnswerInOrder /\ TableTypes /\ batch = <<>>
  BY <1>1, TableIs DEF Alive
<1>3. TableTypes' /\ TableInv'
  BY <1>1, <1>2, SameTable
<1>4. AnswerInOrder'
  BY <1>1, <1>2, WireSame
<1>5. <<>> \in Seq(Operation) /\ <<>> \in Seq(Completion)
  OBVIOUS
<1>6. TypeOK'
  BY <1>1, <1>2, <1>3, <1>5 DEF TypeOK, TableTypes
<1> QED
  BY <1>1, <1>2, <1>3, <1>4, <1>6 DEF IInv

-----------------------------------------------------------------------------
(* The kernel.                                                             *)

\* A receive with data.
Heard == [id : Ids, data : Chunks]

\* The kernel posts what is neither a connection nor bytes sent.
LEMMA KernelOther ==
  ASSUME Alive, pc = "wait", NEW i \in DOMAIN ops, NEW x \in Completion,
         x.op = ops[i].op, x.id = ops[i].id,
         cq' = Append(cq, x), ops' = IF x.more THEN ops ELSE WithoutOp(i),
         x.op = "send" => ~(x.result > 0) /\ ~x.more,
         x.op = "recv" /\ x.result <= 0 => ~x.more,
         ~(x.op = "accept" /\ x.result >= 0), heard' \in Seq(Heard),
         UNCHANGED <<pc, batch, connections, idToFd, nextId, shutdown, fdSock, nextSock, sq,
                     sockOf, wire>>
  PROVE  IInv'
<1>1. TypeOK /\ TableInv /\ Known /\ TableTypes /\ batch = <<>> /\ AnswerInOrder /\ Lines
      /\ AcceptsNew
  BY TableIs DEF Alive
<1>2. TableTypes' /\ TableInv' /\ LiveFds' = LiveFds
  BY <1>1, SameTable
<1>3. /\ \A id : QuietFor(id) /\ \A op : Tokens(op, id)' = Tokens(op, id)
      /\ Known' /\ cq' \in Seq(Completion) /\ ops' \in Seq(Operation)
      /\ \A S : Pending(S)' = Pending(S) + Bit(x \in S)
  <2>1. sq' = sq /\ batch' = batch /\ wire' = wire /\ nextId' = nextId
    OBVIOUS
  <2>2. x.op = "accept" /\ x.result >= 0 => x.fd \in Fds
    OBVIOUS
  <2> QED
    BY <1>1, <2>1, <2>2, KernelQuiet
<1>4. TypeOK'
  BY <1>1, <1>2, <1>3 DEF TypeOK, TableTypes, Heard
<1>5. AnswerInOrder'
  BY <1>1, WireSame
<1>6. AcceptsNew'
  <2>1. x \notin AllAccepted /\ \A fd \in Fds : x \notin Accepted(fd)
    BY DEF AllAccepted, Accepted
  <2>2. ASSUME NEW S, x \notin S PROVE Pending(S)' = Pending(S)
    BY <1>1, <1>3, <2>2, PendingTypes DEF Bit
  <2>3. Pending(AllAccepted)' = Pending(AllAccepted)
    <3>1. PICK S : S = AllAccepted
      OBVIOUS
    <3>2. Pending(S)' = Pending(S)
      BY <2>1, <2>2, <3>1
    <3> QED
      BY <3>1, <3>2 DEF AllAccepted
  <2>4. \A fd \in Fds : Pending(Accepted(fd))' = Pending(Accepted(fd))
    <3> SUFFICES ASSUME NEW fd \in Fds PROVE Pending(Accepted(fd))' = Pending(Accepted(fd))
      OBVIOUS
    <3>1. PICK S : S = Accepted(fd)
      OBVIOUS
    <3>2. Pending(S)' = Pending(S)
      BY <2>1, <2>2, <3>1
    <3> QED
      BY <3>1, <3>2 DEF Accepted
  <2>5. \A fd \in Fds : connections[fd].id = 0 /\ fdSock[fd] # 0
                          => connections'[fd].id = 0 /\ fdSock'[fd] # 0
    OBVIOUS
  <2> QED
    BY <1>1, <2>3, <2>4, <2>5, AcceptsKept
<1>7. Lines'
  <2>1. \A id \in Ids : QuietFor(id) /\ \A op : Tokens(op, id)' = Tokens(op, id)
    BY <1>3
  <2>2. \A fd \in LiveFds' : fd \in LiveFds /\ connections'[fd] = connections[fd]
    BY <1>2
  <2> QED
    BY <1>1, <2>1, <2>2, QuietLines
<1> QED
  BY <1>1, <1>2, <1>3, <1>4, <1>5, <1>6, <1>7 DEF IInv, QueueInv

\* The operation that the kernel ends.
LEMMA OpFacts ==
  ASSUME Alive, NEW i \in DOMAIN ops
  PROVE  /\ ops[i] \in Operation /\ (ops[i].op # "accept" => ops[i].id \in Ids)
         /\ (ops[i].op = "accept" => ops[i].id = 0)
<1>1. TypeOK /\ Known /\ ops \in Seq(Operation)
  BY DEF Alive, TypeOK
<1>2. ops[i] \in Elems(ops) /\ ops[i] \in Operation
  BY <1>1, ElemsOf
<1>3. KnownId(ops[i].op, ops[i].id)
  BY <1>1, <1>2, KnownOf
<1> QED
  BY <1>1, <1>2, <1>3, IdTypes DEF KnownId

\* What the kernel posts is a completion.
LEMMA PostedIs ==
  ASSUME NEW op \in {"accept", "recv", "send"}, NEW id \in Ids \cup {0},
         NEW fd \in Fds \cup {NoFd}, NEW result \in {-2, -1, 0, 1},
         NEW data \in Chunks \cup {<<>>}, NEW more \in BOOLEAN
  PROVE  LET x == [op |-> op, id |-> id, fd |-> fd, result |-> result,
                   data |-> data, more |-> more]
         IN  x \in Completion
<1>1. result \in ENoBufs..(ResponseLen + 1)
  BY HttpAssumption DEF ENoBufs
<1> QED
  BY <1>1 DEF Completion

\* The kernel fails an accept or a send.
LEMMA KernelErrorStep ==
  ASSUME Alive, NEW i \in DOMAIN ops, KernelAcceptError(i) \/ KernelSendError(i)
  PROVE  IInv'
<1>1. /\ pc = "wait" /\ ops[i].op \in {"accept", "send"} /\ ops' = WithoutOp(i)
      /\ UNCHANGED <<pc, batch, connections, idToFd, nextId, shutdown, fdSock, nextSock, sq,
                     heard, sockOf, wire>>
  BY DEF KernelAcceptError, KernelSendError, tableVars
<1>2. ops[i] \in Operation /\ (ops[i].op = "accept" => ops[i].id = 0)
  BY OpFacts
<1>3. PICK x : x = [op |-> ops[i].op, id |-> ops[i].id, fd |-> NoFd, result |-> -1,
                    data |-> <<>>, more |-> FALSE]
  OBVIOUS
<1>4. cq' = Append(cq, x)
  BY <1>1, <1>2, <1>3 DEF KernelAcceptError, KernelSendError, Posted
<1>5. ops[i].id \in Ids \cup {0} /\ ops[i].op \in {"accept", "recv", "send"}
  BY <1>2 DEF Operation
<1>6. x \in Completion
  BY <1>3, <1>5, PostedIs
<1>7. x.op = ops[i].op /\ x.id = ops[i].id /\ x.result = -1 /\ x.more = FALSE
  BY <1>3
<1>8. /\ ops' = IF x.more THEN ops ELSE WithoutOp(i)
      /\ x.op = "send" => ~(x.result > 0) /\ ~x.more
      /\ x.op = "recv" /\ x.result <= 0 => ~x.more
      /\ ~(x.op = "accept" /\ x.result >= 0)
  BY <1>1, <1>7
<1>9. heard' \in Seq(Heard)
  BY <1>1 DEF Alive, TypeOK, Heard
<1> QED
  BY <1>1, <1>4, <1>6, <1>7, <1>8, <1>9, KernelOther

\* A receive ends.
LEMMA KernelRecvEndStep ==
  ASSUME Alive, NEW i \in DOMAIN ops, KernelRecvEnd(i)
  PROVE  IInv'
<1>1. /\ pc = "wait" /\ ops[i].op = "recv" /\ ops' = WithoutOp(i)
      /\ UNCHANGED <<pc, batch, connections, idToFd, nextId, shutdown, fdSock, nextSock, sq,
                     heard, sockOf, wire>>
  BY DEF KernelRecvEnd, tableVars
<1>2. PICK result \in {0, ENoBufs} : Posted("recv", ops[i].id, NoFd, result, <<>>, FALSE)
  BY DEF KernelRecvEnd
<1>3. PICK x : x = [op |-> "recv", id |-> ops[i].id, fd |-> NoFd, result |-> result,
                    data |-> <<>>, more |-> FALSE]
  OBVIOUS
<1>4. cq' = Append(cq, x)
  BY <1>2, <1>3 DEF Posted
<1>5. ops[i].id \in Ids
  BY <1>1, OpFacts
<1>6. x \in Completion
  <2>1. result \in {-2, -1, 0, 1}
    BY <1>2 DEF ENoBufs
  <2> QED
    BY <1>3, <1>5, <2>1, PostedIs
<1>7. x.op = ops[i].op /\ x.id = ops[i].id /\ x.op = "recv" /\ x.more = FALSE
  BY <1>1, <1>3
<1>8. /\ ops' = IF x.more THEN ops ELSE WithoutOp(i)
      /\ x.op = "send" => ~(x.result > 0) /\ ~x.more
      /\ x.op = "recv" /\ x.result <= 0 => ~x.more
      /\ ~(x.op = "accept" /\ x.result >= 0)
  BY <1>1, <1>7
<1>9. heard' \in Seq(Heard)
  BY <1>1 DEF Alive, TypeOK, Heard
<1> QED
  BY <1>1, <1>4, <1>6, <1>7, <1>8, <1>9, KernelOther

\* A receive has data.
LEMMA KernelRecvDataStep ==
  ASSUME Alive, NEW i \in DOMAIN ops, KernelRecvData(i)
  PROVE  IInv'
<1>1. /\ pc = "wait" /\ ops[i].op = "recv"
      /\ UNCHANGED <<pc, batch, connections, idToFd, nextId, shutdown, fdSock, nextSock, sq,
                     sockOf, wire>>
  BY DEF KernelRecvData, tableVars
<1>2. PICK data \in Chunks, more \in BOOLEAN :
       /\ heard' = Append(heard, [id |-> ops[i].id, data |-> data])
       /\ Posted("recv", ops[i].id, NoFd, 1, data, more)
       /\ ops' = IF more THEN ops ELSE WithoutOp(i)
  BY DEF KernelRecvData
<1>3. PICK x : x = [op |-> "recv", id |-> ops[i].id, fd |-> NoFd, result |-> 1,
                    data |-> data, more |-> more]
  OBVIOUS
<1>4. cq' = Append(cq, x)
  BY <1>2, <1>3 DEF Posted
<1>5. ops[i].id \in Ids
  BY <1>1, OpFacts
<1>6. x \in Completion
  BY <1>3, <1>5, PostedIs
<1>7. x.op = ops[i].op /\ x.id = ops[i].id /\ x.op = "recv" /\ x.more = more /\ x.result = 1
  BY <1>1, <1>3
<1>8. /\ ops' = IF x.more THEN ops ELSE WithoutOp(i)
      /\ x.op = "send" => ~(x.result > 0) /\ ~x.more
      /\ x.op = "recv" /\ x.result <= 0 => ~x.more
      /\ ~(x.op = "accept" /\ x.result >= 0)
  BY <1>2, <1>7
<1>9. heard' \in Seq(Heard)
  <2>1. heard \in Seq(Heard)
    BY DEF Alive, TypeOK, Heard
  <2>2. [id |-> ops[i].id, data |-> data] \in Heard
    BY <1>5 DEF Heard
  <2> QED
    BY <1>2, <2>1, <2>2
<1> QED
  BY <1>1, <1>4, <1>6, <1>7, <1>8, <1>9, KernelOther

\* A send takes a part of the response.
LEMMA KernelSendStep ==
  ASSUME Alive, NEW i \in DOMAIN ops, KernelSend(i)
  PROVE  IInv'
<1>1. /\ pc = "wait"
      /\ UNCHANGED <<pc, batch, connections, idToFd, nextId, shutdown, fdSock, nextSock, sq,
                     heard, sockOf>>
  BY DEF KernelSend, tableVars
<1>2. TypeOK /\ TableInv /\ Known /\ TableTypes /\ batch = <<>> /\ AnswerInOrder /\ Lines
      /\ AcceptsNew
  BY <1>1, TableIs DEF Alive
<1>3. TableTypes' /\ TableInv' /\ LiveFds' = LiveFds
  BY <1>1, <1>2, SameTable
<1>4. /\ cq' \in Seq(Completion) /\ ops' \in Seq(Operation) /\ wire' \in Seq(Byte)
      /\ Known' /\ Lines' /\ AnswerInOrder'
      /\ Pending(AllAccepted)' = Pending(AllAccepted)
      /\ \A fd \in Fds : Pending(Accepted(fd))' = Pending(Accepted(fd))
  BY <1>2, KernelSendLines
<1>5. TypeOK'
  BY <1>1, <1>2, <1>3, <1>4 DEF TypeOK, TableTypes, Byte
<1>6. AcceptsNew'
  <2>1. \A fd \in Fds : connections[fd].id = 0 /\ fdSock[fd] # 0
                          => connections'[fd].id = 0 /\ fdSock'[fd] # 0
    BY <1>1
  <2>2. nextId' = nextId /\ nextSock' = nextSock
    BY <1>1
  <2> QED
    BY <1>2, <1>4, <2>1, <2>2, AcceptsKept
<1> QED
  BY <1>1, <1>2, <1>3, <1>4, <1>5, <1>6 DEF IInv, QueueInv

\* A connection is accepted on a descriptor that was free.
LEMMA KernelAcceptStep ==
  ASSUME Alive, NEW i \in DOMAIN ops, KernelAccept(i), pc # "exited"
  PROVE  IInv'
<1>1. /\ ops[i].op = "accept" /\ nextSock <= MaxSockets /\ nextSock' = nextSock + 1
      /\ UNCHANGED <<pc, batch, connections, idToFd, nextId, shutdown, sq, heard, sockOf, wire>>
  BY DEF KernelAccept, tableVars
<1>2. PICK fd \in Fds \ OpenFds, more \in BOOLEAN :
       /\ fdSock' = [fdSock EXCEPT ![fd] = nextSock]
       /\ Posted("accept", 0, fd, 1, <<>>, more)
       /\ ops' = IF more THEN ops ELSE WithoutOp(i)
  BY DEF KernelAccept
<1>3. TypeOK /\ TableInv /\ Known /\ TableTypes /\ AnswerInOrder /\ Lines /\ AcceptsNew
      /\ (pc # "process" => batch = <<>>)
  BY TableIs DEF Alive
<1>4. fd \in Fds /\ fdSock[fd] = 0 /\ connections[fd].id = 0
  BY <1>2, <1>3, LiveFacts DEF OpenFds, LiveFds
<1>5. nextSock \in Socks /\ nextSock # 0 /\ nextSock' \in 1..(MaxSockets + 1) /\ nextSock \in Nat
  BY <1>1, <1>3, HttpAssumption DEF TypeOK, Socks
<1>6. /\ TableTypes' /\ TableInv' /\ LiveFds' = LiveFds
      /\ fdSock'[fd] = nextSock /\ \A g \in Fds \ {fd} : fdSock'[g] = fdSock[g]
  <2>1. PICK s : s = nextSock
    OBVIOUS
  <2>2. s \in Socks \cup {0} /\ fdSock' = [fdSock EXCEPT ![fd] = s]
        /\ UNCHANGED <<connections, idToFd, nextId, sockOf>>
    BY <1>1, <1>2, <1>5, <2>1
  <2> QED
    BY <1>3, <1>4, <2>1, <2>2, OtherSocketTable
<1>7. PICK x : x = [op |-> "accept", id |-> 0, fd |-> fd, result |-> 1,
                    data |-> <<>>, more |-> more]
  OBVIOUS
<1>8. cq' = Append(cq, x)
  BY <1>2, <1>7 DEF Posted
<1>9. x \in Completion
  BY <1>2, <1>4, <1>7, PostedIs
<1>10. x.op = "accept" /\ x.id = 0 /\ x.fd = fd /\ x.result = 1 /\ x.more = more
  BY <1>7
<1>11. /\ \A id : QuietFor(id) /\ \A op : Tokens(op, id)' = Tokens(op, id)
       /\ Known' /\ cq' \in Seq(Completion) /\ ops' \in Seq(Operation)
       /\ \A S : Pending(S)' = Pending(S) + Bit(x \in S)
  <2>1. sq' = sq /\ batch' = batch /\ wire' = wire /\ nextId' = nextId
    BY <1>1
  <2>2. /\ x.op = "accept" /\ x.result >= 0 => x.fd \in Fds
        /\ x.op = "send" => ~(x.result > 0) /\ ~x.more
        /\ x.op = "recv" /\ x.result <= 0 => ~x.more
        /\ ops' = IF x.more THEN ops ELSE WithoutOp(i)
    BY <1>2, <1>4, <1>10
  <2>3. x.op = ops[i].op /\ x.id = ops[i].id
    BY <1>1, <1>10, OpFacts
  <2> QED
    BY <1>3, <1>8, <1>9, <2>1, <2>2, <2>3, KernelQuiet
<1>12. TypeOK'
  BY <1>1, <1>3, <1>5, <1>6, <1>11 DEF TypeOK, TableTypes
<1>13. AnswerInOrder'
  BY <1>1, <1>3, WireSame
<1>14. Lines'
  <2>1. \A id \in Ids : QuietFor(id) /\ \A op : Tokens(op, id)' = Tokens(op, id)
    BY <1>11
  <2>2. \A g \in LiveFds' : g \in LiveFds /\ connections'[g] = connections[g]
    BY <1>1, <1>6
  <2> QED
    BY <1>3, <2>1, <2>2, QuietLines
<1>15. AcceptsNew'
  <2>1. x \in AllAccepted
    BY <1>9, <1>10 DEF AllAccepted
  <2>2. \A g \in Fds : x \in Accepted(g) <=> g = fd
    BY <1>9, <1>10 DEF Accepted
  <2>3. nextId' + Pending(AllAccepted)' <= nextSock'
    <3>1. PICK S : S = AllAccepted
      OBVIOUS
    <3>2. Pending(S)' = Pending(S) + 1 /\ Pending(S) \in Nat
      BY <1>3, <1>11, <2>1, <3>1, PendingTypes DEF Bit
    <3>3. nextId + Pending(S) <= nextSock /\ nextId \in Int
      BY <1>3, <3>1 DEF AcceptsNew, TableTypes
    <3>4. nextId' + Pending(S)' <= nextSock'
      BY <1>1, <1>5, <3>2, <3>3
    <3> QED
      BY <3>1, <3>4 DEF AllAccepted
  <2>4. ASSUME NEW g \in Fds
        PROVE  /\ Pending(Accepted(g))' <= 1
               /\ Pending(Accepted(g))' = 1 => fdSock'[g] # 0 /\ connections'[g].id = 0
    <3>1. PICK S : S = Accepted(g)
      OBVIOUS
    <3>2. /\ Pending(S) \in Nat /\ Pending(S) <= 1
          /\ Pending(S) = 1 => fdSock[g] # 0 /\ connections[g].id = 0
      BY <1>3, <3>1, PendingTypes DEF AcceptsNew
    <3>3. Pending(S)' <= 1 /\ (Pending(S)' = 1 => fdSock'[g] # 0 /\ connections'[g].id = 0)
      <4>1. CASE g = fd
        <5>1. Pending(S) = 0
          BY <1>4, <3>2, <4>1
        <5>2. Pending(S)' = 1
          BY <1>11, <2>2, <3>1, <4>1, <5>1 DEF Bit
        <5> QED
          BY <1>1, <1>4, <1>5, <1>6, <4>1, <5>2
      <4>2. CASE g # fd
        <5>1. Pending(S)' = Pending(S)
          BY <1>11, <2>2, <3>1, <3>2, <4>2 DEF Bit
        <5> QED
          BY <1>1, <1>6, <3>2, <4>2, <5>1
      <4> QED
        BY <4>1, <4>2
    <3> QED
      BY <3>1, <3>3 DEF Accepted
  <2> QED
    BY <2>3, <2>4 DEF AcceptsNew
<1> QED
  BY <1>1, <1>3, <1>6, <1>11, <1>12, <1>13, <1>14, <1>15 DEF IInv, QueueInv

-----------------------------------------------------------------------------
(* Completions of connections.                                             *)

\* The last completion of a batch ends its handling.
LEMMA HandlerEnd ==
  ASSUME Alive, pc = "process", NEW new, NEW own, HandlerStep(new, own),
         TableTypes', TableInv', AcceptsNew',
         UNCHANGED <<pc, shutdown, nextSock, heard>>,
         own \in Ids => IdOK(own)',
         \A fd \in LiveFds' : \/ fd \in LiveFds /\ connections'[fd] = connections[fd]
                                  /\ connections[fd].id # own
                              \/ ConnOK(connections[fd])'
  PROVE  IInv'
<1>1. TypeOK /\ TableInv /\ Known /\ Lines /\ AnswerInOrder
  BY DEF Alive
<1>2. Known' /\ batch' \in Seq(Completion) /\ sq' \in Seq(Entry)
  BY <1>1, HandlerQuiet
<1>3. Lines'
  BY <1>1, HandlerLines
<1>4. ops' = ops /\ cq' = cq /\ wire' = wire
  BY DEF HandlerStep
<1>5. TypeOK'
  BY <1>1, <1>2, <1>4 DEF TypeOK, TableTypes
<1>6. AnswerInOrder'
  BY <1>1, <1>4, WireSame
<1> QED
  BY <1>2, <1>3, <1>5, <1>6 DEF IInv, QueueInv

\* Handling what is not an accept leaves the accepts alone.
LEMMA OtherAccepts ==
  ASSUME Alive, NEW new, NEW own, HandlerStep(new, own),
         ~(Cqe.op = "accept" /\ Cqe.result >= 0),
         nextId' = nextId, nextSock' = nextSock,
         \A fd \in Fds : connections[fd].id = 0 /\ fdSock[fd] # 0
                           => connections'[fd].id = 0 /\ fdSock'[fd] # 0
  PROVE  AcceptsNew'
<1>1. TypeOK /\ Known /\ AcceptsNew
  BY DEF Alive
<1>2. PICK x : x = Cqe
  OBVIOUS
<1>3. \A S : Pending(S)' = Pending(S) - Bit(Cqe \in S)
  BY <1>1, HandlerQuiet
<1>4. (\A S : Pending(S)' = Pending(S) - Bit(x \in S)) /\ ~(x.op = "accept" /\ x.result >= 0)
  BY <1>2, <1>3
<1>5. /\ Pending(AllAccepted)' = Pending(AllAccepted)
      /\ \A fd \in Fds : Pending(Accepted(fd))' = Pending(Accepted(fd))
  BY <1>1, <1>4, PendingLess
<1> QED
  BY <1>1, <1>5, AcceptsKept

\* A completion of a live connection.
LEMMA ConnFacts ==
  ASSUME Alive, batch # <<>>, Cqe.op # "accept", Fd # NoFd
  PROVE  /\ Cqe \in Completion /\ CompletionOK(Cqe) /\ Cqe.id \in Ids
         /\ Fd \in LiveFds /\ Fd \in Fds /\ connections[Fd] \in Connection
         /\ connections[Fd].id = Cqe.id /\ ConnOK(connections[Fd])
         /\ \A fd \in LiveFds : connections[fd].id = Cqe.id => fd = Fd
         /\ Cqe \in Elems(batch) /\ Cqe.id < nextId
<1>1. TypeOK /\ TableInv /\ Known /\ Lines /\ TableTypes /\ batch \in Seq(Completion)
  BY TableIs DEF Alive, TypeOK
<1>2. Cqe \in Elems(batch)
  BY <1>1, ElemsOf DEF Cqe
<1>3. Cqe \in Completion /\ CompletionOK(Cqe) /\ Cqe.id \in Ids /\ Cqe.id < nextId
  BY <1>1, <1>2, IdTypes, KnownOf
<1>4. Fd \in LiveFds /\ connections[Fd].id = Cqe.id
  <2>1. idToFd[Cqe.id] # NoFd
    BY DEF Fd
  <2> QED
    BY <1>1, <1>3, <2>1, KnownFd DEF Fd
<1>5. connections[Fd] \in Connection /\ Fd \in Fds
  BY <1>1, <1>4, LiveFacts
<1>6. ConnOK(connections[Fd])
  BY <1>1, <1>4 DEF Lines
<1>7. \A fd \in LiveFds : connections[fd].id = Cqe.id => fd = Fd
  BY <1>1, LiveFacts DEF Fd
<1> QED
  BY <1>2, <1>3, <1>4, <1>5, <1>6, <1>7

\* A handler that pushes nothing.
LEMMA NothingNew ==
  ASSUME TypeOK, batch # <<>>, batch' = Tail(batch), sq' = sq, nextId' = nextId,
         NEW own, Cqe.op # "accept" => Cqe.id = own,
         UNCHANGED <<ops, cq, wire>>
  PROVE  /\ HandlerStep(<<>>, own) /\ \A e \in Elems(<<>>) : e.op # "send"
         /\ \A S : Cnt(<<>>, S) = 0
<1>1. <<>> \in Seq(Entry) /\ Elems(<<>>) = {} /\ \A S : Cnt(<<>>, S) = 0
  BY NoEntry
<1>2. sq \o <<>> = sq
  BY DEF TypeOK
<1>3. nextId \in Int
  BY DEF TypeOK
<1> QED
  BY <1>1, <1>2, <1>3 DEF HandlerStep

\* Without a new send, at most the token that is handled goes.
LEMMA NoNewSend ==
  ASSUME Alive, NEW new, NEW own \in Ids, HandlerStep(new, own),
         \A e \in Elems(new) : e.op # "send"
  PROVE  /\ IdOK(own)' /\ QuietFor(own)
         /\ Cqe.op # "send" => Tokens("send", own)' = Tokens("send", own)
<1>1. TypeOK /\ Known /\ Lines
  BY DEF Alive
<1>2. /\ QuietFor(own)
      /\ Tokens("send", own)' = Tokens("send", own) - Bit(Cqe \in Ended("send", own))
                                + Cnt(new, Queued("send", own))
  BY <1>1, HandlerQuiet
<1>3. new \in Seq(Entry)
  BY DEF HandlerStep
<1>4. Cnt(new, Queued("send", own)) = 0
  <2>1. ~ \E e \in Elems(new) : e \in Queued("send", own)
    BY DEF Queued
  <2> QED
    BY <1>3, <2>1, CntPositive, AtFinite
<1>5. Tokens("send", own) \in Nat
  BY <1>1, TokenTypes
<1>6. IdOK(own) /\ Tokens("send", own) <= 1
  BY <1>1 DEF Lines, IdOK
<1>7. Tokens("send", own)' <= 1
  BY <1>2, <1>4, <1>5, <1>6 DEF Bit
<1>8. IdOK(own)'
  BY <1>2, <1>6, <1>7, QuietId
<1>9. Cqe.op # "send" => Tokens("send", own)' = Tokens("send", own)
  BY <1>2, <1>4, <1>5 DEF Bit, Ended
<1> QED
  BY <1>2, <1>8, <1>9

\* A completion for a connection that has gone.
LEMMA HandleUnknownStep ==
  ASSUME Alive, HandleUnknown
  PROVE  IInv'
<1>1. /\ pc = "process" /\ batch # <<>> /\ Cqe.op # "accept" /\ Fd = NoFd
      /\ batch' = Tail(batch)
      /\ UNCHANGED <<pc, connections, idToFd, nextId, shutdown, sq, fdSock, nextSock, ops, cq,
                     heard, wire, sockOf>>
  BY DEF HandleUnknown, tableVars, kernelVars
<1>2. TypeOK /\ TableInv /\ Known /\ TableTypes /\ batch \in Seq(Completion)
  BY TableIs DEF Alive, TypeOK
<1>3. PICK own : own = Cqe.id
  OBVIOUS
<1>4. own \in Ids
  <2>1. Cqe \in Elems(batch)
    BY <1>1, <1>2, ElemsOf DEF Cqe
  <2> QED
    BY <1>1, <1>2, <1>3, <2>1, IdTypes
<1>5. HandlerStep(<<>>, own) /\ \A e \in Elems(<<>>) : e.op # "send"
  BY <1>1, <1>2, <1>3, NothingNew
<1>6. TableTypes' /\ TableInv' /\ LiveFds' = LiveFds
  BY <1>1, <1>2, SameTable
<1>7. IdOK(own)'
  BY <1>4, <1>5, NoNewSend
<1>8. AcceptsNew'
  <2>1. \A fd \in Fds : connections[fd].id = 0 /\ fdSock[fd] # 0
                          => connections'[fd].id = 0 /\ fdSock'[fd] # 0
    BY <1>1
  <2> QED
    BY <1>1, <1>5, <2>1, OtherAccepts
<1>9. \A fd \in LiveFds' : fd \in LiveFds /\ connections'[fd] = connections[fd]
                            /\ connections[fd].id # own
  <2> SUFFICES ASSUME NEW fd \in LiveFds PROVE connections[fd].id # own
    BY <1>1, <1>6
  <2>1. idToFd[connections[fd].id] = fd /\ fd \in Fds
    BY <1>2, LiveFacts
  <2>2. idToFd[own] = NoFd
    BY <1>1, <1>3 DEF Fd
  <2> QED
    BY <2>1, <2>2, HttpAssumption
<1>10. UNCHANGED <<pc, shutdown, nextSock, heard>>
  BY <1>1
<1> QED
  BY <1>1, <1>5, <1>6, <1>7, <1>8, <1>9, <1>10, HandlerEnd

\* A handler that closes its connection.
LEMMA HandlerCloses ==
  ASSUME Alive, pc = "process", batch # <<>>, batch' = Tail(batch), Cqe.op # "accept",
         Fd # NoFd, Close({Fd}), sq' = sq,
         UNCHANGED <<pc, nextId, shutdown, nextSock, ops, cq, heard, sockOf, wire>>
  PROVE  IInv'
<1>1. TypeOK /\ TableInv /\ Known /\ TableTypes
  BY TableIs DEF Alive
<1>2. PICK own : own = Cqe.id
  OBVIOUS
<1>3. own \in Ids /\ Fd \in LiveFds /\ \A fd \in LiveFds : connections[fd].id = own => fd = Fd
  BY <1>2, ConnFacts
<1>4. HandlerStep(<<>>, own) /\ \A e \in Elems(<<>>) : e.op # "send"
  BY <1>1, <1>2, NothingNew
<1>5. /\ TableTypes' /\ TableInv' /\ LiveFds' = LiveFds \ {Fd}
      /\ \A fd \in LiveFds' : connections'[fd] = connections[fd]
      /\ \A fd \in Fds : connections'[fd] = connections[fd] \/ connections'[fd].id = 0
      /\ \A fd \in Fds \ {Fd} : fdSock'[fd] = fdSock[fd]
  <2>1. PICK fds : fds = {Fd}
    OBVIOUS
  <2>2. fds \in SUBSET LiveFds /\ Close(fds) /\ nextId' = nextId /\ sockOf' = sockOf
    BY <1>3, <2>1
  <2>3. /\ TableTypes' /\ TableInv' /\ LiveFds' = LiveFds \ fds
        /\ \A fd \in LiveFds' : connections'[fd] = connections[fd]
        /\ \A fd \in Fds : connections'[fd] = connections[fd] \/ connections'[fd].id = 0
        /\ \A fd \in Fds \ fds : fdSock'[fd] = fdSock[fd]
    BY <1>1, <2>2, CloseTable
  <2> QED
    BY <2>1, <2>3
<1>6. IdOK(own)'
  BY <1>3, <1>4, NoNewSend
<1>7. AcceptsNew'
  <2>1. \A fd \in Fds : connections[fd].id = 0 /\ fdSock[fd] # 0
                          => connections'[fd].id = 0 /\ fdSock'[fd] # 0
    BY <1>3, <1>5 DEF LiveFds
  <2> QED
    BY <1>4, <2>1, OtherAccepts
<1>8. \A fd \in LiveFds' : fd \in LiveFds /\ connections'[fd] = connections[fd]
                            /\ connections[fd].id # own
  BY <1>3, <1>5
<1> QED
  BY <1>4, <1>5, <1>6, <1>7, <1>8, HandlerEnd

-----------------------------------------------------------------------------
(* handle_recv.                                                            *)

\* The receive that is armed again has the token of the one that ended.
LEMMA RecvAgainFacts ==
  ASSUME Alive, batch # <<>>, Cqe.op = "recv", Fd # NoFd,
         NEW new, new = RecvAgain(Fd, Cqe.id)
  PROVE  /\ new \in Seq(Entry)
         /\ \A e \in Elems(new) : e.op = "recv" /\ e.id = Cqe.id
         /\ Cnt(new, Queued("recv", Cqe.id)) = Bit(Cqe \in Ended("recv", Cqe.id))
         /\ Cnt(new, Queued("send", Cqe.id)) = 0
<1>1. Cqe \in Completion /\ Cqe.id \in Ids /\ Fd \in Fds
  BY ConnFacts
<1>2. PICK e : e = RecvEntry(Fd, Cqe.id)
  OBVIOUS
<1>3. e \in Entry /\ e.op = "recv" /\ e.id = Cqe.id
  BY <1>1, <1>2, HttpAssumption DEF RecvEntry, Entry
<1>4. CASE Cqe.more
  <2>1. new = <<>> /\ Cqe \notin Ended("recv", Cqe.id)
    BY <1>4 DEF RecvAgain, Ended
  <2>2. <<>> \in Seq(Entry) /\ Elems(<<>>) = {} /\ \A S : Cnt(<<>>, S) = 0
    BY NoEntry
  <2> QED
    BY <2>1, <2>2 DEF Bit
<1>5. CASE ~Cqe.more
  <2>1. new = <<e>> /\ Cqe \in Ended("recv", Cqe.id)
    BY <1>1, <1>2, <1>5 DEF RecvAgain, Ended
  <2>2. <<e>> \in Seq(Entry) /\ Elems(<<e>>) = {e} /\ \A S : Cnt(<<e>>, S) = Bit(e \in S)
    BY <1>3, OneEntry
  <2>3. e \in Queued("recv", Cqe.id) /\ e \notin Queued("send", Cqe.id)
    BY <1>3 DEF Queued
  <2> QED
    BY <1>3, <2>1, <2>2, <2>3 DEF Bit
<1> QED
  BY <1>4, <1>5

\* Data that is not answered, or a receive that found no buffer.
LEMMA HandlerReads ==
  ASSUME Alive, pc = "process", batch # <<>>, batch' = Tail(batch), Cqe.op = "recv",
         Fd # NoFd, sq' = sq \o RecvAgain(Fd, Cqe.id),
         UNCHANGED <<pc, connections, idToFd, nextId, shutdown, fdSock, nextSock, ops, cq,
                     heard, sockOf, wire>>
  PROVE  IInv'
<1>1. TypeOK /\ TableInv /\ Known /\ TableTypes /\ Lines
  BY TableIs DEF Alive
<1>2. PICK own : own = Cqe.id
  OBVIOUS
<1>3. PICK c : c = connections[Fd]
  OBVIOUS
<1>4. /\ own \in Ids /\ own < nextId /\ Fd \in LiveFds
      /\ c \in Connection /\ c.id = own /\ ConnOK(c)
      /\ \A fd \in LiveFds : connections[fd].id = own => fd = Fd
  BY <1>2, <1>3, ConnFacts
<1>5. PICK new : new = RecvAgain(Fd, Cqe.id)
  OBVIOUS
<1>6. /\ new \in Seq(Entry) /\ \A e \in Elems(new) : e.op = "recv" /\ e.id = own
      /\ Cnt(new, Queued("recv", own)) = Bit(Cqe \in Ended("recv", own))
      /\ Cnt(new, Queued("send", own)) = 0
  BY <1>2, <1>5, RecvAgainFacts
<1>7. nextId \in Int /\ KnownId("recv", own)'
  BY <1>1, <1>4 DEF KnownId, TableTypes, Ids
<1>8. HandlerStep(new, own)
  BY <1>2, <1>5, <1>6, <1>7 DEF HandlerStep
<1>9. /\ QuietFor(own)
      /\ \A op : Tokens(op, own)'
            = Tokens(op, own) - Bit(Cqe \in Ended(op, own)) + Cnt(new, Queued(op, own))
  BY <1>1, <1>6, <1>8, HandlerQuiet
<1>10. Tokens("recv", own)' = Tokens("recv", own)
  <2>1. Tokens("recv", own) \in Nat /\ Bit(Cqe \in Ended("recv", own)) \in Nat
    BY <1>1, TokenTypes DEF Bit
  <2> QED
    BY <1>6, <1>9, <2>1
<1>11. Tokens("send", own)' = Tokens("send", own) /\ IdOK(own)'
  BY <1>4, <1>6, <1>8, NoNewSend
<1>12. ConnOK(c)'
  <2>1. c.sendOffset \in Int
    BY <1>4, HttpAssumption DEF Connection
  <2> QED
    BY <1>4, <1>9, <1>10, <1>11, <2>1, QuietConn
<1>13. TableTypes' /\ TableInv' /\ LiveFds' = LiveFds
  BY <1>1, SameTable
<1>14. AcceptsNew'
  <2>1. \A fd \in Fds : connections[fd].id = 0 /\ fdSock[fd] # 0
                          => connections'[fd].id = 0 /\ fdSock'[fd] # 0
    OBVIOUS
  <2> QED
    BY <1>8, <2>1, OtherAccepts
<1>15. \A fd \in LiveFds' : \/ fd \in LiveFds /\ connections'[fd] = connections[fd]
                                  /\ connections[fd].id # own
                            \/ ConnOK(connections[fd])'
  <2> SUFFICES ASSUME NEW fd \in LiveFds, connections[fd].id = own PROVE ConnOK(connections[fd])'
    BY <1>13
  <2>1. connections'[fd] = c
    BY <1>3, <1>4
  <2> QED
    BY <1>12, <2>1
<1> QED
  BY <1>8, <1>11, <1>13, <1>14, <1>15, HandlerEnd

\* The first request is answered from the first byte on.
LEMMA HandlerAnswers ==
  ASSUME Alive, pc = "process", batch # <<>>, batch' = Tail(batch), Cqe.op = "recv",
         Fd # NoFd, ~connections[Fd].sendStarted,
         Keep(Fd, [connections[Fd] EXCEPT !.sendStarted = TRUE]),
         sq' = sq \o <<[SendEntry(Fd, connections[Fd]) EXCEPT !.pos = 0]>>
                  \o RecvAgain(Fd, Cqe.id),
         UNCHANGED <<pc, nextId, shutdown, nextSock, ops, cq, heard, sockOf, wire>>
  PROVE  IInv'
<1>1. TypeOK /\ TableInv /\ Known /\ TableTypes /\ Lines /\ sq \in Seq(Entry)
  BY TableIs DEF Alive, TypeOK
<1>2. PICK own : own = Cqe.id
  OBVIOUS
<1>3. PICK c : c = connections[Fd]
  OBVIOUS
<1>4. /\ own \in Ids /\ own < nextId /\ Fd \in LiveFds /\ Fd \in Fds /\ c \in Connection
      /\ c.id = own /\ ConnOK(c)
      /\ \A fd \in LiveFds : connections[fd].id = own => fd = Fd
  BY <1>2, <1>3, ConnFacts
<1>5. PICK again : again = RecvAgain(Fd, Cqe.id)
  OBVIOUS
<1>6. /\ again \in Seq(Entry) /\ \A e \in Elems(again) : e.op = "recv" /\ e.id = own
      /\ Cnt(again, Queued("recv", own)) = Bit(Cqe \in Ended("recv", own))
      /\ Cnt(again, Queued("send", own)) = 0
  BY <1>2, <1>5, RecvAgainFacts
<1>7. PICK e : e = [SendEntry(Fd, c) EXCEPT !.pos = 0]
  OBVIOUS
<1>8. e \in Entry /\ e.op = "send" /\ e.id = own /\ e.pos = 0
  <2>1. e = [op |-> "send", id |-> own, fd |-> Fd, pos |-> 0]
    BY <1>4, <1>7 DEF SendEntry
  <2> QED
    BY <1>4, <2>1, HttpAssumption DEF Entry
<1>9. /\ <<e>> \in Seq(Entry) /\ Elems(<<e>>) = {e} /\ \A S : Cnt(<<e>>, S) = Bit(e \in S)
  BY <1>8, OneEntry
<1>10. PICK first : first = <<e>>
  OBVIOUS
<1>11. PICK new : new = first \o again
  OBVIOUS
<1>12. /\ new \in Seq(Entry) /\ Elems(new) = {e} \cup Elems(again)
       /\ \A S : Cnt(new, S) = Bit(e \in S) + Cnt(again, S)
  <2>1. first \in Seq(Entry) /\ Elems(first) = {e} /\ \A S : Cnt(first, S) = Bit(e \in S)
    BY <1>9, <1>10
  <2>2. /\ new \in Seq(Entry) /\ Elems(new) = Elems(first) \cup Elems(again)
        /\ \A S : Cnt(new, S) = Cnt(first, S) + Cnt(again, S)
    BY <1>6, <1>11, <2>1, TwoEntries
  <2> QED
    BY <2>1, <2>2
<1>13. sq' = sq \o new
  <2>1. sq' = (sq \o first) \o again /\ first \in Seq(Entry)
    BY <1>3, <1>5, <1>7, <1>9, <1>10
  <2>2. (sq \o first) \o again = sq \o (first \o again)
    <3>1. sq \in Seq(Entry) /\ first \in Seq(Entry) /\ again \in Seq(Entry)
      BY <1>1, <1>6, <2>1
    <3> QED
      BY <3>1, Rebracket
  <2> QED
    BY <1>11, <2>1, <2>2
<1>14. nextId \in Int /\ KnownId("recv", own)' /\ KnownId("send", own)'
  BY <1>1, <1>4 DEF KnownId, TableTypes, Ids
<1>15. HandlerStep(new, own)
  <2>1. \A o \in Elems(new) : (o.op # "accept" => o.id = own) /\ KnownId(o.op, o.id)'
    <3> SUFFICES ASSUME NEW o \in Elems(new)
                 PROVE  o.id = own /\ KnownId(o.op, o.id)'
      OBVIOUS
    <3>1. o.id = own /\ o.op \in {"recv", "send"}
      BY <1>6, <1>8, <1>12
    <3> QED
      BY <1>14, <3>1
  <2>2. nextId' \in Int /\ nextId' >= nextId
    BY <1>14
  <2>3. new \in Seq(Entry)
    BY <1>12
  <2> QED
    BY <1>2, <1>13, <2>1, <2>2, <2>3 DEF HandlerStep
<1>16. \A op : Tokens(op, own)'
            = Tokens(op, own) - Bit(Cqe \in Ended(op, own)) + Cnt(new, Queued(op, own))
  BY <1>1, <1>15, HandlerQuiet
<1>17. Tokens("recv", own)' = 1
  <2>1. Tokens("recv", own) = 1 /\ Bit(Cqe \in Ended("recv", own)) \in Nat
    BY <1>4 DEF Bit, ConnOK
  <2>2. Bit(e \in Queued("recv", own)) = 0
    BY <1>8 DEF Bit, Queued
  <2> QED
    BY <1>6, <1>12, <1>16, <2>1, <2>2
<1>18. /\ Tokens("send", own) = 0 /\ c.sendOffset = 0 /\ SentBytes(own) = 0
       /\ \A x \in Sends(batch, own) \cup Sends(cq, own) : Counted(c, x) = SentBytes(own)
       /\ \A o \in Sends(sq, own) \cup Sends(ops, own) : o.pos = SentBytes(own)
  BY <1>1, <1>3, <1>4 DEF ConnOK, AnswerOK, Lines, IdOK
<1>19. Tokens("send", own)' = 1
  <2>1. Bit(e \in Queued("send", own)) = 1 /\ Bit(Cqe \in Ended("send", own)) = 0
    BY <1>8 DEF Bit, Queued, Ended
  <2>2. Cnt(again, Queued("send", own)) = 0 /\ Tokens("send", own) = 0
    BY <1>6, <1>18
  <2>3. Cnt(new, Queued("send", own)) = 1
    BY <1>12, <2>1, <2>2
  <2>4. Tokens("send", own)'
          = Tokens("send", own) - Bit(Cqe \in Ended("send", own)) + Cnt(new, Queued("send", own))
    BY <1>16
  <2> QED
    BY <2>1, <2>2, <2>3, <2>4
<1>20. SentBytes(own)' = 0
  BY <1>18 DEF SentBytes
<1>21. \A o \in Sends(sq, own)' \cup Sends(ops, own)' : o.pos = 0
  <2>0. new \in Seq(Entry)
    BY <1>12
  <2>1. Elems(sq') = Elems(sq) \cup Elems(new)
    <3>1. sq \in Seq(Entry)
      BY <1>1
    <3>2. Elems(sq \o new) = Elems(sq) \cup Elems(new)
      BY <2>0, <3>1, ElemsConcat
    <3> QED
      BY <1>13, <3>2
  <2>2. \A o \in Elems(again) : o.op # "send"
    BY <1>6
  <2>3. Sends(sq, own)' \subseteq Sends(sq, own) \cup {e} /\ Sends(ops, own)' = Sends(ops, own)
    BY <1>12, <2>1, <2>2 DEF Sends, Elems
  <2> QED
    BY <1>8, <1>18, <2>3
<1>22. IdOK(own)'
  <2>1. 0 < ResponseLen /\ 1 <= 1
    BY HttpAssumption
  <2> QED
    BY <1>19, <1>20, <1>21, <2>1 DEF IdOK
<1>23. PICK d : d = [c EXCEPT !.sendStarted = TRUE]
  OBVIOUS
<1>24. d \in Connection /\ d.id = own /\ d.sendStarted /\ d.sendOffset = 0
  BY <1>4, <1>18, <1>23 DEF Connection
<1>25. ConnOK(d)'
  <2>1. \A x \in Sends(batch, own)' \cup Sends(cq, own)' : Counted(d, x) = 0
    <3>1. batch \in Seq(Completion)
      BY <1>1 DEF TypeOK
    <3>2. Elems(batch') \subseteq Elems(batch)
      BY <3>1, ElemsOf
    <3>3. Sends(batch, own)' \subseteq Sends(batch, own) /\ Sends(cq, own)' = Sends(cq, own)
      BY <3>2 DEF Sends, Elems
    <3>4. \A x : Counted(d, x) = Counted(c, x)
      BY <1>18, <1>24 DEF Counted
    <3> QED
      BY <1>18, <3>3, <3>4
  <2> QED
    BY <1>17, <1>19, <1>20, <1>21, <1>24, <2>1 DEF ConnOK, AnswerOK, Counted
<1>26. /\ TableTypes' /\ TableInv' /\ LiveFds' = LiveFds /\ connections'[Fd] = d
       /\ \A g \in Fds : connections'[g].id = connections[g].id
       /\ \A g \in Fds \ {Fd} : connections'[g] = connections[g]
       /\ fdSock' = fdSock
  <2>1. d.id = connections[Fd].id /\ Keep(Fd, d)
    BY <1>3, <1>4, <1>23, <1>24
  <2> QED
    BY <1>1, <1>4, <1>24, <2>1, KeepTable
<1>27. AcceptsNew'
  <2>1. \A fd \in Fds : connections[fd].id = 0 /\ fdSock[fd] # 0
                          => connections'[fd].id = 0 /\ fdSock'[fd] # 0
    BY <1>26
  <2> QED
    BY <1>15, <2>1, OtherAccepts
<1>28. \A fd \in LiveFds' : \/ fd \in LiveFds /\ connections'[fd] = connections[fd]
                                  /\ connections[fd].id # own
                            \/ ConnOK(connections[fd])'
  <2> SUFFICES ASSUME NEW fd \in LiveFds'
               PROVE  \/ fd \in LiveFds /\ connections'[fd] = connections[fd]
                            /\ connections[fd].id # own
                      \/ ConnOK(connections[fd])'
    OBVIOUS
  <2>1. CASE fd = Fd
    <3>1. connections'[fd] = d
      BY <1>26, <2>1
    <3> QED
      BY <1>25, <3>1
  <2>2. CASE fd # Fd
    BY <1>4, <1>26, <2>2 DEF LiveFds
  <2> QED
    BY <2>1, <2>2
<1> QED
  BY <1>15, <1>22, <1>26, <1>27, <1>28, HandlerEnd

\* handle_recv: closes, answers, or reads on.
LEMMA HandleRecvStep ==
  ASSUME Alive, HandleRecv
  PROVE  IInv'
<1>1. /\ pc = "process" /\ batch # <<>> /\ Cqe.op = "recv" /\ Fd # NoFd
      /\ batch' = Tail(batch)
      /\ UNCHANGED <<pc, nextId, shutdown, nextSock, ops, cq, heard, sockOf, wire>>
  BY DEF HandleRecv
<1>2. /\ Cqe \in Completion /\ CompletionOK(Cqe) /\ connections[Fd].id = Cqe.id /\ Fd \in Fds
      /\ Cqe.id \in Ids
  BY <1>1, ConnFacts
<1>3. CASE /\ Cqe.result = ENoBufs
           /\ sq' = Append(sq, RecvEntry(Fd, connections[Fd].id))
           /\ UNCHANGED <<connections, idToFd, fdSock>>
  <2>1. ~Cqe.more
    BY <1>1, <1>2, <1>3 DEF CompletionOK, ENoBufs
  <2>2. RecvAgain(Fd, Cqe.id) = <<RecvEntry(Fd, Cqe.id)>>
    BY <2>1 DEF RecvAgain
  <2>3. sq \in Seq(Entry) /\ RecvEntry(Fd, Cqe.id) \in Entry
    BY <1>2, HttpAssumption DEF Alive, TypeOK, RecvEntry, Entry
  <2>4. sq' = sq \o RecvAgain(Fd, Cqe.id)
    <3>1. PICK e : e = RecvEntry(Fd, Cqe.id)
      OBVIOUS
    <3>2. sq' = Append(sq, e) /\ e \in Entry
      BY <1>2, <1>3, <2>3, <3>1
    <3>3. Append(sq, e) = sq \o <<e>>
      BY <2>3, <3>2
    <3> QED
      BY <2>2, <3>1, <3>2, <3>3
  <2> QED
    BY <1>1, <1>3, <2>4, HandlerReads
<1>4. CASE Close({Fd}) /\ UNCHANGED sq
  BY <1>1, <1>4, HandlerCloses
<1>5. CASE /\ Answers(connections[Fd], Cqe.data)
           /\ Keep(Fd, [connections[Fd] EXCEPT !.sendStarted = TRUE])
           /\ sq' = sq \o <<[SendEntry(Fd, connections[Fd]) EXCEPT !.pos = 0]>>
                        \o RecvAgain(Fd, connections[Fd].id)
  <2>1. ~connections[Fd].sendStarted
    BY <1>5 DEF Answers
  <2>2. sq' = sq \o <<[SendEntry(Fd, connections[Fd]) EXCEPT !.pos = 0]>>
                 \o RecvAgain(Fd, Cqe.id)
    BY <1>2, <1>5
  <2> QED
    BY <1>1, <1>5, <2>1, <2>2, HandlerAnswers
<1>6. CASE /\ sq' = sq \o RecvAgain(Fd, connections[Fd].id)
           /\ UNCHANGED <<connections, idToFd, fdSock>>
  BY <1>1, <1>2, <1>6, HandlerReads
<1> QED
  BY <1>3, <1>4, <1>5, <1>6 DEF HandleRecv

-----------------------------------------------------------------------------
(* handle_send.                                                            *)

\* A send went part of the way, or failed and is tried another way.
LEMMA HandlerRetries ==
  ASSUME Alive, pc = "process", batch # <<>>, batch' = Tail(batch), Cqe.op = "send",
         Fd # NoFd, NEW d \in Connection, d.id = connections[Fd].id,
         d.sendStarted = connections[Fd].sendStarted,
         d.sendOffset = Counted(connections[Fd], Cqe), Retry(Fd, d),
         UNCHANGED <<pc, nextId, shutdown, nextSock, ops, cq, heard, sockOf, wire>>
  PROVE  IInv'
<1>1. TypeOK /\ TableInv /\ Known /\ TableTypes /\ Lines /\ sq \in Seq(Entry)
      /\ batch \in Seq(Completion)
  BY TableIs DEF Alive, TypeOK
<1>2. PICK own : own = Cqe.id
  OBVIOUS
<1>3. PICK c : c = connections[Fd]
  OBVIOUS
<1>4. /\ own \in Ids /\ own < nextId /\ Fd \in LiveFds /\ Fd \in Fds /\ c \in Connection
      /\ c.id = own /\ ConnOK(c) /\ Cqe \in Completion /\ CompletionOK(Cqe)
      /\ \A fd \in LiveFds : connections[fd].id = own => fd = Fd
      /\ Cqe \in Elems(batch)
  BY <1>2, <1>3, ConnFacts
<1>5. PICK e : e = SendEntry(Fd, d)
  OBVIOUS
<1>6. d.id = own /\ d.sendOffset \in 0..(ResponseLen - 1) /\ d.sendOffset < ResponseLen
      /\ d.sendOffset \in 0..ResponseLen /\ d.sendOffset \in Int
  <2>1. d.sendOffset \in 0..(ResponseLen - 1)
    BY DEF Connection
  <2> QED
    BY <1>3, <1>4, <2>1, HttpAssumption
<1>7. e \in Entry /\ e.op = "send" /\ e.id = own /\ e.pos = d.sendOffset
  BY <1>4, <1>5, <1>6 DEF SendEntry, Entry
<1>8. PICK new : new = <<e>>
  OBVIOUS
<1>9. new \in Seq(Entry) /\ Elems(new) = {e} /\ \A S : Cnt(new, S) = Bit(e \in S)
  BY <1>7, <1>8, OneEntry
<1>10. sq' = sq \o new
  <2>1. sq' = Append(sq, e)
    BY <1>5 DEF Retry
  <2> QED
    BY <1>1, <1>7, <1>8, <2>1
<1>11. HandlerStep(new, own)
  <2>1. nextId \in Int /\ KnownId("send", own)'
    BY <1>1, <1>4 DEF KnownId, TableTypes, Ids
  <2>2. \A o \in Elems(new) : (o.op # "accept" => o.id = own) /\ KnownId(o.op, o.id)'
    BY <1>7, <1>9, <2>1
  <2> QED
    BY <1>2, <1>9, <1>10, <2>1, <2>2 DEF HandlerStep
<1>12. \A op : Tokens(op, own)'
            = Tokens(op, own) - Bit(Cqe \in Ended(op, own)) + Cnt(new, Queued(op, own))
  BY <1>1, <1>11, HandlerQuiet
<1>13. Cqe \in Ended("send", own)
  BY <1>2, <1>4 DEF Ended, CompletionOK
\* The token is the one of this completion.
<1>14. /\ Tokens("send", own) = 1 /\ c.sendStarted /\ Cnt(sq, Queued("send", own)) = 0
       /\ Cnt(ops, Running("send", own)) = 0 /\ Cnt(batch, Ended("send", own)) = 1
       /\ Cnt(cq, Ended("send", own)) = 0
  <2>1. /\ Cnt(sq, Queued("send", own)) \in Nat /\ Cnt(ops, Running("send", own)) \in Nat
        /\ Cnt(batch, Ended("send", own)) \in Nat /\ Cnt(cq, Ended("send", own)) \in Nat
    BY <1>1, TokenTypes
  <2>2. Cnt(batch, Ended("send", own)) > 0
    BY <1>1, <1>4, <1>13, CntPositive
  <2>3. Tokens("send", own) = IF c.sendStarted THEN 1 ELSE 0
    BY <1>4 DEF ConnOK, AnswerOK
  <2>4. Tokens("send", own) = Cnt(sq, Queued("send", own)) + Cnt(ops, Running("send", own))
                    + Cnt(batch, Ended("send", own)) + Cnt(cq, Ended("send", own))
    BY DEF Tokens
  <2>5. Tokens("send", own) = 1 /\ c.sendStarted
    BY <2>1, <2>2, <2>3, <2>4
  <2> QED
    BY <2>1, <2>2, <2>4, <2>5
<1>15. Tokens("send", own)' = 1
  <2>1. Bit(e \in Queued("send", own)) = 1 /\ Bit(Cqe \in Ended("send", own)) = 1
    BY <1>7, <1>13 DEF Bit, Queued
  <2>2. Cnt(new, Queued("send", own)) = Bit(e \in Queued("send", own))
    BY <1>9
  <2>3. Tokens("send", own)'
          = Tokens("send", own) - Bit(Cqe \in Ended("send", own)) + Cnt(new, Queued("send", own))
    BY <1>12
  <2>4. 1 - 1 + 1 = 1
    OBVIOUS
  <2> QED
    BY <1>14, <2>1, <2>2, <2>3, <2>4
<1>16. Tokens("recv", own)' = 1
  <2>1. Bit(e \in Queued("recv", own)) = 0 /\ Bit(Cqe \in Ended("recv", own)) = 0
    BY <1>7, <1>13 DEF Bit, Queued, Ended
  <2>2. Tokens("recv", own) = 1
    BY <1>4 DEF ConnOK
  <2>3. Cnt(new, Queued("recv", own)) = Bit(e \in Queued("recv", own))
    BY <1>9
  <2>4. Tokens("recv", own)'
          = Tokens("recv", own) - Bit(Cqe \in Ended("recv", own)) + Cnt(new, Queued("recv", own))
    BY <1>12
  <2>5. 1 - 0 + 0 = 1
    OBVIOUS
  <2> QED
    BY <2>1, <2>2, <2>3, <2>4, <2>5
<1>17. SentBytes(own)' = d.sendOffset
  <2>1. Cqe \in Sends(batch, own)
    BY <1>2, <1>4 DEF Sends
  <2>2. Counted(c, Cqe) = SentBytes(own)
    BY <1>4, <2>1 DEF ConnOK, AnswerOK
  <2>3. SentBytes(own)' = SentBytes(own)
    BY DEF SentBytes
  <2> QED
    BY <1>3, <2>2, <2>3
<1>18. /\ \A o \in Elems(sq) : ~(o.op = "send" /\ o.id = own)
       /\ \A o \in Elems(ops) : ~(o.op = "send" /\ o.id = own)
       /\ \A y \in Elems(cq) : ~(y.op = "send" /\ y.id = own)
  <2>1. \A y \in Elems(cq) : y.op = "send" => ~y.more
    BY <1>1, KnownOf DEF CompletionOK
  <2>2. /\ \A o \in Elems(sq) : o.op = "send" /\ o.id = own => Cnt(sq, Queued("send", own)) > 0
        /\ \A o \in Elems(ops) : o.op = "send" /\ o.id = own => Cnt(ops, Running("send", own)) > 0
        /\ \A y \in Elems(cq) : y.op = "send" /\ y.id = own /\ ~y.more
                                      => Cnt(cq, Ended("send", own)) > 0
    BY <1>1, TokenShown
  <2>3. ~(0 > 0)
    OBVIOUS
  <2> QED
    BY <1>14, <2>1, <2>2, <2>3
<1>19. \A y \in Elems(batch') : ~(y.op = "send" /\ y.id = own)
  <2>1. batch' \in Seq(Completion) /\ Elems(batch') \subseteq Elems(batch)
    BY <1>1, ElemsOf
  <2>2. Cnt(batch', Ended("send", own)) = 0
    <3>1. Cnt(Tail(batch), Ended("send", own))
            = Cnt(batch, Ended("send", own)) - Bit(Head(batch) \in Ended("send", own))
      BY <1>1, CntTail
    <3>2. Bit(Head(batch) \in Ended("send", own)) = 1
      BY <1>13 DEF Bit, Cqe
    <3>3. 1 - 1 = 0
      OBVIOUS
    <3> QED
      BY <1>14, <3>1, <3>2, <3>3
  <2>3. ~ \E y \in Elems(batch') : y \in Ended("send", own)
    <3>1. ~(0 > 0)
      OBVIOUS
    <3>2. (\E y \in Elems(batch') : y \in Ended("send", own))
            <=> Cnt(batch', Ended("send", own)) > 0
      BY <2>1, CntPositive
    <3> QED
      BY <2>2, <3>1, <3>2
  <2>4. \A y \in Elems(batch) : y \in Completion /\ (y.op = "send" => ~y.more)
    BY <1>1, KnownOf, IdTypes DEF CompletionOK
  <2> QED
    BY <2>1, <2>3, <2>4 DEF Ended
<1>20. \A o \in Sends(sq, own)' \cup Sends(ops, own)' : o.pos = d.sendOffset
  <2>1. Elems(sq') = Elems(sq) \cup Elems(new)
    <3>1. new \in Seq(Entry)
      BY <1>9
    <3> QED
      BY <1>1, <1>10, <3>1, ElemsConcat
  <2>2. Sends(sq, own)' \subseteq {e} /\ Sends(ops, own)' = {}
    BY <1>9, <1>18, <2>1 DEF Sends, Elems
  <2> QED
    BY <1>7, <2>2
<1>21. Sends(batch, own)' \cup Sends(cq, own)' = {}
  BY <1>18, <1>19 DEF Sends, Elems
<1>22. IdOK(own)'
  <2>1. 1 <= 1
    OBVIOUS
  <2> QED
    BY <1>6, <1>15, <1>17, <1>20, <2>1 DEF IdOK
<1>23. ConnOK(d)'
  <2>1. d.sendStarted
    BY <1>3, <1>14
  <2> QED
    BY <1>6, <1>15, <1>16, <1>17, <1>21, <2>1 DEF ConnOK, AnswerOK, Counted
<1>24. /\ TableTypes' /\ TableInv' /\ LiveFds' = LiveFds /\ connections'[Fd] = d
       /\ \A g \in Fds : connections'[g].id = connections[g].id
       /\ \A g \in Fds \ {Fd} : connections'[g] = connections[g]
       /\ fdSock' = fdSock
  <2>1. Keep(Fd, d)
    BY DEF Retry
  <2> QED
    BY <1>1, <1>4, <2>1, KeepTable
<1>25. AcceptsNew'
  <2>1. \A fd \in Fds : connections[fd].id = 0 /\ fdSock[fd] # 0
                          => connections'[fd].id = 0 /\ fdSock'[fd] # 0
    BY <1>24
  <2> QED
    BY <1>11, <2>1, OtherAccepts
<1>26. \A fd \in LiveFds' : \/ fd \in LiveFds /\ connections'[fd] = connections[fd]
                                  /\ connections[fd].id # own
                            \/ ConnOK(connections[fd])'
  <2> SUFFICES ASSUME NEW fd \in LiveFds'
               PROVE  \/ fd \in LiveFds /\ connections'[fd] = connections[fd]
                            /\ connections[fd].id # own
                      \/ ConnOK(connections[fd])'
    OBVIOUS
  <2>1. CASE fd = Fd
    <3>1. connections'[fd] = d
      BY <1>24, <2>1
    <3> QED
      BY <1>23, <3>1
  <2>2. CASE fd # Fd
    BY <1>4, <1>24, <2>2 DEF LiveFds
  <2> QED
    BY <2>1, <2>2
<1> QED
  BY <1>11, <1>22, <1>24, <1>25, <1>26, HandlerEnd

\* handle_send: closes, or sends on.
LEMMA HandleSendStep ==
  ASSUME Alive, HandleSend
  PROVE  IInv'
<1>1. /\ pc = "process" /\ batch # <<>> /\ Cqe.op = "send" /\ Fd # NoFd
      /\ batch' = Tail(batch)
      /\ UNCHANGED <<pc, nextId, shutdown, nextSock, ops, cq, heard, sockOf, wire>>
  BY DEF HandleSend
<1>2. PICK c : c = connections[Fd]
  OBVIOUS
<1>3. Cqe \in Completion /\ c \in Connection
  BY <1>1, <1>2, ConnFacts
<1>4. /\ c.sendOffset \in 0..(ResponseLen - 1) /\ c.sendOffset \in Int /\ ResponseLen \in Int
      /\ Cqe.result \in Int
  <2>1. c.sendOffset \in 0..(ResponseLen - 1) /\ Cqe.result \in ENoBufs..(ResponseLen + 1)
    BY <1>3 DEF Connection, Completion
  <2> QED
    BY <2>1, HttpAssumption DEF ENoBufs
<1>5. CASE Cqe.result < 0 /\ Retry(Fd, FallBack(c))
  <2>1. PICK d : d = FallBack(c)
    OBVIOUS
  <2>2. d \in Connection /\ d.id = c.id /\ d.sendStarted = c.sendStarted
        /\ d.sendOffset = c.sendOffset
    BY <1>3, <2>1 DEF FallBack, Connection
  <2>3. Counted(c, Cqe) = c.sendOffset
    BY <1>4, <1>5 DEF Counted
  <2>4. d.sendOffset = Counted(connections[Fd], Cqe) /\ Retry(Fd, d)
        /\ d.id = connections[Fd].id /\ d.sendStarted = connections[Fd].sendStarted
    BY <1>2, <1>5, <2>1, <2>2, <2>3
  <2> QED
    BY <1>1, <2>2, <2>4, HandlerRetries
<1>6. CASE Close({Fd}) /\ UNCHANGED sq
  BY <1>1, <1>6, HandlerCloses
<1>7. CASE Cqe.result > 0 /\ ~Complete(Sent(c, Cqe.result)) /\ Retry(Fd, Sent(c, Cqe.result))
  <2>1. PICK n : n = c.sendOffset + Cqe.result
    OBVIOUS
  <2>2. PICK d : d = [c EXCEPT !.sendOffset = n]
    OBVIOUS
  <2>3. d = Sent(c, Cqe.result)
    BY <2>1, <2>2 DEF Sent
  <2>4. d.id = c.id /\ d.sendStarted = c.sendStarted /\ d.sendOffset = n
    BY <1>3, <2>2 DEF Connection
  <2>5. n \in 0..(ResponseLen - 1)
    <3>1. ~(n >= ResponseLen)
      BY <1>7, <2>3, <2>4 DEF Complete
    <3> QED
      BY <1>4, <1>7, <2>1, <3>1
  <2>6. d \in Connection
    BY <1>3, <2>2, <2>5 DEF Connection
  <2>7. Counted(c, Cqe) = n
    BY <1>7, <2>1 DEF Counted
  <2>8. d.sendOffset = Counted(connections[Fd], Cqe) /\ Retry(Fd, d)
        /\ d.id = connections[Fd].id /\ d.sendStarted = connections[Fd].sendStarted
    BY <1>2, <1>7, <2>3, <2>4, <2>7
  <2> QED
    BY <1>1, <2>6, <2>8, HandlerRetries
<1> QED
  BY <1>2, <1>5, <1>6, <1>7 DEF HandleSend

-----------------------------------------------------------------------------
(* handle_accept, and the theorem.                                         *)

\* What an accept that has not been handled says of its descriptor.
LEMMA AcceptFacts ==
  ASSUME Alive, batch # <<>>, Cqe.op = "accept", Cqe.result >= 0
  PROVE  /\ Cqe.fd \in Fds /\ connections[Cqe.fd].id = 0 /\ fdSock[Cqe.fd] # 0
         /\ nextId <= MaxSockets
         /\ Cqe \in AllAccepted /\ \A fd \in Fds : Cqe \in Accepted(fd) <=> fd = Cqe.fd
         /\ Pending(Accepted(Cqe.fd)) = 1
<1>1. TypeOK /\ Known /\ AcceptsNew /\ batch \in Seq(Completion) /\ cq \in Seq(Completion)
  BY DEF Alive, TypeOK
<1>2. Cqe \in Elems(batch) /\ Cqe \in Completion
  BY <1>1, ElemsOf DEF Cqe
<1>3. Cqe.fd \in Fds
  BY <1>1, <1>2, KnownOf DEF CompletionOK
<1>4. Cqe \in AllAccepted /\ \A fd \in Fds : Cqe \in Accepted(fd) <=> fd = Cqe.fd
  BY <1>2 DEF AllAccepted, Accepted
<1>5. \A S : Cqe \in S => Pending(S) >= 1 /\ Pending(S) \in Nat
  <2> SUFFICES ASSUME NEW S, Cqe \in S PROVE Pending(S) >= 1 /\ Pending(S) \in Nat
    OBVIOUS
  <2>1. Cnt(batch, S) > 0
    BY <1>1, <1>2, CntPositive
  <2>2. Cnt(batch, S) \in Nat /\ Cnt(cq, S) \in Nat
    BY <1>1, AtFinite
  <2> QED
    BY <2>1, <2>2 DEF Pending
<1>6. Pending(Accepted(Cqe.fd)) = 1 /\ connections[Cqe.fd].id = 0 /\ fdSock[Cqe.fd] # 0
  <2>1. Pending(Accepted(Cqe.fd)) >= 1 /\ Pending(Accepted(Cqe.fd)) \in Nat
    BY <1>3, <1>4, <1>5
  <2>2. Pending(Accepted(Cqe.fd)) <= 1
    BY <1>1, <1>3 DEF AcceptsNew
  <2>3. Pending(Accepted(Cqe.fd)) = 1
    BY <2>1, <2>2
  <2> QED
    BY <1>1, <1>3, <2>3 DEF AcceptsNew
<1>7. nextId <= MaxSockets
  <2>1. Pending(AllAccepted) >= 1 /\ Pending(AllAccepted) \in Nat
    BY <1>4, <1>5
  <2>2. nextId + Pending(AllAccepted) <= nextSock
    BY <1>1 DEF AcceptsNew
  <2>3. nextId \in Int /\ nextSock \in Int /\ nextSock <= MaxSockets + 1 /\ MaxSockets \in Int
    BY <1>1, HttpAssumption DEF TypeOK
  <2> QED
    BY <2>1, <2>2, <2>3
<1> QED
  BY <1>3, <1>4, <1>6, <1>7

\* An accept that has ended is armed again.
Again == IF Cqe.more THEN <<>> ELSE <<AcceptEntry>>

\* That entry is nobody's.
LEMMA AgainFacts ==
  /\ Again \in Seq(Entry)
  /\ \A e \in Elems(Again) : e.op = "accept" /\ e.id = 0 /\ KnownId(e.op, e.id)'
  /\ \A op, id : op # "accept" => Cnt(Again, Queued(op, id)) = 0
<1>1. PICK e : e = AcceptEntry
  OBVIOUS
<1>2. e \in Entry /\ e.op = "accept" /\ e.id = 0
  BY <1>1, HttpAssumption DEF AcceptEntry, Entry
<1>3. <<>> \in Seq(Entry) /\ Elems(<<>>) = {} /\ \A S : Cnt(<<>>, S) = 0
  BY NoEntry
<1>4. <<e>> \in Seq(Entry) /\ Elems(<<e>>) = {e} /\ \A S : Cnt(<<e>>, S) = Bit(e \in S)
  BY <1>2, OneEntry
<1>5. Again = <<>> \/ Again = <<e>>
  BY <1>1 DEF Again
<1>6. Again \in Seq(Entry)
  BY <1>3, <1>4, <1>5
<1>7. ASSUME NEW x \in Elems(Again)
      PROVE  x.op = "accept" /\ x.id = 0 /\ KnownId(x.op, x.id)'
  <2>1. x = e
    BY <1>3, <1>4, <1>5
  <2> QED
    BY <1>2, <2>1 DEF KnownId
<1>8. ASSUME NEW op, NEW id, op # "accept" PROVE Cnt(Again, Queued(op, id)) = 0
  <2>1. e \notin Queued(op, id)
    BY <1>2, <1>8 DEF Queued
  <2> QED
    BY <1>3, <1>4, <1>5, <2>1 DEF Bit
<1> QED
  BY <1>6, <1>7, <1>8

\* An accept that failed, or a connection that is refused.
LEMMA HandlerRefuses ==
  ASSUME Alive, pc = "process", batch # <<>>, batch' = Tail(batch), Cqe.op = "accept",
         sq' = sq \o Again, TableTypes', TableInv', AcceptsNew', connections' = connections,
         nextId' = nextId,
         UNCHANGED <<pc, shutdown, nextSock, ops, cq, heard, wire>>
  PROVE  IInv'
<1>1. TypeOK /\ TableInv /\ Known /\ TableTypes
  BY TableIs DEF Alive
<1>2. PICK own : own = nextId
  OBVIOUS
<1>3. PICK new : new = Again
  OBVIOUS
<1>4. new \in Seq(Entry) /\ \A e \in Elems(new) : e.op = "accept" /\ KnownId(e.op, e.id)'
  BY <1>3, AgainFacts
<1>5. nextId \in Int
  BY <1>1 DEF TableTypes
<1>6. HandlerStep(new, own)
  BY <1>3, <1>4, <1>5 DEF HandlerStep
<1>7. own \in Ids => IdOK(own)'
  BY <1>4, <1>6, NoNewSend
<1>8. LiveFds' = LiveFds
  BY DEF LiveFds
<1>9. \A fd \in LiveFds' : fd \in LiveFds /\ connections'[fd] = connections[fd]
                            /\ connections[fd].id # own
  <2> SUFFICES ASSUME NEW fd \in LiveFds PROVE connections[fd].id # own
    BY <1>8
  <2>1. connections[fd].id < nextId /\ connections[fd].id \in Ids
    BY <1>1, LiveFacts
  <2> QED
    BY <1>2, <1>5, <2>1 DEF Ids
<1> QED
  BY <1>6, <1>7, <1>9, HandlerEnd

\* A new connection gets the next id, and nothing waits for that one yet.
LEMMA HandlerAccepts ==
  ASSUME Alive, pc = "process", batch # <<>>, batch' = Tail(batch), Cqe.op = "accept",
         Cqe.result >= 0, AcceptConnection(Cqe.fd),
         sq' = sq \o <<RecvEntry(Cqe.fd, nextId)>> \o Again,
         UNCHANGED <<pc, shutdown, nextSock, ops, cq, heard, wire>>
  PROVE  IInv'
<1>1. TypeOK /\ TableInv /\ Known /\ TableTypes /\ AcceptsNew /\ sq \in Seq(Entry)
  BY TableIs DEF Alive, TypeOK
<1>2. PICK own : own = nextId
  OBVIOUS
<1>3. PICK fd : fd = Cqe.fd
  OBVIOUS
<1>4. /\ fd \in Fds /\ connections[fd].id = 0 /\ fdSock[fd] # 0 /\ nextId <= MaxSockets
      /\ Cqe \in AllAccepted /\ \A g \in Fds : Cqe \in Accepted(g) <=> g = fd
      /\ Pending(Accepted(fd)) = 1
  BY <1>3, AcceptFacts
<1>5. PICK c : c = [NoConnection EXCEPT !.id = own]
  OBVIOUS
<1>6. /\ TableTypes' /\ TableInv' /\ LiveFds' = LiveFds \cup {fd} /\ own \in Ids
      /\ nextId' = own + 1 /\ connections'[fd] = c
      /\ \A g \in Fds \ {fd} : connections'[g] = connections[g]
      /\ fdSock' = fdSock
  <2>1. AcceptConnection(fd)
    BY <1>3
  <2> QED
    BY <1>1, <1>2, <1>4, <1>5, <2>1, AcceptTable
<1>7. c \in Connection /\ c.id = own /\ ~c.sendStarted /\ c.sendOffset = 0
  BY <1>5, <1>6, ConnectionIs
<1>8. own \in Nat /\ own # 0
  BY <1>6 DEF Ids
<1>9. PICK e : e = RecvEntry(fd, own)
  OBVIOUS
<1>10. e \in Entry /\ e.op = "recv" /\ e.id = own
  <2>1. e = [op |-> "recv", id |-> own, fd |-> fd, pos |-> 0]
    BY <1>9 DEF RecvEntry
  <2> QED
    BY <1>4, <1>6, <2>1, HttpAssumption DEF Entry
<1>11. PICK first : first = <<e>>
  OBVIOUS
<1>12. first \in Seq(Entry) /\ Elems(first) = {e} /\ \A S : Cnt(first, S) = Bit(e \in S)
  BY <1>10, <1>11, OneEntry
<1>13. PICK again : again = Again
  OBVIOUS
<1>14. /\ again \in Seq(Entry)
       /\ \A x \in Elems(again) : x.op = "accept" /\ x.id = 0 /\ KnownId(x.op, x.id)'
       /\ \A op, id : op # "accept" => Cnt(again, Queued(op, id)) = 0
  BY <1>13, AgainFacts
<1>15. PICK new : new = first \o again
  OBVIOUS
<1>16. /\ new \in Seq(Entry) /\ Elems(new) = Elems(first) \cup Elems(again)
       /\ \A S : Cnt(new, S) = Cnt(first, S) + Cnt(again, S)
  BY <1>12, <1>14, <1>15, TwoEntries
<1>17. sq' = sq \o new
  <2>1. sq' = (sq \o first) \o again
    BY <1>2, <1>3, <1>9, <1>11, <1>13
  <2>2. (sq \o first) \o again = sq \o (first \o again)
    <3>1. sq \in Seq(Entry) /\ first \in Seq(Entry) /\ again \in Seq(Entry)
      BY <1>1, <1>12, <1>14
    <3> QED
      BY <3>1, Rebracket
  <2> QED
    BY <1>15, <2>1, <2>2
<1>18. HandlerStep(new, own)
  <2>1. KnownId("recv", own)'
    BY <1>6, <1>8 DEF KnownId
  <2>2. \A x \in Elems(new) : (x.op # "accept" => x.id = own) /\ KnownId(x.op, x.id)'
    <3> SUFFICES ASSUME NEW x \in Elems(new)
                 PROVE  (x.op # "accept" => x.id = own) /\ KnownId(x.op, x.id)'
      OBVIOUS
    <3>1. x = e \/ x \in Elems(again)
      BY <1>12, <1>16
    <3> QED
      BY <1>10, <1>14, <2>1, <3>1
  <2>3. nextId' \in Int /\ nextId' >= nextId
    BY <1>2, <1>6, <1>8
  <2>4. new \in Seq(Entry)
    BY <1>16
  <2> QED
    BY <1>17, <2>2, <2>3, <2>4 DEF HandlerStep
<1>19. \A x \in Elems(new) : x.op # "send"
  BY <1>10, <1>12, <1>14, <1>16
<1>20. /\ IdOK(own)' /\ QuietFor(own)
       /\ Tokens("send", own)' = Tokens("send", own)
  BY <1>6, <1>18, <1>19, NoNewSend
<1>21. /\ Tokens("send", own) = 0 /\ Tokens("recv", own) = 0 /\ SentBytes(own) = 0
       /\ \A x \in Elems(sq) \cup Elems(ops) \cup Elems(batch) \cup Elems(cq) :
              ~(x.op = "send" /\ x.id = own)
  <2>1. own >= nextId /\ "send" # "accept" /\ "recv" # "accept"
    BY <1>2, <1>8
  <2>2. \A op : op # "accept" =>
          /\ Tokens(op, own) = 0 /\ SentBytes(own) = 0
          /\ \A x \in Elems(sq) \cup Elems(ops) \cup Elems(batch) \cup Elems(cq) :
               ~(x.op = op /\ x.id = own)
    BY <1>1, <1>8, <2>1, NewId
  <2> QED
    BY <2>1, <2>2
<1>22. Tokens("recv", own)' = 1
  <2>1. Tokens("recv", own)' = Tokens("recv", own) - Bit(Cqe \in Ended("recv", own))
                                + Cnt(new, Queued("recv", own))
    BY <1>1, <1>18, HandlerQuiet
  <2>2. Bit(Cqe \in Ended("recv", own)) = 0
    BY DEF Bit, Ended
  <2>3. Cnt(new, Queued("recv", own)) = Bit(e \in Queued("recv", own)) + 0
    BY <1>12, <1>14, <1>16
  <2>4. Bit(e \in Queued("recv", own)) = 1
    BY <1>10 DEF Bit, Queued
  <2>5. 0 - 0 + (1 + 0) = 1
    OBVIOUS
  <2> QED
    BY <1>21, <2>1, <2>2, <2>3, <2>4, <2>5
<1>23. ConnOK(c)'
  <2>1. Sends(sq, own) \cup Sends(ops, own) = {} /\ Sends(batch, own) \cup Sends(cq, own) = {}
    BY <1>21 DEF Sends
  <2>2. /\ SentBytes(own)' = 0
        /\ \A x \in Sends(sq', own) \cup Sends(ops', own) : FALSE
        /\ \A x \in Sends(batch', own) \cup Sends(cq', own) : FALSE
    BY <1>20, <1>21, <2>1 DEF QuietFor
  <2>3. /\ Sends(sq, own)' \cup Sends(ops, own)' = {}
        /\ Sends(batch, own)' \cup Sends(cq, own)' = {}
    BY <2>2 DEF Sends, Elems
  <2> QED
    BY <1>7, <1>20, <1>21, <1>22, <2>2, <2>3 DEF ConnOK, AnswerOK, Counted
<1>24. AcceptsNew'
  <2>1. \A S : Pending(S)' = Pending(S) - Bit(Cqe \in S)
    BY <1>1, <1>18, HandlerQuiet
  <2>2. PICK x : x = Cqe
    OBVIOUS
  <2>3. /\ \A S : Pending(S)' = Pending(S) - Bit(x \in S)
        /\ x \in AllAccepted /\ \A g \in Fds : x \in Accepted(g) <=> g = fd
    BY <1>4, <2>1, <2>2
  <2>4. nextId' + Pending(AllAccepted)' <= nextSock'
    <3>1. PICK S : S = AllAccepted
      OBVIOUS
    <3>2. Pending(S)' = Pending(S) - 1 /\ Pending(S) \in Nat
      BY <1>1, <2>3, <3>1, PendingTypes DEF Bit
    <3>3. own + Pending(S) <= nextSock
      BY <1>1, <1>2, <3>1 DEF AcceptsNew
    <3>4. nextId' + Pending(S)' <= nextSock'
      BY <1>6, <1>8, <3>2, <3>3
    <3> QED
      BY <3>1, <3>4 DEF AllAccepted
  <2>5. ASSUME NEW g \in Fds
        PROVE  /\ Pending(Accepted(g))' <= 1
               /\ Pending(Accepted(g))' = 1 => fdSock'[g] # 0 /\ connections'[g].id = 0
    <3>1. PICK S : S = Accepted(g)
      OBVIOUS
    <3>2. /\ Pending(S) \in Nat /\ Pending(S) <= 1
          /\ Pending(S) = 1 => fdSock[g] # 0 /\ connections[g].id = 0
      BY <1>1, <3>1, PendingTypes DEF AcceptsNew
    <3>3. Pending(S)' <= 1 /\ (Pending(S)' = 1 => fdSock'[g] # 0 /\ connections'[g].id = 0)
      <4>1. CASE g = fd
        <5>1. Pending(S)' = 0
          BY <1>4, <2>3, <3>1, <4>1 DEF Bit
        <5> QED
          BY <5>1
      <4>2. CASE g # fd
        <5>1. Pending(S)' = Pending(S)
          BY <2>3, <3>1, <3>2, <4>2 DEF Bit
        <5> QED
          BY <1>6, <3>2, <4>2, <5>1
      <4> QED
        BY <4>1, <4>2
    <3> QED
      BY <3>1, <3>3 DEF Accepted
  <2> QED
    BY <2>4, <2>5 DEF AcceptsNew
<1>25. \A g \in LiveFds' : \/ g \in LiveFds /\ connections'[g] = connections[g]
                                 /\ connections[g].id # own
                           \/ ConnOK(connections[g])'
  <2> SUFFICES ASSUME NEW g \in LiveFds'
               PROVE  \/ g \in LiveFds /\ connections'[g] = connections[g]
                            /\ connections[g].id # own
                      \/ ConnOK(connections[g])'
    OBVIOUS
  <2>1. CASE g = fd
    <3>1. connections'[g] = c
      BY <1>6, <2>1
    <3> QED
      BY <1>23, <3>1
  <2>2. CASE g # fd
    <3>1. g \in LiveFds /\ g \in Fds
      BY <1>6, <2>2 DEF LiveFds
    <3>2. connections[g].id < nextId /\ connections[g].id \in Ids
      BY <1>1, <3>1, LiveFacts
    <3>3. connections[g].id # own
      BY <1>2, <1>8, <3>2 DEF Ids
    <3> QED
      BY <1>6, <2>2, <3>1, <3>3
  <2> QED
    BY <2>1, <2>2
<1> QED
  BY <1>6, <1>18, <1>20, <1>24, <1>25, HandlerEnd

\* handle_accept: refuses, or takes the connection.
LEMMA HandleAcceptStep ==
  ASSUME Alive, HandleAccept
  PROVE  IInv'
<1>1. /\ pc = "process" /\ batch # <<>> /\ Cqe.op = "accept" /\ batch' = Tail(batch)
      /\ UNCHANGED <<pc, shutdown, nextSock, ops, cq, heard, wire>>
  BY DEF HandleAccept
<1>2. TypeOK /\ TableInv /\ Known /\ TableTypes /\ AcceptsNew /\ sq \in Seq(Entry)
  BY TableIs DEF Alive, TypeOK
\* The queues of a step that accepts nothing.
<1>3. PICK own : own = nextId
  OBVIOUS
<1>4. ASSUME sq' = sq \o Again, nextId' = nextId PROVE HandlerStep(Again, own)
  <2>1. nextId \in Int
    BY <1>2 DEF TableTypes
  <2>2. Again \in Seq(Entry) /\ \A e \in Elems(Again) : e.op = "accept" /\ KnownId(e.op, e.id)'
    BY AgainFacts
  <2> QED
    BY <1>1, <1>4, <2>1, <2>2 DEF HandlerStep
<1>5. CASE /\ Cqe.result < 0 /\ sq' = sq \o Again
           /\ UNCHANGED <<tableVars, fdSock, sockOf>>
  <2>1. UNCHANGED <<connections, idToFd, nextId, sockOf, fdSock>>
    BY <1>5 DEF tableVars
  <2>2. TableTypes' /\ TableInv'
    BY <1>2, <2>1, SameTable
  <2>3. ~(Cqe.result >= 0)
    <3>1. Cqe \in Completion
      BY <1>1, ElemsOf DEF Alive, TypeOK, Cqe
    <3>2. Cqe.result \in ENoBufs..(ResponseLen + 1)
      BY <3>1 DEF Completion
    <3>3. Cqe.result \in Int
      BY <3>2, HttpAssumption DEF ENoBufs
    <3> QED
      BY <1>5, <3>3
  <2>4. HandlerStep(Again, own)
    BY <1>4, <1>5, <2>1
  <2>5. AcceptsNew'
    <3>1. \A fd \in Fds : connections[fd].id = 0 /\ fdSock[fd] # 0
                            => connections'[fd].id = 0 /\ fdSock'[fd] # 0
      BY <2>1
    <3>2. nextId' = nextId /\ nextSock' = nextSock
      BY <1>1, <2>1
    <3> QED
      BY <2>3, <2>4, <3>1, <3>2, OtherAccepts
  <2> QED
    BY <1>1, <1>5, <2>1, <2>2, <2>5, HandlerRefuses
<1>6. CASE /\ Cqe.result >= 0 /\ RejectConnection(Cqe.fd) /\ sq' = sq \o Again
  <2>1. PICK fd : fd = Cqe.fd
    OBVIOUS
  <2>2. /\ fd \in Fds /\ connections[fd].id = 0 /\ fdSock[fd] # 0
        /\ Cqe \in AllAccepted /\ \A g \in Fds : Cqe \in Accepted(g) <=> g = fd
        /\ Pending(Accepted(fd)) = 1
    BY <1>1, <1>6, <2>1, AcceptFacts
  <2>3. /\ fdSock' = [fdSock EXCEPT ![fd] = 0]
        /\ UNCHANGED <<connections, idToFd, nextId, sockOf>>
    BY <1>6, <2>1 DEF RejectConnection
  <2>4. /\ TableTypes' /\ TableInv'
        /\ fdSock'[fd] = 0 /\ \A g \in Fds \ {fd} : fdSock'[g] = fdSock[g]
    <3>1. PICK s : s = 0
      OBVIOUS
    <3>2. s \in Socks \cup {0} /\ fdSock' = [fdSock EXCEPT ![fd] = s]
      BY <2>3, <3>1
    <3> QED
      BY <1>2, <2>2, <2>3, <3>1, <3>2, OtherSocketTable
  <2>5. AcceptsNew'
    <3>1. HandlerStep(Again, own)
      BY <1>4, <1>6, <2>3
    <3>2. \A S : Pending(S)' = Pending(S) - Bit(Cqe \in S)
      BY <1>2, <3>1, HandlerQuiet
    <3>3. PICK x : x = Cqe
      OBVIOUS
    <3>4. /\ \A S : Pending(S)' = Pending(S) - Bit(x \in S)
          /\ x \in AllAccepted /\ \A g \in Fds : x \in Accepted(g) <=> g = fd
      BY <2>2, <3>2, <3>3
    <3>5. nextId' + Pending(AllAccepted)' <= nextSock'
      <4>1. PICK S : S = AllAccepted
        OBVIOUS
      <4>2. Pending(S)' = Pending(S) - 1 /\ Pending(S) \in Nat
        BY <1>2, <3>4, <4>1, PendingTypes DEF Bit
      <4>3. nextId + Pending(S) <= nextSock /\ nextId \in Int /\ nextSock \in Int
        BY <1>2, <4>1 DEF AcceptsNew, TypeOK
      <4>4. nextId' + Pending(S)' <= nextSock'
        BY <1>1, <2>3, <4>2, <4>3
      <4> QED
        BY <4>1, <4>4 DEF AllAccepted
    <3>6. ASSUME NEW g \in Fds
          PROVE  /\ Pending(Accepted(g))' <= 1
                 /\ Pending(Accepted(g))' = 1 => fdSock'[g] # 0 /\ connections'[g].id = 0
      <4>1. PICK S : S = Accepted(g)
        OBVIOUS
      <4>2. /\ Pending(S) \in Nat /\ Pending(S) <= 1
            /\ Pending(S) = 1 => fdSock[g] # 0 /\ connections[g].id = 0
        BY <1>2, <4>1, PendingTypes DEF AcceptsNew
      <4>3. Pending(S)' <= 1 /\ (Pending(S)' = 1 => fdSock'[g] # 0 /\ connections'[g].id = 0)
        <5>1. CASE g = fd
          <6>1. Pending(S)' = 0
            BY <2>2, <3>4, <4>1, <5>1 DEF Bit
          <6> QED
            BY <6>1
        <5>2. CASE g # fd
          <6>1. Pending(S)' = Pending(S)
            BY <3>4, <4>1, <4>2, <5>2 DEF Bit
          <6> QED
            BY <2>3, <2>4, <4>2, <5>2, <6>1
        <5> QED
          BY <5>1, <5>2
      <4> QED
        BY <4>1, <4>3 DEF Accepted
    <3> QED
      BY <3>5, <3>6 DEF AcceptsNew
  <2> QED
    BY <1>1, <1>6, <2>3, <2>4, <2>5, HandlerRefuses
<1>7. CASE /\ Cqe.result >= 0 /\ AcceptConnection(Cqe.fd)
           /\ sq' = sq \o <<RecvEntry(Cqe.fd, nextId)>> \o Again
  BY <1>1, <1>7, HandlerAccepts
<1> QED
  BY <1>5, <1>6, <1>7 DEF HandleAccept, Again

\* The worker begins with an accept and no connection.
LEMMA InitIInv == Init => IInv
<1> SUFFICES ASSUME Init PROVE IInv
  OBVIOUS
<1>1. PICK e : e = AcceptEntry
  OBVIOUS
<1>2. e \in Entry /\ e.op = "accept" /\ e.id = 0
  BY <1>1, HttpAssumption DEF AcceptEntry, Entry
<1>3. <<e>> \in Seq(Entry) /\ Elems(<<e>>) = {e} /\ \A S : Cnt(<<e>>, S) = Bit(e \in S)
  BY <1>2, OneEntry
<1>4. /\ pc = "process" /\ batch = <<>> /\ shutdown = FALSE
      /\ connections = [fd \in Fds |-> NoConnection]
      /\ idToFd = [id \in Ids |-> NoFd] /\ nextId = 1
      /\ fdSock = [fd \in Fds |-> 0] /\ nextSock = 1
      /\ sq = <<e>> /\ ops = <<>> /\ cq = <<>>
      /\ heard = <<>> /\ sockOf = [id \in Ids |-> 0] /\ wire = <<>>
  BY <1>1 DEF Init
<1>5. \A X : <<>> \in Seq(X)
  OBVIOUS
<1>6. DOMAIN <<>> = {}
  OBVIOUS
<1>7. \A S : Cnt(<<>>, S) = 0
  BY CntEmpty
<1>8. TypeOK
  <2>1. connections \in [Fds -> Connection]
    BY <1>4, ConnectionIs
  <2>2. nextId \in 1..(MaxSockets + 1) /\ nextSock \in 1..(MaxSockets + 1)
    BY <1>4, HttpAssumption
  <2>3. batch \in Seq(Completion) /\ cq \in Seq(Completion) /\ ops \in Seq(Operation)
    BY <1>4, <1>5
  <2>4. heard \in Seq([id : Ids, data : Chunks])
    BY <1>4, <1>5
  <2>5. wire \in Seq([id : Ids, sock : Socks, pos : 1..ResponseLen])
    BY <1>4, <1>5
  <2>6. sq \in Seq(Entry)
    BY <1>3, <1>4
  <2>7. /\ idToFd \in [Ids -> Fds \cup {NoFd}] /\ fdSock \in [Fds -> Socks \cup {0}]
        /\ sockOf \in [Ids -> Socks \cup {0}]
    BY <1>4
  <2>8. shutdown \in BOOLEAN /\ pc \in {"loop", "enter", "wait", "process", "close", "exited"}
    BY <1>4
  <2> QED
    BY <2>1, <2>2, <2>3, <2>4, <2>5, <2>6, <2>7, <2>8 DEF TypeOK
<1>9. \A fd \in Fds : connections[fd].id = 0
  BY <1>4, ConnectionIs
<1>10. LiveFds = {}
  BY <1>9 DEF LiveFds
<1>11. TableInv
  <2>1. TableConsistent
    BY <1>4, <1>10 DEF TableConsistent
  <2>2. \A fd \in Fds : connections[fd].id < nextId
    BY <1>4, <1>9
  <2> QED
    BY <2>1, <2>2 DEF TableInv
<1>12. AnswerInOrder
  BY <1>4, <1>6 DEF AnswerInOrder
<1>13. Elems(ops) = {} /\ Elems(batch) = {} /\ Elems(cq) = {} /\ Elems(sq) = {e}
  BY <1>3, <1>4, <1>6 DEF Elems
<1>14. Known
  BY <1>2, <1>4, <1>6, <1>13 DEF Known, KnownId
<1>15. AcceptsNew
  <2>1. \A S : Pending(S) = 0
    BY <1>4, <1>7 DEF Pending
  <2>2. Pending(AllAccepted) = 0 /\ \A fd \in Fds : Pending(Accepted(fd)) = 0
    BY <2>1
  <2> QED
    BY <1>4, <2>2 DEF AcceptsNew
<1>16. Lines
  <2> SUFFICES ASSUME NEW id \in Ids PROVE IdOK(id)
    BY <1>10 DEF Lines
  <2>1. e \notin Queued("send", id)
    BY <1>2 DEF Queued
  <2>2. Cnt(sq, Queued("send", id)) = 0
    BY <1>3, <1>4, <2>1 DEF Bit
  <2>3. Tokens("send", id) = 0
    BY <1>4, <1>7, <2>2 DEF Tokens
  <2>4. Sends(sq, id) \cup Sends(ops, id) = {}
    BY <1>2, <1>13 DEF Sends
  <2> QED
    BY <2>3, <2>4 DEF IdOK
<1> QED
  BY <1>4, <1>8, <1>11, <1>12, <1>14, <1>15, <1>16 DEF IInv, QueueInv

\* Nothing happens to a worker that has returned.
LEMMA ExitedStep ==
  ASSUME IInv, pc = "exited", [Next]_vars
  PROVE  IInv'
<1>1. TypeOK /\ TableInv /\ AnswerInOrder /\ batch = <<>> /\ ops = <<>> /\ TableTypes
  BY TableIs DEF IInv
<1>2. DOMAIN ops = {}
  BY <1>1
<1>3. Stop \/ UNCHANGED vars
  BY <1>2 DEF Next, Kernel, Worker, WorkerFails, CloseIdle, EnterWait, Reap, HandleAccept,
              HandleUnknown, HandleRecv, HandleSend, EndLoop, Exit
<1>4. /\ shutdown' \in BOOLEAN
      /\ UNCHANGED <<pc, batch, connections, idToFd, nextId, fdSock, nextSock, sq, ops, cq,
                     heard, sockOf, wire>>
  BY <1>1, <1>3 DEF Stop, tableVars, kernelVars, vars, TypeOK
<1>5. TableTypes' /\ TableInv'
  BY <1>1, <1>4, SameTable
<1>6. AnswerInOrder'
  BY <1>1, <1>4, WireSame
<1>7. TypeOK'
  BY <1>1, <1>4, <1>5 DEF TypeOK, TableTypes
<1> QED
  BY <1>1, <1>4, <1>5, <1>6, <1>7 DEF IInv

\* A stuttering step keeps the invariant.
LEMMA StutterStep ==
  ASSUME IInv, UNCHANGED vars
  PROVE  IInv'
<1>1. CASE pc = "exited"
  BY <1>1, ExitedStep
<1>2. CASE pc # "exited"
  <2>1. Alive
    BY <1>2, AliveIs
  <2>2. /\ UNCHANGED <<pc, batch, connections, idToFd, nextId, shutdown, fdSock, nextSock, sq,
                       ops, cq, heard, sockOf, wire>>
    BY DEF vars, tableVars
  <2>3. TypeOK /\ TableInv /\ Known /\ TableTypes
    BY <2>1, TableIs DEF Alive
  <2>4. TableTypes' /\ TableInv' /\ LiveFds' = LiveFds
    BY <2>2, <2>3, SameTable
  <2>5. \A fd \in LiveFds' : fd \in LiveFds /\ connections'[fd] = connections[fd]
    BY <2>2, <2>4
  <2>6. \A fd \in Fds : connections[fd].id = 0 /\ fdSock[fd] # 0
                          => connections'[fd].id = 0 /\ fdSock'[fd] # 0
    BY <2>2
  <2>7. /\ \A id : QuietFor(id) /\ \A op : Tokens(op, id)' = Tokens(op, id)
        /\ \A S : Pending(S)' = Pending(S)
        /\ Known'
    BY <2>2, <2>3, StillQuiet
  <2>8. /\ PcTypes' /\ (pc' # "process" => batch' = <<>>) /\ pc' # "exited"
        /\ batch' \in Seq(Completion) /\ cq' \in Seq(Completion) /\ sq' \in Seq(Entry)
        /\ ops' \in Seq(Operation) /\ shutdown' \in BOOLEAN
        /\ UNCHANGED <<wire, heard, nextSock, nextId>>
    BY <1>2, <2>1, <2>2, <2>3 DEF PcTypes, TypeOK, Alive
  <2> QED
    BY <2>1, <2>4, <2>5, <2>6, <2>7, <2>8, LoopStep
<1> QED
  BY <1>1, <1>2

\* Every step keeps the invariant.
LEMMA NextIInv == IInv /\ [Next]_vars => IInv'
<1> SUFFICES ASSUME IInv, [Next]_vars PROVE IInv'
  OBVIOUS
<1>1. CASE pc = "exited"
  BY <1>1, ExitedStep
<1>2. CASE UNCHANGED vars
  BY <1>2, StutterStep
<1>3. CASE Next /\ pc # "exited"
  <2>1. Alive
    BY <1>3, AliveIs
  <2>2. CASE CloseIdle
    BY <2>1, <2>2, CloseIdleStep
  <2>3. CASE EnterWait
    BY <2>1, <2>3, SubmitStep
  <2>4. CASE Reap
    BY <2>1, <2>4, ReapStep
  <2>5. CASE HandleAccept
    BY <2>1, <2>5, HandleAcceptStep
  <2>6. CASE HandleUnknown
    BY <2>1, <2>6, HandleUnknownStep
  <2>7. CASE HandleRecv
    BY <2>1, <2>7, HandleRecvStep
  <2>8. CASE HandleSend
    BY <2>1, <2>8, HandleSendStep
  <2>9. CASE EndLoop
    BY <2>1, <2>9, SubmitStep
  <2>10. CASE Exit
    BY <2>1, <2>10, ExitStep
  <2>11. CASE WorkerFails
    BY <2>1, <2>11, WorkerFailsStep
  <2>12. CASE Stop
    BY <1>3, <2>1, <2>12, StopStep
  <2>13. ASSUME NEW i \in DOMAIN ops, KernelAccept(i) PROVE IInv'
    BY <1>3, <2>1, <2>13, KernelAcceptStep
  <2>14. ASSUME NEW i \in DOMAIN ops, KernelAcceptError(i) PROVE IInv'
    BY <2>1, <2>14, KernelErrorStep
  <2>15. ASSUME NEW i \in DOMAIN ops, KernelRecvData(i) PROVE IInv'
    BY <2>1, <2>15, KernelRecvDataStep
  <2>16. ASSUME NEW i \in DOMAIN ops, KernelRecvEnd(i) PROVE IInv'
    BY <2>1, <2>16, KernelRecvEndStep
  <2>17. ASSUME NEW i \in DOMAIN ops, KernelSend(i) PROVE IInv'
    BY <2>1, <2>17, KernelSendStep
  <2>18. ASSUME NEW i \in DOMAIN ops, KernelSendError(i) PROVE IInv'
    BY <2>1, <2>18, KernelErrorStep
  <2> QED
    BY <1>3, <2>2, <2>3, <2>4, <2>5, <2>6, <2>7, <2>8, <2>9, <2>10, <2>11, <2>12, <2>13,
       <2>14, <2>15, <2>16, <2>17, <2>18 DEF Next, Worker, Kernel
<1> QED
  BY <1>1, <1>2, <1>3

\* The entries and operations that count as receives are the tokens.
LEMMA ReceivesAreTokens ==
  ASSUME TypeOK, NEW id
  PROVE  Receives(id) = Tokens("recv", id)
<1>1. /\ \A i \in DOMAIN sq : sq[i] \in Entry
      /\ \A i \in DOMAIN ops : ops[i] \in Operation
      /\ \A i \in DOMAIN batch : batch[i] \in Completion
      /\ \A i \in DOMAIN cq : cq[i] \in Completion
  BY DEF TypeOK
<1>2. {i \in DOMAIN sq : sq[i].op = "recv" /\ sq[i].id = id} = At(sq, Queued("recv", id))
  BY <1>1 DEF At, Queued
<1>3. {i \in DOMAIN ops : ops[i].op = "recv" /\ ops[i].id = id} = At(ops, Running("recv", id))
  BY <1>1 DEF At, Running
<1>4. {i \in DOMAIN batch : batch[i].op = "recv" /\ batch[i].id = id /\ ~batch[i].more}
        = At(batch, Ended("recv", id))
  BY <1>1 DEF At, Ended
<1>5. {i \in DOMAIN cq : cq[i].op = "recv" /\ cq[i].id = id /\ ~cq[i].more}
        = At(cq, Ended("recv", id))
  BY <1>1 DEF At, Ended
<1> QED
  BY <1>2, <1>3, <1>4, <1>5 DEF Receives, Tokens, Cnt

\* The invariant gives what the run checks.
LEMMA IInvWhole == IInv => ConnectionsWhole
<1> SUFFICES ASSUME IInv PROVE ConnectionsWhole
  OBVIOUS
<1>1. TypeOK /\ TableConsistent /\ AnswerInOrder
  BY DEF IInv, TableInv
<1>2. OneRecvArmed
  <2> SUFFICES ASSUME pc # "exited", NEW fd \in LiveFds
               PROVE  Receives(connections[fd].id) = 1
    BY DEF OneRecvArmed
  <2>1. Lines
    BY DEF IInv, QueueInv
  <2>2. Tokens("recv", connections[fd].id) = 1
    BY <2>1 DEF Lines, ConnOK
  <2> QED
    BY <1>1, <2>2, ReceivesAreTokens
<1> QED
  BY <1>1, <1>2 DEF ConnectionsWhole

\* Through reuse of descriptors, refusals, errors and closes every connection
\* keeps its descriptor, has one receive armed wherever that waits, and its
\* answer leaves once, in order and without gaps (handle_accept, handle_recv,
\* handle_send, close_connection).
THEOREM HttpConnectionsWhole == Spec => []ConnectionsWhole
<1>1. Init => IInv
  BY InitIInv
<1>2. IInv /\ [Next]_vars => IInv'
  BY NextIInv
<1>3. IInv => ConnectionsWhole
  BY IInvWhole
<1> QED
  BY <1>1, <1>2, <1>3, PTL DEF Spec

-----------------------------------------------------------------------------
(* Answers follow requests.                                                *)

\* A request has arrived on a connection; data has.
HasRequest(id) == \E j \in DOMAIN heard : heard[j].id = id /\ heard[j].data \in Requests
HasData(id, data) == \E j \in DOMAIN heard : heard[j].id = id /\ heard[j].data = data

\* What a request has led to, and the data that waits for its handler.
Follows(e) == e.op = "send" => HasRequest(e.id)
Brings(x) == x.op = "recv" /\ x.result > 0 => HasData(x.id, x.data)
\* Every byte that leaves belongs to a connection that was sent a request, and
\* so does every send on its way.
AnswersFollowRequests == \A k \in DOMAIN wire : HasRequest(wire[k].id)
QueuesFollow ==
  /\ \A e \in Elems(sq) \cup Elems(ops) \cup Elems(batch) \cup Elems(cq) : Follows(e)
  /\ \A x \in Elems(batch) \cup Elems(cq) : Brings(x)
RInv == AnswersFollowRequests /\ (pc # "exited" => QueuesFollow)

\* What was heard stays heard.
LEMMA HeardGrows ==
  ASSUME heard \in Seq(Heard),
         heard' = heard \/ \E h \in Heard : heard' = Append(heard, h)
  PROVE  /\ \A id : HasRequest(id) => HasRequest(id)'
         /\ \A id, data : HasData(id, data) => HasData(id, data)'
         /\ \A e : Follows(e) => Follows(e)'
         /\ \A x : Brings(x) => Brings(x)'
<1>1. \A j \in DOMAIN heard : j \in DOMAIN heard' /\ heard'[j] = heard[j]
  <2>1. CASE heard' = heard
    BY <2>1
  <2>2. ASSUME NEW h \in Heard, heard' = Append(heard, h)
        PROVE  \A j \in DOMAIN heard : j \in DOMAIN heard' /\ heard'[j] = heard[j]
    BY <2>2
  <2> QED
    BY <2>1, <2>2
<1>2. ASSUME NEW id, HasRequest(id) PROVE HasRequest(id)'
  <2>1. PICK j \in DOMAIN heard : heard[j].id = id /\ heard[j].data \in Requests
    BY <1>2 DEF HasRequest
  <2>2. j \in DOMAIN heard' /\ heard'[j].id = id /\ heard'[j].data \in Requests
    BY <1>1, <2>1
  <2>3. j \in DOMAIN (heard') /\ (heard')[j].data \in Requests'
    BY <2>2 DEF Requests
  <2> QED
    BY <2>2, <2>3 DEF HasRequest
<1>3. ASSUME NEW id, NEW data, HasData(id, data) PROVE HasData(id, data)'
  <2>1. PICK j \in DOMAIN heard : heard[j].id = id /\ heard[j].data = data
    BY <1>3 DEF HasData
  <2>2. j \in DOMAIN heard' /\ heard'[j].id = id /\ heard'[j].data = data
    BY <1>1, <2>1
  <2> QED
    BY <2>2 DEF HasData
<1>4. \A e : Follows(e) => Follows(e)'
  BY <1>2 DEF Follows
<1>5. \A x : Brings(x) => Brings(x)'
  BY <1>3 DEF Brings
<1> QED
  BY <1>2, <1>3, <1>4, <1>5

\* A step keeps the invariant if what it adds follows from what was heard.
LEMMA FollowStep ==
  ASSUME TypeOK, AnswersFollowRequests, QueuesFollow,
         heard' = heard \/ \E h \in Heard : heard' = Append(heard, h),
         \A k \in DOMAIN wire' : \/ k \in DOMAIN wire /\ wire'[k] = wire[k]
                                 \/ HasRequest(wire'[k].id),
         \A e \in Elems(sq') \cup Elems(ops') \cup Elems(batch') \cup Elems(cq') :
           e \in Elems(sq) \cup Elems(ops) \cup Elems(batch) \cup Elems(cq) \/ Follows(e)',
         \A x \in Elems(batch') \cup Elems(cq') :
           x \in Elems(batch) \cup Elems(cq) \/ Brings(x)'
  PROVE  RInv'
<1>1. heard \in Seq(Heard)
  BY DEF TypeOK, Heard
<1>2. /\ \A id : HasRequest(id) => HasRequest(id)'
      /\ \A e : Follows(e) => Follows(e)'
      /\ \A x : Brings(x) => Brings(x)'
  BY <1>1, HeardGrows
<1>3. AnswersFollowRequests'
  <2> SUFFICES ASSUME NEW k \in DOMAIN wire' PROVE HasRequest(wire[k].id)'
    BY DEF AnswersFollowRequests
  <2>1. PICK id : id = wire'[k].id
    OBVIOUS
  <2>2. HasRequest(id)
    BY <2>1 DEF AnswersFollowRequests
  <2> QED
    BY <1>2, <2>1, <2>2
<1>4. \A e \in Elems(sq') \cup Elems(ops') \cup Elems(batch') \cup Elems(cq') : Follows(e)'
  BY <1>2 DEF QueuesFollow
<1>5. \A x \in Elems(batch') \cup Elems(cq') : Brings(x)'
  BY <1>2 DEF QueuesFollow
<1>6. /\ \A e \in Elems(sq)' \cup Elems(ops)' \cup Elems(batch)' \cup Elems(cq)' : Follows(e)'
      /\ \A x \in Elems(batch)' \cup Elems(cq)' : Brings(x)'
  BY <1>4, <1>5 DEF Elems
<1> QED
  BY <1>3, <1>6 DEF RInv, QueuesFollow

\* Handlers only take from the batch and add to the submission queue.
LEMMA HandlerFollows ==
  ASSUME TypeOK, AnswersFollowRequests, QueuesFollow, batch # <<>>, batch' = Tail(batch),
         NEW new \in Seq(Entry), sq' = sq \o new, UNCHANGED <<ops, cq, wire, heard>>,
         \A e \in Elems(new) : Follows(e)
  PROVE  RInv'
<1>1. Elems(sq') = Elems(sq) \cup Elems(new) /\ Elems(batch') \subseteq Elems(batch)
  BY HandlerMoves
<1>2. heard \in Seq(Heard)
  BY DEF TypeOK, Heard
<1>3. \A e : Follows(e) => Follows(e)'
  BY <1>2, HeardGrows
<1>4. \A e \in Elems(sq') \cup Elems(ops') \cup Elems(batch') \cup Elems(cq') :
        e \in Elems(sq) \cup Elems(ops) \cup Elems(batch) \cup Elems(cq) \/ Follows(e)'
  BY <1>1, <1>3
<1>5. \A x \in Elems(batch') \cup Elems(cq') : x \in Elems(batch) \cup Elems(cq) \/ Brings(x)'
  BY <1>1
<1>6. \A k \in DOMAIN wire' : \/ k \in DOMAIN wire /\ wire'[k] = wire[k]
                              \/ HasRequest(wire'[k].id)
  OBVIOUS
<1> QED
  BY <1>4, <1>5, <1>6, FollowStep

\* The kernel posts what an operation waited for.
LEMMA KernelFollows ==
  ASSUME TypeOK, AnswersFollowRequests, QueuesFollow, NEW i \in DOMAIN ops, NEW x \in Completion,
         x.op = ops[i].op, x.id = ops[i].id,
         cq' = Append(cq, x), ops' = IF x.more THEN ops ELSE WithoutOp(i),
         sq' = sq, batch' = batch,
         heard' = heard \/ \E h \in Heard : heard' = Append(heard, h),
         \A k \in DOMAIN wire' : \/ k \in DOMAIN wire /\ wire'[k] = wire[k]
                                 \/ x.op = "send" /\ wire'[k].id = x.id,
         Brings(x)'
  PROVE  RInv'
<1>1. Elems(cq') = Elems(cq) \cup {x} /\ Elems(ops') \subseteq Elems(ops) /\ ops[i] \in Elems(ops)
  BY KernelMoves
<1>2. heard \in Seq(Heard)
  BY DEF TypeOK, Heard
<1>3. Follows(x)
  <2>1. Follows(ops[i])
    BY <1>1 DEF QueuesFollow
  <2> QED
    BY <2>1 DEF Follows
<1>4. Follows(x)'
  BY <1>2, <1>3, HeardGrows
<1>5. \A e \in Elems(sq') \cup Elems(ops') \cup Elems(batch') \cup Elems(cq') :
        e \in Elems(sq) \cup Elems(ops) \cup Elems(batch) \cup Elems(cq) \/ Follows(e)'
  <2> SUFFICES ASSUME NEW e \in Elems(sq') \cup Elems(ops') \cup Elems(batch') \cup Elems(cq'),
                      e \notin Elems(sq) \cup Elems(ops) \cup Elems(batch) \cup Elems(cq)
               PROVE  Follows(e)'
    OBVIOUS
  <2>1. e = x
    BY <1>1
  <2> QED
    BY <1>4, <2>1
<1>6. \A y \in Elems(batch') \cup Elems(cq') : y \in Elems(batch) \cup Elems(cq) \/ Brings(y)'
  <2> SUFFICES ASSUME NEW y \in Elems(batch') \cup Elems(cq'), y \notin Elems(batch) \cup Elems(cq)
               PROVE  Brings(y)'
    OBVIOUS
  <2>1. y = x
    BY <1>1
  <2> QED
    BY <2>1
<1>7. \A k \in DOMAIN wire' : \/ k \in DOMAIN wire /\ wire'[k] = wire[k]
                              \/ HasRequest(wire'[k].id)
  BY <1>3 DEF Follows
<1> QED
  BY <1>5, <1>6, <1>7, FollowStep

-----------------------------------------------------------------------------
(* Every step keeps that.                                                  *)

\* A step that only moves entries, or drops them.
LEMMA LoopFollows ==
  ASSUME Alive, AnswersFollowRequests, QueuesFollow,
         CloseIdle \/ EnterWait \/ Reap \/ EndLoop \/ Stop \/ UNCHANGED vars
  PROVE  RInv'
<1>1. TypeOK /\ UNCHANGED <<wire, heard>>
  BY DEF Alive, CloseIdle, EnterWait, Reap, EndLoop, Stop, kernelVars, vars
<1>2. \A k \in DOMAIN wire' : \/ k \in DOMAIN wire /\ wire'[k] = wire[k]
                              \/ HasRequest(wire'[k].id)
  BY <1>1
<1>3. CASE CloseIdle \/ Stop \/ UNCHANGED vars
  <2>1. UNCHANGED <<sq, ops, batch, cq>>
    BY <1>3 DEF CloseIdle, Stop, kernelVars, vars
  <2>2. \A e \in Elems(sq') \cup Elems(ops') \cup Elems(batch') \cup Elems(cq') :
          e \in Elems(sq) \cup Elems(ops) \cup Elems(batch) \cup Elems(cq) \/ Follows(e)'
    BY <2>1
  <2>3. \A x \in Elems(batch') \cup Elems(cq') : x \in Elems(batch) \cup Elems(cq) \/ Brings(x)'
    BY <2>1
  <2> QED
    BY <1>1, <1>2, <2>2, <2>3, FollowStep
<1>4. CASE EnterWait \/ EndLoop
  <2>1. Submit /\ UNCHANGED <<batch, cq>>
    BY <1>4 DEF EnterWait, EndLoop
  <2>2. /\ Elems(sq') = {}
        /\ \A o \in Elems(ops') : o \in Elems(ops) \/ \E e \in Elems(sq) : o = Bind(e)
    BY <1>1, <2>1, SubmitMoves
  <2>3. \A e \in Elems(sq') \cup Elems(ops') \cup Elems(batch') \cup Elems(cq') :
          e \in Elems(sq) \cup Elems(ops) \cup Elems(batch) \cup Elems(cq) \/ Follows(e)'
    <3> SUFFICES ASSUME NEW o \in Elems(ops'), o \notin Elems(ops) PROVE Follows(o)'
      BY <2>1, <2>2
    <3>1. PICK e \in Elems(sq) : o = Bind(e)
      BY <2>2
    <3>2. o.op = e.op /\ o.id = e.id
      BY <3>1 DEF Bind
    <3>3. Follows(e)
      BY DEF QueuesFollow
    <3> QED
      BY <1>1, <3>2, <3>3 DEF Follows, HasRequest
  <2>4. \A x \in Elems(batch') \cup Elems(cq') : x \in Elems(batch) \cup Elems(cq) \/ Brings(x)'
    BY <2>1
  <2> QED
    BY <1>1, <1>2, <2>3, <2>4, FollowStep
<1>5. CASE Reap
  <2>1. batch = <<>> /\ batch' = cq /\ cq' = <<>> /\ sq' = sq /\ ops' = ops
    BY <1>5 DEF Reap, Alive
  <2>2. Elems(batch') = Elems(cq) /\ Elems(cq') = {}
    BY <1>1, <2>1, ReapMoves
  <2>3. \A e \in Elems(sq') \cup Elems(ops') \cup Elems(batch') \cup Elems(cq') :
          e \in Elems(sq) \cup Elems(ops) \cup Elems(batch) \cup Elems(cq) \/ Follows(e)'
    BY <2>1, <2>2
  <2>4. \A x \in Elems(batch') \cup Elems(cq') : x \in Elems(batch) \cup Elems(cq) \/ Brings(x)'
    BY <2>2
  <2> QED
    BY <1>1, <1>2, <2>3, <2>4, FollowStep
<1> QED
  BY <1>3, <1>4, <1>5

\* A worker that returns takes its queues with it.
LEMMA EndFollows ==
  ASSUME AnswersFollowRequests, Exit \/ WorkerFails
  PROVE  RInv'
<1>1. pc' = "exited" /\ UNCHANGED <<wire, heard>>
  BY DEF Exit, WorkerFails
<1>2. AnswersFollowRequests'
  BY <1>1 DEF AnswersFollowRequests, HasRequest
<1> QED
  BY <1>1, <1>2 DEF RInv

\* handle_recv answers only data that is a request, on the connection it came on.
LEMMA RecvFollows ==
  ASSUME Alive, AnswersFollowRequests, QueuesFollow, HandleRecv
  PROVE  RInv'
<1>1. /\ batch # <<>> /\ Cqe.op = "recv" /\ Fd # NoFd /\ batch' = Tail(batch)
      /\ UNCHANGED <<ops, cq, heard, wire>>
  BY DEF HandleRecv
<1>2. TypeOK /\ sq \in Seq(Entry) /\ batch \in Seq(Completion)
  BY DEF Alive, TypeOK
<1>3. PICK own : own = Cqe.id
  OBVIOUS
<1>4. PICK c : c = connections[Fd]
  OBVIOUS
<1>5. /\ own \in Ids /\ Fd \in Fds /\ c \in Connection /\ c.id = own /\ Cqe \in Elems(batch)
  BY <1>1, <1>3, <1>4, ConnFacts
<1>6. PICK again : again = RecvAgain(Fd, own)
  OBVIOUS
<1>7. again \in Seq(Entry) /\ \A e \in Elems(again) : e.op = "recv"
  BY <1>1, <1>3, <1>6, RecvAgainFacts
<1>8. ASSUME NEW new \in Seq(Entry), sq' = sq \o new, \A e \in Elems(new) : Follows(e)
      PROVE  RInv'
  BY <1>1, <1>2, <1>8, HandlerFollows
<1>9. CASE sq' = Append(sq, RecvEntry(Fd, c.id))
  <2>1. PICK e : e = RecvEntry(Fd, own)
    OBVIOUS
  <2>2. e \in Entry /\ e.op = "recv"
    BY <1>5, <2>1, HttpAssumption DEF RecvEntry, Entry
  <2>3. <<e>> \in Seq(Entry) /\ Elems(<<e>>) = {e}
    BY <2>2, OneEntry
  <2>4. sq' = sq \o <<e>>
    BY <1>2, <1>5, <1>9, <2>1, <2>2
  <2>5. Follows(e)
    BY <2>2 DEF Follows
  <2> QED
    BY <1>8, <2>3, <2>4, <2>5
<1>10. CASE UNCHANGED sq
  <2>1. <<>> \in Seq(Entry) /\ Elems(<<>>) = {}
    BY NoEntry
  <2>2. sq' = sq \o <<>>
    BY <1>2, <1>10
  <2> QED
    BY <1>8, <2>1, <2>2
<1>11. CASE sq' = sq \o again
  <2>1. \A e \in Elems(again) : Follows(e)
    BY <1>7 DEF Follows
  <2> QED
    BY <1>7, <1>8, <1>11, <2>1
<1>12. CASE /\ Cqe.result > 0 /\ Cqe.data \in Requests
            /\ sq' = sq \o <<[SendEntry(Fd, c) EXCEPT !.pos = 0]>> \o again
  <2>1. PICK e : e = [SendEntry(Fd, c) EXCEPT !.pos = 0]
    OBVIOUS
  <2>2. e \in Entry /\ e.op = "send" /\ e.id = own
    <3>1. e = [op |-> "send", id |-> own, fd |-> Fd, pos |-> 0]
      BY <1>5, <2>1 DEF SendEntry
    <3> QED
      BY <1>5, <3>1, HttpAssumption DEF Entry
  <2>3. PICK first : first = <<e>>
    OBVIOUS
  <2>4. first \in Seq(Entry) /\ Elems(first) = {e}
    BY <2>2, <2>3, OneEntry
  <2>5. first \o again \in Seq(Entry) /\ Elems(first \o again) = Elems(first) \cup Elems(again)
    BY <1>7, <2>4, TwoEntries
  <2>6. sq' = sq \o (first \o again)
    <3>1. sq' = (sq \o first) \o again
      BY <1>12, <2>1, <2>3
    <3>2. (sq \o first) \o again = sq \o (first \o again)
      BY <1>2, <1>7, <2>4, ConcatAssociative
    <3> QED
      BY <3>1, <3>2
  <2>7. HasRequest(own)
    <3>1. HasData(Cqe.id, Cqe.data)
      BY <1>1, <1>5, <1>12 DEF QueuesFollow, Brings
    <3> QED
      BY <1>3, <1>12, <3>1 DEF HasData, HasRequest
  <2>8. \A o \in Elems(first \o again) : Follows(o)
    BY <1>7, <2>2, <2>4, <2>5, <2>7 DEF Follows
  <2> QED
    BY <1>8, <2>5, <2>6, <2>8
<1> QED
  BY <1>4, <1>5, <1>6, <1>9, <1>10, <1>11, <1>12 DEF HandleRecv, Answers

\* handle_send sends on for the connection whose send has ended.
LEMMA SendFollows ==
  ASSUME Alive, AnswersFollowRequests, QueuesFollow, HandleSend
  PROVE  RInv'
<1>1. /\ batch # <<>> /\ Cqe.op = "send" /\ Fd # NoFd /\ batch' = Tail(batch)
      /\ UNCHANGED <<ops, cq, heard, wire>>
  BY DEF HandleSend
<1>2. TypeOK /\ sq \in Seq(Entry) /\ batch \in Seq(Completion)
  BY DEF Alive, TypeOK
<1>3. PICK own : own = Cqe.id
  OBVIOUS
<1>4. PICK c : c = connections[Fd]
  OBVIOUS
<1>5. /\ own \in Ids /\ Fd \in Fds /\ c \in Connection /\ c.id = own /\ Cqe \in Elems(batch)
  BY <1>1, <1>3, <1>4, ConnFacts
<1>6. HasRequest(own)
  BY <1>1, <1>3, <1>5 DEF QueuesFollow, Follows
<1>7. CASE UNCHANGED sq
  <2>1. <<>> \in Seq(Entry) /\ Elems(<<>>) = {}
    BY NoEntry
  <2>2. sq' = sq \o <<>>
    BY <1>2, <1>7
  <2> QED
    BY <1>1, <1>2, <2>1, <2>2, HandlerFollows
<1>8. ASSUME NEW d, d.id = own, Retry(Fd, d) PROVE RInv'
  <2>1. PICK e : e = SendEntry(Fd, d)
    OBVIOUS
  <2>2. e.op = "send" /\ e.id = own /\ sq' = Append(sq, e)
    BY <1>8, <2>1 DEF SendEntry, Retry
  <2>3. e \in Entry
    <3>1. sq' \in Seq(Entry)
      BY HandleSendStep DEF IInv, TypeOK
    <3>2. Len(sq) \in Nat /\ Len(sq') = Len(sq) + 1 /\ sq'[Len(sq) + 1] = e
      BY <1>2, <2>2
    <3>3. Len(sq) + 1 \in 1..Len(sq')
      BY <3>2
    <3> QED
      BY <3>1, <3>2, <3>3
  <2>4. <<e>> \in Seq(Entry) /\ Elems(<<e>>) = {e}
    BY <2>3, OneEntry
  <2>5. sq' = sq \o <<e>>
    BY <1>2, <2>2, <2>3
  <2>6. Follows(e)
    BY <1>6, <2>2 DEF Follows
  <2> QED
    BY <1>1, <1>2, <2>4, <2>5, <2>6, HandlerFollows
<1>9. FallBack(c).id = own
  BY <1>5 DEF FallBack, Connection
<1>10. Sent(c, Cqe.result).id = own
  BY <1>5 DEF Sent, Connection
<1> QED
  BY <1>4, <1>7, <1>8, <1>9, <1>10 DEF HandleSend

\* The kernel's steps: data is heard and posted at once, a send goes out for the
\* connection it was pushed for.
LEMMA KernelStepFollows ==
  ASSUME Alive, AnswersFollowRequests, QueuesFollow, NEW i \in DOMAIN ops, TypeOK',
         \/ KernelAccept(i) \/ KernelAcceptError(i) \/ KernelRecvData(i)
         \/ KernelRecvEnd(i) \/ KernelSend(i) \/ KernelSendError(i)
  PROVE  RInv'
<1>1. TypeOK /\ UNCHANGED <<sq, batch>>
  BY DEF Alive, KernelAccept, KernelAcceptError, KernelRecvData, KernelRecvEnd, KernelSend,
         KernelSendError
<1>2. PICK op : op = ops[i].op
  OBVIOUS
<1>3. PICK id : id = ops[i].id
  OBVIOUS
<1>4. /\ op \in {"accept", "recv", "send"} /\ id \in Ids \cup {0}
      /\ (op # "accept" => id \in Ids) /\ (op = "accept" => id = 0)
  BY <1>2, <1>3, OpFacts DEF Operation
<1>5. ASSUME NEW fd, NEW result, NEW data, NEW more \in BOOLEAN,
             Posted(op, id, fd, result, data, more),
             ops' = IF more THEN ops ELSE WithoutOp(i),
             heard' = heard \/ \E h \in Heard : heard' = Append(heard, h),
             \A k \in DOMAIN wire' : \/ k \in DOMAIN wire /\ wire'[k] = wire[k]
                                     \/ op = "send" /\ wire'[k].id = id,
             op = "recv" /\ result > 0 => HasData(id, data)'
      PROVE  RInv'
  <2>1. PICK x : x = [op |-> op, id |-> id, fd |-> fd, result |-> result,
                      data |-> data, more |-> more]
    OBVIOUS
  <2>2. cq' = Append(cq, x)
    BY <1>5, <2>1 DEF Posted
  <2>3. x.op = op /\ x.id = id /\ x.result = result /\ x.data = data /\ x.more = more
    BY <2>1
  <2>4. x \in Completion
    <3>1. cq \in Seq(Completion) /\ cq' \in Seq(Completion)
      BY <1>1 DEF TypeOK, Completion
    <3>2. Len(cq) \in Nat /\ Len(cq') = Len(cq) + 1 /\ cq'[Len(cq) + 1] = x
      BY <2>2, <3>1
    <3>3. Len(cq) + 1 \in 1..Len(cq')
      BY <3>2
    <3> QED
      BY <3>1, <3>2, <3>3
  <2>5. Brings(x)'
    BY <1>5, <2>3 DEF Brings
  <2>6. /\ x.op = ops[i].op /\ x.id = ops[i].id
        /\ ops' = IF x.more THEN ops ELSE WithoutOp(i)
        /\ \A k \in DOMAIN wire' : \/ k \in DOMAIN wire /\ wire'[k] = wire[k]
                                   \/ x.op = "send" /\ wire'[k].id = x.id
    BY <1>2, <1>3, <1>5, <2>3
  <2> QED
    BY <1>1, <1>5, <2>2, <2>4, <2>5, <2>6, KernelFollows
<1>7. CASE KernelAccept(i)
  <2>1. op = "accept" /\ UNCHANGED <<heard, wire>>
    BY <1>2, <1>7 DEF KernelAccept
  <2>2. PICK fd \in Fds \ OpenFds, more \in BOOLEAN :
          /\ Posted(op, id, fd, 1, <<>>, more)
          /\ ops' = IF more THEN ops ELSE WithoutOp(i)
    BY <1>4, <1>7, <2>1 DEF KernelAccept
  <2> QED
    BY <1>5, <2>1, <2>2
<1>8. CASE KernelAcceptError(i)
  <2>1. /\ op = "accept" /\ UNCHANGED <<heard, wire>> /\ ops' = WithoutOp(i)
        /\ Posted(op, id, NoFd, -1, <<>>, FALSE)
    BY <1>2, <1>4, <1>8 DEF KernelAcceptError
  <2> QED
    BY <1>5, <2>1
<1>9. CASE KernelRecvData(i)
  <2>1. op = "recv" /\ UNCHANGED wire
    BY <1>2, <1>9 DEF KernelRecvData
  <2>2. PICK data \in Chunks, more \in BOOLEAN :
          /\ heard' = Append(heard, [id |-> id, data |-> data])
          /\ Posted(op, id, NoFd, 1, data, more)
          /\ ops' = IF more THEN ops ELSE WithoutOp(i)
    BY <1>3, <1>9, <2>1 DEF KernelRecvData
  <2>3. PICK h : h = [id |-> id, data |-> data]
    OBVIOUS
  <2>4. h \in Heard /\ h.id = id /\ h.data = data /\ heard' = Append(heard, h)
    BY <1>4, <2>1, <2>2, <2>3 DEF Heard
  <2>5. HasData(id, data)'
    <3>1. heard \in Seq(Heard) /\ heard' \in Seq(Heard)
      BY <1>1, <2>4 DEF TypeOK, Heard
    <3>2. Len(heard) \in Nat /\ Len(heard') = Len(heard) + 1 /\ heard'[Len(heard) + 1] = h
      BY <2>4, <3>1
    <3>3. Len(heard) + 1 \in DOMAIN heard'
      BY <3>1, <3>2
    <3> QED
      BY <2>4, <3>2, <3>3 DEF HasData
  <2> QED
    BY <1>5, <2>1, <2>2, <2>4, <2>5
<1>10. CASE KernelRecvEnd(i)
  <2>1. op = "recv" /\ UNCHANGED <<heard, wire>> /\ ops' = WithoutOp(i)
    BY <1>2, <1>10 DEF KernelRecvEnd
  <2>2. PICK result \in {0, ENoBufs} : Posted(op, id, NoFd, result, <<>>, FALSE)
    BY <1>3, <1>10, <2>1 DEF KernelRecvEnd
  <2>3. ~(result > 0)
    BY <2>2 DEF ENoBufs
  <2> QED
    BY <1>5, <2>1, <2>2, <2>3
<1>11. CASE KernelSend(i)
  <2>1. op = "send" /\ heard' = heard /\ ops' = WithoutOp(i)
    BY <1>2, <1>11 DEF KernelSend
  <2>2. PICK s : s = ops[i].sock
    OBVIOUS
  <2>3. PICK p : p = ops[i].pos
    OBVIOUS
  <2>4. PICK n \in 1..(ResponseLen - p) :
          /\ wire' = wire \o [k \in 1..n |-> [id |-> id, sock |-> s, pos |-> p + k]]
          /\ Posted(op, id, NoFd, n, <<>>, FALSE)
    BY <1>3, <1>11, <2>1, <2>2, <2>3 DEF KernelSend
  <2>5. \A k \in DOMAIN wire' : (k \in DOMAIN wire /\ wire'[k] = wire[k]) \/ wire'[k].id = id
    <3>1. PICK w : w = [k \in 1..n |-> [id |-> id, sock |-> s, pos |-> p + k]]
      OBVIOUS
    <3>2. ResponseLen - p \in Int /\ n \in Nat
      <4>1. ops[i] \in Operation
        BY OpFacts
      <4>2. p \in 0..ResponseLen
        BY <2>3, <4>1 DEF Operation
      <4> QED
        BY <4>2, HttpAssumption
    <3>3. PICK W : W = {w[k] : k \in 1..n} \cup {wire[k] : k \in DOMAIN wire}
      OBVIOUS
    <3>4. w \in Seq(W) /\ Len(w) = n
      BY <3>1, <3>2, <3>3
    <3>5. wire \in Seq(W)
      <4>1. wire \in Seq(Byte)
        BY <1>1, WireIs
      <4> QED
        BY <3>3, <4>1
    <3>6. wire' = wire \o w
      BY <2>4, <3>1
    <3> SUFFICES ASSUME NEW k \in DOMAIN wire', k \notin DOMAIN wire \/ wire'[k] # wire[k]
                 PROVE  wire'[k].id = id
      OBVIOUS
    <3>7. k \in 1..(Len(wire) + Len(w)) /\ ~(k <= Len(wire)) /\ Len(wire) \in Nat
      BY <3>4, <3>5, <3>6
    <3>8. k - Len(wire) \in 1..n /\ wire'[k] = w[k - Len(wire)]
      BY <3>2, <3>4, <3>5, <3>6, <3>7
    <3> QED
      BY <3>1, <3>8
  <2> QED
    BY <1>5, <2>1, <2>4, <2>5
<1>12. CASE KernelSendError(i)
  <2>1. /\ op = "send" /\ UNCHANGED <<heard, wire>> /\ ops' = WithoutOp(i)
        /\ Posted(op, id, NoFd, -1, <<>>, FALSE)
    BY <1>2, <1>3, <1>12 DEF KernelSendError
  <2> QED
    BY <1>5, <2>1
<1> QED
  BY <1>7, <1>8, <1>9, <1>10, <1>11, <1>12

\* Accepting, and what comes for a connection that has gone, sends nothing.
LEMMA OtherFollows ==
  ASSUME Alive, AnswersFollowRequests, QueuesFollow, HandleAccept \/ HandleUnknown
  PROVE  RInv'
<1>1. batch # <<>> /\ batch' = Tail(batch) /\ UNCHANGED <<ops, cq, heard, wire>>
  BY DEF HandleAccept, HandleUnknown, kernelVars
<1>2. TypeOK /\ sq \in Seq(Entry)
  BY DEF Alive, TypeOK
<1>3. ASSUME NEW new \in Seq(Entry), sq' = sq \o new, \A e \in Elems(new) : e.op # "send"
      PROVE  RInv'
  <2>1. \A e \in Elems(new) : Follows(e)
    BY <1>3 DEF Follows
  <2> QED
    BY <1>1, <1>2, <1>3, <2>1, HandlerFollows
<1>4. PICK again : again = Again
  OBVIOUS
<1>5. again \in Seq(Entry) /\ \A e \in Elems(again) : e.op = "accept"
  BY <1>4, AgainFacts
<1>6. CASE HandleUnknown
  <2>1. <<>> \in Seq(Entry) /\ Elems(<<>>) = {}
    BY NoEntry
  <2>2. sq' = sq \o <<>>
    BY <1>2, <1>6 DEF HandleUnknown
  <2> QED
    BY <1>3, <2>1, <2>2
<1>7. CASE HandleAccept /\ sq' = sq \o again
  BY <1>3, <1>5, <1>7
<1>8. CASE /\ HandleAccept /\ Cqe.result >= 0
           /\ sq' = sq \o <<RecvEntry(Cqe.fd, nextId)>> \o again
  <2>1. PICK e : e = RecvEntry(Cqe.fd, nextId)
    OBVIOUS
  <2>2. e \in Entry /\ e.op = "recv"
    <3>1. Cqe.fd \in Fds /\ nextId <= MaxSockets
      BY <1>1, <1>8, AcceptFacts DEF HandleAccept
    <3>2. nextId \in Ids
      BY <1>2, <3>1, HttpAssumption DEF TypeOK, Ids
    <3> QED
      BY <2>1, <3>1, <3>2, HttpAssumption DEF RecvEntry, Entry
  <2>3. PICK first : first = <<e>>
    OBVIOUS
  <2>4. first \in Seq(Entry) /\ Elems(first) = {e}
    BY <2>2, <2>3, OneEntry
  <2>5. first \o again \in Seq(Entry) /\ Elems(first \o again) = Elems(first) \cup Elems(again)
    BY <1>5, <2>4, TwoEntries
  <2>6. sq' = sq \o (first \o again)
    <3>1. sq' = (sq \o first) \o again
      BY <1>8, <2>1, <2>3
    <3>2. (sq \o first) \o again = sq \o (first \o again)
      BY <1>2, <1>5, <2>4, ConcatAssociative
    <3> QED
      BY <3>1, <3>2
  <2>7. \A o \in Elems(first \o again) : o.op # "send"
    BY <1>5, <2>2, <2>4, <2>5
  <2> QED
    BY <1>3, <2>5, <2>6, <2>7
<1>9. HandleAccept => \/ sq' = sq \o again
                      \/ /\ Cqe.result >= 0
                         /\ sq' = sq \o <<RecvEntry(Cqe.fd, nextId)>> \o again
  BY <1>4 DEF HandleAccept, Again
<1> QED
  BY <1>6, <1>7, <1>8, <1>9

\* Nothing is sent before anything is heard.
LEMMA InitRInv == Init => RInv
<1> SUFFICES ASSUME Init PROVE RInv
  OBVIOUS
<1>1. PICK e : e = AcceptEntry
  OBVIOUS
<1>2. sq = <<e>> /\ ops = <<>> /\ batch = <<>> /\ cq = <<>> /\ wire = <<>>
  BY <1>1 DEF Init
<1>3. Elems(<<e>>) = {e} /\ DOMAIN <<>> = {}
  <2>1. e \in {e}
    OBVIOUS
  <2>2. Elems(<<e>>) = {e}
    BY <2>1, OneEntry
  <2> QED
    BY <2>2
<1>4. Elems(sq) = {e} /\ Elems(ops) = {} /\ Elems(batch) = {} /\ Elems(cq) = {}
  BY <1>2, <1>3 DEF Elems
<1>5. e.op # "send"
  BY <1>1 DEF AcceptEntry
<1> QED
  BY <1>2, <1>3, <1>4, <1>5 DEF RInv, AnswersFollowRequests, QueuesFollow, Follows

\* Every step keeps the invariant.
LEMMA NextRInv == IInv /\ RInv /\ [Next]_vars => RInv'
<1> SUFFICES ASSUME IInv, RInv, [Next]_vars PROVE RInv'
  OBVIOUS
<1>1. IInv' /\ TypeOK'
  BY NextIInv DEF IInv
<1>2. AnswersFollowRequests
  BY DEF RInv
<1>3. CASE pc = "exited"
  <2>1. ops = <<>> /\ batch = <<>>
    BY <1>3 DEF IInv
  <2>2. DOMAIN ops = {}
    BY <2>1
  <2>3. Stop \/ UNCHANGED vars
    BY <1>3, <2>1, <2>2 DEF Next, Kernel, Worker, WorkerFails, CloseIdle, EnterWait, Reap,
      HandleAccept, HandleUnknown, HandleRecv, HandleSend, EndLoop, Exit
  <2>4. UNCHANGED <<pc, heard, wire>>
    BY <2>3 DEF Stop, kernelVars, vars
  <2>5. AnswersFollowRequests'
    BY <1>2, <2>4 DEF AnswersFollowRequests, HasRequest
  <2> QED
    BY <1>3, <2>4, <2>5 DEF RInv
<1>4. CASE pc # "exited"
  <2>1. Alive /\ QueuesFollow
    BY <1>4, AliveIs DEF RInv
  <2>2. CASE CloseIdle \/ EnterWait \/ Reap \/ EndLoop \/ Stop \/ UNCHANGED vars
    BY <1>2, <2>1, <2>2, LoopFollows
  <2>3. CASE HandleAccept \/ HandleUnknown
    BY <1>2, <2>1, <2>3, OtherFollows
  <2>4. CASE HandleRecv
    BY <1>2, <2>1, <2>4, RecvFollows
  <2>5. CASE HandleSend
    BY <1>2, <2>1, <2>5, SendFollows
  <2>6. CASE Exit \/ WorkerFails
    BY <1>2, <2>6, EndFollows
  <2>7. CASE Kernel
    <3>1. PICK i \in DOMAIN ops :
            \/ KernelAccept(i) \/ KernelAcceptError(i) \/ KernelRecvData(i)
            \/ KernelRecvEnd(i) \/ KernelSend(i) \/ KernelSendError(i)
      BY <2>7 DEF Kernel
    <3> QED
      BY <1>1, <1>2, <2>1, <3>1, KernelStepFollows
  <2> QED
    BY <2>2, <2>3, <2>4, <2>5, <2>6, <2>7 DEF Next, Worker
<1> QED
  BY <1>3, <1>4

-----------------------------------------------------------------------------
(* Only requests are answered.                                             *)

\* What the worker took for a request is one.
LEMMA RequestsAreRequests ==
  ASSUME NEW data \in Requests
  PROVE  IsRequest(data)
<1>1. data \in Seq(STRING) /\ ShouldRespond(Observe(NewProbe, data))
  BY ChunksAssumption DEF Requests
<1> QED
  BY <1>1, ProbeDecides

\* Every byte of an answer leaves on a connection on which a request has
\* arrived: the data of one receive that begins with GET or POST or holds the
\* end of a header, however the probe read it (handle_recv, HttpRequestProbe).
THEOREM HttpOnlyRequestsAnswered == Spec => []OnlyRequestsAnswered
<1>1. Init => IInv /\ RInv
  BY InitIInv, InitRInv
<1>2. IInv /\ RInv /\ [Next]_vars => IInv' /\ RInv'
  BY NextIInv, NextRInv
<1>3. RInv => OnlyRequestsAnswered
  <2> SUFFICES ASSUME RInv PROVE OnlyRequestsAnswered
    OBVIOUS
  <2>1. ASSUME NEW k \in DOMAIN wire
        PROVE  \E j \in DOMAIN heard : heard[j].id = wire[k].id /\ IsRequest(heard[j].data)
    <3>1. PICK j \in DOMAIN heard : heard[j].id = wire[k].id /\ heard[j].data \in Requests
      BY DEF RInv, AnswersFollowRequests, HasRequest
    <3> QED
      BY <3>1, RequestsAreRequests
  <2> QED
    BY <2>1, ProbeExact DEF OnlyRequestsAnswered
<1> QED
  BY <1>1, <1>2, <1>3, PTL DEF Spec
=============================================================================
