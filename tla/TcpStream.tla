----------------------------- MODULE TcpStream -----------------------------
(***************************************************************************)
(* What the TCP worker promises about the connections it serves, without   *)
(* its queues, buffers, completions and retries.  A connection id lives    *)
(* once.  The application hands payloads to it; their bytes, numbered in   *)
(* the order they were handed over, leave in that order.  While the        *)
(* connection is open none is left out; once it is closing some may be.    *)
(* Nothing leaves after the close.                                         *)
(***************************************************************************)
EXTENDS Integers, Sequences

CONSTANT Ids

VARIABLES
  phase,     \* "unborn", "open", "closing" or "closed"
  accepted,  \* number of bytes the application handed over
  sent       \* the bytes that have left, in order

streamVars == <<phase, accepted, sent>>

StreamInit ==
  /\ phase = [id \in Ids |-> "unborn"]
  /\ accepted = [id \in Ids |-> 0]
  /\ sent = [id \in Ids |-> <<>>]

Open(id) ==
  /\ phase[id] = "unborn"
  /\ phase' = [phase EXCEPT ![id] = "open"]
  /\ UNCHANGED <<accepted, sent>>

Accept(id) ==
  /\ phase[id] \in {"open", "closing"}
  /\ accepted'[id] > accepted[id]
  /\ accepted' = [accepted EXCEPT ![id] = accepted'[id]]
  /\ UNCHANGED <<phase, sent>>

LastOf(s) == IF s = <<>> THEN 0 ELSE s[Len(s)]

\* Some consecutive bytes leave; an open connection continues where it was.
Transmit(id) ==
  /\ phase[id] \in {"open", "closing"}
  /\ \E first \in 1..accepted[id] : \E last \in first..accepted[id] :
       /\ IF phase[id] = "open" THEN first = Len(sent[id]) + 1
                                ELSE first > LastOf(sent[id])
       /\ sent' = [sent EXCEPT ![id] = @ \o [k \in 1..(last - first + 1) |-> first + k - 1]]
  /\ UNCHANGED <<phase, accepted>>

BeginClose(id) ==
  /\ phase[id] = "open"
  /\ phase' = [phase EXCEPT ![id] = "closing"]
  /\ UNCHANGED <<accepted, sent>>

\* One connection ends, or several when the worker gives up.
Close ==
  /\ \E ending \in (SUBSET {id \in Ids : phase[id] \in {"open", "closing"}}) \ {{}} :
       phase' = [id \in Ids |-> IF id \in ending THEN "closed" ELSE phase[id]]
  /\ UNCHANGED <<accepted, sent>>

StreamNext ==
  \/ \E id \in Ids : Open(id) \/ Accept(id) \/ Transmit(id) \/ BeginClose(id)
  \/ Close

StreamSpec == StreamInit /\ [][StreamNext]_streamVars
=============================================================================
