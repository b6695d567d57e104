----------------------------- MODULE HttpProbe -----------------------------
(***************************************************************************)
(* HttpRequestProbe (src/src/uring.rs): does the data of one receive look  *)
(* like an HTTP request?  The probe reads it byte by byte, over as many    *)
(* buffers as a bundle has, and keeps the first five bytes and how much of *)
(* the end of a header it has just seen.  A new probe is made for every    *)
(* receive.                                                                *)
(***************************************************************************)
EXTENDS Integers, Sequences, SequencesExt

CR == "\r"
LF == "\n"
HeaderEnd == <<CR, LF, CR, LF>>

NewProbe == [prefix |-> <<>>, headerEndMatch |-> 0, sawHeaderEnd |-> FALSE]

\* Mutant: a mismatch forgets the byte that mismatched.
MatchFromNothing(match, byte) == IF byte = HeaderEnd[match + 1] THEN match + 1 ELSE 0
\* The part of the header end that has been seen once "byte" is.
Match(match, byte) ==
  CASE byte = HeaderEnd[match + 1] -> match + 1
    [] OTHER -> IF byte = HeaderEnd[1] THEN 1 ELSE 0

\* One byte of observe; after a whole header end the match starts again.
ObserveByte(probe, byte) ==
  LET match == Match(probe.headerEndMatch, byte)
  IN  [prefix |-> IF Len(probe.prefix) < 5 THEN Append(probe.prefix, byte)
                                           ELSE probe.prefix,
       headerEndMatch |-> match % 4,
       sawHeaderEnd |-> probe.sawHeaderEnd \/ match = 4]

Observe(probe, chunk) == FoldLeft(ObserveByte, probe, chunk)

ShouldRespond(probe) ==
  \/ probe.sawHeaderEnd
  \/ IsPrefix(<<"G", "E", "T", " ">>, probe.prefix)
  \/ IsPrefix(<<"P", "O", "S", "T", " ">>, probe.prefix)

-----------------------------------------------------------------------------
(***************************************************************************)
(* What the probe is for: data that begins with one of two methods or      *)
(* holds the end of a header anywhere.                                     *)
(***************************************************************************)
IsRequest(data) ==
  \/ IsPrefix(<<"G", "E", "T", " ">>, data)
  \/ IsPrefix(<<"P", "O", "S", "T", " ">>, data)
  \/ \E i \in 0..(Len(data) - 4) : SubSeq(data, i + 1, i + 4) = HeaderEnd

\* Data in which every header end with any beginning and ending is found, and
\* data in which every method is.
ProbeInputs == BoundedSeq({CR, LF, "x"}, 7)
               \cup BoundedSeq({"G", "E", "P", "O", "S", "T", " "}, 5)

\* The probe decides as the definition does, wherever the bundle is cut.
ProbeIsExact ==
  \A data \in ProbeInputs : \A cut \in 0..Len(data) :
    ShouldRespond(Observe(Observe(NewProbe, SubSeq(data, 1, cut)),
                          SubSeq(data, cut + 1, Len(data))))
      <=> IsRequest(data)
=============================================================================
