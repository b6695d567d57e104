--------------------------- MODULE MCHttpWorker ---------------------------
(* The HTTP worker on small instances. *)
EXTENDS HttpWorker
\* The beginning of a request, and half of the end of a header.
MCChunks == {<<"G", "E", "T", " ">>, <<CR, LF>>}
=============================================================================
