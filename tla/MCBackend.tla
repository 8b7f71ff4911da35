----------------------------- MODULE MCBackend -----------------------------
(* A small instance of Backend for TLC. *)
EXTENDS Backend

\* Two lines for one endpoint, one with the port left out, and an empty line.
Lines == <<<<"h">>, <<"h", "5683">>, <<>>>>
=============================================================================
