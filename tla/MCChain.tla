------------------------------ MODULE MCChain ------------------------------
(* A small instance of Chain for TLC. *)
EXTENDS Chain

Attempts == <<2, 2, 2>>

\* Bound of chain: datagrams under way at a time, and requests among them once
\* one has been overtaken.
FewUnderWay == /\ Len(requests) + Len(responses) <= 3
               /\ overtaken => Len(requests) <= 2
=============================================================================
