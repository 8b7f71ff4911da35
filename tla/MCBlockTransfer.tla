-------------------------- MODULE MCBlockTransfer --------------------------
(* A small instance of BlockTransfer for TLC. *)
EXTENDS BlockTransfer

OneOneTwoFour == <<1, 1, 2, 4>>

\* Bound of block_ids: datagrams under way at a time.
FewUnderWay == Len(requests) + Len(responses) <= IF overtaken THEN 1 ELSE 2
=============================================================================
