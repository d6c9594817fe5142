-------------------------- MODULE MCTransferTracker --------------------------
(***************************************************************************)
(* TransferTracker for TLC: three transfers, two of them on endpoints that *)
(* share a segment.                                                        *)
(***************************************************************************)
EXTENDS TransferTracker

CONSTANTS u1, u2, u3

MCSegmentOf == [u \in {u1, u2, u3} |-> IF u = u3 THEN 1 ELSE 0]
=============================================================================
