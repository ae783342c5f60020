------------------------------- MODULE MCTCP -------------------------------
(***************************************************************************)
(* TCP for TLC.  Sequence numbers start two below the wrap.                *)
(***************************************************************************)
EXTENDS TCP

MCGet == [len |-> 2, sig |-> 2, get |-> TRUE]
MCText == [len |-> 1, sig |-> 1, get |-> FALSE]
MCRequests == {MCGet, MCText}

\* A payload that ends in a zero byte.
MCPadded == [len |-> 2, sig |-> 1, get |-> FALSE]
MCRequestsPadded == {MCText, MCPadded}

\* No payload is all zeros, and there are more sequence numbers than bytes.
ASSUME Numbers == NumbersSuffice
=============================================================================
