----------------------------- MODULE MCPKITrust -----------------------------
(* Instances of the control plane's trust for TLC.                         *)
EXTENDS PKITrust

\* Bytes of two bits; a network of sixteen addresses in the last two of them.
FourBits == [ip |-> <<2, 1, 0, 0>>, size |-> 16]
=============================================================================
