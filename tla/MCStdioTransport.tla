--------------------------- MODULE MCStdioTransport ---------------------------
(* Instances of StdioTransport for TLC.                                    *)
EXTENDS StdioTransport, TLC

CallSymmetry == Permutations(Calls)
=============================================================================
