---------------------------- MODULE MCTunnelData ----------------------------
(* Small instances of TunnelData for TLC. *)
EXTENDS TunnelData

P(tag, bytes) == [type |-> 0, tag |-> tag, seq |-> 0, bytes |-> bytes]
Fini(tag) == [type |-> 1, tag |-> tag, seq |-> 0, bytes |-> <<>>]

\* A packet of two bytes, alone and before a packet without a body; another
\* order, so that a file written again does not line up with the first one.
Sets == { <<P(1, <<11, 12>>)>>,
          <<P(1, <<11, 12>>), Fini(2)>>,
          <<Fini(3), P(2, <<21>>)>> }
=============================================================================
