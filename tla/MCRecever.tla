----------------------------- MODULE MCRecever -----------------------------
(* Small instances of Recever for TLC. *)
EXTENDS Recever

CONSTANTS c1, c2, f1, f2, p1, p2, b, n

TwoConns == {c1, c2}
OneFd == {f1}
TwoFds == {f1, f2}
TwoPtrs == {p1, p2}
OneBody == {b}
OneName == {n}
TwoTags == {0, 1}
ThreeTags == {0, 1, 2}

Data(t) == DataPacket(t, b)
Fini(t) == EndPacket(t, "eof")

\* Single packets, and a mail that ends one connection and feeds another; on
\* the server one that ends a connection and reopens it, and one whose second
\* packet may find no descriptor.
ClientMails == { <<Data(0)>>, <<Fini(0)>>, <<Fini(1)>>, <<Fini(0), Data(1)>> }
ServerMails == { <<Fini(0), Data(0)>>, <<Data(1), Data(2)>> }

Symmetry == Permutations(TwoFds) \cup Permutations(TwoPtrs) \cup Permutations(TwoConns)
=============================================================================
