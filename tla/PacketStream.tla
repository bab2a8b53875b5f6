---------------------------- MODULE PacketStream ----------------------------
(***************************************************************************)
(* What one direction of the tunnel promises: the packets one end queues   *)
(* come out at the other end once each and in order, as long as the stream *)
(* is intact.  Attachment files are named by the second; the stream breaks *)
(* when a file is overwritten before its previous content has been read,   *)
(* and then nothing more is promised.                                      *)
(***************************************************************************)
EXTENDS Naturals, Sequences, SequencesExt

CONSTANT Packet

VARIABLES sent, got, intact

vars == <<sent, got, intact>>

Init == sent = <<>> /\ got = <<>> /\ intact = TRUE

Send ==
  /\ \E p \in Packet : sent' = Append(sent, p)
  /\ UNCHANGED <<got, intact>>

\* A whole attachment is taken in at once.
Deliver ==
  /\ intact
  /\ \E k \in (Len(got) + 1) .. Len(sent) : got' = SubSeq(sent, 1, k)
  /\ intact'
  /\ UNCHANGED sent

Break ==
  /\ intact' = FALSE
  /\ UNCHANGED <<sent, got>>

\* What a broken stream delivers is only added to what came before.
DeliverBroken ==
  /\ ~intact
  /\ IsPrefix(got, got')
  /\ UNCHANGED <<sent, intact>>

Next == Send \/ Deliver \/ Break \/ DeliverBroken

Spec == Init /\ [][Next]_vars
=============================================================================
