----------------------------- MODULE MCMailPath -----------------------------
(* Small instances of MailPath for TLC. *)
EXTENDS MailPath

AllFaults == FaultKinds

BothRelays == {"up", "none"}
=============================================================================
