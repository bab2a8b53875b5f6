---------------------------- MODULE MCImapPush ----------------------------
(* Small instances of ImapPush for TLC. *)
EXTENDS ImapPush

OwnNames == [m \in Mail |-> m]

AllWorlds == SUBSET Faults
Quiet == {{}}
Unilateral == {{"unilateral"}}
=============================================================================
