----------------------------- MODULE MCMailbox -----------------------------
(***************************************************************************)
(* Small instances of Mailbox for TLC.                                      *)
(***************************************************************************)
EXTENDS Mailbox, TLC

CONSTANTS s, t, u

\* The senders are interchangeable.
Symmetry == Permutations(Sender)
=============================================================================
