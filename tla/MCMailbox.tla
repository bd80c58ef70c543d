------------------------------ MODULE MCMailbox ------------------------------
(***************************************************************************)
(* Two mails and two of the lanes, which differ in nothing but their       *)
(* names; a poller and one command of a person.                            *)
(***************************************************************************)
EXTENDS Mailbox, TLC

CONSTANTS m1, m2, l1, l2, p1, o1

Interchangeable == Permutations(Mails) \cup Permutations(Lanes)
=============================================================================
