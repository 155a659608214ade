---------------------------- MODULE MCIrcPeople ----------------------------
(***************************************************************************)
(* IrcPeople for TLC: which free address malloc() returns does not matter. *)
(***************************************************************************)
EXTENDS IrcPeople, TLC

Addresses == Permutations(People)

=============================================================================
