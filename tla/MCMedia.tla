------------------------------- MODULE MCMedia -------------------------------
(* A small instance of Media for TLC: a user who has an avatar, two more uploads. *)
EXTENDS Media, TLC

CONSTANTS p1, p2, p3

Paths == {p1, p2, p3}
OneAvatar == [u \in User |-> p1]
Symmetry == Permutations(Caller)
=============================================================================
