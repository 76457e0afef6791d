------------------------------ MODULE MCFinance ------------------------------
(* A small instance of Finance for TLC: one month and year, two spellings, two lines. *)
EXTENDS Finance, TLC

CONSTANTS i1, i2, i3, l1, l2, u1, u2

August2026 == [month |-> [name |-> "August", form |-> "Title"], year |-> 2026]
Years == {2026}
Ids == {i1, i2, i3}
Lines == {l1, l2}
Users == {u1, u2}
Symmetry == Permutations(Ids) \cup Permutations(Users) \cup Permutations(Caller)
=============================================================================
