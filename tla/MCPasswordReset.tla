--------------------------- MODULE MCPasswordReset ---------------------------
(* Small instances of PasswordReset for TLC. *)
EXTENDS PasswordReset, TLC

Symmetry == Permutations(User) \cup Permutations(Req) \cup
            Permutations(Otp) \cup Permutations(Token)
=============================================================================
