--------------------------- MODULE MCAdminAccess ---------------------------
(* AdminAccess for TLC: the sets are interchangeable in it.                *)
EXTENDS AdminAccess, TLC

Symmetry ==
    Permutations(Users) \cup Permutations(Passwords) \cup Permutations(Clients)
        \cup Permutations(Tokens) \cup Permutations(Requests)
=============================================================================
