----------------------------- MODULE MCSession -----------------------------
(* Small instances of Session for TLC. *)
EXTENDS Session, TLC

Symmetry == Permutations(Tabs) \cup Permutations(Threads) \cup Permutations(Phones)
            \cup Permutations(Tokens)
=============================================================================
