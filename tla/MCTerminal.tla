----------------------------- MODULE MCTerminal -----------------------------
(* Small instances of Terminal for TLC.                                    *)
EXTENDS Terminal, TLC

CONSTANTS w1, w2, d1, r1

Symmetry == Permutations({w1, w2})
=============================================================================
