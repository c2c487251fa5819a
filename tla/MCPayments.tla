----------------------------- MODULE MCPayments -----------------------------
(* Small instances of Payments for TLC.                                    *)
EXTENDS Payments, TLC

CONSTANTS u1, u2, r1, r2, t1, t2, c1, c2

Symmetry == Permutations(Users) \cup Permutations(Refs)
               \cup Permutations(PayCoresTxns) \cup Permutations(Calls)
=============================================================================
