------------------------------ MODULE MCOutbox ------------------------------
(* Small instances of Outbox for TLC.                                      *)
EXTENDS Outbox, TLC

CONSTANTS w1, w2, o1, o2, k1

Symmetry == Permutations({w1, w2}) \cup Permutations({o1, o2})

\* A result to copy, or an event without a budget of its own.
OneOfEither == <<"materialize", "plain">>

\* Only one of the two events is ever enqueued: no step reads another event's
\* document, but for the order of claims.
Alone == \A e, f \in Events : events[e].status # "absent" /\ events[f].status # "absent" => e = f

MCSpec == Init /\ [][Next /\ Alone']_vars
=============================================================================
