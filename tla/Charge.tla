------------------------------- MODULE Charge -------------------------------
(***************************************************************************)
(* What the generation pipeline promises about one creation: the diamonds  *)
(* reserved for it and the status its owner sees leave their initial       *)
(* values together, in one step, once.  Nothing is kept without a result,  *)
(* nothing returned with one, and no decision is ever taken back.          *)
(*                                                                         *)
(* Submission and Terminal, which can end a creation, implement this one.  *)
(***************************************************************************)
VARIABLES
    money,  \* "held", then "kept", "returned" or "forfeited"
    story   \* "open", then "delivered", "failed" or "confiscated"

Init == money = "held" /\ story = "open"

Decide(outcome, ending) ==
    /\ money = "held" /\ money' = outcome
    /\ story = "open" /\ story' = ending

Deliver == Decide("kept", "delivered")

Refund == Decide("returned", "failed")

Forfeit == Decide("forfeited", "confiscated")

Next == Deliver \/ Refund \/ Forfeit

Spec == Init /\ [][Next]_<<money, story>>
=============================================================================
