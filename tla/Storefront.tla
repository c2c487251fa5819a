------------------------------ MODULE Storefront ------------------------------
(***************************************************************************)
(* What the public meets of the administrators' work: the applications and *)
(* their pages (Apps), links and posts (Marketing), prices and the menu    *)
(* (Pricing).  They share no state, so that their conjunction is the       *)
(* composition.                                                            *)
(***************************************************************************)
EXTENDS Apps, Marketing, Pricing

StorefrontSpec == AppsSpec /\ MarketingSpec /\ PricingSpec

\* Identifiers are of one application each, clicks are counted, addresses and
\* dates of what is published are right, every version of a price is in the
\* audit, and only amounts that make sense of one are offered (Apps, Marketing,
\* Pricing).
ShownAsSaved == ClaimsDisjoint /\ MarketingSafe /\ PricingSafe

\* And the page of an application is taken down only by an editor who had read
\* the page in force (Apps).
StorefrontSafe == []ShownAsSaved /\ PageTakenByReader
===============================================================================
