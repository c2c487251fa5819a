-------------------------------- MODULE Console --------------------------------
(***************************************************************************)
(* What the operators work with: reviews, the administrators' desk, the    *)
(* catalogs of models, what is stored and kept, what the public is shown,  *)
(* and the lists and reports.  These components share no state, so that    *)
(* their conjunction is the composition.                                   *)
(***************************************************************************)
EXTENDS Reviews, Desk, Catalog, Stores, Storefront, Reports

ConsoleSpec == ReviewsSpec /\ DeskSpec /\ CatalogSpec /\ StoresSpec /\ StorefrontSpec /\ ReportsSpec

\* The state of every component has its shape.
ConsoleTypeOK ==
    /\ ReviewsTypeOK /\ DeskTypeOK /\ CatalogTypeOK
    /\ StreamsTypeOK /\ RetentionTypeOK /\ JobIndexTypeOK
    /\ AppsTypeOK /\ MarketingTypeOK /\ PricingTypeOK
    /\ ImagesTypeOK /\ AnalyticsTypeOK
================================================================================
