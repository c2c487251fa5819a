------------------------------- MODULE Reports --------------------------------
(***************************************************************************)
(* What administrators read: the lists and counts of the old site's images *)
(* (Images) and the analytics (Analytics).  They share no state, so that   *)
(* their conjunction is the composition.                                   *)
(***************************************************************************)
EXTENDS Images, Analytics

ReportsSpec == ImagesSpec /\ AnalyticsSpec

\* A page of images tells no image wrongly, and no hidden one is public (Images);
\* tokens are refreshed for a reason, and an answer's parts agree on their days
\* (Analytics).
ReportsSafe == ImagesSafe /\ AnalyticsSafe
===============================================================================
