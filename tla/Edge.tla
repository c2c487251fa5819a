--------------------------------- MODULE Edge ---------------------------------
(***************************************************************************)
(* What stands between the clients, the payment pages and the platform on  *)
(* one side and the gateway's components on the other: the gateway's       *)
(* routing (Gateway), its media routes (Media), the providers it freezes   *)
(* for new tasks (Providers) and the wire to PayCores (PayCores).  They    *)
(* share no state, so that their conjunction is the composition.           *)
(***************************************************************************)
EXTENDS Gateway, Media, Providers, PayCores

EdgeSpec == GatewaySpec /\ MediaSpec /\ ProvidersSpec /\ PayCoresSpec

\* One side takes a request, and one side executes a purchase (Gateway); the
\* image behind a redirect is the one asked for (Media); jobs go where they were
\* frozen to, and what is believed of them is so (Providers); a confirmation
\* passes its gate once, and what is told of an order is so (PayCores).
EdgeSafe == GatewaySafe /\ RedirectsLead /\ ProvidersSafe /\ PayCoresSafe
===============================================================================
