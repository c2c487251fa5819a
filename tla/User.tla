--------------------------------- MODULE User ---------------------------------
(***************************************************************************)
(* What stands between a user and his generations: admission and the       *)
(* wallet, the sessions, the callbacks of the local route, the event       *)
(* stream, the edge, and the lists he reads.  These components share no    *)
(* state, so that their conjunction is the composition.                    *)
(***************************************************************************)
EXTENDS Admission, Sessions, Callbacks, Realtime, Edge, Feeds

UserSpec == AdmissionSpec /\ SessionsSpec /\ CallbacksSpec /\ RealtimeSpec /\ EdgeSpec /\ FeedsSpec

\* The state of every component has its shape.
UserTypeOK ==
    /\ AdmissionTypeOK /\ SessionsTypeOK /\ CallbacksTypeOK /\ RealtimeTypeOK /\ FeedsTypeOK
    /\ GatewayTypeOK /\ MediaTypeOK /\ ProvidersTypeOK /\ PayCoresTypeOK
===============================================================================
