-------------------------------- MODULE Stores --------------------------------
(***************************************************************************)
(* What is kept for good, by components that share no state: the published *)
(* objects (Streams), the events of the outbox (Retention) and the jobs    *)
(* bound to creation steps (JobIndex).  Each has its own collection or     *)
(* bucket, so that their conjunction is the composition.                   *)
(***************************************************************************)
EXTENDS Streams, Retention, JobIndex

StoresSpec == StreamsSpec /\ RetentionSpec /\ JobIndexSpec

\* What is stored keeps its meaning: what the copies, the takeovers and the
\* audit leave behind (Streams), no event on its way is removed (Retention),
\* and no two steps of an account share a job (JobIndex).
StoresSafe == StreamsSafe /\ RetentionSafe /\ JobsUnique
=============================================================================
