------------------------- MODULE MCAdaptedDelivery -------------------------
(***************************************************************************)
(* AdaptedDelivery for TLC, and the contract it keeps.                     *)
(***************************************************************************)
EXTENDS AdaptedDeliveryProofs

\* The contract is kept step by step and, with the fairness of the bridge and
\* of the scheduler, to the end.
AdaptedContract == ChildContract!Spec
=============================================================================
