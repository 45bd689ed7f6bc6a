---------------------------- MODULE MCRxBridge ----------------------------
(***************************************************************************)
(* Small instances of RxBridge for TLC, and the contract with its liveness.*)
(***************************************************************************)
EXTENDS DemandProofs, TLC

\* The application threads are interchangeable (safety runs only).
Symmetry == Permutations(Threads)

\* The bridge implements the contract: an application sees nothing else,
\* step by step and, with the fairness of the driver, to the end.
ImplementsContract == BridgeContract!Spec
=============================================================================
