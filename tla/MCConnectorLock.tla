-------------------------- MODULE MCConnectorLock --------------------------
(* The processes of a machine are interchangeable.                          *)
EXTENDS ConnectorLock, TLC

MCSymmetry == Permutations(Procs)
=============================================================================
