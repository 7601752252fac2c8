--------------------------- MODULE MCProxySession ---------------------------
(***************************************************************************)
(* Small instances of ProxySession for TLC.                                *)
(***************************************************************************)
EXTENDS ProxySession, TLC

\* Ids and cursors are only compared for equality.
Symmetry == Permutations(Ids) \cup Permutations(Cursors)

\* Bound of the larger instances: the upstream accepts every frame sent to it.
SendsSucceed == ~outcome.transport
=============================================================================
