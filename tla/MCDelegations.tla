--------------------------- MODULE MCDelegations ---------------------------
(* Model-checking instances of Delegations.                                *)
EXTENDS Delegations
=============================================================================
