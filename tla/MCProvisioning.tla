--------------------------- MODULE MCProvisioning ---------------------------
(***************************************************************************)
(* Provisioning for TLC: Holders that compete for two Wallets.              *)
(***************************************************************************)
EXTENDS Provisioning

CONSTANTS w1, w2

Growing == {<<w1>>, <<w1, w2>>}
=============================================================================
