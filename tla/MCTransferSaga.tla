--------------------------- MODULE MCTransferSaga ---------------------------
(***************************************************************************)
(* TransferSaga for TLC.  Calls are interchangeable slots: no action and no *)
(* property tells them apart.                                              *)
(***************************************************************************)
EXTENDS TransferSaga, TLC

CallSymmetry == Permutations(Calls)
=============================================================================
