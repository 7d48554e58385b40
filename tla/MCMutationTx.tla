--------------------------- MODULE MCMutationTx ---------------------------
(* Instances of MutationTx for TLC: the sets are model values.               *)
EXTENDS MutationTx

CONSTANTS i1, i2, u1, u2

OneId  == {i1}
TwoIds == {i1, i2}
NoUploads  == {}
OneUpload  == {u1}
TwoUploads == {u1, u2}
=============================================================================
