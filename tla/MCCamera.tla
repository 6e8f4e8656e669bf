------------------------------ MODULE MCCamera ------------------------------
(* A range for checking Camera with TLC that a cfg cannot write.            *)
EXTENDS Camera

MCHeadYs == {-1, 0, 2}
=============================================================================
