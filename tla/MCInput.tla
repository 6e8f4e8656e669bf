------------------------------ MODULE MCInput ------------------------------
(* Model values for checking Input with TLC. *)
EXTENDS Input

CONSTANTS w, right

MCMaxPresses == [k \in {Alt, w, right} |-> IF k = w THEN 2 ELSE 1]
=============================================================================
