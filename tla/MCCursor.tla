------------------------------ MODULE MCCursor ------------------------------
(* Values for checking Cursor with TLC: a window at one edge of the screen  *)
(* and the whole screen, for fullscreen.                                    *)
EXTENDS Cursor

MCRects == {[left |-> 1, right |-> 4], [left |-> 0, right |-> 6]}
=============================================================================
