------------------------------ MODULE MCSession ------------------------------
(* One session with the bounds of SessionEnds.cfg.                          *)
EXTENDS Session

MCSends == [alice |-> 3, bob |-> 2]
=============================================================================
