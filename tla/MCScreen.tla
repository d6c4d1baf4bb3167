------------------------------ MODULE MCScreen ------------------------------
(* A small instance of Screen for TLC.                                     *)
EXTENDS Screen

MCSizes == {[cols |-> 2, rows |-> 2], [cols |-> 3, rows |-> 1]}
=============================================================================
