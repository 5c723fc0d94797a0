-------------------------------- MODULE MCExec --------------------------------
(* Instances of Exec for TLC: the types of the programs to check.          *)
EXTENDS Exec

MCOneSize == [int |-> 4]
MCOneGlobal == [y |-> "int"]
===============================================================================
