------------------------------ MODULE MCKernel ------------------------------
(***************************************************************************)
(* The timer, the keyboard and a network card on a line of the slave; the  *)
(* digits 0 to 3 and one character below '0' after "tsk".                  *)
(***************************************************************************)
EXTENDS Kernel

MCTaskNumbers == -1 .. 3
=============================================================================
