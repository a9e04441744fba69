----------------------------- MODULE MCOptions -----------------------------
(* Instances of Options: a small and a large flag value, and a machine     *)
(* whose number of cores is unknown, one, or two.                          *)
EXTENDS Options

SomeValues == {1, 7}
SomeCores  == {0, 1, 2}
=============================================================================
