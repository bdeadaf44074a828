------------------------------ MODULE MCBoard ------------------------------
(* Board for TLC: values around the limits of ints of 2 bits and longs of  *)
(* 4, any of which may be a model too.                                     *)
EXTENDS Board

MCNumbers == {NotNumeric, -9, -3, -2, 1, 2, 8}
=============================================================================
