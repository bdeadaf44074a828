---------------------------- MODULE MCBusHandles ----------------------------
(* BusHandles for TLC: a C program and a Python object in one process, two *)
(* threads that transfer on the handle of the program, and values that the *)
(* library knows, does not know, and the kernel lowers.                    *)
EXTENDS BusHandles

CONSTANTS native, object

MCHandlesOf == [t \in Threads |-> {native}]
MCArgs == [timeout |-> {2}, mode |-> {1, MODE_ERROR}, bits |-> {16, BPW_ERROR}, speed |-> {1, 3}]
MCForeign == [timeout |-> {1}, mode |-> {0, 5}, bits |-> {8, 32}, speed |-> {1}]
MCAsked == [timeout |-> 1, mode |-> 1, bits |-> 8, speed |-> 2]
=============================================================================
