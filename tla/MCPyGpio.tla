------------------------------ MODULE MCPyGpio ------------------------------
(* PyGpio for TLC: an input and an output, opened in this order.           *)
EXTENDS PyGpio

CONSTANTS gpio_in, gpio_out

MCOrder == <<gpio_in, gpio_out>>
=============================================================================
