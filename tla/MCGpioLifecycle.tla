-------------------------- MODULE MCGpioLifecycle --------------------------
(* GpioLifecycle for TLC.  Clients are interchangeable and every property  *)
(* checked with Symmetry is a safety property.                             *)
EXTENDS GpioLifecycle, TLC

Symmetry == Permutations(Clients)
=============================================================================
