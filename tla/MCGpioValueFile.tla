-------------------------- MODULE MCGpioValueFile ---------------------------
(* GpioValueFile for TLC: a thread of the library and one of the           *)
(* application.                                                            *)
EXTENDS GpioValueFile

CONSTANTS watcher, app

(* A callback is registered whose function reads and writes the line; the  *)
(* application makes every call.                                           *)
MCShared ==
  [t \in Threads |-> IF t = watcher THEN {"watch", "get_level", "set_level"}
                     ELSE Calls \ {"watch"}]

(* A callback is registered and the application reads the level. *)
MCReader == [t \in Threads |-> IF t = watcher THEN {"watch"} ELSE {"get_level"}]
=============================================================================
