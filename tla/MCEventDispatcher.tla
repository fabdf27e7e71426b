------------------------- MODULE MCEventDispatcher -------------------------
(* Small instances of EventDispatcher for TLC. *)
EXTENDS EventDispatcherProperties

CONSTANTS t1, z1, s1
\* What is not there at first is registered by handlers.
MCInitial == {<<s1, "r">>}
MCCalls   == {[wait |-> TRUE, ex |-> {}], [wait |-> FALSE, ex |-> Flags]}
=============================================================================
