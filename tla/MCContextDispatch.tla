-------------------------- MODULE MCContextDispatch --------------------------
(* Small instances of ContextDispatch for TLC. *)
EXTENDS ContextProperties

CONSTANTS A1, A2

MCASyncs == {A1, A2}
=============================================================================
