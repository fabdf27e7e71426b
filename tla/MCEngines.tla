----------------------------- MODULE MCEngines -----------------------------
(* Small instances of Engines for TLC. *)
EXTENDS EngineProperties

Mode(balancer, n) == [balancer |-> balancer, signals |-> n]

\* A worker that is told once to stop, and one that balances and is not.
MCModes == {Mode(FALSE, 1), Mode(TRUE, 0)}

\* What the run leaves out: the two signals of a terminal and of the master violate
\* WaitsForSockets.
MCTwice == {Mode(FALSE, 2)}

\* The balancer accepts for engines that have shut down: WaitsForSockets and
\* ShutdownExits are violated.
MCBalanced == {Mode(TRUE, 1)}
=============================================================================
