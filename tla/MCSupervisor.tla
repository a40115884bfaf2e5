---------------------------- MODULE MCSupervisor ----------------------------
(* Instances of Supervisor for TLC, and what the usage text of the control *)
(* tool says of it.                                                        *)
EXTENDS Supervisor, TLC

CONSTANTS c1, c2, m1, m2

CallersCrossing == [start |-> 2, stop |-> 2, crash |-> 1, failure |-> 1]
TwoCrashes == [start |-> 2, stop |-> 2, crash |-> 2, failure |-> 1]
NoFailures == [start |-> 1, stop |-> 1, crash |-> 1, failure |-> 0]

Symmetry == Permutations({c1, c2}) \cup Permutations({m1, m2})

\* yajudge_control.go:60, "stop instance services": once a Stop has returned
\* and until somebody calls Start, no process is started.  A Stop that comes
\* while the monitor waits to respawn finds no process and returns; then the
\* monitor starts one.
StopStops == [][~wanted /\ ~wanted' => alive' \subseteq alive]_vars
=============================================================================
