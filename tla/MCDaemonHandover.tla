-------------------------- MODULE MCDaemonHandover --------------------------
(* Two commands or recoveries at once, one process, MCP servers of both kinds. *)
EXTENDS DaemonHandover, TLC

CONSTANTS a, c1, c2

Symmetry == Permutations({c1, c2})

MCOpts == {[transport |-> "simple", port |-> 1], [transport |-> "advanced", port |-> 1]}
=============================================================================
