----------------------------- MODULE MCHandlers -----------------------------
(* Handlers instantiated for TLC: two accounts, two game-server names, one  *)
(* connected game server, three reconnect codes.                            *)
EXTENDS Handlers

MCSymmetry == Permutations(Names)
=============================================================================
