------------------------------ MODULE MCBroker ------------------------------
(***************************************************************************)
(* Broker with two free tokens for four peers: the pool runs dry, tokens  *)
(* are reused after a client leaves, and a game server holds one.          *)
(***************************************************************************)
EXTENDS Broker

CONSTANTS c1, c2, g1, g2

MCClients == {c1, c2}
MCGameServers == {g1, g2}
MCMaxConnections == 4
MCMaxChunks == 1
=============================================================================
