------------------------------ MODULE MCClients ------------------------------
(* The table of players and the events on small servers.                   *)
EXTENDS PlayerEvents

=============================================================================
