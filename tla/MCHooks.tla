------------------------------- MODULE MCHooks -------------------------------
(* The hooks, interrupted by what scripts' console commands cause.          *)
EXTENDS Hooks

\* The mod's own commands, kick, changelevel and the commands that add a bot.
Commands ==
    {"hookOnInvalidCommand", "hookOnClientDisconnect", "hookOnSV_DisconnectClient",
     "hookOnServerChangeMap", "hookOnMapLoaded", "hookOnBotConnect",
     "hookOnClientConnect"}

=============================================================================
