------------------------------- MODULE GameMode -------------------------------
(***************************************************************************)
(* How the gamemode comes to life (gamemodes.cpp) inside the engine's      *)
(* frame (engine.cpp, ServerThink): the configuration file is read line by *)
(* line, a gamemode line loads the script, runs its main, initialises it,  *)
(* puts the hooks in place and restarts the map; a plugins line loads      *)
(* plugins and is the only one that sets GMLoaded.                         *)
(*                                                                         *)
(* The scripts may run console commands, so that, once the hooks are in    *)
(* place, engine events also arrive while a script runs.                   *)
(*                                                                         *)
(* The operators marked "Slip" are no part of the specification: they say  *)
(* what plausible mistakes would make of the definition that follows them. *)
(***************************************************************************)
EXTENDS Integers, Sequences, FiniteSets

CONSTANTS
    Configs,  \* the configuration files a host may write, as line sequences
    MaxReads  \* bound on how often the configuration file is read

\* A gamemode line may name a script that cannot be loaded.
Lines == {"gamemode", "missing", "updaterate", "plugins"}

ASSUME GameModeAssumption ==
    /\ Configs \subseteq Seq(Lines)
    /\ MaxReads \in Nat

VARIABLES
    config,      \* iniMod.cfg; the empty sequence when there is no file
    server,      \* whether the process runs, has exited or has crashed
    step,        \* where the frame has got to
    line,        \* the configuration line being handled
    reads,       \* how often the configuration has been read
    loads,       \* gamemodes loaded into inimod_amx; none: its base is null
    inits,       \* how many of them have had OnGameModeInit called
    hooked,      \* the engine functions are patched
    GMLoaded,
    pluginLoads, \* how often a plugins line was obeyed
    early        \* history: a gamemode got an event before its OnGameModeInit

vars == <<config, server, step, line, reads, loads, inits, hooked, GMLoaded,
          pluginLoads, early>>

Steps == {"frame", "parse", "main", "init", "hooks", "restart", "think",
          "players", "plugins"}

Init ==
    /\ config \in Configs
    /\ server = "up"
    /\ step = "frame"
    /\ line = 1
    /\ reads = 0
    /\ loads = 0
    /\ inits = 0
    /\ hooked = FALSE
    /\ GMLoaded = FALSE
    /\ pluginLoads = 0
    /\ early = FALSE

At(s) == server = "up" /\ step = s

\* amx_FindPublic on inimod_amx reads through its base.
FindPublic ==
    IF loads > 0 THEN UNCHANGED server ELSE server' = "crashed"

NoteEvent == early' = (early \/ (loads > 0 /\ inits = 0))

-----------------------------------------------------------------------------
(* parseConfigFile: the frame begins.                                      *)

ParseConfigFile ==
    /\ At("frame")
    /\ ~GMLoaded
    /\ reads < MaxReads
    /\ reads' = reads + 1
    /\ line' = 1
    /\ step' = "parse"
    /\ UNCHANGED <<config, server, loads, inits, hooked, GMLoaded, pluginLoads, early>>

\* The file is not read when GMLoaded is set, and also when loadTime, which no
\* constructor initialises, happens to be recent.
SkipConfigFile ==
    /\ At("frame")
    /\ step' = "think"
    /\ UNCHANGED <<config, server, line, reads, loads, inits, hooked, GMLoaded,
                   pluginLoads, early>>

EndOfConfig ==
    /\ At("parse")
    /\ line > Len(config)
    /\ step' = "think"
    /\ UNCHANGED <<config, server, line, reads, loads, inits, hooked, GMLoaded,
                   pluginLoads, early>>

IsLine(text) == At("parse") /\ line <= Len(config) /\ config[line] = text

\* Slip: the new gamemode passes for an initialised one.
LoadScriptInitialised ==
    /\ IsLine("gamemode")
    /\ loads' = loads + 1
    /\ step' = "main"
    /\ UNCHANGED <<config, server, line, reads, inits, hooked, GMLoaded, pluginLoads,
                   early>>

\* LoadScript: inimod_amx is cleared and the script loaded into it.
LoadScript ==
    /\ IsLine("gamemode")
    /\ loads' = loads + 1
    /\ inits' = 0
    /\ step' = "main"
    /\ UNCHANGED <<config, server, line, reads, hooked, GMLoaded, pluginLoads, early>>

\* Slip: the server goes on with what it has.
LoadScriptFailsSoftly ==
    /\ IsLine("missing")
    /\ step' = "main"
    /\ UNCHANGED <<config, server, line, reads, loads, inits, hooked, GMLoaded,
                   pluginLoads, early>>

\* SHOW_TO_CONSOLE_AND_EXIT.
LoadScriptFails ==
    /\ IsLine("missing")
    /\ server' = "exited"
    /\ UNCHANGED <<config, step, line, reads, loads, inits, hooked, GMLoaded,
                   pluginLoads, early>>

\* Slip: the line is not left behind.
UpdateRateStays == IsLine("updaterate") /\ UNCHANGED vars

UpdateRate ==
    /\ IsLine("updaterate")
    /\ line' = line + 1
    /\ UNCHANGED <<config, server, step, reads, loads, inits, hooked, GMLoaded,
                   pluginLoads, early>>

\* Slip: GMLoaded is not set.
ParsePluginsUnmarked ==
    /\ IsLine("plugins")
    /\ pluginLoads' = pluginLoads + 1
    /\ line' = line + 1
    /\ UNCHANGED <<config, server, step, reads, loads, inits, hooked, GMLoaded, early>>

ParsePlugins ==
    /\ IsLine("plugins")
    /\ pluginLoads' = pluginLoads + 1
    /\ GMLoaded' = TRUE
    /\ line' = line + 1
    /\ UNCHANGED <<config, server, step, reads, loads, inits, hooked, early>>

-----------------------------------------------------------------------------
(* initAMXGM.                                                              *)

\* Slip: the hooks are in place before the script's main has returned.
ExecMainHooked ==
    /\ At("main")
    /\ hooked' = TRUE
    /\ step' = "init"
    /\ UNCHANGED <<config, server, line, reads, loads, inits, GMLoaded, pluginLoads,
                   early>>

ExecMain ==
    /\ At("main")
    /\ step' = "init"
    /\ UNCHANGED <<config, server, line, reads, loads, inits, hooked, GMLoaded,
                   pluginLoads, early>>

\* Slip: OnGameModeInit is called once for the server, not for each load.
OnGameModeInitOnce ==
    /\ At("init")
    /\ inits' = IF loads = 1 THEN inits + 1 ELSE inits
    /\ step' = "hooks"
    /\ UNCHANGED <<config, server, line, reads, loads, hooked, GMLoaded, pluginLoads,
                   early>>

OnGameModeInit ==
    /\ At("init")
    /\ inits' = inits + 1
    /\ step' = "hooks"
    /\ UNCHANGED <<config, server, line, reads, loads, hooked, GMLoaded, pluginLoads,
                   early>>

MainHooks ==
    /\ At("hooks")
    /\ hooked' = TRUE
    /\ step' = "restart"
    /\ UNCHANGED <<config, server, line, reads, loads, inits, GMLoaded, pluginLoads,
                   early>>

\* The changelevel command runs at once: the gamemode is told of the change.
RestartMap ==
    /\ At("restart")
    /\ FindPublic
    /\ NoteEvent
    /\ line' = line + 1
    /\ step' = "parse"
    /\ UNCHANGED <<config, reads, loads, inits, hooked, GMLoaded, pluginLoads>>

-----------------------------------------------------------------------------
(* The rest of the frame, and the engine's events.                         *)

OnServerThink ==
    /\ At("think")
    /\ FindPublic
    /\ NoteEvent
    /\ step' = "players"
    /\ UNCHANGED <<config, line, reads, loads, inits, hooked, GMLoaded, pluginLoads>>

UpdatePlayers ==
    /\ At("players")
    /\ FindPublic
    /\ step' = "plugins"
    /\ UNCHANGED <<config, line, reads, loads, inits, hooked, GMLoaded, pluginLoads,
                   early>>

PluginsThink ==
    /\ At("plugins")
    /\ step' = "frame"
    /\ UNCHANGED <<config, server, line, reads, loads, inits, hooked, GMLoaded,
                   pluginLoads, early>>

\* A hooked engine function runs: between frames, or because a script that is
\* running used a console command.
EngineEvent ==
    /\ server = "up"
    /\ hooked
    /\ \/ step \in {"frame", "main", "init", "think", "players", "plugins"}
       \/ IsLine("plugins")
    /\ FindPublic
    /\ NoteEvent
    /\ UNCHANGED <<config, step, line, reads, loads, inits, hooked, GMLoaded,
                   pluginLoads>>

Stopped == server # "up" /\ UNCHANGED vars

Next ==
    \/ ParseConfigFile \/ SkipConfigFile \/ EndOfConfig
    \/ LoadScript \/ LoadScriptFails \/ UpdateRate \/ ParsePlugins
    \/ ExecMain \/ OnGameModeInit \/ MainHooks \/ RestartMap
    \/ OnServerThink \/ UpdatePlayers \/ PluginsThink
    \/ EngineEvent
    \/ Stopped

Spec == Init /\ [][Next]_vars

\* The engine goes on running frames, and a frame runs to its end.
FairSpec == Spec /\ WF_vars(Next)

-----------------------------------------------------------------------------
(* Properties.                                                             *)

Has(text) == \E k \in DOMAIN config : config[k] = text

TypeOK ==
    /\ config \in Configs
    /\ server \in {"up", "exited", "crashed"}
    /\ step \in Steps
    /\ line \in 1 .. Len(config) + 1
    /\ reads \in 0 .. MaxReads
    /\ loads \in Nat
    /\ inits \in 0 .. 1
    /\ hooked \in BOOLEAN
    /\ GMLoaded \in BOOLEAN
    /\ pluginLoads \in Nat
    /\ early \in BOOLEAN

\* The engine is hooked only when there is a gamemode to call: no hook ever
\* searches an abstract machine without a program.
HooksFindGamemode == hooked => loads > 0 /\ server # "crashed"

\* The first gamemode is given nothing before its OnGameModeInit has been called:
\* no event of a hook, whatever its main does, for its hooks come last, and no
\* frame that gets as far as the players.  (One that is loaded over another may
\* be given events.)
InitBeforeEvents ==
    /\ early => loads > 1
    /\ server = "up" /\ step \in {"players", "plugins"} => inits = 1

\* With a plugins line in the file each plugins line is obeyed once, however
\* many frames run.
PluginsOnce ==
    Has("plugins") =>
        pluginLoads <= Cardinality({k \in DOMAIN config : config[k] = "plugins"})

\* Every server comes to have an initialised gamemode, or it is down: a frame
\* that starts without one ends in a crash.
EventuallyPlays == <>(inits = 1 \/ server # "up")

\* parseConfigFile "only gets called once": the gamemode is loaded once.
LoadedOnce == loads <= 1

\* "run without gamemode support by specifying it in the iniMod.cfg file": a
\* host without a gamemode line has a server that goes on running.
RunsWithoutGamemode ==
    ~Has("gamemode") /\ ~Has("missing") => server # "crashed"

=============================================================================
