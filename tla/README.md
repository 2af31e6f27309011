# A verification of iniMod

iniMod is a library that is injected into the dedicated server of the game
Nightfire (an engine of the Half-Life family). It diverts engine functions to
code of its own (*hooks*), keeps tables of players, of the entities it made and
of precached resources, and runs scripts: one *gamemode* and up to twenty
*plugins*, compiled Pawn programs, each in an abstract machine (AMX).

Everything runs on the engine's one thread. What makes the code hard is that it
is *re-entrant*: nearly every handler calls scripts in its middle, the scripts
call natives that change the tables the handler is working on, and the native
`ConsoleCommand` (src/engine.cpp:393) executes a command at once, so that a
script may cause the next hook before the current one is done. None of this is
visible in the signature of a function, and none of it is tested.

The mod's own code is the `*.cpp` and `*.h` files at the top of `src/`; `hlsdk/`,
`amx/`, `amxdll/`, `Pawn Compiler/` and `pawn - 3.3.4127/` are third-party code
and appear here only as an environment. They are nearly all of the repository's
436,000 lines; the mod itself has about 7,700, a good third of them tables of
addresses, natives that read or write one field of the engine's memory, and
declarations.

## Inventory

| Part | State | Operations | Must hold |
| --- | --- | --- | --- |
| Table of players (player.cpp) | `players`, `NumPlayersWithoutDynamicLightSupport` | add and remove a row, look up by id, by user id, list all after a map load | one row for an id, exact counter, a user id leads to its own slot |
| Gamemode events (gamemodes.cpp, the `callOn...` functions of hooks.cpp) | none of their own | connect, reconnect, disconnect, map change, map loaded, frame, kick, spawn, equipment, death | the gamemode's idea of who is present agrees with the table; gamemode and plugins hear of the same client; every client is listed in the end |
| Table of entities (baseentity.cpp, SpectatePlayer) | `baseentityinf` | spectate, departure, map change, removal by a script | one camera for a client, every camera has a row, no row leads to an entity of the map |
| Life of the gamemode (gamemodes.cpp, engine.cpp) | `inimod_amx`, `GMLoaded`, `loadTime` | read the configuration, load, main, OnGameModeInit, hook, restart the map, think | no event without a gamemode, none before its initialisation |
| Plugins (plugins.cpp, con_commands.cpp) | `inimod_plugins`, names, count | load, unload by name, unload all, ten event loops | every event reaches every plugin that stays, a plugin is called by what is stored of its path |
| Hooks (hooks.cpp) | `retJMP`, `tempEAX`.., `tempRegister2`, `value` | seventeen hooks | return where they came from, with the registers they found, after an event about their own clients |
| Client command text (host_cmd.cpp) | the buffer `value` | hand a text to gamemode and plugins | nobody is given another's text |
| Precache table (precache.cpp) | `precacheinf` | add, remove, preload | what was accepted is precached in every later map |
| Server commands (con_commands.cpp, engine.cpp) | added commands, places for variables, tokens | add, find, register, tokenize | a command that was added is found, variables keep apart, a line is taken apart correctly |
| Frame pacing (engine.cpp) | time accumulators | accumulate, filter, tick | (planned) time is neither lost nor counted twice; its hooks are commented out in this commit |
| Network messages (gameinterface.cpp) | none | write messages | a light for everybody spares listed clients that cannot show it; the rest is not modelled |
| Strings (utils.cpp, common.cpp) | none | split, parse a token | fields and tokens spell the text |
| Formatting for scripts (format.cpp, amxutils.cpp) | none | format | not modelled |
| Memory access, addresses, mathematics, clock, start of the mod | none | raw reads and writes | not modelled |

How they interact: an engine function that is hooked runs a hook (hooks.cpp);
the hook calls a `callOn...` function; that one calls the gamemode's handler
(CNetwork) and then the plugins' (CPlugins); CNetwork's handler updates the
tables and calls the script; the script calls natives (kick, spectate, console
command). Once in every engine frame `ServerThink` reads the configuration if it
has to, calls the think functions and lists the clients that have no row.

## Modules

| Module | Models | Checked by |
| --- | --- | --- |
| `ClientTable` | table of players, and the events that change it | `Clients`, `ClientsDump`, `ClientTable_proofs` |
| `PlayerEvents` | extends `ClientTable` by the events that only read the table, and by lights | `Clients`, `ClientsDump`, `ClientTable_proofs` |
| `Roster` | what that table promises (abstract) | `ImplementsRoster` of `Clients`; proved |
| `Presence` | what others rest on: who is on that table and with what row (abstract) | `ImplementsPresence` of `Clients` and of `Entities`; proved of both |
| `EntityTable` | table of entities | `Entities`, `EntityTable_proofs` |
| `GameMode` | life of the gamemode, the frame | `GameMode`, `GameModeOnce`, `GameModeNone`, `GameMode_proofs` |
| `Plugins` | table of plugins | `Plugins`, `PluginsUnload`, `Plugins_proofs` |
| `Audience` | what that table promises (abstract) | `ImplementsAudience` of `Plugins`; proved |
| `Hooks` | hooks, their arguments and the text buffer | `Hooks`, `HooksReturn`, `HooksDeath`, `Hooks_proofs` |
| `ConsoleText` | how a console line is taken apart (functions on sequences) | `Registry`, `ConsoleText_proofs`, `Registry_proofs` |
| `Registry` | precache table, added commands, variables | `Registry`, `Registry_proofs` |
| `MCClients`, `MCEntities`, `MCGameMode`, `MCPlugins`, `MCHooks`, `MCRegistry` | instances for TLC | |
| `ClientTable_proofs`, `EntityTable_proofs`, `GameMode_proofs`, `Hooks_proofs`, `Plugins_proofs`, `ConsoleText_proofs`, `Registry_proofs` | theorems about the modules of those names, those about `PlayerEvents` in the first | TLAPS |
| `SequenceFacts` | what erasing, appending, pushing and popping leave of a sequence; induction over positions, and that a recursion over them has a value | TLAPS |

Operators whose comment begins with *Slip* are not part of the specifications.
Each says what a plausible mistake would make of the definition that follows it,
and there is a property that notices; PROJECT.json lists the pairs.

### ClientTable

`slot` is the engine's array of clients as far as the mod reads it: connected,
user id, whether the client's version supports dynamic lights. `players` is the
vector of rows in its order, `noLight` the counter. `calls` is the stack of the
engine hooks at work, the innermost first: a reconnection or a drop has a point where
the mod has been called and the engine is not done, a map change goes from one client
it disconnects to the next, a map load visits one slot in each step. `think` is where
the frame's loop stands. Two variables are history: `present`, the ids the gamemode
has been told of and not told off again, and `anew`, the slots that a hook inside
another hook has listed, or has given to another connection, and that are listed since.

What is kept of the code: `callOnClientConnect` does not look at who connected
and announces the lowest id without a row; `AddPlayerToTable` looks the user id
up truncated to a byte (`ByteSize`) and stores it whole; the reconnect hook looks
the row up by a user id that may be the old or the new one; a drop runs one or
two hooks; `KickClient` runs the departure and leaves the slot to the engine.

Hooks run inside hooks. `ConsoleCommand` executes its command at once, so that a script
that is told of a departure, or of a change of the map, may have a client dropped, a bot
added or a map loaded, whose hooks then run inside the handler that called the script
(`ScriptRuns`, `Begin`). `Waits` says where a hook stands in a script: a reconnection
once it has told of a departure, a drop after either of its hooks, the map change after
the first client it disconnects and at its end, the map load at its end only
(`ProcessClientsOnMapLoad` calls no script). A kick takes no frame on the stack: what it
does to these variables it does before its own script. Only a client's reconnection and
the frame's loop are the engine's alone and wait for an empty stack. This is where rows
come from that no single handler accounts for: the script that hears of a departure loads
a map, `ProcessClientsOnMapLoad` finds the leaver still connected and lists it, and the
slot is freed with that row left. `DropForgetsUser` and `MapChangeDumpsTable` therefore
speak of clients outside `anew`: what a hook leaves must be what it leaves by itself.

`Roster` is the abstract table: admit, refuse, dismiss. The refinement mapping
takes the set of ids in `players` for the roster and `noLight` for its counter.

`Presence` is more abstract about the table and says more about its clients: the
connected ones, the listed ids, and which connected clients are listed by a row of
their own (`HasOwnRow`: the row's user id is the slot's present one). A row may
outlive its client, and the next client of the slot then goes by it. A kick, a map
change, a reconnection or a drop takes off the table only a connected client; a slot is
freed with whatever row it then has.

### PlayerEvents

Spawn, equipment and death hand a user id to the gamemode and then to the plugins,
and each of the two looks it up in the table for itself. `event` holds the user id,
what the gamemode was told and how many hooks were at work, since an event may happen
inside another hook's script. Between the two lookups the gamemode's script has
run, so any kick may have taken place, and a console command may have run any of the
hooks; what the event itself happened inside of waits for it (`TableStep`).
`SameClientTold` says that the plugins are then told of the same client or of none.
Events are modelled one user id at a time; a death is two of them. An event counts as a
hook against `MaxDepth`.

Whom a light is sent to: `UTIL_Create_TE_DLIGHT` sends to everybody when the counter is
zero, else to the connected clients whose row has the bit; a client without a row counts
as nobody. A private light reads the engine's own data of the client and depends on
nothing the mod keeps.

### EntityTable

`world` says what each edict holds: nothing, an entity of the map or game, or the
camera of a client. `calls` is the stack of what is under way: departures that have
called their script and have not yet removed their entities, and the hooks they are part
of or that their scripts have caused. Drops, connections and changes of the map begin inside
any script (`ScriptRuns`, `Begins`). A change of the map
is one frame that goes through three stages: `mapchange`, the loop of departures;
`erasing`, the loop over the vector, in which no script runs; and `loading`, until the new
map is there. The engine gives edicts any content at a map load, and free edicts may be
reused at once. The erasures by owner are one step each, since no script runs inside them:
`Others` and `Owned` are what they leave and what they take. (The count and the erasure by
owner and name compare the name and count the row in either case, so that the name does not
matter: baseentity.cpp:157.) `SpectatePlayer` asks only whether there is a client for the
slot at all, so that scripts may give a camera to a slot nobody is in (player.cpp:625).

`RemoveAllEntitiesFromTable` erases with an iterator it then increments. The model
has its loop turn by turn (`EraseNext`, `EraseDone`): every other row stays, and an
odd number of rows takes the iterator past the end, after which the process is
taken to crash (`running`). Two history variables say when that can happen.
`clean`: the table was empty at every map load and no script used the native
`SUB_Remove`, which frees an edict and leaves its row, on a camera. Under `clean`
rows lead to their cameras and nothing of the map is removed by mistake. `tame`:
scripts removed no camera themselves and made only clients spectate that were connected
and on the table of players; no slot was freed while it was on that table; no change of
the map began inside another handler; nobody connected inside a change of the map.
`TameScriptsKeepMapsClean` says that this is enough: the departures of a map change
then empty the table before the loop begins. None can be left out; in each case one row
is there when the loop begins, and takes the iterator past the end:

  - a slot that is not connected, or not on the table of players, is passed over by the
    departures, and a camera that a script has given it stays;
  - a client that goes by the row of an earlier one, or that a script in its own drop has
    had listed again, is listed when its slot is freed, and its camera may stay;
  - a change of the map inside a departure finds the leaver's row gone and its camera
    not yet removed;
  - a bot that connects inside the change of the map may be listed behind the loop's index,
    and a script may make it spectate.

Of the table of players `EntityTable` keeps who is on it (`listed`) and by a row of
their own (`own`), and has its own actions move them. `ImplementsPresence` is a property
of both modules: neither lets these sets move in a way that `Presence` does not allow.
It does not say that `EntityTable` leaves out nothing that `ClientTable` does; for this
the actions of the same names are to be compared. That a drop finds the client's own row
or none (`LookedUp`) rests on `UserIdsResolve` of `ClientTable`. In `EntityTable` the load
of a map ends its change; in `ClientTable`, where nothing depends on it, the two
come in any order.

### GameMode

A configuration is a sequence of lines. `parseConfigFile` is obeyed again until
`GMLoaded` is set, which only a plugins line does; `loadTime`, which is not
initialised in an object made for each frame, is a nondeterministic choice.
`loads` counts the gamemodes loaded; without one `amx_FindPublic` reads through a
null base, and the process is taken to crash. `EngineEvent` is any hook that
calls the gamemode, between frames or from a script's console command.

### Plugins

`stack` holds the operations in progress: a load that has called OnPluginInit, an
unload that has called OnPluginExit, an event loop that has called a plugin. A
console command may start another on top of any. A plugin whose machine is freed
while its code is on the stack makes the process crash when control comes back
(`ReturnToFreed`), and so does any call of a machine whose program did not load.
The name of a plugin is stored when its OnPluginInit has returned and stays when
it is unloaded. A file is the parts of its path; what is stored is the part behind the
first slash of the whole path (`StoredName`, plugins.cpp:101), which is the file's name
for a file in the plugins' directory and the directory's name for one in a further
directory: `unloadplugin dir/b` then finds nothing, and `unloadplugin dir` finds the first
plugin of that directory. `NamesAreTrue` says which plugin goes by which name, not that
the name is the file's. `due` and `got` are history: who was there when the operation
began and who has been called. `nested` is history too: whether
a plugin has had a plugin unloaded. `CrashesExplained` says that nothing else brings
the process down but a program that did not load: loads, events and the console's
own unloads are safe, and so are loads inside all of them.

`Audience` is the abstract table: plugins join and leave, an event is opened over
those that are there and is closed when all of them that stay have been told,
once each; inside an event members join and leave and other events take place. When
everybody has been sent away, nobody who was there is left. The refinement mapping
forgets slots, machines, files and names.

### Hooks

Each hook is a record: the globals it writes on entry and reads back at the end,
what it pushes and pops, when it sets `retJMP`, whether its handler calls
scripts. An activation has a number; globals hold the number of the activation
that wrote them, `value` that of the text it holds. `last` records how the last
activation went back. When it went to another's address or with another's
registers, the engine is undefined and the model stops. `Commanded` is an
assumption about the engine: the hooks a console command can cause.

The hooks of events read the user ids of the clients concerned into `tempRegister`
and `tempRegister2`. `tempRegister` is written by every hook before it is read, and no
script runs in between, so only `tempRegister2` is state. For an edict that is
nobody's a hook keeps what the last lookup left there (hooks.cpp:432);
`EventsNameTheirClients` says that this is never what a hook *inside* the present
one left, and that with good edicts both scripts are told this event's clients.
`heard` is history: what a script was told last. `DeathRoles` looks at the order of the two clients of a death. Left out
are other values read from engine memory, and registers a C++ function may change
by convention.

### ConsoleText and Registry

`ConsoleText` has no state. `explode` splits at single spaces and is how the mod
finds a command and its parameters; `Cmd_TokenizeString` with `COM_Parse` is what
it offers to other modules, with comments, quotes and line ends. A character may
stand for a word. `Registry` has them take apart a text another module holds
(`text`, `cmd_argv`, `cmd_args`), every short one, and checks them by putting the
fields together again, by taking `cmd_args` apart again, and against each other.
`COM_Parse` returns from an unclosed quoted text with a pointer behind the zero, and
the loop of the tokenizer reads on there (`ReadOn`): it may find the end at once, any
number of further tokens, of which it keeps as many as there is room for, or the end of the
process. When the unclosed text was the first token, the look for a second one sets
`cmd_args` there, to a place behind the text (`Garbage`).

`Registry` is what outlives a map. `precacheinf` is the precache table, `known`
what the engine was asked to precache for the present map, `wanted` the history of
all accepted rows. A map change empties `known`, as the engine does, and preloads
the table if the gamemode has an OnServerChangeMap (`told`); a gamemode without
one gets no preloads at all. `addedcommands` and `cells` are what other modules
register. A field that a line does not have is read as `Garbage` or ends the
process (`FieldFault`): `preload sound` passes the guard of its command, and the
guards of `loadplugin`, `unloadplugin` and `host_timescale` never refuse, because
the count includes the command. `RemoveAllPrecacheFromTable`, which leaves every
other row, is never called; it is here as what a `true` in place of the `false`
of gamemodes.cpp:398 would do. The model stops before the array of places is full.

## Runs

Bounds are named in the configurations. "States" are distinct states.

| Run | Bounds | Shows |
| --- | --- | --- |
| `Clients` | 2 slots, bytes of 2 values, user ids to 4, 2 hooks or events inside one another | All safety properties of the table and of the events, the refinements of `Roster` and `Presence`, and that every connected client is listed in the end. Two slots are enough for one client to take the other's id, two byte values for user ids that collide once truncated, four user ids for a reconnection after a collision; depth two has a map load, a bot or a kick inside a drop, a change of the map inside another, and one of these inside an event or around it. About 765,000 states. |
| `ClientsDump` | 2 slots, 256 byte values, user ids to 3, no hook inside another, `FirstFit` | Violated: a row survives the map change. Even with an engine that always gives the lowest slot, with full bytes and with scripts that cause no hooks. |
| `Entities` | 2 slots, 2 edicts, 2 maps, hooks begin inside 3 handlers at most | All safety properties of the table of entities, and that it keeps to `Presence`. Two slots let one client spectate the other, leave inside the other's departure and be listed behind the loop's index; two edicts make an odd and an even number of rows; two maps let rows of the first meet the second, and one change of the map run inside the other; a stack of three holds a drop, its departure and the hook its script causes, whose own departures and kicks come on top. About 2,276,000 states up to symmetry of edicts. |
| `GameMode` | ten configurations, 3 readings | Safety and `EventuallyPlays`. Three readings: the gamemode loaded, loaded over, and once more. |
| `GameModeOnce` | the configuration of readme.md | Violated: the gamemode is loaded again. |
| `GameModeNone` | no gamemode line | Violated: the first frame crashes. |
| `Plugins` | 3 slots, 3 files, two of them in one further directory and one of these broken, 4 loads, depth 3 | A table with a gap and a plugin behind it, the same file twice, two files of one name, operations three deep. About 1,134,000 states. |
| `PluginsUnload` | 2 files | Violated: a loaded plugin is not found by its name. |
| `Hooks` | 4 activations, depth 3 | Two activations one after the other inside a third, and a chain of three. About 485,000 states. |
| `HooksReturn` | the same | Violated: hookOnClientDisconnect jumps to the original code of a hook that ran inside it. |
| `HooksDeath` | the same | Violated: the victim is handed over as the attacker. |
| `Registry` | 17 lines, 3 words kept, texts of up to 5 characters, 3 places, 2 maps | Precache table, added commands and the two parsers. Five characters hold a quoted blank, a comment with a line end after it, a doubled and a final space. Two places beside the mod's own variable let a second spelling of a command meet the first; two maps let a preload be repeated. The constraint `TextsAlone` has texts taken apart only while nothing is registered: the tokens share no state with the rest. About 151,000 states up to symmetry of functions. |

Deadlock is checked in every run; the states where a process has ended or a
bound is reached stutter through an action `Stopped`.

Fairness. `Clients`: the innermost handler goes on until it is done, however many hooks
its scripts cause (strong fairness of `CallStep`, for each depth of the stack: the
engine's thread runs it and a script's callback returns), and the
frame comes round however often hooks get in between (strong fairness of
`UpdatePlayers`: the engine calls `ServerThink` in every frame it runs).
`GameMode`: weak fairness of `Next`, the engine runs frames. No fairness is
assumed of clients, scripts or operators of the server.

## Disagreements between code and comments

1. `ClientsDump`: "Dump all the clients from the table because the map was
   changed.." (gamemodes.cpp:386), but a row whose slot is not connected stays.
2. `GameModeOnce`: "This only gets called once" (engine.cpp:133), but without a
   plugins line the configuration is obeyed again.
3. `GameModeNone`: "run without gamemode support" (gamemodes.cpp:273), but the
   frame then searches a machine without a program.
4. `PluginsUnload`: "If we could find it, break out of the loop" and "Couldn't
   find it" (plugins.cpp:108, 110), but the search stops at an emptied slot.
5. `HooksReturn`: "jump to original code" (hooks.cpp:301, the end of
   hookOnClientDisconnect), but `retJMP` is shared: a script that is told of the departure
   has a map loaded, and the hook of that leaves its own address there.
6. `HooksDeath`: "EBX = Killer | ESI = Player Killed (Victim)" (hooks.cpp:491), but
   ESI's client is the first argument of `callOnClientDeath(int attacker, int
   receiver)`. Which register holds whom is the engine's business: the comment and
   the call cannot both be right.

Not stated as a run: hookOnBotConnect pops edx, eax and ecx in the order it
pushed them (hooks.cpp:254 and 271), which exchanges ecx and edx. The model has
it, and `UndisturbedReturnHome` excepts it.

## Proofs

`ClientTable_proofs` proves, for every number of slots, byte size, bound on
user ids and depth of hooks inside hooks:

  - `TypeCorrect`, `RowsAreUnique`, `CounterIsExact`, `UserIdsLeadHome`,
    `AnnouncedAreListed`: the invariants of `Clients`;
  - `DropsForget`: the action property;
  - `TableImplementsRoster`, `TableKeepsToPresence`: the refinements.

They rest on the assumption `ClientTableAssumption` (there is a slot, a byte has
a value, the bound is a natural number) and on the finite-set and sequence facts
of the library.

The inductive invariant is `IInv == DataOK /\ CallsTyped /\ DropsOK`. The invariants
of the run are not inductive by themselves. That ids are unique is, but that the
counter is exact needs it (a removal erases every row of an id and corrects the
counter for one) and needs the rows' bits to be taken from the table, not from
the engine. That a user id leads home needs to know that a row's user id was, at
some time, its own slot's: rows of other slots have user ids that are older than
`nextUid` and different from every slot's current one; this is the part
`UserIdsOK` of `DataOK`. `CallsTyped` says that every hook below the innermost stands in
a script. `DropsForget` needs, for every drop on the stack and not only the innermost,
that no row has the slot's user id unless a hook inside has listed the slot again
(`DropsOK`).

The proof that a step keeps `IInv` looks at a step twice. `StepKinds`: it is an arrival, a
departure, a listing, the freeing of a slot, or it leaves the data alone; each kind has a
lemma about the data. `StepMoves`: it leaves the stack alone, pushes a frame, pops one or
moves the top on; `FramesAfter` and `MovesKeepTyped` say what this does to what holds of
every frame. `RowsGrow` and `SlotsKeep` say what a step can at most do to rows and slots,
and `HistoryKnows` that a row of a listed slot that a hook inside a drop has made is in
`anew`.

The refinement of `Presence` needs all of `DataOK`. A lemma says what each of those kinds
does to the three sets (`DisconnectLeaves`, `AddLists`, `ConnectAnnounces`, `FreeingDrops`),
given that ids are unique, so that a slot owns its row exactly when the row found for its id
has its user id (`OwnersByRows`). `NewcomerOwnsNothing`: a new user id is on no row, even
an old one of the same slot.

Four more theorems speak of the handlers as wholes:

  - `MapChangeDumpsConnected` is what is true of the comment that `ClientsDump` refutes:
    when the loop of a map change is over, a *connected* client is listed only if a hook
    that a script caused inside the loop has listed it, or has given its slot to another
    connection, since (`anew`). `MapLoadListsConnected` is its counterpart: after
    the loop of a map load every connected client is listed, while user ids fit in a
    byte. Both carry "the slots before `at`" through the clients that scripts
    kick meanwhile; the first does so for every change of the map on the stack (`DumpedOK`),
    the second, whose loop calls no script, for the innermost hook (`LoadOK`).
  - `HandlersRunToEnd` and `ClientsHaveTheirTurn` are what `EventuallyListed` rests on
    besides fairness. The innermost hook always has a number of steps left, which its own
    steps decrease; other steps leave it alone or begin a hook inside it, and when that is
    over it goes on where it was. A client that stays unlisted has a number of
    turns of `UpdatePlayers` before it, which each turn decreases and no other step
    increases.

About the composition with `PlayerEvents` it proves, for the same constants:

  - `EventsLeaveTable`: it implements `ClientTable`'s specification with its fairness, so
    that every theorem above holds of it;
  - `PluginsHearOfSameClient`: the action property `SameClientTold`;
  - `OldClientsSpared`: the invariant `LightsSpareOldClients`.

The invariant is `EventIInv == IInv /\ LightsOK /\ EventOK`. `EventOK` says that an
event is about the client of one slot: its user id leads to this slot's row or to
none for as long as the event lasts, whatever the table does meanwhile. It is kept
because a new row is copied from the slot it is for, and a slot keeps its client or
is given the next user id (`StepsGrow`), however many hooks run in between. `LightsOK` says that the row of a client
that holds its slot knows whether it has lights; without it the counter, which is
about rows, says nothing about who is connected.

`EntityTable_proofs` proves, for every number of slots and maps, every set of
edicts and every depth, from `EntityTableAssumption` (there is a slot; what a free edict and one of
the map hold are different, and neither is a client):

  - `TypesHold`, `OneCamera`, `CamerasKept`, `RowsLeadToCameras`, `TameScripts`: the
    invariants of `Entities`;
  - `NativesSafe`: the action property;
  - `RestsOnPresence`: the refinement.

The invariant is `IInv == Typed /\ TableOK /\ StackOK /\ TameOK`. `TableOK` says that owners
are apart, as positions of the vector (a cardinality does not survive an erasure as
easily), and that rows and cameras correspond. `StackOK` is the shape of the stack: frames
name slots, reconnections are at its bottom, the erasing loop is on top of it, since it
calls nobody (`PopShape`, `PushShape`). `TameOK` is why tame scripts do no harm: a
row's owner is connected and on the table of players, or its departure is on the stack
(`Leavers`); a map change is at the bottom of the stack, and its loop leaves nobody behind
it; by the time it erases nobody is on the table and no row is left (`NoRowsLeft`); each
frame `Fits`. None of these can be seen at the moment of
the loop that erases; they have to be carried from step to step. Every action has a
lemma of its own (`...Keeps`), which cites what the operations on the vector leave
(`EraseOne`, `OthersStay`, `AddBehindOthers`) and what a departure does to the stack
(`DepartureMoves`). For the refinement the actions fall into departures, announcements,
arrivals, slots that become free, and those that touch no client (`DepartureRefines` to
`OthersRefine`).

`LoopLeavesHalf` says what that loop does to a table that scripts left rows in, whatever
handlers the change of the map is inside of: it has the table for itself, erases one row of every two, and passes the end of the vector, which
crashes the process, exactly when their number was odd. The position of the iterator and
the length of the vector together count the rows there were (`RowsAtFirst`).

`GameMode_proofs` proves, for every set of configurations and every number of
readings, from `GameModeAssumption` (configurations are sequences of lines; the bound is a number):

  - `TypesHold`, `HooksHaveGamemode`, `FirstInitBeforeEvents`, `PluginLinesOnce`: the
    safety invariants of `GameMode`.

The invariant is `IInv == Typed /\ LifeOK /\ PluginsOK`. `LifeOK` says where in the
handling of a gamemode line there is an uninitialised gamemode, and that hooks are in
place only from the end of the first initialisation on; the properties say this of
single moments and are not kept by themselves. `PluginsOK` counts: a reading has obeyed
at most the plugins lines before the present one, and none at all while `GMLoaded` is
not set. Without this a second reading might obey one again.

Three theorems draw the lines around the disagreements and the liveness:
`LoadedOncePerLine` (what `GameModeOnce` refutes holds of every file with a plugins line:
each gamemode line loads one gamemode, however many frames run, because a reading that
ended has set `GMLoaded`), `CrashMeansNoGamemode` (the crash of `GameModeNone` cannot
happen to a server that has loaded a gamemode) and `ServerIsBroughtUp`, on which
`EventuallyPlays` rests besides fairness: every step of a server that waits for its
gamemode decreases a number that begins at four more than the lines of its
configuration.

`Hooks_proofs` proves, for every set of hooks that console commands can cause, every
number of activations and every depth, from `HooksAssumption` (that set holds
hooks of the table; the bounds are numbers):

  - `TypesHold`, `ReturnHome`, `OwnText`, `OwnClients`: the invariants of `Hooks`.

The seventeen hooks themselves are a fixed table, about which `HooksOK` says once what
the proofs need: a hook reads back only what it wrote and, but for hookOnBotConnect, pops
what it pushed. The properties speak of the hook that has just gone back; the
invariant has to speak of those still on the stack. `TopOK`: what an activation
that nobody has disturbed wrote is still in the globals. `StackOK`: every other
activation than the innermost has been disturbed, and the clients it looked up are its
own or older ones. `TextOK`: a text in the buffer belongs to the innermost activation
that has one.

`Plugins_proofs` proves, for every number of slots, set of files, number of loads and
depth, from `PluginsAssumption` (there is a slot; a broken file is a file; what an empty
slot holds is neither a name nor a machine; a path has a part; the bounds are numbers):

  - `TypesHold`, `CrashesHaveCauses`, `NamesHold`: the invariants of `Plugins`;
  - `TableImplementsAudience`: the refinement.

The invariant is `IdsOK` (no two slots have the same machine), `FramesOK`, `NamesOK`
and `Calm` beside the types. `FramesOK` is the invariant of the event loops, held by
every operation on the stack at once: a loop has been given to those machines of its
beginning that are still there up to the one it calls, and to none behind it. It
survives what nests inside because a load fills only an empty slot, with a machine
whose number is new, so that no event has it in `due` or in `got`. `NamesOK` says that a slot
without its plugin's name has a load under way that will store it. `Calm` says why
the process does not crash while plugins unload no plugins: every operation on the
stack finds the machine it called, since an unloading is then the outermost operation.
For the refinement each kind of step has a lemma (`LoadRefines`, `BeginRefines`,
`NextRefines`, `FinishRefines`, `CrashRefines`). That the end of a loop is the end of
an abstract event needs that a non-empty set of slots has a lowest, which
`LowestExists` derives from the library's theorem on finite subsets.
`LoopsAreBounded` says that the loops end whatever the plugins do: an operation that is
at a slot has called no more machines than there are slots up to it, so that one event
makes `MAX_PLUGINS` calls at most, even when every plugin loads another.

`ConsoleText_proofs` holds what `Registry_proofs` needs about taking a text apart, for
every text and every number of tokens that are kept. `explode` and the tokenizer are
recursive functions, and that such a function has a value at all has to be proved
before anything can be said about it: `RecursionExists` of `SequenceFacts` does so for
recursions over positions, by an induction that speaks of a *set* of positions, and
`Descent` serves for those that end because a position moves on. Then:

  - fields: `ExplodeCuts` says that `explode` returns what lies between the cuts, which
    are the beginning, the spaces and the end (`CutAt`); that joining the fields with
    spaces spells the text (`ExplodeSpells`) follows;
  - tokens: the tokenizer is a sequence of readings, each of which skips blanks and
    comments and then takes a quoted text or a word (`TokenFacts`, `TokensComputes`);
    on a plain text each reading takes exactly one field (`PlainTokens`);
  - `cmd_args`: reading what lies behind a position is reading the whole from there
    (the lemmas `Behind...`), so that its tokens are those after the first (`ArgsLead`).

`Registry_proofs` proves, for every set of lines, texts, commands, functions and items,
and every number of places and maps:

  - `Typing`, `FieldsSpell`, `ArgsFollow`, `PlainTextsAgree`,
    `VariablesHavePlaces`, `CommandsAnswer`: the invariants of `Registry`;
  - `PreloadsStay`: the action property.

They rest on `RegistryAssumption`. A text is a C string, which ends at its first zero,
so that no character of it is one; a line has a command; items have a type and a name;
the null pointer is no function; there is a place for a variable.

There are two invariants. `IInv == RowsOK /\ CommandsOK /\ CellsOK`: every row that was
ever accepted is on the table; no two added commands are called alike, so that the first
one a lookup finds is the only one; places in use lie below the index. How a line is
taken apart does not matter to these: `IInv` is kept whatever `explode` returns.
`TypeOK /\ TextsOK` says that the tokens, their number and `cmd_args` are those of the
text that was taken apart last, unless its quotes are not closed: of such a text no more
tokens are kept than there is room for, and `cmd_args` may lead behind it.

`SequenceFacts` holds the lemmas about sequences that several of these modules cite.

Every safety invariant and every action property that a passing run checks is also a
theorem, and so are the refinements of `Roster`, `Presence` and `Audience`. Only
model-checked is liveness (`EventuallyListed`, `EventuallyPlays`), which the proof system
does not do; the measures it decreases are theorems (`HandlersRunToEnd`,
`ClientsHaveTheirTurn`, `ServerIsBroughtUp`). The properties of the runs that expect a
violation are false; where a weaker form is true that form is a theorem
(`MapChangeDumpsConnected`, `LoadedOncePerLine`, `CrashMeansNoGamemode`).

## What is not modelled, and why

The map covers about a third of the mod's own lines and, because the vendored code is
in the same repository, half a percent of all of them. What is left of the mod:

  - Formatting for scripts: no function of format.cpp or amxutils.cpp has a caller in
    the mod.
  - Raw memory access, addresses, geometry, the clock, network messages but for
    lights, and the natives that wrap them: they keep no state.
  - Code nothing calls: `CreateEntityEx`, `RemoveEntityFromTable`,
    `IsItemOnBaseEntityTable`, `GetBaseEntityTableIndex`, `UnloadScript`, and
    `UpdateClients` with the heartbeats of player.cpp. `RemoveAllPrecacheFromTable` is
    an operator of `Registry` only.
  - The three hooks commented out of `funcHooks`, and the time pacing of engine.cpp
    (`Host_AccumulateTime`, `Host_CalculateTimeDelta`, `FilterTime`), which is reached
    only from two of them: no execution of this commit runs it.
  - The depth at which the paths of `hookOnPlayerKilled` leave the machine's stack,
    and the number of times plugins hear of one departure, which depend on the
    engine's side of a call.

## Plan

Done: `ClientTable` with `Roster` and `Presence`, `PlayerEvents`, `EntityTable`,
`GameMode`, `Plugins` with `Audience`, `Hooks`, `ConsoleText` and `Registry`, and the
proofs about them.

1. The other half of what `EntityTable` takes from `ClientTable`: that it leaves out no
   step of it that changes who is listed. A module that runs both on the same calls of
   the engine would show it.
2. An abstract specification of who may be told of what: the events of `Hooks` handed
   to the tables of `ClientTable` and `Plugins`, which are composed by argument now.
3. An abstract specification of `Registry` (a set of wanted files) would repeat
   `PreloadsReachEveryMap`; it is worth having only when more of
   the precache table is used.
