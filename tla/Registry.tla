-------------------------------- MODULE Registry --------------------------------
(***************************************************************************)
(* What outlives a map because the mod registers it: the rows of the       *)
(* precache table (precache.cpp), the commands other modules add, and the  *)
(* storage of their variables (engine.cpp).  Console lines (con_commands.  *)
(* cpp) are what fills the precache table and calls the commands.          *)
(*                                                                         *)
(* A name is a field of a line, a sequence of words; Lower says which      *)
(* words differ in the case of letters only.                               *)
(***************************************************************************)
EXTENDS ConsoleText, TLC

CONSTANTS
    Texts,     \* texts other modules have taken apart
    Lines,     \* console lines that reach the mod
    Lower,     \* the lower case of a word, for those that have another case
    Commands,  \* names other modules add commands by
    Functions, \* the functions they add
    NULL,      \* no function
    Garbage,   \* a field or a token read from past the end, or a place there
    Items,     \* what a script precaches
    Cells,     \* places for variables, 200 in the code; the model stops there
    MaxMaps    \* bound on the map changes

Types == {"sound", "model", "generic", "event"}

PrecacheInfo == [type : Types, name : {Garbage} \cup Seq(STRING)]

ASSUME RegistryAssumption ==
    /\ Texts \subseteq Seq(STRING)
    /\ \A str \in Texts : Zero \notin ToSet(str)
    /\ Lines \subseteq Seq(STRING) \ {<<>>}
    /\ Items \subseteq PrecacheInfo
    /\ NULL \notin Functions
    /\ Cells \in Nat \ {0}
    /\ MaxMaps \in Nat

VARIABLES
    precacheinf,          \* the precache table
    known,                \* external: what the engine precached for this map
    addedcommands,        \* servercommandfuncpointersinfo, to its next index
    nextcmdvariablesinfo, \* the next place for a variable
    cells,                \* the places variables were given, in order
    maps,                 \* maps changed
    told,                 \* whether the gamemode has OnServerChangeMap
    wanted,               \* history: rows made since the server started
    text,                 \* external: the text another module has taken apart
    parsed,               \* history: whether it has been
    cmd_argv,             \* its tokens
    cmd_args,             \* where in it cmd_args points, 0 for NULL, or Garbage
    running               \* FALSE once the process has crashed

tokens == <<text, parsed, cmd_argv, cmd_args>>

vars == <<precacheinf, known, addedcommands, nextcmdvariablesinfo, cells,
          maps, told, wanted, tokens, running>>

Fold(name) ==
    IF name = Garbage THEN name
    ELSE [i \in DOMAIN name |->
            IF name[i] \in DOMAIN Lower THEN Lower[name[i]] ELSE name[i]]

\* strcmpi
SameName(a, b) == Fold(a) = Fold(b)

\* The fields of each line; the first is the name of the command.
Fields == [line \in Lines |-> explode(line)]

\* v[field], counted from zero, may read past the end of the vector.
ExplodeAndReturn(line, field) ==
    IF field < Len(Fields[line]) THEN Fields[line][field + 1] ELSE Garbage

Init ==
    /\ precacheinf = <<>>
    /\ known = {}
    /\ addedcommands = <<>>
    /\ nextcmdvariablesinfo = 1 \* sv_testcommand, registered by mainRoutineCall
    /\ cells = <<0>>
    /\ maps = 0
    /\ told \in BOOLEAN
    /\ wanted = {}
    /\ text \in Texts
    /\ parsed = FALSE
    /\ cmd_argv = <<>>
    /\ cmd_args = 0
    /\ running = TRUE

-----------------------------------------------------------------------------
(* The precache table.                                                      *)

IsItemOnPrecacheTable(table, item) ==
    \E i \in DOMAIN table : table[i].name = item.name

AddPrecacheToTable(table, item) ==
    IF IsItemOnPrecacheTable(table, item) THEN table ELSE Append(table, item)

\* The loop counts up while the table shrinks: rows 0, 2, 4 ... are removed
\* until the index has reached what is left.
RemoveAllPrecacheFromTable(table) ==
    LET removed == {i \in DOMAIN table : i % 2 = 1}
        Kept(i) == i + i
        kept == Len(table) - Cardinality(removed)
    IN  [i \in 1 .. kept |-> table[Kept(i)]]

\* Slip: the table is emptied first, as PreloadCached(true) does.
PreloadCachedAfresh(table) == RemoveAllPrecacheFromTable(table)

\* PreloadCached(false): every row is precached and stays.
PreloadCached(table) == table

\* A map change: the engine forgets what it precached, and the gamemode's
\* OnServerChangeMap, if there is one, is followed by the preloads.
OnServerChangeMap ==
    /\ running
    /\ maps < MaxMaps
    /\ maps' = maps + 1
    /\ precacheinf' = IF told THEN PreloadCached(precacheinf) ELSE precacheinf
    /\ known' = IF told THEN ToSet(precacheinf') ELSE {}
    /\ UNCHANGED <<addedcommands, nextcmdvariablesinfo, cells, told, wanted, tokens, running>>

\* The engine's own lists, which only grow within a map.
EnginePrecache(item) == known \cup {item}

\* The natives PrecacheSound, PrecacheModel, PrecacheGeneric, PrecacheEvent:
\* nothing is put on the table.
Precache(item) ==
    /\ running
    /\ known' = EnginePrecache(item)
    /\ UNCHANGED <<precacheinf, addedcommands, nextcmdvariablesinfo, cells,
                   maps, told, wanted, tokens, running>>

-----------------------------------------------------------------------------
(* Commands and variables of other modules.                                 *)

HasCommand(name) ==
    \E i \in DOMAIN addedcommands : SameName(addedcommands[i].name, name)

\* Slip: the names are compared with strcmp here, with strcmpi elsewhere.
AlreadyDefinedExactly(name) == \E i \in DOMAIN addedcommands : addedcommands[i].name = name

AlreadyDefined(name) == HasCommand(name)

\* The function that was added under the line's first field.
returnAddedCmdPtr(line) ==
    IF HasCommand(Fields[line][1])
    THEN addedcommands[Min({i \in DOMAIN addedcommands :
             SameName(addedcommands[i].name, Fields[line][1])})].pointer
    ELSE NULL

\* The index of variables is counted up; the one of servercommandsinfo is not.
AddServerCommand(name, function) ==
    /\ running
    /\ ~AlreadyDefined(name)
    /\ nextcmdvariablesinfo < Cells
    /\ addedcommands' = Append(addedcommands, [name |-> name, pointer |-> function])
    /\ nextcmdvariablesinfo' = nextcmdvariablesinfo + 1
    /\ UNCHANGED <<precacheinf, known, cells, maps, told, wanted, tokens, running>>

\* Slip: the index is counted up before the place is taken.
Cvar_RegisterVariableBeyond ==
    /\ running
    /\ nextcmdvariablesinfo < Cells
    /\ cells' = Append(cells, nextcmdvariablesinfo + 1)
    /\ nextcmdvariablesinfo' = nextcmdvariablesinfo + 1
    /\ UNCHANGED <<precacheinf, known, addedcommands, maps, told, wanted, tokens, running>>

\* Slip: the place is not counted.
Cvar_RegisterVariableUncounted ==
    /\ running
    /\ nextcmdvariablesinfo < Cells
    /\ Len(cells) < Cells
    /\ cells' = Append(cells, nextcmdvariablesinfo)
    /\ UNCHANGED <<precacheinf, known, addedcommands, nextcmdvariablesinfo,
                   maps, told, wanted, tokens, running>>

Cvar_RegisterVariable ==
    /\ running
    /\ nextcmdvariablesinfo < Cells
    /\ cells' = Append(cells, nextcmdvariablesinfo)
    /\ nextcmdvariablesinfo' = nextcmdvariablesinfo + 1
    /\ UNCHANGED <<precacheinf, known, addedcommands, maps, told, wanted, tokens, running>>

-----------------------------------------------------------------------------
(* Console lines.  A line whose first field is an added command calls that  *)
(* command even if it is also the name of one of the mod's own.             *)

\* The line reaches the mod's own command of that name.
IsCommand(line, name) ==
    /\ running
    /\ SameName(Fields[line][1], <<name>>)
    /\ returnAddedCmdPtr(line) = NULL

\* find_precachetype
IsType(field) == \E t \in Types : SameName(field, <<t>>)

find_precachetype(field) == CHOOSE t \in Types : SameName(field, <<t>>)

\* preload <type> <filename>
rconcmd_precache(line) ==
    LET item == [type |-> find_precachetype(ExplodeAndReturn(line, 1)),
                 name |-> ExplodeAndReturn(line, 2)]
    IN  /\ IsCommand(line, "preload")
        /\ returnCommandParamCount(line) > 1
        /\ IsType(ExplodeAndReturn(line, 1))
        /\ precacheinf' = AddPrecacheToTable(precacheinf, item)
        /\ wanted' = wanted \cup (ToSet(precacheinf') \ ToSet(precacheinf))
        /\ UNCHANGED <<known, addedcommands, nextcmdvariablesinfo, cells,
                       maps, told, tokens, running>>

\* playsound <sample>, emitambientsound <sample> ...: the sample is precached
\* for this map only.
rconcmd_emitambsound(line) ==
    /\ \/ IsCommand(line, "playsound")
       \/ IsCommand(line, "emitambientsound")
    /\ known' = EnginePrecache([type |-> "sound", name |-> ExplodeAndReturn(line, 1)])
    /\ UNCHANGED <<precacheinf, addedcommands, nextcmdvariablesinfo, cells,
                   maps, told, wanted, tokens, running>>

\* The last field each command reads, whatever the line has: the guards of
\* the last three count the command itself as a parameter.
LastField == [preload |-> 2, playsound |-> 1, emitambientsound |-> 4,
              loadplugin |-> 1, unloadplugin |-> 1, host_timescale |-> 1]

\* A field past the end may be read from no memory of the process.
FieldFault(line) ==
    /\ \E command \in DOMAIN LastField :
        /\ IsCommand(line, command)
        /\ command = "preload" => returnCommandParamCount(line) > 1
        /\ LastField[command] >= Len(Fields[line])
    /\ running' = FALSE
    /\ UNCHANGED <<precacheinf, known, addedcommands, nextcmdvariablesinfo, cells,
                   maps, told, wanted, tokens>>

\* The text is not closed, and its reader goes on behind the zero: it may find the
\* end at once, further tokens - it keeps those there is room for - or no memory of
\* the process.  Where it begins to look for a second token, cmd_args points.
ReadOn(t) ==
    /\ \E n \in 0 .. MaxArgs - Len(t.argv) :
          /\ cmd_argv' = t.argv \o [k \in 1 .. n |-> Garbage]
          /\ \/ TakesArgs(Len(t.argv)) /\ cmd_args' = Garbage
             \/ (TakesArgs(Len(t.argv)) => n = 0) /\ cmd_args' = t.args
    /\ running' \in BOOLEAN

\* Another module has its text taken apart; nothing is left of the tokens there
\* were.
Cmd_TokenizeString ==
    LET t == Tokens(text)
    IN  /\ running
        /\ parsed' = TRUE
        /\ IF t.over
           THEN ReadOn(t)
           ELSE cmd_argv' = t.argv /\ cmd_args' = t.args /\ UNCHANGED running
        /\ UNCHANGED <<precacheinf, known, addedcommands, nextcmdvariablesinfo, cells,
                       maps, told, wanted, text>>

\* Nothing happens to these tables any more.
Stopped ==
    /\ ~running
    /\ UNCHANGED vars

Next ==
    \/ OnServerChangeMap
    \/ \E item \in Items : Precache(item)
    \/ \E n \in Commands, f \in Functions : AddServerCommand(n, f)
    \/ Cvar_RegisterVariable
    \/ \E line \in Lines :
            \/ rconcmd_precache(line)
            \/ rconcmd_emitambsound(line)
            \/ FieldFault(line)
    \/ Cmd_TokenizeString
    \/ Stopped

Spec == Init /\ [][Next]_vars

-----------------------------------------------------------------------------
(* Properties.                                                              *)

\* The variables have their types: cmd_args is NULL or points into the text, unless
\* the text is not closed; then it may point past its end.
TypeOK ==
    /\ precacheinf \in Seq(PrecacheInfo)
    /\ known \subseteq PrecacheInfo
    /\ addedcommands \in Seq([name : Commands, pointer : Functions])
    /\ nextcmdvariablesinfo \in 0 .. Cells
    /\ cells \in Seq(0 .. Cells - 1)
    /\ maps \in 0 .. MaxMaps
    /\ told \in BOOLEAN
    /\ wanted \subseteq PrecacheInfo
    /\ text \in Texts
    /\ parsed \in BOOLEAN
    /\ cmd_argv \in Seq({Garbage} \cup Seq(STRING))
    /\ \/ cmd_args \in 0 .. Len(text)
       \/ cmd_args = Garbage /\ Tokens(text).over
    /\ running \in BOOLEAN

\* No field of a text holds a space, the fields joined by spaces spell the
\* text, and there are as many as returnCommandParamCount says, so that a
\* command that asks for the count knows which fields it may read
\* (con_commands.cpp:139).
FieldsSpellText ==
    LET fields == explode(text)
        join[n \in 1 .. Len(fields)] ==
            IF n = 1 THEN fields[1] ELSE join[n - 1] \o <<Space>> \o fields[n]
    IN  /\ \A n \in DOMAIN fields : Space \notin ToSet(fields[n])
        /\ join[Len(fields)] = text
        /\ text # <<>> => returnCommandParamCount(text) = Len(fields)

\* cmd_args leads to the text of the tokens after the first: taken apart
\* again it gives just those, and where it is NULL there are none
\* (engine.cpp:194, for a text that is closed and has room for its tokens).
ArgsFollowCommand ==
    parsed /\ ~Tokens(text).over /\ Len(cmd_argv) < MaxArgs =>
        IF cmd_args = 0
        THEN Len(cmd_argv) < 2
        ELSE Tokens(SubSeq(text, cmd_args, Len(text))).argv = Tail(cmd_argv)

\* Words with single spaces between them.
IsPlain(str) ==
    /\ ToSet(str) \cap {NewLine, Quote, Slash} = {}
    /\ <<>> \notin ToSet(explode(str))

\* A plain text that tryFindCommand would take apart with explode is taken
\* apart by Cmd_TokenizeString alike, up to the tokens that are kept.
TokensAreFields ==
    LET fields == explode(text)
    IN  parsed /\ IsPlain(text) =>
            cmd_argv = SubSeq(fields, 1, IF Len(fields) < MaxArgs THEN Len(fields) ELSE MaxArgs)

\* "Don't delete anything the users precached.." (gamemodes.cpp:398): whatever
\* was ever accepted is precached at every map change of a gamemode that
\* handles it, with the type it was accepted by.
PreloadsReachEveryMap ==
    [][maps' # maps /\ told => wanted \subseteq known']_vars

\* A command another module was allowed to add is the one that lines with its
\* name call, however they spell it (engine.cpp:210 and 262 compare alike).
AddedCommandsAnswer ==
    \A i \in DOMAIN addedcommands, line \in Lines :
        SameName(Fields[line][1], addedcommands[i].name)
            => returnAddedCmdPtr(line) = addedcommands[i].pointer

\* No two variables share a place, although commands count the places of
\* variables too (engine.cpp:272), and every place in use is counted.
VariablesApart ==
    /\ \A i, j \in DOMAIN cells : cells[i] = cells[j] => i = j
    /\ \A i \in DOMAIN cells : cells[i] < nextcmdvariablesinfo
    /\ nextcmdvariablesinfo = Len(cells) + Len(addedcommands)
=============================================================================
