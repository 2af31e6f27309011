---------------------------- MODULE Registry_proofs ----------------------------
(***************************************************************************)
(* Theorems about what the mod registers, for every set of console lines,  *)
(* texts, commands, functions and items, and every number of places, maps  *)
(* and kept tokens.                                                        *)
(***************************************************************************)
EXTENDS Registry, ConsoleText_proofs

\* Every row that was ever made is still on the table.
RowsOK ==
    /\ precacheinf \in Seq(ToSet(precacheinf))
    /\ wanted \subseteq ToSet(precacheinf)

Command == [name : Commands, pointer : Functions]

\* No two added commands are called alike.
CommandsOK ==
    /\ addedcommands \in Seq(Command)
    /\ \A i, j \in DOMAIN addedcommands :
          SameName(addedcommands[i].name, addedcommands[j].name) => i = j

\* The places given to variables lie below the index, which counts commands too.
CellsOK ==
    /\ cells \in Seq(Nat)
    /\ nextcmdvariablesinfo \in Nat
    /\ VariablesApart

IInv == RowsOK /\ CommandsOK /\ CellsOK

-----------------------------------------------------------------------------
(* What the operations keep of the invariant.                              *)

\* Appending, whatever the elements are.
LEMMA AppendAny ==
    ASSUME NEW s, s \in Seq(ToSet(s)), NEW x
    PROVE  LET u == Append(s, x)
           IN  /\ u \in Seq(ToSet(u)) /\ ToSet(u) = ToSet(s) \cup {x}
               /\ Len(s) \in Nat /\ DOMAIN s = 1 .. Len(s)
               /\ Len(u) = Len(s) + 1 /\ DOMAIN u = 1 .. Len(s) + 1
               /\ u[Len(s) + 1] = x /\ \A i \in 1 .. Len(s) : u[i] = s[i]
<1> DEFINE T == ToSet(s) \cup {x}
           u == Append(s, x)
<1>1. s \in Seq(T)
  <2>1. /\ Len(s) \in Nat /\ s \in [1 .. Len(s) -> ToSet(s)]
    OBVIOUS
  <2>2. s \in [1 .. Len(s) -> T]
    <3> HIDE DEF T
    <3>1. ToSet(s) \subseteq T
      BY DEF T
    <3> QED
      BY <2>1, <3>1
  <2> QED
    BY <2>1, <2>2
<1> HIDE DEF T
<1>2. /\ u \in Seq(T) /\ DOMAIN u = 1 .. Len(s) + 1 /\ u[Len(s) + 1] = x
      /\ \A i \in 1 .. Len(s) : u[i] = s[i]
      /\ Len(u) = Len(s) + 1 /\ Len(s) \in Nat /\ DOMAIN s = 1 .. Len(s)
  BY <1>1 DEF T
<1>3. ToSet(u) = T
  BY <1>2 DEF ToSet, T
<1> QED
  BY <1>2, <1>3 DEF T

\* AddPrecacheToTable adds a row, or leaves the table.
LEMMA PreloadKeepsRows ==
    ASSUME RowsOK, NEW item,
           precacheinf' = AddPrecacheToTable(precacheinf, item),
           wanted' = wanted \cup (ToSet(precacheinf') \ ToSet(precacheinf))
    PROVE  RowsOK'
<1>1. CASE precacheinf' = precacheinf
  BY <1>1 DEF RowsOK
<1>2. CASE precacheinf' = Append(precacheinf, item)
  <2>1. /\ precacheinf' \in Seq(ToSet(precacheinf'))
        /\ ToSet(precacheinf') = ToSet(precacheinf) \cup {item}
    BY <1>2, AppendAny DEF RowsOK
  <2> QED
    BY <2>1 DEF RowsOK
<1> QED
  BY <1>1, <1>2 DEF AddPrecacheToTable

\* A command is added if no other is called alike, and takes one place.
LEMMA CommandKeeps ==
    ASSUME CommandsOK, CellsOK, NEW name \in Commands, NEW function \in Functions,
           AddServerCommand(name, function)
    PROVE  CommandsOK' /\ CellsOK'
<1> DEFINE c == [name |-> name, pointer |-> function]
           n == Len(addedcommands)
<1>1. /\ addedcommands' = Append(addedcommands, c) /\ c \in Command /\ c.name = name
      /\ nextcmdvariablesinfo' = nextcmdvariablesinfo + 1 /\ UNCHANGED cells
      /\ \A i \in DOMAIN addedcommands : ~SameName(addedcommands[i].name, name)
  BY DEF AddServerCommand, AlreadyDefined, HasCommand, Command
<1> HIDE DEF c
<1>2. /\ addedcommands' \in Seq(Command) /\ n \in Nat
      /\ Len(addedcommands') = n + 1
      /\ DOMAIN addedcommands = 1 .. n /\ DOMAIN addedcommands' = 1 .. n + 1
      /\ addedcommands'[n + 1] = c
      /\ \A i \in 1 .. n : addedcommands'[i] = addedcommands[i]
  BY <1>1 DEF CommandsOK
<1> HIDE DEF n
<1>3. CommandsOK'
  <2> SUFFICES ASSUME NEW i \in 1 .. n + 1, NEW j \in 1 .. n + 1,
                      SameName(addedcommands'[i].name, addedcommands'[j].name)
               PROVE  i = j
    BY <1>2 DEF CommandsOK, SameName, Fold
  <2>1. \A k \in 1 .. n + 1 : k \in 1 .. n \/ k = n + 1
    BY <1>2
  <2>2. CASE i \in 1 .. n /\ j \in 1 .. n
    BY <1>2, <2>2 DEF CommandsOK
  <2>3. CASE i \in 1 .. n /\ j = n + 1
    BY <1>1, <1>2, <2>3
  <2>4. CASE j \in 1 .. n /\ i = n + 1
    BY <1>1, <1>2, <2>4 DEF SameName
  <2> QED
    BY <2>1, <2>2, <2>3, <2>4
<1>4. CellsOK'
  <2>1. Len(cells) \in Nat
    BY DEF CellsOK
  <2>2. nextcmdvariablesinfo' = Len(cells') + Len(addedcommands')
    BY <1>1, <1>2, <2>1 DEF CellsOK, VariablesApart, n
  <2>3. \A i \in DOMAIN cells : cells[i] \in Nat
    BY DEF CellsOK
  <2> QED
    BY <1>1, <2>2, <2>3 DEF CellsOK, VariablesApart
<1> QED
  BY <1>3, <1>4

\* A variable is given the place at the index, above all that were given.
LEMMA VariableKeeps ==
    ASSUME CommandsOK, CellsOK, Cvar_RegisterVariable
    PROVE  CellsOK'
<1> DEFINE n == Len(cells)
           next == nextcmdvariablesinfo
<1>1. /\ cells' = Append(cells, next) /\ next' = next + 1 /\ UNCHANGED addedcommands
  BY DEF Cvar_RegisterVariable
<1>2. /\ cells' \in Seq(Nat) /\ n \in Nat /\ Len(cells') = n + 1 /\ next \in Nat
      /\ DOMAIN cells = 1 .. n /\ DOMAIN cells' = 1 .. n + 1 /\ cells'[n + 1] = next
      /\ \A i \in 1 .. n : cells'[i] = cells[i] /\ cells[i] \in Nat /\ cells[i] < next
  BY <1>1 DEF CellsOK, VariablesApart
<1>3. \A k \in 1 .. n + 1 : k \in 1 .. n \/ k = n + 1
  BY <1>2
<1>4. \A i, j \in 1 .. n + 1 : cells'[i] = cells'[j] => i = j
  <2> SUFFICES ASSUME NEW i \in 1 .. n + 1, NEW j \in 1 .. n + 1, cells'[i] = cells'[j]
               PROVE  i = j
    OBVIOUS
  <2>1. CASE i \in 1 .. n /\ j \in 1 .. n
    BY <1>2, <2>1 DEF CellsOK, VariablesApart
  <2>2. CASE i = n + 1 \/ j = n + 1
    <3> HIDE DEF n, next
    <3>1. \A k \in 1 .. n : cells'[k] \in Nat /\ cells'[k] # next
      BY <1>2
    <3> QED
      BY <1>2, <1>3, <2>2, <3>1
  <2> QED
    BY <1>3, <2>1, <2>2
<1>5. \A i \in 1 .. n + 1 : cells'[i] < next + 1
  BY <1>2, <1>3
<1>6. next' = Len(cells') + Len(addedcommands')
  BY <1>1, <1>2 DEF CellsOK, VariablesApart, CommandsOK
<1> QED
  BY <1>1, <1>2, <1>4, <1>5, <1>6 DEF CellsOK, VariablesApart

-----------------------------------------------------------------------------
(* The invariant holds.                                                     *)

\* At the start there is the mod's own variable and nothing else.
LEMMA Initially == Init => IInv
<1> SUFFICES ASSUME Init PROVE IInv
  OBVIOUS
<1>1. precacheinf = <<>> /\ addedcommands = <<>> /\ wanted = {}
  BY DEF Init
<1>2. cells = <<0>> /\ nextcmdvariablesinfo = 1
  BY DEF Init
<1>3. RowsOK /\ CommandsOK
  BY <1>1 DEF RowsOK, CommandsOK
<1>4. CellsOK
  BY <1>1, <1>2 DEF CellsOK, VariablesApart
<1> QED
  BY <1>3, <1>4 DEF IInv

\* The invariant is inductive: lines, scripts, other modules and map changes keep it.
THEOREM NextIInv == IInv /\ [Next]_vars => IInv'
<1> SUFFICES ASSUME IInv, [Next]_vars PROVE IInv'
  OBVIOUS
<1>1. UNCHANGED <<precacheinf, wanted>> => RowsOK'
  BY DEF IInv, RowsOK
<1>2. UNCHANGED addedcommands => CommandsOK'
  BY DEF IInv, CommandsOK, SameName, Fold
<1>3. UNCHANGED <<addedcommands, cells, nextcmdvariablesinfo>> => CellsOK'
  BY DEF IInv, CellsOK, VariablesApart
<1>4. ASSUME NEW line \in Lines, rconcmd_precache(line)
      PROVE  IInv'
  <2>1. RowsOK'
    BY <1>4, PreloadKeepsRows DEF rconcmd_precache, IInv
  <2> QED
    BY <1>2, <1>3, <1>4, <2>1 DEF rconcmd_precache, IInv
<1>5. ASSUME NEW name \in Commands, NEW function \in Functions,
             AddServerCommand(name, function)
      PROVE  IInv'
  BY <1>1, <1>5, CommandKeeps DEF AddServerCommand, IInv
<1>6. CASE Cvar_RegisterVariable
  BY <1>1, <1>2, <1>6, VariableKeeps DEF Cvar_RegisterVariable, IInv
<1>7. CASE OnServerChangeMap
  <2>1. UNCHANGED <<precacheinf, wanted, addedcommands, cells, nextcmdvariablesinfo>>
    BY <1>7 DEF OnServerChangeMap, PreloadCached
  <2> QED
    BY <1>1, <1>2, <1>3, <2>1 DEF IInv
<1>8. CASE UNCHANGED <<precacheinf, wanted, addedcommands, cells, nextcmdvariablesinfo>>
  BY <1>1, <1>2, <1>3, <1>8 DEF IInv
<1> QED
  BY <1>4, <1>5, <1>6, <1>7, <1>8
     DEF Next, Precache, rconcmd_emitambsound, FieldFault, Cmd_TokenizeString,
         Stopped, vars

\* It therefore holds all along.
THEOREM SpecIInv == Spec => []IInv
<1>1. Init => IInv
  BY Initially
<1> QED
  BY <1>1, NextIInv, PTL DEF Spec

\* No two variables share a place, although commands count those places.
THEOREM VariablesHavePlaces == Spec => []VariablesApart
<1>1. IInv => VariablesApart
  BY DEF IInv, CellsOK
<1> QED
  BY <1>1, SpecIInv, PTL

\* A line that has an added command's name, however spelled, calls that command.
THEOREM CommandsAnswer == Spec => []AddedCommandsAnswer
<1>1. CommandsOK => AddedCommandsAnswer
  <2> SUFFICES ASSUME CommandsOK, NEW i \in DOMAIN addedcommands, NEW line \in Lines,
                      SameName(Fields[line][1], addedcommands[i].name)
               PROVE  returnAddedCmdPtr(line) = addedcommands[i].pointer
    BY DEF AddedCommandsAnswer
  <2> DEFINE found == {j \in DOMAIN addedcommands :
                          SameName(addedcommands[j].name, Fields[line][1])}
  <2>1. \A j \in found : j = i
    BY DEF CommandsOK, SameName
  <2>2. i \in found
    BY DEF SameName
  <2>3. found = {i}
    BY <2>1, <2>2
  <2>4. Min({i}) = i
    <3>1. i \in Nat
      BY DEF CommandsOK
    <3> QED
      BY <3>1 DEF Min
  <2>5. HasCommand(Fields[line][1])
    BY <2>2 DEF HasCommand
  <2>6. Min(found) = i
    BY <2>3, <2>4
  <2> QED
    BY <2>5, <2>6 DEF returnAddedCmdPtr
<1>2. IInv => AddedCommandsAnswer
  BY <1>1 DEF IInv
<1> QED
  BY <1>2, SpecIInv, PTL

\* Whatever was ever accepted is precached at every map change, as what it was
\* accepted.
THEOREM PreloadsStay == Spec => PreloadsReachEveryMap
<1>1. ASSUME IInv, [Next]_vars, maps' # maps, told
      PROVE  wanted \subseteq known'
  <2>1. OnServerChangeMap
    BY <1>1 DEF Next, Precache, AddServerCommand, Cvar_RegisterVariable,
                rconcmd_precache, rconcmd_emitambsound, FieldFault,
                Cmd_TokenizeString, Stopped, vars
  <2>2. known' = ToSet(precacheinf)
    BY <1>1, <2>1 DEF OnServerChangeMap, PreloadCached
  <2> QED
    BY <1>1, <2>2 DEF IInv, RowsOK
<1>2. IInv /\ [Next]_vars => [maps' # maps /\ told => wanted \subseteq known']_vars
  BY <1>1
<1> QED
  BY <1>2, SpecIInv, PTL DEF Spec, PreloadsReachEveryMap

-----------------------------------------------------------------------------
(* Types, and texts that other modules have taken apart.                    *)

\* What a closed text has been taken apart into is what Tokens says; where the
\* reader has left the text, cmd_args may have done so too.
TextsOK ==
    /\ text \in Texts
    /\ parsed =>
          \/ cmd_args = Tokens(text).args /\ cmd_argv = Tokens(text).argv
          \/ Tokens(text).over

Field == {Garbage} \cup Seq(STRING)

\* A field of a line is one, or what lies behind the vector.
LEMMA FieldTyped ==
    ASSUME NEW line \in Lines, NEW n \in Nat
    PROVE  ExplodeAndReturn(line, n) \in Field
<1>1. line \in Seq(STRING)
  BY RegistryAssumption
<1>2. Fields[line] = explode(line)
  BY DEF Fields
<1>3. Fields[line] \in Seq(Seq(STRING))
  <2>1. explode(line) \in FieldsOf(STRING)
    BY <1>1, ExplodeCuts
  <2> QED
    BY <1>2, <2>1 DEF FieldsOf
<1>4. ASSUME n < Len(Fields[line])
      PROVE  Fields[line][n + 1] \in Seq(STRING)
  BY <1>3, <1>4
<1> QED
  BY <1>4 DEF ExplodeAndReturn, Field

\* A row that is made has a type of the game's and a field of the line.
LEMMA PreloadTyped ==
    ASSUME TypeOK, NEW line \in Lines, rconcmd_precache(line)
    PROVE  precacheinf' \in Seq(PrecacheInfo) /\ wanted' \subseteq PrecacheInfo
<1> DEFINE item == [type |-> find_precachetype(ExplodeAndReturn(line, 1)),
                    name |-> ExplodeAndReturn(line, 2)]
<1>1. /\ IsType(ExplodeAndReturn(line, 1))
      /\ precacheinf' = AddPrecacheToTable(precacheinf, item)
      /\ wanted' = wanted \cup (ToSet(precacheinf') \ ToSet(precacheinf))
  BY DEF rconcmd_precache
<1>2. item \in PrecacheInfo
  <2>1. find_precachetype(ExplodeAndReturn(line, 1)) \in Types
    BY <1>1 DEF IsType, find_precachetype
  <2>2. ExplodeAndReturn(line, 2) \in Field
    BY FieldTyped
  <2> QED
    BY <2>1, <2>2 DEF PrecacheInfo, Field
<1> HIDE DEF item
<1> DEFINE R == PrecacheInfo
<1>3. precacheinf \in Seq(R) /\ wanted \subseteq R /\ item \in R
  BY <1>2 DEF TypeOK
<1> HIDE DEF R
<1>4. precacheinf' \in Seq(R)
  BY <1>1, <1>3 DEF AddPrecacheToTable
<1>5. ToSet(precacheinf') \subseteq R
  BY <1>4 DEF ToSet
<1> QED
  BY <1>1, <1>3, <1>4, <1>5 DEF R

\* The invariant holds when the server starts.
LEMMA TypedInitially == Init => TypeOK /\ TextsOK
<1> SUFFICES ASSUME Init PROVE TypeOK /\ TextsOK
  OBVIOUS
<1>1. Cells \in Nat \ {0} /\ MaxMaps \in Nat /\ Texts \subseteq Seq(STRING)
  BY RegistryAssumption
<1>2. text \in Texts /\ parsed = FALSE /\ Len(text) \in Nat
  BY <1>1 DEF Init
<1>3. cells \in Seq(0 .. Cells - 1) /\ nextcmdvariablesinfo \in 0 .. Cells /\ maps \in 0 .. MaxMaps
  BY <1>1 DEF Init
<1>4. /\ precacheinf \in Seq(PrecacheInfo) /\ addedcommands \in Seq([name : Commands, pointer : Functions])
      /\ cmd_argv \in Seq({Garbage} \cup Seq(STRING))
  BY DEF Init
<1>5. known \subseteq PrecacheInfo /\ wanted \subseteq PrecacheInfo /\ cmd_args \in 0 .. Len(text)
  BY <1>2 DEF Init
<1> QED
  BY <1>2, <1>3, <1>4, <1>5 DEF Init, TypeOK, TextsOK

\* Where cmd_args may point.
ArgsTyped == cmd_args \in 0 .. Len(text) \/ (cmd_args = Garbage /\ Tokens(text).over)

\* What Cmd_TokenizeString leaves behind.
LEMMA TextTaken ==
    ASSUME TypeOK, Cmd_TokenizeString
    PROVE  /\ cmd_argv' \in Seq({Garbage} \cup Seq(STRING)) /\ ArgsTyped'
           /\ TextsOK' /\ parsed' \in BOOLEAN /\ running' \in BOOLEAN
<1> DEFINE t == Tokens(text)
           Strings == Seq(STRING)
           Words == {Garbage} \cup Strings
<1>1. /\ UNCHANGED text /\ parsed' = TRUE /\ running \in BOOLEAN
      /\ IF t.over
         THEN ReadOn(t)
         ELSE cmd_argv' = t.argv /\ cmd_args' = t.args /\ UNCHANGED running
  BY DEF Cmd_TokenizeString, TypeOK
<1>2. text \in Texts /\ text \in Seq(STRING)
  BY RegistryAssumption DEF TypeOK
<1>3. t.argv \in Seq(Strings) /\ t.args \in 0 .. Len(text) /\ t.over \in BOOLEAN
  BY <1>2, TokensTyped
<1> HIDE DEF t, Strings
<1>4. t.argv \in Seq(Words) /\ Garbage \in Words /\ Len(t.argv) \in Nat
  <2>1. t.argv \in [1 .. Len(t.argv) -> Words] /\ Len(t.argv) \in Nat
    BY <1>3
  <2> QED
    BY <2>1
<1> HIDE DEF Words
<1>5. CASE ~t.over
  <2>1. cmd_argv' = t.argv /\ cmd_args' = t.args /\ UNCHANGED running
    BY <1>1, <1>5
  <2>2. TextsOK'
    BY <1>1, <1>2, <2>1 DEF TextsOK, t
  <2>3. ArgsTyped'
    BY <1>1, <1>3, <2>1 DEF ArgsTyped
  <2> QED
    BY <1>1, <1>4, <2>1, <2>2, <2>3 DEF Words, Strings
<1>6. CASE t.over
  <2>1. PICK n \in 0 .. MaxArgs - Len(t.argv) :
           /\ cmd_argv' = t.argv \o [k \in 1 .. n |-> Garbage]
           /\ cmd_args' = Garbage \/ cmd_args' = t.args
    BY <1>1, <1>6 DEF ReadOn
  <2>2. running' \in BOOLEAN
    BY <1>1, <1>6 DEF ReadOn
  <2>3. n \in Nat
    BY <1>4, ConsoleTextAssumption
  <2>4. [k \in 1 .. n |-> Garbage] \in Seq(Words)
    BY <1>4, <2>3
  <2>5. cmd_argv' \in Seq(Words)
    BY <1>4, <2>1, <2>4
  <2>6. TextsOK'
    BY <1>1, <1>2, <1>6 DEF TextsOK, t
  <2>7. ArgsTyped'
    BY <1>1, <1>3, <1>6, <2>1 DEF ArgsTyped, t
  <2> QED
    BY <1>1, <2>2, <2>5, <2>6, <2>7 DEF Words, Strings
<1> QED
  BY <1>3, <1>5, <1>6

\* Both are kept by every step.
THEOREM NextTyped == TypeOK /\ TextsOK /\ [Next]_vars => TypeOK' /\ TextsOK'
<1> SUFFICES ASSUME TypeOK, TextsOK, [Next]_vars PROVE TypeOK' /\ TextsOK'
  OBVIOUS
<1>1. UNCHANGED <<text, parsed, cmd_argv, cmd_args>> => TextsOK'
  BY DEF TextsOK
<1>2. Cells \in Nat \ {0} /\ MaxMaps \in Nat /\ Items \subseteq PrecacheInfo
  BY RegistryAssumption
<1>3. CASE OnServerChangeMap
  <2>1. maps' \in 0 .. MaxMaps
    BY <1>2, <1>3 DEF OnServerChangeMap, TypeOK
  <2>2. precacheinf' = precacheinf
    BY <1>3 DEF OnServerChangeMap, PreloadCached
  <2>3. ToSet(precacheinf) \subseteq PrecacheInfo
    <3> DEFINE R == PrecacheInfo
    <3>1. precacheinf \in Seq(R)
      BY DEF TypeOK
    <3> HIDE DEF R
    <3>2. ToSet(precacheinf) \subseteq R
      BY <3>1 DEF ToSet
    <3> QED
      BY <3>2 DEF R
  <2>4. known' \subseteq PrecacheInfo
    BY <1>3, <2>2, <2>3 DEF OnServerChangeMap
  <2> QED
    BY <1>1, <1>3, <2>1, <2>2, <2>4 DEF OnServerChangeMap, TypeOK, tokens
<1>4. ASSUME NEW item \in Items, Precache(item)
      PROVE  TypeOK' /\ TextsOK'
  <2>1. known' \subseteq PrecacheInfo
    BY <1>2, <1>4 DEF Precache, EnginePrecache, TypeOK
  <2> QED
    BY <1>1, <1>4, <2>1 DEF Precache, TypeOK, tokens
<1>5. ASSUME NEW name \in Commands, NEW function \in Functions, AddServerCommand(name, function)
      PROVE  TypeOK' /\ TextsOK'
  <2>1. addedcommands' \in Seq(Command)
    <3> DEFINE c == [name |-> name, pointer |-> function]
    <3>1. c \in Command /\ addedcommands \in Seq(Command) /\ addedcommands' = Append(addedcommands, c)
      BY <1>5 DEF AddServerCommand, Command, TypeOK
    <3> HIDE DEF c
    <3> QED
      BY <3>1
  <2>2. nextcmdvariablesinfo' \in 0 .. Cells
    BY <1>2, <1>5 DEF AddServerCommand, TypeOK
  <2> QED
    BY <1>1, <1>5, <2>1, <2>2 DEF AddServerCommand, TypeOK, tokens, Command
<1>6. CASE Cvar_RegisterVariable
  <2>1. /\ nextcmdvariablesinfo' \in 0 .. Cells /\ nextcmdvariablesinfo \in 0 .. Cells - 1
        /\ cells' = Append(cells, nextcmdvariablesinfo) /\ cells \in Seq(0 .. Cells - 1)
    BY <1>2, <1>6 DEF Cvar_RegisterVariable, TypeOK
  <2> DEFINE places == 0 .. Cells - 1
  <2>2. cells' \in Seq(places)
    <3>1. nextcmdvariablesinfo \in places /\ cells \in Seq(places)
      BY <2>1
    <3> HIDE DEF places
    <3> QED
      BY <2>1, <3>1
  <2> QED
    BY <1>1, <1>6, <2>1, <2>2 DEF Cvar_RegisterVariable, TypeOK, tokens
<1>7. ASSUME NEW line \in Lines, rconcmd_precache(line)
      PROVE  TypeOK' /\ TextsOK'
  <2>1. precacheinf' \in Seq(PrecacheInfo) /\ wanted' \subseteq PrecacheInfo
    BY <1>7, PreloadTyped
  <2> QED
    BY <1>1, <1>7, <2>1 DEF rconcmd_precache, TypeOK, tokens
<1>8. ASSUME NEW line \in Lines, rconcmd_emitambsound(line)
      PROVE  TypeOK' /\ TextsOK'
  <2> DEFINE sample == [type |-> "sound", name |-> ExplodeAndReturn(line, 1)]
  <2>1. sample \in PrecacheInfo
    <3>1. ExplodeAndReturn(line, 1) \in Field
      BY FieldTyped
    <3> QED
      BY <3>1 DEF PrecacheInfo, Types, Field
  <2> HIDE DEF sample
  <2>2. known' \subseteq PrecacheInfo
    BY <1>8, <2>1 DEF rconcmd_emitambsound, EnginePrecache, TypeOK, sample
  <2> QED
    BY <1>1, <1>8, <2>2 DEF rconcmd_emitambsound, TypeOK, tokens
<1>9. ASSUME NEW line \in Lines, FieldFault(line)
      PROVE  TypeOK' /\ TextsOK'
  BY <1>1, <1>9 DEF FieldFault, TypeOK, tokens
<1>10. CASE Cmd_TokenizeString
  <2>1. /\ cmd_argv' \in Seq({Garbage} \cup Seq(STRING)) /\ ArgsTyped'
        /\ TextsOK' /\ parsed' \in BOOLEAN /\ running' \in BOOLEAN
    BY <1>10, TextTaken
  <2> QED
    BY <1>10, <2>1 DEF Cmd_TokenizeString, TypeOK, ArgsTyped
<1>11. CASE UNCHANGED vars
  BY <1>1, <1>11 DEF vars, tokens, TypeOK
<1> QED
  BY <1>3, <1>4, <1>5, <1>6, <1>7, <1>8, <1>9, <1>10, <1>11 DEF Next, Stopped

\* The variables have their types, and closed texts are taken for what Tokens says.
THEOREM SpecTyped == Spec => [](TypeOK /\ TextsOK)
<1> QED
  BY TypedInitially, NextTyped, PTL DEF Spec

\* The variables have their types, and cmd_args leaves the text only where a quoted
\* text in it is not closed.
THEOREM Typing == Spec => []TypeOK
<1> QED
  BY SpecTyped, PTL

\* The fields of a text hold no space, and spell it when they are joined.
THEOREM FieldsSpell == Spec => []FieldsSpellText
<1>1. TextsOK => FieldsSpellText
  <2> SUFFICES ASSUME TextsOK PROVE FieldsSpellText
    OBVIOUS
  <2>1. text \in Seq(STRING)
    BY RegistryAssumption DEF TextsOK
  <2> QED
    BY <2>1, ExplodeSpells DEF FieldsSpellText
<1> QED
  BY <1>1, SpecTyped, PTL

\* cmd_args leads to the text of the tokens after the first.
THEOREM ArgsFollow == Spec => []ArgsFollowCommand
<1>1. TextsOK => ArgsFollowCommand
  <2> SUFFICES ASSUME TextsOK, parsed, ~Tokens(text).over, Len(cmd_argv) < MaxArgs
               PROVE  IF cmd_args = 0
                      THEN Len(cmd_argv) < 2
                      ELSE Tokens(SubSeq(text, cmd_args, Len(text))).argv = Tail(cmd_argv)
    BY DEF ArgsFollowCommand
  <2>1. text \in Seq(STRING)
    BY RegistryAssumption DEF TextsOK
  <2>2. cmd_args = Tokens(text).args /\ cmd_argv = Tokens(text).argv
    BY DEF TextsOK
  <2> QED
    BY <2>1, <2>2, ArgsLead
<1> QED
  BY <1>1, SpecTyped, PTL

\* The tokens of a plain text are its fields.
THEOREM PlainTextsAgree == Spec => []TokensAreFields
<1>1. TextsOK => TokensAreFields
  <2> SUFFICES ASSUME TextsOK, parsed, IsPlain(text)
               PROVE  LET fields == explode(text)
                      IN  cmd_argv = SubSeq(fields, 1, IF Len(fields) < MaxArgs THEN Len(fields) ELSE MaxArgs)
    BY DEF TokensAreFields
  <2>1. text \in Seq(STRING) /\ Zero \notin ToSet(text)
    BY RegistryAssumption DEF TextsOK
  <2>2. Plain(text)
    <3>1. explode(text) \in FieldsOf(STRING)
      BY <2>1, ExplodeCuts
    <3>2. \A n \in 1 .. Len(explode(text)) : explode(text)[n] \in ToSet(explode(text))
      BY <3>1 DEF FieldsOf, ToSet
    <3>3. \A p \in 1 .. Len(text) : text[p] \in ToSet(text)
      BY <2>1 DEF ToSet
    <3>4. \A p \in 1 .. Len(text) : text[p] \notin {Zero, NewLine, Quote, Slash}
      BY <2>1, <3>3 DEF IsPlain
    <3> QED
      BY <3>2, <3>4 DEF IsPlain, Plain
  <2>3. /\ Tokens(text).argv =
              SubSeq(explode(text), 1,
                     IF Len(explode(text)) < MaxArgs THEN Len(explode(text)) ELSE MaxArgs)
        /\ ~Tokens(text).over
    BY <2>1, <2>2, PlainTokens
  <2> QED
    BY <2>3 DEF TextsOK
<1> QED
  BY <1>1, SpecTyped, PTL

=================================================================================
