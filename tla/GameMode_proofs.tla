---------------------------- MODULE GameMode_proofs ----------------------------
(***************************************************************************)
(* Theorems about the life of the gamemode, for every set of configuration *)
(* files and every number of readings.                                     *)
(***************************************************************************)
EXTENDS GameMode, FiniteSetTheorems, TLAPS

\* The plugins lines before line n.
PluginLines(n) == {k \in DOMAIN config : k < n /\ config[k] = "plugins"}

\* The gamemode line that is being obeyed.
Loading == {"main", "init", "hooks", "restart"}

Typed ==
    /\ config \in Seq(Lines) /\ config \in Configs
    /\ server \in {"up", "exited", "crashed"}
    /\ step \in Steps
    /\ line \in Nat /\ line \in 1 .. Len(config) + 1
    /\ reads \in 0 .. MaxReads
    /\ loads \in Nat
    /\ inits \in 0 .. 1
    /\ hooked \in BOOLEAN
    /\ GMLoaded \in BOOLEAN
    /\ pluginLoads \in Nat
    /\ early \in BOOLEAN

\* A gamemode is uninitialised exactly from its loading to its OnGameModeInit;
\* the hooks are in place from the end of the first one's initialisation on.
LifeOK ==
    /\ hooked => loads > 0 /\ server # "crashed"
    /\ step \in Loading => loads > 0 /\ line <= Len(config)
    /\ step \in {"main", "init"} => inits = 0
    /\ step \notin {"main", "init"} /\ loads > 0 => inits = 1
    /\ step \in {"main", "init", "hooks"} /\ loads = 1 => ~hooked
    /\ step \in {"players", "plugins"} /\ server = "up" => loads > 0
    /\ early => loads > 1

\* Every plugins line has been obeyed once at most: those before the present
\* line in the reading that is under way, and none before the first of them.
PluginsOK ==
    /\ ~GMLoaded => pluginLoads = 0
    /\ step \in Loading \cup {"parse"} => pluginLoads <= Cardinality(PluginLines(line))
    /\ pluginLoads <= Cardinality(PluginLines(Len(config) + 1))

IInv == Typed /\ LifeOK /\ PluginsOK

-----------------------------------------------------------------------------
(* Counting the plugins lines.                                             *)

\* The lines before the one after p, and the plugins lines among them.
LEMMA PluginLinesCount ==
    ASSUME config \in Seq(Lines), NEW n \in Nat, NEW m \in Nat, n <= m
    PROVE  /\ IsFiniteSet(PluginLines(n))
           /\ Cardinality(PluginLines(n)) \in Nat
           /\ Cardinality(PluginLines(n)) <= Cardinality(PluginLines(m))
           /\ n \in DOMAIN config /\ config[n] = "plugins" =>
                 Cardinality(PluginLines(n + 1)) = Cardinality(PluginLines(n)) + 1
<1>1. DOMAIN config = 1 .. Len(config) /\ Len(config) \in Nat
  OBVIOUS
<1>2. IsFiniteSet(DOMAIN config)
  BY <1>1, FS_Interval
<1>3. \A k \in Nat : IsFiniteSet(PluginLines(k)) /\ Cardinality(PluginLines(k)) \in Nat
  BY <1>2, FS_Subset, FS_CardinalityType DEF PluginLines
<1>4. PluginLines(n) \subseteq PluginLines(m)
  BY <1>1 DEF PluginLines
<1>5. Cardinality(PluginLines(n)) <= Cardinality(PluginLines(m))
  BY <1>3, <1>4, FS_Subset
<1>6. ASSUME n \in DOMAIN config, config[n] = "plugins"
      PROVE  Cardinality(PluginLines(n + 1)) = Cardinality(PluginLines(n)) + 1
  <2>1. PluginLines(n + 1) = PluginLines(n) \cup {n} /\ n \notin PluginLines(n)
    BY <1>1, <1>6 DEF PluginLines
  <2> QED
    BY <1>3, <2>1, FS_AddElement
<1> QED
  BY <1>3, <1>5, <1>6

-----------------------------------------------------------------------------
(* The invariant is kept.                                                  *)

\* A started server reads a file that no line of has been obeyed yet.
LEMMA Initially == Init => IInv
<1> SUFFICES ASSUME Init PROVE IInv
  OBVIOUS
<1>1. config \in Seq(Lines) /\ Len(config) \in Nat
  BY GameModeAssumption DEF Init
<1>2. Typed
  <2>1. 1 \in 1 .. Len(config) + 1 /\ 0 \in 0 .. MaxReads
    BY <1>1, GameModeAssumption
  <2>2. line \in Nat /\ line \in 1 .. Len(config) + 1 /\ reads \in 0 .. MaxReads
    BY <2>1 DEF Init
  <2>3. inits \in 0 .. 1 /\ loads \in Nat /\ pluginLoads \in Nat /\ step \in Steps
    BY DEF Init, Steps
  <2>4. /\ config \in Configs /\ server \in {"up", "exited", "crashed"}
        /\ hooked \in BOOLEAN /\ GMLoaded \in BOOLEAN /\ early \in BOOLEAN
    BY DEF Init
  <2> QED
    BY <1>1, <2>2, <2>3, <2>4 DEF Typed
<1>3. Cardinality(PluginLines(Len(config) + 1)) \in Nat
  BY <1>1, PluginLinesCount
<1>4. LifeOK /\ PluginsOK
  BY <1>3 DEF Init, LifeOK, PluginsOK, Loading
<1> QED
  BY <1>2, <1>4 DEF IInv

\* Every step keeps the variables in their types.
LEMMA TypesKept ==
    ASSUME IInv, [Next]_vars
    PROVE  Typed' /\ UNCHANGED config
<1>1. config \in Seq(Lines) /\ Len(config) \in Nat
  BY DEF IInv, Typed
<1>2. CASE ParseConfigFile
  <2>1. 1 \in 1 .. Len(config) + 1 /\ reads + 1 \in 0 .. MaxReads
    BY <1>1, <1>2, GameModeAssumption DEF ParseConfigFile, IInv, Typed
  <2> QED
    BY <1>1, <1>2, <2>1 DEF ParseConfigFile, At, IInv, Typed, Steps
<1>3. CASE SkipConfigFile \/ EndOfConfig \/ ExecMain \/ MainHooks \/ PluginsThink
  BY <1>1, <1>3
     DEF SkipConfigFile, EndOfConfig, ExecMain, MainHooks, PluginsThink, At, IInv, Typed, Steps
<1>4. CASE LoadScript \/ LoadScriptFails
  BY <1>1, <1>4 DEF LoadScript, LoadScriptFails, IsLine, At, IInv, Typed, Steps
<1>5. CASE UpdateRate \/ ParsePlugins
  <2>1. line + 1 \in 1 .. Len(config) + 1 /\ line + 1 \in Nat /\ pluginLoads + 1 \in Nat
    BY <1>1, <1>5 DEF UpdateRate, ParsePlugins, IsLine, IInv, Typed
  <2>2. line' = line + 1 /\ pluginLoads' \in {pluginLoads, pluginLoads + 1}
    BY <1>5 DEF UpdateRate, ParsePlugins
  <2>3. line' \in 1 .. Len(config) + 1 /\ line' \in Nat /\ pluginLoads' \in Nat
    BY <2>1, <2>2 DEF IInv, Typed
  <2> QED
    BY <1>5, <2>3 DEF UpdateRate, ParsePlugins, IInv, Typed
<1>6. CASE OnGameModeInit
  BY <1>1, <1>6 DEF OnGameModeInit, At, IInv, Typed, LifeOK, Steps
<1>7. CASE RestartMap
  BY <1>1, <1>7
     DEF RestartMap, FindPublic, NoteEvent, At, IInv, Typed, LifeOK, Loading, Steps
<1>8. CASE OnServerThink \/ UpdatePlayers \/ EngineEvent
  BY <1>1, <1>8
     DEF OnServerThink, UpdatePlayers, EngineEvent, FindPublic, NoteEvent, At, IInv, Typed, Steps
<1>9. CASE Stopped \/ UNCHANGED vars
  BY <1>9 DEF Stopped, vars, IInv, Typed
<1> QED
  BY <1>2, <1>3, <1>4, <1>5, <1>6, <1>7, <1>8, <1>9 DEF Next

\* Every step keeps what a gamemode without its OnGameModeInit goes with.
LEMMA LifeKept ==
    ASSUME IInv, [Next]_vars
    PROVE  LifeOK'
<1>1. CASE ParseConfigFile \/ SkipConfigFile \/ EndOfConfig \/ PluginsThink
  BY <1>1
     DEF ParseConfigFile, SkipConfigFile, EndOfConfig, PluginsThink, At, IInv, Typed, LifeOK, Loading
<1>2. CASE LoadScript \/ LoadScriptFails
  BY <1>2 DEF LoadScript, LoadScriptFails, IsLine, At, IInv, Typed, LifeOK, Loading
<1>3. CASE UpdateRate \/ ParsePlugins
  BY <1>3 DEF UpdateRate, ParsePlugins, IsLine, At, IInv, Typed, LifeOK, Loading
<1>4. CASE ExecMain \/ OnGameModeInit \/ MainHooks
  BY <1>4 DEF ExecMain, OnGameModeInit, MainHooks, At, IInv, Typed, LifeOK, Loading
<1>5. CASE RestartMap \/ OnServerThink \/ UpdatePlayers
  BY <1>5
     DEF RestartMap, OnServerThink, UpdatePlayers, FindPublic, NoteEvent, At, IInv,
         Typed, LifeOK, Loading
<1>6. CASE EngineEvent
  BY <1>6 DEF EngineEvent, IsLine, FindPublic, NoteEvent, At, IInv, Typed, LifeOK, Loading
<1>7. CASE Stopped \/ UNCHANGED vars
  BY <1>7 DEF Stopped, vars, IInv, LifeOK
<1> QED
  BY <1>1, <1>2, <1>3, <1>4, <1>5, <1>6, <1>7 DEF Next

\* Every step keeps the count of obeyed plugins lines in step with the reading.
LEMMA PluginsKept ==
    ASSUME IInv, [Next]_vars
    PROVE  PluginsOK'
<1> DEFINE Count(n) == Cardinality(PluginLines(n))
           end == Len(config) + 1
<1>1. /\ config \in Seq(Lines) /\ Len(config) \in Nat
      /\ line \in 1 .. end /\ line \in Nat /\ end \in Nat
      /\ pluginLoads \in Nat /\ config' = config
  BY TypesKept DEF IInv, Typed
<1>2. /\ \A n \in Nat : Count(n) \in Nat
      /\ \A n, m \in Nat : n <= m => Count(n) <= Count(m)
      /\ \A n \in Nat : n \in DOMAIN config /\ config[n] = "plugins" =>
            Count(n + 1) = Count(n) + 1
  <2>1. ASSUME NEW n \in Nat, NEW m \in Nat, n <= m
        PROVE  /\ Count(n) \in Nat /\ Count(n) <= Count(m)
               /\ n \in DOMAIN config /\ config[n] = "plugins" =>
                     Count(n + 1) = Count(n) + 1
    BY <1>1, <2>1, PluginLinesCount
  <2> QED
    BY <2>1
<1>3. /\ PluginLines(line)' = PluginLines(line')
      /\ PluginLines(Len(config) + 1)' = PluginLines(end)
  BY <1>1 DEF PluginLines
<1> HIDE DEF Count, end
<1>4. /\ ~GMLoaded => pluginLoads = 0
      /\ step \in Loading \cup {"parse"} => pluginLoads <= Count(line)
      /\ pluginLoads <= Count(end)
  BY DEF IInv, PluginsOK, Count, end
<1> SUFFICES /\ ~GMLoaded' => pluginLoads' = 0
             /\ step' \in Loading \cup {"parse"} => pluginLoads' <= Count(line')
             /\ pluginLoads' <= Count(end)
  BY <1>3 DEF PluginsOK, Count
<1>5. CASE ParseConfigFile
  BY <1>1, <1>2, <1>4, <1>5 DEF ParseConfigFile
<1>6. CASE ParsePlugins
  <2>1. /\ line \in DOMAIN config /\ config[line] = "plugins" /\ step = "parse"
        /\ pluginLoads' = pluginLoads + 1 /\ GMLoaded' /\ line' = line + 1
    BY <1>1, <1>6 DEF ParsePlugins, IsLine, At
  <2>2. line + 1 <= end /\ line + 1 \in Nat
    BY <1>1, <2>1 DEF end
  <2>3. Count(line + 1) = Count(line) + 1 /\ Count(line + 1) <= Count(end)
    BY <1>1, <1>2, <2>1, <2>2
  <2>4. Count(line) \in Nat /\ Count(end) \in Nat
    BY <1>1, <1>2
  <2> QED
    BY <1>1, <1>4, <2>1, <2>3, <2>4
<1>7. CASE UpdateRate \/ RestartMap
  <2>1. /\ step \in Loading \cup {"parse"}
        /\ line' = line + 1 /\ UNCHANGED <<GMLoaded, pluginLoads>>
    BY <1>7 DEF UpdateRate, RestartMap, IsLine, At, Loading
  <2>2. line \in Nat /\ line + 1 \in Nat /\ line <= line + 1
    BY <1>1
  <2>3. /\ Count(line) <= Count(line + 1)
        /\ Count(line) \in Nat /\ Count(line + 1) \in Nat
    BY <1>2, <2>2
  <2> QED
    BY <1>1, <1>4, <2>1, <2>3
<1>8. ASSUME UNCHANGED <<GMLoaded, pluginLoads, line>>,
             step' \in Loading \cup {"parse"} => step \in Loading \cup {"parse"}
      PROVE  /\ ~GMLoaded' => pluginLoads' = 0
             /\ step' \in Loading \cup {"parse"} => pluginLoads' <= Count(line')
             /\ pluginLoads' <= Count(end)
  BY <1>4, <1>8
<1>9. CASE \/ SkipConfigFile \/ EndOfConfig \/ LoadScript \/ LoadScriptFails
           \/ ExecMain \/ OnGameModeInit \/ MainHooks
  BY <1>8, <1>9
     DEF SkipConfigFile, EndOfConfig, LoadScript, LoadScriptFails, ExecMain,
         OnGameModeInit, MainHooks, IsLine, At, Loading
<1>10. CASE \/ OnServerThink \/ UpdatePlayers \/ PluginsThink \/ EngineEvent
            \/ Stopped \/ UNCHANGED vars
  BY <1>8, <1>10
     DEF OnServerThink, UpdatePlayers, PluginsThink, EngineEvent, Stopped, vars, Loading
<1> QED
  BY <1>5, <1>6, <1>7, <1>9, <1>10 DEF Next

\* The invariant is inductive: whatever line, hook or frame comes next keeps it.
THEOREM NextIInv == IInv /\ [Next]_vars => IInv'
BY TypesKept, LifeKept, PluginsKept DEF IInv

\* It therefore holds all along.
THEOREM SpecIInv == Spec => []IInv
BY Initially, NextIInv, PTL DEF Spec

-----------------------------------------------------------------------------
(* What follows for the specification.                                     *)

\* Every variable stays in its type: the reading of the configuration never
\* leaves the file, and a gamemode is initialised once at most.
THEOREM TypesHold == Spec => []TypeOK
<1>1. IInv => TypeOK
  BY DEF IInv, Typed, TypeOK
<1> QED
  BY <1>1, SpecIInv, PTL

\* Whatever the configuration, a hook finds a gamemode.
THEOREM HooksHaveGamemode == Spec => []HooksFindGamemode
<1>1. IInv => HooksFindGamemode
  BY DEF IInv, LifeOK, HooksFindGamemode
<1> QED
  BY <1>1, SpecIInv, PTL

\* Whatever its main does, the first gamemode is initialised before its events
\* and before a frame gets as far as the players.
THEOREM FirstInitBeforeEvents == Spec => []InitBeforeEvents
<1>1. IInv => InitBeforeEvents
  BY DEF IInv, LifeOK, InitBeforeEvents
<1> QED
  BY <1>1, SpecIInv, PTL

\* However often the file is read, each of its plugins lines is obeyed once.
THEOREM PluginLinesOnce == Spec => []PluginsOnce
<1>1. IInv => PluginsOnce
  <2> SUFFICES ASSUME IInv
               PROVE  pluginLoads <= Cardinality({k \in DOMAIN config : config[k] = "plugins"})
    BY DEF PluginsOnce
  <2>1. {k \in DOMAIN config : config[k] = "plugins"} = PluginLines(Len(config) + 1)
    BY DEF IInv, Typed, PluginLines
  <2> QED
    BY <2>1 DEF IInv, PluginsOK
<1> QED
  BY <1>1, SpecIInv, PTL

-----------------------------------------------------------------------------
(* How often the gamemode is loaded.                                       *)

\* The gamemode lines before line n.
GamemodeLines(n) == {k \in DOMAIN config : k < n /\ config[k] = "gamemode"}

\* The line after the one that is being obeyed, in a reading of the file.
NextLine == IF step \in Loading THEN line + 1 ELSE line

\* In a file with a plugins line each gamemode line has been obeyed once at
\* most: a reading that starts finds none obeyed, for one that ended has set
\* GMLoaded.
LoadsOK ==
    /\ step \in Loading => config[line] = "gamemode"
    /\ step \in Loading \cup {"parse"} =>
          \A k \in DOMAIN config : k < line /\ config[k] = "plugins" => GMLoaded
    /\ Has("plugins") /\ step \notin Loading \cup {"parse"} /\ ~GMLoaded => loads = 0
    /\ Has("plugins") /\ step \in Loading \cup {"parse"} =>
          loads <= Cardinality(GamemodeLines(NextLine))
    /\ Has("plugins") => loads <= Cardinality(GamemodeLines(Len(config) + 1))

\* With a plugins line in the file each gamemode line loads one gamemode, however
\* many frames run.
GamemodeLinesOnce ==
    Has("plugins") =>
        loads <= Cardinality({k \in DOMAIN config : config[k] = "gamemode"})

\* Counting the gamemode lines.
LEMMA GamemodeLinesCount ==
    ASSUME config \in Seq(Lines), NEW n \in Nat, NEW m \in Nat, n <= m
    PROVE  /\ Cardinality(GamemodeLines(n)) \in Nat
           /\ Cardinality(GamemodeLines(n)) <= Cardinality(GamemodeLines(m))
           /\ n \in DOMAIN config /\ config[n] = "gamemode" =>
                 Cardinality(GamemodeLines(n + 1)) = Cardinality(GamemodeLines(n)) + 1
<1>1. DOMAIN config = 1 .. Len(config) /\ Len(config) \in Nat
  OBVIOUS
<1>2. IsFiniteSet(DOMAIN config)
  BY <1>1, FS_Interval
<1>3. \A k \in Nat : IsFiniteSet(GamemodeLines(k)) /\ Cardinality(GamemodeLines(k)) \in Nat
  BY <1>2, FS_Subset, FS_CardinalityType DEF GamemodeLines
<1>4. GamemodeLines(n) \subseteq GamemodeLines(m)
  BY <1>1 DEF GamemodeLines
<1>5. Cardinality(GamemodeLines(n)) <= Cardinality(GamemodeLines(m))
  BY <1>3, <1>4, FS_Subset
<1>6. ASSUME n \in DOMAIN config, config[n] = "gamemode"
      PROVE  Cardinality(GamemodeLines(n + 1)) = Cardinality(GamemodeLines(n)) + 1
  <2>1. GamemodeLines(n + 1) = GamemodeLines(n) \cup {n} /\ n \notin GamemodeLines(n)
    BY <1>1, <1>6 DEF GamemodeLines
  <2> QED
    BY <1>3, <2>1, FS_AddElement
<1> QED
  BY <1>3, <1>5, <1>6

\* Every step keeps the count of loads in step with the reading.
LEMMA LoadsKept ==
    ASSUME IInv, LoadsOK, [Next]_vars
    PROVE  LoadsOK'
<1> DEFINE Count(n) == Cardinality(GamemodeLines(n))
           end == Len(config) + 1
           Obeyed(n) == \E k \in DOMAIN config : k < n /\ config[k] = "plugins"
<1>1. /\ config \in Seq(Lines) /\ Len(config) \in Nat /\ DOMAIN config = 1 .. Len(config)
      /\ line \in 1 .. end /\ line \in Nat /\ end \in Nat
      /\ loads \in Nat /\ config' = config
  BY TypesKept DEF IInv, Typed
<1>2. /\ \A n \in Nat : Count(n) \in Nat
      /\ \A n, m \in Nat : n <= m => Count(n) <= Count(m)
      /\ \A n \in Nat : n \in DOMAIN config /\ config[n] = "gamemode" =>
            Count(n + 1) = Count(n) + 1
  <2>1. ASSUME NEW n \in Nat, NEW m \in Nat, n <= m
        PROVE  /\ Count(n) \in Nat /\ Count(n) <= Count(m)
               /\ n \in DOMAIN config /\ config[n] = "gamemode" =>
                     Count(n + 1) = Count(n) + 1
    BY <1>1, <2>1, GamemodeLinesCount
  <2> QED
    BY <2>1
<1>3. /\ GamemodeLines(NextLine)' = GamemodeLines(NextLine')
      /\ GamemodeLines(Len(config) + 1)' = GamemodeLines(end)
      /\ Has("plugins")' = Has("plugins")
  BY <1>1 DEF GamemodeLines, Has
<1>4. /\ Has("plugins") <=> Obeyed(end)
      /\ ~Obeyed(1)
      /\ \A n \in DOMAIN config : Obeyed(n + 1) => Obeyed(n) \/ config[n] = "plugins"
  BY <1>1 DEF Has
<1> DEFINE Good ==
      /\ step' \in Loading => config[line'] = "gamemode"
      /\ step' \in Loading \cup {"parse"} /\ Obeyed(line') => GMLoaded'
      /\ Has("plugins") /\ step' \notin Loading \cup {"parse"} /\ ~GMLoaded' => loads' = 0
      /\ Has("plugins") /\ step' \in Loading \cup {"parse"} => loads' <= Count(NextLine')
      /\ Has("plugins") => loads' <= Count(end)
<1>5. Good => LoadsOK'
  BY <1>1, <1>3 DEF LoadsOK
<1>6. /\ step \in Loading => config[line] = "gamemode" /\ line \in DOMAIN config
      /\ step \in Loading \cup {"parse"} /\ Obeyed(line) => GMLoaded
      /\ Has("plugins") /\ step \notin Loading \cup {"parse"} /\ ~GMLoaded => loads = 0
      /\ Has("plugins") /\ step \in Loading \cup {"parse"} => loads <= Count(NextLine)
      /\ Has("plugins") => loads <= Count(end)
  BY <1>1 DEF LoadsOK, IInv, LifeOK
<1> HIDE DEF Count, end, Obeyed
<1> SUFFICES Good
  BY <1>5
<1>7. CASE ParseConfigFile
  <2>1. /\ step' = "parse" /\ line' = 1 /\ loads' = loads /\ step = "frame" /\ ~GMLoaded
        /\ Has("plugins") => loads = 0
    BY <1>6, <1>7 DEF ParseConfigFile, At, Loading
  <2>2. NextLine' = 1 /\ Count(1) \in Nat /\ Count(end) \in Nat
    BY <1>1, <1>2, <2>1 DEF NextLine, Loading
  <2> QED
    BY <1>4, <2>1, <2>2 DEF Loading
<1>8. CASE EndOfConfig
  <2>1. /\ step' = "think" /\ UNCHANGED <<GMLoaded, loads>> /\ step = "parse" /\ line = end
    BY <1>1, <1>8 DEF EndOfConfig, At, end
  <2> QED
    BY <1>4, <1>6, <2>1 DEF Loading
<1>9. CASE LoadScript
  <2>1. /\ step' = "main" /\ step = "parse" /\ line' = line /\ loads' = loads + 1
        /\ GMLoaded' = GMLoaded /\ config[line] = "gamemode" /\ line \in DOMAIN config
    BY <1>1, <1>9 DEF LoadScript, IsLine, At
  <2>2. NextLine = line /\ NextLine' = line + 1 /\ line + 1 \in Nat /\ line + 1 <= end
    BY <1>1, <2>1 DEF NextLine, Loading, end
  <2>3. /\ Count(line + 1) = Count(line) + 1 /\ Count(line + 1) <= Count(end)
        /\ Count(line) \in Nat /\ Count(end) \in Nat
    BY <1>1, <1>2, <2>1, <2>2
  <2>4. Has("plugins") => loads' <= Count(line + 1)
    BY <1>1, <1>6, <2>1, <2>2, <2>3
  <2>5. Has("plugins") => loads' <= Count(end)
    BY <1>1, <2>1, <2>3, <2>4
  <2> QED
    BY <1>6, <2>1, <2>2, <2>4, <2>5 DEF Loading
<1>10. CASE UpdateRate \/ ParsePlugins
  <2>1. /\ step' = "parse" /\ step = "parse" /\ line' = line + 1 /\ loads' = loads
        /\ line \in DOMAIN config
    BY <1>1, <1>10 DEF UpdateRate, ParsePlugins, IsLine, At
  <2>2. /\ GMLoaded => GMLoaded'
        /\ config[line] = "plugins" => GMLoaded'
    BY <1>10 DEF UpdateRate, ParsePlugins, IsLine
  <2>3. NextLine = line /\ NextLine' = line + 1 /\ line + 1 \in Nat /\ line <= line + 1
    BY <1>1, <2>1 DEF NextLine, Loading
  <2>4. Count(line) <= Count(line + 1) /\ Count(line) \in Nat /\ Count(line + 1) \in Nat
    BY <1>1, <1>2, <2>3
  <2>5. Has("plugins") => loads' <= Count(line + 1)
    BY <1>1, <1>6, <2>1, <2>3, <2>4
  <2>6. Obeyed(line') => GMLoaded'
    BY <1>4, <1>6, <2>1, <2>2
  <2> QED
    BY <1>6, <2>1, <2>3, <2>5, <2>6 DEF Loading
<1>11. CASE RestartMap
  <2>1. /\ step' = "parse" /\ step = "restart" /\ line' = line + 1
        /\ UNCHANGED <<loads, GMLoaded>>
    BY <1>11 DEF RestartMap, At
  <2>2. NextLine = line + 1 /\ NextLine' = line + 1 /\ line \in DOMAIN config
        /\ config[line] = "gamemode"
    BY <1>6, <2>1 DEF NextLine, Loading
  <2> QED
    BY <1>4, <1>6, <2>1, <2>2 DEF Loading
<1>12. ASSUME UNCHANGED <<GMLoaded, loads, line>>,
              \/ step' = step
              \/ step \in Loading /\ step' \in Loading
              \/ step \notin Loading \cup {"parse"} /\ step' \notin Loading \cup {"parse"}
       PROVE  Good
  <2>1. step' \in Loading <=> step \in Loading
    BY <1>12
  <2>2. NextLine' = NextLine
    BY <1>12, <2>1 DEF NextLine
  <2> QED
    BY <1>6, <1>12, <2>1, <2>2
<1> HIDE DEF Good
<1>13. CASE \/ SkipConfigFile \/ LoadScriptFails \/ ExecMain \/ OnGameModeInit \/ MainHooks
  BY <1>12, <1>13
     DEF SkipConfigFile, LoadScriptFails, ExecMain, OnGameModeInit, MainHooks, IsLine,
         At, Loading
<1>14. CASE \/ OnServerThink \/ UpdatePlayers \/ PluginsThink \/ EngineEvent
            \/ Stopped \/ UNCHANGED vars
  BY <1>12, <1>14
     DEF OnServerThink, UpdatePlayers, PluginsThink, EngineEvent, Stopped, vars, At, Loading
<1> QED
  BY <1>7, <1>8, <1>9, <1>10, <1>11, <1>13, <1>14 DEF Next

\* "Only gets called once" (parseConfigFile) holds with a plugins line in the file:
\* each gamemode line is then obeyed once at most.
THEOREM LoadedOncePerLine == Spec => []GamemodeLinesOnce
<1>1. Init => IInv /\ LoadsOK
  <2> SUFFICES ASSUME Init PROVE LoadsOK
    BY Initially
  <2>1. config \in Seq(Lines) /\ Len(config) + 1 \in Nat
    BY Initially DEF IInv, Typed
  <2>2. Cardinality(GamemodeLines(Len(config) + 1)) \in Nat
    BY <2>1, GamemodeLinesCount
  <2> QED
    BY <2>2 DEF Init, LoadsOK, Loading
<1>2. IInv /\ LoadsOK /\ [Next]_vars => (IInv /\ LoadsOK)'
  BY NextIInv, LoadsKept
<1>3. IInv /\ LoadsOK => GamemodeLinesOnce
  <2> SUFFICES ASSUME IInv, LoadsOK, Has("plugins")
               PROVE  loads <= Cardinality({k \in DOMAIN config : config[k] = "gamemode"})
    BY DEF GamemodeLinesOnce
  <2>1. {k \in DOMAIN config : config[k] = "gamemode"} = GamemodeLines(Len(config) + 1)
    BY DEF IInv, Typed, GamemodeLines
  <2> QED
    BY <2>1 DEF LoadsOK
<1> QED
  BY <1>1, <1>2, <1>3, PTL DEF Spec

-----------------------------------------------------------------------------
(* How a server comes to play, or goes down.                               *)

\* No gamemode has been initialised yet, and the server is up.
Waiting == server = "up" /\ inits = 0 /\ loads <= 1

\* The steps a server may still take before its first gamemode is initialised or
\* it is down: a line each, the script's main and its OnGameModeInit.
Togo ==
    CASE step = "frame" -> Len(config) + 4
      [] step = "parse" -> Len(config) + 4 - line
      [] step = "main"  -> 2
      [] OTHER          -> 1

\* Every step of a server that waits brings it nearer, and it waits once only.
BringsUp ==
    [][/\ Waiting /\ Waiting' => Togo \in Nat /\ Togo' \in Nat /\ Togo' < Togo
       /\ ~Waiting => ~Waiting']_vars

\* The gamemode is missing when the server crashes, and never put there later.
CrashesWithoutGamemode == server = "crashed" => loads = 0

\* An initialised gamemode is a loaded one.
Crashed == CrashesWithoutGamemode /\ (inits = 1 => loads > 0)

\* Every step keeps both.
LEMMA CrashedKept ==
    ASSUME IInv, Crashed, [Next]_vars
    PROVE  Crashed'
<1> USE DEF Crashed, CrashesWithoutGamemode
<1>1. loads \in Nat
  BY DEF IInv, Typed
<1>2. CASE ParseConfigFile \/ SkipConfigFile \/ EndOfConfig \/ PluginsThink
  BY <1>2 DEF ParseConfigFile, SkipConfigFile, EndOfConfig, PluginsThink
<1>3. CASE LoadScript \/ LoadScriptFails \/ UpdateRate \/ ParsePlugins
  BY <1>1, <1>3 DEF LoadScript, LoadScriptFails, UpdateRate, ParsePlugins, IsLine, At
<1>4. CASE ExecMain \/ OnGameModeInit \/ MainHooks
  BY <1>1, <1>4 DEF ExecMain, OnGameModeInit, MainHooks, At, IInv, LifeOK, Loading
<1>5. CASE RestartMap \/ OnServerThink \/ UpdatePlayers \/ EngineEvent
  BY <1>1, <1>5 DEF RestartMap, OnServerThink, UpdatePlayers, EngineEvent, FindPublic, At
<1>6. CASE Stopped \/ UNCHANGED vars
  BY <1>6 DEF Stopped, vars
<1> QED
  BY <1>2, <1>3, <1>4, <1>5, <1>6 DEF Next

\* Both hold all along.
LEMMA SpecCrashed == Spec => [](IInv /\ Crashed)
<1>1. Init => IInv /\ Crashed
  BY Initially DEF Init, Crashed, CrashesWithoutGamemode
<1>2. IInv /\ Crashed /\ [Next]_vars => (IInv /\ Crashed)'
  BY NextIInv, CrashedKept
<1> QED
  BY <1>1, <1>2, PTL DEF Spec

\* Reading the gamemode's base brings the process down only when no gamemode has
\* ever been loaded: a loaded one keeps OnServerThink, UpdatePlayers and the hooks
\* from it.
THEOREM CrashMeansNoGamemode == Spec => []CrashesWithoutGamemode
<1>1. IInv /\ Crashed => CrashesWithoutGamemode
  BY DEF Crashed
<1> QED
  BY <1>1, SpecCrashed, PTL

\* One step of a server that waits.
LEMMA StepBringsUp ==
    ASSUME IInv, IInv', Next, Waiting, Waiting', config' = config
    PROVE  Togo \in Nat /\ Togo' \in Nat /\ Togo' < Togo
<1>1. /\ Len(config) \in Nat /\ line \in Nat /\ line \in 1 .. Len(config) + 1
      /\ loads \in {0, 1}
  BY DEF IInv, Typed, Waiting
<1>2. /\ \/ step \in {"frame", "parse", "think"} /\ loads = 0
         \/ step \in {"main", "init"} /\ loads = 1
      /\ ~hooked
  BY <1>1 DEF IInv, Typed, LifeOK, Waiting, Steps, Loading
<1>3. Togo \in Nat /\ Togo > 0
  BY <1>1 DEF Togo
<1>4. /\ Len(config) \in Nat /\ line' \in Nat /\ line' \in 1 .. Len(config) + 1
      /\ config' = config
  BY DEF IInv, Typed
<1>5. Togo' \in Nat
  BY <1>4 DEF Togo
<1>6. CASE ParseConfigFile \/ SkipConfigFile
  BY <1>1, <1>6 DEF ParseConfigFile, SkipConfigFile, At, Togo
<1>7. CASE EndOfConfig
  <2>1. step = "parse" /\ line = Len(config) + 1 /\ step' = "think"
    BY <1>1, <1>7 DEF EndOfConfig, At
  <2> QED
    BY <1>1, <2>1 DEF Togo
<1>8. CASE LoadScript
  <2>1. step = "parse" /\ line <= Len(config) /\ step' = "main"
    BY <1>8 DEF LoadScript, IsLine, At
  <2> QED
    BY <1>1, <2>1 DEF Togo
<1>9. CASE UpdateRate \/ ParsePlugins
  <2>1. /\ step = "parse" /\ step' = "parse" /\ line' = line + 1 /\ config' = config
    BY <1>9 DEF UpdateRate, ParsePlugins, IsLine, At
  <2> QED
    BY <1>1, <2>1 DEF Togo
<1>10. CASE ExecMain
  BY <1>10 DEF ExecMain, At, Togo
<1>11. CASE LoadScriptFails \/ OnGameModeInit \/ OnServerThink
  BY <1>2, <1>11
     DEF LoadScriptFails, OnGameModeInit, OnServerThink, FindPublic, Waiting, At
<1>12. CASE MainHooks \/ RestartMap \/ UpdatePlayers \/ PluginsThink \/ EngineEvent \/ Stopped
  BY <1>2, <1>12
     DEF MainHooks, RestartMap, UpdatePlayers, PluginsThink, EngineEvent, Stopped, Waiting, At
<1> QED
  BY <1>3, <1>5, <1>6, <1>7, <1>8, <1>9, <1>10, <1>11, <1>12 DEF Next

\* What EventuallyPlays rests on besides fairness: a started server is playing or
\* down after four steps and one for each line of its configuration, whatever the
\* configuration; no hook gets in between, for none is in place.
THEOREM ServerIsBroughtUp == Spec => BringsUp
<1>1. IInv /\ Crashed /\ [Next]_vars =>
        [/\ Waiting /\ Waiting' => Togo \in Nat /\ Togo' \in Nat /\ Togo' < Togo
         /\ ~Waiting => ~Waiting']_vars
  <2> SUFFICES ASSUME IInv, Crashed, Next
               PROVE  /\ Waiting /\ Waiting' => Togo \in Nat /\ Togo' \in Nat /\ Togo' < Togo
                      /\ ~Waiting => ~Waiting'
    OBVIOUS
  <2>1. IInv' /\ config' = config
    BY NextIInv, TypesKept
  <2>2. Waiting /\ Waiting' => Togo \in Nat /\ Togo' \in Nat /\ Togo' < Togo
    BY <2>1, StepBringsUp
  <2>3. /\ server # "up" => server' # "up"
        /\ loads' \in {loads, loads + 1}
        /\ inits = 1 => inits' = 1 \/ loads' = loads + 1
    <3>1. /\ inits \in 0 .. 1
          /\ At("init") => inits = 0
      BY DEF IInv, Typed, LifeOK, At
    <3>2. CASE ParseConfigFile \/ SkipConfigFile \/ EndOfConfig \/ PluginsThink
      BY <3>2 DEF ParseConfigFile, SkipConfigFile, EndOfConfig, PluginsThink
    <3>3. CASE LoadScript \/ LoadScriptFails \/ UpdateRate \/ ParsePlugins
      BY <3>3 DEF LoadScript, LoadScriptFails, UpdateRate, ParsePlugins, IsLine, At
    <3>4. CASE ExecMain \/ OnGameModeInit \/ MainHooks
      BY <3>1, <3>4 DEF ExecMain, OnGameModeInit, MainHooks, At
    <3>5. CASE RestartMap \/ OnServerThink \/ UpdatePlayers \/ EngineEvent
      BY <3>5 DEF RestartMap, OnServerThink, UpdatePlayers, EngineEvent, At
    <3>6. CASE Stopped
      BY <3>6 DEF Stopped, vars
    <3> QED
      BY <3>2, <3>3, <3>4, <3>5, <3>6 DEF Next
  <2>4. /\ loads \in Nat /\ inits \in {0, 1}
        /\ inits = 1 => loads > 0
    BY DEF IInv, Typed, Crashed
  <2>5. ~Waiting => ~Waiting'
    BY <2>3, <2>4 DEF Waiting
  <2> QED
    BY <2>2, <2>5
<1> QED
  BY <1>1, SpecCrashed, PTL DEF Spec, BringsUp

===============================================================================
