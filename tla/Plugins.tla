-------------------------------- MODULE Plugins --------------------------------
(***************************************************************************)
(* The table of plugins (plugins.cpp): loading, unloading by name, by slot *)
(* and altogether, and the loops that hand an event to every plugin.       *)
(*                                                                         *)
(* Every one of these operations calls a plugin in its middle, and the     *)
(* plugin may use a console command, which is executed at once: it may     *)
(* load and unload plugins, itself included, and cause further events.     *)
(* The operations in progress form a stack.                                *)
(*                                                                         *)
(* The operators marked "Slip" are no part of the specification: they say  *)
(* what plausible mistakes would make of the definition that follows them. *)
(***************************************************************************)
EXTENDS Integers, Sequences

CONSTANTS
    MaxPlugins, \* MAX_PLUGINS
    Files,      \* the plugin files there are: the parts of their paths
    Broken,     \* those of them with a program that cannot be loaded
    Nothing,    \* what an empty slot holds, and the name it starts with
    MaxLoads,   \* bound on the programs loaded
    MaxDepth    \* bound on the operations in progress

\* A file is looked for below the plugins' directory.
Path(file) == <<"plugins">> \o file

\* The part behind the first "/" of a path is what is stored of it: the name of a
\* file in that directory, and of any other file only the first directory's.
StoredName(file) == <<Path(file)[2]>>

Names == {StoredName(file) : file \in Files}

ASSUME PluginsAssumption ==
    /\ MaxPlugins \in Nat \ {0}
    /\ Files \subseteq Seq(STRING) \ {<<>>}
    /\ Broken \subseteq Files
    /\ Nothing \notin Names \cup [file : Files, id : Nat]
    /\ MaxLoads \in Nat
    /\ MaxDepth \in Nat

VARIABLES
    plugins,     \* inimod_plugins: the machine in each slot
    names,       \* inimod_plugins_name
    plugincount, \* inimod_plugincount: the slot loaded last
    loads,       \* machines made; each is named by its number
    stack,       \* the operations in progress, innermost first
    running,     \* FALSE once the process has crashed
    nested       \* history: a plugin has had a plugin unloaded

vars == <<plugins, names, plugincount, loads, stack, running, nested>>

Indices == 0 .. MaxPlugins - 1

Kinds == {"load", "unload", "unloadall", "event"}

\* A machine; the program of a broken file has no base.
Machine == [file : Files, id : Nat]

\* An operation that has called machine "id" in slot "at".  History: the
\* machines there were when it began, and those it has called.
Frame == [kind : Kinds, at : Indices, id : Nat, due : SUBSET Nat, got : SUBSET Nat]

Loaded(i) == plugins[i] # Nothing

Ids == {plugins[i].id : i \in {j \in Indices : Loaded(j)}}

Init ==
    /\ plugins = [i \in Indices |-> Nothing]
    /\ names = [i \in Indices |-> Nothing]
    /\ plugincount = 0
    /\ loads = 0
    /\ stack = <<>>
    /\ running = TRUE
    /\ nested = FALSE

-----------------------------------------------------------------------------
(* Looking a slot up.  Each is a set of at most one slot.                  *)

Lowest(S) == {i \in S : \A j \in S : i <= j}

\* Slip: a spot is one without a name.
FreeSpotUnnamed == Lowest({i \in Indices : names[i] = Nothing})

FreeSpot == Lowest({i \in Indices : ~Loaded(i)})

\* The first slot that has the name, whether or not it still has a plugin.
FindName(name) == Lowest({i \in Indices : names[i] = name})

\* Slip: the loops run up to the slot that was loaded last.
NextLoadedCounted(i) == Lowest({j \in Indices : j >= i /\ j <= plugincount /\ Loaded(j)})

\* The loops' test for NULL.
NextLoaded(i) == Lowest({j \in Indices : j >= i /\ Loaded(j)})

-----------------------------------------------------------------------------
(* Calling a plugin, and coming back.                                      *)

\* The innermost operation gets its plugin's code back in one piece.
Intact ==
    stack # <<>> =>
        /\ Loaded(Head(stack).at)
        /\ plugins[Head(stack).at].id = Head(stack).id

\* A console command: from the console, or from the plugin that is called.
Command == running /\ Intact /\ Len(stack) < MaxDepth

\* The call of a plugin has come back to an operation of this kind.
Back(kind) == running /\ Intact /\ stack # <<>> /\ Head(stack).kind = kind

\* amx_FindPublic and amx_Exec; without a base the former crashes.
Call(kind, i, due, got, rest) ==
    IF plugins[i].file \in Broken
    THEN running' = FALSE /\ UNCHANGED stack
    ELSE /\ stack' = <<[kind |-> kind, at |-> i, id |-> plugins[i].id,
                        due |-> due, got |-> got \cup {plugins[i].id}]>> \o rest
         /\ UNCHANGED running

-----------------------------------------------------------------------------
(* Loading.                                                                *)

LoadScript(file) ==
    /\ Command
    /\ loads < MaxLoads
    /\ \E i \in FreeSpot :
          /\ \A j \in 0 .. i - 1 : names[j] # Path(file)
          /\ plugins' = [plugins EXCEPT ![i] = [file |-> file, id |-> loads + 1]]
          /\ IF file \in Broken
             THEN UNCHANGED stack
             ELSE stack' = <<[kind |-> "load", at |-> i, id |-> loads + 1,
                              due |-> {}, got |-> {}]>> \o stack
    /\ loads' = loads + 1
    /\ UNCHANGED <<names, plugincount, running, nested>>

\* Slip: the number of plugins.
OnPluginInitCounting ==
    /\ Back("load")
    /\ plugincount' = Head(stack).at + 1
    /\ names' = [names EXCEPT ![Head(stack).at] = StoredName(plugins[Head(stack).at].file)]
    /\ stack' = Tail(stack)
    /\ UNCHANGED <<plugins, loads, running, nested>>

\* Slip: the name is stored where the previous plugin was loaded.
OnPluginInitLate ==
    /\ Back("load")
    /\ plugincount' = Head(stack).at
    /\ names' = [names EXCEPT ![plugincount] = StoredName(plugins[Head(stack).at].file)]
    /\ stack' = Tail(stack)
    /\ UNCHANGED <<plugins, loads, running, nested>>

\* OnPluginInit has returned; only now is the name stored.
OnPluginInit ==
    /\ Back("load")
    /\ plugincount' = Head(stack).at
    /\ names' = [names EXCEPT ![Head(stack).at] = StoredName(plugins[Head(stack).at].file)]
    /\ stack' = Tail(stack)
    /\ UNCHANGED <<plugins, loads, running, nested>>

-----------------------------------------------------------------------------
(* Unloading.                                                              *)

RemovePluginByName(name) ==
    /\ Command
    /\ \E i \in FindName(name) : Loaded(i) /\ Call("unload", i, {}, {}, stack)
    /\ nested' = (nested \/ stack # <<>>)
    /\ UNCHANGED <<plugins, names, plugincount, loads>>

\* OnPluginExit has returned.
RemovePlugin ==
    /\ Back("unload")
    /\ plugins' = [plugins EXCEPT ![Head(stack).at] = Nothing]
    /\ stack' = Tail(stack)
    /\ UNCHANGED <<names, plugincount, loads, running, nested>>

UnloadAllPlugins ==
    /\ Command
    /\ IF NextLoaded(0) = {}
       THEN plugincount' = 0 /\ UNCHANGED <<stack, running>>
       ELSE /\ \E i \in NextLoaded(0) : Call("unloadall", i, Ids, {}, stack)
            /\ UNCHANGED plugincount
    /\ nested' = (nested \/ stack # <<>>)
    /\ UNCHANGED <<plugins, names, loads>>

UnloadNext ==
    /\ Back("unloadall")
    /\ LET top  == Head(stack)
           next == NextLoaded(top.at + 1)
       IN  /\ plugins' = [plugins EXCEPT ![top.at] = Nothing]
           /\ IF next = {}
              THEN stack' = Tail(stack) /\ plugincount' = 0 /\ UNCHANGED running
              ELSE /\ \E i \in next : Call("unloadall", i, top.due, top.got, Tail(stack))
                   /\ UNCHANGED plugincount
    /\ UNCHANGED <<names, loads, nested>>

-----------------------------------------------------------------------------
(* Events.                                                                 *)

Event ==
    /\ Command
    /\ \E i \in NextLoaded(0) : Call("event", i, Ids, {}, stack)
    /\ UNCHANGED <<plugins, names, plugincount, loads, nested>>

EventNext ==
    /\ Back("event")
    /\ LET top  == Head(stack)
           next == NextLoaded(top.at + 1)
       IN  IF next = {}
           THEN stack' = Tail(stack) /\ UNCHANGED running
           ELSE \E i \in next : Call("event", i, top.due, top.got, Tail(stack))
    /\ UNCHANGED <<plugins, names, plugincount, loads, nested>>

\* The machine was freed while its code ran: undefined, and taken for a crash.
ReturnToFreed ==
    /\ running
    /\ ~Intact
    /\ running' = FALSE
    /\ UNCHANGED <<plugins, names, plugincount, loads, stack, nested>>

Stopped == ~running /\ UNCHANGED vars

Next ==
    \/ \E file \in Files : LoadScript(file)
    \/ \E name \in Names \cup Files : RemovePluginByName(name)
    \/ OnPluginInit
    \/ RemovePlugin
    \/ UnloadAllPlugins
    \/ UnloadNext
    \/ Event
    \/ EventNext
    \/ ReturnToFreed
    \/ Stopped

Spec == Init /\ [][Next]_vars

-----------------------------------------------------------------------------
(* Properties.                                                             *)

TypeOK ==
    /\ plugins \in [Indices -> Machine \cup {Nothing}]
    /\ names \in [Indices -> Names \cup {Nothing}]
    /\ plugincount \in Indices
    /\ loads \in 0 .. MaxLoads
    /\ stack \in Seq(Frame)
    /\ running \in BOOLEAN
    /\ nested \in BOOLEAN

\* Whatever is loaded and unloaded while an event is handed round, a plugin
\* that was there from its beginning to its end has been given it, and none has
\* been given it twice; and unloadallplugins leaves nothing of what there was
\* when it was given.
AudienceOf == INSTANCE Audience WITH
                  Ids     <- 1 .. MaxLoads,
                  members <- Ids,
                  ops     <- [k \in DOMAIN stack |->
                                [kind |-> stack[k].kind, id |-> stack[k].id,
                                 due |-> stack[k].due, got |-> stack[k].got]],
                  alive   <- running

ImplementsAudience == AudienceOf!Spec

\* The table of plugins brings the process down only when a plugin had a plugin
\* unloaded or a program could not be loaded: loads, events and unloads by the
\* console, and loads inside all of these, are safe.
CrashesExplained ==
    ~running =>
        nested \/ \E i \in Indices : Loaded(i) /\ plugins[i].file \in Broken

\* When no operation is in progress the name of a slot is what is stored of its
\* plugin's path, in whatever order the loads ended, and whatever plugins the slot
\* had before: unloadplugin knows a plugin by its file's name, and one of a further
\* directory, like all others of that directory, by the directory's.
NamesAreTrue ==
    running /\ stack = <<>> =>
        \A i \in Indices :
            Loaded(i) /\ plugins[i].file \notin Broken =>
                names[i] = StoredName(plugins[i].file)

\* "If we could find it, break out of the loop": RemovePluginByName returns
\* false only when it "couldn't find" the name among the loaded plugins.
UnloadFindsPlugin ==
    stack = <<>> =>
        \A name \in Names :
            (\E i \in Indices : Loaded(i) /\ names[i] = name) =>
                \E i \in FindName(name) : Loaded(i)

=============================================================================
