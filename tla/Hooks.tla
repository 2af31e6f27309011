--------------------------------- MODULE Hooks ---------------------------------
(***************************************************************************)
(* The hooks (hooks.cpp): code the engine is diverted to.  A hook stores   *)
(* the engine's registers, calls its handler and jumps back.               *)
(*                                                                         *)
(* The stored registers, the address to jump back to, the text buffer and  *)
(* the user id a hook looks up are global variables, one set for all       *)
(* hooks.  The handlers call scripts; a script may use a console command,  *)
(* and the command may make the engine call another hook, or the same,     *)
(* before the first is done.  Each call of a hook is an activation with a  *)
(* number of its own.                                                      *)
(*                                                                         *)
(* The operators marked "Slip" are no part of the specification: they say  *)
(* what plausible mistakes would make of the definition that follows them. *)
(***************************************************************************)
EXTENDS Integers, Sequences, SequencesExt

CONSTANTS
    Commanded, \* the hooks a console command can make the engine call
    MaxCalls,  \* bound on the activations
    MaxDepth   \* bound on the activations in progress

Registers == {"eax", "ebx", "ecx", "edx", "esi", "edi", "ebp", "esp"}

\* What a hook does.  "stores" are written to their globals on entry and
\* "restores" are read from them when the handler is done; "pushes" and "pops"
\* use the engine's stack; "jump" is when retJMP is set, and "never" returns by
\* the stack; "scripts" tells that the handler calls scripts.
Hook(stores, pushes, jump, scripts, restores, pops) ==
    [stores |-> stores, pushes |-> pushes, jump |-> jump, scripts |-> scripts,
     restores |-> restores, pops |-> pops]

General == {"eax", "ebx", "ecx", "edx", "edi", "esi"}

-----------------------------------------------------------------------------
(* The hooks of funcHooks.                                                 *)

OnTriggerEvent ==
    Hook({"ecx", "ebx", "eax", "edi"}, <<>>, "never", FALSE, {"ecx", "ebx", "eax"}, <<>>)

hookOnServerChangeMap ==
    Hook({}, <<"eax", "ecx", "edx">>, "never", TRUE, {}, <<"edx", "ecx", "eax">>)

hookOnHudInit == Hook(General, <<>>, "after", FALSE, General, <<>>)

hookOnMapLoaded == Hook({"eax"}, <<>>, "before", TRUE, {"eax"}, <<>>)

\* Slip: the address is set where the other hooks set it.
hookOnClientConnectEarly == Hook({"ecx"}, <<>>, "before", TRUE, {}, <<>>)

hookOnClientConnect == Hook({"ecx"}, <<>>, "after", TRUE, {}, <<>>)

hookOnClientReconnect ==
    Hook(General \cup {"ebp"}, <<>>, "after", TRUE, General \cup {"ebp"}, <<>>)

\* What it pushes is popped in the same order.
hookOnBotConnect ==
    Hook({}, <<"edx", "eax", "ecx">>, "before", TRUE, {}, <<"edx", "eax", "ecx">>)

hookOnClientDisconnect == Hook(General, <<>>, "before", TRUE, General, <<>>)

hookOnClientTimeOut == Hook(General, <<>>, "after", FALSE, General, <<>>)

hookOnFireBullets ==
    Hook(General \cup {"ebp"}, <<>>, "after", FALSE, General \cup {"ebp"}, <<>>)

hookOnDropFakeClient ==
    Hook(General \cup {"ebp"}, <<>>, "never", TRUE, General \cup {"ebp"}, <<>>)

\* Restores before its handler is called, as hookOnPlayerKilled does.
hookOnHostSay == Hook({"ecx", "edi"}, <<>>, "before", TRUE, {}, <<>>)

hookOnInvalidCommand ==
    Hook({}, <<"eax", "ecx", "edx", "ebx", "ebp", "esi", "edi">>, "before", TRUE,
         {}, <<"edi", "esi", "ebp", "ebx", "edx", "ecx", "eax">>)

hookOnPlayerKilled ==
    Hook({"ecx", "ebx", "eax", "edi"}, <<>>, "before", TRUE, {}, <<>>)

\* Slip: a register is restored that was not stored.
hookOnPlayerSpawnWide ==
    Hook({"ecx", "eax", "esi", "edx"}, <<>>, "before", TRUE,
         {"ecx", "eax", "esi", "edx", "edi"}, <<>>)

hookOnPlayerSpawn ==
    Hook({"ecx", "eax", "esi", "edx"}, <<>>, "before", TRUE,
         {"ecx", "eax", "esi", "edx"}, <<>>)

hookOnPlayerEquip == Hook(General, <<>>, "never", TRUE, General, <<>>)

\* Its handler keeps the stack pointer in tempESP while it runs; tempEAX holds
\* an argument.
hookOnSV_DisconnectClient == Hook({"eax", "esp"}, <<>>, "after", TRUE, {"esp"}, <<>>)

funcHooks ==
    [hookOnServerChangeMap     |-> hookOnServerChangeMap,
     hookOnClientConnect       |-> hookOnClientConnect,
     hookOnClientDisconnect    |-> hookOnClientDisconnect,
     OnTriggerEvent            |-> OnTriggerEvent,
     hookOnBotConnect          |-> hookOnBotConnect,
     hookOnHostSay             |-> hookOnHostSay,
     hookOnPlayerKilled        |-> hookOnPlayerKilled,
     hookOnPlayerSpawn         |-> hookOnPlayerSpawn,
     hookOnPlayerEquip         |-> hookOnPlayerEquip,
     hookOnMapLoaded           |-> hookOnMapLoaded,
     hookOnClientTimeOut       |-> hookOnClientTimeOut,
     hookOnFireBullets         |-> hookOnFireBullets,
     hookOnHudInit             |-> hookOnHudInit,
     hookOnDropFakeClient      |-> hookOnDropFakeClient,
     hookOnClientReconnect     |-> hookOnClientReconnect,
     hookOnSV_DisconnectClient |-> hookOnSV_DisconnectClient,
     hookOnInvalidCommand      |-> hookOnInvalidCommand]

Hooks == DOMAIN funcHooks

ASSUME HooksAssumption ==
    /\ Commanded \subseteq Hooks
    /\ MaxCalls \in Nat
    /\ MaxDepth \in Nat

\* The hooks whose handler copies a text into value.
Texts == {"hookOnHostSay", "hookOnInvalidCommand", "OnTriggerEvent"}

\* The hooks that look a client's user id up and hand it to scripts.
Events == {"hookOnHostSay", "hookOnPlayerKilled", "hookOnPlayerSpawn", "hookOnPlayerEquip"}

\* The hooks that do nothing for a bad edict, or for a register that is zero.
Skipping == {"hookOnBotConnect", "hookOnInvalidCommand", "OnTriggerEvent"}

\* Whose user id a global or an argument holds, if it is a user id at all.
Roles == {"client", "victim", "killer", "other"}

User == [act : 0 .. MaxCalls, role : Roles]

NoUser == [act |-> 0, role |-> "other"]

VARIABLES
    temp,   \* the register globals: the activation that wrote each
    temp2,  \* tempRegister2: the user looked up last, or what was put there since
    retJMP, \* the hook whose address it holds
    value,  \* the activation whose text it holds; zero when it is empty
    stack,  \* the activations in progress, innermost first
    calls,  \* how many activations there have been
    heard,  \* history: what a script was given last, and by whom
    last    \* history: how the last activation went back to the engine

vars == <<temp, temp2, retJMP, value, stack, calls, heard, last>>

None == "none"

Init ==
    /\ temp = [r \in Registers |-> 0]
    /\ temp2 = NoUser
    /\ retJMP = None
    /\ value = 0
    /\ stack = <<>>
    /\ calls = 0
    /\ heard = [act |-> 0, good |-> FALSE, text |-> 0, args |-> <<>>]
    /\ last = [hook |-> None, to |-> None, wrong |-> {}, foreign |-> FALSE,
               disturbed |-> FALSE]

\* A hook that went back to another's address, or with a register of another
\* activation, leaves the engine undefined.
Sane == last.to = last.hook /\ ~last.foreign

-----------------------------------------------------------------------------
(* A hook is called: by the engine, or because of a script's command.      *)

Disturbed == [k \in DOMAIN stack |-> [stack[k] EXCEPT !.disturbed = TRUE]]

\* What hook h puts into tempRegister2.  A good edict leads to a user id, a bad
\* one leaves what was there.
Lookup(h, n, good) ==
    CASE h = "hookOnPlayerKilled" /\ good -> [act |-> n, role |-> "victim"]
      [] h \in Events \cup {"OnTriggerEvent"} /\ good -> [act |-> n, role |-> "client"]
      [] h = "hookOnClientReconnect" \/ (h = "hookOnInvalidCommand" /\ good) ->
             [act |-> n, role |-> "other"]
      [] OTHER -> temp2

\* The arguments the handler of an event is called with.  The death hook hands
\* on the victim and then what it has for the killer: with a bad victim the
\* address tempRegister was loaded with, and no user id either when the killer
\* is the world or another thing that is not a client.
Arguments(h, n, good, user) ==
    IF h = "hookOnPlayerKilled"
    THEN {<<user, [act |-> n, role |-> role]>> :
             role \in IF good THEN {"killer", "other"} ELSE {"other"}}
    ELSE {<<user>>}

\* The activation runs scripts.
CallsScripts(top) ==
    funcHooks[top.hook].scripts /\ (top.hook \in Skipping => top.good)

Enter(h) ==
    /\ Sane
    /\ calls < MaxCalls
    /\ Len(stack) < MaxDepth
    /\ stack # <<>> => CallsScripts(Head(stack)) /\ h \in Commanded
    /\ calls' = calls + 1
    /\ temp' = [r \in Registers |-> IF r \in funcHooks[h].stores THEN calls + 1 ELSE temp[r]]
    /\ retJMP' = IF funcHooks[h].jump = "before" THEN h ELSE retJMP
    /\ \E good \in IF h \in Events \cup Skipping THEN BOOLEAN ELSE {TRUE} :
          /\ temp2' = Lookup(h, calls + 1, good)
          /\ value' = IF h \in Texts /\ (h \in Skipping => good) THEN calls + 1 ELSE value
          /\ \E args \in IF h \in Events THEN Arguments(h, calls + 1, good, temp2') ELSE {<<>>} :
                stack' = <<[hook |-> h, act |-> calls + 1, good |-> good, args |-> args,
                            told |-> 0, disturbed |-> FALSE]>> \o Disturbed
    /\ UNCHANGED <<heard, last>>

-----------------------------------------------------------------------------
(* Scripts are told: the gamemode first and then the plugins.              *)

\* The two turns of an event that are still to come.
InEvent(h) == Sane /\ stack # <<>> /\ Head(stack).hook = h /\ Head(stack).told < 2

\* The script whose turn it is gets the arguments and, with them, a text.
Tell(args, text) ==
    /\ heard' = [act |-> Head(stack).act, good |-> Head(stack).good,
                 text |-> text, args |-> args]
    /\ stack' = [stack EXCEPT ![1].told = @ + 1]
    /\ UNCHANGED <<temp, temp2, retJMP, value, calls, last>>

\* Slip: one listener too many.
OnPreClientCommandTextAgain ==
    /\ Sane
    /\ stack # <<>>
    /\ Head(stack).hook = "hookOnHostSay"
    /\ Head(stack).told <= 2
    /\ Tell(Head(stack).args, value)

\* What a client said is given to the gamemode and then to the plugins, each
\* time from the buffer; who said it is an argument.
OnPreClientCommandText ==
    /\ InEvent("hookOnHostSay")
    /\ Tell(Head(stack).args, value)

OnClientDeath ==
    /\ InEvent("hookOnPlayerKilled")
    /\ Tell(Head(stack).args, 0)

\* Slip: the user id is read again from the global.
OnClientSpawnGlobal ==
    /\ InEvent("hookOnPlayerSpawn")
    /\ Tell(<<temp2>>, 0)

OnClientSpawn ==
    /\ InEvent("hookOnPlayerSpawn")
    /\ Tell(Head(stack).args, 0)

OnClientEquip ==
    /\ InEvent("hookOnPlayerEquip")
    /\ Tell(Head(stack).args, 0)

-----------------------------------------------------------------------------
(* The way back.                                                           *)

\* Slip: the text stays in the buffer.
AfterTextKept(top) == value

\* The memset that ends the handlers of text.
AfterText(top) ==
    IF top.hook \in Texts /\ (top.hook \in Skipping => top.good) THEN 0 ELSE value

\* The handler is done.  A pop takes what was pushed last.
Return ==
    /\ Sane
    /\ stack # <<>>
    /\ LET top  == Head(stack)
           hook == funcHooks[top.hook]
           to   == IF hook.jump = "before" THEN retJMP ELSE top.hook
           kept == {r \in hook.restores : temp[r] = top.act}
           lost == {k \in DOMAIN hook.pops : hook.pops[k] # Reverse(hook.pushes)[k]}
       IN  /\ top.hook \in Events => top.told = 2 \/ (top.hook = "hookOnHostSay" /\ top.told = 0)
           /\ last' = [hook      |-> top.hook,
                       to        |-> to,
                       wrong     |-> (hook.restores \ kept) \cup {hook.pops[k] : k \in lost},
                       foreign   |-> kept # hook.restores,
                       disturbed |-> top.disturbed]
           /\ retJMP' = IF hook.jump = "after" THEN top.hook ELSE retJMP
           /\ value' = AfterText(top)
    /\ stack' = Tail(stack)
    /\ UNCHANGED <<temp, temp2, calls, heard>>

Stopped == (~Sane \/ calls = MaxCalls) /\ UNCHANGED vars

Next ==
    \/ \E h \in Hooks : Enter(h)
    \/ OnPreClientCommandText
    \/ OnClientDeath
    \/ OnClientSpawn
    \/ OnClientEquip
    \/ Return
    \/ Stopped

Spec == Init /\ [][Next]_vars

-----------------------------------------------------------------------------
(* Properties.                                                             *)

TypeOK ==
    /\ temp \in [Registers -> 0 .. MaxCalls]
    /\ temp2 \in User
    /\ retJMP \in Hooks \cup {None}
    /\ value \in 0 .. MaxCalls
    /\ stack \in Seq([hook : Hooks, act : 1 .. MaxCalls, good : BOOLEAN, args : Seq(User),
                      told : 0 .. 2, disturbed : BOOLEAN])
    /\ calls \in 0 .. MaxCalls
    /\ heard \in [act : 0 .. MaxCalls, good : BOOLEAN, text : 0 .. MaxCalls, args : Seq(User)]
    /\ last \in [hook : Hooks \cup {None}, to : Hooks \cup {None},
                 wrong : SUBSET Registers, foreign : BOOLEAN, disturbed : BOOLEAN]

\* A hook that no other hook has interrupted goes back to where it came from
\* with the registers it stored, whatever hooks ran before it and whatever
\* they left in the globals.  (hookOnBotConnect exchanges two registers.)
UndisturbedReturnHome ==
    ~last.disturbed =>
        /\ last.to = last.hook
        /\ last.wrong # {} => last.hook = "hookOnBotConnect"

\* The hooks that use the engine's stack, or take the return address after
\* their handler and restore nothing, survive any interruption.
SafeHooks == {"hookOnServerChangeMap", "hookOnClientConnect"}

\* Whatever hooks run inside them, a map change and a connection go back to
\* where they came from with the registers they stored.
SafeHooksReturn ==
    last.hook \in SafeHooks => last.to = last.hook /\ last.wrong = {}

\* Both: which hooks go back to where they came from, with their own registers,
\* although all of them share retJMP and the globals (hooks.cpp:290, 293).
HooksReturnHome == UndisturbedReturnHome /\ SafeHooksReturn

\* A script that is given what a client said is given nothing else: at worst,
\* when a hook came in between, the empty text.
NoForeignText == heard.text \in {heard.act, 0}

\* An event with a good edict names the client it happened to, to the gamemode
\* and to the plugins, whatever hooks the gamemode caused in between.  With a bad
\* edict it names whoever was looked up last before it, and nobody a hook inside
\* it looked up; and a user id it names for its killer is that of its killer.
EventsNameTheirClients ==
    \A k \in DOMAIN heard.args :
        /\ heard.good => heard.args[k].act = heard.act
        /\ heard.args[k].act <= heard.act
        /\ ~heard.good => heard.args[k].act < heard.act \/ heard.args[k].role = "other"

\* "EBX = Killer | ESI = Player Killed (Victim)": of a death between two clients
\* the scripts' OnClientDeath(attacker, receiver) is told the killer, then the
\* victim.
DeathRoles ==
    heard.good /\ Len(heard.args) = 2 =>
        /\ heard.args[1].role # "victim"
        /\ heard.args[2].role # "killer"

\* "jump to original code" (hooks.cpp:301): hookOnClientDisconnect, which ends in
\* jmp retJMP, jumps to the code it was called from.
JumpToOriginalCode ==
    last.hook = "hookOnClientDisconnect" => last.to = "hookOnClientDisconnect"

=============================================================================
