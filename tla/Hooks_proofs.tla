------------------------------ MODULE Hooks_proofs ------------------------------
(***************************************************************************)
(* Theorems about the hooks, for every set of hooks that console commands  *)
(* can cause, and for every number and depth of activations.               *)
(***************************************************************************)
EXTENDS Hooks, SequenceFacts

-----------------------------------------------------------------------------
(* What the table of hooks says.                                           *)

\* The names that funcHooks pairs with their addresses.
LEMMA HookNames ==
    Hooks = {"hookOnServerChangeMap", "hookOnClientConnect", "hookOnClientDisconnect",
             "OnTriggerEvent", "hookOnBotConnect", "hookOnHostSay",
             "hookOnPlayerKilled", "hookOnPlayerSpawn", "hookOnPlayerEquip",
             "hookOnMapLoaded", "hookOnClientTimeOut", "hookOnFireBullets",
             "hookOnHudInit", "hookOnDropFakeClient", "hookOnClientReconnect",
             "hookOnSV_DisconnectClient", "hookOnInvalidCommand"}
BY DEF Hooks, funcHooks

\* A pop takes what was pushed last.
PopsMatch(h) ==
    \A k \in DOMAIN funcHooks[h].pops :
        funcHooks[h].pops[k] = Reverse(funcHooks[h].pushes)[k]

\* A hook restores what it stored, and all but one pop in the right order.
HookOK(h) ==
    /\ funcHooks[h].stores \subseteq Registers
    /\ funcHooks[h].restores \subseteq funcHooks[h].stores
    /\ \A k \in DOMAIN funcHooks[h].pops : funcHooks[h].pops[k] \in Registers
    /\ h # "hookOnBotConnect" => PopsMatch(h)

\* Each of the seventeen hooks is described consistently by its row.
LEMMA HooksOK == \A h \in Hooks : HookOK(h)
<1>1. ASSUME NEW h \in Hooks, funcHooks[h].pops = <<>>,
             funcHooks[h].stores \subseteq Registers,
             funcHooks[h].restores \subseteq funcHooks[h].stores
      PROVE  HookOK(h)
  <2>1. DOMAIN <<>> = {}
    OBVIOUS
  <2> QED
    BY <1>1, <2>1 DEF HookOK, PopsMatch
<1>2. ASSUME NEW h \in Hooks,
             h \notin {"hookOnServerChangeMap", "hookOnInvalidCommand", "hookOnBotConnect"}
      PROVE  HookOK(h)
  <2>1. funcHooks[h].pops = <<>>
    BY <1>2, HookNames
       DEF funcHooks, Hook, hookOnClientConnect, hookOnClientDisconnect, OnTriggerEvent,
           hookOnHostSay, hookOnPlayerKilled, hookOnPlayerSpawn, hookOnPlayerEquip,
           hookOnMapLoaded, hookOnClientTimeOut, hookOnFireBullets, hookOnHudInit,
           hookOnDropFakeClient, hookOnClientReconnect, hookOnSV_DisconnectClient
  <2>2. funcHooks[h].stores \subseteq Registers
    BY <1>2, HookNames
       DEF funcHooks, Hook, hookOnClientConnect, hookOnClientDisconnect, OnTriggerEvent,
           hookOnHostSay, hookOnPlayerKilled, hookOnPlayerSpawn, hookOnPlayerEquip,
           hookOnMapLoaded, hookOnClientTimeOut, hookOnFireBullets, hookOnHudInit,
           hookOnDropFakeClient, hookOnClientReconnect, hookOnSV_DisconnectClient,
           General, Registers
  <2>3. funcHooks[h].restores \subseteq funcHooks[h].stores
    BY <1>2, HookNames
       DEF funcHooks, Hook, hookOnClientConnect, hookOnClientDisconnect, OnTriggerEvent,
           hookOnHostSay, hookOnPlayerKilled, hookOnPlayerSpawn, hookOnPlayerEquip,
           hookOnMapLoaded, hookOnClientTimeOut, hookOnFireBullets, hookOnHudInit,
           hookOnDropFakeClient, hookOnClientReconnect, hookOnSV_DisconnectClient
  <2> QED
    BY <1>1, <2>1, <2>2, <2>3
<1>3. HookOK("hookOnServerChangeMap")
  <2> DEFINE s == <<"eax", "ecx", "edx">>
             p == <<"edx", "ecx", "eax">>
  <2>1. /\ funcHooks["hookOnServerChangeMap"].pushes = s
        /\ funcHooks["hookOnServerChangeMap"].pops = p
        /\ funcHooks["hookOnServerChangeMap"].stores = {}
        /\ funcHooks["hookOnServerChangeMap"].restores = {}
    BY DEF funcHooks, Hook, hookOnServerChangeMap
  <2>2. \A k \in DOMAIN p : p[k] \in Registers
    BY DEF Registers
  <2>3. \A k \in DOMAIN p : p[k] = Reverse(s)[k]
    BY DEF Reverse
  <2> QED
    BY <2>1, <2>2, <2>3 DEF HookOK, PopsMatch
<1>4. HookOK("hookOnInvalidCommand")
  <2> DEFINE s == <<"eax", "ecx", "edx", "ebx", "ebp", "esi", "edi">>
             p == <<"edi", "esi", "ebp", "ebx", "edx", "ecx", "eax">>
  <2>1. /\ funcHooks["hookOnInvalidCommand"].pushes = s
        /\ funcHooks["hookOnInvalidCommand"].pops = p
        /\ funcHooks["hookOnInvalidCommand"].stores = {}
        /\ funcHooks["hookOnInvalidCommand"].restores = {}
    BY DEF funcHooks, Hook, hookOnInvalidCommand
  <2>2. \A k \in DOMAIN p : p[k] \in Registers
    BY DEF Registers
  <2>3. \A k \in DOMAIN p : p[k] = Reverse(s)[k]
    BY DEF Reverse
  <2> QED
    BY <2>1, <2>2, <2>3 DEF HookOK, PopsMatch
<1>5. HookOK("hookOnBotConnect")
  BY DEF HookOK, PopsMatch, Reverse, funcHooks, Hook, hookOnBotConnect, Registers
<1> QED
  BY <1>2, <1>3, <1>4, <1>5

-----------------------------------------------------------------------------
(* The invariant.                                                          *)

Activation ==
    [hook : Hooks, act : 1 .. MaxCalls, good : BOOLEAN, args : Seq(User),
     told : 0 .. 2, disturbed : BOOLEAN]

\* The activation has copied a text into the buffer.
Writes(a) == a.hook \in Texts /\ (a.hook \in Skipping => a.good)

\* The arguments of an activation name its clients, or those of an earlier one.
ArgsOK(args, act, good) ==
    \A k \in DOMAIN args :
        /\ good => args[k].act = act
        /\ args[k].act <= act
        /\ ~good => args[k].act < act \/ args[k].role = "other"

\* Activations are numbered in their order; all but the innermost have been
\* disturbed.
StackOK ==
    /\ temp2.act <= calls
    /\ \A k \in DOMAIN stack :
          /\ stack[k].act <= calls
          /\ ArgsOK(stack[k].args, stack[k].act, stack[k].good)
          /\ k # 1 => stack[k].disturbed

\* What an activation nobody has disturbed has written is still there.
TopOK ==
    1 \in DOMAIN stack /\ ~stack[1].disturbed =>
        /\ \A r \in funcHooks[stack[1].hook].stores : temp[r] = stack[1].act
        /\ funcHooks[stack[1].hook].jump = "before" => retJMP = stack[1].hook

\* A text in the buffer is that of the innermost activation that has one.
TextOK ==
    value # 0 =>
        \E k \in DOMAIN stack :
            /\ Writes(stack[k])
            /\ stack[k].act = value
            /\ \A j \in DOMAIN stack : j < k => ~Writes(stack[j])

IInv ==
    /\ TypeOK /\ StackOK /\ TopOK /\ TextOK
    /\ UndisturbedReturnHome /\ SafeHooksReturn
    /\ NoForeignText /\ EventsNameTheirClients

\* No hook has been called: the invariant holds.
LEMMA Initially == Init => IInv
<1> SUFFICES ASSUME Init PROVE IInv
  OBVIOUS
<1>1. /\ DOMAIN <<>> = {} /\ <<>> \in Seq(Activation) /\ <<>> \in Seq(User)
      /\ 0 \in 0 .. MaxCalls /\ NoUser \in User
  BY HooksAssumption DEF NoUser, User, Roles
<1>2. TypeOK
  BY <1>1 DEF Init, TypeOK, None, Activation
<1>3. StackOK /\ TopOK /\ TextOK
  BY <1>1 DEF Init, StackOK, TopOK, TextOK, NoUser
<1>4. None \notin SafeHooks
  BY DEF None, SafeHooks
<1>5. UndisturbedReturnHome /\ SafeHooksReturn /\ NoForeignText /\ EventsNameTheirClients
  BY <1>1, <1>4
     DEF Init, UndisturbedReturnHome, SafeHooksReturn, NoForeignText, EventsNameTheirClients
<1> QED
  BY <1>2, <1>3, <1>5 DEF IInv

-----------------------------------------------------------------------------
(* A hook is called.                                                       *)

\* Calling a hook inside others disturbs those, and nothing else of them.
LEMMA DisturbedStack ==
    ASSUME stack \in Seq(Activation)
    PROVE  /\ Disturbed \in Seq(Activation)
           /\ DOMAIN Disturbed = DOMAIN stack
           /\ \A k \in DOMAIN stack :
                 /\ Disturbed[k].disturbed
                 /\ Disturbed[k].hook = stack[k].hook
                 /\ Disturbed[k].act = stack[k].act
                 /\ Disturbed[k].good = stack[k].good
                 /\ Disturbed[k].args = stack[k].args
<1>1. DOMAIN stack = 1 .. Len(stack) /\ Len(stack) \in Nat
  OBVIOUS
<1>2. \A k \in DOMAIN stack : stack[k] \in Activation
  OBVIOUS
<1>3. \A k \in DOMAIN stack :
         /\ Disturbed[k] \in Activation
         /\ Disturbed[k].disturbed
         /\ Disturbed[k].hook = stack[k].hook
         /\ Disturbed[k].act = stack[k].act
         /\ Disturbed[k].good = stack[k].good
         /\ Disturbed[k].args = stack[k].args
  BY <1>2 DEF Disturbed, Activation
<1>4. DOMAIN Disturbed = 1 .. Len(stack)
  BY <1>1 DEF Disturbed
<1>5. Disturbed = [k \in 1 .. Len(stack) |-> Disturbed[k]]
  BY <1>1 DEF Disturbed
<1> HIDE DEF Disturbed
<1>6. Disturbed \in Seq(Activation)
  BY <1>1, <1>3, <1>4, <1>5
<1> QED
  BY <1>1, <1>3, <1>4, <1>6

\* The user id a hook looks up is its own or the last one's.
LEMMA LookedUp ==
    ASSUME temp2 \in User, NEW n \in 1 .. MaxCalls, NEW h \in Hooks, NEW good \in BOOLEAN,
           temp2.act < n
    PROVE  LET user == Lookup(h, n, good)
           IN  /\ user \in User
               /\ user.act <= n
               /\ h \in Events /\ good => user.act = n
               /\ h \in Events /\ ~good => user.act < n
<1>1. n \in 0 .. MaxCalls /\ n \in Nat /\ temp2.act \in 0 .. MaxCalls
  BY HooksAssumption DEF User
<1>2. \A role \in Roles : [act |-> n, role |-> role] \in User
  BY <1>1 DEF User
<1> QED
  BY <1>1, <1>2 DEF Lookup, Roles, Events

\* The arguments of an event are about its own clients or about earlier ones.
LEMMA ArgumentsOK ==
    ASSUME NEW n \in 1 .. MaxCalls, NEW h \in Hooks, NEW good \in BOOLEAN,
           NEW user \in User, user.act <= n,
           good => user.act = n,
           ~good => user.act < n,
           NEW args \in Arguments(h, n, good, user)
    PROVE  args \in Seq(User) /\ ArgsOK(args, n, good)
<1>1. n \in 0 .. MaxCalls /\ n \in Nat
  BY HooksAssumption
<1>2. CASE args = <<user>>
  <2>1. args \in Seq(User)
    BY <1>2
  <2>2. DOMAIN args = {1} /\ args[1] = user
    BY <1>2
  <2> QED
    BY <2>1, <2>2 DEF ArgsOK
<1>3. ASSUME NEW role \in IF good THEN {"killer", "other"} ELSE {"other"},
             args = <<user, [act |-> n, role |-> role]>>
      PROVE  args \in Seq(User) /\ ArgsOK(args, n, good)
  <2>1. [act |-> n, role |-> role] \in User
    BY <1>1 DEF User, Roles
  <2>2. args \in Seq(User) /\ DOMAIN args = {1, 2}
        /\ args[1] = user /\ args[2] = [act |-> n, role |-> role]
    BY <1>3, <2>1
  <2> QED
    BY <1>1, <2>2 DEF ArgsOK
<1> QED
  BY <1>2, <1>3 DEF Arguments

\* The call of a hook keeps the invariant, whatever it interrupts.
LEMMA EnterKeeps ==
    ASSUME IInv, NEW h \in Hooks, Enter(h)
    PROVE  IInv'
<1> DEFINE n == calls + 1
<1>1. PICK good \in BOOLEAN :
         /\ temp2' = Lookup(h, n, good)
         /\ value' = IF h \in Texts /\ (h \in Skipping => good) THEN n ELSE value
         /\ \E args \in IF h \in Events THEN Arguments(h, n, good, temp2') ELSE {<<>>} :
               stack' = <<[hook |-> h, act |-> n, good |-> good, args |-> args,
                           told |-> 0, disturbed |-> FALSE]>> \o Disturbed
  BY DEF Enter
<1>2. PICK args \in IF h \in Events THEN Arguments(h, n, good, temp2') ELSE {<<>>} :
         stack' = <<[hook |-> h, act |-> n, good |-> good, args |-> args,
                     told |-> 0, disturbed |-> FALSE]>> \o Disturbed
  BY <1>1
<1>3. /\ calls < MaxCalls /\ calls' = n
      /\ temp' = [r \in Registers |-> IF r \in funcHooks[h].stores THEN n ELSE temp[r]]
      /\ retJMP' = IF funcHooks[h].jump = "before" THEN h ELSE retJMP
      /\ UNCHANGED <<heard, last>>
  BY DEF Enter
<1>4. /\ calls \in Nat /\ n \in 1 .. MaxCalls /\ n \in 0 .. MaxCalls /\ n \in Nat
      /\ temp2 \in User /\ temp2.act \in Nat /\ temp2.act < n
      /\ stack \in Seq(Activation)
  BY <1>3, HooksAssumption DEF IInv, TypeOK, StackOK, User, Activation
<1> HIDE DEF n
<1>5. /\ temp2' \in User /\ temp2'.act <= n
      /\ h \in Events /\ good => temp2'.act = n
      /\ h \in Events /\ ~good => temp2'.act < n
  BY <1>1, <1>4, LookedUp
<1>6. args \in Seq(User) /\ ArgsOK(args, n, good)
  <2>1. CASE h \in Events
    BY <1>2, <1>4, <1>5, <2>1, ArgumentsOK
  <2>2. CASE h \notin Events
    <3>1. args = <<>>
      BY <1>2, <2>2
    <3> QED
      BY <3>1 DEF ArgsOK
  <2> QED
    BY <2>1, <2>2
<1> DEFINE new == [hook |-> h, act |-> n, good |-> good, args |-> args,
                   told |-> 0, disturbed |-> FALSE]
<1>7. /\ new \in Activation
      /\ new.hook = h /\ new.act = n /\ new.good = good /\ new.args = args
      /\ ~new.disturbed
  BY <1>4, <1>6 DEF Activation
<1>8. stack' = <<new>> \o Disturbed
  BY <1>2
<1> HIDE DEF new
<1>9. /\ stack' \in Seq(Activation) /\ 1 \in DOMAIN stack' /\ stack'[1] = new
      /\ \A k \in DOMAIN stack :
            k + 1 \in DOMAIN stack' /\ stack'[k + 1] = Disturbed[k]
      /\ \A k \in DOMAIN stack' :
            k = 1 \/ (k - 1 \in DOMAIN stack /\ stack'[k] = Disturbed[k - 1])
  BY <1>4, <1>7, <1>8, DisturbedStack, PushShifts
<1>10. \A k \in DOMAIN stack :
          /\ k + 1 \in DOMAIN stack'
          /\ stack'[k + 1].hook = stack[k].hook
          /\ stack'[k + 1].act = stack[k].act
          /\ stack'[k + 1].good = stack[k].good
  BY <1>4, <1>9, DisturbedStack
<1>11. \A k \in DOMAIN stack' :
          k # 1 =>
             /\ k - 1 \in DOMAIN stack
             /\ stack'[k].disturbed
             /\ stack'[k].hook = stack[k - 1].hook
             /\ stack'[k].act = stack[k - 1].act
             /\ stack'[k].good = stack[k - 1].good
             /\ stack'[k].args = stack[k - 1].args
  BY <1>4, <1>9, DisturbedStack
<1>12. TypeOK'
  <2>1. temp' \in [Registers -> 0 .. MaxCalls]
    BY <1>3, <1>4 DEF IInv, TypeOK
  <2>2. value' \in 0 .. MaxCalls /\ retJMP' \in Hooks \cup {None}
    BY <1>1, <1>3, <1>4 DEF IInv, TypeOK
  <2> QED
    BY <1>3, <1>4, <1>5, <1>9, <2>1, <2>2 DEF IInv, TypeOK, Activation
<1>13. StackOK'
  <2>1. ASSUME NEW k \in DOMAIN stack'
        PROVE  /\ stack'[k].act <= n
               /\ ArgsOK(stack'[k].args, stack'[k].act, stack'[k].good)
               /\ k # 1 => stack'[k].disturbed
    <3>1. CASE k = 1
      BY <1>4, <1>6, <1>7, <1>9, <3>1
    <3>2. CASE k # 1
      <4>1. /\ stack[k - 1].act <= calls /\ stack[k - 1].act \in Nat
            /\ ArgsOK(stack[k - 1].args, stack[k - 1].act, stack[k - 1].good)
        <5>1. k - 1 \in DOMAIN stack
          BY <1>11, <3>2
        <5>2. stack[k - 1] \in Activation
          BY <1>4, <5>1
        <5>3. stack[k - 1].act \in Nat
          BY <5>2, HooksAssumption DEF Activation
        <5> QED
          BY <5>1, <5>3 DEF IInv, StackOK
      <4>2. stack[k - 1].act <= n
        BY <1>4, <4>1 DEF n
      <4> QED
        BY <1>11, <3>2, <4>1, <4>2
    <3> QED
      BY <3>1, <3>2
  <2> QED
    BY <1>3, <1>5, <2>1 DEF StackOK, ArgsOK
<1>14. TopOK'
  <2>1. HookOK(h)
    BY HooksOK
  <2> QED
    BY <1>3, <1>7, <1>9, <2>1 DEF TopOK, HookOK
<1>15. TextOK'
  <2>1. CASE h \in Texts /\ (h \in Skipping => good)
    <3>1. Writes(stack'[1]) /\ stack'[1].act = value'
      BY <1>1, <1>7, <1>9, <2>1 DEF Writes
    <3>2. \A j \in DOMAIN stack' : ~(j < 1)
      BY <1>9
    <3> QED
      BY <1>9, <3>1, <3>2 DEF TextOK, Writes
  <2>2. CASE ~(h \in Texts /\ (h \in Skipping => good))
    <3> SUFFICES ASSUME value # 0
                 PROVE  \E k \in DOMAIN stack' :
                           /\ Writes(stack'[k])
                           /\ stack'[k].act = value
                           /\ \A j \in DOMAIN stack' : j < k => ~Writes(stack'[j])
      BY <1>1, <2>2 DEF TextOK, Writes
    <3>1. PICK k \in DOMAIN stack :
             /\ Writes(stack[k])
             /\ stack[k].act = value
             /\ \A j \in DOMAIN stack : j < k => ~Writes(stack[j])
      BY DEF IInv, TextOK
    <3>2. k + 1 \in DOMAIN stack' /\ Writes(stack'[k + 1]) /\ stack'[k + 1].act = value
      BY <1>10, <3>1 DEF Writes
    <3>3. ASSUME NEW j \in DOMAIN stack', j < k + 1 PROVE ~Writes(stack'[j])
      <4>1. CASE j = 1
        BY <1>7, <1>9, <2>2, <4>1 DEF Writes
      <4>2. CASE j # 1
        <5>1. j - 1 \in DOMAIN stack /\ j - 1 < k
          <6>1. j \in Nat /\ k \in Nat
            BY <1>4, <1>9
          <6> QED
            BY <1>11, <3>3, <4>2, <6>1
        <5>2. ~Writes(stack[j - 1])
          BY <3>1, <5>1
        <5> QED
          BY <1>11, <4>2, <5>2 DEF Writes
      <4> QED
        BY <4>1, <4>2
    <3> QED
      BY <3>2, <3>3
  <2> QED
    BY <2>1, <2>2
<1>16. /\ UndisturbedReturnHome' /\ SafeHooksReturn'
       /\ NoForeignText' /\ EventsNameTheirClients'
  BY <1>3
     DEF IInv, UndisturbedReturnHome, SafeHooksReturn, NoForeignText, EventsNameTheirClients
<1> QED
  BY <1>12, <1>13, <1>14, <1>15, <1>16 DEF IInv

-----------------------------------------------------------------------------
(* Scripts are told, and the hook returns.                                 *)

\* Telling a script marks the innermost activation and nothing else.
LEMMA TellKeeps ==
    ASSUME IInv, NEW text \in {value, 0}, stack # <<>>, Head(stack).told < 2,
           text # 0 => Head(stack).hook = "hookOnHostSay",
           Tell(Head(stack).args, text)
    PROVE  IInv'
<1> DEFINE top == stack[1]
<1>1. /\ stack \in Seq(Activation) /\ 1 \in DOMAIN stack /\ Head(stack) = top
      /\ top \in Activation /\ DOMAIN stack = 1 .. Len(stack) /\ Len(stack) \in Nat
  <2>1. stack \in Seq(Activation)
    BY DEF IInv, TypeOK, Activation
  <2> QED
    BY <2>1, PopShifts
<1>2. /\ heard' = [act |-> top.act, good |-> top.good, text |-> text, args |-> top.args]
      /\ stack' = [stack EXCEPT ![1] = [top EXCEPT !.told = @ + 1]]
      /\ UNCHANGED <<temp, temp2, retJMP, value, calls, last>>
  BY <1>1 DEF Tell
<1>3. top.told + 1 \in 0 .. 2
  BY <1>1 DEF Activation
<1>4. [top EXCEPT !.told = @ + 1] \in Activation
  BY <1>1, <1>3 DEF Activation
<1>5. /\ stack' \in Seq(Activation) /\ DOMAIN stack' = DOMAIN stack
      /\ \A k \in DOMAIN stack :
            /\ stack'[k].hook = stack[k].hook /\ stack'[k].act = stack[k].act
            /\ stack'[k].good = stack[k].good /\ stack'[k].args = stack[k].args
            /\ stack'[k].disturbed = stack[k].disturbed
  <2>1. stack' \in Seq(Activation) /\ DOMAIN stack' = DOMAIN stack
    BY <1>1, <1>2, <1>4
  <2>2. stack'[1] = [top EXCEPT !.told = @ + 1]
    BY <1>1, <1>2
  <2>3. \A k \in DOMAIN stack : k # 1 => stack'[k] = stack[k]
    BY <1>1, <1>2
  <2>4. /\ stack'[1].hook = top.hook /\ stack'[1].act = top.act
        /\ stack'[1].good = top.good /\ stack'[1].args = top.args
        /\ stack'[1].disturbed = top.disturbed
    BY <1>1, <2>2 DEF Activation
  <2> QED
    BY <2>1, <2>3, <2>4
<1>6. text \in 0 .. MaxCalls /\ top.act \in 0 .. MaxCalls
  BY <1>1, HooksAssumption DEF IInv, TypeOK, Activation
<1> HIDE DEF top
<1>7. TypeOK'
  BY <1>1, <1>2, <1>5, <1>6 DEF IInv, TypeOK, Activation
<1>8. StackOK'
  BY <1>2, <1>5 DEF IInv, StackOK, ArgsOK
<1>9. TopOK'
  BY <1>2, <1>5 DEF IInv, TopOK
<1>10. TextOK'
  BY <1>2, <1>5 DEF IInv, TextOK, Writes
<1>11. NoForeignText'
  <2>1. CASE text = 0
    BY <1>2, <2>1 DEF NoForeignText
  <2>2. CASE text # 0
    <3>1. Writes(top) /\ value # 0 /\ text = value
      BY <1>1, <2>2 DEF Writes, Texts, Skipping
    <3>2. PICK k \in DOMAIN stack :
             /\ stack[k].act = value
             /\ \A j \in DOMAIN stack : j < k => ~Writes(stack[j])
      BY <3>1 DEF IInv, TextOK
    <3>3. k = 1
      BY <1>1, <3>1, <3>2 DEF top
    <3> QED
      BY <1>2, <3>1, <3>2, <3>3 DEF NoForeignText, top
  <2> QED
    BY <2>1, <2>2
<1>12. EventsNameTheirClients'
  <2>1. ArgsOK(top.args, top.act, top.good)
    BY <1>1 DEF IInv, StackOK, top
  <2> QED
    BY <1>2, <2>1 DEF EventsNameTheirClients, ArgsOK
<1>13. UndisturbedReturnHome' /\ SafeHooksReturn'
  BY <1>2 DEF IInv, UndisturbedReturnHome, SafeHooksReturn
<1> QED
  BY <1>7, <1>8, <1>9, <1>10, <1>11, <1>12, <1>13 DEF IInv

\* The return of a hook hands the top to the one it interrupted.
LEMMA ReturnKeeps ==
    ASSUME IInv, Return
    PROVE  IInv'
<1> DEFINE top  == stack[1]
           hook == funcHooks[top.hook]
           to   == IF hook.jump = "before" THEN retJMP ELSE top.hook
           kept == {r \in hook.restores : temp[r] = top.act}
           lost == {k \in DOMAIN hook.pops : hook.pops[k] # Reverse(hook.pushes)[k]}
           wrong == (hook.restores \ kept) \cup {hook.pops[k] : k \in lost}
<1>1. /\ stack \in Seq(Activation) /\ stack # <<>>
  BY DEF IInv, TypeOK, Activation, Return
<1>2. /\ 1 \in DOMAIN stack /\ Head(stack) = top /\ top \in Activation
      /\ Tail(stack) \in Seq(Activation)
      /\ \A k \in DOMAIN Tail(stack) :
            k + 1 \in DOMAIN stack /\ Tail(stack)[k] = stack[k + 1]
      /\ \A k \in DOMAIN stack :
            k = 1 \/ (k - 1 \in DOMAIN Tail(stack) /\ stack[k] = Tail(stack)[k - 1])
  BY <1>1, PopShifts
<1>3. /\ last' = [hook |-> top.hook, to |-> to, wrong |-> wrong,
                  foreign |-> kept # hook.restores, disturbed |-> top.disturbed]
      /\ retJMP' = IF hook.jump = "after" THEN top.hook ELSE retJMP
      /\ value' = IF Writes(top) THEN 0 ELSE value
      /\ stack' = Tail(stack)
      /\ UNCHANGED <<temp, temp2, calls, heard>>
  BY <1>2 DEF Return, AfterText, Writes
<1>4. top.hook \in Hooks /\ top.disturbed \in BOOLEAN
  BY <1>2 DEF Activation
<1>5. HookOK(top.hook)
  BY <1>4, HooksOK
<1>6. \A k \in DOMAIN stack' : k \in Nat /\ k \in 1 .. Len(stack')
  BY <1>2, <1>3
<1>7. TypeOK'
  <2>1. wrong \in SUBSET Registers
    BY <1>5 DEF HookOK
  <2>2. to \in Hooks \cup {None} /\ retJMP' \in Hooks \cup {None}
    BY <1>3, <1>4 DEF IInv, TypeOK
  <2>3. (kept # hook.restores) \in BOOLEAN
    OBVIOUS
  <2> HIDE DEF wrong, to, kept, hook, top
  <2>4. last' \in [hook : Hooks \cup {None}, to : Hooks \cup {None},
                   wrong : SUBSET Registers, foreign : BOOLEAN, disturbed : BOOLEAN]
    BY <1>3, <1>4, <2>1, <2>2, <2>3
  <2>5. value' \in 0 .. MaxCalls
    BY <1>3, HooksAssumption DEF IInv, TypeOK
  <2> QED
    BY <1>2, <1>3, <2>2, <2>4, <2>5 DEF IInv, TypeOK, Activation
<1>8. \A k \in DOMAIN stack' : k + 1 \in DOMAIN stack /\ stack'[k] = stack[k + 1]
  BY <1>2, <1>3
<1>9. StackOK'
  <2>1. StackOK /\ UNCHANGED <<temp2, calls>>
    BY ONLY IInv, <1>3 DEF IInv
  <2>2. ASSUME NEW k \in DOMAIN stack'
        PROVE  /\ stack'[k].act <= calls
               /\ ArgsOK(stack'[k].args, stack'[k].act, stack'[k].good)
               /\ k # 1 => stack'[k].disturbed
    <3>1. k + 1 \in DOMAIN stack /\ stack'[k] = stack[k + 1] /\ k + 1 # 1
      BY <1>6, <1>8
    <3> QED
      BY ONLY <2>1, <3>1 DEF StackOK
  <2> QED
    BY ONLY <2>1, <2>2 DEF StackOK
<1>10. TopOK'
  <2>1. 1 \in DOMAIN stack' => stack'[1].disturbed
    BY <1>8 DEF IInv, StackOK
  <2> QED
    BY <2>1 DEF TopOK
<1>11. TextOK'
  <2> SUFFICES ASSUME ~Writes(top), value # 0
               PROVE  \E k \in DOMAIN stack' :
                         /\ Writes(stack'[k])
                         /\ stack'[k].act = value
                         /\ \A j \in DOMAIN stack' : j < k => ~Writes(stack'[j])
    BY <1>3 DEF TextOK, Writes
  <2>1. PICK k \in DOMAIN stack :
           /\ Writes(stack[k])
           /\ stack[k].act = value
           /\ \A j \in DOMAIN stack : j < k => ~Writes(stack[j])
    BY DEF IInv, TextOK
  <2>2. k - 1 \in DOMAIN stack' /\ stack'[k - 1] = stack[k]
    BY <1>2, <1>3, <2>1
  <2>3. ASSUME NEW j \in DOMAIN stack', j < k - 1 PROVE ~Writes(stack'[j])
    <3>1. k \in Nat /\ j \in Nat
      BY <1>1, <1>6
    <3>2. j + 1 < k
      BY <2>3, <3>1
    <3> QED
      BY <1>8, <2>1, <3>2
  <2> QED
    BY <2>1, <2>2, <2>3
<1>12. UndisturbedReturnHome'
  <2> SUFFICES ASSUME ~top.disturbed
               PROVE  to = top.hook /\ (wrong # {} => top.hook = "hookOnBotConnect")
    BY <1>3 DEF UndisturbedReturnHome
  <2>1. kept = hook.restores /\ to = top.hook
    BY <1>2, <1>5 DEF IInv, TopOK, HookOK
  <2>2. top.hook # "hookOnBotConnect" => lost = {}
    BY <1>5 DEF HookOK, PopsMatch
  <2> QED
    BY <2>1, <2>2
<1>13. SafeHooksReturn'
  <2> SUFFICES ASSUME top.hook \in SafeHooks PROVE to = top.hook /\ wrong = {}
    BY <1>3 DEF SafeHooksReturn
  <2>1. hook.restores = {} /\ hook.jump # "before"
    BY DEF SafeHooks, funcHooks, Hook, hookOnServerChangeMap, hookOnClientConnect
  <2>2. lost = {}
    BY <1>5 DEF HookOK, PopsMatch, SafeHooks
  <2> QED
    BY <2>1, <2>2
<1>14. NoForeignText' /\ EventsNameTheirClients'
  BY <1>3 DEF IInv, NoForeignText, EventsNameTheirClients
<1> QED
  BY <1>7, <1>9, <1>10, <1>11, <1>12, <1>13, <1>14 DEF IInv

\* The invariant is inductive: calls, scripts' events and returns keep it.
THEOREM NextIInv == IInv /\ [Next]_vars => IInv'
<1> SUFFICES ASSUME IInv, [Next]_vars PROVE IInv'
  OBVIOUS
<1>1. ASSUME NEW h \in Hooks, Enter(h) PROVE IInv'
  BY <1>1, EnterKeeps
<1>2. CASE OnPreClientCommandText
  <2>1. /\ stack # <<>> /\ Head(stack).told < 2 /\ Tell(Head(stack).args, value)
        /\ Head(stack).hook = "hookOnHostSay"
    BY <1>2 DEF OnPreClientCommandText, InEvent
  <2> QED
    BY <2>1, TellKeeps
<1>3. CASE OnClientDeath \/ OnClientSpawn \/ OnClientEquip
  <2>1. stack # <<>> /\ Head(stack).told < 2 /\ Tell(Head(stack).args, 0)
    BY <1>3 DEF OnClientDeath, OnClientSpawn, OnClientEquip, InEvent
  <2> QED
    BY <2>1, TellKeeps
<1>4. CASE Return
  BY <1>4, ReturnKeeps
<1>5. CASE Stopped \/ UNCHANGED vars
  <2>1. UNCHANGED <<temp, temp2, retJMP, value, stack, calls, heard, last>>
    BY <1>5 DEF Stopped, vars
  <2>2. TypeOK'
    BY <2>1 DEF IInv, TypeOK
  <2>3. StackOK' /\ TopOK' /\ TextOK'
    BY <2>1 DEF IInv, StackOK, TopOK, TextOK, Writes, ArgsOK
  <2>4. /\ UndisturbedReturnHome' /\ SafeHooksReturn'
        /\ NoForeignText' /\ EventsNameTheirClients'
    BY <2>1
       DEF IInv, UndisturbedReturnHome, SafeHooksReturn, NoForeignText, EventsNameTheirClients
  <2> QED
    BY <2>2, <2>3, <2>4 DEF IInv
<1> QED
  BY <1>1, <1>2, <1>3, <1>4, <1>5 DEF Next

\* It therefore holds all along.
THEOREM SpecIInv == Spec => []IInv
BY Initially, NextIInv, PTL DEF Spec

-----------------------------------------------------------------------------
(* What follows for the specification.                                     *)

\* Every variable stays in its type, however deep hooks nest.
THEOREM TypesHold == Spec => []TypeOK
<1>1. IInv => TypeOK
  BY DEF IInv
<1> QED
  BY <1>1, SpecIInv, PTL

\* A hook that no other interrupts returns home, whatever was in the globals; a
\* map change and a connection do so through every interruption.
THEOREM ReturnHome == Spec => []HooksReturnHome
<1>1. IInv => HooksReturnHome
  BY DEF IInv, HooksReturnHome
<1> QED
  BY <1>1, SpecIInv, PTL

\* A script that hears what a client said hears nothing another client said.
THEOREM OwnText == Spec => []NoForeignText
<1>1. IInv => NoForeignText
  BY DEF IInv
<1> QED
  BY <1>1, SpecIInv, PTL

\* Events name their own clients, whatever hooks run between the two scripts.
THEOREM OwnClients == Spec => []EventsNameTheirClients
<1>1. IInv => EventsNameTheirClients
  BY DEF IInv
<1> QED
  BY <1>1, SpecIInv, PTL

=============================================================================
