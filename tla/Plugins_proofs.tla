----------------------------- MODULE Plugins_proofs -----------------------------
(***************************************************************************)
(* Theorems about the table of plugins, for every number of slots, every   *)
(* set of files and every depth at which operations nest.                  *)
(***************************************************************************)
EXTENDS Plugins, SequenceFacts, FiniteSetTheorems, TLAPS

-----------------------------------------------------------------------------
(* The invariant.                                                          *)

\* A machine's number is that of its load: no two slots have the same.
IdsOK(slots, n) ==
    /\ \A i \in Indices :
          slots[i] # Nothing => slots[i].file \in Files /\ slots[i].id \in 1 .. n
    /\ \A i, j \in Indices :
          slots[i] # Nothing /\ slots[j] # Nothing /\ slots[i].id = slots[j].id => i = j

\* A loop has been to the machines up to the one it calls: an event was given to
\* those of them that were there when it began, unloadallplugins left none of
\* them; and it has not been to any of those behind.
FrameOK(f, slots, n) ==
    /\ f \in Frame
    /\ f.id \in 1 .. n /\ f.due \subseteq 1 .. n /\ f.got \subseteq 1 .. n
    /\ f.kind \in {"event", "unloadall"} =>
          \A i \in Indices : slots[i] # Nothing /\ i > f.at => slots[i].id \notin f.got
    /\ f.kind = "event" =>
          \A i \in Indices :
              slots[i] # Nothing /\ i <= f.at /\ slots[i].id \in f.due =>
                  slots[i].id \in f.got
    /\ f.kind = "unloadall" =>
          \A i \in Indices : slots[i] # Nothing /\ i < f.at => slots[i].id \notin f.due

FramesOK(ops, slots, n) == \A f \in Range(ops) : FrameOK(f, slots, n)

\* A slot has its plugin's name, or the load that will store it is under way.
NameOK(i) ==
    \/ names[i] = StoredName(plugins[i].file)
    \/ \E f \in Range(stack) :
          f.kind = "load" /\ f.at = i /\ f.id = plugins[i].id

NamesOK ==
    \A i \in Indices : Loaded(i) /\ plugins[i].file \notin Broken => NameOK(i)

\* The machine that an operation has called is still in its slot.
Present(f, slots) == slots[f.at] # Nothing /\ slots[f.at].id = f.id

\* Unless plugins unload plugins, every operation finds what it called, and an
\* unloading is the outermost operation.
Calm ==
    running /\ ~nested =>
        /\ \A f \in Range(stack) : Present(f, plugins)
        /\ \A j, k \in DOMAIN stack :
              stack[k].kind \in {"unload", "unloadall"} => j <= k

IInv ==
    /\ TypeOK
    /\ IdsOK(plugins, loads)
    /\ FramesOK(stack, plugins, loads)
    /\ NamesOK
    /\ Calm
    /\ CrashesExplained

-----------------------------------------------------------------------------
(* Slots and frames.                                                       *)
\* Slots are finitely many natural numbers, and a machine is not nothing.
LEMMA SlotFacts ==
    /\ MaxPlugins \in Nat \ {0}
    /\ Indices \subseteq Nat /\ IsFiniteSet(Indices) /\ 0 \in Indices
    /\ Nothing \notin Names
    /\ \A f \in Files, n \in Nat : [file |-> f, id |-> n] # Nothing
<1>1. MaxPlugins \in Nat \ {0}
  BY PluginsAssumption
<1>2. Nothing \notin Names \cup [file : Files, id : Nat]
  BY PluginsAssumption
<1>3. IsFiniteSet(0 .. MaxPlugins - 1)
  BY <1>1, FS_Interval
<1>4. 0 .. MaxPlugins - 1 \subseteq Nat /\ 0 \in 0 .. MaxPlugins - 1
  BY <1>1
<1> QED
  BY <1>1, <1>2, <1>3, <1>4 DEF Indices

\* A non-empty set of slots has a lowest one.
LEMMA LowestExists ==
    ASSUME NEW S \in SUBSET Indices, S # {}
    PROVE  \E x \in S : x \in Lowest(S)
<1>1. S \in SUBSET Nat
  BY SlotFacts
<1> QED
  BY <1>1, LeastExists DEF Lowest

\* The slot a loop goes to next: those before it, from i on, are empty; and
\* there is one as long as a slot from i on has a plugin.
LEMMA NextSlot ==
    ASSUME NEW i \in Nat
    PROVE  /\ \A n \in NextLoaded(i) :
                 /\ n \in Indices /\ n >= i /\ Loaded(n)
                 /\ \A j \in Indices : j >= i /\ j < n => ~Loaded(j)
           /\ NextLoaded(i) = {} => \A j \in Indices : j >= i => ~Loaded(j)
<1> DEFINE from == {j \in Indices : j >= i /\ Loaded(j)}
<1>1. from \in SUBSET Indices /\ NextLoaded(i) = Lowest(from)
  BY DEF NextLoaded
<1>2. Indices \subseteq Nat
  BY SlotFacts
<1>3. NextLoaded(i) = {} => from = {}
  <2> HIDE DEF from
  <2> QED
    BY <1>1, LowestExists
<1>4. \A n \in NextLoaded(i) : n \in from /\ \A j \in from : n <= j
  BY <1>1 DEF Lowest
<1>5. \A n \in NextLoaded(i), j \in Indices : j >= i /\ j < n => ~Loaded(j)
  <2> SUFFICES ASSUME NEW n \in NextLoaded(i), NEW j \in Indices,
                      j >= i, j < n, Loaded(j)
               PROVE  FALSE
    OBVIOUS
  <2>1. j \in from
    OBVIOUS
  <2> HIDE DEF from
  <2>2. n \in from /\ n <= j
    BY <1>4, <2>1
  <2>3. n \in Nat /\ j \in Nat
    BY <1>1, <1>2, <2>2
  <2> QED
    BY <2>2, <2>3
<1> QED
  BY <1>3, <1>4, <1>5

\* What holds of a frame survives machines that are freed and new machines.
LEMMA FrameKept ==
    ASSUME NEW f, NEW slots, NEW after, NEW n \in Nat, NEW m \in Nat, n <= m,
           FrameOK(f, slots, n),
           \A i \in Indices : after[i] # Nothing =>
                slots[i] = after[i] \/ (after[i].id \in Nat /\ after[i].id > n)
    PROVE  FrameOK(f, after, m)
<1>1. \A x \in 1 .. n : x \in 1 .. m /\ ~ (x > n)
  OBVIOUS
<1>2. /\ f \in Frame /\ f.id \in 1 .. m /\ f.due \subseteq 1 .. m /\ f.got \subseteq 1 .. m
      /\ f.due \subseteq 1 .. n /\ f.got \subseteq 1 .. n
  BY <1>1 DEF FrameOK
<1>3. ASSUME NEW i \in Indices, after[i] # Nothing
      PROVE  \/ slots[i] # Nothing /\ slots[i] = after[i]
             \/ after[i].id \notin f.due /\ after[i].id \notin f.got
  BY <1>1, <1>2, <1>3
<1> QED
  BY <1>2, <1>3 DEF FrameOK

-----------------------------------------------------------------------------
(* What a step may do to slots, names and operations.                      *)

\* Machines are freed, and none is put anywhere.
Freed == \A i \in Indices : plugins'[i] \in {plugins[i], Nothing}

\* Freeing keeps numbers apart and what holds of each frame.
LEMMA FreedKeeps ==
    ASSUME TypeOK, IdsOK(plugins, loads), FramesOK(stack, plugins, loads),
           Freed, loads' = loads
    PROVE  /\ IdsOK(plugins', loads')
           /\ FramesOK(stack, plugins', loads')
<1>1. loads \in Nat
  BY PluginsAssumption DEF TypeOK
<1>2. \A i \in Indices : plugins'[i] # Nothing => plugins'[i] = plugins[i]
  BY DEF Freed
<1>3. IdsOK(plugins', loads')
  BY <1>2 DEF IdsOK
<1>4. ASSUME NEW f \in Range(stack) PROVE FrameOK(f, plugins', loads')
  <2>1. FrameOK(f, plugins, loads)
    BY DEF FramesOK
  <2> QED
    BY <1>1, <1>2, <2>1, FrameKept
<1> QED
  BY <1>3, <1>4 DEF FramesOK

\* An operation calls a machine: its frame replaces the one of its previous
\* call, or is new.
LEMMA CallKeeps ==
    ASSUME IInv, running, Freed,
           plugins' \in [Indices -> Machine \cup {Nothing}],
           UNCHANGED <<names, loads>>, plugincount' \in Indices,
           nested' \in BOOLEAN, nested => nested',
           NEW kind \in {"event", "unload", "unloadall"},
           NEW i \in Indices, plugins'[i] # Nothing,
           NEW due \in SUBSET (1 .. loads), NEW got \in SUBSET (1 .. loads),
           NEW rest,
           \/ rest = stack
           \/ stack # <<>> /\ rest = Tail(stack) /\ Head(stack).kind # "load",
           ~nested' => rest = <<>> \/ (kind = "event" /\ UNCHANGED plugins),
           FrameOK([kind |-> kind, at |-> i, id |-> plugins[i].id,
                    due |-> due, got |-> got \cup {plugins[i].id}], plugins', loads),
           Call(kind, i, due, got, rest)
    PROVE  IInv'
<1> DEFINE f == [kind |-> kind, at |-> i, id |-> plugins[i].id,
                 due |-> due, got |-> got \cup {plugins[i].id}]
<1>1. /\ TypeOK /\ IdsOK(plugins, loads) /\ FramesOK(stack, plugins, loads)
      /\ NamesOK /\ Calm /\ CrashesExplained
  BY DEF IInv
<1>2. IdsOK(plugins', loads') /\ FramesOK(stack, plugins', loads')
  BY <1>1, FreedKeeps
<1>3. plugins'[i] = plugins[i] /\ Loaded(i)
  BY DEF Freed, Loaded
<1>4. \A j \in Indices : Loaded(j)' => Loaded(j) /\ plugins'[j] = plugins[j]
  BY DEF Freed, Loaded
<1>5. CASE plugins[i].file \in Broken
  <2>1. running' = FALSE /\ stack' = stack
    BY <1>5 DEF Call
  <2>2. TypeOK'
    BY <1>1, <2>1 DEF TypeOK
  <2>3. NamesOK'
    BY <1>1, <1>4, <2>1 DEF NamesOK, NameOK
  <2>4. Calm' /\ CrashesExplained'
    BY <1>3, <1>5, <2>1 DEF Calm, CrashesExplained, Loaded
  <2> QED
    BY <1>2, <2>1, <2>2, <2>3, <2>4 DEF IInv
<1>6. CASE plugins[i].file \notin Broken
  <2>1. running' /\ stack' = <<f>> \o rest
    BY <1>6 DEF Call
  <2>2. f \in Frame /\ FrameOK(f, plugins', loads')
    BY DEF FrameOK
  <2>3. /\ rest \in Seq(Frame) /\ Range(rest) \subseteq Range(stack)
        /\ \A g \in Range(stack) : g.kind = "load" => g \in Range(rest)
        /\ stack \in Seq(Frame)
    BY <1>1, PopKeeps DEF TypeOK
  <2> HIDE DEF f
  <2>4. stack' \in Seq(Frame) /\ Range(stack') = {f} \cup Range(rest)
    BY <2>1, <2>2, <2>3, PushKeeps
  <2>5. TypeOK'
    BY <1>1, <2>1, <2>4 DEF TypeOK
  <2>6. FramesOK(stack', plugins', loads')
    BY <1>2, <2>2, <2>3, <2>4 DEF FramesOK
  <2>7. NamesOK'
    BY <1>1, <1>4, <2>3, <2>4 DEF NamesOK, NameOK
  <2>8. Calm'
    <3>1. SUFFICES ASSUME ~nested'
                   PROVE  /\ \A g \in Range(stack') : Present(g, plugins')
                          /\ \A j, k \in DOMAIN stack' :
                                stack'[k].kind \in {"unload", "unloadall"} => j <= k
      BY <2>1 DEF Calm
    <3>2. Present(f, plugins')
      BY <1>3 DEF Present, f
    <3>3. CASE rest = <<>>
      <4>1. stack' = <<f>>
        BY <2>1, <2>2, <3>3
      <4> QED
        BY <2>4, <3>2, <3>3, <4>1 DEF Range
    <3>4. CASE kind = "event" /\ UNCHANGED plugins
      <4>1. /\ \A g \in Range(stack) : Present(g, plugins)
            /\ \A j, k \in DOMAIN stack :
                  stack[k].kind \in {"unload", "unloadall"} => j <= k
        BY <1>1, <3>1 DEF Calm
      <4>2. \A j, k \in DOMAIN rest :
               rest[k].kind \in {"unload", "unloadall"} => j <= k
        <5>1. CASE rest = stack
          BY <4>1, <5>1
        <5>2. CASE stack # <<>> /\ rest = Tail(stack)
          <6>1. \A j \in DOMAIN rest :
                   j \in Nat /\ j + 1 \in DOMAIN stack /\ rest[j] = stack[j + 1]
            BY <2>3, <5>2, PopShifts
          <6> QED
            BY <4>1, <6>1
        <5> QED
          BY <5>1, <5>2
      <4>3. \A j \in DOMAIN stack' :
               \/ j = 1
               \/ j - 1 \in DOMAIN rest /\ stack'[j] = rest[j - 1] /\ j \in Nat
        BY <2>1, <2>2, <2>3, <2>4, PushShifts
      <4>4. stack'[1].kind = "event" /\ \A j \in DOMAIN rest : j \in Nat /\ j >= 1
        BY <2>1, <2>2, <2>3, <3>4, PushShifts DEF f
      <4>5. \A j, k \in DOMAIN stack' :
               stack'[k].kind \in {"unload", "unloadall"} => j <= k
        BY <4>2, <4>3, <4>4
      <4> QED
        BY <2>3, <2>4, <3>2, <3>4, <4>1, <4>5
    <3> QED
      BY <3>3, <3>4, <3>1
  <2>9. CrashesExplained'
    BY <2>1 DEF CrashesExplained
  <2> QED
    BY <1>2, <2>5, <2>6, <2>7, <2>8, <2>9 DEF IInv
<1> QED
  BY <1>5, <1>6

\* The innermost operation is over.
LEMMA ReturnKeeps ==
    ASSUME IInv, running, stack # <<>>, stack' = Tail(stack), Freed,
           plugins' \in [Indices -> Machine \cup {Nothing}],
           names' \in [Indices -> Names \cup {Nothing}],
           UNCHANGED <<loads, running, nested>>, plugincount' \in Indices,
           \A i \in Indices : names'[i] = names[i] \/ names'[i] = StoredName(plugins'[i].file),
           Head(stack).kind = "load" =>
               names'[Head(stack).at] = StoredName(plugins'[Head(stack).at].file),
           UNCHANGED plugins \/ Head(stack).kind \in {"unload", "unloadall"}
    PROVE  IInv'
<1>1. /\ TypeOK /\ IdsOK(plugins, loads) /\ FramesOK(stack, plugins, loads)
      /\ NamesOK /\ Calm
  BY DEF IInv
<1>2. stack \in Seq(Frame)
  BY <1>1 DEF TypeOK
<1>3. stack' \in Seq(Frame) /\ Range(stack) = {Head(stack)} \cup Range(stack')
  BY <1>2, PopKeeps
<1>4. IdsOK(plugins', loads') /\ FramesOK(stack', plugins', loads')
  BY <1>1, <1>3, FreedKeeps DEF FramesOK
<1>5. TypeOK'
  BY <1>1, <1>3 DEF TypeOK
<1>6. NamesOK'
  <2> SUFFICES ASSUME NEW i \in Indices, Loaded(i)', plugins'[i].file \notin Broken
               PROVE  NameOK(i)'
    BY DEF NamesOK
  <2>1. plugins'[i] = plugins[i] /\ Loaded(i)
    BY DEF Freed, Loaded
  <2>2. NameOK(i)
    BY <1>1, <2>1 DEF NamesOK
  <2> QED
    BY <1>3, <2>1, <2>2 DEF NameOK
<1>7. Calm'
  <2> SUFFICES ASSUME ~nested
               PROVE  /\ \A g \in Range(stack') : Present(g, plugins')
                      /\ \A j, k \in DOMAIN stack' :
                            stack'[k].kind \in {"unload", "unloadall"} => j <= k
    BY DEF Calm
  <2>1. /\ \A g \in Range(stack) : Present(g, plugins)
        /\ \A j, k \in DOMAIN stack :
              stack[k].kind \in {"unload", "unloadall"} => j <= k
    BY <1>1 DEF Calm
  <2>2. /\ 1 \in DOMAIN stack /\ Head(stack) = stack[1]
        /\ \A j \in DOMAIN stack' :
              j \in Nat /\ j >= 1 /\ j + 1 \in DOMAIN stack /\ stack'[j] = stack[j + 1]
    BY <1>2, <1>3, PopShifts
  <2>3. CASE UNCHANGED plugins
    BY <1>3, <2>1, <2>2, <2>3
  <2>4. CASE Head(stack).kind \in {"unload", "unloadall"}
    <3>1. \A j \in DOMAIN stack' : FALSE
      BY <2>1, <2>2, <2>4
    <3> QED
      BY <3>1 DEF Range
  <2> QED
    BY <2>3, <2>4
<1>8. CrashesExplained'
  BY DEF CrashesExplained
<1> QED
  BY <1>4, <1>5, <1>6, <1>7, <1>8 DEF IInv

\* What the innermost operation knows when its call comes back.
LEMMA TopFrame ==
    ASSUME IInv, stack # <<>>, Intact
    PROVE  LET top == Head(stack)
           IN  /\ FrameOK(top, plugins, loads) /\ top.at \in Indices
               /\ Loaded(top.at) /\ plugins[top.at].id = top.id
               /\ plugins[top.at].file \in Files
<1>1. stack \in Seq(Frame) /\ FramesOK(stack, plugins, loads) /\ IdsOK(plugins, loads)
  BY DEF IInv, TypeOK
<1>2. Head(stack) \in Range(stack) /\ Head(stack) \in Frame
  BY <1>1, PopKeeps
<1> QED
  BY <1>1, <1>2 DEF FramesOK, Intact, Frame, IdsOK, Loaded

-----------------------------------------------------------------------------
(* Every step keeps the invariant.                                         *)

\* There is no plugin and no operation.
LEMMA Initially == Init => IInv
<1> SUFFICES ASSUME Init PROVE IInv
  OBVIOUS
<1>1. TypeOK
  <2>1. 0 \in Indices /\ 0 \in 0 .. MaxLoads
    BY SlotFacts, PluginsAssumption
  <2> QED
    BY <2>1 DEF Init, TypeOK
<1>2. Range(stack) = {} /\ DOMAIN stack = {}
  BY DEF Init, Range
<1>3. \A i \in Indices : plugins[i] = Nothing
  BY DEF Init
<1>4. IdsOK(plugins, loads) /\ NamesOK
  BY <1>3 DEF IdsOK, NamesOK, Loaded
<1>5. FramesOK(stack, plugins, loads) /\ Calm
  BY <1>2 DEF FramesOK, Calm
<1>6. CrashesExplained
  BY DEF Init, CrashesExplained
<1> QED
  BY <1>1, <1>4, <1>5, <1>6 DEF IInv

\* The numbers of the machines there are.
LEMMA IdsTyped ==
    ASSUME IdsOK(plugins, loads)
    PROVE  Ids \in SUBSET (1 .. loads)
BY DEF Ids, IdsOK, Loaded

\* A load puts its machine in an empty slot, and may go on to call it.
LEMMA LoadKeeps ==
    ASSUME IInv, NEW file \in Files, LoadScript(file)
    PROVE  IInv'
<1> DEFINE id == loads + 1
<1>1. /\ TypeOK /\ IdsOK(plugins, loads) /\ FramesOK(stack, plugins, loads)
      /\ NamesOK /\ Calm /\ stack \in Seq(Frame)
  BY DEF IInv, TypeOK
<1>2. PICK i \in FreeSpot :
         /\ plugins' = [plugins EXCEPT ![i] = [file |-> file, id |-> id]]
         /\ IF file \in Broken
            THEN UNCHANGED stack
            ELSE stack' = <<[kind |-> "load", at |-> i, id |-> id,
                             due |-> {}, got |-> {}]>> \o stack
  BY DEF LoadScript
<1>3. i \in Indices /\ ~Loaded(i)
  BY DEF FreeSpot, Lowest
<1>4. /\ loads' = id /\ running /\ running' /\ loads < MaxLoads
      /\ UNCHANGED <<names, plugincount, running, nested>>
  BY DEF LoadScript, Command
<1>5. loads \in Nat /\ id \in Nat /\ id \in 1 .. id /\ id \in 0 .. MaxLoads
  BY <1>1, <1>4, PluginsAssumption DEF TypeOK
<1>6. [file |-> file, id |-> id] \in Machine /\ [file |-> file, id |-> id] # Nothing
  BY <1>5, SlotFacts DEF Machine
<1>7. /\ plugins' \in [Indices -> Machine \cup {Nothing}]
      /\ plugins'[i] = [file |-> file, id |-> id]
      /\ \A j \in Indices : j # i => plugins'[j] = plugins[j]
  BY <1>1, <1>2, <1>3, <1>6 DEF TypeOK
<1> DEFINE f == [kind |-> "load", at |-> i, id |-> id, due |-> {}, got |-> {}]
<1>8. f \in Frame
  BY <1>3, <1>5 DEF Frame, Kinds
<1>9. FrameOK(f, plugins', id)
  BY <1>5, <1>8 DEF FrameOK
<1>10. IdsOK(plugins', loads')
  <2>1. \A j \in Indices : plugins'[j] # Nothing =>
            /\ plugins'[j].file \in Files /\ plugins'[j].id \in 1 .. id
            /\ j # i => plugins'[j].id \in 1 .. loads
    BY <1>1, <1>5, <1>7 DEF IdsOK
  <2>2. id \notin 1 .. loads
    BY <1>5
  <2> QED
    BY <1>1, <1>4, <1>7, <2>1, <2>2 DEF IdsOK
<1>11. FramesOK(stack, plugins', loads')
  <2> SUFFICES ASSUME NEW g \in Range(stack) PROVE FrameOK(g, plugins', id)
    BY <1>4 DEF FramesOK
  <2>1. FrameOK(g, plugins, loads)
    BY <1>1 DEF FramesOK
  <2>2. \A j \in Indices : plugins'[j] # Nothing =>
            plugins[j] = plugins'[j] \/ (plugins'[j].id \in Nat /\ plugins'[j].id > loads)
    BY <1>5, <1>7
  <2> QED
    BY <1>5, <2>1, <2>2, FrameKept
<1>12. /\ stack' \in Seq(Frame) /\ Range(stack) \subseteq Range(stack')
       /\ \A g \in Range(stack') : g = f \/ g \in Range(stack)
       /\ file \notin Broken => f \in Range(stack')
  <2>1. file \in Broken => stack' = stack
    BY <1>2
  <2>2. file \notin Broken => stack' = <<f>> \o stack
    BY <1>2
  <2> HIDE DEF f
  <2>3. <<f>> \o stack \in Seq(Frame) /\ Range(<<f>> \o stack) = {f} \cup Range(stack)
    BY <1>1, <1>8, PushKeeps
  <2> QED
    BY <1>1, <2>1, <2>2, <2>3
<1>13. TypeOK'
  BY <1>1, <1>4, <1>5, <1>7, <1>12 DEF TypeOK
<1>14. FramesOK(stack', plugins', loads')
  <2> HIDE DEF f
  <2> QED
    BY <1>4, <1>9, <1>11, <1>12 DEF FramesOK
<1>15. NamesOK'
  <2> SUFFICES ASSUME NEW j \in Indices, Loaded(j)', plugins'[j].file \notin Broken
               PROVE  NameOK(j)'
    BY DEF NamesOK
  <2>1. CASE j = i
    BY <1>7, <1>12, <2>1 DEF NameOK
  <2>2. CASE j # i
    BY <1>1, <1>4, <1>7, <1>12, <2>2 DEF NamesOK, NameOK, Loaded
  <2> QED
    BY <2>1, <2>2
<1>16. Calm'
  <2> SUFFICES ASSUME ~nested
               PROVE  /\ \A g \in Range(stack') : Present(g, plugins')
                      /\ \A j, k \in DOMAIN stack' :
                            stack'[k].kind \in {"unload", "unloadall"} => j <= k
    BY <1>4 DEF Calm
  <2>1. /\ \A g \in Range(stack) : Present(g, plugins)
        /\ \A j, k \in DOMAIN stack :
              stack[k].kind \in {"unload", "unloadall"} => j <= k
    BY <1>1, <1>4 DEF Calm
  <2>2. \A g \in Range(stack) : g.at \in Indices /\ g.at # i
    BY <1>1, <1>3, <2>1 DEF FramesOK, FrameOK, Frame, Present, Loaded
  <2>3. \A g \in Range(stack') : Present(g, plugins')
    BY <1>6, <1>7, <1>12, <2>1, <2>2 DEF Present
  <2>4. CASE file \in Broken
    BY <1>2, <2>1, <2>3, <2>4
  <2>5. CASE file \notin Broken
    <3>1. stack' = <<f>> \o stack
      BY <1>2, <2>5
    <3>2. f.kind = "load"
      OBVIOUS
    <3> HIDE DEF f
    <3>3. /\ stack'[1] = f
          /\ \A j \in DOMAIN stack' :
               \/ j = 1
               \/ j - 1 \in DOMAIN stack /\ stack'[j] = stack[j - 1] /\ j \in Nat
          /\ \A j \in DOMAIN stack : j \in Nat /\ j >= 1
      BY <1>1, <1>8, <3>1, PushShifts
    <3>4. \A j, k \in DOMAIN stack' :
             stack'[k].kind \in {"unload", "unloadall"} => j <= k
      BY <2>1, <3>2, <3>3
    <3> QED
      BY <2>3, <3>4
  <2> QED
    BY <2>4, <2>5
<1>17. CrashesExplained'
  BY <1>4 DEF CrashesExplained
<1> QED
  BY <1>10, <1>13, <1>14, <1>15, <1>16, <1>17 DEF IInv

\* A loop begins: nobody behind the slot it calls first has been called.
LEMMA FirstFrame ==
    ASSUME IInv, NEW kind \in {"event", "unload", "unloadall"},
           NEW i \in Indices, Loaded(i),
           kind = "unload" \/ (\A j \in Indices : j < i => ~Loaded(j)),
           NEW due \in SUBSET (1 .. loads)
    PROVE  FrameOK([kind |-> kind, at |-> i, id |-> plugins[i].id,
                    due |-> due, got |-> {} \cup {plugins[i].id}], plugins, loads)
<1> DEFINE f == [kind |-> kind, at |-> i, id |-> plugins[i].id,
                 due |-> due, got |-> {} \cup {plugins[i].id}]
<1>1. IdsOK(plugins, loads) /\ loads \in Nat /\ Indices \subseteq Nat
  BY SlotFacts, PluginsAssumption DEF IInv, TypeOK
<1>2. plugins[i].id \in 1 .. loads
  BY <1>1 DEF IdsOK, Loaded
<1>3. /\ f.kind = kind /\ f.at = i /\ f.id = plugins[i].id /\ f.due = due
      /\ f.got = {plugins[i].id}
  OBVIOUS
<1>4. f \in Frame
  <2>1. f.due \subseteq Nat /\ f.got \subseteq Nat /\ f.id \in Nat
    BY <1>1, <1>2
  <2> QED
    BY <2>1 DEF Frame, Kinds
<1> HIDE DEF f
<1>5. \A j \in Indices : plugins[j] # Nothing /\ j > i => plugins[j].id # plugins[i].id
  BY <1>1 DEF IdsOK, Loaded
<1>6. \A j \in Indices : kind # "unload" /\ plugins[j] # Nothing /\ j <= i => j = i
  BY <1>1 DEF Loaded
<1> QED
  BY <1>1, <1>2, <1>3, <1>4, <1>5, <1>6 DEF FrameOK, f

\* A loop goes on: it has been to every slot up to the next one.
LEMMA NextFrame ==
    ASSUME IInv, stack # <<>>, Intact, Freed,
           NEW i \in NextLoaded(Head(stack).at + 1),
           Head(stack).kind \in {"event", "unloadall"},
           Head(stack).kind = "unloadall" => plugins'[Head(stack).at] = Nothing
    PROVE  LET top == Head(stack)
           IN  FrameOK([kind |-> top.kind, at |-> i, id |-> plugins[i].id,
                        due |-> top.due, got |-> top.got \cup {plugins[i].id}],
                       plugins', loads)
<1> DEFINE top == Head(stack)
           f == [kind |-> top.kind, at |-> i, id |-> plugins[i].id,
                 due |-> top.due, got |-> top.got \cup {plugins[i].id}]
<1>1. IdsOK(plugins, loads) /\ loads \in Nat /\ Indices \subseteq Nat
  BY SlotFacts, PluginsAssumption DEF IInv, TypeOK
<1>2. /\ FrameOK(top, plugins, loads) /\ top.at \in Indices /\ top \in Frame
      /\ Loaded(top.at) /\ plugins[top.at].id = top.id
  BY TopFrame DEF FrameOK
<1>3. /\ i \in Indices /\ i >= top.at + 1 /\ Loaded(i)
      /\ \A j \in Indices : j >= top.at + 1 /\ j < i => ~Loaded(j)
  <2> DEFINE from == Head(stack).at + 1
  <2>1. from \in Nat
    BY <1>1, <1>2
  <2>2. i \in NextLoaded(from)
    OBVIOUS
  <2> HIDE DEF from
  <2>3. /\ i \in Indices /\ i >= from /\ Loaded(i)
        /\ \A j \in Indices : j >= from /\ j < i => ~Loaded(j)
    BY <2>1, <2>2, NextSlot
  <2> QED
    BY <2>3 DEF from
<1> DEFINE at == top.at
<1>4. plugins[i].id \in 1 .. loads
  BY <1>1, <1>3 DEF IdsOK, Loaded
<1>5. /\ f.kind = top.kind /\ f.at = i /\ f.id = plugins[i].id /\ f.due = top.due
      /\ f.got = top.got \cup {plugins[i].id}
  OBVIOUS
<1>6. f \in Frame
  <2>1. /\ top.kind \in Kinds /\ top.due \subseteq Nat /\ top.got \subseteq Nat
        /\ plugins[i].id \in Nat
    BY <1>1, <1>2, <1>4 DEF Frame
  <2> QED
    BY <1>3, <2>1 DEF Frame
<1>7. \A j \in Indices : plugins'[j] # Nothing => plugins'[j] = plugins[j] /\ Loaded(j)
  BY DEF Freed, Loaded
<1>8. at \in Nat /\ i \in Nat /\ i >= at + 1
  BY <1>1, <1>2, <1>3
<1>9. \A j \in Indices : plugins'[j] # Nothing =>
         \/ j <= at /\ j < i
         \/ j = i
         \/ j > i /\ j > at /\ plugins'[j].id # plugins[i].id
  <2> SUFFICES ASSUME NEW j \in Indices, plugins'[j] # Nothing
               PROVE  \/ j <= at /\ j < i
                      \/ j = i
                      \/ j > i /\ j > at /\ plugins'[j].id # plugins[i].id
    OBVIOUS
  <2>1. j \in Nat /\ Loaded(j) /\ plugins'[j] = plugins[j]
    BY <1>1, <1>7
  <2>2. ~ (j >= at + 1 /\ j < i)
    BY <1>3, <2>1
  <2>3. j # i => plugins[j].id # plugins[i].id
    BY <1>1, <1>3, <2>1 DEF IdsOK, Loaded
  <2> HIDE DEF at
  <2> QED
    BY <1>8, <2>1, <2>2, <2>3
<1> HIDE DEF f
<1>10. ASSUME NEW j \in Indices, plugins'[j] # Nothing, j > i
       PROVE  plugins'[j].id \notin f.got
  <2>1. j > at /\ plugins'[j].id # plugins[i].id
    BY <1>1, <1>8, <1>9, <1>10
  <2> QED
    BY <1>2, <1>5, <1>7, <1>10, <2>1 DEF FrameOK, Loaded
<1>11. ASSUME f.kind = "event", NEW j \in Indices, plugins'[j] # Nothing, j <= i,
              plugins'[j].id \in f.due
       PROVE  plugins'[j].id \in f.got
  <2>1. j <= at \/ j = i
    BY <1>1, <1>8, <1>9, <1>11
  <2> QED
    BY <1>2, <1>5, <1>7, <1>11, <2>1 DEF FrameOK, Loaded
<1>12. ASSUME f.kind = "unloadall", NEW j \in Indices, plugins'[j] # Nothing, j < i
       PROVE  plugins'[j].id \notin f.due
  <2>1. j # at
    BY <1>5, <1>12
  <2>2. j < at
    BY <1>1, <1>8, <1>9, <1>12, <2>1
  <2> QED
    BY <1>2, <1>5, <1>7, <1>12, <2>2 DEF FrameOK, Loaded
<1> QED
  BY <1>2, <1>4, <1>5, <1>6, <1>10, <1>11, <1>12 DEF FrameOK, f

\* Operations begin: an event, an unloading by name and unloadallplugins.
LEMMA BeginKeeps ==
    ASSUME IInv,
           \/ \E name \in Names \cup Files : RemovePluginByName(name)
           \/ UnloadAllPlugins
           \/ Event
    PROVE  IInv'
<1>1. /\ TypeOK /\ IdsOK(plugins, loads) /\ Indices \subseteq Nat
      /\ plugins \in [Indices -> Machine \cup {Nothing}] /\ plugincount \in Indices
      /\ stack \in Seq(Frame) /\ nested \in BOOLEAN /\ 0 \in Indices
  BY SlotFacts DEF IInv, TypeOK
<1>2. Ids \in SUBSET (1 .. loads) /\ {} \in SUBSET (1 .. loads)
  BY <1>1, IdsTyped
<1>3. running
  BY DEF RemovePluginByName, UnloadAllPlugins, Event, Command
<1>4. \A i \in NextLoaded(0) :
         i \in Indices /\ Loaded(i) /\ \A j \in Indices : j < i => ~Loaded(j)
  BY <1>1, NextSlot
<1>5. CASE \E name \in Names \cup Files : RemovePluginByName(name)
  <2>1. PICK name \in Names \cup Files : RemovePluginByName(name)
    BY <1>5
  <2>2. PICK i \in FindName(name) : Loaded(i) /\ Call("unload", i, {}, {}, stack)
    BY <2>1 DEF RemovePluginByName
  <2>3. i \in Indices
    BY DEF FindName, Lowest
  <2>4. /\ UNCHANGED <<plugins, names, plugincount, loads>>
        /\ nested' = (nested \/ stack # <<>>)
    BY <2>1 DEF RemovePluginByName
  <2>5. FrameOK([kind |-> "unload", at |-> i, id |-> plugins[i].id,
                 due |-> {}, got |-> {} \cup {plugins[i].id}], plugins', loads)
    BY <1>2, <2>2, <2>3, <2>4, FirstFrame
  <2>6. Freed /\ plugins'[i] # Nothing
    BY <2>2, <2>4 DEF Freed, Loaded
  <2>7. nested' \in BOOLEAN /\ (nested => nested') /\ (~nested' => stack = <<>>)
    BY <1>1, <2>4
  <2> QED
    BY <1>1, <1>2, <1>3, <2>2, <2>3, <2>4, <2>5, <2>6, <2>7, CallKeeps
<1>6. CASE UnloadAllPlugins
  <2>1. /\ UNCHANGED <<plugins, names, loads>>
        /\ nested' = (nested \/ stack # <<>>)
        /\ plugincount' \in Indices
    BY <1>1, <1>6 DEF UnloadAllPlugins
  <2>2. nested' \in BOOLEAN /\ (nested => nested') /\ (~nested' => stack = <<>>)
    BY <1>1, <2>1
  <2>3. CASE NextLoaded(0) = {}
    <3>1. UNCHANGED <<stack, running>>
      BY <1>6, <2>3 DEF UnloadAllPlugins
    <3>2. TypeOK' /\ IdsOK(plugins', loads') /\ FramesOK(stack', plugins', loads')
      BY <2>1, <2>2, <3>1 DEF IInv, TypeOK
    <3>3. NamesOK'
      BY <2>1, <3>1 DEF IInv, NamesOK, NameOK, Loaded
    <3>4. Calm'
      BY <2>1, <2>2, <3>1 DEF IInv, Calm
    <3>5. CrashesExplained'
      BY <1>3, <3>1 DEF CrashesExplained
    <3> QED
      BY <3>2, <3>3, <3>4, <3>5 DEF IInv
  <2>4. CASE NextLoaded(0) # {}
    <3>1. PICK i \in NextLoaded(0) : Call("unloadall", i, Ids, {}, stack)
      BY <1>6, <2>4 DEF UnloadAllPlugins
    <3>2. FrameOK([kind |-> "unloadall", at |-> i, id |-> plugins[i].id,
                   due |-> Ids, got |-> {} \cup {plugins[i].id}], plugins', loads)
      BY <1>2, <1>4, <2>1, FirstFrame
    <3>3. Freed /\ plugins'[i] # Nothing
      BY <1>4, <2>1 DEF Freed, Loaded
    <3> QED
      BY <1>1, <1>2, <1>3, <1>4, <2>1, <2>2, <3>1, <3>2, <3>3, CallKeeps
  <2> QED
    BY <2>3, <2>4
<1>7. CASE Event
  <2>1. PICK i \in NextLoaded(0) : Call("event", i, Ids, {}, stack)
    BY <1>7 DEF Event
  <2>2. UNCHANGED <<plugins, names, plugincount, loads, nested>>
    BY <1>7 DEF Event
  <2>3. FrameOK([kind |-> "event", at |-> i, id |-> plugins[i].id,
                 due |-> Ids, got |-> {} \cup {plugins[i].id}], plugins', loads)
    BY <1>2, <1>4, <2>2, FirstFrame
  <2>4. Freed /\ plugins'[i] # Nothing
    BY <1>4, <2>2 DEF Freed, Loaded
  <2> QED
    BY <1>1, <1>2, <1>3, <1>4, <2>1, <2>2, <2>3, <2>4, CallKeeps
<1> QED
  BY <1>5, <1>6, <1>7

\* An operation goes on, or is over.
LEMMA GoOnKeeps ==
    ASSUME IInv, OnPluginInit \/ RemovePlugin \/ UnloadNext \/ EventNext
    PROVE  IInv'
<1> DEFINE top == Head(stack)
<1>1. /\ running /\ Intact /\ stack # <<>>
      /\ UNCHANGED <<loads, nested>>
      /\ \/ top.kind = "load" /\ OnPluginInit
         \/ top.kind = "unload" /\ RemovePlugin
         \/ top.kind = "unloadall" /\ UnloadNext
         \/ top.kind = "event" /\ EventNext
  BY DEF OnPluginInit, RemovePlugin, UnloadNext, EventNext, Back
<1>2. /\ TypeOK /\ stack \in Seq(Frame) /\ nested \in BOOLEAN /\ 0 \in Indices
      /\ plugins \in [Indices -> Machine \cup {Nothing}] /\ plugincount \in Indices
      /\ names \in [Indices -> Names \cup {Nothing}] /\ Indices \subseteq Nat
  BY SlotFacts DEF IInv, TypeOK
<1>3. /\ FrameOK(top, plugins, loads) /\ top.at \in Indices
      /\ Loaded(top.at) /\ plugins[top.at].id = top.id
      /\ plugins[top.at].file \in Files
  BY <1>1, TopFrame
<1>4. \A i \in NextLoaded(top.at + 1) :
         i \in Indices /\ i # top.at /\ Loaded(i)
  <2> DEFINE at   == top.at
             from == at + 1
  <2>1. at \in Nat
    BY <1>2, <1>3
  <2> HIDE DEF at
  <2>2. from \in Nat /\ at < from
    BY <2>1
  <2> HIDE DEF from
  <2>3. \A i \in NextLoaded(from) : i \in Indices /\ i >= from /\ Loaded(i)
    BY <2>2, NextSlot
  <2>4. \A i \in NextLoaded(from) : i # at
    BY <1>2, <2>1, <2>2, <2>3
  <2> QED
    BY <2>3, <2>4 DEF from, at
<1>5. /\ top.due \in SUBSET (1 .. loads) /\ top.got \in SUBSET (1 .. loads)
  BY <1>3 DEF FrameOK
<1>6. CASE top.kind = "load" /\ OnPluginInit
  <2>1. /\ plugincount' = top.at
        /\ names' = [names EXCEPT ![top.at] = StoredName(plugins[top.at].file)]
        /\ stack' = Tail(stack)
        /\ UNCHANGED <<plugins, loads, running, nested>>
    BY <1>6 DEF OnPluginInit
  <2>2. /\ names' \in [Indices -> Names \cup {Nothing}]
        /\ names'[top.at] = StoredName(plugins[top.at].file)
        /\ \A i \in Indices : names'[i] = names[i] \/ names'[i] = StoredName(plugins'[i].file)
    <3>1. StoredName(plugins[top.at].file) \in Names
      BY <1>3 DEF Names
    <3> QED
      BY <1>2, <1>3, <2>1, <3>1
  <2>3. Freed
    BY <2>1 DEF Freed
  <2> QED
    BY <1>1, <1>2, <1>3, <2>1, <2>2, <2>3, ReturnKeeps
<1>7. CASE top.kind = "unload" /\ RemovePlugin
  <2>1. /\ plugins' = [plugins EXCEPT ![top.at] = Nothing]
        /\ stack' = Tail(stack)
        /\ UNCHANGED <<names, plugincount, loads, running, nested>>
    BY <1>7 DEF RemovePlugin
  <2>2. plugins' \in [Indices -> Machine \cup {Nothing}] /\ Freed
    BY <1>2, <1>3, <2>1 DEF Freed
  <2> QED
    BY <1>1, <1>2, <1>7, <2>1, <2>2, ReturnKeeps
<1>8. CASE top.kind = "unloadall" /\ UnloadNext
  <2>1. /\ plugins' = [plugins EXCEPT ![top.at] = Nothing]
        /\ UNCHANGED <<names, loads, nested>>
    BY <1>8 DEF UnloadNext
  <2>2. /\ plugins' \in [Indices -> Machine \cup {Nothing}] /\ Freed
        /\ plugins'[top.at] = Nothing
        /\ \A i \in Indices : i # top.at => plugins'[i] = plugins[i]
    BY <1>2, <1>3, <2>1 DEF Freed
  <2>3. CASE NextLoaded(top.at + 1) = {}
    <3>1. stack' = Tail(stack) /\ plugincount' = 0 /\ UNCHANGED running
      BY <1>8, <2>3 DEF UnloadNext
    <3> QED
      BY <1>1, <1>2, <1>8, <2>1, <2>2, <3>1, ReturnKeeps
  <2>4. CASE NextLoaded(top.at + 1) # {}
    <3>1. /\ UNCHANGED plugincount
          /\ \E i \in NextLoaded(top.at + 1) :
                Call("unloadall", i, top.due, top.got, Tail(stack))
      BY <1>8, <2>4 DEF UnloadNext
    <3>2. PICK i \in NextLoaded(top.at + 1) :
                Call("unloadall", i, top.due, top.got, Tail(stack))
      BY <3>1
    <3>3. FrameOK([kind |-> "unloadall", at |-> i, id |-> plugins[i].id,
                   due |-> top.due, got |-> top.got \cup {plugins[i].id}],
                  plugins', loads)
      BY <1>1, <1>8, <2>2, NextFrame
    <3>4. i \in Indices /\ plugins'[i] # Nothing
      BY <1>4, <2>2 DEF Loaded
    <3>5. ~nested' => Tail(stack) = <<>>
      <4>1. /\ Tail(stack) \in Seq(Frame) /\ 1 \in DOMAIN stack /\ top = stack[1]
            /\ \A j \in DOMAIN Tail(stack) : j + 1 \in DOMAIN stack /\ j \in Nat /\ j >= 1
        BY <1>1, <1>2, PopShifts
      <4>2. ~nested => \A j \in DOMAIN stack : j <= 1
        BY <1>1, <1>8, <4>1 DEF IInv, Calm
      <4>3. ~nested => \A j \in DOMAIN Tail(stack) : FALSE
        BY <4>1, <4>2
      <4> QED
        BY <2>1, <4>1, <4>3
    <3> DEFINE rest == Tail(stack)
               due == top.due
               got == top.got
    <3>6. /\ due \in SUBSET (1 .. loads) /\ got \in SUBSET (1 .. loads)
          /\ stack # <<>> /\ rest = Tail(stack) /\ Head(stack).kind # "load"
          /\ nested' \in BOOLEAN /\ (nested => nested') /\ plugincount' \in Indices
          /\ (~nested' => rest = <<>>)
      BY <1>1, <1>2, <1>5, <1>8, <2>1, <2>2, <3>1, <3>2, <3>3, <3>4, <3>5
    <3>7. /\ Call("unloadall", i, due, got, rest)
          /\ FrameOK([kind |-> "unloadall", at |-> i, id |-> plugins[i].id,
                      due |-> due, got |-> got \cup {plugins[i].id}], plugins', loads)
      BY <3>2, <3>3
    <3> HIDE DEF rest, due, got
    <3> QED
      BY <1>1, <1>2, <2>1, <2>2, <3>4, <3>6, <3>7, CallKeeps
  <2> QED
    BY <2>3, <2>4
<1>9. CASE top.kind = "event" /\ EventNext
  <2>1. UNCHANGED <<plugins, names, plugincount, loads, nested>>
    BY <1>9 DEF EventNext
  <2>2. Freed
    BY <2>1 DEF Freed
  <2>3. CASE NextLoaded(top.at + 1) = {}
    <3>1. stack' = Tail(stack) /\ UNCHANGED running
      BY <1>9, <2>3 DEF EventNext
    <3> QED
      BY <1>1, <1>2, <1>9, <2>1, <2>2, <3>1, ReturnKeeps
  <2>4. CASE NextLoaded(top.at + 1) # {}
    <3>1. PICK i \in NextLoaded(top.at + 1) :
                Call("event", i, top.due, top.got, Tail(stack))
      BY <1>9, <2>4 DEF EventNext
    <3>2. FrameOK([kind |-> "event", at |-> i, id |-> plugins[i].id,
                   due |-> top.due, got |-> top.got \cup {plugins[i].id}],
                  plugins', loads)
      BY <1>1, <1>9, <2>2, NextFrame
    <3>3. i \in Indices /\ plugins'[i] # Nothing
      BY <1>4, <2>1 DEF Loaded
    <3> DEFINE rest == Tail(stack)
               due == top.due
               got == top.got
    <3>4. /\ due \in SUBSET (1 .. loads) /\ got \in SUBSET (1 .. loads)
          /\ stack # <<>> /\ rest = Tail(stack) /\ Head(stack).kind # "load"
          /\ nested' \in BOOLEAN /\ (nested => nested') /\ plugincount' \in Indices
          /\ UNCHANGED plugins
      BY <1>1, <1>2, <1>5, <1>9, <2>1, <2>2, <3>1, <3>2, <3>3
    <3>5. /\ Call("event", i, due, got, rest)
          /\ FrameOK([kind |-> "event", at |-> i, id |-> plugins[i].id,
                      due |-> due, got |-> got \cup {plugins[i].id}], plugins', loads)
      BY <3>1, <3>2
    <3> HIDE DEF rest, due, got
    <3> QED
      BY <1>1, <1>2, <2>1, <2>2, <3>3, <3>4, <3>5, CallKeeps
  <2> QED
    BY <2>3, <2>4
<1> QED
  BY <1>1, <1>6, <1>7, <1>8, <1>9

\* Only a plugin that had plugins unloaded comes back to nothing.
LEMMA FreedReturnKeeps ==
    ASSUME IInv, ReturnToFreed
    PROVE  IInv'
<1>1. /\ running /\ ~Intact /\ running' = FALSE
      /\ UNCHANGED <<plugins, names, plugincount, loads, stack, nested>>
  BY DEF ReturnToFreed
<1>2. stack # <<>> /\ Head(stack) \in Range(stack)
  <2>1. stack \in Seq(Frame) /\ stack # <<>>
    BY <1>1 DEF IInv, TypeOK, Intact
  <2> QED
    BY <2>1, PopKeeps
<1>3. nested
  BY <1>1, <1>2 DEF IInv, Calm, Present, Intact, Loaded
<1>4. TypeOK' /\ NamesOK' /\ Calm' /\ CrashesExplained'
  BY <1>1, <1>3 DEF IInv, TypeOK, NamesOK, NameOK, Calm, CrashesExplained, Loaded
<1> QED
  BY <1>1, <1>4 DEF IInv

\* The invariant is inductive: loads, unloads and events keep it, however they nest.
THEOREM NextIInv == IInv /\ [Next]_vars => IInv'
<1> SUFFICES ASSUME IInv, [Next]_vars PROVE IInv'
  OBVIOUS
<1>1. CASE Stopped \/ UNCHANGED vars
  <2>1. UNCHANGED vars
    BY <1>1 DEF Stopped
  <2> QED
    BY <2>1 DEF vars, IInv, TypeOK, NamesOK, NameOK, Calm, CrashesExplained, Loaded
<1> QED
  BY <1>1, LoadKeeps, BeginKeeps, GoOnKeeps, FreedReturnKeeps DEF Next

\* It therefore holds all along.
THEOREM SpecIInv == Spec => []IInv
<1>1. Init => IInv
  BY Initially
<1> QED
  BY <1>1, NextIInv, PTL DEF Spec

\* Variables keep their types, however deep operations nest.
THEOREM TypesHold == Spec => []TypeOK
<1>1. IInv => TypeOK
  BY DEF IInv
<1> QED
  BY <1>1, SpecIInv, PTL

\* Only a plugin that unloads plugins and a program that does not load bring the
\* process down.
THEOREM CrashesHaveCauses == Spec => []CrashesExplained
<1>1. IInv => CrashesExplained
  BY DEF IInv
<1> QED
  BY <1>1, SpecIInv, PTL

\* Between operations every slot has the name that is stored of its plugin's path:
\* unloadplugin finds a plugin of the plugins' directory by its file's name, and one
\* of a further directory by the directory's.
THEOREM NamesHold == Spec => []NamesAreTrue
<1>1. IInv => NamesAreTrue
  <2> SUFFICES ASSUME IInv, stack = <<>>, NEW i \in Indices, Loaded(i),
                      plugins[i].file \notin Broken
               PROVE  names[i] = StoredName(plugins[i].file)
    BY DEF NamesAreTrue
  <2>1. NameOK(i)
    BY DEF IInv, NamesOK
  <2>2. Range(stack) = {}
    BY DEF Range
  <2> QED
    BY <2>1, <2>2 DEF NameOK
<1> QED
  BY <1>1, SpecIInv, PTL

-----------------------------------------------------------------------------
(* The refinement.                                                         *)

\* An operation as Audience sees it, and the operations in progress.
OpOf(f) == [kind |-> f.kind, id |-> f.id, due |-> f.due, got |-> f.got]

OpsOf(ops) == [k \in DOMAIN ops |-> OpOf(ops[k])]

OpSet == [kind : Kinds, id : Nat, due : SUBSET Nat, got : SUBSET Nat]

\* The operations in progress are a sequence, like the stack.
LEMMA OpsTyped ==
    ASSUME NEW ops \in Seq(Frame)
    PROVE  /\ OpsOf(ops) \in Seq(OpSet) /\ Len(OpsOf(ops)) = Len(ops)
           /\ DOMAIN OpsOf(ops) = 1 .. Len(ops)
           /\ \A k \in DOMAIN ops : OpsOf(ops)[k] = OpOf(ops[k])
<1>1. Len(ops) \in Nat /\ DOMAIN ops = 1 .. Len(ops)
  OBVIOUS
<1>2. \A k \in DOMAIN ops : OpOf(ops[k]) \in OpSet
  <2>1. \A k \in DOMAIN ops : ops[k] \in Frame
    OBVIOUS
  <2>2. \A f \in Frame : OpOf(f) \in OpSet
    BY DEF OpOf, OpSet, Frame
  <2> QED
    BY <2>1, <2>2
<1>3. OpsOf(ops) = [k \in 1 .. Len(ops) |-> OpOf(ops[k])]
  BY <1>1 DEF OpsOf
<1>4. OpsOf(ops) \in [1 .. Len(ops) -> OpSet]
  BY <1>1, <1>2, <1>3
<1>5. OpsOf(ops) \in Seq(OpSet)
  BY <1>1, <1>4
<1> QED
  BY <1>1, <1>3, <1>5

\* What is pushed and popped for the one is pushed and popped for the other.
LEMMA OpsPush ==
    ASSUME NEW ops \in Seq(Frame), NEW f \in Frame
    PROVE  OpsOf(<<f>> \o ops) = <<OpOf(f)>> \o OpsOf(ops)
<1> DEFINE a == OpsOf(<<f>> \o ops)
           b == <<OpOf(f)>> \o OpsOf(ops)
<1>1. OpsOf(ops) \in Seq(OpSet) /\ Len(OpsOf(ops)) = Len(ops) /\ Len(ops) \in Nat
  BY OpsTyped
<1>2. OpOf(f) \in OpSet
  BY DEF OpOf, OpSet, Frame
<1>3. /\ <<f>> \o ops \in Seq(Frame) /\ Len(<<f>> \o ops) = Len(ops) + 1
      /\ (<<f>> \o ops)[1] = f
      /\ \A k \in 1 .. Len(ops) : (<<f>> \o ops)[k + 1] = ops[k]
  OBVIOUS
<1>4. /\ a \in Seq(OpSet) /\ Len(a) = Len(ops) + 1
      /\ \A k \in 1 .. Len(ops) + 1 : a[k] = OpOf((<<f>> \o ops)[k])
  <2> DEFINE u == <<f>> \o ops
  <2>1. u \in Seq(Frame) /\ Len(u) = Len(ops) + 1
    BY <1>3
  <2> HIDE DEF u
  <2>2. /\ OpsOf(u) \in Seq(OpSet) /\ Len(OpsOf(u)) = Len(ops) + 1
        /\ \A k \in DOMAIN u : OpsOf(u)[k] = OpOf(u[k])
        /\ DOMAIN u = 1 .. Len(ops) + 1
    BY <2>1, OpsTyped
  <2> QED
    BY <2>2 DEF u
<1>5. /\ b \in Seq(OpSet) /\ Len(b) = Len(ops) + 1
      /\ b[1] = OpOf(f)
      /\ \A k \in 1 .. Len(ops) : b[k + 1] = OpsOf(ops)[k]
  <2> HIDE DEF OpSet
  <2> DEFINE c == OpsOf(ops)
             x == OpOf(f)
  <2>1. c \in Seq(OpSet) /\ Len(c) = Len(ops) /\ Len(ops) \in Nat /\ x \in OpSet
    BY <1>1, <1>2
  <2> HIDE DEF c, x
  <2>2. LET u == <<x>> \o c
        IN  /\ u \in Seq(OpSet) /\ Len(u) = Len(ops) + 1 /\ u[1] = x
            /\ \A k \in 1 .. Len(ops) : u[k + 1] = c[k]
    BY <2>1
  <2> QED
    BY <2>2 DEF c, x
<1>6. \A k \in 1 .. Len(ops) + 1 : a[k] = b[k]
  <2> SUFFICES ASSUME NEW k \in 1 .. Len(ops) + 1 PROVE a[k] = b[k]
    OBVIOUS
  <2> HIDE DEF a, b
  <2>1. CASE k = 1
    BY <1>1, <1>3, <1>4, <1>5, <2>1
  <2>2. CASE k # 1
    <3>1. k - 1 \in 1 .. Len(ops) /\ (k - 1) + 1 = k
      BY <1>1, <2>2
    <3>2. a[k] = OpOf(ops[k - 1])
      BY <1>3, <1>4, <3>1
    <3>3. b[k] = OpsOf(ops)[k - 1]
      BY <1>5, <3>1
    <3> QED
      BY <3>1, <3>2, <3>3, OpsTyped
  <2> QED
    BY <2>1, <2>2
<1> HIDE DEF a, b
<1>7. a = b
  BY <1>1, <1>4, <1>5, <1>6
<1> QED
  BY <1>7 DEF a, b

\* The first of them is the innermost.
LEMMA OpsPop ==
    ASSUME NEW ops \in Seq(Frame), ops # <<>>
    PROVE  /\ OpsOf(ops) \in Seq(OpSet) /\ OpsOf(ops) # <<>>
           /\ Head(OpsOf(ops)) = OpOf(Head(ops)) /\ OpsOf(ops)[1] = OpOf(Head(ops))
           /\ Tail(OpsOf(ops)) = OpsOf(Tail(ops))
           /\ Head(OpsOf(ops)).kind = Head(ops).kind
           /\ Head(OpsOf(ops)).id = Head(ops).id
           /\ Head(OpsOf(ops)).due = Head(ops).due
           /\ Head(OpsOf(ops)).got = Head(ops).got
<1>1. ops = <<Head(ops)>> \o Tail(ops) /\ Head(ops) \in Frame /\ Tail(ops) \in Seq(Frame)
  OBVIOUS
<1>2. OpsOf(ops) = <<OpOf(Head(ops))>> \o OpsOf(Tail(ops))
  BY <1>1, OpsPush
<1>3. OpsOf(Tail(ops)) \in Seq(OpSet) /\ OpOf(Head(ops)) \in OpSet
  BY <1>1, OpsTyped DEF OpOf, OpSet, Frame
<1> DEFINE c == OpsOf(Tail(ops))
           x == OpOf(Head(ops))
<1> HIDE DEF c, x, OpSet
<1>4. LET u == <<x>> \o c
      IN  u \in Seq(OpSet) /\ u # <<>> /\ Head(u) = x /\ u[1] = x /\ Tail(u) = c
  BY <1>3 DEF c, x
<1>5. /\ OpsOf(ops) \in Seq(OpSet) /\ OpsOf(ops) # <<>>
      /\ Head(OpsOf(ops)) = x /\ OpsOf(ops)[1] = x /\ Tail(OpsOf(ops)) = c
  BY <1>2, <1>4 DEF c, x
<1>6. /\ x.kind = Head(ops).kind /\ x.id = Head(ops).id
      /\ x.due = Head(ops).due /\ x.got = Head(ops).got
  BY DEF x, OpOf
<1> QED
  BY <1>5, <1>6 DEF c, x

\* The innermost operation calls another machine: the first of the operations
\* changes, and no other.
LEMMA OpsNext ==
    ASSUME NEW ops \in Seq(Frame), ops # <<>>, NEW f \in Frame,
           f.kind = Head(ops).kind, f.due = Head(ops).due,
           NEW n, f.id = n, f.got = Head(ops).got \cup {n}
    PROVE  OpsOf(<<f>> \o Tail(ops)) =
              <<[kind |-> Head(OpsOf(ops)).kind, id |-> n, due |-> Head(OpsOf(ops)).due,
                 got |-> Head(OpsOf(ops)).got \cup {n}]>> \o Tail(OpsOf(ops))
<1> DEFINE top == Head(OpsOf(ops))
<1>1. /\ Tail(ops) \in Seq(Frame) /\ Tail(OpsOf(ops)) = OpsOf(Tail(ops))
      /\ top.kind = Head(ops).kind /\ top.due = Head(ops).due
      /\ top.got = Head(ops).got
  BY OpsPop
<1> HIDE DEF top
<1>2. OpOf(f) = [kind |-> top.kind, id |-> n, due |-> top.due, got |-> top.got \cup {n}]
  BY <1>1 DEF OpOf
<1>3. OpsOf(<<f>> \o Tail(ops)) = <<OpOf(f)>> \o OpsOf(Tail(ops))
  BY <1>1, OpsPush
<1> QED
  BY <1>1, <1>2, <1>3 DEF top

\* The numbers there are, when a slot is emptied or taken.
LEMMA IdsChange ==
    ASSUME IInv, NEW i \in Indices
    PROVE  /\ Loaded(i) /\ plugins' = [plugins EXCEPT ![i] = Nothing] =>
                 Ids' = Ids \ {plugins[i].id}
           /\ UNCHANGED plugins => Ids' = Ids
           /\ \A file \in Files :
                 /\ ~Loaded(i)
                 /\ plugins' = [plugins EXCEPT ![i] = [file |-> file, id |-> loads + 1]]
                 => Ids' = Ids \cup {loads + 1} /\ loads + 1 \notin Ids
<1>1. /\ IdsOK(plugins, loads) /\ loads \in Nat
      /\ plugins \in [Indices -> Machine \cup {Nothing}]
  BY PluginsAssumption DEF IInv, TypeOK
<1>2. ASSUME Loaded(i), plugins' = [plugins EXCEPT ![i] = Nothing]
      PROVE  Ids' = Ids \ {plugins[i].id}
  <2>1. /\ plugins'[i] = Nothing
        /\ \A j \in Indices : j # i => plugins'[j] = plugins[j]
    BY <1>1, <1>2
  <2>2. \A j \in Indices : j # i /\ Loaded(j) => plugins[j].id # plugins[i].id
    BY <1>1, <1>2 DEF IdsOK, Loaded
  <2> QED
    BY <1>2, <2>1, <2>2 DEF Ids, Loaded
<1>3. UNCHANGED plugins => Ids' = Ids
  BY DEF Ids, Loaded
<1>4. ASSUME NEW file \in Files, ~Loaded(i),
             plugins' = [plugins EXCEPT ![i] = [file |-> file, id |-> loads + 1]]
      PROVE  Ids' = Ids \cup {loads + 1} /\ loads + 1 \notin Ids
  <2>1. /\ plugins'[i] = [file |-> file, id |-> loads + 1]
        /\ \A j \in Indices : j # i => plugins'[j] = plugins[j]
    BY <1>1, <1>4
  <2>2. plugins'[i] # Nothing /\ plugins'[i].id = loads + 1
    BY <1>1, <2>1, SlotFacts
  <2>3. loads + 1 \notin 1 .. loads
    BY <1>1
  <2>4. loads + 1 \notin Ids
    BY <1>1, <2>3, IdsTyped
  <2> QED
    BY <1>4, <2>1, <2>2, <2>4 DEF Ids, Loaded
<1> QED
  BY <1>2, <1>3, <1>4

\* A load lets a member join.
LEMMA LoadRefines ==
    ASSUME IInv, NEW file \in Files, LoadScript(file)
    PROVE  AudienceOf!Next
<1>1. /\ loads \in Nat /\ stack \in Seq(Frame) /\ loads + 1 \in 1 .. MaxLoads
      /\ running /\ UNCHANGED running
  BY PluginsAssumption DEF IInv, TypeOK, LoadScript, Command
<1>2. PICK n \in 1 .. MaxLoads : n = loads + 1
  BY <1>1
<1>3. PICK i \in FreeSpot :
         /\ plugins' = [plugins EXCEPT ![i] = [file |-> file, id |-> n]]
         /\ \/ UNCHANGED stack
            \/ stack' = <<[kind |-> "load", at |-> i, id |-> n,
                           due |-> {}, got |-> {}]>> \o stack
  BY <1>2 DEF LoadScript
<1>4. i \in Indices /\ ~Loaded(i)
  BY DEF FreeSpot, Lowest
<1>5. Ids' = Ids \cup {n} /\ n \notin Ids
  BY <1>2, <1>3, <1>4, IdsChange
<1> DEFINE f == [kind |-> "load", at |-> i, id |-> n, due |-> {}, got |-> {}]
<1>6. f \in Frame /\ OpOf(f) = [kind |-> "load", id |-> n, due |-> {}, got |-> {}]
  BY <1>1, <1>2, <1>4 DEF Frame, Kinds, OpOf
<1>7. UNCHANGED stack \/ stack' = <<f>> \o stack
  BY <1>3
<1> HIDE DEF f
<1>8. UNCHANGED stack \/ OpsOf(stack') = <<OpOf(f)>> \o OpsOf(stack)
  BY <1>1, <1>6, <1>7, OpsPush
<1>9. \/ OpsOf(stack') = OpsOf(stack)
      \/ OpsOf(stack') =
            <<[kind |-> "load", id |-> n, due |-> {}, got |-> {}]>> \o OpsOf(stack)
  BY <1>6, <1>8
<1>10. AudienceOf!Join(n)
  BY <1>5, <1>9 DEF AudienceOf!Join, AudienceOf!Op, OpsOf, OpOf
<1> QED
  BY <1>1, <1>10 DEF AudienceOf!Next

\* The process crashes, and nobody leaves but who was being sent away.
LEMMA CrashRefines ==
    ASSUME running, running' = FALSE, stack' = stack, stack \in Seq(Frame),
           Ids' = Ids \/ (stack # <<>> /\ Ids' = Ids \ {Head(stack).id})
    PROVE  AudienceOf!Next
<1>1. OpsOf(stack') = OpsOf(stack)
  OBVIOUS
<1>2. stack # <<>> => OpsOf(stack) # <<>> /\ Head(OpsOf(stack)).id = Head(stack).id
  BY OpsPop
<1>3. Ids' = Ids \/ (OpsOf(stack) # <<>> /\ Ids' = Ids \ {Head(OpsOf(stack)).id})
  BY <1>2
<1>4. AudienceOf!Crash
  BY <1>1, <1>3 DEF AudienceOf!Crash, OpsOf, OpOf
<1> QED
  BY <1>4 DEF AudienceOf!Next

\* An operation begins with a call, or crashes with it.
LEMMA BeginRefines ==
    ASSUME IInv, running, UNCHANGED <<plugins, loads>>,
           NEW kind \in {"event", "unload", "unloadall"},
           NEW i \in Indices, Loaded(i),
           NEW all, all = IF kind = "unload" THEN {} ELSE Ids,
           Call(kind, i, all, {}, stack)
    PROVE  AudienceOf!Next
<1>1. /\ stack \in Seq(Frame) /\ IdsOK(plugins, loads) /\ Ids' = Ids /\ loads \in Nat
  BY IdsChange, PluginsAssumption DEF IInv, TypeOK
<1>2. CASE plugins[i].file \in Broken
  BY <1>1, <1>2, CrashRefines DEF Call
<1>3. CASE plugins[i].file \notin Broken
  <2>1. Ids \in SUBSET (1 .. loads) /\ plugins[i].id \in Ids
    BY <1>1, IdsTyped DEF Ids
  <2>2. PICK n \in 1 .. loads : n = plugins[i].id
    BY <2>1
  <2>3. PICK due \in SUBSET Nat : due = all
    <3>1. all \in SUBSET Nat
      BY <1>1, <2>1
    <3> QED
      BY <3>1
  <2> DEFINE f == [kind |-> kind, at |-> i, id |-> n, due |-> due, got |-> {n}]
  <2>4. f \in Frame /\ OpOf(f) = [kind |-> kind, id |-> n, due |-> due, got |-> {n}]
    BY <1>1 DEF Frame, Kinds, OpOf
  <2>5. UNCHANGED running /\ stack' = <<f>> \o stack
    BY <1>3, <2>2, <2>3 DEF Call
  <2> HIDE DEF f
  <2>6. OpsOf(stack') = <<[kind |-> kind, id |-> n, due |-> due, got |-> {n}]>>
                            \o OpsOf(stack)
    BY <1>1, <2>4, <2>5, OpsPush
  <2>7. n \in Ids
    BY <2>1, <2>2
  <2>8. AudienceOf!Begin(kind, n)
    BY <1>1, <2>3, <2>6, <2>7 DEF AudienceOf!Begin, AudienceOf!Op, OpsOf, OpOf
  <2> QED
    BY <2>5, <2>7, <2>8 DEF AudienceOf!Next
<1> QED
  BY <1>2, <1>3

\* A loop goes on to a machine it has not called, or crashes with the call.
LEMMA NextRefines ==
    ASSUME IInv, running, stack # <<>>, loads' = loads,
           Head(stack).kind \in {"event", "unloadall"},
           NEW i \in Indices, Loaded(i), plugins'[i] = plugins[i],
           plugins[i].id \notin Head(stack).got,
           Ids' = IF Head(stack).kind = "event" THEN Ids ELSE Ids \ {Head(stack).id},
           Call(Head(stack).kind, i, Head(stack).due, Head(stack).got, Tail(stack))
    PROVE  AudienceOf!Next
<1> DEFINE top == Head(stack)
<1>1. /\ stack \in Seq(Frame) /\ IdsOK(plugins, loads) /\ loads \in Nat
      /\ loads <= MaxLoads /\ top \in Frame /\ Tail(stack) \in Seq(Frame)
  BY PopKeeps, PluginsAssumption DEF IInv, TypeOK
<1>2. CASE plugins[i].file \in Broken
  BY <1>1, <1>2, CrashRefines DEF Call
<1>3. CASE plugins[i].file \notin Broken
  <2>1. plugins[i].id \in 1 .. MaxLoads /\ plugins[i].id \in Ids'
    <3>1. plugins[i].id \in 1 .. loads
      BY <1>1 DEF IdsOK, Loaded
    <3>2. plugins[i].id \in 1 .. MaxLoads
      BY <1>1, <3>1, PluginsAssumption
    <3> QED
      BY <3>2 DEF Ids, Loaded
  <2>2. PICK n \in 1 .. MaxLoads : n = plugins[i].id
    BY <2>1
  <2> DEFINE f == [kind |-> top.kind, at |-> i, id |-> n, due |-> top.due,
                   got |-> top.got \cup {n}]
  <2>3. /\ f \in Frame
        /\ f.kind = top.kind /\ f.due = top.due /\ f.id = n /\ f.got = top.got \cup {n}
    <3>1. /\ top.kind \in Kinds /\ top.due \in SUBSET Nat /\ top.got \in SUBSET Nat
          /\ n \in Nat
      BY <1>1, PluginsAssumption DEF Frame
    <3> HIDE DEF top
    <3> QED
      BY <3>1 DEF Frame
  <2>4. UNCHANGED running /\ stack' = <<f>> \o Tail(stack)
    BY <1>3, <2>2 DEF Call
  <2> HIDE DEF f
  <2>5. OpsOf(stack') =
           <<[kind |-> Head(OpsOf(stack)).kind, id |-> n, due |-> Head(OpsOf(stack)).due,
              got |-> Head(OpsOf(stack)).got \cup {n}]>> \o Tail(OpsOf(stack))
    BY <1>1, <2>3, <2>4, OpsNext
  <2>6. /\ OpsOf(stack) # <<>>
        /\ Head(OpsOf(stack)).kind = top.kind /\ Head(OpsOf(stack)).id = top.id
        /\ Head(OpsOf(stack)).got = top.got
    BY <1>1, OpsPop
  <2>7. /\ OpsOf(stack) # <<>>
        /\ Head(OpsOf(stack)).kind \in {"event", "unloadall"}
        /\ Ids' = IF Head(OpsOf(stack)).kind = "event" THEN Ids
                  ELSE Ids \ {Head(OpsOf(stack)).id}
        /\ n \in Ids' \ Head(OpsOf(stack)).got
    BY <2>1, <2>2, <2>6
  <2>8. AudienceOf!GoOn(n)
    BY <2>5, <2>7 DEF AudienceOf!GoOn, AudienceOf!Op, OpsOf, OpOf
  <2> QED
    BY <2>4, <2>8 DEF AudienceOf!Next
<1> QED
  BY <1>2, <1>3

\* The innermost operation is over when everybody it was for has been seen to.
LEMMA FinishRefines ==
    ASSUME running, UNCHANGED running, stack \in Seq(Frame), stack # <<>>,
           stack' = Tail(stack),
           Ids' = IF Head(stack).kind \in {"unload", "unloadall"}
                  THEN Ids \ {Head(stack).id} ELSE Ids,
           Head(stack).kind = "event" =>
                Head(stack).due \cap Ids \subseteq Head(stack).got,
           Head(stack).kind = "unloadall" => Head(stack).due \cap Ids' = {}
    PROVE  AudienceOf!Next
<1> DEFINE op == Head(OpsOf(stack))
<1>1. OpsOf(stack) # <<>> /\ OpsOf(stack') = Tail(OpsOf(stack))
  BY OpsPop
<1>2. /\ op.kind = Head(stack).kind /\ op.id = Head(stack).id
      /\ op.due = Head(stack).due /\ op.got = Head(stack).got
  BY OpsPop
<1>3. /\ Ids' = IF op.kind \in {"unload", "unloadall"} THEN Ids \ {op.id} ELSE Ids
      /\ op.kind = "event" => op.due \cap Ids \subseteq op.got
      /\ op.kind = "unloadall" => op.due \cap Ids' = {}
  BY <1>2
<1>4. AudienceOf!Finish
  BY <1>1, <1>3 DEF AudienceOf!Finish, OpsOf, OpOf
<1> QED
  BY <1>4 DEF AudienceOf!Next

\* Every step of the table is one of the audience, or changes nothing it knows of.
LEMMA StepRefines ==
    ASSUME IInv, [Next]_vars
    PROVE  AudienceOf!Next \/ UNCHANGED AudienceOf!vars
<1> DEFINE top == Head(stack)
<1>1. /\ stack \in Seq(Frame) /\ IdsOK(plugins, loads) /\ Indices \subseteq Nat
      /\ plugins \in [Indices -> Machine \cup {Nothing}] /\ 0 \in Indices
  BY SlotFacts DEF IInv, TypeOK
<1>2. UNCHANGED <<plugins, stack, running>> => UNCHANGED AudienceOf!vars
  BY DEF AudienceOf!vars, Ids, Loaded
<1>3. \A i \in NextLoaded(0) : i \in Indices /\ Loaded(i)
  BY <1>1, NextSlot
<1>4. ASSUME NEW name \in Names \cup Files, RemovePluginByName(name)
      PROVE  AudienceOf!Next
  <2>1. PICK i \in FindName(name) : Loaded(i) /\ Call("unload", i, {}, {}, stack)
    BY <1>4 DEF RemovePluginByName
  <2>2. i \in Indices /\ running /\ UNCHANGED <<plugins, loads>>
    BY <1>4 DEF FindName, Lowest, RemovePluginByName, Command
  <2> QED
    BY <2>1, <2>2, BeginRefines
<1>5. CASE UnloadAllPlugins
  <2>1. running /\ UNCHANGED <<plugins, loads>>
    BY <1>5 DEF UnloadAllPlugins, Command
  <2>2. CASE NextLoaded(0) = {}
    BY <1>2, <1>5, <2>1, <2>2 DEF UnloadAllPlugins
  <2>3. CASE NextLoaded(0) # {}
    <3>1. PICK i \in NextLoaded(0) : Call("unloadall", i, Ids, {}, stack)
      BY <1>5, <2>3 DEF UnloadAllPlugins
    <3> QED
      BY <1>3, <2>1, <3>1, BeginRefines
  <2> QED
    BY <2>2, <2>3
<1>6. CASE Event
  <2>1. PICK i \in NextLoaded(0) : Call("event", i, Ids, {}, stack)
    BY <1>6 DEF Event
  <2>2. running /\ UNCHANGED <<plugins, loads>>
    BY <1>6 DEF Event, Command
  <2> QED
    BY <1>3, <2>1, <2>2, BeginRefines
<1>7. ASSUME OnPluginInit \/ RemovePlugin \/ UnloadNext \/ EventNext
      PROVE  /\ running /\ stack # <<>> /\ Intact /\ UNCHANGED loads
             /\ FrameOK(top, plugins, loads) /\ top.at \in Indices
             /\ Loaded(top.at) /\ plugins[top.at].id = top.id
             /\ \A i \in NextLoaded(top.at + 1) :
                   i \in Indices /\ Loaded(i) /\ i > top.at
             /\ NextLoaded(top.at + 1) = {} =>
                   \A j \in Indices : Loaded(j) => j <= top.at
  <2>1. running /\ stack # <<>> /\ Intact /\ UNCHANGED loads
    BY <1>7 DEF OnPluginInit, RemovePlugin, UnloadNext, EventNext, Back
  <2>2. /\ FrameOK(top, plugins, loads) /\ top.at \in Indices
        /\ Loaded(top.at) /\ plugins[top.at].id = top.id
    BY <2>1, TopFrame
  <2> DEFINE from == top.at + 1
  <2>3. from \in Nat /\ top.at \in Nat /\ from = top.at + 1
    <3> DEFINE at == top.at
    <3>1. at \in Nat
      BY ONLY <1>1, <2>2
    <3> HIDE DEF top, at
    <3>2. at + 1 \in Nat
      BY ONLY <3>1
    <3> QED
      BY ONLY <3>1, <3>2 DEF at, from
  <2> HIDE DEF from
  <2>4. /\ \A i \in NextLoaded(from) : i \in Indices /\ i >= from /\ Loaded(i)
        /\ NextLoaded(from) = {} => \A j \in Indices : j >= from => ~Loaded(j)
    BY <2>3, NextSlot
  <2>5. /\ \A i \in NextLoaded(from) : i \in Indices /\ i > top.at /\ Loaded(i)
        /\ NextLoaded(from) = {} => \A j \in Indices : Loaded(j) => j <= top.at
    <3>1. \A i \in Indices : (i >= from => i > top.at) /\ (~ (i >= from) => i <= top.at)
      <4> HIDE DEF top
      <4> QED
        BY <1>1, <2>3
    <3> QED
      BY <2>4, <3>1
  <2> QED
    BY <2>1, <2>2, <2>5 DEF from
<1>8. CASE OnPluginInit
  <2>1. /\ top.kind = "load" /\ stack' = Tail(stack)
        /\ UNCHANGED <<plugins, running>>
    BY <1>8 DEF OnPluginInit, Back
  <2>2. Ids' = Ids
    BY <2>1 DEF Ids, Loaded
  <2> QED
    BY <1>1, <1>7, <1>8, <2>1, <2>2, FinishRefines
<1>9. CASE RemovePlugin
  <2>1. /\ top.kind = "unload" /\ stack' = Tail(stack) /\ UNCHANGED running
        /\ plugins' = [plugins EXCEPT ![top.at] = Nothing]
    BY <1>9 DEF RemovePlugin, Back
  <2>2. Ids' = Ids \ {top.id}
    BY <1>7, <1>9, <2>1, IdsChange
  <2> QED
    BY <1>1, <1>7, <1>9, <2>1, <2>2, FinishRefines
<1>10. CASE UnloadNext
  <2>1. /\ top.kind = "unloadall"
        /\ plugins' = [plugins EXCEPT ![top.at] = Nothing]
    BY <1>10 DEF UnloadNext, Back
  <2>2. Ids' = Ids \ {top.id}
    BY <1>7, <1>10, <2>1, IdsChange
  <2>3. \A j \in Indices : plugins'[j] # Nothing =>
            j # top.at /\ Loaded(j) /\ plugins'[j] = plugins[j]
    BY <1>1, <1>7, <1>10, <2>1 DEF Loaded
  <2>4. CASE NextLoaded(top.at + 1) = {}
    <3>1. stack' = Tail(stack) /\ UNCHANGED running
      BY <1>10, <2>4 DEF UnloadNext
    <3>2. \A j \in Indices : plugins'[j] # Nothing => plugins'[j].id \notin top.due
      <4> SUFFICES ASSUME NEW j \in Indices, plugins'[j] # Nothing
                   PROVE  plugins'[j].id \notin top.due
        OBVIOUS
      <4>1. j < top.at
        BY <1>1, <1>7, <1>10, <2>3, <2>4
      <4> QED
        BY <1>7, <1>10, <2>1, <2>3, <4>1 DEF FrameOK, Loaded
    <3>3. top.due \cap Ids' = {}
      BY <3>2 DEF Ids, Loaded
    <3> QED
      BY <1>1, <1>7, <1>10, <2>1, <2>2, <3>1, <3>3, FinishRefines
  <2>5. CASE NextLoaded(top.at + 1) # {}
    <3>1. PICK i \in NextLoaded(top.at + 1) :
                Call("unloadall", i, top.due, top.got, Tail(stack))
      BY <1>10, <2>5 DEF UnloadNext
    <3>2. i \in Indices /\ Loaded(i) /\ i > top.at
      BY <1>7, <1>10
    <3>3. plugins'[i] = plugins[i] /\ plugins[i].id \notin top.got
      <4>1. i # top.at
        BY <1>1, <1>7, <1>10, <3>2
      <4> QED
        BY <1>1, <1>7, <1>10, <2>1, <3>2, <4>1 DEF FrameOK, Loaded
    <3> QED
      BY <1>7, <1>10, <2>1, <2>2, <3>1, <3>2, <3>3, NextRefines
  <2> QED
    BY <2>4, <2>5
<1>11. CASE EventNext
  <2>1. top.kind = "event" /\ UNCHANGED plugins
    BY <1>11 DEF EventNext, Back
  <2>2. Ids' = Ids
    BY <2>1 DEF Ids, Loaded
  <2>3. CASE NextLoaded(top.at + 1) = {}
    <3>1. stack' = Tail(stack) /\ UNCHANGED running
      BY <1>11, <2>3 DEF EventNext
    <3>2. \A j \in Indices : Loaded(j) /\ plugins[j].id \in top.due =>
             plugins[j].id \in top.got
      BY <1>7, <1>11, <2>1, <2>3 DEF FrameOK, Loaded
    <3>3. top.due \cap Ids \subseteq top.got
      BY <3>2 DEF Ids
    <3> QED
      BY <1>1, <1>7, <1>11, <2>1, <2>2, <3>1, <3>3, FinishRefines
  <2>4. CASE NextLoaded(top.at + 1) # {}
    <3>1. PICK i \in NextLoaded(top.at + 1) :
                Call("event", i, top.due, top.got, Tail(stack))
      BY <1>11, <2>4 DEF EventNext
    <3>2. i \in Indices /\ Loaded(i) /\ plugins[i].id \notin top.got
      BY <1>7, <1>11, <2>1 DEF FrameOK, Loaded
    <3> QED
      BY <1>7, <1>11, <2>1, <2>2, <3>1, <3>2, NextRefines
  <2> QED
    BY <2>3, <2>4
<1>12. CASE ReturnToFreed
  <2>1. running /\ running' = FALSE /\ UNCHANGED <<plugins, stack>>
    BY <1>12 DEF ReturnToFreed
  <2>2. Ids' = Ids
    BY <2>1 DEF Ids, Loaded
  <2> QED
    BY <1>1, <2>1, <2>2, CrashRefines
<1>13. CASE Stopped \/ UNCHANGED vars
  BY <1>2, <1>13 DEF Stopped, vars
<1> QED
  BY LoadRefines, <1>4, <1>5, <1>6, <1>8, <1>9, <1>10, <1>11, <1>12, <1>13 DEF Next

\* Every behaviour of the table of plugins is one of the audience: nobody who is
\* there throughout misses an event or is given it twice, and unloadallplugins
\* leaves nobody who was there.
THEOREM TableImplementsAudience == Spec => ImplementsAudience
<1>1. Init => AudienceOf!Init
  <2> SUFFICES ASSUME Init PROVE AudienceOf!Init
    OBVIOUS
  <2>1. Ids = {} /\ running
    BY DEF Init, Ids, Loaded
  <2>2. OpsOf(stack) = <<>>
    BY DEF Init, OpsOf
  <2> QED
    BY <2>1, <2>2 DEF Init, AudienceOf!Init, OpsOf, OpOf
<1>2. IInv /\ [Next]_vars => [AudienceOf!Next]_(AudienceOf!vars)
  BY StepRefines
<1> QED
  BY <1>1, <1>2, SpecIInv, PTL DEF Spec, ImplementsAudience, AudienceOf!Spec
-----------------------------------------------------------------------------
(* How many plugins an event calls.                                        *)

\* An operation that is at a slot has called no more machines than there are
\* slots up to that one.
FewCalled(f) == IsFiniteSet(f.got) /\ Cardinality(f.got) <= f.at + 1

CallsAreBounded == \A f \in Range(stack) : FewCalled(f)

\* One more machine, in a later slot.
LEMMA OneMore ==
    ASSUME NEW got, IsFiniteSet(got), NEW at \in Nat, NEW i \in Nat, i >= at + 1,
           Cardinality(got) <= at + 1, NEW id
    PROVE  IsFiniteSet(got \cup {id}) /\ Cardinality(got \cup {id}) <= i + 1
<1>1. Cardinality(got) \in Nat
  BY FS_CardinalityType
<1>2. /\ IsFiniteSet(got \cup {id})
      /\ \/ Cardinality(got \cup {id}) = Cardinality(got)
         \/ Cardinality(got \cup {id}) = Cardinality(got) + 1
  BY FS_AddElement
<1> QED
  BY <1>1, <1>2

\* An operation that begins has called one machine, and a loading none.
LEMMA FewAtFirst ==
    ASSUME NEW i \in Nat, NEW id
    PROVE  /\ IsFiniteSet({}) /\ Cardinality({}) <= i + 1
           /\ IsFiniteSet({} \cup {id}) /\ Cardinality({} \cup {id}) <= i + 1
<1>1. IsFiniteSet({}) /\ Cardinality({}) = 0
  BY FS_EmptySet
<1>2. IsFiniteSet({id}) /\ Cardinality({id}) = 1 /\ {} \cup {id} = {id}
  BY FS_Singleton
<1> QED
  BY <1>1, <1>2

\* A call on top of "rest": only its own frame is new.
LEMMA CallBounds ==
    ASSUME NEW kind, NEW i \in Indices, NEW due, NEW got, NEW rest \in Seq(Frame),
           Call(kind, i, due, got, rest), CallsAreBounded,
           rest = stack \/ (stack # <<>> /\ stack \in Seq(Frame) /\ rest = Tail(stack)),
           IsFiniteSet(got \cup {plugins[i].id}),
           Cardinality(got \cup {plugins[i].id}) <= i + 1
    PROVE  CallsAreBounded'
<1> DEFINE f == [kind |-> kind, at |-> i, id |-> plugins[i].id,
                 due |-> due, got |-> got \cup {plugins[i].id}]
<1>1. CASE UNCHANGED stack
  BY <1>1 DEF CallsAreBounded
<1>2. CASE stack' = <<f>> \o rest
  <2>1. FewCalled(f)
    BY DEF FewCalled
  <2>2. \A g \in Range(rest) : FewCalled(g)
    BY PopKeeps DEF CallsAreBounded
  <2>3. Range(stack') = {f} \cup Range(rest)
    <3> HIDE DEF f
    <3>1. Range(<<f>> \o rest) = {f} \cup Range(rest)
      <4>1. rest \in Seq(Frame \cup {f}) /\ f \in Frame \cup {f}
        OBVIOUS
      <4> QED
        BY <4>1, PushKeeps
    <3> QED
      BY <1>2, <3>1
  <2> HIDE DEF f
  <2> QED
    BY <2>1, <2>2, <2>3 DEF CallsAreBounded
<1> QED
  BY <1>1, <1>2 DEF Call

\* An operation that ends leaves those it interrupted as they were.
LEMMA PopBounds ==
    ASSUME stack \in Seq(Frame), stack # <<>>, stack' = Tail(stack), CallsAreBounded
    PROVE  CallsAreBounded'
<1>1. Range(stack) = {Head(stack)} \cup Range(Tail(stack))
  BY PopKeeps
<1> QED
  BY <1>1 DEF CallsAreBounded

\* An event, and unloadallplugins, calls one plugin for a slot at most, so that
\* its loop is over after MAX_PLUGINS calls, however many plugins the plugins it
\* calls load and unload in the meantime; an operation by name calls one.
THEOREM LoopsAreBounded == Spec => []CallsAreBounded
<1>1. Init => CallsAreBounded
  BY DEF Init, CallsAreBounded, Range
<1>2. ASSUME IInv, CallsAreBounded, [Next]_vars PROVE CallsAreBounded'
  <2>1. /\ stack \in Seq(Frame) /\ Indices \subseteq Nat /\ 0 \in Nat
    BY <1>2, SlotFacts DEF IInv, TypeOK
  <2>2. ASSUME NEW file \in Files, LoadScript(file) PROVE CallsAreBounded'
    <3>1. PICK i \in FreeSpot :
             \/ UNCHANGED stack
             \/ stack' = <<[kind |-> "load", at |-> i, id |-> loads + 1,
                            due |-> {}, got |-> {}]>> \o stack
      BY <2>2 DEF LoadScript
    <3>2. i \in Nat
      BY <2>1 DEF FreeSpot, Lowest
    <3> DEFINE f == [kind |-> "load", at |-> i, id |-> loads + 1, due |-> {}, got |-> {}]
    <3>3. FewCalled(f)
      BY <3>2, FewAtFirst DEF FewCalled
    <3>4. Range(<<f>> \o stack) = {f} \cup Range(stack)
      <4> HIDE DEF f
      <4>1. stack \in Seq(Frame \cup {f}) /\ f \in Frame \cup {f}
        BY <2>1
      <4> QED
        BY <4>1, PushKeeps
    <3>5. CASE UNCHANGED stack
      BY <1>2, <3>5 DEF CallsAreBounded
    <3>6. CASE stack' = <<f>> \o stack
      <4> HIDE DEF f
      <4> QED
        BY <1>2, <3>3, <3>4, <3>6 DEF CallsAreBounded
    <3> QED
      BY <3>1, <3>5, <3>6
  <2>3. ASSUME NEW kind, NEW due, NEW i \in Indices, Call(kind, i, due, {}, stack)
        PROVE  CallsAreBounded'
    <3>1. i \in Nat
      BY <2>1
    <3>2. /\ IsFiniteSet({} \cup {plugins[i].id})
          /\ Cardinality({} \cup {plugins[i].id}) <= i + 1
      BY <3>1, FewAtFirst
    <3> QED
      BY <1>2, <2>1, <2>3, <3>2, CallBounds
  <2>4. \A i \in NextLoaded(0) : i \in Indices
    BY DEF NextLoaded, Lowest
  <2>5. ASSUME NEW name \in Names \cup Files, RemovePluginByName(name) PROVE CallsAreBounded'
    <3>1. PICK i \in FindName(name) : Call("unload", i, {}, {}, stack)
      BY <2>5 DEF RemovePluginByName
    <3>2. i \in Indices
      BY DEF FindName, Lowest
    <3> QED
      BY <2>3, <3>1, <3>2
  <2>6. CASE UnloadAllPlugins
    <3>1. CASE UNCHANGED stack
      BY <1>2, <3>1 DEF CallsAreBounded
    <3>2. CASE \E i \in NextLoaded(0) : Call("unloadall", i, Ids, {}, stack)
      BY <2>3, <2>4, <3>2
    <3> QED
      BY <2>6, <3>1, <3>2 DEF UnloadAllPlugins
  <2>7. CASE Event
    <3>1. \E i \in NextLoaded(0) : Call("event", i, Ids, {}, stack)
      BY <2>7 DEF Event
    <3> QED
      BY <2>3, <2>4, <3>1
  <2>8. ASSUME NEW kind, stack # <<>>, Intact,
               \/ stack' = Tail(stack)
               \/ \E i \in NextLoaded(Head(stack).at + 1) :
                     Call(kind, i, Head(stack).due, Head(stack).got, Tail(stack))
        PROVE  CallsAreBounded'
    <3> DEFINE at  == Head(stack).at
               got == Head(stack).got
    <3>1. CASE stack' = Tail(stack)
      BY <1>2, <2>1, <2>8, <3>1, PopBounds
    <3>2. ASSUME NEW i \in NextLoaded(at + 1),
                 Call(kind, i, Head(stack).due, got, Tail(stack))
          PROVE  CallsAreBounded'
      <4>1. at \in Nat
        BY <1>2, <2>1, <2>8, TopFrame
      <4>2. IsFiniteSet(got) /\ Cardinality(got) <= at + 1
        <5>1. Head(stack) \in Range(stack)
          BY <2>1, <2>8, PopKeeps
        <5> QED
          BY <1>2, <5>1 DEF CallsAreBounded, FewCalled
      <4>3. i \in Indices /\ i \in Nat /\ i >= at + 1
        BY <2>1 DEF NextLoaded, Lowest
      <4>4. Tail(stack) \in Seq(Frame)
        BY <2>1, <2>8, PopKeeps
      <4>5. /\ IsFiniteSet(got \cup {plugins[i].id})
            /\ Cardinality(got \cup {plugins[i].id}) <= i + 1
        <5> HIDE DEF at, got
        <5> QED
          BY <4>1, <4>2, <4>3, OneMore
      <4> QED
        BY ONLY <1>2, <2>1, <2>8, <3>2, <4>3, <4>4, <4>5, CallBounds
    <3> QED
      BY <2>8, <3>1, <3>2
  <2>9. CASE UnloadNext \/ EventNext
    <3>1. /\ stack # <<>> /\ Intact
          /\ \E kind \in Kinds :
                \/ stack' = Tail(stack)
                \/ \E i \in NextLoaded(Head(stack).at + 1) :
                      Call(kind, i, Head(stack).due, Head(stack).got, Tail(stack))
      BY <2>9 DEF UnloadNext, EventNext, Back, Kinds
    <3> QED
      BY <2>8, <3>1
  <2>10. CASE OnPluginInit \/ RemovePlugin
    <3>1. stack # <<>> /\ stack' = Tail(stack)
      BY <2>10 DEF OnPluginInit, RemovePlugin, Back
    <3> QED
      BY <1>2, <2>1, <3>1, PopBounds
  <2>11. CASE ReturnToFreed \/ Stopped \/ UNCHANGED vars
    <3>1. UNCHANGED stack
      BY <2>11 DEF ReturnToFreed, Stopped, vars
    <3> QED
      BY <1>2, <3>1 DEF CallsAreBounded
  <2> QED
    BY <1>2, <2>2, <2>5, <2>6, <2>7, <2>9, <2>10, <2>11 DEF Next
<1> QED
  BY <1>1, <1>2, SpecIInv, PTL DEF Spec

=============================================================================
