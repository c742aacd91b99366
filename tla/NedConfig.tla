----------------------------- MODULE NedConfig -----------------------------
(***************************************************************************)
(* Ned from its start to the start of a program.  main starts the server   *)
(* thread and waits for it on a mutex it has locked itself; the libraries  *)
(* that static constructors have put in a list are initialised.  Then a    *)
(* script makes Lua objects for capabilities, keeps them in a table and    *)
(* starts a program with that table.  Ned goes through the table twice:    *)
(* first to write the names and indices for the program, then to map the   *)
(* capabilities; both times the functions in it are called, and other      *)
(* programs may have changed the name space in between.                    *)
(***************************************************************************)
EXTENDS Integers, Sequences, FiniteSets, FiniteSetsExt, SequencesExt

CONSTANTS
    Libs,      \* the static libraries
    Prio,      \* library -> 0 for P_cap_type, 1 for P_env
    Names,     \* keys of the table caps
    Order,     \* the order in which lua_next finds them
    Long,      \* the names that are too long for an entry
    Keys,      \* names in the name space
    Objs,      \* Lua objects
    Slots,     \* capability slots of Ned
    Modes,     \* arguments of mode(), as sets of rights
    MaxK,      \* bound: objects created
    MaxOps     \* bound: operations of the script

Base == {"r", "w", "s", "d"}
Ext == {"n", "c"}
Classes == {"Factory", "Namespace"}

ASSUME LibsAssumption == /\ Libs = {"factory", "ns", "exec", "env"}
                         /\ Prio \in [Libs -> {0, 1}]
                         /\ \A k \in {"factory", "ns"}, l \in {"exec", "env"} : Prio[k] < Prio[l]
ASSUME TableAssumption == /\ Order \in Seq(Names) /\ Order # <<>> /\ Long \subseteq Names
                          /\ \A i, j \in DOMAIN Order : Order[i] = Order[j] => i = j
ASSUME BoundAssumption ==
    /\ Objs \subseteq Nat /\ Slots \subseteq Nat /\ MaxK \in Nat /\ MaxOps \in Nat
    /\ Modes \subseteq SUBSET (Base \cup Ext)

VARIABLES
    main,     \* "static", "construct", "relock", "libs", "ned", "ready", "dead"
    mutex,    \* _start_mutex: "none", "held", "free", "gone"
    thread,   \* the server thread: "none", "start", "unlock", "loop"
    registry, \* _r is set
    libs,     \* the list behind _lua_init
    classes,  \* the table of classes by protocol and by name
    envType,  \* the class of L4.Env.mem_alloc, "none" if not known
    caps,     \* name -> value
    obj,      \* Lua object -> [slot, rights, env], or Dead
    class,    \* environment table -> class at index 0, or "none"
    slot,     \* slot -> the object in it and the rights to it, or Nothing
    refs,     \* slot -> count of the Ref_caps
    leaked,   \* slots whose only holder was skipped by luaL_error
    ns,       \* key -> an object and rights, Nothing, or Placeholder
    kclass,   \* kernel object -> its class
    casts,    \* history: environment tables that cast made
    ops,      \* operations done
    phase,    \* the start of the program: "idle", "push", "base", "map", "running", "failed"
    log,      \* the slot that prog_info()->log names, or -1
    logged,   \* history: the log object made for the program, or 0
    progLog,  \* what the program has as its log
    pos,      \* position in Order
    start,    \* the next index
    table,    \* name -> index in the program's table, or -1
    first,    \* history: name -> what the first pass found, or Nothing
    differs,  \* history: the first position at which the second pass found another, or 0
    mapped    \* index -> what the program has there

bootVars == <<main, mutex, thread, registry, libs, classes, envType>>
heapVars == <<obj, class, slot, refs, leaked, casts>>
execVars == <<phase, log, logged, progLog, pos, start, table, first, differs, mapped>>
vars == <<main, mutex, thread, registry, libs, classes, envType, caps, obj, class, slot, refs,
          leaked, ns, kclass, casts, ops, phase, log, logged, progLog, pos, start, table, first, differs,
          mapped>>

\* Values of Lua, and objects with the rights to them.
Nil == <<"nil">>
Other == <<"other">>               \* a string, a number or a table
Alien == <<"alien">>               \* user data that is no capability: a task
EnvRom == <<"rom">>                \* L4.Env.rom
Object(o) == <<"object", o>>
Query(x, R) == <<"query", x, R>>   \* the closure that query() returns
Nothing == <<-1, {}>>
Placeholder == <<-2, {}>>
Service == <<0, {"r", "w"}>>       \* what another program registers
RomCap == <<0, {"r", "w", "s"}>>   \* what L4.Env.rom stands for
Dead == [slot |-> -1, rights |-> {}, env |-> -1]

Init ==
    /\ main = "static" /\ mutex = "none" /\ thread = "none" /\ registry = FALSE
    /\ libs = <<>> /\ classes = {} /\ envType = "none"
    /\ caps = [n \in Names |-> Nil]
    /\ obj = [o \in Objs |-> Dead] /\ class = [o \in Objs |-> "none"]
    /\ slot = [s \in Slots |-> Nothing] /\ refs = [s \in Slots |-> 0] /\ leaked = {} /\ casts = {}
    /\ ns = [x \in Keys |-> Nothing] /\ kclass = [k \in 0..MaxK |-> IF k = 0 THEN "Namespace" ELSE "none"]
    /\ ops = 0 /\ phase = "idle" /\ log = -1 /\ logged = 0 /\ progLog = Nothing /\ pos = 0 /\ start = 0
    /\ table = [n \in Names |-> -1] /\ first = [n \in Names |-> Nothing]
    /\ differs = 0 /\ mapped = <<>>

-----------------------------------------------------------------------------
(* The start. *)

\* Mutant of Inserted: a library goes to the front of the list.
InsertedFirst(l) == <<l>> \o libs

\* Lib::Lib: before the first library whose priority is not lower.
Inserted(l) == LET i == Cardinality({j \in DOMAIN libs : Prio[libs[j]] < Prio[l]})
               IN  SubSeq(libs, 1, i) \o <<l>> \o SubSeq(libs, i + 1, Len(libs))

\* The static constructors run in the order the linker chose.
StaticInit(l) ==
    /\ main = "static" /\ l \notin Range(libs)
    /\ libs' = Inserted(l)
    /\ main' = IF Len(libs) + 1 = Cardinality(Libs) THEN "construct" ELSE main
    /\ UNCHANGED <<mutex, thread, registry, classes, envType, caps, heapVars, ns, kclass, ops, execVars>>

\* Mutant of ServerStart: the mutex is not locked before the thread is created.
ServerStartUnlocked ==
    /\ main = "construct"
    /\ mutex' = "free" /\ thread' = "start" /\ main' = "relock"
    /\ UNCHANGED <<registry, libs, classes, envType, caps, heapVars, ns, kclass, ops, execVars>>

\* Server::Server locks the mutex and creates the thread, and locks it again.
ServerStart ==
    /\ main = "construct"
    /\ mutex' = "held" /\ thread' = "start" /\ main' = "relock"
    /\ UNCHANGED <<registry, libs, classes, envType, caps, heapVars, ns, kclass, ops, execVars>>
ServerRelock ==
    /\ main = "relock" /\ mutex = "free"
    /\ mutex' = "gone" /\ main' = "libs"
    /\ UNCHANGED <<thread, registry, libs, classes, envType, caps, heapVars, ns, kclass, ops, execVars>>

\* Server::run in the new thread.
ThreadRegistry ==
    /\ thread = "start"
    /\ registry' = TRUE /\ thread' = "unlock"
    /\ UNCHANGED <<main, mutex, libs, classes, envType, caps, heapVars, ns, kclass, ops, execVars>>

\* Mutant of ThreadUnlock: the loop is entered without unlocking.
ThreadUnlockNot ==
    /\ thread = "unlock"
    /\ thread' = "loop"
    /\ UNCHANGED <<mutex, main, registry, libs, classes, envType, caps, heapVars, ns, kclass, ops, execVars>>

ThreadUnlock ==
    /\ thread = "unlock"
    /\ mutex' = IF mutex = "held" THEN "free" ELSE mutex
    /\ thread' = "loop"
    /\ UNCHANGED <<main, registry, libs, classes, envType, caps, heapVars, ns, kclass, ops, execVars>>

\* Lib::run_init: a class is registered, L4.Env is filled, or L4.exec is registered,
\* with an observer in the registry.
InitLib ==
    /\ main = "libs" /\ libs # <<>>
    /\ libs' = Tail(libs)
    /\ classes' = CASE Head(libs) = "factory" -> classes \cup {"Factory"}
                    [] Head(libs) = "ns" -> classes \cup {"Namespace"}
                    [] OTHER -> classes
    /\ envType' = IF Head(libs) = "env" /\ "Factory" \in classes THEN "Factory" ELSE envType
    /\ main' = IF Len(libs) = 1 THEN "ned" ELSE main
    /\ UNCHANGED <<mutex, thread, registry, caps, heapVars, ns, kclass, ops, execVars>>

\* ned.lua: without the class of name spaces it raises an error and Ned gives up.
LoadNed ==
    /\ main = "ned"
    /\ main' = IF "Namespace" \in classes THEN "ready" ELSE "dead"
    /\ UNCHANGED <<mutex, thread, registry, libs, classes, envType, caps, heapVars, ns, kclass, ops,
                   execVars>>

-----------------------------------------------------------------------------
(* Lua objects and the slots behind them. *)

Live == {o \in Objs : obj[o] # Dead}
Reachable == {o \in Live : \E n \in Names : caps[n] = Object(o)}
FreeSlots == {s \in Slots : refs[s] = 0 /\ s \notin leaked}
FreshObjs == {o \in Objs : obj[o] = Dead /\ \A p \in Live : obj[p].env # o}
Garbage == Live \ Reachable

\* The collector has run gc_cap for the objects in G: a slot is freed with the last
\* reference to it.
ObjAfter(G) == [o \in Objs |-> IF o \in G THEN Dead ELSE obj[o]]
RefsAfter(G) == [s \in Slots |-> refs[s] - Cardinality({o \in G : obj[o].slot = s})]
SlotAfter(G) == [s \in Slots |-> IF refs[s] > 0 /\ RefsAfter(G)[s] = 0 THEN Nothing ELSE slot[s]]

Sweep(G) == obj' = ObjAfter(G) /\ refs' = RefsAfter(G) /\ slot' = SlotAfter(G)

Collect ==
    /\ main = "ready" /\ phase = "idle"
    /\ \E G \in SUBSET Garbage : G # {} /\ Sweep(G)
    /\ UNCHANGED <<bootVars, caps, class, leaked, casts, ns, kclass, ops, execVars>>

\* lua_gc(LUA_GCCOLLECT).
CollectAll == Sweep(Garbage) /\ UNCHANGED <<class, leaked, casts>>

\* A new object for e, which arrived in the slot just allocated; garbage G is gone.
NewObject(e, R, c, G) ==
    LET s == Min(FreeSlots)
        o == Min(FreshObjs)
    IN  /\ FreeSlots # {} /\ FreshObjs # {}
        /\ obj' = [ObjAfter(G) EXCEPT ![o] = [slot |-> s, rights |-> R \cup {"r"}, env |-> o]]
        /\ class' = [class EXCEPT ![o] = c]
        /\ refs' = [RefsAfter(G) EXCEPT ![s] = 1]
        /\ slot' = [SlotAfter(G) EXCEPT ![s] = e]
        /\ casts' = casts \ {o}
        /\ UNCHANGED leaked

\* luaL_error jumps over the destructor of the slot just allocated.
Leak == /\ leaked' = leaked \cup {Min(FreeSlots)}
        /\ UNCHANGED <<obj, class, slot, refs, casts>>

Working == main = "ready" /\ phase = "idle" /\ ops < MaxOps
Step == Working /\ ops' = ops + 1 /\ UNCHANGED <<bootVars, execVars>>

NextK == Cardinality({k \in 1..MaxK : kclass[k] # "none"}) + 1

\* factory:create(): an object of class c with the right to read, or an error.
Create(n, c) ==
    /\ Step
    /\ \/ /\ NextK <= MaxK
          /\ NewObject(<<NextK, Base>>, {}, IF c \in classes THEN c ELSE "none", {})
          /\ kclass' = [kclass EXCEPT ![NextK] = c]
          /\ caps' = [caps EXCEPT ![n] = Object(Min(FreshObjs))]
       \/ FreeSlots # {} /\ Leak /\ UNCHANGED <<caps, kclass>>
       \/ FreeSlots = {} /\ UNCHANGED <<caps, kclass, heapVars>>
    /\ UNCHANGED ns

\* Mutant of SetRights: the clone shares the slot without a reference of its own.
SetRightsUncounted(o, n, R) ==
    /\ FreshObjs # {}
    /\ obj' = [obj EXCEPT ![Min(FreshObjs)] = [obj[o] EXCEPT !.rights = R \cup {"r"}]]
    /\ caps' = [caps EXCEPT ![n] = Object(Min(FreshObjs))]
    /\ UNCHANGED <<class, slot, refs, leaked, casts>>

\* __set_rights: the object itself if it has these rights, else a clone, which shares
\* the slot and the environment table.
SetRights(o, n, R) ==
    \/ /\ obj[o].rights = R
       /\ caps' = [caps EXCEPT ![n] = Object(o)]
       /\ UNCHANGED heapVars
    \/ /\ obj[o].rights # R /\ FreshObjs # {}
       /\ obj' = [obj EXCEPT ![Min(FreshObjs)] = [obj[o] EXCEPT !.rights = R \cup {"r"}]]
       /\ refs' = [refs EXCEPT ![obj[o].slot] = @ + 1]
       /\ caps' = [caps EXCEPT ![n] = Object(Min(FreshObjs))]
       /\ UNCHANGED <<class, slot, leaked, casts>>

\* mode() with a string of letters, or with the number that svr() passes.
Mode(m, n) ==
    /\ Step
    /\ \E o \in Reachable, R \in {M \cup {"r"} : M \in Modes} \cup {(Base \cup Ext) \ {"n"}} :
          caps[m] = Object(o) /\ SetRights(o, n, R)
    /\ UNCHANGED <<ns, kclass>>

\* Mutant of CastObject: the class is set in the environment of the object itself.
CastObjectInPlace(o, n, c) ==
    /\ class' = [class EXCEPT ![obj[o].env] = c]
    /\ caps' = [caps EXCEPT ![n] = Object(o)]
    /\ UNCHANGED <<obj, slot, refs, leaked, casts>>

\* L4.cast to a known class: a new object with an environment table of its own.
CastObject(o, n, c) ==
    LET p == Min(FreshObjs)
    IN  /\ FreshObjs # {}
        /\ obj' = [obj EXCEPT ![p] = [obj[o] EXCEPT !.env = p]]
        /\ class' = [class EXCEPT ![p] = c] /\ casts' = casts \cup {p}
        /\ refs' = [refs EXCEPT ![obj[o].slot] = @ + 1]
        /\ caps' = [caps EXCEPT ![n] = Object(p)]
        /\ UNCHANGED <<slot, leaked>>

\* L4.cast; nil for an unknown class.
Cast(m, n, c) ==
    /\ Step
    /\ \E o \in Reachable :
          /\ caps[m] = Object(o)
          /\ \/ c \in classes /\ CastObject(o, n, c)
             \/ c \notin classes /\ caps' = [caps EXCEPT ![n] = Nil] /\ UNCHANGED heapVars
    /\ UNCHANGED <<ns, kclass>>

\* A method is called: if the class is not known, the object is asked for it.
Index(m) ==
    /\ Step
    /\ \E o \in Reachable :
          /\ caps[m] = Object(o) /\ class[obj[o].env] = "none"
          /\ kclass[slot[obj[o].slot][1]] \in classes
          /\ class' = [class EXCEPT ![obj[o].env] = kclass[slot[obj[o].slot][1]]]
    /\ UNCHANGED <<caps, obj, slot, refs, leaked, casts, ns, kclass>>

\* The script assigns a query, or a value that is no capability.
Assign(n) ==
    /\ Step
    /\ \E v \in {Nil, Other, Alien} \cup {Query(x, R) : x \in Keys, R \in Modes} :
          v # caps[n] /\ caps' = [caps EXCEPT ![n] = v]
    /\ UNCHANGED <<heapVars, ns, kclass>>

-----------------------------------------------------------------------------
(* Queries and the name space. *)

\* __lookup for key x: a slot, a full collection, and the query.
LookupFound(x, R) == ns[x] \notin {Nothing, Placeholder} /\ NewObject(ns[x], R, "none", Garbage)
LookupMissing(x) == FreeSlots # {} /\ ns[x] = Nothing /\ CollectAll
\* No slot is free, or nobody replaced a placeholder until the query gave up.
LookupError(x) == \/ FreeSlots = {} /\ UNCHANGED heapVars
                  \/ /\ FreeSlots # {} /\ ns[x] = Placeholder
                     /\ Sweep(Garbage) /\ leaked' = leaked \cup {Min(FreeSlots)}
                     /\ UNCHANGED <<class, casts>>

\* The object behind o with the rights the kernel knows, and with the extended ones.
Granted(o) == <<slot[obj[o].slot][1], obj[o].rights \cap slot[obj[o].slot][2]>>
Given(o) == <<Granted(o)[1], Granted(o)[2] \cup (obj[o].rights \cap Ext)>>

\* ns:register(x, caps[n]) for an object, which may replace what is there, and for a
\* string, after a full collection.  ns:register(x, nil) does nothing: ned.lua calls
\* __register only for others.
RegisterObject(x, n) ==
    /\ Step
    /\ \E o \in Reachable : caps[n] = Object(o) /\ ns' = [ns EXCEPT ![x] = Granted(o)]
    /\ CollectAll
    /\ UNCHANGED <<caps, kclass>>
RegisterString(x) ==
    /\ Step
    /\ ns' = [ns EXCEPT ![x] = Placeholder]
    /\ CollectAll
    /\ UNCHANGED <<caps, kclass>>

\* The same for a query: it is called first, and its object is soon garbage.
RegisterQuery(x, n) ==
    /\ Step
    /\ \E y \in Keys, R \in Modes :
          /\ caps[n] = Query(y, R)
          /\ \/ /\ LookupFound(y, R)
                /\ ns' = [ns EXCEPT ![x] = <<ns[y][1], (R \cup {"r"}) \cap ns[y][2]>>]
             \/ (LookupMissing(y) \/ LookupError(y)) /\ UNCHANGED ns
    /\ UNCHANGED <<caps, kclass>>

\* The script calls a query itself and keeps the answer.
CallQuery(n) ==
    /\ Step
    /\ \E x \in Keys, R \in Modes :
          /\ caps[n] = Query(x, R)
          /\ \/ LookupFound(x, R) /\ caps' = [caps EXCEPT ![n] = Object(Min(FreshObjs))]
             \/ LookupMissing(x) /\ caps' = [caps EXCEPT ![n] = Nil]
             \/ LookupError(x) /\ UNCHANGED caps
    /\ UNCHANGED <<ns, kclass>>

\* Another program registers its service or takes it away.
ForeignRegister(x) ==
    /\ main = "ready"
    /\ \/ ns[x] \in {Nothing, Placeholder} /\ ns' = [ns EXCEPT ![x] = Service]
       \/ ns[x] = Service /\ ns' = [ns EXCEPT ![x] = Nothing]
    /\ UNCHANGED <<bootVars, caps, heapVars, kclass, ops, execVars>>

-----------------------------------------------------------------------------
(* The start of a program: exec and Am. *)

\* Mutant of MakeLog: the capability is freed when its object is popped.
MakeLogFreed ==
    /\ FreeSlots # {} /\ NextK <= MaxK
    /\ kclass' = [kclass EXCEPT ![NextK] = "Log"]
    /\ phase' = "push" /\ log' = Min(FreeSlots) /\ logged' = NextK
    /\ UNCHANGED heapVars

\* App_env:log through _cfg_cap: the factory makes a log; its slot is noted, and the
\* Lua object is popped.
MakeLog ==
    \/ /\ NextK <= MaxK
       /\ NewObject(<<NextK, Base>>, {}, "none", {})
       /\ kclass' = [kclass EXCEPT ![NextK] = "Log"]
       /\ phase' = "push" /\ log' = Min(FreeSlots) /\ logged' = NextK
    \/ /\ phase' = "failed"
       /\ \/ FreeSlots # {} /\ Leak
          \/ FreeSlots = {} /\ UNCHANGED heapVars
       /\ UNCHANGED <<kclass, log, logged>>

\* Loader:startv, App_env.new, and exec with parse_cfg and a new App_task.
Exec ==
    /\ Working /\ registry
    /\ caps' = [n \in Names |-> IF n = "rom" /\ caps[n] = Nil THEN EnvRom ELSE caps[n]]
    /\ MakeLog
    /\ pos' = 1 /\ start' = 0 /\ ops' = ops + 1
    /\ UNCHANGED <<bootVars, ns, progLog, table, first, differs, mapped>>

Name == Order[pos]

\* The next name, or the next pass, which begins at the same index.
Advance(i, next) ==
    IF pos = Len(Order) THEN phase' = next /\ pos' = 1 /\ start' = 0
                        ELSE pos' = pos + 1 /\ start' = i /\ UNCHANGED phase
Fail == phase' = "failed" /\ UNCHANGED <<log, logged, progLog, pos, start, table, first, differs, mapped>>

\* Mutant of PushSkip: an index is used up for a name that is left out.
PushSkipIndexed == Advance(start + 1, "base") /\ UNCHANGED <<log, logged, progLog, table, first, differs, mapped>>

PushCap(e) ==
    /\ table' = [table EXCEPT ![Name] = start] /\ first' = [first EXCEPT ![Name] = e]
    /\ Advance(start + 1, "base")
    /\ UNCHANGED <<log, logged, progLog, differs, mapped>>
PushSkip == Advance(start, "base") /\ UNCHANGED <<log, logged, progLog, table, first, differs, mapped>>

\* get_task_caps, and the capabilities at fixed places: an empty slot gives nothing.
MapBase ==
    /\ phase = "base"
    /\ progLog' = <<slot[log][1], slot[log][2] \cap {"r"}>>
    /\ phase' = "map"
    /\ UNCHANGED <<bootVars, caps, heapVars, ns, kclass, ops, log, logged, pos, start, table, first,
                   differs, mapped>>

\* Does the second pass find e where the first found something else?
Compare(e) == differs' = IF differs = 0 /\ first[Name] # e THEN pos ELSE differs

MapCap(e) ==
    \/ /\ mapped' = Append(mapped, e) /\ Compare(e)
       /\ Advance(start + 1, "running")
       /\ UNCHANGED <<log, logged, progLog, table, first>>
    \/ Fail
MapSkip == Compare(Nothing) /\ Advance(start, "running") /\ UNCHANGED <<log, logged, progLog, table, first, mapped>>

\* What a pass does with a capability, and with a name that is left out.
Pass(e) == \/ phase = "push" /\ PushCap(e)
           \/ phase = "map" /\ MapCap(e)
Skip == \/ phase = "push" /\ PushSkip
        \/ phase = "map" /\ MapSkip

\* The value of Name in caps: functions are called; an object is passed on, what is no
\* user data is skipped, and other user data is an error.
Resolve ==
    \/ \E o \in Reachable : caps[Name] = Object(o) /\ Pass(Given(o)) /\ UNCHANGED heapVars
    \/ caps[Name] = EnvRom /\ Pass(RomCap) /\ UNCHANGED heapVars
    \/ caps[Name] \in {Nil, Other} /\ Skip /\ UNCHANGED heapVars
    \/ caps[Name] = Alien /\ Fail /\ UNCHANGED heapVars
    \/ \E x \in Keys, R \in Modes :
          /\ caps[Name] = Query(x, R)
          /\ \/ /\ LookupFound(x, R)
                /\ Pass(<<ns[x][1], ((R \cup {"r"}) \cap ns[x][2]) \cup (R \cap Ext)>>)
             \/ LookupMissing(x) /\ Skip
             \/ LookupError(x) /\ Fail

PushInitialCaps ==
    /\ phase = "push"
    /\ \/ Name \in Long /\ caps[Name] # Nil /\ Fail /\ UNCHANGED heapVars
       \/ ~(Name \in Long /\ caps[Name] # Nil) /\ Resolve
    /\ UNCHANGED <<bootVars, caps, ns, kclass, ops>>
MapInitialCaps ==
    /\ phase = "map"
    /\ Resolve
    /\ UNCHANGED <<bootVars, caps, ns, kclass, ops>>

Launch == PushInitialCaps \/ MapBase \/ MapInitialCaps
Boot == ServerStart \/ ServerRelock \/ InitLib \/ LoadNed \/ \E l \in Libs : StaticInit(l)
Thread == ThreadRegistry \/ ThreadUnlock
Script ==
    \/ Exec
    \/ \E n \in Names : Assign(n) \/ CallQuery(n) \/ Index(n)
    \/ \E n \in Names, c \in {"Namespace", "Gate"} : Create(n, c)
    \/ \E m, n \in Names : Mode(m, n)
    \/ \E m, n \in Names, c \in Classes : Cast(m, n, c)
    \/ \E x \in Keys, n \in Names : RegisterObject(x, n) \/ RegisterQuery(x, n)
    \/ \E x \in Keys : RegisterString(x)

Next == Boot \/ Thread \/ Script \/ Launch \/ Collect \/ \E x \in Keys : ForeignRegister(x)

Spec == Init /\ [][Next]_vars

\* Both threads run.
FairSpec == Spec /\ WF_vars(Boot) /\ WF_vars(Thread)

-----------------------------------------------------------------------------
(* Properties. *)

Entries == {Nothing, Placeholder} \cup ((0..MaxK) \X SUBSET (Base \cup Ext))

\* Types.
TypeOK ==
    /\ main \in {"static", "construct", "relock", "libs", "ned", "ready", "dead"}
    /\ mutex \in {"none", "held", "free", "gone"}
    /\ thread \in {"none", "start", "unlock", "loop"} /\ registry \in BOOLEAN
    /\ libs \in Seq(Libs) /\ classes \subseteq Classes /\ envType \in {"none", "Factory"}
    /\ DOMAIN caps = Names /\ DOMAIN obj = Objs
    /\ \A o \in Live : /\ obj[o].slot \in Slots /\ obj[o].env \in Objs
                        /\ obj[o].rights \subseteq Base \cup Ext
    /\ class \in [Objs -> Classes \cup {"Gate", "none"}] /\ casts \subseteq Objs
    /\ slot \in [Slots -> Entries] /\ refs \in [Slots -> Nat] /\ leaked \subseteq Slots
    /\ ns \in [Keys -> Entries] /\ kclass \in [0..MaxK -> {"none", "Gate", "Log", "Namespace"}]
    /\ ops \in 0..MaxOps /\ phase \in {"idle", "push", "base", "map", "running", "failed"}
    /\ log \in Slots \cup {-1} /\ logged \in 0..MaxK /\ progLog \in Entries
    /\ pos \in 0..Len(Order) /\ start \in 0..Len(Order)
    /\ table \in [Names -> -1..Len(Order) - 1] /\ first \in [Names -> Entries]
    /\ differs \in 0..Len(Order) /\ mapped \in Seq(Entries)

\* The constructor of the server returns only when the registry exists, and destroys
\* the mutex only when the thread will not touch it any more: L4.exec's initialisation
\* and every App_task use the registry.
Handshake ==
    /\ main \in {"libs", "ned", "ready"} => registry
    /\ mutex = "gone" => thread = "loop"

\* Every slot has as many references as there are Lua objects that use it, clones and
\* casts included, and is empty only when there are none: no object loses its
\* capability to the collector, and only errors lose slots.
RefsAreObjects ==
    \A s \in Slots : /\ refs[s] = Cardinality({o \in Live : obj[o].slot = s})
                     /\ refs[s] > 0 => slot[s] # Nothing /\ s \notin leaked

\* An object has the class its kernel object has, or none yet, unless cast made it or
\* what it was cloned from: clones share what one of them finds out, casts do not.  The
\* objects of L4.Env have theirs from the start: in whatever order the linker ran the
\* constructors, classes are registered before L4.Env is filled.
ClassIsRight ==
    /\ \A o \in Live : obj[o].env \notin casts =>
                          class[obj[o].env] \in {"none", kclass[slot[obj[o].slot][1]]}
    /\ main \in {"ned", "ready"} => envType = "Factory" /\ classes = Classes

\* The program finds under every name the capability that its environment names, with
\* its rights, and nothing under the names that were left out.  Where a query answered
\* the second pass differently, this holds for the names before that one.
NamesAreMapped ==
    phase = "running" =>
        \A i \in DOMAIN Order : differs = 0 \/ i < differs =>
            IF first[Order[i]] = Nothing THEN table[Order[i]] = -1
            ELSE table[Order[i]] < Len(mapped) /\ mapped[table[Order[i]] + 1] = first[Order[i]]

\* The program's log is the one made for it, though nothing but an index is left of it
\* when the name space is asked: a query collects garbage, and the log's object is
\* garbage.  So this holds if the table has no queries.
LogIsOwn ==
    phase \in {"map", "running"} /\ (\A n \in Names : caps[n][1] # "query") => progLog = <<logged, {"r"}>>

\* Ned gets ready: main waits for the thread on a mutex it holds itself, and is woken.
GetsReady == <>(main = "ready")
=============================================================================
