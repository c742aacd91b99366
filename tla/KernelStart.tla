---------------------------- MODULE KernelStart ----------------------------
(***************************************************************************)
(* The l4re_kernel of a new task.  Its main thread mirrors the task's      *)
(* region map, which another server keeps (the remote map), in a map of    *)
(* its own (the local map), starts the application thread, and becomes     *)
(* the pager and region mapper of that thread.  The application thread     *)
(* first runs the loader, on a stack that both maps have to know, and then *)
(* the program, whose faults and requests the main thread serves.          *)
(*                                                                         *)
(* An address is a page number; arithmetic on addresses is modulo Word.    *)
(* A region or area is a record with its first and last page.              *)
(***************************************************************************)
EXTENDS Integers, FiniteSets, FiniteSetsExt

CONSTANTS
    Word,         \* the number of pages a word can address
    UserMax,      \* the end of the Conventional memory descriptor of the KIP
    KipReserved,  \* the areas of its Reserved descriptors
    Layouts,      \* what the remote map may hold at first: regions and areas
    TlsBase, HeapBase, HeapSize, LoaderVma, LoaderSize, StackVma, SegBase,
    HeapPages,    \* Heap_max in pages
    PerPage,      \* the nodes of the local map that fit into a page
    MaxCaps,      \* Max_local_rm_caps
    FirstCap,     \* the first capability slot Ned has left free
    Sizes,        \* sizes of the regions the program asks for
    Touched,      \* pages the program faults on or detaches
    NoAddr        \* L4_INVALID_PTR

Addr == 0..Word - 1
Kinds == {"pager", "reserved", "tls", "heap", "loader", "temp", "segment", "stack", "mem"}
Interval == [start : Addr, end : Addr]
Region == [start : Addr, end : Addr, kind : Kinds]

ASSUME LayoutAssumption ==
    /\ Word \in Nat /\ UserMax \in Nat /\ UserMax < Word
    /\ KipReserved \subseteq Interval
    /\ \A l \in Layouts : l.regions \subseteq Region /\ l.areas \subseteq Interval
    /\ {TlsBase, HeapBase, LoaderVma, StackVma, SegBase} \cup Touched \subseteq Addr
    /\ {HeapSize, LoaderSize} \cup Sizes \subseteq Nat \ {0}
    /\ {HeapPages, PerPage, MaxCaps, FirstCap} \subseteq Nat
    /\ NoAddr \notin Addr

VARIABLES
    main,     \* where the main thread is
    app,      \* where the application thread is
    rrm, ram, \* the remote map: regions and areas
    lrm, lam, \* the local map __local_rm
    addr,     \* the loop variable of insert_regions
    mapped,   \* heap pages taken by mmap()
    stackP,   \* __loader_stack_p
    stackDs,  \* has the loader stack any memory
    temp,     \* vaddr: where the pager has attached the binary
    freeCap,  \* env->first_free_cap()
    capBase,  \* the first slot of Global::cap_alloc
    held,     \* the slots it has given out
    appCap,   \* the slot of app_thread
    envMain,  \* env->main_thread()
    raised,   \* the thread whose priority was raised
    req,      \* the application thread's request to the main thread
    reply,    \* the answer
    lost      \* history: regions the local map refused without anybody noticing

maps    == <<rrm, ram, lrm, lam>>
capVars == <<freeCap, capBase, held, appCap>>
ldrVars == <<stackP, stackDs, temp, envMain, raised>>
ipc     == <<req, reply>>
vars == <<main, app, rrm, ram, lrm, lam, addr, mapped, stackP, stackDs, temp, freeCap,
          capBase, held, appCap, envMain, raised, req, reply, lost>>

NoReq == [op |-> "none"]

-----------------------------------------------------------------------------
(* L4Re::Util::Region_map, which both maps are. *)

Overlaps(a, b) == a.start <= b.end /\ b.start <= a.end
Contains(a, p) == a.start <= p /\ p <= a.end
At(a, size, k) == [start |-> a, end |-> a + size - 1, kind |-> k]
Fits(R, A, c) == c.end <= UserMax /\ \A b \in R \cup A : ~Overlaps(b, c)

\* The remote map is such a map when the task starts.
ASSUME RemoteAssumption ==
    \A l \in Layouts : /\ \A r \in l.regions : r.start <= r.end
                       /\ \A a, b \in l.regions : a # b => ~Overlaps(a, b)

\* The lowest place for size pages at or behind base.
Places(R, A, base, size) == {a \in base..UserMax : Fits(R, A, At(a, size, "mem"))}
FindFree(R, A, base, size) ==
    LET P == Places(R, A, base, size)
    IN  IF P = {} THEN NoAddr ELSE CHOOSE a \in P : \A b \in P : a <= b

\* The list from which get_regions and get_areas answer starts with the entry
\* that contains a or is the next one behind it.
From(S, a) == {r \in S : r.end >= a}
First(S) == CHOOSE r \in S : \A s \in S : r.start <= s.start

\* _alloc: the local map's nodes lie in heap pages, which mmap() takes as well.
NodeFree == Cardinality(lrm) + Cardinality(lam) < PerPage * (HeapPages - mapped)

Init ==
    /\ main = "tls" /\ app = "none"
    /\ \E l \in Layouts : rrm = l.regions /\ ram = l.areas
    /\ lrm = {} /\ lam = {}
    /\ addr = 0 /\ mapped = 0
    /\ stackP = NoAddr /\ stackDs = FALSE /\ temp = NoAddr
    /\ freeCap = FirstCap /\ capBase = FirstCap /\ held = {} /\ appCap = 0
    /\ envMain = "main" /\ raised = "none"
    /\ req = NoReq /\ reply = "none" /\ lost = {}

-----------------------------------------------------------------------------
(* The main thread up to its server loop. *)

\* exit(), or a return from main: the task is gone.
ExitTask == main' = "exited" /\ app' = "none"

\* Global::cap_alloc.alloc: the lowest free slot.
FreeSlots == (capBase..capBase + MaxCaps - 1) \ held
AllocCap == /\ FreeSlots # {}
            /\ held' = held \cup {Min(FreeSlots)}

\* Mutant of Tls: the slot of the dataspace is not taken.
TlsFreeSlot ==
    LET a == FindFree(rrm, ram, TlsBase, 1)
    IN  /\ main = "tls" /\ a # NoAddr
        /\ rrm' = rrm \cup {At(a, 1, "tls")}
        /\ main' = "aux"
        /\ UNCHANGED <<app, ram, lrm, lam, addr, mapped, capVars, ldrVars, ipc, lost>>

\* __libc_alloc_initial_tls, before main; then the constructor of cap_alloc,
\* which takes MaxCaps slots from the first free one on.
Tls ==
    LET a == FindFree(rrm, ram, TlsBase, 1)
    IN  /\ main = "tls"
        /\ freeCap' = freeCap + 1 /\ capBase' = freeCap + 1
        /\ \/ /\ a # NoAddr
              /\ rrm' = rrm \cup {At(a, 1, "tls")}
              /\ main' = "aux" /\ UNCHANGED app
           \/ \* no memory, or no place
              ExitTask /\ UNCHANGED rrm
        /\ UNCHANGED <<ram, lrm, lam, addr, mapped, held, appCap, ldrVars, ipc, lost>>

\* main: the AUX vectors and the memory allocator are there or are not.
Aux ==
    /\ main = "aux"
    /\ \/ main' = "heap" /\ freeCap' = freeCap + MaxCaps /\ UNCHANGED app
       \/ ExitTask /\ freeCap' \in {freeCap, freeCap + MaxCaps}
    /\ UNCHANGED <<maps, addr, mapped, capBase, held, appCap, ldrVars, ipc, lost>>

\* Single_page_alloc_base::init.  A failure is an exception, and main returns 1.
HeapInit ==
    LET h == At(HeapBase, HeapSize, "heap")
    IN  /\ main = "heap"
        /\ \/ /\ AllocCap /\ Fits(rrm, ram, h)
              /\ rrm' = rrm \cup {h}
              /\ main' = "init" /\ UNCHANGED app
           \/ ExitTask /\ UNCHANGED <<rrm, held>>
        /\ UNCHANGED <<ram, lrm, lam, addr, mapped, freeCap, capBase, appCap, ldrVars,
                       ipc, lost>>

\* rcv_cap, and Region_map::init: the reserved areas of the KIP and page 0.
RmInit ==
    /\ main = "init"
    /\ held' = IF FreeSlots = {} THEN held ELSE held \cup {Min(FreeSlots)}
    /\ lam' = KipReserved \cup {[start |-> 0, end |-> 0]}
    /\ main' = "regions"
    /\ UNCHANGED <<app, rrm, ram, lrm, addr, mapped, freeCap, capBase, appCap, ldrVars,
                   ipc, lost>>

\* Mutants of Advance: the page after the next; the same region again.
AdvanceTwo(r) == (r.end + 2) % Word
AdvanceNot(r) == r.end

\* addr = r->end + 1
Advance(r) == (r.end + 1) % Word

\* insert_regions, first loop: a region of the remote map becomes a Pager region
\* of the local one.  attach() answers a failure with L4_INVALID_PTR, which
\* is not 0: the loop goes on.
InsertRegion ==
    /\ main = "regions" /\ From(rrm, addr) # {}
    /\ LET r == First(From(rrm, addr))
           c == [r EXCEPT !.kind = "pager"]
       IN  /\ addr' = Advance(r)
           /\ \/ /\ Fits(lrm, lam, c) /\ NodeFree
                 /\ lrm' = lrm \cup {c} /\ UNCHANGED lost
              \/ /\ ~(Fits(lrm, lam, c) /\ NodeFree)
                 /\ lost' = lost \cup {r} /\ UNCHANGED lrm
    /\ UNCHANGED <<main, app, rrm, ram, lam, mapped, capVars, ldrVars, ipc>>

RegionsDone ==
    /\ main = "regions" /\ From(rrm, addr) = {}
    /\ main' = "areas"
    /\ UNCHANGED <<app, maps, addr, mapped, capVars, ldrVars, ipc, lost>>

\* Second loop: addr is not set back to 0.
InsertArea ==
    /\ main = "areas" /\ From(ram, addr) # {}
    /\ LET r == First(From(ram, addr))
       IN  /\ addr' = Advance(r)
           /\ lam' = IF NodeFree /\ \A b \in lam : ~Overlaps(b, r) THEN lam \cup {r} ELSE lam
    /\ UNCHANGED <<main, app, rrm, ram, lrm, mapped, capVars, ldrVars, ipc, lost>>

AreasDone ==
    /\ main = "areas" /\ From(ram, addr) = {}
    /\ main' = "local"
    /\ UNCHANGED <<app, maps, addr, mapped, capVars, ldrVars, ipc, lost>>

\* init_local_rm, whose attach fails where the heap is a Pager region already;
\* then open_file, which throws if there is no such binary.
LocalHeap ==
    LET h == At(HeapBase, HeapSize, "heap")
    IN  /\ main = "local"
        /\ lrm' = IF Fits(lrm, lam, h) /\ NodeFree THEN lrm \cup {h} ELSE lrm
        /\ \/ AllocCap /\ main' = "alloc" /\ UNCHANGED app
           \/ ExitTask /\ UNCHANGED held
        /\ UNCHANGED <<rrm, ram, lam, addr, mapped, freeCap, capBase, appCap, ldrVars,
                       ipc, lost>>

-----------------------------------------------------------------------------
(* Loader::start. *)

\* The capability of the loader stack is looked at, its memory is not.  When
\* start() returns false, main goes on all the same.
LoaderAlloc ==
    /\ main = "alloc"
    /\ \/ AllocCap /\ stackDs' \in BOOLEAN /\ main' = "attach"
       \/ FreeSlots = {} /\ main' = "prio" /\ UNCHANGED <<held, stackDs>>
    /\ UNCHANGED <<app, maps, addr, mapped, freeCap, capBase, appCap, stackP, temp,
                   envMain, raised, ipc, lost>>

\* A place that is free in the local map ...
LoaderAttach ==
    LET a == FindFree(lrm, lam, LoaderVma, LoaderSize)
    IN  /\ main = "attach"
        /\ \/ /\ a # NoAddr /\ NodeFree
              /\ lrm' = lrm \cup {At(a, LoaderSize, "loader")}
              /\ stackP' = a /\ main' = "share"
           \/ /\ ~(a # NoAddr /\ NodeFree)
              /\ main' = "prio" /\ UNCHANGED <<lrm, stackP>>
        /\ UNCHANGED <<app, rrm, ram, lam, addr, mapped, capVars, stackDs, temp, envMain,
                       raised, ipc, lost>>

\* Mutant of LoaderShare: the hint is passed on instead of the place found.
LoaderShareAtHint ==
    LET s == At(LoaderVma, LoaderSize, "loader")
    IN  /\ main = "share"
        /\ rrm' = IF stackDs /\ Fits(rrm, ram, s) THEN rrm \cup {s} ELSE rrm
        /\ main' = "push"
        /\ UNCHANGED <<app, ram, lrm, lam, addr, mapped, capVars, ldrVars, ipc, lost>>

\* ... is asked of the remote map; nobody looks at the result.
LoaderShare ==
    LET s == At(stackP, LoaderSize, "loader")
    IN  /\ main = "share"
        /\ rrm' = IF stackDs /\ Fits(rrm, ram, s) THEN rrm \cup {s} ELSE rrm
        /\ main' = "push"
        /\ UNCHANGED <<app, ram, lrm, lam, addr, mapped, capVars, ldrVars, ipc, lost>>

\* *(--sp) = 0: the main thread's own page faults go to the remote map.  If that
\* has no stack there, the thread faults or writes to what lies there ("wild").
LoaderPush ==
    /\ main = "push"
    /\ main' = IF At(stackP, LoaderSize, "loader") \in rrm THEN "thread" ELSE "wild"
    /\ UNCHANGED <<app, maps, addr, mapped, capVars, ldrVars, ipc, lost>>

\* The application thread is created and runs loader_thread.
LoaderThread ==
    /\ main = "thread"
    /\ appCap' = freeCap /\ freeCap' = freeCap + 1
    /\ \/ app' = "bin" /\ main' = "prio"
       \/ ExitTask
    /\ UNCHANGED <<maps, addr, mapped, capBase, held, ldrVars, ipc, lost>>

\* "Raise RM prio to its MCP": env->main_thread() is read; then the server loop.
RaisePrio ==
    /\ main = "prio"
    /\ raised' = envMain
    /\ main' = "loop"
    /\ UNCHANGED <<app, maps, addr, mapped, capVars, stackP, stackDs, temp, envMain, ipc,
                   lost>>

-----------------------------------------------------------------------------
(* The application thread: the loader. *)

Call(r) == req' = r /\ reply' = "none"
Attach(base, size, search, k) ==
    [op |-> "attach", base |-> base, size |-> size, search |-> search, kind |-> k]
Detach(a) == [op |-> "detach", at |-> a]

\* Mutant of LoaderCall: the page behind the loader stack is given back.
LoaderCallPastEnd ==
    IF app = "start" THEN Detach(stackP + LoaderSize) ELSE
    CASE app = "bin"     -> Attach(0, 1, TRUE, "temp")
      [] app = "segment" -> Attach(SegBase, 1, FALSE, "segment")
      [] app = "unbin"   -> Detach(temp)
      [] app = "appstack" -> Attach(StackVma, 1, TRUE, "stack")

\* The calls of the loader, in the order in which they depend on each other.
\* __loader_stack_p - 1 lies in the last page of the loader stack.
LoaderCall ==
    CASE app = "bin"     -> Attach(0, 1, TRUE, "temp")
      [] app = "segment" -> Attach(SegBase, 1, FALSE, "segment")
      [] app = "unbin"   -> Detach(temp)
      [] app = "appstack" -> Attach(StackVma, 1, TRUE, "stack")
      [] app = "start"   -> Detach(stackP + LoaderSize - 1)
After == [bin |-> "segment", segment |-> "unbin", unbin |-> "appstack",
          appstack |-> "env", start |-> "running"]

\* Mutant of LdrCall: the temporary mapping is asked of the remote map, which
\* does not wait for the main thread.
LdrCallRemote ==
    /\ app \in DOMAIN After /\ req = NoReq
    /\ IF app = "start" THEN Call(LoaderCall) /\ UNCHANGED <<app, temp>>
       ELSE app' = After[app] /\ temp' = NoAddr /\ UNCHANGED <<req, reply>>
    /\ UNCHANGED <<main, maps, addr, mapped, capVars, stackP, stackDs, envMain, raised, lost>>

\* local_attach_ds, prog_attach_ds, local_detach_ds, alloc_app_stack, and the
\* detach of the loader stack: a request to the pager, the main thread.
LdrCall ==
    /\ app \in DOMAIN After /\ req = NoReq
    /\ Call(LoaderCall)
    /\ UNCHANGED <<main, app, maps, addr, mapped, capVars, ldrVars, lost>>

\* The answer.  chksys throws, loader_thread calls exit(1); the result of the
\* last detach is not looked at.  alloc_ds and alloc_app_stack may also fail
\* for want of a capability or of memory.  unmap_stack_and_start frees the slot
\* of the loader stack, the fourth that was taken.
LdrReturn ==
    /\ app \in DOMAIN After /\ req # NoReq /\ reply # "none"
    /\ req' = NoReq /\ reply' = "none"
    /\ \/ /\ reply # "failed" \/ app = "start"
          /\ app' = After[app]
          /\ \/ app \in {"segment", "appstack"} /\ AllocCap
             \/ app = "start" /\ held' = held \ {capBase + 3}
             \/ app \in {"bin", "unbin"} /\ UNCHANGED held
          /\ UNCHANGED main
       \/ /\ app # "start"
          /\ reply = "failed" \/ app \in {"segment", "appstack"}
          /\ ExitTask /\ UNCHANGED held
    /\ UNCHANGED <<maps, addr, mapped, freeCap, capBase, appCap, ldrVars, lost>>

\* push_envp, push_argv, add_env, start_prog: from now on the application thread is
\* what env->main_thread() names.
AddEnv ==
    /\ app = "env"
    /\ envMain' = "app" /\ app' = "start"
    /\ UNCHANGED <<main, maps, addr, mapped, capVars, stackP, stackDs, temp, raised, ipc, lost>>

\* mmap() of the C library in the loader: one page, or nothing.
Mmap(n) ==
    /\ app \in DOMAIN After /\ req = NoReq
    /\ n = 1 /\ Cardinality(lrm) + Cardinality(lam) <= PerPage * (HeapPages - mapped - 1)
    /\ mapped' = mapped + n
    /\ UNCHANGED <<main, app, maps, addr, capVars, ldrVars, ipc, lost>>

-----------------------------------------------------------------------------
(* The program, and the server loop. *)

\* The program attaches, reserves and detaches memory, and faults.
ProgCall ==
    /\ app = "running" /\ req = NoReq
    /\ \/ \E s \in Sizes, k \in {"mem", "reserved"} : Call(Attach(StackVma, s, TRUE, k))
       \/ \E p \in Touched : Call(Detach(p)) \/ Call([op |-> "fault", at |-> p])
    /\ UNCHANGED <<main, app, maps, addr, mapped, capVars, ldrVars, lost>>

ProgReturn ==
    /\ app = "running" /\ req # NoReq /\ reply # "none"
    /\ req' = NoReq /\ reply' = "none"
    /\ UNCHANGED <<main, app, maps, addr, mapped, capVars, ldrVars, lost>>

Pending == main = "loop" /\ req # NoReq /\ reply = "none"

\* handle_rm_request: attach.
ServeAttach ==
    /\ Pending /\ req.op = "attach"
    /\ LET a == IF req.search THEN FindFree(lrm, lam, req.base, req.size) ELSE req.base
       IN  \/ /\ a # NoAddr /\ Fits(lrm, lam, At(a, req.size, req.kind)) /\ NodeFree
              /\ lrm' = lrm \cup {At(a, req.size, req.kind)}
              /\ reply' = "done"
              /\ temp' = IF req.kind = "temp" THEN a ELSE temp
           \/ /\ ~(a # NoAddr /\ Fits(lrm, lam, At(a, req.size, req.kind)) /\ NodeFree)
              /\ reply' = "failed" /\ UNCHANGED <<lrm, temp>>
    /\ UNCHANGED <<main, app, rrm, ram, lam, addr, mapped, capVars, stackP, stackDs,
                   envMain, raised, req, lost>>

\* Mutant of ServeDetach: no answer when there is no region.
ServeDetachQuietly ==
    /\ Pending /\ req.op = "detach"
    /\ lrm' = {r \in lrm : ~Contains(r, req.at)}
    /\ lrm' # lrm /\ reply' = "done"
    /\ UNCHANGED <<main, app, rrm, ram, lam, addr, mapped, capVars, ldrVars, req, lost>>

\* handle_rm_request: detach of the region that holds an address, with
\* Region_ops::free.
ServeDetach ==
    /\ Pending /\ req.op = "detach"
    /\ lrm' = {r \in lrm : ~Contains(r, req.at)}
    /\ reply' = IF lrm' = lrm THEN "failed" ELSE "done"
    /\ UNCHANGED <<main, app, rrm, ram, lam, addr, mapped, capVars, ldrVars, req, lost>>

\* handle_pagefault with Region_ops::map: forwarded, mapped, or an exception that
\* handle_exception does not answer.
ServeFault ==
    /\ Pending /\ req.op = "fault"
    /\ LET R == {r \in lrm : Contains(r, req.at)}
       IN  reply' = IF \E r \in R : r.kind = "pager"
                       THEN IF \E s \in rrm : Contains(s, req.at) THEN "done" ELSE "failed"
                    ELSE IF \E r \in R : r.kind # "reserved" THEN "done"
                    ELSE "exception"
    /\ app' = IF reply' = "exception" THEN "stuck" ELSE app
    /\ UNCHANGED <<main, maps, addr, mapped, capVars, ldrVars, req, lost>>

MainStep == \/ Tls \/ Aux \/ HeapInit \/ RmInit \/ InsertRegion \/ RegionsDone
            \/ InsertArea \/ AreasDone \/ LocalHeap \/ LoaderAlloc \/ LoaderAttach
            \/ LoaderShare \/ LoaderPush \/ LoaderThread \/ RaisePrio
Serve == ServeAttach \/ ServeDetach \/ ServeFault
AppStep == LdrCall \/ LdrReturn \/ AddEnv \/ ProgReturn

Next == MainStep \/ Serve \/ AppStep \/ ProgCall \/ \E n \in 1..2 : Mmap(n)

Spec == Init /\ [][Next]_vars

\* Both threads run when they can: the main thread has the highest priority and
\* the application thread the processor whenever the main thread waits.
FairSpec == Spec /\ WF_vars(MainStep) /\ WF_vars(Serve) /\ WF_vars(AppStep)

-----------------------------------------------------------------------------
(* Properties. *)

MainPlaces == {"tls", "aux", "heap", "init", "regions", "areas", "local", "alloc",
               "attach", "share", "push", "thread", "prio", "loop", "wild", "exited"}
AppPlaces == {"none", "env", "running", "stuck"} \cup DOMAIN After

\* Types.
TypeOK ==
    /\ main \in MainPlaces /\ app \in AppPlaces
    /\ rrm \subseteq Region /\ lrm \subseteq Region
    /\ ram \subseteq Interval /\ lam \subseteq Interval
    /\ addr \in Addr /\ stackP \in Addr \cup {NoAddr} /\ stackDs \in BOOLEAN
    /\ temp \in Addr \cup {NoAddr} /\ mapped \in 0..HeapPages
    /\ {freeCap, capBase, appCap} \subseteq Nat /\ held \subseteq Nat
    /\ envMain \in {"main", "app"} /\ raised \in {"none", "main", "app"}
    /\ lost \subseteq Region

\* Every page of r up to the limit is known to the local map.
Known(r) == \A p \in r.start..r.end : p <= UserMax => \E b \in lrm \cup lam : Contains(b, p)

LoaderStack == At(stackP, LoaderSize, "loader")

\* Once insert_regions has gone through the remote map, the local map knows every
\* page of every region in it, however they lie, except for regions whose
\* attach failed unnoticed.
RegionsMirrored ==
    main \in {"areas", "local", "alloc", "attach"} => \A r \in rrm \ lost : Known(r)

\* The memory for the loader stack could not be allocated, or its place is taken in
\* the remote map by something the local one does not know: a region that was lost,
\* or an area that was passed over, because the search for areas starts behind the
\* last region, or that attach_area has refused (no node, or a region in the way).
StackLost == ~stackDs \/ \E r \in lost \cup (ram \ lam) : Overlaps(r, LoaderStack)

\* The place for the loader stack, looked up in the local map, is free in the
\* remote one too, so that the main thread finds memory when it writes to it,
\* except for the cases of StackLost.
StackIsShared == main = "wild" => StackLost

\* The slots of the TLS dataspace, of cap_alloc and of the application thread are
\* different, and the program gets none of them as free.
SlotsDistinct ==
    app # "none" =>
        /\ appCap \notin held \cup FreeSlots \cup {FirstCap}
        /\ FirstCap \notin held \cup FreeSlots
        /\ \A c \in held \cup FreeSlots \cup {appCap} : c < freeCap

\* main raises its own priority, although it reads the thread from an env that the
\* loader changes: the loader cannot get there before main serves its requests.
RaisesOwnPrio == raised # "app"

\* The program is started by giving back the loader stack and nothing else.
OnlyStackDetached ==
    [][app = "start" /\ lrm' # lrm => lrm \ lrm' = {LoaderStack}]_vars

\* The loops of insert_regions end, and the task exits, gets to its program, or stays
\* in its server loop with a thread that start() failed to make or that raised an
\* exception.  Exempted are an entry of the remote map that ends with the last page
\* (r->end + 1 is 0 then), and a main thread that has no loader stack to write to
\* (StackLost), which faults or writes to what lies there instead.
NoTopEntry == \A r \in rrm \cup ram : r.end < Word - 1
Settled == main = "exited" \/ (main = "loop" /\ app \in {"none", "running", "stuck"})
StartSettles == NoTopEntry ~> (Settled \/ (main = "wild" /\ StackLost))

\* The main thread answers every request, except for exceptions.
RequestsServed ==
    req # NoReq ~> req = NoReq \/ app = "stuck" \/ main = "exited"
=============================================================================
