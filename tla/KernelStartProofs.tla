------------------------- MODULE KernelStartProofs -------------------------
(***************************************************************************)
(* Proofs about KernelStart, for any address space, layout and program.    *)
(***************************************************************************)
EXTENDS KernelStart, NatFacts, TLAPS

\* Regions whose bounds can be compared.
Bounded == [start : Nat, end : Int, kind : Kinds]

\* The regions of both maps are such, and no two of the local map overlap.
RegionsInv ==
    /\ rrm \subseteq Bounded /\ lrm \subseteq Bounded
    /\ \A a, b \in lrm : a # b => ~Overlaps(a, b)

\* Until the main thread serves, the application thread gets no answer and does not
\* get past its first request; before main has created it there is none.
TurnInv ==
    /\ main \notin {"prio", "loop", "exited"} => app = "none"
    /\ main \notin {"loop", "exited"} =>
           app \in {"none", "bin"} /\ reply = "none" /\ envMain = "main"
    /\ raised # "app"

\* What the loader has asked for is what its place says, and it never meets an exception.
RequestInv ==
    /\ app \in {"none", "env"} => req = NoReq
    /\ app \in DOMAIN After /\ req # NoReq => req = LoaderCall
    /\ req.op = "attach" => req.base \in Nat /\ req.size \in Nat /\ req.kind \in Kinds
    /\ reply \in {"none", "done", "failed", "exception"}
    /\ req = NoReq => reply = "none"
    /\ reply = "exception" => app \in {"stuck", "none"}

\* The loader stack stays in the local map until the program is started, and the binary
\* until the loader detaches it.
StackInv ==
    \/ main \in {"share", "push", "thread"}
    \/ app \in {"bin", "segment", "unbin", "appstack", "env"}
    \/ app = "start" /\ reply = "none"
    => stackP \in Nat /\ LoaderStack \in lrm
TempInv ==
    \/ app = "bin" /\ reply = "done"
    \/ app = "segment"
    \/ app = "unbin" /\ reply = "none"
    => temp \in Nat /\ At(temp, 1, "temp") \in lrm

KInv == RegionsInv /\ TurnInv /\ RequestInv /\ StackInv /\ TempInv

-----------------------------------------------------------------------------
(* The operators. *)

\* The constants that are addresses or sizes.
LEMMA Constants ==
    /\ TlsBase \in Nat /\ HeapBase \in Nat /\ LoaderVma \in Nat /\ StackVma \in Nat
    /\ SegBase \in Nat /\ HeapSize \in Nat \ {0} /\ LoaderSize \in Nat \ {0}
    /\ UserMax \in Nat /\ Word \in Nat /\ Sizes \subseteq Nat
  BY LayoutAssumption DEF Addr

\* A search finds an address or NoAddr.
LEMMA FoundIsNat ==
    ASSUME NEW R, NEW A, NEW base \in Nat, NEW size, FindFree(R, A, base, size) # NoAddr
    PROVE  FindFree(R, A, base, size) \in Nat
  <1> DEFINE P == Places(R, A, base, size)
  <1>1. P \subseteq Nat
    BY Constants DEF Places
  <1>2. P # {}
    BY DEF FindFree
  <1>3. \E m \in P : \A n \in P : m <= n
    BY <1>1, <1>2, LeastNat
  <1>4. FindFree(R, A, base, size) = CHOOSE a \in P : \A b \in P : a <= b
    BY <1>2 DEF FindFree
  <1> HIDE DEF P
  <1> QED
    BY <1>1, <1>3, <1>4

\* Whether a region fits does not depend on its kind.
LEMMA AnyKindFits ==
    ASSUME NEW R, NEW A, NEW a, NEW size, NEW k, Fits(R, A, At(a, size, "mem"))
    PROVE  Fits(R, A, At(a, size, k))
  BY DEF Fits, At, Overlaps

\* What a search finds is free: a record of any kind fits there.
LEMMA FoundFits ==
    ASSUME NEW R, NEW A, NEW base \in Nat, NEW size, NEW k,
           FindFree(R, A, base, size) # NoAddr
    PROVE  Fits(R, A, At(FindFree(R, A, base, size), size, k))
  <1> DEFINE P == Places(R, A, base, size)
             f == FindFree(R, A, base, size)
  <1>1. P \subseteq Nat
    BY Constants DEF Places
  <1>2. P # {}
    BY DEF FindFree
  <1>3. \E m \in P : \A n \in P : m <= n
    BY <1>1, <1>2, LeastNat
  <1>4. f = CHOOSE a \in P : \A b \in P : a <= b
    BY <1>2 DEF FindFree
  <1>5. f \in P
    <2> HIDE DEF P
    <2> QED
      BY <1>3, <1>4
  <1>6. Fits(R, A, At(f, size, "mem"))
    <2> HIDE DEF f
    <2> QED
      BY <1>5 DEF Places
  <1> QED
    BY <1>6, AnyKindFits

\* The next entry of a list is the first of its entries.
LEMMA FirstIsLeast ==
    ASSUME NEW S, \A r \in S : r.start \in Nat, S # {}
    PROVE  First(S) \in S /\ \A s \in S : First(S).start <= s.start
  <1> DEFINE T == {r.start : r \in S}
  <1>1. T \subseteq Nat /\ T # {}
    OBVIOUS
  <1>2. PICK m \in T : \A n \in T : m <= n
    BY <1>1, LeastNat
  <1>3. PICK r \in S : r.start = m
    OBVIOUS
  <1>4. \A s \in S : r.start <= s.start
    BY <1>2, <1>3
  <1> QED
    BY <1>4 DEF First

\* What is attached at an address is a region.
LEMMA AtBounded == ASSUME NEW a \in Nat, NEW size \in Nat, NEW k \in Kinds
                   PROVE  At(a, size, k) \in Bounded
  BY DEF At, Bounded

\* A region that fits leaves the others disjoint.
LEMMA AddDisjoint ==
    ASSUME RegionsInv, NEW c \in Bounded, Fits(lrm, lam, c), lrm' = lrm \cup {c}
    PROVE  lrm' \subseteq Bounded /\ \A a, b \in lrm' : a # b => ~Overlaps(a, b)
  BY DEF RegionsInv, Fits, Overlaps

-----------------------------------------------------------------------------
(* The main thread's steps keep KInv. *)

LEMMA MainKeepsRegions == ASSUME KInv, MainStep PROVE RegionsInv'
  <1> USE DEF KInv
  <1>1. CASE Tls
    <2> DEFINE a == FindFree(rrm, ram, TlsBase, 1)
    <2>1. UNCHANGED lrm
      BY <1>1 DEF Tls
    <2>2. CASE a # NoAddr /\ rrm' = rrm \cup {At(a, 1, "tls")}
      <3>1. a \in Nat
        BY <2>2, FoundIsNat, Constants
      <3>2. At(a, 1, "tls") \in Bounded
        BY <3>1, AtBounded DEF Kinds
      <3> QED
        BY <2>1, <2>2, <3>2 DEF RegionsInv, Overlaps
    <2>3. CASE UNCHANGED rrm
      BY <2>1, <2>3 DEF RegionsInv, Overlaps
    <2> QED
      BY <1>1, <2>2, <2>3 DEF Tls
  <1>2. CASE Aux \/ RmInit \/ RegionsDone \/ InsertArea \/ AreasDone \/ LoaderAlloc
             \/ LoaderPush \/ LoaderThread \/ RaisePrio
    <2>1. UNCHANGED <<rrm, lrm>>
      BY <1>2 DEF Aux, RmInit, RegionsDone, InsertArea, AreasDone, LoaderAlloc, LoaderPush,
                  LoaderThread, RaisePrio, maps
    <2> QED
      BY <2>1 DEF RegionsInv, Overlaps
  <1>3. CASE HeapInit
    <2>1. At(HeapBase, HeapSize, "heap") \in Bounded
      BY AtBounded, Constants DEF Kinds
    <2> QED
      BY <1>3, <2>1 DEF HeapInit, RegionsInv, Overlaps
  <1>4. CASE InsertRegion
    <2> DEFINE r == First(From(rrm, addr))
               c == [r EXCEPT !.kind = "pager"]
    <2>1. r \in Bounded
      <3>1. From(rrm, addr) \subseteq rrm /\ From(rrm, addr) # {}
        BY <1>4 DEF InsertRegion, From
      <3>2. rrm \subseteq Bounded /\ \A s \in rrm : s.start \in Nat
        BY DEF RegionsInv, Bounded
      <3> QED
        BY <3>1, <3>2, FirstIsLeast
    <2>2. c \in Bounded
      BY <2>1 DEF Bounded, Kinds
    <2>3. UNCHANGED rrm
      BY <1>4 DEF InsertRegion
    <2>4. \/ Fits(lrm, lam, c) /\ lrm' = lrm \cup {c}
          \/ UNCHANGED lrm
      BY <1>4 DEF InsertRegion
    <2> HIDE DEF c
    <2> QED
      BY <2>2, <2>3, <2>4, AddDisjoint DEF RegionsInv, Overlaps
  <1>5. CASE LocalHeap
    <2>1. At(HeapBase, HeapSize, "heap") \in Bounded
      BY AtBounded, Constants DEF Kinds
    <2>2. \/ /\ Fits(lrm, lam, At(HeapBase, HeapSize, "heap"))
             /\ lrm' = lrm \cup {At(HeapBase, HeapSize, "heap")}
          \/ UNCHANGED lrm
      BY <1>5 DEF LocalHeap
    <2>3. UNCHANGED rrm
      BY <1>5 DEF LocalHeap
    <2> QED
      BY <2>1, <2>2, <2>3, AddDisjoint DEF RegionsInv, Overlaps
  <1>6. CASE LoaderAttach
    <2> DEFINE a == FindFree(lrm, lam, LoaderVma, LoaderSize)
    <2>1. UNCHANGED rrm
      BY <1>6 DEF LoaderAttach
    <2>2. CASE a # NoAddr /\ lrm' = lrm \cup {At(a, LoaderSize, "loader")}
      <3>1. a \in Nat
        BY <2>2, FoundIsNat, Constants
      <3>2. At(a, LoaderSize, "loader") \in Bounded
        BY <3>1, AtBounded, Constants DEF Kinds
      <3>3. Fits(lrm, lam, At(a, LoaderSize, "loader"))
        BY <2>2, FoundFits, Constants
      <3> QED
        BY <2>1, <2>2, <3>2, <3>3, AddDisjoint DEF RegionsInv, Overlaps
    <2>3. CASE UNCHANGED lrm
      BY <2>1, <2>3 DEF RegionsInv, Overlaps
    <2> QED
      BY <1>6, <2>2, <2>3 DEF LoaderAttach
  <1>7. CASE LoaderShare
    <2>1. At(stackP, LoaderSize, "loader") \in Bounded
      BY <1>7, AtBounded, Constants DEF LoaderShare, StackInv, Kinds
    <2> QED
      BY <1>7, <2>1 DEF LoaderShare, RegionsInv, Overlaps
  <1> QED
    BY <1>1, <1>2, <1>3, <1>4, <1>5, <1>6, <1>7 DEF MainStep

LEMMA MainKeepsTurn == ASSUME KInv, MainStep PROVE TurnInv'
  <1> USE DEF KInv, TurnInv
  <1>1. CASE Tls \/ Aux \/ HeapInit \/ RmInit \/ LocalHeap \/ LoaderThread
    BY <1>1 DEF Tls, Aux, HeapInit, RmInit, LocalHeap, LoaderThread, ExitTask, ldrVars, ipc,
                RequestInv, NoReq
  <1>2. CASE InsertRegion \/ RegionsDone \/ InsertArea \/ AreasDone
    BY <1>2 DEF InsertRegion, RegionsDone, InsertArea, AreasDone, ldrVars, ipc
  <1>3. CASE LoaderAlloc \/ LoaderAttach \/ LoaderShare \/ LoaderPush \/ RaisePrio
    BY <1>3 DEF LoaderAlloc, LoaderAttach, LoaderShare, LoaderPush, RaisePrio, ldrVars, ipc
  <1> QED
    BY <1>1, <1>2, <1>3 DEF MainStep

\* The main thread's steps before its loop leave the request alone.
LEMMA MainKeepsRequest == ASSUME KInv, MainStep PROVE RequestInv'
  <1> USE DEF KInv
  <1>1. UNCHANGED <<req, reply>>
    BY DEF MainStep, Tls, Aux, HeapInit, RmInit, InsertRegion, RegionsDone, InsertArea,
           AreasDone, LocalHeap, LoaderAlloc, LoaderAttach, LoaderShare, LoaderPush,
           LoaderThread, RaisePrio, ipc
  <1>2. CASE app = "none"
    <2>1. app' \in {"none", "bin"}
      BY <1>2 DEF MainStep, Tls, Aux, HeapInit, RmInit, InsertRegion, RegionsDone, InsertArea,
           AreasDone, LocalHeap, LoaderAlloc, LoaderAttach, LoaderShare, LoaderPush,
           LoaderThread, RaisePrio, ExitTask
    <2>2. req' = NoReq
      BY <1>1, <1>2 DEF RequestInv
    <2>3. NoReq' = NoReq
      BY DEF NoReq
    <2>4. reply # "exception" \/ app' = "none"
      BY <1>2, <2>1 DEF MainStep, Tls, Aux, HeapInit, RmInit, InsertRegion, RegionsDone,
           InsertArea, AreasDone, LocalHeap, LoaderAlloc, LoaderAttach, LoaderShare,
           LoaderPush, LoaderThread, RaisePrio, ExitTask, TurnInv
    <2> QED
      BY <1>1, <2>1, <2>2, <2>3, <2>4 DEF RequestInv
  <1>3. CASE app # "none"
    <2>1. RaisePrio
      BY <1>3 DEF TurnInv, MainStep, Tls, Aux, HeapInit, RmInit, InsertRegion, RegionsDone,
           InsertArea, AreasDone, LocalHeap, LoaderAlloc, LoaderAttach, LoaderShare,
           LoaderPush, LoaderThread
    <2>2. UNCHANGED <<app, stackP, temp>>
      BY <2>1 DEF RaisePrio
    <2>3. UNCHANGED LoaderCall /\ UNCHANGED NoReq
      BY <2>2 DEF LoaderCall, Attach, Detach, NoReq
    <2> QED
      BY <1>1, <2>2, <2>3 DEF RequestInv
  <1> QED
    BY <1>2, <1>3

LEMMA MainKeepsStack == ASSUME KInv, MainStep PROVE StackInv' /\ TempInv'
  <1> USE DEF KInv
  <1>1. CASE app = "none" /\ main \notin {"attach", "share", "push", "thread"}
    <2>1. app' = "none" /\ main' \notin {"share", "push", "thread"}
      BY <1>1 DEF MainStep, Tls, Aux, HeapInit, RmInit, InsertRegion, RegionsDone, InsertArea,
           AreasDone, LocalHeap, LoaderAlloc, LoaderAttach, LoaderShare, LoaderPush,
           LoaderThread, RaisePrio, ExitTask
    <2> QED
      BY <2>1 DEF StackInv, TempInv
  <1>2. CASE LoaderAttach
    <2> DEFINE a == FindFree(lrm, lam, LoaderVma, LoaderSize)
    <2>1. UNCHANGED app /\ app = "none"
      BY <1>2 DEF LoaderAttach, TurnInv
    <2>2. CASE a # NoAddr /\ lrm' = lrm \cup {At(a, LoaderSize, "loader")} /\ stackP' = a
      <3>1. a \in Nat
        BY <2>2, FoundIsNat, Constants
      <3> QED
        BY <2>1, <2>2, <3>1 DEF StackInv, TempInv, LoaderStack, At
    <2>3. CASE main' = "prio"
      BY <2>1, <2>3 DEF StackInv, TempInv
    <2> QED
      BY <1>2, <2>2, <2>3 DEF LoaderAttach
  <1>3. CASE LoaderShare \/ LoaderPush \/ LoaderThread \/ RaisePrio
    <2>1. UNCHANGED <<lrm, stackP, temp, reply>>
      BY <1>3 DEF LoaderShare, LoaderPush, LoaderThread, RaisePrio, maps, ldrVars, ipc
    <2>2. UNCHANGED LoaderStack /\ UNCHANGED At(temp, 1, "temp")
      BY <2>1 DEF LoaderStack, At
    <2>3. CASE LoaderShare \/ LoaderPush
      BY <2>1, <2>2, <2>3 DEF LoaderShare, LoaderPush, StackInv, TempInv, TurnInv
    <2>4. CASE LoaderThread
      BY <2>1, <2>2, <2>4 DEF LoaderThread, ExitTask, StackInv, TempInv, TurnInv
    <2>5. CASE RaisePrio
      BY <2>1, <2>2, <2>5 DEF RaisePrio, StackInv, TempInv
    <2> QED
      BY <1>3, <2>3, <2>4, <2>5
  <1>4. app # "none" => RaisePrio
    BY DEF TurnInv, MainStep, Tls, Aux, HeapInit, RmInit, InsertRegion, RegionsDone,
           InsertArea, AreasDone, LocalHeap, LoaderAlloc, LoaderAttach, LoaderShare,
           LoaderPush, LoaderThread
  <1>5. main \in {"attach", "share", "push", "thread"} =>
            LoaderAttach \/ LoaderShare \/ LoaderPush \/ LoaderThread
    BY DEF MainStep, Tls, Aux, HeapInit, RmInit, InsertRegion, RegionsDone,
           InsertArea, AreasDone, LocalHeap, LoaderAlloc, RaisePrio
  <1> QED
    BY <1>1, <1>2, <1>3, <1>4, <1>5

-----------------------------------------------------------------------------
(* The server loop keeps KInv. *)

\* A request of the loader or of the program asks for a region.
LEMMA AskedFor ==
    ASSUME KInv, app \in DOMAIN After, req # NoReq, req.op = "attach"
    PROVE  /\ app \in {"bin", "segment", "appstack"}
           /\ app = "bin" <=> req.kind = "temp"
  <1>1. app \in {"bin", "segment", "unbin", "appstack", "start"}
    BY DEF After
  <1>2. req = LoaderCall
    BY DEF KInv, RequestInv
  <1> QED
    BY <1>1, <1>2 DEF LoaderCall, Attach, Detach

\* The place that handle_rm_request finds for a region.
Found == IF req.search THEN FindFree(lrm, lam, req.base, req.size) ELSE req.base

LEMMA ServeAttachCases ==
    ASSUME KInv, ServeAttach
    PROVE  \/ /\ Found \in Nat /\ Fits(lrm, lam, At(Found, req.size, req.kind))
              /\ lrm' = lrm \cup {At(Found, req.size, req.kind)}
              /\ temp' = IF req.kind = "temp" THEN Found ELSE temp
              /\ reply' = "done"
           \/ reply' = "failed" /\ UNCHANGED <<lrm, temp>>
  <1>1. \/ /\ Found # NoAddr /\ Fits(lrm, lam, At(Found, req.size, req.kind))
           /\ lrm' = lrm \cup {At(Found, req.size, req.kind)}
           /\ temp' = IF req.kind = "temp" THEN Found ELSE temp
           /\ reply' = "done"
        \/ reply' = "failed" /\ UNCHANGED <<lrm, temp>>
    BY DEF ServeAttach, Found
  <1>2. req.base \in Nat
    BY DEF ServeAttach, KInv, RequestInv
  <1>3. Found # NoAddr => Found \in Nat
    BY <1>2, FoundIsNat DEF Found
  <1> QED
    BY <1>1, <1>3

LEMMA ServeAttachKeeps == ASSUME KInv, ServeAttach PROVE KInv'
  <1> DEFINE c == At(Found, req.size, req.kind)
  <1>1. /\ main = "loop" /\ req # NoReq /\ reply = "none" /\ req.op = "attach"
        /\ UNCHANGED <<main, app, rrm, stackP, envMain, raised, req>>
    BY DEF ServeAttach, Pending
  <1>2. req.size \in Nat /\ req.kind \in Kinds
    BY <1>1 DEF KInv, RequestInv
  <1>3. /\ lrm \subseteq lrm'
        /\ temp' # temp => req.kind = "temp"
        /\ reply' \in {"done", "failed"}
    BY ServeAttachCases
  <1>4. RegionsInv'
    <2>1. CASE Found \in Nat /\ Fits(lrm, lam, c) /\ lrm' = lrm \cup {c}
      <3>1. c \in Bounded
        BY <1>2, <2>1, AtBounded
      <3> HIDE DEF c
      <3> QED
        BY <1>1, <2>1, <3>1, AddDisjoint DEF KInv, RegionsInv, Overlaps
    <2>2. CASE UNCHANGED lrm
      BY <1>1, <2>2 DEF KInv, RegionsInv, Overlaps
    <2> QED
      BY <2>1, <2>2, ServeAttachCases
  <1>5. TurnInv'
    BY <1>1 DEF KInv, TurnInv
  <1>6. RequestInv'
    <2>1. app \in DOMAIN After => UNCHANGED LoaderCall
      <3>1. CASE app \in {"bin", "segment", "appstack"}
        BY <1>1, <3>1 DEF LoaderCall, Attach, Detach
      <3> QED
        BY <1>1, <3>1, AskedFor
    <2>2. UNCHANGED NoReq /\ UNCHANGED DOMAIN After
      BY DEF NoReq, After
    <2> QED
      BY <1>1, <1>3, <2>1, <2>2 DEF KInv, RequestInv
  <1>7. StackInv'
    <2>1. UNCHANGED LoaderStack
      BY <1>1 DEF LoaderStack, At
    <2> QED
      BY <1>1, <1>3, <2>1 DEF KInv, StackInv
  <1>8. TempInv'
    <2>1. CASE app = "bin" /\ reply' = "done"
      <3>1. req = LoaderCall
        BY <1>1, <2>1 DEF KInv, RequestInv, After
      <3>2. req.kind = "temp" /\ req.size = 1
        BY <2>1, <3>1 DEF LoaderCall, Attach
      <3>3. Found \in Nat /\ temp' = Found /\ At(Found, 1, "temp") \in lrm'
        BY <2>1, <3>2, ServeAttachCases
      <3> QED
        BY <3>3 DEF TempInv, At
    <2>2. CASE app = "segment"
      <3>1. temp' = temp
        BY <1>1, <1>3, <2>2, AskedFor DEF After
      <3> QED
        BY <1>3, <2>2, <3>1 DEF KInv, TempInv, At
    <2>3. reply' # "none"
      BY <1>3
    <2> QED
      BY <1>1, <2>1, <2>2, <2>3 DEF TempInv
  <1> QED
    BY <1>4, <1>5, <1>6, <1>7, <1>8 DEF KInv

LEMMA ServeDetachKeeps == ASSUME KInv, ServeDetach PROVE KInv'
  <1>1. /\ main = "loop" /\ req # NoReq /\ reply = "none" /\ req.op = "detach"
        /\ UNCHANGED <<main, app, rrm, stackP, temp, envMain, raised, req>>
        /\ lrm' = {r \in lrm : ~Contains(r, req.at)} /\ reply' \in {"failed", "done"}
    BY DEF ServeDetach, Pending, ldrVars
  <1>2. UNCHANGED LoaderCall /\ UNCHANGED LoaderStack /\ UNCHANGED NoReq
        /\ UNCHANGED DOMAIN After
    BY <1>1 DEF LoaderCall, Attach, Detach, LoaderStack, At, NoReq, After
  <1>3. RegionsInv'
    BY <1>1 DEF KInv, RegionsInv, Overlaps
  <1>4. TurnInv'
    BY <1>1 DEF KInv, TurnInv
  <1>5. RequestInv'
    BY <1>1, <1>2 DEF KInv, RequestInv
  <1>6. app \notin {"bin", "segment", "appstack", "env"}
    <2>1. app # "env"
      BY <1>1 DEF KInv, RequestInv
    <2>2. app \in {"bin", "segment", "appstack"} => req = LoaderCall
      BY <1>1 DEF KInv, RequestInv, After
    <2> QED
      BY <1>1, <2>1, <2>2 DEF LoaderCall, Attach
  <1>7. StackInv'
    <2>1. CASE app = "unbin"
      <3>1. /\ temp \in Nat /\ At(temp, 1, "temp") \in lrm
            /\ stackP \in Nat /\ LoaderStack \in lrm
        BY <1>1, <2>1 DEF KInv, TempInv, StackInv
      <3>2. req.at = temp
        <4>1. req = LoaderCall
          BY <1>1, <2>1 DEF KInv, RequestInv, After
        <4> QED
          BY <2>1, <4>1 DEF LoaderCall, Detach
      <3>3. LoaderStack # At(temp, 1, "temp")
        BY DEF LoaderStack, At
      <3>4. ~Overlaps(LoaderStack, At(temp, 1, "temp"))
        BY <3>1, <3>3 DEF KInv, RegionsInv
      <3>5. ~Contains(LoaderStack, temp)
        BY <3>1, <3>4, Constants DEF Overlaps, Contains, LoaderStack, At
      <3> QED
        BY <1>1, <1>2, <3>1, <3>2, <3>5 DEF StackInv
    <2> QED
      BY <1>1, <1>6, <2>1 DEF StackInv
  <1>8. TempInv'
    BY <1>1, <1>6 DEF TempInv
  <1> QED
    BY <1>3, <1>4, <1>5, <1>7, <1>8 DEF KInv

\* A step that leaves the maps, the stack and the loader's places alone.
LEMMA ServeFaultKeeps == ASSUME KInv, ServeFault PROVE KInv'
  <1>1. /\ main = "loop" /\ req # NoReq /\ reply = "none" /\ req.op = "fault"
        /\ UNCHANGED <<main, rrm, lrm, stackP, temp, envMain, raised, req>>
        /\ reply' \in {"done", "failed", "exception"}
        /\ app' = IF reply' = "exception" THEN "stuck" ELSE app
    BY DEF ServeFault, Pending, ldrVars, maps
  <1>2. app \notin DOMAIN After /\ app \notin {"none", "env"}
    <2>1. app \in DOMAIN After => req = LoaderCall
      BY <1>1 DEF KInv, RequestInv
    <2>2. app \in DOMAIN After => LoaderCall.op \in {"attach", "detach"}
      <3>1. app \in DOMAIN After => app \in {"bin", "segment", "unbin", "appstack", "start"}
        BY DEF After
      <3> QED
        BY <3>1 DEF LoaderCall, Attach, Detach
    <2>3. app \notin {"none", "env"}
      BY <1>1 DEF KInv, RequestInv
    <2> QED
      BY <1>1, <2>1, <2>2, <2>3
  <1>3. app' \notin {"none", "env", "bin", "segment", "unbin", "appstack", "start"}
    BY <1>1, <1>2 DEF After
  <1>4. RegionsInv'
    BY <1>1 DEF KInv, RegionsInv, Overlaps
  <1>5. TurnInv'
    BY <1>1 DEF KInv, TurnInv
  <1>6. RequestInv'
    BY <1>1, <1>3 DEF KInv, RequestInv, After
  <1>7. StackInv' /\ TempInv'
    BY <1>1, <1>3 DEF StackInv, TempInv
  <1> QED
    BY <1>4, <1>5, <1>6, <1>7 DEF KInv

-----------------------------------------------------------------------------
(* The application thread keeps KInv. *)

LEMMA LdrCallKeeps == ASSUME KInv, LdrCall PROVE KInv'
  <1>1. /\ app \in {"bin", "segment", "unbin", "appstack", "start"} /\ req = NoReq
        /\ req' = LoaderCall /\ reply' = "none"
        /\ UNCHANGED <<main, app, rrm, lrm, stackP, temp, envMain, raised>>
    BY DEF LdrCall, Call, After, maps, ldrVars
  <1>2. UNCHANGED LoaderCall /\ UNCHANGED LoaderStack /\ UNCHANGED NoReq
    BY <1>1 DEF LoaderCall, Attach, Detach, LoaderStack, At, NoReq
  <1>3. RegionsInv'
    BY <1>1 DEF KInv, RegionsInv, Overlaps
  <1>4. TurnInv'
    BY <1>1 DEF KInv, TurnInv
  <1>5. RequestInv'
    <2>1. LoaderCall.op = "attach" =>
              /\ LoaderCall.base \in Nat /\ LoaderCall.size \in Nat /\ LoaderCall.kind \in Kinds
      <3>1. CASE app \in {"unbin", "start"}
        BY <3>1 DEF LoaderCall, Detach
      <3>2. CASE app = "bin"
        BY <3>2 DEF LoaderCall, Attach, Kinds
      <3>3. CASE app = "segment"
        <4>1. LoaderCall = Attach(SegBase, 1, FALSE, "segment")
          BY <3>3 DEF LoaderCall
        <4> QED
          BY <4>1, Constants DEF Attach, Kinds
      <3>4. CASE app = "appstack"
        <4>1. LoaderCall = Attach(StackVma, 1, TRUE, "stack")
          BY <3>4 DEF LoaderCall
        <4> QED
          BY <4>1, Constants DEF Attach, Kinds
      <3> QED
        BY <1>1, <3>1, <3>2, <3>3, <3>4
    <2> QED
      BY <1>1, <1>2, <2>1 DEF RequestInv
  <1>6. StackInv'
    BY <1>1, <1>2 DEF KInv, StackInv, RequestInv
  <1>7. TempInv'
    BY <1>1 DEF KInv, TempInv, RequestInv, At
  <1> QED
    BY <1>3, <1>4, <1>5, <1>6, <1>7 DEF KInv

LEMMA LdrReturnKeeps == ASSUME KInv, LdrReturn PROVE KInv'
  <1>1. /\ app \in {"bin", "segment", "unbin", "appstack", "start"}
        /\ req # NoReq /\ reply # "none" /\ req' = NoReq /\ reply' = "none"
        /\ UNCHANGED <<rrm, lrm, stackP, temp, envMain, raised>>
    BY DEF LdrReturn, After, maps, ldrVars
  <1>2. main \in {"loop", "exited"}
    BY <1>1 DEF KInv, TurnInv
  <1>3. RegionsInv'
    BY <1>1 DEF KInv, RegionsInv, Overlaps
  <1>4. UNCHANGED NoReq /\ UNCHANGED LoaderStack /\ UNCHANGED At(temp, 1, "temp")
    BY <1>1 DEF NoReq, LoaderStack, At
  <1>5. CASE ExitTask
    <2>1. main' = "exited" /\ app' = "none"
      BY <1>5 DEF ExitTask
    <2>2. TurnInv'
      BY <1>1, <2>1 DEF KInv, TurnInv
    <2>3. RequestInv'
      BY <1>1, <1>4, <2>1 DEF RequestInv, After, NoReq
    <2>4. StackInv' /\ TempInv'
      BY <2>1 DEF StackInv, TempInv
    <2> QED
      BY <1>3, <2>2, <2>3, <2>4 DEF KInv
  <1>6. CASE (reply # "failed" \/ app = "start") /\ app' = After[app] /\ UNCHANGED main
    <2>1. /\ app = "bin" => app' = "segment"
          /\ app = "segment" => app' = "unbin"
          /\ app = "unbin" => app' = "appstack"
          /\ app = "appstack" => app' = "env"
          /\ app = "start" => app' = "running"
      BY <1>6 DEF After
    <2>2. TurnInv'
      BY <1>1, <1>2, <1>6 DEF KInv, TurnInv
    <2>3. RequestInv'
      BY <1>1, <1>4, <2>1 DEF RequestInv, NoReq
    <2>4. StackInv'
      BY <1>1, <1>2, <1>4, <1>6, <2>1 DEF KInv, StackInv
    <2>5. TempInv'
      <3>1. app = "bin" => reply = "done"
        BY <1>1, <1>6 DEF KInv, RequestInv
      <3> QED
        BY <1>1, <1>4, <2>1, <3>1 DEF KInv, TempInv
    <2> QED
      BY <1>3, <2>2, <2>3, <2>4, <2>5 DEF KInv
  <1> QED
    BY <1>5, <1>6 DEF LdrReturn

\* AddEnv changes which thread the env names: only when main is in its loop.
LEMMA AddEnvKeeps == ASSUME KInv, AddEnv PROVE KInv'
  <1>1. /\ app = "env" /\ app' = "start" /\ envMain' = "app"
        /\ UNCHANGED <<main, rrm, lrm, stackP, temp, raised, req, reply>>
    BY DEF AddEnv, maps, ipc
  <1>2. main \in {"loop", "exited"}
    BY <1>1 DEF KInv, TurnInv
  <1>3. req = NoReq /\ reply = "none"
    BY <1>1 DEF KInv, RequestInv
  <1>4. UNCHANGED NoReq /\ UNCHANGED LoaderStack
    BY <1>1 DEF NoReq, LoaderStack, At
  <1>5. RegionsInv'
    BY <1>1 DEF KInv, RegionsInv, Overlaps
  <1>6. TurnInv'
    BY <1>1, <1>2 DEF KInv, TurnInv
  <1>7. RequestInv'
    BY <1>1, <1>3, <1>4 DEF RequestInv, NoReq
  <1>8. StackInv' /\ TempInv'
    BY <1>1, <1>4 DEF KInv, StackInv, TempInv
  <1> QED
    BY <1>5, <1>6, <1>7, <1>8 DEF KInv

\* The program's calls and their returns.
LEMMA ProgKeeps == ASSUME KInv, ProgCall \/ ProgReturn PROVE KInv'
  <1>1. /\ app = "running" /\ reply' = "none"
        /\ UNCHANGED <<main, app, rrm, lrm, stackP, temp, envMain, raised>>
    BY DEF ProgCall, ProgReturn, Call, maps, ldrVars
  <1>2. req'.op = "attach" => req'.base \in Nat /\ req'.size \in Nat /\ req'.kind \in Kinds
    <2>1. CASE ProgReturn
      BY <2>1 DEF ProgReturn, NoReq
    <2>2. CASE \E s \in Sizes, k \in {"mem", "reserved"} : Call(Attach(StackVma, s, TRUE, k))
      BY <2>2, Constants DEF Call, Attach, Kinds
    <2>3. CASE \E p \in Touched : Call(Detach(p)) \/ Call([op |-> "fault", at |-> p])
      BY <2>3 DEF Call, Detach
    <2> QED
      BY <2>1, <2>2, <2>3 DEF ProgCall
  <1>3. RegionsInv'
    BY <1>1 DEF KInv, RegionsInv, Overlaps
  <1>4. TurnInv'
    BY <1>1 DEF KInv, TurnInv
  <1>5. RequestInv'
    BY <1>1, <1>2 DEF RequestInv, After
  <1>6. StackInv' /\ TempInv'
    <2>1. UNCHANGED LoaderStack
      BY <1>1 DEF LoaderStack, At
    <2> QED
      BY <1>1, <2>1 DEF KInv, StackInv, TempInv
  <1> QED
    BY <1>3, <1>4, <1>5, <1>6 DEF KInv

\* Steps that change nothing the invariant speaks of.
LEMMA IdleKeeps ==
    ASSUME KInv,
           UNCHANGED <<main, app, rrm, lrm, stackP, temp, envMain, raised, req, reply>>
    PROVE  KInv'
  <1>1. /\ UNCHANGED LoaderStack /\ UNCHANGED At(temp, 1, "temp") /\ UNCHANGED NoReq
        /\ UNCHANGED LoaderCall /\ UNCHANGED DOMAIN After
    BY DEF LoaderStack, At, NoReq, LoaderCall, Attach, Detach, After
  <1>2. RegionsInv'
    BY DEF KInv, RegionsInv, Overlaps
  <1>3. TurnInv' /\ StackInv' /\ TempInv'
    BY <1>1 DEF KInv, TurnInv, StackInv, TempInv
  <1>4. RequestInv'
    BY <1>1 DEF KInv, RequestInv
  <1> QED
    BY <1>2, <1>3, <1>4 DEF KInv

-----------------------------------------------------------------------------
(* The theorems. *)

LEMMA KInvInit == Init => KInv
  <1> SUFFICES ASSUME Init PROVE KInv
    OBVIOUS
  <1>1. RegionsInv
    BY LayoutAssumption DEF Init, RegionsInv, Bounded, Region, Addr
  <1>2. TurnInv /\ StackInv /\ TempInv
    BY DEF Init, TurnInv, StackInv, TempInv
  <1>3. RequestInv
    BY DEF Init, RequestInv, NoReq, After
  <1> QED
    BY <1>1, <1>2, <1>3 DEF KInv

LEMMA KInvStep == KInv /\ [Next]_vars => KInv'
  <1> SUFFICES ASSUME KInv, [Next]_vars PROVE KInv'
    OBVIOUS
  <1>1. CASE MainStep
    BY <1>1, MainKeepsRegions, MainKeepsTurn, MainKeepsRequest, MainKeepsStack DEF KInv
  <1>2. CASE Serve
    BY <1>2, ServeAttachKeeps, ServeDetachKeeps, ServeFaultKeeps DEF Serve
  <1>3. CASE AppStep \/ ProgCall
    BY <1>3, LdrCallKeeps, LdrReturnKeeps, AddEnvKeeps, ProgKeeps DEF AppStep
  <1>4. CASE \E n \in 1..2 : Mmap(n)
    BY <1>4, IdleKeeps DEF Mmap, maps, ldrVars, ipc
  <1>5. CASE UNCHANGED vars
    BY <1>5, IdleKeeps DEF vars
  <1> QED
    BY <1>1, <1>2, <1>3, <1>4, <1>5 DEF Next

\* main of the l4re_kernel raises its own priority and never that of the application
\* thread, which replaces it in the env: the loader gets there only with answers that
\* main gives from its server loop.
THEOREM PrioIsOwn == Spec => []RaisesOwnPrio
  <1>1. KInv => RaisesOwnPrio
    BY DEF KInv, TurnInv, RaisesOwnPrio
  <1> QED
    BY <1>1, KInvInit, KInvStep, PTL DEF Spec

LEMMA DetachStep ==
    ASSUME KInv, [Next]_vars, app = "start", lrm' # lrm
    PROVE  lrm \ lrm' = {LoaderStack}
  <1>1. ServeDetach \/ ServeAttach
    <2>1. ~MainStep
      <3>1. main \in {"loop", "exited"}
        BY DEF KInv, TurnInv
      <3> QED
        BY <3>1 DEF MainStep, Tls, Aux, HeapInit, RmInit, InsertRegion, RegionsDone,
             InsertArea, AreasDone, LocalHeap, LoaderAlloc, LoaderAttach, LoaderShare,
             LoaderPush, LoaderThread, RaisePrio
    <2>2. ~AppStep /\ ~ProgCall /\ ~(\E n \in 1..2 : Mmap(n)) /\ ~ServeFault
      BY DEF AppStep, LdrCall, LdrReturn, AddEnv, ProgReturn, ProgCall, Mmap, ServeFault, maps
    <2> QED
      BY <2>1, <2>2 DEF Next, Serve, vars
  <1>2. req # NoReq /\ reply = "none"
    BY <1>1 DEF ServeDetach, ServeAttach, Pending
  <1>3. req = LoaderCall
    BY <1>2 DEF KInv, RequestInv, After
  <1>4. req = Detach(stackP + LoaderSize - 1)
    BY <1>3 DEF LoaderCall
  <1>5. req.op = "detach" /\ req.at = stackP + LoaderSize - 1
    BY <1>4 DEF Detach
  <1>6. lrm' = {r \in lrm : ~Contains(r, req.at)}
    BY <1>1, <1>5 DEF ServeDetach, ServeAttach
  <1>7. stackP \in Nat /\ LoaderStack \in lrm
    BY <1>2 DEF KInv, StackInv
  <1>8. Contains(LoaderStack, req.at)
    BY <1>5, <1>7, Constants DEF Contains, LoaderStack, At
  <1>9. ASSUME NEW r \in lrm, Contains(r, req.at) PROVE r = LoaderStack
    <2>1. r \in Bounded /\ LoaderStack \in Bounded /\ req.at \in Int
      BY <1>5, <1>7, Constants DEF KInv, RegionsInv
    <2>2. Overlaps(r, LoaderStack)
      BY <1>8, <1>9, <2>1 DEF Contains, Overlaps, Bounded
    <2> QED
      BY <1>7, <2>2 DEF KInv, RegionsInv
  <1> QED
    BY <1>6, <1>7, <1>8, <1>9

\* When unmap_stack_and_start gives back its stack, exactly that region leaves the map,
\* though the address it passes is only one page in it: whatever else is attached by
\* then lies elsewhere.
THEOREM StackDetached == Spec => OnlyStackDetached
  <1>1. KInv /\ [Next]_vars => [app = "start" /\ lrm' # lrm => lrm \ lrm' = {LoaderStack}]_vars
    BY DetachStep
  <1> QED
    BY <1>1, KInvInit, KInvStep, PTL DEF Spec, OnlyStackDetached

-----------------------------------------------------------------------------
(* The capability slots. *)

\* cap_alloc's slots follow the one of the TLS dataspace, and the application thread's
\* follows them, whatever cap_alloc has given out.
SlotInv ==
    /\ held \subseteq capBase..capBase + MaxCaps - 1
    /\ main = "tls" => freeCap = FirstCap /\ capBase = FirstCap /\ held = {}
    /\ main # "tls" => capBase = FirstCap + 1
    /\ main = "aux" => freeCap = FirstCap + 1
    /\ main \notin {"tls", "aux", "exited"} /\ app = "none" => freeCap = capBase + MaxCaps
    /\ app # "none" => appCap = capBase + MaxCaps /\ freeCap = appCap + 1

-----------------------------------------------------------------------------
(* The maps. *)

\* The remote map's regions are regions, not empty, and do not overlap; the areas of
\* both maps are areas.
RemoteInv ==
    /\ ram \subseteq Interval /\ lam \subseteq Interval
    /\ rrm \subseteq Region
    /\ \A r \in rrm : r.start <= r.end
    /\ \A a, b \in rrm : a # b => ~Overlaps(a, b)

\* insert_regions has dealt with the regions behind which addr is.
MirrorInv ==
    /\ addr \in Addr
    /\ main \in {"tls", "aux", "heap", "init"} => addr = 0
    /\ main = "regions" => \A r \in rrm \ lost : r.end < addr => Known(r)
    /\ RegionsMirrored

\* The place found for the loader stack is free of what both maps know.
ShareInv ==
    /\ main = "share" => /\ LoaderStack.end <= UserMax
                         /\ \A b \in (rrm \ lost) \cup lam : ~Overlaps(b, LoaderStack)
    /\ main = "push" => \/ ~stackDs \/ LoaderStack \in rrm
                        \/ \E r \in lost \cup (ram \ lam) : Overlaps(r, LoaderStack)
    /\ StackIsShared

MInv == KInv /\ SlotInv /\ RemoteInv /\ MirrorInv /\ ShareInv

\* Once the application thread runs, the main thread is past the map and its slots: the
\* steps of the loop and of the application thread leave them alone.
LEMMA LaterKeeps ==
    ASSUME MInv, Serve \/ AppStep \/ ProgCall \/ \E n \in 1..2 : Mmap(n)
    PROVE  RemoteInv' /\ MirrorInv' /\ ShareInv'
  <1>1. main \in {"prio", "loop", "exited"}
    <2>1. CASE Serve
      BY <2>1 DEF Serve, ServeAttach, ServeDetach, ServeFault, Pending
    <2>2. CASE AppStep \/ ProgCall \/ \E n \in 1..2 : Mmap(n)
      <3>1. app # "none"
        BY <2>2 DEF AppStep, LdrCall, LdrReturn, AddEnv, ProgReturn, ProgCall, Mmap, After
      <3> QED
        BY <3>1 DEF MInv, KInv, TurnInv
    <2> QED
      BY <2>1, <2>2
  <1>2. UNCHANGED <<rrm, ram, lam, addr>> /\ main' \in {main, "exited"}
    BY DEF Serve, ServeAttach, ServeDetach, ServeFault, AppStep, LdrCall, LdrReturn, AddEnv,
           ProgReturn, ProgCall, Mmap, ExitTask, maps
  <1>3. main' \in {"prio", "loop", "exited"}
    BY <1>1, <1>2
  <1>4. RemoteInv'
    BY <1>2 DEF MInv, RemoteInv, Overlaps
  <1>5. MirrorInv'
    BY <1>2, <1>3 DEF MInv, MirrorInv, RegionsMirrored
  <1>6. ShareInv'
    BY <1>3 DEF ShareInv, StackIsShared
  <1> QED
    BY <1>4, <1>5, <1>6

\* The slot that cap_alloc gives out is one of its own.
LEMMA GivenOut ==
    ASSUME SlotInv, FreeSlots # {}, capBase \in Nat
    PROVE  Min(FreeSlots) \in capBase..capBase + MaxCaps - 1
  <1>1. FreeSlots \subseteq Nat
    BY LayoutAssumption DEF FreeSlots
  <1>2. \E m \in FreeSlots : \A n \in FreeSlots : m <= n
    BY <1>1, LeastNat
  <1>3. Min(FreeSlots) \in FreeSlots
    BY <1>2 DEF Min
  <1> QED
    BY <1>3 DEF FreeSlots

LEMMA SlotStep == ASSUME MInv, [Next]_vars PROVE SlotInv'
  <1>1. FirstCap \in Nat /\ MaxCaps \in Nat
    BY LayoutAssumption
  <1>2. capBase \in Nat
    BY <1>1 DEF MInv, SlotInv
  <1>3. ASSUME NEW h, h = held \/ (FreeSlots # {} /\ h = held \cup {Min(FreeSlots)})
        PROVE  h \subseteq capBase..capBase + MaxCaps - 1
    BY <1>2, <1>3, GivenOut DEF MInv, SlotInv
  <1>4. CASE Tls
    BY <1>1, <1>4 DEF MInv, KInv, TurnInv, SlotInv, Tls, ExitTask
  <1>5. CASE Aux
    BY <1>1, <1>5 DEF MInv, KInv, TurnInv, SlotInv, Aux, ExitTask
  <1>6. CASE HeapInit \/ RmInit \/ LocalHeap \/ LoaderAlloc
    <2>1. /\ UNCHANGED <<freeCap, capBase, appCap>> /\ main \notin {"tls", "aux", "exited"}
          /\ app = "none" /\ app' = "none" /\ main' \notin {"tls", "aux"}
      BY <1>6 DEF HeapInit, RmInit, LocalHeap, LoaderAlloc, ExitTask, MInv, KInv, TurnInv
    <2>2. held' = held \/ (FreeSlots # {} /\ held' = held \cup {Min(FreeSlots)})
      BY <1>6 DEF HeapInit, RmInit, LocalHeap, LoaderAlloc, AllocCap
    <2>3. held' \subseteq capBase..capBase + MaxCaps - 1
      BY <1>3, <2>2
    <2> QED
      BY <2>1, <2>3 DEF MInv, SlotInv
  <1>7. CASE InsertRegion \/ RegionsDone \/ InsertArea \/ AreasDone \/ LoaderAttach
             \/ LoaderShare \/ LoaderPush \/ RaisePrio
    <2>1. /\ UNCHANGED <<freeCap, capBase, appCap, held, app>>
          /\ main \notin {"tls", "aux", "exited"} /\ main' \notin {"tls", "aux", "exited"}
      BY <1>7 DEF InsertRegion, RegionsDone, InsertArea, AreasDone, LoaderAttach, LoaderShare,
                  LoaderPush, RaisePrio, capVars
    <2> QED
      BY <2>1 DEF MInv, SlotInv
  <1>8. CASE LoaderThread
    <2>1. /\ appCap' = freeCap /\ freeCap' = freeCap + 1 /\ UNCHANGED <<capBase, held>>
          /\ main = "thread" /\ app = "none"
          /\ (main' = "exited" /\ app' = "none") \/ (main' = "prio" /\ app' = "bin")
      BY <1>8 DEF LoaderThread, ExitTask, MInv, KInv, TurnInv
    <2> QED
      BY <2>1 DEF MInv, SlotInv
  <1>9. CASE LdrReturn
    <2>1. UNCHANGED <<freeCap, capBase, appCap>> /\ app # "none" /\ main \in {"loop", "exited"}
      BY <1>9 DEF LdrReturn, MInv, KInv, TurnInv, After
    <2>2. \/ held' = held \/ (FreeSlots # {} /\ held' = held \cup {Min(FreeSlots)})
          \/ held' = held \ {capBase + 3}
      BY <1>9 DEF LdrReturn, AllocCap
    <2>3. held' \subseteq capBase..capBase + MaxCaps - 1
      BY <1>3, <2>2 DEF MInv, SlotInv
    <2>4. \/ main' = "exited" /\ app' = "none"
          \/ main' = main /\ app' # "none"
      BY <1>9 DEF LdrReturn, ExitTask, After
    <2> QED
      BY <2>1, <2>3, <2>4 DEF MInv, SlotInv
  <1>10. CASE Serve \/ LdrCall \/ AddEnv \/ ProgReturn \/ ProgCall \/ \E n \in 1..2 : Mmap(n)
    <2>1. UNCHANGED <<main, freeCap, capBase, appCap, held>>
      BY <1>10 DEF Serve, ServeAttach, ServeDetach, ServeFault, LdrCall, AddEnv, ProgReturn,
                   ProgCall, Mmap, capVars
    <2>2. app' = "none" <=> app = "none"
      <3>1. CASE ServeFault
        <4>1. app # "none"
          BY <3>1 DEF ServeFault, Pending, MInv, KInv, RequestInv
        <4> QED
          BY <3>1, <4>1 DEF ServeFault
      <3> QED
        BY <1>10, <3>1 DEF Serve, ServeAttach, ServeDetach, LdrCall, AddEnv, ProgReturn,
                   ProgCall, Mmap
    <2> QED
      BY <2>1, <2>2 DEF MInv, SlotInv
  <1>11. CASE UNCHANGED vars
    BY <1>11 DEF vars, MInv, SlotInv
  <1> QED
    BY <1>4, <1>5, <1>6, <1>7, <1>8, <1>9, <1>10, <1>11 DEF Next, MainStep, AppStep

-----------------------------------------------------------------------------
(* insert_regions, and the loader stack. *)

\* A region added where it fits is a region, and overlaps no other.
LEMMA RemoteAdd ==
    ASSUME RemoteInv, NEW a \in Nat, NEW size \in Nat \ {0}, NEW k \in Kinds,
           Fits(rrm, ram, At(a, size, k)), rrm' = rrm \cup {At(a, size, k)},
           UNCHANGED <<ram, lam>>
    PROVE  RemoteInv'
  <1>1. At(a, size, k).start = a /\ At(a, size, k).end = a + size - 1
        /\ At(a, size, k) = [start |-> a, end |-> a + size - 1, kind |-> k]
    BY DEF At
  <1>2. a + size - 1 <= UserMax /\ UserMax < Word /\ UserMax \in Nat /\ Word \in Nat
    BY <1>1, LayoutAssumption DEF Fits
  <1>3. At(a, size, k) \in Region
    BY <1>1, <1>2 DEF Region, Addr
  <1>4. \A b \in rrm : ~Overlaps(b, At(a, size, k))
    BY DEF Fits
  <1>5. At(a, size, k).start <= At(a, size, k).end
    BY <1>1
  <1> QED
    BY <1>3, <1>4, <1>5 DEF RemoteInv, Overlaps

\* The area that InsertArea deals with is one of the remote map.
LEMMA NextArea ==
    ASSUME RemoteInv, From(ram, addr) # {}
    PROVE  First(From(ram, addr)) \in Interval
  <1>1. From(ram, addr) \subseteq Interval /\ \A r \in From(ram, addr) : r.start \in Nat
    BY DEF RemoteInv, From, Interval, Addr
  <1> QED
    BY <1>1, FirstIsLeast

LEMMA RemoteStep == ASSUME MInv, MainStep PROVE RemoteInv'
  <1>0. RemoteInv
    BY DEF MInv
  <1>1. CASE UNCHANGED rrm /\ UNCHANGED ram /\ lam' \subseteq Interval
    BY <1>0, <1>1 DEF RemoteInv, Overlaps
  <1>2. CASE Tls
    <2> DEFINE a == FindFree(rrm, ram, TlsBase, 1)
    <2>1. CASE a # NoAddr /\ rrm' = rrm \cup {At(a, 1, "tls")}
      <3>1. a \in Nat /\ Fits(rrm, ram, At(a, 1, "tls"))
        BY <2>1, FoundIsNat, FoundFits, Constants
      <3>2. UNCHANGED <<ram, lam>>
        BY <1>2 DEF Tls
      <3> HIDE DEF a
      <3> QED
        BY <1>0, <2>1, <3>1, <3>2, RemoteAdd DEF Kinds
    <2> QED
      BY <1>0, <1>1, <1>2, <2>1 DEF Tls, RemoteInv
  <1>3. CASE HeapInit
    <2>1. UNCHANGED <<ram, lam>> /\ lam \subseteq Interval
      BY <1>0, <1>3 DEF HeapInit, RemoteInv
    <2> QED
      BY <1>0, <1>1, <1>3, <2>1, RemoteAdd, Constants DEF HeapInit, Kinds
  <1>4. CASE LoaderShare
    <2>1. stackP \in Nat /\ UNCHANGED <<ram, lam>> /\ lam \subseteq Interval
      BY <1>0, <1>4 DEF LoaderShare, MInv, KInv, StackInv, RemoteInv
    <2> QED
      BY <1>0, <1>1, <1>4, <2>1, RemoteAdd, Constants DEF LoaderShare, Kinds
  <1>5. CASE RmInit
    <2>1. KipReserved \cup {[start |-> 0, end |-> 0]} \subseteq Interval
      BY LayoutAssumption DEF Interval, Addr
    <2> QED
      BY <1>1, <1>5, <2>1 DEF RmInit
  <1>6. CASE InsertArea
    <2>1. PICK r : r = First(From(ram, addr)) /\ lam' \subseteq lam \cup {r}
      BY <1>6 DEF InsertArea
    <2>2. r \in Interval
      BY <1>0, <1>6, <2>1, NextArea DEF InsertArea
    <2>3. UNCHANGED <<rrm, ram>>
      BY <1>6 DEF InsertArea
    <2> QED
      BY <1>0, <1>1, <2>1, <2>2, <2>3 DEF RemoteInv
  <1>7. CASE ~(Tls \/ HeapInit \/ LoaderShare \/ RmInit \/ InsertArea)
    <2>1. UNCHANGED <<rrm, ram, lam>>
      BY <1>7 DEF MainStep, Aux, InsertRegion, RegionsDone, AreasDone,
           LocalHeap, LoaderAlloc, LoaderAttach, LoaderPush, LoaderThread, RaisePrio, maps
    <2> QED
      BY <1>0, <1>1, <2>1 DEF RemoteInv
  <1> QED
    BY <1>2, <1>3, <1>4, <1>5, <1>6, <1>7

\* What the local map knows it goes on knowing while it only grows.
LEMMA KnownGrows ==
    ASSUME NEW r, Known(r), lrm \subseteq lrm', lam \subseteq lam'
    PROVE  Known(r)'
  BY DEF Known


\* One turn of the loop: the region that addr goes behind, and no other.
LEMMA InsertKeeps == ASSUME MInv, InsertRegion PROVE MirrorInv'
  <1>0. /\ UNCHANGED <<main, rrm, lam>> /\ main = "regions" /\ From(rrm, addr) # {}
    BY DEF InsertRegion
  <1>1. /\ rrm \subseteq Bounded /\ RemoteInv /\ addr \in Addr
        /\ \A s \in rrm \ lost : s.end < addr => Known(s)
    BY <1>0 DEF MInv, KInv, RegionsInv, MirrorInv
  <1>2. PICK r : r = First(From(rrm, addr))
    OBVIOUS
  <1>3. r \in rrm /\ \A s \in rrm : s.end >= addr => r.start <= s.start
    <2>1. \A s \in From(rrm, addr) : s.start \in Nat
      BY <1>1 DEF From, Bounded
    <2> QED
      BY <1>0, <1>2, <2>1, FirstIsLeast DEF From
  <1>4. PICK c : c = [r EXCEPT !.kind = "pager"]
    OBVIOUS
  <1>5. /\ addr' = (r.end + 1) % Word
        /\ \/ lrm' = lrm \cup {c} /\ lost' = lost
           \/ lost' = lost \cup {r} /\ lrm' = lrm
    BY <1>2, <1>4 DEF InsertRegion, Advance
  <1>6. r \in Region /\ r.end \in 0..Word - 1 /\ Word \in Nat /\ Word > 0
    BY <1>1, <1>3, LayoutAssumption DEF RemoteInv, Region, Addr
  <1>7. addr' \in Addr /\ (addr' = 0 \/ addr' = r.end + 1)
    <2>1. CASE r.end = Word - 1
      <3>1. r.end + 1 = Word /\ Word % Word = 0
        BY <1>6, <2>1
      <3> QED
        BY <1>5, <1>6, <3>1 DEF Addr
    <2>2. CASE r.end # Word - 1
      <3>1. r.end + 1 \in 0..Word - 1
        BY <1>6, <2>2
      <3>2. (r.end + 1) % Word = r.end + 1
        BY <1>6, <3>1
      <3> QED
        BY <1>5, <3>1, <3>2 DEF Addr
    <2> QED
      BY <2>1, <2>2
  <1>8. c.start = r.start /\ c.end = r.end
    BY <1>4, <1>6 DEF Region
  <1>9. lrm \subseteq lrm' /\ lam \subseteq lam' /\ lost \subseteq lost'
    BY <1>0, <1>5
  <1>10. ASSUME NEW s \in rrm, s \notin lost', s.end < addr' PROVE Known(s)'
    <2>1. s \in Region /\ s.end \in Nat /\ s.start \in Nat /\ s.start <= s.end /\ s \notin lost
      BY <1>1, <1>9, <1>10 DEF RemoteInv, Region, Addr
    <2>2. r.start \in Nat /\ r.end \in Nat /\ addr \in Nat
      BY <1>1, <1>6 DEF Region, Addr
    <2>3. s.end <= r.end
      BY <1>7, <1>10, <2>1, <2>2
    <2>4. CASE s.end < addr
      BY <1>1, <1>9, <2>1, <2>4, KnownGrows
    <2>5. CASE ~(s.end < addr)
      <3>1. r.start <= s.start
        BY <1>3, <2>1, <2>2, <2>5
      <3>2. Overlaps(s, r)
        BY <2>1, <2>2, <2>3, <3>1 DEF Overlaps
      <3>3. s = r
        BY <1>1, <1>3, <3>2 DEF RemoteInv
      <3>4. c \in lrm'
        BY <1>5, <1>10, <3>3
      <3>5. \A p \in s.start..s.end : Contains(c, p)
        BY <1>8, <2>2, <3>3 DEF Contains
      <3> QED
        BY <3>4, <3>5 DEF Known
    <2> QED
      BY <2>4, <2>5
  <1> QED
    BY <1>0, <1>7, <1>10 DEF MirrorInv, RegionsMirrored

LEMMA MirrorStep == ASSUME MInv, MainStep PROVE MirrorInv'
  <1>0. MirrorInv /\ RemoteInv /\ addr \in Addr
    BY DEF MInv, MirrorInv
  <1>1. CASE Tls \/ Aux \/ HeapInit
    <2>1. UNCHANGED addr /\ main' \in {"aux", "heap", "init", "exited"} /\ addr = 0
      BY <1>0, <1>1 DEF Tls, Aux, HeapInit, ExitTask, MirrorInv
    <2> QED
      BY <1>0, <2>1 DEF MirrorInv, RegionsMirrored
  <1>2. CASE RmInit
    <2>1. UNCHANGED <<addr, rrm>> /\ main' = "regions" /\ addr = 0
      BY <1>0, <1>2 DEF RmInit, MirrorInv
    <2>2. \A r \in rrm : ~(r.end < 0)
      BY <1>0 DEF RemoteInv, Region, Addr
    <2> QED
      BY <1>0, <2>1, <2>2 DEF MirrorInv, RegionsMirrored
  <1>3. CASE InsertRegion
    BY <1>3, InsertKeeps
  <1>4. CASE RegionsDone
    <2>1. /\ UNCHANGED <<addr, rrm, lrm, lam, lost>> /\ main = "regions" /\ main' = "areas"
          /\ From(rrm, addr) = {}
      BY <1>4 DEF RegionsDone, maps
    <2>2. ASSUME NEW r \in rrm, r \notin lost PROVE Known(r)'
      <3>1. r.end \in Nat /\ addr \in Nat
        BY <1>0 DEF RemoteInv, Region, Addr
      <3>2. r.end < addr
        BY <2>1, <3>1 DEF From
      <3> QED
        BY <1>0, <2>1, <2>2, <3>2, KnownGrows DEF MirrorInv
    <2> QED
      BY <1>0, <2>1, <2>2 DEF MirrorInv, RegionsMirrored
  <1>5. CASE InsertArea
    <2>1. /\ UNCHANGED <<rrm, lrm, lost, main>> /\ main = "areas" /\ lam \subseteq lam'
      BY <1>5 DEF InsertArea
    <2>2. \A r \in rrm \ lost : Known(r)'
      BY <1>0, <2>1, KnownGrows DEF MirrorInv, RegionsMirrored
    <2>3. addr' \in Addr
      <3>1. PICK r : r = First(From(ram, addr)) /\ addr' = (r.end + 1) % Word
        BY <1>5 DEF InsertArea, Advance
      <3>2. r \in Interval
        BY <1>0, <1>5, <3>1, NextArea DEF InsertArea
      <3>3. r.end + 1 \in Nat /\ Word \in Nat \ {0}
        BY <3>2, LayoutAssumption DEF Interval, Addr
      <3> QED
        BY <3>1, <3>3 DEF Addr
    <2> QED
      BY <2>1, <2>2, <2>3 DEF MirrorInv, RegionsMirrored
  <1>6. CASE AreasDone \/ LocalHeap \/ LoaderAlloc
    <2>1. /\ UNCHANGED <<rrm, lam, lost, addr>> /\ main \in {"areas", "local", "alloc"}
          /\ lrm \subseteq lrm'
          /\ main' \in {"local", "alloc", "attach", "prio", "exited"}
      BY <1>6 DEF AreasDone, LocalHeap, LoaderAlloc, maps, ExitTask
    <2>2. \A r \in rrm \ lost : Known(r)'
      BY <1>0, <2>1, KnownGrows DEF MirrorInv, RegionsMirrored
    <2> QED
      BY <1>0, <2>1, <2>2 DEF MirrorInv, RegionsMirrored
  <1>7. CASE LoaderAttach \/ LoaderShare \/ LoaderPush \/ LoaderThread \/ RaisePrio
    <2>1. UNCHANGED addr /\ main' \in {"share", "push", "thread", "wild", "prio", "loop", "exited"}
      BY <1>7 DEF LoaderAttach, LoaderShare, LoaderPush, LoaderThread, RaisePrio, ExitTask
    <2> QED
      BY <1>0, <2>1 DEF MirrorInv, RegionsMirrored
  <1> QED
    BY <1>1, <1>2, <1>3, <1>4, <1>5, <1>6, <1>7 DEF MainStep

\* A place free in the local map overlaps no region that the local map knows.
LEMMA KnownKeepsOff ==
    ASSUME MInv, NEW b \in rrm, Known(b), NEW a \in Nat,
           Fits(lrm, lam, At(a, LoaderSize, "loader"))
    PROVE  ~Overlaps(b, At(a, LoaderSize, "loader"))
  <1> DEFINE s == At(a, LoaderSize, "loader")
  <1>1. PICK e \in Nat : e = a + LoaderSize - 1
    BY Constants
  <1>2. s.start = a /\ s.end = e /\ a <= e
    BY <1>1, Constants DEF At
  <1> HIDE DEF s
  <1>3. b.start \in Nat /\ b.end \in Nat /\ b.start <= b.end
    BY DEF MInv, RemoteInv, Region, Addr
  <1>4. e <= UserMax /\ UserMax \in Nat /\ \A c \in lrm \cup lam : ~Overlaps(c, s)
    BY <1>2, Constants DEF Fits, s
  <1> SUFFICES ASSUME Overlaps(b, s) PROVE FALSE
    BY DEF s
  <1>5. b.start <= e /\ a <= b.end
    BY <1>2 DEF Overlaps
  <1>6. PICK p \in Nat : p \in b.start..b.end /\ a <= p /\ p <= e
    <2>1. CASE b.start <= a
      BY <1>2, <1>3, <1>5, <2>1
    <2>2. CASE ~(b.start <= a)
      BY <1>2, <1>3, <1>5, <2>2
    <2> QED
      BY <2>1, <2>2
  <1>7. PICK c \in lrm \cup lam : Contains(c, p)
    BY <1>4, <1>6 DEF Known
  <1>8. c.start \in Int /\ c.end \in Int
    BY DEF MInv, KInv, RegionsInv, RemoteInv, Bounded, Interval, Addr
  <1>9. Overlaps(c, s)
    BY <1>2, <1>6, <1>7, <1>8 DEF Overlaps, Contains
  <1> QED
    BY <1>4, <1>9

LEMMA ShareStep == ASSUME MInv, MainStep PROVE ShareInv'
  <1>1. CASE LoaderAttach
    <2> DEFINE a == FindFree(lrm, lam, LoaderVma, LoaderSize)
    <2>1. CASE a # NoAddr /\ stackP' = a /\ main' = "share"
      <3>1. a \in Nat /\ Fits(lrm, lam, At(a, LoaderSize, "loader"))
        BY <2>1, FoundIsNat, FoundFits, Constants
      <3>2. UNCHANGED <<rrm, lam, lost>> /\ main = "attach"
        BY <1>1 DEF LoaderAttach
      <3> HIDE DEF a
      <3>3. LoaderStack' = At(a, LoaderSize, "loader")
        BY <2>1 DEF LoaderStack, At
      <3>4. \A b \in rrm \ lost : Known(b)
        BY <3>2 DEF MInv, MirrorInv, RegionsMirrored
      <3>5. \A b \in rrm \ lost : ~Overlaps(b, At(a, LoaderSize, "loader"))
        BY <3>1, <3>4, KnownKeepsOff
      <3>6. /\ At(a, LoaderSize, "loader").end <= UserMax
            /\ \A b \in lam : ~Overlaps(b, At(a, LoaderSize, "loader"))
        BY <3>1 DEF Fits
      <3>7. /\ LoaderStack'.end <= UserMax
            /\ \A b \in (rrm' \ lost') \cup lam' : ~Overlaps(b, LoaderStack')
        BY <3>2, <3>3, <3>5, <3>6
      <3> QED
        BY <2>1, <3>7 DEF ShareInv, StackIsShared, StackLost, Overlaps
    <2>2. CASE main' = "prio"
      BY <2>2 DEF ShareInv, StackIsShared
    <2> QED
      BY <1>1, <2>1, <2>2 DEF LoaderAttach
  <1>2. CASE LoaderShare
    <2>1. /\ main = "share" /\ main' = "push"
          /\ UNCHANGED <<ram, lam, lost, stackP, stackDs>>
          /\ rrm' = IF stackDs /\ Fits(rrm, ram, LoaderStack) THEN rrm \cup {LoaderStack} ELSE rrm
      BY <1>2 DEF LoaderShare, LoaderStack, ldrVars
    <2>2. UNCHANGED LoaderStack
      BY <2>1 DEF LoaderStack, At
    <2>3. /\ LoaderStack.end <= UserMax
          /\ \A b \in (rrm \ lost) \cup lam : ~Overlaps(b, LoaderStack)
      BY <2>1 DEF MInv, ShareInv
    <2>4. \/ ~stackDs \/ LoaderStack \in rrm'
          \/ \E r \in lost \cup (ram \ lam) : Overlaps(r, LoaderStack)
      BY <2>1, <2>3 DEF Fits
    <2> QED
      BY <2>1, <2>2, <2>4 DEF ShareInv, StackIsShared, StackLost, Overlaps
  <1>3. CASE LoaderPush
    <2>1. /\ main = "push" /\ UNCHANGED <<ram, lam, lost, stackP, stackDs>>
          /\ main' = IF LoaderStack \in rrm THEN "thread" ELSE "wild"
      BY <1>3 DEF LoaderPush, LoaderStack, maps, ldrVars
    <2>2. UNCHANGED LoaderStack
      BY <2>1 DEF LoaderStack, At
    <2>3. \/ ~stackDs \/ LoaderStack \in rrm
          \/ \E r \in lost \cup (ram \ lam) : Overlaps(r, LoaderStack)
      BY <2>1 DEF MInv, ShareInv
    <2> QED
      BY <2>1, <2>2, <2>3 DEF ShareInv, StackIsShared, StackLost, Overlaps
  <1>4. CASE ~(LoaderAttach \/ LoaderShare \/ LoaderPush)
    <2>1. main' \notin {"share", "push", "wild"}
      BY <1>4 DEF MainStep, Tls, Aux, HeapInit, RmInit, InsertRegion, RegionsDone, InsertArea,
           AreasDone, LocalHeap, LoaderAlloc, LoaderThread, RaisePrio, ExitTask
    <2> QED
      BY <2>1 DEF ShareInv, StackIsShared
  <1> QED
    BY <1>1, <1>2, <1>3, <1>4

\* Steps that change nothing the maps' invariants speak of.
LEMMA MapsIdle ==
    ASSUME MInv, UNCHANGED vars
    PROVE  RemoteInv' /\ MirrorInv' /\ ShareInv'
  <1>1. UNCHANGED <<main, rrm, ram, lrm, lam, addr, stackP, stackDs, lost>>
    BY DEF vars
  <1>2. RemoteInv' /\ MirrorInv'
    BY <1>1 DEF MInv, RemoteInv, MirrorInv, RegionsMirrored, Known, Overlaps, Contains
  <1>3. UNCHANGED LoaderStack
    BY <1>1 DEF LoaderStack, At
  <1> QED
    BY <1>1, <1>2, <1>3 DEF MInv, ShareInv, StackIsShared, StackLost, Overlaps

LEMMA MInvInit == Init => MInv
  <1> SUFFICES ASSUME Init PROVE MInv
    OBVIOUS
  <1>1. KInv
    BY KInvInit
  <1>2. SlotInv
    BY LayoutAssumption DEF Init, SlotInv
  <1>3. RemoteInv
    BY LayoutAssumption, RemoteAssumption DEF Init, RemoteInv
  <1>4. addr \in Addr
    BY LayoutAssumption DEF Init, Addr
  <1>5. MirrorInv /\ ShareInv
    BY <1>4 DEF Init, MirrorInv, RegionsMirrored, ShareInv, StackIsShared
  <1> QED
    BY <1>1, <1>2, <1>3, <1>5 DEF MInv

LEMMA MInvStep == MInv /\ [Next]_vars => MInv'
  <1> SUFFICES ASSUME MInv, [Next]_vars PROVE MInv'
    OBVIOUS
  <1>1. KInv' /\ SlotInv'
    BY KInvStep, SlotStep DEF MInv
  <1>2. RemoteInv' /\ MirrorInv' /\ ShareInv'
    <2>1. CASE MainStep
      BY <2>1, RemoteStep, MirrorStep, ShareStep
    <2>2. CASE UNCHANGED vars
      BY <2>2, MapsIdle
    <2> QED
      BY <2>1, <2>2, LaterKeeps DEF Next
  <1> QED
    BY <1>1, <1>2 DEF MInv

-----------------------------------------------------------------------------
(* The theorems about the slots and the maps. *)

\* cap_alloc never gives out the slot of the TLS dataspace or that of the application
\* thread, and the program's first free slot lies behind all of them, although nobody
\* enters cap_alloc's slots anywhere but in the position of first_free_cap.
THEOREM SlotsOfTheirOwn == Spec => []SlotsDistinct
  <1>1. MInv => SlotsDistinct
    <2> SUFFICES ASSUME MInv, app # "none" PROVE
          /\ appCap \notin held \cup FreeSlots \cup {FirstCap}
          /\ FirstCap \notin held \cup FreeSlots
          /\ \A c \in held \cup FreeSlots \cup {appCap} : c < freeCap
      BY DEF SlotsDistinct
    <2>1. main \in {"prio", "loop", "exited"}
      BY DEF MInv, KInv, TurnInv
    <2>2. PICK f \in Nat, m \in Nat : f = FirstCap /\ m = MaxCaps
      BY LayoutAssumption
    <2>3. capBase = f + 1 /\ appCap = f + 1 + m /\ freeCap = f + 2 + m
      BY <2>1, <2>2 DEF MInv, SlotInv
    <2>4. held \cup FreeSlots \subseteq f + 1..f + m
      BY <2>2, <2>3 DEF MInv, SlotInv, FreeSlots
    <2> QED
      BY <2>2, <2>3, <2>4
  <1> QED
    BY <1>1, MInvInit, MInvStep, PTL DEF Spec

\* insert_regions, which steps from each region to the page behind it, leaves none of the
\* remote map's regions out, whatever their number, order and size, but those for which
\* attach failed.
THEOREM MapIsMirrored == Spec => []RegionsMirrored
  <1>1. MInv => RegionsMirrored
    BY DEF MInv, MirrorInv
  <1> QED
    BY <1>1, MInvInit, MInvStep, PTL DEF Spec

\* When the main thread writes to the loader stack and the remote map has none there, the
\* memory was not allocated, a region had been lost, or an area passed over or refused: the place
\* that attach found in the local map was free in the remote one in every other case.
THEOREM StackInBothMaps == Spec => []StackIsShared
  <1>1. MInv => StackIsShared
    BY DEF MInv, ShareInv
  <1> QED
    BY <1>1, MInvInit, MInvStep, PTL DEF Spec
=============================================================================
