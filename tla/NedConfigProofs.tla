-------------------------- MODULE NedConfigProofs --------------------------
(***************************************************************************)
(* Proofs about NedConfig, for any libraries, tables and bounds.           *)
(***************************************************************************)
EXTENDS NedConfig, NatFacts, FiniteSetTheorems, SequenceTheorems, TLAPS

\* Where the two threads of the start handshake are with respect to each other: the
\* mutex is unlocked once, by the new thread, and destroyed by main after that.
StartInv ==
    /\ main \in {"static", "construct", "relock", "libs", "ned", "ready", "dead"}
    /\ main \in {"static", "construct"} => mutex = "none" /\ thread = "none"
    /\ main = "relock" => /\ mutex \in {"held", "free"} /\ thread # "none"
                          /\ mutex = "free" => thread = "loop"
    /\ main \in {"libs", "ned", "ready", "dead"} => mutex = "gone" /\ thread = "loop"
    /\ thread \in {"unlock", "loop"} => registry

\* The static constructors and main's steps.
LEMMA BootKeeps == StartInv /\ Boot => StartInv'
  <1> SUFFICES ASSUME StartInv, Boot PROVE StartInv'
    OBVIOUS
  <1>1. CASE \E l \in Libs : StaticInit(l)
    BY <1>1 DEF StaticInit, StartInv
  <1>2. CASE ServerStart
    BY <1>2 DEF ServerStart, StartInv
  <1>3. CASE ServerRelock
    BY <1>3 DEF ServerRelock, StartInv
  <1>4. CASE InitLib
    BY <1>4 DEF InitLib, StartInv
  <1>5. CASE LoadNed
    BY <1>5 DEF LoadNed, StartInv
  <1> QED
    BY <1>1, <1>2, <1>3, <1>4, <1>5 DEF Boot

\* Server::run up to its loop.
LEMMA ThreadKeeps == StartInv /\ Thread => StartInv'
  BY DEF StartInv, Thread, ThreadRegistry, ThreadUnlock

\* The script and the start of a program leave the start's state alone.
LEMMA ScriptKeepsBoot == Script => UNCHANGED bootVars
  <1> SUFFICES ASSUME Script PROVE UNCHANGED bootVars
    OBVIOUS
  <1>1. CASE Exec
    BY <1>1 DEF Exec
  <1>2. CASE \E n \in Names : Assign(n) \/ CallQuery(n) \/ Index(n)
    BY <1>2 DEF Assign, CallQuery, Index, Step
  <1>3. CASE \E n \in Names, c \in {"Namespace", "Gate"} : Create(n, c)
    BY <1>3 DEF Create, Step
  <1>4. CASE \E m, n \in Names : Mode(m, n)
    BY <1>4 DEF Mode, Step
  <1>5. CASE \E m, n \in Names, c \in Classes : Cast(m, n, c)
    BY <1>5 DEF Cast, Step
  <1>6. CASE \E x \in Keys, n \in Names : RegisterObject(x, n) \/ RegisterQuery(x, n)
    BY <1>6 DEF RegisterObject, RegisterQuery, Step
  <1>7. CASE \E x \in Keys : RegisterString(x)
    BY <1>7 DEF RegisterString, Step
  <1> QED
    BY <1>1, <1>2, <1>3, <1>4, <1>5, <1>6, <1>7 DEF Script

LEMMA StartInvStep == StartInv /\ [Next]_vars => StartInv'
  <1> SUFFICES ASSUME StartInv, [Next]_vars PROVE StartInv'
    OBVIOUS
  <1>1. CASE Boot
    BY <1>1, BootKeeps
  <1>2. CASE Thread
    BY <1>2, ThreadKeeps
  <1>3. CASE UNCHANGED bootVars
    BY <1>3 DEF bootVars, StartInv
  <1>4. CASE Script
    BY <1>3, <1>4, ScriptKeepsBoot
  <1>5. CASE Launch
    <2>1. UNCHANGED bootVars
      BY <1>5 DEF Launch, PushInitialCaps, MapBase, MapInitialCaps
    <2> QED
      BY <2>1, <1>3
  <1>6. CASE Collect
    <2>1. UNCHANGED bootVars
      BY <1>6 DEF Collect
    <2> QED
      BY <2>1, <1>3
  <1>7. CASE \E x \in Keys : ForeignRegister(x)
    <2>1. UNCHANGED bootVars
      BY <1>7 DEF ForeignRegister
    <2> QED
      BY <2>1, <1>3
  <1>8. CASE UNCHANGED vars
    BY <1>8, <1>3 DEF vars, bootVars
  <1> QED
    BY <1>1, <1>2, <1>4, <1>5, <1>6, <1>7, <1>8 DEF Next

\* Server::Server returns only when the server thread has set up its registry, and it
\* destroys the mutex only when the thread has unlocked it, in every order of the two
\* threads' steps.
THEOREM HandshakeHolds == Spec => []Handshake
  <1>1. Init => StartInv
    BY DEF Init, StartInv
  <1>2. StartInv => Handshake
    BY DEF StartInv, Handshake
  <1> QED
    BY <1>1, <1>2, StartInvStep, PTL DEF Spec

-----------------------------------------------------------------------------
(* Objects, slots and classes, as a relation between values: every operation *)
(* of the script is a composition of a few changes, none of which breaks it. *)

Handles == [slot : Slots, rights : SUBSET (Base \cup Ext), env : Objs]
KernelCaps == (0..MaxK) \X SUBSET (Base \cup Ext)
LiveIn(O) == {o \in Objs : O[o] # Dead}
UsersIn(O, s) == {o \in LiveIn(O) : O[o].slot = s}

\* The types of obj, class, slot, _refs, the leaked slots and casts.
HeapTypes(O, C, S, R, L, X) ==
    /\ O \in [Objs -> Handles \cup {Dead}] /\ C \in [Objs -> Classes \cup {"Gate", "none"}]
    /\ S \in [Slots -> Entries] /\ R \in [Slots -> Nat] /\ L \subseteq Slots /\ X \subseteq Objs

\* A slot has the references of its live objects, and a capability if there are any.
Counted(O, S, R, L) ==
    /\ IsFiniteSet(LiveIn(O))
    /\ \A s \in Slots : /\ R[s] = Cardinality(UsersIn(O, s))
                        /\ R[s] > 0 => S[s] \in KernelCaps /\ s \notin L

\* Objects that share their environment are clones and share the slot.
Shared(O) == \A o, p \in LiveIn(O) : O[o].env = O[p].env => O[o].slot = O[p].slot

\* A class that no cast has given is that of the kernel object.
Classed(O, C, S, K, X) ==
    \A o \in LiveIn(O) : O[o].env \notin X => C[O[o].env] \in {"none", K[S[O[o].slot][1]]}

Sound(O, C, S, R, L, K, X) ==
    HeapTypes(O, C, S, R, L, X) /\ Counted(O, S, R, L) /\ Shared(O) /\ Classed(O, C, S, K, X)

\* The value Dead belongs to no slot.
LEMMA DeadIsNone == Dead \notin Handles /\ Nothing \notin KernelCaps /\ KernelCaps \subseteq Entries
  BY BoundAssumption DEF Dead, Handles, Nothing, KernelCaps, Entries

\* A live object is a handle, and its slot is counted, holds a capability and is not lost.
LEMMA LiveIsCounted ==
    ASSUME NEW O, NEW C, NEW S, NEW R, NEW L, NEW K, NEW X, Sound(O, C, S, R, L, K, X),
           NEW o \in LiveIn(O)
    PROVE  /\ O[o] \in Handles /\ O[o].slot \in Slots /\ R[O[o].slot] > 0
           /\ S[O[o].slot] \in KernelCaps /\ O[o].slot \notin L
  <1>1. O[o] \in Handles /\ O[o].slot \in Slots
    BY DEF Sound, HeapTypes, LiveIn, Handles
  <1>2. o \in UsersIn(O, O[o].slot) /\ UsersIn(O, O[o].slot) \subseteq LiveIn(O)
    BY DEF UsersIn
  <1>3. IsFiniteSet(UsersIn(O, O[o].slot))
    BY <1>2, FS_Subset DEF Sound, Counted
  <1>4. Cardinality(UsersIn(O, O[o].slot)) # 0 /\ Cardinality(UsersIn(O, O[o].slot)) \in Nat
    BY <1>2, <1>3, FS_EmptySet, FS_CardinalityType
  <1>5. R[O[o].slot] > 0
    BY <1>1, <1>4 DEF Sound, Counted
  <1> QED
    BY <1>1, <1>5 DEF Sound, Counted

\* What is left when the objects in G are gone.
ObjLeft(O, G) == [o \in Objs |-> IF o \in G THEN Dead ELSE O[o]]
RefsLeft(O, R, G) == [s \in Slots |-> R[s] - Cardinality({o \in G : O[o].slot = s})]
SlotLeft(O, S, R, G) ==
    [s \in Slots |-> IF R[s] > 0 /\ RefsLeft(O, R, G)[s] = 0 THEN Nothing ELSE S[s]]

\* The collector: the objects in G go, and with their last reference what is in a slot.
LEMMA SweepSound ==
    ASSUME NEW O, NEW C, NEW S, NEW R, NEW L, NEW K, NEW X, Sound(O, C, S, R, L, K, X),
           NEW G, G \subseteq LiveIn(O)
    PROVE  /\ Sound(ObjLeft(O, G), C, SlotLeft(O, S, R, G), RefsLeft(O, R, G), L, K, X)
           /\ \A s \in Slots : R[s] = 0 => RefsLeft(O, R, G)[s] = 0
  <1>1. PICK O2, R2, S2 : O2 = ObjLeft(O, G) /\ R2 = RefsLeft(O, R, G) /\ S2 = SlotLeft(O, S, R, G)
    OBVIOUS
  <1>2. \A o \in Objs : O2[o] = IF o \in G THEN Dead ELSE O[o]
    BY <1>1 DEF ObjLeft
  <1>3. \A s \in Slots : R2[s] = R[s] - Cardinality({o \in G : O[o].slot = s})
    BY <1>1 DEF RefsLeft
  <1>4. \A s \in Slots : S2[s] = IF R[s] > 0 /\ R2[s] = 0 THEN Nothing ELSE S[s]
    BY <1>1 DEF SlotLeft
  <1>5. LiveIn(O2) = LiveIn(O) \ G
    BY <1>2 DEF LiveIn
  <1>6. IsFiniteSet(LiveIn(O)) /\ IsFiniteSet(LiveIn(O2))
    BY <1>5, FS_Subset DEF Sound, Counted
  <1>7. \A o \in LiveIn(O2) : o \in LiveIn(O) /\ O2[o] = O[o]
    BY <1>5, <1>2 DEF LiveIn
  <1>8. ASSUME NEW s \in Slots
        PROVE  /\ R2[s] = Cardinality(UsersIn(O2, s)) /\ R2[s] \in Nat
               /\ R[s] = 0 => R2[s] = 0
    <2> DEFINE U == UsersIn(O, s)
               V == {o \in G : O[o].slot = s}
    <2>1. V \subseteq U /\ U \subseteq LiveIn(O)
      BY DEF UsersIn
    <2>2. IsFiniteSet(U) /\ IsFiniteSet(V)
      BY <1>6, <2>1, FS_Subset
    <2>3. UsersIn(O2, s) = U \ V
      BY <1>5, <1>7 DEF UsersIn
    <2>4. /\ Cardinality(U \ V) = Cardinality(U) - Cardinality(U \cap V)
          /\ IsFiniteSet(U \ V)
      BY <2>2, FS_Difference
    <2>5. U \cap V = V
      BY <2>1
    <2>6. R[s] = Cardinality(U) /\ R2[s] = R[s] - Cardinality(V)
      BY <1>3 DEF Sound, Counted
    <2>7. Cardinality(U \ V) \in Nat /\ Cardinality(U) \in Nat /\ Cardinality(V) \in Nat
      BY <2>2, <2>4, FS_CardinalityType
    <2>8. PICK a \in Nat, b \in Nat, c \in Nat :
            a = Cardinality(U) /\ b = Cardinality(V) /\ c = Cardinality(U \ V)
      BY <2>7
    <2>9. c = a - b
      BY <2>4, <2>5, <2>8
    <2>10. R2[s] = a - b /\ R[s] = a
      BY <2>6, <2>8
    <2>11. Cardinality(UsersIn(O2, s)) = c
      BY <2>3, <2>8
    <2> QED
      BY <2>8, <2>9, <2>10, <2>11
  <1>9. HeapTypes(O2, C, S2, R2, L, X)
    <2>1. R2 \in [Slots -> Nat]
      <3>1. \A s \in Slots : R[s] - Cardinality({o \in G : O[o].slot = s}) \in Nat
        BY <1>8, <1>3
      <3> QED
        BY <1>1, <3>1 DEF RefsLeft
    <2>2. S2 \in [Slots -> Entries]
      <3>1. \A s \in Slots : S[s] \in Entries
        BY DEF Sound, HeapTypes
      <3>2. Nothing \in Entries
        BY DEF Entries
      <3> QED
        BY <1>1, <3>1, <3>2 DEF SlotLeft
    <2>3. O2 \in [Objs -> Handles \cup {Dead}]
      BY <1>1 DEF Sound, HeapTypes, ObjLeft
    <2> QED
      BY <2>1, <2>2, <2>3 DEF Sound, HeapTypes
  <1>10. ASSUME NEW s \in Slots, R2[s] > 0 PROVE S2[s] = S[s] /\ S[s] \in KernelCaps /\ s \notin L
    <2>1. R[s] # 0 /\ R[s] \in Nat
      <3>1. R[s] \in Nat
        BY DEF Sound, HeapTypes
      <3>2. R[s] # 0
        BY <1>8, <1>10
      <3> QED
        BY <3>1, <3>2
    <2>2. R[s] > 0
      BY <2>1
    <2> QED
      BY <1>10, <1>4, <2>1, <2>2 DEF Sound, Counted
  <1>11. Counted(O2, S2, R2, L)
    BY <1>6, <1>8, <1>10 DEF Counted
  <1>12. Shared(O2)
    BY <1>7 DEF Sound, Shared
  <1>13. Classed(O2, C, S2, K, X)
    <2> SUFFICES ASSUME NEW o \in LiveIn(O2), O2[o].env \notin X
                 PROVE  C[O2[o].env] \in {"none", K[S2[O2[o].slot][1]]}
      BY DEF Classed
    <2>1. o \in LiveIn(O) /\ O2[o] = O[o]
      BY <1>7
    <2>2. O[o].slot \in Slots
      BY <2>1, LiveIsCounted
    <2>3. R2[O[o].slot] > 0
      <3>1. o \in UsersIn(O2, O[o].slot) /\ UsersIn(O2, O[o].slot) \subseteq LiveIn(O2)
        BY <2>1 DEF UsersIn
      <3>2. IsFiniteSet(UsersIn(O2, O[o].slot))
        BY <1>6, <3>1, FS_Subset
      <3>3. Cardinality(UsersIn(O2, O[o].slot)) # 0
        BY <3>1, <3>2, FS_EmptySet
      <3>4. R2[O[o].slot] # 0 /\ R2[O[o].slot] \in Nat
        BY <1>8, <2>2, <3>3
      <3> QED
        BY <3>4
    <2>4. S2[O[o].slot] = S[O[o].slot]
      BY <1>10, <2>2, <2>3
    <2> QED
      BY <2>1, <2>4 DEF Sound, Classed
  <1> QED
    BY <1>1, <1>8, <1>9, <1>11, <1>12, <1>13 DEF Sound

\* An object more: the slot it uses has one user more.
OneMore(O, P, o, h) ==
    /\ P \in [Objs -> Handles \cup {Dead}] /\ P[o] = h
    /\ LiveIn(P) = LiveIn(O) \cup {o} /\ o \notin LiveIn(O) /\ IsFiniteSet(LiveIn(P))
    /\ \A p \in LiveIn(O) : P[p] = O[p]
    /\ \A s \in Slots : Cardinality(UsersIn(P, s)) =
                          Cardinality(UsersIn(O, s)) + IF s = h.slot THEN 1 ELSE 0

LEMMA NewIsOneMore ==
    ASSUME NEW O, O \in [Objs -> Handles \cup {Dead}], IsFiniteSet(LiveIn(O)),
           NEW o \in Objs, O[o] = Dead, NEW h \in Handles
    PROVE  OneMore(O, [O EXCEPT ![o] = h], o, h)
  <1> DEFINE P == [O EXCEPT ![o] = h]
  <1>1. P \in [Objs -> Handles \cup {Dead}] /\ P[o] = h
    OBVIOUS
  <1>2. \A p \in Objs : P[p] = IF p = o THEN h ELSE O[p]
    OBVIOUS
  <1>3. h # Dead
    BY DeadIsNone
  <1> HIDE DEF P
  <1>4. LiveIn(P) = LiveIn(O) \cup {o} /\ o \notin LiveIn(O)
    BY <1>2, <1>3 DEF LiveIn
  <1>5. \A p \in LiveIn(O) : P[p] = O[p]
    BY <1>2, <1>4 DEF LiveIn
  <1>6. IsFiniteSet(LiveIn(P))
    <2>1. IsFiniteSet(LiveIn(O) \cup {o})
      BY FS_AddElement
    <2> QED
      BY <1>4, <2>1
  <1>7. ASSUME NEW s \in Slots
        PROVE  Cardinality(UsersIn(P, s)) = Cardinality(UsersIn(O, s)) + IF s = h.slot THEN 1 ELSE 0
    <2>1. UsersIn(O, s) \subseteq LiveIn(O) /\ o \notin UsersIn(O, s)
      BY <1>4 DEF UsersIn
    <2>2. IsFiniteSet(UsersIn(O, s))
      BY <2>1, FS_Subset
    <2>3. Cardinality(UsersIn(O, s)) \in Nat
      BY <2>2, FS_CardinalityType
    <2>4. CASE s = h.slot
      <3>1. UsersIn(P, s) = UsersIn(O, s) \cup {o}
        BY <1>1, <1>4, <1>5, <2>4 DEF UsersIn
      <3>2. Cardinality(UsersIn(O, s) \cup {o}) = Cardinality(UsersIn(O, s)) + 1
        BY <2>1, <2>2, FS_AddElement
      <3> QED
        BY <2>4, <3>1, <3>2
    <2>5. CASE s # h.slot
      <3>1. UsersIn(P, s) = UsersIn(O, s)
        BY <1>1, <1>4, <1>5, <2>5 DEF UsersIn
      <3> QED
        BY <2>3, <2>5, <3>1
    <2> QED
      BY <2>4, <2>5
  <1>8. OneMore(O, P, o, h)
    BY <1>1, <1>4, <1>5, <1>6, <1>7 DEF OneMore
  <1> QED
    BY <1>8 DEF P

\* A new object o for the capability e, in a slot that nobody uses.
LEMMA AddSound ==
    ASSUME NEW O, NEW C, NEW S, NEW R, NEW L, NEW K, NEW X, Sound(O, C, S, R, L, K, X),
           NEW o \in Objs, O[o] = Dead, \A p \in LiveIn(O) : O[p].env # o,
           NEW s \in Slots, R[s] = 0, s \notin L, NEW e \in KernelCaps,
           NEW r \in SUBSET (Base \cup Ext), NEW c \in Classes \cup {"Gate", "none"},
           c \in {"none", K[e[1]]}
    PROVE  Sound([O EXCEPT ![o] = [slot |-> s, rights |-> r, env |-> o]], [C EXCEPT ![o] = c],
                 [S EXCEPT ![s] = e], [R EXCEPT ![s] = 1], L, K, X \ {o})
  <1>1. PICK h, O2 : h = [slot |-> s, rights |-> r, env |-> o] /\ O2 = [O EXCEPT ![o] = h]
    OBVIOUS
  <1>2. PICK C2, S2, R2 : C2 = [C EXCEPT ![o] = c] /\ S2 = [S EXCEPT ![s] = e]
                          /\ R2 = [R EXCEPT ![s] = 1]
    OBVIOUS
  <1>3. HeapTypes(O, C, S, R, L, X) /\ Counted(O, S, R, L) /\ Shared(O) /\ Classed(O, C, S, K, X)
    BY DEF Sound
  <1>4. h \in Handles /\ h.slot = s /\ h.env = o
    BY <1>1 DEF Handles
  <1>5. O \in [Objs -> Handles \cup {Dead}] /\ IsFiniteSet(LiveIn(O))
    BY <1>3 DEF HeapTypes, Counted
  <1>6. /\ O2 \in [Objs -> Handles \cup {Dead}] /\ O2[o] = h
        /\ LiveIn(O2) = LiveIn(O) \cup {o} /\ o \notin LiveIn(O) /\ IsFiniteSet(LiveIn(O2))
        /\ \A p \in LiveIn(O) : O2[p] = O[p]
        /\ \A t \in Slots : Cardinality(UsersIn(O2, t)) =
                              Cardinality(UsersIn(O, t)) + IF t = h.slot THEN 1 ELSE 0
    <2>1. OneMore(O, [O EXCEPT ![o] = h], o, h)
      BY <1>4, <1>5, NewIsOneMore
    <2>2. OneMore(O, O2, o, h)
      BY <1>1, <2>1
    <2> QED
      BY <2>2 DEF OneMore
  <1>7. \A p \in LiveIn(O) : O[p].slot # s /\ O[p].slot \in Slots
    <2> SUFFICES ASSUME NEW p \in LiveIn(O) PROVE O[p].slot # s /\ O[p].slot \in Slots
      OBVIOUS
    <2>1. R[O[p].slot] > 0 /\ O[p].slot \in Slots
      BY LiveIsCounted
    <2> QED
      BY <2>1
  <1>8. /\ R2[s] = 1 /\ S2[s] = e
        /\ \A t \in Slots : t # s => R2[t] = R[t] /\ S2[t] = S[t]
    BY <1>2, <1>3 DEF HeapTypes
  <1>9. HeapTypes(O2, C2, S2, R2, L, X \ {o})
    <2>1. C2 \in [Objs -> Classes \cup {"Gate", "none"}] /\ R2 \in [Slots -> Nat]
      BY <1>2, <1>3 DEF HeapTypes
    <2>2. S2 \in [Slots -> Entries]
      BY <1>2, <1>3, DeadIsNone DEF HeapTypes
    <2> QED
      BY <1>3, <1>6, <2>1, <2>2 DEF HeapTypes
  <1>10. Counted(O2, S2, R2, L)
    <2> SUFFICES ASSUME NEW t \in Slots
                 PROVE  R2[t] = Cardinality(UsersIn(O2, t)) /\ (R2[t] > 0 => S2[t] \in KernelCaps /\ t \notin L)
      BY <1>6 DEF Counted
    <2>1. R[t] = Cardinality(UsersIn(O, t)) /\ R[t] \in Nat
      BY <1>3 DEF Counted, HeapTypes
    <2>2. CASE t = s
      BY <1>4, <1>6, <1>8, <2>1, <2>2
    <2>3. CASE t # s
      <3>1. R2[t] = Cardinality(UsersIn(O2, t))
        BY <1>4, <1>6, <1>8, <2>1, <2>3
      <3> QED
        BY <1>3, <1>8, <2>3, <3>1 DEF Counted
    <2> QED
      BY <2>2, <2>3
  <1>11. Shared(O2)
    BY <1>3, <1>4, <1>6 DEF Shared
  <1>12. Classed(O2, C2, S2, K, X \ {o})
    <2> SUFFICES ASSUME NEW p \in LiveIn(O2), O2[p].env \notin X \ {o}
                 PROVE  C2[O2[p].env] \in {"none", K[S2[O2[p].slot][1]]}
      BY DEF Classed
    <2>1. CASE p = o
      <3>1. C2[o] = c
        BY <1>2, <1>3 DEF HeapTypes
      <3> QED
        BY <1>4, <1>6, <1>8, <2>1, <3>1
    <2>2. CASE p # o
      <3>1. p \in LiveIn(O) /\ O2[p] = O[p] /\ O[p].env # o
        BY <1>6, <2>2
      <3>2. O[p].env \in Objs
        BY <3>1, LiveIsCounted DEF Handles
      <3>3. C2[O[p].env] = C[O[p].env]
        BY <1>2, <1>3, <3>1, <3>2 DEF HeapTypes
      <3>4. S2[O[p].slot] = S[O[p].slot]
        BY <1>7, <1>8, <3>1
      <3>5. C[O[p].env] \in {"none", K[S[O[p].slot][1]]}
        BY <1>3, <3>1 DEF Classed
      <3> QED
        BY <3>1, <3>3, <3>4, <3>5
    <2> QED
      BY <2>1, <2>2
  <1> QED
    BY <1>1, <1>2, <1>9, <1>10, <1>11, <1>12 DEF Sound

\* An object more that uses the slot of a live one: the counts stay right.
LEMMA ShareCounted ==
    ASSUME NEW O, NEW C, NEW S, NEW R, NEW L, NEW K, NEW X, Sound(O, C, S, R, L, K, X),
           NEW a \in LiveIn(O), NEW o \in Objs, O[o] = Dead, NEW h \in Handles, h.slot = O[a].slot
    PROVE  /\ [R EXCEPT ![O[a].slot] = @ + 1] \in [Slots -> Nat]
           /\ Counted([O EXCEPT ![o] = h], S, [R EXCEPT ![O[a].slot] = @ + 1], L)
  <1>1. PICK s \in Slots : s = O[a].slot /\ R[s] > 0 /\ S[s] \in KernelCaps /\ s \notin L
    BY LiveIsCounted
  <1>2. PICK O2, R2 : O2 = [O EXCEPT ![o] = h] /\ R2 = [R EXCEPT ![s] = @ + 1]
    OBVIOUS
  <1>3. HeapTypes(O, C, S, R, L, X) /\ Counted(O, S, R, L)
    BY DEF Sound
  <1>4. /\ IsFiniteSet(LiveIn(O2))
        /\ \A t \in Slots : Cardinality(UsersIn(O2, t)) =
                              Cardinality(UsersIn(O, t)) + IF t = h.slot THEN 1 ELSE 0
    <2>1. O \in [Objs -> Handles \cup {Dead}] /\ IsFiniteSet(LiveIn(O))
      BY <1>3 DEF HeapTypes, Counted
    <2>2. OneMore(O, [O EXCEPT ![o] = h], o, h)
      BY <2>1, NewIsOneMore
    <2>3. OneMore(O, O2, o, h)
      BY <1>2, <2>2
    <2> QED
      BY <2>3 DEF OneMore
  <1>5. R \in [Slots -> Nat]
    BY <1>3 DEF HeapTypes
  <1>6. R2 \in [Slots -> Nat] /\ R2[s] = R[s] + 1 /\ \A t \in Slots : t # s => R2[t] = R[t]
    BY <1>2, <1>5
  <1>7. Counted(O2, S, R2, L)
    <2> SUFFICES ASSUME NEW t \in Slots
                 PROVE  R2[t] = Cardinality(UsersIn(O2, t)) /\ (R2[t] > 0 => S[t] \in KernelCaps /\ t \notin L)
      BY <1>4 DEF Counted
    <2>1. R[t] = Cardinality(UsersIn(O, t)) /\ R[t] \in Nat
      BY <1>3, <1>5 DEF Counted
    <2>2. CASE t = s
      <3>1. R2[t] = R[t] + 1 /\ Cardinality(UsersIn(O2, t)) = Cardinality(UsersIn(O, t)) + 1
        BY <1>1, <1>4, <1>6, <2>2
      <3> QED
        BY <1>1, <2>1, <2>2, <3>1
    <2>3. CASE t # s
      <3>1. R2[t] = R[t] /\ Cardinality(UsersIn(O2, t)) = Cardinality(UsersIn(O, t)) + 0
        BY <1>1, <1>4, <1>6, <2>3
      <3>2. R2[t] = Cardinality(UsersIn(O2, t))
        BY <2>1, <3>1
      <3> QED
        BY <1>3, <3>1, <3>2 DEF Counted
    <2> QED
      BY <2>2, <2>3
  <1> QED
    BY <1>1, <1>2, <1>6, <1>7

\* A clone: the same slot, the same environment table, other rights.
LEMMA CloneSound ==
    ASSUME NEW O, NEW C, NEW S, NEW R, NEW L, NEW K, NEW X, Sound(O, C, S, R, L, K, X),
           NEW a \in LiveIn(O), NEW o \in Objs, O[o] = Dead, NEW r \in SUBSET (Base \cup Ext)
    PROVE  Sound([O EXCEPT ![o] = [O[a] EXCEPT !.rights = r]], C, S,
                 [R EXCEPT ![O[a].slot] = @ + 1], L, K, X)
  <1>1. PICK h, O2 : h = [O[a] EXCEPT !.rights = r] /\ O2 = [O EXCEPT ![o] = h]
    OBVIOUS
  <1>2. HeapTypes(O, C, S, R, L, X) /\ Counted(O, S, R, L) /\ Shared(O) /\ Classed(O, C, S, K, X)
    BY DEF Sound
  <1>3. h \in Handles /\ h.slot = O[a].slot /\ h.env = O[a].env
    <2>1. O[a] \in Handles
      BY LiveIsCounted
    <2> QED
      BY <1>1, <2>1 DEF Handles
  <1>4. OneMore(O, O2, o, h)
    <2>1. O \in [Objs -> Handles \cup {Dead}] /\ IsFiniteSet(LiveIn(O))
      BY <1>2 DEF HeapTypes, Counted
    <2>2. OneMore(O, [O EXCEPT ![o] = h], o, h)
      BY <1>3, <2>1, NewIsOneMore
    <2> QED
      BY <1>1, <2>2
  <1>5. PICK R2 : R2 = [R EXCEPT ![O[a].slot] = @ + 1]
    OBVIOUS
  <1>6. R2 \in [Slots -> Nat] /\ Counted(O2, S, R2, L)
    <2>1. /\ [R EXCEPT ![O[a].slot] = @ + 1] \in [Slots -> Nat]
          /\ Counted([O EXCEPT ![o] = h], S, [R EXCEPT ![O[a].slot] = @ + 1], L)
      BY <1>3, ShareCounted
    <2> QED
      BY <1>1, <1>5, <2>1
  <1>7. HeapTypes(O2, C, S, R2, L, X)
    BY <1>2, <1>4, <1>6 DEF HeapTypes, OneMore
  <1>8. /\ \A p \in LiveIn(O) : O2[p] = O[p]
        /\ O2[o] = h /\ LiveIn(O2) = LiveIn(O) \cup {o}
    BY <1>4 DEF OneMore
  <1>9. \A p \in LiveIn(O2) : \E q \in LiveIn(O) : O2[p].env = O[q].env /\ O2[p].slot = O[q].slot
    BY <1>3, <1>8
  <1>10. Shared(O2)
    BY <1>2, <1>9 DEF Shared
  <1>11. Classed(O2, C, S, K, X)
    BY <1>2, <1>9 DEF Classed
  <1> QED
    BY <1>1, <1>5, <1>6, <1>7, <1>10, <1>11 DEF Sound

\* A cast: the same slot, an environment table of its own with the class c.
LEMMA CastSound ==
    ASSUME NEW O, NEW C, NEW S, NEW R, NEW L, NEW K, NEW X, Sound(O, C, S, R, L, K, X),
           NEW a \in LiveIn(O), NEW o \in Objs, O[o] = Dead, \A p \in LiveIn(O) : O[p].env # o,
           NEW c \in Classes
    PROVE  Sound([O EXCEPT ![o] = [O[a] EXCEPT !.env = o]], [C EXCEPT ![o] = c], S,
                 [R EXCEPT ![O[a].slot] = @ + 1], L, K, X \cup {o})
  <1>1. PICK h, O2 : h = [O[a] EXCEPT !.env = o] /\ O2 = [O EXCEPT ![o] = h]
    OBVIOUS
  <1>2. HeapTypes(O, C, S, R, L, X) /\ Counted(O, S, R, L) /\ Shared(O) /\ Classed(O, C, S, K, X)
    BY DEF Sound
  <1>3. h \in Handles /\ h.slot = O[a].slot /\ h.env = o
    <2>1. O[a] \in Handles
      BY LiveIsCounted
    <2> QED
      BY <1>1, <2>1 DEF Handles
  <1>4. OneMore(O, O2, o, h)
    <2>1. O \in [Objs -> Handles \cup {Dead}] /\ IsFiniteSet(LiveIn(O))
      BY <1>2 DEF HeapTypes, Counted
    <2>2. OneMore(O, [O EXCEPT ![o] = h], o, h)
      BY <1>3, <2>1, NewIsOneMore
    <2> QED
      BY <1>1, <2>2
  <1>5. PICK R2, C2 : R2 = [R EXCEPT ![O[a].slot] = @ + 1] /\ C2 = [C EXCEPT ![o] = c]
    OBVIOUS
  <1>6. R2 \in [Slots -> Nat] /\ Counted(O2, S, R2, L)
    <2>1. /\ [R EXCEPT ![O[a].slot] = @ + 1] \in [Slots -> Nat]
          /\ Counted([O EXCEPT ![o] = h], S, [R EXCEPT ![O[a].slot] = @ + 1], L)
      BY <1>3, ShareCounted
    <2> QED
      BY <1>1, <1>5, <2>1
  <1>7. HeapTypes(O2, C2, S, R2, L, X \cup {o})
    <2>1. C2 \in [Objs -> Classes \cup {"Gate", "none"}]
      BY <1>2, <1>5 DEF HeapTypes
    <2> QED
      BY <1>2, <1>4, <1>6, <2>1 DEF HeapTypes, OneMore
  <1>8. /\ \A p \in LiveIn(O) : O2[p] = O[p]
        /\ O2[o] = h /\ LiveIn(O2) = LiveIn(O) \cup {o}
    BY <1>4 DEF OneMore
  <1>9. \A p \in LiveIn(O2) : O2[p].env # o => p \in LiveIn(O) /\ O2[p] = O[p]
    BY <1>3, <1>8
  <1>10. \A p \in LiveIn(O2) : O2[p].env = o => p = o
    BY <1>3, <1>8
  <1>11. Shared(O2)
    BY <1>2, <1>9, <1>10 DEF Shared
  <1>12. Classed(O2, C2, S, K, X \cup {o})
    <2> SUFFICES ASSUME NEW p \in LiveIn(O2), O2[p].env \notin X \cup {o}
                 PROVE  C2[O2[p].env] \in {"none", K[S[O2[p].slot][1]]}
      BY DEF Classed
    <2>1. p \in LiveIn(O) /\ O2[p] = O[p] /\ O[p].env # o
      BY <1>9
    <2>2. C2[O[p].env] = C[O[p].env]
      <3>1. O[p].env \in Objs
        BY <2>1, LiveIsCounted DEF Handles
      <3> QED
        BY <1>2, <1>5, <2>1, <3>1 DEF HeapTypes
    <2> QED
      BY <1>2, <2>1, <2>2 DEF Classed
  <1> QED
    BY <1>1, <1>5, <1>6, <1>7, <1>11, <1>12 DEF Sound

\* A slot that nobody uses is lost.
LEMMA LeakSound ==
    ASSUME NEW O, NEW C, NEW S, NEW R, NEW L, NEW K, NEW X, Sound(O, C, S, R, L, K, X),
           NEW s \in Slots, R[s] = 0
    PROVE  Sound(O, C, S, R, L \cup {s}, K, X)
  <1>1. HeapTypes(O, C, S, R, L \cup {s}, X)
    BY DEF Sound, HeapTypes
  <1>2. Counted(O, S, R, L \cup {s})
    BY DEF Sound, Counted
  <1> QED
    BY <1>1, <1>2 DEF Sound

\* An object finds out its class, and so do its clones.
LEMMA ClassSound ==
    ASSUME NEW O, NEW C, NEW S, NEW R, NEW L, NEW K, NEW X, Sound(O, C, S, R, L, K, X),
           NEW a \in LiveIn(O), K[S[O[a].slot][1]] \in Classes
    PROVE  Sound(O, [C EXCEPT ![O[a].env] = K[S[O[a].slot][1]]], S, R, L, K, X)
  <1>1. PICK C2 : C2 = [C EXCEPT ![O[a].env] = K[S[O[a].slot][1]]]
    OBVIOUS
  <1>2. O[a].env \in Objs
    BY LiveIsCounted DEF Handles
  <1>3. HeapTypes(O, C, S, R, L, X) /\ Shared(O) /\ Classed(O, C, S, K, X)
    BY DEF Sound
  <1>4. C2 \in [Objs -> Classes \cup {"Gate", "none"}]
    BY <1>1, <1>3 DEF HeapTypes
  <1>5. HeapTypes(O, C2, S, R, L, X)
    BY <1>3, <1>4 DEF HeapTypes
  <1>6. Classed(O, C2, S, K, X)
    <2> SUFFICES ASSUME NEW p \in LiveIn(O), O[p].env \notin X
                 PROVE  C2[O[p].env] \in {"none", K[S[O[p].slot][1]]}
      BY DEF Classed
    <2>1. O[p].env \in Objs
      BY LiveIsCounted DEF Handles
    <2>2. CASE O[p].env = O[a].env
      <3>1. O[p].slot = O[a].slot
        BY <1>3, <2>2 DEF Shared
      <3>2. C2[O[a].env] = K[S[O[a].slot][1]]
        BY <1>1, <1>2, <1>3 DEF HeapTypes
      <3> QED
        BY <2>2, <3>1, <3>2
    <2>3. CASE O[p].env # O[a].env
      <3>1. C2[O[p].env] = C[O[p].env]
        BY <1>1, <1>3, <2>1, <2>3 DEF HeapTypes
      <3> QED
        BY <1>3, <3>1 DEF Classed
    <2> QED
      BY <2>2, <2>3
  <1> QED
    BY <1>1, <1>5, <1>6 DEF Sound

\* A new kernel object gets its class.
LEMMA KernelSound ==
    ASSUME NEW O, NEW C, NEW S, NEW R, NEW L, NEW K, NEW X, Sound(O, C, S, R, L, K, X),
           NEW T, K \in [0..MaxK -> T], NEW k \in 0..MaxK, K[k] = "none", NEW c
    PROVE  Sound(O, C, S, R, L, [K EXCEPT ![k] = c], X)
  <1>1. PICK K2 : K2 = [K EXCEPT ![k] = c]
    OBVIOUS
  <1>2. Classed(O, C, S, K2, X)
    <2> SUFFICES ASSUME NEW p \in LiveIn(O), O[p].env \notin X
                 PROVE  C[O[p].env] \in {"none", K2[S[O[p].slot][1]]}
      BY DEF Classed
    <2>1. PICK j \in 0..MaxK : j = S[O[p].slot][1]
      <3>1. S[O[p].slot] \in KernelCaps
        BY LiveIsCounted
      <3> QED
        BY <3>1 DEF KernelCaps
    <2>2. C[O[p].env] \in {"none", K[j]}
      BY <2>1 DEF Sound, Classed
    <2>3. CASE j = k
      BY <2>2, <2>3
    <2>4. CASE j # k
      BY <1>1, <2>1, <2>2, <2>4
    <2> QED
      BY <2>3, <2>4
  <1> QED
    BY <1>1, <1>2 DEF Sound

-----------------------------------------------------------------------------
(* Every step of Ned keeps the heap sound. *)

\* The kernel objects that exist are the first ones, and an object's class is known for
\* no other.
KernelInv ==
    /\ kclass \in [0..MaxK -> {"none", "Gate", "Log", "Namespace"}]
    /\ \E n \in 0..MaxK : \A k \in 1..MaxK : kclass[k] # "none" <=> k <= n

HeapInv ==
    /\ Sound(obj, class, slot, refs, leaked, kclass, casts)
    /\ KernelInv
    /\ ns \in [Keys -> Entries] /\ classes \subseteq Classes

\* A factory makes a kernel object that did not exist.
LEMMA NextIsNew ==
    ASSUME KernelInv, NextK <= MaxK
    PROVE  NextK \in 1..MaxK /\ kclass[NextK] = "none"
  <1>1. PICK n \in 0..MaxK : \A k \in 1..MaxK : kclass[k] # "none" <=> k <= n
    BY DEF KernelInv
  <1>2. n \in Nat /\ MaxK \in Nat
    BY BoundAssumption
  <1>3. {k \in 1..MaxK : kclass[k] # "none"} = 1..n
    BY <1>1, <1>2
  <1>4. Cardinality(1..n) = n
    BY <1>2, FS_Interval
  <1>5. NextK = n + 1
    BY <1>3, <1>4 DEF NextK
  <1> QED
    BY <1>1, <1>2, <1>5

LEMMA KernelInvStep ==
    ASSUME KernelInv, NextK <= MaxK, NEW c \in {"Gate", "Log", "Namespace"},
           kclass' = [kclass EXCEPT ![NextK] = c]
    PROVE  KernelInv'
  <1>1. PICK n \in 0..MaxK : \A k \in 1..MaxK : kclass[k] # "none" <=> k <= n
    BY DEF KernelInv
  <1>2. n \in Nat /\ MaxK \in Nat
    BY BoundAssumption
  <1>3. {k \in 1..MaxK : kclass[k] # "none"} = 1..n
    BY <1>1, <1>2
  <1>4. Cardinality(1..n) = n
    BY <1>2, FS_Interval
  <1>5. NextK = n + 1
    BY <1>3, <1>4 DEF NextK
  <1>6. n + 1 \in 0..MaxK
    BY <1>2, <1>5
  <1>7. kclass' \in [0..MaxK -> {"none", "Gate", "Log", "Namespace"}]
    BY <1>5, <1>6 DEF KernelInv
  <1>8. \A k \in 1..MaxK : kclass'[k] = IF k = n + 1 THEN c ELSE kclass[k]
    BY <1>2, <1>5, <1>6 DEF KernelInv
  <1>9. \A k \in 1..MaxK : kclass'[k] # "none" <=> k <= n + 1
    BY <1>1, <1>2, <1>8
  <1> QED
    BY <1>6, <1>7, <1>9 DEF KernelInv

LEMMA LeastIsIn == ASSUME NEW S, S \subseteq Nat, S # {} PROVE Min(S) \in S
  BY LeastNat DEF Min

LEMMA SlotIsFree ==
    ASSUME FreeSlots # {}
    PROVE  Min(FreeSlots) \in Slots /\ refs[Min(FreeSlots)] = 0 /\ Min(FreeSlots) \notin leaked
  <1>1. FreeSlots \subseteq Nat
    BY BoundAssumption DEF FreeSlots
  <1>2. Min(FreeSlots) \in FreeSlots
    BY <1>1, LeastIsIn
  <1> QED
    BY <1>2 DEF FreeSlots

LEMMA ObjectIsFresh ==
    ASSUME FreshObjs # {}
    PROVE  /\ Min(FreshObjs) \in Objs /\ obj[Min(FreshObjs)] = Dead
           /\ \A p \in Live : obj[p].env # Min(FreshObjs)
  <1>1. FreshObjs \subseteq Nat
    BY BoundAssumption DEF FreshObjs
  <1>2. Min(FreshObjs) \in FreshObjs
    BY <1>1, LeastIsIn
  <1> QED
    BY <1>2 DEF FreshObjs

LEMMA SweepKeeps ==
    ASSUME NEW K, Sound(obj, class, slot, refs, leaked, K, casts), NEW G, G \subseteq Live, Sweep(G)
    PROVE  /\ Sound(obj', class, slot', refs', leaked, K, casts)
           /\ \A s \in Slots : refs[s] = 0 => refs'[s] = 0
  <1>1. Live = LiveIn(obj)
    BY DEF Live, LiveIn
  <1>2. /\ obj' = ObjLeft(obj, G) /\ refs' = RefsLeft(obj, refs, G)
        /\ slot' = SlotLeft(obj, slot, refs, G)
    BY DEF Sweep, ObjAfter, RefsAfter, SlotAfter, ObjLeft, RefsLeft, SlotLeft
  <1> QED
    BY <1>1, <1>2, SweepSound

LEMMA NewObjectKeeps ==
    ASSUME NEW K, Sound(obj, class, slot, refs, leaked, K, casts), NEW e \in KernelCaps,
           NEW R \in SUBSET (Base \cup Ext), NEW c \in Classes \cup {"Gate", "none"},
           c \in {"none", K[e[1]]}, NEW G, G \subseteq Live, NewObject(e, R, c, G)
    PROVE  Sound(obj', class', slot', refs', leaked', K, casts')
  <1>1. Live = LiveIn(obj)
    BY DEF Live, LiveIn
  <1>2. PICK s \in Slots : s = Min(FreeSlots) /\ refs[s] = 0 /\ s \notin leaked
    BY SlotIsFree DEF NewObject
  <1>3. PICK o \in Objs : o = Min(FreshObjs) /\ obj[o] = Dead /\ \A p \in Live : obj[p].env # o
    BY ObjectIsFresh DEF NewObject
  <1>4. PICK O2, R2, S2 : O2 = ObjLeft(obj, G) /\ R2 = RefsLeft(obj, refs, G)
                          /\ S2 = SlotLeft(obj, slot, refs, G)
    OBVIOUS
  <1>5. ObjAfter(G) = O2 /\ RefsAfter(G) = R2 /\ SlotAfter(G) = S2
    BY <1>4 DEF ObjAfter, RefsAfter, SlotAfter, ObjLeft, RefsLeft, SlotLeft
  <1>6. Sound(O2, class, S2, R2, leaked, K, casts) /\ R2[s] = 0
    BY <1>1, <1>2, <1>4, SweepSound
  <1>7. O2[o] = Dead /\ \A p \in LiveIn(O2) : O2[p].env # o
    BY <1>3, <1>4 DEF ObjLeft, LiveIn, Live
  <1>8. /\ obj' = [O2 EXCEPT ![o] = [slot |-> s, rights |-> R \cup {"r"}, env |-> o]]
        /\ class' = [class EXCEPT ![o] = c] /\ refs' = [R2 EXCEPT ![s] = 1]
        /\ slot' = [S2 EXCEPT ![s] = e] /\ casts' = casts \ {o} /\ leaked' = leaked
    BY <1>2, <1>3, <1>5 DEF NewObject
  <1>9. PICK r \in SUBSET (Base \cup Ext) : r = R \cup {"r"}
    BY DEF Base
  <1>10. Sound([O2 EXCEPT ![o] = [slot |-> s, rights |-> r, env |-> o]], [class EXCEPT ![o] = c],
               [S2 EXCEPT ![s] = e], [R2 EXCEPT ![s] = 1], leaked, K, casts \ {o})
    BY <1>2, <1>6, <1>7, AddSound
  <1> QED
    BY <1>8, <1>9, <1>10

LEMMA LeakKeeps ==
    ASSUME NEW K, Sound(obj, class, slot, refs, leaked, K, casts), FreeSlots # {}, Leak
    PROVE  Sound(obj', class', slot', refs', leaked', K, casts')
  <1>1. PICK s \in Slots : s = Min(FreeSlots) /\ refs[s] = 0
    BY SlotIsFree
  <1> QED
    BY <1>1, LeakSound DEF Leak

\* Most steps leave the classes of kernel objects and the table of classes alone.
LEMMA HeapMoves ==
    ASSUME HeapInv, Sound(obj', class', slot', refs', leaked', kclass, casts'),
           kclass' = kclass, classes' = classes, ns' \in [Keys -> Entries]
    PROVE  HeapInv'
  <1>1. KernelInv'
    BY DEF HeapInv, KernelInv
  <1> QED
    BY <1>1 DEF HeapInv

LEMMA HeapRests ==
    ASSUME HeapInv, UNCHANGED heapVars
    PROVE  Sound(obj', class', slot', refs', leaked', kclass, casts')
  BY DEF HeapInv, heapVars

\* The kernel objects in a reachable handle.
LEMMA GrantedIsEntry ==
    ASSUME HeapInv, NEW o \in Reachable
    PROVE  /\ o \in LiveIn(obj) /\ Granted(o) \in KernelCaps /\ Given(o) \in KernelCaps
           /\ slot[obj[o].slot] \in KernelCaps
  <1>1. o \in LiveIn(obj)
    BY DEF Reachable, Live, LiveIn
  <1>2. Sound(obj, class, slot, refs, leaked, kclass, casts)
    BY DEF HeapInv
  <1>3. slot[obj[o].slot] \in KernelCaps
    BY <1>1, <1>2, LiveIsCounted
  <1>4. PICK k \in 0..MaxK, r \in SUBSET (Base \cup Ext) : slot[obj[o].slot] = <<k, r>>
    BY <1>3 DEF KernelCaps
  <1>5. Granted(o) \in KernelCaps /\ Granted(o)[1] = k /\ Granted(o)[2] \in SUBSET (Base \cup Ext)
    BY <1>4 DEF Granted, KernelCaps
  <1> QED
    BY <1>1, <1>3, <1>5 DEF Given, KernelCaps

LEMMA FoundKeeps ==
    ASSUME HeapInv, NEW x \in Keys, NEW R \in Modes, LookupFound(x, R)
    PROVE  /\ Sound(obj', class', slot', refs', leaked', kclass, casts')
           /\ ns[x] \in KernelCaps
  <1>1. ns[x] \in KernelCaps
    BY DEF HeapInv, LookupFound, Entries, KernelCaps
  <1>2. Garbage \subseteq Live
    BY DEF Garbage
  <1>3. R \in SUBSET (Base \cup Ext)
    BY BoundAssumption
  <1>4. NewObject(ns[x], R, "none", Garbage)
    BY DEF LookupFound
  <1>5. Sound(obj, class, slot, refs, leaked, kclass, casts)
    BY DEF HeapInv
  <1> QED
    BY <1>1, <1>2, <1>3, <1>4, <1>5, NewObjectKeeps

LEMMA CollectKeeps ==
    ASSUME HeapInv, CollectAll
    PROVE  Sound(obj', class', slot', refs', leaked', kclass, casts')
  <1>1. Garbage \subseteq Live /\ Sweep(Garbage)
    BY DEF Garbage, CollectAll
  <1>2. Sound(obj, class, slot, refs, leaked, kclass, casts)
    BY DEF HeapInv
  <1>3. Sound(obj', class, slot', refs', leaked, kclass, casts)
    BY <1>1, <1>2, SweepKeeps
  <1> QED
    BY <1>3 DEF CollectAll

LEMMA ErrorKeeps ==
    ASSUME HeapInv, NEW x \in Keys, LookupError(x)
    PROVE  Sound(obj', class', slot', refs', leaked', kclass, casts')
  <1>1. CASE UNCHANGED heapVars
    BY <1>1, HeapRests
  <1>2. CASE /\ FreeSlots # {} /\ Sweep(Garbage) /\ leaked' = leaked \cup {Min(FreeSlots)}
             /\ UNCHANGED <<class, casts>>
    <2>1. Garbage \subseteq Live
      BY DEF Garbage
    <2>2. PICK s \in Slots : s = Min(FreeSlots) /\ refs[s] = 0
      BY <1>2, SlotIsFree
    <2>3. Sound(obj, class, slot, refs, leaked, kclass, casts)
      BY DEF HeapInv
    <2>4. Sound(obj', class, slot', refs', leaked, kclass, casts) /\ refs'[s] = 0
      BY <1>2, <2>1, <2>2, <2>3, SweepKeeps
    <2>5. Sound(obj', class, slot', refs', leaked \cup {s}, kclass, casts)
      BY <2>4, LeakSound
    <2> QED
      BY <1>2, <2>2, <2>5
  <1> QED
    BY <1>1, <1>2 DEF LookupError

LEMMA CreateKeeps ==
    ASSUME HeapInv, NEW n \in Names, NEW c \in {"Namespace", "Gate"}, Create(n, c)
    PROVE  HeapInv'
  <1>1. classes' = classes /\ ns' = ns
    BY DEF Create, Step, bootVars
  <1>2. Sound(obj, class, slot, refs, leaked, kclass, casts) /\ KernelInv /\ ns \in [Keys -> Entries]
    BY DEF HeapInv
  <1>3. CASE /\ NextK <= MaxK
             /\ NewObject(<<NextK, Base>>, {}, IF c \in classes THEN c ELSE "none", {})
             /\ kclass' = [kclass EXCEPT ![NextK] = c]
    <2>1. NextK \in 1..MaxK /\ kclass[NextK] = "none" /\ MaxK \in Nat
      BY <1>2, <1>3, NextIsNew, BoundAssumption
    <2>2. KernelInv'
      BY <1>2, <1>3, KernelInvStep
    <2>3. PICK k \in 0..MaxK : k = NextK /\ kclass[k] = "none"
      BY <2>1
    <2>4. Sound(obj, class, slot, refs, leaked, kclass', casts)
      BY <1>2, <1>3, <2>3, KernelSound DEF KernelInv
    <2>5. PICK e \in KernelCaps, d \in Classes \cup {"Gate", "none"} :
             e = <<k, Base>> /\ d = (IF c \in classes THEN c ELSE "none")
      BY DEF KernelCaps, Classes
    <2>6. kclass'[e[1]] = c
      BY <1>2, <1>3, <2>3, <2>5 DEF KernelInv
    <2>7. d \in {"none", kclass'[e[1]]}
      BY <2>5, <2>6
    <2>8. NewObject(e, {}, d, {})
      BY <1>3, <2>3, <2>5
    <2>9. Sound(obj', class', slot', refs', leaked', kclass', casts')
      BY <2>4, <2>7, <2>8, NewObjectKeeps
    <2> QED
      BY <1>1, <1>2, <2>2, <2>9 DEF HeapInv
  <1>4. CASE FreeSlots # {} /\ Leak /\ kclass' = kclass
    <2>1. Sound(obj', class', slot', refs', leaked', kclass, casts')
      BY <1>2, <1>4, LeakKeeps
    <2> QED
      BY <1>1, <1>2, <1>4, <2>1, HeapMoves
  <1>5. CASE UNCHANGED <<kclass, heapVars>>
    BY <1>1, <1>2, <1>5, HeapRests, HeapMoves
  <1> QED
    BY <1>3, <1>4, <1>5 DEF Create

LEMMA ModeKeeps ==
    ASSUME HeapInv, NEW m \in Names, NEW n \in Names, Mode(m, n)
    PROVE  HeapInv'
  <1>1. classes' = classes /\ ns' \in [Keys -> Entries] /\ kclass' = kclass
    BY DEF Mode, Step, bootVars, HeapInv
  <1>2. Sound(obj, class, slot, refs, leaked, kclass, casts)
    BY DEF HeapInv
  <1>3. PICK a \in Reachable,
             R \in {M \cup {"r"} : M \in Modes} \cup {(Base \cup Ext) \ {"n"}} : SetRights(a, n, R)
    BY DEF Mode
  <1>4. CASE UNCHANGED heapVars
    BY <1>1, <1>4, HeapRests, HeapMoves
  <1>5. CASE /\ FreshObjs # {}
             /\ obj' = [obj EXCEPT ![Min(FreshObjs)] = [obj[a] EXCEPT !.rights = R \cup {"r"}]]
             /\ refs' = [refs EXCEPT ![obj[a].slot] = @ + 1]
             /\ UNCHANGED <<class, slot, leaked, casts>>
    <2>1. PICK o \in Objs : o = Min(FreshObjs) /\ obj[o] = Dead
      BY <1>5, ObjectIsFresh
    <2>2. PICK r \in SUBSET (Base \cup Ext) : r = R \cup {"r"}
      BY BoundAssumption DEF Base
    <2>3. a \in LiveIn(obj)
      BY GrantedIsEntry
    <2>4. Sound([obj EXCEPT ![o] = [obj[a] EXCEPT !.rights = r]], class, slot,
                [refs EXCEPT ![obj[a].slot] = @ + 1], leaked, kclass, casts)
      BY <1>2, <2>1, <2>3, CloneSound
    <2>5. Sound(obj', class', slot', refs', leaked', kclass, casts')
      BY <1>5, <2>1, <2>2, <2>4
    <2> QED
      BY <1>1, <2>5, HeapMoves
  <1> QED
    BY <1>3, <1>4, <1>5 DEF SetRights

LEMMA CastKeeps ==
    ASSUME HeapInv, NEW m \in Names, NEW n \in Names, NEW c \in Classes, Cast(m, n, c)
    PROVE  HeapInv'
  <1>1. classes' = classes /\ ns' \in [Keys -> Entries] /\ kclass' = kclass
    BY DEF Cast, Step, bootVars, HeapInv
  <1>2. Sound(obj, class, slot, refs, leaked, kclass, casts)
    BY DEF HeapInv
  <1>3. PICK a \in Reachable : CastObject(a, n, c) \/ UNCHANGED heapVars
    BY DEF Cast
  <1>4. CASE UNCHANGED heapVars
    BY <1>1, <1>4, HeapRests, HeapMoves
  <1>5. CASE CastObject(a, n, c)
    <2>1. PICK o \in Objs : o = Min(FreshObjs) /\ obj[o] = Dead /\ \A p \in Live : obj[p].env # o
      BY <1>5, ObjectIsFresh DEF CastObject
    <2>2. a \in LiveIn(obj) /\ Live = LiveIn(obj)
      BY GrantedIsEntry DEF Live, LiveIn
    <2>3. Sound([obj EXCEPT ![o] = [obj[a] EXCEPT !.env = o]], [class EXCEPT ![o] = c], slot,
                [refs EXCEPT ![obj[a].slot] = @ + 1], leaked, kclass, casts \cup {o})
      BY <1>2, <2>1, <2>2, CastSound
    <2>4. Sound(obj', class', slot', refs', leaked', kclass, casts')
      BY <1>5, <2>1, <2>3 DEF CastObject
    <2> QED
      BY <1>1, <2>4, HeapMoves
  <1> QED
    BY <1>3, <1>4, <1>5

LEMMA IndexKeeps ==
    ASSUME HeapInv, NEW m \in Names, Index(m)
    PROVE  HeapInv'
  <1>1. classes' = classes /\ ns' \in [Keys -> Entries] /\ kclass' = kclass
    BY DEF Index, Step, bootVars, HeapInv
  <1>2. Sound(obj, class, slot, refs, leaked, kclass, casts) /\ classes \subseteq Classes
    BY DEF HeapInv
  <1>3. PICK a \in Reachable : /\ kclass[slot[obj[a].slot][1]] \in classes
                               /\ class' = [class EXCEPT ![obj[a].env] = kclass[slot[obj[a].slot][1]]]
    BY DEF Index
  <1>4. a \in LiveIn(obj)
    BY GrantedIsEntry
  <1>5. kclass[slot[obj[a].slot][1]] \in Classes
    BY <1>2, <1>3
  <1>6. Sound(obj, class', slot, refs, leaked, kclass, casts)
    BY <1>2, <1>3, <1>4, <1>5, ClassSound
  <1>7. Sound(obj', class', slot', refs', leaked', kclass, casts')
    BY <1>6 DEF Index
  <1> QED
    BY <1>1, <1>7, HeapMoves

LEMMA CallQueryKeeps ==
    ASSUME HeapInv, NEW n \in Names, CallQuery(n)
    PROVE  HeapInv'
  <1>1. classes' = classes /\ ns' \in [Keys -> Entries] /\ kclass' = kclass
    BY DEF CallQuery, Step, bootVars, HeapInv
  <1>2. PICK x \in Keys, R \in Modes : LookupFound(x, R) \/ LookupMissing(x) \/ LookupError(x)
    BY DEF CallQuery
  <1>3. Sound(obj', class', slot', refs', leaked', kclass, casts')
    BY <1>2, FoundKeeps, CollectKeeps, ErrorKeeps DEF LookupMissing
  <1> QED
    BY <1>1, <1>3, HeapMoves

LEMMA RegisterKeeps ==
    ASSUME HeapInv, NEW x \in Keys, NEW n \in Names,
           RegisterObject(x, n) \/ RegisterQuery(x, n) \/ RegisterString(x)
    PROVE  HeapInv'
  <1>1. classes' = classes /\ kclass' = kclass /\ ns \in [Keys -> Entries]
    BY DEF RegisterObject, RegisterQuery, RegisterString, Step, bootVars, HeapInv
  <1>2. KernelCaps \subseteq Entries /\ Placeholder \in Entries
    BY DeadIsNone DEF Entries
  <1>3. CASE RegisterObject(x, n)
    <2>1. PICK o \in Reachable : ns' = [ns EXCEPT ![x] = Granted(o)]
      BY <1>3 DEF RegisterObject
    <2>2. Granted(o) \in Entries
      BY <1>2, GrantedIsEntry
    <2>3. ns' \in [Keys -> Entries]
      BY <1>1, <2>1, <2>2
    <2>4. Sound(obj', class', slot', refs', leaked', kclass, casts')
      BY <1>3, CollectKeeps DEF RegisterObject
    <2> QED
      BY <1>1, <2>3, <2>4, HeapMoves
  <1>4. CASE RegisterString(x)
    <2>1. ns' \in [Keys -> Entries]
      BY <1>1, <1>2, <1>4 DEF RegisterString
    <2>2. Sound(obj', class', slot', refs', leaked', kclass, casts')
      BY <1>4, CollectKeeps DEF RegisterString
    <2> QED
      BY <1>1, <2>1, <2>2, HeapMoves
  <1>5. CASE RegisterQuery(x, n)
    <2>1. PICK y \in Keys, R \in Modes :
             \/ /\ LookupFound(y, R)
                /\ ns' = [ns EXCEPT ![x] = <<ns[y][1], (R \cup {"r"}) \cap ns[y][2]>>]
             \/ (LookupMissing(y) \/ LookupError(y)) /\ UNCHANGED ns
      BY <1>5 DEF RegisterQuery
    <2>2. CASE /\ LookupFound(y, R)
               /\ ns' = [ns EXCEPT ![x] = <<ns[y][1], (R \cup {"r"}) \cap ns[y][2]>>]
      <3>1. Sound(obj', class', slot', refs', leaked', kclass, casts') /\ ns[y] \in KernelCaps
        BY <2>2, FoundKeeps
      <3>2. <<ns[y][1], (R \cup {"r"}) \cap ns[y][2]>> \in KernelCaps
        BY <3>1 DEF KernelCaps
      <3>3. ns' \in [Keys -> Entries]
        BY <1>1, <1>2, <2>2, <3>2
      <3> QED
        BY <1>1, <3>1, <3>3, HeapMoves
    <2>3. CASE (LookupMissing(y) \/ LookupError(y)) /\ UNCHANGED ns
      <3>1. Sound(obj', class', slot', refs', leaked', kclass, casts')
        BY <2>3, CollectKeeps, ErrorKeeps DEF LookupMissing
      <3> QED
        BY <1>1, <2>3, <3>1, HeapMoves
    <2> QED
      BY <2>1, <2>2, <2>3
  <1> QED
    BY <1>3, <1>4, <1>5

\* What MakeLog does to the heap: the factory makes an object whose class is never known,
\* or no slot is left.
LEMMA ExecKeeps ==
    ASSUME HeapInv, Exec
    PROVE  HeapInv'
  <1>1. classes' = classes /\ ns' = ns
    BY DEF Exec, bootVars
  <1>2. Sound(obj, class, slot, refs, leaked, kclass, casts) /\ KernelInv /\ ns \in [Keys -> Entries]
    BY DEF HeapInv
  <1>3. CASE /\ NextK <= MaxK /\ NewObject(<<NextK, Base>>, {}, "none", {})
             /\ kclass' = [kclass EXCEPT ![NextK] = "Log"]
    <2>1. NextK \in 1..MaxK /\ kclass[NextK] = "none" /\ MaxK \in Nat
      BY <1>2, <1>3, NextIsNew, BoundAssumption
    <2>2. KernelInv'
      BY <1>2, <1>3, KernelInvStep
    <2>3. PICK k \in 0..MaxK : k = NextK /\ kclass[k] = "none"
      BY <2>1
    <2>4. Sound(obj, class, slot, refs, leaked, kclass', casts)
      BY <1>2, <1>3, <2>3, KernelSound DEF KernelInv
    <2>5. PICK e \in KernelCaps : e = <<k, Base>>
      BY DEF KernelCaps
    <2>6. NewObject(e, {}, "none", {})
      BY <1>3, <2>3, <2>5
    <2>7. Sound(obj', class', slot', refs', leaked', kclass', casts')
      BY <2>4, <2>6, NewObjectKeeps
    <2> QED
      BY <1>1, <1>2, <2>2, <2>7 DEF HeapInv
  <1>4. CASE FreeSlots # {} /\ Leak /\ kclass' = kclass
    <2>1. Sound(obj', class', slot', refs', leaked', kclass, casts')
      BY <1>2, <1>4, LeakKeeps
    <2> QED
      BY <1>1, <1>2, <1>4, <2>1, HeapMoves
  <1>5. CASE UNCHANGED <<kclass, heapVars>>
    BY <1>1, <1>2, <1>5, HeapRests, HeapMoves
  <1> QED
    BY <1>3, <1>4, <1>5 DEF Exec, MakeLog

\* What a pass over the table does to the heap: a query is called, or nothing.
LEMMA ResolveKeeps ==
    ASSUME HeapInv, Resolve
    PROVE  Sound(obj', class', slot', refs', leaked', kclass, casts')
  <1>1. CASE UNCHANGED heapVars
    BY <1>1, HeapRests
  <1>2. CASE \E x \in Keys, R \in Modes :
                LookupFound(x, R) \/ LookupMissing(x) \/ LookupError(x)
    BY <1>2, FoundKeeps, CollectKeeps, ErrorKeeps DEF LookupMissing
  <1> QED
    BY <1>1, <1>2 DEF Resolve

LEMMA LaunchKeeps ==
    ASSUME HeapInv, Launch
    PROVE  HeapInv'
  <1>1. classes' = classes /\ kclass' = kclass /\ ns' \in [Keys -> Entries]
    BY DEF Launch, PushInitialCaps, MapInitialCaps, MapBase, bootVars, HeapInv
  <1>2. Resolve \/ UNCHANGED heapVars
    BY DEF Launch, PushInitialCaps, MapInitialCaps, MapBase
  <1>3. Sound(obj', class', slot', refs', leaked', kclass, casts')
    BY <1>2, ResolveKeeps, HeapRests
  <1> QED
    BY <1>1, <1>3, HeapMoves

LEMMA BootKeepsHeap ==
    ASSUME HeapInv, Boot \/ Thread
    PROVE  HeapInv'
  <1>1. UNCHANGED <<heapVars, ns, kclass>> /\ classes' \subseteq Classes
    BY DEF Boot, Thread, StaticInit, ServerStart, ServerRelock, InitLib, LoadNed, ThreadRegistry,
           ThreadUnlock, HeapInv, Classes
  <1>2. Sound(obj', class', slot', refs', leaked', kclass, casts')
    BY <1>1, HeapRests
  <1> QED
    BY <1>1, <1>2 DEF HeapInv, KernelInv

LEMMA HeapInvStep == HeapInv /\ [Next]_vars => HeapInv'
  <1> SUFFICES ASSUME HeapInv, [Next]_vars PROVE HeapInv'
    OBVIOUS
  <1>1. CASE Boot \/ Thread
    BY <1>1, BootKeepsHeap
  <1>2. CASE Script
    <2>1. CASE Exec
      BY <2>1, ExecKeeps
    <2>2. CASE \E n \in Names : Assign(n) \/ CallQuery(n) \/ Index(n)
      <3>1. PICK n \in Names : Assign(n) \/ CallQuery(n) \/ Index(n)
        BY <2>2
      <3>2. CASE Assign(n)
        <4>1. UNCHANGED <<heapVars, ns, kclass>> /\ classes' = classes /\ ns \in [Keys -> Entries]
          BY <3>2 DEF Assign, Step, bootVars, HeapInv
        <4>2. ns' \in [Keys -> Entries] /\ UNCHANGED heapVars
          BY <4>1
        <4> QED
          BY <4>1, <4>2, HeapRests, HeapMoves
      <3> QED
        BY <3>1, <3>2, CallQueryKeeps, IndexKeeps
    <2>3. CASE \E n \in Names, c \in {"Namespace", "Gate"} : Create(n, c)
      BY <2>3, CreateKeeps
    <2>4. CASE \E m, n \in Names : Mode(m, n)
      BY <2>4, ModeKeeps
    <2>5. CASE \E m, n \in Names, c \in Classes : Cast(m, n, c)
      BY <2>5, CastKeeps
    <2>6. CASE \E x \in Keys, n \in Names : RegisterObject(x, n) \/ RegisterQuery(x, n)
      BY <2>6, RegisterKeeps
    <2>7. CASE \E x \in Keys : RegisterString(x)
      <3>1. PICK x \in Keys : RegisterString(x)
        BY <2>7
      <3>2. \E n \in Names : TRUE
        BY TableAssumption
      <3> QED
        BY <3>1, <3>2, RegisterKeeps
    <2> QED
      BY <1>2, <2>1, <2>2, <2>3, <2>4, <2>5, <2>6, <2>7 DEF Script
  <1>3. CASE Launch
    BY <1>3, LaunchKeeps
  <1>4. CASE Collect
    <2>1. PICK G \in SUBSET Garbage : Sweep(G)
      BY <1>4 DEF Collect
    <2>2. G \subseteq Live
      BY DEF Garbage
    <2>3. Sound(obj, class, slot, refs, leaked, kclass, casts)
      BY DEF HeapInv
    <2>4. Sound(obj', class, slot', refs', leaked, kclass, casts)
      BY <2>1, <2>2, <2>3, SweepKeeps
    <2>5. Sound(obj', class', slot', refs', leaked', kclass, casts')
      BY <1>4, <2>4 DEF Collect
    <2>6. classes' = classes /\ kclass' = kclass /\ ns' \in [Keys -> Entries]
      BY <1>4 DEF Collect, bootVars, HeapInv
    <2> QED
      BY <2>5, <2>6, HeapMoves
  <1>5. CASE \E x \in Keys : ForeignRegister(x)
    <2>1. PICK x \in Keys : ForeignRegister(x)
      BY <1>5
    <2>2. classes' = classes /\ kclass' = kclass /\ UNCHANGED heapVars
      BY <2>1 DEF ForeignRegister, bootVars
    <2>3. Service \in Entries /\ Nothing \in Entries
      BY BoundAssumption DEF Service, Entries, Base
    <2>4. ns \in [Keys -> Entries]
      BY DEF HeapInv
    <2>5. ns' = [ns EXCEPT ![x] = Service] \/ ns' = [ns EXCEPT ![x] = Nothing]
      BY <2>1 DEF ForeignRegister
    <2>6. ns' \in [Keys -> Entries]
      BY <2>3, <2>4, <2>5
    <2> QED
      BY <2>2, <2>6, HeapRests, HeapMoves
  <1>6. CASE UNCHANGED vars
    <2>1. UNCHANGED heapVars /\ classes' = classes /\ kclass' = kclass /\ ns' = ns
      BY <1>6 DEF vars, heapVars
    <2>2. ns' \in [Keys -> Entries]
      BY <2>1 DEF HeapInv
    <2> QED
      BY <2>1, <2>2, HeapRests, HeapMoves
  <1> QED
    BY <1>1, <1>2, <1>3, <1>4, <1>5, <1>6 DEF Next

LEMMA HeapInvInit == Init => HeapInv
  <1> SUFFICES ASSUME Init PROVE HeapInv
    OBVIOUS
  <1>1. LiveIn(obj) = {}
    BY DEF Init, LiveIn
  <1>2. \A s \in Slots : UsersIn(obj, s) = {}
    BY <1>1 DEF UsersIn
  <1>3. Counted(obj, slot, refs, leaked)
    <2>1. \A s \in Slots : refs[s] = 0
      BY DEF Init
    <2>2. IsFiniteSet(LiveIn(obj)) /\ \A s \in Slots : Cardinality(UsersIn(obj, s)) = 0
      BY <1>1, <1>2, FS_EmptySet
    <2> QED
      BY <2>1, <2>2 DEF Counted
  <1>4. HeapTypes(obj, class, slot, refs, leaked, casts)
    BY DEF HeapTypes, Init, Entries
  <1>5. Shared(obj) /\ Classed(obj, class, slot, kclass, casts)
    BY <1>1 DEF Shared, Classed
  <1>6. Sound(obj, class, slot, refs, leaked, kclass, casts)
    BY <1>3, <1>4, <1>5 DEF Sound
  <1>7. KernelInv
    <2>1. \A k \in 1..MaxK : kclass[k] # "none" <=> k <= 0
      BY BoundAssumption DEF Init
    <2> QED
      <3>1. kclass \in [0..MaxK -> {"none", "Gate", "Log", "Namespace"}]
        BY DEF Init
      <3>2. 0 \in 0..MaxK
        BY BoundAssumption
      <3> QED
        BY <2>1, <3>1, <3>2 DEF KernelInv
  <1> QED
    BY <1>6, <1>7 DEF HeapInv, Init, Entries

LEMMA HeapIsRight == HeapInv => RefsAreObjects
  <1> SUFFICES ASSUME HeapInv, NEW s \in Slots
               PROVE  /\ refs[s] = Cardinality({o \in Live : obj[o].slot = s})
                      /\ refs[s] > 0 => slot[s] # Nothing /\ s \notin leaked
    BY DEF RefsAreObjects
  <1>1. Counted(obj, slot, refs, leaked)
    BY DEF HeapInv, Sound
  <1>2. UsersIn(obj, s) = {o \in Live : obj[o].slot = s}
    BY DEF UsersIn, LiveIn, Live
  <1> QED
    BY <1>1, <1>2, DeadIsNone DEF Counted

\* A slot of Ned has as many references as there are live Lua objects that use it, over
\* every order of creation, clone, cast, failed creation and collection: the collector
\* takes no capability from a live object, and only a skipped destructor loses a slot.
THEOREM SlotsAreCounted == Spec => []RefsAreObjects
  <1> QED
    BY HeapInvInit, HeapInvStep, HeapIsRight, PTL DEF Spec

-----------------------------------------------------------------------------
(* The libraries: the list that the static constructors make is sorted by       *)
(* priority and holds every library, in whatever order they run.                *)

Ordered(l) == \A i, j \in DOMAIN l : i < j => Prio[l[i]] <= Prio[l[j]]

LibInv ==
    /\ libs \in Seq(Libs) /\ classes \subseteq Classes
    /\ main \in {"static", "construct", "relock", "libs"} => Ordered(libs)
    /\ main = "static" => Cardinality(Range(libs)) = Len(libs) /\ Len(libs) < Cardinality(Libs)
    /\ main \in {"construct", "relock", "libs"} =>
          /\ "factory" \in Range(libs) \/ "Factory" \in classes
          /\ "ns" \in Range(libs) \/ "Namespace" \in classes
          /\ "env" \in Range(libs) \/ envType = "Factory"
    /\ main \in {"ned", "ready"} => envType = "Factory" /\ classes = Classes

\* A set of first positions is the interval that its size names.
LEMMA FirstPositions ==
    ASSUME NEW n \in Nat, NEW D \in SUBSET (1..n), \A i \in D : \A j \in 1..i : j \in D
    PROVE  Cardinality(D) \in 0..n /\ D = 1..Cardinality(D)
  <1>1. CASE D = 1..n
    <2>1. Cardinality(1..n) = n
      BY FS_Interval
    <2> QED
      BY <1>1, <2>1
  <1>2. CASE D # 1..n
    <2>1. (1..n) \ D # {} /\ (1..n) \ D \subseteq Nat
      <3>1. ~(1..n \subseteq D)
        BY <1>2
      <3> QED
        BY <3>1
    <2>2. PICK m \in (1..n) \ D : \A k \in (1..n) \ D : m <= k
      BY <2>1, LeastNat
    <2>3. D = 1..(m - 1)
      <3>1. ASSUME NEW i \in D PROVE i \in 1..(m - 1)
        <4>1. i \in 1..n /\ m \in 1..n
          OBVIOUS
        <4>2. ~(m <= i)
          BY <4>1
        <4> QED
          BY <4>1, <4>2
      <3>2. ASSUME NEW i \in 1..(m - 1) PROVE i \in D
        <4>1. i \in 1..n /\ ~(m <= i)
          OBVIOUS
        <4> QED
          BY <2>2, <4>1
      <3> QED
        BY <3>1, <3>2
    <2>4. Cardinality(1..(m - 1)) = m - 1
      BY FS_Interval
    <2> QED
      BY <2>2, <2>3, <2>4
  <1> QED
    BY <1>1, <1>2

\* Lib::Lib puts a library between those with a lower priority and the others.
LEMMA InsertedIsSorted ==
    ASSUME libs \in Seq(Libs), Ordered(libs), NEW l \in Libs
    PROVE  /\ Inserted(l) \in Seq(Libs) /\ Len(Inserted(l)) = Len(libs) + 1
           /\ Ordered(Inserted(l)) /\ Range(Inserted(l)) = Range(libs) \cup {l}
  <1>1. PICK n \in Nat : n = Len(libs) /\ DOMAIN libs = 1..n /\ \A k \in 1..n : libs[k] \in Libs
    <2>1. Len(libs) \in Nat /\ DOMAIN libs = 1..Len(libs)
      BY LenProperties
    <2>2. \A k \in 1..Len(libs) : libs[k] \in Libs
      BY ElementOfSeq
    <2> QED
      BY <2>1, <2>2
  <1> DEFINE D == {j \in DOMAIN libs : Prio[libs[j]] < Prio[l]}
  <1>2. \A k \in Libs : Prio[k] \in Nat
    BY LibsAssumption
  <1>3. D \in SUBSET (1..n)
    BY <1>1
  <1>4. \A i \in D : \A j \in 1..i : j \in D
    <2> SUFFICES ASSUME NEW i \in D, NEW j \in 1..i PROVE j \in D
      OBVIOUS
    <2>1. i \in 1..n /\ j \in 1..n /\ Prio[libs[i]] < Prio[l]
      BY <1>1
    <2>2. Prio[libs[j]] <= Prio[libs[i]]
      <3>1. CASE i = j
        BY <1>1, <1>2, <2>1, <3>1
      <3>2. CASE i # j
        BY <1>1, <2>1, <3>2 DEF Ordered
      <3> QED
        BY <3>1, <3>2
    <2>3. Prio[libs[j]] < Prio[l]
      BY <1>1, <1>2, <2>1, <2>2
    <2> QED
      BY <1>1, <2>1, <2>3
  <1>5. PICK i \in 0..n : i = Cardinality(D) /\ D = 1..i
    BY <1>3, <1>4, FirstPositions
  <1>6. Inserted(l) = SubSeq(libs, 1, i) \o <<l>> \o SubSeq(libs, i + 1, n)
    BY <1>1, <1>5 DEF Inserted
  <1>7. PICK a \in Seq(Libs), b \in Seq(Libs) : a = SubSeq(libs, 1, i) /\ b = SubSeq(libs, i + 1, n)
    <2>1. SubSeq(libs, 1, i) \in Seq(Libs)
      BY <1>1, SubSeqProperties
    <2>2. SubSeq(libs, i + 1, n) \in Seq(Libs)
      BY <1>1, SubSeqProperties
    <2> QED
      BY <2>1, <2>2
  <1>8. Len(a) = i /\ \A k \in 1..i : a[k] = libs[k]
    <2>1. /\ Len(SubSeq(libs, 1, i)) = IF 1 <= i THEN i - 1 + 1 ELSE 0
          /\ \A k \in 1..(i - 1 + 1) : SubSeq(libs, 1, i)[k] = libs[1 + k - 1]
      BY <1>1, SubSeqProperties
    <2> QED
      BY <1>7, <2>1
  <1>9. Len(b) = n - i /\ \A k \in 1..(n - i) : b[k] = libs[k + i]
    <2>1. /\ Len(SubSeq(libs, i + 1, n)) = IF i + 1 <= n THEN n - (i + 1) + 1 ELSE 0
          /\ \A k \in 1..(n - (i + 1) + 1) : SubSeq(libs, i + 1, n)[k] = libs[(i + 1) + k - 1]
      BY <1>1, SubSeqProperties
    <2> QED
      BY <1>7, <2>1
  <1>10. PICK c \in Seq(Libs) : c = a \o <<l>>
    <2>1. <<l>> \in Seq(Libs)
      OBVIOUS
    <2> QED
      BY <2>1, ConcatProperties
  <1>11. Len(c) = i + 1 /\ c[i + 1] = l /\ \A k \in 1..i : c[k] = libs[k]
    <2>1. <<l>> \in Seq(Libs) /\ Len(<<l>>) = 1 /\ <<l>>[1] = l
      OBVIOUS
    <2>2. /\ Len(a \o <<l>>) = i + 1
          /\ \A k \in 1..(i + 1) : (a \o <<l>>)[k] = IF k <= i THEN a[k] ELSE <<l>>[k - i]
      BY <1>8, <2>1, ConcatProperties
    <2> QED
      BY <1>8, <1>10, <2>1, <2>2
  <1>12. PICK d \in Seq(Libs) : d = Inserted(l)
    BY <1>6, <1>7, <1>10, ConcatProperties
  <1>13. Len(d) = n + 1 /\ \A k \in 1..(n + 1) : d[k] = IF k <= i + 1 THEN c[k] ELSE b[k - (i + 1)]
    <2>1. /\ Len(c \o b) = Len(c) + Len(b)
          /\ \A k \in 1..(Len(c) + Len(b)) : (c \o b)[k] = IF k <= Len(c) THEN c[k] ELSE b[k - Len(c)]
      BY ConcatProperties
    <2>2. d = c \o b
      BY <1>6, <1>7, <1>10, <1>12
    <2>3. Len(c) + Len(b) = n + 1
      BY <1>9, <1>11
    <2> QED
      BY <1>11, <2>1, <2>2, <2>3
  <1>14. \A k \in 1..(n + 1) : d[k] = IF k <= i THEN libs[k] ELSE IF k = i + 1 THEN l ELSE libs[k - 1]
    <2> SUFFICES ASSUME NEW k \in 1..(n + 1)
                 PROVE  d[k] = IF k <= i THEN libs[k] ELSE IF k = i + 1 THEN l ELSE libs[k - 1]
      OBVIOUS
    <2>1. CASE k <= i + 1
      BY <1>11, <1>13, <2>1
    <2>2. CASE k > i + 1
      <3>1. d[k] = b[k - (i + 1)] /\ k - (i + 1) \in 1..(n - i)
        BY <1>13, <2>2
      <3>2. b[k - (i + 1)] = libs[(k - (i + 1)) + i]
        BY <1>9, <3>1
      <3>3. (k - (i + 1)) + i = k - 1
        OBVIOUS
      <3> QED
        BY <2>2, <3>1, <3>2, <3>3
    <2> QED
      BY <2>1, <2>2
  <1>15. DOMAIN d = 1..(n + 1)
    BY <1>13, LenProperties
  <1>16. Range(d) = Range(libs) \cup {l}
    <2>1. Range(d) \subseteq Range(libs) \cup {l}
      <3> SUFFICES ASSUME NEW k \in 1..(n + 1) PROVE d[k] \in Range(libs) \cup {l}
        BY <1>15 DEF Range
      <3>1. CASE k <= i
        <4>1. d[k] = libs[k] /\ k \in 1..n
          BY <1>14, <3>1
        <4> QED
          BY <1>1, <4>1 DEF Range
      <3>2. CASE k = i + 1
        BY <1>14, <3>2
      <3>3. CASE k > i + 1
        <4>1. d[k] = libs[k - 1] /\ k - 1 \in 1..n
          BY <1>14, <3>3
        <4> QED
          BY <1>1, <4>1 DEF Range
      <3> QED
        BY <3>1, <3>2, <3>3
    <2>2. l \in Range(d)
      <3>1. i + 1 \in 1..(n + 1) /\ d[i + 1] = l
        BY <1>14
      <3> QED
        BY <1>15, <3>1 DEF Range
    <2>3. Range(libs) \subseteq Range(d)
      <3> SUFFICES ASSUME NEW k \in 1..n PROVE libs[k] \in Range(d)
        BY <1>1 DEF Range
      <3>1. CASE k <= i
        <4>1. k \in 1..(n + 1) /\ d[k] = libs[k]
          BY <1>14, <3>1
        <4> QED
          BY <1>15, <4>1 DEF Range
      <3>2. CASE k > i
        <4>1. k + 1 \in 1..(n + 1) /\ ~(k + 1 <= i) /\ k + 1 # i + 1 /\ (k + 1) - 1 = k
          BY <3>2
        <4>2. d[k + 1] = libs[k]
          BY <1>14, <4>1
        <4> QED
          BY <1>15, <4>1, <4>2 DEF Range
      <3> QED
        BY <3>1, <3>2
    <2> QED
      BY <2>1, <2>2, <2>3
  <1>17. \A k \in 1..n : IF k <= i THEN Prio[libs[k]] < Prio[l] ELSE Prio[l] <= Prio[libs[k]]
    <2> SUFFICES ASSUME NEW k \in 1..n
                 PROVE  IF k <= i THEN Prio[libs[k]] < Prio[l] ELSE Prio[l] <= Prio[libs[k]]
      OBVIOUS
    <2>1. k <= i <=> Prio[libs[k]] < Prio[l]
      BY <1>1, <1>5
    <2>2. Prio[libs[k]] \in Nat /\ Prio[l] \in Nat
      BY <1>1, <1>2
    <2> QED
      BY <2>1, <2>2
  <1>18. Ordered(d)
    <2> SUFFICES ASSUME NEW p \in 1..(n + 1), NEW q \in 1..(n + 1), p < q
                 PROVE  Prio[d[p]] <= Prio[d[q]]
      BY <1>15 DEF Ordered
    <2> DEFINE old(k) == IF k <= i THEN k ELSE k - 1
    <2>1. \A k \in 1..(n + 1) : k # i + 1 => old(k) \in 1..n /\ d[k] = libs[old(k)]
      BY <1>14
    <2>2. \A u, v \in 1..n : u < v => Prio[libs[u]] <= Prio[libs[v]]
      BY <1>1 DEF Ordered
    <2>3. CASE p = i + 1
      <3>1. d[p] = l /\ old(q) \in 1..n /\ d[q] = libs[old(q)] /\ ~(old(q) <= i)
        BY <1>14, <2>1, <2>3
      <3> QED
        BY <1>17, <3>1
    <2>4. CASE q = i + 1
      <3>1. d[q] = l /\ p \in 1..n /\ p <= i /\ d[p] = libs[p]
        BY <1>14, <2>4
      <3>2. Prio[libs[p]] < Prio[l] /\ Prio[libs[p]] \in Nat /\ Prio[l] \in Nat
        BY <1>1, <1>2, <1>17, <3>1
      <3> QED
        BY <3>1, <3>2
    <2>5. CASE p # i + 1 /\ q # i + 1
      <3>1. old(p) \in 1..n /\ old(q) \in 1..n /\ d[p] = libs[old(p)] /\ d[q] = libs[old(q)]
        BY <2>1, <2>5
      <3>2. old(p) < old(q)
        BY <2>5
      <3> QED
        BY <2>2, <3>1, <3>2
    <2> QED
      BY <2>3, <2>4, <2>5
  <1> QED
    BY <1>1, <1>12, <1>13, <1>16, <1>18

LEMMA LibsAreFinite == IsFiniteSet(Libs)
  <1>1. IsFiniteSet({"factory"})
    <2>1. IsFiniteSet({} \cup {"factory"})
      BY FS_EmptySet, FS_AddElement
    <2> QED
      BY <2>1
  <1>2. IsFiniteSet({"factory", "ns"})
    <2>1. IsFiniteSet({"factory"} \cup {"ns"})
      BY <1>1, FS_AddElement
    <2> QED
      BY <2>1
  <1>3. IsFiniteSet({"factory", "ns", "exec"})
    <2>1. IsFiniteSet({"factory", "ns"} \cup {"exec"})
      BY <1>2, FS_AddElement
    <2> QED
      BY <2>1
  <1>4. IsFiniteSet({"factory", "ns", "exec", "env"})
    <2>1. IsFiniteSet({"factory", "ns", "exec"} \cup {"env"})
      BY <1>3, FS_AddElement
    <2> QED
      BY <2>1
  <1> QED
    BY <1>4, LibsAssumption

LEMMA StaticKeeps == ASSUME LibInv, NEW l \in Libs, StaticInit(l) PROVE LibInv'
  <1>1. libs \in Seq(Libs) /\ Ordered(libs) /\ main = "static" /\ l \notin Range(libs)
    BY DEF LibInv, StaticInit
  <1>2. PICK n \in Nat : n = Len(libs) /\ DOMAIN libs = 1..n /\ \A k \in 1..n : libs[k] \in Libs
    <2>1. Len(libs) \in Nat /\ DOMAIN libs = 1..Len(libs)
      BY <1>1, LenProperties
    <2>2. \A k \in 1..Len(libs) : libs[k] \in Libs
      BY <1>1, ElementOfSeq
    <2> QED
      BY <2>1, <2>2
  <1>3. /\ libs' \in Seq(Libs) /\ Len(libs') = n + 1 /\ Ordered(libs')
        /\ Range(libs') = Range(libs) \cup {l}
    BY <1>1, <1>2, InsertedIsSorted DEF StaticInit
  <1>4. IsFiniteSet(Libs) /\ Cardinality(Libs) \in Nat
    BY LibsAreFinite, FS_CardinalityType
  <1>5. Range(libs) \subseteq Libs /\ Range(libs') \subseteq Libs
    BY <1>2, <1>3 DEF Range
  <1>6. IsFiniteSet(Range(libs)) /\ IsFiniteSet(Range(libs'))
    BY <1>4, <1>5, FS_Subset
  <1>7. Cardinality(Range(libs')) = n + 1
    <2>1. Cardinality(Range(libs) \cup {l}) = Cardinality(Range(libs)) + 1
      BY <1>1, <1>6, FS_AddElement
    <2>2. Cardinality(Range(libs)) = n
      BY <1>1, <1>2 DEF LibInv
    <2> QED
      BY <1>3, <2>1, <2>2
  <1>8. Cardinality(Range(libs')) <= Cardinality(Libs)
        /\ (Cardinality(Libs) = Cardinality(Range(libs')) => Libs = Range(libs'))
    BY <1>4, <1>5, FS_Subset
  <1>9. classes' = classes /\ envType' = envType
    BY DEF StaticInit
  <1>10. CASE n + 1 = Cardinality(Libs)
    <2>1. main' = "construct"
      BY <1>2, <1>10 DEF StaticInit
    <2>2. "factory" \in Range(libs') /\ "ns" \in Range(libs') /\ "env" \in Range(libs')
      BY <1>7, <1>8, <1>10, LibsAssumption
    <2> QED
      BY <1>3, <1>9, <2>1, <2>2 DEF LibInv
  <1>11. CASE n + 1 # Cardinality(Libs)
    <2>1. main' = "static"
      BY <1>1, <1>2, <1>11 DEF StaticInit
    <2>2. n + 1 < Cardinality(Libs)
      BY <1>4, <1>7, <1>8, <1>11
    <2> QED
      BY <1>3, <1>7, <1>9, <2>1, <2>2 DEF LibInv
  <1> QED
    BY <1>10, <1>11

\* Lib::run_init: L4.Env is filled after the class of factories is known.
LEMMA InitLibKeeps == ASSUME LibInv, InitLib PROVE LibInv'
  <1>1. libs \in Seq(Libs) /\ libs # <<>> /\ Ordered(libs) /\ main = "libs" /\ classes \subseteq Classes
    BY DEF LibInv, InitLib
  <1>2. PICK n \in Nat : n = Len(libs) /\ DOMAIN libs = 1..n /\ n # 0
                          /\ \A k \in 1..n : libs[k] \in Libs
    <2>1. Len(libs) \in Nat /\ DOMAIN libs = 1..Len(libs)
      BY <1>1, LenProperties
    <2>2. \A k \in 1..Len(libs) : libs[k] \in Libs
      BY <1>1, ElementOfSeq
    <2>3. Len(libs) # 0
      BY <1>1, EmptySeq
    <2> QED
      BY <2>1, <2>2, <2>3
  <1>3. PICK h \in Libs, t \in Seq(Libs) : h = libs[1] /\ h = Head(libs) /\ t = Tail(libs)
    <2>1. Tail(libs) \in Seq(Libs)
      BY <1>1, HeadTailProperties
    <2>2. Head(libs) = libs[1]
      BY <1>1
    <2>3. 1 \in 1..n
      BY <1>2
    <2> QED
      BY <1>2, <2>1, <2>2, <2>3
  <1>4. DOMAIN t = 1..(n - 1) /\ \A k \in 1..(n - 1) : t[k] = libs[k + 1]
    <2>1. Len(t) = n - 1 /\ \A k \in 1..Len(t) : t[k] = libs[k + 1]
      BY <1>1, <1>2, <1>3, HeadTailProperties
    <2>2. DOMAIN t = 1..Len(t)
      BY LenProperties
    <2> QED
      BY <2>1, <2>2
  <1>5. libs' = t
    BY <1>3 DEF InitLib
  <1>6. Ordered(libs')
    <2> SUFFICES ASSUME NEW i \in 1..(n - 1), NEW j \in 1..(n - 1), i < j PROVE Prio[t[i]] <= Prio[t[j]]
      BY <1>4, <1>5 DEF Ordered
    <2>1. i + 1 \in 1..n /\ j + 1 \in 1..n /\ i + 1 < j + 1
      OBVIOUS
    <2>2. Prio[libs[i + 1]] <= Prio[libs[j + 1]]
      BY <1>1, <1>2, <2>1 DEF Ordered
    <2> QED
      BY <1>4, <2>2
  <1>7. \A k \in Libs : k \in Range(libs) => k = h \/ k \in Range(libs')
    <2> SUFFICES ASSUME NEW i \in 1..n PROVE libs[i] = h \/ libs[i] \in Range(t)
      BY <1>2, <1>5 DEF Range
    <2>1. CASE i = 1
      BY <1>3, <2>1
    <2>2. CASE i # 1
      <3>1. i - 1 \in 1..(n - 1) /\ t[i - 1] = libs[i]
        <4>1. i - 1 \in 1..(n - 1) /\ (i - 1) + 1 = i
          BY <2>2
        <4> QED
          BY <1>4, <4>1
      <3> QED
        BY <1>4, <3>1 DEF Range
    <2> QED
      BY <2>1, <2>2
  <1>8. h = "env" => "Factory" \in classes
    <2> SUFFICES ASSUME h = "env", "Factory" \notin classes PROVE FALSE
      OBVIOUS
    <2>1. "factory" \in Range(libs)
      BY <1>1 DEF LibInv
    <2>2. PICK i \in 1..n : libs[i] = "factory"
      BY <1>2, <2>1 DEF Range
    <2>3. 1 < i
      BY <1>3, <2>2
    <2>4. 1 \in 1..n
      BY <1>2
    <2>5. Prio["env"] <= Prio["factory"]
      BY <1>1, <1>2, <1>3, <2>2, <2>3, <2>4 DEF Ordered
    <2>6. Prio["factory"] < Prio["env"] /\ Prio["factory"] \in Nat /\ Prio["env"] \in Nat
      BY LibsAssumption
    <2> QED
      BY <2>5, <2>6
  <1>9. /\ classes' = CASE h = "factory" -> classes \cup {"Factory"}
                        [] h = "ns" -> classes \cup {"Namespace"}
                        [] OTHER -> classes
        /\ envType' = IF h = "env" /\ "Factory" \in classes THEN "Factory" ELSE envType
    BY <1>3 DEF InitLib
  <1>10. /\ classes \subseteq classes' /\ classes' \subseteq Classes
         /\ h = "factory" => "Factory" \in classes'
         /\ h = "ns" => "Namespace" \in classes'
         /\ h = "env" => envType' = "Factory"
         /\ envType = "Factory" => envType' = "Factory"
    <2>1. CASE h = "factory"
      BY <1>1, <1>9, <2>1 DEF Classes
    <2>2. CASE h = "ns"
      BY <1>1, <1>9, <2>2 DEF Classes
    <2>3. CASE h = "env"
      BY <1>1, <1>8, <1>9, <2>3
    <2>4. CASE h \notin {"factory", "ns", "env"}
      BY <1>1, <1>9, <2>4
    <2> QED
      BY <2>1, <2>2, <2>3, <2>4
  <1>11. /\ "factory" \in Range(libs') \/ "Factory" \in classes'
         /\ "ns" \in Range(libs') \/ "Namespace" \in classes'
         /\ "env" \in Range(libs') \/ envType' = "Factory"
    BY <1>1, <1>7, <1>10, LibsAssumption DEF LibInv
  <1>12. CASE n = 1
    <2>1. main' = "ned"
      BY <1>2, <1>12 DEF InitLib
    <2>2. Range(libs') = {}
      BY <1>4, <1>5, <1>12 DEF Range
    <2>3. classes' = Classes /\ envType' = "Factory"
      BY <1>10, <1>11, <2>2 DEF Classes
    <2> QED
      BY <1>5, <2>1, <2>3 DEF LibInv
  <1>13. CASE n # 1
    <2>1. main' = "libs"
      BY <1>1, <1>2, <1>13 DEF InitLib
    <2> QED
      BY <1>5, <1>6, <1>10, <1>11, <2>1 DEF LibInv
  <1> QED
    BY <1>12, <1>13

LEMMA LibInvStep == LibInv /\ [Next]_vars => LibInv'
  <1> SUFFICES ASSUME LibInv, [Next]_vars PROVE LibInv'
    OBVIOUS
  <1>1. CASE UNCHANGED <<libs, classes, envType, main>>
    BY <1>1 DEF LibInv
  <1>2. CASE \E l \in Libs : StaticInit(l)
    BY <1>2, StaticKeeps
  <1>3. CASE ServerStart
    BY <1>3 DEF ServerStart, LibInv
  <1>4. CASE ServerRelock
    BY <1>4 DEF ServerRelock, LibInv
  <1>5. CASE InitLib
    BY <1>5, InitLibKeeps
  <1>6. CASE LoadNed
    BY <1>6 DEF LoadNed, LibInv
  <1>7. CASE Thread
    BY <1>1, <1>7 DEF Thread, ThreadRegistry, ThreadUnlock
  <1>8. CASE Script
    BY <1>1, <1>8, ScriptKeepsBoot DEF bootVars
  <1>9. CASE Launch
    BY <1>1, <1>9 DEF Launch, PushInitialCaps, MapBase, MapInitialCaps, bootVars
  <1>10. CASE Collect
    BY <1>1, <1>10 DEF Collect, bootVars
  <1>11. CASE \E x \in Keys : ForeignRegister(x)
    BY <1>1, <1>11 DEF ForeignRegister, bootVars
  <1>12. CASE UNCHANGED vars
    BY <1>1, <1>12 DEF vars
  <1> QED
    BY <1>2, <1>3, <1>4, <1>5, <1>6, <1>7, <1>8, <1>9, <1>10, <1>11, <1>12 DEF Next, Boot

LEMMA LibInvInit == Init => LibInv
  <1> SUFFICES ASSUME Init PROVE LibInv
    OBVIOUS
  <1>1. main = "static" /\ libs = <<>> /\ classes = {}
    BY DEF Init
  <1>2. Len(<<>>) = 0 /\ <<>> \in Seq(Libs) /\ DOMAIN <<>> = {}
    OBVIOUS
  <1>3. Range(libs) = {} /\ Ordered(libs)
    BY <1>1, <1>2 DEF Range, Ordered
  <1>4. Cardinality({}) = 0 /\ Cardinality(Libs) # 0 /\ Cardinality(Libs) \in Nat
    BY LibsAreFinite, FS_EmptySet, FS_CardinalityType, LibsAssumption
  <1> QED
    <2>1. Cardinality(Range(libs)) = Len(libs) /\ Len(libs) < Cardinality(Libs)
      BY <1>1, <1>2, <1>3, <1>4
    <2> QED
      BY <1>1, <1>2, <1>3, <2>1 DEF LibInv

LEMMA ClassesAreRight == HeapInv /\ LibInv => ClassIsRight
  <1> SUFFICES ASSUME HeapInv, LibInv PROVE ClassIsRight
    OBVIOUS
  <1>1. Live = LiveIn(obj)
    BY DEF Live, LiveIn
  <1>2. Classed(obj, class, slot, kclass, casts)
    BY DEF HeapInv, Sound
  <1> QED
    BY <1>1, <1>2 DEF ClassIsRight, Classed, LibInv

\* What a method call finds out about one object is true of all its clones, whatever the
\* collector and later objects did to slots and tables, and the classes are registered
\* before L4.Env is filled, in whatever order the linker ran the static constructors.
THEOREM ClassesStayRight == Spec => []ClassIsRight
  <1> QED
    BY HeapInvInit, HeapInvStep, LibInvInit, LibInvStep, ClassesAreRight, PTL DEF Spec

-----------------------------------------------------------------------------
(* The two passes over the table of capabilities. *)

PosInv ==
    /\ phase \in {"push", "map"} => pos \in 1..Len(Order) /\ start \in Nat
    /\ phase = "base" => pos = 1 /\ start = 0

\* The table has entries, and each of them is another name.
LEMMA TableIsList ==
    /\ Len(Order) \in Nat \ {0} /\ DOMAIN Order = 1..Len(Order)
    /\ \A i \in 1..Len(Order) : Order[i] \in Names
    /\ \A i, j \in 1..Len(Order) : Order[i] = Order[j] => i = j
  <1>1. DOMAIN Order = 1..Len(Order) /\ Len(Order) \in Nat
    BY TableAssumption, LenProperties
  <1>2. \A i \in 1..Len(Order) : Order[i] \in Names
    BY TableAssumption, ElementOfSeq
  <1>3. Len(Order) # 0
    BY TableAssumption, EmptySeq
  <1> QED
    BY <1>1, <1>2, <1>3, TableAssumption

\* Everything of the script but a start happens before the start, and leaves it alone.
LEMMA ScriptIsIdle ==
    ASSUME Script
    PROVE  phase = "idle" /\ (Exec \/ UNCHANGED execVars)
  <1>1. CASE Exec
    BY <1>1 DEF Exec, Working
  <1>2. CASE \E n \in Names : Assign(n) \/ CallQuery(n) \/ Index(n)
    BY <1>2 DEF Assign, CallQuery, Index, Step, Working
  <1>3. CASE \E n \in Names, c \in {"Namespace", "Gate"} : Create(n, c)
    BY <1>3 DEF Create, Step, Working
  <1>4. CASE \E m, n \in Names : Mode(m, n)
    BY <1>4 DEF Mode, Step, Working
  <1>5. CASE \E m, n \in Names, c \in Classes : Cast(m, n, c)
    BY <1>5 DEF Cast, Step, Working
  <1>6. CASE \E x \in Keys, n \in Names : RegisterObject(x, n) \/ RegisterQuery(x, n)
    BY <1>6 DEF RegisterObject, RegisterQuery, Step, Working
  <1>7. CASE \E x \in Keys : RegisterString(x)
    BY <1>7 DEF RegisterString, Step, Working
  <1> QED
    BY <1>1, <1>2, <1>3, <1>4, <1>5, <1>6, <1>7 DEF Script

\* The steps of a pass do not touch the log, and end with the next pass or a failure.
LEMMA PassLeavesLog ==
    ASSUME Resolve \/ Fail, phase \in {"push", "map"}
    PROVE  /\ UNCHANGED <<log, logged, progLog>>
           /\ phase = "push" => phase' \in {"push", "base", "failed"}
           /\ phase = "map" => phase' \in {"map", "running", "failed"}
  <1>1. CASE Fail
    BY <1>1 DEF Fail
  <1>2. ASSUME NEW e, Pass(e)
        PROVE  /\ UNCHANGED <<log, logged, progLog>>
               /\ phase = "push" => phase' \in {"push", "base", "failed"}
               /\ phase = "map" => phase' \in {"map", "running", "failed"}
    BY <1>2 DEF Pass, PushCap, MapCap, Advance, Fail
  <1>3. CASE Skip
    BY <1>3 DEF Skip, PushSkip, MapSkip, Advance
  <1>4. CASE Resolve
    <2>1. (\E e : Pass(e)) \/ Skip \/ Fail
      BY <1>4 DEF Resolve
    <2> QED
      BY <2>1, <1>1, <1>2, <1>3
  <1> QED
    BY <1>1, <1>4

\* What a pass hands on is a capability.
LEMMA PassIsCap ==
    ASSUME HeapInv, Resolve
    PROVE  (\E e \in KernelCaps : Pass(e)) \/ Skip \/ Fail
  <1>1. ASSUME NEW o \in Reachable, Pass(Given(o)) PROVE \E e \in KernelCaps : Pass(e)
    <2>1. Given(o) \in KernelCaps
      BY GrantedIsEntry
    <2> QED
      BY <1>1, <2>1
  <1>2. ASSUME Pass(RomCap) PROVE \E e \in KernelCaps : Pass(e)
    <2>1. RomCap \in KernelCaps
      BY BoundAssumption DEF RomCap, KernelCaps, Base
    <2> QED
      BY <1>2, <2>1
  <1>3. ASSUME NEW x \in Keys, NEW R \in Modes, LookupFound(x, R),
               Pass(<<ns[x][1], ((R \cup {"r"}) \cap ns[x][2]) \cup (R \cap Ext)>>)
        PROVE  \E e \in KernelCaps : Pass(e)
    <2>1. ns[x] \in KernelCaps
      BY <1>3, FoundKeeps
    <2>2. <<ns[x][1], ((R \cup {"r"}) \cap ns[x][2]) \cup (R \cap Ext)>> \in KernelCaps
      BY <2>1 DEF KernelCaps
    <2> QED
      BY <1>3, <2>2
  <1> QED
    BY <1>1, <1>2, <1>3 DEF Resolve

LEMMA PosInvStep == HeapInv /\ PosInv /\ [Next]_vars => PosInv'
  <1> SUFFICES ASSUME HeapInv, PosInv, [Next]_vars PROVE PosInv'
    OBVIOUS
  <1>1. CASE UNCHANGED execVars
    BY <1>1 DEF PosInv, execVars
  <1>2. Len(Order) \in Nat \ {0}
    BY TableIsList
  <1>3. CASE Script
    <2>1. CASE Exec
      BY <1>2, <2>1 DEF Exec, MakeLog, PosInv
    <2> QED
      BY <1>1, <1>3, <2>1, ScriptIsIdle
  <1>4. ASSUME phase \in {"push", "map"}, Resolve \/ Fail PROVE PosInv'
    <2>1. pos \in 1..Len(Order) /\ start \in Nat
      BY <1>4 DEF PosInv
    <2>2. ASSUME NEW next, next \in {"base", "running"}, NEW i \in Nat, Advance(i, next) PROVE PosInv'
      <3>1. CASE pos = Len(Order)
        BY <1>2, <2>2, <3>1 DEF Advance, PosInv
      <3>2. CASE pos # Len(Order)
        <4>1. phase' = phase /\ pos' = pos + 1 /\ start' = i
          BY <2>2, <3>2 DEF Advance
        <4>2. pos + 1 \in 1..Len(Order)
          BY <1>2, <2>1, <3>2
        <4> QED
          BY <1>4, <2>2, <4>1, <4>2 DEF PosInv
      <3> QED
        BY <3>1, <3>2
    <2>3. start + 1 \in Nat
      BY <2>1
    <2>4. CASE Fail
      BY <2>4 DEF Fail, PosInv
    <2>5. ASSUME NEW e, Pass(e) PROVE PosInv'
      BY <2>2, <2>3, <2>4, <2>5 DEF Pass, PushCap, MapCap
    <2>6. CASE Skip
      BY <2>1, <2>2, <2>6 DEF Skip, PushSkip, MapSkip
    <2> QED
      BY <1>4, <2>4, <2>5, <2>6, PassIsCap
  <1>5. CASE PushInitialCaps \/ MapInitialCaps
    BY <1>4, <1>5 DEF PushInitialCaps, MapInitialCaps
  <1>6. CASE MapBase
    BY <1>2, <1>6 DEF MapBase, PosInv
  <1>7. CASE Boot \/ Thread
    BY <1>1, <1>7 DEF Boot, Thread, StaticInit, ServerStart, ServerRelock, InitLib, LoadNed,
                      ThreadRegistry, ThreadUnlock
  <1>8. CASE Collect
    BY <1>1, <1>8 DEF Collect
  <1>9. CASE \E x \in Keys : ForeignRegister(x)
    BY <1>1, <1>9 DEF ForeignRegister
  <1>10. CASE UNCHANGED vars
    BY <1>1, <1>10 DEF vars, execVars
  <1> QED
    BY <1>3, <1>5, <1>6, <1>7, <1>8, <1>9, <1>10 DEF Next, Launch

-----------------------------------------------------------------------------
(* The log of a program.  Nobody holds its slot from exec to the place where the  *)
(* program gets it; without queries nothing else takes the slot in between.        *)

NoQuery == \A n \in Names : caps[n][1] # "query"

LogInv ==
    NoQuery => /\ phase \in {"push", "base"} => log \in Slots /\ slot[log] = <<logged, Base>>
               /\ phase \in {"map", "running"} => progLog = <<logged, {"r"}>>

\* Without queries a pass leaves the heap alone.
LEMMA QuietPass ==
    ASSUME NoQuery, phase = "push", Order[pos] \in Names, PushInitialCaps
    PROVE  UNCHANGED heapVars
  <1>1. CASE Resolve
    <2>1. \A x, R : caps[Name] # Query(x, R)
      BY DEF NoQuery, Query, Name
    <2> QED
      BY <1>1, <2>1 DEF Resolve
  <1> QED
    BY <1>1 DEF PushInitialCaps

LEMMA LogInvStep == PosInv /\ LogInv /\ [Next]_vars => LogInv'
  <1> SUFFICES ASSUME PosInv, LogInv, [Next]_vars, NoQuery'
               PROVE  /\ phase' \in {"push", "base"} => log' \in Slots /\ slot'[log'] = <<logged', Base>>
                      /\ phase' \in {"map", "running"} => progLog' = <<logged', {"r"}>>
    BY DEF LogInv
  <1>1. CASE phase' = "idle"
    BY <1>1
  <1>2. CASE UNCHANGED <<caps, slot, execVars>>
    BY <1>2 DEF LogInv, NoQuery, execVars
  <1>3. CASE Boot \/ Thread
    BY <1>2, <1>3 DEF Boot, Thread, StaticInit, ServerStart, ServerRelock, InitLib, LoadNed,
                      ThreadRegistry, ThreadUnlock, heapVars
  <1>4. CASE Script
    <2>1. CASE UNCHANGED execVars
      BY <1>1, <1>4, <2>1, ScriptIsIdle DEF execVars
    <2>2. CASE Exec
      <3>1. CASE phase' = "failed"
        BY <3>1
      <3>2. CASE /\ NewObject(<<NextK, Base>>, {}, "none", {})
                 /\ phase' = "push" /\ log' = Min(FreeSlots) /\ logged' = NextK
        <4>1. Min(FreeSlots) \in Slots
          BY <3>2, SlotIsFree DEF NewObject
        <4>2. slot' = [SlotAfter({}) EXCEPT ![Min(FreeSlots)] = <<NextK, Base>>]
          BY <3>2 DEF NewObject
        <4>3. slot'[Min(FreeSlots)] = <<NextK, Base>>
          BY <4>1, <4>2 DEF SlotAfter
        <4> QED
          BY <3>2, <4>1, <4>3
      <3> QED
        BY <2>2, <3>1, <3>2 DEF Exec, MakeLog
    <2> QED
      BY <1>4, <2>1, <2>2, ScriptIsIdle
  <1>5. CASE PushInitialCaps
    <2>1. phase = "push" /\ caps' = caps /\ (Resolve \/ Fail)
      BY <1>5 DEF PushInitialCaps
    <2>2. UNCHANGED <<log, logged, progLog>> /\ phase' \in {"push", "base", "failed"}
      BY <2>1, PassLeavesLog
    <2>3. NoQuery
      BY <2>1 DEF NoQuery
    <2>4. Order[pos] \in Names
      BY <2>1, TableIsList DEF PosInv
    <2>5. slot' = slot
      BY <1>5, <2>1, <2>3, <2>4, QuietPass DEF heapVars
    <2> QED
      BY <2>1, <2>2, <2>3, <2>5 DEF LogInv
  <1>6. CASE MapBase
    <2>1. NoQuery /\ phase = "base" /\ phase' = "map" /\ logged' = logged
          /\ progLog' = <<slot[log][1], slot[log][2] \cap {"r"}>>
      BY <1>6 DEF MapBase, NoQuery
    <2>2. slot[log] = <<logged, Base>>
      BY <2>1 DEF LogInv
    <2>3. Base \cap {"r"} = {"r"}
      BY DEF Base
    <2> QED
      BY <2>1, <2>2, <2>3
  <1>7. CASE MapInitialCaps
    <2>1. phase = "map" /\ caps' = caps /\ Resolve
      BY <1>7 DEF MapInitialCaps
    <2>2. UNCHANGED <<log, logged, progLog>> /\ phase' \in {"map", "running", "failed"}
      BY <2>1, PassLeavesLog
    <2>3. NoQuery
      BY <2>1 DEF NoQuery
    <2> QED
      BY <2>1, <2>2, <2>3 DEF LogInv
  <1>8. CASE Collect
    BY <1>1, <1>8 DEF Collect, execVars
  <1>9. CASE \E x \in Keys : ForeignRegister(x)
    BY <1>2, <1>9 DEF ForeignRegister, heapVars
  <1>10. CASE UNCHANGED vars
    BY <1>2, <1>10 DEF vars, execVars
  <1> QED
    BY <1>3, <1>4, <1>5, <1>6, <1>7, <1>8, <1>9, <1>10 DEF Next, Launch

\* A program's log is the one that was made for it, though no object holds the slot that
\* its index names: without queries, nothing between exec and the start of the program
\* can use the slot again.
THEOREM LogStaysOwn == Spec => []LogIsOwn
  <1>1. Init => HeapInv /\ PosInv /\ LogInv
    BY HeapInvInit DEF Init, PosInv, LogInv
  <1>2. LogInv => LogIsOwn
    BY DEF LogInv, LogIsOwn, NoQuery
  <1> QED
    BY <1>1, <1>2, HeapInvStep, PosInvStep, LogInvStep, PTL DEF Spec

-----------------------------------------------------------------------------
(* The table of the program.  The first pass gives indices 0, 1, ... to the names *)
(* that have a capability; the second pass counts in the same way, so as long as   *)
(* it finds the same, it is at the index that the first pass gave to the name.      *)

Found(i) == first[Order[i]] # Nothing
Place(i) == table[Order[i]]

\* The first p - 1 positions are through, and n of them have got a place.
Placed(p, n) ==
    /\ \A i \in 1..Len(Order) : IF i < p /\ Found(i) THEN Place(i) \in 0..(n - 1)
                                                     ELSE Place(i) = -1 /\ ~Found(i)
    /\ \A i, j \in 1..Len(Order) : i < j /\ Found(i) /\ Found(j) => Place(i) < Place(j)
    /\ \A v \in 0..(n - 1) : \E i \in 1..Len(Order) : Found(i) /\ Place(i) = v

Right(i) ==
    IF Found(i) THEN Place(i) < Len(mapped) /\ mapped[Place(i) + 1] = first[Order[i]]
                ELSE Place(i) = -1

TablesInv ==
    /\ table \in [Names -> Int] /\ first \in [Names -> Entries] /\ mapped \in Seq(Entries)
    /\ differs \in Nat
    /\ phase = "idle" => Placed(1, 0)
    /\ phase \in {"idle", "push", "base"} => differs = 0 /\ mapped = <<>>
    /\ phase = "push" => Placed(pos, start)
    /\ phase \in {"base", "map"} => \E n \in Nat : Placed(Len(Order) + 1, n)
    /\ phase = "map" => differs < pos
    /\ phase = "map" /\ differs = 0 =>
          /\ Len(mapped) = start
          /\ \A i \in 1..Len(Order) : Found(i) => (Place(i) < start <=> i < pos)
    /\ phase \in {"map", "running"} =>
          \A i \in 1..Len(Order) :
              (differs = 0 \/ i < differs) /\ (phase = "running" \/ i < pos) => Right(i)

\* The first pass gives the next index to the name at position p.
LEMMA OnePlaceMore ==
    ASSUME TablesInv, NEW p \in 1..Len(Order), NEW n \in Nat, Placed(p, n), NEW e \in KernelCaps,
           table' = [table EXCEPT ![Order[p]] = n], first' = [first EXCEPT ![Order[p]] = e]
    PROVE  /\ \A i \in 1..Len(Order) : /\ i # p => Found(i)' = Found(i) /\ Place(i)' = Place(i)
                                       /\ i = p => Found(i)' /\ Place(i)' = n
  <1>1. table \in [Names -> Int] /\ first \in [Names -> Entries]
    BY DEF TablesInv
  <1>2. Order[p] \in Names /\ \A i \in 1..Len(Order) : i # p => Order[i] # Order[p]
    BY TableIsList
  <1>3. e # Nothing
    BY DeadIsNone
  <1> QED
    BY <1>1, <1>2, <1>3 DEF Found, Place

LEMMA PlacedMore ==
    ASSUME TablesInv, NEW p \in 1..Len(Order), NEW n \in Nat, Placed(p, n), NEW e \in KernelCaps,
           table' = [table EXCEPT ![Order[p]] = n], first' = [first EXCEPT ![Order[p]] = e]
    PROVE  Placed(p + 1, n + 1)'
  <1>1. \A i \in 1..Len(Order) : /\ i # p => Found(i)' = Found(i) /\ Place(i)' = Place(i)
                                 /\ i = p => Found(i)' /\ Place(i)' = n
    BY OnePlaceMore
  <1>2. Len(Order) \in Nat
    BY TableIsList
  <1>3. \A i \in 1..Len(Order) : IF i < p /\ Found(i) THEN Place(i) \in 0..(n - 1)
                                                      ELSE Place(i) = -1 /\ ~Found(i)
    BY DEF Placed
  <1>4. ASSUME NEW i \in 1..Len(Order)
        PROVE  IF i < p + 1 /\ Found(i)' THEN Place(i)' \in 0..((n + 1) - 1)
                                         ELSE Place(i)' = -1 /\ ~Found(i)'
    <2>1. CASE i = p
      BY <1>1, <2>1
    <2>2. CASE i # p
      <3>1. Found(i)' = Found(i) /\ Place(i)' = Place(i) /\ (i < p + 1 <=> i < p)
        BY <1>1, <1>2, <2>2
      <3>2. CASE i < p /\ Found(i)
        <4>1. Place(i) \in 0..(n - 1)
          BY <1>3, <3>2
        <4>2. Place(i) \in 0..((n + 1) - 1)
          BY <4>1
        <4> QED
          BY <3>1, <3>2, <4>2
      <3>3. CASE ~(i < p /\ Found(i))
        <4>1. Place(i) = -1 /\ ~Found(i)
          BY <1>3, <3>3
        <4> QED
          BY <3>1, <3>3, <4>1
      <3> QED
        BY <3>2, <3>3
    <2> QED
      BY <2>1, <2>2
  <1>5. ASSUME NEW i \in 1..Len(Order), NEW j \in 1..Len(Order), i < j, Found(i)', Found(j)'
        PROVE  Place(i)' < Place(j)'
    <2>1. CASE j = p
      <3>1. i # p /\ Place(j)' = n /\ Found(i) /\ Place(i)' = Place(i)
        BY <1>1, <1>5, <2>1
      <3>2. Place(i) \in 0..(n - 1)
        BY <1>3, <3>1
      <3> QED
        BY <3>1, <3>2
    <2>2. CASE j # p
      <3>1. Found(j) /\ Place(j)' = Place(j)
        BY <1>1, <1>5, <2>2
      <3>2. j < p
        BY <1>3, <3>1
      <3>3. i # p /\ Found(i) /\ Place(i)' = Place(i)
        BY <1>1, <1>2, <1>5, <3>2
      <3> QED
        BY <1>5, <3>1, <3>3 DEF Placed
    <2> QED
      BY <2>1, <2>2
  <1>6. ASSUME NEW v \in 0..((n + 1) - 1)
        PROVE  \E i \in 1..Len(Order) : Found(i)' /\ Place(i)' = v
    <2>1. CASE v = n
      BY <1>1, <2>1
    <2>2. CASE v # n
      <3>1. v \in 0..(n - 1)
        BY <2>2
      <3>2. PICK i \in 1..Len(Order) : Found(i) /\ Place(i) = v
        BY <3>1 DEF Placed
      <3>3. i # p
        BY <1>3, <3>2
      <3> QED
        BY <1>1, <3>2, <3>3
    <2> QED
      BY <2>1, <2>2
  <1> QED
    BY <1>4, <1>5, <1>6 DEF Placed

\* A name that is left out has no place.
LEMMA PlacedSame ==
    ASSUME NEW p \in 1..Len(Order), NEW n \in Nat, Placed(p, n)
    PROVE  Placed(p + 1, n)
  <1>1. Len(Order) \in Nat
    BY TableIsList
  <1>2. ASSUME NEW i \in 1..Len(Order)
        PROVE  IF i < p + 1 /\ Found(i) THEN Place(i) \in 0..(n - 1) ELSE Place(i) = -1 /\ ~Found(i)
    <2>1. IF i < p /\ Found(i) THEN Place(i) \in 0..(n - 1) ELSE Place(i) = -1 /\ ~Found(i)
      BY DEF Placed
    <2>2. i < p => i < p + 1
      BY <1>1
    <2> QED
      BY <2>1, <2>2
  <1> QED
    BY <1>2 DEF Placed

\* As long as the second pass has found the same as the first, the place of the name at
\* pos is the index the second pass is at.
LEMMA SamePlace ==
    ASSUME TablesInv, PosInv, phase = "map", differs = 0, Found(pos)
    PROVE  Place(pos) = start /\ \A i \in 1..Len(Order) : Found(i) => (Place(i) < start + 1 <=> i < pos + 1)
  <1>1. pos \in 1..Len(Order) /\ start \in Nat /\ Len(Order) \in Nat
    BY TableIsList DEF PosInv
  <1>2. \A i \in 1..Len(Order) : Found(i) => (Place(i) < start <=> i < pos)
    BY DEF TablesInv
  <1>3. PICK n \in Nat : Placed(Len(Order) + 1, n)
    BY DEF TablesInv
  <1>4. \A i \in 1..Len(Order) : Found(i) => Place(i) \in 0..(n - 1)
    BY <1>3 DEF Placed
  <1>5. \A i, j \in 1..Len(Order) : i < j /\ Found(i) /\ Found(j) => Place(i) < Place(j)
    BY <1>3 DEF Placed
  <1>6. Place(pos) = start
    <2>1. Place(pos) \in 0..(n - 1) /\ ~(Place(pos) < start)
      BY <1>1, <1>2, <1>4
    <2>2. start \in 0..(n - 1)
      BY <1>1, <2>1
    <2>3. PICK j \in 1..Len(Order) : Found(j) /\ Place(j) = start
      BY <1>3, <2>2 DEF Placed
    <2>4. ~(j < pos)
      BY <1>1, <1>2, <2>3
    <2>5. ~(pos < j)
      BY <1>1, <1>5, <2>1, <2>3
    <2>6. j = pos
      BY <1>1, <2>4, <2>5
    <2> QED
      BY <2>3, <2>6
  <1>7. ASSUME NEW i \in 1..Len(Order), Found(i) PROVE Place(i) < start + 1 <=> i < pos + 1
    <2>1. Place(i) \in 0..(n - 1)
      BY <1>4, <1>7
    <2>2. CASE i < pos
      <3>1. Place(i) < start
        BY <1>2, <1>7, <2>2
      <3> QED
        BY <1>1, <2>1, <2>2, <3>1
    <2>3. CASE i = pos
      BY <1>1, <1>6, <2>3
    <2>4. CASE pos < i
      <3>1. start < Place(i)
        BY <1>1, <1>5, <1>6, <1>7, <2>4
      <3> QED
        BY <1>1, <2>1, <2>4, <3>1
    <2> QED
      BY <1>1, <2>2, <2>3, <2>4
  <1> QED
    BY <1>6, <1>7

LEMMA FailKeeps == TablesInv /\ Fail => TablesInv'
  BY DEF TablesInv, Fail

LEMMA PushKeeps ==
    ASSUME TablesInv, PosInv, phase = "push", (\E e \in KernelCaps : PushCap(e)) \/ PushSkip
    PROVE  TablesInv'
  <1>1. PICK p \in 1..Len(Order), n \in Nat : p = pos /\ n = start
    BY DEF PosInv
  <1>2. Placed(p, n) /\ differs = 0 /\ mapped = <<>>
    BY <1>1 DEF TablesInv
  <1>3. table \in [Names -> Int] /\ first \in [Names -> Entries] /\ mapped \in Seq(Entries)
    BY DEF TablesInv
  <1>4. Len(Order) \in Nat /\ Order[p] \in Names
    BY TableIsList
  <1>5. ASSUME NEW m \in Nat, Placed(p + 1, m)', Advance(m, "base"), differs' = differs,
               mapped' = mapped, table' \in [Names -> Int], first' \in [Names -> Entries]
        PROVE  TablesInv'
    <2>1. CASE p = Len(Order)
      <3>1. phase' = "base" /\ Placed(Len(Order) + 1, m)'
        BY <1>1, <1>5, <2>1 DEF Advance
      <3> QED
        BY <1>2, <1>3, <1>5, <3>1 DEF TablesInv
    <2>2. CASE p # Len(Order)
      <3>1. phase' = "push" /\ pos' = p + 1 /\ start' = m
        BY <1>1, <1>5, <2>2 DEF Advance
      <3>2. Placed(pos, start)'
        BY <1>5, <3>1
      <3> QED
        BY <1>2, <1>3, <1>5, <3>1, <3>2 DEF TablesInv
    <2> QED
      BY <2>1, <2>2
  <1>6. CASE \E e \in KernelCaps : PushCap(e)
    <2>1. PICK e \in KernelCaps : PushCap(e)
      BY <1>6
    <2>2. table' = [table EXCEPT ![Order[p]] = n] /\ first' = [first EXCEPT ![Order[p]] = e]
      BY <1>1, <2>1 DEF PushCap, Name
    <2>3. Placed(p + 1, n + 1)'
      BY <1>2, <2>2, PlacedMore
    <2>4. e \in Entries /\ n + 1 \in Nat
      BY DeadIsNone
    <2>5. table' \in [Names -> Int] /\ first' \in [Names -> Entries]
      <3>1. n \in Int /\ Order[p] \in Names
        BY <1>4
      <3>2. [table EXCEPT ![Order[p]] = n] \in [Names -> Int]
        BY <1>3, <3>1
      <3>3. [first EXCEPT ![Order[p]] = e] \in [Names -> Entries]
        BY <1>3, <2>4, <3>1
      <3> QED
        BY <2>2, <3>2, <3>3
    <2>6. Advance(n + 1, "base") /\ differs' = differs /\ mapped' = mapped
      BY <1>1, <2>1 DEF PushCap
    <2> QED
      BY <1>5, <2>3, <2>4, <2>5, <2>6
  <1>7. CASE PushSkip
    <2>1. UNCHANGED <<table, first, mapped, differs>> /\ Advance(n, "base")
      BY <1>1, <1>7 DEF PushSkip
    <2>2. Placed(p + 1, n)
      BY <1>2, PlacedSame
    <2>3. Placed(p + 1, n)'
      BY <2>1, <2>2 DEF Placed, Found, Place
    <2> QED
      BY <1>3, <1>5, <2>1, <2>3
  <1> QED
    BY <1>6, <1>7

\* What is true of a name stays true when the second pass maps another capability.
LEMMA RightStays ==
    ASSUME TablesInv, UNCHANGED <<table, first>>, NEW e \in Entries,
           mapped' = mapped \/ mapped' = Append(mapped, e),
           NEW i \in 1..Len(Order), Right(i), Found(i) => Place(i) \in Nat
    PROVE  Right(i)'
  <1>1. mapped \in Seq(Entries)
    BY DEF TablesInv
  <1>2. Found(i)' = Found(i) /\ Place(i)' = Place(i)
    BY DEF Found, Place
  <1>3. CASE mapped' = mapped
    BY <1>2, <1>3 DEF Right
  <1>4. CASE mapped' = Append(mapped, e)
    <2>1. /\ Len(mapped) \in Nat /\ Len(mapped') = Len(mapped) + 1
          /\ \A k \in 1..Len(mapped) : mapped'[k] = mapped[k]
      BY <1>1, <1>4, AppendProperties, LenProperties
    <2>2. CASE Found(i)
      <3>1. Place(i) + 1 \in 1..Len(mapped) /\ mapped[Place(i) + 1] = first[Order[i]]
        BY <2>1, <2>2 DEF Right
      <3> QED
        BY <1>2, <2>1, <2>2, <3>1 DEF Right
    <2>3. CASE ~Found(i)
      BY <1>2, <2>3 DEF Right
    <2> QED
      BY <2>2, <2>3
  <1> QED
    BY <1>3, <1>4

\* One name of the second pass: e is what it has found, mapped at the index start, or
\* nothing and no index is used.
LEMMA SecondKeeps ==
    ASSUME TablesInv, PosInv, phase = "map", UNCHANGED <<table, first>>,
           NEW e \in KernelCaps \cup {Nothing}, Compare(e),
           \/ e # Nothing /\ mapped' = Append(mapped, e) /\ Advance(start + 1, "running")
           \/ e = Nothing /\ mapped' = mapped /\ Advance(start, "running")
    PROVE  TablesInv'
  <1>1. PICK p \in 1..Len(Order), n \in Nat : p = pos /\ n = start
    BY DEF PosInv
  <1>2. table \in [Names -> Int] /\ first \in [Names -> Entries] /\ mapped \in Seq(Entries)
    BY DEF TablesInv
  <1>3. Len(Order) \in Nat
    BY TableIsList
  <1>4. PICK t \in Nat : Placed(Len(Order) + 1, t)
    BY DEF TablesInv
  <1>5. Placed(Len(Order) + 1, t)' /\ \A i \in 1..Len(Order) : Found(i)' = Found(i) /\ Place(i)' = Place(i)
    BY <1>4 DEF Placed, Found, Place
  <1>6. \A i \in 1..Len(Order) : IF Found(i) THEN Place(i) \in Nat ELSE Place(i) = -1
    BY <1>3, <1>4 DEF Placed
  <1>7. e \in Entries
    BY DeadIsNone DEF Entries
  <1>8. differs \in Nat /\ differs < p /\ differs' = (IF differs = 0 /\ first[Order[p]] # e THEN p ELSE differs)
    BY <1>1 DEF TablesInv, Compare, Name
  <1>9. mapped' \in Seq(Entries)
    BY <1>2, <1>7, AppendProperties
  <1>10. differs' = 0 => /\ differs = 0 /\ first[Order[p]] = e
    BY <1>8
  <1>11. PICK m \in Nat : /\ Advance(m, "running")
                          /\ m = IF e = Nothing THEN n ELSE n + 1
    BY <1>1
  <1>12. differs' = 0 => /\ Len(mapped) = n /\ Len(mapped') = m
                         /\ \A i \in 1..Len(Order) : Found(i) => (Place(i) < m <=> i < p + 1)
    <2> SUFFICES ASSUME differs' = 0
                 PROVE  /\ Len(mapped) = n /\ Len(mapped') = m
                        /\ \A i \in 1..Len(Order) : Found(i) => (Place(i) < m <=> i < p + 1)
      OBVIOUS
    <2>1. differs = 0 /\ first[Order[p]] = e /\ Len(mapped) = n
      BY <1>1, <1>10 DEF TablesInv
    <2>2. CASE e = Nothing
      <3>1. \A i \in 1..Len(Order) : Found(i) => (Place(i) < n <=> i < p)
        BY <1>1, <2>1 DEF TablesInv
      <3>2. ~Found(p)
        BY <2>1, <2>2 DEF Found
      <3>3. \A i \in 1..Len(Order) : Found(i) => (i < p <=> i < p + 1)
        BY <1>3, <3>2
      <3> QED
        BY <1>11, <2>1, <2>2, <3>1, <3>3
    <2>3. CASE e # Nothing
      <3>1. Found(p)
        BY <2>1, <2>3 DEF Found
      <3>2. \A i \in 1..Len(Order) : Found(i) => (Place(i) < n + 1 <=> i < p + 1)
        BY <1>1, <2>1, <3>1, SamePlace
      <3>3. Len(mapped') = n + 1
        BY <1>2, <1>7, <2>1, <2>3, AppendProperties
      <3> QED
        BY <1>11, <2>1, <2>3, <3>2, <3>3
    <2> QED
      BY <2>2, <2>3
  <1>13. ASSUME NEW i \in 1..Len(Order), differs' = 0 \/ i < differs', i < p + 1 PROVE Right(i)'
    <2>1. CASE i < p
      <3>1. differs = 0 \/ i < differs
        BY <1>8, <1>13
      <3>2. Right(i)
        BY <1>1, <2>1, <3>1 DEF TablesInv
      <3> QED
        BY <1>6, <1>7, <3>2, RightStays
    <2>2. CASE i = p
      <3>1. differs' = 0
        BY <1>8, <1>13, <2>2
      <3>2. differs = 0 /\ first[Order[p]] = e /\ Len(mapped) = n /\ Len(mapped') = m
        BY <1>10, <1>12, <3>1
      <3>3. CASE e = Nothing
        <4>1. ~Found(p)
          BY <3>2, <3>3 DEF Found
        <4> QED
          BY <1>5, <1>6, <2>2, <4>1 DEF Right
      <3>4. CASE e # Nothing
        <4>1. Found(p)
          BY <3>2, <3>4 DEF Found
        <4>2. Place(p) = n
          BY <1>1, <3>2, <4>1, SamePlace
        <4>3. mapped'[n + 1] = e /\ Len(mapped') = n + 1
          BY <1>2, <1>7, <3>2, <3>4, AppendProperties
        <4> QED
          BY <1>5, <2>2, <3>2, <4>1, <4>2, <4>3 DEF Right
      <3> QED
        BY <3>3, <3>4
    <2>3. ~(p < i)
      BY <1>3, <1>13
    <2> QED
      BY <1>3, <2>1, <2>2, <2>3
  <1>14. differs' \in Nat /\ differs' < p + 1 /\ table' \in [Names -> Int] /\ first' \in [Names -> Entries]
    BY <1>2, <1>8
  <1>15. CASE p = Len(Order)
    <2>1. phase' = "running"
      BY <1>1, <1>11, <1>15 DEF Advance
    <2>2. \A i \in 1..Len(Order) : i < p + 1
      BY <1>3, <1>15
    <2>3. \A i \in 1..Len(Order) : differs' = 0 \/ i < differs' => Right(i)'
      BY <1>13, <2>2
    <2> QED
      BY <1>9, <1>14, <2>1, <2>3 DEF TablesInv
  <1>16. CASE p # Len(Order)
    <2>1. phase' = "map" /\ pos' = p + 1 /\ start' = m
      BY <1>1, <1>11, <1>16 DEF Advance
    <2>2. differs' = 0 => /\ Len(mapped') = start'
                          /\ \A i \in 1..Len(Order) : Found(i)' => (Place(i)' < start' <=> i < pos')
      BY <1>5, <1>12, <2>1
    <2>3. \A i \in 1..Len(Order) : (differs' = 0 \/ i < differs') /\ i < pos' => Right(i)'
      BY <1>13, <2>1
    <2>4. differs' < pos'
      BY <1>14, <2>1
    <2> QED
      BY <1>5, <1>9, <1>14, <2>1, <2>2, <2>3, <2>4 DEF TablesInv
  <1> QED
    BY <1>15, <1>16

LEMMA TablesInvStep == HeapInv /\ PosInv /\ TablesInv /\ [Next]_vars => TablesInv'
  <1> SUFFICES ASSUME HeapInv, PosInv, TablesInv, [Next]_vars PROVE TablesInv'
    OBVIOUS
  <1>1. CASE UNCHANGED execVars
    BY <1>1 DEF TablesInv, Placed, Found, Place, Right, execVars
  <1>2. CASE Script
    <2>1. CASE Exec
      <3>1. phase = "idle" /\ UNCHANGED <<table, first, differs, mapped>>
        BY <2>1 DEF Exec, Working
      <3>2. phase' = "failed" \/ (phase' = "push" /\ pos' = 1 /\ start' = 0)
        BY <2>1 DEF Exec, MakeLog
      <3>3. Placed(1, 0) /\ differs = 0 /\ mapped = <<>>
        BY <3>1 DEF TablesInv
      <3>4. Placed(1, 0)'
        BY <3>1, <3>3 DEF Placed, Found, Place
      <3>5. CASE phase' = "failed"
        BY <3>1, <3>5 DEF TablesInv
      <3>6. CASE phase' = "push" /\ pos' = 1 /\ start' = 0
        <4>1. Placed(pos, start)'
          BY <3>4, <3>6
        <4> QED
          BY <3>1, <3>3, <3>6, <4>1 DEF TablesInv
      <3> QED
        BY <3>2, <3>5, <3>6
    <2> QED
      BY <1>1, <1>2, <2>1, ScriptIsIdle
  <1>3. CASE PushInitialCaps
    <2>1. phase = "push" /\ (Resolve \/ Fail)
      BY <1>3 DEF PushInitialCaps
    <2>2. (\E e \in KernelCaps : PushCap(e)) \/ PushSkip \/ Fail
      <3>1. (\E e \in KernelCaps : Pass(e)) \/ Skip \/ Fail
        BY <2>1, PassIsCap
      <3> QED
        BY <2>1, <3>1 DEF Pass, Skip
    <2> QED
      BY <2>1, <2>2, FailKeeps, PushKeeps
  <1>4. CASE MapBase
    <2>1. /\ phase = "base" /\ phase' = "map" /\ pos = 1 /\ start = 0
          /\ UNCHANGED <<pos, start, table, first, differs, mapped>>
      BY <1>4 DEF MapBase, PosInv
    <2>2. PICK n \in Nat : Placed(Len(Order) + 1, n)
      BY <2>1 DEF TablesInv
    <2>3. Placed(Len(Order) + 1, n)' /\ differs = 0 /\ mapped = <<>>
      BY <2>1, <2>2 DEF TablesInv, Placed, Found, Place
    <2>4. \A i \in 1..Len(Order) : Found(i)' => ~(Place(i)' < 0) /\ ~(i < 1)
      <3>1. \A i \in 1..Len(Order) : Found(i)' => Place(i)' \in 0..(n - 1)
        BY <2>3 DEF Placed
      <3> QED
        BY <3>1, TableIsList
    <2>5. Len(mapped') = 0
      BY <2>1, <2>3
    <2>6. \A i \in 1..Len(Order) : ~(i < pos')
      BY <2>1, TableIsList
    <2> QED
      BY <2>1, <2>3, <2>4, <2>5, <2>6 DEF TablesInv
  <1>5. CASE MapInitialCaps
    <2>1. phase = "map" /\ Resolve
      BY <1>5 DEF MapInitialCaps
    <2>2. (\E e \in KernelCaps : MapCap(e)) \/ MapSkip \/ Fail
      <3>1. (\E e \in KernelCaps : Pass(e)) \/ Skip \/ Fail
        BY <2>1, PassIsCap
      <3> QED
        BY <2>1, <3>1 DEF Pass, Skip
    <2>3. CASE \E e \in KernelCaps : MapCap(e)
      <3>1. PICK e \in KernelCaps : MapCap(e)
        BY <2>3
      <3>2. CASE Fail
        BY <3>2, FailKeeps
      <3>3. CASE /\ mapped' = Append(mapped, e) /\ Compare(e) /\ Advance(start + 1, "running")
                 /\ UNCHANGED <<table, first>>
        <4>1. e # Nothing /\ e \in KernelCaps \cup {Nothing}
          BY DeadIsNone
        <4> QED
          BY <2>1, <3>3, <4>1, SecondKeeps
      <3> QED
        BY <3>1, <3>2, <3>3 DEF MapCap
    <2>4. CASE MapSkip
      <3>1. PICK e \in KernelCaps \cup {Nothing} : e = Nothing
        OBVIOUS
      <3>2. /\ e = Nothing /\ mapped' = mapped /\ Compare(e) /\ Advance(start, "running")
            /\ UNCHANGED <<table, first>>
        BY <2>4, <3>1 DEF MapSkip
      <3> QED
        BY <2>1, <3>2, SecondKeeps
    <2> QED
      BY <2>2, <2>3, <2>4, FailKeeps
  <1>6. CASE Boot \/ Thread
    BY <1>1, <1>6 DEF Boot, Thread, StaticInit, ServerStart, ServerRelock, InitLib, LoadNed,
                      ThreadRegistry, ThreadUnlock
  <1>7. CASE Collect
    BY <1>1, <1>7 DEF Collect
  <1>8. CASE \E x \in Keys : ForeignRegister(x)
    BY <1>1, <1>8 DEF ForeignRegister
  <1>9. CASE UNCHANGED vars
    BY <1>1, <1>9 DEF vars, execVars
  <1> QED
    BY <1>2, <1>3, <1>4, <1>5, <1>6, <1>7, <1>8, <1>9 DEF Next, Launch

LEMMA TablesInvInit == Init => TablesInv
  <1> SUFFICES ASSUME Init PROVE TablesInv
    OBVIOUS
  <1>1. /\ table = [x \in Names |-> -1] /\ first = [x \in Names |-> Nothing]
        /\ differs = 0 /\ mapped = <<>> /\ phase = "idle"
    BY DEF Init
  <1>2. Nothing \in Entries
    BY DEF Entries
  <1>3. table \in [Names -> Int] /\ first \in [Names -> Entries] /\ mapped \in Seq(Entries)
    BY <1>1, <1>2
  <1>4. \A i \in 1..Len(Order) : Place(i) = -1 /\ ~Found(i)
    BY <1>1, TableIsList DEF Place, Found
  <1>5. Placed(1, 0)
    BY <1>4, TableIsList DEF Placed
  <1> QED
    BY <1>1, <1>3, <1>5 DEF TablesInv

\* When a program runs, the capability at the index that its table has for a name is the
\* one the first pass found for that name, and names that were left out have no index: at
\* all names, or up to the first name for which a query answered the second pass otherwise.
THEOREM ProgramsCaps == Spec => []NamesAreMapped
  <1>1. Init => HeapInv /\ PosInv /\ TablesInv
    BY HeapInvInit, TablesInvInit DEF Init, PosInv
  <1>2. TablesInv => NamesAreMapped
    <2> SUFFICES ASSUME TablesInv, phase = "running", NEW i \in DOMAIN Order, differs = 0 \/ i < differs
                 PROVE  IF first[Order[i]] = Nothing THEN table[Order[i]] = -1
                        ELSE table[Order[i]] < Len(mapped)
                             /\ mapped[table[Order[i]] + 1] = first[Order[i]]
      BY DEF NamesAreMapped
    <2>1. Right(i)
      BY TableIsList DEF TablesInv
    <2> QED
      BY <2>1 DEF Right, Found, Place
  <1> QED
    BY <1>1, <1>2, HeapInvStep, PosInvStep, TablesInvStep, PTL DEF Spec
=============================================================================
