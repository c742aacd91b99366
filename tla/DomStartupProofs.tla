-------------------------- MODULE DomStartupProofs --------------------------
(***************************************************************************)
(* Proofs about DomStartup, for any command lines, descriptors and peers.  *)
(***************************************************************************)
EXTENDS DomStartup, NatFacts, TLAPS

\* u uses f, unless somebody else has closed it.
Holds(f, u) == Has(f, u) \/ Robbed(f, u)

\* The descriptor that a peer's thread has, or is about to read from its box, is the
\* one that accept() returned for that peer.
Owns(p) ==
    /\ handler[p] = "serving" => Holds(hfd[p], <<"conn", p>>)
    /\ handler[p] = "start" => Holds(box[p], <<"conn", p>>)

\* A listener has no socket, or the one it listens on.
Listens(k) == lsock[k] = NoFd \/ (listener[k] = "accept" /\ Holds(lsock[k], <<"listen", k>>))

\* The parts of the types that the argument needs.
Tables ==
    /\ DOMAIN fdt = Fds /\ fdt = [f \in Fds |-> fdt[f]]
    /\ handler \in [Peers -> {"none", "start", "serving"}]
    /\ hfd = [p \in Peers |-> hfd[p]] /\ box = [p \in Peers |-> box[p]]
    /\ lsock = [k \in Kinds |-> lsock[k]] /\ listener = [k \in Kinds |-> listener[k]]

\* main has not started the listeners that do not run.
Order ==
    /\ main \in {"options", "net", "server"} => listener["lua"] = "none"
    /\ main \in {"options", "net", "server", "second"} => listener["binary"] = "none"

SInv == Tables /\ Order /\ (\A p \in Peers : Owns(p)) /\ (\A k \in Kinds : Listens(k))

-----------------------------------------------------------------------------
(* Descriptors. *)

\* The lowest free descriptor is free.
LEMMA LowestIsFree == ASSUME FreeFds # {} PROVE Min(FreeFds) \in Fds /\ fdt[Min(FreeFds)] = Free
  <1>1. FreeFds \subseteq Fds /\ Fds \subseteq Nat
    BY FdsAssumption DEF FreeFds
  <1>2. \E m \in FreeFds : \A n \in FreeFds : m <= n
    BY <1>1, LeastNat
  <1>3. Min(FreeFds) = CHOOSE x \in FreeFds : \A y \in FreeFds : x <= y
    BY DEF Min
  <1>4. Min(FreeFds) \in FreeFds
    BY <1>2, <1>3
  <1> QED
    BY <1>4 DEF FreeFds

\* When v takes a descriptor, everybody else keeps his.
LEMMA TakeKeeps ==
    ASSUME Tables, NEW v, FreeFds # {}, Take(v)
    PROVE  /\ DOMAIN fdt' = Fds /\ fdt' = [f \in Fds |-> fdt'[f]]
           /\ Min(FreeFds) \in Fds /\ fdt'[Min(FreeFds)] = v
           /\ robbed' \subseteq robbed
           /\ \A f, u : u # v /\ Robbed(f, u) => Robbed(f, u)'
           /\ \A f, u : u # v /\ u # Free /\ Holds(f, u) => Holds(f, u)'
  <1>1. Min(FreeFds) \in Fds /\ fdt[Min(FreeFds)] = Free
    BY LowestIsFree
  <1>2. /\ fdt' = [fdt EXCEPT ![Min(FreeFds)] = v]
        /\ robbed' = robbed \ {<<Min(FreeFds), v>>}
    BY DEF Take
  <1>3. /\ DOMAIN fdt' = Fds /\ fdt' = [f \in Fds |-> fdt'[f]]
        /\ fdt'[Min(FreeFds)] = v
        /\ \A f \in Fds : fdt[f] # Free => fdt'[f] = fdt[f]
    BY <1>1, <1>2 DEF Tables
  <1>4. \A f, u : u # v /\ Robbed(f, u) => Robbed(f, u)'
    BY <1>2 DEF Robbed
  <1>5. \A f, u : u # Free /\ Has(f, u) => Has(f, u)'
    BY <1>3 DEF Has
  <1> QED
    BY <1>1, <1>2, <1>3, <1>4, <1>5 DEF Holds

\* When somebody closes a descriptor, everybody else keeps his, or is robbed of it.
LEMMA CloseKeeps ==
    ASSUME Tables, NEW g, NEW us, CloseAs(g, us)
    PROVE  /\ DOMAIN fdt' = Fds /\ fdt' = [f \in Fds |-> fdt'[f]]
           /\ \A x \in robbed' \ robbed : g \in Fds /\ fdt[g] \notin us \cup {Free}
           /\ \A f, u : u \notin us /\ Robbed(f, u) => Robbed(f, u)'
           /\ \A f, u : u \notin us \cup {Free} /\ Holds(f, u) => Holds(f, u)'
  <1>1. /\ fdt' = IF g \in Fds THEN [fdt EXCEPT ![g] = Free] ELSE fdt
        /\ robbed' = (robbed \ ({g} \X us)) \cup
                 (IF g \in Fds /\ fdt[g] \notin us \cup {Free} THEN {<<g, fdt[g]>>} ELSE {})
    BY DEF CloseAs
  <1>2. DOMAIN fdt' = Fds /\ fdt' = [f \in Fds |-> fdt'[f]]
    BY <1>1 DEF Tables
  <1>3. \A x \in robbed' \ robbed : g \in Fds /\ fdt[g] \notin us \cup {Free}
    BY <1>1
  <1>4. ASSUME NEW f, NEW u, u \notin us, Robbed(f, u) PROVE Robbed(f, u)'
    <2>1. <<f, u>> \notin {g} \X us
      BY <1>4
    <2> QED
      BY <1>1, <1>4, <2>1 DEF Robbed
  <1>5. ASSUME NEW f, NEW u, u \notin us \cup {Free}, Has(f, u) PROVE Holds(f, u)'
    <2>1. CASE f = g
      BY <1>1, <1>5, <2>1 DEF Has, Holds, Robbed
    <2>2. CASE f # g
      BY <1>1, <1>5, <2>2 DEF Has, Holds, Tables
    <2> QED
      BY <2>1, <2>2
  <1> QED
    BY <1>2, <1>3, <1>4, <1>5 DEF Holds

\* The users are told apart.
LEMMA UsersDiffer ==
    /\ \A p, q \in Peers : <<"conn", p>> = <<"conn", q>> => p = q
    /\ \A j, k \in Kinds : <<"listen", j>> = <<"listen", k>> => j = k
    /\ \A p \in Peers, k \in Kinds : /\ <<"conn", p>> # <<"listen", k>>
                                     /\ <<"conn", p>> # <<"client", k>>
                                     /\ <<"conn", p>> # <<"open", k>>
    /\ \A j, k \in Kinds : /\ <<"listen", j>> # <<"client", k>>
                           /\ <<"listen", j>> # <<"open", k>>
                           /\ <<"open", j>> # <<"client", k>>
    /\ \A x : <<"conn", x>> # Free /\ <<"listen", x>> # Free /\ <<"client", x>> # Free
  BY DEF Free

-----------------------------------------------------------------------------
(* The steps. *)

\* Steps that leave the handlers and the listening sockets alone, and in which both keep
\* what they have.
LEMMA KeepAll ==
    ASSUME SInv, Tables', Order', UNCHANGED <<handler, hfd, box, lsock>>,
           \A k \in Kinds : lsock[k] # NoFd /\ listener[k] = "accept" => listener'[k] = "accept",
           \A f : \A p \in Peers : Holds(f, <<"conn", p>>) => Holds(f, <<"conn", p>>)',
           \A f : \A k \in Kinds : Holds(f, <<"listen", k>>) => Holds(f, <<"listen", k>>)'
    PROVE  SInv'
  <1>1. ASSUME NEW p \in Peers PROVE Owns(p)'
    BY DEF SInv, Owns
  <1>2. ASSUME NEW k \in Kinds PROVE Listens(k)'
    BY DEF SInv, Listens
  <1> QED
    BY <1>1, <1>2 DEF SInv

\* Steps that leave descriptors, handlers and listeners alone.
LEMMA QuietKeeps ==
    ASSUME SInv, UNCHANGED <<main, fdt, handler, hfd, box, listener, lsock, robbed>>
    PROVE  SInv'
  BY KeepAll DEF SInv, Tables, Order, Holds, Has, Robbed

\* Steps that take a descriptor for the client.
LEMMA TakingKeeps ==
    ASSUME SInv, NEW k \in Kinds, NEW v \in {"client", "open"}, FreeFds # {}, Take(<<v, k>>),
           UNCHANGED <<main, handler, hfd, box, listener, lsock>>
    PROVE  SInv'
  <1>1. Tables' /\ Order'
    BY TakeKeeps DEF SInv, Tables, Order
  <1>2. /\ \A p \in Peers : <<"conn", p>> # <<v, k>> /\ <<"conn", p>> # Free
        /\ \A j \in Kinds : <<"listen", j>> # <<v, k>> /\ <<"listen", j>> # Free
    BY UsersDiffer
  <1>3. \A f, u : u # <<v, k>> /\ u # Free /\ Holds(f, u) => Holds(f, u)'
    BY TakeKeeps DEF SInv
  <1> QED
    BY <1>1, <1>2, <1>3, KeepAll

LEMMA AcceptKeeps == ASSUME SInv, NEW k \in Kinds, NEW p \in Peers, Accept(k, p) PROVE SInv'
  <1>1. /\ FreeFds # {} /\ Take(<<"conn", p>>) /\ handler[p] = "none"
        /\ box' = [box EXCEPT ![p] = Min(FreeFds)]
        /\ handler' = [handler EXCEPT ![p] = "start"]
        /\ UNCHANGED <<main, hfd, listener, lsock>>
    BY DEF Accept, startVars
  <1>2. /\ DOMAIN fdt' = Fds /\ fdt' = [f \in Fds |-> fdt'[f]]
        /\ Min(FreeFds) \in Fds /\ fdt'[Min(FreeFds)] = <<"conn", p>>
        /\ \A f, u : u # <<"conn", p>> /\ u # Free /\ Holds(f, u) => Holds(f, u)'
    BY <1>1, TakeKeeps DEF SInv
  <1>3. Tables' /\ Order'
    BY <1>1, <1>2 DEF SInv, Tables, Order
  <1>4. ASSUME NEW q \in Peers PROVE Owns(q)'
    <2>1. CASE q = p
      <3>1. handler'[p] = "start" /\ box'[p] = Min(FreeFds)
        BY <1>1 DEF SInv, Tables
      <3>2. Has(box[p], <<"conn", p>>)'
        BY <1>2, <3>1 DEF Has
      <3> QED
        BY <2>1, <3>1, <3>2 DEF Owns, Holds
    <2>2. CASE q # p
      <3>1. handler'[q] = handler[q] /\ box'[q] = box[q] /\ hfd' = hfd
        BY <1>1, <2>2 DEF SInv, Tables
      <3>2. Owns(q) /\ <<"conn", q>> # <<"conn", p>> /\ <<"conn", q>> # Free
        BY <2>2, UsersDiffer DEF SInv
      <3> QED
        BY <1>2, <3>1, <3>2 DEF Owns
    <2> QED
      BY <2>1, <2>2
  <1>5. ASSUME NEW j \in Kinds PROVE Listens(j)'
    <2>1. <<"listen", j>> # <<"conn", p>> /\ <<"listen", j>> # Free /\ Listens(j)
      BY UsersDiffer DEF SInv
    <2> QED
      BY <1>1, <1>2, <2>1 DEF Listens
  <1> QED
    BY <1>3, <1>4, <1>5 DEF SInv

LEMMA HandlerStartKeeps == ASSUME SInv, NEW p \in Peers, HandlerStart(p) PROVE SInv'
  <1>1. /\ handler[p] = "start" /\ hfd' = [hfd EXCEPT ![p] = box[p]]
        /\ box' = [box EXCEPT ![p] = NoFd] /\ handler' = [handler EXCEPT ![p] = "serving"]
        /\ UNCHANGED <<main, fdt, robbed, listener, lsock>>
    BY DEF HandlerStart, listenVars, startVars
  <1>2. Tables' /\ Order'
    BY <1>1 DEF SInv, Tables, Order
  <1>3. \A f, u : Holds(f, u)' <=> Holds(f, u)
    BY <1>1 DEF Holds, Has, Robbed
  <1>4. ASSUME NEW q \in Peers PROVE Owns(q)'
    <2>1. Owns(q)
      BY DEF SInv
    <2>2. CASE q = p
      <3>1. handler'[p] = "serving" /\ hfd'[p] = box[p]
        BY <1>1 DEF SInv, Tables
      <3> QED
        BY <1>1, <1>3, <2>1, <2>2, <3>1 DEF Owns
    <2>3. CASE q # p
      <3>1. handler'[q] = handler[q] /\ hfd'[q] = hfd[q] /\ box'[q] = box[q]
        BY <1>1, <2>3 DEF SInv, Tables
      <3> QED
        BY <1>3, <2>1, <3>1 DEF Owns
    <2> QED
      BY <2>2, <2>3
  <1>5. ASSUME NEW k \in Kinds PROVE Listens(k)'
    BY <1>1, <1>3 DEF SInv, Listens
  <1> QED
    BY <1>2, <1>4, <1>5 DEF SInv

\* A handler that ends robs somebody only if it was robbed itself.
LEMMA HandlerEndKeeps ==
    ASSUME SInv, NEW p \in Peers, HandlerEnd(p)
    PROVE  /\ SInv'
           /\ \A x \in robbed' \ robbed : /\ handler[p] = "serving" /\ handler'[p] = "none"
                                          /\ Robbed(hfd[p], <<"conn", p>>)
  <1>1. /\ handler[p] = "serving" /\ CloseAs(hfd[p], {<<"conn", p>>})
        /\ handler' = [handler EXCEPT ![p] = "none"] /\ hfd' = [hfd EXCEPT ![p] = NoFd]
        /\ UNCHANGED <<main, box, listener, lsock>>
    BY DEF HandlerEnd, listenVars, startVars
  <1>2. /\ DOMAIN fdt' = Fds /\ fdt' = [f \in Fds |-> fdt'[f]]
        /\ \A x \in robbed' \ robbed :
              hfd[p] \in Fds /\ fdt[hfd[p]] \notin {<<"conn", p>>} \cup {Free}
        /\ \A f, u : u \notin {<<"conn", p>>} \cup {Free} /\ Holds(f, u) => Holds(f, u)'
    BY <1>1, CloseKeeps DEF SInv
  <1>3. handler'[p] = "none"
    BY <1>1 DEF SInv, Tables
  <1>4. \A x \in robbed' \ robbed : Robbed(hfd[p], <<"conn", p>>)
    <2>1. Holds(hfd[p], <<"conn", p>>)
      BY <1>1 DEF SInv, Owns
    <2> QED
      BY <1>2, <2>1 DEF Holds, Has
  <1>5. Tables' /\ Order'
    BY <1>1, <1>2 DEF SInv, Tables, Order
  <1>6. ASSUME NEW q \in Peers PROVE Owns(q)'
    <2>1. CASE q = p
      BY <1>3, <2>1 DEF Owns
    <2>2. CASE q # p
      <3>1. handler'[q] = handler[q] /\ hfd'[q] = hfd[q] /\ box' = box
        BY <1>1, <2>2 DEF SInv, Tables
      <3>2. Owns(q) /\ <<"conn", q>> \notin {<<"conn", p>>} \cup {Free}
        BY <2>2, UsersDiffer DEF SInv
      <3> QED
        BY <1>2, <3>1, <3>2 DEF Owns
    <2> QED
      BY <2>1, <2>2
  <1>7. ASSUME NEW k \in Kinds PROVE Listens(k)'
    <2>1. <<"listen", k>> \notin {<<"conn", p>>} \cup {Free} /\ Listens(k)
      BY UsersDiffer DEF SInv
    <2> QED
      BY <1>1, <1>2, <2>1 DEF Listens
  <1> QED
    BY <1>1, <1>3, <1>4, <1>5, <1>6, <1>7 DEF SInv

LEMMA DisconnectKeeps == ASSUME SInv, DisconnectBinary PROVE SInv'
  <1>1. UNCHANGED <<main, handler, hfd, box, listener, lsock>>
    BY DEF DisconnectBinary, peerVars, listenVars, startVars
  <1>2. CASE UNCHANGED <<fdt, robbed>>
    BY <1>1, <1>2, QuietKeeps
  <1>3. CASE CloseAs(sock["binary"], {<<"open", "binary">>, <<"client", "binary">>})
    <2> DEFINE us == {<<"open", "binary">>, <<"client", "binary">>}
    <2>1. Tables' /\ Order'
      BY <1>1, <1>3, CloseKeeps DEF SInv, Tables, Order
    <2>2. \A f, u : u \notin us \cup {Free} /\ Holds(f, u) => Holds(f, u)'
      BY <1>3, CloseKeeps DEF SInv
    <2>3. /\ \A p \in Peers : <<"conn", p>> \notin us \cup {Free}
          /\ \A k \in Kinds : <<"listen", k>> \notin us \cup {Free}
      BY UsersDiffer DEF Kinds
    <2> QED
      BY <1>1, <2>1, <2>2, <2>3, KeepAll
  <1> QED
    BY <1>2, <1>3 DEF DisconnectBinary

\* connect() of a socket and the setup of a listener take descriptors at most.
LEMMA ConnectKeeps ==
    ASSUME SInv, NEW k \in Kinds, ConnectSocket(k) PROVE SInv' /\ robbed' \subseteq robbed
  <1>1. UNCHANGED <<main, handler, hfd, box, listener, lsock>>
    BY DEF ConnectSocket, peerVars, listenVars, startVars
  <1>2. \/ UNCHANGED <<fdt, robbed>>
        \/ FreeFds # {} /\ (Take(<<"client", k>>) \/ Take(<<"open", k>>))
    BY DEF ConnectSocket
  <1>3. CASE UNCHANGED <<fdt, robbed>>
    BY <1>1, <1>3, QuietKeeps
  <1>4. CASE FreeFds # {} /\ (Take(<<"client", k>>) \/ Take(<<"open", k>>))
    BY <1>1, <1>4, TakingKeeps, TakeKeeps DEF SInv
  <1> QED
    BY <1>2, <1>3, <1>4

LEMMA SetupKeeps ==
    ASSUME SInv, NEW k \in Kinds, ListenerSetup(k) PROVE SInv' /\ robbed' \subseteq robbed
  <1>1. UNCHANGED <<main, handler, hfd, box>>
    BY DEF ListenerSetup, ReadType, Bind, peerVars, startVars
  <1>2. \E l \in {"port", "accept"} : listener' = [listener EXCEPT ![k] = l]
    BY DEF ListenerSetup, ReadType, Bind
  <1>3. listener[k] \in {"type", "port"}
    BY DEF ListenerSetup, ReadType, Bind
  <1>6. Order'
    BY <1>1, <1>2, <1>3 DEF SInv, Tables, Order, Kinds
  <1>4. CASE UNCHANGED <<fdt, robbed, lsock>>
    <2>1. Tables' /\ \A j \in Kinds : listener[j] = "accept" => listener'[j] = "accept"
      BY <1>1, <1>2, <1>3, <1>4 DEF SInv, Tables
    <2>2. \A f, u : Holds(f, u)' <=> Holds(f, u)
      BY <1>4 DEF Holds, Has, Robbed
    <2> QED
      BY <1>1, <1>4, <1>6, <2>1, <2>2, KeepAll
  <1>5. CASE FreeFds # {} /\ Take(<<"listen", k>>) /\ lsock' = [lsock EXCEPT ![k] = Min(FreeFds)]
             /\ listener' = [listener EXCEPT ![k] = "accept"]
    <2>1. /\ DOMAIN fdt' = Fds /\ fdt' = [f \in Fds |-> fdt'[f]]
          /\ Min(FreeFds) \in Fds /\ fdt'[Min(FreeFds)] = <<"listen", k>>
          /\ robbed' \subseteq robbed
          /\ \A f, u : u # <<"listen", k>> /\ u # Free /\ Holds(f, u) => Holds(f, u)'
      BY <1>5, TakeKeeps DEF SInv
    <2>2. Tables'
      BY <1>1, <1>5, <2>1 DEF SInv, Tables
    <2>3. ASSUME NEW p \in Peers PROVE Owns(p)'
      <3>1. <<"conn", p>> # <<"listen", k>> /\ <<"conn", p>> # Free /\ Owns(p)
        BY UsersDiffer DEF SInv
      <3> QED
        BY <1>1, <2>1, <3>1 DEF Owns
    <2>4. ASSUME NEW j \in Kinds PROVE Listens(j)'
      <3>1. CASE j = k
        <4>1. lsock'[k] = Min(FreeFds) /\ listener'[k] = "accept"
          BY <1>5 DEF SInv, Tables
        <4>2. Has(lsock[k], <<"listen", k>>)'
          BY <2>1, <4>1 DEF Has
        <4> QED
          BY <3>1, <4>1, <4>2 DEF Listens, Holds
      <3>2. CASE j # k
        <4>1. lsock'[j] = lsock[j] /\ listener'[j] = listener[j]
          BY <1>5, <3>2 DEF SInv, Tables
        <4>2. <<"listen", j>> # <<"listen", k>> /\ <<"listen", j>> # Free /\ Listens(j)
          BY <3>2, UsersDiffer DEF SInv
        <4> QED
          BY <2>1, <4>1, <4>2 DEF Listens
      <3> QED
        BY <3>1, <3>2
    <2> QED
      BY <1>6, <2>1, <2>2, <2>3, <2>4 DEF SInv
  <1> QED
    BY <1>4, <1>5 DEF ListenerSetup, ReadType, Bind

LEMMA MainKeeps == ASSUME SInv, MainStep PROVE SInv' /\ UNCHANGED robbed
  <1>1. UNCHANGED <<fdt, handler, hfd, box, lsock, robbed>>
    BY DEF MainStep, CheckOptions, NetUp, StartLua, StartBinary, Return, peerVars, listenVars
  <1>2. \A f, u : Holds(f, u)' <=> Holds(f, u)
    BY <1>1 DEF Holds, Has, Robbed
  <1>3. CASE UNCHANGED listener
    <2>1. Order' /\ Tables'
      BY <1>1, <1>3 DEF SInv, Order, Tables, MainStep, CheckOptions, NetUp, StartLua, StartBinary,
                        Return
    <2> QED
      BY <1>1, <1>2, <1>3, <2>1, KeepAll
  <1>4. CASE StartLua \/ StartBinary
    <2>1. PICK k \in Kinds : listener' = [listener EXCEPT ![k] = "type"] /\ listener[k] = "none"
      BY <1>4 DEF SInv, Order, StartLua, StartBinary, Kinds
    <2>2. Order'
      BY <1>4 DEF SInv, Order, Tables, StartLua, StartBinary, Kinds
    <2>3. Tables' /\ \A j \in Kinds : listener[j] = "accept" => listener'[j] = "accept"
      BY <1>1, <2>1 DEF SInv, Tables
    <2> QED
      BY <1>1, <1>2, <2>2, <2>3, KeepAll
  <1> QED
    BY <1>1, <1>3, <1>4 DEF MainStep, CheckOptions, NetUp, Return, listenVars

-----------------------------------------------------------------------------
(* The theorems. *)

\* Who closes what belongs to others is disconnect(), or a handler that was robbed.
Strays ==
    \A x \in robbed' \ robbed :
       \/ client \in {"close", "close again"} /\ client' # client
       \/ \E p \in Peers : /\ handler[p] = "serving" /\ handler'[p] = "none"
                           /\ Robbed(hfd[p], <<"conn", p>>)
LEMMA SInvStep == ASSUME SInv, [Next]_vars PROVE SInv' /\ Strays
  <1>1. CASE MainStep
    BY <1>1, MainKeeps DEF Strays
  <1>2. CASE Client
    <2>1. CASE ClientConnect \/ ConnectReturn \/ Disconnect
      <3>1. UNCHANGED <<main, fdt, handler, hfd, box, listener, lsock, robbed>>
        BY <2>1 DEF ClientConnect, ConnectReturn, Disconnect, startVars, peerVars, listenVars
      <3> QED
        BY <3>1, QuietKeeps DEF Strays
    <2>2. CASE \E k \in Kinds : ConnectSocket(k)
      BY <2>2, ConnectKeeps DEF Strays
    <2>3. CASE DisconnectBinary
      <3>1. client \in {"close", "close again"} /\ client' # client
        BY <2>3 DEF DisconnectBinary
      <3> QED
        BY <2>3, <3>1, DisconnectKeeps DEF Strays
    <2> QED
      BY <1>2, <2>1, <2>2, <2>3 DEF Client
  <1>3. CASE \E k \in Kinds : ListenerSetup(k)
    BY <1>3, SetupKeeps DEF Strays
  <1>4. CASE \E k \in Kinds, p \in Peers : Accept(k, p)
    <2>1. robbed' \subseteq robbed
      BY <1>4 DEF Accept, Take
    <2> QED
      BY <1>4, <2>1, AcceptKeeps DEF Strays
  <1>5. CASE \E k \in Kinds, p \in Peers : AcceptFails(k, p) \/ Call(p, k)
    <2>1. UNCHANGED <<main, fdt, handler, hfd, box, listener, lsock, robbed>>
      BY <1>5 DEF AcceptFails, Call, startVars, listenVars
    <2> QED
      BY <2>1, QuietKeeps DEF Strays
  <1>6. CASE \E p \in Peers : HandlerStart(p)
    <2>1. UNCHANGED robbed
      BY <1>6 DEF HandlerStart
    <2> QED
      BY <1>6, <2>1, HandlerStartKeeps DEF Strays
  <1>7. CASE \E p \in Peers : HandlerEnd(p)
    BY <1>7, HandlerEndKeeps DEF Strays
  <1>8. CASE UNCHANGED vars
    <2>1. UNCHANGED <<main, fdt, handler, hfd, box, listener, lsock, robbed>>
      BY <1>8 DEF vars
    <2> QED
      BY <2>1, QuietKeeps DEF Strays
  <1> QED
    BY <1>1, <1>2, <1>3, <1>4, <1>5, <1>6, <1>7, <1>8 DEF Next

\* In the first state nobody has a descriptor.
LEMMA SInvInit == Init => SInv
  <1> SUFFICES ASSUME Init PROVE SInv
    OBVIOUS
  <1>1. /\ fdt = [f \in Fds |-> Free] /\ handler = [p \in Peers |-> "none"]
        /\ box = [p \in Peers |-> NoFd] /\ hfd = [p \in Peers |-> NoFd]
        /\ listener = [k \in Kinds |-> "none"] /\ lsock = [k \in Kinds |-> NoFd]
    BY DEF Init
  <1>2. Tables /\ Order
    BY <1>1 DEF Tables, Order, Kinds
  <1>3. \A p \in Peers : Owns(p)
    BY <1>1 DEF Owns
  <1>4. \A k \in Kinds : Listens(k)
    BY <1>1 DEF Listens
  <1> QED
    BY <1>2, <1>3, <1>4 DEF SInv

\* A handler thread works on the descriptor that accept() returned for its connection, for
\* any number of connections that come and go, and while descriptors are reused; unless
\* that very descriptor was closed by somebody else.
THEOREM SocketsOwned == Spec => []HandlersOwnSockets
  <1>1. SInv => HandlersOwnSockets
    BY DEF SInv, Owns, Holds, HandlersOwnSockets
  <1>2. SInv /\ [Next]_vars => SInv'
    BY SInvStep
  <1> QED
    BY <1>1, <1>2, SInvInit, PTL DEF Spec

\* Whenever a descriptor of somebody else is closed, it is by the client in disconnect(), or
\* by a handler that ends and had itself been robbed of its descriptor: also after the
\* first such close, and however often it comes to that.
THEOREM StraysFromDisconnect == Spec => StraysStartInDisconnect
  <1>1. SInv /\ [Next]_vars => [Strays]_vars
    BY SInvStep
  <1>2. SInv /\ [Next]_vars => SInv'
    BY SInvStep
  <1> QED
    BY <1>1, <1>2, SInvInit, PTL DEF Spec, StraysStartInDisconnect, Strays

-----------------------------------------------------------------------------
(* The services, and the verdict of connect(). *)

\* While no listener has read its arguments too late, nobody has closed its socket, and the
\* ports differ, each listener has the function and the port of its own kind, and a caller
\* whom it has accepted has called that port.
Undisturbed == late = {} /\ PortOf("lua") # PortOf("binary") /\ ~ListenerRobbed
ServiceInv ==
    Undisturbed =>
        /\ \A k \in Kinds : func[k] = k /\ (listener[k] = "accept" => port[k] = PortOf(k))
        /\ \A p \in Peers : handler[p] # "none" => hkind[p] = calling[p]

\* A socket that connect() has dealt with is connected (unless it was closed by somebody
\* else), or its verdict is an error.
Tried(k) ==
    /\ verdict[k] = 1 \/ -verdict[k] \in Errnos
    /\ IsDisabled(k) \/ -verdict[k] \in Errnos \/ Holds(sock[k], <<"client", k>>)
ClientInv == client = "connect" => \A k \in Kinds \ todo : Tried(k)

DInv == TypeOK /\ SInv /\ ServiceInv /\ ClientInv

\* A descriptor that is taken or closed has a user of the right kind afterwards.
LEMMA TakeType ==
    ASSUME TypeOK, NEW u \in Users, FreeFds # {}, Take(u)
    PROVE  /\ fdt' \in [Fds -> Users] /\ Min(FreeFds) \in Fds
           /\ robbed' \subseteq Fds \X Users
  BY LowestIsFree DEF TypeOK, Take
LEMMA CloseType ==
    ASSUME TypeOK, NEW f, NEW us, CloseAs(f, us)
    PROVE  fdt' \in [Fds -> Users] /\ robbed' \subseteq Fds \X Users
  <1>1. fdt' \in [Fds -> Users]
    BY DEF TypeOK, CloseAs, Users
  <1>2. ASSUME NEW x \in robbed' PROVE x \in Fds \X Users
    <2>1. x \in robbed \/ (f \in Fds /\ x = <<f, fdt[f]>>)
      BY <1>2 DEF CloseAs
    <2>2. CASE x \in robbed
      BY <2>2 DEF TypeOK
    <2>3. CASE f \in Fds /\ x = <<f, fdt[f]>>
      <3>1. fdt[f] \in Users
        BY <2>3 DEF TypeOK
      <3> QED
        BY <2>3, <3>1
    <2> QED
      BY <2>1, <2>2, <2>3
  <1> QED
    BY <1>1, <1>2

LEMMA MainTypes == ASSUME TypeOK, MainStep PROVE TypeOK'
  <1>1. CASE CheckOptions \/ NetUp \/ Return
    BY <1>1 DEF TypeOK, CheckOptions, NetUp, Return, listenVars, peerVars, clientVars
  <1>2. CASE StartLua \/ StartBinary
    <2>1. listener' \in [Kinds -> {"none", "type", "port", "accept"}]
      BY <1>2 DEF TypeOK, StartLua, StartBinary
    <2> QED
      <3>1. CASE StartLua
        BY <2>1, <3>1 DEF TypeOK, StartLua, peerVars, clientVars
      <3>2. CASE StartBinary
        BY <2>1, <3>2 DEF TypeOK, StartBinary, peerVars, clientVars
      <3> QED
        BY <1>2, <3>1, <3>2
  <1> QED
    BY <1>1, <1>2 DEF MainStep

LEMMA SetupTypes == ASSUME TypeOK, NEW k \in Kinds, ListenerSetup(k) PROVE TypeOK'
  <1>1. CASE ReadType(k)
    <2>1. PICK t \in TypeSeen(k) : func' = [func EXCEPT ![k] = t]
      BY <1>1 DEF ReadType
    <2>2. t \in Kinds
      BY <2>1 DEF TypeSeen
    <2> QED
      BY <1>1, <2>1, <2>2 DEF ReadType, TypeOK, startVars, peerVars, clientVars
  <1>2. CASE Bind(k)
    <2>1. PICK n \in PortSeen(k) :
            /\ port' = [port EXCEPT ![k] = n]
            /\ bound' = [bound EXCEPT ![k] = FreeFds # {} /\ \A j \in Kinds : bound[j] /\ port[j] = n => n = 0]
      BY <1>2 DEF Bind
    <2>2. n \in 0..PortWord - 1
      <3>1. PortOf(k) \in 0..PortWord - 1
        <4>1. opts.listen[k] \in Int
          BY OptionsAssumption DEF TypeOK, OptionType
        <4> QED
          BY <4>1, FdsAssumption DEF PortOf
      <3> QED
        BY <2>1, <3>1, FdsAssumption DEF PortSeen
    <2>3. /\ fdt' \in [Fds -> Users] /\ lsock' \in [Kinds -> Fds \cup {NoFd}]
          /\ robbed' \subseteq Fds \X Users
      <3>1. CASE UNCHANGED <<fdt, lsock, robbed>>
        BY <3>1 DEF TypeOK
      <3>2. CASE FreeFds # {} /\ Take(<<"listen", k>>) /\ lsock' = [lsock EXCEPT ![k] = Min(FreeFds)]
        <4>1. <<"listen", k>> \in Users
          BY DEF Users
        <4> QED
          BY <3>2, <4>1, TakeType DEF TypeOK
      <3> QED
        BY <1>2, <3>1, <3>2 DEF Bind
    <2>4. /\ port' \in [Kinds -> 0..PortWord - 1] /\ bound' \in [Kinds -> BOOLEAN]
          /\ listener' \in [Kinds -> {"none", "type", "port", "accept"}] /\ late' \subseteq Kinds
      BY <1>2, <2>1, <2>2 DEF Bind, TypeOK
    <2> QED
      BY <1>2, <2>3, <2>4 DEF Bind, TypeOK, startVars, peerVars, clientVars
  <1> QED
    BY <1>1, <1>2 DEF ListenerSetup

LEMMA PeerTypes ==
    ASSUME TypeOK, NEW p \in Peers, NEW k \in Kinds,
           Accept(k, p) \/ AcceptFails(k, p) \/ Call(p, k) \/ HandlerStart(p) \/ HandlerEnd(p)
    PROVE  TypeOK'
  <1>1. CASE Accept(k, p)
    <2>1. FreeFds # {} /\ Take(<<"conn", p>>) /\ <<"conn", p>> \in Users
      BY <1>1 DEF Accept, Users
    <2> QED
      BY <1>1, <2>1, TakeType DEF Accept, TypeOK, startVars, clientVars
  <1>2. CASE AcceptFails(k, p) \/ Call(p, k)
    BY <1>2 DEF AcceptFails, Call, TypeOK, startVars, listenVars, clientVars
  <1>3. CASE HandlerStart(p)
    BY <1>3 DEF HandlerStart, TypeOK, startVars, listenVars, clientVars
  <1>4. CASE HandlerEnd(p)
    <2>1. CloseAs(hfd[p], {<<"conn", p>>})
      BY <1>4 DEF HandlerEnd
    <2>2. fdt' \in [Fds -> Users] /\ robbed' \subseteq Fds \X Users
      BY <2>1, CloseType
    <2> QED
      BY <1>4, <2>2 DEF HandlerEnd, TypeOK, startVars, listenVars, clientVars, Kinds
  <1> QED
    BY <1>1, <1>2, <1>3, <1>4

LEMMA ClientTypes == ASSUME TypeOK, Client PROVE TypeOK'
  <1>1. CASE ClientConnect \/ Disconnect
    <2>1. script # <<>> /\ script' = Tail(script) /\ script \in Seq({"connect", "disconnect"})
      BY <1>1 DEF ClientConnect, Disconnect, TypeOK
    <2>2. script' \in Seq({"connect", "disconnect"})
      BY <2>1
    <2> QED
      BY <1>1, <2>2 DEF ClientConnect, Disconnect, TypeOK, startVars, listenVars, peerVars
  <1>2. ASSUME NEW k \in Kinds, ConnectSocket(k) PROVE TypeOK'
    <2>1. /\ sock' \in [Kinds -> Fds \cup {NoFd}] /\ verdict' \in [Kinds -> Int]
          /\ fdt' \in [Fds -> Users] /\ robbed' \subseteq Fds \X Users
      <3>1. <<"client", k>> \in Users /\ <<"open", k>> \in Users /\ \A e \in Errnos : -e \in Int
        BY FdsAssumption DEF Users
      <3>2. /\ fdt \in [Fds -> Users] /\ sock \in [Kinds -> Fds \cup {NoFd}]
            /\ verdict \in [Kinds -> Int] /\ robbed \subseteq Fds \X Users
        BY DEF TypeOK
      <3>3. CASE IsDisabled(k) /\ verdict' = [verdict EXCEPT ![k] = 1] /\ UNCHANGED <<fdt, sock, robbed>>
        BY <3>3, <3>2
      <3>4. CASE /\ ~IsDisabled(k) /\ FreeFds # {}
                 /\ sock' = [sock EXCEPT ![k] = Min(FreeFds)]
                 /\ \/ Take(<<"client", k>>) /\ verdict' = [verdict EXCEPT ![k] = 1]
                    \/ Take(<<"open", k>>) /\ \E e \in Errnos : verdict' = [verdict EXCEPT ![k] = -e]
        <4>1. /\ fdt' \in [Fds -> Users] /\ Min(FreeFds) \in Fds
              /\ robbed' \subseteq Fds \X Users
          BY <3>1, <3>4, TakeType
        <4>2. \E v \in Int : verdict' = [verdict EXCEPT ![k] = v]
          BY <3>1, <3>4
        <4> QED
          BY <3>4, <3>2, <4>1, <4>2
      <3>5. CASE /\ sock' = [sock EXCEPT ![k] = NoFd]
                 /\ \E e \in Errnos : verdict' = [verdict EXCEPT ![k] = -e]
                 /\ UNCHANGED <<fdt, robbed>>
        BY <3>1, <3>5, <3>2
      <3> QED
        BY <1>2, <3>3, <3>4, <3>5 DEF ConnectSocket
    <2> QED
      BY <1>2, <2>1 DEF ConnectSocket, TypeOK, startVars, listenVars, peerVars
  <1>3. CASE DisconnectBinary
    <2>1. fdt' \in [Fds -> Users] /\ robbed' \subseteq Fds \X Users
      BY <1>3, CloseType DEF DisconnectBinary, TypeOK
    <2> QED
      BY <1>3, <2>1 DEF DisconnectBinary, TypeOK, startVars, listenVars, peerVars
  <1>4. CASE ConnectReturn
    <2>1. verdict' \in [Kinds -> Int]
      BY <1>4 DEF ConnectReturn
    <2> QED
      BY <1>4, <2>1 DEF ConnectReturn, TypeOK, startVars, listenVars, peerVars
  <1> QED
    BY <1>1, <1>2, <1>3, <1>4 DEF Client

LEMMA TypeStep == TypeOK /\ [Next]_vars => TypeOK'
  <1> SUFFICES ASSUME TypeOK, [Next]_vars PROVE TypeOK'
    OBVIOUS
  <1>1. CASE UNCHANGED vars
    BY <1>1 DEF vars, TypeOK
  <1>2. CASE \E p \in Peers : HandlerStart(p) \/ HandlerEnd(p)
    <2>1. "lua" \in Kinds
      BY DEF Kinds
    <2> QED
      BY <1>2, <2>1, PeerTypes
  <1>3. CASE \E k \in Kinds, p \in Peers : Accept(k, p) \/ AcceptFails(k, p) \/ Call(p, k)
    BY <1>3, PeerTypes
  <1>4. CASE \E k \in Kinds : ListenerSetup(k)
    BY <1>4, SetupTypes
  <1> QED
    BY <1>1, <1>2, <1>3, <1>4, MainTypes, ClientTypes DEF Next

\* Who has closed the socket of a listener has done so for ever.
LEMMA RobbedForEver == ASSUME DInv, [Next]_vars, ListenerRobbed PROVE ListenerRobbed'
  <1>1. PICK k \in Kinds : Robbed(lsock[k], <<"listen", k>>)
    BY DEF ListenerRobbed
  <1>2. lsock[k] # NoFd /\ listener[k] = "accept"
    <2>1. lsock[k] \in Fds
      BY <1>1 DEF Robbed, DInv, TypeOK
    <2> QED
      BY <2>1, FdsAssumption DEF DInv, SInv, Listens
  <1>3. ASSUME lsock'[k] = lsock[k], Robbed(lsock[k], <<"listen", k>>) => <<lsock[k], <<"listen", k>>>> \in robbed'
        PROVE  ListenerRobbed'
    BY <1>1, <1>3 DEF ListenerRobbed, Robbed
  <1>4. ASSUME UNCHANGED <<lsock, robbed>> PROVE ListenerRobbed'
    BY <1>3, <1>4 DEF Robbed
  <1>5. ASSUME NEW v, Take(v), v # <<"listen", k>>, lsock'[k] = lsock[k] PROVE ListenerRobbed'
    BY <1>3, <1>5 DEF Take, Robbed
  <1>6. ASSUME NEW f, NEW us, CloseAs(f, us), <<"listen", k>> \notin us, UNCHANGED lsock
        PROVE  ListenerRobbed'
    <2>1. <<lsock[k], <<"listen", k>>>> \notin {f} \X us
      BY <1>6
    <2> QED
      BY <1>3, <1>6, <2>1 DEF CloseAs, Robbed
  <1>7. CASE MainStep \/ UNCHANGED vars
    BY <1>4, <1>7 DEF MainStep, CheckOptions, NetUp, StartLua, StartBinary, Return, listenVars, vars
  <1>8. CASE ClientConnect \/ ConnectReturn \/ Disconnect
    BY <1>4, <1>8 DEF ClientConnect, ConnectReturn, Disconnect, listenVars
  <1>9. ASSUME NEW j \in Kinds, ConnectSocket(j) PROVE ListenerRobbed'
    BY <1>4, <1>5, <1>9, UsersDiffer DEF ConnectSocket, listenVars
  <1>10. CASE DisconnectBinary
    <2>1. <<"listen", k>> \notin {<<"open", "binary">>, <<"client", "binary">>}
      BY UsersDiffer DEF Kinds
    <2> QED
      BY <1>4, <1>6, <1>10, <2>1 DEF DisconnectBinary, listenVars
  <1>11. ASSUME NEW j \in Kinds, ListenerSetup(j) PROVE ListenerRobbed'
    <2>1. j # k
      BY <1>2, <1>11 DEF ListenerSetup, ReadType, Bind
    <2>2. <<"listen", j>> # <<"listen", k>>
      BY <2>1, UsersDiffer
    <2>3. CASE UNCHANGED <<lsock, robbed>>
      BY <1>4, <2>3
    <2>4. CASE Take(<<"listen", j>>) /\ lsock' = [lsock EXCEPT ![j] = Min(FreeFds)]
      <3>1. lsock'[k] = lsock[k]
        BY <2>1, <2>4 DEF DInv, TypeOK
      <3> QED
        BY <1>5, <2>2, <2>4, <3>1
    <2> QED
      BY <1>11, <2>3, <2>4 DEF ListenerSetup, ReadType, Bind
  <1>12. ASSUME NEW j \in Kinds, NEW p \in Peers, Accept(j, p) PROVE ListenerRobbed'
    BY <1>5, <1>12, UsersDiffer DEF Accept
  <1>13. ASSUME NEW j \in Kinds, NEW p \in Peers, AcceptFails(j, p) \/ Call(p, j) \/ HandlerStart(p)
         PROVE  ListenerRobbed'
    BY <1>4, <1>13 DEF AcceptFails, Call, HandlerStart, listenVars
  <1>14. ASSUME NEW p \in Peers, HandlerEnd(p) PROVE ListenerRobbed'
    <2>1. <<"listen", k>> \notin {<<"conn", p>>}
      BY UsersDiffer
    <2> QED
      BY <1>6, <1>14, <2>1 DEF HandlerEnd, listenVars
  <1>15. CASE Client
    BY <1>8, <1>9, <1>10, <1>15 DEF Client
  <1>16. CASE \E p \in Peers : HandlerStart(p)
    <2>1. "lua" \in Kinds
      BY DEF Kinds
    <2> QED
      BY <1>13, <1>16, <2>1
  <1> QED
    BY <1>7, <1>11, <1>12, <1>13, <1>14, <1>15, <1>16 DEF Next

\* A listener that is not late reads the arguments of its kind.
LEMMA SetupServes == ASSUME DInv, NEW j \in Kinds, ListenerSetup(j) PROVE ServiceInv'
  <1> SUFFICES ASSUME Undisturbed'
               PROVE  /\ \A k \in Kinds : func'[k] = k /\ (listener'[k] = "accept" => port'[k] = PortOf(k)')
                      /\ \A p \in Peers : handler'[p] # "none" => hkind'[p] = calling'[p]
    BY DEF ServiceInv
  <1>1. UNCHANGED <<opts, frame, handler, hkind, calling>>
    BY DEF ListenerSetup, ReadType, Bind, startVars, peerVars
  <1>2. \A k \in Kinds : UNCHANGED PortOf(k)
    BY <1>1 DEF PortOf
  <1>3. late = {} /\ frame = "live"
    BY DEF ListenerSetup, ReadType, Bind, Undisturbed
  <1>4. Undisturbed
    <2>1. Next
      BY DEF Next
    <2> QED
      BY <1>2, <1>3, <2>1, RobbedForEver DEF Kinds, Undisturbed
  <1>5. /\ \A k \in Kinds : func[k] = k /\ (listener[k] = "accept" => port[k] = PortOf(k))
        /\ \A p \in Peers : handler[p] # "none" => hkind[p] = calling[p]
    BY <1>3, <1>4 DEF DInv, ServiceInv
  <1>6. /\ func \in [Kinds -> Kinds] /\ port \in [Kinds -> 0..PortWord - 1]
        /\ listener \in [Kinds -> {"none", "type", "port", "accept"}]
    BY DEF DInv, TypeOK
  <1>7. CASE ReadType(j)
    <2>1. /\ func' = [func EXCEPT ![j] = j] /\ UNCHANGED port
          /\ listener' = [listener EXCEPT ![j] = "port"]
      BY <1>3, <1>7 DEF ReadType, TypeSeen
    <2> QED
      BY <1>1, <1>2, <1>5, <1>6, <2>1
  <1>8. CASE Bind(j)
    <2>1. /\ port' = [port EXCEPT ![j] = PortOf(j)] /\ UNCHANGED func
          /\ listener' = [listener EXCEPT ![j] = "accept"]
      BY <1>3, <1>8 DEF Bind, PortSeen
    <2> QED
      BY <1>1, <1>2, <1>5, <1>6, <2>1
  <1> QED
    BY <1>7, <1>8 DEF ListenerSetup

\* The peers and the handler threads.
LEMMA PeersServe ==
    ASSUME DInv, NEW q \in Peers, NEW j \in Kinds,
           Accept(j, q) \/ AcceptFails(j, q) \/ Call(q, j) \/ HandlerStart(q) \/ HandlerEnd(q)
    PROVE  ServiceInv'
  <1>1. UNCHANGED <<opts, func, listener, port, late>>
    BY DEF Accept, AcceptFails, Call, HandlerStart, HandlerEnd, startVars, listenVars
  <1>2. \A k \in Kinds : UNCHANGED PortOf(k)
    BY <1>1 DEF PortOf
  <1>0. Undisturbed' => Undisturbed
    <2>1. Next
      BY DEF Next
    <2> QED
      BY <1>1, <1>2, <2>1, RobbedForEver DEF Kinds, Undisturbed
  <1> SUFFICES ASSUME Undisturbed, NEW p \in Peers, handler'[p] # "none"
               PROVE  hkind'[p] = calling'[p]
    BY <1>0, <1>1, <1>2 DEF ServiceInv, DInv, Kinds
  <1>3. /\ \A k \in Kinds : func[k] = k /\ (listener[k] = "accept" => port[k] = PortOf(k))
        /\ handler[p] # "none" => hkind[p] = calling[p]
    BY DEF DInv, ServiceInv
  <1>4. /\ calling \in [Peers -> Kinds \cup {"idle"}] /\ hkind \in [Peers -> Kinds]
        /\ handler \in [Peers -> {"none", "start", "serving"}]
    BY DEF DInv, TypeOK
  <1>5. CASE Accept(j, q)
    <2>1. /\ calling[q] \in Kinds /\ Reaches(calling[q], j) /\ UNCHANGED calling
          /\ hkind' = [hkind EXCEPT ![q] = func[j]] /\ handler' = [handler EXCEPT ![q] = "start"]
      BY <1>4, <1>5 DEF Accept
    <2>2. PortOf(calling[q]) = PortOf(j)
      <3>1. PICK i \in Kinds : Has(lsock[j], <<"listen", i>>) /\ port[i] = PortOf(calling[q])
        BY <2>1 DEF Reaches
      <3>2. lsock[j] \in Fds /\ lsock[j] # NoFd /\ listener[j] = "accept"
        BY <2>1, <3>1, FdsAssumption DEF Has, Reaches
      <3>3. Has(lsock[j], <<"listen", j>>)
        BY <3>2 DEF DInv, SInv, Listens, Holds, Undisturbed, ListenerRobbed
      <3>4. i = j
        <4>1. <<"listen", i>> = <<"listen", j>>
          BY <3>1, <3>3 DEF Has
        <4> QED
          BY <4>1, UsersDiffer
      <3> QED
        BY <1>3, <3>1, <3>2, <3>4
    <2>3. calling[q] = j
      BY <2>1, <2>2 DEF Kinds, Undisturbed
    <2> QED
      BY <1>3, <1>4, <2>1, <2>3
  <1>6. CASE AcceptFails(j, q)
    BY <1>3, <1>4, <1>6 DEF AcceptFails
  <1>7. CASE Call(q, j)
    <2>1. calling[q] = "idle" /\ calling' = [calling EXCEPT ![q] = j] /\ UNCHANGED <<handler, hkind>>
      BY <1>7 DEF Call
    <2>2. p # q
      BY <1>3, <1>4, <2>1 DEF Kinds
    <2> QED
      BY <1>3, <1>4, <2>1, <2>2
  <1>8. CASE HandlerStart(q)
    BY <1>3, <1>4, <1>8 DEF HandlerStart
  <1>9. CASE HandlerEnd(q)
    BY <1>3, <1>4, <1>9 DEF HandlerEnd
  <1> QED
    BY <1>5, <1>6, <1>7, <1>8, <1>9

LEMMA ServiceStep == ASSUME DInv, [Next]_vars PROVE ServiceInv'
  <1>1. CASE MainStep \/ Client \/ UNCHANGED vars
    <2>1. UNCHANGED <<opts, func, port, late, calling, handler, hkind>>
      BY <1>1 DEF MainStep, CheckOptions, NetUp, StartLua, StartBinary, Return, Client,
           ClientConnect, ConnectSocket, ConnectReturn, Disconnect, DisconnectBinary, startVars,
           listenVars, peerVars, vars
    <2>2. \A k \in Kinds : listener'[k] = "accept" => listener[k] = "accept"
      BY <1>1 DEF DInv, TypeOK, MainStep, CheckOptions, NetUp, StartLua, StartBinary, Return, Client,
           ClientConnect, ConnectSocket, ConnectReturn, Disconnect, DisconnectBinary,
           listenVars, vars
    <2>3. \A k \in Kinds : UNCHANGED PortOf(k)
      BY <2>1 DEF PortOf
    <2>4. Undisturbed' => Undisturbed
      <3>1. [Next]_vars
        OBVIOUS
      <3> QED
        BY <2>1, <2>3, <3>1, RobbedForEver DEF Undisturbed, Kinds
    <2> QED
      BY <2>1, <2>2, <2>3, <2>4 DEF DInv, ServiceInv, Kinds
  <1>2. CASE \E p \in Peers : HandlerStart(p) \/ HandlerEnd(p)
    <2>1. "lua" \in Kinds
      BY DEF Kinds
    <2> QED
      BY <1>2, <2>1, PeersServe
  <1>3. CASE \E k \in Kinds, p \in Peers : Accept(k, p) \/ AcceptFails(k, p) \/ Call(p, k)
    BY <1>3, PeersServe
  <1>4. CASE \E k \in Kinds : ListenerSetup(k)
    BY <1>4, SetupServes
  <1> QED
    BY <1>1, <1>2, <1>3, <1>4 DEF Next

\* Whatever else takes or closes descriptors, a socket that is connected stays so, unless the
\* client is robbed of it.
LEMMA OthersKeepClient ==
    ASSUME DInv, UNCHANGED <<opts, client, todo, sock, verdict>>,
           \A f : \A k \in Kinds : Holds(f, <<"client", k>>) => Holds(f, <<"client", k>>)'
    PROVE  ClientInv'
  <1>1. \A k \in Kinds : UNCHANGED IsDisabled(k)
    BY DEF IsDisabled
  <1> SUFFICES ASSUME client = "connect", NEW k \in Kinds \ todo PROVE Tried(k)'
    BY DEF ClientInv
  <1>2. Tried(k)
    BY DEF DInv, ClientInv
  <1> QED
    BY <1>1, <1>2 DEF Tried

\* One socket is connected, fails or is disabled; the other stays as it is.
LEMMA ConnectTries == ASSUME DInv, NEW k \in Kinds, ConnectSocket(k) PROVE ClientInv'
  <1>1. /\ client = "connect" /\ todo' = todo \ {k} /\ UNCHANGED <<opts, client>>
    BY DEF ConnectSocket, startVars
  <1>2. \A j \in Kinds : UNCHANGED IsDisabled(j)
    BY <1>1 DEF IsDisabled
  <1>3. /\ sock \in [Kinds -> Fds \cup {NoFd}] /\ verdict \in [Kinds -> Int]
        /\ fdt \in [Fds -> Users] /\ Tables
    BY DEF DInv, SInv, TypeOK
  <1> SUFFICES ASSUME NEW j \in Kinds \ todo' PROVE Tried(j)'
    BY <1>1 DEF ClientInv
  <1>4. CASE j = k
    <2>1. CASE IsDisabled(k) /\ verdict' = [verdict EXCEPT ![k] = 1]
      BY <1>2, <1>3, <1>4, <2>1 DEF Tried
    <2>2. CASE FreeFds # {} /\ sock' = [sock EXCEPT ![k] = Min(FreeFds)]
               /\ Take(<<"client", k>>) /\ verdict' = [verdict EXCEPT ![k] = 1]
      <3>1. sock'[j] \in Fds /\ fdt'[sock'[j]] = <<"client", j>> /\ verdict'[j] = 1
        BY <1>3, <1>4, <2>2, TakeKeeps
      <3> QED
        BY <3>1 DEF Tried, Holds, Has
    <2>3. CASE \E e \in Errnos : verdict' = [verdict EXCEPT ![k] = -e]
      <3>1. PICK e \in Errnos : verdict' = [verdict EXCEPT ![k] = -e]
        BY <2>3
      <3>2. e \in Nat /\ -(-e) = e
        BY FdsAssumption
      <3>3. -verdict'[j] \in Errnos
        BY <1>3, <1>4, <3>1, <3>2
      <3> QED
        BY <3>3 DEF Tried
    <2> QED
      BY <2>1, <2>2, <2>3 DEF ConnectSocket
  <1>5. CASE j # k
    <2>1. Tried(j)
      BY <1>1, <1>5 DEF DInv, ClientInv
    <2>2. sock'[j] = sock[j] /\ verdict'[j] = verdict[j]
      BY <1>3, <1>5 DEF ConnectSocket
    <2>3. \/ UNCHANGED <<fdt, robbed>>
          \/ FreeFds # {} /\ \E u \in {"client", "open"} : Take(<<u, k>>)
      BY DEF ConnectSocket
    <2>4. \A f : Holds(f, <<"client", j>>) => Holds(f, <<"client", j>>)'
      <3>1. CASE UNCHANGED <<fdt, robbed>>
        BY <3>1 DEF Holds, Has, Robbed
      <3>2. ASSUME NEW u \in {"client", "open"}, FreeFds # {}, Take(<<u, k>>)
            PROVE  \A f : Holds(f, <<"client", j>>) => Holds(f, <<"client", j>>)'
        <4>1. <<"client", j>> # <<u, k>> /\ <<"client", j>> # Free
          BY <1>5, UsersDiffer
        <4> QED
          BY <1>3, <3>2, <4>1, TakeKeeps
      <3> QED
        BY <2>3, <3>1, <3>2
    <2> QED
      BY <1>2, <2>1, <2>2, <2>4 DEF Tried
  <1> QED
    BY <1>4, <1>5

LEMMA ClientStep == ASSUME DInv, [Next]_vars PROVE ClientInv'
  <1>1. CASE MainStep
    <2>1. UNCHANGED <<fdt, robbed>> /\ (client' = "connect" => UNCHANGED <<client>>)
          /\ UNCHANGED <<opts, todo, sock, verdict>>
      BY <1>1 DEF MainStep, CheckOptions, NetUp, StartLua, StartBinary, Return, clientVars
    <2> QED
      BY <2>1, OthersKeepClient DEF ClientInv, Holds, Has, Robbed
  <1>2. CASE UNCHANGED vars
    BY <1>2, OthersKeepClient DEF vars, Holds, Has, Robbed
  <1>3. CASE Client
    <2>1. CASE ClientConnect
      BY <2>1 DEF ClientConnect, ClientInv
    <2>2. CASE ConnectReturn \/ Disconnect \/ DisconnectBinary
      <3>1. client' # "connect"
        BY <2>2 DEF ConnectReturn, Disconnect, DisconnectBinary
      <3> QED
        BY <3>1 DEF ClientInv
    <2> QED
      BY <1>3, <2>1, <2>2, ConnectTries DEF Client
  <1>4. CASE \E k \in Kinds : ListenerSetup(k)
    <2>1. PICK k \in Kinds : ListenerSetup(k)
      BY <1>4
    <2>2. UNCHANGED <<opts, client, todo, sock, verdict>>
      BY <2>1 DEF ListenerSetup, ReadType, Bind, startVars, clientVars
    <2>3. UNCHANGED <<fdt, robbed>> \/ (FreeFds # {} /\ Take(<<"listen", k>>))
      BY <2>1 DEF ListenerSetup, ReadType, Bind
    <2>4. \A j \in Kinds : <<"client", j>> # <<"listen", k>> /\ <<"client", j>> # Free
      BY UsersDiffer
    <2>5. \A f : \A j \in Kinds : Holds(f, <<"client", j>>) => Holds(f, <<"client", j>>)'
      BY <2>3, <2>4, TakeKeeps DEF DInv, SInv, Holds, Has, Robbed
    <2> QED
      BY <2>2, <2>5, OthersKeepClient
  <1>5. CASE \E k \in Kinds, p \in Peers : Accept(k, p)
    <2>1. PICK k \in Kinds, p \in Peers : Accept(k, p)
      BY <1>5
    <2>2. /\ UNCHANGED <<opts, client, todo, sock, verdict>>
          /\ FreeFds # {} /\ Take(<<"conn", p>>)
      BY <2>1 DEF Accept, startVars, clientVars
    <2>3. \A j \in Kinds : <<"client", j>> # <<"conn", p>> /\ <<"client", j>> # Free
      BY UsersDiffer
    <2> QED
      BY <2>2, <2>3, TakeKeeps, OthersKeepClient DEF DInv, SInv
  <1>6. CASE \E k \in Kinds, p \in Peers : AcceptFails(k, p) \/ Call(p, k) \/ HandlerStart(p)
    <2>1. UNCHANGED <<opts, client, todo, sock, verdict, robbed, fdt>>
      BY <1>6 DEF AcceptFails, Call, HandlerStart, startVars, clientVars
    <2> QED
      BY <2>1, OthersKeepClient DEF Holds, Has, Robbed
  <1>7. CASE \E p \in Peers : HandlerEnd(p)
    <2>1. PICK p \in Peers : HandlerEnd(p)
      BY <1>7
    <2>2. /\ UNCHANGED <<opts, client, todo, sock, verdict>>
          /\ CloseAs(hfd[p], {<<"conn", p>>})
      BY <2>1 DEF HandlerEnd, startVars, clientVars
    <2>3. \A k \in Kinds : <<"client", k>> \notin {<<"conn", p>>} \cup {Free}
      BY UsersDiffer
    <2> QED
      BY <2>2, <2>3, CloseKeeps, OthersKeepClient DEF DInv, SInv
  <1> QED
    <2>1. "lua" \in Kinds
      BY DEF Kinds
    <2> QED
      BY <1>1, <1>2, <1>3, <1>4, <1>5, <1>6, <1>7, <2>1 DEF Next

LEMMA DInvInit == Init => DInv
  <1> SUFFICES ASSUME Init PROVE DInv
    OBVIOUS
  <1>1. TypeOK
    <2>1. /\ opts \in Options /\ script = opts.script
          /\ opts.script \in Seq({"connect", "disconnect"})
      BY OptionsAssumption DEF Init, OptionType
    <2>2. fdt \in [Fds -> Users]
      BY DEF Init, Users
    <2>3. port \in [Kinds -> 0..PortWord - 1]
      BY FdsAssumption DEF Init
    <2>4. PICK f \in JunkFds : sock = [k \in Kinds |-> f]
      BY DEF Init
    <2>5. sock \in [Kinds -> Fds \cup {NoFd}]
      BY <2>4, FdsAssumption
    <2>6. /\ listener \in [Kinds -> {"none", "type", "port", "accept"}]
          /\ func \in [Kinds -> Kinds] /\ lsock \in [Kinds -> Fds \cup {NoFd}]
          /\ bound \in [Kinds -> BOOLEAN] /\ verdict \in [Kinds -> Int]
      BY DEF Init
    <2>7. /\ calling \in [Peers -> Kinds \cup {"idle"}]
          /\ handler \in [Peers -> {"none", "start", "serving"}] /\ hkind \in [Peers -> Kinds]
          /\ box \in [Peers -> Fds \cup {NoFd}] /\ hfd \in [Peers -> Fds \cup {NoFd}]
      BY DEF Init, Kinds
    <2>8. /\ main = "options" /\ frame = "none" /\ client = "none" /\ todo = {}
          /\ late = {} /\ robbed = {}
      BY DEF Init
    <2> QED
      BY <2>1, <2>2, <2>3, <2>5, <2>6, <2>7, <2>8 DEF TypeOK
  <1>2. ServiceInv /\ ClientInv
    BY DEF Init, ServiceInv, ClientInv
  <1> QED
    BY <1>1, <1>2, SInvInit DEF DInv

LEMMA DInvStep == DInv /\ [Next]_vars => DInv'
  BY TypeStep, SInvStep, ServiceStep, ClientStep DEF DInv

LEMMA DInvHolds == Spec => []DInv
  BY DInvInit, DInvStep, PTL DEF Spec

\* The bitwise and of two results is 1 only if each is 1 or an odd error.
LEMMA AndIsOne ==
    ASSUME NEW a \in Int, NEW b \in Int, a = 1 \/ -a \in Errnos, b = 1 \/ -b \in Errnos,
           BitAnd(a, b) = 1
    PROVE  /\ a = 1 \/ -a \in {e \in Errnos : e % 2 = 1}
           /\ b = 1 \/ -b \in {e \in Errnos : e % 2 = 1}
  <1>1. \A x \in Int : -x \in Errnos => -x > 0 /\ ~(x > 0)
    BY FdsAssumption
  <1>2. CASE a = 1 /\ b = 1
    BY <1>2
  <1>3. CASE a = 1 /\ -b \in Errnos
    <2>1. b % 2 = 1 /\ b < 0
      BY <1>1, <1>3 DEF BitAnd
    <2>2. (-b) % 2 = 1
      BY <2>1
    <2> QED
      BY <1>3, <2>2
  <1>4. CASE -a \in Errnos /\ b = 1
    <2>1. a % 2 = 1 /\ a < 0
      BY <1>1, <1>4 DEF BitAnd
    <2>2. (-a) % 2 = 1
      BY <2>1
    <2> QED
      BY <1>4, <2>2
  <1>5. CASE -a \in Errnos /\ -b \in Errnos
    BY <1>1, <1>5 DEF BitAnd
  <1> QED
    BY <1>2, <1>3, <1>4, <1>5

\* The variables keep their types, whatever an uninitialised targetSocket or a dead frame
\* holds: a port is one after htons, and a socket a descriptor or -1.
THEOREM TypeCorrect == Spec => []TypeOK
  <1>1. DInv => TypeOK
    BY DEF DInv
  <1> QED
    BY <1>1, DInvHolds, PTL

\* Each connection is served by the kind of handler that its caller has asked for, however
\* the listeners start and the descriptors are reused, unless a listener reads its
\* arguments after dom0Server has returned, both services have one port, or somebody
\* else closes the socket of a listener.
THEOREM ServedAsCalled == Spec => []ServedByKind
  <1>1. DInv => ServedByKind
    BY DEF DInv, ServiceInv, ServedByKind, Undisturbed
  <1> QED
    BY <1>1, DInvHolds, PTL

\* connect() of the instance says 1 only if both sockets are connected that are not disabled,
\* except for an odd errno and for a socket that somebody else has closed since it was
\* connected; while listeners, callers and handlers take and close descriptors between
\* its two halves, and whatever disconnect() has closed before.
THEOREM VerdictIsRight == Spec => []ConnectVerdict
  <1>1. DInv => ConnectVerdict
    <2> SUFFICES ASSUME DInv, client = "connect", todo = {}, Result = 1,
                        NEW k \in Kinds
                 PROVE  \/ IsDisabled(k) \/ -verdict[k] \in {e \in Errnos : e % 2 = 1}
                        \/ Holds(sock[k], <<"client", k>>)
      BY DEF ConnectVerdict, Holds
    <2>1. Tried("lua") /\ Tried("binary") /\ Tried(k)
      BY DEF DInv, ClientInv, Kinds
    <2>2. verdict["lua"] \in Int /\ verdict["binary"] \in Int
      BY DEF DInv, TypeOK, Kinds
    <2>3. verdict[k] = 1 \/ -verdict[k] \in {e \in Errnos : e % 2 = 1}
      BY <2>1, <2>2, AndIsOne DEF Tried, Result, Kinds
    <2>4. verdict[k] = 1 => -verdict[k] \notin Errnos
      BY FdsAssumption
    <2> QED
      BY <2>1, <2>3, <2>4 DEF Tried
  <1> QED
    BY <1>1, DInvHolds, PTL
=============================================================================
