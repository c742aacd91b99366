----------------------------- MODULE DomStartup -----------------------------
(***************************************************************************)
(* The start of Dom0 and its sockets.  main checks its options and starts  *)
(* a client thread and, through dom0Server, a listener thread for Lua      *)
(* commands and one for binaries; a listener starts a handler thread for   *)
(* every connection it accepts.  The client thread connects to a remote    *)
(* Dom0 through a RemoteDom0Instance, which has two sockets.  All these    *)
(* threads share one table of descriptors, in which the lowest free one    *)
(* is taken, and dom0Server's stack frame holds what the listeners read.   *)
(***************************************************************************)
EXTENDS Integers, Sequences, FiniteSets, FiniteSetsExt

CONSTANTS
    Options,   \* command lines, after atoi and inet_aton, with what happens then
    PortWord,  \* the number of ports: htons drops the rest
    Fds,       \* descriptors
    NoFd,      \* -1
    Peers,     \* remote clients
    Errnos,    \* what connect() can fail with
    JunkFds,   \* bound: what an uninitialised targetSocket may hold
    JunkPorts  \* bound: what a ListenerArgs whose frame is gone may hold as port

Kinds == {"lua", "binary"}

\* valid: are the options that are not ports acceptable; client: --enable-client;
\* script: what the client thread does; callers: the remote clients there are.
OptionType == [valid : BOOLEAN, client : BOOLEAN, listen : [Kinds -> Int], target : [Kinds -> Int],
               script : Seq({"connect", "disconnect"}), callers : SUBSET Peers]

ASSUME OptionsAssumption == Options \subseteq OptionType
ASSUME FdsAssumption == /\ Fds \subseteq Nat /\ NoFd \notin Fds /\ PortWord \in Nat \ {0}
                        /\ Errnos \subseteq Nat \ {0}
                        /\ JunkFds \subseteq Fds \cup {NoFd} /\ JunkPorts \subseteq 0..PortWord - 1

VARIABLES
    opts,      \* the options
    main,      \* "options", "net", "server", "second", "return", "asleep", "exited"
    frame,     \* dom0Server's frame with the two ListenerArgs: "none", "live", "gone"
    fdt,       \* descriptor -> its user
    listener,  \* kind -> "none", "type", "port", "accept"
    func,      \* kind -> targetFunc: the kind of handler the thread starts
    port,      \* kind -> the port it has read
    lsock,     \* kind -> the socket it listens on
    bound,     \* kind -> could it be bound
    calling,   \* peer -> the kind of service it asks for, or "idle"
    handler,   \* peer -> its handler thread: "none", "start", "serving"
    hkind,     \* peer -> the function the thread runs
    box,       \* peer -> *new_sock
    hfd,       \* peer -> fd of the handler
    client,    \* the client thread: "none", "idle", "connect", "close", "close again"
    todo,      \* the sockets it has yet to connect
    sock,      \* kind -> targetSocket
    verdict,   \* kind -> what connect() of the socket returned
    script,    \* what the client thread has yet to do
    late,      \* history: listeners that read their arguments from a dead frame
    robbed     \* history: <<f, u>>: u's descriptor f was closed by somebody else

startVars  == <<opts, main, frame>>
listenVars == <<listener, func, port, lsock, bound, late>>
peerVars   == <<calling, handler, hkind, box, hfd>>
clientVars == <<client, todo, sock, verdict, script>>
vars == <<opts, main, frame, fdt, listener, func, port, lsock, bound, calling, handler,
          hkind, box, hfd, client, todo, sock, verdict, script, late, robbed>>

Free == <<"free">>
Users == {Free} \cup ({"listen", "open", "client"} \X Kinds) \cup ({"conn"} \X Peers)
FreeFds == {f \in Fds : fdt[f] = Free}

Has(f, u)    == f \in Fds /\ fdt[f] = u
Robbed(f, u) == <<f, u>> \in robbed

\* socket(), accept(): the lowest free descriptor, which u now uses.
Take(u) ==
    /\ fdt' = [fdt EXCEPT ![Min(FreeFds)] = u]
    /\ robbed' = robbed \ {<<Min(FreeFds), u>>}

\* close() by somebody who takes f for one of his, which are us.
CloseAs(f, us) ==
    /\ fdt' = IF f \in Fds THEN [fdt EXCEPT ![f] = Free] ELSE fdt
    /\ robbed' = (robbed \ ({f} \X us)) \cup
                 (IF f \in Fds /\ fdt[f] \notin us \cup {Free} THEN {<<f, fdt[f]>>} ELSE {})

Init ==
    /\ opts \in Options
    /\ main = "options" /\ frame = "none"
    /\ fdt = [f \in Fds |-> Free]
    /\ listener = [k \in Kinds |-> "none"] /\ func = [k \in Kinds |-> k]
    /\ port = [k \in Kinds |-> 0] /\ lsock = [k \in Kinds |-> NoFd]
    /\ bound = [k \in Kinds |-> FALSE]
    /\ calling = [p \in Peers |-> "idle"] /\ handler = [p \in Peers |-> "none"]
    /\ hkind = [p \in Peers |-> "lua"]
    /\ box = [p \in Peers |-> NoFd] /\ hfd = [p \in Peers |-> NoFd]
    /\ client = "none" /\ todo = {}
    /\ \E f \in JunkFds : sock = [k \in Kinds |-> f]   \* not initialised
    /\ verdict = [k \in Kinds |-> 0]
    /\ script = opts.script
    /\ late = {} /\ robbed = {}

-----------------------------------------------------------------------------
(* main and dom0Server. *)

\* The checks of main.
Acceptable(o) ==
    /\ o.valid
    /\ \A k \in Kinds : o.listen[k] # 0
    /\ o.client => \A k \in Kinds : o.target[k] # 0

CheckOptions ==
    /\ main = "options"
    /\ main' = IF Acceptable(opts) THEN "net" ELSE "exited"
    /\ UNCHANGED <<opts, frame, fdt, listenVars, peerVars, clientVars, robbed>>

\* The network is up; the client thread is started if the options ask for it.
NetUp ==
    /\ main = "net"
    /\ main' = "server"
    /\ client' = IF opts.client THEN "idle" ELSE client
    /\ UNCHANGED <<opts, frame, fdt, listenVars, peerVars, todo, sock, verdict, script, robbed>>

\* dom0Server: the Lua listener, the binary listener, and the return, with which
\* the ListenerArgs of both are gone.
StartLua ==
    /\ main = "server"
    /\ main' = "second" /\ frame' = "live"
    /\ listener' = [listener EXCEPT !["lua"] = "type"]
    /\ UNCHANGED <<opts, fdt, func, port, lsock, bound, late, peerVars, clientVars, robbed>>
StartBinary ==
    /\ main = "second"
    /\ main' = "return"
    /\ listener' = [listener EXCEPT !["binary"] = "type"]
    /\ UNCHANGED <<opts, frame, fdt, func, port, lsock, bound, late, peerVars, clientVars,
                   robbed>>
Return ==
    /\ main = "return"
    /\ main' = "asleep" /\ frame' = "gone"
    /\ UNCHANGED <<opts, fdt, listenVars, peerVars, clientVars, robbed>>

MainStep == CheckOptions \/ NetUp \/ StartLua \/ StartBinary \/ Return

-----------------------------------------------------------------------------
(* The listener threads: serverCombined. *)

PortOf(k) == opts.listen[k] % PortWord

\* Mutant of TypeSeen: both threads share one ListenerArgs.
TypeSeenShared(k) == IF main = "second" THEN {"lua"} ELSE {"binary"}

\* Mutant of PortSeen: no htons, so that the two halves of the port are swapped.
PortSeenHostOrder(k) == {2 * (PortOf(k) % 2) + (PortOf(k) \div 2)}

\* args->type and args->port, in a frame that may be gone: then the memory holds
\* what it held before, or anything.
TypeSeen(k) == IF frame = "live" THEN {k} ELSE Kinds
PortSeen(k) == IF frame = "live" THEN {PortOf(k)}
               ELSE {PortOf(k)} \cup JunkPorts

ReadType(k) ==
    /\ listener[k] = "type"
    /\ \E t \in TypeSeen(k) : func' = [func EXCEPT ![k] = t]
    /\ late' = IF frame = "live" THEN late ELSE late \cup {k}
    /\ listener' = [listener EXCEPT ![k] = "port"]
    /\ UNCHANGED <<startVars, fdt, port, lsock, bound, peerVars, clientVars, robbed>>

\* The port, socket, bind, listen: the results are printed.  Port 0 stands for any port.
Bind(k) ==
    /\ listener[k] = "port"
    /\ late' = IF frame = "live" THEN late ELSE late \cup {k}
    /\ \E n \in PortSeen(k) :
          /\ port' = [port EXCEPT ![k] = n]
          /\ bound' = [bound EXCEPT ![k] = FreeFds # {} /\ \A j \in Kinds : bound[j] /\ port[j] = n => n = 0]
    /\ \/ FreeFds # {} /\ Take(<<"listen", k>>) /\ lsock' = [lsock EXCEPT ![k] = Min(FreeFds)]
       \/ FreeFds = {} /\ UNCHANGED <<fdt, lsock, robbed>>
    /\ listener' = [listener EXCEPT ![k] = "accept"]
    /\ UNCHANGED <<startVars, func, peerVars, clientVars>>

\* Does k accept where the peers that ask for kind j call?  Its descriptor may be that of
\* the other listener's socket, if its own was closed.
Reaches(j, k) ==
    /\ listener[k] = "accept"
    /\ \E i \in Kinds : /\ Has(lsock[k], <<"listen", i>>) /\ bound[i]
                        /\ port[i] = PortOf(j) /\ port[i] # 0

\* Mutant of Accept: the listener runs the handler itself.
AcceptOne(k, p) ==
    /\ \A q \in Peers : handler[q] = "none" \/ calling[q] # calling[p]
    /\ calling[p] # "idle" /\ handler[p] = "none" /\ Reaches(calling[p], k) /\ FreeFds # {}
    /\ Take(<<"conn", p>>)
    /\ box' = [box EXCEPT ![p] = Min(FreeFds)]
    /\ hkind' = [hkind EXCEPT ![p] = func[k]]
    /\ handler' = [handler EXCEPT ![p] = "start"]
    /\ UNCHANGED <<startVars, listener, func, port, lsock, bound, late, calling, hfd,
                   clientVars>>

\* accept(): a descriptor in memory of its own, and a new thread.
Accept(k, p) ==
    /\ calling[p] # "idle" /\ handler[p] = "none" /\ Reaches(calling[p], k)
    /\ FreeFds # {}
    /\ Take(<<"conn", p>>)
    /\ box' = [box EXCEPT ![p] = Min(FreeFds)]
    /\ hkind' = [hkind EXCEPT ![p] = func[k]]
    /\ handler' = [handler EXCEPT ![p] = "start"]
    /\ UNCHANGED <<startVars, listener, func, port, lsock, bound, late, calling, hfd,
                   clientVars>>

\* Without a free descriptor accept() drops the connection.  Whenever accept() fails,
\* at once and for ever if the socket is not bound or was closed, the loop starts a
\* thread that finds -1, reads nothing and ends.
AcceptFails(k, p) ==
    /\ calling[p] # "idle" /\ handler[p] = "none" /\ Reaches(calling[p], k)
    /\ FreeFds = {}
    /\ calling' = [calling EXCEPT ![p] = "idle"]
    /\ UNCHANGED <<startVars, fdt, listenVars, handler, hkind, box, hfd, clientVars, robbed>>

ListenerSetup(k) == ReadType(k) \/ Bind(k)

-----------------------------------------------------------------------------
(* Peers and handler threads. *)

\* A remote client calls the port of a service; he is refused if nobody listens there.
Call(p, k) ==
    /\ p \in opts.callers /\ calling[p] = "idle" /\ \E j \in Kinds : Reaches(k, j)
    /\ calling' = [calling EXCEPT ![p] = k]
    /\ UNCHANGED <<startVars, fdt, listenVars, handler, hkind, box, hfd, clientVars, robbed>>

\* Mutant of HandlerStart: there is one new_sock for all threads.
HandlerStartShared(p) ==
    /\ handler[p] = "start"
    /\ \E q \in Peers : handler[q] = "start" /\ hfd' = [hfd EXCEPT ![p] = box[q]]
    /\ handler' = [handler EXCEPT ![p] = "serving"]
    /\ UNCHANGED <<startVars, fdt, listenVars, calling, hkind, box, clientVars, robbed>>

\* int fd = *(int*) socket_desc, and free.
HandlerStart(p) ==
    /\ handler[p] = "start"
    /\ hfd' = [hfd EXCEPT ![p] = box[p]]
    /\ box' = [box EXCEPT ![p] = NoFd]
    /\ handler' = [handler EXCEPT ![p] = "serving"]
    /\ UNCHANGED <<startVars, fdt, listenVars, calling, hkind, clientVars, robbed>>

\* Mutant of HandlerEnd: the thread closes its socket and stays in the loop.
HandlerEndAgain(p) ==
    /\ handler[p] = "serving"
    /\ CloseAs(hfd[p], {<<"conn", p>>})
    /\ UNCHANGED <<startVars, listenVars, calling, handler, hkind, box, hfd, clientVars>>

\* The connection ends: the handler leaves its loop and closes the socket.
HandlerEnd(p) ==
    /\ handler[p] = "serving"
    /\ CloseAs(hfd[p], {<<"conn", p>>})
    /\ handler' = [handler EXCEPT ![p] = "none"]
    /\ calling' = [calling EXCEPT ![p] = "idle"]
    /\ hfd' = [hfd EXCEPT ![p] = NoFd] /\ hkind' = [hkind EXCEPT ![p] = "lua"]
    /\ UNCHANGED <<startVars, listenVars, box, clientVars>>

-----------------------------------------------------------------------------
(* The client thread: RemoteDom0Instance and its two TcpClientSockets. *)

IsDisabled(k) == opts.target[k] % PortWord = 0

\* The bitwise and of two results, each 1 or negative: only an odd number has the
\* bit of 1, and two negative ones give a negative one.
BitAnd(a, b) == IF a > 0 /\ b > 0 THEN 1
                ELSE IF a > 0 \/ b > 0 THEN (IF a > 0 THEN b ELSE a) % 2
                ELSE -1

ClientConnect ==
    /\ client = "idle" /\ script # <<>> /\ Head(script) = "connect"
    /\ client' = "connect" /\ todo' = Kinds /\ script' = Tail(script)
    /\ UNCHANGED <<startVars, fdt, listenVars, peerVars, sock, verdict, robbed>>

\* Mutant of ConnectSocket: an error is returned without its sign.
ConnectSocketPositive(k) ==
    /\ client = "connect" /\ k \in todo /\ ~IsDisabled(k) /\ FreeFds # {}
    /\ sock' = [sock EXCEPT ![k] = Min(FreeFds)]
    /\ \E e \in Errnos : verdict' = [verdict EXCEPT ![k] = e]
    /\ Take(<<"open", k>>)
    /\ todo' = todo \ {k}
    /\ UNCHANGED <<startVars, listenVars, peerVars, client, script>>

\* TcpClientSocket::connect, of the two sockets in either order.  A socket from an
\* earlier connect is forgotten, and one that fails to connect is kept open.  (socket()
\* and connect() are one step.)
ConnectSocket(k) ==
    /\ client = "connect" /\ k \in todo
    /\ todo' = todo \ {k}
    /\ \/ IsDisabled(k) /\ verdict' = [verdict EXCEPT ![k] = 1] /\ UNCHANGED <<fdt, sock, robbed>>
       \/ /\ ~IsDisabled(k) /\ FreeFds # {}
          /\ sock' = [sock EXCEPT ![k] = Min(FreeFds)]
          /\ \/ Take(<<"client", k>>) /\ verdict' = [verdict EXCEPT ![k] = 1]
             \/ Take(<<"open", k>>) /\ \E e \in Errnos : verdict' = [verdict EXCEPT ![k] = -e]
       \/ /\ ~IsDisabled(k) /\ FreeFds = {}
          /\ sock' = [sock EXCEPT ![k] = NoFd]
          /\ \E e \in Errnos : verdict' = [verdict EXCEPT ![k] = -e]
          /\ UNCHANGED <<fdt, robbed>>
    /\ UNCHANGED <<startVars, listenVars, peerVars, client, script>>

\* RemoteDom0Instance::connect returns Result.
Result == BitAnd(verdict["lua"], verdict["binary"])
ConnectReturn ==
    /\ client = "connect" /\ todo = {}
    /\ client' = "idle" /\ verdict' = [k \in Kinds |-> 0]
    /\ UNCHANGED <<startVars, fdt, listenVars, peerVars, todo, sock, script, robbed>>

\* RemoteDom0Instance::disconnect: the binary socket, twice.
Disconnect ==
    /\ client = "idle" /\ script # <<>> /\ Head(script) = "disconnect"
    /\ client' = "close" /\ script' = Tail(script)
    /\ UNCHANGED <<startVars, fdt, listenVars, peerVars, todo, sock, verdict, robbed>>
DisconnectBinary ==
    /\ client \in {"close", "close again"}
    /\ client' = IF client = "close" THEN "close again" ELSE "idle"
    /\ IF IsDisabled("binary") THEN UNCHANGED <<fdt, robbed>>
       ELSE CloseAs(sock["binary"], {<<"open", "binary">>, <<"client", "binary">>})
    /\ UNCHANGED <<startVars, listenVars, peerVars, todo, sock, verdict, script>>

Client == ClientConnect \/ (\E k \in Kinds : ConnectSocket(k)) \/ ConnectReturn
          \/ Disconnect \/ DisconnectBinary

Next ==
    \/ MainStep \/ Client
    \/ \E k \in Kinds : ListenerSetup(k) \/ \E p \in Peers : Accept(k, p) \/ AcceptFails(k, p)
    \/ \E p \in Peers : HandlerStart(p) \/ HandlerEnd(p) \/ \E k \in Kinds : Call(p, k)

Spec == Init /\ [][Next]_vars

\* Threads that can run do run, and accept() takes the connections in their order;
\* peers, connections and the client's operations come and go as they like.
FairSpec == /\ Spec /\ WF_vars(MainStep)
            /\ \A k \in Kinds : WF_vars(ListenerSetup(k))
            /\ \A p \in Peers : /\ WF_vars(\E k \in Kinds : Accept(k, p))
                               /\ WF_vars(HandlerStart(p))

-----------------------------------------------------------------------------
(* Properties. *)

\* Types.
TypeOK ==
    /\ opts \in Options /\ frame \in {"none", "live", "gone"}
    /\ main \in {"options", "net", "server", "second", "return", "asleep", "exited"}
    /\ fdt \in [Fds -> Users]
    /\ listener \in [Kinds -> {"none", "type", "port", "accept"}]
    /\ func \in [Kinds -> Kinds] /\ port \in [Kinds -> 0..PortWord - 1]
    /\ lsock \in [Kinds -> Fds \cup {NoFd}]
    /\ bound \in [Kinds -> BOOLEAN]
    /\ calling \in [Peers -> Kinds \cup {"idle"}]
    /\ handler \in [Peers -> {"none", "start", "serving"}] /\ hkind \in [Peers -> Kinds]
    /\ box \in [Peers -> Fds \cup {NoFd}] /\ hfd \in [Peers -> Fds \cup {NoFd}]
    /\ client \in {"none", "idle", "connect", "close", "close again"} /\ todo \subseteq Kinds
    /\ sock \in [Kinds -> Fds \cup {NoFd}]
    /\ verdict \in [Kinds -> Int] /\ script \in Seq({"connect", "disconnect"})
    /\ late \subseteq Kinds /\ robbed \subseteq Fds \X Users

\* Has a listening socket been closed by a stranger?
ListenerRobbed == \E k \in Kinds : Robbed(lsock[k], <<"listen", k>>)

\* A connection is served by the kind of handler its port stands for, unless a
\* listener read its arguments after dom0Server had returned, both services have the
\* same port, or the socket of a listener was closed by somebody else, so that it may
\* now accept at the other's.
ServedByKind ==
    late = {} /\ PortOf("lua") # PortOf("binary") /\ ~ListenerRobbed =>
        \A p \in Peers : handler[p] = "serving" => hkind[p] = calling[p]

\* Each handler works on the connection it was started for and on no other, though
\* one loop starts them all and descriptors are reused; unless somebody else has closed
\* just this handler's descriptor, whatever was closed of others.
HandlersOwnSockets ==
    \A p \in Peers : handler[p] = "serving" =>
        Has(hfd[p], <<"conn", p>>) \/ Robbed(hfd[p], <<"conn", p>>)

\* Whoever closes what belongs to somebody else is disconnect(), which closes the
\* binary socket twice, and also before the first connect; or a handler that ends and
\* whose own descriptor had been closed by somebody else before.
StraysStartInDisconnect ==
    [][\A x \in robbed' \ robbed :
          \/ client \in {"close", "close again"} /\ client' # client
          \/ \E p \in Peers : /\ handler[p] = "serving" /\ handler'[p] = "none"
                              /\ Robbed(hfd[p], <<"conn", p>>)]_vars

\* When connect() of the instance says 1, the client has both connections that are
\* not disabled, unless one failed with an odd errno, or somebody else has closed its
\* socket since: though either may fail when the other is up, and sockets of earlier
\* calls are still open or were closed twice.
ConnectVerdict ==
    client = "connect" /\ todo = {} /\ Result = 1 =>
        \A k \in Kinds : \/ IsDisabled(k) \/ -verdict[k] \in {e \in Errnos : e % 2 = 1}
                         \/ Has(sock[k], <<"client", k>>) \/ Robbed(sock[k], <<"client", k>>)

\* What can keep a service or a caller waiting: main has refused its options, a
\* listener read its arguments too late, descriptors ran out, or the socket of a
\* listener was closed by somebody else.
Hampered == main = "exited" \/ late # {} \/ FreeFds = {} \/ ListenerRobbed

\* Both services get up at the ports the options name, also if they name one port for
\* both; a multiple of the number of ports is no port.
ServicesUp ==
    \A k \in Kinds : <>(Hampered \/ PortOf(k) = 0 \/ \E j \in Kinds : Reaches(k, j))

\* Whoever gets through to a service gets a handler, however many others call and
\* however long their connections last.
CallsAccepted ==
    \A p \in Peers : calling[p] # "idle" ~> (handler[p] = "serving" \/ calling[p] = "idle" \/ Hampered)
=============================================================================
