---------------------------- MODULE MCDomStartup ----------------------------
(* Instance of DomStartup: command lines and what happens then, with 4 for the *)
(* 65536 ports and fewer descriptors than all threads together could use.     *)
EXTENDS DomStartup

MCNoFd == -1

Ports(l, b) == [k \in Kinds |-> IF k = "lua" THEN l ELSE b]
Option(c, l, t, s, n) == [valid |-> TRUE, client |-> c, listen |-> l, target |-> t, script |-> s,
                          callers |-> 1..n]

\* Two services and two callers; a listening port that main accepts and that is none;
\* a client that connects and disconnects; one without a Lua channel that connects again
\* after that; one that disconnects first; one port for both services, and a client whose
\* binary channel is disabled; two refusals.
MCOptions ==
    {Option(FALSE, Ports(1, 2), Ports(0, 0), <<>>, 2),
     Option(FALSE, Ports(4, 2), Ports(0, 0), <<>>, 1),
     Option(TRUE, Ports(1, 2), Ports(1, 2), <<"connect", "disconnect">>, 1),
     Option(TRUE, Ports(1, 2), Ports(4, 2), <<"connect", "disconnect", "connect">>, 1),
     Option(TRUE, Ports(1, 2), Ports(1, 2), <<"disconnect">>, 1),
     Option(TRUE, Ports(5, 1), Ports(1, 4), <<"connect", "disconnect">>, 1),
     Option(TRUE, Ports(1, 2), Ports(1, 0), <<"connect">>, 1),
     [Option(FALSE, Ports(1, 2), Ports(1, 2), <<>>, 1) EXCEPT !.valid = FALSE]}
=============================================================================
