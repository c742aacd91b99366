---------------------------- MODULE MCLuaChannel ----------------------------
(***************************************************************************)
(* Small instances of LuaChannel.                                          *)
(***************************************************************************)
EXTENDS LuaChannel, TLC

Command(i, n, p, m) == [id |-> i, len |-> n, parses |-> p, ipc |-> m]

\* A command that starts a task, a computation of the same length, one that is too
\* long for Ned, one with a syntax error, and one too long for the handler's buffer.
MCCommands   == {Command(1, 2, TRUE, TRUE), Command(2, 2, TRUE, FALSE),
                 Command(3, 3, TRUE, TRUE), Command(4, 1, FALSE, FALSE),
                 Command(5, 4, TRUE, TRUE)}
FewCommands  == {Command(1, 2, TRUE, TRUE), Command(3, 3, TRUE, TRUE)}
=============================================================================
