----------------------------- MODULE LuaChannel -----------------------------
(***************************************************************************)
(* The way of a Lua command to Ned.  A remote Dom0 sends it over TCP with  *)
(* RemoteDom0Instance::executeLuaString; the luaConnectionHandler thread of *)
(* its connection passes it on to the local Ned by IPC, as a local thread  *)
(* does that calls LuaIpcClient::executeString itself.  Ned is one thread: *)
(* it serves one caller at a time, has one buffer for commands, and builds *)
(* its answer in the same message registers (UTCB) that the IPC calls use  *)
(* which the command makes while it runs.                                  *)
(***************************************************************************)
EXTENDS Integers, Sequences

CONSTANTS
    Remotes,    \* remote clients, each with its connection and handler thread
    Locals,     \* threads of the local Dom0 that call LuaIpcClient
    Commands,   \* the Lua commands
    UtcbSize,   \* the longest string an IPC carries
    BufLen,     \* BUF_LEN: the size of the handler's buffer
    MaxCalls,   \* bound: the commands one remote or local thread issues
    Faults      \* "loss" of a connection

\* len: strlen + 1; parses: luaL_loadbuffer accepts it; ipc: it makes IPC calls
CommandType == [id : Nat, len : Nat \ {0}, parses : BOOLEAN, ipc : BOOLEAN]
NoCommand   == [id |-> 0, len |-> 1, parses |-> TRUE, ipc |-> FALSE]
Callers     == Remotes \cup Locals

ASSUME CommandsAssumption == Commands \subseteq CommandType
ASSUME CallersAssumption == Remotes \cap Locals = {}
ASSUME BoundsAssumption == /\ UtcbSize \in Nat \ {0} /\ MaxCalls \in Nat
                           /\ BufLen \in Nat /\ UtcbSize <= BufLen

VARIABLES
    up,        \* is the connection of a remote client up
    toServer,  \* commands on their way to the handler
    toClient,  \* answers on their way back
    waiting,   \* is the remote or local caller waiting for an answer
    issued,    \* the commands it has issued
    answers,   \* what executeLuaString or executeString returned for each
    thread,    \* the Dom0 thread: "receiving", "calling", "answered", "closed"
    alive,     \* does the local Dom0 run
    cmd,       \* the command in the thread's buffer
    verdict,   \* what Ned's answer to it says
    ned,       \* "loop", "refused", "accepted" or "reply"
    caller,    \* whom Ned serves
    nedBuffer, \* the command in Ned's buffer
    utcb,      \* the first message register of Ned
    executed   \* the commands Ned has run, with their callers

netVars    == <<up, toServer, toClient>>
clientVars == <<waiting, issued, answers>>
threadVars == <<thread, alive, cmd, verdict>>
nedVars    == <<ned, caller, nedBuffer, utcb, executed>>
vars == <<up, toServer, toClient, waiting, issued, answers, thread, alive, cmd,
          verdict, ned, caller, nedBuffer, utcb, executed>>

LUA_OK    == "LUA_OK"
LUA_ERROR == "LUA_ERROR"
FAILED    == "-errno"
CLOBBERED == "clobbered"  \* what the last IPC of a command left in the UTCB

Init ==
    /\ up = [r \in Remotes |-> TRUE]
    /\ toServer = [r \in Remotes |-> <<>>]
    /\ toClient = [r \in Remotes |-> <<>>]
    /\ waiting = [t \in Callers |-> FALSE]
    /\ issued = [t \in Callers |-> <<>>]
    /\ answers = [t \in Callers |-> <<>>]
    /\ thread = [t \in Callers |-> "receiving"]
    /\ alive = TRUE
    /\ cmd = [t \in Callers |-> NoCommand]
    /\ verdict = [t \in Callers |-> LUA_ERROR]
    /\ ned = "loop"
    /\ caller \in Callers
    /\ nedBuffer = NoCommand
    /\ utcb = CLOBBERED
    /\ executed = <<>>

-----------------------------------------------------------------------------
(* The remote client: RemoteDom0Instance::executeLuaString. *)

Issued(t, c) ==
    /\ ~waiting[t] /\ Len(issued[t]) < MaxCalls
    /\ issued' = [issued EXCEPT ![t] = Append(@, c)]
Answered(t, a) ==
    /\ waiting' = [waiting EXCEPT ![t] = FALSE]
    /\ answers' = [answers EXCEPT ![t] = Append(@, a)]

\* Size and command are sent.  On a lost connection that fails, or it is lost.
ExecuteLuaString(r, c) ==
    /\ Issued(r, c)
    /\ \/ /\ waiting' = [waiting EXCEPT ![r] = TRUE]
          /\ toServer' = IF up[r] THEN [toServer EXCEPT ![r] = Append(@, c)] ELSE toServer
          /\ UNCHANGED answers
       \/ /\ ~up[r]
          /\ Answered(r, FAILED)
          /\ UNCHANGED toServer
    /\ UNCHANGED <<up, toClient, threadVars, nedVars>>

\* The answer arrives, or never will.
TakeAnswer(r) ==
    /\ waiting[r]
    /\ \/ /\ toClient[r] # <<>>
          /\ Answered(r, Head(toClient[r]))
          /\ toClient' = [toClient EXCEPT ![r] = Tail(@)]
       \/ /\ toClient[r] = <<>> /\ ~up[r]
          /\ Answered(r, FAILED)
          /\ UNCHANGED toClient
    /\ UNCHANGED <<up, toServer, issued, threadVars, nedVars>>

\* The connection breaks and loses some of what is on its way.
Lose(r) ==
    /\ "loss" \in Faults /\ up[r]
    /\ up' = [up EXCEPT ![r] = FALSE]
    /\ \E n \in 0..Len(toServer[r]) : toServer' = [toServer EXCEPT ![r] = SubSeq(@, 1, n)]
    /\ \E n \in 0..Len(toClient[r]) : toClient' = [toClient EXCEPT ![r] = SubSeq(@, 1, n)]
    /\ UNCHANGED <<clientVars, threadVars, nedVars>>

-----------------------------------------------------------------------------
(* The handler thread: luaConnectionHandler. *)

\* NETCHECK_LOOP: break, and close the socket.
Break(r) ==
    /\ thread' = [thread EXCEPT ![r] = "closed"]
    /\ up' = [up EXCEPT ![r] = FALSE]
    /\ toServer' = [toServer EXCEPT ![r] = <<>>]

\* Mutant of ReceiveCommand: the handler answers without asking Ned.
ReceiveCommandNoCall(r) ==
    /\ alive /\ thread[r] = "receiving" /\ toServer[r] # <<>>
    /\ cmd' = [cmd EXCEPT ![r] = Head(toServer[r])]
    /\ toServer' = [toServer EXCEPT ![r] = Tail(@)]
    /\ thread' = [thread EXCEPT ![r] = "answered"]
    /\ UNCHANGED <<up, toClient, clientVars, alive, verdict, nedVars>>

\* The size and the string are received; executeString starts its IPC call.  The size
\* is not compared with that of the buffer: a longer string overwrites what lies behind
\* the buffer on the stack.  That can go unnoticed (else: Overrun), and Ned gets all of
\* the string.
ReceiveCommand(r) ==
    /\ alive /\ thread[r] = "receiving"
    /\ \/ /\ toServer[r] # <<>>
          /\ cmd' = [cmd EXCEPT ![r] = Head(toServer[r])]
          /\ toServer' = [toServer EXCEPT ![r] = Tail(@)]
          /\ thread' = [thread EXCEPT ![r] = "calling"]
          /\ UNCHANGED up
       \/ /\ toServer[r] = <<>> /\ ~up[r]
          /\ Break(r)
          /\ UNCHANGED cmd
    /\ UNCHANGED <<toClient, clientVars, alive, verdict, nedVars>>

\* A string that overwrites the handler's stack can end Dom0: all its threads and
\* connections, with answers it has not yet delivered.  (Whatever else Dom0 does with
\* such a stack is not followed.)
Overrun(r) ==
    /\ alive /\ thread[r] = "receiving"
    /\ toServer[r] # <<>> /\ Head(toServer[r]).len > BufLen
    /\ alive' = FALSE
    /\ up' = [q \in Remotes |-> FALSE]
    /\ toServer' = [q \in Remotes |-> <<>>]
    /\ \E lost \in SUBSET Remotes :
          toClient' = [q \in Remotes |-> IF q \in lost THEN <<>> ELSE toClient[q]]
    /\ UNCHANGED <<clientVars, thread, cmd, verdict, nedVars>>

\* Mutant of SendAnswer: only LUA_OK is sent.
SendAnswerOkOnly(r) ==
    /\ alive /\ thread[r] = "answered"
    /\ toClient' = IF up[r] /\ verdict[r] = LUA_OK
                   THEN [toClient EXCEPT ![r] = Append(@, verdict[r])] ELSE toClient
    /\ thread' = [thread EXCEPT ![r] = "receiving"]
    /\ UNCHANGED <<up, toServer, clientVars, alive, cmd, verdict, nedVars>>

\* The answer goes to the client; on a lost connection it may be lost.
SendAnswer(r) ==
    /\ alive /\ thread[r] = "answered"
    /\ \/ /\ toClient' = IF up[r] THEN [toClient EXCEPT ![r] = Append(@, verdict[r])]
                         ELSE toClient
          /\ thread' = [thread EXCEPT ![r] = "receiving"]
          /\ UNCHANGED <<up, toServer>>
       \/ /\ ~up[r]
          /\ Break(r)
          /\ UNCHANGED toClient
    /\ UNCHANGED <<clientVars, alive, cmd, verdict, nedVars>>

-----------------------------------------------------------------------------
(* A local thread: LuaIpcClient::executeString. *)

ExecuteString(l, c) ==
    /\ alive /\ Issued(l, c)
    /\ waiting' = [waiting EXCEPT ![l] = TRUE]
    /\ cmd' = [cmd EXCEPT ![l] = c]
    /\ thread' = [thread EXCEPT ![l] = "calling"]
    /\ UNCHANGED <<netVars, answers, alive, verdict, nedVars>>

ExecuteReturn(l) ==
    /\ alive /\ thread[l] = "answered"
    /\ Answered(l, verdict[l])
    /\ thread' = [thread EXCEPT ![l] = "receiving"]
    /\ UNCHANGED <<netVars, issued, alive, cmd, verdict, nedVars>>

-----------------------------------------------------------------------------
(* Ned: Ned_server::dispatch. *)

\* The string is copied to Ned's buffer; one that does not fit into the UTCB is
\* missing in the message, and the buffer keeps the command before it.
CopyIn(t)   == IF cmd[t].len <= UtcbSize THEN cmd[t] ELSE nedBuffer
SizeIn(t)   == IF cmd[t].len <= UtcbSize THEN cmd[t].len ELSE 0

\* Mutants of NedReceive: the size is not checked; LUA_OK is put first and stays.
NedReceiveUnchecked(t) ==
    /\ alive /\ ned = "loop" /\ thread[t] = "calling"
    /\ caller' = t
    /\ nedBuffer' = CopyIn(t)
    /\ ned' = "accepted" /\ utcb' = LUA_OK
    /\ UNCHANGED <<netVars, clientVars, threadVars, executed>>
NedReceiveOkFirst(t) ==
    /\ alive /\ ned = "loop" /\ thread[t] = "calling"
    /\ caller' = t
    /\ nedBuffer' = CopyIn(t)
    /\ utcb' = LUA_OK
    /\ ned' = IF nedBuffer'.len # SizeIn(t) THEN "refused" ELSE "accepted"
    /\ UNCHANGED <<netVars, clientVars, threadVars, executed>>

\* strlen(buffer) + 1 is compared with the size received, and the answer put
\* into the message registers.
NedReceive(t) ==
    /\ alive /\ ned = "loop" /\ thread[t] = "calling"
    /\ caller' = t
    /\ nedBuffer' = CopyIn(t)
    /\ IF nedBuffer'.len # SizeIn(t)
       THEN ned' = "refused" /\ utcb' = LUA_ERROR
       ELSE ned' = "accepted" /\ utcb' = LUA_OK
    /\ UNCHANGED <<netVars, clientVars, threadVars, executed>>

\* The command runs, which overwrites the message registers if it makes an IPC
\* call.  (What is left may be the same value.)
NedExecute ==
    /\ ned = "accepted"
    /\ IF nedBuffer.parses
       THEN /\ executed' = Append(executed, <<caller, nedBuffer>>)
            /\ utcb' \in IF nedBuffer.ipc THEN {utcb, CLOBBERED} ELSE {utcb}
       ELSE UNCHANGED <<executed, utcb>>
    /\ ned' = "reply"
    /\ UNCHANGED <<netVars, clientVars, threadVars, caller, nedBuffer>>

\* The server loop replies with what is in the UTCB; executeString compares it.  (A
\* thread of a Dom0 that does not run any more does nothing with the reply.)
NedReply ==
    /\ ned \in {"refused", "reply"}
    /\ verdict' = [verdict EXCEPT ![caller] = IF utcb = LUA_OK THEN LUA_OK ELSE LUA_ERROR]
    /\ thread' = [thread EXCEPT ![caller] = "answered"]
    /\ ned' = "loop"
    /\ UNCHANGED <<netVars, clientVars, alive, cmd, caller, nedBuffer, utcb, executed>>

Ned == NedExecute \/ NedReply \/ \E t \in Callers : NedReceive(t)

Next ==
    \/ \E r \in Remotes : \/ \E c \in Commands : ExecuteLuaString(r, c)
                          \/ TakeAnswer(r) \/ Lose(r)
                          \/ ReceiveCommand(r) \/ Overrun(r) \/ SendAnswer(r)
    \/ \E l \in Locals : (\E c \in Commands : ExecuteString(l, c)) \/ ExecuteReturn(l)
    \/ Ned

Spec == Init /\ [][Next]_vars

\* Threads that can run do run, and Ned's commands end.  Callers of Ned queue
\* at its IPC gate: a caller that keeps calling does not keep others out.
FairSpec ==
    /\ Spec
    /\ \A r \in Remotes : WF_vars(TakeAnswer(r)) /\ WF_vars(ReceiveCommand(r))
                          /\ WF_vars(SendAnswer(r))
    /\ \A l \in Locals : WF_vars(ExecuteReturn(l))
    /\ WF_vars(NedExecute) /\ WF_vars(NedReply)
    /\ \A t \in Callers : SF_vars(NedReceive(t))

-----------------------------------------------------------------------------
(* Properties. *)

Answers == {LUA_OK, LUA_ERROR, FAILED}

\* Types: in particular a caller only ever sees LUA_OK, LUA_ERROR or -errno, never
\* what a command has left in Ned's message registers.
TypeOK ==
    /\ up \in [Remotes -> BOOLEAN]
    /\ toServer \in [Remotes -> Seq(Commands)]
    /\ toClient \in [Remotes -> Seq(Answers)]
    /\ waiting \in [Callers -> BOOLEAN]
    /\ issued \in [Callers -> Seq(Commands)]
    /\ answers \in [Callers -> Seq(Answers)]
    /\ thread \in [Callers -> {"receiving", "calling", "answered", "closed"}]
    /\ alive \in BOOLEAN
    /\ cmd \in [Callers -> Commands \cup {NoCommand}]
    /\ verdict \in [Callers -> Answers]
    /\ ned \in {"loop", "refused", "accepted", "reply"}
    /\ caller \in Callers
    /\ nedBuffer \in Commands \cup {NoCommand}
    /\ utcb \in {LUA_OK, LUA_ERROR, CLOBBERED}
    /\ executed \in Seq(Callers \X Commands)

\* The commands of t that Ned runs if it gets them, by their place in issued[t];
\* and the runs it has made for t, by their place in executed.
Runs(t) == {k \in DOMAIN issued[t] : issued[t][k].len <= UtcbSize /\ issued[t][k].parses}
RunFor(t) == {i \in DOMAIN executed : executed[i][1] = t}

\* f takes every run made for t to the command of t that was run: each command at
\* most once, in the order they were issued.
Matches(t, f) ==
    /\ \A i \in RunFor(t) : executed[i][2] = issued[t][f[i]]
    /\ \A i, j \in RunFor(t) : i < j => f[i] < f[j]

\* All that Ned runs of the first n commands of t has run.
RanUpTo(t, f, n) == \A k \in Runs(t) : k <= n => \E i \in RunFor(t) : f[i] = k

\* Ned runs the commands of a caller in the order they were issued, each once and
\* none left out, and never the command of another caller, or an earlier one that
\* is still in its buffer, in place of one that did not arrive.
ExecutedInOrder ==
    \A t \in Callers : \E f \in [RunFor(t) -> Runs(t)] :
        Matches(t, f) /\ \A i \in RunFor(t) : RanUpTo(t, f, f[i])

\* Who gets an answer, LUA_OK or LUA_ERROR, gets it for his own last command,
\* and that command and those before it have run by then if they are going to.
AnsweredIsExecuted ==
    \A t \in Callers : \E f \in [RunFor(t) -> Runs(t)] :
        /\ Matches(t, f)
        /\ \A n \in DOMAIN answers[t] : answers[t][n] # FAILED => RanUpTo(t, f, n)

\* LUA_OK is never reported for a command that did not reach Ned completely: not for
\* one that does not fit into the message, and not for one that does not even fit into
\* the handler's buffer, if Dom0 goes on after it.
NoFalseOk ==
    \A t \in Callers : \A n \in DOMAIN answers[t] :
        answers[t][n] = LUA_OK => issued[t][n].len <= UtcbSize

\* "If it has, it answers with LUA_OK": LUA_ERROR is only reported for a command
\* that Ned did not receive completely.
ReceptionReported ==
    \A t \in Callers : \A n \in DOMAIN answers[t] :
        answers[t][n] = LUA_ERROR => issued[t][n].len > UtcbSize

\* Every call is answered, if the commands that Ned runs end; only who calls within
\* the local Dom0 is not when that crashes.
EveryCallAnswered == \A t \in Callers :
    waiting[t] ~> (~waiting[t] \/ (t \in Locals /\ ~alive))
=============================================================================
