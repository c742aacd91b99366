-------------------------- MODULE LuaChannelProofs --------------------------
(***************************************************************************)
(* What is proved of LuaChannel, for every number of callers, commands and *)
(* calls: answers, commands and runs never get out of step.                *)
(***************************************************************************)
EXTENDS LuaChannel, SequenceTheorems, TLAPS

-----------------------------------------------------------------------------
(* The inductive invariant.  Of the commands that a caller has issued, the  *)
(* first d have been sent over a connection that was up; d is the one that *)
(* is still on its way, if one is.                                         *)

\* The way from the caller to its thread, and back.
Up(t)   == t \in Remotes => up[t]
Sent(t) == IF t \in Remotes THEN toServer[t] ELSE <<>>
Back(t) == IF t \in Remotes THEN toClient[t] ELSE <<>>
Busy(t) == thread[t] \in {"calling", "answered"}

\* A caller that does not wait has an answer for every command.
Counted(t) == Len(issued[t]) = Len(answers[t]) + (IF waiting[t] THEN 1 ELSE 0)

\* Every command of t that has run comes before command d.
RunBelow(t, f, d) == \A i \in RunFor(t) : f[i] < d

\* Command d is at one place at a time, and not run before Ned has accepted it.
OneInFlight(t, f, d) ==
    /\ d \in 0..Len(issued[t])
    /\ Up(t) => d = Len(issued[t])
    /\ RunBelow(t, f, d + 1)
    /\ RanUpTo(t, f, d - 1)
    /\ Sent(t) # <<>> => /\ d > 0 /\ Sent(t) = <<issued[t][d]>>
                         /\ thread[t] = "receiving" /\ Back(t) = <<>>
                         /\ Up(t) => waiting[t]
                         /\ RunBelow(t, f, d)
    /\ Busy(t) => d > 0 /\ cmd[t] = issued[t][d] /\ Back(t) = <<>> /\ (Up(t) => waiting[t])
    /\ thread[t] = "calling" /\ ~(caller = t /\ ned = "reply") =>
          RunBelow(t, f, d)
    /\ caller = t /\ ned = "reply" => RanUpTo(t, f, d)
    /\ thread[t] = "answered" => RanUpTo(t, f, d)
    /\ Back(t) # <<>> => /\ RanUpTo(t, f, d) /\ d = Len(issued[t]) /\ waiting[t]
                         /\ Len(Back(t)) = 1 /\ Head(Back(t)) # FAILED
                         /\ Head(Back(t)) = LUA_OK => issued[t][d].len <= UtcbSize
    /\ Up(t) /\ ~Busy(t) /\ Sent(t) = <<>> => RanUpTo(t, f, d)
    /\ Up(t) => thread[t] # "closed"
    /\ t \in Locals => (waiting[t] <=> Busy(t))

\* Whoever has an answer of Ned has it for a command that has run if it ever will.
Told(t, f) ==
    \A n \in DOMAIN answers[t] : answers[t][n] # FAILED => RanUpTo(t, f, n)

InOrder(t) == \E f \in [RunFor(t) -> Runs(t)] : \E d \in 0..Len(issued[t]) :
                  Matches(t, f) /\ OneInFlight(t, f, d) /\ Told(t, f)

\* Ned's buffer and registers are those of the command of the caller it serves.
NedInv ==
    /\ ned # "loop" => thread[caller] = "calling"
    /\ ned \in {"accepted", "reply"} =>
          nedBuffer = cmd[caller] /\ cmd[caller].len <= UtcbSize
    /\ ned = "refused" => cmd[caller].len > UtcbSize /\ utcb # LUA_OK

\* LUA_OK is the verdict on a command that has arrived.
VerdictInv == \A t \in Callers : 
    /\ thread[t] = "answered" /\ verdict[t] = LUA_OK => cmd[t].len <= UtcbSize
    /\ verdict[t] # FAILED

LInv ==
    /\ TypeOK /\ NedInv /\ VerdictInv /\ NoFalseOk
    /\ \A t \in Callers : Counted(t) /\ InOrder(t)

-----------------------------------------------------------------------------
(* What an action changes of the runs of a caller. *)

\* Nothing, if it neither issues a command of t nor runs one.
LEMMA SameRuns ==
    ASSUME NEW t, NEW f, issued'[t] = issued[t], executed' = executed
    PROVE  /\ RunFor(t)' = RunFor(t) /\ Runs(t)' = Runs(t)
           /\ Matches(t, f)' <=> Matches(t, f)
           /\ \A n : RanUpTo(t, f, n)' <=> RanUpTo(t, f, n)
           /\ \A n : RunBelow(t, f, n)' <=> RunBelow(t, f, n)
<1>1. RunFor(t)' = RunFor(t) BY DEF RunFor
<1>2. Runs(t)' = Runs(t) BY DEF Runs
<1>3. Matches(t, f)' <=> Matches(t, f) BY <1>1 DEF Matches
<1>4. \A n : RanUpTo(t, f, n)' <=> RanUpTo(t, f, n) BY <1>1, <1>2 DEF RanUpTo
<1>5. \A n : RunBelow(t, f, n)' <=> RunBelow(t, f, n) BY <1>1 DEF RunBelow
<1>. QED BY <1>1, <1>2, <1>3, <1>4, <1>5

\* An action that leaves alone what concerns t keeps t in order.
LEMMA Frame ==
    ASSUME NEW t \in Callers, InOrder(t), Counted(t), executed' = executed,
           issued'[t] = issued[t], answers'[t] = answers[t], waiting'[t] = waiting[t],
           thread'[t] = thread[t], cmd'[t] = cmd[t],
           Up(t)' <=> Up(t), Sent(t)' = Sent(t), Back(t)' = Back(t),
           (caller = t /\ ned = "reply")' <=> (caller = t /\ ned = "reply")
    PROVE  InOrder(t)' /\ Counted(t)'
<1>1. PICK f \in [RunFor(t) -> Runs(t)], d \in 0..Len(issued[t]) :
          Matches(t, f) /\ OneInFlight(t, f, d) /\ Told(t, f)
      BY DEF InOrder
<1>2. /\ RunFor(t)' = RunFor(t) /\ Runs(t)' = Runs(t)
      /\ Matches(t, f)' <=> Matches(t, f)
      /\ \A n : RanUpTo(t, f, n)' <=> RanUpTo(t, f, n)
      /\ \A n : RunBelow(t, f, n)' <=> RunBelow(t, f, n)
      BY SameRuns
<1>3. OneInFlight(t, f, d)' BY <1>1, <1>2 DEF OneInFlight, Busy
<1>4. Told(t, f)' BY <1>1, <1>2 DEF Told
<1>5. Counted(t)' BY DEF Counted
<1>. QED BY <1>1, <1>2, <1>3, <1>4, <1>5 DEF InOrder

-----------------------------------------------------------------------------
(* Types.  That a run is a run of an issued command needs the invariant.    *)

LEMMA Constants ==
    /\ NoCommand \in CommandType /\ Commands \subseteq CommandType
    /\ Callers = Remotes \cup Locals /\ Remotes \cap Locals = {}
    /\ UtcbSize \in Nat
BY CommandsAssumption, CallersAssumption, BoundsAssumption
   DEF NoCommand, CommandType, Callers

\* The command that is in flight was issued.
LEMMA InFlightIsIssued ==
    ASSUME TypeOK, NEW t \in Callers, NEW f, NEW d, OneInFlight(t, f, d), Busy(t)
    PROVE  d \in 1..Len(issued[t]) /\ cmd[t] = issued[t][d] /\ cmd[t] \in Commands
BY DEF OneInFlight, TypeOK

LEMMA TypeStep ==
    ASSUME LInv, [Next]_vars
    PROVE  TypeOK'
<1>. TypeOK BY DEF LInv
<1>. Remotes \subseteq Callers /\ Locals \subseteq Callers BY DEF Callers
<1>1. ASSUME NEW r \in Remotes, NEW c \in Commands, ExecuteLuaString(r, c)
      PROVE  TypeOK'
  <2>1. issued' \in [Callers -> Seq(Commands)] /\ Append(toServer[r], c) \in Seq(Commands)
        BY <1>1 DEF TypeOK, ExecuteLuaString, Issued
  <2>2. toServer' \in [Remotes -> Seq(Commands)]
    <3>1. toServer' \in {toServer, [toServer EXCEPT ![r] = Append(toServer[r], c)]}
          BY <1>1 DEF ExecuteLuaString
    <3>2. toServer \in [Remotes -> Seq(Commands)] BY DEF TypeOK
    <3>. QED BY <2>1, <3>1, <3>2
  <2>3. waiting' \in [Callers -> BOOLEAN] /\ answers' \in [Callers -> Seq(Answers)]
    <3>1. \/ answers' = answers /\ waiting' = [waiting EXCEPT ![r] = TRUE]
          \/ Answered(r, FAILED)
          BY <1>1 DEF ExecuteLuaString
    <3>2. FAILED \in Answers BY DEF Answers
    <3>3. waiting \in [Callers -> BOOLEAN] /\ answers \in [Callers -> Seq(Answers)] BY DEF TypeOK
    <3>4. CASE Answered(r, FAILED) BY <3>2, <3>3, <3>4 DEF Answered
    <3>5. CASE answers' = answers /\ waiting' = [waiting EXCEPT ![r] = TRUE]
          BY <3>3, <3>5
    <3>. QED BY <3>1, <3>4, <3>5
  <2>. QED BY <1>1, <2>1, <2>2, <2>3 DEF TypeOK, ExecuteLuaString, threadVars, nedVars
<1>2. ASSUME NEW r \in Remotes, TakeAnswer(r) PROVE TypeOK'
  <2>1. toClient[r] \in Seq(Answers) /\ FAILED \in Answers BY DEF TypeOK, Answers
  <2>2. PICK a \in Answers : Answered(r, a) BY <1>2, <2>1 DEF TakeAnswer
  <2>3. waiting' \in [Callers -> BOOLEAN] /\ answers' \in [Callers -> Seq(Answers)]
        BY <2>2 DEF TypeOK, Answered
  <2>4. toClient' \in [Remotes -> Seq(Answers)]
    <3>1. \/ toClient' = toClient
          \/ toClient' = [toClient EXCEPT ![r] = Tail(toClient[r])] /\ toClient[r] # <<>>
          BY <1>2 DEF TakeAnswer
    <3>2. toClient \in [Remotes -> Seq(Answers)] BY DEF TypeOK
    <3>3. CASE toClient' = [toClient EXCEPT ![r] = Tail(toClient[r])] /\ toClient[r] # <<>>
          BY <3>2, <3>3
    <3>. QED BY <3>1, <3>2, <3>3
  <2>. QED BY <1>2, <2>3, <2>4 DEF TypeOK, TakeAnswer, threadVars, nedVars
<1>3. ASSUME NEW r \in Remotes, Lose(r) PROVE TypeOK'
      BY <1>3 DEF TypeOK, Lose, clientVars, threadVars, nedVars
<1>4. ASSUME NEW r \in Remotes, ReceiveCommand(r) PROVE TypeOK'
  <2>1. toServer[r] \in Seq(Commands) BY DEF TypeOK
  <2>2. toServer' \in [Remotes -> Seq(Commands)] /\ cmd' \in [Callers -> Commands \cup {NoCommand}]
    <3>0. /\ toServer \in [Remotes -> Seq(Commands)]
          /\ cmd \in [Callers -> Commands \cup {NoCommand}]
          BY DEF TypeOK
    <3>1. CASE toServer[r] # <<>>
      <4>1. Head(toServer[r]) \in Commands /\ Tail(toServer[r]) \in Seq(Commands)
            BY <2>1, <3>1
      <4>2. /\ cmd' = [cmd EXCEPT ![r] = Head(toServer[r])]
            /\ toServer' = [toServer EXCEPT ![r] = Tail(toServer[r])]
            BY <1>4, <3>1 DEF ReceiveCommand
      <4>. QED BY <3>0, <4>1, <4>2
    <3>2. CASE toServer[r] = <<>>
          BY <1>4, <3>0, <3>2 DEF ReceiveCommand, Break
    <3>. QED BY <3>1, <3>2
  <2>. QED BY <1>4, <2>2 DEF TypeOK, ReceiveCommand, Break, clientVars, nedVars
<1>5. ASSUME NEW r \in Remotes, SendAnswer(r) PROVE TypeOK'
  <2>1. Append(toClient[r], verdict[r]) \in Seq(Answers) BY DEF TypeOK
  <2>2. toClient' \in [Remotes -> Seq(Answers)] /\ toServer' \in [Remotes -> Seq(Commands)]
    <3>1. toClient' \in {toClient, [toClient EXCEPT ![r] = Append(toClient[r], verdict[r])]}
          BY <1>5 DEF SendAnswer
    <3>2. toServer' \in {toServer, [toServer EXCEPT ![r] = <<>>]}
          BY <1>5 DEF SendAnswer, Break
    <3>3. toClient \in [Remotes -> Seq(Answers)] /\ toServer \in [Remotes -> Seq(Commands)]
          BY DEF TypeOK
    <3>4. toClient' \in [Remotes -> Seq(Answers)] BY <2>1, <3>1, <3>3
    <3>5. <<>> \in Seq(Commands) OBVIOUS
    <3>. QED BY <3>2, <3>3, <3>4, <3>5
  <2>. QED BY <1>5, <2>2 DEF TypeOK, SendAnswer, Break, clientVars, nedVars
<1>6. ASSUME NEW l \in Locals, NEW c \in Commands, ExecuteString(l, c) PROVE TypeOK'
      BY <1>6 DEF TypeOK, ExecuteString, Issued, netVars, nedVars
<1>7. ASSUME NEW l \in Locals, ExecuteReturn(l) PROVE TypeOK'
      BY <1>7 DEF TypeOK, ExecuteReturn, Answered, netVars, nedVars
<1>8. ASSUME NEW t \in Callers, NedReceive(t) PROVE TypeOK'
      BY <1>8 DEF TypeOK, NedReceive, CopyIn, netVars, clientVars, threadVars
<1>9. ASSUME NedExecute PROVE TypeOK'
  <2>1. nedBuffer \in Commands /\ caller \in Callers
    <3>1. PICK f \in [RunFor(caller) -> Runs(caller)], d \in 0..Len(issued[caller]) :
              OneInFlight(caller, f, d)
          BY <1>9 DEF LInv, InOrder, TypeOK
    <3>2. NedInv BY DEF LInv
    <3>. QED BY <1>9, <3>1, <3>2, InFlightIsIssued DEF NedExecute, NedInv, Busy, TypeOK
  <2>2. executed' \in Seq(Callers \X Commands)
    <3>1. executed' \in {executed, Append(executed, <<caller, nedBuffer>>)}
          BY <1>9 DEF NedExecute
    <3>2. executed \in Seq(Callers \X Commands) BY DEF TypeOK
    <3>3. Append(executed, <<caller, nedBuffer>>) \in Seq(Callers \X Commands)
          BY <2>1, <3>2
    <3>. QED BY <3>1, <3>2, <3>3
  <2>3. utcb' \in {LUA_OK, LUA_ERROR, CLOBBERED}
        BY <1>9 DEF TypeOK, NedExecute
  <2>. QED BY <1>9, <2>2, <2>3 DEF TypeOK, NedExecute, netVars, clientVars, threadVars
<1>10. ASSUME NedReply PROVE TypeOK'
      BY <1>10 DEF TypeOK, NedReply, netVars, clientVars, Answers
<1>11. ASSUME NEW r \in Remotes, Overrun(r) PROVE TypeOK'
  <2>1. /\ UNCHANGED <<waiting, issued, answers, thread, cmd, verdict, nedVars>>
        /\ alive' \in BOOLEAN /\ up' \in [Remotes -> BOOLEAN]
        BY <1>11 DEF Overrun, clientVars
  <2>2. toServer' \in [Remotes -> Seq(Commands)]
    <3>1. <<>> \in Seq(Commands) OBVIOUS
    <3>. QED BY <1>11, <3>1 DEF Overrun
  <2>3. toClient' \in [Remotes -> Seq(Answers)]
    <3>1. <<>> \in Seq(Answers) OBVIOUS
    <3>2. PICK lost \in SUBSET Remotes :
              toClient' = [q \in Remotes |-> IF q \in lost THEN <<>> ELSE toClient[q]]
          BY <1>11 DEF Overrun
    <3>. QED BY <3>1, <3>2 DEF TypeOK
  <2>. QED BY <2>1, <2>2, <2>3 DEF TypeOK, nedVars
<1>12. ASSUME UNCHANGED vars PROVE TypeOK'
      BY <1>12 DEF TypeOK, vars
<1>. QED BY <1>1, <1>2, <1>3, <1>4, <1>5, <1>6, <1>7, <1>8, <1>9, <1>10, <1>11, <1>12
         DEF Next, Ned

-----------------------------------------------------------------------------
(* A command more, a run more. *)

\* t issues a command: what it issued before, and its runs, stay as they are.
LEMMA MoreIssued ==
    ASSUME TypeOK, NEW t \in Callers, NEW c \in Commands,
           NEW f \in [RunFor(t) -> Runs(t)],
           issued'[t] = Append(issued[t], c), executed' = executed
    PROVE  /\ RunFor(t)' = RunFor(t) /\ f \in [RunFor(t)' -> Runs(t)']
           /\ Matches(t, f) => Matches(t, f)'
           /\ \A n \in Int : n <= Len(issued[t]) /\ RanUpTo(t, f, n) => RanUpTo(t, f, n)'
           /\ \A n : RunBelow(t, f, n)' <=> RunBelow(t, f, n)
           /\ \A k \in 1..Len(issued[t]) : issued'[t][k] = issued[t][k]
           /\ issued'[t][Len(issued[t]) + 1] = c
           /\ Len(issued'[t]) = Len(issued[t]) + 1
<1>1. issued[t] \in Seq(Commands) BY DEF TypeOK
<1>2. /\ \A k \in 1..Len(issued[t]) : issued'[t][k] = issued[t][k]
      /\ issued'[t][Len(issued[t]) + 1] = c
      /\ Len(issued'[t]) = Len(issued[t]) + 1
      /\ Len(issued[t]) \in Nat
      /\ DOMAIN issued[t] = 1..Len(issued[t])
      /\ DOMAIN issued'[t] = 1..(Len(issued[t]) + 1)
      BY <1>1
<1>3. RunFor(t)' = RunFor(t) BY DEF RunFor
<1>4. Runs(t) = {k \in Runs(t)' : k <= Len(issued[t])}
      BY <1>2 DEF Runs
<1>5. f \in [RunFor(t)' -> Runs(t)'] BY <1>3, <1>4
<1>6. Matches(t, f) => Matches(t, f)'
  <2>1. \A i \in RunFor(t) : issued'[t][f[i]] = issued[t][f[i]] BY <1>2 DEF Runs
  <2>. QED BY <1>3, <2>1 DEF Matches
<1>7. \A n \in Int : n <= Len(issued[t]) /\ RanUpTo(t, f, n) => RanUpTo(t, f, n)'
  <2>1. \A k \in Runs(t)' : k \in Int BY <1>2 DEF Runs
  <2>. QED BY <1>2, <1>3, <1>4, <2>1 DEF RanUpTo
<1>8. \A n : RunBelow(t, f, n)' <=> RunBelow(t, f, n) BY <1>3 DEF RunBelow
<1>. QED BY <1>2, <1>3, <1>5, <1>6, <1>7, <1>8

\* A sequence, and the same with a pair at its end.
LEMMA PairAppended ==
    ASSUME NEW S, NEW s \in Seq(S), NEW a, NEW b
    PROVE  /\ Len(s) \in Nat /\ DOMAIN s = 1..Len(s)
           /\ DOMAIN Append(s, <<a, b>>) = 1..(Len(s) + 1)
           /\ \A k \in 1..Len(s) : Append(s, <<a, b>>)[k] = s[k]
           /\ Append(s, <<a, b>>)[Len(s) + 1][1] = a
           /\ Append(s, <<a, b>>)[Len(s) + 1][2] = b
<1>1. PICK p : p = <<a, b>> OBVIOUS
<1>2. p[1] = a /\ p[2] = b BY <1>1
<1>3. /\ DOMAIN Append(s, p) = 1..(Len(s) + 1)
      /\ \A k \in 1..Len(s) : Append(s, p)[k] = s[k]
      /\ Append(s, p)[Len(s) + 1] = p
      OBVIOUS
<1>. QED BY <1>1, <1>2, <1>3

\* Ned runs a command of another caller.
LEMMA OtherRun ==
    ASSUME TypeOK, NEW t \in Callers, NEW u \in Callers \ {t}, NEW c, NEW f,
           issued' = issued, executed' = Append(executed, <<u, c>>)
    PROVE  /\ RunFor(t)' = RunFor(t) /\ Runs(t)' = Runs(t)
           /\ Matches(t, f)' <=> Matches(t, f)
           /\ \A n : RanUpTo(t, f, n)' <=> RanUpTo(t, f, n)
           /\ \A n : RunBelow(t, f, n)' <=> RunBelow(t, f, n)
<1>1. /\ \A k \in 1..Len(executed) : executed'[k] = executed[k]
      /\ executed'[Len(executed) + 1][1] = u
      /\ Len(executed) \in Nat
      /\ DOMAIN executed = 1..Len(executed)
      /\ DOMAIN executed' = 1..(Len(executed) + 1)
  <2>1. executed \in Seq(Callers \X Commands) BY DEF TypeOK
  <2>. QED BY <2>1, PairAppended
<1>2. RunFor(t)' = RunFor(t)
  <2>1. \A i \in DOMAIN executed' : i \in DOMAIN executed \/ i = Len(executed) + 1 BY <1>1
  <2>2. executed'[Len(executed) + 1][1] # t BY <1>1
  <2>. QED BY <1>1, <2>1, <2>2 DEF RunFor
<1>3. Runs(t)' = Runs(t) BY DEF Runs
<1>4. \A i \in RunFor(t) : executed'[i] = executed[i] BY <1>1 DEF RunFor
<1>5. Matches(t, f)' <=> Matches(t, f) BY <1>2, <1>4 DEF Matches
<1>. QED BY <1>2, <1>3, <1>5 DEF RanUpTo, RunBelow

\* Ned runs the command d of t, the first of t's that has not run.
LEMMA OneMoreRun ==
    ASSUME TypeOK, NEW t \in Callers, NEW f \in [RunFor(t) -> Runs(t)], Matches(t, f),
           NEW d \in Runs(t), RunBelow(t, f, d), RanUpTo(t, f, d - 1),
           issued' = issued, executed' = Append(executed, <<t, issued[t][d]>>)
    PROVE  \E g \in [RunFor(t)' -> Runs(t)'] :
               /\ Matches(t, g)' /\ RunBelow(t, g, d + 1)' /\ RanUpTo(t, g, d)'
               /\ \A n : RanUpTo(t, f, n) => RanUpTo(t, g, n)'
<1>. DEFINE e == Len(executed) + 1
<1>0. PICK g : g = [i \in RunFor(t) \cup {e} |-> IF i = e THEN d ELSE f[i]] OBVIOUS
<1>1. /\ \A k \in 1..Len(executed) : executed'[k] = executed[k]
      /\ executed'[e][1] = t /\ executed'[e][2] = issued[t][d]
      /\ Len(executed) \in Nat
      /\ DOMAIN executed = 1..Len(executed)
      /\ DOMAIN executed' = 1..e
  <2>1. executed \in Seq(Callers \X Commands) BY DEF TypeOK
  <2>. QED BY <2>1, PairAppended
<1>2. RunFor(t)' = RunFor(t) \cup {e}
  <2>1. \A i \in DOMAIN executed' : i \in DOMAIN executed \/ i = e BY <1>1
  <2>2. e \in DOMAIN executed' BY <1>1
  <2>3. executed'[e][1] = t BY <1>1
  <2>. QED BY <1>1, <2>1, <2>2, <2>3 DEF RunFor
<1>3. Runs(t)' = Runs(t) BY DEF Runs
<1>4. \A i \in RunFor(t) : i \in 1..Len(executed) /\ executed'[i] = executed[i] /\ i < e
      BY <1>1 DEF RunFor
<1>5. g \in [RunFor(t)' -> Runs(t)'] BY <1>0, <1>2, <1>3
<1>6. g[e] = d /\ \A i \in RunFor(t) : g[i] = f[i] BY <1>0, <1>4
<1>7. Runs(t) \subseteq Nat
  <2>1. issued[t] \in Seq(Commands) BY DEF TypeOK
  <2>. QED BY <2>1 DEF Runs
<1>. HIDE DEF e
<1>8. Matches(t, g)'
  <2>1. \A i \in RunFor(t)' : executed'[i][2] = issued[t][g[i]]
    <3>1. \A i \in RunFor(t) : executed'[i][2] = issued[t][g[i]] BY <1>4, <1>6 DEF Matches
    <3>. QED BY <1>1, <1>2, <1>6, <3>1
  <2>2. ASSUME NEW i \in RunFor(t)', NEW j \in RunFor(t)', i < j PROVE g[i] < g[j]
    <3>0. e \in Nat /\ j \in Nat /\ j <= e BY <1>1, <1>2, <1>4 DEF e
    <3>1. i # e BY <2>2, <3>0
    <3>2. i \in RunFor(t) BY <1>2, <3>1
    <3>3. CASE j = e BY <1>6, <3>2, <3>3 DEF RunBelow
    <3>4. CASE j \in RunFor(t) BY <1>6, <2>2, <3>2, <3>4 DEF Matches
    <3>. QED BY <1>2, <3>3, <3>4
  <2>. QED BY <2>1, <2>2 DEF Matches
<1>9. RunBelow(t, g, d + 1)'
  <2>1. ASSUME NEW i \in RunFor(t) PROVE g[i] < d + 1
        BY <1>6, <1>7 DEF RunBelow
  <2>. QED BY <1>2, <1>6, <1>7, <2>1 DEF RunBelow
<1>10. ASSUME NEW n, RanUpTo(t, f, n) PROVE RanUpTo(t, g, n)'
  <2>1. ASSUME NEW k \in Runs(t), k <= n PROVE \E i \in RunFor(t) : g[i] = k
        BY <1>6, <1>10, <2>1 DEF RanUpTo
  <2>. QED BY <1>2, <1>3, <2>1 DEF RanUpTo
<1>11. RanUpTo(t, g, d)'
  <2>1. ASSUME NEW k \in Runs(t)', k <= d PROVE \E i \in RunFor(t)' : g[i] = k
    <3>1. CASE k = d BY <1>2, <1>6, <3>1
    <3>2. CASE k # d
      <4>1. k <= d - 1 BY <1>3, <1>7, <2>1, <3>2
      <4>. QED BY <1>2, <1>3, <1>6, <4>1 DEF RanUpTo
    <3>. QED BY <3>1, <3>2
  <2>. QED BY <2>1 DEF RanUpTo
<1>. QED BY <1>5, <1>8, <1>9, <1>10, <1>11

-----------------------------------------------------------------------------
(* Every action keeps what the invariant says of a caller. *)

\* The witnesses of InOrder.
LEMMA Witnesses ==
    ASSUME LInv, NEW t \in Callers
    PROVE  \E f \in [RunFor(t) -> Runs(t)], d \in 0..Len(issued[t]) :
               Matches(t, f) /\ OneInFlight(t, f, d) /\ Told(t, f)
BY DEF LInv, InOrder

\* The bound on what has run can only be raised.
LEMMA BelowMore ==
    ASSUME TypeOK, NEW t \in Callers, NEW f \in [RunFor(t) -> Runs(t)], NEW n \in Int,
           RunBelow(t, f, n)
    PROVE  RunBelow(t, f, n + 1)
<1>1. Runs(t) \subseteq Int
  <2>1. issued[t] \in Seq(Commands) BY DEF TypeOK
  <2>. QED BY <2>1 DEF Runs
<1>. QED BY <1>1 DEF RunBelow

LEMMA CallOrder ==
    ASSUME LInv, NEW r \in Remotes, NEW c \in Commands, ExecuteLuaString(r, c)
    PROVE  \A t \in Callers : InOrder(t)' /\ Counted(t)'
<1>. r \in Callers BY DEF Callers
<1>1. TypeOK /\ NedInv BY DEF LInv
<1>2. ASSUME NEW t \in Callers, t # r PROVE InOrder(t)' /\ Counted(t)'
  <2>1. InOrder(t) /\ Counted(t) BY DEF LInv
  <2>2. /\ executed' = executed /\ issued'[t] = issued[t] /\ answers'[t] = answers[t]
        /\ waiting'[t] = waiting[t] /\ thread' = thread /\ cmd' = cmd /\ up' = up
        /\ toClient' = toClient /\ caller' = caller /\ ned' = ned
        BY <1>1, <1>2 DEF TypeOK, ExecuteLuaString, Issued, Answered, threadVars, nedVars
  <2>3. t \in Remotes => toServer'[t] = toServer[t]
        BY <1>1, <1>2 DEF TypeOK, ExecuteLuaString
  <2>. QED BY <2>1, <2>2, <2>3, Frame DEF Up, Sent, Back
<1>3. InOrder(r)' /\ Counted(r)'
  <2>1. PICK f \in [RunFor(r) -> Runs(r)], d \in 0..Len(issued[r]) :
            Matches(r, f) /\ OneInFlight(r, f, d) /\ Told(r, f)
        BY Witnesses
  <2>2. /\ ~waiting[r] /\ issued'[r] = Append(issued[r], c)
        /\ executed' = executed /\ thread' = thread /\ cmd' = cmd /\ up' = up
        /\ toClient' = toClient /\ caller' = caller /\ ned' = ned
        BY <1>1 DEF TypeOK, ExecuteLuaString, Issued, threadVars, nedVars
  <2>3. /\ Len(issued[r]) \in Nat /\ Len(answers[r]) \in Nat /\ Len(issued[r]) = Len(answers[r])
        /\ r \notin Locals
    <3>1. answers[r] \in Seq(Answers) /\ issued[r] \in Seq(Commands) BY <1>1 DEF TypeOK
    <3>2. Counted(r) /\ r \notin Locals BY Constants DEF LInv
    <3>. QED BY <2>2, <3>1, <3>2 DEF Counted
  <2>4. /\ RunFor(r)' = RunFor(r) /\ f \in [RunFor(r)' -> Runs(r)']
        /\ Matches(r, f)'
        /\ \A n \in Int : n <= Len(issued[r]) /\ RanUpTo(r, f, n) => RanUpTo(r, f, n)'
        /\ \A n : RunBelow(r, f, n)' <=> RunBelow(r, f, n)
        /\ \A k \in 1..Len(issued[r]) : issued'[r][k] = issued[r][k]
        /\ issued'[r][Len(issued[r]) + 1] = c
        /\ Len(issued'[r]) = Len(issued[r]) + 1
        BY <1>1, <2>1, <2>2, MoreIssued
  <2>5. Back(r) = <<>> /\ Back(r)' = <<>>
        BY <2>1, <2>2 DEF OneInFlight, Back
  <2>6. CASE up[r]
    <3>1. /\ d = Len(issued[r]) /\ Sent(r) = <<>> /\ ~Busy(r)
          /\ RanUpTo(r, f, d) /\ RunBelow(r, f, d + 1) /\ thread[r] # "closed"
          BY <2>1, <2>2, <2>6 DEF OneInFlight, Up
    <3>2. thread[r] = "receiving" BY <1>1, <3>1 DEF TypeOK, Busy
    <3>3. waiting'[r] = TRUE /\ answers' = answers /\ toServer'[r] = Append(toServer[r], c)
          BY <1>1, <2>6 DEF ExecuteLuaString, TypeOK
    <3>4. Sent(r)' = <<c>>
      <4>1. toServer[r] = <<>> BY <3>1 DEF Sent
      <4>2. Append(<<>>, c) = <<c>> OBVIOUS
      <4>. QED BY <3>3, <4>1, <4>2 DEF Sent
    <3>5. ~(caller = r /\ ned = "reply") BY <1>1, <3>2 DEF NedInv
    <3>6. OneInFlight(r, f, d + 1)'
      <4>1. RunBelow(r, f, d + 1)' /\ RunBelow(r, f, (d + 1) + 1)'
        <5>1. d + 1 \in Int BY <2>3, <3>1
        <5>2. RunBelow(r, f, (d + 1) + 1) BY <1>1, <3>1, <5>1, BelowMore
        <5>. QED BY <2>4, <3>1, <5>2
      <4>2. RanUpTo(r, f, d)' /\ (d + 1) - 1 = d BY <2>3, <2>4, <3>1
      <4>3. d + 1 = Len(issued'[r]) /\ d + 1 > 0 /\ issued'[r][d + 1] = c
            BY <2>3, <2>4, <3>1
      <4>4. d + 1 \in 0..Len(issued'[r]) BY <2>3, <4>3
      <4>. QED BY <2>2, <2>3, <2>5, <3>2, <3>3, <3>4, <3>5, <4>1, <4>2, <4>3, <4>4
               DEF OneInFlight, Busy
    <3>7. Told(r, f)'
      <4>1. \A n \in DOMAIN answers[r] : n \in Int /\ n <= Len(issued[r])
            BY <1>1, <2>3 DEF TypeOK
      <4>. QED BY <2>1, <2>4, <3>3, <4>1 DEF Told
    <3>8. Counted(r)' BY <2>3, <2>4, <3>3 DEF Counted
    <3>. QED BY <2>3, <2>4, <3>1, <3>6, <3>7, <3>8 DEF InOrder
  <2>7. CASE ~up[r]
    <3>1. toServer' = toServer /\ Sent(r)' = Sent(r)
          BY <2>7 DEF ExecuteLuaString, Sent
    <3>2. \/ waiting'[r] = TRUE /\ answers'[r] = answers[r]
          \/ waiting'[r] = FALSE /\ answers'[r] = Append(answers[r], FAILED)
          BY <1>1 DEF ExecuteLuaString, Answered, TypeOK
    <3>3. OneInFlight(r, f, d)'
      <4>1. ~Up(r) /\ ~Up(r)' BY <2>2, <2>7 DEF Up
      <4>2. d - 1 \in Int /\ d \in Int /\ d <= Len(issued[r]) BY <2>1, <2>3
      <4>3. d > 0 => issued'[r][d] = issued[r][d] BY <2>3, <2>4, <4>2
      <4>. QED BY <2>1, <2>2, <2>3, <2>4, <2>5, <3>1, <4>1, <4>2, <4>3
               DEF OneInFlight, Busy
    <3>4. Told(r, f)'
      <4>1. \A n \in DOMAIN answers[r] : n \in Int /\ n <= Len(issued[r])
            BY <1>1, <2>3 DEF TypeOK
      <4>2. \A n \in DOMAIN answers'[r] : 
                \/ answers'[r][n] = FAILED
                \/ n \in DOMAIN answers[r] /\ answers'[r][n] = answers[r][n]
        <5>1. answers[r] \in Seq(Answers) BY <1>1 DEF TypeOK
        <5>2. CASE answers'[r] = Append(answers[r], FAILED) BY <5>1, <5>2
        <5>. QED BY <3>2, <5>2
      <4>. QED BY <2>1, <2>4, <4>1, <4>2 DEF Told
    <3>5. Counted(r)'
      <4>1. answers[r] \in Seq(Answers) BY <1>1 DEF TypeOK
      <4>2. Len(Append(answers[r], FAILED)) = Len(answers[r]) + 1 BY <4>1
      <4>3. CASE waiting'[r] = TRUE /\ answers'[r] = answers[r]
            BY <2>3, <2>4, <4>3 DEF Counted
      <4>4. CASE waiting'[r] = FALSE /\ answers'[r] = Append(answers[r], FAILED)
        <5>1. Len(answers'[r]) = Len(answers[r]) + 1 /\ ~waiting'[r] BY <4>2, <4>4
        <5>2. Len(issued'[r]) = Len(answers'[r]) + 0 BY <2>3, <2>4, <5>1
        <5>. QED BY <5>1, <5>2 DEF Counted
      <4>. QED BY <3>2, <4>3, <4>4
    <3>. QED BY <2>1, <2>3, <2>4, <3>3, <3>4, <3>5 DEF InOrder
  <2>. QED BY <2>6, <2>7
<1>. QED BY <1>2, <1>3

\* A caller has one answer more.
LEMMA AnswerAdded ==
    ASSUME TypeOK, NEW t \in Callers, NEW a, answers'[t] = Append(answers[t], a)
    PROVE  /\ Len(answers[t]) \in Nat /\ Len(answers'[t]) = Len(answers[t]) + 1
           /\ \A n \in DOMAIN answers'[t] :
                 \/ n \in DOMAIN answers[t] /\ answers'[t][n] = answers[t][n]
                 \/ n = Len(answers[t]) + 1 /\ answers'[t][n] = a
<1>1. answers[t] \in Seq(Answers) BY DEF TypeOK
<1>. QED BY <1>1

LEMMA AnswerOrder ==
    ASSUME LInv, NEW r \in Remotes, TakeAnswer(r)
    PROVE  \A t \in Callers : InOrder(t)' /\ Counted(t)'
<1>. r \in Callers BY DEF Callers
<1>1. TypeOK /\ NedInv BY DEF LInv
<1>2. ASSUME NEW t \in Callers, t # r PROVE InOrder(t)' /\ Counted(t)'
  <2>1. InOrder(t) /\ Counted(t) BY DEF LInv
  <2>2. /\ executed' = executed /\ issued' = issued /\ answers'[t] = answers[t]
        /\ waiting'[t] = waiting[t] /\ thread' = thread /\ cmd' = cmd /\ up' = up
        /\ toServer' = toServer /\ caller' = caller /\ ned' = ned
        BY <1>1, <1>2 DEF TypeOK, TakeAnswer, Answered, threadVars, nedVars
  <2>3. t \in Remotes => toClient'[t] = toClient[t]
        BY <1>1, <1>2 DEF TypeOK, TakeAnswer
  <2>. QED BY <2>1, <2>2, <2>3, Frame DEF Up, Sent, Back
<1>3. InOrder(r)' /\ Counted(r)'
  <2>1. PICK f \in [RunFor(r) -> Runs(r)], d \in 0..Len(issued[r]) :
            Matches(r, f) /\ OneInFlight(r, f, d) /\ Told(r, f)
        BY Witnesses
  <2>2. /\ waiting[r] /\ ~waiting'[r] /\ issued' = issued
        /\ executed' = executed /\ thread' = thread /\ cmd' = cmd /\ up' = up
        /\ toServer' = toServer /\ caller' = caller /\ ned' = ned
        BY <1>1 DEF TypeOK, TakeAnswer, Answered, threadVars, nedVars
  <2>3. /\ RunFor(r)' = RunFor(r) /\ Runs(r)' = Runs(r)
        /\ Matches(r, f)' <=> Matches(r, f)
        /\ \A n : RanUpTo(r, f, n)' <=> RanUpTo(r, f, n)
        /\ \A n : RunBelow(r, f, n)' <=> RunBelow(r, f, n)
        BY <2>2, SameRuns
  <2>4. /\ Len(issued[r]) = Len(answers[r]) + 1 /\ r \notin Locals
        BY <2>2, Constants DEF LInv, Counted
  <2>5. (Up(r)' <=> Up(r)) /\ Sent(r)' = Sent(r) BY <2>2 DEF Up, Sent
  <2>6. PICK a : answers'[r] = Append(answers[r], a) /\ (a # FAILED => Back(r) # <<>>)
        BY <1>1 DEF TakeAnswer, Answered, TypeOK, Back
  <2>7. /\ Len(answers[r]) \in Nat /\ Len(answers'[r]) = Len(answers[r]) + 1
        /\ \A n \in DOMAIN answers'[r] :
              \/ n \in DOMAIN answers[r] /\ answers'[r][n] = answers[r][n]
              \/ n = Len(answers[r]) + 1 /\ answers'[r][n] = a
        BY <1>1, <2>6, AnswerAdded
  <2>8. Counted(r)' BY <2>2, <2>4, <2>7 DEF Counted
  <2>9. Told(r, f)'
    <3>1. a # FAILED => RanUpTo(r, f, Len(answers[r]) + 1)
          BY <2>1, <2>4, <2>6 DEF OneInFlight
    <3>. QED BY <2>1, <2>3, <2>7, <3>1 DEF Told
  <2>10. Back(r)' = <<>> /\ (Back(r) = <<>> => ~Up(r))
    <3>1. CASE toClient[r] = <<>>
          BY <1>1, <3>1 DEF TypeOK, TakeAnswer, Back, Up
    <3>2. CASE toClient[r] # <<>>
      <4>1. Len(toClient[r]) = 1 /\ toClient[r] \in Seq(Answers)
            BY <1>1, <2>1, <3>2 DEF OneInFlight, Back, TypeOK
      <4>2. Tail(toClient[r]) = <<>>
        <5>1. Tail(toClient[r]) \in Seq(Answers) /\ Len(Tail(toClient[r])) = 0
              BY <3>2, <4>1, HeadTailProperties
        <5>. QED BY <5>1, EmptySeq
      <4>3. toClient'[r] = Tail(toClient[r]) BY <1>1, <3>2 DEF TypeOK, TakeAnswer
      <4>. QED BY <3>2, <4>2, <4>3 DEF Back
    <3>. QED BY <3>1, <3>2
  <2>11. OneInFlight(r, f, d)'
    <3>1. Back(r) # <<>> => ~Busy(r) /\ Sent(r) = <<>> BY <2>1 DEF OneInFlight
    <3>. QED BY <2>1, <2>2, <2>3, <2>4, <2>5, <2>10, <3>1 DEF OneInFlight, Busy
  <2>. QED BY <2>1, <2>2, <2>3, <2>8, <2>9, <2>11 DEF InOrder
<1>. QED BY <1>2, <1>3

\* What may be left of a sequence of at most one element.
LEMMA Prefixes ==
    ASSUME NEW S, NEW s \in Seq(S), s # <<>> => Len(s) = 1, NEW n \in 0..Len(s)
    PROVE  SubSeq(s, 1, n) \in {<<>>, s}
<1>1. CASE n = 0 BY <1>1, SubSeqEmpty
<1>2. CASE n # 0
  <2>1. n = Len(s)
    <3>1. CASE s = <<>> BY <1>2, <3>1
    <3>2. CASE s # <<>>
      <4>1. Len(s) = 1 BY <3>2
      <4>. QED BY <1>2, <4>1
    <3>. QED BY <3>1, <3>2
  <2>. QED BY <2>1, SubSeqFull
<1>. QED BY <1>1, <1>2

LEMMA LoseOrder ==
    ASSUME LInv, NEW r \in Remotes, Lose(r)
    PROVE  \A t \in Callers : InOrder(t)' /\ Counted(t)'
<1>. r \in Callers BY DEF Callers
<1>1. TypeOK /\ NedInv BY DEF LInv
<1>0. /\ executed' = executed /\ issued' = issued /\ answers' = answers
      /\ waiting' = waiting /\ thread' = thread /\ cmd' = cmd
      /\ caller' = caller /\ ned' = ned
      BY DEF Lose, clientVars, threadVars, nedVars
<1>2. ASSUME NEW t \in Callers, t # r PROVE InOrder(t)' /\ Counted(t)'
  <2>1. InOrder(t) /\ Counted(t) BY DEF LInv
  <2>2. t \in Remotes => /\ toClient'[t] = toClient[t] /\ toServer'[t] = toServer[t]
                         /\ up'[t] = up[t]
        BY <1>1, <1>2 DEF TypeOK, Lose
  <2>. QED BY <1>0, <2>1, <2>2, Frame DEF Up, Sent, Back
<1>3. InOrder(r)' /\ Counted(r)'
  <2>1. PICK f \in [RunFor(r) -> Runs(r)], d \in 0..Len(issued[r]) :
            Matches(r, f) /\ OneInFlight(r, f, d) /\ Told(r, f)
        BY Witnesses
  <2>3. /\ RunFor(r)' = RunFor(r) /\ Runs(r)' = Runs(r)
        /\ Matches(r, f)' <=> Matches(r, f)
        /\ \A n : RanUpTo(r, f, n)' <=> RanUpTo(r, f, n)
        /\ \A n : RunBelow(r, f, n)' <=> RunBelow(r, f, n)
        BY <1>0, SameRuns
  <2>4. Counted(r)' /\ r \notin Locals BY <1>0, Constants DEF LInv, Counted
  <2>5. ~Up(r)' BY <1>1 DEF Up, Lose, TypeOK
  <2>6. Sent(r)' \in {<<>>, Sent(r)}
    <3>1. PICK n \in 0..Len(toServer[r]) : toServer'[r] = SubSeq(toServer[r], 1, n)
          BY <1>1 DEF TypeOK, Lose
    <3>2. toServer[r] \in Seq(Commands) BY <1>1 DEF TypeOK
    <3>3. toServer[r] # <<>> => Len(toServer[r]) = 1
      <4>1. toServer[r] # <<>> => toServer[r] = <<issued[r][d]>>
            BY <2>1 DEF OneInFlight, Sent
      <4>2. Len(<<issued[r][d]>>) = 1 OBVIOUS
      <4>. QED BY <4>1, <4>2
    <3>. QED BY <3>1, <3>2, <3>3, Prefixes DEF Sent
  <2>7. Back(r)' \in {<<>>, Back(r)}
    <3>1. PICK n \in 0..Len(toClient[r]) : toClient'[r] = SubSeq(toClient[r], 1, n)
          BY <1>1 DEF TypeOK, Lose
    <3>2. toClient[r] \in Seq(Answers) BY <1>1 DEF TypeOK
    <3>3. toClient[r] # <<>> => Len(toClient[r]) = 1 
          BY <2>1 DEF OneInFlight, Back
    <3>. QED BY <3>1, <3>2, <3>3, Prefixes DEF Back
  <2>8. OneInFlight(r, f, d)'
        BY <1>0, <2>1, <2>3, <2>4, <2>5, <2>6, <2>7 DEF OneInFlight, Busy
  <2>9. Told(r, f)' BY <1>0, <2>1, <2>3 DEF Told
  <2>. QED BY <1>0, <2>1, <2>3, <2>4, <2>8, <2>9 DEF InOrder
<1>. QED BY <1>2, <1>3

LEMMA ReceiveOrder ==
    ASSUME LInv, NEW r \in Remotes, ReceiveCommand(r)
    PROVE  \A t \in Callers : InOrder(t)' /\ Counted(t)'
<1>. r \in Callers BY DEF Callers
<1>1. TypeOK /\ NedInv BY DEF LInv
<1>0. /\ executed' = executed /\ issued' = issued /\ answers' = answers
      /\ waiting' = waiting /\ toClient' = toClient
      /\ caller' = caller /\ ned' = ned
      BY DEF ReceiveCommand, clientVars, nedVars
<1>2. ASSUME NEW t \in Callers, t # r PROVE InOrder(t)' /\ Counted(t)'
  <2>1. InOrder(t) /\ Counted(t) BY DEF LInv
  <2>2. /\ t \in Remotes => toServer'[t] = toServer[t] /\ up'[t] = up[t]
        /\ thread'[t] = thread[t] /\ cmd'[t] = cmd[t]
        BY <1>1, <1>2 DEF TypeOK, ReceiveCommand, Break
  <2>. QED BY <1>0, <2>1, <2>2, Frame DEF Up, Sent, Back
<1>3. InOrder(r)' /\ Counted(r)'
  <2>1. PICK f \in [RunFor(r) -> Runs(r)], d \in 0..Len(issued[r]) :
            Matches(r, f) /\ OneInFlight(r, f, d) /\ Told(r, f)
        BY Witnesses
  <2>2. /\ RunFor(r)' = RunFor(r) /\ Runs(r)' = Runs(r)
        /\ Matches(r, f)' <=> Matches(r, f)
        /\ \A n : RanUpTo(r, f, n)' <=> RanUpTo(r, f, n)
        /\ \A n : RunBelow(r, f, n)' <=> RunBelow(r, f, n)
        BY <1>0, SameRuns
  <2>3. Counted(r)' /\ r \notin Locals BY <1>0, Constants DEF LInv, Counted
  <2>4. Told(r, f)' BY <1>0, <2>1, <2>2 DEF Told
  <2>5. thread[r] = "receiving" /\ ~(caller = r /\ ned = "reply") /\ Back(r)' = Back(r)
        BY <1>0, <1>1 DEF ReceiveCommand, NedInv, Back
  <2>6. CASE toServer[r] # <<>>
    <3>1. /\ d > 0 /\ toServer[r] = <<issued[r][d]>> /\ Back(r) = <<>>
          /\ Up(r) => waiting[r]
          /\ RunBelow(r, f, d)
          BY <2>1, <2>6 DEF OneInFlight, Sent
    <3>2. /\ cmd'[r] = Head(toServer[r]) /\ toServer'[r] = Tail(toServer[r])
          /\ thread'[r] = "calling" /\ up' = up
          BY <1>1, <2>6 DEF TypeOK, ReceiveCommand
    <3>3. cmd'[r] = issued[r][d] /\ toServer'[r] = <<>>
          BY <3>1, <3>2
    <3>4. Sent(r)' = <<>> /\ (Up(r)' <=> Up(r)) BY <3>2, <3>3 DEF Sent, Up
    <3>5. OneInFlight(r, f, d)'
          BY <1>0, <2>1, <2>2, <2>3, <2>5, <3>1, <3>2, <3>3, <3>4 DEF OneInFlight, Busy
    <3>. QED BY <1>0, <2>1, <2>2, <2>3, <2>4, <3>5 DEF InOrder
  <2>7. CASE toServer[r] = <<>>
    <3>1. thread'[r] = "closed" /\ ~Up(r)' /\ Sent(r)' = <<>> /\ cmd' = cmd
          BY <1>1, <2>7 DEF TypeOK, ReceiveCommand, Break, Up, Sent
    <3>2. OneInFlight(r, f, d)'
          BY <1>0, <2>1, <2>2, <2>3, <2>5, <3>1 DEF OneInFlight, Busy
    <3>. QED BY <1>0, <2>1, <2>2, <2>3, <2>4, <3>2 DEF InOrder
  <2>. QED BY <2>6, <2>7
<1>. QED BY <1>2, <1>3

\* The end of Dom0 leaves nothing on its way to the handlers.
LEMMA OverrunOrder ==
    ASSUME LInv, NEW r \in Remotes, Overrun(r)
    PROVE  \A t \in Callers : InOrder(t)' /\ Counted(t)'
<1>0. /\ executed' = executed /\ issued' = issued /\ answers' = answers
      /\ waiting' = waiting /\ thread' = thread /\ cmd' = cmd
      /\ caller' = caller /\ ned' = ned
      BY DEF Overrun, clientVars, nedVars
<1>1. PICK lost \in SUBSET Remotes :
          /\ up' = [q \in Remotes |-> FALSE] /\ toServer' = [q \in Remotes |-> <<>>]
          /\ toClient' = [q \in Remotes |-> IF q \in lost THEN <<>> ELSE toClient[q]]
      BY DEF Overrun
<1>2. ASSUME NEW t \in Locals PROVE InOrder(t)' /\ Counted(t)'
  <2>1. t \in Callers /\ t \notin Remotes BY Constants
  <2>2. InOrder(t) /\ Counted(t) BY <2>1 DEF LInv
  <2>. QED BY <1>0, <2>1, <2>2, Frame DEF Up, Sent, Back
<1>3. ASSUME NEW t \in Remotes PROVE InOrder(t)' /\ Counted(t)'
  <2>0. t \in Callers /\ t \notin Locals BY Constants
  <2>1. PICK f \in [RunFor(t) -> Runs(t)], d \in 0..Len(issued[t]) :
            Matches(t, f) /\ OneInFlight(t, f, d) /\ Told(t, f)
        BY <2>0, Witnesses
  <2>2. /\ RunFor(t)' = RunFor(t) /\ Runs(t)' = Runs(t)
        /\ Matches(t, f)' <=> Matches(t, f)
        /\ \A n : RanUpTo(t, f, n)' <=> RanUpTo(t, f, n)
        /\ \A n : RunBelow(t, f, n)' <=> RunBelow(t, f, n)
        BY <1>0, SameRuns
  <2>3. ~Up(t)' /\ Sent(t)' = <<>> BY <1>1 DEF Up, Sent
  <2>4. Back(t)' \in {<<>>, Back(t)} BY <1>1 DEF Back
  <2>5. OneInFlight(t, f, d)'
        BY <1>0, <2>0, <2>1, <2>2, <2>3, <2>4 DEF OneInFlight, Busy
  <2>6. Told(t, f)' BY <1>0, <2>1, <2>2 DEF Told
  <2>7. Counted(t)' BY <1>0, <2>0 DEF LInv, Counted
  <2>. QED BY <1>0, <2>1, <2>2, <2>5, <2>6, <2>7 DEF InOrder
<1>. QED BY <1>2, <1>3, Constants

LEMMA SendOrder ==
    ASSUME LInv, NEW r \in Remotes, SendAnswer(r)
    PROVE  \A t \in Callers : InOrder(t)' /\ Counted(t)'
<1>. r \in Callers BY DEF Callers
<1>1. TypeOK /\ NedInv BY DEF LInv
<1>0. /\ executed' = executed /\ issued' = issued /\ answers' = answers
      /\ waiting' = waiting /\ cmd' = cmd
      /\ caller' = caller /\ ned' = ned
      BY DEF SendAnswer, clientVars, nedVars
<1>2. ASSUME NEW t \in Callers, t # r PROVE InOrder(t)' /\ Counted(t)'
  <2>1. InOrder(t) /\ Counted(t) BY DEF LInv
  <2>2. /\ t \in Remotes => /\ toServer'[t] = toServer[t] /\ up'[t] = up[t]
                            /\ toClient'[t] = toClient[t]
        /\ thread'[t] = thread[t]
        BY <1>1, <1>2 DEF TypeOK, SendAnswer, Break
  <2>. QED BY <1>0, <2>1, <2>2, Frame DEF Up, Sent, Back
<1>3. InOrder(r)' /\ Counted(r)'
  <2>1. PICK f \in [RunFor(r) -> Runs(r)], d \in 0..Len(issued[r]) :
            Matches(r, f) /\ OneInFlight(r, f, d) /\ Told(r, f)
        BY Witnesses
  <2>2. /\ RunFor(r)' = RunFor(r) /\ Runs(r)' = Runs(r)
        /\ Matches(r, f)' <=> Matches(r, f)
        /\ \A n : RanUpTo(r, f, n)' <=> RanUpTo(r, f, n)
        /\ \A n : RunBelow(r, f, n)' <=> RunBelow(r, f, n)
        BY <1>0, SameRuns
  <2>3. Counted(r)' /\ r \notin Locals BY <1>0, Constants DEF LInv, Counted
  <2>4. Told(r, f)' BY <1>0, <2>1, <2>2 DEF Told
  <2>5. /\ thread[r] = "answered" /\ ~(caller = r /\ ned = "reply")
        /\ verdict[r] # FAILED /\ (verdict[r] = LUA_OK => cmd[r].len <= UtcbSize)
        BY <1>0, <1>1 DEF SendAnswer, NedInv, LInv, VerdictInv
  <2>6. /\ d > 0 /\ cmd[r] = issued[r][d] /\ Back(r) = <<>> /\ Sent(r) = <<>>
        /\ RanUpTo(r, f, d) /\ (Up(r) => waiting[r])
        BY <2>1, <2>5 DEF OneInFlight, Busy
  <2>7. CASE up[r]
    <3>1. /\ toClient'[r] = Append(toClient[r], verdict[r]) /\ thread'[r] = "receiving"
          /\ up' = up /\ toServer' = toServer
          BY <1>1, <2>7 DEF TypeOK, SendAnswer
    <3>2. Back(r)' = <<verdict[r]>> /\ Sent(r)' = <<>> /\ (Up(r)' <=> Up(r))
      <4>1. toClient[r] = <<>> BY <2>6 DEF Back
      <4>2. Append(<<>>, verdict[r]) = <<verdict[r]>> OBVIOUS
      <4>. QED BY <2>6, <3>1, <4>1, <4>2 DEF Back, Sent, Up
    <3>3. Up(r) /\ waiting[r] /\ d = Len(issued[r])
          BY <2>1, <2>6, <2>7 DEF OneInFlight, Up
    <3>4. /\ Len(<<verdict[r]>>) = 1 /\ Head(<<verdict[r]>>) = verdict[r]
          /\ <<verdict[r]>> # <<>>
          OBVIOUS
    <3>5. OneInFlight(r, f, d)'
          BY <1>0, <2>1, <2>2, <2>3, <2>5, <2>6, <3>1, <3>2, <3>3, <3>4
             DEF OneInFlight, Busy
    <3>. QED BY <1>0, <2>1, <2>2, <2>3, <2>4, <3>5 DEF InOrder
  <2>8. CASE ~up[r]
    <3>1. /\ thread'[r] \in {"receiving", "closed"} /\ ~Up(r)' /\ Sent(r)' = <<>>
          /\ Back(r)' = <<>>
          BY <1>1, <2>6, <2>8 DEF TypeOK, SendAnswer, Break, Up, Sent, Back
    <3>2. OneInFlight(r, f, d)'
          BY <1>0, <2>1, <2>2, <2>3, <2>5, <3>1 DEF OneInFlight, Busy
    <3>. QED BY <1>0, <2>1, <2>2, <2>3, <2>4, <3>2 DEF InOrder
  <2>. QED BY <2>7, <2>8
<1>. QED BY <1>2, <1>3

LEMMA LocalCallOrder ==
    ASSUME LInv, NEW l \in Locals, NEW c \in Commands, ExecuteString(l, c)
    PROVE  \A t \in Callers : InOrder(t)' /\ Counted(t)'
<1>. l \in Callers BY DEF Callers
<1>1. TypeOK /\ NedInv BY DEF LInv
<1>0. /\ executed' = executed /\ answers' = answers /\ up' = up /\ toServer' = toServer
      /\ toClient' = toClient /\ caller' = caller /\ ned' = ned
      BY DEF ExecuteString, netVars, nedVars
<1>2. ASSUME NEW t \in Callers, t # l PROVE InOrder(t)' /\ Counted(t)'
  <2>1. InOrder(t) /\ Counted(t) BY DEF LInv
  <2>2. /\ issued'[t] = issued[t] /\ waiting'[t] = waiting[t]
        /\ thread'[t] = thread[t] /\ cmd'[t] = cmd[t]
        BY <1>1, <1>2 DEF TypeOK, ExecuteString, Issued
  <2>. QED BY <1>0, <2>1, <2>2, Frame DEF Up, Sent, Back
<1>3. InOrder(l)' /\ Counted(l)'
  <2>1. PICK f \in [RunFor(l) -> Runs(l)], d \in 0..Len(issued[l]) :
            Matches(l, f) /\ OneInFlight(l, f, d) /\ Told(l, f)
        BY Witnesses
  <2>2. /\ ~waiting[l] /\ issued'[l] = Append(issued[l], c) /\ waiting'[l] = TRUE
        /\ thread'[l] = "calling" /\ cmd'[l] = c
        BY <1>1 DEF TypeOK, ExecuteString, Issued
  <2>3. /\ Len(issued[l]) \in Nat /\ Len(answers[l]) \in Nat /\ Len(issued[l]) = Len(answers[l])
        /\ l \notin Remotes
    <3>1. answers[l] \in Seq(Answers) /\ issued[l] \in Seq(Commands) BY <1>1 DEF TypeOK
    <3>2. Counted(l) /\ l \notin Remotes BY Constants DEF LInv
    <3>. QED BY <2>2, <3>1, <3>2 DEF Counted
  <2>4. /\ RunFor(l)' = RunFor(l) /\ f \in [RunFor(l)' -> Runs(l)']
        /\ Matches(l, f)'
        /\ \A n \in Int : n <= Len(issued[l]) /\ RanUpTo(l, f, n) => RanUpTo(l, f, n)'
        /\ \A n : RunBelow(l, f, n)' <=> RunBelow(l, f, n)
        /\ issued'[l][Len(issued[l]) + 1] = c
        /\ Len(issued'[l]) = Len(issued[l]) + 1
        BY <1>0, <1>1, <2>1, <2>2, MoreIssued
  <2>5. Up(l) /\ Up(l)' /\ Sent(l) = <<>> /\ Sent(l)' = <<>> /\ Back(l)' = <<>>
        BY <2>3 DEF Up, Sent, Back
  <2>6. /\ d = Len(issued[l]) /\ ~Busy(l) /\ RanUpTo(l, f, d) /\ RunBelow(l, f, d + 1)
        BY <2>1, <2>2, <2>5 DEF OneInFlight
  <2>7. ~(caller = l /\ ned = "reply") BY <1>1, <2>6 DEF NedInv, Busy
  <2>8. OneInFlight(l, f, d + 1)'
    <3>1. RunBelow(l, f, d + 1)' /\ RunBelow(l, f, (d + 1) + 1)'
      <4>1. d + 1 \in Int BY <2>3, <2>6
      <4>2. RunBelow(l, f, (d + 1) + 1) BY <1>1, <2>6, <4>1, BelowMore
      <4>. QED BY <2>4, <2>6, <4>2
    <3>2. RanUpTo(l, f, d)' /\ (d + 1) - 1 = d BY <2>3, <2>4, <2>6
    <3>3. d + 1 = Len(issued'[l]) /\ d + 1 > 0 /\ issued'[l][d + 1] = c
          BY <2>3, <2>4, <2>6
    <3>4. d + 1 \in 0..Len(issued'[l]) BY <2>3, <3>3
    <3>. QED BY <1>0, <2>2, <2>5, <2>7, <3>1, <3>2, <3>3, <3>4 DEF OneInFlight, Busy
  <2>9. Told(l, f)'
    <3>1. \A n \in DOMAIN answers[l] : n \in Int /\ n <= Len(issued[l])
          BY <1>1, <2>3 DEF TypeOK
    <3>. QED BY <1>0, <2>1, <2>4, <3>1 DEF Told
  <2>10. Counted(l)' BY <1>0, <2>2, <2>3, <2>4 DEF Counted
  <2>. QED BY <2>3, <2>4, <2>6, <2>8, <2>9, <2>10 DEF InOrder
<1>. QED BY <1>2, <1>3

LEMMA LocalReturnOrder ==
    ASSUME LInv, NEW l \in Locals, ExecuteReturn(l)
    PROVE  \A t \in Callers : InOrder(t)' /\ Counted(t)'
<1>. l \in Callers BY DEF Callers
<1>1. TypeOK /\ NedInv BY DEF LInv
<1>0. /\ executed' = executed /\ issued' = issued /\ up' = up /\ toServer' = toServer
      /\ toClient' = toClient /\ cmd' = cmd /\ caller' = caller /\ ned' = ned
      BY DEF ExecuteReturn, netVars, nedVars
<1>2. ASSUME NEW t \in Callers, t # l PROVE InOrder(t)' /\ Counted(t)'
  <2>1. InOrder(t) /\ Counted(t) BY DEF LInv
  <2>2. answers'[t] = answers[t] /\ waiting'[t] = waiting[t] /\ thread'[t] = thread[t]
        BY <1>1, <1>2 DEF TypeOK, ExecuteReturn, Answered
  <2>. QED BY <1>0, <2>1, <2>2, Frame DEF Up, Sent, Back
<1>3. InOrder(l)' /\ Counted(l)'
  <2>1. PICK f \in [RunFor(l) -> Runs(l)], d \in 0..Len(issued[l]) :
            Matches(l, f) /\ OneInFlight(l, f, d) /\ Told(l, f)
        BY Witnesses
  <2>2. /\ RunFor(l)' = RunFor(l) /\ Runs(l)' = Runs(l)
        /\ Matches(l, f)' <=> Matches(l, f)
        /\ \A n : RanUpTo(l, f, n)' <=> RanUpTo(l, f, n)
        /\ \A n : RunBelow(l, f, n)' <=> RunBelow(l, f, n)
        BY <1>0, SameRuns
  <2>3. /\ thread[l] = "answered" /\ thread'[l] = "receiving" /\ ~waiting'[l]
        /\ answers'[l] = Append(answers[l], verdict[l])
        /\ ~(caller = l /\ ned = "reply")
        BY <1>1 DEF TypeOK, ExecuteReturn, Answered, NedInv
  <2>4. /\ Len(answers[l]) \in Nat /\ Len(answers'[l]) = Len(answers[l]) + 1
        /\ \A n \in DOMAIN answers'[l] :
              \/ n \in DOMAIN answers[l] /\ answers'[l][n] = answers[l][n]
              \/ n = Len(answers[l]) + 1 /\ answers'[l][n] = verdict[l]
        BY <1>1, <2>3, AnswerAdded
  <2>5. Up(l) /\ Up(l)' /\ Sent(l) = <<>> /\ Sent(l)' = <<>> /\ Back(l)' = <<>>
        BY Constants DEF Up, Sent, Back
  <2>6. /\ d = Len(issued[l]) /\ RanUpTo(l, f, d) /\ waiting[l]
        BY <2>1, <2>3, <2>5 DEF OneInFlight, Busy
  <2>7. Len(issued[l]) = Len(answers[l]) + 1 BY <2>6 DEF LInv, Counted
  <2>8. Counted(l)' BY <1>0, <2>3, <2>4, <2>7 DEF Counted
  <2>9. Told(l, f)' BY <2>1, <2>2, <2>4, <2>6, <2>7 DEF Told
  <2>10. OneInFlight(l, f, d)'
         BY <1>0, <2>1, <2>2, <2>3, <2>5, <2>6 DEF OneInFlight, Busy
  <2>. QED BY <1>0, <2>1, <2>2, <2>8, <2>9, <2>10 DEF InOrder
<1>. QED BY <1>2, <1>3

LEMMA NedReceiveOrder ==
    ASSUME LInv, NEW u \in Callers, NedReceive(u)
    PROVE  \A t \in Callers : InOrder(t)' /\ Counted(t)'
<1>1. ASSUME NEW t \in Callers PROVE InOrder(t)' /\ Counted(t)'
  <2>1. InOrder(t) /\ Counted(t) BY DEF LInv
  <2>2. /\ executed' = executed /\ issued' = issued /\ answers' = answers
        /\ waiting' = waiting /\ thread' = thread /\ cmd' = cmd
        /\ up' = up /\ toServer' = toServer /\ toClient' = toClient
        /\ ned # "reply" /\ ned' # "reply"
        BY DEF NedReceive, netVars, clientVars, threadVars
  <2>. QED BY <2>1, <2>2, Frame DEF Up, Sent, Back
<1>. QED BY <1>1

\* A command that Ned does not run is not missing.
LEMMA NothingToRun ==
    ASSUME TypeOK, NEW t \in Callers, NEW f, NEW d \in Int, RanUpTo(t, f, d - 1),
           d \notin Runs(t)
    PROVE  RanUpTo(t, f, d)
<1>1. Runs(t) \subseteq Int
  <2>1. issued[t] \in Seq(Commands) BY DEF TypeOK
  <2>. QED BY <2>1 DEF Runs
<1>2. \A k \in Runs(t) : k <= d => k <= d - 1 BY <1>1
<1>. QED BY <1>2 DEF RanUpTo

LEMMA NedExecuteOrder ==
    ASSUME LInv, NedExecute
    PROVE  \A t \in Callers : InOrder(t)' /\ Counted(t)'
<1>1. TypeOK /\ NedInv BY DEF LInv
<1>0. /\ issued' = issued /\ answers' = answers
      /\ waiting' = waiting /\ thread' = thread /\ cmd' = cmd
      /\ up' = up /\ toServer' = toServer /\ toClient' = toClient
      /\ ned = "accepted" /\ ned' = "reply" /\ caller' = caller /\ caller \in Callers
      BY <1>1 DEF NedExecute, netVars, clientVars, threadVars, TypeOK
<1>2. /\ thread[caller] = "calling" /\ nedBuffer = cmd[caller] /\ cmd[caller].len <= UtcbSize
      BY <1>0, <1>1 DEF NedInv
<1>3. ASSUME NEW t \in Callers PROVE Counted(t)'
      BY <1>0 DEF LInv, Counted
<1>4. ASSUME NEW t \in Callers PROVE /\ Up(t)' <=> Up(t) 
                                     /\ Sent(t)' = Sent(t) /\ Back(t)' = Back(t)
      BY <1>0 DEF Up, Sent, Back
<1>5. ASSUME NEW t \in Callers, t # caller PROVE InOrder(t)'
  <2>1. PICK f \in [RunFor(t) -> Runs(t)], d \in 0..Len(issued[t]) :
            Matches(t, f) /\ OneInFlight(t, f, d) /\ Told(t, f)
        BY Witnesses
  <2>2. /\ RunFor(t)' = RunFor(t) /\ Runs(t)' = Runs(t)
        /\ Matches(t, f)' <=> Matches(t, f)
        /\ \A n : RanUpTo(t, f, n)' <=> RanUpTo(t, f, n)
        /\ \A n : RunBelow(t, f, n)' <=> RunBelow(t, f, n)
    <3>1. CASE nedBuffer.parses
      <4>1. executed' = Append(executed, <<caller, nedBuffer>>) BY <3>1 DEF NedExecute
      <4>2. caller \in Callers \ {t} BY <1>0, <1>5
      <4>. QED BY <1>0, <1>1, <4>1, <4>2, OtherRun
    <3>2. CASE ~nedBuffer.parses
      <4>1. executed' = executed BY <3>2 DEF NedExecute
      <4>. QED BY <1>0, <4>1, SameRuns
    <3>. QED BY <3>1, <3>2
  <2>3. OneInFlight(t, f, d)'
        BY <1>0, <1>4, <1>5, <2>1, <2>2 DEF OneInFlight, Busy
  <2>4. Told(t, f)' BY <1>0, <2>1, <2>2 DEF Told
  <2>. QED BY <1>0, <2>1, <2>2, <2>3, <2>4 DEF InOrder
<1>6. ASSUME NEW t \in Callers, t = caller PROVE InOrder(t)'
  <2>1. PICK f \in [RunFor(t) -> Runs(t)], d \in 0..Len(issued[t]) :
            Matches(t, f) /\ OneInFlight(t, f, d) /\ Told(t, f)
        BY Witnesses
  <2>2. /\ d \in 1..Len(issued[t]) /\ nedBuffer = issued[t][d]
        /\ RunBelow(t, f, d) /\ RanUpTo(t, f, d - 1)
        BY <1>0, <1>2, <1>6, <2>1 DEF OneInFlight, Busy
  <2>3. Len(issued[t]) \in Nat /\ DOMAIN issued[t] = 1..Len(issued[t])
        BY <1>1 DEF TypeOK
  <2>4. CASE nedBuffer.parses
    <3>1. executed' = Append(executed, <<t, issued[t][d]>>)
          BY <1>6, <2>2, <2>4 DEF NedExecute
    <3>2. d \in Runs(t) BY <1>2, <1>6, <2>2, <2>3, <2>4 DEF Runs
    <3>3. PICK g \in [RunFor(t)' -> Runs(t)'] :
              /\ Matches(t, g)' /\ RunBelow(t, g, d + 1)' /\ RanUpTo(t, g, d)'
              /\ \A n : RanUpTo(t, f, n) => RanUpTo(t, g, n)'
          BY <1>0, <1>1, <2>1, <2>2, <3>1, <3>2, OneMoreRun
    <3>4. OneInFlight(t, g, d)'
          BY <1>0, <1>2, <1>4, <1>6, <2>1, <2>2, <3>3 DEF OneInFlight, Busy
    <3>5. Told(t, g)' BY <1>0, <2>1, <3>3 DEF Told
    <3>. QED BY <1>0, <2>1, <3>3, <3>4, <3>5 DEF InOrder
  <2>5. CASE ~nedBuffer.parses
    <3>1. executed' = executed BY <2>5 DEF NedExecute
    <3>2. /\ RunFor(t)' = RunFor(t) /\ Runs(t)' = Runs(t)
          /\ Matches(t, f)' <=> Matches(t, f)
          /\ \A n : RanUpTo(t, f, n)' <=> RanUpTo(t, f, n)
          /\ \A n : RunBelow(t, f, n)' <=> RunBelow(t, f, n)
          BY <1>0, <3>1, SameRuns
    <3>3. RanUpTo(t, f, d)
      <4>1. d \notin Runs(t) BY <2>2, <2>5 DEF Runs
      <4>. QED BY <1>1, <2>2, <2>3, <4>1, NothingToRun
    <3>4. OneInFlight(t, f, d)'
          BY <1>0, <1>2, <1>4, <1>6, <2>1, <3>2, <3>3 DEF OneInFlight, Busy
    <3>5. Told(t, f)' BY <1>0, <2>1, <3>2 DEF Told
    <3>. QED BY <1>0, <2>1, <3>2, <3>4, <3>5 DEF InOrder
  <2>. QED BY <2>4, <2>5
<1>. QED BY <1>3, <1>5, <1>6

LEMMA NedReplyOrder ==
    ASSUME LInv, NedReply
    PROVE  \A t \in Callers : InOrder(t)' /\ Counted(t)'
<1>1. TypeOK /\ NedInv BY DEF LInv
<1>0. /\ executed' = executed /\ issued' = issued /\ answers' = answers
      /\ waiting' = waiting /\ cmd' = cmd
      /\ up' = up /\ toServer' = toServer /\ toClient' = toClient
      /\ ned \in {"refused", "reply"} /\ ned' = "loop" /\ caller' = caller
      /\ caller \in Callers
      BY <1>1 DEF NedReply, netVars, clientVars, TypeOK
<1>2. ASSUME NEW t \in Callers, t # caller PROVE InOrder(t)' /\ Counted(t)'
  <2>1. InOrder(t) /\ Counted(t) BY DEF LInv
  <2>2. thread'[t] = thread[t] BY <1>1, <1>2 DEF TypeOK, NedReply
  <2>. QED BY <1>0, <1>2, <2>1, <2>2, Frame DEF Up, Sent, Back
<1>3. ASSUME NEW t \in Callers, t = caller PROVE InOrder(t)' /\ Counted(t)'
  <2>1. PICK f \in [RunFor(t) -> Runs(t)], d \in 0..Len(issued[t]) :
            Matches(t, f) /\ OneInFlight(t, f, d) /\ Told(t, f)
        BY Witnesses
  <2>2. /\ RunFor(t)' = RunFor(t) /\ Runs(t)' = Runs(t)
        /\ Matches(t, f)' <=> Matches(t, f)
        /\ \A n : RanUpTo(t, f, n)' <=> RanUpTo(t, f, n)
        /\ \A n : RunBelow(t, f, n)' <=> RunBelow(t, f, n)
        BY <1>0, SameRuns
  <2>3. Counted(t)' BY <1>0 DEF LInv, Counted
  <2>4. Told(t, f)' BY <1>0, <2>1, <2>2 DEF Told
  <2>5. /\ Up(t)' <=> Up(t) 
        /\ Sent(t)' = Sent(t) /\ Back(t)' = Back(t)
        BY <1>0 DEF Up, Sent, Back
  <2>6. thread[t] = "calling" /\ thread'[t] = "answered"
        BY <1>0, <1>1, <1>3 DEF TypeOK, NedReply, NedInv
  <2>7. RanUpTo(t, f, d)
    <3>1. CASE ned = "reply" BY <1>3, <2>1, <3>1 DEF OneInFlight
    <3>2. CASE ned = "refused"
      <4>1. /\ d \in 1..Len(issued[t]) /\ cmd[t] = issued[t][d] /\ cmd[t] \in Commands
            BY <1>1, <2>1, <2>6, InFlightIsIssued DEF Busy
      <4>2. cmd[t].len > UtcbSize /\ cmd[t].len \in Nat
            BY <1>1, <1>3, <3>2, <4>1, CommandsAssumption DEF NedInv, CommandType
      <4>3. d \notin Runs(t) BY <4>1, <4>2, Constants DEF Runs
      <4>4. d \in Int /\ RanUpTo(t, f, d - 1) BY <2>1 DEF OneInFlight
      <4>. QED BY <1>1, <4>3, <4>4, NothingToRun
    <3>. QED BY <1>0, <3>1, <3>2
  <2>8. OneInFlight(t, f, d)'
        BY <1>0, <1>3, <2>1, <2>2, <2>5, <2>6, <2>7 DEF OneInFlight, Busy
  <2>. QED BY <1>0, <2>1, <2>2, <2>3, <2>4, <2>8 DEF InOrder
<1>. QED BY <1>2, <1>3

LEMMA OrderStep ==
    ASSUME LInv, [Next]_vars
    PROVE  \A t \in Callers : InOrder(t)' /\ Counted(t)'
<1>1. ASSUME UNCHANGED vars PROVE \A t \in Callers : InOrder(t)' /\ Counted(t)'
  <2>1. ASSUME NEW t \in Callers PROVE InOrder(t)' /\ Counted(t)'
    <3>1. InOrder(t) /\ Counted(t) BY DEF LInv
    <3>. QED BY <1>1, <3>1, Frame DEF vars, Up, Sent, Back
  <2>. QED BY <2>1
<1>. QED BY <1>1, CallOrder, AnswerOrder, LoseOrder, ReceiveOrder, OverrunOrder, SendOrder,
            LocalCallOrder, LocalReturnOrder, NedReceiveOrder, NedExecuteOrder,
            NedReplyOrder
         DEF Next, Ned

-----------------------------------------------------------------------------
(* Ned and its verdicts. *)

\* Ned serves nobody who is not calling it.
LEMMA NotServed ==
    ASSUME LInv, NEW t \in Callers, thread[t] # "calling"
    PROVE  ned = "loop" \/ caller # t
BY DEF LInv, NedInv

LEMMA NedStep ==
    ASSUME LInv, [Next]_vars
    PROVE  NedInv' /\ VerdictInv'
<1>. TypeOK /\ NedInv /\ VerdictInv BY DEF LInv
<1>. Remotes \subseteq Callers /\ Locals \subseteq Callers BY DEF Callers
<1>1. ASSUME NEW r \in Remotes, NEW c \in Commands, ExecuteLuaString(r, c)
      PROVE  NedInv' /\ VerdictInv'
      BY <1>1 DEF NedInv, VerdictInv, ExecuteLuaString, threadVars, nedVars
<1>2. ASSUME NEW r \in Remotes, TakeAnswer(r) PROVE NedInv' /\ VerdictInv'
      BY <1>2 DEF NedInv, VerdictInv, TakeAnswer, threadVars, nedVars
<1>3. ASSUME NEW r \in Remotes, Lose(r) PROVE NedInv' /\ VerdictInv'
      BY <1>3 DEF NedInv, VerdictInv, Lose, threadVars, nedVars
<1>4. ASSUME NEW r \in Remotes, ReceiveCommand(r) PROVE NedInv' /\ VerdictInv'
  <2>1. ned = "loop" \/ caller # r BY <1>4, NotServed DEF ReceiveCommand
  <2>2. caller \in Callers BY DEF TypeOK
  <2>3. \A t \in Callers : t # r => thread'[t] = thread[t] /\ cmd'[t] = cmd[t]
        BY <1>4 DEF ReceiveCommand, Break, TypeOK
  <2>4. thread'[r] # "answered" BY <1>4 DEF ReceiveCommand, Break, TypeOK
  <2>5. UNCHANGED <<verdict, ned, caller, nedBuffer, utcb>> BY <1>4 DEF ReceiveCommand, nedVars
  <2>. QED BY <2>1, <2>2, <2>3, <2>4, <2>5 DEF NedInv, VerdictInv
<1>5. ASSUME NEW r \in Remotes, SendAnswer(r) PROVE NedInv' /\ VerdictInv'
  <2>1. ned = "loop" \/ caller # r BY <1>5, NotServed DEF SendAnswer
  <2>2. caller \in Callers BY DEF TypeOK
  <2>3. \A t \in Callers : t # r => thread'[t] = thread[t]
        BY <1>5 DEF SendAnswer, Break, TypeOK
  <2>4. thread'[r] # "answered" BY <1>5 DEF SendAnswer, Break, TypeOK
  <2>5. UNCHANGED <<cmd, verdict, ned, caller, nedBuffer, utcb>> BY <1>5 DEF SendAnswer, nedVars
  <2>. QED BY <2>1, <2>2, <2>3, <2>4, <2>5 DEF NedInv, VerdictInv
<1>6. ASSUME NEW l \in Locals, NEW c \in Commands, ExecuteString(l, c)
      PROVE  NedInv' /\ VerdictInv'
  <2>0. ~Busy(l)
    <3>1. PICK f \in [RunFor(l) -> Runs(l)], d \in 0..Len(issued[l]) : OneInFlight(l, f, d)
          BY Witnesses
    <3>. QED BY <1>6, <3>1 DEF OneInFlight, ExecuteString, Issued
  <2>1. ned = "loop" \/ caller # l BY <2>0, NotServed DEF Busy
  <2>2. caller \in Callers BY DEF TypeOK
  <2>3. \A t \in Callers : t # l => thread'[t] = thread[t] /\ cmd'[t] = cmd[t]
        BY <1>6 DEF ExecuteString, TypeOK
  <2>4. thread'[l] # "answered" BY <1>6 DEF ExecuteString, TypeOK
  <2>5. UNCHANGED <<verdict, ned, caller, nedBuffer, utcb>> BY <1>6 DEF ExecuteString, nedVars
  <2>. QED BY <2>1, <2>2, <2>3, <2>4, <2>5 DEF NedInv, VerdictInv
<1>7. ASSUME NEW l \in Locals, ExecuteReturn(l) PROVE NedInv' /\ VerdictInv'
  <2>1. ned = "loop" \/ caller # l BY <1>7, NotServed DEF ExecuteReturn
  <2>2. caller \in Callers BY DEF TypeOK
  <2>3. \A t \in Callers : t # l => thread'[t] = thread[t]
        BY <1>7 DEF ExecuteReturn, TypeOK
  <2>4. thread'[l] # "answered" BY <1>7 DEF ExecuteReturn, TypeOK
  <2>5. UNCHANGED <<cmd, verdict, ned, caller, nedBuffer, utcb>> BY <1>7 DEF ExecuteReturn, nedVars
  <2>. QED BY <2>1, <2>2, <2>3, <2>4, <2>5 DEF NedInv, VerdictInv
<1>8. ASSUME NEW u \in Callers, NedReceive(u) PROVE NedInv' /\ VerdictInv'
  <2>1. /\ UNCHANGED <<thread, cmd, verdict>> /\ caller' = u /\ thread[u] = "calling"
        BY <1>8 DEF NedReceive, threadVars
  <2>2. VerdictInv' BY <2>1 DEF VerdictInv
  <2>3. /\ cmd[u].len \in Nat /\ nedBuffer.len \in Nat \ {0} /\ UtcbSize \in Nat
        BY Constants DEF TypeOK, CommandType
  <2>4. CASE cmd[u].len <= UtcbSize
    <3>1. nedBuffer' = cmd[u] /\ ned' = "accepted"
          BY <1>8, <2>4 DEF NedReceive, CopyIn, SizeIn
    <3>. QED BY <2>1, <2>2, <2>4, <3>1 DEF NedInv
  <2>5. CASE cmd[u].len > UtcbSize
    <3>1. ned' = "refused" /\ utcb' = LUA_ERROR
          BY <1>8, <2>3, <2>5 DEF NedReceive, CopyIn, SizeIn
    <3>. QED BY <2>1, <2>2, <2>5, <3>1 DEF NedInv, LUA_ERROR, LUA_OK
  <2>. QED BY <2>3, <2>4, <2>5
<1>9. ASSUME NedExecute PROVE NedInv' /\ VerdictInv'
  <2>1. /\ UNCHANGED <<thread, cmd, verdict, caller, nedBuffer>>
        /\ ned = "accepted" /\ ned' = "reply"
        BY <1>9 DEF NedExecute, threadVars
  <2>. QED BY <2>1 DEF NedInv, VerdictInv
<1>10. ASSUME NedReply PROVE NedInv' /\ VerdictInv'
  <2>1. /\ UNCHANGED <<cmd, caller, nedBuffer, utcb>>
        /\ ned \in {"refused", "reply"} /\ ned' = "loop" /\ caller \in Callers
        BY <1>10 DEF NedReply, TypeOK
  <2>2. \A t \in Callers : t # caller => thread'[t] = thread[t] /\ verdict'[t] = verdict[t]
        BY <1>10 DEF NedReply, TypeOK
  <2>3. verdict'[caller] \in {LUA_OK, LUA_ERROR} /\ (verdict'[caller] = LUA_OK => utcb = LUA_OK)
        BY <1>10 DEF NedReply, TypeOK, LUA_OK, LUA_ERROR
  <2>4. utcb = LUA_OK => cmd[caller].len <= UtcbSize BY <2>1 DEF NedInv
  <2>5. verdict'[caller] # FAILED BY <2>3 DEF LUA_OK, LUA_ERROR, FAILED
  <2>. QED BY <2>1, <2>2, <2>3, <2>4, <2>5 DEF NedInv, VerdictInv
<1>11. ASSUME NEW r \in Remotes, Overrun(r) PROVE NedInv' /\ VerdictInv'
      BY <1>11 DEF NedInv, VerdictInv, Overrun, nedVars
<1>12. ASSUME UNCHANGED vars PROVE NedInv' /\ VerdictInv'
      BY <1>12 DEF NedInv, VerdictInv, vars
<1>. QED BY <1>1, <1>2, <1>3, <1>4, <1>5, <1>6, <1>7, <1>8, <1>9, <1>10, <1>11, <1>12
         DEF Next, Ned

\* No caller has an answer to a command it has not issued.
LEMMA AnsweredIsIssued ==
    ASSUME LInv, NEW t \in Callers
    PROVE  /\ Len(issued[t]) \in Nat /\ Len(answers[t]) \in Nat
           /\ Len(answers[t]) <= Len(issued[t])
           /\ DOMAIN answers[t] = 1..Len(answers[t])
           /\ ~waiting[t] => Len(answers[t]) = Len(issued[t])
           /\ waiting[t] => Len(issued[t]) = Len(answers[t]) + 1
<1>1. answers[t] \in Seq(Answers) /\ issued[t] \in Seq(Commands) BY DEF LInv, TypeOK
<1>2. Counted(t) BY DEF LInv
<1>3. /\ Len(issued[t]) \in Nat /\ Len(answers[t]) \in Nat
      /\ DOMAIN answers[t] = 1..Len(answers[t])
      BY <1>1
<1>4. CASE waiting[t] BY <1>2, <1>3, <1>4 DEF Counted
<1>5. CASE ~waiting[t] BY <1>2, <1>3, <1>5 DEF Counted
<1>. QED BY <1>4, <1>5

LEMMA OkStep ==
    ASSUME LInv, [Next]_vars
    PROVE  NoFalseOk'
<1>0. TypeOK /\ NoFalseOk BY DEF LInv
<1>. Remotes \subseteq Callers /\ Locals \subseteq Callers BY DEF Callers
<1>1. ASSUME NEW u \in Callers, NEW c \in Commands, NEW a \in {"none", FAILED},
             issued' = [issued EXCEPT ![u] = Append(issued[u], c)],
             IF a = FAILED THEN ~waiting[u] /\ answers' = [answers EXCEPT ![u] = Append(answers[u], a)]
                           ELSE answers' = answers
      PROVE  NoFalseOk'
  <2>1. ASSUME NEW t \in Callers, NEW n \in DOMAIN answers'[t], answers'[t][n] = LUA_OK
        PROVE  issued'[t][n].len <= UtcbSize
    <3>1. n \in DOMAIN answers[t] /\ answers[t][n] = LUA_OK
      <4>1. CASE answers'[t] = answers[t] BY <2>1, <4>1
      <4>2. CASE answers'[t] = Append(answers[t], FAILED)
        <5>1. \/ n \in DOMAIN answers[t] /\ answers'[t][n] = answers[t][n]
              \/ answers'[t][n] = FAILED
              BY <1>0, <2>1, <4>2, AnswerAdded
        <5>. QED BY <2>1, <5>1 DEF FAILED, LUA_OK
      <4>3. answers'[t] = answers[t] \/ answers'[t] = Append(answers[t], FAILED)
            BY <1>0, <1>1 DEF TypeOK
      <4>. QED BY <4>1, <4>2, <4>3
    <3>2. n \in 1..Len(issued[t]) BY <3>1, AnsweredIsIssued
    <3>3. issued'[t][n] = issued[t][n]
      <4>1. issued[t] \in Seq(Commands) BY <1>0 DEF TypeOK
      <4>2. issued'[t] = issued[t] \/ issued'[t] = Append(issued[t], c)
            BY <1>0, <1>1 DEF TypeOK
      <4>3. CASE issued'[t] = Append(issued[t], c) BY <3>2, <4>1, <4>3
      <4>. QED BY <4>2, <4>3
    <3>. QED BY <1>0, <3>1, <3>3 DEF NoFalseOk
  <2>. QED BY <2>1 DEF NoFalseOk
<1>2. ASSUME NEW u \in Callers, NEW a, Answered(u, a), issued' = issued, waiting[u],
             a = LUA_OK => issued[u][Len(issued[u])].len <= UtcbSize
      PROVE  NoFalseOk'
  <2>1. ASSUME NEW t \in Callers, NEW n \in DOMAIN answers'[t], answers'[t][n] = LUA_OK
        PROVE  issued'[t][n].len <= UtcbSize
    <3>1. CASE t = u
      <4>1. answers'[t] = Append(answers[t], a) BY <1>0, <1>2, <3>1 DEF Answered, TypeOK
      <4>2. \/ n \in DOMAIN answers[t] /\ answers'[t][n] = answers[t][n]
            \/ n = Len(answers[t]) + 1 /\ answers'[t][n] = a
            BY <1>0, <2>1, <4>1, AnswerAdded
      <4>3. Len(issued[t]) = Len(answers[t]) + 1 BY <1>2, <3>1, AnsweredIsIssued
      <4>. QED BY <1>0, <1>2, <2>1, <3>1, <4>2, <4>3 DEF NoFalseOk
    <3>2. CASE t # u
      <4>1. answers'[t] = answers[t] BY <1>0, <1>2, <3>2 DEF Answered, TypeOK
      <4>. QED BY <1>0, <1>2, <2>1, <4>1 DEF NoFalseOk
    <3>. QED BY <3>1, <3>2
  <2>. QED BY <2>1 DEF NoFalseOk
<1>3. ASSUME issued' = issued, answers' = answers PROVE NoFalseOk'
      BY <1>0, <1>3 DEF NoFalseOk
<1>4. ASSUME NEW r \in Remotes, NEW c \in Commands, ExecuteLuaString(r, c)
      PROVE  NoFalseOk'
  <2>1. issued' = [issued EXCEPT ![r] = Append(issued[r], c)] /\ ~waiting[r]
        BY <1>4 DEF ExecuteLuaString, Issued
  <2>2. answers' = answers \/ answers' = [answers EXCEPT ![r] = Append(answers[r], FAILED)]
        BY <1>4 DEF ExecuteLuaString, Answered
  <2>3. "none" # FAILED BY DEF FAILED
  <2>. QED BY <1>1, <2>1, <2>2, <2>3
<1>5. ASSUME NEW r \in Remotes, TakeAnswer(r) PROVE NoFalseOk'
  <2>1. PICK f \in [RunFor(r) -> Runs(r)], d \in 0..Len(issued[r]) : OneInFlight(r, f, d)
        BY Witnesses
  <2>2. CASE toClient[r] # <<>>
    <3>1. Head(toClient[r]) = LUA_OK => issued[r][Len(issued[r])].len <= UtcbSize
          BY <2>1, <2>2 DEF OneInFlight, Back
    <3>. QED BY <1>2, <1>5, <2>2, <3>1 DEF TakeAnswer
  <2>3. CASE toClient[r] = <<>>
    <3>1. FAILED # LUA_OK BY DEF FAILED, LUA_OK
    <3>. QED BY <1>2, <1>5, <2>3, <3>1 DEF TakeAnswer
  <2>. QED BY <2>2, <2>3
<1>6. ASSUME NEW l \in Locals, NEW c \in Commands, ExecuteString(l, c) PROVE NoFalseOk'
  <2>1. issued' = [issued EXCEPT ![l] = Append(issued[l], c)] /\ answers' = answers
        BY <1>6 DEF ExecuteString, Issued
  <2>2. "none" # FAILED BY DEF FAILED
  <2>. QED BY <1>1, <2>1, <2>2
<1>7. ASSUME NEW l \in Locals, ExecuteReturn(l) PROVE NoFalseOk'
  <2>1. PICK f \in [RunFor(l) -> Runs(l)], d \in 0..Len(issued[l]) : OneInFlight(l, f, d)
        BY Witnesses
  <2>2. Up(l) BY Constants DEF Up
  <2>3. thread[l] = "answered" /\ issued' = issued /\ Answered(l, verdict[l])
        BY <1>7 DEF ExecuteReturn
  <2>4. waiting[l] /\ cmd[l] = issued[l][Len(issued[l])]
        BY <2>1, <2>2, <2>3 DEF OneInFlight, Busy
  <2>5. verdict[l] = LUA_OK => cmd[l].len <= UtcbSize BY <2>3 DEF LInv, VerdictInv
  <2>. QED BY <1>2, <2>3, <2>4, <2>5
<1>8. ASSUME NEW r \in Remotes,
             Lose(r) \/ ReceiveCommand(r) \/ Overrun(r) \/ SendAnswer(r)
      PROVE  NoFalseOk'
      BY <1>3, <1>8 DEF Lose, ReceiveCommand, Overrun, SendAnswer, clientVars
<1>9. ASSUME Ned PROVE NoFalseOk'
      BY <1>3, <1>9 DEF Ned, NedReceive, NedExecute, NedReply, clientVars
<1>10. ASSUME UNCHANGED vars PROVE NoFalseOk'
      BY <1>3, <1>10 DEF vars
<1>. QED BY <1>4, <1>5, <1>6, <1>7, <1>8, <1>9, <1>10 DEF Next

-----------------------------------------------------------------------------
(* The theorems. *)

LEMMA LInit ==
    ASSUME Init
    PROVE  LInv
<1>1. TypeOK
  <2>1. <<>> \in Seq(Commands) /\ <<>> \in Seq(Answers) /\ <<>> \in Seq(Callers \X Commands)
        OBVIOUS
  <2>. QED BY <2>1 DEF Init, TypeOK, Answers
<1>2. NedInv /\ VerdictInv /\ NoFalseOk
      BY DEF Init, NedInv, VerdictInv, NoFalseOk, Callers, LUA_ERROR, FAILED
<1>3. ASSUME NEW t \in Callers PROVE Counted(t) /\ InOrder(t)
  <2>1. /\ issued[t] = <<>> /\ answers[t] = <<>> /\ ~waiting[t] /\ thread[t] = "receiving"
        /\ ned = "loop" /\ Up(t) /\ Sent(t) = <<>> /\ Back(t) = <<>>
        BY DEF Init, Up, Sent, Back
  <2>2. RunFor(t) = {} /\ Runs(t) = {} BY <2>1 DEF Init, RunFor, Runs
  <2>3. PICK f : f \in [RunFor(t) -> Runs(t)]
    <3>1. [x \in RunFor(t) |-> 0] \in [RunFor(t) -> Runs(t)] BY <2>2
    <3>. QED BY <3>1
  <2>4. Matches(t, f) /\ Told(t, f) BY <2>1, <2>2 DEF Matches, Told
  <2>5. \A n : RanUpTo(t, f, n) /\ RunBelow(t, f, n) BY <2>2 DEF RanUpTo, RunBelow
  <2>6. Len(issued[t]) = 0 BY <2>1
  <2>7. OneInFlight(t, f, 0) BY <2>1, <2>5, <2>6 DEF OneInFlight, Busy
  <2>8. Counted(t) BY <2>1 DEF Counted
  <2>. QED BY <2>3, <2>4, <2>6, <2>7, <2>8 DEF InOrder
<1>. QED BY <1>1, <1>2, <1>3 DEF LInv

\* The invariant holds, whatever the callers issue and whenever connections break or
\* Dom0 dies of a command that does not fit into the handler's buffer:
\* at most one command of a caller is on its way, and Ned's buffer, its registers
\* and the verdict are those of the command of the caller it serves.
THEOREM LuaInvariant == Spec => []LInv
<1>1. Init => LInv BY LInit
<1>2. LInv /\ [Next]_vars => LInv'
      BY TypeStep, NedStep, OkStep, OrderStep DEF LInv
<1>. QED BY <1>1, <1>2, PTL DEF Spec

\* A caller only ever sees LUA_OK, LUA_ERROR or -errno (executeLuaString,
\* LuaIpcClient::executeString).
THEOREM TypeCorrect == Spec => []TypeOK
<1>1. LInv => TypeOK BY DEF LInv
<1>. QED BY LuaInvariant, <1>1, PTL

\* Ned_server::dispatch never leaves LUA_OK in the registers for a command that did
\* not fit into the message, and no thread passes a verdict on to another command:
\* also not for a command longer than the buffer of luaConnectionHandler, which either
\* ends Dom0 or is passed on, and refused.
THEOREM OkIsTrue == Spec => []NoFalseOk
<1>1. LInv => NoFalseOk BY DEF LInv
<1>. QED BY LuaInvariant, <1>1, PTL

\* Ned runs each caller's commands in order, each once, with none left out, though
\* it has one buffer that keeps the command before the one that did not arrive.
THEOREM RunsInOrder == Spec => []ExecutedInOrder
<1>1. ASSUME LInv, NEW t \in Callers
      PROVE  \E f \in [RunFor(t) -> Runs(t)] :
                 Matches(t, f) /\ \A i \in RunFor(t) : RanUpTo(t, f, f[i])
  <2>1. PICK f \in [RunFor(t) -> Runs(t)], d \in 0..Len(issued[t]) :
            Matches(t, f) /\ OneInFlight(t, f, d)
        BY <1>1, Witnesses
  <2>2. ASSUME NEW i \in RunFor(t) PROVE RanUpTo(t, f, f[i])
    <3>1. Len(issued[t]) \in Nat BY <1>1, AnsweredIsIssued
    <3>2. Runs(t) \subseteq Int
      <4>1. issued[t] \in Seq(Commands) BY <1>1 DEF LInv, TypeOK
      <4>. QED BY <4>1 DEF Runs
    <3>3. f[i] \in Runs(t) /\ f[i] < d + 1 /\ RanUpTo(t, f, d - 1)
          BY <2>1 DEF OneInFlight, RunBelow
    <3>4. ASSUME NEW k \in Runs(t), k <= f[i] PROVE \E j \in RunFor(t) : f[j] = k
      <4>1. CASE k = f[i] BY <4>1
      <4>2. CASE k # f[i]
        <5>1. k <= d - 1 BY <3>1, <3>2, <3>3, <3>4, <4>2
        <5>. QED BY <3>3, <5>1 DEF RanUpTo
      <4>. QED BY <4>1, <4>2
    <3>. QED BY <3>4 DEF RanUpTo
  <2>. QED BY <2>1, <2>2
<1>2. LInv => ExecutedInOrder BY <1>1 DEF ExecutedInOrder
<1>. QED BY LuaInvariant, <1>2, PTL

\* An answer that reaches the caller through the handler thread, or directly, is for
\* its own command, which has run by then if Ned runs it at all.
THEOREM AnswersAreForRuns == Spec => []AnsweredIsExecuted
<1>1. ASSUME LInv, NEW t \in Callers
      PROVE  \E f \in [RunFor(t) -> Runs(t)] :
                 /\ Matches(t, f)
                 /\ \A n \in DOMAIN answers[t] : answers[t][n] # FAILED => RanUpTo(t, f, n)
      BY <1>1, Witnesses DEF Told
<1>2. LInv => AnsweredIsExecuted BY <1>1 DEF AnsweredIsExecuted
<1>. QED BY LuaInvariant, <1>2, PTL
=============================================================================
