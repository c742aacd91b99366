------------------------ MODULE TaskLifecycleProofs ------------------------
(***************************************************************************)
(* Proofs about TaskLifecycle, for any number of tasks and exit codes.     *)
(***************************************************************************)
EXTENDS TaskLifecycle, TLAPS

USE TasksAssumption

Execs   == {"launch", "started", "publish"}
Methods == {"look", "seize", "free", "zap", "calling", "waiting", "woken"}

\* The count is what was added and what was taken away, early exit or not.
Balanced(t) ==
    lua # "crashed" =>
        refs[t] = One(ltask = t /\ lua \in Execs \cup {"look"}) + One(handle[t]) + One(t \in took)
                  + One(t \in leaked) - One(t \in kicked)

\* What is known of task t, whether it exits early or not.
Shape(t) ==
    /\ obj[t] = "none" => /\ t \notin took \cup leaked \cup kicked \cup early
                          /\ ~handle[t] /\ ltask # t /\ stask # t /\ proc[t] = "none"
    /\ t \in kicked => ~caps[t] /\ t \in took \cup early
    /\ t \in leaked => t \notin took /\ ~handle[t]
    /\ handle[t] => t \in took
    /\ ltask = t => /\ lua \in Execs => ~handle[t] /\ t \notin leaked
                    /\ lua = "launch" => t \notin took \cup kicked \cup early /\ stask # t
                                         /\ proc[t] = "none"
                    /\ lua = "started" => t \notin took
                    /\ lua = "publish" => t \in took
                    /\ lua \in Methods => handle[t]
    /\ lua # "crashed" /\ t \notin took
            /\ (stask = t \/ t \in kicked \/ proc[t] \in {"running", "exiting"})
         => ltask = t /\ lua = "started"
    /\ stask = t => /\ t \in took \cup early
                    /\ srv \in {"code", "seize", "free", "kick"} => t \notin kicked
                    /\ srv \in {"kick", "notify"} => ~caps[t]

\* The object of a task that did not exit early is there while it is held.
Kept(t) == t \notin early /\ lua # "crashed" => (obj[t] = "live" <=> Holders(t) > 0)

Safe(t) == <<"lua", t>> \notin misused /\ <<"srv", t>> \notin misused

Known(t) == Shape(t) /\ Balanced(t) /\ Kept(t) /\ (t \notin early => Safe(t))

IInv == TypeOK /\ ((lua = "crashed") = (srv = "crashed")) /\ \A t \in Tasks : Known(t)

-----------------------------------------------------------------------------
(* Every action keeps IInv: the types, and what is known of each task.       *)

\* A reference can be removed where the count is known to be at least one.
LEMMA RemoveRefType ==
    ASSUME TypeOK, NEW t \in Tasks, refs[t] >= 1, RemoveRef(t)
    PROVE  /\ obj' \in [Tasks -> {"none", "live", "deleted"}]
           /\ refs' \in [Tasks -> Nat] /\ frees' \in [Tasks -> Nat]
           /\ caps' \in [Tasks -> BOOLEAN]
           /\ proc' \in [Tasks -> {"none", "running", "exiting", "gone"}]
  <1>1. refs' \in [Tasks -> Nat]
    BY DEF RemoveRef, TypeOK
  <1>2. CASE refs[t] = 1
    <2>1. Delete(t)
      BY <1>2 DEF RemoveRef
    <2>2. frees' \in [Tasks -> Nat]
      BY <2>1 DEF Delete, TypeOK
    <2>3. caps' \in [Tasks -> BOOLEAN]
      BY <2>1 DEF Delete, TypeOK
    <2>4. /\ obj' \in [Tasks -> {"none", "live", "deleted"}]
          /\ proc' \in [Tasks -> {"none", "running", "exiting", "gone"}]
      BY <2>1 DEF Delete, TypeOK
    <2> QED
      BY <1>1, <2>2, <2>3, <2>4
  <1>3. CASE refs[t] # 1
    BY <1>1, <1>3 DEF RemoveRef, TypeOK
  <1> QED
    BY <1>2, <1>3

LEMMA ExecNewStep ==
    ASSUME IInv, NEW t \in Tasks, ExecNew(t)
    PROVE  IInv'
  <1> USE DEF ExecNew, LuaGoes, objVars, taskVars, luaVars, srvVars, history
  <1>1. TypeOK'
    BY DEF IInv, TypeOK, Known, Shape, Balanced, One, Execs, Methods
  <1>2. ((lua = "crashed") = (srv = "crashed"))'
    BY DEF IInv, TypeOK
  <1>3. ASSUME NEW u \in Tasks PROVE Known(u)'
    <2>1. Shape(u)'
      BY DEF IInv, TypeOK, Known, Shape, Execs, Methods
    <2>2. Balanced(u)'
      BY DEF IInv, TypeOK, Known, Shape, Balanced, One, Execs, Methods
    <2>3. Kept(u)'
      BY DEF IInv, TypeOK, Known, Shape, Balanced, Kept, Holders, One, Execs, Methods
    <2>4. u \notin early' => Safe(u)'
      BY DEF IInv, TypeOK, Known, Shape, Kept, Holders, Safe, One, Execs, Methods
    <2> QED
      BY <2>1, <2>2, <2>3, <2>4 DEF Known
  <1> QED
    BY <1>1, <1>2, <1>3 DEF IInv

LEMMA ExecLaunchStep ==
    ASSUME IInv, ExecLaunch
    PROVE  IInv'
  <1>0. ltask \in Tasks /\ refs[ltask] >= 1 /\ TypeOK
    BY DEF ExecLaunch, IInv, TypeOK, Known, Shape, Balanced, One, Execs
  <1>1. TypeOK'
    <2>1. CASE RemoveRef(ltask) /\ LuaGoes("idle", NoTask) /\ UNCHANGED leaked
      BY <1>0, <2>1, RemoveRefType
         DEF ExecLaunch, LuaGoes, TypeOK, objVars, taskVars, luaVars, srvVars, history
    <2>2. CASE /\ proc' = [proc EXCEPT ![ltask] = "running"]
               /\ LuaGoes("started", ltask)
               /\ UNCHANGED <<obj, refs, caps, frees, leaked>>
      <3>1. proc' \in [Tasks -> {"none", "running", "exiting", "gone"}]
        BY <1>0, <2>2 DEF TypeOK
      <3> QED
        BY <1>0, <2>2, <3>1 DEF ExecLaunch, LuaGoes, TypeOK, srvVars
    <2>3. CASE /\ leaked' = leaked \cup {ltask}
               /\ LuaGoes("idle", NoTask)
               /\ UNCHANGED <<obj, refs, caps, frees, proc>>
      BY <1>0, <2>3 DEF ExecLaunch, LuaGoes, TypeOK, srvVars
    <2> QED
      BY <2>1, <2>2, <2>3 DEF ExecLaunch
  <1> USE DEF ExecLaunch, LuaGoes, RemoveRef, Delete, objVars, taskVars, luaVars,
              srvVars, history
  <1>2. ((lua = "crashed") = (srv = "crashed"))'
    BY DEF IInv, TypeOK
  <1>3. ASSUME NEW u \in Tasks PROVE Known(u)'
    <2>1. Shape(u)'
      BY DEF IInv, TypeOK, Known, Shape, Execs, Methods
    <2>2. Balanced(u)'
      BY DEF IInv, TypeOK, Known, Shape, Balanced, One, Execs, Methods
    <2>3. Kept(u)'
      BY DEF IInv, TypeOK, Known, Shape, Balanced, Kept, Holders, One, Execs, Methods
    <2>4. u \notin early' => Safe(u)'
      BY DEF IInv, TypeOK, Known, Shape, Kept, Holders, Safe, One, Execs, Methods
    <2> QED
      BY <2>1, <2>2, <2>3, <2>4 DEF Known
  <1> QED
    BY <1>1, <1>2, <1>3 DEF IInv

LEMMA ExecRunningStep ==
    ASSUME IInv, ExecRunning
    PROVE  IInv'
  <1> USE DEF ExecRunning, LuaGoes, Use, objVars, taskVars, luaVars, srvVars, history
  <1>1. TypeOK'
    BY DEF IInv, TypeOK, Known, Shape, Balanced, One, Execs, Methods
  <1>2. ((lua = "crashed") = (srv = "crashed"))'
    BY DEF IInv, TypeOK
  <1>3. ASSUME NEW u \in Tasks PROVE Known(u)'
    <2>1. Shape(u)'
      BY DEF IInv, TypeOK, Known, Shape, Execs, Methods
    <2>2. Balanced(u)'
      BY DEF IInv, TypeOK, Known, Shape, Balanced, One, Execs, Methods
    <2>3. Kept(u)'
      BY DEF IInv, TypeOK, Known, Shape, Balanced, Kept, Holders, One, Execs, Methods
    <2>4. u \notin early' => Safe(u)'
      BY DEF IInv, TypeOK, Known, Shape, Kept, Holders, Safe, One, Execs, Methods
    <2> QED
      BY <2>1, <2>2, <2>3, <2>4 DEF Known
  <1> QED
    BY <1>1, <1>2, <1>3 DEF IInv

LEMMA ExecPublishStep ==
    ASSUME IInv, ExecPublish
    PROVE  IInv'
  <1> USE DEF ExecPublish, LuaGoes, Use, objVars, taskVars, luaVars, srvVars, history
  <1>1. TypeOK'
    BY DEF IInv, TypeOK, Known, Shape, Balanced, One, Execs, Methods
  <1>2. ((lua = "crashed") = (srv = "crashed"))'
    BY DEF IInv, TypeOK
  <1>3. ASSUME NEW u \in Tasks PROVE Known(u)'
    <2>1. Shape(u)'
      BY DEF IInv, TypeOK, Known, Shape, Execs, Methods
    <2>2. Balanced(u)'
      BY DEF IInv, TypeOK, Known, Shape, Balanced, One, Execs, Methods
    <2>3. Kept(u)'
      BY DEF IInv, TypeOK, Known, Shape, Balanced, Kept, Holders, One, Execs, Methods
    <2>4. u \notin early' => Safe(u)'
      BY DEF IInv, TypeOK, Known, Shape, Kept, Holders, Safe, One, Execs, Methods
    <2> QED
      BY <2>1, <2>2, <2>3, <2>4 DEF Known
  <1> QED
    BY <1>1, <1>2, <1>3 DEF IInv

LEMMA DropStep ==
    ASSUME IInv, NEW t \in Tasks, Drop(t)
    PROVE  IInv'
  <1>0. t \in Tasks /\ refs[t] >= 1
    <2>1. t \in Tasks /\ handle[t]
      BY DEF Drop, IInv, TypeOK, Known, Shape, Methods
    <2> QED
      BY <2>1 DEF Drop, IInv, TypeOK, Known, Shape, Balanced, One, Execs, Methods
  <1>1. TypeOK'
    <2>1. RemoveRef(t) /\ TypeOK
      BY DEF Drop, Release, LuaGoes, Use, IInv
    <2> QED
      BY <1>0, <2>1, RemoveRefType
         DEF Drop, Release, LuaGoes, Use, TypeOK, objVars, taskVars, luaVars, srvVars,
             history
  <1> USE DEF Drop, LuaGoes, Use, Release, RemoveRef, Delete, objVars, taskVars,
              luaVars, srvVars, history
  <1>2. ((lua = "crashed") = (srv = "crashed"))'
    BY DEF IInv, TypeOK
  <1>3. ASSUME NEW u \in Tasks PROVE Known(u)'
    <2>1. Shape(u)'
      BY DEF IInv, TypeOK, Known, Shape, Execs, Methods
    <2>2. Balanced(u)'
      BY DEF IInv, TypeOK, Known, Shape, Balanced, One, Execs, Methods
    <2>3. Kept(u)'
      BY DEF IInv, TypeOK, Known, Shape, Balanced, Kept, Holders, One, Execs, Methods
    <2>4. u \notin early' => Safe(u)'
      BY DEF IInv, TypeOK, Known, Shape, Kept, Holders, Safe, One, Execs, Methods
    <2> QED
      BY <2>1, <2>2, <2>3, <2>4 DEF Known
  <1> QED
    BY <1>1, <1>2, <1>3 DEF IInv

LEMMA LookStep ==
    ASSUME IInv, NEW t \in Tasks, Look(t)
    PROVE  IInv'
  <1> USE DEF Look, LuaGoes, Use, objVars, taskVars, luaVars, srvVars, history
  <1>1. TypeOK'
    BY DEF IInv, TypeOK, Known, Shape, Balanced, One, Execs, Methods
  <1>2. ((lua = "crashed") = (srv = "crashed"))'
    BY DEF IInv, TypeOK
  <1>3. ASSUME NEW u \in Tasks PROVE Known(u)'
    <2>1. Shape(u)'
      BY DEF IInv, TypeOK, Known, Shape, Execs, Methods
    <2>2. Balanced(u)'
      BY DEF IInv, TypeOK, Known, Shape, Balanced, One, Execs, Methods
    <2>3. Kept(u)'
      BY DEF IInv, TypeOK, Known, Shape, Balanced, Kept, Holders, One, Execs, Methods
    <2>4. u \notin early' => Safe(u)'
      BY DEF IInv, TypeOK, Known, Shape, Kept, Holders, Safe, One, Execs, Methods
    <2> QED
      BY <2>1, <2>2, <2>3, <2>4 DEF Known
  <1> QED
    BY <1>1, <1>2, <1>3 DEF IInv

LEMMA LookReturnStep ==
    ASSUME IInv, LookReturn
    PROVE  IInv'
  <1>0. ltask \in Tasks /\ refs[ltask] >= 1
    <2>1. ltask \in Tasks /\ handle[ltask]
      BY DEF LookReturn, IInv, TypeOK, Known, Shape, Methods
    <2> QED
      BY <2>1 DEF LookReturn, IInv, TypeOK, Known, Shape, Balanced, One, Execs, Methods
  <1>1. TypeOK'
    <2>1. RemoveRef(ltask) /\ TypeOK
      BY DEF LookReturn, LuaGoes, Use, IInv
    <2> QED
      BY <1>0, <2>1, RemoveRefType
         DEF LookReturn, LuaGoes, Use, TypeOK, objVars, taskVars, luaVars,
             srvVars, history
  <1> USE DEF LookReturn, LuaGoes, Use, RemoveRef, Delete, objVars, taskVars,
              luaVars, srvVars, history
  <1>2. ((lua = "crashed") = (srv = "crashed"))'
    BY DEF IInv, TypeOK
  <1>3. ASSUME NEW u \in Tasks PROVE Known(u)'
    <2>1. Shape(u)'
      BY DEF IInv, TypeOK, Known, Shape, Execs, Methods
    <2>2. Balanced(u)'
      BY DEF IInv, TypeOK, Known, Shape, Balanced, One, Execs, Methods
    <2>3. Kept(u)'
      BY DEF IInv, TypeOK, Known, Shape, Balanced, Kept, Holders, One, Execs, Methods
    <2>4. u \notin early' => Safe(u)'
      BY DEF IInv, TypeOK, Known, Shape, Kept, Holders, Safe, One, Execs, Methods
    <2> QED
      BY <2>1, <2>2, <2>3, <2>4 DEF Known
  <1> QED
    BY <1>1, <1>2, <1>3 DEF IInv

LEMMA KillStep ==
    ASSUME IInv, NEW t \in Tasks, Kill(t)
    PROVE  IInv'
  <1> USE DEF Kill, LuaGoes, Use, objVars, taskVars, luaVars, srvVars, history
  <1>1. TypeOK'
    BY DEF IInv, TypeOK, Known, Shape, Balanced, One, Execs, Methods
  <1>2. ((lua = "crashed") = (srv = "crashed"))'
    BY DEF IInv, TypeOK
  <1>3. ASSUME NEW u \in Tasks PROVE Known(u)'
    <2>1. Shape(u)'
      BY DEF IInv, TypeOK, Known, Shape, Execs, Methods
    <2>2. Balanced(u)'
      BY DEF IInv, TypeOK, Known, Shape, Balanced, One, Execs, Methods
    <2>3. Kept(u)'
      BY DEF IInv, TypeOK, Known, Shape, Balanced, Kept, Holders, One, Execs, Methods
    <2>4. u \notin early' => Safe(u)'
      BY DEF IInv, TypeOK, Known, Shape, Kept, Holders, Safe, One, Execs, Methods
    <2> QED
      BY <2>1, <2>2, <2>3, <2>4 DEF Known
  <1> QED
    BY <1>1, <1>2, <1>3 DEF IInv

LEMMA KillSeizeStep ==
    ASSUME IInv, KillSeize
    PROVE  IInv'
  <1> USE DEF KillSeize, LuaGoes, Use, objVars, taskVars, luaVars, srvVars, history
  <1>1. TypeOK'
    BY DEF IInv, TypeOK, Known, Shape, Balanced, One, Execs, Methods
  <1>2. ((lua = "crashed") = (srv = "crashed"))'
    BY DEF IInv, TypeOK
  <1>3. ASSUME NEW u \in Tasks PROVE Known(u)'
    <2>1. Shape(u)'
      BY DEF IInv, TypeOK, Known, Shape, Execs, Methods
    <2>2. Balanced(u)'
      BY DEF IInv, TypeOK, Known, Shape, Balanced, One, Execs, Methods
    <2>3. Kept(u)'
      BY DEF IInv, TypeOK, Known, Shape, Balanced, Kept, Holders, One, Execs, Methods
    <2>4. u \notin early' => Safe(u)'
      BY DEF IInv, TypeOK, Known, Shape, Kept, Holders, Safe, One, Execs, Methods
    <2> QED
      BY <2>1, <2>2, <2>3, <2>4 DEF Known
  <1> QED
    BY <1>1, <1>2, <1>3 DEF IInv

LEMMA KillFreeStep ==
    ASSUME IInv, KillFree
    PROVE  IInv'
  <1> USE DEF KillFree, LuaGoes, Use, Terminate, objVars, taskVars, luaVars, srvVars,
              history
  <1>1. TypeOK'
    BY DEF IInv, TypeOK, Known, Shape, Balanced, One, Execs, Methods
  <1>2. ((lua = "crashed") = (srv = "crashed"))'
    BY DEF IInv, TypeOK
  <1>3. ASSUME NEW u \in Tasks PROVE Known(u)'
    <2>1. Shape(u)'
      BY DEF IInv, TypeOK, Known, Shape, Execs, Methods
    <2>2. Balanced(u)'
      BY DEF IInv, TypeOK, Known, Shape, Balanced, One, Execs, Methods
    <2>3. Kept(u)'
      BY DEF IInv, TypeOK, Known, Shape, Balanced, Kept, Holders, One, Execs, Methods
    <2>4. u \notin early' => Safe(u)'
      BY DEF IInv, TypeOK, Known, Shape, Kept, Holders, Safe, One, Execs, Methods
    <2> QED
      BY <2>1, <2>2, <2>3, <2>4 DEF Known
  <1> QED
    BY <1>1, <1>2, <1>3 DEF IInv

LEMMA KillReturnStep ==
    ASSUME IInv, KillReturn
    PROVE  IInv'
  <1>0. ltask \in Tasks /\ refs[ltask] >= 1
    <2>1. ltask \in Tasks /\ handle[ltask]
      BY DEF KillReturn, IInv, TypeOK, Known, Shape, Methods
    <2> QED
      BY <2>1 DEF KillReturn, IInv, TypeOK, Known, Shape, Balanced, One, Execs, Methods
  <1>1. TypeOK'
    <2>1. RemoveRef(ltask) /\ TypeOK
      BY DEF KillReturn, Release, LuaGoes, Use, IInv
    <2> QED
      BY <1>0, <2>1, RemoveRefType
         DEF KillReturn, Release, LuaGoes, Use, TypeOK, objVars, taskVars, luaVars,
             srvVars, history
  <1> USE DEF KillReturn, LuaGoes, Use, Release, RemoveRef, Delete, objVars, taskVars,
              luaVars, srvVars, history
  <1>2. ((lua = "crashed") = (srv = "crashed"))'
    BY DEF IInv, TypeOK
  <1>3. ASSUME NEW u \in Tasks PROVE Known(u)'
    <2>1. Shape(u)'
      BY DEF IInv, TypeOK, Known, Shape, Execs, Methods
    <2>2. Balanced(u)'
      BY DEF IInv, TypeOK, Known, Shape, Balanced, One, Execs, Methods
    <2>3. Kept(u)'
      BY DEF IInv, TypeOK, Known, Shape, Balanced, Kept, Holders, One, Execs, Methods
    <2>4. u \notin early' => Safe(u)'
      BY DEF IInv, TypeOK, Known, Shape, Kept, Holders, Safe, One, Execs, Methods
    <2> QED
      BY <2>1, <2>2, <2>3, <2>4 DEF Known
  <1> QED
    BY <1>1, <1>2, <1>3 DEF IInv

LEMMA WaitStep ==
    ASSUME IInv, NEW t \in Tasks, Wait(t)
    PROVE  IInv'
  <1> USE DEF Wait, LuaGoes, objVars, taskVars, luaVars, srvVars, history
  <1>1. TypeOK'
    BY DEF IInv, TypeOK, Known, Shape, Balanced, One, Execs, Methods
  <1>2. ((lua = "crashed") = (srv = "crashed"))'
    BY DEF IInv, TypeOK
  <1>3. ASSUME NEW u \in Tasks PROVE Known(u)'
    <2>1. Shape(u)'
      BY DEF IInv, TypeOK, Known, Shape, Execs, Methods
    <2>2. Balanced(u)'
      BY DEF IInv, TypeOK, Known, Shape, Balanced, One, Execs, Methods
    <2>3. Kept(u)'
      BY DEF IInv, TypeOK, Known, Shape, Balanced, Kept, Holders, One, Execs, Methods
    <2>4. u \notin early' => Safe(u)'
      BY DEF IInv, TypeOK, Known, Shape, Kept, Holders, Safe, One, Execs, Methods
    <2> QED
      BY <2>1, <2>2, <2>3, <2>4 DEF Known
  <1> QED
    BY <1>1, <1>2, <1>3 DEF IInv

LEMMA WaitReturnStep ==
    ASSUME IInv, WaitReturn
    PROVE  IInv'
  <1>0. ltask \in Tasks /\ refs[ltask] >= 1
    <2>1. ltask \in Tasks /\ handle[ltask]
      BY DEF WaitReturn, IInv, TypeOK, Known, Shape, Methods
    <2> QED
      BY <2>1 DEF WaitReturn, IInv, TypeOK, Known, Shape, Balanced, One, Execs, Methods
  <1>1. TypeOK'
    <2>1. RemoveRef(ltask) /\ TypeOK
      BY DEF WaitReturn, Release, LuaGoes, Use, IInv
    <2> QED
      BY <1>0, <2>1, RemoveRefType
         DEF WaitReturn, Release, LuaGoes, Use, TypeOK, objVars, taskVars, luaVars,
             srvVars, history
  <1> USE DEF WaitReturn, LuaGoes, Use, Release, RemoveRef, Delete, objVars, taskVars,
              luaVars, srvVars, history
  <1>2. ((lua = "crashed") = (srv = "crashed"))'
    BY DEF IInv, TypeOK
  <1>3. ASSUME NEW u \in Tasks PROVE Known(u)'
    <2>1. Shape(u)'
      BY DEF IInv, TypeOK, Known, Shape, Execs, Methods
    <2>2. Balanced(u)'
      BY DEF IInv, TypeOK, Known, Shape, Balanced, One, Execs, Methods
    <2>3. Kept(u)'
      BY DEF IInv, TypeOK, Known, Shape, Balanced, Kept, Holders, One, Execs, Methods
    <2>4. u \notin early' => Safe(u)'
      BY DEF IInv, TypeOK, Known, Shape, Kept, Holders, Safe, One, Execs, Methods
    <2> QED
      BY <2>1, <2>2, <2>3, <2>4 DEF Known
  <1> QED
    BY <1>1, <1>2, <1>3 DEF IInv

LEMMA ExitStep ==
    ASSUME IInv, NEW t \in Tasks, Exit(t)
    PROVE  IInv'
  <1> USE DEF Exit, objVars, taskVars, luaVars, srvVars, history
  <1>1. TypeOK'
    BY DEF IInv, TypeOK, Known, Shape, Balanced, One, Execs, Methods
  <1>2. ((lua = "crashed") = (srv = "crashed"))'
    BY DEF IInv, TypeOK
  <1>3. ASSUME NEW u \in Tasks PROVE Known(u)'
    <2>1. Shape(u)'
      BY DEF IInv, TypeOK, Known, Shape, Execs, Methods
    <2>2. Balanced(u)'
      BY DEF IInv, TypeOK, Known, Shape, Balanced, One, Execs, Methods
    <2>3. Kept(u)'
      BY DEF IInv, TypeOK, Known, Shape, Balanced, Kept, Holders, One, Execs, Methods
    <2>4. u \notin early' => Safe(u)'
      BY DEF IInv, TypeOK, Known, Shape, Kept, Holders, Safe, One, Execs, Methods
    <2> QED
      BY <2>1, <2>2, <2>3, <2>4 DEF Known
  <1> QED
    BY <1>1, <1>2, <1>3 DEF IInv

LEMMA ObserveStep ==
    ASSUME IInv, Observe
    PROVE  IInv'
  <1>0. ltask \in Tasks /\ TypeOK
    BY DEF Observe, IInv, TypeOK
  <1>1. TypeOK'
    <2>1. observer' \in [Tasks -> BOOLEAN]
      BY <1>0 DEF Observe, TypeOK
    <2>2. lua' \in {"woken", "waiting"} /\ ltask' = ltask
      BY DEF Observe, LuaGoes
    <2>3. misused' \subseteq {"lua", "srv", "notify"} \X Tasks
      BY <1>0 DEF Observe, Use, TypeOK
    <2> QED
      BY <1>0, <2>1, <2>2, <2>3 DEF Observe, TypeOK, taskVars, srvVars, history
  <1> USE DEF Observe, LuaGoes, Use, objVars, taskVars, luaVars, srvVars, history
  <1>2. ((lua = "crashed") = (srv = "crashed"))'
    BY DEF IInv, TypeOK
  <1>3. ASSUME NEW u \in Tasks PROVE Known(u)'
    <2>1. Shape(u)'
      BY DEF IInv, TypeOK, Known, Shape, Execs, Methods
    <2>2. Balanced(u)'
      BY DEF IInv, TypeOK, Known, Shape, Balanced, One, Execs, Methods
    <2>3. Kept(u)'
      BY DEF IInv, TypeOK, Known, Shape, Balanced, Kept, Holders, One, Execs, Methods
    <2>4. u \notin early' => Safe(u)'
      BY DEF IInv, TypeOK, Known, Shape, Kept, Holders, Safe, One, Execs, Methods
    <2> QED
      BY <2>1, <2>2, <2>3, <2>4 DEF Known
  <1> QED
    BY <1>1, <1>2, <1>3 DEF IInv

LEMMA SignalStep ==
    ASSUME IInv, NEW t \in Tasks, Signal(t)
    PROVE  IInv'
  <1> USE DEF Signal, SrvGoes, objVars, taskVars, luaVars, srvVars, history
  <1>1. TypeOK'
    BY DEF IInv, TypeOK, Known, Shape, Balanced, One, Execs, Methods
  <1>2. ((lua = "crashed") = (srv = "crashed"))'
    BY DEF IInv, TypeOK
  <1>3. ASSUME NEW u \in Tasks PROVE Known(u)'
    <2>1. Shape(u)'
      BY DEF IInv, TypeOK, Known, Shape, Execs, Methods
    <2>2. Balanced(u)'
      BY DEF IInv, TypeOK, Known, Shape, Balanced, One, Execs, Methods
    <2>3. Kept(u)'
      BY DEF IInv, TypeOK, Known, Shape, Balanced, Kept, Holders, One, Execs, Methods
    <2>4. u \notin early' => Safe(u)'
      BY DEF IInv, TypeOK, Known, Shape, Kept, Holders, Safe, One, Execs, Methods
    <2> QED
      BY <2>1, <2>2, <2>3, <2>4 DEF Known
  <1> QED
    BY <1>1, <1>2, <1>3 DEF IInv

LEMMA SignalCodeStep ==
    ASSUME IInv, SignalCode
    PROVE  IInv'
  <1> USE DEF SignalCode, SrvGoes, Use, objVars, taskVars, luaVars, srvVars, history
  <1>1. TypeOK'
    BY DEF IInv, TypeOK, Known, Shape, Balanced, One, Execs, Methods
  <1>2. ((lua = "crashed") = (srv = "crashed"))'
    BY DEF IInv, TypeOK
  <1>3. ASSUME NEW u \in Tasks PROVE Known(u)'
    <2>1. Shape(u)'
      BY DEF IInv, TypeOK, Known, Shape, Execs, Methods
    <2>2. Balanced(u)'
      BY DEF IInv, TypeOK, Known, Shape, Balanced, One, Execs, Methods
    <2>3. Kept(u)'
      BY DEF IInv, TypeOK, Known, Shape, Balanced, Kept, Holders, One, Execs, Methods
    <2>4. u \notin early' => Safe(u)'
      BY DEF IInv, TypeOK, Known, Shape, Kept, Holders, Safe, One, Execs, Methods
    <2> QED
      BY <2>1, <2>2, <2>3, <2>4 DEF Known
  <1> QED
    BY <1>1, <1>2, <1>3 DEF IInv

LEMMA SignalSeizeStep ==
    ASSUME IInv, SignalSeize
    PROVE  IInv'
  <1> USE DEF SignalSeize, SrvGoes, Use, objVars, taskVars, luaVars, srvVars, history
  <1>1. TypeOK'
    BY DEF IInv, TypeOK, Known, Shape, Balanced, One, Execs, Methods
  <1>2. ((lua = "crashed") = (srv = "crashed"))'
    BY DEF IInv, TypeOK
  <1>3. ASSUME NEW u \in Tasks PROVE Known(u)'
    <2>1. Shape(u)'
      BY DEF IInv, TypeOK, Known, Shape, Execs, Methods
    <2>2. Balanced(u)'
      BY DEF IInv, TypeOK, Known, Shape, Balanced, One, Execs, Methods
    <2>3. Kept(u)'
      BY DEF IInv, TypeOK, Known, Shape, Balanced, Kept, Holders, One, Execs, Methods
    <2>4. u \notin early' => Safe(u)'
      BY DEF IInv, TypeOK, Known, Shape, Kept, Holders, Safe, One, Execs, Methods
    <2> QED
      BY <2>1, <2>2, <2>3, <2>4 DEF Known
  <1> QED
    BY <1>1, <1>2, <1>3 DEF IInv

LEMMA SignalFreeStep ==
    ASSUME IInv, SignalFree
    PROVE  IInv'
  <1> USE DEF SignalFree, SrvGoes, Use, Terminate, objVars, taskVars, luaVars, srvVars,
              history
  <1>1. TypeOK'
    BY DEF IInv, TypeOK, Known, Shape, Balanced, One, Execs, Methods
  <1>2. ((lua = "crashed") = (srv = "crashed"))'
    BY DEF IInv, TypeOK
  <1>3. ASSUME NEW u \in Tasks PROVE Known(u)'
    <2>1. Shape(u)'
      BY DEF IInv, TypeOK, Known, Shape, Execs, Methods
    <2>2. Balanced(u)'
      BY DEF IInv, TypeOK, Known, Shape, Balanced, One, Execs, Methods
    <2>3. Kept(u)'
      BY DEF IInv, TypeOK, Known, Shape, Balanced, Kept, Holders, One, Execs, Methods
    <2>4. u \notin early' => Safe(u)'
      BY DEF IInv, TypeOK, Known, Shape, Kept, Holders, Safe, One, Execs, Methods
    <2> QED
      BY <2>1, <2>2, <2>3, <2>4 DEF Known
  <1> QED
    BY <1>1, <1>2, <1>3 DEF IInv

LEMMA SignalKickStep ==
    ASSUME IInv, SignalKick
    PROVE  IInv'
  <1>0. stask \in Tasks /\ refs[stask] >= 1
    <2>1. stask \in Tasks /\ stask \notin kicked /\ lua # "crashed"
      BY DEF SignalKick, IInv, TypeOK, Known, Shape
    <2> QED
      BY <2>1 DEF IInv, TypeOK, Known, Shape, Balanced, One, Execs
  <1>1. TypeOK'
    <2>1. RemoveRef(stask) /\ TypeOK
      BY DEF SignalKick, IInv
    <2> QED
      BY <1>0, <2>1, RemoveRefType
         DEF SignalKick, SrvGoes, Use, TypeOK, objVars, taskVars, luaVars, srvVars, history
  <1> USE DEF SignalKick, SrvGoes, Use, RemoveRef, Delete, objVars, taskVars, luaVars,
              srvVars, history
  <1>2. ((lua = "crashed") = (srv = "crashed"))'
    BY DEF IInv, TypeOK
  <1>3. ASSUME NEW u \in Tasks PROVE Known(u)'
    <2>1. Shape(u)'
      BY DEF IInv, TypeOK, Known, Shape, Execs, Methods
    <2>2. Balanced(u)'
      BY DEF IInv, TypeOK, Known, Shape, Balanced, One, Execs, Methods
    <2>3. Kept(u)'
      BY DEF IInv, TypeOK, Known, Shape, Balanced, Kept, Holders, One, Execs, Methods
    <2>4. u \notin early' => Safe(u)'
      BY DEF IInv, TypeOK, Known, Shape, Kept, Holders, Safe, One, Execs, Methods
    <2> QED
      BY <2>1, <2>2, <2>3, <2>4 DEF Known
  <1> QED
    BY <1>1, <1>2, <1>3 DEF IInv

LEMMA SignalNotifyStep ==
    ASSUME IInv, SignalNotify
    PROVE  IInv'
  <1> USE DEF SignalNotify, SrvGoes, Use, LuaGoes, objVars, taskVars, luaVars, srvVars,
              history
  <1>1. TypeOK'
    BY DEF IInv, TypeOK, Known, Shape, Balanced, One, Execs, Methods
  <1>2. ((lua = "crashed") = (srv = "crashed"))'
    BY DEF IInv, TypeOK
  <1>3. ASSUME NEW u \in Tasks PROVE Known(u)'
    <2>1. Shape(u)'
      BY DEF IInv, TypeOK, Known, Shape, Execs, Methods
    <2>2. Balanced(u)'
      BY DEF IInv, TypeOK, Known, Shape, Balanced, One, Execs, Methods
    <2>3. Kept(u)'
      BY DEF IInv, TypeOK, Known, Shape, Balanced, Kept, Holders, One, Execs, Methods
    <2>4. u \notin early' => Safe(u)'
      BY DEF IInv, TypeOK, Known, Shape, Kept, Holders, Safe, One, Execs, Methods
    <2> QED
      BY <2>1, <2>2, <2>3, <2>4 DEF Known
  <1> QED
    BY <1>1, <1>2, <1>3 DEF IInv

LEMMA CrashStep ==
    ASSUME IInv, Crash
    PROVE  IInv'
  <1> USE DEF Crash, SrvGoes, LuaGoes, objVars, taskVars, luaVars, srvVars, history
  <1>1. TypeOK'
    BY DEF IInv, TypeOK, Known, Shape, Balanced, One, Execs, Methods
  <1>2. ((lua = "crashed") = (srv = "crashed"))'
    BY DEF IInv, TypeOK
  <1>3. ASSUME NEW u \in Tasks PROVE Known(u)'
    <2>1. Shape(u)'
      BY DEF IInv, TypeOK, Known, Shape, Execs, Methods
    <2>2. Balanced(u)'
      BY DEF IInv, TypeOK, Known, Shape, Balanced, One, Execs, Methods
    <2>3. Kept(u)'
      BY DEF IInv, TypeOK, Known, Shape, Balanced, Kept, Holders, One, Execs, Methods
    <2>4. u \notin early' => Safe(u)'
      BY DEF IInv, TypeOK, Known, Shape, Kept, Holders, Safe, One, Execs, Methods
    <2> QED
      BY <2>1, <2>2, <2>3, <2>4 DEF Known
  <1> QED
    BY <1>1, <1>2, <1>3 DEF IInv

-----------------------------------------------------------------------------
(* The invariant, and what follows from it. *)

LEMMA IInvInit == Init => IInv
  <1> SUFFICES ASSUME Init PROVE IInv
    OBVIOUS
  <1>1. TypeOK
    BY DEF Init, TypeOK
  <1>2. ASSUME NEW t \in Tasks PROVE Known(t)
    BY DEF Init, Known, Shape, Balanced, Kept, Safe, Holders, One, Execs, Methods
  <1>3. (lua = "crashed") = (srv = "crashed")
    BY DEF Init
  <1> QED
    BY <1>1, <1>2, <1>3 DEF IInv

LEMMA IInvStep == IInv /\ [Next]_vars => IInv'
  <1> SUFFICES ASSUME IInv, [Next]_vars PROVE IInv'
    OBVIOUS
  <1>1. CASE LuaStep
    BY <1>1, ExecLaunchStep, ExecRunningStep, ExecPublishStep, KillSeizeStep, KillFreeStep,
       KillReturnStep, LookReturnStep, WaitReturnStep DEF LuaStep
  <1>2. CASE SrvStep
    BY <1>2, ObserveStep, SignalStep, SignalCodeStep, SignalSeizeStep, SignalFreeStep,
       SignalKickStep, SignalNotifyStep DEF SrvStep
  <1>3. ASSUME NEW t \in Tasks, ExecNew(t) \/ Drop(t) \/ Look(t) \/ Kill(t) \/ Wait(t) \/ Exit(t)
        PROVE  IInv'
    BY <1>3, ExecNewStep, DropStep, LookStep, KillStep, WaitStep, ExitStep
  <1>4. CASE UNCHANGED vars
    <2>1. TypeOK'
      BY <1>4 DEF IInv, TypeOK, vars
    <2>2. ASSUME NEW t \in Tasks PROVE Known(t)'
      BY <1>4 DEF IInv, Known, Shape, Balanced, Kept, Safe, Holders, One, vars
    <2> QED
      BY <1>4, <2>1, <2>2 DEF IInv, vars
  <1> QED
    BY <1>1, <1>2, <1>3, <1>4, CrashStep DEF Next

LEMMA IInvHolds == Spec => []IInv
  BY IInvInit, IInvStep, PTL DEF Spec

\* The variables of the object, the task and both threads keep their types; in
\* particular no reference count becomes negative, early exit or not.
THEOREM TypeCorrect == Spec => []TypeOK
  <1>1. IInv => TypeOK
    BY DEF IInv
  <1> QED
    BY <1>1, IInvHolds, PTL

\* For any number of tasks, _ref_cnt counts the references to an App_task, which
\* is deleted with the last of them, unless the task exits before running().
THEOREM CountCorrect == Spec => []CountIsHolders
  <1>1. IInv => CountIsHolders
    <2> SUFFICES ASSUME IInv, NEW t \in Tasks, t \notin early, lua # "crashed"
                 PROVE  refs[t] = Holders(t) /\ (obj[t] = "live" <=> Holders(t) > 0)
      BY DEF CountIsHolders
    <2>1. t \in kicked => t \in took
      BY DEF IInv, Known, Shape
    <2>2. refs[t] = Holders(t)
      BY <2>1 DEF IInv, TypeOK, Known, Balanced, Holders, One, Execs
    <2> QED
      BY <2>2 DEF IInv, Known, Kept
  <1> QED
    BY <1>1, IInvHolds, PTL

\* For any number of tasks, neither the methods of a task nor its exit handler, up
\* to the point where it drops its reference, use a deleted App_task, unless the
\* task exits before running().
THEOREM ObjectsProtected == Spec => []Protected
  <1>1. IInv => Protected
    BY DEF IInv, Known, Safe, Protected
  <1> QED
    BY <1>1, IInvHolds, PTL

-----------------------------------------------------------------------------
(* The capabilities, and what wait returns. *)

\* The capabilities of an object are in it or have been freed, and then the task is gone;
\* what a terminate() has seen is still so when it frees, because the other one has
\* not come in between.
Freed(t) ==
    t \notin early \cup overlap =>
        /\ obj[t] = "none" => frees[t] = 0
        /\ obj[t] # "none" => /\ frees[t] = One(~caps[t])
                              /\ ~caps[t] => proc[t] = "gone"
        /\ obj[t] = "deleted" => ~caps[t]
        /\ ltask = t /\ lua = "launch" => caps[t]
        /\ ltask = t /\ lua = "free" => lcaps = caps[t] /\ stask # t
        /\ stask = t /\ srv = "free" => scaps = caps[t]

\* The Lua thread observes the task that it waits for.  A task is a zombie from its exit
\* signal on, and has its exit code unless the handler is just about to set it; the Lua
\* thread is woken only then.
Waited(t) ==
    /\ observer[t] => lua = "crashed" \/ (lua = "waiting" /\ ltask = t)
    /\ t \notin early =>
           /\ stask = t => state[t] = "Zombie"
           /\ state[t] = "Zombie" =>
                  /\ t \in took /\ proc[t] \in {"exiting", "gone"}
                  /\ exitCode[t] = code[t] \/ (srv = "code" /\ stask = t) \/ srv = "crashed"
           /\ ltask = t /\ lua = "woken" => state[t] = "Zombie" /\ exitCode[t] = code[t]
           /\ result[1] = t => state[t] = "Zombie" /\ result[2] = code[t]

JInv == IInv /\ \A t \in Tasks : Freed(t) /\ Waited(t)

LEMMA ExecNewFrees ==
    ASSUME JInv, IInv', NEW t \in Tasks, ExecNew(t), NEW u \in Tasks
    PROVE  Freed(u)' /\ Waited(u)'
  <1> USE DEF ExecNew, LuaGoes, objVars, taskVars, luaVars, srvVars, history
  <1>1. TypeOK /\ Known(u) /\ Known(u)' /\ Freed(u) /\ Waited(u)
    BY DEF JInv, IInv
  <1>2. Freed(u)'
    BY <1>1 DEF TypeOK, Known, Shape, Balanced, Kept, Holders, One, Freed, Execs, Methods
  <1>3. Waited(u)'
    BY <1>1 DEF JInv, IInv, TypeOK, Known, Shape, Waited, Execs, Methods
  <1> QED
    BY <1>2, <1>3

LEMMA ExecLaunchFrees ==
    ASSUME JInv, IInv', ExecLaunch, NEW u \in Tasks
    PROVE  Freed(u)' /\ Waited(u)'
  <1> USE DEF ExecLaunch, LuaGoes, RemoveRef, Delete, objVars, taskVars, luaVars, srvVars, history
  <1>1. TypeOK /\ Known(u) /\ Known(u)' /\ Freed(u) /\ Waited(u)
    BY DEF JInv, IInv
  <1>2. Freed(u)'
    BY <1>1 DEF TypeOK, Known, Shape, Balanced, Kept, Holders, One, Freed, Execs, Methods
  <1>3. Waited(u)'
    BY <1>1 DEF JInv, IInv, TypeOK, Known, Shape, Waited, Execs, Methods
  <1> QED
    BY <1>2, <1>3

LEMMA ExecRunningFrees ==
    ASSUME JInv, IInv', ExecRunning, NEW u \in Tasks
    PROVE  Freed(u)' /\ Waited(u)'
  <1> USE DEF ExecRunning, LuaGoes, objVars, taskVars, luaVars, srvVars, history
  <1>1. TypeOK /\ Known(u) /\ Known(u)' /\ Freed(u) /\ Waited(u)
    BY DEF JInv, IInv
  <1>2. Freed(u)'
    BY <1>1 DEF TypeOK, Known, Shape, Balanced, Kept, Holders, One, Freed, Execs, Methods
  <1>3. Waited(u)'
    BY <1>1 DEF JInv, IInv, TypeOK, Known, Shape, Waited, Execs, Methods
  <1> QED
    BY <1>2, <1>3

LEMMA ExecPublishFrees ==
    ASSUME JInv, IInv', ExecPublish, NEW u \in Tasks
    PROVE  Freed(u)' /\ Waited(u)'
  <1> USE DEF ExecPublish, LuaGoes, objVars, taskVars, luaVars, srvVars, history
  <1>1. TypeOK /\ Known(u) /\ Known(u)' /\ Freed(u) /\ Waited(u)
    BY DEF JInv, IInv
  <1>2. Freed(u)'
    BY <1>1 DEF TypeOK, Known, Shape, Balanced, Kept, Holders, One, Freed, Execs, Methods
  <1>3. Waited(u)'
    BY <1>1 DEF JInv, IInv, TypeOK, Known, Shape, Waited, Execs, Methods
  <1> QED
    BY <1>2, <1>3

LEMMA DropFrees ==
    ASSUME JInv, IInv', NEW t \in Tasks, Drop(t), NEW u \in Tasks
    PROVE  Freed(u)' /\ Waited(u)'
  <1> USE DEF Drop, LuaGoes, Release, RemoveRef, Delete, objVars, taskVars, luaVars, srvVars, history
  <1>1. TypeOK /\ Known(u) /\ Known(u)' /\ Freed(u) /\ Waited(u)
    BY DEF JInv, IInv
  <1>2. Freed(u)'
    BY <1>1 DEF TypeOK, Known, Shape, Balanced, Kept, Holders, One, Freed, Execs, Methods
  <1>3. Waited(u)'
    BY <1>1 DEF JInv, IInv, TypeOK, Known, Shape, Waited, Execs, Methods
  <1> QED
    BY <1>2, <1>3

LEMMA LookFrees ==
    ASSUME JInv, IInv', NEW t \in Tasks, Look(t), NEW u \in Tasks
    PROVE  Freed(u)' /\ Waited(u)'
  <1> USE DEF Look, LuaGoes, objVars, taskVars, luaVars, srvVars, history
  <1>1. TypeOK /\ Known(u) /\ Known(u)' /\ Freed(u) /\ Waited(u)
    BY DEF JInv, IInv
  <1>2. Freed(u)'
    BY <1>1 DEF TypeOK, Known, Shape, Balanced, Kept, Holders, One, Freed, Execs, Methods
  <1>3. Waited(u)'
    BY <1>1 DEF JInv, IInv, TypeOK, Known, Shape, Waited, Execs, Methods
  <1> QED
    BY <1>2, <1>3

LEMMA LookReturnFrees ==
    ASSUME JInv, IInv', LookReturn, NEW u \in Tasks
    PROVE  Freed(u)' /\ Waited(u)'
  <1> USE DEF LookReturn, LuaGoes, RemoveRef, Delete, objVars, taskVars, luaVars, srvVars, history
  <1>1. TypeOK /\ Known(u) /\ Known(u)' /\ Freed(u) /\ Waited(u)
    BY DEF JInv, IInv
  <1>2. Freed(u)'
    BY <1>1 DEF TypeOK, Known, Shape, Balanced, Kept, Holders, One, Freed, Execs, Methods
  <1>3. Waited(u)'
    BY <1>1 DEF JInv, IInv, TypeOK, Known, Shape, Waited, Execs, Methods
  <1> QED
    BY <1>2, <1>3

LEMMA KillFrees ==
    ASSUME JInv, IInv', NEW t \in Tasks, Kill(t), NEW u \in Tasks
    PROVE  Freed(u)' /\ Waited(u)'
  <1> USE DEF Kill, LuaGoes, objVars, taskVars, luaVars, srvVars, history
  <1>1. TypeOK /\ Known(u) /\ Known(u)' /\ Freed(u) /\ Waited(u)
    BY DEF JInv, IInv
  <1>2. Freed(u)'
    BY <1>1 DEF TypeOK, Known, Shape, Balanced, Kept, Holders, One, Freed, Execs, Methods
  <1>3. Waited(u)'
    BY <1>1 DEF JInv, IInv, TypeOK, Known, Shape, Waited, Execs, Methods
  <1> QED
    BY <1>2, <1>3

LEMMA KillSeizeFrees ==
    ASSUME JInv, IInv', KillSeize, NEW u \in Tasks
    PROVE  Freed(u)' /\ Waited(u)'
  <1> USE DEF KillSeize, LuaGoes, objVars, taskVars, luaVars, srvVars, history
  <1>1. TypeOK /\ Known(u) /\ Known(u)' /\ Freed(u) /\ Waited(u)
    BY DEF JInv, IInv
  <1>2. Freed(u)'
    BY <1>1 DEF TypeOK, Known, Shape, Balanced, Kept, Holders, One, Freed, Execs, Methods
  <1>3. Waited(u)'
    BY <1>1 DEF JInv, IInv, TypeOK, Known, Shape, Waited, Execs, Methods
  <1> QED
    BY <1>2, <1>3

LEMMA KillFreeFrees ==
    ASSUME JInv, IInv', KillFree, NEW u \in Tasks
    PROVE  Freed(u)' /\ Waited(u)'
  <1>1. TypeOK /\ Known(u) /\ Known(u)' /\ Freed(u) /\ Waited(u)
    BY DEF JInv, IInv
  <1>2. Freed(u)'
    <2> SUFFICES ASSUME u \notin early \cup overlap PROVE Freed(u)'
      BY DEF KillFree, history, Freed
    <2>1. /\ UNCHANGED <<obj, lcaps, scaps, early, overlap>>
          /\ UNCHANGED <<srv, stask>>
          /\ caps' = [caps EXCEPT ![ltask] = FALSE]
          /\ frees' = [frees EXCEPT ![ltask] = IF lcaps THEN @ + 1 ELSE @]
          /\ proc' = [proc EXCEPT ![ltask] = IF lcaps THEN "gone" ELSE @]
      BY DEF KillFree, LuaGoes, Terminate, luaVars, srvVars, history
    <2>2. CASE ltask = u
      <3>1. obj[u] # "none" /\ lcaps = caps[u] /\ stask # u
        BY <1>1, <2>2 DEF KillFree, Known, Shape, Freed, Methods
      <3>2. frees[u] = One(~caps[u]) /\ (~caps[u] => proc[u] = "gone")
        BY <1>1, <3>1 DEF Freed
      <3>3. caps'[u] = FALSE /\ frees'[u] = 1 /\ proc'[u] = "gone"
        BY <1>1, <2>1, <2>2, <3>1, <3>2 DEF TypeOK, One
      <3> QED
        BY <1>1, <2>1, <2>2, <3>1, <3>3 DEF KillFree, LuaGoes, Freed, One
    <2>3. CASE ltask # u
      <3>1. UNCHANGED <<caps[u], frees[u], proc[u]>>
        BY <1>1, <2>1, <2>3 DEF TypeOK
      <3> QED
        BY <1>1, <2>1, <2>3, <3>1 DEF KillFree, LuaGoes, Freed, One
    <2> QED
      BY <2>2, <2>3
  <1> USE DEF KillFree, LuaGoes, Terminate, objVars, taskVars, luaVars, srvVars, history
  <1>3. Waited(u)'
    BY <1>1 DEF JInv, IInv, TypeOK, Known, Shape, Waited, Execs, Methods
  <1> QED
    BY <1>2, <1>3

LEMMA KillReturnFrees ==
    ASSUME JInv, IInv', KillReturn, NEW u \in Tasks
    PROVE  Freed(u)' /\ Waited(u)'
  <1> USE DEF KillReturn, LuaGoes, Release, RemoveRef, Delete, objVars, taskVars, luaVars, srvVars, history
  <1>1. TypeOK /\ Known(u) /\ Known(u)' /\ Freed(u) /\ Waited(u)
    BY DEF JInv, IInv
  <1>2. Freed(u)'
    BY <1>1 DEF TypeOK, Known, Shape, Balanced, Kept, Holders, One, Freed, Execs, Methods
  <1>3. Waited(u)'
    BY <1>1 DEF JInv, IInv, TypeOK, Known, Shape, Waited, Execs, Methods
  <1> QED
    BY <1>2, <1>3

LEMMA WaitFrees ==
    ASSUME JInv, IInv', NEW t \in Tasks, Wait(t), NEW u \in Tasks
    PROVE  Freed(u)' /\ Waited(u)'
  <1> USE DEF Wait, LuaGoes, objVars, taskVars, luaVars, srvVars, history
  <1>1. TypeOK /\ Known(u) /\ Known(u)' /\ Freed(u) /\ Waited(u)
    BY DEF JInv, IInv
  <1>2. Freed(u)'
    BY <1>1 DEF TypeOK, Known, Shape, Balanced, Kept, Holders, One, Freed, Execs, Methods
  <1>3. Waited(u)'
    BY <1>1 DEF JInv, IInv, TypeOK, Known, Shape, Waited, Execs, Methods
  <1> QED
    BY <1>2, <1>3

LEMMA WaitReturnFrees ==
    ASSUME JInv, IInv', WaitReturn, NEW u \in Tasks
    PROVE  Freed(u)' /\ Waited(u)'
  <1> USE DEF WaitReturn, LuaGoes, Release, RemoveRef, Delete, objVars, taskVars, luaVars, srvVars, history
  <1>1. TypeOK /\ Known(u) /\ Known(u)' /\ Freed(u) /\ Waited(u)
    BY DEF JInv, IInv
  <1>2. Freed(u)'
    BY <1>1 DEF TypeOK, Known, Shape, Balanced, Kept, Holders, One, Freed, Execs, Methods
  <1>3. Waited(u)'
    BY <1>1 DEF JInv, IInv, TypeOK, Known, Shape, Waited, Execs, Methods
  <1> QED
    BY <1>2, <1>3

LEMMA ExitFrees ==
    ASSUME JInv, IInv', NEW t \in Tasks, Exit(t), NEW u \in Tasks
    PROVE  Freed(u)' /\ Waited(u)'
  <1> USE DEF Exit, objVars, taskVars, luaVars, srvVars, history
  <1>1. TypeOK /\ Known(u) /\ Known(u)' /\ Freed(u) /\ Waited(u)
    BY DEF JInv, IInv
  <1>2. Freed(u)'
    BY <1>1 DEF TypeOK, Known, Shape, Balanced, Kept, Holders, One, Freed, Execs, Methods
  <1>3. Waited(u)'
    BY <1>1 DEF JInv, IInv, TypeOK, Known, Shape, Waited, Execs, Methods
  <1> QED
    BY <1>2, <1>3

LEMMA ObserveFrees ==
    ASSUME JInv, IInv', Observe, NEW u \in Tasks
    PROVE  Freed(u)' /\ Waited(u)'
  <1> USE DEF Observe, LuaGoes, objVars, taskVars, luaVars, srvVars, history
  <1>1. TypeOK /\ Known(u) /\ Known(u)' /\ Freed(u) /\ Waited(u)
    BY DEF JInv, IInv
  <1>2. Freed(u)'
    BY <1>1 DEF TypeOK, Known, Shape, Balanced, Kept, Holders, One, Freed, Execs, Methods
  <1>3. Waited(u)'
    BY <1>1 DEF JInv, IInv, TypeOK, Known, Shape, Waited, Execs, Methods
  <1> QED
    BY <1>2, <1>3

LEMMA SignalFrees ==
    ASSUME JInv, IInv', NEW t \in Tasks, Signal(t), NEW u \in Tasks
    PROVE  Freed(u)' /\ Waited(u)'
  <1> USE DEF Signal, SrvGoes, objVars, taskVars, luaVars, srvVars, history
  <1>1. TypeOK /\ Known(u) /\ Known(u)' /\ Freed(u) /\ Waited(u)
    BY DEF JInv, IInv
  <1>2. Freed(u)'
    BY <1>1 DEF TypeOK, Known, Shape, Balanced, Kept, Holders, One, Freed, Execs, Methods
  <1>3. Waited(u)'
    BY <1>1 DEF JInv, IInv, TypeOK, Known, Shape, Waited, Execs, Methods
  <1> QED
    BY <1>2, <1>3

LEMMA SignalCodeFrees ==
    ASSUME JInv, IInv', SignalCode, NEW u \in Tasks
    PROVE  Freed(u)' /\ Waited(u)'
  <1> USE DEF SignalCode, SrvGoes, objVars, taskVars, luaVars, srvVars, history
  <1>1. TypeOK /\ Known(u) /\ Known(u)' /\ Freed(u) /\ Waited(u)
    BY DEF JInv, IInv
  <1>2. Freed(u)'
    BY <1>1 DEF TypeOK, Known, Shape, Balanced, Kept, Holders, One, Freed, Execs, Methods
  <1>3. Waited(u)'
    BY <1>1 DEF JInv, IInv, TypeOK, Known, Shape, Waited, Execs, Methods
  <1> QED
    BY <1>2, <1>3

LEMMA SignalSeizeFrees ==
    ASSUME JInv, IInv', SignalSeize, NEW u \in Tasks
    PROVE  Freed(u)' /\ Waited(u)'
  <1> USE DEF SignalSeize, SrvGoes, objVars, taskVars, luaVars, srvVars, history
  <1>1. TypeOK /\ Known(u) /\ Known(u)' /\ Freed(u) /\ Waited(u)
    BY DEF JInv, IInv
  <1>2. Freed(u)'
    BY <1>1 DEF TypeOK, Known, Shape, Balanced, Kept, Holders, One, Freed, Execs, Methods
  <1>3. Waited(u)'
    BY <1>1 DEF JInv, IInv, TypeOK, Known, Shape, Waited, Execs, Methods
  <1> QED
    BY <1>2, <1>3

LEMMA SignalFreeFrees ==
    ASSUME JInv, IInv', SignalFree, NEW u \in Tasks
    PROVE  Freed(u)' /\ Waited(u)'
  <1>1. TypeOK /\ Known(u) /\ Known(u)' /\ Freed(u) /\ Waited(u)
    BY DEF JInv, IInv
  <1>2. Freed(u)'
    <2> SUFFICES ASSUME u \notin early \cup overlap PROVE Freed(u)'
      BY DEF SignalFree, history, Freed
    <2>1. /\ UNCHANGED <<obj, lcaps, scaps, early, overlap>>
          /\ UNCHANGED <<lua, ltask>>
          /\ caps' = [caps EXCEPT ![stask] = FALSE]
          /\ frees' = [frees EXCEPT ![stask] = IF scaps THEN @ + 1 ELSE @]
          /\ proc' = [proc EXCEPT ![stask] = IF scaps THEN "gone" ELSE @]
      BY DEF SignalFree, SrvGoes, Terminate, luaVars, srvVars, history
    <2>2. CASE stask = u
      <3>1. /\ obj[u] # "none" /\ scaps = caps[u]
            /\ ~(ltask = u /\ lua \in {"launch", "free"})
        BY <1>1, <2>2 DEF SignalFree, Known, Shape, Freed, Methods
      <3>2. frees[u] = One(~caps[u]) /\ (~caps[u] => proc[u] = "gone")
        BY <1>1, <3>1 DEF Freed
      <3>3. caps'[u] = FALSE /\ frees'[u] = 1 /\ proc'[u] = "gone"
        BY <1>1, <2>1, <2>2, <3>1, <3>2 DEF TypeOK, One
      <3> QED
        BY <1>1, <2>1, <2>2, <3>1, <3>3 DEF SignalFree, SrvGoes, Freed, One
    <2>3. CASE stask # u
      <3>1. UNCHANGED <<caps[u], frees[u], proc[u]>>
        BY <1>1, <2>1, <2>3 DEF TypeOK
      <3> QED
        BY <1>1, <2>1, <2>3, <3>1 DEF SignalFree, SrvGoes, Freed, One
    <2> QED
      BY <2>2, <2>3
  <1> USE DEF SignalFree, SrvGoes, Terminate, objVars, taskVars, luaVars, srvVars, history
  <1>3. Waited(u)'
    BY <1>1 DEF JInv, IInv, TypeOK, Known, Shape, Waited, Execs, Methods
  <1> QED
    BY <1>2, <1>3

LEMMA SignalKickFrees ==
    ASSUME JInv, IInv', SignalKick, NEW u \in Tasks
    PROVE  Freed(u)' /\ Waited(u)'
  <1> USE DEF SignalKick, SrvGoes, RemoveRef, Delete, objVars, taskVars, luaVars, srvVars, history
  <1>1. TypeOK /\ Known(u) /\ Known(u)' /\ Freed(u) /\ Waited(u)
    BY DEF JInv, IInv
  <1>2. Freed(u)'
    BY <1>1 DEF TypeOK, Known, Shape, Balanced, Kept, Holders, One, Freed, Execs, Methods
  <1>3. Waited(u)'
    BY <1>1 DEF JInv, IInv, TypeOK, Known, Shape, Waited, Execs, Methods
  <1> QED
    BY <1>2, <1>3

LEMMA SignalNotifyFrees ==
    ASSUME JInv, IInv', SignalNotify, NEW u \in Tasks
    PROVE  Freed(u)' /\ Waited(u)'
  <1> USE DEF SignalNotify, SrvGoes, LuaGoes, objVars, taskVars, luaVars, srvVars, history
  <1>1. TypeOK /\ Known(u) /\ Known(u)' /\ Freed(u) /\ Waited(u)
    BY DEF JInv, IInv
  <1>2. Freed(u)'
    BY <1>1 DEF TypeOK, Known, Shape, Balanced, Kept, Holders, One, Freed, Execs, Methods
  <1>3. Waited(u)'
    BY <1>1 DEF JInv, IInv, TypeOK, Known, Shape, Waited, Execs, Methods
  <1> QED
    BY <1>2, <1>3

LEMMA CrashFrees ==
    ASSUME JInv, IInv', Crash, NEW u \in Tasks
    PROVE  Freed(u)' /\ Waited(u)'
  <1> USE DEF Crash, SrvGoes, LuaGoes, objVars, taskVars, luaVars, srvVars, history
  <1>1. TypeOK /\ Known(u) /\ Known(u)' /\ Freed(u) /\ Waited(u)
    BY DEF JInv, IInv
  <1>2. Freed(u)'
    BY <1>1 DEF TypeOK, Known, Shape, Balanced, Kept, Holders, One, Freed, Execs, Methods
  <1>3. Waited(u)'
    BY <1>1 DEF JInv, IInv, TypeOK, Known, Shape, Waited, Execs, Methods
  <1> QED
    BY <1>2, <1>3

LEMMA JInvInit == Init => JInv
  <1> SUFFICES ASSUME Init PROVE JInv
    OBVIOUS
  <1>1. ASSUME NEW t \in Tasks PROVE Freed(t) /\ Waited(t)
    BY DEF Init, Freed, Waited
  <1> QED
    BY <1>1, IInvInit DEF JInv

LEMMA JInvStep == JInv /\ [Next]_vars => JInv'
  <1> SUFFICES ASSUME JInv, [Next]_vars PROVE JInv'
    OBVIOUS
  <1>1. IInv'
    BY IInvStep DEF JInv
  <1>2. ASSUME NEW u \in Tasks PROVE Freed(u)' /\ Waited(u)'
    <2>1. CASE LuaStep
      BY <1>1, <2>1, ExecLaunchFrees, ExecRunningFrees, ExecPublishFrees, KillSeizeFrees,
         KillFreeFrees, KillReturnFrees, LookReturnFrees, WaitReturnFrees DEF LuaStep
    <2>2. CASE SrvStep
      BY <1>1, <2>2, ObserveFrees, SignalFrees, SignalCodeFrees, SignalSeizeFrees,
         SignalFreeFrees, SignalKickFrees, SignalNotifyFrees DEF SrvStep
    <2>3. ASSUME NEW t \in Tasks, ExecNew(t) \/ Drop(t) \/ Look(t) \/ Kill(t) \/ Wait(t) \/ Exit(t)
          PROVE  Freed(u)' /\ Waited(u)'
      BY <1>1, <2>3, ExecNewFrees, DropFrees, LookFrees, KillFrees, WaitFrees, ExitFrees
    <2>4. CASE UNCHANGED vars
      BY <2>4 DEF JInv, Freed, Waited, One, vars
    <2> QED
      BY <1>1, <2>1, <2>2, <2>3, <2>4, CrashFrees DEF Next
  <1> QED
    BY <1>1, <1>2 DEF JInv

LEMMA JInvHolds == Spec => []JInv
  BY JInvInit, JInvStep, PTL DEF Spec

\* For any number of tasks, the capabilities of a task are freed exactly once before its
\* object is gone, and the task with them, by terminate() or by the destructor, unless the
\* task exits before running() or both threads run terminate() at the same time.
THEOREM CapabilitiesFreed == Spec => []CapsFreedOnce
  <1>1. JInv => CapsFreedOnce
    <2> SUFFICES ASSUME JInv, NEW t \in Tasks \ (early \cup overlap)
                 PROVE  frees[t] <= 1 /\ (obj[t] = "deleted" => frees[t] = 1 /\ proc[t] = "gone")
      BY DEF CapsFreedOnce
    <2>1. Freed(t) /\ t \notin early \cup overlap
      BY DEF JInv
    <2> QED
      BY <2>1 DEF Freed, One
  <1> QED
    BY <1>1, JInvHolds, PTL

\* For any number of tasks, wait returns the code that its task has exited with, whether the
\* exit signal comes before, during or after the call of the observer, unless the task
\* exits before running().
THEOREM WaitIsRight == Spec => []WaitReportsExit
  <1>1. JInv => WaitReportsExit
    BY DEF JInv, Waited, WaitReportsExit
  <1> QED
    BY <1>1, JInvHolds, PTL
=============================================================================
