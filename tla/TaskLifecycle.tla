--------------------------- MODULE TaskLifecycle ---------------------------
(***************************************************************************)
(* The life of the tasks that Ned starts.  Two threads of Ned share the    *)
(* App_task objects: the Lua thread, which runs exec, wait, kill and the   *)
(* garbage collector, and the server thread, which gets the exit signal of *)
(* a task and the requests to observe one.  Nothing but the reference      *)
(* count protects an object.                                               *)
(*                                                                         *)
(* The steps are the places where the other thread can come in between.  A *)
(* change of a reference count is one instruction, and one step.           *)
(***************************************************************************)
EXTENDS Integers, FiniteSets

CONSTANTS
    Tasks,      \* the tasks that are started, each once
    ExitCodes,  \* what tasks exit with
    Unset,      \* the value of _exit_code before it is set
    NoTask

ASSUME TasksAssumption == NoTask \notin Tasks /\ Unset \notin ExitCodes

VARIABLES
    \* an App_task
    obj,       \* "none", "live" or "deleted"
    refs,      \* _ref_cnt
    state,     \* _state
    exitCode,  \* _exit_code
    observer,  \* is the Lua thread its _observer
    caps,      \* does it hold its capabilities: _task, _thread, _rm, obj_cap()
    frees,     \* how often they were freed
    \* the task itself
    proc,      \* "none", "running", "exiting" or "gone"
    code,      \* what it exits with
    \* Ned's threads
    handle,    \* does Lua have a reference to the task
    lua,       \* where the Lua thread is
    ltask,     \* the task it works on
    lcaps,     \* has its terminate() seen valid capabilities
    result,    \* what the last wait returned, and for which task
    srv,       \* where the server thread is
    stask,     \* the task it works on
    scaps,     \* has its terminate() seen valid capabilities
    \* history
    early,     \* did the task exit before exec called running()
    overlap,   \* did kill() and the exit signal terminate the task together
    took,      \* has running() taken the capability's reference
    kicked,    \* has the exit signal dropped a reference
    leaked,    \* has a Lua error in exec left its reference behind
    misused    \* deleted objects that were used, and by whom

objVars  == <<obj, refs, state, exitCode, observer, caps, frees>>
taskVars == <<proc, code>>
luaVars  == <<handle, lua, ltask, lcaps, result>>
srvVars  == <<srv, stask, scaps>>
history  == <<early, overlap, took, kicked, leaked>>
vars == <<obj, refs, state, exitCode, observer, caps, frees, proc, code, handle, lua,
          ltask, lcaps, result, srv, stask, scaps, early, overlap, took, kicked,
          leaked, misused>>

Init ==
    /\ obj = [t \in Tasks |-> "none"]
    /\ refs = [t \in Tasks |-> 0]
    /\ state = [t \in Tasks |-> "Initializing"]
    /\ exitCode = [t \in Tasks |-> Unset]
    /\ observer = [t \in Tasks |-> FALSE]
    /\ caps = [t \in Tasks |-> FALSE]
    /\ frees = [t \in Tasks |-> 0]
    /\ proc = [t \in Tasks |-> "none"]
    /\ code = [t \in Tasks |-> Unset]
    /\ handle = [t \in Tasks |-> FALSE]
    /\ lua = "idle" /\ ltask = NoTask /\ lcaps = FALSE
    /\ result = <<NoTask, Unset>>
    /\ srv = "loop" /\ stask = NoTask /\ scaps = FALSE
    /\ early = {} /\ overlap = {} /\ took = {} /\ kicked = {} /\ leaked = {}
    /\ misused = {}

-----------------------------------------------------------------------------
(* The object. *)

\* The destructor: capabilities that are still held are freed.
Delete(t) ==
    /\ obj' = [obj EXCEPT ![t] = "deleted"]
    /\ frees' = [frees EXCEPT ![t] = IF caps[t] THEN @ + 1 ELSE @]
    /\ caps' = [caps EXCEPT ![t] = FALSE]
    /\ proc' = [proc EXCEPT ![t] = IF caps[t] THEN "gone" ELSE @]

\* remove_ref, and delete when there is no reference left.
RemoveRef(t) ==
    /\ refs' = [refs EXCEPT ![t] = @ - 1]
    /\ IF refs[t] = 1 THEN Delete(t) ELSE UNCHANGED <<obj, frees, caps, proc>>

\* Mutant of Terminate: the capabilities stay in the object.
TerminateKeeps(t, seen) ==
    /\ frees' = [frees EXCEPT ![t] = IF seen THEN @ + 1 ELSE @]
    /\ proc' = [proc EXCEPT ![t] = IF seen THEN "gone" ELSE @]
    /\ UNCHANGED caps

\* The end of terminate(): what was seen valid is freed, which ends the task.
Terminate(t, seen) ==
    /\ frees' = [frees EXCEPT ![t] = IF seen THEN @ + 1 ELSE @]
    /\ caps' = [caps EXCEPT ![t] = FALSE]
    /\ proc' = [proc EXCEPT ![t] = IF seen THEN "gone" ELSE @]

\* w uses object t, which should be there.
Use(w, t) == misused' = IF obj[t] = "deleted" THEN misused \cup {<<w, t>>} ELSE misused

LuaGoes(pc, t) == lua' = pc /\ ltask' = t

-----------------------------------------------------------------------------
(* The Lua thread: exec. *)

\* The object is made and registered; exec's app_task refers to it.
ExecNew(t) ==
    /\ lua = "idle" /\ obj[t] = "none"
    /\ obj' = [obj EXCEPT ![t] = "live"]
    /\ caps' = [caps EXCEPT ![t] = TRUE]
    /\ refs' = [refs EXCEPT ![t] = 1]
    /\ LuaGoes("launch", t)
    /\ UNCHANGED <<state, exitCode, observer, frees, taskVars, handle, lcaps, result,
                   srvVars, history, misused>>

\* The loader starts the task, or throws a Runtime_error, or a Lua error leaves
\* exec without running its destructors.
ExecLaunch ==
    /\ lua = "launch"
    /\ \/ /\ proc' = [proc EXCEPT ![ltask] = "running"]
          /\ LuaGoes("started", ltask)
          /\ UNCHANGED <<obj, refs, caps, frees, leaked>>
       \/ /\ RemoveRef(ltask)
          /\ LuaGoes("idle", NoTask)
          /\ UNCHANGED leaked
       \/ /\ leaked' = leaked \cup {ltask}
          /\ LuaGoes("idle", NoTask)
          /\ UNCHANGED <<obj, refs, caps, frees, proc>>
    /\ UNCHANGED <<state, exitCode, observer, code, handle, lcaps, result, srvVars,
                   early, overlap, took, kicked, misused>>

\* Mutant of ExecRunning: the capability's reference is not counted.
ExecRunningUncounted ==
    /\ lua = "started"
    /\ Use("lua", ltask)
    /\ state' = [state EXCEPT ![ltask] = "Running"]
    /\ took' = took \cup {ltask}
    /\ LuaGoes("publish", ltask)
    /\ UNCHANGED <<obj, refs, exitCode, observer, caps, frees, taskVars, handle, lcaps,
                   result, srvVars, early, overlap, kicked, leaked>>

\* running(): the capability counts as a reference.
ExecRunning ==
    /\ lua = "started"
    /\ Use("lua", ltask)
    /\ state' = [state EXCEPT ![ltask] = "Running"]
    /\ refs' = [refs EXCEPT ![ltask] = @ + 1]
    /\ took' = took \cup {ltask}
    /\ LuaGoes("publish", ltask)
    /\ UNCHANGED <<obj, exitCode, observer, caps, frees, taskVars, handle, lcaps,
                   result, srvVars, early, overlap, kicked, leaked>>

\* Lua gets a reference, exec's own one goes.
ExecPublish ==
    /\ lua = "publish"
    /\ Use("lua", ltask)
    /\ handle' = [handle EXCEPT ![ltask] = TRUE]
    /\ LuaGoes("idle", NoTask)
    /\ UNCHANGED <<objVars, taskVars, lcaps, result, srvVars, history>>

-----------------------------------------------------------------------------
(* The Lua thread: methods of a task, and the garbage collector. *)

\* Mutant of Release: the pointer to the object is not zeroed.
ReleaseKeeps(t) ==
    /\ RemoveRef(t)
    /\ LuaGoes("idle", NoTask)
    /\ UNCHANGED handle

\* t = 0
Release(t) ==
    /\ RemoveRef(t)
    /\ handle' = [handle EXCEPT ![t] = FALSE]
    /\ LuaGoes("idle", NoTask)

\* __task_gc, or kill of a zombie.
Drop(t) ==
    /\ lua = "idle" /\ handle[t]
    /\ Use("lua", t)
    /\ Release(t)
    /\ UNCHANGED <<state, exitCode, observer, code, lcaps, result, srvVars, history>>

\* state and exit_code work on a copy of the reference ...
Look(t) ==
    /\ lua = "idle" /\ handle[t]
    /\ Use("lua", t)
    /\ refs' = [refs EXCEPT ![t] = @ + 1]
    /\ LuaGoes("look", t)
    /\ UNCHANGED <<obj, state, exitCode, observer, caps, frees, taskVars, handle, lcaps,
                   result, srvVars, history>>

\* ... which goes when they return.
LookReturn ==
    /\ lua = "look"
    /\ Use("lua", ltask)
    /\ RemoveRef(ltask)
    /\ LuaGoes("idle", NoTask)
    /\ UNCHANGED <<state, exitCode, observer, code, handle, lcaps, result, srvVars, history>>

\* kill: terminate() looks at the capabilities, frees them, and the reference goes.
Kill(t) ==
    /\ lua = "idle" /\ handle[t] /\ state[t] # "Zombie"
    /\ Use("lua", t)
    /\ LuaGoes("seize", t)
    /\ UNCHANGED <<objVars, taskVars, handle, lcaps, result, srvVars, history>>

KillSeize ==
    /\ lua = "seize"
    /\ Use("lua", ltask)
    /\ lcaps' = caps[ltask]
    /\ overlap' = IF stask = ltask THEN overlap \cup {ltask} ELSE overlap
    /\ LuaGoes("free", ltask)
    /\ UNCHANGED <<objVars, taskVars, handle, result, srvVars, early, took, kicked, leaked>>

KillFree ==
    /\ lua = "free"
    /\ Use("lua", ltask)
    /\ Terminate(ltask, lcaps)
    /\ LuaGoes("zap", ltask)
    /\ UNCHANGED <<obj, refs, state, exitCode, observer, code, handle, lcaps, result,
                   srvVars, history>>

KillReturn ==
    /\ lua = "zap"
    /\ Use("lua", ltask)
    /\ Release(ltask)
    /\ UNCHANGED <<state, exitCode, observer, code, lcaps, result, srvVars, history>>

\* wait: a call of the observer object.
Wait(t) ==
    /\ lua = "idle" /\ handle[t]
    /\ LuaGoes("calling", t)
    /\ UNCHANGED <<objVars, taskVars, handle, lcaps, result, srvVars, history, misused>>

WaitReturn ==
    /\ lua = "woken"
    /\ Use("lua", ltask)
    /\ result' = <<ltask, exitCode[ltask]>>
    /\ Release(ltask)
    /\ UNCHANGED <<state, exitCode, observer, code, lcaps, srvVars, history>>

-----------------------------------------------------------------------------
(* The task. *)

\* It sends the exit signal, and gets no reply.
Exit(t) ==
    /\ proc[t] = "running"
    /\ proc' = [proc EXCEPT ![t] = "exiting"]
    /\ \E v \in ExitCodes : code' = [code EXCEPT ![t] = v]
    /\ UNCHANGED <<objVars, luaVars, srvVars, history, misused>>

-----------------------------------------------------------------------------
(* The server thread. *)

SrvGoes(pc, t) == srv' = pc /\ stask' = t

\* Mutant of Observe: the state is not looked at.
ObserveBlindly ==
    /\ srv = "loop" /\ lua = "calling"
    /\ observer' = [observer EXCEPT ![ltask] = TRUE] /\ LuaGoes("waiting", ltask)
    /\ UNCHANGED <<obj, refs, state, exitCode, caps, frees, taskVars, handle, lcaps,
                   result, srvVars, history, misused>>

\* Mutant of Observe: the caller is answered at once.
ObserveAtOnce ==
    /\ srv = "loop" /\ lua = "calling"
    /\ LuaGoes("woken", ltask)
    /\ UNCHANGED <<objVars, taskVars, handle, lcaps, result, srvVars, history, misused>>

\* Observer::dispatch: a zombie is answered at once, otherwise the caller waits.
Observe ==
    /\ srv = "loop" /\ lua = "calling"
    /\ Use("srv", ltask)
    /\ IF state[ltask] = "Zombie"
       THEN LuaGoes("woken", ltask) /\ UNCHANGED observer
       ELSE /\ observer' = [observer EXCEPT ![ltask] = TRUE]
            /\ LuaGoes("waiting", ltask)
    /\ UNCHANGED <<obj, refs, state, exitCode, caps, frees, taskVars, handle, lcaps,
                   result, srvVars, history>>

\* App_task::dispatch gets the exit signal; the gate is there until terminate().
Signal(t) ==
    /\ srv = "loop" /\ proc[t] = "exiting" /\ caps[t]
    /\ state' = [state EXCEPT ![t] = "Zombie"]
    /\ early' = IF t \in took THEN early ELSE early \cup {t}
    /\ overlap' = IF ltask = t /\ lua = "free" THEN overlap \cup {t} ELSE overlap
    /\ SrvGoes("code", t)
    /\ UNCHANGED <<obj, refs, exitCode, observer, caps, frees, taskVars, luaVars, scaps,
                   took, kicked, leaked, misused>>

SignalCode ==
    /\ srv = "code"
    /\ Use("srv", stask)
    /\ exitCode' = [exitCode EXCEPT ![stask] = code[stask]]
    /\ SrvGoes("seize", stask)
    /\ UNCHANGED <<obj, refs, state, observer, caps, frees, taskVars, luaVars, scaps,
                   history>>

SignalSeize ==
    /\ srv = "seize"
    /\ Use("srv", stask)
    /\ scaps' = caps[stask]
    /\ SrvGoes("free", stask)
    /\ UNCHANGED <<objVars, taskVars, luaVars, history>>

SignalFree ==
    /\ srv = "free"
    /\ Use("srv", stask)
    /\ Terminate(stask, scaps)
    /\ SrvGoes("kick", stask)
    /\ UNCHANGED <<obj, refs, state, exitCode, observer, code, luaVars, scaps, history>>

\* "kick the capability refernce"
SignalKick ==
    /\ srv = "kick"
    /\ Use("srv", stask)
    /\ RemoveRef(stask)
    /\ kicked' = kicked \cup {stask}
    /\ IF refs[stask] = 1 THEN SrvGoes("loop", NoTask) ELSE SrvGoes("notify", stask)
    /\ UNCHANGED <<state, exitCode, observer, code, luaVars, scaps, early, overlap, took,
                   leaked>>

\* The observer is woken.
SignalNotify ==
    /\ srv = "notify"
    /\ Use("notify", stask)
    /\ observer' = [observer EXCEPT ![stask] = FALSE]
    /\ IF observer[stask] /\ lua = "waiting" THEN LuaGoes("woken", ltask)
       ELSE UNCHANGED <<lua, ltask>>
    /\ SrvGoes("loop", NoTask)
    /\ UNCHANGED <<obj, refs, state, exitCode, caps, frees, taskVars, handle, lcaps, result,
                   scaps, history>>

\* Who uses a deleted object may find its old content, as above, or crash Ned.
Crash ==
    /\ misused # {} /\ lua # "crashed"
    /\ LuaGoes("crashed", NoTask)
    /\ SrvGoes("crashed", NoTask)
    /\ UNCHANGED <<objVars, taskVars, handle, lcaps, result, scaps, history, misused>>

LuaStep == \/ ExecLaunch \/ ExecRunning \/ ExecPublish \/ KillSeize \/ KillFree
           \/ KillReturn \/ LookReturn \/ WaitReturn
SrvStep == \/ Observe \/ SignalCode \/ SignalSeize \/ SignalFree \/ SignalKick
           \/ SignalNotify \/ \E t \in Tasks : Signal(t)

Next ==
    \/ LuaStep \/ SrvStep \/ Crash
    \/ \E t \in Tasks : ExecNew(t) \/ Drop(t) \/ Look(t) \/ Kill(t) \/ Wait(t) \/ Exit(t)

Spec == Init /\ [][Next]_vars

\* Both threads run, and tasks exit at some time.
FairSpec == /\ Spec /\ WF_vars(LuaStep) /\ WF_vars(SrvStep)
            /\ \A t \in Tasks : WF_vars(Exit(t))

-----------------------------------------------------------------------------
(* Properties. *)

\* Types: in particular a reference count never becomes negative, not even that
\* of a task that has exited early, and each thread works on a task exactly while
\* it is inside an operation.
TypeOK ==
    /\ obj \in [Tasks -> {"none", "live", "deleted"}]
    /\ refs \in [Tasks -> Nat] /\ frees \in [Tasks -> Nat]
    /\ state \in [Tasks -> {"Initializing", "Running", "Zombie"}]
    /\ exitCode \in [Tasks -> ExitCodes \cup {Unset}]
    /\ code \in [Tasks -> ExitCodes \cup {Unset}]
    /\ observer \in [Tasks -> BOOLEAN] /\ caps \in [Tasks -> BOOLEAN]
    /\ handle \in [Tasks -> BOOLEAN] /\ lcaps \in BOOLEAN /\ scaps \in BOOLEAN
    /\ proc \in [Tasks -> {"none", "running", "exiting", "gone"}]
    /\ lua \in {"idle", "launch", "started", "publish", "look", "seize", "free", "zap",
               "calling", "waiting", "woken", "crashed"}
    /\ srv \in {"loop", "code", "seize", "free", "kick", "notify", "crashed"}
    /\ ltask \in Tasks \cup {NoTask} /\ stask \in Tasks \cup {NoTask}
    /\ (ltask = NoTask) = (lua \in {"idle", "crashed"})
    /\ (stask = NoTask) = (srv \in {"loop", "crashed"})
    /\ result \in (Tasks \cup {NoTask}) \X (ExitCodes \cup {Unset})
    /\ early \subseteq Tasks /\ overlap \subseteq Tasks /\ took \subseteq Tasks
    /\ kicked \subseteq Tasks /\ leaked \subseteq Tasks
    /\ misused \subseteq {"lua", "srv", "notify"} \X Tasks

One(b) == IF b THEN 1 ELSE 0

\* The references to t: that of exec or of a method, Lua's, that of the capability from running() to
\* the exit signal, and the one a Lua error has left behind.
Holders(t) == One(ltask = t /\ lua \in {"launch", "started", "publish", "look"})
              + One(handle[t]) + One(t \in took /\ t \notin kicked) + One(t \in leaked)

\* _ref_cnt is the number of references, and the object is there just as long as
\* there is one, in whatever order exit signals, the methods of a task
\* and the garbage collector come; unless a task exits before exec calls running().
CountIsHolders ==
    \A t \in Tasks : t \notin early /\ lua # "crashed" =>
        refs[t] = Holders(t) /\ (obj[t] = "live" <=> Holders(t) > 0)

\* No method of a task and no exit handler uses a deleted object; except where
\* the handler looks for an observer after it has dropped its reference.
Protected == \A t \in Tasks \ early : <<"lua", t>> \notin misused /\ <<"srv", t>> \notin misused

\* The capabilities of a task are freed once, by terminate() or the destructor,
\* and a deleted object leaves no task behind; unless kill() and the exit
\* signal run terminate() at the same time.
CapsFreedOnce ==
    \A t \in Tasks \ (early \cup overlap) :
        /\ frees[t] <= 1
        /\ obj[t] = "deleted" => frees[t] = 1 /\ proc[t] = "gone"

\* wait returns what the task has exited with.
WaitReportsExit ==
    \A t \in Tasks \ early : result[1] = t => result[2] = code[t]

\* "kick the capability refernce": the reference that the exit signal drops is
\* the capability's, which running() has taken before.
KicksCapabilityReference == srv = "kick" => stask \in took

\* wait returns when the task exits, whether the signal comes before the call,
\* after it, or in between.
WaitReturns ==
    \A t \in Tasks : (lua = "calling" /\ ltask = t) ~>
        (lua # "waiting" /\ lua # "calling") \/ t \in early
=============================================================================
