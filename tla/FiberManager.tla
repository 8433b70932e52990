---------------------------- MODULE FiberManager ----------------------------
(***************************************************************************)
(* SimFiberManager (torqueSim/sim/simFiberManager.{h,cc}): the cooperative *)
(* scheduler of script fibers, composed with the suspend-flag table and    *)
(* with the VM's fiber table.                                              *)
(*                                                                         *)
(* One C++ thread runs everything, but calls nest: execFibers and throw*   *)
(* resume a fiber in the middle of their loop over mFiberSchedules, and    *)
(* the script that then runs calls back into the manager.  loop is the     *)
(* loop that is under way and runs the stack of fibers inside runVM, so    *)
(* that everything a script can do happens between two iterations.         *)
(***************************************************************************)
EXTENDS SuspendFlags, SequencesExt

CONSTANTS
  WaitModes,        \* the [waitMode, flagMask, minTime] a script may ask for
  FlagWords,        \* the flag words pushed, selected on or made suspending
  GlobalWords,      \* the words written to the field flags
  GuardWords,       \* the words written to the field throwResumeGuardFlags
  Objects,          \* ids of the objects fibers are spawned on
  Times,            \* the sim times the host may reach
  MaxTick,          \* bound on mNowTick
  MaxUnpopped,      \* bound on the pushes a fiber may have outstanding
  ScheduleCapacity, \* entries mFiberSchedules holds without reallocating
  ScriptMayDelete,  \* whether a script may delete the manager it runs under
  ScriptMayErase    \* whether cleanupFibers may free running fibers or erase under a loop

\* BaseFlags.
FLAG_VISITED == 0
FLAG_OBJECT == 1
STICKY_FLAGS_MASK == 1 .. 7

WaitModeNames ==
  {"WAIT_IGNORE", "WAIT_FLAGS", "WAIT_FLAGS_CLEAR", "WAIT_LOCAL_CLEAR",
   "WAIT_SIMTIME", "WAIT_TICK", "WAIT_FIBER", "WAIT_NONE", "WAIT_REMOVE"}

ASSUME FiberManagerAssumption ==
  /\ {FLAG_VISITED, FLAG_OBJECT} \subseteq Flags
  /\ FlagWords \cup GlobalWords \cup GuardWords \subseteq SUBSET Flags
  /\ Objects \subseteq Nat \ {0} /\ Times \subseteq Nat /\ 0 \in Times
  /\ MaxTick \in Nat /\ MaxUnpopped \in Nat /\ ScheduleCapacity \in Nat
  /\ ScriptMayDelete \in BOOLEAN /\ ScriptMayErase \in BOOLEAN
  /\ WaitModes \subseteq [waitMode : WaitModeNames, minTime : Nat, flagMask : SUBSET Flags]

VARIABLES
  mFiberSchedules,         \* the schedule entries, in order
  mFiberGlobalFlags,
  mThrowResumeGuardFlags,
  mNowTick,
  alive,                   \* the manager is registered (between onAdd and onRemove)
  vm,                      \* the VM's fiber table
  now,                     \* Sim::getCurrentTime()
  loop,                    \* the loop over mFiberSchedules under way, or Idle
  runs                     \* the fibers inside runVM, innermost last

managerVars == <<mFiberSchedules, mFiberGlobalFlags, mThrowResumeGuardFlags, mNowTick, alive>>
fmVars == <<managerVars, vm, now, loop, runs, flagVars>>

\* A throw loop selects entries by flag mask or by object.
NoObject == -1
Idle == [kind |-> "idle", pos |-> 0, end |-> 0, mask |-> {}, object |-> NoObject]

\* A host call can start: no loop and no script is under way.
AtHost == alive /\ loop = Idle /\ runs = <<>>

\* A script native (the innermost run's, or the host itself) can call the manager.
MayCall == alive /\ (loop = Idle \/ runs # <<>>)

Reset ==
  /\ mFiberSchedules' = <<>>
  /\ mFiberGlobalFlags' = {}
  /\ mThrowResumeGuardFlags' = {}
  /\ mNowTick' = 0
  /\ mUserWaitFiberFlags' = {}
  /\ mWaitFiberFlags' = {}
  /\ mWaitFlagStack' = [i \in SlotIds |-> EmptySlot]
  /\ unpopped' = [f \in Fibers |-> 0]

FMInit ==
  /\ FlagsInit
  /\ mFiberSchedules = <<>>
  /\ mFiberGlobalFlags = {}
  /\ mThrowResumeGuardFlags = {}
  /\ mNowTick = 0
  /\ alive = TRUE
  /\ vm = VmInit
  /\ now = 0
  /\ loop = Idle
  /\ runs = <<>>

-----------------------------------------------------------------------------
(* Lifetime.                                                               *)

\* A new manager: the constructor, then onAdd.
onAdd ==
  /\ ~alive /\ runs = <<>>
  /\ alive' = TRUE
  /\ Reset
  /\ UNCHANGED <<vm, now, loop, runs>>

\* Every tracked fiber is freed, whatever it is doing, and the object goes.
onRemove ==
  /\ IF ScriptMayDelete THEN MayCall ELSE AtHost
  /\ alive' = FALSE
  /\ mFiberSchedules' = <<>>
  /\ vm' = cleanupFibersInOrder(vm, [i \in DOMAIN mFiberSchedules |-> mFiberSchedules[i].fiberId])
  /\ UNCHANGED <<mFiberGlobalFlags, mThrowResumeGuardFlags, mNowTick, now, loop, runs, flagVars>>

-----------------------------------------------------------------------------
(* Calls that only set a word.                                             *)

setFlagsField(flags) ==
  /\ MayCall
  /\ mFiberGlobalFlags' = flags
  /\ UNCHANGED <<mFiberSchedules, mThrowResumeGuardFlags, mNowTick, alive, vm, now, loop, runs, flagVars>>

setThrowResumeGuardFlags(flags) ==
  /\ MayCall
  /\ mThrowResumeGuardFlags' = flags
  /\ UNCHANGED <<mFiberSchedules, mFiberGlobalFlags, mNowTick, alive, vm, now, loop, runs, flagVars>>

SetSuspendMode(flags) ==
  /\ MayCall
  /\ setSuspendMode(flags)
  /\ UNCHANGED <<managerVars, vm, now, loop, runs>>

\* The host's clock moves between calls; the Sim's time is read by execFibers.
AdvanceTime(t) ==
  /\ AtHost
  /\ t > now
  /\ now' = t
  /\ UNCHANGED <<managerVars, vm, loop, runs, flagVars>>

-----------------------------------------------------------------------------
(* Spawning and waiting.                                                   *)

CanCreate == NextFiber(vm) \in Fibers /\ Len(mFiberSchedules) < ScheduleCapacity

\* The entry of a new fiber: FLAG_OBJECT says whether it runs on an object.
SpawnedInfo(fid, object, wait) ==
  [fiberId |-> fid, thisId |-> object, waitMode |-> wait.waitMode, minTime |-> wait.minTime,
   flagMask |-> IF object = 0 THEN wait.flagMask \ {FLAG_OBJECT}
                ELSE wait.flagMask \cup {FLAG_OBJECT}]

\* The function exists: the fiber is added and runs at once, inside this call.
spawnFiber(object, wait) ==
  LET fid == NextFiber(vm)
      created == setCurrentFiber(createFiber(setCurrentFiberMain(vm)), fid)
  IN  /\ MayCall /\ CanCreate
      /\ mFiberSchedules' = Append(mFiberSchedules, SpawnedInfo(fid, object, wait))
      /\ vm' = SetState(created, fid, "RUNNING")
      /\ runs' = Append(runs, [fiber |-> fid, ret |-> vm.current])
      /\ UNCHANGED <<mFiberGlobalFlags, mThrowResumeGuardFlags, mNowTick, alive, now, loop, flagVars>>

\* Mutant: the fiber of a failed call is not deleted.
spawnFiberForgets ==
  /\ MayCall /\ CanCreate
  /\ vm' = setCurrentFiber(createFiber(vm), vm.current)
  /\ UNCHANGED <<managerVars, now, loop, runs, flagVars>>

\* No such function, or a native one: the call does not leave the fiber
\* suspended, and it is deleted again.
spawnFiberFails ==
  LET fid == NextFiber(vm)
      created == setCurrentFiber(createFiber(setCurrentFiberMain(vm)), fid)
  IN  /\ MayCall /\ CanCreate
      /\ vm' = setCurrentFiber(vmCleanupFiber(created, fid), vm.current)
      /\ UNCHANGED <<managerVars, now, loop, runs, flagVars>>

\* The first entry of a fiber, as find_if returns it.
FirstEntry(fid) == {i \in DOMAIN mFiberSchedules :
  /\ mFiberSchedules[i].fiberId = fid
  /\ \A j \in DOMAIN mFiberSchedules : mFiberSchedules[j].fiberId = fid => i <= j}

\* The entry with another fiber and another wait.
Rewritten(info, fid, mode, time, mask) ==
  [fiberId |-> fid, thisId |-> info.thisId, waitMode |-> mode, minTime |-> time, flagMask |-> mask]

\* Sticky bits of the old mask stay; the others, FLAG_VISITED too, are replaced.
WaitingInfo(info, wait) == Rewritten(info, info.fiberId, wait.waitMode, wait.minTime,
  (info.flagMask \cap STICKY_FLAGS_MASK) \cup (wait.flagMask \ STICKY_FLAGS_MASK))

\* With fid 0 an entry whose fiber was freed is found, and put back to work.
setFiberWaitMode(fid, wait) ==
  /\ MayCall
  /\ \E i \in FirstEntry(fid) :
       mFiberSchedules' = [mFiberSchedules EXCEPT ![i] = WaitingInfo(@, wait)]
  /\ UNCHANGED <<mFiberGlobalFlags, mThrowResumeGuardFlags, mNowTick, alive, vm, now, loop, runs, flagVars>>

PushFlags(flags) ==
  /\ alive /\ runs # <<>> /\ vm.current # Main
  /\ unpopped[vm.current] < MaxUnpopped
  /\ pushFiberSuspendFlags(vm.current, flags)
  /\ UNCHANGED <<managerVars, vm, now, loop, runs>>

PopFlags ==
  /\ alive /\ runs # <<>> /\ vm.current # Main
  /\ popFiberSuspendFlags(vm.current)
  /\ UNCHANGED <<managerVars, vm, now, loop, runs>>

-----------------------------------------------------------------------------
(* Cleanup.                                                                *)

\* An entry marked for removal; fid is 0 once its fiber is freed.
MarkedForRemoval(info, fid) == Rewritten(info, fid, "WAIT_REMOVE", info.minTime, info.flagMask)

MayFree(info) == getFiberState(vm, info.fiberId) # "RUNNING"

\* The entries at positions hits are marked for removal; the fibers among them
\* that are not RUNNING are freed now, the last entry's first.
Retire(hits) ==
  LET frees == {i \in hits : MayFree(mFiberSchedules[i])}
      order == Chosen(Reverse([i \in DOMAIN mFiberSchedules |-> i]), frees)
      ids == [k \in DOMAIN order |-> mFiberSchedules[order[k]].fiberId]
  IN  /\ mFiberSchedules' = [i \in DOMAIN mFiberSchedules |->
            IF i \notin hits THEN mFiberSchedules[i]
            ELSE MarkedForRemoval(mFiberSchedules[i],
                                  IF i \in frees THEN 0 ELSE mFiberSchedules[i].fiberId)]
      /\ vm' = cleanupFibersInOrder(vm, ids)
      /\ cleanupFiberSuspendFlags(ToSet(ids))

cleanupFiber(fid) ==
  /\ MayCall
  /\ FirstEntry(fid) # {}
  /\ Retire(FirstEntry(fid))
  /\ UNCHANGED <<mFiberGlobalFlags, mThrowResumeGuardFlags, mNowTick, alive, now, loop, runs>>

cleanupWithFlags(flags) ==
  /\ MayCall
  /\ Retire({i \in DOMAIN mFiberSchedules :
       mFiberSchedules[i].fiberId # 0 /\ mFiberSchedules[i].flagMask \cap flags # {}})
  /\ UNCHANGED <<mFiberGlobalFlags, mThrowResumeGuardFlags, mNowTick, alive, now, loop, runs>>

cleanupWithObjectId(object) ==
  /\ MayCall
  /\ Retire({i \in DOMAIN mFiberSchedules :
       mFiberSchedules[i].fiberId # 0 /\ mFiberSchedules[i].thisId = object})
  /\ UNCHANGED <<mFiberGlobalFlags, mThrowResumeGuardFlags, mNowTick, alive, now, loop, runs>>

\* Mutant: only the entries whose fiber is gone.
RemovedIfFreed(info) == info.fiberId = 0

Removed(info) == info.fiberId = 0 \/ info.waitMode = "WAIT_REMOVE"

\* Erase what was marked; table is the VM's table when cleanupFibers starts.
EraseRemoved(table) ==
  LET infos == ToSet(mFiberSchedules)
      dead == Chosen(Reverse(mFiberSchedules), {info \in infos : Removed(info) /\ info.fiberId # 0})
      ids == [i \in DOMAIN dead |-> dead[i].fiberId]
  IN  /\ mFiberSchedules' = Chosen(mFiberSchedules, {info \in infos : ~Removed(info)})
      /\ vm' = cleanupFibersInOrder(table, ids)
      /\ cleanupFiberSuspendFlags(ToSet(ids))

\* Nothing in the code asks who calls or whether a marked fiber is RUNNING.  Where
\* one is, or a loop stands on the entries, the call takes away what the code
\* below it works on, and what follows is undefined.
cleanupFibers ==
  /\ MayCall
  /\ \/ ScriptMayErase
     \/ /\ loop = Idle
        /\ \A i \in DOMAIN mFiberSchedules :
             Removed(mFiberSchedules[i]) => MayFree(mFiberSchedules[i])
  /\ EraseRemoved(vm)
  /\ UNCHANGED <<mFiberGlobalFlags, mThrowResumeGuardFlags, mNowTick, alive, now, loop, runs>>

-----------------------------------------------------------------------------
(* execFibers.                                                             *)

TimeReached(info, time) == FLAG_VISITED \notin info.flagMask /\ time >= info.minTime

\* Mutant: only the flags of setSuspendMode count.
HeldBackByUser(info) == info.flagMask \cap mUserWaitFiberFlags # {}

\* override: the entry's flags are suspended.
HeldBack(info) == info.flagMask \cap mWaitFiberFlags # {}

\* WAIT_FIBER falls through to WAIT_SIMTIME while its target is suspended.
shouldRunFiber(info) ==
  /\ ~HeldBack(info)
  /\ CASE info.waitMode = "WAIT_NONE" -> TRUE
       [] info.waitMode = "WAIT_FLAGS" -> info.flagMask \subseteq mFiberGlobalFlags
       [] info.waitMode = "WAIT_FLAGS_CLEAR" -> info.flagMask \cap mFiberGlobalFlags = {}
       [] info.waitMode = "WAIT_LOCAL_CLEAR" -> info.flagMask = {}
       [] info.waitMode = "WAIT_FIBER" -> \/ getFiberState(vm, info.minTime) # "SUSPENDED"
                                          \/ TimeReached(info, now)
       [] info.waitMode = "WAIT_SIMTIME" -> TimeReached(info, now)
       [] info.waitMode = "WAIT_TICK" -> TimeReached(info, mNowTick)
       [] OTHER -> FALSE

\* What execFibers does to an entry before it resumes the fiber.
MarkedInfo(info) ==
  CASE info.waitMode \in {"WAIT_SIMTIME", "WAIT_TICK"} ->
         [info EXCEPT !.flagMask = @ \cup {FLAG_VISITED}]
    [] info.waitMode = "WAIT_FIBER" ->
         Rewritten(info, info.fiberId, "WAIT_IGNORE", 0, info.flagMask)
    [] OTHER -> info

\* The range-for fixes its end when it starts: entries spawned later wait.
execFibers(tickAdvance) ==
  /\ AtHost
  /\ mNowTick + tickAdvance <= MaxTick
  /\ mNowTick' = mNowTick + tickAdvance
  /\ loop' = [kind |-> "exec", pos |-> 1, end |-> Len(mFiberSchedules),
              mask |-> {}, object |-> NoObject]
  /\ UNCHANGED <<mFiberSchedules, mFiberGlobalFlags, mThrowResumeGuardFlags, alive, vm, now, runs, flagVars>>

\* The position the loop stops at next: the first one still to visit that runs.
ExecStop == {i \in loop.pos .. loop.end :
  /\ shouldRunFiber(mFiberSchedules[i])
  /\ \A j \in loop.pos .. (i - 1) : ~shouldRunFiber(mFiberSchedules[j])}

InExec == alive /\ loop.kind = "exec" /\ runs = <<>>

\* Entry i is given up: freed, its flags dropped, marked for removal.
RetireEntry(schedules, table, i, fid) ==
  /\ mFiberSchedules' = [schedules EXCEPT ![i] = MarkedForRemoval(@, 0)]
  /\ vm' = vmCleanupFiber(table, fid)
  /\ cleanupFiberSuspendFlags({fid})

\* resumeCurrentFiber runs the current fiber if it is suspended; any other state
\* returns at once, and the entry is retired.  An entry without a fiber leaves
\* the fiber of the entry before it current.
ExecVisit ==
  /\ InExec
  /\ \E i \in ExecStop :
       LET fid == mFiberSchedules[i].fiberId
           marked == [mFiberSchedules EXCEPT ![i] = MarkedInfo(@)]
           table == setCurrentFiber(vm, fid)
       IN  IF getFiberState(table, table.current) = "SUSPENDED"
           THEN /\ mFiberSchedules' = marked
                /\ vm' = SetState(table, table.current, "RUNNING")
                /\ runs' = <<[fiber |-> table.current, ret |-> Main]>>
                /\ loop' = [loop EXCEPT !.pos = i]
                /\ UNCHANGED flagVars
           ELSE /\ RetireEntry(marked, table, i, fid)
                /\ loop' = [loop EXCEPT !.pos = i + 1]
                /\ UNCHANGED runs
  /\ UNCHANGED <<mFiberGlobalFlags, mThrowResumeGuardFlags, mNowTick, alive, now>>

ExecDone ==
  /\ InExec
  /\ ExecStop = {}
  /\ EraseRemoved(setCurrentFiberMain(vm))
  /\ loop' = Idle
  /\ UNCHANGED <<mFiberGlobalFlags, mThrowResumeGuardFlags, mNowTick, alive, now, runs>>

-----------------------------------------------------------------------------
(* Throwing into fibers.  The loops run from the last entry to the first   *)
(* and resume every suspended fiber they select, so that it handles the    *)
(* exception at once.                                                      *)

ThrowLoop(pos, mask, object) ==
  [kind |-> "throw", pos |-> pos, end |-> 0, mask |-> mask, object |-> object]

BeginThrow(mask, object) ==
  /\ AtHost
  /\ loop' = ThrowLoop(Len(mFiberSchedules), mask, object)
  /\ UNCHANGED <<managerVars, vm, now, runs, flagVars>>

throwWithMask(mask) == BeginThrow(mask, NoObject)
throwWithObject(object) == BeginThrow({}, object)

Selected(info) ==
  /\ info.fiberId # 0
  /\ info.flagMask \cap loop.mask # {} \/ info.thisId = loop.object
  /\ getFiberState(vm, info.fiberId) = "SUSPENDED"

ThrowStop == {i \in 1 .. loop.pos :
  /\ Selected(mFiberSchedules[i])
  /\ \A j \in (i + 1) .. loop.pos : ~Selected(mFiberSchedules[j])}

InThrow == alive /\ loop.kind = "throw" /\ runs = <<>>

ResumeThrown(i) ==
  LET fid == mFiberSchedules[i].fiberId IN
  /\ vm' = SetState(setCurrentFiber(vm, fid), fid, "RUNNING")
  /\ runs' = <<[fiber |-> fid, ret |-> Main]>>

ThrowVisit ==
  /\ InThrow
  /\ \E i \in ThrowStop : ResumeThrown(i) /\ loop' = [loop EXCEPT !.pos = i]
  /\ UNCHANGED <<managerVars, now, flagVars>>

ThrowDone ==
  /\ InThrow
  /\ ThrowStop = {}
  /\ vm' = setCurrentFiberMain(vm)
  /\ loop' = Idle
  /\ UNCHANGED <<managerVars, now, runs, flagVars>>

\* The last used slot's fiber is the one thrown into, if it is suspended; a
\* guarded wait without a handler (hasHandler) is left suspended.
throwWithSuspendFlags(hasHandler) ==
  LET used == {s \in SlotIds : mWaitFlagStack[s].used}
      Top(fid) == \E s \in used : mWaitFlagStack[s].fiberId = fid /\ \A t \in used : t <= s
      hits == {i \in DOMAIN mFiberSchedules :
                 /\ Top(mFiberSchedules[i].fiberId)
                 /\ getFiberState(vm, mFiberSchedules[i].fiberId) = "SUSPENDED"}
      Guarded(info) ==
        /\ info.waitMode \in {"WAIT_FLAGS", "WAIT_FLAGS_CLEAR", "WAIT_LOCAL_CLEAR"}
        /\ info.flagMask \cap mThrowResumeGuardFlags # {}
  IN  /\ AtHost
      /\ \/ /\ \/ hits = {}
               \/ ~hasHandler /\ \E i \in hits : (\A j \in hits : j <= i) /\ Guarded(mFiberSchedules[i])
            /\ vm' = setCurrentFiberMain(vm)
            /\ UNCHANGED <<loop, runs>>
         \/ \E i \in hits :
              /\ \A j \in hits : j <= i
              /\ hasHandler \/ ~Guarded(mFiberSchedules[i])
              /\ ResumeThrown(i)
              /\ loop' = ThrowLoop(i, {}, NoObject)
      /\ UNCHANGED <<managerVars, now, flagVars>>

-----------------------------------------------------------------------------
(* A run ends: the script yields, returns, or dies of an unhandled throw.  *)

\* Mutant: the loop skips the entry after the one that ran.
NextPosSkips == IF loop.kind = "exec" THEN loop.pos + 2 ELSE loop.pos - 2

NextPos == IF loop.kind = "exec" THEN loop.pos + 1 ELSE loop.pos - 1

\* Under a loop the entry is retired unless the fiber yielded, and the loop
\* goes on; otherwise spawnFiber restores the caller's fiber.
RunEnds(outcome) ==
  LET top == runs[Len(runs)]
      stopped == SetState(vm, top.fiber, outcome)
  IN  /\ alive /\ runs # <<>>
      /\ runs' = SubSeq(runs, 1, Len(runs) - 1)
      /\ IF Len(runs) = 1 /\ loop # Idle
         THEN /\ loop' = [loop EXCEPT !.pos = NextPos]
              /\ IF outcome = "SUSPENDED"
                 THEN vm' = stopped /\ UNCHANGED <<mFiberSchedules, flagVars>>
                 ELSE RetireEntry(mFiberSchedules, stopped, loop.pos,
                                  mFiberSchedules[loop.pos].fiberId)
         ELSE /\ vm' = setCurrentFiber(stopped, top.ret)
              /\ UNCHANGED <<mFiberSchedules, loop, flagVars>>
      /\ UNCHANGED <<mFiberGlobalFlags, mThrowResumeGuardFlags, mNowTick, alive, now>>

\* fiberYield suspends the current fiber.
RunYields == RunEnds("SUSPENDED")
RunFinishes == RunEnds("FINISHED")
RunDies == RunEnds("ERROR")

-----------------------------------------------------------------------------

Lifetime == onAdd \/ onRemove

SetsWord ==
  \/ \E flags \in GlobalWords : setFlagsField(flags)
  \/ \E flags \in GuardWords : setThrowResumeGuardFlags(flags)
  \/ \E flags \in FlagWords : SetSuspendMode(flags)

Spawns ==
  \/ \E object \in Objects \cup {0}, wait \in WaitModes : spawnFiber(object, wait)
  \/ spawnFiberFails

FiberCalls ==
  \/ \E f \in Fibers \cup {0}, wait \in WaitModes : setFiberWaitMode(f, wait)
  \/ \E flags \in FlagWords : PushFlags(flags)
  \/ PopFlags

Cleanups ==
  \/ \E f \in Fibers \cup {0} : cleanupFiber(f)
  \/ \E flags \in FlagWords : cleanupWithFlags(flags)
  \/ \E object \in Objects : cleanupWithObjectId(object)
  \/ cleanupFibers

Throws ==
  \/ \E mask \in FlagWords : throwWithMask(mask)
  \/ \E object \in Objects : throwWithObject(object)
  \/ \E hasHandler \in BOOLEAN : throwWithSuspendFlags(hasHandler)

LoopStep == ExecVisit \/ ExecDone \/ ThrowVisit \/ ThrowDone
RunStep == RunYields \/ RunFinishes \/ RunDies

Ticks == \E tickAdvance \in {0, 1} : execFibers(tickAdvance)
Clock == \E t \in Times : AdvanceTime(t)

FMNext == Lifetime \/ SetsWord \/ Spawns \/ FiberCalls \/ Cleanups \/ Throws
          \/ LoopStep \/ RunStep \/ Ticks \/ Clock

FMSpec == FMInit /\ [][FMNext]_fmVars

\* The host's frame loop keeps calling execFibers whatever else it does, every
\* loop goes on, and every script run, at whatever depth, eventually yields,
\* returns or dies (a script that never does hangs the whole program).
FMFairSpec ==
  /\ FMSpec
  /\ SF_fmVars(execFibers(0))
  /\ WF_fmVars(LoopStep)
  /\ \A depth \in 1 .. Cardinality(Fibers) : SF_fmVars(Len(runs) = depth /\ RunStep)

-----------------------------------------------------------------------------
(* Properties.                                                             *)

InfoType == [fiberId : Fibers \cup {0}, thisId : Objects \cup {0}, waitMode : WaitModeNames,
             minTime : Nat, flagMask : SUBSET Flags]

LoopType == [kind : {"idle", "exec", "throw"}, pos : Nat, end : Nat,
             mask : SUBSET Flags, object : Objects \cup {NoObject}]

RunType == [fiber : Fibers, ret : Fibers \cup {Main}]

\* The types of the manager's fields, of the fiber table and of the call stack.
FMTypeOK ==
  /\ FlagsTypeOK
  /\ mFiberSchedules \in Seq(InfoType)
  /\ mFiberGlobalFlags \in SUBSET Flags /\ mThrowResumeGuardFlags \in SUBSET Flags
  /\ mNowTick \in 0 .. MaxTick /\ alive \in BOOLEAN /\ vm \in VmType /\ now \in Times
  /\ loop \in LoopType
  /\ runs \in Seq(RunType)

Tracked(f) == \E i \in DOMAIN mFiberSchedules : mFiberSchedules[i].fiberId = f
OnStack(f) == \E i \in DOMAIN runs : runs[i].fiber = f

\* Entries and fibers correspond one to one. No entry holds the id of a freed
\* fiber and no two the same id: since ids are reused at once, a stale entry
\* would drive somebody else's fiber. And no fiber leaks: every one is tracked,
\* through failed spawns, cleanups from inside a run, and the end of the manager.
EntriesOwnFibers ==
  /\ \A i \in DOMAIN mFiberSchedules :
       mFiberSchedules[i].fiberId # 0 => Live(vm, mFiberSchedules[i].fiberId)
  /\ \A i, j \in DOMAIN mFiberSchedules :
       mFiberSchedules[i].fiberId = mFiberSchedules[j].fiberId
         /\ mFiberSchedules[i].fiberId # 0 => i = j
  /\ \A f \in Fibers : Live(vm, f) => Tracked(f)

\* Suspend flags never outlive the fiber that pushed them (it could not pop
\* them any more, and the fibers they hold back would wait forever).
SuspendersExist == alive =>
  \A s \in SlotIds : mWaitFlagStack[s].used => Live(vm, mWaitFlagStack[s].fiberId)

\* The current fiber is the one whose script is executing, and the main fiber
\* whenever the host is: nested spawns and loops restore it.
CurrentIsRunner ==
  /\ runs # <<>> => vm.current = runs[Len(runs)].fiber
  /\ AtHost => vm.current = Main

\* A fiber is RUNNING exactly while it is on the call stack: it is never
\* freed, resumed again or thrown into underneath its own script.
RunningIffOnStack == \A f \in Fibers : vm.state[f] = "RUNNING" <=> OnStack(f)

\* What the schedule, the VM, the flag table and the call stack must agree on,
\* as long as no script deletes the manager it runs under (ScriptMayDelete) or
\* erases what runs (ScriptMayErase): that this breaks it is ActiveStay.
FibersConsistent == EntriesOwnFibers /\ SuspendersExist /\ CurrentIsRunner /\ RunningIffOnStack

\* execFibers never resumes a fiber at an entry whose mask meets flags that some
\* slot still holds, also when they were pushed earlier in the same loop.
SuspendRespected == [][\A i \in DOMAIN mFiberSchedules :
  ExecVisit /\ loop'.pos = i /\ runs' # <<>> =>
    \A s \in SlotIds : mWaitFlagStack[s].used =>
      mWaitFlagStack[s].flag \cap mFiberSchedules[i].flagMask = {}]_fmVars

Due(f) == \E i \in DOMAIN mFiberSchedules :
  /\ mFiberSchedules[i].fiberId = f
  /\ shouldRunFiber(mFiberSchedules[i])
  /\ vm.state[f] = "SUSPENDED"

\* A fiber whose wait is over does not stay suspended forever: each execFibers
\* reaches every entry, whatever the runs before it retire or spawn.
DueFibersRun == \A f \in Fibers : []<>~Due(f)

\* A fiber marked for removal while it ran does not stay around forever
\* (unless a later setFiberWaitMode puts it back to work).
MarkedFibersGo == \A f \in Fibers : []<>~(\E i \in DOMAIN mFiberSchedules :
  mFiberSchedules[i].fiberId = f /\ mFiberSchedules[i].waitMode = "WAIT_REMOVE")

\* A fiber in WAIT_FIBER is not run before the fiber it waits for has stopped.
WaitFiberWaits == \A i \in DOMAIN mFiberSchedules :
  LET info == mFiberSchedules[i] IN
  /\ info.waitMode = "WAIT_FIBER"
  /\ info.minTime # info.fiberId /\ getFiberState(vm, info.minTime) = "SUSPENDED"
  => ~shouldRunFiber(info)

\* "Waiting to be removed (used in case current is active)": a fiber that is
\* marked while it is active is freed only when it no longer is.
ActiveStay == \A i \in DOMAIN runs : Live(vm, runs[i].fiber)

\* The fiberId of an entry is the "fiber to resume" (simFiberManager.h:74):
\* execFibers resumes no other.  Not so after setFiberWaitMode(0, ...) has armed
\* an entry whose fiber was freed; no run checks this.
ResumesItsFiber == loop.kind = "exec" /\ runs # <<>> =>
  runs[1].fiber = mFiberSchedules[loop.pos].fiberId
=============================================================================
