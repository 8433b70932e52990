---------------------------- MODULE SuspendFlags ----------------------------
(***************************************************************************)
(* What the fiber manager is built on: the VM's fibers and the manager's   *)
(* table of suspend flags.                                                 *)
(*                                                                         *)
(* The fiber table of the VM (VmInternal in engine/embed/api.cpp, on top   *)
(* of FreeListPtr in engine/core/freeListHandleHelpers.h).                 *)
(*                                                                         *)
(* A fiber id is a handle: item number in the low 24 bits, generation in   *)
(* the next 7.  createFiber hands a new ExprEvalState, whose generation is *)
(* still 0, to the list, which increments it: every fiber has generation   *)
(* 1, and a freed item number, reused last in first out, gives the same id *)
(* to the next fiber.                                                      *)
(*                                                                         *)
(* The operators below are functions of a table vm, so that a caller which *)
(* makes several calls in one step composes them.                          *)
(***************************************************************************)
EXTENDS Integers, Sequences, Selection

CONSTANT Fibers    \* handles of the fibers that may be created

\* The handle of item number n with generation 1.
HandleValue(n) == n + 16777216

Main == HandleValue(1)

\* The main fiber is item 1; the others are numbered from 2 without gaps.
ASSUME FibersAssumption ==
  \A f \in Fibers : f \in Nat /\ f > Main /\ (f = Main + 1 \/ f - 1 \in Fibers)

\* FREE: no item under that number.  The others are FiberRunResult::State.
FiberStates == {"FREE", "INACTIVE", "RUNNING", "SUSPENDED", "ERROR", "FINISHED"}

\* current is mCurrentFiberState; Dangling once the fiber it points to is deleted.
Dangling == 0

VmType == [state : [Fibers -> FiberStates], mFreeItems : Seq(Fibers),
           size : Nat, current : Fibers \cup {Main, Dangling}]

VmInit == [state |-> [f \in Fibers |-> "FREE"], mFreeItems |-> <<>>,
           size |-> 1, current |-> Main]

-----------------------------------------------------------------------------

Live(vm, id) == id \in Fibers /\ vm.state[id] # "FREE"

setCurrentFiberMain(vm) == [vm EXCEPT !.current = Main]

\* An id that resolves to nothing leaves the current fiber alone.
setCurrentFiber(vm, id) ==
  IF id = Main \/ Live(vm, id) THEN [vm EXCEPT !.current = id] ELSE vm

\* The id createFiber returns next: the last freed one, otherwise a new item.
NextFiber(vm) ==
  IF vm.mFreeItems # <<>> THEN vm.mFreeItems[Len(vm.mFreeItems)]
  ELSE HandleValue(vm.size + 1)

createFiber(vm) ==
  LET reused == vm.mFreeItems # <<>> IN
  [state |-> [vm.state EXCEPT ![NextFiber(vm)] = "INACTIVE"],
   mFreeItems |-> IF reused THEN SubSeq(vm.mFreeItems, 1, Len(vm.mFreeItems) - 1) ELSE <<>>,
   size |-> IF reused THEN vm.size ELSE vm.size + 1,
   current |-> vm.current]

\* cleanupFiber on each id of the sequence ids in turn; a stale id is ignored.
cleanupFibersInOrder(vm, ids) ==
  LET gone == Chosen(ids, {id \in Fibers : Live(vm, id)})
      Gone(f) == \E i \in DOMAIN gone : gone[i] = f
  IN  [state |-> [f \in Fibers |-> IF Gone(f) THEN "FREE" ELSE vm.state[f]],
       mFreeItems |-> vm.mFreeItems \o gone,
       size |-> vm.size,
       current |-> IF Gone(vm.current) THEN Dangling ELSE vm.current]

vmCleanupFiber(vm, id) == cleanupFibersInOrder(vm, <<id>>)

getFiberState(vm, id) == IF Live(vm, id) THEN vm.state[id] ELSE "ERROR"

\* The fiber's run state changes: resume, suspend, or the end of runVM.
SetState(vm, id, s) == [vm EXCEPT !.state[id] = s]
-----------------------------------------------------------------------------
(***************************************************************************)
(* The suspend-flag table of SimFiberManager                               *)
(* (torqueSim/sim/simFiberManager.{h,cc}).                                 *)
(*                                                                         *)
(* A running fiber may push a set of flags; while they are pushed, no      *)
(* fiber whose own flag mask meets them is scheduled.  The manager keeps   *)
(* WaitFlagStackSize slots, one per pushing fiber, each with a stack of at *)
(* most WaitFlagFiberStackSize pushes and a U8 count of the pushes that    *)
(* found the stack full; mWaitFiberFlags caches the union of everything.   *)
(* A U64 of flags is modelled as the set of its 1-bits.                    *)
(***************************************************************************)
CONSTANTS
  Flags,                  \* the flag bits in use
  WaitFlagStackSize,      \* slots in the table (4 in the code)
  WaitFlagFiberStackSize  \* pushes a slot can hold (4 in the code)

ASSUME SuspendFlagsAssumption ==
  /\ WaitFlagStackSize \in Nat \ {0}
  /\ WaitFlagFiberStackSize \in Nat \ {0}

VARIABLES
  mWaitFlagStack,       \* the table
  mUserWaitFiberFlags,  \* flags set with setSuspendMode
  mWaitFiberFlags,      \* the cached union the scheduler consults
  unpopped              \* history: pushes each fiber has made and not yet popped

flagVars == <<mWaitFlagStack, mUserWaitFiberFlags, mWaitFiberFlags, unpopped>>

SlotIds == 0 .. (WaitFlagStackSize - 1)
FlagSet == SUBSET Flags

\* A slot as memset leaves it; stackPos is the length of flagStack.
EmptySlot == [used |-> FALSE, fiberId |-> 0, flag |-> {},
              flagStack |-> <<>>, overflow |-> 0]

Own(fid) == {i \in SlotIds : mWaitFlagStack[i].used /\ mWaitFlagStack[i].fiberId = fid}
FreeSlots == {i \in SlotIds : ~mWaitFlagStack[i].used}

\* recalculateSuspendFlags, on the table ws and the user flags.
recalculateSuspendFlags(ws, user) ==
  user \cup UNION {ws[i].flag : i \in {j \in SlotIds : ws[j].used}}

FlagsInit ==
  /\ mWaitFlagStack = [i \in SlotIds |-> EmptySlot]
  /\ mUserWaitFiberFlags = {}
  /\ mWaitFiberFlags = {}
  /\ unpopped = [f \in Fibers |-> 0]

-----------------------------------------------------------------------------
(* Operations.                                                             *)

setSuspendMode(flags) ==
  /\ mUserWaitFiberFlags' = flags
  /\ mWaitFiberFlags' = recalculateSuspendFlags(mWaitFlagStack, flags)
  /\ UNCHANGED <<mWaitFlagStack, unpopped>>

\* The slot the search in pushFiberSuspendFlags ends on: the fiber's own one,
\* otherwise the last free one.
IsPushSlot(i, fid) ==
  \/ i \in Own(fid) /\ \A j \in Own(fid) : i <= j
  \/ Own(fid) = {} /\ i \in FreeSlots /\ \A j \in FreeSlots : j <= i

\* The slot after a push: the flags are stacked, or the U8 overflow count grows.
PushedSlot(s, fid, flags) ==
  IF Len(s.flagStack) >= WaitFlagFiberStackSize
  THEN [s EXCEPT !.overflow = (@ + 1) % 256]
  ELSE [used |-> TRUE, fiberId |-> fid, flag |-> s.flag \cup flags,
        flagStack |-> Append(s.flagStack, flags), overflow |-> s.overflow]

pushFiberSuspendFlags(fid, flags) ==
  /\ \/ /\ Own(fid) = {} /\ FreeSlots = {}
        /\ UNCHANGED <<mWaitFlagStack, mWaitFiberFlags>>
     \/ \E i \in SlotIds :
          /\ IsPushSlot(i, fid)
          /\ mWaitFlagStack' = [mWaitFlagStack EXCEPT ![i] = PushedSlot(@, fid, flags)]
          /\ mWaitFiberFlags' =
               IF Len(mWaitFlagStack[i].flagStack) >= WaitFlagFiberStackSize
               THEN mWaitFiberFlags ELSE mWaitFiberFlags \cup flags
  /\ unpopped' = [unpopped EXCEPT ![fid] = @ + 1]
  /\ UNCHANGED mUserWaitFiberFlags

\* The slot after a pop.  The accumulated .flag is left alone until the stack
\* is empty, and then the whole slot is zeroed.
PoppedSlot(s) ==
  LET t == IF s.overflow > 0 THEN [s EXCEPT !.overflow = @ - 1]
           ELSE IF s.flagStack # <<>>
                THEN [s EXCEPT !.flagStack = SubSeq(@, 1, Len(@) - 1)]
                ELSE s
  IN  IF t.flagStack = <<>> THEN EmptySlot ELSE t

popFiberSuspendFlags(fid) ==
  /\ \/ /\ Own(fid) = {}
        /\ UNCHANGED <<mWaitFlagStack, mWaitFiberFlags>>
     \/ \E i \in Own(fid) :
          /\ \A j \in Own(fid) : j <= i
          /\ mWaitFlagStack' = [mWaitFlagStack EXCEPT ![i] = PoppedSlot(@)]
          /\ mWaitFiberFlags' = recalculateSuspendFlags(mWaitFlagStack', mUserWaitFiberFlags)
  /\ unpopped' = [unpopped EXCEPT ![fid] = IF @ = 0 THEN 0 ELSE @ - 1]
  /\ UNCHANGED mUserWaitFiberFlags

\* Mutant: the cached word is not recomputed.
cleanupLeavesWord(gone) ==
  /\ mWaitFlagStack' = [i \in SlotIds |->
       IF mWaitFlagStack[i].fiberId \in gone THEN EmptySlot ELSE mWaitFlagStack[i]]
  /\ unpopped' = [f \in Fibers |-> IF f \in gone THEN 0 ELSE unpopped[f]]
  /\ UNCHANGED <<mWaitFiberFlags, mUserWaitFiberFlags>>

\* cleanupFiberSuspendFlags: a fiber that goes away drops its slot.  Written as
\* a function of the table, since callers clean several fibers in one step.
CleanedTable(ws, gone) ==
  LET Last(i) == \A j \in SlotIds :
                   ws[j].used /\ ws[j].fiberId = ws[i].fiberId => j <= i
  IN  [i \in SlotIds |-> IF ws[i].used /\ ws[i].fiberId \in gone /\ Last(i)
                         THEN EmptySlot ELSE ws[i]]

\* Dropping the slots of every fiber in gone, one call after the other.
cleanupFiberSuspendFlags(gone) ==
  /\ mWaitFlagStack' = CleanedTable(mWaitFlagStack, gone)
  /\ mWaitFiberFlags' =
       IF \E f \in gone : Own(f) # {}
       THEN recalculateSuspendFlags(mWaitFlagStack', mUserWaitFiberFlags)
       ELSE mWaitFiberFlags
  /\ unpopped' = [f \in Fibers |-> IF f \in gone THEN 0 ELSE unpopped[f]]
  /\ UNCHANGED mUserWaitFiberFlags

-----------------------------------------------------------------------------
(* The table on its own: any fiber may push, pop or go away at any time.   *)

FlagsNext ==
  \/ \E flags \in FlagSet : setSuspendMode(flags)
  \/ \E f \in Fibers, flags \in FlagSet : pushFiberSuspendFlags(f, flags)
  \/ \E f \in Fibers : popFiberSuspendFlags(f)
  \/ \E f \in Fibers : cleanupFiberSuspendFlags({f})

FlagsSpec == FlagsInit /\ [][FlagsNext]_flagVars

-----------------------------------------------------------------------------
(* Properties.                                                             *)

SlotType == [used : BOOLEAN, fiberId : Fibers \cup {0}, flag : FlagSet,
             flagStack : Seq(FlagSet), overflow : 0 .. 255]

\* The types of the table, of the flag words and of the history counter.
FlagsTypeOK ==
  /\ mWaitFlagStack \in [SlotIds -> SlotType]
  /\ mUserWaitFiberFlags \in FlagSet
  /\ mWaitFiberFlags \in FlagSet
  /\ unpopped \in [Fibers -> Nat]

\* The cached word the scheduler reads is always what recalculateSuspendFlags
\* would compute: no push, pop or cleanup leaves it stale.
WaitFlagsExact ==
  mWaitFiberFlags = recalculateSuspendFlags(mWaitFlagStack, mUserWaitFiberFlags)

\* A fiber never ends up with two slots, so the first-match search of push and
\* the last-match searches of pop and cleanup agree.
OneSlotPerFiber == \A i, j \in SlotIds :
  mWaitFlagStack[i].used /\ mWaitFlagStack[j].used
    /\ mWaitFlagStack[i].fiberId = mWaitFlagStack[j].fiberId => i = j

\* A slot is in use exactly while something is stacked in it, pushes are
\* counted as overflow only once the stack is full, and a flag still stacked
\* is in the accumulated word.
SlotShape == \A i \in SlotIds :
  LET s == mWaitFlagStack[i] IN
  /\ s.used <=> Len(s.flagStack) > 0
  /\ Len(s.flagStack) <= WaitFlagFiberStackSize
  /\ s.overflow > 0 => Len(s.flagStack) = WaitFlagFiberStackSize
  /\ \A k \in DOMAIN s.flagStack : s.flagStack[k] \subseteq s.flag
  /\ s.used => s.fiberId \in Fibers
  /\ ~s.used => s = EmptySlot

\* A slot never holds more than its fiber has pushed and not popped ...
HeldAtMostUnpopped == \A i \in SlotIds :
  LET s == mWaitFlagStack[i] IN
  s.used => Len(s.flagStack) + s.overflow <= unpopped[s.fiberId]

\* ... so a fiber whose pops match its pushes suspends nobody, whatever was
\* refused or overflowed in between.
BalancedHoldsNothing == \A f \in Fibers : unpopped[f] = 0 => Own(f) = {}

\* The table, its cached word and the fibers that pushed.
FlagsConsistent == WaitFlagsExact /\ OneSlotPerFiber /\ BalancedHoldsNothing
=============================================================================
