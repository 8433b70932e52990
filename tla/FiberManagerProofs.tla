------------------------- MODULE FiberManagerProofs -------------------------
(***************************************************************************)
(* Proofs about SuspendFlags, and about FiberManager for any fibers,       *)
(* flags, waits and bounds, when no script deletes the manager it runs     *)
(* under or has running fibers freed by cleanupFibers.                     *)
(*                                                                         *)
(* That entries and fibers correspond one to one is not inductive as it    *)
(* stands.  Which fiber is freed depends on who is RUNNING, hence on the   *)
(* call stack; which entry a loop gives up depends on the position it was  *)
(* left at when the fiber was resumed; and which id a new fiber gets on    *)
(* the VM's list of freed ids.                                             *)
(***************************************************************************)
EXTENDS FiberManager, TLAPS

-----------------------------------------------------------------------------
(* Suspend flags, for any flags, fibers and table sizes.                   *)
(*                                                                         *)
(* That the cached word is exact, that a fiber has at most one slot        *)
(* and that a balanced fiber holds none needs the shape of the slots: pop  *)
(* frees a slot only when its stack empties, so the count of what a slot   *)
(* holds must be tied to its stack.                                        *)

FlagsInv ==
  FlagsTypeOK /\ OneSlotPerFiber /\ SlotShape /\ HeldAtMostUnpopped /\ WaitFlagsExact

\* SlotShape of one slot, and what a slot holds.
ShapeOf(s) ==
  /\ s.used <=> Len(s.flagStack) > 0
  /\ Len(s.flagStack) <= WaitFlagFiberStackSize
  /\ s.overflow > 0 => Len(s.flagStack) = WaitFlagFiberStackSize
  /\ \A k \in DOMAIN s.flagStack : s.flagStack[k] \subseteq s.flag
  /\ s.used => s.fiberId \in Fibers
  /\ ~s.used => s = EmptySlot

Held(s) == Len(s.flagStack) + s.overflow

\* The zeroed slot is a slot.
LEMMA EmptySlotType == EmptySlot \in SlotType
  BY DEF EmptySlot, SlotType, FlagSet

\* The fields of a slot may be replaced one at a time.
LEMMA SlotOverflow ==
  ASSUME NEW s \in SlotType, NEW n \in 0 .. 255
  PROVE  [s EXCEPT !.overflow = n] \in SlotType
  BY Zenon DEF SlotType

LEMMA SlotStack ==
  ASSUME NEW s \in SlotType, NEW stack \in Seq(FlagSet)
  PROVE  [s EXCEPT !.flagStack = stack] \in SlotType
  BY Zenon DEF SlotType

\* What a slot holds is a number.
LEMMA HeldNat ==
  ASSUME NEW s \in SlotType
  PROVE  Held(s) \in Nat
<1>1. s.overflow \in 0 .. 255
  BY DEF SlotType
<1>2. s.overflow \in Nat
  BY <1>1
<1>3. s.flagStack \in Seq(FlagSet)
  BY DEF SlotType
<1>4. Len(s.flagStack) \in Nat
  BY <1>3
<1> QED  BY <1>2, <1>4 DEF Held

\* A push yields a slot.
LEMMA PushedSlotType ==
  ASSUME NEW s \in SlotType, NEW fid \in Fibers, NEW flags \in FlagSet
  PROVE  PushedSlot(s, fid, flags) \in SlotType
<1>1. s.overflow \in 0 .. 255 /\ s.flagStack \in Seq(FlagSet) /\ s.flag \in FlagSet
  BY DEF SlotType
<1>2. (s.overflow + 1) % 256 \in 0 .. 255
  <2>1. \A n \in 0 .. 255 : (n + 1) % 256 \in 0 .. 255
    OBVIOUS
  <2> QED  BY <1>1, <2>1, Zenon
<1>3. [s EXCEPT !.overflow = (@ + 1) % 256] \in SlotType
  BY <1>2, SlotOverflow
<1>4. Append(s.flagStack, flags) \in Seq(FlagSet) /\ s.flag \cup flags \in FlagSet
  BY <1>1 DEF FlagSet
<1>5. [used |-> TRUE, fiberId |-> fid, flag |-> s.flag \cup flags,
       flagStack |-> Append(s.flagStack, flags), overflow |-> s.overflow] \in SlotType
  BY <1>1, <1>4 DEF SlotType
<1> QED  BY <1>3, <1>5 DEF PushedSlot

\* A pop yields a slot.
LEMMA PoppedSlotType ==
  ASSUME NEW s \in SlotType
  PROVE  PoppedSlot(s) \in SlotType
<1>1. s.overflow \in 0 .. 255 /\ s.flagStack \in Seq(FlagSet)
  BY DEF SlotType
<1>2. CASE s.overflow > 0
  <2>1. s.overflow - 1 \in 0 .. 255
    BY <1>1, <1>2
  <2>2. [s EXCEPT !.overflow = @ - 1] \in SlotType
    BY <2>1, SlotOverflow
  <2> QED  BY <1>2, <2>2, EmptySlotType DEF PoppedSlot
<1>3. CASE ~(s.overflow > 0) /\ s.flagStack # <<>>
  <2>1. SubSeq(s.flagStack, 1, Len(s.flagStack) - 1) \in Seq(FlagSet)
    BY <1>1, <1>3
  <2>2. [s EXCEPT !.flagStack = SubSeq(@, 1, Len(@) - 1)] \in SlotType
    BY <2>1, SlotStack
  <2> QED  BY <1>3, <2>2, EmptySlotType DEF PoppedSlot
<1>4. CASE ~(s.overflow > 0) /\ s.flagStack = <<>>
  BY <1>4, EmptySlotType DEF PoppedSlot
<1> QED  BY <1>2, <1>3, <1>4

\* The union that recalculateSuspendFlags computes is a flag word.
LEMMA RecalculatedType ==
  ASSUME NEW ws \in [SlotIds -> SlotType], NEW user \in FlagSet
  PROVE  recalculateSuspendFlags(ws, user) \in FlagSet
  BY DEF recalculateSuspendFlags, FlagSet, SlotType

\* Cleaning up any set of fibers keeps the types.
LEMMA CleanupType ==
  ASSUME FlagsTypeOK, NEW gone, cleanupFiberSuspendFlags(gone)
  PROVE  FlagsTypeOK'
<1>1. mWaitFlagStack' \in [SlotIds -> SlotType]
  BY EmptySlotType DEF FlagsTypeOK, cleanupFiberSuspendFlags, CleanedTable
<1>2. mUserWaitFiberFlags' \in FlagSet
  BY DEF FlagsTypeOK, cleanupFiberSuspendFlags
<1>3. recalculateSuspendFlags(mWaitFlagStack', mUserWaitFiberFlags) \in FlagSet
  BY <1>1, RecalculatedType DEF FlagsTypeOK
<1>4. mWaitFiberFlags' \in FlagSet
  BY <1>3 DEF FlagsTypeOK, cleanupFiberSuspendFlags
<1>5. unpopped' \in [Fibers -> Nat]
  BY DEF FlagsTypeOK, cleanupFiberSuspendFlags
<1> QED  BY <1>1, <1>2, <1>4, <1>5 DEF FlagsTypeOK

\* Every operation of the manager keeps the types of the table and its words.
LEMMA FlagsTypeStep == FlagsTypeOK /\ [FlagsNext]_flagVars => FlagsTypeOK'
<1> SUFFICES ASSUME FlagsTypeOK, [FlagsNext]_flagVars PROVE FlagsTypeOK'
  OBVIOUS
<1> USE DEF FlagsTypeOK
<1>1. ASSUME NEW flags \in FlagSet, setSuspendMode(flags) PROVE FlagsTypeOK'
  BY <1>1, RecalculatedType DEF setSuspendMode
<1>2. ASSUME NEW f \in Fibers, NEW flags \in FlagSet, pushFiberSuspendFlags(f, flags)
      PROVE FlagsTypeOK'
  <2>1. unpopped' \in [Fibers -> Nat]
    BY <1>2 DEF pushFiberSuspendFlags
  <2>2. CASE Own(f) = {} /\ FreeSlots = {} /\ UNCHANGED <<mWaitFlagStack, mWaitFiberFlags>>
    BY <1>2, <2>1, <2>2 DEF pushFiberSuspendFlags
  <2>3. CASE \E i \in SlotIds :
               /\ mWaitFlagStack' = [mWaitFlagStack EXCEPT ![i] = PushedSlot(@, f, flags)]
               /\ mWaitFiberFlags' =
                    IF Len(mWaitFlagStack[i].flagStack) >= WaitFlagFiberStackSize
                    THEN mWaitFiberFlags ELSE mWaitFiberFlags \cup flags
    <3>1. PICK i \in SlotIds :
            /\ mWaitFlagStack' = [mWaitFlagStack EXCEPT ![i] = PushedSlot(@, f, flags)]
            /\ mWaitFiberFlags' =
                 IF Len(mWaitFlagStack[i].flagStack) >= WaitFlagFiberStackSize
                 THEN mWaitFiberFlags ELSE mWaitFiberFlags \cup flags
      BY <2>3
    <3>2. mWaitFlagStack' \in [SlotIds -> SlotType]
      BY <3>1, PushedSlotType
    <3>3. mWaitFiberFlags' \in FlagSet
      BY <3>1 DEF FlagSet
    <3> QED  BY <1>2, <2>1, <3>2, <3>3 DEF pushFiberSuspendFlags
  <2> QED  BY <1>2, <2>2, <2>3 DEF pushFiberSuspendFlags
<1>3. ASSUME NEW f \in Fibers, popFiberSuspendFlags(f) PROVE FlagsTypeOK'
  <2>1. unpopped' \in [Fibers -> Nat]
    BY <1>3 DEF popFiberSuspendFlags
  <2>2. mWaitFlagStack' \in [SlotIds -> SlotType] /\ mWaitFiberFlags' \in FlagSet
    <3>1. CASE UNCHANGED <<mWaitFlagStack, mWaitFiberFlags>>
      BY <3>1
    <3>2. CASE \E i \in Own(f) :
            /\ mWaitFlagStack' = [mWaitFlagStack EXCEPT ![i] = PoppedSlot(@)]
            /\ mWaitFiberFlags' = recalculateSuspendFlags(mWaitFlagStack', mUserWaitFiberFlags)
      <4>1. PICK i \in Own(f) :
              /\ mWaitFlagStack' = [mWaitFlagStack EXCEPT ![i] = PoppedSlot(@)]
              /\ mWaitFiberFlags' = recalculateSuspendFlags(mWaitFlagStack', mUserWaitFiberFlags)
        BY <3>2
      <4>2. i \in SlotIds /\ PoppedSlot(mWaitFlagStack[i]) \in SlotType
        BY PoppedSlotType DEF Own
      <4>3. mWaitFlagStack' \in [SlotIds -> SlotType]
        BY <4>1, <4>2
      <4> QED  BY <4>1, <4>3, RecalculatedType
    <3> QED  BY <1>3, <3>1, <3>2 DEF popFiberSuspendFlags
  <2> QED  BY <1>3, <2>1, <2>2 DEF popFiberSuspendFlags
<1>4. ASSUME NEW f \in Fibers, cleanupFiberSuspendFlags({f}) PROVE FlagsTypeOK'
  BY <1>4, CleanupType
<1>5. CASE UNCHANGED flagVars
  BY <1>5 DEF flagVars
<1> QED  BY <1>1, <1>2, <1>3, <1>4, <1>5 DEF FlagsNext

\* The manager is constructed with a zeroed table.
LEMMA FlagsTypeInit == FlagsInit => FlagsTypeOK
  BY EmptySlotType DEF FlagsInit, FlagsTypeOK, FlagSet

\* FlagsTypeOK holds whatever is pushed, popped and cleaned up: in particular the
\* overflow count of a slot stays a U8 and is never decremented below 0.
THEOREM FlagsTypeCorrect == FlagsSpec => []FlagsTypeOK
  BY FlagsTypeInit, FlagsTypeStep, PTL DEF FlagsSpec

-----------------------------------------------------------------------------
(* What an operation does to one slot.                                     *)

\* A push into the fiber's own slot or a free one leaves a used slot of that
\* fiber, with at most one push more.
LEMMA PushedShape ==
  ASSUME NEW s \in SlotType, NEW fid \in Fibers, NEW flags \in FlagSet, ShapeOf(s),
         (s.used /\ s.fiberId = fid) \/ ~s.used
  PROVE  LET p == PushedSlot(s, fid, flags)
             full == Len(s.flagStack) >= WaitFlagFiberStackSize
         IN  /\ ShapeOf(p) /\ p.used /\ p.fiberId = fid
             /\ Held(p) <= Held(s) + 1
             /\ full => s.used /\ p.flag = s.flag
             /\ ~full => p.flag = s.flag \cup flags
<1>0. s.overflow \in 0 .. 255
  BY DEF SlotType
<1>1. s.overflow \in Nat /\ s.flagStack \in Seq(FlagSet) /\ s.flag \in FlagSet /\ s.used \in BOOLEAN
  <2>1. s.overflow \in 0 .. 255
    BY DEF SlotType
  <2>2. s.overflow \in Nat
    BY <2>1
  <2>3. s.flagStack \in Seq(FlagSet) /\ s.flag \in FlagSet /\ s.used \in BOOLEAN
    BY DEF SlotType
  <2> QED  BY <2>2, <2>3
<1>2. WaitFlagFiberStackSize \in Nat \ {0}
  BY SuspendFlagsAssumption
<1>3. CASE Len(s.flagStack) >= WaitFlagFiberStackSize
  <2> DEFINE p == [s EXCEPT !.overflow = (@ + 1) % 256]
  <2>1. PushedSlot(s, fid, flags) = p
    BY <1>3 DEF PushedSlot
  <2>2. s.used /\ s.fiberId = fid
    BY <1>1, <1>2, <1>3 DEF ShapeOf
  <2>3. /\ p.used = s.used /\ p.fiberId = s.fiberId /\ p.flag = s.flag
        /\ p.flagStack = s.flagStack /\ p.overflow = (s.overflow + 1) % 256
    BY Zenon DEF SlotType
  <2>4. p.overflow \in Nat /\ p.overflow <= s.overflow + 1
    <3>1. \A n \in 0 .. 255 : (n + 1) % 256 \in Nat /\ (n + 1) % 256 <= n + 1
      OBVIOUS
    <3> QED  BY <1>0, <2>3, <3>1
  <2>5. Len(s.flagStack) = WaitFlagFiberStackSize
    BY <1>1, <1>2, <1>3 DEF ShapeOf
  <2>6. ShapeOf(p)
    BY <2>2, <2>3, <2>5, <1>2 DEF ShapeOf
  <2>7. Held(p) <= Held(s) + 1
    BY <1>1, <2>3, <2>4 DEF Held
  <2> QED  BY <1>3, <2>1, <2>2, <2>3, <2>6, <2>7
<1>4. CASE ~(Len(s.flagStack) >= WaitFlagFiberStackSize)
  <2> DEFINE p == [used |-> TRUE, fiberId |-> fid, flag |-> s.flag \cup flags,
                   flagStack |-> Append(s.flagStack, flags), overflow |-> s.overflow]
  <2>1. PushedSlot(s, fid, flags) = p
    BY <1>4 DEF PushedSlot
  <2>2. Len(p.flagStack) = Len(s.flagStack) + 1 /\ Len(s.flagStack) \in Nat
    BY <1>1
  <2>3. \A k \in DOMAIN p.flagStack : p.flagStack[k] \subseteq p.flag
    BY <1>1 DEF ShapeOf
  <2>4. s.overflow = 0
    BY <1>1, <1>2, <1>4 DEF ShapeOf
  <2>5. ShapeOf(p)
    BY <1>1, <1>2, <1>4, <2>2, <2>3, <2>4 DEF ShapeOf
  <2>6. Held(p) <= Held(s) + 1
    BY <1>1, <2>2 DEF Held
  <2> QED  BY <1>4, <2>1, <2>5, <2>6
<1> QED  BY <1>3, <1>4

\* A pop leaves an empty slot, or a used one of the same fiber with one less.
LEMMA PoppedShape ==
  ASSUME NEW s \in SlotType, ShapeOf(s), s.used
  PROVE  LET p == PoppedSlot(s)
         IN  /\ ShapeOf(p)
             /\ p.used => p.fiberId = s.fiberId /\ Held(p) + 1 <= Held(s)
<1>1. s.overflow \in Nat /\ s.flagStack \in Seq(FlagSet) /\ s.flag \in FlagSet /\ s.used \in BOOLEAN
  <2>1. s.overflow \in 0 .. 255
    BY DEF SlotType
  <2>2. s.overflow \in Nat
    BY <2>1
  <2>3. s.flagStack \in Seq(FlagSet) /\ s.flag \in FlagSet /\ s.used \in BOOLEAN
    BY DEF SlotType
  <2> QED  BY <2>2, <2>3
<1>2. WaitFlagFiberStackSize \in Nat \ {0}
  BY SuspendFlagsAssumption
<1>3. ShapeOf(EmptySlot) /\ ~EmptySlot.used
  BY <1>2 DEF ShapeOf, EmptySlot
<1>4. Len(s.flagStack) \in Nat \ {0} /\ s.flagStack # <<>>
  BY <1>1 DEF ShapeOf
<1>5. CASE s.overflow > 0
  <2> DEFINE t == [s EXCEPT !.overflow = @ - 1]
  <2>1. /\ t.used = s.used /\ t.fiberId = s.fiberId /\ t.flag = s.flag
        /\ t.flagStack = s.flagStack /\ t.overflow = s.overflow - 1
    BY Zenon DEF SlotType
  <2>2. PoppedSlot(s) = t
    BY <1>4, <1>5, <2>1 DEF PoppedSlot
  <2>3. ShapeOf(t)
    BY <1>1, <1>2, <1>5, <2>1 DEF ShapeOf
  <2>4. Held(t) + 1 <= Held(s)
    BY <1>1, <1>4, <2>1 DEF Held
  <2> QED  BY <2>1, <2>2, <2>3, <2>4
<1>6. CASE ~(s.overflow > 0)
  <2> DEFINE t == [s EXCEPT !.flagStack = SubSeq(@, 1, Len(@) - 1)]
  <2>1. /\ t.used = s.used /\ t.fiberId = s.fiberId /\ t.flag = s.flag
        /\ t.flagStack = SubSeq(s.flagStack, 1, Len(s.flagStack) - 1) /\ t.overflow = s.overflow
    BY Zenon DEF SlotType
  <2>2. /\ Len(t.flagStack) = Len(s.flagStack) - 1
        /\ t.flagStack \in Seq(FlagSet)
        /\ \A k \in DOMAIN t.flagStack : k \in DOMAIN s.flagStack /\ t.flagStack[k] = s.flagStack[k]
    BY <1>1, <1>4, <2>1
  <2>3. CASE t.flagStack = <<>>
    <3>1. PoppedSlot(s) = EmptySlot
      BY <1>4, <1>6, <2>3 DEF PoppedSlot
    <3> QED  BY <1>3, <3>1
  <2>4. CASE t.flagStack # <<>>
    <3>1. PoppedSlot(s) = t
      BY <1>4, <1>6, <2>4 DEF PoppedSlot
    <3>2. Len(t.flagStack) > 0
      BY <2>2, <2>4
    <3>3. ShapeOf(t)
      BY <1>1, <1>2, <1>6, <2>1, <2>2, <3>2 DEF ShapeOf
    <3>4. Held(t) + 1 <= Held(s)
      BY <1>1, <1>4, <2>1, <2>2 DEF Held
    <3> QED  BY <2>1, <3>1, <3>3, <3>4
  <2> QED  BY <2>3, <2>4
<1> QED  BY <1>5, <1>6

-----------------------------------------------------------------------------
(* The inductive invariant.                                                *)

\* The slot the search of push ends on is the fiber's only one, or a free one of
\* a fiber that has none.
LEMMA PushSlotIs ==
  ASSUME NEW i \in SlotIds, NEW f \in Fibers, IsPushSlot(i, f)
  PROVE  \/ mWaitFlagStack[i].used /\ mWaitFlagStack[i].fiberId = f
         \/ ~mWaitFlagStack[i].used /\ Own(f) = {}
  BY DEF IsPushSlot, Own, FreeSlots

\* Nothing is pushed in a fresh table.
LEMMA FlagsInvInit == FlagsInit => FlagsInv
<1> SUFFICES ASSUME FlagsInit PROVE FlagsInv
  OBVIOUS
<1>1. FlagsTypeOK
  BY FlagsTypeInit
<1>2. \A i \in SlotIds : mWaitFlagStack[i] = EmptySlot
  BY DEF FlagsInit
<1>3. OneSlotPerFiber /\ HeldAtMostUnpopped
  BY <1>2 DEF OneSlotPerFiber, HeldAtMostUnpopped, EmptySlot
<1>4. SlotShape
  BY <1>2, SuspendFlagsAssumption DEF SlotShape, EmptySlot
<1>5. WaitFlagsExact
  BY <1>2 DEF FlagsInit, WaitFlagsExact, recalculateSuspendFlags, EmptySlot
<1> QED  BY <1>1, <1>3, <1>4, <1>5 DEF FlagsInv

\* A push keeps the invariant: it writes one slot, and adds to the cached word
\* what it adds to that slot.
LEMMA PushInv ==
  ASSUME NEW f \in Fibers, NEW flags \in FlagSet, FlagsInv, FlagsTypeOK',
         pushFiberSuspendFlags(f, flags)
  PROVE  OneSlotPerFiber' /\ SlotShape' /\ HeldAtMostUnpopped' /\ WaitFlagsExact'
<1> USE DEF FlagsInv
<1>1. /\ \A g \in Fibers : unpopped[g] \in Nat /\ unpopped'[g] \in Nat
      /\ \A g \in Fibers : unpopped[g] <= unpopped'[g]
      /\ unpopped'[f] = unpopped[f] + 1
      /\ mUserWaitFiberFlags' = mUserWaitFiberFlags
  BY DEF FlagsTypeOK, pushFiberSuspendFlags
<1>2. \A i \in SlotIds : /\ mWaitFlagStack[i] \in SlotType /\ ShapeOf(mWaitFlagStack[i])
                         /\ Held(mWaitFlagStack[i]) \in Nat
  BY HeldNat DEF FlagsTypeOK, SlotShape, ShapeOf
<1>3. CASE Own(f) = {} /\ FreeSlots = {} /\ UNCHANGED <<mWaitFlagStack, mWaitFiberFlags>>
  <2>1. OneSlotPerFiber' /\ SlotShape' /\ WaitFlagsExact'
    BY <1>1, <1>3 DEF OneSlotPerFiber, SlotShape, WaitFlagsExact, recalculateSuspendFlags
  <2>2. HeldAtMostUnpopped'
    <3> SUFFICES ASSUME NEW i \in SlotIds, mWaitFlagStack[i].used
                 PROVE  Held(mWaitFlagStack[i]) <= unpopped'[mWaitFlagStack[i].fiberId]
      BY <1>3 DEF HeldAtMostUnpopped, Held
    <3>1. mWaitFlagStack[i].fiberId \in Fibers
      BY DEF SlotShape
    <3>2. Held(mWaitFlagStack[i]) <= unpopped[mWaitFlagStack[i].fiberId]
      BY DEF HeldAtMostUnpopped, Held
    <3> QED  BY <1>1, <1>2, <3>1, <3>2
  <2> QED  BY <2>1, <2>2
<1>4. ASSUME NEW i \in SlotIds, IsPushSlot(i, f),
             mWaitFlagStack' = [mWaitFlagStack EXCEPT ![i] = PushedSlot(@, f, flags)],
             mWaitFiberFlags' = IF Len(mWaitFlagStack[i].flagStack) >= WaitFlagFiberStackSize
                                THEN mWaitFiberFlags ELSE mWaitFiberFlags \cup flags
      PROVE  OneSlotPerFiber' /\ SlotShape' /\ HeldAtMostUnpopped' /\ WaitFlagsExact'
  <2> DEFINE s == mWaitFlagStack[i]
             p == PushedSlot(s, f, flags)
             full == Len(s.flagStack) >= WaitFlagFiberStackSize
  <2>1. \/ s.used /\ s.fiberId = f
        \/ ~s.used /\ Own(f) = {}
    BY <1>4, PushSlotIs
  <2>2. /\ ShapeOf(p) /\ p.used /\ p.fiberId = f
        /\ Held(p) <= Held(s) + 1
        /\ full => s.used /\ p.flag = s.flag
        /\ ~full => p.flag = s.flag \cup flags
    BY <1>2, <2>1, PushedShape
  <2>3. /\ mWaitFlagStack'[i] = p
        /\ \A j \in SlotIds : j # i => mWaitFlagStack'[j] = mWaitFlagStack[j]
    BY <1>4 DEF FlagsTypeOK
  <2>4. OneSlotPerFiber'
    <3>1. \A j \in SlotIds : mWaitFlagStack[j].used /\ mWaitFlagStack[j].fiberId = f => j = i
      BY <2>1 DEF OneSlotPerFiber, Own
    <3> HIDE DEF p, s
    <3> QED  BY <2>2, <2>3, <3>1 DEF OneSlotPerFiber
  <2>5. SlotShape'
    <3>1. \A j \in SlotIds : ShapeOf(mWaitFlagStack'[j])
      BY <1>2, <2>2, <2>3
    <3> QED  BY <3>1 DEF SlotShape, ShapeOf
  <2>6. HeldAtMostUnpopped'
    <3>1. Held(s) <= unpopped[f]
      <4>1. CASE s.used
        BY <2>1, <4>1 DEF HeldAtMostUnpopped, Held
      <4>2. CASE ~s.used
        BY <1>1, <1>2, <4>2 DEF ShapeOf, EmptySlot, Held
      <4> QED  BY <4>1, <4>2
    <3>2. Held(p) \in Nat
      BY <1>2, PushedSlotType, HeldNat
    <3>3. Held(p) <= unpopped'[f]
      <4> HIDE DEF p, s
      <4> QED  BY <1>1, <1>2, <2>2, <3>1, <3>2 DEF s
    <3>4. ASSUME NEW j \in SlotIds, j # i, mWaitFlagStack[j].used
          PROVE  Held(mWaitFlagStack[j]) <= unpopped'[mWaitFlagStack[j].fiberId]
      <4>1. mWaitFlagStack[j].fiberId \in Fibers
        BY <3>4 DEF SlotShape
      <4>2. Held(mWaitFlagStack[j]) <= unpopped[mWaitFlagStack[j].fiberId]
        BY <3>4 DEF HeldAtMostUnpopped, Held
      <4> QED  BY <1>1, <1>2, <4>1, <4>2
    <3>5. \A j \in SlotIds : mWaitFlagStack'[j].used
             => Held(mWaitFlagStack'[j]) <= unpopped'[mWaitFlagStack'[j].fiberId]
      BY <2>2, <2>3, <3>3, <3>4
    <3> QED  BY <3>5 DEF HeldAtMostUnpopped, Held
  <2>7. WaitFlagsExact'
    <3> DEFINE Word(j, x) == mWaitFlagStack[j].used /\ x \in mWaitFlagStack[j].flag
    <3>1. \A x : x \in mWaitFiberFlags
                 <=> x \in mUserWaitFiberFlags \/ \E j \in SlotIds : Word(j, x)
      BY DEF WaitFlagsExact, recalculateSuspendFlags
    <3>2. \A x : x \in p.flag <=> Word(i, x) \/ (~full /\ x \in flags)
      BY <1>2, <2>2 DEF ShapeOf, EmptySlot
    <3>3. \A x : x \in mWaitFiberFlags' <=> x \in mWaitFiberFlags \/ (~full /\ x \in flags)
      BY <1>4
    <3> HIDE DEF p, s, full
    <3>4. \A x : x \in mWaitFiberFlags'
                 <=> x \in mUserWaitFiberFlags'
                     \/ \E j \in SlotIds : mWaitFlagStack'[j].used /\ x \in mWaitFlagStack'[j].flag
      BY <1>1, <2>2, <2>3, <3>1, <3>2, <3>3
    <3> QED  BY <3>4 DEF WaitFlagsExact, recalculateSuspendFlags
  <2> QED  BY <2>4, <2>5, <2>6, <2>7
<1> QED  BY <1>3, <1>4 DEF pushFiberSuspendFlags

\* A table in which some slots of fibers were replaced, each by an empty slot or
\* by one of the same fiber, keeps one slot per fiber.
LEMMA ReplacedOneSlot ==
  ASSUME OneSlotPerFiber,
         \A j \in SlotIds : mWaitFlagStack'[j].used =>
            mWaitFlagStack[j].used /\ mWaitFlagStack'[j].fiberId = mWaitFlagStack[j].fiberId
  PROVE  OneSlotPerFiber'
  BY DEF OneSlotPerFiber

\* A pop keeps the invariant: it takes from one slot at most what the history
\* counter loses.
LEMMA PopInv ==
  ASSUME NEW f \in Fibers, FlagsInv, FlagsTypeOK', popFiberSuspendFlags(f)
  PROVE  OneSlotPerFiber' /\ SlotShape' /\ HeldAtMostUnpopped' /\ WaitFlagsExact'
<1> USE DEF FlagsInv
<1>1. /\ \A g \in Fibers : unpopped[g] \in Nat /\ unpopped'[g] \in Nat
      /\ \A g \in Fibers : g # f => unpopped'[g] = unpopped[g]
      /\ unpopped[f] <= unpopped'[f] + 1
      /\ mUserWaitFiberFlags' = mUserWaitFiberFlags
  BY DEF FlagsTypeOK, popFiberSuspendFlags
<1>2. \A i \in SlotIds : /\ mWaitFlagStack[i] \in SlotType /\ ShapeOf(mWaitFlagStack[i])
                         /\ Held(mWaitFlagStack[i]) \in Nat
  BY HeldNat DEF FlagsTypeOK, SlotShape, ShapeOf
<1>3. ASSUME NEW j \in SlotIds, mWaitFlagStack[j].used, mWaitFlagStack[j].fiberId # f
      PROVE  Held(mWaitFlagStack[j]) <= unpopped'[mWaitFlagStack[j].fiberId]
  <2>1. mWaitFlagStack[j].fiberId \in Fibers
    BY <1>3 DEF SlotShape
  <2>2. Held(mWaitFlagStack[j]) <= unpopped[mWaitFlagStack[j].fiberId]
    BY <1>3 DEF HeldAtMostUnpopped, Held
  <2> QED  BY <1>1, <1>2, <1>3, <2>1, <2>2
<1>4. CASE Own(f) = {} /\ UNCHANGED <<mWaitFlagStack, mWaitFiberFlags>>
  <2>1. OneSlotPerFiber' /\ SlotShape' /\ WaitFlagsExact'
    BY <1>1, <1>4 DEF OneSlotPerFiber, SlotShape, WaitFlagsExact, recalculateSuspendFlags
  <2>2. HeldAtMostUnpopped'
    BY <1>3, <1>4 DEF HeldAtMostUnpopped, Held, Own
  <2> QED  BY <2>1, <2>2
<1>5. ASSUME NEW i \in Own(f),
             mWaitFlagStack' = [mWaitFlagStack EXCEPT ![i] = PoppedSlot(@)],
             mWaitFiberFlags' = recalculateSuspendFlags(mWaitFlagStack', mUserWaitFiberFlags)
      PROVE  OneSlotPerFiber' /\ SlotShape' /\ HeldAtMostUnpopped' /\ WaitFlagsExact'
  <2> DEFINE s == mWaitFlagStack[i]
             p == PoppedSlot(s)
  <2>1. i \in SlotIds /\ s.used /\ s.fiberId = f
    BY DEF Own
  <2>2. ShapeOf(p) /\ (p.used => p.fiberId = f /\ Held(p) + 1 <= Held(s))
    BY <1>2, <2>1, PoppedShape
  <2>3. /\ mWaitFlagStack'[i] = p
        /\ \A j \in SlotIds : j # i => mWaitFlagStack'[j] = mWaitFlagStack[j]
    BY <1>5, <2>1 DEF FlagsTypeOK
  <2>4. OneSlotPerFiber'
    <3> HIDE DEF p
    <3> QED  BY <2>1, <2>2, <2>3, ReplacedOneSlot
  <2>5. SlotShape'
    <3>1. \A j \in SlotIds : ShapeOf(mWaitFlagStack'[j])
      BY <1>2, <2>2, <2>3
    <3> QED  BY <3>1 DEF SlotShape, ShapeOf
  <2>6. HeldAtMostUnpopped'
    <3>1. Held(s) <= unpopped[f]
      BY <2>1 DEF HeldAtMostUnpopped, Held
    <3>2. Held(p) \in Nat
      BY <1>2, <2>1, PoppedSlotType, HeldNat
    <3>3. p.used => Held(p) <= unpopped'[f]
      <4> HIDE DEF p, s
      <4> QED  BY <1>1, <1>2, <2>1, <2>2, <3>1, <3>2 DEF s
    <3>4. \A j \in SlotIds : j # i /\ mWaitFlagStack[j].used => mWaitFlagStack[j].fiberId # f
      BY <2>1 DEF OneSlotPerFiber
    <3> HIDE DEF p, s
    <3>5. \A j \in SlotIds : mWaitFlagStack'[j].used
             => Held(mWaitFlagStack'[j]) <= unpopped'[mWaitFlagStack'[j].fiberId]
      BY <1>3, <2>2, <2>3, <3>3, <3>4
    <3> QED  BY <3>5 DEF HeldAtMostUnpopped, Held
  <2>7. WaitFlagsExact'
    BY <1>1, <1>5 DEF WaitFlagsExact, recalculateSuspendFlags
  <2> QED  BY <2>4, <2>5, <2>6, <2>7
<1> QED  BY <1>4, <1>5 DEF popFiberSuspendFlags

\* With one slot per fiber, the slot the search ends on is all a fiber has: no
\* slot of the fibers that go away is left.
LEMMA CleanedSlots ==
  ASSUME FlagsInv, NEW gone, cleanupFiberSuspendFlags(gone)
  PROVE  \A j \in SlotIds :
           mWaitFlagStack'[j] = IF mWaitFlagStack[j].used /\ mWaitFlagStack[j].fiberId \in gone
                                THEN EmptySlot ELSE mWaitFlagStack[j]
<1>1. \A j \in SlotIds : j <= j
  BY SuspendFlagsAssumption DEF SlotIds
<1>2. \A i, j \in SlotIds : /\ mWaitFlagStack[i].used /\ mWaitFlagStack[j].used
                             /\ mWaitFlagStack[j].fiberId = mWaitFlagStack[i].fiberId => j <= i
  BY <1>1 DEF FlagsInv, OneSlotPerFiber
<1> QED  BY <1>2 DEF cleanupFiberSuspendFlags, CleanedTable

\* Cleaning up any set of fibers keeps the invariant.
LEMMA CleanupInv ==
  ASSUME FlagsInv, NEW gone, cleanupFiberSuspendFlags(gone)
  PROVE  FlagsInv'
<1> USE DEF FlagsInv
<1>1. \A j \in SlotIds :
        mWaitFlagStack'[j] = IF mWaitFlagStack[j].used /\ mWaitFlagStack[j].fiberId \in gone
                             THEN EmptySlot ELSE mWaitFlagStack[j]
  BY CleanedSlots
<1>2. ShapeOf(EmptySlot) /\ ~EmptySlot.used
  BY SuspendFlagsAssumption DEF ShapeOf, EmptySlot
<1>3. OneSlotPerFiber'
  BY <1>1, <1>2, ReplacedOneSlot
<1>4. SlotShape'
  <2>1. \A j \in SlotIds : ShapeOf(mWaitFlagStack'[j])
    BY <1>1, <1>2 DEF SlotShape, ShapeOf
  <2> QED  BY <2>1 DEF SlotShape, ShapeOf
<1>5. HeldAtMostUnpopped'
  <2>1. \A j \in SlotIds : mWaitFlagStack'[j].used =>
          /\ mWaitFlagStack'[j] = mWaitFlagStack[j]
          /\ mWaitFlagStack[j].fiberId \in Fibers \ gone
    BY <1>1, <1>2 DEF SlotShape
  <2>2. \A g \in Fibers \ gone : unpopped'[g] = unpopped[g]
    BY DEF cleanupFiberSuspendFlags
  <2> QED  BY <2>1, <2>2 DEF HeldAtMostUnpopped
<1>6. WaitFlagsExact'
  <2>1. CASE \E f \in gone : Own(f) # {}
    BY <2>1 DEF cleanupFiberSuspendFlags, WaitFlagsExact, recalculateSuspendFlags
  <2>2. CASE ~(\E f \in gone : Own(f) # {})
    <3>1. \A j \in SlotIds : mWaitFlagStack'[j] = mWaitFlagStack[j]
      BY <1>1, <2>2 DEF Own
    <3>2. mWaitFiberFlags' = mWaitFiberFlags /\ mUserWaitFiberFlags' = mUserWaitFiberFlags
      BY <2>2 DEF cleanupFiberSuspendFlags
    <3> QED  BY <3>1, <3>2 DEF WaitFlagsExact, recalculateSuspendFlags
  <2> QED  BY <2>1, <2>2
<1>7. FlagsTypeOK'
  BY CleanupType
<1> QED  BY <1>3, <1>4, <1>5, <1>6, <1>7

\* Every operation keeps the invariant.
LEMMA FlagsInvStep == FlagsInv /\ [FlagsNext]_flagVars => FlagsInv'
<1> SUFFICES ASSUME FlagsInv, [FlagsNext]_flagVars PROVE FlagsInv'
  OBVIOUS
<1>1. FlagsTypeOK'
  BY FlagsTypeStep DEF FlagsInv
<1>2. ASSUME NEW flags \in FlagSet, setSuspendMode(flags) PROVE FlagsInv'
  BY <1>1, <1>2 DEF FlagsInv, setSuspendMode, OneSlotPerFiber, SlotShape,
                    HeldAtMostUnpopped, WaitFlagsExact, recalculateSuspendFlags
<1>3. ASSUME NEW f \in Fibers, NEW flags \in FlagSet, pushFiberSuspendFlags(f, flags)
      PROVE FlagsInv'
  BY <1>1, <1>3, PushInv DEF FlagsInv
<1>4. ASSUME NEW f \in Fibers, popFiberSuspendFlags(f) PROVE FlagsInv'
  BY <1>1, <1>4, PopInv DEF FlagsInv
<1>5. ASSUME NEW f \in Fibers, cleanupFiberSuspendFlags({f}) PROVE FlagsInv'
  BY <1>5, CleanupInv
<1>6. CASE UNCHANGED flagVars
  BY <1>1, <1>6 DEF FlagsInv, flagVars, OneSlotPerFiber, SlotShape,
                    HeldAtMostUnpopped, WaitFlagsExact, recalculateSuspendFlags
<1> QED  BY <1>2, <1>3, <1>4, <1>5, <1>6 DEF FlagsNext

\* A slot in use holds something, so a fiber that has popped all it pushed has none.
LEMMA BalancedFromInv == FlagsInv => BalancedHoldsNothing
<1> SUFFICES ASSUME FlagsInv, NEW f \in Fibers, unpopped[f] = 0, NEW i \in Own(f)
             PROVE  FALSE
  BY DEF BalancedHoldsNothing
<1> DEFINE s == mWaitFlagStack[i]
<1>1. i \in SlotIds /\ s.used /\ s.fiberId = f
  BY DEF Own
<1>2. s \in SlotType
  BY <1>1 DEF FlagsInv, FlagsTypeOK
<1>3. s.overflow \in 0 .. 255
  BY <1>2 DEF SlotType
<1>4. s.overflow \in Nat
  BY <1>3
<1>5. s.flagStack \in Seq(FlagSet) /\ Len(s.flagStack) \in Nat /\ Len(s.flagStack) > 0
  BY <1>1, <1>2 DEF FlagsInv, SlotShape, SlotType
<1>6. Len(s.flagStack) + s.overflow <= unpopped[f]
  BY <1>1 DEF FlagsInv, HeldAtMostUnpopped
<1> QED  BY <1>4, <1>5, <1>6

\* The word the scheduler reads is never stale, for any table size.
THEOREM WaitFlagsAlwaysExact == FlagsSpec => []WaitFlagsExact
<1>1. FlagsInv => WaitFlagsExact
  BY DEF FlagsInv
<1> QED  BY <1>1, FlagsInvInit, FlagsInvStep, PTL DEF FlagsSpec

\* No order of pushes, pops and cleanups gives a fiber two slots.
THEOREM AlwaysOneSlotPerFiber == FlagsSpec => []OneSlotPerFiber
<1>1. FlagsInv => OneSlotPerFiber
  BY DEF FlagsInv
<1> QED  BY <1>1, FlagsInvInit, FlagsInvStep, PTL DEF FlagsSpec

\* A fiber whose pops match its pushes holds nobody back, even when pushes
\* were refused, overflowed the slot, or wrapped the U8 overflow count.
THEOREM BalancedFibersHoldNothing == FlagsSpec => []BalancedHoldsNothing
  BY BalancedFromInv, FlagsInvInit, FlagsInvStep, PTL DEF FlagsSpec
\* The three together: what the run checks of the table, for any table size.
THEOREM FlagsStayConsistent == FlagsSpec => []FlagsConsistent
<1>1. FlagsInv => FlagsConsistent
  BY BalancedFromInv DEF FlagsInv, FlagsConsistent
<1> QED  BY <1>1, FlagsInvInit, FlagsInvStep, PTL DEF FlagsSpec

-----------------------------------------------------------------------------
(* The manager. *)


\* The VM's list of freed items holds exactly the numbers handed out and freed,
\* each once.
TableOK(v) ==
  /\ v.size >= 1
  /\ \A i, j \in DOMAIN v.mFreeItems : v.mFreeItems[i] = v.mFreeItems[j] => i = j
  /\ \A i \in DOMAIN v.mFreeItems : v.mFreeItems[i] <= HandleValue(v.size)
  /\ \A f \in Fibers : v.state[f] = "FREE" <=>
       f > HandleValue(v.size) \/ \E i \in DOMAIN v.mFreeItems : v.mFreeItems[i] = f

\* EntriesOwnFibers, of a schedule and a table.
EntriesOK(s, v) ==
  /\ \A i \in DOMAIN s : s[i].fiberId # 0 => Live(v, s[i].fiberId)
  /\ \A i, j \in DOMAIN s : s[i].fiberId = s[j].fiberId /\ s[i].fiberId # 0 => i = j
  /\ \A f \in Fibers : Live(v, f) => \E i \in DOMAIN s : s[i].fiberId = f

\* The call stack: every run in it is of another fiber, each returns to the one
\* below it, and the RUNNING fibers are those on it.
StackOK(r, l, v) ==
  /\ \A i, j \in DOMAIN r : r[i].fiber = r[j].fiber => i = j
  /\ \A f \in Fibers : v.state[f] = "RUNNING" <=> \E i \in DOMAIN r : r[i].fiber = f
  /\ \A i \in DOMAIN r : r[i].ret = IF i = 1 THEN Main ELSE r[i - 1].fiber
  /\ r # <<>> => v.current = r[Len(r)].fiber
  /\ r = <<>> /\ l = Idle => v.current = Main

\* The loop: where it may be, also while a fiber it has resumed runs.
LoopOK(l, r, s) ==
  /\ l.kind = "idle" <=> l = Idle
  /\ l.kind = "exec" => l.pos >= 1 /\ l.end <= Len(s)
  /\ l.kind = "throw" => l.pos <= Len(s)
  /\ l # Idle /\ r # <<>> => l.pos \in DOMAIN s

\* All of this together, with the types.
MachineOK(s, v, l, r) ==
  /\ s \in Seq(InfoType) /\ v \in VmType /\ l \in LoopType /\ r \in Seq(RunType)
  /\ TableOK(v) /\ EntriesOK(s, v) /\ StackOK(r, l, v) /\ LoopOK(l, r, s)

\* SuspendersExist, of a flag table and a fiber table.
HoldersOK(ws, v) == \A s \in SlotIds : ws[s].used => Live(v, ws[s].fiberId)

WordsOK ==
  /\ mFiberGlobalFlags \in SUBSET Flags /\ mThrowResumeGuardFlags \in SUBSET Flags
  /\ mNowTick \in 0 .. MaxTick /\ alive \in BOOLEAN /\ now \in Times

\* The inductive invariant.
FMInv ==
  /\ WordsOK
  /\ FlagsInv
  /\ MachineOK(mFiberSchedules, vm, loop, runs)
  /\ ~alive => mFiberSchedules = <<>> /\ loop = Idle /\ runs = <<>>
  /\ alive => HoldersOK(mWaitFlagStack, vm)
-----------------------------------------------------------------------------
(* What the calls do to the VM's table.                                    *)

\* A table is its four fields.
LEMMA VmFields ==
  ASSUME NEW v \in VmType
  PROVE  /\ v.state \in [Fibers -> FiberStates] /\ v.mFreeItems \in Seq(Fibers)
         /\ v.size \in Nat /\ v.current \in Fibers \cup {Main, Dangling}
         /\ v = [state |-> v.state, mFreeItems |-> v.mFreeItems, size |-> v.size,
                 current |-> v.current]
  BY DEF VmType

\* Handles of items are numbers above the main fiber's, and none is 0.
LEMMA FiberNumbers ==
  /\ \A f \in Fibers : f \in Nat /\ f > Main /\ f # 0
  /\ Main \notin Fibers /\ Dangling \notin Fibers /\ 0 \notin Fibers /\ Main # 0
  BY FibersAssumption DEF Main, HandleValue, Dangling

LEMMA SetMainIs ==
  ASSUME NEW v \in VmType
  PROVE  LET w == setCurrentFiberMain(v) IN
         /\ w \in VmType /\ w.state = v.state /\ w.mFreeItems = v.mFreeItems /\ w.size = v.size
         /\ w.current = Main
  BY DEF setCurrentFiberMain, VmType

\* Making a live fiber, or the main one, current.
LEMMA SetCurrentIs ==
  ASSUME NEW v \in VmType, NEW id, id = Main \/ Live(v, id)
  PROVE  LET w == setCurrentFiber(v, id) IN
         /\ w \in VmType /\ w.state = v.state /\ w.mFreeItems = v.mFreeItems /\ w.size = v.size
         /\ w.current = id
  BY DEF setCurrentFiber, VmType, Live

LEMMA SetStateIs ==
  ASSUME NEW v \in VmType, NEW id \in Fibers, NEW s \in FiberStates
  PROVE  LET w == SetState(v, id, s) IN
         /\ w \in VmType /\ w.mFreeItems = v.mFreeItems /\ w.size = v.size /\ w.current = v.current
         /\ \A f \in Fibers : w.state[f] = IF f = id THEN s ELSE v.state[f]
  BY DEF SetState, VmType


\* createFiber: the id it returns was free, and only its state changes.
LEMMA CreateIs ==
  ASSUME NEW v \in VmType, TableOK(v), NextFiber(v) \in Fibers
  PROVE  LET w == createFiber(v) IN
         /\ w \in VmType /\ TableOK(w) /\ w.current = v.current
         /\ v.state[NextFiber(v)] = "FREE"
         /\ \A f \in Fibers : w.state[f] = IF f = NextFiber(v) THEN "INACTIVE" ELSE v.state[f]
<1> DEFINE id == NextFiber(v)
           w == createFiber(v)
           rest == SubSeq(v.mFreeItems, 1, Len(v.mFreeItems) - 1)
<1>1. /\ v.state \in [Fibers -> FiberStates] /\ v.mFreeItems \in Seq(Fibers)
      /\ v.size \in Nat /\ v.current \in Fibers \cup {Main, Dangling}
  BY VmFields
<1>2. /\ w.state = [v.state EXCEPT ![id] = "INACTIVE"] /\ w.current = v.current
      /\ w.mFreeItems = IF v.mFreeItems # <<>> THEN rest ELSE <<>>
      /\ w.size = IF v.mFreeItems # <<>> THEN v.size ELSE v.size + 1
      /\ w = [state |-> w.state, mFreeItems |-> w.mFreeItems, size |-> w.size, current |-> w.current]
  BY DEF createFiber
<1>3. \A f \in Fibers : w.state[f] = IF f = id THEN "INACTIVE" ELSE v.state[f]
  BY <1>1, <1>2
<1>4. v.mFreeItems # <<>> =>
        /\ rest \in Seq(Fibers) /\ Len(rest) = Len(v.mFreeItems) - 1
        /\ Len(v.mFreeItems) \in DOMAIN v.mFreeItems /\ v.mFreeItems[Len(v.mFreeItems)] = id
        /\ DOMAIN rest \subseteq DOMAIN v.mFreeItems
        /\ Len(v.mFreeItems) \notin DOMAIN rest
        /\ DOMAIN v.mFreeItems = DOMAIN rest \cup {Len(v.mFreeItems)}
        /\ \A i \in DOMAIN rest : rest[i] = v.mFreeItems[i]
  BY <1>1 DEF NextFiber
<1> HIDE DEF w, rest
<1>5. w.mFreeItems \in Seq(Fibers) /\ w.size \in Nat
  BY <1>1, <1>2, <1>4
<1>6. w.state \in [Fibers -> FiberStates]
  BY <1>1, <1>2 DEF FiberStates
<1>7. w \in VmType
  BY <1>1, <1>2, <1>5, <1>6 DEF VmType
<1>8. CASE v.mFreeItems # <<>>
  <2>1. v.state[id] = "FREE"
    BY <1>4, <1>8 DEF TableOK
  <2>2. w.mFreeItems = rest /\ w.size = v.size
    BY <1>2, <1>8
  <2>3. \A i \in DOMAIN rest : rest[i] # id
    BY <1>4, <1>8 DEF TableOK
  <2>4. \A f \in Fibers : (\E i \in DOMAIN rest : rest[i] = f)
                            <=> f # id /\ \E i \in DOMAIN v.mFreeItems : v.mFreeItems[i] = f
    BY <1>4, <1>8, <2>3
  <2>5. ~(id > HandleValue(v.size))
    <3>1. id <= HandleValue(v.size)
      BY <1>4, <1>8 DEF TableOK
    <3>2. id \in Nat /\ HandleValue(v.size) \in Nat
      BY <1>1, FiberNumbers DEF HandleValue
    <3> QED  BY <3>1, <3>2
  <2>6. \A f \in Fibers : w.state[f] = "FREE" <=>
          f > HandleValue(v.size) \/ \E i \in DOMAIN rest : rest[i] = f
    BY <1>3, <2>4, <2>5 DEF TableOK
  <2>7. /\ \A i, j \in DOMAIN rest : rest[i] = rest[j] => i = j
        /\ \A i \in DOMAIN rest : rest[i] <= HandleValue(v.size)
        /\ v.size >= 1
    BY <1>4, <1>8 DEF TableOK
  <2>8. TableOK(w)
    BY <2>2, <2>6, <2>7 DEF TableOK
  <2> QED  BY <1>2, <1>3, <1>7, <2>1, <2>8 DEF w
<1>9. CASE v.mFreeItems = <<>>
  <2>1. id = HandleValue(v.size + 1) /\ w.mFreeItems = <<>> /\ w.size = v.size + 1
    BY <1>2, <1>9 DEF NextFiber
  <2>2. id > HandleValue(v.size) /\ v.size >= 1
    BY <1>1, <2>1 DEF HandleValue, TableOK
  <2>3. v.state[id] = "FREE"
    BY <2>2 DEF TableOK
  <2>4. \A f \in Fibers : f > HandleValue(w.size) <=> f > HandleValue(v.size) /\ f # id
    BY <1>1, <2>1, FiberNumbers DEF HandleValue
  <2>5. \A f \in Fibers : v.state[f] = "FREE" <=> f > HandleValue(v.size)
    BY <1>9 DEF TableOK
  <2>6. \A f \in Fibers : w.state[f] = "FREE" <=> f > HandleValue(w.size)
    BY <1>3, <2>4, <2>5
  <2>7. TableOK(w)
    BY <1>1, <2>1, <2>2, <2>6 DEF TableOK
  <2> QED  BY <1>2, <1>3, <1>7, <2>3, <2>7 DEF w
<1> QED  BY <1>8, <1>9

\* Elements that are picked from a sequence without repetitions are not repeated.
LEMMA ChosenOnce ==
  ASSUME NEW S, NEW s \in Seq(S), NEW T,
         \A i, j \in DOMAIN s : s[i] = s[j] /\ s[i] \in T => i = j
  PROVE  LET r == Chosen(s, T) IN
         /\ r \in Seq(S)
         /\ \A i, j \in DOMAIN r : r[i] = r[j] => i = j
         /\ \A x : (\E i \in DOMAIN r : r[i] = x) <=> x \in T /\ \E i \in DOMAIN s : s[i] = x
<1> DEFINE r == Chosen(s, T)
<1>1. r \in Seq(S)
  BY ChosenIs
<1>2. PICK e : Picks(e, r, s, T, Len(s))
  BY ChosenIs
<1> HIDE DEF r
<1>3. /\ DOMAIN r = 1 .. Len(r) /\ DOMAIN s = 1 .. Len(s)
      /\ Len(r) \in Nat /\ Len(s) \in Nat
      /\ e \in [1 .. Len(r) -> 1 .. Len(s)]
      /\ \A k \in 1 .. Len(r) : e[k] \in 1 .. Len(s)
  <2>1. DOMAIN r = 1 .. Len(r) /\ DOMAIN s = 1 .. Len(s) /\ Len(r) \in Nat /\ Len(s) \in Nat
    BY <1>1
  <2>2. e \in [1 .. Len(r) -> 1 .. Len(s)]
    BY <1>2, Zenon DEF Picks
  <2> QED  BY <2>1, <2>2
<1>4. ASSUME NEW i \in DOMAIN r, NEW j \in DOMAIN r, r[i] = r[j]
      PROVE  i = j
  <2>0. s[e[i]] \in T /\ s[e[i]] = r[i] /\ s[e[j]] = r[j] /\ e[i] \in DOMAIN s /\ e[j] \in DOMAIN s
    BY <1>2, <1>3 DEF Picks
  <2>1. e[i] = e[j]
    BY <1>4, <2>0
  <2>2. i < j => e[i] < e[j]
    BY <1>2, <1>3 DEF Picks
  <2>3. j < i => e[j] < e[i]
    BY <1>2, <1>3 DEF Picks
  <2>4. i \in Nat /\ j \in Nat /\ e[i] \in Nat /\ e[j] \in Nat
    BY <1>3
  <2> QED  BY <2>1, <2>2, <2>3, <2>4
<1>5. ASSUME NEW x
      PROVE  (\E i \in DOMAIN r : r[i] = x) <=> x \in T /\ \E i \in DOMAIN s : s[i] = x
  <2>1. ASSUME NEW i \in DOMAIN r, r[i] = x
        PROVE  x \in T /\ \E k \in DOMAIN s : s[k] = x
    <3>1. s[e[i]] \in T /\ s[e[i]] = r[i] /\ e[i] \in DOMAIN s
      BY <1>2, <1>3 DEF Picks
    <3> QED  BY <2>1, <3>1
  <2>2. ASSUME NEW k \in DOMAIN s, s[k] = x, x \in T
        PROVE  \E i \in DOMAIN r : r[i] = x
    <3>1. PICK i \in 1 .. Len(r) : e[i] = k
      BY <1>2, <1>3, <2>2 DEF Picks
    <3>2. r[i] = x
      BY <1>2, <2>2, <3>1 DEF Picks
    <3> QED  BY <1>3, <3>1, <3>2
  <2> QED  BY <2>1, <2>2
<1> QED  BY <1>1, <1>4, <1>5 DEF r

\* Freeing a sequence of fibers, each named once (0 names none).
LEMMA CleanupIs ==
  ASSUME NEW v \in VmType, TableOK(v), NEW ids \in Seq(Fibers \cup {0}),
         \A i, j \in DOMAIN ids : ids[i] = ids[j] /\ ids[i] # 0 => i = j
  PROVE  LET w == cleanupFibersInOrder(v, ids) IN
         /\ w \in VmType /\ TableOK(w)
         /\ \A f \in Fibers :
              w.state[f] = IF \E i \in DOMAIN ids : ids[i] = f THEN "FREE" ELSE v.state[f]
         /\ (\A i \in DOMAIN ids : ids[i] # v.current) => w.current = v.current
<1> DEFINE live == {id \in Fibers : Live(v, id)}
           gone == Chosen(ids, live)
           Gone(f) == \E i \in DOMAIN gone : gone[i] = f
           w == cleanupFibersInOrder(v, ids)
<1>1. /\ v.state \in [Fibers -> FiberStates] /\ v.mFreeItems \in Seq(Fibers)
      /\ v.size \in Nat /\ v.current \in Fibers \cup {Main, Dangling}
  BY VmFields
<1>2. /\ gone \in Seq(Fibers \cup {0})
      /\ \A i, j \in DOMAIN gone : gone[i] = gone[j] => i = j
      /\ \A x : Gone(x) <=> x \in live /\ \E i \in DOMAIN ids : ids[i] = x
  <2>1. 0 \notin live
    BY FiberNumbers
  <2> HIDE DEF live
  <2>2. \A i, j \in DOMAIN ids : ids[i] = ids[j] /\ ids[i] \in live => i = j
    BY <2>1
  <2> QED  BY <2>2, ChosenOnce
<1>3. /\ w = [state |-> [f \in Fibers |-> IF Gone(f) THEN "FREE" ELSE v.state[f]],
              mFreeItems |-> v.mFreeItems \o gone, size |-> v.size,
              current |-> IF Gone(v.current) THEN Dangling ELSE v.current]
  BY DEF cleanupFibersInOrder
<1>4. /\ \A i \in DOMAIN gone : gone[i] \in live
      /\ gone \in Seq(Fibers)
  <2>1. \A i \in DOMAIN gone : gone[i] \in live /\ gone[i] \in Fibers
    <3> HIDE DEF gone
    <3> QED  BY <1>2
  <2>2. Len(gone) \in Nat /\ DOMAIN gone = 1 .. Len(gone)
    <3> HIDE DEF gone
    <3> QED  BY <1>2
  <2>3. gone \in [1 .. Len(gone) -> Fibers]
    <3> HIDE DEF gone
    <3> QED  BY <1>2, <2>1, <2>2
  <2> HIDE DEF gone, live
  <2> QED  BY <2>1, <2>2, <2>3
<1>5. \A f \in Fibers : f \in live <=> v.state[f] # "FREE"
  BY DEF Live
<1>6. \A f \in Fibers : Gone(f) <=> v.state[f] # "FREE" /\ \E i \in DOMAIN ids : ids[i] = f
  <2> HIDE DEF gone, live
  <2> QED  BY <1>2, <1>5
<1> HIDE DEF live, gone
<1>7. /\ w.state = [f \in Fibers |-> IF Gone(f) THEN "FREE" ELSE v.state[f]]
      /\ w.mFreeItems = v.mFreeItems \o gone /\ w.size = v.size
      /\ w.current = IF Gone(v.current) THEN Dangling ELSE v.current
  BY <1>3
<1>8. w \in VmType
  <2>1. w.state \in [Fibers -> FiberStates]
    BY <1>1, <1>7 DEF FiberStates
  <2>2. w.mFreeItems \in Seq(Fibers)
    BY <1>1, <1>4, <1>7
  <2>3. w.current \in Fibers \cup {Main, Dangling}
    BY <1>1, <1>7
  <2> HIDE DEF w, Gone
  <2>4. w = [state |-> w.state, mFreeItems |-> w.mFreeItems, size |-> w.size, current |-> w.current]
    BY <1>3
  <2> QED  BY <1>1, <1>7, <2>1, <2>2, <2>3, <2>4 DEF VmType
<1>9. \A f \in Fibers :
        w.state[f] = IF \E i \in DOMAIN ids : ids[i] = f THEN "FREE" ELSE v.state[f]
  <2> HIDE DEF Gone, w
  <2> QED  BY <1>6, <1>7
<1>10. (\A i \in DOMAIN ids : ids[i] # v.current) => w.current = v.current
  <2> HIDE DEF w
  <2>1. (\A i \in DOMAIN ids : ids[i] # v.current) => ~Gone(v.current)
    BY <1>2
  <2> HIDE DEF Gone
  <2> QED  BY <1>7, <2>1
<1>11. TableOK(w)
  <2> DEFINE free == v.mFreeItems
             m == Len(free)
  <2>1. /\ w.mFreeItems \in Seq(Fibers) /\ m \in Nat /\ Len(gone) \in Nat
        /\ DOMAIN free = 1 .. m /\ DOMAIN gone = 1 .. Len(gone)
        /\ DOMAIN w.mFreeItems = 1 .. m + Len(gone)
        /\ \A i \in 1 .. m : w.mFreeItems[i] = free[i]
        /\ \A i \in 1 .. m + Len(gone) : i \notin 1 .. m =>
             i - m \in 1 .. Len(gone) /\ w.mFreeItems[i] = gone[i - m]
        /\ \A i \in 1 .. Len(gone) : i + m \in 1 .. m + Len(gone) /\ w.mFreeItems[i + m] = gone[i]
    <3> HIDE DEF w
    <3> QED  BY <1>1, <1>4, <1>7
  <2>2. \A i \in 1 .. m, j \in 1 .. Len(gone) : free[i] # gone[j]
    <3>1. ASSUME NEW i \in 1 .. m PROVE free[i] \in Fibers /\ v.state[free[i]] = "FREE"
      <4>1. i \in DOMAIN free /\ free[i] \in Fibers
        BY <1>1, <2>1
      <4> QED  BY <4>1 DEF TableOK
    <3>2. ASSUME NEW j \in 1 .. Len(gone) PROVE gone[j] \in Fibers /\ v.state[gone[j]] # "FREE"
      <4>1. j \in DOMAIN gone
        BY <2>1
      <4>2. gone[j] \in live /\ gone[j] \in Fibers
        BY <1>4, <4>1
      <4> QED  BY <1>5, <4>2
    <3> QED  BY <3>1, <3>2
  <2>3. ASSUME NEW i \in DOMAIN w.mFreeItems, NEW j \in DOMAIN w.mFreeItems,
               w.mFreeItems[i] = w.mFreeItems[j]
        PROVE  i = j
    <3> HIDE DEF w
    <3>1. CASE i \in 1 .. m /\ j \in 1 .. m
      BY <2>1, <2>3, <3>1 DEF TableOK
    <3>2. CASE i \notin 1 .. m /\ j \notin 1 .. m
      <4>1. /\ i - m \in DOMAIN gone /\ w.mFreeItems[i] = gone[i - m]
            /\ j - m \in DOMAIN gone /\ w.mFreeItems[j] = gone[j - m]
        BY <2>1, <3>2
      <4>2. gone[i - m] = gone[j - m]
        BY <2>3, <4>1
      <4>3. i - m = j - m
        BY <1>2, <4>1, <4>2
      <4> QED  BY <2>1, <4>3
    <3>3. CASE i \in 1 .. m /\ j \notin 1 .. m
      <4>1. j - m \in 1 .. Len(gone) /\ w.mFreeItems[j] = gone[j - m] /\ w.mFreeItems[i] = free[i]
        BY <2>1, <3>3
      <4>2. free[i] # gone[j - m]
        BY <2>2, <3>3, <4>1
      <4> QED  BY <2>3, <4>1, <4>2
    <3>4. CASE i \notin 1 .. m /\ j \in 1 .. m
      <4>1. i - m \in 1 .. Len(gone) /\ w.mFreeItems[i] = gone[i - m] /\ w.mFreeItems[j] = free[j]
        BY <2>1, <3>4
      <4>2. free[j] # gone[i - m]
        BY <2>2, <3>4, <4>1
      <4> QED  BY <2>3, <4>1, <4>2
    <3> QED  BY <3>1, <3>2, <3>3, <3>4
  <2>4. \A j \in 1 .. Len(gone) : gone[j] <= HandleValue(v.size)
    <3> SUFFICES ASSUME NEW j \in 1 .. Len(gone) PROVE gone[j] <= HandleValue(v.size)
      OBVIOUS
    <3>0. j \in DOMAIN gone /\ gone[j] \in live /\ gone[j] \in Fibers
      BY <1>4, <2>1
    <3>1. gone[j] \in Fibers /\ v.state[gone[j]] # "FREE"
      BY <1>5, <3>0
    <3>2. ~(gone[j] > HandleValue(v.size))
      BY <3>1 DEF TableOK
    <3>3. gone[j] \in Nat /\ HandleValue(v.size) \in Nat
      BY <1>1, <3>1, FiberNumbers DEF HandleValue
    <3> QED  BY <3>2, <3>3
  <2>5. \A i \in DOMAIN w.mFreeItems : w.mFreeItems[i] <= HandleValue(v.size)
    <3> HIDE DEF w
    <3> QED  BY <2>1, <2>4 DEF TableOK
  <2>6. \A f \in Fibers : (\E i \in DOMAIN w.mFreeItems : w.mFreeItems[i] = f)
                             <=> (\E i \in DOMAIN free : free[i] = f) \/ Gone(f)
    <3> HIDE DEF w
    <3> SUFFICES ASSUME NEW f \in Fibers
                 PROVE  (\E i \in DOMAIN w.mFreeItems : w.mFreeItems[i] = f)
                          <=> (\E i \in DOMAIN free : free[i] = f) \/ Gone(f)
      OBVIOUS
    <3>1. ASSUME NEW i \in DOMAIN w.mFreeItems, w.mFreeItems[i] = f
          PROVE  (\E k \in DOMAIN free : free[k] = f) \/ Gone(f)
      <4>1. CASE i \in 1 .. m
        BY <2>1, <3>1, <4>1
      <4>2. CASE i \notin 1 .. m
        <5>1. i - m \in DOMAIN gone /\ gone[i - m] = f
          BY <2>1, <3>1, <4>2
        <5> QED  BY <5>1
      <4> QED  BY <4>1, <4>2
    <3>2. ASSUME NEW i \in DOMAIN free, free[i] = f
          PROVE  \E k \in DOMAIN w.mFreeItems : w.mFreeItems[k] = f
      <4>1. i \in DOMAIN w.mFreeItems /\ w.mFreeItems[i] = f
        BY <2>1, <3>2
      <4> QED  BY <4>1
    <3>3. ASSUME NEW i \in DOMAIN gone, gone[i] = f
          PROVE  \E k \in DOMAIN w.mFreeItems : w.mFreeItems[k] = f
      <4>1. i + m \in DOMAIN w.mFreeItems /\ w.mFreeItems[i + m] = f
        BY <2>1, <3>3
      <4> QED  BY <4>1
    <3> QED  BY <3>1, <3>2, <3>3
  <2>7. \A f \in Fibers : w.state[f] = "FREE" <=> v.state[f] = "FREE" \/ Gone(f)
    <3> HIDE DEF Gone, w
    <3> QED  BY <1>7
  <2> HIDE DEF w, Gone
  <2> QED  BY <1>7, <2>3, <2>5, <2>6, <2>7 DEF TableOK
<1> QED  BY <1>8, <1>9, <1>10, <1>11

-----------------------------------------------------------------------------
(* What the calls do to schedule, table, loop and call stack together.     *)

\* The numbers and sequences of a machine.
LEMMA MachineFields ==
  ASSUME NEW s, NEW v, NEW l, NEW r, MachineOK(s, v, l, r)
  PROVE  /\ s \in Seq(InfoType) /\ v \in VmType /\ l \in LoopType /\ r \in Seq(RunType)
         /\ Len(s) \in Nat /\ DOMAIN s = 1 .. Len(s) /\ Len(r) \in Nat /\ DOMAIN r = 1 .. Len(r)
         /\ \A i \in DOMAIN s : s[i] \in InfoType /\ s[i].fiberId \in Fibers \cup {0}
         /\ \A i \in DOMAIN r : r[i] \in RunType /\ r[i].fiber \in Fibers
                                /\ r[i].ret \in Fibers \cup {Main}
         /\ l.pos \in Nat /\ l.end \in Nat
         /\ r # <<>> => Len(r) \in DOMAIN r /\ 1 \in DOMAIN r
<1>1. s \in Seq(InfoType) /\ v \in VmType /\ l \in LoopType /\ r \in Seq(RunType)
  BY DEF MachineOK
<1>2. \A i \in DOMAIN s : s[i] \in InfoType
  BY <1>1
<1>3. \A i \in DOMAIN r : r[i] \in RunType
  BY <1>1
<1>4. \A info \in InfoType : info.fiberId \in Fibers \cup {0}
  BY DEF InfoType
<1>5. \A run \in RunType : run.fiber \in Fibers /\ run.ret \in Fibers \cup {Main}
  BY DEF RunType
<1>6. l.pos \in Nat /\ l.end \in Nat
  BY <1>1 DEF LoopType
<1>7. /\ Len(s) \in Nat /\ DOMAIN s = 1 .. Len(s) /\ Len(r) \in Nat /\ DOMAIN r = 1 .. Len(r)
      /\ r # <<>> => Len(r) \in DOMAIN r /\ 1 \in DOMAIN r
  BY <1>1
<1> QED  BY <1>1, <1>2, <1>3, <1>4, <1>5, <1>6, <1>7

\* The fibers of entries and of runs are live, and so is the current one while
\* a script runs; between calls of the host it is the main one.
LEMMA MachineLive ==
  ASSUME NEW s, NEW v, NEW l, NEW r, MachineOK(s, v, l, r)
  PROVE  /\ \A i \in DOMAIN r : v.state[r[i].fiber] = "RUNNING" /\ Live(v, r[i].fiber)
         /\ r # <<>> => Live(v, v.current) /\ v.state[v.current] = "RUNNING"
         /\ r = <<>> => \A f \in Fibers : v.state[f] # "RUNNING"
         /\ r = <<>> /\ l = Idle => v.current = Main
<1>1. \A i \in DOMAIN r : r[i].fiber \in Fibers
  BY MachineFields
<1>2. \A i \in DOMAIN r : v.state[r[i].fiber] = "RUNNING"
  BY <1>1 DEF MachineOK, StackOK
<1>3. \A i \in DOMAIN r : Live(v, r[i].fiber)
  BY <1>1, <1>2 DEF Live
<1>4. r # <<>> => Len(r) \in DOMAIN r /\ v.current = r[Len(r)].fiber
  BY MachineFields DEF MachineOK, StackOK
<1>5. r = <<>> => \A f \in Fibers : v.state[f] # "RUNNING"
  BY DEF MachineOK, StackOK
<1>6. r = <<>> /\ l = Idle => v.current = Main
  BY DEF MachineOK, StackOK
<1> QED  BY <1>2, <1>3, <1>4, <1>5, <1>6

\* Entries that keep their fibers change nothing.
LEMMA SameFibers ==
  ASSUME NEW s, NEW v, NEW l, NEW r, MachineOK(s, v, l, r),
         NEW t \in Seq(InfoType), DOMAIN t = DOMAIN s,
         \A i \in DOMAIN s : t[i].fiberId = s[i].fiberId
  PROVE  MachineOK(t, v, l, r)
<1>1. Len(t) = Len(s)
  BY MachineFields
<1>2. EntriesOK(t, v)
  BY DEF EntriesOK, MachineOK
<1>3. LoopOK(l, r, t)
  BY <1>1 DEF LoopOK, MachineOK
<1> QED  BY <1>2, <1>3 DEF MachineOK

\* Freeing fibers that do not run, and forgetting them in their entries.
LEMMA FreedFibers ==
  ASSUME NEW s, NEW v, NEW l, NEW r, MachineOK(s, v, l, r),
         NEW t \in Seq(InfoType), DOMAIN t = DOMAIN s,
         NEW w \in VmType, TableOK(w), NEW gone, 
         \A f \in gone : f # 0 => Live(v, f) /\ v.state[f] # "RUNNING",
         \A f \in Fibers : w.state[f] = IF f \in gone THEN "FREE" ELSE v.state[f],
         v.current \notin gone => w.current = v.current,
         \A i \in DOMAIN s : t[i].fiberId = IF s[i].fiberId \in gone THEN 0 ELSE s[i].fiberId
  PROVE  MachineOK(t, w, l, r)
<1>1. Len(t) = Len(s)
  BY MachineFields
<1>2. \A f \in Fibers : Live(w, f) <=> Live(v, f) /\ f \notin gone
  BY DEF Live
<1>3. EntriesOK(t, w)
  <2>1. \A i \in DOMAIN t : t[i].fiberId # 0 =>
          t[i].fiberId = s[i].fiberId /\ t[i].fiberId \notin gone /\ t[i].fiberId \in Fibers
    BY MachineFields
  <2>2. \A i \in DOMAIN t : t[i].fiberId # 0 => Live(w, t[i].fiberId)
    BY <1>2, <2>1 DEF EntriesOK, MachineOK
  <2>3. \A i, j \in DOMAIN t : t[i].fiberId = t[j].fiberId /\ t[i].fiberId # 0 => i = j
    BY <2>1 DEF EntriesOK, MachineOK
  <2>4. \A f \in Fibers : Live(w, f) => \E i \in DOMAIN t : t[i].fiberId = f
    <3> SUFFICES ASSUME NEW f \in Fibers, Live(w, f) PROVE \E i \in DOMAIN t : t[i].fiberId = f
      OBVIOUS
    <3>1. Live(v, f) /\ f \notin gone
      BY <1>2
    <3>2. PICK i \in DOMAIN s : s[i].fiberId = f
      BY <3>1 DEF EntriesOK, MachineOK
    <3> QED  BY <3>1, <3>2
  <2> QED  BY <2>2, <2>3, <2>4 DEF EntriesOK
<1>4. \A f \in Fibers : w.state[f] = "RUNNING" <=> v.state[f] = "RUNNING"
  BY FiberNumbers
<1>5. \A i \in DOMAIN r : r[i].fiber \notin gone /\ r[i].fiber \in Fibers
  <2>1. \A i \in DOMAIN r : v.state[r[i].fiber] = "RUNNING"
    BY MachineLive
  <2>2. \A i \in DOMAIN r : r[i].fiber \in Fibers
    BY MachineFields
  <2> QED  BY <2>1, <2>2, FiberNumbers
<1>6. StackOK(r, l, w)
  <2>1. r # <<>> => w.current = v.current
    BY <1>5, MachineFields DEF MachineOK, StackOK
  <2>2. r = <<>> /\ l = Idle => w.current = v.current
    <3>1. Main \notin gone
      BY FiberNumbers DEF Live
    <3> QED  BY <3>1, MachineLive
  <2> QED  BY <1>4, <2>1, <2>2 DEF MachineOK, StackOK
<1>7. LoopOK(l, r, t)
  BY <1>1 DEF MachineOK, LoopOK
<1> QED  BY <1>3, <1>6, <1>7 DEF MachineOK

\* The fibers gone are freed, the entries t are those of s that have another one.
Erased(s, v, t, w, gone) ==
  /\ t \in Seq(InfoType) /\ w \in VmType /\ TableOK(w)
  /\ \A f \in gone : Live(v, f)
  /\ \A f \in Fibers : w.state[f] = IF f \in gone THEN "FREE" ELSE v.state[f]
  /\ \A i \in DOMAIN t :
       t[i].fiberId # 0 /\ t[i].fiberId \notin gone /\ \E j \in DOMAIN s : s[j] = t[i]
  /\ \A i, j \in DOMAIN t : t[i] = t[j] => i = j
  /\ \A j \in DOMAIN s :
       s[j].fiberId = 0 \/ s[j].fiberId \in gone \/ \E i \in DOMAIN t : t[i] = s[j]

\* Ending the loops, or cleaning up between them: only entries that are not
\* marked stay, and the others' fibers are freed, none of which runs.
LEMMA ErasedEntries ==
  ASSUME NEW s, NEW v, NEW l, NEW r, MachineOK(s, v, l, r), l = Idle \/ r = <<>>,
         NEW t, NEW w, NEW gone, Erased(s, v, t, w, gone),
         \A f \in gone : v.state[f] # "RUNNING",
         w.current = IF r = <<>> THEN Main ELSE v.current
  PROVE  MachineOK(t, w, Idle, r)
<1> USE DEF Erased
<1>1. \A f \in Fibers : Live(w, f) <=> Live(v, f) /\ f \notin gone
  BY DEF Live
<1>2. EntriesOK(t, w)
  <2>1. \A i \in DOMAIN t : Live(w, t[i].fiberId)
    <3> SUFFICES ASSUME NEW i \in DOMAIN t PROVE Live(w, t[i].fiberId)
      OBVIOUS
    <3>1. PICK j \in DOMAIN s : s[j] = t[i]
      OBVIOUS
    <3>2. s[j].fiberId # 0 /\ s[j].fiberId \notin gone /\ s[j].fiberId \in Fibers \cup {0}
      BY <3>1, MachineFields
    <3>3. Live(v, s[j].fiberId)
      BY <3>2 DEF MachineOK, EntriesOK
    <3> QED  BY <1>1, <3>1, <3>2, <3>3
  <2>2. ASSUME NEW i \in DOMAIN t, NEW j \in DOMAIN t, t[i].fiberId = t[j].fiberId
        PROVE  i = j
    <3>1. PICK m \in DOMAIN s : s[m] = t[i]
      OBVIOUS
    <3>2. PICK n \in DOMAIN s : s[n] = t[j]
      OBVIOUS
    <3>3. m = n
      BY <2>2, <3>1, <3>2 DEF MachineOK, EntriesOK
    <3> QED  BY <3>1, <3>2, <3>3
  <2>3. ASSUME NEW f \in Fibers, Live(w, f) PROVE \E i \in DOMAIN t : t[i].fiberId = f
    <3>1. Live(v, f) /\ f \notin gone /\ f # 0
      BY <1>1, <2>3, FiberNumbers
    <3>2. PICK j \in DOMAIN s : s[j].fiberId = f
      BY <3>1 DEF MachineOK, EntriesOK
    <3> QED  BY <3>1, <3>2
  <2> QED  BY <2>1, <2>2, <2>3 DEF EntriesOK
<1>3. \A f \in Fibers : w.state[f] = "RUNNING" <=> v.state[f] = "RUNNING"
  OBVIOUS
<1>4. StackOK(r, Idle, w)
  BY <1>3 DEF MachineOK, StackOK
<1>5. LoopOK(Idle, r, t)
  BY DEF LoopOK, Idle
<1>6. Idle \in LoopType /\ r \in Seq(RunType)
  BY DEF MachineOK, Idle, LoopType
<1> QED  BY <1>2, <1>4, <1>5, <1>6 DEF MachineOK

\* Another fiber is created, tracked by a new entry, and runs at once.
LEMMA SpawnedFiber ==
  ASSUME NEW s, NEW v, NEW l, NEW r, MachineOK(s, v, l, r), l = Idle \/ r # <<>>,
         NEW f \in Fibers, v.state[f] = "FREE",
         NEW w \in VmType, TableOK(w), w.current = f,
         \A g \in Fibers : w.state[g] = IF g = f THEN "RUNNING" ELSE v.state[g],
         NEW info \in InfoType, info.fiberId = f
  PROVE  MachineOK(Append(s, info), w, l, Append(r, [fiber |-> f, ret |-> v.current]))
<1> DEFINE t == Append(s, info)
           q == Append(r, [fiber |-> f, ret |-> v.current])
<1>0. /\ Len(s) \in Nat /\ DOMAIN s = 1 .. Len(s) /\ Len(r) \in Nat /\ DOMAIN r = 1 .. Len(r)
      /\ s \in Seq(InfoType) /\ r \in Seq(RunType) /\ l \in LoopType /\ l.pos \in Nat /\ l.end \in Nat
  BY MachineFields
<1>1. v.current \in Fibers \cup {Main}
  BY MachineLive DEF Live
<1>2. [fiber |-> f, ret |-> v.current] \in RunType
  BY <1>1 DEF RunType
<1>3. /\ t \in Seq(InfoType) /\ Len(t) = Len(s) + 1 /\ DOMAIN t = 1 .. Len(s) + 1
      /\ \A i \in DOMAIN s : t[i] = s[i] /\ i \in DOMAIN t
      /\ t[Len(s) + 1] = info
      /\ \A i \in DOMAIN t : i \in DOMAIN s \/ i = Len(s) + 1
      /\ Len(s) + 1 \notin DOMAIN s
  BY <1>0
<1>4. /\ q \in Seq(RunType) /\ Len(q) = Len(r) + 1 /\ DOMAIN q = 1 .. Len(r) + 1 /\ q # <<>>
      /\ \A i \in DOMAIN r : q[i] = r[i] /\ i \in DOMAIN q
      /\ q[Len(r) + 1] = [fiber |-> f, ret |-> v.current]
      /\ \A i \in DOMAIN q : i \in DOMAIN r \/ i = Len(r) + 1
      /\ Len(r) + 1 \notin DOMAIN r
  BY <1>0, <1>2
<1> HIDE DEF t, q
<1>5. \A g \in Fibers : Live(w, g) <=> Live(v, g) \/ g = f
  BY DEF Live
<1>6. EntriesOK(t, w)
  <2>1. \A i \in DOMAIN s : s[i].fiberId # f
    BY FiberNumbers DEF MachineOK, EntriesOK, Live
  <2>2. \A i \in DOMAIN s : s[i].fiberId # 0 => Live(w, s[i].fiberId)
    BY <1>5, MachineFields DEF MachineOK, EntriesOK
  <2>3. \A i \in DOMAIN t : t[i].fiberId # 0 => Live(w, t[i].fiberId)
    BY <1>3, <1>5, <2>2
  <2>4. \A i, j \in DOMAIN t : t[i].fiberId = t[j].fiberId /\ t[i].fiberId # 0 => i = j
    BY <1>3, <2>1 DEF MachineOK, EntriesOK
  <2>5. \A g \in Fibers : Live(w, g) => \E i \in DOMAIN t : t[i].fiberId = g
    BY <1>3, <1>5 DEF MachineOK, EntriesOK
  <2> QED  BY <2>3, <2>4, <2>5 DEF EntriesOK
<1>7. StackOK(q, l, w)
  <2>1. \A i \in DOMAIN r : r[i].fiber # f
    BY MachineLive
  <2>2. \A i, j \in DOMAIN q : q[i].fiber = q[j].fiber => i = j
    BY <1>4, <2>1 DEF MachineOK, StackOK
  <2>3. \A g \in Fibers : w.state[g] = "RUNNING" <=> \E i \in DOMAIN q : q[i].fiber = g
    BY <1>4, <2>1 DEF MachineOK, StackOK
  <2>4. \A i \in DOMAIN q : q[i].ret = IF i = 1 THEN Main ELSE q[i - 1].fiber
    <3> SUFFICES ASSUME NEW i \in DOMAIN q PROVE q[i].ret = IF i = 1 THEN Main ELSE q[i - 1].fiber
      OBVIOUS
    <3>1. CASE i \in DOMAIN r
      <4>1. i # 1 => i - 1 \in DOMAIN r
        BY <1>0, <3>1
      <4> QED  BY <1>4, <3>1, <4>1 DEF MachineOK, StackOK
    <3>2. CASE i = Len(r) + 1 /\ r # <<>>
      <4>1. i # 1 /\ i - 1 = Len(r) /\ Len(r) \in DOMAIN r
        BY <1>0, <3>2
      <4>2. v.current = r[Len(r)].fiber
        BY <3>2 DEF MachineOK, StackOK
      <4> QED  BY <1>4, <3>2, <4>1, <4>2
    <3>3. CASE i = Len(r) + 1 /\ r = <<>>
      <4>1. i = 1 /\ v.current = Main
        BY <3>3, MachineLive
      <4> QED  BY <1>4, <3>3, <4>1
    <3> QED  BY <1>4, <3>1, <3>2, <3>3
  <2> QED  BY <1>4, <2>2, <2>3, <2>4 DEF StackOK
<1>8. LoopOK(l, q, t)
  <2>1. l.kind = "idle" <=> l = Idle
    BY DEF MachineOK, LoopOK
  <2>2. /\ l.kind = "exec" => l.pos >= 1 /\ l.end <= Len(t)
        /\ l.kind = "throw" => l.pos <= Len(t)
    BY <1>0, <1>3 DEF MachineOK, LoopOK
  <2>3. l # Idle => l.pos \in DOMAIN t
    BY <1>3 DEF MachineOK, LoopOK
  <2> QED  BY <2>1, <2>2, <2>3 DEF LoopOK
<1> QED  BY <1>0, <1>3, <1>4, <1>6, <1>7, <1>8 DEF MachineOK, t, q

\* A table that differs in nothing but its current fiber, while no script runs.
LEMMA SameStates ==
  ASSUME NEW s, NEW v, NEW l, NEW r, MachineOK(s, v, l, r),
         NEW w \in VmType, TableOK(w), \A f \in Fibers : w.state[f] = v.state[f],
         w.current = v.current \/ (r = <<>> /\ (w.current = Main \/ l # Idle))
  PROVE  MachineOK(s, w, l, r)
<1>1. \A f \in Fibers \cup {0} : Live(w, f) <=> Live(v, f)
  BY DEF Live
<1>2. EntriesOK(s, w)
  <2>1. \A i \in DOMAIN s : s[i].fiberId \in Fibers \cup {0}
    BY MachineFields
  <2> QED  BY <1>1, <2>1 DEF MachineOK, EntriesOK
<1>3. StackOK(r, l, w)
  BY DEF MachineOK, StackOK
<1> QED  BY <1>2, <1>3 DEF MachineOK

\* A loop starts, or ends, at the host.
LEMMA OtherLoop ==
  ASSUME NEW s, NEW v, NEW l, MachineOK(s, v, l, <<>>), NEW k \in LoopType,
         k = Idle => v.current = Main,
         k.kind = "idle" <=> k = Idle,
         k.kind = "exec" => k.pos >= 1 /\ k.end <= Len(s),
         k.kind = "throw" => k.pos <= Len(s)
  PROVE  MachineOK(s, v, k, <<>>)
<1>1. StackOK(<<>>, k, v)
  BY DEF MachineOK, StackOK
<1>2. LoopOK(k, <<>>, s)
  BY DEF LoopOK
<1> QED  BY <1>1, <1>2 DEF MachineOK

\* A loop resumes a suspended fiber.
LEMMA ResumedFiber ==
  ASSUME NEW s, NEW v, NEW l, MachineOK(s, v, l, <<>>), NEW k \in LoopType,
         k # Idle, k.kind # "idle", k.pos \in DOMAIN s,
         k.kind = "exec" => k.end <= Len(s),
         NEW f \in Fibers, v.state[f] = "SUSPENDED"
  PROVE  LET w == SetState(setCurrentFiber(v, f), f, "RUNNING")
         IN  /\ MachineOK(s, w, k, <<[fiber |-> f, ret |-> Main]>>)
             /\ w.state[f] # "FREE"
             /\ \A g \in Fibers : Live(w, g) <=> Live(v, g)
<1> DEFINE u == setCurrentFiber(v, f)
           w == SetState(u, f, "RUNNING")
           q == <<[fiber |-> f, ret |-> Main]>>
<1>1. v \in VmType /\ f \in Fibers /\ Live(v, f) /\ v.state[f] = "SUSPENDED" /\ TableOK(v)
  BY DEF MachineOK, Live
<1>2. /\ u \in VmType /\ u.state = v.state /\ u.mFreeItems = v.mFreeItems /\ u.size = v.size
      /\ u.current = f
  BY <1>1, SetCurrentIs
<1> HIDE DEF u
<1>3. /\ w \in VmType /\ w.mFreeItems = u.mFreeItems /\ w.size = u.size /\ w.current = u.current
      /\ \A g \in Fibers : w.state[g] = IF g = f THEN "RUNNING" ELSE u.state[g]
  <2>1. "RUNNING" \in FiberStates
    BY DEF FiberStates
  <2> QED  BY <1>1, <1>2, <2>1, SetStateIs
<1> HIDE DEF w
<1>4. TableOK(w)
  BY <1>1, <1>2, <1>3 DEF TableOK
<1>5. \A g \in Fibers : Live(w, g) <=> Live(v, g)
  BY <1>1, <1>2, <1>3 DEF Live
<1>6. EntriesOK(s, w)
  <2>1. \A i \in DOMAIN s : s[i].fiberId \in Fibers \cup {0}
    BY MachineFields
  <2> QED  BY <1>5, <2>1 DEF MachineOK, EntriesOK
<1>7. q \in Seq(RunType) /\ q # <<>> /\ Len(q) = 1 /\ DOMAIN q = {1} /\ q[1].fiber = f /\ q[1].ret = Main
  BY <1>1 DEF RunType
<1> HIDE DEF q
<1>8. StackOK(q, k, w)
  <2>1. \A g \in Fibers : v.state[g] # "RUNNING"
    BY DEF MachineOK, StackOK
  <2>2. \A g \in Fibers : w.state[g] = "RUNNING" <=> g = f
    BY <1>2, <1>3, <2>1
  <2> QED  BY <1>2, <1>3, <1>7, <2>2 DEF StackOK
<1>9. LoopOK(k, q, s)
  <2>1. k.pos \in 1 .. Len(s)
    BY MachineFields
  <2>2. k.pos >= 1 /\ k.pos <= Len(s)
    BY <2>1, MachineFields
  <2> QED  BY <1>7, <2>2 DEF LoopOK
<1>10. MachineOK(s, w, k, q)
  BY <1>3, <1>4, <1>6, <1>7, <1>8, <1>9 DEF MachineOK
<1>11. w.state[f] # "FREE"
  BY <1>1, <1>3
<1> QED  BY <1>5, <1>10, <1>11 DEF w, u, q

\* The innermost run stops: its fiber is RUNNING no more, and nothing else moves.
LEMMA StoppedRun ==
  ASSUME NEW s, NEW v, NEW l, NEW r, MachineOK(s, v, l, r), r # <<>>,
         NEW outcome \in {"SUSPENDED", "FINISHED", "ERROR"}
  PROVE  LET f == r[Len(r)].fiber
             u == SetState(v, f, outcome)
         IN  /\ f \in Fibers /\ u \in VmType /\ TableOK(u) /\ EntriesOK(s, u)
             /\ u.current = f /\ u.state[f] = outcome
             /\ \A g \in Fibers : Live(u, g) <=> Live(v, g)
             /\ \A g \in Fibers : u.state[g] = "RUNNING"
                                    <=> \E i \in DOMAIN r : i # Len(r) /\ r[i].fiber = g
<1> DEFINE f == r[Len(r)].fiber
           u == SetState(v, f, outcome)
<1>1. v \in VmType /\ TableOK(v) /\ Len(r) \in DOMAIN r /\ f \in Fibers /\ v.current = f
  <2>1. v \in VmType /\ TableOK(v)
    BY DEF MachineOK
  <2>2. Len(r) \in DOMAIN r /\ f \in Fibers
    BY MachineFields
  <2> QED  BY <2>1, <2>2 DEF MachineOK, StackOK
<1>2. v.state[f] = "RUNNING"
  BY <1>1, MachineLive
<1> HIDE DEF f
<1>3. /\ u \in VmType /\ u.mFreeItems = v.mFreeItems /\ u.size = v.size /\ u.current = v.current
      /\ \A g \in Fibers : u.state[g] = IF g = f THEN outcome ELSE v.state[g]
  <2>1. outcome \in FiberStates
    BY DEF FiberStates
  <2> QED  BY <1>1, <2>1, SetStateIs
<1> HIDE DEF u
<1>4. \A g \in Fibers : u.state[g] = "FREE" <=> v.state[g] = "FREE"
  BY <1>1, <1>2, <1>3
<1>5. TableOK(u)
  BY <1>1, <1>3, <1>4 DEF TableOK
<1>6. \A g \in Fibers : Live(u, g) <=> Live(v, g)
  BY <1>4 DEF Live
<1>7. EntriesOK(s, u)
  <2>1. \A i \in DOMAIN s : s[i].fiberId \in Fibers \cup {0}
    BY MachineFields
  <2> QED  BY <1>6, <2>1 DEF MachineOK, EntriesOK
<1>8. ASSUME NEW g \in Fibers
      PROVE  u.state[g] = "RUNNING" <=> \E i \in DOMAIN r : i # Len(r) /\ r[i].fiber = g
  <2>1. v.state[g] = "RUNNING" <=> \E i \in DOMAIN r : r[i].fiber = g
    BY DEF MachineOK, StackOK
  <2>2. \A i \in DOMAIN r : r[i].fiber = f <=> i = Len(r)
    BY <1>1 DEF MachineOK, StackOK, f
  <2>3. u.state[g] = "RUNNING" <=> g # f /\ v.state[g] = "RUNNING"
    BY <1>3
  <2> QED  BY <2>1, <2>2, <2>3
<1>9. u.state[f] = outcome
  BY <1>1, <1>3
<1> QED  BY <1>1, <1>3, <1>5, <1>6, <1>7, <1>8, <1>9 DEF u, f

\* It was resumed by a loop, which goes on.
LEMMA BackToLoop ==
  ASSUME NEW s, NEW v, NEW l, NEW r, MachineOK(s, v, l, r), Len(r) = 1, l # Idle,
         NEW outcome \in {"SUSPENDED", "FINISHED", "ERROR"},
         NEW pos \in Nat, pos = IF l.kind = "exec" THEN l.pos + 1 ELSE l.pos - 1
  PROVE  MachineOK(s, SetState(v, r[1].fiber, outcome), [l EXCEPT !.pos = pos], <<>>)
<1> DEFINE u == SetState(v, r[1].fiber, outcome)
           k == [l EXCEPT !.pos = pos]
<1>1. r # <<>> /\ Len(r) = 1 /\ \A i \in DOMAIN r : i = 1
  <2>1. r \in Seq(RunType) /\ DOMAIN r = 1 .. Len(r)
    BY MachineFields
  <2>2. r # <<>>
    <3>1. 1 \in DOMAIN r
      BY <2>1
    <3>2. DOMAIN <<>> = {}
      OBVIOUS
    <3> QED  BY <3>1, <3>2, Zenon
  <2>3. \A i \in DOMAIN r : i = 1
    BY <2>1
  <2> QED  BY <2>2, <2>3
<1>2. /\ u \in VmType /\ TableOK(u) /\ EntriesOK(s, u)
      /\ \A g \in Fibers : u.state[g] # "RUNNING"
  BY <1>1, StoppedRun
<1> HIDE DEF u
<1>3. s \in Seq(InfoType) /\ l \in LoopType /\ l.pos \in Nat /\ Len(s) \in Nat
  BY MachineFields
<1>4. k \in LoopType /\ k.kind = l.kind /\ k.end = l.end /\ k.pos = pos
  BY <1>3, Zenon DEF LoopType
<1>5. l.kind # "idle" /\ l.kind \in {"exec", "throw"}
  <2>1. l.kind \in {"idle", "exec", "throw"}
    BY <1>3 DEF LoopType
  <2> QED  BY <2>1 DEF MachineOK, LoopOK
<1>6. k # Idle
  BY <1>4, <1>5 DEF Idle
<1> HIDE DEF k
<1>7. StackOK(<<>>, k, u)
  BY <1>2, <1>6 DEF StackOK
<1>8. LoopOK(k, <<>>, s)
  BY <1>3, <1>4, <1>5, <1>6 DEF MachineOK, LoopOK
<1>9. <<>> \in Seq(RunType)
  OBVIOUS
<1> QED  BY <1>2, <1>3, <1>4, <1>7, <1>8, <1>9 DEF MachineOK, u, k

\* It was started by a spawn, which makes the caller's fiber current again.
LEMMA BackToCaller ==
  ASSUME NEW s, NEW v, NEW l, NEW r, MachineOK(s, v, l, r), r # <<>>, Len(r) # 1 \/ l = Idle,
         NEW outcome \in {"SUSPENDED", "FINISHED", "ERROR"}
  PROVE  LET u == SetState(v, r[Len(r)].fiber, outcome)
             w == setCurrentFiber(u, r[Len(r)].ret)
         IN  /\ MachineOK(s, w, l, SubSeq(r, 1, Len(r) - 1))
             /\ \A g \in Fibers : Live(w, g) <=> Live(v, g)
<1> DEFINE u == SetState(v, r[Len(r)].fiber, outcome)
           ret == r[Len(r)].ret
           w == setCurrentFiber(u, ret)
           q == SubSeq(r, 1, Len(r) - 1)
<1>1. /\ u \in VmType /\ TableOK(u) /\ EntriesOK(s, u)
      /\ \A g \in Fibers : Live(u, g) <=> Live(v, g)
      /\ \A g \in Fibers : u.state[g] = "RUNNING"
                             <=> \E i \in DOMAIN r : i # Len(r) /\ r[i].fiber = g
  BY StoppedRun
<1> HIDE DEF u
<1>2. /\ r \in Seq(RunType) /\ Len(r) \in Nat /\ DOMAIN r = 1 .. Len(r) /\ Len(r) >= 1
      /\ s \in Seq(InfoType) /\ l \in LoopType
      /\ \A i \in DOMAIN r : r[i].fiber \in Fibers
  BY MachineFields
<1>3. /\ q \in Seq(RunType) /\ Len(q) = Len(r) - 1 /\ DOMAIN q = 1 .. Len(r) - 1
      /\ \A i \in DOMAIN q : i \in DOMAIN r /\ q[i] = r[i] /\ i # Len(r)
      /\ \A i \in DOMAIN r : i # Len(r) => i \in DOMAIN q
      /\ q = <<>> <=> Len(r) = 1
  BY <1>2
<1> HIDE DEF q
<1>4. ret = IF Len(r) = 1 THEN Main ELSE r[Len(r) - 1].fiber
  BY <1>2 DEF MachineOK, StackOK
<1>5. Len(r) # 1 => /\ Len(r) - 1 \in DOMAIN r /\ Len(q) \in DOMAIN q /\ q[Len(q)] = r[Len(r) - 1]
                    /\ 1 \in DOMAIN q /\ q[1] = r[1]
  BY <1>2, <1>3
<1>6. ret = Main \/ Live(u, ret)
  <2>1. CASE Len(r) = 1
    BY <1>4, <2>1
  <2>2. CASE Len(r) # 1
    <3>1. ret \in Fibers /\ ret = r[Len(r) - 1].fiber /\ Len(r) - 1 \in DOMAIN r
      BY <1>2, <1>4, <1>5, <2>2
    <3>2. Live(v, ret)
      BY <3>1, MachineLive
    <3> QED  BY <1>1, <3>1, <3>2
  <2> QED  BY <2>1, <2>2
<1> HIDE DEF ret
<1>7. /\ w \in VmType /\ w.state = u.state /\ w.mFreeItems = u.mFreeItems /\ w.size = u.size
      /\ w.current = ret
  BY <1>1, <1>6, SetCurrentIs
<1> HIDE DEF w
<1>8. \A g : Live(w, g) <=> Live(u, g)
  BY <1>7 DEF Live
<1>9. TableOK(w) /\ EntriesOK(s, w)
  BY <1>1, <1>7, <1>8 DEF TableOK, EntriesOK
<1>10. StackOK(q, l, w)
  <2>1. \A i, j \in DOMAIN q : q[i].fiber = q[j].fiber => i = j
    BY <1>3 DEF MachineOK, StackOK
  <2>2. \A g \in Fibers : w.state[g] = "RUNNING" <=> \E i \in DOMAIN q : q[i].fiber = g
    <3> SUFFICES ASSUME NEW g \in Fibers
                 PROVE  (\E i \in DOMAIN r : i # Len(r) /\ r[i].fiber = g)
                          <=> \E i \in DOMAIN q : q[i].fiber = g
      BY <1>1, <1>7
    <3> QED  BY <1>3
  <2>3. \A i \in DOMAIN q : q[i].ret = IF i = 1 THEN Main ELSE q[i - 1].fiber
    <3> SUFFICES ASSUME NEW i \in DOMAIN q PROVE q[i].ret = IF i = 1 THEN Main ELSE q[i - 1].fiber
      OBVIOUS
    <3>1. i # 1 => i - 1 \in DOMAIN q
      BY <1>2, <1>3
    <3>2. r[i].ret = IF i = 1 THEN Main ELSE r[i - 1].fiber
      BY <1>3 DEF MachineOK, StackOK
    <3> QED  BY <1>3, <3>1, <3>2
  <2>4. q # <<>> => w.current = q[Len(q)].fiber
    BY <1>3, <1>4, <1>5, <1>7
  <2>5. q = <<>> => w.current = Main
    BY <1>3, <1>4, <1>7
  <2> QED  BY <2>1, <2>2, <2>3, <2>4, <2>5 DEF StackOK
<1>11. LoopOK(l, q, s)
  BY <1>3, <1>5 DEF MachineOK, LoopOK
<1>12. MachineOK(s, w, l, q)
  BY <1>2, <1>3, <1>7, <1>9, <1>10, <1>11 DEF MachineOK
<1> QED  BY <1>1, <1>8, <1>12 DEF w, q, ret, u

\* Freeing one fiber, or none when the id is 0.
LEMMA CleanupOne ==
  ASSUME NEW v \in VmType, TableOK(v), NEW id \in Fibers \cup {0}
  PROVE  LET w == vmCleanupFiber(v, id) IN
         /\ w \in VmType /\ TableOK(w)
         /\ \A f \in Fibers : w.state[f] = IF f = id THEN "FREE" ELSE v.state[f]
         /\ id # v.current => w.current = v.current
<1> DEFINE ids == <<id>>
<1>1. ids \in Seq(Fibers \cup {0}) /\ DOMAIN ids = {1} /\ ids[1] = id
  OBVIOUS
<1> HIDE DEF ids
<1>2. LET w == cleanupFibersInOrder(v, ids) IN
      /\ w \in VmType /\ TableOK(w)
      /\ \A f \in Fibers :
           w.state[f] = IF \E i \in DOMAIN ids : ids[i] = f THEN "FREE" ELSE v.state[f]
      /\ (\A i \in DOMAIN ids : ids[i] # v.current) => w.current = v.current
  BY <1>1, CleanupIs
<1> DEFINE w == cleanupFibersInOrder(v, ids)
<1> HIDE DEF w
<1>3. /\ w \in VmType /\ TableOK(w)
      /\ \A f \in Fibers : w.state[f] = IF f = id THEN "FREE" ELSE v.state[f]
      /\ id # v.current => w.current = v.current
  BY <1>1, <1>2 DEF w
<1> QED  BY <1>3 DEF w, ids, vmCleanupFiber

\* spawnFiber's new fiber, current but not yet running.
LEMMA CreatedFiber ==
  ASSUME NEW v \in VmType, TableOK(v), NextFiber(v) \in Fibers
  PROVE  LET id == NextFiber(v)
             c == setCurrentFiber(createFiber(setCurrentFiberMain(v)), id)
         IN  /\ c \in VmType /\ TableOK(c) /\ c.current = id /\ v.state[id] = "FREE"
             /\ \A f \in Fibers : c.state[f] = IF f = id THEN "INACTIVE" ELSE v.state[f]
<1> DEFINE id == NextFiber(v)
           m == setCurrentFiberMain(v)
           b == createFiber(m)
           c == setCurrentFiber(b, id)
<1>1. m \in VmType /\ m.state = v.state /\ m.mFreeItems = v.mFreeItems /\ m.size = v.size
  BY SetMainIs
<1>2. NextFiber(m) = id
  BY <1>1 DEF NextFiber
<1> HIDE DEF m
<1>3. TableOK(m)
  BY <1>1 DEF TableOK
<1>4. /\ b \in VmType /\ TableOK(b) /\ m.state[id] = "FREE"
      /\ \A f \in Fibers : b.state[f] = IF f = id THEN "INACTIVE" ELSE m.state[f]
  BY <1>1, <1>2, <1>3, CreateIs
<1> HIDE DEF b, id
<1>5. id \in Fibers
  BY DEF id
<1>6. Live(b, id)
  BY <1>4, <1>5 DEF Live
<1>7. /\ c \in VmType /\ c.state = b.state /\ c.mFreeItems = b.mFreeItems /\ c.size = b.size
      /\ c.current = id
  BY <1>4, <1>6, SetCurrentIs
<1> HIDE DEF c
<1>8. TableOK(c)
  BY <1>4, <1>7 DEF TableOK
<1>9. \A f \in Fibers : c.state[f] = IF f = id THEN "INACTIVE" ELSE v.state[f]
  BY <1>1, <1>4, <1>7
<1>10. v.state[id] = "FREE"
  BY <1>1, <1>4
<1> QED  BY <1>7, <1>8, <1>9, <1>10 DEF c, b, m, id

\* A failed spawn leaves everything as it was, but for the VM's list of free items.
LEMMA FailedSpawn ==
  ASSUME NEW s, NEW v, NEW l, NEW r, MachineOK(s, v, l, r), l = Idle \/ r # <<>>,
         NextFiber(v) \in Fibers
  PROVE  LET id == NextFiber(v)
             c == setCurrentFiber(createFiber(setCurrentFiberMain(v)), id)
             w == setCurrentFiber(vmCleanupFiber(c, id), v.current)
         IN  /\ MachineOK(s, w, l, r)
             /\ \A g \in Fibers : Live(w, g) <=> Live(v, g)
<1> DEFINE id == NextFiber(v)
           c == setCurrentFiber(createFiber(setCurrentFiberMain(v)), id)
           b == vmCleanupFiber(c, id)
           w == setCurrentFiber(b, v.current)
<1>1. v \in VmType /\ TableOK(v) /\ id \in Fibers
  BY DEF MachineOK
<1>2. /\ c \in VmType /\ TableOK(c) /\ v.state[id] = "FREE"
      /\ \A f \in Fibers : c.state[f] = IF f = id THEN "INACTIVE" ELSE v.state[f]
  BY <1>1, CreatedFiber
<1> HIDE DEF c, id
<1>3. /\ b \in VmType /\ TableOK(b)
      /\ \A f \in Fibers : b.state[f] = IF f = id THEN "FREE" ELSE c.state[f]
  BY <1>1, <1>2, CleanupOne
<1> HIDE DEF b
<1>4. \A f \in Fibers : b.state[f] = v.state[f]
  BY <1>2, <1>3
<1>5. v.current = Main \/ Live(b, v.current)
  <2>1. CASE r # <<>>
    BY <1>4, <2>1, MachineLive DEF Live
  <2>2. CASE r = <<>>
    BY <2>2, MachineLive
  <2> QED  BY <2>1, <2>2
<1>6. /\ w \in VmType /\ w.state = b.state /\ w.mFreeItems = b.mFreeItems /\ w.size = b.size
      /\ w.current = v.current
  BY <1>3, <1>5, SetCurrentIs
<1> HIDE DEF w
<1>7. TableOK(w)
  BY <1>3, <1>6 DEF TableOK
<1>8. \A f \in Fibers : w.state[f] = v.state[f]
  BY <1>4, <1>6
<1>9. MachineOK(s, w, l, r)
  BY <1>6, <1>7, <1>8, SameStates
<1>10. \A g \in Fibers : Live(w, g) <=> Live(v, g)
  BY <1>8 DEF Live
<1> QED  BY <1>9, <1>10 DEF w, b, c, id

-----------------------------------------------------------------------------
(* The actions.                                                            *)

\* An id of a slot in use is a fiber's, and flags of fibers that stay live keep
\* their holders.
LEMMA HoldersStay ==
  ASSUME FlagsInv, NEW v, NEW w, HoldersOK(mWaitFlagStack, v),
         \A f \in Fibers : Live(v, f) => Live(w, f)
  PROVE  HoldersOK(mWaitFlagStack, w)
  BY DEF HoldersOK, FlagsInv, SlotShape, Live

\* Cleaning up the flags of the fibers that are freed.
LEMMA HoldersCleaned ==
  ASSUME FlagsInv, NEW v, NEW w, HoldersOK(mWaitFlagStack, v), NEW gone,
         \A f \in Fibers : Live(v, f) /\ f \notin gone => Live(w, f),
         cleanupFiberSuspendFlags(gone)
  PROVE  FlagsInv' /\ HoldersOK(mWaitFlagStack', w)
<1>1. FlagsInv'
  BY CleanupInv
<1>2. \A j \in SlotIds :
        mWaitFlagStack'[j] = IF mWaitFlagStack[j].used /\ mWaitFlagStack[j].fiberId \in gone
                             THEN EmptySlot ELSE mWaitFlagStack[j]
  BY CleanedSlots
<1>3. HoldersOK(mWaitFlagStack', w)
  BY <1>2 DEF HoldersOK, EmptySlot, Live
<1> QED  BY <1>1, <1>3

\* What an action has to show.
LEMMA FMInvNext ==
  ASSUME WordsOK', FlagsInv', MachineOK(mFiberSchedules', vm', loop', runs'),
         ~alive' => mFiberSchedules' = <<>> /\ loop' = Idle /\ runs' = <<>>,
         alive' => HoldersOK(mWaitFlagStack', vm')
  PROVE  FMInv'
  BY DEF FMInv

\* The flag table of an action that leaves it alone.
LEMMA FlagsUnchanged ==
  ASSUME FlagsInv, UNCHANGED flagVars
  PROVE  FlagsInv' /\ mWaitFlagStack' = mWaitFlagStack
<1>1. FlagsInv'
  BY FlagsInvStep
<1> QED  BY <1>1 DEF flagVars

\* An action that moves neither a fiber nor a flag.
LEMMA QuietStep ==
  ASSUME FMInv, WordsOK', UNCHANGED <<mFiberSchedules, alive, vm, loop, runs, flagVars>>
  PROVE  FMInv'
<1>1. FlagsInv' /\ mWaitFlagStack' = mWaitFlagStack
  BY FlagsUnchanged DEF FMInv
<1> QED  BY <1>1 DEF FMInv

\* One that only changes the flag table, and lets nobody hold flags but the
\* current fiber.
LEMMA FlagStep ==
  ASSUME FMInv, UNCHANGED <<managerVars, vm, now, loop, runs>>, FlagsInv',
         \A i \in SlotIds : mWaitFlagStack'[i].used =>
           \/ mWaitFlagStack[i].used /\ mWaitFlagStack'[i].fiberId = mWaitFlagStack[i].fiberId
           \/ mWaitFlagStack'[i].fiberId = vm.current /\ Live(vm, vm.current)
  PROVE  FMInv'
<1>1. WordsOK'
  BY DEF FMInv, WordsOK, managerVars
<1>2. alive' => HoldersOK(mWaitFlagStack', vm')
  BY DEF FMInv, HoldersOK, managerVars
<1> QED  BY <1>1, <1>2 DEF FMInv, managerVars

LEMMA WordSteps ==
  ASSUME FMInv, SetsWord
  PROVE  FMInv'
<1>0. WordsOK
  BY DEF FMInv
<1>1. ASSUME NEW flags \in GlobalWords, setFlagsField(flags) PROVE FMInv'
  <2>1. WordsOK'
    BY <1>0, <1>1, FiberManagerAssumption DEF setFlagsField, WordsOK
  <2> QED  BY <1>1, <2>1, QuietStep DEF setFlagsField
<1>2. ASSUME NEW flags \in GuardWords, setThrowResumeGuardFlags(flags) PROVE FMInv'
  <2>1. WordsOK'
    BY <1>0, <1>2, FiberManagerAssumption DEF setThrowResumeGuardFlags, WordsOK
  <2> QED  BY <1>2, <2>1, QuietStep DEF setThrowResumeGuardFlags
<1>3. ASSUME NEW flags \in FlagWords, SetSuspendMode(flags) PROVE FMInv'
  <2>1. flags \in FlagSet
    BY FiberManagerAssumption DEF FlagSet
  <2>2. FlagsInv'
    BY <1>3, <2>1, FlagsInvStep DEF SetSuspendMode, FlagsNext, FMInv
  <2>3. mWaitFlagStack' = mWaitFlagStack
    BY <1>3 DEF SetSuspendMode, setSuspendMode
  <2> QED  BY <1>3, <2>2, <2>3, FlagStep DEF SetSuspendMode
<1> QED  BY <1>1, <1>2, <1>3 DEF SetsWord

\* The clock, and the start of an exec loop.
LEMMA ClockSteps ==
  ASSUME FMInv, Clock \/ Ticks
  PROVE  FMInv'
<1>1. ASSUME NEW t \in Times, AdvanceTime(t) PROVE FMInv'
  <2>1. WordsOK'
    BY <1>1 DEF AdvanceTime, WordsOK, FMInv, managerVars
  <2> QED  BY <1>1, <2>1, QuietStep DEF AdvanceTime, managerVars
<1>2. ASSUME NEW tickAdvance \in {0, 1}, execFibers(tickAdvance) PROVE FMInv'
  <2>1. WordsOK'
    BY <1>2, FiberManagerAssumption DEF execFibers, WordsOK, FMInv
  <2>2. FlagsInv' /\ mWaitFlagStack' = mWaitFlagStack
    BY <1>2, FlagsUnchanged DEF execFibers, FMInv
  <2>3. /\ alive /\ loop = Idle /\ runs = <<>>
        /\ MachineOK(mFiberSchedules, vm, loop, <<>>) /\ Len(mFiberSchedules) \in Nat
    BY <1>2, MachineFields DEF execFibers, AtHost, FMInv
  <2>4. /\ loop' \in LoopType /\ loop' # Idle /\ loop'.kind = "exec"
        /\ loop'.pos = 1 /\ loop'.end = Len(mFiberSchedules)
    BY <1>2, <2>3 DEF execFibers, LoopType, Idle
  <2>5. MachineOK(mFiberSchedules, vm, loop', <<>>)
    BY <2>3, <2>4, OtherLoop
  <2> QED  BY <1>2, <2>1, <2>2, <2>3, <2>5, FMInvNext DEF execFibers, FMInv
<1> QED  BY <1>1, <1>2 DEF Clock, Ticks

\* spawnFiber, whether or not the function exists.
LEMMA SpawnSteps ==
  ASSUME FMInv, Spawns
  PROVE  FMInv'
<1>0. /\ MachineOK(mFiberSchedules, vm, loop, runs) /\ vm \in VmType /\ TableOK(vm)
      /\ mFiberSchedules \in Seq(InfoType) /\ runs \in Seq(RunType)
  BY DEF FMInv, MachineOK
<1>1. ASSUME NEW object \in Objects \cup {0}, NEW wait \in WaitModes, spawnFiber(object, wait)
      PROVE  FMInv'
  <2> DEFINE fid == NextFiber(vm)
             c == setCurrentFiber(createFiber(setCurrentFiberMain(vm)), fid)
             info == SpawnedInfo(fid, object, wait)
  <2>1. /\ alive /\ (loop = Idle \/ runs # <<>>) /\ fid \in Fibers
        /\ mFiberSchedules' = Append(mFiberSchedules, info)
        /\ vm' = SetState(c, fid, "RUNNING")
        /\ runs' = Append(runs, [fiber |-> fid, ret |-> vm.current])
        /\ UNCHANGED <<mFiberGlobalFlags, mThrowResumeGuardFlags, mNowTick, alive, now, loop, flagVars>>
    BY <1>1 DEF spawnFiber, MayCall, CanCreate
  <2>2. /\ c \in VmType /\ TableOK(c) /\ c.current = fid /\ vm.state[fid] = "FREE"
        /\ \A f \in Fibers : c.state[f] = IF f = fid THEN "INACTIVE" ELSE vm.state[f]
    BY <1>0, <2>1, CreatedFiber
  <2>3. info \in InfoType /\ info.fiberId = fid
    <3>1. wait.waitMode \in WaitModeNames /\ wait.minTime \in Nat /\ wait.flagMask \in SUBSET Flags
      BY FiberManagerAssumption
    <3>2. FLAG_OBJECT \in Flags
      BY FiberManagerAssumption
    <3> HIDE DEF fid
    <3> QED  BY <2>1, <3>1, <3>2 DEF SpawnedInfo, InfoType
  <2> HIDE DEF fid, c, info
  <2>4. /\ vm' \in VmType /\ vm'.mFreeItems = c.mFreeItems /\ vm'.size = c.size /\ vm'.current = fid
        /\ \A f \in Fibers : vm'.state[f] = IF f = fid THEN "RUNNING" ELSE c.state[f]
    <3>1. "RUNNING" \in FiberStates
      BY DEF FiberStates
    <3> QED  BY <2>1, <2>2, <3>1, SetStateIs
  <2>5. \A f \in Fibers : vm'.state[f] = IF f = fid THEN "RUNNING" ELSE vm.state[f]
    BY <2>2, <2>4
  <2>6. TableOK(vm')
    BY <2>1, <2>2, <2>4 DEF TableOK
  <2>7. MachineOK(mFiberSchedules', vm', loop', runs')
    BY <1>0, <2>1, <2>2, <2>3, <2>4, <2>5, <2>6, SpawnedFiber
  <2>8. FlagsInv' /\ mWaitFlagStack' = mWaitFlagStack
    BY <2>1, FlagsUnchanged DEF FMInv
  <2>9. HoldersOK(mWaitFlagStack, vm')
    <3>1. \A f \in Fibers : Live(vm, f) => Live(vm', f)
      BY <2>5 DEF Live
    <3> QED  BY <2>1, <3>1, HoldersStay DEF FMInv
  <2>10. WordsOK'
    BY <2>1 DEF FMInv, WordsOK
  <2> QED  BY <2>1, <2>7, <2>8, <2>9, <2>10, FMInvNext
<1>2. ASSUME spawnFiberFails PROVE FMInv'
  <2>1. /\ alive /\ (loop = Idle \/ runs # <<>>) /\ NextFiber(vm) \in Fibers
        /\ vm' = setCurrentFiber(vmCleanupFiber(
             setCurrentFiber(createFiber(setCurrentFiberMain(vm)), NextFiber(vm)), NextFiber(vm)), vm.current)
        /\ UNCHANGED <<managerVars, now, loop, runs, flagVars>>
    BY <1>2 DEF spawnFiberFails, MayCall, CanCreate
  <2>2. /\ MachineOK(mFiberSchedules, vm', loop, runs)
        /\ \A g \in Fibers : Live(vm', g) <=> Live(vm, g)
    BY <1>0, <2>1, FailedSpawn
  <2>3. FlagsInv' /\ mWaitFlagStack' = mWaitFlagStack
    BY <2>1, FlagsUnchanged DEF FMInv
  <2>4. HoldersOK(mWaitFlagStack, vm')
    BY <2>1, <2>2, HoldersStay DEF FMInv
  <2>5. WordsOK'
    BY <2>1 DEF FMInv, WordsOK, managerVars
  <2> QED  BY <2>1, <2>2, <2>3, <2>4, <2>5, FMInvNext DEF managerVars, FMInv
<1> QED  BY <1>1, <1>2 DEF Spawns

\* A call that changes how an entry waits.
LEMMA WaitStep ==
  ASSUME FMInv, NEW fid \in Fibers \cup {0}, NEW wait \in WaitModes, setFiberWaitMode(fid, wait)
  PROVE  FMInv'
<1>1. /\ alive
      /\ UNCHANGED <<mFiberGlobalFlags, mThrowResumeGuardFlags, mNowTick, alive, vm, now, loop, runs, flagVars>>
  BY DEF setFiberWaitMode, MayCall
<1>2. PICK i \in FirstEntry(fid) :
        mFiberSchedules' = [mFiberSchedules EXCEPT ![i] = WaitingInfo(@, wait)]
  BY DEF setFiberWaitMode
<1>3. /\ mFiberSchedules \in Seq(InfoType) /\ i \in DOMAIN mFiberSchedules
      /\ mFiberSchedules[i] \in InfoType
  BY DEF FMInv, MachineOK, FirstEntry
<1>4. /\ WaitingInfo(mFiberSchedules[i], wait) \in InfoType
      /\ WaitingInfo(mFiberSchedules[i], wait).fiberId = mFiberSchedules[i].fiberId
  <2>1. wait.waitMode \in WaitModeNames /\ wait.minTime \in Nat /\ wait.flagMask \in SUBSET Flags
    BY FiberManagerAssumption
  <2> QED  BY <1>3, <2>1 DEF WaitingInfo, Rewritten, InfoType
<1>5. /\ mFiberSchedules' \in Seq(InfoType) /\ DOMAIN mFiberSchedules' = DOMAIN mFiberSchedules
      /\ \A j \in DOMAIN mFiberSchedules : mFiberSchedules'[j].fiberId = mFiberSchedules[j].fiberId
  BY <1>2, <1>3, <1>4
<1>6. MachineOK(mFiberSchedules', vm, loop, runs)
  BY <1>5, SameFibers DEF FMInv
<1>7. FlagsInv' /\ mWaitFlagStack' = mWaitFlagStack
  BY <1>1, FlagsUnchanged DEF FMInv
<1>8. WordsOK'
  BY <1>1 DEF FMInv, WordsOK
<1> QED  BY <1>1, <1>6, <1>7, <1>8 DEF FMInv

\* A push or a pop by the running fiber.
LEMMA FlagCallSteps ==
  ASSUME FMInv, (\E flags \in FlagWords : PushFlags(flags)) \/ PopFlags
  PROVE  FMInv'
<1>1. /\ runs # <<>> /\ vm.current # Main
      /\ UNCHANGED <<managerVars, vm, now, loop, runs>>
      /\ \/ \E flags \in FlagWords : pushFiberSuspendFlags(vm.current, flags)
         \/ popFiberSuspendFlags(vm.current)
  BY DEF PushFlags, PopFlags
<1>2. Live(vm, vm.current) /\ vm.current \in Fibers
  BY <1>1, MachineLive DEF FMInv, Live
<1>3. FlagsNext
  BY <1>1, <1>2, FiberManagerAssumption DEF FlagsNext, FlagSet
<1>4. FlagsInv'
  BY <1>3, FlagsInvStep DEF FMInv
<1>5. ASSUME NEW i \in SlotIds, mWaitFlagStack'[i].used
      PROVE  \/ mWaitFlagStack[i].used /\ mWaitFlagStack'[i].fiberId = mWaitFlagStack[i].fiberId
             \/ mWaitFlagStack'[i].fiberId = vm.current
  <2>0. \A j \in SlotIds : mWaitFlagStack[j] \in SlotType /\ ShapeOf(mWaitFlagStack[j])
    BY DEF FMInv, FlagsInv, FlagsTypeOK, SlotShape, ShapeOf
  <2>1. ASSUME NEW flags \in FlagWords, pushFiberSuspendFlags(vm.current, flags)
        PROVE  \/ mWaitFlagStack[i].used /\ mWaitFlagStack'[i].fiberId = mWaitFlagStack[i].fiberId
               \/ mWaitFlagStack'[i].fiberId = vm.current
    <3>0. flags \in FlagSet
      BY FiberManagerAssumption DEF FlagSet
    <3>1. CASE mWaitFlagStack' = mWaitFlagStack
      BY <1>5, <3>1
    <3>2. CASE \E j \in SlotIds :
                 /\ IsPushSlot(j, vm.current)
                 /\ mWaitFlagStack' = [mWaitFlagStack EXCEPT ![j] = PushedSlot(@, vm.current, flags)]
      <4>1. PICK j \in SlotIds :
                 /\ IsPushSlot(j, vm.current)
                 /\ mWaitFlagStack' = [mWaitFlagStack EXCEPT ![j] = PushedSlot(@, vm.current, flags)]
        BY <3>2
      <4>2. \/ mWaitFlagStack[j].used /\ mWaitFlagStack[j].fiberId = vm.current
            \/ ~mWaitFlagStack[j].used
        BY <1>2, <4>1, PushSlotIs
      <4>3. PushedSlot(mWaitFlagStack[j], vm.current, flags).fiberId = vm.current
        BY <1>2, <2>0, <3>0, <4>1, <4>2, PushedShape
      <4>4. \A k \in SlotIds : mWaitFlagStack'[k] =
              IF k = j THEN PushedSlot(mWaitFlagStack[j], vm.current, flags) ELSE mWaitFlagStack[k]
        BY <4>1 DEF FMInv, FlagsInv, FlagsTypeOK
      <4> QED  BY <1>5, <4>3, <4>4
    <3> QED  BY <2>1, <3>1, <3>2 DEF pushFiberSuspendFlags
  <2>2. ASSUME popFiberSuspendFlags(vm.current)
        PROVE  mWaitFlagStack[i].used /\ mWaitFlagStack'[i].fiberId = mWaitFlagStack[i].fiberId
    <3>1. CASE mWaitFlagStack' = mWaitFlagStack
      BY <1>5, <3>1
    <3>2. CASE \E j \in Own(vm.current) :
                 mWaitFlagStack' = [mWaitFlagStack EXCEPT ![j] = PoppedSlot(@)]
      <4>1. PICK j \in Own(vm.current) :
                 mWaitFlagStack' = [mWaitFlagStack EXCEPT ![j] = PoppedSlot(@)]
        BY <3>2
      <4>2. j \in SlotIds /\ mWaitFlagStack[j].used
        BY DEF Own
      <4>3. PoppedSlot(mWaitFlagStack[j]).used =>
              PoppedSlot(mWaitFlagStack[j]).fiberId = mWaitFlagStack[j].fiberId
        BY <2>0, <4>2, PoppedShape
      <4>4. \A k \in SlotIds : mWaitFlagStack'[k] =
              IF k = j THEN PoppedSlot(mWaitFlagStack[j]) ELSE mWaitFlagStack[k]
        BY <4>1, <4>2 DEF FMInv, FlagsInv, FlagsTypeOK
      <4> QED  BY <1>5, <4>2, <4>3, <4>4
    <3> QED  BY <2>2, <3>1, <3>2 DEF popFiberSuspendFlags
  <2> QED  BY <1>1, <2>1, <2>2
<1> QED  BY <1>1, <1>2, <1>4, <1>5, FlagStep

\* The positions of a schedule, the last first.
LEMMA Positions ==
  ASSUME NEW s, NEW n \in Nat, Len(s) = n, DOMAIN s = 1 .. n
  PROVE  LET p == Reverse([i \in DOMAIN s |-> i]) IN
         /\ p \in Seq(DOMAIN s)
         /\ \A i, j \in DOMAIN p : p[i] = p[j] => i = j
         /\ \A x : (\E i \in DOMAIN p : p[i] = x) <=> x \in DOMAIN s
<1> DEFINE q == [i \in DOMAIN s |-> i]
           p == Reverse(q)
<1>1. q \in Seq(1 .. n) /\ Len(q) = n /\ \A i \in 1 .. n : q[i] = i
  OBVIOUS
<1> HIDE DEF q
<1>2. /\ p \in Seq(1 .. n) /\ DOMAIN p = 1 .. n
      /\ \A i \in 1 .. n : p[i] = (n - i) + 1
  BY <1>1 DEF Reverse
<1> HIDE DEF p
<1>3. \A i, j \in DOMAIN p : p[i] = p[j] => i = j
  BY <1>2
<1>4. ASSUME NEW x PROVE (\E i \in DOMAIN p : p[i] = x) <=> x \in DOMAIN s
  <2>1. ASSUME x \in 1 .. n PROVE \E i \in DOMAIN p : p[i] = x
    <3>1. (n - x) + 1 \in DOMAIN p /\ p[(n - x) + 1] = x
      BY <1>2, <2>1
    <3> QED  BY <3>1
  <2> QED  BY <1>2, <2>1, SMTT(30)
<1> QED  BY <1>2, <1>3, <1>4 DEF p, q

\* The cleanups: the entries at positions hits.
LEMMA RetireStep ==
  ASSUME FMInv, alive, NEW hits, hits \subseteq DOMAIN mFiberSchedules, Retire(hits),
         UNCHANGED <<mFiberGlobalFlags, mThrowResumeGuardFlags, mNowTick, alive, now, loop, runs>>
  PROVE  FMInv'
<1> DEFINE s == mFiberSchedules
           frees == {i \in hits : MayFree(s[i])}
           p == Reverse([i \in DOMAIN s |-> i])
           order == Chosen(p, frees)
           ids == [k \in DOMAIN order |-> s[order[k]].fiberId]
           gone == ToSet(ids)
<1>0. /\ s \in Seq(InfoType) /\ Len(s) \in Nat /\ DOMAIN s = 1 .. Len(s)
      /\ \A i \in DOMAIN s : s[i] \in InfoType /\ s[i].fiberId \in Fibers \cup {0}
      /\ vm \in VmType /\ TableOK(vm)
      /\ MachineOK(s, vm, loop, runs)
  <2>1. MachineOK(s, vm, loop, runs) /\ TableOK(vm) /\ vm \in VmType
    BY DEF FMInv, MachineOK
  <2> QED  BY <2>1, MachineFields
<1>1. /\ mFiberSchedules' = [i \in DOMAIN s |->
            IF i \notin hits THEN s[i]
            ELSE MarkedForRemoval(s[i], IF i \in frees THEN 0 ELSE s[i].fiberId)]
      /\ vm' = cleanupFibersInOrder(vm, ids)
      /\ cleanupFiberSuspendFlags(gone)
  BY DEF Retire
<1>2. /\ p \in Seq(DOMAIN s)
      /\ \A i, j \in DOMAIN p : p[i] = p[j] => i = j
      /\ \A x : (\E i \in DOMAIN p : p[i] = x) <=> x \in DOMAIN s
  BY <1>0, Positions
<1>3. frees \subseteq DOMAIN s
  OBVIOUS
<1> HIDE DEF p, frees
<1>4. /\ order \in Seq(DOMAIN s)
      /\ \A i, j \in DOMAIN order : order[i] = order[j] => i = j
      /\ \A x : (\E i \in DOMAIN order : order[i] = x) <=> x \in frees
  <2>1. \A i, j \in DOMAIN p : p[i] = p[j] /\ p[i] \in frees => i = j
    BY <1>2
  <2>2. /\ order \in Seq(DOMAIN s)
        /\ \A i, j \in DOMAIN order : order[i] = order[j] => i = j
        /\ \A x : (\E i \in DOMAIN order : order[i] = x) <=> x \in frees /\ \E i \in DOMAIN p : p[i] = x
    BY <1>2, <2>1, ChosenOnce
  <2> QED  BY <1>2, <1>3, <2>2
<1> HIDE DEF order
<1>5. /\ ids \in Seq(Fibers \cup {0}) /\ DOMAIN ids = DOMAIN order
      /\ \A k \in DOMAIN ids : order[k] \in frees /\ order[k] \in DOMAIN s
                               /\ ids[k] = s[order[k]].fiberId
  <2>1. \A k \in DOMAIN order : order[k] \in DOMAIN s /\ order[k] \in frees
    BY <1>3, <1>4
  <2>2. \A k \in DOMAIN order : s[order[k]].fiberId \in Fibers \cup {0}
    BY <1>0, <2>1
  <2>3. Len(order) \in Nat /\ DOMAIN order = 1 .. Len(order)
    BY <1>4
  <2> QED  BY <2>1, <2>2, <2>3
<1> HIDE DEF ids
<1>6. \A i, j \in DOMAIN s : s[i].fiberId = s[j].fiberId /\ s[i].fiberId # 0 => i = j
  BY <1>0 DEF MachineOK, EntriesOK
<1>7. \A i, j \in DOMAIN ids : ids[i] = ids[j] /\ ids[i] # 0 => i = j
  BY <1>4, <1>5, <1>6
<1>8. /\ vm' \in VmType /\ TableOK(vm')
      /\ \A f \in Fibers :
           vm'.state[f] = IF \E i \in DOMAIN ids : ids[i] = f THEN "FREE" ELSE vm.state[f]
      /\ (\A i \in DOMAIN ids : ids[i] # vm.current) => vm'.current = vm.current
  BY <1>0, <1>1, <1>5, <1>7, CleanupIs
<1>9. \A f : f \in gone <=> \E i \in DOMAIN ids : ids[i] = f
  BY DEF ToSet
<1> HIDE DEF gone
<1>10. \A f : f \in gone <=> \E i \in frees : s[i].fiberId = f
  BY <1>4, <1>5, <1>9
<1>11. ASSUME NEW f \in gone, f # 0 PROVE Live(vm, f) /\ vm.state[f] # "RUNNING"
  <2>1. PICK i \in frees : s[i].fiberId = f
    BY <1>10
  <2>2. Live(vm, f)
    BY <1>0, <1>3, <1>11, <2>1 DEF MachineOK, EntriesOK
  <2>3. MayFree(s[i])
    BY <2>1 DEF frees
  <2> QED  BY <2>1, <2>2, <2>3 DEF MayFree, getFiberState
<1>12. \A info \in InfoType, id \in Fibers \cup {0} :
         MarkedForRemoval(info, id) \in InfoType /\ MarkedForRemoval(info, id).fiberId = id
  BY DEF MarkedForRemoval, Rewritten, InfoType, WaitModeNames
<1>13. /\ mFiberSchedules' \in Seq(InfoType) /\ DOMAIN mFiberSchedules' = DOMAIN s
       /\ \A i \in DOMAIN s : mFiberSchedules'[i].fiberId = IF i \in frees THEN 0 ELSE s[i].fiberId
  <2>1. \A i \in DOMAIN s : mFiberSchedules'[i] \in InfoType
    BY <1>0, <1>1, <1>12
  <2>2. \A i \in DOMAIN s : mFiberSchedules'[i].fiberId = IF i \in frees THEN 0 ELSE s[i].fiberId
    BY <1>0, <1>1, <1>12 DEF frees
  <2> QED  BY <1>0, <1>1, <2>1, <2>2
<1>14. \A i \in DOMAIN s : mFiberSchedules'[i].fiberId =
                             IF s[i].fiberId \in gone THEN 0 ELSE s[i].fiberId
  BY <1>3, <1>6, <1>10, <1>13
<1>15. MachineOK(mFiberSchedules', vm', loop, runs)
  <2>1. \A f \in Fibers : vm'.state[f] = IF f \in gone THEN "FREE" ELSE vm.state[f]
    BY <1>8, <1>9
  <2>2. vm.current \notin gone => vm'.current = vm.current
    BY <1>8, <1>9
  <2> QED  BY <1>0, <1>8, <1>11, <1>13, <1>14, <2>1, <2>2, FreedFibers
<1>16. FlagsInv' /\ HoldersOK(mWaitFlagStack', vm')
  <2>1. \A f \in Fibers : Live(vm, f) /\ f \notin gone => Live(vm', f)
    BY <1>8, <1>9 DEF Live
  <2> QED  BY <1>1, <2>1, HoldersCleaned DEF FMInv
<1>17. WordsOK'
  BY DEF FMInv, WordsOK
<1> QED  BY <1>15, <1>16, <1>17, FMInvNext

\* A sequence backwards has the same elements, at as many places.
LEMMA Reversed ==
  ASSUME NEW S, NEW s \in Seq(S)
  PROVE  LET p == Reverse(s) IN
         /\ p \in Seq(S) /\ DOMAIN p = 1 .. Len(s)
         /\ \A i \in 1 .. Len(s) : (Len(s) - i) + 1 \in 1 .. Len(s) /\ p[i] = s[(Len(s) - i) + 1]
         /\ \A x : (\E i \in DOMAIN p : p[i] = x) <=> \E i \in DOMAIN s : s[i] = x
<1> DEFINE n == Len(s)
           p == Reverse(s)
<1>1. n \in Nat /\ DOMAIN s = 1 .. n /\ \A i \in 1 .. n : s[i] \in S
  OBVIOUS
<1>2. /\ p \in Seq(S) /\ DOMAIN p = 1 .. n
      /\ \A i \in 1 .. n : (n - i) + 1 \in 1 .. n /\ p[i] = s[(n - i) + 1]
  BY <1>1 DEF Reverse
<1> HIDE DEF p, n
<1>3. ASSUME NEW x PROVE (\E i \in DOMAIN p : p[i] = x) <=> \E i \in DOMAIN s : s[i] = x
  <2>1. ASSUME NEW i \in 1 .. n, s[i] = x PROVE \E k \in DOMAIN p : p[k] = x
    <3>1. (n - i) + 1 \in 1 .. n /\ (n - ((n - i) + 1)) + 1 = i
      BY <1>1, <2>1
    <3> QED  BY <1>2, <2>1, <3>1
  <2>2. ASSUME NEW i \in 1 .. n, p[i] = x PROVE \E k \in DOMAIN s : s[k] = x
    BY <1>1, <1>2, <2>2
  <2> QED  BY <1>1, <1>2, <2>1, <2>2
<1> QED  BY <1>2, <1>3 DEF p, n

\* The end of the loops and cleanupFibers: what was marked is erased.
LEMMA EraseStep ==
  ASSUME FMInv, alive, loop = Idle \/ runs = <<>>, NEW table \in VmType, TableOK(table),
         table.state = vm.state, table.current = IF runs = <<>> THEN Main ELSE vm.current,
         \A i \in DOMAIN mFiberSchedules :
           Removed(mFiberSchedules[i]) => MayFree(mFiberSchedules[i]),
         EraseRemoved(table), loop' = Idle,
         UNCHANGED <<mFiberGlobalFlags, mThrowResumeGuardFlags, mNowTick, alive, now, runs>>
  PROVE  FMInv'
<1> DEFINE s == mFiberSchedules
           infos == ToSet(s)
           D == {info \in infos : Removed(info) /\ info.fiberId # 0}
           K == {info \in infos : ~Removed(info)}
           p == Reverse(s)
           dead == Chosen(p, D)
           kept == Chosen(s, K)
           ids == [i \in DOMAIN dead |-> dead[i].fiberId]
           gone == ToSet(ids)
<1>0. /\ s \in Seq(InfoType) /\ Len(s) \in Nat /\ DOMAIN s = 1 .. Len(s)
      /\ \A i \in DOMAIN s : s[i] \in InfoType /\ s[i].fiberId \in Fibers \cup {0}
      /\ vm \in VmType /\ MachineOK(s, vm, loop, runs)
  <2>1. MachineOK(s, vm, loop, runs) /\ vm \in VmType
    BY DEF FMInv, MachineOK
  <2> QED  BY <2>1, MachineFields
<1>1. /\ mFiberSchedules' = kept
      /\ vm' = cleanupFibersInOrder(table, ids)
      /\ cleanupFiberSuspendFlags(gone)
  BY DEF EraseRemoved
<1>2. \A x : x \in infos <=> \E i \in DOMAIN s : s[i] = x
  BY DEF ToSet
<1> HIDE DEF infos
<1>3. /\ \A x : x \in D <=> x.fiberId # 0 /\ Removed(x) /\ \E i \in DOMAIN s : s[i] = x
      /\ \A x : x \in K <=> ~Removed(x) /\ \E i \in DOMAIN s : s[i] = x
      /\ \A x \in K : x.fiberId # 0
  BY <1>2 DEF Removed
<1> HIDE DEF D, K
<1>4. \A i, j \in DOMAIN s : s[i].fiberId = s[j].fiberId /\ s[i].fiberId # 0 => i = j
  BY <1>0 DEF MachineOK, EntriesOK
<1>5. /\ p \in Seq(InfoType)
      /\ \A i, j \in DOMAIN p : p[i].fiberId = p[j].fiberId /\ p[i].fiberId # 0 => i = j
      /\ \A x : (\E i \in DOMAIN p : p[i] = x) <=> \E i \in DOMAIN s : s[i] = x
  <2>1. /\ p \in Seq(InfoType) /\ DOMAIN p = 1 .. Len(s)
        /\ \A i \in 1 .. Len(s) : (Len(s) - i) + 1 \in 1 .. Len(s) /\ p[i] = s[(Len(s) - i) + 1]
        /\ \A x : (\E i \in DOMAIN p : p[i] = x) <=> \E i \in DOMAIN s : s[i] = x
    BY <1>0, Reversed
  <2> HIDE DEF p
  <2>2. ASSUME NEW i \in DOMAIN p, NEW j \in DOMAIN p, p[i].fiberId = p[j].fiberId, p[i].fiberId # 0
        PROVE  i = j
    <3>1. (Len(s) - i) + 1 = (Len(s) - j) + 1
      BY <1>0, <1>4, <2>1, <2>2, SMTT(30)
    <3> QED  BY <1>0, <2>1, <3>1
  <2> QED  BY <2>1, <2>2
<1> HIDE DEF p
<1>6. /\ dead \in Seq(InfoType)
      /\ \A i, j \in DOMAIN dead : dead[i] = dead[j] => i = j
      /\ \A x : (\E i \in DOMAIN dead : dead[i] = x) <=> x \in D
  <2>1. \A i, j \in DOMAIN p : p[i] = p[j] /\ p[i] \in D => i = j
    BY <1>3, <1>5
  <2>2. /\ dead \in Seq(InfoType)
        /\ \A i, j \in DOMAIN dead : dead[i] = dead[j] => i = j
        /\ \A x : (\E i \in DOMAIN dead : dead[i] = x) <=> x \in D /\ \E i \in DOMAIN p : p[i] = x
    BY <1>5, <2>1, ChosenOnce
  <2> QED  BY <1>3, <1>5, <2>2
<1>7. /\ kept \in Seq(InfoType)
      /\ \A i, j \in DOMAIN kept : kept[i] = kept[j] => i = j
      /\ \A x : (\E i \in DOMAIN kept : kept[i] = x) <=> x \in K
  <2>1. \A i, j \in DOMAIN s : s[i] = s[j] /\ s[i] \in K => i = j
    BY <1>3, <1>4
  <2>2. /\ kept \in Seq(InfoType)
        /\ \A i, j \in DOMAIN kept : kept[i] = kept[j] => i = j
        /\ \A x : (\E i \in DOMAIN kept : kept[i] = x) <=> x \in K /\ \E i \in DOMAIN s : s[i] = x
    BY <1>0, <2>1, ChosenOnce
  <2> QED  BY <1>3, <2>2
<1> HIDE DEF dead, kept
<1>8. \A k \in DOMAIN dead : \E i \in DOMAIN s : s[i] = dead[k] /\ s[i].fiberId \in Fibers
  <2>1. \A k \in DOMAIN dead : dead[k].fiberId # 0 /\ \E i \in DOMAIN s : s[i] = dead[k]
    BY <1>3, <1>6
  <2> QED  BY <1>0, <2>1
<1>9. /\ ids \in Seq(Fibers \cup {0}) /\ DOMAIN ids = DOMAIN dead
      /\ \A k \in DOMAIN ids : ids[k] = dead[k].fiberId /\ ids[k] \in Fibers
  <2>1. Len(dead) \in Nat /\ DOMAIN dead = 1 .. Len(dead)
    BY <1>6
  <2>2. \A k \in DOMAIN dead : dead[k].fiberId \in Fibers
    BY <1>8
  <2> QED  BY <2>1, <2>2
<1> HIDE DEF ids
<1>10. ASSUME NEW i \in DOMAIN ids, NEW j \in DOMAIN ids, ids[i] = ids[j], ids[i] # 0 PROVE i = j
  <2>1. PICK m \in DOMAIN s : s[m] = dead[i]
    BY <1>8, <1>9
  <2>2. PICK n \in DOMAIN s : s[n] = dead[j]
    BY <1>8, <1>9
  <2>3. m = n
    BY <1>4, <1>9, <1>10, <2>1, <2>2
  <2> QED  BY <1>6, <1>9, <2>1, <2>2, <2>3
<1>11. /\ vm' \in VmType /\ TableOK(vm')
       /\ \A f \in Fibers :
            vm'.state[f] = IF \E i \in DOMAIN ids : ids[i] = f THEN "FREE" ELSE vm.state[f]
       /\ (\A i \in DOMAIN ids : ids[i] # table.current) => vm'.current = table.current
  BY <1>1, <1>9, <1>10, CleanupIs
<1>12. \A f : f \in gone <=> \E i \in DOMAIN ids : ids[i] = f
  BY DEF ToSet
<1> HIDE DEF gone
<1>13. \A f : f \in gone <=> \E x \in D : x.fiberId = f
  BY <1>6, <1>9, <1>12
<1>14. ASSUME NEW f \in gone PROVE f \in Fibers /\ vm.state[f] # "RUNNING"
  <2>1. PICK i \in DOMAIN s : s[i].fiberId = f /\ f # 0 /\ Removed(s[i])
    BY <1>3, <1>13
  <2>2. Live(vm, f) /\ getFiberState(vm, f) # "RUNNING"
    BY <1>0, <2>1 DEF MachineOK, EntriesOK, MayFree
  <2> QED  BY <2>2 DEF getFiberState, Live
<1>15. vm'.current = table.current
  <2>1. runs = <<>> => table.current \notin gone
    BY <1>14, FiberNumbers
  <2>2. runs # <<>> => table.current \notin gone
    <3>1. runs # <<>> => vm.state[vm.current] = "RUNNING"
      <4>1. runs # <<>> => Len(runs) \in DOMAIN runs /\ vm.current = runs[Len(runs)].fiber
        BY <1>0, MachineFields DEF MachineOK, StackOK
      <4> QED  BY <1>0, <4>1, MachineLive
    <3> QED  BY <1>14, <3>1
  <2> QED  BY <1>11, <1>12, <2>1, <2>2
<1>16. MachineOK(kept, vm', Idle, runs)
  <2>1. ASSUME NEW f \in gone PROVE Live(vm, f)
    <3>1. PICK i \in DOMAIN s : s[i].fiberId = f /\ f # 0
      BY <1>3, <1>13
    <3> QED  BY <1>0, <3>1 DEF MachineOK, EntriesOK
  <2>2. \A f \in Fibers : vm'.state[f] = IF f \in gone THEN "FREE" ELSE vm.state[f]
    BY <1>11, <1>12
  <2>3. ASSUME NEW i \in DOMAIN kept
        PROVE  kept[i].fiberId # 0 /\ kept[i].fiberId \notin gone /\ \E j \in DOMAIN s : s[j] = kept[i]
    <3>1. kept[i] \in K
      BY <1>7
    <3>2. PICK j \in DOMAIN s : s[j] = kept[i]
      BY <1>3, <3>1
    <3>3. kept[i].fiberId # 0 /\ ~Removed(kept[i])
      BY <1>3, <3>1
    <3>4. ASSUME NEW x \in D, x.fiberId = kept[i].fiberId PROVE FALSE
      <4>1. PICK k \in DOMAIN s : s[k] = x
        BY <1>3
      <4>2. k = j
        BY <1>4, <3>2, <3>3, <3>4, <4>1
      <4>3. Removed(x)
        BY <1>3
      <4> QED  BY <3>2, <3>3, <4>1, <4>2, <4>3
    <3> QED  BY <1>13, <3>2, <3>3, <3>4
  <2>4. ASSUME NEW j \in DOMAIN s
        PROVE  s[j].fiberId = 0 \/ s[j].fiberId \in gone \/ \E i \in DOMAIN kept : kept[i] = s[j]
    BY <1>3, <1>7, <1>13
  <2>5. /\ MachineOK(s, vm, loop, runs) /\ kept \in Seq(InfoType)
        /\ vm' \in VmType /\ TableOK(vm')
    BY <1>0, <1>7, <1>11
  <2>6. \A i, j \in DOMAIN kept : kept[i] = kept[j] => i = j
    BY <1>7
  <2> HIDE DEF s
  <2>7. Erased(s, vm, kept, vm', gone)
    BY <2>1, <2>2, <2>3, <2>4, <2>5, <2>6 DEF Erased
  <2> QED  BY <1>15, <1>14, <2>5, <2>7, ErasedEntries
<1>17. FlagsInv' /\ HoldersOK(mWaitFlagStack', vm')
  <2>1. \A f \in Fibers : Live(vm, f) /\ f \notin gone => Live(vm', f)
    BY <1>11, <1>12 DEF Live
  <2> QED  BY <1>1, <2>1, HoldersCleaned DEF FMInv
<1>18. WordsOK'
  BY DEF FMInv, WordsOK
<1> QED  BY <1>1, <1>16, <1>17, <1>18, FMInvNext

LEMMA CleanupSteps ==
  ASSUME FMInv, Cleanups, ScriptMayErase = FALSE
  PROVE  FMInv'
<1>1. ASSUME NEW f \in Fibers \cup {0}, cleanupFiber(f) PROVE FMInv'
  <2>1. FirstEntry(f) \subseteq DOMAIN mFiberSchedules
    BY DEF FirstEntry
  <2> QED  BY <1>1, <2>1, RetireStep DEF cleanupFiber, MayCall
<1>2. ASSUME NEW flags \in FlagWords, cleanupWithFlags(flags) PROVE FMInv'
  <2> DEFINE hits == {i \in DOMAIN mFiberSchedules :
                mFiberSchedules[i].fiberId # 0 /\ mFiberSchedules[i].flagMask \cap flags # {}}
  <2>1. hits \subseteq DOMAIN mFiberSchedules
    OBVIOUS
  <2>2. /\ alive /\ Retire(hits)
        /\ UNCHANGED <<mFiberGlobalFlags, mThrowResumeGuardFlags, mNowTick, alive, now, loop, runs>>
    BY <1>2 DEF cleanupWithFlags, MayCall
  <2> HIDE DEF hits
  <2> QED  BY <2>1, <2>2, RetireStep
<1>3. ASSUME NEW object \in Objects, cleanupWithObjectId(object) PROVE FMInv'
  <2> DEFINE hits == {i \in DOMAIN mFiberSchedules :
                mFiberSchedules[i].fiberId # 0 /\ mFiberSchedules[i].thisId = object}
  <2>1. hits \subseteq DOMAIN mFiberSchedules
    OBVIOUS
  <2>2. /\ alive /\ Retire(hits)
        /\ UNCHANGED <<mFiberGlobalFlags, mThrowResumeGuardFlags, mNowTick, alive, now, loop, runs>>
    BY <1>3 DEF cleanupWithObjectId, MayCall
  <2> HIDE DEF hits
  <2> QED  BY <2>1, <2>2, RetireStep
<1>4. ASSUME cleanupFibers PROVE FMInv'
  <2>1. /\ alive /\ loop = Idle /\ EraseRemoved(vm) /\ loop' = Idle
        /\ \A i \in DOMAIN mFiberSchedules :
             Removed(mFiberSchedules[i]) => MayFree(mFiberSchedules[i])
        /\ UNCHANGED <<mFiberGlobalFlags, mThrowResumeGuardFlags, mNowTick, alive, now, runs>>
    BY <1>4 DEF cleanupFibers, MayCall
  <2>2. vm \in VmType /\ TableOK(vm) /\ vm.current = IF runs = <<>> THEN Main ELSE vm.current
    BY <2>1, MachineLive DEF FMInv, MachineOK
  <2> QED  BY <2>1, <2>2, EraseStep
<1> QED  BY <1>1, <1>2, <1>3, <1>4 DEF Cleanups

\* A throw loop, or a throw at the top of the suspend flags, starts; or it has
\* nobody to resume.
LEMMA LoopStart ==
  ASSUME FMInv, alive, NEW k, runs = <<>>, k \in LoopType, k = Idle => vm'.current = Main,
         k.kind = "idle" <=> k = Idle,
         k.kind = "exec" => k.pos >= 1 /\ k.end <= Len(mFiberSchedules),
         k.kind = "throw" => k.pos <= Len(mFiberSchedules),
         vm' = vm \/ vm' = setCurrentFiberMain(vm), vm' = vm \/ k = Idle,
         loop' = k, UNCHANGED <<managerVars, now, runs, flagVars>>
  PROVE  FMInv'
<1>1. /\ MachineOK(mFiberSchedules, vm, loop, <<>>) /\ vm \in VmType /\ TableOK(vm)
  BY DEF FMInv, MachineOK
<1>2. vm' \in VmType /\ vm'.state = vm.state /\ TableOK(vm')
  <2>1. CASE vm' = vm
    BY <1>1, <2>1
  <2>2. CASE vm' = setCurrentFiberMain(vm)
    <3>1. /\ vm' \in VmType /\ vm'.state = vm.state /\ vm'.mFreeItems = vm.mFreeItems
          /\ vm'.size = vm.size
      BY <1>1, <2>2, SetMainIs
    <3> QED  BY <1>1, <3>1 DEF TableOK
  <2> QED  BY <2>1, <2>2
<1>3. MachineOK(mFiberSchedules, vm', k, <<>>)
  <2>1. CASE vm' = vm
    BY <1>1, <2>1, OtherLoop
  <2>2. CASE vm' = setCurrentFiberMain(vm)
    <3>1. vm'.current = Main
      BY <1>1, <2>2, SetMainIs
    <3>2. MachineOK(mFiberSchedules, vm', loop, <<>>)
      BY <1>1, <1>2, <3>1, SameStates
    <3> QED  BY <3>1, <3>2, OtherLoop
  <2> QED  BY <2>1, <2>2
<1>4. \A f \in Fibers : Live(vm, f) => Live(vm', f)
  BY <1>2 DEF Live
<1>5. HoldersOK(mWaitFlagStack, vm')
  BY <1>4, HoldersStay DEF FMInv
<1>6. FlagsInv' /\ mWaitFlagStack' = mWaitFlagStack
  BY FlagsUnchanged DEF FMInv
<1>7. WordsOK'
  BY DEF FMInv, WordsOK, managerVars
<1> QED  BY <1>3, <1>5, <1>6, <1>7, FMInvNext DEF managerVars

\* A loop resumes a fiber.
LEMMA ResumeStep ==
  ASSUME FMInv, alive, runs = <<>>, NEW k, k \in LoopType, k.kind \in {"exec", "throw"},
         k.pos \in DOMAIN mFiberSchedules, k.kind = "exec" => k.end <= Len(mFiberSchedules),
         NEW f \in Fibers, vm.state[f] = "SUSPENDED",
         vm' = SetState(setCurrentFiber(vm, f), f, "RUNNING"),
         runs' = <<[fiber |-> f, ret |-> Main]>>,
         NEW t, t \in Seq(InfoType), DOMAIN t = DOMAIN mFiberSchedules,
         \A i \in DOMAIN t : t[i].fiberId = mFiberSchedules[i].fiberId,
         loop' = k, mFiberSchedules' = t,
         UNCHANGED <<mFiberGlobalFlags, mThrowResumeGuardFlags, mNowTick, alive, now, flagVars>>
  PROVE  FMInv'
<1>1. MachineOK(mFiberSchedules, vm, loop, <<>>)
  BY DEF FMInv
<1>3. k # Idle /\ k.kind # "idle"
  BY DEF Idle
<1>5. /\ MachineOK(mFiberSchedules, vm', k, runs')
      /\ \A g \in Fibers : Live(vm', g) <=> Live(vm, g)
  BY <1>1, <1>3, ResumedFiber
<1>6. MachineOK(mFiberSchedules', vm', loop', runs')
  BY <1>5, SameFibers
<1>7. HoldersOK(mWaitFlagStack, vm')
  BY <1>5, HoldersStay DEF FMInv
<1>8. FlagsInv' /\ mWaitFlagStack' = mWaitFlagStack
  BY FlagsUnchanged DEF FMInv
<1>9. WordsOK'
  BY DEF FMInv, WordsOK
<1> QED  BY <1>6, <1>7, <1>8, <1>9, FMInvNext

\* A throw loop resumes the suspended fiber of an entry.
LEMMA ThrownIs ==
  ASSUME NEW i, getFiberState(vm, mFiberSchedules[i].fiberId) = "SUSPENDED", ResumeThrown(i)
  PROVE  LET f == mFiberSchedules[i].fiberId IN
         /\ f \in Fibers /\ vm.state[f] = "SUSPENDED"
         /\ vm' = SetState(setCurrentFiber(vm, f), f, "RUNNING")
         /\ runs' = <<[fiber |-> f, ret |-> Main]>>
  BY DEF getFiberState, Live, ResumeThrown

LEMMA ThrowSteps ==
  ASSUME FMInv, Throws
  PROVE  FMInv'
<1>0. Len(mFiberSchedules) \in Nat /\ DOMAIN mFiberSchedules = 1 .. Len(mFiberSchedules)
      /\ mFiberSchedules \in Seq(InfoType)
  BY MachineFields DEF FMInv
<1>1. ASSUME NEW mask \in SUBSET Flags, NEW object \in Objects \cup {NoObject}, BeginThrow(mask, object)
      PROVE  FMInv'
  <2> DEFINE k == ThrowLoop(Len(mFiberSchedules), mask, object)
  <2>1. k \in LoopType /\ k.kind = "throw" /\ k.pos = Len(mFiberSchedules) /\ k # Idle
    BY <1>0 DEF ThrowLoop, LoopType, Idle
  <2>2. /\ alive /\ loop = Idle /\ runs = <<>> /\ loop' = k /\ vm' = vm
        /\ UNCHANGED <<managerVars, now, runs, flagVars>>
    BY <1>1 DEF BeginThrow, AtHost
  <2> HIDE DEF k
  <2> QED  BY <1>0, <2>1, <2>2, LoopStart
<1>2. ASSUME NEW mask \in FlagWords, throwWithMask(mask) PROVE FMInv'
  BY <1>1, <1>2, FiberManagerAssumption DEF throwWithMask
<1>3. ASSUME NEW object \in Objects, throwWithObject(object) PROVE FMInv'
  BY <1>1, <1>3 DEF throwWithObject
<1>4. ASSUME NEW hasHandler \in BOOLEAN, throwWithSuspendFlags(hasHandler) PROVE FMInv'
  <2>1. alive /\ loop = Idle /\ runs = <<>> /\ UNCHANGED <<managerVars, now, flagVars>>
    BY <1>4 DEF throwWithSuspendFlags, AtHost
  <2>2. CASE vm' = setCurrentFiberMain(vm) /\ UNCHANGED <<loop, runs>>
    <3>1. vm'.current = Main
      <4>1. vm \in VmType
        BY DEF FMInv, MachineOK
      <4> QED  BY <2>2, <4>1, SetMainIs
    <3>2. Idle \in LoopType /\ Idle.kind = "idle"
      BY DEF Idle, LoopType
    <3> QED  BY <2>1, <2>2, <3>1, <3>2, LoopStart
  <2>3. CASE \E i \in DOMAIN mFiberSchedules :
               /\ getFiberState(vm, mFiberSchedules[i].fiberId) = "SUSPENDED"
               /\ ResumeThrown(i) /\ loop' = ThrowLoop(i, {}, NoObject)
    <3>1. PICK i \in DOMAIN mFiberSchedules :
               /\ getFiberState(vm, mFiberSchedules[i].fiberId) = "SUSPENDED"
               /\ ResumeThrown(i) /\ loop' = ThrowLoop(i, {}, NoObject)
      BY <2>3
    <3> DEFINE k == ThrowLoop(i, {}, NoObject)
    <3>2. k \in LoopType /\ k.kind = "throw" /\ k.pos = i
      BY <1>0 DEF ThrowLoop, LoopType
    <3> HIDE DEF k
    <3>3. loop' = k
      BY <3>1 DEF k
    <3> QED  BY <1>0, <2>1, <3>1, <3>2, <3>3, ThrownIs, ResumeStep DEF managerVars
  <2>4. \/ vm' = setCurrentFiberMain(vm) /\ UNCHANGED <<loop, runs>>
        \/ \E i \in DOMAIN mFiberSchedules :
               /\ getFiberState(vm, mFiberSchedules[i].fiberId) = "SUSPENDED"
               /\ ResumeThrown(i) /\ loop' = ThrowLoop(i, {}, NoObject)
    BY <1>4 DEF throwWithSuspendFlags
  <2> QED  BY <2>2, <2>3, <2>4
<1> QED  BY <1>2, <1>3, <1>4 DEF Throws

\* An entry is given up, when no script runs any more.
LEMMA GivenUp ==
  ASSUME NEW s, NEW v, NEW l, MachineOK(s, v, l, <<>>), NEW i \in DOMAIN s
  PROVE  LET f == s[i].fiberId
             t == [s EXCEPT ![i] = MarkedForRemoval(@, 0)]
             w == vmCleanupFiber(v, f)
         IN  /\ MachineOK(t, w, l, <<>>)
             /\ Len(t) = Len(s)
             /\ \A g \in Fibers : Live(v, g) /\ g \notin {f} => Live(w, g)
<1> DEFINE f == s[i].fiberId
           t == [s EXCEPT ![i] = MarkedForRemoval(@, 0)]
           w == vmCleanupFiber(v, f)
           gone == {f}
<1>1. /\ s \in Seq(InfoType) /\ s[i] \in InfoType /\ f \in Fibers \cup {0}
      /\ Len(s) \in Nat /\ DOMAIN s = 1 .. Len(s)
  BY MachineFields
<1>2. MarkedForRemoval(s[i], 0) \in InfoType /\ MarkedForRemoval(s[i], 0).fiberId = 0
  BY <1>1 DEF MarkedForRemoval, Rewritten, InfoType, WaitModeNames
<1>3. /\ t \in Seq(InfoType) /\ DOMAIN t = DOMAIN s /\ Len(t) = Len(s)
      /\ \A j \in DOMAIN s : t[j] = IF j = i THEN MarkedForRemoval(s[i], 0) ELSE s[j]
  BY <1>1, <1>2
<1> HIDE DEF t
<1>4. v \in VmType /\ TableOK(v)
  BY DEF MachineOK
<1>5. /\ w \in VmType /\ TableOK(w)
      /\ \A g \in Fibers : w.state[g] = IF g = f THEN "FREE" ELSE v.state[g]
      /\ f # v.current => w.current = v.current
  BY <1>1, <1>4, CleanupOne
<1> HIDE DEF w
<1>6. \A j \in DOMAIN s : t[j].fiberId = IF s[j].fiberId \in gone THEN 0 ELSE s[j].fiberId
  <2>1. \A j \in DOMAIN s : s[j].fiberId = f /\ f # 0 => j = i
    BY DEF MachineOK, EntriesOK
  <2> QED  BY <1>2, <1>3, <2>1
<1>7. f # 0 => Live(v, f) /\ v.state[f] # "RUNNING"
  <2>1. f # 0 => Live(v, f) /\ f \in Fibers
    BY <1>1 DEF MachineOK, EntriesOK
  <2> QED  BY <2>1, MachineLive
<1>8. /\ \A g \in gone : g # 0 => Live(v, g) /\ v.state[g] # "RUNNING"
      /\ \A g \in Fibers : w.state[g] = IF g \in gone THEN "FREE" ELSE v.state[g]
      /\ v.current \notin gone => w.current = v.current
  BY <1>5, <1>7
<1> HIDE DEF gone
<1>9. MachineOK(t, w, l, <<>>)
  BY <1>3, <1>5, <1>6, <1>8, FreedFibers
<1>10. \A g \in Fibers : Live(v, g) /\ g \notin {f} => Live(w, g)
  BY <1>5 DEF Live
<1> QED  BY <1>3, <1>9, <1>10 DEF t, w

\* Marking an entry before its fiber is resumed keeps its fiber.
LEMMA MarkedIs ==
  ASSUME NEW info \in InfoType
  PROVE  MarkedInfo(info) \in InfoType /\ MarkedInfo(info).fiberId = info.fiberId
<1>1. FLAG_VISITED \in Flags
  BY FiberManagerAssumption
<1>2. CASE info.waitMode \in {"WAIT_SIMTIME", "WAIT_TICK"}
  <2> DEFINE m == [info EXCEPT !.flagMask = info.flagMask \cup {FLAG_VISITED}]
  <2>1. info.flagMask \cup {FLAG_VISITED} \in SUBSET Flags
    BY <1>1 DEF InfoType
  <2>2. m \in InfoType /\ m.fiberId = info.fiberId
    BY <2>1, Zenon DEF InfoType
  <2>3. MarkedInfo(info) = m
    BY <1>2, Zenon DEF MarkedInfo
  <2> QED  BY <2>2, <2>3
<1>3. CASE info.waitMode = "WAIT_FIBER"
  <2> DEFINE m == Rewritten(info, info.fiberId, "WAIT_IGNORE", 0, info.flagMask)
  <2>1. m \in InfoType /\ m.fiberId = info.fiberId
    BY DEF Rewritten, InfoType, WaitModeNames
  <2>2. MarkedInfo(info) = m
    BY <1>3 DEF MarkedInfo
  <2> QED  BY <2>1, <2>2
<1>4. CASE info.waitMode \notin {"WAIT_SIMTIME", "WAIT_TICK", "WAIT_FIBER"}
  BY <1>4 DEF MarkedInfo
<1> QED  BY <1>2, <1>3, <1>4

\* The fiber execFibers resumes at an entry: the entry's, or the one that was
\* current before when the entry has none.
LEMMA ResumedIs ==
  ASSUME NEW v \in VmType, NEW fid \in Fibers \cup {0},
         NEW table, table = setCurrentFiber(v, fid),
         getFiberState(table, table.current) = "SUSPENDED"
  PROVE  /\ table.current \in Fibers /\ v.state[table.current] = "SUSPENDED"
         /\ table = setCurrentFiber(v, table.current)
<1>1. Live(table, table.current) /\ table.current \in Fibers /\ table.state[table.current] = "SUSPENDED"
  BY DEF getFiberState, Live
<1>2. CASE Live(v, fid)
  <2>1. table.current = fid /\ table.state = v.state
    BY <1>2, SetCurrentIs
  <2> QED  BY <1>1, <2>1
<1>3. CASE ~Live(v, fid)
  <2>1. table = v
    BY <1>3, FiberNumbers DEF setCurrentFiber
  <2>2. setCurrentFiber(v, v.current) = v
    BY VmFields DEF setCurrentFiber, VmType
  <2> QED  BY <1>1, <2>1, <2>2
<1> QED  BY <1>2, <1>3

\* execFibers at an entry that runs.
LEMMA ExecVisitStep ==
  ASSUME FMInv, ExecVisit
  PROVE  FMInv'
<1>1. /\ alive /\ loop.kind = "exec" /\ runs = <<>>
      /\ UNCHANGED <<mFiberGlobalFlags, mThrowResumeGuardFlags, mNowTick, alive, now>>
      /\ MachineOK(mFiberSchedules, vm, loop, <<>>)
  BY DEF ExecVisit, InExec, FMInv
<1>2. PICK i \in ExecStop :
        LET fid == mFiberSchedules[i].fiberId
            marked == [mFiberSchedules EXCEPT ![i] = MarkedInfo(@)]
            table == setCurrentFiber(vm, fid)
        IN  IF getFiberState(table, table.current) = "SUSPENDED"
            THEN /\ mFiberSchedules' = marked
                 /\ vm' = SetState(table, table.current, "RUNNING")
                 /\ runs' = <<[fiber |-> table.current, ret |-> Main]>>
                 /\ loop' = [loop EXCEPT !.pos = i]
                 /\ UNCHANGED flagVars
            ELSE /\ RetireEntry(marked, table, i, fid)
                 /\ loop' = [loop EXCEPT !.pos = i + 1]
                 /\ UNCHANGED runs
  BY DEF ExecVisit
<1> DEFINE s == mFiberSchedules
           fid == s[i].fiberId
           marked == [s EXCEPT ![i] = MarkedInfo(@)]
           table == setCurrentFiber(vm, fid)
<1>3. /\ s \in Seq(InfoType) /\ Len(s) \in Nat /\ DOMAIN s = 1 .. Len(s) /\ loop \in LoopType
      /\ loop.pos \in Nat /\ loop.end \in Nat
      /\ \A j \in DOMAIN s : s[j] \in InfoType
  BY <1>1, MachineFields
<1>4. i \in DOMAIN s /\ i \in Nat /\ loop.end <= Len(s) /\ loop # Idle
  <2>1. loop.pos >= 1 /\ loop.end <= Len(s) /\ loop # Idle
    BY <1>1 DEF MachineOK, LoopOK
  <2>2. i \in loop.pos .. loop.end
    BY DEF ExecStop
  <2> QED  BY <1>3, <2>1, <2>2
<1>5. /\ marked \in Seq(InfoType) /\ DOMAIN marked = DOMAIN s /\ Len(marked) = Len(s)
      /\ \A j \in DOMAIN s : marked[j].fiberId = s[j].fiberId
  BY <1>3, <1>4, MarkedIs
<1> HIDE DEF marked
<1>6. MachineOK(marked, vm, loop, <<>>)
  BY <1>1, <1>5, SameFibers
<1>7. ASSUME NEW pos \in Nat
      PROVE  LET k == [loop EXCEPT !.pos = pos] IN
             k \in LoopType /\ k.kind = "exec" /\ k.end = loop.end /\ k.pos = pos
  BY <1>1, <1>3, Zenon DEF LoopType
<1>8. CASE getFiberState(table, table.current) = "SUSPENDED"
  <2> DEFINE k == [loop EXCEPT !.pos = i]
  <2>1. /\ mFiberSchedules' = marked /\ loop' = k /\ UNCHANGED flagVars
        /\ vm' = SetState(table, table.current, "RUNNING")
        /\ runs' = <<[fiber |-> table.current, ret |-> Main]>>
    BY <1>2, <1>8 DEF marked
  <2>3. vm \in VmType /\ fid \in Fibers \cup {0}
    BY <1>1, <1>4, MachineFields
  <2>4. /\ table.current \in Fibers /\ vm.state[table.current] = "SUSPENDED"
        /\ table = setCurrentFiber(vm, table.current)
    <3> HIDE DEF fid
    <3>1. table = setCurrentFiber(vm, fid)
      OBVIOUS
    <3> HIDE DEF table
    <3> QED  BY <1>8, <2>3, <3>1, ResumedIs
  <2>2. k \in LoopType /\ k.kind = "exec" /\ k.end = loop.end /\ k.pos = i
    BY <1>4, <1>7
  <2> HIDE DEF k, table
  <2>5. vm' = SetState(setCurrentFiber(vm, table.current), table.current, "RUNNING")
    BY <2>1, <2>4
  <2> QED  BY <1>1, <1>4, <1>5, <2>1, <2>2, <2>4, <2>5, ResumeStep
<1>9. CASE getFiberState(table, table.current) # "SUSPENDED"
  <2> DEFINE k == [loop EXCEPT !.pos = i + 1]
  <2>1. /\ mFiberSchedules' = [marked EXCEPT ![i] = MarkedForRemoval(@, 0)]
        /\ vm' = vmCleanupFiber(table, fid) /\ cleanupFiberSuspendFlags({fid})
        /\ loop' = k /\ runs' = <<>>
    BY <1>1, <1>2, <1>9 DEF RetireEntry, marked
  <2>0. i + 1 \in Nat
    BY <1>4
  <2>2. k \in LoopType /\ k.kind = "exec" /\ k.end = loop.end /\ k.pos = i + 1 /\ k # Idle
    <3>1. k \in LoopType /\ k.kind = "exec" /\ k.end = loop.end /\ k.pos = i + 1
      BY <1>7, <2>0
    <3> HIDE DEF k
    <3> QED  BY <3>1 DEF Idle
  <2> HIDE DEF k
  <2>3. table \in VmType /\ TableOK(table) /\ table.state = vm.state
    <3>1. vm \in VmType /\ TableOK(vm)
      BY <1>1 DEF MachineOK
    <3>2. CASE Live(vm, fid)
      <4>1. /\ table \in VmType /\ table.state = vm.state /\ table.mFreeItems = vm.mFreeItems
            /\ table.size = vm.size
        BY <3>1, <3>2, SetCurrentIs
      <4> QED  BY <3>1, <4>1 DEF TableOK
    <3>3. CASE ~Live(vm, fid)
      <4>1. fid # Main
        BY <1>1, <1>4, MachineFields, FiberNumbers
      <4> QED  BY <3>1, <3>3, <4>1 DEF setCurrentFiber
    <3> QED  BY <3>2, <3>3
  <2> HIDE DEF table
  <2>4. MachineOK(marked, table, loop, <<>>)
    BY <1>4, <1>6, <2>3, SameStates
  <2>5. marked[i].fiberId = fid /\ i \in DOMAIN marked
    BY <1>4, <1>5
  <2>6. /\ MachineOK(mFiberSchedules', vm', loop, <<>>)
        /\ Len(mFiberSchedules') = Len(marked)
        /\ \A g \in Fibers : Live(table, g) /\ g \notin {fid} => Live(vm', g)
    BY <2>1, <2>4, <2>5, GivenUp
  <2>7. MachineOK(mFiberSchedules', vm', k, <<>>)
    BY <1>3, <1>4, <1>5, <2>2, <2>6, OtherLoop
  <2>8. FlagsInv' /\ HoldersOK(mWaitFlagStack', vm')
    <3>1. \A g \in Fibers : Live(vm, g) /\ g \notin {fid} => Live(vm', g)
      BY <2>3, <2>6 DEF Live
    <3> QED  BY <1>1, <2>1, <3>1, HoldersCleaned DEF FMInv
  <2>9. WordsOK'
    BY <1>1 DEF FMInv, WordsOK
  <2> QED  BY <1>1, <2>1, <2>7, <2>8, <2>9, FMInvNext
<1> QED  BY <1>8, <1>9

\* The other steps of the loops.
LEMMA LoopSteps ==
  ASSUME FMInv, LoopStep
  PROVE  FMInv'
<1>1. CASE ExecVisit
  BY <1>1, ExecVisitStep
<1>2. CASE ExecDone
  <2>1. /\ alive /\ runs = <<>> /\ EraseRemoved(setCurrentFiberMain(vm)) /\ loop' = Idle
        /\ UNCHANGED <<mFiberGlobalFlags, mThrowResumeGuardFlags, mNowTick, alive, now, runs>>
    BY <1>2 DEF ExecDone, InExec
  <2> DEFINE table == setCurrentFiberMain(vm)
  <2>2. vm \in VmType /\ TableOK(vm)
    BY DEF FMInv, MachineOK
  <2>3. /\ table \in VmType /\ table.state = vm.state /\ table.mFreeItems = vm.mFreeItems
        /\ table.size = vm.size /\ table.current = Main
    BY <2>2, SetMainIs
  <2>4. EraseRemoved(table)
    BY <2>1
  <2> HIDE DEF table
  <2>5. TableOK(table)
    BY <2>2, <2>3 DEF TableOK
  <2>6. \A i \in DOMAIN mFiberSchedules : MayFree(mFiberSchedules[i])
    BY <2>1 DEF FMInv, MachineOK, StackOK, MayFree, getFiberState, Live
  <2> QED  BY <2>1, <2>3, <2>4, <2>5, <2>6, EraseStep
<1>3. CASE ThrowVisit
  <2>1. /\ alive /\ loop.kind = "throw" /\ runs = <<>>
        /\ MachineOK(mFiberSchedules, vm, loop, <<>>)
        /\ UNCHANGED <<managerVars, now, flagVars>>
    BY <1>3 DEF ThrowVisit, InThrow, FMInv
  <2>2. PICK i \in ThrowStop : ResumeThrown(i) /\ loop' = [loop EXCEPT !.pos = i]
    BY <1>3 DEF ThrowVisit
  <2>3. /\ mFiberSchedules \in Seq(InfoType) /\ Len(mFiberSchedules) \in Nat
        /\ DOMAIN mFiberSchedules = 1 .. Len(mFiberSchedules)
        /\ loop \in LoopType /\ loop.pos \in Nat
    BY <2>1, MachineFields
  <2>4. i \in DOMAIN mFiberSchedules /\ i \in Nat
    <3>1. loop.pos <= Len(mFiberSchedules) /\ i \in 1 .. loop.pos
      BY <2>1 DEF MachineOK, LoopOK, ThrowStop
    <3> QED  BY <2>3, <3>1
  <2>5. getFiberState(vm, mFiberSchedules[i].fiberId) = "SUSPENDED"
    BY DEF ThrowStop, Selected
  <2> DEFINE k == [loop EXCEPT !.pos = i]
  <2>6. k \in LoopType /\ k.kind = "throw" /\ k.pos = i
    BY <2>1, <2>3, <2>4, Zenon DEF LoopType
  <2>7. loop' = k
    BY <2>2
  <2> HIDE DEF k
  <2> QED  BY <2>1, <2>2, <2>3, <2>4, <2>5, <2>6, <2>7, ThrownIs, ResumeStep DEF managerVars
<1>4. CASE ThrowDone
  <2>1. /\ alive /\ runs = <<>> /\ vm' = setCurrentFiberMain(vm) /\ loop' = Idle
        /\ UNCHANGED <<managerVars, now, runs, flagVars>>
    BY <1>4 DEF ThrowDone, InThrow
  <2>2. vm'.current = Main
    <3>1. vm \in VmType
      BY DEF FMInv, MachineOK
    <3> QED  BY <2>1, <3>1, SetMainIs
  <2>3. Idle \in LoopType /\ Idle.kind = "idle"
    BY DEF Idle, LoopType
  <2> QED  BY <2>1, <2>2, <2>3, LoopStart
<1> QED  BY <1>1, <1>2, <1>3, <1>4 DEF LoopStep

\* A run ends, under a loop or under a spawn.
LEMMA RunSteps ==
  ASSUME FMInv, NEW outcome \in {"SUSPENDED", "FINISHED", "ERROR"}, RunEnds(outcome)
  PROVE  FMInv'
<1> DEFINE s == mFiberSchedules
           top == runs[Len(runs)]
           stopped == SetState(vm, top.fiber, outcome)
           k == [loop EXCEPT !.pos = NextPos]
<1>1. /\ alive /\ runs # <<>> /\ runs' = SubSeq(runs, 1, Len(runs) - 1)
      /\ UNCHANGED <<mFiberGlobalFlags, mThrowResumeGuardFlags, mNowTick, alive, now>>
  BY DEF RunEnds
<1>2. MachineOK(s, vm, loop, runs)
  BY DEF FMInv
<1>3. /\ s \in Seq(InfoType) /\ Len(s) \in Nat /\ DOMAIN s = 1 .. Len(s) /\ loop \in LoopType
      /\ runs \in Seq(RunType) /\ Len(runs) \in Nat
      /\ loop.pos \in Nat /\ loop.end \in Nat
  BY <1>2, MachineFields
<1>4. /\ top.fiber \in Fibers
      /\ \A g \in Fibers : Live(stopped, g) <=> Live(vm, g)
  BY <1>1, <1>2, StoppedRun
<1>5. WordsOK'
  BY <1>1 DEF FMInv, WordsOK
<1>6. CASE Len(runs) = 1 /\ loop # Idle
  <2>1. /\ loop' = k /\ runs' = <<>>
        /\ IF outcome = "SUSPENDED"
           THEN vm' = stopped /\ UNCHANGED <<mFiberSchedules, flagVars>>
           ELSE RetireEntry(s, stopped, loop.pos, s[loop.pos].fiberId)
    <3>1. SubSeq(runs, 1, Len(runs) - 1) = <<>>
      BY <1>3, <1>6
    <3> QED  BY <1>1, <1>6, <3>1 DEF RunEnds
  <2>2. loop.pos \in DOMAIN s /\ top = runs[1]
    BY <1>1, <1>2, <1>6 DEF MachineOK, LoopOK
  <2>3. NextPos \in Nat /\ NextPos = IF loop.kind = "exec" THEN loop.pos + 1 ELSE loop.pos - 1
    BY <1>3, <2>2 DEF NextPos
  <2>4. MachineOK(s, SetState(vm, runs[1].fiber, outcome), [loop EXCEPT !.pos = NextPos], <<>>)
    BY <1>2, <1>6, <2>3, BackToLoop
  <2> HIDE DEF stopped, k
  <2>5. MachineOK(s, stopped, k, <<>>)
    BY <2>2, <2>4 DEF stopped, k
  <2>6. CASE outcome = "SUSPENDED"
    <3>1. vm' = stopped /\ UNCHANGED <<mFiberSchedules, flagVars>>
      BY <2>1, <2>6
    <3>2. MachineOK(mFiberSchedules', vm', loop', runs')
      BY <2>1, <2>5, <3>1
    <3>3. FlagsInv' /\ mWaitFlagStack' = mWaitFlagStack
      BY <3>1, FlagsUnchanged DEF FMInv
    <3>4. HoldersOK(mWaitFlagStack, vm')
      BY <1>1, <1>4, <3>1, HoldersStay DEF FMInv
    <3> QED  BY <1>1, <1>5, <3>2, <3>3, <3>4, FMInvNext
  <2>7. CASE outcome # "SUSPENDED"
    <3> DEFINE f == s[loop.pos].fiberId
    <3>1. /\ mFiberSchedules' = [s EXCEPT ![loop.pos] = MarkedForRemoval(@, 0)]
          /\ vm' = vmCleanupFiber(stopped, s[loop.pos].fiberId)
          /\ cleanupFiberSuspendFlags({f})
      BY <2>1, <2>2, <2>7 DEF RetireEntry
    <3>2. /\ MachineOK(mFiberSchedules', vm', k, <<>>)
          /\ \A g \in Fibers : Live(stopped, g) /\ g \notin {f} => Live(vm', g)
      BY <2>2, <2>5, <3>1, GivenUp
    <3>3. \A g \in Fibers : Live(vm, g) /\ g \notin {f} => Live(vm', g)
      BY <1>4, <3>2
    <3>4. FlagsInv' /\ HoldersOK(mWaitFlagStack', vm')
      BY <1>1, <3>1, <3>3, HoldersCleaned DEF FMInv
    <3> QED  BY <1>1, <1>5, <2>1, <3>2, <3>4, FMInvNext
  <2> QED  BY <2>6, <2>7
<1>7. CASE ~(Len(runs) = 1 /\ loop # Idle)
  <2>1. vm' = setCurrentFiber(stopped, top.ret) /\ UNCHANGED <<mFiberSchedules, loop, flagVars>>
    BY <1>7 DEF RunEnds
  <2>2. /\ MachineOK(s, vm', loop, runs')
        /\ \A g \in Fibers : Live(vm', g) <=> Live(vm, g)
    BY <1>1, <1>2, <1>7, <2>1, BackToCaller
  <2>3. FlagsInv' /\ mWaitFlagStack' = mWaitFlagStack
    BY <2>1, FlagsUnchanged DEF FMInv
  <2>4. HoldersOK(mWaitFlagStack, vm')
    BY <1>1, <2>2, HoldersStay DEF FMInv
  <2> QED  BY <1>1, <1>5, <2>1, <2>2, <2>3, <2>4, FMInvNext
<1> QED  BY <1>6, <1>7

\* The manager is created and deleted by the host.
LEMMA LifetimeSteps ==
  ASSUME FMInv, Lifetime, ScriptMayDelete = FALSE
  PROVE  FMInv'
<1>0. MachineOK(mFiberSchedules, vm, loop, runs)
  BY DEF FMInv
<1>1. CASE onAdd
  <2>1. /\ ~alive /\ alive' = TRUE /\ UNCHANGED <<vm, now, loop, runs>>
        /\ mFiberSchedules' = <<>> /\ mFiberGlobalFlags' = {} /\ mThrowResumeGuardFlags' = {}
        /\ mNowTick' = 0
    BY <1>1 DEF onAdd, Reset
  <2>2. FlagsInit'
    BY <1>1 DEF onAdd, Reset, FlagsInit
  <2>3. FlagsInv'
    <3>1. FlagsInit' => FlagsInv'
      BY FlagsInvInit, PTL
    <3> QED  BY <2>2, <3>1
  <2>4. MachineOK(mFiberSchedules', vm', loop', runs')
    BY <1>0, <2>1 DEF FMInv
  <2>5. HoldersOK(mWaitFlagStack', vm')
    BY <2>2 DEF FlagsInit, HoldersOK, EmptySlot
  <2>6. WordsOK'
    BY <2>1, FiberManagerAssumption DEF WordsOK, FMInv
  <2> QED  BY <2>1, <2>3, <2>4, <2>5, <2>6, FMInvNext
<1>2. CASE onRemove
  <2> DEFINE s == mFiberSchedules
             ids == [i \in DOMAIN s |-> s[i].fiberId]
  <2>1. /\ alive /\ loop = Idle /\ runs = <<>> /\ alive' = FALSE /\ mFiberSchedules' = <<>>
        /\ vm' = cleanupFibersInOrder(vm, ids)
        /\ UNCHANGED <<mFiberGlobalFlags, mThrowResumeGuardFlags, mNowTick, now, loop, runs, flagVars>>
    BY <1>2 DEF onRemove, AtHost
  <2>2. /\ vm \in VmType /\ TableOK(vm) /\ vm.current = Main
        /\ \A f \in Fibers : vm.state[f] # "RUNNING"
    BY <1>0, <2>1, MachineLive DEF MachineOK
  <2>3. /\ Len(s) \in Nat /\ DOMAIN s = 1 .. Len(s)
        /\ \A i \in DOMAIN s : s[i].fiberId \in Fibers \cup {0}
    BY <1>0, MachineFields
  <2>4. ids \in Seq(Fibers \cup {0}) /\ DOMAIN ids = DOMAIN s
    BY <2>3
  <2>5. \A i \in DOMAIN s : ids[i] = s[i].fiberId
    OBVIOUS
  <2> HIDE DEF ids
  <2>6. \A i, j \in DOMAIN ids : ids[i] = ids[j] /\ ids[i] # 0 => i = j
    BY <1>0, <2>4, <2>5 DEF MachineOK, EntriesOK
  <2>7. /\ vm' \in VmType /\ TableOK(vm')
        /\ \A f \in Fibers :
             vm'.state[f] = IF \E i \in DOMAIN ids : ids[i] = f THEN "FREE" ELSE vm.state[f]
        /\ (\A i \in DOMAIN ids : ids[i] # vm.current) => vm'.current = vm.current
    BY <2>1, <2>2, <2>4, <2>6, CleanupIs
  <2>8. vm'.current = Main
    BY <2>2, <2>3, <2>4, <2>5, <2>7, FiberNumbers
  <2>9. \A f \in Fibers : ~Live(vm', f)
    <3>1. ASSUME NEW f \in Fibers, Live(vm', f) PROVE FALSE
      <4>1. Live(vm, f) /\ ~\E i \in DOMAIN ids : ids[i] = f
        BY <2>7, <3>1 DEF Live
      <4>2. \E i \in DOMAIN s : s[i].fiberId = f
        BY <1>0, <4>1 DEF MachineOK, EntriesOK
      <4> QED  BY <2>4, <2>5, <4>1, <4>2
    <3> QED  BY <3>1
  <2>10. EntriesOK(<<>>, vm')
    BY <2>9 DEF EntriesOK
  <2>11. StackOK(<<>>, Idle, vm')
    BY <2>2, <2>7, <2>8 DEF StackOK
  <2>12. LoopOK(Idle, <<>>, <<>>)
    BY DEF LoopOK, Idle
  <2>13. Idle \in LoopType
    BY DEF LoopType, Idle
  <2>14. MachineOK(mFiberSchedules', vm', loop', runs')
    BY <2>1, <2>7, <2>10, <2>11, <2>12, <2>13 DEF MachineOK
  <2>15. FlagsInv'
    BY <2>1, FlagsUnchanged DEF FMInv
  <2>16. WordsOK'
    BY <2>1 DEF WordsOK, FMInv
  <2> QED  BY <2>1, <2>14, <2>15, <2>16, FMInvNext
<1> QED  BY <1>1, <1>2 DEF Lifetime
-----------------------------------------------------------------------------
(* The inductive invariant, and what it gives.                             *)

LEMMA FMInvInit == FMInit => FMInv
<1> SUFFICES ASSUME FMInit PROVE FMInv
  OBVIOUS
<1>1. /\ mFiberSchedules = <<>> /\ alive = TRUE /\ vm = VmInit /\ loop = Idle /\ runs = <<>>
      /\ FlagsInit /\ WordsOK
  BY FiberManagerAssumption DEF FMInit, WordsOK
<1>2. FlagsInv
  BY <1>1, FlagsInvInit
<1>3. vm \in VmType /\ vm.current = Main /\ vm.size = 1 /\ vm.mFreeItems = <<>>
      /\ \A f \in Fibers : vm.state[f] = "FREE"
  BY <1>1 DEF VmInit, VmType, FiberStates
<1>4. TableOK(vm)
  <2>1. \A f \in Fibers : f > HandleValue(1)
    BY FibersAssumption DEF Main
  <2> QED  BY <1>3, <2>1 DEF TableOK
<1>5. EntriesOK(<<>>, vm)
  BY <1>3 DEF EntriesOK, Live
<1>6. StackOK(<<>>, Idle, vm)
  BY <1>3 DEF StackOK
<1>7. LoopOK(Idle, <<>>, <<>>) /\ Idle \in LoopType
  BY DEF LoopOK, Idle, LoopType
<1>8. MachineOK(<<>>, vm, Idle, <<>>)
  BY <1>3, <1>4, <1>5, <1>6, <1>7 DEF MachineOK
<1>9. HoldersOK(mWaitFlagStack, vm)
  BY <1>1 DEF FlagsInit, HoldersOK, EmptySlot
<1> QED  BY <1>1, <1>2, <1>8, <1>9 DEF FMInv

LEMMA FMInvStep ==
  ASSUME FMInv, [FMNext]_fmVars, ScriptMayDelete = FALSE, ScriptMayErase = FALSE
  PROVE  FMInv'
<1>1. CASE Lifetime
  BY <1>1, LifetimeSteps
<1>2. CASE SetsWord
  BY <1>2, WordSteps
<1>3. CASE Spawns
  BY <1>3, SpawnSteps
<1>4. CASE FiberCalls
  BY <1>4, WaitStep, FlagCallSteps DEF FiberCalls
<1>5. CASE Cleanups
  BY <1>5, CleanupSteps
<1>6. CASE Throws
  BY <1>6, ThrowSteps
<1>7. CASE LoopStep
  BY <1>7, LoopSteps
<1>8. CASE RunStep
  BY <1>8, RunSteps DEF RunStep, RunYields, RunFinishes, RunDies
<1>9. CASE Ticks \/ Clock
  BY <1>9, ClockSteps
<1>10. CASE UNCHANGED fmVars
  <2>1. UNCHANGED <<managerVars, vm, now, loop, runs, flagVars>>
    BY <1>10 DEF fmVars
  <2>2. WordsOK'
    BY <2>1 DEF FMInv, WordsOK, managerVars
  <2> QED  BY <2>1, <2>2, QuietStep DEF managerVars
<1> QED  BY <1>1, <1>2, <1>3, <1>4, <1>5, <1>6, <1>7, <1>8, <1>9, <1>10 DEF FMNext

\* What the schedule, the VM, the flag table and the call stack must agree on.
LEMMA FMInvImplies == FMInv => FibersConsistent /\ FMTypeOK
<1> SUFFICES ASSUME FMInv PROVE FibersConsistent /\ FMTypeOK
  OBVIOUS
<1>1. EntriesOwnFibers
  BY DEF FMInv, MachineOK, EntriesOK, EntriesOwnFibers, Tracked
<1>2. SuspendersExist
  BY DEF FMInv, HoldersOK, SuspendersExist
<1>3. CurrentIsRunner
  BY DEF FMInv, MachineOK, StackOK, CurrentIsRunner, AtHost
<1>4. RunningIffOnStack
  BY DEF FMInv, MachineOK, StackOK, RunningIffOnStack, OnStack
<1>5. FMTypeOK
  BY DEF FMInv, WordsOK, FlagsInv, MachineOK, FMTypeOK
<1> QED  BY <1>1, <1>2, <1>3, <1>4, <1>5 DEF FibersConsistent

\* The manager's fields, the fiber table, the loop and the call stack keep their
\* types, whatever the scripts call and when.
THEOREM FibersAlwaysTyped ==
  ASSUME ScriptMayDelete = FALSE, ScriptMayErase = FALSE
  PROVE  FMSpec => []FMTypeOK
<1>1. FMInv /\ [FMNext]_fmVars => FMInv'
  BY FMInvStep
<1>2. FMInv => FMTypeOK
  BY FMInvImplies
<1> QED  BY <1>1, <1>2, FMInvInit, PTL DEF FMSpec

\* Entries and fibers always correspond one to one, suspend flags are held only
\* by fibers that exist, the current fiber is the one whose script executes, and
\* a fiber is RUNNING exactly while it is on the call stack: for any number of
\* fibers, flags, slots and waits, however deep the spawns nest and whoever cleans
\* up in the middle of a run, as long as no script deletes the manager it runs
\* under, and none has marked fibers freed that run or entries erased under a loop.
THEOREM FibersAlwaysConsistent ==
  ASSUME ScriptMayDelete = FALSE, ScriptMayErase = FALSE
  PROVE  FMSpec => []FibersConsistent
<1>1. FMInv /\ [FMNext]_fmVars => FMInv'
  BY FMInvStep
<1>2. FMInv => FibersConsistent
  BY FMInvImplies
<1> QED  BY <1>1, <1>2, FMInvInit, PTL DEF FMSpec

\* execFibers never resumes a fiber whose mask meets a flag that some slot holds.
\* It reads the cached word, so this rests on the word being exact.
THEOREM SuspendAlwaysRespected ==
  ASSUME ScriptMayDelete = FALSE, ScriptMayErase = FALSE
  PROVE  FMSpec => SuspendRespected
<1> DEFINE Respected(i) == ExecVisit /\ loop'.pos = i /\ runs' # <<>> =>
             \A s \in SlotIds : mWaitFlagStack[s].used =>
               mWaitFlagStack[s].flag \cap mFiberSchedules[i].flagMask = {}
<1>1. ASSUME FMInv, NEW i \in DOMAIN mFiberSchedules, ExecVisit, loop'.pos = i, runs' # <<>>,
             NEW s \in SlotIds, mWaitFlagStack[s].used
      PROVE  mWaitFlagStack[s].flag \cap mFiberSchedules[i].flagMask = {}
  <2>1. runs = <<>> /\ loop \in LoopType
    BY <1>1 DEF ExecVisit, InExec, FMInv, MachineOK
  <2>2. PICK j \in ExecStop : loop' = [loop EXCEPT !.pos = j]
    BY <1>1, <2>1 DEF ExecVisit
  <2>3. j = i
    <3>1. [loop EXCEPT !.pos = j].pos = j
      BY <2>1, Zenon DEF LoopType
    <3> QED  BY <1>1, <2>2, <3>1
  <2>4. mFiberSchedules[i].flagMask \cap mWaitFiberFlags = {}
    BY <2>3 DEF ExecStop, shouldRunFiber, HeldBack
  <2>5. mWaitFlagStack[s].flag \subseteq mWaitFiberFlags
    BY <1>1 DEF FMInv, FlagsInv, WaitFlagsExact, recalculateSuspendFlags
  <2> QED  BY <2>4, <2>5
<1>2. FMInv => \A i \in DOMAIN mFiberSchedules : Respected(i)
  BY <1>1
<1>3. FMInv /\ [FMNext]_fmVars => FMInv'
  BY FMInvStep
<1> QED  BY <1>2, <1>3, FMInvInit, PTL DEF FMSpec, SuspendRespected
=============================================================================
