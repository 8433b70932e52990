----------------------------- MODULE ScriptExec -----------------------------
(***************************************************************************)
(* The interpreter (ExprEvalState::runVM, CodeBlock::exec): script calls   *)
(* script in one runVM, script calls native code, native code calls script *)
(* through a nested runVM on the same frames, and exceptions and yields    *)
(* come up in the middle.  One fiber; es.runs is the C++ stack of runVM    *)
(* calls, innermost last.                                                  *)
(*                                                                         *)
(* Scripts are arbitrary: at every point the innermost script frame does   *)
(* any statement its open blocks allow and a native function makes any     *)
(* call; Statements says which kinds occur.                                *)
(***************************************************************************)
EXTENDS Integers, SequencesExt, FiniteSetsExt

(***************************************************************************)
(* The execution state of one fiber: ExprEvalState and ConsoleFrame        *)
(* (engine/console/consoleInternal.h, compiledEval.cc) with the frames of  *)
(* its StringStack (stringStack.h).                                        *)
(*                                                                         *)
(* The operators are functions of a state es, named after the code, so     *)
(* that an opcode composes the calls it makes.  An instruction pointer is  *)
(* the function whose code it points into with the blocks open there: the  *)
(* try statements, foreach loops and argument lists that enclose it.       *)
(* Values, locals and the number and object stacks are left out.  Masks of *)
(* exceptions are sets of bits.  AssertFatal is compiled out of release    *)
(* builds and stops nothing.                                               *)
(***************************************************************************)

CONSTANTS
  Functions,        \* script functions and evaluated code blocks
  Bits,             \* the bits a script throws and catches
  Sets,             \* the objects a script iterates over
  MaxTry,           \* bound on open try statements (MaxTryStackSize is 24)
  MaxIter,          \* bound on open loops (MaxIterStackSize is 64)
  MaxStackDepth     \* entries of the string stack (64)

ASSUME EvalAssumption ==
  /\ MaxTry \in Nat /\ MaxIter \in Nat /\ MaxStackDepth \in Nat
  /\ IsFiniteSet(Functions) /\ IsFiniteSet(Bits) /\ IsFiniteSet(Sets)

SoftBit == "BIT(31)"     \* an exception nobody handles is then ignored
NoObject == "none"
Text == "text"           \* what foreach$ iterates over; it names no object

Block == [kind : {"try", "args", "foreach", "foreach$"},
          data : Sets \cup {Text, NoObject}]
CodePosition == [fn : Functions, open : Seq(Block)]

ConsoleFrame ==
  [fn : Functions, ip : CodePosition, ITER : Nat, TRY : Nat,
   pushStringStackCount : Nat, inNativeFunction : BOOLEAN, popMinDepth : BOOLEAN,
   curIterObject : Sets \cup {NoObject}]

TryItem == [mask : SUBSET Bits, frameDepth : Nat, ip : CodePosition]

IterStackRecord == [mIsStringIter : BOOLEAN, mIndex : Nat,
                    mData : Sets \cup {Text, NoObject}]

FiberStates == {"INACTIVE", "RUNNING", "SUSPENDED", "ERROR", "FINISHED"}

\* A call of runVM on the C++ stack: the frame whose native function it is
\* inside (0: it interprets), and whether its caller clears an error.
Run == [frame : Nat, checkExtraStack : BOOLEAN, clears : BOOLEAN]

NoTry == [mask |-> {}, frameDepth |-> 0, ip |-> [fn |-> NoObject, open |-> <<>>]]
NoIter == [mIsStringIter |-> FALSE, mIndex |-> 0, mData |-> NoObject]

\* A new fiber.
NewEvalState ==
  [vmFrames |-> <<>>, tryStack |-> [i \in 1 .. MaxTry |-> NoTry],
   iterStack |-> [i \in 1 .. MaxIter |-> NoIter], vmStack |-> <<>>,
   mFrameOffsets |-> <<>>, mStartStackSize |-> 0,
   mState |-> "INACTIVE", lastThrow |-> {}, nextThrow |-> {},
   runs |-> <<>>]

-----------------------------------------------------------------------------
(* Frames.                                                                 *)

Depth(es) == Len(es.vmFrames)
Top(es) == es.vmFrames[Depth(es)]

\* es with the top frame replaced.
WithTop(es, frame) == [es EXCEPT !.vmFrames[Depth(es)] = frame]

getMinStackDepth(es) == IF es.vmStack = <<>> THEN -1 ELSE Last(es.vmStack)
getMinStackSize(es) == getMinStackDepth(es) + 1

\* A new frame starts from the registers of the one below it (copyFrom).
NewFrame(es, fn, isNativeFrame) ==
  [fn |-> fn, ip |-> [fn |-> fn, open |-> <<>>],
   ITER |-> IF Depth(es) = 0 THEN 0 ELSE Top(es).ITER,
   TRY |-> IF Depth(es) = 0 THEN 0 ELSE Top(es).TRY,
   pushStringStackCount |-> 0, inNativeFunction |-> FALSE,
   popMinDepth |-> isNativeFrame, curIterObject |-> NoObject]

\* A call from native code pushes the depth below which it may not unwind.
beginExec(es, fn, isNativeFrame) ==
  [es EXCEPT !.mState = "RUNNING",
             !.vmStack = IF isNativeFrame THEN Append(@, Depth(es) - 1) ELSE @,
             !.vmFrames = Append(@, NewFrame(es, fn, isNativeFrame))]

-----------------------------------------------------------------------------
(* The string stack: one entry per pushed value, with frames on it.        *)

\* What the assertions of push and pushFrame ask for: a push with the stack
\* full writes past its end.
HasRoom(es) == es.mStartStackSize < MaxStackDepth - 1

StackPush(es) == [es EXCEPT !.mStartStackSize = @ + 1]

rewinds(es, n) == [es EXCEPT !.mStartStackSize = @ - n]

strPushFrame(es) ==
  [StackPush(es) EXCEPT !.mFrameOffsets = Append(@, es.mStartStackSize)]

\* popFrame n times.
strPopFrames(es, n) ==
  IF n = 0 THEN es
  ELSE LET left == Len(es.mFrameOffsets) - n IN
       [es EXCEPT !.mStartStackSize = es.mFrameOffsets[left + 1],
                  !.mFrameOffsets = SubSeq(@, 1, left)]

-----------------------------------------------------------------------------
(* Unwinding.                                                              *)

StringFrames(frames) == FoldSeq(LAMBDA f, n : f.pushStringStackCount + n, 0, frames)

\* The frames above the first n, about to be popped.
Above(es, n) == SubSeq(es.vmFrames, n + 1, Depth(es))

\* Mutant: a frame that was entered from native code leaves its minimum depth.
unwindToKeepingMinDepth(es, n) ==
  [strPopFrames(es, StringFrames(Above(es, n))) EXCEPT !.vmFrames = SubSeq(@, 1, n)]

\* clearStringStack and popFrame until n frames are left.
unwindTo(es, n) ==
  LET native == Cardinality({i \in n + 1 .. Depth(es) : es.vmFrames[i].popMinDepth})
  IN  [strPopFrames(es, StringFrames(Above(es, n))) EXCEPT
         !.vmFrames = SubSeq(@, 1, n),
         !.vmStack = SubSeq(@, 1, Len(@) - native)]

\* The call of a native function ends: its arguments leave the string stack.
exitNative(es) ==
  IF Depth(es) = 0 \/ ~Top(es).inNativeFunction THEN es
  ELSE LET args == IF Top(es).pushStringStackCount > 0 THEN 1 ELSE 0 IN
       WithTop(strPopFrames(es, args),
               [Top(es) EXCEPT !.inNativeFunction = FALSE, !.pushStringStackCount = @ - args])

-----------------------------------------------------------------------------
(* Suspending and throwing.                                                *)

suspend(es) == IF es.mState = "RUNNING" THEN [es EXCEPT !.mState = "SUSPENDED"] ELSE es

throwMask(es, mask) == [es EXCEPT !.lastThrow = mask, !.nextThrow = mask]

clearCurrentFiberError(es) ==
  IF es.mState = "ERROR" /\ Depth(es) > 0
  THEN [es EXCEPT !.mState = "RUNNING", !.lastThrow = {}] ELSE es

\* Mutant: the search does not stop at the boundary of native code.
HandlersBeyondBoundary(es, at) ==
  {i \in 1 .. es.vmFrames[at].TRY :
     /\ es.tryStack[i].mask \cap es.lastThrow # {}
     /\ es.tryStack[i].frameDepth < Depth(es)}

\* The entries of the try stack that accept the exception, as seen from the
\* frame numbered at: the search runs downwards and stops at the first entry
\* made outside the current call from native code.  An entry deeper than
\* the frames there are is refused by handleThrow.
Handlers(es, at) ==
  {i \in 1 .. es.vmFrames[at].TRY :
     /\ \A j \in i .. es.vmFrames[at].TRY : es.tryStack[j].frameDepth > getMinStackDepth(es)
     /\ es.tryStack[i].mask \cap es.lastThrow # {}
     /\ es.tryStack[i].frameDepth < Depth(es)}

\* The frame that made entry i, on top after the frames above it are popped.
AtHandler(es, i) == unwindTo(exitNative(es), es.tryStack[i].frameDepth + 1)

\* handleThrow on entry i (index i - 1 of the array): unwind to the frame that
\* made it and continue there.
handleThrow(es, i) ==
  LET s == AtHandler(es, i)
  IN  [WithTop(s, [Top(s) EXCEPT !.TRY = IF i > 1 THEN i - 2 ELSE 0,
                                 !.ip = es.tryStack[i].ip]) EXCEPT !.lastThrow = {}]

\* Nobody handles it.  The loop of handleThrow compares an unsigned index with
\* minFrame: with no frame below, minFrame is -1 and the loop does not run.
unhandledThrow(es) ==
  LET s == exitNative([es EXCEPT !.mState = "ERROR"])
      min == getMinStackDepth(es)
  IN  IF min = -1 THEN s ELSE unwindTo(s, min + 1)

-----------------------------------------------------------------------------
CONSTANTS
  Statements,     \* kinds of statements and of calls by native code that occur
  CatchMasks,     \* the masks of try statements, all their clauses together
  ThrowMasks,     \* the masks thrown
  MaxFrames,      \* bound on frames
  MaxOpen,        \* bound on the blocks open in a frame
  Elements        \* elements of every set and words of every text

ASSUME ScriptAssumption ==
  /\ Statements \subseteq {"try", "call", "throw", "yield", "eval", "callback",
                           "foreach", "foreach$", "loop in foreach", "start suspended",
                           "delete"}
  /\ CatchMasks \subseteq SUBSET Bits
  /\ ThrowMasks \subseteq SUBSET (Bits \cup {SoftBit})
  /\ MaxFrames \in Nat /\ MaxOpen \in Nat /\ Elements \in Nat

VARIABLE es

\* No frame has been freed under a runVM that uses it: what the program does
\* afterwards is undefined.
Defined(s) == \A k \in DOMAIN s.runs : s.runs[k].frame <= Depth(s)

CurrentRun == Last(es.runs)
AtHost == Defined(es) /\ es.runs = <<>>
Interpreting == Defined(es) /\ es.runs # <<>> /\ CurrentRun.frame = 0
InNative == Defined(es) /\ es.runs # <<>> /\ CurrentRun.frame > 0

Init == es = NewEvalState

-----------------------------------------------------------------------------
(* The loop of runVM.                                                      *)

\* runVM returns to the native code that called it.
LeaveRun(s) ==
  LET t == [s EXCEPT !.runs = Front(@)]
  IN  IF Last(s.runs).clears THEN clearCurrentFiberError(t) ELSE t

\* The head of the loop.  A runVM that leaves it through another state than
\* FINISHED pops what is above its minimum, which every pop of a frame
\* entered from native code lowers: nothing stays.
Loop(s) ==
  IF s.mState = "RUNNING" THEN exitNative(s)
  ELSE LET t == IF s.mState = "FINISHED" /\ Depth(s) > 0
                THEN [s EXCEPT !.mState = "RUNNING"] ELSE s
       IN  LeaveRun(IF Last(t.runs).checkExtraStack /\ Depth(t) > getMinStackSize(t)
                    THEN unwindTo(t, 0) ELSE t)

\* The top frame has returned.  It ends the run when it was the run's first.
finishFrame(s) ==
  LET n == Depth(s) - 1
      done == n = getMinStackSize(s)
  IN  Loop([unwindTo(s, n) EXCEPT
              !.mState = IF done THEN "FINISHED" ELSE "RUNNING",
              !.runs[Len(s.runs)].checkExtraStack = FALSE])

\* execFinished: at is the frame the loop's reference points to; returns says
\* whether that frame returned (otherwise the loop is set up again).
execFinished(s, at, returns) ==
  LET handlers == IF s.lastThrow = {} THEN {} ELSE Handlers(s, at)
      ignored == [s EXCEPT !.lastThrow = {}]
  IN  CASE s.mState = "SUSPENDED" -> LeaveRun(s)
        [] s.mState # "SUSPENDED" /\ handlers # {} -> Loop(handleThrow(s, Max(handlers)))
        [] s.mState # "SUSPENDED" /\ handlers = {} /\ s.lastThrow # {}
           /\ SoftBit \notin s.lastThrow -> LeaveRun(unhandledThrow(s))
        [] OTHER -> IF returns THEN finishFrame(ignored) ELSE Loop(ignored)

\* The prologue of runVM.
runVM(s, clears) ==
  Loop([s EXCEPT !.lastThrow = s.nextThrow, !.nextThrow = {},
                 !.runs = Append(@, [frame |-> 0, checkExtraStack |-> TRUE, clears |-> clears])])

-----------------------------------------------------------------------------
(* Where the top frame is.                                                 *)

Open == Top(es).ip.open
InBlock(kind) == Open # <<>> /\ Last(Open).kind = kind
AtStatement == Interpreting /\ ~InBlock("args")
AtCall == Interpreting /\ InBlock("args")
MayOpen == Len(Open) < MaxOpen

\* A block opens in, or the innermost block closes in, a frame.
Enter(frame, kind, data) ==
  [frame EXCEPT !.ip.open = Append(@, [kind |-> kind, data |-> data])]
LeaveBlock(frame) == [frame EXCEPT !.ip.open = Front(@)]

\* The position of the innermost loop break and continue can reach, or 0.
IsLoop(block) == block.kind \in {"foreach", "foreach$"}
InnermostLoop(frame) ==
  LET open == frame.ip.open
      loops == {i \in DOMAIN open : IsLoop(open[i])}
  IN  IF loops = {} THEN 0 ELSE Max(loops)
ToLoop(frame) == [frame EXCEPT !.ip.open = SubSeq(@, 1, InnermostLoop(frame))]

-----------------------------------------------------------------------------
(* Statements.                                                             *)

\* OP_PUSH_TRY_STACK, with the union of the clauses' masks.
PushTry(mask) ==
  /\ "try" \in Statements /\ AtStatement /\ MayOpen
  /\ Top(es).TRY < MaxTry
  /\ es' = [WithTop(es, [Enter(Top(es), "try", NoObject) EXCEPT !.TRY = @ + 1]) EXCEPT
              !.tryStack[Top(es).TRY + 1] =
                 [mask |-> mask, frameDepth |-> Depth(es) - 1, ip |-> Top(es).ip]]

\* OP_POP_TRY, then the jump past the catch clauses.
PopTry ==
  /\ AtStatement /\ InBlock("try")
  /\ es' = WithTop(es, [LeaveBlock(Top(es)) EXCEPT !.TRY = IF @ > 0 THEN @ - 1 ELSE 0])

\* OP_PUSH_FRAME: a call begins with its arguments.
PushFrame ==
  /\ Interpreting /\ MayOpen /\ HasRoom(es)
  /\ LET s == strPushFrame(es) IN
     es' = WithTop(s, [Enter(Top(s), "args", NoObject) EXCEPT !.pushStringStackCount = @ + 1])

\* OP_CALLFUNC of a script function: the pushed frame moves to the new frame.
CallFunction(fn) ==
  /\ "call" \in Statements /\ AtCall /\ Depth(es) < MaxFrames
  /\ LET s == WithTop(es, [LeaveBlock(Top(es)) EXCEPT !.pushStringStackCount = @ - 1])
         t == beginExec(s, fn, FALSE)
     IN  es' = execFinished(WithTop(t, [Top(t) EXCEPT !.pushStringStackCount = 1]),
                            Depth(s), FALSE)

\* OP_CALLFUNC of a native function: the native code runs.
CallNative ==
  /\ AtCall
  /\ es' = [WithTop(es, [LeaveBlock(Top(es)) EXCEPT !.inNativeFunction = TRUE]) EXCEPT
              !.runs[Len(es.runs)].frame = Depth(es)]

\* OP_CALLFUNC of a function, or on an object, that does not exist, with the
\* wrong number of arguments, or of a function without a body.
CallFails ==
  /\ AtCall
  /\ LET s == strPopFrames(es, 1) IN
     es' = WithTop(s, [LeaveBlock(Top(s)) EXCEPT !.pushStringStackCount = @ - 1])

\* Every loop the frame is in, its callers' included, is given up.
cleanupIterator(s) ==
  LET mine == 1 .. Top(s).ITER
      strings == Cardinality({i \in mine : s.iterStack[i].mIsStringIter})
      t == rewinds(s, strings)
  IN  IF Top(s).ITER = 0 THEN s
      ELSE [WithTop(t, [Top(t) EXCEPT !.ITER = 0, !.curIterObject = NoObject]) EXCEPT
              !.iterStack = [i \in DOMAIN @ |->
                               IF i \in mine THEN [@[i] EXCEPT !.mIsStringIter = FALSE]
                               ELSE @[i]]]

\* OP_RETURN and its variants, from inside any try statement or loop.
Return ==
  /\ AtStatement
  /\ es' = execFinished(cleanupIterator(es), Depth(es), TRUE)

-----------------------------------------------------------------------------
(* Loops.                                                                  *)

FindObject(data) == IF data \in Sets THEN data ELSE NoObject

\* The words foreach$ finds: the name of an object is one word.
Words(data) == IF data = Text THEN Elements ELSE 1

\* Mutant: the kind of the loop around is cleared.
OP_ITER_END_wrongSlot(s) ==
  LET n == Top(s).ITER
      t == IF s.iterStack[n].mIsStringIter THEN rewinds(s, 1) ELSE s
  IN  [WithTop(t, [LeaveBlock(Top(t)) EXCEPT !.ITER = n - 1, !.curIterObject = NoObject])
       EXCEPT !.iterStack[IF n > 1 THEN n - 1 ELSE n].mIsStringIter = FALSE]

\* OP_ITER_END, at the innermost block.  The loop around it is looked up in
\* the slot of the loop that ends, whose mIsStringIter was just cleared.
OP_ITER_END(s) ==
  LET n == Top(s).ITER
      iter == s.iterStack[n]
      t == IF iter.mIsStringIter THEN rewinds(s, 1) ELSE s
  IN  [WithTop(t, [LeaveBlock(Top(t)) EXCEPT
                     !.ITER = n - 1,
                     !.curIterObject = IF n > 1 THEN FindObject(iter.mData) ELSE NoObject])
       EXCEPT !.iterStack[n].mIsStringIter = FALSE]

\* OP_ITER, at the innermost block: the next element, the end of the loop, or
\* the jump one instruction too far, past OP_ITER_END.
OP_ITER(s) ==
  LET n == Top(s).ITER
      iter == s.iterStack[n]
      asText == iter.mIsStringIter /\ iter.mData # NoObject
      asSet == ~iter.mIsStringIter /\ Top(s).curIterObject # NoObject
      size == IF asText THEN Words(iter.mData) ELSE Elements
  IN  CASE (asText \/ asSet) /\ iter.mIndex < size -> [s EXCEPT !.iterStack[n].mIndex = @ + 1]
        [] (asText \/ asSet) /\ iter.mIndex >= size -> OP_ITER_END(s)
        [] OTHER -> [WithTop(s, [LeaveBlock(Top(s)) EXCEPT !.curIterObject = NoObject])
                     EXCEPT !.iterStack[n].mData = NoObject]

\* A loop inside a foreach goes over what the foreach goes over, unless the run
\* allows any: its end looks the object up by the data of the loop that ends.
FindsOuterObject(data) ==
  \/ "loop in foreach" \in Statements
  \/ \A i \in DOMAIN Open : Open[i].kind = "foreach" => Open[i].data = data

\* OP_ITER_BEGIN and OP_ITER_BEGIN_STR, then the first OP_ITER.  Only the
\* latter writes mIsStringIter.
IterBegin(kind, data) ==
  /\ kind \in Statements /\ AtStatement /\ MayOpen /\ HasRoom(es) /\ Top(es).ITER < MaxIter
  /\ FindsOuterObject(data)
  /\ LET n == Top(es).ITER + 1
         text == kind = "foreach$" \/ es.iterStack[n].mIsStringIter
         object == IF text THEN NoObject ELSE FindObject(data)
         s == StackPush([WithTop(es, [Enter(Top(es), kind, data) EXCEPT
                                        !.ITER = n, !.curIterObject = object])
                         EXCEPT !.iterStack[n] = [mIsStringIter |-> text, mIndex |-> 0,
                                                  mData |-> data]])
     IN  IF text \/ object # NoObject THEN es' = OP_ITER(s)
         ELSE es' = [WithTop(es, [Top(es) EXCEPT !.curIterObject = NoObject]) EXCEPT
                       !.iterStack[n].mData = NoObject]

\* The end of the body, or continue from inside a try statement of the body.
IterNext ==
  /\ AtStatement /\ InnermostLoop(Top(es)) > 0
  /\ es' = OP_ITER(WithTop(es, ToLoop(Top(es))))

\* break.
Break ==
  /\ AtStatement /\ InnermostLoop(Top(es)) > 0
  /\ es' = OP_ITER_END(WithTop(es, ToLoop(Top(es))))

-----------------------------------------------------------------------------
(* What a native function does.                                            *)

NativeYield ==
  /\ "yield" \in Statements /\ InNative
  /\ es' = suspend(es)

NativeThrow(mask) ==
  /\ "throw" \in Statements /\ InNative
  /\ es' = throwMask(es, mask)

\* CodeBlock::exec.  eval and exec clear the error of what they ran; the
\* callbacks of objects and the listeners of signals do not.  A suspended
\* fiber refuses.
NativeExec(fn, clears) ==
  /\ (IF clears THEN "eval" ELSE "callback") \in Statements
  /\ InNative /\ Depth(es) < MaxFrames
  /\ es.mState # "SUSPENDED"
  /\ es' = runVM(beginExec(es, fn, TRUE), clears)

NativeReturn ==
  /\ InNative
  /\ LET s == [es EXCEPT !.runs[Len(es.runs)].frame = 0] IN
     es' = execFinished(s, CurrentRun.frame, FALSE)

-----------------------------------------------------------------------------
(* What the host does.                                                     *)

HostExec(fn) ==
  /\ AtHost /\ Depth(es) < MaxFrames
  /\ es.mState # "SUSPENDED"
  /\ es' = runVM(beginExec(es, fn, TRUE), FALSE)

\* The call Con::execute makes after the function it ran for the host.
HostClearsError ==
  /\ AtHost /\ es.mState = "ERROR"
  /\ es' = clearCurrentFiberError(es)

HostExecSuspended(fn) ==
  /\ "start suspended" \in Statements /\ AtHost /\ Depth(es) < MaxFrames
  /\ es.mState # "SUSPENDED"
  /\ es' = [beginExec(es, fn, TRUE) EXCEPT !.mState = "SUSPENDED"]

Resume ==
  /\ AtHost /\ es.mState = "SUSPENDED" /\ Depth(es) > 0
  /\ es' = runVM([es EXCEPT !.mState = "RUNNING"], FALSE)

\* throwFiber on a suspended fiber, which is then resumed.
HostThrow(mask) ==
  /\ "throw" \in Statements /\ AtHost /\ es.mState = "SUSPENDED"
  /\ es' = throwMask(es, mask)

\* The fiber is deleted (reset) and its place taken by a new one.
Delete ==
  /\ "delete" \in Statements /\ AtHost
  /\ es' = NewEvalState

\* A function with loops that calls natives, runs and is suspended.
LoopsNext ==
  \/ PushFrame
  \/ CallNative
  \/ CallFails
  \/ Return
  \/ \E data \in Sets \cup {Text} :
       IterBegin("foreach", data) \/ IterBegin("foreach$", data)
  \/ IterNext
  \/ Break
  \/ NativeYield
  \/ NativeReturn
  \/ \E fn \in Functions : HostExec(fn)
  \/ Resume
  \/ Delete

\* And everything else: calls of script functions, exceptions, nested runs.
Next ==
  \/ LoopsNext
  \/ \E mask \in CatchMasks : PushTry(mask)
  \/ PopTry
  \/ \E fn \in Functions : CallFunction(fn)
  \/ \E mask \in ThrowMasks : NativeThrow(mask)
  \/ \E fn \in Functions, clears \in BOOLEAN : NativeExec(fn, clears)
  \/ HostClearsError
  \/ \E fn \in Functions : HostExecSuspended(fn)
  \/ \E mask \in ThrowMasks : HostThrow(mask)

LoopsSpec == Init /\ [][LoopsNext]_es
Spec == Init /\ [][Next]_es
-----------------------------------------------------------------------------
(* Properties.                                                             *)

\* The shape of the state, for all of ExprEvalState's fields modelled here.
EvalTypeOK ==
  es \in [vmFrames : Seq(ConsoleFrame), tryStack : [1 .. MaxTry -> TryItem \cup {NoTry}],
          iterStack : [1 .. MaxIter -> IterStackRecord], vmStack : Seq(Int),
          mFrameOffsets : Seq(Nat), mStartStackSize : Nat, mState : FiberStates,
          lastThrow : SUBSET (Bits \cup {SoftBit}), nextThrow : SUBSET (Bits \cup {SoftBit}),
          runs : Seq(Run)]

NativeFrames == {i \in DOMAIN es.vmFrames : es.vmFrames[i].popMinDepth}

\* However calls, exceptions, yields and deletion interleave, vmStack holds one
\* depth per frame entered from native code, in order: the boundary below which
\* runVM may not unwind is always the one of the innermost native call.
BoundariesExact ==
  /\ Len(es.vmStack) = Cardinality(NativeFrames)
  /\ Range(es.vmStack) = {i - 2 : i \in NativeFrames}
  /\ \A i, j \in DOMAIN es.vmStack : i < j => es.vmStack[i] < es.vmStack[j]

\* Every frame on the string stack belongs to exactly one script frame, through
\* its pushStringStackCount: none is popped twice, none is left behind by a
\* frame that went, whether it returned, threw or was handed its arguments.
StringFramesOwned == StringFrames(es.vmFrames) = Len(es.mFrameOffsets)

\* Native code that called script finds its own frame on top when the nested
\* runVM is back, unless the fiber is suspended, and the frames of all native
\* calls under way still are in their native call.
NativeCallsKeepTheirFrame ==
  /\ InNative /\ es.mState # "SUSPENDED" => Depth(es) = CurrentRun.frame
  /\ \A k \in DOMAIN es.runs :
       es.runs[k].frame > 0 => es.vmFrames[es.runs[k].frame].inNativeFunction

\* What runs inside a nested runVM changes no frame of the scripts outside it:
\* an exception stops at the boundary of native code (execFinished).
CallersUntouched ==
  [][\A k \in DOMAIN es.runs :
       k < Len(es.runs) /\ k <= Len(es'.runs) =>
         SubSeq(es'.vmFrames, 1, es.runs[k].frame) = SubSeq(es.vmFrames, 1, es.runs[k].frame)]_es

\* A fiber that has finished holds no frame, boundary or string of its past.
FinishedLeavesNothing ==
  es.mState = "FINISHED" =>
    es.vmFrames = <<>> /\ es.vmStack = <<>> /\ es.mFrameOffsets = <<>> /\ es.mStartStackSize = 0

IsTry(block) == block.kind = "try"
OpenTries(n) ==
  FoldSeq(LAMBDA f, k : Len(SelectSeq(f.ip.open, IsTry)) + k, 0, SubSeq(es.vmFrames, 1, n))

\* A frame is never offered the handler of a try statement that has been left:
\* it sees at most as many entries of the try stack as try statements are open
\* in it and in its callers, after any mix of throws, returns and catches.
NoClosedTry == \A n \in DOMAIN es.vmFrames : es.vmFrames[n].TRY <= OpenTries(n)

\* What holds of the stacks of a fiber between any two instructions.
FramesConsistent ==
  /\ EvalTypeOK /\ BoundariesExact /\ StringFramesOwned /\ NoClosedTry
  /\ NativeCallsKeepTheirFrame /\ FinishedLeavesNothing

\* A frame only ever runs code of the function it was pushed for: no exception
\* sends it to a handler of another function.
FramesRunOwnCode == \A n \in DOMAIN es.vmFrames : es.vmFrames[n].ip.fn = es.vmFrames[n].fn

\* No frame is freed while a runVM further out is inside a native call of it.
NoFreedCallers == \A k \in DOMAIN es.runs : es.runs[k].frame <= Depth(es)

OpenLoops(frame) == SelectSeq(frame.ip.open, IsLoop)

\* The innermost loop of the running frame goes on over the text or the set it
\* was started on, whatever happened in its body, other loops included (those in
\* a foreach over the same set; of "loop in foreach" see OuterLoopRestored).
LoopsKeepTheirContainer ==
  Interpreting /\ OpenLoops(Top(es)) # <<>> =>
    LET loop == Last(OpenLoops(Top(es)))
        iter == es.iterStack[Top(es).ITER]
    IN  IF loop.kind = "foreach$" THEN iter.mIsStringIter /\ iter.mData = loop.data
        ELSE ~iter.mIsStringIter /\ Top(es).curIterObject = loop.data

\* The end of a loop (OP_ITER_END) gives the loop around it its object again:
\* "Restore prev iter if valid" (compiledEval.cc:2280).
OuterLoopRestored ==
  [][Interpreting /\ Interpreting' /\ Depth(es') = Depth(es)
     /\ Top(es').ITER < Top(es).ITER /\ LoopsKeepTheirContainer
       => LoopsKeepTheirContainer']_es

\* In code that calls no function from its loops, the iterators held are
\* exactly the loops open.
IteratorsExact ==
  Interpreting => Top(es).ITER = Len(OpenLoops(Top(es)))

\* The loops that are open and the iterators that are held.
LoopsConsistent == LoopsKeepTheirContainer /\ IteratorsExact
=============================================================================
