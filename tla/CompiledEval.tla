---------------------------- MODULE CompiledEval ----------------------------
(***************************************************************************)
(* The instruction loop of ExprEvalState::runVM over the code that module  *)
(* Compiler emits, run symbolically: the number stacks and the string      *)
(* stack hold terms, which say how a value was computed, and a test of a   *)
(* term is decided once, either way, and remembered in "truth".            *)
(*                                                                         *)
(* A term keeps its identity when it moves between the stacks, except      *)
(* where the code reads the text under a value that is not text (getInt-   *)
(* Value, getStringValue and rewind look at the buffer, whatever mType     *)
(* says): then the value is Lost.                                          *)
(*                                                                         *)
(* Functions that scripts call are external: each records its arguments,   *)
(* returns a fresh term and leaves it in the global variable "$g" too, so  *)
(* that the order of evaluation shows.  RawNatives return a number,        *)
(* Throwers throw the mask bit their name maps to.                         *)
(***************************************************************************)
EXTENDS Compiler, FiniteSets

CONSTANTS RawNatives,    \* natives that return a number and not text
          Throwers,      \* function names to the bit of the mask they throw
          MaxTests       \* bound: tests decided in one run

VARIABLES program,       \* the statements that are run
          code, lines,   \* CodeBlock::code; the addresses of lineBreakPairs
          m,             \* the ConsoleFrame and the stacks it indexes
          store,         \* Dictionary entries and object fields
          truth,         \* what was decided about terms that were tested
          calls,         \* the external calls made, with their arguments
          done

cvars == <<program, allowTypes, code, lines, m, store, truth, calls, done>>

\* Terms are tuples with a tag in front.
Lost == <<"lost">>
Empty == <<"empty">>
Caller == <<"caller">>     \* an entry that belongs to the calling frame
Nowhere == <<"nowhere">>   \* nullptr as a variable or an object
Unowned == [new |-> Nowhere, fail |-> 0]
Text(t) == [t |-> t, raw |-> FALSE, sep |-> ""]
Raw(t) == [t |-> t, raw |-> TRUE, sep |-> ""]
VarPlace(t) == <<"var", t>>
Global == VarPlace(<<"id", "$g">>)

\* Dictionary::getEntryValue, getObjectField; a place nobody wrote is text.
StoredIn(st, place) == IF place \in DOMAIN st THEN st[place]
                       ELSE IF place[1] = "nowhere" THEN Text(Empty) ELSE Text(<<"initial", place>>)
Stored(place) == StoredIn(store, place)
StoreInto(st, place, v) == [p \in DOMAIN st \cup {place} |-> IF p = place THEN v ELSE st[p]]

(***************************************************************************)
(* The stacks.                                                             *)
(***************************************************************************)
Top(s) == IF s = <<>> THEN Lost ELSE s[Len(s)]
Pop(s) == IF s = <<>> THEN s ELSE SubSeq(s, 1, Len(s) - 1)
HeadOf(q) == q.s[Len(q.s)]
Below(q) == IF Len(q.s) < 2 THEN Text(Lost) ELSE q.s[Len(q.s) - 1]
SetHead(q, v) == [q EXCEPT !.s[Len(q.s)] = v]
\* getStringValue, getIntValue, getFloatValue.
Read(v) == IF v.raw THEN Lost ELSE v.t

\* StringStack::advance, advanceChar.
Advance(q, sep) == [q EXCEPT !.s = Append([@ EXCEPT ![Len(q.s)].sep = sep], Text(Empty))]
\* StringStack::rewind: a number on top is cut off, one below is kept as it is.
Rewind(q) ==
  LET below == Below(q)
      joined == <<"cat", below.t, below.sep, Read(HeadOf(q))>>
  IN  [q EXCEPT !.s = Append(SubSeq(@, 1, Len(@) - 2), IF below.raw THEN below ELSE Text(joined))]
RewindTerminate(q) == [q EXCEPT !.s = Append(SubSeq(@, 1, Len(@) - 2), [Below(q) EXCEPT !.sep = ""])]
PushFrame(q) == [q EXCEPT !.frames = Append(@, Len(q.s)), !.s = Append(@, Text(Empty))]
PopFrame(q) == IF q.frames = <<>> THEN q
               ELSE [q EXCEPT !.s = SubSeq(@, 1, q.frames[Len(q.frames)]), !.frames = Pop(@)]
\* getArgcArgv: what was pushed since the frame.
Args(q) == IF q.frames = <<>> THEN <<>> ELSE SubSeq(q.s, q.frames[Len(q.frames)] + 1, Len(q.s) - 1)
Terms(vs) == [i \in DOMAIN vs |-> vs[i].t]

\* Leave a value on the stack of a type.
Put(q, type, v) ==
  CASE type = "UInt" -> [q EXCEPT !.u = Append(@, v.t)]
    [] type = "Float" -> [q EXCEPT !.f = Append(@, v.t)]
    [] type = "String" -> SetHead(q, Text(v.t))
    [] type = "Typed" -> SetHead(q, v)
    [] OTHER -> q

\* What a store or an argument takes from the stack of a type.
Taken(q, type) ==
  CASE type = "UInt" -> Raw(Top(q.u))
    [] type = "Float" -> Raw(Top(q.f))
    [] type = "String" -> Text(Read(HeadOf(q)))
    [] type = "Typed" -> HeadOf(q)
    [] type = "Var" -> Stored(q.var)

(***************************************************************************)
(* Tests.  Constants and "|" with a constant are what they are; "!" is not *)
(* decided apart from its operand.                                         *)
(***************************************************************************)
RECURSIVE Known(_)
RECURSIVE Outcome(_, _)
Known(t) == CASE t[1] = "Int" -> TRUE
              [] t[1] = "!" -> Known(t[2])
              [] t[1] = "|" -> (t[2][1] = "Int" \/ t[3][1] = "Int")
              [] OTHER -> FALSE
Outcome(tr, t) == CASE t[1] = "Int" -> t[2] # 0
                    [] t[1] = "!" -> ~Outcome(tr, t[2])
                    [] t[1] = "|" /\ Known(t) -> TRUE
                    [] OTHER -> IF t \in DOMAIN tr THEN tr[t] ELSE FALSE
RECURSIVE Positive(_)
Positive(t) == IF t[1] = "!" THEN Positive(t[2]) ELSE t

\* truth' with the outcome of t in it; past the bound tests come out false,
\* which ends every loop.
Decide(t) ==
  IF Known(t) \/ Positive(t) \in DOMAIN truth THEN truth' = truth
  ELSE \E b \in IF Cardinality(DOMAIN truth) < MaxTests THEN BOOLEAN ELSE {FALSE} :
         truth' = [x \in DOMAIN truth \cup {Positive(t)} |->
                    IF x = Positive(t) THEN b ELSE truth[x]]

(***************************************************************************)
(* The instructions.                                                       *)
(***************************************************************************)
At == code[m.ip]
\* The number stacks have a fixed size and no push tests it: what a run past
\* their ends does is not defined, and it stops here.
MaxStackSize == 12
Overflown == Len(m.u) > MaxStackSize \/ Len(m.f) > MaxStackSize
Is(ops) == ~done /\ m.ip > 0 /\ ~Overflown /\ At.op \in ops
Go(q) == m' = [q EXCEPT !.ip = m.ip + 1]
Goto(q, to) == m' = [q EXCEPT !.ip = to]
Keep == UNCHANGED <<program, allowTypes, code, lines>>
Steady == Keep /\ UNCHANGED <<store, truth, calls, done>>

\* CodeBlock::compileExec, then execBlock at the first instruction.
CompileExec ==
  /\ m.ip = 0
  /\ LET p == compileProgram(program) IN code' = p.c /\ lines' = p.b
  /\ m' = [m EXCEPT !.ip = 1]
  /\ UNCHANGED <<program, allowTypes, store, truth, calls, done>>

LoadImmediate ==
  /\ Steady
  /\ \/ Is({"LOADIMMED", "TAG_TO_STR"}) /\ Go(Put(m, At.a[1], Text(At.a[2])))
     \/ Is({"LOADIMMED_IDENT"}) /\ Go(SetHead(m, Text(<<"id", At.a>>)))
     \/ Is({"DUP_UINT"}) /\ Go([m EXCEPT !.u = Append(@, Top(m.u))])

\* The second operand was pushed first; a comparison of floats leaves an
\* integer.
Arithmetic ==
  /\ Steady
  /\ \/ /\ Is({"UInt"}) /\ At.a \in {"!", "~"}
        /\ Go([m EXCEPT !.u = Append(Pop(@), <<At.a, Top(m.u)>>)])
     \/ /\ Is({"UInt"}) /\ At.a \notin {"!", "~"}
        /\ Go([m EXCEPT !.u = Append(Pop(Pop(@)), <<At.a, Top(m.u), Top(Pop(m.u))>>)])
     \/ /\ Is({"Float"}) /\ At.a = "neg"
        /\ Go([m EXCEPT !.f = Append(Pop(@), <<"neg", Top(m.f)>>)])
     \/ /\ Is({"Float"}) /\ At.a \in CompareOps
        /\ Go([m EXCEPT !.f = Pop(Pop(@)), !.u = Append(@, <<At.a, Top(m.f), Top(Pop(m.f))>>)])
     \/ /\ Is({"Float"}) /\ At.a \in FloatOps
        /\ Go([m EXCEPT !.f = Append(Pop(Pop(@)), <<At.a, Top(m.f), Top(Pop(m.f))>>)])
     \/ /\ Is({"NOTF"})
        /\ Go([m EXCEPT !.f = Pop(@), !.u = Append(@, <<"!", Top(m.f)>>)])
     \/ /\ Is({"TYPED_OP"})
        /\ Go(SetHead(Rewind(m), Raw(<<At.a, HeadOf(m).t, Below(m).t>>)))
     \/ /\ Is({"TYPED_UNARY_OP"}) /\ Go(SetHead(m, Raw(<<At.a, HeadOf(m).t>>)))

\* OP_x_TO_y: the number stacks are popped, the string stack is only read.
Convert ==
  /\ Is({"CONV"}) /\ Steady
  /\ LET src == At.a[1]
         dst == At.a[2]
         v == CASE src = "UInt" -> Raw(Top(m.u)) [] src = "Float" -> Raw(Top(m.f))
                [] src = "String" -> Text(Read(HeadOf(m))) [] src = "Typed" -> HeadOf(m)
         q == CASE src = "UInt" -> [m EXCEPT !.u = Pop(@)]
                [] src = "Float" -> [m EXCEPT !.f = Pop(@)] [] OTHER -> m
     IN  Go(IF src = "String" /\ dst = "Typed" THEN q ELSE Put(q, dst, v))

Strings ==
  /\ Steady
  /\ \/ Is({"ADVANCE_STR"}) /\ Go(Advance(m, At.a))
     \/ Is({"REWIND_STR"}) /\ Go(Rewind(m))
     \/ Is({"TERMINATE_REWIND_STR"}) /\ Go(RewindTerminate(m))
     \/ /\ Is({"COMPARE_STR"})
        /\ LET top == HeadOf(m)
               below == Below(m)
               same == IF top.raw \/ below.raw THEN Lost ELSE <<"streq", below.t, top.t>>
           IN  Go([m EXCEPT !.u = Append(@, same),
                            !.s = Append(SubSeq(@, 1, Len(@) - 2), [Text(Empty) EXCEPT !.raw = below.raw])])
     \/ Is({"PUSH_FRAME"}) /\ Go(PushFrame(m))
     \/ /\ Is({"PUSH"})
        /\ LET q == CASE At.a = "UInt" -> [m EXCEPT !.u = Pop(@)]
                      [] At.a = "Float" -> [m EXCEPT !.f = Pop(@)] [] OTHER -> m
           IN  Go(Advance(IF At.a = "String" THEN q ELSE SetHead(q, Taken(m, At.a)), "NUL"))

\* OP_SETCURVAR and its variants, OP_LOADVAR_x, OP_SAVEVAR_x.
Variables ==
  /\ Keep /\ UNCHANGED <<truth, calls, done>>
  /\ \/ /\ Is({"SETCURVAR", "SETCURVAR_CREATE"})
        /\ Go([m EXCEPT !.var = VarPlace(<<"id", At.a>>), !.obj = Nowhere]) /\ UNCHANGED store
     \/ /\ Is({"SETCURVAR_ARRAY", "SETCURVAR_ARRAY_CREATE"})
        /\ Go([m EXCEPT !.var = VarPlace(Read(HeadOf(m))), !.obj = Nowhere]) /\ UNCHANGED store
     \/ /\ Is({"LOADVAR"}) /\ At.a = "Var"
        /\ Go([m EXCEPT !.copy = m.var]) /\ UNCHANGED store
     \/ /\ Is({"LOADVAR"}) /\ At.a # "Var"
        /\ Go(Put(m, At.a, Stored(m.var))) /\ UNCHANGED store
     \/ /\ Is({"SAVEVAR"})
        /\ store' = StoreInto(store, m.var, IF At.a = "Var" THEN Stored(m.copy) ELSE Taken(m, At.a))
        /\ Go(m)
     \/ /\ Is({"SAVEVAR_MULTIPLE"})
        /\ store' = StoreInto(store, m.var, Raw(<<"tuple", Terms(Args(m))>>))
        /\ Go(PopFrame(m))
     \/ Is({"COPYVAR_TO_NONE"}) /\ Go([m EXCEPT !.copy = Nowhere]) /\ UNCHANGED store
     \/ Is({"SETVAR_FROM_COPY"}) /\ Go([m EXCEPT !.var = m.copy]) /\ UNCHANGED store

FieldPlace(q) == IF q.obj = Nowhere THEN Nowhere ELSE <<"field", q.obj, q.field>>

\* OP_SETCUROBJECT finds an object or not; without one a load gives nothing
\* and a store is dropped.
Fields ==
  /\ Keep /\ UNCHANGED <<calls, done>>
  /\ \/ /\ Is({"SETCUROBJECT"})
        /\ Decide(<<"found", HeadOf(m).t>>) /\ UNCHANGED store
        /\ Go([m EXCEPT !.obj = IF Outcome(truth', <<"found", HeadOf(m).t>>)
                                THEN <<"object", HeadOf(m).t>> ELSE Nowhere])
     \/ /\ Is({"SETCUROBJECT_NEW"}) /\ Go([m EXCEPT !.obj = m.new]) /\ UNCHANGED <<store, truth>>
     \/ /\ Is({"SETCUROBJECT_INTERNAL"}) /\ UNCHANGED <<store, truth>>
        /\ Go([m EXCEPT !.u = Append(@, IF m.obj = Nowhere THEN Empty
                                        ELSE <<"internal", m.obj, Read(HeadOf(m))>>)])
     \/ /\ Is({"SETCURFIELD"}) /\ Go([m EXCEPT !.field = <<At.a, Empty>>]) /\ UNCHANGED <<store, truth>>
     \/ /\ Is({"SETCURFIELD_NONE"}) /\ Go([m EXCEPT !.field = <<"", Empty>>]) /\ UNCHANGED <<store, truth>>
     \/ /\ Is({"SETCURFIELD_ARRAY"}) /\ UNCHANGED <<store, truth>>
        /\ Go([m EXCEPT !.field = <<@[1], Read(HeadOf(m))>>])
     \/ /\ Is({"LOADFIELD"}) /\ UNCHANGED <<store, truth>>
        /\ Go(Put(m, At.a, Stored(FieldPlace(m))))
     \/ /\ Is({"SAVEFIELD"}) /\ UNCHANGED truth
        /\ Go(IF At.a \in {"UInt", "Float"} THEN SetHead(m, Taken(m, At.a)) ELSE m)
        /\ store' = IF m.obj = Nowhere THEN store ELSE StoreInto(store, FieldPlace(m), Taken(m, At.a))
     \/ /\ Is({"SAVEFIELD_MULTIPLE"}) /\ UNCHANGED truth
        /\ Go(SetHead(PopFrame(m), Text(Empty)))
        /\ store' = IF m.obj = Nowhere THEN store
                    ELSE StoreInto(store, FieldPlace(m), Raw(<<"tuple", Terms(Args(m))>>))

\* Jumps pop what they test, except that "||" and "&&" keep what decides.
Jumps ==
  /\ Keep /\ UNCHANGED <<store, calls, done>>
  /\ \/ /\ Is({"JMP", "FUNC_DECL"}) /\ Goto(m, At.to) /\ UNCHANGED truth
     \/ /\ Is({"JMPIF", "JMPIFNOT"}) /\ Decide(Top(m.u))
        /\ Goto([m EXCEPT !.u = Pop(@)],
                IF Outcome(truth', Top(m.u)) = (At.op = "JMPIF") THEN At.to ELSE m.ip + 1)
     \/ /\ Is({"JMPIFF", "JMPIFFNOT"}) /\ Decide(Top(m.f))
        /\ Goto([m EXCEPT !.f = Pop(@)],
                IF Outcome(truth', Top(m.f)) = (At.op = "JMPIFF") THEN At.to ELSE m.ip + 1)
     \/ /\ Is({"JMPIF_NP", "JMPIFNOT_NP"}) /\ Decide(Top(m.u))
        /\ IF Outcome(truth', Top(m.u)) = (At.op = "JMPIF_NP")
           THEN Goto(m, At.to) ELSE Go([m EXCEPT !.u = Pop(@)])

(***************************************************************************)
(* Calls.  The result of a native goes where the conversion behind the     *)
(* call wants it, and that conversion is skipped.                          *)
(***************************************************************************)
Result == <<"result", Len(calls) + 1>>

CallFunc ==
  /\ Is({"CALLFUNC"}) /\ At.a \notin DOMAIN Throwers
  /\ calls' = Append(calls, <<At.a, Terms(Args(m))>>)
  /\ LET v == IF At.a \in RawNatives THEN Raw(Result) ELSE Text(Result)
         next == code[m.ip + 1]
         peeked == next.op = "CONV" /\ next.a[1] = "String" /\ next.a[2] \in {"UInt", "Float", "None"}
     IN  /\ store' = StoreInto(store, Global, v)
         /\ IF peeked /\ next.a[2] # "None" THEN Goto(Put(PopFrame(m), next.a[2], v), m.ip + 2)
            ELSE Goto(SetHead(PopFrame(m), v), IF peeked THEN m.ip + 2 ELSE m.ip + 1)
  /\ Keep /\ UNCHANGED <<truth, done>>

\* The bits of a mask that was computed with "|".
RECURSIVE MaskBits(_)
MaskBits(t) == CASE t[1] = "Int" -> {t[2]} [] t[1] = "|" -> MaskBits(t[2]) \cup MaskBits(t[3]) [] OTHER -> {}

\* A native throws: the innermost try whose mask has the bit is resumed at
\* its catch code, handleThrow leaving the number stacks as they are.  (A throw
\* that nobody catches is module ScriptExec's.)
ThrowFromNative ==
  /\ Is({"CALLFUNC"}) /\ At.a \in DOMAIN Throwers
  /\ calls' = Append(calls, <<At.a, Terms(Args(m))>>)
  /\ LET hit == {i \in DOMAIN m.tries : Throwers[At.a] \in m.tries[i].mask}
         i == CHOOSE i \in hit : \A j \in hit : j <= i
     IN  /\ hit # {}
         /\ Goto([SetHead(PopFrame(m), Text(Empty)) EXCEPT
                    !.tries = SubSeq(@, 1, IF i > 1 THEN i - 2 ELSE 0)], m.tries[i].ip)
  /\ Keep /\ UNCHANGED <<store, truth, done>>

Tries ==
  /\ Steady
  /\ \/ /\ Is({"PUSH_TRY_STACK"})
        /\ Go([m EXCEPT !.u = Pop(@), !.tries = Append(@, [mask |-> MaskBits(Top(m.u)), ip |-> At.to])])
     \/ Is({"POP_TRY"}) /\ Go([m EXCEPT !.tries = Pop(@)])

(***************************************************************************)
(* Object declarations.  Creating and adding an object may fail; both go   *)
(* to frame.failJump, which is saved after it was overwritten.             *)
(***************************************************************************)
CreateObject ==
  /\ Is({"CREATE_OBJECT"}) /\ Decide(<<"created", Terms(Args(m))>>)
  /\ LET ok == Outcome(truth', <<"created", Terms(Args(m))>>)
         q == [PopFrame(m) EXCEPT !.objs = Append(@, [new |-> m.new, fail |-> At.to]), !.fail = At.to]
     IN  /\ calls' = IF ok THEN Append(calls, <<"new", Terms(Args(m))>>) ELSE calls
         /\ IF ok THEN Go([q EXCEPT !.new = <<"object", Result>>])
            ELSE Goto([q EXCEPT !.new = Nowhere], At.to)
  /\ Keep /\ UNCHANGED <<store, done>>

AddObject ==
  /\ Is({"ADD_OBJECT"}) /\ m.new # Nowhere /\ Decide(<<"added", m.new>>)
  /\ LET ok == Outcome(truth', <<"added", m.new>>)
         group == Top(m.u)
     IN  /\ calls' = IF ok THEN Append(calls, <<"add", <<m.new, group>>>>) ELSE calls
         /\ IF ~ok THEN Goto([m EXCEPT !.new = Nowhere], m.fail)
            ELSE Go([m EXCEPT !.u = Append(IF At.a THEN Pop(@) ELSE @, m.new[2])])
  /\ Keep /\ UNCHANGED <<store, done>>

EndObject ==
  /\ Steady
  /\ \/ Is({"ADD_OBJECT"}) /\ m.new = Nowhere /\ Go(m)
     \/ Is({"END_OBJECT"}) /\ Go(IF At.a THEN m ELSE [m EXCEPT !.u = Pop(@)])
     \/ /\ Is({"FINISH_OBJECT"})
        /\ LET saved == IF m.objs = <<>> THEN Unowned ELSE m.objs[Len(m.objs)]
           IN  Go([m EXCEPT !.objs = Pop(@), !.new = saved.new, !.fail = saved.fail])

(***************************************************************************)
(* foreach and foreach$.  OP_ITER_BEGIN pushes the string stack for both,  *)
(* OP_ITER_END rewinds it for foreach$ only.                               *)
(***************************************************************************)
IterBegin ==
  /\ Is({"ITER_BEGIN", "ITER_BEGIN_STR"})
  /\ LET str == At.op = "ITER_BEGIN_STR"
         found == <<"found", HeadOf(m).t>>
     IN  /\ IF str THEN truth' = truth ELSE Decide(found)
         /\ IF str \/ Outcome(truth', found)
            THEN Go([Advance(m, "NUL") EXCEPT
                       !.iters = Append(@, [str |-> str, var |-> VarPlace(<<"id", At.a>>),
                                            over |-> HeadOf(m).t, n |-> 0])])
            ELSE Goto(m, At.to)
  /\ Keep /\ UNCHANGED <<store, calls, done>>

Iter ==
  /\ Is({"ITER"})
  /\ LET it == m.iters[Len(m.iters)]
         element == <<"element", it.over, <<"Int", it.n + 1>>>>
     IN  /\ Decide(<<"more", element>>)
         /\ IF Outcome(truth', <<"more", element>>)
            THEN /\ store' = StoreInto(store, it.var, IF it.str THEN Text(element) ELSE Raw(element))
                 /\ Go([m EXCEPT !.iters[Len(m.iters)].n = @ + 1])
            ELSE Goto(m, At.to) /\ UNCHANGED store
  /\ Keep /\ UNCHANGED <<calls, done>>

IterEnd ==
  /\ Is({"ITER_END"}) /\ Steady
  /\ LET q == IF m.iters[Len(m.iters)].str THEN Rewind(m) ELSE m
     IN  Go([q EXCEPT !.iters = Pop(@)])

\* OP_RETURN, OP_RETURN_VOID, OP_RETURN_FLT, OP_RETURN_UINT; cleanupIterator
\* ends the loops that are open.
Return ==
  /\ Is({"RETURN", "RETURN_VOID"})
  /\ LET v == CASE At.op = "RETURN_VOID" -> Text(Empty)
                [] At.op = "RETURN" /\ At.a = "UInt" -> Raw(Top(m.u))
                [] At.op = "RETURN" /\ At.a = "Float" -> Raw(Top(m.f))
                [] OTHER -> HeadOf(m)
         q == CASE At.a = "UInt" -> [m EXCEPT !.u = Pop(@)]
                [] At.a = "Float" -> [m EXCEPT !.f = Pop(@)] [] OTHER -> m
     IN  m' = [q EXCEPT !.ret = v, !.iters = <<>>]
  /\ done' = TRUE
  /\ Keep /\ UNCHANGED <<store, truth, calls>>

\* An instruction that is none ends the run where it is.
Invalid ==
  /\ Is({"INVALID"})
  /\ done' = TRUE
  /\ Keep /\ UNCHANGED <<m, store, truth, calls>>

Halted == (done \/ Overflown) /\ UNCHANGED cvars

CompiledInit(programs) ==
  /\ \E i \in DOMAIN programs : program = programs[i]
  /\ allowTypes \in BOOLEAN
  /\ code = <<>> /\ lines = {}
  /\ m = [ip |-> 0, u |-> <<Caller>>, f |-> <<Caller>>, s |-> <<Text(Caller), Text(Empty)>>, frames |-> <<>>,
          var |-> Nowhere, copy |-> Nowhere, obj |-> Nowhere, field |-> <<"", Empty>>,
          new |-> Nowhere, fail |-> 0, objs |-> <<Unowned>>, tries |-> <<>>, iters |-> <<>>,
          ret |-> Text(Empty)]
  /\ store = << >> /\ truth = << >> /\ calls = <<>> /\ done = FALSE

CompiledNext ==
  \/ CompileExec \/ LoadImmediate \/ Arithmetic \/ Convert \/ Strings \/ Variables \/ Fields \/ Jumps
  \/ CallFunc \/ ThrowFromNative \/ Tries \/ CreateObject \/ AddObject \/ EndObject
  \/ IterBegin \/ Iter \/ IterEnd \/ Return \/ Invalid \/ Halted
-----------------------------------------------------------------------------
(***************************************************************************)
(* What a script means, independent of how it is compiled: an evaluator    *)
(* over the syntax tree that shares nothing with the compiler but the      *)
(* nodes, and the properties that compare it with the instruction loop.    *)
(*                                                                         *)
(* The second operand of a strict operator is evaluated before the first,  *)
(* an assigned value before the place it is assigned to, a field's index   *)
(* before its object; everything else goes from left to right.             *)
(***************************************************************************)
RECURSIVE Value(_, _)
RECURSIVE Values(_, _)
RECURSIVE Run(_, _)
RECURSIVE RunBlock(_, _)
RECURSIVE RunLoop(_, _)
RECURSIVE RunIter(_, _, _, _)
RECURSIVE Declare(_, _, _)
RECURSIVE DeclareAll(_, _, _)

\* The state of an evaluation: "go" is how the last statement ended.
Fresh == [store |-> << >>, calls |-> <<>>, go |-> "on", ret |-> Empty, bit |-> 0]
Val(v, st) == [v |-> v, st |-> st]
Write(st, place, v) == IF place = Nowhere THEN st ELSE [st EXCEPT !.store = StoreInto(@, place, Text(v))]
True(t) == Outcome(truth, t)

Values(es, st) ==
  IF es = <<>> THEN Val(<<>>, st)
  ELSE LET h == Value(es[1], st)
           t == Values(Tail(es), h.st)
       IN  Val(<<h.v>> \o t.v, t.st)

\* The place a variable or a field expression names.
Place(e, st) ==
  LET x == IF Exists(e.index) THEN Value(e.index, st) ELSE Val(Empty, st)
  IN  IF e.k \in {"Var", "Assign", "AssignOp"}
      THEN Val(VarPlace(IF Exists(e.index) THEN <<"cat", <<"id", e.name>>, "", x.v>>
                        ELSE <<"id", e.name>>), x.st)
      ELSE LET o == Value(e.obj, x.st)
           IN  Val(IF True(<<"found", o.v>>) THEN <<"field", <<"object", o.v>>, <<e.name, x.v>>>>
                   ELSE Nowhere, o.st)

Loaded(p) == Val(StoredIn(p.st.store, p.v).t, p.st)

\* The fields of an object declaration are written to the new object.
SetSlots(slots, object, st) ==
  LET S2[i \in 0..Len(slots)] ==
        IF i = 0 THEN st
        ELSE LET r == Value(slots[i].rhs, S2[i-1])
                 x == IF Exists(slots[i].index) THEN Value(slots[i].index, r.st) ELSE Val(Empty, r.st)
             IN  Write(x.st, <<"field", object, <<slots[i].name, x.v>>>>, r.v)
  IN  S2[Len(slots)]

Declare(e, group, st) ==
  LET a == Values(<<e.class, e.name>> \o e.args, st)
      id == <<"result", Len(a.st.calls) + 1>>
      made == SetSlots(e.slots, <<"object", id>>, [a.st EXCEPT !.calls = Append(@, <<"new", a.v>>)])
      added == [made EXCEPT !.calls = Append(@, <<"add", <<<<"object", id>>, group>>>>)]
  IN  CASE ~True(<<"created", a.v>>) -> Val(<<"Int", 0>>, a.st)
        [] True(<<"created", a.v>>) /\ ~True(<<"added", <<"object", id>>>>) -> Val(<<"Int", 0>>, made)
        [] OTHER -> Val(id, DeclareAll(e.subs, id, added))

DeclareAll(es, group, st) ==
  IF es = <<>> THEN st ELSE DeclareAll(Tail(es), group, Declare(es[1], group, st).st)

Value(e, st) ==
  CASE e.k \in {"Int", "Flt", "Str", "Tag"} -> Val(<<e.k, e.val>>, st)
    [] e.k = "Ident" -> Val(<<"id", e.val>>, st)
    [] e.k \in {"Var", "Slot"} -> Loaded(Place(e, st))
    [] e.k \in {"FltBin", "IntBin"} /\ e.op \notin {"||", "&&"} ->
         LET r == Value(e.right, st)
             l == Value(e.left, r.st)
         IN  Val(<<e.op, l.v, r.v>>, l.st)
    [] e.k = "IntBin" /\ e.op \in {"||", "&&"} ->
         LET l == Value(e.left, st)
         IN  IF True(l.v) = (e.op = "||") THEN l ELSE Value(e.right, l.st)
    [] e.k = "StrEq" ->
         LET both == Values(<<e.left, e.right>>, st)
             eq == <<"streq", both.v[1], both.v[2]>>
         IN  Val(IF e.eq THEN eq ELSE <<"!", eq>>, both.st)
    [] e.k = "Cat" -> LET both == Values(<<e.left, e.right>>, st)
                      IN  Val(<<"cat", both.v[1], e.op, both.v[2]>>, both.st)
    [] e.k \in {"IntUnary", "FltUnary"} -> LET x == Value(e.expr, st) IN Val(<<e.op, x.v>>, x.st)
    [] e.k = "Cond" -> LET t == Value(e.test, st)
                       IN  IF True(t.v) THEN Value(e.then, t.st) ELSE Value(e.else, t.st)
    [] e.k = "Call" ->
         LET a == Values(e.args, st)
             r == <<"result", Len(a.st.calls) + 1>>
         IN  Val(r, Write([a.st EXCEPT !.calls = Append(@, <<e.name, a.v>>)], Global, r))
    [] e.k \in {"Assign", "SlotAssign"} ->
         LET r == IF e.rhs.k = "Tuple" THEN LET t == Values(e.rhs.items, st) IN Val(<<"tuple", t.v>>, t.st)
                  ELSE Value(e.rhs, st)
             p == Place(e, r.st)
         IN  Val(r.v, Write(p.st, p.v, r.v))
    [] e.k \in {"AssignOp", "SlotAssignOp"} ->
         LET r == Value(e.rhs, st)
             p == Place(e, r.st)
             v == <<e.op, Loaded(p).v, r.v>>
         IN  Val(v, Write(p.st, p.v, v))
    [] e.k = "IntSlot" ->
         LET both == Values(<<e.obj, e.slot>>, st)
         IN  Val(IF True(<<"found", both.v[1]>>) THEN <<"internal", <<"object", both.v[1]>>, both.v[2]>>
                 ELSE Empty, both.st)
    [] e.k = "New" -> Declare(e, <<"Int", 0>>, st)
    [] OTHER -> Val(Empty, st)

RunBlock(ss, st) ==
  IF ss = <<>> \/ st.go # "on" THEN st ELSE RunBlock(Tail(ss), Run(ss[1], st))

\* A loop from its test on; break ends it and continue ends its body.
RunLoop(s, st) ==
  LET t == Value(s.test, st)
      body == RunBlock(s.body, t.st)
      after == IF Exists(s.end) THEN Value(s.end, [body EXCEPT !.go = "on"]).st ELSE [body EXCEPT !.go = "on"]
  IN  CASE ~True(t.v) -> t.st
        [] True(t.v) /\ body.go = "break" -> [body EXCEPT !.go = "on"]
        [] True(t.v) /\ body.go = "return" -> body
        [] OTHER -> RunLoop(s, after)

RunIter(s, over, n, st) ==
  LET element == <<"element", over, <<"Int", n>>>>
      body == RunBlock(s.body, Write(st, VarPlace(<<"id", s.name>>), element))
  IN  CASE ~True(<<"more", element>>) -> st
        [] True(<<"more", element>>) /\ body.go = "break" -> [body EXCEPT !.go = "on"]
        [] True(<<"more", element>>) /\ body.go = "return" -> body
        [] OTHER -> RunIter(s, over, n + 1, [body EXCEPT !.go = "on"])

Run(s, st) ==
  CASE s.k = "Break" -> [st EXCEPT !.go = "break"]
    [] s.k = "Continue" -> [st EXCEPT !.go = "continue"]
    [] s.k = "Return" -> IF ~Exists(s.expr) THEN [st EXCEPT !.go = "return"]
                         ELSE LET x == Value(s.expr, st) IN [x.st EXCEPT !.go = "return", !.ret = x.v]
    [] s.k = "If" -> LET t == Value(s.test, st)
                     IN  RunBlock(IF True(t.v) THEN s.then ELSE s.else, t.st)
    [] s.k = "Loop" /\ ~s.do ->
         RunLoop(s, IF Exists(s.init) THEN Value(s.init, st).st ELSE st)
    [] s.k = "Loop" /\ s.do ->
         LET body == RunBlock(s.body, st)
         IN  CASE body.go = "break" -> [body EXCEPT !.go = "on"]
               [] body.go = "return" -> body
               [] OTHER -> RunLoop(s, [body EXCEPT !.go = "on"])
    [] s.k = "Iter" -> LET x == Value(s.container, st)
                       IN  IF s.str \/ True(<<"found", x.v>>) THEN RunIter(s, x.v, 1, x.st) ELSE x.st
    [] s.k = "Try" ->
         LET body == RunBlock(s.body, st)
             able == {i \in DOMAIN s.catches : s.catches[i].mask = body.bit}
         IN  IF body.go # "throw" \/ able = {} THEN body
             ELSE RunBlock(s.catches[CHOOSE i \in able : \A j \in able : i <= j].body,
                           [body EXCEPT !.go = "on"])
    [] s.k = "Function" -> st
    [] s.k = "Call" /\ s.name \in DOMAIN Throwers ->
         [Value(s, st).st EXCEPT !.store = st.store, !.go = "throw", !.bit = Throwers[s.name]]
    [] OTHER -> Value(s, st).st

(***************************************************************************)
(* Where the emitted code does not do what the script says.  Flaws(e) is   *)
(* the set of the constructions in e that are compiled wrongly (README,    *)
(* "What the emitted code gets wrong").  All programs are run; each of the *)
(* properties below holds of those without a flaw that spoils it.          *)
(***************************************************************************)
Children(e) ==
  CASE e.k \in {"FltBin", "IntBin", "StrEq", "Cat"} -> <<e.left, e.right>>
    [] e.k \in {"IntUnary", "FltUnary"} -> <<e.expr>>
    [] e.k = "Cond" -> <<e.test, e.then, e.else>>
    [] e.k = "Var" -> <<e.index>>
    [] e.k = "Slot" -> <<e.index, e.obj>>
    [] e.k \in {"Assign", "AssignOp"} -> <<e.rhs, e.index>>
    [] e.k \in {"SlotAssign", "SlotAssignOp"} -> <<e.rhs, e.index, e.obj>>
    [] e.k = "IntSlot" -> <<e.obj, e.slot>>
    [] e.k = "Call" -> e.args
    [] e.k = "Tuple" -> e.items
    [] e.k = "New" -> <<e.class, e.name>> \o e.args \o e.slots \o e.subs
    [] e.k = "Return" -> <<e.expr>>
    [] e.k = "If" -> <<e.test>> \o e.then \o e.else
    [] e.k = "Loop" -> <<e.init, e.test, e.end>> \o e.body
    [] e.k = "Iter" -> <<e.container>> \o e.body
    [] e.k \in {"Try", "Function", "Program"} -> e.body
    [] OTHER -> <<>>

\* A right side that is copied from its variable when it is stored.
Copies(e) == (e.k = "Assign" \/ (e.k = "SlotAssign" /\ allowTypes)) /\ getReturnLoadType(e.rhs) = "Var"
\* The variables an expression writes, frame.copyVar among them; a call writes "$g".
RECURSIVE Writes(_)
Writes(e) == (IF e.k \in {"Assign", "AssignOp"} THEN {e.name} ELSE IF e.k = "Call" THEN {"$g"} ELSE {})
             \cup (IF Copies(e) THEN {"copyVar"} ELSE {})
             \cup UNION {Writes(Children(e)[i]) : i \in DOMAIN Children(e)}

\* Operands whose result is asked for as a variable or a field.
Operands(e) == CASE e.k \in {"Assign", "SlotAssign"} -> <<e.rhs>>
                 [] e.k \in {"Call", "Tuple"} -> Children(e) [] OTHER -> <<>>
\* The i-th child is evaluated on the integer stack if that is what it prefers.
Integer(e, i) ==
  \/ e.k \in {"Call", "Tuple", "Return", "IntUnary"}
  \/ e.k = "IntBin" /\ e.op \notin CompareOps /\ ~canBeTyped(e)
  \/ e.k \in {"If", "Cond", "Assign"} /\ i = 1
  \/ e.k = "Loop" /\ i = 2
  \/ e.k = "SlotAssign" /\ i = 1 /\ allowTypes
  \/ e.k = "AssignOp" /\ i = 1 /\ e.op \notin FloatOps /\ ~(allowTypes /\ e.typed)
  \/ e.k = "New" /\ i \in 3 .. 2 + Len(e.args)
\* The i-th child is evaluated as a number, or its value is passed on unread.
Unread(e, i) ==
  \/ e.k \in {"FltBin", "IntBin", "IntUnary", "FltUnary", "If", "Loop", "Call", "Tuple", "Return"}
  \/ e.k \in {"Cond", "AssignOp", "SlotAssignOp"} /\ i = 1
  \/ e.k \in {"Slot", "IntSlot"} /\ Children(e)[i] = e.obj
  \/ e.k \in {"SlotAssign", "SlotAssignOp"} /\ i = 3
\* "!" of a float or a text, which leaves an integer and is converted as a float.
FloatNot(e) == /\ e.k = "IntUnary" /\ e.op = "!"
               /\ ~canBeTyped(e.expr) /\ getPreferredType(e.expr) \in {"Float", "String"}

RECURSIVE Flaws(_)
Flaws(e) ==
  LET below == Children(e)
      own(flaw, is) == IF is THEN {flaw} ELSE {}
  IN  UNION {Flaws(below[i]) : i \in DOMAIN below}
      \* The jump over the second operand is patched with the pointer that
      \* compile() returned, which an assignment or a word does not advance.
      \cup own("stale_jump", e.k = "IntBin" /\ e.op \in {"||", "&&"} /\ e.right.k \in {"Assign", "Ident"})
      \* ... where something else than an integer is asked for.
      \cup own("not_converted", \E i \in DOMAIN below : FloatNot(below[i]) /\ ~Integer(e, i))
      \* An assignment that is asked for as a variable leaves its number on
      \* its stack, one that is asked for as a field is read back from it.
      \cup own("assigned_operand", allowTypes /\ \E i \in DOMAIN Operands(e) :
               \/ Operands(e)[i].k = "AssignOp" /\ ~Operands(e)[i].typed
               \/ e.k \in {"Call", "Tuple"} /\ Operands(e)[i].k \in {"SlotAssign", "SlotAssignOp"})
      \* A copied variable is read when it is stored, after the index.
      \cup own("late_copy", Copies(e) /\ \E i \in 2 .. Len(below) :
               {e.rhs.name, "copyVar"} \cap Writes(below[i]) # {})
      \* Without types the text of a native's number is not there.
      \cup own("number_as_text", ~allowTypes /\ \E i \in DOMAIN below :
               below[i].k = "Call" /\ below[i].name \in RawNatives /\ ~Unread(e, i))
      \* A word that is asked for as a typed value is not loaded at all.
      \cup own("word_as_typed", \E i \in DOMAIN below : below[i].k = "Ident" /\
               \/ e.k \in {"FltBin", "IntBin"} /\ canBeTyped(e)
               \/ e.k = "SlotAssignOp" /\ allowTypes /\ i = 1
               \/ e.k = "AssignOp" /\ allowTypes /\ e.typed /\ i = 1)
      \* The fail jump of the outer object is overwritten by the inner one.
      \cup own("nested_new", e.k = "New" /\ \E i \in DOMAIN (e.args \o e.slots) :
               LET x == (e.args \o e.slots)[i] IN x.k = "New" \/ (x.k = "SlotAssign" /\ x.rhs.k = "New"))
      \* The first catch block is run whatever was thrown.
      \cup own("first_catch", e.k = "Try" /\ Len(e.catches) > 1)
      \* foreach over a set leaves an entry on the string stack.
      \cup own("foreach_entry", e.k = "Iter" /\ ~e.str)

ProgramFlaws == Flaws([k |-> "Program", body |-> program])
\* What the flaws of a program spoil.
Misleading == ProgramFlaws \ {"foreach_entry"}
Unbalancing == ProgramFlaws \cap {"stale_jump", "not_converted", "assigned_operand", "nested_new", "foreach_entry"}

TermsOf(st) == [p \in DOMAIN st |-> st[p].t]
Meaning == RunBlock(program, Fresh)

(***************************************************************************)
(* Properties.                                                             *)
(***************************************************************************)

\* Every statement leaves the number stacks, the string stack, its frames and
\* the stack of objects under construction as it found them: where a statement
\* begins (an address addBreakLine recorded) and where the program ends they
\* hold only what the calling frame left there and an entry for each of the
\* foreach loops around the statement.
OpenLoops == {i \in DOMAIN code : /\ code[i].op \in {"ITER_BEGIN", "ITER_BEGIN_STR"}
                                  /\ i < m.ip /\ m.ip < code[i].to}
AtRest == /\ m.u = <<Caller>> /\ m.f = <<Caller>> /\ m.frames = <<>> /\ m.objs = <<Unowned>>
          /\ ~done => Len(m.iters) = Cardinality(OpenLoops) /\ Len(m.s) = 2 + Len(m.iters)
StatementsBalanced == Unbalancing = {} /\ (done \/ m.ip \in lines) => AtRest

\* A compiled program does what its syntax tree says: the same calls with the
\* same arguments in the same order, the same final variables and fields and
\* the same result, whatever its tests turn out to be.
DoesAsTold == /\ TermsOf(store) = TermsOf(Meaning.store)
              /\ calls = Meaning.calls
              /\ Meaning.go = "return" => m.ret.t = Meaning.ret
MeansWhatItSays == done /\ Misleading = {} => DoesAsTold
=============================================================================
