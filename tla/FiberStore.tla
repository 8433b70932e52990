----------------------------- MODULE FiberStore -----------------------------
(***************************************************************************)
(* Code blocks and what holds them: frames, and fibers in a store.         *)
(*                                                                         *)
(* Code blocks (engine/console/codeBlock.cc): the two lists of blocks that *)
(* are loaded, the counted references of frames and functions, the table   *)
(* of breakable lines and the breakpoints that are written over the code,  *)
(* and the slot in which a call site keeps the function it found.          *)
(*                                                                         *)
(* A block is a number of BlockIds, free again after its destructor.       *)
(* Frames and saved fibers, which hold references too, come below.         *)
(***************************************************************************)
EXTENDS Integers, Sequences, SequencesExt, FiniteSets

CONSTANTS
    BlockIds,    \* 1 .. n: bound: code blocks at a time
    FileNames,   \* names of script files; "" is a string that is evaluated
    Scripts      \* what is compiled: see Script below

OpBreak == 0     \* OP_BREAK; the other opcodes of the model are positive

\* A script: is its text accepted, are its types known, and the breakable
\* lines in code order, each with the ip of its first instruction.
Script(parses, links, lines) ==
    [parses |-> parses, links |-> links, lines |-> lines]

ASSUME CodeBlocksAssumption ==
    /\ "" \notin FileNames
    /\ \A s \in Scripts : \A i \in 1 .. Len(s.lines) - 1 :
          s.lines[i].ip < s.lines[i + 1].ip

Entries == {"base", "over"}  \* f's entry in its namespace and in a package's

VARIABLES
    blocks,     \* [BlockIds -> CodeBlock]
    codeList,   \* mCodeBlockList, head first
    execList,   \* mExecCodeBlockList, head first
    entries,    \* mCode of each function entry, 0 for none
    overlaid    \* the package is active: a lookup finds its entry first

codeVars == <<blocks, codeList, execList, entries, overlaid>>
-----------------------------------------------------------------------------
(* The table of lines.  A pair holds (line << 8) | opcode and the ip.      *)

NoBlock == [st |-> "none", name |-> "", exec |-> FALSE, inList |-> FALSE,
            refs |-> 0, code |-> <<>>, pairs |-> <<>>, breakList |-> <<>>,
            cache |-> "none", flushed |-> FALSE, source |-> <<>>]

LineOf(p) == p.word \div 256
InstOf(p) == p.word % 256

\* The code of a script: the opcode at ip is ip itself.
CodeOf(lines) ==
    [ip \in 1 .. (IF lines = <<>> THEN 1 ELSE lines[Len(lines)].ip + 1) |-> ip]

\* The run-length list of calcBreakList: how many lines to skip, how many
\* to take.  U32(line + 1) makes a repeated line a run of its own, with a
\* skip of -1.
calcBreakList(lines) ==
    LET Next(acc, w) ==
          IF w = acc.line + 1
          THEN [acc EXCEPT !.line = w, !.seq = @ + 1]
          ELSE [line |-> w, seq |-> 1,
                out |-> (IF acc.seq # 0 THEN Append(acc.out, acc.seq) ELSE acc.out)
                        \o <<w - (IF acc.line < 0 THEN 0 ELSE acc.line) - 1>>]
        end == FoldLeft(Next, [line |-> -1, seq |-> 0, out |-> <<>>], lines)
    IN IF end.seq # 0 THEN Append(end.out, end.seq) ELSE end.out

\* The pairs that calcBreakList leaves: it shifts what it finds, whether or
\* not the pairs were packed before.
Packed(pairs, code) ==
    [i \in DOMAIN pairs |->
        [word |-> pairs[i].word * 256 + code[pairs[i].ip], ip |-> pairs[i].ip]]

\* The block that compileExec, or read() after compileToStream, builds.
Built(name, exec, script) ==
    [NoBlock EXCEPT
       !.st = "live", !.name = name, !.exec = exec,
       !.code = CodeOf(script.lines),
       !.pairs = Packed([i \in DOMAIN script.lines |->
                           [word |-> script.lines[i].line, ip |-> script.lines[i].ip]],
                        CodeOf(script.lines)),
       !.breakList = calcBreakList([i \in DOMAIN script.lines |->
                                      script.lines[i].line]),
       !.source = script.lines]

\* write() puts the pairs into the stream as they are; read() packs what it
\* finds, as it must after compileToStream, and so packs them again.
Written(b) == [name |-> b.name, code |-> b.code, pairs |-> b.pairs, source |-> b.source]
ReadBack(w) ==
    [NoBlock EXCEPT
       !.st = "live", !.name = w.name, !.exec = TRUE, !.code = w.code,
       !.pairs = Packed(w.pairs, w.code),
       !.breakList = calcBreakList([i \in DOMAIN w.pairs |-> w.pairs[i].word]),
       !.source = w.source]

\* findBreakLine: the line and instruction of the last pair at or before ip,
\* by binary search; <<0, 0>> stands for line 0 and OP_INVALID.
SearchFrom(p, ip) ==
    LET Halve(acc, i) ==
          IF acc.min = acc.max - 1 \/ acc.min = acc.max THEN acc
          ELSE LET mid == (acc.min + acc.max) \div 2
               IN IF p[mid].ip = ip THEN [min |-> mid, max |-> mid]
                  ELSE IF p[mid].ip > ip THEN [acc EXCEPT !.max = mid]
                  ELSE [acc EXCEPT !.min = mid]
    IN FoldLeft(Halve, [min |-> 1, max |-> Len(p)], p).min

findBreakLine(p, ip) ==
    LET found == IF p[Len(p)].ip = ip THEN Len(p) ELSE SearchFrom(p, ip)
    IN IF p = <<>> THEN <<0, 0>>
       ELSE IF p[1].ip > ip \/ p[Len(p)].ip < ip THEN <<0, 0>>
       ELSE <<LineOf(p[found]), InstOf(p[found])>>

\* findFirstBreakLine: the first pair, in code order, at or after the line.
findFirstBreakLine(b, line) ==
    LET I == {i \in DOMAIN b.pairs : line <= LineOf(b.pairs[i])}
    IN IF I = {} THEN 0
       ELSE LineOf(b.pairs[CHOOSE i \in I : \A j \in I : i <= j])

FirstPairs(b, line) ==
    {i \in DOMAIN b.pairs :
        /\ LineOf(b.pairs[i]) = line
        /\ \A j \in 1 .. i - 1 : LineOf(b.pairs[j]) # line}

SetBreaks(b, I) ==
    [b EXCEPT !.code = [ip \in DOMAIN @ |->
        IF \E i \in I : b.pairs[i].ip = ip THEN OpBreak ELSE @[ip]]]
ClearBreaks(b, I) ==
    [b EXCEPT !.code = [ip \in DOMAIN @ |->
        IF \E i \in I : b.pairs[i].ip = ip
        THEN InstOf(b.pairs[CHOOSE i \in I : b.pairs[i].ip = ip]) ELSE @[ip]]]

setBreakpoint(b, line) == SetBreaks(b, FirstPairs(b, line))
clearBreakpoint(b, line) == ClearBreaks(b, FirstPairs(b, line))
setAllBreaks(b) == SetBreaks(b, DOMAIN b.pairs)
clearAllBreaks(b) == ClearBreaks(b, DOMAIN b.pairs)
-----------------------------------------------------------------------------
(* The lists.  A heap h is [b |-> blocks, c |-> codeList, x |-> execList]. *)

Heap == [b |-> blocks, c |-> codeList, x |-> execList]

\* The first block of that name leaves the list; it keeps inList.
Evict(list, bs, name) ==
    LET I == {i \in DOMAIN list : bs[list[i]].name = name}
    IN IF I = {} THEN list
       ELSE RemoveAt(list, CHOOSE i \in I : \A j \in I : i <= j)

addToCodeList(h, id) ==
    LET b == [h.b EXCEPT ![id].inList = TRUE]
    IN IF h.b[id].inList THEN h
       ELSE IF h.b[id].exec THEN [h EXCEPT !.b = b, !.x = <<id>> \o @]
       ELSE [h EXCEPT !.b = b, !.c = <<id>> \o Evict(@, h.b, h.b[id].name)]

\* read() and compileExec() list a block before they look at its text.
Listed(h, id) ==
    IF h.b[id].exec \/ h.b[id].name # "" THEN addToCodeList(h, id) ELSE h

\* removeFromCodeList and the rest of ~CodeBlock.
Destroyed(h, id) ==
    [h EXCEPT !.b[id] = NoBlock,
              !.c = SelectSeq(@, LAMBDA i : i # id),
              !.x = SelectSeq(@, LAMBDA i : i # id)]

incRefCount(h, id) == [h EXCEPT !.b[id].refs = @ + 1]
decRefCount(h, id) ==
    IF h.b[id].refs = 1 THEN Destroyed(h, id) ELSE [h EXCEPT !.b[id].refs = @ - 1]

SetHeap(h) == blocks' = h.b /\ codeList' = h.c /\ execList' = h.x

FreeIds(h) == {id \in BlockIds : h.b[id].st = "none"}
NewId(h) == CHOOSE id \in FreeIds(h) : \A other \in FreeIds(h) : id <= other
-----------------------------------------------------------------------------
(* Functions and call sites. *)

\* What a lookup of f finds now.
Lookup == IF overlaid /\ entries["over"] # 0 THEN "over"
          ELSE IF entries["base"] # 0 THEN "base" ELSE "none"

\* getNSEntry and setNSEntry in OP_CALLFUNC_RESOLVE.
Resolve(b) ==
    IF b.cache # "none" THEN b
    ELSE [b EXCEPT !.cache = Lookup, !.flushed = FALSE]

flushNSEntries(b) ==
    IF b.flushed THEN b ELSE [b EXCEPT !.cache = "none", !.flushed = TRUE]

\* Flushed by unlinkPackages, which returns at once when none is active.
Unlinked(h) ==
    IF ~overlaid THEN h
    ELSE [h EXCEPT !.b = [id \in BlockIds |->
            IF id \in ToSet(h.c) THEN flushNSEntries(h.b[id]) ELSE h.b[id]]]

\* OP_FUNC_DECL in a frame of block id: createLocalEntry clears an entry of
\* that name, addFunction takes the block.
DeclareIn(id, e) ==
    LET cleared == IF entries[e] = 0 THEN Unlinked(Heap)
                   ELSE decRefCount(Unlinked(Heap), entries[e])
    IN /\ entries' = [entries EXCEPT ![e] = id]
       /\ SetHeap(incRefCount(cleared, id))

ActivatePackage == ~overlaid /\ overlaid' = TRUE
DeactivatePackage == overlaid /\ overlaid' = FALSE

\* The debugger's calls; file names find listed blocks only.
Debug(id, b) == /\ b # blocks[id]
                /\ blocks' = [blocks EXCEPT ![id] = b]
SetBreakpoint(id, line) == Debug(id, setBreakpoint(blocks[id], findFirstBreakLine(blocks[id], line)))
ClearBreakpoint(id, line) == Debug(id, clearBreakpoint(blocks[id], line))
SetAllBreaks(id) == Debug(id, setAllBreaks(blocks[id]))
ClearAllBreaks(id) == Debug(id, clearAllBreaks(blocks[id]))
-----------------------------------------------------------------------------
(***************************************************************************)
(* Fibers written to a blob and read back (ConsoleSerializer in            *)
(* engine/console/compiledEval.cc, dumpFiberStateToBlob and                *)
(* restoreFiberStateFromBlob in engine/embed/api.cpp), over the frames     *)
(* that hold code blocks and variable tables.                              *)
(*                                                                         *)
(* Nothing else runs during a dump or a restore, so each is one action.    *)
(* In the blob a code block, a table or an object is an index or a name.   *)
(***************************************************************************)
CONSTANTS
    Fibers,      \* 1 .. n: slots of mFiberStates that the host uses
    TableIds,    \* 1 .. n: bound: tables at a time
    ObjNames,    \* names of objects that a frame may refer to
    MaxFrames,   \* bound: frames of a fiber
    MaxDumps     \* bound: dumps of a behaviour

VARIABLES
    fibers,      \* [Fibers -> NoFiber or a fiber]
    tables,      \* [TableIds -> HashTableData]
    objs,        \* objects that exist, by name
    blob,        \* the last blob dumped, <<>> for none
    dumps,       \* dumps so far
    restored     \* fibers that the last step read back, in blob order

storeVars == <<fibers, tables, objs, blob, dumps, restored>>
vars == <<codeVars, storeVars>>

GlobalTable == 0    \* mGlobalVars.mHashTable
NoTable == [st |-> "none", owner |-> <<>>, x |-> 0]
NoFiber == [frames |-> <<>>, iter |-> <<>>, live |-> FALSE]
NewFiber == [NoFiber EXCEPT !.live = TRUE]

\* A frame: its block, its variables, whether it only shares them, the table
\* of its current variable (-1 for none) and the object it works on.
Frame(block, table, ref) ==
    [block |-> block, table |-> table, ref |-> ref, cur |-> -1, obj |-> "none"]

FrameRefs(id) == {p \in Fibers \X (1 .. MaxFrames) :
    p[2] \in DOMAIN fibers[p[1]].frames /\ fibers[p[1]].frames[p[2]].block = id}
FreeTables == {t \in TableIds : tables[t].st = "none"}
NewTable == CHOOSE t \in FreeTables : \A u \in FreeTables : t <= u
Top(f) == fibers[f].frames[Len(fibers[f].frames)]
Running(f) == fibers[f].live /\ fibers[f].frames # <<>>

StoreInit ==
    /\ blocks = [id \in BlockIds |-> NoBlock]
    /\ codeList = <<>> /\ execList = <<>>
    /\ entries = [e \in Entries |-> 0] /\ overlaid = FALSE
    /\ fibers = [f \in Fibers |-> NoFiber]
    /\ tables = [t \in TableIds |-> NoTable]
    /\ objs = ObjNames
    /\ blob = <<>> /\ dumps = 0 /\ restored = <<>>
-----------------------------------------------------------------------------
(* Frames. *)

CreateFiber(f) ==
    /\ ~fibers[f].live
    /\ fibers' = [fibers EXCEPT ![f] = NewFiber]
    /\ restored' = <<>>
    /\ UNCHANGED <<codeVars, tables, objs, blob, dumps>>

\* pushFrame: variables of its own; pushFrameRef: those of the frame below.
Pushed(f, h, id, share) ==
    LET depth == Len(fibers[f].frames) + 1
        t == IF share THEN Top(f).table ELSE NewTable
    IN /\ fibers' = [fibers EXCEPT ![f].frames = Append(@, Frame(id, t, share))]
       /\ tables' = IF share THEN tables
                    ELSE [tables EXCEPT ![t] =
                            [st |-> "live", owner |-> <<f, depth>>, x |-> 0]]
       /\ SetHeap(incRefCount(h, id))

CanPush(f) == /\ fibers[f].live /\ Len(fibers[f].frames) < MaxFrames
              /\ FreeTables # {}

\* evalCode (compileExec) and execCodeBlock (read, then exec): a text that is
\* not accepted is deleted after it took its place in the list; a script with
\* unknown types stays where it is, unless it was compiled before.
Eval(f, name, script, compiled, share) ==
    LET id == NewId(Heap)
        h == Listed([Heap EXCEPT !.b[id] = Built(name, name = "", script)], id)
    IN /\ CanPush(f) /\ FreeIds(Heap) # {}
       /\ share => name = "" /\ Running(f)
       /\ compiled => script.parses
       /\ IF ~script.parses
          THEN SetHeap(Destroyed(h, id)) /\ UNCHANGED <<fibers, tables>>
          ELSE IF ~script.links /\ ~compiled
          THEN SetHeap(h) /\ UNCHANGED <<fibers, tables>>
          ELSE Pushed(f, h, id, share)
       /\ restored' = <<>>
       /\ UNCHANGED <<entries, overlaid, objs, blob, dumps>>

\* A call of f() from the top frame, through the slot of its call site.
CallFunction(f) ==
    LET here == Resolve(blocks[Top(f).block])
        h == [Heap EXCEPT !.b[Top(f).block] = here]
    IN /\ Running(f) /\ CanPush(f)
       /\ IF here.cache # "none" THEN Pushed(f, h, entries[here.cache], FALSE)
          ELSE SetHeap(h) /\ UNCHANGED <<fibers, tables>>
       /\ restored' = <<>>
       /\ UNCHANGED <<entries, overlaid, objs, blob, dumps>>

Declare(f, e) ==
    /\ Running(f)
    /\ DeclareIn(Top(f).block, e)
    /\ restored' = <<>>
    /\ UNCHANGED <<overlaid, fibers, tables, objs, blob, dumps>>

\* popFrame: ~Dictionary deletes the table that this frame owns.
Popped(fs, ts, h, f) ==
    LET n == Len(fs[f].frames)
        t == fs[f].frames[n].table
    IN [fs |-> [fs EXCEPT ![f].frames = SubSeq(@, 1, n - 1)],
        ts |-> IF ts[t].owner = <<f, n>> THEN [ts EXCEPT ![t] = NoTable] ELSE ts,
        h |-> decRefCount(h, fs[f].frames[n].block)]

PopFrame(f) ==
    LET p == Popped(fibers, tables, Heap, f)
    IN /\ Running(f)
       /\ fibers' = [p.fs EXCEPT ![f].iter = IF p.fs[f].frames = <<>> THEN <<>> ELSE @]
       /\ tables' = p.ts /\ SetHeap(p.h)
       /\ restored' = <<>>
       /\ UNCHANGED <<entries, overlaid, objs, blob, dumps>>

\* cleanupFiber: ~ExprEvalState pops every frame.
Cleaned(fs, ts, h, f) ==
    LET Pop(acc, i) == Popped(acc.fs, acc.ts, acc.h, f)
        end == FoldLeft(Pop, [fs |-> fs, ts |-> ts, h |-> h], fs[f].frames)
    IN [end EXCEPT !.fs[f] = NoFiber]

CleanupFiber(f) ==
    LET p == Cleaned(fibers, tables, Heap, f)
    IN /\ fibers[f].live
       /\ fibers' = p.fs /\ tables' = p.ts /\ SetHeap(p.h)
       /\ restored' = <<>>
       /\ UNCHANGED <<entries, overlaid, objs, blob, dumps>>

\* What a script does in its top frame: a local or a global variable becomes
\* the current one, a local is assigned, an object becomes the current one, a
\* foreach$ begins over a text of this fiber's string stack.
TouchTop(f, frame, x, iter) ==
    /\ Running(f)
    /\ fibers' = [fibers EXCEPT ![f].frames[Len(fibers[f].frames)] = frame, ![f].iter = iter]
    /\ tables' = [tables EXCEPT ![Top(f).table].x = x]
    /\ restored' = <<>>
    /\ UNCHANGED <<codeVars, objs, blob, dumps>>

UseLocal(f) == TouchTop(f, [Top(f) EXCEPT !.cur = Top(f).table], 1, fibers[f].iter)
UseGlobal(f) == TouchTop(f, [Top(f) EXCEPT !.cur = GlobalTable], tables[Top(f).table].x, fibers[f].iter)
UseObject(f, o) == /\ o \in objs \cup {"unnamed"}
                   /\ TouchTop(f, [Top(f) EXCEPT !.obj = o], tables[Top(f).table].x, fibers[f].iter)
BeginIter(f) == /\ fibers[f].iter = <<>>
                /\ TouchTop(f, Top(f), tables[Top(f).table].x,
                            <<[zone |-> f, var |-> Top(f).table]>>)

\* A frame's reference to an object is cleared with the object.
DeleteObject(o) ==
    /\ o \in objs /\ objs' = objs \ {o}
    /\ fibers' = [f \in Fibers |-> [fibers[f] EXCEPT !.frames =
          [i \in DOMAIN @ |-> IF @[i].obj = o THEN [@[i] EXCEPT !.obj = "none"] ELSE @[i]]]]
    /\ restored' = <<>>
    /\ UNCHANGED <<codeVars, tables, blob, dumps>>
-----------------------------------------------------------------------------
(* Writing. *)

\* addReferencedCodeblock, addReferencedDictionary: the list with the item,
\* and the index of the item in it.
WithRef(list, x) == IF x \in ToSet(list) THEN list ELSE Append(list, x)
RefIndex(list, x) == CHOOSE i \in DOMAIN list : list[i] = x

\* writeFrame; an object without a name is written as none (mAllowId is off).
FrameWritten(w, f, i) ==
    LET fr == fibers[f].frames[i]
        bs == WithRef(w.blocks, fr.block)
        ts == WithRef(w.tables, fr.table)
        us == IF fr.cur = -1 THEN ts ELSE WithRef(ts, fr.cur)
    IN [w EXCEPT !.blocks = bs, !.tables = us,
          !.frames = Append(@,
             [block |-> RefIndex(bs, fr.block), table |-> RefIndex(ts, fr.table),
              owns |-> tables[fr.table].owner = <<f, i>>, ref |-> fr.ref,
              cur |-> IF fr.cur = -1 THEN -1 ELSE RefIndex(us, fr.cur),
              obj |-> IF fr.obj = "unnamed" THEN "none" ELSE fr.obj])]

\* saveEvalState; writeIterStackRecord leaves the loop variable out.
FiberWritten(w, f) ==
    LET Each(acc, i) == FrameWritten(acc, f, i)
        end == FoldLeft(Each, [w EXCEPT !.frames = <<>>],
                        [i \in DOMAIN fibers[f].frames |-> i])
    IN [end EXCEPT !.frames = <<>>,
          !.fibers = Append(@, [old |-> f, frames |-> end.frames,
             iter |-> [i \in DOMAIN fibers[f].iter |-> fibers[f].iter[i].zone]])]

\* saveFibers, then saveRelatedObjects; "seen" is the state that was dumped.
Dump(list) ==
    LET w == FoldLeft(FiberWritten, [fibers |-> <<>>, frames |-> <<>>,
                                     blocks |-> <<>>, tables |-> <<>>], list)
    IN /\ dumps < MaxDumps /\ list # <<>>
       /\ \A f \in ToSet(list) : fibers[f].live
       /\ blob' = [fibers |-> w.fibers,
                   dicts |-> [i \in DOMAIN w.tables |->
                      IF w.tables[i] = GlobalTable THEN 0 ELSE tables[w.tables[i]].x],
                   codes |-> [i \in DOMAIN w.blocks |-> Written(blocks[w.blocks[i]])],
                   seen |-> [fs |-> [i \in DOMAIN list |-> fibers[list[i]]],
                             ts |-> tables, bs |-> blocks, slots |-> list]]
       /\ dumps' = dumps + 1 /\ restored' = <<>>
       /\ UNCHANGED <<codeVars, fibers, tables, objs>>
-----------------------------------------------------------------------------
(* Reading. *)

\* loadRelatedObjects: r.ids lists the blocks and r.tabs the tables read.
DictRead(r, x) ==
    LET free == {t \in TableIds : r.ts[t].st = "none"}
        t == CHOOSE t \in free : \A u \in free : t <= u
    IN [r EXCEPT !.ts[t] = [st |-> "live", owner |-> <<>>, x |-> x], !.tabs = Append(@, t)]
\* Mutant of CodeRead: the serializer takes no reference.
CodeReadUncounted(r, b) ==
    LET id == NewId(r.h)
    IN [r EXCEPT !.h = Listed([r.h EXCEPT !.b[id] = ReadBack(b)], id),
                 !.ids = Append(@, id)]
CodeRead(r, b) ==
    LET id == NewId(r.h)
        h == Listed([r.h EXCEPT !.b[id] = ReadBack(b)], id)
    IN [r EXCEPT !.h = incRefCount(h, id), !.ids = Append(@, id)]

\* readVarRef: the table counts only once a frame owns it.
VarRead(r, i) ==
    IF i = -1 THEN -1
    ELSE IF r.ts[r.tabs[i]].owner = <<>> THEN -1 ELSE r.tabs[i]

\* loadFrame; objects are found by name among those that exist now.
FrameRead(r, f, fr) ==
    LET t == r.tabs[fr.table]
        n == Len(r.fs[f].frames) + 1
        owned == IF fr.owns THEN [r EXCEPT !.ts[t].owner = <<f, n>>] ELSE r
        frame == [Frame(r.ids[fr.block], t, fr.ref) EXCEPT
                    !.cur = VarRead(owned, fr.cur),
                    !.obj = IF fr.obj \in objs THEN fr.obj ELSE "none"]
    IN [owned EXCEPT !.fs[f].frames = Append(@, frame),
                     !.h = incRefCount(@, frame.block)]

\* loadEvalState on a new fiber of createFiberPtr.
FiberRead(r, fb) ==
    LET free == {g \in Fibers : ~r.fs[g].live}
        f == CHOOSE g \in free : \A u \in free : g <= u
        Each(acc, fr) == FrameRead(acc, f, fr)
        end == FoldLeft(Each, [r EXCEPT !.fs[f] = NewFiber], fb.frames)
    IN [end EXCEPT !.fs[f].iter = [i \in DOMAIN fb.iter |-> [zone |-> fb.iter[i], var |-> -1]],
                   !.new = Append(@, f)]

\* reset: references of the serializer are dropped, tables nobody owns deleted.
Reset(r, ownObjects) ==
    LET Clean(acc, f) == Cleaned(acc.fs, acc.ts, acc.h, f)
        c == FoldLeft(Clean, [fs |-> r.fs, ts |-> r.ts, h |-> r.h],
                      IF ownObjects THEN r.new ELSE <<>>)
    IN [c EXCEPT !.h = FoldLeft(decRefCount, @, r.ids),
                 !.ts = [t \in TableIds |->
                    IF t \in ToSet(r.tabs) /\ @[t].owner = <<>>
                    THEN NoTable ELSE @[t]]]

Commit(c, new) ==
    /\ fibers' = c.fs /\ tables' = c.ts /\ SetHeap(c.h) /\ restored' = new
    /\ UNCHANGED <<entries, overlaid, objs, blob, dumps>>

Readable(list, n) == SubSeq(list, 1, IF n < Len(list) THEN n ELSE Len(list))

\* A blob that ends after "have" of its tables and blocks: the list has no
\* end mark, read() fails and everything read so far goes.  The list of
\* fibers lies before the tables in the blob, so it is never cut alone.
Restore(have) ==
    LET total == Len(blob.dicts) + Len(blob.codes)
        r0 == [fs |-> fibers, ts |-> tables, h |-> Heap, ids |-> <<>>, tabs |-> <<>>, new |-> <<>>]
        r1 == FoldLeft(DictRead, r0, Readable(blob.dicts, have))
        r2 == FoldLeft(CodeRead, r1, Readable(blob.codes, have - Len(blob.dicts)))
        r3 == FoldLeft(FiberRead, r2, blob.fibers)
    IN /\ blob # <<>> /\ have \in 0 .. total + 1
       /\ Cardinality(FreeTables) >= Len(blob.dicts)
       /\ Cardinality(FreeIds(Heap)) >= Len(blob.codes)
       /\ Cardinality({f \in Fibers : ~fibers[f].live}) >= Len(blob.fibers)
       /\ IF have <= total THEN Commit(Reset(r2, TRUE), <<>>)
          ELSE Commit(Reset(r3, FALSE), r3.new)
-----------------------------------------------------------------------------
Sequence(S) == {<<f>> : f \in S} \cup {s \in S \X S : s[1] # s[2]}

Packages == /\ ActivatePackage \/ DeactivatePackage
            /\ restored' = <<>>
            /\ UNCHANGED <<blocks, codeList, execList, entries, fibers, tables, objs, blob, dumps>>

\* The debugger sets and clears breakpoints in the blocks it finds by name.
Debugger(id) ==
    /\ \/ \E line \in 1 .. 5 : SetBreakpoint(id, line) \/ ClearBreakpoint(id, line)
       \/ SetAllBreaks(id) \/ ClearAllBreaks(id)
    /\ restored' = <<>>
    /\ UNCHANGED <<codeList, execList, entries, overlaid, fibers, tables, objs, blob, dumps>>

Evals(f) == \E name \in FileNames \cup {""}, s \in Scripts, c, share \in BOOLEAN :
               Eval(f, name, s, c, share)

\* Frames come and go: scripts are evaluated, call and declare functions.
FrameStep(f) == \/ CreateFiber(f) \/ CleanupFiber(f) \/ PopFrame(f)
                \/ CallFunction(f) \/ Evals(f) \/ \E e \in Entries : Declare(f, e)

\* What a dump has to keep of a frame.
TouchStep(f) == \/ UseLocal(f) \/ UseGlobal(f) \/ BeginIter(f)
                \/ \E o \in ObjNames \cup {"unnamed"} : UseObject(f, o)

StoreStep == \/ \E list \in Sequence(Fibers) : Dump(list)
             \/ \E have \in 0 .. Cardinality(TableIds) + Cardinality(BlockIds) : Restore(have)
             \/ \E o \in ObjNames : DeleteObject(o)

StoreNext == \/ \E f \in Fibers : FrameStep(f) \/ TouchStep(f)
             \/ Packages \/ StoreStep
             \/ \E id \in ToSet(codeList) : Debugger(id)

StoreSpec == StoreInit /\ [][StoreNext]_vars
-----------------------------------------------------------------------------
(* Properties. *)

Holders(id) == Cardinality(FrameRefs(id)) + Cardinality({e \in Entries : entries[e] = id})

(* CodeBlock::refCount counts exactly the frames and the functions of a     *)
(* block, whatever was evaluated, called, declared again, dumped or read    *)
(* back in between, and whether or not a read failed; a block that is gone  *)
(* is in no list, in no frame and in no function.                          *)
RefsExact ==
    \A id \in BlockIds :
        IF blocks[id].st = "live" THEN blocks[id].refs = Holders(id)
        ELSE /\ Holders(id) = 0
             /\ id \notin ToSet(codeList) \cup ToSet(execList)

(* Every table of variables that a frame uses is alive and has exactly one  *)
(* owner, a frame of the same fiber at or below it: so popFrame frees each  *)
(* table once, and never under a frame.  No table is left without owner.   *)
TablesOwned ==
    /\ \A f \in Fibers : \A i \in DOMAIN fibers[f].frames :
          LET t == tables[fibers[f].frames[i].table]
          IN t.st = "live" /\ t.owner # <<>> /\ t.owner[1] = f /\ t.owner[2] <= i
    /\ \A t \in TableIds : tables[t].st = "live" =>
          /\ tables[t].owner # <<>>
          /\ LET o == tables[t].owner
             IN /\ o[2] \in DOMAIN fibers[o[1]].frames
                /\ fibers[o[1]].frames[o[2]].table = t

\* What two states of a list of fibers have in common if they are the same up
\* to the identity of tables and blocks.
Paths(fs) == {<<i, j>> \in (1 .. Len(fs)) \X (1 .. MaxFrames) : j \in DOMAIN fs[i].frames}
Alike(fs, ts, bs, gs, us, cs) ==
    /\ Paths(fs) = Paths(gs)
    /\ \A p \in Paths(fs) :
         LET a == fs[p[1]].frames[p[2]]  b == gs[p[1]].frames[p[2]]
         IN /\ a.ref = b.ref /\ ts[a.table].x = us[b.table].x
            /\ ts[a.table].owner[2] = us[b.table].owner[2]
            /\ a.cur > 0 => b.cur = b.table
            /\ bs[a.block].name = cs[b.block].name /\ bs[a.block].code = cs[b.block].code
            /\ a.obj \in objs => b.obj = a.obj
    /\ \A p, q \in Paths(fs) :
         LET a == fs[p[1]].frames[p[2]]  b == gs[p[1]].frames[p[2]]
             c == fs[q[1]].frames[q[2]]  d == gs[q[1]].frames[q[2]]
         IN /\ (a.table = c.table) <=> (b.table = d.table)
            /\ (a.block = c.block) <=> (b.block = d.block)

(* What restoreFiberStateFromBlob makes is what dumpFiberStateToBlob saw:   *)
(* the same frames, on the same code, with the same variables, shared by    *)
(* the same frames and owned by the same one, and with the current variable *)
(* and the objects that still exist, even if the fibers have run on, were   *)
(* cleaned up, or the objects were deleted in between.                     *)
RestoredAlike ==
    restored # <<>> =>
        Alike(blob.seen.fs, blob.seen.ts, blob.seen.bs,
              [i \in DOMAIN restored |-> fibers[restored[i]]], tables, blocks)

\* The last line at or before ip, by the definition of a line table.
LineAt(b, ip) ==
    LET I == {i \in DOMAIN b.source : b.source[i].ip <= ip}
    IN IF I = {} \/ ip > b.source[Len(b.source)].ip THEN 0
       ELSE b.source[CHOOSE i \in I : \A j \in I : j <= i].line

\* The lines that a debugger reads out of a break list.
Decoded(list) ==
    LET Take(acc, i) ==
          IF i % 2 = 1 THEN [acc EXCEPT !.at = @ + list[i] + 1]
          ELSE [at |-> acc.at + list[i] - 1,
                out |-> acc.out \o [k \in 1 .. list[i] |-> acc.at + k - 1]]
    IN FoldLeft(Take, [at |-> 0, out |-> <<>>], [i \in DOMAIN list |-> i]).out


(* In a compiled block the line of every instruction is found (the binary   *)
(* search of findBreakLine), the list of breakable lines decodes to the     *)
(* script's lines, and whatever breakpoints are set, clearing them gives    *)
(* back the code as it was compiled.                                       *)
LinesKept ==
    \A id \in BlockIds :
        LET b == blocks[id] IN
        (b.st = "live" /\ b.pairs # <<>> /\ LineOf(b.pairs[1]) = b.source[1].line) =>
            /\ \A ip \in DOMAIN b.code : findBreakLine(b.pairs, ip)[1] = LineAt(b, ip)
            /\ Decoded(b.breakList) = [i \in DOMAIN b.source |-> b.source[i].line]
            /\ clearAllBreaks(b).code = CodeOf(b.source)

\* Blocks, their references and lines, the tables of frames, and restored fibers.
StoreConsistent == RefsExact /\ TablesOwned /\ LinesKept /\ RestoredAlike
=============================================================================
