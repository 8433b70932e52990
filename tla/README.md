# korkscript in TLA+

A model of korkscript, from the text of a script to the objects, sockets and
files it works on, with the proofs of what matters most about five of its
parts. Each module is translated from the source; `PROJECT.json` maps every
definition to the lines it stands for, and lists the hazards the properties
are about.

## The system

korkscript is an embeddable TorqueScript VM (`engine/`) with the Sim object
system on top (`torqueSim/`).

| Part | State it keeps | Operations | What is hard about it |
|---|---|---|---|
| Interpreter (`compiledEval.cc`) | per fiber: frames, value stacks, try and iterator stacks, state | exec, suspend, resume, throw, reset, write to a blob and read back | script calls native calls script; an exception or a yield in the middle |
| VM fiber table (`api.cpp`, `freeListHandleHelpers.h`) | handles, free list, current fiber | create, switch, resume, suspend, clean up | ids are reused |
| Fiber manager (`simFiberManager.cc`) | schedule, flag words, suspend-flag table, tick | spawn, wait modes, push/pop flags, cleanups, execFibers, throw* | scripts call back into it in the middle of its loops |
| Event queue (`simManager.cc`) | sorted list, clock, sequence | post, cancel, advance, schedule | events post, cancel and delete while they run; other threads post |
| Sim objects (`simBase.cc`, `simManager.cc`, `simDictionary.cc`) | id and name dictionaries, sets, groups, notify lists, fields, class links | register, rename, delete, set fields, copy, save, reorder | callbacks in the middle of deletion |
| Namespaces (`consoleNamespace.cc`) | parent links, entries, active packages, cache | link, lookup, declare, activate, deactivate | cache invalidation, unwinding of packages |
| Code blocks (`codeBlock.cc`) | reference counts, line tables, breakpoints | load, exec, unload, list | a block must outlive the functions it defined |
| Variables and types (`consoleInternal.cc`, `dynamicTypes.cc`, `stringStack.cc`) | hash tables, heap values, type tables | assign, register, list, operate | growth of the table, types registered in any order |
| Language (`simpleLexer.h`, `simpleParser.h`, `astNodes.cc`, `compiler.cc`) | tokens, tree, code stream, fix-ups | lex, parse, compile, walk | jump targets, requested types, precedence |
| Classes (`api.cpp`) | class list, parents, fields, constructors | declare, declare again, instantiate | declarations that fail half way |
| Console (`console.cc`, `consoleLogger.cc`, `consoleTypes.cc`, `consoleFunctions.cc`, `stringUnit.cc`) | log, consumers, files under way, journal | print, exec, convert, take texts apart | nesting, modes that change between lines |
| Telnet console (`telnetConsole.cc`) | clients and their log-in states | accept, process, disconnect | a client that goes away in the middle of a pass |
| Platform and core (`platformNetwork.cc`, `platformNetAsync.cc`, `fileStream.cc`, `unicode.cc`) | sockets, lookups, buffers | open, poll, look up, read, write | asynchronous completion, callbacks from a pass |
| Telnet debugger, WebAssembly bridges | | | not modelled, see below |

The parts meet in a few places. The host's frame loop calls `Sim::advanceTime`
and `execFibers`. Both run scripts, through `CodeBlock::exec` or
`ExprEvalState::resume`, that is through `runVM`. A script calls native
functions, which call scripts again (`eval`, `onAdd`, `onRemove`, signal
listeners, scheduled calls, `exec` of a file): one C++ stack on one thread, on
which every native function is half done while the script above it runs. Other
threads post events, print (which posts) and answer name lookups. Almost
everything that is hard to test here comes from what a script does to the
structure that the function below it is in the middle of.

What makes each part correct: fibers run when their wait is over and not
before, and no structure keeps a fiber that is gone; events run in order, once,
and never for a deleted object; an exception, a return or a yield leaves the
stacks as the frames that remain expect them; an object that is deleted has
left every dictionary, set, group, signal and pointer before its memory goes; a
call by name reaches the function of the package activated last, and through
`Parent::` the one below it; code does what the tree it was compiled from says;
what is written (an object, a fiber, an address, a file) is read back as it
was; and every socket, block, table and piece of memory has one owner.

## Modules

| Module | Models |
|---|---|
| `SuspendFlags` | what the fiber manager is built on: the VM's fiber table (handles with a generation that is always 1, last-in-first-out reuse of ids, the current fiber) and the manager's table of suspend flags |
| `FiberManager` | the fiber manager, composed with both (it extends `SuspendFlags`) |
| `EventPromise`, `EventQueue` | what the event queue promises (fresh ids, earliest first, posting order among equal times); the queue, the clock, script and thread posts, deletion of destinations, which implement it |
| `ScheduledCalls` | the arguments a scheduled call is packed with and the questions scripts ask of the schedule |
| `ScriptExec` | one fiber's evaluation state (frames, boundaries, string stack, try and iterator stacks) and the interpreter over it: calls, native calls, nested runs, exceptions, yields, loops |
| `FiberStore` | code blocks: the lists they are in, counted references, lines and breakpoints; the frames that hold them; fibers written to a blob and read back |
| `Ast`, `Parser` | the nodes; tokens of a source and the tree of tokens |
| `Compiler`, `CompiledEval` | code of every node; the instruction loop over terms, an evaluator of the tree and the comparison of the two |
| `CodeInspection` | what shows a script to the host: the walk over its tree and the printed listing of its code |
| `TypedOps` | type ids and the operators on typed values |
| `PlainVariables`, `ScriptVariables` | the map a dictionary of variables promises; the hash table, its entries and their heap, which implement it, and the wildcards that choose from it |
| `ScriptClasses` | native and script classes, their fields, links and constructors |
| `Namespaces` | namespaces, packages laid over them, class links, declarations and the tables that cache lookups; the links objects make for their classes and names |
| `SimObjects` | creation, names, sets, groups, notifications, references, signals and removal of Sim objects |
| `SimSets` | order, walks and lookups of nested sets |
| `ObjectFields` | what fields of each console type store and read as; fields of objects, copies, and the files they are saved to |
| `Console` | files that execute files, path names; the log, its consumers and loggers |
| `TextUnits` | units, words and fields of texts, searches, the three encodings |
| `Sockets` | sockets, polling, name lookups, addresses and the telnet adapter; clients of the telnet console |
| `PlainFile`, `FileStreams` | what a file stream promises; the buffered stream, which implements it |
| `Selection` | what is left of a sequence when only some elements are taken, with its proof |
| `FiberManagerProofs`, `NamespacesProofs`, `HostProofs` | the proofs |
| `MCFiberManager`, `MCStores`, `MCRuntime`, `MCObjects`, `MCScripts` | the instances TLC checks |

### Fibers

`mFiberSchedules`, the flag words, `mNowTick` and `mWaitFlagStack` are the
manager's fields. A `U64` of flags is the set of its bits; a slot's `stackPos`
is the length of its `flagStack`. `vm` is the VM's table. Two variables stand
for the C++ call stack: `loop` is the iteration of `execFibers` or `throw*`
that is under way (position, fixed end, selection) and `runs` the fibers inside
`runVM`, innermost last, each with the fiber `spawnFiber` will make current
when the run ends. A visit of an entry that resumes a fiber pushes a run;
whatever the script then does is one action per call (`MayCall`), and the run
ends by yielding, returning or dying (`RunYields`, `RunFinishes`, `RunDies`),
after which the loop goes on where it was. Native code that the repository does
not contain decides which of these calls a script makes, so the model allows
all of them at every point, except that `execFibers` and `throw*` start at the
host only: the code says of them "RUNNING is only possible if we call
execFibers from a fiber which isn't possible" (`simFiberManager.cc:243`).

`cleanupFibers` asks neither who calls it nor whether a marked fiber is
`RUNNING`, and a script may call it at any point. Where it would free a fiber
that is inside a run, or erase entries under a loop of `execFibers` or `throw*`,
the code goes on with freed memory; `ScriptMayErase` says whether the model
takes these calls too, and is `FALSE` except in `fiber_freed_active`, which shows
what they do. An entry whose fiber was freed keeps the id 0 until it is erased,
and a call with the id 0 finds it (`setFiberWaitMode`).

`unpopped` is a history variable: the pushes a fiber has made and not popped.

### Events

The queue's mutex is recursive and held during `advanceToTime`, so the main
thread's calls from an event being processed interleave with the loop
(`processing`), while a worker's `printfPosts` waits for it (`MutexFree`). The
worker's unlocked read of the target time is an action of its own. Deletion is
a stack (`deleting`), because `onRemove` callbacks may delete further objects
and post events, and `cancelPendingEvents` is one action per unlinked event.
`postEvent` narrows the time to `TimeModulus` (2^32 in the code) and treats the
largest value as "now", as the code does with `-1`. `AssertFatal` is compiled
out of release builds and stops nothing in the model.

### Script execution

`ScriptExec` has the control of the interpreter; `CompiledEval` has its data.
`es` is one fiber's evaluation state. `es.vmFrames` are its frames; a frame
knows the function it runs, the statements it is inside (`ip.open`: try blocks,
catch blocks, loops, argument lists, in the order they were entered) and the
stack depths it was pushed with. `es.minStackDepth` is the stack of boundaries
below which a run may not unwind. `es.runs` is the C++ stack: one entry per
`runVM` under way, with the frame it started at. A step is one statement, that
is the handful of opcodes the compiler emits for it; which statements a script
contains is open, and the constant `Statements` says which kinds a run uses.
Values, variables, fields and arithmetic are left out; object names are strings
a `foreach` finds again through the host's callback (`FindObject`, external).
A loop inside a `foreach` is a kind of its own (`loop in foreach`): the end of
the inner one looks the outer one's object up by what the inner one ran over, so
the outer loop goes on over another object or ends. `exec_loop_lost` shows it;
the loops of `runtime` are those without it (a `foreach` in a `foreach` runs over
the same set there).

`HostClearsError` is the call `Con::execute` makes after a function it ran;
the callbacks of objects do not make it (`NativeExec` with `clears` false).

### Sim objects

The variables are the fields and globals of the code. A dictionary is the set
of its entries, each with the bucket it was put in, because removal looks only
in the bucket of the name the object has at that time. A note of
`mNotifyList` is a `DeleteNotify`, `ClearNotify` or `ObjectRef` as in the code.
`calls` is the stack of native functions that are half done: an object between
its construction and its registration, `AddObjectFn` during `onAdd`,
`unregisterObject` during `onRemove` and, for a group, during the removal of
each child, `deleteObjects`, and `triggerSignal` during a listener. A script
action is enabled when nothing or a call at `"script"` is on top. The steps
that run no script are one action (`unregisterObject`).

`ScriptsKeepOff` is an assumption on scripts and not in the code. The native
functions hold raw pointers and iterators across the scripts they call; a
script that deletes the object a function below it is working on, changes the
list of a group whose children are being unregistered, or puts a group into
itself makes them use freed memory or recurse without end. The model excludes
exactly that; the hazards list the places. Renaming is not excluded: an object
that is renamed while its group unregisters it (`mGroup` is null then) leaves its
entry in the group's dictionary, which `NamesFindable` allows for a group in its
own `onRemove`; the entry then outlives the object (see "Disagreements without a
run"). The assertions of `deleteObject` and
`deleteNotify` are guards of the script's call. The root group, which is never
deleted, and "no group" are one value.

### Namespaces

A namespace is the pair of its name and its package. `activatePackage` swaps
the entry list of each namespace of the package with that of the namespace of
the same name without a package, and hooks the former in as the parent of the
latter; so `lists` says which list a namespace has now, a list is named by its
first holder, and `ents` gives `mNamespace` of its entries. `table` is the lookup
table of a namespace, `None` when a `trashCache` has made it stale (its memory
is freed then, and it is rebuilt before it is used). `job` is the C++ loop under
way: one action per package that `deactivatePackage` takes off and
`relinkPackages` puts on again, so that the properties hold at every round.
`mActivePackages` beyond `mNumActivePackages`, which `relinkPackages` reads, is
`job.saved`. The code block an entry points to, its arguments and usage, the
flush of call sites in `unlinkPackages` and group markers are left out.

Two assumptions on callers: a namespace of a package is created through
`findNamespace` only while the package is not active, and who unlinks two
namespaces has linked them (`consoleNamespace.cc:130` and `:305` rely on it). `FoundSpaces`, `ScriptDecls` and `LinkPairs` are what callers ask for;
links do not form cycles, on which the code's loops would not end.

The second half of the module is how an object links the namespaces of its
native class, super class, class and name. Names may be shared, emptied and
changed, as from script. `disturbed` remembers that a link was refused or that a
class was set where the code looks for the old links under the new class
(`FindsClass`, `FindsSuper` say when it still finds them); from then on counts
and parents are wrong (see "Disagreements without a run"), and before that they
are exact, which is `LinksExact`.

### From text to code

`Parser` works on a source cut into symbols and on tokens; a parse
function is the form it reads, so that the grammar stands in the module as in
the comments of the code. `Compiler` emits one cell per instruction with its
operands, with the jump patches of `CodeStream` and with the instruction
pointers that `compile()` hands back, stale ones included. `CompiledEval` runs
that code on terms, deciding each test both ways, and its second half says what
the tree means without looking at the code. The programs are every expression of
the module's list put into every place that can request a value of it, pairs of
expressions of six kinds in the places that take two, and the statements over
them, each compiled with and without types. All of them run.

#### What the emitted code gets wrong

For some programs the emitted code does not do what the tree says, or leaves
something on a stack. `Flaws` finds their causes in the tree, nine of them, each
as narrow as the programs allow; `MeansWhatItSays` and `StatementsBalanced` are
claimed of programs without those that spoil the one or the other. Of 10346 cases
(a program, with or without types) 9148 have none, and of the 1198 that have one
about a thousand do go wrong on some path. The table says what each spoils: the
meaning (M) or the balance of the stacks (B).

| Cause | Spoils | In the code |
|---|---|---|
| `stale_jump` | M, B | the jump over the second operand of `&&` or `\|\|` is patched with what `compile()` returned, which an assignment or a bare word does not advance |
| `not_converted` | M, B | `!` of a float or a text leaves an integer and is converted as a float |
| `assigned_operand` | M, B | an assignment with an operator asked for as a typed value, or an assignment to a field as an argument or tuple element, leaves its number on the stack |
| `nested_new` | M, B | of an object created inside another one's arguments or fields the fail jump overwrites the outer one's |
| `foreach_entry` | B | `foreach` over a set leaves an entry on the string stack |
| `late_copy` | M | `$a[i] = $b` reads `$b` when it stores, after the index was evaluated |
| `number_as_text` | M | without types the number a native function returns has no text |
| `word_as_typed` | M | a bare word asked for as a typed value emits nothing |
| `first_catch` | M | the test of a catch block is an OR, so the first one takes every exception |

By `not_converted` a program runs into the interpreter's own assertion
(`StacksMatch`), and `first_catch` contradicts a comment (`CorrectCatchRuns`).

The printed listing (`CodeInspection`) keeps step with the code and its tables;
but `dumpInstructions` prints the address behind `OP_ADD_OBJECT`, `OP_END_OBJECT`
and `OP_SETCURVAR_TYPE`, and calls `OP_UINT_TO_FLT` `OP_SAVEFIELD_STR` and
`OP_ITER_BEGIN_STR` `OP_ITER_BEGIN`. The model prints that too (`Misplaced`,
`Misnamed`), and `ListingExact` claims everything else.

### The rest

`FiberStore` gives blocks and tables the ids of a small set, so
that an id used again while a reference to it is left is a violation.
`ObjectFields` writes an object as the lines of its text and reads them by its
console types; an array of characters is its capacity and what it held before.
`FileStreams` counts positions modulo a small power of two, as the code does
modulo 2^32. `Sockets` has one action per entry that `Net::process` visits,
and the callbacks of the application between them; the result of a call to the
operating system is a parameter; of two host names one cannot be resolved. For
the telnet console it has one action per client that a pass looks at. `Console`
keeps the stack of files under way in `execs`.

## Runs

Seven runs pass and five each show a disagreement with a comment of the code. Four
of the seven put several components beside each other, each from its own initial
states and one at a time (`part`): they do not interact there, and a property of
one is checked in all its states.

| Run | Shows | Bounds |
|---|---|---|
| `fiber_manager` | schedule, fiber table, current fiber and flag table agree under every nesting; suspended masks are respected | 2 fibers and 2 entries: one loop, one nested spawn, id reuse and refused pushes occur |
| `fiber_liveness` | due fibers run; marked fibers go | 2 fibers, times and ticks 0..1 |
| `sim_notify` | notifications are paired; no set, signal, pointer or function under way points to a freed object; the assertions of `deleteObject` hold in `deleteObjects` | a group, a set that is also a signal, an object with two methods, one `SimObjectPtr`, 2 nested functions |
| `stores` | blocks and tables are counted and owned exactly, a restored fiber is the dumped one, the line table finds the lines; dictionaries and group lists of Sim objects agree | 4 blocks, 2 fibers of 2 frames, 4 tables, one dump, cut short at every place; 2 groups (interchangeable: `SYMMETRY`) and an object, 2 names, 4 nested functions: a script in a grandchild's `onRemove` |
| `runtime` | frames under calls, eval, exceptions, yields and deletion; loops keep what they iterate over, iterators are given back; the event queue; lexer and parser; sockets, addresses and the telnet console | 3 frames, 2 open blocks, 2 try entries, 2 masks; loops: 1 frame, 3 open blocks, 2 iterators, 2 sets; 2 objects, 1 worker, 3 events, delays of 0, -1 and 2, times modulo 3; sources of 4 symbols or 3 tokens and every written form; 2 descriptors and 2 handles, 2 names of which one is unknown; 2 telnet clients, lines of 3 |
| `objects` | packages, class links, fields, saved files, sets | a class with two possible parents, 2 packages, 2 links held; 2 objects of 2 classes, super classes and names; fields of each kind of type; 2 saves of texts longer than the buffer of 4; 2 sets, a group, 2 leaves |
| `scripts` | code against tree, suspend flags, listings, typed operators, tree walks, classes, variables, scheduled calls, file streams, texts, encodings, executed files, paths, logs | 3 fibers on 2 slots of depth 2; numbers of 6 bits; buffers of 2 bytes against files of 4; texts of 3; 4 executed files; 3 to 6 steps of each |

These runs stop at a state in which the code does something else than its own
comments say; "findings" in `PROJECT.json` quotes them.
Each is the smallest instance that shows it.

| Run | Shows |
|---|---|
| `fiber_wait_early` | `WAIT_FIBER` falls through into the time comparison and ends at once |
| `fiber_freed_active` | a fiber that marks itself and calls `cleanupFibers` frees the state it runs on |
| `exec_try_lost` | a try entered after an exception was handled overwrites the entry of the enclosing one |
| `exec_callback_throws` | an exception in a callback pops frames of the runs around it |
| `exec_loop_lost` | the end of a loop inside a `foreach` gives the outer loop the inner one's object |

A property of a run is often the conjunction of several named ones, which stand
before it in its module, each with a comment: `FibersConsistent` of
`EntriesOwnFibers`, `SuspendersExist`, `CurrentIsRunner` and
`RunningIffOnStack`; `PackagesConsistent` of the types, `PackagesStack` and
`LinksOutlivePackages`; and so on.

Deadlock is checked except where the system may stop: in `sim_notify` every
object may have been deleted, and in `stores` that too, or every question may have
been asked. The components that may stop, or end at their bounds, within
`runtime`, `objects` and `scripts` stutter there. The hazards in question need
two actors and one level of nesting more than a test writes down; the bounds
were chosen so that each of them happens, which the mutants confirm: every
property has one, marked `Mutant` in its module, the same operation with a
plausible mistake, under which the property fails.

Where a number is small in a run and large in the code (table sizes, moduli,
buffers) it is a constant, and what the code does at the limit is in the model:
flags beyond a slot's depth, a text cut by its buffer, a time that wraps. The
overflow count wraps at 256 in the code and in the model; TLC's three
outstanding pushes do not reach the wrap, the proof covers it.
`ScheduleCapacity` keeps `mFiberSchedules` within the memory it has: a
`push_back` that reallocates under a loop's reference is undefined behaviour,
which the model excludes and the hazards list. `MaxStackDepth` and the frame
bounds do the same for the interpreter's unchecked arrays.

Loops are checked (`LoopsSpec`) for functions that are not left by `return` or
an exception through a loop while calls are open: those leave iterators and
loop slots behind, see below.

Fairness (`FMFairSpec`): the host's frame loop calls `execFibers` again and
again (strong fairness: between two calls the host may be inside other calls),
a loop under way goes on (the code has nothing else to do), and each script run
ends (a script that never yields hangs the program, which nothing in the
manager could prevent). Nothing is assumed about spawning, flags, cleanup or
time.

### Disagreements without a run

Each of these definitions states what a comment, header or assertion says, and
is false of the model because it is false of the code. They stand in the modules
beside the properties the runs check, which claim nothing about these cases; in
place of the invariants of the named run (with the constants in brackets changed)
TLC finds each violated within two minutes.

| Definition | Says | The code |
|---|---|---|
| `FiberManager!ResumesItsFiber` (`fiber_freed_active`, `ScriptMayErase = FALSE`) | `simFiberManager.h:74` "fiber to resume" | `setFiberWaitMode(0, ...)` arms the entry of a freed fiber; `execFibers` then resumes the fiber of the entry before it (`simFiberManager.cc:238`) |
| `SimObjects!FreedLeftDictionaries` (`sim_notify` without signals, with two names) | `simBase.cc:1750` "Not removed from dictionary" is asserted never to happen | a group nulls its child's `mGroup` before it unregisters it (`simBase.cc:3469`); renamed in its `onRemove`, the child stays in the group's dictionary under the old name when it is freed |
| `MCRuntime!ArrowsNestLeft` (`runtime`) | `simpleParser.h:1496` "Everything else is left-assoc" and `:1741` "bind tighter than '.'" | `a->b->c` is `a->(b->c)` |
| `Sockets!UnresolvedNotConnected` (`runtime`) | `platformNetAsync.h:54` a length of -1 means "name could not be resolved" | `stringToAddress` answers with the zeroed address (`platformNetwork.cc:1814`), which is connected to; `DNSFailed` is never reported |
| `Sockets!LookupsAreOwn` (`runtime`) | `platformNetAsync.h:51` "check on the status of a dns lookup for a socket" | a lookup outlives its handle (`platformNetAsync.cc:91`): the handle's next socket has its own lookup ignored and connects where the old one led |
| `Namespaces!NamedKeepsMethods` (`objects`) | `simBase.cc:2473` an object named `MyObject` has the methods of `MyObject` | `setClassNamespace` unlinks under the new class (`simBase.cc:2425`); the object loses the namespace of its name |
| `ObjectFields!CopyCarriesElements` (`objects`) | `simBase.h:992` "Everything from obj will overwrite what's in this object" | of an array only the first element is copied (`api.cpp:2692`) |
| `Console!LevelOrLower` (`scripts`) | `consoleLogger.h:95` "Only items of the specified level or lower are logged" | a logger gets its level and everything above (`consoleLogger.cc:198`) |
| `MCScripts!StacksMatch` (`scripts`) | `compiledEval.cc:2845` "Stack mismatch" is asserted never to happen | `!` of a float or a text leaves an integer and is converted as a float (`astNodes.cc:818`) |
| `MCScripts!CorrectCatchRuns` (`scripts`) | `compiledEval.cc:2297` "jump address to go to the correct catch block" | the test is an OR (`astNodes.cc:2288`): the first catch block takes every exception |

### Seen while modelling

The model has these behaviours, or its bounds keep clear of them; they disagree with
what one would expect, and no definition states so.

* `onRemove` of the fiber manager frees every fiber without the `RUNNING` test of
  the other cleanups: a script in a managed fiber that deletes the manager frees
  the state it runs on. `ScriptMayDelete` is the switch; the runs leave it off.
* `classLinkTo` and `unlinkClass` do not discard lookup tables, so a namespace
  whose table was built before a link keeps resolving without it
  (`TablesFollowDefinitions` excepts these steps).
* A command added to a namespace while a package lies over it lands in the list
  of the package.
* `WAIT_FIBER` waits for an id: the next fiber spawned may get the id of the one
  waited for. `setFiberWaitMode` overwrites `WAIT_REMOVE`.
* A negative delay of `obj.schedule`, a clock past 2^32 ms or a worker that reads
  the target time and posts after `advanceToTime` has ended makes an event late,
  and its dispatch sets the clock back (`OnlyLateEventsSetBack` says that
  nothing else does).
* A yield inside `eval` leaves the fiber `RUNNING` outside `runVM` after the next
  resume, and nothing can resume it again.
* Handling an exception clears `lastThrow` only: `nextThrow` is thrown again by
  the next `runVM` on the fiber.
* An exception nobody handles, in a fiber without a boundary, leaves its frames.
* `return` in a called function gives back the caller's iterators; `break` out of
  a `try` inside a loop leaves the try open.
* `assignName` looks up the raw string in a dictionary of interned pointers, so
  a name already in use is never refused from script, although the documentation
  of `setName` says "Only one object can have a specific name"
  (`simBase.cc:823`).
* A `foreach$` left by an exception leaves its slot marked as a text loop for the
  next `foreach` in it.
* `SimSet::removeObject` clears a notification even of an object that is not a
  member; the script methods test membership first.

**Compiler, interpreter, blocks**

* Sums of n operands need n entries although `consoleInternal.h:70` says "code
  gen uses 2 stack elememts per op"; the stack of 12 is unchecked, and the model
  ends a program that would overrun it. More than 1000 calls in a block skip
  call-site patches. See also "What the emitted code gets wrong".
* The line table of a block is packed twice when the block is written and read.
  An evicted block of the same name stays marked as listed; a block that fails
  to link types stays in the list without a reference; a syntax error when a
  file is executed again evicts the old block. `activatePackage` leaves the
  call-site caches alone ("kill the cache", `consoleNamespace.cc:124`).
* A restored fiber loses the variable of an open iterator, the current variable
  when it is a global, and unnamed objects.
* `return` and exceptions that leave a loop of a caller leave its iterators.

**Objects and fields**

* Only a container inside itself is refused: longer cycles of sets make every
  search endless. `callOnChildren` and `deleteDataBlocks` walk lists that the
  scripts they call may change. `pushObject` can add an object twice.
* An object named like its native class leaks its class links; the count of
  `unlinkClass` is a U32 that is asserted to be not "less than 0".
* Whole numbers from 10^9 are written as `%.9g` and read back as their first
  digit; script reads of numbers are cut to 5 characters and typed texts to 31; a
  dynamic field that hides a declared one overwrites it when fields are copied;
  types of fields are not saved. Each save appends an empty line, and a line as
  long as the buffer loses a character, which the model does and `SaveKeepsRest`
  excepts.

**Classes, variables, types, calls**

* A class is put in the list before its namespace link is refused, and the
  constructor of a refused class stays: `ClassesAgree` leaves out the classes
  whose last declaration was refused. A class that is its own child, or a cycle of
  parents, makes `getScriptClassFieldInfo` endless; no run declares one.
* A tuple assigned to a registered variable detaches the host's memory; typing a
  registered variable writes through null. `deleteVariables` takes only exact
  names where it documents a wild card.
* Bit operators go through a float and lose bits above 2^24 although
  `dynamicTypes.cc:283` calls them "bitwise (operate on integer views)". The ids
  of the built-in types depend on construction order.
* An event for `NS::f` reads values of 12 bytes as pointers, so only its first
  argument is right, although `simBase.h:181` says "The parameters here are
  passed unmodified to Con::execute()".
* A walk over a `switch` with `case a or b` reports shared statements more than
  once, and class defaults twice.

**Console, texts, files**

* Log mode 1 writes a line without its end in some orders of prints; mode changes
  truncate. Posted messages are formatted twice.
* `compileCodeBlock` answers -1, which is true, when it fails, so `exec` of a file
  with a syntax error goes on with an empty block and answers true.
* Consecutive `..` in a path count once; `isBasePath` tests no boundary.
* `getUnits` keeps a trailing delimiter in one of its two versions;
  surrogate pairs lack 0x10000 and the test for surrogates misses both ends.
* A file stream over an empty file wraps the end of its buffer and loses the next
  write; a read at the end answers true; opening for reading and writing
  truncates.

**Language and network**

* A keyword followed by `$` is an identifier; a raw newline in a text is not
  counted; `slot = {a,b,c}` keeps the first element only.
* `run` of the lookup thread takes the last request where its comment says the
  first.
* In the telnet console, dropping a client walks from a freed head in one order,
  and the bytes behind the last wrong password are still processed.

## Proofs

Four modules, by TLAPS, for every value of the constants that the named
assumptions admit. `PROJECT.json` lists the theorems. TLC checks the same
properties on the instances above.

**Selection.** `Chosen(s, T)`, what is left of the sequence `s` when only
elements of `T` are taken, is a recursive function. That such a function exists
is proved by well-founded induction on the naturals, from its library
definition; then by induction over the length that it returns each element of
the set once and in order, nothing else (`ChosenIs`), and what it does to an
appended element (`ChosenAppend`). The schedule of fibers after a removal, the
layers of a namespace and the clients after a pass rest on it.

**Suspend flags** (`FiberManagerProofs`; both sizes of the table are positive
naturals): types, including that the overflow count stays a U8;
`FlagsStayConsistent`: the cached word is never stale, a fiber has one slot,
balanced pushes and pops leave nothing behind. The invariant `FlagsInv` joins the
types with the slot shape, one slot per fiber, the exact word and "a slot holds
at most what its fiber has not popped". The shape is needed everywhere: a push
into a full slot adds nothing to the cached word only because a full slot is in
use, a push into a free slot adds exactly its flags only because a free slot is
zeroed, and a cleanup clears a fiber only because it has one slot. What an
operation does to one slot is proved first (`PushedShape`, `PoppedShape`), what
it does to the table afterwards.

**Fiber manager** (`FiberManagerProofs`; handles are numbered as the VM does; no
script deletes the manager it runs under, `ScriptMayDelete` being FALSE, and
`cleanupFibers` is called at any point but where it would free a running fiber or
erase under a loop, `ScriptMayErase` being FALSE): `FibersAlwaysTyped`, `FibersAlwaysConsistent`, `SuspendAlwaysRespected`.
The invariant `FMInv` adds to `FlagsInv`: the VM's free list holds exactly the
ids handed out and freed, each once (`TableOK`); entries and live fibers
correspond one to one (`EntriesOK`); the call stack (`StackOK`: each run is of
another fiber and returns to the one below it, and the RUNNING fibers are those
on it); the loop (`LoopOK`: its position stays
inside the schedule while a fiber it resumed runs); and that slots are held by live
fibers. Which fiber is freed depends on who is RUNNING, which entry a loop gives
up on where it was left, and the id of a new fiber on the free list: none of the
parts is inductive alone. Without either hypothesis the theorems are false, see
`onRemove` above and `fiber_freed_active`.

**Events** (`HostProofs`; the modulus is a positive natural, delays are
integers, times and event numbers naturals): `EQTypeCorrect`,
`QueueIsAlwaysSafe` (order, nothing skipped, no event for freed memory),
`SetBackOnlyByLateEvents`, and `QueueImplementsPromise`: the list implements
`EventPromise`. Its invariant `EQInv` joins the types, the order of the list,
fresh ids (the next sequence number is above every one in the list: the order
among equal times rests on it), no event overtaken, no event for freed memory
(with the progress of each deletion, since callbacks may post to the object that
goes) and a clock at or below the target of the advance under way. For the
refinement a post maps to `Post`, an unlinked event and a dispatch to a deleted
object to `Withdraw`, a dispatch to `Run`, the end of processing to `Finish`, and
everything else stutters; removing one list entry removes one element of the set
because the order makes entries distinct.

**Namespaces** (`NamespacesProofs`; `None` is no name, package or function nor a
namespace, a link joins two names, the links held are fewer than the count can
count): `EntriesStay` (each entry list has one holder and each entry names it),
`PackagesKept` (a declaration ends with the packages it found) and
`PackagesAlwaysStack` (the layers of a name are a stack, the class link hangs
under the lowest and lasts as long as it is counted, the types, and
`mActivePackages` never holds more than its 512 places). The first rests on the
exchange of one package being its own inverse (`PartnerInvolution`), which needs
that a package has a name; the second on `Progress`: `relinkPackages` has put on
a prefix of what was active, and the declaration itself happens with no package
active. The third adds `PkgInv`: no package is active twice, and for every name
the layers are laid (`Laid`): lists handed up, parents leading down, everything
that is not active on its own, and the count of the lowest zero exactly when it
has no link. Putting on and taking off a package are proved on one name's stack
first (`Pushed`, `Popped`); that the walk of `classLinkTo` and `unlinkClass`
ends at the lowest layer, whatever is active (`BottomIsLowest`), is an induction
along the walk.

The same module proves the class links of objects (`LinksAlwaysExact`; there are
fewer objects than a count can count, and no object is named after its native or
script class, which `linkNamespaces` does not link): under every order of
additions, removals, renamings to free, used and empty names, changes of classes
and copies, counts, parents and objects agree until a link is refused or a class
is set where its old links are not found. That the other changes of a class do
find them is `ClassFound` and `SuperFound`: setting the first class of a named
object, or the class it has, or any class of an object of a script class. The
invariant `LinksInv` keeps the web of links the objects stand for (`Web`) and
says that the tables count exactly this web. One link more or less
(`LinkCounted`, `UnlinkCounted`) keeps that; linking goes down the chain of an
object and adds its links one by one (`Linking`), where no level can repeat a
link of a level above since its namespace would have another parent already;
unlinking goes up and finds each of them again (`Unlinking`), because the names
in a chain that was accepted are distinct.

**Console** (`HostProofs`): `ExecutedFilesAlwaysAgree`: for any files and
contents, a file is journaled exactly when it or one that executes it was asked
to be, at every nesting and after every error, and no error of a file that was
executed ends the one that executed it. `FilesInv` says which place
`journalDepth` is, and that every file but the innermost has passed no error.
`SocketsAlwaysOwned`: the open sockets of the telnet console are the listed
clients', each of one client. It holds between passes only; `TelnetInv` says
what holds at every client of a pass: a client may have lost its socket only if
the pass has been at it.

What stays with TLC: liveness (`DueFibersRun`, `MarkedFibersGo`: fairness and
ENABLED are out of the prover's reach); everything in `Compiler`,
`CompiledEval`, `Parser` and the other modules with RECURSIVE
operators, which the prover does not take, and what recursive definitions
compute on all inputs; the comparison of bit operators (`TypedOps`); that
lookup tables agree with definitions (`TablesFollowDefinitions`: it is false for
class links, and the chains it walks end only while scripts make no cycles);
the interpreter's frames, the Sim objects, file streams, variables,
sockets and logs, which have invariants within reach and no proof yet.

## Not modelled

* The telnet debugger: its constructor dereferences `mVMInternal` before it is
  set, its clients never become valid, and `setDebugParameters` with
  `waitForClient` does not return. The breakpoints it would set are in
  `FiberStore`.
* The WebAssembly bridges: bindings to a host runtime that is not in the
  repository. The vendored test framework under `ext/`.
* The stub network at the end of `platformNetwork.cc` (from line 2071), which the
  build excludes.
* Objects' ids set by hand, singletons and datablocks; start-up registration of
  classes; allocation hooks, chunk allocation and interning, which hand out
  memory and keep no state a script can see; the growth of the string stack's
  buffer; the text form of a stored block.
* Threads as such: the event queue's mutex and the lookup thread's queue are
  modelled where their users are, the wrappers around the operating system are
  not.

## Plan

Next are proofs: the frames of the interpreter (`FramesConsistent`,
`CallersUntouched`) under the statements of the run, with the running counts of
native frames and string frames as the strengthening; the log
(`LogsAreComplete`); the two remaining
refinements (`StreamIsPlainFile`, `VariablesAgree`); and the dictionaries and
groups of Sim objects (`NamesFindable`, `GroupsAgree`).
