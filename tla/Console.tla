------------------------------ MODULE Console -------------------------------
(***************************************************************************)
(* The console of the simulation: the files it executes, the paths it finds *)
(* them by and what becomes of what is printed.                            *)
(*                                                                         *)
(* Executing script files: Con::exec (console.cc), the script function     *)
(* exec, and what the VM offers for it, compileCodeBlock, execCodeBlock    *)
(* and clearCurrentFiberError (api.cpp).                                   *)
(*                                                                         *)
(* A file executes others while it runs.  The name is worked out in one    *)
(* buffer for all of them, two counters are kept across all of them, and   *)
(* an error of the one inside must not end the one outside.  The cache of  *)
(* compiled files is switched off in the code ("compiled" is false).       *)
(***************************************************************************)
EXTENDS Integers, Sequences, FiniteSets, SequencesExt

CONSTANTS
  Files,        \* their names
  Contents,     \* what a file may hold: [kind, body]; kind is "script",
                \* "missing", "empty" or "broken" (it does not compile)
  Unnamed,      \* the file whose name has no extension
  MaxDepth, MaxExecs

\* What a script consists of, as far as it matters here.
FileStatements ==
  [op : {"set", "throw"}] \cup [op : {"exec"}, file : Files, noCalls : BOOLEAN, journal : BOOLEAN]
FileContents == [kind : {"script", "missing", "empty", "broken"}, body : Seq(FileStatements)]

ASSUME FilesAssumption == Unnamed \in Files /\ \A c \in Contents : c \in FileContents

VARIABLES
  files,        \* what each file holds
  execDepth, journalDepth,
  execs,        \* the calls of exec that are open, the innermost last:
                \* [file, asked, noCalls, journal, next]
  failed,       \* the state of the fiber is ERROR
  returned,         \* [file, ret, ran] of the call that returned last
  execCount
fileVars == <<files, execDepth, journalDepth, execs, failed, returned, execCount>>

NotDone == [file |-> Unnamed, noCalls |-> FALSE, ret |-> FALSE, ran |-> 0]
TopExec == execs[Len(execs)]
WithTopExec(exec) == [execs EXCEPT ![Len(execs)] = exec]
\* The statements of a file.
BodyOf(exec) == IF files[exec.file].kind = "script" THEN files[exec.file].body ELSE <<>>
-----------------------------------------------------------------------------
\* The file is there, and its text is read: `script'.
Readable(file) == file # Unnamed /\ files[file].kind \in {"script", "broken"}
\* compileCodeBlock answers -1 for a text that does not compile, which is
\* true, so that exec goes on with a block of no bytes.
Compiles(file) == TRUE
\* One deeper while the file runs; every early return takes it back.
DepthIn(file) == IF Readable(file) THEN execDepth + 1 ELSE execDepth
\* The two counters: a file is journaled if it is inside one that is, or is
\* asked to be.
Inside == journalDepth < execDepth + 1
JournalIn(inJournal) ==
  CASE Inside -> journalDepth
    [] ~Inside /\ inJournal -> execDepth + 1
    [] ~Inside /\ ~inJournal -> execDepth + 2
OpenedExec(file, noCalls, inJournal) ==
  [file |-> file, asked |-> inJournal, noCalls |-> noCalls, journal |-> inJournal \/ Inside, next |-> 1]
exec(file, noCalls, inJournal) ==
  /\ execCount < MaxExecs /\ Len(execs) < MaxDepth
  /\ execCount' = execCount + 1
  /\ execDepth' = DepthIn(file)
  /\ journalDepth' = JournalIn(inJournal)
  /\ failed' = FALSE
  /\ UNCHANGED files

\* The host executes a file, with no other one running.
hostExec(file, noCalls, inJournal) ==
  /\ execs = <<>>
  /\ exec(file, noCalls, inJournal)
  /\ IF Readable(file) THEN execs' = <<OpenedExec(file, noCalls, inJournal)>> /\ UNCHANGED returned
     ELSE returned' = [NotDone EXCEPT !.file = file] /\ UNCHANGED execs

Running == execs # <<>> /\ ~failed /\ TopExec.next <= Len(BodyOf(TopExec))
NextStatement == BodyOf(TopExec)[TopExec.next]
Stepped == [TopExec EXCEPT !.next = @ + 1]
Passed(op) == NextStatement.op = op \/ (NextStatement.op = "exec" /\ TopExec.noCalls)
\* A statement of the file; with noCalls the script function exec is not called.
set ==
  /\ Running /\ Passed("set")
  /\ execs' = WithTopExec(Stepped)
  /\ UNCHANGED <<files, execDepth, journalDepth, failed, returned, execCount>>
throw ==
  /\ Running /\ NextStatement.op = "throw"
  /\ failed' = TRUE /\ execs' = WithTopExec(Stepped)
  /\ UNCHANGED <<files, execDepth, journalDepth, returned, execCount>>
\* The script function exec.
scriptExec ==
  /\ Running /\ NextStatement.op = "exec" /\ ~TopExec.noCalls
  /\ LET s == NextStatement IN
     /\ exec(s.file, s.noCalls, s.journal)
     /\ IF Readable(s.file) THEN execs' = Append(WithTopExec(Stepped), OpenedExec(s.file, s.noCalls, s.journal)) /\ UNCHANGED returned
        ELSE execs' = WithTopExec(Stepped) /\ returned' = [NotDone EXCEPT !.file = s.file]

\* Mutant: the error is not cleared.
ClearedErrorStays == failed
\* clearCurrentFiberError: the error is gone if frames are left to go on.
ClearedError == failed /\ Len(execs) = 1
\* The end of the file, or an error nothing in it catches; exec returns.
execReturns ==
  /\ execs # <<>> /\ (failed \/ TopExec.next > Len(BodyOf(TopExec)))
  /\ returned' = [file |-> TopExec.file, noCalls |-> TopExec.noCalls, ret |-> Compiles(TopExec.file), ran |-> TopExec.next - 1]
  /\ execs' = SubSeq(execs, 1, Len(execs) - 1)
  /\ execDepth' = execDepth - 1
  /\ failed' = ClearedError
  /\ UNCHANGED <<files, journalDepth, execCount>>

FilesInit ==
  /\ files \in [Files \ {Unnamed} -> Contents]
  /\ execDepth = 0 /\ journalDepth = 1 /\ execs = <<>> /\ failed = FALSE /\ returned = NotDone /\ execCount = 0
FilesNext ==
  \/ \E file \in Files, noCalls, inJournal \in BOOLEAN : hostExec(file, noCalls, inJournal)
  \/ set
  \/ throw
  \/ scriptExec
  \/ execReturns
FilesSpec == FilesInit /\ [][FilesNext]_fileVars
-----------------------------------------------------------------------------
\* A file is journaled exactly if it or one it is executed from was asked to
\* be, however executions before it ended, and the depth is the number of
\* files that are open.
JournalFollowsCallers ==
  /\ execDepth = Len(execs)
  /\ \A i \in DOMAIN execs : execs[i].journal = (\E j \in 1 .. i : execs[j].asked)
\* A file runs to its end, or to the first error of its own: an error in a
\* file it executes does not end it.
Throws(body) == {i \in DOMAIN body : body[i].op = "throw"}
ErrorsStayInTheirFile ==
  returned.ret => LET body == BodyOf(returned) IN
    returned.ran = (IF Throws(body) = {} THEN Len(body) ELSE CHOOSE i \in Throws(body) : \A j \in Throws(body) : i <= j)
\* Both, for files that execute one another.
ExecutedFilesAgree == JournalFollowsCallers /\ ErrorsStayInTheirFile

-----------------------------------------------------------------------------
(***************************************************************************)
(* The names of files and directories: path expandos ("^name/rest", a name *)
(* for a directory), paths relative to the running script, to the working  *)
(* directory and to one another (console.cc, platformFileIO.cc).           *)
(*                                                                         *)
(* A path is a sequence of characters; only "/", ".", "^", "~", "\\" and   *)
(* ":" are told apart from letters, and letters from their capitals.  The  *)
(* hash table of expandos is gone through in an order nobody controls.     *)
(***************************************************************************)

CONSTANTS
  ExpandoNames,      \* the names expandos are given
  ExpandoPaths,      \* the paths they are given
  Directories,       \* the directories the program may be in
  ScriptPaths,       \* full paths of scripts, <<>> for text that is evaluated
  FilePaths,         \* the paths a script asks about
  PathBuffer,        \* sizeof of the buffers paths are copied to
  MaxPathSteps

VARIABLES
  expandos,          \* PathExpandos: name -> path
  directory,         \* the current directory
  mainDirectory,     \* sgMainCSDir; <<>> until asked for
  codeBlock,         \* full path of the block that runs
  excluded,          \* gPlatformDirectoryExcludeList
  pathSteps
pathVars == <<expandos, directory, mainDirectory, codeBlock, excluded, pathSteps>>

Fails == [found |-> FALSE, path |-> <<>>]
Gives(p) == [found |-> TRUE, path |-> p]

Lower(c) == CASE c = "W" -> "w" [] c = "A" -> "a" [] OTHER -> c
Lowered(p) == [i \in DOMAIN p |-> Lower(p[i])]
\* dStrnicmp over the length of the first.
Begins(base, p) == Len(base) <= Len(p) /\ Lowered(SubSeq(p, 1, Len(base))) = Lowered(base)
From(p, i) == SubSeq(p, i, Len(p))
\* dStrchr, dStrrchr; 0 is a null pointer.
FirstSlash(p) == SelectInSeq(p, LAMBDA c : c = "/")
LastSlash(p) == SelectLastInSeq(p, LAMBDA c : c = "/")
CharOr0(p, i) == IF i \in DOMAIN p THEN p[i] ELSE ""

isFullPath(p) == CharOr0(p, 1) = "/" \/ CharOr0(p, 2) = ":"
ensureTrailingSlash(p) == IF p = <<>> \/ Last(p) = "/" THEN p ELSE Append(p, "/")

\* stripRepeatSlashes: nothing is left of what does not fit.
NoRepeats(p) ==
  FoldLeft(LAMBDA q, c : IF c = "/" /\ q # <<>> /\ Last(q) = "/" THEN q ELSE Append(q, c), <<>>, p)
stripRepeatSlashes(p) ==
  IF Len(NoRepeats(p)) < PathBuffer THEN Gives(NoRepeats(p)) ELSE Fails
-----------------------------------------------------------------------------
(* Full and relative names. *)

Slashes(p) == [i \in DOMAIN p |-> IF p[i] = "\\" THEN "/" ELSE p[i]]

\* catPath: the name goes behind the end, with a slash between.
catPath(b, name) ==
  LET kept == SubSeq(b.buffer, 1, b.end)
      new == (IF Last(kept) = "/" THEN kept ELSE Append(kept, "/")) \o name
  IN [buffer |-> new, end |-> Len(new)]

\* "..": the end goes to the last slash of the buffer, which keeps its tail.
ParentDir(b) == [b EXCEPT !.end = LastSlash(b.buffer)]

\* One name of the path: a directory, or what is behind the last slash.
PathStep(b, name, isLast) ==
  CASE ~isLast /\ name = <<".", ".">> -> ParentDir(b)
    [] ~isLast /\ name = <<".">> -> b
    [] OTHER -> IF b.end = 0 THEN b ELSE catPath(b, name)

makeFullPathName(path, cwd) ==
  LET p == Slashes(path)
      ends == SelectSeq([i \in DOMAIN p |-> i], LAMBDA i : p[i] = "/") \o <<Len(p) + 1>>
      name(k) == SubSeq(p, IF k = 1 THEN 1 ELSE ends[k - 1] + 1, ends[k] - 1)
  IN IF isFullPath(p) THEN p
     ELSE FoldLeft(LAMBDA b, k : PathStep(b, name(k), k = Len(ends)),
                   [buffer |-> cwd, end |-> Len(cwd)], [k \in DOMAIN ends |-> k]).buffer

\* Mutant: the case of letters counts.
CommonByCase(p, q) == Max({n \in 0 .. Len(p) : n <= Len(q) /\ SubSeq(p, 1, n) = SubSeq(q, 1, n)})
\* The length of what two paths have in common, whatever the case.
Common(p, q) ==
  LET same == {n \in 0 .. Len(p) : n <= Len(q) /\ Lowered(SubSeq(p, 1, n)) = Lowered(SubSeq(q, 1, n))}
  IN Max(same)
AtEnd(p, i) == i > Len(p) \/ (i = Len(p) /\ p[i] = "/")

\* makeRelativePathName: up from where the two part, then down.
RelativeFrom(p, to, n) ==
  LET branch == IF n = Len(p) /\ CharOr0(to, n + 1) = "/" THEN n + 1
                ELSE Max({i \in 1 .. n : p[i] = "/"} \cup {1})
      ups == {i \in branch .. Len(to) - 1 : to[i] = "/"}
      up == FlattenSeq([i \in 1 .. Cardinality(ups) |-> <<".", ".", "/">>])
  IN IF AtEnd(p, n + 1) /\ AtEnd(to, n + 1)
     THEN IF CharOr0(p, n + 1) = "/" \/ CharOr0(p, n) = "/" THEN <<".", "/">> ELSE <<".">>
     ELSE IF branch <= Len(p) THEN up \o From(p, branch + 1) ELSE Front(up)
makeRelativePathName(p, to) ==
  IF ~isFullPath(p) THEN p
  ELSE RelativeFrom(p, ensureTrailingSlash(to), Common(p, ensureTrailingSlash(to)))

\* tryStripBasePath, stripBasePath: the main directory, the current one, or
\* the prefs path, which is empty and so is the beginning of every path.
Stripped(p, base) ==
  LET n == Len(base) IN IF CharOr0(p, n + 1) = "/" THEN From(p, n + 2) ELSE From(p, n + 1)
stripBasePath(p) ==
  CASE Begins(mainDirectory, p) -> Stripped(p, mainDirectory)
    [] Begins(directory, p) -> Stripped(p, directory)
    [] OTHER -> Stripped(p, <<>>)

\* getModNameFromPath: the first directory below the main one.
getModNameFromPath(p) ==
  LET below == From(p, Len(mainDirectory) + 2)
      first(q) == IF FirstSlash(q) = 0 THEN Fails ELSE Gives(SubSeq(q, 1, FirstSlash(q) - 1))
  IN CASE p = <<>> -> Fails
       [] isFullPath(p) -> IF Begins(mainDirectory, p) THEN first(below) ELSE Fails
       [] OTHER -> first(p)
-----------------------------------------------------------------------------
(* Expandos and what scripts write. *)

\* expandPath of "^name/rest".
NameEnd(p) == IF FirstSlash(p) = 0 THEN Len(p) + 1 ELSE FirstSlash(p)
ExpandoOf(p) == SubSeq(p, 2, NameEnd(p) - 1)
Expanded(p) == expandos[ExpandoOf(p)] \o <<"/">> \o From(p, NameEnd(p) + 1)

\* "./rest" and "../rest", from the directory of the running script.
BesideScript(p) ==
  IF CharOr0(p, 2) = "." THEN SubSeq(codeBlock, 1, LastSlash(codeBlock)) \o <<"/">> \o p
  ELSE SubSeq(codeBlock, 1, LastSlash(codeBlock) - 1) \o <<"/">> \o From(p, 2)

\* expandPath: what cannot be expanded is given back as it is.
expandPath(p, cwd) ==
  CASE CharOr0(p, 1) = "^" ->
         IF ExpandoOf(p) \in DOMAIN expandos THEN stripRepeatSlashes(Expanded(p)) ELSE [found |-> FALSE, path |-> p]
    [] CharOr0(p, 1) = "." ->
         IF codeBlock # <<>> THEN stripRepeatSlashes(BesideScript(p)) ELSE [found |-> FALSE, path |-> p]
    [] OTHER -> stripRepeatSlashes(makeFullPathName(p, cwd))

isBasePath(p, base) == Begins(base, expandPath(p, directory).path)

\* The rest of a path behind an expando: a leading period is dropped.
BehindExpando(p, base) ==
  LET r == makeRelativePathName(p, base) IN IF CharOr0(r, 1) = "." THEN Tail(r) ELSE r

\* Of the expandos that fit, one with the shortest rest: the last of them in
\* the table's order.
NearestExpando(names, p) ==
  FoldLeft(LAMBDA best, n :
             IF best # <<>> => Len(BehindExpando(p, expandos[n])) <= Len(BehindExpando(p, expandos[best[1]]))
             THEN <<n>> ELSE best, <<>>, names)

collapsePath(p, order) ==
  LET best == NearestExpando(SelectSeq(order, LAMBDA n : isBasePath(p, expandos[n])), p)
      r == makeRelativePathName(p, directory)
  IN IF best # <<>>
     THEN stripRepeatSlashes(<<"^">> \o best[1] \o <<"/">> \o BehindExpando(p, expandos[best[1]]))
     ELSE stripRepeatSlashes(directory \o <<"/">> \o
            (IF CharOr0(r, 1) = "." /\ CharOr0(r, 2) # "." THEN Tail(r) ELSE r))

\* expandScriptFilename: "~/rest" is below the script's first directory,
\* "./rest" beside the script.
expandScriptFilename(p) ==
  LET slash == IF CharOr0(p, 1) = "~" THEN FirstSlash(codeBlock) ELSE LastSlash(codeBlock)
  IN IF codeBlock = <<>> THEN Gives(p)
     ELSE IF CharOr0(p, 1) \in {"~", "."} /\ CharOr0(p, 2) = "/"
     THEN IF slash = 0 \/ slash - 1 + Len(p) > PathBuffer THEN Fails
          ELSE Gives(SubSeq(codeBlock, 1, slash - 1) \o Tail(p))
     ELSE IF Len(p) > PathBuffer THEN Fails ELSE Gives(p)
-----------------------------------------------------------------------------
Moves == pathSteps < MaxPathSteps /\ pathSteps' = pathSteps + 1

\* addPathExpando: a path without its last slash, if it has room.
addPathExpando(name, path) ==
  /\ Moves
  /\ path # <<>> /\ Len(path) < PathBuffer /\ stripRepeatSlashes(path).found
  /\ LET p == stripRepeatSlashes(path).path
         q == IF Last(p) = "/" THEN Front(p) ELSE p
     IN expandos' = [n \in DOMAIN expandos \cup {name} |-> IF n = name THEN q ELSE expandos[n]]
  /\ UNCHANGED <<directory, mainDirectory, codeBlock, excluded>>
removePathExpando(name) ==
  /\ Moves
  /\ name \in DOMAIN expandos
  /\ expandos' = [n \in DOMAIN expandos \ {name} |-> expandos[n]]
  /\ UNCHANGED <<directory, mainDirectory, codeBlock, excluded>>
\* The host moves, or says where its main script is; another script runs.
setMainDotCsDir(d) ==
  /\ Moves
  /\ mainDirectory' = d
  /\ UNCHANGED <<expandos, directory, codeBlock, excluded>>
setCurrentDirectory(d) ==
  /\ Moves
  /\ directory' = d
  /\ UNCHANGED <<expandos, mainDirectory, codeBlock, excluded>>
runScript(p) ==
  /\ Moves
  /\ codeBlock' = p
  /\ UNCHANGED <<expandos, directory, mainDirectory, excluded>>
\* addExcludedDirectory, clearExcludedDirectories
addExcludedDirectory(d) ==
  /\ Moves
  /\ excluded' = Append(excluded, d)
  /\ UNCHANGED <<expandos, directory, mainDirectory, codeBlock>>
clearExcludedDirectories ==
  /\ Moves
  /\ excluded # <<>> /\ excluded' = <<>>
  /\ UNCHANGED <<expandos, directory, mainDirectory, codeBlock>>

PathsInit ==
  /\ expandos = [n \in {} |-> <<>>]
  /\ directory \in Directories /\ mainDirectory \in Directories
  /\ codeBlock = <<>> /\ excluded = <<>> /\ pathSteps = 0
PathsNext ==
  \/ \E n \in ExpandoNames, p \in ExpandoPaths : addPathExpando(n, p)
  \/ \E n \in ExpandoNames : removePathExpando(n)
  \/ \E d \in Directories : setMainDotCsDir(d)
  \/ \E d \in Directories : setCurrentDirectory(d)
  \/ \E p \in ScriptPaths : runScript(p)
  \/ \E d \in Directories : addExcludedDirectory(d)
  \/ clearExcludedDirectories
PathsSpec == PathsInit /\ [][PathsNext]_pathVars
-----------------------------------------------------------------------------
Orders == SetToAllKPermutations(DOMAIN expandos)
\* The file a full path means: its names, ".." undone.
Names(p) ==
  LET cuts == SelectSeq([i \in DOMAIN p |-> i], LAMBDA i : p[i] = "/") \o <<Len(p) + 1>>
      part(k) == SubSeq(p, cuts[k] + 1, cuts[k + 1] - 1)
  IN [k \in 1 .. Len(cuts) - 1 |-> part(k)]
FileMeant(p) ==
  FoldLeft(LAMBDA at, n : IF n = <<".", ".">> THEN (IF at = <<>> THEN at ELSE Front(at))
                          ELSE IF n = <<>> THEN at ELSE Append(at, n), <<>>, Names(Lowered(p)))
\* A path that was collapsed expands to a name of the same file, whichever
\* expandos there are, whatever order the table has them in and wherever the
\* program is.
CollapsedExpandsBack ==
  \A p \in FilePaths : \A order \in {o \in Orders : Len(o) = Cardinality(DOMAIN expandos)} :
    LET c == collapsePath(p, order)
    IN c.found => FileMeant(expandPath(c.path, directory).path) = FileMeant(p)
\* The names a script can use for a file of its own directory mean that file.
OwnFilesAreFound ==
  \A p \in FilePaths : codeBlock # <<>> =>
    LET own == SubSeq(codeBlock, 1, LastSlash(codeBlock) - 1)
        r == makeRelativePathName(p, own)
    IN Begins(own \o <<"/">>, p) /\ CharOr0(r, 1) # "." =>
         /\ expandScriptFilename(<<".", "/">> \o r) = expandPath(<<".", "/">> \o r, directory)
         /\ Lowered(expandPath(<<".", "/">> \o r, directory).path) = Lowered(p)
\* A path that is stripped is relative, below the main directory or, if it is
\* not there, below the current one, and its first directory is the mod.
StrippedPathsMeanTheSame ==
  \A p \in FilePaths :
    LET r == stripBasePath(p)
        below(d) == d # <<>> /\ Begins(d \o <<"/">>, p)
        mod == getModNameFromPath(p)
    IN /\ ~isFullPath(r)
       /\ below(mainDirectory) =>
            /\ Lowered(mainDirectory \o <<"/">> \o r) = Lowered(p)
            /\ mod.found = ("/" \in Range(r)) /\ (mod.found => mod = getModNameFromPath(r))
       /\ below(directory) /\ ~below(mainDirectory) => Lowered(directory \o <<"/">> \o r) = Lowered(p)
-----------------------------------------------------------------------------
(***************************************************************************)
(* What becomes of a message that is printed to the console (console.cc,   *)
(* consoleLogger.cc): every consumer is called, then line by line it goes  *)
(* to the log file and to the log buffer.  Threads other than the main one *)
(* post their messages as events.  A ConsoleLogger is an object that       *)
(* writes what it hears to a file of its own; all of them share one        *)
(* consumer.                                                               *)
(*                                                                         *)
(* A message is a level and the lines of its text.  The log mode is a      *)
(* number: 1 in its low two bits opens the file for every line, 2 keeps it *)
(* open, 0 and 3 write nothing; 4 asks for what was printed before.        *)
(***************************************************************************)
CONSTANTS
  Messages,          \* [level, lines]
  Modes,             \* the log modes scripts set
  Consumers,         \* callbacks of the host
  Loggers,           \* ConsoleLogger objects
  MaxLogSteps

VARIABLES
  consumers,         \* gConsumers
  heard,             \* what each callback of the host was called with
  log,               \* consoleLog: the lines that are kept
  consoleLogLocked,
  logBufferEnabled,
  logFile,           \* [mode, lines, status, new]: consoleLogMode, the file, the
                     \* state of consoleLogFile, newLogFile
  posted,            \* messages of other threads
  loggers,           \* [named, append, level, logging, lines] of each logger
  mActiveLoggers,
  smInitialized,
  due,               \* history: what the log file and the loggers owe
  logSteps
logVars == <<consumers, heard, log, consoleLogLocked, logBufferEnabled, logFile, posted, loggers,
             mActiveLoggers, smInitialized, due, logSteps>>

SharedConsumer == "ConsoleLogger::logCallback"
Normal == 0
Header == "header"
\* The copy that is kept has no tabs.
Caretted(line) == IF line = "tab" THEN "caret" ELSE line
Kept(m) == [i \in DOMAIN m.lines |-> Caretted(m.lines[i])]
LowMode(f) == f.mode % 4
WantsDump(f) == f.mode \div 4 = 1

\* The first write makes a header, and dumps what the buffer has if asked to.
FirstWrite(f, kept) ==
  IF ~f.new THEN f
  ELSE IF WantsDump(f)
  THEN [f EXCEPT !.lines = @ \o <<Header>> \o kept, !.new = FALSE, !.mode = @ - 4]
  ELSE [f EXCEPT !.lines = Append(@, Header), !.new = FALSE]
\* Opening for reading and writing empties a file (platformFileIO.cc: "wb+").
OpenedForLine(f) == IF LowMode(f) = 1 THEN [f EXCEPT !.lines = <<>>, !.status = "Ok"] ELSE f
ClosedAfterLine(f) == IF LowMode(f) = 1 THEN [f EXCEPT !.status = "Closed"] ELSE f
WriteLine(f, line) == IF f.status = "Ok" THEN [f EXCEPT !.lines = Append(@, line)] ELSE f
\* log: the state is the file, the buffer and the lock; a dump lets go of it.
Logged(s, line) ==
  LET f == OpenedForLine(s.file)
      writes == f.status = "Ok"
      g == IF writes THEN FirstWrite(f, s.kept) ELSE f
  IN IF s.file.mode = 0 THEN s
     ELSE [s EXCEPT !.file = ClosedAfterLine(WriteLine(g, line)),
                    !.locked = @ /\ ~(writes /\ f.new /\ WantsDump(f))]
Buffered(s, line) ==
  IF logBufferEnabled /\ ~s.locked THEN [s EXCEPT !.kept = Append(@, line)] ELSE s
\* Mutant: a line is kept before it is logged.
KeepLineFirst(s, line) == Logged(Buffered(s, line), line)
KeepLine(s, line) == Buffered(Logged(s, line), line)
-----------------------------------------------------------------------------
Times(c, s) == Len(SelectSeq(s, LAMBDA d : d = c))
\* logCallback: once for every time it is on the list of consumers.
LoggersWrite(m) ==
  [l \in Loggers |->
     [loggers[l] EXCEPT !.lines =
        IF loggers[l].level <= m.level
        THEN @ \o FlattenSeq([k \in 1 .. Times(SharedConsumer, consumers) * Times(l, mActiveLoggers) |-> <<m.lines>>])
        ELSE @]]

\* What a print may add: to the log file while it is kept open, and to the
\* file of every logger that is attached.
FileOwes(m) ==
  IF LowMode(logFile) # 2 THEN <<>>
  ELSE (IF logFile.new THEN <<Header>> \o (IF WantsDump(logFile) THEN log ELSE <<>>) ELSE <<>>) \o Kept(m)
Owes(m) ==
  [file |-> due.file \o FileOwes(m),
   loggers |-> [l \in Loggers |->
     IF loggers[l].logging
     THEN Append(due.loggers[l], [lines |-> m.lines, own |-> m.level = loggers[l].level])
     ELSE due.loggers[l]]]

\* _printf
Printed(m) ==
  LET s == FoldLeft(KeepLine, [file |-> logFile, kept |-> log, locked |-> consoleLogLocked], Kept(m))
      logs == logBufferEnabled \/ logFile.mode # 0
  IN /\ heard' = [c \in Consumers |-> heard[c] \o [k \in 1 .. Times(c, consumers) |-> m.lines]]
     /\ loggers' = LoggersWrite(m)
     /\ IF logs THEN logFile' = s.file /\ log' = s.kept /\ consoleLogLocked' = s.locked
                ELSE UNCHANGED <<logFile, log, consoleLogLocked>>
     /\ due' = Owes(m)
     /\ UNCHANGED <<consumers, logBufferEnabled, mActiveLoggers, smInitialized>>
Goes == logSteps < MaxLogSteps /\ logSteps' = logSteps + 1

\* printf, warnf and errorf of the main thread, and of another one.
printf(m) == Goes /\ Printed(m) /\ UNCHANGED posted
printfThreaded(m) ==
  /\ Goes
  /\ posted' = Append(posted, m)
  /\ UNCHANGED <<consumers, heard, log, consoleLogLocked, logBufferEnabled, logFile, loggers,
                 mActiveLoggers, smInitialized, due>>
\* ConPrinfThreadedEvent::process; an event of normal level loses its type.
processPosted ==
  /\ posted # <<>>
  /\ Printed(Head(posted)) /\ posted' = Tail(posted) /\ UNCHANGED logSteps

\* setLogMode; the second mode starts with an empty file.
NewMode(f, mode) ==
  IF mode % 4 = LowMode(f) THEN f
  ELSE [mode |-> mode,
        lines |-> IF LowMode(f) # 2 /\ mode % 4 = 2 THEN <<>> ELSE f.lines,
        status |-> IF LowMode(f) = 2 THEN "Closed" ELSE IF mode % 4 = 2 THEN "Ok" ELSE f.status,
        new |-> f.new \/ (mode # 0 /\ f.mode = 0)]
setLogMode(mode) ==
  /\ Goes
  /\ logFile' = NewMode(logFile, mode)
  /\ due' = IF LowMode(logFile) # 2 /\ mode % 4 = 2 THEN [due EXCEPT !.file = <<>>] ELSE due
  /\ UNCHANGED <<consumers, heard, log, consoleLogLocked, logBufferEnabled, posted, loggers,
                 mActiveLoggers, smInitialized>>
cls ==
  /\ Goes
  /\ ~consoleLogLocked /\ log' = <<>>
  /\ UNCHANGED <<consumers, heard, consoleLogLocked, logBufferEnabled, logFile, posted, loggers,
                 mActiveLoggers, smInitialized, due>>
\* getLockLog and unlockLog of somebody who reads the buffer.
getLockLog ==
  /\ Goes
  /\ log # <<>> /\ consoleLogLocked' = TRUE
  /\ UNCHANGED <<consumers, heard, log, logBufferEnabled, logFile, posted, loggers, mActiveLoggers,
                 smInitialized, due>>
unlockLog ==
  /\ Goes
  /\ consoleLogLocked' = FALSE
  /\ UNCHANGED <<consumers, heard, log, logBufferEnabled, logFile, posted, loggers, mActiveLoggers,
                 smInitialized, due>>
\* $Con::logBufferEnabled
setLogBufferEnabled(b) ==
  /\ Goes
  /\ logBufferEnabled' = b
  /\ UNCHANGED <<consumers, heard, log, consoleLogLocked, logFile, posted, loggers, mActiveLoggers,
                 smInitialized, due>>
addConsumer(c) ==
  /\ Goes
  /\ consumers' = Append(consumers, c)
  /\ UNCHANGED <<heard, log, consoleLogLocked, logBufferEnabled, logFile, posted, loggers,
                 mActiveLoggers, smInitialized, due>>
\* The last of its entries goes.
removeConsumer(c) ==
  /\ Goes
  /\ Times(c, consumers) > 0
  /\ consumers' = RemoveAt(consumers, SelectLastInSeq(consumers, LAMBDA d : d = c))
  /\ UNCHANGED <<heard, log, consoleLogLocked, logBufferEnabled, logFile, posted, loggers,
                 mActiveLoggers, smInitialized, due>>
-----------------------------------------------------------------------------
(* ConsoleLogger *)

\* init
initConsumers == IF smInitialized THEN consumers ELSE Append(consumers, SharedConsumer)

\* attach: not if it logs already; a file that is not appended to is emptied.
Attached(l, c) ==
  IF c.logging
  THEN UNCHANGED <<loggers, mActiveLoggers, due>>
  ELSE LET from == IF c.append THEN c.lines ELSE <<>>
       IN /\ loggers' = [loggers EXCEPT ![l] = [c EXCEPT !.logging = TRUE, !.lines = from]]
          /\ mActiveLoggers' = Append(mActiveLoggers, l)
          /\ due' = [due EXCEPT !.loggers[l] = IF c.append THEN @ ELSE <<>>]
\* `new ConsoleLogger(name : file, append)`: processArguments.
newConsoleLogger(l, append) ==
  /\ Goes
  /\ ~loggers[l].named
  /\ consumers' = initConsumers /\ smInitialized' = TRUE
  /\ Attached(l, [loggers[l] EXCEPT !.named = TRUE, !.append = append, !.level = Normal])
  /\ UNCHANGED <<heard, log, consoleLogLocked, logBufferEnabled, logFile, posted>>
attach(l) ==
  /\ Goes
  /\ loggers[l].named
  /\ consumers' = initConsumers /\ smInitialized' = TRUE
  /\ Attached(l, loggers[l])
  /\ UNCHANGED <<heard, log, consoleLogLocked, logBufferEnabled, logFile, posted>>
\* The field "level".
setLevel(l, level) ==
  /\ Goes
  /\ loggers[l].named
  /\ loggers' = [loggers EXCEPT ![l].level = level]
  /\ UNCHANGED <<consumers, heard, log, consoleLogLocked, logBufferEnabled, logFile, posted,
                 mActiveLoggers, smInitialized, due>>
\* detach, or the object is deleted.
detach(l, deleted) ==
  /\ Goes
  /\ loggers[l].logging \/ (deleted /\ loggers[l].named)
  /\ consumers' = initConsumers /\ smInitialized' = TRUE
  /\ loggers' = [loggers EXCEPT ![l].logging = FALSE, ![l].named = ~deleted]
  /\ mActiveLoggers' = Remove(mActiveLoggers, l)
  /\ UNCHANGED <<heard, log, consoleLogLocked, logBufferEnabled, logFile, posted, due>>

LogInit ==
  /\ consumers = <<>> /\ heard = [c \in Consumers |-> <<>>]
  /\ log = <<>> /\ consoleLogLocked = FALSE /\ logBufferEnabled = TRUE
  /\ logFile = [mode |-> 0, lines |-> <<>>, status |-> "Closed", new |-> TRUE]
  /\ posted = <<>>
  /\ loggers = [l \in Loggers |-> [named |-> FALSE, append |-> FALSE, level |-> Normal, logging |-> FALSE, lines |-> <<>>]]
  /\ mActiveLoggers = <<>> /\ smInitialized = FALSE
  /\ due = [file |-> <<>>, loggers |-> [l \in Loggers |-> <<>>]]
  /\ logSteps = 0
LogNext ==
  \/ \E m \in Messages : printf(m)
  \/ \E m \in Messages : printfThreaded(m)
  \/ processPosted
  \/ \E mode \in Modes : setLogMode(mode)
  \/ cls
  \/ getLockLog
  \/ unlockLog
  \/ \E b \in BOOLEAN : setLogBufferEnabled(b)
  \/ \E c \in Consumers : addConsumer(c)
  \/ \E c \in Consumers : removeConsumer(c)
  \/ \E l \in Loggers, a \in BOOLEAN : newConsoleLogger(l, a)
  \/ \E l \in Loggers : attach(l)
  \/ \E l \in Loggers, v \in 0 .. 2 : setLevel(l, v)
  \/ \E l \in Loggers, d \in BOOLEAN : detach(l, d)
LogSpec == LogInit /\ [][LogNext]_logVars
-----------------------------------------------------------------------------
\* The file of a logger has every message of the logger's own level, and no other
\* than was printed while it was attached, once and in order, whatever loggers
\* came and went in between.  Of the messages of other levels this claims nothing:
\* logCallback lets those above through (consoleLogger.cc:198), and the header has
\* "Only items of the specified level or lower are logged" (consoleLogger.h:95-96).
LoggerComplete(l) ==
  \E kept \in SUBSET DOMAIN due.loggers[l] :
    /\ \A i \in DOMAIN due.loggers[l] : due.loggers[l][i].own => i \in kept
    /\ LET order == SetToSortSeq(kept, LAMBDA i, j : i < j)
       IN loggers[l].lines = [k \in DOMAIN order |-> due.loggers[l][order[k]].lines]

\* The log file that is kept open has every line that was printed since, once
\* and in order, behind what was printed before if that was asked for; and the
\* files of loggers are complete.
LogsAreComplete ==
  /\ LowMode(logFile) = 2 => logFile.lines = due.file
  /\ \A l \in Loggers : LoggerComplete(l)

\* "Only items of the specified level or lower are logged" (consoleLogger.h:95-96):
\* a logger's file grows by a message of its level or of a lower one only.  The
\* code does the contrary; no run checks this.
LevelOrLower ==
  [][\A l \in Loggers, msg \in Messages :
       printf(msg) /\ Len(loggers'[l].lines) > Len(loggers[l].lines) => msg.level <= loggers[l].level]_logVars
=============================================================================
