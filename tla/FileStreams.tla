---------------------------- MODULE FileStreams ----------------------------
(***************************************************************************)
(* FileStream: reads and writes of a File through one buffer, which holds  *)
(* part of one aligned block of the file and may be ahead of it (dirty).   *)
(* File is the C library's FILE with a status of its own.  Positions are   *)
(* unsigned: they are counted modulo W.                                    *)
(***************************************************************************)
EXTENDS Integers, Sequences, FiniteSetsExt

CONSTANTS BUFFER_SIZE,
          W,            \* the width of a position, 2^32 in the code
          MaxFile,      \* bound: the length of a file
          MaxUses,      \* bound: how often it is opened or written to
          Written       \* the byte sequences that are written

ASSUME StreamAssumption == BUFFER_SIZE \in Nat \ {0} /\ MaxFile \in Nat /\ W > MaxFile + BUFFER_SIZE

VARIABLES fs,       \* the stream and its file
          fsMode,   \* how it was opened
          fsGot     \* the bytes the last read stored

fsVars == <<fs, fsMode, fsGot>>

BUFFER_INVALID == W - 1
Capabilities == [Read |-> {"read"}, Write |-> {"write"}, WriteAppend |-> {"write"}, ReadWrite |-> {"read", "write"}]

Cleared(s) == [s EXCEPT !.head = BUFFER_INVALID, !.pos = 0, !.tail = 0, !.dirty = FALSE, !.eof = FALSE]
ClosedStream(disk, uses) ==
    [caps |-> {}, status |-> "Closed", head |-> BUFFER_INVALID, pos |-> 0, tail |-> 0, dirty |-> FALSE, eof |-> FALSE,
     buf |-> [i \in 0 .. BUFFER_SIZE - 1 |-> 0], disk |-> disk, fpos |-> 0, fstatus |-> "Closed", wrapped |-> FALSE, uses |-> uses]
StreamInit ==
    /\ \E n \in 0 .. MaxFile - 1 : fs = ClosedStream([i \in 1 .. n |-> i], 0)
    /\ fsMode = "" /\ fsGot = <<>>
-----------------------------------------------------------------------------
(* File *)

fileSetPosition(s, p) == [s EXCEPT !.fpos = p, !.fstatus = IF p >= Len(s.disk) THEN "EOS" ELSE "Ok"]
\* The bytes that a read of n gets: none after the end was met.
FileBytes(s, n) ==
    IF s.fstatus # "Ok" \/ s.fpos >= Len(s.disk) THEN <<>>
    ELSE SubSeq(s.disk, s.fpos + 1, Min({s.fpos + n, Len(s.disk)}))
fileRead(s, n) ==
    LET k == Len(FileBytes(s, n))
    IN IF s.fstatus # "Ok" \/ n = 0 THEN s
       ELSE [s EXCEPT !.fpos = @ + k, !.fstatus = IF k = 0 THEN "EOS" ELSE "Ok"]
fileWrite(s, bs, append) ==
    LET p == IF append THEN Len(s.disk) ELSE s.fpos
        n == Max({p + Len(bs), Len(s.disk)})
    IN IF s.fstatus \notin {"Ok", "EOS"} \/ bs = <<>> THEN s
       ELSE [s EXCEPT !.fpos = p + Len(bs), !.fstatus = "Ok",
                      !.disk = [i \in 1 .. n |-> IF i \in p + 1 .. p + Len(bs) THEN bs[i - p]
                                                 ELSE IF i <= Len(s.disk) THEN s.disk[i] ELSE 0]]
-----------------------------------------------------------------------------
(* The buffer *)

calcBlockHead(p) == (p \div BUFFER_SIZE) * BUFFER_SIZE
BlockTail(p) == calcBlockHead(p) + BUFFER_SIZE - 1
SetStatus(s) == [s EXCEPT !.status = s.fstatus]
\* The buffer's bytes from position p, n of them.
BufferBytes(s, p, n) == [i \in 1 .. n |-> s.buf[p - calcBlockHead(p) + i - 1]]
PutBuffer(s, p, bs) ==
    LET o == p - calcBlockHead(p)
    IN [s EXCEPT !.buf = [i \in DOMAIN @ |-> IF i \in o .. o + Len(bs) - 1 THEN bs[i - o + 1] ELSE @[i]]]
DirtyBytes(s) == BufferBytes(s, s.head, (s.tail - s.head + 1) % W)

\* Mutant: the file is not set back to where the buffer begins.
AlignedForgets(s) == s
Aligned(s) == IF s.head # s.fpos THEN fileSetPosition(s, s.head) ELSE s
flushed(s) ==
    IF ~s.dirty THEN s
    ELSE LET w == SetStatus(fileWrite(Aligned(s), DirtyBytes(s), fsMode = "WriteAppend"))
         IN [w EXCEPT !.eof = @ \/ w.status = "EOS", !.dirty = FALSE]

\* fillBuffer, where the stream's status is Ok: the rest of the block.
fillBuffer(s, start) ==
    LET p == IF start # s.fpos THEN fileSetPosition(s, start) ELSE s
        n == BUFFER_SIZE - (start - calcBlockHead(start))
        bs == FileBytes(p, n)
        r == SetStatus(PutBuffer(fileRead(p, n), start, bs))
    IN [r EXCEPT !.head = start, !.pos = start, !.tail = (start + Len(bs) - 1) % W, !.wrapped = @ \/ start + Len(bs) = 0]

OutcomeOf(s, bytes) == [s |-> s, bytes |-> bytes]
\* The part of a read that the buffer answers.
ReadBuffered(s, n) ==
    IF s.head = BUFFER_INVALID THEN OutcomeOf(s, <<>>)
    ELSE LET have == IF (s.tail + 1) % W >= s.pos THEN ((s.tail + 1) % W) - s.pos ELSE 0
             k == Min({have, n})
             r == [s EXCEPT !.pos = @ + k]
             f == flushed(r)
         IN OutcomeOf(IF ~(r.pos > r.tail /\ k < n) THEN r
                   ELSE [f EXCEPT !.head = BUFFER_INVALID, !.status = IF f.eof THEN "EOS" ELSE @],
                   BufferBytes(s, s.pos, k))
\* The part that the file answers, through the buffer when the rest lies in
\* one block.  A file that is at its end leaves the count it reports as it
\* was, unset.
ReadFile(s, n, junkCount) ==
    IF s.eof \/ n = 0 THEN OutcomeOf(s, <<>>)
    ELSE LET f == flushed(s)
             p == f.fpos
         IN IF p + n <= BlockTail(p)
            THEN LET b == fillBuffer(f, p)
                     k == Min({n, (b.tail - b.pos + 1) % W})
                 IN OutcomeOf([b EXCEPT !.pos = @ + k], BufferBytes(b, p, k))
            ELSE LET c == Cleared(f)
                     r == SetStatus(fileRead(c, n))
                     atEnd == junkCount /\ c.fstatus # "Ok"
                 IN OutcomeOf(IF atEnd THEN [r EXCEPT !.status = "Ok", !.eof = TRUE] ELSE r, FileBytes(c, n))
_read(n, junkCount) ==
    /\ "read" \in fs.caps
    /\ LET b == ReadBuffered(fs, n)
           d == ReadFile(b.s, n - Len(b.bytes), junkCount)
       IN IF fs.status = "Ok" THEN fs' = d.s /\ fsGot' = b.bytes \o d.bytes ELSE fs' = fs /\ fsGot' = <<>>
    /\ UNCHANGED fsMode

\* The file as the stream's user sees it: the disk, and over it what the
\* buffer holds and the disk does not have yet.
Seen(s) == IF s.dirty THEN fileWrite([s EXCEPT !.fpos = s.head, !.fstatus = "Ok"], DirtyBytes(s), fsMode = "WriteAppend").disk ELSE s.disk
getPosition(s) == IF s.head # BUFFER_INVALID THEN s.pos ELSE s.fpos

\* The part of a write that the buffer takes.
WriteBuffered(s, bs) ==
    IF s.head = BUFFER_INVALID THEN OutcomeOf(s, bs)
    ELSE LET room == IF s.pos > BlockTail(s.head) THEN 0 ELSE BlockTail(s.head) - s.pos + 1
             k == Min({room, Len(bs)})
             w == PutBuffer(s, s.pos, SubSeq(bs, 1, k))
         IN OutcomeOf(IF k = 0 THEN s ELSE [w EXCEPT !.pos = @ + k, !.tail = Max({@, s.pos + k - 1}), !.dirty = TRUE],
                   SubSeq(bs, k + 1, Len(bs)))
WriteFile(s, bs) ==
    IF bs = <<>> THEN s
    ELSE LET f == flushed(s)
             p == f.fpos
             b == [PutBuffer(f, p, bs) EXCEPT !.head = p, !.pos = p + Len(bs), !.tail = p + Len(bs) - 1, !.dirty = TRUE]
         IN IF p + Len(bs) <= BlockTail(p) THEN b ELSE SetStatus(fileWrite(Cleared(f), bs, fsMode = "WriteAppend"))
_write(bs) ==
    /\ "write" \in fs.caps /\ fs.status \in {"Ok", "EOS"} /\ fs.uses < MaxUses
    /\ Len(bs) + (IF fsMode = "WriteAppend" THEN Len(Seen(fs)) ELSE getPosition(fs)) <= MaxFile
    /\ LET b == WriteBuffered(fs, bs) IN fs' = [WriteFile(b.s, b.bytes) EXCEPT !.uses = @ + 1]
    /\ UNCHANGED <<fsMode, fsGot>>

getStreamSize(s) == IF s.dirty THEN Max({Len(s.disk), (s.tail + 1) % W}) ELSE Len(s.disk)
setPosition(p) ==
    /\ fs.caps # {}
    /\ fsMode = "WriteAppend" => p = getStreamSize(fs)
    /\ LET inside == fs.head # BUFFER_INVALID /\ p >= fs.head /\ p <= fs.tail
           o == SetStatus(fileSetPosition(Cleared(flushed(fs)), p))
       IN fs' = IF inside THEN [fs EXCEPT !.pos = p, !.status = IF p < fs.tail THEN "Ok" ELSE @]
                ELSE [o EXCEPT !.eof = @ \/ o.fstatus = "EOS"]
    /\ UNCHANGED <<fsMode, fsGot>>

\* The buffer stays valid behind a flush.  (A file that is appended to is
\* never flushed by its users: the next flush would append the buffer anew.)
flush ==
    /\ fs.caps # {} /\ fsMode # "WriteAppend" /\ fs' = flushed(fs)
    /\ UNCHANGED <<fsMode, fsGot>>
open(m) ==
    /\ fs.status = "Closed" /\ fs.uses < MaxUses
    /\ fs' = LET s == Cleared(fs) IN [s EXCEPT !.caps = Capabilities[m], !.status = "Ok", !.fstatus = "Ok", !.fpos = 0, !.uses = @ + 1,
                            !.disk = IF m \in {"Write", "ReadWrite"} THEN <<>> ELSE @]
    /\ fsMode' = m /\ fsGot' = <<>>
\* The file cannot be opened; closing the stream clears it.
openFails ==
    /\ fs.status = "Closed" /\ fs.uses < MaxUses
    /\ fs' = [Cleared(fs) EXCEPT !.status = "IOError", !.fstatus = "IOError", !.uses = @ + 1]
    /\ UNCHANGED <<fsMode, fsGot>>
close ==
    /\ fs.status # "Closed"
    /\ fs' = ClosedStream(flushed(fs).disk, fs.uses)
    /\ fsMode' = "" /\ UNCHANGED fsGot

StreamNext ==
    \/ \E m \in DOMAIN Capabilities : open(m)
    \/ openFails \/ flush \/ close
    \/ \E n \in 0 .. BUFFER_SIZE + 1, junkCount \in BOOLEAN : _read(n, junkCount)
    \/ \E bs \in Written : _write(bs)
    \/ \E p \in 0 .. MaxFile : setPosition(p)
StreamSpec == StreamInit /\ [][StreamNext]_fsVars
-----------------------------------------------------------------------------
(* Properties *)

Plain == INSTANCE PlainFile WITH content <- Seen(fs), at <- IF fsMode = "WriteAppend" THEN 0 ELSE getPosition(fs), mode <- fsMode,
                                 ready <- fs.status = "Ok", got <- fsGot
\* Whatever is read, written, sought and flushed, and wherever that meets
\* the ends of blocks and of the file, the stream does what a plain file
\* does at its position (FileStream::_read, _write, setPosition, flush); a
\* buffer that was filled from an empty file excepted, whose tail wraps.
StreamIsPlainFile ==
    [][ UNCHANGED fsVars \/ fs'.wrapped \/ Plain!PlainNext(DOMAIN Capabilities, 0 .. MaxFile, 0 .. BUFFER_SIZE + 1, Written) \/ UNCHANGED Plain!plainVars ]_fsVars
=============================================================================
