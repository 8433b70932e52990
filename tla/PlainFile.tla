----------------------------- MODULE PlainFile -----------------------------
(***************************************************************************)
(* What a file stream promises: the bytes of a file, a position in them,   *)
(* and reads and writes that happen there at once.                         *)
(***************************************************************************)
EXTENDS Integers, Sequences

VARIABLES content,    \* the file's bytes
          at,         \* the position, from 0
          mode,       \* how the file is open, "" when it is not
          ready,      \* the stream's status allows a read
          got         \* what the last read stored

plainVars == <<content, at, mode, ready, got>>

PlainInit == /\ content \in Seq(Nat) /\ at = 0 /\ mode = "" /\ ready = FALSE /\ got = <<>>

\* The bytes bs written at p; a gap behind the end is filled with zeros.
Overwritten(c, p, bs) ==
    LET n == IF p + Len(bs) > Len(c) THEN p + Len(bs) ELSE Len(c)
    IN [i \in 1 .. n |-> IF i \in p + 1 .. p + Len(bs) THEN bs[i - p] ELSE IF i <= Len(c) THEN c[i] ELSE 0]

Open(m) ==
    /\ mode = "" /\ mode' = m /\ at' = 0 /\ ready' = TRUE /\ got' = <<>>
    /\ content' = IF m \in {"Write", "ReadWrite"} THEN <<>> ELSE content
\* A read stores what there is of what was asked for.
Read(n) ==
    /\ mode \in {"Read", "ReadWrite"}
    /\ LET rest == IF at < Len(content) THEN Len(content) - at ELSE 0
           k == IF ~ready THEN 0 ELSE IF n <= rest THEN n ELSE rest
       IN got' = SubSeq(content, at + 1, at + k) /\ at' = at + k
    /\ ready' \in {ready, FALSE} /\ UNCHANGED <<content, mode>>
Write(bs) ==
    /\ mode \in {"Write", "ReadWrite", "WriteAppend"}
    /\ content' = IF mode = "WriteAppend" THEN content \o bs ELSE Overwritten(content, at, bs)
    /\ at' = IF mode = "WriteAppend" THEN at ELSE at + Len(bs)
    /\ ready' \in BOOLEAN /\ UNCHANGED <<mode, got>>
Seek(p) == /\ mode # "" /\ at' = p /\ ready' \in BOOLEAN /\ UNCHANGED <<content, mode, got>>
Flush == /\ mode # "" /\ ready' \in BOOLEAN /\ UNCHANGED <<content, at, mode, got>>
Close == /\ mode' = "" /\ at' = 0 /\ ready' = FALSE /\ UNCHANGED <<content, got>>

PlainNext(modes, places, counts, texts) ==
    \/ \E m \in modes : Open(m)
    \/ \E n \in counts : Read(n)
    \/ \E bs \in texts : Write(bs)
    \/ \E p \in places : Seek(p)
    \/ Flush
    \/ Close
=============================================================================
