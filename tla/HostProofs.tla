----------------------------- MODULE HostProofs -----------------------------
(***************************************************************************)
(* Proofs about what runs around the scripts: the event queue, executed    *)
(* files and the sockets of the telnet console.                            *)
(*                                                                         *)
(* The event queue, for any objects, threads, delays, modulus and bounds:  *)
(* the list stays sorted, is never overtaken by the clock and never points *)
(* to freed memory, and the queue implements EventPromise.                 *)
(***************************************************************************)
EXTENDS EventQueue, Console, Sockets, Selection, TLAPS

\* What the clock and the sequence numbers need besides: while advanceToTime
\* runs the clock has not passed its target, and the next id is a fresh one.
ClockBelowTarget == advancing => gCurrentTime <= gTargetTime
IdsFresh == \A i \in DOMAIN gEventQueue : gEventQueue[i].sequenceCount < gEventSequence

EQInv == EQTypeOK /\ QueueOrdered /\ IdsFresh /\ NoEventPassed /\ NoEventForFreed
         /\ ClockBelowTarget

-----------------------------------------------------------------------------
(* Sequences.                                                              *)

\* What an insertion does to the positions.
LEMMA InsertAtPositions ==
  ASSUME NEW S, NEW s \in Seq(S), NEW e \in S, NEW p \in 1 .. (Len(s) + 1)
  PROVE  /\ InsertAt(s, p, e) \in Seq(S)
         /\ Len(InsertAt(s, p, e)) = Len(s) + 1
         /\ InsertAt(s, p, e)[p] = e
         /\ \A k \in 1 .. (p - 1) : InsertAt(s, p, e)[k] = s[k]
         /\ \A k \in (p + 1) .. (Len(s) + 1) : InsertAt(s, p, e)[k] = s[k - 1]
<1> DEFINE before == SubSeq(s, 1, p - 1)
           after == SubSeq(s, p, Len(s))
           front == before \o <<e>>
<1>1. before \in Seq(S) /\ Len(before) = p - 1 /\ \A k \in 1 .. (p - 1) : before[k] = s[k]
  OBVIOUS
<1>2. /\ after \in Seq(S) /\ Len(after) = Len(s) - p + 1
      /\ \A k \in 1 .. (Len(s) - p + 1) : after[k] = s[p + k - 1]
  OBVIOUS
<1> HIDE DEF before, after
<1>3. /\ front \in Seq(S) /\ Len(front) = p /\ front[p] = e
      /\ \A k \in 1 .. (p - 1) : front[k] = s[k]
  BY <1>1
<1> HIDE DEF front
<1>4. InsertAt(s, p, e) = front \o after
  BY DEF InsertAt, front, before, after
<1> QED
  BY <1>2, <1>3, <1>4

\* What a removal does to the positions.
LEMMA RemoveAtPositions ==
  ASSUME NEW S, NEW s \in Seq(S), NEW p \in 1 .. Len(s)
  PROVE  /\ RemoveAt(s, p) \in Seq(S)
         /\ Len(RemoveAt(s, p)) = Len(s) - 1
         /\ \A k \in 1 .. (p - 1) : RemoveAt(s, p)[k] = s[k]
         /\ \A k \in p .. (Len(s) - 1) : RemoveAt(s, p)[k] = s[k + 1]
<1> DEFINE before == SubSeq(s, 1, p - 1)
           after == SubSeq(s, p + 1, Len(s))
<1>1. before \in Seq(S) /\ Len(before) = p - 1 /\ \A k \in 1 .. (p - 1) : before[k] = s[k]
  OBVIOUS
<1>2. /\ after \in Seq(S) /\ Len(after) = Len(s) - p
      /\ \A k \in 1 .. (Len(s) - p) : after[k] = s[p + k]
  OBVIOUS
<1> HIDE DEF before, after
<1>3. RemoveAt(s, p) = before \o after
  BY DEF RemoveAt, before, after
<1>4. before \o after \in Seq(S) /\ Len(before \o after) = Len(s) - 1
  BY <1>1, <1>2
<1>5. \A k \in 1 .. (p - 1) : (before \o after)[k] = s[k]
  BY <1>1, <1>2
<1>6. \A k \in p .. (Len(s) - 1) : (before \o after)[k] = after[k - p + 1]
  BY <1>1, <1>2
<1>7. ASSUME NEW k \in p .. (Len(s) - 1) PROVE (before \o after)[k] = s[k + 1]
  <2>1. k - p + 1 \in 1 .. (Len(s) - p) /\ p + (k - p + 1) = k + 1
    OBVIOUS
  <2> QED
    BY <1>2, <1>6, <2>1
<1> QED
  BY <1>3, <1>4, <1>5, <1>7

-----------------------------------------------------------------------------
(* One post and one removal.                                               *)

QueueInv == /\ gEventQueue \in Seq(Event) /\ gEventSequence \in Nat
            /\ QueueOrdered /\ IdsFresh /\ NoEventPassed /\ NoEventForFreed

\* The time an event is queued under is a natural number.
LEMMA PostedTimeNat ==
  ASSUME NEW time \in Int, gCurrentTime \in Nat
  PROVE  PostedTime(time) \in Nat
  BY EventQueueAssumption DEF EventQueueAssumption, PostedTime

\* The fields of a queued event.
LEMMA EventFields ==
  ASSUME NEW queue \in Seq(Event), NEW i \in DOMAIN queue
  PROVE  /\ queue[i] \in Event
         /\ queue[i].time \in Nat /\ queue[i].startTime \in Nat
         /\ queue[i].sequenceCount \in Nat /\ queue[i].destObject \in Dests
<1>1. queue[i] \in Event
  OBVIOUS
<1> QED
  BY <1>1 DEF Event

\* The event of a post goes behind everything due no later and before
\* everything due later.
LEMMA InsertPosSplits ==
  ASSUME gEventQueue \in Seq(Event), QueueOrdered, NEW time \in Nat,
         NEW p \in 1 .. (Len(gEventQueue) + 1), IsInsertPos(p, time)
  PROVE  /\ \A i \in 1 .. (p - 1) : gEventQueue[i].time <= time
         /\ \A i \in p .. Len(gEventQueue) : gEventQueue[i].time > time
<1>1. \A i \in DOMAIN gEventQueue : gEventQueue[i].time \in Nat
  BY EventFields
<1>2. PICK first \in 1 .. (Len(gEventQueue) + 1) :
        /\ \A i \in 1 .. (first - 1) : gEventQueue[i].time < time
        /\ first <= Len(gEventQueue) => gEventQueue[first].time >= time
        /\ first <= p
        /\ \A i \in first .. (p - 1) : gEventQueue[i].time = time
        /\ p <= Len(gEventQueue) => gEventQueue[p].time # time
  BY DEF IsInsertPos
<1>3. \A i \in 1 .. (p - 1) : gEventQueue[i].time <= time
  BY <1>1, <1>2
<1>4. \A i, j \in DOMAIN gEventQueue : i < j => gEventQueue[i].time <= gEventQueue[j].time
  BY <1>1 DEF QueueOrdered
<1>5. p <= Len(gEventQueue) => gEventQueue[p].time > time
  BY <1>1, <1>2, <1>4
<1>6. \A i \in p .. Len(gEventQueue) : gEventQueue[i].time > time
  BY <1>1, <1>4, <1>5, SMTT(30)
<1> QED
  BY <1>3, <1>6

\* A post keeps the queue's invariant, if its destination has not been freed.
LEMMA PostKeepsQueue ==
  ASSUME QueueInv, gCurrentTime \in Nat, NEW dest \in Dests, NEW time \in Int,
         postEvent(dest, time), dest \in Objects => life[dest] # "freed",
         UNCHANGED <<gCurrentTime, life>>
  PROVE  QueueInv'
<1> DEFINE e == [time |-> PostedTime(time), startTime |-> gCurrentTime,
                 sequenceCount |-> gEventSequence, destObject |-> dest]
<1>1. gEventQueue \in Seq(Event) /\ gEventSequence \in Nat
      /\ QueueOrdered /\ IdsFresh /\ NoEventPassed /\ NoEventForFreed
  BY DEF QueueInv
<1>2. PostedTime(time) \in Nat
  BY PostedTimeNat
<1>3. e \in Event /\ e.time = PostedTime(time) /\ e.startTime = gCurrentTime
      /\ e.sequenceCount = gEventSequence /\ e.destObject = dest
  BY <1>1, <1>2 DEF Event
<1>4. PICK p \in 1 .. (Len(gEventQueue) + 1) :
        IsInsertPos(p, PostedTime(time)) /\ gEventQueue' = InsertAt(gEventQueue, p, e)
  BY DEF postEvent
<1> HIDE DEF e
<1>5. /\ gEventQueue' \in Seq(Event) /\ Len(gEventQueue') = Len(gEventQueue) + 1
      /\ gEventQueue'[p] = e
      /\ \A k \in 1 .. (p - 1) : gEventQueue'[k] = gEventQueue[k]
      /\ \A k \in (p + 1) .. (Len(gEventQueue) + 1) : gEventQueue'[k] = gEventQueue[k - 1]
  <2> DEFINE q == InsertAt(gEventQueue, p, e)
  <2>1. /\ q \in Seq(Event) /\ Len(q) = Len(gEventQueue) + 1 /\ q[p] = e
        /\ \A k \in 1 .. (p - 1) : q[k] = gEventQueue[k]
        /\ \A k \in (p + 1) .. (Len(gEventQueue) + 1) : q[k] = gEventQueue[k - 1]
    <3>1. gEventQueue \in Seq(Event) /\ e \in Event
      BY <1>1, <1>3
    <3> QED
      BY <3>1, InsertAtPositions
  <2>2. gEventQueue' = q
    BY <1>4
  <2> HIDE DEF q
  <2> QED
    BY <2>1, <2>2
<1>6. gEventSequence' = gEventSequence + 1
  BY DEF postEvent
<1>7. /\ \A i \in 1 .. (p - 1) : gEventQueue[i].time <= e.time
      /\ \A i \in p .. Len(gEventQueue) : gEventQueue[i].time > e.time
  BY <1>1, <1>2, <1>3, <1>4, InsertPosSplits
<1>8. DOMAIN gEventQueue = 1 .. Len(gEventQueue)
      /\ DOMAIN gEventQueue' = 1 .. (Len(gEventQueue) + 1)
  BY <1>1, <1>5
<1>9. \A i \in 1 .. Len(gEventQueue) :
        /\ gEventQueue[i].time \in Nat /\ gEventQueue[i].startTime \in Nat
        /\ gEventQueue[i].sequenceCount \in Nat
        /\ gEventQueue[i].sequenceCount < gEventSequence
  BY <1>1, <1>8, EventFields DEF IdsFresh
<1>10. QueueOrdered'
  <2> SUFFICES ASSUME NEW i \in 1 .. (Len(gEventQueue) + 1),
                      NEW j \in 1 .. (Len(gEventQueue) + 1), i < j
               PROVE  \/ gEventQueue'[i].time < gEventQueue'[j].time
                      \/ /\ gEventQueue'[i].time = gEventQueue'[j].time
                         /\ gEventQueue'[i].sequenceCount < gEventQueue'[j].sequenceCount
    BY <1>8 DEF QueueOrdered
  <2>1. CASE j < p
    BY <1>1, <1>5, <1>8, <2>1 DEF QueueOrdered
  <2>2. CASE i < p /\ j = p
    <3>1. i \in 1 .. (p - 1) /\ i \in 1 .. Len(gEventQueue)
      BY <2>2
    <3>2. gEventQueue'[i] = gEventQueue[i] /\ gEventQueue'[j] = e
      BY <1>5, <2>2, <3>1
    <3>3. gEventQueue[i].time <= e.time /\ gEventQueue[i].time \in Nat /\ e.time \in Nat
          /\ gEventQueue[i].sequenceCount < e.sequenceCount
      BY <1>2, <1>3, <1>7, <1>9, <3>1
    <3> QED
      BY <3>2, <3>3
  <2>3. CASE i = p
    <3>1. j \in (p + 1) .. (Len(gEventQueue) + 1) /\ j - 1 \in p .. Len(gEventQueue)
      BY <2>3
    <3>2. gEventQueue'[j] = gEventQueue[j - 1] /\ gEventQueue'[i] = e
      BY <1>5, <2>3, <3>1
    <3>3. gEventQueue[j - 1].time > e.time
      BY <1>7, <3>1
    <3> QED
      BY <3>2, <3>3
  <2>4. CASE i > p
    <3>1. /\ i \in (p + 1) .. (Len(gEventQueue) + 1) /\ j \in (p + 1) .. (Len(gEventQueue) + 1)
          /\ i - 1 \in DOMAIN gEventQueue /\ j - 1 \in DOMAIN gEventQueue /\ i - 1 < j - 1
      BY <1>8, <2>4
    <3>2. gEventQueue'[i] = gEventQueue[i - 1] /\ gEventQueue'[j] = gEventQueue[j - 1]
      BY <1>5, <3>1
    <3> QED
      BY <1>1, <3>1, <3>2 DEF QueueOrdered
  <2>5. CASE i < p /\ j > p
    <3>1. /\ i \in 1 .. (p - 1) /\ j \in (p + 1) .. (Len(gEventQueue) + 1)
          /\ i \in DOMAIN gEventQueue /\ j - 1 \in DOMAIN gEventQueue /\ i < j - 1
      BY <1>8, <2>5
    <3>2. gEventQueue'[i] = gEventQueue[i] /\ gEventQueue'[j] = gEventQueue[j - 1]
      BY <1>5, <3>1
    <3> QED
      BY <1>1, <3>1, <3>2 DEF QueueOrdered
  <2> QED
    BY <2>1, <2>2, <2>3, <2>4, <2>5
\* Each event of the new queue is the new one or one of the old queue.
<1>11. ASSUME NEW k \in 1 .. (Len(gEventQueue) + 1)
       PROVE  gEventQueue'[k] = e \/ \E i \in DOMAIN gEventQueue : gEventQueue'[k] = gEventQueue[i]
  <2>1. CASE k < p
    BY <1>5, <1>8, <2>1
  <2>2. CASE k = p
    BY <1>5, <2>2
  <2>3. CASE k > p
    <3>1. k \in (p + 1) .. (Len(gEventQueue) + 1) /\ k - 1 \in DOMAIN gEventQueue
      BY <1>8, <2>3
    <3> QED
      BY <1>5, <3>1
  <2> QED
    BY <2>1, <2>2, <2>3
<1>12. IdsFresh'
  <2> SUFFICES ASSUME NEW k \in 1 .. (Len(gEventQueue) + 1)
               PROVE  gEventQueue'[k].sequenceCount < gEventSequence + 1
    BY <1>6, <1>8 DEF IdsFresh
  <2>1. CASE gEventQueue'[k] = e
    BY <1>1, <1>3, <2>1
  <2>2. CASE \E i \in DOMAIN gEventQueue : gEventQueue'[k] = gEventQueue[i]
    BY <1>1, <1>8, <1>9, <2>2
  <2> QED
    BY <1>11, <2>1, <2>2
<1>13. NoEventPassed'
  BY <1>1, <1>2, <1>3, <1>8, <1>11 DEF NoEventPassed, PostedLate
<1>14. NoEventForFreed'
  BY <1>1, <1>3, <1>8, <1>11 DEF NoEventForFreed
<1> QED
  BY <1>1, <1>5, <1>6, <1>10, <1>12, <1>13, <1>14 DEF QueueInv

\* A removal keeps the queue's invariant.
LEMMA RemoveKeepsQueue ==
  ASSUME QueueInv, NEW p \in 1 .. Len(gEventQueue), gEventQueue' = RemoveAt(gEventQueue, p),
         UNCHANGED <<gEventSequence, gCurrentTime, life>>
  PROVE  QueueInv'
<1>1. gEventQueue \in Seq(Event) /\ gEventSequence \in Nat
      /\ QueueOrdered /\ IdsFresh /\ NoEventPassed /\ NoEventForFreed
  BY DEF QueueInv
<1>2. /\ gEventQueue' \in Seq(Event) /\ Len(gEventQueue') = Len(gEventQueue) - 1
      /\ \A k \in 1 .. (p - 1) : gEventQueue'[k] = gEventQueue[k]
      /\ \A k \in p .. (Len(gEventQueue) - 1) : gEventQueue'[k] = gEventQueue[k + 1]
  BY <1>1, RemoveAtPositions
<1>3. DOMAIN gEventQueue = 1 .. Len(gEventQueue)
      /\ DOMAIN gEventQueue' = 1 .. (Len(gEventQueue) - 1)
  BY <1>1, <1>2
\* The old position of each event, in the same order.
<1> DEFINE Old(k) == IF k < p THEN k ELSE k + 1
<1>4. \A k \in DOMAIN gEventQueue' :
        Old(k) \in DOMAIN gEventQueue /\ gEventQueue'[k] = gEventQueue[Old(k)]
  BY <1>2, <1>3
<1>5. \A i, j \in DOMAIN gEventQueue' : i < j => Old(i) < Old(j)
  BY <1>3
<1> HIDE DEF Old
<1>6. QueueOrdered'
  BY <1>1, <1>4, <1>5 DEF QueueOrdered
<1>7. IdsFresh' /\ NoEventPassed' /\ NoEventForFreed'
  BY <1>1, <1>4 DEF IdsFresh, NoEventPassed, NoEventForFreed, PostedLate
<1> QED
  BY <1>1, <1>2, <1>6, <1>7 DEF QueueInv

\* Dispatching the head moves the clock to it, which passes no event.
LEMMA DispatchKeepsQueue ==
  ASSUME QueueInv, gEventQueue # <<>>, gEventQueue' = Tail(gEventQueue),
         gCurrentTime' = gEventQueue[1].time, UNCHANGED <<gEventSequence, life>>
  PROVE  QueueInv'
<1>1. gEventQueue \in Seq(Event) /\ gEventSequence \in Nat
      /\ QueueOrdered /\ IdsFresh /\ NoEventPassed /\ NoEventForFreed
  BY DEF QueueInv
<1>2. /\ gEventQueue' \in Seq(Event) /\ Len(gEventQueue') = Len(gEventQueue) - 1
      /\ \A k \in 1 .. (Len(gEventQueue) - 1) : gEventQueue'[k] = gEventQueue[k + 1]
  BY <1>1
<1>3. DOMAIN gEventQueue = 1 .. Len(gEventQueue) /\ Len(gEventQueue) > 0
      /\ DOMAIN gEventQueue' = 1 .. (Len(gEventQueue) - 1)
  BY <1>1, <1>2
<1>4. \A k \in DOMAIN gEventQueue' :
        k + 1 \in DOMAIN gEventQueue /\ gEventQueue'[k] = gEventQueue[k + 1]
  BY <1>2, <1>3
<1>5. QueueOrdered'
  BY <1>1, <1>3, <1>4 DEF QueueOrdered
<1>6. IdsFresh' /\ NoEventForFreed'
  BY <1>1, <1>4 DEF IdsFresh, NoEventForFreed
<1>7. NoEventPassed'
  <2> SUFFICES ASSUME NEW k \in DOMAIN gEventQueue'
               PROVE  gEventQueue[k + 1].time >= gEventQueue[1].time
    BY <1>4 DEF NoEventPassed
  <2>1. 1 \in DOMAIN gEventQueue /\ k + 1 \in DOMAIN gEventQueue /\ 1 < k + 1
    BY <1>3, <1>4
  <2>2. gEventQueue[1].time \in Nat /\ gEventQueue[k + 1].time \in Nat
    BY <1>1, <2>1, EventFields
  <2> QED
    BY <1>1, <2>1, <2>2 DEF QueueOrdered
<1> QED
  BY <1>1, <1>2, <1>5, <1>6, <1>7 DEF QueueInv

\* When nothing is due any more, the clock may move to the target.
LEMMA ReturnKeepsQueue ==
  ASSUME QueueInv, ~HeadDue, gTargetTime \in Nat, gCurrentTime' = gTargetTime,
         UNCHANGED <<gEventQueue, gEventSequence, life>>
  PROVE  QueueInv'
<1>1. gEventQueue \in Seq(Event) /\ gEventSequence \in Nat
      /\ QueueOrdered /\ IdsFresh /\ NoEventPassed /\ NoEventForFreed
  BY DEF QueueInv
<1>2. ASSUME NEW i \in DOMAIN gEventQueue PROVE gEventQueue[i].time >= gTargetTime
  <2>1. DOMAIN gEventQueue = 1 .. Len(gEventQueue) /\ 1 \in DOMAIN gEventQueue
        /\ gEventQueue # <<>> /\ i \in Nat /\ 1 <= i
    BY <1>1
  <2>2. gEventQueue[1].time \in Nat /\ gEventQueue[i].time \in Nat
    BY <1>1, <2>1, EventFields
  <2>3. gEventQueue[1].time > gTargetTime
    BY <2>1, <2>2 DEF HeadDue
  <2>4. gEventQueue[1].time <= gEventQueue[i].time
    BY <1>1, <2>1, <2>2 DEF QueueOrdered
  <2> QED
    BY <2>2, <2>3, <2>4
<1>3. NoEventPassed'
  BY <1>2 DEF NoEventPassed
<1>4. QueueOrdered' /\ IdsFresh' /\ NoEventForFreed'
  BY <1>1 DEF QueueOrdered, IdsFresh, NoEventForFreed
<1> QED
  BY <1>1, <1>3, <1>4 DEF QueueInv

\* Nothing of the queue's concern changes.
LEMMA QuietKeepsQueue ==
  ASSUME QueueInv, UNCHANGED <<gEventQueue, gEventSequence, gCurrentTime>>,
         \A i \in DOMAIN gEventQueue : gEventQueue[i].destObject \in Objects =>
           life'[gEventQueue[i].destObject] # "freed"
  PROVE  QueueInv'
  BY DEF QueueInv, QueueOrdered, IdsFresh, NoEventPassed, NoEventForFreed, PostedLate

-----------------------------------------------------------------------------
(* The invariant.                                                          *)

\* The queue starts empty.
LEMMA EQInvInit == EQInit => EQInv
<1> SUFFICES ASSUME EQInit PROVE EQInv
  OBVIOUS
<1>1. gCurrentTime \in Nat /\ gTargetTime \in Nat /\ gEventSequence \in Nat
      /\ gEventQueue \in Seq(Event) /\ deleting \in Seq(Objects)
  BY DEF EQInit
<1>2. advancing \in BOOLEAN /\ cancelling \in BOOLEAN /\ processing \in Event \cup {NoEvent}
  BY Zenon DEF EQInit
<1>3. life \in [Objects -> {"added", "deleting", "freed"}]
  BY DEF EQInit
<1>4. readTime \in [Workers -> Nat \cup {NoTime}]
  BY DEF EQInit
<1>5. QueueOrdered /\ IdsFresh /\ NoEventPassed /\ NoEventForFreed /\ ClockBelowTarget
  BY DEF EQInit, QueueOrdered, IdsFresh, NoEventPassed, NoEventForFreed, ClockBelowTarget
<1> QED
  BY <1>1, <1>2, <1>3, <1>4, <1>5 DEF EQInv, EQTypeOK

\* The types of what is not the queue's, which a step that keeps the queue's
\* invariant also keeps.
RestTypeOK ==
  /\ gCurrentTime \in Nat /\ gTargetTime \in Nat
  /\ advancing \in BOOLEAN /\ processing \in Event \cup {NoEvent}
  /\ life \in [Objects -> {"added", "deleting", "freed"}]
  /\ deleting \in Seq(Objects) /\ cancelling \in BOOLEAN
  /\ readTime \in [Workers -> Nat \cup {NoTime}]

\* EQInv, its conjuncts sorted by what disturbs them.
StepInv == RestTypeOK /\ QueueInv /\ ClockBelowTarget

\* A post by anybody who leaves the clock, the objects and the loop alone.
LEMMA PostStep ==
  ASSUME StepInv, NEW dest \in Dests, NEW time \in Int, postEvent(dest, time),
         dest \in Objects => life[dest] # "freed", UNCHANGED <<clockVars, lifeVars>>,
         readTime' \in [Workers -> Nat \cup {NoTime}]
  PROVE  StepInv'
<1>1. QueueInv'
  BY PostKeepsQueue DEF StepInv, RestTypeOK, clockVars, lifeVars
<1>2. RestTypeOK'
  BY Zenon DEF StepInv, RestTypeOK, clockVars, lifeVars
<1>3. ClockBelowTarget'
  BY DEF StepInv, ClockBelowTarget, clockVars
<1> QED
  BY <1>1, <1>2, <1>3 DEF StepInv

\* A removal that leaves everything else alone.
LEMMA RemoveStep ==
  ASSUME StepInv, NEW matches, matches \subseteq DOMAIN gEventQueue, RemoveFirstEvent(matches),
         UNCHANGED <<gEventSequence, clockVars, lifeVars, readTime>>
  PROVE  StepInv'
<1>1. PICK p \in matches : gEventQueue' = RemoveAt(gEventQueue, p)
  BY Zenon DEF RemoveFirstEvent
<1>2. p \in 1 .. Len(gEventQueue)
  BY DEF StepInv, QueueInv
<1>3. QueueInv'
  BY <1>1, <1>2, RemoveKeepsQueue DEF StepInv, clockVars, lifeVars
<1>4. RestTypeOK'
  BY Zenon DEF StepInv, RestTypeOK, clockVars, lifeVars
<1>5. ClockBelowTarget'
  BY DEF StepInv, ClockBelowTarget, clockVars
<1> QED
  BY <1>3, <1>4, <1>5 DEF StepInv

\* Every step keeps the invariant.
LEMMA EQInvStep == EQInv /\ [EQNext]_eqVars => EQInv'
<1> SUFFICES ASSUME StepInv, [EQNext]_eqVars PROVE StepInv'
  BY DEF EQInv, StepInv, QueueInv, EQTypeOK, RestTypeOK
<1>0. /\ gCurrentTime \in Nat /\ gTargetTime \in Nat /\ gEventQueue \in Seq(Event)
      /\ readTime \in [Workers -> Nat \cup {NoTime}]
      /\ life \in [Objects -> {"added", "deleting", "freed"}]
      /\ deleting \in Seq(Objects)
  BY DEF StepInv, RestTypeOK, QueueInv
<1>1. ASSUME NEW delta \in Delays, schedule(delta) PROVE StepInv'
  <2>1. gCurrentTime + AtLeastOne(delta) \in Int
    BY <1>0, EventQueueAssumption DEF AtLeastOne, EventQueueAssumption
  <2>2. Root \in Dests /\ Root \notin Objects
    BY EventQueueAssumption DEF Dests, EventQueueAssumption
  <2> QED
    BY <1>0, <1>1, <2>1, <2>2, PostStep DEF schedule
<1>2. ASSUME NEW object \in Objects, NEW delta \in ObjectDeltas, objectSchedule(object, delta)
      PROVE  StepInv'
  <2>1. gCurrentTime + AtLeastOne(delta) \in Int
    BY <1>0, EventQueueAssumption DEF AtLeastOne, EventQueueAssumption
  <2>2. object \in Dests
    BY DEF Dests
  <2> QED
    BY <1>0, <1>2, <2>1, <2>2, PostStep DEF objectSchedule
<1>3. ASSUME NEW w \in Workers, getTargetTime(w) PROVE StepInv'
  <2>1. readTime' \in [Workers -> Nat \cup {NoTime}]
    BY <1>0, <1>3 DEF getTargetTime
  <2>2. QueueInv'
    BY <1>3, QuietKeepsQueue
       DEF StepInv, QueueInv, NoEventForFreed, getTargetTime, queueVars, clockVars, lifeVars
  <2>3. RestTypeOK'
    BY <1>3, <2>1, Zenon DEF StepInv, RestTypeOK, getTargetTime, clockVars, lifeVars
  <2> QED
    BY <1>3, <2>2, <2>3 DEF StepInv, ClockBelowTarget, getTargetTime, clockVars
<1>4. ASSUME NEW w \in Workers, printfPosts(w) PROVE StepInv'
  <2>1. readTime[w] \in Int
    BY <1>0, <1>4 DEF printfPosts
  <2>2. readTime' \in [Workers -> Nat \cup {NoTime}]
    BY <1>0, <1>4 DEF printfPosts
  <2>3. Root \in Dests /\ Root \notin Objects
    BY EventQueueAssumption DEF Dests, EventQueueAssumption
  <2> QED
    BY <1>4, <2>1, <2>2, <2>3, PostStep DEF printfPosts
<1>5. ASSUME NEW sequence \in 1 .. MaxEvents, cancelEvent(sequence) PROVE StepInv'
  <2> DEFINE matches == {i \in DOMAIN gEventQueue : gEventQueue[i].sequenceCount = sequence}
  <2>1. RemoveFirstEvent(matches)
        /\ UNCHANGED <<gEventSequence, clockVars, lifeVars, readTime>>
    BY <1>5 DEF cancelEvent
  <2>2. matches \subseteq DOMAIN gEventQueue
    OBVIOUS
  <2> HIDE DEF matches
  <2> QED
    BY <2>1, <2>2, RemoveStep
<1>6. ASSUME NEW object \in Objects, deleteObject(object) PROVE StepInv'
  <2>1. life' \in [Objects -> {"added", "deleting", "freed"}] /\ deleting' \in Seq(Objects)
    BY <1>0, <1>6 DEF deleteObject
  <2>2. \A i \in DOMAIN gEventQueue : gEventQueue[i].destObject \in Objects =>
          life'[gEventQueue[i].destObject] # "freed"
    BY <1>0, <1>6 DEF deleteObject, StepInv, QueueInv, NoEventForFreed
  <2>3. QueueInv'
    BY <1>6, <2>2, QuietKeepsQueue DEF StepInv, deleteObject, queueVars, clockVars
  <2>4. RestTypeOK'
    BY <1>6, <2>1, Zenon DEF StepInv, RestTypeOK, deleteObject, clockVars
  <2> QED
    BY <1>6, <2>3, <2>4 DEF StepInv, ClockBelowTarget, deleteObject, clockVars
<1>7. CASE unregisterObject
  <2>1. QueueInv'
    BY <1>7, QuietKeepsQueue
       DEF StepInv, QueueInv, NoEventForFreed, unregisterObject, queueVars, clockVars
  <2>2. RestTypeOK'
    BY <1>7, Zenon DEF StepInv, RestTypeOK, unregisterObject, clockVars
  <2> QED
    BY <1>7, <2>1, <2>2 DEF StepInv, ClockBelowTarget, unregisterObject, clockVars
<1>8. CASE cancelPendingEvents
  <2> DEFINE matches == {i \in DOMAIN gEventQueue :
                           gEventQueue[i].destObject = deleting[Len(deleting)]}
  <2>1. RemoveFirstEvent(matches)
        /\ UNCHANGED <<gEventSequence, clockVars, lifeVars, readTime>>
    BY <1>8 DEF cancelPendingEvents
  <2>2. matches \subseteq DOMAIN gEventQueue
    OBVIOUS
  <2> HIDE DEF matches
  <2> QED
    BY <2>1, <2>2, RemoveStep
<1>9. CASE deleteThis
  <2>1. life' \in [Objects -> {"added", "deleting", "freed"}] /\ deleting' \in Seq(Objects)
    <3>1. life' \in [Objects -> {"added", "deleting", "freed"}]
      BY <1>0, <1>9 DEF deleteThis
    <3>2. deleting' = SubSeq(deleting, 1, Len(deleting) - 1)
      BY <1>9 DEF deleteThis
    <3>3. Len(deleting) \in Nat /\ \A i \in 1 .. Len(deleting) : deleting[i] \in Objects
      BY <1>0
    <3>4. SubSeq(deleting, 1, Len(deleting) - 1) \in Seq(Objects)
      BY <1>0, <3>3
    <3> QED
      BY <3>1, <3>2, <3>4
  <2>2. \A i \in DOMAIN gEventQueue : gEventQueue[i].destObject \in Objects =>
          life'[gEventQueue[i].destObject] # "freed"
    BY <1>0, <1>9 DEF deleteThis, StepInv, QueueInv, NoEventForFreed
  <2>3. QueueInv'
    BY <1>9, <2>2, QuietKeepsQueue DEF StepInv, deleteThis, queueVars, clockVars
  <2>4. RestTypeOK'
    BY <1>9, <2>1, Zenon DEF StepInv, RestTypeOK, deleteThis, clockVars
  <2> QED
    BY <1>9, <2>3, <2>4 DEF StepInv, ClockBelowTarget, deleteThis, clockVars
<1>10. ASSUME NEW time \in 0 .. MaxTime, advanceToTime(time) PROVE StepInv'
  <2>1. time \in Nat
    BY EventQueueAssumption DEF EventQueueAssumption
  <2>2. QueueInv'
    BY <1>10, QuietKeepsQueue
       DEF StepInv, QueueInv, NoEventForFreed, advanceToTime, queueVars, lifeVars
  <2>3. RestTypeOK'
    BY <1>10, <2>1, Zenon DEF StepInv, RestTypeOK, advanceToTime, lifeVars
  <2>4. ClockBelowTarget'
    BY <1>0, <1>10, <2>1 DEF ClockBelowTarget, advanceToTime
  <2> QED
    BY <2>2, <2>3, <2>4 DEF StepInv
<1>11. CASE DispatchEvent
  <2>1. gEventQueue # <<>> /\ gEventQueue[1].time <= gTargetTime
    BY <1>11 DEF DispatchEvent, HeadDue
  <2>2. 1 \in DOMAIN gEventQueue
    BY <1>0, <2>1
  <2>3. gEventQueue[1] \in Event /\ gEventQueue[1].time \in Nat
    BY <1>0, <2>2, EventFields
  <2>4. QueueInv'
    BY <1>11, <2>1, DispatchKeepsQueue DEF StepInv, DispatchEvent, lifeVars
  <2>5. processing' \in Event \cup {NoEvent}
    BY <1>11, <2>3, Zenon DEF DispatchEvent
  <2>6. RestTypeOK'
    BY <1>11, <2>3, <2>5, Zenon DEF StepInv, RestTypeOK, DispatchEvent, lifeVars
  <2>7. ClockBelowTarget'
    BY <1>11, <2>1 DEF ClockBelowTarget, DispatchEvent
  <2> QED
    BY <2>4, <2>6, <2>7 DEF StepInv
<1>12. CASE ProcessReturns
  <2>1. QueueInv'
    BY <1>12, QuietKeepsQueue
       DEF StepInv, QueueInv, NoEventForFreed, ProcessReturns, queueVars, lifeVars
  <2>2. RestTypeOK'
    BY <1>12, Zenon DEF StepInv, RestTypeOK, ProcessReturns, lifeVars
  <2> QED
    BY <1>12, <2>1, <2>2 DEF StepInv, ClockBelowTarget, ProcessReturns
<1>13. CASE AdvanceReturns
  <2>1. QueueInv'
    BY <1>0, <1>13, ReturnKeepsQueue DEF StepInv, AdvanceReturns, queueVars, lifeVars
  <2>2. RestTypeOK'
    BY <1>13, Zenon DEF StepInv, RestTypeOK, AdvanceReturns, lifeVars
  <2>3. ClockBelowTarget'
    BY <1>13 DEF ClockBelowTarget, AdvanceReturns
  <2> QED
    BY <2>1, <2>2, <2>3 DEF StepInv
<1>14. CASE UNCHANGED eqVars
  BY <1>14, Zenon
     DEF StepInv, RestTypeOK, QueueInv, QueueOrdered, IdsFresh, NoEventPassed, NoEventForFreed,
         PostedLate, ClockBelowTarget, eqVars, queueVars, clockVars, lifeVars
<1> QED
  BY <1>1, <1>2, <1>3, <1>4, <1>5, <1>6, <1>7, <1>8, <1>9, <1>10, <1>11, <1>12, <1>13, <1>14
     DEF EQNext

\* The invariant holds in every reachable state.
LEMMA EQInvAlways == EQSpec => []EQInv
  BY EQInvInit, EQInvStep, PTL DEF EQSpec

\* Every variable of the queue, the clock, the objects and the threads keeps
\* its type: a wrapped or negative time never gets into the list.
THEOREM EQTypeCorrect == EQSpec => []EQTypeOK
<1>1. EQInv => EQTypeOK
  BY DEF EQInv
<1> QED
  BY <1>1, EQInvAlways, PTL

\* postEvent's two walks, cancelEvent, cancelPendingEvents and advanceToTime
\* keep the list sorted by time and, among equal times, by posting order.
THEOREM QueueStaysOrdered == EQSpec => []QueueOrdered
<1>1. EQInv => QueueOrdered
  BY DEF EQInv
<1> QED
  BY <1>1, EQInvAlways, PTL

\* advanceToTime never moves the clock past a queued event that was not posted
\* late, whatever the callbacks it runs post, cancel or delete.
THEOREM NothingIsSkipped == EQSpec => []NoEventPassed
<1>1. EQInv => NoEventPassed
  BY DEF EQInv
<1> QED
  BY <1>1, EQInvAlways, PTL

\* cancelPendingEvents leaves no event for the object deleteObject frees, and
\* none is posted to it afterwards.
THEOREM NoDanglingDestination == EQSpec => []NoEventForFreed
<1>1. EQInv => NoEventForFreed
  BY DEF EQInv
<1> QED
  BY <1>1, EQInvAlways, PTL

\* The three together: what the run checks of the queue.
THEOREM QueueIsAlwaysSafe == EQSpec => []QueueIsSafe
<1>1. EQInv => QueueIsSafe
  BY DEF EQInv, QueueIsSafe
<1> QED
  BY <1>1, EQInvAlways, PTL

\* Only the dispatch of an event that was posted late sets the clock back.
THEOREM SetBackOnlyByLateEvents == EQSpec => OnlyLateEventsSetBack
<1>1. EQInv /\ [EQNext]_eqVars =>
        [gCurrentTime' < gCurrentTime => gEventQueue # <<>> /\ PostedLate(gEventQueue[1])]_eqVars
  <2> SUFFICES ASSUME EQInv, EQNext, gCurrentTime' < gCurrentTime
               PROVE  gEventQueue # <<>> /\ PostedLate(gEventQueue[1])
    BY DEF eqVars
  <2>1. gCurrentTime \in Nat /\ gTargetTime \in Nat /\ gEventQueue \in Seq(Event)
        /\ NoEventPassed /\ ClockBelowTarget
    BY DEF EQInv, EQTypeOK
  <2>2. CASE DispatchEvent
    <3>1. gEventQueue # <<>> /\ gCurrentTime' = gEventQueue[1].time
      BY <2>2 DEF DispatchEvent, HeadDue
    <3>2. 1 \in DOMAIN gEventQueue
      BY <2>1, <3>1
    <3>3. gEventQueue[1].time \in Nat
      BY <2>1, <3>2, EventFields
    <3> QED
      BY <2>1, <3>1, <3>2, <3>3 DEF NoEventPassed
  <2>3. CASE AdvanceReturns
    BY <2>1, <2>3 DEF AdvanceReturns, ClockBelowTarget
  <2>4. CASE UNCHANGED gCurrentTime
    BY <2>1, <2>4
  <2>5. DispatchEvent \/ AdvanceReturns \/ UNCHANGED gCurrentTime
    BY DEF EQNext, schedule, objectSchedule, getTargetTime, printfPosts, cancelEvent,
           deleteObject, unregisterObject, cancelPendingEvents, deleteThis, advanceToTime,
           ProcessReturns, clockVars
  <2> QED
    BY <2>2, <2>3, <2>4, <2>5
<1> QED
  BY <1>1, EQInvAlways, PTL DEF EQSpec, OnlyLateEventsSetBack

-----------------------------------------------------------------------------
(* The queue implements EventPromise, which sees the list as a set.        *)

\* An insertion adds the event to the set ...
LEMMA InsertAddsEvent ==
  ASSUME NEW S, NEW s \in Seq(S), NEW e \in S, NEW p \in 1 .. (Len(s) + 1)
  PROVE  ToSet(InsertAt(s, p, e)) = ToSet(s) \cup {e}
<1> DEFINE t == InsertAt(s, p, e)
<1>0. Len(s) \in Nat /\ DOMAIN s = 1 .. Len(s)
  OBVIOUS
<1>1. /\ t \in Seq(S)
      /\ Len(t) = Len(s) + 1
      /\ t[p] = e
      /\ \A k \in 1 .. (p - 1) : t[k] = s[k]
      /\ \A k \in (p + 1) .. (Len(s) + 1) : t[k] = s[k - 1]
  <2>1. t \in Seq(S) /\ Len(t) = Len(s) + 1
    BY InsertAtPositions
  <2>2. t[p] = e
    BY InsertAtPositions
  <2>3. \A k \in 1 .. (p - 1) : t[k] = s[k]
    BY InsertAtPositions
  <2>4. \A k \in (p + 1) .. (Len(s) + 1) : t[k] = s[k - 1]
    BY InsertAtPositions
  <2> QED
    BY <2>1, <2>2, <2>3, <2>4
<1> HIDE DEF t
<1>2. DOMAIN t = 1 .. (Len(s) + 1)
  BY <1>0, <1>1
<1>3. \A k \in DOMAIN t : t[k] \in ToSet(s) \cup {e}
  <2> TAKE k \in DOMAIN t
  <2>1. CASE k < p
    BY <1>0, <1>1, <1>2, <2>1 DEF ToSet
  <2>2. CASE k = p
    BY <1>0, <1>1, <2>2
  <2>3. CASE k > p
    <3>1. k \in (p + 1) .. (Len(s) + 1)
      BY <1>0, <1>2, <2>3
    <3>2. k - 1 \in DOMAIN s
      BY <1>0, <3>1
    <3>3. t[k] = s[k - 1]
      BY <1>1, <3>1
    <3> QED
      BY <3>2, <3>3 DEF ToSet
  <2> QED
    BY <1>0, <1>1, <1>2, <2>1, <2>2, <2>3
<1>4. \A k \in DOMAIN s : \E m \in DOMAIN t : t[m] = s[k]
  <2> TAKE k \in DOMAIN s
  <2>1. CASE k < p
    <3>1. k \in DOMAIN t /\ t[k] = s[k]
      BY <1>0, <1>1, <1>2, <2>1
    <3> QED
      BY <3>1
  <2>2. CASE k >= p
    <3>1. k + 1 \in DOMAIN t /\ t[k + 1] = s[k]
      BY <1>0, <1>1, <1>2, <2>2
    <3> QED
      BY <3>1
  <2> QED
    BY <1>0, <1>1, <2>1, <2>2
<1>5. e \in ToSet(t)
  BY <1>0, <1>1, <1>2 DEF ToSet
<1>6. ToSet(s) \subseteq ToSet(t)
  BY <1>4 DEF ToSet
<1>7. ToSet(t) \subseteq ToSet(s) \cup {e}
  BY <1>3, Zenon DEF ToSet
<1> QED
  BY <1>5, <1>6, <1>7 DEF t

\* ... and, as no two positions of an ordered list hold the same event, a
\* removal takes exactly one away.
LEMMA RemoveTakesEvent ==
  ASSUME NEW S, NEW s \in Seq(S), \A i, j \in DOMAIN s : i < j => s[i] # s[j],
         NEW p \in 1 .. Len(s)
  PROVE  s[p] \in ToSet(s) /\ ToSet(RemoveAt(s, p)) = ToSet(s) \ {s[p]}
<1> DEFINE t == RemoveAt(s, p)
<1>0. Len(s) \in Nat /\ DOMAIN s = 1 .. Len(s)
  OBVIOUS
<1>1. /\ t \in Seq(S)
      /\ Len(t) = Len(s) - 1
      /\ \A k \in 1 .. (p - 1) : t[k] = s[k]
      /\ \A k \in p .. (Len(s) - 1) : t[k] = s[k + 1]
  BY RemoveAtPositions, Zenon
<1> HIDE DEF t
<1>2. DOMAIN t = 1 .. (Len(s) - 1)
  BY <1>0, <1>1
<1>4. \A k \in DOMAIN t : t[k] \in ToSet(s) \ {s[p]}
  <2> TAKE k \in DOMAIN t
  <2>1. CASE k < p
    <3>1. k \in DOMAIN s /\ p \in DOMAIN s /\ t[k] = s[k]
      BY <1>0, <1>1, <1>2, <2>1
    <3> QED
      BY <2>1, <3>1 DEF ToSet
  <2>2. CASE k >= p
    <3>1. k + 1 \in DOMAIN s /\ p \in DOMAIN s /\ p < k + 1
          /\ t[k] = s[k + 1]
      BY <1>0, <1>1, <1>2, <2>2
    <3> QED
      BY <3>1 DEF ToSet
  <2> QED
    BY <1>0, <1>1, <1>2, <2>1, <2>2
<1>5. \A k \in DOMAIN s \ {p} :
        \E m \in DOMAIN t : t[m] = s[k]
  <2> TAKE k \in DOMAIN s \ {p}
  <2>1. CASE k < p
    <3>1. k \in DOMAIN t /\ t[k] = s[k]
      BY <1>0, <1>1, <1>2, <2>1
    <3> QED
      BY <3>1
  <2>2. CASE k > p
    <3>1. k - 1 \in DOMAIN t /\ t[k - 1] = s[k]
      BY <1>0, <1>1, <1>2, <2>2
    <3> QED
      BY <3>1
  <2> QED
    BY <1>0, <1>1, <2>1, <2>2
<1>6. s[p] \in ToSet(s)
  BY <1>0, <1>1 DEF ToSet
<1>7. ToSet(s) \ {s[p]} \subseteq ToSet(t)
  BY <1>5 DEF ToSet
<1>8. ToSet(t) \subseteq ToSet(s) \ {s[p]}
  BY <1>4, Zenon DEF ToSet
<1> QED
  BY <1>6, <1>7, <1>8 DEF t

\* Popping the head is removing the first position.
LEMMA TailRemovesFirst ==
  ASSUME NEW S, NEW s \in Seq(S), s # <<>>
  PROVE  Tail(s) = RemoveAt(s, 1)
<1>1. 1 \in 1 .. Len(s)
  OBVIOUS
<1> DEFINE t == RemoveAt(s, 1)
<1>2. t \in Seq(S) /\ Len(t) = Len(s) - 1 /\ \A k \in 1 .. (Len(s) - 1) : t[k] = s[k + 1]
  BY <1>1, RemoveAtPositions
<1> HIDE DEF t
<1>3. Tail(s) \in Seq(S) /\ Len(Tail(s)) = Len(s) - 1
      /\ \A k \in 1 .. (Len(s) - 1) : Tail(s)[k] = s[k + 1]
  OBVIOUS
<1>4. Tail(s) = t
  BY <1>2, <1>3
<1> QED
  BY <1>4 DEF t

\* An ordered list holds every event once.
LEMMA QueueDistinct ==
  ASSUME gEventQueue \in Seq(Event), QueueOrdered
  PROVE  \A i, j \in DOMAIN gEventQueue : i < j => gEventQueue[i] # gEventQueue[j]
<1> TAKE i, j \in DOMAIN gEventQueue
<1>1. gEventQueue[i].time \in Nat /\ gEventQueue[i].sequenceCount \in Nat
  BY EventFields
<1> QED
  BY <1>1 DEF QueueOrdered

\* postEvent is a Post of the promise ...
LEMMA PostIsPost ==
  ASSUME EQInv, NEW dest \in Dests, NEW time \in Int, postEvent(dest, time), UNCHANGED clockVars
  PROVE  Promise!Post
<1> DEFINE e == [time |-> PostedTime(time), startTime |-> gCurrentTime,
                 sequenceCount |-> gEventSequence, destObject |-> dest]
<1>1. gEventQueue \in Seq(Event) /\ gEventSequence \in Nat /\ gCurrentTime \in Nat
  BY DEF EQInv, EQTypeOK
<1>2. PostedTime(time) \in Nat
  BY <1>1, PostedTimeNat
<1>3. e \in Event /\ e.sequenceCount = gEventSequence
  BY <1>1, <1>2 DEF Event
<1>4. PICK p \in 1 .. (Len(gEventQueue) + 1) : gEventQueue' = InsertAt(gEventQueue, p, e)
  BY DEF postEvent
<1> HIDE DEF e
<1>5. ToSet(InsertAt(gEventQueue, p, e)) = ToSet(gEventQueue) \cup {e}
  BY <1>1, <1>3, InsertAddsEvent
<1>6. ToSet(gEventQueue)' = ToSet(gEventQueue) \cup {e}
  BY <1>4, <1>5
<1>7. gEventSequence' = gEventSequence + 1 /\ processing' = processing
  BY DEF postEvent, clockVars
<1> QED
  BY <1>3, <1>6, <1>7 DEF Promise!Post

\* ... an unlinked event a Withdraw ...
LEMMA RemoveIsWithdraw ==
  ASSUME EQInv, NEW matches, matches \subseteq DOMAIN gEventQueue, RemoveFirstEvent(matches),
         UNCHANGED <<gEventSequence, clockVars>>
  PROVE  Promise!Withdraw
<1>1. gEventQueue \in Seq(Event) /\ QueueOrdered
  BY DEF EQInv, EQTypeOK
<1>2. PICK p \in matches : gEventQueue' = RemoveAt(gEventQueue, p)
  BY Zenon DEF RemoveFirstEvent
<1>3. p \in 1 .. Len(gEventQueue)
  BY <1>1
<1>4. \A i, j \in DOMAIN gEventQueue : i < j => gEventQueue[i] # gEventQueue[j]
  BY <1>1, QueueDistinct
<1>5. gEventQueue[p] \in ToSet(gEventQueue)
      /\ ToSet(RemoveAt(gEventQueue, p)) = ToSet(gEventQueue) \ {gEventQueue[p]}
  BY <1>1, <1>3, <1>4, RemoveTakesEvent
<1>6. ToSet(gEventQueue)' = ToSet(gEventQueue) \ {gEventQueue[p]}
  BY <1>2, <1>5
<1> QED
  BY <1>5, <1>6 DEF Promise!Withdraw, clockVars

\* ... and advanceToTime's pop a Run, or a Withdraw when the object is deleted.
LEMMA DispatchIsRun ==
  ASSUME EQInv, DispatchEvent
  PROVE  Promise!Run \/ Promise!Withdraw
<1>1. gEventQueue \in Seq(Event) /\ QueueOrdered /\ gEventQueue # <<>>
  BY DEF EQInv, EQTypeOK, DispatchEvent, HeadDue
<1>2. 1 \in 1 .. Len(gEventQueue) /\ DOMAIN gEventQueue = 1 .. Len(gEventQueue)
  BY <1>1
<1>3. \A i, j \in DOMAIN gEventQueue : i < j => gEventQueue[i] # gEventQueue[j]
  BY <1>1, QueueDistinct
<1>4. gEventQueue[1] \in ToSet(gEventQueue)
      /\ ToSet(RemoveAt(gEventQueue, 1)) = ToSet(gEventQueue) \ {gEventQueue[1]}
  BY <1>1, <1>2, <1>3, RemoveTakesEvent
<1>5. gEventQueue' = RemoveAt(gEventQueue, 1)
  <2>1. Tail(gEventQueue) = RemoveAt(gEventQueue, 1)
    BY <1>1, TailRemovesFirst
  <2> QED
    BY <2>1 DEF DispatchEvent
<1>6. ToSet(gEventQueue)' = ToSet(gEventQueue) \ {gEventQueue[1]}
  BY <1>4, <1>5
<1>7. processing = NoEvent /\ gEventSequence' = gEventSequence
      /\ (processing' = NoEvent \/ processing' = gEventQueue[1])
  BY DEF DispatchEvent
<1>8. \A f \in ToSet(gEventQueue) : Promise!NotAfter(gEventQueue[1], f)
  <2> SUFFICES ASSUME NEW i \in DOMAIN gEventQueue
               PROVE  Promise!NotAfter(gEventQueue[1], gEventQueue[i])
    BY DEF ToSet
  <2>1. gEventQueue[1].time \in Nat /\ gEventQueue[1].sequenceCount \in Nat
        /\ gEventQueue[i].time \in Nat /\ gEventQueue[i].sequenceCount \in Nat
    BY <1>1, <1>2, EventFields
  <2>2. CASE i = 1
    BY <2>1, <2>2 DEF Promise!NotAfter
  <2>3. CASE 1 < i
    BY <1>1, <1>2, <2>1, <2>3 DEF QueueOrdered, Promise!NotAfter
  <2> QED
    BY <1>2, <2>2, <2>3
<1>9. CASE processing' = NoEvent
  BY <1>4, <1>6, <1>7, <1>9 DEF Promise!Withdraw
<1>10. CASE processing' = gEventQueue[1]
  BY <1>4, <1>6, <1>7, <1>8, <1>10 DEF Promise!Run
<1> QED
  BY <1>7, <1>9, <1>10

\* The list implements the set: every post adds one event under a fresh id,
\* every removal takes one, and what runs is the earliest, first posted first.
THEOREM QueueImplementsPromise == EQSpec => KeepsPromise
<1>1. EQInit => Promise!PromiseInit
  <2> SUFFICES ASSUME EQInit PROVE ToSet(gEventQueue) = {}
    BY DEF EQInit, Promise!PromiseInit
  <2>1. gEventQueue = <<>> /\ DOMAIN gEventQueue = {}
    BY DEF EQInit
  <2> QED
    BY <2>1 DEF ToSet
<1>2. EQInv /\ [EQNext]_eqVars => [Promise!PromiseNext]_(Promise!promiseVars)
  <2> SUFFICES ASSUME EQInv, [EQNext]_eqVars
               PROVE  Promise!PromiseNext \/ UNCHANGED Promise!promiseVars
    OBVIOUS
  <2>0. gCurrentTime \in Nat /\ readTime \in [Workers -> Nat \cup {NoTime}]
    BY DEF EQInv, EQTypeOK
  <2>1. ASSUME NEW delta \in Delays, schedule(delta) PROVE Promise!Post
    <3>1. gCurrentTime + AtLeastOne(delta) \in Int /\ Root \in Dests
      BY <2>0, EventQueueAssumption DEF AtLeastOne, EventQueueAssumption, Dests
    <3> QED
      BY <2>1, <3>1, PostIsPost DEF schedule
  <2>2. ASSUME NEW object \in Objects, NEW delta \in ObjectDeltas, objectSchedule(object, delta)
        PROVE  Promise!Post
    <3>1. gCurrentTime + AtLeastOne(delta) \in Int /\ object \in Dests
      BY <2>0, EventQueueAssumption DEF AtLeastOne, EventQueueAssumption, Dests
    <3> QED
      BY <2>2, <3>1, PostIsPost DEF objectSchedule
  <2>3. ASSUME NEW w \in Workers, printfPosts(w) PROVE Promise!Post
    <3>1. readTime[w] \in Int /\ Root \in Dests
      BY <2>0, <2>3 DEF printfPosts, Dests
    <3> QED
      BY <2>3, <3>1, PostIsPost DEF printfPosts
  <2>4. ASSUME NEW sequence \in 1 .. MaxEvents, cancelEvent(sequence) PROVE Promise!Withdraw
    <3> DEFINE matches == {i \in DOMAIN gEventQueue : gEventQueue[i].sequenceCount = sequence}
    <3>1. RemoveFirstEvent(matches) /\ UNCHANGED <<gEventSequence, clockVars>>
      BY <2>4 DEF cancelEvent
    <3>2. matches \subseteq DOMAIN gEventQueue
      OBVIOUS
    <3> HIDE DEF matches
    <3> QED
      BY <3>1, <3>2, RemoveIsWithdraw
  <2>5. ASSUME cancelPendingEvents PROVE Promise!Withdraw
    <3> DEFINE matches == {i \in DOMAIN gEventQueue :
                             gEventQueue[i].destObject = deleting[Len(deleting)]}
    <3>1. RemoveFirstEvent(matches) /\ UNCHANGED <<gEventSequence, clockVars>>
      BY <2>5 DEF cancelPendingEvents
    <3>2. matches \subseteq DOMAIN gEventQueue
      OBVIOUS
    <3> HIDE DEF matches
    <3> QED
      BY <3>1, <3>2, RemoveIsWithdraw
  <2>6. ASSUME ProcessReturns PROVE Promise!Finish
    BY <2>6 DEF ProcessReturns, queueVars, Promise!Finish
  <2>7. ASSUME DispatchEvent PROVE Promise!Run \/ Promise!Withdraw
    BY <2>7, DispatchIsRun
  <2>8. ASSUME UNCHANGED <<gEventQueue, gEventSequence, processing>>
        PROVE  UNCHANGED Promise!promiseVars
    BY <2>8 DEF Promise!promiseVars
  <2>9. ASSUME NEW w \in Workers, getTargetTime(w)
        PROVE  UNCHANGED <<gEventQueue, gEventSequence, processing>>
    BY <2>9 DEF getTargetTime, queueVars, clockVars
  <2>10. ASSUME NEW object \in Objects, deleteObject(object)
         PROVE  UNCHANGED <<gEventQueue, gEventSequence, processing>>
    BY <2>10 DEF deleteObject, queueVars, clockVars
  <2>11. ASSUME NEW time \in 0 .. MaxTime, advanceToTime(time)
         PROVE  UNCHANGED <<gEventQueue, gEventSequence, processing>>
    BY <2>11 DEF advanceToTime, queueVars
  <2>12. ASSUME unregisterObject \/ deleteThis \/ AdvanceReturns \/ UNCHANGED eqVars
         PROVE  UNCHANGED <<gEventQueue, gEventSequence, processing>>
    BY <2>12 DEF unregisterObject, deleteThis, AdvanceReturns, queueVars, clockVars, eqVars
  <2> QED
    BY <2>1, <2>2, <2>3, <2>4, <2>5, <2>6, <2>7, <2>8, <2>9, <2>10, <2>11, <2>12
       DEF EQNext, Promise!PromiseNext
<1> QED
  BY <1>1, <1>2, EQInvAlways, PTL DEF EQSpec, KeepsPromise, Promise!PromiseSpec
-----------------------------------------------------------------------------
(***************************************************************************)
(* The console: files that execute one another, and the sockets of the     *)
(* telnet console.                                                         *)
(***************************************************************************)
-----------------------------------------------------------------------------
(* Executed files.                                                         *)

ExecType ==
  [file : Files \ {Unnamed}, asked : BOOLEAN, noCalls : BOOLEAN, journal : BOOLEAN, next : Nat]

\* journalDepth is the place of the outermost file that was asked to be
\* journaled, and beyond the open files if none was.
JournalOK(e, depth) ==
  /\ \A i \in DOMAIN e : e[i].journal <=> \E j \in 1 .. i : e[j].asked
  /\ depth <= Len(e) => e[depth].asked /\ \A j \in 1 .. (depth - 1) : ~e[j].asked
  /\ depth > Len(e) => \A j \in DOMAIN e : ~e[j].asked

\* A file has come past no error but the one that is under way.
PassedNoError(x) == \A k \in 1 .. (x.next - 1) : BodyOf(x)[k].op # "throw"
StoppedByError(x) ==
  /\ x.next - 1 \in DOMAIN BodyOf(x) /\ BodyOf(x)[x.next - 1].op = "throw"
  /\ \A k \in 1 .. (x.next - 2) : BodyOf(x)[k].op # "throw"
ErrorsOK(e) ==
  /\ \A i \in DOMAIN e : e[i].next \in 1 .. (Len(BodyOf(e[i])) + 1)
  /\ \A i \in 1 .. (Len(e) - 1) : PassedNoError(e[i])

FilesTypeOK ==
  /\ files \in [Files \ {Unnamed} -> FileContents]
  /\ execs \in Seq(ExecType)
  /\ execDepth = Len(execs) /\ journalDepth \in Nat \ {0}
  /\ failed \in BOOLEAN
FilesInv ==
  /\ FilesTypeOK
  /\ JournalOK(execs, journalDepth)
  /\ ErrorsOK(execs)
  /\ execs # <<>> /\ ~failed => PassedNoError(TopExec)
  /\ execs # <<>> /\ failed => StoppedByError(TopExec)
  /\ ErrorsStayInTheirFile

\* A file more: exec sets journalDepth before it opens one.
LEMMA PushedJournal ==
  ASSUME NEW e \in Seq(ExecType), NEW depth \in Nat \ {0}, JournalOK(e, depth),
         NEW x \in ExecType, x.journal <=> x.asked \/ depth < Len(e) + 1,
         NEW d, d = IF depth < Len(e) + 1 THEN depth
                    ELSE IF x.asked THEN Len(e) + 1 ELSE Len(e) + 2
  PROVE  JournalOK(Append(e, x), d)
<1> DEFINE f == Append(e, x)
           n == Len(e)
<1>1. /\ n \in Nat /\ Len(f) = n + 1 /\ DOMAIN f = 1 .. (n + 1) /\ DOMAIN e = 1 .. n
      /\ f[n + 1] = x /\ \A i \in 1 .. n : f[i] = e[i]
  OBVIOUS
<1> HIDE DEF f, n
<1>2. CASE depth < n + 1
  <2>1. depth \in 1 .. n /\ e[depth].asked /\ d = depth
    BY <1>1, <1>2 DEF JournalOK, n
  <2>2. x.journal
    BY <1>2 DEF n
  <2>3. ASSUME NEW i \in 1 .. (n + 1) PROVE f[i].journal <=> \E j \in 1 .. i : f[j].asked
    <3>1. CASE i = n + 1
      <4>1. depth \in 1 .. i /\ f[depth].asked
        BY <1>1, <2>1, <3>1
      <4> QED  BY <1>1, <2>2, <3>1, <4>1
    <3>2. CASE i \in 1 .. n
      <4>1. f[i].journal <=> \E j \in 1 .. i : e[j].asked
        BY <1>1, <3>2 DEF JournalOK
      <4>2. \A j \in 1 .. i : j \in 1 .. n
        BY <1>1, <3>2
      <4> QED  BY <1>1, <4>1, <4>2
    <3> QED  BY <1>1, <3>1, <3>2
  <2>4. f[d].asked /\ d <= Len(f) /\ \A j \in 1 .. (d - 1) : ~f[j].asked
    BY <1>1, <1>2, <2>1 DEF JournalOK, n
  <2> QED  BY <1>1, <2>3, <2>4 DEF JournalOK, f
<1>3. CASE ~(depth < n + 1)
  <2>1. \A j \in 1 .. n : ~e[j].asked
    BY <1>1, <1>3 DEF JournalOK, n
  <2>2. \A j \in 1 .. n : ~f[j].asked
    BY <1>1, <2>1
  <2>3. x.journal <=> x.asked
    BY <1>3 DEF n
  <2>4. ASSUME NEW i \in 1 .. (n + 1) PROVE f[i].journal <=> \E j \in 1 .. i : f[j].asked
    <3>1. CASE i = n + 1
      BY <1>1, <2>2, <2>3, <3>1
    <3>2. CASE i \in 1 .. n
      <4>1. f[i].journal <=> \E j \in 1 .. i : e[j].asked
        BY <1>1, <3>2 DEF JournalOK
      <4>2. \A j \in 1 .. i : j \in 1 .. n
        BY <1>1, <3>2
      <4> QED  BY <1>1, <4>1, <4>2
    <3> QED  BY <1>1, <3>1, <3>2
  <2>5. CASE x.asked
    <3>1. d = n + 1
      BY <1>3, <2>5 DEF n
    <3> QED  BY <1>1, <2>2, <2>4, <2>5, <3>1 DEF JournalOK, f
  <2>6. CASE ~x.asked
    <3>1. d = n + 2
      BY <1>3, <2>6 DEF n
    <3> QED  BY <1>1, <2>2, <2>4, <2>6, <3>1 DEF JournalOK, f
  <2> QED  BY <2>5, <2>6
<1> QED  BY <1>2, <1>3

\* A file less: exec leaves journalDepth as it is when it returns.
LEMMA PoppedJournal ==
  ASSUME NEW e \in Seq(ExecType), NEW depth \in Nat \ {0}, JournalOK(e, depth), Len(e) > 0
  PROVE  JournalOK(SubSeq(e, 1, Len(e) - 1), depth)
<1> DEFINE f == SubSeq(e, 1, Len(e) - 1)
           n == Len(e)
<1>1. /\ n \in Nat /\ n > 0 /\ Len(f) = n - 1 /\ DOMAIN f = 1 .. (n - 1) /\ DOMAIN e = 1 .. n
      /\ \A i \in 1 .. (n - 1) : f[i] = e[i]
  <2>1. n \in Nat /\ n > 0 /\ DOMAIN e = 1 .. n
    OBVIOUS
  <2>2. f = [i \in 1 .. (n - 1) |-> e[i]]
    BY <2>1
  <2>3. f \in Seq(ExecType)
    BY <2>1
  <2>4. DOMAIN f = 1 .. (n - 1)
    BY <2>2
  <2> HIDE DEF f, n
  <2>5. Len(f) = n - 1
    BY <2>1, <2>3, <2>4
  <2>6. \A i \in 1 .. (n - 1) : f[i] = e[i]
    BY <2>2
  <2> QED  BY <2>1, <2>4, <2>5, <2>6
<1> HIDE DEF f, n
<1>2. ASSUME NEW i \in 1 .. (n - 1) PROVE f[i].journal <=> \E j \in 1 .. i : f[j].asked
  <2>1. f[i].journal <=> \E j \in 1 .. i : e[j].asked
    <3>1. f[i] = e[i] /\ i \in DOMAIN e
      BY <1>1
    <3>2. e[i].journal <=> \E j \in 1 .. i : e[j].asked
      BY <3>1 DEF JournalOK
    <3> QED  BY <3>1, <3>2
  <2>2. \A j \in 1 .. i : j \in 1 .. (n - 1)
    BY <1>1
  <2> QED  BY <1>1, <2>1, <2>2
<1>3. depth <= n - 1 => f[depth].asked /\ \A j \in 1 .. (depth - 1) : ~f[j].asked
  <2> SUFFICES ASSUME depth <= n - 1 PROVE f[depth].asked /\ \A j \in 1 .. (depth - 1) : ~f[j].asked
    OBVIOUS
  <2>1. e[depth].asked /\ \A j \in 1 .. (depth - 1) : ~e[j].asked
    BY <1>1 DEF JournalOK, n
  <2> QED  BY <1>1, <2>1
<1>4. depth > n - 1 => \A j \in 1 .. (n - 1) : ~f[j].asked
  <2> SUFFICES ASSUME depth > n - 1, NEW j \in 1 .. (n - 1) PROVE ~f[j].asked
    OBVIOUS
  <2>1. CASE depth = n
    BY <1>1, <2>1 DEF JournalOK, n
  <2>2. CASE depth > n
    BY <1>1, <2>2 DEF JournalOK, n
  <2> QED  BY <1>1, <2>1, <2>2
<1> QED  BY <1>1, <1>2, <1>3, <1>4 DEF JournalOK, f

\* A statement done changes no journal.
LEMMA SteppedJournal ==
  ASSUME NEW e \in Seq(ExecType), NEW depth \in Nat \ {0}, JournalOK(e, depth), Len(e) > 0,
         NEW x \in ExecType, x.journal = e[Len(e)].journal, x.asked = e[Len(e)].asked
  PROVE  /\ [e EXCEPT ![Len(e)] = x] \in Seq(ExecType)
         /\ JournalOK([e EXCEPT ![Len(e)] = x], depth)
<1> DEFINE f == [e EXCEPT ![Len(e)] = x]
<1>1. /\ f \in Seq(ExecType) /\ Len(f) = Len(e) /\ DOMAIN f = DOMAIN e /\ DOMAIN e = 1 .. Len(e)
      /\ \A i \in DOMAIN e : f[i].journal = e[i].journal /\ f[i].asked = e[i].asked
  OBVIOUS
<1> HIDE DEF f
<1>2. ASSUME NEW i \in DOMAIN f PROVE f[i].journal <=> \E j \in 1 .. i : f[j].asked
  <2>1. e[i].journal <=> \E j \in 1 .. i : e[j].asked
    BY <1>1 DEF JournalOK
  <2>2. \A j \in 1 .. i : j \in DOMAIN e
    BY <1>1
  <2> QED  BY <1>1, <2>1, <2>2
<1>3. depth <= Len(f) => f[depth].asked /\ \A j \in 1 .. (depth - 1) : ~f[j].asked
  <2> SUFFICES ASSUME depth <= Len(f) PROVE f[depth].asked /\ \A j \in 1 .. (depth - 1) : ~f[j].asked
    OBVIOUS
  <2>1. e[depth].asked /\ \A j \in 1 .. (depth - 1) : ~e[j].asked
    BY <1>1 DEF JournalOK
  <2>2. depth \in DOMAIN e /\ \A j \in 1 .. (depth - 1) : j \in DOMAIN e
    BY <1>1
  <2> QED  BY <1>1, <2>1, <2>2
<1>4. depth > Len(f) => \A j \in DOMAIN f : ~f[j].asked
  BY <1>1 DEF JournalOK
<1>5. JournalOK(f, depth)
  BY <1>2, <1>3, <1>4 DEF JournalOK
<1> QED  BY <1>1, <1>5 DEF f

\* The statements of a file have their type, whatever the file holds.
LEMMA BodyType ==
  ASSUME files \in [Files \ {Unnamed} -> FileContents], NEW x, x.file \in Files \ {Unnamed}
  PROVE  BodyOf(x) \in Seq(FileStatements) /\ Len(BodyOf(x)) \in Nat /\ DOMAIN BodyOf(x) = 1 .. Len(BodyOf(x))
<1>1. files[x.file] \in FileContents
  OBVIOUS
<1>2. files[x.file].body \in Seq(FileStatements)
  BY <1>1 DEF FileContents
<1>3. BodyOf(x) \in Seq(FileStatements)
  BY <1>2 DEF BodyOf
<1> QED  BY <1>3

\* No file is open at first.
LEMMA FilesInvInit == FilesInit => FilesInv
<1> SUFFICES ASSUME FilesInit PROVE FilesInv
  OBVIOUS
<1>1. \A c \in Contents : c \in FileContents
  BY FilesAssumption
<1>2. files \in [Files \ {Unnamed} -> FileContents]
  BY <1>1 DEF FilesInit
<1>3. execs = <<>> /\ execs \in Seq(ExecType) /\ Len(execs) = 0 /\ DOMAIN execs = {}
  BY DEF FilesInit
<1>4. JournalOK(execs, journalDepth)
  BY <1>3 DEF JournalOK, FilesInit
<1>5. ErrorsOK(execs)
  BY <1>3 DEF ErrorsOK
<1>6. ErrorsStayInTheirFile
  BY DEF ErrorsStayInTheirFile, FilesInit, NotDone
<1>7. execDepth = Len(execs) /\ journalDepth \in Nat \ {0} /\ failed \in BOOLEAN
  <2>1. execDepth = Len(execs)
    BY <1>3 DEF FilesInit
  <2>2. journalDepth \in Nat \ {0}
    BY DEF FilesInit
  <2>3. failed \in BOOLEAN
    BY Zenon DEF FilesInit
  <2> QED  BY <2>1, <2>2, <2>3
<1> QED  BY <1>2, <1>3, <1>4, <1>5, <1>6, <1>7 DEF FilesInv, FilesTypeOK

\* The files themselves do not change.
LEMMA SameFiles ==
  ASSUME files' = files, execs' \in Seq(ExecType), FilesTypeOK,
         execDepth' = Len(execs'), journalDepth' \in Nat \ {0}, failed' \in BOOLEAN,
         JournalOK(execs', journalDepth'), ErrorsOK(execs'),
         execs' # <<>> /\ ~failed' => PassedNoError(execs'[Len(execs')]),
         execs' # <<>> /\ failed' => StoppedByError(execs'[Len(execs')]),
         ErrorsStayInTheirFile'
  PROVE  FilesInv'
<1>1. FilesTypeOK'
  BY DEF FilesTypeOK
<1>2. JournalOK(execs, journalDepth)'
  BY DEF JournalOK
<1>3. ErrorsOK(execs)'
  BY DEF ErrorsOK, PassedNoError, BodyOf
<1>4. (execs # <<>> /\ ~failed => PassedNoError(TopExec))'
  BY DEF TopExec, PassedNoError, BodyOf
<1>5. (execs # <<>> /\ failed => StoppedByError(TopExec))'
  BY DEF TopExec, StoppedByError, BodyOf
<1> QED  BY <1>1, <1>2, <1>3, <1>4, <1>5 DEF FilesInv

\* What the beginning of exec does to the counters and the open files.
LEMMA Opening ==
  ASSUME FilesTypeOK, NEW e \in Seq(ExecType), Len(e) = execDepth, JournalOK(e, journalDepth),
         ErrorsOK(e), \A i \in DOMAIN e : PassedNoError(e[i]),
         NEW file \in Files, NEW noCalls \in BOOLEAN, NEW inJournal \in BOOLEAN
  PROVE  /\ JournalIn(inJournal) \in Nat \ {0}
         /\ ~Readable(file) => DepthIn(file) = Len(e) /\ JournalOK(e, JournalIn(inJournal))
         /\ Readable(file) =>
              LET f == Append(e, OpenedExec(file, noCalls, inJournal))
              IN  /\ f \in Seq(ExecType) /\ DepthIn(file) = Len(f)
                  /\ JournalOK(f, JournalIn(inJournal)) /\ ErrorsOK(f)
                  /\ f # <<>> /\ PassedNoError(f[Len(f)])
<1> DEFINE x == OpenedExec(file, noCalls, inJournal)
           f == Append(e, x)
           d == JournalIn(inJournal)
<1>1. execDepth \in Nat /\ journalDepth \in Nat \ {0}
  BY DEF FilesTypeOK
<1>2. /\ d \in Nat \ {0}
      /\ d = IF journalDepth < Len(e) + 1 THEN journalDepth
             ELSE IF inJournal THEN Len(e) + 1 ELSE Len(e) + 2
  BY <1>1 DEF JournalIn, Inside
<1>3. ASSUME ~Readable(file) PROVE DepthIn(file) = Len(e) /\ JournalOK(e, d)
  <2> HIDE DEF d
  <2>1. CASE journalDepth < Len(e) + 1
    BY <1>2, <1>3, <2>1 DEF DepthIn
  <2>2. CASE ~(journalDepth < Len(e) + 1)
    <3>1. journalDepth > Len(e) /\ d > Len(e)
      BY <1>1, <1>2, <2>2
    <3>2. JournalOK(e, d)
      BY <1>1, <1>2, <3>1 DEF JournalOK
    <3> QED  BY <1>3, <3>2 DEF DepthIn
  <2> QED  BY <2>1, <2>2
<1>4. ASSUME Readable(file)
      PROVE  /\ f \in Seq(ExecType) /\ DepthIn(file) = Len(f)
             /\ JournalOK(f, d) /\ ErrorsOK(f) /\ f # <<>> /\ PassedNoError(f[Len(f)])
  <2>1. /\ x \in ExecType /\ x.file = file /\ x.next = 1 /\ x.asked = inJournal
        /\ x.journal = (inJournal \/ journalDepth < Len(e) + 1)
    BY <1>1, <1>4 DEF Readable, OpenedExec, ExecType, Inside
  <2> HIDE DEF x, d
  <2>2. JournalOK(f, d)
    BY <1>1, <1>2, <2>1, PushedJournal
  <2>3. /\ f \in Seq(ExecType) /\ Len(f) = Len(e) + 1 /\ DOMAIN f = 1 .. (Len(e) + 1)
        /\ f[Len(e) + 1] = x /\ (\A i \in 1 .. Len(e) : f[i] = e[i]) /\ f # <<>>
        /\ DOMAIN e = 1 .. Len(e)
    <3>1. f \in Seq(ExecType) /\ Len(f) = Len(e) + 1 /\ Len(e) \in Nat /\ DOMAIN e = 1 .. Len(e)
      BY <2>1
    <3>2. f[Len(e) + 1] = x /\ \A i \in 1 .. Len(e) : f[i] = e[i]
      BY <2>1
    <3> HIDE DEF f
    <3>3. f # <<>>
      BY <3>1
    <3> QED  BY <3>1, <3>2, <3>3
  <2> HIDE DEF f
  <2>4. PassedNoError(x)
    BY <2>1 DEF PassedNoError
  <2>5. x.next \in 1 .. (Len(BodyOf(x)) + 1)
    <3>1. Len(BodyOf(x)) \in Nat
      BY <2>1, BodyType DEF FilesTypeOK, ExecType
    <3> QED  BY <2>1, <3>1
  <2>6. ErrorsOK(f)
    <3>1. ASSUME NEW i \in DOMAIN f PROVE f[i].next \in 1 .. (Len(BodyOf(f[i])) + 1)
      <4>1. CASE i = Len(e) + 1
        BY <2>3, <2>5, <4>1
      <4>2. CASE i # Len(e) + 1
        BY <1>1, <2>3, <4>2 DEF ErrorsOK
      <4> QED  BY <4>1, <4>2
    <3>2. \A i \in 1 .. (Len(f) - 1) : PassedNoError(f[i])
      BY <1>1, <2>3
    <3> QED  BY <3>1, <3>2 DEF ErrorsOK
  <2>7. DepthIn(file) = Len(f)
    BY <1>4, <2>3 DEF DepthIn
  <2>8. PassedNoError(f[Len(f)])
    BY <2>3, <2>4
  <2> QED  BY <2>2, <2>3, <2>6, <2>7, <2>8
<1> QED  BY <1>2, <1>3, <1>4

\* A statement done: the file goes on, and its callers stay as they are.
LEMMA Stepping ==
  ASSUME FilesInv, Running
  PROVE  LET e == WithTopExec(Stepped)
         IN  /\ e \in Seq(ExecType) /\ Len(e) = Len(execs) /\ e # <<>> /\ JournalOK(e, journalDepth)
             /\ ErrorsOK(e)
             /\ NextStatement.op # "throw" => \A i \in DOMAIN e : PassedNoError(e[i])
             /\ NextStatement.op = "throw" => StoppedByError(e[Len(e)])
<1> DEFINE x == Stepped
           e == WithTopExec(x)
           n == Len(execs)
<1>1. /\ execs \in Seq(ExecType) /\ n \in Nat /\ n > 0 /\ DOMAIN execs = 1 .. n
      /\ TopExec = execs[n] /\ TopExec \in ExecType
  <2>1. execs \in Seq(ExecType) /\ n \in Nat /\ DOMAIN execs = 1 .. n /\ execs # <<>>
    BY DEF FilesInv, FilesTypeOK, Running
  <2>2. n > 0
    BY <2>1
  <2> QED  BY <2>1, <2>2 DEF TopExec
<1>2. /\ x \in ExecType /\ x.file = TopExec.file /\ x.journal = TopExec.journal
      /\ x.asked = TopExec.asked /\ x.next = TopExec.next + 1
  BY <1>1 DEF Stepped, ExecType
<1>3. BodyOf(x) = BodyOf(TopExec) /\ Len(BodyOf(x)) \in Nat /\ DOMAIN BodyOf(x) = 1 .. Len(BodyOf(x))
  <2>1. BodyOf(x) = BodyOf(TopExec)
    BY <1>2 DEF BodyOf
  <2>2. x.file \in Files \ {Unnamed} /\ files \in [Files \ {Unnamed} -> FileContents]
    BY <1>2 DEF ExecType, FilesInv, FilesTypeOK
  <2> QED  BY <2>1, <2>2, BodyType
<1>4. PassedNoError(TopExec) /\ TopExec.next \in 1 .. Len(BodyOf(x))
  <2>1. PassedNoError(TopExec) /\ TopExec.next <= Len(BodyOf(x))
    BY <1>1, <1>3 DEF FilesInv, Running
  <2>2. TopExec.next \in 1 .. (Len(BodyOf(x)) + 1)
    BY <1>1, <1>3 DEF FilesInv, ErrorsOK
  <2> QED  BY <1>3, <2>1, <2>2
<1> HIDE DEF x
<1>5. /\ e \in Seq(ExecType) /\ JournalOK(e, journalDepth)
      /\ Len(e) = n /\ DOMAIN e = 1 .. n /\ e[n] = x /\ \A i \in 1 .. (n - 1) : e[i] = execs[i]
  <2>1. e = [execs EXCEPT ![n] = x]
    BY DEF WithTopExec
  <2>2. e \in Seq(ExecType) /\ JournalOK(e, journalDepth)
    <3>1. journalDepth \in Nat \ {0} /\ JournalOK(execs, journalDepth)
      BY DEF FilesInv, FilesTypeOK
    <3>2. Len(execs) > 0 /\ x.journal = execs[Len(execs)].journal /\ x.asked = execs[Len(execs)].asked
      BY <1>1, <1>2
    <3> QED  BY <1>1, <1>2, <2>1, <3>1, <3>2, SteppedJournal
  <2> QED  BY <1>1, <1>2, <2>1, <2>2
<1> HIDE DEF e
<1>6. e # <<>>
  BY <1>1, <1>5
<1>7. ErrorsOK(e)
  <2>1. ASSUME NEW i \in DOMAIN e PROVE e[i].next \in 1 .. (Len(BodyOf(e[i])) + 1)
    <3>1. CASE i = n
      BY <1>2, <1>3, <1>4, <1>5, <3>1
    <3>2. CASE i # n
      BY <1>1, <1>5, <3>2 DEF FilesInv, ErrorsOK
    <3> QED  BY <3>1, <3>2
  <2>2. \A i \in 1 .. (Len(e) - 1) : PassedNoError(e[i])
    BY <1>1, <1>5 DEF FilesInv, ErrorsOK
  <2> QED  BY <2>1, <2>2 DEF ErrorsOK
<1>8. NextStatement = BodyOf(x)[x.next - 1] /\ x.next - 1 \in 1 .. Len(BodyOf(x))
  BY <1>2, <1>3, <1>4 DEF NextStatement
<1>9. ASSUME NextStatement.op # "throw", NEW i \in DOMAIN e PROVE PassedNoError(e[i])
  <2>1. PassedNoError(x)
    <3> SUFFICES ASSUME NEW k \in 1 .. (x.next - 1) PROVE BodyOf(x)[k].op # "throw"
      BY DEF PassedNoError
    <3>1. CASE k = x.next - 1
      BY <1>8, <1>9, <3>1
    <3>2. CASE k # x.next - 1
      <4>1. k \in 1 .. (TopExec.next - 1)
        BY <1>2, <1>4, <3>2
      <4> QED  BY <1>3, <1>4, <4>1 DEF PassedNoError
    <3> QED  BY <3>1, <3>2
  <2>2. CASE i = n
    BY <1>5, <2>1, <2>2
  <2>3. CASE i # n
    <3>1. i \in 1 .. (Len(e) - 1)
      BY <1>1, <1>5, <1>9, <2>3
    <3> QED  BY <1>7, <3>1 DEF ErrorsOK
  <2> QED  BY <2>2, <2>3
<1>10. ASSUME NextStatement.op = "throw" PROVE StoppedByError(e[Len(e)])
  <2>1. x.next - 2 = TopExec.next - 1
    BY <1>2, <1>4
  <2>2. \A k \in 1 .. (x.next - 2) : BodyOf(x)[k].op # "throw"
    BY <1>3, <1>4, <2>1 DEF PassedNoError
  <2> QED  BY <1>3, <1>5, <1>8, <1>10, <2>2 DEF StoppedByError
<1> QED  BY <1>5, <1>6, <1>7, <1>9, <1>10 DEF e, x

\* Every action keeps the invariant: Con::exec called by the host,
LEMMA HostExecutes ==
  ASSUME FilesInv, NEW file \in Files, NEW noCalls \in BOOLEAN, NEW inJournal \in BOOLEAN,
         hostExec(file, noCalls, inJournal)
  PROVE  FilesInv'
<1>1. /\ execs = <<>> /\ files' = files /\ failed' = FALSE /\ execs \in Seq(ExecType)
      /\ execDepth' = DepthIn(file) /\ journalDepth' = JournalIn(inJournal) /\ FilesTypeOK
  BY DEF hostExec, exec, FilesInv, FilesTypeOK
<1>2. /\ Len(execs) = execDepth /\ JournalOK(execs, journalDepth) /\ ErrorsOK(execs)
      /\ \A i \in DOMAIN execs : PassedNoError(execs[i])
  BY <1>1 DEF FilesInv, FilesTypeOK
<1>3. CASE Readable(file)
  <2>1. execs' = <<OpenedExec(file, noCalls, inJournal)>> /\ returned' = returned
    BY <1>3 DEF hostExec
  <2>2. execs' = Append(execs, OpenedExec(file, noCalls, inJournal))
    BY <1>1, <2>1
  <2>3. ErrorsStayInTheirFile'
    BY <1>1, <2>1 DEF FilesInv, ErrorsStayInTheirFile, BodyOf
  <2>4. /\ execs' \in Seq(ExecType) /\ execDepth' = Len(execs') /\ journalDepth' \in Nat \ {0}
        /\ JournalOK(execs', journalDepth') /\ ErrorsOK(execs') /\ PassedNoError(execs'[Len(execs')])
    <3> DEFINE e == execs
    <3>1. /\ e \in Seq(ExecType) /\ Len(e) = execDepth /\ JournalOK(e, journalDepth) /\ ErrorsOK(e)
          /\ \A i \in DOMAIN e : PassedNoError(e[i])
      BY <1>1, <1>2
    <3>2. execs' = Append(e, OpenedExec(file, noCalls, inJournal))
      BY <2>2
    <3>3. execDepth' = DepthIn(file) /\ journalDepth' = JournalIn(inJournal) /\ FilesTypeOK
      BY <1>1
    <3> HIDE DEF e
    <3> QED  BY <1>3, <3>1, <3>2, <3>3, Opening
  <2>5. failed' \in BOOLEAN
    BY <1>1, Zenon
  <2> QED  BY <1>1, <2>3, <2>4, <2>5, SameFiles
<1>4. CASE ~Readable(file)
  <2>1. execs' = execs /\ returned' = [NotDone EXCEPT !.file = file]
    BY <1>4 DEF hostExec
  <2>2. ~returned'.ret
    BY <2>1 DEF NotDone
  <2>3. ErrorsStayInTheirFile'
    BY <2>2 DEF ErrorsStayInTheirFile
  <2>4. execDepth' = Len(execs') /\ journalDepth' \in Nat \ {0} /\ JournalOK(execs', journalDepth')
    BY <1>1, <1>2, <1>4, <2>1, Opening
  <2>5. failed' \in BOOLEAN
    BY <1>1, Zenon
  <2> QED  BY <1>1, <1>2, <2>1, <2>3, <2>4, <2>5, SameFiles
<1> QED  BY <1>3, <1>4

\* the script function exec,
LEMMA ScriptExecutes ==
  ASSUME FilesInv, scriptExec
  PROVE  FilesInv'
<1> DEFINE s == NextStatement
           e == WithTopExec(Stepped)
<1>1. /\ Running /\ s.op = "exec" /\ files' = files /\ failed' = FALSE /\ FilesTypeOK
      /\ execDepth' = DepthIn(s.file) /\ journalDepth' = JournalIn(s.journal)
  BY DEF scriptExec, exec, FilesInv
<1>2. s \in FileStatements
  <2>1. /\ TopExec \in ExecType /\ TopExec.next \in 1 .. Len(BodyOf(TopExec))
    <3>1. execs \in Seq(ExecType) /\ Len(execs) \in Nat /\ DOMAIN execs = 1 .. Len(execs) /\ execs # <<>>
      BY <1>1 DEF FilesTypeOK, Running
    <3>2. Len(execs) \in DOMAIN execs
      BY <3>1
    <3>3. TopExec \in ExecType
      BY <3>1, <3>2 DEF TopExec
    <3>4. TopExec.next \in 1 .. (Len(BodyOf(TopExec)) + 1)
      BY <3>2 DEF FilesInv, ErrorsOK, TopExec
    <3>5. Len(BodyOf(TopExec)) \in Nat
      BY <3>3, BodyType DEF FilesTypeOK, FilesInv, ExecType
    <3> QED  BY <1>1, <3>3, <3>4, <3>5 DEF Running
  <2>2. BodyOf(TopExec) \in Seq(FileStatements)
    BY <2>1, BodyType DEF FilesTypeOK, FilesInv, ExecType
  <2> QED  BY <2>1, <2>2 DEF NextStatement
<1>3. s.file \in Files /\ s.noCalls \in BOOLEAN /\ s.journal \in BOOLEAN
  BY <1>1, <1>2 DEF FileStatements
<1>4. /\ e \in Seq(ExecType) /\ Len(e) = execDepth /\ JournalOK(e, journalDepth) /\ ErrorsOK(e)
      /\ \A i \in DOMAIN e : PassedNoError(e[i])
  BY <1>1, Stepping DEF FilesTypeOK
<1>5. e # <<>> => Len(e) \in DOMAIN e
  BY <1>4
<1>6. failed' \in BOOLEAN
  BY <1>1, Zenon
<1>7. CASE Readable(s.file)
  <2>1. execs' = Append(e, OpenedExec(s.file, s.noCalls, s.journal)) /\ returned' = returned
    BY <1>7 DEF scriptExec
  <2>2. ErrorsStayInTheirFile'
    BY <1>1, <2>1 DEF FilesInv, ErrorsStayInTheirFile, BodyOf
  <2> HIDE DEF e, s
  <2>3. /\ execs' \in Seq(ExecType) /\ execDepth' = Len(execs') /\ journalDepth' \in Nat \ {0}
        /\ JournalOK(execs', journalDepth') /\ ErrorsOK(execs') /\ PassedNoError(execs'[Len(execs')])
    BY <1>1, <1>3, <1>4, <1>7, <2>1, Opening
  <2> QED  BY <1>1, <1>6, <2>2, <2>3, SameFiles
<1>8. CASE ~Readable(s.file)
  <2>1. execs' = e /\ returned' = [NotDone EXCEPT !.file = s.file]
    BY <1>8 DEF scriptExec
  <2>2. ~returned'.ret
    BY <2>1 DEF NotDone
  <2>3. ErrorsStayInTheirFile'
    BY <2>2 DEF ErrorsStayInTheirFile
  <2> HIDE DEF e, s
  <2>4. execDepth' = Len(execs') /\ journalDepth' \in Nat \ {0} /\ JournalOK(execs', journalDepth')
    BY <1>1, <1>3, <1>4, <1>8, <2>1, Opening
  <2> QED  BY <1>1, <1>4, <1>5, <1>6, <2>1, <2>3, <2>4, SameFiles
<1> QED  BY <1>7, <1>8

\* the other statements of a file, the one that fails among them,
LEMMA StatementsPass ==
  ASSUME FilesInv, set \/ throw
  PROVE  FilesInv'
<1> DEFINE e == WithTopExec(Stepped)
<1>1. /\ Running /\ files' = files /\ execs' = e /\ execDepth' = execDepth /\ returned' = returned
      /\ journalDepth' = journalDepth /\ FilesTypeOK
  BY DEF set, throw, FilesInv
<1>2. /\ e \in Seq(ExecType) /\ Len(e) = Len(execs) /\ e # <<>> /\ JournalOK(e, journalDepth)
      /\ ErrorsOK(e)
      /\ NextStatement.op # "throw" => \A i \in DOMAIN e : PassedNoError(e[i])
      /\ NextStatement.op = "throw" => StoppedByError(e[Len(e)])
  BY <1>1, Stepping
<1> HIDE DEF e
<1>3. ErrorsStayInTheirFile'
  BY <1>1 DEF FilesInv, ErrorsStayInTheirFile, BodyOf
<1>4. execDepth' = Len(execs') /\ journalDepth' \in Nat \ {0}
  BY <1>1, <1>2 DEF FilesTypeOK
<1>5. Len(e) \in DOMAIN e
  BY <1>2
<1>6. CASE set
  <2>1. failed' = failed /\ NextStatement.op # "throw"
    BY <1>6 DEF set, Passed
  <2>2. ~failed'
    BY <1>1, <2>1 DEF Running
  <2>3. failed' \in BOOLEAN
    BY <2>1 DEF FilesInv, FilesTypeOK
  <2> QED  BY <1>1, <1>2, <1>3, <1>4, <1>5, <2>1, <2>2, <2>3, SameFiles
<1>7. CASE throw
  <2>1. failed' /\ NextStatement.op = "throw"
    BY <1>7 DEF throw
  <2>2. failed' \in BOOLEAN
    BY <1>7, Zenon DEF throw
  <2> QED  BY <1>1, <1>2, <1>3, <1>4, <2>1, <2>2, SameFiles
<1> QED  BY <1>6, <1>7

\* The place of the first error of a body.
FirstThrow(body) == CHOOSE i \in Throws(body) : \A j \in Throws(body) : i <= j

\* and the end of a file, with clearCurrentFiberError.
LEMMA ExecReturns ==
  ASSUME FilesInv, execReturns
  PROVE  FilesInv'
<1> DEFINE e == SubSeq(execs, 1, Len(execs) - 1)
           n == Len(execs)
           body == BodyOf(TopExec)
<1>1. /\ execs # <<>> /\ files' = files /\ execs' = e /\ journalDepth' = journalDepth
      /\ (failed \/ TopExec.next > Len(body)) /\ execDepth' = execDepth - 1
      /\ returned' = [file |-> TopExec.file, noCalls |-> TopExec.noCalls,
                      ret |-> Compiles(TopExec.file), ran |-> TopExec.next - 1]
  BY DEF execReturns
<1>2. /\ execs \in Seq(ExecType) /\ n \in Nat /\ n > 0 /\ DOMAIN execs = 1 .. n /\ execDepth = n
      /\ TopExec = execs[n] /\ TopExec \in ExecType /\ JournalOK(execs, journalDepth)
      /\ journalDepth \in Nat \ {0} /\ FilesTypeOK
  <2>1. execs \in Seq(ExecType) /\ n \in Nat /\ DOMAIN execs = 1 .. n
    BY DEF FilesInv, FilesTypeOK
  <2>2. n > 0
    BY <1>1, <2>1
  <2> QED  BY <2>1, <2>2 DEF TopExec, FilesInv, FilesTypeOK
<1>3. body \in Seq(FileStatements) /\ Len(body) \in Nat /\ DOMAIN body = 1 .. Len(body)
  BY <1>2, BodyType DEF FilesTypeOK, ExecType
<1>4. TopExec.next \in 1 .. (Len(body) + 1)
  BY <1>2 DEF FilesInv, ErrorsOK
<1>5. /\ e \in Seq(ExecType) /\ Len(e) = n - 1 /\ DOMAIN e = 1 .. (n - 1)
      /\ \A i \in 1 .. (n - 1) : e[i] = execs[i]
  BY <1>2
<1>6. JournalOK(e, journalDepth)
  BY <1>2, PoppedJournal
<1> HIDE DEF e
<1>7. ErrorsOK(e) /\ \A i \in DOMAIN e : PassedNoError(e[i])
  <2>1. \A i \in 1 .. (n - 1) : i \in DOMAIN execs
    BY <1>2
  <2>2. \A i \in DOMAIN e : e[i].next \in 1 .. (Len(BodyOf(e[i])) + 1) /\ PassedNoError(e[i])
    BY <1>2, <1>5, <2>1 DEF FilesInv, ErrorsOK
  <2>3. \A i \in 1 .. (Len(e) - 1) : i \in DOMAIN e
    BY <1>2, <1>5
  <2> QED  BY <2>2, <2>3 DEF ErrorsOK
<1>8. failed' \in BOOLEAN /\ (e # <<>> => ~failed')
  <2>1. failed' = (failed /\ n = 1)
    BY DEF execReturns, ClearedError
  <2>2. failed' \in BOOLEAN
    BY <2>1, Zenon
  <2>3. e # <<>> => n # 1
    BY <1>5
  <2> QED  BY <2>1, <2>2, <2>3
<1>9. returned'.ran = IF Throws(body) = {} THEN Len(body) ELSE FirstThrow(body)
  <2> HIDE DEF body
  <2>1. returned'.ran = TopExec.next - 1
    BY <1>1
  <2>2. CASE failed
    <3>1. /\ TopExec.next - 1 \in 1 .. Len(body) /\ body[TopExec.next - 1].op = "throw"
          /\ \A k \in 1 .. (TopExec.next - 2) : body[k].op # "throw"
      BY <1>1, <1>3, <2>2 DEF FilesInv, StoppedByError, body
    <3>2. TopExec.next - 1 \in Throws(body)
      BY <1>3, <3>1 DEF Throws
    <3>3. ASSUME NEW j \in Throws(body) PROVE TopExec.next - 1 <= j
      <4>1. j \in 1 .. Len(body) /\ body[j].op = "throw"
        BY <1>3 DEF Throws
      <4>2. ~(j \in 1 .. (TopExec.next - 2))
        BY <3>1, <4>1
      <4> QED  BY <1>4, <4>1, <4>2
    <3>4. \A j \in Throws(body) : j \in Nat
      BY <1>3 DEF Throws
    <3>5. FirstThrow(body) = TopExec.next - 1
      <4>1. /\ FirstThrow(body) \in Throws(body)
            /\ \A j \in Throws(body) : FirstThrow(body) <= j
        BY <3>2, <3>3 DEF FirstThrow
      <4> QED  BY <1>4, <3>2, <3>3, <3>4, <4>1
    <3> QED  BY <2>1, <3>2, <3>5
  <2>3. CASE ~failed
    <3>1. TopExec.next = Len(body) + 1
      BY <1>1, <1>3, <1>4, <2>3 DEF body
    <3>2. \A k \in 1 .. Len(body) : body[k].op # "throw"
      BY <1>1, <1>3, <2>3, <3>1 DEF FilesInv, PassedNoError, body
    <3>3. Throws(body) = {}
      BY <1>3, <3>2 DEF Throws
    <3> QED  BY <1>3, <2>1, <3>1, <3>3
  <2> QED  BY <2>2, <2>3
<1>10. ErrorsStayInTheirFile'
  <2>1. BodyOf(returned)' = body
    BY <1>1 DEF BodyOf
  <2> HIDE DEF body
  <2> QED  BY <1>9, <2>1 DEF ErrorsStayInTheirFile, FirstThrow, Throws
<1>11. execDepth' = Len(execs')
  BY <1>1, <1>2, <1>5
<1>12. e # <<>> => Len(e) \in DOMAIN e
  BY <1>2, <1>5
<1> QED  BY <1>1, <1>2, <1>5, <1>6, <1>7, <1>8, <1>10, <1>11, <1>12, SameFiles

\* A step of Con::exec and of the files it executes keeps the invariant.
LEMMA FilesInvStep == FilesInv /\ [FilesNext]_fileVars => FilesInv'
<1> SUFFICES ASSUME FilesInv, [FilesNext]_fileVars PROVE FilesInv'
  OBVIOUS
<1>1. ASSUME NEW file \in Files, NEW noCalls \in BOOLEAN, NEW inJournal \in BOOLEAN,
             hostExec(file, noCalls, inJournal)
      PROVE  FilesInv'
  BY <1>1, HostExecutes
<1>2. CASE set \/ throw
  BY <1>2, StatementsPass
<1>3. CASE scriptExec
  BY <1>3, ScriptExecutes
<1>4. CASE execReturns
  BY <1>4, ExecReturns
<1>5. CASE UNCHANGED fileVars
  <2>1. /\ files' = files /\ execs' = execs /\ execDepth' = execDepth /\ failed' = failed
        /\ journalDepth' = journalDepth /\ returned' = returned
    BY <1>5 DEF fileVars
  <2>2. FilesTypeOK' /\ JournalOK(execs, journalDepth)'
    BY <2>1 DEF FilesInv, FilesTypeOK, JournalOK
  <2>3. ErrorsOK(execs)'
    BY <2>1 DEF FilesInv, ErrorsOK, PassedNoError, BodyOf
  <2>4. (execs # <<>> /\ ~failed => PassedNoError(TopExec))'
    BY <2>1 DEF FilesInv, PassedNoError, TopExec, BodyOf
  <2>5. (execs # <<>> /\ failed => StoppedByError(TopExec))'
    BY <2>1 DEF FilesInv, StoppedByError, TopExec, BodyOf
  <2>6. ErrorsStayInTheirFile'
    <3>1. ErrorsStayInTheirFile
      BY DEF FilesInv
    <3>2. BodyOf(returned)' = BodyOf(returned)
      BY <2>1 DEF BodyOf
    <3> QED  BY <2>1, <3>1, <3>2 DEF ErrorsStayInTheirFile
  <2> HIDE DEF JournalOK, ErrorsOK, PassedNoError, StoppedByError
  <2> QED  BY <2>2, <2>3, <2>4, <2>5, <2>6, Zenon DEF FilesInv
<1> QED  BY <1>1, <1>2, <1>3, <1>4, <1>5 DEF FilesNext

\* The invariant says what is asked of the files.
LEMMA FilesInvSuffices == FilesInv => ExecutedFilesAgree
<1> SUFFICES ASSUME FilesInv PROVE JournalFollowsCallers
  BY DEF FilesInv, ExecutedFilesAgree
<1>1. execDepth = Len(execs) /\ DOMAIN execs = 1 .. Len(execs)
  BY DEF FilesInv, FilesTypeOK
<1>2. ASSUME NEW i \in DOMAIN execs
      PROVE  execs[i].journal = (\E j \in 1 .. i : execs[j].asked)
  <2>1. execs[i].journal <=> \E j \in 1 .. i : execs[j].asked
    BY DEF FilesInv, JournalOK
  <2>2. execs[i].journal \in BOOLEAN
    <3>1. execs[i] \in ExecType
      BY DEF FilesInv, FilesTypeOK
    <3> QED  BY <3>1, Zenon DEF ExecType
  <2> QED  BY <2>1, <2>2, Zenon
<1> QED  BY <1>1, <1>2 DEF JournalFollowsCallers

\* Whatever files hold and however they execute one another, by Con::exec: a
\* file is journaled exactly if it or a file it is executed from was asked to
\* be, the depth counts the open files, and a file runs to its end or to the
\* first error of its own.
THEOREM ExecutedFilesAlwaysAgree == FilesSpec => []ExecutedFilesAgree
<1>1. FilesInit => FilesInv
  BY FilesInvInit
<1>2. FilesInv /\ [FilesNext]_fileVars => FilesInv'
  BY FilesInvStep
<1>3. FilesInv => ExecutedFilesAgree
  BY FilesInvSuffices
<1> QED  BY <1>1, <1>2, <1>3, PTL DEF FilesSpec
-----------------------------------------------------------------------------
(* The telnet console.                                                     *)

StateNames == {States[i] : i \in 1 .. 6}
Client == [socket : Sockets \cup {0}, line : Seq(Keys), state : StateNames]

\* Each open socket belongs to one client; only clients a pass has been at may
\* have lost theirs.
OwnedIn(cs, open, at) ==
  /\ open = {cs[i].socket : i \in DOMAIN cs} \ {0}
  /\ \A i, j \in DOMAIN cs : cs[i].socket # 0 /\ cs[i].socket = cs[j].socket => i = j
  /\ \A i \in DOMAIN cs : at <= i => cs[i].socket # 0

TelnetTypeOK ==
  /\ clients \in Seq(Client)
  /\ service \in [accepts : BOOLEAN, open : SUBSET Sockets, undefined : BOOLEAN]
  /\ turn \in Nat
TelnetInv ==
  /\ TelnetTypeOK
  /\ ~service.undefined => OwnedIn(clients, service.open, turn)

\* After a wrong password comes the next try, and then being turned away.
LEMMA NextTry ==
  ASSUME NEW s \in StateNames \ {"FullAccessConnected", "ReadOnlyConnected"}
  PROVE  Following(s) \in StateNames
<1>1. /\ DOMAIN States = 1 .. 6 /\ States[1] = "PasswordTryOne" /\ States[2] = "PasswordTryTwo"
      /\ States[3] = "PasswordTryThree" /\ States[4] = "DisconnectThisDude"
      /\ States[5] = "FullAccessConnected" /\ States[6] = "ReadOnlyConnected"
  BY DEF States
<1> DEFINE i == CHOOSE i \in DOMAIN States : States[i] = s
<1>2. \E j \in DOMAIN States : States[j] = s
  BY <1>1 DEF StateNames
<1>3. i \in DOMAIN States /\ States[i] = s
  BY <1>2
<1> HIDE DEF i
<1>4. i \in 1 .. 4
  BY <1>1, <1>3
<1>5. i + 1 \in 1 .. 6
  BY <1>4
<1>6. States[i + 1] \in StateNames
  BY <1>5 DEF StateNames
<1> QED  BY <1>6 DEF Following, i

\* One byte: the client keeps its socket or loses it.
LEMMA OneByte ==
  ASSUME NEW c \in Client, NEW k \in Keys
  PROVE  TakeByte(c, k) \in Client /\ TakeByte(c, k).socket \in {c.socket, 0}
<1>1. c.line \in Seq(Keys) /\ c.state \in StateNames /\ c.socket \in Sockets \cup {0}
  BY DEF Client
<1>2. <<>> \in Seq(Keys)
  OBVIOUS
<1>3. Line(c) \in Client /\ Line(c).socket \in {c.socket, 0}
  <2>1. CASE c.state \in {"FullAccessConnected", "ReadOnlyConnected"}
    <3>1. Line(c) = [c EXCEPT !.line = <<>>]
      BY <2>1 DEF Line
    <3> QED  BY <1>1, <1>2, <3>1 DEF Client
  <2>2. CASE c.state \notin {"FullAccessConnected", "ReadOnlyConnected"}
    <3> DEFINE next == Following(c.state)
               known == c.line \in {telnetPassword, listenPassword}
               socket == IF ~known /\ next = "DisconnectThisDude" THEN 0 ELSE c.socket
               state == CASE c.line = telnetPassword -> "FullAccessConnected"
                          [] c.line # telnetPassword /\ c.line = listenPassword -> "ReadOnlyConnected"
                          [] ~known -> next
    <3>1. Line(c) = [socket |-> socket, line |-> <<>>, state |-> state]
      BY <2>2 DEF Line
    <3>2. next \in StateNames
      BY <1>1, <2>2, NextTry
    <3>3. "FullAccessConnected" \in StateNames /\ "ReadOnlyConnected" \in StateNames
      <4>1. States[5] = "FullAccessConnected" /\ States[6] = "ReadOnlyConnected"
        BY DEF States
      <4> QED  BY <4>1 DEF StateNames
    <3> HIDE DEF next
    <3>4. state \in StateNames /\ socket \in {c.socket, 0}
      BY <3>2, <3>3
    <3> HIDE DEF state, socket
    <3> QED  BY <1>1, <1>2, <3>1, <3>4 DEF Client
  <2> QED  BY <2>1, <2>2
<1>4. CASE k = "newline" \/ k = "return"
  BY <1>3, <1>4 DEF TakeByte
<1>5. CASE k = "backspace"
  <2>1. c.line # <<>> => Front(c.line) \in Seq(Keys)
    BY <1>1 DEF Front
  <2> DEFINE line == IF c.line = <<>> THEN c.line ELSE Front(c.line)
  <2>2. line \in Seq(Keys)
    BY <1>1, <2>1
  <2>3. TakeByte(c, k) = [c EXCEPT !.line = line]
    BY <1>5 DEF TakeByte
  <2> HIDE DEF line
  <2> QED  BY <2>2, <2>3 DEF Client
<1>6. CASE k \notin {"newline", "return", "backspace"}
  <2>1. TakeByte(c, k) = Typed(c, k)
    BY <1>6 DEF TakeByte
  <2>2. Append(c.line, k) \in Seq(Keys)
    BY <1>1
  <2> QED  BY <2>1, <2>2 DEF Typed, Client
<1> QED  BY <1>4, <1>5, <1>6

\* The clients a client becomes, byte by byte, as a function on 0 .. m.
IsAfter(f, c, bytes, m) ==
  f = [n \in 0 .. m |-> IF n = 0 THEN c ELSE TakeByte(f[n - 1], bytes[n])]

LEMMA AfterExists ==
  ASSUME NEW c, NEW bytes
  PROVE  \A m \in Nat : \E f : IsAfter(f, c, bytes, m)
<1> DEFINE M == {m \in Nat : \E f : IsAfter(f, c, bytes, m)}
<1>1. 0 \in M
  <2> DEFINE f == [n \in 0 .. 0 |-> c]
  <2>1. IsAfter(f, c, bytes, 0)
    BY DEF IsAfter
  <2> QED  BY <2>1
<1>2. ASSUME NEW m \in M PROVE m + 1 \in M
  <2>1. m \in Nat
    OBVIOUS
  <2>2. PICK f : IsAfter(f, c, bytes, m)
    OBVIOUS
  <2> HIDE DEF M
  <2> DEFINE g == [n \in 0 .. m + 1 |-> IF n = m + 1 THEN TakeByte(f[m], bytes[m + 1]) ELSE f[n]]
  <2>3. ASSUME NEW n \in 0 .. m + 1
        PROVE  g[n] = IF n = 0 THEN c ELSE TakeByte(g[n - 1], bytes[n])
    <3>1. CASE n = m + 1
      <4>1. n # 0 /\ n - 1 = m /\ m \in 0 .. m + 1 /\ m # m + 1
        BY <2>1, <3>1
      <4>2. g[n] = TakeByte(f[m], bytes[m + 1]) /\ g[m] = f[m]
        BY <3>1, <4>1
      <4> QED  BY <3>1, <4>1, <4>2
    <3>2. CASE n # m + 1
      <4>1. n \in 0 .. m /\ g[n] = f[n]
        BY <2>1, <3>2
      <4>2. f[n] = IF n = 0 THEN c ELSE TakeByte(f[n - 1], bytes[n])
        BY <2>2, <4>1, Zenon DEF IsAfter
      <4>3. n # 0 => n - 1 \in 0 .. m + 1 /\ n - 1 # m + 1
        BY <2>1, <4>1
      <4>4. n # 0 => g[n - 1] = f[n - 1]
        BY <4>3
      <4> QED  BY <4>1, <4>2, <4>4
    <3> QED  BY <3>1, <3>2
  <2>4. g = [n \in 0 .. m + 1 |-> g[n]]
    OBVIOUS
  <2> HIDE DEF g
  <2>5. IsAfter(g, c, bytes, m + 1)
    BY <2>3, <2>4 DEF IsAfter
  <2> QED  BY <2>1, <2>5 DEF M
<1> HIDE DEF M
<1>3. M = Nat
  <2>1. M \in SUBSET Nat
    BY DEF M
  <2> QED  BY <1>1, <1>2, <2>1, SetInduction
<1> QED  BY <1>3 DEF M

\* What was received: the client keeps its socket or loses it.
LEMMA AllBytes ==
  ASSUME NEW c \in Client, NEW bytes \in Seq(Keys)
  PROVE  TakeBytes(c, bytes) \in Client /\ TakeBytes(c, bytes).socket \in {c.socket, 0}
<1> DEFINE after == CHOOSE f : f = [n \in 0 .. Len(bytes) |->
                      IF n = 0 THEN c ELSE TakeByte(f[n - 1], bytes[n])]
<1>1. TakeBytes(c, bytes) = after[Len(bytes)]
  BY DEF TakeBytes
<1>2. Len(bytes) \in Nat
  OBVIOUS
<1>3. PICK f : IsAfter(f, c, bytes, Len(bytes))
  BY <1>2, AfterExists
<1>4. after = [n \in 0 .. Len(bytes) |-> IF n = 0 THEN c ELSE TakeByte(after[n - 1], bytes[n])]
  BY <1>3, Zenon DEF IsAfter
<1> HIDE DEF after
<1>5. \A n \in 0 .. Len(bytes) :
         after[n] = IF n = 0 THEN c ELSE TakeByte(after[n - 1], bytes[n])
  BY <1>4, Zenon
<1> DEFINE M == {m \in Nat : m <= Len(bytes) => after[m] \in Client /\ after[m].socket \in {c.socket, 0}}
<1>6. 0 \in M
  BY <1>2, <1>5
<1>7. ASSUME NEW m \in M PROVE m + 1 \in M
  <2> SUFFICES ASSUME m + 1 <= Len(bytes)
               PROVE  after[m + 1] \in Client /\ after[m + 1].socket \in {c.socket, 0}
    OBVIOUS
  <2>1. m \in Nat /\ m + 1 \in 0 .. Len(bytes) /\ m + 1 # 0 /\ m + 1 - 1 = m /\ m <= Len(bytes)
    BY <1>2
  <2>2. after[m] \in Client /\ after[m].socket \in {c.socket, 0}
    BY <2>1
  <2>3. after[m + 1] = TakeByte(after[m], bytes[m + 1])
    BY <1>5, <2>1
  <2>4. bytes[m + 1] \in Keys
    BY <1>2, <2>1
  <2> HIDE DEF M
  <2>5. /\ TakeByte(after[m], bytes[m + 1]) \in Client
        /\ TakeByte(after[m], bytes[m + 1]).socket \in {after[m].socket, 0}
    BY <2>2, <2>4, OneByte
  <2> QED  BY <2>2, <2>3, <2>5
<1> HIDE DEF M
<1>8. M = Nat
  <2>1. M \in SUBSET Nat
    BY DEF M
  <2> QED  BY <1>6, <1>7, <2>1, SetInduction
<1> QED  BY <1>1, <1>2, <1>8 DEF M

\* No client is connected at first.
LEMMA TelnetInvInit == TelnetInit => TelnetInv
<1> SUFFICES ASSUME TelnetInit PROVE TelnetInv
  OBVIOUS
<1>1. clients = <<>> /\ clients \in Seq(Client) /\ DOMAIN clients = {}
  BY DEF TelnetInit
<1>2. service = [accepts |-> FALSE, open |-> {}, undefined |-> FALSE] /\ turn = 0
  BY DEF TelnetInit
<1>3. TelnetTypeOK
  BY <1>1, <1>2 DEF TelnetTypeOK
<1>4. OwnedIn(clients, service.open, turn)
  BY <1>1, <1>2 DEF OwnedIn
<1> QED  BY <1>3, <1>4 DEF TelnetInv

\* The listener is opened again; the clients are let go of (the list keeps what
\* was freed, so that only an empty one leaves the program defined).
LEMMA ServiceChanges ==
  ASSUME TelnetInv, setTelnetParameters \/ Disconnect
  PROVE  TelnetInv'
<1>1. TelnetTypeOK /\ clients' = clients /\ turn' = turn
  BY DEF TelnetInv, setTelnetParameters, Disconnect
<1>2. CASE setTelnetParameters
  <2>1. PICK ok \in BOOLEAN : service' = [service EXCEPT !.accepts = ok]
    BY <1>2 DEF setTelnetParameters
  <2>2. /\ service' \in [accepts : BOOLEAN, open : SUBSET Sockets, undefined : BOOLEAN]
        /\ service'.open = service.open /\ service'.undefined = service.undefined
    BY <1>1, <2>1 DEF TelnetTypeOK
  <2> QED  BY <1>1, <2>2 DEF TelnetInv, TelnetTypeOK, OwnedIn
<1>3. CASE Disconnect
  <2> DEFINE sockets == {clients[i].socket : i \in DOMAIN clients}
  <2>1. service' = [accepts |-> service.accepts, open |-> service.open \ sockets, undefined |-> clients # <<>>]
    BY <1>3 DEF Disconnect, disconnect
  <2>2. service' \in [accepts : BOOLEAN, open : SUBSET Sockets, undefined : BOOLEAN]
    <3>1. (clients # <<>>) \in BOOLEAN
      OBVIOUS
    <3> QED  BY <1>1, <2>1, <3>1 DEF TelnetTypeOK
  <2>3. ASSUME clients = <<>> PROVE OwnedIn(clients, service'.open, turn)
    <3>1. DOMAIN clients = {} /\ service'.open = service.open
      BY <2>1, <2>3
    <3>2. ~service.undefined
      BY <1>3 DEF Disconnect, Between
    <3> QED  BY <3>1, <3>2 DEF TelnetInv
  <2>4. ~service'.undefined => clients = <<>>
    BY <2>1
  <2> QED  BY <1>1, <2>2, <2>3, <2>4 DEF TelnetInv, TelnetTypeOK, OwnedIn
<1> QED  BY <1>2, <1>3

\* process() accepts a connection, or lets go of the clients once it does not
\* listen any more.
LEMMA PassBegins ==
  ASSUME TelnetInv, beginPass
  PROVE  TelnetInv'
<1>1. TelnetTypeOK /\ turn = 0 /\ turn' = 1 /\ ~service.undefined /\ OwnedIn(clients, service.open, turn)
  BY DEF TelnetInv, beginPass, Between
<1>2. /\ clients \in Seq(Client) /\ Len(clients) \in Nat /\ DOMAIN clients = 1 .. Len(clients)
      /\ service \in [accepts : BOOLEAN, open : SUBSET Sockets, undefined : BOOLEAN]
      /\ \A i \in DOMAIN clients : clients[i].socket # 0
  BY <1>1 DEF TelnetTypeOK, OwnedIn
<1>3. CASE clients' = clients /\ service' = service
  BY <1>1, <1>2, <1>3 DEF TelnetInv, TelnetTypeOK, OwnedIn
<1>4. ASSUME NEW s \in Sockets \ service.open, clients' = <<TelnetClient(s)>> \o clients,
             service' = [service EXCEPT !.open = @ \cup {s}]
      PROVE  TelnetInv'
  <2> DEFINE c == TelnetClient(s)
             cs == <<c>> \o clients
  <2>1. c \in Client /\ c.socket = s
    <3>1. "PasswordTryOne" \in StateNames
      <4>1. States[1] = "PasswordTryOne"
        BY DEF States
      <4> QED  BY <4>1 DEF StateNames
    <3> QED  BY <3>1 DEF TelnetClient, Client
  <2> HIDE DEF c
  <2>2. /\ cs \in Seq(Client) /\ DOMAIN cs = 1 .. (Len(clients) + 1) /\ cs[1] = c
        /\ \A i \in 1 .. Len(clients) : cs[i + 1] = clients[i]
    <3>1. <<c>> \in Seq(Client) /\ Len(<<c>>) = 1 /\ <<c>>[1] = c
      BY <2>1
    <3>2. cs \in Seq(Client) /\ Len(cs) = Len(clients) + 1
      BY <1>2, <3>1
    <3>3. \A i \in 1 .. Len(clients) : cs[i + 1] = clients[i]
      BY <1>2, <3>1
    <3> QED  BY <1>2, <3>1, <3>2, <3>3
  <2> HIDE DEF cs
  <2>3. \A i \in 2 .. (Len(clients) + 1) : i - 1 \in 1 .. Len(clients) /\ cs[i] = clients[i - 1]
    <3> SUFFICES ASSUME NEW i \in 2 .. (Len(clients) + 1)
                 PROVE  i - 1 \in 1 .. Len(clients) /\ cs[i] = clients[i - 1]
      OBVIOUS
    <3>1. i - 1 \in 1 .. Len(clients) /\ i - 1 + 1 = i
      BY <1>2
    <3> QED  BY <2>2, <3>1
  <2>4. s # 0 /\ s \notin service.open
    BY TelnetAssumption
  <2>5. \A i \in DOMAIN clients : clients[i].socket \in service.open
    BY <1>1, <1>2 DEF OwnedIn
  <2>9. ASSUME NEW i \in DOMAIN cs, i # 1
        PROVE  i - 1 \in DOMAIN clients /\ cs[i] = clients[i - 1] /\ cs[i].socket \in service.open
    <3>1. i \in 2 .. (Len(clients) + 1)
      BY <1>2, <2>2, <2>9
    <3>2. i - 1 \in DOMAIN clients /\ cs[i] = clients[i - 1]
      BY <1>2, <2>3, <3>1
    <3> QED  BY <2>5, <3>2
  <2>6. OwnedIn(cs, service.open \cup {s}, 1)
    <3>1. service.open \cup {s} = {cs[i].socket : i \in DOMAIN cs} \ {0}
      <4>1. ASSUME NEW x \in service.open PROVE \E i \in DOMAIN cs : cs[i].socket = x
        <5>1. PICK i \in DOMAIN clients : clients[i].socket = x
          BY <1>1 DEF OwnedIn
        <5>2. i + 1 \in DOMAIN cs /\ cs[i + 1] = clients[i]
          BY <1>2, <2>2
        <5> QED  BY <5>1, <5>2
      <4>2. ASSUME NEW i \in DOMAIN cs PROVE cs[i].socket \in service.open \cup {s}
        <5>1. CASE i = 1
          BY <2>1, <2>2, <5>1
        <5>2. CASE i # 1
          BY <2>9, <5>2
        <5> QED  BY <5>1, <5>2
      <4>3. 1 \in DOMAIN cs /\ cs[1].socket = s
        BY <1>2, <2>1, <2>2
      <4>4. 0 \notin service.open
        BY <1>1 DEF OwnedIn
      <4> QED  BY <2>4, <4>1, <4>2, <4>3, <4>4
    <3>2. ASSUME NEW i \in DOMAIN cs, NEW j \in DOMAIN cs, cs[i].socket = cs[j].socket PROVE i = j
      <4>1. CASE i = 1 \/ j = 1
        <5>1. cs[1].socket = s
          BY <2>1, <2>2
        <5> QED  BY <2>4, <2>9, <3>2, <4>1, <5>1
      <4>2. CASE i # 1 /\ j # 1
        <5>1. /\ i - 1 \in DOMAIN clients /\ cs[i] = clients[i - 1]
              /\ j - 1 \in DOMAIN clients /\ cs[j] = clients[j - 1]
          BY <2>9, <4>2
        <5>2. i - 1 = j - 1
          BY <1>1, <1>2, <3>2, <5>1 DEF OwnedIn
        <5> QED  BY <1>2, <2>2, <5>2
      <4> QED  BY <4>1, <4>2
    <3>3. \A i \in DOMAIN cs : cs[i].socket # 0
      <4>1. 0 \notin service.open
        BY <1>1 DEF OwnedIn
      <4> QED  BY <2>1, <2>2, <2>4, <2>9, <4>1
    <3> QED  BY <3>1, <3>2, <3>3 DEF OwnedIn
  <2>7. clients' = cs
    BY <1>4 DEF cs, c
  <2>8. /\ service' \in [accepts : BOOLEAN, open : SUBSET Sockets, undefined : BOOLEAN]
        /\ service'.open = service.open \cup {s}
    BY <1>2, <1>4
  <2>10. OwnedIn(clients', service'.open, turn')
    BY <1>1, <2>6, <2>7, <2>8
  <2>11. clients' \in Seq(Client) /\ turn' \in Nat
    BY <1>1, <2>2, <2>7
  <2> QED  BY <2>8, <2>10, <2>11 DEF TelnetInv, TelnetTypeOK
<1>5. ASSUME service' = disconnect, clients' = clients
      PROVE  TelnetInv'
  <2>1. service' = [accepts |-> service.accepts,
                    open |-> service.open \ {clients[i].socket : i \in DOMAIN clients},
                    undefined |-> clients # <<>>]
    BY <1>5 DEF disconnect
  <2>2. service' \in [accepts : BOOLEAN, open : SUBSET Sockets, undefined : BOOLEAN]
    BY <1>2, <2>1
  <2>3. ASSUME clients = <<>> PROVE OwnedIn(clients, service'.open, 1)
    <3>1. DOMAIN clients = {}
      BY <2>3
    <3>2. service'.open = service.open
      BY <2>1, <3>1
    <3> QED  BY <1>1, <3>1, <3>2 DEF OwnedIn
  <2>4. ~service'.undefined => clients = <<>>
    BY <2>1
  <2> QED  BY <1>1, <1>5, <2>2, <2>3, <2>4 DEF TelnetInv, TelnetTypeOK, OwnedIn
<1> QED  BY <1>3, <1>4, <1>5 DEF beginPass

\* The client a pass is at keeps its socket, or loses it and it is closed.
LEMMA ClientServed ==
  ASSUME NEW cs \in Seq(Client), NEW open \in SUBSET Sockets, NEW at \in DOMAIN cs,
         OwnedIn(cs, open, at), NEW d \in Client, d.socket \in {cs[at].socket, 0},
         NEW left, left = IF cs[at].socket # d.socket THEN open \ {cs[at].socket} ELSE open
  PROVE  /\ [cs EXCEPT ![at] = d] \in Seq(Client) /\ left \in SUBSET Sockets
         /\ OwnedIn([cs EXCEPT ![at] = d], left, at + 1)
<1> DEFINE f == [cs EXCEPT ![at] = d]
<1>1. /\ f \in Seq(Client) /\ DOMAIN f = DOMAIN cs /\ DOMAIN cs \subseteq Nat /\ f[at] = d
      /\ \A i \in DOMAIN cs : i # at => f[i] = cs[i]
  OBVIOUS
<1> HIDE DEF f
<1>2. cs[at].socket # 0
  BY <1>1 DEF OwnedIn
<1>3. \A i, j \in DOMAIN cs : cs[i].socket # 0 /\ cs[i].socket = cs[j].socket => i = j
  BY DEF OwnedIn
<1>4. left = {f[i].socket : i \in DOMAIN f} \ {0}
  <2>1. ASSUME NEW x \in left PROVE x # 0 /\ \E i \in DOMAIN f : f[i].socket = x
    <3>1. PICK i \in DOMAIN cs : cs[i].socket = x /\ x # 0
      BY DEF OwnedIn
    <3>2. CASE i = at
      BY <1>1, <3>1, <3>2
    <3>3. CASE i # at
      BY <1>1, <3>1, <3>3
    <3> QED  BY <3>1, <3>2, <3>3
  <2>2. ASSUME NEW i \in DOMAIN f, f[i].socket # 0 PROVE f[i].socket \in left
    <3>1. CASE i = at
      <4>1. d.socket = cs[at].socket /\ cs[at].socket \in open
        BY <1>1, <1>2, <2>2, <3>1 DEF OwnedIn
      <4> QED  BY <1>1, <3>1, <4>1
    <3>2. CASE i # at
      <4>1. f[i] = cs[i] /\ cs[i].socket \in open
        BY <1>1, <2>2, <3>2 DEF OwnedIn
      <4>2. cs[i].socket # cs[at].socket
        BY <1>1, <1>2, <1>3, <3>2
      <4> QED  BY <4>1, <4>2
    <3> QED  BY <3>1, <3>2
  <2> QED  BY <2>1, <2>2
<1>5. ASSUME NEW i \in DOMAIN f, NEW j \in DOMAIN f, f[i].socket # 0, f[i].socket = f[j].socket
      PROVE  i = j
  <2>1. f[i].socket = cs[i].socket
    BY <1>1, <1>5
  <2>2. f[j].socket = cs[j].socket
    BY <1>1, <1>5
  <2> QED  BY <1>1, <1>3, <1>5, <2>1, <2>2
<1>6. ASSUME NEW i \in DOMAIN f, at + 1 <= i PROVE f[i].socket # 0
  <2>1. i # at /\ at <= i /\ i \in DOMAIN cs
    BY <1>1, <1>6
  <2> QED  BY <1>1, <2>1 DEF OwnedIn
<1>7. OwnedIn(f, left, at + 1)
  BY <1>4, <1>5, <1>6 DEF OwnedIn
<1> QED  BY <1>1, <1>7 DEF f

\* process() takes what a client sent, or finds that it is gone.
LEMMA ClientsServed ==
  ASSUME TelnetInv, takeBytes \/ receiveFails
  PROVE  TelnetInv'
<1> DEFINE cs == clients
           open == service.open
           c == clients[turn]
<1>1. /\ cs \in Seq(Client) /\ open \in SUBSET Sockets /\ turn \in DOMAIN cs /\ turn \in Nat
      /\ OwnedIn(cs, open, turn) /\ c \in Client /\ turn' = turn + 1
      /\ service \in [accepts : BOOLEAN, open : SUBSET Sockets, undefined : BOOLEAN]
  <2>1. turn \in DOMAIN clients /\ ~service.undefined /\ turn' = turn + 1
    BY DEF takeBytes, receiveFails
  <2> QED  BY <2>1 DEF TelnetInv, TelnetTypeOK
<1>2. ASSUME NEW d \in Client, d.socket \in {c.socket, 0}, clients' = [clients EXCEPT ![turn] = d],
             IF c.socket # d.socket THEN StopSocket(c.socket) ELSE UNCHANGED service
      PROVE  TelnetInv'
  <2> DEFINE left == IF c.socket # d.socket THEN open \ {c.socket} ELSE open
  <2>1. /\ service'.open = left
        /\ service' \in [accepts : BOOLEAN, open : SUBSET Sockets, undefined : BOOLEAN]
    BY <1>1, <1>2 DEF StopSocket
  <2> DEFINE e == [clients EXCEPT ![turn] = d]
  <2>2. e \in Seq(Client) /\ OwnedIn(e, left, turn + 1)
    <3> HIDE DEF open
    <3> QED  BY <1>1, <1>2, ClientServed
  <2>3. clients' = e
    BY <1>2
  <2> HIDE DEF left, e
  <2>4. OwnedIn(clients', service'.open, turn')
    BY <1>1, <2>1, <2>2, <2>3
  <2>5. clients' \in Seq(Client) /\ turn' \in Nat
    BY <1>1, <2>2, <2>3
  <2> QED  BY <2>1, <2>4, <2>5 DEF TelnetInv, TelnetTypeOK
<1>3. CASE takeBytes
  <2>0. PICK n \in 0 .. MaxRecv : \E bytes \in [1 .. n -> Keys] :
          /\ clients' = [clients EXCEPT ![turn] = TakeBytes(c, bytes)]
          /\ IF c.socket # TakeBytes(c, bytes).socket THEN StopSocket(c.socket) ELSE UNCHANGED service
    BY <1>3 DEF takeBytes
  <2>1. PICK bytes \in [1 .. n -> Keys] :
          /\ clients' = [clients EXCEPT ![turn] = TakeBytes(c, bytes)]
          /\ IF c.socket # TakeBytes(c, bytes).socket THEN StopSocket(c.socket) ELSE UNCHANGED service
    BY <2>0
  <2>2. bytes \in Seq(Keys)
    <3>1. n \in Nat
      BY TelnetAssumption
    <3> QED  BY <3>1
  <2>3. TakeBytes(c, bytes) \in Client /\ TakeBytes(c, bytes).socket \in {c.socket, 0}
    BY <1>1, <2>2, AllBytes
  <2> QED  BY <1>2, <2>1, <2>3
<1>4. CASE receiveFails
  <2> DEFINE d == [c EXCEPT !.socket = 0]
  <2>1. d \in Client /\ d.socket = 0
    BY <1>1 DEF Client
  <2>2. clients' = [clients EXCEPT ![turn] = d] /\ StopSocket(c.socket)
    BY <1>4 DEF receiveFails
  <2>3. c.socket # 0
    BY <1>1 DEF OwnedIn
  <2> HIDE DEF d
  <2> QED  BY <1>2, <2>1, <2>2, <2>3
<1> QED  BY <1>3, <1>4

\* process() drops the clients that lost their socket.
LEMMA PassEnds ==
  ASSUME TelnetInv, endPass
  PROVE  TelnetInv'
<1> DEFINE cs == clients
           T == {clients[i] : i \in {j \in DOMAIN clients : clients[j].socket # 0}}
           f == Chosen(cs, T)
<1>1. /\ cs \in Seq(Client) /\ Len(cs) \in Nat /\ DOMAIN cs = 1 .. Len(cs)
      /\ OwnedIn(cs, service.open, turn) /\ TelnetTypeOK
      /\ clients' = f /\ turn' = 0 /\ service' = service
  BY DEF TelnetInv, TelnetTypeOK, endPass
<1>2. \A i \in 1 .. Len(cs) : cs[i] \in T <=> cs[i].socket # 0
  BY <1>1
<1> HIDE DEF T
<1>3. f \in Seq(Client) /\ \E e : Picks(e, f, cs, T, Len(cs))
  <2> HIDE DEF cs
  <2> QED  BY <1>1, ChosenIs
<1>4. PICK e : Picks(e, f, cs, T, Len(cs))
  BY <1>3
<1>5. Len(f) \in Nat /\ DOMAIN f = 1 .. Len(f)
  BY <1>3
<1> HIDE DEF f
<1>6. /\ \A k \in 1 .. Len(f) : e[k] \in 1 .. Len(cs) /\ f[k] = cs[e[k]] /\ cs[e[k]].socket # 0
      /\ \A j, k \in 1 .. Len(f) : j < k => e[j] < e[k]
      /\ \A i \in 1 .. Len(cs) : cs[i].socket # 0 => \E k \in 1 .. Len(f) : e[k] = i
  BY <1>2, <1>4 DEF Picks
<1> HIDE DEF cs
<1>7. \A i, j \in 1 .. Len(cs) : cs[i].socket # 0 /\ cs[i].socket = cs[j].socket => i = j
  BY <1>1 DEF OwnedIn
<1>8. service.open = {f[k].socket : k \in DOMAIN f} \ {0}
  <2>1. ASSUME NEW x \in service.open PROVE x # 0 /\ \E k \in DOMAIN f : f[k].socket = x
    <3>1. PICK i \in 1 .. Len(cs) : cs[i].socket = x /\ x # 0
      BY <1>1 DEF OwnedIn
    <3>2. PICK k \in 1 .. Len(f) : e[k] = i
      BY <1>6, <3>1
    <3> QED  BY <1>5, <1>6, <3>1, <3>2
  <2>2. ASSUME NEW k \in DOMAIN f PROVE f[k].socket \in service.open
    <3>1. e[k] \in DOMAIN cs /\ f[k] = cs[e[k]] /\ cs[e[k]].socket # 0
      BY <1>1, <1>5, <1>6
    <3> QED  BY <1>1, <3>1 DEF OwnedIn
  <2>3. \A x \in service.open : x \in {f[k].socket : k \in DOMAIN f} /\ x # 0
    BY <2>1
  <2>4. \A x \in {f[k].socket : k \in DOMAIN f} : x \in service.open
    BY <2>2
  <2>5. ASSUME NEW x PROVE x \in service.open <=> x \in {f[k].socket : k \in DOMAIN f} \ {0}
    <3>1. 0 \notin service.open
      BY <1>1 DEF OwnedIn
    <3> QED  BY <2>3, <2>4, <3>1
  <2> QED  BY <2>5, SMTT(30)
<1>9. ASSUME NEW j \in DOMAIN f, NEW k \in DOMAIN f, f[j].socket = f[k].socket PROVE j = k
  <2>1. e[j] = e[k] /\ e[j] \in Nat
    <3>1. /\ e[j] \in 1 .. Len(cs) /\ f[j] = cs[e[j]] /\ cs[e[j]].socket # 0
          /\ e[k] \in 1 .. Len(cs) /\ f[k] = cs[e[k]]
      BY <1>5, <1>6
    <3>2. cs[e[j]].socket = cs[e[k]].socket
      BY <1>9, <3>1
    <3>3. e[j] = e[k]
      BY <1>7, <3>1, <3>2
    <3> QED  BY <1>1, <3>1, <3>3
  <2>2. ~(j < k) /\ ~(k < j)
    BY <1>5, <1>6, <2>1
  <2> QED  BY <1>5, <2>2
<1>10. OwnedIn(f, service.open, 0)
  <2>1. \A k \in DOMAIN f : f[k].socket # 0
    BY <1>5, <1>6
  <2> QED  BY <1>8, <1>9, <2>1 DEF OwnedIn
<1>11. OwnedIn(clients', service'.open, turn')
  BY <1>1, <1>10
<1>12. clients' \in Seq(Client) /\ turn' \in Nat /\ TelnetTypeOK
  BY <1>1, <1>3
<1> QED  BY <1>1, <1>11, <1>12 DEF TelnetInv, TelnetTypeOK

\* A step of process(), setTelnetParameters or Vm::telnetDisconnect keeps the
\* invariant.
LEMMA TelnetInvStep == TelnetInv /\ [TelnetNext]_telnetVars => TelnetInv'
<1> SUFFICES ASSUME TelnetInv, [TelnetNext]_telnetVars PROVE TelnetInv'
  OBVIOUS
<1>1. CASE UNCHANGED telnetVars
  BY <1>1 DEF telnetVars, TelnetInv, TelnetTypeOK, OwnedIn
<1> QED  BY <1>1, ServiceChanges, PassBegins, ClientsServed, PassEnds DEF TelnetNext

\* Whatever clients type in whatever portions, whichever receive fails and
\* however often the listener is opened again: between passes of process() the
\* interface's open sockets are those of the listed clients, each of one.
THEOREM SocketsAlwaysOwned == TelnetSpec => []ConsoleSocketsOwned
<1>1. TelnetInv => ConsoleSocketsOwned
  <2> SUFFICES ASSUME TelnetInv, turn = 0, ~service.undefined PROVE ConsoleSocketsOwned
    BY DEF ConsoleSocketsOwned, Between
  <2>1. OwnedIn(clients, service.open, 0) /\ \A i \in DOMAIN clients : 0 <= i
    BY DEF TelnetInv, TelnetTypeOK
  <2> QED  BY <2>1 DEF OwnedIn, ConsoleSocketsOwned
<1> QED  BY <1>1, TelnetInvInit, TelnetInvStep, PTL DEF TelnetSpec
=============================================================================
