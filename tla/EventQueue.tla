----------------------------- MODULE EventQueue -----------------------------
(***************************************************************************)
(* The Sim's event queue (torqueSim/sim/simManager.cc), the script         *)
(* functions that post to it (simBase.cc), the threads that print through  *)
(* it (Con::printf, console.cc) and the deletion of the objects events are *)
(* posted to.                                                              *)
(*                                                                         *)
(* The queue's mutex is recursive and advanceToTime holds it while it      *)
(* runs events, so a worker thread's post waits for the whole loop, but    *)
(* the main thread's own calls, made by the event being processed, do not. *)
(* Event times are U32 although the clock is a U64.                        *)
(***************************************************************************)
EXTENDS Integers, SequencesExt

CONSTANTS
  Objects,      \* the objects that events are posted to, besides the root group
  Root,         \* the root group
  Workers,      \* threads other than the main one
  ObjectDeltas, \* the delays obj.schedule() is called with (any S32)
  Delays,       \* the delays schedule() is called with
  TimeModulus,  \* 2^32 in the code: postEvent's time parameter is a U32
  MaxTime,      \* bound on the clock
  MaxEvents,    \* bound on the events ever posted
  NoEvent, NoTime

ASSUME EventQueueAssumption ==
  /\ ObjectDeltas \subseteq Int /\ Delays \subseteq Nat
  /\ TimeModulus \in Nat \ {0} /\ MaxTime \in Nat /\ MaxEvents \in Nat
  /\ Root \notin Objects /\ NoTime \notin Nat

VARIABLES
  gCurrentTime, gTargetTime, gEventSequence,
  gEventQueue,   \* the linked list, head first
  advancing,     \* inside advanceToTime (which holds gEventQueueMutex)
  processing,    \* the event whose process() runs, or NoEvent
  life,          \* each object: "added", "deleting" (onRemove runs) or "freed"
  deleting,      \* the objects inside deleteObject, innermost last
  cancelling,    \* the innermost deleteObject is inside cancelPendingEvents
  readTime       \* the target time a worker has read for its post, or NoTime

queueVars == <<gEventQueue, gEventSequence>>
clockVars == <<gCurrentTime, gTargetTime, advancing, processing>>
lifeVars == <<life, deleting, cancelling>>
eqVars == <<queueVars, clockVars, lifeVars, readTime>>

Dests == Objects \cup {Root}
Event == [time : Nat, startTime : Nat, sequenceCount : Nat, destObject : Dests]

EQInit ==
  /\ gCurrentTime = 0 /\ gTargetTime = 0 /\ gEventSequence = 1 /\ gEventQueue = <<>>
  /\ advancing = FALSE /\ processing = NoEvent
  /\ life = [o \in Objects |-> "added"] /\ deleting = <<>> /\ cancelling = FALSE
  /\ readTime = [w \in Workers |-> NoTime]

\* Script or host code of the main thread is executing, outside the queue.
MainRuns == (advancing => processing # NoEvent) /\ ~cancelling

\* No thread is inside the queue, so that another one can lock its mutex.
MutexFree == ~advancing /\ ~cancelling

-----------------------------------------------------------------------------
(* Posting.                                                                *)

\* Mutant: the second walk, over equal times, is missing.
IsInsertPosFirst(p, time) ==
  /\ \A i \in 1 .. (p - 1) : gEventQueue[i].time < time
  /\ p <= Len(gEventQueue) => gEventQueue[p].time >= time

\* Where the walk of postEvent stops: past every earlier event, then past the
\* run of events of the same time.
IsInsertPos(p, time) == \E first \in 1 .. (Len(gEventQueue) + 1) :
  /\ \A i \in 1 .. (first - 1) : gEventQueue[i].time < time
  /\ first <= Len(gEventQueue) => gEventQueue[first].time >= time
  /\ first <= p
  /\ \A i \in first .. (p - 1) : gEventQueue[i].time = time
  /\ p <= Len(gEventQueue) => gEventQueue[p].time # time

\* The time an event is queued under: the U32 -1 means now.
PostedTime(time) ==
  LET u32 == time % TimeModulus IN
  IF u32 = TimeModulus - 1 THEN gCurrentTime % TimeModulus ELSE u32

postEvent(dest, time) ==
  /\ gEventSequence <= MaxEvents
  /\ \E p \in 1 .. (Len(gEventQueue) + 1) :
       /\ IsInsertPos(p, PostedTime(time))
       /\ gEventQueue' = InsertAt(gEventQueue, p,
            [time |-> PostedTime(time), startTime |-> gCurrentTime,
             sequenceCount |-> gEventSequence, destObject |-> dest])
  /\ gEventSequence' = gEventSequence + 1

\* A delay of 0 becomes 1.
AtLeastOne(delta) == IF delta = 0 THEN 1 ELSE delta

\* schedule(t, 0, ...) posts to the root group; given an object it only
\* reports an error.
schedule(delta) ==
  /\ MainRuns
  /\ postEvent(Root, gCurrentTime + AtLeastOne(delta))
  /\ UNCHANGED <<clockVars, lifeVars, readTime>>

\* obj.schedule(t, ...); the object can still be found while its onRemove runs.
objectSchedule(object, delta) ==
  /\ MainRuns
  /\ life[object] # "freed"
  /\ postEvent(object, gCurrentTime + AtLeastOne(delta))
  /\ UNCHANGED <<clockVars, lifeVars, readTime>>

\* A worker prints: it reads the target time without the mutex ...
getTargetTime(worker) ==
  /\ readTime[worker] = NoTime
  /\ readTime' = [readTime EXCEPT ![worker] = gTargetTime]
  /\ UNCHANGED <<queueVars, clockVars, lifeVars>>

\* ... and posts the line to the root group under that time.
printfPosts(worker) ==
  /\ readTime[worker] # NoTime /\ MutexFree
  /\ postEvent(Root, readTime[worker])
  /\ readTime' = [readTime EXCEPT ![worker] = NoTime]
  /\ UNCHANGED <<clockVars, lifeVars>>

-----------------------------------------------------------------------------
(* Cancelling and deleting.                                                *)

\* Unlink the first of the events at the positions matches.
RemoveFirstEvent(matches) == \E i \in matches :
  /\ \A j \in matches : i <= j
  /\ gEventQueue' = RemoveAt(gEventQueue, i)

cancelEvent(sequence) ==
  /\ MainRuns
  /\ RemoveFirstEvent({i \in DOMAIN gEventQueue : gEventQueue[i].sequenceCount = sequence})
  /\ UNCHANGED <<gEventSequence, clockVars, lifeVars, readTime>>

\* deleteObject marks the object and runs its onRemove callbacks ...
deleteObject(object) ==
  /\ MainRuns
  /\ life[object] = "added"
  /\ life' = [life EXCEPT ![object] = "deleting"]
  /\ deleting' = Append(deleting, object)
  /\ UNCHANGED <<queueVars, clockVars, cancelling, readTime>>

\* ... then leaves the dictionaries and starts to withdraw its events ...
unregisterObject ==
  /\ MainRuns /\ deleting # <<>>
  /\ cancelling' = TRUE
  /\ UNCHANGED <<queueVars, clockVars, life, deleting, readTime>>

\* ... one iteration of cancelPendingEvents for each of them ...
cancelPendingEvents ==
  /\ cancelling
  /\ RemoveFirstEvent({i \in DOMAIN gEventQueue :
       gEventQueue[i].destObject = deleting[Len(deleting)]})
  /\ UNCHANGED <<gEventSequence, clockVars, lifeVars, readTime>>

\* Mutant: the pending events are left in the queue.
deleteThisEarly ==
  /\ cancelling
  /\ life' = [life EXCEPT ![deleting[Len(deleting)]] = "freed"]
  /\ deleting' = SubSeq(deleting, 1, Len(deleting) - 1)
  /\ cancelling' = FALSE
  /\ UNCHANGED <<queueVars, clockVars, readTime>>

\* ... until none is left, and the memory goes.
deleteThis ==
  LET object == deleting[Len(deleting)] IN
  /\ cancelling
  /\ \A i \in DOMAIN gEventQueue : gEventQueue[i].destObject # object
  /\ life' = [life EXCEPT ![object] = "freed"]
  /\ deleting' = SubSeq(deleting, 1, Len(deleting) - 1)
  /\ cancelling' = FALSE
  /\ UNCHANGED <<queueVars, clockVars, readTime>>

-----------------------------------------------------------------------------
(* advanceToTime.                                                          *)

advanceToTime(time) ==
  /\ MainRuns /\ ~advancing /\ deleting = <<>>
  /\ time >= gCurrentTime
  /\ gTargetTime' = time
  /\ advancing' = TRUE
  /\ UNCHANGED <<queueVars, gCurrentTime, processing, lifeVars, readTime>>

HeadDue == gEventQueue # <<>> /\ gEventQueue[1].time <= gTargetTime

isDeleted(dest) == dest \in Objects /\ life[dest] # "added"

\* The head is popped, the clock moves to it, and it runs unless its object
\* is marked as deleted.
DispatchEvent ==
  /\ advancing /\ processing = NoEvent
  /\ HeadDue
  /\ gEventQueue' = Tail(gEventQueue)
  /\ gCurrentTime' = gEventQueue[1].time
  /\ processing' = IF isDeleted(gEventQueue[1].destObject) THEN NoEvent ELSE gEventQueue[1]
  /\ UNCHANGED <<gEventSequence, gTargetTime, advancing, lifeVars, readTime>>

\* process() returns once every deletion it started is over.
ProcessReturns ==
  /\ processing # NoEvent
  /\ deleting = <<>>
  /\ processing' = NoEvent
  /\ UNCHANGED <<queueVars, gCurrentTime, gTargetTime, advancing, lifeVars, readTime>>

AdvanceReturns ==
  /\ advancing /\ processing = NoEvent
  /\ ~HeadDue
  /\ gCurrentTime' = gTargetTime
  /\ advancing' = FALSE
  /\ UNCHANGED <<queueVars, gTargetTime, processing, lifeVars, readTime>>

-----------------------------------------------------------------------------

EQNext ==
  \/ \E delta \in Delays : schedule(delta)
  \/ \E object \in Objects, delta \in ObjectDeltas : objectSchedule(object, delta)
  \/ \E w \in Workers : getTargetTime(w) \/ printfPosts(w)
  \/ \E sequence \in 1 .. MaxEvents : cancelEvent(sequence)
  \/ \E object \in Objects : deleteObject(object)
  \/ unregisterObject \/ cancelPendingEvents \/ deleteThis
  \/ \E time \in 0 .. MaxTime : advanceToTime(time)
  \/ DispatchEvent \/ ProcessReturns \/ AdvanceReturns

EQSpec == EQInit /\ [][EQNext]_eqVars

-----------------------------------------------------------------------------
(* Properties.                                                             *)

\* The types of the queue, the clock, the objects' states and the threads.
EQTypeOK ==
  /\ gCurrentTime \in Nat /\ gTargetTime \in Nat /\ gEventSequence \in Nat
  /\ gEventQueue \in Seq(Event)
  /\ advancing \in BOOLEAN /\ processing \in Event \cup {NoEvent}
  /\ life \in [Objects -> {"added", "deleting", "freed"}]
  /\ deleting \in Seq(Objects) /\ cancelling \in BOOLEAN
  /\ readTime \in [Workers -> Nat \cup {NoTime}]

\* The list is sorted by time, and in posting order among equal times, through
\* insertions from callbacks and threads and removals from the middle.
QueueOrdered == \A i, j \in DOMAIN gEventQueue : i < j =>
  \/ gEventQueue[i].time < gEventQueue[j].time
  \/ /\ gEventQueue[i].time = gEventQueue[j].time
     /\ gEventQueue[i].sequenceCount < gEventQueue[j].sequenceCount

\* No queued event, nor the one about to be dispatched, points to an object
\* that has been freed: advanceToTime would ask freed memory if it is deleted.
NoEventForFreed == \A i \in DOMAIN gEventQueue :
  gEventQueue[i].destObject \in Objects => life[gEventQueue[i].destObject] # "freed"

\* The event was due in the past already when it was posted: a thread posted
\* with an old target time, the delay was negative, or the time was truncated.
PostedLate(e) == e.time < e.startTime

\* The clock never passes a queued event, except those posted late: whatever
\* callbacks, threads and deletions do, advanceToTime skips nothing.
NoEventPassed == \A i \in DOMAIN gEventQueue :
  PostedLate(gEventQueue[i]) \/ gEventQueue[i].time >= gCurrentTime

\* What scripts and another thread may not do to the queue under the loop that
\* empties it: disorder it, leave an event for freed memory, or have one passed.
QueueIsSafe == QueueOrdered /\ NoEventForFreed /\ NoEventPassed

\* Nothing sets the clock back but the dispatch of an event posted late: where
\* none is, the assertion of advanceToTime holds.
OnlyLateEventsSetBack ==
  [][gCurrentTime' < gCurrentTime => gEventQueue # <<>> /\ PostedLate(gEventQueue[1])]_eqVars


\* The queue keeps the promise of EventPromise.
Promise == INSTANCE EventPromise WITH
  pending <- ToSet(gEventQueue),
  nextId <- gEventSequence,
  running <- processing
KeepsPromise == Promise!PromiseSpec
=============================================================================
