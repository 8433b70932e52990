---------------------------- MODULE EventPromise ----------------------------
(***************************************************************************)
(* What the event queue promises its users: pending events form a set; an  *)
(* event is posted under a fresh id, may be withdrawn, and the one that    *)
(* runs next is the earliest, in posting order among those of equal time.  *)
(***************************************************************************)
EXTENDS Integers

CONSTANT NoEvent

VARIABLES
  pending,   \* the posted events that have neither run nor been withdrawn
  nextId,    \* the id of the next event
  running    \* the event being processed, or NoEvent

promiseVars == <<pending, nextId, running>>

\* e is due no later than f, and was posted first if they are due together.
NotAfter(e, f) == e.time < f.time \/ (e.time = f.time /\ e.sequenceCount <= f.sequenceCount)

PromiseInit == pending = {} /\ nextId = 1 /\ running = NoEvent

Post == \E e \in pending' :
  /\ e.sequenceCount = nextId
  /\ pending' = pending \cup {e}
  /\ nextId' = nextId + 1
  /\ UNCHANGED running

Withdraw == \E e \in pending :
  /\ pending' = pending \ {e}
  /\ UNCHANGED <<nextId, running>>

Run == \E e \in pending :
  /\ running = NoEvent
  /\ \A f \in pending : NotAfter(e, f)
  /\ pending' = pending \ {e}
  /\ running' = e
  /\ UNCHANGED nextId

Finish ==
  /\ running # NoEvent
  /\ running' = NoEvent
  /\ UNCHANGED <<pending, nextId>>

PromiseNext == Post \/ Withdraw \/ Run \/ Finish

PromiseSpec == PromiseInit /\ [][PromiseNext]_promiseVars
=============================================================================
