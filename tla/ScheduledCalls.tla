--------------------------- MODULE ScheduledCalls ---------------------------
(***************************************************************************)
(* What scheduled calls carry, and what scripts ask about them: schedule,  *)
(* obj.schedule, cancel, isEventPending, getEventTimeLeft,                 *)
(* getScheduleDuration, getTimeSinceStart (simBase.cc, simManager.cc).     *)
(*                                                                         *)
(* The arguments die with the statement that schedules, so the event keeps *)
(* the bytes of the texts, one behind the other, and offsets; they become  *)
(* pointers again when it is processed.  EventQueue has the threads and    *)
(* the deletions; here everything happens on one.                          *)
(*                                                                         *)
(* An argument is [type, bytes]: a text (bytes without 0), an "immediate"  *)
(* number (<<n>>), or a value of a type "count" of the engine, whose cast  *)
(* to its own type answers in the register and leaves the storage alone.   *)
(***************************************************************************)
EXTENDS Integers, SequencesExt

CONSTANTS
  Lists,        \* the argument lists of scheduled calls, the function first
  Receivers,    \* objects with a method, as an argument: [type, bytes]
  Delays, MaxScheduled, MaxClock

VARIABLES
  events,       \* the queue: [id, time, start, argv, data]
  clock, nextId,
  running,      \* id of the event in process(), or 0
  called,       \* [id, argv] of the last call made
  answer,       \* the last answer to the four questions about an event
  asked         \* history: id -> [args, due] of the calls scheduled so far
scheduleVars == <<events, clock, nextId, running, called, answer, asked>>

Nobody == [id |-> 0, argv |-> <<>>]
NoAnswer == [id |-> 0, pending |-> FALSE, left |-> 0, lasts |-> 0, since |-> 0]
Garbage == [type |-> "garbage", bytes |-> <<>>]
Unwritten == -1
-----------------------------------------------------------------------------
(* The arguments. *)

Immediate(arg) == arg.type = "immediate"
\* What the cast leaves in the storage: the text with its end, or nothing yet.
CastBytes(arg) == IF arg.type = "text" THEN Append(arg.bytes, 0) ELSE <<Unwritten>>
\* Mutant: the offset is taken when the bytes are there.
PackBehind(event, arg) ==
  IF Immediate(arg) THEN [event EXCEPT !.argv = Append(@, [type |-> "immediate", at |-> arg.bytes[1]])]
  ELSE [event EXCEPT !.argv = Append(@, [type |-> arg.type, at |-> Len(event.data \o CastBytes(arg))]),
                     !.data = (@ \o CastBytes(arg)) \o <<0>>]
\* SimConsoleEvent::SimConsoleEvent, one argument.
Pack(event, arg) ==
  IF Immediate(arg) THEN [event EXCEPT !.argv = Append(@, [type |-> "immediate", at |-> arg.bytes[1]])]
  ELSE [event EXCEPT !.argv = Append(@, [type |-> arg.type, at |-> Len(event.data)]),
                     !.data = (@ \o CastBytes(arg)) \o <<0>>]
SimConsoleEvent(args) == FoldLeft(Pack, [argv |-> <<>>, data |-> <<>>], args)

TextAt(data, at) ==
  LET end == CHOOSE i \in at + 1 .. Len(data) : data[i] = 0 /\ \A j \in at + 1 .. i - 1 : data[j] # 0
  IN SubSeq(data, at + 1, end - 1)
\* SimConsoleEvent::process, the arguments.
Unpacked(event) == [i \in DOMAIN event.argv |->
  LET packed == event.argv[i] IN
  CASE packed.type = "immediate" -> [type |-> "immediate", bytes |-> <<packed.at>>]
    [] packed.type = "text" -> [type |-> "text", bytes |-> TextAt(event.data, packed.at)]
    [] OTHER -> Garbage]
\* A function of a namespace: the values are read as if they were pointers,
\* which are shorter, so that only the first is one.
AsPointers(argv) == [i \in DOMAIN argv |-> IF i = 1 THEN argv[1] ELSE Garbage]
-----------------------------------------------------------------------------
(* Scheduling. *)

AtLeastOne(delta) == IF delta = 0 THEN 1 ELSE delta
\* postEvent: behind every event that is not later.
Inserted(event) ==
  LET notLater == Cardinality({i \in DOMAIN events : events[i].time <= event.time})
  IN InsertAt(events, notLater + 1, event)
Post(args, delta, spaced) ==
  /\ nextId <= MaxScheduled
  /\ LET packed == SimConsoleEvent(args) IN
     events' = Inserted([id |-> nextId, time |-> clock + AtLeastOne(delta), start |-> clock,
                         argv |-> packed.argv, data |-> packed.data, spaced |-> spaced])
  /\ nextId' = nextId + 1
  /\ asked' = Append(asked, [args |-> args, due |-> clock + AtLeastOne(delta), spaced |-> spaced])
  /\ UNCHANGED <<clock, running, called, answer>>
\* schedule(t, 0, function, ...), where the function may be "NS::name"; with
\* an object it only complains.
schedule(args, delta, spaced) == Post(args, delta, spaced)
\* object.schedule(t, method, ...): the object becomes the argument behind the method.
objectSchedule(object, args, delta) == Post(<<args[1], object>> \o Tail(args), delta, FALSE)

cancel(id) ==
  /\ \E i \in DOMAIN events : events[i].id = id /\ events' = RemoveAt(events, i)
  /\ UNCHANGED <<clock, nextId, running, called, answer, asked>>

\* isEventPending, getEventTimeLeft, getScheduleDuration, getTimeSinceStart.
Answer(id, found) ==
  IF found = {} THEN [NoAnswer EXCEPT !.id = id]
  ELSE LET e == CHOOSE f \in found : TRUE IN
       [id |-> id, pending |-> TRUE, left |-> e.time - clock, lasts |-> e.time - e.start, since |-> clock - e.start]
ask(id) ==
  /\ answer' = Answer(id, {f \in Range(events) : f.id = id})
  /\ UNCHANGED <<events, clock, nextId, running, called, asked>>

-----------------------------------------------------------------------------
(* advanceToTime: the clock follows the events. *)
Arguments(event) == IF event.spaced THEN AsPointers(Unpacked(event)) ELSE Unpacked(event)
process ==
  /\ running = 0 /\ events # <<>>
  /\ clock' = events[1].time
  /\ running' = events[1].id
  /\ called' = [id |-> events[1].id, argv |-> Arguments(events[1])]
  /\ events' = Tail(events)
  /\ UNCHANGED <<nextId, answer, asked>>
returns ==
  /\ running # 0 /\ running' = 0
  /\ UNCHANGED <<events, clock, nextId, called, answer, asked>>
\* The time ends between two events.
advanceToTime ==
  /\ running = 0 /\ clock < MaxClock
  /\ \A i \in DOMAIN events : events[i].time > clock + 1
  /\ clock' = clock + 1
  /\ UNCHANGED <<events, nextId, running, called, answer, asked>>

ScheduleInit ==
  /\ events = <<>> /\ clock = 0 /\ nextId = 1 /\ running = 0
  /\ called = Nobody /\ answer = NoAnswer /\ asked = <<>>
ScheduleNext ==
  \/ \E args \in Lists, delta \in Delays, spaced \in BOOLEAN : schedule(args, delta, spaced)
  \/ \E object \in Receivers, args \in Lists, delta \in Delays : objectSchedule(object, args, delta)
  \/ \E id \in 1 .. MaxScheduled : cancel(id)
  \/ \E id \in 1 .. MaxScheduled : ask(id)
  \/ process
  \/ returns
  \/ advanceToTime
ScheduleSpec == ScheduleInit /\ [][ScheduleNext]_scheduleVars
-----------------------------------------------------------------------------
\* What the event can carry of its arguments: all of a function without a
\* namespace that are texts or numbers, the first of the others.
Carried(call, i) == i = 1 \/ (~call.spaced /\ call.args[i].type # "count")
CallFits(call, argv) ==
  /\ Len(argv) = Len(call.args)
  /\ \A i \in DOMAIN argv : Carried(call, i) => argv[i] = call.args[i]
AnswerFits(new) ==
  /\ new.pending =>
       /\ clock + new.left = asked[new.id].due
       /\ new.left + new.since = new.lasts
       /\ new.id # running
  /\ ~new.pending => new.left = 0 /\ new.lasts = 0 /\ new.since = 0
\* A call is made with the arguments it was scheduled with, whatever was packed
\* beside them, as far as the event can carry them.  And what scripts are told
\* fits what was scheduled: what is left and what has passed add up to the
\* delay, nothing is left of what is not pending, and the event that runs is
\* pending no more.
ScheduledCallsKept ==
  [][ /\ called' # called => CallFits(asked[called'.id], called'.argv)
      /\ answer' # answer => AnswerFits(answer') ]_scheduleVars
=============================================================================
