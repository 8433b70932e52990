--------------------------- MODULE MCFiberManager ---------------------------
(* TLC instances of FiberManager.                                          *)
EXTENDS FiberManager

F1 == HandleValue(2)

Wait(mode, mask, time) == [waitMode |-> mode, flagMask |-> mask, minTime |-> time]

\* Waits that matter to who is freed, resumed and restored.
OwnershipWaits ==
  {Wait("WAIT_NONE", {8}, 0), Wait("WAIT_LOCAL_CLEAR", {8}, 0), Wait("WAIT_FIBER", {}, F1)}

\* Waits that end by a flag, a tick or a time.
LiveWaits ==
  {Wait("WAIT_FLAGS_CLEAR", {8}, 0), Wait("WAIT_TICK", {}, 1), Wait("WAIT_SIMTIME", {}, 1)}

\* A fiber waits for another one.
FiberWaits == {Wait("WAIT_IGNORE", {}, 0), Wait("WAIT_FIBER", {}, F1)}
=============================================================================
