------------------------------ MODULE FramePool ------------------------------
(***************************************************************************)
(* What memory_manager.c promises its callers: a first-in first-out pool   *)
(* of page frames.  A frame is either free or held by one caller, a caller *)
(* gets the frame that has been free for longest, and a frame returned     *)
(* goes to the end.                                                        *)
(***************************************************************************)
EXTENDS Integers, Sequences

CONSTANTS
    Frames,         \* the page frames of the machine
    BootOrder       \* their order on the list at boot

VARIABLES
    free,           \* the free frames, oldest first
    held            \* the frames callers hold

poolVars == <<free, held>>

PoolInit ==
    /\ free = BootOrder
    /\ held = {}

Allocate ==
    /\ free # <<>>
    /\ Head(free) \notin held
    /\ held' = held \cup {Head(free)}
    /\ free' = Tail(free)

Release(f) ==
    /\ f \in held
    /\ held' = held \ {f}
    /\ free' = Append(free, f)

PoolNext == Allocate \/ \E f \in Frames : Release(f)

PoolSpec == PoolInit /\ [][PoolNext]_poolVars
=============================================================================
