--------------------------------- MODULE Common ---------------------------------
(***************************************************************************)
(* What the components that read the roll have in common: the children,    *)
(* the calendar, and NULL.                                                 *)
(***************************************************************************)
EXTENDS Integers

CONSTANTS
    Students,
    LastDay,     \* bound: the last day of the calendar
    None         \* SQL NULL

ASSUME DayBound == LastDay \in Nat

Days == 0 .. LastDay
=================================================================================
