---------------------------------- MODULE Roll ----------------------------------
(***************************************************************************)
(* The roll as the rest of the school takes it, with no enrolment row in   *)
(* sight: the room a child is in now, the rooms it has been in, and the    *)
(* day it last left one.  In an academic year a child is in one room or in *)
(* none; a move is leaving that room and entering another on the same day, *)
(* and says nothing of another year; a child that leaves leaves them all;  *)
(* where it has been is never taken back.  Diary keeps the rows.           *)
(***************************************************************************)
EXTENDS Common

CONSTANTS Rooms, Years

VARIABLES
    date,
    room,        \* the room a child is in, by academic year, or None
    been,        \* the rooms it has been in
    lastLeft     \* the day it last left one, or None

rollVars == <<date, room, been, lastLeft>>

RollInit ==
    /\ date = 0
    /\ room = [s \in Students |-> [y \in Years |-> None]]
    /\ been = [s \in Students |-> {}]
    /\ lastLeft = [s \in Students |-> None]

Midnight ==
    /\ date < LastDay
    /\ date' = date + 1
    /\ UNCHANGED <<room, been, lastLeft>>

Enter(s, r, y) ==
    /\ room[s][y] # r
    /\ room' = [room EXCEPT ![s][y] = r]
    /\ been' = [been EXCEPT ![s] = @ \cup {r}]
    /\ lastLeft' = IF room[s][y] = None THEN lastLeft ELSE [lastLeft EXCEPT ![s] = date]
    /\ UNCHANGED date

Leave(s) ==
    /\ \E y \in Years : room[s][y] # None
    /\ room' = [room EXCEPT ![s] = [y \in Years |-> None]]
    /\ lastLeft' = [lastLeft EXCEPT ![s] = date]
    /\ UNCHANGED <<date, been>>

RollNext ==
    \/ Midnight
    \/ \E s \in Students : Leave(s) \/ \E r \in Rooms, y \in Years : Enter(s, r, y)

RollSpec == RollInit /\ [][RollNext]_rollVars
===============================================================================
