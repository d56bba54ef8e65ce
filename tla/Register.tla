------------------------------- MODULE Register -------------------------------
(***************************************************************************)
(* The attendance register.  A record is one child's day: a status and the *)
(* room it was taken in (attendance.AttendanceRecord).  Teachers mark one  *)
(* child at a time, or everybody left in a room with one tap               *)
(* (apps/attendance/services.py and views.py); the office moves children   *)
(* between rooms meanwhile (people/services.py, enroll_student); the grid  *)
(* and the owner's dashboard read it all (attendance/selectors.py,         *)
(* reports/selectors.py).                                                  *)
(*                                                                         *)
(* A single mark is one transaction.  The one-tap request is three steps:  *)
(* the view lists the room, the service asks who has a record, and its     *)
(* transaction commits a mark for each of the others.                      *)
(***************************************************************************)
EXTENDS Common, FiniteSets

CONSTANTS
    Rooms,
    Years,       \* academic years with a form to enrol in
    Taps,        \* all-present requests running at once
    Marks,       \* the statuses teachers give one at a time
    Window       \* BACKDATE_WINDOW_DAYS

AttendanceStatus == {"present", "absent", "late", "half_day", "holiday"}

ASSUME SomeMarks == Marks \subseteq AttendanceStatus
ASSUME DaysCounted == Window \in Nat

Record == [status : AttendanceStatus, room : Rooms]

VARIABLES
    day,         \* timezone.localdate()
    room,        \* the room of a child's open enrolment of each year, or None
    record,      \* AttendanceRecord, per child and day
    tap          \* the all-present requests

registerVars == <<day, room, record, tap>>

\* A request between its steps: the room and date it is for and the roster it
\* read; whether the service has asked who has a record, and who had.  `marked`
\* is history: who of them had a record for that date when the button was pressed.
Request ==
    [room : Rooms, date : Days, roster : SUBSET Students,
     asked : BOOLEAN, already : SUBSET Students, marked : SUBSET Students]

ASSUME NoneIsNull == \A v \in Rooms \cup Record \cup Request : v # None

\* The types, and that nothing is recorded or asked for a day that has not come.
RegisterTypeOK ==
    /\ day \in Days
    /\ room \in [Students -> [Years -> Rooms \cup {None}]]
    /\ record \in [Students -> [Days -> Record \cup {None}]]
    /\ tap \in [Taps -> Request \cup {None}]
    /\ \A s \in Students, d \in Days : d > day => record[s][d] = None
    /\ \A t \in Taps : tap[t] # None => tap[t].date <= day

RegisterInit ==
    /\ day = 0
    /\ room = [s \in Students |-> [y \in Years |-> None]]
    /\ record = [s \in Students |-> [d \in Days |-> None]]
    /\ tap = [t \in Taps |-> None]

-------------------------------------------------------------------------------
(***************************************************************************)
(* Reads                                                                   *)
(***************************************************************************)
\* roster: the children with an open row in the room, of whatever year.
Roster(r) == {s \in Students : \E y \in Years : room[s][y] = r}

HasRecord(d) == {s \in Students : record[s][d] # None}

\* day_sheet: the children enrolled in the room now, each with the record taken
\* in this room on that day, if there is one.
DaySheet(r, d) ==
    [s \in Roster(r) |->
        IF record[s][d] # None /\ record[s][d].room = r THEN record[s][d] ELSE None]

\* unmarked_count counts these.
Unmarked(r, d) == {s \in Roster(r) : DaySheet(r, d)[s] = None}

\* Variant: the distance is checked, the direction is not.
MayMarkOn_AnyDirection(admin, d) == day - d <= Window \/ admin

MayMarkOn(admin, d) == d <= day /\ (day - d <= Window \/ admin)

\* The days somebody may mark on.
OpenDays == {d \in Days : \E admin \in BOOLEAN : MayMarkOn(admin, d)}

\* student_month_summary, the month being the calendar: the days of which it
\* reports the numbers.
DaysWith(s, statuses) ==
    {d \in Days : record[s][d] # None /\ record[s][d].status \in statuses}

StudentMonthSummary(s) ==
    [counted |-> DaysWith(s, AttendanceStatus \ {"holiday"}),
     present |-> DaysWith(s, {"present", "late", "half_day"}),
     absent  |-> DaysWith(s, {"absent"})]

\* month_register: the marks of the children in the room, day by day wherever they
\* were taken, and how many there are of each.
MonthRegister(r) ==
    [s \in Roster(r) |->
        LET by_day == [d \in {x \in Days : record[s][x] # None} |-> record[s][d].status]
            Number(status) == Cardinality({d \in DOMAIN by_day : by_day[d] = status})
        IN  [by_day |-> by_day, present |-> Number("present"), late |-> Number("late"),
             half_day |-> Number("half_day"), absent |-> Number("absent"),
             counted |-> Cardinality({d \in DOMAIN by_day : by_day[d] # "holiday"})]]

\* _attendance_rate of a child's month, and which of two is lower: nothing counted is
\* no rate at all.  The shares of two months are never so near as to round to one.
Rated(s) == StudentMonthSummary(s).counted # {}

LowerRate(s, q) ==
    LET a == StudentMonthSummary(s)
        b == StudentMonthSummary(q)
    IN  Cardinality(a.present) * Cardinality(b.counted)
            < Cardinality(b.present) * Cardinality(a.counted)

\* classroom_month_report, "worst first": who stands before whom.
ClassroomMonthReport(r) ==
    {pair \in Roster(r) \X Roster(r) :
        Rated(pair[2]) /\ (Rated(pair[1]) => LowerRate(pair[1], pair[2]))}

\* attendance_today, the figures of the dashboard.
ChildrenWith(d, status) ==
    Cardinality({s \in HasRecord(d) : record[s][d].status = status})

\* Variant: a half day is left out of the denominator.
AttendanceToday_WholeDays(d) ==
    LET present == ChildrenWith(d, "present") + ChildrenWith(d, "late")
        half    == ChildrenWith(d, "half_day")
        absent  == ChildrenWith(d, "absent")
    IN  [present |-> present, half_day |-> half, absent |-> absent,
         counted |-> present + absent]

AttendanceToday(d) ==
    LET present == ChildrenWith(d, "present") + ChildrenWith(d, "late")
        half    == ChildrenWith(d, "half_day")
        absent  == ChildrenWith(d, "absent")
    IN  [present |-> present, half_day |-> half, absent |-> absent,
         counted |-> present + half + absent]

\* absent_today: whose families the office rings.
AbsentToday(d) == {s \in HasRecord(d) : record[s][d].status = "absent"}

-------------------------------------------------------------------------------
(***************************************************************************)
(* The day, and the office                                                 *)
(***************************************************************************)

NextDay ==
    /\ day < LastDay
    /\ day' = day + 1
    /\ UNCHANGED <<room, record, tap>>

\* The open row of that year is closed and a new one opened, or the call returns the
\* row that is there.  An open row of another year is left as it is.
EnrollStudent(s, r, y) ==
    /\ room[s][y] # r
    /\ room' = [room EXCEPT ![s][y] = r]
    /\ UNCHANGED <<day, record, tap>>

(***************************************************************************)
(* Teachers                                                                *)
(***************************************************************************)

\* One tap, or the detail form.  The room is that of the page, and need not be one the
\* child is in: the page may have been open since it was.
Mark(s, r, d, status) ==
    /\ d \in OpenDays
    /\ record' = [record EXCEPT ![s][d] = [status |-> status, room |-> r]]
    /\ UNCHANGED <<day, room, tap>>

\* The view behind "Mark the remaining ... present": the check, and the roster.
AllPresent(t, r, d) ==
    /\ tap[t] = None
    /\ d \in OpenDays
    /\ tap' = [tap EXCEPT ![t] =
         [room |-> r, date |-> d, roster |-> Roster(r),
          asked |-> FALSE, already |-> {}, marked |-> Roster(r) \cap HasRecord(d)]]
    /\ UNCHANGED <<day, room, record>>

\* Variant: it asks the question of the grid, for records of this room.
ReadAlready_ThisRoom(t) ==
    /\ tap[t] # None
    /\ ~tap[t].asked
    /\ tap' = [tap EXCEPT ![t].asked = TRUE,
                          ![t].already = {s \in tap[t].roster \cap HasRecord(tap[t].date) :
                                            record[s][tap[t].date].room = tap[t].room}]
    /\ UNCHANGED <<day, room, record>>

\* mark_all_present asks for the records these children have on that date, in
\* whatever room they were taken.
ReadAlready(t) ==
    /\ tap[t] # None
    /\ ~tap[t].asked
    /\ tap' = [tap EXCEPT ![t].asked = TRUE,
                          ![t].already = tap[t].roster \cap HasRecord(tap[t].date)]
    /\ UNCHANGED <<day, room, record>>

\* The transaction commits.  A mark that was made for one of the rest after the
\* read is written over; one made while the row is locked comes after it.
WriteRest(t) ==
    /\ tap[t] # None
    /\ tap[t].asked
    /\ record' = [s \in Students |->
         IF s \in tap[t].roster \ tap[t].already
         THEN [record[s] EXCEPT ![tap[t].date] = [status |-> "present", room |-> tap[t].room]]
         ELSE record[s]]
    /\ tap' = [tap EXCEPT ![t] = None]
    /\ UNCHANGED <<day, room>>

\* The worker is stopped, or its transaction is a deadlock's victim.
AbortTap(t) ==
    /\ tap[t] # None
    /\ tap' = [tap EXCEPT ![t] = None]
    /\ UNCHANGED <<day, room, record>>

Office == \E s \in Students, r \in Rooms, y \in Years : EnrollStudent(s, r, y)

Teachers ==
    \E r \in Rooms, d \in Days :
        \/ \E s \in Students, status \in Marks : Mark(s, r, d, status)
        \/ \E t \in Taps : AllPresent(t, r, d)

AllPresentRequest(t) == ReadAlready(t) \/ WriteRest(t) \/ AbortTap(t)

RegisterNext == NextDay \/ Office \/ Teachers \/ \E t \in Taps : AllPresentRequest(t)

RegisterSpec == RegisterInit /\ [][RegisterNext]_registerVars

-------------------------------------------------------------------------------
(***************************************************************************)
(* Correctness                                                             *)
(***************************************************************************)

\* "Deliberately only fills in children with NO record yet", "if this overwrote,
\* it would erase the work they just did" (services.py, mark_all_present): when
\* the one tap has done its work, the record of every child that had one when
\* the button was pressed is the one it had a moment before, and no child of the
\* roster is left without.
MorningKept ==
    \A t \in Taps : WriteRest(t) =>
        LET d == tap[t].date
        IN  /\ \A s \in tap[t].marked : record'[s][d] = record[s][d]
            /\ \A s \in tap[t].roster : record'[s][d] # None

MorningIsKept == [][MorningKept]_registerVars

\* "The two mean the same thing rather than by accident" (reports/selectors.py,
\* attendance_today): the dashboard counts and calls present, on each day, the
\* children whose month counts that day and calls it attended; a holiday is in
\* neither, nobody is both, and those absent are the ones the office has to ring.
DaysAgree ==
    \A d \in Days :
        LET today == AttendanceToday(d)
            On(figure) == {s \in Students : d \in StudentMonthSummary(s)[figure]}
        IN  /\ today.counted = Cardinality(On("counted"))
            /\ today.present + today.half_day = Cardinality(On("present"))
            /\ today.absent = Cardinality(On("absent"))
            /\ AbsentToday(d) = On("absent")

\* "The two reports must not disagree about whether a child came in" (month_register):
\* what the printed register counts day by day is what the child's month sums up,
\* whatever rooms the marks were taken in.
MonthsAgree ==
    \A r \in Rooms : \A s \in Roster(r) :
        LET row   == MonthRegister(r)[s]
            month == StudentMonthSummary(s)
        IN  /\ row.counted = Cardinality(month.counted)
            /\ row.present + row.late + row.half_day = Cardinality(month.present)
            /\ row.absent = Cardinality(month.absent)

\* The four figures of one child's month, taken in four places, tell one story.
FiguresAgree == DaysAgree /\ MonthsAgree

\* "The reason anyone opens this report is to find the child who has stopped coming"
\* (classroom_month_report): the report puts children in an order, and a child who
\* came on none of its days stands behind nobody who came.
StoppedComingStandsFirst ==
    \A r \in Rooms :
        LET before == ClassroomMonthReport(r)
        IN  /\ \A s \in Roster(r) : <<s, s>> \notin before
            /\ \A s, q \in Roster(r) : <<s, q>> \in before => <<q, s>> \notin before
            /\ \A s, q \in Roster(r) :
                 /\ StudentMonthSummary(s).present = {}
                 /\ StudentMonthSummary(q).present # {}
                 => <<s, q>> \in before

\* Against "how many children still have nothing recorded" (unmarked_count): a
\* child the sheet shows unmarked has no record for that day.
UnmarkedHaveNothing ==
    \A r \in Rooms, d \in Days, s \in Students :
        s \in Unmarked(r, d) => record[s][d] = None
===============================================================================
