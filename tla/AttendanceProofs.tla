---------------------------- MODULE AttendanceProofs ----------------------------
(***************************************************************************)
(* Proofs about the two halves of apps/attendance.  Register: typing, that *)
(* the one-tap mark leaves the work done before it alone, and that the two *)
(* ways of counting a day give the same figures.  Door, for any families,  *)
(* lists, records and requests: typing with the protected rows, that       *)
(* nobody leaves with a child but by right, that a corrected record has    *)
(* one story, and that the screen and the service read a window alike.     *)
(***************************************************************************)
EXTENDS Register, Door, FiniteSetTheorems, TLAPS

(***************************************************************************)
(* Register                                                                *)
(***************************************************************************)
LEMMA RegisterInitTypeOK == RegisterInit => RegisterTypeOK
  BY DayBound, DaysCounted DEF RegisterInit, RegisterTypeOK, Days

LEMMA NewRequest ==
  ASSUME NEW r \in Rooms, NEW d \in Days
  PROVE  [room |-> r, date |-> d, roster |-> Roster(r), asked |-> FALSE, already |-> {},
          marked |-> Roster(r) \cap HasRecord(d)] \in Request
<1>1. Roster(r) \in SUBSET Students /\ HasRecord(d) \in SUBSET Students
  BY DEF Roster, HasRecord
<1> QED
  BY <1>1 DEF Request

LEMMA RegisterNextTypeOK == RegisterTypeOK /\ [RegisterNext]_registerVars => RegisterTypeOK'
<1> SUFFICES ASSUME RegisterTypeOK, [RegisterNext]_registerVars PROVE RegisterTypeOK'
  OBVIOUS
<1> USE DayBound, DaysCounted DEF RegisterTypeOK, Days
<1>a. \A t \in Taps : tap[t] # None => tap[t] \in Request /\ tap[t].date \in Days
  BY DEF Request
<1>b. None \notin Record /\ None \notin Request
  BY NoneIsNull
<1>1. CASE NextDay
  BY <1>1, <1>a DEF NextDay
<1>2. ASSUME NEW s \in Students, NEW r \in Rooms, NEW y \in Years,
             EnrollStudent(s, r, y)
      PROVE RegisterTypeOK'
  BY <1>2 DEF EnrollStudent
<1>3. ASSUME NEW s \in Students, NEW r \in Rooms, NEW d \in Days, NEW status \in Marks,
             Mark(s, r, d, status)
      PROVE RegisterTypeOK'
  <2>1. [status |-> status, room |-> r] \in Record
    BY SomeMarks DEF Record
  <2>2. d <= day
    BY <1>3 DEF Mark, OpenDays, MayMarkOn
  <2> QED
    BY <1>3, <2>1, <2>2 DEF Mark
<1>4. ASSUME NEW t \in Taps, NEW r \in Rooms, NEW d \in Days, AllPresent(t, r, d)
      PROVE RegisterTypeOK'
  <2>1. [room |-> r, date |-> d, roster |-> Roster(r), asked |-> FALSE, already |-> {},
         marked |-> Roster(r) \cap HasRecord(d)] \in Request
    BY NewRequest
  <2>2. d <= day
    BY <1>4 DEF AllPresent, OpenDays, MayMarkOn
  <2> QED
    BY <1>4, <2>1, <2>2 DEF AllPresent
<1>5. ASSUME NEW t \in Taps, ReadAlready(t) PROVE RegisterTypeOK'
  <2> DEFINE asked == [tap[t] EXCEPT !.asked = TRUE, !.already = tap[t].roster \cap HasRecord(tap[t].date)]
  <2>1. asked \in Request /\ asked.date = tap[t].date
    BY <1>5, <1>a DEF ReadAlready, Request
  <2>2. tap' = [tap EXCEPT ![t] = asked]
    BY <1>5 DEF ReadAlready
  <2> QED
    BY <1>5, <1>a, <2>1, <2>2 DEF ReadAlready
<1>6. ASSUME NEW t \in Taps, WriteRest(t) PROVE RegisterTypeOK'
  <2>1. [status |-> "present", room |-> tap[t].room] \in Record
    BY <1>6, <1>a DEF WriteRest, Request, Record, AttendanceStatus
  <2>2. record' \in [Students -> [Days -> Record \cup {None}]]
    BY <1>6, <2>1 DEF WriteRest
  <2>3. \A s \in Students, d \in Days : d > day => record'[s][d] = None
    BY <1>6, <1>a DEF WriteRest
  <2> QED
    BY <1>6, <2>2, <2>3 DEF WriteRest
<1>7. ASSUME NEW t \in Taps, AbortTap(t) PROVE RegisterTypeOK'
  BY <1>7 DEF AbortTap
<1>8. CASE UNCHANGED registerVars
  BY <1>8 DEF registerVars
<1> QED
  BY <1>1, <1>2, <1>3, <1>4, <1>5, <1>6, <1>7, <1>8
  DEF RegisterNext, Office, Teachers, AllPresentRequest

\* Typing, and nothing recorded or asked for a day that has not come, for any
\* numbers of children, rooms and requests and any backdating window.
THEOREM RegisterTypeCorrect == RegisterSpec => []RegisterTypeOK
<1>1. RegisterInit => RegisterTypeOK
  BY RegisterInitTypeOK
<1>2. RegisterTypeOK /\ [RegisterNext]_registerVars => RegisterTypeOK'
  BY RegisterNextTypeOK
<1> QED
  BY <1>1, <1>2, PTL DEF RegisterSpec

-------------------------------------------------------------------------------
\* What a request has in its hands is still true of the register: whoever had a
\* record when the button was pressed has one, the service has seen those on its
\* roster, and whom it has seen has one.
Faithful(t) ==
    /\ tap[t].marked \subseteq HasRecord(tap[t].date)
    /\ tap[t].asked =>
          /\ tap[t].marked \cap tap[t].roster \subseteq tap[t].already
          /\ tap[t].already \subseteq HasRecord(tap[t].date)

MorningInv == RegisterTypeOK /\ \A t \in Taps : tap[t] # None => Faithful(t)

\* No step takes a record away.
LEMMA RecordsStay ==
  ASSUME RegisterTypeOK, RegisterTypeOK', [RegisterNext]_registerVars, NEW d \in Days
  PROVE  HasRecord(d) \subseteq HasRecord(d)'
<1> SUFFICES ASSUME NEW s \in Students, record[s][d] # None PROVE record'[s][d] # None
  BY DEF HasRecord
<1> USE DEF RegisterTypeOK
<1>a. None \notin Record /\ None \notin Request
  BY NoneIsNull
<1>1. ASSUME NEW q \in Students, NEW r \in Rooms, NEW e \in Days, NEW status \in Marks,
             Mark(q, r, e, status)
      PROVE record'[s][d] # None
  <2>1. [status |-> status, room |-> r] \in Record
    BY SomeMarks DEF Record
  <2> QED
    BY <1>1, <1>a, <2>1 DEF Mark
<1>2. ASSUME NEW t \in Taps, WriteRest(t) PROVE record'[s][d] # None
  <2>1. tap[t].room \in Rooms
    BY <1>2 DEF WriteRest, Request
  <2>2. [status |-> "present", room |-> tap[t].room] \in Record
    BY <2>1 DEF Record, AttendanceStatus
  <2> QED
    BY <1>2, <1>a, <2>2 DEF WriteRest
<1> QED
  BY <1>1, <1>2 DEF RegisterNext, Office, Teachers, AllPresentRequest, NextDay, EnrollStudent,
     AllPresent, ReadAlready, AbortTap, registerVars

LEMMA TapStep == MorningInv /\ [RegisterNext]_registerVars => MorningInv'
<1> SUFFICES ASSUME MorningInv, [RegisterNext]_registerVars PROVE MorningInv'
  OBVIOUS
<1>1. RegisterTypeOK'
  BY RegisterNextTypeOK DEF MorningInv
<1>2. ASSUME NEW d \in Days PROVE HasRecord(d) \subseteq HasRecord(d)'
  BY <1>1, RecordsStay DEF MorningInv
<1>3. ASSUME NEW t \in Taps, tap'[t] = tap[t], tap[t] # None PROVE Faithful(t)'
  <2>1. tap[t].date \in Days
    BY <1>3 DEF MorningInv, RegisterTypeOK, Request
  <2>2. HasRecord(tap[t].date) \subseteq HasRecord(tap[t].date)'
    BY <1>2, <1>3, <2>1 DEF HasRecord
  <2> QED
    BY <1>3, <2>2 DEF MorningInv, Faithful
<1>4. ASSUME NEW t \in Taps, NEW r \in Rooms, NEW d \in Days, AllPresent(t, r, d)
      PROVE \A q \in Taps : tap'[q] # None => Faithful(q)'
  <2>1. \A q \in Taps \ {t} : tap'[q] = tap[q]
    BY <1>4 DEF AllPresent, MorningInv, RegisterTypeOK
  <2>2. tap'[t] = [room |-> r, date |-> d, roster |-> Roster(r), asked |-> FALSE,
                   already |-> {}, marked |-> Roster(r) \cap HasRecord(d)]
    BY <1>4 DEF AllPresent, MorningInv, RegisterTypeOK
  <2>3. Faithful(t)'
    BY <1>4, <2>2 DEF Faithful, HasRecord, AllPresent
  <2> QED
    BY <1>3, <2>1, <2>3
<1>5. ASSUME NEW t \in Taps, ReadAlready(t)
      PROVE \A q \in Taps : tap'[q] # None => Faithful(q)'
  <2>1. \A q \in Taps \ {t} : tap'[q] = tap[q]
    BY <1>5 DEF ReadAlready, MorningInv, RegisterTypeOK
  <2>2. tap[t] \in Request /\ tap[t].marked \subseteq HasRecord(tap[t].date)
    BY <1>5 DEF ReadAlready, MorningInv, RegisterTypeOK, Faithful
  <2>3. /\ tap'[t].marked = tap[t].marked /\ tap'[t].roster = tap[t].roster
        /\ tap'[t].date = tap[t].date
        /\ tap'[t].already = tap[t].roster \cap HasRecord(tap[t].date)
    BY <1>5, <2>2 DEF ReadAlready, MorningInv, RegisterTypeOK, Request
  <2>4. HasRecord(tap[t].date)' = HasRecord(tap[t].date)
    BY <1>5, <2>3 DEF ReadAlready, HasRecord
  <2>5. Faithful(t)'
    BY <2>2, <2>3, <2>4 DEF Faithful
  <2> QED
    BY <1>3, <2>1, <2>5
<1>6. ASSUME NEW t \in Taps, WriteRest(t) \/ AbortTap(t)
      PROVE \A q \in Taps : tap'[q] # None => Faithful(q)'
  <2>1. tap'[t] = None /\ \A q \in Taps \ {t} : tap'[q] = tap[q]
    BY <1>6 DEF WriteRest, AbortTap, MorningInv, RegisterTypeOK
  <2> QED
    BY <1>3, <2>1
<1>7. ASSUME tap' = tap PROVE \A q \in Taps : tap'[q] # None => Faithful(q)'
  BY <1>3, <1>7
<1>8. \A q \in Taps : tap'[q] # None => Faithful(q)'
  BY <1>4, <1>5, <1>6, <1>7 DEF RegisterNext, Office, Teachers, AllPresentRequest,
     NextDay, EnrollStudent, Mark, registerVars
<1> QED
  BY <1>1, <1>8 DEF MorningInv

\* When the one tap has done its work the record of every child that had one when
\* the button was pressed is untouched, whatever committed between its three
\* steps, and nobody on its roster is without.
THEOREM OneTapKeepsTheMorning == RegisterSpec => MorningIsKept
<1>1. RegisterInit => MorningInv
  BY RegisterInitTypeOK DEF MorningInv, RegisterInit
<1>2. MorningInv /\ [RegisterNext]_registerVars => MorningKept
  <2> SUFFICES ASSUME MorningInv, NEW t \in Taps, WriteRest(t)
               PROVE  LET d == tap[t].date
                      IN  /\ \A s \in tap[t].marked : record'[s][d] = record[s][d]
                          /\ \A s \in tap[t].roster : record'[s][d] # None
    BY DEF MorningKept
  <2> DEFINE d == tap[t].date
             present == [status |-> "present", room |-> tap[t].room]
  <2>1. tap[t] \in Request /\ tap[t].asked
    BY DEF WriteRest, MorningInv, RegisterTypeOK
  <2>2. /\ tap[t].marked \subseteq Students /\ tap[t].roster \subseteq Students
        /\ d \in Days /\ present \in Record
    BY <2>1 DEF Request, Record, AttendanceStatus
  <2>3. /\ tap[t].marked \cap tap[t].roster \subseteq tap[t].already
        /\ tap[t].already \subseteq HasRecord(d)
    BY <2>1 DEF MorningInv, Faithful, WriteRest
  <2>4. \A s \in Students : record'[s][d] =
           IF s \in tap[t].roster \ tap[t].already THEN present ELSE record[s][d]
    BY <2>2 DEF WriteRest, MorningInv, RegisterTypeOK
  <2>5. present # None
    BY <2>2, NoneIsNull
  <2>6. \A s \in tap[t].marked : record'[s][d] = record[s][d]
    BY <2>2, <2>3, <2>4
  <2>7. \A s \in tap[t].roster : record'[s][d] # None
    BY <2>2, <2>3, <2>4, <2>5 DEF HasRecord
  <2> QED
    BY <2>6, <2>7
<1> QED
  BY <1>1, <1>2, TapStep, PTL DEF RegisterSpec, MorningIsKept

-------------------------------------------------------------------------------
LEMMA DisjointCount ==
  ASSUME NEW A, NEW B, IsFiniteSet(A), IsFiniteSet(B), A \cap B = {}
  PROVE  IsFiniteSet(A \cup B) /\ Cardinality(A \cup B) = Cardinality(A) + Cardinality(B)
<1>1. Cardinality(A \cap B) = 0
  BY FS_EmptySet
<1>2. Cardinality(A) \in Nat /\ Cardinality(B) \in Nat
  BY FS_CardinalityType
<1>3. /\ IsFiniteSet(A \cup B)
      /\ Cardinality(A \cup B) = Cardinality(A) + Cardinality(B) - Cardinality(A \cap B)
  BY FS_Union, Zenon
<1> QED
  BY <1>1, <1>2, <1>3

\* The dashboard counts a day as the months do.
LEMMA DaysAgreeWhenTyped ==
  ASSUME IsFiniteSet(Students), RegisterTypeOK
  PROVE  DaysAgree
<1> DEFINE With(d, status) == {s \in HasRecord(d) : record[s][d].status = status}
<1> SUFFICES ASSUME NEW d \in Days
             PROVE  /\ AttendanceToday(d).counted =
                         Cardinality({s \in Students : d \in StudentMonthSummary(s).counted})
                    /\ AttendanceToday(d).present + AttendanceToday(d).half_day =
                         Cardinality({s \in Students : d \in StudentMonthSummary(s).present})
                    /\ AttendanceToday(d).absent =
                         Cardinality({s \in Students : d \in StudentMonthSummary(s).absent})
                    /\ AbsentToday(d) = {s \in Students : d \in StudentMonthSummary(s).absent}
  BY DEF DaysAgree
<1>1. \A status : IsFiniteSet(With(d, status)) /\ Cardinality(With(d, status)) \in Nat
  <2> SUFFICES ASSUME NEW status
               PROVE IsFiniteSet(With(d, status)) /\ Cardinality(With(d, status)) \in Nat
    OBVIOUS
  <2>1. With(d, status) \subseteq Students
    BY DEF HasRecord
  <2> QED
    BY <2>1, FS_Subset, FS_CardinalityType
<1>2. \A s \in Students : record[s][d] # None => record[s][d].status \in AttendanceStatus
  BY DEF RegisterTypeOK, Record
<1> DEFINE P == With(d, "present") \cup With(d, "late")
           H == P \cup With(d, "half_day")
           C == H \cup With(d, "absent")
<1>3. {s \in Students : d \in StudentMonthSummary(s).present} = H
  BY <1>2 DEF StudentMonthSummary, DaysWith, HasRecord
<1>4. {s \in Students : d \in StudentMonthSummary(s).counted} = C
  BY <1>2 DEF StudentMonthSummary, DaysWith, HasRecord, AttendanceStatus
<1>5. {s \in Students : d \in StudentMonthSummary(s).absent} = With(d, "absent")
  BY DEF StudentMonthSummary, DaysWith, HasRecord
<1>6. /\ With(d, "present") \cap With(d, "late") = {}
      /\ P \cap With(d, "half_day") = {}
      /\ H \cap With(d, "absent") = {}
  OBVIOUS
<1>7. \A status : ChildrenWith(d, status) = Cardinality(With(d, status))
  BY DEF ChildrenWith
<1>8. /\ Cardinality(P) = ChildrenWith(d, "present") + ChildrenWith(d, "late")
      /\ Cardinality(H) = Cardinality(P) + ChildrenWith(d, "half_day")
      /\ Cardinality(C) = Cardinality(H) + ChildrenWith(d, "absent")
  <2> HIDE DEF With
  <2>1. /\ IsFiniteSet(P)
        /\ Cardinality(P) = Cardinality(With(d, "present")) + Cardinality(With(d, "late"))
    BY <1>1, <1>6, DisjointCount
  <2> HIDE DEF P
  <2>2. /\ IsFiniteSet(H)
        /\ Cardinality(H) = Cardinality(P) + Cardinality(With(d, "half_day"))
    BY <1>1, <1>6, <2>1, DisjointCount
  <2> HIDE DEF H
  <2>3. Cardinality(C) = Cardinality(H) + Cardinality(With(d, "absent"))
    BY <1>1, <1>6, <2>2, DisjointCount
  <2> QED
    BY <1>7, <2>1, <2>2, <2>3
<1>9. /\ AttendanceToday(d).counted = ChildrenWith(d, "present") + ChildrenWith(d, "late")
                                 + ChildrenWith(d, "half_day") + ChildrenWith(d, "absent")
      /\ AttendanceToday(d).present = ChildrenWith(d, "present") + ChildrenWith(d, "late")
      /\ AttendanceToday(d).half_day = ChildrenWith(d, "half_day")
      /\ AttendanceToday(d).absent = ChildrenWith(d, "absent")
  BY DEF AttendanceToday
<1>10. AttendanceToday(d).absent = Cardinality(With(d, "absent"))
  BY <1>9 DEF ChildrenWith
<1>11. AbsentToday(d) = With(d, "absent")
  BY DEF AbsentToday
<1> HIDE DEF P, H, C, With
<1> QED
  BY <1>1, <1>3, <1>4, <1>5, <1>7, <1>8, <1>9, <1>10, <1>11

-------------------------------------------------------------------------------
(***************************************************************************)
(* The reports                                                             *)
(***************************************************************************)
LEMMA FiniteDays ==
  ASSUME NEW D \in SUBSET Days
  PROVE  IsFiniteSet(D) /\ Cardinality(D) \in Nat
<1>1. IsFiniteSet(Days)
  BY DayBound, FS_Interval DEF Days
<1> QED
  BY <1>1, FS_Subset, FS_CardinalityType

\* The printed register counts a child's month as its summary does.
LEMMA MonthsAgreeWhenTyped ==
  ASSUME RegisterTypeOK
  PROVE  MonthsAgree
<1> SUFFICES ASSUME NEW r \in Rooms, NEW s \in Roster(r)
             PROVE  /\ MonthRegister(r)[s].counted = Cardinality(StudentMonthSummary(s).counted)
                    /\ MonthRegister(r)[s].present + MonthRegister(r)[s].late
                         + MonthRegister(r)[s].half_day
                           = Cardinality(StudentMonthSummary(s).present)
                    /\ MonthRegister(r)[s].absent = Cardinality(StudentMonthSummary(s).absent)
  BY DEF MonthsAgree
<1> DEFINE Marked == {x \in Days : record[s][x] # None}
           by_day == [d \in Marked |-> record[s][d].status]
           On(status) == {d \in DOMAIN by_day : by_day[d] = status}
           P == On("present") \cup On("late")
           H == P \cup On("half_day")
<1>1. s \in Students /\ \A d \in Marked : record[s][d].status \in AttendanceStatus
  BY DEF Roster, RegisterTypeOK, Record
<1>2. \A status : On(status) = {d \in Days : record[s][d] # None /\ record[s][d].status = status}
  OBVIOUS
<1>3. /\ StudentMonthSummary(s).counted = {d \in DOMAIN by_day : by_day[d] # "holiday"}
      /\ StudentMonthSummary(s).present = H
      /\ StudentMonthSummary(s).absent = On("absent")
  BY <1>1, <1>2 DEF StudentMonthSummary, DaysWith, AttendanceStatus
<1>4. /\ MonthRegister(r)[s].counted = Cardinality({d \in DOMAIN by_day : by_day[d] # "holiday"})
      /\ MonthRegister(r)[s].present = Cardinality(On("present"))
      /\ MonthRegister(r)[s].late = Cardinality(On("late"))
      /\ MonthRegister(r)[s].half_day = Cardinality(On("half_day"))
      /\ MonthRegister(r)[s].absent = Cardinality(On("absent"))
  BY DEF MonthRegister
<1>5. \A status : IsFiniteSet(On(status)) /\ Cardinality(On(status)) \in Nat
  BY <1>2, FiniteDays
<1>6. On("present") \cap On("late") = {} /\ P \cap On("half_day") = {}
  OBVIOUS
<1> HIDE DEF On
<1>7. IsFiniteSet(P) /\ Cardinality(P) = Cardinality(On("present")) + Cardinality(On("late"))
  BY <1>5, <1>6, DisjointCount
<1> HIDE DEF P
<1>8. Cardinality(H) = Cardinality(P) + Cardinality(On("half_day"))
  BY <1>5, <1>6, <1>7, DisjointCount
<1> QED
  BY <1>3, <1>4, <1>7, <1>8

\* The dashboard, the office's list, the printed register and a child's month: for
\* finitely many children, whatever statuses, their figures are the same numbers.
THEOREM ReportsAgree ==
  ASSUME IsFiniteSet(Students)
  PROVE  RegisterSpec => []FiguresAgree
<1>1. RegisterTypeOK => FiguresAgree
  BY DaysAgreeWhenTyped, MonthsAgreeWhenTyped DEF FiguresAgree
<1> QED
  BY <1>1, RegisterTypeCorrect, PTL

\* Whatever has been marked, the room's report is in an order, and opens with the
\* children who have stopped coming.
THEOREM NobodyGoneIsBuried == RegisterSpec => []StoppedComingStandsFirst
<1> DEFINE counted(s) == Cardinality(StudentMonthSummary(s).counted)
           present(s) == Cardinality(StudentMonthSummary(s).present)
<1>1. \A s \in Students :
        /\ StudentMonthSummary(s).counted \subseteq Days
        /\ StudentMonthSummary(s).present \subseteq StudentMonthSummary(s).counted
  BY DEF StudentMonthSummary, DaysWith, AttendanceStatus
<1>2. \A s \in Students :
        /\ counted(s) \in Nat /\ present(s) \in Nat
        /\ counted(s) = 0 <=> StudentMonthSummary(s).counted = {}
        /\ present(s) = 0 <=> StudentMonthSummary(s).present = {}
  <2> SUFFICES ASSUME NEW s \in Students, NEW D \in {StudentMonthSummary(s).counted,
                                                    StudentMonthSummary(s).present}
               PROVE  Cardinality(D) \in Nat /\ (Cardinality(D) = 0 <=> D = {})
    OBVIOUS
  <2>1. D \in SUBSET Days
    BY <1>1
  <2> QED
    BY <2>1, FiniteDays, FS_EmptySet
<1>3. \A s, q \in Students : LowerRate(s, q) <=> present(s) * counted(q) < present(q) * counted(s)
  BY DEF LowerRate
<1> HIDE DEF counted, present
<1>4. StoppedComingStandsFirst
  <2> SUFFICES ASSUME NEW r \in Rooms, NEW s \in Roster(r), NEW q \in Roster(r)
               PROVE  /\ <<s, s>> \notin ClassroomMonthReport(r)
                      /\ <<s, q>> \in ClassroomMonthReport(r) =>
                           <<q, s>> \notin ClassroomMonthReport(r)
                      /\ /\ StudentMonthSummary(s).present = {}
                         /\ StudentMonthSummary(q).present # {}
                         => <<s, q>> \in ClassroomMonthReport(r)
    BY DEF StoppedComingStandsFirst
  <2>1. s \in Students /\ q \in Students
    BY DEF Roster
  <2>2. /\ <<s, q>> \in ClassroomMonthReport(r) <=> Rated(q) /\ (Rated(s) => LowerRate(s, q))
        /\ <<q, s>> \in ClassroomMonthReport(r) <=> Rated(s) /\ (Rated(q) => LowerRate(q, s))
        /\ <<s, s>> \in ClassroomMonthReport(r) <=> Rated(s) /\ (Rated(s) => LowerRate(s, s))
    BY DEF ClassroomMonthReport
  <2>3. ~LowerRate(s, s) /\ (LowerRate(s, q) => ~LowerRate(q, s))
    BY <1>2, <1>3, <2>1
  <2>4. ASSUME StudentMonthSummary(s).present = {}, StudentMonthSummary(q).present # {}
        PROVE  Rated(q) /\ (Rated(s) => LowerRate(s, q))
    <3>1. Rated(q)
      BY <1>1, <2>1, <2>4 DEF Rated
    <3>2. ASSUME Rated(s) PROVE LowerRate(s, q)
      <4>1. present(s) = 0 /\ present(q) > 0 /\ counted(s) > 0 /\ counted(q) \in Nat
        BY <1>2, <2>1, <2>4, <3>2 DEF Rated
      <4>2. present(s) * counted(q) = 0
        BY <4>1
      <4>3. present(q) * counted(s) > 0
        BY <1>2, <2>1, <4>1
      <4> QED
        BY <1>3, <2>1, <4>2, <4>3
    <3> QED
      BY <3>1, <3>2
  <2> QED
    BY <2>2, <2>3, <2>4
<1> QED
  BY <1>4, PTL

-------------------------------------------------------------------------------
(***************************************************************************)
(* Door                                                                    *)
(***************************************************************************)
\* What a request has read was on the list while it was at work.
ReadFromTheList ==
    \A q \in Posts : post[q] # None =>
        post[q].guardians \cup DOMAIN post[q].pickups \subseteq onList[q]

DoorInv == DoorTypeOK /\ ReadFromTheList /\ LastReleaseStands

LEMMA DoorInitInv == DoorInit => DoorInv
  BY NullIsNoRow, PeopleAndWords DEF DoorInit, DoorInv, DoorTypeOK, ReadFromTheList, LastReleaseStands

\* A request holds rows of pickups and guardians there are.
LEMMA PostIsTyped ==
  ASSUME DoorTypeOK, NEW q \in Posts, post[q] # None
  PROVE  /\ post[q].record \in Attended
         /\ post[q].record[1] \in Students /\ post[q].record[2] \in Days
         /\ post[q].guardians \subseteq Guardians
         /\ DOMAIN post[q].pickups \subseteq Pickups
         /\ \A p \in DOMAIN post[q].pickups : post[q].pickups[p] \in AuthorizedPickup
<1>1. post[q] \in Post
  BY DEF DoorTypeOK
<1>2. PICK P \in SUBSET Pickups : post[q].pickups \in [P -> AuthorizedPickup]
  BY <1>1 DEF Post
<1> QED
  BY <1>1, <1>2, RecordsOfChildren DEF Post

LEMMA ListsAreTyped ==
  ASSUME DoorTypeOK, NEW r \in Attended
  PROVE  ListFor(r) \subseteq Pickups \cup Guardians
  BY DEF ListFor, ValidPickupsFor, GuardiansForStudent

-------------------------------------------------------------------------------
\* An edit of the lists adds to what requests have seen on them, and a row some
\* child has left with stays.
LEMMA EditsKeepInv ==
  ASSUME DoorInv, ListEdits
  PROVE  DoorInv'
<1> USE NullIsNoRow DEF DoorInv
<1>1. /\ link' \subseteq Students \X Guardians
      /\ pickup' \in [Pickups -> AuthorizedPickup \cup {None}]
      /\ Remember
      /\ \A r \in Attended :
           (released[r] # None /\ released[r].authorized_pickup # None) =>
              pickup'[released[r].authorized_pickup] # None
  <2>1. ASSUME NEW s \in Students, NEW g \in Guardians, LinkGuardian(s, g) \/ UnlinkGuardian(s, g)
        PROVE  <1>1
    BY <2>1 DEF LinkGuardian, UnlinkGuardian, DoorTypeOK
  <2>2. ASSUME NEW p \in Pickups, NEW w \in AuthorizedPickup, SetPickup(p, w)
        PROVE  <1>1
    BY <2>2 DEF SetPickup, DoorTypeOK
  <2>3. ASSUME NEW p \in Pickups, DeletePickup(p)
        PROVE  <1>1
    BY <2>3 DEF DeletePickup, DoorTypeOK
  <2> QED
    BY <2>1, <2>2, <2>3 DEF ListEdits
<1>2. /\ UNCHANGED <<released, post, last>>
      /\ onList' = [q \in Posts |->
           IF post[q] = None THEN {} ELSE onList[q] \cup ListFor(post[q].record)']
  BY <1>1 DEF Remember
<1>3. \A r \in Attended : ListFor(r)' \subseteq Pickups \cup Guardians
  BY DEF ListFor, ValidPickupsFor, GuardiansForStudent
<1>4. \A q \in Posts : post[q] # None =>
        ListFor(post[q].record)' \subseteq Pickups \cup Guardians
  BY <1>2, <1>3, PostIsTyped
<1>5. onList' \in [Posts -> SUBSET (Pickups \cup Guardians)]
  BY <1>2, <1>4 DEF DoorTypeOK
<1>6. DoorTypeOK'
  BY <1>1, <1>2, <1>5 DEF DoorTypeOK
<1>7. ReadFromTheList'
  BY <1>2 DEF ReadFromTheList
<1>8. LastReleaseStands'
  BY <1>2 DEF LastReleaseStands, CollectedBy, WasOverride
<1> QED
  BY <1>6, <1>7, <1>8

\* A request starts with the lists as they are, and may end without a release.
LEMMA PostsKeepInv ==
  ASSUME DoorInv, NEW q \in Posts,
         ClosePost(q) \/ \E r \in Attended : OpenPost(q, r)
  PROVE  DoorInv'
<1> USE NullIsNoRow DEF DoorInv
<1>1. UNCHANGED <<link, pickup, released, last>>
  BY DEF ClosePost, OpenPost
<1>2. CASE ClosePost(q)
  <2>1. post' = [post EXCEPT ![q] = None] /\ onList' = [onList EXCEPT ![q] = {}]
    BY <1>2 DEF ClosePost
  <2> QED
    BY <1>1, <2>1 DEF DoorTypeOK, ReadFromTheList, LastReleaseStands, CollectedBy, WasOverride
<1>3. ASSUME NEW r \in Attended, OpenPost(q, r)
      PROVE  DoorInv'
  <2> DEFINE valid == ValidPickupsFor(r[1], r[2])
             new == [record |-> r, guardians |-> GuardiansForStudent(r[1]),
                     pickups |-> [p \in valid |-> pickup[p]]]
  <2>1. post' = [post EXCEPT ![q] = new] /\ onList' = [onList EXCEPT ![q] = ListFor(r)]
    BY <1>3 DEF OpenPost
  <2>2. valid \in SUBSET Pickups /\ [p \in valid |-> pickup[p]] \in [valid -> AuthorizedPickup]
    BY DEF ValidPickupsFor, DoorTypeOK
  <2>3. new \in Post
    BY <2>2 DEF Post, GuardiansForStudent
  <2>4. new.guardians \cup DOMAIN new.pickups \subseteq ListFor(r)
    BY DEF ListFor
  <2>5. ListFor(r) \subseteq Pickups \cup Guardians
    BY ListsAreTyped
  <2> HIDE DEF new
  <2>6. DoorTypeOK'
    BY <1>1, <2>1, <2>3, <2>5 DEF DoorTypeOK
  <2>7. ReadFromTheList'
    BY <2>1, <2>4 DEF ReadFromTheList, DoorTypeOK
  <2>8. LastReleaseStands'
    BY <1>1 DEF LastReleaseStands, CollectedBy, WasOverride
  <2> QED
    BY <2>6, <2>7, <2>8
<1> QED
  BY <1>2, <1>3

-------------------------------------------------------------------------------
\* The record of a release: one person, by name.
NamesOne(c) ==
    /\ c \in PickupRecord
    /\ CollectedBy(c) \in Pickups \cup Guardians \cup Texts
    /\ {c.authorized_pickup, c.guardian, c.override_name} \ {None, Blank} = {CollectedBy(c)}
    /\ WasOverride(c) <=> CollectedBy(c) \in Texts
    /\ c.authorized_pickup # None => pickup[c.authorized_pickup] # None

LEMMA WriteKeepsInv ==
  ASSUME DoorInv, NEW q \in Posts, post[q] # None, NEW who, NamesOne(who), WritePickup(q, who)
  PROVE  DoorInv'
<1> USE NullIsNoRow DEF DoorInv
<1> DEFINE r == post[q].record
<1>1. /\ released' = [released EXCEPT ![r] = who]
      /\ last' = [last EXCEPT ![r] = CollectedBy(who)]
      /\ post' = [post EXCEPT ![q] = None]
      /\ onList' = [onList EXCEPT ![q] = {}]
      /\ UNCHANGED <<link, pickup>>
      /\ r \in Attended
  BY PostIsTyped DEF WritePickup
<1> HIDE DEF r
<1>2. DoorTypeOK'
  BY <1>1 DEF DoorTypeOK, NamesOne
<1>3. ReadFromTheList'
  BY <1>1 DEF ReadFromTheList, DoorTypeOK
<1>4. LastReleaseStands'
  <2> SUFFICES ASSUME NEW s \in Attended, released'[s] # None
               PROVE  LET c == released'[s]
                          named == {c.authorized_pickup, c.guardian, c.override_name} \ {None, Blank}
                      IN  /\ CollectedBy(c) = last'[s]
                          /\ named = {last'[s]}
                          /\ WasOverride(c) <=> last'[s] \in Texts
    BY DEF LastReleaseStands, CollectedBy, WasOverride
  <2>1. CASE s = r
    BY <1>1, <2>1 DEF NamesOne, DoorTypeOK
  <2>2. CASE s # r
    BY <1>1, <2>2 DEF LastReleaseStands, DoorTypeOK
  <2> QED
    BY <2>1, <2>2
<1> QED
  BY <1>2, <1>3, <1>4

\* A release, of each kind: a record of one person, who is on the list the request
\* has seen or has a name and a reason.
LEMMA ReleaseNamesOne ==
  ASSUME DoorInv, NEW q \in Posts,
         \/ \E p \in Pickups : ReleaseToAuthorized(q, p)
         \/ \E g \in Guardians : ReleaseToGuardian(q, g)
         \/ \E name, reason \in Written : ReleaseWithOverride(q, name, reason)
  PROVE  \E who : /\ post[q] # None
                  /\ NamesOne(who)
                  /\ WritePickup(q, who)
                  /\ \/ WasOverride(who) /\ who.override_name # Blank /\ who.override_reason # Blank
                     \/ CollectedBy(who) \in onList[q]
<1> USE NullIsNoRow, PeopleAndWords
<1>1. ASSUME NEW p \in Pickups, ReleaseToAuthorized(q, p)
      PROVE  \E who : /\ post[q] # None
                      /\ NamesOne(who)
                      /\ WritePickup(q, who)
                      /\ CollectedBy(who) \in onList[q]
  <2> DEFINE who == [Nobody EXCEPT !.authorized_pickup = p]
  <2>1. post[q] # None /\ WritePickup(q, who) /\ p \in onList[q] /\ pickup[p] # None
    BY <1>1 DEF ReleaseToAuthorized, DoorInv, ReadFromTheList
  <2>2. who = [authorized_pickup |-> p, guardian |-> None,
               override_name |-> Blank, override_reason |-> Blank]
    BY DEF Nobody
  <2>3. NamesOne(who) /\ CollectedBy(who) = p
    BY <2>1, <2>2 DEF NamesOne, PickupRecord, CollectedBy, WasOverride, Written
  <2> QED
    BY <2>1, <2>3
<1>2. ASSUME NEW g \in Guardians, ReleaseToGuardian(q, g)
      PROVE  \E who : /\ post[q] # None
                      /\ NamesOne(who)
                      /\ WritePickup(q, who)
                      /\ CollectedBy(who) \in onList[q]
  <2> DEFINE who == [Nobody EXCEPT !.guardian = g]
  <2>1. post[q] # None /\ WritePickup(q, who) /\ g \in onList[q]
    BY <1>2 DEF ReleaseToGuardian, DoorInv, ReadFromTheList
  <2>2. who = [authorized_pickup |-> None, guardian |-> g,
               override_name |-> Blank, override_reason |-> Blank]
    BY DEF Nobody
  <2>3. NamesOne(who) /\ CollectedBy(who) = g
    BY <2>2 DEF NamesOne, PickupRecord, CollectedBy, WasOverride, Written
  <2> QED
    BY <2>1, <2>3
<1>3. ASSUME NEW name \in Written, NEW reason \in Written, ReleaseWithOverride(q, name, reason)
      PROVE  \E who : /\ post[q] # None
                      /\ NamesOne(who)
                      /\ WritePickup(q, who)
                      /\ WasOverride(who) /\ who.override_name # Blank /\ who.override_reason # Blank
  <2> DEFINE who == [Nobody EXCEPT !.override_name = name, !.override_reason = reason]
  <2>1. post[q] # None /\ WritePickup(q, who) /\ name # Blank /\ reason # Blank
    BY <1>3 DEF ReleaseWithOverride
  <2>2. who = [authorized_pickup |-> None, guardian |-> None,
               override_name |-> name, override_reason |-> reason]
    <3> DEFINE half == [Nobody EXCEPT !.override_name = name]
    <3>1. half = [authorized_pickup |-> None, guardian |-> None,
                  override_name |-> name, override_reason |-> Blank]
      BY DEF Nobody
    <3>2. who = [half EXCEPT !.override_reason = reason]
      BY DEF Nobody
    <3> HIDE DEF half, who
    <3> QED
      BY <3>1, <3>2
  <2>3. NamesOne(who) /\ WasOverride(who)
    BY <2>1, <2>2 DEF NamesOne, PickupRecord, CollectedBy, WasOverride, Written
  <2> QED
    BY <2>1, <2>2, <2>3
<1> QED
  BY <1>1, <1>2, <1>3

LEMMA DoorNextInv == DoorInv /\ [DoorNext]_doorVars => DoorInv'
<1> SUFFICES ASSUME DoorInv, [DoorNext]_doorVars PROVE DoorInv'
  OBVIOUS
<1>1. CASE ListEdits
  BY <1>1, EditsKeepInv
<1>2. ASSUME NEW q \in Posts, AtTheDoor(q) PROVE DoorInv'
  BY <1>2, PostsKeepInv, ReleaseNamesOne, WriteKeepsInv DEF AtTheDoor
<1>3. CASE UNCHANGED doorVars
  BY <1>3 DEF doorVars, DoorInv, DoorTypeOK, ReadFromTheList, LastReleaseStands, CollectedBy, WasOverride
<1> QED
  BY <1>1, <1>2, <1>3 DEF DoorNext

THEOREM DoorInvariant == DoorSpec => []DoorInv
<1>1. DoorInit => DoorInv
  BY DoorInitInv
<1>2. DoorInv /\ [DoorNext]_doorVars => DoorInv'
  BY DoorNextInv
<1> QED
  BY <1>1, <1>2, PTL DEF DoorSpec

-------------------------------------------------------------------------------
\* Types, and that a pickup a child has left with stays in the table.
THEOREM DoorTypeCorrect == DoorSpec => []DoorTypeOK
BY DoorInvariant, PTL DEF DoorInv

\* A record is read back as whom the last release named, and names nobody else.
THEOREM OneStoryPerRecord == DoorSpec => []LastReleaseStands
BY DoorInvariant, PTL DEF DoorInv

\* Only a release writes a record, and only one of a request for it.
LEMMA ReleasesAreByRight == DoorInv /\ [DoorNext]_doorVars => ByRight
<1> SUFFICES ASSUME DoorInv, [DoorNext]_doorVars, NEW r \in Attended,
                    released'[r] \notin {released[r], None}
             PROVE  \/ /\ WasOverride(released'[r])
                       /\ released'[r].override_name # Blank /\ released'[r].override_reason # Blank
                    \/ \E q \in Posts : /\ post[q] # None
                                        /\ post[q].record = r
                                        /\ CollectedBy(released'[r]) \in onList[q]
  BY DEF ByRight
<1>1. PICK q \in Posts : AtTheDoor(q)
  BY DEF DoorNext, ListEdits, LinkGuardian, UnlinkGuardian, SetPickup, DeletePickup, Remember, doorVars
<1>2. ~ClosePost(q) /\ ~\E s \in Attended : OpenPost(q, s)
  BY DEF ClosePost, OpenPost
<1>3. PICK who : /\ post[q] # None
                 /\ WritePickup(q, who)
                 /\ \/ WasOverride(who) /\ who.override_name # Blank /\ who.override_reason # Blank
                    \/ CollectedBy(who) \in onList[q]
  BY <1>1, <1>2, ReleaseNamesOne DEF AtTheDoor
<1>4. released' = [released EXCEPT ![post[q].record] = who] /\ post[q].record \in Attended
  BY <1>3, PostIsTyped DEF WritePickup, DoorInv
<1>5. post[q].record = r /\ released'[r] = who
  BY <1>4 DEF DoorInv, DoorTypeOK
<1> QED
  BY <1>3, <1>5

\* Whoever a child is recorded as leaving with was on its list for that day while
\* the request was at work, or is on no list and has a name and a reason.
THEOREM NobodyLeavesOtherwise == DoorSpec => ReleasedByRight
<1>1. DoorInv /\ [DoorNext]_doorVars => ByRight
  BY ReleasesAreByRight
<1> QED
  BY <1>1, DoorInvariant, PTL DEF DoorSpec, ReleasedByRight

LEMMA WindowsReadAlike == DoorTypeOK => OfferedIsAccepted
<1> SUFFICES ASSUME DoorTypeOK, NEW s \in Students, NEW d \in Days, NEW p \in Pickups, pickup[p] # None
             PROVE  p \in ValidPickupsFor(s, d) <=> pickup[p].student = s /\ IsValidOn(pickup[p], d)
  BY DEF OfferedIsAccepted
<1>1. pickup[p] \in AuthorizedPickup
  BY DEF DoorTypeOK
<1>2. /\ d \in Int /\ pickup[p].valid_from \in Int
      /\ pickup[p].valid_to # None => pickup[p].valid_to \in Int
  BY <1>1, RecordsOfChildren DEF AuthorizedPickup, Days
<1> QED
  BY <1>2 DEF ValidPickupsFor, IsValidOn

\* A pickup is offered on a day exactly when a release to it would be taken.
THEOREM ScreenAndServiceAgree == DoorSpec => []OfferedIsAccepted
BY DoorTypeCorrect, WindowsReadAlike, PTL
=================================================================================
