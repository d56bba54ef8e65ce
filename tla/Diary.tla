--------------------------------- MODULE Diary ---------------------------------
(***************************************************************************)
(* The written day and the accident book (apps/activities).  A teacher     *)
(* writes a draft about one child or a whole room and publishes a room's   *)
(* day at once; the parent's diary unions the child's own entries with     *)
(* those of the rooms the child was in at the time, read off the enrolment *)
(* rows (selectors._room_entries_for).  An incident has no draft, and is   *)
(* acknowledged by one named guardian (services.acknowledge_incident).     *)
(*                                                                         *)
(* Publishing reads its list and then updates; acknowledging reads the     *)
(* report, and then saves what it decides from that reading.  A child has  *)
(* at most one open row of an academic year, and may have one of several.  *)
(* Everybody is of one branch.                                             *)
(***************************************************************************)
EXTENDS Common, FiniteSets

CONSTANTS
    Rooms,
    Years,       \* academic years with a form to enrol in
    Guardians,
    Entries,     \* activity entries, in the order of their ids
    Incidents,
    Publishes,   \* publish_day requests running at once
    Answers,     \* acknowledge requests running at once
    MaxRows      \* bound: enrolment rows opened

\* ActivityEntry: exactly one of child and room, and the day of occurred_at.
Entry == {e \in [state : {"draft", "published", "erased"}, student : Students \cup {None},
                 room : Rooms \cup {None}, day : Days, at : Days \cup {None}] :
            /\ (e.student = None) # (e.room = None)
            /\ e.state = "draft" => e.at = None}

\* IncidentReport, as far as the acknowledgement goes.
Incident == [student : Students, by : Guardians \cup {None}, at : Days \cup {None}]

\* Enrollment: joined_on and left_on, which is None while the row is open.
Row == [student : Students, room : Rooms, year : Years,
        joined : Days, left : Days \cup {None}]

\* acknowledge: who asks, about what, and the report as it was read.
Answer == [guardian : Guardians, incident : Incidents, read : Incident]

ASSUME NoneIsNull ==
    /\ None \notin Students \cup Rooms \cup Guardians
    /\ None \notin Days
    /\ None \notin Entry
    /\ None \notin Incident
    /\ None \notin Answer

VARIABLES
    today,
    rows,        \* the enrolment rows
    links,       \* <<guardian, child>>
    entry,       \* ActivityEntry rows
    publish,     \* the entries a publish_day has listed and has yet to update, if any
    incident,    \* IncidentReport rows
    answer,      \* what an acknowledge has read and not yet saved
    was,         \* history: <<child, room, day>>, where children have been
    overlapped   \* history: incidents two requests were acknowledging at once

book == <<entry, publish>>
accidents == <<incident, answer, overlapped>>
vars == <<today, rows, links, book, accidents, was>>

TypeOK ==
    /\ today \in Days
    /\ rows \subseteq Row
    /\ links \subseteq Guardians \X Students
    /\ entry \in [Entries -> Entry \cup {None}]
    /\ publish \in [Publishes -> SUBSET Entries]
    /\ incident \in [Incidents -> Incident \cup {None}]
    /\ answer \in [Answers -> Answer \cup {None}]
    /\ was \subseteq Students \X Rooms \X Days
    /\ overlapped \subseteq Incidents
    \* one_open_enrollment_per_student_per_year, and no row of a day to come.
    /\ \A r, q \in rows :
         r.student = q.student /\ r.year = q.year /\ r.left = None /\ q.left = None => r = q
    /\ \A r \in rows : r.joined <= today
    \* An acknowledgement is dated, and by somebody the child is linked to.
    /\ \A i \in Incidents : incident[i] # None =>
         /\ incident[i].by = None <=> incident[i].at = None
         /\ incident[i].by # None => <<incident[i].by, incident[i].student>> \in links
    /\ \A a \in Answers : answer[a] # None => incident[answer[a].incident] # None

Init ==
    /\ today = 0
    /\ rows = {}
    /\ links \in SUBSET (Guardians \X Students)
    /\ entry = [e \in Entries |-> None]
    /\ publish = [p \in Publishes |-> {}]
    /\ incident = [i \in Incidents |-> None]
    /\ answer = [a \in Answers |-> None]
    /\ was = {}
    /\ overlapped = {}

-------------------------------------------------------------------------------
(***************************************************************************)
(* Reads                                                                   *)
(***************************************************************************)
OpenRows(s) == {r \in rows : r.student = s /\ r.left = None}

OpenRowsOf(s, year) == {r \in OpenRows(s) : r.year = year}

\* roster: who is in the room now.
Roster(room) == {s \in Students : \E r \in OpenRows(s) : r.room = room}

\* entries_for_user: a room is reached through the children ever enrolled in it.
EntriesForUser ==
    {e \in Entries : /\ entry[e] # None
                     /\ entry[e].state # "erased"
                     /\ entry[e].room # None => \E r \in rows : r.room = entry[e].room}

\* entries_for_room_on: the room's own entries and those of its present children.
EntriesForRoomOn(room, day) ==
    {e \in EntriesForUser : /\ entry[e].student \in Roster(room) \/ entry[e].room = room
                            /\ entry[e].day = day}

\* unacknowledged_incidents: what the branch admin chases.
UnacknowledgedIncidents == {i \in Incidents : incident[i] # None /\ incident[i].at = None}

\* Variant: the rooms the child is in now.
RoomEntriesFor_Now(s) ==
    {e \in Entries : entry[e] # None /\ \E r \in OpenRows(s) : r.room = entry[e].room}

\* _room_entries_for: the entries of a room within a row's window, both days included.
RoomEntriesFor(s) ==
    {e \in Entries : entry[e] # None /\ \E r \in rows :
        /\ r.student = s
        /\ r.room = entry[e].room
        /\ entry[e].day >= r.joined
        /\ r.left # None => entry[e].day <= r.left}

\* entries_for_child_of, for a guardian of the child.
EntriesForChild(s) ==
    {e \in Entries : /\ entry[e] # None
                     /\ entry[e].state = "published"
                     /\ entry[e].student = s \/ e \in RoomEntriesFor(s)}

\* incidents_for_child_of: the reports about a child, for a guardian linked to it.
IncidentsForChild(g, s) ==
    {i \in Incidents : <<g, s>> \in links /\ incident[i] # None /\ incident[i].student = s}

\* enrolment_trend, the month that starts on a day and ends before another: each child
\* once, however many of its rows were opened and closed in it.
EnrolmentTrend(first, nxt) ==
    [joined |-> {s \in Students : \E r \in rows :
                    r.student = s /\ first <= r.joined /\ r.joined < nxt},
     left |-> {s \in Students : \E r \in rows :
                    r.student = s /\ r.left # None /\ first <= r.left /\ r.left < nxt}]

-------------------------------------------------------------------------------
(***************************************************************************)
(* The roll                                                                *)
(***************************************************************************)
\* Whoever is in a room at midnight is in it the day after.
NextDay ==
    /\ today < LastDay
    /\ today' = today + 1
    /\ was' = was \cup {<<r.student, r.room, today + 1>> : r \in {q \in rows : q.left = None}}
    /\ UNCHANGED <<rows, links, book, accidents>>

\* What is left of the rows when some of them are closed: all, dated today.
RowsOnceClosed(closing) ==
    (rows \ closing) \cup {[r EXCEPT !.left = today] : r \in closing}

NewRow(s, room, year) ==
    [student |-> s, room |-> room, year |-> year, joined |-> today, left |-> None]

\* Variant: a move edits the row.
EnrollStudent_Edits(s, room, year) ==
    /\ Cardinality(rows) < MaxRows
    /\ room \notin {r.room : r \in OpenRowsOf(s, year)}
    /\ rows' = IF OpenRowsOf(s, year) = {} THEN rows \cup {NewRow(s, room, year)}
               ELSE (rows \ OpenRowsOf(s, year))
                      \cup {[r EXCEPT !.room = room] : r \in OpenRowsOf(s, year)}
    /\ was' = was \cup {<<s, room, today>>}
    /\ UNCHANGED <<today, links, book, accidents>>

\* Variant: the open rows of every year are closed.
EnrollStudent_ClosesAll(s, room, year) ==
    /\ Cardinality(rows) < MaxRows
    /\ room \notin {r.room : r \in OpenRowsOf(s, year)}
    /\ rows' = RowsOnceClosed(OpenRows(s)) \cup {NewRow(s, room, year)}
    /\ was' = was \cup {<<s, room, today>>}
    /\ UNCHANGED <<today, links, book, accidents>>

\* enroll_student: the open row of the year is closed today and another opened; one
\* of another year stays as it is.  For the room the child is in that year already
\* there is nothing to do.
EnrollStudent(s, room, year) ==
    /\ Cardinality(rows) < MaxRows
    /\ room \notin {r.room : r \in OpenRowsOf(s, year)}
    /\ rows' = RowsOnceClosed(OpenRowsOf(s, year)) \cup {NewRow(s, room, year)}
    /\ was' = was \cup {<<s, room, today>>}
    /\ UNCHANGED <<today, links, book, accidents>>

\* withdraw_student: every open row ends today.
WithdrawStudent(s) ==
    /\ rows' = RowsOnceClosed(OpenRows(s))
    /\ UNCHANGED <<today, links, book, accidents, was>>

LinkGuardian(g, s) ==
    /\ links' = links \cup {<<g, s>>}
    /\ UNCHANGED <<today, rows, book, accidents, was>>

(***************************************************************************)
(* The book                                                                *)
(***************************************************************************)
RecordEntry(e, student, room, day) ==
    /\ entry[e] = None
    /\ entry' = [entry EXCEPT ![e] =
         [state |-> "draft", student |-> student, room |-> room, day |-> day, at |-> None]]
    /\ UNCHANGED <<today, rows, links, publish, accidents, was>>

\* quick_entry, on whatever day the address says: about a child, or with
\* record_for_classroom about the room.
QuickEntry(e, day) ==
    \/ \E s \in Students : RecordEntry(e, s, None, day)
    \/ \E room \in Rooms : RecordEntry(e, None, room, day)

\* publish_day lists the day's entries.
ListDay(p, room, day) ==
    /\ publish[p] = {}
    /\ publish' = [publish EXCEPT ![p] = EntriesForRoomOn(room, day)]
    /\ UNCHANGED <<today, rows, links, entry, accidents, was>>

Stamped(e) == [entry[e] EXCEPT !.state = "published", !.at = today]

\* Variant: every entry on the list is stamped.
PublishEntries_Restamps(p) ==
    /\ publish[p] # {}
    /\ entry' = [e \in Entries |->
         IF e \in publish[p] /\ entry[e].state # "erased" THEN Stamped(e) ELSE entry[e]]
    /\ publish' = [publish EXCEPT ![p] = {}]
    /\ UNCHANGED <<today, rows, links, accidents, was>>

\* publish_entries: one UPDATE of those on the list that are drafts still.
PublishEntries(p) ==
    /\ publish[p] # {}
    /\ entry' = [e \in Entries |->
         IF e \in publish[p] /\ entry[e].state = "draft" THEN Stamped(e) ELSE entry[e]]
    /\ publish' = [publish EXCEPT ![p] = {}]
    /\ UNCHANGED <<today, rows, links, accidents, was>>

\* The last step of erase_student_media takes the child's own entries.
EraseEntries(s) ==
    /\ entry' = [e \in Entries |->
         IF entry[e] # None /\ entry[e].student = s
         THEN [entry[e] EXCEPT !.state = "erased"] ELSE entry[e]]
    /\ UNCHANGED <<today, rows, links, publish, accidents, was>>

(***************************************************************************)
(* The accident book                                                       *)
(***************************************************************************)
ReportIncident(i, s) ==
    /\ incident[i] = None
    /\ incident' = [incident EXCEPT ![i] = [student |-> s, by |-> None, at |-> None]]
    /\ UNCHANGED <<today, rows, links, book, answer, overlapped, was>>

\* Variant: any account, by the number of the report.
OpenIncident_AnyGuardian(a, g, i) ==
    /\ answer[a] = None
    /\ incident[i] # None
    /\ answer' = [answer EXCEPT ![a] = [guardian |-> g, incident |-> i, read |-> incident[i]]]
    /\ overlapped' = IF \E b \in Answers : answer[b] # None /\ answer[b].incident = i
                     THEN overlapped \cup {i} ELSE overlapped
    /\ UNCHANGED <<today, rows, links, book, incident, was>>

\* acknowledge finds the report among those of the guardian's children.
OpenIncident(a, g, i) ==
    /\ answer[a] = None
    /\ incident[i] # None
    /\ <<g, incident[i].student>> \in links
    /\ answer' = [answer EXCEPT ![a] = [guardian |-> g, incident |-> i, read |-> incident[i]]]
    /\ overlapped' = IF \E b \in Answers : answer[b] # None /\ answer[b].incident = i
                     THEN overlapped \cup {i} ELSE overlapped
    /\ UNCHANGED <<today, rows, links, book, incident, was>>

Acknowledged(x, g) == [x EXCEPT !.by = g, !.at = today]

\* Variant: the latest answer is kept.
AcknowledgeIncident_Latest(a) ==
    /\ answer[a] # None
    /\ incident' = [incident EXCEPT ![answer[a].incident] = Acknowledged(@, answer[a].guardian)]
    /\ answer' = [answer EXCEPT ![a] = None]
    /\ UNCHANGED <<today, rows, links, book, overlapped, was>>

\* acknowledge_incident saves, if what was read had not been acknowledged.
AcknowledgeIncident(a) ==
    /\ answer[a] # None
    /\ incident' = IF answer[a].read.at = None
                   THEN [incident EXCEPT ![answer[a].incident] =
                           Acknowledged(@, answer[a].guardian)]
                   ELSE incident
    /\ answer' = [answer EXCEPT ![a] = None]
    /\ UNCHANGED <<today, rows, links, book, overlapped, was>>

\* A worker that stops between its read and its write.
Stop ==
    \/ /\ \E p \in Publishes : publish[p] # {} /\ publish' = [publish EXCEPT ![p] = {}]
       /\ UNCHANGED <<today, rows, links, entry, accidents, was>>
    \/ /\ \E a \in Answers : answer[a] # None /\ answer' = [answer EXCEPT ![a] = None]
       /\ UNCHANGED <<today, rows, links, book, incident, overlapped, was>>

-------------------------------------------------------------------------------
Office ==
    \E s \in Students :
        \/ \E room \in Rooms, year \in Years : EnrollStudent(s, room, year)
        \/ WithdrawStudent(s)
        \/ \E g \in Guardians : LinkGuardian(g, s)
        \/ EraseEntries(s)

Teachers ==
    \/ \E e \in Entries, day \in Days : QuickEntry(e, day)
    \/ \E p \in Publishes, room \in Rooms, day \in Days : ListDay(p, room, day)
    \/ \E p \in Publishes : PublishEntries(p)
    \/ \E i \in Incidents, s \in Students : ReportIncident(i, s)

Parents ==
    \/ \E a \in Answers, g \in Guardians, i \in Incidents : OpenIncident(a, g, i)
    \/ \E a \in Answers : AcknowledgeIncident(a)

Next == NextDay \/ Office \/ Teachers \/ Parents \/ Stop

Spec == Init /\ [][Next]_vars

-------------------------------------------------------------------------------
(***************************************************************************)
(* Properties                                                              *)
(***************************************************************************)
\* "the rooms this child was in AT THE TIME" (_room_entries_for): however a child
\* moved, left and came back, its diary holds the published entries about it and
\* those of each room on the days it was there, and nothing else.  An entry may
\* be dated ahead; where the child will be that day is no question yet.
DiaryIsTheirs ==
    \A s \in Students, e \in Entries :
        entry[e] # None /\ entry[e].day <= today =>
            (e \in EntriesForChild(s) <=>
                /\ entry[e].state = "published"
                /\ entry[e].student = s \/ <<s, entry[e].room, entry[e].day>> \in was)

\* "A guardian cannot acknowledge another family's incident -- which would put the
\* wrong name on the one record that exists to say who was told" (acknowledge): who
\* has signed a report, or is about to, finds it on the page of a child of theirs.
SignedByFamily ==
    LET MaySee(g, i) == \E s \in Students : i \in IncidentsForChild(g, s)
    IN  /\ \A i \in Incidents :
             incident[i] # None /\ incident[i].by # None => MaySee(incident[i].by, i)
        /\ \A a \in Answers :
             answer[a] # None => MaySee(answer[a].guardian, answer[a].incident)

InSchool(s, d) == \E room \in Rooms : <<s, room, d>> \in was

\* "A month that lost three children says so" (enrolment_trend): whoever was here one
\* day and not the next is among the leavers of the first day's month, and whoever was
\* not here one day and is the next among those who joined in the second's.
TrendMissesNobody ==
    \A s \in Students, first \in Days, nxt \in Days :
        LET trend == EnrolmentTrend(first, nxt)
        IN  \A d \in Days : d < today =>
              /\ first <= d /\ d < nxt /\ InSchool(s, d) /\ ~InSchool(s, d + 1) =>
                   s \in trend.left
              /\ first <= d + 1 /\ d + 1 < nxt /\ ~InSchool(s, d) /\ InSchool(s, d + 1) =>
                   s \in trend.joined

\* Against "children who joined and left, month by month" (enrolment_trend): of a month
\* that is over, a child among the leavers is one day of it here and the next not.
\* It does not hold: a move closes one row and opens another.
LeaversHaveLeft ==
    \A s \in Students, first \in Days, nxt \in Days :
        nxt <= today /\ s \in EnrolmentTrend(first, nxt).left =>
            \E d \in first .. nxt - 1 : InSchool(s, d) /\ ~InSchool(s, d + 1)

\* What the enrolment rows come to, for somebody who only knows Roll.
RoomFor(s, year) ==
    IF OpenRowsOf(s, year) = {} THEN None
    ELSE (CHOOSE r \in OpenRowsOf(s, year) : TRUE).room

RoomOf == [s \in Students |-> [year \in Years |-> RoomFor(s, year)]]

BeenIn == [s \in Students |-> {r.room : r \in {q \in rows : q.student = s}}]

DaysLeft(s) == {r.left : r \in {q \in rows : q.student = s /\ q.left # None}}

LastLeft ==
    [s \in Students |->
        IF DaysLeft(s) = {} THEN None
        ELSE CHOOSE d \in DaysLeft(s) : \A e \in DaysLeft(s) : e <= d]

TheRoll == INSTANCE Roll WITH date <- today, room <- RoomOf, been <- BeenIn, lastLeft <- LastLeft

\* The rows keep the roll, as Register and NoticeBoard take it: the room of a child in
\* an academic year is that of the year's one open row, an enrolment touches the room
\* of its own year alone, a withdrawal ends them all, and neither changes of the past
\* where a child has been or when it last left.
KeepsRoll == TheRoll!RollSpec

\* "The history is the point: attendance and invoices already point at the row that
\* was open at the time, and rewriting it would quietly rewrite them too"
\* (enroll_student): a row is closed, once and with the day it is, and nothing else
\* ever happens to it.
RowsStand ==
    \A r \in rows :
        \/ r \in rows'
        \/ r.left = None /\ [r EXCEPT !.left = today] \in rows'

HistoryStands == [][RowsStand]_vars

\* What a family has read stays as it was: an entry published at one time is not
\* published again, "a double tap does not reset every published_at"
\* (publish_entries), and the first acknowledgement stands (acknowledge_incident),
\* for as long as no two requests read the report unacknowledged at once.
WordsStand ==
    /\ \A e \in Entries : entry[e] # None /\ entry[e].state = "published" =>
         entry'[e] \in {entry[e], [entry[e] EXCEPT !.state = "erased"]}
    /\ \A i \in Incidents \ (overlapped \cup UnacknowledgedIncidents) :
         incident[i] # None => incident'[i] = incident[i]

FirstWordStands == [][WordsStand]_vars
===============================================================================
