------------------------------ MODULE DiaryProofs ------------------------------
(***************************************************************************)
(* Proofs about Diary, for any school, any rooms and any length of year:   *)
(* typing, that a family's diary holds its own days and no others however  *)
(* the child moved, and that what was published or acknowledged first      *)
(* stands.                                                                 *)
(***************************************************************************)
EXTENDS Diary, TLAPS

\* The days of a row, both included.
Within(r, d) == r.joined <= d /\ (r.left # None => d <= r.left)

\* The rows tell where a child has been on every day until today, and a row that
\* is closed was closed no earlier than it was opened and no later than today.
RowsTellHistory ==
    /\ \A r \in rows : r.left # None => r.joined <= r.left /\ r.left <= today
    /\ \A w \in was : w[3] <= today
    /\ \A s \in Students, room \in Rooms, d \in Days : d <= today =>
         (<<s, room, d>> \in was <=>
            \E r \in rows : r.student = s /\ r.room = room /\ Within(r, d))

\* What an acknowledge has in its hands: it is by somebody linked to the child;
\* what was read unacknowledged is so still, unless another was at it; and of
\* two at one report the history knows.
AnswersAreGood ==
    \A a \in Answers : answer[a] # None =>
        LET i == answer[a].incident
        IN  /\ <<answer[a].guardian, incident[i].student>> \in links
            /\ answer[a].read.at = None => incident[i].at = None \/ i \in overlapped
            /\ \A b \in Answers \ {a} :
                 answer[b] # None /\ answer[b].incident = i => i \in overlapped

\* An entry on the list of a publish_day is there when the update comes to it.
ListedAreThere == \A p \in Publishes : \A e \in publish[p] : entry[e] # None

DiaryInv == TypeOK /\ RowsTellHistory /\ ListedAreThere /\ AnswersAreGood

LEMMA InitInv == Init => DiaryInv
  BY DayBound DEF Init, DiaryInv, TypeOK, RowsTellHistory, ListedAreThere, AnswersAreGood, Days

-------------------------------------------------------------------------------
(***************************************************************************)
(* The conjuncts of the invariant that speak of the roll, of the book and  *)
(* of the accident book; a step disturbs one group of them.                *)
(***************************************************************************)
RollOK ==
    /\ today \in Days
    /\ rows \subseteq Row
    /\ was \subseteq Students \X Rooms \X Days
    /\ \A r, q \in rows :
         r.student = q.student /\ r.year = q.year /\ r.left = None /\ q.left = None => r = q
    /\ \A r \in rows : r.joined <= today
    /\ RowsTellHistory

BookOK ==
    /\ entry \in [Entries -> Entry \cup {None}]
    /\ publish \in [Publishes -> SUBSET Entries]
    /\ ListedAreThere

AccidentsOK ==
    /\ links \subseteq Guardians \X Students
    /\ incident \in [Incidents -> Incident \cup {None}]
    /\ answer \in [Answers -> Answer \cup {None}]
    /\ overlapped \subseteq Incidents
    /\ \A i \in Incidents : incident[i] # None =>
         /\ incident[i].by = None <=> incident[i].at = None
         /\ incident[i].by # None => <<incident[i].by, incident[i].student>> \in links
    /\ \A a \in Answers : answer[a] # None => incident[answer[a].incident] # None
    /\ AnswersAreGood

LEMMA InThreeParts ==
    /\ DiaryInv  <=> RollOK /\ BookOK /\ AccidentsOK
    /\ DiaryInv' <=> RollOK' /\ BookOK' /\ AccidentsOK'
  BY DEF DiaryInv, TypeOK, RollOK, BookOK, AccidentsOK

LEMMA RollUntouched == RollOK /\ UNCHANGED <<today, rows, was>> => RollOK'
  BY DEF RollOK, RowsTellHistory, Within

LEMMA BookUntouched == BookOK /\ UNCHANGED book => BookOK'
  BY DEF BookOK, ListedAreThere, book

LEMMA AccidentsUntouched == AccidentsOK /\ UNCHANGED <<links, accidents>> => AccidentsOK'
  BY DEF AccidentsOK, AnswersAreGood, accidents

-------------------------------------------------------------------------------
(***************************************************************************)
(* The roll                                                                *)
(***************************************************************************)
LEMMA DayKeepsRoll == RollOK /\ NextDay => RollOK'
<1> SUFFICES ASSUME RollOK, NextDay PROVE RollOK'
  OBVIOUS
<1> USE DayBound, NoneIsNull DEF Days
<1>1. today' = today + 1 /\ today' \in Days /\ rows' = rows /\ today \in Days
  BY DEF NextDay, RollOK
<1>2. was' = was \cup {<<r.student, r.room, today + 1>> : r \in {q \in rows : q.left = None}}
  BY DEF NextDay
<1>3. \A r \in rows : r.student \in Students /\ r.room \in Rooms /\ r.joined \in Days
                      /\ r.left \in Days \cup {None}
  BY DEF RollOK, Row
<1>4. was' \subseteq Students \X Rooms \X Days /\ \A w \in was' : w[3] <= today'
  BY <1>1, <1>2, <1>3 DEF RollOK, RowsTellHistory
<1>5. ASSUME NEW s \in Students, NEW room \in Rooms, NEW d \in Days, d <= today'
      PROVE  <<s, room, d>> \in was' <=>
               \E r \in rows : r.student = s /\ r.room = room /\ Within(r, d)
  <2>1. CASE d <= today
    <3>1. <<s, room, d>> \in was' <=> <<s, room, d>> \in was
      BY <1>1, <1>2, <2>1
    <3> QED
      BY <2>1, <3>1 DEF RollOK, RowsTellHistory
  <2>2. CASE d = today + 1
    <3>1. <<s, room, d>> \notin was
      BY <1>1, <2>2 DEF RollOK, RowsTellHistory
    <3>2. \A r \in rows : Within(r, d) <=> r.left = None
      BY <1>1, <1>3, <2>2 DEF RollOK, RowsTellHistory, Within
    <3> QED
      BY <1>2, <2>2, <3>1, <3>2
  <2> QED
    BY <1>1, <1>5, <2>1, <2>2
<1>6. RowsTellHistory'
  <2>1. \A r \in rows : r.left # None => r.joined <= r.left /\ r.left <= today'
    BY <1>1, <1>3 DEF RollOK, RowsTellHistory
  <2> QED
    BY <1>1, <1>4, <1>5, <2>1 DEF RowsTellHistory, Within
<1> QED
  BY <1>1, <1>3, <1>4, <1>6 DEF RollOK

\* Closing an open row today changes nothing it says of the days so far.
Closed(r) == [r EXCEPT !.left = today]

LEMMA ClosingKeepsDays ==
  ASSUME RollOK, NEW r \in rows, r.left = None
  PROVE  /\ Closed(r) \in Row
         /\ Closed(r).student = r.student /\ Closed(r).room = r.room /\ Closed(r).year = r.year
         /\ Closed(r).joined = r.joined /\ Closed(r).left = today
         /\ \A d \in Days : d <= today => (Within(Closed(r), d) <=> Within(r, d))
<1>1. r \in Row /\ today \in Days
  BY DEF RollOK
<1>2. /\ Closed(r) \in Row
      /\ Closed(r).student = r.student /\ Closed(r).room = r.room /\ Closed(r).year = r.year
      /\ Closed(r).joined = r.joined /\ Closed(r).left = today
  BY <1>1 DEF Closed, Row
<1> QED
  BY <1>2, NoneIsNull DEF Within

\* The rows of which some open ones are closed: those kept, and those closed.
LEMMA OnceClosed ==
  ASSUME NEW C
  PROVE  \A r : r \in RowsOnceClosed(C) <=>
           (r \in rows /\ r \notin C) \/ (\E q \in C : r = Closed(q))
  BY DEF RowsOnceClosed, Closed

LEMMA ClosingKeepsRoll ==
  ASSUME RollOK, NEW C, C \subseteq rows, \A r \in C : r.left = None
  PROVE  /\ RowsOnceClosed(C) \subseteq Row
         /\ \A r \in RowsOnceClosed(C) : r.joined <= today
         /\ \A r \in RowsOnceClosed(C) : r.left # None => r.joined <= r.left /\ r.left <= today
         /\ \A r \in RowsOnceClosed(C) : r.left = None => r \in rows \ C
         /\ \A c \in Students, room \in Rooms, d \in Days : d <= today =>
              (<<c, room, d>> \in was <=>
                 \E r \in RowsOnceClosed(C) : r.student = c /\ r.room = room /\ Within(r, d))
<1> USE NoneIsNull
<1>1. \A r \in C : r \in rows /\ r.left = None
  OBVIOUS
<1>3. \A r \in rows : r \in Row /\ r.joined <= today /\ today \in Days
                      /\ (r.left # None => r.joined <= r.left /\ r.left <= today)
  BY DEF RollOK, RowsTellHistory
<1>4. today # None /\ today <= today
  BY DayBound DEF RollOK, Days
<1>5. RowsOnceClosed(C) \subseteq Row
  BY <1>1, <1>3, ClosingKeepsDays, OnceClosed
<1>6. \A r \in RowsOnceClosed(C) : r.joined <= today
  BY <1>1, <1>3, ClosingKeepsDays, OnceClosed
<1>7. \A r \in RowsOnceClosed(C) : r.left # None => r.joined <= r.left /\ r.left <= today
  BY <1>1, <1>3, <1>4, ClosingKeepsDays, OnceClosed
<1>8. \A r \in RowsOnceClosed(C) : r.left = None => r \in rows \ C
  BY <1>1, <1>4, ClosingKeepsDays, OnceClosed
<1>9. ASSUME NEW c \in Students, NEW room \in Rooms, NEW d \in Days, d <= today
      PROVE  <<c, room, d>> \in was <=>
               \E r \in RowsOnceClosed(C) : r.student = c /\ r.room = room /\ Within(r, d)
  <2>1. <<c, room, d>> \in was <=>
          \E r \in rows : r.student = c /\ r.room = room /\ Within(r, d)
    BY <1>9 DEF RollOK, RowsTellHistory
  <2>2. ASSUME NEW r \in rows, r.student = c, r.room = room, Within(r, d)
        PROVE  \E q \in RowsOnceClosed(C) : q.student = c /\ q.room = room /\ Within(q, d)
    <3>1. CASE r \in C
      BY <1>1, <1>9, <2>2, <3>1, ClosingKeepsDays, OnceClosed
    <3>2. CASE r \notin C
      BY <2>2, <3>2, OnceClosed
    <3> QED
      BY <3>1, <3>2
  <2>3. ASSUME NEW q \in RowsOnceClosed(C), q.student = c, q.room = room, Within(q, d)
        PROVE  \E r \in rows : r.student = c /\ r.room = room /\ Within(r, d)
    <3>1. CASE q \in rows
      BY <2>3, <3>1
    <3>2. ASSUME NEW r \in C, q = Closed(r)
          PROVE  \E p \in rows : p.student = c /\ p.room = room /\ Within(p, d)
      BY <1>1, <1>9, <2>3, <3>2, ClosingKeepsDays
    <3> QED
      BY <3>1, <3>2, OnceClosed
  <2> QED
    BY <2>1, <2>2, <2>3
<1> QED
  BY <1>5, <1>6, <1>7, <1>8, <1>9

\* The open rows of a child, and those of them of one year.
LEMMA OpenRowsAreOpen ==
  ASSUME NEW s \in Students, NEW y \in Years
  PROVE  /\ OpenRows(s) \subseteq rows /\ OpenRowsOf(s, y) \subseteq rows
         /\ \A r \in OpenRows(s) : r.student = s /\ r.left = None
         /\ \A r \in OpenRowsOf(s, y) : r.student = s /\ r.left = None /\ r.year = y
         /\ \A r \in rows \ OpenRows(s) : r.left = None => r.student # s
         /\ \A r \in rows \ OpenRowsOf(s, y) : r.left = None => r.student # s \/ r.year # y
  BY DEF OpenRows, OpenRowsOf

LEMMA WithdrawKeepsRoll ==
  ASSUME RollOK, NEW s \in Students, WithdrawStudent(s)
  PROVE  RollOK'
<1>1. rows' = RowsOnceClosed(OpenRows(s)) /\ UNCHANGED <<today, was>>
  BY DEF WithdrawStudent
<1>2. OpenRows(s) \subseteq rows /\ \A r \in OpenRows(s) : r.left = None
  BY DEF OpenRows
<1>3. RowsTellHistory'
  BY <1>1, <1>2, ClosingKeepsRoll DEF RollOK, RowsTellHistory, Within
<1>4. \A r, q \in rows' :
        r.student = q.student /\ r.year = q.year /\ r.left = None /\ q.left = None => r = q
  BY <1>1, <1>2, ClosingKeepsRoll DEF RollOK
<1> QED
  BY <1>1, <1>2, <1>3, <1>4, ClosingKeepsRoll DEF RollOK

LEMMA EnrollKeepsRoll ==
  ASSUME RollOK, NEW s \in Students, NEW room \in Rooms, NEW y \in Years,
         EnrollStudent(s, room, y)
  PROVE  RollOK'
<1> DEFINE new == NewRow(s, room, y)
           kept == RowsOnceClosed(OpenRowsOf(s, y))
<1> USE NoneIsNull
<1>0. /\ new.student = s /\ new.room = room /\ new.year = y
      /\ new.joined = today /\ new.left = None
  BY DEF NewRow
<1>1. rows' = kept \cup {new} /\ was' = was \cup {<<s, room, today>>} /\ today' = today
  BY DEF EnrollStudent
<1>2. today \in Days /\ new \in Row /\ today <= today
  BY DayBound DEF RollOK, Row, Days, NewRow
<1> HIDE DEF new
<1>3. \A d \in Days : d <= today => (Within(new, d) <=> d = today)
  BY <1>0, <1>2, DayBound DEF Within, Days
<1>c. /\ kept \subseteq Row
      /\ \A r \in kept : r.joined <= today
      /\ \A r \in kept : r.left # None => r.joined <= r.left /\ r.left <= today
      /\ \A r \in kept : r.left = None => r \in rows \ OpenRowsOf(s, y)
      /\ \A c \in Students, other \in Rooms, d \in Days : d <= today =>
           (<<c, other, d>> \in was <=>
              \E r \in kept : r.student = c /\ r.room = other /\ Within(r, d))
  BY ClosingKeepsRoll, OpenRowsAreOpen
<1> HIDE DEF kept
<1>4. /\ rows' \subseteq Row /\ was' \subseteq Students \X Rooms \X Days
      /\ \A r \in rows' : r.joined <= today
      /\ \A r \in rows' : r.left # None => r.joined <= r.left /\ r.left <= today
      /\ \A w \in was' : w[3] <= today
  BY <1>0, <1>1, <1>2, <1>c DEF RollOK, RowsTellHistory
<1>5. \A r, q \in rows' :
        r.student = q.student /\ r.year = q.year /\ r.left = None /\ q.left = None => r = q
  BY <1>0, <1>1, <1>c, OpenRowsAreOpen DEF RollOK
<1>6. ASSUME NEW c \in Students, NEW other \in Rooms, NEW d \in Days, d <= today
      PROVE  <<c, other, d>> \in was' <=>
               \E r \in rows' : r.student = c /\ r.room = other /\ Within(r, d)
  <2>1. <<c, other, d>> \in was <=>
          \E r \in kept : r.student = c /\ r.room = other /\ Within(r, d)
    BY <1>6, <1>c
  <2>2. <<c, other, d>> = <<s, room, today>> <=>
          new.student = c /\ new.room = other /\ Within(new, d)
    BY <1>0, <1>3, <1>6
  <2> QED
    BY <1>1, <2>1, <2>2
<1>7. RowsTellHistory'
  BY <1>1, <1>4, <1>6 DEF RowsTellHistory, Within
<1> QED
  BY <1>1, <1>2, <1>4, <1>5, <1>7 DEF RollOK

-------------------------------------------------------------------------------
(***************************************************************************)
(* The book                                                                *)
(***************************************************************************)
\* Only drafts are without a time, and what is stamped or erased stays an entry.
LEMMA EntriesStayTyped ==
  ASSUME NEW x \in Entry, NEW d \in Days
  PROVE  /\ [x EXCEPT !.state = "published", !.at = d] \in Entry
         /\ [x EXCEPT !.state = "erased"] \in Entry
  BY DEF Entry

LEMMA RecordKeepsBook ==
  ASSUME BookOK, NEW e \in Entries, NEW day \in Days, QuickEntry(e, day)
  PROVE  BookOK'
<1>1. ASSUME NEW student \in Students \cup {None}, NEW room \in Rooms \cup {None},
             (student = None) # (room = None), RecordEntry(e, student, room, day)
      PROVE  BookOK'
  <2>1. [state |-> "draft", student |-> student, room |-> room, day |-> day, at |-> None] \in Entry
    BY <1>1 DEF Entry
  <2> QED
    BY <1>1, <2>1, NoneIsNull DEF RecordEntry, BookOK, ListedAreThere
<1> QED
  BY <1>1, NoneIsNull DEF QuickEntry

LEMMA ListKeepsBook ==
  ASSUME BookOK, NEW p \in Publishes, NEW room \in Rooms, NEW day \in Days, ListDay(p, room, day)
  PROVE  BookOK'
<1>1. EntriesForRoomOn(room, day) \subseteq {e \in Entries : entry[e] # None}
  BY DEF EntriesForRoomOn, EntriesForUser
<1> QED
  BY <1>1 DEF ListDay, BookOK, ListedAreThere

LEMMA PublishKeepsBook ==
  ASSUME BookOK, today \in Days, NEW p \in Publishes, PublishEntries(p)
  PROVE  BookOK'
<1>1. \A e \in Entries : entry[e] # None => Stamped(e) \in Entry
  BY EntriesStayTyped DEF BookOK, Stamped
<1>2. \A e \in publish[p] : e \in Entries /\ entry[e] # None
  BY DEF BookOK, ListedAreThere
<1>3. entry' \in [Entries -> Entry \cup {None}] /\ publish' \in [Publishes -> SUBSET Entries]
  BY <1>1, <1>2 DEF PublishEntries, BookOK
<1>4. \A e \in Entries : entry[e] # None => entry'[e] # None
  BY <1>1, NoneIsNull DEF PublishEntries
<1>5. \A q \in Publishes : publish'[q] \subseteq publish[q]
  BY DEF PublishEntries, BookOK
<1> QED
  BY <1>3, <1>4, <1>5 DEF BookOK, ListedAreThere

LEMMA EraseKeepsBook ==
  ASSUME BookOK, today \in Days, NEW s \in Students, EraseEntries(s)
  PROVE  BookOK'
<1>1. \A e \in Entries : entry[e] # None => [entry[e] EXCEPT !.state = "erased"] \in Entry
  BY EntriesStayTyped DEF BookOK
<1>2. \A e \in Entries : entry[e] # None => entry'[e] # None
  BY <1>1, NoneIsNull DEF EraseEntries
<1> QED
  BY <1>1, <1>2 DEF EraseEntries, BookOK, ListedAreThere

-------------------------------------------------------------------------------
(***************************************************************************)
(* The accident book                                                       *)
(***************************************************************************)
LEMMA LinkKeepsAccidents ==
  ASSUME AccidentsOK, NEW g \in Guardians, NEW s \in Students, LinkGuardian(g, s)
  PROVE  AccidentsOK'
  BY DEF AccidentsOK, AnswersAreGood, LinkGuardian, accidents

LEMMA ReportKeepsAccidents ==
  ASSUME AccidentsOK, NEW i \in Incidents, NEW s \in Students, ReportIncident(i, s)
  PROVE  AccidentsOK'
<1> USE NoneIsNull
<1> DEFINE new == [student |-> s, by |-> None, at |-> None]
<1>1. new \in Incident /\ new # None
  BY DEF Incident
<1>2. /\ incident' = [incident EXCEPT ![i] = new] /\ incident[i] = None
      /\ UNCHANGED <<links, answer, overlapped>>
  BY DEF ReportIncident
<1>3. \A a \in Answers : answer[a] # None =>
         answer[a].incident \in Incidents /\ incident'[answer[a].incident] = incident[answer[a].incident]
  BY <1>2 DEF AccidentsOK, Answer
<1>4. incident' \in [Incidents -> Incident \cup {None}]
  BY <1>1, <1>2 DEF AccidentsOK
<1>5. \A j \in Incidents : incident'[j] = incident[j] \/ incident'[j] = new
  BY <1>2 DEF AccidentsOK
<1>6. AnswersAreGood'
  BY <1>2, <1>3 DEF AccidentsOK, AnswersAreGood
<1> QED
  BY <1>1, <1>2, <1>3, <1>4, <1>5, <1>6 DEF AccidentsOK

LEMMA OpenKeepsAccidents ==
  ASSUME AccidentsOK, NEW a \in Answers, NEW g \in Guardians, NEW i \in Incidents,
         OpenIncident(a, g, i)
  PROVE  AccidentsOK'
<1> USE NoneIsNull
<1> DEFINE new == [guardian |-> g, incident |-> i, read |-> incident[i]]
<1>1. new \in Answer /\ new # None
  BY DEF OpenIncident, AccidentsOK, Answer
<1>2. /\ answer' = [answer EXCEPT ![a] = new] /\ answer[a] = None
      /\ UNCHANGED <<links, incident>>
      /\ incident[i] # None /\ <<g, incident[i].student>> \in links
  BY DEF OpenIncident
<1>3. overlapped \subseteq overlapped' /\ overlapped' \subseteq Incidents
  BY DEF OpenIncident, AccidentsOK
<1>4. \A b \in Answers : answer[b] # None /\ answer[b].incident = i => i \in overlapped'
  BY DEF OpenIncident
<1>5. answer' \in [Answers -> Answer \cup {None}] /\ answer'[a] = new
      /\ \A b \in Answers \ {a} : answer'[b] = answer[b]
  BY <1>1, <1>2 DEF AccidentsOK
<1>6. AnswersAreGood'
  <2> SUFFICES ASSUME NEW c \in Answers, answer'[c] # None
               PROVE  LET j == answer'[c].incident
                      IN  /\ <<answer'[c].guardian, incident[j].student>> \in links
                          /\ answer'[c].read.at = None => incident[j].at = None \/ j \in overlapped'
                          /\ \A b \in Answers \ {c} :
                               answer'[b] # None /\ answer'[b].incident = j => j \in overlapped'
    BY <1>2 DEF AnswersAreGood
  <2>1. CASE c = a
    BY <2>1, <1>2, <1>4, <1>5
  <2>2. CASE c # a
    <3>1. answer'[c] = answer[c] /\ answer[c] # None
      BY <1>5, <2>2
    <3>2. \A b \in Answers \ {a, c} :
            answer'[b] # None /\ answer'[b].incident = answer[c].incident
              => answer[c].incident \in overlapped'
      BY <1>3, <1>5, <3>1 DEF AccidentsOK, AnswersAreGood
    <3>3. answer'[a].incident = answer[c].incident => answer[c].incident \in overlapped'
      BY <1>4, <1>5, <3>1
    <3> QED
      BY <1>3, <3>1, <3>2, <3>3 DEF AccidentsOK, AnswersAreGood
  <2> QED
    BY <2>1, <2>2
<1> QED
  BY <1>2, <1>3, <1>5, <1>6 DEF AccidentsOK

LEMMA AcknowledgeKeepsAccidents ==
  ASSUME AccidentsOK, today \in Days, NEW a \in Answers, AcknowledgeIncident(a)
  PROVE  AccidentsOK'
<1> USE NoneIsNull
<1> DEFINE i == answer[a].incident  g == answer[a].guardian
<1>1. /\ i \in Incidents /\ g \in Guardians /\ incident[i] # None /\ incident[i] \in Incident
      /\ <<g, incident[i].student>> \in links
  BY DEF AcknowledgeIncident, AccidentsOK, AnswersAreGood, Answer
<1>2. /\ Acknowledged(incident[i], g) \in Incident
      /\ Acknowledged(incident[i], g).by = g /\ Acknowledged(incident[i], g).at = today
      /\ Acknowledged(incident[i], g).student = incident[i].student
  BY <1>1 DEF Acknowledged, Incident
<1>3. /\ answer' = [answer EXCEPT ![a] = None] /\ UNCHANGED <<links, overlapped>>
      /\ \/ incident' = incident
         \/ incident' = [incident EXCEPT ![i] = Acknowledged(incident[i], g)]
  BY DEF AcknowledgeIncident
<1>4. /\ incident' \in [Incidents -> Incident \cup {None}]
      /\ \A j \in Incidents \ {i} : incident'[j] = incident[j]
      /\ incident'[i] \in {incident[i], Acknowledged(incident[i], g)}
      /\ incident'[i] # None /\ incident'[i].student = incident[i].student
  BY <1>1, <1>2, <1>3 DEF AccidentsOK
<1>5. \A b \in Answers : answer'[b] # None => b # a /\ answer'[b] = answer[b] /\ answer[b] # None
  BY <1>3 DEF AccidentsOK
<1>6. answer' \in [Answers -> Answer \cup {None}]
  BY <1>3 DEF AccidentsOK
<1>7. ASSUME NEW b \in Answers, answer'[b] # None
      PROVE  LET j == answer'[b].incident
             IN  /\ <<answer'[b].guardian, incident'[j].student>> \in links
                 /\ answer'[b].read.at = None => incident'[j].at = None \/ j \in overlapped
                 /\ \A c \in Answers \ {b} :
                      answer'[c] # None /\ answer'[c].incident = j => j \in overlapped
  <2>1. b # a /\ answer'[b] = answer[b] /\ answer[b] # None /\ answer[b].incident \in Incidents
    BY <1>5, <1>7 DEF AccidentsOK, Answer
  <2>2. answer[b].incident = i => i \in overlapped
    BY <2>1 DEF AcknowledgeIncident, AccidentsOK, AnswersAreGood
  <2> QED
    BY <1>4, <1>5, <2>1, <2>2 DEF AccidentsOK, AnswersAreGood
<1>8. AnswersAreGood'
  BY <1>3, <1>7 DEF AnswersAreGood
<1>9. \A j \in Incidents : incident'[j] # None =>
         /\ incident'[j].by = None <=> incident'[j].at = None
         /\ incident'[j].by # None => <<incident'[j].by, incident'[j].student>> \in links
  <2>1. today # None /\ g # None
    BY <1>1
  <2> QED
    BY <1>1, <1>2, <1>4, <2>1 DEF AccidentsOK
<1>10. \A b \in Answers : answer'[b] # None => incident'[answer'[b].incident] # None
  BY <1>4, <1>5 DEF AccidentsOK, Answer
<1> QED
  BY <1>3, <1>4, <1>6, <1>8, <1>9, <1>10 DEF AccidentsOK

\* A worker that stops leaves the lists shorter and changes nothing else.
LEMMA StopKeepsInv == DiaryInv /\ Stop => DiaryInv'
<1> SUFFICES ASSUME RollOK, BookOK, AccidentsOK, Stop PROVE RollOK' /\ BookOK' /\ AccidentsOK'
  BY InThreeParts
<1> USE NoneIsNull
<1>1. CASE /\ \E p \in Publishes : publish[p] # {} /\ publish' = [publish EXCEPT ![p] = {}]
           /\ UNCHANGED <<today, rows, links, entry, accidents, was>>
  BY <1>1, RollUntouched, AccidentsUntouched DEF BookOK, ListedAreThere
<1>2. CASE /\ \E a \in Answers : answer[a] # None /\ answer' = [answer EXCEPT ![a] = None]
           /\ UNCHANGED <<today, rows, links, book, incident, overlapped, was>>
  <2>1. /\ answer' \in [Answers -> Answer \cup {None}]
        /\ \A b \in Answers : answer'[b] # None => answer'[b] = answer[b]
    BY <1>2 DEF AccidentsOK
  <2>2. AnswersAreGood'
    BY <1>2, <2>1 DEF AccidentsOK, AnswersAreGood
  <2>3. AccidentsOK'
    BY <1>2, <2>1, <2>2 DEF AccidentsOK
  <2> QED
    BY <1>2, <2>3, RollUntouched, BookUntouched
<1> QED
  BY <1>1, <1>2 DEF Stop

LEMMA NextInv == DiaryInv /\ [Next]_vars => DiaryInv'
<1> SUFFICES ASSUME DiaryInv, [Next]_vars PROVE DiaryInv'
  OBVIOUS
<1> SUFFICES RollOK' /\ BookOK' /\ AccidentsOK'
  BY InThreeParts
<1>0. RollOK /\ BookOK /\ AccidentsOK /\ today \in Days
  BY InThreeParts DEF RollOK
<1>1. CASE NextDay
  BY <1>0, <1>1, DayKeepsRoll, BookUntouched, AccidentsUntouched DEF NextDay
<1>2. ASSUME NEW s \in Students, NEW room \in Rooms, NEW year \in Years,
             EnrollStudent(s, room, year)
      PROVE  RollOK' /\ BookOK' /\ AccidentsOK'
  BY <1>0, <1>2, EnrollKeepsRoll, BookUntouched, AccidentsUntouched DEF EnrollStudent
<1>3. ASSUME NEW s \in Students, WithdrawStudent(s)
      PROVE  RollOK' /\ BookOK' /\ AccidentsOK'
  BY <1>0, <1>3, WithdrawKeepsRoll, BookUntouched, AccidentsUntouched DEF WithdrawStudent
<1>4. ASSUME NEW g \in Guardians, NEW s \in Students, LinkGuardian(g, s)
      PROVE  RollOK' /\ BookOK' /\ AccidentsOK'
  BY <1>0, <1>4, RollUntouched, BookUntouched, LinkKeepsAccidents DEF LinkGuardian
<1>5. ASSUME NEW s \in Students, EraseEntries(s)
      PROVE  RollOK' /\ BookOK' /\ AccidentsOK'
  BY <1>0, <1>5, RollUntouched, EraseKeepsBook, AccidentsUntouched DEF EraseEntries
<1>6. ASSUME NEW e \in Entries, NEW day \in Days, QuickEntry(e, day)
      PROVE  RollOK' /\ BookOK' /\ AccidentsOK'
  <2>1. UNCHANGED <<today, rows, was, links, accidents>>
    BY <1>6 DEF QuickEntry, RecordEntry
  <2> QED
    BY <1>0, <1>6, <2>1, RollUntouched, RecordKeepsBook, AccidentsUntouched
<1>7. ASSUME NEW p \in Publishes, NEW room \in Rooms, NEW day \in Days, ListDay(p, room, day)
      PROVE  RollOK' /\ BookOK' /\ AccidentsOK'
  BY <1>0, <1>7, RollUntouched, ListKeepsBook, AccidentsUntouched DEF ListDay
<1>8. ASSUME NEW p \in Publishes, PublishEntries(p)
      PROVE  RollOK' /\ BookOK' /\ AccidentsOK'
  BY <1>0, <1>8, RollUntouched, PublishKeepsBook, AccidentsUntouched DEF PublishEntries
<1>9. ASSUME NEW i \in Incidents, NEW s \in Students, ReportIncident(i, s)
      PROVE  RollOK' /\ BookOK' /\ AccidentsOK'
  BY <1>0, <1>9, RollUntouched, BookUntouched, ReportKeepsAccidents DEF ReportIncident
<1>10. ASSUME NEW a \in Answers, NEW g \in Guardians, NEW i \in Incidents, OpenIncident(a, g, i)
       PROVE  RollOK' /\ BookOK' /\ AccidentsOK'
  BY <1>0, <1>10, RollUntouched, BookUntouched, OpenKeepsAccidents DEF OpenIncident
<1>11. ASSUME NEW a \in Answers, AcknowledgeIncident(a)
       PROVE  RollOK' /\ BookOK' /\ AccidentsOK'
  BY <1>0, <1>11, RollUntouched, BookUntouched, AcknowledgeKeepsAccidents DEF AcknowledgeIncident
<1>12. CASE Stop
  BY <1>12, StopKeepsInv, InThreeParts
<1>13. CASE UNCHANGED vars
  BY <1>0, <1>13, RollUntouched, BookUntouched, AccidentsUntouched DEF vars
<1> QED
  BY <1>1, <1>2, <1>3, <1>4, <1>5, <1>6, <1>7, <1>8, <1>9, <1>10, <1>11, <1>12, <1>13
  DEF Next, Office, Teachers, Parents

-------------------------------------------------------------------------------
(***************************************************************************)
(* The theorems                                                            *)
(***************************************************************************)
\* The inductive invariant holds of every reachable state.
THEOREM DiaryInvariant == Spec => []DiaryInv
<1>1. Init => DiaryInv
  BY InitInv
<1>2. DiaryInv /\ [Next]_vars => DiaryInv'
  BY NextInv
<1> QED
  BY <1>1, <1>2, PTL DEF Spec

\* Types; one open row per child and year, none of a day to come; an acknowledgement is
\* dated, and by somebody linked to the child it is about.
THEOREM DiaryTypeCorrect == Spec => []TypeOK
BY DiaryInvariant, PTL DEF DiaryInv

LEMMA RowsAreTheDiary == DiaryInv => DiaryIsTheirs
<1> SUFFICES ASSUME DiaryInv, NEW s \in Students, NEW e \in Entries,
                    entry[e] # None, entry[e].day <= today
             PROVE  e \in EntriesForChild(s) <=>
                       /\ entry[e].state = "published"
                       /\ entry[e].student = s \/ <<s, entry[e].room, entry[e].day>> \in was
  BY DEF DiaryIsTheirs
<1>1. entry[e] \in Entry /\ entry[e].day \in Days /\ entry[e].room \in Rooms \cup {None}
  BY DEF DiaryInv, TypeOK, Entry
<1>2. e \in RoomEntriesFor(s) <=> <<s, entry[e].room, entry[e].day>> \in was
  <2>1. CASE entry[e].room = None
    <3>1. <<s, entry[e].room, entry[e].day>> \notin was
      BY <2>1, NoneIsNull DEF DiaryInv, TypeOK
    <3>2. \A r \in rows : r.room # entry[e].room
      BY <2>1, NoneIsNull DEF DiaryInv, TypeOK, Row
    <3> QED
      BY <3>1, <3>2 DEF RoomEntriesFor
  <2>2. CASE entry[e].room \in Rooms
    <3>1. <<s, entry[e].room, entry[e].day>> \in was <=>
            \E r \in rows : r.student = s /\ r.room = entry[e].room /\ Within(r, entry[e].day)
      BY <1>1, <2>2 DEF DiaryInv, RowsTellHistory
    <3>2. \A r \in rows : entry[e].day >= r.joined <=> r.joined <= entry[e].day
      BY <1>1, DayBound DEF DiaryInv, TypeOK, Row, Days
    <3> QED
      BY <3>1, <3>2 DEF RoomEntriesFor, Within
  <2> QED
    BY <1>1, <2>1, <2>2
<1> QED
  BY <1>2 DEF EntriesForChild

\* However a child moved, left and returned, its diary on any day is what was
\* published about it and in the room it was in that day, and nothing else.
THEOREM DiaryHoldsItsOwnDays == Spec => []DiaryIsTheirs
BY DiaryInvariant, RowsAreTheDiary, PTL

\* What a step may do to an entry a family has read: erase it.
LEMMA PublishedStands ==
  ASSUME DiaryInv, [Next]_vars, NEW e \in Entries, entry[e] # None, entry[e].state = "published"
  PROVE  entry'[e] \in {entry[e], [entry[e] EXCEPT !.state = "erased"]}
<1> USE DEF DiaryInv, TypeOK
<1>1. CASE UNCHANGED entry
  BY <1>1
<1>2. ASSUME NEW d \in Entries, NEW day \in Days, QuickEntry(d, day)
      PROVE  entry'[e] = entry[e]
  BY <1>2 DEF QuickEntry, RecordEntry
<1>3. ASSUME NEW p \in Publishes, PublishEntries(p)
      PROVE  entry'[e] = entry[e]
  BY <1>3 DEF PublishEntries
<1>4. ASSUME NEW s \in Students, EraseEntries(s)
      PROVE  entry'[e] \in {entry[e], [entry[e] EXCEPT !.state = "erased"]}
  BY <1>4 DEF EraseEntries
<1> QED
  BY <1>1, <1>2, <1>3, <1>4
  DEF Next, NextDay, Office, Teachers, Parents, Stop, EnrollStudent, WithdrawStudent, LinkGuardian,
      ListDay, ReportIncident, OpenIncident, AcknowledgeIncident, book, vars

\* And to a report that is acknowledged, when no two requests were at it: nothing.
LEMMA AcknowledgedStands ==
  ASSUME DiaryInv, [Next]_vars, NEW i \in Incidents \ (overlapped \cup UnacknowledgedIncidents),
         incident[i] # None
  PROVE  incident'[i] = incident[i]
<1> USE DEF DiaryInv, TypeOK
<1>1. CASE UNCHANGED incident
  BY <1>1
<1>2. ASSUME NEW j \in Incidents, NEW s \in Students, ReportIncident(j, s)
      PROVE  incident'[i] = incident[i]
  BY <1>2 DEF ReportIncident
<1>3. ASSUME NEW a \in Answers, AcknowledgeIncident(a)
      PROVE  incident'[i] = incident[i]
  <2>1. CASE answer[a].incident # i
    BY <1>3, <2>1 DEF AcknowledgeIncident
  <2>2. CASE answer[a].incident = i
    <3>1. incident[i].at # None /\ i \notin overlapped
      BY DEF UnacknowledgedIncidents
    <3>2. answer[a].read.at # None
      BY <1>3, <2>2, <3>1 DEF AcknowledgeIncident, AnswersAreGood
    <3> QED
      BY <1>3, <3>2 DEF AcknowledgeIncident
  <2> QED
    BY <2>1, <2>2
<1> QED
  BY <1>1, <1>2, <1>3
  DEF Next, NextDay, Office, Teachers, Parents, Stop, EnrollStudent, WithdrawStudent, LinkGuardian,
      EraseEntries, QuickEntry, RecordEntry, ListDay, PublishEntries, OpenIncident, accidents, vars

-------------------------------------------------------------------------------
\* Who signs a report of an accident is told of the family's own child.
THEOREM SignaturesAreOfFamily == Spec => []SignedByFamily
<1>1. DiaryInv => SignedByFamily
  <2> SUFFICES ASSUME DiaryInv
               PROVE  /\ \A i \in Incidents : incident[i] # None /\ incident[i].by # None =>
                           i \in IncidentsForChild(incident[i].by, incident[i].student)
                      /\ \A a \in Answers : answer[a] # None =>
                           answer[a].incident \in
                             IncidentsForChild(answer[a].guardian,
                                               incident[answer[a].incident].student)
    BY DEF SignedByFamily, DiaryInv, TypeOK, Incident, Answer
  <2> QED
    BY DEF DiaryInv, TypeOK, AnswersAreGood, Answer, Incident, IncidentsForChild
<1> QED
  BY <1>1, DiaryInvariant, PTL

\* The owner's trend misses no child that leaves and none that comes, whatever days
\* a month is made of.
THEOREM TrendIsComplete == Spec => []TrendMissesNobody
<1>1. DiaryInv => TrendMissesNobody
  <2> SUFFICES ASSUME DiaryInv, NEW s \in Students, NEW first \in Days, NEW nxt \in Days,
                      NEW d \in Days, d < today
               PROVE  /\ first <= d /\ d < nxt /\ InSchool(s, d) /\ ~InSchool(s, d + 1) =>
                           s \in EnrolmentTrend(first, nxt).left
                      /\ /\ first <= d + 1 /\ d + 1 < nxt
                         /\ ~InSchool(s, d) /\ InSchool(s, d + 1)
                         => s \in EnrolmentTrend(first, nxt).joined
    BY DEF TrendMissesNobody
  <2>1. d + 1 \in Days /\ d + 1 <= today
    BY DayBound DEF DiaryInv, TypeOK, Days
  <2>2. \A e \in {d, d + 1} :
          InSchool(s, e) <=> \E r \in rows : r.student = s /\ Within(r, e)
    <3> SUFFICES ASSUME NEW e \in {d, d + 1}
                 PROVE  InSchool(s, e) <=> \E r \in rows : r.student = s /\ Within(r, e)
      OBVIOUS
    <3>1. e \in Days /\ e <= today
      BY <2>1 DEF Days, DiaryInv, TypeOK
    <3>2. \A r \in rows : r.room \in Rooms
      BY DEF DiaryInv, TypeOK, Row
    <3> QED
      BY <3>1, <3>2 DEF DiaryInv, RowsTellHistory, InSchool
  <2>3. \A r \in rows : r.joined \in Int /\ (r.left # None => r.left \in Int)
    BY DEF DiaryInv, TypeOK, Row, Days
  <2>4. ASSUME first <= d, d < nxt, InSchool(s, d), ~InSchool(s, d + 1)
        PROVE  s \in EnrolmentTrend(first, nxt).left
    <3>1. PICK r \in rows : r.student = s /\ Within(r, d) /\ ~Within(r, d + 1)
      BY <2>2, <2>4
    <3>2. r.left # None /\ r.left = d
      BY <2>3, <3>1 DEF Within, Days
    <3> QED
      BY <2>4, <3>1, <3>2 DEF EnrolmentTrend
  <2>5. ASSUME first <= d + 1, d + 1 < nxt, ~InSchool(s, d), InSchool(s, d + 1)
        PROVE  s \in EnrolmentTrend(first, nxt).joined
    <3>1. PICK r \in rows : r.student = s /\ ~Within(r, d) /\ Within(r, d + 1)
      BY <2>2, <2>5
    <3>2. r.joined = d + 1
      BY <2>3, <3>1 DEF Within, Days
    <3> QED
      BY <2>5, <3>1, <3>2 DEF EnrolmentTrend
  <2> QED
    BY <2>4, <2>5
<1> QED
  BY <1>1, DiaryInvariant, PTL

-------------------------------------------------------------------------------
(***************************************************************************)
(* The rows and the roll                                                   *)
(***************************************************************************)
\* Of the days a child left there is a last one, as long as it left at all.
LastDayExists ==
    \A s \in Students : DaysLeft(s) # {} =>
        \E d \in DaysLeft(s) : \A e \in DaysLeft(s) : e <= d

\* The days left are of the past.
LEMMA DaysLeftArePast ==
  ASSUME RollOK, NEW s \in Students
  PROVE  \A d \in DaysLeft(s) : d \in Int /\ d <= today /\ d # None
<1>1. \A r \in rows : r.left # None => r.left \in Days /\ r.left <= today
  BY DEF RollOK, Row, RowsTellHistory
<1> QED
  BY <1>1 DEF DaysLeft, Days

LEMMA LastIsLast ==
  ASSUME NEW S, \A d \in S : d \in Int, NEW d \in S, \A e \in S : e <= d
  PROVE  (CHOOSE x \in S : \A e \in S : e <= x) = d
<1> DEFINE x == CHOOSE y \in S : \A e \in S : e <= y
<1>1. x \in S /\ \A e \in S : e <= x
  OBVIOUS
<1> HIDE DEF x
<1>2. x <= d /\ d <= x /\ x \in Int /\ d \in Int
  BY <1>1
<1>3. x = d
  BY <1>2
<1> QED
  BY <1>3 DEF x

\* Closing some open rows of a child: they are open no more, and the child has left
\* today if there was one; where children have been, and the others, is as before.
LEMMA ClosingAsRoll ==
  ASSUME RollOK, NEW s \in Students, NEW c \in Students,
         NEW C, C \subseteq rows, \A r \in C : r.student = s /\ r.left = None
  PROVE  LET Open(y) == {r \in RowsOnceClosed(C) : r.student = c /\ r.left = None /\ r.year = y}
             Been == {r.room : r \in {q \in RowsOnceClosed(C) : q.student = c}}
             Lefts == {r.left : r \in {q \in RowsOnceClosed(C) : q.student = c /\ q.left # None}}
         IN  /\ \A y \in Years : Open(y) = OpenRowsOf(c, y) \ C
             /\ Been = BeenIn[c]
             /\ Lefts = IF c = s /\ C # {} THEN DaysLeft(c) \cup {today} ELSE DaysLeft(c)
<1> USE NoneIsNull
<1>1. \A r \in C : r \in rows /\ r.left = None /\ r.student = s
  OBVIOUS
<1>2. \A r \in C : Closed(r).student = s /\ Closed(r).room = r.room /\ Closed(r).left = today
  BY <1>1, ClosingKeepsDays
<1>3. today # None
  BY DEF RollOK
<1>4. \A r : r \in RowsOnceClosed(C) <=>
          (r \in rows /\ r \notin C) \/ (\E q \in C : r = Closed(q))
  BY OnceClosed
<1>5. ASSUME NEW y \in Years
      PROVE  {r \in RowsOnceClosed(C) : r.student = c /\ r.left = None /\ r.year = y}
               = OpenRowsOf(c, y) \ C
  BY <1>2, <1>3, <1>4 DEF OpenRows, OpenRowsOf
<1>6. {r.room : r \in {q \in RowsOnceClosed(C) : q.student = c}} = BeenIn[c]
  <2>1. ASSUME NEW q \in rows, q.student = c
        PROVE  \E r \in RowsOnceClosed(C) : r.student = c /\ r.room = q.room
    BY <1>1, <1>2, <1>4, <2>1
  <2>2. ASSUME NEW q \in RowsOnceClosed(C), q.student = c
        PROVE  \E r \in rows : r.student = c /\ r.room = q.room
    BY <1>1, <1>2, <1>4, <2>2
  <2> QED
    BY <2>1, <2>2 DEF BeenIn
<1>7. {r.left : r \in {q \in RowsOnceClosed(C) : q.student = c /\ q.left # None}} =
          IF c = s /\ C # {} THEN DaysLeft(c) \cup {today} ELSE DaysLeft(c)
  <2>1. ASSUME NEW q \in rows, q.student = c, q.left # None
        PROVE  q \in RowsOnceClosed(C)
    BY <1>1, <1>4, <2>1
  <2>2. ASSUME NEW q \in RowsOnceClosed(C), q.student = c, q.left # None
        PROVE  \/ q \in rows
               \/ c = s /\ C # {} /\ q.left = today
    BY <1>2, <1>4, <2>2
  <2>3. ASSUME NEW q \in C
        PROVE  Closed(q) \in RowsOnceClosed(C) /\ Closed(q).student = s /\ Closed(q).left = today
    BY <1>2, <1>4
  <2> QED
    BY <1>3, <2>1, <2>2, <2>3 DEF DaysLeft
<1> QED
  BY <1>5, <1>6, <1>7

\* The rows after a child left the school, or entered a room.
LEMMA RowsAfterLeaving ==
  ASSUME RollOK, NEW s \in Students, WithdrawStudent(s), NEW c \in Students
  PROVE  /\ \A y \in Years : OpenRowsOf(c, y)' = IF c = s THEN {} ELSE OpenRowsOf(c, y)
         /\ BeenIn'[c] = BeenIn[c]
         /\ DaysLeft(c)' = IF c = s /\ OpenRows(s) # {} THEN DaysLeft(c) \cup {today} ELSE DaysLeft(c)
<1> DEFINE C == OpenRows(s)
<1>1. rows' = RowsOnceClosed(C)
  BY DEF WithdrawStudent
<1>2. C \subseteq rows /\ \A r \in C : r.student = s /\ r.left = None
  BY DEF OpenRows
<1>3. \A y \in Years : OpenRowsOf(c, y) \ C = IF c = s THEN {} ELSE OpenRowsOf(c, y)
  BY DEF OpenRows, OpenRowsOf
<1> HIDE DEF C
<1>4. /\ \A y \in Years : OpenRowsOf(c, y)' = OpenRowsOf(c, y) \ C
      /\ BeenIn'[c] = BeenIn[c]
      /\ DaysLeft(c)' = IF c = s /\ C # {} THEN DaysLeft(c) \cup {today} ELSE DaysLeft(c)
  <2> DEFINE Open(y) == {r \in RowsOnceClosed(C) : r.student = c /\ r.left = None /\ r.year = y}
             Been == {r.room : r \in {q \in RowsOnceClosed(C) : q.student = c}}
             Lefts == {r.left : r \in {q \in RowsOnceClosed(C) : q.student = c /\ q.left # None}}
  <2>1. /\ \A y \in Years : OpenRowsOf(c, y)' = Open(y)
        /\ BeenIn'[c] = Been
        /\ DaysLeft(c)' = Lefts
    BY <1>1 DEF OpenRows, OpenRowsOf, BeenIn, DaysLeft
  <2>2. /\ \A y \in Years : Open(y) = OpenRowsOf(c, y) \ C
        /\ Been = BeenIn[c]
        /\ Lefts = IF c = s /\ C # {} THEN DaysLeft(c) \cup {today} ELSE DaysLeft(c)
    BY <1>2, ClosingAsRoll
  <2> QED
    BY <2>1, <2>2
<1> QED
  BY <1>3, <1>4 DEF C

LEMMA RowsAfterEntering ==
  ASSUME RollOK, NEW s \in Students, NEW room \in Rooms, NEW y \in Years,
         EnrollStudent(s, room, y), NEW c \in Students
  PROVE  /\ c = s => \E r : r.room = room /\ OpenRowsOf(c, y)' = {r}
         /\ \A z \in Years : c # s \/ z # y => OpenRowsOf(c, z)' = OpenRowsOf(c, z)
         /\ BeenIn'[c] = IF c = s THEN BeenIn[c] \cup {room} ELSE BeenIn[c]
         /\ DaysLeft(c)' = IF c = s /\ OpenRowsOf(s, y) # {}
                           THEN DaysLeft(c) \cup {today} ELSE DaysLeft(c)
<1> DEFINE new == NewRow(s, room, y)
           C == OpenRowsOf(s, y)
           Open(z) == {r \in RowsOnceClosed(C) : r.student = c /\ r.left = None /\ r.year = z}
           Been == {r.room : r \in {q \in RowsOnceClosed(C) : q.student = c}}
           Lefts == {r.left : r \in {q \in RowsOnceClosed(C) : q.student = c /\ q.left # None}}
<1>1. rows' = RowsOnceClosed(C) \cup {new}
  BY DEF EnrollStudent
<1>2. new.student = s /\ new.room = room /\ new.year = y /\ new.left = None
  BY DEF NewRow
<1>3. C \subseteq rows /\ \A r \in C : r.student = s /\ r.left = None
  BY DEF OpenRows, OpenRowsOf
<1>4. /\ c = s => OpenRowsOf(c, y) \ C = {}
      /\ \A z \in Years : c # s \/ z # y => OpenRowsOf(c, z) \ C = OpenRowsOf(c, z)
  BY DEF OpenRows, OpenRowsOf
<1> HIDE DEF new, C
<1>5. /\ \A z \in Years : OpenRowsOf(c, z)' = IF c = s /\ z = y THEN Open(z) \cup {new} ELSE Open(z)
      /\ BeenIn'[c] = IF c = s THEN Been \cup {room} ELSE Been
      /\ DaysLeft(c)' = Lefts
  BY <1>1, <1>2 DEF OpenRows, OpenRowsOf, BeenIn, DaysLeft
<1>6. /\ \A z \in Years : Open(z) = OpenRowsOf(c, z) \ C
      /\ Been = BeenIn[c]
      /\ Lefts = IF c = s /\ C # {} THEN DaysLeft(c) \cup {today} ELSE DaysLeft(c)
  BY <1>3, ClosingAsRoll
<1> HIDE DEF Open, Been, Lefts
<1>7. c = s => OpenRowsOf(c, y)' = {new}
  BY <1>4, <1>5, <1>6
<1>8. \A z \in Years : c # s \/ z # y => OpenRowsOf(c, z)' = OpenRowsOf(c, z)
  BY <1>4, <1>5, <1>6
<1> QED
  BY <1>2, <1>5, <1>6, <1>7, <1>8 DEF C

\* What the two mappings say of a child.
LEMMA RoomIs ==
  ASSUME RollOK, NEW s \in Students, NEW y \in Years
  PROVE  /\ OpenRowsOf(s, y) = {} <=> RoomFor(s, y) = None
         /\ \A r \in OpenRowsOf(s, y) : RoomFor(s, y) = r.room
<1>1. \A r, q \in OpenRowsOf(s, y) : r = q
  BY DEF RollOK, OpenRows, OpenRowsOf
<1>2. \A r \in OpenRowsOf(s, y) : r.room \in Rooms
  BY DEF RollOK, OpenRows, OpenRowsOf, Row
<1> QED
  BY <1>1, <1>2, NoneIsNull DEF RoomFor

LEMMA RoomsAre ==
  /\ \A s \in Students, y \in Years : RoomOf[s][y] = RoomFor(s, y)
  /\ \A s \in Students, y \in Years : RoomOf'[s][y] = RoomFor(s, y)'
  /\ RoomOf = [s \in Students |-> [y \in Years |-> RoomFor(s, y)]]
  /\ RoomOf' = [s \in Students |-> [y \in Years |-> RoomFor(s, y)']]
  BY DEF RoomOf

LEMMA LastLeftToday ==
  ASSUME RollOK, NEW s \in Students, DaysLeft(s)' = DaysLeft(s) \cup {today}
  PROVE  /\ LastLeft'[s] = today
         /\ \E d \in DaysLeft(s)' : \A e \in DaysLeft(s)' : e <= d
<1>1. \A d \in DaysLeft(s)' : d \in Int /\ d <= today
  BY DaysLeftArePast, DayBound DEF RollOK, Days
<1>2. (CHOOSE x \in DaysLeft(s)' : \A e \in DaysLeft(s)' : e <= x) = today
  <2> DEFINE S == DaysLeft(s)'
  <2>1. today \in S
    OBVIOUS
  <2> HIDE DEF S
  <2>2. (CHOOSE x \in S : \A e \in S : e <= x) = today
    BY <1>1, <2>1, LastIsLast DEF S
  <2> QED
    BY <2>2 DEF S
<1>3. LastLeft'[s] = (CHOOSE x \in DaysLeft(s)' : \A e \in DaysLeft(s)' : e <= x)
  BY DEF LastLeft
<1> QED
  BY <1>1, <1>2, <1>3

\* The rows of a child tell where it is and when it last left: the same rows, the
\* same child on the roll.
LEMMA SameRoom ==
  ASSUME NEW c \in Students, NEW y \in Years, OpenRowsOf(c, y)' = OpenRowsOf(c, y)
  PROVE  RoomFor(c, y)' = RoomFor(c, y)
  BY DEF RoomFor

LEMMA SameLast ==
  ASSUME NEW c \in Students, DaysLeft(c)' = DaysLeft(c)
  PROVE  LastLeft'[c] = LastLeft[c]
  BY DEF LastLeft

\* The mappings are functions of the child.
LEMMA MappingsAreFunctions ==
  /\ BeenIn = [c \in Students |-> BeenIn[c]] /\ BeenIn' = [c \in Students |-> BeenIn'[c]]
  /\ LastLeft = [c \in Students |-> LastLeft[c]] /\ LastLeft' = [c \in Students |-> LastLeft'[c]]
  BY DEF BeenIn, LastLeft

LEMMA WithdrawalLeaves ==
  ASSUME RollOK, RollOK', LastDayExists, NEW s \in Students, WithdrawStudent(s)
  PROVE  LastDayExists' /\ (TheRoll!Leave(s) \/ UNCHANGED <<today, RoomOf, BeenIn, LastLeft>>)
<1>1. today' = today
  BY DEF WithdrawStudent
<1>2. \A c \in Students \ {s} : DaysLeft(c)' = DaysLeft(c) /\ LastLeft'[c] = LastLeft[c]
  BY RowsAfterLeaving, SameLast
<1>3. \A c \in Students \ {s}, y \in Years : RoomFor(c, y)' = RoomFor(c, y)
  BY RowsAfterLeaving, SameRoom
<1>4. \A y \in Years : RoomFor(s, y)' = None
  BY RowsAfterLeaving DEF RoomFor
<1>5. BeenIn' = BeenIn
  BY RowsAfterLeaving, MappingsAreFunctions
<1>6. CASE OpenRows(s) = {}
  <2>1. \A y \in Years : OpenRowsOf(s, y) = {}
    BY <1>6 DEF OpenRowsOf
  <2>2. \A y \in Years : RoomFor(s, y) = None
    BY <2>1 DEF RoomFor
  <2>3. RoomOf' = RoomOf
    BY <1>3, <1>4, <2>2, RoomsAre
  <2>4. DaysLeft(s)' = DaysLeft(s)
    BY <1>6, RowsAfterLeaving
  <2>5. LastLeft'[s] = LastLeft[s]
    BY <2>4, SameLast
  <2>6. LastLeft' = LastLeft
    BY <1>2, <2>5, MappingsAreFunctions
  <2>7. LastDayExists'
    BY <1>2, <2>4 DEF LastDayExists
  <2> QED
    BY <1>1, <1>5, <2>3, <2>6, <2>7
<1>7. CASE OpenRows(s) # {}
  <2>1. PICK r \in OpenRows(s) : r.year \in Years
    BY <1>7 DEF RollOK, OpenRows, Row
  <2>2. RoomFor(s, r.year) # None
    BY <2>1, RoomIs DEF OpenRowsOf
  <2>3. RoomOf[s][r.year] # None
    BY <2>1, <2>2, RoomsAre
  <2>4. DaysLeft(s)' = DaysLeft(s) \cup {today}
    BY <1>7, RowsAfterLeaving
  <2>5. LastLeft'[s] = today /\ \E d \in DaysLeft(s)' : \A e \in DaysLeft(s)' : e <= d
    BY <2>4, LastLeftToday
  <2>6. LastDayExists'
    BY <1>2, <2>5 DEF LastDayExists
  <2>7. RoomOf' = [RoomOf EXCEPT ![s] = [y \in Years |-> None]]
    BY <1>3, <1>4, RoomsAre
  <2>8. LastLeft' = [LastLeft EXCEPT ![s] = today]
    BY <1>2, <2>5, MappingsAreFunctions
  <2> QED
    BY <1>1, <1>5, <2>1, <2>3, <2>6, <2>7, <2>8 DEF TheRoll!Leave
<1> QED
  BY <1>6, <1>7

LEMMA EnrolmentEnters ==
  ASSUME RollOK, RollOK', LastDayExists, NEW s \in Students, NEW r \in Rooms, NEW y \in Years,
         EnrollStudent(s, r, y)
  PROVE  LastDayExists' /\ TheRoll!Enter(s, r, y)
<1>1. today' = today
  BY DEF EnrollStudent
<1>a. ASSUME NEW c \in Students
      PROVE  /\ c = s => \E new : new.room = r /\ OpenRowsOf(c, y)' = {new}
             /\ \A z \in Years : c # s \/ z # y => OpenRowsOf(c, z)' = OpenRowsOf(c, z)
             /\ BeenIn'[c] = IF c = s THEN BeenIn[c] \cup {r} ELSE BeenIn[c]
             /\ DaysLeft(c)' = IF c = s /\ OpenRowsOf(s, y) # {}
                               THEN DaysLeft(c) \cup {today} ELSE DaysLeft(c)
  BY RowsAfterEntering
<1>2. \A c \in Students \ {s} : DaysLeft(c)' = DaysLeft(c) /\ LastLeft'[c] = LastLeft[c]
  BY <1>a, SameLast
<1>3. \A c \in Students, z \in Years : c # s \/ z # y => RoomFor(c, z)' = RoomFor(c, z)
  BY <1>a, SameRoom
<1>4. RoomFor(s, y)' = r
  <2>1. \E new : new.room = r /\ OpenRowsOf(s, y)' = {new}
    BY <1>a
  <2> QED
    BY <2>1 DEF RoomFor
<1>5. RoomOf[s][y] # r
  <2>1. RoomFor(s, y) # r
    BY RoomIs, NoneIsNull DEF EnrollStudent
  <2> QED
    BY <2>1, RoomsAre
<1>6. RoomOf' = [RoomOf EXCEPT ![s][y] = r]
  BY <1>3, <1>4, RoomsAre
<1>7. BeenIn' = [BeenIn EXCEPT ![s] = @ \cup {r}]
  BY <1>a, MappingsAreFunctions
<1>8. CASE OpenRowsOf(s, y) = {}
  <2>1. DaysLeft(s)' = DaysLeft(s) /\ RoomOf[s][y] = None
    BY <1>8, <1>a, RoomIs, RoomsAre
  <2>2. LastLeft'[s] = LastLeft[s]
    BY <2>1, SameLast
  <2>3. LastLeft' = LastLeft
    BY <1>2, <2>2, MappingsAreFunctions
  <2>4. LastDayExists'
    BY <1>2, <2>1 DEF LastDayExists
  <2> QED
    BY <1>1, <1>5, <1>6, <1>7, <2>1, <2>3, <2>4 DEF TheRoll!Enter
<1>9. CASE OpenRowsOf(s, y) # {}
  <2>1. DaysLeft(s)' = DaysLeft(s) \cup {today} /\ RoomOf[s][y] # None
    BY <1>9, <1>a, RoomIs, RoomsAre
  <2>2. LastLeft'[s] = today /\ \E d \in DaysLeft(s)' : \A e \in DaysLeft(s)' : e <= d
    BY <2>1, LastLeftToday
  <2>3. LastDayExists'
    BY <1>2, <2>2 DEF LastDayExists
  <2>4. LastLeft' = [LastLeft EXCEPT ![s] = today]
    BY <1>2, <2>2, MappingsAreFunctions
  <2> QED
    BY <1>1, <1>5, <1>6, <1>7, <2>1, <2>3, <2>4 DEF TheRoll!Enter
<1> QED
  BY <1>8, <1>9

LEMMA RowsAsBefore ==
  ASSUME LastDayExists, rows' = rows
  PROVE  LastDayExists' /\ UNCHANGED <<RoomOf, BeenIn, LastLeft>>
<1>1. \A s \in Students : DaysLeft(s)' = DaysLeft(s)
  BY DEF DaysLeft
<1>2. \A s \in Students, y \in Years : OpenRowsOf(s, y)' = OpenRowsOf(s, y)
  BY DEF OpenRows, OpenRowsOf
<1>3. RoomOf' = RoomOf
  BY <1>2, SameRoom, RoomsAre
<1>4. LastLeft' = LastLeft
  BY <1>1, SameLast, MappingsAreFunctions
<1>5. BeenIn' = BeenIn
  BY DEF BeenIn
<1> QED
  BY <1>1, <1>3, <1>4, <1>5 DEF LastDayExists

\* Every step of the diary is a step of the roll, or shows nothing there.
LEMMA StepKeepsRoll ==
  ASSUME DiaryInv, DiaryInv', LastDayExists, [Next]_vars
  PROVE  LastDayExists' /\ [TheRoll!RollNext]_<<today, RoomOf, BeenIn, LastLeft>>
<1>1. RollOK /\ RollOK'
  BY DEF DiaryInv, TypeOK, RollOK
<1>2. CASE NextDay
  <2>1. LastDayExists' /\ TheRoll!Midnight
    BY <1>2, RowsAsBefore DEF NextDay, TheRoll!Midnight
  <2> QED
    BY <2>1 DEF TheRoll!RollNext
<1>3. ASSUME NEW s \in Students, NEW r \in Rooms, NEW y \in Years, EnrollStudent(s, r, y)
      PROVE  LastDayExists' /\ [TheRoll!RollNext]_<<today, RoomOf, BeenIn, LastLeft>>
  BY <1>1, <1>3, EnrolmentEnters DEF TheRoll!RollNext
<1>4. ASSUME NEW s \in Students, WithdrawStudent(s)
      PROVE  LastDayExists' /\ [TheRoll!RollNext]_<<today, RoomOf, BeenIn, LastLeft>>
  BY <1>1, <1>4, WithdrawalLeaves DEF TheRoll!RollNext
<1>5. CASE UNCHANGED <<rows, today>>
  BY <1>5, RowsAsBefore
<1> QED
  BY <1>2, <1>3, <1>4, <1>5
  DEF Next, Office, Teachers, Parents, Stop, LinkGuardian, EraseEntries, QuickEntry, RecordEntry,
      ListDay, PublishEntries, ReportIncident, OpenIncident, AcknowledgeIncident, vars

\* The enrolment rows implement the roll: whatever the office does to them, what they
\* come to is a child in one room or none of each academic year, an enrolment that
\* leaves the other years alone, and a past that is never taken back.
THEOREM DiaryKeepsRoll == Spec => KeepsRoll
<1>1. Init => LastDayExists /\ TheRoll!RollInit
  BY DEF Init, LastDayExists, DaysLeft, RoomOf, RoomFor, BeenIn, LastLeft, OpenRows, OpenRowsOf, TheRoll!RollInit
<1>2. DiaryInv /\ DiaryInv' /\ LastDayExists /\ [Next]_vars =>
        LastDayExists' /\ [TheRoll!RollNext]_(TheRoll!rollVars)
  BY StepKeepsRoll DEF TheRoll!rollVars
<1> QED
  BY <1>1, <1>2, DiaryInvariant, PTL DEF Spec, KeepsRoll, TheRoll!RollSpec

\* No row is edited, reopened or lost: it is closed, once, with the day it is.
THEOREM HistoryIsNotRewritten == Spec => HistoryStands
<1>1. [Next]_vars => RowsStand
  <2> SUFFICES ASSUME [Next]_vars, NEW r \in rows, r \notin rows'
               PROVE  r.left = None /\ [r EXCEPT !.left = today] \in rows'
    BY DEF RowsStand
  <2>1. ASSUME NEW s \in Students,
               \/ \E room \in Rooms, year \in Years : EnrollStudent(s, room, year)
               \/ WithdrawStudent(s)
        PROVE  r.left = None /\ [r EXCEPT !.left = today] \in rows'
    <3>1. r \in OpenRows(s) /\ [r EXCEPT !.left = today] \in rows'
      BY <2>1 DEF EnrollStudent, WithdrawStudent, RowsOnceClosed, OpenRowsOf
    <3> QED
      BY <3>1 DEF OpenRows
  <2> QED
    BY <2>1
    DEF Next, NextDay, Office, Teachers, Parents, Stop, LinkGuardian, EraseEntries, QuickEntry,
        RecordEntry, ListDay, PublishEntries, ReportIncident, OpenIncident, AcknowledgeIncident, vars
<1> QED
  BY <1>1, PTL DEF Spec, HistoryStands

-------------------------------------------------------------------------------
\* What a family has read is not published again, and the first acknowledgement
\* of an accident stands, unless two requests read the report at once.
THEOREM FirstWordsStand == Spec => FirstWordStands
<1>1. DiaryInv /\ [Next]_vars => WordsStand
  BY PublishedStands, AcknowledgedStands DEF WordsStand
<1> QED
  BY <1>1, DiaryInvariant, PTL DEF FirstWordStands, Spec
===============================================================================
