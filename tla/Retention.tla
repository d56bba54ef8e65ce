------------------------------ MODULE Retention ------------------------------
(***************************************************************************)
(* Which photographs prune_media deletes, and when.  The retention sweep   *)
(* reads the enrolment rows and the tags (apps/activities/selectors.py);   *)
(* a family's erasure request reads the tags of one child                  *)
(* (erase_student_media in apps/activities/services.py).  Both read their  *)
(* list once and then delete photograph by photograph, each a round trip   *)
(* to the bucket, while the office enrols and withdraws                    *)
(* (apps/people/services.py) and teachers tag.  How one photograph is      *)
(* deleted is PhotoStore's business; here it is one step.                  *)
(*                                                                         *)
(* Dates are what matters of an enrolment, so a row is its academic year   *)
(* and whether it is open; a child's closed rows are represented by the    *)
(* latest left_on, the only one of them any rule asks for.                 *)
(***************************************************************************)
EXTENDS Common

CONSTANTS
    Years,       \* academic years: one open enrolment per child and year
    Photos,
    Operators,   \* prune_media --commit commands that may run at once
    Window       \* MEDIA_RETENTION_DAYS

ASSUME RetentionWindow == Window \in Nat
ASSUME NoneIsNull == None \notin Int \cup Students

VARIABLES
    today,
    open,      \* <<child, year>>: the enrolment has no left_on yet
    lastLeft,  \* the latest left_on of each child's closed rows, or None
    status,    \* Student.status
    leftSince, \* history: the day status was last set to "left", or None
    media,     \* MediaAsset rows: none yet, live, or gone
    taken,     \* MediaAsset.taken_at, as a date
    tags,      \* MediaTag
    diary,     \* children with activity entries of their own
    job,       \* what each prune_media command is doing
    owed       \* history: <<child, photo>> pairs an erasure of the child
               \* found to show nobody else, and so set out to delete

rollVars  == <<open, lastLeft, status, leftSince>>
photoVars == <<media, taken, tags>>
vars == <<today, rollVars, photoVars, diary, job, owed>>

\* A running command: the child it erases, or None for the retention sweep, and
\* the photographs still on its list.
Idle    == [child |-> None, doomed |-> {}, running |-> FALSE]
Command == [child : Students \cup {None}, doomed : SUBSET Photos, running : BOOLEAN]

TypeOK ==
    /\ today \in Days
    /\ open \subseteq Students \X Years
    /\ lastLeft \in [Students -> Days \cup {None}]
    /\ status \in [Students -> {"enrolled", "left"}]
    /\ leftSince \in [Students -> Days \cup {None}]
    /\ media \in [Photos -> {"none", "live", "gone"}]
    /\ taken \in [Photos -> Days]
    /\ tags \in [Photos -> SUBSET Students]
    /\ diary \subseteq Students
    /\ job \in [Operators -> Command]
    /\ owed \subseteq Students \X Photos
    /\ \A m \in Photos : media[m] # "live" => tags[m] = {}
    /\ \A s \in Students : lastLeft[s] # None => lastLeft[s] <= today

Init ==
    /\ today = 0
    /\ open = {}
    /\ lastLeft = [s \in Students |-> None]
    /\ status = [s \in Students |-> "enrolled"]
    /\ leftSince = [s \in Students |-> None]
    /\ media = [m \in Photos |-> "none"]
    /\ taken = [m \in Photos |-> 0]
    /\ tags = [m \in Photos |-> {}]
    /\ diary = {}
    /\ job = [o \in Operators |-> Idle]
    /\ owed = {}

Live  == {m \in Photos : media[m] = "live"}
Shows(s) == {m \in Live : s \in tags[m]}
HasOpenRow(s) == \E y \in Years : <<s, y>> \in open

-----------------------------------------------------------------------------
(***************************************************************************)
(* The selection.                                                          *)
(***************************************************************************)

\* departure_date: None while a row is open, and for a child with no row at all.
DepartureDate(s) == IF HasOpenRow(s) THEN None ELSE lastLeft[s]

\* Variant: the open rows are left to the aggregate, which skips nulls.
StudentsGoneSince_MaxOnly(cutoff) ==
    {s \in Students : lastLeft[s] # None /\ lastLeft[s] <= cutoff}

\* students_gone_since, as the query computes it: the greatest left_on, which
\* ignores open rows, and then the children with an open row taken out.
StudentsGoneSince(cutoff) ==
    {s \in Students : lastLeft[s] # None /\ lastLeft[s] <= cutoff /\ ~HasOpenRow(s)}

\* media_expired_by_retention: tagged, and no tag points outside the gone; or
\* untagged and old.
MediaExpired ==
    LET cutoff == today - Window
        stays  == Students \ StudentsGoneSince(cutoff)
    IN  {m \in Live : tags[m] # {} /\ tags[m] \cap stays = {}}
            \cup {m \in Live : tags[m] = {} /\ taken[m] <= cutoff}

-----------------------------------------------------------------------------
(***************************************************************************)
(* The office and the roll.                                                *)
(***************************************************************************)
NextDay ==
    /\ today < LastDay
    /\ today' = today + 1
    /\ UNCHANGED <<rollVars, photoVars, diary, job, owed>>

\* enroll_student into a first room of the year, or out of one room into another:
\* the old row is closed today and a new one opened.  The room the child is in
\* already is returned as it is, the status untouched.
EnrollStudent(s, y) ==
    /\ open' = open \cup {<<s, y>>}
    /\ lastLeft' = IF <<s, y>> \in open THEN [lastLeft EXCEPT ![s] = today] ELSE lastLeft
    /\ status' = [status EXCEPT ![s] = "enrolled"]
    /\ leftSince' = [leftSince EXCEPT ![s] = None]
    /\ UNCHANGED <<today, photoVars, diary, job, owed>>

\* Variant: every row of the child is stamped, the closed ones again.
WithdrawStudent_AllRows(s) ==
    /\ open' = {row \in open : row[1] # s}
    /\ lastLeft' = IF HasOpenRow(s) \/ lastLeft[s] # None
                   THEN [lastLeft EXCEPT ![s] = today] ELSE lastLeft
    /\ status' = [status EXCEPT ![s] = "left"]
    /\ leftSince' = [leftSince EXCEPT ![s] = IF @ = None THEN today ELSE @]
    /\ UNCHANGED <<today, photoVars, diary, job, owed>>

\* withdraw_student closes every open row of the child.
WithdrawStudent(s) ==
    /\ open' = {row \in open : row[1] # s}
    /\ lastLeft' = IF HasOpenRow(s) THEN [lastLeft EXCEPT ![s] = today] ELSE lastLeft
    /\ status' = [status EXCEPT ![s] = "left"]
    /\ leftSince' = [leftSince EXCEPT ![s] = IF @ = None THEN today ELSE @]
    /\ UNCHANGED <<today, photoVars, diary, job, owed>>

\* update_student from the student's page: the status is a field of the form, and
\* the enrolment rows are not touched.
UpdateStudent(s, new) ==
    /\ status[s] # new
    /\ status' = [status EXCEPT ![s] = new]
    /\ leftSince' = [leftSince EXCEPT ![s] = IF new = "left" THEN today ELSE None]
    /\ UNCHANGED <<today, open, lastLeft, photoVars, diary, job, owed>>

-----------------------------------------------------------------------------
(***************************************************************************)
(* The teachers.                                                           *)
(***************************************************************************)

\* register_upload, and the date the confirming page reports.
Upload(m, day) ==
    /\ media[m] = "none"
    /\ day <= today
    /\ media' = [media EXCEPT ![m] = "live"]
    /\ taken' = [taken EXCEPT ![m] = day]
    /\ UNCHANGED <<today, rollVars, tags, diary, job, owed>>

Tag(m, s) ==
    /\ m \in Live
    /\ s \notin tags[m]
    /\ tags' = [tags EXCEPT ![m] = @ \cup {s}]
    /\ UNCHANGED <<today, rollVars, media, taken, diary, job, owed>>

\* A teacher who takes the tag off has decided it is not a picture of the child.
Untag(m, s) ==
    /\ s \in tags[m]
    /\ tags' = [tags EXCEPT ![m] = @ \ {s}]
    /\ owed' = owed \ {<<s, m>>}
    /\ UNCHANGED <<today, rollVars, media, taken, diary, job>>

RecordEntry(s) ==
    /\ s \notin diary
    /\ diary' = diary \cup {s}
    /\ UNCHANGED <<today, rollVars, photoVars, job, owed>>

-----------------------------------------------------------------------------
(***************************************************************************)
(* prune_media --commit.                                                   *)
(***************************************************************************)

\* erase_student_media: the photographs that show this child and nobody else.
Alone(s) == {m \in Shows(s) : tags[m] = {s}}

\* A family's request is worked by one operator at a time.
NotBeingErased(s) == \A o \in Operators : job[o].child # s

\* Variant: the tags are dropped first, as the rule is usually told.
StartErase_TagsFirst(o, s) ==
    /\ ~job[o].running
    /\ NotBeingErased(s)
    /\ job' = [job EXCEPT ![o] = [child |-> s, doomed |-> Alone(s), running |-> TRUE]]
    /\ owed' = {pair \in owed : pair[1] # s} \cup ({s} \X Alone(s))
    /\ tags' = [m \in Photos |-> tags[m] \ {s}]
    /\ UNCHANGED <<today, rollVars, media, taken, diary>>

StartErase(o, s) ==
    /\ ~job[o].running
    /\ NotBeingErased(s)
    /\ job' = [job EXCEPT ![o] = [child |-> s, doomed |-> Alone(s), running |-> TRUE]]
    /\ owed' = {pair \in owed : pair[1] # s} \cup ({s} \X Alone(s))
    /\ UNCHANGED <<today, rollVars, photoVars, diary>>

\* prune_expired_media.
StartRetention(o) ==
    /\ ~job[o].running
    /\ job' = [job EXCEPT ![o] = [child |-> None, doomed |-> MediaExpired, running |-> TRUE]]
    /\ UNCHANGED <<today, rollVars, photoVars, diary, owed>>

\* Variant: the row is kept, marked as deleted, and its tags with it.
ForgetMedia_KeepsTags(o, m) ==
    /\ m \in job[o].doomed
    /\ job' = [job EXCEPT ![o].doomed = @ \ {m}]
    /\ media' = [media EXCEPT ![m] = "gone"]
    /\ UNCHANGED <<today, rollVars, taken, tags, diary, owed>>

\* forget_media on the next photograph of the list; its tags go with the row.
ForgetMedia(o, m) ==
    /\ m \in job[o].doomed
    /\ job' = [job EXCEPT ![o].doomed = @ \ {m}]
    /\ media' = [media EXCEPT ![m] = "gone"]
    /\ tags' = [tags EXCEPT ![m] = {}]
    /\ UNCHANGED <<today, rollVars, taken, diary, owed>>

\* The erasure's last transaction: what is left of the child's tags, and the
\* child's entries.
FinishErase(o) ==
    /\ job[o].running
    /\ job[o].child # None
    /\ job[o].doomed = {}
    /\ job' = [job EXCEPT ![o] = Idle]
    /\ tags' = [m \in Photos |-> tags[m] \ {job[o].child}]
    /\ diary' = diary \ {job[o].child}
    /\ owed' = {pair \in owed : pair[1] # job[o].child \/ media[pair[2]] = "live"}
    /\ UNCHANGED <<today, rollVars, media, taken>>

\* Variant: a photograph whose delete failed is skipped, and the sweep reports
\* success.
FinishRetention_Skips(o) ==
    /\ job[o].running
    /\ job[o].child = None
    /\ job' = [job EXCEPT ![o] = Idle]
    /\ UNCHANGED <<today, rollVars, photoVars, diary, owed>>

FinishRetention(o) ==
    /\ job[o].running
    /\ job[o].child = None
    /\ job[o].doomed = {}
    /\ job' = [job EXCEPT ![o] = Idle]
    /\ UNCHANGED <<today, rollVars, photoVars, diary, owed>>

\* A storage call raises, or the command is killed: the list is lost.
Abort(o) ==
    /\ job[o].running
    /\ job' = [job EXCEPT ![o] = Idle]
    /\ UNCHANGED <<today, rollVars, photoVars, diary, owed>>

-----------------------------------------------------------------------------
Office ==
    \E s \in Students :
        \/ \E y \in Years : EnrollStudent(s, y)
        \/ WithdrawStudent(s)
        \/ \E new \in {"enrolled", "left"} : UpdateStudent(s, new)

Staff ==
    \/ \E m \in Photos, day \in Days : Upload(m, day)
    \/ \E m \in Photos, s \in Students : Tag(m, s) \/ Untag(m, s)
    \/ \E s \in Students : RecordEntry(s)

Prune(o) ==
    \/ \E s \in Students : StartErase(o, s)
    \/ StartRetention(o)
    \/ \E m \in Photos : ForgetMedia(o, m)
    \/ FinishErase(o)
    \/ FinishRetention(o)
    \/ Abort(o)

Next == NextDay \/ Office \/ Staff \/ \E o \in Operators : Prune(o)

Spec == Init /\ [][Next]_vars

-----------------------------------------------------------------------------
(***************************************************************************)
(* Properties.                                                             *)
(***************************************************************************)

\* "a photo expires once EVERY child tagged in it left long enough ago.  One
\* child still on the roll keeps the whole photograph" (selectors.py, Retention):
\* the rule as departure_date tells it child by child.
OutOfTime(m) ==
    IF tags[m] = {}
    THEN taken[m] <= today - Window
    ELSE \A s \in tags[m] :
            DepartureDate(s) # None /\ DepartureDate(s) <= today - Window

\* The sweep's two queries, an aggregate over left_on and a double negative over
\* the tags, select what that rule says and nothing else, through moves between
\* rooms, years left open, returns and withdrawals.
ExpiredAsPromised == \A m \in Live : m \in MediaExpired <=> OutOfTime(m)

\* "every function returns the keys it touched, so the dry run IS the audit
\* trail" (services.py, Erasure and retention).  What a person read in the dry
\* run is still on the list at the commit, unless it was deleted, somebody was
\* tagged or untagged, or one of its children is back on the roll.
DryRunStands ==
    [][\A m \in MediaExpired :
          \/ m \in MediaExpired'
          \/ media'[m] = "gone"
          \/ tags'[m] # tags[m]
          \/ \E s \in tags[m] : HasOpenRow(s)']_vars

\* "This way a failure leaves the child's tags intact and the whole operation
\* repeatable" (services.py, erase_student_media).  A photograph an erasure set
\* out to delete is gone, or still carries the tag by which the next attempt
\* finds it, wherever the first one failed.
ErasureRepeatable ==
    \A s \in Students, m \in Photos :
        <<s, m>> \in owed => media[m] = "gone" \/ s \in tags[m]

\* If sweeps keep completing, a photograph past the window is deleted, or stops
\* being past it: none is overlooked for ever.
ExpiredIsPruned ==
    []<><<\E o \in Operators : FinishRetention(o)>>_vars =>
        \A m \in Photos : (m \in MediaExpired) ~> (m \notin MediaExpired)

\* "Untagging the child from a photograph that also shows two others does NOT
\* delete that photograph" (services.py, erase_student_media).  Erasing one
\* child deletes no photograph that shows another.  It does not hold: the list
\* is read once, and a child tagged while the run is at the bucket goes with it.
SparesTheOthers ==
    [][\A o \in Operators, m \in Photos :
          ForgetMedia(o, m) /\ job[o].child # None =>
              tags[m] \subseteq {job[o].child}]_vars

\* "a year after a child leaves" (selectors.py, Retention).  A photograph of a
\* child who was enrolled and whom the office marked as left a window ago, and of
\* nobody else, is on the sweep's list.  It does not hold: the student form sets
\* the status and closes no enrolment row, and the sweep reads the rows.
LeaversExpire ==
    \A s \in Students : \A m \in Alone(s) :
        /\ HasOpenRow(s) \/ lastLeft[s] # None
        /\ leftSince[s] # None
        /\ leftSince[s] <= today - Window
        => m \in MediaExpired
=============================================================================
