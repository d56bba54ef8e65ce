------------------------------- MODULE NoticeBoard -------------------------------
(***************************************************************************)
(* The notice board (apps/announcements): notices to a room or to the      *)
(* whole school, drafted, published, withdrawn and expired; the parents'   *)
(* feed, the receipts of who opened what, and the audience the office      *)
(* compares them with.  Whom a notice reaches is read from the roll, which *)
(* the office changes meanwhile (people/services.py).                      *)
(*                                                                         *)
(* Publishing reads the notice and writes it in another transaction, and   *)
(* so does a parent's page: it finds the notice in the feed, then records  *)
(* the receipt.                                                            *)
(***************************************************************************)
EXTENDS Common

CONSTANTS
    Users, Rooms, Branches,
    Years,       \* academic years with a form to enrol in
    HomeOf,      \* Student.branch
    RoomAt,      \* Classroom.branch
    FirstBranch, \* current_branch_fallback
    School,      \* the audience "Whole school"
    Notices,
    Editors      \* publish and withdraw requests running at once

ASSUME BranchesOfTheirOwn ==
    /\ HomeOf \in [Students -> Branches]
    /\ RoomAt \in [Rooms -> Branches]
    /\ FirstBranch \in Branches
    /\ School \notin Rooms

\* The form's one choice: the whole school, or which room.
Audience == Rooms \cup {School}

Announcement ==
    [branch : Branches, audience : Audience, expires_on : Days \cup {None},
     is_published : BOOLEAN, published_at : Days \cup {None}]

\* A staff request between its steps: the notice, what is_published it was read
\* with, and whether it withdraws.
Edit == [notice : Notices, read : BOOLEAN, withdraws : BOOLEAN]

ASSUME NoneIsNull == None \notin Rooms \cup Days \cup Announcement \cup Edit

VARIABLES
    day,         \* timezone.localdate()
    enrolled,    \* the children whose status is ENROLLED
    room,        \* the room of a child's open enrolment row of each year, or None
    link,        \* <<child, account>>: a guardian of the child has this account
    notice,      \* Announcement
    edit,        \* the staff requests
    opening,     \* <<notice, account>>: the page has found it, the receipt is to come
    read_at,     \* AnnouncementRead
    told,        \* history: the day a notice was first published
    reached      \* history: <<notice, account>>: it was in that feed at some time

roll  == <<enrolled, room, link>>
board == <<notice, edit, told>>
pages == <<opening, read_at>>
vars  == <<day, roll, board, pages, reached>>

\* The types, and what keeps them company: a published notice has its time.
TypeOK ==
    /\ day \in Days
    /\ enrolled \subseteq Students
    /\ room \in [Students -> [Years -> Rooms \cup {None}]]
    /\ link \subseteq Students \X Users
    /\ notice \in [Notices -> Announcement \cup {None}]
    /\ edit \in [Editors -> Edit \cup {None}]
    /\ opening \subseteq Notices \X Users
    /\ read_at \in [Notices -> [Users -> Days \cup {None}]]
    /\ told \in [Notices -> Days \cup {None}]
    /\ reached \subseteq Notices \X Users
    /\ \A n \in Notices : notice[n] # None =>
         (notice[n].is_published => notice[n].published_at # None)

Init ==
    /\ day = 0
    /\ enrolled = {}
    /\ room = [c \in Students |-> [y \in Years |-> None]]
    /\ link = {}
    /\ notice = [n \in Notices |-> None]
    /\ edit = [e \in Editors |-> None]
    /\ opening = {}
    /\ read_at = [n \in Notices |-> [u \in Users |-> None]]
    /\ told = [n \in Notices |-> None]
    /\ reached = {}

-------------------------------------------------------------------------------
(***************************************************************************)
(* Reads                                                                   *)
(***************************************************************************)
HasExpired(n) == notice[n].expires_on # None /\ notice[n].expires_on < day

ChildrenOf(u) == {c \in Students : <<c, u>> \in link}

\* The rooms of a child's open enrolment rows, of whatever years.
RoomsOf(c) == {room[c][y] : y \in Years} \ {None}

AudienceStudents(n) ==
    {c \in enrolled : HomeOf[c] = notice[n].branch
                      /\ notice[n].audience \in {School} \cup RoomsOf(c)}

\* _audience_users: whom the office is told a notice is addressed to.
AudienceUsers(n) == {u \in Users : ChildrenOf(u) \cap AudienceStudents(n) # {}}

\* Variant: "stop showing it after" a day read as "from" it.
Visible_LastDayHidden(n, u) ==
    /\ notice[n] # None
    /\ notice[n].is_published
    /\ \E c \in ChildrenOf(u) : HomeOf[c] = notice[n].branch
    /\ notice[n].audience \in {School} \cup UNION {RoomsOf(c) : c \in ChildrenOf(u)}
    /\ notice[n].expires_on # None => notice[n].expires_on > day

\* _visible_q: published, at the branch of one child, for the school or the room
\* of one, and not past its day.
Visible(n, u) ==
    /\ notice[n] # None
    /\ notice[n].is_published
    /\ \E c \in ChildrenOf(u) : HomeOf[c] = notice[n].branch
    /\ notice[n].audience \in {School} \cup UNION {RoomsOf(c) : c \in ChildrenOf(u)}
    /\ notice[n].expires_on # None => notice[n].expires_on >= day

FeedFor(u) == {n \in Notices : Visible(n, u)}

\* unread_count counts these.
Unread(u) == {n \in FeedFor(u) : read_at[n][u] = None}

\* The history of the feeds.
Reach == reached' = reached \cup {p \in Notices \X Users : Visible(p[1], p[2])'}

-------------------------------------------------------------------------------
(***************************************************************************)
(* The day, and the office                                                 *)
(***************************************************************************)
NextDay ==
    /\ day < LastDay
    /\ day' = day + 1
    /\ UNCHANGED <<roll, board, pages>>
    /\ Reach

\* As in Register: the open row of that year is closed and a new one opened; a child
\* already in the room that year keeps its row and its status.  The form offers the
\* rooms of the child's branch.
EnrollStudent(c, r, y) ==
    /\ RoomAt[r] = HomeOf[c]
    /\ room[c][y] # r
    /\ room' = [room EXCEPT ![c][y] = r]
    /\ enrolled' = enrolled \cup {c}
    /\ UNCHANGED <<day, link, board, pages>>
    /\ Reach

\* withdraw_student: every open row is closed, of whatever year.
WithdrawStudent(c) ==
    /\ room' = [room EXCEPT ![c] = [y \in Years |-> None]]
    /\ enrolled' = enrolled \ {c}
    /\ UNCHANGED <<day, link, board, pages>>
    /\ Reach

\* The student form: the status alone, whatever rows are open.
UpdateStudent(c) ==
    /\ enrolled' \in {enrolled \cup {c}, enrolled \ {c}}
    /\ UNCHANGED <<day, room, link, board, pages>>
    /\ Reach

\* A guardian with an account is linked to a child.
LinkGuardian(c, u) ==
    /\ link' = link \cup {<<c, u>>}
    /\ UNCHANGED <<day, enrolled, room, board, pages>>
    /\ Reach

(***************************************************************************)
(* Staff                                                                   *)
(***************************************************************************)
\* The form's audience is one choice; a room's notice is its branch's, and a
\* school-wide one that of the fallback.
CreateAnnouncement(n, audience, expires) ==
    /\ notice[n] = None
    /\ notice' = [notice EXCEPT ![n] =
         [branch |-> IF audience = School THEN FirstBranch ELSE RoomAt[audience],
          audience |-> audience, expires_on |-> expires,
          is_published |-> FALSE, published_at |-> None]]
    /\ UNCHANGED <<day, roll, edit, told, pages>>
    /\ Reach

\* Either view: the notice is read.
OpenEdit(e, n, withdraws) ==
    /\ edit[e] = None
    /\ notice[n] # None
    /\ edit' = [edit EXCEPT ![e] =
         [notice |-> n, read |-> notice[n].is_published, withdraws |-> withdraws]]
    /\ UNCHANGED <<day, roll, notice, told, pages>>
    /\ Reach

\* Variant: published again whatever the row says.
Publish_Always(e) ==
    /\ edit[e] # None
    /\ ~edit[e].withdraws
    /\ LET n == edit[e].notice
       IN  /\ notice' = [notice EXCEPT ![n].is_published = TRUE, ![n].published_at = day]
           /\ told' = [told EXCEPT ![n] = IF @ = None THEN day ELSE @]
    /\ edit' = [edit EXCEPT ![e] = None]
    /\ UNCHANGED <<day, roll, pages>>
    /\ Reach

\* Variant: the flag alone is saved.
Publish_FlagOnly(e) ==
    /\ edit[e] # None
    /\ ~edit[e].withdraws
    /\ LET n == edit[e].notice
       IN  /\ notice' = [notice EXCEPT ![n].is_published = TRUE]
           /\ told' = [told EXCEPT ![n] = IF @ = None THEN day ELSE @]
    /\ edit' = [edit EXCEPT ![e] = None]
    /\ UNCHANGED <<day, roll, pages>>
    /\ Reach

\* publish: nothing to do for a notice that was read as published.
Publish(e) ==
    /\ edit[e] # None
    /\ ~edit[e].withdraws
    /\ LET n == edit[e].notice
       IN  IF edit[e].read
           THEN UNCHANGED <<notice, told>>
           ELSE /\ notice' = [notice EXCEPT ![n].is_published = TRUE, ![n].published_at = day]
                /\ told' = [told EXCEPT ![n] = IF @ = None THEN day ELSE @]
    /\ edit' = [edit EXCEPT ![e] = None]
    /\ UNCHANGED <<day, roll, pages>>
    /\ Reach

\* unpublish: the flag alone is saved.
Unpublish(e) ==
    /\ edit[e] # None
    /\ edit[e].withdraws
    /\ notice' = [notice EXCEPT ![edit[e].notice].is_published = FALSE]
    /\ edit' = [edit EXCEPT ![e] = None]
    /\ UNCHANGED <<day, roll, told, pages>>
    /\ Reach

(***************************************************************************)
(* Parents                                                                 *)
(***************************************************************************)
\* Variant: the receipt is written from the list, for any notice of the board.
OpenNotice_FromTheBoard(n, u) ==
    /\ notice[n] # None
    /\ opening' = opening \cup {<<n, u>>}
    /\ UNCHANGED <<day, roll, board, read_at>>
    /\ Reach

\* my_announcement: the notice is looked for in this account's feed.
OpenNotice(n, u) ==
    /\ n \in FeedFor(u)
    /\ opening' = opening \cup {<<n, u>>}
    /\ UNCHANGED <<day, roll, board, read_at>>
    /\ Reach

\* mark_read: get_or_create, so that a receipt that is there stays as it is.  The
\* page may also die before it.
MarkRead(n, u) ==
    /\ <<n, u>> \in opening
    /\ opening' = opening \ {<<n, u>>}
    /\ \/ read_at' = [read_at EXCEPT ![n][u] = IF @ = None THEN day ELSE @]
       \/ UNCHANGED read_at
    /\ UNCHANGED <<day, roll, board>>
    /\ Reach

Office ==
    \E c \in Students :
        \/ \E r \in Rooms, y \in Years : EnrollStudent(c, r, y)
        \/ WithdrawStudent(c)
        \/ UpdateStudent(c)
        \/ \E u \in Users : LinkGuardian(c, u)

Staff ==
    \/ \E n \in Notices, audience \in Audience, expires \in Days \cup {None} :
         CreateAnnouncement(n, audience, expires)
    \/ \E e \in Editors :
         \/ \E n \in Notices, withdraws \in BOOLEAN : OpenEdit(e, n, withdraws)
         \/ Publish(e)
         \/ Unpublish(e)

Parents == \E n \in Notices, u \in Users : OpenNotice(n, u) \/ MarkRead(n, u)

Next == NextDay \/ Office \/ Staff \/ Parents

Spec == Init /\ [][Next]_vars

-------------------------------------------------------------------------------
(***************************************************************************)
(* Correctness                                                             *)
(***************************************************************************)

\* "How many guardian accounts could have read it": whoever the audience of a live
\* notice counts has opened it or finds it waiting, whichever child brings it, and
\* up to and including its last day.
AudienceIsServed ==
    \A n \in Notices :
        (notice[n] # None /\ notice[n].is_published /\ ~HasExpired(n)) =>
            \A u \in AudienceUsers(n) : read_at[n][u] # None \/ n \in Unread(u)

\* "A record that a named person saw something at a known time": an account has a
\* receipt only of a notice that was in its feed, dated no earlier than the day
\* the school first told it, and the notice keeps a time after it is withdrawn.
ReceiptsAreEvidence ==
    \A n \in Notices, u \in Users : read_at[n][u] # None =>
        /\ <<n, u>> \in reached
        /\ told[n] # None
        /\ told[n] <= read_at[n][u]
        /\ notice[n] # None
        /\ notice[n].published_at # None
        /\ told[n] <= notice[n].published_at

\* "First read wins", and "when did the school tell us has one answer": a receipt
\* is never rewritten or lost, and the time of a published notice changes only by
\* a request that had read it as a draft.
Stands ==
    \A n \in Notices :
        /\ \A u \in Users : read_at[n][u] # None => read_at'[n][u] = read_at[n][u]
        /\ (/\ notice[n] # None
            /\ notice[n].is_published
            /\ \A e \in Editors : edit[e] # None =>
                 (edit[e].notice = n => edit[e].read \/ edit[e].withdraws))
             => notice'[n].published_at = notice[n].published_at

WhatWasSaidStands == [][Stands]_vars
===============================================================================
