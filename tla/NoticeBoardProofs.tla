--------------------------- MODULE NoticeBoardProofs ---------------------------
(***************************************************************************)
(* Proofs about NoticeBoard, for any school, notices, requests and days:   *)
(* typing, that whoever is counted can read, that a receipt proves what it *)
(* claims, and that what was said is not rewritten.                        *)
(***************************************************************************)
EXTENDS NoticeBoard, TLAPS

\* A request is of a notice there is.
EditsOfNotices == \A e \in Editors : edit[e] # None => notice[edit[e].notice] # None

\* A notice has its time from its first telling on, and never an earlier one.
ToldFirst ==
    \A n \in Notices :
        /\ told[n] # None => /\ notice[n] # None
                             /\ notice[n].published_at # None
                             /\ told[n] <= notice[n].published_at
        /\ notice[n] # None /\ notice[n].published_at # None =>
             told[n] # None /\ notice[n].published_at <= day

BoardInv == TypeOK /\ EditsOfNotices /\ ToldFirst

\* A page is of a notice that was in the feed, and only what was told gets there.
FeedsAreReached ==
    /\ \A n \in Notices, u \in Users : Visible(n, u) => <<n, u>> \in reached
    /\ \A p \in reached : told[p[1]] # None
    /\ opening \subseteq reached

NoticeInv == BoardInv /\ FeedsAreReached /\ ReceiptsAreEvidence

LEMMA DaysAreNumbers == Days \subseteq Int /\ 0 \in Days
  BY DayBound DEF Days

LEMMA InitInv == Init => NoticeInv
  BY NoneIsNull, DaysAreNumbers DEF Init, NoticeInv, BoardInv, TypeOK, EditsOfNotices, ToldFirst,
     FeedsAreReached, Visible, ReceiptsAreEvidence

-------------------------------------------------------------------------------
\* Every step but a parent's: no page or receipt is touched, a time that was told
\* stays, a notice stays, and the feeds are remembered.
Elsewhere ==
    /\ pages' = pages
    /\ \/ Reach
       \/ UNCHANGED vars
    /\ \A n \in Notices : notice[n] # None => notice'[n] # None
    /\ \A n \in Notices : told[n] # None => told'[n] = told[n]

LEMMA RollKeepsBoard ==
  ASSUME BoardInv, NextDay \/ Office
  PROVE  BoardInv' /\ Elsewhere
<1> USE NoneIsNull, DaysAreNumbers DEF BoardInv
<1>1. UNCHANGED <<notice, edit, told, opening, read_at>> /\ Reach
  BY DEF NextDay, Office, EnrollStudent, WithdrawStudent, UpdateStudent, LinkGuardian, board, pages
<1>2. /\ enrolled' \subseteq Students
      /\ room' \in [Students -> [Years -> Rooms \cup {None}]]
      /\ link' \subseteq Students \X Users
  BY DEF NextDay, Office, EnrollStudent, WithdrawStudent, UpdateStudent, LinkGuardian, roll, TypeOK
<1>3. day' \in Days /\ day <= day'
  BY DayBound DEF NextDay, Office, EnrollStudent, WithdrawStudent, UpdateStudent,
     LinkGuardian, TypeOK, Days
<1>4. reached' \subseteq Notices \X Users
  BY <1>1 DEF Reach, TypeOK
<1>5. TypeOK'
  BY <1>1, <1>2, <1>3, <1>4 DEF TypeOK
<1>6. EditsOfNotices'
  BY <1>1 DEF EditsOfNotices
<1>7. ToldFirst'
  BY <1>1, <1>3 DEF ToldFirst, TypeOK, Announcement
<1> QED
  BY <1>1, <1>5, <1>6, <1>7 DEF Elsewhere, pages

\* Staff: a draft, a request begun, and its end.
LEMMA StaffKeepsBoard ==
  ASSUME BoardInv, Staff
  PROVE  BoardInv' /\ Elsewhere
<1> USE NoneIsNull, DaysAreNumbers DEF BoardInv
<1>1. UNCHANGED <<day, enrolled, room, link, opening, read_at>> /\ Reach
  BY DEF Staff, CreateAnnouncement, OpenEdit, Publish, Unpublish, roll, pages
<1>2. reached' \subseteq Notices \X Users
  BY <1>1 DEF Reach, TypeOK
<1>3. SUFFICES /\ notice' \in [Notices -> Announcement \cup {None}]
               /\ \A n \in Notices : notice'[n] # None =>
                    (notice'[n].is_published => notice'[n].published_at # None)
               /\ edit' \in [Editors -> Edit \cup {None}]
               /\ told' \in [Notices -> Days \cup {None}]
               /\ EditsOfNotices'
               /\ ToldFirst'
               /\ \A n \in Notices : notice[n] # None => notice'[n] # None
               /\ \A n \in Notices : told[n] # None => told'[n] = told[n]
  BY <1>1, <1>2 DEF Elsewhere, pages, TypeOK
<1>4. ASSUME NEW n \in Notices, NEW audience \in Audience, NEW expires \in Days \cup {None},
             CreateAnnouncement(n, audience, expires)
      PROVE  <1>3!1
  <2> DEFINE new == [branch |-> IF audience = School THEN FirstBranch ELSE RoomAt[audience],
                     audience |-> audience, expires_on |-> expires,
                     is_published |-> FALSE, published_at |-> None]
  <2>1. new \in Announcement
    BY BranchesOfTheirOwn DEF Announcement, Audience
  <2>2. /\ notice[n] = None /\ notice' = [notice EXCEPT ![n] = new]
        /\ UNCHANGED <<edit, told>>
    BY <1>4 DEF CreateAnnouncement
  <2>3. told[n] = None
    BY <2>2 DEF ToldFirst
  <2>4. new.published_at = None /\ ~new.is_published
    OBVIOUS
  <2> HIDE DEF new
  <2> QED
    BY <1>1, <2>1, <2>2, <2>3, <2>4 DEF TypeOK, EditsOfNotices, ToldFirst
<1>5. ASSUME NEW e \in Editors, NEW n \in Notices, NEW withdraws \in BOOLEAN, OpenEdit(e, n, withdraws)
      PROVE  <1>3!1
  <2>1. /\ notice[n] # None /\ notice[n] \in Announcement
        /\ edit' = [edit EXCEPT ![e] =
             [notice |-> n, read |-> notice[n].is_published, withdraws |-> withdraws]]
        /\ UNCHANGED <<notice, told>>
    BY <1>5 DEF OpenEdit, TypeOK
  <2>2. [notice |-> n, read |-> notice[n].is_published, withdraws |-> withdraws] \in Edit
    BY <2>1 DEF Edit, Announcement
  <2> QED
    BY <1>1, <2>1, <2>2 DEF TypeOK, EditsOfNotices, ToldFirst
<1>6. ASSUME NEW e \in Editors, Publish(e) \/ Unpublish(e)
      PROVE  <1>3!1
  <2> DEFINE n == edit[e].notice
  <2>1. /\ edit[e] # None /\ edit[e] \in Edit /\ n \in Notices
        /\ notice[n] # None /\ notice[n] \in Announcement
        /\ edit' = [edit EXCEPT ![e] = None]
    BY <1>6 DEF Publish, Unpublish, TypeOK, Edit, EditsOfNotices
  <2>2. \/ UNCHANGED <<notice, told>>
        \/ /\ notice' = [notice EXCEPT ![n].is_published = TRUE, ![n].published_at = day]
           /\ told' = [told EXCEPT ![n] = IF told[n] = None THEN day ELSE told[n]]
        \/ /\ notice' = [notice EXCEPT ![n].is_published = FALSE]
           /\ UNCHANGED told
    BY <1>6 DEF Publish, Unpublish
  <2>3. day \in Days /\ notice[n].published_at \in Days \cup {None}
        /\ told[n] \in Days \cup {None}
    BY <2>1 DEF TypeOK, Announcement
  <2>4. CASE UNCHANGED <<notice, told>>
    BY <1>1, <2>1, <2>4 DEF TypeOK, EditsOfNotices, ToldFirst
  <2>5. ASSUME notice' = [notice EXCEPT ![n].is_published = TRUE, ![n].published_at = day],
               told' = [told EXCEPT ![n] = IF told[n] = None THEN day ELSE told[n]]
        PROVE  <1>3!1
    <3>1. /\ notice'[n] \in Announcement /\ notice'[n].published_at = day
          /\ \A m \in Notices : m # n => notice'[m] = notice[m] /\ told'[m] = told[m]
          /\ notice' \in [Notices -> Announcement \cup {None}]
      BY <2>1, <2>3, <2>5 DEF TypeOK, Announcement
    <3>2. /\ told' \in [Notices -> Days \cup {None}]
          /\ told'[n] = IF told[n] = None THEN day ELSE told[n]
      BY <2>1, <2>3, <2>5 DEF TypeOK
    <3>3. told'[n] # None /\ told'[n] <= day
      <4>1. CASE told[n] = None
        BY <2>3, <3>2, <4>1
      <4>2. CASE told[n] # None
        <5>1. notice[n].published_at # None /\ told[n] <= notice[n].published_at
              /\ notice[n].published_at <= day
          BY <2>1, <4>2 DEF ToldFirst
        <5>2. told[n] \in Int /\ notice[n].published_at \in Int /\ day \in Int
          BY <2>3, <4>2, <5>1
        <5>3. told[n] <= day
          BY <5>1, <5>2
        <5> QED
          BY <3>2, <4>2, <5>3
      <4> QED
        BY <4>1, <4>2
    <3>4. /\ edit' \in [Editors -> Edit \cup {None}]
          /\ \A m \in Notices : notice[m] # None => notice'[m] # None
          /\ EditsOfNotices'
      BY <2>1, <3>1 DEF TypeOK, EditsOfNotices, Edit
    <3>5. /\ ToldFirst'
          /\ \A m \in Notices : told[m] # None => told'[m] = told[m]
      BY <1>1, <2>1, <2>3, <3>1, <3>2, <3>3 DEF ToldFirst
    <3>6. \A m \in Notices : notice'[m] # None =>
            (notice'[m].is_published => notice'[m].published_at # None)
      BY <2>3, <3>1 DEF TypeOK
    <3> QED
      BY <3>1, <3>2, <3>4, <3>5, <3>6
  <2>6. ASSUME notice' = [notice EXCEPT ![n].is_published = FALSE], UNCHANGED told
        PROVE  <1>3!1
    <3>1. /\ notice'[n] \in Announcement /\ notice'[n].published_at = notice[n].published_at
          /\ ~notice'[n].is_published
          /\ \A m \in Notices : m # n => notice'[m] = notice[m]
          /\ notice' \in [Notices -> Announcement \cup {None}]
      BY <2>1, <2>6 DEF TypeOK, Announcement
    <3>2. /\ edit' \in [Editors -> Edit \cup {None}]
          /\ \A m \in Notices : notice[m] # None => notice'[m] # None
          /\ EditsOfNotices'
      BY <2>1, <3>1 DEF TypeOK, EditsOfNotices, Edit
    <3>3. ToldFirst' /\ told' \in [Notices -> Days \cup {None}]
      BY <1>1, <2>1, <2>6, <3>1 DEF ToldFirst, TypeOK
    <3>4. \A m \in Notices : notice'[m] # None =>
            (notice'[m].is_published => notice'[m].published_at # None)
      BY <3>1 DEF TypeOK
    <3> QED
      BY <2>6, <3>1, <3>2, <3>3, <3>4
  <2> QED
    BY <2>2, <2>4, <2>5, <2>6
<1> QED
  BY <1>4, <1>5, <1>6 DEF Staff

-------------------------------------------------------------------------------
\* What a parent's page writes: the page is of a notice in the feed, and a receipt
\* is written once, of the day, for a page that was open.
LEMMA ParentsKeepBoard ==
  ASSUME NoticeInv, Parents
  PROVE  /\ BoardInv'
         /\ Reach
         /\ UNCHANGED <<notice, told, day>>
         /\ opening' \subseteq reached
         /\ \A m \in Notices, v \in Users :
              \/ read_at'[m][v] = read_at[m][v]
              \/ read_at[m][v] = None /\ read_at'[m][v] = day /\ <<m, v>> \in reached
<1> USE NoneIsNull, DaysAreNumbers DEF NoticeInv, BoardInv
<1>1. UNCHANGED <<day, enrolled, room, link, notice, edit, told>> /\ Reach
  BY DEF Parents, OpenNotice, MarkRead, roll, board
<1>2. reached' \subseteq Notices \X Users /\ reached \subseteq reached'
  BY <1>1 DEF Reach, TypeOK
<1>3. /\ opening' \subseteq reached
      /\ read_at' \in [Notices -> [Users -> Days \cup {None}]]
      /\ \A m \in Notices, v \in Users :
           \/ read_at'[m][v] = read_at[m][v]
           \/ read_at[m][v] = None /\ read_at'[m][v] = day /\ <<m, v>> \in reached
  <2>1. ASSUME NEW n \in Notices, NEW u \in Users, OpenNotice(n, u)
        PROVE  <1>3
    BY <2>1 DEF OpenNotice, FeedFor, FeedsAreReached, TypeOK
  <2>2. ASSUME NEW n \in Notices, NEW u \in Users, MarkRead(n, u)
        PROVE  <1>3
    <3>1. /\ <<n, u>> \in opening /\ <<n, u>> \in reached
          /\ opening' = opening \ {<<n, u>>}
          /\ \/ read_at' = [read_at EXCEPT ![n][u] = IF read_at[n][u] = None THEN day ELSE read_at[n][u]]
             \/ UNCHANGED read_at
      BY <2>2 DEF MarkRead, FeedsAreReached
    <3>2. day \in Days /\ read_at[n] \in [Users -> Days \cup {None}]
      BY DEF TypeOK
    <3>3. CASE UNCHANGED read_at
      BY <3>1, <3>3 DEF FeedsAreReached, TypeOK
    <3>4. CASE ~UNCHANGED read_at
      <4> DEFINE receipt == IF read_at[n][u] = None THEN day ELSE read_at[n][u]
                 row == [read_at[n] EXCEPT ![u] = receipt]
      <4>1. read_at' = [read_at EXCEPT ![n] = row] /\ receipt \in Days \cup {None}
        BY <3>1, <3>2, <3>4
      <4>2. /\ row \in [Users -> Days \cup {None}] /\ row[u] = receipt
            /\ \A v \in Users : v # u => row[v] = read_at[n][v]
        BY <3>2, <4>1
      <4> HIDE DEF row
      <4>3. /\ read_at' \in [Notices -> [Users -> Days \cup {None}]]
            /\ read_at'[n] = row
            /\ \A m \in Notices : m # n => read_at'[m] = read_at[m]
        BY <4>1, <4>2 DEF TypeOK
      <4>4. opening' \subseteq reached
        BY <3>1 DEF FeedsAreReached
      <4> QED
        BY <3>1, <4>2, <4>3, <4>4
    <3> QED
      BY <3>3, <3>4
  <2> QED
    BY <2>1, <2>2 DEF Parents
<1>4. TypeOK'
  BY <1>1, <1>2, <1>3 DEF TypeOK
<1>5. EditsOfNotices' /\ ToldFirst'
  BY <1>1 DEF EditsOfNotices, ToldFirst
<1> QED
  BY <1>1, <1>3, <1>4, <1>5

\* Once the board is right again, so are the feeds and the receipts, whoever moved.
LEMMA FeedsFollow ==
  ASSUME NoticeInv, BoardInv',
         Reach \/ UNCHANGED vars,
         opening' \subseteq reached \cup opening,
         \A n \in Notices : told[n] # None => told'[n] = told[n],
         \A m \in Notices, v \in Users :
           \/ read_at'[m][v] = read_at[m][v]
           \/ told'[m] = told[m] /\ read_at'[m][v] = day /\ <<m, v>> \in reached
  PROVE  FeedsAreReached' /\ ReceiptsAreEvidence'
<1> USE NoneIsNull, DaysAreNumbers DEF NoticeInv, BoardInv
<1>1. reached \subseteq reached'
  BY DEF Reach, vars
<1>2. \A n \in Notices, u \in Users : Visible(n, u)' => <<n, u>> \in reached'
  <2>1. CASE Reach
    BY <2>1 DEF Reach
  <2>2. CASE UNCHANGED vars
    BY <2>2 DEF vars, roll, board, Visible, RoomsOf, ChildrenOf, FeedsAreReached
  <2> QED
    BY <2>1, <2>2
<1>3. \A n \in Notices, u \in Users : Visible(n, u)' => told'[n] # None
  BY DEF Visible, ToldFirst, TypeOK
<1>4. \A p \in reached' : told'[p[1]] # None
  <2>1. \A p \in reached : told'[p[1]] # None
    BY DEF FeedsAreReached, TypeOK
  <2>2. CASE Reach
    BY <1>3, <2>1, <2>2 DEF Reach
  <2>3. CASE UNCHANGED vars
    BY <2>1, <2>3 DEF vars
  <2> QED
    BY <2>2, <2>3
<1>5. FeedsAreReached'
  BY <1>1, <1>2, <1>4 DEF FeedsAreReached
<1>6. ReceiptsAreEvidence'
  <2> SUFFICES ASSUME NEW n \in Notices, NEW u \in Users, read_at'[n][u] # None
               PROVE  /\ <<n, u>> \in reached'
                      /\ told'[n] # None
                      /\ told'[n] <= read_at'[n][u]
                      /\ notice'[n] # None
                      /\ notice'[n].published_at # None
                      /\ told'[n] <= notice'[n].published_at
    BY DEF ReceiptsAreEvidence
  <2>1. <<n, u>> \in reached' /\ told'[n] # None
    BY <1>1, <1>4 DEF ReceiptsAreEvidence
  <2>2. told'[n] <= read_at'[n][u]
    <3>1. CASE read_at'[n][u] = read_at[n][u]
      BY <3>1 DEF ReceiptsAreEvidence
    <3>2. CASE told'[n] = told[n] /\ read_at'[n][u] = day
      <4>1. told[n] # None /\ notice[n] # None /\ notice[n] \in Announcement
            /\ told[n] <= notice[n].published_at /\ notice[n].published_at <= day
            /\ notice[n].published_at # None
        BY <2>1, <3>2 DEF ToldFirst, TypeOK
      <4>2. told[n] \in Int /\ notice[n].published_at \in Int /\ day \in Int
        BY <4>1 DEF TypeOK, Announcement
      <4>3. told[n] <= day
        BY <4>1, <4>2
      <4> QED
        BY <3>2, <4>3
    <3> QED
      BY <3>1, <3>2
  <2> QED
    BY <2>1, <2>2 DEF ToldFirst
<1> QED
  BY <1>5, <1>6

LEMMA NextInv == NoticeInv /\ [Next]_vars => NoticeInv'
<1> SUFFICES ASSUME NoticeInv, [Next]_vars PROVE NoticeInv'
  OBVIOUS
<1>1. ASSUME BoardInv', Elsewhere PROVE NoticeInv'
  BY <1>1, FeedsFollow DEF Elsewhere, NoticeInv, pages
<1>2. CASE NextDay \/ Office
  BY <1>1, <1>2, RollKeepsBoard DEF NoticeInv
<1>3. CASE Staff
  BY <1>1, <1>3, StaffKeepsBoard DEF NoticeInv
<1>4. CASE Parents
  BY <1>4, ParentsKeepBoard, FeedsFollow DEF NoticeInv
<1>5. CASE UNCHANGED vars
  <2>1. BoardInv' /\ Elsewhere
    BY <1>5 DEF vars, roll, board, pages, NoticeInv, BoardInv, TypeOK, EditsOfNotices, ToldFirst,
       Elsewhere
  <2> QED
    BY <1>1, <2>1
<1> QED
  BY <1>2, <1>3, <1>4, <1>5 DEF Next

THEOREM NoticeInvariant == Spec => []NoticeInv
<1>1. Init => NoticeInv
  BY InitInv
<1>2. NoticeInv /\ [Next]_vars => NoticeInv'
  BY NextInv
<1> QED
  BY <1>1, <1>2, PTL DEF Spec

-------------------------------------------------------------------------------
\* Types, and that a published notice has its time.
THEOREM NoticeTypeCorrect == Spec => []TypeOK
BY NoticeInvariant, PTL DEF NoticeInv, BoardInv

\* A child of the audience is a child the feed's query finds, and the day a notice
\* has not passed is one it is shown on.
LEMMA CountedIsServed == TypeOK => AudienceIsServed
<1> SUFFICES ASSUME TypeOK, NEW n \in Notices,
                    notice[n] # None, notice[n].is_published, ~HasExpired(n),
                    NEW u \in AudienceUsers(n),
                    read_at[n][u] = None
             PROVE  n \in Unread(u)
  BY DEF AudienceIsServed, AudienceUsers
<1>1. PICK c \in ChildrenOf(u) : /\ HomeOf[c] = notice[n].branch
                                 /\ notice[n].audience \in {School} \cup RoomsOf(c)
  BY DEF AudienceUsers, AudienceStudents
<1>2. notice[n].audience \in {School} \cup UNION {RoomsOf(d) : d \in ChildrenOf(u)}
  BY <1>1
<1>3. notice[n] \in Announcement
  BY DEF TypeOK
<1>4. notice[n].expires_on # None => notice[n].expires_on >= day
  <2>1. day \in Int /\ (notice[n].expires_on # None => notice[n].expires_on \in Int)
    BY <1>3, DaysAreNumbers DEF Announcement, TypeOK
  <2> QED
    BY <2>1 DEF HasExpired
<1>5. Visible(n, u)
  BY <1>1, <1>2, <1>4 DEF Visible
<1> QED
  BY <1>5 DEF Unread, FeedFor

\* Whoever the office is told a notice is addressed to has opened it or finds it
\* waiting.
THEOREM CountedCanRead == Spec => []AudienceIsServed
BY NoticeTypeCorrect, CountedIsServed, PTL

\* A receipt is of a notice that was in that feed, and no older than the telling.
THEOREM ReceiptsProve == Spec => []ReceiptsAreEvidence
BY NoticeInvariant, PTL DEF NoticeInv

\* Receipts are written where there is none, and a time by a publish that read a
\* draft.
LEMMA NothingIsRewritten == NoticeInv /\ [Next]_vars => Stands
<1> USE NoneIsNull DEF NoticeInv, BoardInv
<1> SUFFICES ASSUME NoticeInv, [Next]_vars, NEW n \in Notices
             PROVE  /\ \A u \in Users : read_at[n][u] # None => read_at'[n][u] = read_at[n][u]
                    /\ (/\ notice[n] # None
                        /\ notice[n].is_published
                        /\ \A e \in Editors : edit[e] # None =>
                             (edit[e].notice = n => edit[e].read \/ edit[e].withdraws))
                         => notice'[n].published_at = notice[n].published_at
  BY DEF Stands
<1>1. CASE NextDay \/ Office \/ UNCHANGED vars
  BY <1>1 DEF NextDay, Office, EnrollStudent, WithdrawStudent, UpdateStudent, LinkGuardian,
     board, pages, vars
<1>2. CASE Parents
  BY <1>2, ParentsKeepBoard
<1>3. CASE Staff
  <2>1. read_at' = read_at
    BY <1>3 DEF Staff, CreateAnnouncement, OpenEdit, Publish, Unpublish, pages
  <2>2. ASSUME NEW m \in Notices, NEW audience \in Audience, NEW expires \in Days \cup {None},
               CreateAnnouncement(m, audience, expires), notice[n] # None
        PROVE  notice'[n] = notice[n]
    BY <2>2 DEF CreateAnnouncement, TypeOK
  <2>3. ASSUME NEW e \in Editors, NEW m \in Notices, NEW withdraws \in BOOLEAN,
               OpenEdit(e, m, withdraws)
        PROVE  notice' = notice
    BY <2>3 DEF OpenEdit
  <2>4. ASSUME NEW e \in Editors, Publish(e) \/ Unpublish(e), notice[n] # None,
               edit[e].notice = n => edit[e].read \/ edit[e].withdraws
        PROVE  notice'[n].published_at = notice[n].published_at
    <3>1. notice[n] \in Announcement /\ edit[e] # None
      BY <2>4 DEF TypeOK, Publish, Unpublish
    <3>2. CASE edit[e].notice # n
      BY <2>4, <3>1, <3>2 DEF Publish, Unpublish, TypeOK
    <3>3. CASE edit[e].notice = n
      BY <2>4, <3>1, <3>3 DEF Publish, Unpublish, TypeOK, Announcement
    <3> QED
      BY <3>2, <3>3
  <2>5. \A e \in Editors : Publish(e) \/ Unpublish(e) => edit[e] # None
    BY DEF Publish, Unpublish
  <2> QED
    BY <1>3, <2>1, <2>2, <2>3, <2>4, <2>5 DEF Staff
<1> QED
  BY <1>1, <1>2, <1>3 DEF Next

\* No receipt is rewritten, and the time of a published notice changes only by a
\* request that had read it as a draft.
THEOREM WhatWasSaidIsKept == Spec => WhatWasSaidStands
<1>1. NoticeInv /\ [Next]_vars => Stands
  BY NothingIsRewritten
<1> QED
  BY <1>1, NoticeInvariant, PTL DEF Spec, WhatWasSaidStands
===============================================================================
