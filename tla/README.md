# Aaroham in TLA+

A verification project for the Aaroham preschool platform: TLA+ modules that model
the parts of the program whose correctness depends on the order in which things
happen, TLC configurations that model-check them on small instances, and theorems
about them that TLAPS proves for every size.

Read `PROJECT.json` beside this file for the definition-by-definition map to the
source lines, the list of runs with the properties each checks, the mutants that show
each property can fail, the findings and the hazards.

## 1. The system

Aaroham is a Django 5.2 application in front of one Postgres database and one private
Cloudflare R2 bucket. Four kinds of process run beside each other:

- **web requests** from office staff, teachers and parents;
- **a `db_worker`** of `django-tasks`, which builds thumbnails;
- **management commands** started by hand or by cron on the server
  (`reconcile_uploads`, `prune_media`, `backup_database`);
- **browsers**, which send a photograph's bytes to R2 directly and then tell Django.

Three facts about the platform shape every model. The database runs at READ COMMITTED
and `ATOMIC_REQUESTS` is off, so a *service function* is a transaction but a *request*
is not: what a view read before it calls a service may be stale when the service
writes. Almost no service locks what it reads (`enroll_student` is the exception). And
the database and the bucket share no transaction, so every operation on both is a
sequence of steps which may end between any two of them.

### Inventory

| component | state | operations | hard behaviour | correct when |
|---|---|---|---|---|
| Photographs and their storage | `MediaAsset` rows (`upload_state`, `key`, `thumbnail_key`), bucket objects, the task queue | `upload_url`, browser PUT, `confirm_upload`, `build_thumbnail`, `reconcile_uploads`, `forget_media`, `orphan_objects`/`delete_objects` | two stores, no shared transaction; lost confirms; a worker and three commands on snapshots; every command may die midway | rows tell the truth about the bucket; erasure leaves nothing; the sweep takes nothing that is claimed; no row waits for ever |
| Consent and the photo feed | `Consent` per account, `MediaTag`, `is_published` | `record_consent`, `tag`/`untag`, `publish_media`, `publish_day`, `feed_for_child_of` | the publish gate is read, then the flag is written; two implementations of the rule | a refusal empties every feed at once; nothing is shown on silence; both implementations agree |
| Families and accounts | `Guardian`, `User`, `StudentGuardian` | `admit_family`, `create_guardian`, `link_guardian`, the admin's unlinking, `update_guardian`, `create_portal_account` | accounts are found by phone number at the moment of creation | an account's answers are its guardian's |
| Retention and erasure | enrolment rows, tags, dates | `media_expired_by_retention`, `erase_student_media`, `prune_expired_media` | lists are read once and worked through slowly; commands fail and are run again | the sweep deletes what the rule names; erasure can be repeated and spares other children |
| Enrolment roll | `Enrollment` (`left_on`), `Student.status` | `enroll_student`, `withdraw_student`, `update_student` | two records of one fact; one open row per academic year, and so perhaps two | no row is rewritten; the rows tell each reader where the child was |
| Activity diary and incidents | `ActivityEntry`, `IncidentReport` | `record_entry`, `publish_entries`, `report_incident`, `acknowledge_incident` | a list read, then updated; the acknowledgement decided on a stale row; a diary read off enrolment dates | a family sees its child's days and no others; entries published once; the first acknowledgement stands |
| Announcements | `Announcement`, `AnnouncementRead` | `create_announcement`, `publish`, `unpublish`, `mark_read`, `feed_for`, `audience_size` | check-then-stamp; audience and feed are different queries | whoever is counted can read; a receipt is evidence; what was said is not rewritten |
| Attendance and pickup | `AttendanceRecord`, `PickupRecord`, `AuthorizedPickup` | `mark`, `mark_all_present`, `mark_holiday`, `release_*` | snapshot then upsert; pages left open over midnight; children who change rooms | a teacher's mark is not overwritten by a bulk one; a child leaves with somebody on its list for the day, or with a name and a reason; one collector per record |
| Admissions queue | `Enquiry` | the contact form, `EnquiryAdmin`, `convert_enquiry`, `admit_family` | the admitted check precedes the transaction; families are found by a telephone number as it is written | one child per enquiry; the queue is what is still to be done |
| Accounts and credentials | `User.password`, `last_login` | `issue_set_password_token`, `resolve_set_password_token`, `set_password`, `rehash_password`, `invalidate_password`, the admin's two screens | check and use of the link in two transactions; a command and a form writing from rows they read | one password per link, but for a column an admin form puts back; the last password somebody set works |
| Portal unread badge | a session timestamp | `mark_feed_visited`, `portal_unread` | stamped beside the read, not by it | a new photograph is counted until seen; nothing is counted that the feed withholds |
| Backups | dumps in the bucket | `run_backup`, `prune_old_backups` | prune after upload | the newest good dump survives |
| Reports and dashboards | none | `attendance_today`, `absent_today`, `month_register`, `enrolment_trend`, `recent_photo_activity` | arithmetic at zero and on holidays; several reports of one fact | figures that agree with each other and with the rows |
| Local uploads | as photographs, on disk | `store_upload_locally` | no reconciliation | as photographs |
| Staff scoping, website and marketing, Turnstile, admin site, pages and service worker, deployment | configuration and content | | | |

Components call each other as functions in one direction: views → services →
integrations; website → people → core; activities reads people and core. They interact
through shared rows: an enrolment row opened by *people* decides what *activities*
prunes; an answer given at admission decides what *activities* shows; a tag set by a
teacher decides what an erasure deletes. There are two callbacks: `transaction.on_commit`
in `confirm_upload`, which queues a thumbnail job, and the job itself.

## 2. The modules

| module | what it is |
|---|---|
| `Common` | the children, the calendar and NULL, for the modules that read the roll |
| `PhotoStore` | one photograph in two stores: browser, worker, reconciliation, erasure, orphan sweep |
| `UploadPromise` | what the school is promised about a photograph; implemented by `PhotoStore` |
| `ConsentGate` | families, accounts, answers, tags, publish requests and feeds |
| `Retention` | enrolments, tags and dates, and the commands that select and delete photographs |
| `Register` | attendance: single marks, the one-tap mark of a room, the grid, children who change rooms, and the reports of the days and months |
| `Door` | who collects a child: releases, corrections, and the lists the office edits |
| `NoticeBoard` | notices, the parents' feed, receipts, and the audience read off the roll |
| `Admissions` | enquiries, walk-ins, and the screen that turns either into a child, a guardian and a login |
| `Credentials` | the password column, set-password links, sign-ins, the admin's two screens, and the repair command |
| `Diary` | the written day, the family's diary off the enrolment rows, incidents and their acknowledgement, the enrolment trend |
| `Roll` | the roll as the rest of the school takes it: where a child is, has been and when it last left; implemented by `Diary` |
| `PhotoStoreProofs`, `ConsentGateProofs`, `RetentionProofs`, `AttendanceProofs` (of `Register` and `Door`), `NoticeBoardProofs`, `AdmissionsProofs`, `CredentialsProofs`, `DiaryProofs` | theorems and proofs |
| `MCPhotoStore`, `MCConsentGate`, `MCRetention`, `MCRegister`, `MCDoor`, `MCNoticeBoard`, `MCAdmissions`, `MCCredentials`, `MCDiary` | the symmetry sets and structured constants for TLC; the `.cfg` files give the rest |

The modules divide the database between them. Enrolment rows, guardians and links appear
in several, in each with the operations that change them and at the detail its readers
use: Diary needs a row's two dates, Retention the last departure, NoticeBoard the room
and the status. In every module a request that reads and then writes is two or three
actions, and the record it holds between them is a variable (`tap`, `post`, `edit`,
`answer`, `visit`, `job`).

### PhotoStore

`row[m]` is `upload_state` (with `none` before the row exists and `gone` after it is
deleted), `thumbKey` the rows with a `thumbnail_key`, `store` the bucket with the age of
each object as the orphan listing sees it. `browser[m]` follows `uploadOne` in
`photo-upload.js`; `queue` and `worker` are the task queue and the `db_worker`s;
`reconciling` is the loop of `reconcile_uploads` with what `exists()` answered for the
row in hand; `forgetting` the position of `forget_media` in each selected row, and
`staleThumb` which of those rows were *read* with a thumbnail key; `sweepStep` and
`sweepKeys` the orphan sweep. A service's database write is one step; each bucket call
is one step; between two steps of one process anything else may happen, and
`AbortReconcile`, `AbortForget`, `WorkerDies` and `EndSweep` end a process where it is.

Two history variables state properties and are read by no action's guard: `removed`,
the keys somebody deleted on purpose since they were last written, and `late`, the
uploads that landed after an erasure had passed their object. The exception `late`
makes is real: a PUT granted before the erasure and still valid lands in an
erased photograph's key. `removed` keeps "a STORED row has its object" meaningful while
an erasure is between its object and its row.

`UploadPromise` has one variable, `status`. `PhotoStore!Status` maps the row and the two
histories to it: a row is `pending`, `kept` or `failed` by its state, `erasing` from the
first delete of `forget_media` on, and `erased` once the row is gone. The promise says
what a caller may rely on: a settled photograph does not change its answer.

### ConsentGate

Accounts are named by the phone number they were created with, since `create_account`
is `get_or_create` on phone; `user[g]` is `Guardian.user`. `answer[u]` is the latest
`Consent` row of an account per purpose; `said[g]` is a history variable, what guardian
`g` last answered in person. `repointed` is a history variable too: the guardians whose
account changed under the answers, by `create_portal_account` after a change of number.
`onFile` are the children with a row, whether or not they have a guardian left:
`UnlinkGuardian` is the operator's inline on a child's page, which may take the last one.
The gate is written twice as the code writes it: `IsPublishable` is the staff's loop,
`HasBlockedTag` the feed's query. A publish request is `todo`/`drafts`/`passed`: the
photographs still to do, those it loaded as drafts, and the one whose gate it has read and
whose save is to come. `publish_day` reads its photographs with their tags prefetched
(`ListDay`), and `media.tags.exists()` is answered from that reading ever after, while the
answers are asked of the database: `prefetched` are the listed photographs that had a tag,
so that one whose last tag was removed since is published with none. The feed finds
photographs by their tags and shows it to nobody.

`TaggableStudents` is the tagging screen, which marks the children that keep a photograph
back, and `Unread` the count of the parents' badge. The badge's last visit is a stamp in
one browser's session, so the operator is given the photographs published since it, and
`BadgeIsTrue` asks its question of every set of them.

### Retention

`open` holds the enrolment rows without `left_on`, `lastLeft` the latest `left_on` of a
child's closed rows: no rule asks for more. `StudentsGoneSince` and `MediaExpired` are
the two queries, the aggregate with its `exclude` and the double negative over tags;
`DepartureDate` and `OutOfTime` are the rule as `departure_date` and the module's note
tell it. `job[o]` is one `prune_media --commit`: the child it erases or None for the
sweep, and what is left of its list. `owed` is a history variable: what an erasure found
to show only its child. `leftSince` is another: when the status was last set to left.
A photograph's deletion is one step here; PhotoStore is its detail.

`NotBeingErased` is an assumption about people: a family's erasure request is worked by
one operator at a time. Several requests and sweeps may run beside each other.

### Register

`record[s][d]` is the `AttendanceRecord` of a child and a day: its status and the room
it was taken in. `room[s][y]` is the room of the child's open enrolment row of an
academic year. `enroll_student` closes the open row of the same year and no other, and
`roster` asks for no year, so that a child may stand on two sheets. `Mark` takes any
room: the page may be of a room the child is no longer in. `tap[t]` is one "Mark the
remaining ... present": the view checks the date and lists the room (`AllPresent`), the
service asks who has a record (`ReadAlready`), its transaction commits (`WriteRest`), or
the worker dies first (`AbortTap`). `marked` is a history field of the request, who of
its room had a record when the button was pressed; no guard reads it. A mark made for
one of the rest *after* the service has asked is written over: the docstring speaks of
the work done before the tap, and `MorningKept` is that promise.

`DaySheet` and `Unmarked` are the grid and its count. Five reports read the same records:
`AttendanceToday` and `AbsentToday` for a day, `StudentMonthSummary` for a parent,
`MonthRegister` for the printed register and `ClassroomMonthReport` for a room; the month
is the calendar of the model. A rate is the pair of its numbers, and its rounding to a
tenth of a percent is left out: the shares of two months of 31 days differ by more.

### Door

`released[r]` is the `PickupRecord` against an attendance record `r`, which is a child
and a day; `AuthorizedPickup` and `PickupRecord` are the rows their check constraints
admit. `post[q]` is a request of the pickup page: the record, the guardians and the
pickup rows *as the view read them*, from which the form's choices are built. The three
releases check what the code checks: `ReleaseToAuthorized` the window and the child on
the row in memory, `ReleaseToGuardian` the link as it is now, `ReleaseWithOverride` a
name and a reason. Every one ends in `WritePickup`, which sets every field of the one
row. `onList[q]` is a history variable: who was on the child's list for the record's day
at some time while `q` was at work. `ReleasedByRight` is about that and not about the
moment of the write, because an authorisation withdrawn between the two is used, and the
code does not promise otherwise.

### NoticeBoard

`notice` is the `Announcement` row, `edit` the staff requests with the `is_published`
they read, `opening` the pages of parents between the feed and the receipt, `read_at`
the receipts. `Visible` is the feed's query, `AudienceUsers` the office's count: two
queries over `enrolled`, `room` and `link`, which the office changes at any time; `room`
is per academic year, as in Register, and a child of two open rows is of both audiences.
`told` and `reached` are history variables, the first telling of a notice and the feeds
it was in.

### Admissions

A `Phone` is a number and the way it is written, since guardians and accounts are
matched by the string: digits before the number, and whether there is anything else
between them. `CleanPhone` is the public form's, step by step: everything but digits
goes, then a leading 91 of twelve digits, then leading zeros (`Plain`, `WithoutCode`,
`WithoutZeros`), and what is not ten digits is refused (`IsTenDigits`). The order of the
steps matters: +91 and 0 are each accepted, 0091 is refused. The admission form does
nothing of the kind. `post[q]` is a request of the admission screen, `OpenConvert` or
`OpenWalkIn` until `Admit`, which is the transaction `admit_family` or
`convert_enquiry`. History: `overlapped`, the enquiries two requests were converting at
once, `byHand`, those an operator edited in the admin (any status, any phone), and in a
child's row the enquiry it came from.

### Credentials

`user[u]` is the password column. A token is made from the column, `last_login` and the
day, so `link[l]` holds the three it was made from, and `Resolves` compares; `stamp`
tells apart the values a column has had. `visit[v]` is a request that has checked a link
and is about to set a password, `repair[o]` a command with the rows it listed.

`form[f]` is what an operator has in hand: the form of an account, open with the
`last_login` it shows (an editable field) and then posted, with the row the request read;
or the change-password screen, posted. Both end in a `user.save()` of the whole row. The
screen writes a fresh column, so that only its `last_login` is old; the form puts back the
column it read as well (`SaveForm`), and with it whatever was made from that column. The
database cannot tell: Django's admin locks nothing.

`dead` is a history variable, the links that lay unopened when the password changed, and
`revived` another, those made from a column that a form has put back. `raced` are the
accounts a command or a form wrote to after they had changed. `writes` counts the
passwords an account was given and stands for the salt: a new column is never one of the
account's earlier ones, unless it is put back.

### Diary

`rows` are enrolment rows with their academic year and both dates, `entry` the
`ActivityEntry` rows, about a child or about a room. `RoomEntriesFor` is the query that
matches a room's entries with the row that was open on the day; `was` is the history it
is compared with. `publish` is what a `publish_day` has listed and has yet to update,
`answer` what an acknowledge has read of the report and has yet to save. `overlapped`
are the incidents two guardians were acknowledging at once. Reports of incidents and
quick entries are the whole handlers. `EnrolmentTrend` is the dashboard's month of
joiners and leavers, and `IncidentsForChild` what a guardian may read.

`Roll` is what the enrolment rows come to for a reader who has never seen one, which is
how Register, NoticeBoard and Retention keep them. `RoomOf`, `BeenIn` and `LastLeft` map
the rows to it, the first for each academic year: `KeepsRoll` says that opening and closing
rows is entering and leaving rooms, that a move within a year leaves one room and enters
another on the same day, that it leaves the other years' rooms alone, and that withdrawing
leaves them all.

## 3. The runs

| run | instance | shows |
|---|---|---|
| `photos_safety` | 2 photographs, 1 worker, windows 0 and 1, 1 queued job | the four invariants about rows and objects, typing, and refinement of `UploadPromise`, under every interleaving and interruption |
| `photos_settle` | 1 photograph, 2 workers, windows 1 and 2, 2 queued jobs | no PENDING row is left behind |
| `photos_erasure` | 1 photograph | **violated**: a thumbnail outlives its row |
| `consent_gate` | 2 children, 2 guardians, 2 numbers, 1 photograph, 1 request | agreement of the loop, the query, the tagging screen and the badge, refusal honoured, nothing shown on silence, only an answer lifts a refusal |
| `retention_rule` | 2 children, 2 years, 1 photograph, 3 days, window 1 | the queries are the rule; a dry run stays true |
| `retention_runs` | 1 child, 2 photographs, 2 commands | a failed erasure is repeatable; no expired photograph is overlooked |
| `register` | 2 children, 2 rooms, 2 years, 2 days, 1 request | the one tap keeps what was there and leaves nobody of its sheet out; four reports of the same days agree |
| `door` | 2 children with a record each, on 2 days, 1 guardian, 1 pickup, 2 requests | a release is by right; a corrected record has one story; screen and service agree |
| `notice_board` | 1 notice, 2 children at 2 branches, 2 years, 1 account, 2 requests, 3 days | whoever is counted can read; receipts are evidence; what was said stands |
| `admissions` | 2 enquiries and walk-ins, 2 children, 1 number written 3 ways, 2 requests | one child per enquiry; the queue tells the truth |
| `credentials` | 1 account, 2 links, 2 requests, 1 command, 1 admin form, 2 words, 2 days | one password per link and dead links stay dead, but for a column put back; the last word works |
| `diary` | 1 child, 2 rooms, 2 years, 3 enrolment rows, 1 guardian, 1 entry, 1 incident, 2 publishes, 2 acknowledgements, 2 days | the diary is the family's; first words stand; the rows are a roll; no row is rewritten |

**Why these bounds are enough to be interesting.** The properties of PhotoStore speak of
one photograph at a time; photographs meet only in the loops of the three commands
(which row is in hand, which list is dropped), and two are needed for that. One worker
reaches every state of a job; a second adds only a double job for one photograph, which
`photos_settle` has. The windows matter only by their order, `LastPut < ReconcileAge`.
The consent rule is "every guardian of every tagged child", so two children with two
guardians and links in any shape are the least that tells it from "some"; two numbers
are the least that can be exchanged. The retention rule is "every tagged child", with
the greatest departure over several rows: two children, two years, and three days with
a window of one put departures before, on and after the cutoff. The one tap needs one
child of its roster with a record and one without, a room to come from, and a yesterday
outside the window (`Window` is 0, so that only an administrator may go back), and two
years for a child on two sheets; `Marks` are the half day and the holiday, on which the
reports could differ, beside the `present` the tap writes.

At the door, requests for one child and for another meet in the lists only, and a pickup
may be moved from one child to the other; two records on two days put a window before,
on and after each. One notice suffices: no definition compares two. Its family has a
child at each branch, so that a room, a branch and a school-wide audience differ, and
three days put publication, expiry and the day after in one behaviour. One number, as it
is, with +91 and with 0091, is accepted in two of its writings and refused in the third,
and matched by none of them to another; two requests of two enquiries overlap on one or on
different ones. `MaxWrites` 2, on an account that already has a password, lets it be set
through both links, or twice through one once a form has put the first column back; with
`Timeout` 0 and two days a link dies of age as well, and with two sign-ins of a last_login
that was put back. The diary's two days are a move and a return, its three rows a
row of another year besides; a second child would share nothing with the first but the room.

Where symmetry is used (children, rooms, years, photographs, guardians, numbers, links,
requests) no definition tells the members apart; the liveness runs use none.

**The bounds, by name.** `MaxJobs` caps the thumbnail jobs queued for one photograph
(beyond it a further enqueue is dropped, which is also what a queue that is down does);
`ReconcileAge` caps the age that is counted; `LastDay` ends the calendars; `MaxWrites`
and `MaxLogins` cap the writes of a password and the sign-ins of an account, `MaxRows`
the enrolment rows of the diary. At the last day the calendar stops and everything else
goes on, so no run needs deadlock checking switched off.

**Fairness.** PhotoStore assumes weak fairness of time (`Tick`) and of nothing else. The
repository contains no schedule for `reconcile_uploads` or `prune_media` (its notes say
cron, and the dashboard's comment, `apps/reports/selectors.py:166`, says there is none
yet), so none is assumed: `PendingSettles` and `ExpiredIsPruned` have the completed runs
as their hypothesis, "if runs keep completing". A run that aborts completes nothing, so
a row that poisons every run is outside the promise, as it is in the code.

## 4. What does not hold

The run `photos_erasure` ends in a counterexample, against the erasure note of
`services.py`: `build_thumbnail` reads the row, downloads, uploads and only then saves;
`forget_media` deletes the thumbnail key the row was read with. A job that began before
the erasure uploads a thumbnail of the erased photograph after it; the save fails, the
object stays until an orphan sweep.

Eight more sentences of the repository are stated as definitions that do not hold, each
with a configuration that produces the trace (`tlc -config MCConsentGateAccounts.cfg
MCConsentGate`, and so on). They are kept outside the list of runs:

| configuration | definition | against | trace |
|---|---|---|---|
| `MCConsentGateAccounts.cfg` | `AnswersAreTheirOwn` | `Consent`: "a record of a specific answer" | `create_portal_account` points the guardian at whatever account has the number now on the record: a refusal on the old account no longer counts, or another person's answers do |
| `MCConsentGateDay.cfg` | `DayIsNotStranded` | `publish_day`: one missing consent "would strand the other twenty" | the photographs found ready are published one by one; the first that became blocked meanwhile, here because a guardian was unlinked, raises, nothing catches it, and the rest stay drafts |
| `MCRetentionOthers.cfg` | `SparesTheOthers` | `erase_student_media`: a shared photograph is not deleted | the list is read once; a child tagged in a photograph further down the list loses it |
| `MCRetentionLeavers.cfg` | `LeaversExpire` | the retention note: "a year after a child leaves" | the student form sets `status` and closes no enrolment row; `withdraw_student`, which closes them, is called by no view; retention reads rows |
| `MCRegisterMoved.cfg` | `UnmarkedHaveNothing` | `unmarked_count`: "still have nothing recorded" | the grid looks for records taken in its own room, the one tap for records in any: a child marked on another room's page, as one is that moves at noon or is enrolled for two years, is unmarked on this sheet, and "Mark the remaining 1 present" marks nobody |
| `MCDiaryTrend.cfg` | `LeaversHaveLeft` | `enrolment_trend`: "children who joined and left" | a move closes one enrolment row and opens another: the child is among the month's leavers and its joiners, and was in school all along |
| `MCAdmissionsFamilies.cfg` | `FamiliesStayTogether` | `create_guardian`: "two guardian rows then split one family's children across two portal accounts" | it matches on the string, and only the public form cleans it: the office writes one number plain and later with +91, and the second child's guardian is a second row with a second account |
| `MCCredentialsRevived.cfg` | `SpentLinksStaySpent` | `issue_set_password_token`: "the moment a password is set the token stops validating" | an operator's form of the account is posted, and its row read, before the link is used and saved after: the old column is back, the new password is lost, and the link sets another |

One more configuration is kept outside the list because it passes: `MCDiaryRoll.cfg` gives
a child three rooms, two years, four rows and three days with nothing written about them,
and checks there what DiaryProofs proves, `KeepsRoll` and `HistoryStands` of the enrolment
rows, and `TrendMissesNobody`.

Some promises hold only outside a window the code leaves open. The property then names
the window as an exception, and a history variable says when it was entered:

- `publish` "keeps the FIRST publication time" (`announcements/services.py`) for a notice
  that stays published. Withdrawn and published again, or published by two requests that
  both read a draft, it is stamped again; `WhatWasSaidStands` allows that and no more.
- `enquiry_convert` refuses "a double-click, a back-then-resubmit". Two posts that both
  read the enquiry before either commits admit two children: `overlapped` in Admissions.
- "The first acknowledgement stands" (`acknowledge_incident`) unless two guardians read
  the report before either saves; then the second is on record: `overlapped` in Diary.
- "No window where a forwarded link still works" (`issue_set_password_token`): two
  requests that both checked the link set a password each: `overlapped` in Credentials.
  A link that a password killed works again once an admin form puts back the column it was
  made from: `revived`. One that a sign-in killed works again once a form puts back
  `last_login`, whose value the form shows from the moment it was opened; it had set no
  password, so that no property needs the exception.
- `rehash_password` and `invalidate_password` write to rows listed at the start, an admin
  form to the row its request read; a password set in between is lost: `raced`.
- `clean_phone`: "Rejecting any of those loses a real family over formatting." The three
  writings it names are taken (`UsualNumbersAreTaken`); 0091 and the number is refused, since
  the 91 is looked for before the zeros are taken off.
- "Tag the children in this photo before publishing it" (`publish_media`) is asked by
  `publish_photo` of the database, by `publish_day` of its own prefetch: a photograph whose
  last tag is removed after the day was listed is published with none. No feed finds it
  while it has none.
- `enroll_student` closes the open row of the same academic year only. A child enrolled
  for the new year while last year's row is open has two, and stands on two rooms' sheets,
  of which `roster` says "who is in a room right now"; it is in both rooms' audiences, and
  both rooms' days are in its diary.
- A sibling's admission form starts with every box unticked, and what it posts replaces
  the guardian's answers for the first child; to ConsentGate that is an answer.
- A release is checked against the *record's* date. The docstring of
  `release_to_authorized` says an expired authorisation must not be used "just because a
  page was left open over midnight"; for the record of a day, the day's window stays
  valid for ever.

`RefusalHonoured`, by contrast, holds although `publish_media` can publish over a
refusal that committed a moment before: the feed asks the same question again on every
request. That is why the second implementation of the gate is not redundant.

## 5. What is proved

For any sizes of the sets and any bounds and windows. The assumptions are the named ones
of the modules: `UploadWindow` (an upload cannot land on a row old enough to be
reconciled: 900 seconds against an hour); `RetentionWindow`, `DayBound`, `DaysCounted`,
`JobBound`, `Bounds` (numbers are numbers); `SomeMarks` (what teachers give are
statuses); `RecordsOfChildren`, `BranchesOfTheirOwn`, `WaysOfWriting` and
`PeopleAndWords` (the shape of the data: a pickup is not a guardian, neither is a word);
`NoneIsNull` and `NullIsNoRow` (NULL is none of the values); and for the day's figures,
finitely many children.

**PhotoStore.** The two halves of `SettledRowsAreTrue` are not inductive: they depend
on what commands and browsers hold in memory. `PhotoInv` adds what each snapshot is
still good evidence for: the browser's "the PUT succeeded" and the reconciler's "it is
there" stand until somebody deletes on purpose; a row in the reconciler's hands is past
the upload window; what the reconciler found missing stays missing; the orphan sweep
holds no claimed key once the rows are subtracted; an erasure past its first step has
left a mark. From it follow the four safety invariants, `FeedLinksAreBacked` (no link of
the feed is to a picture that was never there) and `PhotoStoreKeepsPromise`, in which
each step is shown to be a step of `UploadPromise` under `Status`, or a stutter.

**ConsentGate.** `GateInv` is typing and "an account's answers are its guardian's, until
the account changed hands". It gives `RefusalHonoured` and `ShownOnlyWithYes`;
`GatesAgree` is four readings of one rule. Loop and query need typing only, by the lemma
that they reach the same accounts, and so does the badge, which asks the feed's question
of all of an account's children at once. The tagging screen lists children and not tags,
so its part rests on the typing that whoever is tagged is on file. `OnlyAnAnswerLifts`
is an action property, proved step by step.

**Retention.** `SweepFollowsTheRule` is the equivalence of the queries and the rule,
which rests on a lemma that says a child is "gone" for the aggregate exactly when its
departure date is past. `DryRunIsStillTrue` uses it on both sides of a step: a child
with no open row before and after a step has the same departure date. `ErasureCanBeRerun`
needs `ErasureInv`: a command still holds whatever is owed to its child and not deleted,
and no two commands hold one child. Without it, the last transaction of an erasure could
untag a photograph that is still there.

**Register** (`AttendanceProofs`). `OneTapKeepsTheMorning` is an action property, and
its invariant says why the request's snapshots may be trusted however stale they are: no
step takes a record away, so whoever had one when the button was pressed has one when
the service asks, and is on its list if on the roster. `ReportsAgree` needs typing and,
for the figures, that each child has one status on one day, so that the sums of the
dashboard and of the printed register are sizes of unions of disjoint sets.
`NobodyGoneIsBuried` is of the room's monthly report: that it is an order, and that a
child who came on no day stands in it before every child who came.

**Door** (`AttendanceProofs`). `DoorInv` adds to typing that whatever a request has read
was on the list while it was at work. Each of the three releases is shown to write a
record that names one person (`NamesOne`), and `NobodyLeavesOtherwise` then follows for
every step. `ScreenAndServiceAgree` needs typing only: it is the query and the predicate
over one window.

**NoticeBoard.** `CountedCanRead` needs typing only: a child in the audience is a child
the feed's query finds. `ReceiptsProve` rests on `ToldFirst`, which orders the first
telling, the time on the row and today, and on `FeedsAreReached`: a page between its two
steps is of a notice that was in the feed, whatever became of it since.

**Admissions.** `PostsAreFirst` says what a request's stale reading is still good for: of
an enquiry nobody touched by hand, and unless two overlapped, the one request at work
has no rival and no child to precede it. `QueueIsKept` ties the status to the child.
`UsualNumbersAreTaken` is about `CleanPhone` alone: for any ten digits that do not begin
with 0, the steps of the form give them back from each of the three writings its docstring
names.

**Credentials.** The inductive part is about the stamps: a link that was used, or died, is
of another column than the one there is (`UsedLinksAreStale`, `DeadLinksAreStale`), a write
makes a column no link and no row in hand was read from (`WriteIsNew`, `WriteAgesLinks`),
and a link of another column does not resolve. The one step that brings an old column back
is `SaveForm`, and every link of that column is then `revived` (`SaveFormKeepsInv`): the
two properties except those and no others. `ListedRowsArePlain` is what makes the repair
harmless: it never hashes a hash.

**Diary.** `DiaryIsTheirs` compares a query over today's rows with the rooms a child was
in, and neither determines the other after a move. `RowsTellHistory`, the core of
`DiaryInv`, says that for every day until today the rows that span it are the rooms of
the history on that day, a row closed the day it was opened being of that day;
enrolling, moving, withdrawing and the midnight are each shown to keep it.
`ListedAreThere` and `AnswersAreGood` say what a request's stale reading is good for:
what `publish_day` listed is still there, published or erased at most, and what an
acknowledge holds is by somebody of the family, and a report read unacknowledged is so
still, unless another was at it. `FirstWordsStand`, `SignaturesAreOfFamily` and
`TrendIsComplete` follow, the last by looking for the row that ends on the day a child
is missed.

`DiaryKeepsRoll` shows each operation on the rows to be a step of `Roll` under the
mapping, or a stutter, the rows of the other academic years being none of its concern.
The mapping chooses the last of the days a child left, so the proof carries with it that
there is one (`LastDayExists`): the first departure is the last so far, and a later one
is today. `HistoryIsNotRewritten` is the sentence of `enroll_student` about the row that
was open at the time.

**Only model-checked.** `PendingSettles` and `ExpiredIsPruned`, since liveness is out of
the prover's reach. The statements that do not hold are counterexamples and need no
proof.

## 6. What is not modelled

- **Branches** as a wall: the scoping of staff by branch is a filter in front of the
  operations. NoticeBoard has branches because its feed and its audience read them.
- **Contents**: sizes, dimensions, file names, wording, the follow-up of an incident.
- **The admin site**, except its edits of enquiries, accounts and authorised pickups and
  the unlinking of guardians: a superuser's direct edits of pickup records, receipts,
  entries, enrolments or consents are outside every property. That a form saves the whole
  row its request read is modelled for accounts, and not for the other tables.
- **Rooms' capacities, staff records, custody.** An academic year is a name on an enrolment
  row; the dates of one, and which is the current one, are not modelled.
- **`mark_holiday` and `mark_staff`**, which nothing calls.
- **The stamp of the unread badge**: a time in one browser's session. What the badge
  counts is modelled, for any stamp; that the stamp is the time of the visit and not of the
  rows shown, so that a photograph published meanwhile is never counted, is not.
- **Backups**: one straight line around `pg_dump` and the bucket.
- **The local upload path**: development, with no bucket and nothing to reconcile.
- **Reports** other than those of attendance and the enrolment trend: photograph activity,
  new enquiries, the roster sheet, the count of the enrolled; rows other components own.
- **Website content, Turnstile, pages, styles, deployment**: no state the records of
  children depend on.

Two interactions between modelled components would take a composition of ConsentGate and
Retention over one set of tags: dropping a refused child's tag from a shared photograph
makes it publishable to the others although the child is still in the picture; and a tag
added to another photograph during an erasure is dropped by its last transaction, which
leaves that photograph untagged. No sentence of the repository says what should happen,
so there is no property to check yet.

## 7. Plan

Order of work, most important behaviour first; what is done is marked.

1. *done* `PhotoStore` with `UploadPromise`: the only component where data is lost or
   kept by an interleaving.
2. *done* `ConsentGate`: the rule the product is built on.
3. *done* `Retention`: deletion, and who decides it.
4. *done* `Register` and `Door`: the attendance record from the first mark to the person
   the child left with.
5. *done* `NoticeBoard`: drafts, publication, withdrawal, expiry, receipts, audience.
6. *done* `Admissions`, `Credentials`, `Diary`: check-then-act in three places, each with
   what holds around its window.
7. *done* Proofs for every module: each invariant and each action property a run checks,
   and the two refinements, `UploadPromise` and `Roll`.
8. *done* The reports as operators over the records they read, and that they agree.
9. The unread badge's stamp as state of a browser, beside a publish: against "a photograph
   is counted until seen".
10. The composition of `ConsentGate` and `Retention` named above, once the school has said
   what it wants of an untagged photograph.
