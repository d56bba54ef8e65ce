---------------------------- MODULE ConsentGate -----------------------------
(***************************************************************************)
(* Which photographs a family is shown.  Consent is recorded against a     *)
(* portal account (core.Consent.guardian is a User); a child's guardians   *)
(* are people on the office's record, with or without an account; a photo  *)
(* names the children tagged in it.  The feed joins the three on every     *)
(* request (apps/activities/selectors.py), while the office admits, links  *)
(* and edits (apps/people/services.py), an operator takes links away       *)
(* (apps/people/admin.py) and teachers tag and publish                     *)
(* (apps/activities/services.py and views.py).                             *)
(*                                                                         *)
(* Each service is one transaction and one atomic step, except that a      *)
(* publish request reads the gate and writes the flag in two, and the      *)
(* day's publish lists, sorts out and is then a loop of such pairs: at     *)
(* READ COMMITTED anything may commit in between.                          *)
(*                                                                         *)
(* The module is of one branch, whose staff see all of its children and    *)
(* photographs.                                                            *)
(*                                                                         *)
(* An account is named by the phone number it was created with             *)
(* (create_account is get_or_create on phone), so accounts are Phones.     *)
(***************************************************************************)
CONSTANTS
    Students,
    Guardians,   \* guardian rows the office may write
    Phones,      \* phone numbers, and the accounts created with them
    Photos,
    Teachers,    \* staff publish requests running at once
    None         \* SQL NULL

ASSUME NoneIsNull == None \notin Phones \cup Photos

Purposes == {"photos_in_app", "photos_shared_with_class"}
Answers  == [Purposes -> {"unasked", "yes", "no"}]
Unasked  == [q \in Purposes |-> "unasked"]

VARIABLES
    phone,       \* Guardian.phone, None while the row does not exist
    user,        \* Guardian.user, the account it points at, or None
    onFile,      \* children with a Student row
    links,       \* StudentGuardian
    answer,      \* Consent, per account
    tags,        \* MediaTag
    stored,      \* photos in UploadState.STORED
    published,   \* photos with is_published
    prefetched,  \* per day's publish: the photos ahead of it, each tagged when listed
    todo,        \* per publish request: the photos it has still to publish
    drafts,      \* those of them it loaded with is_published False
    passed,      \* the draft whose gate it has read and whose save is to come
    said,        \* history: what each guardian last answered, in person
    repointed    \* history: guardians given an account that answers already
                 \* exist for, or taken away from the one theirs are on

familyVars  == <<phone, user, onFile, links, answer, said, repointed>>
photoVars   == <<tags, stored, published>>
publishVars == <<prefetched, todo, drafts, passed>>
vars == <<familyVars, photoVars, publishVars>>

\* The types, and what the schema refuses: two guardians with one number, or
\* with one account.
TypeOK ==
    /\ phone \in [Guardians -> Phones \cup {None}]
    /\ user \in [Guardians -> Phones \cup {None}]
    /\ \A g, h \in Guardians : phone[g] = phone[h] => g = h \/ phone[g] = None
    /\ \A g, h \in Guardians : user[g] = user[h] => g = h \/ user[g] = None
    /\ onFile \subseteq Students
    /\ links \subseteq Guardians \X onFile
    /\ answer \in [Phones -> Answers]
    /\ tags \in [Photos -> SUBSET onFile]
    /\ stored \subseteq Photos
    /\ published \subseteq Photos
    /\ prefetched \in [Teachers -> SUBSET Photos]
    /\ todo \in [Teachers -> SUBSET Photos]
    /\ drafts \in [Teachers -> SUBSET Photos]
    /\ passed \in [Teachers -> Photos \cup {None}]
    /\ said \in [Guardians -> Answers]
    /\ repointed \subseteq Guardians

Init ==
    /\ phone = [g \in Guardians |-> None]
    /\ user = [g \in Guardians |-> None]
    /\ onFile = {}
    /\ links = {}
    /\ answer = [p \in Phones |-> Unasked]
    /\ tags = [m \in Photos |-> {}]
    /\ stored = {}
    /\ published = {}
    /\ prefetched = [t \in Teachers |-> {}]
    /\ todo = [t \in Teachers |-> {}]
    /\ drafts = [t \in Teachers |-> {}]
    /\ passed = [t \in Teachers |-> None]
    /\ said = [g \in Guardians |-> Unasked]
    /\ repointed = {}

-----------------------------------------------------------------------------
(***************************************************************************)
(* The gate, read by staff: student_carries, blocked_tags, is_publishable. *)
(***************************************************************************)
GuardiansOf(s) == {g \in Guardians : <<g, s>> \in links}

\* The accounts behind a child's guardians.  A guardian without one
\* contributes nothing.
GuardianUsersOf(s) == {user[g] : g \in GuardiansOf(s)} \ {None}

StudentCarries(s) ==
    /\ \A u \in GuardianUsersOf(s) : answer[u]["photos_shared_with_class"] # "no"
    /\ \E u \in GuardianUsersOf(s) : answer[u]["photos_shared_with_class"] = "yes"

BlockedTags(m) == {s \in tags[m] : ~StudentCarries(s)}

IsPublishable(m) == tags[m] # {} /\ BlockedTags(m) = {}

(***************************************************************************)
(* The same gate as the parent feed's one query: NOT EXISTS a tag whose    *)
(* student has no yes, or has a no.  It starts from the Consent rows and   *)
(* reaches the child through guardian_profile.                             *)
(***************************************************************************)
HasAnswer(s, value) ==
    \E u \in Phones :
        /\ answer[u]["photos_shared_with_class"] = value
        /\ \E g \in Guardians : user[g] = u /\ <<g, s>> \in links

\* Variant: the query asks for a yes and forgets to ask for a no.
HasBlockedTag_YesOnly(m) == \E s \in tags[m] : ~HasAnswer(s, "yes")

HasBlockedTag(m) == \E s \in tags[m] : ~HasAnswer(s, "yes") \/ HasAnswer(s, "no")

PublishedMediaFor(children) ==
    {m \in published \cap stored : tags[m] \cap children # {} /\ ~HasBlockedTag(m)}

ChildrenOf(u) == {s \in Students : \E g \in Guardians : user[g] = u /\ <<g, s>> \in links}

\* guardian_has_consent: an answer of the viewer's own.
GuardianHasConsent(u, purpose) == answer[u][purpose] = "yes"

\* Variant: the viewer's own photos_in_app is not asked for.
Feed_NoViewerConsent(u, child) ==
    IF child \in ChildrenOf(u) THEN PublishedMediaFor({child}) ELSE {}

\* feed_for_child_of: what account u is shown of one child.
Feed(u, child) ==
    IF child \in ChildrenOf(u) /\ GuardianHasConsent(u, "photos_in_app")
    THEN PublishedMediaFor({child})
    ELSE {}

\* unread_count counts these: of the photographs published since a moment, those of
\* the account's children.
Unread(u, since) ==
    IF GuardianHasConsent(u, "photos_in_app")
    THEN PublishedMediaFor(ChildrenOf(u)) \cap since
    ELSE {}

\* taggable_students: every child of the branch, each with what the teacher is told
\* while tagging.
TaggableStudents(m) ==
    [s \in onFile |->
        [is_tagged |-> s \in tags[m], blocks_publication |-> ~StudentCarries(s)]]

-----------------------------------------------------------------------------
(***************************************************************************)
(* The office.                                                             *)
(***************************************************************************)

\* create_guardian matches on phone; g is the row it returns.
GuardianWith(g, p) ==
    \/ phone[g] = p
    \/ phone[g] = None /\ \A h \in Guardians : phone[h] # p

\* Variant: a plain foreign key in place of the one-to-one.
AccountFree_ForeignKey(g, p) == p \in Phones

\* Guardian.user is one-to-one: pointing g at an account that is already
\* another guardian's raises, and the whole transaction is rolled back.
AccountFree(g, p) == \A h \in Guardians \ {g} : user[h] # p

\* Variant: the answers go to the account the guardian had before.
AdmitFamily_OldAccount(s, g, p, open, asked) ==
    /\ s \notin onFile
    /\ GuardianWith(g, p)
    /\ open => AccountFree(g, p)
    /\ phone' = [phone EXCEPT ![g] = p]
    /\ onFile' = onFile \cup {s}
    /\ links' = links \cup {<<g, s>>}
    /\ user' = IF open THEN [user EXCEPT ![g] = p] ELSE user
    /\ answer' = IF open
                 THEN [answer EXCEPT ![IF user[g] = None THEN p ELSE user[g]] = asked]
                 ELSE answer
    /\ said' = IF open THEN [said EXCEPT ![g] = asked] ELSE said
    /\ repointed' = IF open THEN repointed \ {g} ELSE repointed
    /\ UNCHANGED <<photoVars, publishVars>>

\* admit_family: the child, its guardian, the link and, unless the family
\* declines, the account and an answer to every question on the form.
AdmitFamily(s, g, p, open, asked) ==
    /\ s \notin onFile
    /\ GuardianWith(g, p)
    /\ open => AccountFree(g, p)
    /\ phone' = [phone EXCEPT ![g] = p]
    /\ onFile' = onFile \cup {s}
    /\ links' = links \cup {<<g, s>>}
    /\ user' = IF open THEN [user EXCEPT ![g] = p] ELSE user
    /\ answer' = IF open THEN [answer EXCEPT ![p] = asked] ELSE answer
    /\ said' = IF open THEN [said EXCEPT ![g] = asked] ELSE said
    /\ repointed' = IF open THEN repointed \ {g} ELSE repointed
    /\ UNCHANGED <<photoVars, publishVars>>

\* add_guardian_to_student.
AddGuardian(s, g, p) ==
    /\ s \in onFile
    /\ GuardianWith(g, p)
    /\ phone' = [phone EXCEPT ![g] = p]
    /\ links' = links \cup {<<g, s>>}
    /\ UNCHANGED <<user, onFile, answer, said, repointed, photoVars, publishVars>>

\* Variant: update_or_create keyed on the child alone replaces the guardian.
LinkGuardian_Replaces(s, g) ==
    /\ phone[g] # None
    /\ s \in onFile
    /\ g \notin GuardiansOf(s)
    /\ links' = {link \in links : link[2] # s} \cup {<<g, s>>}
    /\ UNCHANGED <<phone, user, onFile, answer, said, repointed, photoVars, publishVars>>

\* link_guardian: a guardian already on file, attached to another child.
LinkGuardian(s, g) ==
    /\ phone[g] # None
    /\ s \in onFile
    /\ g \notin GuardiansOf(s)
    /\ links' = links \cup {<<g, s>>}
    /\ UNCHANGED <<phone, user, onFile, answer, said, repointed, photoVars, publishVars>>

\* StudentGuardianInline on the operator's page of a child: a link taken away.
UnlinkGuardian(s, g) ==
    /\ g \in GuardiansOf(s)
    /\ links' = links \ {<<g, s>>}
    /\ UNCHANGED <<phone, user, onFile, answer, said, repointed, photoVars, publishVars>>

\* update_guardian: a new number.  The account is left where it is; a number
\* another guardian has is refused by the unique constraint.
UpdateGuardian(g, p) ==
    /\ phone[g] # None
    /\ \A h \in Guardians : phone[h] # p
    /\ phone' = [phone EXCEPT ![g] = p]
    /\ UNCHANGED <<user, onFile, links, answer, said, repointed, photoVars, publishVars>>

\* create_portal_account, from the guardian's page: the account of the number
\* now on the record, new or already there, and Guardian.user pointed at it.
CreatePortalAccount(g) ==
    /\ phone[g] # None
    /\ AccountFree(g, phone[g])
    /\ user' = [user EXCEPT ![g] = phone[g]]
    /\ repointed' = IF \/ user[g] \notin {None, phone[g]}
                       \/ user[g] = None /\ answer[phone[g]] # Unasked
                    THEN repointed \cup {g}
                    ELSE repointed
    /\ UNCHANGED <<phone, onFile, links, answer, said, photoVars, publishVars>>

\* record_consent: one new answer of a guardian with an account.
RecordConsent(g, purpose, granted) ==
    /\ user[g] # None
    /\ answer' = [answer EXCEPT ![user[g]][purpose] = granted]
    /\ said' = [said EXCEPT ![g][purpose] = granted]
    /\ UNCHANGED <<phone, user, onFile, links, repointed, photoVars, publishVars>>

-----------------------------------------------------------------------------
(***************************************************************************)
(* The teachers.                                                           *)
(***************************************************************************)
Tag(m, s) ==
    /\ s \in onFile
    /\ s \notin tags[m]
    /\ tags' = [tags EXCEPT ![m] = @ \cup {s}]
    /\ UNCHANGED <<familyVars, stored, published, publishVars>>

Untag(m, s) ==
    /\ s \in tags[m]
    /\ tags' = [tags EXCEPT ![m] = @ \ {s}]
    /\ UNCHANGED <<familyVars, stored, published, publishVars>>

\* confirm_upload, seen from here.
ConfirmUpload(m) ==
    /\ m \notin stored
    /\ stored' = stored \cup {m}
    /\ UNCHANGED <<familyVars, tags, published, publishVars>>

UnpublishMedia(m) ==
    /\ m \in published
    /\ published' = published \ {m}
    /\ UNCHANGED <<familyVars, tags, stored, publishVars>>

Requesting(t) == prefetched[t] # {} \/ todo[t] # {} \/ passed[t] # None

\* publish_photo: one photo, publishable or not.
PublishPhoto(t, m) ==
    /\ ~Requesting(t)
    /\ todo' = [todo EXCEPT ![t] = {m}]
    /\ drafts' = [drafts EXCEPT ![t] = {m} \ published]
    /\ UNCHANGED <<prefetched, passed, familyVars, photoVars>>

\* media_for_room_on, as publish_day reads it: the rows, and their tags by prefetch.
\* The day's other photographs had no tag and are never published.
ListDay(t) ==
    /\ ~Requesting(t)
    /\ prefetched' = [prefetched EXCEPT ![t] = {m \in Photos : tags[m] # {}}]
    /\ drafts' = [drafts EXCEPT ![t] = prefetched'[t] \ published]
    /\ UNCHANGED <<todo, passed, familyVars, photoVars>>

\* publish_day's publishable_among.  media.tags.exists() is answered by the prefetch,
\* blocked_tags (media.students) by the database.
PublishDay(t) ==
    /\ prefetched[t] # {} /\ todo[t] = {} /\ passed[t] = None
    /\ LET ready == {m \in prefetched[t] : BlockedTags(m) = {}}
       IN  /\ todo' = [todo EXCEPT ![t] = ready]
           /\ drafts' = [drafts EXCEPT ![t] = @ \cap ready]
           /\ prefetched' = [prefetched EXCEPT ![t] = ready]
    /\ UNCHANGED <<passed, familyVars, photoVars>>

\* publish_media reads the gate: media.tags.exists() from the prefetch of a listed
\* photo, blocked_tags afresh, and has nothing to save if the row it loaded was published
\* already.  A refusal raises: publish_photo reports it, publish_day does not catch it
\* and the photos after it are never reached.
PublishGate(t, m) ==
    /\ passed[t] = None
    /\ m \in todo[t]
    /\ IF (m \in prefetched[t] \/ tags[m] # {}) /\ BlockedTags(m) = {}
       THEN /\ passed' = [passed EXCEPT ![t] = IF m \in drafts[t] THEN m ELSE None]
            /\ todo' = [todo EXCEPT ![t] = @ \ {m}]
            /\ drafts' = [drafts EXCEPT ![t] = @ \ {m}]
            /\ prefetched' = [prefetched EXCEPT ![t] = @ \ {m}]
       ELSE /\ todo' = [todo EXCEPT ![t] = {}]
            /\ drafts' = [drafts EXCEPT ![t] = {}]
            /\ prefetched' = [prefetched EXCEPT ![t] = {}]
            /\ UNCHANGED passed
    /\ UNCHANGED <<familyVars, photoVars>>

\* ... and saves.
PublishSave(t) ==
    /\ passed[t] # None
    /\ published' = published \cup {passed[t]}
    /\ passed' = [passed EXCEPT ![t] = None]
    /\ UNCHANGED <<prefetched, todo, drafts, familyVars, tags, stored>>

-----------------------------------------------------------------------------
Office ==
    \/ \E s \in Students, g \in Guardians, p \in Phones :
          \/ \E open \in BOOLEAN, asked \in [Purposes -> {"yes", "no"}] :
                AdmitFamily(s, g, p, open, asked)
          \/ AddGuardian(s, g, p)
    \/ \E s \in Students, g \in Guardians : LinkGuardian(s, g) \/ UnlinkGuardian(s, g)
    \/ \E g \in Guardians, p \in Phones : UpdateGuardian(g, p)
    \/ \E g \in Guardians :
          \/ CreatePortalAccount(g)
          \/ \E purpose \in Purposes, granted \in {"yes", "no"} :
                RecordConsent(g, purpose, granted)

Staff ==
    \/ \E m \in Photos : ConfirmUpload(m) \/ UnpublishMedia(m)
    \/ \E m \in Photos, s \in Students : Tag(m, s) \/ Untag(m, s)
    \/ \E t \in Teachers :
          \/ ListDay(t)
          \/ PublishDay(t)
          \/ PublishSave(t)
          \/ \E m \in Photos : PublishPhoto(t, m) \/ PublishGate(t, m)

Next == Office \/ Staff

Spec == Init /\ [][Next]_vars

-----------------------------------------------------------------------------
(***************************************************************************)
(* Properties.                                                             *)
(***************************************************************************)

\* "Two answers to one question is how they drift" (test_consent_gate.py): the
\* loop that tells the teacher and the query that feeds the parent never
\* disagree on a tagged photograph, and the marks on the tagging screen show all
\* that blocks it ("a rule that a teacher meets only when the publish button
\* refuses is a rule that gets worked around", taggable_students).
TeacherIsTold ==
    \A m \in Photos :
        LET screen == TaggableStudents(m)
        IN  tags[m] # {} =>
              /\ IsPublishable(m) <=> ~HasBlockedTag(m)
              /\ IsPublishable(m) <=>
                   \A s \in DOMAIN screen : screen[s].is_tagged => ~screen[s].blocks_publication

\* "The badge can never promise a photo the feed then withholds" (unread_count):
\* whatever was published since the last visit, the badge counts what the feeds of
\* the account's children hold of it, once each, and nothing more.
BadgeIsTrue ==
    \A u \in Phones, since \in SUBSET Photos :
        Unread(u, since) = since \cap UNION {Feed(u, s) : s \in Students}

\* The publish gate, the tagging screen, the feed and the badge are four readings
\* of one rule.
GatesAgree == TeacherIsTold /\ BadgeIsTrue

\* A guardian who said no is obeyed: no feed, of any family, holds a photograph
\* of their child, whoever else said yes, whenever it was tagged, whether it was
\* published before or after, and however the publish request raced the answer.
RefusalHonoured ==
    \A g \in Guardians \ repointed, s \in Students, m \in Photos :
        /\ <<g, s>> \in links
        /\ said[g]["photos_shared_with_class"] = "no"
        /\ s \in tags[m]
        => \A u \in Phones, child \in Students : m \notin Feed(u, child)

\* Nothing is shown on silence: the viewer said yes in person to seeing, and
\* for every child in the picture some guardian said yes in person to sharing,
\* accounts that changed hands apart.
ShownOnlyWithYes ==
    \A viewer \in Guardians, child \in Students :
        user[viewer] # None =>
            \A m \in Feed(user[viewer], child) :
                /\ viewer \in repointed \/ said[viewer]["photos_in_app"] = "yes"
                /\ \A s \in tags[m] : \E g \in GuardiansOf(s) :
                      g \in repointed \/ said[g]["photos_shared_with_class"] = "yes"

Refused(s) ==
    \E u \in GuardianUsersOf(s) : answer[u]["photos_shared_with_class"] = "no"

\* What lifts one guardian's refusal of photographs of a child: the office moves the
\* guardian to another account, an operator takes the link between the two away, or
\* the guardian answers again, with a yes.
Lifted(g, s) ==
    \/ user'[g] # user[g]
    \/ links' = links \ {<<g, s>>}
    \/ /\ user[g] # None
       /\ answer[user[g]]["photos_shared_with_class"] = "no"
       /\ answer'[user[g]]["photos_shared_with_class"] = "yes"
       /\ said'[g]["photos_shared_with_class"] = "yes"

LiftedWhenReleased ==
    \A s \in Students :
        Refused(s) /\ ~Refused(s)' => \E g \in GuardiansOf(s) : Lifted(g, s)

\* A refusal is lifted by its own family answering again, by an account changing
\* hands, or by an operator unlinking the guardian who refused, and by nothing else:
\* no admission of another family, link, tag or edit of a phone number does it, and
\* unlinking one guardian lifts no other's refusal.
OnlyAnAnswerLifts == [][LiftedWhenReleased]_vars

\* "Per-guardian, per-purpose, versioned, revocable, and off by default ... a
\* record of a specific answer to a specific question" (core/models.py,
\* Consent).  What is on record for a guardian is what that guardian answered.
\* It does not hold once an account changes hands.
AnswersAreTheirOwn ==
    \A g \in Guardians : user[g] # None => answer[user[g]] = said[g]

\* "Photographs whose consent is incomplete are left as drafts rather than
\* failing the whole publish ... stopping the whole day on one missing consent
\* would strand the other twenty" (views.py, publish_day).  A request that ends
\* leaves no draft behind that it had found ready and that is publishable still.
\* It does not hold: the first refusal ends the loop.
DayIsNotStranded ==
    [][\A t \in Teachers :
         Requesting(t) /\ ~Requesting(t)' =>
            \A m \in drafts[t] : m \in published' \/ ~IsPublishable(m)]_vars
=============================================================================
