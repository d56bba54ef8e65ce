------------------------- MODULE ConsentGateProofs --------------------------
(***************************************************************************)
(* Proofs about ConsentGate, for any number of children, guardians, phone  *)
(* numbers, photographs and publish requests.                              *)
(***************************************************************************)
EXTENDS ConsentGate, TLAPS

\* The answers on record are the guardian's own, until an account changes hands;
\* and nobody has answered before having an account.
OwnAnswers ==
    \A g \in Guardians :
        /\ user[g] = None => said[g] = Unasked
        /\ user[g] # None /\ g \notin repointed => answer[user[g]] = said[g]

GateInv == TypeOK /\ OwnAnswers

-----------------------------------------------------------------------------
LEMMA UnaskedIsAnAnswer == Unasked \in Answers
BY DEF Unasked, Answers

LEMMA InitGate == Init => GateInv
<1> SUFFICES ASSUME Init PROVE GateInv
  OBVIOUS
<1>1. TypeOK
  BY UnaskedIsAnAnswer DEF Init, TypeOK
<1>2. OwnAnswers
  BY DEF Init, OwnAnswers
<1> QED
  BY <1>1, <1>2 DEF GateInv

LEMMA NextGate == GateInv /\ [Next]_vars => GateInv'
<1> SUFFICES ASSUME GateInv, [Next]_vars PROVE GateInv'
  OBVIOUS
<1> USE NoneIsNull DEF GateInv, TypeOK, OwnAnswers, familyVars, photoVars, publishVars
<1>1. ASSUME NEW s \in Students, NEW g \in Guardians, NEW p \in Phones,
             NEW open \in BOOLEAN, NEW asked \in [Purposes -> {"yes", "no"}],
             AdmitFamily(s, g, p, open, asked)
      PROVE  GateInv'
  <2>1. asked \in Answers
    BY DEF Answers
  <2>2. CASE open
    BY <1>1, <2>1, <2>2 DEF AdmitFamily, GuardianWith, AccountFree
  <2>3. CASE ~open
    BY <1>1, <2>3 DEF AdmitFamily, GuardianWith
  <2> QED
    BY <2>2, <2>3
<1>2. ASSUME NEW s \in Students, NEW g \in Guardians, NEW p \in Phones, AddGuardian(s, g, p)
      PROVE  GateInv'
  BY <1>2 DEF AddGuardian, GuardianWith
<1>3. ASSUME NEW s \in Students, NEW g \in Guardians, LinkGuardian(s, g) \/ UnlinkGuardian(s, g)
      PROVE  GateInv'
  BY <1>3 DEF LinkGuardian, UnlinkGuardian, GuardiansOf
<1>4. ASSUME NEW g \in Guardians, NEW p \in Phones, UpdateGuardian(g, p) PROVE GateInv'
  BY <1>4 DEF UpdateGuardian
<1>5. ASSUME NEW g \in Guardians, CreatePortalAccount(g) PROVE GateInv'
  BY <1>5 DEF CreatePortalAccount, AccountFree
<1>6. ASSUME NEW g \in Guardians, NEW purpose \in Purposes, NEW granted \in {"yes", "no"},
             RecordConsent(g, purpose, granted)
      PROVE  GateInv'
  BY <1>6 DEF RecordConsent, Answers
<1>7. ASSUME NEW m \in Photos, ConfirmUpload(m) PROVE GateInv'
  BY <1>7 DEF ConfirmUpload
<1>8. ASSUME NEW m \in Photos, UnpublishMedia(m) PROVE GateInv'
  BY <1>8 DEF UnpublishMedia
<1>9. ASSUME NEW m \in Photos, NEW s \in Students, Tag(m, s) \/ Untag(m, s) PROVE GateInv'
  BY <1>9 DEF Tag, Untag
<1>10. ASSUME NEW t \in Teachers, ListDay(t) \/ PublishDay(t) PROVE GateInv'
  BY <1>10 DEF ListDay, PublishDay
<1>11. ASSUME NEW t \in Teachers, PublishSave(t) PROVE GateInv'
  BY <1>11 DEF PublishSave
<1>12. ASSUME NEW t \in Teachers, NEW m \in Photos, PublishPhoto(t, m) PROVE GateInv'
  BY <1>12 DEF PublishPhoto
<1>13. ASSUME NEW t \in Teachers, NEW m \in Photos, PublishGate(t, m) PROVE GateInv'
  BY <1>13 DEF PublishGate
<1>14. CASE UNCHANGED vars
  BY <1>14 DEF vars
<1> QED
  BY <1>1, <1>2, <1>3, <1>4, <1>5, <1>6, <1>7, <1>8, <1>9, <1>10, <1>11, <1>12, <1>13, <1>14
     DEF Next, Office, Staff

\* What the consent arguments rest on holds in every reachable state.
THEOREM GateInvariant == Spec => []GateInv
BY InitGate, NextGate, PTL DEF Spec

\* Every variable keeps its type; no two guardians share a number or an account.
THEOREM GateTypeCorrect == Spec => []TypeOK
BY GateInvariant, PTL DEF GateInv

-----------------------------------------------------------------------------
\* The query reaches a child's answers through the same accounts as the loop.
LEMMA SameAccounts ==
    ASSUME TypeOK, NEW s \in Students, NEW value
    PROVE  HasAnswer(s, value) <=>
             \E u \in GuardianUsersOf(s) : answer[u]["photos_shared_with_class"] = value
BY NoneIsNull DEF TypeOK, HasAnswer, GuardianUsersOf, GuardiansOf

LEMMA TeacherIsToldInv == TypeOK => TeacherIsTold
<1> SUFFICES ASSUME TypeOK, NEW m \in Photos, tags[m] # {}
             PROVE  /\ IsPublishable(m) <=> ~HasBlockedTag(m)
                    /\ IsPublishable(m) <=>
                         \A s \in DOMAIN TaggableStudents(m) :
                            TaggableStudents(m)[s].is_tagged
                              => ~TaggableStudents(m)[s].blocks_publication
  BY DEF TeacherIsTold
<1>1. ASSUME NEW s \in tags[m]
      PROVE  StudentCarries(s) <=> HasAnswer(s, "yes") /\ ~HasAnswer(s, "no")
  <2>1. s \in Students
    BY DEF TypeOK
  <2> QED
    BY <2>1, SameAccounts DEF StudentCarries
<1>2. tags[m] \subseteq DOMAIN TaggableStudents(m)
  BY DEF TypeOK, TaggableStudents
<1>3. \A s \in DOMAIN TaggableStudents(m) :
        /\ TaggableStudents(m)[s].is_tagged <=> s \in tags[m]
        /\ TaggableStudents(m)[s].blocks_publication <=> ~StudentCarries(s)
  BY DEF TaggableStudents
<1> QED
  BY <1>1, <1>2, <1>3 DEF IsPublishable, BlockedTags, HasBlockedTag

\* What is published to a family is published to one of its children.
LEMMA BadgeIsTrueAlways == BadgeIsTrue
<1> SUFFICES ASSUME NEW u \in Phones, NEW since \in SUBSET Photos
             PROVE  Unread(u, since) = since \cap UNION {Feed(u, s) : s \in Students}
  BY DEF BadgeIsTrue
<1>1. CASE ~GuardianHasConsent(u, "photos_in_app")
  BY <1>1 DEF Unread, Feed
<1>2. CASE GuardianHasConsent(u, "photos_in_app")
  <2>1. PublishedMediaFor(ChildrenOf(u)) = UNION {PublishedMediaFor({s}) : s \in ChildrenOf(u)}
    BY DEF PublishedMediaFor
  <2>2. UNION {Feed(u, s) : s \in Students} = UNION {PublishedMediaFor({s}) : s \in ChildrenOf(u)}
    BY <1>2 DEF Feed, ChildrenOf
  <2> QED
    BY <1>2, <2>1, <2>2 DEF Unread
<1> QED
  BY <1>1, <1>2

LEMMA RefusalHonouredInv == GateInv => RefusalHonoured
<1> SUFFICES ASSUME GateInv,
                    NEW g \in Guardians \ repointed, NEW s \in Students, NEW m \in Photos,
                    <<g, s>> \in links,
                    said[g]["photos_shared_with_class"] = "no",
                    s \in tags[m],
                    NEW u \in Phones, NEW child \in Students
             PROVE  m \notin Feed(u, child)
  BY DEF RefusalHonoured
<1>1. Unasked["photos_shared_with_class"] = "unasked"
  BY DEF Unasked, Purposes
<1>2. user[g] # None
  BY <1>1 DEF GateInv, OwnAnswers
<1>3. answer[user[g]]["photos_shared_with_class"] = "no" /\ user[g] \in Phones
  BY <1>2 DEF GateInv, OwnAnswers, TypeOK
<1>4. HasBlockedTag(m)
  BY <1>3 DEF HasBlockedTag, HasAnswer
<1> QED
  BY <1>4 DEF Feed, GuardianHasConsent, PublishedMediaFor

LEMMA ShownOnlyWithYesInv == GateInv => ShownOnlyWithYes
<1> SUFFICES ASSUME GateInv, NEW viewer \in Guardians, NEW child \in Students,
                    user[viewer] # None, NEW m \in Feed(user[viewer], child)
             PROVE  /\ viewer \in repointed \/ said[viewer]["photos_in_app"] = "yes"
                    /\ \A s \in tags[m] : \E g \in GuardiansOf(s) :
                          g \in repointed \/ said[g]["photos_shared_with_class"] = "yes"
  BY DEF ShownOnlyWithYes
<1>1. answer[user[viewer]]["photos_in_app"] = "yes" /\ ~HasBlockedTag(m)
  BY DEF Feed, GuardianHasConsent, PublishedMediaFor
<1>2. viewer \in repointed \/ said[viewer]["photos_in_app"] = "yes"
  BY <1>1 DEF GateInv, OwnAnswers
<1>3. ASSUME NEW s \in tags[m]
      PROVE  \E g \in GuardiansOf(s) :
                g \in repointed \/ said[g]["photos_shared_with_class"] = "yes"
  <2>1. PICK u \in Phones :
            /\ answer[u]["photos_shared_with_class"] = "yes"
            /\ \E g \in Guardians : user[g] = u /\ <<g, s>> \in links
    BY <1>1 DEF HasBlockedTag, HasAnswer
  <2>2. PICK g \in Guardians : user[g] = u /\ <<g, s>> \in links
    BY <2>1
  <2>3. user[g] # None
    BY <2>2, NoneIsNull
  <2> QED
    BY <2>1, <2>2, <2>3 DEF GateInv, OwnAnswers, GuardiansOf
<1> QED
  BY <1>2, <1>3

\* The teacher's gate, the marks on the tagging screen, the parent's feed and the
\* badge never disagree.
THEOREM GateIsOneRule == Spec => []GatesAgree
<1>1. TypeOK => GatesAgree
  BY TeacherIsToldInv, BadgeIsTrueAlways DEF GatesAgree
<1> QED
  BY <1>1, GateTypeCorrect, PTL

\* A guardian's no is obeyed in every feed, whatever raced it.
THEOREM RefusalsAreHonoured == Spec => []RefusalHonoured
BY RefusalHonouredInv, GateInvariant, PTL

\* No photograph is shown on silence, neither the viewer's nor a tagged child's.
THEOREM NothingShownOnSilence == Spec => []ShownOnlyWithYes
BY ShownOnlyWithYesInv, GateInvariant, PTL

-----------------------------------------------------------------------------
\* A link goes only where an operator takes it away.
LEMMA LinkStands ==
    ASSUME [Next]_vars, NEW g \in Guardians, NEW s \in Students,
           <<g, s>> \in links, ~Lifted(g, s)
    PROVE  <<g, s>> \in links'
<1>1. ASSUME NEW q \in Students, NEW h \in Guardians, UnlinkGuardian(q, h)
      PROVE  <<g, s>> \in links'
  <2>1. links' = links \ {<<h, q>>} /\ links' # links \ {<<g, s>>}
    BY <1>1 DEF UnlinkGuardian, Lifted
  <2> QED
    BY <2>1
<1> QED
  BY <1>1
     DEF Next, Office, Staff, vars, familyVars, AdmitFamily, AddGuardian, LinkGuardian,
         UpdateGuardian, CreatePortalAccount, RecordConsent, ConfirmUpload, UnpublishMedia,
         Tag, Untag, ListDay, PublishDay, PublishSave, PublishPhoto, PublishGate

\* A guardian with a refusal on record refuses still, after any step but those.
LEMMA RefusalStands ==
    ASSUME TypeOK, [Next]_vars, NEW g \in Guardians, NEW s \in Students, user[g] # None,
           answer[user[g]]["photos_shared_with_class"] = "no", ~Lifted(g, s)
    PROVE  user'[g] = user[g] /\ answer'[user[g]]["photos_shared_with_class"] = "no"
<1> USE DEF Lifted, TypeOK, familyVars, photoVars, publishVars
<1>1. ASSUME NEW q \in Students, NEW h \in Guardians, NEW p \in Phones,
             NEW open \in BOOLEAN, NEW asked \in [Purposes -> {"yes", "no"}],
             AdmitFamily(q, h, p, open, asked)
      PROVE  answer'[user[g]]["photos_shared_with_class"] = "no"
  <2>1. CASE open /\ user[g] = p
    <3>1. h = g
      BY <1>1, <2>1 DEF AdmitFamily, AccountFree
    <3>2. answer'[user[g]] = asked /\ said'[g] = asked
      BY <1>1, <2>1, <3>1 DEF AdmitFamily
    <3>3. asked["photos_shared_with_class"] \in {"yes", "no"}
      BY DEF Purposes
    <3> QED
      BY <3>2, <3>3
  <2>2. CASE ~open \/ user[g] # p
    BY <1>1, <2>2 DEF AdmitFamily
  <2> QED
    BY <2>1, <2>2
<1>2. ASSUME NEW h \in Guardians, NEW purpose \in Purposes, NEW granted \in {"yes", "no"},
             RecordConsent(h, purpose, granted)
      PROVE  answer'[user[g]]["photos_shared_with_class"] = "no"
  <2>1. CASE h = g
    BY <1>2, <2>1 DEF RecordConsent, Answers, Purposes
  <2>2. CASE h # g
    BY <1>2, <2>2 DEF RecordConsent
  <2> QED
    BY <2>1, <2>2
<1>3. ASSUME UNCHANGED answer PROVE answer'[user[g]]["photos_shared_with_class"] = "no"
  BY <1>3
<1> QED
  BY <1>1, <1>2, <1>3
     DEF Next, Office, Staff, vars, AddGuardian, LinkGuardian, UnlinkGuardian, UpdateGuardian,
         CreatePortalAccount, ConfirmUpload, UnpublishMedia, Tag, Untag, ListDay, PublishDay,
         PublishSave, PublishPhoto, PublishGate

LEMMA StepOnlyAnAnswerLifts ==
    ASSUME TypeOK, [Next]_vars, NEW s \in Students, Refused(s), ~Refused(s)'
    PROVE  \E g \in GuardiansOf(s) : Lifted(g, s)
<1>1. PICK g \in GuardiansOf(s) :
          user[g] # None /\ answer[user[g]]["photos_shared_with_class"] = "no"
  BY DEF Refused, GuardianUsersOf
<1>2. g \in Guardians /\ <<g, s>> \in links
  BY DEF GuardiansOf
<1>3. ASSUME ~Lifted(g, s) PROVE Refused(s)'
  <2>1. user'[g] = user[g] /\ answer'[user[g]]["photos_shared_with_class"] = "no"
    BY <1>1, <1>2, <1>3, RefusalStands
  <2>2. <<g, s>> \in links'
    BY <1>2, <1>3, LinkStands
  <2> QED
    BY <1>1, <1>2, <2>1, <2>2 DEF Refused, GuardianUsersOf, GuardiansOf
<1> QED
  BY <1>3

\* Only the family's own new answer, an account changing hands, or the loss of the link
\* to the guardian who refused, lifts a refusal.
THEOREM RefusalsAreLiftedByAnswers == Spec => OnlyAnAnswerLifts
<1>1. TypeOK /\ [Next]_vars => [LiftedWhenReleased]_vars
  BY StepOnlyAnAnswerLifts DEF LiftedWhenReleased
<1> QED
  BY <1>1, GateTypeCorrect, PTL DEF Spec, OnlyAnAnswerLifts
=============================================================================
