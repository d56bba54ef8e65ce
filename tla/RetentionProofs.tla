--------------------------- MODULE RetentionProofs ---------------------------
(***************************************************************************)
(* Proofs about Retention: typing, that the sweep's queries select what    *)
(* the rule says, that a dry run stays true until somebody acts on a       *)
(* photograph or its children, and that an erasure which fails half way    *)
(* can be run again.                                                       *)
(***************************************************************************)
EXTENDS Retention, TLAPS

LEMMA InitTypeOK == Init => TypeOK
  BY DayBound DEF Init, TypeOK, Days, Idle, Command

LEMMA NextTypeOK == TypeOK /\ [Next]_vars => TypeOK'
<1> SUFFICES ASSUME TypeOK, [Next]_vars PROVE TypeOK'
  OBVIOUS
<1> USE DayBound, NoneIsNull DEF TypeOK, Days, rollVars, photoVars
<1>1. CASE NextDay
  BY <1>1 DEF NextDay
<1>2. ASSUME NEW s \in Students, NEW y \in Years, EnrollStudent(s, y) PROVE TypeOK'
  BY <1>2 DEF EnrollStudent
<1>3. ASSUME NEW s \in Students, WithdrawStudent(s) PROVE TypeOK'
  BY <1>3 DEF WithdrawStudent
<1>4. ASSUME NEW s \in Students, NEW new \in {"enrolled", "left"}, UpdateStudent(s, new)
      PROVE TypeOK'
  BY <1>4 DEF UpdateStudent
<1>5. ASSUME NEW m \in Photos, NEW day \in Days, Upload(m, day) PROVE TypeOK'
  BY <1>5 DEF Upload
<1>6. ASSUME NEW m \in Photos, NEW s \in Students, Tag(m, s) PROVE TypeOK'
  BY <1>6 DEF Tag, Live
<1>7. ASSUME NEW m \in Photos, NEW s \in Students, Untag(m, s) PROVE TypeOK'
  BY <1>7 DEF Untag
<1>8. ASSUME NEW s \in Students, RecordEntry(s) PROVE TypeOK'
  BY <1>8 DEF RecordEntry
<1>9. ASSUME NEW o \in Operators, NEW s \in Students, StartErase(o, s) PROVE TypeOK'
  BY <1>9 DEF StartErase, Alone, Shows, Live, Command
<1>10. ASSUME NEW o \in Operators, StartRetention(o) PROVE TypeOK'
  BY <1>10 DEF StartRetention, MediaExpired, Live, Command
<1>11. ASSUME NEW o \in Operators, NEW m \in Photos, ForgetMedia(o, m) PROVE TypeOK'
  BY <1>11 DEF ForgetMedia, Command
<1>12. ASSUME NEW o \in Operators, FinishErase(o) PROVE TypeOK'
  BY <1>12 DEF FinishErase, Command, Idle
<1>13. ASSUME NEW o \in Operators, FinishRetention(o) PROVE TypeOK'
  BY <1>13 DEF FinishRetention, Command, Idle
<1>14. ASSUME NEW o \in Operators, Abort(o) PROVE TypeOK'
  BY <1>14 DEF Abort, Command, Idle
<1>15. CASE UNCHANGED vars
  BY <1>15 DEF vars
<1> QED
  BY <1>1, <1>2, <1>3, <1>4, <1>5, <1>6, <1>7, <1>8, <1>9, <1>10, <1>11, <1>12, <1>13,
     <1>14, <1>15 DEF Next, Office, Staff, Prune

\* Typing, the cascade from a deleted row to its tags, and no left_on in the
\* future: for any numbers of children, years, photographs and commands.
THEOREM RetentionTypeCorrect == Spec => []TypeOK
<1>1. Init => TypeOK
  BY InitTypeOK
<1>2. TypeOK /\ [Next]_vars => TypeOK'
  BY NextTypeOK
<1> QED
  BY <1>1, <1>2, PTL DEF Spec

-----------------------------------------------------------------------------
\* The two answers to "when did this child leave" are one.
LEMMA GoneIsDeparted ==
  ASSUME TypeOK, NEW s \in Students, NEW cutoff \in Int
  PROVE  s \in StudentsGoneSince(cutoff) <=>
            DepartureDate(s) # None /\ DepartureDate(s) <= cutoff
  BY NoneIsNull DEF StudentsGoneSince, DepartureDate

LEMMA ExpiredMeansOutOfTime == TypeOK => ExpiredAsPromised
<1> SUFFICES ASSUME TypeOK, NEW m \in Live
             PROVE  m \in MediaExpired <=> OutOfTime(m)
  BY DEF ExpiredAsPromised
<1> DEFINE cutoff == today - Window
<1>1. cutoff \in Int
  BY RetentionWindow, DayBound DEF TypeOK, Days
<1>2. tags[m] \subseteq Students
  BY DEF TypeOK, Live
<1>3. CASE tags[m] = {}
  BY <1>3 DEF MediaExpired, OutOfTime
<1>4. CASE tags[m] # {}
  <2>1. m \in MediaExpired <=> tags[m] \cap (Students \ StudentsGoneSince(cutoff)) = {}
    BY <1>4 DEF MediaExpired
  <2>2. m \in MediaExpired <=> \A s \in tags[m] : s \in StudentsGoneSince(cutoff)
    BY <2>1, <1>2
  <2>3. \A s \in tags[m] : s \in StudentsGoneSince(cutoff) <=>
            DepartureDate(s) # None /\ DepartureDate(s) <= cutoff
    BY <1>1, <1>2, GoneIsDeparted
  <2> QED
    BY <2>2, <2>3, <1>4 DEF OutOfTime
<1> QED
  BY <1>3, <1>4

\* media_expired_by_retention selects the photographs the retention rule names,
\* one child at a time through departure_date, and no others.
THEOREM SweepFollowsTheRule == Spec => []ExpiredAsPromised
  BY RetentionTypeCorrect, ExpiredMeansOutOfTime, PTL

-----------------------------------------------------------------------------
\* A child with no open row before and after a step has left when it had left.
LEMMA DepartureStands ==
  ASSUME TypeOK, [Next]_vars, NEW s \in Students, ~HasOpenRow(s), ~HasOpenRow(s)'
  PROVE  lastLeft'[s] = lastLeft[s]
<1> USE DEF TypeOK, HasOpenRow, rollVars, photoVars
<1>1. CASE Office
  <2>1. ASSUME NEW t \in Students, NEW y \in Years, EnrollStudent(t, y)
        PROVE  lastLeft'[s] = lastLeft[s]
    BY <2>1 DEF EnrollStudent
  <2>2. ASSUME NEW t \in Students, WithdrawStudent(t)
        PROVE  lastLeft'[s] = lastLeft[s]
    BY <2>2 DEF WithdrawStudent
  <2>3. ASSUME NEW t \in Students, NEW new \in {"enrolled", "left"}, UpdateStudent(t, new)
        PROVE  lastLeft'[s] = lastLeft[s]
    BY <2>3 DEF UpdateStudent
  <2> QED
    BY <1>1, <2>1, <2>2, <2>3 DEF Office
<1>2. CASE NextDay
  BY <1>2 DEF NextDay
<1>3. CASE Staff
  <2>1. Staff => UNCHANGED rollVars
    BY DEF Staff, Upload, Tag, Untag, RecordEntry
  <2> QED
    BY <1>3, <2>1
<1>4. ASSUME NEW o \in Operators, Prune(o) PROVE lastLeft' = lastLeft
  BY <1>4 DEF Prune, StartErase, StartRetention, ForgetMedia, FinishErase,
              FinishRetention, Abort
<1>5. CASE UNCHANGED vars
  BY <1>5 DEF vars
<1> QED
  BY <1>1, <1>2, <1>3, <1>4, <1>5 DEF Next

\* Days do not go back, and a live photograph keeps its date until it is deleted.
LEMMA PhotographStands ==
  ASSUME TypeOK, [Next]_vars, NEW m \in Live
  PROVE  today' >= today /\ taken'[m] = taken[m] /\ media'[m] \in {"live", "gone"}
<1> USE DEF TypeOK, Live, Days, rollVars, photoVars
<1>1. CASE NextDay
  BY <1>1, DayBound DEF NextDay
<1>2. CASE Office
  <2>1. Office => UNCHANGED <<today, photoVars>>
    BY DEF Office, EnrollStudent, WithdrawStudent, UpdateStudent
  <2> QED
    BY <1>2, <2>1, DayBound
<1>3. ASSUME NEW n \in Photos, NEW day \in Days, Upload(n, day)
      PROVE  today' >= today /\ taken'[m] = taken[m] /\ media'[m] \in {"live", "gone"}
  BY <1>3, DayBound DEF Upload
<1>4. ASSUME NEW s \in Students, NEW n \in Photos, Tag(n, s) \/ Untag(n, s)
      PROVE  today' >= today /\ taken'[m] = taken[m] /\ media'[m] \in {"live", "gone"}
  BY <1>4, DayBound DEF Tag, Untag
<1>5. ASSUME NEW s \in Students, RecordEntry(s)
      PROVE  today' >= today /\ taken'[m] = taken[m] /\ media'[m] \in {"live", "gone"}
  BY <1>5, DayBound DEF RecordEntry
<1>6. ASSUME NEW o \in Operators, NEW n \in Photos, ForgetMedia(o, n)
      PROVE  today' >= today /\ taken'[m] = taken[m] /\ media'[m] \in {"live", "gone"}
  BY <1>6, DayBound DEF ForgetMedia
<1>7. ASSUME NEW o \in Operators,
             \/ \E s \in Students : StartErase(o, s)
             \/ StartRetention(o) \/ FinishErase(o) \/ FinishRetention(o) \/ Abort(o)
      PROVE  today' >= today /\ taken'[m] = taken[m] /\ media'[m] \in {"live", "gone"}
  BY <1>7, DayBound DEF StartErase, StartRetention, FinishErase, FinishRetention, Abort
<1>8. CASE UNCHANGED vars
  BY <1>8, DayBound DEF vars
<1> QED
  BY <1>1, <1>2, <1>3, <1>4, <1>5, <1>6, <1>7, <1>8 DEF Next, Staff, Prune

DryRunStep ==
    \A m \in MediaExpired :
        \/ m \in MediaExpired'
        \/ media'[m] = "gone"
        \/ tags'[m] # tags[m]
        \/ \E s \in tags[m] : HasOpenRow(s)'

LEMMA NextDryRun ==
  ASSUME TypeOK, TypeOK', ExpiredAsPromised, ExpiredAsPromised', [Next]_vars
  PROVE  DryRunStep
<1> SUFFICES ASSUME NEW m \in MediaExpired, media'[m] # "gone", tags'[m] = tags[m],
                    \A s \in tags[m] : ~HasOpenRow(s)'
             PROVE  m \in MediaExpired'
  BY DEF DryRunStep
<1>1. m \in Live /\ m \in Photos
  BY DEF MediaExpired, Live
<1>2. today' >= today /\ taken'[m] = taken[m] /\ m \in Live'
  BY <1>1, PhotographStands DEF Live
<1>3. OutOfTime(m)
  BY <1>1 DEF ExpiredAsPromised
<1>4. /\ today \in Int /\ today' \in Int /\ Window \in Int
      /\ taken[m] \in Int /\ tags[m] \subseteq Students
  BY <1>1, RetentionWindow, DayBound DEF TypeOK, Days
<1>5. CASE tags[m] = {}
  BY <1>2, <1>3, <1>4, <1>5 DEF OutOfTime, ExpiredAsPromised
<1>6. CASE tags[m] # {}
  <2>1. ASSUME NEW s \in tags[m]
        PROVE  /\ DepartureDate(s)' = DepartureDate(s)
               /\ DepartureDate(s) # None /\ DepartureDate(s) \in Int
               /\ DepartureDate(s) <= today - Window
    <3>1. DepartureDate(s) # None /\ DepartureDate(s) <= today - Window
      BY <1>3, <1>6 DEF OutOfTime
    <3>2. s \in Students /\ ~HasOpenRow(s) /\ ~HasOpenRow(s)'
      BY <1>4, <3>1 DEF DepartureDate
    <3>3. lastLeft'[s] = lastLeft[s]
      BY <3>2, DepartureStands
    <3> QED
      BY <3>1, <3>2, <3>3, DayBound DEF DepartureDate, TypeOK, Days
  <2>2. OutOfTime(m)'
    BY <1>2, <1>4, <1>6, <2>1 DEF OutOfTime
  <2> QED
    BY <1>2, <2>2 DEF ExpiredAsPromised
<1> QED
  BY <1>5, <1>6

\* What an operator read in the dry run is still right at the commit, unless the
\* photograph, its tags or its children's enrolments were touched in between.
THEOREM DryRunIsStillTrue == Spec => DryRunStands
<1>1. TypeOK /\ TypeOK' /\ ExpiredAsPromised /\ ExpiredAsPromised' /\ [Next]_vars
      => DryRunStep
  BY NextDryRun
<1>2. DryRunStep => [DryRunStep]_vars
  OBVIOUS
<1>3. [][DryRunStep]_vars => DryRunStands
  BY DEF DryRunStep, DryRunStands
<1> QED
  BY <1>1, <1>2, <1>3, RetentionTypeCorrect, SweepFollowsTheRule, PTL DEF Spec

-----------------------------------------------------------------------------
\* A command erasing a child still holds every photograph owed to the child that
\* it has not deleted.  With it, the last transaction untags nothing that lives.
RunHoldsWhatIsOwed ==
    \A o \in Operators, s \in Students, m \in Photos :
        <<s, m>> \in owed /\ job[o].child = s =>
            media[m] = "gone" \/ m \in job[o].doomed

OneRunPerChild ==
    \A o, p \in Operators :
        job[o].child # None /\ job[o].child = job[p].child => o = p

ErasureInv == TypeOK /\ ErasureRepeatable /\ RunHoldsWhatIsOwed /\ OneRunPerChild

LEMMA InitErasureInv == Init => ErasureInv
  BY InitTypeOK
     DEF Init, ErasureInv, ErasureRepeatable, RunHoldsWhatIsOwed, OneRunPerChild, Idle

LEMMA NextErasureInv == ErasureInv /\ [Next]_vars => ErasureInv'
<1> SUFFICES ASSUME ErasureInv, [Next]_vars PROVE ErasureInv'
  OBVIOUS
<1> USE NoneIsNull DEF ErasureInv, ErasureRepeatable, RunHoldsWhatIsOwed,
        OneRunPerChild, rollVars, photoVars
<1>0. TypeOK'
  BY NextTypeOK
<1>1. CASE NextDay \/ Office
  BY <1>0, <1>1
     DEF NextDay, Office, EnrollStudent, WithdrawStudent, UpdateStudent
<1>2. ASSUME NEW m \in Photos, NEW day \in Days, Upload(m, day) PROVE ErasureInv'
  BY <1>0, <1>2 DEF Upload, TypeOK
<1>3. ASSUME NEW m \in Photos, NEW s \in Students, Tag(m, s) PROVE ErasureInv'
  BY <1>0, <1>3 DEF Tag, TypeOK
<1>4. ASSUME NEW m \in Photos, NEW s \in Students, Untag(m, s) PROVE ErasureInv'
  BY <1>0, <1>4 DEF Untag, TypeOK
<1>5. ASSUME NEW s \in Students, RecordEntry(s) PROVE ErasureInv'
  BY <1>0, <1>5 DEF RecordEntry
<1>6. ASSUME NEW o \in Operators, NEW s \in Students, StartErase(o, s) PROVE ErasureInv'
  BY <1>0, <1>6 DEF StartErase, NotBeingErased, Alone, Shows, Live, TypeOK, Command
<1>7. ASSUME NEW o \in Operators, StartRetention(o) PROVE ErasureInv'
  BY <1>0, <1>7 DEF StartRetention, TypeOK, Command
<1>8. ASSUME NEW o \in Operators, NEW m \in Photos, ForgetMedia(o, m) PROVE ErasureInv'
  BY <1>0, <1>8 DEF ForgetMedia, TypeOK, Command
<1>9. ASSUME NEW o \in Operators, FinishErase(o) PROVE ErasureInv'
  BY <1>0, <1>9 DEF FinishErase, TypeOK, Command, Idle
<1>10. ASSUME NEW o \in Operators, FinishRetention(o) \/ Abort(o) PROVE ErasureInv'
  <2>1. /\ job' = [job EXCEPT ![o] = Idle]
        /\ UNCHANGED <<media, tags, owed>>
    BY <1>10 DEF FinishRetention, Abort
  <2>2. \A p \in Operators : job'[p] = Idle \/ job'[p] = job[p]
    BY <2>1 DEF TypeOK
  <2>3. RunHoldsWhatIsOwed'
    BY <2>1, <2>2 DEF Idle
  <2>4. OneRunPerChild'
    BY <2>1, <2>2 DEF Idle
  <2> QED
    BY <1>0, <2>1, <2>3, <2>4
<1>11. CASE UNCHANGED vars
  BY <1>0, <1>11 DEF vars
<1> QED
  BY <1>1, <1>2, <1>3, <1>4, <1>5, <1>6, <1>7, <1>8, <1>9, <1>10, <1>11
     DEF Next, Staff, Prune

\* An erasure that fails at any point, any number of times, can be run again: what
\* it set out to delete is gone or still carries the child's tag.
THEOREM ErasureCanBeRerun == Spec => []ErasureRepeatable
<1>1. Init => ErasureInv
  BY InitErasureInv
<1>2. ErasureInv /\ [Next]_vars => ErasureInv'
  BY NextErasureInv
<1>3. ErasureInv => ErasureRepeatable
  BY DEF ErasureInv
<1> QED
  BY <1>1, <1>2, <1>3, PTL DEF Spec
=============================================================================
