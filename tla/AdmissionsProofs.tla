--------------------------- MODULE AdmissionsProofs ---------------------------
(***************************************************************************)
(* Proofs about Admissions, for any numbers of enquiries, children, phones *)
(* and requests: typing and references, one child per enquiry, the truth   *)
(* of the queue, and what the public form takes for a number.              *)
(***************************************************************************)
EXTENDS Admissions, FiniteSetTheorems, TLAPS

\* A request is of an enquiry there is.  Of an enquiry nobody touched by hand, one
\* request at most is at work unless two overlapped, and it has no child yet.
PostsAreFirst ==
    \A q \in Posts : post[q] # None /\ post[q].enquiry # None =>
        LET e == post[q].enquiry
        IN  /\ enquiry[e] # None
            /\ e \notin overlapped \cup byHand =>
                 /\ \A c \in Children : student[c] # None => student[c].enquiry # e
                 /\ \A o \in Posts : post[o] # None /\ post[o].enquiry = e => o = q

\* The queue of what nobody touched by hand, child by child.
QueueIsKept ==
    \A e \in Enquiries \ byHand :
        /\ enquiry[e] # None => enquiry[e].status \in {"new", "admitted"}
        /\ (enquiry[e] # None /\ enquiry[e].status = "admitted") <=>
             \E c \in Children : student[c] # None /\ student[c].enquiry = e

AdmissionsInv ==
    TypeOK /\ PostsAreFirst /\ QueueIsKept /\ OneChildPerEnquiry

LEMMA InitInv == Init => AdmissionsInv
  BY NoneIsNull DEF Init, AdmissionsInv, TypeOK, PostsAreFirst, QueueIsKept,
     OneChildPerEnquiry, AdmittedFrom

-------------------------------------------------------------------------------
\* What clean_phone accepts is the number as ten digits.
LEMMA AcceptedIsPlain ==
  ASSUME NEW p \in Phone, IsTenDigits(CleanPhone(p))
  PROVE  CleanPhone(p) = [number |-> p.number, written |-> Plain]
  BY DEF Phone, IsTenDigits, CleanPhone, Plain

-------------------------------------------------------------------------------
\* The public form and the admin write enquiries and nothing else.
LEMMA QueueKeepsInv ==
  ASSUME AdmissionsInv, NEW e \in Enquiries, NEW p \in Phone,
         \/ Contact(e, p)
         \/ \E status \in EnquiryStatus : AdminSaves(e, p, status)
  PROVE  AdmissionsInv'
<1> USE NoneIsNull DEF AdmissionsInv, TypeOK, people
<1>1. CASE Contact(e, p)
  <2> USE <1>1 DEF Contact
  <2>1. /\ enquiry' = [enquiry EXCEPT ![e] = [phone |-> CleanPhone(p), status |-> "new"]]
        /\ CleanPhone(p) \in Phone
    BY AcceptedIsPlain, WaysOfWriting DEF Phone
  <2>2. [phone |-> CleanPhone(p), status |-> "new"] \in Enquiry
    BY <2>1 DEF Enquiry, EnquiryStatus
  <2>3. TypeOK'
    BY <2>1, <2>2
  <2>4. PostsAreFirst'
    BY <2>1, <2>2 DEF PostsAreFirst
  <2>5. QueueIsKept' /\ OneChildPerEnquiry'
    BY <2>1, <2>2 DEF QueueIsKept, OneChildPerEnquiry, AdmittedFrom
  <2> QED
    BY <2>3, <2>4, <2>5
<1>2. ASSUME NEW status \in EnquiryStatus, AdminSaves(e, p, status)
      PROVE  AdmissionsInv'
  <2> USE <1>2 DEF AdminSaves
  <2>1. [phone |-> p, status |-> status] \in Enquiry
    BY DEF Enquiry
  <2>2. TypeOK'
    BY <2>1
  <2>3. PostsAreFirst'
    BY <2>1 DEF PostsAreFirst
  <2>4. QueueIsKept' /\ OneChildPerEnquiry'
    BY DEF QueueIsKept, OneChildPerEnquiry, AdmittedFrom
  <2> QED
    BY <2>2, <2>3, <2>4
<1> QED
  BY <1>1, <1>2

\* Opening or closing a request changes no row.
LEMMA PostsKeepInv ==
  ASSUME AdmissionsInv, NEW q \in Posts,
         \/ \E e \in Enquiries : OpenConvert(q, e)
         \/ OpenWalkIn(q)
         \/ ClosePost(q)
  PROVE  AdmissionsInv'
<1> USE NoneIsNull DEF AdmissionsInv, TypeOK, people
<1>1. ASSUME NEW e \in Enquiries, OpenConvert(q, e)
      PROVE  AdmissionsInv'
  <2> USE <1>1 DEF OpenConvert
  <2> DEFINE new == [enquiry |-> e]
  <2>1. new \in Post /\ post' = [post EXCEPT ![q] = new]
    BY DEF Post, Enquiry
  <2>2. TypeOK'
    BY <2>1
  <2>3. PostsAreFirst'
    <3>1. e \notin overlapped' \cup byHand =>
            /\ \A c \in Children : student[c] # None => student[c].enquiry # e
            /\ \A o \in Posts : post[o] # None => post[o].enquiry # e
      BY DEF QueueIsKept
    <3> QED
      BY <2>1, <3>1 DEF PostsAreFirst
  <2>4. QueueIsKept' /\ OneChildPerEnquiry'
    BY DEF QueueIsKept, OneChildPerEnquiry, AdmittedFrom
  <2> QED
    BY <2>2, <2>3, <2>4
<1>2. CASE OpenWalkIn(q)
  <2> USE <1>2 DEF OpenWalkIn
  <2>1. [enquiry |-> None] \in Post
    BY DEF Post
  <2>2. TypeOK' /\ PostsAreFirst' /\ QueueIsKept' /\ OneChildPerEnquiry'
    BY <2>1 DEF PostsAreFirst, QueueIsKept, OneChildPerEnquiry, AdmittedFrom
  <2> QED
    BY <2>2
<1>3. CASE ClosePost(q)
  <2>1. TypeOK' /\ PostsAreFirst' /\ QueueIsKept' /\ OneChildPerEnquiry'
    BY <1>3 DEF ClosePost, PostsAreFirst, QueueIsKept, OneChildPerEnquiry, AdmittedFrom
  <2> QED
    BY <2>1
<1> QED
  BY <1>1, <1>2, <1>3

\* An admission: a new child, and its enquiry, if it has one, admitted with it.
LEMMA AdmitKeepsInv ==
  ASSUME AdmissionsInv, NEW q \in Posts, NEW c \in Children, NEW p \in Phone,
         NEW opens \in BOOLEAN, Admit(q, c, p, opens)
  PROVE  AdmissionsInv'
<1> USE NoneIsNull DEF AdmissionsInv, TypeOK
<1> DEFINE e == post[q].enquiry
           new == [guardian |-> p, enquiry |-> e]
<1>1. /\ post[q] # None
      /\ post' = [post EXCEPT ![q] = None]
      /\ student[c] = None
      /\ student' = [student EXCEPT ![c] = new]
      /\ guardian' = guardian \cup {p}
      /\ UNCHANGED <<overlapped, byHand>>
      /\ \/ account' = account \cup {p} /\ answered' = answered \cup {p}
         \/ UNCHANGED <<account, answered>>
  BY DEF Admit, AdmitStudent, CreateGuardian, OpenAccount, CreateAccount, RecordConsents
<1>2. post[q] \in Post /\ e \in Enquiries \cup {None} /\ new \in Student
  BY <1>1 DEF Post, Student
<1>3. /\ e = None => enquiry' = enquiry
      /\ e # None => /\ enquiry[e] \in Enquiry
                     /\ enquiry' = [enquiry EXCEPT ![e].status = "admitted"]
                     /\ enquiry'[e] \in Enquiry
                     /\ enquiry'[e].phone = enquiry[e].phone
                     /\ enquiry'[e].status = "admitted"
  <2>1. CASE e = None
    BY <2>1 DEF Admit, ConvertEnquiry
  <2>2. CASE e # None
    <3>1. enquiry[e] \in Enquiry
      BY <1>1, <1>2, <2>2 DEF PostsAreFirst
    <3>2. enquiry' = [enquiry EXCEPT ![e].status = "admitted"]
      BY <2>2 DEF Admit, ConvertEnquiry
    <3> QED
      BY <1>2, <2>2, <3>1, <3>2 DEF Enquiry, EnquiryStatus
  <2> QED
    BY <2>1, <2>2
<1>4. TypeOK'
  BY <1>1, <1>2, <1>3 DEF Student
<1>5. PostsAreFirst'
  <2> SUFFICES ASSUME NEW r \in Posts, post'[r] # None, post'[r].enquiry # None
               PROVE  LET f == post'[r].enquiry
                      IN  /\ enquiry'[f] # None
                          /\ f \notin overlapped' \cup byHand' =>
                               /\ \A d \in Children : student'[d] # None => student'[d].enquiry # f
                               /\ \A o \in Posts : post'[o] # None /\ post'[o].enquiry = f => o = r
    BY DEF PostsAreFirst
  <2> DEFINE f == post[r].enquiry
  <2>1. r # q /\ post'[r] = post[r] /\ f \in Enquiries
    BY <1>1, <1>2 DEF Post
  <2>2. enquiry[f] # None /\ enquiry'[f] # None
    BY <1>2, <1>3, <2>1 DEF PostsAreFirst
  <2>3. ASSUME f \notin overlapped \cup byHand
        PROVE  /\ f # e
               /\ \A d \in Children : student[d] # None => student[d].enquiry # f
               /\ \A o \in Posts : post[o] # None /\ post[o].enquiry = f => o = r
    BY <1>1, <2>1, <2>3 DEF PostsAreFirst
  <2> QED
    BY <1>1, <2>1, <2>2, <2>3
<1>6. QueueIsKept'
  BY <1>1, <1>2, <1>3 DEF QueueIsKept
<1>7. OneChildPerEnquiry'
  <2>1. e \in Enquiries \ (overlapped \cup byHand) =>
          \A d \in Children : student[d] # None => student[d].enquiry # e
    BY <1>1 DEF PostsAreFirst
  <2> QED
    BY <1>1, <1>2, <2>1 DEF OneChildPerEnquiry, AdmittedFrom
<1> QED
  BY <1>4, <1>5, <1>6, <1>7

LEMMA NextInv == AdmissionsInv /\ [Next]_vars => AdmissionsInv'
<1> SUFFICES ASSUME AdmissionsInv, [Next]_vars PROVE AdmissionsInv'
  OBVIOUS
<1>1. CASE Queue
  BY <1>1, QueueKeepsInv DEF Queue
<1>2. ASSUME NEW q \in Posts, AdmissionScreen(q) PROVE AdmissionsInv'
  BY <1>2, PostsKeepInv, AdmitKeepsInv DEF AdmissionScreen
<1>3. CASE UNCHANGED vars
  BY <1>3 DEF vars, people, AdmissionsInv, TypeOK, PostsAreFirst, QueueIsKept,
     OneChildPerEnquiry, AdmittedFrom
<1> QED
  BY <1>1, <1>2, <1>3 DEF Next

THEOREM AdmissionsInvariant == Spec => []AdmissionsInv
<1>1. Init => AdmissionsInv
  BY InitInv
<1>2. AdmissionsInv /\ [Next]_vars => AdmissionsInv'
  BY NextInv
<1> QED
  BY <1>1, <1>2, PTL DEF Spec

-------------------------------------------------------------------------------
\* Types and references: a child's guardian is on the books, an account is a
\* guardian's, and only accounts have answers.
THEOREM AdmissionsTypeCorrect == Spec => []TypeOK
BY AdmissionsInvariant, PTL DEF AdmissionsInv

\* An enquiry becomes one child, unless two posts of it overlapped or an operator
\* reopened it by hand.
THEOREM EnquiryBecomesOneChild == Spec => []OneChildPerEnquiry
BY AdmissionsInvariant, PTL DEF AdmissionsInv

LEMMA KeptQueueTellsTruth == AdmissionsInv => QueueTellsTruth
  BY NoneIsNull DEF AdmissionsInv, QueueIsKept, QueueTellsTruth, OpenEnquiries, AdmittedFrom

\* The queue holds exactly the enquiries that still have no child.
THEOREM QueueIsTrue == Spec => []QueueTellsTruth
BY AdmissionsInvariant, KeptQueueTellsTruth, PTL

-------------------------------------------------------------------------------
LEMMA NoZerosInFront ==
  ASSUME NEW lead \in Seq(0 .. 9), lead = <<>> \/ lead[1] # 0
  PROVE  WithoutZeros(lead) = lead
<1> DEFINE zeros == {i \in 1 .. Len(lead) : \A j \in 1 .. i : lead[j] = 0}
<1>1. zeros = {}
  <2>1. Len(lead) \in Nat /\ (lead = <<>> => Len(lead) = 0)
    OBVIOUS
  <2>2. ASSUME NEW i \in zeros
        PROVE  FALSE
    <3>1. 1 \in 1 .. i /\ lead # <<>>
      BY <2>1, <2>2
    <3> QED
      BY <2>2, <3>1
  <2> QED
    BY <2>2
<1>2. Cardinality(zeros) = 0
  BY <1>1, FS_EmptySet
<1>3. WithoutZeros(lead) = SubSeq(lead, Cardinality(zeros) + 1, Len(lead))
  BY DEF WithoutZeros
<1> HIDE DEF zeros
<1>4. WithoutZeros(lead) = SubSeq(lead, 1, Len(lead))
  BY <1>2, <1>3
<1> QED
  BY <1>4

\* "Indian mobile numbers arrive as '98765 43210', '+91 98765 43210', and
\* '098765-43210'. Rejecting any of those loses a real family over formatting"
\* (clean_phone): with spaces and dashes or without, each of the three is accepted,
\* and as the number's own ten digits.
THEOREM UsualNumbersAreTaken ==
  ASSUME NEW n \in Numbers, NEW spaced \in BOOLEAN, NEW lead \in {<<>>, << 0 >>, <<9, 1>>}
  PROVE  CleanPhone([number |-> n, written |-> [lead |-> lead, spaced |-> spaced]])
           = [number |-> n, written |-> Plain]
<1>1. WithoutZeros(WithoutCode(lead)) = <<>>
  <2>0. WithoutZeros(<<>>) = <<>>
    <3>1. <<>> \in Seq(0 .. 9)
      OBVIOUS
    <3> QED
      BY <3>1, NoZerosInFront
  <2>1. CASE lead = <<>>
    BY <2>0, <2>1 DEF WithoutCode
  <2>2. CASE lead = <<9, 1>>
    BY <2>0, <2>2 DEF WithoutCode
  <2>3. CASE lead = << 0 >>
    <3> DEFINE zeros == {i \in 1 .. Len(lead) : \A j \in 1 .. i : lead[j] = 0}
    <3>1. WithoutCode(lead) = lead /\ Len(lead) = 1 /\ lead[1] = 0
      BY <2>3 DEF WithoutCode
    <3>2. zeros = {1}
      BY <3>1
    <3>3. Cardinality(zeros) = 1
      BY <3>2, FS_Singleton
    <3>4. SubSeq(lead, 2, 1) = <<>>
      BY <2>3
    <3>5. WithoutZeros(lead) = SubSeq(lead, Cardinality(zeros) + 1, Len(lead))
      BY DEF WithoutZeros
    <3> HIDE DEF zeros
    <3> QED
      BY <3>1, <3>3, <3>4, <3>5
  <2> QED
    BY <2>1, <2>2, <2>3
<1> QED
  BY <1>1 DEF CleanPhone, Plain
===============================================================================
