------------------------------- MODULE Admissions -------------------------------
(***************************************************************************)
(* The admissions queue: an enquiry from the public contact form           *)
(* (website/views.py, services.py), and the one screen that turns it, or a *)
(* walk-in family, into a child on the books with a guardian, a login and  *)
(* answers about consent (people/views.py, services.py, admit_family).     *)
(*                                                                         *)
(* The admission is one transaction.  The check that an enquiry has not    *)
(* been admitted yet is made by the view before it, on the row it read.    *)
(*                                                                         *)
(* A telephone number is what families are matched by, and it is matched   *)
(* as it is written, so a number here has the ways people write it: the    *)
(* digits in front of its ten, and whether there are spaces and dashes.    *)
(***************************************************************************)
EXTENDS Integers, Sequences, FiniteSets

CONSTANTS
    Enquiries,
    Children,    \* Student rows
    Numbers,     \* telephones: ten digits, the first of them no zero
    Ways,        \* the ways a number gets written
    Posts,       \* admission requests running at once
    None         \* SQL NULL

\* The ten digits and nothing else.
Plain == [lead |-> <<>>, spaced |-> FALSE]

ASSUME WaysOfWriting ==
    /\ \A w \in Ways : DOMAIN w = {"lead", "spaced"} /\ w.lead \in Seq(0 .. 9) /\ w.spaced \in BOOLEAN
    /\ Plain \in Ways

EnquiryStatus == {"new", "contacted", "visited", "admitted", "lost"}

Phone == [number : Numbers, written : Ways]

Enquiry == [phone : Phone, status : EnquiryStatus]

\* A child's row with its primary guardian, whom a phone names, and, as history,
\* the enquiry it was admitted from.
Student == [guardian : Phone, enquiry : Enquiries \cup {None}]

\* A request between its steps, and the enquiry it converts, if any.
Post == [enquiry : Enquiries \cup {None}]

ASSUME NoneIsNull == None \notin Enquiries \cup Phone \cup Enquiry \cup Student \cup Post

VARIABLES
    enquiry,     \* Enquiry
    student,     \* Student
    guardian,    \* Guardian rows, by phone: unique in a branch
    account,     \* User rows, by phone: unique
    answered,    \* the accounts with answers about consent
    post,        \* the requests
    overlapped,  \* history: enquiries two requests were converting at once
    byHand       \* history: enquiries an operator edited in the admin

people == <<student, guardian, account, answered>>
vars == <<enquiry, people, post, overlapped, byHand>>

\* The types, and the references: a child's guardian is on the books, and so is
\* the account of an answer.
TypeOK ==
    /\ enquiry \in [Enquiries -> Enquiry \cup {None}]
    /\ student \in [Children -> Student \cup {None}]
    /\ guardian \subseteq Phone
    /\ account \subseteq guardian
    /\ answered \subseteq account
    /\ post \in [Posts -> Post \cup {None}]
    /\ overlapped \subseteq Enquiries
    /\ byHand \subseteq Enquiries
    /\ \A c \in Children : student[c] # None => student[c].guardian \in guardian

Init ==
    /\ enquiry = [e \in Enquiries |-> None]
    /\ student = [c \in Children |-> None]
    /\ guardian = {}
    /\ account = {}
    /\ answered = {}
    /\ post = [q \in Posts |-> None]
    /\ overlapped = {}
    /\ byHand = {}

-------------------------------------------------------------------------------
(***************************************************************************)
(* The public form, and the queue                                          *)
(***************************************************************************)
\* removeprefix("91"), of what is twelve digits with the ten of the number.
WithoutCode(lead) == IF Len(lead) = 2 /\ lead = <<9, 1>> THEN <<>> ELSE lead

\* lstrip("0"); the number itself does not start with one.
WithoutZeros(lead) ==
    LET zeros == {i \in 1 .. Len(lead) : \A j \in 1 .. i : lead[j] = 0}
    IN  SubSeq(lead, Cardinality(zeros) + 1, Len(lead))

\* clean_phone: the digits, then without the country code, then without zeros.
CleanPhone(p) ==
    [number |-> p.number,
     written |-> [lead |-> WithoutZeros(WithoutCode(p.written.lead)), spaced |-> FALSE]]

\* What is left is ten digits.
IsTenDigits(p) == p.written.lead = <<>>

\* The contact page.  A number that does not come to ten digits is refused.
Contact(e, p) ==
    /\ enquiry[e] = None
    /\ IsTenDigits(CleanPhone(p))
    /\ enquiry' = [enquiry EXCEPT ![e] = [phone |-> CleanPhone(p), status |-> "new"]]
    /\ UNCHANGED <<people, post, overlapped, byHand>>

\* EnquiryAdmin saves every field of its form, the status and the phone with it,
\* as the page has them.
AdminSaves(e, p, status) ==
    /\ enquiry[e] # None
    /\ enquiry' = [enquiry EXCEPT ![e] = [phone |-> p, status |-> status]]
    /\ byHand' = byHand \cup {e}
    /\ UNCHANGED <<people, post, overlapped>>

OpenEnquiries == {e \in Enquiries : enquiry[e] # None /\ enquiry[e].status \notin {"admitted", "lost"}}

(***************************************************************************)
(* The admission screen                                                    *)
(***************************************************************************)
\* Variant: the check is left to the page, which offers no link for an admitted
\* enquiry.
OpenConvert_NoCheck(q, e) ==
    /\ post[q] = None
    /\ enquiry[e] # None
    /\ post' = [post EXCEPT ![q] = [enquiry |-> e]]
    /\ overlapped' = overlapped \cup
         {f \in {e} : \E o \in Posts : post[o] # None /\ post[o].enquiry = e}
    /\ UNCHANGED <<enquiry, people, byHand>>

\* enquiry_convert, on a POST: the enquiry is read, and turned away if admitted.
OpenConvert(q, e) ==
    /\ post[q] = None
    /\ enquiry[e] # None
    /\ enquiry[e].status # "admitted"
    /\ post' = [post EXCEPT ![q] = [enquiry |-> e]]
    /\ overlapped' = overlapped \cup
         {f \in {e} : \E o \in Posts : post[o] # None /\ post[o].enquiry = e}
    /\ UNCHANGED <<enquiry, people, byHand>>

\* student_new: a family at the gate.
OpenWalkIn(q) ==
    /\ post[q] = None
    /\ post' = [post EXCEPT ![q] = [enquiry |-> None]]
    /\ UNCHANGED <<enquiry, people, overlapped, byHand>>

\* get_or_create, on the phone as it was posted.
CreateGuardian(p) == guardian' = guardian \cup {p}

\* admit_student: the child, its guardian and the link.
AdmitStudent(c, p, e) ==
    /\ student[c] = None
    /\ student' = [student EXCEPT ![c] = [guardian |-> p, enquiry |-> e]]
    /\ CreateGuardian(p)

\* get_or_create again: the office will click the button twice.
CreateAccount(p) == account' = account \cup {p}

RecordConsents(p) == answered' = answered \cup {p}

\* Variant: the answers are written whether or not a login was wanted.
OpenAccount_AnswersAnyway(p, opens) ==
    /\ IF opens THEN CreateAccount(p) ELSE UNCHANGED account
    /\ RecordConsents(p)

\* create_portal_account and record_consents; a family that declines a login is
\* not asked.
OpenAccount(p, opens) ==
    IF opens THEN CreateAccount(p) /\ RecordConsents(p)
             ELSE UNCHANGED <<account, answered>>

\* Variant: the screen admits the family and leaves the enquiry to the queue.
ConvertEnquiry_LeavesOpen(e) == UNCHANGED enquiry

\* set_enquiry_status at the end of convert_enquiry, whatever the row has become.
ConvertEnquiry(e) ==
    IF e = None THEN UNCHANGED enquiry
                ELSE enquiry' = [enquiry EXCEPT ![e].status = "admitted"]

\* admit_family or convert_enquiry: one transaction.  The phone is whatever the
\* office leaves or types in the field; the form does not clean it.
Admit(q, c, p, opens) ==
    /\ post[q] # None
    /\ AdmitStudent(c, p, post[q].enquiry)
    /\ OpenAccount(p, opens)
    /\ ConvertEnquiry(post[q].enquiry)
    /\ post' = [post EXCEPT ![q] = None]
    /\ UNCHANGED <<overlapped, byHand>>

\* The form is refused, or the worker is stopped and the transaction with it.
ClosePost(q) ==
    /\ post[q] # None
    /\ post' = [post EXCEPT ![q] = None]
    /\ UNCHANGED <<enquiry, people, overlapped, byHand>>

Queue ==
    \E e \in Enquiries, p \in Phone :
        \/ Contact(e, p)
        \/ \E status \in EnquiryStatus : AdminSaves(e, p, status)

AdmissionScreen(q) ==
    \/ \E e \in Enquiries : OpenConvert(q, e)
    \/ OpenWalkIn(q)
    \/ \E c \in Children, p \in Phone, opens \in BOOLEAN : Admit(q, c, p, opens)
    \/ ClosePost(q)

Next == Queue \/ \E q \in Posts : AdmissionScreen(q)

Spec == Init /\ [][Next]_vars

-------------------------------------------------------------------------------
(***************************************************************************)
(* Correctness                                                             *)
(***************************************************************************)
AdmittedFrom(e) == {c \in Children : student[c] # None /\ student[c].enquiry = e}

\* "An already-converted enquiry is refused rather than converted again ... a
\* double-click, a back-then-resubmit, or the office working the queue in two
\* tabs": an enquiry becomes one child, however many pages of it are open, as long
\* as no two posts of it run at the same moment and nobody reopens it by hand.
OneChildPerEnquiry ==
    \A e \in Enquiries \ (overlapped \cup byHand) :
        \A b, c \in AdmittedFrom(e) : b = c

\* "An enquiry marked admitted with no student behind it, or a student whose
\* enquiry still sits in the queue for somebody to chase, are both worse than
\* failing outright": unless an operator set it by hand, an enquiry is in the
\* queue exactly until there is a child from it, however many requests were at it.
QueueTellsTruth ==
    \A e \in Enquiries \ byHand : enquiry[e] # None =>
        (e \in OpenEnquiries <=> AdmittedFrom(e) = {})

\* Against "the office types the same mother in twice; two guardian rows then split
\* one family's children across two portal accounts" (create_guardian): children
\* admitted under one number have one guardian.  It does not hold: the match is on
\* the number as it is written, and the admission form does not clean it.
FamiliesStayTogether ==
    \A b, c \in {c \in Children : student[c] # None} :
        student[b].guardian.number = student[c].guardian.number =>
            student[b].guardian = student[c].guardian
===============================================================================
