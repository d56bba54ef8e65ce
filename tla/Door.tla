---------------------------------- MODULE Door ----------------------------------
(***************************************************************************)
(* The door: who collects a child (attendance/services.py, release_*, and  *)
(* the pickup view).  Against the attendance record of one child and one   *)
(* day stands at most one PickupRecord, naming an authorised pickup, a     *)
(* guardian, or somebody on no list with a reason.                         *)
(*                                                                         *)
(* A release is a request of two steps: the view reads the child's lists   *)
(* and builds the form's choices from them, and the service writes in a    *)
(* transaction of its own.  The office edits the lists in between.         *)
(***************************************************************************)
EXTENDS Common

CONSTANTS
    Guardians,
    Pickups,     \* AuthorizedPickup rows
    Attended,    \* the attendance records: pairs of a child and a day
    Posts,       \* pickup requests running at once
    Texts,       \* what is written into the override's two fields
    Blank        \* the empty string, which the fields may also hold

Written == Texts \cup {Blank}

ASSUME RecordsOfChildren == Attended \subseteq Students \X Days
ASSUME PeopleAndWords ==
    /\ Pickups \cap Guardians = {}
    /\ (Pickups \cup Guardians) \cap Written = {}
    /\ Blank \notin Texts
    /\ None \notin Pickups \cup Guardians \cup Written

\* The check constraint of AuthorizedPickup: a window ends after it starts.
AuthorizedPickup ==
    {w \in [student : Students, valid_from : Days, valid_to : Days \cup {None}] :
        w.valid_to # None => w.valid_from <= w.valid_to}

\* The check constraint of PickupRecord: it identifies someone.
PickupRecord ==
    {c \in [authorized_pickup : Pickups \cup {None}, guardian : Guardians \cup {None},
            override_name : Written, override_reason : Written] :
        \/ c.authorized_pickup # None
        \/ c.guardian # None
        \/ c.override_name # Blank /\ c.override_reason # Blank}

\* A request between its steps: the record it is for, the rows of the pickups
\* and the guardians the view read.
Post ==
    [record : Attended, guardians : SUBSET Guardians,
     pickups : UNION {[P -> AuthorizedPickup] : P \in SUBSET Pickups}]

ASSUME NullIsNoRow == None \notin AuthorizedPickup \cup PickupRecord \cup Post

VARIABLES
    link,        \* StudentGuardian rows
    pickup,      \* AuthorizedPickup rows
    released,    \* PickupRecord, per attendance record
    post,        \* the requests
    onList,      \* history: who was on the child's list at some time in a request
    last         \* history: whom the last release of a record named

doorVars == <<link, pickup, released, post, onList, last>>

\* The types, and the PROTECT of the two foreign keys: a pickup a child has left
\* with stays in the table.
DoorTypeOK ==
    /\ link \subseteq Students \X Guardians
    /\ pickup \in [Pickups -> AuthorizedPickup \cup {None}]
    /\ released \in [Attended -> PickupRecord \cup {None}]
    /\ post \in [Posts -> Post \cup {None}]
    /\ onList \in [Posts -> SUBSET (Pickups \cup Guardians)]
    /\ last \in [Attended -> Pickups \cup Guardians \cup Texts \cup {None}]
    /\ \A r \in Attended :
         (released[r] # None /\ released[r].authorized_pickup # None) =>
            pickup[released[r].authorized_pickup] # None

DoorInit ==
    /\ link = {}
    /\ pickup = [p \in Pickups |-> None]
    /\ released = [r \in Attended |-> None]
    /\ post = [q \in Posts |-> None]
    /\ onList = [q \in Posts |-> {}]
    /\ last = [r \in Attended |-> None]

-------------------------------------------------------------------------------
(***************************************************************************)
(* Reads                                                                   *)
(***************************************************************************)
\* is_valid_on: the question asked of a row in memory.
IsValidOn(w, d) == w.valid_from <= d /\ (w.valid_to # None => d <= w.valid_to)

\* Variant: the last day of the window is outside it.
ValidPickupsFor_EndExcluded(s, d) ==
    {p \in {p \in Pickups : pickup[p] # None} :
        /\ pickup[p].student = s
        /\ pickup[p].valid_from <= d
        /\ pickup[p].valid_to # None => pickup[p].valid_to > d}

\* valid_pickups_for: the same question as a query.
ValidPickupsFor(s, d) ==
    {p \in {p \in Pickups : pickup[p] # None} :
        /\ pickup[p].student = s
        /\ pickup[p].valid_from <= d
        /\ pickup[p].valid_to # None => pickup[p].valid_to >= d}

GuardiansForStudent(s) == {g \in Guardians : <<s, g>> \in link}

\* Who may collect the child of a record on its day.
ListFor(r) == ValidPickupsFor(r[1], r[2]) \cup GuardiansForStudent(r[1])

\* PickupRecord.collected_by and was_override.
CollectedBy(c) ==
    IF c.authorized_pickup # None THEN c.authorized_pickup
    ELSE IF c.guardian # None THEN c.guardian ELSE c.override_name

WasOverride(c) == c.authorized_pickup = None /\ c.guardian = None

-------------------------------------------------------------------------------
(***************************************************************************)
(* The office                                                              *)
(***************************************************************************)
\* After an edit, whoever is on a list a request is about has been on it.
Remember ==
    /\ UNCHANGED <<released, post, last>>
    /\ onList' = [q \in Posts |->
         IF post[q] = None THEN {} ELSE onList[q] \cup ListFor(post[q].record)']

LinkGuardian(s, g) ==
    /\ link' = link \cup {<<s, g>>}
    /\ UNCHANGED pickup
    /\ Remember

UnlinkGuardian(s, g) ==
    /\ link' = link \ {<<s, g>>}
    /\ UNCHANGED pickup
    /\ Remember

\* authorize_pickup, and an edit of the row in the admin: a window shortened, or
\* an authorisation moved to the other child.
SetPickup(p, w) ==
    /\ pickup' = [pickup EXCEPT ![p] = w]
    /\ UNCHANGED link
    /\ Remember

\* Variant: the foreign key does not protect the row.
DeletePickup_Unprotected(p) ==
    /\ pickup' = [pickup EXCEPT ![p] = None]
    /\ UNCHANGED link
    /\ Remember

\* PROTECT: the row stays once a child has left with this person.
DeletePickup(p) ==
    /\ \A r \in Attended : released[r] # None => released[r].authorized_pickup # p
    /\ pickup' = [pickup EXCEPT ![p] = None]
    /\ UNCHANGED link
    /\ Remember

(***************************************************************************)
(* The door                                                                *)
(***************************************************************************)
\* The view, on a POST: the record, and the lists the form's choices are built
\* from.
OpenPost(q, r) ==
    /\ post[q] = None
    /\ post' = [post EXCEPT ![q] =
         [record |-> r, guardians |-> GuardiansForStudent(r[1]),
          pickups |-> [p \in ValidPickupsFor(r[1], r[2]) |-> pickup[p]]]]
    /\ onList' = [onList EXCEPT ![q] = ListFor(r)]
    /\ UNCHANGED <<link, pickup, released, last>>

Nobody ==
    [authorized_pickup |-> None, guardian |-> None,
     override_name |-> Blank, override_reason |-> Blank]

\* Variant: a correction sets what it is about and leaves the rest.
WritePickup_OverOld(q, who) ==
    LET r   == post[q].record
        old == IF released[r] = None THEN Nobody ELSE released[r]
        new == [f \in DOMAIN Nobody |-> IF who[f] # Nobody[f] THEN who[f] ELSE old[f]]
    IN  /\ released' = [released EXCEPT ![r] = new]
        /\ last' = [last EXCEPT ![r] = CollectedBy(who)]
        /\ post' = [post EXCEPT ![q] = None]
        /\ onList' = [onList EXCEPT ![q] = {}]
        /\ UNCHANGED <<link, pickup>>

\* _write_pickup: one row per attendance record, every field of it written.
WritePickup(q, who) ==
    LET r == post[q].record
    IN  /\ released' = [released EXCEPT ![r] = who]
        /\ last' = [last EXCEPT ![r] = CollectedBy(who)]
        /\ post' = [post EXCEPT ![q] = None]
        /\ onList' = [onList EXCEPT ![q] = {}]
        /\ UNCHANGED <<link, pickup>>

\* Variant: the posted id is looked up in the table, not in the child's list, and
\* the window is left to the screen.
ReleaseToAuthorized_AnyRow(q, p) ==
    /\ post[q] # None
    /\ pickup[p] # None
    /\ WritePickup(q, [Nobody EXCEPT !.authorized_pickup = p])

\* The chosen person is picked from the list read at the start, and the window
\* and the child are checked on the row as it was read.  The write fails if the
\* row is gone by then.
ReleaseToAuthorized(q, p) ==
    /\ post[q] # None
    /\ p \in DOMAIN post[q].pickups
    /\ IsValidOn(post[q].pickups[p], post[q].record[2])
    /\ post[q].pickups[p].student = post[q].record[1]
    /\ pickup[p] # None
    /\ WritePickup(q, [Nobody EXCEPT !.authorized_pickup = p])

\* Picked from the list too, and the link is asked for again.
ReleaseToGuardian(q, g) ==
    /\ post[q] # None
    /\ g \in post[q].guardians
    /\ <<post[q].record[1], g>> \in link
    /\ WritePickup(q, [Nobody EXCEPT !.guardian = g])

\* The parent who phones ahead: both a name and a reason.
ReleaseWithOverride(q, name, reason) ==
    /\ post[q] # None
    /\ name # Blank /\ reason # Blank
    /\ WritePickup(q, [Nobody EXCEPT !.override_name = name, !.override_reason = reason])

\* The form or a service refuses, or the worker is stopped: the page comes back.
ClosePost(q) ==
    /\ post[q] # None
    /\ post' = [post EXCEPT ![q] = None]
    /\ onList' = [onList EXCEPT ![q] = {}]
    /\ UNCHANGED <<link, pickup, released, last>>

ListEdits ==
    \/ \E s \in Students, g \in Guardians : LinkGuardian(s, g) \/ UnlinkGuardian(s, g)
    \/ \E p \in Pickups : DeletePickup(p) \/ \E w \in AuthorizedPickup : SetPickup(p, w)

AtTheDoor(q) ==
    \/ \E r \in Attended : OpenPost(q, r)
    \/ \E p \in Pickups : ReleaseToAuthorized(q, p)
    \/ \E g \in Guardians : ReleaseToGuardian(q, g)
    \/ \E name, reason \in Written : ReleaseWithOverride(q, name, reason)
    \/ ClosePost(q)

DoorNext == ListEdits \/ \E q \in Posts : AtTheDoor(q)

DoorSpec == DoorInit /\ [][DoorNext]_doorVars

-------------------------------------------------------------------------------
(***************************************************************************)
(* Correctness                                                             *)
(***************************************************************************)

\* "Re-fetches the chosen person through the scoped lists rather than trusting
\* the posted id", "a screen is a suggestion and this is a safety record": a
\* release names somebody who was on this child's list for this day at some time
\* in a request for it, or a person on no list with a name and a reason.
ByRight ==
    \A r \in Attended : released'[r] \notin {released[r], None} =>
        \/ /\ WasOverride(released'[r])
           /\ released'[r].override_name # Blank /\ released'[r].override_reason # Blank
        \/ \E q \in Posts : /\ post[q] # None
                            /\ post[q].record = r
                            /\ CollectedBy(released'[r]) \in onList[q]

ReleasedByRight == [][ByRight]_doorVars

\* "A child released to the wrong person and corrected two minutes later should
\* end with one record saying what happened, not two disagreeing": the one field
\* a record is read back by names whom the last release named, and no record
\* names two.
LastReleaseStands ==
    \A r \in Attended : released[r] # None =>
        LET c     == released[r]
            named == {c.authorized_pickup, c.guardian, c.override_name} \ {None, Blank}
        IN  /\ CollectedBy(c) = last[r]
            /\ named = {last[r]}
            /\ WasOverride(c) <=> last[r] \in Texts

\* The window is asked about twice, by a query and of a row: a pickup of this
\* child is on the screen on a day exactly when a release to it would be taken.
OfferedIsAccepted ==
    \A s \in Students, d \in Days, p \in Pickups : pickup[p] # None =>
        (p \in ValidPickupsFor(s, d) <=> pickup[p].student = s /\ IsValidOn(pickup[p], d))
===============================================================================
