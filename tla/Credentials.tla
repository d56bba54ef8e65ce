------------------------------ MODULE Credentials ------------------------------
(***************************************************************************)
(* Passwords and the one-time link (core/services.py, views.py).  There is *)
(* no signup: the office creates the account with an unusable password and *)
(* hands over a link, and whoever holds it may set a password.  Nothing is *)
(* stored about a link.  Its token is a hash of the password column, of    *)
(* last_login and of the day, so that it goes stale with either.           *)
(*                                                                         *)
(* The page checks the token and sets the password in two transactions.    *)
(* The repair command lists the accounts whose password an old bug stored  *)
(* as plain text, and then writes to them one by one                       *)
(* (core/management/commands/repair_passwords.py).  Both write the one     *)
(* column.  The admin's two screens of an account (core/admin.py) write    *)
(* the whole row: what was in it when the request read it goes back with   *)
(* the field that was changed, and a last_login from the open page.        *)
(***************************************************************************)
EXTENDS Integers

CONSTANTS
    Users,
    Links,       \* set-password links handed over
    Visits,      \* requests to the link's page running at once
    Repairs,     \* repair_passwords commands running at once
    Forms,       \* an operator's open pages and requests in the admin
    Words,       \* what people choose as passwords
    Timeout,     \* PASSWORD_RESET_TIMEOUT, in days
    LastDay,     \* bound: the last day of the calendar
    MaxWrites,   \* bound: how often one account's password is written
    MaxLogins,   \* bound: how often one account signs in
    None         \* no row, no word

ASSUME Bounds ==
    Timeout \in Nat /\ LastDay \in Nat /\ MaxWrites \in Nat /\ MaxLogins \in Nat

\* The password column: no account yet, an unusable marker, a hash of a word, a
\* word as it is, or a hash of something that was already a hash.
States == {"none", "unset", "hashed", "plaintext", "garbled"}

\* The column.  `stamp` tells its values apart: it is salted afresh whenever a
\* password is set or disabled.
User == [state : States, word : Words \cup {None}, stamp : Nat]

\* A link: whose it is, the column and the last_login its token was made from, and when.
Link == [user : Users, stamp : Nat, login : Nat, day : Nat]

\* A command: whether it hashes or wipes, and the rows it listed and has yet to do.
Repair == [rehash : BOOLEAN, todo : [Users -> User \cup {None}]]

\* An operator with an account: its form open, with the last_login shown there; the
\* form posted, the row being read; or the change-password screen posted.
Form == [step : {"open", "posted", "password"}, user : Users, login : Nat,
         row : User \cup {None}]

ASSUME NoneIsNull ==
    /\ None \notin Words \cup Links
    /\ None \notin Nat
    /\ None \notin User
    /\ None \notin Link
    /\ None \notin Repair
    /\ None \notin Form

VARIABLES
    day,
    user,        \* the accounts
    login,       \* last_login of each, as the number of a sign-in
    logins,      \* how many sign-ins there were
    writes,      \* how many passwords each account was given
    form,        \* what operators have in hand
    link,        \* the links there are
    visit,       \* the link a request has checked and is about to spend
    repair,      \* the commands
    uses,        \* history: how many passwords were set through a link
    overlapped,  \* history: links two requests were spending at once
    dead,        \* history: links that lay unopened when the password changed
    revived,     \* history: links of a column that an admin form put back
    known,       \* history: the password the owner of an account set last
    raced        \* history: accounts written over from a row read before they changed

signIns == <<login, logins>>
accounts == <<user, writes, signIns>>
history == <<uses, overlapped, dead, revived, known, raced>>
vars == <<day, accounts, form, link, visit, repair, history>>

TypeOK ==
    /\ day \in Nat
    /\ user \in [Users -> User]
    /\ login \in [Users -> Nat]
    /\ logins \in [Users -> Nat]
    /\ writes \in [Users -> Nat]
    /\ form \in [Forms -> Form \cup {None}]
    /\ link \in [Links -> Link \cup {None}]
    /\ visit \in [Visits -> Links \cup {None}]
    /\ repair \in [Repairs -> Repair \cup {None}]
    /\ uses \in [Links -> Nat]
    /\ overlapped \subseteq Links
    /\ dead \subseteq Links
    /\ revived \subseteq Links
    /\ known \in [Users -> Words \cup {None}]
    /\ raced \subseteq Users
    \* A link, and a row an operator has in hand, is of a column the account has had;
    \* a request holds a link there is; a password is of a word unless there is none.
    /\ \A u \in Users : user[u].stamp <= writes[u]
    /\ \A l \in Links : link[l] # None => link[l].stamp <= writes[link[l].user]
    /\ \A f \in Forms : form[f] # None /\ form[f].step # "open" =>
         /\ form[f].row # None
         /\ form[f].row.stamp <= writes[form[f].user]
    /\ \A v \in Visits : visit[v] # None => link[visit[v]] # None
    /\ \A u \in Users : user[u].word # None <=> user[u].state \in {"hashed", "plaintext"}

\* Some accounts are there, and some of them are damaged.
Init ==
    /\ day = 0
    /\ user \in [Users -> [state : {"none", "plaintext"}, word : Words \cup {None}, stamp : {0}]]
    /\ \A u \in Users : user[u].word = None <=> user[u].state = "none"
    /\ login = [u \in Users |-> 0]
    /\ logins = [u \in Users |-> 0]
    /\ writes = [u \in Users |-> 0]
    /\ form = [f \in Forms |-> None]
    /\ link = [l \in Links |-> None]
    /\ visit = [v \in Visits |-> None]
    /\ repair = [o \in Repairs |-> None]
    /\ uses = [l \in Links |-> 0]
    /\ overlapped = {}
    /\ dead = {}
    /\ revived = {}
    /\ known = [u \in Users |-> user[u].word]
    /\ raced = {}

-------------------------------------------------------------------------------
(***************************************************************************)
(* Reads and writes of the column                                          *)
(***************************************************************************)
\* password_state: usable, and if so whether a hasher knows its prefix.
PasswordState(u) ==
    CASE user[u].state = "unset" -> "unset"
      [] user[u].state \in {"hashed", "garbled"} -> "hashed"
      [] OTHER -> user[u].state

\* Variant: whatever the page has not set itself.
AccountsWithPlaintextPasswords_All == {u \in Users : PasswordState(u) \notin {"none", "unset"}}

AccountsWithPlaintextPasswords == {u \in Users : PasswordState(u) = "plaintext"}

\* Variant: the token signs the account and the day alone.
Resolves_Signed(l) ==
    /\ link[l] # None
    /\ day - link[l].day <= Timeout

\* resolve_set_password_token: made from the row as it is now, and not too old.
Resolves(l) ==
    /\ link[l] # None
    /\ link[l].stamp = user[link[l].user].stamp
    /\ link[l].login = login[link[l].user]
    /\ day - link[l].day <= Timeout

\* issue_set_password_token, for the account with this column.
Issue(l, u, row) ==
    /\ link[l] = None
    /\ link' = [link EXCEPT ![l] =
         [user |-> u, stamp |-> row.stamp, login |-> login[u], day |-> day]]

\* The links of u that no request has opened.
Unopened(u) ==
    {l \in Links : link[l] # None /\ link[l].user = u /\ \A v \in Visits : visit[v] # l}

\* Every password leaves another value in the column.
Write(u, state, word) ==
    /\ writes[u] < MaxWrites
    /\ writes' = [writes EXCEPT ![u] = @ + 1]
    /\ user' = [user EXCEPT ![u] = [state |-> state, word |-> word, stamp |-> writes[u] + 1]]
    /\ dead' = dead \cup Unopened(u)

-------------------------------------------------------------------------------
NextDay ==
    /\ day < LastDay
    /\ day' = day + 1
    /\ UNCHANGED <<accounts, form, link, visit, repair, history>>

(***************************************************************************)
(* The office and the admin site                                           *)
(***************************************************************************)
\* create_account: an unusable password, and nothing for an account that is there.
CreateAccount(u) ==
    \/ user[u].state = "none" /\ Write(u, "unset", None)
    \/ user[u].state # "none" /\ UNCHANGED <<user, writes, dead>>

\* guardian_account, and staff_new: the account if there is none, and a link.
HandOver(u, l) ==
    /\ CreateAccount(u)
    /\ Issue(l, u, user'[u])
    /\ UNCHANGED <<day, signIns, form, visit, repair, uses, overlapped, revived, known, raced>>

\* What a screen of the admin sets: a password, or none.
Set(u, word) ==
    /\ IF word = None THEN Write(u, "unset", None) ELSE Write(u, "hashed", word)
    /\ known' = [known EXCEPT ![u] = word]
    /\ raced' = raced \ {u}

\* The admin's add form, with a password or with "disabled".
AdminAdds(u, word) ==
    /\ user[u].state = "none"
    /\ Set(u, word)
    /\ UNCHANGED <<day, signIns, form, link, visit, repair, uses, overlapped, revived>>

\* The change-password screen, on a POST: the row is read.
PostPassword(f, u) ==
    /\ form[f] = None
    /\ user[u].state # "none"
    /\ form' = [form EXCEPT ![f] =
         [step |-> "password", user |-> u, login |-> login[u], row |-> user[u]]]
    /\ UNCHANGED <<day, accounts, link, visit, repair, history>>

\* And the row saved, with another password, or with none if it had a usable one;
\* last_login goes back as it was read.
AdminSets(f, word) ==
    /\ form[f] # None
    /\ form[f].step = "password"
    /\ word = None => form[f].row.state # "unset"
    /\ Set(form[f].user, word)
    /\ login' = [login EXCEPT ![form[f].user] = form[f].login]
    /\ form' = [form EXCEPT ![f] = None]
    /\ UNCHANGED <<day, logins, link, visit, repair, uses, overlapped, revived>>

\* The form of the account.  last_login is a field of it; the password is shown.
OpenForm(f, u) ==
    /\ form[f] = None
    /\ user[u].state # "none"
    /\ form' = [form EXCEPT ![f] =
         [step |-> "open", user |-> u, login |-> login[u], row |-> None]]
    /\ UNCHANGED <<day, accounts, link, visit, repair, history>>

PostForm(f) ==
    /\ form[f] # None
    /\ form[f].step = "open"
    /\ form' = [form EXCEPT ![f] =
         [step |-> "posted", user |-> @.user, login |-> @.login, row |-> user[@.user]]]
    /\ UNCHANGED <<day, accounts, link, visit, repair, history>>

\* What an admin form does to the links when it puts back a column of a while ago:
\* those made from that column are good again, the others lose theirs.
PutBack(u, row) ==
    IF user[u] = row
    THEN UNCHANGED <<dead, revived, raced>>
    ELSE /\ revived' = revived \cup
              {l \in Links : link[l] # None /\ link[l].user = u /\ link[l].stamp = row.stamp}
         /\ dead' = dead \cup {l \in Unopened(u) : link[l].stamp # row.stamp}
         /\ raced' = raced \cup {u}

\* The row is saved: the column as it was read, last_login as the page had it.
SaveForm(f) ==
    /\ form[f] # None
    /\ form[f].step = "posted"
    /\ LET u == form[f].user
           row == form[f].row
       IN  /\ user' = [user EXCEPT ![u] = row]
           /\ login' = [login EXCEPT ![u] = form[f].login]
           /\ PutBack(u, row)
    /\ form' = [form EXCEPT ![f] = None]
    /\ UNCHANGED <<day, writes, logins, link, visit, repair, uses, overlapped, known>>

\* The page is left, or the request refused or stopped.
CloseForm(f) ==
    /\ form[f] # None
    /\ form' = [form EXCEPT ![f] = None]
    /\ UNCHANGED <<day, accounts, link, visit, repair, history>>

(***************************************************************************)
(* Owners                                                                  *)
(***************************************************************************)
\* The page: the link is checked.
OpenLink(v, l) ==
    /\ visit[v] = None
    /\ Resolves(l)
    /\ overlapped' = IF \E w \in Visits : visit[w] = l THEN overlapped \cup {l} ELSE overlapped
    /\ visit' = [visit EXCEPT ![v] = l]
    /\ UNCHANGED <<day, accounts, form, link, repair, uses, dead, revived, known, raced>>

\* set_password, of the account the link was checked for.
SetPassword(v, word) ==
    /\ visit[v] # None
    /\ LET l == visit[v]
           u == link[l].user
       IN  /\ Write(u, "hashed", word)
           /\ uses' = [uses EXCEPT ![l] = @ + 1]
           /\ known' = [known EXCEPT ![u] = word]
           /\ raced' = raced \ {u}
    /\ visit' = [visit EXCEPT ![v] = None]
    /\ UNCHANGED <<day, signIns, form, link, repair, overlapped, revived>>

\* Two entries that differ, a password the validators refuse, or a stopped worker.
CloseLink(v) ==
    /\ visit[v] # None
    /\ visit' = [visit EXCEPT ![v] = None]
    /\ UNCHANGED <<day, accounts, form, link, repair, history>>

\* LoginView: a sign-in with the password moves last_login.
LogIn(u) ==
    /\ user[u].state = "hashed"
    /\ logins[u] < MaxLogins
    /\ logins' = [logins EXCEPT ![u] = @ + 1]
    /\ login' = [login EXCEPT ![u] = logins[u] + 1]
    /\ UNCHANGED <<day, user, writes, form, link, visit, repair, history>>

(***************************************************************************)
(* repair_passwords                                                        *)
(***************************************************************************)
\* --rehash or --invalidate; without either the command only reports.
ListDamaged(o, rehash) ==
    /\ repair[o] = None
    /\ repair' = [repair EXCEPT ![o] =
         [rehash |-> rehash,
          todo |-> [u \in Users |-> IF u \in AccountsWithPlaintextPasswords THEN user[u] ELSE None]]]
    /\ UNCHANGED <<day, accounts, form, link, visit, history>>

\* Account u is done, and was raced if it is not the row that was listed.
Done(o, u) ==
    /\ repair' = [repair EXCEPT ![o].todo[u] = None]
    /\ raced' = IF user[u] = repair[o].todo[u] THEN raced ELSE raced \cup {u}

\* rehash_password hashes what was in the column when it was listed.
RehashPassword(o, u) ==
    /\ repair[o] # None
    /\ repair[o].rehash
    /\ repair[o].todo[u] # None
    /\ LET row == repair[o].todo[u]
       IN  IF row.state = "plaintext" THEN Write(u, "hashed", row.word)
                                      ELSE Write(u, "garbled", None)
    /\ Done(o, u)
    /\ UNCHANGED <<day, signIns, form, link, visit, uses, overlapped, revived, known>>

\* Variant: one marker for every unusable password.
InvalidatePassword_SameMarker(o, u, l) ==
    /\ repair[o] # None
    /\ ~repair[o].rehash
    /\ repair[o].todo[u] # None
    /\ user' = [user EXCEPT ![u] = [state |-> "unset", word |-> None, stamp |-> 1]]
    /\ dead' = dead \cup Unopened(u)
    /\ Issue(l, u, user'[u])
    /\ known' = [known EXCEPT ![u] = None]
    /\ Done(o, u)
    /\ UNCHANGED <<day, writes, signIns, form, visit, uses, overlapped, revived>>

\* invalidate_password, and the fresh link the command prints.
InvalidatePassword(o, u, l) ==
    /\ repair[o] # None
    /\ ~repair[o].rehash
    /\ repair[o].todo[u] # None
    /\ Write(u, "unset", None)
    /\ Issue(l, u, user'[u])
    /\ known' = [known EXCEPT ![u] = IF user[u] = repair[o].todo[u] THEN None ELSE @]
    /\ Done(o, u)
    /\ UNCHANGED <<day, signIns, form, visit, uses, overlapped, revived>>

\* The command ends, or is stopped with work left.
EndRepair(o) ==
    /\ repair[o] # None
    /\ repair' = [repair EXCEPT ![o] = None]
    /\ UNCHANGED <<day, accounts, form, link, visit, history>>

-------------------------------------------------------------------------------
Office ==
    \/ \E u \in Users, l \in Links : HandOver(u, l)
    \/ \E u \in Users, word \in Words \cup {None} : AdminAdds(u, word)
    \/ \E f \in Forms, u \in Users : PostPassword(f, u) \/ OpenForm(f, u)
    \/ \E f \in Forms, word \in Words \cup {None} : AdminSets(f, word)
    \/ \E f \in Forms : PostForm(f) \/ SaveForm(f) \/ CloseForm(f)

Owners ==
    \/ \E v \in Visits, l \in Links : OpenLink(v, l)
    \/ \E v \in Visits, word \in Words : SetPassword(v, word)
    \/ \E v \in Visits : CloseLink(v)
    \/ \E u \in Users : LogIn(u)

Command ==
    \E o \in Repairs :
        \/ \E rehash \in BOOLEAN : ListDamaged(o, rehash)
        \/ \E u \in Users : RehashPassword(o, u)
        \/ \E u \in Users, l \in Links : InvalidatePassword(o, u, l)
        \/ EndRepair(o)

Next == NextDay \/ Office \/ Owners \/ Command

Spec == Init /\ [][Next]_vars

-------------------------------------------------------------------------------
(***************************************************************************)
(* Properties                                                              *)
(***************************************************************************)
\* "One-time-ness is not a flag we maintain" (issue_set_password_token): whatever
\* the office, the commands and the change-password screen do in between, one link
\* sets one password, unless two requests had it open at the same time, or an admin
\* form of the account, posted before the password changed and saved after, put
\* back the column the link was made from.
OneUsePerLink == \A l \in Links \ (overlapped \cup revived) : uses[l] <= 1

\* A link that lay in somebody's chat while the password was changed, by another
\* link, the admin or a repair, never sets a password again, but for a column put
\* back.  That a sign-in kills it is no such promise: the admin takes it back.
DeadLinksStayDead == [][\A l \in dead \ revived : uses'[l] = uses[l]]_vars

\* repair_passwords leaves people's passwords alone: who has set a password, or
\* had one the admin stored raw, can sign in with that one, once it is hashed,
\* unless a command or an admin form was writing from a row read before that.
LastWordWorks ==
    \A u \in Users \ raced : known[u] # None =>
        user[u].state \in {"hashed", "plaintext"} /\ user[u].word = known[u]

\* Against "the moment a password is set the token stops validating -- no state to
\* clean up, and no window where a forwarded link still works"
\* (issue_set_password_token).  It does not hold: an admin form puts the old column
\* back, and with it the link that was spent.
SpentLinksStaySpent == \A l \in Links \ overlapped : uses[l] <= 1
===============================================================================
