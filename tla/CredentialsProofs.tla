--------------------------- MODULE CredentialsProofs ---------------------------
(***************************************************************************)
(* Proofs about Credentials, for any numbers of accounts, links, requests, *)
(* commands and admin forms: typing, one password per link, the last word  *)
(* a person set, and that a link left behind by a change is dead, but for  *)
(* the columns an admin form puts back.                                    *)
(***************************************************************************)
EXTENDS Credentials, TLAPS

\* A command listed rows with a raw word in them, and nothing else.
ListedRowsArePlain ==
    \A o \in Repairs, u \in Users :
        repair[o] # None /\ repair[o].todo[u] # None =>
            repair[o].todo[u].state = "plaintext" /\ repair[o].todo[u].word # None

\* A row an operator has in hand is one an account had, with a word if it is usable.
RowsInHandAreRows ==
    \A f \in Forms : form[f] # None /\ form[f].step # "open" =>
        (form[f].row.word # None <=> form[f].row.state \in {"hashed", "plaintext"})

\* A link that has set a password is of another column than the one there is, unless
\* a form put that one back; one that never overlapped either has set one at most,
\* and none while a request holds it, alone.
UsedLinksAreStale ==
    \A l \in Links :
        /\ link[l] = None => uses[l] = 0
        /\ link[l] # None /\ uses[l] # 0 /\ l \notin revived =>
             link[l].stamp # user[link[l].user].stamp
        /\ l \notin overlapped \cup revived =>
             /\ uses[l] <= 1
             /\ \A v, w \in Visits : visit[v] = l /\ visit[w] = l => uses[l] = 0 /\ v = w

\* A dead link is of another column too, and nobody holds it.
DeadLinksAreStale ==
    \A l \in dead \ revived :
        /\ link[l] # None
        /\ link[l].stamp # user[link[l].user].stamp
        /\ \A v \in Visits : visit[v] # l

CredentialsInv ==
    /\ TypeOK
    /\ ListedRowsArePlain /\ RowsInHandAreRows
    /\ UsedLinksAreStale /\ DeadLinksAreStale
    /\ LastWordWorks

LEMMA InitInv == Init => CredentialsInv
<1> SUFFICES ASSUME Init PROVE CredentialsInv
  OBVIOUS
<1> USE NoneIsNull DEF Init
<1>1. \A u \in Users : /\ user[u] \in User
                       /\ user[u].stamp = 0
                       /\ user[u].state \in {"none", "plaintext"}
                       /\ user[u].word = None <=> user[u].state = "none"
                       /\ user[u].word \in Words \cup {None}
  <2> SUFFICES ASSUME NEW u \in Users
               PROVE  /\ user[u] \in User
                      /\ user[u].stamp = 0
                      /\ user[u].state \in {"none", "plaintext"}
                      /\ user[u].word \in Words \cup {None}
    OBVIOUS
  <2>1. user[u] \in [state : {"none", "plaintext"}, word : Words \cup {None}, stamp : {0}]
    OBVIOUS
  <2> QED
    BY <2>1 DEF User, States
<1>2. TypeOK
  BY <1>1 DEF TypeOK
<1>3. ListedRowsArePlain /\ RowsInHandAreRows /\ UsedLinksAreStale /\ DeadLinksAreStale
  BY DEF ListedRowsArePlain, RowsInHandAreRows, UsedLinksAreStale, DeadLinksAreStale
<1>4. LastWordWorks
  BY <1>1 DEF LastWordWorks
<1> QED
  BY <1>2, <1>3, <1>4 DEF CredentialsInv

-------------------------------------------------------------------------------
\* A write leaves one account a column it never had, and kills the links of it that
\* nobody has open.
LEMMA WriteIsNew ==
  ASSUME TypeOK, NEW u \in Users, NEW state \in States, NEW word \in Words \cup {None},
         word # None <=> state \in {"hashed", "plaintext"},
         Write(u, state, word)
  PROVE  /\ user' \in [Users -> User] /\ writes' \in [Users -> Nat]
         /\ \A w \in Users : w # u => user'[w] = user[w] /\ writes'[w] = writes[w]
         /\ user'[u].state = state /\ user'[u].word = word
         /\ user'[u].stamp = writes[u] + 1
         /\ \A w \in Users : /\ writes[w] \in Nat /\ writes'[w] \in Nat
                             /\ writes[w] <= writes'[w]
                             /\ user'[w].stamp <= writes'[w]
         /\ \A w \in Users : user'[w].word # None <=> user'[w].state \in {"hashed", "plaintext"}
         /\ dead' = dead \cup Unopened(u)
         /\ dead' \subseteq Links
<1>1. /\ user' = [user EXCEPT ![u] = [state |-> state, word |-> word, stamp |-> writes[u] + 1]]
      /\ writes' = [writes EXCEPT ![u] = writes[u] + 1]
      /\ \A w \in Users : writes[w] \in Nat
  BY DEF Write, TypeOK
<1>2. [state |-> state, word |-> word, stamp |-> writes[u] + 1] \in User
  BY <1>1 DEF User
<1>3. /\ user' \in [Users -> User] /\ writes' \in [Users -> Nat]
      /\ \A w \in Users : w # u => user'[w] = user[w] /\ writes'[w] = writes[w]
  BY <1>1, <1>2 DEF TypeOK
<1>4. /\ user'[u] = [state |-> state, word |-> word, stamp |-> writes[u] + 1]
      /\ writes'[u] = writes[u] + 1
  BY <1>1 DEF TypeOK
<1>5. \A w \in Users : /\ writes[w] <= writes'[w]
                       /\ user'[w].stamp <= writes'[w]
  BY <1>1, <1>3, <1>4 DEF TypeOK
<1>6. \A w \in Users : user'[w].word # None <=> user'[w].state \in {"hashed", "plaintext"}
  BY <1>3, <1>4 DEF TypeOK
<1>7. dead' = dead \cup Unopened(u) /\ dead' \subseteq Links
  BY DEF Write, Unopened, TypeOK
<1> QED
  BY <1>1, <1>3, <1>4, <1>5, <1>6, <1>7

\* So no link there was, and no row in hand, is of the column written.
LEMMA WriteAgesLinks ==
  ASSUME TypeOK, NEW u \in Users, NEW state \in States, NEW word \in Words \cup {None},
         word # None <=> state \in {"hashed", "plaintext"},
         Write(u, state, word)
  PROVE  /\ \A m \in Links : link[m] # None =>
              /\ link[m].user \in Users /\ link[m].stamp \in Nat
              /\ link[m].stamp <= writes'[link[m].user]
              /\ link[m].user = u => link[m].stamp # user'[link[m].user].stamp
              /\ link[m].stamp # user[link[m].user].stamp =>
                   link[m].stamp # user'[link[m].user].stamp
         /\ \A f \in Forms : form[f] # None /\ form[f].step # "open" =>
              /\ form[f].row # None
              /\ form[f].row.stamp <= writes'[form[f].user]
<1>1. \A m \in Links : link[m] # None =>
        /\ link[m].user \in Users /\ link[m].stamp \in Nat
        /\ link[m].stamp <= writes[link[m].user]
  BY DEF TypeOK, Link
<1>2. /\ user'[u].stamp = writes[u] + 1
      /\ \A w \in Users : w # u => user'[w] = user[w]
      /\ \A w \in Users : writes[w] \in Nat /\ writes'[w] \in Nat /\ writes[w] <= writes'[w]
  BY WriteIsNew
<1>3. \A m \in Links : link[m] # None =>
        /\ link[m].user \in Users /\ link[m].stamp \in Nat
        /\ link[m].stamp <= writes'[link[m].user]
        /\ link[m].user = u => link[m].stamp # user'[link[m].user].stamp
  BY <1>1, <1>2
<1>4. \A m \in Links : link[m] # None /\ link[m].stamp # user[link[m].user].stamp =>
        link[m].stamp # user'[link[m].user].stamp
  BY <1>2, <1>3
<1>5. \A f \in Forms : form[f] # None /\ form[f].step # "open" =>
        /\ form[f].user \in Users /\ form[f].row # None /\ form[f].row \in User
        /\ form[f].row.stamp <= writes[form[f].user]
  BY NoneIsNull DEF TypeOK, Form
<1>6. \A f \in Forms : form[f] # None /\ form[f].step # "open" =>
        form[f].row.stamp <= writes'[form[f].user]
  BY <1>2, <1>5 DEF User
<1> QED
  BY <1>3, <1>4, <1>5, <1>6

\* A change of columns, then, is one of these two.
Changed ==
    \/ UNCHANGED <<user, writes, dead>>
    \/ \E u \in Users, state \in States, word \in Words \cup {None} :
          /\ word # None <=> state \in {"hashed", "plaintext"}
          /\ Write(u, state, word)

\* The links' half of the invariant survives a change of columns, and links handed
\* over with it, by which no link is used.
LEMMA WriteKeepsLinks ==
  ASSUME TypeOK, UsedLinksAreStale, DeadLinksAreStale, Changed,
         \A l \in Links : link[l] # None => link'[l] = link[l],
         UNCHANGED <<visit, uses, overlapped, revived>>
  PROVE  UsedLinksAreStale' /\ DeadLinksAreStale'
<1>1. /\ \A l \in Links : link[l] # None /\ link[l].stamp # user[link[l].user].stamp =>
            link[l].stamp # user'[link[l].user].stamp
      /\ \A l \in dead' \ dead : /\ l \in Links /\ link[l] # None
                                 /\ link[l].stamp # user'[link[l].user].stamp
                                 /\ \A v \in Visits : visit[v] # l
  <2>1. CASE UNCHANGED <<user, writes, dead>>
    BY <2>1
  <2>2. ASSUME NEW u \in Users, NEW state \in States, NEW word \in Words \cup {None},
               word # None <=> state \in {"hashed", "plaintext"},
               Write(u, state, word)
        PROVE  <1>1
    <3>1. dead' = dead \cup Unopened(u)
      BY <2>2, WriteIsNew
    <3>2. \A m \in Links : link[m] # None =>
            /\ link[m].user = u => link[m].stamp # user'[link[m].user].stamp
            /\ link[m].stamp # user[link[m].user].stamp =>
                 link[m].stamp # user'[link[m].user].stamp
      BY <2>2, WriteAgesLinks
    <3> QED
      BY <3>1, <3>2 DEF Unopened
  <2> QED
    BY <2>1, <2>2 DEF Changed
<1>2. UsedLinksAreStale'
  BY <1>1 DEF UsedLinksAreStale
<1>3. DeadLinksAreStale'
  BY <1>1 DEF DeadLinksAreStale, TypeOK
<1> QED
  BY <1>2, <1>3

\* Issuing adds one link, made from the column there is now.
LEMMA IssueIsNew ==
  ASSUME TypeOK, NEW l \in Links, NEW u \in Users, NEW row \in User, Issue(l, u, row)
  PROVE  /\ link' \in [Links -> Link \cup {None}]
         /\ \A m \in Links : link[m] # None => link'[m] = link[m]
         /\ \A m \in Links : m # l => link'[m] = link[m]
         /\ link'[l].user = u /\ link'[l].stamp = row.stamp
<1>1. [user |-> u, stamp |-> row.stamp, login |-> login[u], day |-> day] \in Link
  BY DEF TypeOK, User, Link
<1> QED
  BY <1>1 DEF Issue, TypeOK

-------------------------------------------------------------------------------
\* What moves no column, no link, no command and no row in hand.
LEMMA QuietKeepsInv ==
  ASSUME CredentialsInv,
         \/ NextDay
         \/ \E u \in Users : LogIn(u)
         \/ \E v \in Visits : CloseLink(v)
         \/ UNCHANGED vars
  PROVE  CredentialsInv'
<1> USE NoneIsNull DEF CredentialsInv, accounts, signIns, history, vars
<1>1. /\ UNCHANGED <<user, writes, form, link, repair, uses, overlapped, dead, revived, known, raced>>
      /\ visit' \in [Visits -> Links \cup {None}]
      /\ \A w \in Visits : visit'[w] = visit[w] \/ visit'[w] = None
  BY DEF NextDay, LogIn, CloseLink, TypeOK
<1>2. day' \in Nat /\ login' \in [Users -> Nat] /\ logins' \in [Users -> Nat]
  BY DEF NextDay, LogIn, CloseLink, TypeOK
<1>3. TypeOK'
  BY <1>1, <1>2 DEF TypeOK
<1>4. ListedRowsArePlain' /\ RowsInHandAreRows' /\ LastWordWorks'
  BY <1>1 DEF ListedRowsArePlain, RowsInHandAreRows, LastWordWorks
<1>5. UsedLinksAreStale' /\ DeadLinksAreStale'
  BY <1>1 DEF UsedLinksAreStale, DeadLinksAreStale, TypeOK
<1> QED
  BY <1>3, <1>4, <1>5

\* Operators open their pages, post them and leave them: a row is read as it is.
LEMMA FormKeepsInv ==
  ASSUME CredentialsInv, NEW f \in Forms,
         \/ \E u \in Users : PostPassword(f, u) \/ OpenForm(f, u)
         \/ PostForm(f)
         \/ CloseForm(f)
  PROVE  CredentialsInv'
<1> USE NoneIsNull DEF CredentialsInv, accounts, signIns, history
<1>1. UNCHANGED <<day, user, writes, login, logins, link, visit, repair, uses, overlapped, dead,
                  revived, known, raced>>
  BY DEF PostPassword, OpenForm, PostForm, CloseForm
<1>2. \E new \in Form \cup {None} :
        /\ form' = [form EXCEPT ![f] = new]
        /\ new # None /\ new.step # "open" => new.row # None /\ new.row = user[new.user]
  <2>1. CASE CloseForm(f)
    BY <2>1 DEF CloseForm
  <2>2. ASSUME NEW u \in Users, PostPassword(f, u) \/ OpenForm(f, u)
        PROVE  <1>2
    <3>1. /\ [step |-> "password", user |-> u, login |-> login[u], row |-> user[u]] \in Form
          /\ [step |-> "open", user |-> u, login |-> login[u], row |-> None] \in Form
          /\ user[u] # None
      BY DEF TypeOK, Form
    <3> QED
      BY <2>2, <3>1 DEF PostPassword, OpenForm
  <2>3. CASE PostForm(f)
    <3>1. form[f] \in Form
      BY <2>3 DEF PostForm, TypeOK
    <3> DEFINE new == [step |-> "posted", user |-> form[f].user, login |-> form[f].login,
                       row |-> user[form[f].user]]
    <3>2. new \in Form /\ new.row # None /\ new.row = user[new.user]
      BY <3>1 DEF TypeOK, Form
    <3>3. form' = [form EXCEPT ![f] = new]
      BY <2>3 DEF PostForm
    <3> HIDE DEF new
    <3> QED
      BY <3>2, <3>3
  <2> QED
    BY <2>1, <2>2, <2>3
<1>3. PICK new \in Form \cup {None} :
        /\ form' = [form EXCEPT ![f] = new]
        /\ new # None /\ new.step # "open" => new.row # None /\ new.row = user[new.user]
  BY <1>2
<1>4. new # None => new.user \in Users
  BY <1>3 DEF Form
<1>5. /\ form' \in [Forms -> Form \cup {None}]
      /\ form'[f] = new
      /\ \A g \in Forms : g # f => form'[g] = form[g]
  BY <1>3 DEF TypeOK
<1>6. \A g \in Forms : form'[g] # None /\ form'[g].step # "open" =>
        /\ form'[g].row # None
        /\ form'[g].row.stamp <= writes[form'[g].user]
        /\ form'[g].row.word # None <=> form'[g].row.state \in {"hashed", "plaintext"}
  <2> SUFFICES ASSUME NEW g \in Forms, form'[g] # None, form'[g].step # "open"
               PROVE  /\ form'[g].row # None
                      /\ form'[g].row.stamp <= writes[form'[g].user]
                      /\ form'[g].row.word # None <=> form'[g].row.state \in {"hashed", "plaintext"}
    OBVIOUS
  <2>1. CASE g = f
    BY <1>3, <1>4, <1>5, <2>1 DEF TypeOK
  <2>2. CASE g # f
    BY <1>5, <2>2 DEF TypeOK, RowsInHandAreRows
  <2> QED
    BY <2>1, <2>2
<1>7. TypeOK' /\ RowsInHandAreRows'
  BY <1>1, <1>5, <1>6 DEF TypeOK, RowsInHandAreRows
<1>8. ListedRowsArePlain' /\ LastWordWorks'
  BY <1>1 DEF ListedRowsArePlain, LastWordWorks
<1>9. UsedLinksAreStale' /\ DeadLinksAreStale'
  BY <1>1 DEF UsedLinksAreStale, DeadLinksAreStale
<1> QED
  BY <1>7, <1>8, <1>9

\* A row put back: the links of its column are revived, and every other link of the
\* account is of another one.
LEMMA SaveFormKeepsInv ==
  ASSUME CredentialsInv, NEW f \in Forms, SaveForm(f)
  PROVE  CredentialsInv'
<1> USE NoneIsNull DEF CredentialsInv
<1> DEFINE u == form[f].user
           row == form[f].row
<1>1. /\ form[f] # None /\ form[f].step = "posted"
      /\ user' = [user EXCEPT ![u] = row]
      /\ login' = [login EXCEPT ![u] = form[f].login]
      /\ PutBack(u, row)
      /\ form' = [form EXCEPT ![f] = None]
      /\ UNCHANGED <<day, writes, logins, link, visit, repair, uses, overlapped, known>>
  BY DEF SaveForm
<1>2. /\ form[f] \in Form /\ u \in Users /\ row \in User /\ form[f].login \in Nat
      /\ row.stamp <= writes[u]
      /\ row.word # None <=> row.state \in {"hashed", "plaintext"}
  BY <1>1 DEF TypeOK, Form, RowsInHandAreRows
<1>3. /\ user' \in [Users -> User] /\ user'[u] = row
      /\ \A w \in Users : w # u => user'[w] = user[w]
      /\ login' \in [Users -> Nat]
      /\ form' \in [Forms -> Form \cup {None}]
      /\ \A g \in Forms : form'[g] = form[g] \/ form'[g] = None
  BY <1>1, <1>2 DEF TypeOK
<1>4. /\ revived \subseteq revived' /\ revived' \subseteq Links
      /\ dead \subseteq dead' /\ dead' \subseteq Links
      /\ raced \subseteq raced' /\ raced' \subseteq Users
      /\ user[u] # row => u \in raced'
      /\ user[u] # row => \A l \in Links \ revived' :
           link[l] # None /\ link[l].user = u => link[l].stamp # row.stamp
      /\ \A l \in dead' \ dead : /\ link[l] # None /\ link[l].user = u
                                 /\ link[l].stamp # row.stamp
                                 /\ \A v \in Visits : visit[v] # l
  BY <1>1, <1>2 DEF PutBack, Unopened, TypeOK
<1>5. TypeOK'
  BY <1>1, <1>2, <1>3, <1>4 DEF TypeOK
<1>6. \A l \in Links \ revived' : link[l] # None /\ link[l].stamp # user[link[l].user].stamp =>
        link[l].stamp # user'[link[l].user].stamp
  BY <1>2, <1>3, <1>4 DEF TypeOK, Link
<1>7. UsedLinksAreStale'
  BY <1>1, <1>4, <1>6 DEF UsedLinksAreStale
<1>8. DeadLinksAreStale'
  BY <1>1, <1>3, <1>4, <1>6 DEF DeadLinksAreStale, TypeOK
<1>9. ListedRowsArePlain' /\ RowsInHandAreRows'
  BY <1>1, <1>3 DEF ListedRowsArePlain, RowsInHandAreRows
<1>10. LastWordWorks'
  BY <1>1, <1>3, <1>4 DEF LastWordWorks
<1> QED
  BY <1>5, <1>7, <1>8, <1>9, <1>10
\* A command lists the damaged rows, or ends.
LEMMA CommandKeepsInv ==
  ASSUME CredentialsInv, NEW o \in Repairs,
         \/ \E rehash \in BOOLEAN : ListDamaged(o, rehash)
         \/ EndRepair(o)
  PROVE  CredentialsInv'
<1> USE NoneIsNull DEF CredentialsInv, accounts, signIns, history
<1>1. UNCHANGED <<day, user, writes, login, logins, form, link, visit, uses, overlapped, dead,
                  revived, known, raced>>
  BY DEF ListDamaged, EndRepair
<1>2. repair' \in [Repairs -> Repair \cup {None}] /\ ListedRowsArePlain'
  <2>1. ASSUME NEW rehash \in BOOLEAN, ListDamaged(o, rehash)
        PROVE  <1>2
    <3> DEFINE todo == [u \in Users |-> IF u \in AccountsWithPlaintextPasswords THEN user[u] ELSE None]
    <3>1. /\ todo \in [Users -> User \cup {None}]
          /\ \A u \in Users : todo[u] # None => todo[u].state = "plaintext" /\ todo[u].word # None
      BY DEF TypeOK, AccountsWithPlaintextPasswords, PasswordState
    <3>2. /\ repair' = [repair EXCEPT ![o] = [rehash |-> rehash, todo |-> todo]]
          /\ [rehash |-> rehash, todo |-> todo] \in Repair
      BY <2>1, <3>1 DEF ListDamaged, Repair
    <3> HIDE DEF todo
    <3> QED
      BY <3>1, <3>2 DEF TypeOK, ListedRowsArePlain
  <2>2. CASE EndRepair(o)
    BY <2>2 DEF EndRepair, TypeOK, ListedRowsArePlain
  <2> QED
    BY <2>1, <2>2
<1>3. TypeOK'
  BY <1>1, <1>2 DEF TypeOK
<1>4. LastWordWorks' /\ RowsInHandAreRows' /\ UsedLinksAreStale' /\ DeadLinksAreStale'
  BY <1>1 DEF LastWordWorks, RowsInHandAreRows, UsedLinksAreStale, DeadLinksAreStale
<1> QED
  BY <1>2, <1>3, <1>4

\* The page of a link: it resolves, so that, if its column was never put back, it has
\* not been used and is not dead.
LEMMA OpenLinkKeepsInv ==
  ASSUME CredentialsInv, NEW v \in Visits, NEW l \in Links, OpenLink(v, l)
  PROVE  CredentialsInv'
<1> USE NoneIsNull DEF CredentialsInv, accounts, signIns
<1>1. /\ UNCHANGED <<day, user, writes, login, logins, form, link, repair, uses, dead, revived, known, raced>>
      /\ visit' = [visit EXCEPT ![v] = l]
      /\ overlapped' = IF \E w \in Visits : visit[w] = l THEN overlapped \cup {l} ELSE overlapped
  BY DEF OpenLink
<1>2. link[l] # None /\ link[l] \in Link /\ link[l].stamp = user[link[l].user].stamp
  BY DEF OpenLink, Resolves, TypeOK
<1>3. l \notin revived => uses[l] = 0 /\ l \notin dead
  BY <1>2 DEF UsedLinksAreStale, DeadLinksAreStale
<1>4. TypeOK'
  BY <1>1, <1>2 DEF TypeOK
<1>5. UsedLinksAreStale' /\ DeadLinksAreStale'
  BY <1>1, <1>3 DEF UsedLinksAreStale, DeadLinksAreStale, TypeOK
<1>6. ListedRowsArePlain' /\ RowsInHandAreRows' /\ LastWordWorks'
  BY <1>1 DEF ListedRowsArePlain, RowsInHandAreRows, LastWordWorks
<1> QED
  BY <1>4, <1>5, <1>6

-------------------------------------------------------------------------------
\* The office: an account if there is none, and a link.
LEMMA HandOverKeepsInv ==
  ASSUME CredentialsInv, NEW u \in Users, NEW l \in Links, HandOver(u, l)
  PROVE  CredentialsInv'
<1> USE NoneIsNull DEF CredentialsInv
<1>1. /\ UNCHANGED <<day, login, logins, form, visit, repair, uses, overlapped, revived, known, raced>>
      /\ \/ user[u].state = "none" /\ Write(u, "unset", None)
         \/ UNCHANGED <<user, writes, dead>>
      /\ Issue(l, u, user'[u])
  BY DEF HandOver, CreateAccount, signIns
<1>2. /\ user' \in [Users -> User] /\ writes' \in [Users -> Nat] /\ dead' \subseteq Links
      /\ \A w \in Users : /\ user'[w].stamp <= writes'[w]
                          /\ user'[w].word # None <=> user'[w].state \in {"hashed", "plaintext"}
                          /\ user'[w] = user[w] \/ user[w].state = "none"
      /\ \A m \in Links : link[m] # None => link[m].stamp <= writes'[link[m].user]
      /\ \A f \in Forms : form[f] # None /\ form[f].step # "open" =>
           /\ form[f].row # None
           /\ form[f].row.stamp <= writes'[form[f].user]
  <2>1. CASE user[u].state = "none" /\ Write(u, "unset", None)
    <3>1. /\ user' \in [Users -> User] /\ writes' \in [Users -> Nat] /\ dead' \subseteq Links
          /\ \A w \in Users : /\ user'[w].stamp <= writes'[w]
                              /\ user'[w].word # None <=> user'[w].state \in {"hashed", "plaintext"}
                              /\ w # u => user'[w] = user[w]
      BY <2>1, WriteIsNew DEF States
    <3>2. /\ \A m \in Links : link[m] # None => link[m].stamp <= writes'[link[m].user]
          /\ \A f \in Forms : form[f] # None /\ form[f].step # "open" =>
               /\ form[f].row # None
               /\ form[f].row.stamp <= writes'[form[f].user]
      BY <2>1, WriteAgesLinks DEF States
    <3> QED
      BY <2>1, <3>1, <3>2
  <2>2. CASE UNCHANGED <<user, writes, dead>>
    BY <2>2 DEF TypeOK
  <2> QED
    BY <1>1, <2>1, <2>2
<1>3. /\ link' \in [Links -> Link \cup {None}]
      /\ \A m \in Links : link[m] # None => link'[m] = link[m]
      /\ \A m \in Links : m # l => link'[m] = link[m]
      /\ link'[l].user = u /\ link'[l].stamp = user'[u].stamp
  BY <1>1, <1>2, IssueIsNew
<1>4. TypeOK'
  <2>1. \A m \in Links : link'[m] # None => link'[m].stamp <= writes'[link'[m].user]
    BY <1>2, <1>3
  <2>2. \A v \in Visits : visit'[v] # None => link'[visit'[v]] # None
    BY <1>1, <1>3 DEF TypeOK
  <2> QED
    BY <1>1, <1>2, <1>3, <2>1, <2>2 DEF TypeOK
<1>5. UsedLinksAreStale' /\ DeadLinksAreStale'
  <2>1. Changed
    BY <1>1 DEF Changed, States
  <2> QED
    BY <1>1, <1>3, <2>1, WriteKeepsLinks
<1>6. ListedRowsArePlain' /\ RowsInHandAreRows' /\ LastWordWorks'
  BY <1>1, <1>2 DEF ListedRowsArePlain, RowsInHandAreRows, LastWordWorks
<1> QED
  BY <1>4, <1>5, <1>6

\* A screen of the admin sets a password, or none, with no link.
LEMMA SetKeepsInv ==
  ASSUME CredentialsInv, NEW u \in Users, NEW word \in Words \cup {None}, Set(u, word),
         login' \in [Users -> Nat],
         form' \in [Forms -> Form \cup {None}],
         \A f \in Forms : form'[f] = form[f] \/ form'[f] = None,
         UNCHANGED <<day, logins, link, visit, repair, uses, overlapped, revived>>
  PROVE  CredentialsInv'
<1> USE NoneIsNull DEF CredentialsInv
<1> DEFINE state == IF word = None THEN "unset" ELSE "hashed"
<1>1. /\ state \in States
      /\ word # None <=> state \in {"hashed", "plaintext"}
      /\ Write(u, state, word)
      /\ known' = [known EXCEPT ![u] = word]
      /\ raced' = raced \ {u}
  BY DEF Set, States
<1> HIDE DEF state
<1>2. /\ user' \in [Users -> User] /\ writes' \in [Users -> Nat] /\ dead' \subseteq Links
      /\ user'[u].state = state /\ user'[u].word = word
      /\ \A w \in Users : w # u => user'[w] = user[w]
      /\ \A w \in Users : user'[w].stamp <= writes'[w]
      /\ \A w \in Users : user'[w].word # None <=> user'[w].state \in {"hashed", "plaintext"}
  BY <1>1, WriteIsNew
<1>3. TypeOK'
  <2>1. /\ \A m \in Links : link[m] # None => link[m].stamp <= writes'[link[m].user]
        /\ \A f \in Forms : form[f] # None /\ form[f].step # "open" =>
             /\ form[f].row # None
             /\ form[f].row.stamp <= writes'[form[f].user]
    BY <1>1, WriteAgesLinks
  <2>2. known' \in [Users -> Words \cup {None}] /\ raced' \subseteq Users
    BY <1>1 DEF TypeOK
  <2> QED
    BY <1>2, <2>1, <2>2 DEF TypeOK
<1>4. UsedLinksAreStale' /\ DeadLinksAreStale'
  <2>1. Changed
    BY <1>1 DEF Changed
  <2> QED
    BY <2>1, WriteKeepsLinks
<1>5. ListedRowsArePlain' /\ RowsInHandAreRows'
  BY DEF ListedRowsArePlain, RowsInHandAreRows
<1>6. LastWordWorks'
  BY <1>1, <1>2 DEF LastWordWorks, TypeOK
<1> QED
  BY <1>3, <1>4, <1>5, <1>6

\* That is what the add form does, and the change-password screen.
LEMMA AdminKeepsInv ==
  ASSUME CredentialsInv, NEW word \in Words \cup {None},
         \/ \E u \in Users : AdminAdds(u, word)
         \/ \E f \in Forms : AdminSets(f, word)
  PROVE  CredentialsInv'
<1> USE NoneIsNull DEF CredentialsInv
<1>1. ASSUME NEW u \in Users, AdminAdds(u, word)
      PROVE  CredentialsInv'
  <2>1. /\ Set(u, word)
        /\ UNCHANGED <<day, login, logins, form, link, visit, repair, uses, overlapped, revived>>
    BY <1>1 DEF AdminAdds, signIns
  <2>2. login' \in [Users -> Nat] /\ form' \in [Forms -> Form \cup {None}]
    BY <2>1 DEF TypeOK
  <2> QED
    BY <2>1, <2>2, SetKeepsInv
<1>2. ASSUME NEW f \in Forms, AdminSets(f, word)
      PROVE  CredentialsInv'
  <2>1. /\ form[f] \in Form
        /\ Set(form[f].user, word)
        /\ login' = [login EXCEPT ![form[f].user] = form[f].login]
        /\ form' = [form EXCEPT ![f] = None]
        /\ UNCHANGED <<day, logins, link, visit, repair, uses, overlapped, revived>>
    BY <1>2 DEF AdminSets, TypeOK
  <2>2. form[f].user \in Users /\ form[f].login \in Nat
    BY <2>1 DEF Form
  <2>3. /\ login' \in [Users -> Nat] /\ form' \in [Forms -> Form \cup {None}]
        /\ \A g \in Forms : form'[g] = form[g] \/ form'[g] = None
    BY <2>1, <2>2 DEF TypeOK
  <2> QED
    BY <2>1, <2>2, <2>3, SetKeepsInv
<1> QED
  BY <1>1, <1>2

\* A password through a link: the link is used, and of another column from then on.
LEMMA SetPasswordKeepsInv ==
  ASSUME CredentialsInv, NEW v \in Visits, NEW word \in Words, SetPassword(v, word)
  PROVE  CredentialsInv'
<1> USE NoneIsNull DEF CredentialsInv
<1> DEFINE l == visit[v]
           u == link[l].user
<1>1. /\ l # None
      /\ Write(u, "hashed", word)
      /\ uses' = [uses EXCEPT ![l] = uses[l] + 1]
      /\ known' = [known EXCEPT ![u] = word]
      /\ raced' = raced \ {u}
      /\ visit' = [visit EXCEPT ![v] = None]
      /\ UNCHANGED <<day, login, logins, form, link, repair, overlapped, revived>>
  BY DEF SetPassword, signIns
<1>2. l \in Links /\ link[l] \in Link /\ link[l] # None /\ u \in Users /\ uses[l] \in Nat
  BY <1>1 DEF TypeOK, Link
<1>3. /\ "hashed" \in States /\ word \in Words \cup {None} /\ word # None
      /\ user' \in [Users -> User] /\ writes' \in [Users -> Nat]
      /\ dead' = dead \cup Unopened(u) /\ dead' \subseteq Links
      /\ user'[u].state = "hashed" /\ user'[u].word = word
      /\ \A w \in Users : w # u => user'[w] = user[w]
      /\ \A w \in Users : user'[w].stamp <= writes'[w]
      /\ \A w \in Users : user'[w].word # None <=> user'[w].state \in {"hashed", "plaintext"}
  BY <1>1, <1>2, WriteIsNew DEF States
<1>4. /\ \A m \in Links : link[m] # None =>
           /\ link[m].stamp <= writes'[link[m].user]
           /\ link[m].user = u => link[m].stamp # user'[link[m].user].stamp
           /\ link[m].stamp # user[link[m].user].stamp =>
                link[m].stamp # user'[link[m].user].stamp
      /\ \A f \in Forms : form[f] # None /\ form[f].step # "open" =>
           /\ form[f].row # None
           /\ form[f].row.stamp <= writes'[form[f].user]
  BY <1>1, <1>2, <1>3, WriteAgesLinks
<1>5. TypeOK'
  <2>1. uses' \in [Links -> Nat] /\ known' \in [Users -> Words \cup {None}] /\ raced' \subseteq Users
    BY <1>1, <1>2 DEF TypeOK
  <2>2. /\ visit' \in [Visits -> Links \cup {None}]
        /\ \A w \in Visits : visit'[w] # None => link'[visit'[w]] # None
    BY <1>1 DEF TypeOK
  <2> QED
    BY <1>1, <1>3, <1>4, <2>1, <2>2 DEF TypeOK
<1>6. UsedLinksAreStale'
  <2> SUFFICES ASSUME NEW m \in Links
               PROVE  /\ link'[m] = None => uses'[m] = 0
                      /\ link'[m] # None /\ uses'[m] # 0 /\ m \notin revived' =>
                           link'[m].stamp # user'[link'[m].user].stamp
                      /\ m \notin overlapped' \cup revived' =>
                           /\ uses'[m] <= 1
                           /\ \A x, y \in Visits : visit'[x] = m /\ visit'[y] = m =>
                                uses'[m] = 0 /\ x = y
    BY DEF UsedLinksAreStale
  <2>1. CASE m = l
    <3>1. uses'[m] = uses[m] + 1
      BY <1>1, <1>2, <2>1 DEF TypeOK
    <3>2. m \notin overlapped \cup revived => uses[m] = 0 /\ \A x \in Visits : visit[x] = m => x = v
      BY <1>2, <2>1 DEF UsedLinksAreStale
    <3> QED
      BY <1>1, <1>2, <1>4, <2>1, <3>1, <3>2 DEF TypeOK
  <2>2. CASE m # l
    BY <1>1, <1>2, <1>4, <2>2 DEF UsedLinksAreStale, TypeOK
  <2> QED
    BY <2>1, <2>2
<1>7. DeadLinksAreStale'
  BY <1>1, <1>3, <1>4 DEF DeadLinksAreStale, Unopened, TypeOK
<1>8. ListedRowsArePlain' /\ RowsInHandAreRows'
  BY <1>1 DEF ListedRowsArePlain, RowsInHandAreRows
<1>9. LastWordWorks'
  BY <1>1, <1>2, <1>3 DEF LastWordWorks, TypeOK
<1> QED
  BY <1>5, <1>6, <1>7, <1>8, <1>9

-------------------------------------------------------------------------------
\* The repair does one account and strikes it off its list.
LEMMA DoneStrikesOff ==
  ASSUME CredentialsInv, NEW o \in Repairs, NEW u \in Users, repair[o] # None, Done(o, u)
  PROVE  /\ repair' \in [Repairs -> Repair \cup {None}]
         /\ ListedRowsArePlain'
         /\ raced' \subseteq Users
<1> USE NoneIsNull DEF CredentialsInv, TypeOK
<1>1. repair[o] \in Repair /\ repair[o].todo \in [Users -> User \cup {None}]
  BY DEF Repair
<1> DEFINE todo == [repair[o].todo EXCEPT ![u] = None]
           done == [repair[o] EXCEPT !.todo = todo]
<1>2. repair' = [repair EXCEPT ![o] = done]
  BY DEF Done
<1>3. todo \in [Users -> User \cup {None}]
      /\ \A w \in Users : todo[w] # None => todo[w] = repair[o].todo[w]
  BY <1>1
<1>4. done \in Repair /\ done.todo = todo
  BY <1>1, <1>3 DEF Repair
<1> HIDE DEF done, todo
<1>5. ListedRowsArePlain'
  BY <1>2, <1>3, <1>4 DEF ListedRowsArePlain
<1> QED
  BY <1>2, <1>4, <1>5 DEF Done

\* rehash_password: the word that was listed, hashed.
LEMMA RehashKeepsInv ==
  ASSUME CredentialsInv, NEW o \in Repairs, NEW u \in Users, RehashPassword(o, u)
  PROVE  CredentialsInv'
<1> USE NoneIsNull DEF CredentialsInv
<1> DEFINE row == repair[o].todo[u]
<1>1. /\ repair[o] # None /\ row # None
      /\ row.state = "plaintext"
      /\ Write(u, "hashed", row.word)
      /\ Done(o, u)
      /\ UNCHANGED <<day, login, logins, form, link, visit, uses, overlapped, revived, known>>
  BY DEF RehashPassword, ListedRowsArePlain, signIns
<1>2. row \in User /\ row.word \in Words \cup {None} /\ row.word # None
  BY <1>1 DEF TypeOK, Repair, User, ListedRowsArePlain
<1>3. /\ "hashed" \in States
      /\ user' \in [Users -> User] /\ writes' \in [Users -> Nat] /\ dead' \subseteq Links
      /\ user'[u].state = "hashed" /\ user'[u].word = row.word
      /\ \A w \in Users : w # u => user'[w] = user[w]
      /\ \A w \in Users : user'[w].stamp <= writes'[w]
      /\ \A w \in Users : user'[w].word # None <=> user'[w].state \in {"hashed", "plaintext"}
  BY <1>1, <1>2, WriteIsNew DEF States
<1>4. /\ \A m \in Links : link[m] # None => link[m].stamp <= writes'[link[m].user]
      /\ \A f \in Forms : form[f] # None /\ form[f].step # "open" =>
           /\ form[f].row # None
           /\ form[f].row.stamp <= writes'[form[f].user]
  BY <1>1, <1>2, <1>3, WriteAgesLinks
<1>5. repair' \in [Repairs -> Repair \cup {None}] /\ ListedRowsArePlain' /\ raced' \subseteq Users
  BY <1>1, DoneStrikesOff
<1>6. TypeOK'
  BY <1>1, <1>3, <1>4, <1>5 DEF TypeOK
<1>7. UsedLinksAreStale' /\ DeadLinksAreStale'
  <2>1. Changed
    BY <1>1, <1>2, <1>3 DEF Changed
  <2> QED
    BY <1>1, <2>1, WriteKeepsLinks
<1>8. RowsInHandAreRows' /\ LastWordWorks'
  BY <1>1, <1>3 DEF RowsInHandAreRows, LastWordWorks, Done
<1> QED
  BY <1>5, <1>6, <1>7, <1>8

\* invalidate_password: no password any more, and a link in its place.
LEMMA InvalidateKeepsInv ==
  ASSUME CredentialsInv, NEW o \in Repairs, NEW u \in Users, NEW l \in Links,
         InvalidatePassword(o, u, l)
  PROVE  CredentialsInv'
<1> USE NoneIsNull DEF CredentialsInv
<1>1. /\ repair[o] # None
      /\ Write(u, "unset", None)
      /\ Issue(l, u, user'[u])
      /\ known' = [known EXCEPT ![u] = IF user[u] = repair[o].todo[u] THEN None ELSE known[u]]
      /\ Done(o, u)
      /\ UNCHANGED <<day, login, logins, form, visit, uses, overlapped, revived>>
  BY DEF InvalidatePassword, signIns
<1>2. /\ "unset" \in States /\ "unset" \notin {"hashed", "plaintext"}
      /\ user' \in [Users -> User] /\ writes' \in [Users -> Nat] /\ dead' \subseteq Links
      /\ user'[u].state = "unset"
      /\ \A w \in Users : w # u => user'[w] = user[w]
      /\ \A w \in Users : user'[w].stamp <= writes'[w]
      /\ \A w \in Users : user'[w].word # None <=> user'[w].state \in {"hashed", "plaintext"}
  BY <1>1, WriteIsNew DEF States
<1>3. /\ link' \in [Links -> Link \cup {None}]
      /\ \A m \in Links : link[m] # None => link'[m] = link[m]
      /\ \A m \in Links : m # l => link'[m] = link[m]
      /\ link'[l].user = u /\ link'[l].stamp = user'[u].stamp
  BY <1>1, <1>2, IssueIsNew
<1>4. /\ \A m \in Links : link[m] # None => link[m].stamp <= writes'[link[m].user]
      /\ \A f \in Forms : form[f] # None /\ form[f].step # "open" =>
           /\ form[f].row # None
           /\ form[f].row.stamp <= writes'[form[f].user]
  BY <1>1, <1>2, WriteAgesLinks
<1>5. repair' \in [Repairs -> Repair \cup {None}] /\ ListedRowsArePlain' /\ raced' \subseteq Users
  BY <1>1, DoneStrikesOff
<1>6. TypeOK'
  <2>1. \A v \in Visits : visit'[v] # None => link'[visit'[v]] # None
    BY <1>1, <1>3 DEF TypeOK
  <2>2. known' \in [Users -> Words \cup {None}]
    BY <1>1 DEF TypeOK
  <2>3. \A m \in Links : link'[m] # None => link'[m].stamp <= writes'[link'[m].user]
    BY <1>2, <1>3, <1>4
  <2> QED
    BY <1>1, <1>2, <1>3, <1>4, <1>5, <2>1, <2>2, <2>3 DEF TypeOK
<1>7. UsedLinksAreStale' /\ DeadLinksAreStale'
  <2>1. Changed
    BY <1>1, <1>2 DEF Changed
  <2> QED
    BY <1>1, <1>3, <2>1, WriteKeepsLinks
<1>8. RowsInHandAreRows' /\ LastWordWorks'
  BY <1>1, <1>2 DEF RowsInHandAreRows, LastWordWorks, Done, TypeOK
<1> QED
  BY <1>5, <1>6, <1>7, <1>8

-------------------------------------------------------------------------------
LEMMA NextInv == CredentialsInv /\ [Next]_vars => CredentialsInv'
<1> SUFFICES ASSUME CredentialsInv, [Next]_vars PROVE CredentialsInv'
  OBVIOUS
<1>1. CASE NextDay \/ UNCHANGED vars
  BY <1>1, QuietKeepsInv
<1>2. CASE Office
  BY <1>2, HandOverKeepsInv, AdminKeepsInv, FormKeepsInv, SaveFormKeepsInv DEF Office
<1>3. CASE Owners
  BY <1>3, OpenLinkKeepsInv, SetPasswordKeepsInv, QuietKeepsInv DEF Owners
<1>4. CASE Command
  BY <1>4, CommandKeepsInv, RehashKeepsInv, InvalidateKeepsInv DEF Command
<1> QED
  BY <1>1, <1>2, <1>3, <1>4 DEF Next

THEOREM CredentialsInvariant == Spec => []CredentialsInv
<1>1. Init => CredentialsInv
  BY InitInv
<1>2. CredentialsInv /\ [Next]_vars => CredentialsInv'
  BY NextInv
<1> QED
  BY <1>1, <1>2, PTL DEF Spec

\* Types: a link is of a column its account has had, and a password is of a word.
THEOREM CredentialsTypeCorrect == Spec => []TypeOK
BY CredentialsInvariant, PTL DEF CredentialsInv

LEMMA StaleLinksAreSpent == CredentialsInv => OneUsePerLink
  BY DEF CredentialsInv, UsedLinksAreStale, OneUsePerLink

\* A link sets one password, unless two requests had it open at once or an admin
\* form put back the column it was made from.
THEOREM LinkIsSpentOnce == Spec => []OneUsePerLink
BY CredentialsInvariant, StaleLinksAreSpent, PTL

\* The last password somebody set is the one that opens the account, unless the
\* repair or an admin form wrote from a row it read before.
THEOREM RepairKeepsTheWord == Spec => []LastWordWorks
BY CredentialsInvariant, PTL DEF CredentialsInv

\* The only use of a link is by a request that holds it, and nobody holds a dead one.
LEMMA OnlyHeldLinksAreUsed ==
  CredentialsInv /\ [Next]_vars => \A l \in dead \ revived : uses'[l] = uses[l]
<1> SUFFICES ASSUME CredentialsInv, [Next]_vars, NEW l \in dead \ revived
             PROVE  uses'[l] = uses[l]
  OBVIOUS
<1>1. ASSUME NEW v \in Visits, NEW word \in Words, SetPassword(v, word)
      PROVE  uses'[l] = uses[l]
  <2>1. uses' = [uses EXCEPT ![visit[v]] = uses[visit[v]] + 1] /\ visit[v] # l /\ l \in Links
    BY <1>1 DEF SetPassword, CredentialsInv, DeadLinksAreStale, TypeOK
  <2> QED
    BY <2>1 DEF CredentialsInv, TypeOK
<1>2. CASE NextDay \/ Office \/ Command \/ UNCHANGED vars
  BY <1>2 DEF NextDay, Office, Command, HandOver, AdminAdds, AdminSets, PostPassword, OpenForm,
     PostForm, SaveForm, CloseForm, ListDamaged, RehashPassword, InvalidatePassword, EndRepair,
     vars, history
<1>3. ASSUME NEW v \in Visits, NEW m \in Links, OpenLink(v, m) \/ CloseLink(v)
      PROVE  uses'[l] = uses[l]
  BY <1>3 DEF OpenLink, CloseLink, history
<1>4. ASSUME NEW u \in Users, LogIn(u)
      PROVE  uses'[l] = uses[l]
  BY <1>4 DEF LogIn, history
<1> QED
  BY <1>1, <1>2, <1>3, <1>4 DEF Next, Owners, CloseLink, history

\* A link that lay unopened while the password changed sets no password again, but
\* for a column put back.
THEOREM DeadLinkIsDead == Spec => DeadLinksStayDead
<1>1. CredentialsInv /\ [Next]_vars => \A l \in dead \ revived : uses'[l] = uses[l]
  BY OnlyHeldLinksAreUsed
<1> QED
  BY <1>1, CredentialsInvariant, PTL DEF Spec, DeadLinksStayDead
===============================================================================
