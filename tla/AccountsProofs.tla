--------------------------- MODULE AccountsProofs ---------------------------
(***************************************************************************)
(* Theorems about Accounts, for every set of ids, passwords and requests,  *)
(* and every bound on the requests and the faults.                         *)
(***************************************************************************)
EXTENDS Accounts, FiniteSetTheorems, TLAPS

-----------------------------------------------------------------------------
(* Groups of steps *)

\* A request begins.
Begins(r) ==
    \/ Register(r) \/ Login(r) \/ SignIn(r) \/ Profile(r) \/ Delete(r)
    \/ Forgot(r) \/ Resend(r)
    \/ \E s \in Session : Refresh(r, s)
    \/ \E v \in Code : Verify(r, v)
    \/ \E k \in Link : Reset(r, k)

\* A statement on users and their identities.
OnRows(r) ==
    \/ RegisterCreate(r) \/ LoginRestore(r) \/ GoogleFind(r) \/ GoogleFindEmail(r)
    \/ GoogleCreate(r) \/ GoogleLink(r) \/ GoogleSave(r) \/ ProfileSave(r)
    \/ SoftDelete(r) \/ TokenFind(r) \/ VerifySave(r)

\* A statement on tokens, or one that fails.
OnTokens(r) ==
    \/ Issue(r) \/ RefreshRevoke(r) \/ RevokeAll(r) \/ InvalidatePrevious(r)
    \/ NewToken(r) \/ ResetSave(r) \/ MarkUsed(r) \/ Fail(r) \/ FailSoftly(r)

(* Every step of a request is one of these. *)
LEMMA StepGroups ==
    ASSUME NEW r \in Request, RequestStep(r)
    PROVE  Begins(r) \/ OnRows(r) \/ OnTokens(r)
BY DEF RequestStep, HandleGoogleCallback, HandleGoogleIDToken, Begins, OnRows, OnTokens

-----------------------------------------------------------------------------
(* Types *)

Op == {"idle", "Register", "Login", "Refresh", "Google", "Profile", "Delete",
       "Forgot", "Resend", "Verify", "Reset"}

Statement == {"done", "create", "restore", "issue", "revoke", "find", "findEmail",
              "link", "save", "softDelete", "revokeAll", "invalidate", "newToken",
              "markUsed"}

Token == Session \cup Link \cup Code \cup {Null}

Job == [op : Op, at : Statement, id : Account \cup {Null}, tok : Token,
        copy : Row \cup {Null}]

Mail == [id : Account, at : {"invalidate", "newToken"}]

\* Which requests execute a statement, and what they hold by then.
Placed(j, sessions, links) ==
    /\ j.at = "issue" => j.op \in Issuers
    /\ j.at = "save" => j.op \in Savers
    /\ j.at = "link" => j.op = "Google"
    /\ j.at = "revokeAll" => j.op \in {"Delete", "Reset"}
    /\ j.at \in {"invalidate", "newToken"} => j.op \in {"Forgot", "Resend"}
    /\ j.at = "markUsed" => j.op \in {"Verify", "Reset"}
    /\ j.op = "Resend" => j.at \in {"invalidate", "newToken"}
    /\ j.op = "Refresh" => j.tok \in Session /\ sessions[j.tok] # Null
    /\ j.op = "Reset" => j.tok \in Link /\ links[j.tok] # Null
    /\ j.op = "Verify" => j.tok \in Code
    /\ j.at \in {"link", "save"} => /\ j.copy \in Row
                                    /\ j.copy.deleted = "no"
                                    /\ j.copy.id = j.id

TypeOK ==
    /\ row \in Row \cup {Null}
    /\ asked \in Row \cup {Null}
    /\ row = Null <=> asked = Null
    /\ born \in SUBSET Account
    /\ google \in Account \cup {Null}
    /\ session \in [Session -> SessionRow \cup {Null}]
    /\ link \in [Link -> TokenRow \cup {Null}]
    /\ code \in [Code -> TokenRow \cup {Null}]
    /\ mailing \in SUBSET Mail
    /\ req \in [Request -> Job]
    /\ \A r \in Request : Placed(req[r], session, link)
    /\ started \in Nat
    /\ faults \in Nat
    /\ clash \in SUBSET Clashes

(* An UPDATE that ends tokens: what it leaves of a table. *)
LEMMA KillSessions ==
    ASSUME session \in [Session -> SessionRow \cup {Null}], NEW S
    PROVE  /\ Kill(session, S) \in [Session -> SessionRow \cup {Null}]
           /\ \A s \in Session :
                 /\ Kill(session, S)[s] = Null <=> session[s] = Null
                 /\ session[s] # Null => /\ Kill(session, S)[s].next = session[s].next
                                         /\ Kill(session, S)[s].stale = session[s].stale
                 /\ s \in Live(Kill(session, S)) <=> s \in Live(session) /\ s \notin S
<1>1. ASSUME NEW s \in Session, session[s] # Null
      PROVE  /\ [session[s] EXCEPT !.live = FALSE] \in SessionRow
             /\ [session[s] EXCEPT !.live = FALSE].live = FALSE
             /\ [session[s] EXCEPT !.live = FALSE].next = session[s].next
             /\ [session[s] EXCEPT !.live = FALSE].stale = session[s].stale
  <2>1. session[s] \in SessionRow
    BY <1>1
  <2> QED
    BY <2>1 DEF SessionRow
<1> QED
  BY <1>1, AccountsAssumption DEF Kill, Live

(* The same for the tables of mailed tokens. *)
LEMMA KillTokens ==
    ASSUME NEW T, NEW table \in [T -> TokenRow \cup {Null}], NEW S
    PROVE  /\ Kill(table, S) \in [T -> TokenRow \cup {Null}]
           /\ \A x \in T :
                 /\ Kill(table, S)[x] = Null <=> table[x] = Null
                 /\ table[x] # Null => Kill(table, S)[x].uses = table[x].uses
                 /\ x \in Live(Kill(table, S)) <=> x \in Live(table) /\ x \notin S
<1>1. ASSUME NEW x \in T, table[x] # Null
      PROVE  /\ [table[x] EXCEPT !.live = FALSE] \in TokenRow
             /\ [table[x] EXCEPT !.live = FALSE].live = FALSE
             /\ [table[x] EXCEPT !.live = FALSE].uses = table[x].uses
  <2>1. table[x] \in TokenRow
    BY <1>1
  <2> QED
    BY <2>1 DEF TokenRow
<1> QED
  BY <1>1, AccountsAssumption DEF Kill, Live

(* A new token: its row was empty, and is live and unused. *)
LEMMA InsertToken ==
    ASSUME NEW T, NEW table \in [T -> TokenRow \cup {Null}], NEW id, NEW new,
           Inserted(table, id, new)
    PROVE  /\ new \in [T -> TokenRow \cup {Null}]
           /\ \/ new = table
              \/ Exists(id) /\ \E x \in T : /\ table[x] = Null
                                            /\ new[x] = [live |-> TRUE, uses |-> 0]
                                            /\ \A y \in T \ {x} : new[y] = table[y]
<1>1. [live |-> TRUE, uses |-> 0] \in TokenRow
  BY DEF TokenRow
<1> QED
  BY <1>1 DEF Inserted

(* What the changes of a row keep of it. *)
LEMMA ChangedRows ==
    ASSUME NEW u \in Row
    PROVE  /\ SoftDeleted(u) \in Row /\ SoftDeleted(u).id = u.id
           /\ u.deleted # "expired" => SoftDeleted(u).deleted # "expired"
           /\ Restored(u) \in Row /\ Restored(u).id = u.id /\ Restored(u).deleted = "no"
           /\ Verified(u) \in Row /\ Verified(u).id = u.id
           /\ Verified(u).deleted = u.deleted
           /\ [u EXCEPT !.deleted = "expired"] \in Row
           /\ \A p \in Password : /\ [u EXCEPT !.pw = p] \in Row
                                  /\ [u EXCEPT !.pw = p].id = u.id
                                  /\ [u EXCEPT !.pw = p].deleted = u.deleted
BY DEF SoftDeleted, Restored, Verified, Row

\* No row of a token table is emptied again.
RowsStay ==
    /\ \A s \in Session : session[s] # Null => session'[s] # Null
    /\ \A k \in Link : link[k] # Null => link'[k] # Null

(* A request that goes on as a job that is in its place leaves all in theirs. *)
LEMMA Moved ==
    ASSUME TypeOK, RowsStay, NEW r \in Request, NEW j \in Job,
           req' = [req EXCEPT ![r] = j], Placed(j, session', link')
    PROVE  /\ req' \in [Request -> Job]
           /\ \A q \in Request : Placed(req'[q], session', link')
<1>1. req' \in [Request -> Job]
  BY DEF TypeOK
<1>2. ASSUME NEW q \in Request, q # r PROVE Placed(req'[q], session', link')
  BY <1>2 DEF TypeOK, Placed, RowsStay
<1>3. Placed(req'[r], session', link')
  BY DEF TypeOK
<1> QED
  BY <1>1, <1>2, <1>3

(* The same for one that stays, moves on with what it holds, or ends. *)
LEMMA MovedAt ==
    ASSUME TypeOK, RowsStay, NEW r \in Request,
           \/ req' = req
           \/ Finish(r)
           \/ \E at \in Statement :
                 /\ Goto(r, at)
                 /\ Placed([req[r] EXCEPT !.at = at], session', link')
    PROVE  /\ req' \in [Request -> Job]
           /\ \A q \in Request : Placed(req'[q], session', link')
<1>1. CASE req' = req
  BY <1>1 DEF TypeOK, Placed, RowsStay
<1>2. CASE Finish(r)
  <2>1. Idle \in Job /\ Placed(Idle, session', link')
    BY DEF Idle, Job, Op, Statement, Token, Placed
  <2> QED
    BY <1>2, <2>1, Moved DEF Finish
<1>3. ASSUME NEW at \in Statement, Goto(r, at),
             Placed([req[r] EXCEPT !.at = at], session', link')
      PROVE  /\ req' \in [Request -> Job]
             /\ \A q \in Request : Placed(req'[q], session', link')
  <2>1. req[r] \in Job
    BY DEF TypeOK
  <2>2. [req[r] EXCEPT !.at = at] \in Job
    BY <2>1 DEF Job
  <2> QED
    BY <1>3, <2>2, Moved DEF Goto
<1> QED
  BY <1>1, <1>2, <1>3

(* A request that begins as a job in its place keeps the types. *)
LEMMA BeginTypes ==
    ASSUME TypeOK, NEW r \in Request, NEW op \in Op, NEW at \in Statement,
           NEW id \in Account \cup {Null}, NEW tok \in Token, NEW copy \in Row \cup {Null},
           Begin(r, op, at, id, tok, copy),
           Placed([op |-> op, at |-> at, id |-> id, tok |-> tok, copy |-> copy],
                  session, link)
    PROVE  TypeOK'
<1> DEFINE j == [op |-> op, at |-> at, id |-> id, tok |-> tok, copy |-> copy]
<1>1. j \in Job
  BY DEF Job
<1>2. RowsStay
  BY DEF Begin, RowsStay, tokens
<1>3. req' = [req EXCEPT ![r] = j] /\ Placed(j, session', link')
  BY DEF Begin, tokens
<1>4. /\ req' \in [Request -> Job]
      /\ \A q \in Request : Placed(req'[q], session', link')
  BY <1>1, <1>2, <1>3, Moved
<1>5. clash' \in SUBSET Clashes /\ started' \in Nat
  BY DEF Begin, TypeOK
<1> QED
  BY <1>4, <1>5 DEF Begin, TypeOK, tokens

(* Requests that begin hold what their first statement needs. *)
LEMMA BeginningsTyped ==
    ASSUME TypeOK, NEW r \in Request, Begins(r)
    PROVE  TypeOK'
<1>0. /\ Null \in Account \cup {Null} /\ Null \in Token /\ Null \in Row \cup {Null}
      /\ google \in Account \cup {Null}
      /\ row # Null => row \in Row /\ row.id \in Account
  BY DEF Token, TypeOK, Row
<1>1. CASE Register(r)
  <2>1. Placed([op |-> "Register", at |-> "create", id |-> Null, tok |-> Null, copy |-> Null],
               session, link)
    BY DEF Placed
  <2>2. "Register" \in Op /\ "create" \in Statement
    BY DEF Op, Statement
  <2> QED
    BY <1>0, <1>1, <2>1, <2>2, BeginTypes DEF Register
<1>2. CASE Login(r)
  <2>1. row # Null /\ row.id \in Account
    BY <1>0, <1>2 DEF Login
  <2>2. \E at \in {"issue", "restore"} : Begin(r, "Login", at, row.id, Null, Null)
    BY <1>2 DEF Login
  <2>3. \A at \in {"issue", "restore"} :
           Placed([op |-> "Login", at |-> at, id |-> row.id, tok |-> Null, copy |-> Null],
                  session, link)
    BY DEF Placed, Issuers
  <2>4. "Login" \in Op /\ {"issue", "restore"} \subseteq Statement
    BY DEF Op, Statement
  <2> QED
    BY <1>0, <2>1, <2>2, <2>3, <2>4, BeginTypes
<1>3. CASE SignIn(r)
  <2>1. \E at \in {"findEmail", "find"}, id \in Account \cup {Null} :
           Begin(r, "Google", at, id, Null, Null)
    BY <1>0, <1>3 DEF SignIn
  <2>2. \A at \in {"findEmail", "find"}, id \in Account \cup {Null} :
           Placed([op |-> "Google", at |-> at, id |-> id, tok |-> Null, copy |-> Null],
                  session, link)
    BY DEF Placed
  <2>3. "Google" \in Op /\ {"findEmail", "find"} \subseteq Statement
    BY DEF Op, Statement
  <2> QED
    BY <1>0, <2>1, <2>2, <2>3, BeginTypes
<1>4. CASE Profile(r)
  BY <1>0, <1>4, BeginTypes DEF Profile, Active, Placed, Op, Statement, Savers
<1>5. CASE Delete(r)
  BY <1>0, <1>5, BeginTypes DEF Delete, Active, Placed, Op, Statement
<1>6. CASE Forgot(r)
  BY <1>0, <1>6, BeginTypes DEF Forgot, Active, Placed, Op, Statement
<1>7. CASE Resend(r)
  BY <1>0, <1>7, BeginTypes DEF Resend, Active, Placed, Op, Statement
<1>8. ASSUME NEW s \in Session, Refresh(r, s) PROVE TypeOK'
  <2>1. session[s] # Null /\ s \in Token
    BY <1>8 DEF Refresh, Live, Token
  <2> QED
    BY <1>0, <1>8, <2>1, BeginTypes DEF Refresh, Placed, Op, Statement
<1>9. ASSUME NEW v \in Code, Verify(r, v) PROVE TypeOK'
  <2>1. v \in Token
    BY DEF Token
  <2> QED
    BY <1>0, <1>9, <2>1, BeginTypes DEF Verify, Placed, Op, Statement
<1>10. ASSUME NEW k \in Link, Reset(r, k) PROVE TypeOK'
  <2>1. link[k] # Null /\ k \in Token
    BY <1>10 DEF Reset, Live, Token
  <2> QED
    BY <1>0, <1>10, <2>1, BeginTypes DEF Reset, Placed, Op, Statement
<1> QED
  BY <1>1, <1>2, <1>3, <1>4, <1>5, <1>6, <1>7, <1>8, <1>9, <1>10 DEF Begins

(* Statements that touch no token: rows, accounts and the place of a request. *)
LEMMA RowStatementsTyped ==
    ASSUME TypeOK, NEW r \in Request, OnRows(r)
    PROVE  TypeOK'
<1> USE AccountsAssumption
<1> DEFINE j == req[r]
<1>0. /\ j \in Job /\ Placed(j, session, link)
      /\ row # Null => row \in Row /\ row.id \in Account
  BY DEF TypeOK, Row
<1>a. session' = session /\ code' = code /\ UNCHANGED <<started, faults, clash>>
  BY DEF OnRows, RegisterCreate, LoginRestore, GoogleFind, GoogleFindEmail, GoogleCreate, GoogleLink,
         GoogleSave, ProfileSave, SoftDelete, TokenFind, VerifySave, tokens, Same
<1>b. link' = link
  BY DEF OnRows, RegisterCreate, LoginRestore, GoogleFind, GoogleFindEmail, GoogleCreate, GoogleLink,
         GoogleSave, ProfileSave, SoftDelete, TokenFind, VerifySave, tokens, Same
<1>c. RowsStay
  BY <1>a, <1>b DEF RowsStay
<1>d. ASSUME row' \in Row \cup {Null}, asked' \in Row \cup {Null}, row' = Null <=> asked' = Null,
             born' \in SUBSET Account,
             google' \in Account \cup {Null}, mailing' \in SUBSET Mail,
             req' \in [Request -> Job],
             \A q \in Request : Placed(req'[q], session', link')
      PROVE  TypeOK'
  BY <1>a, <1>b, <1>d DEF TypeOK
<1>e. ASSUME NEW at \in Statement, Goto(r, at),
             Placed([j EXCEPT !.at = at], session, link)
      PROVE  /\ req' \in [Request -> Job]
             /\ \A q \in Request : Placed(req'[q], session', link')
  BY <1>a, <1>b, <1>c, <1>e, MovedAt
<1>f. ASSUME Finish(r)
      PROVE  /\ req' \in [Request -> Job]
             /\ \A q \in Request : Placed(req'[q], session', link')
  BY <1>c, <1>f, MovedAt
<1>g. ASSUME NEW i \in Job, req' = [req EXCEPT ![r] = i], Placed(i, session, link)
      PROVE  /\ req' \in [Request -> Job]
             /\ \A q \in Request : Placed(req'[q], session', link')
  BY <1>a, <1>b, <1>c, <1>g, Moved
<1>1. CASE RegisterCreate(r)
  <2>1. ASSUME NEW id \in Account, NEW p \in Password, InsertUser(id, p),
               mailing' = mailing \cup {[id |-> id, at |-> "invalidate"]},
               req' = [req EXCEPT ![r].at = "issue", ![r].id = id]
        PROVE  TypeOK'
    <3>1. row' \in Row /\ asked' \in Row
      BY <2>1 DEF InsertUser, Row
    <3>2. mailing' \in SUBSET Mail /\ born' \in SUBSET Account
      BY <2>1 DEF Mail, InsertUser, TypeOK
    <3> DEFINE i == [j EXCEPT !.at = "issue", !.id = id]
    <3>3. req' = [req EXCEPT ![r] = i]
      BY <2>1, <1>0 DEF TypeOK, Job
    <3>4. i \in Job
      BY <1>0 DEF Job, Statement
    <3>5. Placed(i, session, link)
      BY <1>0, <1>1 DEF RegisterCreate, Doing, Placed, Issuers, Job
    <3>6. google' = google
      BY <1>1 DEF RegisterCreate
    <3> HIDE DEF i
    <3> QED
      BY <1>d, <1>g, <3>1, <3>2, <3>3, <3>4, <3>5, <3>6 DEF TypeOK
  <2>2. CASE row # Null /\ Finish(r) /\ UNCHANGED <<row, born, asked, mailing>>
    BY <1>1, <1>d, <1>f, <2>2 DEF RegisterCreate, TypeOK
  <2> QED
    BY <1>1, <2>1, <2>2 DEF RegisterCreate
<1>2. CASE LoginRestore(r)
  <2>1. /\ row' \in Row \cup {Null} /\ asked' \in Row \cup {Null}
        /\ row' = Null <=> asked' = Null
    <3>1. CASE Exists(j.id)
      <4>1. row \in Row /\ asked \in Row
        BY <3>1 DEF Exists, TypeOK
      <4>2. row' = Restored(row) /\ asked' = Restored(asked)
        BY <1>2, <3>1 DEF LoginRestore, Write
      <4> QED
        BY <4>1, <4>2, ChangedRows
    <3>2. CASE ~Exists(j.id)
      BY <1>2, <3>2 DEF LoginRestore, Write, TypeOK
    <3> QED
      BY <3>1, <3>2
  <2>2. Placed([j EXCEPT !.at = "issue"], session, link) /\ Goto(r, "issue")
    BY <1>0, <1>2 DEF LoginRestore, Doing, Placed, Issuers, Job
  <2> QED
    BY <1>2, <1>d, <1>e, <2>1, <2>2 DEF LoginRestore, TypeOK, Statement
<1>3. CASE GoogleFind(r)
  <2>1. ASSUME Active, Exists(j.id),
               req' = [req EXCEPT ![r].copy = row, ![r].at = "save"]
        PROVE  TypeOK'
    <3> DEFINE i == [j EXCEPT !.copy = row, !.at = "save"]
    <3>1. req' = [req EXCEPT ![r] = i]
      BY <2>1, <1>0 DEF TypeOK, Job
    <3>2. i \in Job
      BY <1>0 DEF Job, Statement, TypeOK
    <3>3. Placed(i, session, link)
      BY <1>0, <1>3, <2>1 DEF GoogleFind, Doing, Placed, Savers, Job, Active, Exists
    <3> HIDE DEF i
    <3> QED
      BY <1>3, <1>d, <1>g, <3>1, <3>2, <3>3 DEF GoogleFind, TypeOK
  <2>2. CASE Finish(r)
    BY <1>3, <1>d, <1>f, <2>2 DEF GoogleFind, TypeOK
  <2> QED
    BY <1>3, <2>1, <2>2 DEF GoogleFind
<1>4. CASE GoogleFindEmail(r)
  <2>1. ASSUME Active,
               req' = [req EXCEPT ![r].copy = row, ![r].id = row.id, ![r].at = "link"]
        PROVE  TypeOK'
    <3> DEFINE i == [j EXCEPT !.copy = row, !.id = row.id, !.at = "link"]
    <3>1. req' = [req EXCEPT ![r] = i]
      BY <2>1, <1>0 DEF TypeOK, Job
    <3>2. i \in Job
      BY <1>0, <2>1 DEF Job, Statement, Active
    <3>3. Placed(i, session, link)
      BY <1>0, <1>4, <2>1 DEF GoogleFindEmail, Doing, Placed, Job, Active
    <3> HIDE DEF i
    <3> QED
      BY <1>4, <1>d, <1>g, <3>1, <3>2, <3>3 DEF GoogleFindEmail, TypeOK
  <2>2. CASE req' = [req EXCEPT ![r].at = "create"]
    <3>1. Placed([j EXCEPT !.at = "create"], session, link) /\ Goto(r, "create")
      BY <1>0, <1>4, <2>2 DEF GoogleFindEmail, Doing, Placed, Job, Goto
    <3> QED
      BY <1>4, <1>d, <1>e, <3>1 DEF GoogleFindEmail, TypeOK, Statement
  <2> QED
    BY <1>4, <2>1, <2>2 DEF GoogleFindEmail
<1>5. CASE GoogleCreate(r)
  <2>1. ASSUME NEW id \in Account, InsertUser(id, Null),
               req' = [req EXCEPT ![r].copy = row', ![r].id = id, ![r].at = "link"]
        PROVE  TypeOK'
    <3>1. /\ row' \in Row /\ row'.deleted = "no" /\ row'.id = id
          /\ asked' = row' /\ born' \in SUBSET Account
      BY <2>1 DEF InsertUser, Row, TypeOK
    <3> DEFINE i == [j EXCEPT !.copy = row', !.id = id, !.at = "link"]
    <3>2. req' = [req EXCEPT ![r] = i]
      BY <2>1, <1>0 DEF TypeOK, Job
    <3>3. i \in Job
      BY <1>0, <3>1 DEF Job, Statement
    <3>4. Placed(i, session, link)
      BY <1>0, <1>5, <3>1 DEF GoogleCreate, Doing, Placed, Job
    <3> HIDE DEF i
    <3> QED
      BY <1>5, <1>d, <1>g, <3>1, <3>2, <3>3, <3>4 DEF GoogleCreate, TypeOK
  <2>2. CASE Finish(r) /\ UNCHANGED <<row, born, asked>>
    BY <1>5, <1>d, <1>f, <2>2 DEF GoogleCreate, TypeOK
  <2> QED
    BY <1>5, <2>1, <2>2 DEF GoogleCreate
<1>6. CASE GoogleLink(r)
  <2>1. CASE google' = j.id /\ Goto(r, "save") /\ Exists(j.id)
    <3>1. Placed([j EXCEPT !.at = "save"], session, link)
      BY <1>0, <1>6 DEF GoogleLink, Doing, Placed, Savers, Job
    <3>2. google' \in Account \cup {Null}
      BY <1>0, <2>1 DEF Job
    <3> QED
      BY <1>6, <1>d, <1>e, <2>1, <3>1, <3>2 DEF GoogleLink, TypeOK, Statement
  <2>2. CASE Finish(r) /\ UNCHANGED google
    BY <1>6, <1>d, <1>f, <2>2 DEF GoogleLink, TypeOK
  <2> QED
    BY <1>6, <2>1, <2>2 DEF GoogleLink
<1>7. CASE GoogleSave(r)
  <2>1. /\ row' \in Row \cup {Null} /\ asked' \in Row \cup {Null}
        /\ row' = Null <=> asked' = Null
    <3>1. j.copy \in Row
      BY <1>0, <1>7 DEF GoogleSave, Doing, Placed
    <3>2. \A u \in Row : Verified(u) \in Row
      BY ChangedRows
    <3>3. row = Null => asked = Null
      BY DEF TypeOK
    <3>4. UNCHANGED <<row, asked>> \/ (row' \in Row /\ asked' \in Row)
      BY <1>7, <3>1, <3>2, <3>3 DEF GoogleSave, Save, TypeOK
    <3> QED
      BY <3>4 DEF TypeOK
  <2>2. Placed([j EXCEPT !.at = "issue"], session, link) /\ Goto(r, "issue")
    BY <1>0, <1>7 DEF GoogleSave, Doing, Placed, Issuers, Job
  <2> QED
    BY <1>7, <1>d, <1>e, <2>1, <2>2 DEF GoogleSave, TypeOK, Statement
<1>8. CASE ProfileSave(r)
  <2>1. /\ row' \in Row \cup {Null} /\ asked' \in Row \cup {Null}
        /\ row' = Null <=> asked' = Null
    BY <1>0, <1>8 DEF ProfileSave, Doing, Placed, Save, TypeOK
  <2> QED
    BY <1>8, <1>d, <1>f, <2>1 DEF ProfileSave, TypeOK
<1>9. CASE SoftDelete(r)
  <2>1. /\ row' \in Row \cup {Null} /\ asked' \in Row \cup {Null}
        /\ row' = Null <=> asked' = Null
    <3>1. CASE Exists(j.id)
      <4>1. row \in Row /\ asked \in Row
        BY <3>1 DEF Exists, TypeOK
      <4>2. row' = SoftDeleted(row) /\ asked' = SoftDeleted(asked)
        BY <1>9, <3>1 DEF SoftDelete, Write
      <4> QED
        BY <4>1, <4>2, ChangedRows
    <3>2. CASE ~Exists(j.id)
      BY <1>9, <3>2 DEF SoftDelete, Write, TypeOK
    <3> QED
      BY <3>1, <3>2
  <2>2. Placed([j EXCEPT !.at = "revokeAll"], session, link) /\ Goto(r, "revokeAll")
    BY <1>0, <1>9 DEF SoftDelete, Doing, Placed, Job
  <2> QED
    BY <1>9, <1>d, <1>e, <2>1, <2>2 DEF SoftDelete, TypeOK, Statement
<1>10. CASE TokenFind(r)
  <2>1. ASSUME NEW at \in {"markUsed", "save"}, Active, Exists(j.id),
               req' = [req EXCEPT ![r].copy = row, ![r].at = at]
        PROVE  TypeOK'
    <3> DEFINE i == [j EXCEPT !.copy = row, !.at = at]
    <3>1. req' = [req EXCEPT ![r] = i]
      BY <2>1, <1>0 DEF TypeOK, Job
    <3>2. i \in Job
      BY <1>0 DEF Job, Statement, TypeOK
    <3>3. Placed(i, session, link)
      BY <1>0, <1>10, <2>1 DEF TokenFind, Placed, Savers, Job, Active, Exists
    <3> HIDE DEF i
    <3> QED
      BY <1>10, <1>d, <1>g, <3>1, <3>2, <3>3 DEF TokenFind, TypeOK
  <2>2. CASE Finish(r)
    BY <1>10, <1>d, <1>f, <2>2 DEF TokenFind, TypeOK
  <2> QED
    BY <1>10, <2>1, <2>2 DEF TokenFind
<1>11. CASE VerifySave(r)
  <2>1. /\ row' \in Row \cup {Null} /\ asked' \in Row \cup {Null}
        /\ row' = Null <=> asked' = Null
    <3>1. j.copy \in Row
      BY <1>0, <1>11 DEF VerifySave, Doing, Placed
    <3>2. \A u \in Row : Verified(u) \in Row
      BY ChangedRows
    <3>3. row = Null => asked = Null
      BY DEF TypeOK
    <3>4. UNCHANGED <<row, asked>> \/ (row' \in Row /\ asked' \in Row)
      BY <1>11, <3>1, <3>2, <3>3 DEF VerifySave, Save, TypeOK
    <3> QED
      BY <3>4 DEF TypeOK
  <2>2. CASE Goto(r, "markUsed")
    <3>1. Placed([j EXCEPT !.at = "markUsed"], session, link)
      BY <1>0, <1>11 DEF VerifySave, Doing, Placed, Job
    <3> QED
      BY <1>11, <1>d, <1>e, <2>1, <2>2, <3>1 DEF VerifySave, TypeOK, Statement
  <2>3. CASE Finish(r)
    BY <1>11, <1>d, <1>f, <2>1, <2>3 DEF VerifySave, TypeOK
  <2> QED
    BY <1>11, <2>2, <2>3 DEF VerifySave
<1> QED
  BY <1>1, <1>2, <1>3, <1>4, <1>5, <1>6, <1>7, <1>8, <1>9, <1>10, <1>11 DEF OnRows

(* Statements on the token tables, and statements that fail. *)
LEMMA TokenStatementsTyped ==
    ASSUME TypeOK, NEW r \in Request, OnTokens(r)
    PROVE  TypeOK'
<1> USE AccountsAssumption
<1> DEFINE j == req[r]
<1>0. j \in Job /\ Placed(j, session, link)
  BY DEF TypeOK
<1>a. UNCHANGED <<born, google, mailing, started, clash>> /\ faults' \in Nat
  BY DEF OnTokens, Issue, RefreshRevoke, RevokeAll, InvalidatePrevious, NewToken, ResetSave,
         MarkUsed, Fail, FailSoftly, Same, TypeOK
<1>b. ASSUME row' \in Row \cup {Null}, asked' \in Row \cup {Null}, row' = Null <=> asked' = Null,
             session' \in [Session -> SessionRow \cup {Null}],
             link' \in [Link -> TokenRow \cup {Null}],
             code' \in [Code -> TokenRow \cup {Null}],
             RowsStay,
             \/ Finish(r)
             \/ \E at \in Statement :
                   /\ Goto(r, at)
                   /\ Placed([j EXCEPT !.at = at], session', link')
      PROVE  TypeOK'
  <2>1. /\ req' \in [Request -> Job]
        /\ \A q \in Request : Placed(req'[q], session', link')
    BY <1>b, MovedAt
  <2> QED
    BY <1>a, <1>b, <2>1 DEF TypeOK
<1>c. ASSUME row' = row, asked' = asked
      PROVE  /\ row' \in Row \cup {Null} /\ asked' \in Row \cup {Null}
             /\ row' = Null <=> asked' = Null
  BY <1>c DEF TypeOK
<1>d. session' = session /\ link' = link => RowsStay
  BY DEF RowsStay
<1>1. CASE Issue(r)
  <2>1. CASE session' = session
    BY <1>1, <1>b, <1>c, <1>d, <2>1 DEF Issue, TypeOK
  <2>2. ASSUME NEW s \in Session, session[s] = Null, j.op = "Refresh",
               session' = [session EXCEPT
                             ![s] = [live |-> TRUE, next |-> 0,
                                     stale |-> session[j.tok].stale],
                             ![j.tok].next = IF @ = 0 THEN 1 ELSE 2]
        PROVE  TypeOK'
    <3>1. /\ j.tok \in Session /\ session[j.tok] \in SessionRow /\ j.tok # s
      BY <1>0, <2>2 DEF Placed, TypeOK
    <3> DEFINE new == [live |-> TRUE, next |-> 0, stale |-> session[j.tok].stale]
               old == [session[j.tok] EXCEPT !.next = IF @ = 0 THEN 1 ELSE 2]
    <3>2. new \in SessionRow /\ old \in SessionRow
      BY <3>1 DEF SessionRow
    <3>3. session' = [[session EXCEPT ![s] = new] EXCEPT ![j.tok] = old]
      BY <2>2, <3>1 DEF TypeOK
    <3> HIDE DEF new, old
    <3>4. session' \in [Session -> SessionRow \cup {Null}] /\ RowsStay
      BY <1>1, <3>2, <3>3 DEF TypeOK, RowsStay, Issue
    <3> QED
      BY <1>1, <1>b, <1>c, <3>4 DEF Issue, TypeOK
  <2>3. ASSUME NEW s \in Session, session[s] = Null,
               session' = [session EXCEPT ![s] = [live |-> TRUE, next |-> 0, stale |-> FALSE]]
        PROVE  TypeOK'
    <3>1. [live |-> TRUE, next |-> 0, stale |-> FALSE] \in SessionRow
      BY DEF SessionRow
    <3>2. session' \in [Session -> SessionRow \cup {Null}] /\ RowsStay
      BY <1>1, <2>3, <3>1 DEF TypeOK, RowsStay, Issue
    <3> QED
      BY <1>1, <1>b, <1>c, <3>2 DEF Issue, TypeOK
  <2> QED
    BY <1>1, <2>1, <2>2, <2>3 DEF Issue
<1>2. CASE RefreshRevoke(r)
  <2>1. Placed([j EXCEPT !.at = "issue"], session', link')
    BY <1>0, <1>2, KillSessions DEF RefreshRevoke, Doing, Placed, Issuers, Job, TypeOK
  <2>2. session' \in [Session -> SessionRow \cup {Null}] /\ RowsStay
    BY <1>2, KillSessions DEF RefreshRevoke, TypeOK, RowsStay
  <2> QED
    BY <1>2, <1>b, <1>c, <2>1, <2>2 DEF RefreshRevoke, TypeOK, Statement
<1>3. CASE RevokeAll(r)
  <2>1. session' \in [Session -> SessionRow \cup {Null}] /\ RowsStay
    BY <1>3, KillSessions DEF RevokeAll, TypeOK, RowsStay
  <2> QED
    BY <1>3, <1>b, <1>c, <2>1 DEF RevokeAll, TypeOK
<1>4. CASE InvalidatePrevious(r)
  <2>1. /\ link' \in [Link -> TokenRow \cup {Null}] /\ code' \in [Code -> TokenRow \cup {Null}]
        /\ RowsStay
    BY <1>4, KillTokens DEF InvalidatePrevious, Invalidated, TypeOK, RowsStay
  <2>2. Placed([j EXCEPT !.at = "newToken"], session', link')
    BY <1>0, <1>4 DEF InvalidatePrevious, Placed, Job
  <2> QED
    BY <1>4, <1>b, <1>c, <2>1, <2>2 DEF InvalidatePrevious, TypeOK, Statement
<1>5. CASE NewToken(r)
  <2>1. /\ link' \in [Link -> TokenRow \cup {Null}] /\ code' \in [Code -> TokenRow \cup {Null}]
        /\ RowsStay
    <3>1. CASE Inserted(link, j.id, link') /\ UNCHANGED code
      BY <1>5, <3>1, InsertToken DEF NewToken, TypeOK, RowsStay
    <3>2. CASE Inserted(code, j.id, code') /\ UNCHANGED link
      BY <1>5, <3>2, InsertToken DEF NewToken, TypeOK, RowsStay
    <3> QED
      BY <1>5, <3>1, <3>2 DEF NewToken
  <2> QED
    BY <1>5, <1>b, <1>c, <2>1 DEF NewToken, TypeOK
<1>6. CASE ResetSave(r)
  <2>1. j.op = "Reset" /\ j.copy \in Row /\ j.tok \in Link /\ link[j.tok] \in TokenRow
    BY <1>0, <1>6 DEF ResetSave, Doing, Placed, TypeOK
  <2>2. /\ row' \in Row \cup {Null} /\ asked' \in Row \cup {Null}
        /\ row' = Null <=> asked' = Null
    <3>1. PICK p \in Password : LET Changed(u) == [u EXCEPT !.pw = p]
                                IN Save(Changed(j.copy), Changed)
      BY <1>6 DEF ResetSave
    <3>2. \A u \in Row : [u EXCEPT !.pw = p] \in Row
      BY ChangedRows
    <3>3. row = Null => asked = Null
      BY DEF TypeOK
    <3>4. UNCHANGED <<row, asked>> \/ (row' \in Row /\ asked' \in Row)
      BY <2>1, <3>1, <3>2, <3>3 DEF Save, TypeOK
    <3> QED
      BY <3>4 DEF TypeOK
  <2>3. CASE Finish(r) /\ UNCHANGED <<link, session>>
    BY <1>6, <1>b, <1>d, <2>2, <2>3 DEF ResetSave, TypeOK
  <2>4. ASSUME Goto(r, "markUsed"),
               link' = [link EXCEPT ![j.tok].uses = IF @ = 0 THEN 1 ELSE 2],
               session' = [s \in Session |-> IF session[s] = Null THEN Null
                                             ELSE [session[s] EXCEPT !.stale = TRUE]]
        PROVE  TypeOK'
    <3> DEFINE used == [link[j.tok] EXCEPT !.uses = IF @ = 0 THEN 1 ELSE 2]
    <3>1. used \in TokenRow
      BY <2>1 DEF TokenRow
    <3>2. link' = [link EXCEPT ![j.tok] = used]
      BY <2>4
    <3> HIDE DEF used
    <3>3. /\ link' \in [Link -> TokenRow \cup {Null}]
          /\ \A k \in Link : link[k] # Null => link'[k] # Null
      BY <2>1, <3>1, <3>2 DEF TypeOK
    <3>4. ASSUME NEW s \in Session, session[s] # Null
          PROVE  [session[s] EXCEPT !.stale = TRUE] \in SessionRow
      BY <3>4 DEF SessionRow, TypeOK
    <3>5. /\ session' \in [Session -> SessionRow \cup {Null}]
          /\ \A s \in Session : session[s] # Null => session'[s] # Null
      BY <2>4, <3>4 DEF TypeOK
    <3>6. Placed([j EXCEPT !.at = "markUsed"], session', link')
      BY <1>0, <2>1, <3>3 DEF Placed, Job
    <3>7. code' = code
      BY <1>6 DEF ResetSave
    <3> QED
      BY <1>b, <2>2, <2>4, <3>3, <3>5, <3>6, <3>7 DEF TypeOK, RowsStay, Statement
  <2> QED
    BY <1>6, <2>3, <2>4 DEF ResetSave
<1>7. CASE MarkUsed(r)
  <2>1. /\ link' \in [Link -> TokenRow \cup {Null}] /\ code' \in [Code -> TokenRow \cup {Null}]
        /\ RowsStay
    BY <1>7, KillTokens DEF MarkUsed, TypeOK, RowsStay
  <2>2. j.op # "Verify" => Placed([j EXCEPT !.at = "revokeAll"], session', link')
    BY <1>0, <1>7, <2>1 DEF MarkUsed, Placed, Job, RowsStay
  <2> QED
    BY <1>7, <1>b, <1>c, <2>1, <2>2 DEF MarkUsed, TypeOK, Statement
<1>8. CASE Fail(r)
  BY <1>8, <1>b, <1>c, <1>d DEF Fail, TypeOK, tokens
<1>9. CASE FailSoftly(r)
  <2>1. CASE j.at = "invalidate" /\ Goto(r, "newToken")
    <3>1. Placed([j EXCEPT !.at = "newToken"], session', link')
      BY <1>0, <1>9, <2>1 DEF FailSoftly, Placed, Job, tokens
    <3> QED
      BY <1>9, <1>b, <1>c, <1>d, <2>1, <3>1 DEF FailSoftly, TypeOK, tokens, Statement
  <2>2. CASE Doing(r, "Google", "save") /\ Goto(r, "issue")
    <3>1. Placed([j EXCEPT !.at = "issue"], session', link')
      BY <1>0, <1>9, <2>2 DEF FailSoftly, Placed, Job, tokens, Doing, Issuers
    <3> QED
      BY <1>9, <1>b, <1>c, <1>d, <2>2, <3>1 DEF FailSoftly, TypeOK, tokens, Statement
  <2> QED
    BY <1>9, <2>1, <2>2 DEF FailSoftly
<1> QED
  BY <1>1, <1>2, <1>3, <1>4, <1>5, <1>6, <1>7, <1>8, <1>9 DEF OnTokens

(* Every step keeps the types. *)
LEMMA TypeStep ==
    ASSUME TypeOK, [Next]_vars
    PROVE  TypeOK'
<1> USE AccountsAssumption
<1>1. ASSUME NEW r \in Request, RequestStep(r) PROVE TypeOK'
  BY <1>1, StepGroups, BeginningsTyped, RowStatementsTyped, TokenStatementsTyped
<1>a. ASSUME RowsStay, req' = req
      PROVE  /\ req' \in [Request -> Job]
             /\ \A q \in Request : Placed(req'[q], session', link')
  BY <1>a DEF TypeOK, Placed, RowsStay
<1>2. ASSUME NEW s \in Session, Logout(s) PROVE TypeOK'
  <2>1. session' \in [Session -> SessionRow \cup {Null}] /\ RowsStay
    BY <1>2, KillSessions DEF Logout, TypeOK, RowsStay
  <2> QED
    BY <1>2, <1>a, <2>1 DEF Logout, Same, TypeOK
<1>3. ASSUME NEW m \in mailing, MailCode(m) PROVE TypeOK'
  <2>1. m \in Mail /\ [m EXCEPT !.at = "newToken"] \in Mail
    BY DEF Mail, TypeOK
  <2>2. code' \in [Code -> TokenRow \cup {Null}]
    <3>1. CASE code' = Invalidated(code, m.id)
      BY <3>1, KillTokens DEF Invalidated, TypeOK
    <3>2. CASE Inserted(code, m.id, code')
      BY <3>2, InsertToken DEF TypeOK
    <3> QED
      BY <1>3, <3>1, <3>2 DEF MailCode
  <2>3. mailing' \in SUBSET Mail
    BY <1>3, <2>1 DEF MailCode, TypeOK
  <2> QED
    BY <1>3, <1>a, <2>2, <2>3 DEF MailCode, Same, TypeOK, RowsStay
<1>4. ASSUME NEW m \in mailing, MailLost(m) PROVE TypeOK'
  BY <1>4, <1>a DEF MailLost, TypeOK, RowsStay, tokens
<1>5. CASE GraceEnds
  <2>1. row \in Row /\ asked \in Row
    BY <1>5 DEF GraceEnds, TypeOK
  <2>2. row' = [row EXCEPT !.deleted = "expired"] /\ asked' = [asked EXCEPT !.deleted = "expired"]
    BY <1>5 DEF GraceEnds, Write, Exists
  <2>3. row' \in Row /\ asked' \in Row
    BY <2>1, <2>2, ChangedRows
  <2> QED
    BY <1>5, <1>a, <2>3 DEF GraceEnds, Same, TypeOK, RowsStay, tokens
<1>6. CASE Purge
  BY <1>6, <1>a, KillSessions, KillTokens DEF Purge, Same, TypeOK, RowsStay
<1>7. CASE Expire
  <2>1. /\ link' \in [Link -> TokenRow \cup {Null}] /\ code' \in [Code -> TokenRow \cup {Null}]
        /\ RowsStay
    <3>1. session' = session
      BY <1>7 DEF Expire
    <3>2. ASSUME NEW k, link' = Kill(link, {k}), UNCHANGED code
          PROVE  /\ link' \in [Link -> TokenRow \cup {Null}]
                 /\ code' \in [Code -> TokenRow \cup {Null}]
                 /\ RowsStay
      BY <3>1, <3>2, KillTokens DEF TypeOK, RowsStay
    <3>3. ASSUME NEW v, code' = Kill(code, {v}), UNCHANGED link
          PROVE  /\ link' \in [Link -> TokenRow \cup {Null}]
                 /\ code' \in [Code -> TokenRow \cup {Null}]
                 /\ RowsStay
      BY <3>1, <3>3, KillTokens DEF TypeOK, RowsStay
    <3> QED
      BY <1>7, <3>2, <3>3 DEF Expire
  <2> QED
    BY <1>7, <1>a, <2>1 DEF Expire, Same, TypeOK
<1>8. CASE UNCHANGED vars
  <2>1. RowsStay /\ req' = req
    BY <1>8 DEF vars, tokens, RowsStay
  <2> QED
    BY <1>8, <1>a, <2>1 DEF vars, tokens, TypeOK
<1> QED
  BY <1>1, <1>2, <1>3, <1>4, <1>5, <1>6, <1>7, <1>8 DEF Next

(* The state of the accounts has its types. *)
THEOREM AccountsTypeCorrect == Spec => []TypeOK
<1>1. Init => TypeOK
  BY AccountsAssumption DEF Init, TypeOK, Idle, Job, Op, Statement, Token, Placed
<1> QED
  BY <1>1, TypeStep, PTL DEF Spec

-----------------------------------------------------------------------------
(* The inductive invariants *)

\* The account is there, and its grace period has not ended.
Kept(id) == Exists(id) /\ row.deleted # "expired"

\* Statements of requests that have found the account active.
Bound == {"link", "save", "markUsed", "invalidate", "newToken", "softDelete", "revokeAll"}

\* No account is purged under a request that has found it active.
BoundInv ==
    /\ \A r \in Request : req[r].at \in Bound => Kept(req[r].id)
    /\ \A m \in mailing : Kept(m.id)

\* Requests that have not clashed do not overlap.
Apart ==
    /\ \A k \in Clashes \ clash : \A r, q \in Request :
          r # q => ~Disturb(k, req[r].op, req[q].op)
    /\ "codes" \notin clash => mailing = {} \/ ~Running("Resend")

\* Whoever is about to be signed in has an active account.
SignedInInv ==
    "sessions" \notin clash =>
        \A r \in Request :
            req[r].op \in Issuers \ {"Refresh"} /\ req[r].at \in {"link", "save", "issue"}
                => row = Null \/ row.deleted = "no"

\* A login that restores an account does so for the one with the address, or
\* that one has been purged and its successor is not deleted.
RestoreInv ==
    "sessions" \notin clash =>
        \A r \in Request :
            Doing(r, "Login", "restore")
                => row = Null \/ row.id = req[r].id \/ row.deleted = "no"

\* Live sessions of a deleted account, and those from before a reset, are about
\* to be revoked; none of them is being renewed.
SessionsInv ==
    "sessions" \notin clash /\ faults = 0 =>
        /\ row # Null /\ row.deleted # "no"
              => Live(session) = {} \/ \E r \in Request : Doing(r, "Delete", "revokeAll")
        /\ (\E s \in Live(session) : session[s].stale)
              => \E r \in Request : \/ Doing(r, "Reset", "markUsed")
                                    \/ Doing(r, "Reset", "revokeAll")
        /\ \A r \in Request :
              req[r].op = "Refresh" => /\ ~session[req[r].tok].stale
                                       /\ row = Null \/ row.deleted = "no"

\* A token that can be renewed, or is being renewed, has no successor yet.
RefreshInv ==
    "refresh" \notin clash =>
        /\ \A s \in Session :
              session[s] # Null => /\ session[s].next < 2
                                   /\ s \in Live(session) => session[s].next = 0
        /\ \A r \in Request :
              req[r].op = "Refresh" =>
                  /\ session[req[r].tok].next = 0
                  /\ req[r].at = "issue" => req[r].tok \notin Live(session)

\* What a request has read of the row is what it will replace.
SavesInv ==
    "row" \notin clash =>
        /\ row = asked
        /\ \A r \in Request : req[r].at \in {"link", "save"} => req[r].copy = row

\* A link that has changed the password is about to be ended.
LinksInv ==
    faults = 0 /\ "links" \notin clash =>
        /\ \A k, l \in Live(link) : k = l
        /\ \A k \in Link :
              link[k] # Null =>
                  /\ link[k].uses < 2
                  /\ k \in Live(link) /\ link[k].uses # 0
                        => \E r \in Request : Doing(r, "Reset", "markUsed") /\ req[r].tok = k
        /\ \A r \in Request :
              /\ req[r].op = "Reset" /\ req[r].at \in {"find", "save"}
                    => link[req[r].tok].uses = 0
              /\ Doing(r, "Forgot", "newToken") => Live(link) = {}

\* Who inserts a code has ended those before.
CodesInv ==
    /\ \A m, n \in mailing : m = n
    /\ faults = 0 /\ "codes" \notin clash =>
          /\ \A u, v \in Live(code) : u = v
          /\ \A m \in mailing : m.at = "newToken" => Live(code) = {}
          /\ \A r \in Request : Doing(r, "Resend", "newToken") => Live(code) = {}

-----------------------------------------------------------------------------
(* What the groups of steps do to the requests *)

(* A request that begins changes nothing but its own job and the record of   *)
(* clashes, and what it holds was so at that moment.                         *)
LEMMA Beginning ==
    ASSUME TypeOK, NEW r \in Request, Begins(r)
    PROVE  /\ UNCHANGED <<row, born, google, session, link, code, mailing, faults, asked>>
           /\ req[r] = Idle
           /\ \A q \in Request : q # r => req'[q] = req[q]
           /\ clash \subseteq clash'
           /\ \A k \in Clashes \ clash' : \A q \in Request \ {r} :
                 ~Disturb(k, req'[r].op, req[q].op) /\ ~Disturb(k, req[q].op, req'[r].op)
           /\ "codes" \notin clash' /\ req'[r].op = "Resend" => mailing = {}
           /\ req'[r].at \notin {"link", "newToken", "markUsed", "revokeAll"}
           /\ req'[r].at \in Bound => Active /\ req'[r].id = row.id
           /\ req'[r].at = "save" => req'[r].copy = row
           /\ req'[r].at = "issue" => row # Null /\ row.deleted = "no"
           /\ req'[r].at = "restore" => row # Null /\ req'[r].id = row.id
           /\ req'[r].op = "Refresh" => /\ req'[r].at = "revoke" /\ row # Null
                                        /\ req'[r].tok \in Live(session)
           /\ req'[r].op = "Reset" => req'[r].at = "find" /\ req'[r].tok \in Live(link)
<1>1. ASSUME NEW op, NEW at, NEW id, NEW tok, NEW copy, Begin(r, op, at, id, tok, copy)
      PROVE  /\ UNCHANGED <<row, born, google, session, link, code, mailing, faults, asked>>
             /\ req[r] = Idle
             /\ \A q \in Request : q # r => req'[q] = req[q]
             /\ clash \subseteq clash'
             /\ \A k \in Clashes \ clash' : \A q \in Request \ {r} :
                   ~Disturb(k, op, req[q].op) /\ ~Disturb(k, req[q].op, op)
             /\ "codes" \notin clash' /\ op = "Resend" => mailing = {}
             /\ req'[r] = [op |-> op, at |-> at, id |-> id, tok |-> tok, copy |-> copy]
  BY <1>1 DEF Begin, TypeOK, tokens, Clashes
<1> DEFINE Held(op, at, id, tok, copy) ==
             /\ at \notin {"link", "newToken", "markUsed", "revokeAll"}
             /\ at \in Bound => Active /\ id = row.id
             /\ at = "save" => copy = row
             /\ at = "issue" => row # Null /\ row.deleted = "no"
             /\ at = "restore" => row # Null /\ id = row.id
             /\ op = "Refresh" => at = "revoke" /\ row # Null /\ tok \in Live(session)
             /\ op = "Reset" => at = "find" /\ tok \in Live(link)
<1>2. \E op, at, id, tok, copy : Begin(r, op, at, id, tok, copy) /\ Held(op, at, id, tok, copy)
  <2>1. CASE Register(r)
    BY <2>1 DEF Register, Bound
  <2>2. CASE Login(r)
    BY <2>2 DEF Login, Bound
  <2>3. CASE SignIn(r)
    BY <2>3 DEF SignIn, Bound
  <2>4. CASE Profile(r)
    BY <2>4 DEF Profile, Bound
  <2>5. CASE Delete(r)
    BY <2>5 DEF Delete, Bound
  <2>6. CASE Forgot(r)
    BY <2>6 DEF Forgot, Bound
  <2>7. CASE Resend(r)
    BY <2>7 DEF Resend, Bound
  <2>8. ASSUME NEW s \in Session, Refresh(r, s)
        PROVE  \E op, at, id, tok, copy :
                  Begin(r, op, at, id, tok, copy) /\ Held(op, at, id, tok, copy)
    BY <2>8 DEF Refresh, Bound
  <2>9. ASSUME NEW v \in Code, Verify(r, v)
        PROVE  \E op, at, id, tok, copy :
                  Begin(r, op, at, id, tok, copy) /\ Held(op, at, id, tok, copy)
    BY <2>9 DEF Verify, Bound
  <2>10. ASSUME NEW k \in Link, Reset(r, k)
         PROVE  \E op, at, id, tok, copy :
                   Begin(r, op, at, id, tok, copy) /\ Held(op, at, id, tok, copy)
    BY <2>10 DEF Reset, Bound
  <2> QED
    BY <2>1, <2>2, <2>3, <2>4, <2>5, <2>6, <2>7, <2>8, <2>9, <2>10 DEF Begins
<1>3. PICK op, at, id, tok, copy : /\ Begin(r, op, at, id, tok, copy)
                                   /\ Held(op, at, id, tok, copy)
  BY <1>2
<1>4. req'[r] = [op |-> op, at |-> at, id |-> id, tok |-> tok, copy |-> copy]
  BY <1>1, <1>3
<1>5. /\ req'[r].op = op /\ req'[r].at = at /\ req'[r].id = id
      /\ req'[r].tok = tok /\ req'[r].copy = copy
  BY <1>4
<1>6. /\ UNCHANGED <<row, born, google, session, link, code, mailing, faults, asked>>
      /\ req[r] = Idle
      /\ \A q \in Request : q # r => req'[q] = req[q]
      /\ clash \subseteq clash'
      /\ "codes" \notin clash' /\ op = "Resend" => mailing = {}
  BY <1>1, <1>3
<1>7. \A k \in Clashes \ clash' : \A q \in Request \ {r} :
         ~Disturb(k, op, req[q].op) /\ ~Disturb(k, req[q].op, op)
  BY <1>1, <1>3
<1> QED
  BY <1>3, <1>5, <1>6, <1>7

(* A statement of a request leaves the others where they are, and its own    *)
(* request goes on as what it is, or ends.                                   *)
LEMMA GoingOn ==
    ASSUME TypeOK, NEW r \in Request, OnRows(r) \/ OnTokens(r)
    PROVE  /\ \A q \in Request : q # r => req'[q] = req[q]
           /\ req'[r].op = req[r].op \/ req'[r] = Idle
           /\ req'[r].tok = req[r].tok \/ req'[r] = Idle
           /\ clash' = clash
           /\ faults' = faults \/ (faults' # 0 /\ UNCHANGED <<row, asked, session, link, code>>)
<1> DEFINE Goes ==
             \/ req'[r] = Idle
             \/ req'[r].op = req[r].op /\ req'[r].tok = req[r].tok
<1>0. req \in [Request -> Job] /\ req[r] \in Job /\ faults \in Nat
  BY DEF TypeOK
<1>1. ASSUME Finish(r) PROVE Goes /\ \A q \in Request : q # r => req'[q] = req[q]
  BY <1>0, <1>1 DEF Finish
<1>2. ASSUME NEW at, Goto(r, at)
      PROVE  Goes /\ \A q \in Request : q # r => req'[q] = req[q]
  BY <1>0, <1>2 DEF Goto, Job
<1>3. ASSUME NEW at, NEW id, NEW copy,
             req' = [req EXCEPT ![r].copy = copy, ![r].id = id, ![r].at = at]
      PROVE  Goes /\ \A q \in Request : q # r => req'[q] = req[q]
  BY <1>0, <1>3 DEF Job
<1>4. ASSUME NEW at, NEW copy,
             req' = [req EXCEPT ![r].copy = copy, ![r].at = at]
      PROVE  Goes /\ \A q \in Request : q # r => req'[q] = req[q]
  BY <1>0, <1>4 DEF Job
<1>5. ASSUME NEW at, NEW id, req' = [req EXCEPT ![r].at = at, ![r].id = id]
      PROVE  Goes /\ \A q \in Request : q # r => req'[q] = req[q]
  BY <1>0, <1>5 DEF Job
<1>6. CASE OnRows(r)
  <2>1. Goes /\ \A q \in Request : q # r => req'[q] = req[q]
    <3>1. CASE RegisterCreate(r)
      BY <1>1, <1>5, <3>1 DEF RegisterCreate
    <3>2. CASE LoginRestore(r) \/ GoogleLink(r) \/ GoogleSave(r) \/ ProfileSave(r)
               \/ SoftDelete(r) \/ VerifySave(r)
      BY <1>1, <1>2, <3>2 DEF LoginRestore, GoogleLink, GoogleSave, ProfileSave, SoftDelete,
                              VerifySave
    <3>3. CASE GoogleFind(r) \/ TokenFind(r)
      BY <1>1, <1>4, <3>3 DEF GoogleFind, TokenFind
    <3>4. CASE GoogleFindEmail(r)
      BY <1>2, <1>3, <3>4 DEF GoogleFindEmail, Goto
    <3>5. CASE GoogleCreate(r)
      BY <1>1, <1>3, <3>5 DEF GoogleCreate
    <3> QED
      BY <1>6, <3>1, <3>2, <3>3, <3>4, <3>5 DEF OnRows
  <2>2. clash' = clash /\ faults' = faults
    BY <1>6 DEF OnRows, RegisterCreate, LoginRestore, GoogleFind, GoogleFindEmail,
         GoogleCreate, GoogleLink, GoogleSave, ProfileSave, SoftDelete, TokenFind,
         VerifySave, Same
  <2> QED
    BY <2>1, <2>2
<1>7. CASE OnTokens(r)
  <2>1. Goes /\ \A q \in Request : q # r => req'[q] = req[q]
    BY <1>1, <1>2, <1>7 DEF OnTokens, Issue, RefreshRevoke, RevokeAll, InvalidatePrevious,
         NewToken, ResetSave, MarkUsed, Fail, FailSoftly
  <2>2. clash' = clash
    BY <1>7 DEF OnTokens, Issue, RefreshRevoke, RevokeAll, InvalidatePrevious, NewToken,
         ResetSave, MarkUsed, Fail, FailSoftly, Same
  <2>3. faults' = faults \/ (faults' # 0 /\ UNCHANGED <<row, asked, session, link, code>>)
    BY <1>0, <1>7 DEF OnTokens, Issue, RefreshRevoke, RevokeAll, InvalidatePrevious, NewToken,
         ResetSave, MarkUsed, Fail, FailSoftly, Same, tokens
  <2> QED
    BY <2>1, <2>2, <2>3
<1> QED
  BY <1>6, <1>7

\* The steps that are of no request.
Elsewhere ==
    \/ \E s \in Session : Logout(s)
    \/ \E m \in mailing : MailCode(m) \/ MailLost(m)
    \/ GraceEnds \/ Purge \/ Expire

(* They leave the requests alone. *)
LEMMA ElsewhereKeepsRequests ==
    ASSUME Elsewhere
    PROVE  req' = req /\ clash' = clash
BY DEF Elsewhere, Logout, MailCode, MailLost, GraceEnds, Purge, Expire, Same

(* A step is one of a request that begins, one of a request that goes on, or *)
(* one of no request.                                                        *)
LEMMA Steps ==
    ASSUME [Next]_vars
    PROVE  \/ \E r \in Request : Begins(r) \/ OnRows(r) \/ OnTokens(r)
           \/ Elsewhere
           \/ UNCHANGED vars
BY StepGroups DEF Next, Elsewhere

-----------------------------------------------------------------------------
(* The row *)

(* A row is written as active, or with its id kept by a deletion, the end of *)
(* the grace period or the purge.                                            *)
LEMMA RowSteps ==
    ASSUME TypeOK, [Next]_vars, row' # row
    PROVE  \/ row' # Null /\ row'.deleted = "no" /\ (row # Null => row'.id = row.id)
           \/ \E r \in Request : /\ SoftDelete(r) /\ Exists(req[r].id)
                                 /\ row' = SoftDeleted(row)
           \/ GraceEnds /\ row' = [row EXCEPT !.deleted = "expired"]
           \/ Purge
<1> USE AccountsAssumption
<1> DEFINE Activated == row' # Null /\ row'.deleted = "no" /\ (row # Null => row'.id = row.id)
<1>1. ASSUME NEW r \in Request, OnRows(r)
      PROVE  \/ Activated
             \/ SoftDelete(r) /\ Exists(req[r].id) /\ row' = SoftDeleted(row)
  <2>0. Placed(req[r], session, link)
    BY DEF TypeOK
  <2>1. CASE RegisterCreate(r) \/ GoogleCreate(r)
    <3>1. \E id \in Account, p \in Password \cup {Null} : InsertUser(id, p)
      BY <2>1 DEF RegisterCreate, GoogleCreate
    <3>2. row = Null /\ row' \in Row /\ row'.deleted = "no"
      BY <3>1 DEF InsertUser, Row
    <3> QED
      BY <3>2
  <2>2. CASE LoginRestore(r)
    <3>1. row \in Row /\ row' = Restored(row)
      BY <2>2 DEF LoginRestore, Write, Exists, TypeOK
    <3> QED
      BY <3>1, ChangedRows
  <2>3. CASE GoogleFind(r) \/ GoogleFindEmail(r) \/ GoogleLink(r) \/ TokenFind(r)
    BY <2>3 DEF GoogleFind, GoogleFindEmail, GoogleLink, TokenFind
  <2>4. CASE GoogleSave(r)
    <3>1. req[r].copy \in Row /\ req[r].copy.deleted = "no"
      BY <2>0, <2>4 DEF GoogleSave, Doing, Placed
    <3>2. /\ Verified(req[r].copy) \in Row
          /\ Verified(req[r].copy).id = req[r].copy.id
          /\ Verified(req[r].copy).deleted = "no"
      BY <3>1, ChangedRows
    <3> QED
      BY <2>4, <3>2 DEF GoogleSave, Save
  <2>5. CASE ProfileSave(r)
    <3>1. req[r].copy \in Row /\ req[r].copy.deleted = "no"
      BY <2>0, <2>5 DEF ProfileSave, Doing, Placed
    <3> QED
      BY <2>5, <3>1 DEF ProfileSave, Save
  <2>6. CASE SoftDelete(r)
    BY <2>6 DEF SoftDelete, Write
  <2>7. CASE VerifySave(r)
    <3>1. req[r].copy \in Row /\ req[r].copy.deleted = "no"
      BY <2>0, <2>7 DEF VerifySave, Doing, Placed
    <3>2. /\ Verified(req[r].copy) \in Row
          /\ Verified(req[r].copy).id = req[r].copy.id
          /\ Verified(req[r].copy).deleted = "no"
      BY <3>1, ChangedRows
    <3> QED
      BY <2>7, <3>2 DEF VerifySave, Save
  <2> QED
    BY <1>1, <2>1, <2>2, <2>3, <2>4, <2>5, <2>6, <2>7 DEF OnRows
<1>2. ASSUME NEW r \in Request, OnTokens(r) PROVE Activated
  <2>1. ResetSave(r)
    BY <1>2 DEF OnTokens, Issue, RefreshRevoke, RevokeAll, InvalidatePrevious, NewToken,
                MarkUsed, Fail, FailSoftly
  <2>2. req[r].copy \in Row /\ req[r].copy.deleted = "no"
    BY <2>1 DEF ResetSave, Doing, Placed, TypeOK
  <2>3. PICK p \in Password : LET Changed(u) == [u EXCEPT !.pw = p]
                              IN Save(Changed(req[r].copy), Changed)
    BY <2>1 DEF ResetSave
  <2>4. /\ [req[r].copy EXCEPT !.pw = p] \in Row
        /\ [req[r].copy EXCEPT !.pw = p].id = req[r].copy.id
        /\ [req[r].copy EXCEPT !.pw = p].deleted = "no"
    BY <2>2, ChangedRows
  <2> QED
    BY <2>3, <2>4 DEF Save
<1>3. ASSUME NEW r \in Request, Begins(r) PROVE FALSE
  BY <1>3, Beginning
<1>4. CASE Elsewhere
  BY <1>4 DEF Elsewhere, Logout, MailCode, MailLost, GraceEnds, Write, Exists, Expire
<1> QED
  BY <1>1, <1>2, <1>3, <1>4, Steps DEF vars

(* While a request or a mail that has found the account active goes on, the  *)
(* account stays.                                                            *)
LEMMA KeptStays ==
    ASSUME TypeOK, BoundInv, [Next]_vars, NEW id, Kept(id),
           mailing # {} \/ \E q \in Request : req[q].at \in Bound
    PROVE  Kept(id)'
<1> USE AccountsAssumption
<1>1. row \in Row /\ row.id = id /\ row.deleted # "expired"
  BY DEF Kept, Exists, TypeOK
<1>2. ~GraceEnds
  BY DEF GraceEnds, Doing, Bound, Idle
<1>3. ~Purge
  BY <1>1 DEF Purge
<1>4. ASSUME row' = SoftDeleted(row) PROVE Kept(id)'
  BY <1>1, <1>4, ChangedRows DEF Kept, Exists
<1>5. row' = row => Kept(id)'
  BY <1>1 DEF Kept, Exists
<1> QED
  BY <1>1, <1>2, <1>3, <1>4, <1>5, RowSteps DEF Kept, Exists

(* A statement takes its request to a bound one only from another, or when it *)
(* has found or made the account active.                                     *)
LEMMA BoundByFinding ==
    ASSUME TypeOK, NEW r \in Request, OnRows(r) \/ OnTokens(r), req'[r].at \in Bound
    PROVE  \/ req[r].at \in Bound /\ req'[r].id = req[r].id
           \/ row' # Null /\ row'.deleted = "no" /\ row'.id = req'[r].id
<1> USE AccountsAssumption
<1> DEFINE Goal == \/ req[r].at \in Bound /\ req'[r].id = req[r].id
                   \/ row' # Null /\ row'.deleted = "no" /\ row'.id = req'[r].id
<1>0. req \in [Request -> Job] /\ req[r] \in Job
  BY DEF TypeOK
<1>1. ~Finish(r)
  BY <1>0 DEF Finish, Idle, Bound
<1>2. ASSUME NEW at, Goto(r, at) PROVE req'[r].at = at /\ req'[r].id = req[r].id
  BY <1>0, <1>2 DEF Goto, Job
<1>3. ASSUME NEW at, NEW id, NEW copy,
             req' = [req EXCEPT ![r].copy = copy, ![r].id = id, ![r].at = at]
      PROVE  req'[r].at = at /\ req'[r].id = id
  BY <1>0, <1>3 DEF Job
<1>4. ASSUME NEW at, NEW copy,
             req' = [req EXCEPT ![r].copy = copy, ![r].at = at]
      PROVE  req'[r].at = at /\ req'[r].id = req[r].id
  BY <1>0, <1>4 DEF Job
<1>5. ASSUME NEW at, NEW id, req' = [req EXCEPT ![r].at = at, ![r].id = id]
      PROVE  req'[r].at = at /\ req'[r].id = id
  BY <1>0, <1>5 DEF Job
<1>6. CASE RegisterCreate(r)
  BY <1>1, <1>5, <1>6 DEF RegisterCreate, Bound
<1>7. CASE LoginRestore(r) \/ GoogleSave(r) \/ RefreshRevoke(r)
  BY <1>2, <1>7 DEF LoginRestore, GoogleSave, RefreshRevoke, Bound
<1>8. CASE GoogleFind(r) \/ TokenFind(r)
  BY <1>1, <1>4, <1>8 DEF GoogleFind, TokenFind, Active, Exists
<1>9. CASE GoogleFindEmail(r)
  <2>1. ~Goto(r, "create")
    BY <1>2 DEF Bound
  <2> QED
    BY <1>3, <1>9, <2>1 DEF GoogleFindEmail, Active, Goto
<1>10. CASE GoogleCreate(r)
  <2>1. PICK id \in Account :
           /\ InsertUser(id, Null)
           /\ req' = [req EXCEPT ![r].copy = row', ![r].id = id, ![r].at = "link"]
    BY <1>1, <1>10 DEF GoogleCreate
  <2>2. row' \in Row /\ row'.deleted = "no" /\ row'.id = id
    BY <2>1 DEF InsertUser, Row
  <2> QED
    BY <1>3, <2>1, <2>2
<1>11. CASE GoogleLink(r) \/ SoftDelete(r) \/ VerifySave(r) \/ InvalidatePrevious(r)
            \/ ResetSave(r) \/ MarkUsed(r)
  <2>1. req[r].at \in Bound
    BY <1>11 DEF GoogleLink, SoftDelete, VerifySave, InvalidatePrevious, ResetSave,
                 MarkUsed, Doing, Bound
  <2> QED
    BY <1>1, <1>2, <1>11, <2>1 DEF GoogleLink, SoftDelete, VerifySave, InvalidatePrevious,
                                   ResetSave, MarkUsed
<1>12. CASE FailSoftly(r)
  <2>1. req[r].at \in Bound
    BY <1>12 DEF FailSoftly, Doing, Bound
  <2> QED
    BY <1>2, <1>12, <2>1 DEF FailSoftly
<1>13. CASE ProfileSave(r) \/ Issue(r) \/ RevokeAll(r) \/ NewToken(r) \/ Fail(r)
  BY <1>1, <1>13 DEF ProfileSave, Issue, RevokeAll, NewToken, Fail
<1> QED
  BY <1>6, <1>7, <1>8, <1>9, <1>10, <1>11, <1>12, <1>13 DEF OnRows, OnTokens

(* No account is purged under a request or a mail that has found it active. *)
LEMMA BoundStep ==
    ASSUME TypeOK, BoundInv, [Next]_vars
    PROVE  BoundInv'
<1> USE AccountsAssumption
<1> DEFINE KeptNext(id) == row' # Null /\ row'.id = id /\ row'.deleted # "expired"
<1>1. ASSUME NEW id, Kept(id), mailing # {} \/ \E q \in Request : req[q].at \in Bound
      PROVE  KeptNext(id)
  BY <1>1, KeptStays DEF Kept, Exists
<1>2. ASSUME NEW q \in Request, req'[q].at \in Bound PROVE KeptNext(req'[q].id)
  <2>1. CASE req[q].at \in Bound /\ req'[q].id = req[q].id
    BY <1>1, <2>1 DEF BoundInv
  <2>2. CASE req'[q] = req[q]
    BY <1>2, <2>1, <2>2
  <2>3. ASSUME NEW r \in Request, Begins(r) PROVE KeptNext(req'[q].id)
    BY <1>2, <2>2, <2>3, Beginning DEF Active
  <2>4. ASSUME NEW r \in Request, OnRows(r) \/ OnTokens(r) PROVE KeptNext(req'[q].id)
    <3>1. CASE q # r
      BY <2>2, <2>4, <3>1, GoingOn
    <3>2. CASE q = r
      BY <1>2, <2>1, <2>4, <3>2, BoundByFinding
    <3> QED
      BY <3>1, <3>2
  <2>5. CASE Elsewhere \/ UNCHANGED vars
    BY <2>2, <2>5, ElsewhereKeepsRequests DEF vars
  <2> QED
    BY <2>3, <2>4, <2>5, Steps
<1>3. ASSUME NEW m \in mailing' PROVE KeptNext(m.id)
  <2>1. ASSUME NEW n \in mailing, n.id = m.id PROVE KeptNext(m.id)
    BY <1>1, <2>1 DEF BoundInv
  <2>2. CASE mailing' = mailing
    BY <1>3, <2>1, <2>2
  <2>3. ASSUME NEW r \in Request, Begins(r) PROVE KeptNext(m.id)
    BY <2>2, <2>3, Beginning
  <2>4. ASSUME NEW r \in Request, OnTokens(r) PROVE KeptNext(m.id)
    BY <2>2, <2>4 DEF OnTokens, Issue, RefreshRevoke, RevokeAll, InvalidatePrevious, NewToken,
         ResetSave, MarkUsed, Fail, FailSoftly
  <2>5. ASSUME NEW r \in Request, OnRows(r) PROVE KeptNext(m.id)
    <3>1. CASE ~RegisterCreate(r)
      <4>1. mailing' = mailing
        BY <2>5, <3>1 DEF OnRows, LoginRestore, GoogleFind, GoogleFindEmail, GoogleCreate,
               GoogleLink, GoogleSave, ProfileSave, SoftDelete, TokenFind, VerifySave
      <4> QED
        BY <2>2, <4>1
    <3>2. ASSUME NEW id \in Account, NEW p \in Password, InsertUser(id, p),
                 mailing' = mailing \cup {[id |-> id, at |-> "invalidate"]}
          PROVE  KeptNext(m.id)
      <4>1. row' \in Row /\ row'.deleted = "no" /\ row'.id = id
        BY <3>2 DEF InsertUser, Row
      <4> QED
        BY <1>3, <2>1, <3>2, <4>1
    <3> QED
      BY <2>2, <2>5, <3>1, <3>2 DEF RegisterCreate
  <2>6. CASE Elsewhere
    <3>1. ASSUME NEW n \in mailing, MailCode(n) PROVE KeptNext(m.id)
      <4>1. m \in mailing \/ m = [n EXCEPT !.at = "newToken"]
        BY <1>3, <3>1 DEF MailCode
      <4>2. [n EXCEPT !.at = "newToken"].id = n.id
        BY DEF TypeOK, Mail
      <4> QED
        BY <2>1, <4>1, <4>2
    <3>2. ASSUME NEW n \in mailing, MailLost(n) PROVE KeptNext(m.id)
      BY <1>3, <2>1, <3>2 DEF MailLost
    <3> QED
      BY <2>2, <2>6, <3>1, <3>2 DEF Elsewhere, Logout, GraceEnds, Purge, Expire
  <2> QED
    BY <2>2, <2>3, <2>4, <2>5, <2>6, Steps DEF vars
<1> QED
  BY <1>2, <1>3 DEF BoundInv, Kept, Exists

(* The goroutines that mail codes: a sign-up starts one, and only they go on. *)
LEMMA Mailings ==
    /\ \A r \in Request : OnRows(r) \/ OnTokens(r) =>
          \/ mailing' = mailing
          \/ /\ RegisterCreate(r) /\ row = Null
             /\ \E id \in Account :
                   mailing' = mailing \cup {[id |-> id, at |-> "invalidate"]}
    /\ Elsewhere =>
          \/ mailing' = mailing
          \/ \E m \in mailing : MailCode(m) \/ MailLost(m)
<1>1. ASSUME NEW r \in Request, OnRows(r)
      PROVE  \/ mailing' = mailing
             \/ /\ RegisterCreate(r) /\ row = Null
                /\ \E id \in Account :
                      mailing' = mailing \cup {[id |-> id, at |-> "invalidate"]}
  BY <1>1 DEF OnRows, RegisterCreate, InsertUser, LoginRestore, GoogleFind, GoogleFindEmail,
         GoogleCreate, GoogleLink, GoogleSave, ProfileSave, SoftDelete, TokenFind, VerifySave
<1>2. ASSUME NEW r \in Request, OnTokens(r) PROVE mailing' = mailing
  BY <1>2 DEF OnTokens, Issue, RefreshRevoke, RevokeAll, InvalidatePrevious, NewToken,
         ResetSave, MarkUsed, Fail, FailSoftly
<1>3. ASSUME Elsewhere
      PROVE  mailing' = mailing \/ \E m \in mailing : MailCode(m) \/ MailLost(m)
  BY <1>3 DEF Elsewhere, Logout, GraceEnds, Purge, Expire
<1> QED
  BY <1>1, <1>2, <1>3

(* Overlapping requests that disturb one another are recorded as clashing. *)
LEMMA ApartStep ==
    ASSUME TypeOK, BoundInv, Apart, [Next]_vars
    PROVE  Apart'
<1> USE AccountsAssumption
<1> DEFINE Quiet == \A k \in Clashes \ clash' : \A r, q \in Request :
                       r # q => ~Disturb(k, req'[r].op, req'[q].op)
           OneSender == "codes" \notin clash' =>
                           mailing' = {} \/ ~\E q \in Request : req'[q].op = "Resend"
<1>0. \A k, o : ~Disturb(k, "idle", o) /\ ~Disturb(k, o, "idle")
  BY DEF Disturb, Issuers, Savers
<1>1. ASSUME NEW r \in Request, Begins(r) PROVE Quiet /\ OneSender
  <2>1. /\ \A q \in Request : q # r => req'[q] = req[q]
        /\ clash \subseteq clash' /\ mailing' = mailing
        /\ \A k \in Clashes \ clash' : \A q \in Request \ {r} :
              ~Disturb(k, req'[r].op, req[q].op) /\ ~Disturb(k, req[q].op, req'[r].op)
        /\ "codes" \notin clash' /\ req'[r].op = "Resend" => mailing = {}
    BY <1>1, Beginning
  <2> QED
    BY <2>1 DEF Apart, Running
<1>2. ASSUME NEW r \in Request, OnRows(r) \/ OnTokens(r) PROVE Quiet /\ OneSender
  <2>1. /\ \A q \in Request : q # r => req'[q] = req[q]
        /\ req'[r].op = req[r].op \/ req'[r].op = "idle"
        /\ clash' = clash
    BY <1>2, GoingOn DEF Idle
  <2>2. Quiet
    BY <1>0, <2>1 DEF Apart
  <2>3. ASSUME NEW q \in Request, req'[q].op = "Resend" PROVE req[q].op = "Resend"
    BY <2>1, <2>3
  <2>4. ASSUME NEW q \in Request, req[q].op = "Resend" PROVE row # Null
    BY <2>4 DEF TypeOK, Placed, Bound, BoundInv, Kept, Exists
  <2>5. mailing' = mailing \/ row = Null
    BY <1>2, Mailings
  <2> QED
    BY <2>1, <2>2, <2>3, <2>4, <2>5 DEF Apart, Running
<1>3. CASE Elsewhere
  <2>1. req' = req /\ clash' = clash
    BY <1>3, ElsewhereKeepsRequests
  <2>2. mailing = {} => mailing' = {}
    BY <1>3, Mailings
  <2> QED
    BY <2>1, <2>2 DEF Apart, Running
<1>4. CASE UNCHANGED vars
  BY <1>4 DEF vars, Apart, Running
<1>5. Quiet /\ OneSender => Apart'
  BY DEF Apart, Running
<1> QED
  BY <1>1, <1>2, <1>3, <1>4, <1>5, Steps
-----------------------------------------------------------------------------
(* Sessions *)

\* Sessions end, and keep what they have been renewed as.
SessionsEnd ==
    \A s \in Session :
        /\ session'[s] = Null <=> session[s] = Null
        /\ session[s] # Null => session'[s].next = session[s].next
        /\ s \in Live(session)' => s \in Live(session)

\* A sign-in issues the session s.
Issued(s) ==
    /\ session[s] = Null
    /\ session'[s] = [live |-> TRUE, next |-> 0, stale |-> FALSE]
    /\ \A t \in Session \ {s} : session'[t] = session[t]

\* A renewal of t issues the session s.
Renewed(t, s) ==
    /\ session[s] = Null /\ t # s
    /\ session'[s] = [live |-> TRUE, next |-> 0, stale |-> session[t].stale]
    /\ session'[t] = [session[t] EXCEPT !.next = IF @ = 0 THEN 1 ELSE 2]
    /\ \A u \in Session \ {s, t} : session'[u] = session[u]

(* A session is issued by a sign-in or by a renewal. *)
LEMMA Issues ==
    ASSUME TypeOK, NEW r \in Request, Issue(r)
    PROVE  \/ session' = session
           \/ /\ Exists(req[r].id)
              /\ \E s \in Session :
                    \/ req[r].op # "Refresh" /\ Issued(s)
                    \/ req[r].op = "Refresh" /\ Renewed(req[r].tok, s)
<1>1. CASE session' = session
  BY <1>1
<1>2. ASSUME NEW s \in Session, session[s] = Null, req[r].op = "Refresh",
             session' = [session EXCEPT
                           ![s] = [live |-> TRUE, next |-> 0,
                                   stale |-> session[req[r].tok].stale],
                           ![req[r].tok].next = IF @ = 0 THEN 1 ELSE 2]
      PROVE  Renewed(req[r].tok, s)
  <2>1. req[r].tok \in Session /\ req[r].tok # s
    BY <1>2 DEF TypeOK, Placed
  <2> DEFINE new == [live |-> TRUE, next |-> 0, stale |-> session[req[r].tok].stale]
             old == [session[req[r].tok] EXCEPT !.next = IF @ = 0 THEN 1 ELSE 2]
  <2>2. session' = [[session EXCEPT ![s] = new] EXCEPT ![req[r].tok] = old]
    BY <1>2, <2>1 DEF TypeOK
  <2> HIDE DEF new, old
  <2>3. /\ session'[s] = new /\ session'[req[r].tok] = old
        /\ \A u \in Session \ {s, req[r].tok} : session'[u] = session[u]
    BY <2>1, <2>2 DEF TypeOK
  <2> QED
    BY <1>2, <2>1, <2>3 DEF Renewed, new, old
<1>3. ASSUME NEW s \in Session, session[s] = Null,
             session' = [session EXCEPT ![s] = [live |-> TRUE, next |-> 0, stale |-> FALSE]]
      PROVE  Issued(s)
  BY <1>3 DEF Issued, TypeOK
<1> QED
  BY <1>1, <1>2, <1>3 DEF Issue

(* Issuing a session removes none. *)
LEMMA SessionsStay ==
    ASSUME TypeOK, NEW r \in Request, Issue(r), NEW u \in Session, session[u] # Null
    PROVE  session'[u] # Null
<1>1. ASSUME NEW s \in Session, Issued(s) PROVE session'[u] # Null
  BY <1>1 DEF Issued
<1>2. ASSUME NEW s \in Session, NEW t, Renewed(t, s) PROVE session'[u] # Null
  <2>1. session[u] \in SessionRow
    BY DEF TypeOK
  <2>2. [session[u] EXCEPT !.next = IF @ = 0 THEN 1 ELSE 2] \in SessionRow
    BY <2>1 DEF SessionRow
  <2> QED
    BY <1>2, <2>2, AccountsAssumption DEF Renewed
<1> QED
  BY <1>1, <1>2, Issues

(* Every other statement leaves the sessions alone or ends some; only a reset *)
(* makes them stale.                                                         *)
LEMMA SessionSteps ==
    ASSUME TypeOK, [Next]_vars, \A r \in Request : ~Issue(r)
    PROVE  /\ SessionsEnd
           /\ \/ \E r \in Request : ResetSave(r)
              \/ \A s \in Session : session[s] # Null => session'[s].stale = session[s].stale
<1> USE AccountsAssumption
<1> DEFINE Goal == /\ SessionsEnd
                   /\ \/ \E r \in Request : ResetSave(r)
                      \/ \A s \in Session :
                            session[s] # Null => session'[s].stale = session[s].stale
<1>1. CASE session' = session
  BY <1>1 DEF SessionsEnd, Live
<1>2. ASSUME NEW S, session' = Kill(session, S) PROVE Goal
  <2>1. session \in [Session -> SessionRow \cup {Null}]
    BY DEF TypeOK
  <2>2. \A s \in Session :
           /\ session'[s] = Null <=> session[s] = Null
           /\ session[s] # Null => /\ session'[s].next = session[s].next
                                   /\ session'[s].stale = session[s].stale
           /\ s \in Live(session') <=> s \in Live(session) /\ s \notin S
    BY <1>2, <2>1, KillSessions
  <2>3. Live(session)' = Live(session')
    BY DEF Live
  <2> QED
    BY <2>2, <2>3 DEF SessionsEnd
<1>3. ASSUME NEW r \in Request, OnTokens(r) PROVE Goal
  <2>1. CASE ResetSave(r)
    <3>1. ASSUME session' = [s \in Session |-> IF session[s] = Null THEN Null
                                               ELSE [session[s] EXCEPT !.stale = TRUE]]
          PROVE  SessionsEnd
      <4>1. ASSUME NEW s \in Session, session[s] # Null
            PROVE  /\ session'[s] # Null
                   /\ session'[s].next = session[s].next
                   /\ session'[s].live = session[s].live
        <5>1. session[s] \in SessionRow /\ session'[s] = [session[s] EXCEPT !.stale = TRUE]
          BY <3>1, <4>1 DEF TypeOK
        <5>2. [session[s] EXCEPT !.stale = TRUE] \in SessionRow
          BY <5>1 DEF SessionRow
        <5> QED
          BY <5>1, <5>2 DEF SessionRow
      <4>2. \A s \in Session : session[s] = Null => session'[s] = Null
        BY <3>1
      <4>3. DOMAIN session = Session /\ DOMAIN session' = Session
        BY <3>1 DEF TypeOK
      <4> QED
        BY <4>1, <4>2, <4>3 DEF SessionsEnd, Live
    <3> QED
      BY <1>1, <2>1, <3>1 DEF ResetSave
  <2>2. CASE ~ResetSave(r)
    BY <1>1, <1>2, <1>3, <2>2 DEF OnTokens, RefreshRevoke, RevokeAll, InvalidatePrevious,
         NewToken, MarkUsed, Fail, FailSoftly, tokens
  <2> QED
    BY <2>1, <2>2
<1>4. ASSUME NEW r \in Request, OnRows(r) PROVE Goal
  BY <1>1, <1>4 DEF OnRows, RegisterCreate, LoginRestore, GoogleFind, GoogleFindEmail,
         GoogleCreate, GoogleLink, GoogleSave, ProfileSave, SoftDelete, TokenFind, VerifySave,
         tokens
<1>5. ASSUME NEW r \in Request, Begins(r) PROVE Goal
  BY <1>1, <1>5, Beginning
<1>6. CASE Elsewhere
  BY <1>1, <1>2, <1>6 DEF Elsewhere, Logout, MailCode, MailLost, GraceEnds, Purge, Expire, tokens
<1> QED
  BY <1>1, <1>3, <1>4, <1>5, <1>6, Steps DEF vars, tokens

(* The statements of a renewal. *)
LEMMA Renewals ==
    ASSUME TypeOK, NEW r \in Request, OnRows(r) \/ OnTokens(r), req[r].op = "Refresh"
    PROVE  Issue(r) \/ RefreshRevoke(r) \/ Fail(r)
<1>1. ~OnRows(r)
  BY DEF OnRows, RegisterCreate, LoginRestore, GoogleFind, GoogleFindEmail,
         GoogleCreate, GoogleLink, GoogleSave, ProfileSave, SoftDelete, TokenFind, VerifySave, Doing
<1>2. Placed(req[r], session, link)
  BY DEF TypeOK
<1> QED
  BY <1>1, <1>2 DEF OnTokens, RevokeAll, InvalidatePrevious, NewToken, ResetSave, MarkUsed,
         FailSoftly, Doing, Placed

(* No token has two successors while renewals keep apart. *)
LEMMA RefreshStep ==
    ASSUME TypeOK, Apart, RefreshInv, [Next]_vars
    PROVE  RefreshInv'
<1> USE AccountsAssumption
<1> DEFINE Once == \A s \in Session :
                      session'[s] # Null => /\ session'[s].next < 2
                                            /\ s \in Live(session)' => session'[s].next = 0
           Renewing == \A r \in Request :
                          req'[r].op = "Refresh" =>
                              /\ session'[req'[r].tok].next = 0
                              /\ req'[r].at = "issue" => req'[r].tok \notin Live(session)'
<1> SUFFICES ASSUME "refresh" \notin clash'
             PROVE  Once /\ Renewing
  BY DEF RefreshInv
<1>0. "refresh" \notin clash
  BY Beginning, GoingOn, ElsewhereKeepsRequests, Steps DEF vars
<1>1. ASSUME NEW r \in Request, req[r].op = "Refresh"
      PROVE  /\ req[r].tok \in Session /\ session[req[r].tok] # Null
             /\ session[req[r].tok].next = 0
             /\ req[r].at = "issue" => req[r].tok \notin Live(session)
  BY <1>0, <1>1 DEF TypeOK, Placed, RefreshInv
<1>2. ASSUME NEW r \in Request, NEW q \in Request, r # q, req[r].op = "Refresh"
      PROVE  req[q].op # "Refresh"
  BY <1>0, <1>2 DEF Apart, Disturb, Clashes
<1>3. ASSUME NEW r \in Request, SessionsEnd, req'[r].op = "Refresh",
             req[r].op = "Refresh", req'[r].tok = req[r].tok,
             req'[r].at = "issue" => \/ req[r].at = "issue"
                                     \/ req[r].tok \notin Live(session)'
      PROVE  /\ session'[req'[r].tok].next = 0
             /\ req'[r].at = "issue" => req'[r].tok \notin Live(session)'
  BY <1>1, <1>3 DEF SessionsEnd
<1>4. SessionsEnd => Once
  BY <1>0 DEF SessionsEnd, RefreshInv
<1>5. ASSUME NEW r \in Request, Issue(r) PROVE Once /\ Renewing
  <2>1. req'[r] = Idle /\ \A q \in Request : q # r => req'[q] = req[q]
    BY <1>5 DEF Issue, Finish, TypeOK
  <2>2. DOMAIN session = Session /\ DOMAIN session' = Session
    BY TypeStep DEF TypeOK
  <2>3. CASE session' = session
    <3>1. SessionsEnd
      BY <2>3 DEF SessionsEnd, Live
    <3> QED
      BY <1>3, <1>4, <2>1, <3>1 DEF Idle
  <2>4. ASSUME NEW s \in Session, req[r].op # "Refresh", Issued(s) PROVE Once /\ Renewing
    <3>1. Once
      BY <1>0, <2>2, <2>4 DEF Issued, RefreshInv, Live
    <3>2. ASSUME NEW q \in Request, req'[q].op = "Refresh"
          PROVE  /\ session'[req'[q].tok].next = 0
                 /\ req'[q].at = "issue" => req'[q].tok \notin Live(session)'
      <4>1. req'[q] = req[q]
        BY <2>1, <3>2 DEF Idle
      <4>2. req[q].tok # s
        BY <1>1, <2>4, <3>2, <4>1 DEF Issued
      <4> QED
        BY <1>1, <2>2, <2>4, <3>2, <4>1, <4>2 DEF Issued, Live
    <3> QED
      BY <3>1, <3>2
  <2>5. ASSUME NEW s \in Session, req[r].op = "Refresh", Renewed(req[r].tok, s)
        PROVE  Once /\ Renewing
    <3> DEFINE t == req[r].tok
    <3>1. t \in Session /\ session[t] \in SessionRow /\ session[t].next = 0 /\ ~session[t].live
      BY <1>1, <1>5, <2>2, <2>5 DEF Issue, Live, TypeOK
    <3>2. session'[t] # Null /\ session'[t].next = 1 /\ ~session'[t].live
      <4>1. [session[t] EXCEPT !.next = 1] \in SessionRow
        BY <3>1 DEF SessionRow
      <4>2. session'[t] = [session[t] EXCEPT !.next = 1]
        BY <2>5, <3>1 DEF Renewed
      <4> QED
        BY <3>1, <4>1, <4>2 DEF SessionRow
    <3>3. session'[s].next = 0
      BY <2>5 DEF Renewed
    <3>4. ASSUME NEW u \in Session, u # s, u # t PROVE session'[u] = session[u]
      BY <2>5, <3>4 DEF Renewed
    <3>5. Once
      BY <1>0, <2>2, <3>2, <3>3, <3>4 DEF RefreshInv, Live
    <3>6. Renewing
      BY <1>2, <2>1, <2>5 DEF Idle
    <3> QED
      BY <3>5, <3>6
  <2> QED
    BY <1>5, <2>3, <2>4, <2>5, Issues
<1>6. CASE \A r \in Request : ~Issue(r)
  <2>1. SessionsEnd
    BY <1>6, SessionSteps
  <2>2. ASSUME NEW r \in Request, Begins(r) PROVE Renewing
    <3>1. /\ \A q \in Request : q # r => req'[q] = req[q]
          /\ req'[r].op = "Refresh" => req'[r].at = "revoke" /\ req'[r].tok \in Live(session)
          /\ session' = session
      BY <2>2, Beginning
    <3>2. \A s \in Live(session) : s \in Session /\ session[s].next = 0
      BY <1>0 DEF RefreshInv, Live, TypeOK
    <3> QED
      BY <1>3, <2>1, <3>1, <3>2
  <2>3. ASSUME NEW r \in Request, OnRows(r) \/ OnTokens(r) PROVE Renewing
    <3>1. /\ \A q \in Request : q # r => req'[q] = req[q]
          /\ req'[r] = Idle \/ (req'[r].op = req[r].op /\ req'[r].tok = req[r].tok)
      BY <2>3, GoingOn
    <3>2. ASSUME req'[r].op = "Refresh" PROVE req[r].tok \notin Live(session)'
      <4>1. req[r].op = "Refresh"
        BY <3>1, <3>2 DEF Idle
      <4>2. RefreshRevoke(r)
        BY <1>6, <2>3, <3>2, <4>1, Renewals DEF Fail, Finish, Idle, TypeOK
      <4>3. req[r].tok \notin Live(Kill(session, {req[r].tok}))
        BY <1>1, <4>1, KillSessions DEF TypeOK
      <4> QED
        BY <4>2, <4>3 DEF RefreshRevoke, Live
    <3>3. ASSUME NEW q \in Request, req'[q].op = "Refresh"
          PROVE  req[q].op = "Refresh" /\ req'[q].tok = req[q].tok
      BY <3>1, <3>3 DEF Idle
    <3> QED
      BY <1>3, <2>1, <3>1, <3>2, <3>3
  <2>4. CASE req' = req
    BY <1>3, <1>4, <2>1, <2>4
  <2> QED
    BY <1>4, <2>1, <2>2, <2>3, <2>4, ElsewhereKeepsRequests, Steps DEF vars
<1> QED
  BY <1>5, <1>6
-----------------------------------------------------------------------------
(* Saving the row *)

(* Saving a copy that is the row changes it as the request wishes. *)
LEMMA SaveFresh ==
    ASSUME TypeOK, SavesInv, BoundInv, "row" \notin clash,
           NEW r \in Request, req[r].at = "save"
    PROVE  row # Null /\ row = asked /\ req[r].copy = row
BY DEF SavesInv, BoundInv, Bound, Kept, Exists

(* No save takes back what another write has changed, while those that write *)
(* the row keep apart.                                                       *)
LEMMA SavesStep ==
    ASSUME TypeOK, BoundInv, Apart, SavesInv, [Next]_vars
    PROVE  SavesInv'
<1> USE AccountsAssumption
<1> DEFINE Wished == row' = asked'
           Fresh(q) == req'[q].at \in {"link", "save"} => req'[q].copy = row'
           Goal == Wished /\ \A q \in Request : Fresh(q)
<1> SUFFICES ASSUME "row" \notin clash' PROVE Goal
  BY DEF SavesInv
<1>0. "row" \notin clash /\ row = asked
  <2>1. "row" \notin clash
    BY Beginning, GoingOn, ElsewhereKeepsRequests, Steps DEF vars
  <2> QED
    BY <2>1 DEF SavesInv
<1>1. ASSUME NEW q \in Request, req[q].at \in {"link", "save"}
      PROVE  /\ row # Null /\ row.deleted # "expired" /\ req[q].copy = row
             /\ req[q].op \in Savers
  BY <1>0, <1>1 DEF SavesInv, BoundInv, Bound, Kept, Exists, TypeOK, Placed, Savers
<1>2. ASSUME NEW r \in Request, req[r].op \in Savers \cup {"Delete", "Login"},
             NEW q \in Request, q # r
      PROVE  req[q].at \notin {"link", "save"}
  BY <1>0, <1>1, <1>2 DEF Apart, Disturb, Clashes
<1>3. ASSUME NEW q \in Request, req'[q] = req[q], row' = row PROVE Fresh(q)
  BY <1>1, <1>3
<1>4. ASSUME NEW r \in Request, req[r].op \in Savers \cup {"Delete", "Login"},
             \A q \in Request : q # r => req'[q] = req[q],
             req'[r].at \notin {"link", "save"}
      PROVE  \A q \in Request : Fresh(q)
  BY <1>2, <1>4
<1>5. ASSUME NEW r \in Request, Begins(r) PROVE Goal
  <2>1. /\ \A q \in Request : q # r => req'[q] = req[q]
        /\ req'[r].at = "save" => req'[r].copy = row
        /\ req'[r].at # "link" /\ row' = row /\ asked' = asked
    BY <1>5, Beginning
  <2> QED
    BY <1>0, <1>3, <2>1
<1>6. ASSUME NEW r \in Request, OnRows(r) PROVE Goal
  <2>0. /\ \A q \in Request : q # r => req'[q] = req[q]
        /\ req \in [Request -> Job] /\ req[r] \in Job
    BY <1>6, GoingOn DEF TypeOK
  <2>1. ASSUME NEW id \in Account, NEW pw, InsertUser(id, pw), Fresh(r) PROVE Goal
    BY <1>1, <2>0, <2>1 DEF InsertUser
  <2>2. ASSUME Finish(r) PROVE req'[r].at = "done"
    BY <2>0, <2>2 DEF Finish, Idle
  <2>3. ASSUME NEW at, Goto(r, at) PROVE req'[r].at = at /\ req'[r].copy = req[r].copy
    BY <2>0, <2>3 DEF Goto, Job
  <2>4. CASE RegisterCreate(r)
    <3>1. req'[r].at \in {"issue", "done"}
      <4>1. ASSUME NEW id, req' = [req EXCEPT ![r].at = "issue", ![r].id = id]
            PROVE  req'[r].at = "issue"
        BY <2>0, <4>1 DEF Job
      <4> QED
        BY <2>2, <2>4, <4>1 DEF RegisterCreate
    <3>2. (\E id \in Account, p \in Password : InsertUser(id, p)) \/ UNCHANGED <<row, asked>>
      BY <2>4 DEF RegisterCreate
    <3> QED
      BY <1>0, <1>3, <2>0, <2>1, <3>1, <3>2
  <2>5. CASE GoogleCreate(r)
    <3>1. ASSUME NEW id \in Account, InsertUser(id, Null),
                 req' = [req EXCEPT ![r].copy = row', ![r].id = id, ![r].at = "link"]
          PROVE  Goal
      <4>1. req'[r].copy = row'
        BY <2>0, <3>1 DEF Job
      <4> QED
        BY <2>1, <3>1, <4>1
    <3>2. CASE Finish(r) /\ UNCHANGED <<row, asked>>
      BY <1>0, <1>3, <2>0, <2>2, <3>2
    <3> QED
      BY <2>5, <3>1, <3>2 DEF GoogleCreate
  <2>6. CASE LoginRestore(r)
    <3>1. req[r].op = "Login" /\ Goto(r, "issue")
      BY <2>6 DEF LoginRestore, Doing
    <3>2. Wished
      BY <1>0, <2>6 DEF LoginRestore, Write
    <3> QED
      BY <1>4, <2>0, <2>3, <3>1, <3>2
  <2>7. CASE SoftDelete(r)
    <3>1. req[r].op = "Delete" /\ Goto(r, "revokeAll")
      BY <2>7 DEF SoftDelete, Doing
    <3>2. Wished
      BY <1>0, <2>7 DEF SoftDelete, Write
    <3> QED
      BY <1>4, <2>0, <2>3, <3>1, <3>2
  <2>8. CASE GoogleSave(r)
    <3>1. req[r].op = "Google" /\ req[r].at = "save" /\ Goto(r, "issue")
      BY <2>8 DEF GoogleSave, Doing
    <3>2. row # Null /\ asked = row /\ req[r].copy = row
      BY <1>0, <3>1, SaveFresh
    <3>3. Wished
      BY <1>0, <2>8, <3>2 DEF GoogleSave, Save
    <3> QED
      BY <1>4, <2>0, <2>3, <3>1, <3>3 DEF Savers
  <2>9. CASE ProfileSave(r)
    <3>1. req[r].op = "Profile" /\ req[r].at = "save" /\ Finish(r)
      BY <2>9 DEF ProfileSave, Doing
    <3>2. row # Null /\ asked = row /\ req[r].copy = row
      BY <1>0, <3>1, SaveFresh
    <3>3. Wished
      BY <1>0, <2>9, <3>2 DEF ProfileSave, Save
    <3> QED
      BY <1>4, <2>0, <2>2, <3>1, <3>3 DEF Savers
  <2>10. CASE VerifySave(r)
    <3>1. req[r].op = "Verify" /\ req[r].at = "save" /\ (Goto(r, "markUsed") \/ Finish(r))
      BY <2>10 DEF VerifySave, Doing
    <3>2. row # Null /\ asked = row /\ req[r].copy = row
      BY <1>0, <3>1, SaveFresh
    <3>3. Wished
      BY <1>0, <2>10, <3>2 DEF VerifySave, Save
    <3> QED
      BY <1>4, <2>0, <2>2, <2>3, <3>1, <3>3 DEF Savers
  <2>11. CASE GoogleFind(r) \/ TokenFind(r)
    <3>1. ASSUME NEW at, req' = [req EXCEPT ![r].copy = row, ![r].at = at]
          PROVE  req'[r].copy = row
      BY <2>0, <3>1 DEF Job
    <3>2. UNCHANGED <<row, asked>> /\ (Finish(r) \/ req'[r].copy = row)
      BY <2>11, <3>1 DEF GoogleFind, TokenFind
    <3> QED
      BY <1>0, <1>3, <2>0, <2>2, <3>2
  <2>12. CASE GoogleFindEmail(r)
    <3>1. ASSUME NEW id, req' = [req EXCEPT ![r].copy = row, ![r].id = id, ![r].at = "link"]
          PROVE  req'[r].copy = row
      BY <2>0, <3>1 DEF Job
    <3>2. UNCHANGED <<row, asked>> /\ (Goto(r, "create") \/ req'[r].copy = row)
      BY <2>12, <3>1 DEF GoogleFindEmail, Goto
    <3> QED
      BY <1>0, <1>3, <2>0, <2>3, <3>2
  <2>13. CASE GoogleLink(r)
    <3>1. req[r].at = "link" /\ UNCHANGED <<row, asked>> /\ (Goto(r, "save") \/ Finish(r))
      BY <2>13 DEF GoogleLink, Doing
    <3> QED
      BY <1>0, <1>1, <1>3, <2>0, <2>2, <2>3, <3>1
  <2> QED
    BY <1>6, <2>4, <2>5, <2>6, <2>7, <2>8, <2>9, <2>10, <2>11, <2>12, <2>13 DEF OnRows
<1>7. ASSUME NEW r \in Request, OnTokens(r) PROVE Goal
  <2>0. /\ \A q \in Request : q # r => req'[q] = req[q]
        /\ req \in [Request -> Job] /\ req[r] \in Job
    BY <1>7, GoingOn DEF TypeOK
  <2>1. req'[r].at \notin {"link", "save"}
    <3>1. ASSUME Finish(r) PROVE req'[r].at = "done"
      BY <2>0, <3>1 DEF Finish, Idle
    <3>2. ASSUME NEW at, Goto(r, at) PROVE req'[r].at = at
      BY <2>0, <3>2 DEF Goto, Job
    <3> QED
      BY <1>7, <3>1, <3>2 DEF OnTokens, Issue, RefreshRevoke, RevokeAll, InvalidatePrevious,
           NewToken, ResetSave, MarkUsed, Fail, FailSoftly
  <2>2. CASE ResetSave(r)
    <3>1. req[r].op = "Reset" /\ req[r].at = "save"
      BY <2>2 DEF ResetSave, Doing
    <3>2. row # Null /\ asked = row /\ req[r].copy = row
      BY <1>0, <3>1, SaveFresh
    <3>3. PICK p \in Password : LET Changed(u) == [u EXCEPT !.pw = p]
                                IN Save(Changed(req[r].copy), Changed)
      BY <2>2 DEF ResetSave
    <3>4. Wished
      BY <1>0, <3>2, <3>3 DEF Save
    <3> QED
      BY <1>4, <2>0, <2>1, <3>1, <3>4 DEF Savers
  <2>3. CASE ~ResetSave(r)
    <3>1. UNCHANGED <<row, asked>>
      BY <1>7, <2>3 DEF OnTokens, Issue, RefreshRevoke, RevokeAll, InvalidatePrevious,
           NewToken, MarkUsed, Fail, FailSoftly
    <3> QED
      BY <1>0, <1>3, <2>0, <2>1, <3>1
  <2> QED
    BY <2>2, <2>3
<1>8. CASE GraceEnds
  <2>1. \A q \in Request : req'[q].at \notin {"link", "save"}
    BY <1>8 DEF GraceEnds, Doing, Idle
  <2>2. Wished
    BY <1>0, <1>8 DEF GraceEnds, Write
  <2> QED
    BY <2>1, <2>2
<1>9. CASE Purge
  <2>1. row' = asked' /\ req' = req /\ row.deleted = "expired"
    BY <1>9 DEF Purge
  <2> QED
    BY <1>1, <2>1
<1>10. CASE Elsewhere
  <2>1. GraceEnds \/ Purge \/ UNCHANGED <<row, asked, req>>
    BY <1>10 DEF Elsewhere, Logout, MailCode, MailLost, Expire
  <2> QED
    BY <1>0, <1>3, <1>8, <1>9, <2>1
<1> QED
  BY <1>0, <1>3, <1>5, <1>6, <1>7, <1>10, Steps DEF vars
-----------------------------------------------------------------------------
(* Links and codes *)

(* A step after which nothing has failed is not a failure. *)
LEMMA NothingFailed ==
    ASSUME TypeOK, [Next]_vars, faults' = 0
    PROVE  /\ faults = 0
           /\ \A r \in Request : ~Fail(r) /\ ~FailSoftly(r)
           /\ \A m \in mailing : ~MailLost(m)
<1>0. faults \in Nat
  BY DEF TypeOK
<1>1. /\ \A r \in Request : ~Fail(r) /\ ~FailSoftly(r)
      /\ \A m \in mailing : ~MailLost(m)
  BY <1>0 DEF Fail, FailSoftly, MailLost
<1>2. ASSUME Elsewhere PROVE faults = 0
  BY <1>1, <1>2 DEF Elsewhere, Logout, MailCode, GraceEnds, Purge, Expire, Same
<1> QED
  BY <1>1, <1>2, Beginning, GoingOn, Steps DEF vars

\* How a request that goes on differs from what it was about reset links.
LinkWork(r) ==
    /\ Doing(r, "Reset", "markUsed") => req'[r].op = "Reset" /\ req'[r].at = "markUsed"
    /\ req'[r].op = "Reset" /\ req'[r].at \in {"find", "save"} => req[r].at \in {"find", "save"}
    /\ req'[r].op = "Forgot" /\ req'[r].at = "newToken" => req[r].at = "newToken"

(* The statements that concern reset links. *)
LEMMA LinkStatements ==
    ASSUME TypeOK, NEW r \in Request, OnRows(r) \/ OnTokens(r)
    PROVE  \/ link' = link /\ LinkWork(r)
           \/ InvalidatePrevious(r) /\ req[r].op = "Forgot"
           \/ NewToken(r) /\ req[r].op = "Forgot"
           \/ ResetSave(r) /\ ~Finish(r)
           \/ MarkUsed(r) /\ req[r].op = "Reset"
           \/ Fail(r) \/ FailSoftly(r)
<1> USE AccountsAssumption
<1>0. req \in [Request -> Job] /\ req[r] \in Job /\ Placed(req[r], session, link)
  BY DEF TypeOK
<1>1. ASSUME Finish(r), ~Doing(r, "Reset", "markUsed") PROVE LinkWork(r)
  BY <1>0, <1>1 DEF Finish, Idle, LinkWork
<1>2. ASSUME NEW at, Goto(r, at), ~Doing(r, "Reset", "markUsed"),
             at \notin {"find", "save", "newToken"} \/ req[r].op \in {"Google", "Resend"}
      PROVE  LinkWork(r)
  BY <1>0, <1>2 DEF Goto, LinkWork, Job
<1>3. ASSUME NEW at, NEW copy, req[r].at = "find",
             req' = [req EXCEPT ![r].copy = copy, ![r].at = at],
             at # "newToken"
      PROVE  LinkWork(r)
  BY <1>0, <1>3 DEF LinkWork, Job, Doing
<1>4. ASSUME NEW at, NEW id, NEW copy, req[r].op = "Google" \/ req[r].op = "Register",
             \/ req' = [req EXCEPT ![r].copy = copy, ![r].id = id, ![r].at = at]
             \/ req' = [req EXCEPT ![r].at = at, ![r].id = id]
      PROVE  LinkWork(r)
  BY <1>0, <1>4 DEF LinkWork, Job, Doing
<1>5. CASE OnRows(r)
  <2>1. link' = link
    BY <1>5 DEF OnRows, RegisterCreate, LoginRestore, GoogleFind, GoogleFindEmail, GoogleCreate,
         GoogleLink, GoogleSave, ProfileSave, SoftDelete, TokenFind, VerifySave, tokens
  <2>2. LinkWork(r)
    <3>1. CASE RegisterCreate(r)
      BY <1>1, <1>4, <3>1 DEF RegisterCreate, Doing
    <3>2. CASE LoginRestore(r) \/ GoogleSave(r) \/ ProfileSave(r) \/ SoftDelete(r)
               \/ VerifySave(r)
      BY <1>1, <1>2, <3>2 DEF LoginRestore, GoogleSave, ProfileSave, SoftDelete, VerifySave,
                              Doing
    <3>3. CASE GoogleFind(r) \/ TokenFind(r)
      BY <1>1, <1>3, <3>3 DEF GoogleFind, TokenFind, Doing
    <3>4. CASE GoogleFindEmail(r)
      BY <1>2, <1>4, <3>4 DEF GoogleFindEmail, Goto, Doing
    <3>5. CASE GoogleCreate(r)
      BY <1>1, <1>4, <3>5 DEF GoogleCreate, Doing
    <3>6. CASE GoogleLink(r)
      BY <1>1, <1>2, <3>6 DEF GoogleLink, Doing
    <3> QED
      BY <1>5, <3>1, <3>2, <3>3, <3>4, <3>5, <3>6 DEF OnRows
  <2> QED
    BY <2>1, <2>2
<1>6. CASE Issue(r) \/ RefreshRevoke(r) \/ RevokeAll(r)
  BY <1>1, <1>2, <1>6 DEF Issue, RefreshRevoke, RevokeAll, Doing
<1>7. CASE InvalidatePrevious(r) \/ NewToken(r)
  <2>1. req[r].op \in {"Forgot", "Resend"}
    BY <1>0, <1>7 DEF InvalidatePrevious, NewToken, Placed
  <2> QED
    BY <1>1, <1>2, <1>7, <2>1 DEF InvalidatePrevious, NewToken, Doing
<1>8. CASE ResetSave(r)
  <2>1. CASE Finish(r)
    <3>1. link' = link
      <4>1. req[r].at = "save"
        BY <1>8 DEF ResetSave, Doing
      <4>2. ~Goto(r, "markUsed")
        BY <1>0, <2>1 DEF Finish, Idle, Goto
      <4> QED
        BY <1>8, <4>2 DEF ResetSave
    <3> QED
      BY <1>1, <1>8, <2>1, <3>1 DEF ResetSave, Doing
  <2> QED
    BY <1>8, <2>1
<1>9. CASE MarkUsed(r)
  BY <1>0, <1>1, <1>9 DEF MarkUsed, Placed, Doing
<1> QED
  BY <1>5, <1>6, <1>7, <1>8, <1>9 DEF OnTokens

(* One link is valid at a time and changes the password once, while requests *)
(* about links keep apart and nothing fails.                                 *)
LEMMA LinksStep ==
    ASSUME TypeOK, BoundInv, Apart, LinksInv, [Next]_vars
    PROVE  LinksInv'
<1> USE AccountsAssumption
<1> DEFINE OneLive == \A k, l \in Live(link)' : k = l
           Spent(k) == /\ link'[k].uses < 2
                       /\ k \in Live(link)' /\ link'[k].uses # 0
                             => \E r \in Request : /\ req'[r].op = "Reset"
                                                   /\ req'[r].at = "markUsed"
                                                   /\ req'[r].tok = k
           Unused(r) == req'[r].op = "Reset" /\ req'[r].at \in {"find", "save"}
                           => link'[req'[r].tok].uses = 0
           NoneLive(r) == req'[r].op = "Forgot" /\ req'[r].at = "newToken" => Live(link)' = {}
           Goal == /\ OneLive
                   /\ \A k \in Link : link'[k] # Null => Spent(k)
                   /\ \A r \in Request : Unused(r) /\ NoneLive(r)
<1> SUFFICES ASSUME faults' = 0, "links" \notin clash' PROVE Goal
  BY DEF LinksInv, Doing
<1>0. faults = 0 /\ "links" \notin clash
  BY NothingFailed, Beginning, GoingOn, ElsewhereKeepsRequests, Steps DEF vars
<1>1. /\ \A k, l \in Live(link) : k = l
      /\ \A k \in Link : link[k] # Null =>
            /\ link[k].uses < 2
            /\ k \in Live(link) /\ link[k].uses # 0
                  => \E r \in Request : Doing(r, "Reset", "markUsed") /\ req[r].tok = k
      /\ \A r \in Request :
            /\ req[r].op = "Reset" /\ req[r].at \in {"find", "save"}
                  => link[req[r].tok].uses = 0
            /\ Doing(r, "Forgot", "newToken") => Live(link) = {}
  BY <1>0 DEF LinksInv
<1>2. ASSUME NEW r \in Request, NEW q \in Request, r # q, req[r].op \in {"Forgot", "Reset"}
      PROVE  req[q].op \notin {"Forgot", "Reset"}
  BY <1>0, <1>2 DEF Apart, Disturb, Clashes
<1>3. /\ link \in [Link -> TokenRow \cup {Null}] /\ link' \in [Link -> TokenRow \cup {Null}]
      /\ DOMAIN link = Link /\ DOMAIN link' = Link
      /\ req \in [Request -> Job]
  BY TypeStep DEF TypeOK
<1>4. ASSUME NEW S, link' = Kill(link, S)
      PROVE  \A k \in Link :
                /\ link'[k] = Null <=> link[k] = Null
                /\ link[k] # Null => link'[k].uses = link[k].uses
                /\ k \in Live(link)' <=> k \in Live(link) /\ k \notin S
  BY <1>3, <1>4, KillTokens DEF Live
\* Links only end, and whoever has used one goes on or ends it.
<1>5. ASSUME \A k \in Link :
                /\ link'[k] = Null <=> link[k] = Null
                /\ link[k] # Null => link'[k].uses = link[k].uses
                /\ k \in Live(link)' => k \in Live(link)
                /\ \A r \in Request :
                      k \in Live(link)' /\ Doing(r, "Reset", "markUsed") /\ req[r].tok = k
                         => /\ req'[r].op = "Reset" /\ req'[r].at = "markUsed"
                            /\ req'[r].tok = k
      PROVE  OneLive /\ \A k \in Link : link'[k] # Null => Spent(k)
  <2>1. \A k \in Live(link)' : k \in Link
    BY <1>3 DEF Live
  <2> QED
    BY <1>1, <1>5, <2>1
<1>6. ASSUME NEW r \in Request, Begins(r) PROVE Goal
  <2>1. /\ \A q \in Request : q # r => req'[q] = req[q]
        /\ link' = link
        /\ req'[r].at \notin {"newToken", "markUsed"}
        /\ req'[r].op = "Reset" => req'[r].tok \in Live(link)
        /\ \A q \in Request \ {r} : ~Disturb("links", req'[r].op, req[q].op)
        /\ req[r] = Idle
    BY <1>6, Beginning DEF Clashes
  <2>2. Live(link)' = Live(link)
    BY <2>1 DEF Live
  <2>3. OneLive /\ \A k \in Link : link'[k] # Null => Spent(k)
    BY <1>5, <2>1, <2>2 DEF Doing, Idle
  <2>4. ASSUME req'[r].op = "Reset" PROVE link[req'[r].tok].uses = 0
    <3>1. req'[r].tok \in Link /\ link[req'[r].tok] # Null
      BY <1>3, <2>1, <2>4 DEF Live
    <3>2. \A q \in Request : ~(Doing(q, "Reset", "markUsed") /\ req[q].tok = req'[r].tok)
      BY <2>1, <2>4 DEF Disturb, Doing, Idle
    <3> QED
      BY <1>1, <2>1, <2>4, <3>1, <3>2
  <2>5. \A q \in Request : Unused(q) /\ NoneLive(q)
    BY <1>1, <2>1, <2>2, <2>4 DEF Doing
  <2> QED
    BY <2>3, <2>5
<1>7. ASSUME NEW r \in Request, OnRows(r) \/ OnTokens(r) PROVE Goal
  <2>0. /\ \A q \in Request : q # r => req'[q] = req[q]
        /\ req'[r] = Idle \/ (req'[r].op = req[r].op /\ req'[r].tok = req[r].tok)
        /\ Placed(req[r], session, link)
    BY <1>7, GoingOn DEF TypeOK
  \* Nobody else is at work on links.
  <2>1. ASSUME req[r].op \in {"Forgot", "Reset"}, NEW q \in Request, q # r
        PROVE  req'[q].op \notin {"Forgot", "Reset"} /\ ~Doing(q, "Reset", "markUsed")
    BY <1>2, <2>0, <2>1 DEF Doing
  <2>2. CASE link' = link /\ LinkWork(r)
    <3>1. Live(link)' = Live(link)
      BY <2>2 DEF Live
    <3>2. ASSUME NEW q \in Request, Doing(q, "Reset", "markUsed")
          PROVE  /\ req'[q].op = "Reset" /\ req'[q].at = "markUsed"
                 /\ req'[q].tok = req[q].tok
      BY <2>0, <2>2, <3>2 DEF LinkWork, Doing, Idle
    <3>3. OneLive /\ \A k \in Link : link'[k] # Null => Spent(k)
      BY <1>5, <2>2, <3>1, <3>2
    <3>4. ASSUME NEW q \in Request PROVE Unused(q) /\ NoneLive(q)
      BY <1>1, <2>0, <2>2, <3>1 DEF LinkWork, Doing, Idle
    <3> QED
      BY <3>3, <3>4
  <2>3. CASE InvalidatePrevious(r) /\ req[r].op = "Forgot"
    <3>1. Exists(req[r].id)
      BY <2>3 DEF InvalidatePrevious, BoundInv, Bound, Kept
    <3>2. link' = Kill(link, Link)
      BY <1>3, <2>3, <3>1 DEF InvalidatePrevious, Invalidated
    <3>3. Live(link)' = {}
      BY <1>3, <1>4, <3>2 DEF Live
    <3>4. req'[r].op # "Reset"
      BY <2>0, <2>3 DEF Idle
    <3>5. OneLive /\ \A k \in Link : link'[k] # Null => Spent(k)
      BY <1>4, <1>5, <3>2, <3>3
    <3>6. \A q \in Request : Unused(q) /\ NoneLive(q)
      BY <2>1, <2>3, <3>3, <3>4
    <3> QED
      BY <3>5, <3>6
  <2>4. CASE NewToken(r) /\ req[r].op = "Forgot"
    <3>1. Inserted(link, req[r].id, link') /\ Live(link) = {} /\ req'[r] = Idle
      BY <1>1, <1>3, <2>4 DEF NewToken, Doing, Finish
    <3>2. \A q \in Request : Unused(q) /\ NoneLive(q)
      BY <2>1, <2>4, <3>1 DEF Idle
    <3>3. CASE link' = link
      <4>1. Live(link)' = {}
        BY <3>1, <3>3 DEF Live
      <4> QED
        BY <1>5, <3>2, <3>3, <4>1
    <3>4. ASSUME NEW x \in Link, link'[x] = [live |-> TRUE, uses |-> 0],
                 \A y \in Link \ {x} : link'[y] = link[y]
          PROVE  Goal
      <4>1. \A y \in Live(link)' : y = x
        BY <1>3, <3>1, <3>4 DEF Live
      <4>2. \A k \in Link : link'[k] # Null => Spent(k)
        BY <1>1, <3>4, <4>1
      <4> QED
        BY <3>2, <4>1, <4>2
    <3> QED
      BY <1>3, <3>1, <3>3, <3>4, InsertToken
  <2>5. CASE ResetSave(r) /\ ~Finish(r)
    <3> DEFINE k == req[r].tok
    <3>1. /\ req[r].op = "Reset" /\ req[r].at = "save" /\ k \in Link /\ link[k] \in TokenRow
          /\ link[k].uses = 0
      BY <1>1, <1>3, <2>0, <2>5 DEF ResetSave, Doing, Placed
    <3>2. Goto(r, "markUsed") /\ link' = [link EXCEPT ![k].uses = IF @ = 0 THEN 1 ELSE 2]
      BY <2>5 DEF ResetSave
    <3>3. req'[r].op = "Reset" /\ req'[r].at = "markUsed" /\ req'[r].tok = k
      BY <1>3, <3>1, <3>2 DEF Goto, Job
    <3>4. /\ link'[k] # Null /\ link'[k].uses = 1 /\ link'[k].live = link[k].live
          /\ \A l \in Link : l # k => link'[l] = link[l]
      <4>1. [link[k] EXCEPT !.uses = 1] \in TokenRow
        BY <3>1 DEF TokenRow
      <4>2. link' = [link EXCEPT ![k] = [link[k] EXCEPT !.uses = 1]]
        BY <3>1, <3>2
      <4> QED
        BY <1>3, <3>1, <4>1, <4>2 DEF TokenRow
    <3>5. \A l \in Link : l \in Live(link)' <=> l \in Live(link)
      BY <1>3, <3>1, <3>4 DEF Live
    <3>6. \A q \in Request : ~Doing(q, "Reset", "markUsed")
      BY <2>1, <3>1 DEF Doing
    <3>7. ASSUME NEW l \in Link, link'[l] # Null PROVE Spent(l)
      BY <1>1, <3>3, <3>4, <3>5, <3>6, <3>7
    <3>8. OneLive
      BY <1>1, <1>3, <3>5 DEF Live
    <3>9. \A q \in Request : Unused(q) /\ NoneLive(q)
      BY <2>1, <3>1, <3>3
    <3> QED
      BY <3>7, <3>8, <3>9
  <2>6. CASE MarkUsed(r) /\ req[r].op = "Reset"
    <3>1. link' = Kill(link, {req[r].tok}) /\ Goto(r, "revokeAll")
      BY <2>6 DEF MarkUsed
    <3>2. req'[r].at = "revokeAll"
      BY <1>3, <3>1 DEF Goto, Job
    <3>3. OneLive /\ \A k \in Link : link'[k] # Null => Spent(k)
      <4>1. ASSUME NEW q \in Request, Doing(q, "Reset", "markUsed") PROVE q = r
        BY <2>1, <2>6, <4>1
      <4>2. \A k \in Link :
               /\ link'[k] = Null <=> link[k] = Null
               /\ link[k] # Null => link'[k].uses = link[k].uses
               /\ k \in Live(link)' => k \in Live(link) /\ k # req[r].tok
        BY <1>4, <3>1
      <4> QED
        BY <1>5, <4>1, <4>2
    <3>4. \A q \in Request : Unused(q) /\ NoneLive(q)
      BY <2>1, <2>6, <3>2
    <3> QED
      BY <3>3, <3>4
  <2>7. ~Fail(r) /\ ~FailSoftly(r)
    BY NothingFailed
  <2> QED
    BY <1>7, <2>2, <2>3, <2>4, <2>5, <2>6, <2>7, LinkStatements
<1>8. ASSUME req' = req, link' = link \/ \E S : link' = Kill(link, S) PROVE Goal
  <2>1. \A k \in Link :
           /\ link'[k] = Null <=> link[k] = Null
           /\ link[k] # Null => link'[k].uses = link[k].uses
           /\ k \in Live(link)' => k \in Live(link)
    <3>1. CASE link' = link
      BY <3>1 DEF Live
    <3> QED
      BY <1>4, <1>8, <3>1
  <2>2. OneLive /\ \A k \in Link : link'[k] # Null => Spent(k)
    BY <1>5, <1>8, <2>1 DEF Doing
  <2>3. Live(link) = {} => Live(link)' = {}
    BY <1>3, <2>1 DEF Live
  <2>4. \A r \in Request : req[r].op = "Reset" => req[r].tok \in Link /\ link[req[r].tok] # Null
    BY DEF TypeOK, Placed
  <2> QED
    BY <1>1, <1>8, <2>1, <2>2, <2>3, <2>4 DEF Doing
<1>9. CASE Elsewhere
  <2>1. link' = link \/ \E S : link' = Kill(link, S)
    BY <1>9 DEF Elsewhere, Logout, MailCode, MailLost, GraceEnds, Purge, Expire, tokens
  <2> QED
    BY <1>8, <1>9, <2>1, ElsewhereKeepsRequests
<1> QED
  BY <1>6, <1>7, <1>8, <1>9, Steps DEF vars, tokens

(* The statements of a request for another code, and the others on codes. *)
LEMMA CodeStatements ==
    ASSUME TypeOK, NEW r \in Request, OnRows(r) \/ OnTokens(r), ~Fail(r), ~FailSoftly(r)
    PROVE  \/ (InvalidatePrevious(r) \/ NewToken(r)) /\ req[r].op = "Resend"
           \/ /\ req[r].op # "Resend"
              /\ \/ code' = code
                 \/ MarkUsed(r) /\ code' = Kill(code, {req[r].tok})
<1>0. Placed(req[r], session, link)
  BY DEF TypeOK
<1>1. CASE OnRows(r)
  <2>1. req[r].op # "Resend"
    BY <1>1 DEF OnRows, RegisterCreate, LoginRestore, GoogleFind, GoogleFindEmail, GoogleCreate,
         GoogleLink, GoogleSave, ProfileSave, SoftDelete, TokenFind, VerifySave, Doing
  <2>2. code' = code
    BY <1>1 DEF OnRows, RegisterCreate, LoginRestore, GoogleFind, GoogleFindEmail, GoogleCreate,
         GoogleLink, GoogleSave, ProfileSave, SoftDelete, TokenFind, VerifySave, tokens
  <2> QED
    BY <2>1, <2>2
<1>2. CASE InvalidatePrevious(r) \/ NewToken(r)
  <2>1. req[r].op \in {"Forgot", "Resend"}
    BY <1>0, <1>2 DEF InvalidatePrevious, NewToken, Placed
  <2> QED
    BY <1>2, <2>1 DEF InvalidatePrevious, NewToken
<1>3. CASE Issue(r) \/ RefreshRevoke(r) \/ RevokeAll(r) \/ ResetSave(r) \/ MarkUsed(r)
  <2>1. req[r].at \notin {"invalidate", "newToken"}
    BY <1>3 DEF Issue, RefreshRevoke, RevokeAll, ResetSave, MarkUsed, Doing
  <2>2. code' = code \/ (MarkUsed(r) /\ code' = Kill(code, {req[r].tok}))
    BY <1>3 DEF Issue, RefreshRevoke, RevokeAll, ResetSave, MarkUsed
  <2> QED
    BY <1>0, <2>1, <2>2 DEF Placed
<1> QED
  BY <1>1, <1>2, <1>3 DEF OnTokens

(* One code is valid at a time, while requests for codes keep apart and      *)
(* nothing fails; at most one sign-up is mailing its code.                   *)
LEMMA CodesStep ==
    ASSUME TypeOK, BoundInv, Apart, CodesInv, [Next]_vars
    PROVE  CodesInv'
<1> USE AccountsAssumption
<1> DEFINE OneMail == \A m, n \in mailing' : m = n
           OneLive == \A u, v \in Live(code)' : u = v
           Mailed == \A m \in mailing' : m.at = "newToken" => Live(code)' = {}
           Resent == \A r \in Request : req'[r].op = "Resend" /\ req'[r].at = "newToken"
                                           => Live(code)' = {}
           Calm == faults' = 0 /\ "codes" \notin clash'
           Goal == OneMail /\ (Calm => OneLive /\ Mailed /\ Resent)
<1> SUFFICES Goal
  BY DEF CodesInv, Doing
<1>0. Calm => faults = 0 /\ "codes" \notin clash
  BY NothingFailed, Beginning, GoingOn, ElsewhereKeepsRequests, Steps DEF vars
<1>1. /\ \A m, n \in mailing : m = n
      /\ Calm => /\ \A u, v \in Live(code) : u = v
                 /\ \A m \in mailing : m.at = "newToken" => Live(code) = {}
                 /\ \A r \in Request : req[r].op = "Resend" /\ req[r].at = "newToken"
                                          => Live(code) = {}
  BY <1>0 DEF CodesInv, Doing
<1>2. Calm => \A r \in Request : req[r].op = "Resend" =>
                 /\ mailing = {}
                 /\ \A q \in Request : q # r => req[q].op # "Resend"
  BY <1>0 DEF Apart, Running, Disturb, Clashes
<1>3. /\ code \in [Code -> TokenRow \cup {Null}] /\ DOMAIN code = Code /\ DOMAIN code' = Code
      /\ req \in [Request -> Job]
  BY TypeStep DEF TypeOK
<1>4. ASSUME code' = code \/ \E S : code' = Kill(code, S)
      PROVE  Live(code)' \subseteq Live(code)
  <2>1. CASE code' = code
    BY <2>1 DEF Live
  <2>2. ASSUME NEW S, code' = Kill(code, S) PROVE Live(code)' \subseteq Live(code)
    <3>1. Live(code)' = Live(Kill(code, S))
      BY <2>2 DEF Live
    <3>2. \A v \in Live(Kill(code, S)) : v \in Code
      BY <1>3, <2>2 DEF Live
    <3> QED
      BY <1>3, <3>1, <3>2, KillTokens
  <2> QED
    BY <1>4, <2>1, <2>2
\* All that were valid end.
<1>5. ASSUME code' = Kill(code, Code) PROVE Live(code)' = {}
  <2>1. Live(code)' = Live(Kill(code, Code))
    BY <1>5 DEF Live
  <2>2. \A v \in Live(Kill(code, Code)) : v \in Code
    BY <1>3, <1>5 DEF Live
  <2> QED
    BY <1>3, <2>1, <2>2, KillTokens
\* A new code after all others have ended is the only one.
<1>6. ASSUME NEW id, Inserted(code, id, code'), Live(code) = {} PROVE OneLive
  <2>1. CASE code' = code
    BY <1>6, <2>1 DEF Live
  <2>2. ASSUME NEW x \in Code, \A y \in Code \ {x} : code'[y] = code[y] PROVE OneLive
    <3>1. \A y \in Live(code)' : y = x
      BY <1>3, <1>6, <2>2 DEF Live
    <3> QED
      BY <3>1
  <2> QED
    BY <1>3, <1>6, <2>1, <2>2, InsertToken
\* Codes only end, and nobody comes to insert one.
<1>7. ASSUME Live(code)' \subseteq Live(code),
             \A m \in mailing' : m \in mailing \/ m.at = "invalidate",
             \A r \in Request : req'[r].op = "Resend" /\ req'[r].at = "newToken"
                                   => req[r].op = "Resend" /\ req[r].at = "newToken"
      PROVE  Calm => OneLive /\ Mailed /\ Resent
  BY <1>1, <1>7
<1>8. ASSUME NEW r \in Request, Begins(r) PROVE Goal
  <2>1. /\ \A q \in Request : q # r => req'[q] = req[q]
        /\ mailing' = mailing /\ code' = code /\ req'[r].at # "newToken"
    BY <1>8, Beginning
  <2> QED
    BY <1>1, <1>4, <1>7, <2>1
<1>9. ASSUME NEW r \in Request, OnRows(r) \/ OnTokens(r) PROVE Goal
  <2>0. /\ \A q \in Request : q # r => req'[q] = req[q]
        /\ req'[r].op = req[r].op \/ req'[r] = Idle
    BY <1>9, GoingOn
  <2>1. OneMail /\ \A m \in mailing' : m \in mailing \/ m.at = "invalidate"
    <3>1. CASE mailing' = mailing
      BY <1>1, <3>1
    <3>2. ASSUME row = Null, NEW id,
                 mailing' = mailing \cup {[id |-> id, at |-> "invalidate"]}
          PROVE  OneMail /\ \A m \in mailing' : m \in mailing \/ m.at = "invalidate"
      <4>1. mailing = {}
        BY <3>2 DEF BoundInv, Kept, Exists
      <4>2. \A m \in mailing' : m = [id |-> id, at |-> "invalidate"]
        BY <3>2, <4>1
      <4> QED
        BY <4>2
    <3> QED
      BY <1>9, <3>1, <3>2, Mailings
  <2>2. ASSUME Calm PROVE ~Fail(r) /\ ~FailSoftly(r)
    BY <2>2, NothingFailed
  <2>3. ASSUME Calm, InvalidatePrevious(r), req[r].op = "Resend"
        PROVE  OneLive /\ Mailed /\ Resent
    <3>1. Exists(req[r].id)
      BY <2>3 DEF InvalidatePrevious, BoundInv, Bound, Kept
    <3>2. Live(code)' = {}
      BY <1>3, <1>5, <2>3, <3>1 DEF InvalidatePrevious, Invalidated
    <3> QED
      BY <3>2
  <2>4. ASSUME Calm, NewToken(r), req[r].op = "Resend"
        PROVE  OneLive /\ Mailed /\ Resent
    <3>1. Inserted(code, req[r].id, code') /\ Live(code) = {} /\ req'[r] = Idle
      BY <1>1, <1>3, <2>4 DEF NewToken, Finish
    <3>2. mailing' = {} /\ \A q \in Request : req'[q].op # "Resend"
      BY <1>2, <2>0, <2>4, <3>1 DEF NewToken, Idle
    <3> QED
      BY <1>6, <3>1, <3>2
  <2>5. ASSUME Calm, req[r].op # "Resend",
               code' = code \/ (MarkUsed(r) /\ code' = Kill(code, {req[r].tok}))
        PROVE  OneLive /\ Mailed /\ Resent
    BY <1>4, <1>7, <2>0, <2>1, <2>5 DEF Idle
  <2> QED
    BY <1>9, <2>1, <2>2, <2>3, <2>4, <2>5, CodeStatements
<1>10. ASSUME NEW m \in mailing, MailCode(m) PROVE Goal
  <2>0. Exists(m.id) /\ req' = req /\ m \in Mail /\ \A n \in mailing : n = m
    BY <1>1, <1>10 DEF BoundInv, Kept, MailCode, TypeOK
  <2>1. Calm => \A r \in Request : req[r].op # "Resend"
    BY <1>2
  <2>2. CASE m.at = "invalidate"
    <3>1. code' = Kill(code, Code) /\ mailing' = {[m EXCEPT !.at = "newToken"]}
      BY <1>3, <1>10, <2>0, <2>2 DEF MailCode, Invalidated
    <3> QED
      BY <1>5, <3>1
  <2>3. CASE m.at = "newToken"
    <3>1. Inserted(code, m.id, code') /\ mailing' = {}
      BY <1>10, <2>0, <2>3 DEF MailCode
    <3> QED
      BY <1>1, <1>6, <2>0, <2>1, <2>3, <3>1
  <2> QED
    BY <1>10, <2>2, <2>3 DEF MailCode
<1>11. ASSUME mailing' \subseteq mailing, req' = req,
              code' = code \/ \E S : code' = Kill(code, S)
       PROVE  Goal
  BY <1>1, <1>4, <1>7, <1>11
<1>12. CASE Elsewhere
  <2>1. \/ \E m \in mailing : MailCode(m)
        \/ mailing' \subseteq mailing
    BY <1>12, Mailings DEF MailLost
  <2>2. \/ \E m \in mailing : MailCode(m)
        \/ code' = code
        \/ \E S : code' = Kill(code, S)
    BY <1>12 DEF Elsewhere, Logout, MailLost, GraceEnds, Purge, Expire, tokens
  <2> QED
    BY <1>10, <1>11, <1>12, <2>1, <2>2, ElsewhereKeepsRequests
<1>13. CASE UNCHANGED vars
  BY <1>11, <1>13 DEF vars, tokens
<1> QED
  BY <1>8, <1>9, <1>12, <1>13, Steps
-----------------------------------------------------------------------------
(* Signing in *)

(* The statement that takes a sign-in to the point of issuing a session has   *)
(* made or found the account active, or restored it.                         *)
LEMMA SignIns ==
    ASSUME TypeOK, NEW r \in Request, OnRows(r) \/ OnTokens(r)
    PROVE  /\ req'[r].at # "restore"
           /\ req'[r].op \in Issuers \ {"Refresh"} /\ req'[r].at \in {"link", "save", "issue"} =>
                 \/ req[r].op \in Issuers \ {"Refresh"} /\ req[r].at \in {"link", "save"}
                 \/ row' # Null /\ row'.deleted = "no"
                 \/ LoginRestore(r)
<1> USE AccountsAssumption
<1>0. /\ req \in [Request -> Job] /\ req[r] \in Job /\ Placed(req[r], session, link)
      /\ req'[r].op = req[r].op \/ req'[r] = Idle
  BY GoingOn DEF TypeOK
<1>1. ASSUME Finish(r) PROVE req'[r].at = "done"
  BY <1>0, <1>1 DEF Finish, Idle
<1>2. ASSUME NEW at, Goto(r, at) PROVE req'[r].at = at
  BY <1>0, <1>2 DEF Goto, Job
<1>3. ASSUME NEW at, NEW id, NEW copy,
             \/ req' = [req EXCEPT ![r].copy = copy, ![r].id = id, ![r].at = at]
             \/ req' = [req EXCEPT ![r].copy = copy, ![r].at = at]
             \/ req' = [req EXCEPT ![r].at = at, ![r].id = id]
      PROVE  req'[r].at = at
  BY <1>0, <1>3 DEF Job
<1>4. CASE RegisterCreate(r) \/ GoogleCreate(r)
  <2>1. ASSUME NEW id \in Account, NEW pw \in Password \cup {Null}, InsertUser(id, pw)
        PROVE  row' \in Row /\ row'.deleted = "no"
    BY <2>1 DEF InsertUser, Row
  <2>2. Finish(r) \/ \E id \in Account, pw \in Password \cup {Null} : InsertUser(id, pw)
    BY <1>4 DEF RegisterCreate, GoogleCreate
  <2>3. req'[r].at \in {"issue", "link", "done"}
    BY <1>1, <1>3, <1>4 DEF RegisterCreate, GoogleCreate
  <2> QED
    BY <1>1, <2>1, <2>2, <2>3
<1>5. CASE LoginRestore(r)
  BY <1>2, <1>5 DEF LoginRestore
<1>6. CASE GoogleFind(r) \/ GoogleFindEmail(r) \/ TokenFind(r)
  <2>1. req'[r].at \in {"done", "create", "markUsed"} \/ (Active /\ req'[r].at \in {"save", "link"})
    BY <1>1, <1>2, <1>3, <1>6 DEF GoogleFind, GoogleFindEmail, TokenFind, Goto
  <2>2. row' = row
    BY <1>6 DEF GoogleFind, GoogleFindEmail, TokenFind
  <2> QED
    BY <2>1, <2>2 DEF Active
<1>7. CASE GoogleLink(r) \/ GoogleSave(r)
  <2>1. req[r].op = "Google" /\ req[r].at \in {"link", "save"}
    BY <1>7 DEF GoogleLink, GoogleSave, Doing
  <2>2. req'[r].at \in {"done", "save", "issue"}
    BY <1>1, <1>2, <1>7 DEF GoogleLink, GoogleSave
  <2> QED
    BY <2>1, <2>2 DEF Issuers
<1>8. CASE ProfileSave(r) \/ SoftDelete(r) \/ VerifySave(r) \/ RevokeAll(r) \/ NewToken(r)
           \/ InvalidatePrevious(r) \/ ResetSave(r) \/ MarkUsed(r) \/ Fail(r) \/ Issue(r)
  BY <1>1, <1>2, <1>8 DEF ProfileSave, SoftDelete, VerifySave, RevokeAll, NewToken,
       InvalidatePrevious, ResetSave, MarkUsed, Fail, Issue
<1>9. CASE RefreshRevoke(r)
  <2>1. req[r].op = "Refresh" /\ req'[r].at = "issue"
    BY <1>2, <1>9 DEF RefreshRevoke, Doing
  <2> QED
    BY <1>0, <2>1 DEF Idle, Issuers
<1>10. CASE FailSoftly(r)
  <2>1. \/ req'[r].at = "newToken"
        \/ req'[r].at = "issue" /\ req[r].op = "Google" /\ req[r].at = "save"
    BY <1>2, <1>10 DEF FailSoftly, Doing
  <2> QED
    BY <2>1 DEF Issuers
<1> QED
  BY <1>4, <1>5, <1>6, <1>7, <1>8, <1>9, <1>10 DEF OnRows, OnTokens

(* A row that has been deleted by a step is that of a deletion which no      *)
(* sign-in overlaps, or of a grace period that ends while none is going on.  *)
LEMMA DeletedRows ==
    ASSUME TypeOK, Apart, "sessions" \notin clash', [Next]_vars,
           row' # Null, row'.deleted # "no", row' # row
    PROVE  /\ row # Null /\ row'.id = row.id
           /\ \/ /\ \E r \in Request : SoftDelete(r) /\ Exists(req[r].id)
                 /\ \A q \in Request : req'[q].op \notin Issuers
              \/ /\ GraceEnds /\ row.deleted = "grace"
                 /\ \A q \in Request : req'[q] = Idle \/ Doing(q, "Login", "restore")
<1> USE AccountsAssumption
<1>1. ASSUME NEW r \in Request, SoftDelete(r), Exists(req[r].id), row' = SoftDeleted(row)
      PROVE  /\ row # Null /\ row'.id = row.id
             /\ \A q \in Request : req'[q].op \notin Issuers
  <2>1. row \in Row /\ row'.id = row.id
    BY <1>1, ChangedRows DEF Exists, TypeOK
  <2>2. /\ \A q \in Request : q # r => req'[q] = req[q]
        /\ req'[r].op = req[r].op \/ req'[r] = Idle
        /\ clash' = clash /\ req[r].op = "Delete"
    BY <1>1, GoingOn DEF OnRows, SoftDelete, Doing
  <2>3. \A q \in Request : q # r => req[q].op \notin Issuers
    BY <2>2 DEF Apart, Disturb, Clashes
  <2> QED
    BY <2>1, <2>2, <2>3 DEF Idle, Issuers
<1>2. ASSUME GraceEnds, row' = [row EXCEPT !.deleted = "expired"]
      PROVE  /\ row # Null /\ row'.id = row.id /\ row.deleted = "grace"
             /\ \A q \in Request : req'[q] = Idle \/ Doing(q, "Login", "restore")
  <2>1. row \in Row
    BY <1>2 DEF GraceEnds, TypeOK
  <2>2. row'.id = row.id
    BY <1>2, <2>1 DEF Row
  <2> QED
    BY <1>2, <2>2 DEF GraceEnds
<1>3. ~Purge
  BY DEF Purge
<1> QED
  BY <1>1, <1>2, <1>3, RowSteps

(* Whoever is about to be signed in has an active account, unless a deletion *)
(* or a reset overlaps a sign-in.                                            *)
LEMMA SignedInStep ==
    ASSUME TypeOK, Apart, SignedInInv, RestoreInv, [Next]_vars
    PROVE  SignedInInv' /\ RestoreInv'
<1> USE AccountsAssumption
<1> DEFINE StaysActive == row' = Null \/ row'.deleted = "no"
           In(q) == req'[q].op \in Issuers \ {"Refresh"} /\ req'[q].at \in {"link", "save", "issue"}
           Back(q) == req'[q].op = "Login" /\ req'[q].at = "restore"
           Goal == \A q \in Request : /\ In(q) => StaysActive
                                      /\ Back(q) => StaysActive \/ row'.id = req'[q].id
<1> SUFFICES ASSUME "sessions" \notin clash' PROVE Goal
  BY DEF SignedInInv, RestoreInv, Doing
<1>0. "sessions" \notin clash
  BY Beginning, GoingOn, ElsewhereKeepsRequests, Steps DEF vars
<1> SUFFICES ASSUME row' # Null, row'.deleted # "no"
             PROVE  \A q \in Request : ~In(q) /\ (Back(q) => row'.id = req'[q].id)
  OBVIOUS
<1>1. ASSUME NEW q \in Request, req[q].op \in Issuers \ {"Refresh"},
             req[q].at \in {"link", "save", "issue"}
      PROVE  row = Null \/ row.deleted = "no"
  BY <1>0, <1>1 DEF SignedInInv
<1>2. ASSUME NEW q \in Request, Doing(q, "Login", "restore")
      PROVE  row = Null \/ row.deleted = "no" \/ row.id = req[q].id
  BY <1>0, <1>2 DEF RestoreInv
<1>3. CASE row' # row
  <2>1. CASE \A q \in Request : req'[q].op \notin Issuers
    BY <2>1 DEF Issuers
  <2>2. CASE GraceEnds /\ row.deleted = "grace" /\ row # Null /\ row'.id = row.id
             /\ \A q \in Request : req'[q] = Idle \/ Doing(q, "Login", "restore")
    <3>1. req' = req
      BY <2>2 DEF GraceEnds
    <3> QED
      BY <1>2, <2>2, <3>1 DEF Doing, Idle
  <2> QED
    BY <1>3, <2>1, <2>2, DeletedRows
<1>4. CASE row' = row
  <2>1. ASSUME NEW q \in Request, req'[q] = req[q]
        PROVE  ~In(q) /\ (Back(q) => row'.id = req'[q].id)
    BY <1>1, <1>2, <1>4, <2>1 DEF Doing
  <2>2. ASSUME NEW r \in Request, Begins(r)
        PROVE  ~In(r) /\ (Back(r) => row'.id = req'[r].id)
    BY <1>4, <2>2, Beginning DEF Bound, Active
  <2>3. ASSUME NEW r \in Request, OnRows(r) \/ OnTokens(r)
        PROVE  ~In(r) /\ ~Back(r)
    <3>1. ~LoginRestore(r) \/ ~In(r)
      <4>1. ASSUME LoginRestore(r) PROVE FALSE
        <5>1. row # Null /\ row' = row /\ Doing(r, "Login", "restore")
              /\ row' = IF Exists(req[r].id) THEN Restored(row) ELSE row
          BY <1>4, <4>1 DEF LoginRestore, Write
        <5>2. row \in Row /\ Restored(row).deleted = "no"
          BY <5>1, ChangedRows DEF TypeOK
        <5> QED
          BY <1>2, <5>1, <5>2 DEF Exists
      <4> QED
        BY <4>1
    <3> QED
      BY <1>1, <1>4, <2>3, <3>1, SignIns
  <2> QED
    BY <2>1, <2>2, <2>3, Beginning, GoingOn, ElsewhereKeepsRequests, Steps DEF vars
<1> QED
  BY <1>3, <1>4
-----------------------------------------------------------------------------
(* Revoked sessions *)

(* Whoever is about to revoke all sessions goes on until it has. *)
LEMMA RevokersGoOn ==
    ASSUME TypeOK, [Next]_vars, faults' = 0, NEW w \in Request,
           req[w].op \in {"Delete", "Reset"}, req[w].at \in {"markUsed", "revokeAll"}
    PROVE  \/ RevokeAll(w)
           \/ req'[w].op = req[w].op /\ req'[w].at \in {req[w].at, "revokeAll"}
<1> USE AccountsAssumption
<1>0. req \in [Request -> Job] /\ req[w] \in Job
  BY DEF TypeOK
<1>1. ASSUME OnRows(w) PROVE FALSE
  BY <1>1 DEF OnRows, RegisterCreate, LoginRestore, GoogleFind, GoogleFindEmail, GoogleCreate,
       GoogleLink, GoogleSave, ProfileSave, SoftDelete, TokenFind, VerifySave, Doing
<1>2. ASSUME Begins(w) PROVE FALSE
  BY <1>2, Beginning DEF Idle
<1>3. ASSUME OnTokens(w) PROVE RevokeAll(w) \/ MarkUsed(w)
  <2>1. ~Fail(w) /\ ~FailSoftly(w)
    BY NothingFailed
  <2> QED
    BY <1>3, <2>1 DEF OnTokens, Issue, RefreshRevoke, InvalidatePrevious, NewToken, ResetSave, Doing
<1>4. ASSUME MarkUsed(w) PROVE req'[w].op = req[w].op /\ req'[w].at = "revokeAll"
  <2>1. Goto(w, "revokeAll")
    BY <1>4 DEF MarkUsed
  <2> QED
    BY <1>0, <2>1 DEF Goto, Job
<1> QED
  BY <1>1, <1>2, <1>3, <1>4, Beginning, GoingOn, ElsewhereKeepsRequests, Steps DEF vars

(* Revoking all sessions leaves none to renew. *)
LEMMA AllRevoked ==
    ASSUME TypeOK, BoundInv, NEW r \in Request, RevokeAll(r)
    PROVE  Live(session)' = {}
<1>1. Exists(req[r].id)
  BY DEF RevokeAll, BoundInv, Bound, Kept
<1>2. session' = Kill(session, Session)
  BY <1>1 DEF RevokeAll
<1>3. Live(session)' = Live(Kill(session, Session))
  BY <1>2 DEF Live
<1>4. \A s \in Live(Kill(session, Session)) : s \in Session
  BY DEF Live, Kill, TypeOK
<1> QED
  BY <1>3, <1>4, KillSessions DEF TypeOK

(* What a renewal or a sign-in issues while deletions and resets keep apart:  *)
(* a session of an active account, not one from before a reset.              *)
LEMMA FreshSessions ==
    ASSUME TypeOK, SignedInInv, SessionsInv, "sessions" \notin clash, faults = 0,
           NEW r \in Request, Issue(r), session' # session
    PROVE  /\ row # Null /\ row.deleted = "no"
           /\ \A s \in Session : session'[s] # Null /\ session'[s].stale =>
                 session[s] # Null /\ session[s].stale /\ session'[s].live = session[s].live
<1> USE AccountsAssumption
<1>1. Exists(req[r].id)
  BY Issues
<1>2. CASE req[r].op # "Refresh"
  <2>1. req[r].op \in Issuers \ {"Refresh"} /\ req[r].at = "issue"
    BY <1>2 DEF Issue, TypeOK, Placed
  <2>2. row # Null /\ row.deleted = "no"
    BY <1>1, <2>1 DEF SignedInInv, Exists
  <2>3. PICK s \in Session : Issued(s)
    BY <1>2, Issues
  <2> QED
    BY <2>2, <2>3 DEF Issued
<1>3. CASE req[r].op = "Refresh"
  <2> DEFINE t == req[r].tok
  <2>1. /\ ~session[t].stale /\ row # Null /\ row.deleted = "no"
        /\ t \in Session /\ session[t] \in SessionRow
    BY <1>1, <1>3 DEF SessionsInv, Exists, TypeOK, Placed
  <2>2. PICK s \in Session : Renewed(t, s)
    BY <1>3, Issues
  <2>3. session'[t].stale = session[t].stale
    <3>1. [session[t] EXCEPT !.next = IF @ = 0 THEN 1 ELSE 2].stale = session[t].stale
      BY <2>1 DEF SessionRow
    <3> QED
      BY <2>2, <3>1 DEF Renewed
  <2>4. ~session'[s].stale
    BY <2>1, <2>2 DEF Renewed
  <2>5. \A u \in Session \ {s, t} : session'[u] = session[u]
    BY <2>2 DEF Renewed
  <2>6. ASSUME NEW u \in Session, session'[u] # Null, session'[u].stale
        PROVE  session[u] # Null /\ session[u].stale /\ session'[u].live = session[u].live
    <3>1. u # s /\ u # t
      BY <2>1, <2>3, <2>4, <2>6
    <3> QED
      BY <2>5, <2>6, <3>1
  <2> QED
    BY <2>1, <2>6
<1> QED
  BY <1>2, <1>3

(* Deletions and resets log out, while sign-ins and renewals keep apart from *)
(* them and nothing fails.                                                   *)
LEMMA SessionsStep ==
    ASSUME TypeOK, BoundInv, Apart, SignedInInv, SessionsInv, [Next]_vars
    PROVE  SessionsInv'
<1> USE AccountsAssumption
<1> DEFINE Deleted == row' # Null /\ row'.deleted # "no" =>
                         \/ Live(session)' = {}
                         \/ \E r \in Request : req'[r].op = "Delete" /\ req'[r].at = "revokeAll"
           Stale == (\E s \in Live(session)' : session'[s].stale) =>
                       \E r \in Request : /\ req'[r].op = "Reset"
                                          /\ req'[r].at \in {"markUsed", "revokeAll"}
           Renewing == \A r \in Request : req'[r].op = "Refresh" =>
                          /\ ~session'[req'[r].tok].stale
                          /\ row' = Null \/ row'.deleted = "no"
           Goal == Deleted /\ Stale /\ Renewing
<1> SUFFICES ASSUME "sessions" \notin clash', faults' = 0 PROVE Goal
  BY DEF SessionsInv, Doing
<1>0. "sessions" \notin clash /\ faults = 0
  BY NothingFailed, Beginning, GoingOn, ElsewhereKeepsRequests, Steps DEF vars
<1>1. /\ row # Null /\ row.deleted # "no"
            => Live(session) = {} \/ \E r \in Request : Doing(r, "Delete", "revokeAll")
      /\ (\E s \in Live(session) : session[s].stale)
            => \E r \in Request : Doing(r, "Reset", "markUsed") \/ Doing(r, "Reset", "revokeAll")
      /\ \A r \in Request : req[r].op = "Refresh" => /\ ~session[req[r].tok].stale
                                                     /\ row = Null \/ row.deleted = "no"
  BY <1>0 DEF SessionsInv
<1>2. ASSUME NEW w \in Request, Doing(w, "Delete", "revokeAll")
      PROVE  Live(session)' = {} \/ (req'[w].op = "Delete" /\ req'[w].at = "revokeAll")
  BY <1>2, RevokersGoOn, AllRevoked DEF Doing
<1>3. ASSUME NEW w \in Request, Doing(w, "Reset", "markUsed") \/ Doing(w, "Reset", "revokeAll")
      PROVE  \/ Live(session)' = {}
             \/ req'[w].op = "Reset" /\ req'[w].at \in {"markUsed", "revokeAll"}
  BY <1>3, RevokersGoOn, AllRevoked DEF Doing
<1>4. DOMAIN session = Session /\ DOMAIN session' = Session
  BY TypeStep DEF TypeOK
\* Sessions of a deleted account.
<1>5. Deleted
  <2>1. CASE row' = row
    <3>1. ASSUME row # Null, row.deleted # "no", Live(session) = {} PROVE Live(session)' = {}
      <4>1. CASE session' = session
        BY <3>1, <4>1 DEF Live
      <4>2. CASE \A r \in Request : ~Issue(r)
        BY <1>4, <3>1, <4>2, SessionSteps DEF SessionsEnd, Live
      <4> QED
        BY <1>0, <3>1, <4>1, <4>2, FreshSessions
    <3> QED
      BY <1>1, <1>2, <2>1, <3>1
  <2>2. ASSUME row' # row, row' # Null, row'.deleted # "no",
               NEW r \in Request, SoftDelete(r)
        PROVE  req'[r].op = "Delete" /\ req'[r].at = "revokeAll"
    BY <2>2 DEF SoftDelete, Doing, Goto, TypeOK, Job
  <2>3. ASSUME GraceEnds, row.deleted = "grace" PROVE Live(session)' = {}
    <3>1. ~\E r \in Request : Doing(r, "Delete", "revokeAll")
      BY <2>3 DEF GraceEnds, Doing, Idle
    <3>2. Live(session) = {} /\ session' = session
      BY <1>1, <2>3, <3>1 DEF GraceEnds, tokens
    <3> QED
      BY <3>2 DEF Live
  <2> QED
    BY <2>1, <2>2, <2>3, DeletedRows
\* Sessions from before a reset.
<1>6. Stale
  <2>1. ASSUME \A s \in Live(session)' : session'[s].stale
                  => s \in Live(session) /\ session[s].stale
        PROVE  Stale
    BY <1>1, <1>3, <2>1
  <2>2. ASSUME NEW r \in Request, Issue(r) PROVE Stale
    <3>1. CASE session' = session
      BY <2>1, <3>1 DEF Live
    <3>2. CASE session' # session
      <4>1. \A s \in Session : session'[s] # Null /\ session'[s].stale =>
               session[s] # Null /\ session[s].stale /\ session'[s].live = session[s].live
        BY <1>0, <2>2, <3>2, FreshSessions
      <4> QED
        BY <1>4, <2>1, <4>1 DEF Live
    <3> QED
      BY <3>1, <3>2
  <2>3. ASSUME \A r \in Request : ~Issue(r),
               \A s \in Session : session[s] # Null => session'[s].stale = session[s].stale
        PROVE  Stale
    <3>1. SessionsEnd
      BY <2>3, SessionSteps
    <3> QED
      BY <1>4, <2>1, <2>3, <3>1 DEF SessionsEnd, Live
  <2>4. ASSUME NEW r \in Request, ResetSave(r) PROVE Stale
    <3>1. CASE Finish(r) /\ UNCHANGED <<link, session>>
      BY <2>1, <3>1 DEF Live
    <3>2. CASE Goto(r, "markUsed")
      <4>1. req'[r].op = "Reset" /\ req'[r].at = "markUsed"
        BY <2>4, <3>2 DEF ResetSave, Doing, Goto, TypeOK, Job
      <4> QED
        BY <4>1
    <3> QED
      BY <2>4, <3>1, <3>2 DEF ResetSave
  <2> QED
    BY <2>2, <2>3, <2>4, SessionSteps
\* What is being renewed.
<1>7. Renewing
  <2>1. ASSUME NEW q \in Request, req'[q].op = "Refresh"
        PROVE  row' = Null \/ row'.deleted = "no"
    <3>1. CASE row' # row
      BY <2>1, <3>1, DeletedRows DEF GraceEnds, Doing, Idle, Issuers
    <3>2. CASE row' = row
      <4>1. CASE req[q].op = "Refresh"
        BY <1>1, <3>2, <4>1
      <4>2. ASSUME NEW r \in Request, Begins(r), q = r, row # Null, row.deleted # "no"
            PROVE  FALSE
        <5>1. \A w \in Request \ {q} : ~Disturb("sessions", "Refresh", req[w].op)
          BY <2>1, <4>2, Beginning DEF Clashes
        <5>2. Live(session) # {} /\ req[q] = Idle
          BY <2>1, <4>2, Beginning
        <5> QED
          BY <1>1, <4>2, <5>1, <5>2 DEF Doing, Disturb, Issuers, Idle
      <4> QED
        BY <2>1, <3>2, <4>1, <4>2, Beginning, GoingOn, ElsewhereKeepsRequests, Steps DEF vars, Idle
    <3> QED
      BY <3>1, <3>2
  <2>2. ASSUME NEW q \in Request, req'[q].op = "Refresh"
        PROVE  ~session'[req'[q].tok].stale
    <3>1. ASSUME req[q].op = "Refresh", req'[q].tok = req[q].tok
          PROVE  ~session'[req'[q].tok].stale
      <4>1. /\ req[q].tok \in Session /\ session[req[q].tok] # Null
            /\ ~session[req[q].tok].stale
        BY <1>1, <3>1 DEF TypeOK, Placed
      <4>2. ASSUME NEW r \in Request, ResetSave(r) PROVE FALSE
        BY <1>0, <3>1, <4>2 DEF ResetSave, Doing, Apart, Disturb, Issuers, Clashes
      <4>3. ASSUME NEW r \in Request, Issue(r), session' # session
            PROVE  ~session'[req[q].tok].stale
        <5>1. session'[req[q].tok] # Null
          BY <4>1, <4>3, SessionsStay
        <5> QED
          BY <1>0, <4>1, <4>3, <5>1, FreshSessions
      <4> QED
        BY <3>1, <4>1, <4>2, <4>3, SessionSteps
    <3>2. ASSUME NEW r \in Request, Begins(r), q = r PROVE ~session'[req'[q].tok].stale
      <4>1. /\ req'[q].tok \in Live(session) /\ session' = session /\ req[q] = Idle
            /\ \A w \in Request \ {q} : ~Disturb("sessions", "Refresh", req[w].op)
        BY <2>2, <3>2, Beginning DEF Clashes
      <4> QED
        BY <1>1, <4>1 DEF Doing, Disturb, Issuers, Idle
    <3> QED
      BY <2>2, <3>1, <3>2, Beginning, GoingOn, ElsewhereKeepsRequests, Steps DEF vars, Idle
  <2> QED
    BY <2>1, <2>2
<1> QED
  BY <1>5, <1>6, <1>7
-----------------------------------------------------------------------------
(* The theorems *)

IInv ==
    /\ TypeOK /\ BoundInv /\ Apart
    /\ SignedInInv /\ RestoreInv /\ SessionsInv /\ RefreshInv
    /\ SavesInv /\ LinksInv /\ CodesInv

(* The inductive invariant holds: initially there is neither a row nor a     *)
(* request, and every step preserves each part given those before it.        *)
THEOREM AccountsInvariant == Spec => []IInv
<1>1. ASSUME Init PROVE IInv
  <2>1. TypeOK
    BY <1>1, AccountsAssumption DEF Init, TypeOK, Idle, Job, Op, Statement, Token, Placed
  <2>2. \A r \in Request : req[r].op = "idle" /\ req[r].at = "done"
    BY <1>1 DEF Init, Idle
  <2>3. Live(session) = {} /\ Live(link) = {} /\ Live(code) = {}
    BY <1>1 DEF Init, Live
  <2>4. BoundInv /\ Apart
    BY <1>1, <2>2 DEF Init, BoundInv, Bound, Apart, Disturb, Issuers, Savers
  <2>5. SignedInInv /\ RestoreInv /\ SavesInv
    BY <1>1, <2>2 DEF Init, SignedInInv, Issuers, RestoreInv, Doing, SavesInv
  <2>6. SessionsInv /\ RefreshInv
    BY <1>1, <2>2, <2>3 DEF Init, SessionsInv, RefreshInv
  <2>7. LinksInv /\ CodesInv
    BY <1>1, <2>2, <2>3 DEF Init, LinksInv, CodesInv, Doing
  <2> QED
    BY <2>1, <2>4, <2>5, <2>6, <2>7 DEF IInv
<1>2. IInv /\ [Next]_vars => IInv'
  BY TypeStep, BoundStep, ApartStep, SignedInStep, SessionsStep, RefreshStep, SavesStep,
     LinksStep, CodesStep DEF IInv
<1> QED
  BY <1>1, <1>2, PTL DEF Spec

(* A refresh token has at most one successor unless two renewals overlapped. *)
THEOREM TokensAreRenewedOnce == Spec => []RefreshOnce
<1>1. IInv => RefreshOnce
  BY DEF IInv, RefreshInv, RefreshOnce
<1> QED
  BY <1>1, AccountsInvariant, PTL

(* No whole-row save takes back what another request wrote, whatever fails,  *)
(* unless another write of the row came between its read and its save.       *)
THEOREM NoSaveReverts == Spec => []SavesKeepTheAccount
<1>1. IInv => SavesKeepTheAccount
  BY DEF IInv, SavesInv, SavesKeepTheAccount
<1> QED
  BY <1>1, AccountsInvariant, PTL

(* A set whose elements are equal has at most one. *)
LEMMA AtMostOne ==
    ASSUME NEW S, \A x, y \in S : x = y
    PROVE  Cardinality(S) <= 1
<1>1. CASE S = {}
  BY <1>1, FS_EmptySet
<1>2. ASSUME NEW x \in S PROVE Cardinality(S) <= 1
  <2>1. S = {x}
    BY <1>2
  <2> QED
    BY <2>1, FS_Singleton
<1> QED
  BY <1>1, <1>2

(* One reset link and one code are valid at a time, and a link changes the   *)
(* password once, unless requests about them overlapped or a statement       *)
(* failed.                                                                   *)
THEOREM MailedTokensWorkOnce == Spec => []LinksWorkOnce
<1>1. ASSUME IInv, faults = 0, "links" \notin clash
      PROVE  /\ Cardinality(Live(link)) <= 1
             /\ \A k \in Link : link[k] # Null => link[k].uses < 2
  <2>1. \A k, l \in Live(link) : k = l
    BY <1>1 DEF IInv, LinksInv
  <2>2. Cardinality(Live(link)) <= 1
    BY <2>1, AtMostOne
  <2> QED
    BY <1>1, <2>2 DEF IInv, LinksInv
<1>2. ASSUME IInv, faults = 0, "codes" \notin clash
      PROVE  Cardinality(Live(code)) <= 1
  <2>1. \A u, v \in Live(code) : u = v
    BY <1>2 DEF IInv, CodesInv
  <2> QED
    BY <2>1, AtMostOne
<1>3. IInv => LinksWorkOnce
  BY <1>1, <1>2 DEF LinksWorkOnce
<1> QED
  BY <1>3, AccountsInvariant, PTL

(* Deleting an account or resetting its password ends every session from     *)
(* before, unless a request that issues sessions overlapped or a statement   *)
(* failed.                                                                   *)
THEOREM DeletionsLogOut == Spec => []RevokedMeansLoggedOut
<1>1. IInv => RevokedMeansLoggedOut
  BY DEF IInv, SessionsInv, RevokedMeansLoggedOut, Running, Doing
<1> QED
  BY <1>1, AccountsInvariant, PTL

(* A login that restores an account issues its session to an active account. *)
THEOREM RestoredBeforeSignedIn == Spec => LoginRestores
<1>1. ASSUME IInv, [Next]_vars, NEW r \in Request,
             Doing(r, "Login", "issue"), session' # session, req'[r] = Idle,
             "sessions" \notin clash
      PROVE  row' # Null /\ row'.deleted = "no"
  <2>1. TypeOK /\ req[r].op = "Login" /\ req[r].at = "issue"
    BY <1>1 DEF IInv, Doing
  <2>2. OnRows(r) \/ OnTokens(r)
    BY <1>1, <2>1, Beginning, GoingOn, ElsewhereKeepsRequests, Steps DEF vars, Idle
  <2>3. Issue(r) \/ Fail(r)
    BY <2>1, <2>2 DEF OnRows, RegisterCreate, LoginRestore, GoogleFind, GoogleFindEmail,
         GoogleCreate, GoogleLink, GoogleSave, ProfileSave, SoftDelete, TokenFind, VerifySave,
         OnTokens, RefreshRevoke, RevokeAll, InvalidatePrevious, NewToken, ResetSave, MarkUsed,
         FailSoftly, Doing
  <2>4. Issue(r) /\ row' = row
    BY <1>1, <2>3 DEF Fail, Issue, tokens
  <2>5. row # Null
    BY <1>1, <2>1, <2>4, Issues DEF Exists
  <2>6. row = Null \/ row.deleted = "no"
    BY <1>1, <2>1 DEF IInv, SignedInInv, Issuers
  <2> QED
    BY <2>4, <2>5, <2>6
<1>2. IInv /\ [Next]_vars =>
        [\A r \in Request :
            (/\ Doing(r, "Login", "issue") /\ session' # session /\ req'[r] = Idle
             /\ "sessions" \notin clash)
                => row' # Null /\ row'.deleted = "no"]_vars
  BY <1>1
<1> QED
  BY <1>2, AccountsInvariant, PTL DEF Spec, LoginRestores
=============================================================================
