------------------------------ MODULE Accounts ------------------------------
(***************************************************************************)
(* Accounts, sessions and e-mailed links: internal/auth/service,           *)
(* internal/identity/service and their repositories.  Every request is a   *)
(* sequence of single SQL statements without a transaction around them, so *)
(* the statements of two requests interleave.  `at' names the statement a  *)
(* request executes next; what it has read by then it keeps in `copy'.     *)
(*                                                                         *)
(* The model follows one e-mail address.  users.email is unique over       *)
(* deleted rows too (migration 001), so at most one row of the address     *)
(* exists, and every session, link and code belongs to it: their foreign   *)
(* keys cascade (migrations 004, 014, 015) when the row is purged.         *)
(*                                                                         *)
(* gorm's Save writes every column of the struct it is given, and inserts  *)
(* the row again if there is none with its id.                             *)
(***************************************************************************)
EXTENDS Naturals, FiniteSets

CONSTANTS
    Account,        \* ids for the accounts made for the address
    Session,        \* ids for the rows of refresh_tokens
    Link,           \* ids for the rows of password_reset_tokens
    Code,           \* ids for the rows of email_verification_tokens
    Password,
    Request,        \* requests that may be in progress at one time
    MaxRequests,    \* bound on the requests started
    MaxFaults,      \* bound on the statements that fail
    Null

\* Rows of users, of refresh_tokens, and of the two tables of mailed tokens.
Row == [id : Account, pw : Password \cup {Null},
        deleted : {"no", "grace", "expired"}, verified : BOOLEAN]
SessionRow == [live : BOOLEAN, stale : BOOLEAN, next : 0..2]
TokenRow == [live : BOOLEAN, uses : 0..2]

ASSUME AccountsAssumption ==
    /\ MaxRequests \in Nat /\ MaxFaults \in Nat
    /\ Null \notin Account \cup Password \cup Session \cup Link \cup Code
    /\ Null \notin Row \cup SessionRow \cup TokenRow

VARIABLES
    row,        \* the row of users with the address, Null if there is none
    born,       \* ids of accounts that have been inserted
    google,     \* the account the Google identity is linked to, or Null
    session,    \* refresh_tokens by id, Null before the insert
    link,       \* password_reset_tokens by id
    code,       \* email_verification_tokens by id
    mailing,    \* goroutines of Register that send the verification code
    req,        \* the requests in progress
    started,    \* requests started so far
    faults,     \* statements that failed so far
    clash,      \* history: the kinds of requests that have overlapped
    asked       \* history: the row as each write meant to change it

tokens == <<session, link, code>>
vars == <<row, born, google, session, link, code, mailing, req, started,
          faults, clash, asked>>

Clashes == {"sessions", "refresh", "row", "links", "codes"}

Issuers == {"Register", "Login", "Refresh", "Google"}
Savers == {"Google", "Profile", "Verify", "Reset"}
Idle == [op |-> "idle", at |-> "done", id |-> Null, tok |-> Null,
         copy |-> Null]

(* Which requests disturb one another when they overlap: one that issues a *)
(* session and one that revokes all; two renewals; one that saves a row it *)
(* read earlier and another that writes the row; two about reset links; two *)
(* that replace the verification code.                                     *)
Disturb(k, o, p) ==
    \/ k = "sessions" /\ o \in Issuers /\ p \in {"Delete", "Reset"}
    \/ k = "refresh" /\ o = "Refresh" /\ p = "Refresh"
    \/ k = "row" /\ o \in Savers /\ p \in Savers \cup {"Delete", "Login"}
    \/ k = "links" /\ {o, p} \subseteq {"Forgot", "Reset"}
    \/ k = "codes" /\ o = "Resend" /\ p = "Resend"

Running(o) == \E r \in Request : req[r].op = o
Doing(r, op, at) == req[r].op = op /\ req[r].at = at

(* A request begins: what it has read, and the statement it executes next. *)
Begin(r, op, at, id, tok, copy) ==
    /\ started < MaxRequests
    /\ req[r] = Idle
    /\ req' = [req EXCEPT ![r] = [op |-> op, at |-> at, id |-> id,
                                  tok |-> tok, copy |-> copy]]
    /\ started' = started + 1
    /\ clash' = clash \cup
         {k \in Clashes :
            \/ \E q \in Request \ {r} : \/ Disturb(k, op, req[q].op)
                                        \/ Disturb(k, req[q].op, op)
            \/ k = "codes" /\ op = "Resend" /\ mailing # {}}
    /\ UNCHANGED <<row, born, google, tokens, mailing, faults, asked>>

Goto(r, at) == req' = [req EXCEPT ![r].at = at]
Finish(r) == req' = [req EXCEPT ![r] = Idle]
Same == UNCHANGED <<started, faults, clash>>

Active == row # Null /\ row.deleted = "no"
Exists(id) == row # Null /\ row.id = id

(* The row after one column is written in place, and the same wish. *)
Write(id, change(_)) ==
    /\ row' = IF Exists(id) THEN change(row) ELSE row
    /\ asked' = IF Exists(id) THEN change(asked) ELSE asked

(* UserRepository.SoftDelete and Restore, of one column; a second deletion  *)
(* does not start the grace period anew, Restore asks for nothing.         *)
SoftDeleted(u) == IF u.deleted = "no" THEN [u EXCEPT !.deleted = "grace"] ELSE u
Restored(u) == [u EXCEPT !.deleted = "no"]

(* A single UPDATE of a token table. *)
Kill(table, S) ==
    [x \in DOMAIN table |->
        IF x \in S /\ table[x] # Null THEN [table[x] EXCEPT !.live = FALSE]
                                      ELSE table[x]]
Live(table) == {x \in DOMAIN table : table[x] # Null /\ table[x].live}

Init ==
    /\ row = Null /\ born = {} /\ google = Null
    /\ session = [s \in Session |-> Null]
    /\ link = [k \in Link |-> Null]
    /\ code = [v \in Code |-> Null]
    /\ mailing = {}
    /\ req = [r \in Request |-> Idle]
    /\ started = 0 /\ faults = 0 /\ clash = {} /\ asked = Null
-----------------------------------------------------------------------------
(* Sign-up and sign-in *)

(* Register found no active account with the address. *)
Register(r) == ~Active /\ Begin(r, "Register", "create", Null, Null, Null)

(* INSERT INTO users: users.email refuses it while there is a row. *)
InsertUser(id, pw) ==
    /\ row = Null
    /\ id \in Account \ born
    /\ born' = born \cup {id}
    /\ row' = [id |-> id, pw |-> pw, deleted |-> "no", verified |-> FALSE]
    /\ asked' = row'

(* The goroutine that mails the code starts once the row is in. *)
RegisterCreate(r) ==
    /\ Doing(r, "Register", "create")
    /\ \/ \E id \in Account, p \in Password :
             /\ InsertUser(id, p)
             /\ mailing' = mailing \cup {[id |-> id, at |-> "invalidate"]}
             /\ req' = [req EXCEPT ![r].at = "issue", ![r].id = id]
       \/ /\ row # Null
          /\ Finish(r)
          /\ UNCHANGED <<row, born, asked, mailing>>
    /\ UNCHANGED <<google, tokens>> /\ Same

(* The right password of an active account, or of a deleted one in time. *)
Login(r) ==
    /\ row # Null /\ row.pw # Null
    /\ \/ row.deleted = "no" /\ Begin(r, "Login", "issue", row.id, Null, Null)
       \/ /\ row.deleted = "grace"
          /\ Begin(r, "Login", "restore", row.id, Null, Null)

(* Mutant: Restore clears deleted_at within the grace period only. *)
LoginRestoreInTime(r) ==
    /\ Doing(r, "Login", "restore")
    /\ Write(req[r].id, LAMBDA u : IF u.deleted = "grace"
                                   THEN [u EXCEPT !.deleted = "no"] ELSE u)
    /\ Goto(r, "issue")
    /\ UNCHANGED <<born, google, tokens, mailing>> /\ Same

LoginRestore(r) ==
    /\ Doing(r, "Login", "restore")
    /\ Write(req[r].id, Restored)
    /\ Goto(r, "issue")
    /\ UNCHANGED <<born, google, tokens, mailing>> /\ Same

(* issuePair: the foreign key refuses a session of a purged account. *)
Issue(r) ==
    /\ req[r].at = "issue"
    /\ \/ /\ Exists(req[r].id)
          /\ \E s \in Session :
               /\ session[s] = Null
               /\ session' =
                    IF req[r].op = "Refresh"
                    THEN [session EXCEPT
                            ![s] = [live |-> TRUE, next |-> 0,
                                    stale |-> session[req[r].tok].stale],
                            ![req[r].tok].next = IF @ = 0 THEN 1 ELSE 2]
                    ELSE [session EXCEPT
                            ![s] = [live |-> TRUE, next |-> 0, stale |-> FALSE]]
       \/ ~Exists(req[r].id) /\ UNCHANGED session
    /\ Finish(r)
    /\ UNCHANGED <<row, born, google, link, code, mailing, asked>> /\ Same

Refresh(r, s) ==
    /\ s \in Live(session) /\ row # Null
    /\ Begin(r, "Refresh", "revoke", row.id, s, Null)

(* Mutant: the old token is left to expire. *)
RefreshKeeping(r) ==
    /\ Doing(r, "Refresh", "revoke")
    /\ Goto(r, "issue")
    /\ UNCHANGED <<row, born, google, tokens, mailing, asked>> /\ Same

RefreshRevoke(r) ==
    /\ Doing(r, "Refresh", "revoke")
    /\ session' = Kill(session, {req[r].tok})
    /\ Goto(r, "issue")
    /\ UNCHANGED <<row, born, google, link, code, mailing, asked>> /\ Same

(* Logout revokes one session; expiry makes it just as invalid. *)
Logout(s) ==
    /\ s \in Live(session)
    /\ session' = Kill(session, {s})
    /\ UNCHANGED <<row, born, google, link, code, mailing, req, asked>> /\ Same
-----------------------------------------------------------------------------
(* Google sign-in: one identity with the address, always with a name and   *)
(* never with a picture.                                                   *)

(* FindOrCreateByOAuth looks the identity up first. *)
SignIn(r) ==
    IF google = Null THEN Begin(r, "Google", "findEmail", Null, Null, Null)
                     ELSE Begin(r, "Google", "find", google, Null, Null)

(* The profile comes from a code exchange, or from the token of the app. *)
HandleGoogleCallback(r) == SignIn(r)
HandleGoogleIDToken(r) == SignIn(r)

(* FindByID sees active accounts only; any other ends the sign-in. *)
GoogleFind(r) ==
    /\ Doing(r, "Google", "find")
    /\ IF Active /\ Exists(req[r].id)
       THEN req' = [req EXCEPT ![r].copy = row, ![r].at = "save"]
       ELSE Finish(r)
    /\ UNCHANGED <<row, born, google, tokens, mailing, asked>> /\ Same

GoogleFindEmail(r) ==
    /\ Doing(r, "Google", "findEmail")
    /\ req' = IF Active
              THEN [req EXCEPT ![r].copy = row, ![r].id = row.id, ![r].at = "link"]
              ELSE [req EXCEPT ![r].at = "create"]
    /\ UNCHANGED <<row, born, google, tokens, mailing, asked>> /\ Same

GoogleCreate(r) ==
    /\ Doing(r, "Google", "create")
    /\ \/ \E id \in Account :
             /\ InsertUser(id, Null)
             /\ req' = [req EXCEPT ![r].copy = row', ![r].id = id, ![r].at = "link"]
       \/ row # Null /\ Finish(r) /\ UNCHANGED <<row, born, asked>>
    /\ UNCHANGED <<google, tokens, mailing>> /\ Same

(* UNIQUE(provider, provider_user_id) and the foreign key. *)
GoogleLink(r) ==
    /\ Doing(r, "Google", "link")
    /\ IF google = Null /\ Exists(req[r].id)
       THEN google' = req[r].id /\ Goto(r, "save")
       ELSE Finish(r) /\ UNCHANGED google
    /\ UNCHANGED <<row, born, tokens, mailing, asked>> /\ Same
-----------------------------------------------------------------------------
(* Saving the whole row *)

(* UserRepository.Update.  An UPDATE of every column by id; with no such    *)
(* row an INSERT, refused while another row has the address.  `effect' is  *)
(* the change of the account the caller is after.                          *)
Save(new, effect(_)) ==
    IF row = Null \/ row.id = new.id
    THEN /\ row' = new
         /\ asked' = IF asked = Null \/ "row" \in clash THEN new ELSE effect(asked)
    ELSE UNCHANGED <<row, asked>>

Verified(u) == [u EXCEPT !.verified = TRUE]

(* Google confirmed the address; the error of this Save is ignored. *)
GoogleSave(r) ==
    /\ Doing(r, "Google", "save")
    /\ IF req[r].copy.verified THEN UNCHANGED <<row, asked>>
                               ELSE Save(Verified(req[r].copy), Verified)
    /\ Goto(r, "issue")
    /\ UNCHANGED <<born, google, tokens, mailing>> /\ Same

(* The profile fields are not modelled, the row they are saved with is. *)
Profile(r) == Active /\ Begin(r, "Profile", "save", row.id, Null, row)
(* Mutant: the saved user went through its JSON form, which has no hash. *)
ProfileSaveDecoded(r) ==
    /\ Doing(r, "Profile", "save")
    /\ Save([req[r].copy EXCEPT !.pw = Null], LAMBDA u : u)
    /\ Finish(r)
    /\ UNCHANGED <<born, google, tokens, mailing>> /\ Same

ProfileSave(r) ==
    /\ Doing(r, "Profile", "save")
    /\ Save(req[r].copy, LAMBDA u : u)
    /\ Finish(r)
    /\ UNCHANGED <<born, google, tokens, mailing>> /\ Same
-----------------------------------------------------------------------------
(* Deleting an account *)

Delete(r) == Active /\ Begin(r, "Delete", "softDelete", row.id, Null, Null)

(* Mutant: deleting an account leaves its sessions alone. *)
SoftDeleteOnly(r) ==
    /\ Doing(r, "Delete", "softDelete")
    /\ Write(req[r].id, SoftDeleted)
    /\ Finish(r)
    /\ UNCHANGED <<born, google, tokens, mailing>> /\ Same

SoftDelete(r) ==
    /\ Doing(r, "Delete", "softDelete")
    /\ Write(req[r].id, SoftDeleted)
    /\ Goto(r, "revokeAll")
    /\ UNCHANGED <<born, google, tokens, mailing>> /\ Same

(* RevokeAllForUser, the last statement of DeleteAccount and ResetPassword. *)
RevokeAll(r) ==
    /\ req[r].at = "revokeAll"
    /\ session' = IF Exists(req[r].id) THEN Kill(session, Session) ELSE session
    /\ Finish(r)
    /\ UNCHANGED <<row, born, google, link, code, mailing, asked>> /\ Same

(* Seven days pass.  No request lasts that long, so those in progress have *)
(* begun after the deletion: a login that is about to restore the account. *)
GraceEnds ==
    /\ row # Null /\ row.deleted = "grace"
    /\ \A r \in Request : req[r] = Idle \/ Doing(r, "Login", "restore")
    /\ mailing = {}
    /\ Write(row.id, LAMBDA u : [u EXCEPT !.deleted = "expired"])
    /\ UNCHANGED <<born, google, tokens, mailing, req>> /\ Same

(* The purge cron: one DELETE, and what cascades from it. *)
Purge ==
    /\ row # Null /\ row.deleted = "expired"
    /\ row' = Null /\ asked' = Null /\ google' = Null
    /\ session' = Kill(session, Session)
    /\ link' = Kill(link, Link)
    /\ code' = Kill(code, Code)
    /\ UNCHANGED <<born, mailing, req>> /\ Same
-----------------------------------------------------------------------------
(* Links and codes sent by e-mail *)

Forgot(r) ==
    /\ Active /\ row.pw # Null
    /\ Begin(r, "Forgot", "invalidate", row.id, Null, Null)

Resend(r) ==
    /\ Active /\ ~row.verified
    /\ Begin(r, "Resend", "invalidate", row.id, Null, Null)

Invalidated(table, id) == IF Exists(id) THEN Kill(table, DOMAIN table) ELSE table

(* Create in either table: refused when the account has been purged. *)
Inserted(table, id, new) ==
    IF Exists(id)
    THEN \E x \in DOMAIN table :
            /\ table[x] = Null
            /\ new = [table EXCEPT ![x] = [live |-> TRUE, uses |-> 0]]
    ELSE new = table

InvalidatePrevious(r) ==
    /\ req[r].at = "invalidate"
    /\ IF req[r].op = "Forgot"
       THEN link' = Invalidated(link, req[r].id) /\ UNCHANGED code
       ELSE code' = Invalidated(code, req[r].id) /\ UNCHANGED link
    /\ Goto(r, "newToken")
    /\ UNCHANGED <<row, born, google, session, mailing, asked>> /\ Same

NewToken(r) ==
    /\ req[r].at = "newToken"
    /\ IF req[r].op = "Forgot"
       THEN Inserted(link, req[r].id, link') /\ UNCHANGED code
       ELSE Inserted(code, req[r].id, code') /\ UNCHANGED link
    /\ Finish(r)
    /\ UNCHANGED <<row, born, google, session, mailing, asked>> /\ Same

(* The same two statements in the goroutine Register has left behind. *)
MailCode(m) ==
    /\ \/ /\ m.at = "invalidate"
          /\ code' = Invalidated(code, m.id)
          /\ mailing' = (mailing \ {m}) \cup {[m EXCEPT !.at = "newToken"]}
       \/ /\ m.at = "newToken"
          /\ Inserted(code, m.id, code')
          /\ mailing' = mailing \ {m}
    /\ UNCHANGED <<row, born, google, session, link, req, asked>> /\ Same

Verify(r, v) ==
    /\ v \in Live(code) /\ row # Null
    /\ Begin(r, "Verify", "find", row.id, v, Null)
Reset(r, k) ==
    /\ k \in Live(link) /\ row # Null
    /\ Begin(r, "Reset", "find", row.id, k, Null)

(* FindByID of the token's user; a verified one has nothing to save. *)
TokenFind(r) ==
    /\ req[r].op \in {"Verify", "Reset"} /\ req[r].at = "find"
    /\ IF Active /\ Exists(req[r].id)
       THEN req' = [req EXCEPT
                      ![r].copy = row,
                      ![r].at = IF req[r].op = "Verify" /\ row.verified
                                THEN "markUsed" ELSE "save"]
       ELSE Finish(r)
    /\ UNCHANGED <<row, born, google, tokens, mailing, asked>> /\ Same

VerifySave(r) ==
    /\ Doing(r, "Verify", "save")
    /\ Save(Verified(req[r].copy), Verified)
    /\ IF row = Null \/ Exists(req[r].id) THEN Goto(r, "markUsed") ELSE Finish(r)
    /\ UNCHANGED <<born, google, tokens, mailing>> /\ Same

(* Every session of this moment becomes stale, every use of a link counts. *)
ResetSave(r) ==
    /\ Doing(r, "Reset", "save")
    /\ \E p \in Password : LET Changed(u) == [u EXCEPT !.pw = p]
                            IN Save(Changed(req[r].copy), Changed)
    /\ IF row = Null \/ Exists(req[r].id)
       THEN /\ Goto(r, "markUsed")
            /\ link' = [link EXCEPT ![req[r].tok].uses = IF @ = 0 THEN 1 ELSE 2]
            /\ session' = [s \in Session |-> IF session[s] = Null THEN Null
                                             ELSE [session[s] EXCEPT !.stale = TRUE]]
       ELSE Finish(r) /\ UNCHANGED <<link, session>>
    /\ UNCHANGED <<born, google, code, mailing>> /\ Same

(* Mutant: a reset does not consume its link. *)
MarkOnlyCodes(r) ==
    /\ req[r].at = "markUsed"
    /\ IF req[r].op = "Verify"
       THEN code' = Kill(code, {req[r].tok}) /\ Finish(r)
       ELSE Goto(r, "revokeAll") /\ UNCHANGED code
    /\ UNCHANGED <<row, born, google, session, link, mailing, asked>> /\ Same

MarkUsed(r) ==
    /\ req[r].at = "markUsed"
    /\ IF req[r].op = "Verify"
       THEN /\ code' = Kill(code, {req[r].tok})
            /\ Finish(r) /\ UNCHANGED link
       ELSE /\ link' = Kill(link, {req[r].tok})
            /\ Goto(r, "revokeAll") /\ UNCHANGED code
    /\ UNCHANGED <<row, born, google, session, mailing, asked>> /\ Same

(* An hour or a day passes. *)
Expire ==
    /\ \/ \E k \in Live(link) : link' = Kill(link, {k}) /\ UNCHANGED code
       \/ \E v \in Live(code) : code' = Kill(code, {v}) /\ UNCHANGED link
    /\ UNCHANGED <<row, born, google, session, mailing, req, asked>> /\ Same
-----------------------------------------------------------------------------
(* Statements that fail *)

(* A failed statement ends the request, as does a crash of the process. *)
Fail(r) ==
    /\ faults < MaxFaults /\ req[r] # Idle
    /\ faults' = faults + 1
    /\ Finish(r)
    /\ UNCHANGED <<row, born, google, tokens, mailing, started, clash, asked>>

(* InvalidatePrevious and Google's Save are best effort. *)
FailSoftly(r) ==
    /\ faults < MaxFaults
    /\ \/ req[r].at = "invalidate" /\ Goto(r, "newToken")
       \/ Doing(r, "Google", "save") /\ Goto(r, "issue")
    /\ faults' = faults + 1
    /\ UNCHANGED <<row, born, google, tokens, mailing, started, clash, asked>>

(* The error of the goroutine is dropped, and a restart takes it along. *)
MailLost(m) ==
    /\ faults < MaxFaults
    /\ mailing' = mailing \ {m}
    /\ faults' = faults + 1
    /\ UNCHANGED <<row, born, google, tokens, req, started, clash, asked>>
-----------------------------------------------------------------------------
RequestStep(r) ==
    \/ Register(r) \/ RegisterCreate(r) \/ Login(r) \/ LoginRestore(r)
    \/ Issue(r) \/ (\E s \in Session : Refresh(r, s)) \/ RefreshRevoke(r)
    \/ HandleGoogleCallback(r) \/ HandleGoogleIDToken(r) \/ GoogleFind(r)
    \/ GoogleFindEmail(r) \/ GoogleCreate(r) \/ GoogleLink(r)
    \/ GoogleSave(r) \/ Profile(r) \/ ProfileSave(r)
    \/ Delete(r) \/ SoftDelete(r) \/ RevokeAll(r) \/ Forgot(r) \/ Resend(r)
    \/ InvalidatePrevious(r) \/ NewToken(r) \/ (\E v \in Code : Verify(r, v))
    \/ (\E k \in Link : Reset(r, k)) \/ TokenFind(r) \/ VerifySave(r)
    \/ ResetSave(r) \/ MarkUsed(r) \/ Fail(r) \/ FailSoftly(r)

Next ==
    \/ \E r \in Request : RequestStep(r)
    \/ \E s \in Session : Logout(s)
    \/ \E m \in mailing : MailCode(m) \/ MailLost(m)
    \/ GraceEnds \/ Purge \/ Expire

Spec == Init /\ [][Next]_vars
-----------------------------------------------------------------------------
(* Properties *)

(* A deleted account has no session left that could be renewed, and after a *)
(* password reset every one that can be was issued after it, unless a      *)
(* request that issues sessions ran across the deletion or the reset       *)
(* (auth_service.go checks the account before it issues, and               *)
(* identity_service.go revokes after it deletes) or the best-effort        *)
(* revocation failed (auth_service.go:508).                                *)
RevokedMeansLoggedOut ==
    ("sessions" \notin clash /\ faults = 0) =>
        /\ (row # Null /\ row.deleted # "no" /\ ~Running("Delete")) => Live(session) = {}
        /\ ~Running("Reset") => \A s \in Live(session) : ~session[s].stale

(* Rotation: a refresh token is exchanged for one successor at most, unless *)
(* two renewals overlapped (auth_service.go:205).                          *)
RefreshOnce ==
    "refresh" \notin clash =>
        \A s \in Session : session[s] # Null => session[s].next < 2

(* Whatever failed or crashed, saving a whole row reverts no password, no  *)
(* verification and no deletion, unless another write of the row came      *)
(* between the read and the save (identity_service.go:59, gorm's Save).    *)
SavesKeepTheAccount == "row" \notin clash => row = asked

(* One reset link and one verification code are valid at a time, and a link *)
(* changes the password once, unless two requests about links, or for      *)
(* codes, overlapped or the statement that invalidates one failed.         *)
LinksWorkOnce ==
    faults = 0 =>
        /\ "links" \notin clash =>
              /\ Cardinality(Live(link)) <= 1
              /\ \A k \in Link : link[k] # Null => link[k].uses < 2
        /\ "codes" \notin clash => Cardinality(Live(code)) <= 1

(* A login that restores an account issues its session to an account that  *)
(* is no longer awaiting the purge, however late in the grace period it    *)
(* began, unless it overlapped a deletion.                                 *)
LoginRestores ==
    [][\A r \in Request :
          (/\ Doing(r, "Login", "issue") /\ session' # session /\ req'[r] = Idle
           /\ "sessions" \notin clash)
              => row' # Null /\ row'.deleted = "no"]_vars

=============================================================================
