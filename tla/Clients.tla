------------------------------ MODULE Clients ------------------------------
(***************************************************************************)
(* What the apps of a user keep on the server, and the pushes that reach   *)
(* them: devices (internal/device), preferences (internal/identity), API   *)
(* keys (internal/apikey) and the notification handlers                    *)
(* (internal/notification).  A request reads a row, changes its copy and   *)
(* saves the whole row; a handler reads the preferences, lists the devices *)
(* and sends to one after the other.  Requests and handlers interleave     *)
(* between statements.                                                     *)
(*                                                                         *)
(* FCM is configured.  Expiry of keys is left out: no code sets it.        *)
(***************************************************************************)
EXTENDS Integers, FiniteSets

CONSTANTS
    User, Device,
    Request,        \* requests in flight at one time
    Handler,        \* runs of a notification handler
    MaxKeysPerUser,
    MaxRequests,    \* bound on the requests of a behaviour
    MaxFaults,      \* bound on the statements and sends that fail
    Null

ASSUME ClientsAssumption ==
    /\ IsFiniteSet(Request)
    /\ MaxKeysPerUser \in Nat \ {0} /\ MaxRequests \in Nat /\ MaxFaults \in Nat

VARIABLES
    dev,        \* devices by device_token, which is unique
    prefs,      \* user_preferences, user_id is unique
    keys,       \* how many unrevoked keys a user has
    req,        \* requests between two statements
    job,        \* notification handlers
    sent,       \* pushes handed to FCM: handler and device
    served, faults,
    wish,       \* history: the rows as the requests asked for them
    allowed,    \* history: consent and devices there were since a handler began
    together,   \* history: most creations of keys of a user at one time
    clash       \* history: what overlapping requests have written

rows == <<dev, prefs, keys>>
vars == <<dev, prefs, keys, req, job, sent, served, faults,
          wish, allowed, together, clash>>

DeviceRow == [owner : User, active : BOOLEAN, fcm : BOOLEAN, token : BOOLEAN]
PrefsRow == [push : BOOLEAN, unit : {"km", "mi"}]
DefaultPrefs == [push |-> TRUE, unit |-> "km"]
Change == [field : {"push"}, value : BOOLEAN] \cup [field : {"unit"}, value : {"mi"}]
Changed(row, c) == IF c.field = "push" THEN [row EXCEPT !.push = c.value]
                                       ELSE [row EXCEPT !.unit = c.value]

(* shouldPush, on top of ListActiveByUser. *)
ListActiveByUser(u) == {d \in Device : dev[d] # Null /\ dev[d].owner = u /\ dev[d].active}
ShouldPush(row) == row.active /\ row.fcm /\ row.token

(* A request: its user, the device or Null, the copy it read, what it asks. *)
Pending(op, u, d, copy, want) ==
    [op |-> op, user |-> u, dev |-> d, copy |-> copy, want |-> want]
DeviceReq ==
    [op : {"register"}, user : User, dev : Device, copy : DeviceRow \cup {Null}, want : DeviceRow]
        \cup [op : {"token"}, user : User, dev : Device, copy : DeviceRow, want : {Null}]
PrefsReq ==
    [op : {"default prefs"}, user : User, dev : {Null}, copy : {Null}, want : Change \cup {Null}]
        \cup [op : {"prefs"}, user : User, dev : {Null}, copy : PrefsRow, want : Change]
KeyReq == [op : {"create key"}, user : User, dev : {Null}, copy : {Null}, want : {Null}]
Req == DeviceReq \cup PrefsReq \cup KeyReq
Job == [user : User, at : {"prefs", "list", "send", "done"}, left : SUBSET Device]

ASSUME NullAssumption ==
    Null \notin Device \cup DeviceRow \cup PrefsRow \cup Change \cup Req \cup Job

Init ==
    /\ dev = [d \in Device |-> Null] /\ prefs = [u \in User |-> Null]
    /\ keys = [u \in User |-> 0]
    /\ req = [r \in Request |-> Null] /\ job = [h \in Handler |-> Null]
    /\ sent = {} /\ served = 0 /\ faults = 0
    /\ wish = [dev |-> dev, prefs |-> prefs]
    /\ allowed = [h \in Handler |-> [consent |-> FALSE, devices |-> {}]]
    /\ together = [u \in User |-> 1] /\ clash = {}

(* Whether a push for u is wanted, and where, were the rows as w. *)
Consents(w, u) == w.prefs[u] = Null \/ w.prefs[u].push
Reachable(w, u) ==
    {d \in Device : w.dev[d] # Null /\ w.dev[d].owner = u /\ ShouldPush(w.dev[d])}

Creating(q, u) == {r \in Request : q[r] # Null /\ q[r].op = "create key" /\ q[r].user = u}
OnDevice(q, d) == {r \in Request : q[r] # Null /\ q[r].dev = d}
OnPrefs(q, u) ==
    {r \in Request : q[r] # Null /\ q[r].op \in {"default prefs", "prefs"} /\ q[r].user = u}

(* The rows asked for are w; the history follows. *)
Observe(w) ==
    /\ wish' = w
    /\ allowed' = [h \in Handler |->
         IF job'[h] = Null THEN allowed[h]
         ELSE [consent |-> allowed[h].consent \/ Consents(w, job'[h].user),
               devices |-> allowed[h].devices \cup Reachable(w, job'[h].user)]]
    /\ together' = [u \in User |->
         IF Cardinality(Creating(req', u)) > together[u]
         THEN Cardinality(Creating(req', u)) ELSE together[u]]
    /\ clash' = clash \cup
         {d \in Device : \/ Cardinality(OnDevice(req', d)) > 1
                         \/ OnDevice(req', d) # {} /\ dev'[d] # dev[d]} \cup
         {u \in User : Cardinality(OnPrefs(req', u)) > 1}
-----------------------------------------------------------------------------
(* Devices. *)

Arrive(r, q) ==
    /\ req[r] = Null /\ served < MaxRequests
    /\ req' = [req EXCEPT ![r] = q] /\ served' = served + 1
    /\ UNCHANGED <<job, sent, faults>>
End(r) ==
    /\ req' = [req EXCEPT ![r] = Null]
    /\ UNCHANGED <<job, sent, served, faults>>

(* Register: FindByToken, whoever the row belongs to. *)
Register(r, u, d) ==
    /\ \E fcm, token \in BOOLEAN :
         Arrive(r, Pending("register", u, d, dev[d],
                    [owner |-> u, active |-> TRUE, fcm |-> fcm, token |-> token]))
    /\ UNCHANGED rows /\ Observe(wish)

(* Register: Save over the row found, or Create, which fails when the token *)
(* is taken by now.                                                        *)
Registered(r, row) ==
    LET d == req[r].dev IN
    /\ req[r] # Null /\ req[r].op = "register" /\ End(r)
    /\ UNCHANGED <<prefs, keys>>
    /\ IF req[r].copy = Null /\ dev[d] # Null
       THEN UNCHANGED dev /\ Observe(wish)
       ELSE dev' = [dev EXCEPT ![d] = row] /\ Observe([wish EXCEPT !.dev[d] = req[r].want])
(* Mutant: the update keeps the owner of the row found. *)
RegisterSaveOwned(r) ==
    Registered(r, IF req[r].copy = Null THEN req[r].want
                  ELSE [req[r].want EXCEPT !.owner = req[r].copy.owner])
RegisterSave(r) == Registered(r, req[r].want)

(* Deregister: one conditional UPDATE. *)
Deregister(u, d) ==
    /\ served < MaxRequests /\ served' = served + 1
    /\ dev[d] # Null /\ dev[d].owner = u
    /\ dev' = [dev EXCEPT ![d].active = FALSE]
    /\ UNCHANGED <<prefs, keys, req, job, sent, faults>>
    /\ Observe([wish EXCEPT !.dev[d] =
                  IF @ # Null /\ @.owner = u THEN [@ EXCEPT !.active = FALSE] ELSE @])

(* UpdatePushToken: FindByID and the check of the owner, then Save. *)
UpdatePushToken(r, u, d) ==
    /\ dev[d] # Null /\ dev[d].owner = u
    /\ Arrive(r, Pending("token", u, d, dev[d], Null))
    /\ UNCHANGED rows /\ Observe(wish)

TokenSave(r) ==
    LET d == req[r].dev IN
    /\ req[r] # Null /\ req[r].op = "token" /\ End(r)
    /\ dev' = [dev EXCEPT ![d] = [req[r].copy EXCEPT !.token = TRUE]]
    /\ UNCHANGED <<prefs, keys>>
    /\ Observe([wish EXCEPT !.dev[d] =
                  IF @ # Null /\ @.owner = req[r].user THEN [@ EXCEPT !.token = TRUE] ELSE @])
-----------------------------------------------------------------------------
(* Preferences. *)

(* GetPreferences, alone (want is Null) or as the start of an update; a     *)
(* missing row is created with the defaults.                               *)
GetPreferences(r, u) ==
    /\ \E want \in Change \cup {Null} :
         IF prefs[u] = Null
         THEN Arrive(r, Pending("default prefs", u, Null, Null, want))
         ELSE want # Null /\ Arrive(r, Pending("prefs", u, Null, prefs[u], want))
    /\ UNCHANGED rows /\ Observe(wish)

(* createDefaultPreferences: of two, the second violates the constraint. *)
CreateDefaultPreferences(r) ==
    LET u == req[r].user IN
    /\ req[r] # Null /\ req[r].op = "default prefs" /\ UNCHANGED <<dev, keys>>
    /\ IF prefs[u] # Null THEN End(r) /\ UNCHANGED prefs /\ Observe(wish)
       ELSE /\ prefs' = [prefs EXCEPT ![u] = DefaultPrefs]
            /\ req' = [req EXCEPT ![r] = IF @.want = Null THEN Null
                         ELSE Pending("prefs", u, Null, DefaultPrefs, @.want)]
            /\ UNCHANGED <<job, sent, served, faults>>
            /\ Observe([wish EXCEPT !.prefs[u] = IF @ = Null THEN DefaultPrefs ELSE @])

UpdatePreferences(r) ==
    LET u == req[r].user IN
    /\ req[r] # Null /\ req[r].op = "prefs" /\ End(r)
    /\ prefs' = [prefs EXCEPT ![u] = Changed(req[r].copy, req[r].want)]
    /\ UNCHANGED <<dev, keys>>
    /\ Observe([wish EXCEPT !.prefs[u] = Changed(@, req[r].want)])
-----------------------------------------------------------------------------
(* API keys. *)

(* Create: the count, then the insert. *)
(* Mutant: one key more than the limit. *)
CountToLimit(r, u) ==
    /\ keys[u] <= MaxKeysPerUser
    /\ Arrive(r, Pending("create key", u, Null, Null, Null))
    /\ UNCHANGED rows /\ Observe(wish)
CreateKey(r, u) ==
    /\ keys[u] < MaxKeysPerUser
    /\ Arrive(r, Pending("create key", u, Null, Null, Null))
    /\ UNCHANGED rows /\ Observe(wish)

InsertKey(r) ==
    /\ req[r] # Null /\ req[r].op = "create key" /\ End(r)
    /\ keys' = [keys EXCEPT ![req[r].user] = @ + 1]
    /\ UNCHANGED <<dev, prefs>> /\ Observe(wish)

(* Revoke: of a key that is not revoked yet, in one UPDATE. *)
Revoke(u) ==
    /\ served < MaxRequests /\ served' = served + 1
    /\ keys[u] > 0 /\ keys' = [keys EXCEPT ![u] = @ - 1]
    /\ UNCHANGED <<dev, prefs, req, job, sent, faults>> /\ Observe(wish)
-----------------------------------------------------------------------------
(* Notifications. *)

At(h, step) == job[h] # Null /\ job[h].at = step
Handle(h, next) ==
    /\ job' = [job EXCEPT ![h] = next]
    /\ UNCHANGED <<dev, prefs, keys, req, served>> /\ Observe(wish)

(* HandleInsightCreated and HandleActivityPossibleDuplicate run the same    *)
(* statements for the user of the event.                                   *)
HandleInsightCreated(h, u) ==
    /\ job[h] = Null /\ Handle(h, [user |-> u, at |-> "prefs", left |-> {}])
    /\ UNCHANGED <<sent, faults>>

(* Mutant: an answer is taken for consent. *)
AllowedAlways(u) == TRUE
Allowed(u) == prefs[u] = Null \/ prefs[u].push
PushAllowed(h) ==
    /\ At(h, "prefs")
    /\ Handle(h, [job[h] EXCEPT !.at = IF Allowed(job[h].user) THEN "list" ELSE "done"])
    /\ UNCHANGED <<sent, faults>>

ListDevices(h) ==
    /\ At(h, "list")
    /\ Handle(h, [job[h] EXCEPT !.at = "send",
                    !.left = {d \in ListActiveByUser(job[h].user) : ShouldPush(dev[d])}])
    /\ UNCHANGED <<sent, faults>>

Send(h) ==
    /\ At(h, "send")
    /\ \E d \in job[h].left :
         /\ sent' = sent \cup {<<h, d>>}
         /\ Handle(h, [job[h] EXCEPT !.left = @ \ {d}])
    /\ UNCHANGED faults

(* A failing statement ends its request.  A handler that cannot read the    *)
(* preferences sends anyway, one that cannot list ends, and a failing send *)
(* leaves out its device.                                                  *)
Fail ==
    /\ faults < MaxFaults /\ faults' = faults + 1
    /\ \/ \E r \in Request :
            /\ req[r] # Null /\ req' = [req EXCEPT ![r] = Null]
            /\ UNCHANGED <<dev, prefs, keys, job, served>> /\ Observe(wish)
       \/ \E h \in Handler :
            \/ At(h, "prefs") /\ Handle(h, [job[h] EXCEPT !.at = "list"])
            \/ At(h, "list") /\ Handle(h, [job[h] EXCEPT !.at = "done"])
            \/ /\ At(h, "send")
               /\ \E d \in job[h].left : Handle(h, [job[h] EXCEPT !.left = @ \ {d}])
    /\ UNCHANGED sent

Next ==
    \/ \E r \in Request, u \in User :
         \/ \E d \in Device : Register(r, u, d) \/ UpdatePushToken(r, u, d)
         \/ GetPreferences(r, u) \/ CreateKey(r, u)
    \/ \E r \in Request :
         \/ RegisterSave(r) \/ TokenSave(r) \/ InsertKey(r)
         \/ CreateDefaultPreferences(r) \/ UpdatePreferences(r)
    \/ \E u \in User : Revoke(u) \/ \E d \in Device : Deregister(u, d)
    \/ \E h \in Handler :
         \/ \E u \in User : HandleInsightCreated(h, u)
         \/ PushAllowed(h) \/ ListDevices(h) \/ Send(h)
    \/ Fail

Spec == Init /\ [][Next]_vars
-----------------------------------------------------------------------------
(* Rows, the copies that requests hold of them, and the rows asked for are  *)
(* of their types.                                                         *)
ClientsTypeOK ==
    /\ dev \in [Device -> DeviceRow \cup {Null}]
    /\ prefs \in [User -> PrefsRow \cup {Null}]
    /\ keys \in [User -> Nat]
    /\ req \in [Request -> Req \cup {Null}]
    /\ job \in [Handler -> Job \cup {Null}]
    /\ sent \subseteq Handler \X Device
    /\ served \in Nat /\ faults \in Nat
    /\ wish \in [dev : [Device -> DeviceRow \cup {Null}],
                 prefs : [User -> PrefsRow \cup {Null}]]
    /\ allowed \in [Handler -> [consent : BOOLEAN, devices : SUBSET Device]]
    /\ together \in [User -> Nat]

(* A device is as its last requests asked, active or not and whosever, and  *)
(* the preferences hold every change, unless requests on the same row      *)
(* overlapped: whole rows are saved (device_service.go:98).                *)
RowsAreAsAsked ==
    /\ \A d \in Device \ clash : dev[d] = wish.dev[d]
    /\ \A u \in User \ clash : prefs[u] = wish.prefs[u]

(* A user has more keys than the limit only by creations that overlapped:   *)
(* n at one time exceed it by n - 1 at most (api_key_service.go:31).       *)
KeyLimit == \A u \in User : keys[u] <= MaxKeysPerUser + together[u] - 1

(* A push goes out for a user who consented, and to a device that was the   *)
(* user's, at some time since the handler began: one who opted out or      *)
(* handed the device on before is left alone, unless a statement failed    *)
(* (preferences fail open) or overlapping requests wrote the rows.  The    *)
(* two times may differ: a push can reach a device registered after the    *)
(* opt-out.                                                                *)
PushesWereAllowed ==
    clash = {} /\ faults = 0 =>
        \A p \in sent : allowed[p[1]].consent /\ p[2] \in allowed[p[1]].devices
=============================================================================
