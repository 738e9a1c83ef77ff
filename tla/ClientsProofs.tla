--------------------------- MODULE ClientsProofs ---------------------------
(***************************************************************************)
(* Proofs about Clients: the types, the bound on the API keys of a user,   *)
(* what saves of whole rows may lose, and whom a push may reach.           *)
(***************************************************************************)
EXTENDS Clients, FiniteSetTheorems, TLAPS

DevType == [Device -> DeviceRow \cup {Null}]
PrefsType == [User -> PrefsRow \cup {Null}]
WishType == [dev : DevType, prefs : PrefsType]

-----------------------------------------------------------------------------
(* Facts about requests and the history *)

(* What each kind of request holds. *)
LEMMA ReqFields ==
    ASSUME NEW q \in Req
    PROVE  /\ q.op \in {"register", "token", "create key", "default prefs", "prefs"}
           /\ q.user \in User /\ q # Null
           /\ q.op \in {"register", "token"} => q.dev \in Device
           /\ q.op \in {"default prefs", "prefs", "create key"} => q.dev = Null
           /\ q.op = "register" => q.copy \in DeviceRow \cup {Null} /\ q.want \in DeviceRow
           /\ q.op = "token" => q.copy \in DeviceRow
           /\ q.op = "default prefs" => q.want \in Change \cup {Null}
           /\ q.op = "prefs" => q.copy \in PrefsRow /\ q.want \in Change
BY NullAssumption DEF Req, DeviceReq, PrefsReq, KeyReq

LEMMA CreatingFinite ==
    ASSUME NEW q, NEW u
    PROVE  /\ Creating(q, u) \subseteq Request
           /\ IsFiniteSet(Creating(q, u))
           /\ Cardinality(Creating(q, u)) \in Nat
<1>1. Creating(q, u) \subseteq Request
  BY DEF Creating
<1>2. IsFiniteSet(Creating(q, u))
  BY <1>1, FS_Subset, ClientsAssumption
<1> QED
  BY <1>1, <1>2, FS_CardinalityType

(* Two requests are more than one. *)
LEMMA AtMostOne ==
    ASSUME NEW S, S \subseteq Request, NEW r \in S, NEW s \in S, ~(Cardinality(S) > 1)
    PROVE  r = s
<1> SUFFICES ASSUME r # s PROVE FALSE
  OBVIOUS
<1>1. IsFiniteSet(S) /\ Cardinality(S) \in Nat
  BY FS_Subset, FS_CardinalityType, ClientsAssumption
<1>2. IsFiniteSet({r}) /\ Cardinality({r}) = 1
  BY FS_Singleton
<1>3. Cardinality({r} \cup {s}) = Cardinality({r}) + 1
  <2>1. s \notin {r}
    OBVIOUS
  <2> QED
    BY <1>2, <2>1, FS_AddElement
<1>4. Cardinality({r} \cup {s}) <= Cardinality(S)
  <2>1. ({r} \cup {s}) \subseteq S
    OBVIOUS
  <2> QED
    BY <1>1, <2>1, FS_Subset
<1> QED
  BY <1>1, <1>2, <1>3, <1>4

(* The history stays of its type. *)
LEMMA ObserveTypes ==
    ASSUME ClientsTypeOK, NEW w \in WishType, Observe(w)
    PROVE  /\ wish' \in WishType
           /\ allowed' \in [Handler -> [consent : BOOLEAN, devices : SUBSET Device]]
           /\ together' \in [User -> Nat]
<1>1. wish' \in WishType
  BY DEF Observe
<1>2. allowed' \in [Handler -> [consent : BOOLEAN, devices : SUBSET Device]]
  BY DEF Observe, ClientsTypeOK, Consents, Reachable
<1>3. together' \in [User -> Nat]
  BY CreatingFinite DEF Observe, ClientsTypeOK
<1> QED
  BY <1>1, <1>2, <1>3

(* What no clash means: on the row of a device, or of the preferences of a  *)
(* user, one request at most is in progress, and no other has changed it.   *)
LEMMA NoClash ==
    ASSUME NEW w, Observe(w)
    PROVE  /\ clash \subseteq clash'
           /\ \A d \in Device \ clash' :
                /\ \A r, s \in OnDevice(req', d) : r = s
                /\ OnDevice(req', d) # {} => dev'[d] = dev[d]
           /\ \A u \in User \ clash' : \A r, s \in OnPrefs(req', u) : r = s
<1>1. clash \subseteq clash'
  BY DEF Observe
<1>2. ASSUME NEW d \in Device \ clash'
      PROVE  /\ \A r, s \in OnDevice(req', d) : r = s
             /\ OnDevice(req', d) # {} => dev'[d] = dev[d]
  <2>1. /\ ~(Cardinality(OnDevice(req', d)) > 1)
        /\ OnDevice(req', d) # {} => dev'[d] = dev[d]
    BY <1>2 DEF Observe
  <2>2. OnDevice(req', d) \subseteq Request
    BY DEF OnDevice
  <2> QED
    BY <2>1, <2>2, AtMostOne
<1>3. ASSUME NEW u \in User \ clash'
      PROVE  \A r, s \in OnPrefs(req', u) : r = s
  <2>1. ~(Cardinality(OnPrefs(req', u)) > 1)
    BY <1>3 DEF Observe
  <2>2. OnPrefs(req', u) \subseteq Request
    BY DEF OnPrefs
  <2> QED
    BY <2>1, <2>2, AtMostOne
<1> QED
  BY <1>1, <1>2, <1>3

-----------------------------------------------------------------------------
(* Types *)

(* The types, and that the preferences asked for are there when the row is  *)
(* and when a request is about to save it.                                 *)
TypeInv ==
    /\ ClientsTypeOK
    /\ \A u \in User : prefs[u] # Null => wish.prefs[u] # Null
    /\ \A r \in Request :
         req[r] # Null /\ req[r].op = "prefs" => prefs[req[r].user] # Null

LEMMA InitTypes == Init => TypeInv
<1> SUFFICES ASSUME Init PROVE TypeInv
  OBVIOUS
<1> QED
  BY ClientsAssumption DEF Init, TypeInv, ClientsTypeOK

LEMMA ChangedIsPrefs ==
    ASSUME NEW row \in PrefsRow, NEW c \in Change
    PROVE  Changed(row, c) \in PrefsRow
BY DEF Changed, PrefsRow, Change

(* A request that arrives, and one that ends. *)
LEMMA ArriveTypes ==
    ASSUME ClientsTypeOK, NEW r \in Request, NEW q \in Req, Arrive(r, q)
    PROVE  /\ req' \in [Request -> Req \cup {Null}]
           /\ req' = [req EXCEPT ![r] = q]
           /\ job' = job /\ sent' = sent /\ faults' = faults /\ served' \in Nat
BY DEF Arrive, ClientsTypeOK

LEMMA EndTypes ==
    ASSUME ClientsTypeOK, NEW r \in Request, End(r)
    PROVE  /\ req' \in [Request -> Req \cup {Null}]
           /\ req' = [req EXCEPT ![r] = Null]
           /\ job' = job /\ sent' = sent /\ faults' = faults /\ served' = served
BY DEF End, ClientsTypeOK

(* What a step has put in the place of a request. *)
LEMMA Arrived ==
    ASSUME ClientsTypeOK, NEW r \in Request, NEW op, NEW u, NEW d, NEW copy, NEW want,
           Arrive(r, Pending(op, u, d, copy, want))
    PROVE  /\ req'[r].op = op /\ req'[r].user = u /\ req'[r].dev = d
           /\ req'[r].copy = copy /\ req'[r].want = want
           /\ \A s \in Request \ {r} : req'[s] = req[s]
<1>1. req' = [req EXCEPT ![r] = Pending(op, u, d, copy, want)]
  BY DEF Arrive
<1>2. req'[r] = Pending(op, u, d, copy, want) /\ \A s \in Request \ {r} : req'[s] = req[s]
  BY <1>1 DEF ClientsTypeOK
<1> QED
  BY <1>2 DEF Pending

(* Requests of each kind are of their type. *)
LEMMA PendingTypes ==
    /\ \A u \in User, d \in Device, c \in DeviceRow \cup {Null}, w \in DeviceRow :
         Pending("register", u, d, c, w) \in Req
    /\ \A u \in User, d \in Device, c \in DeviceRow : Pending("token", u, d, c, Null) \in Req
    /\ \A u \in User, w \in Change \cup {Null} :
         Pending("default prefs", u, Null, Null, w) \in Req
    /\ \A u \in User, c \in PrefsRow, w \in Change : Pending("prefs", u, Null, c, w) \in Req
    /\ \A u \in User : Pending("create key", u, Null, Null, Null) \in Req
BY DEF Pending, Req, DeviceReq, PrefsReq, KeyReq

(* What a step leaves to show: the rows, requests and handlers stay of      *)
(* their types, and the rows asked for are.                                *)
Plain ==
    /\ dev' \in DevType /\ prefs' \in PrefsType /\ keys' \in [User -> Nat]
    /\ req' \in [Request -> Req \cup {Null}]
    /\ job' \in [Handler -> Job \cup {Null}]
    /\ sent' \subseteq Handler \X Device
    /\ served' \in Nat /\ faults' \in Nat
    /\ \E w \in WishType : Observe(w)

LEMMA PlainTypes ==
    ASSUME ClientsTypeOK, Plain
    PROVE  ClientsTypeOK'
<1> PICK w \in WishType : Observe(w)
  BY DEF Plain
<1> QED
  BY ObserveTypes DEF Plain, ClientsTypeOK, DevType, PrefsType, WishType

LEMMA RequestsKeepTypes ==
    ASSUME ClientsTypeOK, NEW r \in Request, NEW u \in User,
           \/ \E d \in Device : Register(r, u, d) \/ UpdatePushToken(r, u, d)
           \/ GetPreferences(r, u) \/ CreateKey(r, u)
    PROVE  Plain /\ rows' = rows /\ Observe(wish)
<1> USE DEF DevType, PrefsType, WishType
<1>0. wish \in WishType
  BY DEF ClientsTypeOK
<1>1. ASSUME NEW d \in Device, Register(r, u, d)
      PROVE  Plain /\ rows' = rows /\ Observe(wish)
  <2> PICK fcm, token \in BOOLEAN :
         Arrive(r, Pending("register", u, d, dev[d],
                    [owner |-> u, active |-> TRUE, fcm |-> fcm, token |-> token]))
    BY <1>1 DEF Register
  <2>1. [owner |-> u, active |-> TRUE, fcm |-> fcm, token |-> token] \in DeviceRow
    BY DEF DeviceRow
  <2>2. Pending("register", u, d, dev[d],
                    [owner |-> u, active |-> TRUE, fcm |-> fcm, token |-> token]) \in Req
    BY <2>1, PendingTypes DEF ClientsTypeOK
  <2> QED
    BY <1>0, <1>1, <2>2, ArriveTypes DEF Register, rows, Plain, ClientsTypeOK
<1>2. ASSUME NEW d \in Device, UpdatePushToken(r, u, d)
      PROVE  Plain /\ rows' = rows /\ Observe(wish)
  <2>1. Pending("token", u, d, dev[d], Null) \in Req
    BY <1>2, PendingTypes DEF UpdatePushToken, ClientsTypeOK
  <2> QED
    BY <1>0, <1>2, <2>1, ArriveTypes DEF UpdatePushToken, rows, Plain, ClientsTypeOK
<1>3. CASE GetPreferences(r, u)
  <2> PICK want \in Change \cup {Null} :
         IF prefs[u] = Null
         THEN Arrive(r, Pending("default prefs", u, Null, Null, want))
         ELSE want # Null /\ Arrive(r, Pending("prefs", u, Null, prefs[u], want))
    BY <1>3 DEF GetPreferences
  <2>1. \E q \in Req : Arrive(r, q)
    BY PendingTypes DEF ClientsTypeOK
  <2> QED
    BY <1>0, <1>3, <2>1, ArriveTypes DEF GetPreferences, rows, Plain, ClientsTypeOK
<1>4. CASE CreateKey(r, u)
  <2>1. Pending("create key", u, Null, Null, Null) \in Req
    BY PendingTypes
  <2> QED
    BY <1>0, <1>4, <2>1, ArriveTypes DEF CreateKey, rows, Plain, ClientsTypeOK
<1> QED
  BY <1>1, <1>2, <1>3, <1>4

(* The rows asked for stay of their type when one is replaced. *)
LEMMA WishUpdates ==
    ASSUME NEW w \in WishType
    PROVE  /\ \A d \in Device, row \in DeviceRow \cup {Null} :
                [w EXCEPT !.dev[d] = row] \in WishType
           /\ \A u \in User, row \in PrefsRow \cup {Null} :
                [w EXCEPT !.prefs[u] = row] \in WishType
BY DEF WishType, DevType, PrefsType

LEMMA SavesKeepTypes ==
    ASSUME TypeInv, NEW r \in Request,
           \/ RegisterSave(r) \/ TokenSave(r) \/ InsertKey(r)
           \/ CreateDefaultPreferences(r) \/ UpdatePreferences(r)
    PROVE  Plain
<1> USE DEF TypeInv
<1>0. wish \in WishType /\ req[r] \in Req \cup {Null}
  BY DEF ClientsTypeOK, WishType, DevType, PrefsType
<1>1. CASE RegisterSave(r)
  <2> DEFINE d == req[r].dev
  <2>1. /\ req[r] \in Req /\ d \in Device /\ req[r].want \in DeviceRow
    BY <1>0, <1>1, ReqFields DEF RegisterSave, Registered
  <2>2. \/ Observe(wish) /\ dev' = dev
        \/ /\ Observe([wish EXCEPT !.dev[d] = req[r].want])
           /\ dev' = [dev EXCEPT ![d] = req[r].want]
    BY <1>1 DEF RegisterSave, Registered
  <2>3. dev' \in DevType /\ \E w \in WishType : Observe(w)
    BY <1>0, <2>1, <2>2, WishUpdates DEF ClientsTypeOK, DevType
  <2> QED
    BY <1>1, <2>3, EndTypes DEF RegisterSave, Registered, Plain, ClientsTypeOK, PrefsType
<1>2. CASE TokenSave(r)
  <2> DEFINE d == req[r].dev
             want == IF wish.dev[d] # Null /\ wish.dev[d].owner = req[r].user
                     THEN [wish.dev[d] EXCEPT !.token = TRUE] ELSE wish.dev[d]
  <2>1. /\ req[r] \in Req /\ d \in Device /\ req[r].copy \in DeviceRow
    BY <1>0, <1>2, ReqFields DEF TokenSave
  <2>2. dev' \in DevType
    <3>1. [req[r].copy EXCEPT !.token = TRUE] \in DeviceRow
      BY <2>1 DEF DeviceRow
    <3> QED
      BY <1>2, <2>1, <3>1 DEF TokenSave, ClientsTypeOK, DevType
  <2>3. want \in DeviceRow \cup {Null}
    BY <1>0, <2>1 DEF WishType, DevType, DeviceRow
  <2>4. Observe([wish EXCEPT !.dev[d] = want])
    BY <1>2 DEF TokenSave
  <2>5. [wish EXCEPT !.dev[d] = want] \in WishType
    BY <1>0, <2>1, <2>3, WishUpdates
  <2> QED
    BY <1>2, <2>2, <2>4, <2>5, EndTypes DEF TokenSave, Plain, ClientsTypeOK, PrefsType
<1>3. CASE InsertKey(r)
  <2>1. req[r] \in Req /\ req[r].user \in User
    BY <1>0, <1>3, ReqFields DEF InsertKey
  <2>2. keys' \in [User -> Nat]
    <3>1. keys \in [User -> Nat]
      BY DEF ClientsTypeOK
    <3>2. keys' = [keys EXCEPT ![req[r].user] = keys[req[r].user] + 1]
      BY <1>3 DEF InsertKey
    <3> QED
      BY <2>1, <3>1, <3>2
  <2> QED
    BY <1>0, <1>3, <2>2, EndTypes
    DEF InsertKey, Plain, ClientsTypeOK, DevType, PrefsType
<1>4. CASE CreateDefaultPreferences(r)
  <2> DEFINE u == req[r].user
  <2>1. /\ req[r] \in Req /\ u \in User /\ req[r].want \in Change \cup {Null}
    BY <1>0, <1>4, ReqFields DEF CreateDefaultPreferences
  <2>2. CASE prefs[u] # Null
    BY <1>0, <1>4, <2>2, EndTypes
    DEF CreateDefaultPreferences, Plain, ClientsTypeOK, DevType, PrefsType
  <2>3. CASE prefs[u] = Null
    <3> DEFINE want == IF wish.prefs[u] = Null THEN DefaultPrefs ELSE wish.prefs[u]
               rest == IF req[r].want = Null THEN Null
                       ELSE Pending("prefs", u, Null, DefaultPrefs, req[r].want)
    <3>1. DefaultPrefs \in PrefsRow
      BY DEF DefaultPrefs, PrefsRow
    <3>2. rest \in Req \cup {Null}
      BY <2>1, <3>1, PendingTypes
    <3>3. want \in PrefsRow \cup {Null}
      BY <1>0, <2>1, <3>1 DEF WishType, PrefsType
    <3>4. [wish EXCEPT !.prefs[u] = want] \in WishType
      BY <1>0, <2>1, <3>3, WishUpdates
    <3>5. req' = [req EXCEPT ![r] = rest] /\ Observe([wish EXCEPT !.prefs[u] = want])
      BY <1>4, <2>3 DEF CreateDefaultPreferences
    <3>6. prefs' = [prefs EXCEPT ![u] = DefaultPrefs]
      BY <1>4, <2>3 DEF CreateDefaultPreferences
    <3> HIDE DEF want, rest
    <3> QED
      BY <1>4, <2>3, <3>1, <3>2, <3>4, <3>5, <3>6
      DEF CreateDefaultPreferences, Plain, ClientsTypeOK, DevType, PrefsType
  <2> QED
    BY <2>2, <2>3
<1>5. CASE UpdatePreferences(r)
  <2> DEFINE u == req[r].user
  <2>1. /\ req[r] \in Req /\ u \in User /\ req[r].want \in Change
        /\ req[r].copy \in PrefsRow
    BY <1>0, <1>5, ReqFields DEF UpdatePreferences
  <2>2. wish.prefs[u] \in PrefsRow
    BY <1>0, <1>5, <2>1 DEF UpdatePreferences, WishType, PrefsType
  <2>3. /\ Changed(req[r].copy, req[r].want) \in PrefsRow
        /\ Changed(wish.prefs[u], req[r].want) \in PrefsRow
    BY <2>1, <2>2, ChangedIsPrefs
  <2>4. prefs' \in PrefsType
    BY <1>5, <2>1, <2>3 DEF UpdatePreferences, ClientsTypeOK, PrefsType
  <2>5. /\ Observe([wish EXCEPT !.prefs[u] = Changed(wish.prefs[u], req[r].want)])
        /\ [wish EXCEPT !.prefs[u] = Changed(wish.prefs[u], req[r].want)] \in WishType
    BY <1>0, <1>5, <2>1, <2>3, WishUpdates DEF UpdatePreferences
  <2> QED
    BY <1>5, <2>4, <2>5, EndTypes DEF UpdatePreferences, Plain, ClientsTypeOK, DevType
<1> QED
  BY <1>1, <1>2, <1>3, <1>4, <1>5

LEMMA UpdatesKeepTypes ==
    ASSUME ClientsTypeOK, NEW u \in User,
           Revoke(u) \/ \E d \in Device : Deregister(u, d)
    PROVE  Plain /\ UNCHANGED <<prefs, req>> /\ wish'.prefs = wish.prefs
<1>0. wish \in WishType
  BY DEF ClientsTypeOK, WishType, DevType, PrefsType
<1>1. CASE Revoke(u)
  <2>1. keys' \in [User -> Nat]
    BY <1>1 DEF Revoke, ClientsTypeOK
  <2>2. wish' = wish
    BY <1>1 DEF Revoke, Observe
  <2> QED
    BY <1>0, <1>1, <2>1, <2>2 DEF Revoke, Plain, ClientsTypeOK, DevType, PrefsType
<1>2. ASSUME NEW d \in Device, Deregister(u, d)
      PROVE  Plain /\ UNCHANGED <<prefs, req>> /\ wish'.prefs = wish.prefs
  <2> DEFINE want == IF wish.dev[d] # Null /\ wish.dev[d].owner = u
                     THEN [wish.dev[d] EXCEPT !.active = FALSE] ELSE wish.dev[d]
  <2>1. want \in DeviceRow \cup {Null}
    BY <1>0 DEF WishType, DevType, DeviceRow
  <2>2. Observe([wish EXCEPT !.dev[d] = want])
    BY <1>2 DEF Deregister
  <2>3. [wish EXCEPT !.dev[d] = want] \in WishType
    BY <1>0, <2>1, WishUpdates
  <2>4. dev' \in DevType
    <3>1. [dev[d] EXCEPT !.active = FALSE] \in DeviceRow
      <4>1. dev[d] \in DeviceRow
        BY <1>2 DEF Deregister, ClientsTypeOK
      <4> QED
        BY <4>1 DEF DeviceRow
    <3>2. dev' = [dev EXCEPT ![d] = [dev[d] EXCEPT !.active = FALSE]]
      BY <1>2 DEF Deregister
    <3> QED
      BY <3>1, <3>2 DEF ClientsTypeOK, DevType
  <2>5. wish'.prefs = wish.prefs
    BY <1>0, <2>2 DEF Observe, WishType
  <2> QED
    BY <1>2, <2>2, <2>3, <2>4, <2>5 DEF Deregister, Plain, ClientsTypeOK, PrefsType
<1> QED
  BY <1>1, <1>2

LEMMA HandlersKeepTypes ==
    ASSUME ClientsTypeOK, NEW h \in Handler,
           \/ \E u \in User : HandleInsightCreated(h, u)
           \/ PushAllowed(h) \/ ListDevices(h) \/ Send(h)
    PROVE  Plain /\ UNCHANGED <<dev, prefs, req>> /\ Observe(wish)
<1>0. wish \in WishType /\ job[h] \in Job \cup {Null}
  BY DEF ClientsTypeOK, WishType, DevType, PrefsType
<1> USE DEF Handle, At, Job, ClientsTypeOK, Plain, DevType, PrefsType
<1>1. CASE \E u \in User : HandleInsightCreated(h, u)
  BY <1>0, <1>1 DEF HandleInsightCreated
<1>2. CASE PushAllowed(h)
  BY <1>0, <1>2 DEF PushAllowed
<1>3. CASE ListDevices(h)
  <2>1. {d \in ListActiveByUser(job[h].user) : ShouldPush(dev[d])} \subseteq Device
    BY DEF ListActiveByUser
  <2> QED
    BY <1>0, <1>3, <2>1 DEF ListDevices
<1>4. CASE Send(h)
  BY <1>0, <1>4 DEF Send
<1> QED
  BY <1>1, <1>2, <1>3, <1>4

LEMMA FailKeepsTypes ==
    ASSUME ClientsTypeOK, Fail
    PROVE  Plain /\ UNCHANGED <<dev, prefs>> /\ Observe(wish)
<1>0. wish \in WishType
  BY DEF ClientsTypeOK, WishType, DevType, PrefsType
<1>1. CASE \E r \in Request :
            /\ req[r] # Null /\ req' = [req EXCEPT ![r] = Null]
            /\ UNCHANGED <<dev, prefs, keys, job, served>> /\ Observe(wish)
  BY <1>0, <1>1 DEF Fail, ClientsTypeOK, Plain, DevType, PrefsType
<1>2. ASSUME NEW h \in Handler,
            \/ At(h, "prefs") /\ Handle(h, [job[h] EXCEPT !.at = "list"])
            \/ At(h, "list") /\ Handle(h, [job[h] EXCEPT !.at = "done"])
            \/ /\ At(h, "send")
               /\ \E d \in job[h].left : Handle(h, [job[h] EXCEPT !.left = @ \ {d}])
      PROVE  Plain /\ UNCHANGED <<dev, prefs>> /\ Observe(wish)
  <2>1. job[h] \in Job /\ faults' \in Nat /\ sent' = sent
    BY <1>2 DEF Fail, At, ClientsTypeOK
  <2>2. PICK next \in Job : Handle(h, next)
    BY <1>2, <2>1 DEF Job
  <2> QED
    BY <1>0, <2>1, <2>2 DEF Handle, ClientsTypeOK, Plain, DevType, PrefsType
<1> QED
  BY <1>1, <1>2 DEF Fail

(* The rest of TypeInv. *)
LEMMA StepTypes ==
    ASSUME TypeInv, [Next]_vars
    PROVE  TypeInv'
<1> USE DEF TypeInv
<1>0. CASE UNCHANGED vars
  BY <1>0 DEF vars, ClientsTypeOK
<1>1. ASSUME NEW r \in Request, NEW u \in User,
             \/ \E d \in Device : Register(r, u, d) \/ UpdatePushToken(r, u, d)
             \/ GetPreferences(r, u) \/ CreateKey(r, u)
      PROVE  TypeInv'
  <2>1. Plain /\ rows' = rows /\ Observe(wish)
    BY <1>1, RequestsKeepTypes
  <2>2. ASSUME NEW s \in Request, req'[s] # Null, req'[s].op = "prefs"
        PROVE  prefs'[req'[s].user] # Null
    <3>1. prefs' = prefs
      BY <2>1 DEF rows
    <3>2. CASE s # r
      BY <1>1, <2>2, <3>1, <3>2
      DEF Register, UpdatePushToken, GetPreferences, CreateKey, Arrive, ClientsTypeOK
    <3>3. CASE s = r
      <4>1. CASE GetPreferences(r, u)
        <5>1. PICK want \in Change \cup {Null} :
                IF prefs[u] = Null
                THEN Arrive(r, Pending("default prefs", u, Null, Null, want))
                ELSE Arrive(r, Pending("prefs", u, Null, prefs[u], want))
          BY <4>1 DEF GetPreferences
        <5>2. CASE prefs[u] = Null
          <6>1. req'[r].op = "default prefs"
            BY <5>1, <5>2, Arrived
          <6> QED
            BY <2>2, <3>3, <6>1
        <5>3. CASE prefs[u] # Null
          <6>1. req'[r].user = u
            BY <5>1, <5>3, Arrived
          <6> QED
            BY <3>1, <3>3, <5>3, <6>1
        <5> QED
          BY <5>2, <5>3
      <4>2. ASSUME NEW d \in Device, Register(r, u, d) \/ UpdatePushToken(r, u, d)
            PROVE  req'[r].op # "prefs"
        <5>1. CASE Register(r, u, d)
          <6>1. req'[r].op = "register"
            BY <5>1, Arrived DEF Register
          <6> QED
            BY <6>1
        <5>2. CASE UpdatePushToken(r, u, d)
          <6>1. req'[r].op = "token"
            BY <5>2, Arrived DEF UpdatePushToken
          <6> QED
            BY <6>1
        <5> QED
          BY <4>2, <5>1, <5>2
      <4>3. CASE CreateKey(r, u)
        <5>1. req'[r].op = "create key"
          BY <4>3, Arrived DEF CreateKey
        <5> QED
          BY <2>2, <3>3, <5>1
      <4> QED
        BY <1>1, <2>2, <3>3, <4>1, <4>2, <4>3
    <3> QED
      BY <3>2, <3>3
  <2> QED
    BY <2>1, <2>2, PlainTypes DEF rows, Observe
<1>2. ASSUME NEW r \in Request,
             \/ RegisterSave(r) \/ TokenSave(r) \/ InsertKey(r)
             \/ CreateDefaultPreferences(r) \/ UpdatePreferences(r)
      PROVE  TypeInv'
  <2>1. Plain /\ ClientsTypeOK'
    BY <1>2, SavesKeepTypes, PlainTypes
  <2>2. ASSUME NEW u \in User
        PROVE  /\ prefs[u] # Null => prefs'[u] # Null
               /\ prefs'[u] # Null => wish'.prefs[u] # Null
    <3>0. wish \in WishType /\ req[r] \in Req \cup {Null} /\ DefaultPrefs \in PrefsRow
      BY DEF ClientsTypeOK, WishType, DevType, PrefsType, DefaultPrefs, PrefsRow
    <3>1. CASE RegisterSave(r) \/ TokenSave(r) \/ InsertKey(r)
      <4>1. prefs' = prefs /\ wish'.prefs = wish.prefs
        BY <3>0, <3>1 DEF RegisterSave, Registered, TokenSave, InsertKey, Observe, WishType
      <4> QED
        BY <4>1
    <3>2. CASE CreateDefaultPreferences(r)
      <4> DEFINE v == req[r].user
                 want == IF wish.prefs[v] = Null THEN DefaultPrefs ELSE wish.prefs[v]
      <4>1. CASE prefs[v] # Null
        BY <3>2, <4>1 DEF CreateDefaultPreferences, Observe
      <4>2. CASE prefs[v] = Null
        <5>1. prefs' = [prefs EXCEPT ![v] = DefaultPrefs] /\ v \in User
          BY <3>0, <3>2, <4>2, ReqFields DEF CreateDefaultPreferences
        <5>2. wish' = [wish EXCEPT !.prefs[v] = want]
          BY <3>2, <4>2 DEF CreateDefaultPreferences, Observe
        <5>3. want # Null
          BY <3>0, NullAssumption
        <5> HIDE DEF want
        <5> QED
          BY <3>0, <5>1, <5>2, <5>3, NullAssumption DEF ClientsTypeOK, WishType, PrefsType
      <4> QED
        BY <4>1, <4>2
    <3>3. CASE UpdatePreferences(r)
      <4> DEFINE v == req[r].user
      <4>1. /\ v \in User /\ req[r].copy \in PrefsRow /\ req[r].want \in Change
        BY <3>0, <3>3, ReqFields DEF UpdatePreferences
      <4>2. wish.prefs[v] \in PrefsRow
        BY <3>0, <3>3, <4>1 DEF UpdatePreferences, WishType, PrefsType
      <4>3. /\ Changed(req[r].copy, req[r].want) \in PrefsRow
            /\ Changed(wish.prefs[v], req[r].want) \in PrefsRow
        BY <4>1, <4>2, ChangedIsPrefs
      <4>4. /\ prefs' = [prefs EXCEPT ![v] = Changed(req[r].copy, req[r].want)]
            /\ wish' = [wish EXCEPT !.prefs[v] = Changed(wish.prefs[v], req[r].want)]
        BY <3>3 DEF UpdatePreferences, Observe
      <4> QED
        BY <3>0, <4>1, <4>3, <4>4, NullAssumption DEF ClientsTypeOK, WishType, PrefsType
    <3> QED
      BY <1>2, <3>1, <3>2, <3>3
  <2>3. ASSUME NEW s \in Request, req'[s] # Null, req'[s].op = "prefs"
        PROVE  prefs'[req'[s].user] # Null
    <3>1. req[r] \in Req \cup {Null} /\ DefaultPrefs \in PrefsRow
      BY DEF ClientsTypeOK, DefaultPrefs, PrefsRow
    <3>2. CASE req'[s] = req[s]
      <4>1. req[s].user \in User
        BY <2>3, <3>2, ReqFields DEF ClientsTypeOK
      <4> QED
        BY <2>2, <2>3, <3>2, <4>1
    <3>3. CASE req'[s] # req[s]
      <4>1. /\ CreateDefaultPreferences(r) /\ s = r /\ prefs[req[r].user] = Null
            /\ req' = [req EXCEPT ![r] = Pending("prefs", req[r].user, Null, DefaultPrefs,
                                                 req[r].want)]
        BY <1>2, <2>3, <3>3
        DEF RegisterSave, Registered, TokenSave, InsertKey, CreateDefaultPreferences,
            UpdatePreferences, End, ClientsTypeOK
      <4>2. req'[s].user = req[r].user /\ req[r].user \in User
        BY <3>1, <4>1, ReqFields DEF Pending, CreateDefaultPreferences, ClientsTypeOK
      <4>3. prefs'[req[r].user] = DefaultPrefs
        BY <4>1, <4>2 DEF CreateDefaultPreferences, ClientsTypeOK
      <4> QED
        BY <3>1, <4>2, <4>3, NullAssumption
    <3> QED
      BY <3>2, <3>3
  <2> QED
    BY <2>1, <2>2, <2>3
<1>3. ASSUME NEW u \in User, Revoke(u) \/ \E d \in Device : Deregister(u, d)
      PROVE  TypeInv'
  BY <1>3, UpdatesKeepTypes, PlainTypes
<1>4. ASSUME NEW h \in Handler,
             \/ \E u \in User : HandleInsightCreated(h, u)
             \/ PushAllowed(h) \/ ListDevices(h) \/ Send(h)
      PROVE  TypeInv'
  BY <1>4, HandlersKeepTypes, PlainTypes DEF Observe
<1>5. CASE Fail
  <2>1. Plain /\ UNCHANGED <<dev, prefs>> /\ Observe(wish) /\ ClientsTypeOK'
    BY <1>5, FailKeepsTypes, PlainTypes
  <2>2. \A s \in Request : req'[s] = Null \/ req'[s] = req[s]
    BY <1>5 DEF Fail, Handle, ClientsTypeOK
  <2> QED
    BY <2>1, <2>2 DEF Observe
<1> QED
  BY <1>0, <1>1, <1>2, <1>3, <1>4, <1>5 DEF Next

(* Theorem: the types hold in every reachable state. *)
THEOREM TypesAreKept == Spec => []ClientsTypeOK
<1>1. TypeInv => ClientsTypeOK
  BY DEF TypeInv
<1> QED
  BY <1>1, InitTypes, StepTypes, PTL DEF Spec

LEMMA TypeInvHolds == Spec => []TypeInv
BY InitTypes, StepTypes, PTL DEF Spec

-----------------------------------------------------------------------------
(* API keys *)

(* A creation is counted from its check to its insert: as many keys as are  *)
(* there and on their way, at most one less than the limit allows when the *)
(* last of them checked, and those it met on the way.                      *)
KeysInv ==
    \A u \in User :
        keys[u] + Cardinality(Creating(req, u)) <= MaxKeysPerUser - 1 + together[u]

(* The history never forgets. *)
LEMMA TogetherGrows ==
    ASSUME ClientsTypeOK, NEW w, Observe(w), NEW u \in User
    PROVE  /\ together'[u] \in Nat /\ together'[u] >= together[u]
           /\ together'[u] >= Cardinality(Creating(req', u))
BY CreatingFinite DEF Observe, ClientsTypeOK

(* Requests that end or turn into others leave the invariant. *)
LEMMA FewerCreations ==
    ASSUME ClientsTypeOK, KeysInv, NEW w, Observe(w), NEW u \in User,
           keys'[u] \in Nat, keys'[u] <= keys[u], Creating(req', u) \subseteq Creating(req, u)
    PROVE  keys'[u] + Cardinality(Creating(req', u)) <= MaxKeysPerUser - 1 + together'[u]
<1>1. Cardinality(Creating(req', u)) <= Cardinality(Creating(req, u))
  BY CreatingFinite, FS_Subset
<1>2. /\ Cardinality(Creating(req', u)) \in Nat /\ Cardinality(Creating(req, u)) \in Nat
      /\ together'[u] \in Nat /\ together'[u] >= together[u]
      /\ together[u] \in Nat /\ keys[u] \in Nat
  BY CreatingFinite, TogetherGrows DEF ClientsTypeOK
<1>3. keys[u] + Cardinality(Creating(req, u)) <= MaxKeysPerUser - 1 + together[u]
  BY DEF KeysInv
<1> QED
  BY <1>1, <1>2, <1>3, ClientsAssumption

LEMMA InitKeys == Init => KeysInv
<1> SUFFICES ASSUME Init PROVE KeysInv
  OBVIOUS
<1>1. ASSUME NEW u \in User
      PROVE  keys[u] + Cardinality(Creating(req, u)) <= MaxKeysPerUser - 1 + together[u]
  <2>1. Creating(req, u) = {}
    BY DEF Init, Creating
  <2>2. Cardinality(Creating(req, u)) = 0
    BY <2>1, FS_EmptySet
  <2>3. keys[u] = 0 /\ together[u] = 1
    BY DEF Init
  <2> QED
    BY <2>2, <2>3, ClientsAssumption
<1> QED
  BY <1>1 DEF KeysInv

LEMMA StepKeys ==
    ASSUME TypeInv, TypeInv', KeysInv, [Next]_vars
    PROVE  KeysInv'
<1> SUFFICES ASSUME NEW u \in User
             PROVE  keys'[u] + Cardinality(Creating(req', u)) <= MaxKeysPerUser - 1 + together'[u]
  BY DEF KeysInv, Creating
<1>0. ClientsTypeOK /\ ClientsTypeOK' /\ keys'[u] \in Nat /\ keys[u] \in Nat
  BY DEF TypeInv, ClientsTypeOK
<1>1. CASE UNCHANGED vars
  BY <1>1 DEF KeysInv, vars, Creating
<1>2. ASSUME NEW r \in Request, NEW v \in User, CreateKey(r, v)
      PROVE  keys'[u] + Cardinality(Creating(req', u)) <= MaxKeysPerUser - 1 + together'[u]
  <2>0. Arrive(r, Pending("create key", v, Null, Null, Null))
    BY <1>2 DEF CreateKey
  <2>1. keys' = keys /\ Observe(wish) /\ keys[v] < MaxKeysPerUser
    BY <1>2 DEF CreateKey, rows
  <2>2. CASE u = v
    <3>1. /\ Cardinality(Creating(req', u)) \in Nat
          /\ together'[u] \in Nat /\ together'[u] >= Cardinality(Creating(req', u))
      BY <1>0, <2>1, CreatingFinite, TogetherGrows
    <3> QED
      BY <1>0, <2>1, <2>2, <3>1, ClientsAssumption
  <2>3. CASE u # v
    <3>0. ClientsTypeOK
      BY <1>0
    <3>1. /\ req'[r].user = v
          /\ \A s \in Request \ {r} : req'[s] = req[s]
      <4>1. req'[r].user = v
        BY <2>0, <3>0 DEF Arrive, Pending, ClientsTypeOK
      <4>2. \A s \in Request \ {r} : req'[s] = req[s]
        BY <2>0, <3>0 DEF Arrive, ClientsTypeOK
      <4> QED
        BY <4>1, <4>2
    <3>2. Creating(req', u) \subseteq Creating(req, u)
      BY <2>3, <3>1 DEF Creating
    <3> QED
      BY <1>0, <2>1, <3>2, FewerCreations
  <2> QED
    BY <2>2, <2>3
<1>3. ASSUME NEW r \in Request, InsertKey(r)
      PROVE  keys'[u] + Cardinality(Creating(req', u)) <= MaxKeysPerUser - 1 + together'[u]
  <2>1. /\ req[r] # Null /\ req[r].op = "create key" /\ req' = [req EXCEPT ![r] = Null]
        /\ keys' = [keys EXCEPT ![req[r].user] = keys[req[r].user] + 1] /\ Observe(wish)
    BY <1>3 DEF InsertKey, End
  <2>2. CASE u = req[r].user
    <3>1. r \in Creating(req, u)
      BY <2>1, <2>2 DEF Creating
    <3>2. Creating(req', u) = Creating(req, u) \ {r}
      BY <1>0, <2>1 DEF Creating, ClientsTypeOK
    <3>3. Cardinality(Creating(req', u)) = Cardinality(Creating(req, u)) - 1
      BY <3>1, <3>2, CreatingFinite, FS_RemoveElement
    <3>4. keys'[u] = keys[u] + 1
      BY <1>0, <2>1, <2>2 DEF ClientsTypeOK
    <3>5. /\ Cardinality(Creating(req, u)) \in Nat /\ together[u] \in Nat
          /\ together'[u] \in Nat /\ together'[u] >= together[u]
      BY <1>0, <2>1, CreatingFinite, TogetherGrows DEF ClientsTypeOK
    <3>6. keys[u] + Cardinality(Creating(req, u)) <= MaxKeysPerUser - 1 + together[u]
      BY DEF KeysInv
    <3> QED
      BY <1>0, <3>3, <3>4, <3>5, <3>6, ClientsAssumption
  <2>3. CASE u # req[r].user
    <3>1. Creating(req', u) \subseteq Creating(req, u) /\ keys'[u] = keys[u]
      BY <1>0, <2>1, <2>3 DEF Creating, ClientsTypeOK
    <3>2. keys'[u] <= keys[u]
      BY <1>0, <3>1
    <3>3. Observe(wish)
      BY <2>1
    <3> QED
      BY <1>0, <3>1, <3>2, <3>3, FewerCreations
  <2> QED
    BY <2>2, <2>3
<1>4. ASSUME NEW r \in Request, NEW v \in User,
             \/ \E d \in Device : Register(r, v, d) \/ UpdatePushToken(r, v, d)
             \/ GetPreferences(r, v)
      PROVE  keys'[u] + Cardinality(Creating(req', u)) <= MaxKeysPerUser - 1 + together'[u]
  <2>1. keys' = keys /\ Observe(wish)
    BY <1>4 DEF Register, UpdatePushToken, GetPreferences, rows
  <2>2. req'[r].op # "create key" /\ \A s \in Request \ {r} : req'[s] = req[s]
    <3>1. ASSUME NEW d \in Device, Register(r, v, d)
          PROVE  req'[r].op = "register" /\ \A s \in Request \ {r} : req'[s] = req[s]
      BY <1>0, <3>1, Arrived DEF Register
    <3>2. ASSUME NEW d \in Device, UpdatePushToken(r, v, d)
          PROVE  req'[r].op = "token" /\ \A s \in Request \ {r} : req'[s] = req[s]
      BY <1>0, <3>2, Arrived DEF UpdatePushToken
    <3>3. ASSUME GetPreferences(r, v)
          PROVE  /\ req'[r].op \in {"default prefs", "prefs"}
                 /\ \A s \in Request \ {r} : req'[s] = req[s]
      <4>1. PICK want \in Change \cup {Null} :
              IF prefs[v] = Null
              THEN Arrive(r, Pending("default prefs", v, Null, Null, want))
              ELSE Arrive(r, Pending("prefs", v, Null, prefs[v], want))
        BY <3>3 DEF GetPreferences
      <4>2. CASE prefs[v] = Null
        BY <1>0, <4>1, <4>2, Arrived
      <4>3. CASE prefs[v] # Null
        BY <1>0, <4>1, <4>3, Arrived
      <4> QED
        BY <4>2, <4>3
    <3> QED
      BY <1>4, <3>1, <3>2, <3>3
  <2>3. Creating(req', u) \subseteq Creating(req, u)
    BY <2>2 DEF Creating
  <2> QED
    BY <1>0, <2>1, <2>3, FewerCreations
<1>5. ASSUME NEW r \in Request,
             \/ RegisterSave(r) \/ TokenSave(r)
             \/ CreateDefaultPreferences(r) \/ UpdatePreferences(r)
      PROVE  keys'[u] + Cardinality(Creating(req', u)) <= MaxKeysPerUser - 1 + together'[u]
  <2>1. keys' = keys /\ \E w : Observe(w)
    BY <1>5 DEF RegisterSave, Registered, TokenSave, CreateDefaultPreferences, UpdatePreferences
  <2>2. \A s \in Request : req'[s] = req[s] \/ req'[s] = Null \/ req'[s].op = "prefs"
    <3>1. CASE ~CreateDefaultPreferences(r)
      BY <1>0, <1>5, <3>1 DEF RegisterSave, Registered, TokenSave, UpdatePreferences, End,
         ClientsTypeOK
    <3>2. CASE CreateDefaultPreferences(r)
      <4>1. PICK q : /\ req' = [req EXCEPT ![r] = q]
                     /\ q = Null \/ q.op = "prefs"
        BY <3>2 DEF CreateDefaultPreferences, End, Pending
      <4> QED
        BY <1>0, <4>1 DEF ClientsTypeOK
    <3> QED
      BY <3>1, <3>2
  <2>3. Creating(req', u) \subseteq Creating(req, u)
    BY <2>2 DEF Creating
  <2> QED
    BY <1>0, <2>1, <2>3, FewerCreations
<1>6. ASSUME NEW v \in User, Revoke(v) \/ \E d \in Device : Deregister(v, d)
      PROVE  keys'[u] + Cardinality(Creating(req', u)) <= MaxKeysPerUser - 1 + together'[u]
  <2>1. keys'[u] <= keys[u] /\ req' = req /\ \E w : Observe(w)
    <3>1. CASE Revoke(v)
      <4>1. keys \in [User -> Nat] /\ keys' = [keys EXCEPT ![v] = keys[v] - 1]
        BY <1>0, <3>1 DEF Revoke, ClientsTypeOK
      <4>2. keys'[u] <= keys[u]
        BY <4>1
      <4> QED
        BY <3>1, <4>2 DEF Revoke
    <3>2. CASE \E d \in Device : Deregister(v, d)
      BY <1>0, <3>2 DEF Deregister
    <3> QED
      BY <1>6, <3>1, <3>2
  <2> QED
    BY <1>0, <2>1, FewerCreations
<1>7. ASSUME NEW h \in Handler,
             \/ \E v \in User : HandleInsightCreated(h, v)
             \/ PushAllowed(h) \/ ListDevices(h) \/ Send(h)
      PROVE  keys'[u] + Cardinality(Creating(req', u)) <= MaxKeysPerUser - 1 + together'[u]
  <2>1. keys' = keys /\ req' = req /\ Observe(wish)
    BY <1>7 DEF HandleInsightCreated, PushAllowed, ListDevices, Send, Handle
  <2> QED
    BY <1>0, <2>1, FewerCreations
<1>8. CASE Fail
  <2>1. keys' = keys /\ Observe(wish)
    BY <1>8 DEF Fail, Handle
  <2>2. Creating(req', u) \subseteq Creating(req, u)
    BY <1>0, <1>8 DEF Fail, Handle, Creating, ClientsTypeOK
  <2> QED
    BY <1>0, <2>1, <2>2, FewerCreations
<1> QED
  BY <1>1, <1>2, <1>3, <1>4, <1>5, <1>6, <1>7, <1>8 DEF Next

(* Theorem: with any number of users and concurrent requests, a user has    *)
(* more keys than the limit by one less than the creations that overlapped *)
(* at most (api_key_service.go:31).                                        *)
THEOREM KeysAreLimited == Spec => []KeyLimit
<1>1. TypeInv /\ KeysInv => KeyLimit
  <2> SUFFICES ASSUME TypeInv, KeysInv, NEW u \in User
               PROVE  keys[u] <= MaxKeysPerUser + together[u] - 1
    BY DEF KeyLimit
  <2>1. /\ keys[u] \in Nat /\ together[u] \in Nat /\ Cardinality(Creating(req, u)) \in Nat
        /\ keys[u] + Cardinality(Creating(req, u)) <= MaxKeysPerUser - 1 + together[u]
    BY CreatingFinite DEF TypeInv, ClientsTypeOK, KeysInv
  <2> QED
    BY <2>1, ClientsAssumption
<1> QED
  BY <1>1, TypeInvHolds, InitKeys, StepKeys, PTL DEF Spec

-----------------------------------------------------------------------------
(* Saves of whole rows *)

(* No clash on a row means that one request at most has read it, and that   *)
(* the row is still what it read.                                          *)
Alone ==
    /\ \A d \in Device \ clash : \A r, s \in OnDevice(req, d) : r = s
    /\ \A u \in User \ clash : \A r, s \in OnPrefs(req, u) : r = s
DeviceOK(d) ==
    /\ dev[d] = wish.dev[d]
    /\ \A r \in OnDevice(req, d) :
         /\ req[r].copy = dev[d]
         /\ req[r].op = "token" => req[r].copy.owner = req[r].user
PrefsOK(u) ==
    /\ prefs[u] = wish.prefs[u]
    /\ \A r \in OnPrefs(req, u) :
         /\ req[r].op = "prefs" => req[r].copy = prefs[u]
         /\ req[r].op = "default prefs" => prefs[u] = Null
RowsInv ==
    /\ Alone
    /\ \A d \in Device \ clash : DeviceOK(d)
    /\ \A u \in User \ clash : PrefsOK(u)

LEMMA InitRows == Init => RowsInv
<1> SUFFICES ASSUME Init PROVE RowsInv
  OBVIOUS
<1>1. /\ \A d \in Device : OnDevice(req, d) = {} /\ dev[d] = wish.dev[d]
      /\ \A u \in User : OnPrefs(req, u) = {} /\ prefs[u] = wish.prefs[u]
  BY DEF Init, OnDevice, OnPrefs
<1> QED
  BY <1>1 DEF RowsInv, Alone, DeviceOK, PrefsOK

LEMMA StepObserves ==
    ASSUME Next
    PROVE  \E w : Observe(w)
BY DEF Next, Register, UpdatePushToken, GetPreferences, CreateKey, RegisterSave, Registered,
   TokenSave, InsertKey, CreateDefaultPreferences, UpdatePreferences, Revoke, Deregister,
   HandleInsightCreated, PushAllowed, ListDevices, Send, Fail, Handle

(* A row that nobody touches stays as it is. *)
LEMMA DeviceUntouched ==
    ASSUME NEW d \in Device, DeviceOK(d), dev'[d] = dev[d], wish'.dev[d] = wish.dev[d],
           \A s \in OnDevice(req', d) : req'[s] = req[s]
    PROVE  DeviceOK(d)'
BY DEF DeviceOK, OnDevice

LEMMA PrefsUntouched ==
    ASSUME NEW u \in User, PrefsOK(u), prefs'[u] = prefs[u], wish'.prefs[u] = wish.prefs[u],
           \A s \in OnPrefs(req', u) : req'[s] = req[s]
    PROVE  PrefsOK(u)'
BY DEF PrefsOK, OnPrefs

(* The row of a device through each step. *)
LEMMA StepDevice ==
    ASSUME TypeInv, TypeInv', Next, NEW d \in Device, DeviceOK(d),
           \A r, s \in OnDevice(req, d) : r = s,
           \A r, s \in OnDevice(req', d) : r = s,
           OnDevice(req', d) # {} => dev'[d] = dev[d]
    PROVE  DeviceOK(d)'
<1>0. /\ ClientsTypeOK /\ ClientsTypeOK' /\ wish \in WishType
      /\ \A s \in Request : req[s] \in Req \cup {Null}
  BY DEF TypeInv, ClientsTypeOK, WishType, DevType, PrefsType
<1>1. ASSUME NEW r \in Request, NEW u \in User, NEW e \in Device,
             Register(r, u, e) \/ UpdatePushToken(r, u, e)
      PROVE  DeviceOK(d)'
  <2>1. dev' = dev /\ wish' = wish
    BY <1>1 DEF Register, UpdatePushToken, rows, Observe
  <2>2. /\ \A s \in Request \ {r} : req'[s] = req[s]
        /\ req'[r].dev = e /\ req'[r].copy = dev[e]
        /\ req'[r].op = "token" => req'[r].copy.owner = req'[r].user
    <3>1. CASE Register(r, u, e)
      <4>1. PICK want : Arrive(r, Pending("register", u, e, dev[e], want))
        BY <3>1 DEF Register
      <4> QED
        BY <1>0, <4>1 DEF Arrive, Pending, ClientsTypeOK
    <3>2. CASE UpdatePushToken(r, u, e)
      <4>1. Arrive(r, Pending("token", u, e, dev[e], Null)) /\ dev[e].owner = u
        BY <3>2 DEF UpdatePushToken
      <4> QED
        BY <1>0, <4>1 DEF Arrive, Pending, ClientsTypeOK
    <3> QED
      BY <1>1, <3>1, <3>2
  <2> QED
    BY <2>1, <2>2 DEF DeviceOK, OnDevice
<1>2. ASSUME NEW r \in Request, NEW u \in User, GetPreferences(r, u) \/ CreateKey(r, u)
      PROVE  DeviceOK(d)'
  <2>1. dev' = dev /\ wish' = wish
    BY <1>2 DEF GetPreferences, CreateKey, rows, Observe
  <2>2. /\ \A s \in Request \ {r} : req'[s] = req[s]
        /\ req'[r].dev = Null
    <3>1. \E op, copy, want : Arrive(r, Pending(op, u, Null, copy, want))
      BY <1>2 DEF GetPreferences, CreateKey
    <3> PICK op, copy, want : Arrive(r, Pending(op, u, Null, copy, want))
      BY <3>1
    <3> QED
      BY <1>0 DEF Arrive, Pending, ClientsTypeOK
  <2>3. \A s \in OnDevice(req', d) : req'[s] = req[s]
    BY <2>2, NullAssumption DEF OnDevice
  <2> QED
    BY <2>1, <2>3, DeviceUntouched
<1>3. ASSUME NEW r \in Request, RegisterSave(r) \/ TokenSave(r)
      PROVE  DeviceOK(d)'
  <2> DEFINE e == req[r].dev
  <2>1. /\ req[r] \in Req /\ e \in Device /\ req' = [req EXCEPT ![r] = Null]
    BY <1>0, <1>3, ReqFields DEF RegisterSave, Registered, TokenSave, End
  <2>2. \A s \in OnDevice(req', d) : req'[s] = req[s] /\ s # r /\ s \in OnDevice(req, d)
    BY <1>0, <2>1 DEF OnDevice, ClientsTypeOK
  <2>3. CASE e # d
    <3>1. dev'[d] = dev[d] /\ wish'.dev[d] = wish.dev[d]
      BY <1>0, <1>3, <2>1, <2>3
      DEF RegisterSave, Registered, TokenSave, Observe, ClientsTypeOK, WishType, DevType
    <3> QED
      BY <2>2, <3>1, DeviceUntouched
  <2>4. CASE e = d
    <3>1. /\ r \in OnDevice(req, d) /\ req[r].copy = dev[d]
          /\ req[r].op = "token" => req[r].copy.owner = req[r].user
          /\ dev[d] = wish.dev[d]
      BY <2>1, <2>4, NullAssumption DEF OnDevice, DeviceOK
    <3>2. OnDevice(req', d) = {}
      BY <2>2, <3>1
    <3>3. CASE RegisterSave(r)
      <4>1. dev' = [dev EXCEPT ![d] = req[r].want] /\ wish' = [wish EXCEPT !.dev[d] = req[r].want]
        BY <2>4, <3>1, <3>3 DEF RegisterSave, Registered, Observe
      <4> QED
        BY <1>0, <3>2, <4>1 DEF DeviceOK, ClientsTypeOK, WishType, DevType
    <3>4. CASE TokenSave(r)
      <4>1. req[r].op = "token" /\ wish.dev[d] # Null /\ wish.dev[d].owner = req[r].user
        BY <2>1, <3>1, <3>4, ReqFields, NullAssumption DEF TokenSave
      <4>2. /\ dev' = [dev EXCEPT ![d] = [dev[d] EXCEPT !.token = TRUE]]
            /\ wish' = [wish EXCEPT !.dev[d] = [wish.dev[d] EXCEPT !.token = TRUE]]
        BY <2>4, <3>1, <3>4, <4>1 DEF TokenSave, Observe
      <4> QED
        BY <1>0, <3>1, <3>2, <4>2 DEF DeviceOK, ClientsTypeOK, WishType, DevType
    <3> QED
      BY <1>3, <3>3, <3>4
  <2> QED
    BY <2>3, <2>4
<1>4. ASSUME NEW r \in Request,
             InsertKey(r) \/ CreateDefaultPreferences(r) \/ UpdatePreferences(r)
      PROVE  DeviceOK(d)'
  <2>1. dev' = dev /\ wish'.dev = wish.dev
    BY <1>0, <1>4
    DEF InsertKey, CreateDefaultPreferences, UpdatePreferences, Observe, WishType
  <2>2. \A s \in OnDevice(req', d) : req'[s] = req[s]
    <3>1. PICK q : /\ req' = [req EXCEPT ![r] = q]
                   /\ q = Null \/ q.dev = Null
      BY <1>4 DEF InsertKey, CreateDefaultPreferences, UpdatePreferences, End, Pending
    <3> QED
      BY <1>0, <3>1, NullAssumption DEF OnDevice, ClientsTypeOK
  <2> QED
    BY <2>1, <2>2, DeviceUntouched
<1>5. ASSUME NEW u \in User, Revoke(u)
      PROVE  DeviceOK(d)'
  <2>1. dev' = dev /\ wish' = wish /\ req' = req
    BY <1>5 DEF Revoke, Observe
  <2> QED
    BY <2>1, DeviceUntouched
<1>6. ASSUME NEW u \in User, NEW e \in Device, Deregister(u, e)
      PROVE  DeviceOK(d)'
  <2>1. /\ req' = req /\ dev' = [dev EXCEPT ![e] = [dev[e] EXCEPT !.active = FALSE]]
        /\ wish' = [wish EXCEPT !.dev[e] =
                      IF wish.dev[e] # Null /\ wish.dev[e].owner = u
                      THEN [wish.dev[e] EXCEPT !.active = FALSE] ELSE wish.dev[e]]
        /\ dev[e] # Null /\ dev[e].owner = u
    BY <1>6 DEF Deregister, Observe
  <2>2. CASE d # e
    BY <1>0, <2>1, <2>2, DeviceUntouched DEF ClientsTypeOK, WishType, DevType
  <2>3. CASE d = e
    <3>1. dev[d] = wish.dev[d]
      BY DEF DeviceOK
    <3>2. /\ dev'[d] = [dev[d] EXCEPT !.active = FALSE]
          /\ wish'.dev[d] = [dev[d] EXCEPT !.active = FALSE]
      BY <1>0, <2>1, <2>3, <3>1 DEF ClientsTypeOK, WishType, DevType
    <3> QED
      BY <2>1, <3>2 DEF DeviceOK
  <2> QED
    BY <2>2, <2>3
<1>7. ASSUME NEW h \in Handler,
             \/ \E v \in User : HandleInsightCreated(h, v)
             \/ PushAllowed(h) \/ ListDevices(h) \/ Send(h)
      PROVE  DeviceOK(d)'
  <2>1. dev' = dev /\ wish' = wish /\ req' = req
    BY <1>7 DEF HandleInsightCreated, PushAllowed, ListDevices, Send, Handle, Observe
  <2> QED
    BY <2>1, DeviceUntouched
<1>8. CASE Fail
  <2>1. dev' = dev /\ wish' = wish
    BY <1>8 DEF Fail, Handle, Observe
  <2>2. \A s \in Request : req'[s] = Null \/ req'[s] = req[s]
    BY <1>0, <1>8 DEF Fail, Handle, ClientsTypeOK
  <2>3. \A s \in OnDevice(req', d) : req'[s] = req[s]
    BY <2>2 DEF OnDevice
  <2> QED
    BY <2>1, <2>3, DeviceUntouched
<1> QED
  BY <1>1, <1>2, <1>3, <1>4, <1>5, <1>6, <1>7, <1>8 DEF Next

(* The preferences of a user through each step. *)
LEMMA StepPrefs ==
    ASSUME TypeInv, TypeInv', Next, NEW u \in User, PrefsOK(u),
           \A r, s \in OnPrefs(req, u) : r = s,
           \A r, s \in OnPrefs(req', u) : r = s
    PROVE  PrefsOK(u)'
<1>0. /\ ClientsTypeOK /\ ClientsTypeOK' /\ wish \in WishType
      /\ \A s \in Request : req[s] \in Req \cup {Null}
  BY DEF TypeInv, ClientsTypeOK, WishType, DevType, PrefsType
<1>1. ASSUME NEW r \in Request, NEW v \in User, GetPreferences(r, v)
      PROVE  PrefsOK(u)'
  <2>1. prefs' = prefs /\ wish' = wish
    BY <1>1 DEF GetPreferences, rows, Observe
  <2>2. /\ \A s \in Request \ {r} : req'[s] = req[s]
        /\ req'[r].user = v
        /\ req'[r].op = "prefs" => req'[r].copy = prefs[v]
        /\ req'[r].op = "default prefs" => prefs[v] = Null
    <3>1. CASE prefs[v] = Null
      <4>1. PICK want : Arrive(r, Pending("default prefs", v, Null, Null, want))
        BY <1>1, <3>1 DEF GetPreferences
      <4> QED
        BY <1>0, <3>1, <4>1 DEF Arrive, Pending, ClientsTypeOK
    <3>2. CASE prefs[v] # Null
      <4>1. PICK want : Arrive(r, Pending("prefs", v, Null, prefs[v], want))
        BY <1>1, <3>2 DEF GetPreferences
      <4> QED
        BY <1>0, <4>1 DEF Arrive, Pending, ClientsTypeOK
    <3> QED
      BY <3>1, <3>2
  <2> QED
    BY <2>1, <2>2 DEF PrefsOK, OnPrefs
<1>2. ASSUME NEW r \in Request, NEW v \in User,
             \/ \E d \in Device : Register(r, v, d) \/ UpdatePushToken(r, v, d)
             \/ CreateKey(r, v)
      PROVE  PrefsOK(u)'
  <2>1. prefs' = prefs /\ wish' = wish
    BY <1>2 DEF Register, UpdatePushToken, CreateKey, rows, Observe
  <2>2. ASSUME NEW op \in {"register", "token", "create key"}, NEW d, NEW copy, NEW want,
               Arrive(r, Pending(op, v, d, copy, want))
        PROVE  \A s \in OnPrefs(req', u) : req'[s] = req[s]
    <3>1. req'[r].op = op /\ \A s \in Request \ {r} : req'[s] = req[s]
      BY <1>0, <2>2, Arrived
    <3> QED
      BY <3>1 DEF OnPrefs
  <2>3. CASE \E d \in Device : Register(r, v, d)
    <3>1. PICK d \in Device : Register(r, v, d)
      BY <2>3
    <3>2. PICK want : Arrive(r, Pending("register", v, d, dev[d], want))
      BY <3>1 DEF Register
    <3> QED
      BY <2>1, <2>2, <3>2, PrefsUntouched
  <2>4. CASE \E d \in Device : UpdatePushToken(r, v, d)
    <3>1. PICK d \in Device : UpdatePushToken(r, v, d)
      BY <2>4
    <3>2. Arrive(r, Pending("token", v, d, dev[d], Null))
      BY <3>1 DEF UpdatePushToken
    <3> QED
      BY <2>1, <2>2, <3>2, PrefsUntouched
  <2>5. CASE CreateKey(r, v)
    <3>1. Arrive(r, Pending("create key", v, Null, Null, Null))
      BY <2>5 DEF CreateKey
    <3> QED
      BY <2>1, <2>2, <3>1, PrefsUntouched
  <2> QED
    BY <1>2, <2>3, <2>4, <2>5
<1>3. ASSUME NEW r \in Request, RegisterSave(r) \/ TokenSave(r) \/ InsertKey(r)
      PROVE  PrefsOK(u)'
  <2>1. /\ prefs' = prefs /\ wish'.prefs = wish.prefs /\ req' = [req EXCEPT ![r] = Null]
    BY <1>0, <1>3
    DEF RegisterSave, Registered, TokenSave, InsertKey, End, Observe, WishType
  <2>2. \A s \in OnPrefs(req', u) : req'[s] = req[s]
    BY <1>0, <2>1 DEF OnPrefs, ClientsTypeOK
  <2> QED
    BY <2>1, <2>2, PrefsUntouched
<1>4. ASSUME NEW r \in Request, CreateDefaultPreferences(r)
      PROVE  PrefsOK(u)'
  <2> DEFINE v == req[r].user
             rest == IF req[r].want = Null THEN Null
                     ELSE Pending("prefs", v, Null, DefaultPrefs, req[r].want)
             want == IF wish.prefs[v] = Null THEN DefaultPrefs ELSE wish.prefs[v]
  <2>0. v \in User /\ req[r] # Null /\ req[r].op = "default prefs"
    BY <1>0, <1>4, ReqFields DEF CreateDefaultPreferences
  <2>1. CASE prefs[v] # Null
    <3>1. prefs' = prefs /\ wish' = wish /\ req' = [req EXCEPT ![r] = Null]
      BY <1>4, <2>1 DEF CreateDefaultPreferences, End, Observe
    <3>2. \A s \in OnPrefs(req', u) : req'[s] = req[s]
      BY <1>0, <3>1 DEF OnPrefs, ClientsTypeOK
    <3> QED
      BY <3>1, <3>2, PrefsUntouched
  <2>2. CASE prefs[v] = Null
    <3>1. /\ prefs' = [prefs EXCEPT ![v] = DefaultPrefs]
          /\ wish' = [wish EXCEPT !.prefs[v] = want]
          /\ req' = [req EXCEPT ![r] = rest]
      BY <1>4, <2>2 DEF CreateDefaultPreferences, Observe
    <3>2. CASE u # v
      <4>1. prefs'[u] = prefs[u] /\ wish'.prefs[u] = wish.prefs[u]
        BY <1>0, <2>0, <3>1, <3>2 DEF ClientsTypeOK, WishType, PrefsType
      <4>2. \A s \in OnPrefs(req', u) : req'[s] = req[s]
        BY <1>0, <3>1, <3>2 DEF OnPrefs, Pending, ClientsTypeOK
      <4> QED
        BY <4>1, <4>2, PrefsUntouched
    <3>3. CASE u = v
      <4>1. r \in OnPrefs(req, u) /\ wish.prefs[u] = Null
        BY <2>0, <2>2, <3>3 DEF OnPrefs, PrefsOK
      <4>2. prefs'[u] = DefaultPrefs /\ wish'.prefs[u] = DefaultPrefs
        BY <1>0, <3>1, <3>3, <4>1 DEF ClientsTypeOK, WishType, PrefsType
      <4>3. \A s \in OnPrefs(req', u) : s = r
        BY <1>0, <3>1, <4>1 DEF OnPrefs, ClientsTypeOK
      <4>4. r \in OnPrefs(req', u) => req'[r].op = "prefs" /\ req'[r].copy = DefaultPrefs
        BY <1>0, <3>1 DEF OnPrefs, Pending, ClientsTypeOK
      <4> QED
        BY <4>2, <4>3, <4>4 DEF PrefsOK
    <3> QED
      BY <3>2, <3>3
  <2> QED
    BY <2>1, <2>2
<1>5. ASSUME NEW r \in Request, UpdatePreferences(r)
      PROVE  PrefsOK(u)'
  <2> DEFINE v == req[r].user
  <2>1. /\ v \in User /\ req[r] # Null /\ req[r].op = "prefs" /\ req' = [req EXCEPT ![r] = Null]
        /\ prefs' = [prefs EXCEPT ![v] = Changed(req[r].copy, req[r].want)]
        /\ wish' = [wish EXCEPT !.prefs[v] = Changed(wish.prefs[v], req[r].want)]
    BY <1>0, <1>5, ReqFields DEF UpdatePreferences, End, Observe
  <2>2. \A s \in OnPrefs(req', u) : req'[s] = req[s] /\ s # r /\ s \in OnPrefs(req, u)
    BY <1>0, <2>1 DEF OnPrefs, ClientsTypeOK
  <2>3. CASE u # v
    <3>1. prefs'[u] = prefs[u] /\ wish'.prefs[u] = wish.prefs[u]
      BY <1>0, <2>1, <2>3 DEF ClientsTypeOK, WishType, PrefsType
    <3> QED
      BY <2>2, <3>1, PrefsUntouched
  <2>4. CASE u = v
    <3>1. r \in OnPrefs(req, u) /\ req[r].copy = wish.prefs[u]
      BY <2>1, <2>4 DEF OnPrefs, PrefsOK
    <3>2. OnPrefs(req', u) = {}
      BY <2>2, <3>1
    <3>3. prefs'[u] = wish'.prefs[u]
      BY <1>0, <2>1, <2>4, <3>1 DEF ClientsTypeOK, WishType, PrefsType
    <3> QED
      BY <3>2, <3>3 DEF PrefsOK
  <2> QED
    BY <2>3, <2>4
<1>6. ASSUME NEW v \in User, Revoke(v) \/ \E d \in Device : Deregister(v, d)
      PROVE  PrefsOK(u)'
  <2>1. prefs' = prefs /\ wish'.prefs = wish.prefs /\ req' = req
    BY <1>0, <1>6 DEF Revoke, Deregister, Observe, WishType
  <2> QED
    BY <2>1, PrefsUntouched
<1>7. ASSUME NEW h \in Handler,
             \/ \E v \in User : HandleInsightCreated(h, v)
             \/ PushAllowed(h) \/ ListDevices(h) \/ Send(h)
      PROVE  PrefsOK(u)'
  <2>1. prefs' = prefs /\ wish' = wish /\ req' = req
    BY <1>7 DEF HandleInsightCreated, PushAllowed, ListDevices, Send, Handle, Observe
  <2> QED
    BY <2>1, PrefsUntouched
<1>8. CASE Fail
  <2>1. prefs' = prefs /\ wish' = wish
    BY <1>8 DEF Fail, Handle, Observe
  <2>2. \A s \in Request : req'[s] = Null \/ req'[s] = req[s]
    BY <1>0, <1>8 DEF Fail, Handle, ClientsTypeOK
  <2>3. \A s \in OnPrefs(req', u) : req'[s] = req[s]
    BY <2>2 DEF OnPrefs
  <2> QED
    BY <2>1, <2>3, PrefsUntouched
<1> QED
  BY <1>1, <1>2, <1>3, <1>4, <1>5, <1>6, <1>7, <1>8 DEF Next

LEMMA StepRows ==
    ASSUME TypeInv, TypeInv', RowsInv, [Next]_vars
    PROVE  RowsInv'
<1>1. CASE UNCHANGED vars
  <2>1. dev' = dev /\ prefs' = prefs /\ wish' = wish /\ req' = req /\ clash' = clash
    BY <1>1 DEF vars
  <2>2. Alone'
    BY <2>1 DEF RowsInv, Alone, OnDevice, OnPrefs
  <2>3. \A d \in Device \ clash' : DeviceOK(d)'
    BY <2>1, DeviceUntouched DEF RowsInv
  <2>4. \A u \in User \ clash' : PrefsOK(u)'
    BY <2>1, PrefsUntouched DEF RowsInv
  <2> QED
    BY <2>2, <2>3, <2>4 DEF RowsInv
<1>2. CASE Next
  <2> PICK w : Observe(w)
    BY <1>2, StepObserves
  <2>1. clash \subseteq clash'
    BY NoClash
  <2>2. Alone'
    BY NoClash DEF Alone, OnDevice, OnPrefs
  <2>3. ASSUME NEW d \in Device \ clash'
        PROVE  DeviceOK(d)'
    <3>1. /\ DeviceOK(d) /\ \A r, s \in OnDevice(req, d) : r = s
          /\ \A r, s \in OnDevice(req', d) : r = s
          /\ OnDevice(req', d) # {} => dev'[d] = dev[d]
      BY <2>1, NoClash DEF RowsInv, Alone
    <3> QED
      BY <1>2, <3>1, StepDevice
  <2>4. ASSUME NEW u \in User \ clash'
        PROVE  PrefsOK(u)'
    <3>1. /\ PrefsOK(u) /\ \A r, s \in OnPrefs(req, u) : r = s
          /\ \A r, s \in OnPrefs(req', u) : r = s
      BY <2>1, NoClash DEF RowsInv, Alone
    <3> QED
      BY <1>2, <3>1, StepPrefs
  <2> QED
    BY <2>2, <2>3, <2>4 DEF RowsInv
<1> QED
  BY <1>1, <1>2

LEMMA RowsInvHolds == Spec => []RowsInv
BY TypeInvHolds, InitRows, StepRows, PTL DEF Spec

(* Theorem: requests lose what others have written to a row only when they  *)
(* overlapped on it (device_service.go:98, identity_service.go:59).        *)
THEOREM RowsKeepWhatWasAsked == Spec => []RowsAreAsAsked
<1>1. RowsInv => RowsAreAsAsked
  BY DEF RowsInv, RowsAreAsAsked, DeviceOK, PrefsOK
<1> QED
  BY <1>1, RowsInvHolds, PTL

-----------------------------------------------------------------------------
(* Pushes *)

(* The history of a handler holds what the rows asked for allow now; and    *)
(* where the rows are as asked, what the handler has read of them.         *)
Knows(h) ==
    job[h] # Null =>
        /\ Consents(wish, job[h].user) => allowed[h].consent
        /\ Reachable(wish, job[h].user) \subseteq allowed[h].devices
Acts(h) ==
    job[h] # Null =>
        /\ job[h].at \in {"list", "send"} => allowed[h].consent
        /\ job[h].left \subseteq allowed[h].devices
PushInv ==
    /\ \A h \in Handler : Knows(h)
    /\ clash = {} /\ faults = 0 =>
         /\ \A h \in Handler : Acts(h)
         /\ \A p \in sent : allowed[p[1]].consent /\ p[2] \in allowed[p[1]].devices

LEMMA InitPushes == Init => PushInv
BY DEF Init, PushInv, Knows, Acts

(* What has been allowed stays so, and what the rows allow now is added. *)
LEMMA AllowedGrows ==
    ASSUME ClientsTypeOK, NEW w, Observe(w), NEW h \in Handler
    PROVE  /\ allowed[h].consent => allowed'[h].consent
           /\ allowed[h].devices \subseteq allowed'[h].devices
           /\ Knows(h)'
<1>1. CASE job'[h] = Null
  <2>1. allowed'[h] = allowed[h]
    BY <1>1 DEF Observe
  <2> QED
    BY <1>1, <2>1 DEF Knows
<1>2. CASE job'[h] # Null
  <2>1. /\ allowed'[h].consent = (allowed[h].consent \/ Consents(w, job'[h].user))
        /\ allowed'[h].devices = allowed[h].devices \cup Reachable(w, job'[h].user)
        /\ wish' = w
    BY <1>2 DEF Observe
  <2>2. Knows(h)'
    BY <1>2, <2>1 DEF Knows, Consents, Reachable
  <2> QED
    BY <2>1, <2>2
<1> QED
  BY <1>1, <1>2

(* Where nothing overlapped, a handler reads what was asked for. *)
LEMMA ReadsAsAsked ==
    ASSUME RowsInv, clash = {}, NEW u \in User
    PROVE  /\ Allowed(u) => Consents(wish, u)
           /\ {d \in ListActiveByUser(u) : ShouldPush(dev[d])} \subseteq Reachable(wish, u)
<1>1. prefs[u] = wish.prefs[u] /\ \A d \in Device : dev[d] = wish.dev[d]
  BY DEF RowsInv, DeviceOK, PrefsOK
<1> QED
  BY <1>1 DEF Allowed, Consents, ListActiveByUser, Reachable

(* A handler without faults acts on what has been allowed. *)
LEMMA StepActs ==
    ASSUME TypeInv, RowsInv, PushInv, clash = {}, faults = 0, NEW g \in Handler,
           \/ \E u \in User : HandleInsightCreated(g, u)
           \/ PushAllowed(g) \/ ListDevices(g) \/ Send(g)
    PROVE  /\ \A h \in Handler : Acts(h)'
           /\ \A p \in sent' : allowed'[p[1]].consent /\ p[2] \in allowed'[p[1]].devices
<1>0. /\ ClientsTypeOK /\ sent \subseteq Handler \X Device
      /\ \A h \in Handler : job[h] \in Job \cup {Null}
  BY DEF TypeInv, ClientsTypeOK
<1>1. PICK next : job' = [job EXCEPT ![g] = next] /\ Observe(wish)
  BY DEF HandleInsightCreated, PushAllowed, ListDevices, Send, Handle
<1>2. \A h \in Handler :
        /\ allowed[h].consent => allowed'[h].consent
        /\ allowed[h].devices \subseteq allowed'[h].devices
        /\ Knows(h) /\ Acts(h)
  BY <1>0, <1>1, AllowedGrows DEF PushInv
<1>3. \A p \in sent : allowed'[p[1]].consent /\ p[2] \in allowed'[p[1]].devices
  BY <1>0, <1>2 DEF PushInv
<1>4. ASSUME NEW h \in Handler, h # g
      PROVE  Acts(h)'
  <2>1. job'[h] = job[h]
    BY <1>0, <1>1, <1>4 DEF ClientsTypeOK
  <2> QED
    BY <1>2, <2>1 DEF Acts
<1>5. CASE \E u \in User : HandleInsightCreated(g, u)
  <2>1. job'[g].at = "prefs" /\ job'[g].left = {} /\ sent' = sent
    BY <1>0, <1>5 DEF HandleInsightCreated, Handle, ClientsTypeOK
  <2> QED
    BY <1>3, <1>4, <2>1 DEF Acts
<1>6. CASE PushAllowed(g)
  <2>1. /\ job[g] \in Job /\ job[g] # Null /\ sent' = sent
        /\ job' = [job EXCEPT ![g] = [job[g] EXCEPT !.at =
                     IF Allowed(job[g].user) THEN "list" ELSE "done"]]
    BY <1>0, <1>6 DEF PushAllowed, At, Handle
  <2>2. job[g].user \in User
    BY <2>1 DEF Job
  <2>3. Allowed(job[g].user) => allowed'[g].consent
    BY <1>2, <2>1, <2>2, ReadsAsAsked DEF Knows
  <2>4. /\ job'[g].at = IF Allowed(job[g].user) THEN "list" ELSE "done"
        /\ job'[g].left = job[g].left
    BY <1>0, <2>1 DEF ClientsTypeOK, Job
  <2>5. Acts(g)'
    BY <1>2, <2>1, <2>3, <2>4 DEF Acts
  <2> QED
    BY <1>3, <1>4, <2>1, <2>5
<1>7. CASE ListDevices(g)
  <2> DEFINE found == {d \in ListActiveByUser(job[g].user) : ShouldPush(dev[d])}
  <2>1. /\ job[g] \in Job /\ job[g] # Null /\ sent' = sent /\ job[g].at = "list"
        /\ job' = [job EXCEPT ![g] = [job[g] EXCEPT !.at = "send", !.left = found]]
    BY <1>0, <1>7 DEF ListDevices, At, Handle
  <2>2. job[g].user \in User
    BY <2>1 DEF Job
  <2>3. found \subseteq Reachable(wish, job[g].user)
    BY <2>2, ReadsAsAsked
  <2>4. found \subseteq allowed'[g].devices /\ allowed'[g].consent
    BY <1>2, <2>1, <2>3 DEF Knows, Acts
  <2> HIDE DEF found
  <2>5. job'[g].left = found
    BY <1>0, <2>1 DEF ClientsTypeOK, Job
  <2>6. Acts(g)'
    BY <2>4, <2>5 DEF Acts
  <2> QED
    BY <1>3, <1>4, <2>1, <2>6
<1>8. CASE Send(g)
  <2>1. PICK d \in job[g].left :
          /\ sent' = sent \cup {<<g, d>>}
          /\ job' = [job EXCEPT ![g] = [job[g] EXCEPT !.left = job[g].left \ {d}]]
    BY <1>8 DEF Send, Handle
  <2>2. job[g] \in Job /\ job[g] # Null /\ job[g].at = "send"
    BY <1>0, <1>8 DEF Send, At
  <2>3. allowed'[g].consent /\ job[g].left \subseteq allowed'[g].devices
    BY <1>2, <2>2 DEF Acts
  <2>4. job'[g].left \subseteq job[g].left
    BY <1>0, <2>1, <2>2 DEF ClientsTypeOK, Job
  <2>5. Acts(g)'
    BY <2>3, <2>4 DEF Acts
  <2> QED
    BY <1>3, <1>4, <2>1, <2>3, <2>5
<1> QED
  BY <1>5, <1>6, <1>7, <1>8

LEMMA StepPushes ==
    ASSUME TypeInv, RowsInv, PushInv, [Next]_vars
    PROVE  PushInv'
<1>0. ClientsTypeOK /\ sent \subseteq Handler \X Device /\ faults \in Nat
  BY DEF TypeInv, ClientsTypeOK
<1>1. CASE UNCHANGED vars
  <2>1. /\ job' = job /\ wish' = wish /\ allowed' = allowed /\ sent' = sent
        /\ clash' = clash /\ faults' = faults
    BY <1>1 DEF vars
  <2> QED
    BY <2>1 DEF PushInv, Knows, Acts, Consents, Reachable
<1>2. CASE Next
  <2> PICK w : Observe(w)
    BY <1>2, StepObserves
  <2>1. \A h \in Handler : Knows(h)'
    BY <1>0, AllowedGrows
  <2>2. ASSUME clash' = {}, faults' = 0
        PROVE  /\ \A h \in Handler : Acts(h)'
               /\ \A p \in sent' : allowed'[p[1]].consent /\ p[2] \in allowed'[p[1]].devices
    <3>1. clash = {}
      BY <2>2, NoClash
    <3>2. CASE Fail
      BY <1>0, <2>2, <3>2 DEF Fail
    <3>3. ASSUME NEW g \in Handler,
                 \/ \E u \in User : HandleInsightCreated(g, u)
                 \/ PushAllowed(g) \/ ListDevices(g) \/ Send(g)
          PROVE  /\ \A h \in Handler : Acts(h)'
                 /\ \A p \in sent' : allowed'[p[1]].consent /\ p[2] \in allowed'[p[1]].devices
      <4>1. faults = 0
        BY <2>2, <3>3 DEF HandleInsightCreated, PushAllowed, ListDevices, Send
      <4> QED
        BY <3>1, <3>3, <4>1, StepActs
    <3>4. CASE job' = job /\ sent' = sent /\ faults' = faults
      <4>1. \A h \in Handler :
              /\ allowed[h].consent => allowed'[h].consent
              /\ allowed[h].devices \subseteq allowed'[h].devices
        BY <1>0, AllowedGrows
      <4>2. /\ \A h \in Handler : Acts(h)
            /\ \A p \in sent : allowed[p[1]].consent /\ p[2] \in allowed[p[1]].devices
        BY <2>2, <3>1, <3>4 DEF PushInv
      <4>3. \A h \in Handler : Acts(h)'
        BY <3>4, <4>1, <4>2 DEF Acts
      <4>4. \A p \in sent' : allowed'[p[1]].consent /\ p[2] \in allowed'[p[1]].devices
        BY <1>0, <3>4, <4>1, <4>2
      <4> QED
        BY <4>3, <4>4
    <3>5. \/ Fail
          \/ \E g \in Handler : \/ \E u \in User : HandleInsightCreated(g, u)
                               \/ PushAllowed(g) \/ ListDevices(g) \/ Send(g)
          \/ job' = job /\ sent' = sent /\ faults' = faults
      <4>1. ASSUME NEW r \in Request, NEW u \in User,
                   \/ \E d \in Device : Register(r, u, d) \/ UpdatePushToken(r, u, d)
                   \/ GetPreferences(r, u) \/ CreateKey(r, u)
            PROVE  job' = job /\ sent' = sent /\ faults' = faults
        BY <4>1 DEF Register, UpdatePushToken, GetPreferences, CreateKey, Arrive
      <4>2. ASSUME NEW r \in Request,
                   \/ RegisterSave(r) \/ TokenSave(r) \/ InsertKey(r)
                   \/ CreateDefaultPreferences(r) \/ UpdatePreferences(r)
            PROVE  job' = job /\ sent' = sent /\ faults' = faults
        BY <4>2 DEF RegisterSave, Registered, TokenSave, InsertKey, CreateDefaultPreferences,
           UpdatePreferences, End
      <4>3. ASSUME NEW u \in User, Revoke(u) \/ \E d \in Device : Deregister(u, d)
            PROVE  job' = job /\ sent' = sent /\ faults' = faults
        BY <4>3 DEF Revoke, Deregister
      <4> QED
        BY <1>2, <4>1, <4>2, <4>3 DEF Next
    <3> QED
      BY <3>2, <3>3, <3>4, <3>5
  <2> QED
    BY <2>1, <2>2 DEF PushInv
<1> QED
  BY <1>1, <1>2

(* Theorem: without failing statements and overlapping writes a push goes   *)
(* to a user who consented and to a device of the user, at times since the *)
(* handler began, however requests and handlers interleave.                *)
THEOREM PushesReachTheirUser == Spec => []PushesWereAllowed
<1>1. PushInv => PushesWereAllowed
  BY DEF PushInv, PushesWereAllowed
<1> QED
  BY <1>1, TypeInvHolds, RowsInvHolds, InitPushes, StepPushes, PTL DEF Spec

=============================================================================
