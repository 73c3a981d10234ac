------------------------ MODULE FederatedLoginProofs ------------------------
(***************************************************************************)
(* Theorems about FederatedLogin.  Beside the logins the tables of         *)
(* Accounts behave as Accounts says (OnAccounts), so its theorems hold     *)
(* here; and a login signs in whom it should, for any ids, names,          *)
(* identities and requests.                                                *)
(***************************************************************************)
EXTENDS FederatedLogin, AccountsProofs

(* A callback waits for a registration of its own, in its own slot.         *)
Awaits(r) ==
  /\ login[r].flow = "signup"
  /\ req[r].op = "register" /\ req[r].method = "GOOGLE"
  /\ req[r].id = login[r].new /\ req[r].key = login[r].key

ShapeOK(r) ==
  /\ login[r].pc = "idle" => login[r] = NoLogin
  /\ login[r].flow = "none" => login[r].pc = "idle"
  /\ login[r].flow = "signup" => login[r].new \in Ids /\ login[r].name \in Names
  /\ login[r].flow # "signup" => login[r].new = None
  /\ login[r].pc = "registering" => Awaits(r)
  /\ login[r].pc \notin {"idle", "registering"} => req[r] = Blank
  /\ login[r].pc # "answered" => login[r].code = 0
  /\ login[r].pc \notin {"verified", "answered"} => login[r].member = None

(* Whom a login has found, and that a sign-up past its registration has an  *)
(* account to find.                                                         *)
FoundOK(r) ==
  /\ login[r].member # None /\ login[r].key # None =>
       [type |-> Provider(login[r].flow), key |-> login[r].key,
        member |-> login[r].member] \in credentials
  /\ login[r].flow = "signup" =>
       /\ login[r].code # 401
       /\ login[r].member # None /\ login[r].key # None => login[r].member = login[r].new
       /\ login[r].pc \in {"profiled", "verified"} =>
            [type |-> "GOOGLE", key |-> login[r].key, member |-> login[r].new] \in credentials

(* An identity that was linked when it was read stays linked: a login finds *)
(* it, a registration is refused at its first check.                        *)
LinkedOK(r) ==
  login[r].linked =>
    /\ login[r].pc \notin {"idle", "sent"} /\ IsLinked(r, login[r].key)
    /\ login[r].code # 401
    /\ login[r].flow = "signup" =>
         /\ ~Exists(login[r].new) /\ login[r].member = None
         /\ login[r].pc \notin {"profiled", "verified"}
         /\ login[r].pc = "registering" =>
              req[r].pc \in {"sent", "answered"} /\ req[r].code # 201

(* The uuid of a sign-up is its own.                                        *)
OwnUuids ==
  \A r, s \in Requests : login[r].new # None =>
    /\ login[s].new = login[r].new => s = r
    /\ req[s].op = "register" /\ req[s].id = login[r].new
         => s = r /\ login[r].pc = "registering"

LoginOK(r) == ShapeOK(r) /\ FoundOK(r) /\ LinkedOK(r)

LoginInv ==
  /\ AccountInv
  /\ login \in [Requests -> LoginRecord]
  /\ \A r \in Requests : LoginOK(r)
  /\ OwnUuids

-----------------------------------------------------------------------------
OnlyLogin(r) ==
  /\ login' \in [Requests -> LoginRecord]
  /\ \A s \in Requests : s # r => login'[s] = login[s]

LEMMA ReplyStep ==
  ASSUME LoginInv, NEW r \in Requests, NEW code \in Codes, Reply(r, code)
  PROVE  /\ OnlyLogin(r)
         /\ login'[r].pc = "answered" /\ login'[r].code = code
         /\ login'[r].flow = login[r].flow /\ login'[r].name = login[r].name
         /\ login'[r].new = login[r].new /\ login'[r].key = login[r].key
         /\ login'[r].member = login[r].member /\ login'[r].linked = login[r].linked
<1> DEFINE l == [login[r] EXCEPT !.pc = "answered", !.code = code]
<1>1. /\ login \in [Requests -> LoginRecord] /\ login' = [login EXCEPT ![r] = l]
  BY DEF LoginInv, Reply
<1>2. login[r] \in LoginRecord
  BY <1>1
<1>3. /\ l \in LoginRecord
      /\ l.pc = "answered" /\ l.code = code /\ l.flow = login[r].flow
      /\ l.name = login[r].name /\ l.new = login[r].new /\ l.key = login[r].key
      /\ l.member = login[r].member /\ l.linked = login[r].linked
  BY <1>2 DEF LoginRecord, LoginPCs
<1> HIDE DEF l
<1> QED  BY <1>1, <1>3 DEF OnlyLogin

LEMMA StepStep ==
  ASSUME LoginInv, NEW r \in Requests, NEW pc \in LoginPCs, Step(r, pc)
  PROVE  /\ OnlyLogin(r)
         /\ login'[r].pc = pc /\ login'[r].code = login[r].code
         /\ login'[r].flow = login[r].flow /\ login'[r].name = login[r].name
         /\ login'[r].new = login[r].new /\ login'[r].key = login[r].key
         /\ login'[r].member = login[r].member /\ login'[r].linked = login[r].linked
<1> DEFINE l == [login[r] EXCEPT !.pc = pc]
<1>1. /\ login \in [Requests -> LoginRecord] /\ login' = [login EXCEPT ![r] = l]
  BY DEF LoginInv, Step
<1>2. login[r] \in LoginRecord
  BY <1>1
<1>3. /\ l \in LoginRecord
      /\ l.pc = pc /\ l.code = login[r].code /\ l.flow = login[r].flow
      /\ l.name = login[r].name /\ l.new = login[r].new /\ l.key = login[r].key
      /\ l.member = login[r].member /\ l.linked = login[r].linked
  BY <1>2 DEF LoginRecord
<1> HIDE DEF l
<1> QED  BY <1>1, <1>3 DEF OnlyLogin

(* A step of one login: the tables stay, and only its slot changes.         *)
LEMMA SlotStep ==
  ASSUME LoginInv, NEW r \in Requests, OnlyLogin(r), [Next]_vars,
         UNCHANGED <<member, credentials>>,
         \A s \in Requests : s # r => req'[s] = req[s],
         LoginOK(r)', OwnUuids'
  PROVE  LoginInv'
<1>1. AccountInv'
  BY TypedStep, TablesStep DEF LoginInv, AccountInv
<1>2. ASSUME NEW s \in Requests, s # r  PROVE LoginOK(s)'
  <2>1. LoginOK(s) /\ login'[s] = login[s] /\ req'[s] = req[s]
    BY <1>2 DEF LoginInv, OnlyLogin
  <2> QED  BY <2>1 DEF LoginOK, ShapeOK, FoundOK, LinkedOK, Awaits, IsLinked, Linked, Exists
<1> QED  BY <1>1, <1>2 DEF LoginInv, OnlyLogin

(* A slot that keeps its uuid, and no registration but for it.              *)
LEMMA UuidsKept ==
  ASSUME LoginInv, NEW r \in Requests, OnlyLogin(r),
         \A s \in Requests : s # r => req'[s] = req[s],
         login'[r].new \in {login[r].new, None},
         req'[r].op = "register" =>
           \/ req'[r].id = login[r].new /\ login'[r].new = login[r].new
              /\ login'[r].pc = "registering" /\ login[r].new # None
           \/ req'[r] = req[r] /\ login[r].pc = "idle"
  PROVE  OwnUuids'
<1>1. OwnUuids /\ \A s \in Requests : s # r => login'[s] = login[s] /\ req'[s] = req[s]
  BY DEF LoginInv, OnlyLogin
<1>2. login[r].pc = "idle" => login[r].new = None
  BY DEF LoginInv, LoginOK, ShapeOK, NoLogin
<1> QED  BY <1>1, <1>2 DEF OwnUuids

-----------------------------------------------------------------------------
(* The steps of a login. *)

LEMMA ReplyInv ==
  ASSUME LoginInv, NEW r \in Requests, NEW code \in Codes, Reply(r, code),
         UNCHANGED vars, login[r].pc \in {"sent", "profiled", "verified"},
         code = 401 => ~login[r].linked /\ login[r].flow # "signup"
  PROVE  LoginInv'
<1>1. LoginOK(r) /\ req' = req /\ UNCHANGED <<member, credentials>>
  BY DEF LoginInv, vars
<1>2. /\ OnlyLogin(r)
      /\ login'[r].pc = "answered" /\ login'[r].code = code
      /\ login'[r].flow = login[r].flow /\ login'[r].name = login[r].name
      /\ login'[r].new = login[r].new /\ login'[r].key = login[r].key
      /\ login'[r].member = login[r].member /\ login'[r].linked = login[r].linked
  BY ReplyStep
<1>3. ShapeOK(r)'
  BY <1>1, <1>2 DEF LoginOK, ShapeOK, NoLogin
<1>4. FoundOK(r)'
  BY <1>1, <1>2 DEF LoginOK, FoundOK
<1>5. LinkedOK(r)'
  BY <1>1, <1>2 DEF LoginOK, LinkedOK, IsLinked, Linked, Exists
<1>6. OwnUuids'
  <2>1. req[r].op # "register"
    BY <1>1 DEF LoginOK, ShapeOK, Blank
  <2> QED  BY <1>1, <1>2, <2>1, UuidsKept
<1> QED  BY <1>1, <1>2, <1>3, <1>4, <1>5, <1>6, SlotStep DEF LoginOK

LEMMA CheckWidgetInv ==
  ASSUME LoginInv, NEW r \in Requests, CheckWidget(r)
  PROVE  LoginInv'
<1>1. /\ LoginOK(r) /\ UNCHANGED vars /\ req' = req /\ UNCHANGED <<member, credentials>>
      /\ login[r].pc = "sent" /\ login[r].flow = "telegram"
  BY DEF LoginInv, CheckWidget, LoginAt, vars
<1>2. login \in [Requests -> LoginRecord] /\ login[r] \in LoginRecord
  BY DEF LoginInv
<1>3. CASE \E code \in {401, 500} : Reply(r, code)
  <2>1. ~login[r].linked
    BY <1>1 DEF LoginOK, LinkedOK
  <2> QED  BY <1>1, <1>3, <2>1, ReplyInv DEF Codes
<1>4. CASE login' = [login EXCEPT ![r] =
             [login[r] EXCEPT !.pc = "profiled", !.linked = IsLinked(r, login[r].key)]]
  <2> DEFINE l == [login[r] EXCEPT !.pc = "profiled", !.linked = IsLinked(r, login[r].key)]
  <2>1. IsLinked(r, login[r].key) \in BOOLEAN
    BY DEF IsLinked
  <2>2. /\ l \in LoginRecord /\ l.pc = "profiled" /\ l.flow = "telegram"
        /\ l.linked = IsLinked(r, login[r].key)
        /\ l.new = login[r].new /\ l.key = login[r].key /\ l.code = login[r].code
        /\ l.member = login[r].member
    BY <1>1, <1>2, <2>1 DEF LoginRecord, LoginPCs
  <2>3. OnlyLogin(r) /\ login'[r] = l
    BY <1>2, <1>4, <2>2 DEF OnlyLogin
  <2> HIDE DEF l
  <2>4. ShapeOK(r)' /\ FoundOK(r)'
    BY <1>1, <2>2, <2>3 DEF LoginOK, ShapeOK, FoundOK, NoLogin
  <2>5. IsLinked(r, login[r].key)' <=> IsLinked(r, login[r].key)
    BY <1>1, <2>2, <2>3 DEF IsLinked, Linked
  <2>6. LinkedOK(r)'
    <3>1. login'[r].linked => IsLinked(r, login[r].key)'
      BY <2>2, <2>3, <2>5
    <3>2. login'[r].flow # "signup" /\ login'[r].code = 0 /\ login'[r].pc = "profiled"
      BY <1>1, <2>2, <2>3 DEF LoginOK, ShapeOK
    <3> QED  BY <3>1, <3>2 DEF LinkedOK
  <2>7. OwnUuids'
    <3>1. req[r].op # "register"
      BY <1>1 DEF LoginOK, ShapeOK, Blank
    <3> QED  BY <1>1, <2>2, <2>3, <3>1, UuidsKept
  <2> QED  BY <1>1, <2>3, <2>4, <2>6, <2>7, SlotStep DEF LoginOK
<1> QED  BY <1>3, <1>4 DEF CheckWidget

(* A sign-up goes on to a registration of Accounts. *)
LEMMA FetchProfileInv ==
  ASSUME LoginInv, NEW r \in Requests, NEW k \in Identities \cup {None}, FetchProfile(r, k)
  PROVE  LoginInv' /\ [Next]_vars
<1> DEFINE pc == IF login[r].flow = "signup" THEN "registering" ELSE "profiled"
           l == [login[r] EXCEPT !.key = k, !.linked = IsLinked(r, k), !.pc = pc]
<1>1. /\ LoginOK(r) /\ login[r].pc = "sent" /\ login[r].flow # "telegram"
      /\ login' = [login EXCEPT ![r] = l]
      /\ login \in [Requests -> LoginRecord] /\ login[r] \in LoginRecord
      /\ AccountInv /\ TypeOK /\ req[r] = Blank
  BY DEF LoginInv, FetchProfile, LoginAt, LoginOK, ShapeOK, AccountInv
<1>2. IsLinked(r, k) \in BOOLEAN
  BY DEF IsLinked
<1>3. /\ l \in LoginRecord /\ l.pc = pc /\ l.flow = login[r].flow /\ l.linked = IsLinked(r, k)
      /\ l.new = login[r].new /\ l.name = login[r].name /\ l.key = k
      /\ l.code = 0 /\ l.member = None
  BY <1>1, <1>2 DEF LoginRecord, LoginPCs, LoginOK, ShapeOK
<1>4. OnlyLogin(r) /\ login'[r] = l
  BY <1>1, <1>3 DEF OnlyLogin
<1> HIDE DEF l
<1>5. CASE login[r].flow = "signup"
  <2>1. /\ login[r].new \in Ids /\ login[r].name \in Names
        /\ SendRegister(r, login[r].new, login[r].name, "GOOGLE", k)
    BY <1>1, <1>5 DEF FetchProfile, LoginOK, ShapeOK
  <2>2. /\ ~Exists(login[r].new)
        /\ Send(r, "register", login[r].new, login[r].name, "GOOGLE", k)
    BY <2>1 DEF SendRegister
  <2>3. /\ Only(r)
        /\ req'[r] = [op |-> "register", pc |-> "sent", id |-> login[r].new,
                      name |-> login[r].name, method |-> "GOOGLE", key |-> k, code |-> 0]
        /\ UNCHANGED <<member, credentials>>
    BY <1>1, <2>1, <2>2, SendStep DEF Methods
  <2>4. [Next]_vars
    BY <2>1 DEF Next, ClientStep, Methods
  <2>5. ShapeOK(r)' /\ FoundOK(r)'
    BY <1>3, <1>4, <1>5, <2>1, <2>3, NoneAssumption DEF ShapeOK, FoundOK, Awaits
  <2>6. LinkedOK(r)'
    <3>1. IsLinked(r, k)' <=> IsLinked(r, k)
      BY <1>3, <1>4, <2>3 DEF IsLinked, Linked
    <3>2. ~Exists(login[r].new)'
      BY <1>3, <1>4, <2>2, <2>3 DEF Exists
    <3>3. login'[r].linked => IsLinked(r, login[r].key)'
      BY <1>3, <1>4, <3>1 DEF IsLinked
    <3> QED  BY <1>3, <1>4, <1>5, <2>3, <3>2, <3>3 DEF LinkedOK
  <2>7. OwnUuids'
    BY <1>1, <1>3, <1>4, <1>5, <2>1, <2>3, NoneAssumption, UuidsKept DEF Only
  <2> QED  BY <1>4, <2>3, <2>4, <2>5, <2>6, <2>7, SlotStep DEF LoginOK, Only
<1>6. CASE login[r].flow # "signup"
  <2>1. UNCHANGED vars /\ req' = req /\ UNCHANGED <<member, credentials>>
    BY <1>6 DEF FetchProfile, vars
  <2>2. ShapeOK(r)' /\ FoundOK(r)'
    BY <1>1, <1>3, <1>4, <1>6, <2>1 DEF LoginOK, ShapeOK, FoundOK, NoLogin
  <2>3. IsLinked(r, k)' <=> IsLinked(r, k)
    BY <1>3, <1>4, <2>1 DEF IsLinked, Linked
  <2>4. LinkedOK(r)'
    <3>1. login'[r].linked => IsLinked(r, login[r].key)'
      BY <1>3, <1>4, <2>3 DEF IsLinked
    <3> QED  BY <1>3, <1>4, <1>6, <3>1 DEF LinkedOK
  <2>5. OwnUuids'
    BY <1>1, <1>3, <1>4, <2>1, UuidsKept DEF Blank
  <2> QED  BY <1>4, <2>1, <2>2, <2>4, <2>5, SlotStep DEF LoginOK
<1> QED  BY <1>5, <1>6

LEMMA RegisteredInv ==
  ASSUME LoginInv, NEW r \in Requests, Registered(r)
  PROVE  LoginInv' /\ [Next]_vars
<1>1. /\ LoginOK(r) /\ login[r].pc = "registering" /\ Awaits(r) /\ Done(r)
      /\ TypeOK /\ RequestOK(req[r]) /\ req[r] \in Request
      /\ req[r].pc = "answered"
  BY DEF LoginInv, Registered, LoginAt, LoginOK, ShapeOK, AccountInv, RequestInv, TypeOK, Done
<1>2. [Next]_vars
  BY <1>1 DEF Next, ClientStep
<1>3. Only(r) /\ req'[r] = Blank /\ UNCHANGED <<member, credentials>>
  BY <1>1, BlankStep DEF Done
<1>4. CASE req[r].code = 201
  <2>1. /\ OnlyLogin(r)
        /\ login'[r].pc = "profiled" /\ login'[r].code = login[r].code
        /\ login'[r].flow = login[r].flow /\ login'[r].name = login[r].name
        /\ login'[r].new = login[r].new /\ login'[r].key = login[r].key
        /\ login'[r].member = login[r].member /\ login'[r].linked = login[r].linked
    BY <1>4, StepStep DEF Registered, LoginPCs
  <2>2. [type |-> "GOOGLE", key |-> login[r].key, member |-> login[r].new] \in credentials
    BY <1>1, <1>4 DEF RequestOK, Awaits
  <2>3. ~login[r].linked
    BY <1>1, <1>4 DEF LoginOK, LinkedOK, Awaits
  <2>4. ShapeOK(r)'
    BY <1>1, <1>3, <2>1 DEF LoginOK, ShapeOK
  <2>5. FoundOK(r)'
    BY <1>1, <1>3, <2>1, <2>2 DEF LoginOK, FoundOK
  <2>6. LinkedOK(r)'
    BY <2>1, <2>3 DEF LinkedOK
  <2>7. OwnUuids'
    BY <1>3, <2>1, UuidsKept DEF Only, Blank
  <2> QED  BY <1>2, <1>3, <2>1, <2>4, <2>5, <2>6, <2>7, SlotStep DEF LoginOK, Only
<1>5. CASE req[r].code # 201
  <2>1. req[r].code \in Codes /\ req[r].code # 401
    BY <1>1 DEF Request, Awaits, RequestOK
  <2>2. /\ OnlyLogin(r)
        /\ login'[r].pc = "answered" /\ login'[r].code = req[r].code
        /\ login'[r].flow = login[r].flow /\ login'[r].name = login[r].name
        /\ login'[r].new = login[r].new /\ login'[r].key = login[r].key
        /\ login'[r].member = login[r].member /\ login'[r].linked = login[r].linked
    BY <1>5, <2>1, ReplyStep DEF Registered
  <2>3. ShapeOK(r)'
    BY <1>1, <1>3, <2>2 DEF LoginOK, ShapeOK
  <2>4. FoundOK(r)'
    BY <1>1, <1>3, <2>1, <2>2 DEF LoginOK, FoundOK
  <2>5. LinkedOK(r)'
    BY <1>1, <1>3, <2>1, <2>2 DEF LoginOK, LinkedOK, IsLinked, Linked, Exists
  <2>6. OwnUuids'
    BY <1>3, <2>2, UuidsKept DEF Only, Blank
  <2> QED  BY <1>2, <1>3, <2>2, <2>3, <2>4, <2>5, <2>6, SlotStep DEF LoginOK, Only
<1> QED  BY <1>4, <1>5

(* A linked identity is found, and a new account by its own sign-up.        *)
LEMMA VerifyInv ==
  ASSUME LoginInv, NEW r \in Requests, Verify(r)
  PROVE  LoginInv'
<1> DEFINE type == Provider(login[r].flow)
           found == FoundBy(type, login[r].key)
<1>1. /\ LoginOK(r) /\ login[r].pc = "profiled" /\ UNCHANGED vars
      /\ req' = req /\ UNCHANGED <<member, credentials>>
      /\ login \in [Requests -> LoginRecord] /\ login[r] \in LoginRecord
      /\ TypeOK /\ IdentityHasOneMember /\ req[r] = Blank
  BY DEF LoginInv, Verify, LoginAt, LoginOK, ShapeOK, AccountInv, vars
<1>2. \A c \in credentials : c \in CredentialRow
  BY <1>1 DEF TypeOK
<1>3. CASE found = {} /\ Reply(r, 401)
  <2>1. ~login[r].linked
    BY <1>1, <1>3 DEF LoginOK, LinkedOK, IsLinked, Linked, FoundBy
  <2>2. login[r].flow # "signup"
    BY <1>1, <1>3 DEF LoginOK, FoundOK, FoundBy, Provider
  <2> QED  BY <1>1, <1>3, <2>1, <2>2, ReplyInv DEF Codes
<1>4. CASE Reply(r, 403)
  BY <1>1, <1>4, ReplyInv DEF Codes
<1>5. ASSUME NEW c \in found,
             login' = [login EXCEPT ![r] = [login[r] EXCEPT !.pc = "verified", !.member = c.member]]
      PROVE  LoginInv'
  <2> DEFINE l == [login[r] EXCEPT !.pc = "verified", !.member = c.member]
  <2>1. /\ c \in credentials /\ c.member \in Ids /\ c.type = type
        /\ login[r].key \in {c.key, None}
    BY <1>2 DEF FoundBy, CredentialRow
  <2>2. /\ l \in LoginRecord /\ l.pc = "verified" /\ l.flow = login[r].flow
        /\ l.member = c.member /\ l.linked = login[r].linked /\ l.name = login[r].name
        /\ l.new = login[r].new /\ l.key = login[r].key /\ l.code = login[r].code
    BY <1>1, <2>1 DEF LoginRecord, LoginPCs
  <2>3. OnlyLogin(r) /\ login'[r] = l
    BY <1>1, <1>5, <2>2 DEF OnlyLogin
  <2> HIDE DEF l
  <2>4. ShapeOK(r)'
    BY <1>1, <2>2, <2>3 DEF LoginOK, ShapeOK, NoLogin
  <2>5. ASSUME login[r].key # None
        PROVE  c = [type |-> type, key |-> login[r].key, member |-> c.member]
    BY <1>2, <2>1, <2>5 DEF CredentialRow
  <2>6. ASSUME login[r].key # None, login[r].flow = "signup"  PROVE c.member = login[r].new
    <3> DEFINE d == [type |-> "GOOGLE", key |-> login[r].key, member |-> login[r].new]
    <3>1. d \in credentials /\ d.type = type /\ d.key = login[r].key /\ d.member = login[r].new
      BY <1>1, <2>6 DEF LoginOK, FoundOK, Provider
    <3> HIDE DEF d
    <3>2. c.type = d.type /\ c.key = d.key /\ c.key # None
      BY <2>1, <2>6, <3>1
    <3> QED  BY <1>1, <2>1, <3>1, <3>2 DEF IdentityHasOneMember
  <2>7. FoundOK(r)'
    BY <1>1, <2>1, <2>2, <2>3, <2>5, <2>6 DEF LoginOK, FoundOK
  <2>8. LinkedOK(r)'
    <3>1. login[r].linked => login[r].flow # "signup" /\ login[r].code # 401
                             /\ IsLinked(r, login[r].key)
      BY <1>1 DEF LoginOK, LinkedOK
    <3>2. IsLinked(r, login[r].key) => IsLinked(r, login[r].key)'
      BY <1>1, <2>2, <2>3 DEF IsLinked, Linked
    <3> QED  BY <2>2, <2>3, <3>1, <3>2 DEF LinkedOK
  <2>9. OwnUuids'
    BY <1>1, <2>2, <2>3, UuidsKept DEF Blank
  <2> QED  BY <1>1, <2>3, <2>4, <2>7, <2>8, <2>9, SlotStep DEF LoginOK
<1> QED  BY <1>3, <1>4, <1>5 DEF Verify

LEMMA SendLoginInv ==
  ASSUME LoginInv, NEW r \in Requests, NEW flow \in Flows, NEW n \in Names \cup {None},
         NEW i \in Ids \cup {None}, NEW k \in Identities \cup {None},
         SendLogin(r, flow, n, i, k),
         flow = "signup" => n \in Names /\ i \in Ids /\ ~Reserved(i),
         flow # "signup" => i = None
  PROVE  LoginInv'
<1> DEFINE l == [NoLogin EXCEPT !.flow = flow, !.pc = "sent", !.name = n, !.new = i, !.key = k]
<1>1. /\ login[r] = NoLogin /\ req[r] = Blank /\ req' = req
      /\ login' = [login EXCEPT ![r] = l]
      /\ UNCHANGED vars /\ UNCHANGED <<member, credentials>>
      /\ login \in [Requests -> LoginRecord] /\ OwnUuids
  BY DEF LoginInv, SendLogin, vars
<1>2. /\ l \in LoginRecord /\ l.flow = flow /\ l.pc = "sent" /\ l.name = n /\ l.new = i
      /\ l.key = k /\ l.member = None /\ l.code = 0 /\ l.linked = FALSE
  <2>1. /\ NoLogin \in LoginRecord /\ NoLogin.member = None /\ NoLogin.code = 0
        /\ NoLogin.linked = FALSE
    BY DEF NoLogin, LoginRecord, LoginPCs, Codes
  <2> QED  BY <2>1 DEF LoginRecord, LoginPCs
<1> HIDE DEF l
<1>3. OnlyLogin(r) /\ login'[r] = l
  BY <1>1, <1>2 DEF OnlyLogin
<1>4. ShapeOK(r)'
  BY <1>1, <1>2, <1>3 DEF ShapeOK, Flows
<1>5. FoundOK(r)' /\ LinkedOK(r)'
  BY <1>1, <1>2, <1>3 DEF FoundOK, LinkedOK
<1>6. OwnUuids'
  <2>1. i # None => ~Reserved(i)
    OBVIOUS
  <2>2. \A s \in Requests : i # None => login[s].new # i /\ ~(req[s].op = "register" /\ req[s].id = i)
    BY <2>1 DEF Reserved
  <2>3. login[r].new = None
    BY <1>1 DEF NoLogin
  <2>4. req[r].op # "register"
    BY <1>1 DEF Blank
  <2> QED  BY <1>1, <1>2, <1>3, <2>2, <2>3, <2>4 DEF OwnUuids, OnlyLogin
<1> QED  BY <1>1, <1>3, <1>4, <1>5, <1>6, SlotStep DEF LoginOK

LEMMA LoginClientInv ==
  ASSUME LoginInv, NEW r \in Requests, LoginClient(r)
  PROVE  LoginInv'
<1>1. ASSUME NEW n \in Names, NEW i \in Ids, SendSignUp(r, n, i)  PROVE LoginInv'
  BY <1>1, SendLoginInv DEF SendSignUp, Flows
<1>2. CASE SendCallback(r)
  BY <1>2, SendLoginInv DEF SendCallback, Flows
<1>3. ASSUME NEW k \in Identities, SendTelegram(r, k)  PROVE LoginInv'
  BY <1>3, SendLoginInv DEF SendTelegram, Flows
<1>4. CASE TakeReply(r)
  <2>1. /\ NoLogin \in LoginRecord /\ NoLogin.new = None /\ NoLogin.pc = "idle"
        /\ NoLogin.flow = "none" /\ NoLogin.code = 0 /\ NoLogin.member = None
        /\ NoLogin.linked = FALSE
    BY DEF NoLogin, LoginRecord, LoginPCs, Codes
  <2>2. /\ OnlyLogin(r) /\ login'[r] = NoLogin /\ req' = req /\ UNCHANGED vars
        /\ UNCHANGED <<member, credentials>> /\ req[r] = Blank
    BY <1>4, <2>1 DEF TakeReply, LoginInv, OnlyLogin, vars, LoginAt, LoginOK, ShapeOK
  <2>3. LoginOK(r)'
    BY <2>1, <2>2 DEF LoginOK, ShapeOK, FoundOK, LinkedOK
  <2>4. OwnUuids'
    BY <2>1, <2>2, UuidsKept DEF Blank
  <2> QED  BY <2>2, <2>3, <2>4, SlotStep
<1> QED  BY <1>1, <1>2, <1>3, <1>4 DEF LoginClient

-----------------------------------------------------------------------------
(* The steps of Accounts, beside the logins. *)

(* What such a step may do to the slots: a new uuid appears only in a slot  *)
(* that serves no login, and is no sign-up's; a request keeps what it is,   *)
(* and a registration that comes late is refused.                           *)
LEMMA AccountStep ==
  ASSUME LoginInv, UNCHANGED login, [Next]_vars, NEW s \in Requests, Only(s),
         \A i \in Ids : Exists(i)' =>
           Exists(i) \/ (req[s].op = "register" /\ req[s].pc = "free" /\ i = req[s].id),
         \/ /\ login[s].pc = "idle"
            /\ req'[s].op = "register" => \A t \in Requests : login[t].new # req'[s].id
         \/ /\ req[s] # Blank
            /\ req'[s].op = req[s].op /\ req'[s].id = req[s].id
            /\ req'[s].method = req[s].method /\ req'[s].key = req[s].key
            /\ /\ req[s].op = "register" /\ req[s].pc = "sent"
               /\ Linked("GOOGLE", req[s].key) # {} /\ req[s].method = "GOOGLE"
               => req'[s].pc = "answered" /\ req'[s].code # 201
            /\ req[s].pc # "answered"
  PROVE  LoginInv'
<1>1. AccountInv /\ AccountInv' /\ Tables /\ TypeOK
  BY TypedStep, TablesStep DEF LoginInv, AccountInv
<1>2. credentials \subseteq credentials' /\ \A i \in Ids : Exists(i) => Exists(i)'
  BY <1>1, MembersStay
<1>3. login' = login /\ OwnUuids /\ \A r \in Requests : LoginOK(r)
  BY DEF LoginInv
<1>4. ASSUME NEW r \in Requests  PROVE FoundOK(r)'
  BY <1>2, <1>3 DEF LoginOK, FoundOK
<1>5. ASSUME NEW r \in Requests  PROVE ShapeOK(r)'
  BY <1>3 DEF LoginOK, ShapeOK, Awaits, Only
<1>6. ASSUME NEW r \in Requests  PROVE LinkedOK(r)'
  <2>1. LoginOK(r) /\ ShapeOK(r)
    BY <1>3 DEF LoginOK
  <2>2. IsLinked(r, login[r].key) => IsLinked(r, login[r].key)'
    BY <1>2, <1>3 DEF IsLinked, Linked
  <2>3. CASE login[r].linked /\ login[r].flow = "signup"
    <3>1. /\ ~Exists(login[r].new) /\ login[r].new \in Ids /\ login[r].new # None
          /\ IsLinked(r, login[r].key)
          /\ login[r].pc = "registering" =>
               req[r].pc \in {"sent", "answered"} /\ req[r].code # 201
      BY <2>1, <2>3, NoneAssumption DEF LoginOK, LinkedOK, ShapeOK
    <3>2. ~Exists(login[r].new)'
      <4> DEFINE i == login[r].new
      <4>1. i \in Ids /\ login'[r].new = i /\ ~Exists(i)
        BY <1>3, <3>1
      <4>2. req[s].op = "register" /\ req[s].id = i =>
              s = r /\ login[r].pc = "registering"
        BY <1>3, <3>1 DEF OwnUuids
      <4>3. ~(req[s].op = "register" /\ req[s].pc = "free" /\ i = req[s].id)
        BY <3>1, <4>2
      <4> HIDE DEF i
      <4>4. member'[i] = Absent
        BY <4>1, <4>3 DEF Exists
      <4> QED  BY <4>1, <4>4 DEF Exists
    <3>3. login[r].pc = "registering" =>
            req'[r].pc \in {"sent", "answered"} /\ req'[r].code # 201
      <4>1. CASE r = s
        BY <1>3, <2>1, <2>3, <3>1, <4>1 DEF ShapeOK, Awaits, IsLinked, Provider
      <4>2. CASE r # s
        BY <3>1, <4>2 DEF Only
      <4> QED  BY <4>1, <4>2
    <3> QED  BY <1>3, <2>1, <2>2, <2>3, <3>2, <3>3 DEF LoginOK, LinkedOK
  <2>4. CASE login[r].linked /\ login[r].flow # "signup"
    BY <1>3, <2>1, <2>2, <2>4 DEF LoginOK, LinkedOK
  <2> QED  BY <1>3, <2>3, <2>4 DEF LinkedOK
<1>7. OwnUuids'
  BY <1>3 DEF OwnUuids, Only
<1> QED  BY <1>1, <1>3, <1>4, <1>5, <1>6, <1>7 DEF LoginInv, LoginOK

LEMMA ServerInv ==
  ASSUME LoginInv, UNCHANGED login, NEW r \in Requests, ServerStep(r) \/ Fail(r)
  PROVE  LoginInv'
<1> DEFINE Moves ==
             /\ Only(r) /\ req'[r].op = req[r].op /\ req'[r].id = req[r].id
             /\ req'[r].method = req[r].method /\ req'[r].key = req[r].key
           Refused ==
             /\ req[r].op = "register" /\ req[r].pc = "sent"
             /\ Linked("GOOGLE", req[r].key) # {} /\ req[r].method = "GOOGLE"
             => req'[r].pc = "answered" /\ req'[r].code # 201
           Writes == \A i \in Ids : Exists(i)' =>
             Exists(i) \/ (req[r].op = "register" /\ req[r].pc = "free" /\ i = req[r].id)
<1>1. AccountInv /\ TypeOK /\ RequestInv /\ RequestOK(req[r]) /\ [Next]_vars
  BY DEF LoginInv, AccountInv, RequestInv, Next
<1>2. ASSUME NEW pc \in PCs, Goto(r, pc)  PROVE Moves
  BY <1>1, <1>2, GotoStep
<1>3. ASSUME NEW code \in Codes, Answer(r, code)
      PROVE  Moves /\ req'[r].pc = "answered" /\ req'[r].code = code
  BY <1>1, <1>3, AnswerStep
<1>4. ASSUME UNCHANGED member  PROVE Writes
  <2>1. \A i \in Ids : Exists(i)' <=> Exists(i)
    BY <1>4 DEF Exists
  <2> QED  BY <2>1
<1> HIDE DEF Writes
<1>5. ASSUME CheckProvider(r)
      PROVE  Moves /\ Refused /\ Writes
  <2>1. FoundBy(req[r].method, req[r].key) = {} => Linked(req[r].method, req[r].key) = {}
    BY DEF FoundBy, Linked
  <2> QED  BY <1>2, <1>3, <1>4, <1>5, <2>1 DEF CheckProvider, PCs, Codes
<1>6. ASSUME CheckUsername(r)
      PROVE  Moves /\ Refused /\ Writes
  BY <1>2, <1>3, <1>4, <1>6 DEF CheckUsername, PCs, Codes, At, Federated
<1>7. ASSUME Create(r)
      PROVE  Moves /\ Refused /\ Writes
  <2>1. CASE UNCHANGED <<member, credentials>> /\ Answer(r, 500)
    BY <1>3, <1>4, <1>7, <2>1 DEF Create, At, Codes
  <2>2. CASE Adds(req[r].id, req[r].name, req[r].method, req[r].key) /\ Answer(r, 201)
    <3>1. \A j \in Ids \ {req[r].id} : member'[j] = member[j]
      BY <1>1, <2>2, AddsRows
    <3>2. Writes
      <4>1. req[r].op = "register" /\ req[r].pc = "free"
        BY <1>7 DEF Create, At
      <4>2. ASSUME NEW i \in Ids, i # req[r].id  PROVE Exists(i)' => Exists(i)
        BY <3>1, <4>2 DEF Exists
      <4> QED  BY <4>1, <4>2 DEF Writes
    <3> QED  BY <1>3, <1>7, <2>2, <3>2 DEF Create, At, Codes
  <2> QED  BY <1>1, <1>7, <2>1, <2>2, CreateKind
<1>8. ASSUME RenameFind(r) \/ ApproveFind(r)
      PROVE  Moves /\ Refused /\ Writes
  BY <1>2, <1>3, <1>4, <1>8 DEF RenameFind, ApproveFind, At, PCs, Codes
<1>9. ASSUME RenameUpdate(r) \/ ApproveUpdate(r)
      PROVE  Moves /\ Refused /\ Writes
  <2>1. /\ req[r].op \in {"rename", "approve"}
        /\ \E code \in Codes : Answer(r, code)
    BY <1>9 DEF RenameUpdate, ApproveUpdate, At, Codes
  <2>2. Writes
    <3>1. CASE UNCHANGED member
      BY <1>4, <3>1
    <3>2. CASE Renames(req[r].id, req[r].name)
      <4>1. \A j \in Ids \ {req[r].id} : member'[j] = member[j]
        BY <1>1, <3>2, RenamesRows
      <4>2. Exists(req[r].id)
        BY <3>2 DEF Renames
      <4> QED  BY <4>1, <4>2 DEF Writes, Exists
    <3>3. CASE Restates(req[r].id, "ACTIVE")
      <4>1. \A j \in Ids \ {req[r].id} : member'[j] = member[j]
        BY <1>1, <3>3, RestatesRows
      <4>2. Exists(req[r].id)
        BY <3>3 DEF Restates
      <4> QED  BY <4>1, <4>2 DEF Writes, Exists
    <3> QED  BY <1>1, <1>9, <3>1, <3>2, <3>3, RenameKind, ApproveKind
  <2> QED  BY <1>3, <2>1, <2>2
<1>10. ASSUME RefuseWidget(r) \/ RefuseRename(r) \/ Fail(r)
       PROVE  Moves /\ Refused /\ Writes
  <2>1. \E code \in {400, 401, 403, 500} : Answer(r, code)
    BY <1>10 DEF RefuseWidget, RefuseRename, Fail
  <2>2. UNCHANGED member
    BY <1>10 DEF RefuseWidget, RefuseRename, Fail
  <2> QED  BY <1>3, <1>4, <2>1, <2>2 DEF Codes
<1>11. Moves /\ Refused /\ Writes
  BY <1>5, <1>6, <1>7, <1>8, <1>9, <1>10 DEF ServerStep, Register, Rename, Approve
<1>12. req[r] # Blank /\ req[r].pc # "answered"
  BY DEF ServerStep, Register, Rename, Approve, RefuseWidget, CheckProvider, CheckUsername,
     Create, RefuseRename, RenameFind, RenameUpdate, ApproveFind, ApproveUpdate, Fail, At, Blank
<1> QED  BY <1>1, <1>11, <1>12, AccountStep DEF Writes

LEMMA OtherInv ==
  ASSUME LoginInv, NEW r \in Requests, OtherClient(r)
  PROVE  LoginInv' /\ [Next]_vars
<1>1. /\ login[r].pc = "idle" /\ ClientStep(r) /\ UNCHANGED login
      /\ req'[r].op = "register" => \A s \in Requests : login[s].new # req'[r].id
      /\ TypeOK
  BY DEF OtherClient, LoginAt, LoginInv, AccountInv
<1>2. [Next]_vars
  BY <1>1 DEF Next
<1>3. UNCHANGED <<member, credentials>>
  BY <1>1, LooksOnly
<1>4. Only(r)
  <2>1. ASSUME NEW i \in Ids, NEW n \in Names, NEW method \in Methods,
               NEW key \in Identities \cup {None}, SendRegister(r, i, n, method, key)
        PROVE  Only(r)
    BY <1>1, <2>1, SendStep DEF SendRegister
  <2>2. ASSUME NEW i \in Ids, NEW n \in Names \cup {None}, Send(r, "rename", i, n, None, None)
        PROVE  Only(r)
    BY <1>1, <2>2, SendStep
  <2>3. ASSUME NEW i \in Ids, Send(r, "approve", i, None, None, None)
        PROVE  Only(r)
    BY <1>1, <2>3, SendStep
  <2>4. CASE Done(r)
    BY <1>1, <2>4, BlankStep DEF Done
  <2> QED  BY <1>1, <2>1, <2>2, <2>3, <2>4 DEF ClientStep
<1>5. \A i \in Ids : Exists(i)' => Exists(i)
  BY <1>3 DEF Exists
<1> QED  BY <1>1, <1>2, <1>4, <1>5, AccountStep

LEMMA SetStatusInv ==
  ASSUME LoginInv, UNCHANGED login, NEW i \in Suspendable, NEW s \in Statuses, SetStatus(i, s)
  PROVE  LoginInv'
<1>1. AccountInv /\ TypeOK /\ [Next]_vars /\ i \in Ids
  BY SuspendableAssumption DEF LoginInv, AccountInv, Next
<1>2. AccountInv'
  BY <1>1, TypedStep, TablesStep DEF AccountInv
<1>3. Restates(i, s) /\ req' = req /\ login' = login /\ UNCHANGED credentials
  BY <1>1 DEF SetStatus, Restates
<1>4. ASSUME NEW j \in Ids  PROVE Exists(j)' <=> Exists(j)
  <2>1. member'[i] \in MemberRow /\ Absent \notin MemberRow
    BY <1>1, <1>3, RestatesRows, NoneAssumption DEF Absent, MemberRow
  <2>2. j # i => member'[j] = member[j]
    BY <1>1, <1>3, RestatesRows
  <2>3. Exists(i)
    BY <1>3 DEF Restates
  <2> QED  BY <2>1, <2>2, <2>3 DEF Exists
<1>5. ASSUME NEW r \in Requests  PROVE LoginOK(r)'
  <2>1. LoginOK(r) /\ (login[r].flow = "signup" => login[r].new \in Ids)
    BY DEF LoginInv, LoginOK, ShapeOK
  <2>2. ShapeOK(r)' /\ FoundOK(r)'
    BY <1>3, <2>1 DEF LoginOK, ShapeOK, FoundOK, Awaits
  <2>3. login[r].flow = "signup" => (Exists(login[r].new)' <=> Exists(login[r].new))
    <3> DEFINE j == login[r].new
    <3>1. login'[r].new = j
      BY <1>3
    <3> QED  BY <1>3, <1>4, <2>1
  <2>4. IsLinked(r, login[r].key)' <=> IsLinked(r, login[r].key)
    BY <1>3 DEF IsLinked, Linked
  <2> QED  BY <1>3, <2>1, <2>2, <2>3, <2>4 DEF LoginOK, LinkedOK
<1>6. OwnUuids'
  BY <1>3 DEF LoginInv, OwnUuids
<1> QED  BY <1>2, <1>3, <1>5, <1>6 DEF LoginInv

-----------------------------------------------------------------------------
LEMMA LoginNextInv ==
  ASSUME LoginInv, [LoginNext]_loginVars
  PROVE  LoginInv' /\ [Next]_vars
<1>1. CASE UNCHANGED loginVars
  <2>1. login' = login /\ UNCHANGED vars /\ member' = member /\ credentials' = credentials
        /\ req' = req
    BY <1>1 DEF loginVars, vars
  <2>2. AccountInv'
    BY <2>1, TypedStep, TablesStep DEF LoginInv, AccountInv
  <2> QED  BY <2>1, <2>2 DEF LoginInv, LoginOK, ShapeOK, FoundOK, LinkedOK, Awaits,
             IsLinked, Linked, Exists, OwnUuids
<1>2. ASSUME NEW r \in Requests, LoginStep(r)  PROVE LoginInv' /\ [Next]_vars
  <2>1. CASE Bounce(r)
    BY <2>1, ReplyInv DEF Bounce, LoginAt, Codes
  <2>2. CASE Store(r)
    BY <2>2, ReplyInv DEF Store, LoginAt, Codes
  <2>3. CASE CheckWidget(r)
    BY <2>3, CheckWidgetInv DEF CheckWidget
  <2>4. CASE Verify(r)
    BY <2>4, VerifyInv DEF Verify
  <2> QED  BY <1>2, <2>1, <2>2, <2>3, <2>4, RegisteredInv, FetchProfileInv DEF LoginStep
<1>3. ASSUME NEW r \in Requests, FailLogin(r)  PROVE LoginInv' /\ [Next]_vars
  BY <1>3, ReplyInv DEF FailLogin, Codes
<1>4. ASSUME NEW r \in Requests, LoginClient(r)  PROVE LoginInv' /\ [Next]_vars
  <2>1. UNCHANGED vars
    BY <1>4 DEF LoginClient, SendSignUp, SendCallback, SendTelegram, SendLogin, TakeReply
  <2> QED  BY <1>4, <2>1, LoginClientInv
<1>5. ASSUME NEW r \in Requests, ServerStep(r) \/ Fail(r), UNCHANGED login
      PROVE  LoginInv' /\ [Next]_vars
  BY <1>5, ServerInv DEF Next
<1>6. ASSUME NEW i \in Suspendable, NEW s \in Statuses, SetStatus(i, s), UNCHANGED login
      PROVE  LoginInv' /\ [Next]_vars
  BY <1>6, SetStatusInv DEF Next
<1> QED  BY <1>1, <1>2, <1>3, <1>4, <1>5, <1>6, OtherInv DEF LoginNext

LEMMA LoginInitInv == LoginInit => LoginInv
<1> SUFFICES ASSUME LoginInit  PROVE LoginInv
  OBVIOUS
<1>1. AccountInv /\ \A r \in Requests : login[r] = NoLogin /\ req[r] = Blank
  BY InitAccounts DEF LoginInit, Init
<1>2. /\ NoLogin \in LoginRecord /\ NoLogin.new = None /\ NoLogin.pc = "idle"
      /\ NoLogin.flow = "none" /\ NoLogin.code = 0 /\ NoLogin.member = None
      /\ NoLogin.linked = FALSE
  BY DEF NoLogin, LoginRecord, LoginPCs, Codes
<1> QED  BY <1>1, <1>2 DEF LoginInit, LoginInv, LoginOK, ShapeOK, FoundOK, LinkedOK, OwnUuids

LEMMA LoginInvariant == LoginSpec => []LoginInv
BY LoginInitInv, LoginNextInv, PTL DEF LoginSpec

(* Callbacks and logins do to the accounts what Accounts allows: its        *)
(* theorems hold beside them.                                               *)
THEOREM OnAccounts == LoginSpec => Spec
<1>1. LoginInit => Init
  BY DEF LoginInit
<1> QED  BY <1>1, LoginInvariant, LoginNextInv, PTL DEF LoginSpec, Spec

(* Type correctness. *)
THEOREM LoginTyped == LoginSpec => []LoginTypeOK
<1>1. LoginInv => LoginTypeOK
  BY DEF LoginInv, LoginTypeOK, AccountInv
<1> QED  BY <1>1, LoginInvariant, PTL

(* verifyGoogle and verifyTelegram find the member of the identity that was *)
(* proved, whatever has happened since.                                     *)
THEOREM FindsTheLinked == LoginSpec => []SignsInTheLinked
<1>1. LoginInv => SignsInTheLinked
  BY DEF LoginInv, LoginOK, FoundOK, SignsInTheLinked
<1> QED  BY <1>1, LoginInvariant, PTL

(* The two calls of the callback are one to the member: who has registered  *)
(* is signed in as who has registered.                                      *)
THEOREM SignedUpSignsIn == LoginSpec => []SignUpSignsIn
<1>1. ASSUME LoginInv  PROVE SignUpSignsIn
  <2>1. \A r \in Requests : FoundOK(r)
    BY <1>1 DEF LoginInv, LoginOK
  <2>2. ASSUME NEW r \in Requests, login[r].flow = "signup"
        PROVE  /\ login[r].code # 401
               /\ login[r].member # None /\ login[r].key # None
                    => login[r].member = login[r].new
    BY <2>1, <2>2 DEF FoundOK
  <2> QED  BY <2>2 DEF SignUpSignsIn
<1> QED  BY <1>1, LoginInvariant, PTL

(* The callback may be repeated. *)
THEOREM Repeatable == LoginSpec => []RetrySignsIn
<1>1. LoginInv => RetrySignsIn
  BY DEF LoginInv, LoginOK, LinkedOK, RetrySignsIn
<1> QED  BY <1>1, LoginInvariant, PTL
=============================================================================
