--------------------------- MODULE AccountsProofs ---------------------------
(***************************************************************************)
(* Theorems about Accounts, for any ids, names, identities and requests.   *)
(***************************************************************************)
EXTENDS Accounts, TLAPS

(* What a request in flight has in its hands.  The uuid a registration will *)
(* write is nobody's until it has written it.                               *)
Registering(q) == q.op = "register" /\ q.pc \in {"sent", "unlinked", "free"}

RequestOK(q) ==
  /\ q.op = "register" =>
       q.id \in Ids /\ q.name \in Names /\ q.method \in Methods
  /\ q.op \in {"rename", "approve"} => q.id \in Ids
  /\ q.op \in {"rename", "approve"} /\ q.pc = "found" => Exists(q.id)
  /\ Registering(q) => ~Exists(q.id)
  /\ q.pc \in {"unlinked", "free"} => q.op = "register"
  /\ q.code = 401 => q.method = "TELEGRAM"
  /\ q.code = 201 =>
       /\ q.op = "register" /\ q.pc = "answered" /\ Exists(q.id)
       /\ [type |-> q.method, key |-> q.key, member |-> q.id] \in credentials

RequestInv ==
  /\ \A r \in Requests : RequestOK(req[r])
  /\ \A r, s \in Requests :
       req[r].op = "register" /\ req[s].op = "register" /\ req[r].id = req[s].id => r = s

(* Every member has one credential: the strengthening of AccountsAreWhole   *)
(* that a step preserves.                                                   *)
OneCredential ==
  /\ \A i \in Ids : Exists(i) => \E c \in credentials : c.member = i
  /\ \A c, d \in credentials : c.member = d.member => c = d
  /\ \A c \in credentials : Exists(c.member)

UniqueNames == \A i, j \in Ids : Exists(i) /\ member[i].username = member[j].username => i = j

AccountInv ==
  TypeOK /\ RequestInv /\ OneCredential /\ UniqueNames /\ IdentityHasOneMember

LEMMA RowFacts ==
  ASSUME TypeOK
  PROVE  /\ \A i \in Ids : Exists(i) <=> member[i] \in MemberRow
         /\ \A i \in Ids : Exists(i) <=> member[i].username \in Names
         /\ \A i \in Ids : ~Exists(i) <=> member[i].username = None
<1>1. Absent \notin MemberRow /\ Absent.username = None
  BY NoneAssumption DEF Absent, MemberRow
<1>2. \A m \in MemberRow : m.username \in Names /\ m.username # None
  BY NoneAssumption DEF MemberRow
<1> QED  BY <1>1, <1>2, NoneAssumption DEF TypeOK, Exists

-----------------------------------------------------------------------------
Only(r) ==
  /\ req' \in [Requests -> Request]
  /\ \A s \in Requests : s # r => req'[s] = req[s]

LEMMA GotoStep ==
  ASSUME TypeOK, NEW r \in Requests, NEW pc \in PCs, Goto(r, pc)
  PROVE  /\ Only(r)
         /\ req'[r].pc = pc /\ req'[r].code = req[r].code
         /\ req'[r].op = req[r].op /\ req'[r].id = req[r].id
         /\ req'[r].name = req[r].name
         /\ req'[r].method = req[r].method /\ req'[r].key = req[r].key
BY DEF Goto, Only, TypeOK, Request

LEMMA AnswerStep ==
  ASSUME TypeOK, NEW r \in Requests, NEW code \in Codes, Answer(r, code)
  PROVE  /\ Only(r)
         /\ req'[r].pc = "answered" /\ req'[r].code = code
         /\ req'[r].op = req[r].op /\ req'[r].id = req[r].id
         /\ req'[r].name = req[r].name
         /\ req'[r].method = req[r].method /\ req'[r].key = req[r].key
<1> DEFINE q == [req[r] EXCEPT !.pc = "answered", !.code = code]
<1>1. /\ q \in Request
      /\ q.pc = "answered" /\ q.code = code /\ q.op = req[r].op /\ q.id = req[r].id
      /\ q.name = req[r].name /\ q.method = req[r].method /\ q.key = req[r].key
  BY DEF TypeOK, Request, PCs
<1>2. req' = [req EXCEPT ![r] = q]
  BY DEF Answer
<1> HIDE DEF q
<1> QED  BY <1>1, <1>2 DEF Only, TypeOK

LEMMA BlankStep ==
  ASSUME TypeOK, NEW r \in Requests, req' = [req EXCEPT ![r] = Blank]
  PROVE  Only(r) /\ req'[r] = Blank
<1>1. Blank \in Request
  BY DEF Blank, Request, PCs, Codes
<1> QED  BY <1>1 DEF Only, TypeOK

LEMMA SendStep ==
  ASSUME TypeOK, NEW r \in Requests, NEW op \in {"register", "rename", "approve"},
         NEW i \in Ids, NEW n \in Names \cup {None}, NEW m \in Methods \cup {None},
         NEW k \in Identities \cup {None}, Send(r, op, i, n, m, k)
  PROVE  /\ Only(r)
         /\ req'[r] = [op |-> op, pc |-> "sent", id |-> i, name |-> n,
                       method |-> m, key |-> k, code |-> 0]
         /\ UNCHANGED <<member, credentials>>
<1> DEFINE q == [op |-> op, pc |-> "sent", id |-> i, name |-> n,
                 method |-> m, key |-> k, code |-> 0]
<1>0. 0 \in Codes
  BY DEF Codes
<1>1. q \in Request
  BY <1>0 DEF Request, PCs
<1>2. req' = [req EXCEPT ![r] = q] /\ UNCHANGED <<member, credentials>>
  BY DEF Send
<1> HIDE DEF q
<1>3. Only(r) /\ req'[r] = q
  BY <1>1, <1>2 DEF Only, TypeOK
<1> QED  BY <1>2, <1>3 DEF q

(* What a step does to the tables: nothing; or it adds a member with its    *)
(* credential under a free name and a free key; or it gives an existing     *)
(* member a free name; or it changes a status.                              *)
Adds(i, n, type, k) ==
  /\ i \in Ids /\ n \in Names /\ type \in Methods /\ k \in Identities \cup {None}
  /\ ~Exists(i) /\ ~NameTaken(n) /\ Linked(type, k) = {}
  /\ member' = [member EXCEPT ![i] = [username |-> n, status |-> "UNVERIFIED"]]
  /\ credentials' = credentials \cup {[type |-> type, key |-> k, member |-> i]}

Renames(i, n) ==
  /\ i \in Ids /\ n \in Names /\ Exists(i) /\ ~OthersHave(i, n)
  /\ member' = [member EXCEPT ![i].username = n]
  /\ UNCHANGED credentials

Restates(i, s) ==
  /\ i \in Ids /\ s \in Statuses /\ Exists(i)
  /\ member' = [member EXCEPT ![i].status = s]
  /\ UNCHANGED credentials

(* Rows after each kind of step. *)
LEMMA AddsRows ==
  ASSUME TypeOK, NEW i, NEW n, NEW type, NEW k, Adds(i, n, type, k)
  PROVE  /\ member' \in [Ids -> MemberRow \cup {Absent}]
         /\ credentials' \subseteq CredentialRow
         /\ \A j \in Ids \ {i} : member'[j] = member[j]
         /\ member'[i].username = n /\ member'[i] \in MemberRow
<1>1. [username |-> n, status |-> "UNVERIFIED"] \in MemberRow
  BY DEF Adds, MemberRow, Statuses
<1>2. [type |-> type, key |-> k, member |-> i] \in CredentialRow
  BY DEF Adds, CredentialRow
<1> QED  BY <1>1, <1>2 DEF Adds, TypeOK

LEMMA RenamesRows ==
  ASSUME TypeOK, NEW i, NEW n, Renames(i, n)
  PROVE  /\ member' \in [Ids -> MemberRow \cup {Absent}]
         /\ \A j \in Ids \ {i} : member'[j] = member[j]
         /\ member'[i].username = n /\ member'[i] \in MemberRow
<1>1. member[i] \in MemberRow
  BY RowFacts DEF Renames
<1>2. [member[i] EXCEPT !.username = n] \in MemberRow
      /\ [member[i] EXCEPT !.username = n].username = n
  BY <1>1 DEF Renames, MemberRow
<1> QED  BY <1>2 DEF Renames, TypeOK

LEMMA RestatesRows ==
  ASSUME TypeOK, NEW i, NEW s, Restates(i, s)
  PROVE  /\ member' \in [Ids -> MemberRow \cup {Absent}]
         /\ \A j \in Ids \ {i} : member'[j] = member[j]
         /\ member'[i].username = member[i].username /\ member'[i] \in MemberRow
<1>1. member[i] \in MemberRow
  BY RowFacts DEF Restates
<1>2. [member[i] EXCEPT !.status = s] \in MemberRow
      /\ [member[i] EXCEPT !.status = s].username = member[i].username
  BY <1>1 DEF Restates, MemberRow
<1> QED  BY <1>2 DEF Restates, TypeOK

-----------------------------------------------------------------------------
Tables ==
  \/ UNCHANGED <<member, credentials>>
  \/ \E i \in Ids, n \in Names, type \in Methods, k \in Identities \cup {None} :
       Adds(i, n, type, k)
  \/ \E i \in Ids, n \in Names : Renames(i, n)
  \/ \E i \in Ids, s \in Statuses : Restates(i, s)

LEMMA CreateKind ==
  ASSUME TypeOK, RequestInv, NEW r \in Requests, Create(r)
  PROVE  \/ UNCHANGED <<member, credentials>> /\ Answer(r, 500)
         \/ /\ Adds(req[r].id, req[r].name, req[r].method, req[r].key)
            /\ Answer(r, 201)
<1>1. RequestOK(req[r])
  BY DEF RequestInv
<1>2. req[r].key \in Identities \cup {None}
  BY DEF TypeOK, Request
<1> QED  BY <1>1, <1>2 DEF Create, At, RequestOK, Registering, Adds

LEMMA RenameKind ==
  ASSUME TypeOK, RequestInv, NEW r \in Requests, RenameUpdate(r)
  PROVE  UNCHANGED <<member, credentials>> \/ Renames(req[r].id, req[r].name)
<1>1. RequestOK(req[r])
  BY DEF RequestInv
<1>2. req[r].name \in Names \cup {None}
  BY DEF TypeOK, Request
<1> QED  BY <1>1, <1>2 DEF RenameUpdate, At, RequestOK, Renames

LEMMA ApproveKind ==
  ASSUME TypeOK, RequestInv, NEW r \in Requests, ApproveUpdate(r)
  PROVE  Restates(req[r].id, "ACTIVE") /\ "ACTIVE" \in Statuses
<1>1. RequestOK(req[r])
  BY DEF RequestInv
<1> QED  BY <1>1 DEF ApproveUpdate, At, RequestOK, Restates, Statuses

LEMMA LooksOnly ==
  ASSUME NEW r \in Requests,
         \/ RefuseWidget(r) \/ CheckProvider(r) \/ CheckUsername(r)
         \/ RefuseRename(r) \/ RenameFind(r) \/ ApproveFind(r)
         \/ ClientStep(r) \/ Fail(r)
  PROVE  UNCHANGED <<member, credentials>>
BY DEF RefuseWidget, CheckProvider, CheckUsername, RefuseRename, RenameFind, ApproveFind,
   ClientStep, SendRegister, Send, Done, Fail

LEMMA StepKinds ==
  ASSUME TypeOK, RequestInv, [Next]_vars
  PROVE  Tables
<1>1. ASSUME NEW r \in Requests, Create(r)
      PROVE  Tables
  BY <1>1, CreateKind DEF Tables, Adds
<1>2. ASSUME NEW r \in Requests, RenameUpdate(r)
      PROVE  Tables
  BY <1>2, RenameKind DEF Tables, Renames
<1>3. ASSUME NEW r \in Requests, ApproveUpdate(r)
      PROVE  Tables
  BY <1>3, ApproveKind DEF Tables, Restates
<1>4. ASSUME NEW i \in Suspendable, NEW s \in Statuses, SetStatus(i, s)
      PROVE  Tables
  BY <1>4, SuspendableAssumption DEF SetStatus, Restates, Tables
<1>5. CASE UNCHANGED vars
  BY <1>5 DEF vars, Tables
<1> QED  BY <1>1, <1>2, <1>3, <1>4, <1>5, LooksOnly
     DEF Next, ServerStep, Register, Rename, Approve, Tables

(* No member and no credential ever goes away. *)
LEMMA MembersStay ==
  ASSUME TypeOK, Tables
  PROVE  /\ member' \in [Ids -> MemberRow \cup {Absent}]
         /\ credentials' \subseteq CredentialRow
         /\ credentials \subseteq credentials'
         /\ \A i \in Ids : Exists(i) => Exists(i)'
<1>0. Absent \notin MemberRow
  BY NoneAssumption DEF Absent, MemberRow
<1>1. CASE UNCHANGED <<member, credentials>>
  BY <1>1 DEF TypeOK, Exists
<1>2. ASSUME NEW i \in Ids, NEW n \in Names, NEW type \in Methods,
             NEW k \in Identities \cup {None}, Adds(i, n, type, k)
      PROVE  /\ member' \in [Ids -> MemberRow \cup {Absent}]
             /\ credentials' \subseteq CredentialRow
             /\ credentials \subseteq credentials'
             /\ \A j \in Ids : Exists(j) => Exists(j)'
  BY <1>0, <1>2, AddsRows DEF Adds, Exists
<1>3. ASSUME NEW i \in Ids, NEW n \in Names, Renames(i, n)
      PROVE  /\ member' \in [Ids -> MemberRow \cup {Absent}]
             /\ credentials' = credentials
             /\ \A j \in Ids : Exists(j) => Exists(j)'
  BY <1>0, <1>3, RenamesRows DEF Renames, Exists
<1>4. ASSUME NEW i \in Ids, NEW s \in Statuses, Restates(i, s)
      PROVE  /\ member' \in [Ids -> MemberRow \cup {Absent}]
             /\ credentials' = credentials
             /\ \A j \in Ids : Exists(j) => Exists(j)'
  BY <1>0, <1>4, RestatesRows DEF Restates, Exists
<1>5. credentials \subseteq CredentialRow
  BY DEF TypeOK
<1> QED  BY <1>1, <1>2, <1>3, <1>4, <1>5 DEF Tables

(* The requests. *)
LEMMA RequestsStep ==
  ASSUME TypeOK, RequestInv, [Next]_vars
  PROVE  req' \in [Requests -> Request] /\ RequestInv'
<1>0. /\ \A r \in Requests : RequestOK(req[r])
      /\ Tables /\ credentials \subseteq credentials'
      /\ \A i \in Ids : Exists(i) => Exists(i)'
  BY StepKinds, MembersStay DEF RequestInv
<1>a. \A s \in Requests : req[s] \in Request
  BY DEF TypeOK
(* A request keeps what it relies on when others step, unless someone       *)
(* writes its uuid; and then its uuid is another registration's.            *)
<1> DEFINE OwnId(r) ==
             \A s \in Requests : req'[r].op = "register" /\ req[s].op = "register"
                /\ req'[r].id = req[s].id => s = r
           Writes(r) ==
             \A i \in Ids : Exists(i)' => (Exists(i) \/ (req[r].op = "register" /\ i = req[r].id))
<1>b. ASSUME NEW r \in Requests, Only(r), RequestOK(req[r])', OwnId(r), Writes(r)
      PROVE  req' \in [Requests -> Request] /\ RequestInv'
  <2>1. ASSUME NEW s \in Requests, s # r  PROVE  RequestOK(req[s])'
    <3>1. req'[s] = req[s] /\ RequestOK(req[s])
      BY <1>0, <1>b, <2>1 DEF Only
    <3>2. Registering(req[s]) => ~Exists(req[s].id)'
      BY <1>b, <2>1, <3>1 DEF RequestOK, Registering, RequestInv
    <3>3. req[s].op # "none" => req[s].id \in Ids \/ req[s].op \notin {"register", "rename", "approve"}
      BY <3>1 DEF RequestOK
    <3> QED  BY <1>0, <3>1, <3>2, <3>3 DEF RequestOK, Registering
  <2>2. RequestOK(req[r])'
    BY <1>b
  <2>3. \A s, t \in Requests :
          req'[s].op = "register" /\ req'[t].op = "register" /\ req'[s].id = req'[t].id => s = t
    BY <1>b DEF Only, RequestInv
  <2> QED  BY <1>b, <2>1, <2>2, <2>3 DEF RequestInv, Only
<1>c. ASSUME NEW r \in Requests, req'[r].op = req[r].op, req'[r].id = req[r].id
      PROVE  OwnId(r)
  BY <1>c DEF RequestInv
<1>d. ASSUME UNCHANGED <<member, credentials>>, NEW r \in Requests
      PROVE  Writes(r)
  <2>1. \A i \in Ids : Exists(i)' => Exists(i)
    BY <1>d DEF Exists
  <2> QED  BY <2>1
<1> HIDE DEF OwnId, Writes
<1>1. ASSUME NEW r \in Requests, UNCHANGED <<member, credentials>>, Only(r),
             RequestOK(req[r])', req'[r].op = req[r].op, req'[r].id = req[r].id
      PROVE  req' \in [Requests -> Request] /\ RequestInv'
  BY <1>1, <1>b, <1>c, <1>d
<1>2. ASSUME NEW r \in Requests, NEW code \in Codes \ {201}, Answer(r, code),
             code = 401 => req[r].method = "TELEGRAM"
      PROVE  /\ Only(r) /\ RequestOK(req[r])'
             /\ req'[r].op = req[r].op /\ req'[r].id = req[r].id
  <2>1. RequestOK(req[r])
    BY <1>0
  <2> QED  BY <1>2, <2>1, AnswerStep DEF RequestOK, Registering
<1>3. ASSUME NEW r \in Requests, CheckProvider(r) \/ CheckUsername(r)
      PROVE  req' \in [Requests -> Request] /\ RequestInv'
  <2>1. UNCHANGED <<member, credentials>> /\ req[r].op = "register"
        /\ req[r].pc \in {"sent", "unlinked"}
    BY <1>3 DEF CheckProvider, CheckUsername, At
  <2>2. ASSUME NEW pc \in {"unlinked", "free"}, Goto(r, pc)
        PROVE  /\ Only(r) /\ RequestOK(req[r])'
               /\ req'[r].op = req[r].op /\ req'[r].id = req[r].id
    <3>1. RequestOK(req[r]) /\ pc \in PCs
      BY <1>0 DEF PCs
    <3> QED  BY <2>1, <2>2, <3>1, GotoStep DEF RequestOK, Registering, Exists
  <2> QED  BY <1>1, <1>2, <1>3, <2>1, <2>2 DEF CheckProvider, CheckUsername, Codes
<1>4. ASSUME NEW r \in Requests, RenameFind(r) \/ ApproveFind(r)
      PROVE  req' \in [Requests -> Request] /\ RequestInv'
  <2>1. UNCHANGED <<member, credentials>> /\ req[r].op \in {"rename", "approve"}
    BY <1>4 DEF RenameFind, ApproveFind, At
  <2>2. ASSUME Goto(r, "found"), Exists(req[r].id)
        PROVE  /\ Only(r) /\ RequestOK(req[r])'
               /\ req'[r].op = req[r].op /\ req'[r].id = req[r].id
    <3>1. RequestOK(req[r]) /\ "found" \in PCs
      BY <1>0 DEF PCs
    <3> QED  BY <2>1, <2>2, <3>1, GotoStep DEF RequestOK, Registering, Exists
  <2>3. \/ \E code \in {404, 409} : Answer(r, code)
        \/ Goto(r, "found") /\ Exists(req[r].id)
    BY <1>4 DEF RenameFind, ApproveFind
  <2> QED  BY <1>1, <1>2, <2>1, <2>2, <2>3 DEF Codes
<1>5. ASSUME NEW r \in Requests, RefuseWidget(r) \/ RefuseRename(r) \/ Fail(r)
      PROVE  req' \in [Requests -> Request] /\ RequestInv'
  <2>1. UNCHANGED <<member, credentials>>
    BY <1>5, LooksOnly
  <2>2. \E code \in {400, 401, 403, 500} :
          Answer(r, code) /\ (code = 401 => req[r].method = "TELEGRAM")
    BY <1>5 DEF RefuseWidget, RefuseRename, Fail
  <2> QED  BY <1>1, <1>2, <2>1, <2>2 DEF Codes
<1>6. ASSUME NEW r \in Requests, Create(r)
      PROVE  req' \in [Requests -> Request] /\ RequestInv'
  <2>1. CASE UNCHANGED <<member, credentials>> /\ Answer(r, 500)
    BY <1>1, <1>2, <2>1 DEF Codes
  <2>2. CASE Adds(req[r].id, req[r].name, req[r].method, req[r].key) /\ Answer(r, 201)
    <3>1. /\ Only(r) /\ req'[r].pc = "answered" /\ req'[r].code = 201
          /\ req'[r].op = req[r].op /\ req'[r].id = req[r].id
          /\ req'[r].name = req[r].name
          /\ req'[r].method = req[r].method /\ req'[r].key = req[r].key
      BY <2>2, AnswerStep DEF Codes
    <3>2. req[r].op = "register" /\ RequestOK(req[r])
      BY <1>0, <1>6 DEF Create, At
    <3>3. Exists(req[r].id)' /\ \A i \in Ids \ {req[r].id} : Exists(i)' => Exists(i)
      BY <2>2, <3>1, AddsRows, NoneAssumption DEF Exists, Absent, MemberRow
    <3>4. [type |-> req[r].method, key |-> req[r].key, member |-> req[r].id] \in credentials'
      BY <2>2 DEF Adds
    <3>5. RequestOK(req[r])'
      BY <3>1, <3>2, <3>3, <3>4 DEF RequestOK, Registering, Exists
    <3>6. OwnId(r) /\ Writes(r)
      BY <1>c, <3>1, <3>2, <3>3 DEF Writes
    <3> QED  BY <1>b, <3>1, <3>5, <3>6
  <2> QED  BY <1>6, <2>1, <2>2, CreateKind
<1>7. ASSUME NEW r \in Requests, RenameUpdate(r) \/ ApproveUpdate(r)
      PROVE  req' \in [Requests -> Request] /\ RequestInv'
  <2>1. PICK code \in Codes \ {201, 401} : Answer(r, code)
    BY <1>7 DEF RenameUpdate, ApproveUpdate, Codes
  <2>2. \A i \in Ids : Exists(i)' => Exists(i)
    <3>1. UNCHANGED <<member, credentials>> \/ Renames(req[r].id, req[r].name)
          \/ Restates(req[r].id, "ACTIVE")
      BY <1>7, RenameKind, ApproveKind
    <3> QED  BY <3>1, RenamesRows, RestatesRows DEF Exists, Renames, Restates
  <2>3. Only(r) /\ RequestOK(req[r])' /\ req'[r].op = req[r].op /\ req'[r].id = req[r].id
    BY <1>2, <2>1
  <2>4. Writes(r)
    BY <2>2 DEF Writes
  <2> QED  BY <1>b, <1>c, <2>3, <2>4
<1>8. ASSUME NEW r \in Requests, Done(r)
      PROVE  req' \in [Requests -> Request] /\ RequestInv'
  <2>1. Only(r) /\ req'[r] = Blank /\ UNCHANGED <<member, credentials>>
    BY <1>8, BlankStep DEF Done
  <2>2. RequestOK(req[r])'
    BY <2>1 DEF RequestOK, Registering, Blank
  <2>3. OwnId(r)
    BY <2>1 DEF Blank, OwnId
  <2> QED  BY <1>b, <1>d, <2>1, <2>2, <2>3
<1>9. ASSUME NEW r \in Requests, NEW i \in Ids, NEW n \in Names \cup {None},
             NEW op \in {"rename", "approve"}, Send(r, op, i, n, None, None)
      PROVE  req' \in [Requests -> Request] /\ RequestInv'
  <2>1. op \in {"register", "rename", "approve"} /\ None \in Methods \cup {None}
        /\ None \in Identities \cup {None}
    OBVIOUS
  <2>2. /\ Only(r) /\ UNCHANGED <<member, credentials>>
        /\ req'[r] = [op |-> op, pc |-> "sent", id |-> i, name |-> n,
                      method |-> None, key |-> None, code |-> 0]
    BY <1>9, <2>1, SendStep
  <2>3. RequestOK(req[r])'
    BY <2>2 DEF RequestOK, Registering
  <2>4. OwnId(r)
    BY <2>2 DEF OwnId
  <2> QED  BY <1>b, <1>d, <2>2, <2>3, <2>4
<1>10. ASSUME NEW r \in Requests, NEW i \in Ids, NEW n \in Names, NEW m \in Methods,
              NEW k \in Identities \cup {None}, SendRegister(r, i, n, m, k)
       PROVE  req' \in [Requests -> Request] /\ RequestInv'
  <2>1. "register" \in {"register", "rename", "approve"} /\ m \in Methods \cup {None}
        /\ n \in Names \cup {None} /\ Send(r, "register", i, n, m, k)
    BY <1>10 DEF SendRegister
  <2>2. /\ Only(r) /\ UNCHANGED <<member, credentials>>
        /\ req'[r] = [op |-> "register", pc |-> "sent", id |-> i, name |-> n,
                      method |-> m, key |-> k, code |-> 0]
    BY <2>1, SendStep
  <2>3. ~Exists(i) /\ \A s \in Requests : ~(req[s].op = "register" /\ req[s].id = i)
    BY <1>10 DEF SendRegister
  <2>4. RequestOK(req[r])'
    BY <2>2, <2>3 DEF RequestOK, Registering, Exists
  <2>5. OwnId(r)
    BY <2>2, <2>3 DEF OwnId
  <2> QED  BY <1>b, <1>d, <2>2, <2>4, <2>5
<1>11. ASSUME NEW i \in Suspendable, NEW s \in Statuses, SetStatus(i, s)
       PROVE  req' \in [Requests -> Request] /\ RequestInv'
  <2>1. Restates(i, s) /\ UNCHANGED <<req, credentials>>
    BY <1>11, SuspendableAssumption DEF SetStatus, Restates
  <2>2. \A j \in Ids : Exists(j)' <=> Exists(j)
    BY <1>0, <2>1, RestatesRows DEF Exists, Restates
  <2>3. ASSUME NEW r \in Requests  PROVE  RequestOK(req[r])'
    BY <1>0, <2>1, <2>2, <2>3 DEF RequestOK, Registering
  <2> QED  BY <1>a, <2>1, <2>3 DEF RequestInv, TypeOK
<1>12. CASE UNCHANGED vars
  BY <1>12 DEF vars, RequestInv, RequestOK, Registering, Exists, TypeOK
<1> QED
  <2>1. ASSUME NEW r \in Requests, ClientStep(r)
        PROVE  req' \in [Requests -> Request] /\ RequestInv'
    BY <1>8, <1>9, <1>10, <2>1 DEF ClientStep
  <2> QED
    BY <1>3, <1>4, <1>5, <1>6, <1>7, <1>11, <1>12, <2>1
       DEF Next, ServerStep, Register, Rename, Approve

-----------------------------------------------------------------------------
(* The invariants. *)

LEMMA InitAccounts == Init => AccountInv
<1> SUFFICES ASSUME Init  PROVE AccountInv
  OBVIOUS
<1>1. Blank \in Request
  BY DEF Blank, Request, PCs, Codes
<1>2. TypeOK /\ \A i \in Ids : ~Exists(i)
  BY <1>1 DEF Init, TypeOK, Exists
<1>3. RequestInv
  BY DEF Init, RequestInv, RequestOK, Registering, Blank
<1> QED
  BY <1>2, <1>3 DEF Init, AccountInv, OneCredential, UniqueNames, IdentityHasOneMember

LEMMA TypedStep ==
  ASSUME TypeOK, RequestInv, [Next]_vars
  PROVE  TypeOK' /\ RequestInv' /\ Tables
BY RequestsStep, StepKinds, MembersStay DEF TypeOK

LEMMA TablesStep ==
  ASSUME AccountInv, Tables
  PROVE  OneCredential' /\ UniqueNames' /\ IdentityHasOneMember'
<1>0. TypeOK /\ OneCredential /\ UniqueNames /\ IdentityHasOneMember
  BY DEF AccountInv
<1>a. Absent \notin MemberRow /\ Absent.username = None /\ None \notin Names
      /\ \A m \in MemberRow : m.username \in Names
  BY NoneAssumption DEF Absent, MemberRow
<1>b. \A c \in credentials : c.member \in Ids
  BY <1>0 DEF TypeOK, CredentialRow
<1>1. CASE UNCHANGED <<member, credentials>>
  BY <1>0, <1>1 DEF OneCredential, UniqueNames, IdentityHasOneMember, Exists
<1>2. ASSUME NEW i \in Ids, NEW n \in Names, NEW type \in Methods,
             NEW k \in Identities \cup {None}, Adds(i, n, type, k)
      PROVE  OneCredential' /\ UniqueNames' /\ IdentityHasOneMember'
  <2> DEFINE c == [type |-> type, key |-> k, member |-> i]
  <2>1. c.type = type /\ c.key = k /\ c.member = i /\ credentials' = credentials \cup {c}
        /\ ~Exists(i) /\ Linked(type, k) = {} /\ \A j \in Ids : member[j].username # n
    BY <1>2 DEF Adds, NameTaken
  <2> HIDE DEF c
  <2>2. /\ \A j \in Ids \ {i} : member'[j] = member[j]
        /\ member'[i].username = n /\ member'[i] # Absent
    BY <1>0, <1>2, <1>a, AddsRows
  <2>3. OneCredential'
    BY <1>0, <1>b, <2>1, <2>2 DEF OneCredential, Exists
  <2>4. UniqueNames'
    BY <1>0, <2>1, <2>2 DEF UniqueNames, Exists
  <2>5. IdentityHasOneMember'
    BY <1>0, <2>1 DEF IdentityHasOneMember, Linked
  <2> QED  BY <2>3, <2>4, <2>5
<1>3. ASSUME NEW i \in Ids, NEW n \in Names, Renames(i, n)
      PROVE  OneCredential' /\ UniqueNames' /\ IdentityHasOneMember'
  <2>1. /\ \A j \in Ids \ {i} : member'[j] = member[j]
        /\ member'[i].username = n /\ member'[i] # Absent /\ Exists(i)
        /\ credentials' = credentials /\ \A j \in Ids \ {i} : member[j].username # n
    BY <1>0, <1>3, <1>a, RenamesRows DEF Renames, OthersHave
  <2>2. OneCredential'
    BY <1>0, <1>b, <2>1 DEF OneCredential, Exists
  <2>3. UniqueNames'
    BY <1>0, <2>1 DEF UniqueNames, Exists
  <2> QED  BY <1>0, <2>1, <2>2, <2>3 DEF IdentityHasOneMember
<1>4. ASSUME NEW i \in Ids, NEW s \in Statuses, Restates(i, s)
      PROVE  OneCredential' /\ UniqueNames' /\ IdentityHasOneMember'
  <2>1. /\ \A j \in Ids \ {i} : member'[j] = member[j]
        /\ member'[i].username = member[i].username /\ member'[i] # Absent /\ Exists(i)
        /\ credentials' = credentials
    BY <1>0, <1>4, <1>a, RestatesRows DEF Restates
  <2>2. OneCredential'
    BY <1>0, <1>b, <2>1 DEF OneCredential, Exists
  <2>3. UniqueNames'
    BY <1>0, <2>1 DEF UniqueNames, Exists
  <2> QED  BY <1>0, <2>1, <2>2, <2>3 DEF IdentityHasOneMember
<1> QED  BY <1>1, <1>2, <1>3, <1>4 DEF Tables

LEMMA AccountsInvariant == Spec => []AccountInv
<1>1. AccountInv /\ [Next]_vars => AccountInv'
  BY TypedStep, TablesStep DEF AccountInv
<1> QED  BY <1>1, InitAccounts, PTL DEF Spec

(* Type correctness. *)
THEOREM Typed == Spec => []TypeOK
<1>1. AccountInv => TypeOK
  BY DEF AccountInv
<1> QED  BY <1>1, AccountsInvariant, PTL

(* No half accounts, for any number of registrations in flight. *)
THEOREM Whole == Spec => []AccountsAreWhole
<1>1. ASSUME AccountInv  PROVE AccountsAreWhole
  <2>0. TypeOK /\ OneCredential /\ \A r \in Requests : RequestOK(req[r])
    BY <1>1 DEF AccountInv, RequestInv
  <2>1. ASSUME NEW i \in Ids, Exists(i)
        PROVE  \E c \in credentials : {d \in credentials : d.member = i} = {c}
    <3>1. PICK c \in credentials : c.member = i
      BY <2>0, <2>1 DEF OneCredential
    <3>2. {d \in credentials : d.member = i} = {c}
      BY <2>0, <3>1 DEF OneCredential
    <3> QED  BY <3>2
  <2> QED  BY <2>0, <2>1 DEF AccountsAreWhole, OneCredential, RequestOK
<1> QED  BY <1>1, AccountsInvariant, PTL

(* An identity signs in to one member. *)
THEOREM OneMember == Spec => []IdentityHasOneMember
<1>1. AccountInv => IdentityHasOneMember
  BY DEF AccountInv
<1> QED  BY <1>1, AccountsInvariant, PTL

-----------------------------------------------------------------------------
(* The refinement. *)

LEMMA ListingStep ==
  ASSUME AccountInv, Tables
  PROVE  [Listing!Next]_(Listing!vars)
<1> DEFINE name == [i \in Ids |-> member[i].username]
           links == [i \in Ids |-> LinksOf(i)]
<1>0. TypeOK /\ OneCredential /\ UniqueNames /\ IdentityHasOneMember
  BY DEF AccountInv
<1>a. \A i \in Ids : (Exists(i) <=> name[i] # None)
  BY <1>0, RowFacts, NoneAssumption
<1>1. CASE UNCHANGED <<member, credentials>>
  BY <1>1 DEF Listing!vars, LinksOf
<1>2. ASSUME NEW i \in Ids, NEW n \in Names, NEW type \in Methods,
             NEW k \in Identities \cup {None}, Adds(i, n, type, k)
      PROVE  Listing!Next
  <2> DEFINE c == [type |-> type, key |-> k, member |-> i]
             K == IF k = None THEN {} ELSE {<<type, k>>}
  <2>1. c.type = type /\ c.key = k /\ c.member = i /\ credentials' = credentials \cup {c}
        /\ ~Exists(i) /\ Linked(type, k) = {} /\ \A j \in Ids : member[j].username # n
    BY <1>2 DEF Adds, NameTaken
  <2> HIDE DEF c
  <2>2. /\ \A j \in Ids \ {i} : member'[j] = member[j]
        /\ member'[i].username = n
    BY <1>0, <1>2, AddsRows
  <2>3. name' = [name EXCEPT ![i] = n]
    BY <2>2
  <2>4. \A j \in Ids \ {i} : LinksOf(j)' = LinksOf(j)
    BY <2>1 DEF LinksOf
  <2>5. LinksOf(i)' = K
    <3>1. \A d \in credentials : d.member # i
      BY <1>0, <2>1 DEF OneCredential
    <3> QED  BY <2>1, <3>1 DEF LinksOf
  <2>6. links' = [links EXCEPT ![i] = K]
    BY <2>4, <2>5
  <2>7. \A x \in K : \A j \in Ids : x \notin links[j]
    BY <2>1 DEF LinksOf, Linked
  <2>8. name[i] = None /\ \A j \in Ids : name[j] # n
    BY <1>a, <2>1
  <2>9. Listing!Join(i, n, K)
    BY <2>3, <2>6, <2>7, <2>8 DEF Listing!Join, Listing!Taken, Listing!Linked
  <2>10. K = {} \/ \E x \in Methods \X Identities : K = {x}
    OBVIOUS
  <2> QED  BY <2>9, <2>10 DEF Listing!Next
<1>3. ASSUME NEW i \in Ids, NEW n \in Names, Renames(i, n)
      PROVE  [Listing!Next]_(Listing!vars)
  <2>1. /\ \A j \in Ids \ {i} : member'[j] = member[j]
        /\ member'[i].username = n /\ Exists(i)
        /\ credentials' = credentials /\ \A j \in Ids \ {i} : member[j].username # n
    BY <1>0, <1>3, RenamesRows DEF Renames, OthersHave
  <2>2. name' = [name EXCEPT ![i] = n] /\ links' = links
    <3>0. /\ \A j \in Ids \ {i} : member'[j] = member[j]
          /\ member'[i].username = n
      BY <2>1
    <3>1. name' = [name EXCEPT ![i] = n]
      BY <3>0
    <3>2. \A j \in Ids : LinksOf(j)' = LinksOf(j)
      BY <2>1 DEF LinksOf
    <3> QED  BY <3>1, <3>2
  <2>3. CASE member[i].username = n
    <3>1. name' = name
      BY <2>2, <2>3
    <3> QED  BY <2>2, <3>1 DEF Listing!vars
  <2>4. CASE member[i].username # n
    <3>1. Listing!Rename(i, n)
      BY <1>a, <2>1, <2>2, <2>4 DEF Listing!Rename, Listing!Taken
    <3> QED  BY <3>1 DEF Listing!Next
  <2> QED  BY <2>3, <2>4
<1>4. ASSUME NEW i \in Ids, NEW s \in Statuses, Restates(i, s)
      PROVE  UNCHANGED Listing!vars
  <2>1. /\ \A j \in Ids : member'[j].username = member[j].username
        /\ credentials' = credentials
    BY <1>0, <1>4, RestatesRows DEF Restates
  <2> QED  BY <2>1 DEF Listing!vars, LinksOf
<1> QED  BY <1>1, <1>2, <1>3, <1>4 DEF Tables

(* Registrations and renames take effect one at a time. *)
THEOREM ImplementsDirectory == Spec => DirectorySpec
<1>1. Init => Listing!Init
  <2> SUFFICES ASSUME Init  PROVE Listing!Init
    OBVIOUS
  <2>1. \A i \in Ids : member[i].username = None /\ LinksOf(i) = {}
    BY DEF Init, Absent, LinksOf
  <2> QED  BY <2>1 DEF Listing!Init
<1>2. AccountInv /\ [Next]_vars => [Listing!Next]_(Listing!vars)
  BY TypedStep, ListingStep DEF AccountInv
<1> QED  BY <1>1, <1>2, AccountsInvariant, PTL DEF Spec, DirectorySpec, Listing!Spec
-----------------------------------------------------------------------------
(* A step that changes row i, and the request it does it for. *)
LEMMA RowChanges ==
  ASSUME TypeOK, RequestInv, [Next]_vars, NEW i \in Ids, Exists(i), member'[i] # member[i]
  PROVE  \/ \E r \in Requests : RenameUpdate(r) /\ Renames(req[r].id, req[r].name)
         \/ \E r \in Requests : ApproveUpdate(r) /\ Restates(req[r].id, "ACTIVE")
         \/ \E s \in Statuses : i \in Suspendable /\ SetStatus(i, s)
<1>1. ASSUME NEW r \in Requests, Create(r)
      PROVE  FALSE
  BY <1>1, CreateKind, AddsRows DEF Adds
<1>2. ASSUME NEW r \in Requests, RenameUpdate(r)
      PROVE  Renames(req[r].id, req[r].name)
  BY <1>2, RenameKind
<1>3. ASSUME NEW r \in Requests, ApproveUpdate(r)
      PROVE  Restates(req[r].id, "ACTIVE")
  BY <1>3, ApproveKind
<1>4. ASSUME NEW j \in Suspendable, NEW s \in Statuses, SetStatus(j, s)
      PROVE  j = i
  BY <1>4, SuspendableAssumption DEF SetStatus, TypeOK
<1>5. CASE UNCHANGED vars
  BY <1>5 DEF vars
<1> QED  BY <1>1, <1>2, <1>3, <1>4, <1>5, LooksOnly
     DEF Next, ServerStep, Register, Rename, Approve

(* No update writes back what it read before its await. *)
THEOREM NoOverwrite == Spec => UpdatesDoNotOverwrite
<1>1. ASSUME AccountInv, [Next]_vars, NEW i \in Ids, Exists(i)
      PROVE  AsAsked(i)
  <2>0. TypeOK /\ RequestInv /\ member[i] \in MemberRow
    BY <1>1, RowFacts DEF AccountInv
  <2>1. CASE member'[i] = member[i]
    BY <2>1 DEF AsAsked
  <2>2. ASSUME NEW r \in Requests, RenameUpdate(r), Renames(req[r].id, req[r].name),
               member'[i] # member[i]
        PROVE  AsAsked(i)
    <3>1. At(r, "rename", "found")
      BY <2>2 DEF RenameUpdate
    <3>2. req[r].id = i
      BY <2>0, <2>2, RenamesRows DEF Renames
    <3>3. member'[i] = [member[i] EXCEPT !.username = req[r].name]
      BY <2>0, <2>2, <3>2 DEF Renames, TypeOK
    <3>4. member'[i].username = req[r].name /\ member'[i].status = member[i].status
      BY <2>0, <3>3 DEF MemberRow
    <3> QED  BY <3>1, <3>2, <3>4 DEF AsAsked
  <2>3. ASSUME NEW r \in Requests, ApproveUpdate(r), Restates(req[r].id, "ACTIVE"),
               member'[i] # member[i]
        PROVE  AsAsked(i)
    <3>1. At(r, "approve", "found")
      BY <2>3 DEF ApproveUpdate
    <3>2. req[r].id = i
      BY <2>0, <2>3, RestatesRows DEF Restates
    <3>3. member'[i] = [member[i] EXCEPT !.status = "ACTIVE"]
      BY <2>0, <2>3, <3>2 DEF Restates, TypeOK
    <3>4. member'[i].username = member[i].username /\ member'[i].status = "ACTIVE"
      BY <2>0, <3>3 DEF MemberRow
    <3> QED  BY <3>1, <3>2, <3>4 DEF AsAsked
  <2>4. ASSUME NEW s \in Statuses, i \in Suspendable, SetStatus(i, s)
        PROVE  AsAsked(i)
    <3>1. member'[i] = [member[i] EXCEPT !.status = s] /\ UNCHANGED req
      BY <2>0, <2>4 DEF SetStatus, TypeOK
    <3>2. member'[i].username = member[i].username
      BY <2>0, <3>1 DEF MemberRow
    <3> QED  BY <2>4, <3>1, <3>2 DEF AsAsked
  <2> QED  BY <1>1, <2>0, <2>1, <2>2, <2>3, <2>4, RowChanges
<1>2. AccountInv /\ [Next]_vars => [\A i \in Ids : Exists(i) => AsAsked(i)]_vars
  BY <1>1
<1> QED  BY <1>2, AccountsInvariant, PTL DEF Spec, UpdatesDoNotOverwrite
=============================================================================
