------------------------------ MODULE Accounts ------------------------------
(***************************************************************************)
(* The Member and Credential tables: registration by the four methods,     *)
(* PATCH /members/:id, POST /admin/members/:id/approve, and the operator   *)
(* who suspends members in the database.                                   *)
(*                                                                         *)
(* Every handler looks first and writes later, in separate awaits.  What   *)
(* holds when two of them interleave is up to the unique indexes of        *)
(* schema.prisma, which the writes below respect.                          *)
(*                                                                         *)
(* A registration with a missing or malformed field is answered 400 before *)
(* the handler awaits anything; those requests are left out.               *)
(***************************************************************************)
EXTENDS Integers, FiniteSets

CONSTANTS
  Ids,         \* member ids (uuids)
  Names,       \* usernames
  Identities,  \* a passkey's credentialId, a Google or a Telegram account
  Requests,    \* slots for requests in flight
  Suspendable, \* the members whose status an operator may set
  None,        \* null
  Faults       \* TRUE: an await may reject

ASSUME NoneAssumption == None \notin Ids \cup Names \cup Identities
ASSUME SuspendableAssumption == Suspendable \subseteq Ids
ASSUME FaultsAssumption == Faults \in BOOLEAN

VARIABLES
  member,       \* member[i]: the row of Member with id i, or Absent
  credentials,  \* the rows of Credential
  req           \* the request in each slot

vars == <<member, credentials, req>>

Statuses == {"UNVERIFIED", "ACTIVE", "SUSPENDED"}

MemberRow == [username : Names, status : Statuses]

Absent == [username |-> None, status |-> None]

(* providerId and credentialId are one key here: a type uses one of them.   *)
Methods == {"PASSWORD", "PASSKEY", "GOOGLE", "TELEGRAM"}
Federated == {"GOOGLE", "TELEGRAM"}

CredentialRow == [type : Methods, key : Identities \cup {None}, member : Ids]

PCs == {"idle", "sent", "unlinked", "free", "found", "answered"}

Codes == {0, 200, 201, 400, 401, 403, 404, 409, 500}

Request ==
  [op     : {"none", "register", "rename", "approve"},
   pc     : PCs,
   id     : Ids \cup {None},         \* the new uuid, or :id of the path
   name   : Names \cup {None},       \* the username asked for; None: none, or ill-formed
   method : Methods \cup {None},
   key    : Identities \cup {None},
   code   : Codes]

Blank == [op |-> "none", pc |-> "idle", id |-> None, name |-> None,
          method |-> None, key |-> None, code |-> 0]

TypeOK ==
  /\ member \in [Ids -> MemberRow \cup {Absent}]
  /\ credentials \subseteq CredentialRow
  /\ req \in [Requests -> Request]

Init ==
  /\ member = [i \in Ids |-> Absent]
  /\ credentials = {}
  /\ req = [r \in Requests |-> Blank]

-----------------------------------------------------------------------------
At(r, op, pc) == req[r].op = op /\ req[r].pc = pc

Goto(r, pc) == req' = [req EXCEPT ![r] = [@ EXCEPT !.pc = pc]]

Answer(r, code) ==
  req' = [req EXCEPT ![r] = [@ EXCEPT !.pc = "answered", !.code = code]]

Exists(i) == member[i] # Absent

NameTaken(n) == \E i \in Ids : member[i].username = n

(* The credential rows a new one with this type and key would collide with: *)
(* @@unique([type, providerId]) and credentialId @unique.  NULLs never do.  *)
Linked(type, key) ==
  {c \in credentials : c.type = type /\ c.key = key /\ key # None}

(* findFirst by type and providerId.  A providerId that is undefined is no  *)
(* condition for Prisma: every row of the type is as good.                  *)
FoundBy(type, key) ==
  {c \in credentials : c.type = type /\ key \in {c.key, None}}

Send(r, op, id, name, method, key) ==
  /\ req[r] = Blank
  /\ req' = [req EXCEPT ![r] =
       [op |-> op, pc |-> "sent", id |-> id, name |-> name,
        method |-> method, key |-> key, code |-> 0]]
  /\ UNCHANGED <<member, credentials>>

Done(r) ==
  /\ req[r].pc = "answered"
  /\ req' = [req EXCEPT ![r] = Blank]
  /\ UNCHANGED <<member, credentials>>

-----------------------------------------------------------------------------
(* Registration.  The uuid of a new member is new, so a request takes one   *)
(* that neither a member nor another request has.                           *)
SendRegister(r, i, n, method, key) ==
  /\ ~Exists(i) /\ \A s \in Requests : ~(req[s].op = "register" /\ req[s].id = i)
  /\ method = "PASSWORD" => key = None
  /\ key = None => method \in {"PASSWORD", "GOOGLE"}
  /\ Send(r, "register", i, n, method, key)

(* verifyTelegramData, as in a login: 401 for data the bot has not signed,  *)
(* 500 when the hash has another length than an HMAC.                       *)
RefuseWidget(r) ==
  /\ At(r, "register", "sent") /\ req[r].method = "TELEGRAM"
  /\ \E code \in {401, 500} : Answer(r, code)
  /\ UNCHANGED <<member, credentials>>

(* Google and Telegram: is the identity linked already? *)
CheckProvider(r) ==
  /\ At(r, "register", "sent") /\ req[r].method \in Federated
  /\ IF FoundBy(req[r].method, req[r].key) = {} THEN Goto(r, "unlinked") ELSE Answer(r, 409)
  /\ UNCHANGED <<member, credentials>>

(* member.findUnique by username. *)
CheckUsername(r) ==
  /\ \/ At(r, "register", "sent") /\ req[r].method \notin Federated
     \/ At(r, "register", "unlinked")
  /\ IF NameTaken(req[r].name) THEN Answer(r, 409) ELSE Goto(r, "free")
  /\ UNCHANGED <<member, credentials>>

(* Mutation: the checks are trusted, the tables have no unique index. *)
CreateUnindexed(r) ==
  /\ At(r, "register", "free")
  /\ member' = [member EXCEPT ![req[r].id] =
       [username |-> req[r].name, status |-> "UNVERIFIED"]]
  /\ credentials' = credentials \cup
       {[type |-> req[r].method, key |-> req[r].key, member |-> req[r].id]}
  /\ Answer(r, 201)

(* Mutation: the member is written even if its credential is refused (no    *)
(* transaction around the nested create).                                   *)
CreateUnnested(r) ==
  /\ At(r, "register", "free")
  /\ ~NameTaken(req[r].name)
  /\ member' = [member EXCEPT ![req[r].id] =
       [username |-> req[r].name, status |-> "UNVERIFIED"]]
  /\ IF Linked(req[r].method, req[r].key) # {}
     THEN Answer(r, 500) /\ UNCHANGED credentials
     ELSE /\ credentials' = credentials \cup
               {[type |-> req[r].method, key |-> req[r].key, member |-> req[r].id]}
          /\ Answer(r, 201)

(* member.create with its nested credential: one transaction.  A collision  *)
(* on either index (P2002) is not caught: 500.                              *)
Create(r) ==
  /\ At(r, "register", "free")
  /\ IF NameTaken(req[r].name) \/ Linked(req[r].method, req[r].key) # {}
     THEN Answer(r, 500) /\ UNCHANGED <<member, credentials>>
     ELSE /\ member' = [member EXCEPT ![req[r].id] =
               [username |-> req[r].name, status |-> "UNVERIFIED"]]
          /\ credentials' = credentials \cup
               {[type |-> req[r].method, key |-> req[r].key, member |-> req[r].id]}
          /\ Answer(r, 201)

-----------------------------------------------------------------------------
(* PATCH /members/:id: the path has the id of another than the caller, or   *)
(* the body has nothing to update.                                          *)
RefuseRename(r) ==
  /\ At(r, "rename", "sent")
  /\ Answer(r, 403) \/ (req[r].name = None /\ Answer(r, 400))
  /\ UNCHANGED <<member, credentials>>

(* memberService.update finds the member first. *)
RenameFind(r) ==
  /\ At(r, "rename", "sent")
  /\ IF Exists(req[r].id) THEN Goto(r, "found") ELSE Answer(r, 404)
  /\ UNCHANGED <<member, credentials>>

OthersHave(i, n) == \E j \in Ids \ {i} : member[j].username = n

(* Mutation: the status the handler read is written back with the name      *)
(* (UNVERIFIED stands for what findById saw).                               *)
RenameWholeRow(r) ==
  /\ At(r, "rename", "found")
  /\ req[r].name # None /\ ~OthersHave(req[r].id, req[r].name)
  /\ member' = [member EXCEPT ![req[r].id] =
       [username |-> req[r].name, status |-> "UNVERIFIED"]]
  /\ Answer(r, 200)
  /\ UNCHANGED credentials

(* Mutation: a body without username clears it. *)
RenameToNothing(r) ==
  /\ At(r, "rename", "found")
  /\ IF req[r].name # None /\ OthersHave(req[r].id, req[r].name)
     THEN Answer(r, 409) /\ UNCHANGED member
     ELSE Answer(r, 200) /\ member' = [member EXCEPT ![req[r].id].username = req[r].name]
  /\ UNCHANGED credentials

(* member.update of the username alone, if the body has one; 400 if it is   *)
(* ill-formed.  Another member has that name: here P2002 is caught and      *)
(* answered 409.                                                            *)
RenameUpdate(r) ==
  /\ At(r, "rename", "found")
  /\ \/ /\ req[r].name = None
        /\ \E code \in {200, 400} : Answer(r, code)
        /\ UNCHANGED member
     \/ /\ req[r].name # None /\ ~OthersHave(req[r].id, req[r].name)
        /\ member' = [member EXCEPT ![req[r].id].username = req[r].name]
        /\ Answer(r, 200)
     \/ /\ req[r].name # None /\ OthersHave(req[r].id, req[r].name)
        /\ Answer(r, 409) /\ UNCHANGED member
  /\ UNCHANGED credentials

-----------------------------------------------------------------------------
(* POST /admin/members/:id/approve *)
ApproveFind(r) ==
  /\ At(r, "approve", "sent")
  /\ CASE ~Exists(req[r].id) -> Answer(r, 404)
       [] member[req[r].id].status = "ACTIVE" -> Answer(r, 409)
       [] OTHER -> Goto(r, "found")
  /\ UNCHANGED <<member, credentials>>

(* member.update of the status alone, whatever the status has become since. *)
ApproveUpdate(r) ==
  /\ At(r, "approve", "found")
  /\ member' = [member EXCEPT ![req[r].id].status = "ACTIVE"]
  /\ Answer(r, 200)
  /\ UNCHANGED credentials

-----------------------------------------------------------------------------
(* The operator sets a status with SQL: no code suspends anyone.            *)
SetStatus(i, s) ==
  /\ Exists(i)
  /\ member' = [member EXCEPT ![i].status = s]
  /\ UNCHANGED <<credentials, req>>

(* An await rejects or the process dies. *)
Fail(r) ==
  /\ Faults
  /\ req[r].pc \notin {"idle", "answered"}
  /\ Answer(r, 500)
  /\ UNCHANGED <<member, credentials>>

(* The handlers, each the sequence of its steps. *)
Register(r) == RefuseWidget(r) \/ CheckProvider(r) \/ CheckUsername(r) \/ Create(r)

Rename(r) == RefuseRename(r) \/ RenameFind(r) \/ RenameUpdate(r)

Approve(r) == ApproveFind(r) \/ ApproveUpdate(r)

ServerStep(r) == Register(r) \/ Rename(r) \/ Approve(r)

ClientStep(r) ==
  \/ \E i \in Ids, n \in Names, method \in Methods, key \in Identities \cup {None} :
       SendRegister(r, i, n, method, key)
  \/ \E i \in Ids, n \in Names \cup {None} : Send(r, "rename", i, n, None, None)
  \/ \E i \in Ids : Send(r, "approve", i, None, None, None)
  \/ Done(r)

Next ==
  \/ \E r \in Requests : ServerStep(r) \/ ClientStep(r) \/ Fail(r)
  \/ \E i \in Suspendable, s \in Statuses : SetStatus(i, s)

Spec == Init /\ [][Next]_vars

-----------------------------------------------------------------------------
(* Properties *)

(* A nested create leaves no half of an account: every member has exactly   *)
(* one credential, every credential its member, and a request that was      *)
(* answered 201 has both.                                                   *)
AccountsAreWhole ==
  /\ \A i \in Ids : Exists(i) => \E c \in credentials :
       {d \in credentials : d.member = i} = {c}
  /\ \A c \in credentials : Exists(c.member)
  /\ \A r \in Requests : req[r].code = 201 =>
       /\ Exists(req[r].id)
       /\ [type |-> req[r].method, key |-> req[r].key, member |-> req[r].id] \in credentials

(* A login by passkey, Google or Telegram finds one member at most: two     *)
(* sign-ups with one identity, both past the "already linked?" check, do    *)
(* not both get an account.                                                 *)
IdentityHasOneMember ==
  \A c, d \in credentials : c.type = d.type /\ c.key = d.key /\ c.key # None => c = d

(* How a step may change row i: the username to what a rename of it asks   *)
(* for, the status to ACTIVE for an approval, or by the operator.           *)
AsAsked(i) ==
  /\ member'[i].username # member[i].username =>
       \E r \in Requests : At(r, "rename", "found") /\ req[r].id = i
                           /\ member'[i].username = req[r].name
  /\ member'[i].status # member[i].status =>
       \/ \E r \in Requests : At(r, "approve", "found") /\ req[r].id = i
                              /\ member'[i].status = "ACTIVE"
       \/ i \in Suspendable /\ UNCHANGED req

(* Neither handler writes back a field it read before its await.            *)
UpdatesDoNotOverwrite == [][\A i \in Ids : Exists(i) => AsAsked(i)]_vars

(* However registrations and renames race, they have the effect of joining  *)
(* and renaming one at a time.                                              *)
LinksOf(i) ==
  {<<c.type, c.key>> : c \in {d \in credentials : d.member = i /\ d.key # None}}

Listing == INSTANCE Directory WITH
  Identities <- Methods \X Identities,
  name <- [i \in Ids |-> member[i].username],
  links <- [i \in Ids |-> LinksOf(i)]

DirectorySpec == Listing!Spec

(* tests/passkey.test.js and tests/auth.test.js: a taken username is        *)
(* answered 409, in a race too.                                             *)
TakenNameIs409 ==
  \A r \in Requests : req[r].method = "PASSWORD" => req[r].code # 500

(* README "Approve member": sets the status from UNVERIFIED to ACTIVE.      *)
ApprovesOnlyUnverified ==
  [][\A r \in Requests : ApproveUpdate(r) => member[req[r].id].status # "SUSPENDED"]_vars
=============================================================================
