------------------------------ MODULE Profiles ------------------------------
(***************************************************************************)
(* A member's profile and the claims made of it: GET and PATCH             *)
(* /auth/me/profile, GET /auth/userinfo, the ID token of a login, and the  *)
(* findAccount hook by which the authorization server reads claims for an  *)
(* app.                                                                    *)
(*                                                                         *)
(* A reader checks the status, reads the member and reads the profile in   *)
(* separate awaits; patches, renames and status changes go on in between.  *)
(* One field stands for all those of its scope.                            *)
(***************************************************************************)
EXTENDS Naturals

CONSTANTS
  Members,   \* member ids
  Names,     \* usernames
  Fields,    \* the profile fields in use
  Values,    \* valid field values, as normalize leaves them
  Empty,     \* the empty string clears a field, as null does; blanks do so
             \* in a field of free text only
  Invalid,   \* a value its validator refuses, blanks in a country included
  AppScopes, \* the sets of scopes that members grant to apps
  Requests,  \* slots for requests in flight; a slot is reused
  None,      \* null
  MaxTime    \* bound on the clock

ASSUME FieldsAssumption ==
  Fields \subseteq {"givenName", "country", "phoneNumber", "pronouns"}

Scopes == {"openid", "profile", "email", "address", "phone", "membership"}

ASSUME ScopesAssumption == AppScopes \subseteq SUBSET Scopes
ASSUME ValuesAssumption ==
  /\ Empty \notin Values /\ Invalid \notin Values /\ Empty # Invalid
  /\ None \notin Values \cup Names \cup BOOLEAN \cup Nat \cup {Empty, Invalid}
ASSUME BoundAssumption == MaxTime \in Nat

VARIABLES
  now,      \* the clock
  member,   \* member[m]: the row of Member
  profile,  \* profile[m]: the row of Profile, or BlankProfile
  req       \* the request in each slot

vars == <<now, member, profile, req>>

Statuses == {"UNVERIFIED", "ACTIVE", "SUSPENDED"}

MemberRow == [username : Names, status : Statuses, updatedAt : Nat]

ProfileRow ==
  [fields : [Fields -> Values \cup {None}], phoneVerified : BOOLEAN,
   updatedAt : Nat \cup {None}]

(* What a member without a row reads. *)
BlankProfile ==
  [fields |-> [f \in Fields |-> None], phoneVerified |-> FALSE, updatedAt |-> None]

Raw == Values \cup {None, Empty, Invalid}

(* Bodies of a PATCH: any of the fields. *)
Patches == UNION {[F -> Raw] : F \in SUBSET Fields}

NoPatch == [f \in {} |-> None]

ClaimNames ==
  {"preferred_username", "updated_at", "given_name", "email", "email_verified", "address",
   "phone_number", "phone_number_verified", "membership_status", "pronouns"}

Ops == {"none", "update", "profile", "userinfo", "account", "idtoken"}

Codes == {0, 200, 400, 403}

Blank ==
  [op     |-> "none",
   pc     |-> "idle",
   who    |-> None,     \* req.memberId, or the sub of an app's token
   patch  |-> NoPatch,
   scopes |-> {},       \* of the claims asked for
   row    |-> None,     \* the member read
   prof   |-> None,     \* the profile read
   claims |-> {},       \* of the answer: pairs of a name and a value
   active |-> FALSE,    \* history: who was ACTIVE at some time since "sent"
   code   |-> 0]

RequestOK(q) ==
  /\ DOMAIN q = DOMAIN Blank
  /\ q.op \in Ops /\ q.pc \in {"idle", "sent", "passed", "answered"}
  /\ q.who \in Members \cup {None}
  /\ q.patch \in Patches
  /\ q.row \in MemberRow \cup {None} /\ q.prof \in ProfileRow \cup {None}
  /\ q.scopes \subseteq Scopes
  /\ \A c \in q.claims : c[1] \in ClaimNames /\ c[2] # None
  /\ q.active \in BOOLEAN /\ q.code \in Codes

TypeOK ==
  /\ now \in Nat
  /\ member \in [Members -> MemberRow]
  /\ profile \in [Members -> ProfileRow]
  /\ DOMAIN req = Requests
  /\ \A r \in Requests : RequestOK(req[r])

(* Members are there, not approved yet, with no profile. *)
Init ==
  /\ now = 0
  /\ member \in [Members -> [username : Names, status : {"UNVERIFIED"}, updatedAt : {0}]]
  /\ \A m, n \in Members : member[m].username = member[n].username => m = n
  /\ profile = [m \in Members |-> BlankProfile]
  /\ req = [r \in Requests |-> Blank]

-----------------------------------------------------------------------------
Goto(r, pc) == req' = [req EXCEPT ![r] = [@ EXCEPT !.pc = pc]]

(* What the handler held in its hands goes with it.                         *)
Ended(q, code, claims) ==
  [q EXCEPT !.pc = "answered", !.code = code, !.claims = claims,
            !.patch = NoPatch, !.row = None, !.prof = None]

Answer(r, code) == req' = [req EXCEPT ![r] = Ended(@, code, {})]

AnswerClaims(r, claims) == req' = [req EXCEPT ![r] = Ended(@, 200, claims)]

Send(r, op, m, patch, S) ==
  /\ req[r] = Blank
  /\ req' = [req EXCEPT ![r] =
       [Blank EXCEPT !.op = op, !.pc = "sent", !.who = m, !.patch = patch, !.scopes = S,
                     !.active = member[m].status = "ACTIVE"]]
  /\ UNCHANGED <<now, member, profile>>

Done(r) ==
  /\ req[r].pc = "answered"
  /\ req' = [req EXCEPT ![r] = Blank]
  /\ UNCHANGED <<now, member, profile>>

-----------------------------------------------------------------------------
(* PATCH /auth/me/profile, of one's own profile, whatever the status.       *)
SendUpdate(r, m, patch) == Send(r, "update", m, patch, {})

(* One bad field is enough to refuse the body; clearing is always valid.    *)
Valid(patch) == \A f \in DOMAIN patch : patch[f] # Invalid

(* Mutation: the empty string is stored as it came. *)
NormalNot(patch) == patch

Normal(patch) == [f \in DOMAIN patch |-> IF patch[f] = Empty THEN None ELSE patch[f]]

(* The fields sent, over those of the row. *)
Over(new, old) == [f \in DOMAIN old |-> IF f \in DOMAIN new THEN new[f] ELSE old[f]]

Patched(row, patch) ==
  [row EXCEPT !.fields = Over(Normal(patch), row.fields), !.updatedAt = now]

(* Mutation: the row is replaced by the fields of the body. *)
UpdateWhole(r) ==
  LET q == req[r] IN
  /\ q.op = "update" /\ q.pc = "sent"
  /\ IF ~Valid(q.patch) \/ DOMAIN q.patch = {}
     THEN Answer(r, 400) /\ UNCHANGED profile
     ELSE /\ profile' = [profile EXCEPT ![q.who] = Patched(BlankProfile, q.patch)]
          /\ Answer(r, 200)
  /\ UNCHANGED <<now, member>>

(* The body is validated and normalized, then one upsert sets its fields    *)
(* and no others; the first one creates the row.                            *)
Update(r) ==
  LET q == req[r] IN
  /\ q.op = "update" /\ q.pc = "sent"
  /\ IF ~Valid(q.patch) \/ DOMAIN q.patch = {}
     THEN Answer(r, 400) /\ UNCHANGED profile
     ELSE /\ profile' = [profile EXCEPT ![q.who] = Patched(@, q.patch)]
          /\ Answer(r, 200)
  /\ UNCHANGED <<now, member>>

-----------------------------------------------------------------------------
(* Every scope's claims; null ones are pruned.                              *)
Field(p, f) == IF f \in Fields THEN p.fields[f] ELSE None

ClaimsOf(row, p, scope) ==
  CASE scope = "profile" ->
         {<<"preferred_username", row.username>>, <<"given_name", Field(p, "givenName")>>,
          <<"updated_at", row.updatedAt>>}
    [] scope = "email" ->
         {<<"email", row.username>>, <<"email_verified", row.status = "ACTIVE">>}
    [] scope = "address" -> {<<"address", Field(p, "country")>>}
    [] scope = "phone" ->
         {<<"phone_number", Field(p, "phoneNumber")>>}
         \cup {<<"phone_number_verified", p.phoneVerified>> :
                 v \in {Field(p, "phoneNumber")} \ {None}}
    [] scope = "membership" ->
         {<<"membership_status", row.status>>, <<"pronouns", Field(p, "pronouns")>>}
    [] OTHER -> {}

(* Mutation: the address is added whatever was granted. *)
GetClaimsAddress(row, p, scopes) ==
  {c \in UNION {ClaimsOf(row, p, s) : s \in scopes \cup {"address"}} : c[2] # None}

GetClaims(row, p, scopes) ==
  {c \in UNION {ClaimsOf(row, p, s) : s \in scopes} : c[2] # None}

IdTokenScopes == {"openid", "profile", "email"}

FirstPartyScopes == {"openid", "profile", "email", "address", "phone", "membership"}

SendRead(r, m) ==
  \/ Send(r, "profile", m, NoPatch, {})
  \/ Send(r, "userinfo", m, NoPatch, FirstPartyScopes)
  \/ Send(r, "idtoken", m, NoPatch, IdTokenScopes)
  \/ \E S \in AppScopes : Send(r, "account", m, NoPatch, S)

(* Mutation: only members who wait for approval are turned away. *)
RequireActiveWeak(r) ==
  /\ req[r].op \in {"profile", "userinfo"} /\ req[r].pc = "sent"
  /\ IF member[req[r].who].status # "UNVERIFIED" THEN Goto(r, "passed") ELSE Answer(r, 403)
  /\ UNCHANGED <<now, member, profile>>

(* requireActive, before the two profile getters. *)
RequireActive(r) ==
  /\ req[r].op \in {"profile", "userinfo"} /\ req[r].pc = "sent"
  /\ IF member[req[r].who].status = "ACTIVE" THEN Goto(r, "passed") ELSE Answer(r, 403)
  /\ UNCHANGED <<now, member, profile>>

(* memberService.findById; userinfo runs it together with ReadProfile.      *)
ReadMember(r) ==
  /\ \/ req[r].op = "userinfo" /\ req[r].pc = "passed"
     \/ req[r].op \in {"account", "idtoken"} /\ req[r].pc = "sent"
  /\ req[r].row = None
  /\ req' = [req EXCEPT ![r] = [@ EXCEPT !.row = member[req[r].who]]]
  /\ UNCHANGED <<now, member, profile>>

(* profileService.findByMemberId; findAccount runs it after ReadMember.     *)
ReadProfile(r) ==
  /\ \/ req[r].op \in {"profile", "userinfo"} /\ req[r].pc = "passed"
     \/ req[r].op = "account" /\ req[r].row # None /\ req[r].pc = "sent"
  /\ req[r].prof = None
  /\ req' = [req EXCEPT ![r] = [@ EXCEPT !.prof = profile[req[r].who]]]
  /\ UNCHANGED <<now, member, profile>>

(* GET /auth/me/profile answers with the row itself. *)
GetProfile(r) ==
  /\ req[r].op = "profile" /\ req[r].pc = "passed" /\ req[r].prof # None
  /\ Answer(r, 200)
  /\ UNCHANGED <<now, member, profile>>

Userinfo(r) ==
  /\ req[r].op = "userinfo" /\ req[r].pc = "passed"
  /\ req[r].row # None /\ req[r].prof # None
  /\ AnswerClaims(r, GetClaims(req[r].row, req[r].prof, FirstPartyScopes))
  /\ UNCHANGED <<now, member, profile>>

(* The provider calls claims() of the account it was given. *)
FindAccount(r) ==
  /\ req[r].op = "account" /\ req[r].pc = "sent"
  /\ req[r].row # None /\ req[r].prof # None
  /\ AnswerClaims(r, GetClaims(req[r].row, req[r].prof, req[r].scopes))
  /\ UNCHANGED <<now, member, profile>>

(* An ID token is made without the profile. *)
IssueIdToken(r) ==
  /\ req[r].op = "idtoken" /\ req[r].pc = "sent" /\ req[r].row # None
  /\ AnswerClaims(r, GetClaims(req[r].row, BlankProfile, IdTokenScopes))
  /\ UNCHANGED <<now, member, profile>>

-----------------------------------------------------------------------------
(* The rest of the program, and the operator: approval, suspension, a       *)
(* rename, and the mark on a phone number, which no code sets.              *)
SetStatus(m, s) ==
  /\ member' = [member EXCEPT ![m] = [@ EXCEPT !.status = s, !.updatedAt = now]]
  /\ req' = [r \in Requests |->
       [req[r] EXCEPT !.active = @ \/ (req[r].who = m /\ s = "ACTIVE")]]
  /\ UNCHANGED <<now, profile>>

Rename(m, n) ==
  /\ \A i \in Members \ {m} : member[i].username # n
  /\ member' = [member EXCEPT ![m] = [@ EXCEPT !.username = n, !.updatedAt = now]]
  /\ UNCHANGED <<now, profile, req>>

VerifyPhone(m) ==
  /\ Field(profile[m], "phoneNumber") # None
  /\ profile' = [profile EXCEPT ![m] = [@ EXCEPT !.phoneVerified = TRUE]]
  /\ UNCHANGED <<now, member, req>>

Tick ==
  /\ now < MaxTime
  /\ now' = now + 1
  /\ UNCHANGED <<member, profile, req>>

ServerStep(r) ==
  \/ Update(r) \/ RequireActive(r) \/ ReadMember(r) \/ ReadProfile(r)
  \/ GetProfile(r) \/ Userinfo(r) \/ FindAccount(r) \/ IssueIdToken(r)

ClientStep(r) ==
  \/ \E m \in Members : SendRead(r, m) \/ \E patch \in Patches : SendUpdate(r, m, patch)
  \/ Done(r)

Next ==
  \/ \E r \in Requests : ServerStep(r) \/ ClientStep(r)
  \/ \E m \in Members : VerifyPhone(m) \/ \E s \in Statuses : SetStatus(m, s)
  \/ \E m \in Members, n \in Names : Rename(m, n)
  \/ Tick

Spec == Init /\ [][Next]_vars

-----------------------------------------------------------------------------
(* Properties *)

(* The scope under which oidc/configuration.js declares a claim, the        *)
(* authorization server's own list beside that of getClaims.                *)
ReleasedBy(claim) ==
  CASE claim \in {"preferred_username", "updated_at", "given_name"} -> "profile"
    [] claim \in {"email", "email_verified"} -> "email"
    [] claim = "address" -> "address"
    [] claim \in {"phone_number", "phone_number_verified"} -> "phone"
    [] claim \in {"membership_status", "pronouns"} -> "membership"

(* Default deny: an answer has claims of the scopes granted and no others,  *)
(* a verification mark only with what it marks, and one value per claim,    *)
(* whatever has changed between the two reads (getClaims).                  *)
DefaultDeny ==
  \A r \in Requests :
    LET C == req[r].claims IN
    /\ \A c \in C : ReleasedBy(c[1]) \in req[r].scopes
    /\ \A c, d \in C : c[1] = d[1] => c = d
    /\ \A c \in C : c[1] = "phone_number_verified" => \E d \in C : d[1] = "phone_number"

(* The profile getters answer with details only for a member who was ACTIVE *)
(* at some moment since the request was sent (requireActive).               *)
DetailsOnlyIfActive ==
  \A r \in Requests :
    req[r].op \in {"profile", "userinfo"} /\ req[r].code = 200 => req[r].active

(* A field changes only to what a valid PATCH of that member asks for it:   *)
(* two tabs that save different fields do not undo each other, and a body   *)
(* with one bad field writes nothing.  The phone mark is not a PATCH's.     *)
PatchesMerge ==
  [][\A m \in Members :
       /\ \A f \in Fields : profile'[m].fields[f] # profile[m].fields[f] =>
            \E r \in Requests :
              /\ req[r].op = "update" /\ req[r].pc = "sent" /\ req[r].who = m
              /\ Valid(req[r].patch) /\ f \in DOMAIN req[r].patch
              /\ profile'[m].fields[f] = Normal(req[r].patch)[f]
       /\ profile'[m].phoneVerified # profile[m].phoneVerified => UNCHANGED req]_vars
=============================================================================
