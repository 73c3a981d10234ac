--------------------------- MODULE ProfilesProofs ---------------------------
(***************************************************************************)
(* Theorems about Profiles, for any members, fields, scopes and requests.  *)
(* The invariant says what a request in flight holds (Holding): no claims  *)
(* and no code before its answer, the scopes of its operation, and, past   *)
(* the gate, that its member was ACTIVE since it was sent.                 *)
(***************************************************************************)
EXTENDS Profiles, TLAPS

(* The parts of DefaultDeny for claims C and granted scopes S. *)
Denies(C, S) ==
  /\ \A c \in C : ReleasedBy(c[1]) \in S
  /\ \A c, d \in C : c[1] = d[1] => c = d
  /\ \A c \in C : c[1] = "phone_number_verified" => \E d \in C : d[1] = "phone_number"

Holding(q) ==
  /\ q.op # "none" => q.who \in Members
  /\ q.op = "userinfo" => q.scopes = FirstPartyScopes
  /\ q.op = "idtoken" => q.scopes = IdTokenScopes
  /\ q.pc # "answered" => q.code = 0
  /\ q.op \in {"profile", "userinfo"} /\ (q.pc = "passed" \/ q.code = 200) => q.active
  /\ Denies(q.claims, q.scopes)

(* Whoever is ACTIVE now has been since any request in flight was sent. *)
ActiveSeen ==
  \A r \in Requests :
    req[r].op # "none" /\ member[req[r].who].status = "ACTIVE" => req[r].active

ProfileInv ==
  /\ TypeOK
  /\ \A r \in Requests : Holding(req[r])
  /\ ActiveSeen

-----------------------------------------------------------------------------
(* Claims *)

(* The value a claim can have, whatever scope it came by. *)
ValueOf(row, p, name) ==
  CASE name = "preferred_username" -> row.username
    [] name = "given_name" -> Field(p, "givenName")
    [] name = "updated_at" -> row.updatedAt
    [] name = "email" -> row.username
    [] name = "email_verified" -> row.status = "ACTIVE"
    [] name = "address" -> Field(p, "country")
    [] name = "phone_number" -> Field(p, "phoneNumber")
    [] name = "phone_number_verified" -> p.phoneVerified
    [] name = "membership_status" -> row.status
    [] name = "pronouns" -> Field(p, "pronouns")

(* One scope adds a claim by one name, with one value. *)
LEMMA ClaimsOfOneScope ==
  ASSUME NEW row, NEW p, NEW s \in Scopes, NEW c \in ClaimsOf(row, p, s)
  PROVE  /\ c = <<c[1], ValueOf(row, p, c[1])>>
         /\ c[1] \in ClaimNames
         /\ ReleasedBy(c[1]) = s
<1>1. CASE s = "openid"
  BY <1>1 DEF ClaimsOf
<1>2. CASE s = "profile"
  BY <1>2 DEF ClaimsOf, ValueOf, ReleasedBy, ClaimNames
<1>3. CASE s = "email"
  BY <1>3 DEF ClaimsOf, ValueOf, ReleasedBy, ClaimNames
<1>4. CASE s = "address"
  BY <1>4 DEF ClaimsOf, ValueOf, ReleasedBy, ClaimNames
<1>5. CASE s = "phone"
  BY <1>5 DEF ClaimsOf, ValueOf, ReleasedBy, ClaimNames
<1>6. CASE s = "membership"
  BY <1>6 DEF ClaimsOf, ValueOf, ReleasedBy, ClaimNames
<1> QED  BY <1>1, <1>2, <1>3, <1>4, <1>5, <1>6 DEF Scopes

(* The claims of an answer are those of its scopes, each once, and the mark *)
(* comes with the number.                                                   *)
LEMMA GetClaimsDenies ==
  ASSUME NEW row, NEW p, NEW S \in SUBSET Scopes
  PROVE  /\ Denies(GetClaims(row, p, S), S)
         /\ \A c \in GetClaims(row, p, S) : c[1] \in ClaimNames /\ c[2] # None
<1> DEFINE C == GetClaims(row, p, S)
<1>1. \A c \in C : c[2] # None /\ \E s \in S : c \in ClaimsOf(row, p, s)
  BY DEF GetClaims
<1>2. \A c \in C : /\ c = <<c[1], ValueOf(row, p, c[1])>> /\ c[1] \in ClaimNames
                   /\ ReleasedBy(c[1]) \in S
  BY <1>1, ClaimsOfOneScope
<1>3. \A c, d \in C : c[1] = d[1] => c = d
  BY <1>2
<1>4. ASSUME NEW c \in C, c[1] = "phone_number_verified"
      PROVE  \E d \in C : d[1] = "phone_number"
  <2>1. PICK s \in S : c \in ClaimsOf(row, p, s)
    BY <1>1
  <2>2. s = "phone"
    BY <1>4, <2>1, ClaimsOfOneScope DEF ReleasedBy
  <2> DEFINE d == <<"phone_number", Field(p, "phoneNumber")>>
  <2>3. d \in ClaimsOf(row, p, s) /\ d[1] = "phone_number"
    BY <2>2 DEF ClaimsOf
  <2>4. d[2] # None
    BY <1>4, <2>1, <2>2 DEF ClaimsOf
  <2>5. d \in C
    BY <2>3, <2>4 DEF GetClaims
  <2> QED  BY <2>3, <2>5
<1> QED  BY <1>1, <1>2, <1>3, <1>4 DEF Denies

-----------------------------------------------------------------------------
(* How a step changes the slot it works on; the others keep their request.  *)

Fields10 ==
  {"op", "pc", "who", "patch", "scopes", "row", "prof", "claims", "active", "code"}

LEMMA BlankFields == DOMAIN Blank = Fields10
BY DEF Blank, Fields10

Only(r) ==
  /\ DOMAIN req' = Requests
  /\ \A s \in Requests : s # r => req'[s] = req[s]

SameCaller(r) ==
  /\ req'[r].op = req[r].op /\ req'[r].who = req[r].who
  /\ req'[r].scopes = req[r].scopes /\ req'[r].active = req[r].active

LEMMA GotoStep ==
  ASSUME TypeOK, NEW r \in Requests, NEW pc, Goto(r, pc)
  PROVE  /\ Only(r) /\ SameCaller(r) /\ DOMAIN req'[r] = DOMAIN Blank
         /\ req'[r].pc = pc /\ req'[r].code = req[r].code /\ req'[r].claims = req[r].claims
         /\ req'[r].patch = req[r].patch /\ req'[r].row = req[r].row
         /\ req'[r].prof = req[r].prof
BY BlankFields DEF TypeOK, RequestOK, Goto, Only, SameCaller, Fields10

LEMMA EndStep ==
  ASSUME TypeOK, NEW r \in Requests, NEW code, NEW claims,
         req' = [req EXCEPT ![r] = Ended(@, code, claims)]
  PROVE  /\ Only(r) /\ SameCaller(r) /\ DOMAIN req'[r] = DOMAIN Blank
         /\ req'[r].pc = "answered" /\ req'[r].code = code /\ req'[r].claims = claims
         /\ req'[r].patch = NoPatch /\ req'[r].row = None /\ req'[r].prof = None
BY BlankFields DEF TypeOK, RequestOK, Ended, Only, SameCaller, Fields10

LEMMA SendStep ==
  ASSUME TypeOK, NEW r \in Requests, NEW op, NEW m, NEW patch, NEW S,
         Send(r, op, m, patch, S)
  PROVE  /\ Only(r) /\ DOMAIN req'[r] = DOMAIN Blank
         /\ req'[r].op = op /\ req'[r].pc = "sent" /\ req'[r].who = m
         /\ req'[r].patch = patch /\ req'[r].scopes = S
         /\ req'[r].row = None /\ req'[r].prof = None /\ req'[r].claims = {}
         /\ req'[r].active = (member[m].status = "ACTIVE") /\ req'[r].code = 0
BY DEF TypeOK, Send, Blank, Only

LEMMA NoPatchIsPatch == NoPatch \in Patches
<1>1. NoPatch \in [{} -> Raw]
  BY DEF NoPatch
<1> QED  BY <1>1 DEF Patches

LEMMA BlankOK == RequestOK(Blank) /\ Holding(Blank)
<1>1. RequestOK(Blank)
  BY NoPatchIsPatch DEF RequestOK, Blank, Ops, Codes
<1>2. Holding(Blank)
  BY DEF Holding, Denies, Blank
<1> QED  BY <1>1, <1>2

-----------------------------------------------------------------------------
(* Steps of the requests *)

SlotOK(r) ==
  /\ RequestOK(req[r]) /\ Holding(req[r])
  /\ req[r].op # "none" /\ member[req[r].who].status = "ACTIVE" => req[r].active

(* A step of slot r keeps the invariant if it keeps the profiles typed and  *)
(* leaves a proper request in its slot.                                     *)
LEMMA SlotStep ==
  ASSUME ProfileInv, NEW r \in Requests, Only(r), SlotOK(r)',
         UNCHANGED <<now, member>>, profile' \in [Members -> ProfileRow]
  PROVE  ProfileInv'
BY DEF ProfileInv, TypeOK, ActiveSeen, Only, SlotOK

LEMMA SendInv ==
  ASSUME ProfileInv, NEW r \in Requests, NEW op \in Ops \ {"none"}, NEW m \in Members,
         NEW patch \in Patches, NEW S \in SUBSET Scopes, Send(r, op, m, patch, S),
         op = "userinfo" => S = FirstPartyScopes, op = "idtoken" => S = IdTokenScopes
  PROVE  ProfileInv'
<1>1. TypeOK
  BY DEF ProfileInv
<1>2. /\ Only(r) /\ DOMAIN req'[r] = DOMAIN Blank
      /\ req'[r].op = op /\ req'[r].pc = "sent" /\ req'[r].who = m
      /\ req'[r].patch = patch /\ req'[r].scopes = S
      /\ req'[r].row = None /\ req'[r].prof = None /\ req'[r].claims = {}
      /\ req'[r].active = (member[m].status = "ACTIVE") /\ req'[r].code = 0
  BY <1>1, SendStep
<1>3. RequestOK(req'[r])
  BY <1>2 DEF RequestOK, Codes
<1>4. Holding(req'[r])
  BY <1>2 DEF Holding, Denies
<1> QED
  BY <1>1, <1>2, <1>3, <1>4, SlotStep DEF SlotOK, Send, TypeOK

(* A read keeps a row or a profile in the slot. *)
LEMMA ReadInv ==
  ASSUME ProfileInv, NEW r \in Requests, UNCHANGED <<now, member, profile>>,
         \/ \E x \in MemberRow : req' = [req EXCEPT ![r] = [@ EXCEPT !.row = x]]
         \/ \E x \in ProfileRow : req' = [req EXCEPT ![r] = [@ EXCEPT !.prof = x]]
  PROVE  ProfileInv'
<1>0. SlotOK(r)
  BY DEF ProfileInv, TypeOK, ActiveSeen, SlotOK
<1>1. TypeOK /\ RequestOK(req[r]) /\ Holding(req[r])
  BY <1>0 DEF ProfileInv, SlotOK
<1>2. /\ Only(r) /\ SameCaller(r) /\ DOMAIN req'[r] = DOMAIN Blank
      /\ req'[r].pc = req[r].pc /\ req'[r].code = req[r].code
      /\ req'[r].claims = req[r].claims /\ req'[r].patch = req[r].patch
      /\ req'[r].row \in MemberRow \cup {None} /\ req'[r].prof \in ProfileRow \cup {None}
  BY <1>1, BlankFields DEF TypeOK, RequestOK, Only, SameCaller, Fields10
<1>3. RequestOK(req'[r])
  BY <1>1, <1>2 DEF RequestOK, SameCaller
<1>4. Holding(req'[r])
  BY <1>1, <1>2 DEF Holding, SameCaller
<1>5. SlotOK(r)'
  BY <1>0, <1>2, <1>3, <1>4 DEF SlotOK, SameCaller
<1> QED  BY <1>1, <1>2, <1>5, SlotStep DEF TypeOK

(* An answer without claims: a refusal, or one that is given past the gate. *)
LEMMA AnswerInv ==
  ASSUME ProfileInv, NEW r \in Requests, NEW code \in {200, 400, 403}, Answer(r, code),
         req[r].op # "none",
         req[r].op \in {"profile", "userinfo"} /\ code = 200 => req[r].active,
         UNCHANGED <<now, member>>, profile' \in [Members -> ProfileRow]
  PROVE  ProfileInv'
<1>0. SlotOK(r)
  BY DEF ProfileInv, TypeOK, ActiveSeen, SlotOK
<1>1. TypeOK /\ RequestOK(req[r]) /\ Holding(req[r])
  BY <1>0 DEF ProfileInv, SlotOK
<1>2. /\ Only(r) /\ SameCaller(r) /\ DOMAIN req'[r] = DOMAIN Blank
      /\ req'[r].pc = "answered" /\ req'[r].code = code /\ req'[r].claims = {}
      /\ req'[r].patch = NoPatch /\ req'[r].row = None /\ req'[r].prof = None
  BY ZenonT(20), <1>1, EndStep DEF Answer
<1>3. RequestOK(req'[r])
  BY <1>1, <1>2, NoPatchIsPatch DEF RequestOK, Codes, SameCaller
<1>4. Holding(req'[r])
  BY <1>1, <1>2 DEF Holding, Denies, SameCaller
<1>5. SlotOK(r)'
  BY <1>0, <1>2, <1>3, <1>4 DEF SlotOK, SameCaller
<1> QED  BY <1>2, <1>5, SlotStep

(* An answer with the claims of the scopes asked for. *)
LEMMA ClaimsInv ==
  ASSUME ProfileInv, NEW r \in Requests, NEW row, NEW p,
         AnswerClaims(r, GetClaims(row, p, req[r].scopes)), UNCHANGED <<now, member, profile>>,
         req[r].op \in {"profile", "userinfo"} => req[r].pc = "passed"
  PROVE  ProfileInv'
<1>0. SlotOK(r)
  BY DEF ProfileInv, TypeOK, ActiveSeen, SlotOK
<1>1. TypeOK /\ RequestOK(req[r]) /\ Holding(req[r])
  BY <1>0 DEF ProfileInv, SlotOK
<1> DEFINE C == GetClaims(row, p, req[r].scopes)
<1>2. /\ Only(r) /\ SameCaller(r) /\ DOMAIN req'[r] = DOMAIN Blank
      /\ req'[r].pc = "answered" /\ req'[r].code = 200 /\ req'[r].claims = C
      /\ req'[r].patch = NoPatch /\ req'[r].row = None /\ req'[r].prof = None
  BY <1>1, EndStep DEF AnswerClaims
<1>3. Denies(C, req[r].scopes) /\ \A c \in C : c[1] \in ClaimNames /\ c[2] # None
  BY <1>1, GetClaimsDenies DEF RequestOK
<1> HIDE DEF C
<1>4. RequestOK(req'[r])
  BY <1>1, <1>2, <1>3, NoPatchIsPatch DEF RequestOK, Codes, SameCaller
<1>5. Holding(req'[r])
  BY <1>1, <1>2, <1>3 DEF Holding, SameCaller
<1>6. SlotOK(r)'
  BY <1>0, <1>2, <1>4, <1>5 DEF SlotOK, SameCaller
<1> QED  BY <1>1, <1>2, <1>6, SlotStep DEF TypeOK

(* An upsert of the fields of a valid body is a row again, and changes no   *)
(* field that is not in the body.                                           *)
LEMMA PatchedRow ==
  ASSUME NEW row \in ProfileRow, NEW patch \in Patches, Valid(patch), now \in Nat
  PROVE  /\ Patched(row, patch) \in ProfileRow
         /\ Patched(row, patch).phoneVerified = row.phoneVerified
         /\ \A f \in Fields : Patched(row, patch).fields[f] # row.fields[f] =>
              f \in DOMAIN patch /\ Patched(row, patch).fields[f] = Normal(patch)[f]
<1> DEFINE fields == Over(Normal(patch), row.fields)
           new == Patched(row, patch)
<1>1. PICK F \in SUBSET Fields : patch \in [F -> Raw]
  BY DEF Patches
<1>2. \A f \in F : Normal(patch)[f] \in Values \cup {None}
  BY <1>1, ValuesAssumption DEF Valid, Normal, Raw
<1>3. DOMAIN Normal(patch) = F
  BY <1>1 DEF Normal
<1>4. row.fields \in [Fields -> Values \cup {None}]
  BY DEF ProfileRow
<1>5. /\ fields \in [Fields -> Values \cup {None}]
      /\ \A f \in F : fields[f] = Normal(patch)[f]
      /\ \A f \in Fields \ F : fields[f] = row.fields[f]
  BY <1>1, <1>2, <1>3, <1>4 DEF Over
<1>6. new \in ProfileRow /\ new.phoneVerified = row.phoneVerified /\ new.fields = fields
  BY <1>5 DEF ProfileRow, Patched
<1> QED  BY <1>1, <1>5, <1>6

-----------------------------------------------------------------------------
LEMMA InitInv == Init => ProfileInv
<1> SUFFICES ASSUME Init  PROVE ProfileInv
  OBVIOUS
<1>1. DOMAIN req = Requests /\ \A r \in Requests : RequestOK(req[r]) /\ Holding(req[r])
  BY BlankOK DEF Init
<1>2. now \in Nat /\ member \in [Members -> MemberRow]
  BY DEF Init, MemberRow, Statuses
<1>3. profile \in [Members -> ProfileRow]
  BY DEF Init, BlankProfile, ProfileRow
<1>4. ActiveSeen
  BY DEF Init, ActiveSeen, Blank
<1> QED  BY <1>1, <1>2, <1>3, <1>4 DEF ProfileInv, TypeOK

LEMMA ServerInv ==
  ASSUME ProfileInv, NEW r \in Requests, ServerStep(r)
  PROVE  ProfileInv'
<1>0. SlotOK(r)
  BY DEF ProfileInv, TypeOK, ActiveSeen, SlotOK
<1>1. TypeOK /\ RequestOK(req[r]) /\ Holding(req[r])
  BY <1>0 DEF ProfileInv, SlotOK
<1>2. CASE Update(r)
  <2>1. CASE Answer(r, 400) /\ UNCHANGED profile
    BY <1>1, <1>2, <2>1, AnswerInv DEF Update, TypeOK
  <2>2. CASE /\ Valid(req[r].patch) /\ Answer(r, 200)
             /\ profile' = [profile EXCEPT ![req[r].who] = Patched(@, req[r].patch)]
    <3> DEFINE m == req[r].who
    <3>1. m \in Members /\ req[r].patch \in Patches /\ profile[m] \in ProfileRow
      BY <1>1, <1>2 DEF Update, Holding, RequestOK, TypeOK
    <3>2. Patched(profile[m], req[r].patch) \in ProfileRow
      BY <1>1, <2>2, <3>1, PatchedRow DEF TypeOK
    <3>3. profile' \in [Members -> ProfileRow]
      BY <1>1, <2>2, <3>1, <3>2 DEF TypeOK
    <3> QED  BY <1>1, <1>2, <2>2, <3>3, AnswerInv DEF Update, TypeOK
  <2> QED  BY <1>2, <2>1, <2>2 DEF Update
<1>3. CASE RequireActive(r)
  <2>1. CASE Answer(r, 403)
    BY <1>1, <1>3, <2>1, AnswerInv DEF RequireActive, TypeOK
  <2>2. CASE Goto(r, "passed") /\ member[req[r].who].status = "ACTIVE"
    <3>1. req[r].active
      BY <1>0, <1>3, <2>2 DEF RequireActive, SlotOK
    <3>2. /\ Only(r) /\ SameCaller(r) /\ DOMAIN req'[r] = DOMAIN Blank
          /\ req'[r].pc = "passed" /\ req'[r].code = req[r].code
          /\ req'[r].claims = req[r].claims /\ req'[r].patch = req[r].patch
          /\ req'[r].row = req[r].row /\ req'[r].prof = req[r].prof
      BY <1>1, <2>2, GotoStep
    <3>3. RequestOK(req'[r])
      BY <1>1, <3>2 DEF RequestOK, SameCaller
    <3>4. Holding(req'[r])
      BY <1>1, <1>3, <3>1, <3>2 DEF RequireActive, Holding, SameCaller
    <3>5. SlotOK(r)'
      BY <1>0, <1>3, <3>2, <3>3, <3>4 DEF RequireActive, SlotOK, SameCaller
    <3> QED  BY <1>1, <1>3, <3>2, <3>5, SlotStep DEF RequireActive, TypeOK
  <2> QED  BY <1>3, <2>1, <2>2 DEF RequireActive
<1>4. CASE ReadMember(r)
  <2>1. member[req[r].who] \in MemberRow
    BY <1>1, <1>4 DEF ReadMember, Holding, TypeOK
  <2>2. req' = [req EXCEPT ![r] = [@ EXCEPT !.row = member[req[r].who]]]
    BY <1>4 DEF ReadMember
  <2> QED  BY <1>1, <1>4, <2>1, <2>2, ReadInv DEF ReadMember
<1>5. CASE ReadProfile(r)
  <2>1. profile[req[r].who] \in ProfileRow
    BY <1>1, <1>5 DEF ReadProfile, Holding, TypeOK
  <2>2. req' = [req EXCEPT ![r] = [@ EXCEPT !.prof = profile[req[r].who]]]
    BY <1>5 DEF ReadProfile
  <2> QED  BY <1>1, <1>5, <2>1, <2>2, ReadInv DEF ReadProfile
<1>6. CASE GetProfile(r)
  BY <1>1, <1>6, AnswerInv DEF GetProfile, Holding, TypeOK
<1>7. CASE Userinfo(r)
  <2>1. req[r].scopes = FirstPartyScopes
    BY <1>1, <1>7 DEF Userinfo, Holding
  <2> QED  BY <1>7, <2>1, ClaimsInv DEF Userinfo
<1>8. CASE FindAccount(r)
  BY <1>8, ClaimsInv DEF FindAccount
<1>9. CASE IssueIdToken(r)
  <2>1. req[r].scopes = IdTokenScopes
    BY <1>1, <1>9 DEF IssueIdToken, Holding
  <2> QED  BY <1>9, <2>1, ClaimsInv DEF IssueIdToken
<1> QED
  BY <1>2, <1>3, <1>4, <1>5, <1>6, <1>7, <1>8, <1>9 DEF ServerStep

(* The client: a request, or the end of one. *)
LEMMA ClientInv ==
  ASSUME ProfileInv, NEW r \in Requests, ClientStep(r)
  PROVE  ProfileInv'
<1>1. ASSUME NEW m \in Members, SendRead(r, m)
      PROVE  ProfileInv'
  <2>1. FirstPartyScopes \in SUBSET Scopes /\ IdTokenScopes \in SUBSET Scopes
    BY DEF FirstPartyScopes, IdTokenScopes, Scopes
  <2>2. CASE Send(r, "profile", m, NoPatch, {})
    BY <2>2, NoPatchIsPatch, SendInv DEF Ops
  <2>3. CASE Send(r, "userinfo", m, NoPatch, FirstPartyScopes)
    BY <2>1, <2>3, NoPatchIsPatch, SendInv DEF Ops
  <2>4. CASE Send(r, "idtoken", m, NoPatch, IdTokenScopes)
    BY <2>1, <2>4, NoPatchIsPatch, SendInv DEF Ops
  <2>5. ASSUME NEW S \in AppScopes, Send(r, "account", m, NoPatch, S)
        PROVE  ProfileInv'
    BY <2>5, NoPatchIsPatch, ScopesAssumption, SendInv DEF Ops
  <2> QED  BY <1>1, <2>2, <2>3, <2>4, <2>5 DEF SendRead
<1>2. ASSUME NEW m \in Members, NEW patch \in Patches, SendUpdate(r, m, patch)
      PROVE  ProfileInv'
  BY <1>2, SendInv DEF SendUpdate, Ops
<1>3. CASE Done(r)
  <2>1. Only(r) /\ req'[r] = Blank
    BY <1>3 DEF Done, ProfileInv, TypeOK, Only
  <2>2. SlotOK(r)'
    BY <2>1, BlankOK DEF SlotOK, Blank
  <2> QED  BY <1>3, <2>1, <2>2, SlotStep DEF Done, ProfileInv, TypeOK
<1> QED  BY <1>1, <1>2, <1>3 DEF ClientStep

(* The operator, a rename and the clock touch no request but its history.   *)
LEMMA OtherInv ==
  ASSUME ProfileInv,
         \/ \E m \in Members : VerifyPhone(m) \/ \E s \in Statuses : SetStatus(m, s)
         \/ \E m \in Members, n \in Names : Rename(m, n)
         \/ Tick
  PROVE  ProfileInv'
<1>1. TypeOK /\ ActiveSeen /\ \A r \in Requests : RequestOK(req[r]) /\ Holding(req[r])
  BY DEF ProfileInv, TypeOK
<1>2. ASSUME NEW m \in Members, VerifyPhone(m)
      PROVE  ProfileInv'
  <2>1. profile' \in [Members -> ProfileRow]
    BY <1>1, <1>2 DEF VerifyPhone, TypeOK, ProfileRow
  <2> QED  BY <1>1, <1>2, <2>1 DEF VerifyPhone, ProfileInv, TypeOK, ActiveSeen
<1>3. ASSUME NEW m \in Members, NEW s \in Statuses, SetStatus(m, s)
      PROVE  ProfileInv'
  <2>1. /\ member' \in [Members -> MemberRow] /\ member'[m].status = s
        /\ \A i \in Members \ {m} : member'[i] = member[i]
    BY <1>1, <1>3 DEF SetStatus, TypeOK, MemberRow
  <2>2. /\ DOMAIN req' = Requests
        /\ \A r \in Requests :
             req'[r] = [req[r] EXCEPT !.active = @ \/ (req[r].who = m /\ s = "ACTIVE")]
    BY <1>3 DEF SetStatus
  <2>3. \A r \in Requests :
          /\ DOMAIN req'[r] = DOMAIN Blank
          /\ req'[r].op = req[r].op /\ req'[r].pc = req[r].pc /\ req'[r].who = req[r].who
          /\ req'[r].patch = req[r].patch /\ req'[r].scopes = req[r].scopes
          /\ req'[r].row = req[r].row /\ req'[r].prof = req[r].prof
          /\ req'[r].claims = req[r].claims /\ req'[r].code = req[r].code
    BY <1>1, <2>2, BlankFields DEF RequestOK, Fields10
  <2>4. \A r \in Requests :
          /\ req'[r].active \in BOOLEAN
          /\ req[r].active \/ (req[r].who = m /\ s = "ACTIVE") => req'[r].active
    <3> TAKE r \in Requests
    <3> DEFINE seen == req[r].active \/ (req[r].who = m /\ s = "ACTIVE")
    <3>1. "active" \in DOMAIN req[r]
      BY <1>1, BlankFields DEF RequestOK, Fields10
    <3>2. req'[r] = [req[r] EXCEPT !.active = seen]
      BY <2>2
    <3> HIDE DEF seen
    <3>3. req'[r].active = seen
      BY <3>1, <3>2
    <3> QED  BY <3>3 DEF seen
  <2>5. \A r \in Requests : RequestOK(req'[r])
    BY <1>1, <2>3, <2>4 DEF RequestOK
  <2>6. \A r \in Requests : Holding(req'[r])
    BY <1>1, <2>3, <2>4 DEF Holding
  <2>7. ActiveSeen'
    BY <1>1, <2>1, <2>3, <2>4 DEF ActiveSeen, Holding
  <2> QED  BY <1>1, <1>3, <2>1, <2>2, <2>5, <2>6, <2>7 DEF SetStatus, ProfileInv, TypeOK
<1>4. ASSUME NEW m \in Members, NEW n \in Names, Rename(m, n)
      PROVE  ProfileInv'
  <2>1. /\ member' \in [Members -> MemberRow]
        /\ \A i \in Members : member'[i].status = member[i].status
    BY <1>1, <1>4 DEF Rename, TypeOK, MemberRow
  <2> QED  BY <1>1, <1>4, <2>1 DEF Rename, ProfileInv, TypeOK, ActiveSeen, Holding
<1>5. CASE Tick
  BY <1>1, <1>5 DEF Tick, ProfileInv, TypeOK, ActiveSeen
<1> QED  BY <1>2, <1>3, <1>4, <1>5

LEMMA NextInv == ProfileInv /\ [Next]_vars => ProfileInv'
<1> SUFFICES ASSUME ProfileInv, [Next]_vars  PROVE ProfileInv'
  OBVIOUS
<1>1. CASE UNCHANGED vars
  BY <1>1 DEF vars, ProfileInv, TypeOK, ActiveSeen
<1> QED  BY <1>1, ServerInv, ClientInv, OtherInv DEF Next

LEMMA Invariance == Spec => []ProfileInv
<1> QED  BY InitInv, NextInv, PTL DEF Spec

-----------------------------------------------------------------------------
(* Every reachable state is well typed; in particular no answer carries a   *)
(* null claim (getClaims prunes them) and no row an invalid field.          *)
THEOREM Typed == Spec => []TypeOK
<1>1. ProfileInv => TypeOK
  BY DEF ProfileInv
<1> QED  BY <1>1, Invariance, PTL

(* Default deny: whatever is read in between, an answer has claims of the   *)
(* scopes granted and no others, each once (getClaims).                     *)
THEOREM Denied == Spec => []DefaultDeny
<1>1. ProfileInv => DefaultDeny
  BY DEF ProfileInv, Holding, Denies, DefaultDeny
<1> QED  BY <1>1, Invariance, PTL

(* The getters answer with details only for who was ACTIVE at some moment   *)
(* since the request was sent (requireActive).                              *)
THEOREM ActiveOnly == Spec => []DetailsOnlyIfActive
<1>1. ProfileInv => DetailsOnlyIfActive
  BY DEF ProfileInv, Holding, DetailsOnlyIfActive
<1> QED  BY <1>1, Invariance, PTL

-----------------------------------------------------------------------------
(* The step PatchesMerge allows. *)
Merges ==
  \A m \in Members :
    /\ \A f \in Fields : profile'[m].fields[f] # profile[m].fields[f] =>
         \E r \in Requests :
           /\ req[r].op = "update" /\ req[r].pc = "sent" /\ req[r].who = m
           /\ Valid(req[r].patch) /\ f \in DOMAIN req[r].patch
           /\ profile'[m].fields[f] = Normal(req[r].patch)[f]
    /\ profile'[m].phoneVerified # profile[m].phoneVerified => UNCHANGED req

LEMMA NextMerges == ProfileInv /\ Next => Merges
<1> SUFFICES ASSUME ProfileInv, Next  PROVE Merges
  OBVIOUS
<1>1. TypeOK /\ \A r \in Requests : RequestOK(req[r]) /\ Holding(req[r])
  BY DEF ProfileInv, TypeOK
<1>2. CASE UNCHANGED profile
  BY <1>2 DEF Merges
<1>3. ASSUME NEW r \in Requests, Update(r), profile' # profile
      PROVE  Merges
  <2> DEFINE w == req[r].who
             patch == req[r].patch
  <2>1. /\ req[r].op = "update" /\ req[r].pc = "sent" /\ Valid(patch)
        /\ profile' = [profile EXCEPT ![w] = Patched(@, patch)]
    BY <1>3 DEF Update
  <2>2. w \in Members /\ patch \in Patches /\ profile[w] \in ProfileRow /\ now \in Nat
    BY <1>1, <2>1 DEF Holding, RequestOK, TypeOK
  <2>3. /\ profile'[w].phoneVerified = profile[w].phoneVerified
        /\ \A f \in Fields : profile'[w].fields[f] # profile[w].fields[f] =>
             f \in DOMAIN patch /\ profile'[w].fields[f] = Normal(patch)[f]
    BY <1>1, <2>1, <2>2, PatchedRow DEF TypeOK
  <2>4. \A m \in Members \ {w} : profile'[m] = profile[m]
    BY <1>1, <2>1 DEF TypeOK
  <2> QED  BY <2>1, <2>3, <2>4 DEF Merges
<1>4. ASSUME NEW m \in Members, VerifyPhone(m)
      PROVE  Merges
  <2>1. UNCHANGED req /\ \A i \in Members : profile'[i].fields = profile[i].fields
    BY <1>1, <1>4 DEF VerifyPhone, TypeOK, ProfileRow
  <2> QED  BY <2>1 DEF Merges
<1>5. ASSUME NEW r \in Requests, ServerStep(r), profile' # profile
      PROVE  Update(r)
  BY <1>5 DEF ServerStep, RequireActive, ReadMember, ReadProfile, GetProfile, Userinfo,
       FindAccount, IssueIdToken
<1>6. ASSUME NEW r \in Requests, ClientStep(r)
      PROVE  UNCHANGED profile
  BY <1>6 DEF ClientStep, SendRead, SendUpdate, Send, Done
<1> QED
  BY <1>2, <1>3, <1>4, <1>5, <1>6 DEF Next, SetStatus, Rename, Tick

(* A field changes only to what a valid PATCH of its member asks for, so    *)
(* two PATCHes of different fields both last (profile.service update).      *)
THEOREM Merged == Spec => PatchesMerge
<1>1. ProfileInv /\ [Next]_vars => [Merges]_vars
  BY NextMerges
<1>2. Spec => [][Merges]_vars
  BY <1>1, Invariance, PTL DEF Spec
<1> QED  BY <1>2 DEF PatchesMerge, Merges
=============================================================================
