------------------------------- MODULE Grants -------------------------------
(***************************************************************************)
(* Third-party access: the consent step of an authorization, the rows the  *)
(* provider keeps through the Prisma adapter, and a member's revocation of *)
(* a connected app.                                                        *)
(*                                                                         *)
(* The provider (node-oidc-provider) makes codes and tokens by itself: it  *)
(* is modelled by the adapter calls it makes, in their order, and by       *)
(* nothing else.  Every request interleaves with the others at each of     *)
(* those calls.                                                            *)
(***************************************************************************)
EXTENDS Integers, FiniteSets

CONSTANTS
  Members,   \* member ids
  Clients,   \* client ids
  Scopes,    \* scopes a client may ask for beside openid
  GrantIds,  \* ids of OidcPayload rows of type Grant; each is drawn once
  Tokens,    \* ids of its AuthorizationCode and AccessToken rows
  Requests,  \* slots for requests in flight; a slot is reused
  None,      \* undefined
  Faults     \* TRUE: an await may reject

ASSUME NoneAssumption == None \notin Members \cup Clients \cup GrantIds \cup Tokens
ASSUME FaultsAssumption == Faults \in BOOLEAN

VARIABLES
  grants,  \* grants[g]: the Grant row g, as it is or as it was
  tokens,  \* tokens[t]: the code or access token t, as it is or as it was
  req,     \* the request in each slot
  (* The rest is history: it constrains no action. *)
  revived, \* deleted grants a consent has saved again
  late     \* tokens saved when their grant was deleted, or about to be

vars == <<grants, tokens, req, revived, late>>

(* "new": not drawn yet; "live", "expired": in the table; "gone": deleted   *)
Grant ==
  [state : {"new", "live", "expired", "gone"}, member : Members \cup {None},
   client : Clients \cup {None}, scopes : SUBSET Scopes,
   agreed : SUBSET Scopes]  \* history: what its consents have asked for

NoGrant ==
  [state |-> "new", member |-> None, client |-> None, scopes |-> {}, agreed |-> {}]

TokenRow ==
  [state : {"new", "live", "gone"}, kind : {"none", "code", "access"},
   grant : GrantIds \cup {None}, consumed : BOOLEAN,
   from : Tokens \cup {None}]  \* history: the code an access token was issued for

NoToken ==
  [state |-> "new", kind |-> "none", grant |-> None, consumed |-> FALSE, from |-> None]

PCs == {"idle", "sent", "found", "granted", "ready", "saved", "replayed", "swept",
        "answered"}

Codes == {0, 200, 204, 400, 404, 500}

Request ==
  [op     : {"none", "consent", "revoke", "authorize", "exchange"},
   pc     : PCs,
   member : Members \cup {None},
   client : Clients \cup {None},
   grant  : GrantIds \cup {None},  \* of the interaction, of the code, or revoked now
   asked  : SUBSET Scopes,         \* prompt.details.missingOIDCScope
   scopes : SUBSET Scopes,         \* the grant object in memory
   base   : SUBSET Scopes,         \* history: its scopes when it was read
   code   : Tokens \cup {None},    \* the code to be exchanged
   mine   : SUBSET GrantIds,       \* what revoke found
   todo   : SUBSET GrantIds,       \* what its loop has still to do
   replay : BOOLEAN,               \* history: the code had yielded a token when this was sent
   status : Codes]

Blank ==
  [op |-> "none", pc |-> "idle", member |-> None, client |-> None, grant |-> None,
   asked |-> {}, scopes |-> {}, base |-> {}, code |-> None, mine |-> {}, todo |-> {},
   replay |-> FALSE, status |-> 0]

TypeOK ==
  /\ grants \in [GrantIds -> Grant]
  /\ tokens \in [Tokens -> TokenRow]
  /\ req \in [Requests -> Request]
  /\ revived \subseteq GrantIds /\ late \subseteq Tokens

Init ==
  /\ grants = [g \in GrantIds |-> NoGrant]
  /\ tokens = [t \in Tokens |-> NoToken]
  /\ req = [r \in Requests |-> Blank]
  /\ revived = {} /\ late = {}

-----------------------------------------------------------------------------
At(r, op, pc) == req[r].op = op /\ req[r].pc = pc

Goto(r, pc) == req' = [req EXCEPT ![r] = [@ EXCEPT !.pc = pc]]

Answer(r, status) ==
  req' = [req EXCEPT ![r] = [@ EXCEPT !.pc = "answered", !.status = status]]

Send(r, x) ==
  /\ req[r] = Blank
  /\ req' = [req EXCEPT ![r] = [x EXCEPT !.pc = "sent"]]
  /\ UNCHANGED <<grants, tokens, revived, late>>

Done(r) ==
  /\ req[r].pc = "answered"
  /\ req' = [req EXCEPT ![r] = Blank]
  /\ UNCHANGED <<grants, tokens, revived, late>>

InTable(g) == grants[g].state \in {"live", "expired"}

(* adapter.find: an expired row is absent.  Grants live 14 days, far longer *)
(* than codes and access tokens, whose own expiry is left out.              *)
Findable(g) == grants[g].state = "live"

Expire(g) ==
  /\ grants[g].state = "live"
  /\ grants' = [grants EXCEPT ![g] = [@ EXCEPT !.state = "expired"]]
  /\ UNCHANGED <<tokens, req, revived, late>>

(* deleteMany where grantId = g: codes and tokens, not the Grant row.  The  *)
(* mark of a row that is gone means nothing, and is set.                    *)
Rows(g) == {t \in Tokens : tokens[t].state = "live" /\ tokens[t].grant = g}

DeleteRows(g) ==
  tokens' = [t \in Tokens |->
    IF t \in Rows(g) THEN [tokens[t] EXCEPT !.state = "gone", !.consumed = TRUE]
                     ELSE tokens[t]]

(* deleteMany where type = Grant and id = g. *)
DeleteGrant(g) ==
  IF InTable(g) THEN grants' = [grants EXCEPT ![g] = [@ EXCEPT !.state = "gone"]]
                ELSE UNCHANGED grants

-----------------------------------------------------------------------------
(* POST /interaction/:uid/consent.  The interaction was made by an     *)
(* earlier authorization request; it has the grant of the browser's session *)
(* if that was alive, and none otherwise (a first visit, another browser).  *)
(* When this starts, interactionDetails has returned it.                    *)
SendConsent(r, m, a, g, S) ==
  /\ g # None => Findable(g) /\ grants[g].member = m /\ grants[g].client = a
  /\ Send(r, [Blank EXCEPT !.op = "consent", !.member = m, !.client = a,
                           !.grant = g, !.asked = S])

Unused(g) == grants[g].state = "new" /\ \A s \in Requests : req[s].grant # g

(* No grant in the interaction: a new object with an id of its own, and     *)
(* nothing in the table yet.                                                *)
ConsentNew(r) ==
  /\ At(r, "consent", "sent") /\ req[r].grant = None
  /\ \E g \in GrantIds :
       /\ Unused(g)
       /\ req' = [req EXCEPT ![r] =
            [@ EXCEPT !.pc = "ready", !.grant = g, !.base = {},
                      !.scopes = req[r].asked]]
  /\ UNCHANGED <<grants, tokens, revived, late>>

(* Mutation: a new object, with the id the grant has. *)
ConsentFindFresh(r) ==
  /\ At(r, "consent", "sent") /\ req[r].grant # None
  /\ IF Findable(req[r].grant)
     THEN req' = [req EXCEPT ![r] =
            [@ EXCEPT !.pc = "ready", !.base = grants[req[r].grant].scopes,
                      !.scopes = req[r].asked]]
     ELSE Answer(r, 500)
  /\ UNCHANGED <<grants, tokens, revived, late>>

(* Mutation: all the scopes of the client are added, not those missing. *)
ConsentFindAll(r) ==
  /\ At(r, "consent", "sent") /\ req[r].grant # None
  /\ IF Findable(req[r].grant)
     THEN req' = [req EXCEPT ![r] =
            [@ EXCEPT !.pc = "ready", !.base = grants[req[r].grant].scopes,
                      !.scopes = Scopes]]
     ELSE Answer(r, 500)
  /\ UNCHANGED <<grants, tokens, revived, late>>

(* Grant.find, and the missing scopes are added to what it returned.  A     *)
(* grant revoked since is undefined, and addOIDCScope of that throws: 500.  *)
ConsentFind(r) ==
  /\ At(r, "consent", "sent") /\ req[r].grant # None
  /\ IF Findable(req[r].grant)
     THEN req' = [req EXCEPT ![r] =
            [@ EXCEPT !.pc = "ready", !.base = grants[req[r].grant].scopes,
                      !.scopes = grants[req[r].grant].scopes \cup req[r].asked]]
     ELSE Answer(r, 500)
  /\ UNCHANGED <<grants, tokens, revived, late>>

(* Mutation: the new grant is saved without the session's account. *)
ConsentSaveAnonymous(r) ==
  /\ At(r, "consent", "ready")
  /\ grants' = [grants EXCEPT ![req[r].grant] =
       [state |-> "live", member |-> "undefined", client |-> req[r].client,
        scopes |-> req[r].scopes, agreed |-> grants[req[r].grant].agreed]]
  /\ Goto(r, "saved")
  /\ UNCHANGED <<tokens, revived, late>>

(* grant.save(): an upsert of the whole payload, row or no row.             *)
ConsentSave(r) ==
  LET g == req[r].grant IN
  /\ At(r, "consent", "ready")
  /\ grants' = [grants EXCEPT ![g] =
       [state |-> "live", member |-> req[r].member, client |-> req[r].client,
        scopes |-> req[r].scopes, agreed |-> grants[g].agreed \cup req[r].asked]]
  /\ revived' = IF grants[g].state = "gone" THEN revived \cup {g} ELSE revived
  /\ Goto(r, "saved")
  /\ UNCHANGED <<tokens, late>>

(* interactionResult: the consent is recorded, the SPA gets redirectTo. *)
ConsentResult(r) ==
  /\ At(r, "consent", "saved")
  /\ Answer(r, 200)
  /\ UNCHANGED <<grants, tokens, revived, late>>

-----------------------------------------------------------------------------
(* The provider resumes an authorization under grant g: it finds the grant, *)
(* then saves a code.                                                       *)
SendAuthorize(r, g) == Findable(g) /\ Send(r, [Blank EXCEPT !.op = "authorize", !.grant = g])

AuthorizeFind(r) ==
  /\ At(r, "authorize", "sent")
  /\ IF Findable(req[r].grant) THEN Goto(r, "ready") ELSE Answer(r, 400)
  /\ UNCHANGED <<grants, tokens, revived, late>>

(* POST /token with a code. *)
SendExchange(r, t) ==
  /\ tokens[t].kind = "code"
  /\ Send(r, [Blank EXCEPT !.op = "exchange", !.grant = tokens[t].grant, !.code = t,
                           !.replay = \E u \in Tokens : tokens[u].from = t])

(* AuthorizationCode.find: absent is refused, consumed is a replay.         *)
ExchangeFind(r) ==
  LET row == tokens[req[r].code] IN
  /\ At(r, "exchange", "sent")
  /\ \/ row.state = "gone" /\ Answer(r, 400)
     \/ row.state = "live" /\ row.consumed /\ Goto(r, "replayed")
     \/ row.state = "live" /\ ~row.consumed /\ Goto(r, "found")
  /\ UNCHANGED <<grants, tokens, revived, late>>

(* adapter.revokeByGrantId, for a replayed code. *)
ExchangeReplayed(r) ==
  /\ At(r, "exchange", "replayed")
  /\ DeleteRows(req[r].grant)
  /\ Answer(r, 400)
  /\ UNCHANGED <<grants, revived, late>>

ExchangeGrant(r) ==
  /\ At(r, "exchange", "found")
  /\ IF Findable(req[r].grant) THEN Goto(r, "granted") ELSE Answer(r, 400)
  /\ UNCHANGED <<grants, tokens, revived, late>>

(* Mutation: consume does not reach the row. *)
ExchangeForget(r) ==
  /\ At(r, "exchange", "granted")
  /\ IF tokens[req[r].code].state = "live" THEN Goto(r, "ready") ELSE Answer(r, 500)
  /\ UNCHANGED <<grants, tokens, revived, late>>

(* adapter.consume: an update, which throws if the row is there no more.    *)
ExchangeConsume(r) ==
  /\ At(r, "exchange", "granted")
  /\ IF tokens[req[r].code].state = "live"
     THEN /\ tokens' = [tokens EXCEPT ![req[r].code] = [@ EXCEPT !.consumed = TRUE]]
          /\ Goto(r, "ready")
     ELSE Answer(r, 500) /\ UNCHANGED tokens
  /\ UNCHANGED <<grants, revived, late>>

(* A revoke has deleted g's tokens and is about to delete g. *)
BeingRevoked(g) == \E s \in Requests : At(s, "revoke", "swept") /\ req[s].grant = g

(* adapter.upsert of the new code or token: nothing looks at the grant.     *)
IssueToken(r) ==
  LET g == req[r].grant IN
  /\ req[r].op \in {"authorize", "exchange"} /\ req[r].pc = "ready"
  /\ \E t \in Tokens :
       /\ tokens[t].state = "new"
       /\ tokens' = [tokens EXCEPT ![t] =
            [state |-> "live", grant |-> g, consumed |-> FALSE, from |-> req[r].code,
             kind |-> IF req[r].op = "authorize" THEN "code" ELSE "access"]]
       /\ late' = IF ~InTable(g) \/ BeingRevoked(g) THEN late \cup {t} ELSE late
  /\ Answer(r, 200)
  /\ UNCHANGED <<grants, revived>>

-----------------------------------------------------------------------------
(* DELETE /auth/me/connections/:clientId *)
SendRevoke(r, m, a) == Send(r, [Blank EXCEPT !.op = "revoke", !.member = m, !.client = a])

MemberGrants(m) == {g \in GrantIds : Findable(g) /\ grants[g].member = m}

(* Mutation: the rows of the member, whatever the client. *)
RevokeFindAll(r) ==
  LET mine == MemberGrants(req[r].member) IN
  /\ At(r, "revoke", "sent")
  /\ IF mine = {} THEN Answer(r, 404)
     ELSE req' = [req EXCEPT ![r] = [@ EXCEPT !.pc = "found", !.mine = mine, !.todo = mine]]
  /\ UNCHANGED <<grants, tokens, revived, late>>

(* grantRowsFor, and the filter on clientId: none is 404. *)
RevokeFind(r) ==
  LET mine == {g \in MemberGrants(req[r].member) : grants[g].client = req[r].client} IN
  /\ At(r, "revoke", "sent")
  /\ IF mine = {} THEN Answer(r, 404)
     ELSE req' = [req EXCEPT ![r] = [@ EXCEPT !.pc = "found", !.mine = mine, !.todo = mine]]
  /\ UNCHANGED <<grants, tokens, revived, late>>

(* Mutation: the tokens are forgotten. *)
RevokeTokensNot(r) ==
  /\ At(r, "revoke", "found")
  /\ \E g \in req[r].todo :
       req' = [req EXCEPT ![r] = [@ EXCEPT !.pc = "swept", !.grant = g]]
  /\ UNCHANGED <<grants, tokens, revived, late>>

(* The loop, first statement: the codes and tokens of one grant. *)
RevokeTokens(r) ==
  /\ At(r, "revoke", "found")
  /\ \E g \in req[r].todo :
       /\ DeleteRows(g)
       /\ req' = [req EXCEPT ![r] = [@ EXCEPT !.pc = "swept", !.grant = g]]
  /\ UNCHANGED <<grants, revived, late>>

(* Mutation: the loop ends after the first grant. *)
RevokeGrantOnce(r) ==
  /\ At(r, "revoke", "swept")
  /\ DeleteGrant(req[r].grant)
  /\ Answer(r, 204)
  /\ revived' = revived \ {req[r].grant}
  /\ UNCHANGED <<tokens, late>>

(* Second statement: the Grant row; 204 after the last one. *)
RevokeGrant(r) ==
  LET g == req[r].grant IN
  /\ At(r, "revoke", "swept")
  /\ DeleteGrant(g)
  /\ revived' = revived \ {g}
  /\ IF req[r].todo = {g} THEN Answer(r, 204)
     ELSE req' = [req EXCEPT ![r] = [@ EXCEPT !.pc = "found", !.todo = req[r].todo \ {g}]]
  /\ UNCHANGED <<tokens, late>>

-----------------------------------------------------------------------------
(* An await rejects or the process dies: what is done stays done, and the   *)
(* slot is free (whoever sent the request has an error, or nothing).        *)
Fail(r) ==
  /\ Faults
  /\ req[r].pc \notin {"idle", "answered"}
  /\ req' = [req EXCEPT ![r] = Blank]
  /\ UNCHANGED <<grants, tokens, revived, late>>

Consent(r) == ConsentNew(r) \/ ConsentFind(r) \/ ConsentSave(r) \/ ConsentResult(r)

Provider(r) ==
  \/ AuthorizeFind(r) \/ IssueToken(r)
  \/ ExchangeFind(r) \/ ExchangeReplayed(r) \/ ExchangeGrant(r) \/ ExchangeConsume(r)

Revoke(r) == RevokeFind(r) \/ RevokeTokens(r) \/ RevokeGrant(r)

ClientStep(r) ==
  \/ \E m \in Members, a \in Clients :
       \/ SendRevoke(r, m, a)
       \/ \E g \in GrantIds \cup {None}, S \in SUBSET Scopes : SendConsent(r, m, a, g, S)
  \/ \E g \in GrantIds : SendAuthorize(r, g)
  \/ \E t \in Tokens : SendExchange(r, t)
  \/ Done(r)

Next ==
  \/ \E r \in Requests : Consent(r) \/ Provider(r) \/ Revoke(r) \/ ClientStep(r) \/ Fail(r)
  \/ \E g \in GrantIds : Expire(g)

Spec == Init /\ [][Next]_vars

-----------------------------------------------------------------------------
(* Properties *)

(* connections.revoke deletes a grant's tokens before the grant, so that a  *)
(* revoke that fails halfway leaves a grant its member can still revoke.    *)
(* A code or token without its grant is one whose save raced the deletion.  *)
NoTokenOutlivesItsGrant ==
  \A t \in Tokens : tokens[t].state = "live" => InTable(tokens[t].grant) \/ t \in late

(* After a 204 every grant of the app the revoke found is gone, unless a    *)
(* consent that had read it before has saved it again.                      *)
RevokeReachesEveryGrant ==
  \A r \in Requests : req[r].op = "revoke" /\ req[r].status = 204 =>
    \A g \in req[r].mine : InTable(g) => g \in revived

(* A revoke ends nothing but what its member granted to its client; beyond  *)
(* that only the replay of a code ends the tokens of that code's grant.     *)
RevokeTouchesOneConnection ==
  [][/\ \A g \in GrantIds : InTable(g) /\ ~InTable(g)' =>
          \E r \in Requests : req[r].op = "revoke" /\ req[r].member = grants[g].member
                              /\ req[r].client = grants[g].client
     /\ \A t \in Tokens : tokens[t].state = "live" /\ tokens'[t].state = "gone" =>
          LET g == tokens[t].grant IN
          \E r \in Requests :
            \/ req[r].op = "revoke" /\ req[r].member = grants[g].member
               /\ req[r].client = grants[g].client
            \/ At(r, "exchange", "replayed") /\ req[r].grant = g]_vars

(* Replay detection: consume keeps the row of a code, and find returns it    *)
(* with its consumed mark, so a code sent again after it has yielded a       *)
(* token yields no other.                                                    *)
ReplayRefused ==
  \A r \in Requests : req[r].op = "exchange" /\ (req[r].pc = "ready" \/ req[r].status = 200)
    => ~req[r].replay

(* A grant has no scope that its member was not asked for by a consent for  *)
(* this very grant, whichever copies of it consents have saved over it.     *)
ScopesAreAgreed == \A g \in GrantIds : grants[g].scopes \subseteq grants[g].agreed

(* A consent saves the whole payload, and with it may drop a scope; but     *)
(* only one that another consent has added since this one read the grant.   *)
ScopesLostOnlyInARace ==
  [][\A r \in Requests : ConsentSave(r) =>
       LET g == req[r].grant IN
       grants[g].scopes \cap req[r].base \subseteq grants'[g].scopes]_vars

(* README "Connected apps": revoking deletes the grant rows.                *)
RevokedStaysRevoked ==
  \A r \in Requests : req[r].op = "revoke" /\ req[r].status = 204 =>
    \A g \in req[r].mine : ~InTable(g)

(* Grants implement connections: they never change hands, end in one step   *)
(* with all their tokens, and are back, or lose a scope, only by a consent  *)
(* that had read them before.                                               *)
Owner == [g \in GrantIds |-> [member |-> grants[g].member, client |-> grants[g].client]]

Standing == {g \in GrantIds : InTable(g)}

Allowed == [g \in GrantIds |-> IF InTable(g) THEN grants[g].scopes ELSE {}]

Usable == [g \in GrantIds |-> IF InTable(g) THEN Rows(g) ELSE {}]

Begun ==
  {[grant |-> req[r].grant, scopes |-> req[r].scopes] :
     r \in {s \in Requests : At(s, "consent", "ready") /\ grants[req[s].grant].state # "new"}}

Abstract == INSTANCE Connections WITH
  owner <- Owner, standing <- Standing, allowed <- Allowed, usable <- Usable, begun <- Begun

ConnectionsSpec == Abstract!Spec
=============================================================================
