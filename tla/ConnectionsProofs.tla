-------------------------- MODULE ConnectionsProofs --------------------------
(***************************************************************************)
(* Grants implement Connections, and what the scopes of a grant may be.    *)
(* The consents that hold a copy of a saved grant are what Connections     *)
(* calls begun; a step takes one slot into that set, or out of it, or      *)
(* leaves it, and no other slot notices.                                   *)
(***************************************************************************)
EXTENDS GrantsProofs

Asking(r) == At(r, "consent", "ready")

Untouched(g) == grants[g].state = "new" => grants[g] = NoGrant

(* What a consent is about to save: all it has read, and nothing that was   *)
(* not agreed to.                                                           *)
CopyOK(r) ==
  Asking(r) =>
    /\ req[r].base \subseteq req[r].scopes
    /\ req[r].scopes \subseteq grants[req[r].grant].agreed \cup req[r].asked

ScopeInv ==
  /\ ScopesAreAgreed
  /\ \A g \in GrantIds : Untouched(g)
  /\ \A r \in Requests : CopyOK(r)

-----------------------------------------------------------------------------
(* The slots *)
LEMMA OneSlot ==
  ASSUME TypeOK, TypeOK', NEW r \in Requests, NEW q, req' = [req EXCEPT ![r] = q]
  PROVE  Only(r) /\ req'[r] = q
BY DEF TypeOK, Only

(* No step of a request but the reading of its grant leaves it a copy.      *)
LEMMA Leaves ==
  ASSUME TypeOK, TypeOK', NEW r \in Requests,
         \/ ConsentSave(r) \/ ConsentResult(r) \/ Provider(r) \/ Revoke(r)
         \/ ClientStep(r) \/ Fail(r)
  PROVE  Only(r) /\ ~Asking(r)'
<1>1. ASSUME NEW pc \in {"saved", "replayed", "found", "granted"}, Goto(r, pc)
      PROVE  Only(r) /\ ~Asking(r)'
  BY <1>1, GotoStep DEF Asking, At, PCs
<1>2. ASSUME Goto(r, "ready"), req[r].op # "consent"
      PROVE  Only(r) /\ ~Asking(r)'
  BY <1>2, GotoStep DEF Asking, At, PCs, Same
<1>3. ASSUME NEW status \in Codes, Answer(r, status)
      PROVE  Only(r) /\ ~Asking(r)'
  BY <1>3, AnswerStep DEF Asking, At
<1>4. ASSUME NEW x \in Request, Send(r, x)
      PROVE  Only(r) /\ ~Asking(r)'
  BY <1>4, SendStep DEF Asking, At
<1>5. ASSUME req' = [req EXCEPT ![r] = Blank]
      PROVE  Only(r) /\ ~Asking(r)'
  <2>1. Only(r) /\ req'[r] = Blank
    BY <1>5, OneSlot
  <2>2. Blank.pc # "ready"
    BY DEF Blank
  <2> QED  BY <2>1, <2>2 DEF Asking, At
<1>6. CASE ConsentSave(r) \/ ConsentResult(r)
  BY <1>1, <1>3, <1>6 DEF ConsentSave, ConsentResult, Codes
<1>7. CASE Provider(r)
  <2>1. CASE AuthorizeFind(r)
    BY <1>2, <1>3, <2>1 DEF AuthorizeFind, Codes, At
  <2>2. CASE IssueToken(r)
    BY <1>3, <2>2 DEF IssueToken, Codes
  <2>3. CASE ExchangeFind(r)
    BY <1>1, <1>3, <2>3 DEF ExchangeFind, Codes
  <2>4. CASE ExchangeReplayed(r)
    BY <1>3, <2>4 DEF ExchangeReplayed, Codes
  <2>5. CASE ExchangeGrant(r)
    BY <1>1, <1>3, <2>5 DEF ExchangeGrant, Codes
  <2>6. CASE ExchangeConsume(r)
    BY <1>2, <1>3, <2>6 DEF ExchangeConsume, Codes, At
  <2> QED  BY <1>7, <2>1, <2>2, <2>3, <2>4, <2>5, <2>6 DEF Provider
<1>8. CASE Revoke(r)
  <2>0. ASSUME NEW q, req' = [req EXCEPT ![r] = q], q.op = "revoke"
        PROVE  Only(r) /\ ~Asking(r)'
    <3>1. Only(r) /\ req'[r] = q
      BY <2>0, OneSlot
    <3> QED  BY <2>0, <3>1 DEF Asking, At
  <2>1. req[r].op = "revoke" /\ req[r] \in Request
    BY <1>8 DEF Revoke, RevokeFind, RevokeTokens, RevokeGrant, At, TypeOK
  <2>2. CASE RevokeFind(r)
    <3>1. PICK mine :
            \/ Answer(r, 404)
            \/ req' = [req EXCEPT ![r] =
                         [req[r] EXCEPT !.pc = "found", !.mine = mine, !.todo = mine]]
      BY <2>2 DEF RevokeFind
    <3> DEFINE q == [req[r] EXCEPT !.pc = "found", !.mine = mine, !.todo = mine]
    <3>2. q.op = "revoke"
      BY <2>1 DEF Request
    <3>3. Answer(r, 404) \/ req' = [req EXCEPT ![r] = q]
      BY <3>1
    <3> HIDE DEF q
    <3>4. CASE Answer(r, 404)
      BY <1>3, <3>4 DEF Codes
    <3> QED  BY <2>0, <3>2, <3>3, <3>4
  <2>3. CASE RevokeTokens(r)
    <3>1. PICK g : req' = [req EXCEPT ![r] = [req[r] EXCEPT !.pc = "swept", !.grant = g]]
      BY <2>3 DEF RevokeTokens
    <3> DEFINE q == [req[r] EXCEPT !.pc = "swept", !.grant = g]
    <3>2. q.op = "revoke"
      BY <2>1 DEF Request
    <3> QED  BY <2>0, <3>1, <3>2
  <2>4. CASE RevokeGrant(r)
    <3> DEFINE q == [req[r] EXCEPT !.pc = "found", !.todo = req[r].todo \ {req[r].grant}]
    <3>1. Answer(r, 204) \/ req' = [req EXCEPT ![r] = q]
      BY <2>4 DEF RevokeGrant
    <3>2. q.op = "revoke"
      BY <2>1 DEF Request
    <3> HIDE DEF q
    <3>3. CASE Answer(r, 204)
      BY <1>3, <3>3 DEF Codes
    <3> QED  BY <2>0, <3>1, <3>2, <3>3
  <2> QED  BY <1>8, <2>2, <2>3, <2>4 DEF Revoke
<1>9. ASSUME NEW m \in Members, NEW a \in Clients, SendRevoke(r, m, a)
      PROVE  Only(r) /\ ~Asking(r)'
  <2>1. [Blank EXCEPT !.op = "revoke", !.member = m, !.client = a] \in Request
    BY DEF Request, Blank, PCs, Codes
  <2> QED  BY <1>4, <1>9, <2>1 DEF SendRevoke
<1>10. ASSUME NEW m \in Members, NEW a \in Clients, NEW g \in GrantIds \cup {None},
              NEW S \in SUBSET Scopes, SendConsent(r, m, a, g, S)
       PROVE  Only(r) /\ ~Asking(r)'
  <2>1. [Blank EXCEPT !.op = "consent", !.member = m, !.client = a, !.grant = g,
                      !.asked = S] \in Request
    BY ZenonT(20) DEF Request, Blank, PCs, Codes
  <2> QED  BY <1>4, <1>10, <2>1 DEF SendConsent
<1>11. ASSUME NEW g \in GrantIds, SendAuthorize(r, g)
       PROVE  Only(r) /\ ~Asking(r)'
  <2>1. [Blank EXCEPT !.op = "authorize", !.grant = g] \in Request
    BY DEF Request, Blank, PCs, Codes
  <2> QED  BY <1>4, <1>11, <2>1 DEF SendAuthorize
<1>12. ASSUME NEW t \in Tokens, SendExchange(r, t)
       PROVE  Only(r) /\ ~Asking(r)'
  <2> DEFINE again == \E u \in Tokens : tokens[u].from = t
             h == tokens[t].grant
  <2>1. h \in GrantIds \cup {None} /\ again \in BOOLEAN
    BY DEF TypeOK, TokenRow
  <2> HIDE DEF again, h
  <2>2. [Blank EXCEPT !.op = "exchange", !.grant = h, !.code = t, !.replay = again]
          \in Request
    BY ZenonT(20), <2>1 DEF Request, Blank, PCs, Codes
  <2>3. Send(r, [Blank EXCEPT !.op = "exchange", !.grant = h, !.code = t, !.replay = again])
    BY <1>12 DEF SendExchange, again, h
  <2> QED  BY <1>4, <2>2, <2>3
<1>13. CASE Done(r) \/ Fail(r)
  BY <1>5, <1>13 DEF Done, Fail
<1> QED  BY <1>6, <1>7, <1>8, <1>9, <1>10, <1>11, <1>12, <1>13 DEF ClientStep

-----------------------------------------------------------------------------
(* The scopes *)
LEMMA GrantOfAsking ==
  ASSUME GrantInv, NEW r \in Requests, Asking(r)
  PROVE  /\ req[r] \in Request /\ req[r].grant \in GrantIds
         /\ req[r].member \in Members /\ req[r].client \in Clients
BY DEF GrantInv, TypeOK, RequestOK, Request, Asking, At

(* Only a consent that saves its grant touches its scopes or its owner.     *)
SameRows ==
  \A g \in GrantIds :
    /\ Untouched(g)' /\ (Saved(g)' <=> Saved(g))
    /\ grants'[g].scopes = grants[g].scopes /\ grants'[g].agreed = grants[g].agreed
    /\ grants'[g].member = grants[g].member /\ grants'[g].client = grants[g].client

LEMMA StateChanges ==
  ASSUME TypeOK, \A g \in GrantIds : Untouched(g),
         NEW h \in GrantIds, NEW state \in {"expired", "gone"}, InTable(h),
         grants' = [grants EXCEPT ![h] = [grants[h] EXCEPT !.state = state]]
  PROVE  /\ SameRows
         /\ \A g \in GrantIds : InTable(g)' <=> InTable(g) /\ (g = h => state = "expired")
<1> DEFINE new == [grants[h] EXCEPT !.state = state]
<1>1. /\ new.state = state /\ new.scopes = grants[h].scopes
      /\ new.agreed = grants[h].agreed /\ new.member = grants[h].member
      /\ new.client = grants[h].client
  BY DEF TypeOK, Grant
<1>2. grants'[h] = new /\ \A g \in GrantIds \ {h} : grants'[g] = grants[g]
  BY DEF TypeOK
<1> HIDE DEF new
<1> QED  BY <1>1, <1>2 DEF SameRows, Untouched, Saved, InTable

LEMMA Expires ==
  ASSUME TypeOK, \A g \in GrantIds : Untouched(g), NEW h \in GrantIds, Expire(h)
  PROVE  SameRows /\ \A g \in GrantIds : InTable(g)' <=> InTable(g)
<1>1. InTable(h) /\ grants' = [grants EXCEPT ![h] = [grants[h] EXCEPT !.state = "expired"]]
  BY DEF Expire, InTable
<1> QED  BY <1>1, StateChanges

LEMMA Deletes ==
  ASSUME TypeOK, \A g \in GrantIds : Untouched(g), NEW h \in GrantIds, DeleteGrant(h)
  PROVE  SameRows /\ \A g \in GrantIds : InTable(g)' <=> InTable(g) /\ g # h
<1>1. CASE InTable(h)
  BY <1>1, StateChanges DEF DeleteGrant
<1>2. CASE ~InTable(h)
  BY <1>2 DEF DeleteGrant, SameRows, Untouched, Saved, InTable
<1> QED  BY <1>1, <1>2

(* What is not a consent that reads or saves. *)
Aside(r) == ConsentResult(r) \/ Provider(r) \/ Revoke(r) \/ ClientStep(r) \/ Fail(r)

LEMMA AsideKeeps ==
  ASSUME GrantInv, \A g \in GrantIds : Untouched(g), NEW r \in Requests, Aside(r)
  PROVE  SameRows
<1>1. UNCHANGED grants \/ RevokeGrant(r)
  BY DEF Aside, ConsentResult, Provider, AuthorizeFind, IssueToken, ExchangeFind,
         ExchangeReplayed, ExchangeGrant, ExchangeConsume, Revoke, RevokeFind,
         RevokeTokens, ClientStep, SendRevoke, SendConsent, SendAuthorize, SendExchange,
         Send, Done, Fail
<1>2. CASE UNCHANGED grants
  BY <1>2 DEF SameRows, Untouched, Saved
<1>3. CASE RevokeGrant(r)
  <2>1. req[r].grant \in GrantIds /\ DeleteGrant(req[r].grant) /\ TypeOK
    BY <1>3 DEF RevokeGrant, At, GrantInv, TypeOK, RequestOK, Saved
  <2> QED  BY <2>1, Deletes
<1> QED  BY <1>1, <1>2, <1>3

(* The copies of the other consents stay within what was agreed to. *)
LEMMA CopiesKept ==
  ASSUME GrantInv, ScopeInv, NEW r \in Requests, Only(r), CopyOK(r)',
         \A g \in GrantIds : grants[g].agreed \subseteq grants'[g].agreed
  PROVE  \A s \in Requests : CopyOK(s)'
<1> SUFFICES ASSUME NEW s \in Requests, s # r  PROVE CopyOK(s)'
  OBVIOUS
<1>1. CopyOK(s) /\ req'[s] = req[s]
  BY DEF ScopeInv, Only
<1>2. Asking(s) => req[s].grant \in GrantIds
  BY GrantOfAsking
<1> QED  BY <1>1, <1>2 DEF CopyOK, Asking, At

(* ConsentSave, for the properties and for the refinement. *)
LEMMA Saves ==
  ASSUME GrantInv, NEW r \in Requests, ConsentSave(r)
  PROVE  LET g == req[r].grant IN
         /\ Asking(r) /\ g \in GrantIds /\ UNCHANGED tokens
         /\ grants'[g] = [state |-> "live", member |-> req[r].member,
                          client |-> req[r].client, scopes |-> req[r].scopes,
                          agreed |-> grants[g].agreed \cup req[r].asked]
         /\ \A h \in GrantIds \ {g} : grants'[h] = grants[h]
<1>1. Asking(r) /\ TypeOK
  BY DEF ConsentSave, Asking, GrantInv
<1>2. req[r].grant \in GrantIds
  BY <1>1, GrantOfAsking
<1> QED  BY <1>1, <1>2 DEF ConsentSave, TypeOK

(* The two consents that take a copy. *)
LEMMA ReadsNew ==
  ASSUME TypeOK, NEW r \in Requests, ConsentNew(r)
  PROVE  /\ Only(r) /\ UNCHANGED <<grants, tokens>>
         /\ At(r, "consent", "sent") /\ At(r, "consent", "ready")'
         /\ req'[r].base = {} /\ req'[r].scopes = req[r].asked
         /\ req'[r].asked = req[r].asked
         /\ req'[r].grant \in GrantIds /\ ~Saved(req'[r].grant)
<1>1. PICK g \in GrantIds :
        /\ Unused(g)
        /\ req' = [req EXCEPT ![r] =
             [req[r] EXCEPT !.pc = "ready", !.grant = g, !.base = {},
                            !.scopes = req[r].asked]]
  BY DEF ConsentNew
<1> DEFINE q == [req[r] EXCEPT !.pc = "ready", !.grant = g, !.base = {},
                               !.scopes = req[r].asked]
<1>2. req[r] \in Request /\ req[r].op = "consent"
  BY DEF TypeOK, ConsentNew, At
<1>3. /\ q \in Request /\ q.op = "consent" /\ q.pc = "ready" /\ q.base = {}
      /\ q.scopes = req[r].asked /\ q.asked = req[r].asked /\ q.grant = g
  BY <1>2 DEF Request, PCs
<1>4. Only(r) /\ req'[r] = q
  BY <1>1, <1>3 DEF TypeOK, Only
<1> HIDE DEF q
<1> QED  BY <1>1, <1>3, <1>4 DEF ConsentNew, At, Unused, Saved

LEMMA ReadsGrant ==
  ASSUME TypeOK, NEW r \in Requests, ConsentFind(r), ~Answer(r, 500)
  PROVE  /\ Only(r) /\ UNCHANGED <<grants, tokens>>
         /\ At(r, "consent", "sent") /\ At(r, "consent", "ready")'
         /\ req[r].grant \in GrantIds /\ Findable(req[r].grant)
         /\ req'[r].grant = req[r].grant /\ req'[r].asked = req[r].asked
         /\ req'[r].base = grants[req[r].grant].scopes
         /\ req'[r].scopes = grants[req[r].grant].scopes \cup req[r].asked
<1> DEFINE B == grants[req[r].grant].scopes
           S == B \cup req[r].asked
           q == [req[r] EXCEPT !.pc = "ready", !.base = B, !.scopes = S]
<1>1. /\ At(r, "consent", "sent") /\ req[r].grant # None /\ Findable(req[r].grant)
      /\ req' = [req EXCEPT ![r] = q] /\ UNCHANGED <<grants, tokens>>
  BY DEF ConsentFind
<1>2. req[r] \in Request /\ req[r].grant \in GrantIds
  BY <1>1 DEF TypeOK, Request
<1>3. B \in SUBSET Scopes /\ S \in SUBSET Scopes
  BY <1>2 DEF TypeOK, Grant, Request
<1> HIDE DEF B, S
<1>4. /\ q \in Request /\ q.op = req[r].op /\ q.pc = "ready" /\ q.base = B
      /\ q.scopes = S /\ q.asked = req[r].asked /\ q.grant = req[r].grant
  BY <1>2, <1>3 DEF Request, PCs
<1>5. Only(r) /\ req'[r] = q
  BY <1>1, <1>4 DEF TypeOK, Only
<1> HIDE DEF q
<1> QED  BY <1>1, <1>2, <1>4, <1>5 DEF At, B, S

LEMMA ScopeInit == Init => ScopeInv
<1> SUFFICES ASSUME Init  PROVE ScopeInv
  OBVIOUS
<1>1. \A r \in Requests : CopyOK(r)
  BY DEF Init, CopyOK, Asking, At, Blank
<1>2. ScopesAreAgreed /\ \A g \in GrantIds : Untouched(g)
  BY DEF Init, ScopesAreAgreed, Untouched, NoGrant
<1> QED  BY <1>1, <1>2 DEF ScopeInv

LEMMA ScopeStep == GrantInv /\ GrantInv' /\ ScopeInv /\ [Next]_vars => ScopeInv'
<1> SUFFICES ASSUME GrantInv, GrantInv', ScopeInv, [Next]_vars  PROVE ScopeInv'
  OBVIOUS
<1>1. TypeOK /\ TypeOK' /\ (\A g \in GrantIds : Untouched(g)) /\ ScopesAreAgreed
  BY DEF GrantInv, ScopeInv
<1>2. SameRows => ScopesAreAgreed' /\ \A g \in GrantIds : Untouched(g)'
  BY <1>1 DEF SameRows, ScopesAreAgreed
<1>3. SameRows => \A g \in GrantIds : grants[g].agreed \subseteq grants'[g].agreed
  BY DEF SameRows
<1>4. UNCHANGED grants => SameRows
  BY <1>1 DEF SameRows, Untouched, Saved
<1>5. CASE UNCHANGED vars
  BY <1>1, <1>2, <1>4, <1>5 DEF ScopeInv, CopyOK, Asking, At, vars
<1>6. ASSUME NEW g \in GrantIds, Expire(g)  PROVE ScopeInv'
  <2>1. SameRows /\ UNCHANGED req
    BY <1>1, <1>6, Expires DEF Expire
  <2>2. ASSUME NEW r \in Requests  PROVE CopyOK(r)'
    <3>1. CopyOK(r) /\ (Asking(r) => req[r].grant \in GrantIds)
      BY GrantOfAsking DEF ScopeInv
    <3> QED  BY <1>3, <2>1, <3>1 DEF CopyOK, Asking, At
  <2> QED  BY <1>2, <2>1, <2>2 DEF ScopeInv
<1>7. ASSUME NEW r \in Requests, Aside(r)  PROVE ScopeInv'
  <2>1. SameRows
    BY <1>1, <1>7, AsideKeeps
  <2>2. Only(r) /\ CopyOK(r)'
    BY <1>1, <1>7, Leaves DEF Aside, CopyOK
  <2> QED  BY <1>2, <1>3, <2>1, <2>2, CopiesKept DEF ScopeInv
<1>8. ASSUME NEW r \in Requests, ConsentNew(r)  PROVE ScopeInv'
  <2>1. /\ Only(r) /\ UNCHANGED grants /\ req'[r].base = {}
        /\ req'[r].scopes = req'[r].asked
    BY <1>1, <1>8, ReadsNew
  <2>2. CopyOK(r)'
    BY <2>1 DEF CopyOK
  <2> QED  BY <1>2, <1>3, <1>4, <2>1, <2>2, CopiesKept DEF ScopeInv
<1>9. ASSUME NEW r \in Requests, ConsentFind(r)  PROVE ScopeInv'
  <2>1. UNCHANGED grants
    BY <1>9 DEF ConsentFind
  <2>2. Only(r) /\ CopyOK(r)'
    <3>1. CASE Answer(r, 500)
      BY <1>1, <3>1, AnswerStep DEF CopyOK, Asking, At, Codes
    <3>2. CASE ~Answer(r, 500)
      BY <1>1, <1>9, <2>1, <3>2, ReadsGrant DEF CopyOK, ScopesAreAgreed
    <3> QED  BY <3>1, <3>2
  <2> QED  BY <1>2, <1>3, <1>4, <2>1, <2>2, CopiesKept DEF ScopeInv
<1>10. ASSUME NEW r \in Requests, ConsentSave(r)  PROVE ScopeInv'
  <2> DEFINE g == req[r].grant
  <2>1. /\ Asking(r) /\ g \in GrantIds
        /\ grants'[g] = [state |-> "live", member |-> req[r].member,
                         client |-> req[r].client, scopes |-> req[r].scopes,
                         agreed |-> grants[g].agreed \cup req[r].asked]
        /\ \A h \in GrantIds \ {g} : grants'[h] = grants[h]
    BY <1>10, Saves
  <2>2. req[r].scopes \subseteq grants[g].agreed \cup req[r].asked
    BY <2>1 DEF ScopeInv, CopyOK
  <2>3. ScopesAreAgreed' /\ \A h \in GrantIds : Untouched(h)'
    BY <1>1, <2>1, <2>2 DEF ScopesAreAgreed, Untouched
  <2>4. \A h \in GrantIds : grants[h].agreed \subseteq grants'[h].agreed
    BY <2>1
  <2>5. Only(r) /\ CopyOK(r)'
    BY <1>1, <1>10, Leaves DEF CopyOK
  <2> QED  BY <2>3, <2>4, <2>5, CopiesKept DEF ScopeInv
<1> QED  BY <1>5, <1>6, <1>7, <1>8, <1>9, <1>10 DEF Next, Consent, Aside

LEMMA ScopeInvariance == Spec => []ScopeInv
BY ScopeInit, ScopeStep, Invariance, PTL DEF Spec

(* interaction.controller's consent: whichever copies of a grant consents   *)
(* save over each other, revoked in between or not, it has only scopes that *)
(* consents for this grant have asked its member for.                       *)
THEOREM Agreed == Spec => []ScopesAreAgreed
<1>1. ScopeInv => ScopesAreAgreed
  BY DEF ScopeInv
<1> QED  BY <1>1, ScopeInvariance, PTL

(* What a save keeps, as a predicate of a step. *)
ReadIsKept ==
  \A r \in Requests : ConsentSave(r) =>
    LET g == req[r].grant IN
    grants[g].scopes \cap req[r].base \subseteq grants'[g].scopes

(* grant.save, an upsert of the whole payload: a scope is lost only if      *)
(* another consent added it after this one had read the grant.              *)
THEOREM LostInARace == Spec => ScopesLostOnlyInARace
<1>1. ASSUME GrantInv, ScopeInv, NEW r \in Requests, ConsentSave(r)
      PROVE  req[r].base \subseteq grants'[req[r].grant].scopes
  <2> DEFINE g == req[r].grant
  <2>1. /\ Asking(r)
        /\ grants'[g] = [state |-> "live", member |-> req[r].member,
                         client |-> req[r].client, scopes |-> req[r].scopes,
                         agreed |-> grants[g].agreed \cup req[r].asked]
    BY <1>1, Saves
  <2> QED  BY <1>1, <2>1 DEF ScopeInv, CopyOK
<1>2. GrantInv /\ ScopeInv /\ [Next]_vars => [ReadIsKept]_vars
  BY <1>1 DEF ReadIsKept
<1>3. Spec => [][ReadIsKept]_vars
  BY <1>2, Invariance, ScopeInvariance, PTL DEF Spec
<1> QED  BY <1>3 DEF ScopesLostOnlyInARace, ReadIsKept

-----------------------------------------------------------------------------
(* The refinement.  A consent that has read a saved grant, or whose grant   *)
(* another consent has saved, holds a copy: what Connections calls begun.   *)
Holding(s) == Asking(s) /\ grants[req[s].grant].state # "new"

Copy(s) == [grant |-> req[s].grant, scopes |-> req[s].scopes]

LEMMA BegunIs == \A v : v \in Begun <=> \E s \in Requests : Holding(s) /\ v = Copy(s)
BY DEF Begun, Holding, Copy, Asking

Others(r) ==
  \A s \in Requests \ {r} : (Holding(s)' <=> Holding(s)) /\ (Holding(s) => Copy(s)' = Copy(s))

(* Only the consent that saves a new grant has it: nobody else's copy turns *)
(* into one of a saved grant.                                               *)
LEMMA OthersHold ==
  ASSUME GrantInv, ScopeInv, NEW r \in Requests, Only(r),
         \A g \in GrantIds : Saved(g) => Saved(g)',
         \A g \in GrantIds : Saved(g)' => Saved(g) \/ req[r].grant = g
  PROVE  Others(r)
<1> SUFFICES ASSUME NEW s \in Requests \ {r}
             PROVE  (Holding(s)' <=> Holding(s)) /\ (Holding(s) => Copy(s)' = Copy(s))
  BY DEF Others
<1>1. req'[s] = req[s] /\ Owned(s)
  BY DEF Only, GrantInv
<1>2. Asking(s)' <=> Asking(s)
  BY <1>1 DEF Asking, At
<1>3. ASSUME Asking(s), NEW g \in GrantIds, g = req[s].grant
      PROVE  Saved(g)' <=> Saved(g)
  <2>1. g # None /\ req[s].op = "consent" /\ req[s].member # None
    BY <1>3, GrantOfAsking, NoneAssumption DEF Asking, At
  <2>2. SUFFICES ASSUME ~Saved(g), req[r].grant = g  PROVE FALSE
    BY <2>1 DEF Saved
  <2>3. grants[g].member # req[s].member
    BY <2>1, <2>2 DEF ScopeInv, Untouched, NoGrant, Saved
  <2> QED  BY <1>1, <1>3, <2>1, <2>2, <2>3 DEF Owned
<1>4. Asking(s) => req[s].grant \in GrantIds
  BY GrantOfAsking
<1> QED  BY <1>1, <1>2, <1>3, <1>4 DEF Holding, Copy, Saved

(* A slot that holds nothing afterwards gives up its copy, if it had one    *)
(* and no other slot has the same.                                          *)
LEMMA Drops ==
  ASSUME NEW r \in Requests, Others(r), ~Holding(r)'
  PROVE  /\ Holding(r) => Copy(r) \in Begun /\ Begun' \in {Begun, Begun \ {Copy(r)}}
         /\ ~Holding(r) => Begun' = Begun
<1>1. \A v : v \in Begun' <=> \E s \in Requests : Holding(s)' /\ v = Copy(s)'
  BY DEF Begun, Holding, Copy, Asking
<1>2. \A v : v \in Begun' <=> \E s \in Requests \ {r} : Holding(s) /\ v = Copy(s)
  BY <1>1 DEF Others
<1>3. ~Holding(r) => Begun' = Begun
  <2>1. ~Holding(r) => \A v : v \in Begun' <=> v \in Begun
    BY <1>2, BegunIs
  <2> QED  BY <2>1 DEF Begun
<1>4. ASSUME Holding(r)
      PROVE  Copy(r) \in Begun /\ Begun' \in {Begun, Begun \ {Copy(r)}}
  <2>1. Copy(r) \in Begun
    BY <1>4, BegunIs
  <2>2. CASE \E s \in Requests \ {r} : Holding(s) /\ Copy(s) = Copy(r)
    <3>1. \A v : v \in Begun' <=> v \in Begun
      BY <1>2, <1>4, <2>2, BegunIs
    <3> QED  BY <2>1, <3>1 DEF Begun
  <2>3. CASE ~\E s \in Requests \ {r} : Holding(s) /\ Copy(s) = Copy(r)
    <3>1. \A v : v \in Begun' <=> v \in Begun /\ v # Copy(r)
      BY <1>2, <1>4, <2>3, BegunIs
    <3>2. Begun' = Begun \ {Copy(r)}
      BY <3>1 DEF Begun
    <3> QED  BY <2>1, <3>2
  <2> QED  BY <2>2, <2>3
<1> QED  BY <1>3, <1>4

Rest == UNCHANGED <<Owner, Standing, Allowed, Usable>>

LEMMA Leaving ==
  ASSUME GrantInv, GrantInv', ScopeInv, NEW r \in Requests, Only(r), ~Asking(r)',
         \A g \in GrantIds : Saved(g)' <=> Saved(g), Rest
  PROVE  [Abstract!Next]_(Abstract!vars)
<1>1. Others(r)
  BY OthersHold
<1>2. CASE Holding(r)
  <2>1. Copy(r) \in Begun /\ Begun' \in {Begun, Begun \ {Copy(r)}}
    BY <1>1, <1>2, Drops DEF Holding
  <2>2. CASE Begun' = Begun
    BY <2>2 DEF Rest, Abstract!vars
  <2>3. CASE Begun' = Begun \ {Copy(r)}
    BY <2>1, <2>3 DEF Rest, Abstract!Next, Abstract!GiveUp
  <2> QED  BY <2>1, <2>2, <2>3
<1>3. CASE ~Holding(r)
  <2>1. Begun' = Begun
    BY <1>1, <1>3, Drops DEF Holding
  <2> QED  BY <2>1 DEF Rest, Abstract!vars
<1> QED  BY <1>2, <1>3

LEMMA RestOf ==
  ASSUME SameRows, \A g \in GrantIds : InTable(g)' <=> InTable(g),
         \A g \in GrantIds : InTable(g) => Rows(g)' = Rows(g)
  PROVE  Rest
<1>1. Owner' = Owner
  BY DEF SameRows, Owner
<1>2. Standing' = Standing
  BY DEF Standing
<1>3. Allowed' = Allowed
  BY DEF SameRows, Allowed
<1>4. Usable' = Usable
  BY DEF Usable
<1> QED  BY <1>1, <1>2, <1>3, <1>4 DEF Rest

(* Reading a saved grant. *)
LEMMA BeginStep ==
  ASSUME GrantInv, GrantInv', ScopeInv, NEW r \in Requests, ConsentFind(r)
  PROVE  [Abstract!Next]_(Abstract!vars)
<1>1. TypeOK /\ UNCHANGED <<grants, tokens>>
  BY DEF GrantInv, ConsentFind
<1>2. Rest /\ \A g \in GrantIds : Saved(g)' <=> Saved(g)
  BY <1>1 DEF Rest, Owner, Standing, Allowed, Usable, InTable, Rows, Saved
<1>3. CASE Answer(r, 500)
  <2>1. Only(r) /\ ~Asking(r)'
    BY <1>1, <1>3, AnswerStep DEF Asking, At, Codes
  <2> QED  BY <1>2, <2>1, Leaving
<1>4. CASE ~Answer(r, 500)
  <2> DEFINE g == req[r].grant
             b == [grant |-> g, scopes |-> Allowed[g] \cup req[r].asked]
  <2>1. /\ Only(r) /\ At(r, "consent", "sent") /\ At(r, "consent", "ready")'
        /\ g \in GrantIds /\ Findable(g) /\ req'[r].grant = g
        /\ req'[r].scopes = grants[g].scopes \cup req[r].asked
    BY <1>1, <1>4, ReadsGrant
  <2>2. InTable(g) /\ g \in Standing /\ Allowed[g] = grants[g].scopes
    BY <2>1 DEF Findable, InTable, Standing, Allowed
  <2>3. Holding(r)' /\ ~Holding(r) /\ Copy(r)' = b
    BY <1>1, <2>1, <2>2 DEF Holding, Asking, At, Copy, Findable
  <2>4. Others(r)
    BY <1>2, <2>1, OthersHold
  <2> HIDE DEF b
  <2>5. \A v : v \in Begun' <=> \E s \in Requests : Holding(s)' /\ v = Copy(s)'
    BY DEF Begun, Holding, Copy, Asking
  <2>6. \A v : v \in Begun' <=> v \in Begun \/ v = b
    BY <2>3, <2>4, <2>5, BegunIs DEF Others
  <2>7. Begun' = Begun \cup {b}
    BY <2>6 DEF Begun
  <2>8. req[r].asked \in SUBSET Scopes
    BY <1>1 DEF TypeOK, Request
  <2> QED  BY <1>2, <2>1, <2>2, <2>7, <2>8 DEF Rest, Abstract!Next, Abstract!Begin, b
<1> QED  BY <1>3, <1>4

(* Saving: a first consent connects; a later one extends what stands, or    *)
(* brings back what was revoked.                                            *)
LEMMA WriteStep ==
  ASSUME GrantInv, GrantInv', ScopeInv, NEW r \in Requests, ConsentSave(r)
  PROVE  [Abstract!Next]_(Abstract!vars)
<1>g. PICK g : g = req[r].grant
  OBVIOUS
<1> DEFINE m == req[r].member
           a == req[r].client
           S == req[r].scopes
<1>1. TypeOK /\ Owned(r) /\ \A t \in Tokens : TokenOK(t)
  BY DEF GrantInv
<1>2. /\ Asking(r) /\ g \in GrantIds /\ UNCHANGED tokens
      /\ grants'[g] = [state |-> "live", member |-> m, client |-> a, scopes |-> S,
                       agreed |-> grants[g].agreed \cup req[r].asked]
      /\ \A h \in GrantIds \ {g} : grants'[h] = grants[h]
  BY <1>g, Saves
<1>3. /\ grants'[g].state = "live" /\ grants'[g].member = m /\ grants'[g].client = a
      /\ grants'[g].scopes = S
  BY <1>2
<1>4. m \in Members /\ a \in Clients /\ S \in SUBSET Scopes
  BY <1>1, <1>2, <1>g, GrantOfAsking DEF Request
<1>5. Only(r) /\ ~Asking(r)'
  BY <1>1, Leaves DEF GrantInv
<1>6. \A h \in GrantIds : (Saved(h) => Saved(h)') /\ (Saved(h)' => Saved(h) \/ g = h)
  BY <1>2, <1>3 DEF Saved
<1>7. Others(r) /\ ~Holding(r)'
  BY <1>5, <1>6, <1>g, OthersHold DEF Holding
<1> HIDE DEF m, a, S
<1>8. InTable(g)' /\ \A h \in GrantIds \ {g} : InTable(h)' <=> InTable(h)
  BY <1>2, <1>3 DEF InTable
<1>9. \A h \in GrantIds : Rows(h)' = Rows(h)
  BY <1>2 DEF Rows
<1>10. Standing' = Standing \cup {g}
  BY <1>2, <1>8 DEF Standing
<1>11. Allowed' = [Allowed EXCEPT ![g] = S]
  BY <1>2, <1>3, <1>8 DEF Allowed
<1>12. Owner' = [Owner EXCEPT ![g] = [member |-> m, client |-> a]]
  BY <1>2, <1>3 DEF Owner
<1>13. Usable' = [Usable EXCEPT ![g] = Rows(g)]
  BY <1>2, <1>8, <1>9 DEF Usable
<1>14. CASE ~Saved(g)
  <2>1. grants[g] = NoGrant
    BY <1>2, <1>14 DEF ScopeInv, Untouched, Saved
  <2>2. Owner[g] = Abstract!Nobody
    BY <1>2, <2>1 DEF Owner, NoGrant, Abstract!Nobody
  <2>3. Rows(g) = {} /\ Usable[g] = {}
    BY <1>1, <1>2, <1>14, <2>1 DEF Rows, TokenOK, Usable, InTable, NoGrant
  <2>4. Usable' = Usable
    BY <1>13, <2>3 DEF Usable
  <2>5. Begun' = Begun
    BY <1>g, <1>2, <1>7, <1>14, Drops DEF Holding, Saved
  <2> QED  BY <1>2, <1>4, <1>10, <1>11, <1>12, <2>2, <2>4, <2>5
              DEF Abstract!Next, Abstract!Connect
<1>15. CASE Saved(g)
  <2> DEFINE b == Copy(r)
  <2>1. b.grant = g /\ b.scopes = S
    BY <1>g DEF Copy, S
  <2>2. b \in Begun /\ Begun' \in {Begun, Begun \ {b}}
    BY <1>g, <1>2, <1>7, <1>15, Drops DEF Holding, Saved
  <2> HIDE DEF b
  <2>3. grants[g].member = m /\ grants[g].client = a
    BY <1>g, <1>1, <1>2, <1>15, GrantOfAsking, NoneAssumption DEF Owned, Asking, At, m, a
  <2>4. Owner' = Owner
    BY <1>2, <1>12, <2>3 DEF Owner
  <2>5. Abstract!Write(b)
    BY <1>10, <1>11, <2>1, <2>2, <2>4 DEF Abstract!Write
  <2>6. CASE InTable(g)
    <3>1. Usable' = Usable /\ g \in Standing
      BY <1>2, <1>13, <2>6 DEF Usable, Standing
    <3> QED  BY <2>1, <2>2, <2>5, <3>1 DEF Abstract!Next, Abstract!Extend
  <2>7. CASE ~InTable(g)
    <3>1. g \notin Standing /\ Rows(g) \in SUBSET Tokens
      BY <2>7 DEF Standing, Rows
    <3> QED  BY <1>13, <2>1, <2>2, <2>5, <3>1 DEF Abstract!Next, Abstract!Revive
  <2> QED  BY <2>6, <2>7
<1> QED  BY <1>14, <1>15

(* The tokens of one grant are deleted, by a replay or by a revocation.     *)
LEMMA SignOutStep ==
  ASSUME GrantInv, GrantInv', ScopeInv, NEW r \in Requests,
         ExchangeReplayed(r) \/ RevokeTokens(r)
  PROVE  [Abstract!Next]_(Abstract!vars)
<1>1. TypeOK /\ UNCHANGED grants /\ ~Asking(r) /\ RequestOK(req[r])
  BY DEF GrantInv, ExchangeReplayed, RevokeTokens, Asking, At
<1>2. PICK g \in GrantIds : DeleteRows(g)
  BY <1>1 DEF ExchangeReplayed, RevokeTokens, RequestOK, Saved, At
<1>3. \A h \in GrantIds : Rows(h)' = IF h = g THEN {} ELSE Rows(h)
  BY <1>1, <1>2, RowsDeleted DEF Rows
<1>4. Only(r) /\ ~Asking(r)'
  BY Leaves DEF GrantInv, Provider, Revoke
<1>5. Others(r)
  BY <1>1, <1>4, OthersHold DEF Saved
<1>6. Begun' = Begun
  BY <1>1, <1>4, <1>5, Drops DEF Holding
<1>7. UNCHANGED <<Owner, Standing, Allowed>>
  BY <1>1 DEF Owner, Standing, Allowed, InTable
<1>8. Usable' = [Usable EXCEPT ![g] = {}]
  BY <1>1, <1>3 DEF Usable, InTable
<1> QED  BY <1>6, <1>7, <1>8 DEF Abstract!Next, Abstract!SignOut

LEMMA IssueStep ==
  ASSUME GrantInv, GrantInv', ScopeInv, NEW r \in Requests, IssueToken(r)
  PROVE  [Abstract!Next]_(Abstract!vars)
<1>1. TypeOK /\ UNCHANGED grants /\ ~Asking(r) /\ RequestOK(req[r])
  BY DEF GrantInv, IssueToken, Asking, At
<1>2. PICK g \in GrantIds : g = req[r].grant
  BY <1>1 DEF IssueToken, RequestOK, Saved
<1>3. PICK t \in Tokens :
        /\ tokens[t].state = "new"
        /\ tokens' = [tokens EXCEPT ![t] =
             [state |-> "live", grant |-> g, consumed |-> FALSE, from |-> req[r].code,
              kind |-> IF req[r].op = "authorize" THEN "code" ELSE "access"]]
  BY <1>2 DEF IssueToken
<1>4. /\ tokens'[t].state = "live" /\ tokens'[t].grant = g
      /\ \A u \in Tokens \ {t} : tokens'[u] = tokens[u]
  BY <1>1, <1>3 DEF TypeOK
<1>5. \A h \in GrantIds : Rows(h)' = IF h = g THEN Rows(h) \cup {t} ELSE Rows(h)
  BY <1>3, <1>4 DEF Rows
<1>6. Only(r) /\ ~Asking(r)'
  BY <1>1, Leaves DEF GrantInv, Provider
<1>7. SameRows /\ \A h \in GrantIds : (Saved(h)' <=> Saved(h)) /\ (InTable(h)' <=> InTable(h))
  BY <1>1 DEF ScopeInv, SameRows, Untouched, Saved, InTable
<1>8. CASE ~InTable(g)
  <2>1. Rest
    BY <1>5, <1>7, <1>8, RestOf
  <2> QED  BY <1>6, <1>7, <2>1, Leaving
<1>9. CASE InTable(g)
  <2>1. UNCHANGED <<Owner, Standing, Allowed>>
    BY <1>1 DEF Owner, Standing, Allowed, InTable
  <2>2. Usable' = [Usable EXCEPT ![g] = Usable[g] \cup {t}]
    BY <1>5, <1>7, <1>9 DEF Usable
  <2>3. \A h \in GrantIds : t \notin Usable[h]
    BY <1>3 DEF Usable, Rows
  <2>4. Others(r)
    BY <1>6, <1>7, OthersHold
  <2>5. Begun' = Begun
    BY <1>1, <1>6, <2>4, Drops DEF Holding
  <2>6. g \in Standing
    BY <1>9 DEF Standing
  <2> QED  BY <2>1, <2>2, <2>3, <2>5, <2>6 DEF Abstract!Next, Abstract!Issue
<1> QED  BY <1>8, <1>9

LEMMA EndStep ==
  ASSUME GrantInv, GrantInv', ScopeInv, NEW r \in Requests, RevokeGrant(r)
  PROVE  [Abstract!Next]_(Abstract!vars)
<1>1. /\ TypeOK /\ UNCHANGED tokens /\ ~Asking(r) /\ RequestOK(req[r])
      /\ \A g \in GrantIds : Untouched(g)
  BY DEF GrantInv, ScopeInv, RevokeGrant, Asking, At
<1>2. PICK g \in GrantIds : g = req[r].grant /\ DeleteGrant(g)
  BY <1>1 DEF RevokeGrant, RequestOK, Saved, At
<1>3. SameRows /\ \A h \in GrantIds : InTable(h)' <=> InTable(h) /\ h # g
  BY <1>1, <1>2, Deletes
<1>4. Only(r) /\ ~Asking(r)'
  BY <1>1, Leaves DEF GrantInv, Revoke
<1>5. \A h \in GrantIds : Saved(h)' <=> Saved(h)
  BY <1>3 DEF SameRows
<1>6. \A h \in GrantIds : Rows(h)' = Rows(h)
  BY <1>1 DEF Rows
<1>7. CASE ~InTable(g)
  <2>1. Rest
    BY <1>3, <1>6, <1>7, RestOf
  <2> QED  BY <1>4, <1>5, <2>1, Leaving
<1>8. CASE InTable(g)
  <2>1. Owner' = Owner
    BY <1>3 DEF SameRows, Owner
  <2>2. Standing' = Standing \ {g}
    BY <1>3 DEF Standing
  <2>3. Allowed' = [Allowed EXCEPT ![g] = {}]
    BY <1>3 DEF SameRows, Allowed
  <2>4. Usable' = [Usable EXCEPT ![g] = {}]
    BY <1>3, <1>6 DEF Usable
  <2>5. Others(r)
    BY <1>4, <1>5, OthersHold
  <2>6. Begun' = Begun
    BY <1>1, <1>4, <2>5, Drops DEF Holding
  <2> QED  BY <2>1, <2>2, <2>3, <2>4, <2>6 DEF Abstract!Next, Abstract!End
<1> QED  BY <1>7, <1>8

(* The steps Connections does not see, but for a copy that may be dropped.  *)
LEMMA UnseenStep ==
  ASSUME GrantInv, GrantInv', ScopeInv, NEW r \in Requests,
         \/ ConsentResult(r) \/ AuthorizeFind(r) \/ ExchangeFind(r) \/ ExchangeGrant(r)
         \/ ExchangeConsume(r) \/ RevokeFind(r) \/ ClientStep(r) \/ Fail(r)
  PROVE  [Abstract!Next]_(Abstract!vars)
<1>1. TypeOK /\ UNCHANGED grants /\ (UNCHANGED tokens \/ ExchangeConsume(r))
  BY DEF GrantInv, ConsentResult, AuthorizeFind, ExchangeFind, ExchangeGrant,
         ExchangeConsume, RevokeFind, ClientStep, SendRevoke, SendConsent, SendAuthorize,
         SendExchange, Send, Done, Fail
<1>2. Only(r) /\ ~Asking(r)'
  BY Leaves DEF GrantInv, Provider, Revoke
<1>3. SameRows /\ \A h \in GrantIds : (Saved(h)' <=> Saved(h)) /\ (InTable(h)' <=> InTable(h))
  BY <1>1 DEF ScopeInv, SameRows, Untouched, Saved, InTable
<1>4. \A t \in Tokens : tokens'[t].state = tokens[t].state /\ tokens'[t].grant = tokens[t].grant
  BY <1>1 DEF ExchangeConsume, TypeOK, TokenRow
<1>5. \A h \in GrantIds : Rows(h)' = Rows(h)
  BY <1>4 DEF Rows
<1>6. Rest
  BY <1>3, <1>5, RestOf
<1> QED  BY <1>2, <1>3, <1>6, Leaving

LEMMA ConnectionStep ==
  ASSUME GrantInv, GrantInv', ScopeInv, [Next]_vars
  PROVE  [Abstract!Next]_(Abstract!vars)
<1>1. TypeOK /\ \A g \in GrantIds : Untouched(g)
  BY DEF GrantInv, ScopeInv
<1>2. CASE UNCHANGED vars
  BY <1>2 DEF vars, Abstract!vars, Owner, Standing, Allowed, Usable, Begun, InTable, Rows, At
<1>3. ASSUME NEW g \in GrantIds, Expire(g)
      PROVE  UNCHANGED Abstract!vars
  <2>1. /\ SameRows /\ UNCHANGED <<tokens, req>>
        /\ \A h \in GrantIds : InTable(h)' <=> InTable(h)
    BY <1>1, <1>3, Expires DEF Expire
  <2>2. \A h \in GrantIds : Rows(h)' = Rows(h)
    BY <2>1 DEF Rows
  <2>3. Rest
    BY <2>1, <2>2, RestOf
  <2>4. ASSUME NEW s \in Requests
        PROVE  (Holding(s)' <=> Holding(s)) /\ Copy(s)' = Copy(s)
    <3>1. Asking(s) => req[s].grant \in GrantIds
      BY GrantOfAsking
    <3> QED  BY <2>1, <3>1 DEF Holding, Copy, SameRows, Saved, Asking, At
  <2>5. \A v : v \in Begun' <=> \E s \in Requests : Holding(s)' /\ v = Copy(s)'
    BY DEF Begun, Holding, Copy, Asking
  <2>6. \A v : v \in Begun' <=> v \in Begun
    BY <2>4, <2>5, BegunIs
  <2>7. Begun' = Begun
    BY <2>6 DEF Begun
  <2> QED  BY <2>3, <2>7 DEF Rest, Abstract!vars
<1>4. ASSUME NEW r \in Requests, ConsentNew(r)
      PROVE  UNCHANGED Abstract!vars
  <2>1. /\ Only(r) /\ UNCHANGED <<grants, tokens>> /\ At(r, "consent", "sent")
        /\ ~Saved(req'[r].grant) /\ req'[r].grant \in GrantIds
    BY <1>1, <1>4, ReadsNew
  <2>2. Rest /\ \A g \in GrantIds : Saved(g)' <=> Saved(g)
    BY <2>1 DEF Rest, Owner, Standing, Allowed, Usable, InTable, Rows, Saved
  <2>3. ~Holding(r) /\ ~Holding(r)'
    BY <2>1 DEF Holding, Asking, At, Saved
  <2>4. Others(r)
    BY <2>1, <2>2, OthersHold
  <2>5. Begun' = Begun
    BY <2>3, <2>4, Drops
  <2> QED  BY <2>2, <2>5 DEF Rest, Abstract!vars
<1>5. ASSUME NEW r \in Requests,
             Consent(r) \/ Provider(r) \/ Revoke(r) \/ ClientStep(r) \/ Fail(r)
      PROVE  [Abstract!Next]_(Abstract!vars)
  <2>1. CASE Consent(r)
    BY <1>4, <2>1, BeginStep, WriteStep, UnseenStep DEF Consent
  <2>2. CASE Provider(r)
    BY <2>2, SignOutStep, IssueStep, UnseenStep DEF Provider
  <2>3. CASE Revoke(r)
    BY <2>3, SignOutStep, EndStep, UnseenStep DEF Revoke
  <2>4. CASE ClientStep(r) \/ Fail(r)
    BY <2>4, UnseenStep
  <2> QED  BY <1>5, <2>1, <2>2, <2>3, <2>4
<1> QED  BY <1>2, <1>3, <1>5 DEF Next

(* The consents, the provider's adapter calls and connections.revoke        *)
(* implement the connections a member has with apps.                        *)
THEOREM ImplementsConnections == Spec => ConnectionsSpec
<1>1. Init => Abstract!Init
  <2> SUFFICES ASSUME Init  PROVE Abstract!Init
    OBVIOUS
  <2>1. \A r \in Requests : ~Asking(r)
    BY DEF Init, Blank, Asking, At
  <2>2. Begun = {}
    BY <2>1 DEF Begun, Asking
  <2>3. \A g \in GrantIds : ~InTable(g)
    BY DEF Init, NoGrant, InTable
  <2>4. Standing = {} /\ Allowed = [g \in GrantIds |-> {}] /\ Usable = [g \in GrantIds |-> {}]
    BY <2>3 DEF Standing, Allowed, Usable
  <2>5. Owner = [g \in GrantIds |-> Abstract!Nobody]
    BY DEF Init, NoGrant, Owner, Abstract!Nobody
  <2> QED  BY <2>2, <2>4, <2>5 DEF Abstract!Init
<1>2. GrantInv /\ GrantInv' /\ ScopeInv /\ [Next]_vars => [Abstract!Next]_(Abstract!vars)
  BY ConnectionStep
<1> QED  BY <1>1, <1>2, Invariance, ScopeInvariance, PTL
            DEF Spec, ConnectionsSpec, Abstract!Spec
=============================================================================
