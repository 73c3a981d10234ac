---------------------------- MODULE GrantsProofs ----------------------------
(***************************************************************************)
(* Theorems about Grants, for any members, apps, grants, tokens and        *)
(* requests.  The invariant says whose each grant is for the requests that *)
(* have its id, and that a grant not saved yet is in one pair of hands     *)
(* (Owned), and what the pc of a request means for the tokens (Revoking,   *)
(* Exchanging).                                                            *)
(***************************************************************************)
EXTENDS Grants, TLAPS

Saved(g) == g \in GrantIds /\ grants[g].state # "new"

RequestOK(q) ==
  /\ q.op = "none" => q = Blank
  /\ q.op = "consent" /\ q.pc \in {"ready", "saved"} => q.grant # None
  /\ q.op = "consent" => q.member # None /\ q.client # None
  /\ q.op \in {"authorize", "exchange"} => Saved(q.grant)
  /\ q.op = "exchange" => q.code \in Tokens
  /\ q.op # "exchange" => q.code = None
  /\ q.op = "revoke" /\ q.pc = "swept" => q.grant \in q.todo
  /\ q.op = "revoke" => q.todo \subseteq q.mine /\ \A g \in q.mine : Saved(g)
  /\ q.pc # "answered" => q.status = 0

(* A consent holds a grant that nobody else has, or one of its member and   *)
(* its client.                                                              *)
Owned(r) ==
  req[r].op = "consent" /\ req[r].grant # None =>
    \/ /\ ~Saved(req[r].grant)
       /\ \A s \in Requests : req[s].grant = req[r].grant => s = r
    \/ /\ grants[req[r].grant].member = req[r].member
       /\ grants[req[r].grant].client = req[r].client

(* What a revoke found is its member's and its client's; what it has done   *)
(* is gone, or was saved again; the grant it is about to delete has no      *)
(* tokens but late ones.                                                    *)
Revoking(r) ==
  req[r].op = "revoke" =>
    /\ \A g \in req[r].mine :
         grants[g].member = req[r].member /\ grants[g].client = req[r].client
    /\ req[r].pc # "answered" \/ req[r].status = 204 =>
         \A g \in req[r].mine : InTable(g) => g \in revived \/ (req[r].pc # "answered" /\ g \in req[r].todo)
    /\ req[r].pc = "swept" => \A t \in Rows(req[r].grant) : t \in late

(* A code that has yielded a token, or is about to, is consumed; one sent   *)
(* again after that never passes ExchangeFind.                              *)
Exchanging(r) ==
  req[r].op = "exchange" =>
    /\ tokens[req[r].code].state # "new"
    /\ tokens[req[r].code].grant = req[r].grant
    /\ req[r].pc = "ready" => tokens[req[r].code].consumed
    /\ req[r].replay =>
         /\ tokens[req[r].code].consumed
         /\ req[r].pc \notin {"found", "granted", "ready"} /\ req[r].status # 200

TokenOK(t) ==
  /\ tokens[t].state # "new" => Saved(tokens[t].grant)
  /\ tokens[t].state = "live" => InTable(tokens[t].grant) \/ t \in late
  /\ tokens[t].state = "new" => tokens[t] = NoToken
  /\ tokens[t].from # None => tokens[tokens[t].from].consumed

GrantInv ==
  /\ TypeOK
  /\ \A r \in Requests : RequestOK(req[r]) /\ Owned(r) /\ Revoking(r) /\ Exchanging(r)
  /\ \A t \in Tokens : TokenOK(t)

-----------------------------------------------------------------------------
(* A step changes one slot, and keeps what the other requests rely on.      *)
SlotOK(r) ==
  /\ req[r] \in Request
  /\ RequestOK(req[r]) /\ Owned(r) /\ Revoking(r) /\ Exchanging(r)

Only(r) ==
  /\ req' \in [Requests -> Request]
  /\ \A s \in Requests : s # r => req'[s] = req[s]

GrantsKept ==
  \A g \in GrantIds : Saved(g) =>
    /\ Saved(g)'
    /\ grants'[g].member = grants[g].member /\ grants'[g].client = grants[g].client
    /\ InTable(g)' => g \in revived' \/ (InTable(g) /\ g \notin revived)

TokensKept ==
  /\ late \subseteq late'
  /\ \A t \in Tokens : tokens[t].state # "new" =>
       /\ tokens'[t].state # "new" /\ (tokens'[t].state = "live" => tokens[t].state = "live")
       /\ tokens'[t].grant = tokens[t].grant /\ tokens'[t].from = tokens[t].from
       /\ tokens[t].consumed => tokens'[t].consumed
  /\ \A t \in Tokens :
       tokens[t].state = "new" /\ tokens'[t].state = "live" /\ BeingRevoked(tokens'[t].grant)
         => t \in late'

TablesTyped ==
  /\ grants \in [GrantIds -> Grant] /\ tokens \in [Tokens -> TokenRow]
  /\ revived \subseteq GrantIds /\ late \subseteq Tokens

LEMMA OthersKeep ==
  ASSUME GrantInv, GrantsKept, TokensKept,
         NEW r \in Requests, Only(r), NEW s \in Requests, s # r
  PROVE  RequestOK(req[s])' /\ Revoking(s)' /\ Exchanging(s)'
<1>1. /\ RequestOK(req[s]) /\ Revoking(s) /\ Exchanging(s) /\ TypeOK
      /\ req'[s] = req[s] /\ req[s] \in Request
  BY DEF GrantInv, Only, TypeOK
<1>2. RequestOK(req[s])'
  BY <1>1 DEF RequestOK, GrantsKept, Saved, InTable
<1>3. Exchanging(s)'
  BY <1>1 DEF Exchanging, RequestOK, TokensKept
<1>4. Revoking(s)'
  <2> SUFFICES ASSUME req[s].op = "revoke"  PROVE Revoking(s)'
    BY <1>1 DEF Revoking
  <2>1. /\ \A g \in req[s].mine : Saved(g)
        /\ \A g \in req[s].mine :
             grants[g].member = req[s].member /\ grants[g].client = req[s].client
    BY <1>1 DEF RequestOK, Revoking
  <2>2. \A g \in req[s].mine :
          grants'[g].member = req[s].member /\ grants'[g].client = req[s].client
    BY <2>1 DEF GrantsKept, Saved
  <2>3. req[s].pc # "answered" \/ req[s].status = 204 =>
          \A g \in req[s].mine : InTable(g)' =>
            g \in revived' \/ (req[s].pc # "answered" /\ g \in req[s].todo)
    BY <1>1, <2>1 DEF GrantsKept, Saved, Revoking
  <2>4. ASSUME req[s].pc = "swept", NEW t \in Tokens, tokens'[t].state = "live",
               tokens'[t].grant = req[s].grant
        PROVE  t \in late'
    <3>1. BeingRevoked(req[s].grant)
      BY <2>4 DEF BeingRevoked, At
    <3>2. CASE tokens[t].state = "new"
      BY <2>4, <3>1, <3>2 DEF TokensKept
    <3>3. CASE tokens[t].state # "new"
      BY <1>1, <2>4, <3>3 DEF TokensKept, Revoking, Rows
    <3> QED  BY <3>2, <3>3
  <2> QED  BY <1>1, <2>2, <2>3, <2>4 DEF Revoking, Rows
<1> QED  BY <1>2, <1>3, <1>4

LEMMA SlotInv ==
  ASSUME GrantInv, NEW r \in Requests, Only(r), GrantsKept, TokensKept, TablesTyped',
         SlotOK(r)', \A s \in Requests \ {r} : Owned(s)', \A t \in Tokens : TokenOK(t)'
  PROVE  GrantInv'
<1>1. TypeOK'
  BY DEF TypeOK, TablesTyped, Only
<1>2. \A s \in Requests : RequestOK(req[s])' /\ Owned(s)' /\ Revoking(s)' /\ Exchanging(s)'
  <2> SUFFICES ASSUME NEW s \in Requests
               PROVE  RequestOK(req[s])' /\ Owned(s)' /\ Revoking(s)' /\ Exchanging(s)'
    OBVIOUS
  <2>1. CASE s = r
    BY <2>1 DEF SlotOK
  <2>2. CASE s # r
    BY <2>2, OthersKeep
  <2> QED  BY <2>1, <2>2
<1> QED  BY <1>1, <1>2 DEF GrantInv

(* Steps that leave the tables alone. *)
LEMMA QuietInv ==
  ASSUME GrantInv, NEW r \in Requests, Only(r), UNCHANGED <<grants, tokens, revived, late>>,
         SlotOK(r)',
         \/ req'[r].grant \in {req[r].grant, None}
         \/ Saved(req'[r].grant)
         \/ \A s \in Requests : req[s].grant # req'[r].grant
  PROVE  GrantInv'
<1>1. TypeOK /\ \A t \in Tokens : TokenOK(t)
  BY DEF GrantInv
<1>2. GrantsKept /\ TokensKept /\ TablesTyped'
  BY <1>1 DEF GrantsKept, TokensKept, TablesTyped, TypeOK, Saved, InTable
<1>3. \A t \in Tokens : TokenOK(t)'
  BY <1>1 DEF TokenOK, Saved, InTable
<1>4. ASSUME NEW s \in Requests \ {r}  PROVE Owned(s)'
  <2>1. Owned(s) /\ req'[s] = req[s]
    BY DEF GrantInv, Only
  <2> QED  BY <2>1 DEF Owned, Saved, Only
<1> QED  BY <1>2, <1>3, <1>4, SlotInv

-----------------------------------------------------------------------------
(* How a step changes its slot. *)
Same(r) ==
  /\ req'[r].op = req[r].op /\ req'[r].member = req[r].member
  /\ req'[r].client = req[r].client /\ req'[r].code = req[r].code
  /\ req'[r].mine = req[r].mine /\ req'[r].replay = req[r].replay

LEMMA GotoStep ==
  ASSUME TypeOK, NEW r \in Requests, NEW pc \in PCs, Goto(r, pc)
  PROVE  /\ Only(r) /\ Same(r) /\ req'[r].pc = pc /\ req'[r].status = req[r].status
         /\ req'[r].grant = req[r].grant /\ req'[r].todo = req[r].todo
<1> DEFINE q == [req[r] EXCEPT !.pc = pc]
<1>1. req \in [Requests -> Request] /\ req' = [req EXCEPT ![r] = q]
  BY DEF TypeOK, Goto
<1>2. req[r] \in Request
  BY <1>1
<1>3. /\ q.op = req[r].op /\ q.member = req[r].member /\ q.client = req[r].client
      /\ q.code = req[r].code /\ q.mine = req[r].mine /\ q.replay = req[r].replay
      /\ q.pc = pc /\ q.status = req[r].status /\ q.grant = req[r].grant
      /\ q.todo = req[r].todo
  BY <1>2 DEF Request
<1>4. q \in Request
  BY <1>2 DEF Request
<1> HIDE DEF q
<1> QED  BY <1>1, <1>3, <1>4 DEF Only, Same

LEMMA AnswerStep ==
  ASSUME TypeOK, NEW r \in Requests, NEW status \in Codes, Answer(r, status)
  PROVE  /\ Only(r) /\ Same(r) /\ req'[r].pc = "answered" /\ req'[r].status = status
         /\ req'[r].grant = req[r].grant /\ req'[r].todo = req[r].todo
<1> DEFINE q == [req[r] EXCEPT !.pc = "answered", !.status = status]
<1>1. req \in [Requests -> Request] /\ req' = [req EXCEPT ![r] = q]
  BY DEF TypeOK, Answer
<1>2. req[r] \in Request /\ "answered" \in PCs
  BY <1>1 DEF PCs
<1>3. /\ q.op = req[r].op /\ q.member = req[r].member /\ q.client = req[r].client
      /\ q.code = req[r].code /\ q.mine = req[r].mine /\ q.replay = req[r].replay
      /\ q.pc = "answered" /\ q.status = status /\ q.grant = req[r].grant
      /\ q.todo = req[r].todo
  BY <1>2 DEF Request
<1>4. q \in Request
  BY <1>2 DEF Request
<1> HIDE DEF q
<1> QED  BY <1>1, <1>3, <1>4 DEF Only, Same

(* What the slot of a request that only moves on must satisfy. *)
LEMMA MovedOK ==
  ASSUME GrantInv, NEW r \in Requests, Only(r), Same(r),
         req[r].op # "none", req[r].op # "revoke" \/ req'[r].pc = "answered",
         req'[r].grant = req[r].grant, req'[r].todo = req[r].todo,
         GrantsKept, TokensKept, Owned(r)',
         req'[r].pc # "answered" => req'[r].status = 0,
         req[r].op = "consent" /\ req'[r].pc \in {"ready", "saved"} => req[r].grant # None,
         req[r].op = "exchange" =>
           /\ req'[r].pc = "ready" => tokens'[req[r].code].consumed
           /\ req[r].replay =>
                req'[r].pc \notin {"found", "granted", "ready"} /\ req'[r].status # 200,
         req'[r].status # 204
  PROVE  SlotOK(r)'
<1>1. /\ RequestOK(req[r]) /\ Revoking(r) /\ Exchanging(r) /\ req[r] \in Request
      /\ req'[r] \in Request
  BY DEF GrantInv, TypeOK, Only
<1>2. RequestOK(req[r])'
  BY <1>1 DEF RequestOK, Same, GrantsKept, Saved
<1>3. Exchanging(r)'
  BY <1>1 DEF Exchanging, RequestOK, Same, TokensKept
<1>4. Revoking(r)'
  BY <1>1 DEF Revoking, RequestOK, Same, GrantsKept, Saved
<1> QED  BY <1>1, <1>2, <1>3, <1>4 DEF SlotOK

(* A quiet step of a request that goes on with the same grant. *)
LEMMA MoveInv ==
  ASSUME GrantInv, NEW r \in Requests, UNCHANGED <<grants, tokens, revived, late>>,
         req[r].op # "none",
         \/ \E pc \in PCs \ {"answered"} :
              /\ Goto(r, pc) /\ req[r].op # "revoke" /\ req[r].pc # "answered"
              /\ req[r].op = "consent" /\ pc \in {"ready", "saved"} => req[r].grant # None
              /\ req[r].op = "exchange" =>
                   /\ pc = "ready" => tokens[req[r].code].consumed
                   /\ req[r].replay => pc \notin {"found", "granted", "ready"}
         \/ \E status \in {200, 400, 404, 500} :
              /\ Answer(r, status)
              /\ req[r].op = "exchange" => status # 200
  PROVE  GrantInv'
<1>1. TypeOK /\ RequestOK(req[r]) /\ Owned(r) /\ Exchanging(r)
  BY DEF GrantInv
<1>2. /\ Only(r) /\ Same(r) /\ req'[r].grant = req[r].grant /\ req'[r].todo = req[r].todo
      /\ \/ /\ req'[r].pc \in PCs \ {"answered"} /\ req'[r].status = req[r].status
            /\ req[r].op # "revoke" /\ req[r].pc # "answered"
            /\ req[r].op = "consent" /\ req'[r].pc \in {"ready", "saved"} => req[r].grant # None
            /\ req[r].op = "exchange" =>
                 /\ req'[r].pc = "ready" => tokens[req[r].code].consumed
                 /\ req[r].replay => req'[r].pc \notin {"found", "granted", "ready"}
         \/ /\ req'[r].pc = "answered" /\ req'[r].status \in {200, 400, 404, 500}
            /\ req[r].op = "exchange" => req'[r].status # 200
  BY <1>1, GotoStep, AnswerStep DEF Codes, PCs
<1>3. GrantsKept /\ TokensKept
  BY <1>1 DEF GrantsKept, TokensKept, TypeOK, Saved, InTable
<1>4. Owned(r)'
  BY <1>1, <1>2 DEF Owned, Same, Saved, Only
<1>5. req'[r].pc # "answered" => req'[r].status = 0
  BY <1>1, <1>2 DEF RequestOK
<1>6. SlotOK(r)'
  BY <1>1, <1>2, <1>3, <1>4, <1>5, MovedOK DEF RequestOK
<1> QED  BY <1>2, <1>6, QuietInv

-----------------------------------------------------------------------------
(* Consent *)
LEMMA ConsentInv ==
  ASSUME GrantInv, NEW r \in Requests, Consent(r)
  PROVE  GrantInv'
<1>1. TypeOK /\ RequestOK(req[r]) /\ Owned(r) /\ req[r] \in Request
  BY DEF GrantInv, TypeOK
<1>2. CASE ConsentNew(r)
  <2>1. PICK g \in GrantIds :
          /\ Unused(g)
          /\ req' = [req EXCEPT ![r] =
               [req[r] EXCEPT !.pc = "ready", !.grant = g, !.base = {},
                              !.scopes = req[r].asked]]
    BY <1>2 DEF ConsentNew
  <2> DEFINE q == [req[r] EXCEPT !.pc = "ready", !.grant = g, !.base = {},
                                 !.scopes = req[r].asked]
  <2>2. /\ q \in Request /\ q.op = req[r].op /\ q.member = req[r].member
        /\ q.client = req[r].client /\ q.grant = g /\ q.pc = "ready"
        /\ q.status = req[r].status /\ q.code = req[r].code
    BY <1>1 DEF Request, PCs
  <2>3. Only(r) /\ req'[r] = q
    BY <1>1, <2>1, <2>2 DEF TypeOK, Only
  <2> HIDE DEF q
  <2>4. req[r].op = "consent" /\ req[r].pc = "sent" /\ UNCHANGED <<grants, tokens, revived, late>>
    BY <1>2 DEF ConsentNew, At
  <2>5. RequestOK(req'[r]) /\ g # None
    BY <1>1, <2>2, <2>3, <2>4, NoneAssumption DEF RequestOK
  <2>6. Owned(r)'
    BY <2>1, <2>2, <2>3, <2>4 DEF Owned, Unused, Saved, Only
  <2>7. SlotOK(r)'
    BY <2>2, <2>3, <2>4, <2>5, <2>6 DEF SlotOK, Revoking, Exchanging, RequestOK, Saved
  <2> QED  BY <2>1, <2>2, <2>3, <2>4, <2>7, QuietInv DEF Unused
<1>3. CASE ConsentFind(r)
  <2>1. CASE Answer(r, 500)
    BY <1>1, <1>3, <2>1, MoveInv DEF ConsentFind, At
  <2>2. ASSUME NEW B \in SUBSET Scopes, NEW S \in SUBSET Scopes,
               req' = [req EXCEPT ![r] =
                 [req[r] EXCEPT !.pc = "ready", !.base = B, !.scopes = S]]
        PROVE  GrantInv'
    <3> DEFINE q == [req[r] EXCEPT !.pc = "ready", !.base = B, !.scopes = S]
    <3>1. /\ q \in Request /\ q.op = req[r].op /\ q.member = req[r].member
          /\ q.client = req[r].client /\ q.grant = req[r].grant /\ q.pc = "ready"
          /\ q.status = req[r].status /\ q.code = req[r].code
      BY <1>1, <2>2 DEF Request, PCs
    <3>2. Only(r) /\ req'[r] = q
      BY <1>1, <2>2, <3>1 DEF TypeOK, Only
    <3> HIDE DEF q
    <3>3. /\ req[r].op = "consent" /\ req[r].pc = "sent" /\ req[r].grant # None
          /\ UNCHANGED <<grants, tokens, revived, late>>
      BY <1>3 DEF ConsentFind, At
    <3>4. RequestOK(req'[r])
      BY <1>1, <3>1, <3>2, <3>3 DEF RequestOK
    <3>5. Owned(r)'
      BY <1>1, <3>1, <3>2, <3>3 DEF Owned, Saved, Only
    <3>6. SlotOK(r)'
      BY <3>1, <3>2, <3>3, <3>4, <3>5 DEF SlotOK, Revoking, Exchanging, RequestOK, Saved
    <3> QED  BY <3>1, <3>2, <3>3, <3>6, QuietInv
  <2>3. req[r].grant \in GrantIds \/ req[r].grant = None
    BY <1>1 DEF Request
  <2>4. req[r].grant # None =>
          /\ grants[req[r].grant].scopes \in SUBSET Scopes
          /\ grants[req[r].grant].scopes \cup req[r].asked \in SUBSET Scopes
    BY <1>1, <2>3 DEF TypeOK, Grant, Request
  <2> QED  BY <1>3, <2>1, <2>2, <2>4 DEF ConsentFind
<1>4. CASE ConsentSave(r)
  <2> DEFINE g == req[r].grant
             new == [state |-> "live", member |-> req[r].member, client |-> req[r].client,
                     scopes |-> req[r].scopes, agreed |-> grants[g].agreed \cup req[r].asked]
  <2>1. /\ req[r].op = "consent" /\ req[r].pc = "ready" /\ Goto(r, "saved")
        /\ grants' = [grants EXCEPT ![g] = new]
        /\ revived' = IF grants[g].state = "gone" THEN revived \cup {g} ELSE revived
        /\ UNCHANGED <<tokens, late>>
    BY <1>4 DEF ConsentSave, At
  <2>2. g \in GrantIds /\ g # None
    BY <1>1, <2>1 DEF RequestOK, Request
  <2>3. new \in Grant /\ new.state = "live" /\ new.member = req[r].member
        /\ new.client = req[r].client
    BY <1>1, <2>2 DEF TypeOK, Grant, Request
  <2> HIDE DEF new
  <2>4. /\ grants' \in [GrantIds -> Grant] /\ grants'[g] = new
        /\ \A h \in GrantIds \ {g} : grants'[h] = grants[h]
    BY <1>1, <2>1, <2>2, <2>3 DEF TypeOK
  <2>5. Saved(g) => grants[g].member = req[r].member /\ grants[g].client = req[r].client
    BY <1>1, <2>1, <2>2 DEF Owned
  <2>6. \A h \in GrantIds : grants[h].state \in {"new", "live", "expired", "gone"}
    BY <1>1 DEF TypeOK, Grant
  <2>7. GrantsKept
    BY <2>1, <2>3, <2>4, <2>5, <2>6 DEF GrantsKept, Saved, InTable
  <2>8. TokensKept /\ TablesTyped'
    BY <1>1, <2>1, <2>2, <2>4 DEF TokensKept, TablesTyped, TypeOK
  <2>9. /\ Only(r) /\ Same(r) /\ req'[r].pc = "saved" /\ req'[r].status = req[r].status
        /\ req'[r].grant = req[r].grant /\ req'[r].todo = req[r].todo
    BY <1>1, <2>1, GotoStep DEF PCs
  <2>10. Owned(r)'
    BY <2>3, <2>4, <2>9 DEF Owned, Same
  <2>11. SlotOK(r)'
    BY <1>1, <2>1, <2>2, <2>7, <2>8, <2>9, <2>10, MovedOK DEF RequestOK
  <2>12. ASSUME NEW s \in Requests \ {r}  PROVE Owned(s)'
    <3>1. Owned(s) /\ req'[s] = req[s] /\ req[s].grant \in GrantIds \cup {None}
      BY <1>1, <2>9 DEF GrantInv, Only, TypeOK, Request
    <3>2. CASE req[s].grant # g
      BY <2>4, <2>9, <3>1, <3>2 DEF Owned, Saved, Only
    <3>3. CASE req[s].grant = g
      <4>1. req[s].op = "consent" =>
              grants[g].member = req[s].member /\ grants[g].client = req[s].client
        BY <2>2, <3>1, <3>3 DEF Owned
      <4>2. grants[g].member = req[r].member /\ grants[g].client = req[r].client
        BY <1>1, <2>1, <2>2, <3>3 DEF Owned
      <4> QED  BY <2>3, <2>4, <3>1, <3>3, <4>1, <4>2 DEF Owned
    <3> QED  BY <3>2, <3>3
  <2>13. \A t \in Tokens : TokenOK(t)'
    BY <2>1, <2>3, <2>4 DEF GrantInv, TokenOK, Saved, InTable
  <2> QED  BY <2>7, <2>8, <2>9, <2>11, <2>12, <2>13, SlotInv
<1>5. CASE ConsentResult(r)
  BY <1>1, <1>5, MoveInv DEF ConsentResult, At
<1> QED  BY <1>2, <1>3, <1>4, <1>5 DEF Consent

-----------------------------------------------------------------------------
(* deleteMany where grantId = g, with the rest of the tables as it was or a *)
(* grant deleted.                                                           *)
LEMMA RowsDeleted ==
  ASSUME TypeOK, NEW g, DeleteRows(g)
  PROVE  /\ tokens' \in [Tokens -> TokenRow]
         /\ \A t \in Tokens :
              /\ tokens'[t].grant = tokens[t].grant /\ tokens'[t].from = tokens[t].from
              /\ (tokens[t].consumed => tokens'[t].consumed)
              /\ tokens'[t].state = IF t \in Rows(g) THEN "gone" ELSE tokens[t].state
              /\ tokens[t].state = "new" => tokens'[t] = tokens[t]
<1>1. tokens' = [t \in Tokens |->
        IF t \in Rows(g) THEN [tokens[t] EXCEPT !.state = "gone", !.consumed = TRUE]
                         ELSE tokens[t]]
  BY DEF DeleteRows
<1>2. ASSUME NEW t \in Tokens
      PROVE  LET row == [tokens[t] EXCEPT !.state = "gone", !.consumed = TRUE] IN
             /\ row \in TokenRow /\ row.grant = tokens[t].grant
             /\ row.from = tokens[t].from /\ row.consumed /\ row.state = "gone"
  <2>1. tokens[t] \in TokenRow
    BY DEF TypeOK
  <2> QED  BY <2>1 DEF TokenRow
<1>3. \A t \in Tokens : t \in Rows(g) => tokens[t].state = "live"
  BY DEF Rows
<1>4. \A t \in Tokens : tokens[t] \in TokenRow
  BY DEF TypeOK
<1> QED  BY <1>1, <1>2, <1>3, <1>4

LEMMA DeleteRowsKeeps ==
  ASSUME GrantInv, NEW g, DeleteRows(g), UNCHANGED <<grants, revived, late>>
  PROVE  /\ GrantsKept /\ TokensKept /\ TablesTyped'
         /\ \A t \in Tokens : TokenOK(t)'
         /\ \A t \in Tokens : ~(tokens'[t].state = "live" /\ tokens'[t].grant = g)
<1>1. TypeOK /\ \A t \in Tokens : TokenOK(t)
  BY DEF GrantInv
<1>2. /\ tokens' \in [Tokens -> TokenRow]
      /\ \A t \in Tokens :
           /\ tokens'[t].grant = tokens[t].grant /\ tokens'[t].from = tokens[t].from
           /\ (tokens[t].consumed => tokens'[t].consumed)
           /\ tokens'[t].state = IF t \in Rows(g) THEN "gone" ELSE tokens[t].state
           /\ tokens[t].state = "new" => tokens'[t] = tokens[t]
  BY <1>1, RowsDeleted
<1>3. GrantsKept
  BY DEF GrantsKept, Saved, InTable
<1>4. TokensKept /\ TablesTyped'
  BY <1>1, <1>2 DEF TokensKept, TablesTyped, TypeOK, Rows
<1>5. \A t \in Tokens : tokens[t].from \in Tokens \cup {None}
  BY <1>1 DEF TypeOK, TokenRow
<1>6. ASSUME NEW t \in Tokens  PROVE TokenOK(t)'
  BY <1>1, <1>2, <1>5, <1>6 DEF TokenOK, Saved, InTable, Rows
<1>7. \A t \in Tokens : ~(tokens'[t].state = "live" /\ tokens'[t].grant = g)
  BY <1>2 DEF Rows
<1> QED  BY <1>3, <1>4, <1>6, <1>7

(* The grants are as they were: who owns what is, too. *)
LEMMA OwnedKeeps ==
  ASSUME GrantInv, NEW r \in Requests, Only(r), Same(r), req'[r].grant = req[r].grant,
         UNCHANGED grants
  PROVE  \A s \in Requests : Owned(s)'
BY DEF GrantInv, Owned, Saved, Only, Same

-----------------------------------------------------------------------------
(* The provider *)
LEMMA ExchangeInv ==
  ASSUME GrantInv, NEW r \in Requests,
         AuthorizeFind(r) \/ ExchangeFind(r) \/ ExchangeReplayed(r) \/ ExchangeGrant(r)
           \/ ExchangeConsume(r)
  PROVE  GrantInv'
<1>1. TypeOK /\ RequestOK(req[r]) /\ Exchanging(r) /\ req[r] \in Request
  BY DEF GrantInv, TypeOK
<1>2. CASE AuthorizeFind(r)
  <2>1. CASE Goto(r, "ready")
    BY <1>1, <1>2, <2>1, MoveInv DEF AuthorizeFind, At, PCs
  <2>2. CASE Answer(r, 400)
    BY <1>1, <1>2, <2>2, MoveInv DEF AuthorizeFind, At
  <2> QED  BY <1>2, <2>1, <2>2 DEF AuthorizeFind
<1>3. CASE ExchangeFind(r)
  <2>1. CASE Answer(r, 400)
    BY <1>1, <1>3, <2>1, MoveInv DEF ExchangeFind, At
  <2>2. CASE Goto(r, "replayed")
    BY <1>1, <1>3, <2>2, MoveInv DEF ExchangeFind, At, PCs
  <2>3. CASE ~tokens[req[r].code].consumed /\ Goto(r, "found")
    <3>1. ~req[r].replay
      BY <1>1, <1>3, <2>3 DEF ExchangeFind, At, Exchanging
    <3> QED  BY <1>1, <1>3, <2>3, <3>1, MoveInv DEF ExchangeFind, At, PCs
  <2> QED  BY <1>3, <2>1, <2>2, <2>3 DEF ExchangeFind
<1>4. CASE ExchangeReplayed(r)
  <2>1. /\ GrantsKept /\ TokensKept /\ TablesTyped' /\ \A t \in Tokens : TokenOK(t)'
    BY <1>4, DeleteRowsKeeps DEF ExchangeReplayed
  <2>2. /\ Only(r) /\ Same(r) /\ req'[r].pc = "answered" /\ req'[r].status = 400
        /\ req'[r].grant = req[r].grant /\ req'[r].todo = req[r].todo
    BY <1>1, <1>4, AnswerStep DEF ExchangeReplayed, Codes
  <2>3. \A s \in Requests : Owned(s)'
    BY <1>4, <2>2, OwnedKeeps DEF ExchangeReplayed
  <2>4. SlotOK(r)'
    BY <1>4, <2>1, <2>2, <2>3, MovedOK DEF ExchangeReplayed, At
  <2> QED  BY <2>1, <2>2, <2>3, <2>4, SlotInv
<1>5. CASE ExchangeGrant(r)
  <2>1. CASE Goto(r, "granted")
    <3>1. ~req[r].replay
      BY <1>1, <1>5 DEF ExchangeGrant, At, Exchanging
    <3> QED  BY <1>1, <1>5, <2>1, <3>1, MoveInv DEF ExchangeGrant, At, PCs
  <2>2. CASE Answer(r, 400)
    BY <1>1, <1>5, <2>2, MoveInv DEF ExchangeGrant, At
  <2> QED  BY <1>5, <2>1, <2>2 DEF ExchangeGrant
<1>6. CASE ExchangeConsume(r)
  <2>1. CASE Answer(r, 500) /\ UNCHANGED tokens
    BY <1>1, <1>6, <2>1, MoveInv DEF ExchangeConsume, At
  <2>2. CASE /\ Goto(r, "ready")
             /\ tokens' = [tokens EXCEPT ![req[r].code] = [@ EXCEPT !.consumed = TRUE]]
    <3> DEFINE c == req[r].code
    <3>1. /\ req[r].op = "exchange" /\ req[r].pc = "granted" /\ ~req[r].replay
          /\ UNCHANGED <<grants, revived, late>>
      BY <1>1, <1>6 DEF ExchangeConsume, At, Exchanging
    <3>2. c \in Tokens /\ tokens[c].state # "new"
      BY <1>1, <3>1 DEF RequestOK, Exchanging
    <3> DEFINE row == [tokens[c] EXCEPT !.consumed = TRUE]
    <3>3. /\ row \in TokenRow /\ row.consumed /\ row.state = tokens[c].state
           /\ row.grant = tokens[c].grant /\ row.from = tokens[c].from
      BY ZenonT(20), <1>1, <3>2 DEF TypeOK, TokenRow
    <3>4. tokens' = [tokens EXCEPT ![c] = row] /\ tokens \in [Tokens -> TokenRow]
      BY <1>1, <2>2 DEF TypeOK
    <3> HIDE DEF row
    <3>5. /\ tokens' \in [Tokens -> TokenRow] /\ tokens'[c].consumed
          /\ \A t \in Tokens :
               /\ tokens'[t].state = tokens[t].state /\ tokens'[t].grant = tokens[t].grant
               /\ tokens'[t].from = tokens[t].from
               /\ tokens[t].consumed => tokens'[t].consumed
               /\ tokens[t].state = "new" => tokens'[t] = tokens[t]
      BY <3>2, <3>3, <3>4
    <3>6. GrantsKept /\ TokensKept /\ TablesTyped'
      BY <1>1, <3>1, <3>5
         DEF GrantsKept, TokensKept, TablesTyped, TypeOK, Saved, InTable
    <3>7. \A t \in Tokens : tokens[t].from \in Tokens \cup {None}
      BY <1>1 DEF TypeOK, TokenRow
    <3>8. ASSUME NEW t \in Tokens  PROVE TokenOK(t)'
      <4>1. TokenOK(t) /\ tokens[t].from \in Tokens \cup {None}
        BY <3>7 DEF GrantInv
      <4>2. InTable(tokens[t].grant)' <=> InTable(tokens[t].grant)
        BY <3>1, <3>5 DEF InTable
      <4> QED  BY <3>1, <3>5, <4>1, <4>2 DEF TokenOK, Saved, InTable
    <3>9. /\ Only(r) /\ Same(r) /\ req'[r].pc = "ready" /\ req'[r].status = req[r].status
          /\ req'[r].grant = req[r].grant /\ req'[r].todo = req[r].todo
      BY <1>1, <2>2, GotoStep DEF PCs
    <3>10. \A s \in Requests : Owned(s)'
      BY <3>1, <3>9, OwnedKeeps
    <3>11. SlotOK(r)'
      BY <1>1, <3>1, <3>5, <3>6, <3>9, <3>10, MovedOK DEF RequestOK
    <3> QED  BY <3>6, <3>8, <3>9, <3>10, <3>11, SlotInv
  <2> QED  BY <1>6, <2>1, <2>2 DEF ExchangeConsume
<1> QED  BY <1>2, <1>3, <1>4, <1>5, <1>6

LEMMA IssueInv ==
  ASSUME GrantInv, NEW r \in Requests, IssueToken(r)
  PROVE  GrantInv'
<1>1. TypeOK /\ RequestOK(req[r]) /\ Exchanging(r) /\ req[r] \in Request
  BY DEF GrantInv, TypeOK
<1> DEFINE g == req[r].grant
           new == [state |-> "live", grant |-> g, consumed |-> FALSE, from |-> req[r].code,
                   kind |-> IF req[r].op = "authorize" THEN "code" ELSE "access"]
<1>2. PICK t \in Tokens :
        /\ tokens[t].state = "new" /\ tokens' = [tokens EXCEPT ![t] = new]
        /\ late' = IF ~InTable(g) \/ BeingRevoked(g) THEN late \cup {t} ELSE late
  BY DEF IssueToken
<1>3. /\ req[r].op \in {"authorize", "exchange"} /\ req[r].pc = "ready"
      /\ Answer(r, 200) /\ UNCHANGED <<grants, revived>>
  BY DEF IssueToken
<1>4. Saved(g) /\ g \in GrantIds /\ req[r].code \in Tokens \cup {None}
  BY <1>1, <1>3 DEF RequestOK, Saved, Request
<1>5. /\ new \in TokenRow /\ new.state = "live" /\ new.grant = g /\ new.from = req[r].code
  BY <1>4 DEF TokenRow
<1> HIDE DEF new
<1>6. /\ tokens' \in [Tokens -> TokenRow] /\ tokens'[t] = new
      /\ \A u \in Tokens \ {t} : tokens'[u] = tokens[u]
  BY <1>1, <1>2, <1>5 DEF TypeOK
<1>7. GrantsKept
  BY <1>3 DEF GrantsKept, Saved, InTable
<1>8. TokensKept /\ TablesTyped'
  BY <1>1, <1>2, <1>3, <1>5, <1>6 DEF TokensKept, TablesTyped, TypeOK
<1>9. /\ Only(r) /\ Same(r) /\ req'[r].pc = "answered" /\ req'[r].status = 200
      /\ req'[r].grant = req[r].grant /\ req'[r].todo = req[r].todo
  BY <1>1, <1>3, AnswerStep DEF Codes
<1>10. \A s \in Requests : Owned(s)'
  BY <1>3, <1>9, OwnedKeeps
<1>11. req[r].op = "exchange" => ~req[r].replay /\ tokens[req[r].code].consumed
                                 /\ tokens[req[r].code].state # "new"
  BY <1>1, <1>3 DEF Exchanging
<1>12. SlotOK(r)'
  BY <1>3, <1>7, <1>8, <1>9, <1>10, <1>11, MovedOK
<1>13. ASSUME NEW u \in Tokens  PROVE TokenOK(u)'
  <2>1. TokenOK(u) /\ tokens[u].from \in Tokens \cup {None}
    BY <1>1 DEF GrantInv, TypeOK, TokenRow
  <2>2. tokens[t].consumed = FALSE
    BY <1>2 DEF GrantInv, TokenOK, NoToken
  <2>3. CASE u = t
    <3>1. req[r].code # None => tokens'[req[r].code].consumed
      BY <1>1, <1>2, <1>4, <1>6, <1>11 DEF RequestOK
    <3>2. InTable(g) \/ t \in late'
      BY <1>2
    <3>3. grants'[g] = grants[g] /\ g \in GrantIds /\ grants[g].state # "new"
      BY <1>3, <1>4 DEF Saved
    <3>4. /\ tokens'[u].state = "live" /\ tokens'[u].grant = g
          /\ tokens'[u].from = req[r].code
      BY <1>5, <1>6, <2>3
    <3> QED  BY <2>3, <3>1, <3>2, <3>3, <3>4 DEF TokenOK, Saved, InTable
  <2>4. CASE u # t
    <3>1. tokens[u].from # None => tokens'[tokens[u].from].consumed
      BY <1>6, <2>1, <2>2 DEF TokenOK
    <3>2. tokens'[u] = tokens[u] /\ UNCHANGED grants /\ late \subseteq late'
      BY <1>2, <1>3, <1>6, <2>4
    <3> QED  BY <2>1, <3>1, <3>2 DEF TokenOK, Saved, InTable
  <2> QED  BY <2>3, <2>4
<1> QED  BY <1>7, <1>8, <1>9, <1>10, <1>12, <1>13, SlotInv
-----------------------------------------------------------------------------
(* Revoke *)
LEMMA RevokeFindInv ==
  ASSUME GrantInv, NEW r \in Requests, RevokeFind(r)
  PROVE  GrantInv'
<1>1. TypeOK /\ RequestOK(req[r]) /\ Owned(r) /\ req[r] \in Request
  BY DEF GrantInv, TypeOK
<1> DEFINE mine == {g \in MemberGrants(req[r].member) : grants[g].client = req[r].client}
           q == [req[r] EXCEPT !.pc = "found", !.mine = mine, !.todo = mine]
<1>2. /\ req[r].op = "revoke" /\ req[r].pc = "sent"
      /\ UNCHANGED <<grants, tokens, revived, late>>
      /\ Answer(r, 404) \/ req' = [req EXCEPT ![r] = q]
  BY DEF RevokeFind, At
<1>3. CASE Answer(r, 404)
  BY <1>1, <1>2, <1>3, MoveInv
<1>4. CASE req' = [req EXCEPT ![r] = q]
  <2>1. /\ mine \subseteq GrantIds
        /\ \A g \in mine : /\ Saved(g) /\ grants[g].member = req[r].member
                           /\ grants[g].client = req[r].client
    BY DEF MemberGrants, Findable, Saved
  <2> HIDE DEF mine
  <2>2. /\ q \in Request /\ q.op = "revoke" /\ q.member = req[r].member
        /\ q.client = req[r].client /\ q.grant = req[r].grant /\ q.pc = "found"
        /\ q.status = req[r].status /\ q.code = req[r].code /\ q.mine = mine /\ q.todo = mine
    BY <1>1, <1>2, <2>1 DEF Request, PCs
  <2>3. Only(r) /\ req'[r] = q
    BY <1>1, <1>4, <2>2 DEF TypeOK, Only
  <2> HIDE DEF q
  <2>4. RequestOK(req[r])' /\ Owned(r)' /\ Exchanging(r)'
    BY <1>1, <1>2, <2>1, <2>2, <2>3 DEF RequestOK, Owned, Exchanging, Saved
  <2>5. Revoking(r)'
    BY <1>2, <2>1, <2>2, <2>3 DEF Revoking
  <2>6. SlotOK(r)'
    BY <2>2, <2>3, <2>4, <2>5 DEF SlotOK
  <2> QED  BY <1>2, <2>2, <2>3, <2>6, QuietInv
<1> QED  BY <1>2, <1>3, <1>4

LEMMA RevokeTokensInv ==
  ASSUME GrantInv, NEW r \in Requests, RevokeTokens(r)
  PROVE  GrantInv'
<1>1. TypeOK /\ RequestOK(req[r]) /\ Revoking(r) /\ req[r] \in Request
  BY DEF GrantInv, TypeOK
<1>2. PICK g \in req[r].todo :
        DeleteRows(g) /\ req' = [req EXCEPT ![r] = [req[r] EXCEPT !.pc = "swept", !.grant = g]]
  BY DEF RevokeTokens
<1>3. req[r].op = "revoke" /\ req[r].pc = "found" /\ UNCHANGED <<grants, revived, late>>
  BY DEF RevokeTokens, At
<1>4. g \in GrantIds /\ Saved(g)
  BY <1>1, <1>3 DEF RequestOK, Saved
<1> DEFINE q == [req[r] EXCEPT !.pc = "swept", !.grant = g]
<1>5. /\ q \in Request /\ q.op = "revoke" /\ q.member = req[r].member
      /\ q.client = req[r].client /\ q.grant = g /\ q.pc = "swept" /\ q.code = req[r].code
      /\ q.status = req[r].status /\ q.mine = req[r].mine /\ q.todo = req[r].todo
  BY <1>1, <1>3, <1>4 DEF Request, PCs
<1>6. Only(r) /\ req'[r] = q
  BY <1>1, <1>2, <1>5 DEF TypeOK, Only
<1> HIDE DEF q
<1>7. /\ GrantsKept /\ TokensKept /\ TablesTyped' /\ \A t \in Tokens : TokenOK(t)'
      /\ \A t \in Tokens : ~(tokens'[t].state = "live" /\ tokens'[t].grant = g)
  BY <1>2, <1>3, DeleteRowsKeeps
<1>8. ASSUME NEW s \in Requests \ {r}  PROVE Owned(s)'
  BY <1>3, <1>4, <1>5, <1>6 DEF GrantInv, Owned, Saved, Only
<1>9. RequestOK(req[r])' /\ Owned(r)' /\ Exchanging(r)'
  BY <1>1, <1>3, <1>5, <1>6 DEF RequestOK, Owned, Exchanging, Saved
<1>10. Revoking(r)'
  BY <1>1, <1>3, <1>5, <1>6, <1>7 DEF Revoking, Rows, InTable
<1>11. SlotOK(r)'
  BY <1>5, <1>6, <1>9, <1>10 DEF SlotOK
<1> QED  BY <1>6, <1>7, <1>8, <1>11, SlotInv

LEMMA RevokeGrantInv ==
  ASSUME GrantInv, NEW r \in Requests, RevokeGrant(r)
  PROVE  GrantInv'
<1>1. TypeOK /\ RequestOK(req[r]) /\ Revoking(r) /\ req[r] \in Request
  BY DEF GrantInv, TypeOK
<1> DEFINE g == req[r].grant
<1>2. /\ req[r].op = "revoke" /\ req[r].pc = "swept" /\ DeleteGrant(g)
      /\ revived' = revived \ {g} /\ UNCHANGED <<tokens, late>>
      /\ \/ req[r].todo = {g} /\ Answer(r, 204)
         \/ req' = [req EXCEPT ![r] = [req[r] EXCEPT !.pc = "found", !.todo = req[r].todo \ {g}]]
  BY DEF RevokeGrant, At
<1>3. g \in req[r].todo /\ g \in GrantIds /\ Saved(g)
  BY <1>1, <1>2 DEF RequestOK, Saved
<1>4. /\ grants' \in [GrantIds -> Grant]
      /\ \A h \in GrantIds \ {g} : grants'[h] = grants[h]
      /\ grants'[g].state \notin {"new", "live", "expired"}
      /\ grants'[g].member = grants[g].member /\ grants'[g].client = grants[g].client
  <2>1. CASE InTable(g)
    <3> DEFINE new == [grants[g] EXCEPT !.state = "gone"]
    <3>1. /\ new \in Grant /\ new.state = "gone" /\ new.member = grants[g].member
          /\ new.client = grants[g].client
      BY <1>1, <1>3 DEF TypeOK, Grant
    <3>2. grants' = [grants EXCEPT ![g] = new]
      BY <1>2, <2>1 DEF DeleteGrant
    <3> HIDE DEF new
    <3> QED  BY <1>1, <1>3, <3>1, <3>2 DEF TypeOK
  <2>2. CASE ~InTable(g)
    BY <1>1, <1>2, <1>3, <2>2 DEF DeleteGrant, TypeOK, Saved, InTable
  <2> QED  BY <2>1, <2>2
<1>5. GrantsKept
  BY <1>2, <1>4 DEF GrantsKept, Saved, InTable
<1>6. TokensKept /\ TablesTyped'
  BY <1>1, <1>2, <1>4 DEF TokensKept, TablesTyped, TypeOK
<1>7. ASSUME NEW t \in Tokens  PROVE TokenOK(t)'
  <2>1. TokenOK(t) /\ tokens' = tokens /\ late' = late
    BY <1>2 DEF GrantInv
  <2>2. tokens[t].state # "new" => Saved(tokens[t].grant)'
    BY <1>5, <2>1 DEF TokenOK, GrantsKept, Saved
  <2>3. CASE tokens[t].grant = g
    BY <1>1, <1>2, <2>1, <2>2, <2>3 DEF TokenOK, Revoking, Rows
  <2>4. CASE tokens[t].grant # g
    BY <1>4, <2>1, <2>2, <2>4 DEF TokenOK, Saved, InTable
  <2> QED  BY <2>3, <2>4
<1>8. /\ Only(r) /\ Same(r) /\ req'[r].grant = g
      /\ \/ /\ req[r].todo = {g} /\ req'[r].pc = "answered" /\ req'[r].status = 204
            /\ req'[r].todo = req[r].todo
         \/ /\ req'[r].pc = "found" /\ req'[r].todo = req[r].todo \ {g}
            /\ req'[r].status = req[r].status
  <2>1. CASE req[r].todo = {g} /\ Answer(r, 204)
    BY <1>1, <2>1, AnswerStep DEF Codes
  <2>2. CASE req' = [req EXCEPT ![r] = [req[r] EXCEPT !.pc = "found", !.todo = req[r].todo \ {g}]]
    <3> DEFINE q == [req[r] EXCEPT !.pc = "found", !.todo = req[r].todo \ {g}]
    <3>1. /\ q \in Request /\ q.op = req[r].op /\ q.member = req[r].member
          /\ q.client = req[r].client /\ q.grant = g /\ q.pc = "found" /\ q.code = req[r].code
          /\ q.status = req[r].status /\ q.mine = req[r].mine /\ q.replay = req[r].replay
          /\ q.todo = req[r].todo \ {g}
      BY <1>1 DEF Request, PCs
    <3>2. req' = [req EXCEPT ![r] = q] /\ req \in [Requests -> Request]
      BY <1>1, <2>2 DEF TypeOK
    <3> HIDE DEF q
    <3> QED  BY <3>1, <3>2 DEF Only, Same
  <2> QED  BY <1>2, <2>1, <2>2
<1>9. ASSUME NEW s \in Requests \ {r}  PROVE Owned(s)'
  <2>1. Owned(s) /\ req'[s] = req[s]
    BY <1>8 DEF GrantInv, Only
  <2>2. CASE req[s].grant = g
    BY <1>3, <1>4, <2>1, <2>2 DEF Owned
  <2>3. CASE req[s].grant # g
    <3>1. Saved(req[s].grant)' => Saved(req[s].grant)
      BY <1>4, <2>3, <2>1 DEF Saved
    <3>2. Saved(req[s].grant) => grants'[req[s].grant] = grants[req[s].grant]
      BY <1>4, <2>3 DEF Saved
    <3>3. req[s].grant # None => req[s].grant \in GrantIds
      BY <1>1 DEF TypeOK, Request
    <3> QED  BY <1>4, <1>8, <2>1, <2>3, <3>1, <3>2, <3>3 DEF Owned, Only
  <2> QED  BY <2>2, <2>3
<1>10. RequestOK(req[r])'
  <2>1. \A h \in req[r].mine : Saved(h)'
    BY <1>1, <1>2, <1>5 DEF RequestOK, GrantsKept, Saved
  <2> QED  BY <1>1, <1>2, <1>8, <2>1 DEF RequestOK, Same, Saved
<1>11. Revoking(r)'
  <2>1. \A h \in req[r].mine :
          grants'[h].member = req[r].member /\ grants'[h].client = req[r].client
    BY <1>1, <1>2, <1>5 DEF Revoking, RequestOK, GrantsKept, Saved
  <2>2. ASSUME NEW h \in req[r].mine, InTable(h)'
        PROVE  h \in revived' \/ (req'[r].pc # "answered" /\ h \in req'[r].todo)
    <3>1. h # g /\ h \in GrantIds
      BY <1>1, <1>2, <1>4, <2>2 DEF RequestOK, Saved, InTable
    <3>2. InTable(h)
      BY <1>4, <2>2, <3>1 DEF InTable
    <3>3. h \in revived \/ h \in req[r].todo
      BY <1>1, <1>2, <3>2 DEF Revoking
    <3> QED  BY <1>2, <1>8, <3>1, <3>3
  <2> QED  BY <1>2, <1>8, <2>1, <2>2 DEF Revoking, Same, InTable
<1>12. Owned(r)' /\ Exchanging(r)'
  BY <1>2, <1>8 DEF Owned, Exchanging, Same
<1>13. SlotOK(r)'
  BY <1>8, <1>10, <1>11, <1>12 DEF SlotOK, Only
<1> QED  BY <1>5, <1>6, <1>7, <1>8, <1>9, <1>13, SlotInv

-----------------------------------------------------------------------------
(* The requests themselves *)
LEMMA SendStep ==
  ASSUME TypeOK, NEW r \in Requests, NEW x \in Request, Send(r, x)
  PROVE  /\ Only(r) /\ req[r] = Blank /\ UNCHANGED <<grants, tokens, revived, late>>
         /\ req'[r].pc = "sent" /\ req'[r].op = x.op /\ req'[r].member = x.member
         /\ req'[r].client = x.client /\ req'[r].grant = x.grant /\ req'[r].code = x.code
         /\ req'[r].mine = x.mine /\ req'[r].todo = x.todo /\ req'[r].replay = x.replay
         /\ req'[r].status = x.status /\ req'[r] \in Request
<1> DEFINE q == [x EXCEPT !.pc = "sent"]
<1>1. req \in [Requests -> Request] /\ req' = [req EXCEPT ![r] = q]
  BY DEF TypeOK, Send
<1>2. /\ q \in Request /\ q.pc = "sent" /\ q.op = x.op /\ q.member = x.member
      /\ q.client = x.client /\ q.grant = x.grant /\ q.code = x.code /\ q.mine = x.mine
      /\ q.todo = x.todo /\ q.replay = x.replay /\ q.status = x.status
  BY DEF Request, PCs
<1> HIDE DEF q
<1> QED  BY <1>1, <1>2 DEF Only, Send

LEMMA SendInv ==
  ASSUME GrantInv, NEW r \in Requests,
         \/ \E m \in Members, a \in Clients :
              \/ SendRevoke(r, m, a)
              \/ \E g \in GrantIds \cup {None}, S \in SUBSET Scopes : SendConsent(r, m, a, g, S)
         \/ \E g \in GrantIds : SendAuthorize(r, g)
         \/ \E t \in Tokens : SendExchange(r, t)
  PROVE  GrantInv'
<1>1. TypeOK /\ (\A t \in Tokens : TokenOK(t))
  BY DEF GrantInv
<1>2. ASSUME NEW m \in Members, NEW a \in Clients, SendRevoke(r, m, a)  PROVE GrantInv'
  <2> DEFINE x == [Blank EXCEPT !.op = "revoke", !.member = m, !.client = a]
  <2>1. /\ x \in Request /\ x.op = "revoke" /\ x.grant = None /\ x.code = None
        /\ x.mine = {} /\ x.todo = {} /\ x.status = 0
    BY DEF Request, Blank, PCs, Codes
  <2>2. Send(r, x)
    BY <1>2 DEF SendRevoke
  <2> HIDE DEF x
  <2>3. /\ Only(r) /\ UNCHANGED <<grants, tokens, revived, late>>
        /\ req'[r] \in Request /\ req'[r].op = "revoke" /\ req'[r].grant = None
        /\ req'[r].code = None /\ req'[r].mine = {} /\ req'[r].todo = {}
        /\ req'[r].status = 0 /\ req'[r].pc = "sent"
    BY <1>1, <2>1, <2>2, SendStep
  <2>4. SlotOK(r)'
    BY <2>3 DEF SlotOK, RequestOK, Owned, Revoking, Exchanging
  <2> QED  BY <2>3, <2>4, QuietInv
<1>3. ASSUME NEW m \in Members, NEW a \in Clients, NEW g \in GrantIds \cup {None},
             NEW S \in SUBSET Scopes, SendConsent(r, m, a, g, S)
      PROVE  GrantInv'
  <2> DEFINE x == [Blank EXCEPT !.op = "consent", !.member = m, !.client = a,
                                !.grant = g, !.asked = S]
  <2>1. /\ x \in Request /\ x.op = "consent" /\ x.grant = g /\ x.code = None
        /\ x.status = 0 /\ x.member = m /\ x.client = a
    BY ZenonT(20) DEF Request, Blank, PCs, Codes
  <2>2. Send(r, x) /\ (g # None => Findable(g) /\ grants[g].member = m /\ grants[g].client = a)
    BY <1>3 DEF SendConsent
  <2> HIDE DEF x
  <2>3. /\ Only(r) /\ UNCHANGED <<grants, tokens, revived, late>>
        /\ req'[r] \in Request /\ req'[r].op = "consent" /\ req'[r].grant = g
        /\ req'[r].code = None /\ req'[r].status = 0 /\ req'[r].pc = "sent"
        /\ req'[r].member = m /\ req'[r].client = a
    BY <1>1, <2>1, <2>2, SendStep
  <2>4. m # None /\ a # None
    BY NoneAssumption
  <2>5. SlotOK(r)'
    BY <2>2, <2>3, <2>4 DEF SlotOK, RequestOK, Owned, Revoking, Exchanging
  <2>6. g # None => Saved(g)
    BY <2>2 DEF Saved, Findable
  <2> QED  BY <2>3, <2>5, <2>6, QuietInv
<1>4. ASSUME NEW g \in GrantIds, SendAuthorize(r, g)  PROVE GrantInv'
  <2> DEFINE x == [Blank EXCEPT !.op = "authorize", !.grant = g]
  <2>1. x \in Request /\ x.op = "authorize" /\ x.grant = g /\ x.code = None /\ x.status = 0
    BY DEF Request, Blank, PCs, Codes
  <2>2. Send(r, x) /\ Saved(g)
    BY <1>4 DEF SendAuthorize, Findable, Saved
  <2> HIDE DEF x
  <2>3. /\ Only(r) /\ UNCHANGED <<grants, tokens, revived, late>>
        /\ req'[r] \in Request /\ req'[r].op = "authorize" /\ req'[r].grant = g
        /\ req'[r].code = None /\ req'[r].status = 0 /\ req'[r].pc = "sent"
    BY <1>1, <2>1, <2>2, SendStep
  <2>4. SlotOK(r)'
    BY <2>2, <2>3 DEF SlotOK, RequestOK, Owned, Revoking, Exchanging, Saved
  <2> QED  BY <2>2, <2>3, <2>4, QuietInv
<1>5. ASSUME NEW t \in Tokens, SendExchange(r, t)  PROVE GrantInv'
  <2> DEFINE replay == \E u \in Tokens : tokens[u].from = t
             x == [Blank EXCEPT !.op = "exchange", !.grant = tokens[t].grant, !.code = t,
                                !.replay = replay]
  <2>1. tokens[t].kind = "code" /\ Send(r, x)
    BY <1>5 DEF SendExchange
  <2>2. tokens[t].state # "new" /\ tokens[t].grant \in GrantIds /\ Saved(tokens[t].grant)
    BY <1>1, <2>1 DEF TokenOK, NoToken, Saved
  <2>3. replay => tokens[t].consumed
    BY <1>1, NoneAssumption DEF TokenOK
  <2>4. replay \in BOOLEAN
    OBVIOUS
  <2> HIDE DEF replay
  <2>5. /\ x \in Request /\ x.op = "exchange" /\ x.grant = tokens[t].grant /\ x.code = t
        /\ x.replay = replay /\ x.status = 0
    BY ZenonT(20), <2>2, <2>4 DEF Request, Blank, PCs, Codes
  <2> HIDE DEF x
  <2>6. /\ Only(r) /\ UNCHANGED <<grants, tokens, revived, late>>
        /\ req'[r] \in Request /\ req'[r].op = "exchange" /\ req'[r].grant = tokens[t].grant
        /\ req'[r].code = t /\ req'[r].replay = replay /\ req'[r].status = 0
        /\ req'[r].pc = "sent"
    BY <1>1, <2>1, <2>5, SendStep
  <2>7. SlotOK(r)'
    BY <2>2, <2>3, <2>6 DEF SlotOK, RequestOK, Owned, Revoking, Exchanging, Saved
  <2> QED  BY <2>2, <2>6, <2>7, QuietInv
<1> QED  BY <1>2, <1>3, <1>4, <1>5

(* The slot is free again: the request is answered, or dead. *)
LEMMA FreeInv ==
  ASSUME GrantInv, NEW r \in Requests, Done(r) \/ Fail(r)
  PROVE  GrantInv'
<1>1. Blank \in Request /\ Blank.op = "none" /\ Blank.grant = None /\ Blank.code = None
      /\ Blank.status = 0
  BY DEF Blank, Request, PCs, Codes
<1>2. Only(r) /\ req'[r] = Blank /\ UNCHANGED <<grants, tokens, revived, late>>
  BY <1>1 DEF Done, Fail, GrantInv, TypeOK, Only
<1>3. SlotOK(r)'
  BY <1>1, <1>2 DEF SlotOK, RequestOK, Owned, Revoking, Exchanging
<1> QED  BY <1>1, <1>2, <1>3, QuietInv

LEMMA ExpireInv ==
  ASSUME GrantInv, NEW g \in GrantIds, Expire(g)
  PROVE  GrantInv'
<1>1. TypeOK /\ (\A t \in Tokens : TokenOK(t))
  BY DEF GrantInv
<1> DEFINE new == [grants[g] EXCEPT !.state = "expired"]
<1>2. /\ new \in Grant /\ new.state = "expired" /\ new.member = grants[g].member
      /\ new.client = grants[g].client
  BY <1>1 DEF TypeOK, Grant
<1>3. /\ grants' = [grants EXCEPT ![g] = new] /\ grants[g].state = "live"
      /\ UNCHANGED <<tokens, req, revived, late>>
  BY DEF Expire
<1> HIDE DEF new
<1>4. /\ grants' \in [GrantIds -> Grant]
      /\ \A h \in GrantIds : /\ grants'[h].member = grants[h].member
                             /\ grants'[h].client = grants[h].client
                             /\ Saved(h)' <=> Saved(h)
                             /\ InTable(h)' <=> InTable(h)
  BY <1>1, <1>2, <1>3 DEF TypeOK, Saved, InTable
<1>5. TypeOK'
  BY <1>1, <1>3, <1>4 DEF TypeOK
<1>6. ASSUME NEW t \in Tokens  PROVE TokenOK(t)'
  <2>1. TokenOK(t) /\ UNCHANGED <<tokens, late>>
    BY <1>1, <1>3
  <2>2. tokens[t].state = "live" => tokens[t].grant \in GrantIds
    BY <2>1 DEF TokenOK, Saved
  <2> QED  BY <1>4, <2>1, <2>2 DEF TokenOK, Saved, InTable
<1>7. ASSUME NEW r \in Requests
      PROVE  (RequestOK(req[r]) /\ Owned(r) /\ Revoking(r) /\ Exchanging(r))'
  <2>1. /\ RequestOK(req[r]) /\ Owned(r) /\ Revoking(r) /\ Exchanging(r)
        /\ req[r].grant \in GrantIds \cup {None}
    BY <1>1 DEF GrantInv, TypeOK, Request
  <2>2. RequestOK(req[r])' /\ Exchanging(r)'
    BY <1>3, <1>4, <2>1 DEF RequestOK, Exchanging, Saved
  <2>3. Owned(r)'
    BY <1>3, <1>4, <2>1 DEF Owned, Saved
  <2>4. Revoking(r)'
    BY <1>3, <1>4, <2>1 DEF RequestOK, Revoking, Saved, InTable, Rows
  <2> QED  BY <2>2, <2>3, <2>4
<1> QED  BY <1>5, <1>6, <1>7 DEF GrantInv

-----------------------------------------------------------------------------
LEMMA InitInv == Init => GrantInv
<1> SUFFICES ASSUME Init  PROVE GrantInv
  OBVIOUS
<1>1. NoGrant \in Grant /\ NoToken \in TokenRow /\ Blank \in Request
  BY DEF NoGrant, Grant, NoToken, TokenRow, Blank, Request, PCs, Codes
<1>2. TypeOK
  BY <1>1 DEF Init, TypeOK
<1>3. \A t \in Tokens : TokenOK(t)
  BY DEF Init, TokenOK, NoToken
<1>4. \A r \in Requests : RequestOK(req[r]) /\ Owned(r) /\ Revoking(r) /\ Exchanging(r)
  BY DEF Init, Blank, RequestOK, Owned, Revoking, Exchanging
<1> QED  BY <1>2, <1>3, <1>4 DEF GrantInv

LEMMA NextInv == GrantInv /\ [Next]_vars => GrantInv'
<1> SUFFICES ASSUME GrantInv, [Next]_vars  PROVE GrantInv'
  OBVIOUS
<1>1. CASE UNCHANGED vars
  BY <1>1 DEF vars, GrantInv, TypeOK, RequestOK, Owned, Revoking, Exchanging, TokenOK,
              Saved, InTable, Rows
<1>2. ASSUME NEW r \in Requests,
             Consent(r) \/ Provider(r) \/ Revoke(r) \/ ClientStep(r) \/ Fail(r)
      PROVE  GrantInv'
  <2>1. CASE Provider(r)
    BY <2>1, ExchangeInv, IssueInv DEF Provider
  <2>2. CASE Revoke(r)
    BY <2>2, RevokeFindInv, RevokeTokensInv, RevokeGrantInv DEF Revoke
  <2>3. CASE ClientStep(r)
    BY <2>3, SendInv, FreeInv DEF ClientStep
  <2> QED  BY <1>2, <2>1, <2>2, <2>3, ConsentInv, FreeInv
<1>3. ASSUME NEW g \in GrantIds, Expire(g)  PROVE GrantInv'
  BY <1>3, ExpireInv
<1> QED  BY <1>1, <1>2, <1>3 DEF Next

LEMMA Invariance == Spec => []GrantInv
BY InitInv, NextInv, PTL DEF Spec

-----------------------------------------------------------------------------
(* Every reachable state has the types its variables are declared with.     *)
THEOREM Typed == Spec => []TypeOK
<1>1. GrantInv => TypeOK
  BY DEF GrantInv
<1> QED  BY <1>1, Invariance, PTL

(* connections.revoke and the adapter: whatever the interleaving and        *)
(* wherever a revoke fails, a token in the table has its grant in the       *)
(* table, or was saved while that grant was going or after it had gone.     *)
THEOREM Anchored == Spec => []NoTokenOutlivesItsGrant
<1>1. GrantInv => NoTokenOutlivesItsGrant
  BY DEF GrantInv, TokenOK, NoTokenOutlivesItsGrant
<1> QED  BY <1>1, Invariance, PTL

(* connections.revoke: a 204 means that every grant it found is gone, but   *)
(* for those a consent has saved again since.                               *)
THEOREM Reaching == Spec => []RevokeReachesEveryGrant
<1>1. GrantInv => RevokeReachesEveryGrant
  BY DEF GrantInv, Revoking, RequestOK, RevokeReachesEveryGrant
<1> QED  BY <1>1, Invariance, PTL

(* Adapter consume and find: a code sent again after it has yielded a token *)
(* yields no other.                                                         *)
THEOREM Refused == Spec => []ReplayRefused
<1>1. GrantInv => ReplayRefused
  BY DEF GrantInv, Exchanging, ReplayRefused
<1> QED  BY <1>1, Invariance, PTL

-----------------------------------------------------------------------------
(* The two halves of RevokeTouchesOneConnection, as predicates of a step. *)
GrantEnds ==
  \A g \in GrantIds : InTable(g) /\ ~InTable(g)' =>
    \E r \in Requests : req[r].op = "revoke" /\ req[r].member = grants[g].member
                        /\ req[r].client = grants[g].client

TokenEnds ==
  \A t \in Tokens : tokens[t].state = "live" /\ tokens'[t].state = "gone" =>
    LET g == tokens[t].grant IN
    \E r \in Requests :
      \/ req[r].op = "revoke" /\ req[r].member = grants[g].member
         /\ req[r].client = grants[g].client
      \/ At(r, "exchange", "replayed") /\ req[r].grant = g

(* The body of the property, as it is written there. *)
Ends ==
  /\ \A g \in GrantIds : InTable(g) /\ ~InTable(g)' =>
       \E r \in Requests : req[r].op = "revoke" /\ req[r].member = grants[g].member
                           /\ req[r].client = grants[g].client
  /\ \A t \in Tokens : tokens[t].state = "live" /\ tokens'[t].state = "gone" =>
       LET g == tokens[t].grant IN
       \E r \in Requests :
         \/ req[r].op = "revoke" /\ req[r].member = grants[g].member
            /\ req[r].client = grants[g].client
         \/ At(r, "exchange", "replayed") /\ req[r].grant = g

LEMMA StepEnds ==
  ASSUME GrantInv, Next
  PROVE  GrantEnds /\ TokenEnds
<1>1. TypeOK /\ \A r \in Requests : RequestOK(req[r]) /\ Revoking(r)
  BY DEF GrantInv
<1>2. UNCHANGED grants => GrantEnds
  BY DEF GrantEnds, InTable
<1>3. UNCHANGED tokens => TokenEnds
  BY DEF TokenEnds
<1>4. ASSUME NEW r \in Requests, RevokeTokens(r)  PROVE GrantEnds /\ TokenEnds
  <2>1. PICK g \in req[r].todo : DeleteRows(g)
    BY <1>4 DEF RevokeTokens
  <2>2. req[r].op = "revoke" /\ UNCHANGED grants
    BY <1>4 DEF RevokeTokens, At
  <2>3. grants[g].member = req[r].member /\ grants[g].client = req[r].client
    BY <1>1, <2>1, <2>2 DEF Revoking, RequestOK
  <2>4. \A t \in Tokens : tokens[t].state = "live" /\ tokens'[t].state = "gone"
                            => tokens[t].grant = g
    BY <2>1 DEF DeleteRows, Rows
  <2> QED  BY <1>2, <2>2, <2>3, <2>4 DEF TokenEnds
<1>5. ASSUME NEW r \in Requests, RevokeGrant(r)  PROVE GrantEnds /\ TokenEnds
  <2> DEFINE g == req[r].grant
  <2>1. req[r].op = "revoke" /\ req[r].pc = "swept" /\ DeleteGrant(g) /\ UNCHANGED tokens
    BY <1>5 DEF RevokeGrant, At
  <2>2. grants[g].member = req[r].member /\ grants[g].client = req[r].client
    BY <1>1, <2>1 DEF Revoking, RequestOK
  <2>3. \A h \in GrantIds : h # g => grants'[h] = grants[h]
    BY <1>1, <2>1 DEF DeleteGrant, TypeOK
  <2>4. GrantEnds
    BY <2>1, <2>2, <2>3 DEF GrantEnds, InTable
  <2> QED  BY <1>3, <2>1, <2>4
<1>6. ASSUME NEW r \in Requests, ExchangeReplayed(r)  PROVE GrantEnds /\ TokenEnds
  <2>1. At(r, "exchange", "replayed") /\ DeleteRows(req[r].grant) /\ UNCHANGED grants
    BY <1>6 DEF ExchangeReplayed
  <2>2. \A t \in Tokens : tokens[t].state = "live" /\ tokens'[t].state = "gone"
                            => tokens[t].grant = req[r].grant
    BY <2>1 DEF DeleteRows, Rows
  <2> QED  BY <1>2, <2>1, <2>2 DEF TokenEnds
<1>7. ASSUME NEW r \in Requests, ConsentSave(r)  PROVE GrantEnds /\ TokenEnds
  <2> DEFINE g == req[r].grant
             new == [state |-> "live", member |-> req[r].member, client |-> req[r].client,
                     scopes |-> req[r].scopes, agreed |-> grants[g].agreed \cup req[r].asked]
  <2>1. grants' = [grants EXCEPT ![g] = new] /\ UNCHANGED tokens
    BY <1>7 DEF ConsentSave
  <2>2. new.state = "live"
    OBVIOUS
  <2> HIDE DEF new
  <2>3. GrantEnds
    BY <1>1, <2>1, <2>2 DEF GrantEnds, InTable, TypeOK
  <2> QED  BY <1>3, <2>1, <2>3
<1>8. ASSUME NEW r \in Requests, IssueToken(r)  PROVE GrantEnds /\ TokenEnds
  <2>1. PICK t \in Tokens : tokens[t].state = "new" /\ \A u \in Tokens \ {t} : tokens'[u] = tokens[u]
    BY <1>1, <1>8 DEF IssueToken, TypeOK
  <2>2. UNCHANGED grants
    BY <1>8 DEF IssueToken
  <2> QED  BY <1>2, <2>1, <2>2 DEF TokenEnds
<1>9. ASSUME NEW r \in Requests, ExchangeConsume(r)  PROVE GrantEnds /\ TokenEnds
  <2>1. tokens[req[r].code].state = "live" \/ UNCHANGED tokens
    BY <1>9 DEF ExchangeConsume
  <2>2. \A t \in Tokens : tokens'[t].state = tokens[t].state
    BY <1>1, <1>9 DEF ExchangeConsume, TypeOK, TokenRow
  <2>3. UNCHANGED grants
    BY <1>9 DEF ExchangeConsume
  <2> QED  BY <1>2, <2>2, <2>3 DEF TokenEnds
<1>10. ASSUME NEW g \in GrantIds, Expire(g)  PROVE GrantEnds /\ TokenEnds
  <2>1. \A h \in GrantIds : InTable(h) => InTable(h)'
    BY <1>1, <1>10 DEF Expire, TypeOK, Grant, InTable
  <2>2. UNCHANGED tokens
    BY <1>10 DEF Expire
  <2> QED  BY <1>3, <2>1, <2>2 DEF GrantEnds
<1>11. ASSUME NEW r \in Requests,
              Consent(r) \/ Provider(r) \/ Revoke(r) \/ ClientStep(r) \/ Fail(r)
       PROVE  GrantEnds /\ TokenEnds
  <2>1. \/ UNCHANGED <<grants, tokens>>
        \/ RevokeTokens(r) \/ RevokeGrant(r) \/ ExchangeReplayed(r) \/ ConsentSave(r)
        \/ IssueToken(r) \/ ExchangeConsume(r)
    BY <1>11 DEF Consent, ConsentNew, ConsentFind, ConsentResult, Provider, AuthorizeFind,
                 ExchangeFind, ExchangeGrant, Revoke, RevokeFind, ClientStep, SendRevoke,
                 SendConsent, SendAuthorize, SendExchange, Send, Done, Fail
  <2> QED  BY <1>2, <1>3, <1>4, <1>5, <1>6, <1>7, <1>8, <1>9, <2>1
<1> QED  BY <1>10, <1>11 DEF Next

(* connections.revoke and revokeByGrantId: rows of other members and of     *)
(* other apps stay, whatever else is in flight.                             *)
THEOREM Confined == Spec => RevokeTouchesOneConnection
<1>1. GrantInv /\ [Next]_vars => [Ends]_vars
  BY StepEnds DEF Ends, GrantEnds, TokenEnds
<1>2. Spec => [][Ends]_vars
  BY <1>1, Invariance, PTL DEF Spec
<1> QED  BY <1>2 DEF RevokeTouchesOneConnection, Ends
=============================================================================
