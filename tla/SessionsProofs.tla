--------------------------- MODULE SessionsProofs ---------------------------
(***************************************************************************)
(* Theorems about Sessions, for any members, requests and bounds.          *)
(***************************************************************************)
EXTENDS Sessions, TLAPS

(* What a request in flight has in its hands. *)
RequestOK(q) ==
  /\ q.op = "login" => q.sub \in Members
  /\ q.cookie # None => q.sub = q.cookie.sub
  /\ q.op = "refresh" /\ q.pc \in {"verified", "found", "deleted", "minted"} =>
       q.cookie \in Token
  /\ q.pc \in {"verified", "deleted", "minted"} => q.op \in {"login", "refresh"}
  /\ q.pc \in {"minted", "stored"} => q.fresh \in Token /\ q.fresh.sub = q.sub

RequestInv == \A r \in Requests : RequestOK(req[r])

LEMMA ConstantFacts ==
  /\ None \notin Members /\ None \notin Token
  /\ \A t \in Token : t.sub \in Members
BY NoneAssumption DEF Token

-----------------------------------------------------------------------------
(* How a step changes the slot it works on; every other slot keeps its      *)
(* request.                                                                 *)

Only(r) ==
  /\ req' \in [Requests -> Request]
  /\ \A s \in Requests : s # r => req'[s] = req[s]

LEMMA GotoStep ==
  ASSUME TypeOK, NEW r \in Requests, NEW pc \in PCs, Goto(r, pc)
  PROVE  /\ Only(r)
         /\ req'[r].pc = pc
         /\ req'[r].op = req[r].op /\ req'[r].sub = req[r].sub
         /\ req'[r].cookie = req[r].cookie /\ req'[r].fresh = req[r].fresh
         /\ req'[r].family = req[r].family /\ req'[r].code = req[r].code
         /\ req'[r].barred = req[r].barred
BY DEF Goto, Only, TypeOK, Request

LEMMA AnswerStep ==
  ASSUME TypeOK, NEW r \in Requests, NEW code \in Codes, Answer(r, code)
  PROVE  /\ Only(r)
         /\ req'[r].pc = "answered" /\ req'[r].code = code
         /\ req'[r].op = req[r].op /\ req'[r].sub = req[r].sub
         /\ req'[r].cookie = req[r].cookie /\ req'[r].fresh = req[r].fresh
         /\ req'[r].family = req[r].family /\ req'[r].barred = req[r].barred
<1> DEFINE q == [req[r] EXCEPT !.pc = "answered", !.code = code]
<1>1. req \in [Requests -> Request] /\ req' = [req EXCEPT ![r] = q] /\ req[r] \in Request
  BY DEF TypeOK, Answer
<1>2. /\ q \in Request /\ q.pc = "answered" /\ q.code = code
      /\ q.op = req[r].op /\ q.sub = req[r].sub /\ q.cookie = req[r].cookie
      /\ q.fresh = req[r].fresh /\ q.family = req[r].family /\ q.barred = req[r].barred
  BY <1>1 DEF Request, PCs
<1> HIDE DEF q
<1> QED  BY <1>1, <1>2 DEF Only

LEMMA TakeStep ==
  ASSUME TypeOK, NEW r \in Requests, NEW pc \in PCs, NEW x \in Row, Take(r, pc, x)
  PROVE  /\ Only(r)
         /\ req'[r].pc = pc /\ req'[r].family = x.family
         /\ req'[r].op = req[r].op /\ req'[r].sub = req[r].sub
         /\ req'[r].cookie = req[r].cookie /\ req'[r].fresh = req[r].fresh
         /\ req'[r].code = req[r].code /\ req'[r].barred = req[r].barred
<1> DEFINE f == x.family
           q == [req[r] EXCEPT !.pc = pc, !.family = f]
<1>1. req \in [Requests -> Request] /\ req' = [req EXCEPT ![r] = q] /\ req[r] \in Request
  BY DEF TypeOK, Take
<1>2. f \in Nat
  BY DEF Row
<1> HIDE DEF f
<1>3. /\ q \in Request /\ q.pc = pc /\ q.family = f
      /\ q.op = req[r].op /\ q.sub = req[r].sub /\ q.cookie = req[r].cookie
      /\ q.fresh = req[r].fresh /\ q.code = req[r].code /\ q.barred = req[r].barred
  BY <1>1, <1>2 DEF Request
<1> HIDE DEF q
<1> QED  BY <1>1, <1>3 DEF Only, f

LEMMA MintedStep ==
  ASSUME TypeOK, NEW r \in Requests, NEW t \in Token,
         req' = [req EXCEPT ![r] = [@ EXCEPT !.pc = "minted", !.fresh = t]]
  PROVE  /\ Only(r)
         /\ req'[r].pc = "minted" /\ req'[r].fresh = t
         /\ req'[r].op = req[r].op /\ req'[r].sub = req[r].sub
         /\ req'[r].cookie = req[r].cookie /\ req'[r].family = req[r].family
         /\ req'[r].code = req[r].code /\ req'[r].barred = req[r].barred
<1> DEFINE q == [req[r] EXCEPT !.pc = "minted", !.fresh = t]
<1>1. /\ q \in Request
      /\ q.pc = "minted" /\ q.fresh = t
      /\ q.op = req[r].op /\ q.sub = req[r].sub /\ q.cookie = req[r].cookie
      /\ q.family = req[r].family /\ q.code = req[r].code /\ q.barred = req[r].barred
  BY DEF TypeOK, Request, PCs
<1>2. req' = [req EXCEPT ![r] = q]
  OBVIOUS
<1> HIDE DEF q
<1> QED  BY <1>1, <1>2 DEF Only, TypeOK

LEMMA MintStep ==
  ASSUME TypeOK, NEW r \in Requests, req[r].sub \in Members, Mint(r)
  PROVE  /\ Only(r)
         /\ [sub |-> req[r].sub, iat |-> now] \in Token
         /\ req'[r].pc = "minted" /\ req'[r].fresh = [sub |-> req[r].sub, iat |-> now]
         /\ req'[r].op = req[r].op /\ req'[r].sub = req[r].sub
         /\ req'[r].cookie = req[r].cookie /\ req'[r].family = req[r].family
         /\ req'[r].code = req[r].code /\ req'[r].barred = req[r].barred
<1>1. [sub |-> req[r].sub, iat |-> now] \in Token
  BY DEF TypeOK, Token
<1> DEFINE t == [sub |-> req[r].sub, iat |-> now]
<1>2. req' = [req EXCEPT ![r] = [@ EXCEPT !.pc = "minted", !.fresh = t]]
  BY DEF Mint
<1> HIDE DEF t
<1>3. /\ Only(r)
      /\ req'[r].pc = "minted" /\ req'[r].fresh = t
      /\ req'[r].op = req[r].op /\ req'[r].sub = req[r].sub
      /\ req'[r].cookie = req[r].cookie /\ req'[r].family = req[r].family
      /\ req'[r].code = req[r].code /\ req'[r].barred = req[r].barred
  BY <1>1, <1>2, MintedStep DEF t
<1> QED  BY <1>1, <1>3 DEF t

LEMMA SlotBecomes ==
  ASSUME TypeOK, NEW r \in Requests, NEW q \in Request, req' = [req EXCEPT ![r] = q]
  PROVE  Only(r) /\ req'[r] = q
BY DEF Only, TypeOK

LEMMA SentTyped ==
  ASSUME NEW op \in {"login", "refresh", "logout"}, NEW b \in Browsers,
         NEW sub \in Members \cup {None}, NEW cookie \in Token \cup {None}, NEW f \in Nat
  PROVE  Sent(op, b, sub, cookie, f) \in Request
BY DEF Sent, Request, PCs

LEMMA LoginSent ==
  ASSUME TypeOK, NEW r \in Requests, NEW b \in Browsers, NEW m \in Members,
         SendLogin(r, b, m)
  PROVE  /\ Only(r)
         /\ req'[r].op = "login" /\ req'[r].pc = "sent" /\ req'[r].code = 0
         /\ req'[r].sub = m /\ req'[r].cookie = None /\ req'[r].fresh = None
         /\ req'[r].family = 0 /\ req'[r].barred = (m \in suspended)
<1> DEFINE q == Sent("login", b, m, None, 0)
<1>1. q \in Request
  BY SentTyped
<1>2. req' = [req EXCEPT ![r] = q]
  BY DEF SendLogin
<1>3. /\ q.op = "login" /\ q.pc = "sent" /\ q.code = 0 /\ q.sub = m /\ q.cookie = None
      /\ q.fresh = None /\ q.family = 0 /\ q.barred = (m \in suspended)
  BY DEF Sent
<1> HIDE DEF q
<1> QED  BY <1>1, <1>2, <1>3, SlotBecomes

(* What a request with a cookie is sent with. *)
LEMMA CookieStep ==
  ASSUME TypeOK, NEW r \in Requests, NEW b \in Browsers,
         NEW op \in {"refresh", "logout"}, SendWithCookie(r, b, op)
  PROVE  /\ Only(r)
         /\ req'[r].op = op /\ req'[r].pc = "sent" /\ req'[r].code = 0
         /\ req'[r].cookie = jar[b] /\ req'[r].fresh = None
         /\ jar[b] # None => req'[r].sub = jar[b].sub
         /\ \/ req'[r].family = 0
            \/ \E x \in RowsOf(jar[b]) : req'[r].family = x.family
<1>1. PICK sub \in Members \cup {None}, f \in Nat :
        /\ req' = [req EXCEPT ![r] = Sent(op, b, sub, jar[b], f)]
        /\ jar[b] # None => sub = jar[b].sub
        /\ f = 0 \/ \E x \in RowsOf(jar[b]) : f = x.family
  <2>1. CASE jar[b] = None
    BY <2>1 DEF SendWithCookie
  <2>2. CASE jar[b] # None
    <3>1. jar[b].sub \in Members
      BY <2>2, ConstantFacts DEF TypeOK
    <3>2. PICK f \in SessionsOf(jar[b]) :
            req' = [req EXCEPT ![r] = Sent(op, b, jar[b].sub, jar[b], f)]
      BY <2>2 DEF SendWithCookie
    <3>3. f = 0 \/ \E x \in RowsOf(jar[b]) : f = x.family
      BY DEF SessionsOf
    <3>4. f \in Nat
      BY <3>3 DEF RowsOf, TypeOK, Row
    <3> QED  BY <3>1, <3>2, <3>3, <3>4
  <2> QED  BY <2>1, <2>2
<1> DEFINE q == Sent(op, b, sub, jar[b], f)
<1>2. q \in Request
  <2>1. jar[b] \in Token \cup {None} /\ op \in {"login", "refresh", "logout"}
    BY DEF TypeOK
  <2> QED  BY <2>1, SentTyped
<1>3. /\ q.op = op /\ q.pc = "sent" /\ q.code = 0 /\ q.sub = sub /\ q.cookie = jar[b]
      /\ q.fresh = None /\ q.family = f
  BY DEF Sent
<1>4. req' = [req EXCEPT ![r] = q]
  BY <1>1
<1>5. (jar[b] # None => sub = jar[b].sub) /\ (f = 0 \/ \E x \in RowsOf(jar[b]) : f = x.family)
  BY <1>1
<1> HIDE DEF q
<1>6. Only(r) /\ req'[r] = q
  BY <1>2, <1>4, SlotBecomes
<1> QED  BY <1>3, <1>5, <1>6

LEMMA BlankStep ==
  ASSUME TypeOK, NEW r \in Requests, req' = [req EXCEPT ![r] = Blank]
  PROVE  Only(r) /\ req'[r] = Blank
BY DEF Blank, Only, TypeOK, Request, PCs

LEMMA SuspendStep ==
  ASSUME TypeOK, NEW m \in Suspendable, SetSuspended(m)
  PROVE  /\ req' \in [Requests -> Request]
         /\ \A r \in Requests :
              /\ req'[r].pc = req[r].pc /\ req'[r].code = req[r].code
              /\ req'[r].op = req[r].op /\ req'[r].sub = req[r].sub
              /\ req'[r].cookie = req[r].cookie /\ req'[r].fresh = req[r].fresh
              /\ req'[r].family = req[r].family
              /\ req'[r].barred <=>
                   req[r].barred /\ ~(req[r].sub = m /\ m \in suspended)
<1> SUFFICES ASSUME NEW r \in Requests
             PROVE  /\ req'[r] \in Request
                    /\ req'[r].pc = req[r].pc /\ req'[r].code = req[r].code
                    /\ req'[r].op = req[r].op /\ req'[r].sub = req[r].sub
                    /\ req'[r].cookie = req[r].cookie /\ req'[r].fresh = req[r].fresh
                    /\ req'[r].family = req[r].family
                    /\ req'[r].barred <=>
                         req[r].barred /\ ~(req[r].sub = m /\ m \in suspended)
  BY DEF SetSuspended
<1> DEFINE w == req[r].barred /\ ~(req[r].sub = m /\ m \in suspended)
<1>1. w \in BOOLEAN /\ req'[r] = [req[r] EXCEPT !.barred = w]
  BY DEF SetSuspended
<1>2. PICK v \in BOOLEAN : v = w /\ req'[r] = [req[r] EXCEPT !.barred = v]
  BY <1>1
<1> HIDE DEF w
<1>3. req[r] \in Request
  BY DEF TypeOK
<1>4. /\ req'[r] \in Request
      /\ req'[r].pc = req[r].pc /\ req'[r].code = req[r].code
      /\ req'[r].op = req[r].op /\ req'[r].sub = req[r].sub
      /\ req'[r].cookie = req[r].cookie /\ req'[r].fresh = req[r].fresh
      /\ req'[r].family = req[r].family /\ req'[r].barred = v
  BY <1>2, <1>3 DEF Request
<1> QED  BY <1>2, <1>4 DEF w

-----------------------------------------------------------------------------
(* Types, and what each request holds. *)

LEMMA InitTyped == Init => TypeOK /\ RequestInv
BY ConstantFacts DEF Init, TypeOK, RequestInv, RequestOK, Request, PCs, Blank

LEMMA OnlyKeepsRequests ==
  ASSUME RequestInv, NEW r \in Requests, Only(r), RequestOK(req'[r])
  PROVE  RequestInv'
BY DEF RequestInv, Only

LEMMA RequestsStep ==
  ASSUME TypeOK, RequestInv, [Next]_vars
  PROVE  req' \in [Requests -> Request] /\ RequestInv'
<1> USE ConstantFacts
<1>0. \A r \in Requests : RequestOK(req[r])
  BY DEF RequestInv
<1>1. ASSUME NEW r \in Requests, NEW b \in Browsers, NEW m \in Members, SendLogin(r, b, m)
      PROVE  Only(r) /\ RequestOK(req'[r])
  BY <1>1, LoginSent DEF RequestOK
<1>2. ASSUME NEW r \in Requests, NEW b \in Browsers, NEW op \in {"refresh", "logout"},
             SendWithCookie(r, b, op)
      PROVE  Only(r) /\ RequestOK(req'[r])
  BY <1>2, CookieStep DEF RequestOK
<1>3. ASSUME NEW r \in Requests, Deliver(r) \/ Drop(r)
      PROVE  Only(r) /\ RequestOK(req'[r])
  BY <1>3, BlankStep DEF Deliver, Drop, Blank, RequestOK
<1>4. ASSUME NEW r \in Requests, NEW code \in Codes, Answer(r, code)
      PROVE  Only(r) /\ RequestOK(req'[r])
  BY <1>0, <1>4, AnswerStep DEF RequestOK
<1>5. ASSUME NEW r \in Requests, VerifyPassword(r)
      PROVE  Only(r) /\ RequestOK(req'[r])
  BY <1>0, <1>4, <1>5, GotoStep DEF VerifyPassword, At, RequestOK, Codes, PCs
<1>6. ASSUME NEW r \in Requests, LoginMint(r) \/ RefreshMint(r)
      PROVE  Only(r) /\ RequestOK(req'[r])
  <2>1. req[r].sub \in Members
    BY <1>0, <1>6 DEF LoginMint, RefreshMint, At, RequestOK
  <2>2. Mint(r) /\ req[r].op \in {"login", "refresh"} /\ req[r].pc \in {"verified", "deleted"}
    BY <1>6 DEF LoginMint, RefreshMint, At
  <2>3. RequestOK(req[r])
    BY <1>0
  <2>4. req[r].op = "refresh" => req[r].cookie \in Token
    BY <1>6, <2>3 DEF LoginMint, RefreshMint, At, RequestOK
  <2>5. [sub |-> req[r].sub, iat |-> now].sub = req[r].sub
    OBVIOUS
  <2> QED  BY <2>1, <2>2, <2>3, <2>4, <2>5, MintStep DEF RequestOK
<1>7. ASSUME NEW r \in Requests, LoginStore(r) \/ RefreshStore(r)
      PROVE  Only(r) /\ RequestOK(req'[r])
  <2>1. RequestOK(req[r]) /\ req[r].pc = "minted" /\ req[r].op \in {"login", "refresh"}
    BY <1>0, <1>7 DEF LoginStore, RefreshStore, At
  <2>2. CASE Answer(r, 500)
    BY <1>4, <2>2 DEF Codes
  <2>3. CASE Goto(r, "stored")
    <3>1. "stored" \in PCs
      BY DEF PCs
    <3> QED  BY <2>1, <2>3, <3>1, GotoStep DEF RequestOK
  <2> QED  BY <1>7, <2>2, <2>3 DEF LoginStore, RefreshStore
<1>8. ASSUME NEW r \in Requests, RefreshVerify(r)
      PROVE  Only(r) /\ RequestOK(req'[r])
  <2>1. CASE Goto(r, "verified") /\ req[r].cookie # None
    BY <1>0, <1>8, <2>1, GotoStep DEF RefreshVerify, At, RequestOK, PCs, TypeOK, Request
  <2>2. CASE Answer(r, 401)
    BY <1>4, <2>2 DEF Codes
  <2> QED  BY <1>8, <2>1, <2>2 DEF RefreshVerify
<1>9. ASSUME NEW r \in Requests, RefreshFind(r) \/ RefreshDelete(r)
      PROVE  Only(r) /\ RequestOK(req'[r])
  <2>1. ASSUME NEW x \in refreshTokens, NEW pc \in {"found", "deleted"}, Take(r, pc, x)
        PROVE  Only(r) /\ RequestOK(req'[r])
    BY <1>0, <1>9, <2>1, TakeStep DEF RefreshFind, RefreshDelete, At, RequestOK, PCs, TypeOK
  <2> QED  BY <1>4, <1>9, <2>1 DEF RefreshFind, RefreshDelete, RowsOf, Codes
<1>10. ASSUME NEW r \in Requests, Respond(r) \/ Logout(r) \/ Fail(r)
      PROVE  Only(r) /\ RequestOK(req'[r])
  BY <1>4, <1>10 DEF Respond, Logout, Fail, Codes
<1>11. ASSUME NEW m \in Suspendable, SetSuspended(m)
      PROVE  req' \in [Requests -> Request] /\ RequestInv'
  BY <1>0, <1>11, SuspendStep DEF RequestInv, RequestOK
<1>12. CASE Tick \/ UNCHANGED vars
  BY <1>12 DEF Tick, vars, TypeOK, RequestInv
<1>13. ASSUME NEW r \in Requests, Only(r) /\ RequestOK(req'[r])
      PROVE  req' \in [Requests -> Request] /\ RequestInv'
  BY <1>13, OnlyKeepsRequests DEF Only
<1> QED
  <2>1. ASSUME NEW r \in Requests, ServerStep(r) \/ ClientStep(r) \/ Fail(r)
        PROVE  Only(r) /\ RequestOK(req'[r])
    BY <2>1, <1>1, <1>2, <1>3, <1>5, <1>6, <1>7, <1>8, <1>9, <1>10
       DEF ServerStep, Login, Refresh, ClientStep
  <2> QED  BY <2>1, <1>11, <1>12, <1>13 DEF Next

LEMMA TypedStep ==
  ASSUME TypeOK, RequestInv, [Next]_vars
  PROVE  TypeOK' /\ RequestInv'
<1> USE DEF history
<1>1. req' \in [Requests -> Request] /\ RequestInv'
  BY RequestsStep
<1>2. ASSUME NEW r \in Requests, ClientStep(r)
      PROVE  TypeOK'
  <2>1. ASSUME Deliver(r)  PROVE  jar' \in [Browsers -> Token \cup {None}]
    <3>1. req[r].fresh \in Token \cup {None}
      BY DEF TypeOK, Request
    <3> QED  BY <2>1, <3>1 DEF Deliver, TypeOK
  <2> QED
    BY <1>1, <1>2, <2>1 DEF ClientStep, SendLogin, SendWithCookie, Deliver, Drop, TypeOK
<1>3. ASSUME NEW r \in Requests,
             VerifyPassword(r) \/ RefreshVerify(r) \/ RefreshFind(r) \/ Respond(r)
      PROVE  TypeOK'
  BY <1>1, <1>3 DEF VerifyPassword, RefreshVerify, RefreshFind, Respond, TypeOK
<1>4. ASSUME NEW r \in Requests, LoginMint(r) \/ RefreshMint(r)
      PROVE  TypeOK'
  <2>1. req[r].sub \in Members
    BY <1>4, ConstantFacts DEF LoginMint, RefreshMint, At, RequestInv, RequestOK
  <2>2. [sub |-> req[r].sub, iat |-> now] \in Token
    BY <2>1 DEF TypeOK, Token
  <2> QED  BY <1>1, <1>4, <2>2 DEF LoginMint, RefreshMint, Mint, TypeOK
<1>5. ASSUME NEW r \in Requests, LoginStore(r) \/ RefreshStore(r)
      PROVE  TypeOK'
  <2>1. req[r].fresh \in Token /\ req[r].family \in Nat
    BY <1>5 DEF LoginStore, RefreshStore, At, RequestInv, RequestOK, TypeOK, Request
  <2> QED  BY <1>1, <1>5, <2>1 DEF LoginStore, RefreshStore, TypeOK, Row
<1>6. ASSUME NEW r \in Requests, RefreshDelete(r)
      PROVE  TypeOK'
  BY <1>1, <1>6 DEF RefreshDelete, RowsOf, TypeOK, Row
<1>7. ASSUME NEW r \in Requests, Logout(r)
      PROVE  TypeOK'
  <2>1. req[r].cookie \in Token \cup {None}
    BY DEF TypeOK, Request
  <2> QED  BY <1>1, <1>7, <2>1 DEF Logout, RowsOf, TypeOK, Row
<1>8. ASSUME NEW r \in Requests, Fail(r)
      PROVE  TypeOK'
  <2>1. req[r].family \in Nat
    BY DEF TypeOK, Request
  <2> QED  BY <1>1, <1>8, <2>1 DEF Fail, TypeOK
<1>9. CASE Tick \/ \E m \in Suspendable : SetSuspended(m)
  BY <1>1, <1>9, SuspendableAssumption DEF Tick, SetSuspended, TypeOK
<1>10. CASE UNCHANGED vars
  BY <1>1, <1>10 DEF vars, TypeOK
<1> QED
  BY <1>1, <1>2, <1>3, <1>4, <1>5, <1>6, <1>7, <1>8, <1>9, <1>10
     DEF Next, ServerStep, Login, Refresh

(* Type correctness. *)
THEOREM Typed == Spec => []TypeOK
<1>1. TypeOK /\ RequestInv /\ [Next]_vars => (TypeOK /\ RequestInv)'
  BY TypedStep
<1> QED  BY <1>1, InitTyped, PTL DEF Spec

-----------------------------------------------------------------------------
(***************************************************************************)
(* The sessions.  The inductive invariant adds to OneTokenPerFamily and    *)
(* SessionsEndForAReason that the token is a key of the table (so that a   *)
(* delete by token hits one session) and that every session met anywhere   *)
(* has been opened (so that a new session is really new).                  *)
(***************************************************************************)

TokenIsKey == \A x, y \in refreshTokens : x.token = y.token => x = y

KnownFamilies ==
  /\ \A x \in refreshTokens : x.family \in 1..opened
  /\ \A r \in Requests : Carrying(r) => req[r].family \in 1..opened
  /\ closed \cup lost \subseteq 1..opened

SessionInv ==
  /\ TypeOK
  /\ RequestInv
  /\ TokenIsKey
  /\ KnownFamilies
  /\ OneTokenPerFamily
  /\ SessionsEndForAReason

(* A step does one of six things to the sessions. *)
SameCarriers(S) ==
  \A s \in S :
    /\ Carrying(s)' <=> Carrying(s)
    /\ Carrying(s) => req'[s].family = req[s].family /\ req'[s].sub = req[s].sub

Quiet ==
  /\ UNCHANGED <<refreshTokens, opened, closed, lost>>
  /\ SameCarriers(Requests)

Opens(t) ==
  /\ t \in Token /\ RowsOf(t) = {}
  /\ refreshTokens' = refreshTokens \cup {[token |-> t, family |-> opened + 1]}
  /\ opened' = opened + 1
  /\ UNCHANGED <<closed, lost>>
  /\ SameCarriers(Requests)

Takes(r, x) ==
  /\ x \in refreshTokens
  /\ ~Carrying(r) /\ Carrying(r)'
  /\ req'[r].family = x.family /\ req'[r].sub = x.token.sub
  /\ refreshTokens' = refreshTokens \ {x}
  /\ UNCHANGED <<opened, closed, lost>>
  /\ SameCarriers(Requests \ {r})

Returns(r, t) ==
  /\ t \in Token /\ RowsOf(t) = {} /\ t.sub = req[r].sub
  /\ Carrying(r) /\ ~Carrying(r)'
  /\ refreshTokens' = refreshTokens \cup {[token |-> t, family |-> req[r].family]}
  /\ UNCHANGED <<opened, closed, lost>>
  /\ SameCarriers(Requests \ {r})

Loses(r) ==
  /\ Carrying(r) /\ ~Carrying(r)'
  /\ lost' = lost \cup {req[r].family}
  /\ UNCHANGED <<refreshTokens, opened, closed>>
  /\ SameCarriers(Requests \ {r})

Closes(t) ==
  /\ refreshTokens' = refreshTokens \ RowsOf(t)
  /\ closed' = closed \cup {x.family : x \in RowsOf(t)}
  /\ UNCHANGED <<opened, lost>>
  /\ SameCarriers(Requests)

StepKind ==
  \/ Quiet
  \/ \E t \in Token : Opens(t)
  \/ \E r \in Requests : \E x \in refreshTokens : Takes(r, x)
  \/ \E r \in Requests : \E t \in Token : Returns(r, t)
  \/ \E r \in Requests : Loses(r)
  \/ \E t \in Token \cup {None} : Closes(t)

(* Carrying depends on the op and the pc of the slot only. *)
LEMMA CarryingStep ==
  ASSUME NEW r \in Requests
  PROVE  Carrying(r)' <=> req'[r].op = "refresh" /\ req'[r].pc \in {"deleted", "minted"}
BY DEF Carrying

LEMMA OthersCarry ==
  ASSUME NEW r \in Requests, Only(r)
  PROVE  SameCarriers(Requests \ {r})
BY DEF Only, SameCarriers, Carrying

LEMMA QuietSlot ==
  ASSUME NEW r \in Requests, Only(r), ~Carrying(r), ~Carrying(r)'
  PROVE  SameCarriers(Requests)
BY OthersCarry DEF SameCarriers

LEMMA StepKinds ==
  ASSUME TypeOK, RequestInv, [Next]_vars
  PROVE  StepKind
<1> USE DEF history
<1>0. \A r \in Requests : RequestOK(req[r])
  BY DEF RequestInv
<1>1. ASSUME NEW r \in Requests, ClientStep(r)
      PROVE  Quiet
  <2>1. ~Carrying(r)
    BY <1>1 DEF ClientStep, SendLogin, SendWithCookie, Deliver, Drop, Blank, Carrying
  <2>2. Only(r) /\ ~Carrying(r)'
    <3>1. ASSUME NEW b \in Browsers, NEW m \in Members, SendLogin(r, b, m)
          PROVE  Only(r) /\ ~Carrying(r)'
      BY <3>1, LoginSent DEF Carrying
    <3>2. ASSUME NEW b \in Browsers, NEW op \in {"refresh", "logout"}, SendWithCookie(r, b, op)
          PROVE  Only(r) /\ ~Carrying(r)'
      BY <3>2, CookieStep DEF Carrying
    <3>3. ASSUME Deliver(r) \/ Drop(r)
          PROVE  Only(r) /\ ~Carrying(r)'
      BY <3>3, BlankStep DEF Deliver, Drop, Blank, Carrying
    <3> QED  BY <1>1, <3>1, <3>2, <3>3 DEF ClientStep
  <2>3. UNCHANGED <<refreshTokens, opened, closed, lost>>
    BY <1>1 DEF ClientStep, SendLogin, SendWithCookie, Deliver, Drop
  <2> QED  BY <2>1, <2>2, <2>3, QuietSlot DEF Quiet
<1>2. ASSUME NEW r \in Requests, NEW code \in Codes, Answer(r, code)
      PROVE  Only(r) /\ ~Carrying(r)'
  BY <1>2, AnswerStep DEF Carrying
<1>3. ASSUME NEW r \in Requests,
             VerifyPassword(r) \/ RefreshVerify(r) \/ Respond(r)
      PROVE  Quiet
  <2>1. ~Carrying(r)
    BY <1>3 DEF VerifyPassword, RefreshVerify, Respond, At, Carrying
  <2>2. Only(r) /\ ~Carrying(r)'
    BY <1>2, <1>3, GotoStep DEF VerifyPassword, RefreshVerify, Respond, Carrying, Codes, PCs
  <2> QED
    BY <1>3, <2>1, <2>2, QuietSlot DEF Quiet, VerifyPassword, RefreshVerify, Respond
<1>4. ASSUME NEW r \in Requests, RefreshFind(r)
      PROVE  Quiet
  <2>1. ~Carrying(r)
    BY <1>4 DEF RefreshFind, At, Carrying
  <2>2. Only(r) /\ ~Carrying(r)'
    <3>1. ASSUME NEW x \in Row, Take(r, "found", x)
          PROVE  Only(r) /\ ~Carrying(r)'
      BY <3>1, TakeStep DEF Carrying, PCs
    <3> QED  BY <1>2, <1>4, <3>1 DEF RefreshFind, RowsOf, TypeOK, Codes
  <2> QED  BY <1>4, <2>1, <2>2, QuietSlot DEF Quiet, RefreshFind
<1>5. ASSUME NEW r \in Requests, LoginMint(r) \/ RefreshMint(r)
      PROVE  Quiet
  <2>1. req[r].sub \in Members
    BY <1>0, <1>5, ConstantFacts DEF LoginMint, RefreshMint, At, RequestOK
  <2>2. Only(r) /\ req'[r].pc = "minted" /\ req'[r].op = req[r].op
        /\ req'[r].sub = req[r].sub /\ req'[r].family = req[r].family
    BY <1>5, <2>1, MintStep DEF LoginMint, RefreshMint
  <2>3. Carrying(r)' <=> Carrying(r)
    BY <1>5, <2>2 DEF LoginMint, RefreshMint, At, Carrying
  <2>4. SameCarriers(Requests)
    BY <2>2, <2>3, OthersCarry DEF SameCarriers
  <2> QED  BY <1>5, <2>4 DEF Quiet, LoginMint, RefreshMint
<1>6. ASSUME NEW r \in Requests, LoginStore(r)
      PROVE  Quiet \/ \E t \in Token : Opens(t)
  <2>1. ~Carrying(r) /\ req[r].fresh \in Token
    BY <1>0, <1>6 DEF LoginStore, At, Carrying, RequestOK
  <2>2. Only(r) /\ ~Carrying(r)'
    BY <1>2, <1>6, GotoStep DEF LoginStore, Carrying, Codes, PCs
  <2>3. SameCarriers(Requests)
    BY <2>1, <2>2, QuietSlot
  <2> QED  BY <1>6, <2>1, <2>3 DEF LoginStore, Quiet, Opens
<1>7. ASSUME NEW r \in Requests, RefreshDelete(r)
      PROVE  Quiet \/ \E x \in refreshTokens : Takes(r, x)
  <2>1. ~Carrying(r) /\ req[r].op = "refresh"
    BY <1>7 DEF RefreshDelete, At, Carrying
  <2>2. ASSUME NEW x \in RowsOf(req[r].cookie), Take(r, "deleted", x),
               refreshTokens' = refreshTokens \ {x}
        PROVE  Takes(r, x) /\ x \in refreshTokens
    <3>1. x \in refreshTokens /\ x \in Row /\ x.token = req[r].cookie
      BY DEF RowsOf, TypeOK
    <3>2. req[r].sub = x.token.sub
      BY <1>0, <3>1, ConstantFacts DEF RequestOK, Row
    <3>3. Only(r) /\ req'[r].pc = "deleted" /\ req'[r].family = x.family
          /\ req'[r].op = req[r].op /\ req'[r].sub = req[r].sub
      BY <2>2, <3>1, TakeStep DEF PCs
    <3>4. Carrying(r)'
      BY <2>1, <3>3 DEF Carrying
    <3> QED
      BY <1>7, <2>1, <2>2, <3>1, <3>2, <3>3, <3>4, OthersCarry DEF RefreshDelete, Takes
  <2>3. ASSUME Answer(r, 500), UNCHANGED <<refreshTokens, rotatedOut>>
        PROVE  Quiet
    BY <1>2, <1>7, <2>1, <2>3, QuietSlot DEF RefreshDelete, Quiet, Codes
  <2> QED  BY <1>7, <2>2, <2>3 DEF RefreshDelete
<1>8. ASSUME NEW r \in Requests, RefreshStore(r)
      PROVE  Loses(r) \/ \E t \in Token : Returns(r, t)
  <2>1. Carrying(r) /\ req[r].fresh \in Token /\ req[r].fresh.sub = req[r].sub
    BY <1>0, <1>8 DEF RefreshStore, At, Carrying, RequestOK
  <2>2. Only(r) /\ ~Carrying(r)'
    BY <1>2, <1>8, GotoStep DEF RefreshStore, Carrying, Codes, PCs
  <2> QED  BY <1>8, <2>1, <2>2, OthersCarry DEF RefreshStore, Loses, Returns
<1>9. ASSUME NEW r \in Requests, Logout(r)
      PROVE  \E t \in Token \cup {None} : Closes(t)
  <2>1. ~Carrying(r) /\ req[r].cookie \in Token \cup {None}
    BY <1>9 DEF Logout, At, Carrying, TypeOK, Request
  <2>2. SameCarriers(Requests)
    BY <1>2, <1>9, <2>1, QuietSlot DEF Logout, Codes
  <2> QED  BY <1>9, <2>1, <2>2 DEF Logout, Closes
<1>10. ASSUME NEW r \in Requests, Fail(r)
       PROVE  Quiet \/ Loses(r)
  <2>1. Only(r) /\ ~Carrying(r)'
    BY <1>2, <1>10 DEF Fail, Codes
  <2>2. CASE Carrying(r)
    BY <1>10, <2>1, <2>2, OthersCarry DEF Fail, Loses
  <2>3. CASE ~Carrying(r)
    BY <1>10, <2>1, <2>3, QuietSlot DEF Fail, Quiet
  <2> QED  BY <2>2, <2>3
<1>11. ASSUME NEW m \in Suspendable, SetSuspended(m)
       PROVE  Quiet
  <2>1. SameCarriers(Requests)
    BY <1>11, SuspendStep DEF SameCarriers, Carrying
  <2> QED  BY <1>11, <2>1 DEF SetSuspended, Quiet
<1>12. ASSUME Tick \/ UNCHANGED vars
       PROVE  Quiet
  <2>1. UNCHANGED <<refreshTokens, opened, closed, lost, req>>
    BY <1>12 DEF Tick, vars
  <2>2. SameCarriers(Requests)
    BY <2>1 DEF SameCarriers, Carrying
  <2> QED  BY <2>1, <2>2 DEF Quiet
<1> QED
  <2>1. ASSUME NEW r \in Requests, ServerStep(r) \/ ClientStep(r) \/ Fail(r)
        PROVE  StepKind
    <3>1. ClientStep(r) \/ VerifyPassword(r) \/ RefreshVerify(r) \/ Respond(r)
          \/ RefreshFind(r) \/ LoginMint(r) \/ RefreshMint(r) => Quiet
      BY <1>1, <1>3, <1>4, <1>5
    <3>2. LoginStore(r) => Quiet \/ \E t \in Token : Opens(t)
      BY <1>6
    <3>3. RefreshDelete(r) => Quiet \/ \E x \in refreshTokens : Takes(r, x)
      BY <1>7
    <3>4. RefreshStore(r) => Loses(r) \/ \E t \in Token : Returns(r, t)
      BY <1>8
    <3>5. Logout(r) => \E t \in Token \cup {None} : Closes(t)
      BY <1>9
    <3>6. Fail(r) => Quiet \/ Loses(r)
      BY <1>10
    <3> QED
      BY <2>1, <3>1, <3>2, <3>3, <3>4, <3>5, <3>6, Zenon
         DEF ServerStep, Login, Refresh, StepKind
  <2>2. (\E m \in Suspendable : SetSuspended(m)) \/ Tick \/ UNCHANGED vars => Quiet
    BY <1>11, <1>12
  <2> QED  BY <2>1, <2>2, Zenon DEF Next, StepKind

LEMMA InitSessions == Init => SessionInv
<1> SUFFICES ASSUME Init  PROVE SessionInv
  OBVIOUS
<1>1. \A r \in Requests : ~Carrying(r)
  BY DEF Init, Blank, Carrying
<1> QED
  BY <1>1, InitTyped DEF Init, SessionInv, TokenIsKey, KnownFamilies, OneTokenPerFamily,
     SessionsEndForAReason, Held

LEMMA SessionsStep ==
  ASSUME SessionInv, [Next]_vars
  PROVE  SessionInv'
<1> USE DEF KnownFamilies, RowsOf
<1>0. TypeOK /\ RequestInv /\ TypeOK' /\ RequestInv'
  BY TypedStep DEF SessionInv
<1>a. TokenIsKey /\ KnownFamilies /\ OneTokenPerFamily /\ SessionsEndForAReason
  BY DEF SessionInv
<1>b. opened \in Nat /\ refreshTokens \subseteq Row
  BY <1>0 DEF TypeOK
<1> DEFINE Sessions1 == TokenIsKey' /\ KnownFamilies' /\ OneTokenPerFamily'
           Sessions2 == SessionsEndForAReason'
<1>1. CASE Quiet
  <2>1. Sessions1
    BY <1>1, <1>a DEF Quiet, SameCarriers, TokenIsKey, OneTokenPerFamily
  <2>2. Sessions2
    BY <1>1, <1>a DEF Quiet, SameCarriers, SessionsEndForAReason, Held
  <2> QED  BY <1>0, <2>1, <2>2 DEF SessionInv
<1>2. ASSUME NEW t \in Token, Opens(t)
      PROVE  SessionInv'
  <2> DEFINE n == [token |-> t, family |-> opened + 1]
  <2>1. n.token = t /\ n.family = opened + 1
    OBVIOUS
  <2>2. /\ refreshTokens' = refreshTokens \cup {n} /\ opened' = opened + 1
        /\ closed' = closed /\ lost' = lost
        /\ SameCarriers(Requests)
        /\ \A x \in refreshTokens : x.token # t
    BY <1>2 DEF Opens
  <2> HIDE DEF n
  <2>3. Sessions1
    BY <1>a, <1>b, <2>1, <2>2 DEF SameCarriers, TokenIsKey, OneTokenPerFamily
  <2>4. Sessions2
    <3> SUFFICES ASSUME NEW f \in 1..(opened + 1)
                 PROVE  Held(f)' <=> f \notin closed \cup lost
      BY <2>2 DEF SessionsEndForAReason
    <3>1. CASE f = opened + 1
      BY <1>a, <1>b, <2>1, <2>2, <3>1 DEF Held
    <3>2. CASE f \in 1..opened
      <4>1. Held(f)' <=> Held(f)
        BY <1>b, <2>1, <2>2, <3>2 DEF Held, SameCarriers
      <4> QED  BY <1>a, <3>2, <4>1 DEF SessionsEndForAReason
    <3> QED  BY <1>b, <3>1, <3>2
  <2> QED  BY <1>0, <2>3, <2>4 DEF SessionInv
<1>3. ASSUME NEW r \in Requests, NEW x \in refreshTokens, Takes(r, x)
      PROVE  SessionInv'
  <2>1. Sessions1
    BY <1>3, <1>a DEF Takes, SameCarriers, TokenIsKey, OneTokenPerFamily
  <2>2. \A f \in 1..opened : Held(f)' <=> Held(f)
    BY <1>3, <1>a DEF Takes, SameCarriers, OneTokenPerFamily, Held
  <2>3. Sessions2
    BY <1>3, <1>a, <2>2 DEF Takes, SessionsEndForAReason
  <2> QED  BY <1>0, <2>1, <2>3 DEF SessionInv
<1>4. ASSUME NEW r \in Requests, NEW t \in Token, Returns(r, t)
      PROVE  SessionInv'
  <2> DEFINE n == [token |-> t, family |-> req[r].family]
  <2>1. n.token = t /\ n.family = req[r].family
    OBVIOUS
  <2>2. /\ refreshTokens' = refreshTokens \cup {n} /\ opened' = opened
        /\ closed' = closed /\ lost' = lost
        /\ SameCarriers(Requests \ {r}) /\ Carrying(r) /\ ~Carrying(r)'
        /\ \A x \in refreshTokens : x.token # t
    BY <1>4 DEF Returns
  <2> HIDE DEF n
  <2>3. Sessions1
    BY <1>a, <2>1, <2>2 DEF SameCarriers, TokenIsKey, OneTokenPerFamily
  <2>4. \A f \in 1..opened : Held(f)' <=> Held(f)
    BY <1>a, <2>1, <2>2 DEF SameCarriers, OneTokenPerFamily, Held
  <2>5. Sessions2
    BY <1>a, <2>2, <2>4 DEF SessionsEndForAReason
  <2> QED  BY <1>0, <2>3, <2>5 DEF SessionInv
<1>5. ASSUME NEW r \in Requests, Loses(r)
      PROVE  SessionInv'
  <2>1. Sessions1
    BY <1>5, <1>a DEF Loses, SameCarriers, TokenIsKey, OneTokenPerFamily
  <2>2. \A f \in 1..opened : Held(f)' <=> Held(f) /\ f # req[r].family
    BY <1>5, <1>a DEF Loses, SameCarriers, OneTokenPerFamily, Held
  <2>3. Sessions2
    BY <1>5, <1>a, <2>2 DEF Loses, SessionsEndForAReason
  <2> QED  BY <1>0, <2>1, <2>3 DEF SessionInv
<1>6. ASSUME NEW t \in Token \cup {None}, Closes(t)
      PROVE  SessionInv'
  <2>1. Sessions1
    BY <1>6, <1>a DEF Closes, SameCarriers, TokenIsKey, OneTokenPerFamily
  <2>2. \A f \in 1..opened :
          Held(f)' <=> Held(f) /\ f \notin {x.family : x \in RowsOf(t)}
    BY <1>6, <1>a DEF Closes, SameCarriers, OneTokenPerFamily, Held
  <2>3. Sessions2
    BY <1>6, <1>a, <2>2 DEF Closes, SessionsEndForAReason
  <2> QED  BY <1>0, <2>1, <2>3 DEF SessionInv
<1>7. StepKind
  BY <1>0, StepKinds
<1> QED  BY <1>1, <1>2, <1>3, <1>4, <1>5, <1>6, <1>7, Zenon DEF StepKind

LEMMA SessionsInvariant == Spec => []SessionInv
<1>1. SessionInv /\ [Next]_vars => SessionInv'
  BY SessionsStep
<1> QED  BY <1>1, InitSessions, PTL DEF Spec

(* One session, one token: for any number of concurrent refreshes, logins   *)
(* and logouts, with or without faults.                                     *)
THEOREM OneToken == Spec => []OneTokenPerFamily
<1>1. SessionInv => OneTokenPerFamily
  BY DEF SessionInv
<1> QED  BY <1>1, SessionsInvariant, PTL

(* A session is over exactly when it was logged out or its refresh failed.  *)
THEOREM EndedForAReason == Spec => []SessionsEndForAReason
<1>1. SessionInv => SessionsEndForAReason
  BY DEF SessionInv
<1> QED  BY <1>1, SessionsInvariant, PTL

-----------------------------------------------------------------------------
(* The refinement: every step opens one session, ends one, or changes none. *)

LEMMA LedgerStep ==
  ASSUME SessionInv, [Next]_vars
  PROVE  [Ledger!Next]_(Ledger!vars)
<1> USE DEF RowsOf
<1>0. TypeOK /\ RequestInv /\ TokenIsKey /\ KnownFamilies /\ OneTokenPerFamily
  BY DEF SessionInv
<1>b. opened \in Nat /\ refreshTokens \subseteq Row
  BY <1>0 DEF TypeOK
<1> DEFINE Carried(s) == [id |-> req[s].family, member |-> req[s].sub]
           Stored(x) == [id |-> x.family, member |-> x.token.sub]
<1>c. \A v : v \in LiveSessions <=>
        \/ \E x \in refreshTokens : v = Stored(x)
        \/ \E s \in Requests : Carrying(s) /\ v = Carried(s)
  BY DEF LiveSessions
<1>d. \A v : v \in LiveSessions' <=>
        \/ \E x \in refreshTokens' : v = Stored(x)
        \/ \E s \in Requests : Carrying(s)' /\ v = Carried(s)'
  BY DEF LiveSessions
<1>e. ASSUME NEW S \in SUBSET Requests, SameCarriers(S), NEW s \in S
      PROVE  (Carrying(s)' <=> Carrying(s)) /\ (Carrying(s) => Carried(s)' = Carried(s))
  BY <1>e DEF SameCarriers
<1> HIDE DEF Carried, Stored
<1>1. ASSUME Quiet
      PROVE  UNCHANGED Ledger!vars
  <2>1. LiveSessions' = LiveSessions
    BY <1>1, <1>c, <1>d, <1>e DEF Quiet
  <2> QED  BY <1>1, <2>1 DEF Quiet, Ledger!vars
<1>2. ASSUME NEW t \in Token, Opens(t)
      PROVE  Ledger!Next
  <2> DEFINE n == [token |-> t, family |-> opened + 1]
  <2>1. Stored(n) = [id |-> opened + 1, member |-> t.sub] /\ t.sub \in Members
    BY ConstantFacts DEF Stored
  <2>2. refreshTokens' = refreshTokens \cup {n} /\ SameCarriers(Requests)
    BY <1>2 DEF Opens
  <2> HIDE DEF n
  <2>3. LiveSessions' = LiveSessions \cup {Stored(n)}
    BY <2>2, <1>c, <1>d, <1>e
  <2> QED  BY <1>2, <2>1, <2>3 DEF Opens, Ledger!Next, Ledger!Open
<1>3. ASSUME NEW r \in Requests, NEW x \in refreshTokens, Takes(r, x)
      PROVE  UNCHANGED Ledger!vars
  <2>1. Carried(r)' = Stored(x)
    BY <1>3 DEF Takes, Carried, Stored
  <2>2. LiveSessions' = LiveSessions
    BY <1>3, <2>1, <1>c, <1>d, <1>e DEF Takes
  <2> QED  BY <1>3, <2>2 DEF Takes, Ledger!vars
<1>4. ASSUME NEW r \in Requests, NEW t \in Token, Returns(r, t)
      PROVE  UNCHANGED Ledger!vars
  <2> DEFINE n == [token |-> t, family |-> req[r].family]
  <2>1. Stored(n) = Carried(r)
    BY <1>4 DEF Returns, Carried, Stored
  <2>2. refreshTokens' = refreshTokens \cup {n}
    BY <1>4 DEF Returns
  <2> HIDE DEF n
  <2>3. LiveSessions' = LiveSessions
    <3>1. /\ Carrying(r) /\ ~Carrying(r)'
          /\ \A s \in Requests \ {r} :
               (Carrying(s)' <=> Carrying(s)) /\ (Carrying(s) => Carried(s)' = Carried(s))
      BY <1>4, <1>e DEF Returns
    <3>2. \A v : v \in LiveSessions' <=> v \in LiveSessions
      BY <2>1, <2>2, <3>1, <1>c, <1>d
    <3> QED  BY <3>2 DEF LiveSessions
  <2> QED  BY <1>4, <2>3 DEF Returns, Ledger!vars
<1>5. ASSUME NEW r \in Requests, Loses(r)
      PROVE  Ledger!Next
  <2>1. \A s \in Requests : s # r /\ Carrying(s) => Carried(s) # Carried(r)
    BY <1>0, <1>5 DEF Loses, OneTokenPerFamily, Carried
  <2>2. \A x \in refreshTokens : Stored(x) # Carried(r)
    BY <1>0, <1>5 DEF Loses, OneTokenPerFamily, Carried, Stored
  <2>3. Carried(r) \in LiveSessions /\ LiveSessions' = LiveSessions \ {Carried(r)}
    <3>1. /\ Carrying(r) /\ ~Carrying(r)' /\ refreshTokens' = refreshTokens
          /\ \A s \in Requests \ {r} :
               (Carrying(s)' <=> Carrying(s)) /\ (Carrying(s) => Carried(s)' = Carried(s))
      BY <1>5, <1>e DEF Loses
    <3>2. \A v : v \in LiveSessions' <=> v \in LiveSessions /\ v # Carried(r)
      BY <2>1, <2>2, <3>1, <1>c, <1>d
    <3> QED  BY <3>1, <3>2, <1>c
  <2> QED  BY <1>5, <2>3 DEF Loses, Ledger!Next, Ledger!End
<1>6. ASSUME NEW t \in Token \cup {None}, Closes(t)
      PROVE  [Ledger!Next]_(Ledger!vars)
  <2>1. CASE RowsOf(t) = {}
    <3>1. refreshTokens' = refreshTokens
      BY <1>6, <2>1 DEF Closes
    <3>2. \A v : v \in LiveSessions' <=> v \in LiveSessions
      BY <1>6, <3>1, <1>c, <1>d, <1>e DEF Closes
    <3>3. LiveSessions' = LiveSessions
      BY <3>2 DEF LiveSessions
    <3> QED  BY <1>6, <3>3 DEF Closes, Ledger!vars
  <2>2. CASE RowsOf(t) # {}
    <3>1. PICK x \in refreshTokens : x.token = t
      BY <2>2
    <3>2. refreshTokens' = refreshTokens \ {x}
      BY <1>0, <1>6, <3>1 DEF Closes, TokenIsKey
    <3>3. \A y \in refreshTokens \ {x} : Stored(y) # Stored(x)
      BY <1>0 DEF OneTokenPerFamily, Stored
    <3>4. \A s \in Requests : Carrying(s) => Carried(s) # Stored(x)
      BY <1>0 DEF OneTokenPerFamily, Carried, Stored
    <3>5. Stored(x) \in LiveSessions /\ LiveSessions' = LiveSessions \ {Stored(x)}
      BY <1>6, <3>2, <3>3, <3>4, <1>c, <1>d, <1>e DEF Closes
    <3> QED  BY <1>6, <3>5 DEF Closes, Ledger!Next, Ledger!End
  <2> QED  BY <2>1, <2>2
<1>7. StepKind
  BY <1>0, StepKinds
<1> QED  BY <1>1, <1>2, <1>3, <1>4, <1>5, <1>6, <1>7, Zenon DEF StepKind

(* The sessions implement the ledger. *)
THEOREM ImplementsLedger == Spec => LedgerSpec
<1>1. Init => Ledger!Init
  <2> SUFFICES ASSUME Init  PROVE Ledger!Init
    OBVIOUS
  <2>1. \A r \in Requests : ~Carrying(r)
    BY DEF Init, Blank, Carrying
  <2>2. LiveSessions = {}
    BY <2>1 DEF Init, LiveSessions
  <2> QED  BY <2>2 DEF Init, Ledger!Init
<1>2. SessionInv /\ [Next]_vars => [Ledger!Next]_(Ledger!vars)
  BY LedgerStep
<1> QED  BY <1>1, <1>2, SessionsInvariant, PTL DEF Spec, LedgerSpec, Ledger!Spec

-----------------------------------------------------------------------------
(***************************************************************************)
(* The tokens.  A string that was signed once goes one way: a slot holds   *)
(* it, its row is stored, the answer shows it to a browser, the browser    *)
(* sends it back, it is spent.  Until the answer arrives nobody else can   *)
(* have sent it, so its row is there; once spent it has no row.            *)
(***************************************************************************)

(* A slot holds the token it signed until its answer is delivered.          *)
Holds(r) == req[r].pc \in {"minted", "stored"} \/ req[r].code = 200

Holding(r, t) == Holds(r) /\ req[r].fresh = t

Spent(t) == t \in rotatedOut \cup loggedOut

Shown(t) ==
  \/ Spent(t)
  \/ \E b \in Browsers : jar[b] = t
  \/ \E s \in Requests : req[s].cookie = t

Stored(t) == RowsOf(t) # {}

Tracked(t) ==
  /\ Stored(t) \/ Shown(t) \/ (\E r \in Requests : Holding(r, t)) => t \in signed
  /\ t \notin reissued =>
       /\ Stored(t) => ~Spent(t)
       /\ \A r \in Requests : Holding(r, t) =>
            /\ ~Shown(t)
            /\ req[r].pc # "minted" => Stored(t)
            /\ \A s \in Requests : Holding(s, t) => s = r

CodeOK(r) ==
  /\ req[r].pc # "answered" => req[r].code = 0
  /\ Holds(r) => req[r].fresh \in Token

TokenInv ==
  /\ SessionInv
  /\ \A t \in Token : Tracked(t)
  /\ \A r \in Requests : CodeOK(r)

(* What leaves a token where it is. *)
LEMMA TrackedQuiet ==
  ASSUME NEW t \in Token, Tracked(t), t \in signed => t \in signed',
         t \in reissued => t \in reissued',
         Shown(t)' => Shown(t), Spent(t)' => Spent(t), Stored(t)' <=> Stored(t),
         \A s \in Requests : Holding(s, t)' =>
           Holding(s, t) /\ (req[s].pc = "minted" => req'[s].pc = "minted")
  PROVE  Tracked(t)'
<1>1. Stored(t)' \/ Shown(t)' \/ (\E s \in Requests : Holding(s, t)') => t \in signed'
  BY DEF Tracked
<1>2. ASSUME t \notin reissued'
      PROVE  /\ Stored(t)' => ~Spent(t)'
             /\ \A r \in Requests : Holding(r, t)' =>
                  /\ ~Shown(t)'
                  /\ req'[r].pc # "minted" => Stored(t)'
                  /\ \A s \in Requests : Holding(s, t)' => s = r
  BY <1>2 DEF Tracked
<1> QED  BY <1>1, <1>2 DEF Tracked

LEMMA OthersHold ==
  ASSUME NEW r \in Requests, Only(r), TokenInv, CodeOK(r)'
  PROVE  /\ \A s \in Requests : s # r =>
              req'[s] = req[s] /\ \A t : Holding(s, t)' <=> Holding(s, t)
         /\ \A s \in Requests : CodeOK(s)'
<1>1. \A s \in Requests : s # r => req'[s] = req[s]
  BY DEF Only
<1>2. \A s \in Requests : s # r => \A t : Holding(s, t)' <=> Holding(s, t)
  BY <1>1 DEF Holding, Holds
<1>3. \A s \in Requests : s # r => CodeOK(s)'
  BY <1>1 DEF TokenInv, CodeOK, Holds
<1> QED  BY <1>1, <1>2, <1>3

(* A step that changes a slot and no table, and signs nothing.              *)
LEMMA SlotStep ==
  ASSUME TokenInv, SessionInv', NEW r \in Requests, Only(r), CodeOK(r)',
         UNCHANGED <<refreshTokens, jar, signed, reissued, rotatedOut, loggedOut>>,
         req'[r].cookie \notin Token \/ Shown(req'[r].cookie),
         Holds(r)' => /\ Holds(r) /\ req'[r].fresh = req[r].fresh
                      /\ req[r].pc = "minted" => req'[r].pc = "minted"
  PROVE  TokenInv'
<1>1. \A s \in Requests : CodeOK(s)'
  BY OthersHold
<1>2. ASSUME NEW t \in Token  PROVE Tracked(t)'
  <2>1. Spent(t)' <=> Spent(t)
    BY DEF Spent
  <2>2. Stored(t)' <=> Stored(t)
    BY DEF Stored, RowsOf
  <2>3. Shown(t)' => Shown(t)
    <3>1. ASSUME NEW s \in Requests, req'[s].cookie = t  PROVE Shown(t)
      BY <3>1, OthersHold DEF Shown
    <3> QED  BY <2>1, <3>1 DEF Shown
  <2>4. \A s \in Requests : Holding(s, t)' =>
          Holding(s, t) /\ (req[s].pc = "minted" => req'[s].pc = "minted")
    BY OthersHold DEF Holding
  <2>5. Tracked(t)
    BY DEF TokenInv
  <2> QED  BY <2>1, <2>2, <2>3, <2>4, <2>5, TrackedQuiet
<1> QED  BY <1>1, <1>2 DEF TokenInv

(* A step that stops or ends a request without a token.                     *)
LEMMA AnswerTokens ==
  ASSUME TokenInv, SessionInv', NEW r \in Requests, NEW code \in Codes, Answer(r, code),
         code = 200 => req[r].pc = "stored",
         UNCHANGED <<refreshTokens, jar, signed, reissued, rotatedOut, loggedOut>>
  PROVE  TokenInv'
<1>1. TypeOK /\ RequestInv /\ CodeOK(r) /\ req[r].cookie \in Token \cup {None}
  BY DEF TokenInv, SessionInv, TypeOK, Request
<1>2. /\ Only(r) /\ req'[r].pc = "answered" /\ req'[r].code = code
      /\ req'[r].cookie = req[r].cookie /\ req'[r].fresh = req[r].fresh
  BY <1>1, AnswerStep
<1>3. CodeOK(r)'
  BY <1>1, <1>2 DEF CodeOK, Holds
<1>4. req'[r].cookie \notin Token \/ Shown(req'[r].cookie)
  BY <1>2 DEF Shown
<1>5. Holds(r)' => /\ Holds(r) /\ req'[r].fresh = req[r].fresh
                   /\ req[r].pc = "minted" => req'[r].pc = "minted"
  BY <1>2 DEF Holds
<1> QED  BY <1>2, <1>3, <1>4, <1>5, SlotStep

LEMMA GotoTokens ==
  ASSUME TokenInv, SessionInv', NEW r \in Requests, Only(r),
         req[r].pc # "answered", req'[r].pc \in {"verified", "found"},
         req'[r].code = req[r].code, req'[r].cookie = req[r].cookie,
         UNCHANGED <<refreshTokens, jar, signed, reissued, rotatedOut, loggedOut>>
  PROVE  TokenInv'
<1>1. req'[r].code = 0
  BY DEF TokenInv, CodeOK
<1>2. ~Holds(r)'
  BY <1>1 DEF Holds
<1>3. CodeOK(r)'
  BY <1>1, <1>2 DEF CodeOK
<1>4. req'[r].cookie \notin Token \/ Shown(req'[r].cookie)
  BY DEF Shown
<1> QED  BY <1>2, <1>3, <1>4, SlotStep

LEMMA ClientTokens ==
  ASSUME TokenInv, SessionInv', NEW r \in Requests, ClientStep(r)
  PROVE  TokenInv'
<1>1. TypeOK /\ RequestInv /\ CodeOK(r) /\ req[r] \in Request
  BY DEF TokenInv, SessionInv, TypeOK
<1>2. ASSUME Only(r), req'[r].pc \in {"idle", "sent"}, req'[r].code = 0,
             req'[r].cookie = None \/ Shown(req'[r].cookie),
             UNCHANGED <<refreshTokens, jar, signed, reissued, rotatedOut, loggedOut>>
      PROVE  TokenInv'
  <2>1. ~Holds(r)' /\ CodeOK(r)'
    BY <1>2 DEF Holds, CodeOK
  <2> QED  BY <1>2, <2>1, SlotStep, ConstantFacts
<1>3. ASSUME NEW b \in Browsers, NEW m \in Members, SendLogin(r, b, m)
      PROVE  TokenInv'
  <2>1. /\ Only(r) /\ req'[r].pc = "sent" /\ req'[r].code = 0
        /\ req'[r].cookie = None
    BY <1>1, <1>3, LoginSent
  <2> QED  BY <1>2, <1>3, <2>1 DEF SendLogin, history
<1>4. ASSUME NEW b \in Browsers, NEW op \in {"refresh", "logout"}, SendWithCookie(r, b, op)
      PROVE  TokenInv'
  <2>1. /\ Only(r) /\ req'[r].pc = "sent" /\ req'[r].code = 0
        /\ req'[r].cookie = jar[b]
    BY <1>1, <1>4, CookieStep
  <2>2. Shown(req'[r].cookie)
    BY <2>1 DEF Shown
  <2> QED  BY <1>2, <1>4, <2>1, <2>2 DEF SendWithCookie, history
<1>5. ASSUME Drop(r)
      PROVE  TokenInv'
  <2>1. Only(r) /\ req'[r] = Blank
    BY <1>1, <1>5, BlankStep DEF Drop
  <2> QED  BY <1>2, <1>5, <2>1 DEF Drop, Blank, history
<1>6. ASSUME Deliver(r)
      PROVE  TokenInv'
  <2>1. Only(r) /\ req'[r] = Blank
    BY <1>1, <1>6, BlankStep DEF Deliver
  <2>2. ~Holds(r)' /\ CodeOK(r)' /\ req'[r].cookie = None
    BY <2>1 DEF Holds, CodeOK, Blank
  <2>3. \A s \in Requests : CodeOK(s)'
    BY <2>1, <2>2, OthersHold
  <2>4. UNCHANGED <<refreshTokens, signed, reissued, rotatedOut, loggedOut>>
    BY <1>6 DEF Deliver, history
  <2>5. ASSUME NEW t \in Token  PROVE Tracked(t)'
    <3>1. (Spent(t)' <=> Spent(t)) /\ (Stored(t)' <=> Stored(t))
      BY <2>4 DEF Spent, Stored, RowsOf
    <3>2. \A s \in Requests : req'[s].cookie = t => Shown(t)
      BY <2>1, <2>2, OthersHold, ConstantFacts DEF Shown
    <3>3. \A s \in Requests : Holding(s, t)' => Holding(s, t) /\ s # r /\ req'[s] = req[s]
      BY <2>1, <2>2, OthersHold DEF Holding
    <3>4. Tracked(t)
      BY DEF TokenInv
    <3>5. CASE Holding(r, t) /\ req[r].code = 200
      <4>1. t \in signed'
        BY <2>4, <3>4, <3>5 DEF Tracked
      <4>2. t \notin reissued =>
              /\ Stored(t) => ~Spent(t)
              /\ \A s \in Requests : ~Holding(s, t)'
        BY <3>3, <3>4, <3>5 DEF Tracked
      <4> QED  BY <2>4, <3>1, <4>1, <4>2 DEF Tracked
    <3>6. CASE ~(Holding(r, t) /\ req[r].code = 200)
      <4>1. \A b \in Browsers : jar'[b] = t => jar[b] = t
        BY <1>1, <1>6, <3>6, ConstantFacts DEF Deliver, Holding, Holds, TypeOK, Request
      <4>2. Shown(t)' => Shown(t)
        BY <3>1, <3>2, <4>1 DEF Shown
      <4> QED  BY <2>4, <3>1, <3>3, <3>4, <4>2, TrackedQuiet
    <3> QED  BY <3>5, <3>6
  <2> QED  BY <2>3, <2>5 DEF TokenInv
<1> QED  BY <1>3, <1>4, <1>5, <1>6 DEF ClientStep

LEMMA MintTokens ==
  ASSUME TokenInv, SessionInv', NEW r \in Requests, LoginMint(r) \/ RefreshMint(r)
  PROVE  TokenInv'
<1> DEFINE t0 == [sub |-> req[r].sub, iat |-> now]
<1>1. TypeOK /\ RequestInv /\ CodeOK(r) /\ Mint(r)
  BY DEF TokenInv, SessionInv, LoginMint, RefreshMint
<1>2. req[r].sub \in Members
  BY <1>1, ConstantFacts DEF LoginMint, RefreshMint, At, RequestInv, RequestOK
<1>3. /\ Only(r) /\ t0 \in Token /\ req'[r].pc = "minted" /\ req'[r].fresh = t0
      /\ req'[r].cookie = req[r].cookie /\ req'[r].code = req[r].code
  BY <1>1, <1>2, MintStep
<1>4. /\ UNCHANGED <<refreshTokens, jar, rotatedOut, loggedOut>>
      /\ signed' = signed \cup {t0}
      /\ reissued' = IF t0 \in signed THEN reissued \cup {t0} ELSE reissued
  BY DEF LoginMint, RefreshMint, Mint
<1> HIDE DEF t0
<1>5. CodeOK(r)'
  <2>1. req[r].code = 0
    BY <1>1 DEF LoginMint, RefreshMint, At, CodeOK
  <2> QED  BY <1>3, <2>1 DEF CodeOK
<1>6. \A s \in Requests : CodeOK(s)'
  BY <1>3, <1>5, OthersHold
<1>7. ASSUME NEW t \in Token  PROVE Tracked(t)'
  <2>1. (Spent(t)' <=> Spent(t)) /\ (Stored(t)' <=> Stored(t))
    BY <1>4 DEF Spent, Stored, RowsOf
  <2>2. \A s \in Requests : req'[s].cookie = req[s].cookie
    BY <1>3, <1>5, OthersHold
  <2>3. Shown(t)' <=> Shown(t)
    BY <1>4, <2>1, <2>2 DEF Shown
  <2>4. \A s \in Requests : s # r => (Holding(s, t)' <=> Holding(s, t)) /\ req'[s] = req[s]
    BY <1>3, <1>5, OthersHold
  <2>5. Tracked(t)
    BY DEF TokenInv
  <2>6. CASE t # t0
    <3>1. ~Holding(r, t)'
      BY <1>3, <2>6 DEF Holding
    <3> QED  BY <1>4, <2>1, <2>3, <2>4, <2>5, <3>1, TrackedQuiet
  <2>7. CASE t = t0 /\ t \in signed
    BY <1>4, <2>7 DEF Tracked
  <2>8. CASE t = t0 /\ t \notin signed
    <3>1. ~Stored(t) /\ ~Shown(t) /\ \A s \in Requests : ~Holding(s, t)
      BY <2>5, <2>8 DEF Tracked
    <3>2. ~Stored(t)' /\ ~Shown(t)' /\ t \in signed'
      BY <1>4, <2>1, <2>3, <2>8, <3>1
    <3>3. \A s \in Requests : Holding(s, t)' => s = r
      BY <2>4, <3>1
    <3> QED  BY <1>3, <3>2, <3>3 DEF Tracked
  <2> QED  BY <2>6, <2>7, <2>8
<1> QED  BY <1>6, <1>7 DEF TokenInv

LEMMA StoreTokens ==
  ASSUME TokenInv, SessionInv', NEW r \in Requests, LoginStore(r) \/ RefreshStore(r)
  PROVE  TokenInv'
<1>1. /\ TypeOK /\ RequestInv /\ CodeOK(r) /\ req[r].pc = "minted" /\ req[r].code = 0
      /\ UNCHANGED <<jar, signed, reissued, rotatedOut, loggedOut>>
  BY DEF TokenInv, SessionInv, LoginStore, RefreshStore, At, CodeOK
<1>2. CASE Answer(r, 500) /\ UNCHANGED refreshTokens
  BY <1>1, <1>2, AnswerTokens DEF Codes
<1>3. ASSUME NEW f, Goto(r, "stored"),
             refreshTokens' = refreshTokens \cup {[token |-> req[r].fresh, family |-> f]}
      PROVE  TokenInv'
  <2> DEFINE t0 == req[r].fresh
             n == [token |-> t0, family |-> f]
  <2>1. /\ Only(r) /\ req'[r].pc = "stored" /\ req'[r].fresh = t0
        /\ req'[r].cookie = req[r].cookie /\ req'[r].code = 0
    BY <1>1, <1>3, GotoStep DEF PCs
  <2>2. t0 \in Token /\ Holding(r, t0)
    BY <1>1 DEF CodeOK, Holds, Holding
  <2>3. CodeOK(r)'
    BY <2>1, <2>2 DEF CodeOK
  <2>4. \A s \in Requests : CodeOK(s)'
    BY <2>1, <2>3, OthersHold
  <2>5. n.token = t0 /\ refreshTokens' = refreshTokens \cup {n}
    BY <1>3
  <2> HIDE DEF t0, n
  <2>6. ASSUME NEW t \in Token  PROVE Tracked(t)'
    <3>1. /\ Spent(t)' <=> Spent(t)
          /\ Stored(t)' <=> Stored(t) \/ t = t0
      BY <1>1, <2>5 DEF Spent, Stored, RowsOf
    <3>2. \A s \in Requests : req'[s].cookie = req[s].cookie
      BY <2>1, <2>3, OthersHold
    <3>3. Shown(t)' <=> Shown(t)
      BY <1>1, <3>1, <3>2 DEF Shown
    <3>4. \A s \in Requests : s # r => (Holding(s, t)' <=> Holding(s, t)) /\ req'[s] = req[s]
      BY <2>1, <2>3, OthersHold
    <3>5. Tracked(t)
      BY DEF TokenInv
    <3>6. CASE t # t0
      <4>1. ~Holding(r, t)'
        BY <2>1, <3>6 DEF Holding
      <4> QED  BY <1>1, <3>1, <3>3, <3>4, <3>5, <3>6, <4>1, TrackedQuiet
    <3>7. CASE t = t0
      <4>1. t \in signed'
        BY <1>1, <2>2, <3>5, <3>7 DEF Tracked
      <4>2. t \notin reissued =>
              ~Shown(t) /\ ~Spent(t) /\ \A s \in Requests : Holding(s, t) => s = r
        BY <2>2, <3>5, <3>7 DEF Tracked, Shown
      <4>3. Stored(t)'
        BY <3>1, <3>7
      <4>4. t \notin reissued' =>
              ~Shown(t)' /\ ~Spent(t)' /\ \A s \in Requests : Holding(s, t)' => s = r
        BY <1>1, <3>1, <3>3, <3>4, <4>2
      <4> QED  BY <4>1, <4>3, <4>4 DEF Tracked
    <3> QED  BY <3>6, <3>7
  <2> QED  BY <2>4, <2>6 DEF TokenInv
<1> QED  BY <1>2, <1>3 DEF LoginStore, RefreshStore

(* A token that comes back loses its row and is spent.                      *)
LEMMA SpendTokens ==
  ASSUME TokenInv, SessionInv', NEW r \in Requests, Only(r),
         UNCHANGED <<jar, signed, reissued>>,
         req'[r].cookie = req[r].cookie, CodeOK(r)', ~Holds(r)',
         refreshTokens' = refreshTokens \ RowsOf(req[r].cookie),
         rotatedOut' \cup loggedOut' \subseteq rotatedOut \cup loggedOut \cup {req[r].cookie}
  PROVE  TokenInv'
<1>1. \A s \in Requests : CodeOK(s)'
  BY OthersHold
<1>2. ASSUME NEW t \in Token  PROVE Tracked(t)'
  <2>1. \A s \in Requests : Holding(s, t)' => Holding(s, t) /\ req'[s] = req[s]
    BY OthersHold DEF Holding
  <2>2. \A s \in Requests : req'[s].cookie = req[s].cookie
    BY OthersHold
  <2>3. Spent(t)' => Spent(t) \/ t = req[r].cookie
    BY DEF Spent
  <2>4. Shown(t)' => Shown(t)
    BY <2>2, <2>3 DEF Shown
  <2>5. Tracked(t)
    BY DEF TokenInv
  <2>6. CASE t # req[r].cookie
    <3>1. Stored(t)' <=> Stored(t)
      BY <2>6 DEF Stored, RowsOf
    <3>2. Spent(t)' => Spent(t)
      BY <2>3, <2>6
    <3> QED  BY <2>1, <2>4, <2>5, <3>1, <3>2, TrackedQuiet
  <2>7. CASE t = req[r].cookie
    <3>1. ~Stored(t)'
      BY <2>7 DEF Stored, RowsOf
    <3>2. Shown(t)
      BY <2>7 DEF Shown
    <3>3. t \in signed'
      BY <2>5, <3>2 DEF Tracked
    <3>4. t \notin reissued => \A s \in Requests : ~Holding(s, t)'
      BY <2>1, <2>5, <3>2 DEF Tracked
    <3> QED  BY <3>1, <3>3, <3>4 DEF Tracked
  <2> QED  BY <2>6, <2>7
<1> QED  BY <1>1, <1>2 DEF TokenInv

LEMMA TokensStep ==
  ASSUME TokenInv, [Next]_vars
  PROVE  TokenInv'
<1>0. TypeOK /\ RequestInv /\ TokenIsKey /\ SessionInv' /\ \A r \in Requests : CodeOK(r)
  BY SessionsStep DEF TokenInv, SessionInv
<1>1. ASSUME NEW r \in Requests, VerifyPassword(r) \/ RefreshVerify(r)
      PROVE  TokenInv'
  <2>1. /\ UNCHANGED <<refreshTokens, jar, signed, reissued, rotatedOut, loggedOut>>
        /\ req[r].pc = "sent"
    BY <1>1 DEF VerifyPassword, RefreshVerify, At, history
  <2>2. CASE Goto(r, "verified")
    BY <1>0, <2>1, <2>2, GotoStep, GotoTokens DEF PCs
  <2>3. ASSUME NEW code \in {401, 403}, Answer(r, code)  PROVE TokenInv'
    BY <1>0, <2>1, <2>3, AnswerTokens DEF Codes
  <2> QED  BY <1>1, <2>2, <2>3 DEF VerifyPassword, RefreshVerify
<1>2. ASSUME NEW r \in Requests, RefreshFind(r)
      PROVE  TokenInv'
  <2>1. /\ UNCHANGED <<refreshTokens, jar, signed, reissued, rotatedOut, loggedOut>>
        /\ req[r].pc = "verified"
    BY <1>2 DEF RefreshFind, At, history
  <2>2. ASSUME NEW x \in Row, Take(r, "found", x)  PROVE TokenInv'
    BY <1>0, <2>1, <2>2, TakeStep, GotoTokens DEF PCs
  <2>3. CASE Answer(r, 401)
    BY <1>0, <2>1, <2>3, AnswerTokens DEF Codes
  <2> QED  BY <1>0, <1>2, <2>2, <2>3 DEF RefreshFind, RowsOf, TypeOK
<1>3. ASSUME NEW r \in Requests, RefreshDelete(r)
      PROVE  TokenInv'
  <2>1. CASE Answer(r, 500) /\ UNCHANGED <<refreshTokens, rotatedOut>>
    BY <1>0, <1>3, <2>1, AnswerTokens DEF RefreshDelete, Codes
  <2>2. ASSUME NEW x \in RowsOf(req[r].cookie), refreshTokens' = refreshTokens \ {x},
               rotatedOut' = rotatedOut \cup {x.token}, Take(r, "deleted", x)
        PROVE  TokenInv'
    <3>1. x \in Row /\ x \in refreshTokens /\ x.token = req[r].cookie
      BY <1>0 DEF RowsOf, TypeOK
    <3>2. /\ Only(r) /\ req'[r].pc = "deleted" /\ req'[r].code = req[r].code
          /\ req'[r].cookie = req[r].cookie
      BY <1>0, <2>2, <3>1, TakeStep DEF PCs
    <3>3. req[r].code = 0
      BY <1>0, <1>3 DEF RefreshDelete, At, CodeOK
    <3>4. CodeOK(r)' /\ ~Holds(r)'
      BY <3>2, <3>3 DEF CodeOK, Holds
    <3>5. RowsOf(req[r].cookie) = {x}
      BY <1>0, <3>1 DEF RowsOf, TokenIsKey
    <3>6. UNCHANGED <<jar, signed, reissued, loggedOut>>
      BY <1>3 DEF RefreshDelete
    <3> QED  BY <1>0, <2>2, <3>1, <3>2, <3>4, <3>5, <3>6, SpendTokens
  <2> QED  BY <1>3, <2>1, <2>2 DEF RefreshDelete
<1>4. ASSUME NEW r \in Requests, Logout(r)
      PROVE  TokenInv'
  <2>1. /\ Only(r) /\ req'[r].pc = "answered" /\ req'[r].code = 204
        /\ req'[r].cookie = req[r].cookie
    BY <1>0, <1>4, AnswerStep DEF Logout, Codes
  <2>2. CodeOK(r)' /\ ~Holds(r)'
    BY <2>1 DEF CodeOK, Holds
  <2>3. loggedOut' \subseteq loggedOut \cup {req[r].cookie}
    BY <1>4 DEF Logout
  <2> QED  BY <1>0, <1>4, <2>1, <2>2, <2>3, SpendTokens DEF Logout
<1>5. ASSUME NEW r \in Requests, Respond(r) \/ Fail(r)
      PROVE  TokenInv'
  <2>1. CASE Respond(r)
    BY <1>0, <2>1, AnswerTokens DEF Respond, Codes, history
  <2>2. CASE Fail(r)
    BY <1>0, <2>2, AnswerTokens DEF Fail, Codes
  <2> QED  BY <1>5, <2>1, <2>2
<1>6. CASE (\E m \in Suspendable : SetSuspended(m)) \/ Tick \/ UNCHANGED vars
  <2>1. UNCHANGED <<refreshTokens, jar, signed, reissued, rotatedOut, loggedOut>>
    BY <1>6 DEF SetSuspended, Tick, vars, history
  <2>2. \A s \in Requests :
          /\ req'[s].pc = req[s].pc /\ req'[s].code = req[s].code
          /\ req'[s].cookie = req[s].cookie /\ req'[s].fresh = req[s].fresh
    BY <1>0, <1>6, SuspendStep DEF Tick, vars
  <2>3. \A t : /\ Spent(t)' <=> Spent(t)
               /\ Stored(t)' <=> Stored(t)
               /\ Shown(t)' <=> Shown(t)
    BY <2>1, <2>2 DEF Spent, Stored, RowsOf, Shown
  <2>4. \A s \in Requests : CodeOK(s)' /\ \A t : Holding(s, t)' <=> Holding(s, t)
    BY <1>0, <2>2 DEF CodeOK, Holds, Holding
  <2>5. ASSUME NEW t \in Token  PROVE Tracked(t)'
    <3>1. Tracked(t)
      BY DEF TokenInv
    <3> QED  BY <2>1, <2>2, <2>3, <2>4, <3>1, TrackedQuiet
  <2> QED  BY <1>0, <2>4, <2>5 DEF TokenInv
<1> QED
  BY <1>0, <1>1, <1>2, <1>3, <1>4, <1>5, <1>6, ClientTokens, MintTokens, StoreTokens, Zenon
     DEF Next, ServerStep, Login, Refresh

LEMMA InitTokens == Init => TokenInv
<1> SUFFICES ASSUME Init  PROVE TokenInv
  OBVIOUS
<1>1. SessionInv
  BY InitSessions
<1>2. \A r \in Requests : /\ req[r].pc = "idle" /\ req[r].code = 0 /\ req[r].cookie = None
                          /\ ~Holds(r) /\ CodeOK(r)
  BY DEF Init, Blank, Holds, CodeOK
<1>3. \A t \in Token : ~Stored(t) /\ ~Shown(t) /\ \A r \in Requests : ~Holding(r, t)
  BY <1>2, ConstantFacts DEF Init, Stored, RowsOf, Shown, Spent, Holding
<1>4. \A t \in Token : Tracked(t)
  BY <1>3 DEF Tracked
<1> QED  BY <1>1, <1>2, <1>4 DEF TokenInv

LEMMA TokensInvariant == Spec => []TokenInv
<1>1. TokenInv /\ [Next]_vars => TokenInv'
  BY TokensStep
<1> QED  BY <1>1, InitTokens, PTL DEF Spec

(* A refresh token that was rotated out or logged out is not a row again,   *)
(* unless its string was signed twice.                                      *)
THEOREM StaysSpent == Spec => []SpentStaysSpent
<1>1. TokenInv => SpentStaysSpent
  <2> SUFFICES ASSUME TokenInv, NEW x \in refreshTokens, x.token \in rotatedOut \cup loggedOut
               PROVE  x.token \in reissued
    BY DEF SpentStaysSpent
  <2>1. PICK t \in Token : t = x.token
    BY DEF TokenInv, SessionInv, TypeOK, Row
  <2>2. Stored(t) /\ Spent(t)
    BY <2>1 DEF Stored, RowsOf, Spent
  <2>3. Tracked(t)
    BY DEF TokenInv
  <2> QED  BY <2>1, <2>2, <2>3 DEF Tracked
<1> QED  BY <1>1, TokensInvariant, PTL

(* The token of an answer under way has its row, so the browser can use it. *)
THEOREM TokenIsLive == Spec => []AnsweredTokenIsLive
<1>1. TokenInv => AnsweredTokenIsLive
  <2> SUFFICES ASSUME TokenInv, NEW r \in Requests, req[r].pc = "stored" \/ req[r].code = 200
               PROVE  RowsOf(req[r].fresh) # {} \/ req[r].fresh \in reissued
    BY DEF AnsweredTokenIsLive
  <2>1. CodeOK(r) /\ Holds(r) /\ req[r].pc # "minted"
    BY DEF TokenInv, CodeOK, Holds
  <2>2. PICK t \in Token : t = req[r].fresh
    BY <2>1 DEF CodeOK
  <2>3. Tracked(t) /\ Holding(r, t)
    BY <2>1, <2>2 DEF TokenInv, Holding
  <2> QED  BY <2>1, <2>2, <2>3 DEF Tracked, Stored
<1> QED  BY <1>1, TokensInvariant, PTL

-----------------------------------------------------------------------------
(***************************************************************************)
(* The cookies.  A token that a browser has, or is about to get, is a row  *)
(* until it is spent; what that makes of the answers 401 and 204 follows   *)
(* from the row only ever leaving the table in one of two ways.            *)
(***************************************************************************)

(* An answer has the token in its cookie, or soon will. *)
Gives(r) == req[r].pc = "stored" \/ req[r].code = 200

Given(t) ==
  \/ \E b \in Browsers : jar[b] = t
  \/ \E s \in Requests : req[s].cookie = t \/ (Gives(s) /\ req[s].fresh = t)

Known(t) == Given(t) => Stored(t) \/ Spent(t)

Settled(r) == req[r].cookie \in rotatedOut \/ req[r].family \in closed

AnswersOK(r) ==
  /\ req[r].op = "refresh" /\ req[r].code = 401 =>
       req[r].cookie = None \/ JwtExpired(req[r].cookie) \/ Spent(req[r].cookie)
  /\ req[r].op = "logout" /\ req[r].family # 0 =>
       /\ req[r].family \in 1..opened
       /\ req[r].pc = "sent" =>
            \/ \E x \in refreshTokens : x.token = req[r].cookie /\ x.family = req[r].family
            \/ Settled(r)
       /\ req[r].code = 204 => Settled(r)

CookieInv ==
  /\ TokenInv
  /\ \A t \in Token : Known(t)
  /\ \A r \in Requests : AnswersOK(r)

(* A row leaves the table rotated out, or logged out with its session.      *)
Onward ==
  /\ opened <= opened' /\ now <= now'
  /\ closed \subseteq closed' /\ rotatedOut \subseteq rotatedOut' /\ loggedOut \subseteq loggedOut'
  /\ \A x \in refreshTokens :
       \/ x \in refreshTokens' \/ x.token \in rotatedOut'
       \/ x.token \in loggedOut' /\ x.family \in closed'

LEMMA OnwardStep ==
  ASSUME TokenInv, [Next]_vars
  PROVE  Onward
<1>0. TypeOK /\ opened \in Nat /\ now \in Nat /\ refreshTokens \subseteq Row
  BY DEF TokenInv, SessionInv, TypeOK
<1>1. ASSUME NEW r \in Requests, ClientStep(r)  PROVE Onward
  BY <1>0, <1>1
     DEF ClientStep, SendLogin, SendWithCookie, Deliver, Drop, history, Onward
<1>2. ASSUME NEW r \in Requests, Login(r) \/ Respond(r) \/ Fail(r)  PROVE Onward
  BY <1>0, <1>2
     DEF Login, VerifyPassword, LoginMint, LoginStore, Respond, Fail, history, Onward
<1>3. ASSUME NEW r \in Requests,
             RefreshVerify(r) \/ RefreshFind(r) \/ RefreshMint(r) \/ RefreshStore(r)
      PROVE  Onward
  BY <1>0, <1>3 DEF RefreshVerify, RefreshFind, RefreshMint, RefreshStore, history, Onward
<1>4. ASSUME NEW r \in Requests, RefreshDelete(r)  PROVE Onward
  BY <1>0, <1>4 DEF RefreshDelete, RowsOf, Onward
<1>5. ASSUME NEW r \in Requests, Logout(r)  PROVE Onward
  <2>1. \A x \in RowsOf(req[r].cookie) : x.token = req[r].cookie /\ x.token # None
    BY <1>0, ConstantFacts DEF RowsOf, Row
  <2> QED  BY <1>0, <1>5, <2>1 DEF Logout, Onward
<1>6. CASE (\E m \in Suspendable : SetSuspended(m)) \/ Tick \/ UNCHANGED vars
  BY <1>0, <1>6 DEF SetSuspended, Tick, vars, history, Onward
<1> QED  BY <1>1, <1>2, <1>3, <1>4, <1>5, <1>6 DEF Next, ServerStep, Refresh

LEMMA KnownKept ==
  ASSUME Onward, NEW t \in Token, Known(t), Given(t)' => Given(t) \/ Stored(t)' \/ Spent(t)'
  PROVE  Known(t)'
<1>1. Spent(t) => Spent(t)'
  BY DEF Onward, Spent
<1>2. Stored(t) => Stored(t)' \/ Spent(t)'
  BY DEF Onward, Stored, RowsOf, Spent
<1> QED  BY <1>1, <1>2 DEF Known

LEMMA AnswersKept ==
  ASSUME TokenInv, Onward, TypeOK', NEW s \in Requests, AnswersOK(s),
         req'[s].op = req[s].op, req'[s].pc = req[s].pc, req'[s].code = req[s].code,
         req'[s].cookie = req[s].cookie, req'[s].family = req[s].family
  PROVE  AnswersOK(s)'
<1>1. /\ req[s].cookie \in Token \cup {None}
      /\ opened \in Nat /\ opened' \in Nat /\ now \in Nat /\ now' \in Nat /\ TTL \in Nat
  BY BoundAssumption DEF TokenInv, SessionInv, TypeOK, Request
<1>2. req[s].cookie # None /\ JwtExpired(req[s].cookie) => JwtExpired(req[s].cookie)'
  <2> SUFFICES ASSUME req[s].cookie \in Token, now >= req[s].cookie.iat + TTL
               PROVE  now' >= req'[s].cookie.iat + TTL
    BY <1>1 DEF JwtExpired
  <2>1. req[s].cookie.iat \in Nat /\ now <= now'
    BY DEF Token, Onward
  <2> QED  BY <1>1, <2>1
<1>3. Spent(req[s].cookie) => Spent(req[s].cookie)'
  BY DEF Onward, Spent
<1>4. Settled(s) => Settled(s)'
  BY DEF Onward, Settled
<1>5. ASSUME NEW x \in refreshTokens, x.token = req[s].cookie, x.family = req[s].family
      PROVE  x \in refreshTokens' \/ Settled(s)'
  BY <1>5 DEF Onward, Settled
<1>6. req[s].family \in 1..opened => req'[s].family \in 1..opened'
  BY <1>1 DEF Onward
<1>7. req'[s].op = "refresh" /\ req'[s].code = 401 =>
        (req[s].cookie = None \/ JwtExpired(req[s].cookie) \/ Spent(req[s].cookie))'
  BY <1>2, <1>3 DEF AnswersOK
<1> QED  BY <1>4, <1>5, <1>6, <1>7 DEF AnswersOK

LEMMA CookieSlot ==
  ASSUME CookieInv, TokenInv', Onward, NEW r \in Requests, Only(r), AnswersOK(r)',
         UNCHANGED jar,
         \/ req'[r].cookie \in {req[r].cookie, None}
         \/ \E b \in Browsers : req'[r].cookie = jar[b],
         Gives(r)' => \/ Gives(r) /\ req'[r].fresh = req[r].fresh
                      \/ \E x \in refreshTokens' : x.token = req'[r].fresh
  PROVE  CookieInv'
<1>1. ASSUME NEW s \in Requests  PROVE AnswersOK(s)'
  <2>1. CASE s = r
    BY <2>1
  <2>2. CASE s # r
    <3>1. req'[s] = req[s] /\ AnswersOK(s) /\ TypeOK' /\ TokenInv
      BY <2>2 DEF Only, CookieInv, TokenInv, SessionInv
    <3> QED  BY <3>1, AnswersKept
  <2> QED  BY <2>1, <2>2
<1>2. ASSUME NEW t \in Token  PROVE Known(t)'
  <2>1. ASSUME NEW s \in Requests, s # r
        PROVE  req'[s].cookie = req[s].cookie /\ req'[s].fresh = req[s].fresh
               /\ (Gives(s)' <=> Gives(s))
    BY <2>1 DEF Only, Gives
  <2>2. req'[r].cookie = t => Given(t)
    BY ConstantFacts DEF Given
  <2>3. Gives(r)' /\ req'[r].fresh = t => Given(t) \/ Stored(t)'
    BY DEF Given, Stored, RowsOf
  <2>4. Given(t)' => Given(t) \/ Stored(t)'
    BY <2>1, <2>2, <2>3 DEF Given
  <2> QED  BY <2>4, KnownKept DEF CookieInv
<1> QED  BY <1>1, <1>2 DEF CookieInv

(* A step that answers something other than 200, 204 or, to a refresh, 401. *)
LEMMA CookieAnswer ==
  ASSUME CookieInv, TokenInv', Onward, NEW r \in Requests, NEW code \in Codes,
         Answer(r, code), UNCHANGED jar,
         code = 200 => req[r].pc = "stored",
         code = 204 => req[r].op # "logout" \/ req[r].family = 0 \/ Settled(r)',
         code = 401 /\ req[r].op = "refresh" =>
           req[r].cookie = None \/ JwtExpired(req[r].cookie)' \/ Spent(req[r].cookie)'
  PROVE  CookieInv'
<1>1. TypeOK /\ AnswersOK(r) /\ opened \in Nat /\ opened' \in Nat
  BY DEF CookieInv, TokenInv, SessionInv, TypeOK
<1>2. /\ Only(r) /\ req'[r].pc = "answered" /\ req'[r].code = code
      /\ req'[r].op = req[r].op /\ req'[r].cookie = req[r].cookie
      /\ req'[r].fresh = req[r].fresh /\ req'[r].family = req[r].family
  BY <1>1, AnswerStep
<1>3. AnswersOK(r)'
  <2>1. req[r].op = "logout" /\ req[r].family # 0 => req'[r].family \in 1..opened'
    BY <1>1, <1>2 DEF AnswersOK, Onward
  <2>2. req'[r].op = "refresh" /\ req'[r].code = 401 =>
          (req[r].cookie = None \/ JwtExpired(req[r].cookie) \/ Spent(req[r].cookie))'
    BY <1>2
  <2>3. req'[r].op = "logout" /\ req'[r].family # 0 /\ req'[r].code = 204 => Settled(r)'
    BY <1>2
  <2> QED  BY <1>2, <2>1, <2>2, <2>3 DEF AnswersOK
<1>4. Gives(r)' => Gives(r) /\ req'[r].fresh = req[r].fresh
  BY <1>2 DEF Gives
<1> QED  BY <1>2, <1>3, <1>4, CookieSlot

(* A step of a login or a refresh that is not answered by it. *)
LEMMA CookieMove ==
  ASSUME CookieInv, TokenInv', Onward, NEW r \in Requests, Only(r), UNCHANGED jar,
         req'[r].op \in {"login", "refresh"}, req'[r].pc # "answered",
         req'[r].cookie = req[r].cookie,
         req'[r].pc = "stored" => \E x \in refreshTokens' : x.token = req'[r].fresh
  PROVE  CookieInv'
<1>1. req'[r].code = 0
  BY DEF TokenInv, CodeOK
<1>2. AnswersOK(r)'
  BY <1>1 DEF AnswersOK
<1>3. Gives(r)' => \E x \in refreshTokens' : x.token = req'[r].fresh
  BY <1>1 DEF Gives
<1> QED  BY <1>2, <1>3, CookieSlot

LEMMA CookieInit == Init => CookieInv
<1> SUFFICES ASSUME Init  PROVE CookieInv
  OBVIOUS
<1>1. TokenInv
  BY InitTokens
<1>2. \A r \in Requests :
        /\ req[r].op = "none" /\ req[r].pc = "idle" /\ req[r].code = 0 /\ req[r].cookie = None
  BY DEF Init, Blank
<1>3. \A t \in Token : ~Given(t)
  BY <1>2, ConstantFacts DEF Init, Given, Gives
<1>4. \A r \in Requests : AnswersOK(r)
  BY <1>2 DEF AnswersOK
<1> QED  BY <1>1, <1>3, <1>4 DEF CookieInv, Known

(* Sending, and the answer that arrives or does not. *)
LEMMA ClientCookies ==
  ASSUME CookieInv, TokenInv', Onward, NEW r \in Requests, ClientStep(r)
  PROVE  CookieInv'
<1>1. TypeOK /\ KnownFamilies
  BY DEF CookieInv, TokenInv, SessionInv
<1>2. ASSUME NEW b \in Browsers, NEW m \in Members, SendLogin(r, b, m)
      PROVE  CookieInv'
  <2>1. /\ Only(r) /\ req'[r].op = "login" /\ req'[r].pc = "sent" /\ req'[r].code = 0
        /\ req'[r].cookie = None
    BY <1>1, <1>2, LoginSent
  <2>2. AnswersOK(r)' /\ ~Gives(r)'
    BY <2>1 DEF AnswersOK, Gives
  <2> QED  BY <1>2, <2>1, <2>2, CookieSlot DEF SendLogin
<1>3. ASSUME NEW b \in Browsers, NEW op \in {"refresh", "logout"}, SendWithCookie(r, b, op)
      PROVE  CookieInv'
  <2>1. /\ Only(r) /\ req'[r].op = op /\ req'[r].pc = "sent" /\ req'[r].code = 0
        /\ req'[r].cookie = jar[b]
        /\ \/ req'[r].family = 0
           \/ \E x \in RowsOf(jar[b]) : req'[r].family = x.family
    BY <1>1, <1>3, CookieStep
  <2>2. UNCHANGED <<refreshTokens, jar, opened>>
    BY <1>3 DEF SendWithCookie, history
  <2>3. req'[r].family # 0 =>
          /\ req'[r].family \in 1..opened'
          /\ \E x \in refreshTokens' : x.token = req'[r].cookie /\ x.family = req'[r].family
    BY <1>1, <2>1, <2>2 DEF RowsOf, KnownFamilies
  <2>4. AnswersOK(r)' /\ ~Gives(r)'
    BY <2>1, <2>3 DEF AnswersOK, Gives
  <2> QED  BY <2>1, <2>2, <2>4, CookieSlot
<1>4. ASSUME Drop(r) \/ Deliver(r)
      PROVE  CookieInv'
  <2>1. Only(r) /\ req'[r] = Blank
    BY <1>1, <1>4, BlankStep DEF Drop, Deliver
  <2>2. AnswersOK(r)' /\ ~Gives(r)' /\ req'[r].cookie = None
    BY <2>1 DEF AnswersOK, Gives, Blank
  <2>3. ASSUME NEW s \in Requests  PROVE AnswersOK(s)'
    <3>1. CASE s = r
      BY <2>2, <3>1
    <3>2. CASE s # r
      <4>1. req'[s] = req[s] /\ AnswersOK(s) /\ TypeOK' /\ TokenInv
        BY <2>1, <3>2 DEF Only, CookieInv, TokenInv, SessionInv
      <4> QED  BY <4>1, AnswersKept
    <3> QED  BY <3>1, <3>2
  <2>4. ASSUME NEW t \in Token  PROVE Known(t)'
    <3>1. ASSUME NEW b \in Browsers, jar'[b] = t  PROVE Given(t)
      BY <1>1, <1>4, <3>1, ConstantFacts DEF Drop, Deliver, Given, Gives, TypeOK
    <3>2. ASSUME NEW s \in Requests, req'[s].cookie = t \/ (Gives(s)' /\ req'[s].fresh = t)
          PROVE  Given(t)
      <4>1. s # r /\ req'[s] = req[s]
        BY <2>1, <2>2, <3>2, ConstantFacts DEF Only
      <4> QED  BY <3>2, <4>1 DEF Given, Gives
    <3>3. Given(t)' => Given(t)
      BY <3>1, <3>2 DEF Given
    <3> QED  BY <3>3, KnownKept DEF CookieInv
  <2> QED  BY <2>3, <2>4 DEF CookieInv
<1> QED  BY <1>2, <1>3, <1>4 DEF ClientStep

LEMMA CookiesStep ==
  ASSUME CookieInv, [Next]_vars
  PROVE  CookieInv'
<1>0. /\ TokenInv /\ TokenInv' /\ Onward /\ TypeOK /\ TypeOK' /\ RequestInv
      /\ \A r \in Requests : AnswersOK(r) /\ CodeOK(r)
  BY TokensStep, OnwardStep DEF CookieInv, TokenInv, SessionInv
<1>1. ASSUME NEW r \in Requests, VerifyPassword(r)
      PROVE  CookieInv'
  <2>1. req[r].op = "login" /\ jar' = jar
    BY <1>1 DEF VerifyPassword, At
  <2>2. ASSUME NEW code \in {401, 403}, Answer(r, code)  PROVE CookieInv'
    BY <1>0, <2>1, <2>2, CookieAnswer DEF Codes
  <2>3. CASE Goto(r, "verified")
    BY <1>0, <2>1, <2>3, GotoStep, CookieMove DEF PCs
  <2> QED  BY <1>1, <2>2, <2>3 DEF VerifyPassword
<1>2. ASSUME NEW r \in Requests, RefreshVerify(r)
      PROVE  CookieInv'
  <2>1. req[r].op = "refresh" /\ UNCHANGED <<now, jar>>
    BY <1>2 DEF RefreshVerify, At
  <2>2. CASE Answer(r, 401) /\ (req[r].cookie = None \/ JwtExpired(req[r].cookie))
    <3>1. req'[r].cookie = req[r].cookie
      BY <1>0, <2>2, AnswerStep DEF Codes
    <3>2. req[r].cookie = None \/ JwtExpired(req[r].cookie)'
      BY <2>1, <2>2, <3>1 DEF JwtExpired
    <3> QED  BY <1>0, <2>1, <2>2, <3>2, CookieAnswer DEF Codes
  <2>3. CASE Goto(r, "verified")
    BY <1>0, <2>1, <2>3, GotoStep, CookieMove DEF PCs
  <2> QED  BY <1>2, <2>2, <2>3 DEF RefreshVerify
<1>3. ASSUME NEW r \in Requests, RefreshFind(r)
      PROVE  CookieInv'
  <2>1. /\ req[r].op = "refresh" /\ req[r].cookie \in Token
        /\ UNCHANGED <<now, jar, rotatedOut, loggedOut>>
    BY <1>0, <1>3 DEF RefreshFind, At, RequestInv, RequestOK, history
  <2>2. ASSUME NEW x \in Row, Take(r, "found", x)  PROVE CookieInv'
    BY <1>0, <2>1, <2>2, TakeStep, CookieMove DEF PCs
  <2>3. CASE Answer(r, 401) /\ \A x \in RowsOf(req[r].cookie) : RowExpired(x)
    <3>1. req'[r].cookie = req[r].cookie
      BY <1>0, <2>3, AnswerStep DEF Codes
    <3>2. CASE RowsOf(req[r].cookie) = {}
      <4>1. Given(req[r].cookie)
        BY DEF Given
      <4>2. Spent(req[r].cookie)
        BY <2>1, <3>2, <4>1 DEF CookieInv, Known, Stored
      <4>3. Spent(req[r].cookie)'
        BY <2>1, <3>1, <4>2 DEF Spent
      <4> QED  BY <1>0, <2>1, <2>3, <4>3, CookieAnswer DEF Codes
    <3>3. ASSUME NEW x \in RowsOf(req[r].cookie)  PROVE CookieInv'
      <4>1. x.token = req[r].cookie /\ x.token.iat + TTL < now
        BY <2>3 DEF RowsOf, RowExpired
      <4>2. now \in Nat /\ req[r].cookie.iat + TTL \in Nat
        BY <1>0, <2>1, BoundAssumption DEF TypeOK, Token
      <4>3. now >= req[r].cookie.iat + TTL
        BY <4>1, <4>2
      <4>4. JwtExpired(req[r].cookie)'
        BY <2>1, <3>1, <4>3 DEF JwtExpired
      <4> QED  BY <1>0, <2>1, <2>3, <4>4, CookieAnswer DEF Codes
    <3> QED  BY <3>2, <3>3
  <2> QED  BY <1>0, <1>3, <2>2, <2>3 DEF RefreshFind, RowsOf, TypeOK
<1>4. ASSUME NEW r \in Requests, RefreshDelete(r)
      PROVE  CookieInv'
  <2>1. req[r].op = "refresh" /\ jar' = jar
    BY <1>4 DEF RefreshDelete, At
  <2>2. ASSUME NEW x \in Row, Take(r, "deleted", x)  PROVE CookieInv'
    BY <1>0, <2>1, <2>2, TakeStep, CookieMove DEF PCs
  <2>3. CASE Answer(r, 500)
    BY <1>0, <2>1, <2>3, CookieAnswer DEF Codes
  <2> QED  BY <1>0, <1>4, <2>2, <2>3 DEF RefreshDelete, RowsOf, TypeOK
<1>5. ASSUME NEW r \in Requests, LoginMint(r) \/ RefreshMint(r)
      PROVE  CookieInv'
  <2>1. req[r].op \in {"login", "refresh"} /\ jar' = jar /\ Mint(r)
    BY <1>5 DEF LoginMint, RefreshMint, At
  <2>2. req[r].sub \in Members
    BY <1>0, <1>5, ConstantFacts DEF LoginMint, RefreshMint, At, RequestInv, RequestOK
  <2> QED  BY <1>0, <2>1, <2>2, MintStep, CookieMove
<1>6. ASSUME NEW r \in Requests, LoginStore(r) \/ RefreshStore(r)
      PROVE  CookieInv'
  <2>1. req[r].op \in {"login", "refresh"} /\ jar' = jar
    BY <1>6 DEF LoginStore, RefreshStore, At
  <2>2. CASE Answer(r, 500)
    BY <1>0, <2>1, <2>2, CookieAnswer DEF Codes
  <2>3. ASSUME NEW f, Goto(r, "stored"),
               refreshTokens' = refreshTokens \cup {[token |-> req[r].fresh, family |-> f]}
        PROVE  CookieInv'
    <3>1. /\ Only(r) /\ req'[r].pc = "stored" /\ req'[r].fresh = req[r].fresh
          /\ req'[r].op = req[r].op /\ req'[r].cookie = req[r].cookie
      BY <1>0, <2>3, GotoStep DEF PCs
    <3>2. [token |-> req[r].fresh, family |-> f].token = req'[r].fresh
      BY <3>1
    <3>3. \E x \in refreshTokens' : x.token = req'[r].fresh
      BY <2>3, <3>2
    <3> QED  BY <1>0, <2>1, <3>1, <3>3, CookieMove
  <2> QED  BY <1>6, <2>2, <2>3 DEF LoginStore, RefreshStore
<1>7. ASSUME NEW r \in Requests, Respond(r) \/ Fail(r)
      PROVE  CookieInv'
  <2>1. CASE Respond(r)
    BY <1>0, <2>1, CookieAnswer DEF Respond, Codes
  <2>2. CASE Fail(r)
    BY <1>0, <2>2, CookieAnswer DEF Fail, Codes
  <2> QED  BY <1>7, <2>1, <2>2
<1>8. ASSUME NEW r \in Requests, Logout(r)
      PROVE  CookieInv'
  <2>1. req[r].op = "logout" /\ req[r].pc = "sent" /\ jar' = jar /\ Answer(r, 204)
    BY <1>8 DEF Logout, At
  <2>2. req'[r].cookie = req[r].cookie /\ req'[r].family = req[r].family
    BY <1>0, <2>1, AnswerStep DEF Codes
  <2>3. req[r].family # 0 => Settled(r)'
    <3>1. ASSUME NEW x \in refreshTokens, x.token = req[r].cookie, x.family = req[r].family
          PROVE  req[r].family \in closed'
      BY <1>8, <3>1 DEF Logout, RowsOf
    <3>2. Settled(r) => Settled(r)'
      BY <1>0, <2>2 DEF Settled, Onward
    <3> QED  BY <1>0, <2>1, <2>2, <3>1, <3>2 DEF AnswersOK, Settled
  <2> QED  BY <1>0, <2>1, <2>3, CookieAnswer DEF Codes
<1>9. CASE (\E m \in Suspendable : SetSuspended(m)) \/ Tick \/ UNCHANGED vars
  <2>1. \A s \in Requests :
          /\ req'[s].op = req[s].op /\ req'[s].pc = req[s].pc /\ req'[s].code = req[s].code
          /\ req'[s].cookie = req[s].cookie /\ req'[s].fresh = req[s].fresh
          /\ req'[s].family = req[s].family
    BY <1>0, <1>9, SuspendStep DEF Tick, vars
  <2>2. \A s \in Requests : AnswersOK(s)'
    BY <1>0, <2>1, AnswersKept
  <2>3. jar' = jar
    BY <1>9 DEF SetSuspended, Tick, vars
  <2>4. \A t \in Token : Known(t)'
    BY <1>0, <2>1, <2>3, KnownKept DEF CookieInv, Given, Gives
  <2> QED  BY <1>0, <2>2, <2>4 DEF CookieInv
<1> QED
  BY <1>0, <1>1, <1>2, <1>3, <1>4, <1>5, <1>6, <1>7, <1>8, <1>9, ClientCookies, Zenon
     DEF Next, ServerStep, Login, Refresh

LEMMA CookiesInvariant == Spec => []CookieInv
<1>1. CookieInv /\ [Next]_vars => CookieInv'
  BY CookiesStep
<1> QED  BY <1>1, CookieInit, PTL DEF Spec

(* A refresh is told 401 only without a cookie, after its time, or for a    *)
(* cookie that a refresh or a logout has spent: nothing else that happens   *)
(* to the table takes a session from the browser that holds it.             *)
THEOREM RefusedForAReason == Spec => []RefreshRefusedForAReason
<1>1. CookieInv => RefreshRefusedForAReason
  BY DEF CookieInv, AnswersOK, Spent, RefreshRefusedForAReason
<1> QED  BY <1>1, CookiesInvariant, PTL

(* After a logout's 204 the session its cookie had is over, unless a        *)
(* refresh had taken that cookie's row first.                               *)
THEOREM LogoutEnds == Spec => []LogoutOutlivedOnlyByRefresh
<1>1. CookieInv => LogoutOutlivedOnlyByRefresh
  <2> SUFFICES ASSUME CookieInv, NEW r \in Requests, req[r].op = "logout",
                      req[r].code = 204, Held(req[r].family)
               PROVE  req[r].cookie \in rotatedOut
    BY DEF LogoutOutlivedOnlyByRefresh
  <2>1. KnownFamilies /\ SessionsEndForAReason /\ AnswersOK(r) /\ opened \in Nat
    BY DEF CookieInv, TokenInv, SessionInv, TypeOK
  <2>2. req[r].family \in 1..opened
    BY <2>1 DEF Held, KnownFamilies
  <2>3. req[r].family \notin closed
    BY <2>1, <2>2 DEF SessionsEndForAReason
  <2> QED  BY <2>1, <2>2, <2>3 DEF AnswersOK, Settled
<1> QED  BY <1>1, CookiesInvariant, PTL

-----------------------------------------------------------------------------
(* Suspension: a login that was sent while its member was barred is past    *)
(* the look at the status only if the member was let in meanwhile.          *)
GateOK(r) ==
  req[r].op = "login" =>
    /\ req[r].pc # "answered" => req[r].code = 0
    /\ req[r].pc = "sent" /\ req[r].barred => req[r].sub \in suspended
    /\ req[r].pc \in {"verified", "minted", "stored"} \/ req[r].code = 200 => ~req[r].barred

GateInv == TypeOK /\ RequestInv /\ \A r \in Requests : GateOK(r)

LEMMA GateSlot ==
  ASSUME GateInv, TypeOK', RequestInv', NEW r \in Requests, Only(r), GateOK(r)',
         UNCHANGED suspended
  PROVE  GateInv'
<1>1. ASSUME NEW s \in Requests, s # r  PROVE GateOK(s)'
  <2>1. req'[s] = req[s] /\ GateOK(s)
    BY <1>1 DEF GateInv, Only
  <2> QED  BY <2>1 DEF GateOK
<1> QED  BY <1>1 DEF GateInv

LEMMA GateStep ==
  ASSUME GateInv, [Next]_vars
  PROVE  GateInv'
<1>0. TypeOK /\ RequestInv /\ TypeOK' /\ RequestInv'
  BY TypedStep DEF GateInv
<1>1. ASSUME NEW r \in Requests, NEW code \in Codes, Answer(r, code), UNCHANGED suspended,
             code = 200 => req[r].pc = "stored"
      PROVE  GateInv'
  <2>1. GateOK(r) /\ req[r] \in Request
    BY <1>0 DEF GateInv, TypeOK
  <2>2. /\ Only(r) /\ req'[r].pc = "answered" /\ req'[r].code = code
        /\ req'[r].op = req[r].op /\ req'[r].barred = req[r].barred
    BY <1>0, <1>1, AnswerStep
  <2>3. GateOK(r)'
    BY <1>1, <2>1, <2>2 DEF GateOK
  <2> QED  BY <1>0, <1>1, <2>2, <2>3, GateSlot
<1>2. ASSUME NEW r \in Requests, Only(r), req[r].pc # "answered",
             req'[r].op = req[r].op, req'[r].code = req[r].code, req'[r].barred = req[r].barred,
             req'[r].pc \in {"verified", "found", "deleted", "minted", "stored"},
             req[r].op = "login" =>
               \/ req[r].pc = "sent" /\ req[r].sub \notin suspended
               \/ req[r].pc \in {"verified", "minted", "stored"},
             UNCHANGED suspended
      PROVE  GateInv'
  <2>1. GateOK(r)
    BY DEF GateInv
  <2>2. GateOK(r)'
    BY <1>2, <2>1 DEF GateOK
  <2> QED  BY <1>0, <1>2, <2>2, GateSlot
<1>3. ASSUME NEW r \in Requests, ClientStep(r)
      PROVE  GateInv'
  <2>1. suspended' = suspended
    BY <1>3 DEF ClientStep, SendLogin, SendWithCookie, Deliver, Drop
  <2>2. ASSUME NEW b \in Browsers, NEW m \in Members, SendLogin(r, b, m)  PROVE GateInv'
    <3>2. Only(r)
      BY <1>0, <2>2, LoginSent
    <3>3. /\ req'[r].pc = "sent" /\ req'[r].code = 0 /\ req'[r].sub = m
          /\ req'[r].barred = (m \in suspended)
      BY <1>0, <2>2, LoginSent
    <3>4. req'[r].barred => m \in suspended'
      BY <2>1, <3>3
    <3>5. GateOK(r)'
      BY <3>3, <3>4 DEF GateOK
    <3> QED  BY <1>0, <2>1, <3>2, <3>5, GateSlot
  <2>3. ASSUME NEW b \in Browsers, NEW op \in {"refresh", "logout"}, SendWithCookie(r, b, op)
        PROVE  GateInv'
    <3>1. Only(r) /\ req'[r].op = op
      BY <1>0, <2>3, CookieStep
    <3>2. GateOK(r)'
      BY <3>1 DEF GateOK
    <3> QED  BY <1>0, <2>1, <3>1, <3>2, GateSlot
  <2>4. ASSUME Deliver(r) \/ Drop(r)  PROVE GateInv'
    <3>1. Only(r) /\ req'[r] = Blank
      BY <1>0, <2>4, BlankStep DEF Deliver, Drop
    <3>2. GateOK(r)'
      BY <3>1 DEF GateOK, Blank
    <3> QED  BY <1>0, <2>1, <3>1, <3>2, GateSlot
  <2> QED  BY <1>3, <2>2, <2>3, <2>4 DEF ClientStep
<1>4. ASSUME NEW r \in Requests, VerifyPassword(r) \/ RefreshVerify(r)
      PROVE  GateInv'
  <2>1. req[r].pc = "sent" /\ suspended' = suspended
    BY <1>4 DEF VerifyPassword, RefreshVerify, At
  <2>2. ASSUME NEW code \in {401, 403}, Answer(r, code)  PROVE GateInv'
    BY <1>1, <2>1, <2>2 DEF Codes
  <2>3. ASSUME Goto(r, "verified"), req[r].op = "login" => req[r].sub \notin suspended
        PROVE  GateInv'
    BY <1>0, <1>2, <2>1, <2>3, GotoStep DEF PCs
  <2> QED  BY <1>4, <2>2, <2>3 DEF VerifyPassword, RefreshVerify, At
<1>5. ASSUME NEW r \in Requests, LoginMint(r) \/ RefreshMint(r)
      PROVE  GateInv'
  <2>1. req[r].sub \in Members
    BY <1>0, <1>5, ConstantFacts DEF LoginMint, RefreshMint, At, RequestInv, RequestOK
  <2>2. Mint(r) /\ suspended' = suspended /\ (req[r].op = "login" => req[r].pc = "verified")
        /\ req[r].pc # "answered"
    BY <1>5 DEF LoginMint, RefreshMint, At
  <2> QED  BY <1>0, <1>2, <2>1, <2>2, MintStep
<1>6. ASSUME NEW r \in Requests, LoginStore(r) \/ RefreshStore(r)
      PROVE  GateInv'
  <2>1. req[r].pc = "minted" /\ suspended' = suspended
    BY <1>6 DEF LoginStore, RefreshStore, At
  <2>2. CASE Answer(r, 500)
    BY <1>1, <2>1, <2>2 DEF Codes
  <2>3. CASE Goto(r, "stored")
    BY <1>0, <1>2, <2>1, <2>3, GotoStep DEF PCs
  <2> QED  BY <1>6, <2>2, <2>3 DEF LoginStore, RefreshStore
<1>7. ASSUME NEW r \in Requests, RefreshFind(r) \/ RefreshDelete(r)
      PROVE  GateInv'
  <2>1. req[r].op = "refresh" /\ req[r].pc \in {"verified", "found"} /\ suspended' = suspended
    BY <1>7 DEF RefreshFind, RefreshDelete, At
  <2>2. ASSUME NEW code \in {401, 500}, Answer(r, code)  PROVE GateInv'
    BY <1>1, <2>1, <2>2 DEF Codes
  <2>3. ASSUME NEW x \in Row, NEW pc \in {"found", "deleted"}, Take(r, pc, x)  PROVE GateInv'
    BY <1>0, <1>2, <2>1, <2>3, TakeStep DEF PCs
  <2> QED  BY <1>0, <1>7, <2>2, <2>3 DEF RefreshFind, RefreshDelete, RowsOf, TypeOK
<1>8. ASSUME NEW r \in Requests, Respond(r) \/ Logout(r) \/ Fail(r)
      PROVE  GateInv'
  BY <1>1, <1>8 DEF Respond, Logout, Fail, Codes
<1>9. ASSUME NEW m \in Suspendable, SetSuspended(m)
      PROVE  GateInv'
  <2>1. ASSUME NEW r \in Requests  PROVE GateOK(r)'
    <3>1. GateOK(r)
      BY DEF GateInv
    <3>2. /\ req'[r].pc = req[r].pc /\ req'[r].code = req[r].code
          /\ req'[r].op = req[r].op /\ req'[r].sub = req[r].sub
          /\ req'[r].barred <=> req[r].barred /\ ~(req[r].sub = m /\ m \in suspended)
      BY <1>0, <1>9, SuspendStep
    <3>3. \A k : k \in suspended /\ ~(k = m /\ m \in suspended) => k \in suspended'
      BY <1>9 DEF SetSuspended
    <3> QED  BY <3>1, <3>2, <3>3 DEF GateOK
  <2> QED  BY <1>0, <2>1 DEF GateInv
<1>10. CASE Tick \/ UNCHANGED vars
  BY <1>0, <1>10 DEF Tick, vars, GateInv, GateOK
<1> QED
  BY <1>3, <1>4, <1>5, <1>6, <1>7, <1>8, <1>9, <1>10, Zenon
     DEF Next, ServerStep, Login, Refresh

(* A login answers 200 only if its member was not suspended all the while.  *)
THEOREM SuspendedStaysOut == Spec => []SuspendedNeverLogsIn
<1>1. Init => GateInv
  BY InitTyped DEF Init, Blank, GateInv, GateOK
<1>2. GateInv /\ [Next]_vars => GateInv'
  BY GateStep
<1>3. GateInv => SuspendedNeverLogsIn
  BY DEF GateInv, GateOK, SuspendedNeverLogsIn
<1> QED  BY <1>1, <1>2, <1>3, PTL DEF Spec
=============================================================================
