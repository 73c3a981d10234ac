--------------------------- MODULE PasskeysProofs ---------------------------
(***************************************************************************)
(* Proofs about Passkeys, for any number of challenges, passkeys and       *)
(* requests.  The invariant says of each request what its pc means         *)
(* (RequestOK) and of each counter that the authenticator is ahead of it.  *)
(* A step changes at most one request, and of the challenges and responses *)
(* a request relies on it keeps what matters (Stable): a deleted challenge *)
(* stays deleted, a response made stays as it is.                          *)
(***************************************************************************)
EXTENDS Passkeys, TLAPS

Working == {"idle", "sent", "found", "stale", "ok", "spent", "free"}

RequestOK(r) ==
  /\ req[r].pc # "idle" =>
       /\ req[r].op \in Ceremonies
       /\ req[r].session \in Challenges /\ pending[req[r].session].state # "new"
       /\ req[r].answers \in Challenges /\ Body(r) # Unsigned
  /\ req[r].pc \in Working => req[r].code = 0
  /\ req[r].pc = "bad" => req[r].code \in {400, 401, 403}
  /\ req[r].pc = "answered" => req[r].code # 0
  /\ Passed(r) \/ (req[r].pc = "answered" /\ req[r].code # 500)
       => req[r].pc # "idle" /\ pending[req[r].session].state = "gone"
  /\ req[r].op = "authentication" /\ req[r].pc \in {"ok", "spent"}
       => Row(r) # NoRow /\ req[r].seen \in Counts /\ Grows(Body(r).counter, req[r].seen)
  /\ req[r].pc = "free" => NewName(r) \in Names

RowsMade ==
  \A k \in Keys : credential[k] # NoRow => k \in Registered \/ \E c \in Challenges : MadeFor(c, k)

CountersOK ==
  \A k \in Keys :
    /\ credential[k].counter <= counter[k]
    /\ k \notin Counting => counter[k] = 0
    /\ \A c \in Challenges : MadeFor(c, k) => signed[c].counter <= counter[k]

PasskeyInv ==
  /\ TypeOK
  /\ \A r \in Requests : RequestOK(r)
  /\ RowsMade
  /\ CountersOK
  /\ ChallengePassesOnce

-----------------------------------------------------------------------------
(* What a step keeps *)

Stable ==
  /\ \A k \in Keys : credential[k] # NoRow => credential'[k] # NoRow
  /\ \A c \in Challenges :
       /\ pending[c].state = "gone" => pending'[c].state = "gone"
       /\ pending[c].state # "new" =>
            /\ pending'[c].state # "new"
            /\ pending'[c].name = pending[c].name
       /\ signed[c] # Unsigned => signed'[c] = signed[c]

Only(r) == \A s \in Requests \ {r} : req'[s] = req[s]

(* One request moves; it passes a challenge only by deleting it. *)
Moves(r) ==
  /\ Only(r)
  /\ req[r].pc # "idle" => req'[r].session = req[r].session
  /\ RequestOK(r)'
  /\ Passed(r)' => Passed(r) \/ pending[req'[r].session].state # "gone"

USE CountingAssumption, RegisteredAssumption, SuspendableAssumption, NoneAssumption, BoundAssumption

LEMMA InitInv == Init => PasskeyInv
<1> SUFFICES ASSUME Init  PROVE PasskeyInv
  OBVIOUS
<1>1. \A r \in Requests : req[r] = Blank
  BY DEF Init
<1>2. Blank \in Request
  BY DEF Blank, Request, PCs, Codes
<1>3. req \in [Requests -> Request]
  BY <1>2 DEF Init
<1>4. \A k \in Keys :
        credential[k] \in CredentialRow \cup {NoRow} /\ credential[k].counter = 0
  BY BoundAssumption DEF Init, CredentialRow, Statuses, NoRow, Counts
<1>8. TypeOK
  <2>1. credential \in [Keys -> CredentialRow \cup {NoRow}]
    BY <1>4 DEF Init
  <2> QED  BY <1>3, <2>1 DEF Init, TypeOK, Pending, Unsigned, Counts
<1>5. \A r \in Requests : RequestOK(r)
  BY <1>1 DEF RequestOK, Blank, Passed, Working
<1>6. CountersOK /\ RowsMade
  <2>1. \A c \in Challenges, k \in Keys : signed[c] = Unsigned /\ ~MadeFor(c, k) /\ counter[k] = 0
    BY DEF Init, Unsigned, MadeFor
  <2>3. RowsMade
    BY DEF Init, RowsMade
  <2>4. CountersOK
    <3> SUFFICES ASSUME NEW k \in Keys
                 PROVE  /\ credential[k].counter = 0 /\ counter[k] = 0
                        /\ \A c \in Challenges : ~MadeFor(c, k)
      BY DEF CountersOK
    <3>1. credential[k].counter = 0
      BY <1>4
    <3>2. counter[k] = 0
      BY DEF Init
    <3> QED  BY <3>1, <3>2, <2>1
  <2> QED  BY <2>3, <2>4
<1>7. ChallengePassesOnce
  BY <1>1 DEF ChallengePassesOnce, Blank, Passed
<1> QED  BY <1>5, <1>6, <1>7, <1>8 DEF PasskeyInv

LEMMA GotoFacts ==
  ASSUME TypeOK, NEW r \in Requests, NEW pc \in PCs, Goto(r, pc)
  PROVE  /\ req' \in [Requests -> Request] /\ Only(r)
         /\ req'[r].op = req[r].op /\ req'[r].session = req[r].session
         /\ req'[r].answers = req[r].answers /\ req'[r].seen = req[r].seen
         /\ req'[r].pc = pc /\ req'[r].code = req[r].code
<1> DEFINE q == [req[r] EXCEPT !.pc = pc]
<1>1. req \in [Requests -> Request] /\ req' = [req EXCEPT ![r] = q]
  BY DEF TypeOK, Goto
<1>2. /\ q \in Request
      /\ q.op = req[r].op /\ q.session = req[r].session /\ q.answers = req[r].answers
      /\ q.seen = req[r].seen /\ q.pc = pc /\ q.code = req[r].code
  BY <1>1 DEF Request
<1> HIDE DEF q
<1> QED  BY <1>1, <1>2 DEF Only

LEMMA AnswerFacts ==
  ASSUME TypeOK, NEW r \in Requests, NEW code \in Codes, Answer(r, code)
  PROVE  /\ req' \in [Requests -> Request] /\ Only(r)
         /\ req'[r].op = req[r].op /\ req'[r].session = req[r].session
         /\ req'[r].answers = req[r].answers /\ req'[r].seen = req[r].seen
         /\ req'[r].pc = "answered" /\ req'[r].code = code
<1> DEFINE q == [req[r] EXCEPT !.pc = "answered", !.code = code]
<1>1. req \in [Requests -> Request] /\ req' = [req EXCEPT ![r] = q]
  BY DEF TypeOK, Answer
<1>2. /\ q \in Request
      /\ q.op = req[r].op /\ q.session = req[r].session /\ q.answers = req[r].answers
      /\ q.seen = req[r].seen /\ q.pc = "answered" /\ q.code = code
  BY <1>1 DEF Request, PCs
<1> HIDE DEF q
<1> QED  BY <1>1, <1>2 DEF Only

LEMMA RejectFacts ==
  ASSUME TypeOK, NEW r \in Requests, NEW code \in Codes, Reject(r, code)
  PROVE  /\ req' \in [Requests -> Request] /\ Only(r)
         /\ req'[r].op = req[r].op /\ req'[r].session = req[r].session
         /\ req'[r].answers = req[r].answers /\ req'[r].seen = req[r].seen
         /\ req'[r].pc = "bad" /\ req'[r].code = code
<1> DEFINE q == [req[r] EXCEPT !.pc = "bad", !.code = code]
<1>1. req \in [Requests -> Request] /\ req' = [req EXCEPT ![r] = q]
  BY DEF TypeOK, Reject
<1>2. /\ q \in Request
      /\ q.op = req[r].op /\ q.session = req[r].session /\ q.answers = req[r].answers
      /\ q.seen = req[r].seen /\ q.pc = "bad" /\ q.code = code
  BY <1>1 DEF Request, PCs
<1> HIDE DEF q
<1> QED  BY <1>1, <1>2 DEF Only

LEMMA RemovedFacts ==
  ASSUME TypeOK, NEW c \in Challenges, pending[c].state # "new", Removed(c)
  PROVE  /\ pending' \in [Challenges -> Pending]
         /\ pending'[c].state = "gone"
         /\ \A d \in Challenges :
              /\ pending'[d].name = pending[d].name
              /\ pending[d].state = "gone" => pending'[d].state = "gone"
              /\ pending[d].state # "new" => pending'[d].state # "new"
<1> DEFINE p == [pending[c] EXCEPT !.state = "gone"]
<1>1. pending \in [Challenges -> Pending] /\ pending' = [pending EXCEPT ![c] = p]
  BY DEF TypeOK, Removed
<1>2. p \in Pending /\ p.state = "gone" /\ p.name = pending[c].name
  BY <1>1 DEF Pending
<1> HIDE DEF p
<1> QED  BY <1>1, <1>2

-----------------------------------------------------------------------------
(* One lemma for each step of the server *)

Step(r) == TypeOK' /\ Stable /\ RowsMade' /\ Moves(r) /\ CountersOK'

LEMMA FindStep ==
  ASSUME PasskeyInv, NEW r \in Requests, FindChallenge(r)
  PROVE  Step(r)
<1>1. TypeOK /\ RequestOK(r) /\ CountersOK /\ RowsMade
  BY DEF PasskeyInv
<1>2. req[r].pc = "sent" /\ UNCHANGED <<pending, credential, signed, counter>>
  BY DEF FindChallenge
<1>3. PICK pc \in {"found", "stale"} : Goto(r, pc)
  BY DEF FindChallenge
<1>4. pc \in PCs
  BY DEF PCs
<1>5. TypeOK'
  BY <1>1, <1>2, <1>3, <1>4, GotoFacts DEF TypeOK
<1>6. Moves(r)
  BY <1>1, <1>2, <1>3, <1>4, GotoFacts DEF RequestOK, Moves, Passed, Working, Body, Row, NewName
<1> QED  BY <1>1, <1>2, <1>5, <1>6 DEF Step, Stable, RowsMade, CountersOK, MadeFor

LEMMA DropStep ==
  ASSUME PasskeyInv, NEW r \in Requests, DropStale(r)
  PROVE  Step(r)
<1>1. TypeOK /\ RequestOK(r) /\ CountersOK /\ RowsMade
  BY DEF PasskeyInv
<1>2. req[r].pc = "stale" /\ UNCHANGED <<credential, signed, counter>> /\ Answer(r, 400)
  BY DEF DropStale
<1>3. 400 \in Codes
  BY DEF Codes
<1>4. req[r].session \in Challenges
  BY <1>1, <1>2 DEF RequestOK
<1>5. /\ pending' \in [Challenges -> Pending]
      /\ pending'[req[r].session].state = "gone"
      /\ \A d \in Challenges :
           /\ pending'[d].name = pending[d].name
           /\ pending[d].state = "gone" => pending'[d].state = "gone"
           /\ pending[d].state # "new" => pending'[d].state # "new"
  <2>1. CASE Removed(req[r].session)
    BY <1>1, <1>2, <1>4, <2>1, RemovedFacts DEF RequestOK
  <2>2. CASE UNCHANGED pending /\ ~InTable(req[r].session)
    BY <1>1, <1>2, <1>4, <2>2 DEF TypeOK, InTable, Pending, RequestOK
  <2> QED  BY <2>1, <2>2 DEF DropStale
<1>6. TypeOK'
  BY <1>1, <1>2, <1>3, <1>5, AnswerFacts DEF TypeOK
<1>7. Moves(r)
  BY <1>1, <1>2, <1>3, <1>5, AnswerFacts DEF RequestOK, Moves, Passed, Working, Body, Row, NewName
<1> QED  BY <1>1, <1>2, <1>5, <1>6, <1>7 DEF Step, Stable, RowsMade, CountersOK, MadeFor

LEMMA VerifyRegistrationStep ==
  ASSUME PasskeyInv, NEW r \in Requests, VerifyRegistration(r)
  PROVE  Step(r)
<1>1. TypeOK /\ RequestOK(r) /\ CountersOK /\ RowsMade
  BY DEF PasskeyInv
<1>2. /\ req[r].pc = "found" /\ req[r].op = "registration"
      /\ UNCHANGED <<pending, credential, signed, counter>>
  BY DEF VerifyRegistration, At
<1>3. 400 \in Codes /\ "ok" \in PCs
  BY DEF Codes, PCs
<1>4. CASE Matches(r) /\ Goto(r, "ok")
  <2>1. TypeOK'
    BY <1>1, <1>2, <1>3, <1>4, GotoFacts DEF TypeOK
  <2>2. Moves(r)
    BY <1>1, <1>2, <1>3, <1>4, GotoFacts DEF RequestOK, Moves, Passed, Working, Body, Row, NewName
  <2> QED  BY <1>1, <1>2, <2>1, <2>2 DEF Step, Stable, RowsMade, CountersOK, MadeFor
<1>5. CASE Reject(r, 400)
  <2>1. TypeOK'
    BY <1>1, <1>2, <1>3, <1>5, RejectFacts DEF TypeOK
  <2>2. Moves(r)
    BY <1>1, <1>2, <1>3, <1>5, RejectFacts DEF RequestOK, Moves, Passed, Working, Body, Row, NewName
  <2> QED  BY <1>1, <1>2, <2>1, <2>2 DEF Step, Stable, RowsMade, CountersOK, MadeFor
<1> QED  BY <1>4, <1>5 DEF VerifyRegistration

LEMMA JudgedFacts ==
  ASSUME NEW x \in Request, NEW v \in Counts, NEW good \in BOOLEAN
  PROVE  LET q == Judged(x, v, good) IN
         /\ q \in Request
         /\ q.op = x.op /\ q.session = x.session /\ q.answers = x.answers
         /\ q.seen = v
         /\ \/ good /\ q.pc = "ok" /\ q.code = 0
            \/ ~good /\ q.pc = "bad" /\ q.code = 401
<1> DEFINE pc == IF good THEN "ok" ELSE "bad"
           code == IF good THEN 0 ELSE 401
           w == [x EXCEPT !.seen = v]
           q == [w EXCEPT !.pc = pc, !.code = code]
<1>1. /\ w \in Request
      /\ w.op = x.op /\ w.session = x.session /\ w.answers = x.answers /\ w.seen = v
  BY DEF Request
<1>2. pc \in PCs /\ code \in Codes
  BY DEF PCs, Codes
<1>3. (good /\ pc = "ok" /\ code = 0) \/ (~good /\ pc = "bad" /\ code = 401)
  OBVIOUS
<1>4. Judged(x, v, good) = q
  BY Zenon DEF Judged
<1> HIDE DEF pc, code, w
<1>5. /\ q \in Request
      /\ q.op = w.op /\ q.session = w.session /\ q.answers = w.answers
      /\ q.seen = w.seen /\ q.pc = pc /\ q.code = code
  BY <1>1, <1>2 DEF Request
<1> HIDE DEF q
<1> QED  BY <1>1, <1>3, <1>4, <1>5

LEMMA VerifyAssertionStep ==
  ASSUME PasskeyInv, NEW r \in Requests, VerifyAssertion(r)
  PROVE  Step(r)
<1>1. TypeOK /\ RequestOK(r) /\ CountersOK /\ RowsMade
  BY DEF PasskeyInv
<1>2. /\ req[r].pc = "found" /\ req[r].op = "authentication"
      /\ UNCHANGED <<pending, credential, signed, counter>>
  BY DEF VerifyAssertion, At
<1>3. ASSUME NEW code \in {401, 403}, Reject(r, code)  PROVE Step(r)
  <2>1. code \in Codes
    BY DEF Codes
  <2>2. TypeOK'
    BY <1>1, <1>2, <1>3, <2>1, RejectFacts DEF TypeOK
  <2>3. Moves(r)
    BY <1>1, <1>2, <1>3, <2>1, RejectFacts DEF RequestOK, Moves, Passed, Working, Body, Row, NewName
  <2> QED  BY <1>1, <1>2, <2>2, <2>3 DEF Step, Stable, RowsMade, CountersOK, MadeFor
<1>4. ASSUME Row(r).status = "UNVERIFIED", NEW good \in BOOLEAN, good => Grows(Body(r).counter, Row(r).counter),
             req' = [req EXCEPT ![r] = Judged(@, Row(r).counter, good)]
      PROVE  Step(r)
  <2> DEFINE q == Judged(req[r], Row(r).counter, good)
             v == Row(r).counter
  <2>0. Row(r) # NoRow
    BY <1>4, NoneAssumption DEF NoRow, Statuses
  <2>1. v \in Counts
    <3>1. Body(r).key \in Keys
      BY <1>1, <1>2 DEF RequestOK, TypeOK, Response, Body
    <3> QED  BY <1>1, <3>1 DEF TypeOK, Row, CredentialRow, NoRow, Counts
  <2>2. req \in [Requests -> Request]
    BY <1>1 DEF TypeOK
  <2>3. /\ q \in Request
        /\ q.op = req[r].op /\ q.session = req[r].session /\ q.answers = req[r].answers
        /\ q.seen = v
        /\ \/ good /\ q.pc = "ok" /\ q.code = 0
           \/ ~good /\ q.pc = "bad" /\ q.code = 401
    BY <2>1, <2>2, JudgedFacts
  <2>a. good => Grows(Body(r).counter, v)
    BY <1>4
  <2>b. req' = [req EXCEPT ![r] = q]
    BY <1>4
  <2> HIDE DEF q, v
  <2>4. /\ req' \in [Requests -> Request] /\ Only(r) /\ req'[r] = q
    BY <2>b, <2>2, <2>3 DEF Only
  <2>5. TypeOK'
    BY <1>1, <1>2, <2>4 DEF TypeOK
  <2>6. Moves(r)
    <3>1. CASE good
      BY <1>1, <1>2, <2>0, <2>1, <2>a, <2>3, <2>4, <3>1 DEF RequestOK, Moves, Passed, Working, Body, Row, NewName
    <3>2. CASE ~good
      BY <1>1, <1>2, <2>3, <2>4, <3>2 DEF RequestOK, Moves, Passed, Working, Body, Row, NewName
    <3> QED  BY <3>1, <3>2
  <2> QED  BY <1>1, <1>2, <2>5, <2>6 DEF Step, Stable, RowsMade, CountersOK, MadeFor
<1>5. CASE Reject(r, 401) \/ Reject(r, 403)
  BY <1>3, <1>5
<1>6. CASE ~(Reject(r, 401) \/ Reject(r, 403))
  <2> DEFINE good == Matches(r) /\ Grows(Body(r).counter, Row(r).counter)
  <2>1. /\ Row(r).status = "UNVERIFIED"
        /\ req' = [req EXCEPT ![r] = Judged(@, Row(r).counter, good)]
    BY <1>6 DEF VerifyAssertion
  <2>2. good \in BOOLEAN /\ (good => Grows(Body(r).counter, Row(r).counter))
    BY DEF Matches, Grows
  <2> HIDE DEF good
  <2> QED  BY <1>4, <2>1, <2>2
<1> QED  BY <1>5, <1>6

LEMMA DeleteStep ==
  ASSUME PasskeyInv, NEW r \in Requests, DeleteChallenge(r)
  PROVE  Step(r)
<1>1. TypeOK /\ RequestOK(r) /\ CountersOK /\ RowsMade
  BY DEF PasskeyInv
<1>2. req[r].pc \in {"ok", "bad"} /\ UNCHANGED <<credential, signed, counter>>
  BY DEF DeleteChallenge
<1>3. req[r].session \in Challenges
  BY <1>1, <1>2 DEF RequestOK
<1>4. "spent" \in PCs /\ 500 \in Codes /\ req[r].code \in Codes
  BY <1>1, <1>2 DEF RequestOK, PCs, Codes, Working
<1>5. CASE InTable(req[r].session)
  <2>1. Removed(req[r].session) /\ pending[req[r].session].state # "gone"
    BY <1>5 DEF DeleteChallenge, InTable
  <2>2. /\ pending' \in [Challenges -> Pending]
        /\ pending'[req[r].session].state = "gone"
        /\ \A d \in Challenges :
             /\ pending'[d].name = pending[d].name
             /\ pending[d].state = "gone" => pending'[d].state = "gone"
             /\ pending[d].state # "new" => pending'[d].state # "new"
    BY <1>1, <1>2, <1>3, <2>1, RemovedFacts DEF RequestOK
  <2>3. CASE req[r].pc = "ok" /\ Goto(r, "spent")
    <3>1. TypeOK'
      BY <1>1, <1>2, <1>4, <2>2, <2>3, GotoFacts DEF TypeOK
    <3>2. Moves(r)
      BY <1>1, <1>2, <1>3, <1>4, <2>1, <2>2, <2>3, GotoFacts
         DEF RequestOK, Moves, Passed, Working, Body, Row, NewName
    <3> QED  BY <1>1, <1>2, <2>2, <3>1, <3>2 DEF Step, Stable, RowsMade, CountersOK, MadeFor
  <2>4. CASE req[r].pc = "bad" /\ Answer(r, req[r].code)
    <3>1. TypeOK'
      BY <1>1, <1>2, <1>4, <2>2, <2>4, AnswerFacts DEF TypeOK
    <3>2. Moves(r)
      BY <1>1, <1>2, <1>3, <1>4, <2>1, <2>2, <2>4, AnswerFacts
         DEF RequestOK, Moves, Passed, Working, Body, Row, NewName
    <3> QED  BY <1>1, <1>2, <2>2, <3>1, <3>2 DEF Step, Stable, RowsMade, CountersOK, MadeFor
  <2> QED  BY <1>2, <1>5, <2>3, <2>4 DEF DeleteChallenge
<1>6. CASE ~InTable(req[r].session)
  <2>1. Answer(r, 500) /\ UNCHANGED pending
    BY <1>6 DEF DeleteChallenge
  <2>2. TypeOK'
    BY <1>1, <1>2, <1>4, <2>1, AnswerFacts DEF TypeOK
  <2>3. Moves(r)
    BY <1>1, <1>2, <1>3, <1>4, <2>1, AnswerFacts DEF RequestOK, Moves, Passed, Working, Body, Row, NewName
  <2> QED  BY <1>1, <1>2, <2>1, <2>2, <2>3 DEF Step, Stable, RowsMade, CountersOK, MadeFor
<1> QED  BY <1>5, <1>6

LEMMA CheckUsernameStep ==
  ASSUME PasskeyInv, NEW r \in Requests, CheckUsername(r)
  PROVE  Step(r)
<1>1. TypeOK /\ RequestOK(r) /\ CountersOK /\ RowsMade
  BY DEF PasskeyInv
<1>2. /\ req[r].pc = "spent" /\ req[r].op = "registration" /\ Passed(r)
      /\ UNCHANGED <<pending, credential, signed, counter>>
  BY DEF CheckUsername, At, Passed
<1>3. 409 \in Codes /\ 500 \in Codes /\ "free" \in PCs
  BY DEF Codes, PCs
<1>4. CASE Goto(r, "free") /\ NewName(r) # None
  <2>0. NewName(r) \in Names
    BY <1>1, <1>2, <1>4 DEF TypeOK, Pending, RequestOK, NewName
  <2>1. TypeOK'
    BY <1>1, <1>2, <1>3, <1>4, GotoFacts DEF TypeOK
  <2>2. Moves(r)
    BY <2>0, <1>1, <1>2, <1>3, <1>4, GotoFacts DEF RequestOK, Moves, Passed, Working, Body, Row, NewName
  <2> QED  BY <1>1, <1>2, <2>1, <2>2 DEF Step, Stable, RowsMade, CountersOK, MadeFor
<1>5. CASE Answer(r, 409) \/ Answer(r, 500)
  <2>1. TypeOK'
    BY <1>1, <1>2, <1>3, <1>5, AnswerFacts DEF TypeOK
  <2>2. Moves(r)
    BY <1>1, <1>2, <1>3, <1>5, AnswerFacts DEF RequestOK, Moves, Passed, Working, Body, Row, NewName
  <2> QED  BY <1>1, <1>2, <2>1, <2>2 DEF Step, Stable, RowsMade, CountersOK, MadeFor
<1> QED  BY <1>4, <1>5 DEF CheckUsername

(* The two writes to Credential put in a counter the authenticator gave.    *)
LEMMA BodyFacts ==
  ASSUME TypeOK, CountersOK, NEW r \in Requests, RequestOK(r), req[r].pc # "idle"
  PROVE  /\ Body(r).key \in Keys /\ Body(r).counter \in Counts
         /\ Body(r).counter <= counter[Body(r).key]
         /\ \E c \in Challenges : MadeFor(c, Body(r).key)
  BY DEF TypeOK, CountersOK, RequestOK, Body, Response, MadeFor

LEMMA CreateStep ==
  ASSUME PasskeyInv, NEW r \in Requests, CreateMember(r)
  PROVE  Step(r)
<1>1. TypeOK /\ RequestOK(r) /\ CountersOK /\ RowsMade
  BY DEF PasskeyInv
<1>2. /\ req[r].pc = "free" /\ req[r].op = "registration" /\ Passed(r)
      /\ UNCHANGED <<pending, signed, counter>>
  BY DEF CreateMember, At, Passed
<1>3. PICK code \in {500, 201} : Answer(r, code)
  BY DEF CreateMember
<1>4. code \in Codes /\ code # 0
  BY DEF Codes
<1>5. Moves(r)
  BY <1>1, <1>2, <1>3, <1>4, AnswerFacts DEF RequestOK, Moves, Passed, Working, Body, Row, NewName
<1>6. CASE UNCHANGED credential
  <2>1. TypeOK'
    BY <1>1, <1>2, <1>3, <1>4, <1>6, AnswerFacts DEF TypeOK
  <2> QED  BY <1>1, <1>2, <1>5, <1>6, <2>1 DEF Step, Stable, RowsMade, CountersOK, MadeFor
<1>7. CASE ~UNCHANGED credential
  <2> DEFINE row == [name |-> NewName(r), status |-> "UNVERIFIED", counter |-> Body(r).counter]
  <2>1. credential' = [credential EXCEPT ![Body(r).key] = row] /\ Row(r) = NoRow
    BY <1>7 DEF CreateMember
  <2>2. /\ Body(r).key \in Keys /\ Body(r).counter \in Counts
        /\ Body(r).counter <= counter[Body(r).key]
        /\ \E c \in Challenges : MadeFor(c, Body(r).key)
    BY <1>1, <1>2, BodyFacts
  <2>3. NewName(r) \in Names
    BY <1>1, <1>2 DEF RequestOK
  <2>4. row \in CredentialRow /\ row.counter = Body(r).counter /\ row # NoRow
    BY <2>2, <2>3, NoneAssumption DEF CredentialRow, Statuses, NoRow
  <2> HIDE DEF row
  <2>5. credential' \in [Keys -> CredentialRow \cup {NoRow}]
    BY <1>1, <2>1, <2>4 DEF TypeOK
  <2>6. TypeOK'
    BY <1>1, <1>2, <1>3, <1>4, <2>5, AnswerFacts DEF TypeOK
  <2>7. CountersOK'
    BY <1>1, <1>2, <2>1, <2>2, <2>4 DEF CountersOK, TypeOK, MadeFor
  <2>8. RowsMade'
    BY <1>1, <1>2, <2>1, <2>2 DEF TypeOK, RowsMade, MadeFor
  <2> QED  BY <1>1, <1>2, <1>5, <2>1, <2>2, <2>4, <2>6, <2>7, <2>8 DEF TypeOK, Step, Stable
<1> QED  BY <1>6, <1>7

LEMMA StoreStep ==
  ASSUME PasskeyInv, NEW r \in Requests, StoreCounter(r)
  PROVE  Step(r)
<1>1. TypeOK /\ RequestOK(r) /\ CountersOK /\ RowsMade
  BY DEF PasskeyInv
<1>2. /\ req[r].pc = "spent" /\ req[r].op = "authentication" /\ Passed(r)
      /\ UNCHANGED <<pending, signed, counter>> /\ Answer(r, 200)
  BY DEF StoreCounter, At, Passed
<1>3. 200 \in Codes
  BY DEF Codes
<1>4. Moves(r)
  BY <1>1, <1>2, <1>3, AnswerFacts DEF RequestOK, Moves, Passed, Working, Body, Row, NewName
<1> DEFINE k == Body(r).key
           row == [credential[k] EXCEPT !.counter = Body(r).counter]
<1>5. /\ k \in Keys /\ Body(r).counter \in Counts /\ Body(r).counter <= counter[k]
      /\ \E c \in Challenges : MadeFor(c, k)
  BY <1>1, <1>2, BodyFacts
<1>6. credential' = [credential EXCEPT ![k] = row]
  BY DEF StoreCounter
<1>7. row.counter = Body(r).counter /\ row \in CredentialRow /\ row # NoRow
  <2>1. credential[k] \in CredentialRow
    BY <1>1, <1>2, <1>5 DEF TypeOK, RequestOK, Row
  <2>2. row \in CredentialRow /\ row.counter = Body(r).counter
    BY <1>5, <2>1 DEF CredentialRow
  <2>3. row.status # None
    BY <2>2, NoneAssumption DEF CredentialRow
  <2> QED  BY <2>2, <2>3 DEF NoRow
<1> HIDE DEF row
<1>8. TypeOK'
  BY <1>1, <1>2, <1>3, <1>6, <1>7, AnswerFacts DEF TypeOK
<1>9. CountersOK'
  BY <1>1, <1>2, <1>5, <1>6, <1>7 DEF CountersOK, TypeOK, MadeFor
<1>10. RowsMade'
  BY <1>1, <1>2, <1>5, <1>6 DEF TypeOK, RowsMade, MadeFor
<1> QED  BY <1>1, <1>2, <1>4, <1>5, <1>6, <1>7, <1>8, <1>9, <1>10 DEF TypeOK, Step, Stable

LEMMA FailStep ==
  ASSUME PasskeyInv, NEW r \in Requests, Fail(r)
  PROVE  Step(r)
<1>1. TypeOK /\ RequestOK(r) /\ CountersOK /\ RowsMade
  BY DEF PasskeyInv
<1>2. /\ req[r].pc # "idle" /\ UNCHANGED <<pending, credential, signed, counter>>
      /\ Answer(r, 500)
  BY DEF Fail
<1>3. 500 \in Codes
  BY DEF Codes
<1>4. TypeOK'
  BY <1>1, <1>2, <1>3, AnswerFacts DEF TypeOK
<1>5. Moves(r)
  BY <1>1, <1>2, <1>3, AnswerFacts DEF RequestOK, Moves, Passed, Working, Body, Row, NewName
<1> QED  BY <1>1, <1>2, <1>4, <1>5 DEF Step, Stable, RowsMade, CountersOK, MadeFor

-----------------------------------------------------------------------------
(* The steps of browsers, authenticators, the operator and the clock *)

Outside == TypeOK' /\ Stable /\ RowsMade' /\ CountersOK' /\ UNCHANGED req

LEMMA StartStep ==
  ASSUME PasskeyInv, NEW c \in Challenges, NEW n \in Names \cup {None},
         Start(c, n)
  PROVE  Outside
<1> DEFINE p == [state |-> "live", name |-> n]
<1>1. TypeOK /\ CountersOK /\ RowsMade
  BY DEF PasskeyInv
<1>2. p \in Pending
  BY DEF Pending
<1>3. /\ pending' = [pending EXCEPT ![c] = p] /\ pending[c].state = "new"
      /\ UNCHANGED <<credential, signed, counter, req>>
  BY DEF Start
<1> HIDE DEF p
<1> QED  BY <1>1, <1>2, <1>3 DEF Outside, TypeOK, Stable, RowsMade, CountersOK, MadeFor

LEMMA ExpireStep ==
  ASSUME PasskeyInv, NEW c \in Challenges, Expire(c)
  PROVE  Outside
<1> DEFINE p == [pending[c] EXCEPT !.state = "expired"]
<1>1. TypeOK /\ CountersOK /\ RowsMade
  BY DEF PasskeyInv
<1>2. p \in Pending /\ p.state = "expired" /\ p.name = pending[c].name
  BY <1>1 DEF Pending, TypeOK
<1>3. /\ pending' = [pending EXCEPT ![c] = p] /\ pending[c].state = "live"
      /\ UNCHANGED <<credential, signed, counter, req>>
  BY DEF Expire
<1> HIDE DEF p
<1> QED  BY <1>1, <1>2, <1>3 DEF Outside, TypeOK, Stable, RowsMade, CountersOK, MadeFor

(* A browser answers a challenge with x, made by passkey k: its count is    *)
(* not below any before it, and a passkey is made before it signs.          *)
Signs(c, k, x) ==
  /\ x \in Response /\ x.key = k /\ signed[c] = Unsigned
  /\ signed' = [signed EXCEPT ![c] = x]
  /\ counter' = [counter EXCEPT ![k] = x.counter]
  /\ UNCHANGED <<pending, credential, req>>
  /\ k \notin Counting => x.counter = 0
  /\ credential[k].counter <= x.counter
  /\ \A d \in Challenges : MadeFor(d, k) =>
       /\ x.kind = "authentication" /\ signed[d].counter <= x.counter
       /\ x.counter = 0 \/ signed[d].counter # x.counter

LEMMA MakePasskeySigns ==
  ASSUME PasskeyInv, NEW c \in Challenges, NEW k \in Keys, NEW n \in Counts,
         MakePasskey(c, k, n)
  PROVE  \E x : Signs(c, k, x)
<1> DEFINE x == [kind |-> "registration", key |-> k, counter |-> n]
<1>1. x \in Response /\ x.key = k /\ x.counter = n
  BY DEF Response, Ceremonies
<1>2. credential[k].counter <= n
  <2>1. credential[k] = NoRow
    BY DEF PasskeyInv, RowsMade, MakePasskey
  <2> QED  BY <2>1 DEF NoRow, Counts
<1>3. /\ signed' = [signed EXCEPT ![c] = x] /\ signed[c] = Unsigned
      /\ counter' = [counter EXCEPT ![k] = n] /\ UNCHANGED <<pending, credential, req>>
      /\ k \notin Counting => n = 0
      /\ \A d \in Challenges : ~MadeFor(d, k)
  BY DEF MakePasskey
<1> HIDE DEF x
<1>4. Signs(c, k, x)
  BY <1>1, <1>2, <1>3 DEF Signs
<1> QED  BY <1>4

LEMMA SignSigns ==
  ASSUME PasskeyInv, NEW c \in Challenges, NEW k \in Keys, Sign(c, k)
  PROVE  \E x : Signs(c, k, x)
<1> DEFINE n == IF k \in Counting THEN counter[k] + 1 ELSE 0
           x == [kind |-> "authentication", key |-> k, counter |-> n]
<1>1. TypeOK /\ CountersOK
  BY DEF PasskeyInv
<1>2. n \in Counts /\ n >= counter[k] /\ (k \notin Counting => n = 0) /\ (n > counter[k] \/ n = 0)
  BY <1>1 DEF TypeOK, Counts, Sign, CountersOK
<1>3. /\ signed' = [signed EXCEPT ![c] = x] /\ signed[c] = Unsigned
      /\ counter' = [counter EXCEPT ![k] = n]
      /\ UNCHANGED <<pending, credential, req>>
  BY DEF Sign
<1> HIDE DEF n
<1>4. x \in Response /\ x.key = k /\ x.counter = n /\ x.kind = "authentication"
  BY <1>2 DEF Response, Ceremonies
<1> HIDE DEF x
<1>5. counter[k] \in Nat /\ credential[k].counter \in Nat /\ n \in Nat
  BY <1>1, <1>2 DEF TypeOK, Counts, CredentialRow, NoRow
<1>6. credential[k].counter <= n
  BY <1>1, <1>2, <1>5 DEF CountersOK
<1>7. ASSUME NEW d \in Challenges, MadeFor(d, k)
      PROVE  signed[d].counter <= n /\ (n = 0 \/ signed[d].counter # n)
  <2>1. signed[d].counter <= counter[k] /\ signed[d].counter \in Nat
    BY <1>1, <1>7 DEF CountersOK, TypeOK, Response, Unsigned, Counts
  <2> QED  BY <1>2, <1>5, <2>1
<1>8. Signs(c, k, x)
  BY <1>2, <1>3, <1>4, <1>6, <1>7 DEF Signs
<1> QED  BY <1>8

LEMMA SignsStep ==
  ASSUME PasskeyInv, NEW c \in Challenges, NEW k \in Keys, NEW x, Signs(c, k, x)
  PROVE  Outside
<1>1. TypeOK /\ CountersOK /\ RowsMade
  BY DEF PasskeyInv
<1>2. x.counter \in Counts
  BY DEF Signs, Response
<1>3. TypeOK' /\ Stable
  BY <1>1, <1>2 DEF Signs, TypeOK, Stable
<1>4. \A d \in Challenges, j \in Keys : MadeFor(d, j) => MadeFor(d, j)'
  BY <1>1, NoneAssumption DEF Signs, TypeOK, MadeFor, Unsigned
<1>5. RowsMade'
  BY <1>1, <1>4 DEF Signs, RowsMade
<1>6. ASSUME NEW j \in Keys
      PROVE  /\ credential'[j].counter <= counter'[j]
             /\ j \notin Counting => counter'[j] = 0
             /\ \A d \in Challenges : MadeFor(d, j)' => signed'[d].counter <= counter'[j]
  <2>1. CASE j # k
    <3>1. counter'[j] = counter[j] /\ credential'[j] = credential[j]
      BY <1>1, <2>1 DEF Signs, TypeOK
    <3>2. \A d \in Challenges : MadeFor(d, j)' => MadeFor(d, j) /\ signed'[d] = signed[d]
      BY <1>1, <2>1 DEF Signs, TypeOK, MadeFor
    <3> QED  BY <1>1, <3>1, <3>2 DEF CountersOK
  <2>2. CASE j = k
    <3>1. counter'[j] = x.counter /\ credential'[j] = credential[j]
      BY <1>1, <2>2 DEF Signs, TypeOK
    <3>2. \A d \in Challenges : d # c /\ MadeFor(d, j)' => MadeFor(d, j) /\ signed'[d] = signed[d]
      BY <1>1, <2>2 DEF Signs, TypeOK, MadeFor
    <3>3. signed'[c].counter <= x.counter
      BY <1>1, <1>2 DEF Signs, TypeOK, Counts
    <3> QED  BY <2>2, <3>1, <3>2, <3>3 DEF Signs
  <2> QED  BY <2>1, <2>2
<1>7. CountersOK'
  BY <1>6 DEF CountersOK
<1> QED  BY <1>3, <1>5, <1>7 DEF Outside, Signs

LEMMA SetStatusStep ==
  ASSUME PasskeyInv, NEW k \in Keys, NEW s \in Statuses, SetStatus(k, s)
  PROVE  Outside
<1> DEFINE row == [credential[k] EXCEPT !.status = s]
<1>1. TypeOK /\ CountersOK /\ RowsMade
  BY DEF PasskeyInv
<1>2. row \in CredentialRow /\ row.counter = credential[k].counter /\ row.status = s
  BY <1>1 DEF SetStatus, TypeOK, CredentialRow
<1>3. /\ credential' = [credential EXCEPT ![k] = row] /\ credential[k] # NoRow
      /\ UNCHANGED <<pending, signed, counter, req>>
  BY DEF SetStatus
<1> HIDE DEF row
<1>4. row # NoRow
  BY <1>2, NoneAssumption DEF NoRow
<1>5. TypeOK' /\ Stable /\ CountersOK'
  BY <1>1, <1>2, <1>3, <1>4 DEF TypeOK, Stable, CountersOK, MadeFor
<1>6. RowsMade'
  BY <1>1, <1>3 DEF TypeOK, RowsMade, MadeFor
<1> QED  BY <1>3, <1>5, <1>6 DEF Outside

LEMMA FinishStep ==
  ASSUME PasskeyInv, NEW r \in Requests, NEW op \in Ceremonies,
         NEW c \in Challenges, NEW d \in Challenges, Finish(r, op, c, d)
  PROVE  Step(r)
<1> DEFINE q == [op |-> op, session |-> c, answers |-> d, pc |-> "sent",
                 seen |-> None, code |-> 0]
<1>1. TypeOK /\ CountersOK /\ RowsMade
  BY DEF PasskeyInv
<1>2. /\ req' = [req EXCEPT ![r] = q] /\ req[r].pc = "idle"
      /\ pending[c].state # "new" /\ signed[d] # Unsigned
      /\ UNCHANGED <<pending, credential, signed, counter>>
  BY DEF Finish, Blank
<1>3. /\ q \in Request
      /\ q.op = op /\ q.session = c /\ q.answers = d /\ q.pc = "sent" /\ q.code = 0
  BY DEF Request, PCs, Codes
<1> HIDE DEF q
<1>4. TypeOK'
  BY <1>1, <1>2, <1>3 DEF TypeOK
<1>5. Moves(r)
  BY <1>1, <1>2, <1>3 DEF TypeOK, RequestOK, Moves, Only, Passed, Working, Body, Row, NewName
<1> QED  BY <1>1, <1>2, <1>4, <1>5 DEF Step, Stable, RowsMade, CountersOK, MadeFor

-----------------------------------------------------------------------------
(* The invariant *)

LEMMA Untouched ==
  ASSUME TypeOK, Stable, NEW s \in Requests, RequestOK(s), req'[s] = req[s]
  PROVE  RequestOK(s)' /\ (Passed(s)' <=> Passed(s))
<1>1. CASE req[s].pc = "idle"
  BY <1>1 DEF RequestOK, Passed, Working
<1>2. CASE req[s].pc # "idle"
  <2>1. /\ req[s].session \in Challenges /\ pending[req[s].session].state # "new"
        /\ req[s].answers \in Challenges /\ Body(s) # Unsigned
    BY <1>2 DEF RequestOK
  <2>2. Body(s)' = Body(s) /\ NewName(s)' = NewName(s) /\ Body(s).key \in Keys
    BY <2>1 DEF Stable, Body, NewName, TypeOK, Response
  <2>3. Row(s) # NoRow => Row(s)' # NoRow
    BY <2>2 DEF Stable, Row
  <2> QED  BY <1>2, <2>1, <2>2, <2>3 DEF RequestOK, Passed, Stable
<1> QED  BY <1>1, <1>2

LEMMA StepInv ==
  ASSUME PasskeyInv, NEW r \in Requests, Step(r)
  PROVE  PasskeyInv'
<1>1. TypeOK /\ Stable /\ Only(r) /\ \A s \in Requests : RequestOK(s)
  BY DEF PasskeyInv, Step, Moves
<1>2. \A s \in Requests \ {r} :
        RequestOK(s)' /\ (Passed(s)' <=> Passed(s)) /\ req'[s] = req[s]
  BY <1>1, Untouched DEF Only
<1>3. \A s \in Requests : RequestOK(s)'
  BY <1>2 DEF Step, Moves
<1>4. ASSUME NEW s \in Requests \ {r}, Passed(r)', Passed(s)',
             req'[r].session = req'[s].session
      PROVE  FALSE
  <2>1. Passed(s) /\ req[s].session = req'[r].session
    BY <1>2, <1>4
  <2>2. pending[req'[r].session].state = "gone"
    BY <1>1, <2>1 DEF RequestOK
  <2>3. Passed(r)
    BY <1>4, <2>2 DEF Step, Moves
  <2>4. req[r].session = req[s].session
    BY <1>1, <2>1, <2>3 DEF Step, Moves, RequestOK
  <2> QED  BY <2>1, <2>3, <2>4 DEF PasskeyInv, ChallengePassesOnce
<1>5. ChallengePassesOnce'
  <2> SUFFICES ASSUME NEW s \in Requests, NEW t \in Requests, Passed(s)', Passed(t)',
                      req'[s].session = req'[t].session, s # t
               PROVE  FALSE
    BY DEF ChallengePassesOnce
  <2>1. CASE s = r \/ t = r
    BY <1>4, <2>1
  <2>2. CASE s # r /\ t # r
    BY <1>2, <2>2 DEF PasskeyInv, ChallengePassesOnce
  <2> QED  BY <2>1, <2>2
<1> QED  BY <1>3, <1>5 DEF PasskeyInv, Step

LEMMA OutsideInv ==
  ASSUME PasskeyInv, Outside
  PROVE  PasskeyInv'
<1>1. \A s \in Requests : RequestOK(s)' /\ (Passed(s)' <=> Passed(s)) /\ req'[s] = req[s]
  BY Untouched DEF PasskeyInv, Outside
<1>2. ChallengePassesOnce'
  BY <1>1 DEF PasskeyInv, ChallengePassesOnce
<1> QED  BY <1>1, <1>2 DEF PasskeyInv, Outside

LEMMA NextInv == PasskeyInv /\ [Next]_vars => PasskeyInv'
<1> SUFFICES ASSUME PasskeyInv, [Next]_vars  PROVE PasskeyInv'
  OBVIOUS
<1>1. CASE UNCHANGED vars
  BY <1>1 DEF vars, PasskeyInv, TypeOK, RequestOK, RowsMade, CountersOK, ChallengePassesOnce,
              Passed, Body, Row, NewName, MadeFor
<1>2. ASSUME NEW r \in Requests, ServerStep(r) \/ Fail(r)
      PROVE  PasskeyInv'
  <2>1. Step(r)
    BY <1>2, FindStep, DropStep, DeleteStep, VerifyRegistrationStep, CheckUsernameStep,
       CreateStep, VerifyAssertionStep, StoreStep, FailStep
       DEF ServerStep, FinishRegistration, FinishAuthentication
  <2> QED  BY <2>1, StepInv
<1>3. ASSUME NEW r \in Requests, NEW op \in Ceremonies, NEW c \in Challenges,
             NEW d \in Challenges, Finish(r, op, c, d)
      PROVE  PasskeyInv'
  BY <1>3, FinishStep, StepInv
<1>4. ASSUME NEW c \in Challenges, Expire(c)
      PROVE  PasskeyInv'
  BY <1>4, ExpireStep, OutsideInv
<1>5. ASSUME NEW c \in Challenges,
             StartAuthentication(c) \/ \E n \in Names : StartRegistration(c, n)
      PROVE  PasskeyInv'
  <2>1. CASE StartAuthentication(c)
    BY <2>1, StartStep, OutsideInv DEF StartAuthentication
  <2>2. CASE \E n \in Names : StartRegistration(c, n)
    BY <2>2, StartStep, OutsideInv DEF StartRegistration
  <2> QED  BY <1>5, <2>1, <2>2
<1>6. ASSUME NEW c \in Challenges, NEW k \in Keys,
             Sign(c, k) \/ \E n \in Counts : MakePasskey(c, k, n)
      PROVE  PasskeyInv'
  BY <1>6, MakePasskeySigns, SignSigns, SignsStep, OutsideInv
<1>7. ASSUME NEW k \in Suspendable, NEW s \in Statuses, SetStatus(k, s)
      PROVE  PasskeyInv'
  BY <1>7, SetStatusStep, OutsideInv
<1> QED  BY <1>1, <1>2, <1>3, <1>4, <1>5, <1>6, <1>7 DEF Next

LEMMA PasskeysInvariant == Spec => []PasskeyInv
BY InitInv, NextInv, PTL DEF Spec

(* Every row, response and request has its type. *)
THEOREM Typed == Spec => []TypeOK
<1>1. PasskeyInv => TypeOK
  BY DEF PasskeyInv
<1> QED  BY <1>1, PasskeysInvariant, PTL

(* However many finishes carry one response, one at most passes. *)
THEOREM PassesOnce == Spec => []ChallengePassesOnce
<1>1. PasskeyInv => ChallengePassesOnce
  BY DEF PasskeyInv
<1> QED  BY <1>1, PasskeysInvariant, PTL

(* Every answer but a 500 leaves the challenge deleted. *)
THEOREM AnswerSpends == Spec => []AnswerSpendsChallenge
<1>1. PasskeyInv => AnswerSpendsChallenge
  BY DEF PasskeyInv, AnswerSpendsChallenge, RequestOK
<1> QED  BY <1>1, PasskeysInvariant, PTL

(* No order of logins puts a stored counter ahead of its authenticator. *)
THEOREM NotLockedOut == Spec => []NeverLockedOut
<1>1. PasskeyInv => NeverLockedOut
  BY DEF PasskeyInv, NeverLockedOut, CountersOK
<1> QED  BY <1>1, PasskeysInvariant, PTL

(* A stored counter goes back only where a login writes over one it has not *)
(* seen.                                                                    *)
THEOREM BackOnlyInARace == Spec => CounterGoesBackOnlyInARace
<1> DEFINE Forward == \A r \in Requests : StoreCounter(r) /\ Row(r).counter = req[r].seen =>
             credential'[Body(r).key].counter >= credential[Body(r).key].counter
<1>1. PasskeyInv => Forward
  <2> SUFFICES ASSUME PasskeyInv, NEW r \in Requests, StoreCounter(r),
                      Row(r).counter = req[r].seen
               PROVE  credential'[Body(r).key].counter >= credential[Body(r).key].counter
    OBVIOUS
  <2> DEFINE k == Body(r).key
             row == [credential[k] EXCEPT !.counter = Body(r).counter]
  <2>1. TypeOK /\ CountersOK /\ RequestOK(r) /\ req[r].op = "authentication" /\ req[r].pc = "spent"
    BY DEF PasskeyInv, StoreCounter, At
  <2>2. k \in Keys /\ Body(r).counter \in Counts
    BY <2>1, BodyFacts
  <2>3. Row(r) # NoRow /\ req[r].seen \in Counts /\ Grows(Body(r).counter, req[r].seen)
    BY <2>1 DEF RequestOK
  <2>4. credential' = [credential EXCEPT ![k] = row]
    BY DEF StoreCounter
  <2>5. row.counter = Body(r).counter
    BY <2>1, <2>2, <2>3 DEF TypeOK, Row, CredentialRow
  <2> HIDE DEF row
  <2>6. credential'[k].counter = Body(r).counter
    BY <2>1, <2>2, <2>4, <2>5 DEF TypeOK
  <2>7. Body(r).counter >= req[r].seen
    BY <2>2, <2>3 DEF Grows, Counts
  <2> QED  BY <2>6, <2>7 DEF Row
<1>2. PasskeyInv => [Forward]_vars
  BY <1>1
<1> QED  BY <1>2, PasskeysInvariant, PTL DEF CounterGoesBackOnlyInARace

-----------------------------------------------------------------------------
(***************************************************************************)
(* Overtaking.  A stored counter above 0 was put there by a login that has *)
(* its answer, or is that of the passkey's making (Earned); a passkey is   *)
(* made before it signs (MadeFirst) and no two challenges are signed with  *)
(* one counter (SignedOnce), so an assertion that does not grow the stored *)
(* counter is that login's own or an earlier one.                          *)
(***************************************************************************)
Won(s) == req[s].code = 200 /\ req[s].op = "authentication"

Overtaken(r) ==
  \E s \in Requests :
    /\ s # r /\ Won(s)
    /\ \/ req[s].answers = req[r].answers
       \/ Body(s).key = Body(r).key /\ Body(s).counter > Body(r).counter

Earned ==
  \A k \in Keys : credential[k].counter > 0 =>
    \/ \E s \in Requests : Won(s) /\ Body(s).key = k /\ Body(s).counter = credential[k].counter
    \/ \E c \in Challenges : /\ MadeFor(c, k) /\ signed[c].kind = "registration"
                             /\ signed[c].counter = credential[k].counter

MadeFirst ==
  \A c, d \in Challenges : signed[c].kind = "registration" /\ signed[c].key = signed[d].key
                           => signed[c].counter <= signed[d].counter

SignedOnce ==
  /\ MadeFirst
  /\ \A c, d \in Challenges : signed[c].counter > 0 /\ signed[c].counter = signed[d].counter
                              /\ signed[c].key = signed[d].key => c = d

SlotOK(r) ==
  /\ req[r].pc \in {"sent", "found"} => req[r].seen = None
  /\ req[r].op = "registration" /\ req[r].pc \in {"ok", "spent", "free"} => Matches(r)
  /\ req[r].code = 401 /\ Matches(r) /\ req[r].seen # None => Overtaken(r)

OvertakeInv ==
  /\ PasskeyInv /\ SignedOnce /\ Earned
  /\ \A r \in Requests : SlotOK(r)

(* What a step does to the slot it works on. *)
SameBody(r) ==
  /\ req[r].pc \notin {"idle", "answered"}
  /\ req'[r].op = req[r].op
  /\ req'[r].session = req[r].session /\ req'[r].answers = req[r].answers

GoesOn(r) ==
  /\ req'[r].code = 0
  /\ \/ req'[r].pc \in {"found", "stale"} /\ req[r].pc = "sent" /\ req'[r].seen = req[r].seen
     \/ req'[r].pc = "ok" /\ (req[r].op = "registration" => Matches(r))
     \/ req'[r].pc \in {"spent", "free"} /\ req[r].pc \in {"ok", "spent"}

Ends(r) == req'[r].pc \in {"bad", "answered"} /\ req'[r].code # 401

Refuses(r) ==
  /\ req'[r].pc \in {"bad", "answered"} /\ req'[r].code = 401
  /\ \/ req'[r].seen = None
     \/ req[r].code = 401 /\ req'[r].seen = req[r].seen
     \/ /\ UNCHANGED <<pending, credential, signed>>
        /\ req[r].op = "authentication"
        /\ Matches(r) => ~Grows(Body(r).counter, Row(r).counter)

Works(r) == SameBody(r) /\ (GoesOn(r) \/ Ends(r) \/ Refuses(r))

LEMMA WorksStep ==
  ASSUME PasskeyInv, NEW r \in Requests, SlotOK(r), ServerStep(r) \/ Fail(r)
  PROVE  Works(r)
<1>1. TypeOK /\ RequestOK(r)
  BY DEF PasskeyInv
<1>2. req[r].pc \in Working => req[r].code = 0
  BY <1>1 DEF RequestOK
<1>3. ASSUME NEW pc \in {"found", "stale", "ok", "spent", "free"}, Goto(r, pc)
      PROVE  /\ req'[r].op = req[r].op /\ req'[r].session = req[r].session
             /\ req'[r].answers = req[r].answers /\ req'[r].seen = req[r].seen
             /\ req'[r].pc = pc /\ req'[r].code = req[r].code
  <2>1. pc \in PCs
    BY DEF PCs
  <2> QED  BY <1>1, <1>3, <2>1, GotoFacts
<1>4. ASSUME NEW code \in Codes, Answer(r, code), req[r].pc \notin {"idle", "answered"},
             code # 401 \/ req[r].code = 401
      PROVE  Works(r)
  BY <1>1, <1>4, AnswerFacts DEF Works, SameBody, Ends, Refuses
<1>5. CASE FindChallenge(r)
  <2>1. req[r].pc = "sent" /\ \E pc \in {"found", "stale"} : Goto(r, pc)
    BY <1>5 DEF FindChallenge
  <2> QED  BY <1>2, <1>3, <2>1 DEF Works, SameBody, GoesOn, Working
<1>6. CASE DropStale(r)
  BY <1>4, <1>6 DEF DropStale, Codes
<1>7. CASE VerifyRegistration(r)
  <2>1. req[r].pc = "found" /\ req[r].op = "registration"
    BY <1>7 DEF VerifyRegistration, At
  <2>2. CASE Matches(r) /\ Goto(r, "ok")
    BY <1>2, <1>3, <2>1, <2>2 DEF Works, SameBody, GoesOn, Working
  <2>3. CASE Reject(r, 400)
    <3>1. 400 \in Codes
      BY DEF Codes
    <3> QED  BY <1>1, <2>1, <2>3, <3>1, RejectFacts DEF Works, SameBody, Ends
  <2> QED  BY <1>7, <2>2, <2>3 DEF VerifyRegistration
<1>8. CASE VerifyAssertion(r)
  <2>1. /\ req[r].pc = "found" /\ req[r].op = "authentication"
        /\ UNCHANGED <<pending, credential, signed>>
    BY <1>8 DEF VerifyAssertion, At
  <2>2. ASSUME NEW code \in {401, 403}, Reject(r, code)  PROVE Works(r)
    <3>1. code \in Codes /\ req[r].seen = None
      BY <2>1 DEF Codes, SlotOK
    <3> QED  BY <1>1, <2>1, <2>2, <3>1, RejectFacts DEF Works, SameBody, Ends, Refuses
  <2> DEFINE good == Matches(r) /\ Grows(Body(r).counter, Row(r).counter)
             v == Row(r).counter
             q == Judged(req[r], v, good)
  <2>3. CASE req' = [req EXCEPT ![r] = q]
    <3>1. v \in Counts
      <4>1. Body(r).key \in Keys
        BY <1>1, <2>1 DEF RequestOK, TypeOK, Response, Body
      <4> QED  BY <1>1, <4>1 DEF TypeOK, Row, CredentialRow, NoRow, Counts
    <3>2. good \in BOOLEAN /\ req[r] \in Request /\ req'[r] = q
      BY <1>1, <2>3 DEF TypeOK, Matches, Grows
    <3>3. Matches(r) /\ ~good => ~Grows(Body(r).counter, Row(r).counter)
      OBVIOUS
    <3> HIDE DEF good, v
    <3>4. /\ q.op = req[r].op /\ q.session = req[r].session /\ q.answers = req[r].answers
          /\ \/ good /\ q.pc = "ok" /\ q.code = 0
             \/ ~good /\ q.pc = "bad" /\ q.code = 401
      BY <3>1, <3>2, JudgedFacts
    <3> HIDE DEF q
    <3> QED  BY <2>1, <3>2, <3>3, <3>4 DEF Works, SameBody, GoesOn, Refuses
  <2> QED  BY <1>8, <2>2, <2>3 DEF VerifyAssertion
<1>9. CASE DeleteChallenge(r)
  <2>1. req[r].pc \in {"ok", "bad"}
    BY <1>9 DEF DeleteChallenge
  <2>2. CASE req[r].pc = "ok" /\ Goto(r, "spent")
    BY <1>2, <1>3, <2>2 DEF Works, SameBody, GoesOn, Working
  <2>3. CASE Answer(r, req[r].code) \/ Answer(r, 500)
    <3>1. req[r].code \in Codes /\ 500 \in Codes
      BY <1>1 DEF TypeOK, Request, Codes
    <3> QED  BY <1>4, <2>1, <2>3, <3>1
  <2> QED  BY <1>9, <2>1, <2>2, <2>3 DEF DeleteChallenge
<1>10. CASE CheckUsername(r)
  <2>1. req[r].pc = "spent"
    BY <1>10 DEF CheckUsername, At
  <2>2. CASE Goto(r, "free")
    BY <1>2, <1>3, <2>1, <2>2 DEF Works, SameBody, GoesOn, Working
  <2>3. CASE Answer(r, 409) \/ Answer(r, 500)
    BY <1>4, <2>1, <2>3 DEF Codes
  <2> QED  BY <1>10, <2>2, <2>3 DEF CheckUsername
<1>11. CASE CreateMember(r)
  BY <1>4, <1>11 DEF CreateMember, At, Codes
<1>12. CASE StoreCounter(r)
  BY <1>4, <1>12 DEF StoreCounter, At, Codes
<1>13. CASE Fail(r)
  BY <1>4, <1>13 DEF Fail, Codes
<1> QED
  BY <1>5, <1>6, <1>7, <1>8, <1>9, <1>10, <1>11, <1>12, <1>13
     DEF ServerStep, FinishRegistration, FinishAuthentication

LEMMA NextStable ==
  ASSUME PasskeyInv, Next
  PROVE  Stable /\ TypeOK' /\ TypeOK
<1>1. ASSUME NEW r \in Requests, ServerStep(r) \/ Fail(r)  PROVE Step(r)
  BY <1>1, FindStep, DropStep, DeleteStep, VerifyRegistrationStep, CheckUsernameStep,
     CreateStep, VerifyAssertionStep, StoreStep, FailStep
     DEF ServerStep, FinishRegistration, FinishAuthentication
<1>2. ASSUME NEW c \in Challenges,
             StartAuthentication(c) \/ \E n \in Names : StartRegistration(c, n)
      PROVE  Outside
  BY <1>2, StartStep DEF StartAuthentication, StartRegistration
<1>3. ASSUME NEW k \in Suspendable, NEW s \in Statuses, SetStatus(k, s)  PROVE Outside
  BY <1>3, SetStatusStep
<1>4. TypeOK
  BY DEF PasskeyInv
<1>5. ASSUME NEW c \in Challenges, NEW k \in Keys,
             Sign(c, k) \/ \E n \in Counts : MakePasskey(c, k, n)
      PROVE  Outside
  BY <1>5, MakePasskeySigns, SignSigns, SignsStep
<1> QED
  BY <1>1, <1>2, <1>3, <1>4, <1>5, ExpireStep, FinishStep DEF Next, Step, Outside

LEMMA SlotMoves ==
  ASSUME OvertakeInv, Next
  PROVE  \/ UNCHANGED req
         \/ \E r \in Requests :
              /\ Only(r)
              /\ \/ Works(r)
                 \/ /\ req[r].pc = "idle" /\ req'[r].pc = "sent"
                    /\ req'[r].seen = None /\ req'[r].code = 0
<1>1. PasskeyInv /\ TypeOK /\ \A r \in Requests : SlotOK(r)
  BY DEF OvertakeInv, PasskeyInv
<1>2. ASSUME NEW r \in Requests, ServerStep(r) \/ Fail(r)  PROVE Only(r) /\ Works(r)
  <2>1. Step(r)
    BY <1>1, <1>2, FindStep, DropStep, DeleteStep, VerifyRegistrationStep, CheckUsernameStep,
       CreateStep, VerifyAssertionStep, StoreStep, FailStep
       DEF ServerStep, FinishRegistration, FinishAuthentication
  <2> QED  BY <1>1, <1>2, <2>1, WorksStep DEF Step, Moves
<1>3. ASSUME NEW r \in Requests, NEW op \in Ceremonies, NEW c \in Challenges,
             NEW d \in Challenges, Finish(r, op, c, d)
      PROVE  /\ Only(r) /\ req[r].pc = "idle" /\ req'[r].pc = "sent"
             /\ req'[r].seen = None /\ req'[r].code = 0
  BY <1>1, <1>3 DEF Finish, Blank, Only, TypeOK
<1>4. ASSUME ~\E r \in Requests : ServerStep(r) \/ Fail(r),
             ~\E r \in Requests, op \in Ceremonies, c, d \in Challenges : Finish(r, op, c, d)
      PROVE  UNCHANGED req
  BY <1>4 DEF Next, Expire, StartAuthentication, StartRegistration, Start, MakePasskey, Sign,
              SetStatus
<1> QED  BY <1>2, <1>3, <1>4

(* A login that has its answer keeps it, and what it was sent with.         *)
LEMMA WonStays ==
  ASSUME OvertakeInv, Next, NEW s \in Requests, Won(s)
  PROVE  req'[s] = req[s] /\ Body(s)' = Body(s) /\ Won(s)'
<1>1. RequestOK(s) /\ Stable
  BY NextStable DEF OvertakeInv, PasskeyInv
<1>2. req[s].pc = "answered"
  BY <1>1 DEF RequestOK, Won, Working, OvertakeInv, PasskeyInv, TypeOK, Request, PCs
<1>3. req'[s] = req[s]
  BY <1>2, SlotMoves DEF Only, Works, SameBody
<1>4. req[s].answers \in Challenges /\ Body(s) # Unsigned
  BY <1>1, <1>2 DEF RequestOK
<1> QED  BY <1>1, <1>3, <1>4 DEF Stable, Body, Won

LEMMA SignedOnceStep ==
  ASSUME OvertakeInv, Next
  PROVE  SignedOnce'
<1>1. PasskeyInv /\ SignedOnce /\ TypeOK
  BY DEF OvertakeInv, PasskeyInv
<1>2. CASE UNCHANGED signed
  BY <1>1, <1>2 DEF SignedOnce, MadeFirst
<1>3. ASSUME NEW c \in Challenges, NEW k \in Keys, NEW x, Signs(c, k, x)
      PROVE  SignedOnce'
  <2>1. /\ signed'[c] = x /\ x.key = k /\ k # None /\ x.counter \in Int
        /\ \A d \in Challenges : d # c => signed'[d] = signed[d]
    BY <1>1, <1>3, NoneAssumption DEF Signs, TypeOK, Response, Counts
  <2>2. ASSUME NEW d \in Challenges, d # c, signed'[d].key = k
        PROVE  /\ x.kind = "authentication" /\ signed'[d].counter <= x.counter
               /\ x.counter = 0 \/ signed'[d].counter # x.counter
    BY <1>3, <2>1, <2>2 DEF Signs, MadeFor
  <2>3. MadeFirst'
    <3> SUFFICES ASSUME NEW d \in Challenges, NEW e \in Challenges,
                        signed'[d].kind = "registration", signed'[d].key = signed'[e].key
                 PROVE  signed'[d].counter <= signed'[e].counter
      BY DEF MadeFirst
    <3>1. CASE d # c /\ e # c
      BY <1>1, <2>1, <3>1 DEF SignedOnce, MadeFirst
    <3>2. CASE d = c /\ e # c
      BY <2>1, <2>2, <3>2
    <3>3. CASE d # c /\ e = c
      BY <2>1, <2>2, <3>3
    <3>4. CASE d = c /\ e = c
      BY <2>1, <3>4
    <3> QED  BY <3>1, <3>2, <3>3, <3>4
  <2>4. ASSUME NEW d \in Challenges, NEW e \in Challenges, signed'[d].counter > 0,
               signed'[d].counter = signed'[e].counter, signed'[d].key = signed'[e].key
        PROVE  d = e
    <3>1. CASE d # c /\ e # c
      BY <1>1, <2>1, <2>4, <3>1 DEF SignedOnce
    <3>2. CASE d = c \/ e = c
      BY <2>1, <2>2, <2>4, <3>2
    <3> QED  BY <3>1, <3>2
  <2> QED  BY <2>3, <2>4 DEF SignedOnce
<1>4. ASSUME NEW c \in Challenges, NEW k \in Keys,
             Sign(c, k) \/ \E n \in Counts : MakePasskey(c, k, n)
      PROVE  SignedOnce'
  BY <1>1, <1>3, <1>4, MakePasskeySigns, SignSigns
<1> QED
  BY <1>2, <1>4
     DEF Next, ServerStep, FinishRegistration, FinishAuthentication, FindChallenge, DropStale,
         DeleteChallenge, VerifyRegistration, VerifyAssertion, CheckUsername, CreateMember,
         StoreCounter, Fail, Finish, SetStatus, Expire, StartAuthentication,
         StartRegistration, Start

(* A stored counter changes in a login, to the one just signed; a new       *)
(* passkey's is the one it was made with.                                   *)
LEMMA RowCounters ==
  ASSUME OvertakeInv, Next, NEW k \in Keys
  PROVE  \/ credential'[k].counter = credential[k].counter
         \/ \E c \in Challenges : /\ MadeFor(c, k) /\ signed[c].kind = "registration"
                                  /\ signed[c].counter = credential'[k].counter
         \/ \E r \in Requests : StoreCounter(r) /\ Body(r).key = k
                                /\ credential'[k].counter = Body(r).counter
<1>1. TypeOK /\ SignedOnce /\ CountersOK /\ \A r \in Requests : RequestOK(r) /\ SlotOK(r)
  BY DEF OvertakeInv, PasskeyInv
<1>2. CASE UNCHANGED credential
  BY <1>2
<1>3. ASSUME NEW j \in Keys, NEW s \in Statuses, SetStatus(j, s)
      PROVE  credential'[k].counter = credential[k].counter
  <2> DEFINE row == [credential[j] EXCEPT !.status = s]
  <2>1. credential' = [credential EXCEPT ![j] = row] /\ row.counter = credential[j].counter
    BY <1>1, <1>3 DEF SetStatus, TypeOK, CredentialRow
  <2> HIDE DEF row
  <2> QED  BY <1>1, <2>1 DEF TypeOK
<1>4. ASSUME NEW r \in Requests, CreateMember(r), credential' # credential
      PROVE  \/ credential'[k].counter = credential[k].counter
             \/ \E c \in Challenges : /\ MadeFor(c, k) /\ signed[c].kind = "registration"
                                      /\ signed[c].counter = credential'[k].counter
  <2>1. req[r].op = "registration" /\ req[r].pc = "free"
    BY <1>4 DEF CreateMember, At
  <2>2. /\ req[r].answers \in Challenges /\ Body(r) = signed[req[r].answers]
        /\ Body(r).kind = "registration"
    BY <1>1, <2>1 DEF RequestOK, SlotOK, Matches, Body
  <2> DEFINE row == [name |-> NewName(r), status |-> "UNVERIFIED", counter |-> Body(r).counter]
  <2>3. credential' = [credential EXCEPT ![Body(r).key] = row] /\ row.counter = Body(r).counter
    BY <1>4 DEF CreateMember
  <2> HIDE DEF row
  <2> QED  BY <1>1, <2>2, <2>3 DEF TypeOK, MadeFor
<1>5. ASSUME NEW r \in Requests, StoreCounter(r)
      PROVE  \/ credential'[k].counter = credential[k].counter
             \/ Body(r).key = k /\ credential'[k].counter = Body(r).counter
  <2> DEFINE row == [credential[Body(r).key] EXCEPT !.counter = Body(r).counter]
  <2>1. req[r].op = "authentication" /\ req[r].pc = "spent"
    BY <1>5 DEF StoreCounter, At
  <2>2. Body(r).key \in Keys /\ Row(r) # NoRow
    BY <1>1, <2>1, BodyFacts DEF RequestOK
  <2>3. credential[Body(r).key] \in CredentialRow
    BY <1>1, <2>2 DEF TypeOK, Row
  <2>4. credential' = [credential EXCEPT ![Body(r).key] = row] /\ row.counter = Body(r).counter
    BY <1>5, <2>3 DEF StoreCounter, CredentialRow
  <2> HIDE DEF row
  <2> QED  BY <1>1, <2>2, <2>4 DEF TypeOK
<1> QED
  BY <1>2, <1>3, <1>4, <1>5
     DEF Next, ServerStep, FinishRegistration, FinishAuthentication, FindChallenge, DropStale,
         DeleteChallenge, VerifyRegistration, VerifyAssertion, CheckUsername, Fail, Finish,
         MakePasskey, Sign, Expire, StartAuthentication, StartRegistration, Start

LEMMA EarnedStep ==
  ASSUME OvertakeInv, Next
  PROVE  Earned'
<1> SUFFICES ASSUME NEW k \in Keys, credential'[k].counter > 0
             PROVE  \/ \E s \in Requests : /\ Won(s)' /\ Body(s)'.key = k
                                           /\ Body(s)'.counter = credential'[k].counter
                    \/ \E c \in Challenges : /\ MadeFor(c, k)' /\ signed'[c].kind = "registration"
                                             /\ signed'[c].counter = credential'[k].counter
  BY DEF Earned
<1>0. ASSUME NEW c \in Challenges, MadeFor(c, k)  PROVE MadeFor(c, k)' /\ signed'[c] = signed[c]
  <2>1. signed[c] # Unsigned /\ Stable
    BY <1>0, NextStable, NoneAssumption DEF MadeFor, Unsigned, OvertakeInv
  <2> QED  BY <1>0, <2>1 DEF Stable, MadeFor
<1>1. CASE credential'[k].counter = credential[k].counter
  <2>1. CASE \E s \in Requests :
               Won(s) /\ Body(s).key = k /\ Body(s).counter = credential[k].counter
    BY <1>1, <2>1, WonStays
  <2>2. CASE \E c \in Challenges : /\ MadeFor(c, k) /\ signed[c].kind = "registration"
                                   /\ signed[c].counter = credential[k].counter
    BY <1>0, <1>1, <2>2
  <2> QED  BY <1>1, <2>1, <2>2 DEF OvertakeInv, Earned
<1>2. ASSUME NEW r \in Requests, StoreCounter(r), Body(r).key = k,
             credential'[k].counter = Body(r).counter
      PROVE  Won(r)' /\ Body(r)'.key = k /\ Body(r)'.counter = credential'[k].counter
  <2>1. TypeOK /\ Answer(r, 200) /\ req[r].op = "authentication" /\ signed' = signed
    BY <1>2 DEF OvertakeInv, PasskeyInv, StoreCounter, At
  <2>2. 200 \in Codes
    BY DEF Codes
  <2>3. req'[r].op = req[r].op /\ req'[r].answers = req[r].answers /\ req'[r].code = 200
    BY <2>1, <2>2, AnswerFacts
  <2>4. Body(r)' = Body(r)
    BY <2>1, <2>3 DEF Body
  <2> QED  BY <1>2, <2>1, <2>3, <2>4 DEF Won
<1> QED  BY <1>0, <1>1, <1>2, RowCounters

LEMMA OvertakenStays ==
  ASSUME OvertakeInv, Next, NEW r \in Requests, req[r].pc # "idle", Overtaken(r),
         req'[r].answers = req[r].answers
  PROVE  Overtaken(r)'
<1>1. PICK s \in Requests :
        /\ s # r /\ Won(s)
        /\ \/ req[s].answers = req[r].answers
           \/ Body(s).key = Body(r).key /\ Body(s).counter > Body(r).counter
  BY DEF Overtaken
<1>2. req[r].answers \in Challenges /\ Body(r) # Unsigned /\ Stable
  BY NextStable DEF OvertakeInv, PasskeyInv, RequestOK
<1>3. Body(r)' = Body(r)
  BY <1>2 DEF Stable, Body
<1>4. req'[s] = req[s] /\ Body(s)' = Body(s) /\ Won(s)'
  BY <1>1, WonStays
<1> QED  BY <1>1, <1>3, <1>4 DEF Overtaken

LEMMA MatchesStays ==
  ASSUME OvertakeInv, Next, NEW r \in Requests, req[r].pc # "idle", req'[r].op = req[r].op,
         req'[r].session = req[r].session, req'[r].answers = req[r].answers
  PROVE  Matches(r)' <=> Matches(r)
<1>1. req[r].answers \in Challenges /\ Body(r) # Unsigned /\ Stable
  BY NextStable DEF OvertakeInv, PasskeyInv, RequestOK
<1>2. Body(r)' = Body(r)
  BY <1>1 DEF Stable, Body
<1> QED  BY <1>2 DEF Matches

(* The heart of it: what an assertion that does not grow was overtaken by.  *)
LEMMA RefusedWhy ==
  ASSUME OvertakeInv, NEW r \in Requests, req[r].pc \notin {"idle", "answered"}, Matches(r),
         req[r].op = "authentication", ~Grows(Body(r).counter, Row(r).counter)
  PROVE  Overtaken(r)
<1>1. TypeOK /\ RequestOK(r) /\ SignedOnce /\ CountersOK
  BY DEF OvertakeInv, PasskeyInv
<1>2. Body(r).key \in Keys /\ Body(r).counter \in Counts
  BY <1>1, BodyFacts
<1> DEFINE k == Body(r).key
           v == credential[k].counter
<1>3. v \in Counts /\ Row(r).counter = v
  BY <1>1, <1>2 DEF TypeOK, Row, CredentialRow, NoRow, Counts
<1>4. v > 0 /\ v >= Body(r).counter
  BY <1>2, <1>3 DEF Grows, Counts
<1> HIDE DEF v
<1>0. ~\E c \in Challenges : MadeFor(c, k) /\ signed[c].kind = "registration" /\ signed[c].counter = v
  <2> SUFFICES ASSUME NEW c \in Challenges, MadeFor(c, k), signed[c].kind = "registration",
                      signed[c].counter = v
               PROVE  FALSE
    OBVIOUS
  <2>1. /\ req[r].answers \in Challenges /\ Body(r) = signed[req[r].answers]
        /\ Body(r).kind = "authentication"
    BY <1>1 DEF RequestOK, Body, Matches
  <2>2. v <= Body(r).counter
    BY <1>1, <2>1 DEF SignedOnce, MadeFirst, MadeFor
  <2>3. v = Body(r).counter
    BY <1>2, <1>3, <1>4, <2>2 DEF Counts
  <2>4. c = req[r].answers
    BY <1>1, <1>4, <2>1, <2>3 DEF SignedOnce, MadeFor
  <2> QED  BY <2>1, <2>4
<1>5. PICK s \in Requests : Won(s) /\ Body(s).key = k /\ Body(s).counter = v
  BY <1>0, <1>2, <1>4 DEF OvertakeInv, Earned, v
<1>6. req[s].pc = "answered" /\ req[s].answers \in Challenges
  BY <1>5 DEF OvertakeInv, PasskeyInv, RequestOK, Won, Working, TypeOK, Request, PCs
<1>7. s # r
  BY <1>6
<1>8. CASE v = Body(r).counter
  <2>1. req[r].answers \in Challenges
    BY <1>1 DEF RequestOK
  <2>2. req[s].answers = req[r].answers
    BY <1>1, <1>4, <1>5, <1>6, <1>8, <2>1 DEF SignedOnce, Body
  <2> QED  BY <1>5, <1>7, <2>2 DEF Overtaken
<1>9. CASE v > Body(r).counter
  BY <1>5, <1>7, <1>9 DEF Overtaken
<1> QED  BY <1>2, <1>3, <1>4, <1>8, <1>9 DEF Counts

LEMMA SlotOKStep ==
  ASSUME OvertakeInv, Next, NEW r \in Requests
  PROVE  SlotOK(r)'
<1>1. SlotOK(r) /\ RequestOK(r) /\ TypeOK
  BY DEF OvertakeInv, PasskeyInv
<1>2. CASE req'[r] = req[r] /\ req[r].pc = "idle"
  BY <1>1, <1>2 DEF SlotOK, RequestOK, Working
<1>3. CASE req'[r] = req[r] /\ req[r].pc # "idle"
  <2>1. Matches(r)' <=> Matches(r)
    BY <1>3, MatchesStays
  <2>2. Overtaken(r) => Overtaken(r)'
    BY <1>3, OvertakenStays
  <2> QED  BY <1>1, <1>3, <2>1, <2>2 DEF SlotOK
<1>4. CASE req'[r].pc = "sent" /\ req'[r].seen = None /\ req'[r].code = 0
  BY <1>4 DEF SlotOK
<1>5. CASE Works(r)
  <2>1. SameBody(r) /\ (Matches(r)' <=> Matches(r))
    BY <1>5, MatchesStays DEF Works, SameBody
  <2>2. CASE GoesOn(r)
    BY <1>1, <2>1, <2>2 DEF GoesOn, SameBody, SlotOK
  <2>3. CASE Ends(r)
    BY <2>1, <2>3 DEF Ends, SlotOK
  <2>4. CASE Refuses(r)
    <3>1. SlotOK(r)' \/ (Matches(r) /\ Overtaken(r))
      <4>1. CASE req'[r].seen = None
        BY <2>4, <4>1 DEF Refuses, SlotOK
      <4>2. CASE req[r].code = 401 /\ req'[r].seen = req[r].seen
        BY <1>1, <2>1, <2>4, <4>2 DEF Refuses, SlotOK
      <4>3. CASE /\ req[r].op = "authentication"
                 /\ Matches(r) => ~Grows(Body(r).counter, Row(r).counter)
        BY <2>1, <2>4, <4>3, RefusedWhy DEF Refuses, SlotOK, SameBody
      <4> QED  BY <2>4, <4>1, <4>2, <4>3 DEF Refuses
    <3>2. Overtaken(r) => Overtaken(r)'
      BY <2>1, OvertakenStays DEF SameBody
    <3> QED  BY <2>4, <3>1, <3>2 DEF Refuses, SlotOK
  <2> QED  BY <1>5, <2>2, <2>3, <2>4 DEF Works
<1> QED  BY <1>2, <1>3, <1>4, <1>5, SlotMoves DEF Only

LEMMA OvertakeInvariant == Spec => []OvertakeInv
<1>1. Init => OvertakeInv
  <2> SUFFICES ASSUME Init  PROVE OvertakeInv
    OBVIOUS
  <2>1. SignedOnce
    BY DEF Init, Unsigned, SignedOnce, MadeFirst
  <2>2. Earned
    BY DEF Init, NoRow, Earned
  <2>3. \A r \in Requests : SlotOK(r)
    BY DEF Init, Blank, SlotOK
  <2> QED  BY <2>1, <2>2, <2>3, InitInv DEF OvertakeInv
<1>2. OvertakeInv /\ [Next]_vars => OvertakeInv'
  <2> SUFFICES ASSUME OvertakeInv, [Next]_vars  PROVE OvertakeInv'
    OBVIOUS
  <2>1. PasskeyInv'
    BY NextInv DEF OvertakeInv
  <2>2. CASE Next
    BY <2>1, <2>2, SignedOnceStep, EarnedStep, SlotOKStep DEF OvertakeInv
  <2>3. CASE UNCHANGED vars
    BY <2>1, <2>3 DEF vars, OvertakeInv, SignedOnce, MadeFirst, Earned, SlotOK, Overtaken, Won,
                      Matches, MadeFor, Body
  <2> QED  BY <2>2, <2>3
<1> QED  BY <1>1, <1>2, PTL DEF Spec

(* A good assertion of a known passkey is refused only if a login that has  *)
(* its answer carried the same assertion or a later one.                    *)
THEOREM RefusedWhenOvertaken == Spec => []RefusedOnlyIfOvertaken
<1>1. OvertakeInv => RefusedOnlyIfOvertaken
  <2> SUFFICES ASSUME OvertakeInv, NEW r \in Requests,
                      req[r].code = 401, Matches(r), req[r].seen # None
               PROVE  \E s \in Requests :
                        /\ s # r /\ Passed(s) /\ req[s].op = "authentication"
                        /\ \/ req[s].answers = req[r].answers
                           \/ Body(s).key = Body(r).key /\ Body(s).counter > Body(r).counter
    BY DEF RefusedOnlyIfOvertaken
  <2>1. Overtaken(r)
    BY DEF OvertakeInv, SlotOK
  <2> QED  BY <2>1 DEF Overtaken, Won, Passed
<1> QED  BY <1>1, OvertakeInvariant, PTL

-----------------------------------------------------------------------------
(***************************************************************************)
(* Membership.  Names are only written by a sign-up, at the moment its      *)
(* create finds no row in the way; what it writes is the name kept with     *)
(* the challenge its response was made for, which is gone by then.          *)
(***************************************************************************)
SignsUp(r, k, n) ==
  /\ req[r].pc = "free" /\ req[r].op = "registration"
  /\ k = Body(r).key /\ k \in Keys /\ n = NewName(r) /\ n \in Names
  /\ credential[k] = NoRow /\ ~NameTaken(n)
  /\ Usernames' = [Usernames EXCEPT ![k] = n]
  /\ Links' = [Links EXCEPT ![k] = {k}]
  /\ UNCHANGED pending

LEMMA RowsHaveNames ==
  ASSUME TypeOK
  PROVE  \A k \in Keys : credential[k] = NoRow <=> credential[k].name = None
BY DEF TypeOK, CredentialRow, NoRow

(* A write of one row that keeps its name changes nobody's membership. *)
LEMMA SameMembers ==
  ASSUME TypeOK, TypeOK', NEW k \in Keys, NEW row,
         credential' = [credential EXCEPT ![k] = row], row.name = credential[k].name
  PROVE  UNCHANGED <<Usernames, Links>>
<1>1. \A l \in Keys : credential'[l].name = credential[l].name
  BY DEF TypeOK
<1>2. \A l \in Keys : credential'[l] = NoRow <=> credential[l] = NoRow
  BY <1>1, RowsHaveNames DEF TypeOK, CredentialRow, NoRow
<1> QED  BY <1>1, <1>2 DEF Usernames, Links

LEMMA SignUpStep ==
  ASSUME PasskeyInv, TypeOK', NEW r \in Requests, CreateMember(r)
  PROVE  UNCHANGED <<Usernames, Links>> \/ \E k \in Keys, n \in Names : SignsUp(r, k, n)
<1>1. TypeOK /\ CountersOK /\ RequestOK(r) /\ req[r].pc = "free" /\ req[r].op = "registration"
  BY DEF PasskeyInv, CreateMember, At
<1>2. CASE UNCHANGED credential
  BY <1>2 DEF Usernames, Links
<1>3. CASE ~UNCHANGED credential
  <2> DEFINE row == [name |-> NewName(r), status |-> "UNVERIFIED", counter |-> Body(r).counter]
  <2>1. /\ credential' = [credential EXCEPT ![Body(r).key] = row]
        /\ Row(r) = NoRow /\ ~NameTaken(NewName(r)) /\ UNCHANGED pending
    BY <1>3 DEF CreateMember
  <2>2. PICK k \in Keys : k = Body(r).key
    BY <1>1, BodyFacts
  <2>3. PICK n \in Names : n = NewName(r)
    BY <1>1 DEF RequestOK
  <2>4. row.name = n /\ row # NoRow
    BY <2>3 DEF NoRow
  <2> HIDE DEF row
  <2>5. /\ credential'[k] = row
        /\ \A l \in Keys : l # k => credential'[l] = credential[l]
    BY <1>1, <2>1, <2>2 DEF TypeOK
  <2>6. Usernames' = [Usernames EXCEPT ![k] = n]
    BY <2>4, <2>5 DEF Usernames
  <2>7. Links' = [Links EXCEPT ![k] = {k}]
    BY <2>4, <2>5 DEF Links
  <2>8. credential[k] = NoRow
    BY <2>1, <2>2 DEF Row
  <2> QED  BY <1>1, <2>1, <2>2, <2>3, <2>6, <2>7, <2>8 DEF SignsUp
<1> QED  BY <1>2, <1>3

LEMMA MembersStep ==
  ASSUME PasskeyInv, [Next]_vars
  PROVE  \/ UNCHANGED <<Usernames, Links>>
         \/ \E r \in Requests, k \in Keys, n \in Names : SignsUp(r, k, n)
<1>1. TypeOK /\ TypeOK' /\ \A r \in Requests : RequestOK(r)
  BY NextInv DEF PasskeyInv
<1>2. CASE UNCHANGED credential
  BY <1>2 DEF Usernames, Links
<1>3. ASSUME NEW r \in Requests, StoreCounter(r)  PROVE UNCHANGED <<Usernames, Links>>
  <2> DEFINE row == [credential[Body(r).key] EXCEPT !.counter = Body(r).counter]
  <2>1. Body(r).key \in Keys /\ credential' = [credential EXCEPT ![Body(r).key] = row]
    BY <1>1, <1>3, BodyFacts DEF StoreCounter, At, PasskeyInv
  <2>2. row.name = credential[Body(r).key].name
    BY <1>1, <2>1 DEF TypeOK, CredentialRow, NoRow
  <2> HIDE DEF row
  <2> QED  BY <1>1, <2>1, <2>2, SameMembers
<1>4. ASSUME NEW k \in Keys, NEW s \in Statuses, SetStatus(k, s)
      PROVE  UNCHANGED <<Usernames, Links>>
  <2> DEFINE row == [credential[k] EXCEPT !.status = s]
  <2>1. credential' = [credential EXCEPT ![k] = row]
    BY <1>4 DEF SetStatus
  <2>2. row.name = credential[k].name
    BY <1>1 DEF TypeOK, CredentialRow, NoRow
  <2> HIDE DEF row
  <2> QED  BY <1>1, <2>1, <2>2, SameMembers
<1>5. ASSUME NEW r \in Requests, CreateMember(r)
      PROVE  \/ UNCHANGED <<Usernames, Links>>
             \/ \E k \in Keys, n \in Names : SignsUp(r, k, n)
  BY <1>1, <1>5, SignUpStep
<1>6. CASE Next /\ ~UNCHANGED credential
  <2>1. \/ \E r \in Requests : CreateMember(r) \/ StoreCounter(r)
        \/ \E k \in Suspendable, s \in Statuses : SetStatus(k, s)
    BY <1>6 DEF Next, ServerStep, FinishRegistration, FinishAuthentication, Expire,
         StartAuthentication, StartRegistration, Start, MakePasskey, Sign, Finish,
         FindChallenge, DropStale, DeleteChallenge, VerifyRegistration, CheckUsername,
         VerifyAssertion, Fail
  <2> QED  BY <1>3, <1>4, <1>5, <2>1
<1> QED  BY <1>2, <1>6 DEF vars

(* Whoever signs up with a passkey joins the directory in one step, with a  *)
(* free name and a passkey that is nobody's, however many sign-ups race.    *)
THEOREM Joins == Spec => JoinsTheDirectory
<1>1. PasskeyInv /\ [Next]_vars => [Membership!Next]_(Membership!vars)
  <2> SUFFICES ASSUME PasskeyInv, NEW r \in Requests, NEW k \in Keys, NEW n \in Names,
                      SignsUp(r, k, n)
               PROVE  Membership!Join(k, n, {k})
    BY MembersStep DEF Membership!Next, Membership!vars
  <2>1. Usernames[k] = None
    BY DEF SignsUp, Usernames, NoRow
  <2>2. ~Membership!Taken(n)
    BY DEF SignsUp, NameTaken, Membership!Taken, Usernames
  <2>3. \A l \in {k} : ~Membership!Linked(l)
    <3>1. \A i \in Keys : k \notin Links[i]
      BY DEF SignsUp, Links
    <3> QED  BY <3>1 DEF Membership!Linked
  <2> QED  BY <2>1, <2>2, <2>3 DEF SignsUp, Membership!Join
<1> QED  BY <1>1, PasskeysInvariant, PTL DEF Spec, JoinsTheDirectory

LEMMA CeremonyStep ==
  ASSUME OvertakeInv, NamedByItsCeremony, [Next]_vars
  PROVE  NamedByItsCeremony'
<1>1. PasskeyInv /\ TypeOK /\ TypeOK' /\ \A r \in Requests : RequestOK(r) /\ SlotOK(r)
  BY NextInv DEF OvertakeInv, PasskeyInv
<1>2. Stable
  BY <1>1, NextStable DEF vars, Stable
<1> SUFFICES ASSUME NEW k \in Keys \ Registered, credential'[k] # NoRow
             PROVE  \E c \in Challenges :
                      /\ MadeFor(c, k)' /\ signed'[c].kind = "registration"
                      /\ pending'[c].name = credential'[k].name /\ pending'[c].state = "gone"
  BY DEF NamedByItsCeremony
<1>3. ASSUME NEW c \in Challenges, MadeFor(c, k), signed[c].kind = "registration",
             pending[c].name = credential'[k].name, pending[c].state = "gone"
      PROVE  /\ MadeFor(c, k)' /\ signed'[c].kind = "registration"
             /\ pending'[c].name = credential'[k].name /\ pending'[c].state = "gone"
  <2>1. signed[c] # Unsigned
    BY <1>3 DEF MadeFor, Unsigned
  <2> QED  BY <1>2, <1>3, <2>1 DEF Stable, MadeFor
<1>4. CASE credential'[k].name = credential[k].name
  <2>1. credential[k] # NoRow
    BY <1>1, <1>4, RowsHaveNames DEF TypeOK, CredentialRow, NoRow
  <2> QED  BY <1>3, <1>4, <2>1 DEF NamedByItsCeremony
<1>5. ASSUME NEW r \in Requests, NEW l \in Keys, NEW n \in Names, SignsUp(r, l, n),
             credential'[k].name # credential[k].name
      PROVE  \E c \in Challenges :
               /\ MadeFor(c, k) /\ signed[c].kind = "registration"
               /\ pending[c].name = credential'[k].name /\ pending[c].state = "gone"
  <2>1. l = k /\ credential'[k].name = n
    BY <1>5 DEF SignsUp, Usernames
  <2>2. /\ req[r].session = req[r].answers /\ req[r].session \in Challenges
        /\ signed[req[r].session].kind = "registration"
        /\ pending[req[r].session].state = "gone"
    BY <1>1, <1>5 DEF SignsUp, SlotOK, Matches, Body, RequestOK, Passed
  <2> QED  BY <1>5, <2>1, <2>2 DEF SignsUp, MadeFor, Body, NewName
<1>6. CASE UNCHANGED <<Usernames, Links>>
  <2>1. credential'[k].name = credential[k].name
    BY <1>6 DEF Usernames
  <2> QED  BY <1>4, <2>1
<1> QED  BY <1>1, <1>3, <1>4, <1>5, <1>6, MembersStep

(* The username of a member that signed up with a passkey is that of the    *)
(* ceremony the passkey was made in, whatever a body pairs.                 *)
THEOREM Named == Spec => []NamedByItsCeremony
<1>1. Init => NamedByItsCeremony
  BY DEF Init, NamedByItsCeremony
<1>2. OvertakeInv /\ NamedByItsCeremony /\ [Next]_vars => NamedByItsCeremony'
  BY CeremonyStep
<1> QED  BY <1>1, <1>2, OvertakeInvariant, PTL DEF Spec
=============================================================================
