---------------------------- MODULE ClientsProofs ----------------------------
(***************************************************************************)
(* Theorems about Clients, for any ids, clientIds, values, members and     *)
(* requests.                                                               *)
(***************************************************************************)
EXTENDS Clients, TLAPS

(* What the rows, the grants and the histories have to do with each other.  *)
RowOK(i) ==
  /\ Exists(i) => i \in known /\ client[i].clientId \in drawn
  /\ Exists(i) => \A f \in Fields : client[i].data[f] \in Values

OneHolder == \A c \in ClientIds, i, j \in Ids : i \in Holders(c) /\ j \in Holders(c) => i = j

(* Row i had the clientId c when a grant or a consent under c found it:     *)
(* whoever has c now is that row, or was given c.                           *)
Inherits(c, i) ==
  /\ c \in drawn /\ i \in known
  /\ \A j \in Holders(c) : j = i \/ j \in chosen

(* What a request holds.                                                    *)
RequestOK(r) ==
  /\ req[r].op = "none" => req[r] = Blank
  /\ At(r, "create", "sent") => Accepted(req[r].data, FALSE)
  /\ At(r, "update", "found") => Accepted(req[r].data, TRUE)
  /\ req[r].op \in {"update", "remove"} => req[r].id \in known
  /\ req[r].op \in {"consent", "list"} => req[r].member \in Members
  /\ req[r].op = "consent" => req[r].clientId \in ClientIds
  /\ At(r, "consent", "found") => Inherits(req[r].clientId, req[r].id)

Named(r) == {e.clientId : e \in req[r].entries}

(* What was granted all along is still to be read, to be named, or named.   *)
ListOK(r) ==
  /\ req[r].op # "list" => req[r].live = {}
  /\ At(r, "list", "sent") => req[r].live \subseteq Granted(req[r].member)
  /\ At(r, "list", "found") => req[r].live \subseteq req[r].pending \cup Named(r)
  /\ At(r, "list", "answered") /\ req[r].code = 200 => req[r].live \subseteq Named(r)

ClientInv ==
  /\ TypeOK
  /\ \A i \in Ids : RowOK(i)
  /\ OneHolder
  /\ \A g \in grants : Inherits(g.clientId, g.client)
  /\ \A r \in Requests : RequestOK(r) /\ ListOK(r)

-----------------------------------------------------------------------------
Only(r) ==
  /\ req' \in [Requests -> Request]
  /\ \A s \in Requests : s # r => req'[s] = req[s]

LEMMA AnswerStep ==
  ASSUME TypeOK, NEW r \in Requests, NEW code \in Codes, Answer(r, code)
  PROVE  /\ Only(r) /\ req'[r].pc = "answered" /\ req'[r].code = code
         /\ req'[r].op = req[r].op /\ req'[r].id = req[r].id
         /\ req'[r].clientId = req[r].clientId /\ req'[r].member = req[r].member
         /\ req'[r].entries = req[r].entries /\ req'[r].live = req[r].live
<1> DEFINE q == [req[r] EXCEPT !.pc = "answered", !.code = code, !.data = NoData]
<1>1. req \in [Requests -> Request] /\ req' = [req EXCEPT ![r] = q] /\ req[r] \in Request
  BY DEF TypeOK, Answer
<1>2. NoData \in Body
  BY DEF NoData, Body
<1>3. /\ q \in Request /\ q.pc = "answered" /\ q.code = code /\ q.op = req[r].op
      /\ q.id = req[r].id /\ q.clientId = req[r].clientId /\ q.member = req[r].member
      /\ q.entries = req[r].entries /\ q.live = req[r].live
  <2>1. q \in Request
    BY <1>1, <1>2 DEF Request
  <2> QED  BY <1>1, <2>1 DEF Request
<1> HIDE DEF q
<1> QED  BY <1>1, <1>3 DEF Only

LEMMA GotoStep ==
  ASSUME TypeOK, NEW r \in Requests, Goto(r, "found")
  PROVE  /\ Only(r) /\ req'[r].pc = "found" /\ req'[r].code = req[r].code
         /\ req'[r].op = req[r].op /\ req'[r].id = req[r].id /\ req'[r].data = req[r].data
         /\ req'[r].clientId = req[r].clientId /\ req'[r].member = req[r].member
         /\ req'[r].entries = req[r].entries /\ req'[r].live = req[r].live
<1> DEFINE q == [req[r] EXCEPT !.pc = "found"]
<1>1. req \in [Requests -> Request] /\ req' = [req EXCEPT ![r] = q] /\ req[r] \in Request
  BY DEF TypeOK, Goto
<1>2. /\ q \in Request /\ q.pc = "found" /\ q.code = req[r].code /\ q.op = req[r].op
      /\ q.id = req[r].id /\ q.data = req[r].data /\ q.clientId = req[r].clientId
      /\ q.member = req[r].member /\ q.entries = req[r].entries /\ q.live = req[r].live
  BY <1>1 DEF Request
<1> HIDE DEF q
<1> QED  BY <1>1, <1>2 DEF Only

(* Rows, grants and histories as they were: only the slot is in question.   *)
LEMMA QuietInv ==
  ASSUME ClientInv, NEW r \in Requests, Only(r), UNCHANGED tables,
         RequestOK(r)', ListOK(r)'
  PROVE  ClientInv'
<1>1. /\ client' = client /\ grants' = grants /\ drawn' = drawn /\ chosen' = chosen
      /\ known' = known
  BY DEF tables
<1>2. TypeOK'
  BY <1>1 DEF ClientInv, TypeOK, Only
<1>3. ASSUME NEW s \in Requests  PROVE RequestOK(s)' /\ ListOK(s)'
  <2>1. CASE s = r
    BY <2>1
  <2>2. CASE s # r
    <3>1. req'[s] = req[s] /\ RequestOK(s) /\ ListOK(s)
      BY <2>2 DEF Only, ClientInv
    <3>2. RequestOK(s)'
      BY <1>1, <3>1 DEF RequestOK, Accepted, At, Inherits, Holders, Exists
    <3>3. ListOK(s)'
      BY <1>1, <3>1 DEF ListOK, At, Granted, Named
    <3> QED  BY <3>2, <3>3
  <2> QED  BY <2>1, <2>2
<1> QED  BY <1>1, <1>2, <1>3 DEF ClientInv, RowOK, OneHolder, Inherits, Holders, Exists

(* A quiet step that ends a request. *)
LEMMA AnswerInv ==
  ASSUME ClientInv, NEW r \in Requests, NEW code \in Codes, Answer(r, code),
         UNCHANGED tables, req[r].op # "none",
         req[r].op = "list" /\ code = 200 => req[r].live \subseteq Named(r)
  PROVE  ClientInv'
<1>1. /\ TypeOK /\ RequestOK(r) /\ ListOK(r) /\ known' = known /\ client' = client
  BY DEF ClientInv, tables
<1>2. /\ Only(r) /\ req'[r].pc = "answered" /\ req'[r].code = code
      /\ req'[r].op = req[r].op /\ req'[r].id = req[r].id
      /\ req'[r].clientId = req[r].clientId /\ req'[r].member = req[r].member
      /\ req'[r].entries = req[r].entries /\ req'[r].live = req[r].live
  BY <1>1, AnswerStep
<1>3. RequestOK(r)'
  BY <1>1, <1>2 DEF RequestOK, At, Exists
<1>4. ListOK(r)'
  BY <1>1, <1>2 DEF ListOK, At, Named
<1> QED  BY <1>2, <1>3, <1>4, QuietInv
-----------------------------------------------------------------------------
(* Requests as they are sent. *)
LEMMA SendInv ==
  ASSUME ClientInv, NEW r \in Requests, NEW x \in Request, Send(r, x),
         x.pc = "sent", x.code = 0, x.op # "none",
         x.op = "create" => Accepted(x.data, FALSE),
         x.op \in {"update", "remove"} => x.id \in known,
         x.op \in {"consent", "list"} => x.member \in Members,
         x.op = "consent" => x.clientId \in ClientIds,
         x.live = IF x.op = "list" THEN Granted(x.member) ELSE {}
  PROVE  ClientInv'
<1>1. /\ TypeOK /\ req' = [req EXCEPT ![r] = x] /\ UNCHANGED tables
      /\ client' = client /\ grants' = grants /\ known' = known
  BY DEF ClientInv, Send, tables
<1>2. Only(r) /\ req'[r] = x
  BY <1>1 DEF TypeOK, Only
<1>3. RequestOK(r)'
  BY <1>1, <1>2 DEF RequestOK, Accepted, At
<1>4. ListOK(r)'
  BY <1>1, <1>2 DEF ListOK, At, Granted
<1> QED  BY <1>1, <1>2, <1>3, <1>4, QuietInv

LEMMA BlankFacts ==
  /\ Blank \in Request /\ Blank.op = "none" /\ Blank.code = 0 /\ Blank.live = {}
  /\ Blank.pc = "idle" /\ Blank.data = NoData /\ NoData \in Body
<1>1. NoData \in Body
  BY DEF NoData, Body
<1> QED  BY <1>1 DEF Blank, Request, Codes

LEMMA ClientStepInv ==
  ASSUME ClientInv, NEW r \in Requests, ClientStep(r)
  PROVE  ClientInv'
<1>0. TypeOK
  BY DEF ClientInv
<1>1. ASSUME NEW c \in ClientIds \cup {None}, NEW data \in Body, SendCreate(r, c, data)
      PROVE  ClientInv'
  <2> DEFINE x == [Blank EXCEPT !.op = "create", !.pc = "sent", !.clientId = c, !.data = data]
  <2>1. Send(r, x) /\ Accepted(data, FALSE)
    BY <1>1 DEF SendCreate
  <2>2. /\ x \in Request /\ x.op = "create" /\ x.pc = "sent" /\ x.code = 0
        /\ x.live = {} /\ x.data = data
    BY BlankFacts DEF Request
  <2> HIDE DEF x
  <2> QED  BY <2>1, <2>2, SendInv
<1>2. ASSUME NEW i \in Ids, NEW data \in Body, SendUpdate(r, i, data)
      PROVE  ClientInv'
  <2> DEFINE x == [Blank EXCEPT !.op = "update", !.pc = "sent", !.id = i, !.data = data]
  <2>1. Send(r, x) /\ i \in known
    BY <1>2 DEF SendUpdate
  <2>2. /\ x \in Request /\ x.op = "update" /\ x.pc = "sent" /\ x.code = 0
        /\ x.live = {} /\ x.id = i
    BY BlankFacts DEF Request
  <2> HIDE DEF x
  <2> QED  BY <2>1, <2>2, SendInv
<1>3. ASSUME NEW i \in Ids, SendRemove(r, i)
      PROVE  ClientInv'
  <2> DEFINE x == [Blank EXCEPT !.op = "remove", !.pc = "sent", !.id = i]
  <2>1. Send(r, x) /\ i \in known
    BY <1>3 DEF SendRemove
  <2>2. /\ x \in Request /\ x.op = "remove" /\ x.pc = "sent" /\ x.code = 0
        /\ x.live = {} /\ x.id = i
    BY BlankFacts DEF Request
  <2> HIDE DEF x
  <2> QED  BY <2>1, <2>2, SendInv
<1>4. ASSUME NEW m \in Members, NEW c \in ClientIds, SendConsent(r, m, c)
      PROVE  ClientInv'
  <2> DEFINE x == [Blank EXCEPT !.op = "consent", !.pc = "sent", !.member = m, !.clientId = c]
  <2>1. Send(r, x)
    BY <1>4 DEF SendConsent
  <2>2. /\ x \in Request /\ x.op = "consent" /\ x.pc = "sent" /\ x.code = 0
        /\ x.live = {} /\ x.member = m /\ x.clientId = c
    BY BlankFacts DEF Request
  <2> HIDE DEF x
  <2> QED  BY <2>1, <2>2, SendInv
<1>5. ASSUME NEW m \in Members, SendList(r, m)
      PROVE  ClientInv'
  <2> DEFINE x == [Blank EXCEPT !.op = "list", !.pc = "sent", !.member = m, !.live = Granted(m)]
  <2>1. Send(r, x)
    BY <1>5 DEF SendList
  <2>2. Granted(m) \in SUBSET ClientIds
    BY <1>0 DEF TypeOK, Granted, Grant
  <2>3. /\ x \in Request /\ x.op = "list" /\ x.pc = "sent" /\ x.code = 0
        /\ x.live = Granted(m) /\ x.member = m
    BY <2>2, BlankFacts DEF Request
  <2> HIDE DEF x
  <2> QED  BY <2>1, <2>3, SendInv
<1>6. CASE Done(r)
  <2>1. Only(r) /\ req'[r] = Blank /\ UNCHANGED tables
    BY <1>0, <1>6, BlankFacts DEF Done, TypeOK, Only
  <2>2. RequestOK(r)' /\ ListOK(r)'
    BY <2>1, BlankFacts DEF RequestOK, ListOK, At
  <2> QED  BY <2>1, <2>2, QuietInv
<1> QED  BY <1>1, <1>2, <1>3, <1>4, <1>5, <1>6 DEF ClientStep

-----------------------------------------------------------------------------
LEMMA FailInv ==
  ASSUME ClientInv, NEW r \in Requests, Fail(r)
  PROVE  ClientInv'
<1>1. Answer(r, 500) /\ UNCHANGED tables /\ req[r].pc # "idle" /\ RequestOK(r)
  BY DEF Fail, ClientInv
<1>2. req[r].op # "none"
  BY <1>1 DEF RequestOK, Blank
<1> QED  BY <1>1, <1>2, AnswerInv DEF Codes

(* Steps that look. *)
LEMMA LooksInv ==
  ASSUME ClientInv, NEW r \in Requests,
         UpdateFind(r) \/ RemoveFind(r) \/ FindClient(r)
  PROVE  ClientInv'
<1>1. TypeOK /\ RequestOK(r) /\ ListOK(r) /\ UNCHANGED tables /\ req[r] \in Request
      /\ client' = client /\ known' = known /\ drawn' = drawn /\ chosen' = chosen
  BY DEF ClientInv, TypeOK, UpdateFind, RemoveFind, FindClient, tables
<1>2. CASE UpdateFind(r)
  <2>1. req[r].op = "update"
    BY <1>2 DEF UpdateFind, At
  <2>2. CASE Answer(r, 404)
    BY <1>1, <2>1, <2>2, AnswerInv DEF Codes
  <2>3. CASE Answer(r, 400)
    BY <1>1, <2>1, <2>3, AnswerInv DEF Codes
  <2>4. CASE Accepted(req[r].data, TRUE) /\ Goto(r, "found")
    <3>1. /\ Only(r) /\ req'[r].pc = "found" /\ req'[r].code = req[r].code
          /\ req'[r].op = req[r].op /\ req'[r].id = req[r].id /\ req'[r].data = req[r].data
          /\ req'[r].live = req[r].live
      BY <1>1, <2>4, GotoStep
    <3>2. RequestOK(r)'
      BY <1>1, <2>1, <2>4, <3>1 DEF RequestOK, Accepted, At, Exists
    <3>3. ListOK(r)'
      BY <1>1, <2>1, <3>1 DEF ListOK, At
    <3> QED  BY <1>1, <3>1, <3>2, <3>3, QuietInv
  <2> QED  BY <1>2, <2>2, <2>3, <2>4 DEF UpdateFind
<1>3. CASE RemoveFind(r)
  <2>1. req[r].op = "remove"
    BY <1>3 DEF RemoveFind, At
  <2>2. CASE Answer(r, 404)
    BY <1>1, <2>1, <2>2, AnswerInv DEF Codes
  <2>3. CASE Goto(r, "found")
    <3>1. /\ Only(r) /\ req'[r].pc = "found" /\ req'[r].code = req[r].code
          /\ req'[r].op = req[r].op /\ req'[r].id = req[r].id
          /\ req'[r].live = req[r].live
      BY <1>1, <2>3, GotoStep
    <3>2. RequestOK(r)'
      BY <1>1, <2>1, <3>1 DEF RequestOK, At, Exists
    <3>3. ListOK(r)'
      BY <1>1, <2>1, <3>1 DEF ListOK, At
    <3> QED  BY <1>1, <3>1, <3>2, <3>3, QuietInv
  <2> QED  BY <1>3, <2>2, <2>3 DEF RemoveFind
<1>4. CASE FindClient(r)
  <2>1. req[r].op = "consent"
    BY <1>4 DEF FindClient, At
  <2>2. CASE Answer(r, 400)
    BY <1>1, <2>1, <2>2, AnswerInv DEF Codes
  <2>3. ASSUME NEW i \in Holders(req[r].clientId),
               req' = [req EXCEPT ![r] = [req[r] EXCEPT !.pc = "found", !.id = i]]
        PROVE  ClientInv'
    <3> DEFINE q == [req[r] EXCEPT !.pc = "found", !.id = i]
               c == req[r].clientId
    <3>1. c \in ClientIds /\ i \in Ids /\ client[i].clientId = c
      BY <1>1, <2>1, <2>3 DEF RequestOK, Holders
    <3>2. /\ q \in Request /\ q.pc = "found" /\ q.op = "consent" /\ q.id = i
          /\ q.clientId = c /\ q.member = req[r].member /\ q.live = req[r].live
      BY <1>1, <2>1, <3>1 DEF Request
    <3>3. Only(r) /\ req'[r] = q
      BY <1>1, <2>3, <3>2 DEF TypeOK, Only
    <3> HIDE DEF q
    <3>4. c \in drawn /\ i \in known
      BY <3>1, NoneAssumption DEF ClientInv, RowOK, Exists, Absent
    <3>5. Inherits(c, i)
      BY <2>3, <3>1, <3>4 DEF Inherits, ClientInv, OneHolder, Holders
    <3>6. RequestOK(r)'
      BY <1>1, <2>1, <3>1, <3>2, <3>3, <3>5 DEF RequestOK, At, Inherits, Holders
    <3>7. ListOK(r)'
      BY <1>1, <2>1, <3>2, <3>3 DEF ListOK, At
    <3> QED  BY <1>1, <3>3, <3>6, <3>7, QuietInv
  <2> QED  BY <1>4, <2>2, <2>3 DEF FindClient
<1> QED  BY <1>2, <1>3, <1>4
-----------------------------------------------------------------------------
(* The list of connections: an entry is to be read, to be named, or named.  *)
LEMMA ListInv ==
  ASSUME ClientInv, NEW r \in Requests, ListRead(r) \/ ListName(r) \/ ListAnswer(r)
  PROVE  ClientInv'
<1>1. /\ TypeOK /\ RequestOK(r) /\ ListOK(r) /\ UNCHANGED tables /\ req[r] \in Request
      /\ req[r].op = "list" /\ req[r].pc \in {"sent", "found"}
      /\ client' = client /\ known' = known /\ grants' = grants
  BY DEF ClientInv, TypeOK, ListRead, ListName, ListAnswer, tables, At
<1>2. CASE ListRead(r)
  <2> DEFINE q == [req[r] EXCEPT !.pc = "found", !.pending = Granted(req[r].member)]
  <2>1. Granted(req[r].member) \in SUBSET ClientIds
    BY <1>1 DEF TypeOK, Granted, Grant
  <2>2. /\ q \in Request /\ q.pc = "found" /\ q.op = "list" /\ q.live = req[r].live
        /\ q.pending = Granted(req[r].member) /\ q.member = req[r].member
    BY <1>1, <2>1 DEF Request
  <2>3. Only(r) /\ req'[r] = q
    BY <1>1, <1>2, <2>2 DEF ListRead, TypeOK, Only
  <2> HIDE DEF q
  <2>4. RequestOK(r)'
    BY <1>1, <2>2, <2>3 DEF RequestOK, At
  <2>5. ListOK(r)'
    BY <1>1, <1>2, <2>2, <2>3 DEF ListOK, ListRead, At
  <2> QED  BY <1>1, <2>3, <2>4, <2>5, QuietInv
<1>3. CASE ListName(r)
  <2>1. PICK c \in req[r].pending, i \in Ids \cup {None} :
          req' = [req EXCEPT ![r] = [req[r] EXCEPT !.pending = req[r].pending \ {c},
                    !.entries = req[r].entries \cup {[clientId |-> c, name |-> i]}]]
    BY <1>3 DEF ListName
  <2> DEFINE e == [clientId |-> c, name |-> i]
             q == [req[r] EXCEPT !.pending = req[r].pending \ {c},
                                 !.entries = req[r].entries \cup {e}]
  <2>2. /\ req[r].pending \in SUBSET ClientIds /\ req[r].entries \in SUBSET Entry
    BY <1>1 DEF Request
  <2>3. e \in Entry /\ e.clientId = c
    BY <2>2 DEF Entry
  <2> HIDE DEF e
  <2>4. /\ req[r].pending \ {c} \in SUBSET ClientIds
        /\ req[r].entries \cup {e} \in SUBSET Entry
    BY <2>2, <2>3
  <2>5. /\ q \in Request /\ q.pc = req[r].pc /\ q.op = "list" /\ q.live = req[r].live
        /\ q.pending = req[r].pending \ {c} /\ q.entries = req[r].entries \cup {e}
        /\ q.member = req[r].member
    BY <1>1, <2>4 DEF Request
  <2>6. req' = [req EXCEPT ![r] = q]
    BY <2>1 DEF e
  <2> HIDE DEF q
  <2>7. Only(r) /\ req'[r] = q
    BY <1>1, <2>5, <2>6 DEF TypeOK, Only
  <2>8. RequestOK(r)'
    BY <1>1, <2>5, <2>7 DEF RequestOK, At
  <2>9. ListOK(r)'
    <3>1. req[r].pc = "found" /\ req[r].live \subseteq req[r].pending \cup Named(r)
      BY <1>1, <1>3 DEF ListName, At, ListOK
    <3>2. Named(r)' = Named(r) \cup {c}
      BY <2>3, <2>5, <2>7 DEF Named
    <3> QED  BY <2>5, <2>7, <3>1, <3>2 DEF ListOK, At
  <2> QED  BY <1>1, <2>7, <2>8, <2>9, QuietInv
<1>4. CASE ListAnswer(r)
  <2>1. req[r].live \subseteq Named(r)
    BY <1>1, <1>4 DEF ListAnswer, ListOK, At
  <2> QED  BY <1>1, <1>4, <2>1, AnswerInv DEF ListAnswer, Codes
<1> QED  BY <1>2, <1>3, <1>4

-----------------------------------------------------------------------------
(* Steps that write.  What the other requests rely on: a row that has gone  *)
(* is not back, a clientId gets a holder by choice only once it has been    *)
(* drawn, and no grant goes.                                                *)
Keeps ==
  /\ known \subseteq known' /\ drawn \subseteq drawn' /\ chosen \subseteq chosen'
  /\ grants \subseteq grants'
  /\ \A i \in known : ~Exists(i) => ~Exists(i)'
  /\ \A c \in drawn, i \in Ids : i \in Holders(c)' => i \in Holders(c) \/ i \in chosen'

LEMMA WriteInv ==
  ASSUME ClientInv, NEW r \in Requests, Only(r), Keeps, TypeOK',
         \A i \in Ids : RowOK(i)', OneHolder', RequestOK(r)', ListOK(r)',
         \A g \in grants' : g \in grants \/ Inherits(g.clientId, g.client)'
  PROVE  ClientInv'
<1>1. ASSUME NEW c \in ClientIds, NEW i \in Ids, Inherits(c, i)  PROVE Inherits(c, i)'
  BY <1>1 DEF Inherits, Keeps, Holders
<1>2. \A g \in grants' : Inherits(g.clientId, g.client)'
  <2> SUFFICES ASSUME NEW g \in grants'  PROVE Inherits(g.clientId, g.client)'
    OBVIOUS
  <2>1. g.clientId \in ClientIds /\ g.client \in Ids
    BY DEF TypeOK, Grant
  <2> QED  BY <1>1, <2>1 DEF ClientInv
<1>3. ASSUME NEW s \in Requests  PROVE RequestOK(s)' /\ ListOK(s)'
  <2>1. CASE s = r
    BY <2>1
  <2>2. CASE s # r
    <3>1. req'[s] = req[s] /\ RequestOK(s) /\ ListOK(s) /\ req[s] \in Request
      BY <2>2 DEF Only, ClientInv, TypeOK
    <3>2. At(s, "consent", "found") => Inherits(req[s].clientId, req[s].id)'
      <4> SUFFICES ASSUME At(s, "consent", "found")
                   PROVE  Inherits(req[s].clientId, req[s].id)'
        OBVIOUS
      <4>1. /\ req[s].clientId \in ClientIds /\ req[s].id \in Ids
            /\ Inherits(req[s].clientId, req[s].id)
        BY <3>1 DEF RequestOK, Inherits, At, ClientInv, TypeOK
      <4>2. PICK c \in ClientIds, i \in Ids : c = req[s].clientId /\ i = req[s].id
        BY <4>1
      <4>3. Inherits(c, i)'
        BY <1>1, <4>1, <4>2
      <4>4. c = req'[s].clientId /\ i = req'[s].id
        BY <3>1, <4>2
      <4> QED  BY <4>3, <4>4 DEF Inherits, Holders
    <3>3. RequestOK(s)'
      BY <3>1, <3>2 DEF RequestOK, Accepted, At, Keeps
    <3>4. Granted(req[s].member) \subseteq Granted(req[s].member)'
      BY <3>1 DEF Granted, Keeps
    <3>5. ListOK(s)'
      BY <3>1, <3>4 DEF ListOK, At, Granted, Named
    <3> QED  BY <3>3, <3>5
  <2> QED  BY <2>1, <2>2
<1> QED  BY <1>2, <1>3 DEF ClientInv

(* The slot of a request that has written. *)
LEMMA WroteOK ==
  ASSUME ClientInv, NEW r \in Requests, NEW code \in {200, 201, 204}, Answer(r, code),
         req[r].op \in {"create", "update", "remove", "consent"}, known \subseteq known'
  PROVE  Only(r) /\ RequestOK(r)' /\ ListOK(r)'
<1>1. TypeOK /\ RequestOK(r) /\ ListOK(r)
  BY DEF ClientInv
<1>2. /\ Only(r) /\ req'[r].pc = "answered" /\ req'[r].code = code
      /\ req'[r].op = req[r].op /\ req'[r].id = req[r].id
      /\ req'[r].clientId = req[r].clientId /\ req'[r].member = req[r].member
      /\ req'[r].live = req[r].live
  BY <1>1, AnswerStep DEF Codes
<1>3. RequestOK(r)'
  BY <1>1, <1>2 DEF RequestOK, At
<1>4. ListOK(r)'
  BY <1>1, <1>2 DEF ListOK, At
<1> QED  BY <1>2, <1>3, <1>4

LEMMA RowFacts ==
  ASSUME TypeOK
  PROVE  /\ \A i \in Ids : Exists(i) <=> client[i] \in ClientRow
         /\ \A i \in Ids : Exists(i) <=> client[i].clientId \in ClientIds
         /\ Absent \notin ClientRow /\ Absent.clientId = None
<1>1. Absent.clientId = None
  BY DEF Absent
<1>2. \A w \in ClientRow : w.clientId \in ClientIds /\ w.clientId # None
  BY NoneAssumption DEF ClientRow
<1>3. Absent \notin ClientRow
  BY <1>1, <1>2
<1> QED  BY <1>1, <1>2, <1>3, NoneAssumption DEF TypeOK, Exists

LEMMA CreateInv ==
  ASSUME ClientInv, NEW r \in Requests, Create(r)
  PROVE  ClientInv'
<1>1. TypeOK /\ RequestOK(r) /\ req[r] \in Request /\ req[r].op = "create" /\ req[r].pc = "sent"
  BY DEF ClientInv, TypeOK, Create, At
<1>2. CASE Answer(r, 409) /\ UNCHANGED tables
  BY <1>1, <1>2, AnswerInv DEF Codes
<1>3. ASSUME NEW i \in Ids \ known, NEW c \in ClientIds, Holders(c) = {},
             c = req[r].clientId \/ (req[r].clientId = None /\ c \notin drawn),
             Insert(r, i, c)
      PROVE  ClientInv'
  <2> DEFINE row == [clientId |-> c, data |-> req[r].data]
  <2>1. /\ client' = [client EXCEPT ![i] = row] /\ drawn' = drawn \cup {c}
        /\ known' = known \cup {i} /\ grants' = grants /\ Answer(r, 201)
        /\ chosen' = IF req[r].clientId = c THEN chosen \cup {i} ELSE chosen
    BY <1>3 DEF Insert
  <2>2. req[r].data \in Body /\ \A f \in Fields : req[r].data[f] \in Values
    BY <1>1 DEF Request, RequestOK, At, Accepted
  <2>3. row \in ClientRow /\ row.clientId = c /\ row.data = req[r].data
    BY <2>2 DEF ClientRow
  <2> HIDE DEF row
  <2>4. /\ client' \in [Ids -> ClientRow \cup {Absent}] /\ client'[i] = row
        /\ \A j \in Ids \ {i} : client'[j] = client[j]
    BY <1>1, <2>1, <2>3 DEF TypeOK
  <2>5. Only(r) /\ RequestOK(r)' /\ ListOK(r)'
    BY <1>1, <2>1, WroteOK
  <2>6. TypeOK'
    BY <1>1, <2>1, <2>4, <2>5 DEF TypeOK, Only
  <2>7. /\ \A j \in Ids \ {i} : Exists(j)' <=> Exists(j)
        /\ ~Exists(i) /\ i \notin known
    BY <1>3, <2>4 DEF Exists, ClientInv, RowOK
  <2>8. \A j \in Ids : RowOK(j)'
    <3>1. RowOK(i)'
      BY <2>1, <2>2, <2>3, <2>4 DEF RowOK
    <3>2. ASSUME NEW j \in Ids, j # i  PROVE RowOK(j)'
      BY <2>1, <2>4, <3>2 DEF RowOK, Exists, ClientInv
    <3> QED  BY <3>1, <3>2
  <2>9. \A d \in ClientIds, j \in Ids :
          j \in Holders(d)' => j \in Holders(d) \/ (d = c /\ j = i)
    BY <2>3, <2>4 DEF Holders
  <2>10. OneHolder'
    <3> SUFFICES ASSUME NEW d \in ClientIds, NEW j \in Ids, NEW k \in Ids,
                        j \in Holders(d)', k \in Holders(d)'
                 PROVE  j = k
      BY DEF OneHolder
    <3> QED  BY <1>3, <2>9 DEF ClientInv, OneHolder
  <2>11. Keeps
    <3>1. \A d \in drawn, j \in Ids : j \in Holders(d)' => j \in Holders(d) \/ j \in chosen'
      BY <1>1, <1>3, <2>1, <2>9 DEF TypeOK
    <3>2. \A j \in known : ~Exists(j) => ~Exists(j)'
      BY <1>1, <2>7 DEF TypeOK
    <3>3. chosen \subseteq chosen'
      BY <2>1
    <3> QED  BY <2>1, <3>1, <3>2, <3>3 DEF Keeps
  <2> QED  BY <2>1, <2>5, <2>6, <2>8, <2>10, <2>11, WriteInv
<1> QED  BY <1>2, <1>3 DEF Create

LEMMA PatchedOK ==
  ASSUME NEW w \in ClientRow, NEW data \in Body, Accepted(data, TRUE),
         \A f \in Fields : w.data[f] \in Values, NEW v, v = Patched(w, data)
  PROVE  /\ v \in ClientRow /\ v.clientId = w.clientId
         /\ \A f \in Fields : /\ v.data[f] \in Values
                              /\ v.data[f] \in {w.data[f], data[f]}
                              /\ data[f] = None => v.data[f] = w.data[f]
<1> DEFINE d == [f \in Fields |-> IF data[f] = None THEN w.data[f] ELSE data[f]]
<1>1. \A f \in Fields : d[f] \in Values /\ d[f] \in {w.data[f], data[f]}
                       /\ (data[f] = None => d[f] = w.data[f])
  BY DEF Accepted
<1>2. d \in Body
  BY <1>1 DEF Body
<1>3. v = [w EXCEPT !.data = d]
  BY DEF Patched
<1> HIDE DEF d
<1>4. v \in ClientRow /\ v.clientId = w.clientId /\ v.data = d
  BY <1>2, <1>3 DEF ClientRow
<1> QED  BY <1>1, <1>4

(* An update or a removal of one row that is there. *)
LEMMA RowInv ==
  ASSUME ClientInv, NEW r \in Requests, req[r].op \in {"update", "remove"},
         NEW i \in Ids, Exists(i), NEW code \in {200, 204}, Answer(r, code),
         \A j \in Ids \ {i} : client'[j] = client[j],
         client' = [j \in Ids |-> client'[j]],
         UNCHANGED <<grants, drawn, chosen, known>>,
         \/ client'[i] = Absent
         \/ /\ client'[i] \in ClientRow /\ client'[i].clientId = client[i].clientId
            /\ \A f \in Fields : client'[i].data[f] \in Values
  PROVE  ClientInv'
<1>1. TypeOK /\ RowOK(i)
  BY DEF ClientInv
<1>2. client' \in [Ids -> ClientRow \cup {Absent}]
  <2>1. \A j \in Ids : client'[j] \in ClientRow \cup {Absent}
    BY <1>1 DEF TypeOK
  <2> QED  BY <2>1
<1>3. Only(r) /\ RequestOK(r)' /\ ListOK(r)'
  BY WroteOK
<1>4. TypeOK'
  BY <1>1, <1>2, <1>3 DEF TypeOK, Only
<1>5. \A d \in ClientIds, j \in Ids : j \in Holders(d)' => j \in Holders(d)
  BY <1>1, <1>2, RowFacts, NoneAssumption DEF Holders
<1>6. \A j \in Ids : RowOK(j)'
  <2>1. RowOK(i)'
    BY <1>1, <1>2, RowFacts DEF RowOK, Exists
  <2>2. ASSUME NEW j \in Ids, j # i  PROVE RowOK(j)'
    BY <1>2, <2>2 DEF RowOK, Exists, ClientInv
  <2> QED  BY <2>1, <2>2
<1>7. OneHolder'
  BY <1>5 DEF OneHolder, ClientInv
<1>8. Keeps
  <2>1. \A j \in known : ~Exists(j) => ~Exists(j)'
    BY <1>1, <1>2 DEF TypeOK, Exists
  <2>2. \A d \in drawn, j \in Ids : j \in Holders(d)' => j \in Holders(d)
    BY <1>1, <1>5 DEF TypeOK
  <2> QED  BY <2>1, <2>2 DEF Keeps
<1> QED  BY <1>3, <1>4, <1>6, <1>7, <1>8, WriteInv

LEMMA UpdateInv ==
  ASSUME ClientInv, NEW r \in Requests, Update(r) \/ Remove(r)
  PROVE  ClientInv'
<1>1. /\ TypeOK /\ RequestOK(r) /\ req[r] \in Request /\ req[r].id \in Ids
      /\ req[r].op \in {"update", "remove"}
  <2>1. TypeOK /\ RequestOK(r)
    BY DEF ClientInv
  <2>2. req[r].op \in {"update", "remove"}
    BY DEF Update, Remove, At
  <2>3. req[r] \in Request /\ known \subseteq Ids
    BY <2>1 DEF TypeOK
  <2>4. req[r].id \in known
    BY <2>1, <2>2 DEF RequestOK
  <2> QED  BY <2>1, <2>2, <2>3, <2>4
<1>2. CASE Answer(r, 500) /\ UNCHANGED tables
  BY <1>1, <1>2, AnswerInv DEF Codes
<1>3. CASE Update(r) /\ Exists(req[r].id)
  <2> DEFINE w == Patched(client[req[r].id], req[r].data)
  <2>1. /\ client' = [client EXCEPT ![req[r].id] = w] /\ Answer(r, 200)
        /\ UNCHANGED <<grants, drawn, chosen, known>>
    BY <1>3 DEF Update
  <2>2. /\ client[req[r].id] \in ClientRow /\ req[r].data \in Body
        /\ Accepted(req[r].data, TRUE)
        /\ \A f \in Fields : client[req[r].id].data[f] \in Values
    <3>1. client[req[r].id] \in ClientRow
      BY <1>1, <1>3, RowFacts
    <3>2. req[r].data \in Body /\ Accepted(req[r].data, TRUE)
      <4>1. At(r, "update", "found")
        BY <1>3 DEF Update
      <4> QED  BY <1>1, <4>1 DEF RequestOK, Request
    <3>3. RowOK(req[r].id)
      BY <1>1 DEF ClientInv
    <3> QED  BY <1>3, <3>1, <3>2, <3>3 DEF RowOK
  <2> HIDE DEF w
  <2>3. /\ w \in ClientRow /\ w.clientId = client[req[r].id].clientId
        /\ \A f \in Fields : w.data[f] \in Values
    <3>1. PICK u \in ClientRow, d \in Body : u = client[req[r].id] /\ d = req[r].data
      BY <2>2
    <3>2. PICK v : v = Patched(u, d)
      OBVIOUS
    <3>3. v = w
      BY <3>1, <3>2 DEF w
    <3>4. Accepted(d, TRUE) /\ \A f \in Fields : u.data[f] \in Values
      BY <2>2, <3>1
    <3>5. v \in ClientRow /\ v.clientId = u.clientId /\ \A f \in Fields : v.data[f] \in Values
      BY <3>2, <3>4, PatchedOK
    <3> QED  BY <3>1, <3>3, <3>5
  <2>4. PICK i \in Ids : i = req[r].id
    BY <1>1
  <2>5. /\ client'[i] = w /\ \A j \in Ids \ {i} : client'[j] = client[j]
        /\ client' = [j \in Ids |-> client'[j]]
    BY <1>1, <2>1, <2>4 DEF TypeOK
  <2> QED  BY <1>1, <1>3, <2>1, <2>3, <2>4, <2>5, RowInv
<1>4. CASE Remove(r) /\ Exists(req[r].id)
  <2>1. /\ client' = [client EXCEPT ![req[r].id] = Absent] /\ Answer(r, 204)
        /\ UNCHANGED <<grants, drawn, chosen, known>>
    BY <1>4 DEF Remove
  <2>2. PICK i \in Ids : i = req[r].id
    BY <1>1
  <2>3. /\ client'[i] = Absent /\ \A j \in Ids \ {i} : client'[j] = client[j]
        /\ client' = [j \in Ids |-> client'[j]]
    BY <1>1, <2>1, <2>2 DEF TypeOK
  <2>4. /\ Exists(i) /\ req[r].op \in {"update", "remove"} /\ 204 \in {200, 204}
        /\ Answer(r, 204)
    BY <1>1, <1>4, <2>1, <2>2
  <2>5. UNCHANGED <<grants, drawn, chosen, known>>
    BY <2>1
  <2> QED  BY <2>3, <2>4, <2>5, RowInv
<1> QED  BY <1>2, <1>3, <1>4 DEF Update, Remove

-----------------------------------------------------------------------------
(* Grants come and go. *)
LEMMA SaveGrantInv ==
  ASSUME ClientInv, NEW r \in Requests, SaveGrant(r)
  PROVE  ClientInv'
<1> DEFINE g == [member |-> req[r].member, clientId |-> req[r].clientId, client |-> req[r].id]
<1>1. /\ TypeOK /\ RequestOK(r) /\ req[r].op = "consent" /\ req[r].pc = "found"
      /\ client' = client /\ drawn' = drawn /\ chosen' = chosen /\ known' = known
      /\ Answer(r, 200) /\ grants' = grants \cup {g}
  BY DEF ClientInv, SaveGrant, At
<1>2. /\ req[r].member \in Members /\ req[r].clientId \in ClientIds /\ req[r].id \in Ids
      /\ Inherits(req[r].clientId, req[r].id)
  BY <1>1 DEF RequestOK, At, Inherits, TypeOK
<1>3. g \in Grant /\ g.clientId = req[r].clientId /\ g.client = req[r].id
  BY <1>2 DEF Grant
<1>4. Inherits(g.clientId, g.client)
  BY <1>2, <1>3
<1> HIDE DEF g
<1>5. Only(r) /\ RequestOK(r)' /\ ListOK(r)'
  BY <1>1, WroteOK
<1>6. TypeOK'
  BY <1>1, <1>3, <1>5 DEF TypeOK, Only
<1>7. (\A i \in Ids : RowOK(i)') /\ OneHolder'
  BY <1>1 DEF ClientInv, RowOK, OneHolder, Exists, Holders
<1>8. Keeps
  BY <1>1 DEF Keeps, Exists, Holders
<1>9. \A h \in grants' : h \in grants \/ Inherits(h.clientId, h.client)'
  <2> SUFFICES ASSUME NEW h \in grants', h \notin grants  PROVE Inherits(h.clientId, h.client)'
    OBVIOUS
  <2>1. h = g
    BY <1>1
  <2> QED  BY <1>1, <1>4, <2>1 DEF Inherits, Holders
<1> QED  BY <1>5, <1>6, <1>7, <1>8, <1>9, WriteInv

(* What a list was sent for shrinks with the grants. *)
LEMMA EndGrantsInv ==
  ASSUME ClientInv, NEW m \in Members, NEW c \in ClientIds, EndGrants(m, c)
  PROVE  ClientInv'
<1>1. /\ TypeOK /\ client' = client /\ drawn' = drawn /\ chosen' = chosen /\ known' = known
      /\ grants' = {g \in grants : ~(g.member = m /\ g.clientId = c)}
      /\ req' = [r \in Requests |->
           IF req[r].member = m THEN [req[r] EXCEPT !.live = req[r].live \ {c}] ELSE req[r]]
  BY DEF ClientInv, EndGrants
<1>2. ASSUME NEW r \in Requests
      PROVE  /\ req'[r] \in Request /\ req'[r].op = req[r].op /\ req'[r].pc = req[r].pc
             /\ req'[r].id = req[r].id /\ req'[r].clientId = req[r].clientId
             /\ req'[r].data = req[r].data /\ req'[r].member = req[r].member
             /\ req'[r].code = req[r].code /\ req'[r].pending = req[r].pending
             /\ req'[r].entries = req[r].entries
             /\ req'[r].live = IF req[r].member = m THEN req[r].live \ {c} ELSE req[r].live
             /\ req[r] = Blank => req'[r] = Blank
  <2> DEFINE q == [req[r] EXCEPT !.live = req[r].live \ {c}]
  <2>1. req[r] \in Request /\ req[r].live \ {c} \in SUBSET ClientIds
    BY <1>1 DEF TypeOK, Request
  <2>2. /\ q \in Request /\ q.op = req[r].op /\ q.pc = req[r].pc
        /\ q.id = req[r].id /\ q.clientId = req[r].clientId
        /\ q.data = req[r].data /\ q.member = req[r].member
        /\ q.code = req[r].code /\ q.pending = req[r].pending
        /\ q.entries = req[r].entries /\ q.live = req[r].live \ {c}
    BY <2>1 DEF Request
  <2>3. req'[r] = IF req[r].member = m THEN q ELSE req[r]
    BY <1>1
  <2>4. req[r] = Blank => req[r].member = None
    BY DEF Blank
  <2>5. req[r] = Blank => req'[r] = req[r]
    BY <2>3, <2>4, NoneAssumption
  <2> HIDE DEF q
  <2> QED  BY <2>1, <2>2, <2>3, <2>5
<1>3. req' \in [Requests -> Request]
  BY <1>1, <1>2
<1>4. TypeOK'
  BY <1>1, <1>3 DEF TypeOK
<1>5. (\A i \in Ids : RowOK(i)') /\ OneHolder'
  BY <1>1 DEF ClientInv, RowOK, OneHolder, Exists, Holders
<1>6. \A g \in grants' : Inherits(g.clientId, g.client)'
  BY <1>1 DEF ClientInv, Inherits, Holders
<1>7. \A k \in Members : Granted(k)' = IF k = m THEN Granted(k) \ {c} ELSE Granted(k)
  BY <1>1 DEF Granted
<1>8. ASSUME NEW r \in Requests  PROVE RequestOK(r)' /\ ListOK(r)'
  <2>1. RequestOK(r) /\ ListOK(r)
    BY DEF ClientInv
  <2>2. RequestOK(r)'
    BY <1>1, <1>2, <2>1 DEF RequestOK, At, Accepted, Inherits, Holders, Exists
  <2>3. req[r].op # "list" => req'[r].live = {}
    BY <1>2, <2>1 DEF ListOK
  <2>4. At(r, "list", "sent") => (req[r].live \subseteq Granted(req[r].member))'
    <3> SUFFICES ASSUME At(r, "list", "sent")
                 PROVE  (req[r].live \subseteq Granted(req[r].member))'
      OBVIOUS
    <3>1. PICK k \in Members : k = req[r].member
      BY <2>1 DEF RequestOK, At
    <3>2. Granted(k)' = Granted(req[r].member)'
      BY <1>2, <3>1 DEF Granted
    <3> QED  BY <1>2, <1>7, <2>1, <3>1, <3>2 DEF ListOK
  <2>5. Named(r)' = Named(r)
    BY <1>2 DEF Named
  <2>6. ListOK(r)'
    <3>1. At(r, "list", "found") => req'[r].live \subseteq req'[r].pending \cup Named(r)'
      BY <1>2, <2>1, <2>5 DEF ListOK
    <3>2. At(r, "list", "answered") /\ req[r].code = 200 => req'[r].live \subseteq Named(r)'
      BY <1>2, <2>1, <2>5 DEF ListOK
    <3> QED  BY <1>2, <2>3, <2>4, <3>1, <3>2 DEF ListOK, At
  <2> QED  BY <2>2, <2>6
<1> QED  BY <1>4, <1>5, <1>6, <1>8 DEF ClientInv

-----------------------------------------------------------------------------
LEMMA InitInv == Init => ClientInv
<1> SUFFICES ASSUME Init  PROVE ClientInv
  OBVIOUS
<1>1. TypeOK
  BY BlankFacts DEF Init, TypeOK
<1>2. \A i \in Ids : ~Exists(i) /\ client[i].clientId = None
  BY DEF Init, Exists, Absent
<1>3. \A r \in Requests : RequestOK(r) /\ ListOK(r)
  BY BlankFacts DEF Init, RequestOK, ListOK, At
<1>4. (\A i \in Ids : RowOK(i)) /\ OneHolder
  BY <1>2, NoneAssumption DEF RowOK, OneHolder, Holders
<1> QED  BY <1>1, <1>3, <1>4 DEF Init, ClientInv

LEMMA NextInv == ClientInv /\ [Next]_vars => ClientInv'
<1> SUFFICES ASSUME ClientInv, [Next]_vars  PROVE ClientInv'
  OBVIOUS
<1>1. ASSUME NEW r \in Requests, ServerStep(r)  PROVE ClientInv'
  BY <1>1, CreateInv, LooksInv, UpdateInv, SaveGrantInv, ListInv, FailInv DEF ServerStep
<1>2. ASSUME NEW r \in Requests, ClientStep(r)  PROVE ClientInv'
  BY <1>2, ClientStepInv
<1>3. ASSUME NEW m \in Members, NEW c \in ClientIds, EndGrants(m, c)  PROVE ClientInv'
  BY <1>3, EndGrantsInv
<1>4. CASE UNCHANGED vars
  BY <1>4 DEF vars, ClientInv, TypeOK, RowOK, OneHolder, Inherits, RequestOK, ListOK,
              Accepted, At, Exists, Holders, Granted, Named
<1> QED  BY <1>1, <1>2, <1>3, <1>4 DEF Next

(* The inductive invariant holds in every state. *)
THEOREM Invariance == Spec => []ClientInv
BY InitInv, NextInv, PTL DEF Spec

(* Every row, grant, request and answer has its type.                       *)
THEOREM Typed == Spec => []TypeOK
<1>1. ClientInv => TypeOK
  BY DEF ClientInv
<1> QED  BY <1>1, Invariance, PTL

(* However patches overlap, every field of every client is one validate     *)
(* accepts, and a clientId is never two clients'.                           *)
THEOREM Sound == Spec => []ClientsAreSound
<1>1. ClientInv => ClientsAreSound
  BY DEF ClientInv, RowOK, OneHolder, ClientsAreSound
<1> QED  BY <1>1, Invariance, PTL

LEMMA UpdateMerges ==
  ASSUME ClientInv, NEW r \in Requests, Update(r) \/ Remove(r), NEW i \in Ids
  PROVE  Merged(i)
<1>1. TypeOK /\ RequestOK(r) /\ RowOK(i)
  BY DEF ClientInv
<1>2. CASE client'[i] = client[i]
  BY <1>2 DEF Merged, Exists
<1>3. CASE client'[i] # client[i] /\ Update(r)
  <2>1. /\ Exists(i) /\ i = req[r].id /\ client'[i] = Patched(client[i], req[r].data)
        /\ At(r, "update", "found")
    BY <1>1, <1>3 DEF Update, TypeOK, tables
  <2>2. client[i] \in ClientRow /\ req[r].data \in Body /\ Accepted(req[r].data, TRUE)
    <3>1. req[r] \in Request /\ client[i] \in ClientRow
      BY <1>1, <2>1, RowFacts DEF TypeOK
    <3> QED  BY <1>1, <2>1, <3>1 DEF RequestOK, Request
  <2>3. \A f \in Fields :
          /\ client'[i].data[f] \in {client[i].data[f], req[r].data[f]}
          /\ req[r].data[f] = None => client'[i].data[f] = client[i].data[f]
    <3>1. \A f \in Fields : client[i].data[f] \in Values
      BY <1>1, <2>1 DEF RowOK
    <3>2. PICK w \in ClientRow, d \in Body : w = client[i] /\ d = req[r].data
      BY <2>2
    <3>3. Accepted(d, TRUE)
      BY <2>2, <3>2
    <3>4. \A f \in Fields : w.data[f] \in Values
      BY <3>1, <3>2
    <3>5. PICK v : v = client'[i]
      OBVIOUS
    <3>6. v = Patched(w, d)
      BY <2>1, <3>2, <3>5
    <3>7. \A f \in Fields : v.data[f] \in {w.data[f], d[f]}
      BY <3>3, <3>4, <3>6, PatchedOK
    <3>8. \A f \in Fields : d[f] = None => v.data[f] = w.data[f]
      BY <3>3, <3>4, <3>6, PatchedOK
    <3> QED  BY <3>2, <3>5, <3>7, <3>8
  <2> QED  BY <2>1, <2>3 DEF Merged
<1>4. CASE client'[i] # client[i] /\ Remove(r)
  <2>1. client'[i] = Absent
    BY <1>1, <1>4 DEF Remove, TypeOK, tables
  <2> QED  BY <2>1 DEF Merged, Exists
<1> QED  BY <1>2, <1>3, <1>4

(* A field of a client changes only to what a patch under way had for it,   *)
(* and a removed client stays removed.                                      *)
THEOREM Merges == Spec => UpdatesMerge
<1>1. ClientInv /\ [Next]_vars => [\A i \in Ids : Merged(i)]_vars
  <2> SUFFICES ASSUME ClientInv, Next, NEW i \in Ids  PROVE Merged(i)
    BY DEF vars
  <2>1. CASE client' = client
    BY <2>1 DEF Merged, Exists
  <2>2. ASSUME NEW r \in Requests, Update(r) \/ Remove(r)  PROVE Merged(i)
    BY <2>2, UpdateMerges
  <2>3. ASSUME NEW r \in Requests, Create(r), client' # client  PROVE Merged(i)
    <3>1. PICK j \in Ids \ known, c \in ClientIds : Insert(r, j, c)
      BY <2>3 DEF Create, tables
    <3>2. \A k \in Ids \ {j} : client'[k] = client[k]
      BY <3>1 DEF Insert, ClientInv, TypeOK
    <3>3. ~Exists(j) /\ j \notin known
      BY <3>1 DEF ClientInv, RowOK
    <3> QED  BY <3>2, <3>3 DEF Merged, Exists
  <2>4. ASSUME NEW r \in Requests, ServerStep(r)  PROVE Merged(i)
    BY <2>1, <2>2, <2>3, <2>4
       DEF ServerStep, UpdateFind, RemoveFind, FindClient, SaveGrant, ListRead, ListName,
           ListAnswer, Fail, tables
  <2>5. ASSUME NEW r \in Requests, ClientStep(r)  PROVE client' = client
    BY <2>5 DEF ClientStep, SendCreate, SendUpdate, SendRemove, SendConsent, SendList,
                Send, Done, tables
  <2>6. ASSUME NEW m \in Members, NEW c \in ClientIds, EndGrants(m, c)  PROVE client' = client
    BY <2>6 DEF EndGrants
  <2> QED  BY <2>1, <2>4, <2>5, <2>6 DEF Next
<1> QED  BY <1>1, Invariance, PTL DEF Spec, UpdatesMerge

(* The grants of a removed client pass to another only when an              *)
(* administrator chose its clientId for the other.                          *)
THEOREM ByChoice == Spec => []InheritedOnlyByChoice
<1>1. ClientInv => InheritedOnlyByChoice
  BY DEF ClientInv, Inherits, InheritedOnlyByChoice
<1> QED  BY <1>1, Invariance, PTL

(* A list of connections has every clientId that was granted from the time  *)
(* it was asked for to the time it is answered, its client there or not.    *)
THEOREM ShowsEveryGrant == Spec => []ListShowsEveryGrant
<1>1. ClientInv => ListShowsEveryGrant
  BY DEF ClientInv, ListOK, Named, ListShowsEveryGrant
<1> QED  BY <1>1, Invariance, PTL
=============================================================================
