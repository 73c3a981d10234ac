------------------------------- MODULE Clients -------------------------------
(***************************************************************************)
(* The registry of OAuth clients: POST, PATCH and DELETE under             *)
(* /admin/oauth-clients, the lookup the provider makes of a client by its  *)
(* clientId, and GET /members/:id/connections, which names the clients a   *)
(* member has granted something.                                           *)
(*                                                                         *)
(* A row has an id, which the database draws, and a clientId, which the    *)
(* administrator may choose.  Grants know a client by its clientId only,   *)
(* and removing a client leaves its grants.                                *)
(*                                                                         *)
(* GET of one client or of all of them reads and answers; it is left out.  *)
(***************************************************************************)
CONSTANTS
  Ids,        \* ids of rows (uuids)
  ClientIds,  \* clientIds, chosen or drawn
  Values,     \* what validate accepts for a field
  Bad,        \* what it does not
  Members,
  Requests,   \* slots for requests in flight
  None        \* null, or a key the body does not have

ASSUME NoneAssumption == None \notin Ids \cup ClientIds \cup Values \cup Members \cup {Bad}
ASSUME BadAssumption == Bad \notin Values

VARIABLES
  client,  \* client[i]: the row of OAuthClient with id i, or Absent
  grants,  \* the live grants, each with the row its client was when found
  req,     \* the request in each slot
  drawn,   \* history: the clientIds that have been a client's
  chosen,  \* history: the rows whose clientId an administrator chose
  known    \* history: the rows there have been

vars == <<client, grants, req, drawn, chosen, known>>
tables == <<client, grants, drawn, chosen, known>>

(* The name is treated as these two are; the logo is validated by nothing.  *)
Fields == {"redirectUris", "allowedScopes"}

Body == [Fields -> Values \cup {Bad, None}]

ClientRow == [clientId : ClientIds, data : Body]

NoData == [f \in Fields |-> None]

Absent == [clientId |-> None, data |-> NoData]

Grant == [member : Members, clientId : ClientIds, client : Ids]

Entry == [clientId : ClientIds, name : Ids \cup {None}]

Codes == {0, 200, 201, 204, 400, 404, 409, 500}

Request ==
  [op       : {"none", "create", "update", "remove", "consent", "list"},
   pc       : {"idle", "sent", "found", "answered"},
   id       : Ids \cup {None},        \* :id of the path, or the client found
   clientId : ClientIds \cup {None},
   data     : Body,
   member   : Members \cup {None},
   pending  : SUBSET ClientIds,       \* entries of the list still to be named
   entries  : SUBSET Entry,
   live     : SUBSET ClientIds,       \* history: granted ever since it was sent
   code     : Codes]

Blank == [op |-> "none", pc |-> "idle", id |-> None, clientId |-> None,
          data |-> NoData, member |-> None, pending |-> {},
          entries |-> {}, live |-> {}, code |-> 0]

TypeOK ==
  /\ client \in [Ids -> ClientRow \cup {Absent}]
  /\ grants \subseteq Grant
  /\ req \in [Requests -> Request]
  /\ drawn \subseteq ClientIds
  /\ chosen \subseteq Ids
  /\ known \subseteq Ids

Init ==
  /\ client = [i \in Ids |-> Absent]
  /\ grants = {}
  /\ req = [r \in Requests |-> Blank]
  /\ drawn = {} /\ chosen = {} /\ known = {}

-----------------------------------------------------------------------------
At(r, op, pc) == req[r].op = op /\ req[r].pc = pc

Goto(r, pc) == req' = [req EXCEPT ![r].pc = pc]

(* An answer drops the body. *)
Answer(r, code) ==
  req' = [req EXCEPT ![r] = [@ EXCEPT !.pc = "answered", !.code = code, !.data = NoData]]

Exists(i) == client[i] # Absent

(* The rows with this clientId: one at most, by the unique index. *)
Holders(c) == {i \in Ids : client[i].clientId = c}

Granted(m) == {g.clientId : g \in {h \in grants : h.member = m}}

Send(r, q) ==
  /\ req[r] = Blank
  /\ req' = [req EXCEPT ![r] = q]
  /\ UNCHANGED tables

Done(r) ==
  /\ req[r].pc = "answered"
  /\ req' = [req EXCEPT ![r] = Blank]
  /\ UNCHANGED tables

-----------------------------------------------------------------------------
(* validate: a PATCH may leave a field out, a POST may not.  A POST that    *)
(* validate refuses is answered 400 before anything is awaited, and is left *)
(* out.                                                                     *)
Accepted(data, partial) ==
  \A f \in Fields : data[f] \in Values \/ (partial /\ data[f] = None)

SendCreate(r, c, data) ==
  /\ Accepted(data, FALSE)
  /\ Send(r, [Blank EXCEPT !.op = "create", !.pc = "sent", !.clientId = c, !.data = data])

Insert(r, i, c) ==
  /\ client' = [client EXCEPT ![i] = [clientId |-> c, data |-> req[r].data]]
  /\ drawn' = drawn \cup {c}
  /\ known' = known \cup {i}
  /\ chosen' = IF req[r].clientId = c THEN chosen \cup {i} ELSE chosen
  /\ Answer(r, 201)
  /\ UNCHANGED grants

(* Mutation: clients are numbered, not named by a uuid: a number is free    *)
(* again when its client has been removed.                                  *)
CreateNumbered(r) ==
  /\ At(r, "create", "sent")
  /\ \E i \in Ids \ known, c \in ClientIds :
       Holders(c) = {} /\ req[r].clientId \in {c, None} /\ Insert(r, i, c)

(* Mutation: no unique index on clientId. *)
CreateUnindexed(r) ==
  /\ At(r, "create", "sent")
  /\ \E i \in Ids \ known, c \in ClientIds :
       req[r].clientId \in {c, None} /\ Insert(r, i, c)

(* The clientId is the one chosen or a new uuid; one that is taken makes    *)
(* the insert fail with P2002.                                              *)
Create(r) ==
  /\ At(r, "create", "sent")
  /\ \/ /\ req[r].clientId # None /\ Holders(req[r].clientId) # {}
        /\ Answer(r, 409) /\ UNCHANGED tables
     \/ \E i \in Ids \ known, c \in ClientIds :
          /\ Holders(c) = {}
          /\ c = req[r].clientId \/ (req[r].clientId = None /\ c \notin drawn)
          /\ Insert(r, i, c)

-----------------------------------------------------------------------------
(* PATCH and DELETE begin with findById.  An administrator has the id from  *)
(* an answer, so there has been such a row.                                 *)
SendUpdate(r, i, data) ==
  /\ i \in known
  /\ Send(r, [Blank EXCEPT !.op = "update", !.pc = "sent", !.id = i, !.data = data])

SendRemove(r, i) ==
  /\ i \in known
  /\ Send(r, [Blank EXCEPT !.op = "remove", !.pc = "sent", !.id = i])

UpdateFind(r) ==
  /\ At(r, "update", "sent")
  /\ CASE ~Exists(req[r].id) -> Answer(r, 404)
       [] Exists(req[r].id) /\ ~Accepted(req[r].data, TRUE) -> Answer(r, 400)
       [] OTHER -> Goto(r, "found")
  /\ UNCHANGED tables

Patched(row, data) ==
  [row EXCEPT !.data = [f \in Fields |-> IF data[f] = None THEN row.data[f] ELSE data[f]]]

(* Mutation: a field the body does not have is cleared. *)
UpdateWhole(r) ==
  /\ At(r, "update", "found")
  /\ Exists(req[r].id)
  /\ client' = [client EXCEPT ![req[r].id].data = req[r].data]
  /\ Answer(r, 200)
  /\ UNCHANGED <<grants, drawn, chosen, known>>

(* Mutation: an upsert, by somebody who did not want the 500. *)
UpdateUpsert(r) ==
  /\ At(r, "update", "found")
  /\ client' = [client EXCEPT ![req[r].id] = Patched(@, req[r].data)]
  /\ Answer(r, 200)
  /\ UNCHANGED <<grants, drawn, chosen, known>>

(* One UPDATE of the fields sent; it throws P2025 when the row has gone.    *)
Update(r) ==
  /\ At(r, "update", "found")
  /\ IF Exists(req[r].id)
     THEN /\ client' = [client EXCEPT ![req[r].id] = Patched(@, req[r].data)]
          /\ Answer(r, 200)
          /\ UNCHANGED <<grants, drawn, chosen, known>>
     ELSE Answer(r, 500) /\ UNCHANGED tables

RemoveFind(r) ==
  /\ At(r, "remove", "sent")
  /\ IF Exists(req[r].id) THEN Goto(r, "found") ELSE Answer(r, 404)
  /\ UNCHANGED tables

(* The row goes, its grants stay. *)
Remove(r) ==
  /\ At(r, "remove", "found")
  /\ IF Exists(req[r].id)
     THEN /\ client' = [client EXCEPT ![req[r].id] = Absent]
          /\ Answer(r, 204)
          /\ UNCHANGED <<grants, drawn, chosen, known>>
     ELSE Answer(r, 500) /\ UNCHANGED tables

-----------------------------------------------------------------------------
(* The provider: an app sends a member here under a clientId; the client is *)
(* looked up, and a grant saved once the member has consented.              *)
SendConsent(r, m, c) ==
  Send(r, [Blank EXCEPT !.op = "consent", !.pc = "sent", !.member = m, !.clientId = c])

FindClient(r) ==
  /\ At(r, "consent", "sent")
  /\ \/ Holders(req[r].clientId) = {} /\ Answer(r, 400)
     \/ \E i \in Holders(req[r].clientId) :
          req' = [req EXCEPT ![r] = [@ EXCEPT !.pc = "found", !.id = i]]
  /\ UNCHANGED tables

SaveGrant(r) ==
  /\ At(r, "consent", "found")
  /\ grants' = grants \cup
       {[member |-> req[r].member, clientId |-> req[r].clientId, client |-> req[r].id]}
  /\ Answer(r, 200)
  /\ UNCHANGED <<client, drawn, chosen, known>>

(* A member's grants for a clientId are revoked, or expire. *)
EndGrants(m, c) ==
  /\ c \in Granted(m)
  /\ grants' = {g \in grants : ~(g.member = m /\ g.clientId = c)}
  /\ req' = [r \in Requests |->
       IF req[r].member = m THEN [req[r] EXCEPT !.live = @ \ {c}] ELSE req[r]]
  /\ UNCHANGED <<client, drawn, chosen, known>>

-----------------------------------------------------------------------------
(* GET /members/:id/connections *)
SendList(r, m) ==
  Send(r, [Blank EXCEPT !.op = "list", !.pc = "sent", !.member = m, !.live = Granted(m)])

(* One entry per clientId among the member's live grants. *)
ListRead(r) ==
  /\ At(r, "list", "sent")
  /\ req' = [req EXCEPT ![r] = [@ EXCEPT !.pc = "found", !.pending = Granted(req[r].member)]]
  /\ UNCHANGED tables

(* Mutation: an entry whose client has gone is dropped. *)
ListNameKnown(r) ==
  /\ At(r, "list", "found")
  /\ \E c \in req[r].pending : 
       req' = [req EXCEPT ![r] = [@ EXCEPT !.pending = req[r].pending \ {c},
         !.entries = req[r].entries \cup [clientId : {c}, name : Holders(c)]]]
  /\ UNCHANGED tables

(* The client of an entry is looked up, in any order; without one, or when  *)
(* the lookup rejects, the entry has the raw clientId.                      *)
ListName(r) ==
  /\ At(r, "list", "found")
  /\ \E c \in req[r].pending, i \in Ids \cup {None} :
       /\ i # None => i \in Holders(c)
       /\ req' = [req EXCEPT ![r] = [@ EXCEPT !.pending = req[r].pending \ {c},
            !.entries = req[r].entries \cup {[clientId |-> c, name |-> i]}]]
  /\ UNCHANGED tables

ListAnswer(r) ==
  /\ At(r, "list", "found") /\ req[r].pending = {}
  /\ Answer(r, 200)
  /\ UNCHANGED tables

(* An await rejects, a write of a logo that is not a string among them.  No *)
(* handler writes twice, so nothing is left half done; and naming the       *)
(* entries of a list survives it.                                           *)
Fail(r) ==
  /\ req[r].pc \in {"sent", "found"} /\ ~At(r, "list", "found")
  /\ Answer(r, 500)
  /\ UNCHANGED tables

-----------------------------------------------------------------------------
ServerStep(r) ==
  \/ Create(r)
  \/ UpdateFind(r) \/ Update(r)
  \/ RemoveFind(r) \/ Remove(r)
  \/ FindClient(r) \/ SaveGrant(r)
  \/ ListRead(r) \/ ListName(r) \/ ListAnswer(r)
  \/ Fail(r)

ClientStep(r) ==
  \/ \E c \in ClientIds \cup {None}, data \in Body : SendCreate(r, c, data)
  \/ \E i \in Ids, data \in Body : SendUpdate(r, i, data)
  \/ \E i \in Ids : SendRemove(r, i)
  \/ \E m \in Members, c \in ClientIds : SendConsent(r, m, c)
  \/ \E m \in Members : SendList(r, m)
  \/ Done(r)

Next ==
  \/ \E r \in Requests : ServerStep(r) \/ ClientStep(r)
  \/ \E m \in Members, c \in ClientIds : EndGrants(m, c)

Spec == Init /\ [][Next]_vars

-----------------------------------------------------------------------------
(* Properties *)

(* What the provider relies on: a clientId is one client's, and every field *)
(* of a client is one that validate accepts, whatever patches have been     *)
(* laid over each other.                                                    *)
ClientsAreSound ==
  /\ \A i \in Ids : Exists(i) => \A f \in Fields : client[i].data[f] \in Values
  /\ \A c \in ClientIds, i, j \in Ids : i \in Holders(c) /\ j \in Holders(c) => i = j

(* How a step may change row i. *)
Merged(i) ==
  /\ Exists(i) /\ Exists(i)' => \A f \in Fields :
       client'[i].data[f] # client[i].data[f] =>
         /\ client'[i].data[f] # None
         /\ \E r \in Requests : At(r, "update", "found") /\ req[r].id = i
                                /\ client'[i].data[f] = req[r].data[f]
  /\ i \in known /\ ~Exists(i) => ~Exists(i)'

(* Patches of different fields all last, and a removed client is not        *)
(* brought back by a patch that had found it.                               *)
UpdatesMerge == [][\A i \in Ids : Merged(i)]_vars

(* A client has the grants of another only if an administrator gave it the  *)
(* other's clientId: removing a client and registering one without a        *)
(* clientId never hands grants over.                                        *)
InheritedOnlyByChoice ==
  \A g \in grants : \A i \in Holders(g.clientId) : i = g.client \/ i \in chosen

(* connections.service.js: a grant for a since-deleted client still shows,  *)
(* so the member can revoke it.                                             *)
ListShowsEveryGrant ==
  \A r \in Requests : At(r, "list", "answered") /\ req[r].code = 200 =>
    req[r].live \subseteq {e.clientId : e \in req[r].entries}
=============================================================================
