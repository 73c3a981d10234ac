------------------------------ MODULE Passkeys ------------------------------
(***************************************************************************)
(* The WebAuthn ceremonies: POST /auth/{register,login}/passkey/start and  *)
(* /finish, with the PendingChallenge rows they hand out and take back and *)
(* the signature counter kept with each passkey.                           *)
(*                                                                         *)
(* A login ends where verifyPasskeyAuthentication returns the member: the  *)
(* tokens issued to it are in Sessions.  allowCredentials only restrict    *)
(* which passkey a browser offers; here it offers any it has.              *)
(*                                                                         *)
(* A body with a missing or malformed field is answered 400 before a       *)
(* handler awaits anything; those requests are left out.                   *)
(***************************************************************************)
EXTENDS Integers, FiniteSets

CONSTANTS
  Challenges,  \* PendingChallenge ids (the sessionId of a ceremony)
  Keys,        \* passkeys: a credentialId and its private key
  Counting,    \* the passkeys whose authenticator counts signatures
  Registered,  \* the passkeys that have a member to begin with
  Names,       \* usernames
  Suspendable, \* the passkeys whose member an operator may suspend
  Requests,    \* finish requests, each sent once
  MaxCounter,  \* bound: signatures a passkey makes
  None,        \* null
  Faults       \* TRUE: an await may reject

ASSUME CountingAssumption == Counting \subseteq Keys
ASSUME RegisteredAssumption == Registered \subseteq Keys
ASSUME SuspendableAssumption == Suspendable \subseteq Keys
ASSUME BoundAssumption == MaxCounter \in Nat
ASSUME FaultsAssumption == Faults \in BOOLEAN

VARIABLES
  pending,     \* pending[c]: the PendingChallenge row, as it is or as it was
  credential,  \* credential[k]: the Credential row of passkey k and its member
  signed,      \* signed[c]: what the authenticator made of challenge c
  counter,     \* counter[k]: the authenticator's own count for passkey k
  req          \* the finish requests

vars == <<pending, credential, signed, counter, req>>

Counts == 0 .. MaxCounter

Ceremonies == {"registration", "authentication"}

(* UNVERIFIED stands for ACTIVE too: both may sign in. *)
Statuses == {"UNVERIFIED", "SUSPENDED"}

ASSUME NoneAssumption ==
  None \notin Names \cup Challenges \cup Keys \cup Nat \cup Statuses \cup Ceremonies

(* "new": not created yet; "live", "expired": in the table; "gone": deleted *)
(* A login's row has no username.  Its context says which ceremony began    *)
(* with it, but nothing reads that.                                         *)
Pending ==
  [state : {"new", "live", "expired", "gone"}, name : Names \cup {None}]

CredentialRow ==
  [name : Names, status : Statuses, counter : Counts]

NoRow == [name |-> None, status |-> None, counter |-> 0]

(* clientDataJSON says what was done: a passkey made, or one that signed.   *)
Response == [kind : Ceremonies, key : Keys, counter : Counts]

Unsigned == [kind |-> None, key |-> None, counter |-> 0]

PCs == {"idle", "sent", "found", "stale", "bad", "ok", "spent", "free", "answered"}

Codes == {0, 200, 201, 400, 401, 403, 409, 500}

Request ==
  [op      : Ceremonies \cup {None},
   session : Challenges \cup {None},  \* sessionId of the body
   answers : Challenges \cup {None},  \* the challenge its response was made for
   pc      : PCs,
   seen    : Counts \cup {None},      \* storedCred.meta.counter
   code    : Codes]

Blank == [op |-> None, session |-> None, answers |-> None, pc |-> "idle",
          seen |-> None, code |-> 0]

TypeOK ==
  /\ pending \in [Challenges -> Pending]
  /\ credential \in [Keys -> CredentialRow \cup {NoRow}]
  /\ signed \in [Challenges -> Response \cup {Unsigned}]
  /\ counter \in [Keys -> Counts]
  /\ req \in [Requests -> Request]

Init ==
  /\ pending = [c \in Challenges |-> [state |-> "new", name |-> None]]
  /\ \E name \in [Registered -> Names] :
       /\ \A k, l \in Registered : name[k] = name[l] => k = l
       /\ credential = [k \in Keys |-> IF k \in Registered
            THEN [name |-> name[k], status |-> "UNVERIFIED", counter |-> 0] ELSE NoRow]
  /\ signed = [c \in Challenges |-> Unsigned]
  /\ counter = [k \in Keys |-> 0]
  /\ req = [r \in Requests |-> Blank]

-----------------------------------------------------------------------------
(* A start hands out a new row, good for 5 minutes.                         *)
Start(c, n) ==
  /\ pending[c].state = "new"
  /\ pending' = [pending EXCEPT ![c] = [state |-> "live", name |-> n]]
  /\ UNCHANGED <<credential, signed, counter, req>>

(* The username is kept for the finish: whether it is free is not looked at. *)
StartRegistration(c, n) == Start(c, n)

StartAuthentication(c) == Start(c, None)

(* CHALLENGE_TTL_MS has passed.  Nothing but a finish removes the row.      *)
Expire(c) ==
  /\ pending[c].state = "live"
  /\ pending' = [pending EXCEPT ![c] = [@ EXCEPT !.state = "expired"]]
  /\ UNCHANGED <<credential, signed, counter, req>>

MadeFor(c, k) == signed[c].key = k

(* The browser has a new passkey made, or a passkey sign, once a challenge; *)
(* a challenge is a challenge, whichever start it is from.  The count of a  *)
(* new passkey need not begin at 0.                                         *)
MakePasskey(c, k, n) ==
  /\ pending[c].state # "new" /\ signed[c] = Unsigned
  /\ k \notin Registered /\ \A d \in Challenges : ~MadeFor(d, k)
  /\ k \notin Counting => n = 0
  /\ counter' = [counter EXCEPT ![k] = n]
  /\ signed' = [signed EXCEPT ![c] = [kind |-> "registration", key |-> k, counter |-> n]]
  /\ UNCHANGED <<pending, credential, req>>

Sign(c, k) ==
  LET n == IF k \in Counting THEN counter[k] + 1 ELSE 0 IN
  /\ pending[c].state # "new" /\ signed[c] = Unsigned
  /\ k \in Registered \/ \E d \in Challenges : MadeFor(d, k)
  /\ n <= MaxCounter
  /\ counter' = [counter EXCEPT ![k] = n]
  /\ signed' = [signed EXCEPT ![c] = [kind |-> "authentication", key |-> k, counter |-> n]]
  /\ UNCHANGED <<pending, credential, req>>

(* A body may pair one tab's sessionId with another tab's response.         *)
Finish(r, op, c, d) ==
  /\ req[r] = Blank
  /\ pending[c].state # "new" /\ signed[d] # Unsigned
  /\ req' = [req EXCEPT ![r] =
       [op |-> op, session |-> c, answers |-> d, pc |-> "sent", seen |-> None, code |-> 0]]
  /\ UNCHANGED <<pending, credential, signed, counter>>

-----------------------------------------------------------------------------
At(r, op, pc) == req[r].op = op /\ req[r].pc = pc

Goto(r, pc) == req' = [req EXCEPT ![r] = [@ EXCEPT !.pc = pc]]

Answer(r, code) ==
  req' = [req EXCEPT ![r] = [@ EXCEPT !.pc = "answered", !.code = code]]

(* The response is no good: this code, once the challenge is deleted.       *)
Reject(r, code) ==
  req' = [req EXCEPT ![r] = [@ EXCEPT !.pc = "bad", !.code = code]]

InTable(c) == pending[c].state \in {"live", "expired"}

Removed(c) == pending' = [pending EXCEPT ![c] = [@ EXCEPT !.state = "gone"]]

Body(r) == signed[req[r].answers]

Row(r) == credential[Body(r).key]

(* pendingChallenge.findUnique, and the look at expiresAt. *)
FindChallenge(r) ==
  /\ req[r].pc = "sent"
  /\ Goto(r, IF pending[req[r].session].state = "live" THEN "found" ELSE "stale")
  /\ UNCHANGED <<pending, credential, signed, counter>>

(* deleteMany: no row, no error. *)
DropStale(r) ==
  /\ req[r].pc = "stale"
  /\ IF InTable(req[r].session) THEN Removed(req[r].session) ELSE UNCHANGED pending
  /\ Answer(r, 400)
  /\ UNCHANGED <<credential, signed, counter>>

(* The response is of this ceremony's kind and made for this challenge.     *)
Matches(r) == req[r].session = req[r].answers /\ Body(r).kind = req[r].op

(* Mutation: the verifier is not told which challenge to expect. *)
VerifyRegistrationAny(r) ==
  /\ At(r, "registration", "found")
  /\ IF Body(r).kind = req[r].op THEN Goto(r, "ok") ELSE Reject(r, 400)
  /\ UNCHANGED <<pending, credential, signed, counter>>

(* verifyRegistrationResponse (its throw and verified = false end alike).   *)
VerifyRegistration(r) ==
  /\ At(r, "registration", "found")
  /\ IF Matches(r) THEN Goto(r, "ok") ELSE Reject(r, 400)
  /\ UNCHANGED <<pending, credential, signed, counter>>

(* verifyAuthenticationResponse on the counters: it must grow, or both be 0 *)
Grows(new, old) == new > old \/ (new = 0 /\ old = 0)

(* x once its response has been judged against a stored counter.            *)
Judged(x, stored, good) ==
  [x EXCEPT !.seen = stored,
            !.pc = IF good THEN "ok" ELSE "bad",
            !.code = IF good THEN 0 ELSE 401]

(* Mutation: the verifier is not told the stored counter. *)
VerifyAssertionUncounted(r) ==
  /\ At(r, "authentication", "found")
  /\ \/ Row(r) = NoRow /\ Reject(r, 401)
     \/ Row(r).status = "SUSPENDED" /\ Reject(r, 403)
     \/ /\ Row(r).status = "UNVERIFIED"
        /\ req' = [req EXCEPT ![r] = Judged(@, Row(r).counter, Matches(r))]
  /\ UNCHANGED <<pending, credential, signed, counter>>

(* Mutation: a counter must grow strictly, also one that is always 0. *)
VerifyAssertionStrict(r) ==
  LET good == Matches(r) /\ Body(r).counter > Row(r).counter IN
  /\ At(r, "authentication", "found")
  /\ \/ Row(r) = NoRow /\ Reject(r, 401)
     \/ Row(r).status = "SUSPENDED" /\ Reject(r, 403)
     \/ /\ Row(r).status = "UNVERIFIED"
        /\ req' = [req EXCEPT ![r] = Judged(@, Row(r).counter, good)]
  /\ UNCHANGED <<pending, credential, signed, counter>>

(* The stored passkey and its member are read, then the assertion verified  *)
(* with the counter just read.                                              *)
VerifyAssertion(r) ==
  LET good == Matches(r) /\ Grows(Body(r).counter, Row(r).counter) IN
  /\ At(r, "authentication", "found")
  /\ \/ Row(r) = NoRow /\ Reject(r, 401)
     \/ Row(r).status = "SUSPENDED" /\ Reject(r, 403)
     \/ /\ Row(r).status = "UNVERIFIED"
        /\ req' = [req EXCEPT ![r] = Judged(@, Row(r).counter, good)]
  /\ UNCHANGED <<pending, credential, signed, counter>>

-----------------------------------------------------------------------------
(* Mutation: deleteMany, which does not mind that the row is gone. *)
DeleteAny(r) ==
  /\ req[r].pc \in {"ok", "bad"}
  /\ Removed(req[r].session)
  /\ IF req[r].pc = "ok" THEN Goto(r, "spent") ELSE Answer(r, req[r].code)
  /\ UNCHANGED <<credential, signed, counter>>

(* Mutation: a response that fails leaves the challenge for another try. *)
DeleteIfOk(r) ==
  /\ req[r].pc \in {"ok", "bad"}
  /\ \/ req[r].pc = "bad" /\ Answer(r, req[r].code) /\ UNCHANGED pending
     \/ req[r].pc = "ok" /\ ~InTable(req[r].session) /\ Answer(r, 500) /\ UNCHANGED pending
     \/ req[r].pc = "ok" /\ InTable(req[r].session) /\ Removed(req[r].session) /\ Goto(r, "spent")
  /\ UNCHANGED <<credential, signed, counter>>

(* pendingChallenge.delete, after a good response or a bad one.  Another    *)
(* finish has deleted the row already: P2025, which nothing catches.        *)
DeleteChallenge(r) ==
  /\ req[r].pc \in {"ok", "bad"}
  /\ IF InTable(req[r].session)
     THEN /\ Removed(req[r].session)
          /\ IF req[r].pc = "ok" THEN Goto(r, "spent") ELSE Answer(r, req[r].code)
     ELSE Answer(r, 500) /\ UNCHANGED pending
  /\ UNCHANGED <<credential, signed, counter>>

NameTaken(n) == \E k \in Keys : credential[k].name = n

NewName(r) == pending[req[r].session].name

(* A registration on the challenge of a login has no username to look for,  *)
(* and findUnique throws.                                                   *)
CheckUsername(r) ==
  /\ At(r, "registration", "spent")
  /\ CASE NewName(r) = None -> Answer(r, 500)
       [] NewName(r) # None /\ NameTaken(NewName(r)) -> Answer(r, 409)
       [] OTHER -> Goto(r, "free")
  /\ UNCHANGED <<pending, credential, signed, counter>>

(* Mutation: the name is trusted to be free still, and the rows have no     *)
(* unique index.                                                            *)
CreateMemberUnindexed(r) ==
  /\ At(r, "registration", "free")
  /\ IF Row(r) # NoRow
     THEN Answer(r, 500) /\ UNCHANGED credential
     ELSE /\ credential' = [credential EXCEPT ![Body(r).key] =
               [name |-> NewName(r), status |-> "UNVERIFIED", counter |-> Body(r).counter]]
          /\ Answer(r, 201)
  /\ UNCHANGED <<pending, signed, counter>>

(* member.create with the passkey nested; a name or a credentialId that is  *)
(* taken by now: P2002, which nothing catches.                              *)
CreateMember(r) ==
  /\ At(r, "registration", "free")
  /\ IF NameTaken(NewName(r)) \/ Row(r) # NoRow
     THEN Answer(r, 500) /\ UNCHANGED credential
     ELSE /\ credential' = [credential EXCEPT ![Body(r).key] =
               [name |-> NewName(r), status |-> "UNVERIFIED", counter |-> Body(r).counter]]
          /\ Answer(r, 201)
  /\ UNCHANGED <<pending, signed, counter>>

(* Mutation: what is stored is the next counter to expect. *)
StoreCounterNext(r) ==
  /\ At(r, "authentication", "spent")
  /\ credential' = [credential EXCEPT ![Body(r).key] = [@ EXCEPT !.counter = Body(r).counter + 1]]
  /\ Answer(r, 200)
  /\ UNCHANGED <<pending, signed, counter>>

(* credential.update, with the meta that was read before the delete. *)
StoreCounter(r) ==
  /\ At(r, "authentication", "spent")
  /\ credential' = [credential EXCEPT ![Body(r).key] = [@ EXCEPT !.counter = Body(r).counter]]
  /\ Answer(r, 200)
  /\ UNCHANGED <<pending, signed, counter>>

-----------------------------------------------------------------------------
(* The operator suspends a member or lifts the suspension, with SQL.        *)
SetStatus(k, s) ==
  /\ credential[k] # NoRow
  /\ credential' = [credential EXCEPT ![k] = [@ EXCEPT !.status = s]]
  /\ UNCHANGED <<pending, signed, counter, req>>

(* An await rejects or the process dies. *)
Fail(r) ==
  /\ Faults
  /\ req[r].pc \notin {"idle", "answered"}
  /\ Answer(r, 500)
  /\ UNCHANGED <<pending, credential, signed, counter>>

FinishRegistration(r) == VerifyRegistration(r) \/ CheckUsername(r) \/ CreateMember(r)

FinishAuthentication(r) == VerifyAssertion(r) \/ StoreCounter(r)

(* Both finish handlers look for their challenge, and delete it, alike.     *)
ServerStep(r) ==
  \/ FindChallenge(r) \/ DropStale(r) \/ DeleteChallenge(r)
  \/ FinishRegistration(r) \/ FinishAuthentication(r)

Next ==
  \/ \E c \in Challenges : Expire(c) \/ StartAuthentication(c)
  \/ \E c \in Challenges, n \in Names : StartRegistration(c, n)
  \/ \E c \in Challenges, k \in Keys : Sign(c, k) \/ \E n \in Counts : MakePasskey(c, k, n)
  \/ \E r \in Requests, op \in Ceremonies, c, d \in Challenges : Finish(r, op, c, d)
  \/ \E r \in Requests : ServerStep(r) \/ Fail(r)
  \/ \E k \in Suspendable, s \in Statuses : SetStatus(k, s)

Spec == Init /\ [][Next]_vars

-----------------------------------------------------------------------------
(* Properties *)

(* r has deleted the challenge on the strength of a good response.          *)
Passed(r) == req[r].pc \in {"spent", "free"} \/ req[r].code \in {200, 201, 409}

(* A response is good for one login or one registration.  Two finishes that *)
(* carry it both find the challenge and both verify; only the one whose     *)
(* delete finds the row goes on.                                            *)
ChallengePassesOnce ==
  \A r, s \in Requests : Passed(r) /\ Passed(s) /\ req[r].session = req[s].session => r = s

(* Every answer, a refusal too, leaves the challenge deleted: no path of    *)
(* the finish handlers returns before a delete.  Only a 500 may leave it.   *)
AnswerSpendsChallenge ==
  \A r \in Requests : req[r].pc = "answered" /\ req[r].code # 500 =>
    pending[req[r].session].state = "gone"

(* The stored counter is never ahead of the authenticator's, so the next    *)
(* assertion of a passkey always grows it: no order of concurrent logins    *)
(* locks a passkey out.                                                     *)
NeverLockedOut == \A k \in Keys : credential[k].counter <= counter[k]

(* A good assertion of a known passkey is refused only if it was accepted   *)
(* already, or a later one of the same passkey overtook it.                 *)
RefusedOnlyIfOvertaken ==
  \A r \in Requests :
    req[r].code = 401 /\ Matches(r) /\ req[r].seen # None
    => \E s \in Requests :
         /\ s # r /\ Passed(s) /\ req[s].op = "authentication"
         /\ \/ req[s].answers = req[r].answers
            \/ Body(s).key = Body(r).key /\ Body(s).counter > Body(r).counter

(* The stored counter goes back only when a login writes over one it had    *)
(* not seen: the counter is compared before the delete and written after.   *)
CounterGoesBackOnlyInARace ==
  [][\A r \in Requests : StoreCounter(r) /\ Row(r).counter = req[r].seen =>
       credential'[Body(r).key].counter >= credential[Body(r).key].counter]_vars

(* A member that signed up with a passkey has the username its ceremony was *)
(* started with, and that ceremony cannot be used again: pairing one tab's  *)
(* sessionId with another tab's response never passes the verification, for *)
(* the challenge expected is that of the row.                               *)
NamedByItsCeremony ==
  \A k \in Keys \ Registered : credential[k] # NoRow =>
    \E c \in Challenges :
      /\ MadeFor(c, k) /\ signed[c].kind = "registration"
      /\ pending[c].name = credential[k].name /\ pending[c].state = "gone"

(* Sign-ups implement joining the directory: finishRegistration looks the   *)
(* username up and creates the member later, yet whoever joins takes a name *)
(* that is free at that moment, with a passkey that is nobody's.            *)
Usernames == [k \in Keys |-> credential[k].name]

Links == [k \in Keys |-> IF credential[k] = NoRow THEN {} ELSE {k}]

Membership == INSTANCE Directory WITH
  Ids <- Keys, Identities <- Keys, name <- Usernames, links <- Links

(* A step that leaves credential alone stutters; saying so keeps TLC from   *)
(* looking for the member that joined in it.                                *)
JoinsTheDirectory == [][UNCHANGED credential \/ Membership!Next]_(Membership!vars)
=============================================================================
