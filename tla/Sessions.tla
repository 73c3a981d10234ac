------------------------------ MODULE Sessions ------------------------------
(***************************************************************************)
(* First-party sessions: POST /auth/login, /auth/refresh and /auth/logout. *)
(*                                                                         *)
(* A session lives in one row of the RefreshToken table and in the         *)
(* httpOnly cookie of one browser.  The server keeps nothing in memory, so *)
(* two requests interleave at every await of a handler: each action below  *)
(* is the code between two of them, and touches the database at most once. *)
(*                                                                         *)
(* A refresh token is an HS256 JWT over {sub, type, iat, exp}: iat is in   *)
(* seconds, exp = iat + TTL, and there is no jti.  The string is therefore *)
(* a function of the member and the second, and so is a Token here.        *)
(*                                                                         *)
(* A login without a username or a password is answered 400 before it      *)
(* awaits anything; those requests are left out.                           *)
(***************************************************************************)
EXTENDS Integers, FiniteSets

CONSTANTS
  Members,    \* member ids
  Browsers,   \* cookie jars
  Requests,   \* slots for requests in flight; a slot is reused
  Suspendable, \* the members an operator may suspend
  None,       \* null
  TTL,        \* JWT_REFRESH_EXPIRES_IN in seconds
  Faults,     \* TRUE: an await may reject (database error, killed process)
  MaxTime,    \* bound on the clock
  MaxLogins   \* bound on the sessions opened

Token == [sub : Members, iat : Nat]

ASSUME NoneAssumption == None \notin Members \cup Browsers \cup Token
ASSUME SuspendableAssumption == Suspendable \subseteq Members
ASSUME BoundAssumption ==
  TTL \in Nat /\ MaxTime \in Nat /\ MaxLogins \in Nat /\ Faults \in BOOLEAN

VARIABLES
  now,            \* the clock, in seconds
  suspended,      \* the members whose status is SUSPENDED
  refreshTokens,  \* the table: rows [token, family]; the token is its key
  jar,            \* the refreshToken cookie each browser holds
  req,            \* the request in each slot
  (* The rest is history: it constrains no action. *)
  opened,         \* sessions (token families) opened so far
  closed,         \* families whose row a logout deleted
  lost,           \* families whose refresh failed between delete and create
  signed,         \* tokens signRefreshToken has returned
  reissued,       \* tokens it has returned more than once
  rotatedOut,     \* tokens a refresh deleted
  loggedOut       \* tokens a logout was asked to delete

history == <<opened, closed, lost, signed, reissued, rotatedOut, loggedOut>>
vars == <<now, suspended, refreshTokens, jar, req, history>>

Row == [token : Token, family : Nat]

Codes == {200, 204, 401, 403, 500}

PCs == {"idle", "sent", "verified", "found", "deleted", "minted", "stored",
        "answered"}

Request ==
  [op      : {"none", "login", "refresh", "logout"},
   pc      : PCs,
   browser : Browsers \cup {None},
   sub     : Members \cup {None},   \* member.id, or payload.sub of the cookie
   cookie  : Token \cup {None},     \* req.cookies.refreshToken
   fresh   : Token \cup {None},     \* the refresh token signed for the answer
   family  : Nat,                   \* history: the session its cookie had when
                                    \* it was sent; then the one it carries
   barred  : BOOLEAN,               \* history: sub suspended ever since "sent"
   code    : Codes \cup {0}]

Blank ==
  [op |-> "none", pc |-> "idle", browser |-> None, sub |-> None,
   cookie |-> None, fresh |-> None, family |-> 0, barred |-> FALSE, code |-> 0]

TypeOK ==
  /\ now \in Nat
  /\ suspended \subseteq Members
  /\ refreshTokens \subseteq Row
  /\ jar \in [Browsers -> Token \cup {None}]
  /\ req \in [Requests -> Request]
  /\ opened \in Nat
  /\ closed \subseteq Nat /\ lost \subseteq Nat
  /\ signed \subseteq Token /\ reissued \subseteq Token
  /\ rotatedOut \subseteq Token /\ loggedOut \subseteq Token

Init ==
  /\ now = 0
  /\ suspended = {}
  /\ refreshTokens = {}
  /\ jar = [b \in Browsers |-> None]
  /\ req = [r \in Requests |-> Blank]
  /\ opened = 0 /\ closed = {} /\ lost = {}
  /\ signed = {} /\ reissued = {} /\ rotatedOut = {} /\ loggedOut = {}

-----------------------------------------------------------------------------
At(r, op, pc) == req[r].op = op /\ req[r].pc = pc

Goto(r, pc) == req' = [req EXCEPT ![r].pc = pc]

Answer(r, code) ==
  req' = [req EXCEPT ![r] = [@ EXCEPT !.pc = "answered", !.code = code]]

(* The request holds row x from here on. *)
Take(r, pc, x) ==
  req' = [req EXCEPT ![r] = [@ EXCEPT !.pc = pc, !.family = x.family]]

RowsOf(t) == {x \in refreshTokens : x.token = t}

(* jwt.verify rejects from the second exp on. *)
JwtExpired(t) == now >= t.iat + TTL

(* expiresAt is computed in the tick that signs the token, so it is exp.    *)
RowExpired(x) == x.token.iat + TTL < now

-----------------------------------------------------------------------------
(* The browser: it sends what its jar holds, whatever else is in flight.    *)

Sent(op, b, sub, cookie, family) ==
  [op |-> op, pc |-> "sent", browser |-> b, sub |-> sub, cookie |-> cookie,
   fresh |-> None, family |-> family, barred |-> sub \in suspended, code |-> 0]

LoginsInFlight == {r \in Requests : req[r].op = "login"}

SendLogin(r, b, m) ==
  /\ req[r] = Blank
  /\ opened + Cardinality(LoginsInFlight) < MaxLogins
  /\ req' = [req EXCEPT ![r] = Sent("login", b, m, None, 0)]
  /\ UNCHANGED <<now, suspended, refreshTokens, jar, history>>

(* The session of a cookie: 0 if it has none. *)
SessionsOf(t) ==
  IF RowsOf(t) = {} THEN {0} ELSE {x.family : x \in RowsOf(t)}

SendWithCookie(r, b, op) ==
  /\ req[r] = Blank
  /\ \/ /\ jar[b] = None
        /\ req' = [req EXCEPT ![r] = Sent(op, b, None, None, 0)]
     \/ /\ jar[b] # None
        /\ \E f \in SessionsOf(jar[b]) :
             req' = [req EXCEPT ![r] = Sent(op, b, jar[b].sub, jar[b], f)]
  /\ UNCHANGED <<now, suspended, refreshTokens, jar, history>>

(* The answer reaches the browser: 200 sets the cookie, 204 clears it.      *)
Deliver(r) ==
  /\ req[r].pc = "answered"
  /\ jar' = CASE req[r].code = 200 -> [jar EXCEPT ![req[r].browser] = req[r].fresh]
              [] req[r].code = 204 -> [jar EXCEPT ![req[r].browser] = None]
              [] OTHER -> jar
  /\ req' = [req EXCEPT ![r] = Blank]
  /\ UNCHANGED <<now, suspended, refreshTokens, history>>

(* The answer is lost on the way: tab closed, connection reset.             *)
Drop(r) ==
  /\ req[r].pc = "answered"
  /\ req' = [req EXCEPT ![r] = Blank]
  /\ UNCHANGED <<now, suspended, refreshTokens, jar, history>>

-----------------------------------------------------------------------------
(* POST /auth/login *)

(* Mutation: the status is not looked at. *)
VerifyPasswordAnyStatus(r) ==
  /\ At(r, "login", "sent")
  /\ Answer(r, 401) \/ Goto(r, "verified")
  /\ UNCHANGED <<now, suspended, refreshTokens, jar, history>>

(* verifyPassword reads the member once.  An unknown username, a member     *)
(* without a password and a wrong password are all the same 401; status is  *)
(* looked at before the password is compared.                               *)
VerifyPassword(r) ==
  /\ At(r, "login", "sent")
  /\ \/ Answer(r, 401)
     \/ req[r].sub \in suspended /\ Answer(r, 403)
     \/ req[r].sub \notin suspended /\ Goto(r, "verified")
  /\ UNCHANGED <<now, suspended, refreshTokens, jar, history>>

(* signRefreshToken(sub) in the current second. *)
Mint(r) ==
  LET t == [sub |-> req[r].sub, iat |-> now] IN
  /\ req' = [req EXCEPT ![r] = [@ EXCEPT !.pc = "minted", !.fresh = t]]
  /\ signed' = signed \cup {t}
  /\ reissued' = IF t \in signed THEN reissued \cup {t} ELSE reissued

(* Mutation: create is not awaited before the cookie is set. *)
LoginMintNoStore(r) ==
  /\ At(r, "login", "verified")
  /\ req' = [req EXCEPT ![r].pc = "stored",
                        ![r].fresh = [sub |-> req[r].sub, iat |-> now]]
  /\ UNCHANGED <<now, suspended, refreshTokens, jar, history>>

(* issueIdToken has answered, the refresh token is signed. *)
LoginMint(r) ==
  /\ At(r, "login", "verified")
  /\ Mint(r)
  /\ UNCHANGED <<now, suspended, refreshTokens, jar, opened, closed, lost,
                 rotatedOut, loggedOut>>

(* refreshToken.create; the unique index on token refuses a string that is  *)
(* there already, which nothing catches: 500.                               *)
LoginStore(r) ==
  /\ At(r, "login", "minted")
  /\ \/ /\ RowsOf(req[r].fresh) = {}
        /\ refreshTokens' = refreshTokens \cup
             {[token |-> req[r].fresh, family |-> opened + 1]}
        /\ opened' = opened + 1
        /\ Goto(r, "stored")
     \/ /\ RowsOf(req[r].fresh) # {}
        /\ Answer(r, 500)
        /\ UNCHANGED <<refreshTokens, opened>>
  /\ UNCHANGED <<now, suspended, jar, closed, lost, signed, reissued,
                 rotatedOut, loggedOut>>

-----------------------------------------------------------------------------
(* POST /auth/refresh *)

(* No cookie, or a JWT that does not verify: 401. *)
RefreshVerify(r) ==
  /\ At(r, "refresh", "sent")
  /\ IF req[r].cookie = None \/ JwtExpired(req[r].cookie)
     THEN Answer(r, 401)
     ELSE Goto(r, "verified")
  /\ UNCHANGED <<now, suspended, refreshTokens, jar, history>>

(* Mutation: a missing or expired row throws outside the try block. *)
RefreshFindSilent(r) ==
  /\ At(r, "refresh", "verified")
  /\ \E x \in RowsOf(req[r].cookie) :
       /\ ~RowExpired(x)
       /\ Take(r, "found", x)
  /\ UNCHANGED <<now, suspended, refreshTokens, jar, history>>

(* findUnique by token: a missing row or one past expiresAt is 401. *)
RefreshFind(r) ==
  /\ At(r, "refresh", "verified")
  /\ \/ \E x \in RowsOf(req[r].cookie) :
          /\ ~RowExpired(x)
          /\ Take(r, "found", x)
     \/ /\ \A x \in RowsOf(req[r].cookie) : RowExpired(x)
        /\ Answer(r, 401)
  /\ UNCHANGED <<now, suspended, refreshTokens, jar, history>>

(* Mutation: deleteMany, which does not mind that the row has gone. *)
RefreshDeleteMany(r) ==
  /\ At(r, "refresh", "found")
  /\ refreshTokens' = refreshTokens \ RowsOf(req[r].cookie)
  /\ rotatedOut' = rotatedOut \cup {req[r].cookie}
  /\ Goto(r, "deleted")
  /\ UNCHANGED <<now, suspended, jar, opened, closed, lost, signed, reissued,
                 loggedOut>>

(* delete by token: it throws when the row has gone since, and nothing      *)
(* catches that (500).  The request now carries the session of the row it   *)
(* really deleted.                                                          *)
RefreshDelete(r) ==
  /\ At(r, "refresh", "found")
  /\ \/ \E x \in RowsOf(req[r].cookie) :
          /\ refreshTokens' = refreshTokens \ {x}
          /\ rotatedOut' = rotatedOut \cup {x.token}
          /\ Take(r, "deleted", x)
     \/ /\ RowsOf(req[r].cookie) = {}
        /\ Answer(r, 500)
        /\ UNCHANGED <<refreshTokens, rotatedOut>>
  /\ UNCHANGED <<now, suspended, jar, opened, closed, lost, signed, reissued,
                 loggedOut>>

(* Mutation: the old token is handed out again. *)
RefreshKeepToken(r) ==
  /\ At(r, "refresh", "deleted")
  /\ req' = [req EXCEPT ![r] = [@ EXCEPT !.pc = "minted", !.fresh = req[r].cookie]]
  /\ UNCHANGED <<now, suspended, refreshTokens, jar, history>>

(* Mutation: it is signed for a field of the row that the lookup had not    *)
(* selected, so for nobody.                                                 *)
RefreshMintAnonymous(r) ==
  LET t == [sub |-> None, iat |-> now] IN
  /\ At(r, "refresh", "deleted")
  /\ req' = [req EXCEPT ![r] = [@ EXCEPT !.pc = "minted", !.fresh = t]]
  /\ signed' = signed \cup {t}
  /\ UNCHANGED <<now, suspended, refreshTokens, jar, opened, closed, lost, reissued,
                 rotatedOut, loggedOut>>

RefreshMint(r) ==
  /\ At(r, "refresh", "deleted")
  /\ Mint(r)
  /\ UNCHANGED <<now, suspended, refreshTokens, jar, opened, closed, lost,
                 rotatedOut, loggedOut>>

(* refreshToken.create: as in login, but here the old row is gone already,  *)
(* so a refused create ends the session.                                    *)
RefreshStore(r) ==
  /\ At(r, "refresh", "minted")
  /\ \/ /\ RowsOf(req[r].fresh) = {}
        /\ refreshTokens' = refreshTokens \cup
             {[token |-> req[r].fresh, family |-> req[r].family]}
        /\ Goto(r, "stored")
        /\ UNCHANGED lost
     \/ /\ RowsOf(req[r].fresh) # {}
        /\ Answer(r, 500)
        /\ lost' = lost \cup {req[r].family}
        /\ UNCHANGED refreshTokens
  /\ UNCHANGED <<now, suspended, jar, opened, closed, signed, reissued,
                 rotatedOut, loggedOut>>

(* The row is stored (and, in refresh, the ID token issued): set the cookie *)
(* and answer.                                                              *)
Respond(r) ==
  /\ req[r].pc = "stored"
  /\ Answer(r, 200)
  /\ UNCHANGED <<now, suspended, refreshTokens, jar, history>>

-----------------------------------------------------------------------------
(* Mutation: deleteMany by member instead of by token. *)
LogoutEverywhere(r) ==
  /\ At(r, "logout", "sent")
  /\ refreshTokens' = {x \in refreshTokens : x.token.sub # req[r].sub}
  /\ closed' = closed \cup {x.family : x \in RowsOf(req[r].cookie)}
  /\ loggedOut' = IF req[r].cookie = None THEN loggedOut
                  ELSE loggedOut \cup {req[r].cookie}
  /\ Answer(r, 204)
  /\ UNCHANGED <<now, suspended, jar, opened, lost, signed, reissued, rotatedOut>>

(* Mutation: a cookie whose JWT does not verify is only cleared. *)
LogoutVerified(r) ==
  LET gone == IF req[r].cookie = None \/ JwtExpired(req[r].cookie)
              THEN {} ELSE RowsOf(req[r].cookie) IN
  /\ At(r, "logout", "sent")
  /\ refreshTokens' = refreshTokens \ gone
  /\ closed' = closed \cup {x.family : x \in gone}
  /\ loggedOut' = IF req[r].cookie = None THEN loggedOut
                  ELSE loggedOut \cup {req[r].cookie}
  /\ Answer(r, 204)
  /\ UNCHANGED <<now, suspended, jar, opened, lost, signed, reissued, rotatedOut>>

(* POST /auth/logout: deleteMany by token, never an error; with no cookie   *)
(* the table is left alone.  Answers 204 and clears the cookie.             *)
Logout(r) ==
  /\ At(r, "logout", "sent")
  /\ refreshTokens' = refreshTokens \ RowsOf(req[r].cookie)
  /\ closed' = closed \cup {x.family : x \in RowsOf(req[r].cookie)}
  /\ loggedOut' = IF req[r].cookie = None THEN loggedOut
                  ELSE loggedOut \cup {req[r].cookie}
  /\ Answer(r, 204)
  /\ UNCHANGED <<now, suspended, jar, opened, lost, signed, reissued, rotatedOut>>

-----------------------------------------------------------------------------
(* A refresh between its delete and its create holds the session alone.     *)
Carrying(r) == req[r].op = "refresh" /\ req[r].pc \in {"deleted", "minted"}

(* An await rejects, or the process dies: the handler stops where it is and *)
(* the client sees an error.  Whatever the database has done stays done.    *)
Fail(r) ==
  /\ Faults
  /\ req[r].pc \in {"sent", "verified", "found", "deleted", "minted", "stored"}
  /\ Answer(r, 500)
  /\ lost' = IF Carrying(r) THEN lost \cup {req[r].family} ELSE lost
  /\ UNCHANGED <<now, suspended, refreshTokens, jar, opened, closed, signed,
                 reissued, rotatedOut, loggedOut>>

Tick ==
  /\ now < MaxTime
  /\ now' = now + 1
  /\ UNCHANGED <<suspended, refreshTokens, jar, req, history>>

(* No code writes SUSPENDED: an operator does, in the database. *)
SetSuspended(m) ==
  /\ suspended' = IF m \in suspended THEN suspended \ {m} ELSE suspended \cup {m}
  /\ req' = [r \in Requests |->
       [req[r] EXCEPT !.barred = @ /\ ~(req[r].sub = m /\ m \in suspended)]]
  /\ UNCHANGED <<now, refreshTokens, jar, history>>

-----------------------------------------------------------------------------
(* All four methods log in alike: who it is, is told 401 or 403 or not,     *)
(* then the tokens.  Passwords, Google and Telegram differ in the lookup    *)
(* only; what a passkey does before is in Passkeys.                         *)
Login(r) == VerifyPassword(r) \/ LoginMint(r) \/ LoginStore(r)

Refresh(r) ==
  \/ RefreshVerify(r) \/ RefreshFind(r) \/ RefreshDelete(r)
  \/ RefreshMint(r) \/ RefreshStore(r)

(* What the server does next for the request in slot r. *)
ServerStep(r) == Login(r) \/ Refresh(r) \/ Respond(r) \/ Logout(r)

ClientStep(r) ==
  \/ \E b \in Browsers : \E m \in Members : SendLogin(r, b, m)
  \/ \E b \in Browsers : \E op \in {"refresh", "logout"} : SendWithCookie(r, b, op)
  \/ Deliver(r) \/ Drop(r)

Next ==
  \/ \E r \in Requests : ServerStep(r) \/ ClientStep(r) \/ Fail(r)
  \/ Tick
  \/ \E m \in Suspendable : SetSuspended(m)

Spec == Init /\ [][Next]_vars

(* The event loop and the database run every handler to its end.            *)
FairSpec == Spec /\ \A r \in Requests : WF_vars(ServerStep(r))

-----------------------------------------------------------------------------
(* Properties *)

Held(f) ==
  \/ \E x \in refreshTokens : x.family = f
  \/ \E r \in Requests : Carrying(r) /\ req[r].family = f

(* However refreshes, logins and logouts interleave, a session is continued *)
(* by one row, or by one refresh that has deleted it: two refreshes with    *)
(* the same cookie never both come out with a token (auth.service refresh:  *)
(* findUnique and delete are two steps, and both may find the row).         *)
OneTokenPerFamily ==
  /\ \A x, y \in refreshTokens : x.family = y.family => x = y
  /\ \A r, s \in Requests :
       Carrying(r) /\ Carrying(s) /\ req[r].family = req[s].family => r = s
  /\ \A x \in refreshTokens, r \in Requests :
       Carrying(r) => x.family # req[r].family

(* A session is over exactly when a logout deleted its row, or a refresh    *)
(* failed between its delete and its create.  In particular nobody else's   *)
(* login, refresh or logout can end it.                                     *)
SessionsEndForAReason ==
  \A f \in 1..opened : Held(f) <=> f \notin closed \cup lost

(* A refresh token that was rotated out or logged out is never a row again, *)
(* unless signRefreshToken has produced that very string twice (two         *)
(* signatures for one member in one second: there is no jti).               *)
SpentStaysSpent ==
  \A x \in refreshTokens :
    x.token \in rotatedOut \cup loggedOut => x.token \in reissued

(* The token of a 200 that is still on its way is in the table, so that the *)
(* client can use it: the row is created before the cookie is set.          *)
AnsweredTokenIsLive ==
  \A r \in Requests :
    req[r].pc = "stored" \/ req[r].code = 200 =>
      RowsOf(req[r].fresh) # {} \/ req[r].fresh \in reissued

(* A login answers 200 only if at some moment since it was sent the member  *)
(* was not suspended (verifyPassword's 403).                                *)
SuspendedNeverLogsIn ==
  \A r \in Requests : req[r].op = "login" /\ req[r].code = 200 => ~req[r].barred

(* After a 204 the session of the cookie is over, unless a refresh with the *)
(* same cookie has rotated it meanwhile: deleteMany finds no row then, and  *)
(* is not an error.                                                         *)
LogoutOutlivedOnlyByRefresh ==
  \A r \in Requests :
    req[r].op = "logout" /\ req[r].code = 204 /\ Held(req[r].family) =>
      req[r].cookie \in rotatedOut

(* A refresh is told 401 only if it had no cookie, its cookie is past its   *)
(* time, or that very cookie was rotated out or logged out: no answer has   *)
(* set a cookie without a row, and nobody else's request removes the row.   *)
RefreshRefusedForAReason ==
  \A r \in Requests : req[r].op = "refresh" /\ req[r].code = 401 =>
    LET t == req[r].cookie IN
    t = None \/ JwtExpired(t) \/ t \in rotatedOut \cup loggedOut

(* Every request is answered: no branch of the handlers forgets to respond. *)
RequestsAnswered ==
  \A r \in Requests : req[r].pc = "sent" ~> req[r].pc = "answered"

(* The sessions implement the ledger: opened once, never revived, ended one *)
(* at a time, always the same member's.                                     *)
LiveSessions ==
  {[id |-> x.family, member |-> x.token.sub] : x \in refreshTokens}
  \cup {[id |-> req[r].family, member |-> req[r].sub] :
          r \in {s \in Requests : Carrying(s)}}

Ledger == INSTANCE SessionLedger WITH live <- LiveSessions

LedgerSpec == Ledger!Spec
=============================================================================
