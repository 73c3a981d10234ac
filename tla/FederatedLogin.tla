--------------------------- MODULE FederatedLogin ---------------------------
(***************************************************************************)
(* GET /auth/google/callback and POST /auth/login/telegram, on the tables  *)
(* of Accounts and beside its requests: a sign-up with Google registers    *)
(* (an ordinary registration of Accounts, in the slot of the callback) and *)
(* then logs in, and anything may happen between the two.                  *)
(*                                                                         *)
(* The RefreshToken row that a login ends with is that of Sessions; here a *)
(* code of 200 stands for it, and every other code for a redirect to the   *)
(* login page or an error.                                                 *)
(***************************************************************************)
EXTENDS Accounts

VARIABLE login  \* login[r]: the locals of the callback or login in slot r

loginVars == <<member, credentials, req, login>>

(* What the signed state of a callback says, or a login with the widget. *)
Flows == {"signup", "google", "telegram"}

LoginPCs == {"idle", "sent", "registering", "profiled", "verified", "answered"}

LoginRecord ==
  [flow   : Flows \cup {"none"},
   pc     : LoginPCs,
   name   : Names \cup {None},       \* the username in the state of a sign-up
   new    : Ids \cup {None},         \* the uuid its registration will use
   key    : Identities \cup {None},  \* profile.id or telegramData.id
   member : Ids \cup {None},         \* the member found by verify
   code   : Codes,
   linked : BOOLEAN]                 \* history: key was linked when it was read

NoLogin == [flow |-> "none", pc |-> "idle", name |-> None, new |-> None,
            key |-> None, member |-> None, code |-> 0, linked |-> FALSE]

LoginTypeOK == TypeOK /\ login \in [Requests -> LoginRecord]

LoginInit == Init /\ login = [r \in Requests |-> NoLogin]

-----------------------------------------------------------------------------
LoginAt(r, pc) == login[r].pc = pc

Step(r, pc) == login' = [login EXCEPT ![r].pc = pc]

Reply(r, code) ==
  login' = [login EXCEPT ![r] = [@ EXCEPT !.pc = "answered", !.code = code]]

Provider(flow) == IF flow = "telegram" THEN "TELEGRAM" ELSE "GOOGLE"

IsLinked(r, k) == Linked(Provider(login[r].flow), k) # {}

Reserved(i) == \E r \in Requests : login[r].new = i \/ (req[r].op = "register" /\ req[r].id = i)

(* A slot serves one thing at a time. *)
SendLogin(r, flow, n, i, k) ==
  /\ login[r] = NoLogin /\ req[r] = Blank
  /\ login' = [login EXCEPT ![r] =
       [NoLogin EXCEPT !.flow = flow, !.pc = "sent", !.name = n, !.new = i, !.key = k]]
  /\ UNCHANGED vars

SendSignUp(r, n, i) == ~Exists(i) /\ ~Reserved(i) /\ SendLogin(r, "signup", n, i, None)

SendCallback(r) == SendLogin(r, "google", None, None, None)

SendTelegram(r, k) == SendLogin(r, "telegram", None, None, k)

TakeReply(r) ==
  /\ LoginAt(r, "answered")
  /\ login' = [login EXCEPT ![r] = NoLogin]
  /\ UNCHANGED vars

-----------------------------------------------------------------------------
(* The member cancelled, the state has expired, or Google refuses the code. *)
Bounce(r) ==
  /\ LoginAt(r, "sent") /\ login[r].flow # "telegram"
  /\ Reply(r, 400)
  /\ UNCHANGED vars

(* Google's userinfo answers with a profile, or with an error that          *)
(* fetchProfile takes for a profile without id.  A sign-up goes on to       *)
(* registerWithGoogle.                                                      *)
FetchProfile(r, k) ==
  /\ LoginAt(r, "sent") /\ login[r].flow # "telegram"
  /\ login' = [login EXCEPT ![r] = [@ EXCEPT !.key = k, !.linked = IsLinked(r, k),
       !.pc = IF login[r].flow = "signup" THEN "registering" ELSE "profiled"]]
  /\ IF login[r].flow = "signup"
     THEN SendRegister(r, login[r].new, login[r].name, "GOOGLE", k)
     ELSE UNCHANGED vars

(* The widget's data are signed by the bot and less than a day old, or they *)
(* are not: 401, or 500 when the hash has another length than an HMAC       *)
(* (timingSafeEqual throws).                                                *)
CheckWidget(r) ==
  /\ LoginAt(r, "sent") /\ login[r].flow = "telegram"
  /\ \/ login' = [login EXCEPT ![r] = [@ EXCEPT !.pc = "profiled",
                                               !.linked = IsLinked(r, login[r].key)]]
     \/ \E code \in {401, 500} : Reply(r, code)
  /\ UNCHANGED vars

(* Mutation: the callback does not wait for the outcome of the registration. *)
RegisteredAnyhow(r) ==
  /\ LoginAt(r, "registering")
  /\ Done(r)
  /\ Step(r, "profiled")

(* The registration has been answered: log in, or pass its error on. *)
Registered(r) ==
  /\ LoginAt(r, "registering")
  /\ Done(r)
  /\ IF req[r].code = 201 THEN Step(r, "profiled") ELSE Reply(r, req[r].code)

(* Mutation: a Telegram id is as good as a Google id. *)
VerifyAnyType(r) ==
  /\ LoginAt(r, "profiled")
  /\ LET found == {c \in credentials : c.key = login[r].key} IN
     \/ found = {} /\ Reply(r, 401)
     \/ \E c \in found :
          IF member[c.member].status = "SUSPENDED" THEN Reply(r, 403)
          ELSE login' = [login EXCEPT ![r] = [@ EXCEPT !.pc = "verified", !.member = c.member]]
  /\ UNCHANGED vars

(* Mutation: only approved members are found. *)
VerifyActive(r) ==
  /\ LoginAt(r, "profiled")
  /\ LET found == {c \in FoundBy(Provider(login[r].flow), login[r].key) :
                     member[c.member].status # "UNVERIFIED"} IN
     \/ found = {} /\ Reply(r, 401)
     \/ \E c \in found :
          IF member[c.member].status = "SUSPENDED" THEN Reply(r, 403)
          ELSE login' = [login EXCEPT ![r] = [@ EXCEPT !.pc = "verified", !.member = c.member]]
  /\ UNCHANGED vars

(* verifyGoogle, verifyTelegram: the credential with its member's status,   *)
(* in one query.                                                            *)
Verify(r) ==
  /\ LoginAt(r, "profiled")
  /\ LET found == FoundBy(Provider(login[r].flow), login[r].key) IN
     \/ found = {} /\ Reply(r, 401)
     \/ \E c \in found :
          IF member[c.member].status = "SUSPENDED" THEN Reply(r, 403)
          ELSE login' = [login EXCEPT ![r] = [@ EXCEPT !.pc = "verified", !.member = c.member]]
  /\ UNCHANGED vars

(* The tokens are signed and the refresh token is stored. *)
Store(r) == LoginAt(r, "verified") /\ Reply(r, 200) /\ UNCHANGED vars

FailLogin(r) ==
  /\ Faults
  /\ login[r].pc \in {"sent", "profiled", "verified"}
  /\ Reply(r, 500)
  /\ UNCHANGED vars

LoginStep(r) ==
  \/ Bounce(r) \/ CheckWidget(r) \/ Registered(r) \/ Verify(r) \/ Store(r)
  \/ \E k \in Identities \cup {None} : FetchProfile(r, k)

LoginClient(r) ==
  \/ \E n \in Names, i \in Ids : SendSignUp(r, n, i)
  \/ SendCallback(r)
  \/ \E k \in Identities : SendTelegram(r, k)
  \/ TakeReply(r)

(* The other requests of Accounts, in slots that serve no login and with    *)
(* uuids that none has.                                                     *)
OtherClient(r) ==
  /\ LoginAt(r, "idle")
  /\ ClientStep(r)
  /\ req'[r].op = "register" => \A s \in Requests : login[s].new # req'[r].id
  /\ UNCHANGED login

LoginNext ==
  \/ \E r \in Requests : LoginStep(r) \/ LoginClient(r) \/ FailLogin(r) \/ OtherClient(r)
  \/ \E r \in Requests : (ServerStep(r) \/ Fail(r)) /\ UNCHANGED login
  \/ \E i \in Suspendable, s \in Statuses : SetStatus(i, s) /\ UNCHANGED login

LoginSpec == LoginInit /\ [][LoginNext]_loginVars

-----------------------------------------------------------------------------
(* Properties *)

(* A session goes to the member linked to the identity that was proved, by  *)
(* a credential of the right provider.                                      *)
SignsInTheLinked ==
  \A r \in Requests : login[r].member # None /\ login[r].key # None =>
    [type |-> Provider(login[r].flow), key |-> login[r].key, member |-> login[r].member]
      \in credentials

(* A sign-up whose registration succeeded finds its account, whatever runs  *)
(* in between, and signs in no other.                                       *)
SignUpSignsIn ==
  \A r \in Requests : login[r].flow = "signup" =>
    /\ login[r].code # 401
    /\ login[r].member # None /\ login[r].key # None => login[r].member = login[r].new

(* A callback that failed after its registration leaves an account that a   *)
(* login still finds; signing up again makes no second one.                 *)
RetrySignsIn ==
  \A r \in Requests : login[r].linked =>
    /\ login[r].code # 401
    /\ login[r].flow = "signup" => ~Exists(login[r].new) /\ login[r].member = None

(* google.service.js: verifyGoogle resolves the member linked to a Google   *)
(* profile.                                                                 *)
VerifiesTheLinked ==
  \A r \in Requests : login[r].flow = "google" /\ login[r].member # None =>
    [type |-> "GOOGLE", key |-> login[r].key, member |-> login[r].member] \in credentials
=============================================================================
