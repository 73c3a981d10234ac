# members-api in TLA+

members-api is an Express service over one PostgreSQL database (through Prisma).
It registers members by password, passkey, Google or Telegram, keeps their
sessions and profiles, and is an OAuth 2.0 / OpenID Connect authorization server
(node-oidc-provider on a Prisma adapter) for other apps. This directory holds a
TLA+ model of it: what its requests do to the database, step by step, when they
interleave and when they fail; TLC configurations that check the models on small
instances; and proofs, checked by TLAPS, for instances of any size.

The server keeps next to nothing in memory. Its state is the database, and a
handler holds local copies of rows between two `await`s. So nearly everything
that can go wrong is of one shape: a handler decides on what it has read, and by
the time it writes another handler has written. Every module below is therefore
built alike: the tables are variables, `req[r]` is the request in slot `r` with
the locals of its handler and a `pc` naming the `await` it has reached, and an
action is the code between two awaits, with at most one database statement.
Statements are atomic (each Prisma call is one statement or one transaction) and
respect the unique indexes of `prisma/schema.prisma`.

## 1. The system

| Component | Source (under `src/src/`) | State | Operations | Correct when |
|---|---|---|---|---|
| First-party sessions | `services/auth.service.js`, `utils/jwt.js`, `controllers/auth.controller.js` | `RefreshToken` rows; the cookie in each browser; the clock | login, refresh, logout | a session is continued once, ends only for a reason, and a 200 carries a usable token |
| Accounts | `services/{auth,google,telegram,member}.service.js`, `controllers/{member,admin}.controller.js` | `Member`, `Credential` rows | register by four methods, rename, approve, (operator) suspend | a username and an identity belong to one member; no half accounts; no update undoes another |
| Passkey ceremonies | `services/passkey.service.js` | `PendingChallenge` rows, the stored signature counter, the authenticators | start and finish of registration and of login | a challenge passes once and is spent by its answer; counters refuse only what was overtaken |
| Authorization-server grants | `controllers/interaction.controller.js`, `oidc/adapter.js`, `services/connections.service.js` | `OidcPayload` rows: grants, codes, access tokens | consent, authorization, code exchange, replay, revocation | a revocation reaches every grant and no other app; no token is left without its grant; no scope without a consent for it |
| Profiles, claims, status gate | `services/{profile,oidc}.service.js`, `utils/profile.js`, `middleware/auth.middleware.js` | `Profile` rows, the member's status | patch, read profile, userinfo, ID token, `findAccount` | patches merge; claims are those of the scopes granted; details only for active members |
| Google callback | `controllers/auth.controller.js`, `services/google.service.js` | none of its own (a signed state) | fetch a profile; register; log in | a login signs in the member linked to the profile; a sign-up cut off half way is finished by a retry |
| Telegram login | `services/telegram.service.js` | none of its own | check the widget's data; register; log in | as Google |
| OAuth client registry, list of connections | `services/oauthClient.service.js`, `services/connections.service.js`, `controllers/{admin,connections}.controller.js` | `OAuthClient` rows; the grants that name them by `clientId` | create, update, remove; the provider's lookup; list | clientIds are unique and fields valid; patches merge; a removed client's grants are nobody else's by accident and still listed |
| API key gate, error handler | `middleware/{apiKey,error}.middleware.js` | none | refuse; turn an error into an answer | every error is an answer |
| Provider and start-up | `app.js`, `oidc/{provider,configuration}.js`, `server.js` | one memoized promise | start | - |
| Routes, environment, utilities | the rest | none | - | - |

**How they interact.** The components share tables, not calls. Accounts writes
`Member.status`, which sessions (login only), passkey logins, the status gate and
the claims read; registration creates the `Credential` rows that all logins look
up; a login by any method ends in the same `RefreshToken.create`. The
authorization server asks `authenticate` for the login prompt and `findAccount`
for claims, and the connections routes delete the rows the provider writes
through the adapter. The Google callback of a sign-up is a registration followed by
a login, two calls of one handler with awaits between and inside them; grants know
a client by the `clientId` string of the registry and by nothing else, so they
outlive it. Browsers, authenticators, apps and the operator (who alone
suspends members, by SQL) act on their own.

**What is hard here.** Look-then-write races (two refreshes, two sign-ups, two
approvals, two consents); deletes and creates that are two statements (refresh,
revoke); values read, awaited over and used (status, counter, grant);
failures between two statements; tokens that are a function of member and second;
assertions that arrive in another order than they were signed. `PROJECT.json`
lists each hazard at its line with the properties that watch it, or the reason
why none does.

## 2. The modules

| Module | What it is | Built on |
|---|---|---|
| `SessionLedger` | abstract: sessions are opened once, belong to one member, end one at a time, never revive | |
| `Sessions` | login, refresh, logout, `await` by `await` | refines `SessionLedger` |
| `Directory` | abstract: joining and renaming are single steps, names and identities unique | |
| `Accounts` | registration, rename, approval, the operator | refines `Directory` |
| `Passkeys` | the two ceremonies, authenticators, expiry and cleanup of challenges | its sign-ups refine steps of `Directory` |
| `FederatedLogin` | the Google callback (sign-up and login) and Telegram login, beside the requests of Accounts | extends `Accounts`: a sign-up runs its registration in the callback's own slot |
| `Connections` | abstract: a grant never changes hands, is extended by what a consent had read and added, ends in one step with all its tokens, and is back only by a consent that had begun | |
| `Grants` | consent, the provider's adapter calls, revocation | refines `Connections` |
| `Clients` | the client registry, the provider's lookup, the list of connections, grants that outlive a client | grants as `Grants` leaves them, one step each |
| `Profiles` | patches, the gate, the four readers of claims | |
| `MCx` | small instance of `x`: the symmetry sets for TLC | `x` |
| `xProofs` | theorems of `x` | `x`, `TLAPS`; `FederatedLoginProofs` also the theorems of `Accounts`, `ConnectionsProofs` those of `Grants` |

`PROJECT.json` maps every definition to the lines it models. Beyond what the
table shows:

**Sessions.** A refresh token is an HS256 JWT over `{sub, type, iat, exp}` with no
`jti`, so the string is a function of the member and the second; `Token` is that
pair, and two signatures in one second are one token. `refreshTokens` holds rows
`[token, family]`; the family (a session number) is history, like `opened`,
`closed`, `lost`, `signed`, `reissued`, `rotatedOut` and `loggedOut`: none of them
guards an action. `RefreshFind`, `RefreshDelete`, `RefreshMint`, `RefreshStore` are
the four database or signing steps of `auth.service.refresh`; the delete throws
when the row has gone (500) and the create throws on a repeated string (500), as
Prisma does. A request with a cookie remembers, as history again, the session that
cookie's row had when it was sent. Access and ID tokens are stateless and left out. The jar of a
browser is written when an answer is delivered, and an answer may be dropped.

**Accounts.** The lookups (`CheckProvider`, `CheckUsername`, `RenameFind`,
`ApproveFind`) and the writes (`Create`, `RenameUpdate`, `ApproveUpdate`) are
separate actions; the writes decide by the unique indexes, and which error a
collision becomes (409 for a rename, 500 for a registration) is as each handler
has it. `RefuseWidget` and `RefuseRename` are the refusals that depend on more than
the form of the body: widget data the bot has not signed, the id of somebody else,
nothing to update. A lookup by identity is `FoundBy`: Prisma drops a condition whose value is
`undefined`, so `findFirst` for a profile without id finds any row of the provider.
The display name and the bcrypt hash have no effect on anything.

**FederatedLogin.** `login[r]` holds the locals of the callback. A sign-up sends
`SendRegister` of Accounts in its slot, waits in `registering`, and goes on to
`Verify` when that request has been answered 201; any other code is passed on. A
redirect to the login page is modelled by the status of the error it came from.
What Google and the widget say is an input: any identity, no identity (an error of
userinfo, whose body `fetchProfile` takes for a profile), or a refusal. `linked` is
history: the identity had a credential when it was read.

**Clients.** A row has an `id` of the database and a `clientId`, which the
administrator may choose. `Create` decides by the unique index alone; `Update` and
`Remove` look first (404) and throw when the row is gone by then (500). `Fail`
answers 500 also for a client that is there: an await has rejected, be it that the
body's logo, which `validate` does not look at, is not a string. Two of the
three validated fields stand for all of them. A grant records, as history, the row
its client was when the provider found it; `chosen` and a list's `live` are history
too, and `drawn` and `known` only keep a uuid from being drawn twice and an
administrator to ids there have been. `ListRead`, `ListName` per entry (in any order, as
`Promise.all` lets them run) and `ListAnswer` are `connections.list`.

**Passkeys.** The library that verifies a response (`@simplewebauthn/server`) is
modelled by its verdict: the response was made for this challenge, is of the kind
that is verified (a new passkey, or a signature), and for a signature the counter is
greater than the stored one or both are 0. A challenge may be answered in either way,
whichever start it is from: the handlers never read the `context` of its row, so a
sign-up may be finished on the challenge of a login, and fails for want of a
username (500). The first count of a new passkey is any count. Between
`FindChallenge` and `DeleteChallenge` the challenge may expire, or be deleted by
another finish with the same `sessionId`. A challenge is good for five
minutes; in the model it may expire at any moment. A passkey in `Registered` has a
member to begin with, so that logins can be checked without the ceremony that made
it; the others are registered by a ceremony. For `Directory` a passkey stands
for its member: its username, and itself as the one identity linked.

**Grants.** The provider is external: it is the sequence of adapter calls it
makes (`Grant.find`, code upsert; code find, `Grant.find`, consume, token upsert;
`revokeByGrantId` on a replay) and nothing else. The adapter, the consent handler
and `connections.revoke` are translated. An id of a grant is drawn once, as the
provider's random ids are. The lifetimes of codes and access tokens are left out:
a row that has expired can only be found less often, and it is no less a row. A
request that fails frees its slot at once: nothing it leaves there is asked about.
`agreed` (all the scopes the consents for a grant have asked for) and `base` (those a
consent read) are history. For `Connections` a grant that is in the table stands,
expired or not; the consents that have read a grant and not saved it yet are
`begun`.

**Profiles.** One field stands for all fields of its scope. `requireActive`, the
read of the member and the read of the profile are separate steps; `findAccount`
reads them in order, `userinfo` in either order (`Promise.all`). What a handler
had read is dropped when it answers.

In all of them a body with a missing or malformed field is answered 400 before the
first `await` and is left out, and `Fail(r)` is an `await` that rejects or a
process that dies: the handler stops with 500 and what the database has done
stays done. (`Profiles` has no `Fail`: no handler there writes twice, so a failure
leaves nothing half done. After a crash a new process finds the same tables: there
is no state to recover.) Definitions marked as mutations in the modules are not part of any
specification; they are plausible bugs that each property is shown to catch.

## 3. What is checked

| Run | Instance | Question and answer |
|---|---|---|
| `sessions` | 1 member, 2 browsers, 2 requests, 2 logins, clock 0..1, TTL 1, faults | Can two refreshes, a logout and a login, failing anywhere, continue a session twice, lose it for no reason, answer with a token that is not stored, or revive a spent one? No, but for the string signed twice in one second (`SpentStaysSpent` says so). Does a 204 end the session of its cookie, and is a refresh ever refused to a browser with a good cookie? It does, unless a refresh had taken the row; never. The sessions implement the ledger. |
| `sessions_suspend` | 1 member, 1 browser, 2 requests, suspension at any time, fairness | Does a member suspended throughout ever log in, and is every request answered? Never, and yes. |
| `federated_login` | 2 members, 2 names, 1 identity, 2 slots, faults | Registrations, renames, approvals, Google callbacks and Telegram logins, two at a time: are accounts whole, identities unique, updates not undone, and is the right member signed in, also by the retry of a sign-up that failed between its registration and its login? Yes; the tables implement the directory. |
| `passkeys` | 1 counting passkey with a member, 2 to be registered, of which 1 counts; 2 names, 2 challenges, 2 requests, counts 0..2, suspension, faults | Logins and registrations in every order, failing anywhere: does a challenge pass once, and does every answer but a 500 leave it deleted? Is a good assertion refused only if a later one was accepted, and does the stored counter go back only over a value the login had not read? With bodies that pair one ceremony's session with the other's response, does a member still get the name its passkey's ceremony was started with? When two sign-ups want one name, does one at most get it? Yes. |
| `clients` | 2 rows, 2 clientIds, 2 values per field and one invalid, 1 member, 2 requests, failing awaits | Creates, patches and removals against consents, revocations and lists: are clientIds unique and fields valid, do patches merge and removed clients stay away, do grants pass to another client only by an administrator's choice of its clientId, and does a list that is answered show every grant held throughout? Yes. |
| `grants` | 2 apps, 2 grants, 2 tokens, 2 requests, faults | Does a 204 reach every grant the revoke found, and nothing of the other app? Yes, but for a grant that a consent saved again. Is a token ever left without its grant, and does a replayed code ever yield a token? Only if its save raced the deletion; never. |
| `consents` | 1 app, 1 grant, 1 scope, 1 token, 3 requests, faults | Consents that hold copies of one grant while others save or revoke it: does it ever have a scope nobody agreed to? Never. Does all of it implement the connections, where a save can drop only what was added since its copy was read? Yes. |
| `profiles` | 1 member, 2 fields, 2 requests, clock 0..1 | Do patches merge, do claims stay within the scopes, are details only for members active at some time during the request? Yes. |
| `accounts_conflict` | 2 requests, 1 name | *Violation.* Two registrations of one username both pass the lookup; the second create fails on the index and is answered 500, where the tests (and the rename) say 409. |
| `accounts_approval` | 1 request | *Violation.* Approving a SUSPENDED member makes it ACTIVE; the README says `UNVERIFIED → ACTIVE`. |
| `grants_revoked` | 1 grant, 2 requests | *Violation.* A consent that found the grant before a revocation upserts it after the 204: the connection, with its earlier scopes, is back. |
| `google_profile` | 1 member, 1 slot | *Violation.* An error answer of Google's userinfo is taken for a profile without id, for which `verifyGoogle` resolves whichever Google member comes first; its comment says the member linked to the profile. |

**Bounds, and why they are enough.** Every interleaving problem here is between
two handlers (a third only sets the stage, and its slot is reused: `Done`, `Deliver`
and `TakeReply` free it), so two slots reach it. In `passkeys` a finish request is
sent once; two of them are the race for one challenge, the race for one name, and the
two logins that overtake each other, each with one challenge of the two. `consents`
has three because two consents and a revocation can hold one grant at once. Two logins give two sessions of one member to
confuse. `MaxTime = 1` with `TTL = 1` has tokens of equal and of different seconds,
valid and expired. Counts up to 2 let a counter go back. Two grants and two
apps make a loop of revoke stop half way and touch the wrong one; two tokens are a
code and its access token, or two codes to confuse. In `federated_login` two names
let a rename go to a free one, and one identity is all that two sign-ups need to
compete for; it stands for a Google and a Telegram account at once. In `clients`
two clientIds are one to take over and one to keep apart. Every constant that
bounds something is named in its module. Slots, ids and names are only compared
for equality, which is what the symmetry sets use; the run with liveness uses none.

The `grants` run has no scopes: they only travel in a payload there, no property of
the run reads them, and with one scope its instance outgrows five minutes. The
scopes are `consents`' business, where one scope can be asked for, added, lost and
brought back, and one grant is what all its requests are about.

`CHECK_DEADLOCK` is off where ids are drawn once (challenges, grants, tokens,
client rows) or the profile instance stops by its clock: there the small instance
may stop, the system does not. The runs of `Sessions` and `FederatedLogin` are
checked for deadlock.

**Fairness.** `FairSpec` of `Sessions` has weak fairness on each request's server
steps and on nothing else: Node's event loop and the database run a handler that
can go on to its next step. Browsers need not send, retry or take an answer, the
clock need not tick and the operator need not act. Under it every request sent is
answered, whichever branch it takes.

**What else the models show.** Six consequences of the code are stated here
without a run of their own, since whether the text they touch meant to exclude
them is for the authors to say. (1) A refresh in the second its token was signed
answers with the same string, and a login in the second of a logged-out token
makes that token valid again (the exception in `SpentStaysSpent`). (2)
`refresh` never reads the status, so a suspension takes effect only when the
refresh token is gone; `SuspendedNeverLogsIn` is about logins. (3) Two approvals
that both read `UNVERIFIED` both answer 200. (4) Of two consents for one grant
the later save drops the scopes the earlier one added (`ScopesLostOnlyInARace`
says that it drops no others), and a code saved between
the two deletes of a revocation stays in the table (the exception in
`NoTokenOutlivesItsGrant`), useless without its grant. (5) Removing an OAuth client
leaves its grants; a client registered later under the same chosen `clientId` has
them (the exception in `InheritedOnlyByChoice`). (6) The claim `updated_at` is the
member's, which a patch of the profile does not touch; section 2.1 of
`docs/profile-and-oidc-authorization-server.md` says `Profile.updatedAt`. One request
shows it.

## 4. What is proved

Proofs hold for any finite or infinite set of members, browsers, requests,
names, keys and challenges and any bound, from the assumptions stated with the
constants (client ids, scopes and values among them): `None` is none of the
values it stands beside, bounds are naturals, `Faults` is Boolean, and subsets
are subsets.

* **SessionsProofs**: `Typed` (type correctness), `OneToken`
  (`OneTokenPerFamily`), `EndedForAReason` (`SessionsEndForAReason`) and
  `ImplementsLedger` (`Sessions` refines `SessionLedger`). The invariant
  `SessionInv` adds to these what a request in flight holds (`RequestInv`: its
  token is its member's, its pc fits its operation), that a token is the key of
  its row (`TokenIsKey`) and that all families known are ones opened
  (`KnownFamilies`). `OneTokenPerFamily` alone is not inductive: a refresh that
  stores a row needs to know that it alone carries the family, a login that its
  new number is in nobody's hands. Each step then does one of six things to the
  sessions (nothing, open, hold, store, lose, close), and each of these is a step
  or a stutter of the ledger.
  `StaysSpent` and `TokenIsLive` (`SpentStaysSpent`, `AnsweredTokenIsLive`) rest on
  `TokenInv`: a token that was signed once is held by one request at most, is a row
  as soon as that request is past its store, and is none once spent (`Tracked`).
  `SuspendedStaysOut` (`SuspendedNeverLogsIn`) rests on `GateInv`: a login past the
  check of the status belongs to a member that was not suspended at some moment
  since it was sent.
  `RefusedForAReason` and `LogoutEnds` (`RefreshRefusedForAReason`,
  `LogoutOutlivedOnlyByRefresh`) rest on `CookieInv`: a token some browser has, or an
  answer on its way carries, is a row or is spent (`Known`), and a logout's session
  still has its row, was closed, or has had its cookie rotated out (`AnswersOK`).
  Both are inductive because a row leaves the table in one of two ways only, each of
  which records it (`Onward`).
* **AccountsProofs**: `Typed`, `Whole` (`AccountsAreWhole`), `OneMember`
  (`IdentityHasOneMember`), `NoOverwrite` (`UpdatesDoNotOverwrite`) and
  `ImplementsDirectory`. The invariant `AccountInv`
  adds that a request still registering has a uuid that is nobody's
  (`RequestInv`), that every member has one credential, and that names are
  unique, which is what `Directory` asks of joining and renaming.
* **FederatedLoginProofs**: `OnAccounts` (a behaviour with callbacks and logins is a
  behaviour of Accounts, so every theorem above holds beside them), `LoginTyped`,
  `FindsTheLinked` (`SignsInTheLinked`), `SignedUpSignsIn` (`SignUpSignsIn`) and
  `Repeatable` (`RetrySignsIn`). `LoginInv` says that a callback waiting for a
  registration waits for its own (`Awaits`), that a sign-up past it has its
  credential in the table (`FoundOK`), that an identity linked once stays linked and
  is turned away by the first check of a registration (`LinkedOK`), and that the
  uuid of a sign-up is its own (`OwnUuids`).
* **PasskeysProofs**: `Typed`, `PassesOnce`, `AnswerSpends`, `NotLockedOut`,
  `BackOnlyInARace` and `RefusedWhenOvertaken` (`RefusedOnlyIfOvertaken`).
  `PasskeyInv` says what each pc means: from the deletion on, the challenge of
  a request is gone; a login past verification has read a
  counter that its response exceeds; and the authenticator is never behind a
  counter stored or signed (`CountersOK`). A step changes one request and keeps
  what the others rely on (`Stable`): a deleted challenge stays deleted, a
  response made stays as it is. `OvertakeInv` adds for the last theorem that no two
  challenges were signed with one count, the first of a passkey being its least
  (`SignedOnce`), and that a stored counter was earned by a request that passed or is
  the one the passkey was made with (`Earned`): a refused assertion then has a later
  one to blame.
  `Joins` (`JoinsTheDirectory`) and `Named` (`NamedByItsCeremony`) share a lemma
  (`MembersStep`): membership changes only where a `CreateMember` finds no row in its
  way (`SignsUp`), which is a `Join` of `Directory`. That the response of a request
  past verification was made for its own session (`SlotOK`) and its challenge is gone
  (`RequestOK`) gives the ceremony that named the member.
* **GrantsProofs**: `Typed`, `Anchored` (`NoTokenOutlivesItsGrant`), `Reaching`
  (`RevokeReachesEveryGrant`), `Refused` (`ReplayRefused`) and `Confined`
  (`RevokeTouchesOneConnection`). None of the four is inductive. `GrantInv` says
  that a consent holds a grant nobody else has or one of its own member and client
  (`Owned`), that what a revoke found is its member's and its client's, what it
  has done is gone or revived, and the grant it is about to delete has none but
  late tokens (`Revoking`), and that a code is consumed before its token is saved,
  so that a replay never passes the lookup (`Exchanging`). A step changes one
  request; the others rely only on grants keeping their member and client and on
  tokens keeping what they are (`GrantsKept`, `TokensKept`).
* **ConnectionsProofs** (on `GrantInv`): `Agreed` (`ScopesAreAgreed`), `LostInARace`
  (`ScopesLostOnlyInARace`) and `ImplementsConnections` (`Grants` refines
  `Connections`). `ScopeInv` adds that a grant never saved is blank and that the copy
  a consent holds has all it read and nothing beyond what was agreed to (`CopyOK`).
  In the refinement a step takes one slot into `begun`, out of it, or leaves it;
  a save is `Connect`, `Extend` or `Revive` by the state of the row it meets; the two
  deletes of a revocation are `SignOut` and `End`. A save may take its copy out of
  `begun` or leave it, since another consent may hold an equal one.
* **ProfilesProofs**: `Typed`, `Denied` (`DefaultDeny`), `ActiveOnly`
  (`DetailsOnlyIfActive`) and `Merged` (`PatchesMerge`). `ProfileInv` adds what a
  request holds at each pc (`Holding`: past the gate, its member was active since
  it was sent) and that whoever is active now has been so since any request in
  flight was sent (`ActiveSeen`), which is what the gate passes on. `DefaultDeny`
  rests on a lemma about `ClaimsOf`: one scope adds a claim by its own names only.
* **ClientsProofs**: `Typed`, `Sound` (`ClientsAreSound`), `Merges` (`UpdatesMerge`),
  `ByChoice` (`InheritedOnlyByChoice`) and `ShowsEveryGrant`.
  `ClientInv` says of a grant, and of a consent that has found its client, that
  whoever has the clientId now is that row or was given it (`Inherits`, which rests
  on drawn ids never being drawn again), and of a list that what was granted all
  along is still to be read, to be named, or named (`ListOK`).

Every case of each inductive step is a named step: one per action, and below it
one per part of the invariant that the action can disturb. Facts about what a
helper (`Goto`, `Answer`, `Take`, `Removed`) does to a slot are lemmas, cited by
name. The invariants were first checked by TLC.

Only model-checked: liveness (`RequestsAnswered`), which needs `ENABLED`. Every
other property of a passing run is a theorem. Four theorems state properties that no
run checks. `TypeOK` of Accounts is a conjunct of `LoginTypeOK`;
`IdentityHasOneMember` and `ScopesLostOnlyInARace` are what
`DirectorySpec` and `ConnectionsSpec`, which the runs do check, say of one state or one
step; and `NeverLockedOut`, that no stored counter is ahead of its
authenticator's, is part of `CountersOK`.

## 5. What is not modelled

Start-up and configuration (`app.js`, `server.js`, `oidc/configuration.js` but for
`findAccount`, environment, routes): wiring, with one memoized promise. The API
key gate compares a header with a constant. JWT and HMAC verification, bcrypt and
WebAuthn cryptography are the verdict they return. The provider's own protocol
(PKCE, redirects, sessions, device flow, `findByUid`, `findByUserCode`) belongs to
its library; this repository contributes the adapter. The details, login and deny
interactions hand a result to the provider and touch no table of this repository
themselves: login authenticates by the `verify` functions modelled in `Sessions`,
`Passkeys` and `FederatedLogin` (for Google with the profile of the request's body)
and stores nothing. Reading members or OAuth clients changes nothing.

## 6. Plan

In order of importance; done are 1 to 14.

1. `Sessions` with `SessionLedger`; runs; the refinement proved.
2. `Accounts` with `Directory`; runs; the refinement proved.
3. `Passkeys`; runs; the one-time challenge and the counters proved.
4. `Grants`: consent, adapter, revocation; runs.
5. `Profiles`: patches, gate, claims; runs.
6. The inductive invariants `SessionInv`, `AccountInv`, `PasskeyInv`.
7. The disagreements with README, tests, comments and design document as runs.
8. `ProfilesProofs`: `DetailsOnlyIfActive`, `PatchesMerge`, `DefaultDeny`.
9. `GrantsProofs`: `NoTokenOutlivesItsGrant`, `RevokeReachesEveryGrant`,
   `ReplayRefused` and `RevokeTouchesOneConnection`.
10. `SpentStaysSpent`, `AnsweredTokenIsLive`, `SuspendedNeverLogsIn`,
    `RefusedOnlyIfOvertaken` and `UpdatesDoNotOverwrite` as theorems.
11. `Clients`: the OAuth client registry with the grants of removed clients and the
    list of connections; run; `ClientsProofs`.
12. `FederatedLogin`: the composition of registration and login, with a failure
    between them and the retry that follows; run; `FederatedLoginProofs`.
13. An abstract `Connections` (granting and revoking are single steps, up to the
    consent that saves again) that `Grants` refines; run; `ConnectionsProofs`.
14. What the answers of logout and refresh mean for a cookie; sign-ups by passkey as
    steps of `Directory`, and the binding of a member to its ceremony.
15. The result an interaction holds between a login, a consent or a denial and the
    provider's resumption of the authorization.
