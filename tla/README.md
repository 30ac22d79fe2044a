# Verification of zline_sso

zline_sso is a single sign-on service in Rust: an axum server on tokio's
multi-thread runtime, a SQLite table of accounts behind an r2d2 pool, sessions
and authorization codes in memory, passwords checked by an external web site.
This directory holds TLA+ models of it, TLC configurations that check them on
small instances, and theorems that TLAPS checks for every instance.
`PROJECT.json` maps each definition to the source lines it translates and lists
the runs, the hazards, the theorems and the disagreements found.

## 1. The system

| Part (source) | State | Operations | Hard behaviour |
| --- | --- | --- | --- |
| Accounts table (`db.rs`) | one row per username: uid, role, profile, flag, state, end of the restriction, failed attempts; log lines per uid | create/update by username, five UPDATEs by uid, delete, lists | every statement commits on its own; no transaction anywhere; most write errors are ignored |
| Login, continue, logout (`auth.rs`) | none of its own | login with password (create account, verify outside, synchronise profile, record, lock out, session, code), single sign-on with a session, logout | the account is read once, and what was read is used after an external call that takes seconds |
| Administration (`admin.rs`) | none of its own | ban, unban, set state, set role, add, delete, lists | runs beside the logins of the same account |
| Codes and tokens (`auth.rs`, `oidc.rs`) | `code_store` behind a mutex, a signing key per start | issue a code, exchange it, JWKS, discovery | one redemption per code while requests, cleanup and restarts compete |
| userinfo and profile (`oidc.rs`, `profile.rs`) | – | verify a token or a session, read the row, answer the fields of the client | nothing is taken back when the account, the configuration or the start changes |
| Sessions (`auth.rs`, `state.rs`) | `session_store` behind a mutex | create, look up, drop | their age is looked at by the cleanup only |
| Cleanup task (`main.rs`, `state.rs`) | – | every 60 s: old sessions, old codes, a GeoIP cache that is too large | needs the mutexes handlers hold |
| Staff tags (`tags.rs`) | the role column | list, add, remove a tag | read, compute, write back the whole column |
| Role strings (`utils.rs`, `db.rs`) | a comma-separated string | parse, validate, add, remove, search with LIKE | a set kept in a string |
| Schema and migration (`db.rs` `init_db`) | the database file | create, rebuild TEXT columns as INTEGER, convert times | a stop between any two statements |
| Pool and threads (`main.rs`, every handler) | 10 connections, the workers | blocking `get()` with a time limit | logins keep a connection across their awaits |
| External client (`zline.rs`) | one HTTP client, one cookie jar for all logins, the students' CSV | fetch a token, log in, fetch the profile | concurrent logins share the jar; no time limit; every error is a rejection |
| GeoIP lookup and cache (`state.rs`) | cache by IP behind a mutex | look up, insert | bounded by the cleanup only |
| Helpers (`utils.rs`) | – | redirect patterns, client IP, decryption of the payload with its time window, cookies | |
| Pages (`statics.rs`), configuration (`config.rs`), router (`main.rs`), frontend | files | read | |

How they interact: handlers share the table through SQL statements, the stores
through mutexes, and nothing else orders them. A handler is dropped at an await
when its client disconnects. A panic ends the process (`panic = "abort"` in
`Cargo.toml`), and a start empties the stores and makes a new signing key.

What makes the parts correct:

- login: no session without a verification or an exemption, no code for an
  account that never allowed it during the request, lockouts only for enough
  failures of that very account, no failure lost, no log line without account;
- codes: one redemption, by the client and for the user and nonce of the grant;
- cleanup: codes and sessions leave; it never takes a code under redemption;
- access: what can read a locked account dates from before the lock, ends by
  itself, and never answers a client more than its user agreed to;
- external client: an accepted login is its own, and so is its profile;
- tags: no account has a tag nobody gave it, no staff member gives one he was not
  given; the string is the set;
- migration: no account is lost, a statement that fails does no damage beyond
  its own column or table, times stay readable;
- pool: every request ends.

## 2. The modules

| Module | Of | EXTENDS |
| --- | --- | --- |
| `Accounts` | the table as a value, one operator per SQL statement | – |
| `Auth` | login, continue, logout, administration of accounts | `Accounts` |
| `AuthHistory` | `Auth` with history variables; its safety properties and the inductive invariant of the lockout | `Auth` |
| `AuthClaims` | what a comment says and the code does not keep | `AuthHistory` |
| `OneTimeCode` | abstract: what a code promises | – |
| `Oidc` | sessions, codes, token endpoint, cleanup, restarts; implements `OneTimeCode` | instance of `OneTimeCode` |
| `Access` | `Oidc` composed with the state of the accounts, the configuration and userinfo | `Oidc` |
| `Housekeeping` | `Oidc` composed with the GeoIP cache: the whole cleanup task, and its liveness | `Oidc` |
| `ExternalLogin` | abstract: what the login handler relies on | – |
| `Zline` | the client of the external system, its cookie jar and the students' file; implements `ExternalLogin` | instance of `ExternalLogin` |
| `Tags` | staff and administrator requests on role sets | – |
| `Roles` | the role string and its search, which justify the sets of `Tags` | – |
| `Migration` | `init_db`, statement by statement | – |
| `ConnPool` | workers and connections | – |
| `AuthProofs` | theorems about `Auth` and `AuthHistory`, in three parts: types, lockouts, admission | |
| `OidcProofs` | theorems about `Oidc`, `Housekeeping` and `Access` | |
| `ZlineProofs`, `TagsProofs`, `RolesProofs`, `MigrationProofs`, `ConnPoolProofs` | theorems about these modules | |
| `LoopTheorems` | induction over the turns of a loop, for `RolesProofs` and `ZlineProofs` | |
| `MCAuth`, `MCOidc`, `MCAccess`, `MCHousekeeping`, `MCZline`, `MCTags`, `MCRoles`, `MCMigration` | instances for TLC | |

Definitions called `Bug_...` are not the code. Each is a plausible mistake in the
definition that follows it; a property is worth its run because TLC refutes it
once that definition is replaced by its `Bug_...`.

### Accounts and Auth

`users` maps every username to a row; uid 0 is "no row". Uids are handed out by a
counter, which stands for fresh uuids, so that an account that is deleted and
created anew is a different one. Statements "WHERE uid = ?" touch no row when
the account is gone; `upsert_user` goes by the username and then inserts.

Each request has a program counter `pc[r]` and the variables of its handler
`local[r]`: the row as it was read (`info`), the state after the expiry check,
the external answer. A step is one SQL statement, one locked access to a store,
or one answer from outside; between any two of them other requests run. Stages
and code:

| Stage | Action | Code |
| --- | --- | --- |
| idle | `LoginBegin`, `ContinueBegin` | `login_handler`, `continue_handler` up to the first statement |
| lookup, create, reread | `Found`, `Missing`, `Create`, `Vanished`, `Unwrap` | `get_user_full_info`, `upsert_user` and the second reading |
| check | `Check` | `clear_expired_restriction` and the match on the state |
| verify, userinfo | `Accepted`, `Rejected`, `FetchProfile`, `Cancel` | the two awaits; a client that goes drops the handler there |
| flag, sync, success, success_log, session, code | `SetFlag` ... `IssueCode` | the arm of an accepted login |
| reset, failure, failure_log, lockout | `ResetProfile` ... `Lockout` | the arm of a rejected one |

Administrators have one operation at a time, in the two to three statements the
handler makes. `WritesMayFail` lets every statement whose error the code ignores
or reports fail; `MemoryLoss` adds logouts, dropped codes and restarts. Requests
refused before anything shared is touched are not steps, and neither are errors
of a reading statement (`auth.rs:193`, `auth.rs:196`): its request ends without
a change, which for safety is a request that takes no further step. Where such
an error panics (`auth.rs:511`) it is one more start of `MemoryLoss`. Roles, log
contents, cookies and encryption are in no step.

`AuthHistory` records, per request, the uid it was accepted or rejected for, and
everything the account admitted its user to since the request began. The
recorded facts change no step.

### Oidc and OneTimeCode

The token endpoint takes the mutex of `code_store` for its lookup and gives it
back at its end; lookup, signing and removal are steps of their own with the
mutex held, so that the model shows what the mutex is for. The clock may be set
back (`ClockMayStep`): `elapsed()` then fails and the handlers take the code for
fresh. A restart drops the stores and the requests under way and counts the
signing key up. The refinement maps codes in the store to outstanding grants,
and answered token requests to redeemed ones. `OneTimeCode` lets a grant be
forgotten at any time; when the service does forget one is `CodeNotSpoilt`: not
because somebody else asked for it.

### Access

Every action of `Oidc` is an action here, the clock that is set back among them,
with what it reads or leaves of three more things: the state of each account
(`account`, reduced to what decides about admission), the configuration of the
present start (`whitelist`: `return_extra_userinfo` by client) and the userinfo
requests under way. Logins and continues are admitted by the state the account
has when they begin (`Admit`), which is the one reading they make; from there on
nothing looks at the account again. `SetAccount` is any change of a row by an
administrator, a lockout, an expiry or a deletion. userinfo is two steps, the
verification of the token and the answer, with a start possible between them.

`Reach(u)` collects the login and continue requests through which u's account
can be read now or later: through requests under way, sessions (which the
profile page honours at any age), codes, token requests, valid tokens and
verified userinfo requests. The history variables record which of them had read
the account before it was locked (`earlier`), which accounts were locked at the
last start (`cut`) and what was configured when a user signed in (`shown`).

### Housekeeping

`cleanup_expired` is three steps, sessions, codes, cache, as in the code. Logins
look an address up in the cache and insert it later, under two locks of the
mutex, so that the cache grows during and between cleanups. What an address
resolves to is left out.

### Zline and ExternalLogin

Each login is a chain of HTTP requests, one step each: the page with the token,
the form, one or two pages of the profile. All logins share the cookie jar of
the one `reqwest` client. The site is modelled by everything it may answer, and
assumed to accept only a complete form with a right name and password and to
show a page's cookie holder only. `CookieSent` is the heart of the model: the
explicit `Cookie` header keeps the jar out, except after a redirect, which the
client follows with the jar's cookie; `Redirected` says for which logins the
site may do so. `LoadCsv` is the loop of `load_csv_cache` over the lines of the
students' file, short, doubled and numberless rows among them, and `csv_cache`
what it leaves.

`ExternalLogin` has no cookies and no pages: a login is accepted if it is right,
rejected at any time, and then brings home one of the profiles it may. `Auth`
uses it in that form (`Accepted`, `Rejected`, `FetchProfile`).

### Tags and Roles

A staff request is three statements: its own account, the target's, the write of
the whole column. `given` records who gave what to which uid; an administrator is
uid 0. `Roles` shows that
the column's string represents a set under every operation, which is why `Tags`
can use sets. In `Roles` tags are sequences of characters, since LIKE compares
characters. The iterator chains of `utils.rs` are written as the loops they are,
recursive functions of the number of turns (`Without`, `Once`, `Wrapped`), which
is also the form in which they can be proved about. `Char` are the characters
`validate_role_str` lets into a role; all that is assumed of them is that the
comma is none of them, in either case.

### Migration

`stage` is the statement that comes next; `Stop` can happen between any two, and
`Start` begins from the first on what is in the file. Foreign keys are a setting
of the connection, and dropping the table with them on drops the log lines. Every
statement whose error the code ignores may fail: the pragma, off and on, each of
the conversions, the missing columns of the log. `ignored` records which of them
failed when they were last run.

### ConnPool

A request occupies a worker while it runs or waits inside `get()`, and holds a
connection from then to its end. Logins await the external site with the
connection and without the worker; staff requests give the first connection
back and ask for a second one. Requests are sent again and again. Requests that
need no connection only need a worker, and are left out. `GivesUp` is the time
limit of `get()`, which is what breaks the circle of workers that wait for
connections and connections that wait for workers. `Ahead` counts the steps a
request has before it.

## 3. The runs

| Run | Instance | Shows |
| --- | --- | --- |
| `admission` | 2 logins or continues, for an application or the user centre, threshold 2, an administrator who restricts, bans or exempts, clock 0..1 | `LockoutJustified`, `FailuresAllCounted`, `CodeJustified`, `SessionJustified`, `BanHolds`, types |
| `accounts` | 2 logins or continues, threshold 1, deletion and creation, restarts, failing writes | `LogsOwned`, `LockoutJustified` |
| `codes` | 2 authorizations, 2 token requests, 2 users, 2 clients, 2 starts | `CodesOnce` (refinement), `HolderOwnsCode`, `CodeNotSpoilt` (an action property), types |
| `access` | 2 logins or continues, 1 token and 1 userinfo request, 2 clients, 2 configurations, 2 starts, clock 0..4 that may be set back | `LockHolds`, `RestartRevokes`, `AccessBounded`, `FieldsAuthorized`, types |
| `expiry` | 2 authorizations, 1 token request, 2 addresses and a cache for 1, fairness | `CodesLeave`, `SessionsLeave`, `CacheShrinks`, types |
| `zline` | 4 logins of 2 users: a right and a wrong one of the first, a redirected and a too long one of the second; a file of 6 rows | `LoginsKeptApart` (refinement), `LastRowCounts`, types |
| `tags` | 2 staff requests, 1 role request, 2 names, 3 uids | `TagsOriginate`, `StaffGiveOwn`, types |
| `roles` | 4 lookalike tags, up to 3 typed parts | `RepresentsHeld`, `NoRepetition`, `SearchFindsAll`, `SearchFindsOnly` |
| `migration` | 2 accounts, 3 starts, all old contents, failing statements | `AccountsInFile`, `LogsKept`, `TimesReadable`, types |
| `pool` | 2 logins, 2 queries, 2 workers, 2 connections | `SomeoneCanGoOn`, `StepsRunOut` (an action property), `RequestsEnd`, `OthersEnd`, types |

Bounds, and why they are enough:

- Requests: the races are between two. A lockout with a threshold of two needs
  both of them to fail; that no third one changes the picture is what
  `LockoutsJustified` proves. A request is used once; a client that tries again
  is a second one.
- `MaxUid` is 3: an account, one created anew after a deletion, and one more.
- `MaxTime` bounds the clock: a restriction of an hour set at 0 ends at 1, so
  that both sides of each comparison occur. In `Access` the lives of codes and
  tokens and the leeway are 1 each, and 4 is one more than a code and its token
  can last together; a session, which outlives both, lasts 4. `CanExpire` (Oidc)
  lets nothing be created so late that it could not expire; it bounds creation,
  not the cleanup.
- `Pass` (Access) is an assumption about speed and no bound: a token request
  computes for less than a unit of the clock between its look at the code and
  its answer (`oidc.rs:92`, `oidc.rs:126`). Without it `AccessBounded` would have
  to add that time.
- `CacheMax` is 1 with two addresses: below, at and above the limit.
- `MaxStarts`, `MaxKeys`: a broken-off start, one after it, and a third that
  finds what the second left.
- One username in the runs of `Auth`: no statement there touches two accounts.
  The theorems have any number.
- The token requests, the tags, the role strings and the pool have small
  numbers of interchangeable parts.
- Symmetry is used over requests, authorizations, users and uids, never in a run
  with a liveness property.
- `WritesMayFail` and `MemoryLoss` are on in `accounts`, off in `admission`.
  `FailuresAllCounted` needs both off: a failing write or a stop loses a count.
  `CodeJustified` and `SessionJustified` need writes that do not fail (below).

Deadlock is checked in `roles` and `pool`. Elsewhere each request is
used once and the clock is bounded, so that the model stops when all is done
(`CHECK_DEADLOCK FALSE`).

### Fairness

- `Housekeeping!HSpec`: the cleanup (an endless `interval` loop), the steps of a
  token request that runs (no step waits for anything but the mutex, which its
  holder releases) and the clock. Clients need not do anything.
- `ConnPool`: strong fairness for taking up a request and resuming a login,
  since tokio's queues are fair while workers become free again and again; weak
  fairness for a request inside `get()`, which gets a connection or gives up,
  and for a handler that runs. That the external site answers is a premise of
  `RequestsEnd` and none of `OthersEnd`, because the HTTP client has no time
  limit.

### Where code and text disagree

Each of these runs checks one sentence of the repository and ends with a
counterexample.

| Run | Sentence | What happens |
| --- | --- | --- |
| `claim_restricted` | a restriction without duration lasts until lifted (`admin.rs:86`) | failed logins of the restricted user replace it by a lockout that ends by itself; no race is needed |
| `claim_start` | a start succeeds (`main.rs:55`) | after a stop in the rebuild, `users_new` is there and every later start fails |

The models have further behaviours that a text of the repository does not lead
one to expect. The properties are stated so that they say what does hold:

- redirect_uri is said to have to be that of the authorization (`oidc.rs:59`,
  `README.md:53`); `oidc.rs:107` accepts any registered one of the client:
  `Oidc!ExchangeBegin`.
- `clear_expired_restriction` ignores a failing UPDATE and answers Normal all the
  same (`auth.rs:78`). A login that read an expired restriction is then let
  through although an administrator has banned the account since, and the
  account has allowed nothing at any moment of the request: with `WritesMayFail`,
  TLC refutes `CodeJustified`. The theorems assume that no write fails.
- A page request that the site redirects carries the cookie of whoever logged in
  last (`zline.rs:181`): a login may be given another user's profile. What holds
  is `LoginsKeptApart`, with that exception by name.
- The students' data of a row without a number goes to every page without a
  number (`zline.rs:129`); the same property names it.
- Neither a token nor a session is taken back when its account is locked or
  deleted (`oidc.rs:227`, `profile.rs`). What holds is `LockHolds`,
  `AccessBounded` and, after a start, `RestartRevokes`.
- A login under way during a ban gets its session, and if it fails it may write
  its lockout over the ban (`models.rs:63`, `admin.rs:75`). What holds is
  `SessionJustified` and `BanHolds`.
- A lockout may be written on a counter that a success has reset meanwhile
  (`db.rs:335`: consecutive failures). What holds is `LockoutJustified`.
- A rejected first login stores an empty profile over one that a concurrent
  login obtained (`auth.rs:221`): `ResetProfile`.
- `continue` unwraps a row that can be gone, and the process aborts: `Unwrap`.
- A session older than `SESSION_TTL` is honoured until the cleanup comes by
  (`models.rs:8`). What holds is `SessionsLeave`.
- A staff request writes back the column it read, and may thereby take away
  "staff" or "admin" that an administrator has just set (`README.md:128`). What
  holds is `TagsOriginate`: nothing is given that way.
- The staff's search ignores case and takes an underscore for any character
  (`db.rs:591`: exact). What holds is `SearchFindsAll` and, for tags without an
  underscore and but for case, `SearchFindsOnly`.
- A stop between DROP and RENAME leaves the accounts in `users_new`, and the next
  start serves an empty table (`db.rs:85`). What holds is `AccountsInFile`.
- If an UPDATE of the migration fails, the copy keeps the year only (`db.rs:84`).
  What holds is `TimesReadable`, with the column that failed as the exception.
- If the pragma that switches the foreign keys off fails, or cannot be read, DROP
  TABLE deletes the log lines it was to keep (`db.rs:104`). What holds is
  `LogsKept`, with that exception. Log times whose UPDATE failed are not lost: the
  next start converts them.
- `clear_expired_restriction` writes Normal over a restriction that was made after
  it had read the row (`auth.rs:79`). `BanHolds` has that login as an exception.
- A staff member who loses his right, or the tag, after `require_tag_manager`
  still writes (`tags.rs:119`). What holds is `StaffGiveOwn`: he had been
  appointed and had been given the tag.

## 4. The proofs

TLAPS checks these for every set of users, requests, administrators, clients,
logins and tags, every threshold, every life time and every bound. The
assumptions on the constants are the named `ASSUME`s of the modules: durations
and bounds are natural numbers, `Threshold` is not 0, requests and
administrators are different, the set of requests is finite, there are workers
and connections, the tags with a meaning are not among the others, a tag is a
nonempty sequence of characters without a comma, the markers `None`, `Blank` and
`NoTable` are no values, and (`FileAssumption`) a row of the students' file with
a number is about the student of that number. Where a theorem needs more, its
`ASSUME` says so.

| Theorem | States | Further assumption |
| --- | --- | --- |
| `AuthProofs!TypeCorrect`, `HistoryTyped` | types of `Auth` and its history | – |
| `AuthProofs!LockoutsJustified` | `LockoutJustified` | – |
| `AuthProofs!SessionsJustified`, `CodesJustified` | `SessionJustified`, `CodeJustified` | no write fails |
| `AuthProofs!BansHold` | `BanHolds` (an action property) | – |
| `AuthProofs!LogLinesOwned` | `LogsOwned` | – |
| `AuthProofs!FailuresCounted` | `FailuresAllCounted` | no write fails, no restart, no deletion |
| `OidcProofs!StoresTyped`, `CodeHeld`, `CodesUnspoilt` | `OTypeOK`, `HolderOwnsCode`, `CodeNotSpoilt` | – |
| `OidcProofs!CodesRedeemedOnce` | `Oidc` implements `OneTimeCode` | – |
| `OidcProofs!CleanupImplementsOidc`, `CleanupKeepsCodes`, `CleanupTyped` | `Housekeeping` implements `Oidc`, and so `OneTimeCode`; types | – |
| `OidcProofs!AccessImplementsOidc` | `Access` implements `Oidc`, and so `OneTimeCode` | – |
| `OidcProofs!LocksHold`, `RestartsRevoke`, `AccessIsBounded`, `FieldsAsAuthorized`, `AccessTyped` | the invariants of `Access` | – |
| `ZlineProofs!ClientKeepsApart`, `ClientTyped` | `Zline` implements `ExternalLogin`; types | – |
| `ZlineProofs!CacheIsOfFile` | `LastRowCounts` | – |
| `TagsProofs!TagsAccountedFor`, `StaffEntitled`, `TagsTyped` | `TagsOriginate`, `StaffGiveOwn`, types | – |
| `RolesProofs!ColumnRepresents`, `ColumnHasNoRepetition` | `RepresentsHeld`, `NoRepetition` | – |
| `RolesProofs!SearchIsComplete`, `SearchIsExact` | `SearchFindsAll`, `SearchFindsOnly` | – |
| `MigrationProofs!NoAccountLost`, `ServedTimesReadable`, `NoLogLineLost`, `FileTyped` | `AccountsInFile`, `TimesReadable`, `LogsKept`, types | – |
| `ConnPoolProofs!CircleBroken`, `StepsAreBounded`, `PoolTyped` | `SomeoneCanGoOn`, `StepsRunOut`, types | – |

The arguments:

- *Types of `Auth`.* The type invariant alone is not inductive: a handler indexes
  the table with the user of its request, so that the proof adds that requests
  and operations under way have a user.
- *Lockouts.* A locked row only tells that some handler had read a counter near
  the threshold, some time ago. `LockoutInv` therefore says where counters come
  from: a row's counter is at most the number of recorded rejections of its uid
  (`CounterBacked`), the copy a handler holds is at most that number without the
  handler's own rejection (`SnapshotBacked`), and the history of rejections
  agrees with the stages (`RejectionKnown`).
- *Sessions and codes.* A handler decides on a copy of the row, and possibly on a
  state that had run out. `RowFact` and `Move` first condense what any step can
  do to a row and to a request. `CheckBacked` then says that the copy about to
  be checked tells what the account has allowed since the request began, or is
  that of an account which is another one by now; `GrantBacked` carries this on
  to everything past the check. A check that finds the copy expired writes
  Normal to the row of its uid: from then on the account does allow it. This is
  the step that fails if the write fails.
- *Bans.* `RowFact` names the only steps that change a restriction, and
  `Unbanned` that a handler past its check holds no copy of an untimed ban.
- *Log lines* follow from `RowFact` as well: a row goes only together with its
  lines, and the foreign key refuses a line without a row.
- *Failures.* `CountStep` splits the steps into one that records a failure
  (`Recorded`) and those that do not touch counters or counted rejections
  (`Quiet`). `UidsOld` (a new account has no rejections yet) and
  `AcceptanceKnown` (a reset belongs to an acceptance) make it inductive.
- *One-time codes.* `OInv` says that a request under way has a session's user
  and a registered client (`Admitted`), that a code is its request's only one
  (`Unique`), that a token request past its checks has the mutex and its code
  still in the store (`Holding`), that what it is about to answer is for that
  code (`Signed`), and that only finished requests have tokens (`Unanswered`).
  Each step of `Oidc` is shown to be a step of `OneTimeCode` or a stutter.
  `StepSpares` goes through the steps once more for what they take from the
  store: the one that answers tokens takes the one code it had looked up, for
  its client; the cleanup takes dead ones; a start takes all.
- *Compositions.* Every step of `Housekeeping` and of `Access` is one of `Oidc` or
  leaves its variables alone (`CacheStep`, `OidcStep`). So they implement it,
  and all that is proved of `Oidc` holds of them.
- *Access.* `LockHolds` and `RestartRevokes` speak of everything that can reach
  an account, and their invariant of where it came from: sessions, codes and
  tokens go back to a request of the same user (`Traced`), tokens in use are of
  the present key (`Keyed`), expire in time after their code (`Timely`), and
  stand for what was configured (`Entitled`); accounts cut off at a start stay
  out of reach (`CutOff`). `StepFacts` says for each variable on its own what a
  step does. `Reach` itself may grow without an admission, since a clock that is
  set back brings an expired token to life; `WithinShrinks` therefore shows of
  the larger `Within`, which has the tokens of the present key whatever their
  age, that no step but an admission adds to it.
- *External client.* `JarOK` (the jar's cookie belongs to a right login),
  `Cached` (what the file can hold under a number) and `Progress` (what a login
  has at each request) make every step one of `ExternalLogin` or a stutter.
- *Loops.* A recursive function is by definition one that is chosen among those
  that satisfy its equation, so that two things have to be shown before anything
  can be said of it: that there is one (`Iteration`, by gluing one more turn to
  the function of the turns before), and that its values are where the turns
  keep them (`KeptLoop`, `SeenLoop`, `JoinedLoop`, `LoadedLoop`). The library's
  induction theorems take a predicate as a parameter, which the provers
  cannot instantiate. `NaturalSet` says the same of a set, from the least
  element that a set of numbers has, and `UpTo` of the turns of one loop. What a
  loop does is then an invariant of its turns: `Good` in `WithoutFacts` and
  `OnceFacts`, `Follows` in `LoadCsvFollows`, `Laid` in `Layout`.
- *Role column.* `WithoutFacts` and `OnceFacts` say of every rebuilding of the
  string that it keeps the set and brings in no repetition; `RolesInv` is the two
  invariants with their types. For the search, `Laid` says how the string lies
  between its commas: the m-th tag ends before the comma at `Ends(r)[m]`, and
  there is no other comma. A tag that is held therefore has commas on both sides
  (`FindsAll`). Conversely the commas of the pattern fall on two commas of the
  string; a tag between the two that were shorter than the pattern would put its
  comma where the pattern has a character, a longer one a character where the
  pattern has its comma (`FindsOnly`). Nothing else than a comma matches a comma,
  which is why `CharAssumption` speaks of `Lower`.
- *Students' file.* `Rows(number, m)` are the rows for a number among the first m;
  `Follows(m, number)` says that map m has what the last of them says.
- *Pool.* If no worker is free, one of those who have them runs, gets a
  connection or gives up: so the circle is broken in every state
  (`CircleBroken`), and each step leaves its request fewer steps
  (`StepsAreBounded`). These are the two reasons for `RequestsEnd`; that they
  suffice under the fairness of the scheduler is for TLC.
- *Tags.* `WritesOriginate` says of the role sets that staff requests are about
  to write what `TagsOriginate` says of the rows, and `AskingEntitled` of a
  request past its check what `StaffGiveOwn` will say of its gift. An entitlement
  once had is in the history for good, which is why the check, made once, is
  enough for it.
- *Migration.* `TablesInPlace` and `KeysOff` say which tables and which setting
  each statement finds, whichever start was broken off where and whichever
  statement failed; from them the log lines are safe. `RowsInv` adds that a
  table of the old type holds everything, that a column has no old text left
  when it is copied, unless its own UPDATE failed (`Tried`), and that the copy
  holds everything before the old table is dropped.

Model-checked only is all liveness (`CodesLeave`, `SessionsLeave`,
`CacheShrinks`, `RequestsEnd`, `OthersEnd`): fairness is outside the prover's
reach. What the proofs do have of it is the safety half: `SomeoneCanGoOn` and
`StepsRunOut`. The two runs that end in a counterexample are
TLC's alone. Every invariant and every action property of a passing run is also
a theorem.

## 5. Not modelled

- JWKS, discovery and client info answer the key or the configuration and change
  nothing; `redirect_matches` and the time window of a payload decide whether a
  request begins, and both outcomes are inputs of the models (a request that is
  refused there is not a step).
- The client's address, cookies, encryption, hashing and the comparison of
  secrets: taken to work, or free inputs.
- The pages, CORS, the rate limit, the wiring of the router and the reading of
  the configuration: files and library layers without state of the service. The
  numbers of the configuration are CONSTANTS.
- The external site is what its client may be answered; the frontend, the sample
  client and the load generator are no part of the service.

## 6. Plan

Done: `Accounts`, `Auth`, its properties and proofs; `Oidc` with its abstract
specification and the proof of the refinement; `Access`, the composition with
the accounts, userinfo and the configuration; `Housekeeping`; `Zline` with its
abstract specification; `Tags`, `Roles`, `Migration`, `ConnPool`; the proofs of
all their invariants, of the refinements, and of the loops of `Roles` and of the
students' file.

Left:

1. `redirect_matches` and the time window of a payload as operators checked
   against a reference definition.
2. Administrator sessions: operations under way when the session ends.
3. A property for the profile that a rejected first login empties: the model has
   the behaviour, and only a comment speaks of it.
