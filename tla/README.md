# Verification of the digital will service

TLA+ models of the will and estate platform in this repository, the TLC
configurations that check them on small instances, and TLAPS proofs of the
safety properties that matter most.

## 1. The system

A Go HTTP server (chi) over one PostgreSQL database. A testator creates a will
as a draft, signs it, two witnesses counter-sign it, it is locked. A webhook of
the register of Births, Deaths and Marriages (BDM) notifies the death; the
vault opens at once or after a cooling-off period; then a nominated executor
reads the will. Creating a new will supersedes the old one, a codicil amends a
locked one. Every transition is recorded in a hash-chained audit log.

| Part | State | Operations | Talks to |
|---|---|---|---|
| Will service (`internal/services/will.go`) | none of its own | create, codicil, sign (testator, witness), lock, notify death, complete unlock, confirm liveness, add clauses | will repository, audit service, LINZ verifier |
| Will repository (`internal/repository/will_repo.go`, `migrations/`) | tables `will`, `will_executor`, `will_witness_signature`, ... | one SQL statement per method; only `CreateDraft` is a transaction | PostgreSQL |
| Clause repository (`digital_asset_repo.go`) | two clause tables | two INSERTs | PostgreSQL |
| Executor access (`internal/handlers/executor.go`) | none | `GetWill`: lazy unlock, FLT check, answer | will service |
| BDM death trigger (`death_trigger.go`) | none | webhook -> `NotifyDeath` | will service |
| Audit log (`services/audit.go`, `repository/audit_repo.go`) | table `will_audit_log` | `Record`, `VerifyChain`, `GetByWillID` | PostgreSQL |
| Liveness reminders (`handlers/liveness.go`) | two columns of `will` | `SendReminder` (at most one in 24 h), `ConfirmLiveness` | will service |
| Beneficiaries (`handlers/beneficiary.go`) | none | `NotifyAll` for an open will: answers 202, sends nothing yet | will service |
| RealMe login (`packages/realme-go`) | session cookie | login, callback, logout, guards | identity provider |
| Idempotency middleware (`nz-common/middleware/idempotency.go`) | table `idempotency_keys` | look up, execute, store, replay | PostgreSQL; not mounted by this server yet |
| Pagination (`nz-common/pagination`) | none; the client holds the cursor | decode a page, SQL condition, cut the page, next cursor | the caller's SELECT |
| Rest of the shared package (`packages/nz-common`) | Redis sessions | tokens, money, API clients | mostly not called by this server |
| Web UI (`web/`) | forms | calls the API | server |

**What is hard here.** Every request runs in its own goroutine, and every
handler has the same shape: read the will, check it in Go, then write with a
statement that names the primary key and nothing else. Between the read and the
write anything may have happened, and in `AddPropertyClause` a network call lies
between them. The audit entry is recorded after the write, in two more
statements, and its errors are dropped. The request's context may be cancelled,
or the server may stop, between any two statements. The webhook may be delivered
twice. Nothing but an executor's request completes a delayed unlock. A scheduler
repeats reminders, clients repeat requests under an idempotency key while the
first copy is still running, and rows come and go between two pages. The list
`hazards` of PROJECT.json names each place.

## 2. Modules

| Module | What it is |
|---|---|
| `WillRepo` | the `will` row and the SQL statements as operators on rows and tables; `isNominatedExecutor` |
| `WillService` | the handlers as a state machine: one action per step of a request |
| `WillProperties` | the properties, the inductive invariants, the refinement mapping |
| `WillLifecycle` | the abstract specification: what a testator is promised, one step per operation |
| `WillRecord` | a weaker abstract specification: what is left of the promise when requests run concurrently |
| `WillServiceProofs` | theorems about `WillService` for any number of goroutines: the inductive invariant and what follows from it |
| `WillAuditProofs` | on top of it: links between wills end, the log is truthful, and complete while nothing fails |
| `WillRecordProofs` | on `WillServiceProofs`: any number of goroutines implements `WillRecord` |
| `WillSerialProofs` | on `WillAuditProofs`: the service that serves one request at a time, and the refinement of `WillLifecycle` |
| `AuditLog` | the hash chain of one will's audit log, with the clock and the column's precision |
| `RealMeSession` | the sign-in at RealMe, the session token in the browser's cookie, the guard of the API routes |
| `RealMeSessionProofs` | theorems about `RealMeSession` |
| `AuditLogProofs`, `IdempotencyProofs`, `PaginationProofs` | theorems about the modules they extend |
| `Idempotency` | clients that repeat a request under one key, the goroutines that serve the copies, the key table |
| `Pagination` | a client walking through a table page by page while rows are inserted and deleted |
| `MCWill`, `MCAudit`, `MCSession`, `MCIdempotency`, `MCPagination` | model values and symmetry sets for TLC |

### WillRepo and WillService

State:

* `will`, `witness`, `clauses`, `audit` are the tables. A row keeps the columns
  some operation reads back or some property speaks of; names, emails,
  ciphertext and free text are left out. A missing row is `NoRow`.
* `audit` keeps, for each will, the set of events recorded: which transitions
  are in the log. Their order and the hashes are the subject of `AuditLog`.
* `req[p]` is what goroutine `p` holds in local variables: the operation, where
  it is (`pc`), the arguments, the instant it read the clock, the wills
  `FindActiveByTestatorFLT` returned, the row to insert, the entries still to be
  recorded.
* `now` counts days; `fails` counts failures. Two things are history: `notices`,
  the death notifications accepted for each will, and the field `had` of a row,
  the statuses the will was ever given. No guard of the code depends on them (the
  model uses `notices` only for the bound `MaxNotices`).

A request is a read action with the checks of the code as its guard, then a
write action, then one `Record` step per audit entry, in the order of the code
(own will first). Examples: `CreateDraft` is `CreateDraftRead` (find the wills
to supersede), `CreateDraftTx` (the transaction), `Record`...; `Lock` is
`LockRead` (the will row), `LockFetch` (the witness rows: `GetByID` reads them
in a second statement), `LockWrite`; `GetWill` is `GetWillServe` for an unlocked
will, and `GetWillElapsed`, `CompleteUnlockRead` (it reads and checks again),
`CompleteUnlockWrite`, `Record`, `Reload`, `Respond` for the lazy unlock.
`ConfirmLiveness` and `SendReminder` are a read with the checks and a write
whose time is a later reading of the clock, anywhere between the two steps;
`SendReminder` skips within `ReminderInterval`, 24 hours on the model's clock of
days. `NotifyAll` is a read and an answer. `AddPropertyClause` ends with
`VerifyTitle` on what the LINZ search came back with (`TitleSearch`: an error,
no parcel, some parcels).
A request refused by its first check changes nothing and is not represented;
one refused later returns to `Idle`.

Failures: `RecordFails` is an audit error, which the code logs and ignores.
`Fail` ends a request before its next statement: a database error, a cancelled
context, a witness query that returned too few rows, a clash of the
nanosecond key of a witness row, or a crash of the server (after which the
other requests end by further failures). `ReadExecutors` with `failing` is
`fetchExecutors`, which swallows errors and returns the rows read so far. A
statement that fails has no effect, and the transaction of `CreateDraft` is one
step: PostgreSQL guarantees both.

The caller's identity is the verified FLT in the session; how a
session comes about is the subject of `RealMeSession`. UUIDs are fresh.

### AuditLog

`Record`, `ReadLatest`, `Insert` are the clock read and the two statements of
`AuditService.record`. SHA-256 is taken as injective: an entry id is the tuple
of what was hashed. Time is counted in the clock's smallest unit; `Stored`
truncates to the column's microseconds. `ClockStep` is the clock's resolution;
both runs use a clock finer than the column, as Go's is. A statement takes at least a microsecond (`RoundTrip`). `overlap` is a
history variable: it becomes and stays true when a request begins to record
while another one is recording.

### RealMeSession

One browser with several tabs. `jar` is its session cookie, `tab[t]` the request
or answer a tab has under way: a request copies the cookie when it is sent, an
answer changes it when it arrives (`Arrive`), and the two may be far apart.
`requireAssuranceLevel`, `LoginHandler`, `CallbackHandler` with `CreateSession`
and `extractIdentity`, and `LogoutHandler` are the handlers; none of them keeps
anything on the server. A token expires `MaxAge` after the sign-in, the
browser's copy of it `MaxAge` after the answer arrived, so an expired token can
still be sent. An assertion is its class of authentication context and its FLT (or
none); the session index and the attributes are copied into the token and looked
at by nothing, so they are left out. RealMe and the SAML library are external:
any assertion may come back, any response may be refused (`CallbackRefused`),
and one that was accepted may be posted again and accepted again (`Resubmit`),
because `CallbackHandler` passes `ParseResponse` no request ids and remembers no
response.

A token's signature does not show where it comes from. `newCookieSessionStore`
signs with the entity ID, which the metadata handler publishes, and the
`SESSION_SECRET` that its comment (`session.go:54`) asks for in production is
read nowhere. So the guard also lets through requests of other clients, as any
person, with tokens that no sign-in produced (`Elsewhere`), and nothing can be
promised of those. The tokens of the browser carry, as history, the sign-in they
come from (`of`), and the properties say what the guard makes of these. `signIns`,
`ended` and `served` (the request the last step let through) are history
variables.

The model also shows that the guard's redirects (`/auth/realme/login`,
`/auth/realme/verified`) lead to paths for which `main.go` has no route
(`NotFound`); that a person signed in at login level is sent straight back by
`LoginHandler` until they log out or the session expires; and that a logout
clears the cookie only, so a request already on its way is still served.

### Idempotency

`keys` is the table: for each key no row, or the result of the execution that
was stored. `call[p]` is the request goroutine `p` serves: `lookup` ->
`execute` -> `store` -> `reply`, or `lookup` -> `reply` for a replay. A result
is the number of the execution that produced it, or `Refused` for any status
outside 2xx, which is not stored. `live` says that the client is still
connected: both statements run under `r.Context()`, so after a `HangUp` the
lookup and the store can only fail, and both errors are dropped
(`LookupFails`, `StoreFails`). `Crash` ends a goroutine anywhere. The `INSERT`
is `ON CONFLICT DO NOTHING` (`storeKey`). `done`, `replays`,
`spoiled` and `overlaps` are history variables: executions, replayed results,
statements that failed, and lookups made while another copy of the request was
being executed or not yet stored.
Requests that are no POST or carry no key touch none of this. A key stands for
one client's request (random keys); the answer leaves when the handler returns,
which is so for bodies below net/http's buffer.

### Pagination

The server keeps nothing between pages: the walk's state is the cursor the
client sends back. `PageFromQuery` decodes the limit (default, cap, refusal),
`IDCursorSQL` selects the rows after the cursor, `List` is the SELECT the doc
comment asks its caller for (`ORDER BY id LIMIT limit+1`), and `HasMore`,
`Items`, `NextCursor` are `NewResult`. `returned` and `stayed` are history
variables: how often the walk returned an id, and which rows were there all the
time. The doc comment of `NewResult` says the extra row is "used to generate
NextCursor"; the code takes the last row it keeps, which is what `StableWalk`
needs (with the extra row, the mutant `NextCursor_OfExtra`, that row is lost).

### WillLifecycle

Four functions of the will: status, owner, the will it amends, content. Seven
kinds of steps. `WillProperties` maps the tables to it (`Lifecycle`): the
requests under way, the clock and the log disappear, the content is the triple
of testator signature, witness rows and clause rows. The handlers implement it
only one request at a time.

### WillRecord

What the handlers implement with any number of requests at once, whatever fails.
Its state is: status, owner, amended will, successor, the owner's signature, the witness
signatures, the notifications, the clock. `Seal`, `DeathNotified` and `Open` may
overwrite any status, even `superseded`, but only on an executed will, `Open`
only after the cooling-off of some notification; a new will may replace any wills
of its owner, in the one step that creates it; `Sign` and `Witness` may hit a
will in any status. `WillProperties` maps the tables to it (`Archive`); clauses,
liveness columns, the log and the requests disappear.

## 3. Runs

All bounds are CONSTANTs of the modules. Two wills are enough for a will to be
replaced, three for a codicil whose parent is replaced; two goroutines give
every pairwise race; two witness rows are what `Lock` asks for; one day separates
"before" and "after" the cooling-off; one failure can hit any step. `MaxNotices`
bounds the notifications per will: two are a webhook delivered twice, with the
same or another delay, or on another day. Deadlock checking is off because the
bounded model stops when its ids, notifications and days are used up.

Passing runs:

| Run | Instance | Shows |
|---|---|---|
| `will_concurrent` | 1 will, 2 goroutines, 2 notifications with delays -1, 0, 1, 1 failure; also reminders, confirmations and beneficiaries | what holds although every check is stale: `LockedIsExecuted`, `UnlockEarned`; the log never runs ahead of the tables (`AuditTruthful`); the inductive invariant of the proofs (`ServiceInv`); the refinement of `WillRecord` (`ImplementsRecord`) |
| `will_codicil` | 2 goroutines, 3 wills, no failure | links between wills: `SupersededBySuccessor`, `SupersessionAcyclic`, `CodicilAttached`, `CodicilRooted`; several wills and codicils too implement `WillRecord` (`ImplementsRecord`); the log is complete (`AuditComplete`, by the inductive `CompleteInv`) |
| `will_serial` | 1 goroutine, 2 wills, 1 failure, fairness; all endpoints but reminders, confirmations and beneficiaries, which neither move a will nor change its content | one request at a time the handlers implement `WillLifecycle` (`ImplementsLifecycle`), keep one will in force (`OneActiveWill`), never touch a locked will (`LockedIsFrozen`), and open every notified vault (`VaultOpens`); the inductive invariant behind the first three (`SerialInv`) |
| `audit_chain` | 2 recorders, 4 entries, clock of half microseconds, 1 failure | however requests overlap, every predecessor is stored and leads back to a start (`ChainJoined`); as long as none overlapped, the log is one chain in chronological order, although the column cuts the times down (`LinearChain`); the inductive `ChainInv` |
| `idempotency` | 2 keys, 2 goroutines, 2 failures of any kind, fairness | replays of a key agree and tell of a success (`ReplaysAgree`); a key is executed once, plus once per overlapping lookup and per failed statement (`RepetitionsExplained`); a client that retries is answered (`Answered`); the inductive `KeyInv` |
| `pagination` | 5 ids, limits -1, 0, 1, 2, 5 and none, default 2, cap 3, fairness | no row twice, none that stayed left out (`StableWalk`, by the inductive `WalkInv`); every walk ends (`WalkEnds`) |
| `session` | 1 browser, 2 tabs, 2 people, 2 sign-ins, `MaxAge` 1, 2 ticks, other clients | a request let through with a sign-in's token is of the person verified in that sign-in, less than `MaxAge` ago (`SignInHonoured`, `SessionInv`); after a logout's answer no tab sends the ended session again (`LogoutEnds`, by the inductive `LogoutInv`) |

Runs that show a disagreement between the code and what the repository says of
it; the quotations are under `findings` of PROJECT.json:

| Run | Property | What happens |
|---|---|---|
| `will_two_active` | `OneActiveWill` | two concurrent creations supersede nothing and leave two drafts |
| `will_edited_locked` | `LockedIsFrozen` | a clause or signature request that saw a draft writes into the locked will |
| `will_executor` | `OnlyExactExecutor` | a failed query of the executor rows reads as "no FLT stored": anybody verified is served |
| `will_one_witness` | `TwoWitnesses` | one person signs twice, `Lock` counts two rows and locks the will |
| `audit_precision` | `ChainVerifies` | nanoseconds are hashed, microseconds stored: an untouched log fails `VerifyChain` |

The pairs `will_serial`/`will_two_active` and `will_serial`/`will_edited_locked`
check the same property with and without a second goroutine: the logic of each
handler is right, and the interleaving is what breaks the promise. The pair
`will_concurrent`/`will_one_witness` separates what `Lock` does check (two rows,
none by the testator, which survives every interleaving) from what the
repository says it stands for (two people).

More of what a second goroutine does. These are not stated as properties: with
one goroutine each of them only repeats the check of its handler, and with two
it does not hold.

* The supersede `UPDATE` (`will_repo.go:99`) hits a will whose death was notified,
  or whose vault was opened, after `FindActiveByTestatorFLT` returned it, against
  "existing active (draft or locked) wills" (`services/will.go:55`). `WillRecord`
  allows this (`NewWill` replaces wills of any status), `WillLifecycle` does not.
* A late duplicate `Lock` (`services/will.go:147`) writes `locked` over
  `death_notified`; the notification was acknowledged with 204 and is lost.
  `VaultOpens` therefore holds for one request at a time only.
* The parent of a codicil is superseded or notified between the check and the
  insert (`services/will.go:226`), against "codicils attach to locked wills only"
  (line 213). `CodicilAttached` says what is left: the parent is an executed will
  of the same testator.
* Two schedulers both find the last reminder old enough and both send
  (`handlers/liveness.go:60`), against "already sent within the last 24 hours".
* A confirmation lands on a will that was superseded or opened after the check
  (`services/will.go:249`).

`LinearChain` speaks of logs without overlapping requests. Without its premise
`~overlap` the run `audit_chain` finds two recorders that read the same latest
entry and chain two entries to it (`services/audit.go:43`): the log forks, and
`ChainJoined` is what remains.

Other disagreements and surprises that the models contain and no run is about:

* The column `vault_unlock_delay_days` (`delayDays` of the row) is stored and
  never read; the cooling-off of a notification is the payload's. The request's
  field is called "cooling-off days; 0 = immediate" (`services/will.go:49`) and
  migration 002, Feature 5 (lines 27-29) speaks of "a configurable cooling-off
  period", which the testator's setting is not. `UnlockEarned` is about the
  payload's delay, which may be negative.
* `Idempotency` "enforces idempotency" (`idempotency.go:19`): two copies of a
  request that overlap are both executed. `RepetitionsExplained` counts these
  executions, it does not rule them out.
* The key that signs session tokens is a published value, as said above of
  `RealMeSession`.
* Opening the vault erases `locked_at`, because `UpdateStatus` writes both times.
* `ConfirmLiveness`, which "resets the liveness reminder clock"
  (`services/will.go:237`), writes a column no operation reads: the reminder's
  limit looks at `liveness_notified_at` only.

**Fairness** (`FairSpec`). A request that was started goes on (`WF` on
`Continue(p)`: the Go scheduler runs every goroutine and the statements return).
Days pass (`WF` on `Tick`). Executors ask again: `GetWill` answers "202
Accepted" with the time to retry, so a will whose cooling-off is over again and
again finds a request (`SF`, per will, because the single goroutine of the model
may be busy with another request each time it looks). No fairness is assumed of
the other requests, nor that failures stop other than by their bound.

In `Idempotency` a goroutine that was started goes on (`WF` on `Serve(p)`), and
a client that has not heard of a success sends again (`SF`, because a goroutine
is free only again and again); a key is for repeating a request until it
succeeds. Failures end by their bound. In `Pagination` a client that walks asks
for the next page (`WF` on `Fetch`); rows may appear ahead of it as long as ids
last.

**Mutants.** Each property of a passing run is refuted by a plausible slip in a
definition it depends on; the definitions named `X_Slip` in `WillRepo`,
`WillService`, `AuditLog`, `RealMeSession`, `Idempotency` and `Pagination` are
those slips and are used
nowhere else.

## 4. Proofs

Every safety property of the passing runs, invariant, action property or
refinement, is proved for all values of the constants. The assumptions are the
`ASSUME`s of the modules (types of the constants; `NULL` is no will, identity,
hash or number; page sizes and `MaxAge` are positive; finitely many goroutines
and ids) and, for the theorems of `WillSerialProofs`, the premise that one
goroutine serves the requests (`Procs = {p}`), whose negation TLC shows to break
the property (section 3). `CompleteInv` and `AuditComplete` speak of the time
until the first failure: the log of a service whose audit inserts fail is not
complete.

| Module | Theorem | Statement | Premise |
|---|---|---|---|
| `WillServiceProofs` | `Invariance` | `Spec => []ServiceInv` | |
| | `TypeCorrect` | `Spec => []TypeOK` | |
| | `LockedExecuted` | `Spec => []LockedIsExecuted` | |
| | `VaultEarned` | `Spec => []UnlockEarned` | |
| | `CodicilsAttached` | `Spec => []CodicilAttached` | |
| | `SuccessorsNamed` | `Spec => []SupersededBySuccessor` | |
| `WillAuditProofs` | `CodicilsRooted` | `Spec => []CodicilRooted` | |
| | `SuccessionEnds` | `Spec => []SupersessionAcyclic` | |
| | `LogTruthful` | `Spec => []AuditTruthful` | |
| | `CompleteInvariance` | `Spec => []CompleteInv` | |
| | `LogComplete` | `Spec => []AuditComplete` | |
| `WillRecordProofs` | `RecordImplemented` | `Spec => ImplementsRecord` | |
| `WillSerialProofs` | `OneWillInForce` | `Spec => []OneActiveWill` | one goroutine |
| | `LockedFrozen` | `Spec => LockedIsFrozen` | one goroutine |
| | `LifecycleImplemented` | `Spec => ImplementsLifecycle` | one goroutine |
| `RealMeSessionProofs` | `SessionInvariance` | `Spec => []SessionInv` | |
| | `GuardSound` | `Spec => []SignInHonoured` | |
| | `LogoutInvariance` | `Spec => []LogoutInv` | |
| | `LogoutFinal` | `Spec => LogoutEnds` | |
| `IdempotencyProofs` | `KeyInvariance` | `Spec => []KeyInv` | |
| | `ReplaysConsistent` | `Spec => []ReplaysAgree` | |
| | `RepetitionsBounded` | `Spec => []RepetitionsExplained` | |
| `PaginationProofs` | `WalkInvariance` | `Spec => []WalkInv` | |
| | `WalkStable` | `Spec => []StableWalk` | |
| | `WalkProgress` | `Spec => WalkAdvances` | |
| `AuditLogProofs` | `AuditTyped` | `Spec => []TypeOK` | |
| | `ChainRooted` | `Spec => []ChainJoined` | |
| | `ChainLinear` | `Spec => []LinearChain` | |
| | `ChainInvariance` | `Spec => []ChainInv` | |

**Any number of goroutines** (`WillServiceProofs`). `LockedIsExecuted` is not
inductive: `LockWrite` checks nothing. It holds because what `Lock` checked on
its stale read can only become "more true": signatures are overwritten but never
removed, witness rows only appended, the testator of a row never changes,
notifications are never taken back, time does not run backwards. So `ServiceInv`
adds to the properties, for every request (`RequestInv`), the part of its checks
that is still true when it comes to write: for `Lock` a signature and two rows,
not the status `draft`; for `NotifyDeath` and `CompleteUnlock` an executed will
and an earned instant; for `CreateDraft` that its id is free and in use by no
other request, and that the wills it found belong to its testator. What
`RequestInv` cannot say (the status is still what was read) is exactly what the
violation runs refute. Layout: type lemmas per helper and action; `NextGrows`
(what only grows); `Stable` (facts a growing table keeps); `NextTableInv`,
`NextCodicilAttached`, `NextSuperseded` for the tables; `OtherRequests` (a
request another goroutine does not touch), `ReceiveRequest`, `ContinueRequest`,
`EntryRequest` and `NextRequestInv` for the requests.

**What concurrency leaves of the lifecycle** (`WillRecordProofs`). The refinement
of `WillRecord` needs `ServiceInv` and nothing else: each conjunct of
`RequestInv` is the guard of an abstract step that the handler's unconditional
`UPDATE` relies on. `LockWrite` finds an executed will because `RequestInv`
says so, hence `Seal`; `CreateDraftTx` replaces wills of its testator that are
no codicils, because that is what was true of the rows it found and what no
statement changes (the fact that made `RequestInv` stronger than the invariants
of the tables alone need). `ColumnsUpdated` and `ColumnKept` relate a row update
to the abstract functions; one lemma per write follows, and `NextRecord`
collects them. What `WillRecord` leaves open, any status over any other, is the
difference to `WillLifecycle`, which `WillSerialProofs` closes for one goroutine.

**The log and the links** (`WillAuditProofs`). A step is one of four kinds:
a request is received, writes, passes on, or ticks off an entry (`ReceiveStep`,
`ContinueStep`, `FailStep`). A link (`parent`, `superseded_by`) is only ever set
to, or on, the will that the step creates, so a set of wills that had an exit
keeps one. `AuditTruthful` is inductive given `ServiceInv`: an event's meaning
never becomes false (`HappenedStable`; for a status this is the history `had`,
since a concurrent request may undo it), and each write makes true what it leaves
to be recorded (`WriteHappened`). For `AuditComplete` the strengthening
`CompleteInv` says that, until something fails, each transition is in the log or
pending in some request; `Changes` lists which handler may change which column.

**One goroutine** (`WillSerialProofs`). `ReadHolds` says that the check a
request made still holds at its write; together with the uniqueness of the will
in force this is `SerialInv`. It holds because nobody else moves in between, and
a failure only ends the request. From it `NextEffect` shows that every step, seen
will by will, is one of five effects (nothing; a new will that supersedes exactly
those in force; a codicil on a locked will; an edit of a draft; a status moved
onward), and the properties and the refinement follow from the effects alone.

**The session** (`RealMeSessionProofs`). `SignInHonoured` speaks of the request
that was let through; what carries it is that a token of the browser is only ever
copied. `SessionInv` says of every copy, in the jar, in a request or in an answer,
what the sign-in it comes from said and that it expires `MaxAge` after it. For
`LogoutEnds`, `LogoutInv` adds that the sign-ins in the jar, in each answer on
its way and among the ended ones are pairwise disjoint: a session is set by one
answer, a response posted again is a sign-in of its own, and a logout's answer
empties the jar. Nothing is assumed of tokens from elsewhere.

**The smaller modules.** `KeyInv` counts: while a key has no row, each execution
of it is held by a goroutine about to store it or was lost to a failed statement,
and all but one of the copies under way were let in by an overlapping lookup; from
then on nobody starts to execute unless a lookup fails. `WalkInv` says that
what a walk returned lies up to its cursor, and what stayed in the table and lies
up to the cursor was returned once; the lemmas show that the rows `List` keeps
are those up to the cursor it yields. `WalkAdvances` is the safety half of
`WalkEnds`: every page but the last passes a new id and goes back over none, and
nothing but a page moves the walk.

**The audit chain** (`AuditLogProofs`). Two invariants, joined in `ChainInv`.
`JoinInv`: what a request read as the latest entry stays in the log, since
nothing is deleted; a new entry is nobody's predecessor yet, because the
predecessor of a stored entry is stored and the primary key refuses an id that
is there already. So a
set of entries that had a first one keeps one (`EntryJoins`), however requests
interleave. `OrderInv`, while there was no overlap: the request under way is
alone, later than every stored entry by a microsecond even after the column has
cut the time down, and what it read as the latest entry still is the latest;
which goroutine serves it does not matter.

**Only model-checked.** Liveness (`VaultOpens`, `Answered`, `WalkEnds`) rests on
fairness and is out of the prover's reach; `WalkAdvances` is as far as a proof
goes towards `WalkEnds`.

## 5. Not modelled

`ValidateVault` and the HMAC check (they only reject requests). `SetVault`,
`UpdatePropertyClauseLINZ` (called by nothing). `BulkCheckLiveness` (a stub that
reads nothing). The LINZ address search, the MBIE, BDM and health clients,
logging, CORS, request ids (I/O without state). The start-up of the server and
of the RealMe provider (files, certificates, metadata). The Redis session store
and the JWT helpers of `nz-common/auth`: one command per call, and no caller in
this repository from which an order of calls could be modelled. Money: stateless
arithmetic that nothing calls. The mock identity provider (test tooling). The
web UI.

## 6. State and plan

Done: the core (`WillRepo`, `WillService`, `WillProperties`, `WillLifecycle`,
`WillRecord`) with every operation of the service, the audit chain, the RealMe
session, the idempotency middleware, pagination; a theorem for every safety
property that a passing run checks.

Left:

1. An abstract specification of a sign-in session (who is let through, until
   when) that `RealMeSession` refines; its content is what `SignInHonoured`
   and `LogoutEnds` state now.
2. The liveness properties for every value of the constants, once a prover for
   fairness is at hand: `VaultOpens` and `Answered` have no proved safety half
   of their own.
