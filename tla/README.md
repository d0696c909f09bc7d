# A TLA+ model of tempcdn

tempcdn takes anonymous uploads, stores the bytes in an R2 bucket and the
metadata in Postgres, serves the files through a CDN, and removes each one when
its time to live is over. Any number of instances share one database and one
bucket; they do not talk to each other. Nearly everything that can go wrong is
therefore an interleaving of single remote calls: a row in Postgres, an object
in R2 and a copy at the edge are changed by three separate calls, each of which
may fail, may answer late, or may be the last thing an instance does.

This directory models that part of the program call by call, and with it the
other things the instances share through the database: the upload settings, the
admins' sessions and API keys, the schema and the rows that a start leaves, and
the table of node heartbeats. TLC checks all of them on small instances, and
TLAPS proves their main properties for every size. Paths below are relative to
`src/internal/` unless they say otherwise.

## The system

| part | state | operations | who else touches it |
|---|---|---|---|
| files table, `metadata/postgres_repository_files.go` | rows of `files`, row locks of open transactions | Insert, FindActiveByChecksum, FindByID, FindExpired, DeleteByID, Stats | upload, file service, every sweeper, statistics |
| upload service, `upload/service.go` | one request: checksum, clock value, object key, token | Upload | files table, bucket, upload settings |
| file service, `file/service.go` | one request: the row it read | GetInfo, DeleteBeforeTTL | files table, bucket, CDN |
| sweeper, `sweeper/sweeper.go` | batch of records, URLs to purge | one sweep per tick of each instance | files table, bucket, CDN |
| bucket, `storage/r2_client.go` | objects by key | PutObject, DeleteObject | |
| CDN, `cloudflare/purger.go` | cached copies by URL | PurgeURLs; downloads and evictions from outside | |
| upload settings, `upload/validator.go`, `upload/settings_synchronizer.go`, `metadata/postgres_repository_uploadsettings.go` | one row; one atomic rule set per instance | PUT and its callback, 10 s poll, loads by uploads and GET /config | upload service, admin handler |
| concurrency limiter, `ratelimit/limiter.go` | slots taken | TryAcquire, Release | upload handler |
| admin, `admin/` | admins, sessions, API keys | Login, VerifySession, Logout, CreateAPIKey, RevokeAPIKey, VerifyAPIKey, session janitor | router middleware |
| node status, `nodestatus/` | rows of `node_status` | Heartbeat, MarkStaleOffline, list | every instance |
| startup, `../cmd/server/main.go`, `admin/bootstrap.go`, `metadata/postgres_repository.go` | schema, first admin, seeded rows | Migrate, Bootstrap, seeding, wiring, shutdown | every instance |
| statistics, `stats/handler.go` | process counters | GET /stats | files table |
| legal documents, `legal/`, HTTP layer, configuration, identifiers | nothing that is changed in more than one step | | |

What makes each part right, and what makes that hard:

* **Upload, deletion, expiry.** An acknowledged file stays complete until its
  TTL is over or its owner deletes it; an expired one goes, object first; no
  object is left without a row; a purged URL is not served again. Hard because
  several instances sweep, clients delete, uploads compensate and answer
  duplicates, all on the same rows and with no lock across two calls, and any
  call may fail with or without effect.
* **Upload settings.** Every instance comes to enforce what the row says. Hard
  because the poll and the PUT callback both write the validator with values
  they read earlier.
* **Admin.** A session or key that was withdrawn is not usable, one that was
  issued is, until its time is over. Hard because verification reads, decides
  and then touches, in three statements with logouts, revocations and a janitor
  of every instance in between, and each statement may fail with its effect.
* **Node status.** A node whose beats arrive in time stays online, one that
  stopped goes offline, one that was flagged wrongly comes back. Hard because
  every instance marks the rows of all, its own included, and a beat may land
  long after it read its clock.
* **Startup.** However instances start together, die half-way and start again,
  the migrations run once each and in order, who is up finds schema, admin and
  documents, and no start undoes an admin's edit. Hard because a crash can come
  between any two statements and because the lock belongs to a session, not to
  a process.

`PROJECT.json` lists, under `hazards`, the lines where each of these bites and
the properties that cover it.

## The modules

| module | models |
|---|---|
| `Stores` | clock, `files` with row locks, bucket, edge cache; the repository's queries and the R2 and Cloudflare calls as operators; the environment's steps |
| `UploadService` | `upload.Service.Upload`, one action per remote call |
| `FileService` | `file.Service.DeleteBeforeTTL`, one action per remote call |
| `Sweeper` | `sweeper.Sweeper`, one action per remote call; the FindExpired transaction as two |
| `FileLifecycle` | the composition of the four over any number of instances, fairness, the properties |
| `TempStore` | the abstract specification: what a client of an acknowledged file may observe |
| `UploadSettings` | the settings row, the validator and synchronizer of every instance, PUT handlers, starts and crashes |
| `AdminAuth` | `admin.Service` and the handlers and middleware that call it: login, session and key verification statement by statement, logout, key creation and revocation, the session janitor |
| `Credentials` | the abstract specification: what a holder of a token or key may observe |
| `Startup` | `main` up to the listening server: migrations under the advisory lock, `admin.Bootstrap`, the seeds of the legal documents, and their update by an admin |
| `NodeStatus` | `nodestatus.Reporter` and `nodestatus.Janitor` over the table `node_status` |
| `Fleet` | the composition of the two: instances that start, serve, watch each other and end; fairness, the properties |
| `MCFileLifecycle`, `MCUploadSettings`, `MCFleet` | symmetry and constant functions for TLC; the `.cfg` files give the instances |
| `FileLifecycleProofs` | theorems and proofs: types, the inductive invariant, the refinement of `TempStore` |
| `DeletionProofs` | theorems and proofs about how files go: order of deletions, orphans, duplicates, edge copies, locks |
| `UploadSettingsProofs`, `AdminAuthProofs`, `FleetProofs` | theorems and proofs of the other specifications |

**One name per upload.** Every upload draws a fresh UUID (`idgen`), and row id,
object key, CDN URL and delete token all follow from it. An element of `Uploads`
stands for the request and for all of these. The record `up[u]` is what the
request holds on its stack: where it is (`pc`), its content, the clock value of
line 94 (`at`), the record it answers with, and whether its context is still
alive (`connected`). Creation order is the order of expiry, since one process
configuration has one TTL; a mixed fleet is not modelled.

**Calls.** A remote call is atomic. It either succeeds, or it fails and the
caller cannot tell whether it had effect: the `...Err` operators leave both
outcomes open. `Faults` says which kinds of call may fail. A cancelled context
makes calls of the request fail: one that was under way may have had effect,
the compensating one that starts afterwards is not sent.

**Locks.** `SELECT ... FOR UPDATE SKIP LOCKED` is `SelectExpired`, which adds the
batch to `locked` and takes only rows that are not; `CommitSelect` releases
them. `DeleteByID` waits while a row is locked. Rows locked by a DELETE itself
need no state, the statement being one step. When FindExpired fails, in the query
or in the Commit, its Rollback may fail too, and an instance that dies rolls
nothing back: `locked` then keeps rows of a transaction without a client
(`Abandoned`) until PostgreSQL notices and ends it (`EndTransactions`), as it does
with the session of the migration lock (`EndSession`). Until then other sweeps
pass these rows over and deletions of them wait.

**Ends of instances.** A sweeper whose instance ends is "down" and begins again
with a sweep, as `Sweeper.Run` does before its first tick; the compose files
restart an instance that ends (`../docker-compose.multi.yml:15`, `unless-stopped`).

**Edge.** A CDN URL is `absent`, `cached` or `purged`. Downloads fill the cache
while the object exists (a hit with no object behind it changes nothing) and
`purged` is remembered, so that a refill after a purge can be seen. The fill is
atomic: a response that Cloudflare fetched before the object was deleted and
stores after the purge is outside the model.

**Refusals** (400, 403, 404, 410, 503) change no shared state. `Receive` has one
for validation because it uses the request up; the others are stutters.

**Settings.** A value of `Settings` is what passed `validateUploadSettings`: a
limit and, taken together, the two lists. `node[i]` is an instance: its stage of
`main`, the rules in its validator and, while a poll is between its read and its
write, the settings it read. An instance that starts reads the row (`Load`) and
makes a validator of what it read only after the legal documents and the storage
client (`GoUp`); a PUT in between is not in its rules until its first poll. The validator's rules are one atomic pointer, so
they change as a whole. `syncOnce` compares and writes in two instructions;
one action is exact, because a skipped write equals a write of the same rules
at the time of the comparison, and the write may come arbitrarily late after
the read anyway. That `DeepEqual` tells a nil list from an empty one causes
needless writes of equal rules and is left out. `row.by` names the writer, a PUT
or the seeding instance, and tells two writes of equal settings apart as
`updated_at` does.

**Admin requests.** A login draws 32 random bytes, so a member of `Tokens` names
a token and the login that draws it, and a key the request that creates it.
`login[t]` is that login, with the time it computed the expiry from, which may be
long before its INSERT; `req[r]` is a request behind `requireAdmin` or
`metricsAuth`: the credential it came with, the expiry it read and how far it has
come. Every SQL statement is a step. A statement that fails may have had its
effect, and the handler goes on as the code does, which for the deletion of an
expired session means as if it had worked. Refusals change nothing and make the
request idle. `until` is a copy and not a look at the table, so everything may
happen to the row before the touch. Two history variables serve the properties:
`req[r].late` says that the credential was over when the row was read, `fate`
that its withdrawal was sent or answered. Passwords, and the admin row itself,
which the program never deletes, are left out.

**Starts.** `pc[i]` is how far `main` has come. A statement that fails makes
`main` return, so failure and crash are the same step, `Exit`, and a statement
whose answer is lost is `Exit` after it. The exception is the unlock, whose error
is ignored: the pooled connection may keep the lock, until the pool closes it or
the process ends. `lock` names the process whose session has the lock; a process
can be gone, and even be starting again, while PostgreSQL still holds it
(`EndSession`). The migration and its row in `schema_migrations` are one
transaction and one step. `applied`, `admins` and `docs` are the tables.

**Heartbeats.** Times in `node_status` matter only through comparisons with a
limit, so rows and beats carry ages, capped at `Stale`, instead of a clock that
TLC would have to bound: the behaviours of `Fleet` are infinite. A beat reads the
clock when it begins and lands any time later, overtaken by janitors. `punctual`
is history: since the last failure, beats began at most `Interval` apart and none
was under way for longer than `Slack`, a constant: how slow a heartbeat of a node
that one would call healthy may be. Node ids are configured or drawn, and a drawn
one is new. That no two instances are given the same `NODE_ID` is an assumption of
the model; `Config.validate` cannot know.

**Mutants.** A definition that follows the words "Mutant of" is not part of the
model. It is the code with a plausible mistake, and shows that the properties
would notice.

## What the runs check

The runs of the file part use `MCFileLifecycle`. TTL is one tick and the clock
goes to 2: a file can be uploaded at 0 or 1, be
active, be exactly at its expiry (where IsExpired and the SQL disagree) and be
past it, and a sweep may hold a clock value that is one or two ticks old.
Batches hold two rows, so a batch can be full, partial or empty.

| run | instance | checks |
|---|---|---|
| `lifecycle_faults` | 2 uploads of one content, 2 deletions at a time, 2 sweepers, all faults; no purging, which these properties do not see | `AcknowledgedFileServed`, `IInv`, `SelectedRowsStay`, `NoAcknowledgedOrphan`, `DuplicateServedUnlessGivenUp`, `ImplementsTempStore` |
| `lifecycle_races` | 3 uploads, 1 deletion, 2 sweepers, no faults | `EdgeCopyTracked` |
| `lifecycle_db` | 2 uploads, 1 deletion, 2 sweepers, database and purge failures | `NoOrphanObject`, `ObjectsGoFirst`, `PurgeSticks` |
| `lifecycle_live` | 2 uploads with two possible expiry times, one of them stuck, 2 sweepers, database and storage failures, crashes | `ExpiredFileRemoved`, `RowOutlivesObject` |
| `settings` | 2 instances, 2 PUTs, 4 settings, failing statements and crashes | `EnforcedWasCommitted`, `IInv`, `OnlyPutsChangeSettings`, `AgreementLasts`, `Converges` |
| `admin_auth` | 2 logins, 1 API key, 2 requests at a time, sessions of one tick, clock to 2, failing statements and crashes | `IInv`, `WithdrawnStaysDead`, `CredentialsKept`, `SessionsRemoved`, `ImplementsCredentials` |
| `fleet` | 2 instances, one with a configured node id; 2 migrations, 1 bootstrap name, beats every tick that may take one more, stale after three | `IInv`, `NobodyClashes`, `ReadyWhenUp`, `PunctualStaysOnline`, `EditsKept`, `StartsEnd`, `NodesSettle` |

One content suffices because contents meet only in the duplicate lookup, which
compares for equality; two uploads are the least for a lookup to find a row, and
the third in `lifecycle_races` lets a duplicate be chosen while another row of
the content is swept. Two sweepers are the least for overlapping sweeps. The
settings need two instances, so that one changes what the other enforces, and
two PUTs, so that callbacks can overtake each other; settings differ in the
limit, in the lists, or in both. For the admin API two logins let one session
withdraw a key, or log out, while the other's requests are half-way, and two
requests let a verification be overtaken; requests are served again and again,
so their number bounds only how many are under way at once. One tick of TTL with
a clock of 2 has the same three cases as above, and a janitor may come with any
earlier time. In `fleet` two migrations are the least for an order and for a
crash between them, and two instances the least for a lock to be waited for, for
a start to be overtaken, and for one to flag the other. One bootstrap name makes
the inserts of two starting instances collide. Interval 1, delay 1 and limit 3 are
the tightest with a delay for which `PunctualStaysOnline` says something.
The drawn id can be drawn once: an instance that ends and
would need a third id stops before it joins, and so a row without an owner stays,
for the janitor of the other.

The deadlock check is off in the runs of the other parts: their clocks are
bounded and uploads, deletions, PUTs and logins are used up, so their behaviours
may come to rest. `Fleet` has no such bound and never stops.

Five runs expect a violation and each belongs to a finding in `PROJECT.json`:

| run | what the repository says | what the code does |
|---|---|---|
| `orphan` | every upload is removed by the sweeper; no lifecycle rule is needed | a cancelled or failed upload can leave an object with no row |
| `stale_duplicate` | an upload of known content is answered with the existing record | when an Insert commits and reports an error, that record has lost its object to the compensation |
| `double_claim` | two sweeps never claim the same row | the locks end before the deletions begin; harmless |
| `second_object` | identical content is not stored twice | lookup and insert are two calls |
| `settings_immediate` | a PUT takes effect at once where it was handled | a poll that read the row before it takes it back for one interval |

What is left of these promises holds in a passing run: `NoOrphanObject` as long as
neither clients nor the bucket fail (`lifecycle_db`), and under every failure
(`lifecycle_faults`) the following. `NoAcknowledgedOrphan`: only uploads that were
not acknowledged, and early deletions, lose objects. `SelectedRowsStay`: until the
transaction of a batch commits, its rows are as they were read and in no other
open batch. `DuplicateServedUnlessGivenUp`: a duplicate answer names a complete
file unless the upload of that file failed while its client was there, for only
then is a compensation sent.

**Fairness.** `FairSpec` of `FileLifecycle` asks for weak fairness of each
sweeper's loop, which is a goroutine with a ticker in an instance that is
restarted when it ends, and of PostgreSQL ending transactions that have no client.
It asks for strong fairness of a successful answer to each kind of call, per file
where the call is about a file, by whichever instance makes it. Files in `Stuck`
are exempt: R2 may refuse the deletion of their objects for ever, and the
property speaks of the others, which must not suffer for it. They would suffer
if there were as many stuck files as a batch holds, 100 in the program: these come
first in every batch (see below). Crashes come to an end: as long as
instances crash for ever, a scheduler may crash each one right after it locked
its batch, and nothing is ever removed. Nothing is assumed of uploads,
clients, the CDN or the clock.

For the settings, a running instance's poll is
answered infinitely often (strong fairness: the ticker tries for ever, and
Postgres does not fail for ever), and what was read or committed is carried on
(weak fairness: straight-line code). Instances may still crash and restart for
ever: a restart loads the row.

For sessions, weak fairness of `SessionJanitor(now)` says that some instance runs
a janitor, which is a goroutine with a ticker, and that one of its deletions gets
through with a recent clock. For the fleet: time passes; the statements of a
start are straight-line code (weak fairness); PostgreSQL queues those who wait
for an advisory lock, so who waits again and again while it is free gets it
(strong fairness: it may be taken by others in between), and it ends the sessions
of processes that are gone, as the pool does with old connections (weak
fairness). A reporter begins its beats (weak fairness: a ticker), and of the
beats it sends infinitely often one arrives, just as one of the janitors'
statements does as long as instances are up again and again (strong fairness: a
failure costs one tick, not the loop). Nothing is assumed about who starts, ends
or edits.

## What is proved

`FileLifecycleProofs` proves, for every finite or infinite set of uploads,
contents, deletions and sweepers, every TTL and batch size above zero and every
set of faults (assumptions `StoresAssumption` and `SweeperAssumption`):

* `TypeCorrect`: `Spec => []TypeOK`.
* `InductiveInvariant`: `Spec => []IInv`.
* `AcknowledgedFilesAreServed`: `Spec => []AcknowledgedFileServed`.
* `Refinement`: `Spec => ImplementsTempStore`.

`AcknowledgedFileServed` is not inductive: from an arbitrary state a sweeper
could hold a record of a young file. `IInv` adds why it cannot. A row is only
ever what its own upload inserted, with the expiry that upload computed
(`RowsOfTriedUploads`); all clock values in use are past
(`ClockReadsArePast`); hence whatever a sweeper holds, however stale, has
expired for good (`SweepersTakeDoomed`), since no operation extends an expiry.
Deletions under way were authorised with a token that only an acknowledged
upload shows (`DeletersAreAuthorised`), and compensation touches only an object
whose row was never acknowledged. The proofs have one lemma per actor for types,
for the invariant and for the refinement, with a step per action.

The refinement maps an upload to `Publish` when its row is inserted, an accepted
deletion to `Withdraw`, and the first of the calls that takes row or object away
to `Remove`. It needs `IInv` to know that this happens only to files that have
expired or were withdrawn.

`DeletionProofs` builds on `IInv` and answers how files go. Where a property does
not hold under every failure, the theorem has a hypothesis on `Faults`, or on
`Deleters`. It excludes no kind of failure in vain: for each single one TLC finds
a counterexample.

| theorem | property | holds when |
|---|---|---|
| `AcknowledgedFilesAreNotOrphaned` | `NoAcknowledgedOrphan` | always |
| `SelectedRowsAreHeld` | `SelectedRowsStay` | always |
| `DuplicatesAreServed` | `DuplicateServedUnlessGivenUp` | always |
| `SweepersDeleteObjectsFirst` | `SweepersDeleteFirst` | always |
| `ObjectsAreDeletedFirst` | `ObjectsGoFirst` | `DeletesSucceed`: the bucket does not fail, or nobody deletes early |
| `RowsOutliveObjects` | `RowOutlivesObject` | `DeletesSucceed` |
| `PurgesAreFinal` | `PurgeSticks` | `DeletesSucceed` |
| `NoObjectIsOrphaned` | `NoOrphanObject` | only the database and the purges fail |
| `EdgeCopiesAreTracked` | `EdgeCopyTracked` | nothing fails |

The key is that deletion is final: an object that is deleted after its upload got
to the insert is never stored again (`Gone`, lemma `GoneStays`), because every
upload has a key of its own and stores it once. A sweeper then holds, and a
deletion carries beyond its first call, only files that are gone: that is
`ObjectsGoFirst`, which is inductive together with `IInv`. A row can only go by
the hand of one who holds its file (`RowDeletedBy`), a URL can only be purged by
one who has it on its list (`PurgedBy`), and with these two the next four
properties are a step away.

`DuplicatesAreServed` shows something that is easy to get wrong by reading. A
client that disconnects during the insert may leave a row of an upload that was
never acknowledged, and others are answered with it. That is safe, because the
same cancellation keeps the compensation from being sent, so that the object stays
too (`RowsHaveObjects`) and nobody has a token for it; the disconnect that orphans
objects cannot break a duplicate. An insert that fails by itself but had effect
does break it: its compensation is sent, and the row then belongs to an upload
that was given up (`GivenUp`). That is the run `stale_duplicate`.

`EdgeCopiesAreTracked` needs that no sweep collects URLs before it has its batch
(`PurgeListFresh`), that nothing is compensated (`NoUndo`), and that copies exist
only where purging is on (`EdgeUsed`); a copy is then handed from the bucket to
whoever deletes the object, and from there to the purge, without a gap.

`SelectedRowsAreHeld` needs three facts that hold together: the claims of open
transactions are locked (`ClaimsAreLocked`), rows that are locked exist
(`LockedRowsExist`), and a batch is a copy of its rows (`BatchesAreCopies`). Locks
are not claims: crashes and failed commits end a claim and may leave its locks.
What makes it work is that `FindExpired` skips what is locked, by whom ever, that
`DeleteByID` waits for it, and that PostgreSQL ends only transactions without a
client.

`UploadSettingsProofs` proves, for every set of instances, requests and settings
(assumption `SettingsAssumption`), that only committed settings are enforced
(`OnlyCommittedEnforced`), from the inductive invariant that also says where
pending callbacks and rules may exist (`SettingsInvariant`: a crash takes the
handlers of its instance with it, so no callback reaches a validator that is
gone), that seeding never overwrites the row (`SeedsNeverOverwrite`), and that
instances that agree with the row stay with it until it changes
(`AgreementsLast`): the part of `Converges` that needs no fairness. Agreement
includes what instances on their way up have read: that those which serve agree
is not enough, because one that read the row before the last PUT may still come up
with what it read.

`AdminAuthProofs` proves, for every set of tokens, keys and requests, every TTL
above zero and every set of faults (assumption `AuthAssumption`):

* `AuthInvariant`: `Spec => []IInv`.
* `WithdrawalsAreFinal` and `NobodyLosesCredentials`: `WithdrawnStaysDead` and
  `CredentialsKept` always hold.
* `Refinement`: `Spec => ImplementsCredentials`.

Neither property is inductive. That a touch does not bring a session back is
clear, but that `DropExpired` takes only sessions that have expired needs to know
that what the request read is still what the login wrote (`RequestHolds`,
`RowOfLogin`: an expiry is that of the login, and is never moved), and that a
session is only logged out by itself needs to know that an accepted request
belongs to a finished login. `KeysExist` keeps updates of keys on rows that
exist. The refinement maps `Login` to `Issue`, the clock and the janitors to
`Expire`, the read of a verification to `Look`, a successful touch to `Accept`,
logout, key creation and revocation to `Administer`, and everything that is
refused, fails, dies or changes nothing to `Leave` or a stutter: a verification
acts as if its read were the only look it takes.

`FleetProofs` proves, for every set of instances, number of migrations and node
ids, for every interval and limit that `Config.validate` accepts and every delay
below the limit (assumptions `StartupAssumption` and `NodeAssumption`):

* `FleetInvariant`: `Spec => []IInv`.
* `ServersAreReady`, `StartsDoNotClash`, `PunctualNodesStayOnline`:
  `ReadyWhenUp`, `NobodyClashes` and `PunctualStaysOnline` always hold.
* `EditsSurviveStarts`: `Spec => EditsKept`.

The invariant says who may migrate: whoever is between lock and unlock has the
lock, and the files before the one it looks at are applied (`MigratesAlone`);
hence no insert into `schema_migrations` finds its row there. What a start has
behind it stays done (`DoneSoFar`), because no operation takes anything back.
A punctual node's row is no older than one interval and one delay, so below the
limit if the limit leaves room for both (`PunctualRow`, `RoomForSlack`), and it is
its own row, since no two instances have one id
(`OwnIDs`, from the assumption that configured ids differ and the draw of the
others).

Model-checked only are the liveness properties `ExpiredFileRemoved`, `Converges`,
`SessionsRemoved`, `StartsEnd` and `NodesSettle`: they rest on fairness and on
what is ENABLED, which TLAPS does not handle. That `FindExpired` and
`FindActiveByChecksum` have an answer in every state with finitely many rows
would need an induction over the rows, which is out of its reach too; the runs
evaluate them in every state. Every safety and action property of the passing
runs is a theorem.

## Where documentation and code differ

Besides the runs above, these sentences were found not to hold, or not without a
condition. They have no run of their own; the model follows the code.

* `../README.md:55-58`: every file is deleted after its TTL by the sweeper, without
  a lifecycle rule. `DeleteBeforeTTL` ignores the error of `DeleteObject` and
  deletes the row (`file/service.go:74`): the object of such an early deletion
  stays, since sweepers find objects through rows. And as many files that R2
  refuses to delete as a batch holds (100) are taken again at every tick, oldest
  first, and keep the sweepers from all younger ones (`ExpiredFileRemoved` fails
  with `BatchSize` 1 and one file in `Stuck`).
* `config/config.go:175`: the stale limit "must be greater than" the heartbeat
  interval, "or a healthy node with one slow heartbeat would be flagged offline".
  Greater is not enough: with the interval plus one, which `validate` accepts, a
  heartbeat that takes a second to land finds a row as old as the limit. What
  suffices is a limit above interval plus delay (`RoomForSlack`), and
  `PunctualStaysOnline` promises no more.
* `../README.md:634-637`: "A node never marks itself offline". The janitor's UPDATE
  does not spare the row of its own instance
  (`metadata/postgres_repository_nodestatus.go:33`).
* `../README.md:199-201`: the first admin is created "only if no admin account
  exists yet". Count and insert are two statements (`admin/bootstrap.go:22`): two
  starts with different names may both insert.

* `../README.md:228` lets sessions expire 24 hours after login "(or after last
  use - see below)". A use moves `last_used_at` only, and nothing extends
  `expires_at` (`metadata/postgres_repository_admin.go:121`). `RowOfLogin` depends
  on it.
* `../README.md:267-268`: "logging out an already-invalid or unknown token still
  returns `200 OK`". The route is behind `requireAdmin`, which answers 401.

## Not modelled

Parts of the system:

* **Concurrency limiter.** A counting semaphore that one handler takes in its
  first statement and gives back by a `defer` in the next. There is no path
  between the two and no second user, so every property of a model would restate
  the semaphore.
* **Statistics.** Reads. `Stats` uses two statements that may see different
  tables, which the code accepts; the process counters are atomic and only grow.
* **Configuration, logger, identifiers.** Read once, or without state. What
  `validate` demands of intervals is in the assumptions; identifiers and tokens
  are taken to be unique, being random.
* **HTTP layer.** Apart from the middleware that asks for credentials: encoding,
  CORS, access logs and panic recovery keep nothing beyond a request.

Within the parts that are modelled:

* Several clocks and instances configured with different TTLs. The code compares
  times of one instance with the clock of another and has no provision for skew.
* Calls that take effect after their caller has seen the error. The one place
  where time matters most, the janitors, has it: their statements may come with
  an old time.
* A CDN fill that straddles deletion and purge (see Edge above).
* A heartbeat of a process that lands after its successor with the same
  configured id has begun its own.
* The loads of the rules by an upload: each of its four checks uses rules in
  force at that moment, and nothing promises that they are the same ones.
* Passwords and listings in the admin API, which change nothing.
* Bytes, MIME sniffing, spooling, HTTP encoding and logs.

## Plan

Every safety property that a run checks is proved. What remains is to state and
prove more:

* for the fleet an abstract specification of a deployment (schema version, admin,
  documents, who serves) that `Fleet` implements, of which `ReadyWhenUp` and
  `EditsKept` are consequences;
* for the settings one of a register whose readers lag behind;
* for `node_status`, that a row which says "offline" has been past the limit since
  its node's last beat, however late the janitors' statements come.
