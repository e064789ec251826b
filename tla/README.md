# Tockr Platform: TLA+ models, checks and proofs

Tockr Platform is the authority for users, Organisations, Workspaces, products
and who may use them. One Go process serves web pages, a JSON interface and
signed machine interfaces over one SQLite database; product applications (CTRL,
IMS) keep local copies that they build from the Platform's snapshots and events,
and accept the short-lived assertions it issues. A second program,
`platform-import`, loads records from older systems into the same database.

This directory models that system in TLA+. TLC checks the models on small
instances, TLAPS proves the properties that matter most for instances of any
size. `PROJECT.json` lists the runs, the theorems, which source lines each
definition stands for, the hazards the properties are aimed at, and for every
property a plausible bug (a mutant) that breaks it.

```
tlc -workers 2 -config MCWorkspaces.cfg MCWorkspaces          # one run
tlapm OrganisationsProofs.tla                                 # one set of proofs
```

## The system

Two facts about the code shape all the modules.

- The store opens SQLite with **one connection** (`store.go`, `SetMaxOpenConns(1)`),
  and every mutation is one transaction holding the authority check, the row
  changes, the audit row and the outbox events. So a mutation is one atomic action,
  and a mutation that fails is no step at all.
- What is **not** one transaction is where the hard behaviour is: a login is four
  of them, a web page up to a dozen queries, a page of a snapshot two, a signed
  request passes three stages of a handler, opening the file is one transaction per
  migration, an import commits record by record, and a consumer learns of everything
  through events that are late, repeated or reordered.

| Part | State | Operations | Talks to | Hard behaviour |
| --- | --- | --- | --- | --- |
| Users, Organisations, memberships (`users.go`, `organisation.go`) | `users`, `organisations`, `organisation_memberships` | create, rename, archive; add, change role, remove | outbox, in the same transaction | authority of several roles over the same rows; history instead of deletion; one event per change |
| Workspaces (`workspace.go`, `access_scope.go`) | `workspaces`, `workspace_memberships` | create, archive; add, change role, remove; scope proof | reads the Organisation tables | authority read from two levels that change independently |
| Products and access (`product.go`, `product_access.go`) | `products`, entitlements, assignments | retire, entitle, assign, revoke; access proof, launcher list | reads all tables above | one decision joined from seven tables, written several times |
| Pages (`platform_ui.go`, `admin_ui.go`, templates) | none | launcher, product page, hand-off, administration | store reads; forms call the mutations | pages decide what to offer with queries of their own |
| Membership command (`membership_command.go`) | stored results | execute, repeat, clean up | the membership mutations | idempotency, versions read long before, retention |
| Signed requests, actor proofs (`read_authority.go`, `assertion/`) | nonce table, in-memory replay map | reserve, issue, verify, restart | in front of commands and reads | replay, clock skew, handlers that overtake each other |
| Read authority (`platform_read_authority.go`, `events.go`) | snapshots with records and expiry, outbox | create, page, follow, clean up | reads the tables and the outbox | paging while facts change and snapshots disappear |
| Projection inbox (`projections.go`) | inbox rows, checkpoints | ingest, confirm, reconcile, outage, resume | fed from the outbox | late, repeated, reordered and missing events |
| Sign-in (`server.go`, `sessions.go`, `mfa.go`) | sessions, enrollments, recovery codes, last TOTP step | login, second factor, enroll, confirm, log out | users | separate transactions, several browsers |
| Production import (`platform_import.go`, `cmd/platform-import`) | runs, per-record ledger, canonical rows | apply, resume, roll back | the same database, another process | crashes between records, overlapping manifests |
| Fixture importer (`reconciliation/migration.go`) | checkpoint and records in memory | apply, roll back | tests | none: it is the rehearsal of the import |
| Login limiter (`limiter.go`) | in-memory table with failures, block and last use | ask, record, prune, evict | login handlers | handlers that record with a time they read long before |
| Read-authority rate limiter (`read_authority.go`) | in-memory counters | count | machine reads | only refuses |
| Outbox publication (`events.go`) | `published_at` | list pending, mark | no caller in the binaries | at-least-once, publishers that race and die |
| Opening the file, migrations, backup (`store.go`, `backup.go`) | migration ledger | open, migrate, back up | server, import command, demo seed, each a process | death between versions, two releases on one file |
| Start-up and configuration (`config.go`, `cmd/platform`) | none | read once | | |
| Reconciliation, manifest compiler, demo fixture | files | compare, compile, seed | | mostly pure |

What makes each part correct: an active Organisation has exactly one owner and
nobody outside of the rules changes that; every change of a table is told by its
events; a grant never crosses from one Organisation to another; all places that
decide about access decide alike, the products that only have events included; a
command, a proof, a second factor and an import record count once; a consumer that
says "current" is; a consumer that keeps working gets there; a page shows nothing
that was never true.

## Modules

| Module | Models | Extends |
| --- | --- | --- |
| `MembershipTable` | the two history-preserving membership tables as sequences of rows, and the records a consumer makes of their events | |
| `Organisations` | users, Organisations, Organisation memberships: all mutations | `MembershipTable` |
| `Workspaces` | Workspaces and their memberships, scope proof; composed with `Organisations` | `Organisations` |
| `ProductAccess` | products, entitlements, assignments, access decisions; composed with `Workspaces` | `Workspaces` |
| `Pages` | the reads, pages and snapshot records as operators on the state of `ProductAccess` | `ProductAccess` |
| `WebRequests` | requests read query by query while forms change the tables | `Pages` |
| `MembershipCommand` | machine commands with stored results, repeated by consumers; composed with the browser's mutations | `Workspaces`, `TextTime` |
| `SignedRequests` | handlers, nonce table, assertions, replay map, restarts | `TextTime` |
| `ReadAuthority` | snapshots, pages, change feed, a consumer that bootstraps and follows | `TextTime` |
| `Projection` | the inbox and its checkpoints | |
| `OrderedFeed` | what the inbox promises, without rows and row states | |
| `SignIn` | login, second factor, sessions, enrollment of one user | |
| `LoginLimiter` | the limiter between concurrent login handlers | |
| `ProductionImport` | apply, resume, rollback, compensation by processes that die | |
| `FixtureImporter` | the rehearsal of an import: what `ProductionImport` promises, without processes and failures | |
| `StoreFile` | opening and migrating the file by processes of several releases, backup | |
| `Publication` | listing, sending and marking outbox events by publishers that die | |
| `TextTime` | how times compare once they are formatted as text | |
| `*Proofs` | theorems about the module of that name; `ProductAccessProofs` also about `Pages` and `WebRequests`, `AuthenticationProofs` about `SignedRequests`, `SignIn` and `LoginLimiter`, `StoreOperationsProofs` about `ProductionImport`, `StoreFile` and `Publication` | the module, the proofs of the modules it builds on, `TLAPS` |
| `MC*` | constants and symmetries for TLC | the module |

`MCSignIn` and `MCProductionImport` instantiate several modules that share no state
(`SignIn` and `LoginLimiter`; `ProductionImport`, `StoreFile` and `Publication`). Their
specification lets one of them move while the others are still in their initial states.
A product of independent machines would have no further behaviour to show, and each
property only speaks of the variables of its own module.

### How state and actions correspond to the code

- **Tables.** A membership table is a sequence; the row number stands for both
  SQLite's id and the opaque public id. Rows are retired, never deleted, as in the
  code. Every mutation of the store is one action with the code's name; its guard
  is the conjunction of the code's checks in the code's order of authority, scope
  and target, and a refused call is a stuttering step. The JSON routes and the
  administration forms call the same mutations, so they are not actions of their
  own.
- **Outbox.** In `Organisations`, `Workspaces` and `ProductAccess` the outbox is
  represented by what it tells: `mirror`, `wsMirror` and `accessMirror` are the
  records of a consumer that has applied every committed event, and each action
  updates them from the payloads its transaction appends and nothing else. Order,
  loss and repetition are in `Projection`, cursors and retention in `ReadAuthority`.
  A role change retires a row and adds one but announces only the new one; the
  consumer must take the newest record of a user and scope (`Superseded`).
- **System administrators** are a constant: no code writes `system_role_assignments`.
- **Users** are created and (de)activated by actions although only the demo seed
  and the import create them and no binary calls `SetUserActive`; the store offers
  both.
- **Pages** change nothing and are operators, each with the authority check of its
  own query, taken at one moment. The configuration is two constants: the products with
  a `LaunchTarget` and the audiences the issuer knows. An audience is called by the one
  product that accepts it (`ProductForAudience` in `consumer.go` pairs them); the hand-off
  takes the audience of its product, `IssueProductAssertion` has the one its caller names.
- **Web requests.** `WebRequests!QueriesOf` lists the queries of the routes that make
  several, in the order the handler and the store ask them: one route for each sequence of
  queries, all four sections of an Organisation's administration included. Routes that
  make the same queries are not repeated (the JSON lists of audit rows, entitlements and
  assignments are `organisationMembers`, a Workspace's audit is `workspaceMembers`,
  `getOrganisationWorkspaceEntry` is `selector`), and a route with a single query
  (`getOrganisation`, the product catalogue, the access proof) reads one state and needs no
  such model. What the hand-off and the assertion route ask of the configuration are
  queries that read nothing. `Query` asks the next one of the state as it is
  then, and what the code remembers from one query to a later one (may this user
  administer?) is kept in the request. `Mutation` is a form of any user between any two
  queries. Reading changes nothing, so one request stands for all; `seen` remembers the
  rights its user had at every moment since it arrived.
- **Commands.** A consumer reads a version, builds a request and lets it arrive as
  often as it likes (`ExecuteMembershipCommand` with a clock reading that may be old
  by `Stall`). Lookup, mutation and result are one transaction and one action. The stored
  results are a set of rows with SQLite's ids (`NextId`); the cleanup takes rows out of it.
- **Signed requests.** A handler is `idle`, about to `reserve` its nonce or about to
  `verify` its proof, and carries the clock reading it took on arrival.
  `Restart` empties the replay map and kills the handlers; the nonce table stays.
- **Time as text.** `formatTime` writes RFC3339Nano, which drops trailing zeros, and
  SQLite compares the strings: within a second a whole second sorts last. `TextTime`
  gives the rank of a formatted time; comparisons that the code makes in SQL use it,
  comparisons made in Go do not.
- **Read authority.** A fact is named by the outbox id of the last event about it.
  `ReadMetadata` and `ListReadAuthoritySnapshotRecords` are the two queries of a page,
  and a cleanup may come between them. `Trim` is outbox retention, which the feed and
  the status answer are prepared for although nothing trims today.
- **Projection.** `Ingest`, `MarkApplied`, `Reconcile`, `MarkUnavailable` and `Resume`
  are the five transactions; `Project` is the consumer's own work between reading a
  pending row and confirming it. A crash there needs no action: the work is repeated
  or confirmed later.
- **Sign-in.** A login handler reads the credential, tries the TOTP code, then a
  recovery code, then makes the session, in four actions; it may die after each. A
  signed-in request proves its session in one action and acts in another.
- **Limiter.** A handler reads the clock on arrival, asks `RetryAfter`, hashes for as
  long as it takes and records its outcome with the time it read. Each call holds the
  mutex and is one action. The doubling loop of a block is the recursive function `Delay`.
  The history `guesses` lives and dies with the entry it is about.
- **Import.** An operator process is somewhere in the loop of an apply or a rollback,
  with the run it loaded at its start in its hands; each record is an action, so is
  the receipt. The server changes rows and adds references to them meanwhile. A manifest
  must be sorted by kind and name the parents of a record before it; the import refuses
  others. That the actor of a membership must be active (`platform_import.go:797`) is left
  out, which only lets the model create more.
- **File.** A migration stands for its version, name and checksum. `ReadLedger` is the
  query that decides what is missing, `ApplyMigration` one transaction with its ledger
  row, whose primary key refuses what another process has entered meanwhile.
- **Publication.** The publisher is external: it lists a batch, sends it event by event,
  the least id first, and marks it in one transaction that fails as a whole. The batch and
  what is left of it to send are sets of outbox ids.

## Runs

`CHECK_DEADLOCK FALSE` is used where behaviours end because a bound is reached
(rows, clock, requests, starts), which is the model's doing; `Projection` has no
bound and is checked for deadlock.

| Run | What it shows | Bounds and why they are enough |
| --- | --- | --- |
| `workspaces` | exactly one owner per active Organisation and no active member in any other (`OneOwner`); consumers of all events agree with the tables; owners do not change and archives are final (`OwnerAndArchiveAreFinal`); roles are granted only inside the owning Organisation; dormant memberships stay as they are; an archived Organisation freezes its Workspaces; the pages' buttons are what the store accepts, with three known exceptions (`OfferedIsAccepted`) | two Organisations that compete for two users and one Workspace, so that somebody leaves one and joins the other or returns; 2 Workspace rows so that a role changes; one name (renaming changes nothing else), no product |
| `product_access` | a product with only the events decides as the Platform does (`ConsumerDecidesAlike`); assignees were members; launcher, product page, hand-off and assertion agree, and an assertion goes to any configured audience but only for an offered product (`LauncherLeadsOn`); grant buttons; a snapshot says what the feed says (`SnapshotAndFeedAgree`) | two Organisations, a user and a system administrator, two products, both launch targets and audiences, so that an assertion for the other one is asked for; one Workspace, entitlement and assignment; 3 rows let a member leave and come back. `FewEnded`: a state with a retired product, or with both grants revoked, is checked and not followed |
| `projection` | applied events are a gapless prefix; "current" means complete; local work is in order; evidence is never lost; the inbox implements `OrderedFeed`; an orderly lane catches up (`CatchesUp`) | two aggregates of two positions, two events for one position, one unreadable, outages at any time; lanes of different consumers share nothing, so one consumer is enough |
| `membership_commands` | a key takes effect once per retention (`OncePerKey`); a command goes stale unless the member was removed and added again; a stored answer tells the row's version | one request in either scope, repeated at will, 3 rows, clock and retention of two ticks, half-second ticks so that text order is wrong sometimes |
| `signed_requests` | no message passes the nonce table twice (`AdmittedOnce`), no proof is accepted twice by a running process while it is valid | two commands with one proof and a read, two handlers, the clock runs past the life of a nonce |
| `read_authority` | a following consumer holds the facts of the moment its cursor names (`ViewIsTheStateAtItsCursor`), and in the end the present ones (`BecomesCurrent`) | three entities of two kinds, pages of one record, two snapshots, expiry after two ticks, one event trimmed |
| `sign_in` | one second factor per session, the current code is usable after enrollment, the newest enrollment wins; bursts of guesses past the limiter's blocks stay bounded (`BurstsAreBounded`) | two logins, one browser request at a time, two enrollments, three TOTP steps; for the limiter two handlers, two keys that compete for one entry, a clock that runs past two blocks and the life of an entry |
| `production_import` | an apply resumes after the last committed record; an import goes the way of its rehearsal (`ImplementsRehearsal`), a rolled back one has left nothing; only its own rows are removed; the foreign keys stop a rollback only because of rows that others made. A process that has the file open finds all its migrations (`OpenedIsMigrated`), and some release always gets it open. Events are sent in order and marked in the end | two overlapping manifests and two that are refused, one operator that may die at every step, six operations; three processes of an older, a newer and a forked release and three deaths; two publishers, three events, batches of one and two, two deaths |
| `web_requests` | an answer is never a mixture: what a request shows its user had a right to at some moment while it was read, and what it refuses he lacked at some such moment, with four known exceptions (`AnswersHeldDuringRequest`) | an Organisation with an owner and a second member whose request, of any route with several queries, is followed; two starts: he is an admin, or a member who was one and has created the Workspace; one Workspace and one product; 4 rows, so that his role can change once more while he reads, which all four exceptions need. `FewEnded`: a state in which two of product, entitlement and assignment have ended is checked and not followed |
| `admin_appointment` | violated: see below | |
| `stale_command` | violated: see below | |
| `replayed_proof` | violated: see below | |

Symmetry is used over Organisations, over products and over users, keys or requests that
nothing tells apart, in runs without liveness properties only. The two runs with a state
constraint check invariants only, which TLC evaluates on the states at the edge as well. Every
step that is possible after a retirement is possible before it, so a state with one retired
product is met whichever way it came about, except where the administrator who retired it
was switched off later. With one row in either grant table, a revoked
grant cannot be given again: beyond the edge nobody can use a product, and only the tables of
the `workspaces` run still change. The theorems have no such bound.

### Fairness

Liveness is claimed of consumers, who are not in this repository, so the fairness is
an assumption about them and is stated as such. `Projection!FairSpec`: every event is
delivered sooner or later, the consumer projects and confirms what is pending and
reconciles its lanes, and an operator resumes lanes; nothing forces an outage, and
`CatchesUp` is claimed of a lane whose outages end. `ReadAuthority!RAFairSpec`: the
consumer keeps asking. `StoreFile!SFFairness`: whoever operates the processes starts again
what is down, and a process goes on opening; deaths are not forced. `Publication!PbFairness`:
a publisher goes on listing, sending and marking. All of it is weak fairness on the steps of
one actor. The Platform's own process needs none: no loop in it has to make progress by
itself.

### Disagreements found

1. `admin_appointment`: an Organisation admin may not add an admin
   (`organisation.go:245`, and the test calls it an unauthorised promotion) but may add
   a member and promote him (`organisation.go:324` looks at the old role only).
2. `stale_command`: versions restart at 1 when a member is added again, so a command
   built before the removal passes the version check afterwards.
3. `replayed_proof`: a handler that read the clock before a proof expired verifies it
   after another handler has pruned the proof's entry from the replay map; the proof is
   accepted twice, the second time after its life by the wall clock.
   `ProofUsedOnceWhileValid` is what does hold.

### Observations without a run

- A role change announces only the new membership id (`organisation.go:340`), so the
  old one stays active in a follower's records while a snapshot lists it as ended
  (`platform-read-authority-v1.md:120` keeps explicit history). The properties compare
  roles, which agree.
- Marking a never-seen aggregate unavailable and resuming it makes it current at
  position 0 (`projections.go:349`); `platform-projection-v1.md:33` says a state is never
  guessed as current. A test accepts it.
- The command cleanup compares times as text and may delete a result up to a second
  before its 24 hours are over (`membership_command.go:81`;
  `platform-membership-command-v1.md:41`). `OncePerKey` allows for that second.
- Two operator processes on one manifest: the receipt of one overwrites the progress of
  the other (`platform_import.go:404`). The run has one operator; with two,
  `ResumesAfterLastCommitted` fails.
- A page that reads while others act (`AnswersHeldDuringRequest`): the list of Workspaces
  may show one that was created after its reader lost the administrator's role, because the
  role is read before the rows, and for the same reason it (and the launcher) may leave out one
  to a reader who has just become administrator and was then removed from it; the page of a Workspace is refused to an administrator who
  becomes an ordinary member while it reads, because the first query lets him on and a later
  one insists on the role; and the general section of an Organisation, open to all
  members, is refused in the same way to an administrator who is demoted between the
  context (`admin_ui.go:72`) and the audit listing that only administrators are shown
  (`admin_ui.go:103`). When a Workspace is archived between the two queries of
  `GetWorkspace`, the page answers with an internal error and not with "not found"
  (`platform_ui.go:302` does not unwrap the store's error).
- The login limiter takes the time of arrival for the time of the failure: a handler that
  hashed long moves `blockedUntil` and `lastSeen` back (`limiter.go:86`), so that a block ends
  early or its entry is pruned. `BurstsAreBounded` says how much that can give away.
- The route that issues assertions takes the audience from its caller (`server.go:1107`)
  and `Issue` asks of it only that it is configured (`assertion.go:233`): access to one product
  gives an assertion that another configured product accepts, unlike the hand-off, whose
  audience is its product's. The assertion does not name a product, and the contract leaves
  the pairing to the consumer (`platform-assertion-compatibility.md:15`). `LauncherLeadsOn`
  states what does hold: without access to some product there is no assertion at all.
- A rollback of a paused run that dies leaves the run paused. An apply after it goes on
  from the checkpoint and ends as completed, and the rows that were already taken back stay
  missing (`platform_import.go:186`). `ImplementsRehearsal` reads the ledger of a run that is
  not rolled back and does not see it; the ledger marks such rows `rolled_back`.
- Three properties say less than the hazard they stand next to. `SecondFactorPerSession` is
  about sessions made with a factor, not about a login that read the credential before the
  second factor was switched on (`server.go:287`); `AdmittedOnce` is about messages, so a new
  message with a proof used before a restart, when the replay map was lost, is admitted
  (`assertion.go:168`); `RollbackIsNotBlocked` is about the rows of the manifest itself, not
  about rows the server has added below them (`platform_import.go:864`). All three are what
  the code does and what the models do.
- The rehearsal of an import lets a manifest be applied after a rollback of nothing; the
  production import, once its run exists, does not (`platform_import.go:207`).
- The pages offer three things that the store refuses: an Organisation admin's buttons
  on admins (himself included), a Workspace admin's buttons on members who have left the
  Organisation, and the archive button for a Workspace admin without authority in the
  Organisation. The entitlement of a retired product lacks its revoke button. These are
  the exceptions written into `OfferedIsAccepted` and `GrantButtonsAreAccepted`.

## Proofs

All of them hold for any number of users, Organisations, Workspaces, rows, events,
messages, handlers, processes and manifests, and any values of the bounds. 34 of the 36
safety properties and refinements that the passing runs check are proved, each of its
run's specification or of one that the run's specification refines:

```
AccessSpec  =>  WsSpec  =>  OrgSpec          CmdSpec  =>  WsSpec
```

are theorems themselves (`ProductAccessRefinesWorkspaces`, `WorkspacesRefineOrganisations`,
`CommandsRefineWorkspaces`), so `OneOwnerAlways`, for instance, holds of the store with
products and of the store with commands.

- `OrganisationsProofs`, tables: lemmas on tables and their mirrors. Retiring rows and
  announcing it, inserting and announcing it, and a role change (retire and insert,
  announced as one insertion) keep `Agree`; `RoleInFacts` and `ConsumerReadsRole` say what
  the Platform's query and the consumer's reading of a role return.
- `OrganisationsProofs`, Organisations: `OrgTypeCorrect`, `OneOwnerAlways`, `MirrorAgreesAlways`,
  `OwnerAndArchiveAreFinalAlways`. The
  inductive invariant is `OrgInv`: the types, an absent Organisation has no name yet
  (`AbsentIsUnnamed`), `OneOwner` and `MirrorAgrees`. The conjuncts need each other: a role
  change announces one row and retires another, so the mirror keeps agreeing only because
  the retired row was the user's only active one, and an owner added with a new
  Organisation is its only one because `OneOwner` also denies active rows to absent ones.
  One lemma per mutation, each with one step per conjunct it can disturb. The action property
  `OwnerAndArchiveAreFinal` follows step by step from `OneOwner`, which says that an archived
  Organisation has no active row left to change (`StepLeavesOwners`). The only assumption is
  that system administrators are users.
- `WorkspacesProofs`: `WsMirrorAgreesAlways`, `GrantsStayInOrganisationAlways`,
  `DormantMembershipsStayAlways`, `ArchivedOrganisationFreezesWorkspacesAlways`. `WsInv`
  adds to `OrgInv` the types, the two properties and that a Workspace that does not exist
  has no rows (`AbsentIsBare`), without which creating one could put old rows under another
  Organisation. That a grant stays justified rests on `MembershipsPersist`: no step removes
  a row of `organisation_memberships` or gives it another scope or user.
- `ProductAccessProofs`: `ConsumerDecidesAlikeAlways`, `AssigneesWereMembersAlways`,
  `LauncherLeadsOnAlways`, `SnapshotAndFeedAgreeAlways`. `AccessInv` adds to `WsInv` that
  products and grants agree with what was announced of them (`AccessMirrorAgrees`) and that
  nothing names a product or Workspace that does not exist (`AbsentIsNowhere`). Memberships
  agree by role and not by row, because a role change retires a row silently; the six
  queries of the pages agree because at most one row of a user and scope is current.
  `Audience` and `LaunchTarget` are any sets.
- `ProductAccessProofs`, buttons: `ButtonsMeetConditionsAlways` and `RemovedAsOffered`. The
  conditions of each mutation are written out (`AcceptsArchive`, `AcceptsRemoval`, ...);
  `MutationsHaveConditions` says that every step of a mutation meets them. The first theorem
  says that a button is there exactly where they hold, with the exceptions of
  `OfferedIsAccepted` and `GrantButtonsAreAccepted`; the second that whatever a step ends, its
  actor was offered. What is left to TLC is that the conditions suffice for a step.
- `ProductAccessProofs`, requests: `AnswersHeldDuringRequestAlways` and
  `StoreHoldsDuringRequests`, for any number of mutations between two queries. `WebInv` adds
  to `AccessInv` what the request under way has learnt (`InProgress`): for each route and
  each of its queries, which rights its user is known to have had at some moment since it
  arrived, or in which exception he is (`Learnt`, from `Present`, `Slept`, `GovernLearnt`,
  `GeneralLearnt`, `ListLearnt`, `LaunchLearnt` and `WorkspaceLearnt`). A mutation keeps it because `seen` only grows and the
  rights after the mutation are added to it; a query that passes adds what it has found, and
  the last one leaves the property. That a query refuses only somebody who lacks the right at
  that moment, and that all queries passing at one moment give the right, are lemmas about
  `Pages` under `AccessInv`. An earlier form of the property had two exceptions and held of a
  smaller instance; the proof showed the third (a reader who becomes administrator and loses
  the Workspace while the list is made), and the instance has grown so that it occurs.
- `ProjectionProofs`: `AppliedInOrderAlways`, `CurrentIsCompleteAlways`,
  `LocalWorkInOrderAlways`, `EvidenceIsKeptAlways` and the refinement `ImplementsFeedAlways`.
  The strengthening says what the row states mean relative to the checkpoint: a pending row
  is at most one position ahead (`PendingIsNear`), a stale or applied one never
  (`PassedIsBehind`), an event has one row per consumer, and what a lane holds back shows in
  its state (`OpenShows`).
- `MembershipCommandProofs`: `OncePerKeyAlways`, `ResultsTellTheRowAlways`,
  `StaleOnlyAfterReAddAlways`. `CmdInv` ties three histories together: the tables, in which
  rows stay and versions grow from row to row of one user and scope except where they start
  at 1 again (`LanesGrow`); the requests, which saw a row that is still there (`SeenIsKept`);
  and the results, which are remembered until their time (`Remembered`, `RepeatedLate`).
- `AuthenticationProofs`, machines: `AdmittedOnceAlways`. A nonce is deleted when its expiry is
  past, as text; a copy of its message must no longer be fresh to any handler then, one
  that read the clock long ago included. `SigInv` says it with two strengthenings: what a
  handler carries was fresh when it read the clock (`HandlersAreFresh`), and a nonce that
  was admitted has a row or its message can never be fresh again
  (`NonceOutlivesFreshness`). `TextOrderErrsByASecond` bounds what the text comparison
  does. The assumption is `NonceLife > 2 Skew + Stall + 1 second`: 24 h against 10 min, a
  second and what the server's timeouts allow. `ProofUsedOnceWhileValidAlways` follows from
  `UsedIsRemembered`: a proof used by this process and not yet expired by the clock is in
  the replay map, whatever reading it is pruned with.
- `AuthenticationProofs`, people: `SecondFactorPerSessionAlways`, `EnrolledIsNewestAlways`,
  `CurrentCodeUsableAlways`. A factor is accepted in one transaction and the session made in
  another one, so `SIInv` follows it: what a handler or a session has was accepted and nobody
  else has it (`LoginsCarry`, `SessionsCarry`, `HeldOnce`), and what was accepted is spent
  (`AcceptedIsSpent`). Completing an enrollment starts the last step and the recovery codes
  again and would free spent ones; it does not, because nothing was accepted while the second
  factor was off, and it is switched on once: only the newest enrollment can be open
  (`NewestIsOpen`), and none is once the factor is on.
- `AuthenticationProofs`, limiter: `BurstsAreBoundedAlways`, for any threshold, blocks, table
  size and number of handlers. Consider a stretch as long as the first block. A handler that
  arrived before it is a straggler; the others, `t` of them, are the only ones that can spend
  a guess in it. `LLInv` keeps the account (`Budget`): twice the guesses spent in the stretch
  and the ones still in flight is at most `t (t + 1)`. A guess beyond the threshold blocks for
  the rest of the stretch those who arrive in it, so guesses in flight only get fewer; a
  straggler that records its old time may lift the block, and is no straggler from then on,
  which pays for one more round. It rests on `GuessedBeyond` (who has guesses has an entry
  beyond the threshold) and `InThePast` (nothing is recorded later than now).
  `DelayAtLeastBase`, about the recursive function, is proved by a least counterexample
  (`WellFoundedInduction`). Assumed are positive constants and finitely many handlers; a
  `MaxBackoff` below `BaseBackoff` is allowed, as in the code, where the loop then never turns.
- `ReadAuthorityProofs`: `ViewIsTheStateAtItsCursorAlways`. `RAInv` has one part per stage of
  the bootstrap: a snapshot whose number of records is right tells every fact of its kinds at
  its cursor (`Tells`); what is staged is right, and a record not staged is still to come, by
  a filter left to ask for, after the page cursor (`Staging`, `ToCome`); the installed view is
  that of the cursor (`Following`). That the ordinals of a snapshot enumerate its facts is the
  pigeonhole principle on their ranks (`RanksAreTaken`); that a page leaves nothing out before
  its last record is `PageFacts`; that an answer of the feed leads from the facts at one
  cursor to those at the next is `FeedFacts`. The horizon only decides whether the feed
  answers, which is why retention cannot falsify a view.
- `StoreOperationsProofs`, opening the file: `OpenedIsMigratedAlways`. `SFInv` says of a
  process that is migrating that what comes before its next migration is in the ledger,
  also when others append to it.
- `StoreOperationsProofs`, publication: `PublishedInOrderAlways`. `PbInv`: whatever precedes
  an event that a publisher has left to send is sent or left to send as well, which holds
  because a batch is the *oldest* of what is pending and only sent events are marked.
- `StoreOperationsProofs`, import: `OnlyOwnRowsAreRemovedAlways` for any number of operators
  at the same time. `ImInv` says that a record created and not taken back is there under its
  manifest's name and the other way round (`DueIsThere`, `ThereIsDue`), that foreign keys
  hold, and that no row references one its manifest creates later (`ChildrenComeLater`).
  `ResumesAfterLastCommittedAlways`, `RollbackIsNotBlockedAlways` and the refinement
  `ImplementsRehearsalAlways` assume `OneOperator` (at most one process works on the
  manifests at a time), and need it: see the observations. `AloneInv` adds that the process
  has the run as it is stored and that the status tells how far the ledger is; the
  refinement then sees every step as a record more (`WentOn`), a finished rollback
  (`GaveBack`) or nothing (`Unmoved`). The existence of the last item of a rollback is
  well-founded induction on its order.

TLC checked every inductive invariant before it was proved, `ImInv` with two operators.

Only model-checked:

- all liveness (`CatchesUp`, `BecomesCurrent`, `SomeReleaseOpens`, `EventuallyPublished`),
  which the prover does not do under fairness;
- `OfferedIsAccepted` and `GrantButtonsAreAccepted`, which compare what a page offers with
  what the store would accept, that is with `ENABLED`. `ButtonsMeetConditionsAlways` proves
  them with the conditions of the mutations in place of `ENABLED`.

`WsTypeOK`, `TypeOK` of `Projection` and `RATypeOK` state the types of their modules; no run
lists them, because the other invariants of those runs fail first when a type is wrong.

## Not modelled

Cryptography (signatures, hashes, encryption of secrets, CSRF tokens) is assumed sound:
what verifies was made by its owner. Validation of names, mails, payloads and of the
contract types (`readauthority/contract.go`, `events/event.go`, `domain/`), formats, error
texts and audit rows are stateless or decide nothing that the properties see. The
read-authority rate limiter only refuses. Configuration is read once. The reconciliation
report and the manifest compiler are pure functions of files; the demo seed calls the
modelled mutations in a fixed order. Generated templates (`*_templ.go`) repeat the `.templ`
files, whose conditions are in `Pages`. Delivery scripts are not part of the running system.
`PROJECT.json` lists all of them with the reason for each.

Two operator processes on one manifest are left out of the run on purpose (see the
observations), and so is the effect of a rollback on consumers: it appends no events, which
the repository's acceptance record says.

## Plan

Done, in this order: membership tables and Organisations with proofs; Workspaces; product
access; projection inbox with its abstract specification; membership commands; signed
requests with a proof; read authority; sign-in; production import; pages; web requests of
several queries; the login limiter; opening and migrating the file; outbox publication; the
rehearsal as the import's abstract specification.

Next would be, in the model: import, outbox and a follower in one composition; the listing
of the projection inbox with its limit of 1000 rows as the consumer's only view.

Proofs done: everything in the section above, which is every safety property of the runs but
the two that speak of `ENABLED`.
