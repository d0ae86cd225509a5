# dariise: verification project

dariise is a feature-flag service: an HTTP API over PostgreSQL that stores flags,
their configuration per environment, their targeting and their history; an engine
that decides what a flag serves to a subject; a Node client that polls the API and
evaluates locally; and a dashboard. This directory holds TLA+ models of the parts
whose correctness depends on the order of events, TLC configurations that check them
on small instances, and proofs, checked by TLAPS, about the API, its tables, its
engine and the dashboard for instances of any size.

To repeat a check: `tlc -config <run>.cfg <module>.tla` with the pairs of the table
of runs, and `tlapm` on the modules whose names end in `_proofs`.

## 1. The system

### Inventory

Paths are below `src/`; `M/` is `apps/api/src/modules/`, `C/` is
`apps/web/components/`.

| component | state it keeps | operations | what is hard about it | what makes it correct |
| --- | --- | --- | --- | --- |
| change requests (`M/change-requests`) | `flag_change_request`: pair, author, payload, status, decider | create (supersedes the pending request of its pair), approve (claim, re-check, publish), reject | the checks run before the transaction; claims race with claims and with creates; an approval writes through another module; a unique index and row locks decide who wins | one pending request per pair; decisions are final and never the author's; a change is published whole exactly when it is approved |
| connection pool (`apps/api/src/db/client.ts`) | connections | borrow, return, time out | an approval borrows a second connection while it holds one and a row | every call is answered |
| flag publishing (`M/flags`) | configuration row, rules and their conditions, individual targets, version history | update configuration, replace rules, replace targets, alone or as one approved change | READ COMMITTED: a DELETE does not see what commits while it waits; the version number is read before it is inserted, and the INSERT waits for whoever has inserted it; rows, index entries and numbers are waited for in several orders | the history is gapless and ends with what is in force; rule sets are in force whole; one target per user; every publish is answered, since the database breaks the circles that their locks form |
| flags, variations, configurations (`M/flags`) | flags, variations, one configuration per flag and environment | create a flag, add, save and remove a variation, copy an environment's configuration, lists | what is listed before a transaction is written in it; references to variations live in three tables | every pair is configured; every reference names a variation that exists |
| environments (`M/environments`) | key, `is_default`, `archived_at`, `is_protected` | create, archive, unarchive, protect, list | counts and lists read in a transaction that locks nothing | a project keeps an active environment and one default badge; archiving withdraws keys |
| API keys (`M/api-keys`) | hash, scope, `revoked_at` | issue, revoke, rotate, list | rotation checks, then writes; the archive of an environment revokes its keys | a rotated or revoked secret is dead |
| SDK configuration, evaluation endpoint (`M/sdk`, `M/evaluation`) | none of their own | read one consistent-looking configuration with five or six statements | publishes commit between the statements | no reading is wider than what was published, unless the rules were replaced between the read of the rules and that of their conditions: then rules are served without them, which match everybody (section 6) |
| engine (`packages/engine`) | none | `evaluate(flag, context)`, bucketing | orders of precedence, gates at their bounds, operators on missing values | raising a rollout takes nothing away; thresholds partition the population |
| Node client (`packages/sdk-node`) | snapshot, ETag, timer, closed | initialize, refresh, close | overlapping requests that fail, time out and answer late; timers that outlive `close` | the client converges to the API's configuration, polls for ever, and falls silent once closed |
| segments (`M/segments`) | named condition lists | create, update, archive, list | an update replaces conditions as a publish replaces rules | a segment's conditions are those of one update |
| projects (`M/projects`) | project, owner, starter environments | create, rename | a free key is sought, and may be taken by another before it is inserted: the call is then refused | a project is never there in part; a create replaces nothing |
| access, members (`M/project-access`, `M/project-members`) | roles | add, set, remove, require | roles change under running calls | nobody's role is replaced by an add |
| workspace, account (`M/workspace`, `M/account`) | name, metadata, preferences | update | several statements, no transaction; metadata are read, merged and written back | neither is safe: a refused call may have changed the name, an update may drop another's (section 6) |
| audit log (`M/audit-log`) | rows written with what they record | list | pages by time of creation | no row is skipped or repeated; the cursor is coarser than the times (section 6) |
| sessions, accounts (`M/auth`, `apps/web/proxy.ts`, `lib/auth.ts`) | those of Better Auth | sign up, confirm, sign in, reset, sign out | the proxy, two layouts and the router's cache each have their own idea of the session; a sign-in whose form was left goes on all the same | a visit settles; no page loaded before a sign-in of this tab outlives it |
| dashboard screens (`C/app`) | drafts in the browser | edit, send, confirm | lost, late and aborted answers, other users, other tabs, navigation | what it says is saved is stored; no draft strays; nothing stays locked |
| creation forms (`C/app/*/create-*-form.tsx`) | what is typed | step, review, create | implicit submission, loads that are aborted, double submission | what is created was reviewed, and no form that was told of a success creates a second one; an answer that is lost tells it nothing |
| contracts, e-mail, HTTP wiring, read-only views | none of interest | | | |

### How the parts interact

An HTTP call goes controller, service, repository. The service reads and checks
first, mostly outside any transaction; then one transaction writes, and every
statement in it sees what is committed when it starts. The calls therefore share
nothing but committed rows, row locks, unique indexes and pool connections, and that
is the state of the models: a call is a process with a program counter and what it
has read; its uncommitted writes belong to it. Audit rows are written in the
transaction of what they record.

`ChangeRequestsService.approve` claims its request and calls
`FlagsService.publishApprovedChange` in the same transaction; environments call
`FlagsService.initializeEnvironmentConfigs` and the key revocation in theirs. The
SDK endpoint reads the tables the publishes write, the client polls the endpoint,
and the engine runs in both places. The dashboard loads a page through the proxy and
the layouts, on the server, scoped by cookies that all tabs share; its screens then
call the API from the browser and keep a draft of their own.

### Hazards

`PROJECT.json` lists them with their lines: races of calls over rows that were read
before the transaction (creates, archives, protections, rotations, variations,
suffixes), statements that miss what commits while they wait, circles of locks, index
entries and connections, torn reads, pages read while rows move, answers out of order, timers
after close, drafts that outlive what they were loaded from, secrets that arrive
when nobody looks, redirects in a circle, numeric bounds of gates and rollouts, and
calls in a legal order that leave dangling references.

## 2. The modules

| module | models | state against code | actions against code |
| --- | --- | --- | --- |
| `ApprovalGate` | abstract: what the approval flow promises | one slot per pair for an open proposal, outcomes, and what took effect | propose, approve, reject, publish directly: each atomic |
| `ChangeRequests` | create, approve and reject against direct publishes, protection and role changes | `status`, `decidedBy` and the immutable columns `job` are `flag_change_request`; `versions` is `flag_versions` with its audit rows; `isProtected`, `role` | one action per statement that can be overtaken: scan and supersede, insert (or collide on the partial index), claim (or lose it), apply, commit (or collide on the version index), roll back |
| `PooledApprovals` | the same calls on a pool of `PoolMax` connections | `connections[c]` | connect when one is free, carry on only with those a step needs, give all back at the end, time out |
| `Publishing` | the transactions that write one configuration | committed `config`, `rules`, `targets`, `versions`; `seen` is what a DELETE found and has yet to visit, `deleted` the rows it has locked, `written` and `entries` its index entries for users and version numbers, `number` the one it has read | UPDATE, the scan of a DELETE and each row it deletes, the INSERT of each target, `nextVersion`, the INSERT of the version, each waiting for the rows and keys of others; commit, unique violation, the deadlock detector (`InCircle`: whoever is reached from itself by `Waits`), roll back |
| `EnvironmentLifecycle` | environments and their keys | `active`, `archived`, `defaults`; `keys` with scope, secret, revoked | the check and the write of each operation, the listing and the key revocation of archive |
| `FlagConfigs` | flags, environments, variations and the references to them | `references` are the variation keys in configurations, rules and targets | the listing and the writing of each creation, the copy table by table, the reference check table by table, publishes |
| `SnapshotRead` | the statements of the four readers of a configuration | `history` is what each commit left; `seen` what a reader found, or `Gone` | publish, segment update, one read |
| `Paging` | eight list endpoints, read to their end | `rows`, `gone` (hidden by the filter), `cursor`, `collected` | a row comes, leaves, returns; a page is read or fails |
| `Administration` | members, projects, segments, workspace settings, preferences | `role`, `projects` by suffix, `segment`, `settings`, `preferences`; a call's step, lookups and uncommitted writes | ask and authorize, look up, each suffix tried, each statement with its lock or its refusal by a unique index, commit, answer, crash |
| `SdkClient` | the Node client | `snapshot`, `etag`, `timer`, `closed` are its fields; `flow` is one chain of refreshes with its request in flight | initialize, timer, answer, bad answer, failure, receipt, close, and publishes |
| `Evaluation` | the engine over a sequence of publishes | flag, configuration, rules, targets, segments and the subject | the publishes that change a decision; `Evaluate` is the pure function |
| `Screens` | 25 screens of the dashboard as records of what they edit, send, lock and do with an answer | | |
| `Dashboard` | one of those screens in a tab | `store` is the API's, `props`, `draft`, `baseline`, `locked`, `confirmed` the screen's, `secret` what became of secrets (the last to arrive, the one held, whether it was seen), `requests` what was sent | open, close, leave the page with the opener of a dialog, edit, submit or click, serve, answer, lose, refresh; other users write, other tabs select |
| `FlagTabs` | the configuration, targeting and variations tabs of one flag, in detail | `stored` is the API's, `tabProps`, `tabDraft`, `lines`, `busy` the page's, `inFlight` its requests, `unheard` that the flag was written and the tab will not be told, `proposal` the pending change | each control, each submission with its parts, serving, answers, aborts, losses; another user publishes or approves |
| `Creation` | the forms that create an environment, a flag, a segment | `input` is what is typed, `step`, `reviewed`, the load of the source's flags; `made` the rows created, `missed` those whose answer was lost | each control, back, continue, go to a step, create, its answer, create another |
| `Onboarding` | the way in and out | accounts, workspaces, codes and sessions; `page`, `going`, `cache` are the router's; `sent` are the requests on their way, whose form is on the page, was left for another page, or is gone by a reload; `epoch` counts the sign-ins of this tab that went on | each form, links and Back, reload, the proxy, both layouts, the scope of a page, each answer, heard or lost, also of a form that was left; other tabs |
| `MC*` | sets, symmetry and compositions for the runs | | |
| `Approvals_proofs`, `Publishing_proofs`, `Reads_proofs`, `EnvironmentLifecycle_proofs`, `FlagConfigs_proofs`, `Administration_proofs`, `Evaluation_proofs`, `Web_proofs` | theorems and their proofs (section 4); `Approvals_proofs` is about the handlers, the gate and the pool, `Reads_proofs` about reads and lists, `Web_proofs` about the dashboard | | |

`ChangeRequests` and `ApprovalGate` are composed by the refinement `Gate` at the end
of `ChangeRequests`; `PooledApprovals` EXTENDS `ChangeRequests` and is proved to
refine it. `Publishing` opens the publish step of `ChangeRequests`, which there
writes all the parts of a change in one commit, into statements: the version rows
are common to both, the contents of rules and targets are only in `Publishing`.
`SdkClient` takes from `SnapshotRead` that a configuration which changes while it is
read may come out as any mixture. `FlagTabs` opens three of the screens of
`Dashboard` and takes the API's transactions as atomic, as `Dashboard` does. `MCReads`
and `MCWeb` put independent modules into one run: a behaviour is one of one of them,
and the variables of the others rest.

A definition whose name ends in `_Mutant` is the next one with a plausible bug: it
documents what the property beside it in `PROJECT.json` detects and no action uses it.

What is abstracted throughout: payloads are the set of parts they carry or the number
of their writer, names are model values, times and texts are left out unless a
property is about them. A call runs once, so the number of calls bounds a run.
Crashes, lost connections and timeouts of a call are `Rollback` or `Crash`: the
process may stop at any statement and PostgreSQL undoes the transaction; what
committed before stays, which matters only in `Administration`, where the workspace
is written without one.

## 3. The runs

| run | module | asks | instance | states |
| --- | --- | --- | --- | --- |
| `Approvals` | `MCChangeRequests` | does the approval flow keep its promises, and those of `ApprovalGate`? | 4 calls of every kind, 2 people, viewer or admin and back, 1 pair, changes of two parts | 612 456 |
| `PooledApprovals` | `MCPooledApprovals` | is every call answered, and do decisions stay final and by four eyes while members are demoted and promoted under the calls? | 3 calls of every kind but direct publishes; 2 people, viewer or admin and back; 2 connections | 131 464 |
| `Publishes` | `MCPublishing` | do racing publishes leave a configuration and a history that agree, and is each of them answered? | 3 transactions of one or two parts, overlapping rule sets, one user's target | 165 220 |
| `EnvironmentRaces` | `MCEnvironmentLifecycle` | do racing calls lose the badge, a revocation or a key? | 4 calls of every kind, 3 environments, 3 keys | 323 553 |
| `ConfigRaces` | `MCFlagConfigs` | are pairs configured and old references kept? | 3 calls of every kind, 2 flags (one with keys of its own), 3 environments | 845 567 |
| `Engine` | `MCEvaluation` | how may a publish change a decision, and do thresholds partition the population? | 2 rules, a condition, a segment; gates 0, 1, 100 and none; rollouts 0, 10, 50; buckets 0 and 10 | 456 624 |
| `Reads` | `MCReads` | what may a read combine, is a list read whole, and does the client poll, converge and fall silent? | each kind of reader, 4 commits; lists of up to 4 rows, pages of 2; 2 overlapping chains of refreshes, 3 configurations | 233 220 |
| `Administration` | `MCAdministration` | are projects whole, conditions of one update, and do creates take only what is free? | 2 calls of one area, 2 users, 2 suffixes, crashes | 1 837 392 |
| `Web` | `MCWeb` | does the dashboard say, send and show what it should, and settle? | each of 25 screens with 2 requests and one event elsewhere; 2 users, of whom one fills in the forms, with one request on its way, one sign-in of this tab that goes on and one change by another; each form, a flag's created up to twice; each tab with an edit and two events | 1 459 752 |
| `LateProtection` | `MCChangeRequests` | a statement the code does not meet (section 6) | 2 calls of every kind | |
| `DefaultKeys` | `MCFlagConfigs` | another (section 6) | 2 calls | |
| `AuditPages` | `Paging` | another (section 6) | 3 rows, pages of 1, two microseconds to the millisecond | |

Why the bounds suffice. Every hazard of the API is a race of two calls, or of two
with a third that creates what they race over or that blocks one of them; `Approvals`
and `EnvironmentRaces` have a fourth for chains (propose, supersede, approve and
publish; archive, archive, unarchive and create). A second pair adds nothing to
`Approvals` because no statement of these handlers touches rows of two pairs; the
proofs cover any number of them. Roles and protection change under the calls in
`Approvals` as in `PooledApprovals`. Two connections are the fewest with which an approval
can be carried out, and three calls can hold them all; direct publishes are left out
there, because they need one connection at a time and none of the rows of requests, and
are raced in `Approvals` and `Publishes`. A circle of locks needs two publishes; a
third may take what both wait for. A reader runs at most five
statements, so four commits can fall between any of its stages. A list of four rows
has a page boundary with rows on both sides that may move. Two chains are the least
that overlap in the client, and three configurations let an old answer differ both
from the kept one and from the current one. The engine compares a bucket with a bound: the gates 0,
1 and 100 with the buckets 0 and 10 have a bucket at a bound (0 at 0, 10 at a rollout of
10), below it and above it, and both the gate that admits nobody and the one that admits
everybody. A screen of the dashboard sends one thing at a time, or two side by side: two
requests are a submission and the one that overtakes it. In the way in one request on its
way is enough for a form that is left and goes on behind its user's back; two such at
once, and sign-ins after sign-ins, are covered by the proof. Symmetry under exchange of calls is used in
runs without liveness only.

Deadlock checking is off where the calls of an instance run out, or a user may stop;
the models state "nobody waits for ever" as `EveryCallEnds`, `EveryPublishEnds`,
`EveryScreenSettles` and `EveryVisitSettles` instead. It is on in
`Engine`.

### Properties worth a remark

* `ImplementsGate` (`Approvals`): seen through the committed tables, every commit is
  one atomic step of the gate and everything before a commit is invisible. A create
  that superseded the pending request and then fails on the index leaves it pending.
* `EveryCallEnds` (`PooledApprovals`): calls wait for rows and for connections, and
  an approval for both; the connection timeout breaks the circle in which all
  connections are held by approvals. Without `TimeOut` TLC shows the circle.
* `RowsInForce` (`Publishes`): although a DELETE may miss rows, what the latest
  history entry published is all there, no rule set is there in part, and a user has
  one target. That earlier rules may be there *as well* is `ReplacesWholeSet`.
* `EmptiedOnlyByCircle`, `CoveredUnlessCrossed`, `OldReferencesResolve`: the
  promises the documents make fail under some interleavings; these say that they
  fail in those only. A project loses its last active environment when two archives
  each leave it to the other's, but also to a circle of more: three archives with
  creations in between, no two of which counted on each other. The attempt to prove the
  simpler statement, that two of them did, showed that; the property now says that
  every archive counted on an environment another one archived, and is proved.
* `LeakedSecretIsDead`: whoever rotates a key may rely on the secret they wanted out
  of use being out of use, however rotations cross.
* `WiderOnlyByReplacedRules`: readers may tear a publish, but each table is read before
  what narrows it, so a flag switched on together with its new rules is never seen on
  with the old ones. It depends on the order of the statements and on that alone. One
  pair escapes it, and the property says so: conditions are sought by the ids of the
  rules, and those of rules replaced meanwhile are gone. That every read is narrow enough
  is `NeverWiderThanPublished`, which TLC refutes.
* `EveryPublishEnds`: locks of publishes do form circles, and not only of rows in one
  DELETE. An approval that has numbered its configuration waits for the rules another
  publish has deleted, which waits for that number. What is claimed is that the detector
  of the database, the unique indexes and the ends of others answer every one of them.
* `Converges`: a 304 refers to the version sent with the request, and the client
  stores version and snapshot together; so an older answer that overtakes a newer
  one is repaired by the next refresh.
* `EveryProjectIsWhole`, `CreatesTakeWhatIsFree`: `resolveKey` looks for a free suffix,
  statement by statement, and the insert comes later: two calls may find the same one.
  The loser is refused by the index; it does not try the next suffix. The process may
  die anywhere in between.
* `ConfirmedIsStored`: what a screen sends may be served after the screen has given it
  up; the property relates what it says to the database, whatever the order of sending,
  aborting, serving and answering.
* `TabsKeepToThemselves`: the variations tab compares its lines with what it believes
  stored. It is right until a variation is written that it is not yet told of: by
  somebody else, or by a request of its own that was served and whose answer is on its
  way, lost, or given up for the next submission. A request that is given up or lost
  before it is served changes nothing.
* `CreatedAsReviewed`: the controls of the forms stay usable while an answer is
  awaited, and Enter submits from every step. The second half counts: a flag's form has
  made one flag more than it was not told of, at most.
* `NewSecretIsShown`: the dialog may be closed, or closed, opened and closed, while the
  key is being created; its opener holds the secret for the next time. Leaving the page,
  or a second creation, loses it (`EverySecretIsShown`, refuted).
* `NoPageOutlivesSignIn`: a sign-in is not aborted when its form is left. It refreshes
  and pushes when it is answered, wherever the user has gone, so that no page that was
  loaded before is shown from then on. It counts the sign-ins of this tab: what another
  tab does to the cookie leaves the pages of this one as they are, and says nothing.
* `SourceListComesUp`: the effect that loads the flags to be copied aborts its load
  whenever the step is left; what it keeps must not prevent the next load.

### Fairness

`Publishing`: weak fairness of `Continue(c)`, never of `Begin` or `Rollback`: what has
been started is carried on by the event loop and the database; a statement that waits
for a lock is disabled. `DetectDeadlock` is part of `Continue` and enabled in a circle
only: PostgreSQL's detector runs after `deadlock_timeout` and aborts one of the circle,
and termination relies on it. `Rollback` is not fair, so it never relies on failures. `PooledApprovals`: weak fairness of each call's next step, of
`Connect` and of `TimeOut`, which is `connectionTimeoutMillis` in `db/client.ts`.
`SdkClient`: weak fairness of `Run(f)`: a timer fires, and a request is answered,
fails or is aborted after `timeoutMs` (`AbortController` in `client.ts`). Nothing makes
the API answer well; `Converges` therefore carries `Reachable` as its hypothesis,
strong fairness of a good answer, and is false without it. `close` and `initialize` are
the caller's and not fair. `Dashboard`: a request is answered or fails, since a browser
does not wait for ever, and a navigation that has begun is carried out; nothing a user
does is fair. `Onboarding`: the steps of a page load, each of which the framework runs
after the one before. `Creation`: the load of the source's flags is answered.

## 4. What is proved

Eight modules hold theorems, each about the specification of the module it extends, for
every value of that module's constants: any number of calls, users, flags, environments,
keys, readers, rules, pages, requests; any choice of operations and payloads. The column "runs" names the
property that a run also checks on its instance.

| module | theorem | states | runs |
| --- | --- | --- | --- |
| `Approvals_proofs` | `TypeCorrect` | types | |
| | `OnePendingHolds` | one request is pending per pair | `OnePending` |
| | `FourEyesHolds` | nobody decides a request of their own | `FourEyes` |
| | `AppliedIffApprovedHolds` | a proposal is in the history, whole and once, exactly when approved | `AppliedIffApproved` |
| | `VersionsGaplessHolds` | versions are unique and without gaps | `VersionsGapless` |
| | `DecisionsAreFinalHolds` | a decision is never revised | `DecisionsAreFinal` |
| | `GateImplemented` | the handlers implement `ApprovalGate` | `ImplementsGate` |
| | `PooledImplements` | `PooledSpec => Spec`, whatever the size of the pool | |
| | `PooledGate` | the invariants above hold over a pool | |
| `Publishing_proofs` | `ConfigIsTheLatest` | the configuration is what its latest version says | `ConfigMatchesHistory` |
| | `RowsAreInForce` | what the latest version published of rules and targets is in force, no set is there in part, a user has one target | `RowsInForce` |
| `Reads_proofs` | `WiderOnlyByReplacement` | no reader pairs a table with an older state of what narrows it, but for the conditions of rules that were replaced after they were read | `WiderOnlyByReplacedRules` |
| | `EveryRowOnce` | `ExactCursors` implies: a list read to its end has every row that was there all along, and none twice | `NoRowSkippedOrRepeated` |
| `EnvironmentLifecycle_proofs` | `TypeCorrect` | types | |
| | `BadgeStays` | a stored environment carries the default badge | `BadgeIsKept` |
| | `OnlyACircleEmpties` | a project without an active environment got there by archives that counted on each other | `EmptiedOnlyByCircle` |
| | `ArchiveWithdraws` | the first keys of an archived environment are revoked | `ArchiveWithdrawsKeys` |
| | `LeakedStaysDead` | a rotated or revoked secret never works again | `LeakedSecretIsDead` |
| `FlagConfigs_proofs` | `TypeCorrect` | types | |
| | `OnlyACrossingLeavesAGap` | a pair lacks its configuration only if its flag and its environment were created across each other | `CoveredUnlessCrossed` |
| | `OldReferencesStay` | no variation is removed from under a reference that was there all along | `OldReferencesResolve` |
| `Administration_proofs` | `TypeCorrect` | types | |
| | `ProjectsAreWhole` | a project is there whole, and no call takes the key of another | `EveryProjectIsWhole` |
| | `ConditionsAreOfOneUpdate` | a segment's conditions are those of one update | `ConditionsOfOneUpdate` |
| | `CreatesAreFirst` | a create that commits finds its key, member or segment still free, whatever other calls found free too | `CreatesTakeWhatIsFree` |
| `Evaluation_proofs` | `Partition` | rules for everybody with rising thresholds decide for exactly the buckets between their thresholds | `ThresholdsPartition` |
| | `EarlierRulesWin` | rules behind the one that decides do not matter | `EarlierRulesDecide` |
| | `RaisingGains` | raising one gate moves subjects to that rule only | `RaisedGateOnlyGains` |
| | `RolloutSticks` | raising a rollout that is under way takes the flag from nobody | `RolloutIsSticky` |
| `Web_proofs` | `PagesAreFresh` | no page loaded before a sign-in of this tab is shown once that has gone on, with any number of sign-ins on their way | `NoPageOutlivesSignIn` |
| | `CreatesWhatIsReviewed` | a form sends only what its last step has shown, and a flag again only if it was not told of the first | `CreatedAsReviewed` |
| | `DraftsStay` | what is drafted for one environment is never sent to another | `DraftStaysInScope` |
| | `SecretsAreShown` | the last secret to arrive since the page was opened is seen, or held for the next time the dialog is opened | `NewSecretIsShown` |
| | `SavedIsStored` | a screen says that it has saved only when all it sent is committed, and then shows it | `ConfirmedIsStored` |
| | `TabsKeepApart` | a configuration changes only by publishes that were to change it, and the variations tab holds for saved what is stored, until a variation is written that it is not yet told of | `TabsKeepToThemselves` |

### Assumptions

All are about constants and are evaluated by TLC on every run. `NoneIsNobody`,
`NobodyIsNoUser`, `SeedIsNoCall`, `NamesDiffer`, `CallsNumbered`: the value that means "nobody" or "there
from the start" is not that of a call. `PayloadsPropose`, `PayloadsPublish`: a publish
carries at least one part, which the request schemas demand. `RolesAssignable`,
`ManagersAreUsers`, `FirstExist`, `StartersExist`, `IssuedInScope`, `EnvironmentsListed`,
`AreasAreOperations`: the initial rows and the choices of an instance are among the rows
and choices there are. `TablesDiffer` (`Publishing`): rules and targets are rows of two tables,
so their names tell them apart. `PoolHasConnections`, `WritesBounded`, `SuffixesBounded`,
`Bounded`: bounds are numbers. `PercentagesInRange`, `BucketsInRange`, `ConditionsWellFormed`,
`AttributesExist` (`Evaluation`): percentages are 0 to 100, buckets 0 to 99, conditions of
the shapes the validation admits. `PlacesAndIds`, `PagesHoldRows`, `StartIsNoRow`
(`Paging`): what lists are sorted by is numbered, a page holds at least one row, and the
absence of a cursor is not one.

Some theorems state a hypothesis instead. `EveryRowOnce` has `ExactCursors`: no list that is read is sorted by a time, or the times
are kept in milliseconds. Six of the eight lists meet it; the two that do not are those
`AuditPages` refutes. The theorems about `Dashboard` have `Catalogue = AllScreens`: the
screens are the 25 that `Screens` defines.

### The arguments

Nearly none of these is inductive by itself: what a commit does to a table depends on
what its call had read, and on what others may have done since. Each proof module
therefore defines `IInv`, the conjunction of the named parts below; one lemma per part
or per action shows that it is preserved, and the theorems follow from it, some with one
more induction. TLC checked every `IInv` on the module's instance before it was proved.

* `Approvals_proofs`. What each label guarantees: which operations reach it
  (`LabelsMatch`); that a decider's copy of the request is still the request and its
  user not the author (`JobsMatch`); that rows exist of finished proposals only
  (`RowsMatch`); that a row held by a transaction is pending (`HeldRowsPending`), of its
  own pair (`RowsOfPair`) and held by no other (`LocksExclusive`); that the numbers of a
  pair are 1 to n, with the one a transaction read among them (`NumberedFromOne`,
  `BasesMatch`); that versions name finished calls (`ViasFinished`). `OnePending` then
  comes from the partial index, `FourEyes` from `JobsMatch`, `AppliedIffApproved` from the
  exclusive hold on the claimed row. For the refinement, `Init` maps to the gate's, every statement before a commit is a
  stutter, and each of the four commits is the gate's step (`ProposeStep`, `ApproveStep`,
  `RejectStep`, `DirectStep`). A step with connections is a step without them or leaves
  everything but connections alone; whatever holds of the handlers holds under any load.
* `Publishing_proofs`. What a transaction's locks and the numbers it has drawn still mean
  when it commits: versions are apart and by transactions that are done (`History`); what
  a transaction has inserted is its own and of the parts it has published (`Entries`);
  rows are named by those who published them (`RowsOfCalls`); deleted rows stay locked,
  by one transaction (`Locks`); every set of rows, also one that a DELETE has found, has
  all rules of a publish or none (`Whole`); who deletes another's rows is numbered after
  it (`Overtakes`), and so is who holds the configuration's row after whoever held it
  before (`ConfigInOrder`); an inserted number is nobody else's, and one that is read is
  past those of the rows its transaction has deleted (`Numbers`); the users it has
  inserted are its own, all of its list before it is numbered (`Users`). From these: a later number is a later writer, which
  is the point where a DELETE that misses rows does no harm to the latest set.
* `Reads_proofs`. Tables only move forward (`HistoryForward`); what a reader has found is
  no newer than the last commit (`SeenCommitted`); what it has found gone are conditions
  of rules replaced since it read them (`GoneWithRules`); every plan reads a table once,
  before what narrows it and after what it narrows (`PlansOrdered`), so that what narrows
  is as new as what it narrows (`SeenInOrder`). For lists,
  every place of a finite list is taken, by one row (`PlacesAre`, from the pigeonhole
  theorem), so that a page is the rows after the cursor without a gap (`PageIs`); what was
  there all along is then collected or after the cursor, and what is collected is in order
  up to it (`PagingInv`).
* `EnvironmentLifecycle_proofs`. Little that a call has read can be relied on, so the
  invariant collects what never changes back: environments are stored for good, the badge
  among them (`StoredStays`); what an archive counted on is active unless another archive
  took it (`ListedStays`); a key stays in its scope, so that an archive finds it
  (`OldKeysFound`); secrets are drawn by one call each (`SecretsDrawn`), and neither a
  rotated nor a revoked one returns (`KeysStayDead`). `OnlyACircleEmpties` then counts
  nothing: in an empty project every archive's target leaves one it counted on, which
  `ListedStays` says another archive took.
* `FlagConfigs_proofs`. Flags and environments stay and are created by calls
  (`CreatedByCalls`); a call that has written has configured every pair it knew of
  (`FlagsCovered`, `EnvironmentsCovered`, the latter table by table for a copy); publishes
  replace configurations and remove none (`ConfigsStay`); a removal has not found its
  variation in the tables it has searched (`OldReferencesSeen`).
* `Administration_proofs`. Labels and operations (`StepsMatch`); no row is held twice
  (`LocksExclude`), so what a call has inserted under a key of an index is still free at its commit
  (`InsertsAreFree`) and the conditions an update is to drop are still all there are
  (`DropsAll`).
* `Evaluation_proofs`. The types are enough; the work is in the lemmas about the pure
  functions, for rule lists of any length: the rule that decides is the least element of
  the set of those that apply (by well-foundedness, not by recursion), lists that agree
  up to it agree on it, and thresholds that rise leave no gap.
* `Web_proofs`. Of the way in (`EntryInv`): what the router holds of the guarded pages was
  loaded since the last sign-in that went on, and so was what is shown where no page is on
  its way; every answer that signs in empties the one and replaces the other at once,
  whichever form it was for. Of the forms (`CreationInv`): the last step is reached
  reviewed, a segment's operators fit their attributes, and a flag has been made as often
  as it was missed, or once more, after which the form is left. Of the screens
  (`ScreenInv`): one that is keyed drafts for what it shows, and has sent what was drafted
  for where it went; an opener holds the last secret unless it was seen, and shows what it
  holds while it is open (`SecretOk`); a request that is served and settled is empty, which
  is what the answers before the last of a submission come down to in `SavedIsStored`.
  What the 25 screens contribute is four facts about their attributes (`ScreenFacts`),
  checked screen by screen. Of the tabs (`TabsInv`): while nothing was written that the tab
  will not be told of, the variations tab awaits one answer at most, and its lines agree
  with what is stored but for what that answer will make of them (`LinesInv`, `Expected`);
  and what is published with a configuration was to change it.

### What stays with TLC

Liveness, since the prover has neither fairness nor ENABLED: `EveryCallEnds`,
`EveryPublishEnds`, the three properties of `SdkClient`, `EveryScreenSettles`,
`EveryVisitSettles` and `SourceListComesUp` are checked on the instances of section 3
only. Every invariant and every action property that a passing run checks is also proved.

## 5. What is not modelled

Better Auth itself, OAuth and invitations: `Onboarding` models what the API configures
and the calls the dashboard makes. E-mail is I/O; that a code does not arrive is in
`Onboarding`. Routing, validation of requests and the wiring of services have no state.
The dashboard's read-only views (cards, tables, filters, previews, the graph of flag
dependencies) render what a page has loaded. The conformance vectors of the engine are
data. Within modelled components: `matches_regex` and SHA-256 (the bucket is any
function of the value), expiry of keys by the clock, descriptions, tags and owners,
the avatar, the statistics of the overview, which project an ambiguous evaluation
request means, the getters of the Node client.

In `EnvironmentLifecycle` a transaction's writes take effect at its commit: they are
updates by id whose locks only order them. In `Publishing` a published target list
and rule set become visible at the commit; the rules' rows have no key another publish
could wait for. A target list that names a user twice, which nothing validates, fails on
the index by itself and is left out. In `ChangeRequests` one `versions` row stands for the version and
its audit row. In `Dashboard`, `FlagTabs`, `Creation` and `Onboarding` a request is
served in one step: what its transaction does under concurrency is in the modules of
the API.

## 6. Where code and documents disagree

Three runs expect a violation:

| run | statement | what TLC finds |
| --- | --- | --- |
| `LateProtection` | "Every direct publish into a protected environment is refused" (`docs/change-requests.md:18`) | a publish is checked, the environment becomes protected, the publish commits: `isProtected` is read before the transaction and not again |
| `DefaultKeys` | "a configuration never points at a variation that does not exist" (`docs/flags.md:49`) | a flag created with keys of its own, then a fresh environment: its configuration names `on` and `off`; no concurrency is needed |
| `AuditPages` | "pages without repeating or skipping a row" (`apps/api/src/test/modules/audit-log.test.ts:217`) | the cursor is cut to the millisecond and compared with microseconds: entries of one millisecond that straddle a page boundary are skipped. The list of change requests has the same cursor |

The modules also state, marked "Refuted", further sentences of documents and comments,
or expectations one might have, that TLC refutes when they replace the properties of
the run named:

| definition | with | counterexample |
| --- | --- | --- |
| `ReplacesWholeSet` | `Publishes` | "The matching `PUT` replaces the whole set" (`docs/flags.md:149`): the later DELETE waits for the earlier and misses the rules it inserted, and both sets are in force |
| `OnlyDeletesCircle` | `Publishes` | an approval has numbered its configuration and waits for rules that a direct publish has deleted, which waits for that number (`flags.service.ts:796`): the database aborts one of them |
| `KeepsOneActive` | `EnvironmentRaces` | "A project must always retain at least one active environment" (`docs/domain-model.md:110`): two archives of the last two environments each count two under READ COMMITTED and both commit (comment at `environments.service.ts:238`) |
| `BadgeOnActive` | `EnvironmentRaces` | an archive hands the badge to an environment another archive has withdrawn (`docs/domain-model.md:108`) |
| `ArchivedHasNoKeys` | `EnvironmentRaces` | a key is issued for an environment that is archived meanwhile, or already |
| `EveryPairConfigured` | `ConfigRaces` | a flag and an environment created across each other lack their configuration (`docs/domain-model.md:54`) |
| `ReferencesResolve` | `ConfigRaces` | a publish validated before a variation's removal commits after it (`flags.service.ts:412`) |
| `KeepsAVariation` | `ConfigRaces` | "A flag has to keep at least one variation." (`flags.service.ts:434`): two removals each count two, once a publish has freed both |
| `NeverWiderThanPublished` | `Reads` | rules are replaced after a reader has read them and before it reads their conditions: the SDK, the dashboard or a decision has rules without conditions, which match everybody (`sdk.service.ts:105`) |
| `HalfIsNeverVisible` | `Reads` | a read combines the configuration before an approved change with the rules after it (`flags.service.ts:766`) |
| `CopiesKeepConditions` | `Reads` | rules are replaced while a copy has read them and not their conditions: the copy has rules that match everybody (`flags.repository.ts:772`) |
| `CloseStopsTimer` | `Reads` | two initialize calls arm two timers; close clears the one armed last (`docs/sdk.md:140`). `QuietAfterClose` shows that the other fires once and ends |
| `LatestSettingStands` | `Administration` | metadata are read, merged and written back: of two updates of different settings the later drops the earlier |
| `RefusedLeavesTheName` | `Administration` | the profile's name is written before the update of the metadata fails |
| `SomebodyAdministers` | `Administration` | two owners demote each other; nothing in code or documents forbids it, and workspace owners still administer |
| `PublishedIsInForce` | `Web`, with `Catalogue <- TargetingTab` and `MaxRequests = 3` | one of the parts of an earlier publish that was given up is served after the later one |
| `EverySecretIsShown` | `Web` | "The secret is shown once, here." (`create-api-key-dialog.tsx:88`): the dialog is closed while the key is created, and the page left before it is opened again |
| `OneFlagAForm` | `Web` | a create is served, its answer lost, the key changed and the form sent again: two flags |
| `SignedOutSeesNothing` | `Web` | signing out pushes without a refresh: Back shows a cached page |

Seen while modelling, and reproducible in the modules named: the environment's forms are
scoped by a cookie and not keyed, so a draft may go to an environment of the same key in
another project (`Screens`, `inPath` and `keyed` of `EnvironmentDetails`); the forms for
environments and projects unlock before their navigation and may create a second row
(`reopens`); the sign-in form is not told that its page was left, and takes the user away
from where they went when its answer comes (`GoOn`); a rotated secret is lost when the dialog is closed, or the integration card
left, while the answer is pending (`secret` of `RotateApiKey` and `SdkKeyCard`); an
aborted request counts as failed and rolls an instant setting back although a later one is
under way (`rollsBack` of `WorkspaceSecurity`, `Fail`); a preference that was not loaded is
sent as its default (`loads` of `Preferences`); a publish of the targeting tab with a new
default variation sends the rest of the configuration as the page loaded it, and undoes what
another user switched meanwhile (`ConfigInput`); an added variation whose answer was aborted
by the next submission is stored and not shown, and adding it again is refused
(`SendVariation`); a rule added on that tab asks for `user.id in []` and matches nobody
(`AddedRule`).

## 7. State of the plan

Done: the approval flow with its pool, abstract gate and proofs; publishing,
configurations, environments and keys; readers, lists, engine and client; administration;
the dashboard. Every safety property that a passing run checks is proved.

What is left, in order of worth:

1. `Dashboard` over `ChangeRequests`: a screen's calls interleaved with the statements
   that serve them, where `Dashboard` serves them in one step.
2. That `Publishing`, whose transactions write rows statement by statement, refines the one
   commit of a publish in `ChangeRequests`, where the two share the history of versions.
3. The choice of a project by the evaluation endpoint, and expiry of keys by the clock.

The modules use no RECURSIVE operator, so that all of them can be proved about.
