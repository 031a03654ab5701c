# A TLA+ model of the Bank Licensing & Compliance Portal

This directory holds a formal model of the portal: TLA+ modules translated from
`src/apps/api` and `src/apps/web`, TLC configurations that check them on small
instances, and TLAPS proofs of the central properties for every instance.
`PROJECT.json` maps each definition to the source lines it stands for, and lists
the runs, the faulty forms each property is tested against, the hazards of the
code, the places where the code does not do what its documents say, and the
theorems.

## 1. The system

A NestJS API over PostgreSQL (Prisma, READ COMMITTED), a directory of uploaded
files, and a Next.js portal.

| Part | State | Operations |
|---|---|---|
| Transition table, state machine (`workflow/transitions.ts`, `state-machine.ts`) | none (data and pure functions) | `resolveTransition`, `availableActions` |
| Workflow engine (`workflow.service.ts`) | `Application` rows | `transition`: submit, start-review, request-info, resubmit, approve, reject |
| Applications (`applications.service.ts`, `visibility.ts`) | `Application` rows | create, edit a draft, read, list, available actions |
| Documents (`documents.service.ts`) | `Document` rows, files | upload, list, download |
| Audit (`audit.service.ts`, `audit.controller.ts`) | `AuditLog` rows | an entry inside a caller's transaction, an entry of its own, paged reads |
| Accounts (`users.service.ts`) | `User` rows | create, update (role, active), list |
| Authentication (`auth.service.ts`, `jwt.strategy.ts`, `roles.guard.ts`) | `Session` rows, the tokens clients hold | login, logout, validation of every request |
| Around a request (`csrf.middleware.ts`, `http-exception.filter.ts`, throttling, logging) | none | checks of headers, translation of errors |
| Seed (`prisma/seed.ts`) | none of its own | seven accounts, seven applications driven to their states by scripts |
| Portal (`apps/web`) | a query cache and the state of the components per tab | fetch, invalidate, arm and confirm an action, edit, create, upload, page through a list, sign in and out |

How they meet. A request passes the CSRF middleware, `JwtStrategy.validate`
(session, account, role read from the database) and `RolesGuard`; the service
then reads and writes rows in one transaction or in several separate
statements. Transitions, edits and uploads share the `Application` row;
everything appends to `AuditLog`; account updates delete sessions that every
other request relies on. Nothing else is shared: there are no queues, timers or
callbacks between the parts. The one promise nobody waits for is the removal of
an orphan file.

A tab of the portal shows answers of several queries, each fetched, invalidated
and answered on its own, and sends the version one of them brought. The server
never tells it anything unasked: what others do is found out by a refetch or by
a 409.

What is hard. Two requests on one row, where the `UPDATE ... WHERE version = ?`
decides; a version in the request that nobody compares with the row the decision is
made on; rows read before a transaction and used in it (edits, uploads, account
updates, login); a role that changes while its holder's request runs; failures
between the statements of one operation; a commit whose answer is lost; a disk
and a database that do not commit together; answers that overtake each other on
the way to a page; forms that keep what they were filled with; lists that change
between two of their pages. `PROJECT.json` lists each of these
hazards at its line with the properties that would catch it, or why none does.

What makes each part correct:

* workflow: rows move along the table only; the trail is the row's history; the
  reviewer never decides; one winner per version; decisions are final; answers
  are true; every request is answered (which of these hold only for clients that
  send versions they were shown, section 3 says);
* applications: buttons are exactly what would succeed; whoever has work sees
  it; submitted content no longer changes;
* documents: versions are dense, trail and table agree, every document has its
  bytes, nothing leaks, documents attach in mutable states only;
* accounts: an admin remains, revocation is complete, the audit log tells every
  change, every login is recorded, updates keep each other's fields;
* lists: a reader who comes to the end has seen what was there, and nothing twice;
* portal: what is accepted is what the button was drawn for, nothing stale looks
  fresh, a note is for the version it was written on, nothing is made twice or
  overwritten by a form nobody typed into;
* sign-in: nobody sees what the tab kept of the one before, and who has logged in
  gets in.

## 2. The modules

```
Transitions      the table and the pure functions
  Views          what a person sees of a row and may do with it
  Workflow       transition() and create() under concurrency
    WorkflowProperties   its properties; INSTANCE AuditedMachine
      WorkflowProofs, TrailProofs
    Applications         edits and views composed with Workflow (and Views)
      ApplicationsProofs
  Seed           the accounts and applications of prisma/seed.ts
Errors           from exceptions to status and code
QueryCache       one entry of a tab's query cache (external, as configured)
  Portal         one tab: Views, Seed, Errors and QueryCache together
    PortalProperties -- PortalProofs
  SignIn         one tab: the login page, the gate and the logout of the layout
                 -- SignInProofs
Documents        upload(), listing, download, storage, cleanup
                 -- DocumentsProperties, DocumentsProofs
Accounts         users, sessions, login -- AccountsProperties, AccountsProofs
Paging           the cursor reads and the list page -- PagingProofs
AuditedMachine   what the workflow promises, abstractly
MC*              TLC instances: symmetry, and the sessions of MCPortal; the
                 .cfg files give the other constants
```

**Transitions** keeps the seven rules as records, with the predicate `canAct` of
a rule turned into data (a role and a bond to the application). `Row` has the
columns decisions look at. `ComputePatch` is `computePatch` and the version
increment together. `Permitted` is `resolveTransition` followed by step 4 of
`transition()`.

**Workflow** has one action per statement of `transition()`: `Resolve` or `Refuse`
(steps 1-4), `Update` (5-6), `RecordAudit` (7), `Commit`. A request carries its
private writes in `tx[r]`; `lock[a]` is the row lock PostgreSQL gives to the
first UPDATE. `Update` waits for the lock and then evaluates the version
condition on the row as it is *then*, which is what READ COMMITTED does, while
the decision and the `previousState` of the entry come from the row read before.
`Abort` may hit any transaction at any point; `Commit` may lose its answer, and
the client may send the call again. `ChangeRole` changes roles at any time; a
request keeps the role it was let in with.

`BeginTransition` lets clients send any version from 0, as the DTO does: up to `MaxLag`
behind the row's and up to `MaxLead` ahead of it (bounds of the instances, any numbers in
the proofs). `transition()` never compares the version with the row it has read, only
the WHERE of its UPDATE does. A version ahead of the row is therefore decided on one
row and applied to the next, when another transition commits in between. The condition
`ShownVersions`, `MaxLead = 0`, says that clients send only versions they were shown: the
portal does (it sends what a query brought), the server does not ask for it.

**AuditedMachine** has no requests, versions or locks: an item moves along a rule
and its trail grows by the matching entry in one step. `ImplementsMachine` maps
committed states and trails onto it.

**Applications** adds `update()` of a draft as what it is, a read and a later
update by id, and the reads that every role's view is made of (`Visible`,
`AvailableActions` of `Views`). Its next-state relation is `Workflow`'s or a step of an edit.

**Documents** is `upload()`: `Begin`, `Gate` (the row read once), `Store`, `ReadMax`,
`Insert`, `Commit`, and the failure path `Undo` that starts a removal nobody waits
for (`RemoveOrphan`, `RemoveFails`). `Insert` waits for an uncommitted row with its
key, as a unique index does. `MoveApplication` is the workflow as seen from here:
the states move along the table, which `TrailProofs!Refinement` proves of
`Workflow` under `ShownVersions`; no property of the passing run is about a state. `Crash` ends everything in progress and leaves the files. `FreshBytes`
is an assumption on clients: TRUE where no two uploads of an application carry the
same bytes. `documents_uploads` has it, `documents_bytes` shows what happens without.
`Listing` is the list of latest versions with their counts and `Download` the read
of a document's bytes; both are functions of the committed state.

**Accounts** is account creation and update (`ReadExisting`, `Write`, `Revoke`,
`Commit`), login (`BeginLogin`, `CreateSession`, `AuditLogin`, `AnswerLogin`),
logout and the validation of tokens. `Slot` is the set of requests under way at
once. Three promises hold only while certain requests do not overlap; the history
variable `overlap` remembers which kinds have ever been under way together, so
that one run checks the promise in every history without them
(`AnAdminRemainsInTurn`, `LiveTokensAreCurrentInTurn`, `TrailTellsTheAccountInTurn`)
beside what overlapping requests keep.

**Seed** replays the scripts of the seed: `DriveStep` finds the rule for an action and
applies `ComputePatch`, and `Submitted`, `Started` and `InfoRequested` are the stretches
the scripts have in common. Their results and the accounts are the initial states of
`Portal`.

**Errors** is `HttpExceptionFilter.toResponse`. `Portal` answers with it, and its
`EndPost` switches on the code as `onError` of the page does.

**QueryCache** is @tanstack/react-query as far as the portal uses it: a query is
asked, answered and received in three steps; an invalidation of what is shown
starts the fetch anew and drops the one under way, except a first load, which goes on;
an invalidation of what is not shown marks it. A refusal leaves the old data and
sets the error, which stays beside the data until an answer with data comes.

**Portal** is one tab of one signed-in person. Its server side is the row, its
content and two counters; calls are answered in one step, which for transitions
`TrailProofs!Refinement` and `OneWinner` allow: it sends only versions it has fetched. The page is drawn from `cache`:
`Render` mounts and unmounts components with it, so that the state of
`ApplicationActions` (`panel`, `post`) and of `DraftEdit` (`draft`, `save`) comes and
goes as in React. `Click` sends the version of the entry the buttons are drawn from. One slot `post` serves
all mounts of the buttons: those mounted anew while a call is under way wait for it, where
the code gives them a mutation of their own (a corner left out).
`create` and `upload` are the forms whose calls make something. `OthersAct` and
`EditElsewhere` are everybody else, `Fault` loses a call or an answer. `past` and the
fields `seen`, `told`, `armedOn`, `refreshed`, `behind`, `typed`, `overtaken` are history for the
properties.

**SignIn** is a tab that outlives its users. `session` is what the cookie names; a query is
sent with the cookie of the moment and answered for it (`Send`, `Look`). The layout looks at
the entry `me` as `layout.tsx` does: a 401 beside it sends to the login page (`Refused`), data
in it draws the page (`Inside`), and the two may hold together. `EndLogin` only marks the
entry, since nobody shows it then; `Settle` clears the cache. The router arrives later
than it is told to (`going`, `Arrive`). `flags` remembers, until the cache is cleared, what
the two properties except.

**Paging** is the three list handlers, which differ in filter and stamp, with the list
page in front. `After` gives the rows behind a cursor; where the code leaves the order
to PostgreSQL (equal stamps) or the position to Prisma (a cursor's row that the filter
no longer lets through) it is a choice over the outcomes. Rows are stamped when
their transaction starts and appear when it commits, hence out of order.

Definitions called *faulty form* (`Name_Something`) belong to no specification. Each
is a plausible mistake in the definition after it, and is what a property is
tested against.

## 3. What TLC checks

Every passing run is exhaustive for its constants. Deadlock is checked in all but
`portal` and `signin`: a page that has everything it asked for and a user who does nothing
more is where a tab stays.

| Run | Instance | Shows |
|---|---|---|
| `workflow_races` | 2 users with any of the three working roles, which may change, 1 application, 2 requests, 6 versions; `ShownVersions` | under every race the trail is the history of the row, answers of conflict and refusal are true, the CHECK never fires, decisions are final, the reviewer neither changes nor decides, buttons are exactly what would succeed, work is visible to whoever has it, and the abstract machine is implemented |
| `applications_any_version` | 1 user as applicant or reviewer, 2 requests and 1 edit at a time, 2 contents, 2 versions, sent up to 1 ahead of the row, with fairness | whatever versions are sent: an OK is true and the only one on its version, what was decided on a row not older than the version sent is a move of the table, content comes to rest after a submission, and requests and edits are answered although both wait for the row lock |
| `documents_uploads` | 2 uploads at a time, 2 types, 2 contents, 2 documents, 2 crashes or failed removals, with fairness | dense versions, true conflicts, trail, disk and table agree; the listing has the newest version of each type and counts the others; every document can be downloaded; the wait for a key ends |
| `accounts` | 2 users, 2 requests at a time, 2 sessions, 4 audit entries | updates keep each other's fields and every login is recorded; without an overlap of the kinds named, an admin remains, live tokens are current and the log tells every change |
| `portal` | each seeded person who sees it on each seeded application, or an applicant on the form for a new one; nine sessions (below) | an accepted action was done to the very row its button was drawn for; what is older than the tab's last answer is being fetched, marked or in error; notes, saves and creations go wrong only in the cases the properties name |
| `paging` | pages of 1 or 2 rows, 2 old rows and 1 new one, 2 times a row entering or leaving the filter, 3 pages | no row twice and none missed, without equal stamps and as long as the cursor's row is in the filter; a next page that is offered has rows unless rows left the list |
| `signin` | 2 people, 2 logins, 1 lost answer, 1 refetch beyond those that are due, sessions ending at any time, with fairness | the next user of a tab sees nothing of the one before, and who has logged in gets to the portal as himself, but in the cases named |

Five further runs check a sentence of a comment or document that the code does
not keep; TLC's counterexample is the demonstration.

| Run | What the code does |
|---|---|
| `workflow_ahead` | a decision sent with the next version is made on the row under review, waits until an approval has brought the row to that version, and overturns it: `README.md:81` calls both states terminal |
| `applications_frozen` | an edit checked in DRAFT is written after the submission |
| `documents_bytes` | the cleanup of a failed upload removes the bytes of a committed document when both sent the same bytes |
| `documents_state` | a document is attached after the application left its mutable state |
| `accounts_admins` | two admins deactivate or demote each other at the same time |

**Versions the row has yet to reach.** Nine properties of the workflow hold under
`ShownVersions` and not without it. `workflow_ahead` shows it for `DecisionIsFinal`; the
other eight fail for the same reason, in counterexamples TLC finds with `MaxLead = 1` in place
of 0:

| Property | States | What happens |
|---|---|---|
| `ConflictIsReal` | 6 | the version sent is one too high, nobody has touched the row, the answer says somebody did |
| `AuditTellsTheStory`, `ImplementsMachine` | 13 | the entry's `previousState` (`workflow.service.ts:140`) is that of the row decided on, not of the row updated |
| `EveryEntryIsAuthorised` | 18 | a start of review decided on the unassigned row replaces the reviewer who has started meanwhile: his entry is no longer by the one the row names |
| `ReviewerKeepsTheApplication` | 19 | the same, seen on the row |
| `ConstraintNeverFires` | 22 | the refusal of step 4 looks at the row before the reviewer was set, the CHECK at the row after |
| `ReviewerNeverDecides` | 24 | the replaced reviewer is promoted and decides; the check (`workflow.service.ts:104`) knows the last reviewer only |
| `RetryIsNotForbidden` | 25 | the replaced reviewer sends a committed request for information again and hears 403 (3 users, 6 versions) |

What holds whatever is sent is `TypeOK`, `OkIsTrue`, `OneWinner`, that requests are
answered, the buttons and the visibility, and `OlderVersionsFit`: a commit whose version is
not above that of the row it was decided on is a move of the table on the row as it is then.
So versions that are too low do no harm, and the comparison missing in the code is the one
with the row that was read.

**What the properties except, and what is seen by reading.** Some properties hold
with exceptions that are themselves behaviours of the code worth knowing; TLC
refutes each property without its exception. Others are divergences between a
document and the code that need no run.

* `NothingIsMadeTwice` (of `PortalProperties`, proved and in no run, since what it excepts is
  all that goes wrong): the server reads no idempotency key, although `README.md:99` and
  `docs/DESIGN.md:170-191` promise one, `new/page.tsx:28-29` relies on it ("retries of
  the same submit reuse the key (safe replay)") and so does `query-client.ts:10-11`.
  After a lost answer the user's retry makes a second application or a second version
  of the document; so does a click between the answer and the router's arrival.
* `NotesAreForTheirVersion`: an armed decision keeps its note while a refetch moves the
  buttons to a newer version, without the banner if nothing of this tab was refused.
* `NothingStaleLooksFresh`: an invalidation does not restart a first load that is under
  way, so its answer, from before the change, is shown as current. A 409 does not
  refetch the timeline.
* `UntypedSavesChangeNothing`: the draft form sends both fields with the values of its first
  render, over an edit made in another tab, or over this tab's own save when it was
  filled before the refetch had come.
* The banner "This application was changed by someone else" also appears after the
  user's own lost answer: the change was his.
* `ReadingIsComplete` and `NothingIsShownTwice`: `createdAt` and `occurredAt` are no unique
  order, and a cursor's row may leave the list.
* `NextPageHasRows`: the cursor stack of the list page outlives the rows. A later page that has
  become empty is drawn as "No applications waiting for review" (`page.tsx:71`, `167`) without
  a button back, since the buttons are drawn below rows only.
* `NothingOfAnother`: `layout.tsx:20-21` clears the cache "to avoid a stale-data flash if a
  different user logs in next on the same browser", but a session that expires, is revoked or
  deactivated ends without it: the next user sees the name and the list of the one before until
  the refetch is answered. So after a lost answer, and when the sign-out is answered after
  somebody has logged in: then the answer also removes the new cookie.
* `LoginLeadsIn`: the login only marks the entry of the user (`login/page.tsx:36`), the 401 in
  it stays until the refetch is answered, and the gate acts on it (`layout.tsx:29-33`): who
  logs in after his session expired may be sent to the login page once more, and gets in at the
  second attempt. A lost answer to `/auth/me` leaves a blank page, which `layout.tsx:46` takes
  for "mid-redirect".
* `login/page.tsx:20-21` says the login pushes to /portal, "which does the role-based redirect":
  it pushes to /applications, and there is no such page.
* The three promises of Accounts hold "in turn" and say nothing of the overlaps they except:
  two admins acting on each other are shown by `accounts_admins`; a login that overlaps a role change
  keeps the old role in a live token, and overlapping updates record changes that do
  not lead to the row.
* A transition on another applicant's application answers 403 or 409; `docs/DESIGN.md:225`
  says 404. `transition()` reads without the visibility filter.
* `visibility.ts:10-12` speaks of unassigned items of the review queue, but a
  `RESUBMITTED` application in it keeps the reviewer of the first round, and only he may
  start its review.
* `http-exception.filter.ts:204`: a 400 without a code of its own becomes `INTERNAL_ERROR`.
  The classes of `domain-errors.ts` are known to the filter and thrown nowhere.
* The timeline asks for the latest 50 entries (`audit-timeline.tsx:63-66`): of a longer
  history it is the beginning that is not shown.

**Why the bounds are enough.** The hazards are between two actors on one row: one
more request repeats a race with a third party, and the version decides pairwise.
Four versions take a row from creation through a review, a request for
information and a resubmission or a decision; six contain two full rounds of
review. In `workflow_races` a call is let in with the version of its moment (`MaxLag = 0`) and
may then be delayed as long as it likes, before its read and between its read and its
update, so that stale versions and retries arise without being sent as such. One version
ahead is the first that the code mistakes; a larger one needs as many commits in
between. In `applications_any_version` two versions and one working user, who changes between
applicant and reviewer, are the fewest with which a version ahead is committed: sent in
DRAFT or SUBMITTED for the row after.
Two documents, of one type or of two, are enough for a gap, a double and
a mix-up of types. Two admins are the fewest that can act on each other. The
sessions of `MCPortal` bring together the parts of the page that share entries of the
cache and leave the others alone: the buttons alone with three changes outside (a
decision that goes back for information and returns under review needs three), with
one change and a lost answer, or with one and a refetch; with the timeline; with
the draft form; the draft form with the timeline, and with everything that can go
wrong once; and the form for a new application with uploads and edits of what it
made. A tab makes at most two applications (`MaxMade`) and sends one file, the fewest
for something to be made twice. Three rows fill three pages of one or a page of two and
one of one: a page exactly full, a last page with one row, and a middle page. In `Paging`
every page stays cached as the page has it (`page.tsx:39-41`), also one the reader turned back from,
and none is collected while he reads; "all the while" is since his first page came. In `SignIn` two logins are one
after somebody else and one after having been sent back; a second lost answer or refetch
repeats the first. The
proofs of section 4 remove all these bounds for every safety property of every passing
run; what still rests on them is liveness. An administrator may call none of the
workflow's endpoints, so the races leave that role out; the theorems about the
buttons and the visibility include it.

**Fairness.** The event loop goes on with what it has started and PostgreSQL
executes the statements it is given: weak fairness of each request's next
statement. A statement waiting for a row lock or for an index key stands in
PostgreSQL's queue for it and is not overtaken for ever: strong fairness of
`Update`, `WriteEdit`, `Insert`. Nothing is assumed of clients, administrators,
failures or crashes. In SignIn the tab and the server go
on with what is under way (`ReplyMe`, `ArriveMe`, `Arrive`, `ServeLogin`, `EndLogin`), each of
which stays possible until it has happened or was overruled; nothing makes anybody click.
Portal and Paging state safety only and have no fairness.

## 4. What is proved

Every invariant and action property of the passing runs, and the refinement, is a
theorem: for any sets of users, applications, requests, contents and files, any bounds,
and from the named assumptions of the modules only (`NoUser` is no user, the roles in
play are roles, bounds are numbers). Twelve theorems, marked * below, have a condition
on clients besides, `ASSUME ShownVersions PROVE ...`: without it they are false of the code
(section 3). TLC checked each inductive invariant on the
instance of its run before it was proved. Whatever a property excepts in section 3 is
part of what the theorem states.

| Module | Theorems (property) |
|---|---|
| `WorkflowProofs` | `TypeCorrect` (`TypeOK`), `CoreInductive` (`CoreInv`), `OnlyNewerVersionsMisfit` (`OlderVersionsFit`); `Inductive`* (`IInv`), `DecisionsAreFinal`* (`DecisionIsFinal`), `ReviewerIsRefusedInTime`* (`ConstraintNeverFires`), `ReviewersKeepTheirCases`* (`ReviewerKeepsTheApplication`) |
| `TrailProofs` | `OneEntryPerVersion` (`CountInv`), `AnswersOkAreTrue` (`OkIsTrue`), `AtMostOneWinner` (`OneWinner`); `TrailIsComplete`* (`AuditTellsTheStory`), `EntriesAreAuthorised`* (`EveryEntryIsAuthorised`), `ReviewersNeverDecide`* (`ReviewerNeverDecides`), `Refinement`* (`ImplementsMachine`), `ConflictsAreReal`* (`ConflictIsReal`), `RetriesAreNotForbidden`* (`RetryIsNotForbidden`) |
| `ApplicationsProofs` | `EditsLeaveTheWorkflow` (`ASpec => Spec`), and from it `ReviewersNeverDecideBesideEdits`*, `ReviewersKeepTheirCasesBesideEdits`*; `EditsAreTyped` (`ATypeOK`), `OnlyTheOwnerWrites`, `ButtonsFitTheGuards` (`ButtonsAreExact`), `ActorsSeeTheirRows` (`WhoCanActCanSee`) |
| `DocumentsProofs` | `DocumentsInductive` (`DInv`), `DocumentTypes` (`DTypeOK`), `VersionsStayDense` (`VersionsAreDense`), `UploadConflictsAreReal` (`UploadConflictIsReal`), `ListsTellTheHistory` (`ListTellsTheHistory`), `TrailsMatchTheDocuments` (`TrailMatchesDocuments`), `NoBytesLeak` (`NothingLeaks`), `DocumentsHaveTheirBytes` (`EveryDocumentHasItsBytes`, given `FreshBytes`), `DocumentsArePermanent` |
| `AccountsProofs` | `AccountsAreTyped`, `UpdatesKeepOtherFields` (`UpdatesKeepEachOther`), `LoginsAreLogged` (`EveryLoginIsLogged`), `AnAdminAlwaysRemains` (`AnAdminRemainsInTurn`), `LiveTokensStayCurrent` (`LiveTokensAreCurrentInTurn`), `TrailsTellTheAccounts` (`TrailTellsTheAccountInTurn`) |
| `PortalProofs` | `TabsAreWellFormed` (`PInv`), `StaleDataIsMarked` (`NothingStaleLooksFresh`), `AcceptedIsWhatWasOffered` (`AcceptedAsOffered`), `NotesFollowTheirVersion` (`NotesAreForTheirVersion`), `FormsMakeOneThing` (`NothingIsMadeTwice`), `UntypedSavesAreHarmless` (`UntypedSavesChangeNothing`) |
| `SignInProofs` | `NothingIsOfAnother` (`NothingOfAnother`) |
| `PagingProofs` | `ReadersKeepTheirPlace` (`PagingInv`), `ReadingComesToTheEnd` (`ReadingIsComplete`), `NoRowTwice` (`NothingIsShownTwice`), `OfferedPagesHaveRows` (`NextPageHasRows`) |

**The workflow.** None of the properties is inductive alone, because what a request
writes was decided on a row it read earlier. `CoreInv` says what links the two, whatever
versions clients send:

* `LockInv`: a row lock is held by a request that has updated that row and no
  other;
* `AbsentInv`: a row that is not there is empty, at version 0;
* `RequestInv`: a request that has resolved holds a rule that was permitted on the
  row it read, that row is the committed one or an older version of it, and
  between its update and its commit the committed row is at the version that was sent
  and the private write is its patch.

`OlderVersionsFit` follows: a commit is at the version that was sent; if the row that was
read was at least at that version, it was not older than the committed one, hence it is
the committed one (`MatchMeansFresh`).

`IInv` adds, under `ShownVersions`:

* `NotAhead`: no call under way has a version above the row's;
* `RowInv`: the columns go with the state (no reviewer before a review has
  started, no approver before a decision).

`NotAhead` makes every commit one of the kind above, and only then is `RowInv`
kept. From `IInv` follows `StepsAreLegal`: every step either
leaves all rows and trails alone, creates one application, or moves one along a
rule that was permitted on it, with the matching entry. The trail invariant and
the refinement are proved from `StepsAreLegal` without looking at requests again.

**The answers.** What an answer says is about a version, and the history of versions is
the trail: version `v` was left by entry `v + 2`. That there is one entry per version
(`CountInv`) and that after OK this entry is the sender's (`OkInv`) need no condition. Under
`ShownVersions`, `AnswerInv` says of every call what else
stays true while its sender may look at the answer: after a
conflict the row is past his version; after 403 either the row is still at his version
and no rule lets him act, or that entry is somebody else's (`RightlyRefused`). A row
that has left a state the retry would need does not come back to it (`NoWayBack`),
which is why a retry of what was committed hears 409 and not 403.

**Applications.** A step of an edit is a stuttering step of the workflow, so `ASpec`
implies its `Spec` and its theorems carry over, with their condition. Buttons and
visibility are facts about the table and any row of its type.

**Documents.** An upload reads the highest version before it inserts. `NumbersInv` says
that the number it read may be taken since but leaves no gap, and that an inserted key
is nobody else's; so a commit extends a dense sequence by one. `SlotsInv` says that
only the owner's uploads get past the gate and that a removal is ahead only for an
upload that failed. `FilesInv`, for the bytes, needs the assumption `FreshBytes`: then
no two uploads share a file, and no removal, however late, takes a document's. Without
it `documents_bytes` shows the contrary.

**Accounts.** The promises that hold "in turn" are proved under the history variable
`overlap`, which only grows. Until two updates overlap there is at most one, of an
active admin's, that does not demote or deactivate himself (`AdminInv`); until two of one
account do, what an update has read is what the row says (`ReadInv`), so the changes it
records continue the chain (`TellingInv`); until a login does either, the account is as
the login read it and a revocation has seen every session (`LoginInv`). `LoginsInv`
counts: tokens and logins still unanswered are together no more than the log's.

**The portal.** `PInv` collects the types of the tab with six ideas: which components
are on the screen (`ScreenInv`); a picture of the row that has the row's version *is* the
row, since a row never returns to a version (`FitsInv`, from which an accepted action was
done to what its button was drawn for); data older than the tab's last news is being
fetched, marked, in error or was overtaken (`FreshInv`); an armed note is on the version it was
opened on, or the buttons were seen to move (`NotesInv`); until an answer was lost or a
click repeated, nothing was made before the call, and one thing after it (`OnceInv`);
until another tab edited, a form nobody typed into has the content of the row
(`UntypedInv`).

**Sign-in.** `SInv` says whose an entry of the cache is: whose data it holds, for whom its
fetch was sent, whose data is in the answer. Until something excepted has happened, both
entries are the signed-in person's or nobody's, and where somebody else may log in they
are nobody's (`OwnInv`): the way to the login page leads through the end of a logout,
which clears the cache, or through a refusal of a fetch sent without a session, before
which nothing was there.

**Paging.** While all stamps differ (two equal ones, once there, stay), the stack is the
trail of next cursors and their stamps descend (`StackInv`); what is on a page lies below
its own cursor and not below the next (`Between`); a page answered while its cursor was
in the filter has every row that belongs there (`Complete`), by counting the row too
many; so each row that was there all the while has been passed or is still ahead
(`SeenInv`), and on the last page nothing is ahead.

**Only model-checked.** Liveness (`EveryCallIsAnswered`, `ContentComesToRest`,
`EveryUploadIsAnswered`, `LoginLeadsIn`): the provers have neither `ENABLED` nor fairness.
The five refuted properties are counterexamples and need no proof.

## 5. Assumptions of the models

* One UPDATE, INSERT or DELETE statement is atomic; transactions are READ
  COMMITTED; a unique index and a row lock behave as PostgreSQL documents.
  `create()` of an application or account is one step, since no other transaction
  sees its row before the commit.
* Nothing is assumed of the versions clients send, but where `ShownVersions` is named: the
  run `workflow_races` (`MaxLead = 0`) and the twelve theorems marked in section 4.
* A request the role guard turns away touches nothing and is not tracked.
* The storage implementation is not in the repository; `put` and `remove` are
  atomic, and a `put` that failed over an existing file counts as done, as the
  code has it.
* Texts (notes, names, passwords, file names, MIME types) are left out. A file's
  path is its application and its bytes.
* Expiry of a session is a step that may happen at any time.
* @tanstack/react-query behaves as QueryCache says: `invalidateQueries` refetches what is
  shown, cancelling a refetch under way but not a first load, and marks the rest;
  automatic retries are part of the wait for an answer; `staleTime` may have passed at
  any time, `gcTime` whenever nobody shows an entry. An error stays beside the data during a
  refetch, and an entry in error is fetched again when it is shown again.
* In Portal a tab's person and his role are fixed: a change of role reaches a tab only through
  refusals, and the entry of the signed-in user is in SignIn. The entry of the document
  list is left out; it is fetched and invalidated like the timeline's.
* In SignIn the list stands for every entry that is somebody's. Another login of the same
  person keeps his name; a login with a wrong password changes nothing and is left out.
* An applicant's second page (after creation) waits for the calls of the first.

## 6. Not modelled, and the plan

Next, in this order:

1. Composition: `Documents` over `Workflow` itself in place of `MoveApplication`, and the
   proof that the states it sees move as `MoveApplication` says; `Accounts` in place of
   `ChangeRole`, and what a token that is still live says of the role a request runs with.
2. The rest of the portal: the list's filter and the admin's page over Accounts.

Left out for good: CSRF, throttling, cookies, headers and DTO validation (checks
of one request without shared state), logging, configuration, containers; of the
portal the badges and the admin's page, which lists accounts and sends the calls of
Accounts one at a time. The promise a table for idempotency keys
makes is nowhere kept, so there is no code of it to model. The append-only
privileges of the audit table are database configuration; the models reflect it in
that no action removes an entry.
