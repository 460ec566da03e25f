# Cylist, in TLA+

Models, model-checking runs and machine-checked proofs for Cylist, a project board that
people and coding agents share. The server is a FastAPI application over PostgreSQL
(`backend/app`); a command-line client with a presence daemon (`cli/`), an MCP server
(`mcp/`), a web frontend and an Android application talk to it.

What makes it hard is that the server keeps nothing in memory that matters. Every request is
one `READ COMMITTED` transaction on a connection of its own (`db.py`, `Database.session`),
several processes may run, and a rule that spans two rows holds only because somebody takes the
right lock and reads the right thing under it. The ORM adds its own trap: a session writes the
columns whose value differs from what *it loaded*, so a stale read turns into a missing write.
The modules therefore model requests as load, lock, commit, interleaved at each of those
points, and time (leases, back-offs, deadlines) as events that happen at some moment.

## Inventory

| Component | State it keeps | Operations | Interacts with | What is hard |
|---|---|---|---|---|
| Board, tasks, goals (`services/tasks`, `columns.py`, `goals.py`) | columns in order, task rows, checklist, goals | create, split, move, tick, cancel, assign, store, restore, delete; column create/reorder/delete; goal status | stacking, files (cold storage writes a CSV), activity trail | rules between a card and its sub-tasks, and between a goal and its cards, decided on rows of two tables; the last column is a position |
| Card stacking (`tasks/stacking.py`) | a sparse integer key per card | place, respace, leave | board | key collisions, gaps and ranges that run out |
| Blob store (`blobs.py`, `storage/`, `files.py`, `agents.py`) | blob rows, files and skills, bytes on disk | upload, delete, cascade, replace, sweep | files, skills, cold storage | no transaction covers the disk: upload against delete against sweep; crashes |
| Hooks and the courier (`hooks/`, `hook_delivery.py`) | marks on the activity trail, deliveries, breaker per hook, sends in flight per process | match, claim, send, record, redeliver, test | activity trail, outbox (wakes it) | a courier per process, crashes, lost answers, leases, breaker |
| Agent sessions and prompts (`agent_sessions.py`, `agent_reports.py`, `agent_prompts/`) | a row per conversation and card, prompts | report, walk off, ask, answer, withdraw, poll, drop, reap, dismiss | sockets, CLI daemon, MCP, push | rows read without a lock, prompts with; many ways for a prompt to close |
| Realtime (`realtime/`) and the browser's end of it (`useBoardSocket.ts`, `liveRefresh.ts`) | per-process registries of watchers, agents and waiters; a `LISTEN/NOTIFY` bus; what a page has pending | publish, nudge, coalesce, displace, long poll, resync; debounce, refetch | every service through the outbox | lost and late events between processes; hidden tabs; reads overtaken by changes |
| Outbox and trail (`activity/`, `db.py`) | activity rows, queued events | record, drain after commit | hooks, realtime, push | nothing told before the commit |
| Presence daemon (`cli/cylist_cli/presence`) | link, agent state, asks, back-off | hook events, link up/down, ticks | agent socket, the harness | reconnects, dropped asks, one daemon per session |
| People, roles, permissions, projects | members, roles, what each may do, accounts | save the list, give a role, create and delete roles, permit, archive, restore, open an account | everything, as authorisation | the last administrator, the last way in; checks made before a lock |
| Folder tree (`files.py`, `trees.py`) | folders | create, move, delete | blob store | concurrent moves, rings |
| Vault and resealing (`vault.py`, `reseal.py`, hooks' secrets) | rows sealed under a version of a keyring | create, change, reveal, delete; reseal; add and retire a key | hooks, which sign with one; deployments | an operator's run against edits, counts and restarts |
| Retention, push | pruned rows; a bounded queue | periodic passes | sessions; devices | a pass against a concurrent edit |
| Sign-in and tokens, templates, today, documents, read models | independent rows | CRUD | - | little that is concurrent |
| MCP server, CLI commands, frontend, Android | none that is shared | clients of the API | server | - |

`PROJECT.json` lists each of them with its status, and every hazard with its line and the
properties that would catch it.

### What makes each component correct

* **Board**: nothing opens under a finished card; an achieved goal has no open card;
  `finished_at` is written on the way into the last column and cleared on the way out.
* **Stacking**: keys are unique in a column and fit the stored integer, a card lands at the
  index asked for, and nothing else is reordered - by a respace least of all.
* **Blob store**: a row promises bytes that are there, whatever interleaves or dies; what no row
  promises goes in the end.
* **Courier**: a committed change is queued once for each hook that was there, is sent by one
  pass at a time, is called delivered only on a 2xx, and comes to an end.
* **Sessions**: a conversation is on one card, is shown while open, waits while somebody is being
  asked; what first closed a prompt is what happened to it; what everybody forgot is closed.
* **Presence**: a hook is told what the card says, whoever else ended its permission; it never
  waits for something nobody can answer any more, and hears an outcome whatever link was lost.
* **Realtime**: what a page shows may be old only while something on its way will replace it; a
  long poll is woken by the close it waits for.
* **Membership**: a save leaves the list it named and everybody's role; a project keeps an admin
  and the deployment a way in, unless the rule itself lets them go.
* **Vault**: through a rotation every secret opens to its value; a key reported as unused is; a
  run leaves behind only what it names, and ends.

## Modules

| Module | Models | Checked by |
|---|---|---|
| `Board` | board, tasks, goals, cold storage | `MCBoard`: `BoardLocks`, `BoardStaleMove` |
| `BoardProofs` | theorems about `Board`: the tables' shape, and the rules between two rows | TLAPS |
| `Stacking` | the order of cards in a column | `MCStacking`: `Stacking` |
| `StackingProofs` | theorems about `Stacking`: the arithmetic of keys, and the column's lock | TLAPS |
| `ContentStore` | what uploading a file or a skill promises, with no rows or digests shared in sight | as a property of `BlobStore` |
| `BlobStore` | blob rows, items, disk, sweep; implements `ContentStore` | `MCBlobStore`: `BlobStore` |
| `BlobStoreProofs` | theorems about `BlobStore`: bytes and the advisory lock, references and the row locks, and the refinement of `ContentStore` | TLAPS |
| `HookCourier` | hooks and their couriers | `MCHookCourier`: `Courier` |
| `HookCourierProofs` | theorems about `HookCourier`: marks, queue, lease, attempts | TLAPS |
| `AgentSessions` | one conversation and its prompts, request by request | `MCAgentSessions`: `Agents`, `AgentRaces` |
| `AgentSessionsProofs` | theorems about `AgentSessions`: the locks on prompts, and one request at a time | TLAPS |
| `Presence` | a permission from harness to card and back: daemon, sockets, hub, bus and sessions composed | `MCPresence`: `Presence` |
| `PresenceProofs` | theorems about `Presence`: copies of an answer agree with the card, and a wait followed there and back | TLAPS |
| `LiveBoard` | a change from commit to page: outbox, hub, bus, socket, browser, long poll composed | `MCLiveBoard`: `LiveBoard`, `LiveHooks` |
| `LiveBoardProofs` | theorems about `LiveBoard`: news handed on from commit to page and poll | TLAPS |
| `Membership` | members, roles, what they permit, archivings and accounts | `MCMembership`: `Membership` |
| `SecretStore` | what keeping a secret promises, with no keys in sight | as a property of `VaultReseal` |
| `VaultReseal` | secrets under a rotating keyring; implements `SecretStore` | `MCVaultReseal`: `Vault` |
| `WorkspaceProofs` | theorems about `VaultReseal`, the refinement of `SecretStore` among them, and about `Membership`: the project's lock, and what a request was allowed on | TLAPS |

Each `MC` module adds the symmetry sets, and definitions a `.cfg` cannot spell. Definitions whose
comment begins "A mutant" are bugs that code like this could have: replacing the definition that
follows by one of them must break the property `PROJECT.json` names beside it. They are in no
behaviour of the specification.

### Board

A request `r` is a record in `req[r]`: the operation, the row it is `on`, where it goes `to`, the
rows `seen` when it loaded them, the locks it `holds`, and whether it is `ready` to commit. `Load`
stands for the dependency that resolves the URL to ORM objects, `Take` for `lock_row` followed by
the read under the lock, and each commit action for the rest of the service function, its flush
and its commit. `Merged` is the ORM's UPDATE: fields the request changed, over what is committed by
then. `Constraints` are the CHECK constraints of `models/task.py`; a commit that breaks one cannot
happen, and the request aborts. Columns have an order and nothing else; a card's place in a column
is `Stacking`'s subject; outcomes, sub-stages, numbering and wording are left out, and of templates
all but the column a new card lands in.

That column may be any, and so the last: a template that names only the last column has its cards
created there (`lifecycle.py:87`, `templates.py:181-191`), with no `finished_at`
(`backend/tests/test_outcomes.py:316-319`, `backend/tests/test_templates.py:510-522`). So being in the
last column and being finished are two things, and the properties keep them apart.
`FinishedFollowsPlace` says that `finished_at` follows every move, restore and storing, and that a
card may be done without it only while it stays where it was created. `NothingOpensUnderFinished` is
about finished cards, since `refuse_open_under_finished` asks `finished_at` alone
(`parentage.py:64`): a sub-task may be split out under a card that was created in the last column, where
the comment at `parentage.py:3` says that "A card in the board's last column has nothing open under it."
Cold storage then gives that card a `finished_at` (`cold_storage.py:133-146`) and takes it with its
open sub-task; the property names this one way round the rule, and says that the card stays stored
while it is so, as a restore asks about open work.

Two constants say how much of the real interleaving a run allows. With `RowsSerial = TRUE`, two
requests in flight never write the same row; `BoardLocks` checks the rules under it, and
`BoardStaleMove` shows what the code does without it. With `EndMovesIdle = TRUE`, the last place
passes between columns with no card in either, while no request runs. Without it a reorder hands
the last place to a column with cards in it, nothing asks about their open work, and cold storage
takes a card with an open sub-task, which `lifecycle.py:202-203` calls "how work is lost". With
`RowsSerial = FALSE`, TLC also finds `NoOpenCardOnAchieved` violated, by an assignment of a goal and
a move that each saw the card without the other's change: the staleness of `BoardStaleMove` again.

A tick box opened on a finished card is not a violation of anything: the tests pin that it is
allowed (`backend/tests/test_subtasks.py:420`), which is why `box` gates the move into the last
column and no property speaks of it afterwards.

### Stacking

`key` is a card's position; `Slot` is `stacking.slot` with the column's row lock held until the
commit; `Respaced` is `respace`; `Commit` writes the card and the respaced column at once and
requires the unique constraint. `above`, in the request's record, is a history variable used by
`ChosenPlaceHolds` and `ChosenWhereAsked`.

The constants are scaled down: `GAP` 2 for 65,536 and keys in -4..8 for the 32-bit range, so that
one placement in a gap exhausts it and a few placements at the top or the bottom reach the end of
the range. The arithmetic is the code's, in the same order. The one thing assumed of sizes is that
there are fewer cards than keys (`Cardinality(Cards) < HIGHEST`, of which the code has two thousand
million): otherwise the step of a spread column is nought.

A placement that finds no room even after a spread fails with an error the code's comment takes to
be out of reach: "a freshly spread column has room between every pair of keys and at both ends until
it holds hundreds of millions of cards" (`stacking.py:91-92`). It is not. The step shrinks to fit, and
`_between` goes on asking for a whole `GAP` below the last card. What is true is proved in
`StackingProofs`: with (n + 1) * GAP within the range there is room (`RoomIsMade`); and at the code's own
constants a column of 32,768 cards, spread 65,534 apart, has its last key at 2,147,418,112, a gap more
is one past `HIGHEST`, and the next card at the bottom, which is where new ones go, is refused
(`NoRoomAtTheBottom`). No run is spent on it.

### BlobStore

One digest is one content. `tx[p]` is a request: an upload goes staged, locked (the digest's
shared advisory lock), missed or claimed (insert, or find and share-lock the row), published (bytes
in place), looked (for a skill it replaces), referred, collected, committed; a delete goes loaded,
deleted, collected, committed. `doomed` are the rows it will delete. `sweep[w]` is one pass: it
lists the disk, reads the rows, and for each digest left tries the exclusive advisory lock, looks
again and removes. Locks are not variables of their own: `Shares`, `Sweeping`, `Claims` and
`Decides` read them off where each transaction stands, which is what makes them go with it in
`Abort`. `Abort` is also a crash: the disk keeps what was published, everything else is lost.
`ClearIncoming` may take any staged file, since the margin it judges by is "a margin, not the
safety" (`config.py:212`).

A folder's or a project's delete reads the ids of the blobs under it and then cascades. A file
uploaded into it between the two goes with the cascade, its blob is not collected, and the row stays
with no file or skill that refers to it; a sweep removes only bytes no row promises, so these stay
for good. `OrphansAreSwept` does not speak of them.

`ContentStore` is the abstract specification: a file or a skill reads back as the bytes last uploaded
under its name, until it is replaced or deleted. A request asks for one item to have a content or for
any number of them to go, and what it asked for happens all at once or not at all. `Content(i)` is what
a download gives: the bytes its row names by their digest, `Lost` if either is gone (the 404 of
`routers/files.py:549`). `KeepsContents` says that every step of rows, locks, disk and sweep is a
request's asking, its commit or its end, and otherwise changes no item. A download reads in one step;
one that has read its row when the item is deleted and swept answers 404, as if asked later.

### HookCourier

`change` and `heard` say what was marked and which hooks were there, with a hook's `begun` stage for
one whose transaction was open: its `created_at` is the start of its transaction. `LockBatch` and `CommitBatch` are
`match_pending`; `Claim`, `Answer`, `Load` and `Write` are `_claim`, `_send`, and the two halves of
the recording in `_deliver`; `Written` is the ORM's UPDATE again, which is what makes a redelivery asked for during a recording go wrong.
A row's `next` is due, leased, backed off (`later`) or nothing. `copies` and `redone` are
history variables.

`LeaseEnds` requires that nobody is sending or recording the delivery: `LEASE` (2 minutes) is far
longer than `TOTAL_TIMEOUT` (20 seconds) and the statement timeout together. `PauseEnds` requires
that nothing sent to the hook before is in the air, since `BREAKER_PAUSE` is a minute. Both are
assumptions about clocks and schedulers, and the only places where durations matter.

A redelivery (`routers/hooks.py:476`) that reads a row still pending and whose write lands after the
recording of that row's last send writes only a time: the row is then delivered, or failed, and
has a time to try, which the courier never looks at. The request answered that the delivery was
queued, and it is not sent. What a process has in flight is known to that process only, so two
couriers may each send a probe to a hook whose pause has just ended, where `models/hook.py:163-164`
speaks of one.

### AgentSessions

`row[c]` is the conversation's row on card `c`; `prompt[q]` a question or a permission, with `late`
for a deadline passed and `dropped` for a tool that stopped polling. A request keeps the rows it has
`seen`, and the prompts it has `held` locked. `Merged` is the ORM's UPDATE, `Sound` the CHECK
constraint `done_has_ended_at`. `BeginReport`, `LockReport`, `FinishReport` are `upsert` with
`settle_for_report` before it and the withdrawal of the prompts of whatever ended after it;
`BeginClose`, `LockClose`, `FinishClose` are an answer, a withdrawal and a poll;
`BeginEnd`, `LockEnd`, `FinishEnd` a socket's end and the reaper's pass with its sweep of prompts.
Waiting reasons of prompts are merged into one.

Rows are not locked by the code, so `OneCardAtATime`, `OpenIsShown` and `AskedIsWaiting` are checked
for one request at a time (`Agents`), as one harness normally sends them. With two at once TLC
finds each of them violated: a dismissal that commits between a report's read and its write survives
it, so that the session is open and not shown; two reports for two cards leave two open rows; and a
prompt asked while the session's `done` is being written stays open on an ended row until the
reaper's sweep.
`FirstCloseWins`, which the prompt locks are for, is checked with requests interleaved
(`AgentRaces`).

### Presence

Follows one permission. Its hook waits in a thread of the daemon (`hook`, with the inbox of
`_Answers`); `events` is the queue to the main thread, whose `machine` is `machine.py`'s, stepped by
`OnState`, `OnAsk`, `OnDrop` and `OnRan`. `link[c]` is the c-th socket, seen from both ends: the
daemon may lose it before or after the server lets go, and by then another may be open, to another
process. `up[c]` and `down[c]` are what it carries. `agent[a]` is `_agents` of process `a`,
`news[a][b]` the bus. `Register` and `HearNews` displace the older socket, here or there; `LetGo`
and `EndRow` are the two halves of a handler's end, since `_end_row` awaits after the hub has
been told, which is how an older socket comes to end the row a newer one is using. A server
transaction is one step here: `AgentSessions` takes them apart. The row and its prompts are on one
card; a tool's start and a turn's end are both "not waiting for a permission", which is all that
`settle_for_report` tells apart; whether a report says anything new besides its level is the choice
`noted`. The first socket goes to `Home`, which loses nothing, as processes are alike.

Assumed: events on the bus are late but not lost, loss being `LiveBoard`'s subject; a prompt
expires on the server (590 s) only after its hook gave up (580 s). Left out: the feed, rebinding,
the goodbye, the owner's death, idling, the daemon's crash, and an end of the row that fails, which
the reaper makes good.

The step an older socket takes to end the row is reachable, and the properties hold all the same:
the row's prompts are withdrawn, and the withdrawal reaches the hook through whichever socket is
there. What TLC also shows, and no property forbids: a permission refused in the terminal while no
socket is up is offered again when one is (`machine.py` keeps it in `asking`), so the card asks for
something long settled until the hook lets go.

### LiveBoard

One project, one page on it, one open prompt. `Change` is a commit, and makes what is shown, and
what is being read, old; `Publish` drains the outbox to the process's own hub and its backlog;
`Send` and `Hear` are the line to the others. `line[p]` is "first" until a process listens for
the first time, since only a reconnection rings everything (`Bus.run`). A nudge is the set of
kinds it names or `Anything`, `Merge` joins them, `watcher` is what waits for the socket, `wire`
what is on it. The page is `useProjectSocket`: what it has `pending`, whether it `missed` something
while hidden, and its debounce `timer`; `keysToRefresh` is `ListsOf`. A read is taken apart, since a
change may fall between its being answered and its being shown. A long poll is registered and looks
in one step (a close between the two is read, and would wake it as well), gives back its connection,
then waits.

`lost` collects the kinds of event that a process may never hear of and that no resync makes good,
and both invariants are waived for it: an event dropped from a full backlog, one that was being sent
when the line went, one that a dying process had not sent, and one sent before another
process first listened. In each case "a dropped event costs a refetch that the next event will
trigger anyway" (`hub.py:28`), and a long poll its wait. What is left is the promise as the code
keeps it, from every other interleaving. Abstracted: the order of a watcher's two nudges; `ready` and
the registration of the watcher are one step; the cap on nudges for different cards' feeds; reads
that fail.

### Membership

A request checks what its caller may do (`CheckMembers`, `CheckRole`, `CheckManage`,
`CheckArchive`, `CheckAccount`), on rows read at one moment, and writes in one commit; saving the list and
permitting lock the project's row in between, and read under the lock what they diff against. The
others take no lock, but record an activity entry that references the project, and so wait for
whoever holds it (`Unlocked`). Callers are all people, with and without the admin scope, and the
bootstrap session. `permits` keeps the one permission that matters here, `people`. An account is
opened in two steps, since whether somebody may have one is asked before their password is hashed
(`people.py:415-427`); accepting an invitation is one conditional UPDATE (`AcceptInvite`). `Agent` is
the machine, which never signs in. `TeamInit` is any state a project can be in with its creator still
its admin, or one the bootstrap session has just made, with the machine on it in no role
(`projects.py:88-91`), whom the first save of the list may then promote.
The names every module has begin with `Team` here, since `WorkspaceProofs` extends this module and
`VaultReseal`.

Two history variables say which requests were overtaken: `adminsMoved` has those in flight while
another committed a change of who the admins are, `entriesMoved` those in flight while another
committed a change of passwords or archivings. `AdminRemains` exempts the first and `WayInRemains` the
second, because the code does not guard them, and TLC finds the counterexample in a few steps when the
exemption is removed. Two demotions at once each see the other admin as the one who remains
(`ensure_an_admin_remains` locks nothing). Two archivings lock everybody out in the same way, and so
does the first account if it is opened for somebody who is archived while the password is hashed: an
account exists, so the bootstrap password is closed, and its holder may not sign in. What the rule
itself lets go is in `AdminRemains` too: an archiving may take the last admin, and a save of the list
that takes the last one off promotes nobody when everybody left has a role. Giving a sole member
another role is not exempt: `ensure_an_admin_remains` refuses it.

Reading it against `lock_row`'s "Lock the project first": `set_member_role` updates its member row
and then records its activity, which needs the project `set_members` has locked before it
deletes member rows. The two can deadlock; the database picks one, which is `Abort` here.

### SecretStore and VaultReseal

`SecretStore` is the abstract specification: a secret has a value until somebody gives it another,
and a request that is refused or cut short changes nothing. `VaultReseal` implements it, with keys:
`row` is what a row of either table is sealed under and the version beside it, and `Value`
is what it opens to with the keys held now. `KeepsSecrets` says that every step of `VaultReseal` is one
of `SecretStore` or changes nothing there, so that no rewrite, count, restart, added or retired
key makes a secret unreadable, brings an old value back, or changes another's.

A request loads its row, writes it, which waits for the row's lock, and commits; `VersionWritten` is the
ORM, which leaves out a column whose value is the one loaded. The operator's run takes `FOR UPDATE`
row by row in order of id, looking again at a row it waited for, rewrites a full or last
batch in one commit, moves its cursor, goes to the second table, and counts both in two statements
that see different moments. `key = 0` is a row whose ciphertext was altered: the run cannot open
it and has to get past it. The old container is gone before the new one serves, so one keyring is in
use at a time: that is how the deployment is described, and with two at once a request could seal
under the key just reported as unused. Ids are never used again.

## Runs

| Run | Bounds | What it shows |
|---|---|---|
| `board_locks` | 1 card, 1 sub-task, 1 goal, 3 columns, 2 requests | nothing opens under a finished card or on an achieved goal, and `finished_at` follows a card born in any column, at every interleaving |
| `stacking` | 3 cards, 1 column, 2 placements, 13 keys | keys are free, in range and where asked; order is kept through a respace |
| `blobs` | 1 content, 1 file, 1 skill, 2 requests, 1 sweep, 3 rows | rows have bytes, items read as last uploaded (`ContentStore`), orphaned bytes go |
| `courier` | 2 changes, 1 hook, 2 couriers, 2 attempts, 1 redelivery | queued once, never lost, one send at a time, every delivery ends |
| `agents` | 2 cards, 1 question, 1 permission, 1 request at a time | one card, shown, waiting while asked; the reaper closes the rest |
| `agent_races` | 1 card, 1 question, 1 permission, 2 requests | the first close stands |
| `vault` | 2 vault rows, 1 hook, 2 values, 1 request, batches of 2, 2 keys | a reported key is unused, nothing readable is left, secrets are kept, the run ends |
| `live_board` | 2 processes, 1 tab, 1 long poll, backlog 1, 2 changes of 3 kinds, 1 fault | old cards are coming, a close wakes its polls |
| `presence` | 1 permission, 1 answer, 2 processes, 2 sockets, 1 report (of work, or of a tool that ran), 1 fault | told is recorded, waiting can be answered, an outcome is heard |
| `membership` | 2 people and the machine, 1 role, 2 requests at once | a save is as sent; the last admin and the last way in go only by rule or by race |
| `board_stale_move` | as `board_locks`, same row written by both | violated: a card in an earlier column with `finished_at` set |
| `live_hooks` | 1 process, 1 tab on the hooks, 2 changes, no fault | violated: old hooks shown for good after a nudge that names nothing |

**Why the bounds are enough to be interesting.** Every rule checked is between two rows, two
processes or two ends of a line, and every bug of the kinds listed as mutants needs two actors: two
requests suffice to interleave a check with the change it should have seen. A third adds waiting,
not new reads. The board has three columns so that a card can move between two that are not last.
Three cards in a column give a card between two neighbours and one that leaves. Two attempts give a
first, a last, and none after. Two cards let a conversation walk off and come back. Two sockets are
the old and the new, to one process or to two; the one fault comes on top of the ends the protocol
itself brings about. A backlog of one is full at the second change, and with a `CHANGED_MAX` of zero
two things joined in one nudge already name nothing. A batch of two over tables of two rows and of one is full in one and
short in the other, and two keys are one rotation. Two requests on members start from every shape a
project's list, roles and grants can have, which is what a request before them would have led to; three
requests, two at once, pass as well, in more time than a run should take. Symmetry (of requests, cards, columns and processes, people and
roles) is used in runs that check safety only.

Bounds in guards: `MaxRows` (blob rows ever inserted), `MaxRedeliveries` (and on the deliveries in
`Resendable` only), `MaxKey`, `MaxRequests`, `MaxLinks`, `MaxReports` (and only of the levels in
`Reported`), `MaxChanges`, `MaxHides`,
`MaxFaults`, and the failure count of a hook, which stops at the threshold because the doubling of
the pause is not modelled. `CHECK_DEADLOCK FALSE` in every run but `vault`, whose system never
stops: the others may come to rest, with every card deleted, every row id used, every change
delivered, every request made or nothing left to report.

## Fairness

* `BlobStore`: a request that runs takes its next step or is aborted (`WF`), since a statement that
  waits is cancelled by its timeout. A sweep's steps are weakly fair: it is a loop that catches
  what a pass raises. Passes do not fail for ever. Nothing makes anybody upload or delete, so a
  content whose uploads never stop is exempt from `OrphansAreSwept`.
* `HookCourier`: sending, recording, leases, back-offs and pauses are weakly fair. Matching and
  claiming, by some courier or other, are strongly fair: rows locked by another courier are skipped,
  so the turn is enabled again and again and not continuously. From some point on no process crashes and no pass or recording fails:
  without that no retry is worth anything.
* `AgentSessions`: a request that runs ends (`WF`). The reaper's pass is strongly fair, as its turn
  comes between others' requests, and it does not fail for ever. `OverdueCloses` is checked with one
  request at a time: a pass leaves out the prompts somebody has locked. Nobody has to
  report, ask, answer or poll.

* `VaultReseal`: a run keeps going until it ends or the container does. Taking the next row's lock
  is strongly fair: writers come and go, and the database queues for a row's lock those who wait.
  A request that has written commits or fails. No request, restart or key has to come.
* `Presence`: threads, main loop, handlers and bus take their turns, a server or a daemon notices
  in the end that the other side is gone (keepalives), and the daemon redials. Nobody has to answer,
  no tool has to run, no hook has to give up. `OutcomeIsHeard` is waived once the last socket the
  bound allows is lost.
* `LiveBoard`, in `live_hooks`: events are carried, sockets opened, reads answered, a hidden tab
  shown again. The counterexample needs nothing unfair: everything the fairness asks for
  happens, and no step it leaves optional would help.

Nothing is fair in the runs that check safety only.

## Proofs

`BlobStoreProofs` proves, for any sets of contents, files, skills, requests and sweepers and any
`MaxRows`, from `BlobConstants` alone:

* `TypeCorrect`: `Spec => []TypeOK`;
* `RowsAlwaysHaveBytes`: `Spec => []RowsHaveBytes`;
* `PublishedAlwaysStays`: `Spec => []PublishedStays`.

None of these is inductive. `RowsHaveBytes` fails when a request commits a row whose bytes are not
there, so it needs `PublishedStays`; that fails when a sweep removes them, so it needs the
advisory lock to exclude the two (`Guarded`), the sweep to have seen no row while it holds the lock
(`Unpromised`), and that the requests which hold a row's id keep
the digest locked (`Uploads`). `IInv` is their conjunction with `TypeOK`; `Invariance` proves it, with
one lemma per group of actions and one step per action.

Its second half proves, with `IInv` known to hold:

* `ItemsAlwaysHaveRows`: `Spec => []ItemsHaveRows`;
* `ClaimedRowAlwaysStays`: `Spec => []ClaimedRowStays`.

These rest on the row locks. `ItemsHaveRows` fails when a commit deletes a row some item refers to, or
refers to a row that is gone. Against the first, what a request is to delete is referred to by no item
it leaves alone, and stays so because it has locked it and nobody else has claimed it (`Decided`).
Against the second, a claimed row stays. A new row is nobody's but its writer's because its id was never
given out (`Given`) and because the unique index lets one session at a time write a content
(`Alone`). `RInv` is their conjunction; `ReferrersInvariance` proves it.

Its third part proves `ContentsAreKept`: `Spec => KeepsContents`, the refinement of `ContentStore`. The
digest names the bytes and the row names the digest, so what is missing is that ids do not get mixed
up: no two rows, committed or being written, share one, and who has claimed a row has that of its own
content (`CInv`, in `NamesInvariance`). Then `ReadsAs` says what an item reads as, `SameContent` that no
sweep, publication or rollback shows, and `CommitGives` what a commit does to every item: its own read
as it was asked, and the others as before, since the row they refer to is neither doomed nor renamed.
Staging and loading are `Ask`, a commit is `Give`, a rollback `Drop`, all the rest nothing. One content
keeps the run small; with two, and 2 rows, TLC agrees to all but the liveness, and the theorem is for any
number.

`WorkspaceProofs` proves of `VaultReseal`, for any tables of positive row ids, any values and requests, any batch
size and any number of keys, from `ResealConstants` alone:

* `TypeCorrect`: `Spec => [](TypeOK /\ KeysInv)`, where `KeysInv` says that there is a newest key, and
  that the version beside every held secret is that of a key the deployment has;
* `RetirableAlwaysUnused`: `Spec => []RetirableIsUnused`;
* `NothingIsLeftBehind`: `Spec => []NothingLeftBehind`;
* `SecretsAreKept`: `Spec => KeepsSecrets`, the refinement of `SecretStore`.

The pivot is that whatever is written is written under the newest key. A request that read the
newest version does not write the column, so its row must still be on that version when it commits:
no step moves a row off the newest key, a deployment that adds a newer one ends the request, and
the row lock keeps others off (`RequestInv`, `WritesNewest`). Then a key other than the newest never
gains a row, and a count stays true after it is taken (`ReportInv`); old rows are only ever those
the run can still see, so no old row lies unlocked between the cursor and the last row of a batch
(`BatchInv`); and sealing a locked row again keeps its value, since it is what was read (`LockedInv`).
For the refinement, a commit is `Give`, loading or creating is `Ask`, a failure or a restart is `Drop`,
and everything the run and the keyring do leaves what secrets open to alone (`KeysInv`: a key that
rows are under is never taken out). `IInv` is the conjunction; it was first searched with TLC.

`HookCourierProofs` proves, for any changes, hooks, couriers and limits, from the module's
assumptions alone: `TypeCorrect` (`TypeOK`), `NothingIsLost` (`NothingLost`), `QueuesOnce`
(`QueuedOnce`), `SendsOnceAtATime` (`SentOnceAtATime`) and `AttemptsAreBounded`, a bound no run
states: the count recorded on a delivery's row never passes `MAX_ATTEMPTS` and one for each redelivery
(a send that was never recorded, its courier having died, is in no count). `QueuedOnce` is
not inductive: a batch could hold a change that is matched already, or that another holds
(`BatchInv`), or a change's copies be counted before it is matched (`QueueInv`).
`SentOnceAtATime` needs that what is being sent is leased or gone (`LeaseInv`), and `NothingLost`
that a hook a change heard of does not go back to not being there (`StageInv`). The typing of the
count is the hard part, since a recording counts on a row it read before others recorded: what is
bounded is what the row's count can still become, over the sends in the air and the redelivery asked
for (`Chances`), and only asking again raises that.

`AgentSessionsProofs` proves, for any cards, prompts and requests in any interleaving, `TypeCorrect`
(`TypeOK`) and `FirstClose` (`FirstCloseWins`, an action property). The invariant behind it is the
lock: a prompt somebody holds is open, and held by nobody else (`LockInv`). `OneCard`, `OpenShown`
and `AskedWaiting` are proved under `Alone`, that one request is in flight at a time: the same
restriction the run `agents` makes, and for the same reason, since without it TLC violates each.
They rest on `SerialInv`, which says of the request in flight what it has read and will write.

`BoardProofs` proves `TypeCorrect` (`TypeOK`) for any interleaving: a board keeps two columns and no
column twice, and every live row its CHECK constraints. Under `RowsSerial` and `EndMovesIdle`, the two
restrictions of `board_locks`, it proves the rules for any board, cards, goals and number of
requests: `FinishedFollows` (`FinishedFollowsPlace`), `FinishedIsDone` (`FinishedMeansDone`),
`FinishedStaysClosed` (`NothingOpensUnderFinished`) and `AchievedIsClosed` (`NoOpenCardOnAchieved`).
`board_stale_move` shows the second fail without them. Each
rule is broken by a commit whose request looked before another committed, so the invariant says
what a request in flight may still believe (`Kept`): rows it loaded have not changed but for a
goal deleted under them (`AsLoaded`), a goal or a card it locked is still as it found it
(`GoalKept`, `ParentKept`, `AchievedKept`), a card bound for the last column still has no open sub-task
(`ArrivalKept`). It is kept because requests hold different locks and write different rows (`Apart`).
`RulesStand` is the lemma all actions go through: a commit that writes some rows, takes none of them where a
rule is broken, and touches nothing another believes, keeps everything (`Harmless`).

`WorkspaceProofs` also proves of `Membership`, for any people, roles and requests, from
`MembershipConstants` alone, `TeamTypeCorrect` (`TeamTypeOK`) and the three action properties:
`SavesAsSent` (`SavedAsSent`), `AdminStays` (`AdminRemains`), `WayInStays` (`WayInRemains`). The invariant is two facts: the project's lock has one
holder, and while it is a save of the list the list is the one it read (`Locking`); and what a
request found of the admins (`AdminSound`), or of who can sign in (`EntrySound`), still holds unless it
has been overtaken in that (`StillSound`). From the
first, a diff is against the list as it is; from the second, the admin who was to remain when a
role was taken, or the way in when somebody was archived, is there at the commit. `SaveLeaves` is
the lemma on the diff and the vacancy that both properties of a save cite.

`LiveBoardProofs` proves, for any processes, pages, polls, backlog and bounds on what fails,
`TypeCorrect` (`TypeOK`), `ClosesWake` (`CloseWakesPolls`) and, where the page shows cards,
`OldCardsAreReplaced` (`OldCardsAreComing`). `OldCardsAreComing` is not inductive in three places. A page
that is to settle may have only hooks to read, so what it remembers must name the cards
(`Underway`); a read that has gone old is shown later, so it counts as old from then on (`ComingAt`);
and a message must not come down a socket that is not there, nor the feed's nudge name anything
(`WiredAt`). For polls the promise starts at the read, not at the wait (`PollAt`). The proof follows
the news hand over hand: one lemma for each step of the line (`PublishCarries`, `SendCarries`,
`CrashCarries` and so on) says that a process about to hear of something still is or rings it in
this step, `NudgeSays` and `ResyncSays` what ringing does, and one lemma for each step of a page
that it lets nothing go.

`PresenceProofs` proves, for any prompts, answers, processes and number of sockets, from
`PresenceConstants` alone: `TypeCorrect` (`TypeOK`), `TellsWhatIsRecorded` (`ToldIsRecorded`) and
`NoWaitIsLost` (`WaitingCanBeAnswered`). The run has one prompt and two sockets; here several
permissions wait at once and sockets displace one another without end. `ToldIsRecorded` needs that every
copy of an answer agrees with the card, on a socket, on the bus and in an inbox (`Recorded`): an
answer never changes, as only an open prompt closes. `WaitingCanBeAnswered` speaks of quiet states
only, so the invariant says where a wait is in all the others (`ComingInv`): its ask is queued for the
machine; or the machine holds the prompt and, if a link is live, the link's server has yet to read
it, has it open, has replied, or is about to hear of its closing over the bus. That follows a
prompt across the loss of a socket, since a new one is sent all that the machine still holds. It
rests on two facts more. A socket that is served and not displaced is the one its process's hub
holds, so no closing misses it (`LinkInv`). And what makes the machine let go of a prompt leaves no
hook waiting for it (`QueueInv`): a drop is put by a hook that is done, a tool that ran has
withdrawn whoever waited before it, and a prompt is asked once. `HookStep`, `ClosingStep` and
`RestStep` are what the actions go through: a step of the hooks, one that closes prompts, one that
closes nothing. The constants' assumptions are that prompts are finitely many, as a process's
threads are, for the order in which closings are posted; that the first socket has somewhere to go; and
that the values standing for no link and no outcome are neither.

`StackingProofs` proves all that `Stacking`'s run checks, for any cards, columns and placements and any
gap and range of keys that `StackingConstants` allows: `TypeCorrect` (`TypeOK`), `KeyStaysFree`
(`ChosenKeyStaysFree`), `PlaceHolds` (`ChosenPlaceHolds`), and the action properties `PlacedWhereAsked`
(`ChosenWhereAsked`) and `OrderIsKept` (`OthersKeepTheirOrder`); besides, `KeysAreUnique`, and `RoomIsMade` and
`NoRoomAtTheBottom` of a full column, which no run states. The first half is arithmetic. Distinct keys make the
ranks of a stack exactly 0..n-1 (`RankOnto`, by the pigeonhole principle), so the neighbours an index
names exist and nobody stands between them; a key chosen there is free and has the right number
above it (`ChosenKey`); a column spread out keeps its order with a step between any two and at both ends
(`RespacedKeepsOrder`), and has room wherever it is asked for when the step is a whole gap
(`RoomWhenApart`). The second half is the lock. What a placement has chosen (`Settled`) depends on the
cards of its column only, and while it holds the column that can only lose cards, and none the
placement has rewritten (`StaysSettled`): another placement writes to another column, brings its
card there, and its card is a different one (`OwnCards`). A column is spread out whole or not at all,
which is why a commit leaves keys unique and in order.

**What stays with TLC, and why.** Liveness (`OrphansAreSwept`, `EveryDeliveryEnds`, `OverdueCloses`,
`ResealEnds`, `OutcomeIsHeard`) and whatever needs ENABLED are beyond the prover. Every
other property of the passing runs is a theorem. The
strengthened invariants were each checked with TLC on the bounds of their run before they were proved.

## Not modelled

* The folder tree, retention and push: listed with their hazards in `PROJECT.json`, and planned
  below. They share little with what is modelled: tree moves lock nothing and check a tree as read.
* The presence daemon's singleton lock, its owner's death, the feed, and rebinding.
* Outcomes and sub-stages of columns, templates, column rules, clearances, invitations, tokens.
* Sign-in and throttling: counters of one process. Clients, read models, documents and templates
  have no protocol of their own.
* Lock-order deadlocks between two requests (two answers to prompts of one row; a role change and
  a save of the members; a project's cascade and a reseal) are covered as `Abort`, or a request
  that fails: the database breaks them.

## Plan

1. `FolderTree`: concurrent moves, rings and depth. `Retention` with `AgentSessions`.
2. Abstract specifications for the courier (an at-least-once queue) and a prompt (settled once), and
   their refinements.
