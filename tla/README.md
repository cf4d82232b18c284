# A verification of the open-resouce gateway

The repository is a platform for publishing open-source projects with their
documents: a Go gateway (`services/gateway`) in front of MySQL, Redis and
Elasticsearch, and a React application (`apps/web`). Authors write a project
and a tree of documents, alone or together in a collaborative editor; admins
review projects before they are public; readers search, read, comment, reply,
like, follow and report.

This directory holds TLA+ modules that model the parts of it where things
happen at the same time, TLC configurations that check them on small
instances, and proofs for TLAPS. File names below are relative to
`src/services/gateway/` unless they say otherwise. Every store exists twice, in
memory (demo mode and tests) and on MySQL (production). The models are of the
MySQL store; where the memory store makes every call one step under its lock it
is the specification the MySQL store is held to (`AccountStore`,
`ProjectCatalog`), and `DocumentTree` is a model of the memory store itself.

## 1. Inventory

| Component | State it keeps | Operations | Hard because |
|---|---|---|---|
| Document revisions (`document_revisions.go`, handlers in `author_documents.go`, `collaboration.go`) | body, `version`, `updated_by` of a document; `project_document_revisions` | create, PATCH, collaborative snapshot, restore; each then records a revision (amend or append), prunes, writes the redundant columns | every call is a statement of its own; handlers of one document interleave; calls fail halfway |
| Project documents (`project_documents.go`) | tree of documents with slugs; aliases of former slugs | create, update, move, delete, resolve a slug | validation on a snapshot, write on the rows as they are; soft deletion under a unique key |
| Collaboration access (`collaboration.go`) | roles; rooms of the hub | add, change, remove a collaborator; WebSocket handshake, join, leave; disconnect a user | role check before join; disconnect comes after the role is committed, if the handler gets that far, and lists and closes in steps |
| Collaborative editing (`collaboration.go`, `CollaborativeMarkdownEditor.tsx`) | Yjs document in each browser; snapshot; published Markdown | edit, broadcast, save timer, snapshot and Markdown writes | reordering, lost messages while the editor loads, two writes per save |
| Project life cycle and review (`managed_projects.go`, `admin_console.go`) | status, texts, review events | create, update, submit, delete, review, take down | several admins on stale pages; documents change while the project waits |
| Search index (`search.go`, `search_api.go`, `background_tasks.go`) | records in Elasticsearch | index, remove, clear, fill, two rebuilds | unordered best-effort goroutines, each with the status its request read |
| Comments, replies, likes (`comments*.go`, `comment_likes.go`, `admin_comments.go`) | comments, likes | create, reply, delete, edit, resolve, like, hide, restore | reply against deletion; decisions on a list read before |
| Experience (`experience.go`, `auth.go`) | ledger, sum per user | idempotent award in a goroutine | repeats, lost goroutines |
| User bans (`user_bans.go`) | banned users | ban, unban, gate before writes | the gate is passed before the write and opens when the lookup fails |
| Live comments (`comments_events.go`, `App.tsx`) | hub with a channel per reader; list shown on each page | subscribe, cancel, publish, refresh, apply an answer | full channels, close against send, answers out of order, changes nobody announces |
| Startup and shutdown (`main.go`, `background_tasks.go`) | listener, requests, background tasks | signal, shut down, drain, exit | exit before the drain |
| Accounts (`auth.go`, `oauth.go`, `password_reset_email.go`, `auth_redis.go`) | users, sessions, reset tokens, attempt limiter | register, log in, change and reset the password, revoke sessions | login against password change; tokens used twice; opposite lock orders |
| Reports (`content_reports.go`) | reports with a status | report, decide | check, then insert |
| API keys and open API (`api_keys.go`, `open_api.go`) | keys; what agents store | issue, revoke, use | count, then insert; revocation and ban against use |
| Admin console and audit (`admin_console.go`, `admin_audit.go`, `admin_stats.go`) | audit entries | review, take down, ban, decide, revoke; the entry after the deed | the entry is best effort |
| Code browser and object storage (`code_browse.go`, `object_storage.go`) | packages; a cache of parsed archives | upload, list, open, download | a shared cache filled outside its lock; limits applied by several readers of one archive; paths cleaned twice |
| Notifications (`notifications.go`) | notifications, read marks; a hub like that of comments | notify a reply, a review, followers; read one, all | lost announcements; marks against arrivals |
| Follows, favorites, metrics, featured (`project_follows.go`, `favorites.go`, `project_metrics.go`, `share.go`, `featured.go`) | sets and counters | toggle, count, replace the featured list | little: single statements |
| The rest | — | read-only pages, AI proxy, IP regions, HTTP plumbing, remaining web pages, deployment | reads and I/O |

How they interact: handlers run in a goroutine per request and call the stores
one statement (or one transaction) at a time. What a handler need not wait for
(experience, index, metrics) it leaves to goroutines started by
`runBestEffort`. Documents are written by three routes: the author's PATCH, a
restore, and the snapshots of a collaborative session; all three record
revisions and index the result. Reviews and takedowns rewrite the project's part
of the index, award experience and notify. Comments award experience, notify,
and publish events to the pages that read the document.

What makes each part correct, in a line: a history never loses a checkpoint or
its newest revision and an edit never rewrites another author's; the tree has no
cycle or orphan and old links keep leading where they led; nobody without the
editor role stays in a room; editors, snapshot and Markdown come to rest on one
text; a submission is decided once, and the project's own texts are published as
they were submitted; drafts are not indexed, and the index agrees with the store;
threads are deleted whole, deeds counted once; a reader's page catches up with
the store, and no reader holds up a writer; a session is backed by the password
in force and a reset link is spent once; who is banned or holds a revoked key is
shut out, and the audit accounts for what admins did; the cache of the code
browser keeps its books, and a sound file it lists can be opened under its path.
Where the code keeps less than this, 6 says what it does.


## 2. Modules

`X_proofs` holds the theorems about module `X`, `MCX` is what TLC runs. Where a
module with theorems covers several, its name is that of the first, or of the
part of the system (`Collaboration_proofs`, `Projects_proofs`). Faulty
variants, marked `Faulty:` in the modules, are not part of any specification.
They are what the runs are tested with: with the definition after them replaced
by the variant, the property it is listed for must fail.

### Revisions: `RevisionHistory`, `DocumentRevisions`

`RevisionHistory` is the promise: revisions are published under numbers nobody
holds, edits rewritten in place, the oldest dropped while `Keep` stay.
`DocumentRevisions` models every handler that writes a body call by call:
`pc[r]` is the call request `r` is about to make, the other functions of `r`
its locals. `CreateDocument`, `PatchDocument`, `SaveSnapshotBody` and
`FindRevision`/`RestoreBody` are the routes up to the body's write; `ReadLatest`
decides between amending and appending as `recordDocumentRevision` does;
`AmendRevision`, `AppendRevision` (with its unique key), `LocatePruneLimit` and
`DeletePruned` are the statements; `ApplyRevisionMeta` writes the redundant
columns; `StoreFault` lets a call fail. Time is one bit: whether the newest
revision is within the coalescing window; `LeaveWindow` lets it pass.

### Documents: `DocumentForest`, `DocumentTree`, `DocumentTransactions`, `DocumentIndexing`

`DocumentForest` has the walks up and down the tree both stores use.
`DocumentTree` is the memory store, one operation at a time under its lock.
`DocumentTransactions` is the MySQL store under REPEATABLE READ: `Plan...` reads
and validates on the transaction's snapshot, `Write...` acts on the rows as they
are and commits. Two history variables tell which sessions' snapshots are
outdated (`behind`) and whether such a session ever wrote (`raced`). Bodies,
titles and sort order decide nothing and are left out.

`DocumentIndexing` puts the author's handlers between these transactions and the
search index. A handler that deletes first reads what is below the document
(`removable`), then runs the transaction, then starts goroutines (`calls`) that
index or remove records in any order and may fail. `adrift` names the documents
whose record may go wrong: their call failed, they were written while another
handler was about to delete, their indexing had not ended when something was
deleted, or the delete, which goes down a fixed number of levels, did not reach
them.

### Collaboration: `CollaborationAccess`, `CollaborationRoom`

`CollaborationAccess` is who may be in a room: roles, the steps of a handshake
(`Admit`, `Join`, `Leave`), the management handlers, whose call commits the role
and is `Answered` or not (`Unanswered`: the handler returns), and
`disconnectProjectUser` (`List` under the read lock, then `Close` one by one).
`missed` remembers the connections no handler is going to close: the hub was
listed in the middle of their handshake, or the handler of a committed change
failed.

`CollaborationRoom` is the text. A Yjs document is the set of inserts it holds,
so merging is a union. A session joins, is sent the snapshot, loads the editor
with no message handler set, and binds; then it edits, receives, and saves a
second later (`Save`). Its handler reads messages in order, broadcasts updates,
stores snapshot and Markdown by two writes. `upsets` says which kinds of trouble
happened: text entered while somebody was on the way in, a session that left, a
failed write.

### Projects: `ProjectCatalog`, `ProjectLifecycle`, `SearchIndex`

`ProjectCatalog` is the promise, the memory repository: every call one step on a
set of projects. `ProjectLifecycle` has the guarded UPDATEs of the MySQL
repository and the review page, which decides on what it loaded earlier
(`shown`). The page's card has the texts of the project's row and no documents;
those are in `SearchIndex`, where they change in every status. It extends
`ProjectLifecycle` by handlers that read the status and use it later, goroutines
(`task`) whose calls reach the index in any order, failing calls, a crash, the
two rebuilds. A body's record has the text the review or the rebuild had read
(`Renewal`), the documents' records those there are when the goroutine runs.
`drifted` is set when a call fails or when a change overlaps a goroutine, and
cleared when the index is dropped and rebuilt. Elasticsearch is external: one
call at a time, its effect visible at once; the refresh interval is not modelled.

### Discussion: `Discussion`

The comments of one document. A request is one run of a handler and names the
comment it creates; words are told apart by who wrote them. `CreateReply` and
`DeleteComment` hold the lock on the root (`Locked`) between their statements;
likes are set after a look at the list; awards wait in `due` for their
goroutine; the announcement of a reply looks its root up again. Admins hide,
restore, ban and unban; calls fail (`Fail`), the gateway is killed (`Crash`).

### Live comments: `LiveComments`

A hub of channels, event streams that are lost and opened again, and a page
that reads the list on every event while it applies the answers to its own
requests. Events look alike, so a channel is the number of events in it. The
page has two reads: the first one, which nothing gives up, and the refresh,
which each event starts anew. `Unsubscribe` and `CloseChannel` are the two halves
of the hub's `cancel`; `Publish` is one step since it holds the read lock and
both halves of the hub's other operations need the write lock. `Moderate` is an
admin's hide or restore, which publishes nothing, `StoredUnheard` a change that
is committed although its call fails. `doubtful` names the pages something was
kept from, until their next refresh; `losses` counts the streams and answers lost
and the changes without an event.

### Accounts: `AccountStore`, `Accounts`

`AccountStore` is the promise, the memory repository of `auth.go`: every call
one step. `Accounts` is the MySQL repository statement by statement. `req[r]`
holds the handler's next statement and its locals, and `Steps` the order of
statements of each handler (register, log in, OAuth callback, log out, end all
sessions or one, change the password, ask for a reset, redeem it). A statement
of a transaction waits while another transaction holds a row it needs
(`Wants`, `locks`, `Blockers`), and takes effect with its commit; `Victim` is
InnoDB's choice in a cycle of waits; `Fail` is a statement that fails. A
password hash is named by the request that set it; a session remembers the hash
its holder proved to know (`under`) and whether that was replaced before the
session was stored (`raced`); `redeemed` records which request used which link.

### Moderation: `Moderation`

Reports and verdicts, bans, API keys issued by users and admins, what agents
store through the open API, and the audit entry after each deed of an admin.
Every repository call is one statement, and a handler makes them one after the
other: the gate, the check (open report, number of active keys), the store. Any
call may fail. Three history variables: what a request had before it when it
began (`known`), the requests that began with a revoked key or a banned user
(`barred`), and the admin requests whose audit entry failed (`unaudited`).

### Code browser: `CodeArchive`, `CodeBrowser`

`CodeArchive` is the pure part: how raw entry paths are cleaned, which entries
of an archive are listed within which limits, the order in which their tree is
shown with its directories, the README that is picked, and what opening a listed
file yields for each format. A path is the sequence of its names, a file a size.
`Safe` cleans a path in the order of the code (blanks, then "./", then the rest),
and is applied to the path a request asks for as it is to the entries, so that
it may change a listed path once more. An entry has a place where reading it
`breaks` off, which only opening a zip's entry finds out. A compressed tar is
unpacked block by block up to a limit: where it ends before an entry, the list
ends there as if it were complete (`Reached`); where it ends within one, the
archive is refused (`WellFormed`). Left out are names with a zero byte, paths of
over 400 bytes, and headers of more than one block.

`CodeBrowser` is the concurrent part: packages are uploaded once; requests look
into the cache, fetch, parse on their own and put the result; `Put` replaces,
counts bytes and evicts the oldest. Ties are broken either way, as Go's map
order does; entries expire with the clock.

### Shutdown: `Shutdown`

`main`, the goroutine that waits for the signal, requests, and the tasks they
leave behind. `net/http` is external: `Shutdown` closes the listener first, and
`ListenAndServe` returns at once.

## 3. Runs

| Run | Instance | Shows |
|---|---|---|
| `revisions_concurrent` | 3 requests, 2 at a time, 2 authors, `Keep = 1`, any call may fail | the inductive invariant, the bound on the history, amends of own edits only, checkpoints left alone, that the next save that runs alone heals version and body, and that the handlers implement `RevisionHistory` |
| `document_tree` | 5 IDs, 5 slugs, depth 3, at most 4 documents | a forest in which what is placed is shown, aliases sound, links keep resolving |
| `transactions` | 2 documents, 3 slugs, 2 sessions, depth 2, limit 2 | deleted rows are never written; tree and slugs are sound as long as no outdated snapshot was written; the index follows the tree |
| `access_eviction` | 2 users, 2 rooms, 2 connections, 2 managers | editors only; who is revoked leaves before long; both but for the connections `missed` by a handler whose call failed or that came in the middle of a handshake |
| `room` | 2 editors, 2 edits, one kind of upset | texts only grow; agreement at rest; saves come to rest |
| `projects` | 2 review pages, 2 edits and 2 submissions, 2 documents, 1 handler, 2 goroutines, failures | one verdict per submission; the row's texts are published as submitted last; drafts not indexed; the index mirrors the store; the store implements `ProjectCatalog` |
| `discussion` | 3 requests, 2 users, 2 upsets | threads whole, bans silence, deeds counted once, replies announced |
| `live_comments` | 1 page, 1 other client, 2 comments, 2 streams, channels of 1, 1 loss or change without an event | writers answered; a page at rest shows the store unless it is doubtful |
| `accounts` | 1 account with a mailbox, 1 of a provider, 3 requests | sessions backed by the password, reset links spent once, every request ends, the transactions implement `AccountStore` |
| `moderation` | 1 member, 1 admin, 4 requests, 1 target, 1 key | no report twice, no key too many, the barred shut out, the audit accounts for every deed |
| `code_browser` | archives of up to 2 of 7 entries, 3 packages, 2 requests, a cache of 2 bytes | the cache keeps its books; what opens is the first file listed under the cleaned path; a sound file opens if its path has no blank at an end; the tree reads in one pass |
| `shutdown` | 2 requests | **fails**: the process ends before it is drained, see 6 |

Why the bounds are enough. The shortest ways to break a property, found by
running the faulty variants, need two requests of different authors, a third one
that comes between two calls of the first, and one failure; the runs have as
many. `Keep = 1` makes every append prune, which with 50 would take 51 requests;
the definitions treat `Keep` as a number and the proofs cover every value. Depth
3 is the least at which a moved document has both an ancestor and a child; for
two transactions that race, a parent and a child, and a limit that both may
reach, two documents are enough. Channels hold 16 events in the code and one in
the run, so that they are full after one. Three requests in `discussion` are the
least in which a like is given, taken back and given again, and in `accounts` the
least in which a link is issued, replaced and used while a session is opened; a
deadlock of a new link against the use of an old one takes two. `moderation` has
four: a key's owner issues it, an admin revokes it, an agent uses it, and another
is issued. A cache of two bytes with a limit of two on each package is full after
one package or two, and `MaxClock` lets one tick pass. The seven entries have a
path that cleaning changes twice, one that leaves the archive, two of one name, a
zip entry that breaks, and sizes with which the limit of four blocks falls before
an entry, within one, and nowhere. Names that bound the model (`MaxInFlight`,
`MaxContent`, `MaxSubmissions`, `MaxText`, `Slots`, `MaxUpsets`, `MaxLosses`,
`MaxComments`, `MaxConnections`, `MaxClock`, and the finite sets) are marked in
the modules. Symmetry is used only where no liveness property is checked, over
identifiers the code never orders. `revisions_concurrent` tells states apart by a
`VIEW` without the locals of handlers that have ended: no step reads them, and
the invariant says no more of them than what they had when they were last read.

Deadlock is checked in `access_eviction`, `projects`, `document_tree`,
`transactions` and `code_browser`. The others end: their requests, sessions or
comments are each used once, and when all are used up nothing need happen. That
`accounts`, where transactions wait for each other, does not end too early is
what `RequestsEnd` says.

Refinements. Four modules are held to an abstract one. `HistoryPromise`,
`CatalogKept` and `StoreKept`, which maps the rows of `Accounts` to
`AccountStore` by forgetting locks, locals and histories, are checked and
proved. That `DocumentIndexing` implements `DocumentTransactions` is proved
(`HandlersRunTransactions`), so what is proved of the transactions holds of the
handlers (`HandlersSound`).

## 4. Fairness

Only four specifications assume any.

- `CollaborationAccess`: a manager's handler goes on (`Answered` or `Unanswered`,
  whichever the database makes of it, `List`, `Close`), and a
  connection that is being closed ends: `Close` gives up on the peer after five
  seconds, which ends the read loop. No request need come.
- `CollaborationRoom`: `Progress(s)`: messages in transit arrive, a timer that is
  set fires, a handler reads its next message. Nobody need join, type or leave.
- `LiveComments`: a handler that stored its change publishes and answers. Nothing
  is asked of the pages; that is the point of `WritersAnswered`.
- `Accounts`: `WF(Step(r))`: a request whose next statement no lock holds back
  executes it, and the database resolves a cycle of waits. No request need
  begin, and none need fail.

## 5. Proofs

Eight modules, each for every value of the constants of the modules it is about.
What they assume is stated there by name: `Keep` and the limits are numbers,
names of one kind are not names of another, `Seed`, `Root` and their like name
no request, document or comment, marks such as `NoRead` are no list of comments,
documents are finitely many, what is uploaded is an archive of some size, a
trimmed name is a name, a limit on unpacked bytes is a number of blocks. TLC
evaluates each assumption in a run.

| Module | Theorems | On the invariant |
|---|---|---|
| `DocumentRevisions_proofs` | `RevisionsInvariant`, `TypeCorrect`, `PruneSafe`, `NewestSurvives`, `CheckpointsStand`, `AmendsOwn`, `HistoryStaysBounded`, `SaveAloneHeals`, `HistoryRefinement` | `RevisionsInv`, `AloneInv` |
| `DocumentTree_proofs` | `MapsTyped`, `AliasesStaySound`, `LinksLast`, `ForestStands`, `PlacedAreShown` | `Inv`, `ForestInv` |
| `DocumentTransactions_proofs` | `RowsTyped`, `SlugsStayUnique`, `DeletedStayDeleted`, `LimitHolds`, `SlugsReachable`, `SoundWhenNotRaced`, `HandlersRunTransactions`, `HandlersSound`, `IndexKeepsUp` | `RowsInv`, `LimitInv`, `AliasInv`, `TreeInv`, `IndexInv` |
| `Collaboration_proofs` | `HubCorrect`, `OnlyEditorsStay`, `RoomTyped`, `EditorsAgree` | `AccessInv`, `RoomInv` |
| `Projects_proofs` | `DecidedOnce`, `SubmittedTextsPublished`, `CatalogRefinement`, `DraftsStayOut`, `MirrorAtRest`, `CacheIsAccounted`, `ListedDoOpen`, `TreeIsShown` | `SearchInv`, `BrowserInv` |
| `Discussion_proofs` | `WholeThreads`, `NobodysWords`, `RepliesHeard`, `BannedSilent`, `ExperienceIsEarned`, `PagesDoCatchUp` | `ThreadInv`, `ExperienceInv`, `FollowInv` |
| `Accounts_proofs` | `AccountsTyped`, `PasswordsBackSessions`, `LinksSpentOnce`, `StorePromiseKept` | `AccountsInv`, `StoreInv` |
| `Moderation_proofs` | `ReportsOnce`, `KeysStayLimited`, `BarredShutOut`, `AuditComplete` | `ModerationInv`, `AuditInv` |

The pattern is the same throughout. The property is not inductive, because a
handler decides in one step and acts in a later one; the invariant adds what a
handler still knows of what it read, while others act. The proof has a lemma per
action, and a lemma that sums up what the actions of a kind do where there are
several of them.

Walks up a tree, sums and folds are recursive functions, and what they compute
is shown by a least counterexample: the least number of levels, or a least
subset, for which the claim fails (`LeastNat`, `LeastSet`). The folds of the
community modules are chosen among the functions that satisfy an equation, so
that there is one comes first (`RecursExists`).

- Revisions. `AmendTargetsEdit`: whoever is about to amend holds the ID of an
  edit, present or pruned, of its own author, never that of a checkpoint.
  `IdsUnique` makes "the revision with this ID" one revision, and since an ID
  belongs to the request that appended it, an append brings a new one.
  `LimitsLeaveKeep`: once a prune has found its limit, at least `Keep` revisions
  are at or above it; appends add above the limit, and other prunes leave
  theirs. `PruneToCome` is the converse, for the bound at rest: while more than
  `Keep` are stored, some request is going to prune, with a limit that low if it
  has found one. `AloneInv` follows a request nobody runs beside: at each call it
  holds the body as it is stored, then the revision made of it. The refinement
  maps an append to `Publish`, an amend to `Rewrite`, a prune to `DropOldest`,
  creation included; all other steps leave the history alone.
- Tree. Live slugs are unique, and no alias names one; renames, deletions and new
  documents each keep the two together. A cycle or an orphan shows as a trap, a
  set of documents each with its parent in the set: walks find the root exactly
  where there is none, a move to a parent whose walk avoids the document makes
  none (`ForestInv`), and a delete takes away all that is below.
- Transactions. Rows are never removed, so a parent or a plan names a row for
  good, and the unique key covers deleted rows too. `LimitInv` counts the
  sessions that counted on an older snapshot: the limit is passed by no more
  than these. `AliasInv` and `TreeInv`: what an up-to-date transaction has seen
  of slugs and of the way up from its parent still holds when it writes, so no
  alias shadows a live slug and no trap is closed unless `raced`. `IndexInv`: what
  a delete lists (`Listed`) is what its transaction will collect (`Collected`)
  for every document not `adrift`, so that what vanishes is removed from the index.
- Access. `AdmittedCounted`: whoever has passed the check, is not in the hub yet
  and is no editor any more will be found by a manager that lists the hub, or that
  awaits its answer, or is `missed`. A manager that gives up adds all it leaves.
- Room. While nothing has upset it and somebody is on the way in, all is as it
  was (`Fresh`). Then every insert an editor has is known to each other one or
  still on its way (`Spread`), each editor's last save is of its whole document
  or still to come (`Latest`), and each stored form is some editor's text or about
  to be replaced (`Stored`). `RoomTyped` also has that what a session saves only
  grows, upset or not.
- Projects and index. `PagesCurrent`: a page loaded in the pending submission
  shows what is pending, and what is pending is what was submitted. For the
  index, when nothing has drifted, all goroutines are free and the index mirrors
  the store, or exactly one goroutine is under way, and the index will mirror the
  store when it is done (`Fits`, `Owed`).
- Code browser. `BrowserInv`: an entry has the bytes of its package, and whoever
  is about to put has parsed a package that is there and fits. A request that
  puts what another has put meanwhile therefore evicts nothing. That a listed
  file opens rests on both looks at the archive ending before `Stop`
  (`MatchIsListed`), on the stream reaching all of an entry that is listed
  (`ReadEntry`), and on a path that has been cleaned leading nowhere but down, so
  that the second cleaning leaves it alone if it has no blanks to trim
  (`CleanAgain`, `SafeAgain`); the tree on paths that are cleaned to sequences of
  names (`CleanIs`) and on an order of directories that has no two ways
  (`EarlierOne`).
- Discussion. A root selected for update is live and one transaction's
  (`LocksInv`), so a reply that is being inserted has a live root, and a root that
  is being deleted gets no reply in between. The ledger and what is `due` hold,
  of each comment and reply, nothing but what it earns, and unless a call failed
  all of it (`OwedInv`); a bijection makes that a count.
- Live comments. A page that is not doubtful will be told of a change, or what
  it shows, once its reads have come back in either order, is the list (`Follows`).
- Accounts. Locks exclude each other (`Exclusive`), a link to redeem is unused and
  its owner's row held before anything is written (`LocalOk`), and after a sweep
  no session of the user came but those that raced. Hence a password has the
  sessions it was proved for, and a link one use. For the refinement, what a
  transaction has noted to take away at its commit is its user's and still there
  to be taken (`StoreInv`), so the commit is the one step of `AccountStore`.
- Moderation. What was closed or revoked stays so, and rows stored meanwhile were
  stored by requests that began too late to be known (`Knowledge`). `AuditInv`
  pairs each deed with its entry, the request that is about to write it, or the
  one that failed to.

Checked and not proved: liveness (`RevokedLeave`, `Settles`, `WritersAnswered`,
`RequestsEnd`), which is out of this prover's reach. Every other property of a
passing run is a theorem.

## 6. Where code and words differ

One run fails, and shows it: `shutdown`, "连接排完后再等待在途的 best-effort 写入"
(`main.go:388`). `main` returns as soon as the listener is closed, before the
requests are drained and the tasks have been waited for.

Others were met on the way; the models do what the code does, and the properties
leave these cases out by name:

- Revisions. "因此回滚永远不会丢内容" (`document_revisions.go:21-22`): of two saves that
  read the same latest version one fails to append; its text is only in the
  document, and a restore that follows overwrites it. `version` is not that of
  the current body (`project_documents.go:44`) between two racing saves and the
  next. `UpdateMarkdown` reads the row back by a statement of its own (600), so a
  save can record the text another author stored in between.
- Documents. "不能移动到自身或子文档下" (`author_documents.go:401`): two moves, each
  validated on its own snapshot, put two documents below each other, and
  `documentsToRemoveFromIndex` (386) then has no end. The same message has "层级也不
  能超过 5 层": MySQL (`project_documents.go:743`) accepts a parent on the fifth
  level, and its child is accepted and never shown (128); the memory store
  (386-387) refuses it. Both count the levels above a moved document, not those
  below it, and `Delete`, which collects a fixed number of levels (650-653: "and
  all descendants"), leaves some alive below a deleted parent. The limit on the
  number of documents is passed by Creates that run together, by less than there
  are sessions (`LimitHolds`). A rename removes an alias of any document
  (560-562), where the memory store refuses it. Aliases outlive a soft deletion
  (migration `000010`, line 15), and a deleted slug is never free again in MySQL.
  A document created or moved below one that is being deleted stays in the index.
- Collaboration. "变更协作者为只读或移除协作者时，Gateway 会主动关闭其已存在的协作连接"
  (`docs/development-deployment.md:563`) holds with two exceptions. A disconnect
  does not reach a handshake that has passed the role check and not joined yet.
  And the role is committed (`collaboration.go:207`) before it is read back
  (216-227): if that SELECT fails or the request is cancelled, the handler
  answers 500 (391-394) and disconnects nobody, and the former editor stays in
  the room; a DELETE whose call commits and fails (431-434) does the same.
  Sending the POST again disconnects them; a DELETE sent again finds no row and
  answers 404. An editor drops the updates that arrive while it loads
  (`CollaborativeMarkdownEditor.tsx:89`), and the whole document it saves next
  overwrites a snapshot that held them, although
  `docs/development-deployment.md:561` has the stream of updates persisted.
  Snapshot and Markdown are two statements (`docs/development-progress.md:1350`);
  a failure of the second, or an interleaving with the last save of an editor who
  leaves, keeps them apart. Two editors that open a document without a snapshot
  both insert its Markdown (207). A save cuts at 50000 characters what the server
  would store. A PATCH or a restore does not change the snapshot (108).
- Projects. A review names a project and no version: a page loaded before a
  rejection approves the text submitted after it, which nobody reviewed
  (`managed_projects.go:549`, `docs/requirements.md:643`). Documents of a project
  that waits for its verdict can be created, edited and deleted, since
  `author_documents.go:88-142` asks for the author and for no status; they are not
  on the card an admin decides on, and the approval publishes and indexes them as
  they are by then (`search_api.go:276`), although `docs/requirements.md:649-653`
  lists documents among what is reviewed. `TextsAsSubmitted` is about the texts of
  the row for that reason. The goroutines of an
  approval, of saves and of a takedown are unordered (`search_api.go:266-283`), so
  a project that was taken down can stay in the index (`admin_console.go:226`); a
  rebuild that does not drop the index leaves such records (`search_api.go:109`,
  `170`). The open API stores documents without a first revision.
- Comments. Hiding and deleting share `deleted_at`: an admin's restore brings
  back what its author deleted, and the list of hidden comments shows it
  (`comments_mysql.go:459-477`, `admin_comments.go:8-9`). The memory store lists
  hidden comments. A ban does not keep its user from editing.
- Live comments. Changes are to be pushed to the readers of a document
  (`docs/requirements.md:359`). An admin's hide or restore publishes no event
  (`admin_comments.go:60-101`, `comments_mysql.go:459-477`), so an open page shows
  a hidden comment until something else makes it read; nor does a change that is
  committed while its call reports an error. A stream that reconnects does not
  read again; a first read can arrive after a refresh and replace it
  (`App.tsx:772`); one's own new comment is shown twice when the event came before
  the answer (`App.tsx:1142`). The next event mends all of these.
- Accounts. A login that verified the password before it was changed keeps the
  session it stores after the change (`auth.go:1435`). Creating a reset link and
  redeeming one lock user and tokens in opposite orders (`auth.go:1246`, `1287`);
  the database ends one of the two, and the user is told to try again.
- Reports and keys. Two reports of one user that overlap are both stored
  (`content_reports.go:280`), and two keys issued at once may pass the limit
  (`api_keys.go:334`). A deed whose audit entry fails stands (`admin_audit.go:142`).
- Code browser. The tree lists paths that `safeArchivePath` has cleaned, and the
  handlers clean the path they are asked for again (`code_browse.go:518`, `548`).
  Since it trims before it strips "./" (138-139), an entry `./ foo` is listed as
  ` foo`, asked for as `foo`, and answers 404 or opens another file; `.//x` is
  refused as if it were absolute. A zip is listed from its directory (200-219), so
  a file is shown that turns out malformed when opened (376-379, 408-410). A
  tar.gz that unpacks to more than the limit (270), which falls between two
  entries, ends like one that is complete (234): the rest is missing and the tree
  is not marked as truncated.
- Notifications (not modelled). MySQL's `MarkRead` counts changed rows, so marking
  a read notification again answers "not found" unless the connection reports
  matched rows.

## 7. Not modelled, and what is left

Left for later, because their operations are single statements and little runs
concurrently in them: the notification store with its read marks and pages
(its hub has the shape of the one in `LiveComments`), follows, favorites and
metrics (insert-ignore and increments), featured projects (replaced as a whole by
one admin call, filtered by status when read), the attempt limiter
(`auth_redis.go`), profile updates.

A composition still worth stating: `DocumentRevisions` with `CollaborationRoom`,
where a PATCH or a restore meets a snapshot. Which of the two should win is
said nowhere in the repository, so there is nothing yet to check it against.

Theorems still worth proving are of what no run checks yet: the safety half of
the liveness properties, such as that a handler that waits for a lock waits for a
transaction that can go on, and that whoever is to be disconnected is on the
list of a handler that is still closing connections.

Not planned: pages that only read (statistics, tags, feed, site map, profiles,
activity, leaderboard), the AI proxy, IP regions, request IDs and headers,
sending mail, the search filter and the languages of the code browser, the rest
of the web application, deployment scripts.
