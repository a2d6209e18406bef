# drust: TLA+ models, model checking and proofs

drust is a multi-tenant backend in one process: a control-plane database
(`meta.sqlite`), one SQLite database per tenant, an object store, REST and MCP
faces over all of them, edge functions, webhooks, rooms and background tasks.
Most of its shared state is in memory (pools, caches, rooms, schedule index,
queues) beside databases guarded by mutexes that are released between the steps
of a handler. The models here are about those gaps: what a handler read before
an await and used after it, what a revocation or a deletion has to reach, what
is left when two of them overlap, and where the process may die in between.

Paths below are relative to `src/src/`.

## 1. Inventory

| Component | State | Operations | Interacts with | Hard behaviour | What makes it correct |
|---|---|---|---|---|---|
| Admin team, tokens, device login (`mgmt/admin_team.rs`, `mgmt/admin_pat.rs`, `mgmt/cli_device.rs`) | `admins`, `_admin_tokens`, `_cli_device_codes` | invite, change role, remove; reroll, refresh, logout, revoke; start, approve, poll | tenant owners, PAT eviction | role read by the middleware, used later; racing refreshes; reused row ids | an owner remains; one live token per login |
| Bearer layer, auth cache, PAT eviction (`tenant/router.rs`, `tenant/auth_cache.rs`, `mgmt/pat_evict.rs`) | cache by plaintext; reach read with the commit | probe, read, fill, lapse, clear, evict | all revocations, rooms | fill after clear; reach derived from rows the commit deletes | an entry is good, late, or about to be cleared; the reach covers what lost access |
| Rooms (`tenant/rooms/`, `mgmt/admin_rooms.rs`) | channels, epoch cells, connections | connect, subscribe, publish, evict, sweep | revocations, deletion | epoch captured before the upgrade; walk over tenants; lagging receivers | an eviction reaches every socket; evicted sockets hear nothing and close |
| Tenant life (`mgmt/tenants/crud.rs`, `storage/pool.rs`, `mcp/http_registry.rs`, `storage/janitor.rs`) | tenant row, file, trash, pool and MCP registries | create, soft delete, recycle, janitor, restart | every registry | row, rename and evictions in separate steps; crash between them | nothing of a deleted life stays registered |
| Migrations (`db/migrations.rs`, `storage/meta.rs`) | markers, columns, roles, grants | start on older data | admins, tenants | a crash between a marker and what it stands for | a start can be repeated; nobody loses access |
| Files, resumable uploads (`storage/files.rs`, `storage/garage.rs`, `storage/visibility.rs`, `tenant/uploads/`) | rows, objects, sessions, spools, lock map | upload, delete, publish, reconcile; create, PATCH, finish, terminate, expire | quota | row and object in separate systems; raced and repeated PATCHes | an acknowledged file stays readable; accepted bytes are a prefix |
| Schema and registries (`mcp/tools/schema.rs`, `tenant/collections.rs`, `storage/schema_cache.rs`) | tables, meta rows, indexes, full-text tables, vector columns, cache per pool | create/drop collection, field, index, full-text index; describe | pools, records | check with a reader, write later; two writer calls | a change invalidates; registries tell the truth; no dangling keys |
| Collection settings, stored RPC, records, history, SSE (`tenant/records.rs`, `tenant/*_routes.rs`, `mgmt/rpc_admin.rs`, `rpc/`, `storage/record_history.rs`) | settings, RPC rows, records, history, subscribers | gate, write, publish, run, capture, prune | schema cache, functions, webhooks | settings cached at the gate, used in the transaction | rights follow committed settings; history is a chain; no leak over SSE |
| Access rules (`query/policy.rs`, `query/vector_filter.rs`, `rpc/query_template.rs`, `storage/file_policy.rs`) | stored policies and templates, signed URLs | compile, evaluate, list, aggregate | records, files | two evaluators of one policy, NULL, prefixes as ranges | both mean the same; lists agree with single reads |
| Caller SQL (`query/authorizer.rs`, `query/executor.rs`, `rpc/exec_write.rs`) | pooled connections with authorizer, hook, savepoint | run, fail, detach | records, RPC, cron | every early return between attach and detach | a connection goes back bare |
| Cron (`cron/`) | jobs, runs, index, reload locks, markers, gates, permits | create/update/delete job, reload, boot scan, tick, fire | tenant life, functions, RPC | read-then-write of the index; clock steps; deletes under a fire | no overlap, no minute twice, fresh index, every fire ends |
| Edge functions (`functions/`) | rows, artifacts, binding cache, queue, lanes, permits, logs | put, bind, delete, collect; dispatch, run, log | records, files, cron | load racing an invalidation; counters on many paths; lanes that exit | bindings fresh, depth exact, every invocation served |
| Webhooks and egress (`tenant/webhook_*.rs`, `tenant/egress*.rs`) | subscriptions, deliveries, permits, allowlist version | subscribe, fan out, deliver, retry, narrow the allowlist | records, functions | a delivery parked across a change of the allowlist | revoked egress is not used; deliveries end |
| Users, sessions, OAuth, tenant tokens (`tenant/auth_routes.rs`, `oauth/`) | accounts, sessions, states, bearer cache | register, log in, log out, change password, callback, claim, reroll | rooms, records | insert after clear; claim of an unverified account | a cached bearer is current; nothing revoked comes back |
| Quotas and requests (`mgmt/quota_admin.rs`, `mgmt/tenant_cap.rs`) | caps, tiers, two request queues | file, decide, change | files, tenant creation, team | ids that are handed out again | a review names who asked; an approval raises |
| Audit log (`safety/audit_db.rs`) | channel, batch, stash, database | append, flush, retain, VACUUM, browse | all | full queue, stash at its cap | every entry is stored, waiting or counted as lost |
| Backups (`deploy/drust-backup.sh`, `mgmt/backups.rs`) | archives, staging, `_trash` | stage, archive, prune, restore | tenant life | cut-off archive, stepped clock | a recovery point remains |

Not modelled: the OAuth login of admins (a redirect and a lookup), rate limits
(buckets that only answer 429; their callers are passed or refused), naming and
blast-radius reports, code generation, pages and statistics, the command-line
binaries. `PROJECT.json` lists all components with what was left out of each,
and under `hazards` the lines where something hard to test can go wrong, with
the properties that would notice.

## 2. Modules and the code

Every module reads the code the same way. A critical section (one hold of the
meta connection's mutex, one writer closure, one synchronous stretch that no
other task can observe half done) is one action; what a handler captured and
carries to its next section is in its record; a failure or a cancelled request
between two sections is an action of its own. History variables are marked as
such where they are declared, and no guard reads them.

| Module | Models | State | Actions |
|---|---|---|---|
| `AdminIdentity` | admin team, tokens, device login, tenant owner | the four tables; `job`, the handlers in flight with what their middleware read | one per handler; `ClearAdminPat` and `EvictReach` are the steps after a commit |
| `PatRevocation` | extends `AdminIdentity` with bearer layer, auth cache and sockets | `cache`, `req` | `Probe`, `ReadMeta`, `Fill`, `Serve`, `Capture`; `Clear` and `Evict` |
| `RoomBus` | bus, connection loops, REST publish, sweeper, evictions | `epochs` and `cell` (the Arc and its value), `chan`, `conn`, `ev` | one per arm of the `select!` and per await inside it; evictions in two halves, or a walk over the tenants |
| `TenantLifecycle` | one tenant id through its lives | row, file at the path, trash, pool, HTTP and inner MCP registries, token cache, requests, deletions | create, delete, request steps, background tasks, janitor, restart at any point |
| `Migrations` | `open_meta`, `run_migrations` | markers, columns, roles, grants, the statement the start is at | one per statement, crash, operators between starts |
| `FileStore` | tenant and admin files | `frow`, `fobj`, `ftask`, tiers | each await of upload, delete, visibility change and reconcile; store failures, crash |
| `ResumableUpload`, `UploadLog` | tus sessions over `FileStore`; what an upload promises | sessions, spools, lock map (by Arc), `utask` | each await of create, PATCH with finalization, terminate, janitor; `UploadLog` is the abstract specification |
| `CollectionSchema` | one collection, its meta row and the caches of the pools | table, field, meta row, pools, `cache`, `task` | every schema operation as check, write, invalidate |
| `CollectionIndexes` | what hangs on tables | `tbl`, `sidx`, `heads` (full-text tables), `imeta` (registries), `itask` | checks with readers and the writer calls that follow, over MCP, REST and console |
| `CollectionConfig`, `RecordStore` | settings and stored RPC; records, history, subscribers | `schema`, cached settings, RPC rows; `rec`, `hist`, `sub`, `rtask` | one per route or tool; a request is gate, transaction, publication |
| `RowPolicy`, `ListQuery`, `FileRules` | policies in memory and in SQL, filters and templates, file policies | select policy, stored query, last answer; file policies by prefix, signed URLs, clock, last read | set and clear a policy, create and call a query, list, aggregate; write a file policy over each door, read, list, sign, follow a URL |
| `SqlRunner` | caller SQL on pooled connections | connections, bodies, counters | statement by statement, every failure path |
| `CronScheduler` | scheduled jobs | tables, index, reload lock (by Arc), `fire` with a control point per await of `run_due_job` | handlers, reload, boot scan, soft delete, tick, fire steps |
| `FunctionStore`, `FunctionExecutor` | function rows, artifacts, binding cache; dispatcher, queue, lanes, runs | `fnrow`, `art`, `bind`, `ftask`; `depth`, channel, lanes, permits, `job` | edits as their awaits, loads of the cache, collection; enqueue, route, run, log |
| `WebhookDispatcher` | subscriptions, fan-out, deliveries, egress | `hook`, `allow`, `fan`, `deliv`, `fetch`, permits | subscription and allowlist changes, each await of a delivery, the fetch of a function |
| `TenantUsers` | users, sessions, OAuth, role tokens | `urow`, `sess`, `ucache`, `utask`, provider and registration settings | each handler in its steps, the door, expiry, sweep |
| `TenantRequests` | caps, tiers, request queues | `adm`, `ten`, `capq`, `quoq` | file, decide, direct changes, removal and reuse of ids |
| `AuditLog`, `Backups` | audit writer; archives and restore | channel, batch, stash, rows; archives, staging, directories | append, flush, retention, VACUUM, restart, paging; script steps, pruning, restore |

Composition: `PatRevocation` puts the door in front of `AdminIdentity`,
`ResumableUpload` works on `FileStore`'s rows and objects, `RecordStore` runs
under `CollectionConfig`'s settings, `FunctionExecutor` under `FunctionStore`'s
bindings, `ListQuery` and `FileRules` use `RowPolicy`, which holds no state: it
lays the nodes of a clause out by depth (`Levels`), so that a compiler's walk is
a quantifier over them and an evaluator a function from the deepest level up. The `MC*` modules give
constants, symmetry and scenes: components that share no state are explored in
one run, each behaviour choosing one scene at its start. Definitions named
`Fault...` precede the definition they vary: each is a plausible mistake in the
code that some property has to notice, and no specification uses them.

External to the source: SQLite (row ids without AUTOINCREMENT are reused; an
open connection follows a renamed file; ALTER TABLE refuses a column that an
index or trigger uses), tokio channels, mutexes and semaphores, the object
store, the JavaScript and WebAssembly engines, tar.

## 3. What the runs show

| Run | Scenes and bounds | Properties |
|---|---|---|
| `admins` | *team*: 2 admins, 4 token rows and plaintexts, 1 device code, 2 handlers in flight; *door*: 1 handler against 1 request or socket, 3 tokens, 1 tenant | `AtLeastOneOwner`, `OneTokenPerLogin`; `EntriesInvalidated`, `ReachSuffices` |
| `rooms` | *crowd*: 2 clients in one room; *alone*: one client that reconnects, with a deadline, in 2 rooms; 1 evictor, buffer 1 | `EvictedHearNothing`, `EvictionReachesAll`, `SubscribersKept`, `EvictedSocketCloses` |
| `storage` | *life*: 2 database files of one id, 2 deletions, a request, restarts; *boot*: 3 starts on older data, cut off anywhere; *tenant*, *admin*, *tus*, *quota*: 1 file of each kind, 2 handlers, 2 chunks, tiers 0..2 | `EvictionsSuffice`; `BootIdempotent`, `UpgradeKeepsAccess`; `QuotaHeld`, `AckedReadable`, `LogRefined` |
| `schema_ops` | *schema*: 1 collection, 2 pools, 2 tasks, 4 changes; *indexes*: 2 collections, 1 column, 1 full-text name, 2 operations at once, 3 in all | `ChangesInvalidate`; `RegistryTruth`, `NoDanglingFk` |
| `cron` | 1 tenant, a job created again under a new id, 2 minutes, 1 handler, boot scan, soft delete, 1 permit | `OverlapGate`, `IndexFresh`, `EveryFireEnds` |
| `records` | *history*, *rights*, *events*, *rpc*, *writerpc*: 2 users, 2 rows, 2 requests, 1 subscriber, 1 stored RPC, 2 changes of the settings | `RpcSafe`, `HistoryChain`, `NoTrespass`, `SseNoLeak` |
| `dispatch` | *store*: 2 functions that share bytes, 2 handlers, 3 edits; *queue*: 2 tenants, depth 2, channel 1, 1 permit, 3 events; *hooks*, *deliver*: 2 tenants, 2 origins, 3 deliveries, 2 attempts | `BindFresh`, `DepthExact`, `RevocationHonoured`, `AllServed`, `DeliveriesEnd` |
| `tenancy` | *login*, *oauth*, *service*, *config*: 2 users, 2 tokens, 2 handlers; *caps*, *quotas*: 2 admins, 2 requests, each id used twice; *audit*: 3 entries, channel 2, stash 1; *prune*, *restore*: 4 archives, 3 days | `EntriesCurrent`; `ReviewTruth`; `AuditAccounted`, `AuditDrains`; `RecoveryPoints` |
| `rules` | *policy*, *template*, *list*, *files*: every clause, template, call and pair of prefixes of a small grammar, each written through its handler and read back; *sql*: 2 callers on a reader and the writer | `PolicyAgreement`, `TemplateSound`, `ReadsGated`, `FileListAgrees`; `ConnectionsBare`, `AnswersHold` |

Each property has a fault that breaks it on its instance. What they say of the
code:

- *Identity.* Two owners cannot demote each other although both act on a stale
  role, because the count of other owners is taken where the row is written. A
  login that is refreshed twice at once keeps one token. A cached credential
  that a revocation should reach is good, was filled late, or a hook is on its
  way; the reach read with the commit covers every socket that lost its tenant.
- *Rooms.* A bump reaches every socket that captured its baseline before; after
  it a socket finishes at most the operation it was in, hears nothing new and
  closes. Only an eviction takes a room from a subscriber.
- *Storage.* A deletion drops every pool and wrapper registered before it. A
  start on older data can be repeated and loses nobody's access (but for the
  cut below). Rows stay within the largest tier a tenant had. A file whose
  upload was answered with success has a row and the object it points to,
  whatever failed since, but for overlapping changes of one file (below). A
  resumable upload implements `UploadLog`.
- *Schema.* A cache entry that was current when inserted is current or about to
  be invalidated. Full-text tables and their registry agree at all times;
  vector columns, index descriptions and foreign keys do except where marked
  operations overlapped.
- *Cron.* No two fires of a job work at once, the index equals the jobs whenever
  no writer is pending, and every fire ends.
- *Records.* No request obtains what neither the settings at its gate nor later
  ones allow; the history of an audited record is a chain from insert to its
  present state; no stored RPC callable by anon survives a setting that makes
  it unsafe; no subscriber hears what the settings since its gate forbid.
- *Dispatch.* The cached bindings are the active ones or about to be
  invalidated; the depth counter is exact; every admitted invocation is served;
  a narrowed allowlist stops deliveries that were already parked; every
  delivery ends.
- *Tenancy.* After a handler has cleared it, the bearer cache holds no token the
  handler took back; a review names who asked; every audit entry is stored,
  waiting or counted as lost, and the queue drains; pruning leaves the promised
  recovery points.
- *Rules.* Accepted policies mean the same in memory and in SQL; accepted
  templates are sound for every accepted call; lists, aggregates and searches
  stay inside policy and scope; a file list shows exactly the files a single
  read would. Connections go back bare on every path but one (below).

### Disagreements with what the repository says

Each is a run that TLC refutes, with the quoted sentence in `findings`.

| Run | What happens |
|---|---|
| `tenant_mcp` | `McpRegistry.services` is never evicted: a re-created id serves MCP from the deleted life's database |
| `schema_stale` | a schema read before a change is inserted after the change's invalidation and stays; the cache has no TTL |
| `reader_leak` | the preview of a delete whose collection is dropped meanwhile returns its reader with the strict authorizer on |

### Further behaviours worth knowing

The models contain these because the code has them; the properties except them
by name (history fields such as `late`, `missed`, `cut`, `raced`, `crossed`,
`astray`).

- A pool or an MCP service inserted after the eviction that should have removed
  it; an auth-cache entry filled after the clear; two pools, hence two schema
  caches, of one tenant after two first requests at once.
- `_cli_device_codes` remembers the row id of its token: approve, remove the
  approver, mint another token on the freed id, poll, and the poll hands out
  the other token.
- `cli_token_refresh` resolved its caller's token row; when the caller is
  removed before the transaction and the row id is handed out again, the refresh
  revokes the token of whoever has the id by then, mints one for the removed
  caller's id if that was invited again, and clears and evicts for the caller
  only (`astray` in `AdminIdentity`).
- A stream whose Sender `evict_room` dropped still counts as subscribed until
  it is polled: a subscribe in between is acknowledged and hears nothing.
- A failed rename, or a crash before it, leaves a deleted tenant's only copy at
  the live path, which the next creation of the id removes.
- A crash between `ADD COLUMN role` and the UPDATE that makes somebody owner
  leaves a host without an owner (`cut` in `Migrations`).
- Two opposite visibility changes of one file at once can delete the object the
  row points to (`crossed` in `FileStore`).
- A PATCH handler that is cancelled while a blocking write runs leaves bytes
  that its successor reads as accepted; the length it reports is then true.
- Collecting artifacts can race a put of the same bytes (`raced` in
  `FunctionStore`). A module cache of capacity 0 panics.
- A cron reload after `invalidate` can put the entry of a deleted tenant back
  through the pool its handler holds; the fire it causes ends at `get_if_live`.
- `delete_handler` decides on history capture with the audit flag of its gate.
- `call_rpc` over MCP runs an RPC by what it contains, not by its `mode`.
- `$like` on numbers differs between SQL and memory (`PolicyAgreement` excepts
  it), as SQLite formats the number.
- `drop_index` called for another collection leaves the description of the
  index under its own.

### Bounds

A bound is a constant named in its module and stops only the action that would
pass it; a scene only narrows which inputs occur. They are chosen by the
shortest histories that matter: two handlers for a check in one and a commit of
the other; two ids where an id is handed out again; a second pool for a second
cache; a login's token and two successors beside the unlabelled token, the least
at which two racing refreshes could both mint; two minutes so that the overlap
gate is contended; queue depth 2 with channel 1 so that both limits are met; two
chunks so that a repeated PATCH can be behind or ahead. Where the argument does
not depend on the number (evictions, deletions, fires, operations in flight),
the theorems of section 4 remove the bound.

Symmetry is used only in runs of safety properties, over sets whose members no
definition tells apart.

### Fairness

- `rooms`: a connection's loop task is polled, its keepalive timer fires, and a
  send to the peer completes. The last is an assumption about the peer: the code
  has no send timeout, so a peer that stops reading keeps its socket.
- `cron`: weak fairness of each fire's steps. tokio polls a spawned task, its
  mutex and semaphore queue their waiters, functions have a wall-clock limit. An
  RPC statement is assumed to end.
- `dispatch`: `FEFair`, `WFair`, weak fairness of the runtime as a whole
  (router, lanes, runs; fan-outs and deliveries): some task that can run does.
  Requests and edits have no fairness.
- `tenancy`: `AFair`, weak fairness of the audit writer, a loop on its own task.


## 4. What is proved

TLC explores the instances of section 3. The theorems below hold for every value
of the constants that meets the named assumptions, so for any number of admins,
tenants, sockets, uploads, jobs and handlers in flight. The assumptions only say
what the code's constants are: bounds are natural numbers, the sets of names are
disjoint from the markers that stand for "none", the first owner exists, what
reaches the access rules has passed serde and the tables are STRICT (a clause is
a tree of known nodes, a literal is JSON, a cell has its column's class or is
NULL, a caller's id is a text)
(`IdentityAssumption`, `RoomAssumption`, `MaxFileAssumption`, `CronAssumption`,
`FileAssumption`, `UploadAssumption`, `BoundsAssumption`, `IndexAssumption`,
`RequestsAssumption`, `UsersAssumption`, `WebhookAssumption`,
`FunctionStoreAssumption`, `FunctionExecutorAssumption`, `MigrationAssumption`,
`SqlAssumption`, `ConfigAssumption`, `RecordAssumption`, `AuditAssumption`,
`BackupsAssumption`; for the rules `DepthAssumption`, `SchemaAssumption`,
`RowsAssumption`, `CallersAssumption`, `PoliciesAssumption`,
`TemplatesAssumption`, `ParamSpecsAssumption`, `ArgumentsAssumption`,
`FilesAssumption`, `PrefixesAssumption`, `FileCallersAssumption`,
`FilePolicyRowsAssumption`). TLC evaluates each on the instances of the runs.

Every proof has the same shape: an inductive invariant, the lemma that the
initial states have it, one lemma per action (or per group of actions that end
in the same write), and the theorem that combines them. The invariants were
first checked by TLC on the scenes of their component.

| Module | Theorem | States | For every behaviour |
|---|---|---|---|
| `AdminIdentityProofs` | `TypeCorrect`, `DoorTypes` | `TypeOK`, `DoorTypeOK` | tables, handlers, cache and sockets keep their types |
| | `OwnerRemains` | `AtLeastOneOwner` | the host keeps an owner |
| | `TokensHaveAdmins` | `NoOrphanToken` | a token row has its admin |
| | `LoginsHoldOneToken` | `OneTokenPerLogin` | a device login has at most one live token |
| | `EndedRightsLeaveTheCache` | `EntriesInvalidated` | a right that ended is out of the cache or its hook is owed |
| | `ReachCoversSockets` | `ReachSuffices` | a socket that lost its tenant is marked or its eviction is owed |
| `RoomBusProofs` | `RoomTypes`, `CellsShared` | `TypeOK`, `HandleIsCurrent` | every socket holds the cell its tenant's evictions bump |
| | `EvictionComplete` | `EvictionReachesAll` | when an eviction returns, the sockets it found are closed or fail their next check |
| | `EvictedAreDeaf` | `EvictedHearNothing` | an evicted socket is subscribed to nothing, but for its one late operation |
| | `OnlyEvictionsCut` | `SubscribersKept` | only an eviction takes a room from a subscriber |
| | `LateOperations` | `AtMostOneLateOp` | of a socket's operations at most one takes effect after the bump |
| `TenantLifecycleProofs` | `LifecycleTypes`, `DeletionEvicts` | `TypeOK`, `EvictionsSuffice` | a deletion leaves nothing of the deleted life registered, but for what was inserted after it |
| | `DeletionDropsTokens`, `SnapshotsSurvive`, `DeletedStaysDeleted` | `TokensDropped`, `SnapshotKept`, `OnlyAdmittedCreate` | cached tokens go, the final snapshot stays, only a creation or a request that read a live row makes a database |
| | `StartsAreIdempotent`, `UpgradesKeepAccess` | `BootIdempotent`, `UpgradeKeepsAccess` | starts, crashes and repeated starts mint, grant and assign once; who had access before an upgrade has it after |
| `CronSchedulerProofs` | `OverlapExcluded` | `OverlapGate` | two fires of a job never work at once |
| | `TenantSerialized`, `DispatchedOnceAMinute` | `OnePermitPerTenant`, `MinuteOnce` | one permit per tenant; a minute is dispatched once, whatever the clock does |
| | `IndexIsFresh` | `IndexFresh` | with no reload under way the index is the tenant's active jobs |
| | `RunsHaveJobs` | `NoOrphanRuns` | a run row belongs to a job that exists, whatever is deleted under its fires |
| | `ConnectionsComeBack`, `AnswersAreTrue` | `ConnectionsBare`, `AnswersHold` | a connection returns to its pool with nothing installed; what a write RPC reports is what the database holds |
| `UploadProofs` | `UploadTypes`, `UploadsImplementLog` | `UTypeOK`, `LogRefined` | the detailed uploads implement `UploadLog` |
| | `QuotaIsHeld` | `QuotaHeld` | a tenant's rows stay within the largest tier it had |
| | `AckedFilesReadable` | `AckedReadable` | an acknowledged file is readable where its row points |
| | `RpcGuardsMeet` | `RpcSafe` | no anon-callable SQL RPC over hidden rows, but for a save that was overtaken |
| | `NobodyTrespasses`, `StreamsDoNotLeak` | `NoTrespass`, `SseNoLeak` | requests and subscribers keep to the committed settings |
| | `HistoriesAreChains` | `HistoryChain` | the history of an audited record links up and ends in its row, whichever door wrote it |
| `TenancyProofs` | `RequestTypes`, `ReviewsAreTrue`, `ApprovalsRaise` | `RqTypeOK`, `ReviewTruth`, `ApprovalRaises` | a review names who asked; an approval raises what its subject has |
| | `CachedBearersCurrent`, `RevokedStaysRevoked` | `EntriesCurrent`, `NoResurrection` | a cached bearer is current or about to be cleared; a revoked one does not come back |
| | `EntriesAreAccounted` | `AuditAccounted` | every audit entry is in exactly one place, the dropped ones are counted |
| | `PruningKeepsPoints` | `RecoveryPoints` | at every step of a pruning the latest days keep an archive |
| | `RestoresAreKept` | `RestoredKept` | an acknowledged restore is under `_trash`, but for two of a tenant in one second |
| | `PoliciesAgree` | `PolicyAgreement` | a stored policy admits the same rows in memory and in SQL, for clauses of any shape within the depth bound |
| | `ReadsAreGated` | `ReadsGated` | a list, an aggregate or a query answers only rows its policy and scope admit |
| | `TemplatesAreSound` | `TemplateSound` | a stored template compiles for every accepted call of every caller |
| | `FileListsAgree` | `FileListAgrees` | a file list shows exactly the files a single read would, for any table of prefixes |
| `DispatchProofs` | `RevocationIsHonoured` | `RevocationHonoured` | a narrowed allowlist stops deliveries that were parked |
| | `BindingsFresh`, `DepthIsExact`, `QueueIsBounded` | `BindFresh`, `DepthExact`, `QueueBounded` | bindings are current or about to be invalidated; the depth counter is exact and bounded |
| `SchemaProofs` | `SchemaTypes`, `ChangesReachCache`, `MetaRowsFollow` | `TypeOK`, `ChangesInvalidate`, `MetaFollowsTable` | a change invalidates the cache entries it outdates; meta rows follow their table |
| | `RegistriesTrue`, `ForeignKeysHold` | `RegistryTruth`, `NoDanglingFk` | full-text, vector and index registries agree with the tables; no dangling foreign key |

Why the invariants have to be stronger than the properties:

- *Identity.* `AtLeastOneOwner` is inductive only beside the fact that a handler
  past its checks acts on rows that are still there. `IInv` adds the ids not
  handed out yet (`Unborn`), rows that have admins (`RowsOK`), and what a
  handler that is ready to commit may rely on (`ReadyOK`); one token per login
  needs that the plaintexts not minted yet occur nowhere (`MintedOK`). For the
  door, `DoorInv` adds `Addressed`: a handler that owes a hook or an eviction
  owes it for the admin and the tenants whose right it ended. The step lemma
  says it once for all handlers: where a right ends (`RightsEnd`), the handler
  that ended it pursues it (`IdentityPursues`).
- *Rooms.* `EvictionReachesAll` needs that a socket's cell is the registered one
  (`HandleIsCurrent`), that baselines are not ahead of their cell (`Bases`),
  that marks are older than the bump they stand for (`MarksOld`, `MarkedGo`),
  and that the walk over the tenants has not yet met what it will (`Unseen`).
  That a late operation is the last one needs where it leaves its loop: outside
  every operation, with a check before it that must now fail (`OneLate`).
- *Tenant life.* Registrations carry the life they were made in; the invariant
  says which deletion still has to pass over each (`EvictionsSuffice`).
- *Cron.* `FInv` ties each in-flight marker to the one fire that set it
  (`Marked`, `Owned`) and every dispatched minute to the past (`RanPast`,
  `FutureUnborn`). The index needs `XInv`: per tenant one lock cell (`OneArc`),
  one holder inside it (`OneInside`), what the holder read still being true
  (`SeenTrue`), and the index being fresh unless a writer is pending (`FreshAt`).
  `NoOrphanRuns` is inductive as it stands, beside the types.
- *Uploads.* `LogInv` says that the handlers past the lock are apart (`AllApart`:
  two of one upload never hold the lock through different Arcs), that each fits
  the session it started from (`AllFit`), and what the spool holds (`Spools`);
  the refinement follows action by action, most actions being stutters of
  `UploadLog`. `QuotaInv` adds the tiers that handlers carry. `AckInv` says of
  every key that is not excepted who may still touch it: one handler at most
  (`Alone`), which of its awaits it is in and what row and object are then
  (`FileOK`, `UpOK`), and that a session and its handlers agree on the bucket.
- *Migrations.* `MgInv` says of each tenant what its database, its marker rows
  and the metadata are at every point of a start (`EgressTrue`, `RuleTrue`,
  `GrantTrue`, `OwnerTrue`), a crash between the write and its marker included,
  and of each admin that a token exists once the minting is past (`MetaTrue`).
- *SQL bodies.* `SqlInv` says which call holds the writer and in which part of
  its body (`HolderWrites`), what is installed on the writer and on each reader
  there (`WriterKnown`, `ReadersKnown`), and what the open savepoint holds beyond
  the committed rows (`DataTrue`, `Counted`).
- *Records.* `RecInv` says that the cache has the committed settings except while
  a change has yet to invalidate it, and what it may have then (`CacheTrue`);
  that the stored RPCs and the one being saved pass the guard (`GuardsMeet`); and
  that a handler or a subscriber no change overtook was admitted under settings
  that still stand (`TasksTrue`, `SubsTrue`). For the history, `HistInv` adds
  that no entry is of a later audit period than the current one (`Dated`), so
  that switching audit on begins new chains, and that ids not given out have no
  row (`Unspent`), so that a batch's new ids start from nothing. A write adds
  one entry to one chain (`CaptureChains`), a user's cascade one to each of the
  user's records in any order (`CascadeChains`), the buffer of a write RPC what
  its statements would have (`FlushOne`, `FlushTwo`), and pruning takes the
  first entry of one chain (`PruneChains`).
- *Users and requests.* `UInv` holds the accounts' sessions and the cache
  together with the handlers between a revocation and its clear (`Current`);
  `RqInv` follows an id through its reuse.
- *Audit.* `AuditInv` is `AuditAccounted` with the types, restated over sets:
  channel, buffer, table, losses and drops share out the numbers of the entries
  (`Shares`), and a send, a receive, a stash and a flush each move one share.
- *Backups.* `prune_backups` is modelled archive by archive, so that what its loop
  keeps is an invariant of the loop (`PruneSound`): the days taken are the
  script's own and days not before any archive left to scan, each with an
  archive that is kept (`PruneDays`), and the daily counter is their number
  (`PruneCounts`). An archive of a day that must be kept then finds its day
  taken or a slot free (`RoomForAPoint`). For restores, a request is the only one
  at work in its directory unless the second is on record twice (`DestsApart`).
- *Rules.* What an evaluator computes is a recursive function over the levels of
  a clause. That it exists, and has its defining equation, is shown by induction
  over the set of depths at which it does (`AllNaturals`, from the least element
  of a set of naturals); two evaluators are then compared level by level, from
  the deepest up. `QInv` says that the stored policy and query passed validation
  and that the last answer was gated when it was given; `FInv` that every row of
  the policy table did, or is one of the root rows that a start seeds. A range of paths is a
  prefix (`RangeIsPrefix`), and two matching prefixes of one length are equal, so
  the arms of the list filter are apart. A template and what a call makes of it
  have the same shape level by level (`SubstitutedLevels`, `Alike`, `Fits`), so
  what validation saw with dummies holds of the arguments. Two exceptions are in
  the properties because the code has them: `$like` on a number
  (`NumberLike`) and a full-text query that is NULL (`NullSearch`).
- *Dispatch.* `WInv` relates what a parked delivery checked to the version of
  the allowlist; `FEInv` counts queue, lanes and running invocations (`ExactAt`,
  by cardinalities) and bounds them.
- *Schema.* `SInv` says of each entry that it is true or a change that outdates
  it still has to invalidate; `IInv` says of each collection what its table,
  full-text heads, descriptions, vector registrations and keys are while an
  operation is between its two writer calls (`Bare`, `FtsTrue`, `DescTrue`,
  `VecTrue`, `FkTrue`, `DropTrue`).

### Only model-checked, and why

- Liveness (`EvictedSocketCloses`, `EveryFireEnds`, `AllServed`,
  `DeliveriesEnd`, `AuditDrains`): the proof system has no rules for fairness
  and ENABLED that its backends can apply.

Every other property of the passing runs is also stated by a theorem.

## 5. Plan

What is left: the components that `PROJECT.json` lists as partly or not
modelled (the code generator, the admin pages, the rate limits, the OAuth login
of admins), and the liveness properties once the proof system can reason about
fairness.

## 6. Running

    tlc -workers 2 -config MCCron.cfg MCCronScheduler
    tlapm RoomBusProofs.tla

`PROJECT.json` lists the runs with their modules, configurations and what is
expected of them (three expect a violation and are the disagreements above),
the fault that breaks each property (`mutants`), the source lines of every
definition (`map`), the components, hazards, findings and theorems. The longest
runs (`storage`, `admins`, `records`, `tenancy`) take three to four minutes
each, the proofs together some minutes per module.
