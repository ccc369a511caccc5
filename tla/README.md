# A verification project for parachute-hub

parachute-hub is one Bun/TypeScript process that supervises a handful of modules (vault,
agent, surface, ...), is their OAuth authorization server and reverse proxy, keeps its state in a
SQLite database (`hub.db`) and a few JSON files, and has a command line that changes the same files
from other processes. This directory holds TLA+ models of the parts of it whose
correctness depends on the order of events, the TLC configurations that check
them on small instances, and TLAPS proofs for every value of the constants.

Paths below are relative to `src/src/` unless they say otherwise.

## 1. Inventory

Two facts decide how concurrency looks here. The hub is one JavaScript thread:
code between two `await`s is atomic, and SQLite calls are synchronous, so what interleaves is
what happens while a handler is suspended. Everything outside that thread -
child processes, the CLI, the detached upgrade helper, other modules that write
`services.json` - runs truly in parallel and shares only files.

| component | state it keeps | operations | what is hard | what makes it correct |
|---|---|---|---|---|
| Module supervisor (`supervisor.ts`, `orphan-attribution.ts`) | the `modules` map of `ModuleEntry` objects, child processes, crash stamps, start errors | start, stop, restart, the exit handler, readiness gate, late-bind watch | an exit handler that sleeps through a stop; two operators; orphans of a dead hub on the port | one child per entry, a stop that sticks, a bounded restart loop, nobody else killed |
| OAuth codes and refresh tokens (`oauth-handlers.ts`, `auth-codes.ts`, `jwt-sign.ts`) | `auth_codes`, `tokens` | issue, redeem, refresh, replay within the grace window, revoke | state read before the signing await and written after it | single use of codes, one live row per family, revocation that is final |
| Users (`users.ts`) | `users`, and cascades over tokens, codes, sessions | create, reset password, delete | cascades against requests in flight | no credential outlives its user, the first admin stays |
| Vault administration (`admin-vaults.ts`, `vault-rename-guard.ts`) | vault directories, `services.json`, name reservations, cascades over the registry | create, delete, rename | an external CLI between two halves of an identity transaction; crash in between | no credential and no assignment for a name that may change hands |
| Self-upgrade (`api-hub-upgrade.ts`, `hub-upgrade-status.ts`, `hub-upgrade-helper.ts`) | the single-slot status file and its `.tmp`, a detached helper | POST, status poll, the helper's appends, restart | several processes on one file; the hub restarted under the request | one helper at a time, a status that never goes back, a slot that frees itself |
| Module operations (`api-modules-ops.ts`) | in-memory operations registry, `services.json`, the globally linked package, supervisor | install, upgrade, start, stop, restart, uninstall, poll | read-modify-write around awaits, two operations on one module | what runs is what the row names, no stray module, an operation that ends and says how |
| Services manifest (`services-manifest.ts`, `port-assign.ts`) | `services.json` | upsert, remove, port assignment | writers in several processes, no lock | no lost entry, no shared port |
| Boot and shutdown (`commands/serve.ts`, `commands/serve-boot.ts`) | which modules are up | boot every row, stop all on a signal | crash restarts during shutdown | everything stopped at the end |
| Operator token (`operator-token.ts`) | the token file, its registry row | mint, automatic rotation | two processes rotate at once over one temporary name | the file names a row that is not revoked, renewal keeps the scope set |
| Signing keys (`signing-keys.ts`, `jwks.ts`) | key rows | rotate, publish | retention window against token lifetime | a valid token stays verifiable |
| Invites and account setup (`invites.ts`, `account-setup.ts`, `setup-wizard.ts`) | seats, accounts, provisioned vaults, the first admin | claim, redeem, provision, commit | last seat, partial failure, two first claims | seats are never oversold, an invitee gets the vault made for it |
| Sessions, login, second factor (`sessions.ts`, `pending-login.ts`, `two-factor-*.ts`, `totp.ts`) | sessions, pending logins, backup codes, last TOTP step | login, verify, consume | a hash comparison awaited between read and write | each code is consumed once |
| Request gates (`admin-lock.ts`, `rate-limit.ts`, `csrf.ts`, ...) | windows and counters | check | limits and boundaries | the limit is the limit |
| Agent grants (`admin-agent-grants.ts`, `grants-store.ts`, `oauth-flows-store.ts`) | grants and pending consents in two JSON files, token rows, refresh tokens of remote issuers | declare, approve, consent, refresh, revoke, reconcile | a whole record written back from what was read before an await | one live token per grant, approval only when asked, an approved grant that works |
| Connections, channels (`admin-connections.ts`, `channel-*.ts`) | JSON stores, rosters | provision, reconcile | two services and partial failure | no binding for a deleted channel |
| Clients, mint and revoke endpoints, nostr identity, account API | registry rows | mint, revoke, reap, link | compare-and-set, replay | attenuation, single use |
| Hub database liveness (`hub-db-liveness.ts`) | the handle | probe, swap | a handler holding the old handle | no write to a lost file |
| HTTP server, proxy, websockets, git, pages, SPA, packages | mostly none | | I/O | |

How they interact. The HTTP server calls the handlers; module operations, boot and the admin
endpoints call the supervisor; user and vault administration rewrite the rows
the token endpoint reads; the vault CLI and the CLI of the hub change
`services.json` behind its back; the upgrade helper kills and restarts the hub
that spawned it. `PROJECT.json` lists each component with its files and status,
and under `hazards` each place where this code could go wrong in a way a test hardly
reaches, with the properties that watch it.

## 2. Modules

| module | models | state | actions |
|---|---|---|---|
| `Supervisor` | `supervisor.ts` for one module | `registry` (the map slot), `entry` (entry objects), `proc` (processes with their exit handler), `holder` (who listens on the port), `call` (suspended stop/restart) | `Start`, `Stop`, `Restart`, `KillTimeout`, `StopReturns`, `RestartReturns`; `ExitStopped`, `ExitBlocked`, `ExitAdopts`, `ExitCrashed`, `AdoptKills`, `AdoptReturns`, `Respawn`, `RespawnDropped`; `GatePoll`, `GateExpires`, `LatePoll`, `LateExpires`, `ProbeAnswers`; the world: `Dies`, `Binds`, `OutsiderMoves`, `StampAges`, `HubDies` |
| `TokenRegistry` | `/oauth/token`, `/oauth/revoke` and the cascades of users and vaults on `tokens` and `auth_codes` | `users`, `vaults`, `reserved`, `code`, `token`, `request` (suspended handlers), `vaultOp` (a suspended deletion or rename) | `IssueCode`, `Redeem`, `Refresh`, `GrantCommit`, `RotateCommit`, `CommitRefused`, `Revoke`, `ResetPassword`, `DeleteUser`, `DeleteSweep`, `VaultRemoved`, `RenameStarts`, `RenameCommits`, `VaultOpFails`, `CreateVault`; time and crashes: `CodeExpires`, `RowAges`, `ReservationEnds`, `HubCrash` |
| `HubUpgrade` | the self-upgrade, across hub and helper processes | `host`, `slot`, `temp`, `request`, `helper`, `lastOp`, `expired` | `Admit`, `SeedStages`, `SeedLands`, `SeedThrows`, `Spawn`; `AppendReads`, `AppendSkips`, `AppendStages`, `AppendLands`, `AppendThrows`, `UpgradeEnds`, `RestartUnit`, `SignalHub`; `HelperDies`, `HubDies`, `Expire` |
| `ModuleSlot` | what the supervisor promises of one `ModuleEntry`, abstractly | `up`, `asked`, `said`, `credit` | `Spawn`, `Exits`, `Ask`, `Refill`, `Report`, `Forget` |
| `ModuleOps` | `api-modules-ops.ts` for one module, with the boot loop, over a supervisor seen from outside | `row` (services.json), `package` (the bun link), `sup` (the registered entry), `request`, `op` (the operations registry), `hub` | `StartReads`, `Resolved`, `RestartReplays`, `RestartReturns`, `StopBegins`, `StopBlanks`, `StopForgotten`, `StopReturns`, `Removed`, `InstallBegins`, `InstallBeginsRegistered`, `UpgradeBegins`, `AddSucceeds`, `AddFails`, `AddFailsAndGoesOn`, `Seeds`, `Composed`, `Refreshed`; the world: `ChildGivesUp`, `RowDrifts`, `HubDies`, `Boot` |
| `OperatorToken` | `operator.token`, its registry rows and the signing keys, shared by the hub and command lines | `now`, `keys`, `token`, `row`, `owner`, `command`, and the files as inodes: `content`, `tmp`, `file` | `Reads`, `Validated`, `RotateBegins`, `FirstKey`, `Records`, `Opens`, `Writes`, `Renames`, `RotateKey`, `Revoke`, `BreakGlass`, `SetPassword`, `ChangePassword`, `Dies`, `Tick` |
| `Accounts` | the claim of a fresh hub, invites and redemption, users, vault assignments under deletion and rename | `users`, `invites`, `disk` (what the vault CLI keeps), `listed` (services.json), `reserved`, `request` | `Claim`, `MintInvite`, `RevokeInvite`, `Redeem`, `Resolves`, `Creates`, `Create`, `Commits`, `CommitFails`, `EditVaults`, `Promote`, `DeleteUser`, `Delete`, `Removes`, `Rename`, `Renames`, `Restarts`, `ReservationEnds`, `HubDies` |
| `AgentGrants` | the grants of one agent and their consents | `grant`, `flow`, `cred` (token rows and the issuer's refresh tokens), `wire` (what the issuer has been asked to end), `req` | `Upsert`, `Approve`, `ApproveMints`, `ApproveSigned`, `ApproveFails`, `ApprovePasted`, `ApproveDiscovers`, `FlowStarts`, `GivesUp`, `Callback`, `FlowEnds`, `Exchanges`, `CallbackReplaces`, `CallbackReturns`, `Material`, `Refreshes`, `Refreshed`, `RefreshFails`, `RevokeLocally`, `Revoke`, `RevokeAsks`, `RevokeReturns`, `Reconcile`, `ReconcileReturns`; the issuer: `IssuerRevokes`; deaths of the hub: at an await (`HubDies`) and between two writes (`DiesTearing`, `DiesPruning`, `DiesMinting`) |
| `MC*` | instances for TLC | | symmetry, a view |
| `*Proofs` | theorems of the module they extend | | |

`map` in `PROJECT.json` gives, for each definition, the lines it translates.
Definitions whose comment starts with "Mutant" are not part of the models: each
is a plausible bug in the definition it stands for, and shows which property
would catch it.

How the modules fit together. `ModuleSlot` is the abstract specification
`Supervisor` implements (`Supervisor!Abstract`, property `SlotsKept`). `ModuleOps`
composes the operator's requests with the supervisor, which it sees through what
`start`, `stop` and `restart` do to the registered entry; that a `stop` returns is
`StopCompletes` of `Supervisor`, and an assumption (fairness) of `ModuleOps`. `TokenRegistry` and
`Accounts` share users and vaults: the former follows what a
deletion or rename does to credentials, the latter what it does to people.
`OperatorToken` and `AgentGrants` keep registry rows of their own that no
refresh touches.

### Supervisor: correspondence and abstractions

- An action is a stretch between two awaits. `handleExit` is cut at the adopt
  pause (`adopting`) and the back-off sleep (`backoff`), `stop` at its
  await of the exit, `restart` inside its `stop`, the gate at the port probe
  (`...Ask`).
- Entry objects have identities because `restart` drops one from the map
  while closures still refer to it; an object nothing refers to is collected
  (`Collect`) before anything else happens.
- One module is modelled. Modules meet only in `supervisedPids()`, and a
  sibling on this module's port is an `Outsider` (nothing vouches for it) or
  an unseen holder. Restart options, log pumps and environment
  assembly are left out; a spawn has the three outcomes the code tells apart.
- A pid is not reused while any live object refers to it.
- `HasMarker` says which module is modelled. `moduleMarkerFor` (`supervisor.ts` 852-857) gives a
  module the name of its own binary or its install directory; for a generic runtime
  without an install directory it gives none, and `orphan-attribution.ts` 96 then looks
  for the word "parachute" in the command line, so that a stranger or a sibling whose command line
  has it is adopt-killed. `Attributable` takes both cases; without a marker it takes the worst, in
  which every command line has the word.
- `aged`, `spawns` and `hubDeaths` are history or bounds; no guard of the code
  reads them.

### ModuleSlot: the refinement

A slot is *up* while a process of the entry lives, *asked* once a stop or
restart has flagged it, *said* while it reads `stopped`, and its *credit* is the
budget, less its spawns, plus the stamps that left the window. Everything else of
`Supervisor` - pids, orphans, the port, sleeping exit handlers, gate and watch - disappears.
One event of the hub (its death, the drop of an entry) may move several slots at once, so
a step of `ModuleSlot` gives each slot a step of its own or none.

### TokenRegistry: correspondence and abstractions

- `request` holds what a handler carries across the await of `signAccessToken`
  by value. Two of them may be in flight.
- Row status: `live`, `lapsed` (expired), `recent` (revoked within the grace
  window), `old`. `RowAges` is time passing; a rotation stamps `revoked_at` with the time the
  request began, which `RowAges` may follow at once.
- Scopes are reduced to the vault they name; PKCE, clients, audience and resource
  checks are outcomes that end a request without effect. A code may name any
  vault, existing or not: the consent of the hub admin is not checked against
  the manifest.
- One vault administration operation at a time; `VaultOpFails` and `HubCrash`
  leave disk and registry in each state the code can leave. A reservation may
  end at any time, which the code allows only 16 minutes after the rename: the
  model permits more than the code.
- A change of one's own password revokes the same rows as the reset and is the same action.
- `overlapped`, `resetCodes` and the `code` of a row are history.

### HubUpgrade: correspondence and abstractions

- Reads, writes and renames of the status file are separate steps of
  the helpers; the hub's own write-and-rename is cut in two as well, and no other
  request of the hub runs in between (`HubFree`). Truncating and writing the
  temporary file is one step.
- A record is its operation and phase; a log line is an append that rewrites the
  whole record with the phase it read. The appends of unit-restart messages and of
  "already gone" are folded into the step they follow.
- `host` decides who restarts: the service manager (`unit`), the container
  runtime after a signal (`container`), nobody (`plain`), or no in-place
  upgrade at all (`pinned`).
- `HelperDies` at any time covers a crash and a service manager that stops the
  whole control group. After a successful unit restart the slot stays
  `restarting` until the time limit; the code says so, and it is not reported as a disagreement.
- `expired` operations are those older than `IN_FLIGHT_TTL_MS`; they may expire in any order and at any time.
- `disorder` is history: `race` when a request seeds although another operation
  was seeded after it passed the guard, `overrun` when an operation expires while
  it is still at work.

### ModuleOps: correspondence and abstractions

- A handler that awaits has one action per stretch; `request[r].at` names what it
  waits for: the row and manifest lookup (`resolving`), `bun add -g` (`adding`), the
  seed of the row, the composition of the spawn request, the supervisor's stop, the package
  removal, the refresh of the row.
- `row` is the module's row reduced to its port (canonical or not) and the release its
  `installDir` holds; `package` is the release the global link has. Releases are numbers, and an
  `add` puts the present one or the next in place.
- Validation of the short name, catalogue, channel choice and log lines are left out;
  a failing step is an alternative of its action.
- `RowDrifts` is the module rewriting its own row; `HubDies` keeps files and drops
  `sup`, requests and the operations registry; `Boot` starts from the row.
- `overlap` is history: which requests were in flight together.

### OperatorToken: correspondence and abstractions

- All writers use one temporary name, so files are inodes: `Opens` truncates what
  the name holds or makes a new inode, `Writes` goes to the writer's descriptor,
  `Renames` moves whatever the name holds by then.
- `Records` is the commit of the registry row after the signing await, with the
  `updated_at` of the owner read before it; `ChangePassword` and `SetPassword` move it.
- The clock counts days on a small scale. `TTL` and `Threshold` keep
  the code's order (threshold below life); `Retention` is any, and in the run shorter than a life, as in the code.
- Issuers are one value; a mismatch is an alternative of `Validated` (the self-heal).
- `chosen`, `overlapped`, `excused`, `lastUse`, `weekly` are history.

### Accounts: correspondence and abstractions

- Each vault carries the number of its creation, so an assignment that outlives its vault
  is seen as one to another vault of the same name.
- `disk` and `listed` differ between the vault CLI's step and the restart that
  lets the module register what it finds.
- The four invite shapes are those of `api-invites.ts`: a vault of the invitee's choice,
  a pinned name, a share of an existing vault, none.
- Expired invites, per-IP limits, usernames and passwords only reject requests, and a rejected
  request changes nothing.
- `hasty` is history: names given to somebody while a deletion or a rename of theirs ran, while
  `services.json` was behind, or whose rename was cut short.

### AgentGrants: correspondence and abstractions

- A handler holds the record it read (`seen`) and writes the whole of it back,
  which is what the code does with `putGrant`.
- Kinds `vault` and `surface` are *minted*: the credential is a token row of the hub. Kind `mcp`
  is *remote*: a refresh token of an issuer; a pasted token, and an exchange that returns no
  refresh token, are `Pasted`. Kind `service` is the pasted path alone.
- The issuer is the environment: it redeems a code, refreshes with or without rotating,
  refuses, and revokes only what it is asked to. Discovery and client registration are one await
  with a verdict.
- `revokeRemote` and a refresh are requests on the `wire`. The issuer acts on one on its own time
  (`IssuerRevokes`): while the handler waits and the record still reads approved, after
  the handler timed out and wrote, after the hub died, or never (no revocation endpoint, a request
  that is lost). Other handlers run meanwhile, and `Material` serves what the record says.
- A death of the hub at an await keeps files, rows and the wire. Between a row's revocation and
  the write of the record (`DiesTearing`, `DiesPruning`) it leaves an approved record with a dead token; between
  `recordTokenMint` and `putGrant` (`DiesMinting`) a registered row whose token nobody was ever
  given (state `lost`).
- An await of something already settled lets no other request in between, and is no cut. Ids are distinct; two
  targets whose slugs collide in `grantId` are not modelled.
- Rows revoked by other means (the token endpoint, the sweep of a vault deletion) are not modelled here.
- `credit`, `revived`, `overlapped`, `broken` are history; `clicks` counts approvals and is a bound.

## 3. Runs

| run | question | bounds |
|---|---|---|
| `lifecycle` | Do children, stop and adopt-kill hold under two overlapping requests, crashes, orphans and a stranger, and does it all implement the abstract slots? | 2 entry objects, 3 processes, 2 callers, budget 2, one stamp leaves the window, one death of the hub; gate off; a module with a marker |
| `liveness` | Does stop return, is every crash dealt with? | 2 entries, 4 processes, 1 caller; no marker, so that more is killed; weak fairness below |
| `gate` | Whom does the readiness gate blame? | 2 entries, 3 processes, 1 caller, gate on; with a marker |
| `tokens` | Do lineage, codes, reservations and foreign keys survive every interleaving? | 1 user, 2 vaults, 2 codes, 3 rows, 2 requests |
| `upgrade` | Is the guard sound, do reports advance, does the slot free itself? | 2 operations, 2 requests, every host |
| `module_ops` | Do row, package, running module and reported outcome agree, does every operation end? | 2 requests of any kind, 2 releases, 1 death of the hub |
| `operator_token` | Does the file stay usable and of one scope set, does a cut stay a cut, do keys outlive what they signed? | 2 processes, life 2, threshold and retention 1, 3 tokens, 2 keys, clock to 2, 1 cut, 1 event |
| `accounts` | Are seats, the admin's posture and assignments sound? | 2 requests, 2 vault names, links of 1 or 2 seats, 3 accounts, 1 invite, 2 vaults made, 3 events |
| `agent_grants` | Which credentials live, which record holds them, who may be approved? | 1 minted and 1 remote grant, 2 handlers, 1 pending consent, 3 credentials, 2 clicks |
| `one_live_child` | a comment of `supervisor.ts` | as `liveness`, without fairness |
| `reset_is_a_cut` | a comment of `users.ts` | as `tokens` |
| `one_claim` | comments of `bootstrap-token.ts` and `users.ts` | as `accounts` |

Why the bounds are enough. Two entries are what one restart needs (the dropped object
and its successor); three processes make a child, its orphan and a second child
meet, and a fourth is added where the old child must outlive a spawn. A budget of 2
has one respawn and one give-up; one aged stamp tells the sliding window from
a plain counter. Three rows are a root, its successor and either a fork or a second
family; two codes and two requests give every overlap of grant and rotation.
Two operations are an upgrade and its successor. Two operator requests give every pair of
kinds, two releases an old and a new one. Three tokens are the file's, its successor and
one written beside it; two keys are one rotation. Two names let a name change hands
and a vault be renamed; three accounts are the first admin and two invitees on one
link. Three credentials are a token, its replacement and a second replacement in an overlap; two
clicks are the approval and the re-approval, or the two of an overlap, and a third only repeats one of these, as
the handlers are two. Bounds on
events of the world (`MaxAged`, `MaxHubDeaths`, `MaxRelease`, `MaxTime`, `MaxStamp`, `MaxEvents`,
`MaxClicks`) guard those events; where the stock of tokens, keys, vaults, accounts,
entries or processes is spent, no further one is made.

### What the runs show

The nine first runs pass. Three end with a counterexample, to be read beside the
comment they check; `findings` in `PROJECT.json` quotes it:

- `one_live_child`: overlapping restarts, or a start while a restart waits,
  leave two live children, because `restart` deletes whichever entry is
  registered when it resumes.
- `reset_is_a_cut`: codes, and requests in flight, outlive a password reset.
- `one_claim`: two first-boot claims look at the number of users, then hash, then
  insert: both succeed.

Many passing properties carry an exemption. It names, by a history variable, the one
way in which the plain statement fails, and the property says that there is no
other. What those exemptions stand for:

- *Supervisor.* A stop during the adopt pause is overwritten by `restarting` or
  `crashed`; the child does stay dead (`StopSticks`). `StrangersSpared` is stated for a module with a
  marker. `supervisor.ts` 843-846 promises the rest too: without one, attribution is by recorded pid alone,
  "never a false-positive kill". The code does not keep that. With `HasMarker = FALSE` in place
  of the condition TLC finds the kill in five states: the child dies, a stranger takes the port,
  and the exit handler kills it. No run of its own shows this.
- *TokenRegistry.* Two overlapping refreshes both rotate one row and fork the family into two live
  rows (`ForkNeedsOverlap`), where comments of `oauth-handlers.ts` (2896-2897, 2922, 3018-3019) speak of one.
  The sweep of a vault deletion does not reach codes and requests in flight.
- *HubUpgrade.* Two requests pass the guard while both await the target version; the helper's
  check of the operation id and its write are two steps, so that an older helper can overwrite a newer status.
- *ModuleOps.* `uninstall` stops the entry and leaves it registered, so a later `upgrade`
  passes its check (`api-modules-ops.ts` 921-924, 1255-1270), adds the package again and
  restarts a module that has no row: the `replay` of `StrayNeedsOverlap`. Beside an uninstall, any request that
  starts the module can leave it running without a row.
- *OperatorToken.* A change of the owner's password at `/account/change-password` revokes the row of
  the live operator token. After a rotation of the key a 90-day token stops verifying when the
  retention of the old key ends. `SignedTokensVerify` says what is promised: a token's key is
  published for the whole retention window counted from its mint, whatever the token's life, and no two
  keys are active at once. Two writers on one temporary
  name can leave a torn file, although `operator-token.ts` 246-248 says the rename is
  atomic (`overlapped`).
- *Accounts.* A pinned invite that failed after the vault was provisioned cannot be tried again, because
  the name now exists; `account-setup.ts` 48-52 says it can. A second deletion of a
  name that overlaps the first destroys a vault made or moved there in between and leaves its assignments; an
  assignment given while `services.json` lags behind a deletion is inherited by the next vault of that
  name; a rename cut short leaves rows under the old name (`hasty`).
- *AgentGrants.* Two overlapping approvals leave two live tokens (`overlapped`) where
  `admin-agent-grants.ts` 718-719 says one. A refresh or an approval that outlives a revocation
  writes the grant back approved (`revived`). The loser of two refreshes downgrades the
  fresh grant to `needs_consent`. While a handler revokes or replaces a credential the record reads approved and
  material is served although the issuer may have ended it (`Ending`). That outlasts the handler (`broken`) when
  a re-approval finds its vault gone after killing the former
  token, when the hub dies between the end of the credential and the write, or
  when it dies while a refresh is out that the issuer answers with a rotation. That a flow is read and deleted in two
  steps (1063-1068) does not show: no await lies between them.

**Fairness.** Safety runs assume none. `FairSpec` of `Supervisor` has weak
fairness of what the event loop runs when it is due: the exit handler of each process, the kill
timer and the resumption of a stop, the gate's timers. Nothing is asked of operators,
children or strangers. `FairSpec` of `HubUpgrade` asks only that time passes
(`Expire`): helpers and requests may hang for ever. `FairSpec` of `ModuleOps` is weak fairness
of `Continue(r)`: a promise a handler awaits resolves or rejects - bun exits, a
file read ends, and a stop returns, which `StopCompletes` checks. Requests, children, the
hub's death and its boot are asked nothing.

**Deadlock.** `TokenRegistry` and `AgentGrants` are checked for it. The other modules
say `CHECK_DEADLOCK FALSE`: every child stopped and no request left, or every
request and event of the instance spent, is a legal end.

**Symmetry.** Callers, requests, users, vaults, processes and credentials are interchangeable where a
configuration says so; no liveness property is checked under symmetry. The view of `tokens` hides one history variable
(`resetCodes`) no action and no property of that run reads.

## 4. Proofs

`tlapm` proves the theorems below for any number of entries, processes, callers, users,
vaults, codes, rows, requests, operations, grants and credentials. The only assumptions are those
named in the modules (`SupervisorAssumption`, `RegistryAssumption`, `UpgradeAssumption`,
`GrantsAssumption`, `BoundsAssumption`, `TimesAssumption`, `OpsAssumption`): bounds are naturals,
null values lie outside the sets they complete, a grant has one kind, a hub has at least one
vault name, processes are finitely many, the renewal threshold is shorter than a token's life
(`OPERATOR_TOKEN_AUTO_ROTATE_THRESHOLD_SECONDS`, seven days). TLC evaluates them on each run.

| module | theorems |
|---|---|
| `SupervisorProofs` | `TypeCorrect`, `OneChild`, `StoppedIsDead`, `BudgetRespected`, `AdoptSparesSiblings`, `OutsidersLive`, `StopIsFinal`, `BlamesOnlyTheLiving` |
| `ModuleSlotProofs` | `Refinement` |
| `TokenRegistryProofs` | `TypeCorrect`, `NoForkWithoutOverlap`, `TipsHaveParents`, `CodesAreSingleUse`, `RowsBacked`, `OverIsFinal`, `RotationIsAtomic` |
| `HubUpgradeProofs` | `TypeCorrect`, `Exclusive`, `OutcomeReported`, `PollsNeverGoBack` |
| `AgentGrantsProofs` | `TypeCorrect`, `OneTokenPerGrant`, `ApprovalsAreAskedFor`, `ApprovedGrantsWork` |
| `AccountsProofs` | `TypeCorrect`, `SeatsAreNotOversold`, `FirstAdminStays`, `AssignmentsStandForTheirVault`, `InviteesGetTheirOwnVault` |
| `OperatorTokenProofs` | `TypeCorrect`, `CutsAreFinal`, `CredentialOutlivesCrashes`, `RenewalKeepsScope`, `WeeklyUseSuffices`, `KeysOutlastTheirTokens` |
| `ModuleOpsProofs` | `TypeCorrect`, `StraysHaveAnExcuse`, `RunsTheStampedRelease`, `ReportsStand` |

Each module has one inductive invariant `IInv`, a conjunction of named parts,
with `Init => IInv`, one lemma per action (or per kind of action) for
`IInv /\ [Next]_vars => IInv'`, and the theorems as consequences.

- *Supervisor.* "One child per entry" is not inductive: a suspended stop or an exit
  handler could belong to a process the entry no longer names. The
  strengthening says which process belongs to which object (`Owned`), that a
  suspended call holds a flagged object and its only child (`Flagged`), that the
  holder of the port listens (`PortHeld`), and counts: each child but the current
  one has been counted as a crash (`Counted`). `StopIsFinal` and `OutsidersLive` are action
  properties proved from it; the latter says nothing of a module without a marker. `StoppedIsDead` and `BudgetRespected` are proved and
  no longer have a run of their own: the slots imply them. `BlamesOnlyTheLiving` needs
  one part more, kept apart because nothing else rests on it (`Tended`): an entry that
  reads "running" and that nobody stops names a child whose end `handleExit` has not decided on.
- *ModuleSlot.* `Refinement` is `Spec => Abstract!Spec`. It uses the supervisor's invariant and one more part,
  that an object not yet born has no process and a full budget; each action is mapped
  to the step each slot takes: a spawn to `Spawn`, a death to `Exits`, a flag to `Ask`, a
  stamp that ages to `Refill`, a drop to `Forget`, and everything else to no step.
- *TokenRegistry.* `Lineage` relates rows, the codes they descend from and what is
  in flight, with the proviso that a family had no overlapping rotations where the code
  gives no more; `RenameOK` keeps a rename from starting on a reserved name. `RowsBacked` joins
  the two halves of the foreign keys: user and vault name.
- *HubUpgrade.* The guard's promise depends on the files: while `disorder` is
  empty, only the last operation is active (`OneActive`), every request that
  still resolves will see itself late (`OthersLate`), the temporary file and
  the slot hold what the active operation wrote (`SeedStaged`, `SeedLanded`, `CopyStaged`),
  and a helper at work keeps the slot in an in-flight phase (`OwnsSlot`, `CopyInFlight`).
  Helper steps that write no file share one lemma (`QuietMoveKeeps`).
  What polls see holds in disorder too, and has an invariant of its own (`PInv`) that assumes no order:
  a record in the temporary file is the seed of an operation without a helper, the last word of a dead
  helper, or the copy its helper is about to rename (`StagedBy`); what the slot says of an
  operation fits the point its helper has reached, but for that copy (`Told`); and both
  the copy and the temporary file are ahead of the slot (`CopyLeads`, `TempLeads`). So a rename that
  takes another process's file still moves its operation forward.
- *AgentGrants.* "The live token is the recorded one" breaks when a handler stores from
  what it had read. `KnownPrior` says that, without overlap, a handler that holds a minted grant
  has read its one live token, and that one that signs has none left; `Kinds` says which step goes with
  which kind of grant. Actions that only move a handler share `KeepsRecorded`.
  The two properties of approved grants rest on a second invariant, `WInv`, proved under the first.
  `Owned` says that records and handlers know credentials of their own grant only, `Unseen` that
  a credential the issuer has just answered with is known to nobody but the handler it was sent to, and that nobody
  has asked the issuer to end it. With these `AllWork` is inductive: for a grant that no history excuses
  and no handler is ending, the credential of the record is live and not on the wire (`Sound`), and a
  refresh token read by a handler works until it is written back, unless a newer answer is on
  its way (`Steady`). That the wire is part of it is what lets the issuer act at any time: the handler that
  asked is still ending the grant, or the record has moved on, or the grant is excused. The lemmas say which
  steps spare a grant's credentials (`Spares`), which set it aside (`SetAside`), and that a death of the
  hub excuses all it cuts short (`DeathSpends`, `DiesWork`). `Counted` counts: approvals in the record and those on their way together never exceed
  what was asked for, each consent being taken out of the store before it is used.
- *Accounts.* Who may be in flight before the first account (`Unclaimed`), what a request of
  each kind carries (`Purpose`), and that accounts are born in order (`InOrder`) make the posture of the
  first admin inductive: a claim that lost the race finds somebody born and commits an
  account that is an admin with no vault. A seat is taken in the transaction that makes the account, so
  `SeatsHold` is inductive by counting (`Cardinality` of the accounts an invite made).
  The inductive form of `AssignmentsFollow`, `Assigned`, adds that an assigned name has a vault behind it
  (a recreation would break it otherwise), and needs that a vault being removed has no
  assignments left (`Forgotten`). `OwnVaultOnly` follows from
  `MadeThere`: a redemption's vault is still under its name when the hash comes back.
- *OperatorToken.* The counters are resources: `InodeLeft` is a pigeonhole, an inode for each
  descriptor and each of the two names and one to spare. `CutIsFinal` rests on what a signer has read of
  its owner (`Hands`: an unmoved stamp means an unmoved cut). The file's properties hold absent overlapping
  writers; `Undisturbed` says what a lone writer has in each name and descriptor at every step it can die at.
  `WeeklyNeverExpires` does not depend on that: `NewerLands` says that whatever is about to be
  renamed over the file expires no earlier than a token minted now, whoever wrote it.
  `SignedTokensVerify` follows from `KeysOutlast`: the key of a signed token is active or was
  retired no earlier than the mint.
- *ModuleOps.* Requests are related pairwise: `Paired` says that two in flight are on
  record as overlapping, so that every disturbance has a witness later. `Strays` extends the
  excuse for a module without a row to requests that are about to run it, and `Stamps` says which
  requests may hold another release than the row while none of the excuses applies. `OutcomesStand` is an action
  property proved from the same invariant.

Each inductive invariant was checked by TLC on the bounds of its run before it was proved.

Every safety and action property that a passing run checks is a theorem. Only
model-checked: the liveness properties (`StopCompletes`, `CrashIsHandled`, `SlotFrees`, `OpSettles`),
since liveness under fairness and `ENABLED` are out of this prover's reach. The three runs that
expect a violation have no theorem: what they state is false.

## 5. Not modelled, and the plan

Not modelled, and why:

- Pages, the single-page app, the proxy and websocket bridge, git transport and the account
  MCP hold little state of their own; the tunnel and tailnet commands and the managed
  units drive external programs.
- Connections and channels: each step is a request to a service whose behaviour is not in
  this repository. Nostr identity, clients and their grants write single rows under a unique
  constraint.
- Request gates, two-factor codes and sessions: counters and rows read and written
  without an await in between, or inside one transaction, within reach of a unit test.
- The lost update between writers of the whole of `services.json`: the file is read and
  written in one synchronous stretch by the hub, and the other writers are modules outside the repository.
- Shutdown over several modules, and what a lost database file does to a handler in flight.

Plan, most important first:

1. `Supervisor`, `TokenRegistry`, `HubUpgrade` with proofs; `ModuleSlot` and its refinement;
   `ModuleOps`, `OperatorToken`, `Accounts`; `AgentGrants` with proofs - done.
   Proofs of every safety property of these - done.
2. Abstract specifications of `HubUpgrade` (an operation's life as a poll sees it) and of `OperatorToken`
   (one credential, replaced at once), and their refinements.
3. Several supervisors and a shutdown; `services.json` with writers in several processes, and port assignment.
4. Sessions and the second factor; the handle of the database.
5. Pure algorithms against a reference definition: scope attenuation, scope-guard verdicts.

Deliberately outside every model: recycling of pids by the operating system, lost
fsyncs, clock steps backwards, and the contents of JWTs.

## 6. Running

    tlc -workers 2 -config MCSupervisor.cfg MCSupervisor.tla
    tlapm SupervisorProofs.tla

and likewise for the other configurations and proof modules.
