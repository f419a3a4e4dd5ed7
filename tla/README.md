# PyFog in TLA+

PyFog captures disk images of machines over the network, keeps them on a server,
and restores them or clones them onto other machines. This directory models the
server's durable tasks, the files they produce and the backup of both, the agents that
work on them down to the sectors they write, the coordinators that may run the server,
and the smaller services around them; it checks the models with TLC, and proves every safety
property of the passing runs with TLAPS. Paths below are relative to the repository; `run_image_task.py`
is in `scripts/`, other file names without a directory are in `pyfog/`.

    tlc -workers 2 -config tasks_attempts.cfg MCTasks.tla    # any run of PROJECT.json
    tlapm TasksProofs.tla

`PROJECT.json` lists the components, the runs, the source lines of every definition,
the hazards, the findings and the theorems.

## The system

| Component | State it keeps | Operations | Interacts with |
| --- | --- | --- | --- |
| Tasks and attempts (`tasking.py`) | rows `tasks`, `task_attempts`, `task_events`, `images` | create, claim, touch, progress, fail, succeed, expire, cancel, acknowledge, reconcile | called by the agent API and the web interface; store |
| Agent API (`api.py`) | none of its own | claim, heartbeat, progress, upload, download, result, inventory, pairing | tasks, coordinator, store; runs in a pool of threads, the upload on the event loop |
| Web interface (`web.py`) | sessions, users, hosts, images | capture, restore, clone, cancel, reconcile, delete image, pairing decision | tasks, store; mostly on the event loop |
| Coordinator (`coordinator.py`) | one row: holder, term, fencing token, expiry | acquire, renew, release, assert_fenced | every mutating request |
| Image task agent (`run_image_task.py`) | step, sequence number, frozen file systems, heartbeat thread | the scripts of a capture and a restoration | agent API over HTTPS; disks |
| Artifact store (`storage.py`) | `staging/<task>`, `published/<image>` | write chunk, verify and publish, delete, remove staging | upload, result of a capture, reconcile, image delete |
| Transfer and download (`transfer.py`) | block manifests, partial files | missing blocks, verify, resume | agent, relay |
| Distribution (`distribution.py`) | multicast session, receivers, acknowledgements | offer, acknowledge, repair, fall back | relay, agent |
| Relay cache (`relay.py`) | files by digest, leases in memory | publish, lease, read, evict | several threads |
| Inventory (`services.py`) and pairing (`api.py`, `web.py`) | reports, pairing requests, one-time capability | ingest, request, approve, reject, report | hosts, credentials |
| Agent credentials (`agent_credentials.py`) | credential rows per host | issue, rotate, revoke | every agent request |
| Login (`security.py`) and permissions (`rbac.py`) | login sessions, failed attempts | authenticate, log out, allow | web interface |
| Backup (`scripts/backup_server.py`) | a copy of database and store | backup, verify, restore | everything durable |
| Manifests, layouts, mapping, reducer, plugins, hooks | none (pure, or files) | validate, plan, run | capture, restore |
| Scripts, agent image, PXE, lab, deployment | files | build, test | - |

A task is created *approved* by an operator and reserves its host. The agent that boots
on that host claims it: the task is *assigned*, gets a numbered attempt with a lease and
takes the only transfer slot of the installation. Heartbeats, progress and uploads renew
the lease and make it *running* and *verifying*; a result makes it *succeeded* or
*failed*. A lease that runs out sends it to *intervention_required*, where an operator
confirms that the agent is stopped and queues it again, for the next attempt.

What is hard here:

- Handlers run at the same time on threads and on the event loop, read rows without a
  lock, and commit later; only unique constraints are checked again.
- Accepting a capture is two transactions with minutes of verification and a rename between.
- Old agents may come back; requests are lost, late, and overtake each other; the agent and
  the server number the events of an attempt independently.
- The expiry of a lease is noticed by whoever looks next, and by nobody else.
- Files and rows change in different steps; the server may stop between them.

What makes each component correct, in short: **tasks** - one transfer at a time, one task
per host, nothing held by an ended task, nothing lost for ever, images that say what is
true of them; **coordinator** - tokens name one tenure, fenced writes in token order;
**agent** - everything it sends is acceptable while its attempt runs, what it knows to be frozen is
thawed, success is final; **store** - a publication is complete and never overwritten; **relay** -
a leased file is not evicted, a cached file has its digest; **pairing** - the
operator faces a bounded number of requests, a host shows its newest report;
**credentials** - an older token does not outlive its grace, the
newest one is valid until its expiry or a revocation; **backup** - what is restored is whole, and agents of
the lost installation stay out; **layouts** - what is published can be restored, and what
cannot be restored is refused before a disk is written.

## Modules

| Module | Models | Extends / uses |
| --- | --- | --- |
| `Reservations` | the promise: hosts and the slot are held exclusively, and never return to an ended task | - |
| `Tasks` | `tasking.py` and the task handlers of `api.py` and `web.py`, as serial transactions, with images, staging and publication | `Reservations` by refinement |
| `TasksProofs` | the theorems about who holds what in `Tasks`, and its refinement | `Tasks`, `TLAPS` |
| `TaskImageProofs` | the theorems about images, attempts and transitions of `Tasks` | `TasksProofs` |
| `TaskRows` | the same handlers as read-then-commit on the same rows | - |
| `TaskRowsProofs` | the theorems about `TaskRows` | `TaskRows`, `TLAPS` |
| `AgentSession` | one attempt from both ends: agent, heartbeat thread, network, server | - |
| `AgentSessionProofs` | the theorems about `AgentSession`, for any script | `AgentSession`, `TLAPS` |
| `AgentScripts` | the steps of a capture and a restoration, as sequences | - |
| `Coordinator` | `coordinator.py` and the fence of the agent requests | - |
| `CoordinatorProofs` | the theorems about `Coordinator` | `Coordinator`, `TLAPS` |
| `ImageStore` | the files of one image, the rows that vouch for them, and the backup of both | - |
| `ImageStoreProofs` | the theorems about `ImageStore` | `ImageStore`, `TLAPS` |
| `Layouts` | what capture, server and restoration check of a layout, as operators | - |
| `RestoreDisks` | capture, publication, reservation and restoration of one machine, by sectors | `Layouts` |
| `RestoreDisksProofs` | the theorems about `Layouts` and `RestoreDisks`, for any machine | `RestoreDisks`, `TLAPS` |
| `Pairing` | pairing requests and inventory reports of one machine | - |
| `Credentials` | the bearer tokens of one host | - |
| `RelayCache` | the cache of a relay, its staged transfers and leases | - |
| `Hooks` | the post-deploy plan, its ledger and its rollback | - |
| `Multicast` | a multicast session with lost pieces and repairs | - |
| `Services` | the last five side by side | these five |
| `ServicesProofs` | the theorems about the five | `Services`, `TLAPS` |
| `MCTasks`, `MCTaskRows`, `MCAgentSession`, `MCCoordinator`, `MCImageStore`, `MCServices`, `MCRestoreDisks` | small instances for TLC | |

**Tasks.** `status`, `image`, `slot`, `reserved`, `cancelReq` are columns of a task row
(`slot[t]` is `transfer_slot = 1`, `reserved[t]` is `reservation_key = host_id`); `made`
is the highest attempt number; `attempt[t][n]` is an attempt row with its phase, the time
left of its lease, and the progress of the handler that publishes it; `imgStatus`,
`deleted` and `published` are the image row and the directory. One action is one
transaction of one handler. A handler that begins by committing an expiry is `ExpireStale`
followed by its own action, whose guard `Stale = {}` says that it has. The result of a
capture is `CaptureBegin` (first commit), `CaptureRename` (the files) and `CaptureCommit`
or `CaptureRefused` (second commit, on the row as it was read before), with every other
action between them, and `Crash` anywhere.

**TaskRows.** Every handler is a read that computes new rows, and a `Commit`. As
SQLAlchemy does, a commit writes the columns that differ from what was read, and nothing
else; then the unique constraints are checked. Threads run claims, progress, results and
expiries; the event loop runs cancellations, reconciliations and expiries. A creation is one
step: its row is new and checked by a unique key. Images and files are left to `Tasks`.

**AgentSession.** The agent walks through `Script`; a request goes into the set `net` and
the agent waits. The answer comes, or the agent gives up: then the request is lost (it is
never handled), late (it is handled later) or was already handled. The server handles any
request of `net` at any time, so messages are reordered. An exception leads to `Report`,
the except and finally clauses. `frozen` is the machine's side: a freeze that fails may have
taken effect ("missed"), and a thaw may not work ("stuck"). Heartbeats come from their own thread. The row of the
attempt keeps what `touch_attempt` compares: phase, bytes, last sequence number, lease.

**Coordinator.** `holder`, `token`, `left` are the row `coordinator_leases`; `call[c]` is one
request at a node, from its reading of the row to its last commit; `writer` is the call with
SQLite's write lock. `acquire_lease` reads the row without a lock (`Read`: SQLite ignores
`with_for_update`, and its drivers begin a transaction with the first write), and writes the
columns it changed later (`Open`, which takes the lock): the first owner inserts, a new one
writes owner and token, the old one the expiry only. Then `assert_fenced` reads the row again, which
refuses an old owner whose row was taken over meanwhile. `Commit` ends the transaction. A claim
that committed an expiry flushes its attempt, which takes the lock again, asserts the fence
under it (`ClaimOpen`) and commits (`ClaimCommit`); the result of a capture commits once more
without any of this (`PublishCommit`). `renew_lease` and `release_lease` are called by tests only; they
are modelled as they would run. `require_permission` (security.py:76-94) takes the lease for a POST
of the web interface as `coordinator_fence` does for an agent's. `raced` records that a change of
owner was written over one it had not read. A database with row locks would not let that happen;
the project declares and tests SQLite.

**ImageStore.** `db` is the task, its attempts and the image; `staged` and `published` are
the two directories, as the sequence of the runs whose chunks they hold: a publication is
whole when it consists of the chunks of the one run its manifest names. A run is a claim.
`Upload` appends, replaces or refuses a chunk as `write_chunk` does; `PublishBegin`,
`Verify`, `Rename` and `Publish` are the steps of the handler of a result, `Refuse` its
error path; `ReconcileRemove`/`ReconcileCommit` and `DeleteFiles`/`DeleteCommit` are the
handlers that remove files before they commit, `ReportCancelled`/`RemoveStaged` the one that
does it after. `CopyDatabase` and `CopyStore` are `create_backup` on a running server,
`Restore` is `restore_backup` with its check of the catalog and what it invalidates; agents
go on running.

`mishap` records what no handler repairs, and the properties say which they exclude:
a deletion that stops half way leaves a ready row without all its files; a server that stops
between the rename and the last commit leaves files that no ready row owns, and since
`verify_catalog` demands that exactly the ready images have files, every backup fails until
that image is deleted; a publisher that goes on while its task is queued for another run may
rename what that run has staged (`requeued` holds the runs whose task was queued again, and
`Overtaken` is a rename by one of them, or of a deleted image). Two more limits of the design: a task of an old
installation whose attempt has no credential of its own is not shut out by a restoration; a
backup whose rows were copied before a claim and whose files after it has a staging
directory that refuses the first chunk of the next claim, until the task is reconciled.

**Layouts and RestoreDisks.** `Layouts` has the three checks as three sets of operators:
`CaptureAccepts` with `Manifest` (what the agent reads of the disks and writes down),
`Published` (`image_manifest.py`) and `AgentAccepts`, the checks of the
restoring agent. `RestoreDisks` runs one machine through them and then writes the
disks of the target: `WriteTable`, `BuildStack`, `RestorePartition`, `FinishDisk`,
`Customize`, `EnsureBoot`, each of which may fail. A disk is a table and what each unit of
sectors holds. The answers of the server to the reports are open: `AgentSession` says when they
are refusals.

**Pairing.** As `TaskRows`, with one difference: from its first flush to its commit a
handler holds SQLite's write lock, and what it reads then is current. That is what makes the
count of open requests in `CreateCommit` hold; the status of a request that was read
before is written blindly, so an expiry, an approval and a rejection at the boundary
overwrite each other. `overtook` is set when a report is ingested by a handler that read the
host before another report changed it: its comparison of names is then with an old value. `Mark`
uses the capability up in a transaction after the report, so two reports in flight are both
accepted, once each, although docs/agent-credentials.md calls it "de un solo uso".

**Credentials.** A generation is a row of `agent_credentials`; `hosts.token_hash` points to
one. `inventory_token` reads the host (`Read`), awaits the form, and then works on what it read:
`issue_credential` selects the host again, but the session does not load an object anew that it
has. So `seen[h]` is the host as request `h` read it. `Issue` rotates, with the import of a token
from before there were rows; `Revoke` revokes the rows of now, and clears the pointer only if it
was read as set, because an attribute set to the value it has is not written. `outdated` records
that a request worked on a host another one had changed. With a `coordinator_id` this cannot
happen: the lease that `require_permission` writes holds the write lock over the await.
A rotation ends a transfer that outlasts its grace: the token of a claimed task is the one it
was claimed with.

**RelayCache.** `cached` and `staged` are the two directories as sets of blocks, `work[w]` the
call of a thread between two of its steps, `lock` the lock of the cache. `late` marks a
lease on an artifact that was evicted between the look-up and the lease: its reader gets an
error and reads from the server. `overtaken` marks a staged file that another thread
began anew between its verification and its rename.

**Hooks.** A plugin may fail before or after its effect, may be tried again, and a failed run
rolls back in reverse what it completed. A key that was rolled back stays in the ledger: the
retry skips that step and reports success without the effect (`undone`).

**Multicast.** Any receiver may miss or repeat any piece; a request for repair names the first
missing ones and is refused when one of them has arrived since.

`Services` puts the five small services side by side: they share no state, so a
behaviour is one of a single service (`part`) and the state space is the sum of theirs.

## Runs and what they show

| Run | Instance | Shows |
| --- | --- | --- |
| `tasks_attempts` | a capture and a restoration of its image, three attempts each, lease of one tick, fairness | types; the slot is with held tasks only and is given back unless its agent renews for ever; an image is "capturing" exactly while somebody may publish it; success means published; transitions are legal except those of late publishers; ended attempts stay ended; `Tasks` implements `Reservations` |
| `tasks_contention` | two captures and a clone, two hosts, two images, one attempt | one transfer, one task per host, reservation from creation to end; no unfinished deployment loses its image, although the operator may delete it |
| `rows_attempts` | one task, two attempts, two threads; or two tasks of one host, one thread; the event loop | a late commit brings back neither a reservation nor a used attempt |
| `session` | a cold capture, a hot one and a restoration; a boot sector and artifacts of eight and one chunk, lease of two ticks, fairness | nothing a capture sends is refused for going back; events are numbered once; what was frozen is thawed before success, and what the agent knows to be frozen before a failure; success is final; the task is released |
| `coordinator` | two nodes, three requests at a time, three tokens | fenced writes are committed under the tenure of the row; tokens name their node and writes are in their order, unless two changes of owner overlap |
| `store` | two runs of two chunks, one backup | what can be deployed is whole and of one run, also after a restoration; what is at rest can be backed up; agents of the lost installation stay out |
| `services` | three reports and two sessions; three credentials after one without a row, two requests; two artifacts of two blocks, two workers, two readers; three hooks; three pieces, two receivers | the seven properties of the services, and their types |
| `restore` | every layout of up to three partitions on three places with three numbers, GPT and DOS, plain, LVM, LUKS2, RAID1, one or two disks; targets of the same size or larger; a tool that may be missing | nothing but a missing decompressor is refused after the first write; success means every partition in its place with its content; what is published can be restored, but for three kinds of images |

Runs that end in a counterexample, each a disagreement between the code and what the
repository says of it (quoted in `findings`):

| Run | Property | What happens |
| --- | --- | --- |
| `tasks_intervention` | `InterventionNeedsExpiry` | the expired row of attempt 1 takes the task from attempt 2 |
| `rows_slot` | `EndedHasNoSlot` | a cancellation that overtook a claim leaves the slot with a cancelled task: no task can be claimed any more |
| `session_restore` | `RestorationsNeverGoBack` | a restoration reports its downloaded bytes and then `restoring` with 0: `touch_attempt` refuses it, with the partition table already rewritten. No restoration of an image that has bytes completes |
| `restore_profiles` | `PublishedIsRestorable` | an image of two RAID1 members is published, and every agent refuses it: both roots have the UUID of the array |

Seven more statements are kept in the modules and belong to no run; TLC finds each of them
violated. The first four say what a property of a passing run leaves out:

- `AgentSession!ThawAttempted`. docs/roadmap.md:111 speaks of a "thaw garantizado". An `fsfreeze` that
  takes effect and yet times out or reports a failure (run_image_task.py:2034, `run_command`)
  raises before the mount is in the list `frozen`, so neither `freeze_filesystems` nor the finally
  clause thaws it. `NotLeftFrozen` speaks of success, and of what the agent knows.
- `Coordinator!NewOwnerNewToken`. docs/coordinator-ha.md:4 gives every new owner a new term and
  token. Two nodes that read one expired row both write its token plus one: the second
  owner has the token of the first, which can go on only until its next `assert_fenced`. With
  that, or an expiry written over, commits may leave the order of the tokens, and
  `TokenNamesHolder` and the second half of `WritesInOrder` exempt what follows (`raced`).
- `Credentials!NewestAccepted`. docs/agent-credentials.md:21-22 lets a revocation take all
  generations and the pointer at once. One that read an empty pointer, and awaited its form while
  another request issued a token, revokes the new row and leaves the pointer and its expiry:
  the web interface shows a credential in force, and every request with it is refused. The reverse
  is possible too: a token from before the table that was revoked meanwhile is imported again,
  unrevoked, by an issue that read it before, and lives for the grace. The bound of
  `OverlapBounded` holds for it as well, from that import on.
- `RestoreDisks!ToolsBeforeWrite`. `_require_restore_tools` says that it checks "every
  destructive/boot tool before the first partition-table write" (run_image_task.py:796), and asks
  for no decompressor: a missing gzip or zstd is found out by `restore_partition_artifact`
  (run_image_task.py:2585-2589), with the tables of all disks rewritten. `RefusedBeforeWrite` exempts it.
- `Tasks!TerminalIsFinal`. `ALLOWED_TRANSITIONS` (tasking.py:118-120) leaves no way out of
  succeeded, failed and cancelled. The handler of a captured image commits (api.py:767),
  verifies for minutes, and writes the status again (api.py:795) on the row it read before:
  a cancellation or failure committed meanwhile is overwritten.
- `Coordinator!PublicationsFenced`. docs/coordinator-ha.md:5-6 puts `assert_fenced` before
  every durable mutation; the last commit of a capture (api.py:822) is not fenced.
- `TaskRows!OneTaskPerHost`. docs/adr/0001-mvp-linux.md:130-131 refuses a second task of a
  host. A claim (tasking.py:565) that overtook a cancellation runs without its
  reservation, and another task can be created.

Reading the code for `Layouts` and `RestoreDisks` showed more, which the models contain and no
finding claims: a LUKS2 capture declares `volumes="luks2"`, which `ImageCapabilities`
(image_manifest.py:186) does not know, so it is refused after the whole transfer; an image
without ext4 (XFS or Btrfs root without /boot) is published, and refused by agents because
`partclone.ext4` is missing from its commands; a DOS table with a BTRFS or XFS root, or a GPT
with two swaps, is refused at publication only; a gap in the partition numbers of a DOS table restores to
a wrong or absent device after the disk was wiped; `validate_restore_target` says it runs "immediately before the first
write" (run_image_task.py:1511) and runs before the downloads; a clone of several disks
gets its identity on the first root only; a restoration that fails half way leaves the disks as they are.

**Bounds.** A late agent needs a second attempt to meet a newer one, and a third to meet a newer one
that expired as well: `MaxAttempts` is 3 in `tasks_attempts`; what three tasks do to each
other needs one attempt each. Competition for the slot, an
image and a host needs two tasks each and a third to be kept out. A lease of one tick is
enough to be running or past; two ticks in `AgentSession` let a renewal come at different
times. Two handlers in flight are what every race of the findings needs; a third would add
the race of two commits against one read, which is that of one commit with the effect of
both. The constraint `TwoOfOneKind` of `rows_attempts` joins two questions in one run: a second
task is not in the same behaviour as a second attempt or a second busy thread. The boot sector and two
artifacts, one of eight chunks (a report comes with the
first chunk and with every eighth), make the bytes of an upload (counted within its
artifact) and those of a report (counted over all) differ in both directions. `MaxToken` of
3 lets a node lose the lease to the other one and regain it; three calls are two that overlap
and one of the tenure before. `AgentScripts` assumes that what a capture
sends is no more than the size of the disks.

In `store` two runs of two chunks are the least that mix: one file can begin with a chunk of
one run and go on with one of the other, or be cut short. One backup and one restoration: a
restored installation is an installation. In `services`, three reports make the newest one
carry the name of the oldest again; `MaxPending` of 1 is a limit that two sessions reach; three generations and a
clock of nine let three rotations fall into one grace period and one lifetime run out, and two requests are what it takes for one to
work on a host that another has changed; the cache
holds either of its artifacts and not both; three pieces and requests of two make a request
that does not name everything missing. In `restore`, a partition is one unit long: three of
them on three places give every order and every gap, a unit more or less decides every
comparison of sectors, and the growth of two units is room for one more partition at the end.
`Next` stops where the bounds are reached or everything has ended, so the runs do not check
for deadlock.

**Symmetry.** Interchangeable are the nodes and the calls of `Coordinator`, the threads of `TaskRows`
where there are two, the images of `tasks_contention`, the runs of `store`, and in `services`
the sessions, workers, receivers and token requests, and the threads and readers: they are given the same
names, and one permutation serves all parts. No run with symmetry checks a liveness property.

**Fairness.** `Tasks`: time passes (`Tick`), and an expired lease is noticed
(`ExpireStale`): every task view, claim and cancellation begins with it, and the task list
of the web interface refreshes itself. Nothing is assumed of agents, operators or the
publication. `AgentSession`: the agent's own steps (`Main`: its commands end, requests time
out after 30 or 60 seconds), `Tick` and `Expire`. The network owes nothing. The other modules
state no fairness and check safety only.

## What is proved

All that the passing runs check, but the two liveness properties, is also proved, for every
value of the constants. TLC checked each inductive invariant on the instance of the run before
it was proved. The proofs rest on the assumptions on the constants, named in each module and
evaluated by TLC in the runs, and on nothing else.

**`TasksProofs`**, for any sets of tasks, hosts and images, any operations, any number of
attempts and any lease, under `TaskAssumption`:

- `TypeCorrect`: `Spec => []TypeOK`.
- `OneTransferCorrect`, `OneTaskPerHostCorrect`, `SlotCorrect`, `ReservationCorrect`: the
  four invariants about who holds what.
- `ReservationsKept`: `Spec => Promise!Spec`, the refinement of `Reservations`.

None of the four is inductive alone: that a claim finds at most one slot taken needs that
slots follow the status, and that a status changes to a terminal one while a late publisher
holds an old row needs that the publisher's task exists. The inductive invariant is
`TypeOK /\ Holding /\ Unborn`: `Holding` is the conjunction of the four, `Unborn` says that
a task without a row has neither attempts nor publishers. Three lemmas carry the proof:
`Shrinking` (if no task gains the slot or becomes active, exclusion is kept), `Moving` (a
`Transition` that gives the slot back keeps `Holding`) and `Reporting` (a sign of life
keeps it). The refinement maps creation to `Reserve`, `Claim` to `Grab`, expiry to
`Suspend` and every way to end to `End`; a late publication of an ended task is a stutter.

**`TaskImageProofs`**, on the same assumption:

- `CapturingCorrect`, `SucceededCorrect`, `DeploymentCorrect`: the invariants about images.
- `EndedStayEnded`, `LegalCorrect`: the action properties of attempts and transitions.

The three need each other. A deletion is harmless to a deployment because it refuses while a
task uses the image; a late publication is harmless to it because the image it writes was
"capturing" or failed, which no deployment may select; and that the image of a late publisher is
not ready through another task needs that no two captures share one (`ImagesKnown`) and that a
ready image belongs to a capture that ended (`ReadyHasEnded`). `PublishersKnown` says that what
a publisher renamed is there until it is deleted, `Unmade` that an attempt number above `made`
has no row, which is why a claim reopens nothing.

**`TaskRowsProofs`**, for any tasks, attempts, threads and handlers in flight:

- `TypeCorrect`, `ReservationCorrect` (`ReservationNeverReturns`), `ClaimCorrect`
  (`AttemptClaimedOnce`).

What a handler is about to write is a set of changed columns. `JobColumns` says that they have
their types, and that a reservation is among them only to be given up: that follows from how a
handler computes a row from the one it read, whatever was committed since. The phase "assigned"
is a changed column of an insert only, and the commit of an insert checks the unique key again.

**`AgentSessionProofs`**, for any scripts and any lease, under `SessionAssumption`,
`ThawAssumption` (a script that freezes thaws before its result) and `CaptureAssumption` (the
requests of a capture go forward in phase and reported bytes). TLC evaluates them for the
scripts of `AgentScripts`; `session_restore` shows what becomes of a script that does not go
forward, which is why the last one leaves restorations out.

- `TypeCorrect`, `ForwardCorrect` (`CapturesNeverGoBack`), `EventsCorrect`
  (`EventsNumberedOnce`), `ThawCorrect` (`NotLeftFrozen`), `SuccessCorrect` (`SuccessIsFinal`).

The invariant `SessionInv` adds what holds between the two ends of the network. `RequestsMatch`:
besides heartbeats and failures at most one request is under way, that of the step the agent is
at, and none unless it waits or has given up; `RowFits`: the row of the attempt is not ahead of any
request a capture still has to send; `RequestsNew`: while the attempt runs, the number of a request
under way and the next one of the agent are new to the server; `ResultIsFinal`: the answer to a
result is "ok" only after the task ended; `ThawAhead`: while the agent works it knows whether file
systems are frozen, and if they are, a thaw is still before it; `EventsKnown`: events have numbers up to the last one the row
has seen.

**`CoordinatorProofs`**, for any nodes, lease and number of tokens:

- `TypeCorrect`, `TokensAreExclusive` (`TokenNamesHolder`), `FencedInOrder` (`WritesInOrder`).

The inductive invariant is `TypeOK /\ Locked /\ Knows /\ TokensGiven /\ TokenNamesHolder`. `Locked`
says that the write lock belongs to the call between its check and its commit; `Knows`, what a
call may conclude from what it read: the token it will write, and, under the lock, that the row is
still of its tenure, which is what a fence asserted a step before the commit is worth. `TokensGiven`
says that, but for overlapping changes of owner, no call and no committed write has a token the row
has not reached, which is what makes a new token new. `FencedInOrder` has a part without exemption:
every fenced commit is made under the owner and token the row then names.

**`ImageStoreProofs`**, for any number of claims and chunks:

- `TypeCorrect`, `WholeCorrect` (`WholeWhenReady`), `AtRestCorrect` (`AtRestVerifies`),
  `LostCorrect` (`LostAgentsStayOut`).

`WholeWhenReady` rests on a chain: what was verified stays staged as it was until the rename
(`VerifiedHolds`), what was renamed stays published (`RenamedHolds`), a publisher's agent uploads
no more (`PublishersEnding`), at most one claim was made since the task was last queued
(`OneFresh`), and the windows in which other handlers remove files have a task that is over or
waits for the operator (`Windows`). `NothingLeft` is the other half, for the catalog: without a
ready image there is no directory. The proof corrected the model: with the exclusion stated by
two claims only, a third one could be fresh while an overtaken publisher of the first renamed what
the second had staged, which an instance of two claims does not reach. Since then `requeued`
names all the claims that were overtaken.

**`RestoreDisksProofs`**, for machines with any number of disks of any size, with any partitions at
any place and with any numbers, any growth of the target and any tools, under `MachineAssumption`
(what partition tools print of a machine: each role has one of its file systems, numbers increase):

- `TypeCorrect`: what is written lies on the disks.
- `RefusalCorrect` (`RefusedBeforeWrite`; a missing decompressor is exempt), `SuccessCorrect` (`SuccessIsComplete`),
  `RestorableCorrect` (`OthersAreRestorable`).

The invariant `RestoreInv` follows a restoration through its stages. `Untouched`: the checks of the
agent hold from the validation to the end, disks are blank before the first table, and every
artifact is verified before it; what is refused later is refused for want of gzip. `Tabled`: the tables are those of the manifest until a root grows.
`Progress`: every partition passed so far has its content in its sectors, and every disk passed
is complete. What makes it hard is the device of a partition: on a DOS table the agent counts, and
the count leads to the right partition only if the numbers go up in turn (`Numbered`); an image
with a gap writes its content to the wrong device without an error, until a later number has no
device. `Progress` therefore says of each partition passed that its number was found, and of its content
only if the numbers of the disk are in turn: once all were found, they are, and the disk is complete. `OthersAreRestorable` is proved
from the two sides: what `Published` implies of a manifest is what `AgentAccepts` demands (lemmas about
`Layouts` alone), and each command succeeds on what was accepted.

**`ServicesProofs`**, for every value of the constants of the five services:

- `PendingIsBounded`, `NewestReportIsShown` (`Pairing`). The invariant `PInv` adds that
  handlers hold the session and the report of their step (`JobsKnown`) and that the pending
  requests are finitely many, without which they could not be counted: there may be
  infinitely many sessions.
- `OverlapIsBounded` (`Credentials`). `CInv` adds that the newest row is the one issued last,
  and no request read a later one (`NewestLast`), that each older row has the grace of the first
  rotation since it was made (`GraceGiven`), and that, unless a request worked on an outdated host,
  the row the host points to is in force (`PointerInForce`).
- `ServedIsWhole`, `LeasesProtect` (`RelayCache`). `RInv` adds that a worker about to rename
  has a file that is whole (`VerifiedIsWhole`), that it works on an artifact there is
  (`WorkKnown`), and what leases are on (`LeasesKnown`).
- `SuccessIsEffective` (`Hooks`). `HInv` adds that in a forward run everything behind is in
  the ledger, and that the ledger is the effects and what was rolled back.
- `RefusalsMeanProgress` (`Multicast`). `MInv` adds that a request was for pieces its receiver
  had not when it asked. That somebody who misses something asks for something needs the first
  missing piece, found by the well-founded order of finite sets.
- `TypesCorrect` (`Services`): the types of all five side by side. A step of one leaves the
  invariants of the others; the hook a rollback takes next is in the ledger because a finite
  set of steps has a last one.

## What is only checked, and what is not modelled

Only TLC checks `SlotComesBack` and `TaskIsReleased`: liveness under fairness and ENABLED are out
of the prover's reach, and so are induction over data and RECURSIVE operators, which no module
here uses. The properties of the runs that end in a counterexample, and the seven statements that belong
to no run, are false and have no theorem. The theorems of `TasksProofs` and `TaskImageProofs` are about `Tasks`, whose handlers
are serial: `rows_slot` and `TaskRows!OneTaskPerHost` show which of them an overlap of
handlers breaks, and `rows_attempts` what it does not.

Not modelled: login sessions, users and permissions; the text of manifests and inventories and
how it is parsed; the plans of `layouts.py`, `disk_mapping.py` and the offline reduction of
layouts; the choice of a transport and the benchmark of `distribution.py`; `write_block` of
the store, which no handler calls; the isolation of a plugin's process; the wording of
messages, the audit log, health and configuration; scripts that build and release. The stacks
a restoration builds for RAID1 and LUKS2 are left out because no image of theirs gets past
the checks before it. In `Tasks` a replayed progress (an old sequence number) changes nothing
and is left out; in `AgentSession` the task has one attempt, in `ImageStore` there is one
image, in `Pairing` one MAC address. `PROJECT.json` gives the reason for each component.

## Plan

1. Proofs: an abstract specification of the store (an image is published whole by one run, or
   is not there) and a step-by-step proof that `ImageStore` without mishaps implements it; the
   same for the relay cache.
2. `Reducer`: the reduction of a layout as a function against a reference over bounded inputs.
3. `Logins`: sessions, roles and failed attempts, with the removal of the last administrator.
