----------------------------- MODULE ImageStore -----------------------------
(***************************************************************************)
(* The files of an image and the row that vouches for them: the artifact   *)
(* store of pyfog/storage.py, the handlers of api.py and web.py that use   *)
(* it, and scripts/backup_server.py, which copies both while the server    *)
(* runs and rebuilds an installation from the copies.                      *)
(*                                                                         *)
(* One image and its capture task are followed; images share nothing here. *)
(* A run is one claim of the task by one agent, known to the server by the *)
(* random capability of its attempt.  What a run uploads differs from what *)
(* another run does.  A file is the sequence of the runs its chunks come   *)
(* from, and stands for all the artifacts of the image.                    *)
(*                                                                         *)
(* A publication takes minutes on a thread of its own.  The other handlers *)
(* commit in one step, or in two with a removal of files before the        *)
(* commit.  The server may stop between any two steps.  Sizes within the   *)
(* limits and free space are assumed, a full disk is one more refusal.     *)
(***************************************************************************)
EXTENDS Integers, Sequences, FiniteSets

CONSTANTS Run,     \* the claims of the task there may be
          NoRun,
          NoDir,   \* the directory does not exist
          Chunks   \* the chunks of what a run uploads

ASSUME ImageStoreAssumption ==
  /\ NoRun \notin Run
  /\ NoDir \notin Seq(Run)
  /\ Chunks \in Nat \ {0}

VARIABLES
  db,         \* the rows: the task, its attempts, the image
  staged,     \* staging/<task>: what its file holds
  published,  \* published/<image>: likewise
  pub,        \* pub[r]: the handler that publishes the capture of r
  loop,       \* what the event loop removed files for and did not commit
  cleaning,   \* a cancellation is committed and its files are still there
  agent,      \* agent[r]: the agent of run r and its next chunk; "late" when it
              \* gave up on that one, "ending" when its result is to be handled
  bak,        \* the backup directory
  lost,       \* the runs claimed from a server that was restored since
  restored,
  requeued,   \* auxiliary: the runs that claimed the task before it was last
              \* queued again
  mishap      \* what went wrong for good, see the actions that set it

files  == <<staged, published>>
backup == <<bak, lost, restored>>
server == <<pub, loop, cleaning>>
vars   == <<db, files, server, agent, backup, requeued, mishap>>

Leased   == {"running", "verifying"}
Terminal == {"succeeded", "failed", "cancelled"}

Rows == [task     : Leased \cup Terminal \cup {"none", "approved", "intervention_required"},
         cancel   : BOOLEAN,                \* cancel_requested_at is set
         last     : Run \cup {NoRun},       \* the latest attempt
         lease    : [Run -> {"none", "running", "past"}],
         phase    : [Run -> {"working", "verifying", "completed", "failed"}],
         revoked  : SUBSET Run,             \* their credential was revoked
         image    : {"draft", "capturing", "ready", "failed"},
         deleted  : BOOLEAN,
         manifest : Run \cup {NoRun}]

Contents == UNION {[1 .. n -> Run] : n \in 0 .. Chunks}
Files    == Contents \cup {NoDir}
Whole(r) == [c \in 1 .. Chunks |-> r]

Mishap == {"interrupted deletion", "interrupted publication", "overtaken publication"}

TypeOK ==
  /\ db \in Rows
  /\ staged \in Files /\ published \in Files
  /\ pub \in [Run -> {"idle", "verifying", "verified", "renamed", "doomed", "doomed verified"}]
  /\ loop \in {"idle", "reconciling", "deleting"} /\ cleaning \in BOOLEAN
  /\ agent \in [Run -> [state : {"idle", "sending", "late", "ending", "gone"},
                        next : 1 .. Chunks + 1]]
  /\ bak \in [step : {"none", "database", "complete"}, db : Rows,
              staged : Files, published : Files]
  /\ lost \subseteq Run /\ restored \in BOOLEAN /\ requeued \subseteq Run
  /\ mishap \subseteq Mishap

EmptyRows ==
  [task |-> "none", cancel |-> FALSE, last |-> NoRun, lease |-> [r \in Run |-> "none"],
   phase |-> [r \in Run |-> "working"], revoked |-> {},
   image |-> "draft", deleted |-> FALSE, manifest |-> NoRun]

Init ==
  /\ db = EmptyRows
  /\ staged = NoDir /\ published = NoDir
  /\ pub = [r \in Run |-> "idle"]
  /\ loop = "idle" /\ cleaning = FALSE
  /\ agent = [r \in Run |-> [state |-> "idle", next |-> 1]]
  /\ bak = [step |-> "none", db |-> EmptyRows, staged |-> NoDir, published |-> NoDir]
  /\ lost = {} /\ restored = FALSE /\ requeued = {}
  /\ mishap = {}
-----------------------------------------------------------------------------
(* The rows.                                                               *)

(* reconcile_task flushes before the files are removed: until its commit   *)
(* every other writer waits for the lock of the database.                  *)
Unlocked == loop # "reconciling"

(* task_attempt_for_token.                                                 *)
Accepted(r) ==
  /\ db.lease[r] = "running" /\ r \notin db.revoked
  /\ db.task \notin Terminal \cup {"none", "intervention_required"}

(* Slip: the image fails, whatever it is.                                  *)
FailedWithImage(r) == [db EXCEPT !.task = "failed", !.phase[r] = "failed", !.image = "failed"]

(* fail_agent_task: the task, the attempt and a capturing image fail.      *)
FailedRows(r) ==
  [db EXCEPT !.task = "failed", !.phase[r] = "failed",
             !.image = IF @ = "capturing" THEN "failed" ELSE @]

Stale == {r \in Run : db.lease[r] = "past" /\ db.task \in Leased}

(* expire_stale_tasks.                                                     *)
Expire ==
  /\ Unlocked /\ Stale # {}
  /\ db' = [db EXCEPT !.task = "intervention_required",
                      !.phase = [r \in Run |-> IF r \in Stale THEN "failed" ELSE @[r]],
                      !.image = IF @ = "capturing" THEN "failed" ELSE @]
  /\ UNCHANGED <<files, server, agent, backup, requeued, mishap>>

LeaseEnds(r) ==
  /\ db.lease[r] = "running"
  /\ db' = [db EXCEPT !.lease[r] = "past"]
  /\ UNCHANGED <<files, server, agent, backup, requeued, mishap>>

(* web.capture_request: a draft is captured once.                          *)
Create ==
  /\ loop = "idle"
  /\ db.task = "none" /\ db.image = "draft" /\ ~db.deleted
  /\ db' = [db EXCEPT !.task = "approved", !.image = "capturing"]
  /\ UNCHANGED <<files, server, agent, backup, requeued, mishap>>

(* api.claim_agent_task, with a capability no one had before.              *)
Claim(r) ==
  /\ Unlocked /\ Stale = {}
  /\ db.task = "approved" /\ agent[r].state = "idle"
  /\ db' = [db EXCEPT !.task = "running", !.last = r, !.lease[r] = "running"]
  /\ agent' = [agent EXCEPT ![r].state = "sending"]
  /\ UNCHANGED <<files, server, backup, requeued, mishap>>
-----------------------------------------------------------------------------
(* Uploads.                                                                *)

(* Slip: a chunk that is sent again is appended again.                     *)
WrittenAgain(r, k) ==
  LET old == IF staged = NoDir THEN <<>> ELSE staged IN
  IF Len(old) \in {k - 1, k} THEN [ok |-> TRUE, file |-> Append(old, r)]
                             ELSE [ok |-> FALSE, file |-> old]

(* ArtifactStore.write_chunk with chunk k of run r: a new file starts with *)
(* its first chunk; a file that ends where the chunk does must hold it     *)
(* already; a file that ends where the chunk begins grows.                 *)
Written(r, k) ==
  LET old == IF staged = NoDir THEN <<>> ELSE staged IN
  CASE Len(old) = k     -> [ok |-> old[k] = r, file |-> old]
    [] Len(old) = k - 1 -> [ok |-> TRUE, file |-> Append(old, r)]
    [] OTHER            -> [ok |-> FALSE, file |-> old]

(* api.upload_task_artifact: the chunk is in the file before the attempt   *)
(* is touched, and stays there when the touch is refused.  The agent may   *)
(* not get the answer, or have given up on the request before.             *)
Upload(r) ==
  /\ loop = "idle" /\ Accepted(r)
  /\ agent[r].state \in {"sending", "late"} /\ agent[r].next <= Chunks
  /\ LET w == Written(r, agent[r].next) IN
       /\ staged' = w.file
       /\ \/ /\ agent[r].state = "sending"
             /\ w.ok /\ db.phase[r] = "working"
             /\ agent' = [agent EXCEPT ![r].next = @ + 1]
          \/ agent' = [agent EXCEPT ![r].state = IF @ = "late" THEN "gone" ELSE "ending"]
  /\ UNCHANGED <<db, published, server, backup, requeued, mishap>>

(* The agent stops waiting for an answer and gives its task up; the        *)
(* request is still to be handled.                                         *)
GiveUp(r) ==
  /\ agent[r].state = "sending" /\ agent[r].next <= Chunks
  /\ agent' = [agent EXCEPT ![r].state = "late"]
  /\ UNCHANGED <<db, files, server, backup, requeued, mishap>>

(* api.finish_agent_task with a failure, also by an agent that waited too  *)
(* long for its publication.  From "approved" the transition raises.       *)
ReportFailure(r) ==
  /\ Unlocked /\ Accepted(r) /\ ~db.cancel /\ db.task # "approved"
  /\ agent[r].state \in {"sending", "late", "ending"}
  /\ db' = FailedRows(r)
  /\ agent' = [agent EXCEPT ![r].state = IF @ = "late" THEN @ ELSE "gone"]
  /\ UNCHANGED <<files, server, backup, requeued, mishap>>
(* web.task_cancel: a queued task is over, an agent is told.               *)
Cancel ==
  /\ loop = "idle" /\ Stale = {}
  /\ db.task \in Leased \cup {"approved"} /\ ~db.cancel
  /\ db' = [db EXCEPT !.cancel = TRUE,
                      !.task = IF @ = "approved" THEN "cancelled" ELSE @,
                      !.image = IF @ = "capturing" THEN "failed" ELSE @]
  /\ UNCHANGED <<files, server, agent, backup, requeued, mishap>>

(* Any result of its agent then acknowledges: the rows are committed, and  *)
(* the staged files removed after that, if the server still runs.          *)
ReportCancelled(r) ==
  /\ Unlocked /\ Accepted(r) /\ db.cancel
  /\ agent[r].state \in {"sending", "late", "ending"}
  /\ db' = [FailedRows(r) EXCEPT !.task = "cancelled"]
  /\ agent' = [agent EXCEPT ![r].state = IF @ = "late" THEN @ ELSE "gone"]
  /\ cleaning' = TRUE
  /\ UNCHANGED <<files, pub, loop, backup, requeued, mishap>>

RemoveStaged ==
  /\ cleaning
  /\ cleaning' = FALSE
  /\ staged' = NoDir
  /\ UNCHANGED <<db, published, pub, loop, agent, backup, requeued, mishap>>
-----------------------------------------------------------------------------
(* The publication: _finish_capture_agent_task and verify_and_publish.     *)

(* The first commit.  On a queued task the rest of the handler is doomed:  *)
(* its last transition will raise.                                         *)
PublishBegin(r) ==
  /\ Unlocked /\ Accepted(r) /\ ~db.cancel /\ db.phase[r] = "working"
  /\ agent[r].state = "sending" /\ agent[r].next = Chunks + 1
  /\ agent' = [agent EXCEPT ![r].state = "ending"]
  /\ db' = [db EXCEPT !.task = IF @ = "running" THEN "verifying" ELSE @, !.phase[r] = "verifying"]
  /\ pub' = [pub EXCEPT ![r] = IF db.task = "approved" THEN "doomed" ELSE "verifying"]
  /\ UNCHANGED <<files, loop, cleaning, backup, requeued, mishap>>

(* The manifest is written beside the files and they agree with it.        *)
Verify(r) ==
  /\ pub[r] \in {"verifying", "doomed"}
  /\ staged = Whole(r)
  /\ pub' = [pub EXCEPT ![r] = IF @ = "verifying" THEN "verified" ELSE "doomed verified"]
  /\ UNCHANGED <<db, files, loop, cleaning, agent, backup, requeued, mishap>>

(* The task of this handler was queued again in the meantime, or its image *)
(* deleted: what it renames may not be what it verified, or belong to no   *)
(* one.                                                                    *)
Overtaken(r) == r \in requeued \/ db.deleted \/ loop = "deleting"

(* The directory is renamed, whatever it holds by now, unless there is a   *)
(* publication.                                                            *)
Rename(r) ==
  /\ pub[r] \in {"verified", "doomed verified"}
  /\ staged # NoDir /\ published = NoDir
  /\ published' = staged
  /\ staged' = NoDir
  /\ pub' = [pub EXCEPT ![r] = IF @ = "verified" THEN "renamed" ELSE "idle"]
  /\ mishap' = mishap
       \cup (IF Overtaken(r) THEN {"overtaken publication"} ELSE {})
       \cup (IF pub[r] = "verified" THEN {} ELSE {"interrupted publication"})
  /\ UNCHANGED <<db, loop, cleaning, agent, backup, requeued>>

(* StorageError: the files disagree, are gone, or cannot be renamed; or    *)
(* the directory cannot be synced after its rename.                        *)
Refuse(r) ==
  /\ Unlocked
  /\ pub[r] # "idle"
  /\ db' = IF pub[r] \in {"doomed", "doomed verified"} THEN db ELSE FailedRows(r)
  /\ pub' = [pub EXCEPT ![r] = "idle"]
  /\ mishap' = mishap \cup (IF pub[r] = "renamed" THEN {"interrupted publication"} ELSE {})
  /\ UNCHANGED <<files, loop, cleaning, agent, backup, requeued>>

(* The last commit, on the task as it was read before the verification.    *)
Publish(r) ==
  /\ Unlocked /\ pub[r] = "renamed"
  /\ db' = [db EXCEPT !.task = "succeeded", !.phase[r] = "completed",
                      !.image = "ready", !.manifest = r]
  /\ pub' = [pub EXCEPT ![r] = "idle"]
  /\ UNCHANGED <<files, loop, cleaning, agent, backup, requeued, mishap>>
-----------------------------------------------------------------------------
(* The operator: files first, rows after.                                  *)

Claimed == {r \in Run : agent[r].state # "idle"}

(* web.task_reconcile: reconcile_task, then remove_task_staging.           *)
ReconcileRemove ==
  /\ loop = "idle" /\ Stale = {} /\ db.task = "intervention_required"
  /\ loop' = "reconciling"
  /\ staged' = NoDir
  /\ UNCHANGED <<db, published, pub, cleaning, agent, backup, requeued, mishap>>

ReconcileCommit ==
  /\ loop = "reconciling"
  /\ db' = [db EXCEPT !.task = "approved", !.cancel = FALSE, !.image = "capturing"]
  /\ loop' = "idle"
  /\ requeued' = Claimed
  /\ UNCHANGED <<files, pub, cleaning, agent, backup, mishap>>

(* web.image_delete: delete_published_image, then the row.                 *)
DeleteFiles ==
  /\ loop = "idle"
  /\ ~db.deleted /\ db.task \in Terminal \cup {"none"}
  /\ loop' = "deleting"
  /\ published' = NoDir
  /\ UNCHANGED <<db, staged, pub, cleaning, agent, backup, requeued, mishap>>

(* Some file cannot be removed: the others are gone, the row stays.        *)
DeleteFails ==
  /\ loop = "idle"
  /\ ~db.deleted /\ db.task \in Terminal \cup {"none"}
  /\ published # NoDir
  /\ published' = <<>>
  /\ mishap' = mishap \cup {"interrupted deletion"}
  /\ UNCHANGED <<db, staged, server, agent, backup, requeued>>

DeleteCommit ==
  /\ loop = "deleting"
  /\ db' = [db EXCEPT !.deleted = TRUE]
  /\ loop' = "idle"
  /\ UNCHANGED <<files, pub, cleaning, agent, backup, requeued, mishap>>

(* The server stops and starts: handlers are lost, commits are not.        *)
Restart ==
  /\ loop # "idle" \/ cleaning \/ \E r \in Run : pub[r] # "idle"
  /\ loop' = "idle" /\ cleaning' = FALSE
  /\ pub' = [r \in Run |-> "idle"]
  /\ mishap' = mishap
       \cup (IF loop = "deleting" THEN {"interrupted deletion"} ELSE {})
       \cup (IF \E r \in Run : pub[r] = "renamed" THEN {"interrupted publication"} ELSE {})
  /\ UNCHANGED <<db, files, agent, backup, requeued>>
-----------------------------------------------------------------------------
(* scripts/backup_server.py.                                               *)

(* create_backup: the database as of its last commit, then the files.      *)
CopyDatabase ==
  /\ bak.step = "none" /\ ~restored
  /\ bak' = [bak EXCEPT !.step = "database", !.db = db]
  /\ UNCHANGED <<db, files, server, agent, lost, restored, requeued, mishap>>

CopyStore ==
  /\ bak.step = "database"
  /\ bak' = [bak EXCEPT !.step = "complete", !.staged = staged, !.published = published]
  /\ UNCHANGED <<db, files, server, agent, lost, restored, requeued, mishap>>

(* Slip: the ready image without files is overlooked.                      *)
CatalogOfDirectories(rows, dir) ==
  IF rows.image = "ready" /\ ~rows.deleted THEN dir \in {NoDir, Whole(rows.manifest)} ELSE dir = NoDir

(* verify_catalog: exactly the ready images have their files, and whole.   *)
Catalog(rows, dir) ==
  IF rows.image = "ready" /\ ~rows.deleted THEN dir = Whole(rows.manifest) ELSE dir = NoDir

(* Slip: the credentials of the backup stay good.                          *)
InvalidatedTasks(rows) ==
  [rows EXCEPT !.task = IF @ \in Leased THEN "intervention_required" ELSE @]

(* invalidate_after_restore: every credential is revoked, and the tasks    *)
(* that had an agent wait for an operator.                                 *)
Invalidated(rows) ==
  [rows EXCEPT !.revoked = {r \in Run : rows.lease[r] # "none"},
               !.phase = [r \in Run |->
                            IF rows.task \in Leased /\ rows.lease[r] # "none"
                               /\ @[r] \in {"working", "verifying"} THEN "failed" ELSE @[r]],
               !.cancel = @ /\ rows.task \notin Leased,
               !.task = IF @ \in Leased THEN "intervention_required" ELSE @]

(* restore_backup into an empty installation.  The agents of the old one   *)
(* go on.                                                                  *)
Restore ==
  /\ bak.step = "complete" /\ Catalog(bak.db, bak.published)
  /\ ~restored /\ restored' = TRUE
  /\ db' = Invalidated(bak.db)
  /\ staged' = bak.staged /\ published' = bak.published
  /\ pub' = [r \in Run |-> "idle"] /\ loop' = "idle" /\ cleaning' = FALSE
  /\ lost' = Claimed /\ requeued' = Claimed
  /\ bak' = [bak EXCEPT !.step = "none", !.db = EmptyRows,
                        !.staged = NoDir, !.published = NoDir]
  /\ mishap' = {}
  /\ UNCHANGED agent

Backup == CopyDatabase \/ CopyStore \/ Restore
Server ==
  \/ Create \/ Cancel \/ Expire \/ RemoveStaged \/ Restart
  \/ ReconcileRemove \/ ReconcileCommit
  \/ DeleteFiles \/ DeleteFails \/ DeleteCommit
  \/ \E r \in Run : Verify(r) \/ Rename(r) \/ Refuse(r) \/ Publish(r) \/ LeaseEnds(r)
Agent ==
  \E r \in Run : \/ Claim(r) \/ Upload(r) \/ GiveUp(r)
                 \/ ReportFailure(r) \/ ReportCancelled(r) \/ PublishBegin(r)

Next == Server \/ Agent \/ Backup

Spec == Init /\ [][Next]_vars
-----------------------------------------------------------------------------
(* An image that can be deployed has the files its manifest names, all of  *)
(* them and of one run only: whatever was staged before or by a late       *)
(* agent, wherever the server stopped, and when it was rebuilt from copies *)
(* of rows and files made at different times.  Out of it are a deletion    *)
(* that was begun, and a publication overtaken by the next run.            *)
WholeWhenReady ==
  /\ db.image = "ready" /\ ~db.deleted /\ loop # "deleting"
  /\ mishap \cap {"interrupted deletion", "overtaken publication"} = {}
  => published = Whole(db.manifest)

(* A server at rest can be backed up: its rows and files pass the checks   *)
(* of verify_catalog, unless a restart or an error cut a publication or a  *)
(* deletion in two.                                                        *)
AtRestVerifies ==
  loop = "idle" /\ (\A r \in Run : pub[r] = "idle") /\ mishap = {} => Catalog(db, published)

(* No agent of the lost installation is accepted by the restored one, not  *)
(* even once its task is queued again and its lease goes on.               *)
LostAgentsStayOut == \A r \in lost : ~Accepted(r)
=============================================================================
