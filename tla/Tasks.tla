------------------------------- MODULE Tasks -------------------------------
(***************************************************************************)
(* The durable image tasks of PyFog: pyfog/tasking.py and the handlers of  *)
(* pyfog/api.py (agent) and pyfog/web.py (operator) that change a task.    *)
(*                                                                         *)
(* A task is created approved and reserves its host.  An agent claims it:  *)
(* a numbered attempt with a lease is added and the task takes the single  *)
(* transfer slot of the installation.  The attempt ends with a result, or  *)
(* its lease runs out and the task waits for an operator.                  *)
(*                                                                         *)
(* Every action is one database transaction of a handler.  The handlers    *)
(* run one after the other, except the one that accepts a capture: it      *)
(* commits, verifies and publishes the files for as long as that takes,    *)
(* and commits again, with every other handler free to run in between.     *)
(* A handler that starts by expiring leases commits that first: it is      *)
(* ExpireStale followed by the action named after the handler.             *)
(*                                                                         *)
(* Abstractions: a lease is the time it has left, in ticks, and 0 once     *)
(* lease_expires_at is reached.  The phases an agent reports before the    *)
(* verification are one phase, "working".  Staged files are absent,        *)
(* partial, or complete for the manifest the agent will send.  Sequence    *)
(* numbers and byte counts are left to AgentSession.                       *)
(***************************************************************************)
EXTENDS Integers, FiniteSets

CONSTANTS Task,          \* the rows the tasks table may ever hold
          Image,         \* the rows of the images table
          Host,          \* registered hosts
          HostOf,        \* the host a task is created for
          Operation,     \* what a task does
          MaxAttempts,   \* bound on the attempts of a task
          Lease,         \* task_lease_seconds, in ticks
          NoImage        \* the image of a task that does not exist yet

Capture == {t \in Task : Operation[t] = "capture"}

ASSUME TaskAssumption ==
  /\ HostOf \in [Task -> Host]
  /\ Operation \in [Task -> {"capture", "restore", "clone"}]
  /\ MaxAttempts \in Nat \ {0}
  /\ Lease \in Nat \ {0}
  /\ NoImage \notin Image

VARIABLES
  status,     \* status[t]: a task state, "none" before the row exists
  image,      \* image[t]: the image row the task refers to
  slot,       \* slot[t]: transfer_slot = 1
  reserved,   \* reserved[t]: reservation_key is the task's host
  cancelReq,  \* cancelReq[t]: cancel_requested_at is set
  made,       \* made[t]: highest attempt_number of t, 0 if none
  attempt,    \* attempt[t][n]: the n-th attempt row of t
  staging,    \* staging[t]: the uploaded files under staging/t
  imgStatus,  \* imgStatus[i]: images.status
  deleted,    \* deleted[i]: images.deleted_at is set
  published   \* published[i]: the directory published/i exists

taskVars == <<status, image, slot, reserved, cancelReq, made>>
imgVars  == <<imgStatus, deleted, published>>
vars     == <<taskVars, attempt, staging, imgVars>>

Leased   == {"assigned", "running", "verifying"}
Terminal == {"succeeded", "failed", "cancelled"}
Active   == Leased \cup {"approved", "intervention_required"}
Status   == Active \cup Terminal

AllowedTransitions ==
  [approved  |-> {"assigned", "cancelled", "intervention_required"},
   assigned  |-> {"running", "failed", "cancelled", "intervention_required"},
   running   |-> {"verifying", "failed", "cancelled", "intervention_required"},
   verifying |-> {"succeeded", "failed", "cancelled", "intervention_required"},
   succeeded |-> {}, failed |-> {}, cancelled |-> {},
   intervention_required |-> {"approved", "cancelled"}]

MayGo(from, to) == to = from \/ to \in AllowedTransitions[from]

Phase    == {"unused", "assigned", "working", "verifying", "completed", "failed"}
Finished == {"completed", "failed"}

(* The handler that is publishing a capture: not started, verifying the    *)
(* staged files, the same for a task row it read as queued, done with the  *)
(* rename but not with its last commit, over.                              *)
Publisher == {"idle", "verifying", "doomed", "renamed", "over"}

Attempt   == [phase : Phase, lease : 0 .. Lease, pub : Publisher]
NoAttempt == [phase |-> "unused", lease |-> 0, pub |-> "idle"]
Number    == 1 .. MaxAttempts

TypeOK ==
  /\ status \in [Task -> Status \cup {"none"}]
  /\ image \in [Task -> Image \cup {NoImage}]
  /\ slot \in [Task -> BOOLEAN]
  /\ reserved \in [Task -> BOOLEAN]
  /\ cancelReq \in [Task -> BOOLEAN]
  /\ made \in [Task -> 0 .. MaxAttempts]
  /\ attempt \in [Task -> [Number -> Attempt]]
  /\ staging \in [Task -> {"none", "partial", "complete"}]
  /\ imgStatus \in [Image -> {"draft", "capturing", "ready", "failed"}]
  /\ deleted \in [Image -> BOOLEAN]
  /\ published \in [Image -> BOOLEAN]

Init ==
  /\ status = [t \in Task |-> "none"]
  /\ image = [t \in Task |-> NoImage]
  /\ slot = [t \in Task |-> FALSE]
  /\ reserved = [t \in Task |-> FALSE]
  /\ cancelReq = [t \in Task |-> FALSE]
  /\ made = [t \in Task |-> 0]
  /\ attempt = [t \in Task |-> [n \in Number |-> NoAttempt]]
  /\ staging = [t \in Task |-> "none"]
  /\ imgStatus = [i \in Image |-> "draft"]
  /\ deleted = [i \in Image |-> FALSE]
  /\ published = [i \in Image |-> FALSE]
-----------------------------------------------------------------------------
(* Helpers shared by the handlers.                                         *)

(* Two slips of transition_task: the key is never given back, or also by a *)
(* task that is queued again.                                              *)
TransitionKeepsKey(t, to) ==
  /\ status' = [status EXCEPT ![t] = to]
  /\ UNCHANGED reserved
TransitionFreesEarly(t, to) ==
  /\ status' = [status EXCEPT ![t] = to]
  /\ reserved' = [reserved EXCEPT ![t] = @ /\ to \notin Terminal \cup {"approved"}]

(* transition_task: the columns a change of status writes.  A terminal     *)
(* status gives back the reservation.                                      *)
Transition(t, to) ==
  /\ status' = [status EXCEPT ![t] = to]
  /\ reserved' = [reserved EXCEPT ![t] = @ /\ to \notin Terminal]

(* Slips: the image is forgotten, or failed without looking at it.         *)
AbandonNothing(t) == UNCHANGED imgStatus
AbandonAnyImage(t) == imgStatus' = [imgStatus EXCEPT ![image[t]] = "failed"]

(* The image of a capture that ends without being published.               *)
AbandonImage(t) ==
  imgStatus' = [imgStatus EXCEPT ![image[t]] = IF @ = "capturing" THEN "failed" ELSE @]

(* Slip: the lease is checked and the state of the task is not.            *)
AcceptedByLease(t, n) == n <= made[t] /\ attempt[t][n].lease > 0

(* task_attempt_for_token lets the request of attempt n of t through.      *)
Accepted(t, n) ==
  /\ n <= made[t]
  /\ status[t] \notin Terminal \cup {"intervention_required"}
  /\ attempt[t][n].lease > 0

(* The attempt row is written.                                             *)
Write(t, n, row) == attempt' = [attempt EXCEPT ![t][n] = row]

(* touch_attempt on an attempt row: the phase may not go back and the      *)
(* lease starts anew.                                                      *)
PhaseRank == [assigned |-> 1, working |-> 2, verifying |-> 3, completed |-> 4, failed |-> 5]
Touchable(t, n, phase) == PhaseRank[phase] >= PhaseRank[attempt[t][n].phase]
(* Slip: the lease is added to what is left of the last one.               *)
TouchedLonger(t, n, phase) == [attempt[t][n] EXCEPT !.phase = phase, !.lease = @ + Lease]
Touched(t, n, phase) == [attempt[t][n] EXCEPT !.phase = phase, !.lease = Lease]

(* touch_attempt on the task row: the first sign of life of the agent      *)
(* starts the task, unless its cancellation was requested.                 *)
TouchedStatus(t) ==
  IF status[t] = "assigned" /\ ~cancelReq[t] THEN "running" ELSE status[t]

(* record_progress with the phase "verifying".                             *)
VerifyingStatus(t) ==
  IF TouchedStatus(t) = "running" THEN "verifying" ELSE TouchedStatus(t)
-----------------------------------------------------------------------------
(* The operator.                                                           *)

(* Slip: only a host that transfers right now is taken.                    *)
HostIdle(t) == \A u \in Task : slot[u] => HostOf[u] # HostOf[t]

(* No task has the reservation key of the host of t.                       *)
HostFree(t) == \A u \in Task : reserved[u] => HostOf[u] # HostOf[t]

(* web.capture_request: a draft image is captured from a host that no      *)
(* other task has reserved.  The slot is not taken yet.                    *)
CreateCapture(t, i) ==
  /\ status[t] = "none" /\ t \in Capture
  /\ HostFree(t)
  /\ imgStatus[i] = "draft" /\ ~deleted[i]
  /\ status' = [status EXCEPT ![t] = "approved"]
  /\ reserved' = [reserved EXCEPT ![t] = TRUE]
  /\ image' = [image EXCEPT ![t] = i]
  /\ imgStatus' = [imgStatus EXCEPT ![i] = "capturing"]
  /\ UNCHANGED <<slot, cancelReq, made, attempt, staging, deleted, published>>

(* images.source_host_id, set when the capture was requested.              *)
SourceHost(i, h) == \E u \in Capture : image[u] = i /\ HostOf[u] = h

(* image_is_selectable and the directory test of selectable_manifest.      *)
Selectable(i) == imgStatus[i] = "ready" /\ ~deleted[i] /\ published[i]

(* web.deployment_request: restore an image on the host it was captured    *)
(* from, or clone it on another one.                                       *)
CreateDeployment(t, i) ==
  /\ status[t] = "none" /\ t \notin Capture
  /\ HostFree(t)
  /\ Selectable(i)
  /\ (Operation[t] = "restore") <=> SourceHost(i, HostOf[t])
  /\ status' = [status EXCEPT ![t] = "approved"]
  /\ reserved' = [reserved EXCEPT ![t] = TRUE]
  /\ image' = [image EXCEPT ![t] = i]
  /\ UNCHANGED <<slot, cancelReq, made, attempt, staging, imgVars>>

(* Slip: a task that is verifying is thought to need no agent.             *)
StaleNotVerifying == {e \in Task \X Number :
                        /\ status[e[1]] \in {"assigned", "running"}
                        /\ e[2] <= made[e[1]]
                        /\ attempt[e[1]][e[2]].lease = 0}

(* expire_stale_tasks: the attempt rows whose lease ran out, of tasks an   *)
(* agent holds.  The query asks nothing else of the attempt: it need not   *)
(* be the latest one, nor unfinished.                                      *)
Stale == {e \in Task \X Number :
            /\ status[e[1]] \in Leased
            /\ e[2] <= made[e[1]]
            /\ attempt[e[1]][e[2]].lease = 0}
StaleTask(t) == \E n \in Number : <<t, n>> \in Stale

(* The task waits for an operator and gives the slot to other hosts; its   *)
(* own host stays reserved.  Every task view, claim, cancellation and      *)
(* reconciliation, and a late agent, commits this before anything else.    *)
ExpireStale ==
  /\ Stale # {}
  /\ status' = [t \in Task |-> IF StaleTask(t) THEN "intervention_required" ELSE status[t]]
  /\ slot' = [t \in Task |-> slot[t] /\ ~StaleTask(t)]
  /\ attempt' = [t \in Task |-> [n \in Number |->
                   IF <<t, n>> \in Stale THEN [attempt[t][n] EXCEPT !.phase = "failed"]
                                         ELSE attempt[t][n]]]
  /\ imgStatus' = [i \in Image |->
                     IF imgStatus[i] = "capturing" /\ \E t \in Task : StaleTask(t) /\ image[t] = i
                     THEN "failed" ELSE imgStatus[i]]
  /\ UNCHANGED <<image, reserved, cancelReq, made, staging, deleted, published>>

(* web.task_cancel, request_task_cancellation: a queued task is cancelled  *)
(* at once, a held one is marked for its agent to see.                     *)
RequestCancel(t) ==
  /\ Stale = {}
  /\ status[t] \in Leased \cup {"approved"} /\ ~cancelReq[t]
  /\ cancelReq' = [cancelReq EXCEPT ![t] = TRUE]
  /\ IF t \in Capture THEN AbandonImage(t) ELSE UNCHANGED imgStatus
  /\ \/ /\ status[t] = "approved"
        /\ Transition(t, "cancelled")
        /\ slot' = [slot EXCEPT ![t] = FALSE]
     \/ status[t] # "approved" /\ UNCHANGED <<status, reserved, slot>>
  /\ UNCHANGED <<image, made, attempt, staging, deleted, published>>

(* web.task_reconcile, reconcile_task: the operator confirms that the      *)
(* previous agent is stopped, and the task is queued again.                *)
Reconcile(t) ==
  /\ Stale = {}
  /\ status[t] = "intervention_required"
  /\ Transition(t, "approved")
  /\ cancelReq' = [cancelReq EXCEPT ![t] = FALSE]
  /\ slot' = [slot EXCEPT ![t] = FALSE]
  /\ imgStatus' = [imgStatus EXCEPT ![image[t]] = IF t \in Capture THEN "capturing" ELSE @]
  /\ staging' = [staging EXCEPT ![t] = "none"]
  /\ UNCHANGED <<image, made, attempt, deleted, published>>

(* Slip: a queued task or one that waits for an operator is overlooked.    *)
InUseNow(i) == \E t \in Task : image[t] = i /\ status[t] \in Leased

(* The active tasks of an image.                                           *)
InUse(i) == \E t \in Task : image[t] = i /\ status[t] \in Active

(* web.image_delete: refused while an active task refers to the image.     *)
DeleteImage(i) ==
  /\ ~deleted[i] /\ ~InUse(i)
  /\ published' = [published EXCEPT ![i] = FALSE]
  /\ deleted' = [deleted EXCEPT ![i] = TRUE]
  /\ UNCHANGED <<taskVars, attempt, staging, imgStatus>>
-----------------------------------------------------------------------------
(* The agent.                                                              *)

(* Slip: the task that has not started yet does not count.                 *)
SlotNotRunning == \A u \in Task : slot[u] => status[u] = "assigned"

(* No task has transfer_slot = 1.                                          *)
SlotFree == \A u \in Task : ~slot[u]

(* Slip: the number of the last attempt is used again.                     *)
LastNumber(t) == IF made[t] = 0 THEN 1 ELSE made[t]

(* The number after the highest one of the task.                           *)
NextNumber(t) == made[t] + 1

(* claim_task: the queued task of the host, if the transfer slot is free,  *)
(* gets the next attempt number and a lease.                               *)
Claim(t) ==
  /\ Stale = {}
  /\ status[t] = "approved"
  /\ SlotFree
  /\ made[t] < MaxAttempts
  /\ made' = [made EXCEPT ![t] = NextNumber(t)]
  /\ Write(t, NextNumber(t), [phase |-> "assigned", lease |-> Lease, pub |-> "idle"])
  /\ slot' = [slot EXCEPT ![t] = TRUE]
  /\ Transition(t, "assigned")
  /\ UNCHANGED <<image, cancelReq, staging, imgVars>>

(* api.heartbeat_agent_task, as LeaseHeartbeat sends it: without a phase.  *)
Heartbeat(t, n) ==
  /\ Accepted(t, n) /\ attempt[t][n].phase \notin Finished
  /\ Write(t, n, Touched(t, n, attempt[t][n].phase))
  /\ status' = [status EXCEPT ![t] = TouchedStatus(t)]
  /\ UNCHANGED <<image, slot, reserved, cancelReq, made, staging, imgVars>>

(* api.progress_agent_task with a new sequence number.                     *)
Progress(t, n, phase) ==
  /\ Accepted(t, n) /\ Touchable(t, n, phase)
  /\ Write(t, n, Touched(t, n, phase))
  /\ status' = [status EXCEPT ![t] =
                  IF phase = "verifying" THEN VerifyingStatus(t) ELSE TouchedStatus(t)]
  /\ UNCHANGED <<image, slot, reserved, cancelReq, made, staging, imgVars>>

(* ArtifactStore.write_chunk: the staged files grow, and are complete once *)
(* the last missing chunk is there.                                        *)
StageChunk(t) ==
  \E content \in {"partial", "complete"} : staging' = [staging EXCEPT ![t] = content]

(* api.upload_task_artifact, which the agent of a capture calls: the chunk *)
(* is in the staged file before the rows are touched.                      *)
Upload(t, n) ==
  /\ t \in Capture
  /\ Accepted(t, n) /\ Touchable(t, n, "working")
  /\ StageChunk(t)
  /\ Write(t, n, Touched(t, n, "working"))
  /\ status' = [status EXCEPT ![t] = TouchedStatus(t)]
  /\ UNCHANGED <<image, slot, reserved, cancelReq, made, imgVars>>

(* A chunk that comes after the verification began: the rows refuse it and *)
(* are rolled back, the file keeps it.                                     *)
UploadRefused(t, n) ==
  /\ t \in Capture
  /\ Accepted(t, n) /\ ~Touchable(t, n, "working")
  /\ StageChunk(t)
  /\ UNCHANGED <<taskVars, attempt, imgVars>>

(* Slip: the transfer slot is not given back.                              *)
FailKeepsSlot(t, n) == Transition(t, "failed") /\ UNCHANGED slot /\ AbandonImage(t)

(* fail_agent_task up to its commit.                                       *)
Fail(t, n) ==
  /\ Transition(t, "failed")
  /\ slot' = [slot EXCEPT ![t] = FALSE]
  /\ AbandonImage(t)

(* api.finish_agent_task with a failure, or with a capture whose manifest  *)
(* is refused.  On a queued task transition_task raises and all is undone. *)
ResultFailed(t, n) ==
  /\ Accepted(t, n) /\ ~cancelReq[t] /\ MayGo(status[t], "failed")
  /\ Fail(t, n)
  /\ Write(t, n, [attempt[t][n] EXCEPT !.phase = "failed"])
  /\ UNCHANGED <<image, cancelReq, made, staging, deleted, published>>

(* api.finish_agent_task once a cancellation was requested, whatever the   *)
(* result: acknowledge_task_cancellation, and the staged files are removed.*)
ResultCancelled(t, n) ==
  /\ Accepted(t, n) /\ cancelReq[t]
  /\ Transition(t, "cancelled")
  /\ slot' = [slot EXCEPT ![t] = FALSE]
  /\ IF t \in Capture THEN AbandonImage(t) ELSE UNCHANGED imgStatus
  /\ Write(t, n, [attempt[t][n] EXCEPT !.phase = "failed"])
  /\ staging' = [staging EXCEPT ![t] = IF t \in Capture THEN "none" ELSE @]
  /\ UNCHANGED <<image, cancelReq, made, deleted, published>>

(* _finish_restore_agent_task: verifying and succeeded in one transaction. *)
ResultRestored(t, n) ==
  /\ t \notin Capture
  /\ Accepted(t, n) /\ ~cancelReq[t] /\ Touchable(t, n, "verifying")
  /\ MayGo(VerifyingStatus(t), "succeeded")
  /\ Transition(t, "succeeded")
  /\ slot' = [slot EXCEPT ![t] = FALSE]
  /\ Write(t, n, Touched(t, n, "completed"))
  /\ UNCHANGED <<image, cancelReq, made, staging, imgVars>>
-----------------------------------------------------------------------------
(* _finish_capture_agent_task, a handler of several steps.                 *)

(* Its first transaction: the attempt is verifying.  From here on the      *)
(* handler holds the task row as it reads it right after this commit.      *)
CaptureBegin(t, n) ==
  /\ t \in Capture
  /\ Accepted(t, n) /\ ~cancelReq[t] /\ Touchable(t, n, "verifying")
  /\ attempt[t][n].pub = "idle"
  /\ Write(t, n, [Touched(t, n, "verifying") EXCEPT !.pub =
                    IF VerifyingStatus(t) = "verifying" THEN "verifying" ELSE "doomed"])
  /\ status' = [status EXCEPT ![t] = VerifyingStatus(t)]
  /\ UNCHANGED <<image, slot, reserved, cancelReq, made, staging, imgVars>>

(* ArtifactStore.verify_and_publish renames the staged directory; it does  *)
(* not look at the rows.  A doomed handler stops here: its transition from *)
(* "approved" raises and only the files have changed.                      *)
CaptureRename(t, n) ==
  /\ attempt[t][n].pub \in {"verifying", "doomed"}
  /\ staging[t] = "complete" /\ ~published[image[t]]
  /\ published' = [published EXCEPT ![image[t]] = TRUE]
  /\ staging' = [staging EXCEPT ![t] = "none"]
  /\ Write(t, n, [attempt[t][n] EXCEPT !.pub = IF @ = "verifying" THEN "renamed" ELSE "over"])
  /\ UNCHANGED <<taskVars, imgStatus, deleted>>

(* Or it raises StorageError (the files do not match the manifest, the     *)
(* image is published already, the disk is full, or fsync fails after the  *)
(* rename), and the task fails.  The row the handler holds says            *)
(* "verifying": the transition is allowed whatever the task has become.    *)
CaptureRefused(t, n) ==
  /\ attempt[t][n].pub \in {"verifying", "renamed"}
  /\ Fail(t, n)
  /\ Write(t, n, [attempt[t][n] EXCEPT !.phase = "failed", !.pub = "over"])
  /\ UNCHANGED <<image, cancelReq, made, staging, deleted, published>>

(* The last transaction: the image is ready and the task succeeded, again  *)
(* on the row as it was read before the files were verified.               *)
CaptureCommit(t, n) ==
  /\ attempt[t][n].pub = "renamed"
  /\ Transition(t, "succeeded")
  /\ slot' = [slot EXCEPT ![t] = FALSE]
  /\ imgStatus' = [imgStatus EXCEPT ![image[t]] = "ready"]
  /\ Write(t, n, [attempt[t][n] EXCEPT !.phase = "completed", !.pub = "over"])
  /\ UNCHANGED <<image, cancelReq, made, staging, deleted, published>>

(* The server stops: the handlers in flight are lost, the rows and the     *)
(* files stay.                                                             *)
Crash ==
  /\ \E t \in Task, n \in Number : attempt[t][n].pub \in {"verifying", "doomed", "renamed"}
  /\ attempt' = [t \in Task |-> [n \in Number |->
                   [attempt[t][n] EXCEPT !.pub = IF @ = "idle" THEN @ ELSE "over"]]]
  /\ UNCHANGED <<taskVars, staging, imgVars>>

(* Time passes.                                                            *)
Tick ==
  /\ \E t \in Task, n \in Number : attempt[t][n].lease > 0
  /\ attempt' = [t \in Task |-> [n \in Number |->
                   [attempt[t][n] EXCEPT !.lease = IF @ > 0 THEN @ - 1 ELSE 0]]]
  /\ UNCHANGED <<taskVars, staging, imgVars>>
-----------------------------------------------------------------------------
Operator ==
  \/ \E t \in Task, i \in Image : CreateCapture(t, i) \/ CreateDeployment(t, i)
  \/ \E t \in Task : RequestCancel(t) \/ Reconcile(t)
  \/ \E i \in Image : DeleteImage(i)

(* What renews a lease.                                                    *)
Renew(t, n) ==
  \/ Heartbeat(t, n)
  \/ \E phase \in {"working", "verifying"} : Progress(t, n, phase)
  \/ Upload(t, n)
  \/ CaptureBegin(t, n)

Agent ==
  \/ \E t \in Task : Claim(t)
  \/ \E t \in Task, n \in Number :
       \/ Renew(t, n) \/ UploadRefused(t, n)
       \/ ResultFailed(t, n) \/ ResultCancelled(t, n) \/ ResultRestored(t, n)

Publishing ==
  \E t \in Task, n \in Number :
    CaptureRename(t, n) \/ CaptureRefused(t, n) \/ CaptureCommit(t, n)

Next == Operator \/ Agent \/ Publishing \/ ExpireStale \/ Crash \/ Tick

Spec == Init /\ [][Next]_vars

(* Time passes, and once a lease has run out some operator's task view, or *)
(* some agent's claim, notices.  Agents and operators owe nothing else.    *)
FairSpec == Spec /\ WF_vars(Tick) /\ WF_vars(ExpireStale)
-----------------------------------------------------------------------------
(* Properties.                                                             *)

(* The transfer slot belongs to the tasks an agent holds, and to them only:*)
(* a slot kept by any other task stops every host of the installation, and *)
(* a held task without it lets a second transfer start.                    *)
SlotFollowsStatus == \A t \in Task : slot[t] <=> status[t] \in Leased

(* At most one transfer runs at a time, whichever handlers, restarts and   *)
(* late publications happened before.                                      *)
OneTransfer == \A t, u \in Task : slot[t] /\ slot[u] => t = u

(* A host is reserved from the creation of its task to the end of it, also *)
(* while the task waits for an operator, and never after.                  *)
ReservationFollowsStatus == \A t \in Task : reserved[t] <=> status[t] \in Active

(* No two unfinished tasks write or read the disks of one host.            *)
OneTaskPerHost ==
  \A t, u \in Task :
    status[t] \in Active /\ status[u] \in Active /\ HostOf[t] = HostOf[u] => t = u

(* An image is "capturing" exactly while some capture may still publish it:*)
(* whoever ends or suspends the capture last leaves the image row saying   *)
(* so, and no image is stuck in that state, where it can be neither        *)
(* captured again nor deployed.                                            *)
CapturingHasCapture ==
  \A i \in Image :
    imgStatus[i] = "capturing" <=>
      \E t \in Capture : /\ image[t] = i /\ ~cancelReq[t]
                         /\ status[t] \in Active \ {"intervention_required"}

(* The image of an unfinished restore or clone is ready, not deleted and   *)
(* on disk, although deletion and publication do not look at deployments   *)
(* but at the image row and the tasks of that instant.                     *)
DeploymentHasImage ==
  \A t \in Task \ Capture : status[t] \in Active => Selectable(image[t])

(* A capture reported as succeeded has its image ready and published, or   *)
(* deleted since.                                                          *)
SucceededIsPublished ==
  \A t \in Capture : status[t] = "succeeded" =>
    imgStatus[image[t]] = "ready" /\ (published[image[t]] \/ deleted[image[t]])

(* ALLOWED_TRANSITIONS is obeyed by every committed change of a status,    *)
(* the steps of transition_task within a transaction composed, except by   *)
(* the last transaction of a publishing handler.                           *)
PublisherCommits(t) ==
  \E n \in Number : attempt[t][n].pub \in {"verifying", "renamed"} /\ attempt'[t][n].pub = "over"
LegalChange(from, to) ==
  \/ MayGo(from, to)
  \/ from = "assigned" /\ to = "verifying"
  \/ from \in {"assigned", "running"} /\ to = "succeeded"
LegalStep(t) ==
  \/ status'[t] = status[t]
  \/ status[t] = "none" /\ status'[t] = "approved"
  \/ status[t] # "none" /\ LegalChange(status[t], status'[t])
  \/ PublisherCommits(t)
LegalTransitions == [][\A t \in Task : LegalStep(t)]_vars

(* The tables keep the promise of Reservations, crashes, late requests and *)
(* late publications included: an ended task never gets its host or the    *)
(* slot back.                                                              *)
Promise == INSTANCE Reservations WITH
             reserved <- {t \in Task : reserved[t]},
             held <- {t \in Task : slot[t]},
             ended <- {t \in Task : status[t] \in Terminal}
KeepsReservations == Promise!Spec

(* An attempt that ended never counts as running again: no late request of *)
(* its agent, and no later transaction, reopens it.                        *)
StaysEnded(t, n) == attempt[t][n].phase \in Finished => attempt'[t][n].phase \in Finished
EndedAttemptsStayEnded == [][\A t \in Task, n \in Number : StaysEnded(t, n)]_vars

(* An agent that stops renewing cannot keep the other hosts waiting: the   *)
(* slot it holds is given back, unless it renews for ever.                 *)
SlotComesBack ==
  \A t \in Task : []<>~slot[t] \/ []<><<\E n \in Number : Renew(t, n)>>_vars

(* expire_stale_tasks and ADR 0001: a task is taken from its agent for     *)
(* intervention when the lease of that agent ran out.                      *)
InterventionNeedsExpiry ==
  [][\A t \in Task :
       status[t] \in Leased /\ status'[t] = "intervention_required" =>
         attempt[t][made[t]].lease = 0]_vars

(* ALLOWED_TRANSITIONS: succeeded, failed and cancelled are final.  A late *)
(* publication does not keep this: see the README.                         *)
TerminalIsFinal ==
  [][\A t \in Task : status[t] \in Terminal => status'[t] = status[t]]_vars
=============================================================================
