------------------------------ MODULE TaskRows ------------------------------
(***************************************************************************)
(* The handlers of Tasks, one level down: what they do to each other when  *)
(* they really run at the same time.                                       *)
(*                                                                         *)
(* FastAPI runs the plain handlers in a pool of threads and the async ones *)
(* on the event loop, each with its own SQLAlchemy session.  On SQLite a   *)
(* session reads rows without a transaction, works on what it read, and at *)
(* its first flush opens the transaction that it commits.  So a handler is *)
(* two steps: it reads and decides; it writes and commits, whatever        *)
(* happened between.  It writes only the columns it changed with respect   *)
(* to what it had read, and the unique constraints of the tables are all   *)
(* that is checked again.                                                  *)
(*                                                                         *)
(* The reads of one handler are one snapshot.  Files and images are left   *)
(* to Tasks; without a configured coordinator_id nothing else is locked.   *)
(***************************************************************************)
EXTENDS Integers, FiniteSets

CONSTANTS Task, Host, HostOf,
          Attempts,     \* Attempts[t] bounds the attempts of task t
          MaxInFlight,  \* bound on the handlers between their two steps
          Thread,       \* the threads of the pool
          Loop          \* the event loop

ASSUME TaskRowsAssumption ==
  /\ HostOf \in [Task -> Host]
  /\ Attempts \in [Task -> Nat \ {0}]
  /\ MaxInFlight \in Nat \ {0}
  /\ Loop \notin Thread

VARIABLES
  task,  \* task[t]: the columns of the task row
  att,   \* att[k]: the columns of the attempt row k = <<task, number>>
  job    \* job[r]: what the handler running in r is about to write

vars == <<task, att, job>>

Runner == Thread \cup {Loop}
Key    == UNION {{t} \X (1 .. Attempts[t]) : t \in Task}

Leased   == {"assigned", "running", "verifying"}
Terminal == {"succeeded", "failed", "cancelled"}
Active   == Leased \cup {"approved", "intervention_required"}

TaskRow == [status : Active \cup Terminal \cup {"none"},
            slot : BOOLEAN, reserved : BOOLEAN, cancel : BOOLEAN]
AttRow  == [phase : {"unused", "assigned", "working", "verifying", "completed", "failed"},
            lease : {"none", "running", "past"}]

Idle == [task |-> [t \in Task |-> <<>>], att |-> [k \in Key |-> <<>>]]

TypeOK ==
  /\ task \in [Task -> TaskRow]
  /\ att \in [Key -> AttRow]
  /\ \A r \in Runner :
       /\ \A t \in Task : DOMAIN job[r].task[t] \subseteq DOMAIN task[t]
       /\ \A k \in Key : DOMAIN job[r].att[k] \subseteq DOMAIN att[k]

Init ==
  /\ task = [t \in Task |-> [status |-> "none", slot |-> FALSE,
                             reserved |-> FALSE, cancel |-> FALSE]]
  /\ att = [k \in Key |-> [phase |-> "unused", lease |-> "none"]]
  /\ job = [r \in Runner |-> Idle]
-----------------------------------------------------------------------------
(* The session.                                                            *)

(* The columns an UPDATE names: those whose value is not the one read.  A  *)
(* renewed lease is a new timestamp and always differs.                    *)
ChangedColumns(old, new) == [c \in {c \in DOMAIN old : new[c] # old[c]} |-> new[c]]

(* The handler in r read the rows and decided on these new ones.           *)
Decide(r, newTask, newAtt) ==
  /\ job[r] = Idle
  /\ Cardinality({q \in Runner : job[q] # Idle}) < MaxInFlight
  /\ job' = [job EXCEPT ![r] =
       [task |-> [t \in Task |-> ChangedColumns(task[t], newTask[t])],
        att  |-> [k \in Key |-> ChangedColumns(att[k], newAtt[k])]]]
  /\ UNCHANGED <<task, att>>

(* A row with some columns written.                                        *)
Updated(row, columns) ==
  [c \in DOMAIN row |-> IF c \in DOMAIN columns THEN columns[c] ELSE row[c]]
Stored(row) == [row EXCEPT !.lease = IF @ = "renewed" THEN "running" ELSE @]

TaskAfter(r) == [t \in Task |-> Updated(task[t], job[r].task[t])]
AttAfter(r)  == [k \in Key |-> Stored(Updated(att[k], job[r].att[k]))]

(* A claim inserts the row of its attempt, the others update theirs.       *)
Inserts(r) ==
  {k \in Key : "phase" \in DOMAIN job[r].att[k] /\ job[r].att[k]["phase"] = "assigned"}

(* Slip: the numbers of the attempts are not unique.                       *)
NumberNotUnique(r) ==
  \A t, u \in Task : TaskAfter(r)[t].slot /\ TaskAfter(r)[u].slot => t = u

(* uq_tasks_transfer_slot, and the number of an attempt within its task.   *)
Unique(r) ==
  /\ \A t, u \in Task : TaskAfter(r)[t].slot /\ TaskAfter(r)[u].slot => t = u
  /\ \A k \in Inserts(r) : att[k].phase = "unused"

Commit(r) ==
  /\ job[r] # Idle /\ Unique(r)
  /\ task' = TaskAfter(r)
  /\ att' = AttAfter(r)
  /\ job' = [job EXCEPT ![r] = Idle]

(* IntegrityError, or the server is restarted between the two steps.       *)
Rollback(r) ==
  /\ job[r] # Idle /\ ~Unique(r)
  /\ job' = [job EXCEPT ![r] = Idle]
  /\ UNCHANGED <<task, att>>
-----------------------------------------------------------------------------
(* The handlers: what each reads and decides.                              *)

Ended(row, status) == [row EXCEPT !.status = status, !.slot = FALSE, !.reserved = FALSE]

(* task_attempt_for_token.                                                 *)
Accepted(k) ==
  /\ att[k].lease = "running"
  /\ task[k[1]].status \notin Terminal \cup {"intervention_required"}

(* claim_task.                                                             *)
Claim(r, t, n) ==
  /\ task[t].status = "approved"
  /\ \A u \in Task : ~task[u].slot
  /\ att[<<t, n>>].phase = "unused"
  /\ \A m \in 1 .. n - 1 : att[<<t, m>>].phase # "unused"
  /\ Decide(r, [task EXCEPT ![t].status = "assigned", ![t].slot = TRUE],
               [att EXCEPT ![<<t, n>>] = [phase |-> "assigned", lease |-> "renewed"]])

PhaseRank == [assigned |-> 1, working |-> 2, verifying |-> 3, completed |-> 4, failed |-> 5]

(* Slip: the task takes the phase of its agent for a status.               *)
StatusIsPhase(row, phase) == IF row.cancel THEN row.status ELSE phase

(* The first sign of life starts the task, "verifying" is a status too.    *)
StatusAfter(row, phase) ==
  LET started == IF row.status = "assigned" /\ ~row.cancel THEN "running" ELSE row.status
  IN IF started = "running" /\ phase = "verifying" THEN "verifying" ELSE started

(* heartbeat and progress, in threads: touch_attempt, and record_progress  *)
(* with the phase "verifying".  The upload runs the same on the loop, with *)
(* its body already in memory; nothing it does to these rows is different. *)
Touch(r, k, phase) ==
  /\ Accepted(k)
  /\ PhaseRank[phase] >= PhaseRank[att[k].phase]
  /\ Decide(r, [task EXCEPT ![k[1]].status = StatusAfter(task[k[1]], phase)],
               [att EXCEPT ![k] = [phase |-> phase, lease |-> "renewed"]])

(* finish_agent_task with a failure; with a restoration that is verified;  *)
(* and with the acknowledgement of a cancellation.                         *)
Fail(r, k) ==
  /\ Accepted(k) /\ ~task[k[1]].cancel /\ task[k[1]].status # "approved"
  /\ Decide(r, [task EXCEPT ![k[1]] = Ended(@, "failed")],
               [att EXCEPT ![k].phase = "failed"])
Succeed(r, k) ==
  /\ Accepted(k) /\ ~task[k[1]].cancel /\ task[k[1]].status # "approved"
  /\ PhaseRank[att[k].phase] <= PhaseRank["verifying"]
  /\ Decide(r, [task EXCEPT ![k[1]] = Ended(@, "succeeded")],
               [att EXCEPT ![k] = [phase |-> "completed", lease |-> "renewed"]])
Acknowledge(r, k) ==
  /\ Accepted(k) /\ task[k[1]].cancel
  /\ Decide(r, [task EXCEPT ![k[1]] = Ended(@, "cancelled")],
               [att EXCEPT ![k].phase = "failed"])

(* expire_stale_tasks, which many handlers begin with and commit.          *)
Stale == {k \in Key : att[k].lease = "past" /\ task[k[1]].status \in Leased}
Expire(r) ==
  /\ Stale # {}
  /\ Decide(r, [t \in Task |-> IF \E k \in Stale : k[1] = t
                               THEN [task[t] EXCEPT !.status = "intervention_required",
                                                    !.slot = FALSE]
                               ELSE task[t]],
               [k \in Key |-> IF k \in Stale THEN [att[k] EXCEPT !.phase = "failed"] ELSE att[k]])

(* request_task_cancellation, on the event loop.                           *)
Cancel(t) ==
  /\ task[t].status \in Leased \cup {"approved"} /\ ~task[t].cancel
  /\ Decide(Loop, [task EXCEPT ![t] =
                     IF @.status = "approved" THEN [Ended(@, "cancelled") EXCEPT !.cancel = TRUE]
                                              ELSE [@ EXCEPT !.cancel = TRUE]], att)

(* Slip: a task that failed is opened again with its key.                  *)
ReconcileFailed(t) ==
  /\ task[t].status \in {"intervention_required", "failed"}
  /\ Decide(Loop, [task EXCEPT ![t].status = "approved", ![t].slot = FALSE,
                               ![t].cancel = FALSE, ![t].reserved = TRUE], att)

(* reconcile_task, on the event loop: the operator approves the task again.*)
Reconcile(t) ==
  /\ task[t].status = "intervention_required"
  /\ Decide(Loop, [task EXCEPT ![t].status = "approved", ![t].slot = FALSE,
                               ![t].cancel = FALSE], att)

(* capture_request and deployment_request: the row is inserted, checked by *)
(* uq_tasks_reservation_key; nothing can come between.                     *)
Create(t) ==
  /\ job[Loop] = Idle
  /\ task[t].status = "none"
  /\ \A u \in Task : task[u].reserved => HostOf[u] # HostOf[t]
  /\ task' = [task EXCEPT ![t].status = "approved", ![t].reserved = TRUE]
  /\ UNCHANGED <<att, job>>

LeaseEnds(k) ==
  /\ att[k].lease = "running"
  /\ att' = [att EXCEPT ![k].lease = "past"]
  /\ UNCHANGED <<task, job>>

Next ==
  \/ \E r \in Runner : Commit(r) \/ Rollback(r) \/ Expire(r)
  \/ \E r \in Thread, k \in Key :
       \/ Claim(r, k[1], k[2])
       \/ \E phase \in {"assigned", "working", "verifying"} : Touch(r, k, phase)
       \/ Fail(r, k) \/ Succeed(r, k) \/ Acknowledge(r, k)
  \/ \E t \in Task : Cancel(t) \/ Reconcile(t) \/ Create(t)
  \/ \E k \in Key : LeaseEnds(k)

Spec == Init /\ [][Next]_vars
-----------------------------------------------------------------------------
(* A reservation that was given back never returns: a handler that read    *)
(* the task before its end does not write the old key over the free one.   *)
ReservationNeverReturns ==
  [][\A t \in Task :
       task[t].status # "none" /\ task'[t].reserved => task[t].reserved]_vars

(* Two boot sessions that claim at the same time never share an attempt: a *)
(* used row is not claimed over, whatever became of it since.              *)
AttemptClaimedOnce ==
  [][\A k \in Key :
       att[k].phase \notin {"unused", "assigned"} => att'[k].phase # "assigned"]_vars

(* transition_task: an ended task has no transfer slot.                    *)
EndedHasNoSlot == \A t \in Task : task[t].status \in Terminal => ~task[t].slot

(* ADR 0001: a second concurrent task for the same host is refused.  The   *)
(* handlers do not keep this when a claim overtakes a cancellation: see    *)
(* the README.                                                             *)
OneTaskPerHost ==
  \A t, u \in Task :
    task[t].status \in Active /\ task[u].status \in Active /\ HostOf[t] = HostOf[u] => t = u
=============================================================================
