---------------------------- MODULE TaskRowsProofs ----------------------------
(***************************************************************************)
(* Proofs about TaskRows, for all tasks, attempts and threads.             *)
(***************************************************************************)
EXTENDS TaskRows, TLAPS

(* Some columns of a row, with values of their types.                      *)
TaskColumns(columns) ==
  /\ DOMAIN columns \subseteq {"status", "slot", "reserved", "cancel"}
  /\ "status" \in DOMAIN columns => columns["status"] \in Active \cup Terminal \cup {"none"}
  /\ "slot" \in DOMAIN columns => columns["slot"] \in BOOLEAN
  /\ "reserved" \in DOMAIN columns => columns["reserved"] = FALSE
  /\ "cancel" \in DOMAIN columns => columns["cancel"] \in BOOLEAN

LEMMA ChangedTask ==
  ASSUME NEW old \in TaskRow, NEW new \in TaskRow, new.reserved => old.reserved
  PROVE  TaskColumns(ChangedColumns(old, new))
<1>1. DOMAIN old = {"status", "slot", "reserved", "cancel"}
  BY DEF TaskRow
<1>2. /\ new["status"] \in Active \cup Terminal \cup {"none"}
      /\ new["slot"] \in BOOLEAN /\ new["cancel"] \in BOOLEAN
      /\ new["reserved"] # old["reserved"] => new["reserved"] = FALSE
  BY DEF TaskRow
<1> QED
  BY <1>1, <1>2 DEF ChangedColumns, TaskColumns

LEMMA UpdatedTask ==
  ASSUME NEW row \in TaskRow, NEW columns, TaskColumns(columns)
  PROVE  /\ Updated(row, columns) \in TaskRow
         /\ Updated(row, columns).reserved => row.reserved
<1>1. DOMAIN row = {"status", "slot", "reserved", "cancel"}
  BY DEF TaskRow
<1>2. Updated(row, columns) = [status |-> Updated(row, columns)["status"], slot |-> Updated(row, columns)["slot"],
         reserved |-> Updated(row, columns)["reserved"], cancel |-> Updated(row, columns)["cancel"]]
  BY <1>1 DEF Updated
<1>3. /\ Updated(row, columns)["status"] \in Active \cup Terminal \cup {"none"}
      /\ Updated(row, columns)["slot"] \in BOOLEAN
      /\ Updated(row, columns)["cancel"] \in BOOLEAN
      /\ Updated(row, columns)["reserved"] \in {FALSE, row["reserved"]}
  BY <1>1 DEF Updated, TaskColumns, TaskRow
<1> QED
  BY <1>2, <1>3 DEF TaskRow

AttColumns(columns) ==
  /\ DOMAIN columns \subseteq {"phase", "lease"}
  /\ "phase" \in DOMAIN columns =>
       columns["phase"] \in {"unused", "assigned", "working", "verifying", "completed", "failed"}
  /\ "lease" \in DOMAIN columns => columns["lease"] \in {"none", "running", "past", "renewed"}

(* An attempt row as a handler decides on it.                              *)
NewAttRow == [phase : {"unused", "assigned", "working", "verifying", "completed", "failed"},
              lease : {"none", "running", "past", "renewed"}]

LEMMA ChangedAtt ==
  ASSUME NEW old \in AttRow, NEW new \in NewAttRow
  PROVE  AttColumns(ChangedColumns(old, new))
<1>1. DOMAIN old = {"phase", "lease"}
  BY DEF AttRow
<1>2. /\ new["phase"] \in {"unused", "assigned", "working", "verifying", "completed", "failed"}
      /\ new["lease"] \in {"none", "running", "past", "renewed"}
  BY DEF NewAttRow
<1> QED
  BY <1>1, <1>2 DEF ChangedColumns, AttColumns

LEMMA UpdatedAtt ==
  ASSUME NEW row \in AttRow, NEW columns, AttColumns(columns)
  PROVE  /\ Stored(Updated(row, columns)) \in AttRow
         /\ Stored(Updated(row, columns)).phase =
              IF "phase" \in DOMAIN columns THEN columns["phase"] ELSE row.phase
<1>1. DOMAIN row = {"phase", "lease"}
  BY DEF AttRow
<1>2. Updated(row, columns) =
        [phase |-> Updated(row, columns)["phase"], lease |-> Updated(row, columns)["lease"]]
  BY <1>1 DEF Updated
<1>3. /\ Updated(row, columns)["phase"] = IF "phase" \in DOMAIN columns THEN columns["phase"] ELSE row["phase"]
      /\ Updated(row, columns)["lease"] = IF "lease" \in DOMAIN columns THEN columns["lease"] ELSE row["lease"]
  BY <1>1 DEF Updated
<1>4. Updated(row, columns) \in NewAttRow
  BY <1>2, <1>3 DEF AttColumns, AttRow, NewAttRow
<1> QED
  BY <1>3, <1>4 DEF Stored, AttRow, NewAttRow

-----------------------------------------------------------------------------
(* What a handler is about to write never takes a reservation.             *)
JobColumns ==
  /\ DOMAIN job = Runner
  /\ \A r \in Runner :
       /\ \A t \in Task : TaskColumns(job[r].task[t])
       /\ \A k \in Key : AttColumns(job[r].att[k])

RowsInv ==
  /\ task \in [Task -> TaskRow]
  /\ att \in [Key -> AttRow]
  /\ JobColumns

LEMMA IdleColumns ==
  /\ \A t \in Task : TaskColumns(Idle.task[t])
  /\ \A k \in Key : AttColumns(Idle.att[k])
<1>1. DOMAIN <<>> = {}
  OBVIOUS
<1> QED
  BY <1>1 DEF Idle, TaskColumns, AttColumns

LEMMA InitRows == Init => RowsInv
<1> SUFFICES ASSUME Init PROVE RowsInv
  OBVIOUS
<1>1. task \in [Task -> TaskRow] /\ att \in [Key -> AttRow]
  BY DEF Init, TaskRow, AttRow
<1>2. DOMAIN job = Runner /\ \A r \in Runner : job[r] = Idle
  BY DEF Init
<1> QED
  BY <1>1, <1>2, IdleColumns DEF RowsInv, JobColumns

(* A handler that decides on rows of their types, and takes no reservation,*)
(* is about to write such columns.                                         *)
LEMMA DecideKeeps ==
  ASSUME RowsInv, NEW r \in Runner,
         NEW newTask \in [Task -> TaskRow], NEW newAtt \in [Key -> NewAttRow],
         \A t \in Task : newTask[t].reserved => task[t].reserved,
         Decide(r, newTask, newAtt)
  PROVE  RowsInv' /\ UNCHANGED <<task, att>>
<1> DEFINE write == [task |-> [t \in Task |-> ChangedColumns(task[t], newTask[t])],
                     att  |-> [k \in Key |-> ChangedColumns(att[k], newAtt[k])]]
<1>1. job' = [job EXCEPT ![r] = write] /\ UNCHANGED <<task, att>>
  BY DEF Decide
<1>2. \A t \in Task : TaskColumns(write.task[t])
  BY ChangedTask DEF RowsInv
<1>3. \A k \in Key : AttColumns(write.att[k])
  BY ChangedAtt DEF RowsInv
<1>4. DOMAIN job' = Runner /\ job'[r] = write /\ \A q \in Runner \ {r} : job'[q] = job[q]
  <2> HIDE DEF write
  <2> QED
    BY <1>1 DEF RowsInv, JobColumns
<1> QED
  BY <1>1, <1>2, <1>3, <1>4 DEF RowsInv, JobColumns

LEMMA KeysAre ==
  ASSUME NEW k \in Key
  PROVE  k[1] \in Task /\ k = <<k[1], k[2]>>
BY DEF Key

LEMMA SameAtt == RowsInv => att \in [Key -> NewAttRow]
BY DEF RowsInv, AttRow, NewAttRow

LEMMA EndedTask ==
  ASSUME NEW row \in TaskRow, NEW status \in Terminal
  PROVE  Ended(row, status) \in TaskRow /\ ~Ended(row, status).reserved
BY DEF Ended, TaskRow

(* The handlers in the threads.                                            *)
LEMMA ClaimKeeps ==
  ASSUME RowsInv, NEW r \in Runner, NEW k \in Key, Claim(r, k[1], k[2])
  PROVE  RowsInv' /\ UNCHANGED <<task, att>>
<1> DEFINE T == [task EXCEPT ![k[1]].status = "assigned", ![k[1]].slot = TRUE]
           A == [att EXCEPT ![k] = [phase |-> "assigned", lease |-> "renewed"]]
<1>1. T \in [Task -> TaskRow] /\ \A t \in Task : T[t].reserved => task[t].reserved
  <2> DEFINE row == [task[k[1]] EXCEPT !.status = "assigned", !.slot = TRUE]
  <2>1. k[1] \in Task
    BY KeysAre
  <2>2. row \in TaskRow /\ row.reserved = task[k[1]].reserved
    BY <2>1 DEF RowsInv, TaskRow, Active, Leased
  <2>3. T = [task EXCEPT ![k[1]] = row]
    BY <2>1 DEF RowsInv
  <2> HIDE DEF row
  <2> QED
    BY <2>1, <2>2, <2>3 DEF RowsInv
<1>2. A \in [Key -> NewAttRow]
  BY SameAtt DEF NewAttRow
<1>3. Decide(r, T, A)
  BY KeysAre DEF Claim
<1> HIDE DEF T, A
<1> QED
  BY <1>1, <1>2, <1>3, DecideKeeps

LEMMA TouchKeeps ==
  ASSUME RowsInv, NEW r \in Runner, NEW k \in Key, NEW phase \in {"assigned", "working", "verifying"},
         Touch(r, k, phase)
  PROVE  RowsInv' /\ UNCHANGED <<task, att>>
<1> DEFINE to == StatusAfter(task[k[1]], phase)
           T == [task EXCEPT ![k[1]].status = to]
           A == [att EXCEPT ![k] = [phase |-> phase, lease |-> "renewed"]]
<1>1. k[1] \in Task /\ to \in Active \cup Terminal \cup {"none"}
  BY KeysAre DEF RowsInv, TaskRow, StatusAfter, Active, Leased
<1>2. A \in [Key -> NewAttRow]
  BY SameAtt DEF NewAttRow
<1>3. Decide(r, T, A)
  BY DEF Touch
<1> HIDE DEF to
<1>4. T \in [Task -> TaskRow] /\ \A t \in Task : T[t].reserved => task[t].reserved
  BY <1>1 DEF RowsInv, TaskRow
<1> HIDE DEF T, A
<1> QED
  BY <1>2, <1>3, <1>4, DecideKeeps

LEMMA EndingKeeps ==
  ASSUME RowsInv, NEW r \in Runner, NEW k \in Key, Fail(r, k) \/ Succeed(r, k) \/ Acknowledge(r, k)
  PROVE  RowsInv' /\ UNCHANGED <<task, att>>
<1>1. k[1] \in Task
  BY KeysAre
<1>2. ASSUME NEW status \in Terminal, NEW A \in [Key -> NewAttRow],
             Decide(r, [task EXCEPT ![k[1]] = Ended(@, status)], A)
      PROVE  RowsInv' /\ UNCHANGED <<task, att>>
  <2> DEFINE T == [task EXCEPT ![k[1]] = Ended(task[k[1]], status)]
  <2>1. Ended(task[k[1]], status) \in TaskRow /\ ~Ended(task[k[1]], status).reserved
    BY <1>1, EndedTask DEF RowsInv
  <2>2. T \in [Task -> TaskRow] /\ \A t \in Task : T[t].reserved => task[t].reserved
    BY <1>1, <2>1 DEF RowsInv
  <2>3. Decide(r, T, A)
    BY <1>2
  <2> HIDE DEF T
  <2> QED
    BY <2>2, <2>3, DecideKeeps
<1>3. /\ [att EXCEPT ![k].phase = "failed"] \in [Key -> NewAttRow]
      /\ [att EXCEPT ![k] = [phase |-> "completed", lease |-> "renewed"]] \in [Key -> NewAttRow]
  BY SameAtt DEF NewAttRow
<1> QED
  BY <1>2, <1>3 DEF Fail, Succeed, Acknowledge, Terminal

LEMMA ExpireKeeps ==
  ASSUME RowsInv, NEW r \in Runner, Expire(r)
  PROVE  RowsInv' /\ UNCHANGED <<task, att>>
<1> DEFINE T == [t \in Task |-> IF \E k \in Stale : k[1] = t
                               THEN [task[t] EXCEPT !.status = "intervention_required",
                                                    !.slot = FALSE]
                               ELSE task[t]]
           A == [k \in Key |-> IF k \in Stale THEN [att[k] EXCEPT !.phase = "failed"] ELSE att[k]]
<1>1. T \in [Task -> TaskRow] /\ \A t \in Task : T[t].reserved => task[t].reserved
  BY DEF RowsInv, TaskRow, Active
<1>2. A \in [Key -> NewAttRow]
  BY SameAtt DEF NewAttRow
<1>3. Decide(r, T, A)
  BY DEF Expire
<1> HIDE DEF T, A
<1> QED
  BY <1>1, <1>2, <1>3, DecideKeeps

(* Those on the event loop.                                                *)
LEMMA CancelKeeps ==
  ASSUME RowsInv, NEW t \in Task, Cancel(t) \/ Reconcile(t)
  PROVE  RowsInv' /\ UNCHANGED <<task, att>>
<1>1. Loop \in Runner /\ att \in [Key -> NewAttRow] /\ task[t] \in TaskRow
  BY SameAtt DEF Runner, RowsInv
<1>2. CASE Cancel(t)
  <2> DEFINE row == IF task[t].status = "approved" THEN [Ended(task[t], "cancelled") EXCEPT !.cancel = TRUE]
                                                   ELSE [task[t] EXCEPT !.cancel = TRUE]
             T == [task EXCEPT ![t] = row]
  <2>1. row \in TaskRow /\ (row.reserved => task[t].reserved)
    BY <1>1, EndedTask DEF TaskRow, Terminal
  <2>2. Decide(Loop, T, att)
    BY <1>2 DEF Cancel
  <2> HIDE DEF row
  <2>3. T \in [Task -> TaskRow] /\ \A u \in Task : T[u].reserved => task[u].reserved
    BY <2>1 DEF RowsInv
  <2> HIDE DEF T
  <2> QED
    BY <1>1, <2>2, <2>3, DecideKeeps
<1>3. CASE Reconcile(t)
  <2> DEFINE T == [task EXCEPT ![t].status = "approved", ![t].slot = FALSE, ![t].cancel = FALSE]
  <2>1. T \in [Task -> TaskRow] /\ \A u \in Task : T[u].reserved => task[u].reserved
    BY DEF RowsInv, TaskRow, Active
  <2>2. Decide(Loop, T, att)
    BY <1>3 DEF Reconcile
  <2> HIDE DEF T
  <2> QED
    BY <1>1, <2>1, <2>2, DecideKeeps
<1> QED
  BY <1>2, <1>3

(* The commit.                                                             *)
LEMMA CommitKeeps ==
  ASSUME RowsInv, NEW r \in Runner, Commit(r)
  PROVE  /\ RowsInv'
         /\ \A t \in Task : task'[t].reserved => task[t].reserved
         /\ \A k \in Key : att[k].phase \notin {"unused", "assigned"} => att'[k].phase # "assigned"
<1>1. /\ task' = [t \in Task |-> Updated(task[t], job[r].task[t])]
      /\ att' = [k \in Key |-> Stored(Updated(att[k], job[r].att[k]))]
      /\ job' = [job EXCEPT ![r] = Idle]
  BY DEF Commit, TaskAfter, AttAfter
<1>2. \A t \in Task : task'[t] \in TaskRow /\ (task'[t].reserved => task[t].reserved)
  BY <1>1, UpdatedTask DEF RowsInv, JobColumns
<1>3. ASSUME NEW k \in Key
      PROVE  /\ att'[k] \in AttRow
             /\ att'[k].phase = IF "phase" \in DOMAIN job[r].att[k] THEN job[r].att[k]["phase"] ELSE att[k].phase
  BY <1>1, UpdatedAtt DEF RowsInv, JobColumns
<1>4. ASSUME NEW k \in Key, att[k].phase \notin {"unused", "assigned"}, att'[k].phase = "assigned"
      PROVE  FALSE
  <2>1. k \in Inserts(r)
    BY <1>3, <1>4 DEF Inserts
  <2> QED
    BY <1>4, <2>1 DEF Commit, Unique
<1>5. DOMAIN job' = Runner /\ job'[r] = Idle /\ \A q \in Runner \ {r} : job'[q] = job[q]
  BY <1>1 DEF RowsInv, JobColumns
<1>6. JobColumns'
  BY <1>5, IdleColumns DEF RowsInv, JobColumns
<1>7. task' \in [Task -> TaskRow] /\ att' \in [Key -> AttRow]
  BY <1>1, <1>2, <1>3
<1> QED
  BY <1>2, <1>4, <1>6, <1>7 DEF RowsInv

(* One step, of whatever handler: it keeps the invariant, gives no task a  *)
(* reservation but a new one, and claims no used row.                      *)
TakesNothing ==
  /\ \A t \in Task : task[t].status # "none" /\ task'[t].reserved => task[t].reserved
  /\ \A k \in Key : att[k].phase \notin {"unused", "assigned"} => att'[k].phase # "assigned"

LEMMA RowsStep == RowsInv /\ [Next]_vars => RowsInv' /\ TakesNothing
<1> SUFFICES ASSUME RowsInv, [Next]_vars PROVE RowsInv' /\ TakesNothing
  OBVIOUS
<1>1. ASSUME RowsInv', UNCHANGED <<task, att>>
      PROVE  RowsInv' /\ TakesNothing
  BY <1>1 DEF TakesNothing
<1>2. ASSUME NEW r \in Runner, Commit(r)
      PROVE  RowsInv' /\ TakesNothing
  BY <1>2, CommitKeeps DEF TakesNothing
<1>3. ASSUME NEW r \in Runner, Rollback(r)
      PROVE  RowsInv' /\ TakesNothing
  <2>1. /\ UNCHANGED <<task, att>> /\ DOMAIN job' = Runner /\ job'[r] = Idle
        /\ \A q \in Runner \ {r} : job'[q] = job[q]
    BY <1>3 DEF Rollback, RowsInv, JobColumns
  <2>2. RowsInv'
    BY <2>1, IdleColumns DEF RowsInv, JobColumns
  <2> QED
    BY <1>1, <2>1, <2>2
<1>4. ASSUME NEW r \in Runner, Expire(r)
      PROVE  RowsInv' /\ TakesNothing
  BY <1>1, <1>4, ExpireKeeps
<1>5. ASSUME NEW r \in Thread, NEW k \in Key,
             \/ Claim(r, k[1], k[2])
             \/ \E phase \in {"assigned", "working", "verifying"} : Touch(r, k, phase)
             \/ Fail(r, k) \/ Succeed(r, k) \/ Acknowledge(r, k)
      PROVE  RowsInv' /\ TakesNothing
  <2>1. r \in Runner
    BY DEF Runner
  <2> QED
    BY <1>1, <1>5, <2>1, ClaimKeeps, TouchKeeps, EndingKeeps
<1>6. ASSUME NEW t \in Task, Cancel(t) \/ Reconcile(t)
      PROVE  RowsInv' /\ TakesNothing
  BY <1>1, <1>6, CancelKeeps
<1>7. ASSUME NEW t \in Task, Create(t)
      PROVE  RowsInv' /\ TakesNothing
  <2>1. task' \in [Task -> TaskRow] /\ UNCHANGED <<att, job>>
    BY <1>7 DEF Create, RowsInv, TaskRow, Active
  <2>2. \A u \in Task : u # t => task'[u] = task[u]
    BY <1>7 DEF Create, RowsInv
  <2>3. task[t].status = "none"
    BY <1>7 DEF Create
  <2> QED
    BY <2>1, <2>2, <2>3 DEF RowsInv, JobColumns, TakesNothing
<1>8. ASSUME NEW k \in Key, LeaseEnds(k)
      PROVE  RowsInv' /\ TakesNothing
  <2>1. UNCHANGED <<task, job>> /\ att' = [att EXCEPT ![k].lease = "past"]
    BY <1>8 DEF LeaseEnds
  <2>2. att' \in [Key -> AttRow] /\ \A j \in Key : att'[j].phase = att[j].phase
    BY <2>1 DEF RowsInv, AttRow
  <2> QED
    BY <2>1, <2>2 DEF RowsInv, JobColumns, TakesNothing
<1>9. CASE UNCHANGED vars
  BY <1>9 DEF vars, RowsInv, JobColumns, TakesNothing
<1> QED
  BY <1>2, <1>3, <1>4, <1>5, <1>6, <1>7, <1>8, <1>9 DEF Next

LEMMA RowsInvHolds == Spec => []RowsInv
BY InitRows, RowsStep, PTL DEF Spec

-----------------------------------------------------------------------------
(* The rows keep their types, whatever handlers write over each other, and *)
(* a handler writes only columns that its row has.                         *)
THEOREM TypeCorrect == Spec => []TypeOK
<1>1. RowsInv => TypeOK
  <2> SUFFICES ASSUME RowsInv PROVE TypeOK
    OBVIOUS
  <2>1. \A t \in Task : DOMAIN task[t] = {"status", "slot", "reserved", "cancel"}
    BY DEF RowsInv, TaskRow
  <2>2. \A k \in Key : DOMAIN att[k] = {"phase", "lease"}
    BY DEF RowsInv, AttRow
  <2> QED
    BY <2>1, <2>2 DEF RowsInv, JobColumns, TypeOK, TaskColumns, AttColumns
<1> QED
  BY <1>1, RowsInvHolds, PTL

(* No handler, however late it commits, writes the reservation key of a    *)
(* task that gave it back.                                                 *)
THEOREM ReservationCorrect == Spec => ReservationNeverReturns
<1>1. RowsInv /\ [Next]_vars =>
        [\A t \in Task : task[t].status # "none" /\ task'[t].reserved => task[t].reserved]_vars
  BY RowsStep DEF TakesNothing
<1> QED
  BY <1>1, RowsInvHolds, PTL DEF Spec, ReservationNeverReturns

(* No claim inserts its row over an attempt that its agent has already     *)
(* used, though claims compute the number from rows they read before.      *)
THEOREM ClaimCorrect == Spec => AttemptClaimedOnce
<1>1. RowsInv /\ [Next]_vars =>
        [\A k \in Key : att[k].phase \notin {"unused", "assigned"} => att'[k].phase # "assigned"]_vars
  BY RowsStep DEF TakesNothing
<1> QED
  BY <1>1, RowsInvHolds, PTL DEF Spec, AttemptClaimedOnce
===============================================================================
