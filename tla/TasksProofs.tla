---------------------------- MODULE TasksProofs ----------------------------
(***************************************************************************)
(* Proofs about Tasks, for every number of tasks, images, hosts, attempts  *)
(* and every lease.                                                        *)
(***************************************************************************)
EXTENDS Tasks, TLAPS

-----------------------------------------------------------------------------
(* Type correctness.                                                       *)

(* Updates of an attempt row give an attempt row, and writing one keeps    *)
(* the table of attempts well formed.                                      *)
LEMMA RowUpdates ==
  ASSUME NEW row \in Attempt, NEW p \in Phase, NEW u \in Publisher
  PROVE  /\ [row EXCEPT !.phase = p] \in Attempt
         /\ [row EXCEPT !.pub = u] \in Attempt
         /\ [row EXCEPT !.phase = p, !.pub = u] \in Attempt
         /\ [row EXCEPT !.phase = p, !.lease = Lease] \in Attempt
<1>1. Lease \in 0 .. Lease
  BY TaskAssumption
<1> QED
  BY <1>1 DEF Attempt

LEMMA WriteType ==
  ASSUME TypeOK, NEW t \in Task, NEW n \in Number, NEW row \in Attempt, Write(t, n, row)
  PROVE  attempt' \in [Task -> [Number -> Attempt]]
BY DEF TypeOK, Write

(* Touching an attempt gives an attempt row.                               *)
LEMMA TouchedType ==
  ASSUME TypeOK, NEW t \in Task, NEW n \in Number, NEW phase \in Phase
  PROVE  attempt[t][n] \in Attempt /\ Touched(t, n, phase) \in Attempt
<1>1. attempt[t][n] \in Attempt
  BY DEF TypeOK
<1> QED
  BY <1>1, RowUpdates DEF Touched, Publisher

(* The columns transition_task and an abandoned capture write.             *)
LEMMA TransitionType ==
  ASSUME TypeOK, NEW t \in Task, NEW to \in Status, Transition(t, to)
  PROVE  status' \in [Task -> Status \cup {"none"}] /\ reserved' \in [Task -> BOOLEAN]
<1>1. status' \in [Task -> Status \cup {"none"}]
  BY DEF TypeOK, Transition
<1>2. reserved' \in [Task -> BOOLEAN]
  BY DEF TypeOK, Transition
<1> QED
  BY <1>1, <1>2

LEMMA AbandonType ==
  ASSUME TypeOK, NEW t \in Task, AbandonImage(t)
  PROVE  imgStatus' \in [Image -> {"draft", "capturing", "ready", "failed"}]
BY DEF TypeOK, AbandonImage

(* An agent's request leaves a task in a known status.                     *)
LEMMA TouchedStatusType ==
  ASSUME TypeOK, NEW t \in Task
  PROVE  /\ TouchedStatus(t) \in Status \cup {"none"}
         /\ VerifyingStatus(t) \in Status \cup {"none"}
BY DEF TypeOK, TouchedStatus, VerifyingStatus, Status, Active, Leased

LEMMA TypeStep == TypeOK /\ [Next]_vars => TypeOK'
<1> SUFFICES ASSUME TypeOK, [Next]_vars PROVE TypeOK'
  OBVIOUS
<1> USE TaskAssumption
<1>0. \A t \in Task, n \in Number : attempt[t][n] \in Attempt
  BY DEF TypeOK
<1>1. ASSUME NEW t \in Task, NEW i \in Image, CreateCapture(t, i) PROVE TypeOK'
  BY <1>1 DEF CreateCapture, TypeOK, Status, Active, Leased
<1>2. ASSUME NEW t \in Task, NEW i \in Image, CreateDeployment(t, i) PROVE TypeOK'
  BY <1>2 DEF CreateDeployment, TypeOK, imgVars, Status, Active, Leased
<1>3. ASSUME NEW t \in Task, RequestCancel(t) PROVE TypeOK'
  <2>1. imgStatus' \in [Image -> {"draft", "capturing", "ready", "failed"}]
    BY <1>3, AbandonType DEF RequestCancel, TypeOK
  <2>2. status' \in [Task -> Status \cup {"none"}] /\ reserved' \in [Task -> BOOLEAN]
    <3>1. "cancelled" \in Status
      BY DEF Status, Terminal
    <3> QED
      BY <1>3, <3>1, TransitionType DEF RequestCancel, TypeOK
  <2>3. slot' \in [Task -> BOOLEAN] /\ cancelReq' \in [Task -> BOOLEAN]
    BY <1>3 DEF RequestCancel, TypeOK
  <2> QED
    BY <1>3, <2>1, <2>2, <2>3 DEF RequestCancel, TypeOK
<1>4. ASSUME NEW t \in Task, Reconcile(t) PROVE TypeOK'
  BY <1>4 DEF Reconcile, TypeOK, Transition, Status, Active
<1>5. ASSUME NEW i \in Image, DeleteImage(i) PROVE TypeOK'
  BY <1>5 DEF DeleteImage, TypeOK, taskVars
<1>6. ASSUME NEW t \in Task, Claim(t) PROVE TypeOK'
  <2> DEFINE row == [phase |-> "assigned", lease |-> Lease, pub |-> "idle"]
  <2>1. row \in Attempt /\ NextNumber(t) \in Number
    BY <1>6 DEF Claim, NextNumber, TypeOK, Attempt, Phase, Publisher, Number
  <2>2. attempt' \in [Task -> [Number -> Attempt]]
    BY <1>6, <2>1, WriteType DEF Claim
  <2> QED
    <3>1. "assigned" \in Status
      BY DEF Status, Active, Leased
    <3>2. status' \in [Task -> Status \cup {"none"}] /\ reserved' \in [Task -> BOOLEAN]
      BY <1>6, <3>1, TransitionType DEF Claim
    <3>3. made' \in [Task -> 0 .. MaxAttempts] /\ slot' \in [Task -> BOOLEAN]
      BY <1>6 DEF Claim, NextNumber, TypeOK
    <3> QED
      BY <1>6, <2>2, <3>2, <3>3 DEF Claim, TypeOK, imgVars
<1>7. ASSUME NEW t \in Task, NEW n \in Number, Renew(t, n) PROVE TypeOK'
  <2>1. CASE Heartbeat(t, n)
    <3>1. attempt[t][n].phase \in Phase
      BY <1>0 DEF Attempt
    <3>2. attempt' \in [Task -> [Number -> Attempt]]
      BY <2>1, <3>1, TouchedType, WriteType DEF Heartbeat
    <3> QED
      BY <2>1, <3>2, TouchedStatusType DEF Heartbeat, TypeOK, imgVars
  <2>2. CASE \E phase \in {"working", "verifying"} : Progress(t, n, phase)
    <3> PICK phase \in {"working", "verifying"} : Progress(t, n, phase)
      BY <2>2
    <3>1. phase \in Phase
      BY DEF Phase
    <3>2. attempt' \in [Task -> [Number -> Attempt]]
      BY <3>1, TouchedType, WriteType DEF Progress
    <3> QED
      BY <3>2, TouchedStatusType DEF Progress, TypeOK, imgVars
  <2>3. CASE Upload(t, n)
    <3>1. "working" \in Phase
      BY DEF Phase
    <3>2. attempt' \in [Task -> [Number -> Attempt]]
      BY <2>3, <3>1, TouchedType, WriteType DEF Upload
    <3> QED
      <4>1. staging' \in [Task -> {"none", "partial", "complete"}]
        BY <2>3 DEF Upload, StageChunk, TypeOK
      <4>2. status' \in [Task -> Status \cup {"none"}]
        BY <2>3, TouchedStatusType DEF Upload, TypeOK
      <4> QED
        BY <2>3, <3>2, <4>1, <4>2 DEF Upload, TypeOK, imgVars
  <2>4. CASE CaptureBegin(t, n)
    <3> DEFINE begun == [Touched(t, n, "verifying") EXCEPT !.pub =
                           IF VerifyingStatus(t) = "verifying" THEN "verifying" ELSE "doomed"]
    <3>1. Touched(t, n, "verifying") \in Attempt
      BY TouchedType DEF Phase
    <3>2. begun \in Attempt
      <4>1. \A u \in Publisher : [Touched(t, n, "verifying") EXCEPT !.pub = u] \in Attempt
        BY <3>1 DEF Attempt
      <4> QED
        BY <4>1 DEF Publisher
    <3>3. attempt' \in [Task -> [Number -> Attempt]]
      BY <2>4, <3>2, WriteType DEF CaptureBegin
    <3> QED
      BY <2>4, <3>3, TouchedStatusType DEF CaptureBegin, TypeOK, imgVars
  <2> QED BY <1>7, <2>1, <2>2, <2>3, <2>4 DEF Renew
<1>8. ASSUME NEW t \in Task, NEW n \in Number, ResultFailed(t, n) PROVE TypeOK'
  <2>1. attempt' \in [Task -> [Number -> Attempt]]
    BY <1>0, <1>8, RowUpdates, WriteType DEF ResultFailed, Phase, Publisher
  <2>3. "failed" \in Status
    BY DEF Status, Terminal
  <2>4. status' \in [Task -> Status \cup {"none"}] /\ reserved' \in [Task -> BOOLEAN]
    BY <1>8, <2>3, TransitionType DEF ResultFailed, Fail
  <2>5. imgStatus' \in [Image -> {"draft", "capturing", "ready", "failed"}]
    BY <1>8, AbandonType DEF ResultFailed, Fail, TypeOK
  <2> QED
    BY <1>8, <2>1, <2>4, <2>5 DEF ResultFailed, Fail, TypeOK
<1>9. ASSUME NEW t \in Task, NEW n \in Number, ResultCancelled(t, n) PROVE TypeOK'
  <2>1. attempt' \in [Task -> [Number -> Attempt]]
    BY <1>0, <1>9, RowUpdates, WriteType DEF ResultCancelled, Phase, Publisher
  <2>3. "cancelled" \in Status
    BY DEF Status, Terminal
  <2>4. status' \in [Task -> Status \cup {"none"}] /\ reserved' \in [Task -> BOOLEAN]
    BY <1>9, <2>3, TransitionType DEF ResultCancelled
  <2>5. imgStatus' \in [Image -> {"draft", "capturing", "ready", "failed"}]
    BY <1>9, AbandonType DEF ResultCancelled, TypeOK
  <2> QED
    BY <1>9, <2>1, <2>4, <2>5 DEF ResultCancelled, TypeOK
<1>10. ASSUME NEW t \in Task, NEW n \in Number, ResultRestored(t, n) PROVE TypeOK'
  <2>1. "completed" \in Phase
    BY DEF Phase
  <2>2. attempt' \in [Task -> [Number -> Attempt]]
    BY <1>10, <2>1, TouchedType, WriteType DEF ResultRestored
  <2>3. "succeeded" \in Status
    BY DEF Status, Terminal
  <2>4. status' \in [Task -> Status \cup {"none"}] /\ reserved' \in [Task -> BOOLEAN]
    BY <1>10, <2>3, TransitionType DEF ResultRestored, imgVars
  <2>5. imgStatus' \in [Image -> {"draft", "capturing", "ready", "failed"}]
    BY <1>10 DEF ResultRestored, imgVars, TypeOK
  <2> QED
    BY <1>10, <2>2, <2>4, <2>5 DEF ResultRestored, imgVars, TypeOK
<1>11. ASSUME NEW t \in Task, NEW n \in Number, CaptureRename(t, n) PROVE TypeOK'
  <2> DEFINE row == [attempt[t][n] EXCEPT !.pub = IF @ = "verifying" THEN "renamed" ELSE "over"]
  <2>1. row \in Attempt
    BY <1>0 DEF Attempt, Publisher
  <2>2. attempt' \in [Task -> [Number -> Attempt]]
    BY <1>11, <2>1, WriteType DEF CaptureRename
  <2> QED
    BY <1>11, <2>2 DEF CaptureRename, TypeOK, taskVars
<1>12. ASSUME NEW t \in Task, NEW n \in Number, CaptureRefused(t, n) PROVE TypeOK'
  <2>1. attempt' \in [Task -> [Number -> Attempt]]
    BY <1>0, <1>12, RowUpdates, WriteType DEF CaptureRefused, Phase, Publisher
  <2>3. "failed" \in Status
    BY DEF Status, Terminal
  <2>4. status' \in [Task -> Status \cup {"none"}] /\ reserved' \in [Task -> BOOLEAN]
    BY <1>12, <2>3, TransitionType DEF CaptureRefused, Fail
  <2>5. imgStatus' \in [Image -> {"draft", "capturing", "ready", "failed"}]
    BY <1>12, AbandonType DEF CaptureRefused, Fail, TypeOK
  <2> QED
    BY <1>12, <2>1, <2>4, <2>5 DEF CaptureRefused, Fail, TypeOK
<1>13. ASSUME NEW t \in Task, NEW n \in Number, CaptureCommit(t, n) PROVE TypeOK'
  <2>1. attempt' \in [Task -> [Number -> Attempt]]
    BY <1>0, <1>13, RowUpdates, WriteType DEF CaptureCommit, Phase, Publisher
  <2>3. "succeeded" \in Status
    BY DEF Status, Terminal
  <2>4. status' \in [Task -> Status \cup {"none"}] /\ reserved' \in [Task -> BOOLEAN]
    BY <1>13, <2>3, TransitionType DEF CaptureCommit
  <2>5. imgStatus' \in [Image -> {"draft", "capturing", "ready", "failed"}]
    BY <1>13 DEF CaptureCommit, TypeOK
  <2> QED
    BY <1>13, <2>1, <2>4, <2>5 DEF CaptureCommit, TypeOK
<1>14. CASE ExpireStale
  <2>1. \A t \in Task, n \in Number : [attempt[t][n] EXCEPT !.phase = "failed"] \in Attempt
    BY <1>0, RowUpdates DEF Phase, Publisher
  <2>2. attempt' \in [Task -> [Number -> Attempt]]
    BY <1>0, <1>14, <2>1 DEF ExpireStale
  <2>3. status' \in [Task -> Status \cup {"none"}] /\ slot' \in [Task -> BOOLEAN]
    BY <1>14 DEF ExpireStale, TypeOK, Status, Active
  <2>4. imgStatus' \in [Image -> {"draft", "capturing", "ready", "failed"}]
    BY <1>14 DEF ExpireStale, TypeOK
  <2> QED
    BY <1>14, <2>2, <2>3, <2>4 DEF ExpireStale, TypeOK
<1>15. CASE Crash
  <2> DEFINE lost(r) == [r EXCEPT !.pub = IF @ = "idle" THEN @ ELSE "over"]
  <2>1. \A r \in Attempt : lost(r) \in Attempt
    BY DEF Attempt, Publisher
  <2>2. attempt' \in [Task -> [Number -> Attempt]]
    BY <1>0, <1>15, <2>1 DEF Crash
  <2> QED
    BY <1>15, <2>2 DEF Crash, TypeOK, taskVars, imgVars
<1>16. CASE Tick
  <2> DEFINE older(r) == [r EXCEPT !.lease = IF @ > 0 THEN @ - 1 ELSE 0]
  <2>1. \A r \in Attempt : older(r) \in Attempt
    BY DEF Attempt
  <2>2. attempt' \in [Task -> [Number -> Attempt]]
    BY <1>0, <1>16, <2>1 DEF Tick
  <2> QED
    BY <1>16, <2>2 DEF Tick, TypeOK, taskVars, imgVars
<1>17. CASE UNCHANGED vars
  BY <1>17 DEF vars, TypeOK, taskVars, imgVars
<1>18. ASSUME NEW t \in Task, NEW n \in Number, UploadRefused(t, n) PROVE TypeOK'
  <2>1. staging' \in [Task -> {"none", "partial", "complete"}]
    BY <1>18 DEF UploadRefused, StageChunk, TypeOK
  <2> QED
    BY <1>18, <2>1 DEF UploadRefused, TypeOK, taskVars, imgVars
<1> QED
  BY <1>1, <1>2, <1>3, <1>4, <1>5, <1>6, <1>7, <1>8, <1>9, <1>10, <1>11, <1>12, <1>13, <1>14,
     <1>15, <1>16, <1>17, <1>18 DEF Next, Operator, Agent, Publishing

LEMMA TypeInit == Init => TypeOK
BY TaskAssumption DEF Init, TypeOK, NoAttempt, Attempt, Phase, Publisher

(* Every row of every reachable state has its type.                        *)
THEOREM TypeCorrect == Spec => []TypeOK
BY TypeInit, TypeStep, PTL DEF Spec
-----------------------------------------------------------------------------
(* Who holds what.                                                         *)

(* A task that does not exist has no attempt and nobody publishes it.      *)
Unborn ==
  \A t \in Task : status[t] = "none" =>
    made[t] = 0 /\ \A n \in Number : attempt[t][n].pub = "idle"

(* The inductive invariant of the reservations.                            *)
Holding == /\ SlotFollowsStatus
           /\ ReservationFollowsStatus
           /\ OneTransfer
           /\ OneTaskPerHost

(* No step but a creation or a claim can break exclusion: nobody becomes   *)
(* active, nobody takes the slot.                                          *)
LEMMA Shrinking ==
  ASSUME OneTransfer, OneTaskPerHost,
         \A t \in Task : slot'[t] => slot[t],
         \A t \in Task : status'[t] \in Active => status[t] \in Active
  PROVE  OneTransfer' /\ OneTaskPerHost'
BY DEF OneTransfer, OneTaskPerHost

(* A task that changes its status without becoming active again, and has   *)
(* the slot afterwards only if an agent holds it.                          *)
LEMMA Moving ==
  ASSUME TypeOK, Holding, NEW t \in Task, NEW to \in Status,
         Transition(t, to),
         to \in Active => status[t] \in Active,
         to \notin Leased,
         slot' = [slot EXCEPT ![t] = FALSE]
  PROVE  Holding'
<1>1. SlotFollowsStatus'
  BY DEF Holding, TypeOK, SlotFollowsStatus, Transition
<1>2. ReservationFollowsStatus'
  BY DEF Holding, TypeOK, ReservationFollowsStatus, Transition, Status, Active, Leased, Terminal
<1>3. \A u \in Task : slot'[u] => slot[u]
  BY DEF TypeOK
<1>4. \A u \in Task : status'[u] \in Active => status[u] \in Active
  BY DEF TypeOK, Transition
<1> QED
  BY <1>1, <1>2, <1>3, <1>4, Shrinking DEF Holding

(* An agent's report: a held task stays held, and no other status changes. *)
LEMMA Reporting ==
  ASSUME TypeOK, Holding, NEW t \in Task,
         \/ status' = [status EXCEPT ![t] = TouchedStatus(t)]
         \/ status' = [status EXCEPT ![t] = VerifyingStatus(t)],
         UNCHANGED <<slot, reserved>>
  PROVE  Holding'
<1>1. \A u \in Task : status'[u] \in Leased <=> status[u] \in Leased
  BY DEF TypeOK, TouchedStatus, VerifyingStatus, Leased
<1>2. \A u \in Task : status'[u] \in Active <=> status[u] \in Active
  BY DEF TypeOK, TouchedStatus, VerifyingStatus, Leased, Active
<1>3. SlotFollowsStatus' /\ ReservationFollowsStatus'
  BY <1>1, <1>2 DEF Holding, SlotFollowsStatus, ReservationFollowsStatus
<1> QED
  BY <1>2, <1>3, Shrinking DEF Holding

(* A new task on a host that nobody has reserved.                          *)
LEMMA Creating ==
  ASSUME TypeOK, Holding, NEW t \in Task,
         status[t] = "none",
         \A u \in Task : reserved[u] => HostOf[u] # HostOf[t],
         status' = [status EXCEPT ![t] = "approved"],
         reserved' = [reserved EXCEPT ![t] = TRUE],
         UNCHANGED slot
  PROVE  Holding'
<1>1. SlotFollowsStatus'
  BY DEF Holding, TypeOK, SlotFollowsStatus, Leased
<1>2. ReservationFollowsStatus'
  BY DEF Holding, TypeOK, ReservationFollowsStatus, Active, Leased
<1>3. OneTransfer'
  BY DEF Holding, OneTransfer
<1>4. \A u \in Task \ {t} : status'[u] \in Active => HostOf[u] # HostOf[t]
  BY DEF Holding, TypeOK, ReservationFollowsStatus
<1>5. OneTaskPerHost'
  BY <1>4 DEF Holding, TypeOK, OneTaskPerHost
<1> QED
  BY <1>1, <1>2, <1>3, <1>5 DEF Holding

LEMMA HoldingStep == TypeOK /\ Holding /\ [Next]_vars => Holding'
<1> SUFFICES ASSUME TypeOK, Holding, [Next]_vars PROVE Holding'
  OBVIOUS
<1> USE TaskAssumption
<1>0. "failed" \in Status /\ "cancelled" \in Status /\ "succeeded" \in Status
      /\ "approved" \in Status /\ "assigned" \in Status
  BY DEF Status, Active, Leased, Terminal
<1>00. \A s \in {"failed", "cancelled", "succeeded"} : s \notin Active /\ s \notin Leased
  BY DEF Active, Leased
<1>1. ASSUME NEW t \in Task, NEW i \in Image, CreateCapture(t, i) PROVE Holding'
  BY <1>1, Creating DEF CreateCapture, HostFree
<1>2. ASSUME NEW t \in Task, NEW i \in Image, CreateDeployment(t, i) PROVE Holding'
  BY <1>2, Creating DEF CreateDeployment, HostFree
<1>3. ASSUME NEW t \in Task, RequestCancel(t) PROVE Holding'
  <2>1. CASE status[t] = "approved"
    BY <1>0, <1>00, <1>3, <2>1, Moving DEF RequestCancel
  <2>2. CASE status[t] # "approved"
    <3>1. UNCHANGED <<status, reserved, slot>>
      BY <1>3, <2>2 DEF RequestCancel
    <3> QED
      BY <3>1 DEF Holding, SlotFollowsStatus, ReservationFollowsStatus, OneTransfer, OneTaskPerHost
  <2> QED BY <2>1, <2>2
<1>4. ASSUME NEW t \in Task, Reconcile(t) PROVE Holding'
  <2>1. status[t] \in Active /\ "approved" \notin Leased
    BY <1>4 DEF Reconcile, Active, Leased
  <2> QED
    BY <1>0, <1>4, <2>1, Moving DEF Reconcile
<1>5. ASSUME NEW i \in Image, DeleteImage(i) PROVE Holding'
  BY <1>5 DEF DeleteImage, taskVars, Holding, SlotFollowsStatus, ReservationFollowsStatus,
              OneTransfer, OneTaskPerHost
<1>6. ASSUME NEW t \in Task, Claim(t) PROVE Holding'
  <2>1. SlotFollowsStatus'
    BY <1>6 DEF Claim, Holding, TypeOK, SlotFollowsStatus, Transition, Leased
  <2>2. ReservationFollowsStatus'
    BY <1>6 DEF Claim, Holding, TypeOK, ReservationFollowsStatus, Transition, Active, Leased, Terminal
  <2>3. OneTransfer'
    BY <1>6 DEF Claim, SlotFree, TypeOK, OneTransfer
  <2>4. \A u \in Task : status'[u] \in Active => status[u] \in Active
    BY <1>6 DEF Claim, TypeOK, Transition, Active, Leased
  <2>5. OneTaskPerHost'
    BY <2>4 DEF Holding, OneTaskPerHost
  <2> QED
    BY <2>1, <2>2, <2>3, <2>5 DEF Holding
<1>7. ASSUME NEW t \in Task, NEW n \in Number, Renew(t, n) PROVE Holding'
  BY <1>7, Reporting DEF Renew, Heartbeat, Progress, Upload, CaptureBegin
<1>8. ASSUME NEW t \in Task, NEW n \in Number, ResultFailed(t, n) PROVE Holding'
  BY <1>0, <1>00, <1>8, Moving DEF ResultFailed, Fail
<1>9. ASSUME NEW t \in Task, NEW n \in Number, ResultCancelled(t, n) PROVE Holding'
  BY <1>0, <1>00, <1>9, Moving DEF ResultCancelled
<1>10. ASSUME NEW t \in Task, NEW n \in Number, ResultRestored(t, n) PROVE Holding'
  BY <1>0, <1>00, <1>10, Moving DEF ResultRestored
<1>11. ASSUME NEW t \in Task, NEW n \in Number, CaptureRename(t, n) PROVE Holding'
  BY <1>11 DEF CaptureRename, taskVars, Holding, SlotFollowsStatus, ReservationFollowsStatus,
               OneTransfer, OneTaskPerHost
<1>12. ASSUME NEW t \in Task, NEW n \in Number, CaptureRefused(t, n) PROVE Holding'
  BY <1>0, <1>00, <1>12, Moving DEF CaptureRefused, Fail
<1>13. ASSUME NEW t \in Task, NEW n \in Number, CaptureCommit(t, n) PROVE Holding'
  BY <1>0, <1>00, <1>13, Moving DEF CaptureCommit
<1>14. CASE ExpireStale
  <2>1. \A t \in Task : StaleTask(t) => status[t] \in Leased
    BY DEF StaleTask, Stale
  <2>2. \A t \in Task : /\ status'[t] = IF StaleTask(t) THEN "intervention_required" ELSE status[t]
                        /\ slot'[t] = (slot[t] /\ ~StaleTask(t))
                        /\ reserved'[t] = reserved[t]
    BY <1>14 DEF ExpireStale, TypeOK
  <2>3. SlotFollowsStatus'
    BY <2>2 DEF Holding, SlotFollowsStatus, Leased
  <2>4. \A t \in Task : status'[t] \in Active <=> status[t] \in Active
    BY <2>1, <2>2 DEF Active
  <2>5. ReservationFollowsStatus'
    BY <2>2, <2>4 DEF Holding, ReservationFollowsStatus
  <2>6. \A t \in Task : slot'[t] => slot[t]
    BY <2>2
  <2> QED
    BY <2>3, <2>4, <2>5, <2>6, Shrinking DEF Holding
<1>15. CASE Crash \/ Tick \/ UNCHANGED vars \/ \E t \in Task, n \in Number : UploadRefused(t, n)
  BY <1>15 DEF Crash, Tick, UploadRefused, vars, taskVars, Holding, SlotFollowsStatus, ReservationFollowsStatus,
               OneTransfer, OneTaskPerHost
<1> QED
  BY <1>1, <1>2, <1>3, <1>4, <1>5, <1>6, <1>7, <1>8, <1>9, <1>10, <1>11, <1>12, <1>13, <1>14,
     <1>15 DEF Next, Operator, Agent, Publishing

LEMMA HoldingInit == Init => Holding
BY DEF Init, Holding, SlotFollowsStatus, ReservationFollowsStatus, OneTransfer, OneTaskPerHost,
       Active, Leased

LEMMA HoldingCorrect == Spec => [](TypeOK /\ Holding)
BY TypeInit, TypeStep, HoldingInit, HoldingStep, PTL DEF Spec

(* At most one task of the installation transfers, whatever handlers,      *)
(* crashes, late requests and late publications came before.               *)
THEOREM OneTransferCorrect == Spec => []OneTransfer
BY HoldingCorrect, PTL DEF Holding

(* Two unfinished tasks never share a host.                                *)
THEOREM OneTaskPerHostCorrect == Spec => []OneTaskPerHost
BY HoldingCorrect, PTL DEF Holding

(* The slot is with the tasks agents hold and nowhere else: none is lost.  *)
THEOREM SlotCorrect == Spec => []SlotFollowsStatus
BY HoldingCorrect, PTL DEF Holding

(* A host is reserved from the creation of its task to its end, exactly.   *)
THEOREM ReservationCorrect == Spec => []ReservationFollowsStatus
BY HoldingCorrect, PTL DEF Holding
-----------------------------------------------------------------------------
(* Tasks implements Reservations.                                          *)

(* A step that writes at most the attempts of a task that exists.          *)
LEMMA UnbornWrite ==
  ASSUME TypeOK, Unborn, NEW t \in Task, NEW n \in Number, NEW row, Write(t, n, row),
         status[t] # "none",
         UNCHANGED made,
         \A u \in Task : status'[u] = "none" => status[u] = "none"
  PROVE  Unborn'
<1>1. \A u \in Task, m \in Number : u # t => attempt'[u][m] = attempt[u][m]
  BY DEF TypeOK, Write
<1>2. \A u \in Task : status'[u] = "none" => u # t /\ status[u] = "none"
  OBVIOUS
<1> QED
  BY <1>1, <1>2 DEF Unborn

(* Only a task that exists has an agent or a publisher.                    *)
LEMMA Born ==
  ASSUME TypeOK, Unborn, NEW t \in Task, NEW n \in Number,
         Accepted(t, n) \/ attempt[t][n].pub # "idle"
  PROVE  status[t] # "none"
BY DEF Accepted, Unborn, Number, TypeOK

LEMMA UnbornStep == TypeOK /\ Unborn /\ [Next]_vars => Unborn'
<1> SUFFICES ASSUME TypeOK, Unborn, [Next]_vars PROVE Unborn'
  OBVIOUS
<1> USE TaskAssumption
<1>1. ASSUME NEW t \in Task, NEW i \in Image, CreateCapture(t, i) PROVE Unborn'
  BY <1>1 DEF CreateCapture, TypeOK, Unborn
<1>2. ASSUME NEW t \in Task, NEW i \in Image, CreateDeployment(t, i) PROVE Unborn'
  BY <1>2 DEF CreateDeployment, TypeOK, Unborn
<1>3. ASSUME NEW t \in Task, RequestCancel(t) PROVE Unborn'
  BY <1>3 DEF RequestCancel, Transition, TypeOK, Unborn
<1>4. ASSUME NEW t \in Task, Reconcile(t) PROVE Unborn'
  BY <1>4 DEF Reconcile, Transition, TypeOK, Unborn
<1>5. ASSUME NEW t \in Task, Claim(t) PROVE Unborn'
  <2>1. \A u \in Task, m \in Number : u # t => attempt'[u][m] = attempt[u][m] /\ made'[u] = made[u]
    BY <1>5 DEF Claim, TypeOK, Write
  <2>2. \A u \in Task : status'[u] = "none" => u # t /\ status[u] = "none"
    BY <1>5 DEF Claim, Transition, TypeOK
  <2> QED
    BY <2>1, <2>2 DEF Unborn, Number
<1>6. ASSUME NEW t \in Task, NEW n \in Number, Renew(t, n) PROVE Unborn'
  <2>1. status[t] # "none" /\ TouchedStatus(t) # "none" /\ VerifyingStatus(t) # "none"
    BY <1>6, Born DEF Renew, Heartbeat, Progress, Upload, CaptureBegin, TouchedStatus, VerifyingStatus
  <2>2. \A u \in Task : status'[u] = "none" => status[u] = "none"
    BY <1>6, <2>1 DEF Renew, Heartbeat, Progress, Upload, CaptureBegin, TypeOK
  <2> QED
    BY <1>6, <2>1, <2>2, UnbornWrite DEF Renew, Heartbeat, Progress, Upload, CaptureBegin
<1>7. ASSUME NEW t \in Task, NEW n \in Number,
             ResultFailed(t, n) \/ ResultCancelled(t, n) \/ ResultRestored(t, n)
      PROVE Unborn'
  <2>1. status[t] # "none"
    BY <1>7, Born DEF ResultFailed, ResultCancelled, ResultRestored
  <2>2. \A u \in Task : status'[u] = "none" => status[u] = "none"
    BY <1>7 DEF ResultFailed, ResultCancelled, ResultRestored, Fail, Transition, TypeOK
  <2> QED
    BY <1>7, <2>1, <2>2, UnbornWrite DEF ResultFailed, ResultCancelled, ResultRestored
<1>8. ASSUME NEW t \in Task, NEW n \in Number,
             CaptureRename(t, n) \/ CaptureRefused(t, n) \/ CaptureCommit(t, n)
      PROVE Unborn'
  <2>1. status[t] # "none"
    BY <1>8, Born DEF CaptureRename, CaptureRefused, CaptureCommit
  <2>2. \A u \in Task : status'[u] = "none" => status[u] = "none"
    BY <1>8 DEF CaptureRename, CaptureRefused, CaptureCommit, Fail, Transition, TypeOK, taskVars
  <2> QED
    BY <1>8, <2>1, <2>2, UnbornWrite DEF CaptureRename, CaptureRefused, CaptureCommit, taskVars
<1>9. CASE ExpireStale
  <2>1. \A t \in Task : status'[t] = "none" => status[t] = "none"
    BY <1>9 DEF ExpireStale
  <2>2. \A t \in Task, n \in Number : attempt'[t][n].pub = attempt[t][n].pub
    BY <1>9 DEF ExpireStale, TypeOK, Attempt
  <2> QED
    BY <1>9, <2>1, <2>2 DEF ExpireStale, Unborn
<1>10. CASE Crash
  <2>1. \A t \in Task, n \in Number : attempt[t][n].pub = "idle" => attempt'[t][n].pub = "idle"
    BY <1>10 DEF Crash, TypeOK, Attempt
  <2> QED
    BY <1>10, <2>1 DEF Crash, Unborn, taskVars
<1>11. CASE Tick
  <2>1. \A t \in Task, n \in Number : attempt'[t][n].pub = attempt[t][n].pub
    <3> DEFINE older(r) == [r EXCEPT !.lease = IF @ > 0 THEN @ - 1 ELSE 0]
    <3>1. \A r \in Attempt : older(r).pub = r.pub
      BY DEF Attempt
    <3>2. \A t \in Task, n \in Number : attempt[t][n] \in Attempt
      BY DEF TypeOK
    <3>3. \A t \in Task, n \in Number : attempt'[t][n] = older(attempt[t][n])
      BY <1>11 DEF Tick
    <3> QED
      BY <3>1, <3>2, <3>3
  <2>2. UNCHANGED <<status, made>>
    BY <1>11 DEF Tick, taskVars
  <2> QED
    BY <2>1, <2>2 DEF Unborn
<1>12. CASE \/ \E i \in Image : DeleteImage(i)
            \/ \E t \in Task, n \in Number : UploadRefused(t, n)
            \/ UNCHANGED vars
  BY <1>12 DEF DeleteImage, UploadRefused, vars, taskVars, Unborn
<1> QED
  BY <1>1, <1>2, <1>3, <1>4, <1>5, <1>6, <1>7, <1>8, <1>9, <1>10, <1>11, <1>12
     DEF Next, Operator, Agent, Publishing

(* A step that leaves the abstract state alone.                            *)
LEMMA Stutter ==
  ASSUME \A t \in Task : /\ reserved'[t] <=> reserved[t]
                         /\ slot'[t] <=> slot[t]
                         /\ status'[t] \in Terminal <=> status[t] \in Terminal
  PROVE  UNCHANGED Promise!vars
BY DEF Promise!vars

(* A task that ends gives back what it has, once.                          *)
LEMMA Ending ==
  ASSUME TypeOK, Holding, NEW t \in Task, status[t] # "none",
         NEW to \in Terminal, Transition(t, to),
         slot' = [slot EXCEPT ![t] = FALSE]
  PROVE  [Promise!Next]_(Promise!vars)
<1>1. \A u \in Task : u # t => status'[u] = status[u] /\ reserved'[u] = reserved[u] /\ slot'[u] = slot[u]
  BY DEF Transition, TypeOK
<1>2. status'[t] \in Terminal /\ ~reserved'[t] /\ ~slot'[t]
  BY DEF Transition, TypeOK
<1>3. CASE status[t] \in Terminal
  <2>1. ~reserved[t] /\ ~slot[t]
    BY <1>3 DEF Holding, SlotFollowsStatus, ReservationFollowsStatus, Active, Leased, Terminal
  <2> QED
    BY <1>1, <1>2, <1>3, <2>1, Stutter
<1>4. CASE status[t] \notin Terminal
  <2>1. reserved[t]
    BY <1>4 DEF Holding, TypeOK, ReservationFollowsStatus, Status
  <2>2. Promise!End(t)
    BY <1>1, <1>2, <2>1 DEF Promise!End
  <2> QED
    BY <2>2 DEF Promise!Next
<1> QED
  BY <1>3, <1>4

LEMMA PromiseStep ==
  TypeOK /\ Holding /\ Unborn /\ [Next]_vars => [Promise!Next]_(Promise!vars)
<1> SUFFICES ASSUME TypeOK, Holding, Unborn, [Next]_vars PROVE [Promise!Next]_(Promise!vars)
  OBVIOUS
<1> USE TaskAssumption
<1>0. "failed" \in Terminal /\ "cancelled" \in Terminal /\ "succeeded" \in Terminal
      /\ "approved" \notin Terminal /\ "none" \notin Terminal
  BY DEF Terminal
<1>1. ASSUME NEW t \in Task, NEW i \in Image, CreateCapture(t, i) \/ CreateDeployment(t, i)
      PROVE  [Promise!Next]_(Promise!vars)
  <2>1. /\ status[t] = "none" /\ \A u \in Task : reserved[u] => HostOf[u] # HostOf[t]
        /\ status' = [status EXCEPT ![t] = "approved"]
        /\ reserved' = [reserved EXCEPT ![t] = TRUE]
        /\ slot' = slot
    BY <1>1 DEF CreateCapture, CreateDeployment, HostFree
  <2>2. ~reserved[t]
    BY <2>1 DEF Holding, ReservationFollowsStatus, Active, Leased
  <2>3. \A u \in Task : /\ reserved'[u] <=> reserved[u] \/ u = t
                        /\ status'[u] \in Terminal <=> status[u] \in Terminal
    BY <1>0, <2>1 DEF TypeOK
  <2>4. Promise!Reserve(t)
    BY <1>0, <2>1, <2>2, <2>3 DEF Promise!Reserve
  <2> QED
    BY <2>4 DEF Promise!Next
<1>2. ASSUME NEW t \in Task, RequestCancel(t) PROVE [Promise!Next]_(Promise!vars)
  <2>1. CASE status[t] = "approved"
    BY <1>0, <1>2, <2>1, Ending DEF RequestCancel
  <2>2. CASE status[t] # "approved"
    <3>1. UNCHANGED <<status, reserved, slot>>
      BY <1>2, <2>2 DEF RequestCancel
    <3> QED
      BY <3>1, Stutter
  <2> QED BY <2>1, <2>2
<1>3. ASSUME NEW t \in Task, Reconcile(t) PROVE [Promise!Next]_(Promise!vars)
  <2>1. \A u \in Task : reserved'[u] = reserved[u]
    BY <1>0, <1>3 DEF Reconcile, Transition, TypeOK
  <2>2. \A u \in Task : slot'[u] = slot[u]
    BY <1>3 DEF Reconcile, Holding, SlotFollowsStatus, Leased, TypeOK
  <2>3. \A u \in Task : status'[u] \in Terminal <=> status[u] \in Terminal
    BY <1>3 DEF Reconcile, Transition, TypeOK, Terminal
  <2> QED
    BY <2>1, <2>2, <2>3, Stutter
<1>4. ASSUME NEW t \in Task, Claim(t) PROVE [Promise!Next]_(Promise!vars)
  <2>1. \A u \in Task : /\ reserved'[u] = reserved[u]
                        /\ slot'[u] <=> u = t
                        /\ status'[u] \in Terminal <=> status[u] \in Terminal
    BY <1>4 DEF Claim, SlotFree, Transition, TypeOK, Terminal
  <2>2. reserved[t] /\ \A u \in Task : ~slot[u]
    BY <1>4 DEF Claim, SlotFree, Holding, ReservationFollowsStatus, Active
  <2>3. Promise!Grab(t)
    BY <2>1, <2>2 DEF Promise!Grab
  <2> QED
    BY <2>3 DEF Promise!Next
<1>5. ASSUME NEW t \in Task, NEW n \in Number, Renew(t, n) PROVE [Promise!Next]_(Promise!vars)
  <2>1. UNCHANGED <<slot, reserved>>
    BY <1>5 DEF Renew, Heartbeat, Progress, Upload, CaptureBegin
  <2>2. \A u \in Task : status'[u] \in Terminal <=> status[u] \in Terminal
    BY <1>5 DEF Renew, Heartbeat, Progress, Upload, CaptureBegin, TouchedStatus, VerifyingStatus,
                TypeOK, Terminal
  <2> QED
    BY <2>1, <2>2, Stutter
<1>6. ASSUME NEW t \in Task, NEW n \in Number, ResultFailed(t, n) PROVE [Promise!Next]_(Promise!vars)
  BY <1>0, <1>6, Born, Ending DEF ResultFailed, Fail
<1>7. ASSUME NEW t \in Task, NEW n \in Number, ResultCancelled(t, n) PROVE [Promise!Next]_(Promise!vars)
  BY <1>0, <1>7, Born, Ending DEF ResultCancelled
<1>8. ASSUME NEW t \in Task, NEW n \in Number, ResultRestored(t, n) PROVE [Promise!Next]_(Promise!vars)
  BY <1>0, <1>8, Born, Ending DEF ResultRestored
<1>9. ASSUME NEW t \in Task, NEW n \in Number, CaptureRefused(t, n) PROVE [Promise!Next]_(Promise!vars)
  BY <1>0, <1>9, Born, Ending DEF CaptureRefused, Fail
<1>10. ASSUME NEW t \in Task, NEW n \in Number, CaptureCommit(t, n) PROVE [Promise!Next]_(Promise!vars)
  BY <1>0, <1>10, Born, Ending DEF CaptureCommit
<1>11. CASE ExpireStale
  <2>1. PICK t \in Task, n \in Number : <<t, n>> \in Stale
    BY <1>11 DEF ExpireStale, Stale
  <2>2. slot[t] /\ StaleTask(t)
    BY <2>1 DEF Stale, StaleTask, Holding, SlotFollowsStatus
  <2>3. \A u \in Task : StaleTask(u) => slot[u] /\ status[u] \in Leased
    BY DEF Stale, StaleTask, Holding, SlotFollowsStatus
  <2>4. \A u \in Task : slot'[u] <=> slot[u] /\ u # t
    BY <1>11, <2>2, <2>3 DEF ExpireStale, Holding, OneTransfer
  <2>5. \A u \in Task : status'[u] \in Terminal <=> status[u] \in Terminal
    BY <1>11, <2>3 DEF ExpireStale, Leased, Terminal
  <2>6. Promise!Suspend(t)
    BY <1>11, <2>2, <2>4, <2>5 DEF Promise!Suspend, ExpireStale
  <2> QED
    BY <2>6 DEF Promise!Next
<1>12. CASE \/ \E i \in Image : DeleteImage(i)
            \/ \E t \in Task, n \in Number : CaptureRename(t, n) \/ UploadRefused(t, n)
            \/ Crash \/ Tick \/ UNCHANGED vars
  <2>1. UNCHANGED <<status, reserved, slot>>
    BY <1>12 DEF DeleteImage, CaptureRename, UploadRefused, Crash, Tick, vars, taskVars
  <2> QED
    BY <2>1, Stutter
<1> QED
  BY <1>1, <1>2, <1>3, <1>4, <1>5, <1>6, <1>7, <1>8, <1>9, <1>10, <1>11, <1>12
     DEF Next, Operator, Agent, Publishing

LEMMA PromiseInit == Init => Promise!Init /\ Unborn
BY DEF Init, Promise!Init, Terminal, Unborn, NoAttempt

(* The task tables keep the promise of Reservations: hosts and the slot    *)
(* are taken, suspended and given back only as it allows, and an ended     *)
(* task never has either again.                                            *)
THEOREM ReservationsKept == Spec => KeepsReservations
<1>1. Spec => [](TypeOK /\ Holding /\ Unborn)
  BY TypeInit, TypeStep, HoldingInit, HoldingStep, PromiseInit, UnbornStep, PTL DEF Spec
<1> QED
  BY <1>1, PromiseInit, PromiseStep, PTL DEF Spec, KeepsReservations, Promise!Spec
=============================================================================
