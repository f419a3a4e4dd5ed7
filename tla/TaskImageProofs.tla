--------------------------- MODULE TaskImageProofs ---------------------------
(***************************************************************************)
(* Proofs about the images of Tasks: what the row of an image says, and    *)
(* what its directory holds, agrees with the tasks that write and read it. *)
(***************************************************************************)
EXTENDS TasksProofs

(* A task refers to an image as soon as it exists, and is not cancelled    *)
(* before; no two captures write the same image, and the image of a        *)
(* capture is a draft no more.                                             *)
ImagesKnown ==
  /\ \A t \in Task : image[t] \in Image <=> status[t] # "none"
  /\ \A t \in Task : status[t] = "none" => ~cancelReq[t]
  /\ \A t, u \in Capture : image[t] \in Image /\ image[t] = image[u] => t = u
  /\ \A t \in Capture : image[t] \in Image => imgStatus[image[t]] # "draft"

(* An image becomes ready with the end of its capture.                     *)
ReadyHasEnded ==
  \A t \in Capture :
    image[t] \in Image /\ imgStatus[image[t]] = "ready" => status[t] \in Terminal

(* Only captures are published, and what was renamed is there until it is  *)
(* deleted.                                                                *)
PublishersKnown ==
  \A t \in Task, n \in Number :
    /\ attempt[t][n].pub # "idle" => t \in Capture
    /\ attempt[t][n].pub = "renamed" => published[image[t]] \/ deleted[image[t]]

(* The part of the invariant that is about rows.                           *)
Rows == /\ ImagesKnown /\ ReadyHasEnded
        /\ CapturingHasCapture /\ DeploymentHasImage /\ SucceededIsPublished

Queued == Active \ {"intervention_required"}

(* A task moves on between approved and verifying.                         *)
LEMMA WorkingRows ==
  ASSUME TypeOK, Rows, NEW t \in Task, NEW to \in Queued,
         status[t] \in Queued,
         status' = [status EXCEPT ![t] = to],
         UNCHANGED <<image, cancelReq, imgVars>>
  PROVE  Rows'
<1>1. \A u \in Task : status'[u] = IF u = t THEN to ELSE status[u]
  BY DEF TypeOK
<1>2. \A u \in Task : /\ status'[u] \in Queued <=> status[u] \in Queued
                      /\ status'[u] = "none" <=> status[u] = "none"
                      /\ status'[u] \in Terminal <=> status[u] \in Terminal
                      /\ status'[u] = "succeeded" <=> status[u] = "succeeded"
                      /\ status'[u] \in Active <=> status[u] \in Active
  BY <1>1 DEF Queued, Active, Leased, Terminal
<1>3. ImagesKnown' /\ ReadyHasEnded'
  BY <1>2 DEF Rows, ImagesKnown, ReadyHasEnded, imgVars
<1>4. CapturingHasCapture'
  BY <1>2 DEF Rows, CapturingHasCapture, Queued, imgVars
<1>5. DeploymentHasImage' /\ SucceededIsPublished'
  BY <1>2 DEF Rows, DeploymentHasImage, SucceededIsPublished, Selectable, imgVars
<1> QED
  BY <1>3, <1>4, <1>5 DEF Rows

(* The image of an unfinished deployment is not being captured, so that    *)
(* to abandon it changes nothing.                                          *)
LEMMA AbandonedImages ==
  ASSUME TypeOK, Rows, NEW t \in Task, status[t] # "none", AbandonImage(t),
         t \in Capture \/ status[t] \in Active
  PROVE  \A i \in Image :
           imgStatus'[i] = IF t \in Capture /\ image[t] = i /\ imgStatus[i] = "capturing"
                           THEN "failed" ELSE imgStatus[i]
<1>1. image[t] \in Image
  BY DEF Rows, ImagesKnown
<1>2. t \notin Capture => imgStatus[image[t]] = "ready"
  BY DEF Rows, DeploymentHasImage, Selectable
<1> QED
  BY <1>1, <1>2 DEF TypeOK, AbandonImage

(* A task ends without success, or is to be cancelled: its image is no     *)
(* longer being captured.                                                  *)
LEMMA AbandonedRows ==
  ASSUME TypeOK, Rows, NEW t \in Task, status[t] # "none",
         \A i \in Image :
           imgStatus'[i] = IF t \in Capture /\ image[t] = i /\ imgStatus[i] = "capturing"
                           THEN "failed" ELSE imgStatus[i],
         NEW to, \A u \in Task : status'[u] = IF u = t THEN to ELSE status[u],
         NEW c, \A u \in Task : cancelReq'[u] = IF u = t THEN c ELSE cancelReq[u],
         to \in {"failed", "cancelled"} \/ (to = status[t] /\ to \in Active),
         t \in Capture => (c \/ to \in {"failed", "cancelled"}),
         UNCHANGED <<image, deleted, published>>
  PROVE  Rows'
<1>1. ImagesKnown'
  <2>1. \A u \in Task : status'[u] = "none" <=> status[u] = "none"
    BY DEF Active, Leased
  <2> QED
    BY <2>1 DEF Rows, ImagesKnown, TypeOK
<1>2. ReadyHasEnded'
  BY DEF Rows, ReadyHasEnded, Terminal, Capture, Active, Leased
<1>3. CapturingHasCapture'
  <2>1. ASSUME NEW i \in Image, imgStatus'[i] = "capturing"
        PROVE  \E u \in Capture : image[u] = i /\ ~cancelReq'[u] /\ status'[u] \in Queued
    <3>1. PICK u \in Capture : image[u] = i /\ ~cancelReq[u] /\ status[u] \in Queued
      BY <2>1 DEF Rows, CapturingHasCapture, Queued
    <3>2. u # t
      BY <2>1, <3>1
    <3> QED
      BY <3>1, <3>2 DEF Capture
  <2>2. ASSUME NEW i \in Image, NEW u \in Capture, image[u] = i, ~cancelReq'[u], status'[u] \in Queued
        PROVE  imgStatus'[i] = "capturing"
    <3>1. u # t
      BY <2>2 DEF Queued, Active, Leased
    <3>2. ~cancelReq[u] /\ status[u] \in Queued
      BY <2>2, <3>1 DEF Capture
    <3>3. imgStatus[i] = "capturing"
      BY <2>2, <3>2 DEF Rows, CapturingHasCapture, Queued
    <3>4. ~(t \in Capture /\ image[t] = i)
      BY <2>2, <3>1 DEF Rows, ImagesKnown
    <3> QED
      BY <3>3, <3>4
  <2> QED
    BY <2>1, <2>2 DEF CapturingHasCapture, Queued
<1>4. DeploymentHasImage'
  <2>1. \A u \in Task : status'[u] \in Active => status[u] \in Active
    BY DEF Active, Leased
  <2>2. \A u \in Task \ Capture : status[u] \in Active => image[u] \in Image
    BY DEF Rows, ImagesKnown, Active, Leased
  <2> QED
    BY <2>1, <2>2 DEF Rows, DeploymentHasImage, Selectable
<1>5. SucceededIsPublished'
  <2>1. \A u \in Task : status'[u] = "succeeded" => status[u] = "succeeded" /\ image[u] \in Image
    BY DEF Rows, ImagesKnown, Active, Leased
  <2> QED
    BY <2>1 DEF Rows, SucceededIsPublished, Capture
<1> QED
  BY <1>1, <1>2, <1>3, <1>4, <1>5 DEF Rows

(* What a request that is let through knows of its task.                   *)
LEMMA AcceptedTask ==
  ASSUME TypeOK, Unborn, NEW t \in Task, NEW n \in Number, Accepted(t, n)
  PROVE  status[t] \in Queued
<1>1. status[t] # "none"
  BY Born
<1> QED
  BY <1>1 DEF Accepted, TypeOK, Queued, Status

(* The requests that renew a lease keep a task between approved and        *)
(* verifying.                                                              *)
LEMMA ReportedStatus ==
  ASSUME NEW t \in Task, status[t] \in Queued
  PROVE  TouchedStatus(t) \in Queued /\ VerifyingStatus(t) \in Queued
BY DEF TouchedStatus, VerifyingStatus, Queued, Active, Leased

LEMMA RowsStep == TypeOK /\ Unborn /\ PublishersKnown /\ Rows /\ [Next]_vars => Rows'
<1> SUFFICES ASSUME TypeOK, Unborn, PublishersKnown, Rows, [Next]_vars PROVE Rows'
  OBVIOUS
<1>0. \A t \in Task : status[t] # "none" => image[t] \in Image
  BY DEF Rows, ImagesKnown
<1>1. ASSUME NEW t \in Task, NEW i \in Image, CreateCapture(t, i) PROVE Rows'
  <2>1. /\ status[t] = "none" /\ t \in Capture /\ imgStatus[i] = "draft"
        /\ \A u \in Task : status'[u] = IF u = t THEN "approved" ELSE status[u]
        /\ \A u \in Task : image'[u] = IF u = t THEN i ELSE image[u]
        /\ \A j \in Image : imgStatus'[j] = IF j = i THEN "capturing" ELSE imgStatus[j]
        /\ UNCHANGED <<cancelReq, deleted, published>>
    BY <1>1 DEF CreateCapture, TypeOK
  <2>2. image[t] \notin Image /\ \A u \in Capture : image[u] # i
    BY <2>1 DEF Rows, ImagesKnown
  <2>3. \A u \in Task \ Capture : status[u] \in Active => image[u] # i
    BY <2>1 DEF Rows, DeploymentHasImage, Selectable
  <2>4. ImagesKnown'
    BY <2>1, <2>2 DEF Rows, ImagesKnown, Capture
  <2>5. ReadyHasEnded' /\ SucceededIsPublished'
    BY <1>0, <2>1, <2>2 DEF Rows, ReadyHasEnded, SucceededIsPublished, Capture, Terminal
  <2>6. DeploymentHasImage'
    BY <1>0, <2>1, <2>3 DEF Rows, DeploymentHasImage, Selectable, Active, Leased
  <2>7. CapturingHasCapture'
    <3>1. ~cancelReq[t]
      BY <2>1 DEF Rows, ImagesKnown
    <3> QED
      BY <2>1, <2>2, <3>1 DEF Rows, CapturingHasCapture, Capture, Active, Leased
  <2> QED
    BY <2>4, <2>5, <2>6, <2>7 DEF Rows
<1>2. ASSUME NEW t \in Task, NEW i \in Image, CreateDeployment(t, i) PROVE Rows'
  <2>1. /\ status[t] = "none" /\ t \notin Capture /\ Selectable(i)
        /\ \A u \in Task : status'[u] = IF u = t THEN "approved" ELSE status[u]
        /\ \A u \in Task : image'[u] = IF u = t THEN i ELSE image[u]
        /\ UNCHANGED <<cancelReq, imgStatus, deleted, published>>
    BY <1>2 DEF CreateDeployment, TypeOK, imgVars
  <2>2. ImagesKnown' /\ ReadyHasEnded' /\ SucceededIsPublished'
    BY <2>1 DEF Rows, ImagesKnown, ReadyHasEnded, SucceededIsPublished, Capture
  <2>3. DeploymentHasImage'
    BY <2>1 DEF Rows, DeploymentHasImage, Selectable
  <2>4. CapturingHasCapture'
    BY <2>1 DEF Rows, CapturingHasCapture, Capture
  <2> QED
    BY <2>2, <2>3, <2>4 DEF Rows
<1>3. ASSUME NEW t \in Task, RequestCancel(t) PROVE Rows'
  <2> DEFINE to == IF status[t] = "approved" THEN "cancelled" ELSE status[t]
  <2>1. status[t] \in Queued
    BY <1>3 DEF RequestCancel, Queued, Active, Leased
  <2>2. /\ \A u \in Task : status'[u] = IF u = t THEN to ELSE status[u]
        /\ \A u \in Task : cancelReq'[u] = IF u = t THEN TRUE ELSE cancelReq[u]
        /\ UNCHANGED <<image, deleted, published>>
    BY <1>3 DEF RequestCancel, Transition, TypeOK
  <2>3. \A i \in Image :
          imgStatus'[i] = IF t \in Capture /\ image[t] = i /\ imgStatus[i] = "capturing"
                          THEN "failed" ELSE imgStatus[i]
    BY <1>3, <2>1, AbandonedImages DEF RequestCancel, Queued, Active, Leased
  <2>4. status[t] # "none" /\ (to = "cancelled" \/ (to = status[t] /\ to \in Active))
    BY <2>1 DEF Queued, Active, Leased
  <2> HIDE DEF to
  <2> QED
    BY <2>2, <2>3, <2>4, AbandonedRows
<1>4. ASSUME NEW t \in Task, Reconcile(t) PROVE Rows'
  <2>1. /\ status[t] = "intervention_required"
        /\ \A u \in Task : status'[u] = IF u = t THEN "approved" ELSE status[u]
        /\ \A u \in Task : cancelReq'[u] = IF u = t THEN FALSE ELSE cancelReq[u]
        /\ \A i \in Image : imgStatus'[i] = IF i = image[t] /\ t \in Capture THEN "capturing"
                                            ELSE imgStatus[i]
        /\ UNCHANGED <<image, deleted, published>>
    BY <1>4 DEF Reconcile, Transition, TypeOK
  <2>2. t \in Capture => image[t] \in Image /\ imgStatus[image[t]] # "ready"
    BY <1>0, <2>1 DEF Rows, ReadyHasEnded, Terminal
  <2>3. ImagesKnown' /\ ReadyHasEnded'
    BY <2>1 DEF Rows, ImagesKnown, ReadyHasEnded, Capture, Terminal
  <2>4. DeploymentHasImage' /\ SucceededIsPublished'
    BY <1>0, <2>1, <2>2 DEF Rows, DeploymentHasImage, SucceededIsPublished, Selectable, Active, Capture, Leased
  <2>5. CapturingHasCapture'
    <3>1. CASE t \in Capture
      <4>1. \A u \in Capture : image[u] = image[t] => u = t
        BY <2>2, <3>1 DEF Rows, ImagesKnown
      <4>2. \A u \in Capture : u # t => status'[u] = status[u] /\ cancelReq'[u] = cancelReq[u]
        BY <2>1 DEF Capture
      <4>3. status'[t] \in Queued /\ ~cancelReq'[t]
        BY <2>1 DEF Queued, Active
      <4>4. status[t] \notin Queued
        BY <2>1 DEF Queued
      <4>5. ASSUME NEW i \in Image, i # image[t]
            PROVE  imgStatus'[i] = "capturing" <=>
                     \E u \in Capture : image'[u] = i /\ ~cancelReq'[u] /\ status'[u] \in Queued
        <5>1. imgStatus'[i] = imgStatus[i] /\ image' = image
          BY <2>1, <4>5
        <5> QED
          BY <4>2, <4>5, <5>1 DEF Rows, CapturingHasCapture, Queued
      <4>6. imgStatus'[image[t]] = "capturing" /\ image'[t] = image[t]
        BY <2>1, <2>2, <3>1
      <4> QED
        BY <3>1, <4>3, <4>5, <4>6 DEF CapturingHasCapture, Queued
    <3>2. CASE t \notin Capture
      <4>1. \A u \in Capture : status'[u] = status[u] /\ cancelReq'[u] = cancelReq[u] /\ image'[u] = image[u]
        BY <2>1, <3>2 DEF Capture
      <4>2. \A i \in Image : imgStatus'[i] = imgStatus[i]
        BY <2>1, <3>2
      <4> QED
        BY <4>1, <4>2 DEF Rows, CapturingHasCapture
    <3> QED
      BY <3>1, <3>2
  <2> QED
    BY <2>3, <2>4, <2>5 DEF Rows
<1>5. ASSUME NEW i \in Image, DeleteImage(i) PROVE Rows'
  <2>1. /\ UNCHANGED <<status, image, cancelReq, imgStatus>>
        /\ \A j \in Image : /\ published'[j] = IF j = i THEN FALSE ELSE published[j]
                            /\ deleted'[j] = IF j = i THEN TRUE ELSE deleted[j]
        /\ \A u \in Task : image[u] = i => status[u] \notin Active
    BY <1>5 DEF DeleteImage, taskVars, TypeOK, InUse
  <2>2. ImagesKnown' /\ ReadyHasEnded' /\ CapturingHasCapture'
    BY <2>1 DEF Rows, ImagesKnown, ReadyHasEnded, CapturingHasCapture
  <2>3. \A u \in Task : status[u] \in Active \/ status[u] = "succeeded" => image[u] \in Image
    BY <1>0 DEF Active, Leased
  <2>4. DeploymentHasImage' /\ SucceededIsPublished'
    BY <2>1, <2>3 DEF Rows, DeploymentHasImage, SucceededIsPublished, Selectable, Capture
  <2> QED
    BY <2>2, <2>4 DEF Rows
<1>6. ASSUME NEW t \in Task, Claim(t) PROVE Rows'
  <2>1. "assigned" \in Queued /\ status[t] \in Queued
    BY <1>6 DEF Claim, Queued, Active, Leased
  <2> QED
    BY <1>6, <2>1, WorkingRows DEF Claim, Transition
<1>7. ASSUME NEW t \in Task, NEW n \in Number, Renew(t, n) PROVE Rows'
  <2>1. Accepted(t, n)
    BY <1>7 DEF Renew, Heartbeat, Progress, Upload, CaptureBegin
  <2>2. status[t] \in Queued /\ TouchedStatus(t) \in Queued /\ VerifyingStatus(t) \in Queued
    BY <2>1, AcceptedTask, ReportedStatus
  <2>3. UNCHANGED <<image, cancelReq, imgVars>>
    BY <1>7 DEF Renew, Heartbeat, Progress, Upload, CaptureBegin, imgVars
  <2>4. \/ status' = [status EXCEPT ![t] = TouchedStatus(t)]
        \/ status' = [status EXCEPT ![t] = VerifyingStatus(t)]
    BY <1>7 DEF Renew, Heartbeat, Progress, Upload, CaptureBegin
  <2> QED
    BY <2>2, <2>3, <2>4, WorkingRows
<1>8. ASSUME NEW t \in Task, NEW n \in Number, ResultFailed(t, n) PROVE Rows'
  <2>1. status[t] \in Queued
    BY <1>8, AcceptedTask DEF ResultFailed
  <2>2. status[t] # "none" /\ status[t] \in Active
    BY <2>1 DEF Queued, Active, Leased
  <2>3. /\ \A u \in Task : status'[u] = IF u = t THEN "failed" ELSE status[u]
        /\ \A u \in Task : cancelReq'[u] = IF u = t THEN cancelReq[t] ELSE cancelReq[u]
        /\ UNCHANGED <<image, deleted, published>> /\ AbandonImage(t)
    BY <1>8 DEF ResultFailed, Fail, Transition, TypeOK
  <2> QED
    BY <2>2, <2>3, AbandonedImages, AbandonedRows
<1>9. ASSUME NEW t \in Task, NEW n \in Number, ResultCancelled(t, n) PROVE Rows'
  <2>1. status[t] \in Queued
    BY <1>9, AcceptedTask DEF ResultCancelled
  <2>2. status[t] # "none" /\ status[t] \in Active
    BY <2>1 DEF Queued, Active, Leased
  <2>3. /\ \A u \in Task : status'[u] = IF u = t THEN "cancelled" ELSE status[u]
        /\ \A u \in Task : cancelReq'[u] = IF u = t THEN cancelReq[t] ELSE cancelReq[u]
        /\ UNCHANGED <<image, deleted, published>>
    BY <1>9 DEF ResultCancelled, Transition, TypeOK
  <2>4. \A i \in Image :
          imgStatus'[i] = IF t \in Capture /\ image[t] = i /\ imgStatus[i] = "capturing"
                          THEN "failed" ELSE imgStatus[i]
    BY <1>9, <2>2, AbandonedImages DEF ResultCancelled
  <2> QED
    BY <2>2, <2>3, <2>4, AbandonedRows
<1>10. ASSUME NEW t \in Task, NEW n \in Number, ResultRestored(t, n) PROVE Rows'
  <2>1. status[t] \in Queued
    BY <1>10, AcceptedTask DEF ResultRestored
  <2>2. /\ t \notin Capture
        /\ \A u \in Task : status'[u] = IF u = t THEN "succeeded" ELSE status[u]
        /\ UNCHANGED <<image, cancelReq, imgStatus, deleted, published>>
    BY <1>10 DEF ResultRestored, Transition, TypeOK, imgVars
  <2>3. ImagesKnown' /\ ReadyHasEnded' /\ CapturingHasCapture'
    BY <2>1, <2>2 DEF Rows, ImagesKnown, ReadyHasEnded, CapturingHasCapture, Capture, Queued, Active, Leased
  <2>4. DeploymentHasImage' /\ SucceededIsPublished'
    BY <2>1, <2>2 DEF Rows, DeploymentHasImage, SucceededIsPublished, Selectable, Capture, Active, Leased
  <2> QED
    BY <2>3, <2>4 DEF Rows
<1>11. ASSUME NEW t \in Task, NEW n \in Number, CaptureRename(t, n) PROVE Rows'
  <2>1. /\ UNCHANGED <<status, image, cancelReq, imgStatus, deleted>>
        /\ \A i \in Image : published'[i] = (i = image[t] \/ published[i])
    BY <1>11 DEF CaptureRename, taskVars, TypeOK
  <2>2. \A u \in Task : status[u] \in Active \/ status[u] = "succeeded" => image[u] \in Image
    BY <1>0 DEF Active, Leased
  <2>3. ImagesKnown' /\ ReadyHasEnded' /\ CapturingHasCapture'
    BY <2>1 DEF Rows, ImagesKnown, ReadyHasEnded, CapturingHasCapture
  <2>4. DeploymentHasImage' /\ SucceededIsPublished'
    BY <2>1, <2>2 DEF Rows, DeploymentHasImage, SucceededIsPublished, Selectable, Capture
  <2> QED
    BY <2>3, <2>4 DEF Rows
<1>12. ASSUME NEW t \in Task, NEW n \in Number, CaptureRefused(t, n) PROVE Rows'
  <2>1. t \in Capture /\ status[t] # "none"
    BY <1>12, Born DEF CaptureRefused, PublishersKnown
  <2>2. /\ \A u \in Task : status'[u] = IF u = t THEN "failed" ELSE status[u]
        /\ \A u \in Task : cancelReq'[u] = IF u = t THEN cancelReq[t] ELSE cancelReq[u]
        /\ UNCHANGED <<image, deleted, published>> /\ AbandonImage(t)
    BY <1>12 DEF CaptureRefused, Fail, Transition, TypeOK
  <2> QED
    BY <2>1, <2>2, AbandonedImages, AbandonedRows
<1>13. ASSUME NEW t \in Task, NEW n \in Number, CaptureCommit(t, n) PROVE Rows'
  <2>1. t \in Capture /\ status[t] # "none" /\ image[t] \in Image
    BY <1>0, <1>13, Born DEF CaptureCommit, PublishersKnown
  <2>2. published[image[t]] \/ deleted[image[t]]
    BY <1>13 DEF CaptureCommit, PublishersKnown
  <2>3. /\ \A u \in Task : status'[u] = IF u = t THEN "succeeded" ELSE status[u]
        /\ \A i \in Image : imgStatus'[i] = IF i = image[t] THEN "ready" ELSE imgStatus[i]
        /\ UNCHANGED <<image, cancelReq, deleted, published>>
    BY <1>13 DEF CaptureCommit, Transition, TypeOK
  <2>4. \A u \in Capture : image[u] = image[t] => u = t
    BY <2>1 DEF Rows, ImagesKnown
  <2>5. ImagesKnown' /\ ReadyHasEnded'
    BY <2>1, <2>3, <2>4 DEF Rows, ImagesKnown, ReadyHasEnded, Capture, Terminal
  <2>6. CapturingHasCapture'
    BY <2>1, <2>3, <2>4 DEF Rows, CapturingHasCapture, Capture, Active, Leased
  <2>7. \A u \in Task : status[u] \in Active \/ status[u] = "succeeded" => image[u] \in Image
    BY <1>0 DEF Active, Leased
  <2>8. DeploymentHasImage' /\ SucceededIsPublished'
    BY <2>1, <2>2, <2>3, <2>7 DEF Rows, DeploymentHasImage, SucceededIsPublished, Selectable, Capture, Active, Leased
  <2> QED
    BY <2>5, <2>6, <2>8 DEF Rows
<1>14. CASE ExpireStale
  <2>1. /\ \A u \in Task : status'[u] = IF StaleTask(u) THEN "intervention_required" ELSE status[u]
        /\ \A i \in Image : imgStatus'[i] =
             IF imgStatus[i] = "capturing" /\ \E u \in Task : StaleTask(u) /\ image[u] = i
             THEN "failed" ELSE imgStatus[i]
        /\ UNCHANGED <<image, cancelReq, deleted, published>>
    BY <1>14 DEF ExpireStale
  <2>2. \A u \in Task : StaleTask(u) => status[u] \in Leased /\ image[u] \in Image
    BY <1>0 DEF StaleTask, Stale, Leased
  <2>3. \A u \in Task : /\ status'[u] \in Active <=> status[u] \in Active
                        /\ status'[u] = "none" <=> status[u] = "none"
                        /\ status'[u] = "succeeded" => status[u] = "succeeded"
                        /\ status'[u] \in Terminal <=> status[u] \in Terminal
                        /\ status'[u] \in Queued <=> status[u] \in Queued /\ ~StaleTask(u)
    BY <2>1, <2>2 DEF Active, Leased, Terminal, Queued
  <2>4. ImagesKnown' /\ ReadyHasEnded'
    <3>1. \A i \in Image : /\ imgStatus'[i] = "draft" => imgStatus[i] = "draft"
                           /\ imgStatus'[i] = "ready" => imgStatus[i] = "ready"
      BY <2>1
    <3>2. ImagesKnown'
      BY <2>1, <2>3, <3>1 DEF Rows, ImagesKnown
    <3> QED
      BY <2>1, <2>3, <3>1, <3>2 DEF Rows, ReadyHasEnded, Capture
  <2>5. \A u \in Task : status[u] \in Active \/ status[u] = "succeeded" => image[u] \in Image
    BY <1>0 DEF Active, Leased
  <2>6. DeploymentHasImage' /\ SucceededIsPublished'
    BY <2>1, <2>3, <2>5 DEF Rows, DeploymentHasImage, SucceededIsPublished, Selectable, Capture
  <2>7. CapturingHasCapture'
    <3>1. \A i \in Image, u \in Task :
            StaleTask(u) /\ image[u] = i /\ imgStatus[i] = "capturing" => u \in Capture
      BY <2>2 DEF Rows, DeploymentHasImage, Selectable, Active
    <3>2. ASSUME NEW i \in Image, imgStatus'[i] = "capturing"
          PROVE  \E u \in Capture : image[u] = i /\ ~cancelReq[u] /\ status'[u] \in Queued
      <4>1. imgStatus[i] = "capturing" /\ \A u \in Task : image[u] = i => ~StaleTask(u)
        BY <2>1, <3>2
      <4> QED
        BY <2>3, <4>1 DEF Rows, CapturingHasCapture, Queued, Capture
    <3>3. ASSUME NEW i \in Image, NEW u \in Capture, image[u] = i, ~cancelReq[u], status'[u] \in Queued
          PROVE  imgStatus'[i] = "capturing"
      <4>1. imgStatus[i] = "capturing" /\ ~StaleTask(u)
        BY <2>3, <3>3 DEF Rows, CapturingHasCapture, Queued, Capture
      <4>2. \A v \in Task : StaleTask(v) => image[v] # i
        BY <3>1, <3>3, <4>1 DEF Rows, ImagesKnown
      <4> QED
        BY <2>1, <4>1, <4>2
    <3> QED
      BY <2>1, <3>2, <3>3 DEF CapturingHasCapture, Queued
  <2> QED
    BY <2>4, <2>6, <2>7 DEF Rows
<1>15. CASE \/ Crash \/ Tick \/ UNCHANGED vars
            \/ \E t \in Task, n \in Number : UploadRefused(t, n)
  <2>1. UNCHANGED <<status, image, cancelReq, imgStatus, deleted, published>>
    BY <1>15 DEF Crash, Tick, UploadRefused, vars, taskVars, imgVars
  <2> QED
    BY <2>1 DEF Rows, ImagesKnown, ReadyHasEnded, CapturingHasCapture, DeploymentHasImage,
                SucceededIsPublished, Selectable
<1> QED
  BY <1>1, <1>2, <1>3, <1>4, <1>5, <1>6, <1>7, <1>8, <1>9, <1>10, <1>11, <1>12, <1>13, <1>14,
     <1>15 DEF Next, Operator, Agent, Publishing
-----------------------------------------------------------------------------
(* The attempts and their publishers.                                      *)

(* The rows of attempts nobody made are empty.                             *)
Unmade == \A t \in Task, n \in Number : n > made[t] => attempt[t][n] = NoAttempt

Attempts == PublishersKnown /\ Unmade

Kept(i) == published[i] \/ deleted[i]

(* Writing a row keeps the fields it does not mention.                     *)
LEMMA RowFields ==
  ASSUME NEW row \in Attempt, NEW p, NEW u
  PROVE  /\ [row EXCEPT !.phase = p].pub = row.pub
         /\ [row EXCEPT !.phase = p].phase = p
         /\ [row EXCEPT !.phase = p, !.lease = Lease].pub = row.pub
         /\ [row EXCEPT !.phase = p, !.lease = Lease].phase = p
         /\ [row EXCEPT !.pub = u].pub = u
         /\ [row EXCEPT !.pub = u].phase = row.phase
         /\ [row EXCEPT !.phase = p, !.pub = u].pub = u
         /\ [row EXCEPT !.phase = p, !.pub = u].phase = p
BY DEF Attempt

(* An attempt that may be written was made.                                *)
LEMMA WrittenWasMade ==
  ASSUME TypeOK, Unmade, NEW t \in Task, NEW n \in Number,
         Accepted(t, n) \/ attempt[t][n].pub # "idle"
  PROVE  n <= made[t]
<1>1. n \in Int /\ made[t] \in Int
  BY TaskAssumption DEF Number, TypeOK
<1> QED
  BY <1>1 DEF Accepted, Unmade, NoAttempt

(* One row is written, of an attempt that was made.                        *)
LEMMA WriteAttempt ==
  ASSUME TypeOK, Attempts, NEW t \in Task, NEW n \in Number, NEW row, Write(t, n, row),
         n <= made[t],
         UNCHANGED <<made, image>>,
         row.pub # "idle" => t \in Capture,
         row.pub = "renamed" => Kept(image[t])',
         \A u \in Task, m \in Number : attempt[u][m].pub # "idle" /\ Kept(image[u]) => Kept(image[u])'
  PROVE  Attempts'
<1>1. \A u \in Task, m \in Number :
        attempt'[u][m] = IF u = t /\ m = n THEN row ELSE attempt[u][m]
  BY DEF TypeOK, Write
<1>2. PublishersKnown'
  BY <1>1 DEF Attempts, PublishersKnown, Kept
<1>3. Unmade'
  <2>1. ~(n > made[t])
    BY TaskAssumption DEF TypeOK, Number
  <2> QED
    BY <1>1, <2>1 DEF Attempts, Unmade
<1> QED
  BY <1>2, <1>3 DEF Attempts

LEMMA AttemptsStep == TypeOK /\ Unborn /\ Rows /\ Attempts /\ [Next]_vars => Attempts'
<1> SUFFICES ASSUME TypeOK, Unborn, Rows, Attempts, [Next]_vars PROVE Attempts'
  OBVIOUS
<1>0. /\ \A t \in Task, n \in Number : attempt[t][n] \in Attempt
      /\ \A t \in Task, n \in Number : attempt[t][n].pub # "idle" => image[t] \in Image /\ t \in Capture
      /\ \A t \in Task, n \in Number :
           Accepted(t, n) \/ attempt[t][n].pub # "idle" => n <= made[t]
  BY Born, WrittenWasMade DEF TypeOK, Rows, ImagesKnown, Attempts, PublishersKnown
<1>1. ASSUME NEW t \in Task, NEW i \in Image, CreateCapture(t, i) \/ CreateDeployment(t, i)
      PROVE  Attempts'
  <2>1. /\ UNCHANGED <<made, attempt, deleted, published>>
        /\ \A u \in Task : u # t => image'[u] = image[u]
        /\ \A n \in Number : attempt[t][n].pub = "idle"
    BY <1>1 DEF CreateCapture, CreateDeployment, imgVars, TypeOK, Unborn
  <2>2. PublishersKnown'
    BY <2>1 DEF Attempts, PublishersKnown
  <2> QED
    BY <2>1, <2>2 DEF Attempts, Unmade
<1>2. ASSUME NEW t \in Task, RequestCancel(t) \/ Reconcile(t) PROVE Attempts'
  BY <1>2 DEF RequestCancel, Reconcile, Attempts, PublishersKnown, Unmade
<1>3. ASSUME NEW i \in Image, DeleteImage(i) PROVE Attempts'
  <2>1. UNCHANGED <<image, attempt, made>>
        /\ \A j \in Image : Kept(j) => Kept(j)'
    BY <1>3 DEF DeleteImage, taskVars, TypeOK, Kept
  <2> QED
    BY <1>0, <2>1 DEF Attempts, PublishersKnown, Unmade, Kept
<1>4. ASSUME NEW t \in Task, Claim(t) PROVE Attempts'
  <2> DEFINE row == [phase |-> "assigned", lease |-> Lease, pub |-> "idle"]
  <2>1. /\ \A u \in Task : made'[u] = IF u = t THEN made[t] + 1 ELSE made[u]
        /\ \A u \in Task, m \in Number :
             attempt'[u][m] = IF u = t /\ m = made[t] + 1 THEN row ELSE attempt[u][m]
        /\ UNCHANGED <<image, deleted, published>>
    BY <1>4 DEF Claim, NextNumber, Write, TypeOK, imgVars
  <2>2. row.pub = "idle"
    OBVIOUS
  <2> HIDE DEF row
  <2>3. PublishersKnown'
    BY <2>1, <2>2 DEF Attempts, PublishersKnown
  <2>4. Unmade'
    <3>1. \A u \in Task : made[u] \in Int
      BY TaskAssumption DEF TypeOK
    <3>2. \A m \in Number : m \in Int
      BY DEF Number
    <3> QED
      BY <2>1, <3>1, <3>2 DEF Attempts, Unmade
  <2> QED
    BY <2>3, <2>4 DEF Attempts
<1>5. ASSUME NEW t \in Task, NEW n \in Number, Renew(t, n) PROVE Attempts'
  <2>1. Accepted(t, n) /\ UNCHANGED <<made, image, deleted, published>>
    BY <1>5 DEF Renew, Heartbeat, Progress, Upload, CaptureBegin, imgVars
  <2>2. PICK row : Write(t, n, row) /\ (row.pub # attempt[t][n].pub => t \in Capture /\ row.pub # "renamed")
    <3>1. \A phase : Touched(t, n, phase).pub = attempt[t][n].pub
      BY <1>0, RowFields DEF Touched
    <3>2. CASE CaptureBegin(t, n)
      <4> DEFINE u == IF VerifyingStatus(t) = "verifying" THEN "verifying" ELSE "doomed"
      <4>1. Write(t, n, [Touched(t, n, "verifying") EXCEPT !.pub = u]) /\ t \in Capture
        BY <3>2 DEF CaptureBegin
      <4>2. [Touched(t, n, "verifying") EXCEPT !.pub = u].pub = u
        BY TouchedType, RowFields DEF Phase
      <4>3. u # "renamed"
        OBVIOUS
      <4> HIDE DEF u
      <4> DEFINE begun == [Touched(t, n, "verifying") EXCEPT !.pub = u]
      <4>4. Write(t, n, begun) /\ begun.pub # "renamed" /\ t \in Capture
        BY <4>1, <4>2, <4>3
      <4> HIDE DEF begun
      <4> QED
        BY <4>4
    <3>3. CASE ~CaptureBegin(t, n)
      <4>1. PICK phase : Write(t, n, Touched(t, n, phase))
        BY <1>5, <3>3 DEF Renew, Heartbeat, Progress, Upload
      <4>2. Touched(t, n, phase).pub = attempt[t][n].pub
        BY <3>1
      <4> QED
        BY <4>1, <4>2
    <3> QED
      BY <3>2, <3>3
  <2> QED
    BY <1>0, <2>1, <2>2, WriteAttempt DEF Kept, Attempts, PublishersKnown
<1>6. ASSUME NEW t \in Task, NEW n \in Number,
             ResultFailed(t, n) \/ ResultCancelled(t, n) \/ ResultRestored(t, n)
      PROVE  Attempts'
  <2>1. Accepted(t, n) /\ UNCHANGED <<made, image, deleted, published>>
    BY <1>6 DEF ResultFailed, ResultCancelled, ResultRestored, imgVars
  <2>2. PICK row : Write(t, n, row) /\ row.pub = attempt[t][n].pub
    <3>1. \/ Write(t, n, [attempt[t][n] EXCEPT !.phase = "failed"])
          \/ Write(t, n, Touched(t, n, "completed"))
      BY <1>6 DEF ResultFailed, ResultCancelled, ResultRestored
    <3>2. [attempt[t][n] EXCEPT !.phase = "failed"].pub = attempt[t][n].pub
      BY <1>0, RowFields
    <3>3. Touched(t, n, "completed").pub = attempt[t][n].pub
      BY <1>0, RowFields DEF Touched
    <3> QED
      BY <3>1, <3>2, <3>3
  <2> QED
    BY <1>0, <2>1, <2>2, WriteAttempt DEF Kept, Attempts, PublishersKnown
<1>7. ASSUME NEW t \in Task, NEW n \in Number, CaptureRename(t, n) PROVE Attempts'
  <2> DEFINE u == IF attempt[t][n].pub = "verifying" THEN "renamed" ELSE "over"
  <2>1. /\ attempt[t][n].pub # "idle" /\ UNCHANGED <<made, image, deleted>>
        /\ Write(t, n, [attempt[t][n] EXCEPT !.pub = u])
        /\ published' = [published EXCEPT ![image[t]] = TRUE]
    BY <1>0, <1>7 DEF CaptureRename, taskVars
  <2>2. [attempt[t][n] EXCEPT !.pub = u].pub = u
    BY <1>0, RowFields
  <2>3. \A i \in Image : published'[i] = (i = image[t] \/ published[i])
    BY <2>1 DEF TypeOK
  <2>4. Kept(image[t])' /\ \A v \in Task, m \in Number :
                             attempt[v][m].pub # "idle" /\ Kept(image[v]) => Kept(image[v])'
    BY <1>0, <2>1, <2>3 DEF Kept
  <2> QED
    BY <1>0, <2>1, <2>2, <2>4, WriteAttempt
<1>8. ASSUME NEW t \in Task, NEW n \in Number, CaptureRefused(t, n) \/ CaptureCommit(t, n)
      PROVE  Attempts'
  <2>1. attempt[t][n].pub # "idle" /\ UNCHANGED <<made, image, deleted, published>>
    BY <1>8 DEF CaptureRefused, CaptureCommit
  <2>2. PICK row : Write(t, n, row) /\ row.pub = "over"
    <3>1. \/ Write(t, n, [attempt[t][n] EXCEPT !.phase = "failed", !.pub = "over"])
          \/ Write(t, n, [attempt[t][n] EXCEPT !.phase = "completed", !.pub = "over"])
      BY <1>8 DEF CaptureRefused, CaptureCommit
    <3>2. \A p : [attempt[t][n] EXCEPT !.phase = p, !.pub = "over"].pub = "over"
      BY <1>0, RowFields
    <3> QED
      BY <3>1, <3>2
  <2> QED
    BY <1>0, <2>1, <2>2, WriteAttempt DEF Kept
<1>9. CASE ExpireStale
  <2>1. /\ UNCHANGED <<made, image, deleted, published>>
        /\ \A t \in Task, n \in Number :
             attempt'[t][n] = IF <<t, n>> \in Stale THEN [attempt[t][n] EXCEPT !.phase = "failed"]
                                                    ELSE attempt[t][n]
    BY <1>9 DEF ExpireStale
  <2>2. \A t \in Task, n \in Number : attempt'[t][n].pub = attempt[t][n].pub
    <3> TAKE t \in Task, n \in Number
    <3>1. [attempt[t][n] EXCEPT !.phase = "failed"].pub = attempt[t][n].pub
      BY <1>0, RowFields
    <3> QED
      BY <2>1, <3>1
  <2>3. \A t \in Task, n \in Number : n > made[t] => <<t, n>> \notin Stale
    BY TaskAssumption DEF Stale, TypeOK, Number
  <2>4. Unmade'
    BY <2>1, <2>3 DEF Attempts, Unmade
  <2>5. PublishersKnown'
    BY <2>1, <2>2 DEF Attempts, PublishersKnown
  <2> QED
    BY <2>4, <2>5 DEF Attempts
<1>10. CASE Crash
  <2> DEFINE cut(t, n) == IF attempt[t][n].pub = "idle" THEN "idle" ELSE "over"
  <2>1. /\ UNCHANGED <<made, image, deleted, published>>
        /\ \A t \in Task, n \in Number :
             attempt'[t][n] = [attempt[t][n] EXCEPT !.pub = cut(t, n)]
    <3>1. \A t \in Task, n \in Number :
            attempt'[t][n] = [attempt[t][n] EXCEPT !.pub = IF @ = "idle" THEN @ ELSE "over"]
      BY <1>10 DEF Crash
    <3>2. \A t \in Task, n \in Number :
            [attempt[t][n] EXCEPT !.pub = IF @ = "idle" THEN @ ELSE "over"]
              = [attempt[t][n] EXCEPT !.pub = cut(t, n)]
      <4> TAKE t \in Task, n \in Number
      <4>1. attempt[t][n] \in Attempt
        BY <1>0
      <4> QED
        BY <4>1 DEF Attempt
    <3> QED
      BY <1>10, <3>1, <3>2 DEF Crash, taskVars, imgVars
  <2>2. \A t \in Task, n \in Number : attempt'[t][n].pub = cut(t, n)
    <3> TAKE t \in Task, n \in Number
    <3>1. [attempt[t][n] EXCEPT !.pub = cut(t, n)].pub = cut(t, n)
      <4> HIDE DEF cut
      <4> QED
        BY <1>0, RowFields
    <3> QED
      BY <2>1, <3>1
  <2>3. Unmade'
    <3>1. [NoAttempt EXCEPT !.pub = "idle"] = NoAttempt /\ NoAttempt.pub = "idle"
      BY DEF NoAttempt
    <3>2. \A t \in Task, n \in Number : n > made[t] => attempt'[t][n] = NoAttempt
      BY <2>1, <3>1 DEF Attempts, Unmade
    <3> QED
      BY <2>1, <3>2 DEF Unmade
  <2>4. PublishersKnown'
    BY <2>1, <2>2 DEF Attempts, PublishersKnown
  <2> QED
    BY <2>3, <2>4 DEF Attempts
<1>11. CASE Tick
  <2> DEFINE older(r) == [r EXCEPT !.lease = IF @ > 0 THEN @ - 1 ELSE 0]
  <2>1. /\ UNCHANGED <<made, image, deleted, published>>
        /\ \A t \in Task, n \in Number : attempt'[t][n] = older(attempt[t][n])
    BY <1>11 DEF Tick, taskVars, imgVars
  <2>2. older(NoAttempt) = NoAttempt
    BY DEF NoAttempt
  <2>3. \A r \in Attempt : older(r).pub = r.pub
    BY DEF Attempt
  <2> HIDE DEF older
  <2>4. \A t \in Task, n \in Number : attempt'[t][n].pub = attempt[t][n].pub
    BY <1>0, <2>1, <2>3
  <2> QED
    BY <2>1, <2>2, <2>4 DEF Attempts, PublishersKnown, Unmade
<1>12. CASE UNCHANGED vars \/ \E t \in Task, n \in Number : UploadRefused(t, n)
  BY <1>12 DEF UploadRefused, vars, taskVars, imgVars, Attempts, PublishersKnown, Unmade
<1> QED
  BY <1>1, <1>2, <1>3, <1>4, <1>5, <1>6, <1>7, <1>8, <1>9, <1>10, <1>11, <1>12
     DEF Next, Operator, Agent, Publishing

LEMMA ImagesInit == Init => Rows /\ Attempts
<1> SUFFICES ASSUME Init PROVE Rows /\ Attempts
  OBVIOUS
<1> USE DEF Init
<1>1. \A t \in Task : status[t] = "none" /\ ~cancelReq[t] /\ image[t] = NoImage /\ NoImage \notin Image
  BY TaskAssumption
<1>2. \A i \in Image : imgStatus[i] = "draft"
  OBVIOUS
<1>3. ImagesKnown /\ ReadyHasEnded
  BY <1>1 DEF ImagesKnown, ReadyHasEnded, Capture
<1>4. CapturingHasCapture /\ DeploymentHasImage /\ SucceededIsPublished
  BY <1>1, <1>2 DEF CapturingHasCapture, DeploymentHasImage, SucceededIsPublished, Active, Leased, Capture
<1>5. Attempts
  BY DEF Attempts, PublishersKnown, Unmade, NoAttempt
<1> QED
  BY <1>3, <1>4, <1>5 DEF Rows

(* The inductive invariant of the images and the attempts.                 *)
LEMMA ImagesCorrect == Spec => [](TypeOK /\ Unborn /\ Rows /\ Attempts)
<1>1. Init => TypeOK /\ Unborn /\ Rows /\ Attempts
  BY TypeInit, PromiseInit, ImagesInit
<1>2. TypeOK /\ Unborn /\ Rows /\ Attempts /\ [Next]_vars => (TypeOK /\ Unborn /\ Rows /\ Attempts)'
  BY TypeStep, UnbornStep, RowsStep, AttemptsStep DEF Attempts
<1> QED
  BY <1>1, <1>2, PTL DEF Spec

(* An image row says "capturing" exactly while a capture may publish it:   *)
(* no image is stuck, whoever ends, cancels or suspends its capture.       *)
THEOREM CapturingCorrect == Spec => []CapturingHasCapture
BY ImagesCorrect, PTL DEF Rows

(* The image of an unfinished restore or clone can be read from its first  *)
(* transaction to its last, although a deletion looks only at the tasks of *)
(* its instant and a capture that publishes looks at no deployment.        *)
THEOREM DeploymentCorrect == Spec => []DeploymentHasImage
BY ImagesCorrect, PTL DEF Rows

(* A capture reported as succeeded has left a ready, published image.      *)
THEOREM SucceededCorrect == Spec => []SucceededIsPublished
BY ImagesCorrect, PTL DEF Rows
-----------------------------------------------------------------------------
(* Attempts that ended stay ended.                                         *)

(* A report with a phase of the transfer finds an attempt that goes on.    *)
LEMMA TouchableGoesOn ==
  ASSUME TypeOK, NEW t \in Task, NEW n \in Number, NEW phase \in {"working", "verifying"},
         Touchable(t, n, phase)
  PROVE  attempt[t][n].phase \notin Finished
<1>1. PhaseRank[phase] <= 3
  BY DEF PhaseRank
<1>2. \A p \in Finished : PhaseRank[p] \in {4, 5}
  BY DEF PhaseRank, Finished
<1>3. PhaseRank[phase] >= PhaseRank[attempt[t][n].phase]
  BY DEF Touchable
<1>4. PhaseRank[phase] \in {2, 3}
  BY DEF PhaseRank
<1> QED
  BY <1>1, <1>2, <1>3, <1>4

(* A transaction writes one attempt row, which had not ended or is ended   *)
(* by it.                                                                  *)
LEMMA EndedWrite ==
  ASSUME TypeOK, NEW t \in Task, NEW n \in Number, NEW row, Write(t, n, row),
         attempt[t][n].phase \in Finished => row.phase \in Finished
  PROVE  \A u \in Task, m \in Number : StaysEnded(u, m)
<1>1. \A u \in Task, m \in Number :
        attempt'[u][m] = IF u = t /\ m = n THEN row ELSE attempt[u][m]
  BY DEF TypeOK, Write
<1> QED
  BY <1>1 DEF StaysEnded

LEMMA EndedStep ==
  TypeOK /\ Attempts /\ [Next]_vars => \A t \in Task, n \in Number : StaysEnded(t, n)
<1> DEFINE All == \A t \in Task, n \in Number : StaysEnded(t, n)
<1> SUFFICES ASSUME TypeOK, Attempts, [Next]_vars PROVE All
  OBVIOUS
<1>0. \A t \in Task, n \in Number : attempt[t][n] \in Attempt
  BY DEF TypeOK
<1>1. ASSUME UNCHANGED attempt PROVE All
  BY <1>1 DEF StaysEnded
<1>2. ASSUME NEW t \in Task, Claim(t) PROVE All
  <2>1. NextNumber(t) \in Number /\ NextNumber(t) > made[t]
    BY <1>2, TaskAssumption DEF Claim, NextNumber, TypeOK, Number
  <2>2. attempt[t][NextNumber(t)].phase \notin Finished
    BY <2>1 DEF Attempts, Unmade, NoAttempt, Finished
  <2> QED
    BY <1>2, <2>1, <2>2, EndedWrite DEF Claim
<1>3. ASSUME NEW t \in Task, NEW n \in Number,
             Renew(t, n) \/ ResultRestored(t, n)
      PROVE  All
  <2>1. attempt[t][n].phase \notin Finished
    BY <1>3, TouchableGoesOn
       DEF Renew, Heartbeat, Progress, Upload, CaptureBegin, ResultRestored
  <2>2. \E row : Write(t, n, row)
    BY <1>3 DEF Renew, Heartbeat, Progress, Upload, CaptureBegin, ResultRestored
  <2> QED
    BY <2>1, <2>2, EndedWrite
<1>4. ASSUME NEW t \in Task, NEW n \in Number, ResultFailed(t, n) \/ ResultCancelled(t, n)
      PROVE  All
  <2>1. Write(t, n, [attempt[t][n] EXCEPT !.phase = "failed"])
    BY <1>4 DEF ResultFailed, ResultCancelled
  <2>2. [attempt[t][n] EXCEPT !.phase = "failed"].phase \in Finished
    BY <1>0, RowFields DEF Finished
  <2> QED
    BY <2>1, <2>2, EndedWrite
<1>5. ASSUME NEW t \in Task, NEW n \in Number, CaptureRename(t, n) PROVE All
  <2> DEFINE u == IF attempt[t][n].pub = "verifying" THEN "renamed" ELSE "over"
  <2>1. Write(t, n, [attempt[t][n] EXCEPT !.pub = u])
    BY <1>0, <1>5 DEF CaptureRename
  <2>2. [attempt[t][n] EXCEPT !.pub = u].phase = attempt[t][n].phase
    BY <1>0, RowFields
  <2> HIDE DEF u
  <2> QED
    BY <2>1, <2>2, EndedWrite
<1>6. ASSUME NEW t \in Task, NEW n \in Number, CaptureRefused(t, n) PROVE All
  <2>1. Write(t, n, [attempt[t][n] EXCEPT !.phase = "failed", !.pub = "over"])
    BY <1>6 DEF CaptureRefused
  <2>2. [attempt[t][n] EXCEPT !.phase = "failed", !.pub = "over"].phase \in Finished
    BY <1>0, RowFields DEF Finished
  <2> QED
    BY <2>1, <2>2, EndedWrite
<1>7. ASSUME NEW t \in Task, NEW n \in Number, CaptureCommit(t, n) PROVE All
  <2>1. Write(t, n, [attempt[t][n] EXCEPT !.phase = "completed", !.pub = "over"])
    BY <1>7 DEF CaptureCommit
  <2>2. [attempt[t][n] EXCEPT !.phase = "completed", !.pub = "over"].phase \in Finished
    BY <1>0, RowFields DEF Finished
  <2> QED
    BY <2>1, <2>2, EndedWrite
<1>8. CASE ExpireStale
  <2> TAKE t \in Task, n \in Number
  <2>1. attempt'[t][n] = IF <<t, n>> \in Stale THEN [attempt[t][n] EXCEPT !.phase = "failed"]
                                                ELSE attempt[t][n]
    BY <1>8 DEF ExpireStale
  <2>2. [attempt[t][n] EXCEPT !.phase = "failed"].phase \in Finished
    BY <1>0, RowFields DEF Finished
  <2> QED
    BY <2>1, <2>2 DEF StaysEnded
<1>9. CASE Crash
  <2> TAKE t \in Task, n \in Number
  <2>1. attempt'[t][n] = [attempt[t][n] EXCEPT !.pub = IF @ = "idle" THEN @ ELSE "over"]
    BY <1>9 DEF Crash
  <2>2. attempt[t][n] \in Attempt
    BY <1>0
  <2> QED
    BY <2>1, <2>2 DEF StaysEnded, Attempt
<1>10. CASE Tick
  <2> TAKE t \in Task, n \in Number
  <2>1. attempt'[t][n] = [attempt[t][n] EXCEPT !.lease = IF @ > 0 THEN @ - 1 ELSE 0]
    BY <1>10 DEF Tick
  <2>2. attempt[t][n] \in Attempt
    BY <1>0
  <2> QED
    BY <2>1, <2>2 DEF StaysEnded, Attempt
<1>11. CASE \/ \E t \in Task, i \in Image : CreateCapture(t, i) \/ CreateDeployment(t, i)
            \/ \E t \in Task : RequestCancel(t) \/ Reconcile(t)
            \/ \E i \in Image : DeleteImage(i)
            \/ \E t \in Task, n \in Number : UploadRefused(t, n)
            \/ UNCHANGED vars
  BY <1>1, <1>11 DEF CreateCapture, CreateDeployment, RequestCancel, Reconcile, DeleteImage,
                     UploadRefused, vars
<1> QED
  BY <1>2, <1>3, <1>4, <1>5, <1>6, <1>7, <1>8, <1>9, <1>10, <1>11
     DEF Next, Operator, Agent, Publishing

(* No late report, result or publication reopens an attempt that ended:    *)
(* the phases touch_attempt accepts never go back, and a claim takes a     *)
(* number nobody used.                                                     *)
THEOREM EndedStayEnded == Spec => EndedAttemptsStayEnded
<1>1. TypeOK /\ Attempts /\ [Next]_vars => [\A t \in Task, n \in Number : StaysEnded(t, n)]_vars
  BY EndedStep
<1> QED
  BY <1>1, ImagesCorrect, PTL DEF Spec, EndedAttemptsStayEnded
-----------------------------------------------------------------------------
(* The state machine of a task.                                            *)

(* One status changes, by a change ALLOWED_TRANSITIONS has, composed       *)
(* within the transaction, and no other.                                   *)
LEMMA LegalWrite ==
  ASSUME TypeOK, NEW t \in Task, NEW to, status' = [status EXCEPT ![t] = to],
         status[t] # "none", LegalChange(status[t], to) \/ to = status[t]
  PROVE  \A u \in Task : LegalStep(u)
<1>1. \A u \in Task : status'[u] = IF u = t THEN to ELSE status[u]
  BY DEF TypeOK
<1> QED
  BY <1>1 DEF LegalStep

(* What the reports of an agent do to the status of a task it holds.       *)
LEMMA ReportedLegal ==
  ASSUME NEW t \in Task, status[t] \in Queued
  PROVE  /\ LegalChange(status[t], TouchedStatus(t))
         /\ LegalChange(status[t], VerifyingStatus(t))
         /\ LegalChange(status[t], "cancelled")
         /\ MayGo(VerifyingStatus(t), "succeeded") => LegalChange(status[t], "succeeded")
BY DEF LegalChange, MayGo, AllowedTransitions, TouchedStatus, VerifyingStatus, Queued, Active, Leased

(* The commit of a publisher writes the status of its own task only.       *)
LEMMA PublisherLegal ==
  ASSUME TypeOK, NEW t \in Task, NEW n \in Number, CaptureRefused(t, n) \/ CaptureCommit(t, n)
  PROVE  \A u \in Task : LegalStep(u)
<1>1. PICK to : status' = [status EXCEPT ![t] = to]
  BY DEF CaptureRefused, CaptureCommit, Fail, Transition
<1>2. attempt[t][n] \in Attempt
  BY DEF TypeOK
<1>3. \A p : [attempt[t][n] EXCEPT !.phase = p, !.pub = "over"].pub = "over"
  BY <1>2, RowFields
<1>4. \A row : Write(t, n, row) => attempt'[t][n] = row
  BY DEF TypeOK, Write
<1>5. attempt[t][n].pub \in {"verifying", "renamed"} /\ attempt'[t][n].pub = "over"
  BY <1>3, <1>4 DEF CaptureRefused, CaptureCommit
<1>6. \A u \in Task : u # t => status'[u] = status[u]
  BY <1>1 DEF TypeOK
<1> QED
  BY <1>5, <1>6 DEF LegalStep, PublisherCommits

LEMMA LegalNext == TypeOK /\ Unborn /\ [Next]_vars => \A t \in Task : LegalStep(t)
<1> DEFINE All == \A t \in Task : LegalStep(t)
<1> SUFFICES ASSUME TypeOK, Unborn, [Next]_vars PROVE All
  OBVIOUS
<1>1. ASSUME NEW t \in Task, NEW i \in Image, CreateCapture(t, i) \/ CreateDeployment(t, i) PROVE All
  BY <1>1 DEF CreateCapture, CreateDeployment, LegalStep, TypeOK
<1>2. ASSUME NEW t \in Task, RequestCancel(t) PROVE All
  <2>1. CASE status[t] = "approved"
    <3>1. status' = [status EXCEPT ![t] = "cancelled"]
      BY <1>2, <2>1 DEF RequestCancel, Transition
    <3>2. LegalChange(status[t], "cancelled") /\ status[t] # "none"
      BY <2>1 DEF LegalChange, MayGo, AllowedTransitions
    <3> QED
      BY <3>1, <3>2, LegalWrite
  <2>2. CASE status[t] # "approved"
    BY <1>2, <2>2 DEF RequestCancel, LegalStep
  <2> QED
    BY <2>1, <2>2
<1>3. ASSUME NEW t \in Task, Reconcile(t) PROVE All
  <2>1. LegalChange("intervention_required", "approved")
    BY DEF LegalChange, MayGo, AllowedTransitions
  <2> QED
    BY <1>3, <2>1, LegalWrite DEF Reconcile, Transition
<1>4. ASSUME NEW t \in Task, Claim(t) PROVE All
  <2>1. LegalChange("approved", "assigned")
    BY DEF LegalChange, MayGo, AllowedTransitions
  <2> QED
    BY <1>4, <2>1, LegalWrite DEF Claim, Transition
<1>5. ASSUME NEW t \in Task, NEW n \in Number,
             \/ Renew(t, n)
             \/ ResultFailed(t, n) \/ ResultCancelled(t, n) \/ ResultRestored(t, n)
      PROVE  All
  <2>1. Accepted(t, n)
    BY <1>5 DEF Renew, Heartbeat, Progress, Upload, CaptureBegin,
                ResultFailed, ResultCancelled, ResultRestored
  <2>2. status[t] \in Queued /\ status[t] # "none"
    BY <2>1, AcceptedTask DEF Queued, Active, Leased
  <2>3. CASE Renew(t, n)
    <3>1. \/ status' = [status EXCEPT ![t] = TouchedStatus(t)]
          \/ status' = [status EXCEPT ![t] = VerifyingStatus(t)]
      BY <2>3 DEF Renew, Heartbeat, Progress, Upload, CaptureBegin
    <3> QED
      BY <2>2, <3>1, ReportedLegal, LegalWrite
  <2>4. CASE ResultFailed(t, n)
    <3>1. status' = [status EXCEPT ![t] = "failed"] /\ LegalChange(status[t], "failed")
      BY <2>4 DEF ResultFailed, Fail, Transition, LegalChange
    <3> QED
      BY <2>2, <3>1, LegalWrite
  <2>5. CASE ResultCancelled(t, n)
    <3>1. status' = [status EXCEPT ![t] = "cancelled"]
      BY <2>5 DEF ResultCancelled, Transition
    <3> QED
      BY <2>2, <3>1, ReportedLegal, LegalWrite
  <2>6. CASE ResultRestored(t, n)
    <3>1. status' = [status EXCEPT ![t] = "succeeded"] /\ MayGo(VerifyingStatus(t), "succeeded")
      BY <2>6 DEF ResultRestored, Transition
    <3> QED
      BY <2>2, <3>1, ReportedLegal, LegalWrite
  <2> QED
    BY <1>5, <2>3, <2>4, <2>5, <2>6
<1>6. ASSUME NEW t \in Task, NEW n \in Number, CaptureRefused(t, n) \/ CaptureCommit(t, n) PROVE All
  BY <1>6, PublisherLegal
<1>7. CASE ExpireStale
  <2>1. \A t \in Task : status'[t] = IF StaleTask(t) THEN "intervention_required" ELSE status[t]
    BY <1>7 DEF ExpireStale
  <2>2. \A t \in Task : StaleTask(t) => status[t] \in Leased
    BY DEF StaleTask, Stale
  <2>3. \A s \in Leased : s # "none" /\ LegalChange(s, "intervention_required")
    BY DEF Leased, LegalChange, MayGo, AllowedTransitions
  <2> QED
    BY <2>1, <2>2, <2>3 DEF LegalStep
<1>8. CASE \/ \E i \in Image : DeleteImage(i)
           \/ \E t \in Task, n \in Number : UploadRefused(t, n) \/ CaptureRename(t, n)
           \/ Crash \/ Tick \/ UNCHANGED vars
  <2>1. UNCHANGED status
    BY <1>8 DEF DeleteImage, UploadRefused, CaptureRename, Crash, Tick, vars, taskVars
  <2> QED
    BY <2>1 DEF LegalStep
<1> QED
  BY <1>1, <1>2, <1>3, <1>4, <1>5, <1>6, <1>7, <1>8 DEF Next, Operator, Agent, Publishing

(* Every committed change of a status is one of ALLOWED_TRANSITIONS,       *)
(* composed within the transaction, but for the last transaction of a      *)
(* publisher, which writes on the row it read before.                      *)
THEOREM LegalCorrect == Spec => LegalTransitions
<1>1. TypeOK /\ Unborn /\ [Next]_vars => [\A t \in Task : LegalStep(t)]_vars
  BY LegalNext
<1> QED
  BY <1>1, ImagesCorrect, PTL DEF Spec, LegalTransitions
=============================================================================
