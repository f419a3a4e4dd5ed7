-------------------------- MODULE ImageStoreProofs --------------------------
(***************************************************************************)
(* Proofs about ImageStore, for every number of runs and of chunks.        *)
(***************************************************************************)
EXTENDS ImageStore, SequenceTheorems, TLAPS

-----------------------------------------------------------------------------
(* The files.                                                              *)

(* What a file may hold is a sequence of runs, and is not the sign of a    *)
(* directory that does not exist.                                          *)
LEMMA ContentsAre ==
  ASSUME NEW f
  PROVE  /\ f \in Contents <=> f \in Seq(Run) /\ Len(f) <= Chunks
         /\ NoDir \notin Contents
<1>1. \A n \in 0 .. Chunks : n \in Nat
  BY ImageStoreAssumption
<1>2. ASSUME NEW g \in Contents PROVE g \in Seq(Run) /\ Len(g) <= Chunks
  <2>1. PICK n \in 0 .. Chunks : g \in [1 .. n -> Run]
    BY <1>2 DEF Contents
  <2>2. n \in Nat /\ n <= Chunks
    BY ImageStoreAssumption
  <2>3. g \in Seq(Run)
    BY <2>1, <2>2, SeqDef
  <2>4. Len(g) = n
    BY <2>1, <2>2, <2>3, LenProperties
  <2> QED
    BY <2>2, <2>3, <2>4
<1>3. ASSUME f \in Seq(Run), Len(f) <= Chunks PROVE f \in Contents
  <2>1. Len(f) \in 0 .. Chunks /\ f \in [1 .. Len(f) -> Run]
    BY <1>3, LenProperties, ImageStoreAssumption
  <2> QED
    BY <2>1 DEF Contents
<1> QED
  BY <1>2, <1>3, ImageStoreAssumption

(* What one run uploaded completely.                                       *)
LEMMA WholeIs ==
  ASSUME NEW r \in Run
  PROVE  /\ Whole(r) \in Contents /\ Whole(r) # NoDir
         /\ Whole(r) \in Seq(Run) /\ Len(Whole(r)) = Chunks
<1>1. Chunks \in 0 .. Chunks /\ Chunks \in Nat /\ Whole(r) \in [1 .. Chunks -> Run]
  BY ImageStoreAssumption DEF Whole
<1>2. Whole(r) \in Contents
  BY <1>1 DEF Contents
<1>3. Whole(r) \in Seq(Run)
  BY <1>2, ContentsAre
<1>4. Len(Whole(r)) = Chunks
  BY <1>1, <1>3, LenProperties
<1> QED
  BY <1>2, <1>3, <1>4, ContentsAre

(* A chunk leaves a file of at most as many chunks as the manifest has,    *)
(* and a file that has them all as it is.                                  *)
LEMMA WrittenIs ==
  ASSUME TypeOK, NEW r \in Run, NEW k \in 1 .. Chunks
  PROVE  /\ Written(r, k).file \in Contents
         /\ \A s \in Run : staged = Whole(s) => Written(r, k).file = staged
<1> DEFINE old == IF staged = NoDir THEN <<>> ELSE staged
<1>1. k \in Nat \ {0} /\ k <= Chunks /\ Chunks \in Nat
  BY ImageStoreAssumption
<1>2. old \in Seq(Run) /\ Len(old) <= Chunks /\ Len(old) \in Nat
  <2>1. CASE staged = NoDir
    BY <2>1, <1>1, EmptySeq
  <2>2. CASE staged # NoDir
    BY <2>2, ContentsAre, LenProperties DEF TypeOK, Files
  <2> QED
    BY <2>1, <2>2
<1>3. \A s \in Run : staged = Whole(s) => old = staged /\ Len(old) = Chunks
  BY WholeIs
<1> HIDE DEF old
<1>4. Written(r, k) = CASE Len(old) = k     -> [ok |-> old[k] = r, file |-> old]
                        [] Len(old) = k - 1 -> [ok |-> TRUE, file |-> Append(old, r)]
                        [] OTHER            -> [ok |-> FALSE, file |-> old]
  BY DEF Written, old
<1>5. CASE Len(old) = k - 1
  <2>1. Len(old) # k
    BY <1>1, <1>5
  <2>2. Written(r, k).file = Append(old, r)
    BY <1>4, <1>5, <2>1
  <2>3. Append(old, r) \in Seq(Run) /\ Len(Append(old, r)) = k
    BY <1>1, <1>2, <1>5, AppendProperties
  <2>4. Append(old, r) \in Contents
    BY <1>1, <2>3, ContentsAre
  <2>5. \A s \in Run : staged # Whole(s)
    BY <1>1, <1>3, <1>5
  <2> QED
    BY <2>2, <2>4, <2>5
<1>6. CASE Len(old) # k - 1
  <2>1. Written(r, k).file = old
    BY <1>4, <1>6
  <2> QED
    BY <1>2, <1>3, <2>1, ContentsAre
<1> QED
  BY <1>5, <1>6
-----------------------------------------------------------------------------
(* Type correctness.                                                       *)

AgentType == [state : {"idle", "sending", "late", "ending", "gone"}, next : 1 .. Chunks + 1]

LEMMA TypeInit == Init => TypeOK
<1> SUFFICES ASSUME Init PROVE TypeOK
  OBVIOUS
<1>1. EmptyRows \in Rows
  BY DEF EmptyRows, Rows
<1>2. agent \in [Run -> AgentType]
  BY ImageStoreAssumption DEF Init, AgentType
<1>3. bak \in [step : {"none", "database", "complete"}, db : Rows, staged : Files, published : Files]
  BY <1>1 DEF Init, Files
<1> QED
  BY <1>1, <1>2, <1>3 DEF Init, TypeOK, AgentType, Files

(* The rows of a failed task, of a cancelled one and of a rebuilt          *)
(* installation are rows.                                                  *)
LEMMA FailedAreRows ==
  ASSUME db \in Rows, NEW r \in Run
  PROVE  FailedRows(r) \in Rows /\ [FailedRows(r) EXCEPT !.task = "cancelled"] \in Rows
<1>1. FailedRows(r) \in Rows
  BY DEF Rows, FailedRows, Terminal
<1>2. \A x \in Rows : [x EXCEPT !.task = "cancelled"] \in Rows
  BY DEF Rows, Terminal
<1> QED
  BY <1>1, <1>2

LEMMA InvalidatedAreRows ==
  ASSUME NEW rows \in Rows
  PROVE  Invalidated(rows) \in Rows
BY DEF Rows, Invalidated, Leased

(* The rows stay rows.                                                     *)
LEMMA RowsTypeStep == TypeOK /\ [Next]_vars => db' \in Rows
<1> SUFFICES ASSUME TypeOK, [Next]_vars PROVE db' \in Rows
  OBVIOUS
<1>0. db \in Rows
  BY DEF TypeOK
<1>1. CASE Create
  BY <1>0, <1>1 DEF Create, Rows
<1>2. CASE Cancel
  BY <1>0, <1>2 DEF Cancel, Rows, Leased, Terminal
<1>3. CASE Expire
  BY <1>0, <1>3 DEF Expire, Rows
<1>4. CASE ReconcileCommit
  BY <1>0, <1>4 DEF ReconcileCommit, Rows
<1>5. CASE DeleteCommit
  BY <1>0, <1>5 DEF DeleteCommit, Rows
<1>6. ASSUME NEW r \in Run, Refuse(r) \/ ReportFailure(r) \/ ReportCancelled(r) PROVE db' \in Rows
  BY <1>0, <1>6, FailedAreRows DEF Refuse, ReportFailure, ReportCancelled
<1>7. ASSUME NEW r \in Run, Publish(r) PROVE db' \in Rows
  BY <1>0, <1>7 DEF Publish, Rows, Terminal
<1>8. ASSUME NEW r \in Run, LeaseEnds(r) PROVE db' \in Rows
  BY <1>0, <1>8 DEF LeaseEnds, Rows
<1>9. ASSUME NEW r \in Run, Claim(r) PROVE db' \in Rows
  BY <1>0, <1>9 DEF Claim, Rows, Leased
<1>10. ASSUME NEW r \in Run, PublishBegin(r) PROVE db' \in Rows
  BY <1>0, <1>10 DEF PublishBegin, Rows, Leased
<1>11. CASE Restore
  <2>1. bak.db \in Rows
    BY DEF TypeOK
  <2> QED
    BY <1>11, <2>1, InvalidatedAreRows DEF Restore
<1>12. ASSUME UNCHANGED db PROVE db' \in Rows
  BY <1>0, <1>12
<1>13. CASE \/ RemoveStaged \/ Restart \/ ReconcileRemove \/ DeleteFiles \/ DeleteFails
            \/ CopyDatabase \/ CopyStore \/ UNCHANGED vars
            \/ \E r \in Run : Verify(r) \/ Rename(r) \/ Upload(r) \/ GiveUp(r)
  BY <1>12, <1>13 DEF RemoveStaged, Restart, ReconcileRemove, DeleteFiles, DeleteFails, CopyDatabase,
                      CopyStore, Verify, Rename, Upload, GiveUp, vars
<1> QED
  BY <1>1, <1>2, <1>3, <1>4, <1>5, <1>6, <1>7, <1>8, <1>9, <1>10, <1>11, <1>13
     DEF Next, Server, Agent, Backup

(* And the agents agents.                                                  *)
LEMMA AgentTypeStep == TypeOK /\ [Next]_vars => agent' \in [Run -> AgentType]
<1> SUFFICES ASSUME TypeOK, [Next]_vars PROVE agent' \in [Run -> AgentType]
  OBVIOUS
<1>0. agent \in [Run -> AgentType]
  BY DEF TypeOK, AgentType
<1>1. ASSUME NEW r \in Run, Upload(r) PROVE agent' \in [Run -> AgentType]
  <2>1. agent[r] \in AgentType /\ agent[r].next <= Chunks /\ Chunks \in Nat
    BY <1>0, <1>1, ImageStoreAssumption DEF Upload
  <2>2. agent[r].next + 1 \in 1 .. Chunks + 1
    BY <2>1 DEF AgentType
  <2>3. CASE agent' = [agent EXCEPT ![r].next = @ + 1]
    BY <1>0, <2>2, <2>3 DEF AgentType
  <2>4. CASE agent' = [agent EXCEPT ![r].state = IF @ = "late" THEN "gone" ELSE "ending"]
    BY <1>0, <2>4 DEF AgentType
  <2> QED
    BY <1>1, <2>3, <2>4 DEF Upload
<1>2. ASSUME NEW r \in Run, NEW st \in {"sending", "late", "ending", "gone"},
             agent' = [agent EXCEPT ![r].state = st]
      PROVE  agent' \in [Run -> AgentType]
  BY <1>0, <1>2 DEF AgentType
<1>3. ASSUME NEW r \in Run, Claim(r) \/ GiveUp(r) \/ PublishBegin(r)
      PROVE  agent' \in [Run -> AgentType]
  BY <1>2, <1>3 DEF Claim, GiveUp, PublishBegin
<1>4. ASSUME NEW r \in Run, ReportFailure(r) \/ ReportCancelled(r)
      PROVE  agent' \in [Run -> AgentType]
  BY <1>0, <1>4 DEF AgentType, ReportFailure, ReportCancelled
<1>5. CASE UNCHANGED agent
  BY <1>0, <1>5
<1>6. CASE Server \/ Backup \/ UNCHANGED vars
  BY <1>5, <1>6 DEF Server, Backup, Create, Cancel, Expire, RemoveStaged, Restart, ReconcileRemove,
       ReconcileCommit, DeleteFiles, DeleteFails, DeleteCommit, Verify, Rename, Refuse, Publish,
       LeaseEnds, CopyDatabase, CopyStore, Restore, vars
<1> QED
  BY <1>1, <1>3, <1>4, <1>6 DEF Next, Agent

(* An upload writes one of the chunks of its run.                          *)
LEMMA UploadWrites ==
  ASSUME TypeOK, NEW r \in Run, Upload(r)
  PROVE  agent[r].next \in 1 .. Chunks /\ staged' = Written(r, agent[r].next).file
<1>1. agent[r].next \in 1 .. Chunks + 1 /\ agent[r].next <= Chunks
  BY DEF Upload, TypeOK
<1>2. agent[r].next \in 1 .. Chunks
  BY <1>1, ImageStoreAssumption
<1>3. staged' = Written(r, agent[r].next).file
  BY DEF Upload
<1> QED
  BY <1>2, <1>3

LEMMA TypeStep == TypeOK /\ [Next]_vars => TypeOK'
<1> SUFFICES ASSUME TypeOK, [Next]_vars PROVE TypeOK'
  OBVIOUS
<1>0. db' \in Rows /\ agent' \in [Run -> AgentType]
  BY RowsTypeStep, AgentTypeStep
<1> USE DEF files, backup, server
<1>1. CASE \/ Create \/ Cancel \/ Expire \/ ReconcileCommit \/ DeleteCommit
           \/ \E r \in Run : LeaseEnds(r) \/ Claim(r) \/ GiveUp(r) \/ ReportFailure(r)
  <2>1. UNCHANGED <<staged, published, pub, cleaning, bak, lost, restored, mishap>>
        /\ loop' \in {loop, "idle"} /\ requeued' \in {requeued, Claimed}
    BY <1>1 DEF Create, Cancel, Expire, ReconcileCommit, DeleteCommit, LeaseEnds, Claim, GiveUp, ReportFailure
  <2> QED
    BY <1>0, <2>1 DEF TypeOK, AgentType, Claimed
<1>2. CASE RemoveStaged \/ ReconcileRemove \/ DeleteFiles
  BY <1>0, <1>2 DEF RemoveStaged, ReconcileRemove, DeleteFiles, TypeOK, Files, AgentType
<1>3. CASE DeleteFails
  <2>1. <<>> \in Files
    <3>1. <<>> \in Seq(Run) /\ Len(<<>>) = 0 /\ 0 <= Chunks
      BY EmptySeq, ImageStoreAssumption
    <3> QED
      BY <3>1, ContentsAre DEF Files
  <2> QED
    BY <1>0, <1>3, <2>1 DEF DeleteFails, TypeOK, Mishap, AgentType
<1>4. CASE Restart
  BY <1>0, <1>4 DEF Restart, TypeOK, Mishap, AgentType
<1>5. ASSUME NEW r \in Run, Verify(r) PROVE TypeOK'
  BY <1>0, <1>5 DEF Verify, TypeOK, AgentType
<1>6. ASSUME NEW r \in Run, Rename(r) PROVE TypeOK'
  <2>1. mishap' \subseteq Mishap
    BY <1>6 DEF Rename, TypeOK, Mishap
  <2> QED
    BY <1>0, <1>6, <2>1 DEF Rename, TypeOK, AgentType, Files
<1>7. ASSUME NEW r \in Run, Refuse(r) \/ Publish(r) PROVE TypeOK'
  <2>1. mishap' \subseteq Mishap
    BY <1>7 DEF Refuse, Publish, TypeOK, Mishap
  <2> QED
    BY <1>0, <1>7, <2>1 DEF Refuse, Publish, TypeOK, AgentType
<1>8. ASSUME NEW r \in Run, PublishBegin(r) \/ ReportCancelled(r) PROVE TypeOK'
  BY <1>0, <1>8 DEF PublishBegin, ReportCancelled, TypeOK, AgentType
<1>9. ASSUME NEW r \in Run, Upload(r) PROVE TypeOK'
  <2>1. agent[r].next \in 1 .. Chunks /\ staged' = Written(r, agent[r].next).file
    BY <1>9, UploadWrites
  <2>2. staged' \in Files
    BY <2>1, WrittenIs DEF Files
  <2> QED
    BY <1>0, <1>9, <2>2 DEF Upload, TypeOK, AgentType
<1>10. CASE CopyDatabase \/ CopyStore
  <2>1. bak' \in [step : {"none", "database", "complete"}, db : Rows, staged : Files, published : Files]
    BY <1>10 DEF CopyDatabase, CopyStore, TypeOK
  <2> QED
    BY <1>0, <1>10, <2>1 DEF CopyDatabase, CopyStore, TypeOK, AgentType
<1>11. CASE Restore
  <2>1. EmptyRows \in Rows /\ NoDir \in Files
    BY DEF EmptyRows, Rows, Files
  <2>2. bak' \in [step : {"none", "database", "complete"}, db : Rows, staged : Files, published : Files]
    BY <1>11, <2>1 DEF Restore, TypeOK
  <2> QED
    BY <1>0, <1>11, <2>1, <2>2 DEF Restore, TypeOK, AgentType, Claimed
<1>12. CASE UNCHANGED vars
  BY <1>12 DEF vars, TypeOK
<1> QED
  BY <1>1, <1>2, <1>3, <1>4, <1>5, <1>6, <1>7, <1>8, <1>9, <1>10, <1>11, <1>12
     DEF Next, Server, Agent, Backup

(* Rows, files and handlers are what they are declared to be.              *)
THEOREM TypeCorrect == Spec => []TypeOK
BY TypeInit, TypeStep, PTL DEF Spec
-----------------------------------------------------------------------------
(* What the files rest on.                                                 *)

(* At most one run claimed the task since it was last queued, and none     *)
(* while it waits to be claimed.                                           *)
OneFresh ==
  /\ requeued \subseteq Claimed
  /\ \A r, s \in Claimed \ requeued : r = s
  /\ db.task \in {"none", "approved"} => Claimed \subseteq requeued

(* An agent whose result is being published uploads no more, and the       *)
(* publication of a task that was queued again is known.                   *)
PublishersEnding ==
  \A r \in Run :
    /\ pub[r] # "idle" => agent[r].state \in {"ending", "gone"}
    /\ pub[r] \in {"doomed", "doomed verified"} => r \in requeued

(* What the task is while files are removed and once the image is ready.   *)
Windows ==
  /\ cleaning => db.task \in Terminal
  /\ loop = "reconciling" => db.task = "intervention_required"
  /\ db.image = "ready" => db.task \in Terminal /\ db.manifest \in Run
  /\ bak.db.image = "ready" => bak.db.task \in Terminal /\ bak.db.manifest \in Run

(* What was verified is still staged, or was removed for good.             *)
VerifiedHolds ==
  \A r \in Run :
    pub[r] = "verified" /\ r \notin requeued /\ "overtaken publication" \notin mishap =>
      \/ staged = Whole(r)
      \/ staged = NoDir /\ (db.task \in Terminal \/ loop = "reconciling")

(* What was renamed is published, until the image is deleted.              *)
RenamedHolds ==
  \A r \in Run :
    /\ pub[r] = "renamed" /\ ~db.deleted /\ loop # "deleting"
    /\ mishap \cap {"interrupted deletion", "overtaken publication"} = {}
    => published = Whole(r)

(* A deleted image, and one that nobody published, has no directory.       *)
NothingLeft ==
  /\ mishap = {}
  /\ \/ db.deleted \/ loop = "deleting"
     \/ db.image # "ready" /\ \A r \in Run : pub[r] # "renamed"
  => published = NoDir

(* The agents of the lost installation hold no credential that is good.    *)
LostHold ==
  \A r \in lost : agent[r].state # "idle" /\ (db.lease[r] # "running" \/ r \in db.revoked)

(* The inductive invariant: who may write, and what the files hold.        *)
Claims == OneFresh /\ PublishersEnding /\ Windows
Held   == VerifiedHolds /\ RenamedHolds /\ WholeWhenReady /\ NothingLeft
StoreInv == TypeOK /\ Claims /\ Held /\ LostHold

LEMMA StoreInit == Init => Claims /\ Held /\ LostHold
<1> SUFFICES ASSUME Init PROVE Claims /\ Held /\ LostHold
  OBVIOUS
<1>1. \A r \in Run : pub[r] = "idle" /\ agent[r].state = "idle"
  BY DEF Init
<1>2. db.task = "none" /\ db.image = "draft" /\ bak.db.image = "draft" /\ db.deleted = FALSE
  BY DEF Init, EmptyRows
<1>3. Claims
  BY <1>1, <1>2 DEF Init, Claims, OneFresh, PublishersEnding, Windows, Claimed
<1>4. Held
  BY <1>1, <1>2 DEF Init, Held, VerifiedHolds, RenamedHolds, WholeWhenReady, NothingLeft
<1> QED
  BY <1>3, <1>4 DEF Init, LostHold

(* An agent that began never begins again, and one that ended its uploads  *)
(* does not take them up.                                                  *)
LEMMA AgentsGoOn ==
  ASSUME TypeOK, [Next]_vars, NEW r \in Run
  PROVE  /\ agent[r].state = "idle" => agent'[r].state = "idle" \/ Claim(r)
         /\ agent[r].state # "idle" => agent'[r].state # "idle"
         /\ agent[r].state \in {"ending", "gone"} => agent'[r].state \in {"ending", "gone"}
<1> DEFINE Goes == /\ agent[r].state = "idle" => agent'[r].state = "idle" \/ Claim(r)
                   /\ agent[r].state # "idle" => agent'[r].state # "idle"
                   /\ agent[r].state \in {"ending", "gone"} => agent'[r].state \in {"ending", "gone"}
<1>0. agent \in [Run -> AgentType]
  BY DEF TypeOK, AgentType
<1>1. ASSUME NEW s \in Run, Upload(s) PROVE Goes
  <2>1. agent[s].state \in {"sending", "late"}
    BY <1>1 DEF Upload
  <2>2. CASE agent' = [agent EXCEPT ![s].next = @ + 1]
    BY <1>0, <2>1, <2>2 DEF AgentType
  <2>3. CASE agent' = [agent EXCEPT ![s].state = IF @ = "late" THEN "gone" ELSE "ending"]
    BY <1>0, <2>1, <2>3 DEF AgentType
  <2> QED
    BY <1>1, <2>2, <2>3 DEF Upload
<1>2. ASSUME NEW s \in Run, Claim(s) PROVE Goes
  BY <1>0, <1>2 DEF AgentType, Claim
<1>3. ASSUME NEW s \in Run, GiveUp(s) \/ PublishBegin(s) PROVE Goes
  BY <1>0, <1>3 DEF AgentType, GiveUp, PublishBegin
<1>4. ASSUME NEW s \in Run, ReportFailure(s) \/ ReportCancelled(s) PROVE Goes
  BY <1>0, <1>4 DEF AgentType, ReportFailure, ReportCancelled
<1>5. CASE UNCHANGED agent
  BY <1>5
<1>6. CASE Server \/ Backup \/ UNCHANGED vars
  BY <1>5, <1>6 DEF Server, Backup, Create, Cancel, Expire, RemoveStaged, Restart, ReconcileRemove,
       ReconcileCommit, DeleteFiles, DeleteFails, DeleteCommit, Verify, Rename, Refuse, Publish,
       LeaseEnds, CopyDatabase, CopyStore, Restore, vars
<1> QED
  BY <1>1, <1>2, <1>3, <1>4, <1>6 DEF Next, Agent

(* What the rows of one installation keep: an end is an end, a deletion    *)
(* too, the ready image stays ready and names the run that published it,   *)
(* and credentials are given to new agents only.                           *)
Onward ==
  /\ db.task \in Terminal => db'.task \in Terminal
  /\ db'.task \in {"none", "approved"} => db.task \in {"none", "approved"} \/ requeued' = Claimed
  /\ db.deleted => db'.deleted
  /\ db'.deleted => db.deleted \/ loop = "deleting"
  /\ db.image = "ready" => db'.image = "ready"
  /\ (\A r \in Run : ~Publish(r)) =>
       (db'.image = "ready" => db.image = "ready") /\ db'.manifest = db.manifest
  /\ db'.revoked = db.revoked
  /\ \A r \in Run : db'.lease[r] = "running" => db.lease[r] = "running" \/ agent[r].state = "idle"

LEMMA FailedGoesOn ==
  ASSUME db \in Rows, NEW r \in Run,
         db' = FailedRows(r) \/ db' = [FailedRows(r) EXCEPT !.task = "cancelled"]
  PROVE  Onward
<1>1. FailedRows(r) \in Rows
  BY FailedAreRows
<1>2. /\ FailedRows(r).task = "failed" /\ FailedRows(r).deleted = db.deleted
      /\ FailedRows(r).image = IF db.image = "capturing" THEN "failed" ELSE db.image
      /\ FailedRows(r).manifest = db.manifest /\ FailedRows(r).revoked = db.revoked
      /\ FailedRows(r).lease = db.lease
  BY DEF FailedRows, Rows
<1>3. /\ db'.task \in {"failed", "cancelled"} /\ db'.deleted = db.deleted
      /\ db'.image = IF db.image = "capturing" THEN "failed" ELSE db.image
      /\ db'.manifest = db.manifest /\ db'.revoked = db.revoked /\ db'.lease = db.lease
  <2>1. CASE db' = FailedRows(r)
    BY <1>2, <2>1
  <2>2. CASE db' = [FailedRows(r) EXCEPT !.task = "cancelled"]
    BY <1>1, <1>2, <2>2 DEF Rows
  <2> QED
    BY <2>1, <2>2
<1> QED
  BY <1>3 DEF Onward, Terminal

LEMMA RowsGoOn ==
  ASSUME TypeOK, Windows, [Next]_vars, ~Restore
  PROVE  Onward
<1>0. db \in Rows
  BY DEF TypeOK
<1>1. CASE Create
  BY <1>0, <1>1 DEF Create, Rows, Onward, Terminal
<1>2. CASE Cancel
  BY <1>0, <1>2 DEF Cancel, Rows, Onward, Terminal, Leased
<1>3. CASE Expire
  BY <1>0, <1>3 DEF Expire, Stale, Rows, Onward, Terminal, Leased
<1>4. CASE ReconcileCommit
  BY <1>0, <1>4 DEF ReconcileCommit, Rows, Windows, Onward, Terminal
<1>5. CASE DeleteCommit
  BY <1>0, <1>5 DEF DeleteCommit, Rows, Onward
<1>6. ASSUME UNCHANGED db PROVE Onward
  BY <1>6 DEF Onward
<1>7. ASSUME NEW r \in Run, Refuse(r) \/ ReportFailure(r) \/ ReportCancelled(r) PROVE Onward
  BY <1>0, <1>6, <1>7, FailedGoesOn DEF Refuse, ReportFailure, ReportCancelled
<1>8. ASSUME NEW r \in Run, Publish(r) PROVE Onward
  BY <1>0, <1>8 DEF Publish, Rows, Onward, Terminal
<1>9. ASSUME NEW r \in Run, LeaseEnds(r) PROVE Onward
  BY <1>0, <1>9 DEF LeaseEnds, Rows, Onward
<1>10. ASSUME NEW r \in Run, Claim(r) PROVE Onward
  BY <1>0, <1>10 DEF Claim, Rows, Onward, Terminal
<1>11. ASSUME NEW r \in Run, PublishBegin(r) PROVE Onward
  BY <1>0, <1>11 DEF PublishBegin, Accepted, Rows, Onward, Terminal
<1>12. CASE \/ RemoveStaged \/ Restart \/ ReconcileRemove \/ DeleteFiles \/ DeleteFails
            \/ CopyDatabase \/ CopyStore \/ UNCHANGED vars
            \/ \E r \in Run : Verify(r) \/ Rename(r) \/ Upload(r) \/ GiveUp(r)
  BY <1>6, <1>12 DEF RemoveStaged, Restart, ReconcileRemove, DeleteFiles, DeleteFails, CopyDatabase,
                     CopyStore, Verify, Rename, Upload, GiveUp, vars
<1> QED
  BY <1>1, <1>2, <1>3, <1>4, <1>5, <1>7, <1>8, <1>9, <1>10, <1>11, <1>12
     DEF Next, Server, Agent, Backup

(* The handlers that publish: which of them are new, and what they leave.  *)
PublishersGoOn ==
  \A r \in Run :
    /\ pub'[r] # "idle" => pub[r] # "idle" \/ PublishBegin(r)
    /\ pub'[r] \in {"doomed", "doomed verified"} =>
         pub[r] \in {"doomed", "doomed verified"} \/ (PublishBegin(r) /\ db.task = "approved")
    /\ pub'[r] = "verified" => pub[r] = "verified" \/ Verify(r)
    /\ pub'[r] = "renamed" => pub[r] = "renamed" \/ Rename(r)
    /\ pub[r] = "renamed" /\ pub'[r] # "renamed" =>
         Publish(r) \/ "interrupted publication" \in mishap' \/ Restore

LEMMA PublishersStep == TypeOK /\ PublishersEnding /\ [Next]_vars => PublishersGoOn
<1> SUFFICES ASSUME TypeOK, PublishersEnding, [Next]_vars PROVE PublishersGoOn
  OBVIOUS
<1>0. pub \in [Run -> {"idle", "verifying", "verified", "renamed", "doomed", "doomed verified"}]
  BY DEF TypeOK
<1>1. ASSUME NEW r \in Run, Verify(r) PROVE PublishersGoOn
  BY <1>0, <1>1 DEF Verify, PublishersGoOn
<1>2. ASSUME NEW r \in Run, Rename(r) PROVE PublishersGoOn
  BY <1>0, <1>2 DEF Rename, PublishersGoOn
<1>3. ASSUME NEW r \in Run, Refuse(r) PROVE PublishersGoOn
  BY <1>0, <1>3 DEF Refuse, PublishersGoOn
<1>4. ASSUME NEW r \in Run, Publish(r) PROVE PublishersGoOn
  BY <1>0, <1>4 DEF Publish, PublishersGoOn
<1>5. ASSUME NEW r \in Run, PublishBegin(r) PROVE PublishersGoOn
  <2>1. pub' = [pub EXCEPT ![r] = IF db.task = "approved" THEN "doomed" ELSE "verifying"]
    BY <1>5 DEF PublishBegin
  <2>2. pub[r] = "idle"
    BY <1>5 DEF PublishBegin, PublishersEnding
  <2> QED
    BY <1>0, <1>5, <2>1, <2>2 DEF PublishersGoOn
<1>6. CASE Restart
  BY <1>0, <1>6 DEF Restart, PublishersGoOn
<1>7. CASE Restore
  <2>1. \A r \in Run : pub'[r] = "idle"
    BY <1>7 DEF Restore
  <2> QED
    BY <1>7, <2>1 DEF PublishersGoOn
<1>8. CASE UNCHANGED pub
  BY <1>8 DEF PublishersGoOn
<1>9. CASE \/ Create \/ Cancel \/ Expire \/ RemoveStaged \/ ReconcileRemove \/ ReconcileCommit
           \/ DeleteFiles \/ DeleteFails \/ DeleteCommit \/ CopyDatabase \/ CopyStore
           \/ UNCHANGED vars
           \/ \E r \in Run : \/ LeaseEnds(r) \/ Claim(r) \/ Upload(r) \/ GiveUp(r)
                            \/ ReportFailure(r) \/ ReportCancelled(r)
  BY <1>8, <1>9 DEF Create, Cancel, Expire, RemoveStaged, ReconcileRemove, ReconcileCommit, DeleteFiles,
       DeleteFails, DeleteCommit, CopyDatabase, CopyStore, LeaseEnds, Claim, Upload, GiveUp,
       ReportFailure, ReportCancelled, vars, server
<1> QED
  BY <1>1, <1>2, <1>3, <1>4, <1>5, <1>6, <1>7, <1>9 DEF Next, Server, Agent, Backup

(* The rest of what a step keeps: the runs of before the task was queued   *)
(* again, the agents of the lost installation, the mishaps.                *)
LEMMA RestGoesOn ==
  ASSUME [Next]_vars, ~Restore
  PROVE  /\ requeued' = requeued \/ (requeued' = Claimed /\ ReconcileCommit)
         /\ mishap \subseteq mishap' /\ lost' = lost
BY DEF Next, Server, Agent, Backup, Create, Cancel, Expire, RemoveStaged, Restart, ReconcileRemove,
       ReconcileCommit, DeleteFiles, DeleteFails, DeleteCommit, Verify, Rename, Refuse, Publish,
       LeaseEnds, Claim, Upload, GiveUp, ReportFailure, ReportCancelled, PublishBegin,
       CopyDatabase, CopyStore, vars, backup

(* Who claimed and what is queued again, step by step.                     *)
LEMMA OneFreshStep == TypeOK /\ Claims /\ [Next]_vars => OneFresh'
<1> SUFFICES ASSUME TypeOK, Claims, [Next]_vars PROVE OneFresh'
  OBVIOUS
<1> USE DEF Claims
<1>1. CASE \E r \in Run : Claim(r)
  <2>1. PICK r \in Run : Claim(r)
    BY <1>1
  <2>2. agent' = [agent EXCEPT ![r].state = "sending"] /\ requeued' = requeued
        /\ db.task = "approved" /\ db'.task = "running"
    BY <2>1 DEF Claim, TypeOK, Rows
  <2>3. Claimed' = Claimed \cup {r}
    BY <2>2 DEF Claimed, TypeOK
  <2>4. Claimed \subseteq requeued
    BY <2>2 DEF OneFresh
  <2> QED
    BY <2>2, <2>3, <2>4 DEF OneFresh
<1>2. CASE ~\E r \in Run : Claim(r)
  <2>1. Claimed' = Claimed
    BY <1>2, AgentsGoOn DEF Claimed
  <2>2. CASE Restore
    <3>1. requeued' = Claimed
      BY <2>2 DEF Restore
    <3> QED
      BY <2>1, <3>1 DEF OneFresh
  <2>3. CASE ~Restore
    <3>1. requeued' = requeued \/ requeued' = Claimed
      BY <2>3, RestGoesOn
    <3>2. db'.task \in {"none", "approved"} => db.task \in {"none", "approved"} \/ requeued' = Claimed
      BY <2>3, RowsGoOn DEF Onward
    <3> QED
      BY <2>1, <3>1, <3>2 DEF OneFresh
  <2> QED
    BY <2>2, <2>3
<1> QED
  BY <1>1, <1>2

LEMMA PublishersEndingStep == TypeOK /\ Claims /\ [Next]_vars => PublishersEnding'
<1> SUFFICES ASSUME TypeOK, Claims, [Next]_vars, NEW r \in Run
             PROVE  /\ pub'[r] # "idle" => agent'[r].state \in {"ending", "gone"}
                    /\ pub'[r] \in {"doomed", "doomed verified"} => r \in requeued'
  BY DEF PublishersEnding
<1>0. PublishersGoOn
  BY PublishersStep DEF Claims
<1>1. agent[r].state \in {"ending", "gone"} => agent'[r].state \in {"ending", "gone"}
  BY AgentsGoOn
<1>2. ASSUME PublishBegin(r) PROVE agent'[r].state = "ending" /\ r \in Claimed
  BY <1>2 DEF PublishBegin, TypeOK, Claimed
<1>3. requeued \subseteq requeued'
  <2>1. CASE Restore
    BY <2>1 DEF Restore, Claims, OneFresh
  <2>2. CASE ~Restore
    BY <2>2, RestGoesOn DEF Claims, OneFresh
  <2> QED
    BY <2>1, <2>2
<1>4. pub'[r] # "idle" => agent'[r].state \in {"ending", "gone"}
  BY <1>0, <1>1, <1>2 DEF PublishersGoOn, Claims, PublishersEnding
<1>5. pub'[r] \in {"doomed", "doomed verified"} => r \in requeued'
  BY <1>0, <1>2, <1>3 DEF PublishersGoOn, Claims, PublishersEnding, OneFresh
<1> QED
  BY <1>4, <1>5

LEMMA WindowsStep == TypeOK /\ Claims /\ [Next]_vars => Windows'
<1> SUFFICES ASSUME TypeOK, Claims, [Next]_vars PROVE Windows'
  OBVIOUS
<1>0. Windows
  BY DEF Claims
<1>1. CASE Restore
  <2>1. /\ Invalidated(bak.db).image = bak.db.image
        /\ Invalidated(bak.db).manifest = bak.db.manifest
        /\ bak.db.task \in Terminal => Invalidated(bak.db).task = bak.db.task
    BY DEF TypeOK, Invalidated, Rows, Terminal, Leased
  <2>2. bak'.db.image = "draft"
    BY <1>1 DEF Restore, TypeOK, EmptyRows
  <2> QED
    BY <1>0, <1>1, <2>1, <2>2 DEF Restore, Windows
<1>2. CASE ~Restore
  <2>1. Onward
    BY <1>0, <1>2, RowsGoOn
  <2>2. db'.image = "ready" => db'.task \in Terminal /\ db'.manifest \in Run
    <3>1. CASE \E r \in Run : Publish(r)
      <4>1. db \in Rows /\ \E r \in Run : db' = [db EXCEPT !.task = "succeeded", !.phase[r] = "completed",
                                                     !.image = "ready", !.manifest = r]
        BY <3>1 DEF Publish, TypeOK
      <4>2. db'.task = "succeeded" /\ db'.manifest \in Run
        BY <4>1 DEF Rows
      <4> QED
        BY <4>2 DEF Terminal
    <3>2. CASE \A r \in Run : ~Publish(r)
      BY <1>0, <2>1, <3>2 DEF Onward, Windows
    <3> QED
      BY <3>1, <3>2
  <2>3. cleaning' => db'.task \in Terminal
    <3>1. cleaning' => cleaning \/ \E r \in Run : ReportCancelled(r)
      BY DEF Next, Server, Agent, Backup, Create, Cancel, Expire, RemoveStaged, Restart, ReconcileRemove,
             ReconcileCommit, DeleteFiles, DeleteFails, DeleteCommit, Verify, Rename, Refuse, Publish,
             LeaseEnds, Claim, Upload, GiveUp, ReportFailure, PublishBegin,
             CopyDatabase, CopyStore, Restore, vars, server
    <3>2. ASSUME NEW r \in Run, ReportCancelled(r) PROVE db'.task \in Terminal
      <4>1. FailedRows(r) \in Rows
        BY FailedAreRows DEF TypeOK
      <4> QED
        BY <3>2, <4>1 DEF ReportCancelled, Rows, Terminal
    <3> QED
      BY <1>0, <2>1, <3>1, <3>2 DEF Onward, Windows
  <2>4. loop' = "reconciling" => db'.task = "intervention_required"
    <3>1. CASE ReconcileRemove
      BY <3>1 DEF ReconcileRemove
    <3>2. ASSUME ~ReconcileRemove, loop' = "reconciling"
          PROVE  loop = "reconciling"
      BY <3>2
         DEF Next, Server, Agent, Backup, Create, Cancel, Expire, RemoveStaged, Restart,
             ReconcileCommit, DeleteFiles, DeleteFails, DeleteCommit, Verify, Rename, Refuse, Publish,
             LeaseEnds, Claim, Upload, GiveUp, ReportFailure, ReportCancelled, PublishBegin,
             CopyDatabase, CopyStore, Restore, vars, server
    <3>3. ASSUME loop = "reconciling", loop' = "reconciling"
          PROVE  db' = db \/ \E r \in Run : LeaseEnds(r)
      BY <1>2, <3>3
         DEF Next, Server, Agent, Backup, Create, Cancel, Expire, RemoveStaged, Restart, ReconcileRemove,
             ReconcileCommit, DeleteFiles, DeleteFails, DeleteCommit, Verify, Rename, Refuse, Publish,
             Claim, Upload, GiveUp, ReportFailure, ReportCancelled, PublishBegin,
             CopyDatabase, CopyStore, Unlocked, vars
    <3>4. ASSUME NEW r \in Run, LeaseEnds(r) PROVE db'.task = db.task
      BY <3>4 DEF LeaseEnds, TypeOK, Rows
    <3> QED
      BY <1>0, <3>1, <3>2, <3>3, <3>4 DEF Windows
  <2>5. bak'.db.image = "ready" => bak'.db.task \in Terminal /\ bak'.db.manifest \in Run
    <3>1. CASE CopyDatabase
      BY <1>0, <3>1 DEF CopyDatabase, TypeOK, Windows
    <3>2. CASE CopyStore
      BY <1>0, <3>2 DEF CopyStore, TypeOK, Windows
    <3>3. CASE UNCHANGED bak
      BY <1>0, <3>3 DEF Windows
    <3>4. CASE Server \/ Agent \/ UNCHANGED vars
      BY <3>3, <3>4
         DEF Server, Agent, Create, Cancel, Expire, RemoveStaged, Restart, ReconcileRemove,
             ReconcileCommit, DeleteFiles, DeleteFails, DeleteCommit, Verify, Rename, Refuse, Publish,
             LeaseEnds, Claim, Upload, GiveUp, ReportFailure, ReportCancelled, PublishBegin, vars, backup
    <3> QED
      BY <1>2, <3>1, <3>2, <3>4 DEF Next, Backup
  <2> QED
    BY <2>2, <2>3, <2>4, <2>5 DEF Windows
<1> QED
  BY <1>1, <1>2

(* The agents of the lost installation get no credential.                  *)
LEMMA LostStep == TypeOK /\ Claims /\ LostHold /\ [Next]_vars => LostHold'
<1> SUFFICES ASSUME TypeOK, Claims, LostHold, [Next]_vars PROVE LostHold'
  OBVIOUS
<1>1. CASE Restore
  <2>1. lost' = Claimed /\ UNCHANGED agent /\ db' = Invalidated(bak.db)
    BY <1>1 DEF Restore
  <2>2. \A r \in Run : Invalidated(bak.db).lease[r] # "running" \/ r \in Invalidated(bak.db).revoked
    BY DEF Invalidated, TypeOK, Rows
  <2> QED
    BY <2>1, <2>2 DEF LostHold, Claimed
<1>2. CASE ~Restore
  <2>1. Onward /\ lost' = lost /\ lost \subseteq Run
    BY <1>2, RowsGoOn, RestGoesOn DEF Claims, TypeOK
  <2>2. \A r \in Run : agent[r].state # "idle" => agent'[r].state # "idle"
    BY AgentsGoOn
  <2> QED
    BY <2>1, <2>2 DEF LostHold, Onward
<1> QED
  BY <1>1, <1>2
-----------------------------------------------------------------------------
(* What the files hold.                                                    *)

(* What was verified stays staged: the other agents find the file complete *)
(* and can only be refused, and files are removed once the task is over.   *)
LEMMA VerifiedStep ==
  ASSUME TypeOK, Claims, VerifiedHolds, [Next]_vars
  PROVE  VerifiedHolds'
<1> SUFFICES ASSUME NEW r \in Run, pub'[r] = "verified", r \notin requeued',
                    "overtaken publication" \notin mishap'
             PROVE  \/ staged' = Whole(r)
                    \/ staged' = NoDir /\ (db'.task \in Terminal \/ loop' = "reconciling")
  BY DEF VerifiedHolds
<1> USE DEF Claims
<1>0. ~Restore
  BY DEF Restore
<1>1. /\ Onward /\ PublishersGoOn
      /\ requeued' = requeued \/ (requeued' = Claimed /\ ReconcileCommit)
      /\ mishap \subseteq mishap' /\ requeued \subseteq Claimed
  BY <1>0, RowsGoOn, RestGoesOn, PublishersStep DEF OneFresh
<1>2. CASE Verify(r)
  BY <1>2 DEF Verify, files
<1>3. CASE ~Verify(r)
  <2>1. pub[r] = "verified" /\ r \notin requeued /\ "overtaken publication" \notin mishap
    BY <1>1, <1>3 DEF PublishersGoOn
  <2>2. r \in Claimed /\ agent[r].state \in {"ending", "gone"}
    BY <2>1 DEF PublishersEnding, Claimed
  <2>3. ~ReconcileCommit /\ ~Restart
    BY <2>2 DEF ReconcileCommit, Restart
  <2>4. \/ staged = Whole(r)
        \/ staged = NoDir /\ (db.task \in Terminal \/ loop = "reconciling")
    BY <2>1 DEF VerifiedHolds
  <2>5. db.task \in Terminal => db'.task \in Terminal
    BY <1>1 DEF Onward
  <2>6. loop = "reconciling" => loop' = "reconciling"
    BY <1>0, <2>3
       DEF Next, Server, Agent, Backup, Create, Cancel, Expire, RemoveStaged, ReconcileRemove,
           DeleteFiles, DeleteFails, DeleteCommit, Verify, Rename, Refuse, Publish,
           LeaseEnds, Claim, Upload, GiveUp, ReportFailure, ReportCancelled, PublishBegin,
           CopyDatabase, CopyStore, vars, server
  <2>7. CASE UNCHANGED staged
    BY <2>4, <2>5, <2>6, <2>7
  <2>8. CASE RemoveStaged
    BY <2>8 DEF RemoveStaged, Windows
  <2>9. CASE ReconcileRemove
    BY <2>9 DEF ReconcileRemove
  <2>10. ASSUME NEW s \in Run, Rename(s) PROVE FALSE
    <3>1. /\ pub[s] \in {"verified", "doomed verified"} /\ s \notin requeued
          /\ pub'[s] \in {"renamed", "idle"}
      BY <1>1, <2>1, <2>10 DEF Rename, Overtaken, TypeOK
    <3>2. s \in Claimed /\ s # r
      BY <3>1 DEF PublishersEnding, Claimed
    <3> QED
      BY <2>1, <2>2, <3>1, <3>2 DEF OneFresh
  <2>11. ASSUME NEW s \in Run, Upload(s) PROVE UNCHANGED staged
    <3>1. agent[s].next \in 1 .. Chunks /\ staged' = Written(s, agent[s].next).file
      BY <2>11, UploadWrites
    <3>2. staged = Whole(r)
      BY <2>4, <2>11 DEF Upload, Accepted
    <3> QED
      BY <3>1, <3>2, WrittenIs
  <2> QED
    BY <1>0, <2>3, <2>7, <2>8, <2>9, <2>10, <2>11
       DEF Next, Server, Agent, Backup, Create, Cancel, Expire, DeleteFiles, DeleteFails, DeleteCommit,
           Verify, Refuse, Publish, LeaseEnds, Claim, GiveUp, ReportFailure, ReportCancelled,
           PublishBegin, CopyDatabase, CopyStore, vars, files
<1> QED
  BY <1>2, <1>3

(* The published directory is made by a rename, removed by a deletion, and *)
(* otherwise left alone; a deletion that began is committed or cut.        *)
LEMMA PublishedGoesOn ==
  ASSUME [Next]_vars, ~Restore
  PROVE  /\ \/ published' = published \/ \E r \in Run : Rename(r)
            \/ (DeleteFiles /\ published' = NoDir /\ loop' = "deleting")
            \/ "interrupted deletion" \in mishap'
         /\ loop = "deleting" => loop' = "deleting" \/ DeleteCommit \/ "interrupted deletion" \in mishap'
         /\ loop' = "deleting" => loop = "deleting" \/ DeleteFiles
BY DEF Next, Server, Agent, Backup, Create, Cancel, Expire, RemoveStaged, Restart, ReconcileRemove,
       ReconcileCommit, DeleteFiles, DeleteFails, DeleteCommit, Verify, Rename, Refuse, Publish,
       LeaseEnds, Claim, Upload, GiveUp, ReportFailure, ReportCancelled, PublishBegin,
       CopyDatabase, CopyStore, vars, files, server

(* What is renamed is what was verified, unless its task was queued again  *)
(* or its image deleted in between.                                        *)
LEMMA RenamedIsVerified ==
  ASSUME TypeOK, Claims, VerifiedHolds, NEW r \in Run, Rename(r),
         mishap' \cap {"overtaken publication", "interrupted publication"} = {}
  PROVE  /\ ~Overtaken(r) /\ published' = Whole(r) /\ pub'[r] = "renamed"
<1>1. ~Overtaken(r) /\ pub[r] = "verified"
  BY DEF Rename
<1>2. "overtaken publication" \notin mishap /\ r \notin requeued
  BY <1>1 DEF Rename, Overtaken
<1>3. staged = Whole(r)
  BY <1>1, <1>2 DEF VerifiedHolds, Rename
<1> QED
  BY <1>1, <1>3 DEF Rename, TypeOK

LEMMA RenamedStep ==
  ASSUME TypeOK, Claims, VerifiedHolds, RenamedHolds, [Next]_vars
  PROVE  RenamedHolds'
<1> SUFFICES ASSUME NEW r \in Run, pub'[r] = "renamed", ~db'.deleted, loop' # "deleting",
                    mishap' \cap {"interrupted deletion", "overtaken publication"} = {}
             PROVE  published' = Whole(r)
  BY DEF RenamedHolds
<1>0. ~Restore
  BY DEF Restore
<1>1. /\ Onward /\ PublishersGoOn /\ mishap \subseteq mishap'
  BY <1>0, RowsGoOn, RestGoesOn, PublishersStep DEF Claims
<1>2. CASE Rename(r)
  <2>1. pub[r] = "verified" /\ ~Overtaken(r) /\ "overtaken publication" \notin mishap
    BY <1>2 DEF Rename, TypeOK
  <2>2. staged = Whole(r)
    BY <1>2, <2>1 DEF VerifiedHolds, Rename, Overtaken
  <2> QED
    BY <1>2, <2>2 DEF Rename
<1>3. CASE ~Rename(r)
  <2>1. pub[r] = "renamed" /\ ~db.deleted
    BY <1>1, <1>3 DEF PublishersGoOn, Onward
  <2>2. loop # "deleting"
    <3>1. DeleteCommit => db'.deleted
      BY DEF DeleteCommit, TypeOK, Rows
    <3> QED
      BY <1>0, <3>1, PublishedGoesOn
  <2>3. published = Whole(r) /\ published # NoDir
    BY <1>1, <2>1, <2>2, WholeIs DEF RenamedHolds
  <2>4. \A s \in Run : ~Rename(s)
    BY <2>3 DEF Rename
  <2> QED
    BY <1>0, <2>3, <2>4, PublishedGoesOn
<1> QED
  BY <1>2, <1>3

LEMMA WholeStep ==
  ASSUME TypeOK, Claims, RenamedHolds, WholeWhenReady, [Next]_vars
  PROVE  WholeWhenReady'
<1> SUFFICES ASSUME db'.image = "ready", ~db'.deleted, loop' # "deleting",
                    mishap' \cap {"interrupted deletion", "overtaken publication"} = {}
             PROVE  published' = Whole(db'.manifest)
  BY DEF WholeWhenReady
<1>1. CASE Restore
  <2>1. /\ Invalidated(bak.db).image = bak.db.image
        /\ Invalidated(bak.db).manifest = bak.db.manifest
        /\ Invalidated(bak.db).deleted = bak.db.deleted
    BY DEF TypeOK, Invalidated, Rows
  <2> QED
    BY <1>1, <2>1 DEF Restore, Catalog
<1>2. CASE ~Restore
  <2>1. Onward /\ mishap \subseteq mishap'
    BY <1>2, RowsGoOn, RestGoesOn DEF Claims
  <2>2. ~db.deleted
    BY <2>1 DEF Onward
  <2>3. loop # "deleting"
    <3>1. DeleteCommit => db'.deleted
      BY DEF DeleteCommit, TypeOK, Rows
    <3> QED
      BY <1>2, <3>1, PublishedGoesOn
  <2>4. ASSUME NEW r \in Run, Publish(r) PROVE published' = Whole(db'.manifest)
    <3>1. published = Whole(r)
      BY <2>1, <2>2, <2>3, <2>4 DEF Publish, RenamedHolds
    <3>2. db'.manifest = r /\ published' = published
      BY <2>4 DEF Publish, TypeOK, Rows, files
    <3> QED
      BY <3>1, <3>2
  <2>5. ASSUME \A r \in Run : ~Publish(r) PROVE published' = Whole(db'.manifest)
    <3>1. db.image = "ready" /\ db'.manifest = db.manifest
      BY <2>1, <2>5 DEF Onward
    <3>2. published = Whole(db.manifest) /\ db.manifest \in Run
      BY <2>1, <2>2, <2>3, <3>1 DEF WholeWhenReady, Claims, Windows
    <3>3. \A s \in Run : ~Rename(s)
      BY <3>2, WholeIs DEF Rename
    <3> QED
      BY <1>2, <3>1, <3>2, <3>3, PublishedGoesOn
  <2> QED
    BY <2>4, <2>5
<1> QED
  BY <1>1, <1>2

LEMMA NothingLeftStep ==
  ASSUME TypeOK, Claims, VerifiedHolds, NothingLeft, [Next]_vars
  PROVE  NothingLeft'
<1> DEFINE Nowhere == \/ db.deleted \/ loop = "deleting"
                      \/ (db.image # "ready" /\ \A r \in Run : pub[r] # "renamed")
<1> SUFFICES ASSUME mishap' = {}, Nowhere' PROVE published' = NoDir
  BY DEF NothingLeft
<1>1. CASE Restore
  <2>1. /\ Invalidated(bak.db).image = bak.db.image
        /\ Invalidated(bak.db).deleted = bak.db.deleted
    BY DEF TypeOK, Invalidated, Rows
  <2> QED
    BY <1>1, <2>1 DEF Restore, Catalog
<1>2. CASE ~Restore
  <2>1. Onward /\ PublishersGoOn /\ mishap = {}
    BY <1>2, RowsGoOn, RestGoesOn, PublishersStep DEF Claims
  <2>2. ASSUME NEW r \in Run, Rename(r) PROVE FALSE
    <3>1. ~Overtaken(r) /\ pub'[r] = "renamed" /\ UNCHANGED <<db, loop>>
      BY <2>2, RenamedIsVerified DEF Rename
    <3> QED
      BY <3>1 DEF Overtaken
  <2>3. CASE DeleteFiles
    BY <2>3 DEF DeleteFiles
  <2>4. CASE ~DeleteFiles
    <3>1. published' = published
      BY <1>2, <2>2, <2>4, PublishedGoesOn
    <3>2. ASSUME db'.image # "ready", \A r \in Run : pub'[r] # "renamed"
          PROVE  db.image # "ready" /\ \A r \in Run : pub[r] # "renamed"
      <4>1. \A r \in Run : ~Publish(r)
        BY <3>2 DEF Publish, TypeOK, Rows
      <4> QED
        BY <1>2, <2>1, <3>2, <4>1 DEF Onward, PublishersGoOn
    <3>3. Nowhere
      BY <1>2, <2>1, <2>4, <3>2, PublishedGoesOn DEF Onward
    <3> QED
      BY <2>1, <3>1, <3>3 DEF NothingLeft
  <2> QED
    BY <2>3, <2>4
<1> QED
  BY <1>1, <1>2

(* The invariant holds.                                                    *)
LEMMA StoreCorrect == Spec => []StoreInv
<1>1. Init => StoreInv
  BY TypeInit, StoreInit DEF StoreInv
<1>2. StoreInv /\ [Next]_vars => StoreInv'
  BY TypeStep, OneFreshStep, PublishersEndingStep, WindowsStep, LostStep,
     VerifiedStep, RenamedStep, WholeStep, NothingLeftStep DEF StoreInv, Claims, Held
<1> QED
  BY <1>1, <1>2, PTL DEF Spec

(* An image that can be deployed has the files of one run, all of them,    *)
(* and the run is the one its manifest names.                              *)
THEOREM WholeCorrect == Spec => []WholeWhenReady
<1>1. StoreInv => WholeWhenReady
  BY DEF StoreInv, Held
<1> QED
  BY <1>1, StoreCorrect, PTL

(* The catalog of a server at rest is one a backup can be verified with.   *)
THEOREM AtRestCorrect == Spec => []AtRestVerifies
<1>1. StoreInv => AtRestVerifies
  <2> SUFFICES ASSUME StoreInv, loop = "idle", \A r \in Run : pub[r] = "idle", mishap = {}
               PROVE  Catalog(db, published)
    BY DEF AtRestVerifies
  <2>1. CASE db.image = "ready" /\ ~db.deleted
    BY <2>1 DEF StoreInv, Held, WholeWhenReady, Catalog
  <2>2. CASE ~(db.image = "ready" /\ ~db.deleted)
    <3>1. published = NoDir
      BY <2>2 DEF StoreInv, Held, NothingLeft
    <3> QED
      BY <2>2, <3>1 DEF Catalog
  <2> QED
    BY <2>1, <2>2
<1> QED
  BY <1>1, StoreCorrect, PTL

(* A restored server accepts no agent of the installation it replaces.     *)
THEOREM LostCorrect == Spec => []LostAgentsStayOut
<1>1. StoreInv => LostAgentsStayOut
  BY DEF StoreInv, LostHold, LostAgentsStayOut, Accepted
<1> QED
  BY <1>1, StoreCorrect, PTL
=============================================================================
