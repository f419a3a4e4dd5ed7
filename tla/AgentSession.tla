---------------------------- MODULE AgentSession ----------------------------
(***************************************************************************)
(* One attempt at a task, seen from both ends: the agent of                *)
(* scripts/run_image_task.py, which walks through the steps of a capture   *)
(* or a restoration, its heartbeat thread, and what pyfog/tasking.py and   *)
(* pyfog/api.py make of the requests that arrive.                          *)
(*                                                                         *)
(* The agent sends one request at a time and never sends it again.  When   *)
(* it gives up waiting, the request may be lost, handled already, or       *)
(* handled later, after the failure the agent then reports.                *)
(*                                                                         *)
(* The steps are a constant; AgentScripts has those of the source.  Bytes  *)
(* are counted in chunks, and the total never grows: what the operator saw *)
(* when the task was created is what the agent sends.                      *)
(***************************************************************************)
EXTENDS Integers, Sequences

CONSTANTS Script,   \* Script[s]: the steps after the claim of an agent of kind s
          Lease     \* task_lease_seconds, in ticks

(* The phases these agents use, in the order of PHASE_ORDER.               *)
PhaseOrder == [assigned |-> 1, inspecting |-> 3, freezing |-> 4, capturing |-> 5,
               uploading |-> 6, downloading |-> 6, restoring |-> 7, finalizing |-> 9,
               thawing |-> 10, verifying |-> 12, completed |-> 13, failed |-> 14]
Phase == DOMAIN PhaseOrder

Local == {"check", "freeze", "thaw"}
Step  == [kind : Local \cup {"progress", "upload", "result"}, phase : Phase, bytes : Nat]

ASSUME SessionAssumption ==
  /\ DOMAIN Script \subseteq {"cold", "hot", "restore"}
  /\ \A s \in DOMAIN Script :
       /\ Script[s] \in Seq(Step) /\ Script[s] # <<>>
       /\ \A i \in DOMAIN Script[s] : Script[s][i].kind = "result" <=> i = Len(Script[s])
  /\ Lease \in Nat \ {0}

(* A script that freezes file systems thaws them before its result.        *)
ASSUME ThawAssumption ==
  \A s \in DOMAIN Script : \A i \in DOMAIN Script[s] :
    Script[s][i].kind = "freeze" =>
      \E j \in i + 1 .. Len(Script[s]) : Script[s][j].kind = "thaw"

(* The phase the server is to record for a step.                           *)
PhaseOf(step) ==
  CASE step.kind = "upload" -> "uploading"
    [] step.kind = "result" -> "verifying"
    [] OTHER                -> step.phase

(* The requests of a capture go forward: in their phases, and what one     *)
(* reports is no less than what was reported or uploaded before.           *)
ASSUME CaptureAssumption ==
  \A s \in DOMAIN Script \ {"restore"} : \A i, j \in DOMAIN Script[s] :
    i < j /\ Script[s][i].kind \notin Local /\ Script[s][j].kind \notin Local =>
      /\ PhaseOrder[PhaseOf(Script[s][i])] <= PhaseOrder[PhaseOf(Script[s][j])]
      /\ Script[s][j].kind = "progress" => Script[s][i].bytes <= Script[s][j].bytes

VARIABLES
  pc,        \* the script of the agent and the step it is at
  agent,     \* "working"; "reporting" a failure or a "giving_in" to a
             \* cancellation; "success", "failure", or "dead"
  sequence,  \* the sequence number of its next request
  waiting,   \* whether it waits for an answer
  answer,    \* the answer that has arrived: "none", "ok" or "refused"
  frozen,    \* the file systems: "no", "yes", "stuck" if unfreezing failed,
             \* "missed" if the agent does not know that they are frozen
  heart,     \* LeaseHeartbeat: "beating", "waiting", "cancelled", "failed"
  net,       \* the requests that may still be handled
  status,    \* of the task
  cancelReq, \* cancel_requested_at is set
  row,       \* of the attempt: its phase, bytes, last_sequence and lease
  events,    \* the numbered events of the attempt
  publishing,\* _finish_capture_agent_task is verifying the files
  goneBack   \* touch_attempt has refused a request of the running attempt

agentVars  == <<pc, agent, sequence, frozen>>
serverVars == <<status, cancelReq, row, events, publishing, goneBack>>
vars == <<agentVars, waiting, answer, heart, net, serverVars>>

Leased   == {"assigned", "running", "verifying"}
Terminal == {"succeeded", "failed", "cancelled"}
Status   == Leased \cup Terminal \cup {"intervention_required"}
Ended    == {"success", "failure", "dead"}

Row == [phase : Phase, bytes : Nat, last : Nat, lease : 0 .. Lease]

Now     == Script[pc.script][pc.step]
Capture == pc.script \in {"cold", "hot"}

TypeOK ==
  /\ pc.script \in DOMAIN Script /\ pc.step \in DOMAIN Script[pc.script]
  /\ agent \in {"working", "reporting", "giving_in"} \cup Ended
  /\ sequence \in Nat
  /\ waiting \in BOOLEAN /\ answer \in {"none", "ok", "refused"}
  /\ frozen \in {"no", "yes", "stuck", "missed"}
  /\ heart \in {"beating", "waiting", "cancelled", "failed"}
  /\ \A m \in net : m.kind \in {"progress", "upload", "result", "failure", "heartbeat"}
  /\ status \in Status /\ cancelReq \in BOOLEAN
  /\ row \in Row
  /\ \A e \in events : e.number \in 1 .. row.last
  /\ publishing \in BOOLEAN /\ goneBack \in BOOLEAN

Init ==
  /\ pc \in [script : DOMAIN Script, step : {1}] /\ agent = "working" /\ sequence = 1 /\ frozen = "no"
  /\ waiting = FALSE /\ answer = "none" /\ heart = "beating" /\ net = {}
  /\ status = "assigned" /\ cancelReq = FALSE
  /\ row = [phase |-> "assigned", bytes |-> 0, last |-> 0, lease |-> Lease]
  /\ events = {} /\ publishing = FALSE /\ goneBack = FALSE
-----------------------------------------------------------------------------
(* The agent.                                                              *)

(* The next step of the script.                                            *)
Proceed == pc' = [pc EXCEPT !.step = @ + 1]

(* An exception in the script; the failure is reported with the number of  *)
(* the request that was next.  restore_claimed_task counts for itself: the *)
(* handler of capture_task still has the first number.                     *)
Raise(as) ==
  /\ agent' = as
  /\ sequence' = IF Capture THEN sequence ELSE 1

Send(m) ==
  /\ net' = net \cup {m}
  /\ waiting' = TRUE
  /\ UNCHANGED <<agentVars, answer, heart, serverVars>>

(* json_request and upload_chunk for the step the agent is at.             *)
Request ==
  /\ agent = "working" /\ ~waiting /\ Now.kind \notin Local
  /\ Send([kind |-> Now.kind, phase |-> Now.phase, bytes |-> Now.bytes,
           sequence |-> sequence])

(* Slip: post_progress returns the number it was given.                    *)
SameNumber == sequence

(* The number after a request: only progress counts.                       *)
NumberAfter == IF Now.kind = "progress" THEN sequence + 1 ELSE sequence

(* The answer arrives: the next step, the end, or an exception.            *)
Answered ==
  /\ agent = "working" /\ waiting /\ answer # "none"
  /\ waiting' = FALSE /\ answer' = "none"
  /\ \/ /\ answer = "ok"
        /\ sequence' = NumberAfter
        /\ IF pc.step = Len(Script[pc.script]) THEN agent' = "success" /\ UNCHANGED pc
                                            ELSE Proceed /\ UNCHANGED agent
     \/ answer = "refused" /\ Raise("reporting") /\ UNCHANGED pc
  /\ UNCHANGED <<frozen, heart, net, serverVars>>

(* The answer does not come in time: the request was lost, or is late.     *)
GiveUp ==
  /\ agent = "working" /\ waiting
  /\ waiting' = FALSE /\ answer' = "none"
  /\ Raise("reporting")
  /\ UNCHANGED <<pc, frozen, heart, net, serverVars>>

(* LeaseHeartbeat.check.                                                   *)
Check ==
  /\ agent = "working" /\ Now.kind = "check"
  /\ \/ heart = "cancelled" /\ Raise("giving_in") /\ UNCHANGED pc
     \/ heart = "failed" /\ Raise("reporting") /\ UNCHANGED pc
     \/ heart \in {"beating", "waiting"} /\ Proceed /\ UNCHANGED <<agent, sequence>>
  /\ UNCHANGED <<waiting, answer, frozen, heart, net, serverVars>>

(* freeze_filesystems thaws what it froze before it fails; if that does    *)
(* not work either, a file system stays as it is.  One whose fsfreeze took *)
(* effect and yet timed out or reported a failure is not in its list, nor  *)
(* in that of the finally clause.                                          *)
Freeze ==
  /\ agent = "working" /\ Now.kind = "freeze"
  /\ \/ frozen' = "yes" /\ Proceed /\ UNCHANGED <<agent, sequence>>
     \/ frozen' \in {"no", "stuck", "missed"} /\ Raise("reporting") /\ UNCHANGED pc
  /\ UNCHANGED <<waiting, answer, heart, net, serverVars>>

(* thaw_filesystems at the end of the transfer; the command that fails or  *)
(* times out may have had its effect.                                      *)
Thaw ==
  /\ agent = "working" /\ Now.kind = "thaw"
  /\ \/ frozen' = "no" /\ Proceed /\ UNCHANGED <<agent, sequence>>
     \/ frozen' \in {frozen, "no"} /\ Raise("reporting") /\ UNCHANGED pc
  /\ UNCHANGED <<waiting, answer, heart, net, serverVars>>

(* A command on the disk fails, anywhere between two requests.             *)
Break ==
  /\ agent = "working" /\ ~waiting /\ Raise("reporting")
  /\ UNCHANGED <<pc, waiting, answer, frozen, heart, net, serverVars>>

(* Slip: the file systems are thawed on the way to success only.           *)
NoFinally == UNCHANGED frozen

(* The finally clause of capture_task.                                     *)
Finally == frozen' \in IF frozen = "yes" THEN {"no", "stuck"} ELSE {frozen}

(* The except clause of capture_task: the failure or the acknowledged      *)
(* cancellation is sent, whatever becomes of it, and the agent ends.       *)
Report ==
  /\ agent \in {"reporting", "giving_in"}
  /\ net' = net \cup {[kind |-> "failure", sequence |-> sequence,
                       cancelled |-> agent = "giving_in"]}
  /\ agent' = "failure"
  /\ Finally
  /\ UNCHANGED <<pc, sequence, waiting, answer, heart, serverVars>>

(* The machine is switched off.                                            *)
Die ==
  /\ agent \notin Ended
  /\ agent' = "dead" /\ waiting' = FALSE /\ answer' = "none"
  /\ UNCHANGED <<pc, sequence, frozen, heart, net, serverVars>>

(* LeaseHeartbeat._run.                                                    *)
Beat ==
  /\ agent \notin Ended /\ heart = "beating"
  /\ heart' = "waiting"
  /\ net' = net \cup {[kind |-> "heartbeat"]}
  /\ UNCHANGED <<agentVars, waiting, answer, serverVars>>
BeatLost ==
  /\ agent \notin Ended /\ heart = "waiting"
  /\ heart' = "failed"
  /\ UNCHANGED <<agentVars, waiting, answer, net, serverVars>>

Agent ==
  Request \/ Answered \/ GiveUp \/ Check \/ Freeze \/ Thaw \/ Break \/ Report \/ Beat \/ BeatLost
-----------------------------------------------------------------------------
(* The server.                                                             *)

(* task_attempt_for_token lets a request through, or refuses it; one that  *)
(* comes after the lease, before anybody noticed, is Expire first.         *)
Live == status \in Leased /\ row.lease > 0
Gone == status \notin Leased

(* What the agent gets, if it still waits for the answer to m.             *)
Reply(m, result) ==
  /\ net' = net \ {m}
  /\ answer' = IF waiting /\ m.kind = Now.kind THEN result ELSE answer
  /\ UNCHANGED <<agentVars, waiting>>
ReplyBeat(m, result) ==
  /\ net' = net \ {m}
  /\ heart' = IF heart = "waiting" THEN result ELSE heart
  /\ UNCHANGED <<agentVars, waiting, answer>>

(* Slip: the last number is used again.                                    *)
SameEvent == row.last

(* The number of an event the server itself adds.                          *)
NextEvent == row.last + 1

(* touch_attempt: neither the phase nor the bytes go back.                 *)
Touchable(phase, bytes) ==
  PhaseOrder[phase] >= PhaseOrder[row.phase] /\ bytes >= row.bytes
Touched(phase, bytes) == [row EXCEPT !.phase = phase, !.bytes = bytes, !.lease = Lease]
StatusAfter(phase) ==
  LET started == IF status = "assigned" /\ ~cancelReq THEN "running" ELSE status
  IN IF started = "running" /\ phase = "verifying" THEN "verifying" ELSE started

(* heartbeat_agent_task: the phase and the bytes of the row itself.        *)
HandleBeat(m) ==
  /\ m.kind = "heartbeat"
  /\ \/ /\ Live
        /\ row' = Touched(row.phase, row.bytes)
        /\ status' = StatusAfter("assigned")
        /\ ReplyBeat(m, IF cancelReq THEN "cancelled" ELSE "beating")
     \/ Gone /\ ReplyBeat(m, "failed") /\ UNCHANGED <<status, row>>
  /\ UNCHANGED <<cancelReq, events, publishing, goneBack>>

(* Slip: the bytes are those of the chunk, not the most seen so far.       *)
ChunkBytes(m) == m.bytes

(* The bytes of the attempt after a chunk: artifacts are not added up.     *)
UploadedBytes(m) == IF m.bytes > row.bytes THEN m.bytes ELSE row.bytes

(* What touch_attempt refuses for going back.                              *)
GoesBack(m) ==
  \/ m.kind = "progress" /\ m.sequence > row.last /\ ~Touchable(m.phase, m.bytes)
  \/ m.kind = "upload" /\ ~Touchable("uploading", UploadedBytes(m))
  \/ m.kind = "result" /\ m.sequence > row.last /\ ~Touchable("verifying", row.bytes)

(* A request that finds no running attempt, or that touch_attempt refuses. *)
Refused(m) ==
  /\ m.kind # "heartbeat"
  /\ Gone \/ (Live /\ GoesBack(m))
  /\ m.kind = "result" => ~publishing
  /\ Reply(m, "refused")
  /\ goneBack' = (goneBack \/ Live)
  /\ UNCHANGED <<heart, status, cancelReq, row, events, publishing>>

(* progress_agent_task: a number is recorded once, and sent again in vain. *)
HandleProgress(m) ==
  /\ m.kind = "progress" /\ Live /\ ~GoesBack(m)
  /\ IF m.sequence > row.last
     THEN /\ row' = [Touched(m.phase, m.bytes) EXCEPT !.last = m.sequence]
          /\ status' = StatusAfter(m.phase)
          /\ events' = events \cup {[number |-> m.sequence, type |-> "progress"]}
     ELSE UNCHANGED <<row, status, events>>
  /\ Reply(m, "ok")
  /\ UNCHANGED <<heart, cancelReq, publishing, goneBack>>

(* upload_task_artifact.                                                   *)
HandleUpload(m) ==
  /\ m.kind = "upload" /\ Live /\ ~GoesBack(m)
  /\ row' = Touched("uploading", UploadedBytes(m))
  /\ status' = StatusAfter("uploading")
  /\ Reply(m, "ok")
  /\ UNCHANGED <<heart, cancelReq, events, publishing, goneBack>>

(* An event of the server ends the attempt.                                *)
End(to, phase, type) ==
  /\ status' = to
  /\ row' = [row EXCEPT !.phase = phase, !.last = NextEvent]
  /\ events' = events \cup {[number |-> NextEvent, type |-> type]}

(* acknowledge_task_cancellation.                                          *)
Acknowledge(m) ==
  /\ m.kind \in {"result", "failure"} /\ Live /\ cancelReq
  /\ m.kind = "result" => ~publishing
  /\ End("cancelled", "failed", "cancelled")
  /\ Reply(m, "ok")
  /\ UNCHANGED <<heart, cancelReq, publishing, goneBack>>

(* Slip: the event is added whatever its number.                           *)
ErrorAnyway(number) == {[number |-> number, type |-> "error"]}

(* fail_agent_task: the event is left out if its number is not a new one.  *)
FailedRow(number) ==
  [row EXCEPT !.phase = "failed", !.last = IF number > @ THEN number ELSE @]
ErrorEvent(number) ==
  IF number > row.last THEN {[number |-> number, type |-> "error"]} ELSE {}
HandleFailure(m) ==
  /\ m.kind = "failure" /\ Live /\ ~cancelReq
  /\ status' = "failed"
  /\ row' = FailedRow(m.sequence)
  /\ events' = events \cup ErrorEvent(m.sequence)
  /\ Reply(m, "ok")
  /\ UNCHANGED <<heart, cancelReq, publishing, goneBack>>

(* finish_agent_task with a success, whose number must be a new one: a     *)
(* restoration has succeeded; the files of a capture are verified next,    *)
(* and the answer comes after that.                                        *)
Captured(m) ==
  /\ status' = "verifying"
  /\ row' = [Touched("verifying", row.bytes) EXCEPT !.last = m.sequence]
  /\ events' = events \cup {[number |-> m.sequence, type |-> "progress"]}
  /\ publishing' = TRUE
  /\ UNCHANGED <<agentVars, waiting, answer, net>>
Restored(m) ==
  /\ status' = "succeeded"
  /\ row' = [Touched("completed", row.bytes) EXCEPT !.last = m.sequence + 1]
  /\ events' = events \cup {[number |-> m.sequence, type |-> "progress"],
                            [number |-> m.sequence + 1, type |-> "completed"]}
  /\ Reply(m, "ok") /\ UNCHANGED publishing
HandleSuccess(m) ==
  /\ m.kind = "result" /\ Live /\ ~cancelReq /\ ~publishing /\ ~GoesBack(m)
  /\ CASE m.sequence <= row.last -> Reply(m, "ok") /\ UNCHANGED <<row, status, events, publishing>>
       [] m.sequence > row.last /\ Capture -> Captured(m)
       [] m.sequence > row.last /\ ~Capture -> Restored(m)
  /\ UNCHANGED <<heart, cancelReq, goneBack>>

(* The files are published, on the task row read before; its answer.       *)
Published ==
  /\ publishing /\ publishing' = FALSE
  /\ End("succeeded", "completed", "completed")
  /\ \E m \in net : m.kind = "result" /\ Reply(m, "ok")
  /\ UNCHANGED <<heart, cancelReq, goneBack>>

(* Or they are not: the failure has the number after the result's.         *)
Unpublished ==
  /\ publishing /\ publishing' = FALSE
  /\ \E m \in net :
       /\ m.kind = "result" /\ Reply(m, "ok")
       /\ row' = FailedRow(m.sequence + 1)
       /\ events' = events \cup ErrorEvent(m.sequence + 1)
  /\ status' = "failed"
  /\ UNCHANGED <<heart, cancelReq, goneBack>>

(* request_task_cancellation of a held task.                               *)
Cancel ==
  /\ status \in Leased /\ ~cancelReq
  /\ cancelReq' = TRUE
  /\ UNCHANGED <<agentVars, waiting, answer, heart, net, status, row, events,
                 publishing, goneBack>>

(* Slip: a task that is verifying is thought to need no agent.             *)
StaleNotVerifying == status \in {"assigned", "running"} /\ row.lease = 0

(* expire_stale_tasks.                                                     *)
Stale == status \in Leased /\ row.lease = 0
Expire ==
  /\ Stale
  /\ status' = "intervention_required"
  /\ row' = [row EXCEPT !.phase = "failed", !.last = NextEvent]
  /\ events' = events \cup {[number |-> NextEvent, type |-> "lease_expired"]}
  /\ UNCHANGED <<agentVars, waiting, answer, heart, net, cancelReq, publishing, goneBack>>

Tick ==
  /\ row.lease > 0 /\ row' = [row EXCEPT !.lease = @ - 1]
  /\ UNCHANGED <<agentVars, waiting, answer, heart, net, status, cancelReq, events,
                 publishing, goneBack>>

Handle ==
  \E m \in net :
    \/ HandleBeat(m) \/ HandleProgress(m) \/ HandleUpload(m) \/ Acknowledge(m)
    \/ HandleFailure(m) \/ HandleSuccess(m) \/ Refused(m)

Server == Handle \/ Published \/ Unpublished \/ Expire

Next == Agent \/ Die \/ Server \/ Cancel \/ Tick

Spec == Init /\ [][Next]_vars

(* The commands of the agent end, and so does its patience (30 or 60       *)
(* seconds for a request); leases run out, and some view or claim notices. *)
(* Nothing is assumed of the network, the heartbeats or the publication.   *)
Main == Request \/ Answered \/ GiveUp \/ Check \/ Freeze \/ Thaw \/ Report
FairSpec == Spec /\ WF_vars(Main) /\ WF_vars(Tick) /\ WF_vars(Expire)
-----------------------------------------------------------------------------
(* Properties.                                                             *)

(* A request of a capture whose attempt is running is never refused for    *)
(* going back: the phases and bytes it sends, the bytes of its uploads and *)
(* the heartbeats in between always fit what touch_attempt has recorded.   *)
CapturesNeverGoBack == Capture => ~goneBack

(* docs/guia-es.md: a restoration downloads, verifies, restores and then   *)
(* reports success.  So its progress has to be accepted, too.              *)
RestorationsNeverGoBack == ~Capture => ~goneBack

(* Progress is numbered by the agent, the last events by the server: their *)
(* numbers never meet, also when a request overtakes the failure that was  *)
(* reported for it (uq_task_events_attempt_sequence would refuse it).      *)
EventsNumberedOnce == \A e, f \in events : e.number = f.number => e = f

(* An agent reports a hot capture as done only after every file system has *)
(* been thawed; and however a capture fails, none that the agent knows to  *)
(* be frozen is left without an attempt to thaw it.                        *)
NotLeftFrozen ==
  /\ agent = "success" => frozen = "no"
  /\ agent = "failure" => frozen # "yes"

(* docs/roadmap.md: a thaw is guaranteed.  It is not for a file system     *)
(* that the agent took for not frozen: see the README.                     *)
ThawAttempted == agent = "failure" => frozen \in {"no", "stuck"}

(* An agent that tells its machine that the task is done has ended it: it  *)
(* is not waiting for that agent any more.                                 *)
SuccessIsFinal == agent = "success" => status \in Terminal

(* Whatever is lost and whoever dies, the task does not stay with an agent *)
(* for ever.                                                               *)
TaskIsReleased == <>(status \notin Leased)
=============================================================================
