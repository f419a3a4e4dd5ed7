------------------------- MODULE AgentSessionProofs -------------------------
(***************************************************************************)
(* Proofs about AgentSession, for every script that keeps the assumptions  *)
(* of the module and every lease.                                          *)
(***************************************************************************)
EXTENDS AgentSession, SequenceTheorems, TLAPS

(* The steps the agent still has to take.                                  *)
Rest == pc.step .. Len(Script[pc.script])

(* The agent's side: it waits for the answer of a request it sent, and     *)
(* only while it works.                                                    *)
AgentSide ==
  /\ pc \in [script : DOMAIN Script, step : Nat \ {0}] /\ pc.step <= Len(Script[pc.script])
  /\ agent \in {"working", "reporting", "giving_in"} \cup Ended
  /\ sequence \in Nat \ {0}
  /\ waiting \in BOOLEAN /\ answer \in {"none", "ok", "refused"}
  /\ frozen \in {"no", "yes", "stuck", "missed"}
  /\ heart \in {"beating", "waiting", "cancelled", "failed"}
  /\ waiting => agent = "working" /\ Now.kind \notin Local
  /\ answer # "none" => waiting

(* The requests under way and the rows of the server.  A request other     *)
(* than a heartbeat has a number.                                          *)
Numbered == {m \in net : m.kind # "heartbeat"}
Requests == {m \in net : m.kind \in {"progress", "upload", "result"}}
ServerSide ==
  /\ \A m \in net : m.kind \in {"progress", "upload", "result", "failure", "heartbeat"}
  /\ \A m \in Numbered : m.sequence \in Nat \ {0}
  /\ \A m \in Requests : m.phase \in Phase /\ m.bytes \in Nat
  /\ status \in Status /\ cancelReq \in BOOLEAN
  /\ row \in Row
  /\ publishing \in BOOLEAN /\ goneBack \in BOOLEAN

(* The script at the step of the agent.                                    *)
LEMMA NowIs ==
  ASSUME AgentSide
  PROVE  /\ pc.script \in DOMAIN Script /\ Script[pc.script] \in Seq(Step)
         /\ Len(Script[pc.script]) \in Nat
         /\ DOMAIN Script[pc.script] = 1 .. Len(Script[pc.script])
         /\ pc.step \in DOMAIN Script[pc.script] /\ pc.step \in Nat \ {0}
         /\ Now \in Step /\ (Now.kind = "result" <=> pc.step = Len(Script[pc.script]))
<1>1. pc.script \in DOMAIN Script /\ pc.step \in Nat \ {0} /\ pc.step <= Len(Script[pc.script])
  BY DEF AgentSide
<1>2. Script[pc.script] \in Seq(Step)
  BY <1>1, SessionAssumption
<1>3. /\ Len(Script[pc.script]) \in Nat
      /\ DOMAIN Script[pc.script] = 1 .. Len(Script[pc.script])
  BY <1>2, LenProperties
<1>4. pc.step \in 1 .. Len(Script[pc.script])
  BY <1>1, <1>3
<1>5. Now \in Step
  BY <1>2, <1>4, ElementOfSeq DEF Now
<1>6. Now.kind = "result" <=> pc.step = Len(Script[pc.script])
  BY <1>1, <1>3, <1>4, SessionAssumption DEF Now
<1> QED
  BY <1>1, <1>2, <1>3, <1>4, <1>5, <1>6

(* A script goes on after every step but the result.                       *)
LEMMA Proceeds ==
  ASSUME AgentSide, Now.kind # "result", Proceed
  PROVE  /\ pc' \in [script : DOMAIN Script, step : Nat \ {0}]
         /\ pc'.script = pc.script /\ pc'.step = pc.step + 1
         /\ pc'.step <= Len(Script[pc'.script])
<1>1. pc.step # Len(Script[pc.script]) /\ pc.step <= Len(Script[pc.script])
  BY NowIs DEF AgentSide
<1>2. pc' \in [script : DOMAIN Script, step : Nat \ {0}] /\ pc'.script = pc.script /\ pc'.step = pc.step + 1
  BY DEF Proceed, AgentSide
<1> QED
  BY <1>1, <1>2, NowIs

(* The three cases of a success.                                           *)
LEMMA SuccessCases ==
  ASSUME ServerSide, NEW m \in net, HandleSuccess(m)
  PROVE  \/ m.sequence <= row.last /\ Reply(m, "ok") /\ UNCHANGED <<row, status, events, publishing>>
         \/ m.sequence > row.last /\ Capture /\ Captured(m)
         \/ m.sequence > row.last /\ ~Capture /\ Restored(m)
<1>1. m.sequence \in Nat /\ row.last \in Nat
  BY DEF HandleSuccess, ServerSide, Numbered, Row
<1>2. CASE m.sequence <= row.last
  BY <1>1, <1>2 DEF HandleSuccess, Reply, Captured, Restored
<1>3. CASE m.sequence > row.last /\ Capture
  BY <1>1, <1>3 DEF HandleSuccess, Reply, Captured, Restored
<1>4. CASE m.sequence > row.last /\ ~Capture
  BY <1>1, <1>4 DEF HandleSuccess, Reply, Captured, Restored
<1> QED
  BY <1>1, <1>2, <1>3, <1>4

(* What the server and the operator change on the agent's side: one answer *)
(* may arrive, and its request is handled then.                            *)
LEMMA ServerKeeps ==
  ASSUME ServerSide, Server \/ Cancel \/ Tick
  PROVE  /\ UNCHANGED <<agentVars, waiting>> /\ net' \subseteq net
         /\ \/ answer' = answer
            \/ /\ waiting /\ answer' \in {"ok", "refused"}
               /\ \E m \in net : m.kind = Now.kind /\ net' = net \ {m}
         /\ heart' \in {heart, "cancelled", "beating", "failed"}
<1>1. ASSUME NEW m \in net, NEW result \in {"ok", "refused"}, Reply(m, result), UNCHANGED heart
      PROVE  /\ UNCHANGED <<agentVars, waiting>> /\ net' \subseteq net
             /\ \/ answer' = answer
                \/ /\ waiting /\ answer' \in {"ok", "refused"}
                   /\ \E n \in net : n.kind = Now.kind /\ net' = net \ {n}
             /\ heart' \in {heart, "cancelled", "beating", "failed"}
  BY <1>1 DEF Reply
<1>2. CASE Cancel \/ Tick \/ Expire
  BY <1>2 DEF Cancel, Tick, Expire
<1>3. CASE Published \/ Unpublished
  BY <1>1, <1>3 DEF Published, Unpublished
<1>4. ASSUME NEW m \in net, HandleBeat(m)
      PROVE  UNCHANGED <<agentVars, waiting, answer>> /\ net' \subseteq net
             /\ heart' \in {heart, "cancelled", "beating", "failed"}
  BY <1>4 DEF HandleBeat, ReplyBeat
<1>5. ASSUME NEW m \in net,
             HandleProgress(m) \/ HandleUpload(m) \/ Acknowledge(m) \/ HandleFailure(m) \/ Refused(m)
      PROVE  (\E result \in {"ok", "refused"} : Reply(m, result)) /\ UNCHANGED heart
  BY <1>5 DEF HandleProgress, HandleUpload, Acknowledge, HandleFailure, Refused
<1>6. ASSUME NEW m \in net, HandleSuccess(m)
      PROVE  \/ Reply(m, "ok") /\ UNCHANGED heart
             \/ UNCHANGED <<agentVars, waiting, answer, net, heart>>
  BY <1>6, SuccessCases DEF HandleSuccess, Captured, Restored
<1> QED
  BY <1>1, <1>2, <1>3, <1>4, <1>5, <1>6 DEF Server, Handle

LEMMA AgentSideInit == Init => AgentSide
<1> SUFFICES ASSUME Init PROVE AgentSide
  OBVIOUS
<1>1. pc.script \in DOMAIN Script /\ pc.step = 1 /\ pc \in [script : DOMAIN Script, step : Nat \ {0}]
  BY DEF Init
<1>2. Script[pc.script] \in Seq(Step) /\ Script[pc.script] # <<>>
  BY <1>1, SessionAssumption
<1>3. 1 <= Len(Script[pc.script])
  BY <1>2, EmptySeq
<1> QED
  BY <1>1, <1>3 DEF Init, AgentSide

LEMMA AgentSideStep == AgentSide /\ ServerSide /\ [Next]_vars => AgentSide'
<1> SUFFICES ASSUME AgentSide, ServerSide, [Next]_vars PROVE AgentSide'
  OBVIOUS
<1>0. UNCHANGED pc => Now' = Now
  BY DEF Now
<1>10. NumberAfter \in Nat \ {0} /\ 1 \in Nat \ {0}
  BY DEF AgentSide, NumberAfter
<1>11. ASSUME pc' \in [script : DOMAIN Script, step : Nat \ {0}], pc'.step <= Len(Script[pc'.script]),
             agent' \in {"working", "reporting", "giving_in"} \cup Ended,
             sequence' \in Nat \ {0}, waiting' = FALSE, answer' = "none",
             frozen' \in {"no", "yes", "stuck", "missed"}, UNCHANGED heart
      PROVE  AgentSide'
  BY <1>11 DEF AgentSide, Ended
<1>1. CASE Request
  BY <1>1, <1>0 DEF Request, Send, AgentSide, agentVars
<1>2. CASE Answered
  <2>1. CASE answer = "ok" /\ pc.step # Len(Script[pc.script])
    <3>1. Proceed /\ UNCHANGED <<agent, frozen, heart>> /\ sequence' = NumberAfter /\ waiting' = FALSE /\ answer' = "none"
      BY <1>2, <2>1 DEF Answered
    <3>2. pc' \in [script : DOMAIN Script, step : Nat \ {0}] /\ pc'.step <= Len(Script[pc'.script])
      BY <2>1, <3>1, Proceeds, NowIs
    <3> QED
      BY <1>10, <1>11, <3>1, <3>2 DEF AgentSide
  <2>2. CASE ~(answer = "ok" /\ pc.step # Len(Script[pc.script]))
    <3>1. /\ UNCHANGED <<pc, frozen, heart>> /\ sequence' \in {NumberAfter, sequence, 1}
          /\ waiting' = FALSE /\ answer' = "none" /\ agent' \in {"success", "reporting"}
      BY <1>2, <2>2 DEF Answered, Raise
    <3> QED
      BY <1>10, <1>11, <3>1 DEF AgentSide, Ended
  <2> QED
    BY <2>1, <2>2
<1>3. CASE GiveUp \/ Break
  <2>1. /\ UNCHANGED <<pc, frozen, heart>> /\ sequence' \in {sequence, 1}
        /\ waiting' = FALSE /\ answer' = "none" /\ agent' = "reporting"
    BY <1>3 DEF GiveUp, Break, Raise, AgentSide
  <2> QED
    BY <1>10, <1>11, <2>1 DEF AgentSide
<1>4. CASE Check \/ Freeze \/ Thaw
  <2>1. /\ UNCHANGED <<waiting, answer, heart>> /\ Now.kind \in Local /\ frozen' \in {"no", "yes", "stuck", "missed"}
        /\ \/ Proceed /\ UNCHANGED <<agent, sequence>>
           \/ UNCHANGED pc /\ agent' \in {"reporting", "giving_in"} /\ sequence' \in {sequence, 1}
    BY <1>4 DEF Check, Freeze, Thaw, Raise, Local, AgentSide
  <2>2. ~waiting /\ answer = "none" /\ Now.kind # "result"
    BY <2>1 DEF AgentSide, Local
  <2>3. CASE Proceed /\ UNCHANGED <<agent, sequence>>
    BY <1>11, <2>1, <2>2, <2>3, Proceeds DEF AgentSide
  <2>4. CASE UNCHANGED pc /\ agent' \in {"reporting", "giving_in"} /\ sequence' \in {sequence, 1}
    BY <1>10, <1>11, <2>1, <2>2, <2>4 DEF AgentSide
  <2> QED
    BY <2>1, <2>3, <2>4
<1>5. CASE Report
  <2>1. ~waiting /\ answer = "none"
    BY <1>5 DEF Report, AgentSide
  <2>2. frozen' \in {"no", "yes", "stuck", "missed"}
    BY <1>5 DEF Report, Finally, AgentSide
  <2> QED
    BY <1>5, <1>11, <2>1, <2>2 DEF Report, AgentSide, Ended
<1>6. CASE Die
  BY <1>6, <1>11 DEF Die, AgentSide, Ended
<1>7. CASE Beat \/ BeatLost
  BY <1>0, <1>7 DEF Beat, BeatLost, AgentSide, agentVars
<1>8. CASE Server \/ Cancel \/ Tick
  BY <1>0, <1>8, ServerKeeps DEF AgentSide, agentVars
<1>9. CASE UNCHANGED vars
  BY <1>0, <1>9 DEF vars, agentVars, AgentSide
<1> QED
  BY <1>1, <1>2, <1>3, <1>4, <1>5, <1>6, <1>7, <1>8, <1>9 DEF Next, Agent
-----------------------------------------------------------------------------
(* The requests and the server's rows keep their types.                    *)

(* A request is added by Request alone, with the number and the step the   *)
(* agent is at; a report and a heartbeat are none.                         *)
LEMMA RequestsGrow ==
  ASSUME AgentSide, Agent \/ Die
  PROVE  /\ UNCHANGED serverVars
         /\ ~Request => Requests' = Requests
         /\ Request => Requests' = Requests \cup
              {[kind |-> Now.kind, phase |-> Now.phase, bytes |-> Now.bytes, sequence |-> sequence]}
<1>1. CASE Request
  <2>1. Now.kind \in {"progress", "upload", "result"}
    BY <1>1, NowIs DEF Request, Step, Local
  <2> QED
    BY <1>1, <2>1 DEF Request, Send, Requests, serverVars
<1>2. CASE Report
  BY <1>2 DEF Report, Request, Requests, serverVars
<1>3. CASE Beat
  BY <1>3 DEF Beat, Request, Requests, serverVars, Send
<1>4. CASE Answered \/ GiveUp \/ Check \/ Freeze \/ Thaw \/ Break \/ BeatLost \/ Die
  BY <1>4 DEF Answered, GiveUp, Check, Freeze, Thaw, Break, BeatLost, Die, Request, Requests,
              serverVars, Send
<1> QED
  BY <1>1, <1>2, <1>3, <1>4 DEF Agent

LEMMA ServerRows ==
  ASSUME ServerSide, Server \/ Cancel \/ Tick
  PROVE  /\ status' \in Status /\ cancelReq' \in BOOLEAN
         /\ row' \in Row
         /\ publishing' \in BOOLEAN /\ goneBack' \in BOOLEAN
<1> USE DEF Row
<1>1. /\ status \in Status /\ cancelReq \in BOOLEAN /\ row \in Row
      /\ publishing \in BOOLEAN /\ goneBack \in BOOLEAN
  BY DEF ServerSide
<1>2. Lease \in 0 .. Lease /\ {"assigned", "uploading", "verifying", "completed", "failed"} \subseteq Phase
  BY SessionAssumption DEF Phase, PhaseOrder
<1>3. ASSUME NEW p \in Phase, NEW b \in Nat
      PROVE  Touched(p, b) \in Row /\ StatusAfter(p) \in Status
  BY <1>1, <1>2 DEF Touched, StatusAfter, Status, Leased
<1>4. row.phase \in Phase /\ row.bytes \in Nat /\ row.last \in Nat /\ row.lease \in 0 .. Lease
  BY <1>1
<1>5. ASSUME NEW n \in Nat
      PROVE  FailedRow(n) \in Row
  BY <1>1, <1>2 DEF FailedRow
<1>6. ASSUME NEW p \in Phase, NEW n \in Nat, NEW r \in Row
      PROVE  /\ [r EXCEPT !.last = n] \in Row
             /\ [r EXCEPT !.phase = p, !.last = n] \in Row
  OBVIOUS
<1>7. ASSUME NEW to \in Status, NEW p \in Phase, NEW type, End(to, p, type)
      PROVE  status' \in Status /\ row' \in Row
  <2>1. NextEvent \in Nat
    BY <1>4 DEF NextEvent
  <2> QED
    BY <1>1, <1>6, <1>7, <2>1 DEF End
<1>8. CASE Cancel
  BY <1>1, <1>8 DEF Cancel
<1>9. CASE Tick
  <2>1. row.lease - 1 \in 0 .. Lease
    BY <1>4, <1>9, SessionAssumption DEF Tick
  <2>2. row' = [row EXCEPT !.lease = row.lease - 1]
    BY <1>9 DEF Tick
  <2>3. row' \in Row
    BY <1>1, <2>1, <2>2
  <2> QED
    BY <1>1, <1>9, <2>3 DEF Tick
<1>10. CASE Expire
  <2>1. NextEvent \in Nat
    BY <1>4 DEF NextEvent
  <2> QED
    BY <1>1, <1>2, <1>6, <1>10, <2>1 DEF Expire, Status
<1>11. CASE Published
  <2>1. End("succeeded", "completed", "completed") /\ publishing' = FALSE /\ UNCHANGED <<cancelReq, goneBack>>
    BY <1>11 DEF Published
  <2> QED
    BY <1>1, <1>2, <1>7, <2>1 DEF Status, Terminal
<1>12. CASE Unpublished
  <2>1. PICK m \in net : m.kind = "result" /\ row' = FailedRow(m.sequence + 1)
    BY <1>12 DEF Unpublished
  <2>2. m.sequence + 1 \in Nat
    BY <2>1 DEF ServerSide, Numbered
  <2> QED
    BY <1>1, <1>5, <1>12, <2>1, <2>2 DEF Unpublished, Status, Terminal
<1>13. CASE Handle
  <2>1. PICK m \in net : \/ HandleBeat(m) \/ HandleProgress(m) \/ HandleUpload(m) \/ Acknowledge(m)
                         \/ HandleFailure(m) \/ HandleSuccess(m) \/ Refused(m)
    BY <1>13 DEF Handle
  <2>2. m.kind # "heartbeat" => m.sequence \in Nat /\ m.sequence + 1 \in Nat
    BY DEF ServerSide, Numbered
  <2>3. m.kind \in {"progress", "upload", "result"} => m.phase \in Phase /\ m.bytes \in Nat
    BY DEF ServerSide, Requests
  <2>4. CASE HandleBeat(m)
    BY <1>1, <1>2, <1>3, <1>4, <2>4 DEF HandleBeat
  <2>5. CASE HandleProgress(m)
    <3>1. Touched(m.phase, m.bytes) \in Row /\ StatusAfter(m.phase) \in Status /\ m.sequence \in Nat
      BY <1>3, <2>2, <2>3, <2>5 DEF HandleProgress
    <3>2. [Touched(m.phase, m.bytes) EXCEPT !.last = m.sequence] \in Row
      BY <3>1
    <3>3. row' \in Row /\ status' \in Status
      BY <1>1, <2>5, <3>1, <3>2 DEF HandleProgress
    <3> QED
      BY <1>1, <2>5, <3>3 DEF HandleProgress
  <2>6. CASE HandleUpload(m)
    <3>1. UploadedBytes(m) \in Nat
      BY <1>4, <2>3, <2>6 DEF HandleUpload, UploadedBytes
    <3> QED
      BY <1>1, <1>2, <1>3, <2>6, <3>1 DEF HandleUpload
  <2>7. CASE Acknowledge(m)
    BY <1>1, <1>2, <1>7, <2>7 DEF Acknowledge, Status, Terminal
  <2>8. CASE HandleFailure(m)
    BY <1>1, <1>5, <2>2, <2>8 DEF HandleFailure, Status, Terminal
  <2>9. CASE HandleSuccess(m)
    <3>1. m.kind = "result" /\ UNCHANGED <<cancelReq, goneBack>>
      BY <2>9 DEF HandleSuccess
    <3>2. \/ UNCHANGED <<row, status, publishing>>
          \/ Captured(m)
          \/ Restored(m)
      BY <2>9, SuccessCases
    <3> QED
      BY <1>1, <1>2, <1>3, <1>4, <1>6, <2>2, <3>1, <3>2 DEF Captured, Restored, Status, Terminal, Leased
  <2>10. CASE Refused(m)
    BY <1>1, <2>10 DEF Refused
  <2> QED
    BY <2>1, <2>4, <2>5, <2>6, <2>7, <2>8, <2>9, <2>10
<1> QED
  BY <1>8, <1>9, <1>10, <1>11, <1>12, <1>13 DEF Server

LEMMA ServerSideStep == AgentSide /\ ServerSide /\ [Next]_vars => ServerSide'
<1> SUFFICES ASSUME AgentSide, ServerSide, [Next]_vars PROVE ServerSide'
  OBVIOUS
<1>1. CASE Server \/ Cancel \/ Tick
  <2>1. net' \subseteq net
    BY <1>1, ServerKeeps
  <2>2. Numbered' \subseteq Numbered /\ Requests' \subseteq Requests
    BY <2>1 DEF Numbered, Requests
  <2> QED
    BY <1>1, <2>1, <2>2, ServerRows DEF ServerSide
<1>2. CASE Agent \/ Die
  <2>1. UNCHANGED serverVars
    BY <1>2, RequestsGrow
  <2>2. \A m \in Requests' : m.phase \in Phase /\ m.bytes \in Nat
    <3>1. Now.phase \in Phase /\ Now.bytes \in Nat
      BY NowIs DEF Step
    <3> QED
      BY <1>2, <3>1, RequestsGrow DEF ServerSide
  <2>3. \A m \in net' : m \in net \/ m.kind = "heartbeat"
                         \/ (m.kind \in {"progress", "upload", "result", "failure"} /\ m.sequence = sequence)
    <3>1. CASE Request
      BY <3>1, NowIs DEF Request, Send, Step, Local
    <3>2. CASE Report
      BY <3>2 DEF Report
    <3>3. CASE Beat
      BY <3>3 DEF Beat
    <3>4. CASE Answered \/ GiveUp \/ Check \/ Freeze \/ Thaw \/ Break \/ BeatLost \/ Die
      BY <3>4 DEF Answered, GiveUp, Check, Freeze, Thaw, Break, BeatLost, Die
    <3> QED
      BY <1>2, <3>1, <3>2, <3>3, <3>4 DEF Agent
  <2>4. /\ \A m \in net' : m.kind \in {"progress", "upload", "result", "failure", "heartbeat"}
        /\ \A m \in Numbered' : m.sequence \in Nat \ {0}
    BY <2>3 DEF ServerSide, Numbered, AgentSide
  <2> QED
    BY <2>1, <2>2, <2>4 DEF ServerSide, serverVars
<1>3. CASE UNCHANGED vars
  BY <1>3 DEF ServerSide, vars, serverVars, Numbered, Requests
<1> QED
  BY <1>1, <1>2, <1>3 DEF Next
-----------------------------------------------------------------------------
(* Requests and answers.                                                   *)

(* The agent has at most one request under way, for the step it is at, and *)
(* none unless it waits for the answer or has given up.                    *)
RequestsMatch ==
  /\ \A m \in Requests : m.kind = Now.kind /\ m.phase = Now.phase /\ m.bytes = Now.bytes
  /\ \A m, n \in Requests : m = n
  /\ agent = "working" /\ (~waiting \/ answer # "none") => Requests = {}
  /\ agent = "working" => \A m \in Requests : m.sequence = sequence

LEMMA RequestsMatchStep == AgentSide /\ ServerSide /\ RequestsMatch /\ [Next]_vars => RequestsMatch'
<1> SUFFICES ASSUME AgentSide, ServerSide, RequestsMatch, [Next]_vars PROVE RequestsMatch'
  OBVIOUS
<1>1. UNCHANGED pc => Now' = Now
  BY DEF Now
<1>2. CASE Server \/ Cancel \/ Tick
  <2>1. UNCHANGED <<agentVars, waiting>> /\ net' \subseteq net
    BY <1>2, ServerKeeps
  <2>2. Requests' \subseteq Requests /\ Now' = Now
    BY <1>1, <2>1 DEF Requests, agentVars
  <2>3. CASE answer' = answer
    BY <2>1, <2>2, <2>3 DEF RequestsMatch, agentVars
  <2>4. CASE waiting /\ \E m \in net : m.kind = Now.kind /\ net' = net \ {m}
    <3>1. PICK m \in net : m.kind = Now.kind /\ net' = net \ {m}
      BY <2>4
    <3>2. Now.kind \in {"progress", "upload", "result"}
      BY <2>4, NowIs DEF AgentSide, Step, Local
    <3>3. m \in Requests
      BY <3>1, <3>2 DEF Requests
    <3>4. Requests' = {}
      BY <2>2, <3>1, <3>3 DEF RequestsMatch, Requests
    <3> QED
      BY <3>4 DEF RequestsMatch
  <2> QED
    BY <1>2, <2>3, <2>4, ServerKeeps
<1>3. CASE Request
  <2>1. Requests' = {[kind |-> Now.kind, phase |-> Now.phase, bytes |-> Now.bytes, sequence |-> sequence]}
    BY <1>3, RequestsGrow DEF Agent, RequestsMatch, Request
  <2>2. Now' = Now /\ sequence' = sequence /\ waiting' = TRUE /\ answer' = "none"
    BY <1>1, <1>3 DEF Request, Send, agentVars, AgentSide
  <2> QED
    BY <2>1, <2>2 DEF RequestsMatch
<1>4. CASE (Agent \/ Die) /\ ~Request
  <2>1. Requests' = Requests
    BY <1>4, RequestsGrow
  <2>2. CASE Answered \/ Check \/ Freeze \/ Thaw
    <3>1. agent = "working" /\ (~waiting \/ answer # "none")
      BY <2>2 DEF Answered, Check, Freeze, Thaw, AgentSide, Local
    <3>2. Requests' = {}
      BY <2>1, <3>1 DEF RequestsMatch
    <3> QED
      BY <3>2 DEF RequestsMatch
  <2>3. CASE GiveUp \/ Break \/ Report \/ Die
    <3>1. agent' # "working" /\ UNCHANGED pc
      BY <2>3 DEF GiveUp, Break, Report, Die, Raise
    <3> QED
      BY <1>1, <2>1, <3>1 DEF RequestsMatch
  <2>4. CASE Beat \/ BeatLost
    <3>1. UNCHANGED <<pc, agent, sequence, waiting, answer>>
      BY <2>4 DEF Beat, BeatLost, agentVars
    <3> QED
      BY <1>1, <2>1, <3>1 DEF RequestsMatch
  <2> QED
    BY <1>4, <2>2, <2>3, <2>4 DEF Agent
<1>5. CASE UNCHANGED vars
  BY <1>1, <1>5 DEF vars, agentVars, RequestsMatch, Requests
<1> QED
  BY <1>2, <1>3, <1>4, <1>5 DEF Next

-----------------------------------------------------------------------------
(* What a capture sends fits what the server has recorded.                 *)

(* The step of a request is the one the agent is at.                       *)
LEMMA AtNow ==
  ASSUME AgentSide, RequestsMatch, NEW m \in Requests
  PROVE  /\ pc.step \in Rest /\ Now = Script[pc.script][pc.step]
         /\ Now.kind \notin Local /\ m.kind = Now.kind /\ m.phase = Now.phase /\ m.bytes = Now.bytes
<1>1. m.kind = Now.kind /\ m.phase = Now.phase /\ m.bytes = Now.bytes
  BY DEF RequestsMatch
<1>2. Now.kind \notin Local
  BY <1>1 DEF Requests, Local
<1>3. pc.step \in Rest
  BY NowIs DEF AgentSide, Rest
<1> QED
  BY <1>1, <1>2, <1>3 DEF Now

(* The row is not ahead of any request a capture still has to send.        *)
Fits(r, step) ==
  /\ PhaseOrder[r.phase] <= PhaseOrder[PhaseOf(step)]
  /\ step.kind = "progress" => r.bytes <= step.bytes
RowFits ==
  Capture /\ status \in Leased =>
    \A j \in Rest : Script[pc.script][j].kind \notin Local => Fits(row, Script[pc.script][j])

(* What the step at hand records is not ahead of the steps after it.       *)
LEMMA FitsOn ==
  ASSUME AgentSide, Capture, Now.kind \notin Local, NEW j \in Rest,
         Script[pc.script][j].kind \notin Local
  PROVE  /\ PhaseOrder[PhaseOf(Now)] <= PhaseOrder[PhaseOf(Script[pc.script][j])]
         /\ Script[pc.script][j].kind = "progress" => Now.bytes <= Script[pc.script][j].bytes
<1>1. j \in DOMAIN Script[pc.script] /\ pc.step \in DOMAIN Script[pc.script] /\ pc.step <= j
  BY NowIs DEF Rest
<1>2. pc.script \in DOMAIN Script \ {"restore"}
  BY NowIs DEF Capture
<1>3. CASE pc.step = j
  <2>1. Now.phase \in Phase /\ Now.bytes \in Nat
    BY NowIs DEF Step
  <2>2. PhaseOf(Now) \in Phase
    BY <2>1 DEF PhaseOf, Phase, PhaseOrder
  <2>3. PhaseOrder[PhaseOf(Now)] \in Nat
    BY <2>2 DEF Phase, PhaseOrder
  <2> QED
    BY <1>3, <2>1, <2>3 DEF Now
<1>4. CASE pc.step < j
  BY <1>1, <1>2, <1>4, CaptureAssumption DEF Now
<1> QED
  BY <1>1, <1>3, <1>4, NowIs

LEMMA RestShrinks ==
  ASSUME AgentSide, ServerSide, Agent \/ Die
  PROVE  Rest' \subseteq Rest /\ pc'.script = pc.script
<1>1. CASE UNCHANGED pc
  BY <1>1 DEF Rest
<1>2. CASE Proceed
  <2>1. pc' = [pc EXCEPT !.step = pc.step + 1] /\ pc \in [script : DOMAIN Script, step : Nat \ {0}]
    BY <1>2 DEF Proceed, AgentSide
  <2>2. pc'.script = pc.script /\ pc'.step = pc.step + 1
    BY <2>1
  <2> QED
    BY <2>2, NowIs DEF Rest
<1>3. UNCHANGED pc \/ Proceed
  BY DEF Agent, Request, Send, Answered, GiveUp, Check, Freeze, Thaw, Break, Report, Beat, BeatLost, Die,
         agentVars
<1> QED
  BY <1>1, <1>2, <1>3

LEMMA RowFitsInit == Init => RowFits
<1> SUFFICES ASSUME Init PROVE RowFits
  OBVIOUS
<1>1. AgentSide
  BY AgentSideInit
<1> SUFFICES ASSUME Capture, NEW j \in Rest, Script[pc.script][j].kind \notin Local
             PROVE  Fits(row, Script[pc.script][j])
  BY DEF RowFits
<1>2. Script[pc.script][j] \in Step
  BY <1>1, NowIs, ElementOfSeq DEF Rest
<1>3. row.phase = "assigned" /\ row.bytes = 0
  BY DEF Init
<1>4. PhaseOf(Script[pc.script][j]) \in Phase
  BY <1>2 DEF PhaseOf, Step, Phase, PhaseOrder
<1> QED
  BY <1>2, <1>3, <1>4 DEF Fits, Step, Phase, PhaseOrder

LEMMA RowFitsHandle ==
  ASSUME AgentSide, ServerSide, RequestsMatch, RowFits, NEW m \in net, Capture, status' \in Leased,
         HandleBeat(m) \/ HandleProgress(m) \/ HandleUpload(m) \/ HandleSuccess(m),
         NEW j \in Rest, Script[pc.script][j].kind \notin Local
  PROVE  Fits(row', Script[pc.script][j])
<1> DEFINE step == Script[pc.script][j]
<1>1. row \in Row /\ (m.kind # "heartbeat" => m.sequence \in Nat)
  BY DEF ServerSide, Numbered
<1>2. row.phase \in Phase /\ row.bytes \in Nat
  BY <1>1 DEF Row
<1>3. ASSUME status \in Leased PROVE Fits(row, step)
  BY <1>3 DEF RowFits
<1>4. ASSUME m \in Requests
      PROVE  /\ m.kind = Now.kind /\ m.phase = Now.phase /\ m.bytes = Now.bytes
             /\ PhaseOrder[PhaseOf(Now)] <= PhaseOrder[PhaseOf(step)]
             /\ step.kind = "progress" => Now.bytes <= step.bytes
  BY <1>4, AtNow, FitsOn
<1>5. ASSUME NEW p \in Phase, NEW b \in Nat
      PROVE  Touched(p, b).phase = p /\ Touched(p, b).bytes = b /\ Touched(p, b) \in Row
  <2>1. Lease \in 0 .. Lease
    BY SessionAssumption
  <2>2. row \in [phase : Phase, bytes : Nat, last : Nat, lease : 0 .. Lease]
    BY <1>1 DEF Row
  <2> QED
    BY <2>1, <2>2 DEF Touched, Row
<1>6. CASE HandleBeat(m)
  <2>1. status \in Leased /\ row'.phase = row.phase /\ row'.bytes = row.bytes
    BY <1>2, <1>5, <1>6 DEF HandleBeat, Gone, Live
  <2> QED
    BY <1>3, <2>1 DEF Fits
<1>7. CASE HandleProgress(m)
  <2>1. status \in Leased /\ m \in Requests /\ m.kind = "progress"
    BY <1>7 DEF HandleProgress, Live, Requests
  <2>2. m.phase \in Phase /\ m.bytes \in Nat
    BY <2>1 DEF ServerSide
  <2>3. row' = row \/ (row'.phase = m.phase /\ row'.bytes = m.bytes)
    BY <1>5, <1>7, <2>2 DEF HandleProgress, Row
  <2>4. PhaseOf(Now) = m.phase
    BY <1>4, <2>1 DEF PhaseOf
  <2> QED
    BY <1>3, <1>4, <2>1, <2>3, <2>4 DEF Fits
<1>8. CASE HandleUpload(m)
  <2>1. status \in Leased /\ m \in Requests /\ m.kind = "upload"
    BY <1>8 DEF HandleUpload, Live, Requests
  <2>2. m.bytes \in Nat /\ UploadedBytes(m) \in {m.bytes, row.bytes} /\ "uploading" \in Phase
    BY <2>1 DEF ServerSide, UploadedBytes, Phase, PhaseOrder
  <2>3. row'.phase = "uploading" /\ row'.bytes \in {m.bytes, row.bytes}
    BY <1>2, <1>5, <1>8, <2>2 DEF HandleUpload
  <2>4. PhaseOf(Now) = "uploading"
    BY <1>4, <2>1 DEF PhaseOf
  <2> QED
    BY <1>3, <1>4, <2>1, <2>3, <2>4 DEF Fits
<1>9. CASE HandleSuccess(m)
  <2>1. status \in Leased /\ m \in Requests /\ m.kind = "result"
    BY <1>9 DEF HandleSuccess, Live, Requests
  <2>2. row' = row \/ row' = [Touched("verifying", row.bytes) EXCEPT !.last = m.sequence]
    BY <1>9, SuccessCases DEF Captured
  <2>3. "verifying" \in Phase
    BY DEF Phase, PhaseOrder
  <2>4. row' = row \/ (row'.phase = "verifying" /\ row'.bytes = row.bytes)
    BY <1>2, <1>5, <2>2, <2>3 DEF Row
  <2>5. PhaseOf(Now) = "verifying"
    BY <1>4, <2>1 DEF PhaseOf
  <2> QED
    BY <1>3, <1>4, <2>1, <2>4, <2>5 DEF Fits
<1> QED
  BY <1>6, <1>7, <1>8, <1>9

LEMMA RowFitsStep == AgentSide /\ ServerSide /\ RequestsMatch /\ RowFits /\ [Next]_vars => RowFits'
<1> SUFFICES ASSUME AgentSide, ServerSide, RequestsMatch, RowFits, [Next]_vars PROVE RowFits'
  OBVIOUS
<1>1. CASE Agent \/ Die
  <2>1. UNCHANGED <<row, status>> /\ Rest' \subseteq Rest /\ pc'.script = pc.script
    BY <1>1, RestShrinks, RequestsGrow DEF serverVars
  <2> QED
    BY <2>1 DEF RowFits, Capture, Fits
<1>2. CASE Server \/ Cancel \/ Tick
  <2>1. UNCHANGED pc
    BY <1>2, ServerKeeps DEF agentVars
  <2> SUFFICES ASSUME Capture, status' \in Leased, NEW j \in Rest, Script[pc.script][j].kind \notin Local
               PROVE  Fits(row', Script[pc.script][j])
    BY <2>1 DEF RowFits, Capture, Rest, Fits
  <2>2. CASE Cancel \/ Tick
    <3>1. status \in Leased /\ row'.phase = row.phase /\ row'.bytes = row.bytes
      BY <2>2 DEF Cancel, Tick, ServerSide, Row
    <3> QED
      BY <3>1 DEF RowFits, Fits
  <2>3. CASE Expire \/ Published \/ Unpublished
    BY <2>3 DEF Expire, Published, Unpublished, End, Leased
  <2>4. CASE Handle
    <3>1. PICK m \in net : \/ HandleBeat(m) \/ HandleProgress(m) \/ HandleUpload(m) \/ Acknowledge(m)
                           \/ HandleFailure(m) \/ HandleSuccess(m) \/ Refused(m)
      BY <2>4 DEF Handle
    <3>2. CASE HandleBeat(m) \/ HandleProgress(m) \/ HandleUpload(m) \/ HandleSuccess(m)
      BY <2>1, <3>2, RowFitsHandle
    <3>3. CASE Acknowledge(m) \/ HandleFailure(m)
      BY <3>3 DEF Acknowledge, HandleFailure, End, Leased
    <3>4. CASE Refused(m)
      BY <3>4 DEF Refused, RowFits, Fits
    <3> QED
      BY <3>1, <3>2, <3>3, <3>4
  <2> QED
    BY <1>2, <2>2, <2>3, <2>4 DEF Server
<1>3. CASE UNCHANGED vars
  BY <1>3 DEF RowFits, vars, agentVars, serverVars, Capture, Rest, Fits
<1> QED
  BY <1>1, <1>2, <1>3 DEF Next

(* Then touch_attempt has nothing to refuse.                               *)
LEMMA NothingGoesBack ==
  ASSUME AgentSide, ServerSide, RequestsMatch, RowFits, Capture, status \in Leased, NEW m \in net
  PROVE  ~GoesBack(m)
<1>1. row.phase \in Phase /\ row.bytes \in Nat
  BY DEF ServerSide, Row
<1>2. CASE m \in Requests
  <2>1. m.kind = Now.kind /\ m.phase = Now.phase /\ m.bytes = Now.bytes /\ Fits(row, Now)
    BY <1>2, AtNow DEF RowFits
  <2>2. /\ m.kind = "progress" => PhaseOf(Now) = m.phase
        /\ m.kind = "upload" => PhaseOf(Now) = "uploading"
        /\ m.kind = "result" => PhaseOf(Now) = "verifying"
    BY <2>1 DEF PhaseOf
  <2>3. m.phase \in Phase /\ m.bytes \in Nat /\ "uploading" \in Phase /\ "verifying" \in Phase
    BY <1>2 DEF ServerSide, Phase, PhaseOrder
  <2>4. \A p \in Phase : PhaseOrder[p] \in Nat
    BY DEF Phase, PhaseOrder
  <2>5. m.kind = "progress" => Touchable(m.phase, m.bytes)
    BY <1>1, <2>1, <2>2, <2>3, <2>4 DEF Fits, Touchable
  <2>6. m.kind = "upload" => Touchable("uploading", UploadedBytes(m))
    BY <1>1, <2>1, <2>2, <2>3, <2>4 DEF Fits, Touchable, UploadedBytes
  <2>7. m.kind = "result" => Touchable("verifying", row.bytes)
    BY <1>1, <2>1, <2>2, <2>3, <2>4 DEF Fits, Touchable
  <2> QED
    BY <2>5, <2>6, <2>7 DEF GoesBack
<1>3. CASE m \notin Requests
  BY <1>3 DEF Requests, GoesBack
<1> QED
  BY <1>2, <1>3

LEMMA CapturesNeverGoBackStep ==
  AgentSide /\ ServerSide /\ RequestsMatch /\ RowFits /\ CapturesNeverGoBack /\ [Next]_vars
    => CapturesNeverGoBack'
<1> SUFFICES ASSUME AgentSide, ServerSide, RequestsMatch, RowFits, CapturesNeverGoBack, [Next]_vars
             PROVE  CapturesNeverGoBack'
  OBVIOUS
<1>1. CASE Agent \/ Die
  BY <1>1, RestShrinks, RequestsGrow DEF serverVars, CapturesNeverGoBack, Capture
<1>2. CASE Server \/ Cancel \/ Tick
  <2>1. UNCHANGED pc
    BY <1>2, ServerKeeps DEF agentVars
  <2>2. UNCHANGED goneBack \/ \E m \in net : Refused(m)
    BY <1>2 DEF Server, Handle, Cancel, Tick, Expire, Published, Unpublished, HandleBeat, HandleProgress,
                HandleUpload, Acknowledge, HandleFailure, HandleSuccess
  <2>3. ASSUME NEW m \in net, Refused(m), Capture
        PROVE  ~Live
    BY <2>3, NothingGoesBack DEF Refused, Live, Gone
  <2> QED
    BY <2>1, <2>2, <2>3 DEF CapturesNeverGoBack, Capture, Refused
<1>3. CASE UNCHANGED vars
  BY <1>3 DEF CapturesNeverGoBack, vars, agentVars, serverVars, Capture
<1> QED
  BY <1>1, <1>2, <1>3 DEF Next

-----------------------------------------------------------------------------
(* The numbers of the requests, and what success means.                    *)

(* While the attempt runs, every numbered request under way is new to the  *)
(* server, and so is the next one of the agent.                            *)
RequestsNew ==
  status \in Leased /\ ~publishing =>
    /\ \A m \in Requests : m.kind # "upload" => m.sequence > row.last
    /\ agent = "working" =>
         \/ row.last < sequence
         \/ answer = "ok" /\ Now.kind = "progress" /\ row.last <= sequence

(* The result is accepted, and the agent content, once the task has ended. *)
ResultIsFinal ==
  /\ answer = "ok" /\ Now.kind = "result" => status \in Terminal
  /\ SuccessIsFinal

LEMMA RequestsNewStep ==
  AgentSide /\ ServerSide /\ RequestsMatch /\ RequestsNew /\ [Next]_vars => RequestsNew'
<1> SUFFICES ASSUME AgentSide, ServerSide, RequestsMatch, RequestsNew, [Next]_vars PROVE RequestsNew'
  OBVIOUS
<1>1. row.last \in Nat /\ sequence \in Nat \ {0}
  BY DEF ServerSide, Row, AgentSide
<1>2. UNCHANGED pc => Now' = Now
  BY DEF Now
<1>3. CASE Request
  <2>1. /\ UNCHANGED <<status, publishing, row>>
        /\ Requests' = Requests \cup
             {[kind |-> Now.kind, phase |-> Now.phase, bytes |-> Now.bytes, sequence |-> sequence]}
    BY <1>3, RequestsGrow DEF Agent, serverVars
  <2>2. Now' = Now /\ UNCHANGED <<agent, sequence, answer>> /\ agent = "working" /\ answer = "none"
    BY <1>2, <1>3 DEF Request, Send, agentVars, AgentSide
  <2> QED
    BY <1>1, <2>1, <2>2 DEF RequestsNew
<1>4. CASE (Agent \/ Die) /\ ~Request
  <2>1. UNCHANGED <<status, publishing, row, Requests>>
    BY <1>4, RequestsGrow DEF serverVars
  <2>2. CASE Answered
    <3>1. agent = "working" /\ (agent' = "working" => answer = "ok" /\ sequence' = NumberAfter)
      BY <2>2 DEF Answered, Raise
    <3>2. ASSUME agent' = "working", status \in Leased, ~publishing
          PROVE  row.last < sequence'
      BY <1>1, <3>1, <3>2 DEF RequestsNew, NumberAfter
    <3> QED
      BY <2>1, <3>2 DEF RequestsNew
  <2>3. CASE Check \/ Freeze \/ Thaw
    <3>1. answer = "none" /\ agent = "working" /\ (agent' = "working" => sequence' = sequence)
      BY <2>3 DEF Check, Freeze, Thaw, Raise, AgentSide, Local
    <3> QED
      BY <2>1, <3>1 DEF RequestsNew
  <2>4. CASE GiveUp \/ Break \/ Report \/ Die
    BY <2>1, <2>4 DEF GiveUp, Break, Report, Die, Raise, RequestsNew
  <2>5. CASE Beat \/ BeatLost
    BY <1>2, <2>1, <2>5 DEF Beat, BeatLost, agentVars, RequestsNew
  <2> QED
    BY <1>4, <2>2, <2>3, <2>4, <2>5 DEF Agent
<1>5. CASE Server \/ Cancel \/ Tick
  <2>1. UNCHANGED <<agent, sequence, pc>> /\ Requests' \subseteq Requests /\ Now' = Now
    BY <1>2, <1>5, ServerKeeps DEF agentVars, Requests
  <2>2. \/ answer' = answer
        \/ answer = "none" /\ answer' \in {"ok", "refused"}
    <3>1. ASSUME waiting, NEW m \in net, m.kind = Now.kind, answer # "none"
          PROVE  FALSE
      <4>1. m \in Requests
        BY <3>1, NowIs DEF AgentSide, Step, Local, Requests
      <4> QED
        BY <3>1, <4>1 DEF RequestsMatch, AgentSide
    <3> QED
      BY <1>5, <3>1, ServerKeeps
  <2>3. ASSUME status \in Leased, ~publishing, row'.last = row.last
        PROVE  RequestsNew'
    BY <1>1, <2>1, <2>2, <2>3 DEF RequestsNew
  <2>4. CASE Cancel \/ Tick
    BY <2>3, <2>4 DEF Cancel, Tick, ServerSide, Row, RequestsNew
  <2>5. CASE Expire \/ Published \/ Unpublished
    BY <2>5 DEF Expire, Published, Unpublished, End, RequestsNew, Leased
  <2>6. CASE Handle
    <3>1. PICK m \in net : \/ HandleBeat(m) \/ HandleProgress(m) \/ HandleUpload(m) \/ Acknowledge(m)
                           \/ HandleFailure(m) \/ HandleSuccess(m) \/ Refused(m)
      BY <2>6 DEF Handle
    <3>2. row \in [phase : Phase, bytes : Nat, last : Nat, lease : 0 .. Lease]
      BY DEF ServerSide, Row
    <3>3. \A p, b : Touched(p, b).last = row.last
      BY <3>2 DEF Touched
    <3>4. CASE HandleBeat(m) \/ HandleUpload(m) \/ Refused(m)
      <4>1. UNCHANGED publishing /\ row'.last = row.last
        BY <3>3, <3>4 DEF HandleBeat, HandleUpload, Refused
      <4>2. status' \in Leased => status \in Leased
        BY <3>4 DEF HandleBeat, HandleUpload, Refused, Live, Gone
      <4> QED
        BY <2>3, <4>1, <4>2 DEF RequestsNew
    <3>5. CASE HandleProgress(m)
      <4>1. m \in Requests /\ m.kind = "progress" /\ status \in Leased /\ UNCHANGED publishing /\ Reply(m, "ok")
        BY <3>5 DEF HandleProgress, Requests, Live
      <4>2. Requests' = {}
        BY <4>1 DEF Reply, Requests, RequestsMatch
      <4>3. m.sequence \in Nat
        BY <4>1 DEF ServerSide, Numbered
      <4>4. CASE m.sequence > row.last
        <5>1. Touched(m.phase, m.bytes) \in Row
          <6>1. m.phase \in Phase /\ m.bytes \in Nat /\ Lease \in 0 .. Lease
            BY <4>1, SessionAssumption DEF ServerSide
          <6> QED
            BY <3>2, <6>1 DEF Touched, Row
        <5>2. row'.last = m.sequence
          BY <3>5, <4>3, <4>4, <5>1 DEF HandleProgress, Row
        <5>3. agent = "working" => m.sequence = sequence /\ waiting /\ m.kind = Now.kind
          BY <4>1 DEF RequestsMatch, AgentSide
        <5>4. agent = "working" => answer' = "ok" /\ Now.kind = "progress"
          BY <4>1, <5>3 DEF Reply
        <5> QED
          BY <1>1, <2>1, <4>2, <5>2, <5>3, <5>4 DEF RequestsNew
      <4>5. CASE ~(m.sequence > row.last)
        BY <2>3, <3>5, <4>1, <4>5 DEF HandleProgress, RequestsNew
      <4> QED
        BY <4>4, <4>5
    <3>6. CASE Acknowledge(m) \/ HandleFailure(m)
      BY <3>6 DEF Acknowledge, HandleFailure, End, RequestsNew, Leased
    <3>7. CASE HandleSuccess(m)
      <4>1. status \in Leased /\ ~publishing
        BY <3>7 DEF HandleSuccess, Live
      <4> QED
        BY <2>3, <3>7, <4>1, SuccessCases DEF Captured, Restored, RequestsNew, Leased
    <3> QED
      BY <3>1, <3>4, <3>5, <3>6, <3>7
  <2> QED
    BY <1>5, <2>4, <2>5, <2>6 DEF Server
<1>6. CASE UNCHANGED vars
  BY <1>2, <1>6 DEF vars, agentVars, serverVars, RequestsNew, Requests
<1> QED
  BY <1>3, <1>4, <1>5, <1>6 DEF Next

(* A task that has ended stays so, in this attempt.                        *)
LEMMA TerminalStays ==
  ASSUME ServerSide, status \in Terminal, Server \/ Cancel \/ Tick
  PROVE  status' \in Terminal
<1>1. status \notin Leased
  BY DEF Leased, Terminal
<1>2. CASE Expire \/ Published \/ Unpublished \/ Cancel \/ Tick
  BY <1>1, <1>2 DEF Expire, Stale, Published, Unpublished, Cancel, Tick, End, Terminal
<1>3. CASE Handle
  BY <1>1, <1>3 DEF Handle, HandleBeat, HandleProgress, HandleUpload, Acknowledge, HandleFailure, HandleSuccess,
                    Refused, Live
<1> QED
  BY <1>2, <1>3 DEF Server

LEMMA ResultIsFinalStep ==
  AgentSide /\ ServerSide /\ RequestsMatch /\ RequestsNew /\ ResultIsFinal /\ [Next]_vars => ResultIsFinal'
<1> SUFFICES ASSUME AgentSide, ServerSide, RequestsMatch, RequestsNew, ResultIsFinal, [Next]_vars
             PROVE  ResultIsFinal'
  OBVIOUS
<1>1. UNCHANGED pc => Now' = Now
  BY DEF Now
<1>2. CASE Answered
  <2>1. agent' = "success" => answer = "ok" /\ pc.step = Len(Script[pc.script])
    BY <1>2 DEF Answered, Raise
  <2>2. answer' = "none" /\ UNCHANGED status
    BY <1>2 DEF Answered, serverVars
  <2>3. pc.step = Len(Script[pc.script]) => Now.kind = "result"
    BY NowIs
  <2> QED
    BY <2>1, <2>2, <2>3 DEF ResultIsFinal, SuccessIsFinal
<1>3. CASE (Agent \/ Die) /\ ~Answered
  <2>1. UNCHANGED status
    BY <1>3, RequestsGrow DEF serverVars
  <2>2. agent' = "success" => agent = "success"
    BY <1>3 DEF Agent, Request, Send, GiveUp, Check, Freeze, Thaw, Break, Report, Beat, BeatLost, Die, Raise,
                agentVars
  <2>3. \/ answer' = "none"
        \/ UNCHANGED <<answer, pc>>
    BY <1>3 DEF Agent, Request, Send, GiveUp, Check, Freeze, Thaw, Break, Report, Beat, BeatLost, Die, Raise,
                agentVars, AgentSide, Local
  <2> QED
    BY <1>1, <2>1, <2>2, <2>3 DEF ResultIsFinal, SuccessIsFinal
<1>4. CASE Server \/ Cancel \/ Tick
  <2>1. UNCHANGED <<agent, pc>> /\ Now' = Now
    BY <1>1, <1>4, ServerKeeps DEF agentVars
  <2>2. status \in Terminal => status' \in Terminal
    BY <1>4, TerminalStays
  <2>3. ASSUME answer' = "ok", answer # "ok", Now.kind = "result"
        PROVE  status' \in Terminal
    <3>1. CASE Published \/ Unpublished
      BY <3>1 DEF Published, Unpublished, End, Terminal
    <3>2. CASE Expire \/ Cancel \/ Tick
      BY <2>3, <3>2 DEF Expire, Cancel, Tick
    <3>3. CASE Handle
      <4>1. PICK m \in net : \/ HandleBeat(m) \/ HandleProgress(m) \/ HandleUpload(m) \/ Acknowledge(m)
                             \/ HandleFailure(m) \/ HandleSuccess(m) \/ Refused(m)
        BY <3>3 DEF Handle
      <4>2. CASE HandleBeat(m) \/ HandleProgress(m) \/ HandleUpload(m) \/ HandleFailure(m) \/ Refused(m)
        BY <2>3, <4>2 DEF HandleBeat, ReplyBeat, HandleProgress, HandleUpload, HandleFailure, Refused, Reply
      <4>3. CASE Acknowledge(m)
        BY <4>3 DEF Acknowledge, End, Terminal
      <4>4. CASE HandleSuccess(m)
        <5>1. m.kind = "result" /\ status \in Leased /\ ~publishing /\ m \in Requests
          BY <4>4 DEF HandleSuccess, Live, Requests
        <5>2. m.sequence > row.last /\ m.sequence \in Nat /\ row.last \in Nat
          BY <5>1 DEF RequestsNew, ServerSide, Numbered, Row
        <5>3. Captured(m) \/ Restored(m)
          <6>1. ~(m.sequence <= row.last)
            BY <5>2
          <6> QED
            BY <4>4, <6>1, SuccessCases
        <5> QED
          BY <2>3, <5>3 DEF Captured, Restored, Terminal
      <4> QED
        BY <4>1, <4>2, <4>3, <4>4
    <3> QED
      BY <1>4, <3>1, <3>2, <3>3 DEF Server
  <2> QED
    BY <2>1, <2>2, <2>3 DEF ResultIsFinal, SuccessIsFinal
<1>5. CASE UNCHANGED vars
  BY <1>1, <1>5 DEF vars, agentVars, serverVars, ResultIsFinal, SuccessIsFinal
<1> QED
  BY <1>2, <1>3, <1>4, <1>5 DEF Next

-----------------------------------------------------------------------------
(* The file systems.                                                       *)

(* While the agent works it knows which file systems are frozen, and if    *)
(* some are, it still has a thaw before it; and an agent that has ended by *)
(* itself has thawed those, or tried to.                                   *)
ThawAhead ==
  /\ agent = "working" => frozen \in {"no", "yes"}
  /\ agent = "working" /\ frozen = "yes" => \E j \in Rest : Script[pc.script][j].kind = "thaw"
  /\ NotLeftFrozen

LEMMA ThawAheadStep == AgentSide /\ ServerSide /\ ThawAhead /\ [Next]_vars => ThawAhead'
<1> SUFFICES ASSUME AgentSide, ServerSide, ThawAhead, [Next]_vars PROVE ThawAhead'
  OBVIOUS
<1>1. ASSUME Proceed, Now.kind # "result", Now.kind # "thaw",
             \E j \in Rest : Script[pc.script][j].kind = "thaw"
      PROVE  \E j \in Rest' : Script[pc'.script][j].kind = "thaw"
  <2>1. PICK j \in Rest : Script[pc.script][j].kind = "thaw"
    BY <1>1
  <2>2. pc'.script = pc.script /\ pc'.step = pc.step + 1
    BY <1>1, Proceeds
  <2>3. j # pc.step
    BY <1>1, <2>1 DEF Now
  <2>4. j \in Rest'
    BY <2>2, <2>3, NowIs DEF Rest
  <2> QED
    BY <2>1, <2>2, <2>4
<1>2. CASE Freeze
  <2>1. CASE frozen' = "yes" /\ Proceed
    <3>1. Now.kind = "freeze" /\ pc.script \in DOMAIN Script /\ pc.step \in DOMAIN Script[pc.script]
      BY <1>2, NowIs DEF Freeze
    <3>2. PICK j \in pc.step + 1 .. Len(Script[pc.script]) : Script[pc.script][j].kind = "thaw"
      BY <3>1, ThawAssumption DEF Now
    <3>3. pc'.script = pc.script /\ pc'.step = pc.step + 1
      BY <2>1, <3>1, Proceeds
    <3>4. j \in Rest'
      BY <3>2, <3>3 DEF Rest
    <3>5. agent' = "working"
      BY <1>2, <2>1 DEF Freeze
    <3>6. Script[pc'.script][j].kind = "thaw"
      BY <3>2, <3>3
    <3> QED
      BY <2>1, <3>4, <3>5, <3>6 DEF ThawAhead, NotLeftFrozen
  <2>2. CASE frozen' # "yes" /\ Raise("reporting")
    BY <2>2 DEF Raise, ThawAhead, NotLeftFrozen
  <2> QED
    BY <1>2, <2>1, <2>2 DEF Freeze
<1>3. CASE Thaw
  BY <1>3 DEF Thaw, Raise, ThawAhead, NotLeftFrozen
<1>4. CASE Answered
  <2>1. agent = "working" /\ Now.kind \notin Local /\ UNCHANGED frozen
    BY <1>4 DEF Answered, AgentSide
  <2>2. CASE answer = "ok" /\ pc.step = Len(Script[pc.script])
    <3>1. \A j \in Rest : j = pc.step
      BY <2>2, NowIs DEF Rest
    <3>2. Now.kind = "result"
      BY <2>2, NowIs
    <3>3. frozen = "no"
      BY <2>1, <3>1, <3>2 DEF ThawAhead, Now
    <3> QED
      BY <2>1, <3>3 DEF ThawAhead, NotLeftFrozen
  <2>3. CASE answer = "ok" /\ pc.step # Len(Script[pc.script])
    <3>1. Proceed /\ UNCHANGED agent /\ Now.kind # "result" /\ Now.kind # "thaw"
      BY <1>4, <2>1, <2>3, NowIs DEF Answered, Local
    <3> QED
      BY <1>1, <2>1, <3>1 DEF ThawAhead, NotLeftFrozen
  <2>4. CASE answer # "ok"
    BY <1>4, <2>4 DEF Answered, Raise, ThawAhead, NotLeftFrozen
  <2> QED
    BY <2>2, <2>3, <2>4
<1>5. CASE Check
  <2>1. agent = "working" /\ Now.kind = "check" /\ UNCHANGED frozen
    BY <1>5 DEF Check
  <2>2. CASE Proceed /\ UNCHANGED agent
    BY <1>1, <2>1, <2>2 DEF ThawAhead, NotLeftFrozen
  <2>3. CASE agent' \in {"giving_in", "reporting"}
    BY <2>3 DEF ThawAhead, NotLeftFrozen
  <2> QED
    BY <1>5, <2>2, <2>3 DEF Check, Raise
<1>6. CASE GiveUp \/ Break \/ Die
  BY <1>6 DEF GiveUp, Break, Die, Raise, ThawAhead, NotLeftFrozen
<1>7. CASE Report
  BY <1>7 DEF Report, Finally, ThawAhead, NotLeftFrozen
<1>8. CASE Request \/ Beat \/ BeatLost \/ Server \/ Cancel \/ Tick \/ UNCHANGED vars
  <2>1. UNCHANGED agentVars
    BY <1>8, ServerKeeps DEF Request, Send, Beat, BeatLost, vars
  <2> QED
    BY <2>1 DEF agentVars, ThawAhead, NotLeftFrozen, Rest
<1> QED
  BY <1>2, <1>3, <1>4, <1>5, <1>6, <1>7, <1>8 DEF Next, Agent
-----------------------------------------------------------------------------
(* The events.                                                             *)

(* They are numbered, up to the last number the server has seen.           *)
EventsKnown == (\A e \in events : e.number \in 1 .. row.last) /\ EventsNumberedOnce

(* An event with a number above the last one keeps them numbered once.     *)
LEMMA EventAdded ==
  ASSUME EventsKnown, row.last \in Nat, NEW n \in Nat, n > row.last, NEW e, e.number = n,
         events' = events \cup {e}, row'.last = n
  PROVE  EventsKnown'
<1>1. \A f \in events : f.number \in 1 .. row'.last /\ f.number # n
  BY DEF EventsKnown
<1>2. n \in 1 .. row'.last
  OBVIOUS
<1> QED
  BY <1>1, <1>2 DEF EventsKnown, EventsNumberedOnce

LEMMA EventsKnownStep == AgentSide /\ ServerSide /\ EventsKnown /\ [Next]_vars => EventsKnown'
<1> SUFFICES ASSUME AgentSide, ServerSide, EventsKnown, [Next]_vars PROVE EventsKnown'
  OBVIOUS
<1>1. row \in [phase : Phase, bytes : Nat, last : Nat, lease : 0 .. Lease] /\ row.last \in Nat
  BY DEF ServerSide, Row
<1>2. ASSUME UNCHANGED events, row'.last = row.last
      PROVE  EventsKnown'
  BY <1>2 DEF EventsKnown, EventsNumberedOnce
<1>3. \A p, b : Touched(p, b).last = row.last
  BY <1>1 DEF Touched
<1>4. \A p, b, n : [Touched(p, b) EXCEPT !.last = n].last = n
  BY <1>1 DEF Touched
<1>5. \A p, n : [row EXCEPT !.phase = p, !.last = n].last = n
  BY <1>1
<1>6. ASSUME NEW p, NEW type, row' = [row EXCEPT !.phase = p, !.last = NextEvent],
             events' = events \cup {[number |-> NextEvent, type |-> type]}
      PROVE  EventsKnown'
  <2>1. NextEvent \in Nat /\ NextEvent > row.last /\ row'.last = NextEvent
    BY <1>1, <1>5, <1>6 DEF NextEvent
  <2> QED
    BY <1>1, <1>6, <2>1, EventAdded
<1>7. ASSUME NEW n \in Nat, row' = FailedRow(n), events' = events \cup ErrorEvent(n)
      PROVE  EventsKnown'
  <2>1. CASE n > row.last
    <3>1. row'.last = n
      BY <1>1, <1>7, <2>1 DEF FailedRow
    <3> QED
      BY <1>1, <1>7, <2>1, <3>1, EventAdded DEF ErrorEvent
  <2>2. CASE ~(n > row.last)
    BY <1>1, <1>2, <1>7, <2>2 DEF ErrorEvent, FailedRow
  <2> QED
    BY <2>1, <2>2
<1>8. CASE Agent \/ Die \/ UNCHANGED vars
  BY <1>2, <1>8, RequestsGrow DEF serverVars, vars
<1>9. CASE Cancel \/ Tick
  BY <1>1, <1>2, <1>9 DEF Cancel, Tick
<1>10. CASE Expire \/ Published
  BY <1>6, <1>10 DEF Expire, Published, End
<1>11. CASE Unpublished
  <2>1. PICK m \in net : m.kind = "result" /\ row' = FailedRow(m.sequence + 1)
                         /\ events' = events \cup ErrorEvent(m.sequence + 1)
    BY <1>11 DEF Unpublished
  <2>2. m.sequence + 1 \in Nat
    BY <2>1 DEF ServerSide, Numbered
  <2> QED
    BY <1>7, <2>1, <2>2
<1>12. CASE Handle
  <2>1. PICK m \in net : \/ HandleBeat(m) \/ HandleProgress(m) \/ HandleUpload(m) \/ Acknowledge(m)
                         \/ HandleFailure(m) \/ HandleSuccess(m) \/ Refused(m)
    BY <1>12 DEF Handle
  <2>2. m.kind # "heartbeat" => m.sequence \in Nat
    BY DEF ServerSide, Numbered
  <2>3. CASE HandleBeat(m) \/ HandleUpload(m) \/ Refused(m)
    BY <1>2, <1>3, <2>3 DEF HandleBeat, HandleUpload, Refused
  <2>4. ASSUME NEW p, NEW b, m.sequence \in Nat, m.sequence > row.last,
               row' = [Touched(p, b) EXCEPT !.last = m.sequence],
               events' = events \cup {[number |-> m.sequence, type |-> "progress"]}
        PROVE  EventsKnown'
    <3>1. row'.last = m.sequence
      BY <1>4, <2>4
    <3>2. [number |-> m.sequence, type |-> "progress"].number = m.sequence
      OBVIOUS
    <3> QED
      BY <1>1, <2>4, <3>1, <3>2, EventAdded
  <2>5. CASE HandleProgress(m)
    <3>1. m.sequence \in Nat
      BY <2>2, <2>5 DEF HandleProgress
    <3>2. CASE m.sequence > row.last
      BY <2>4, <2>5, <3>1, <3>2 DEF HandleProgress
    <3>3. CASE ~(m.sequence > row.last)
      BY <1>2, <2>5, <3>3 DEF HandleProgress
    <3> QED
      BY <3>2, <3>3
  <2>6. CASE Acknowledge(m)
    BY <1>6, <2>6 DEF Acknowledge, End
  <2>7. CASE HandleFailure(m)
    BY <1>7, <2>2, <2>7 DEF HandleFailure
  <2>8. CASE HandleSuccess(m)
    <3>1. m.sequence \in Nat
      BY <2>2, <2>8 DEF HandleSuccess
    <3>2. CASE UNCHANGED <<row, events>>
      BY <1>2, <3>2
    <3>3. CASE m.sequence > row.last /\ Captured(m)
      BY <2>4, <3>1, <3>3 DEF Captured
    <3>4. CASE m.sequence > row.last /\ Restored(m)
      <4>1. row'.last = m.sequence + 1
        BY <1>4, <3>4 DEF Restored
      <4>2. \A e \in events : e.number \in 1 .. row.last
        BY DEF EventsKnown
      <4>3. \A e \in events' : \/ e \in events
                               \/ e = [number |-> m.sequence, type |-> "progress"]
                               \/ e = [number |-> m.sequence + 1, type |-> "completed"]
        BY <3>4 DEF Restored
      <4>4. \A e \in events' : e.number \in 1 .. row'.last
        BY <1>1, <3>1, <3>4, <4>1, <4>2, <4>3
      <4>5. ASSUME NEW e \in events', NEW f \in events', e.number = f.number
            PROVE  e = f
        BY <1>1, <3>1, <3>4, <4>2, <4>3, <4>5 DEF EventsKnown, EventsNumberedOnce
      <4> QED
        BY <4>4, <4>5 DEF EventsKnown, EventsNumberedOnce
    <3> QED
      BY <2>8, <3>2, <3>3, <3>4, SuccessCases
  <2> QED
    BY <2>1, <2>3, <2>5, <2>6, <2>7, <2>8
<1> QED
  BY <1>8, <1>9, <1>10, <1>11, <1>12 DEF Next, Server
-----------------------------------------------------------------------------
(* The inductive invariant, and the theorems.                              *)

SessionInv ==
  /\ AgentSide /\ ServerSide /\ RequestsMatch
  /\ RowFits /\ CapturesNeverGoBack
  /\ RequestsNew /\ ResultIsFinal
  /\ ThawAhead
  /\ EventsKnown

LEMMA SessionInvInit == Init => SessionInv
<1> SUFFICES ASSUME Init PROVE SessionInv
  OBVIOUS
<1>1. AgentSide /\ RowFits
  BY AgentSideInit, RowFitsInit
<1>2. "assigned" \in Phase /\ Lease \in 0 .. Lease
  BY SessionAssumption DEF Phase, PhaseOrder
<1>3. ServerSide
  BY <1>2 DEF Init, ServerSide, Numbered, Requests, Row, Status, Leased
<1>4. RequestsMatch /\ RequestsNew
  <2>1. Requests = {} /\ row.last = 0 /\ sequence = 1
    BY DEF Init, Requests
  <2> QED
    BY <2>1 DEF RequestsMatch, RequestsNew
<1>5. CapturesNeverGoBack /\ ResultIsFinal /\ ThawAhead /\ EventsKnown
  BY DEF Init, CapturesNeverGoBack, ResultIsFinal, SuccessIsFinal, ThawAhead, NotLeftFrozen, EventsKnown,
         EventsNumberedOnce
<1> QED
  BY <1>1, <1>3, <1>4, <1>5 DEF SessionInv

LEMMA SessionInvHolds == Spec => []SessionInv
<1>1. Init => SessionInv
  BY SessionInvInit
<1>2. SessionInv /\ [Next]_vars => SessionInv'
  BY AgentSideStep, ServerSideStep, RequestsMatchStep, RowFitsStep, CapturesNeverGoBackStep,
     RequestsNewStep, ResultIsFinalStep, ThawAheadStep, EventsKnownStep DEF SessionInv
<1> QED
  BY <1>1, <1>2, PTL DEF Spec

(* The variables keep their types, for every script and lease.             *)
THEOREM TypeCorrect == Spec => []TypeOK
<1>1. SessionInv => TypeOK
  <2> SUFFICES ASSUME SessionInv PROVE TypeOK
    OBVIOUS
  <2>1. AgentSide /\ ServerSide /\ EventsKnown
    BY DEF SessionInv
  <2> QED
    BY <2>1, NowIs DEF TypeOK, AgentSide, ServerSide, EventsKnown
<1> QED
  BY <1>1, SessionInvHolds, PTL

(* touch_attempt never refuses a request of a capture whose attempt runs   *)
(* for going back in phase or bytes.                                       *)
THEOREM ForwardCorrect == Spec => []CapturesNeverGoBack
<1>1. SessionInv => CapturesNeverGoBack
  BY DEF SessionInv
<1> QED
  BY <1>1, SessionInvHolds, PTL

(* No two events of an attempt have the same number, however its requests, *)
(* the failure reported for them and the server's own events interleave.   *)
THEOREM EventsCorrect == Spec => []EventsNumberedOnce
<1>1. SessionInv => EventsNumberedOnce
  BY DEF SessionInv, EventsKnown
<1> QED
  BY <1>1, SessionInvHolds, PTL

(* An agent of a hot capture that reports success has thawed the file      *)
(* systems of its machine; one that failed by itself has thawed those that *)
(* it knows to be frozen, or tried and failed.                             *)
THEOREM ThawCorrect == Spec => []NotLeftFrozen
<1>1. SessionInv => NotLeftFrozen
  BY DEF SessionInv, ThawAhead
<1> QED
  BY <1>1, SessionInvHolds, PTL

(* When the agent takes its task for done, the task has ended.             *)
THEOREM SuccessCorrect == Spec => []SuccessIsFinal
<1>1. SessionInv => SuccessIsFinal
  BY DEF SessionInv, ResultIsFinal
<1> QED
  BY <1>1, SessionInvHolds, PTL
=============================================================================
