------------------------------ MODULE Pairing ------------------------------
(***************************************************************************)
(* How a machine that booted from the network becomes a registered host    *)
(* with an inventory: the pairing requests and inventory reports of        *)
(* pyfog/api.py, pyfog/web.py and pyfog/services.py.                       *)
(*                                                                         *)
(* All the requests followed come from one MAC address, the one of the     *)
(* host.  As in TaskRows a handler reads first and commits later, a plain  *)
(* one on a thread, an async one on the event loop; from its first flush   *)
(* to its commit it holds the write lock, and what it reads then is        *)
(* current.  What it assigns is written if it is not the value it read.    *)
(* Reports with a known id and another content change nothing and are left *)
(* out, and so are the challenge and the audit log.                        *)
(***************************************************************************)
EXTENDS Integers, FiniteSets

CONSTANTS Session,      \* PXE sessions, one request each
          Report,       \* report ids
          Collected,    \* when a report was collected
          Name,         \* the host name a report carries
          NoReport, NoName,
          MaxPending,   \* MAX_PENDING_PAIRINGS_PER_MAC
          Thread, Loop,
          MaxInFlight   \* bound on the handlers between two steps

ASSUME PairingAssumption ==
  /\ Collected \in [Report -> Nat]
  /\ NoReport \notin Report
  /\ \A r \in Report : Name[r] # NoName
  /\ MaxPending \in Nat \ {0} /\ MaxInFlight \in Nat \ {0}
  /\ Loop \notin Thread

VARIABLES
  request,   \* request[s]: the row of session s
  host,      \* the host of this MAC and the name it shows
  reports,   \* the inventory_reports of the host
  handler,   \* handler[r]: what runs in thread or loop r, and what it read
  overtook   \* a report was committed over a host row that was read before
             \* another report changed it

pvars == <<request, host, reports, handler, overtook>>

Runner == Thread \cup {Loop}
Names  == {Name[r] : r \in Report} \cup {NoName}
Idle   == [step |-> "idle", session |-> NoReport, report |-> NoReport, read |-> NoName,
           pending |-> 0]

PairingTypeOK ==
  /\ request \in [Session -> [status : {"none", "pending", "approved", "rejected", "expired"},
                              past : BOOLEAN, used : BOOLEAN, report : Report \cup {NoReport}]]
  /\ host \in [known : BOOLEAN, name : Names]
  /\ reports \subseteq Report
  /\ \A r \in Runner :
       handler[r].step \in {"idle", "create", "expire", "approve", "reject", "ingest", "mark"}
  /\ overtook \in BOOLEAN

PairingInit ==
  /\ request = [s \in Session |-> [status |-> "none", past |-> FALSE, used |-> FALSE,
                                   report |-> NoReport]]
  /\ host \in [known : BOOLEAN, name : {NoName}]
  /\ reports = {}
  /\ handler = [r \in Runner |-> Idle]
  /\ overtook = FALSE
-----------------------------------------------------------------------------
Begin(r, job) ==
  /\ handler[r] = Idle
  /\ Cardinality({q \in Runner : handler[q] # Idle}) < MaxInFlight
  /\ handler' = [handler EXCEPT ![r] = job]
  /\ UNCHANGED <<request, host, reports, overtook>>

Done(r) == handler' = [handler EXCEPT ![r] = Idle]

(* expires_at is reached.                                                  *)
TimePasses(s) ==
  /\ request[s].status # "none" /\ ~request[s].past
  /\ request' = [request EXCEPT ![s].past = TRUE]
  /\ UNCHANGED <<host, reports, handler, overtook>>

Expired(row) == IF row.past THEN [row EXCEPT !.status = "expired"] ELSE row

(* The requests of this MAC that wait for the operator.                    *)
Pending == {s \in Session : request[s].status = "pending" /\ ~request[s].past}

(* api.create_pairing_request arrives, and what it would count now.        *)
CreateBegin(r, s) ==
  /\ request[s].status = "none"
  /\ Begin(r, [Idle EXCEPT !.step = "create", !.session = s, !.pending = Cardinality(Pending)])

(* Slip: the count comes from before the lock.                             *)
CountedBefore(r) == handler[r].pending

(* Its first statement is an UPDATE: from there on it holds the lock, and  *)
(* counts after it.                                                        *)
Counted(r) == Cardinality(Pending)

(* The rows that are over expire and the new one is inserted, or none of   *)
(* it when there are too many.                                             *)
CreateCommit(r) ==
  /\ handler[r].step = "create"
  /\ LET s == handler[r].session IN
       request' =
         IF Counted(r) >= MaxPending \/ request[s].status # "none" THEN request
         ELSE [q \in Session |->
                 IF q = s THEN [request[q] EXCEPT !.status = "pending"]
                 ELSE IF request[q].status = "pending" THEN Expired(request[q])
                 ELSE request[q]]
  /\ Done(r)
  /\ UNCHANGED <<host, reports, overtook>>

(* web.pairing_list: one UPDATE.                                           *)
List ==
  /\ \E s \in Session : request[s].past /\ request[s].status \in {"pending", "approved"}
  /\ request' = [s \in Session |-> IF request[s].status \in {"pending", "approved"}
                                   THEN Expired(request[s]) ELSE request[s]]
  /\ UNCHANGED <<host, reports, handler, overtook>>

(* api.pairing_request_status, and the other handlers, find a request that *)
(* is over.                                                                *)
Poll(r, s) ==
  /\ request[s].status \in {"pending", "approved"} /\ request[s].past
  /\ Begin(r, [Idle EXCEPT !.step = "expire", !.session = s])

(* web.pairing_approve and web.pairing_reject, on the event loop.          *)
Decide(s, decision) ==
  /\ request[s].status = "pending" /\ ~request[s].past
  /\ Begin(Loop, [Idle EXCEPT !.step = decision, !.session = s])

StatusCommit(r) ==
  /\ handler[r].step \in {"expire", "approve", "reject"}
  /\ request' = [request EXCEPT ![handler[r].session].status =
                   CASE handler[r].step = "expire"  -> "expired"
                     [] handler[r].step = "approve" -> "approved"
                     [] handler[r].step = "reject"  -> "rejected"]
  /\ host' = [host EXCEPT !.known = @ \/ handler[r].step = "approve"]
  /\ Done(r)
  /\ UNCHANGED <<reports, overtook>>

(* web.host_create.                                                        *)
Register ==
  /\ ~host.known
  /\ host' = [host EXCEPT !.known = TRUE]
  /\ UNCHANGED <<request, reports, handler, overtook>>

(* api.receive_inventory and web.import_report: the host row is read.      *)
ReportBegin(r, report) ==
  /\ host.known
  /\ Begin(r, [Idle EXCEPT !.step = "ingest", !.report = report, !.read = host.name])

(* api.receive_pairing_inventory, with the one-time capability.  A used    *)
(* capability only confirms its report, and writes nothing.                *)
PairingReportBegin(r, s, report) ==
  /\ request[s].status = "approved" /\ ~request[s].past /\ ~request[s].used
  /\ Begin(r, [Idle EXCEPT !.step = "ingest", !.session = s,
                           !.report = report, !.read = host.name])

(* Slip: the report that came last is taken for the latest.                *)
LatestReceived(report) == TRUE

(* The latest of the reports, by collected_at and then by arrival.         *)
Latest(report) == \A q \in reports : Collected[q] <= Collected[report]

(* ingest_inventory, one transaction: the report is inserted, and the host *)
(* takes its name if no other report is newer.                             *)
Ingest(r) ==
  /\ handler[r].step = "ingest"
  /\ LET report == handler[r].report IN
       IF report \in reports THEN UNCHANGED <<host, reports, overtook>>
       ELSE /\ reports' = reports \cup {report}
            /\ host' = [host EXCEPT !.name =
                          IF Latest(report) /\ Name[report] # handler[r].read
                          THEN Name[report] ELSE @]
            /\ overtook' = (overtook \/ host.name # handler[r].read)
  /\ IF handler[r].session = NoReport
     THEN Done(r) ELSE handler' = [handler EXCEPT ![r].step = "mark"]
  /\ UNCHANGED request

(* A second transaction uses the capability up.                            *)
Mark(r) ==
  /\ handler[r].step = "mark"
  /\ request' = [request EXCEPT ![handler[r].session].used = TRUE,
                                ![handler[r].session].report = handler[r].report]
  /\ Done(r)
  /\ UNCHANGED <<host, reports, overtook>>

(* The server stops and starts.                                            *)
Stop ==
  /\ \E r \in Runner : handler[r] # Idle
  /\ handler' = [r \in Runner |-> Idle]
  /\ UNCHANGED <<request, host, reports, overtook>>

PairingNext ==
  \/ List \/ Register \/ Stop
  \/ \E s \in Session : \/ TimePasses(s)
                        \/ \E d \in {"approve", "reject"} : Decide(s, d)
  \/ \E r \in Thread, s \in Session :
       CreateBegin(r, s) \/ Poll(r, s) \/ \E q \in Report : PairingReportBegin(r, s, q)
  \/ \E r \in Runner : \/ CreateCommit(r) \/ StatusCommit(r) \/ Ingest(r) \/ Mark(r)
                       \/ \E q \in Report : ReportBegin(r, q)

PairingSpec == PairingInit /\ [][PairingNext]_pvars
-----------------------------------------------------------------------------
(* However many machines ask at once, the operator never faces more open   *)
(* requests of one MAC than the limit: the limit is counted and the row    *)
(* inserted by many threads.                                               *)
PendingBounded == Cardinality(Pending) <= MaxPending

(* The summary of a host is that of its newest report, in whatever order   *)
(* and by whichever way reports arrive, late offline ones included, unless *)
(* one handler read the host before another changed it.                    *)
HostShowsLatest ==
  reports # {} /\ ~overtook =>
    \E r \in reports : /\ host.name = Name[r]
                       /\ \A q \in reports : Collected[q] <= Collected[r]
=============================================================================
