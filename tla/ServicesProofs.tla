--------------------------- MODULE ServicesProofs ---------------------------
(***************************************************************************)
(* Proofs about the small services: pairing and inventories, credentials,  *)
(* the relay cache, hooks and multicast sessions, each for every value of  *)
(* its constants.                                                          *)
(***************************************************************************)
EXTENDS Services, FiniteSetTheorems, WellFoundedInduction, TLAPS

-----------------------------------------------------------------------------
(* Pairing and inventories.                                                *)

Request == [status : {"none", "pending", "approved", "rejected", "expired"},
            past : BOOLEAN, used : BOOLEAN, report : Report \cup {NoReport}]

(* The handlers hold what they need: one that creates a request and one    *)
(* that marks it know its session, one that ingests knows its report.      *)
JobsKnown ==
  \A r \in Runner :
    /\ handler[r].step \in {"ingest", "mark"} => handler[r].report \in Report
    /\ handler[r].step \in {"expire", "approve", "reject"} => handler[r].session \in Session
    /\ handler[r].step = "ingest" => handler[r].session \in Session \cup {NoReport}
    /\ handler[r].step = "mark" => handler[r].session \in Session

PInv ==
  /\ request \in [Session -> Request] /\ reports \subseteq Report
  /\ host \in [known : BOOLEAN, name : Names]
  /\ DOMAIN handler = Runner /\ JobsKnown
  /\ IsFiniteSet(Pending) /\ PendingBounded
  /\ HostShowsLatest

(* Nothing is pending or in flight at first.                               *)
LEMMA PairingInitial == PairingInit => PInv
<1> SUFFICES ASSUME PairingInit PROVE PInv
  OBVIOUS
<1>1. request \in [Session -> Request] /\ Pending = {}
  BY DEF PairingInit, Request, Pending
<1>2. IsFiniteSet(Pending) /\ PendingBounded
  BY <1>1, FS_EmptySet, PairingAssumption DEF PendingBounded
<1>3. host \in [known : BOOLEAN, name : Names]
  BY DEF PairingInit, Names
<1>4. DOMAIN handler = Runner /\ JobsKnown
  BY DEF PairingInit, JobsKnown, Idle
<1> QED
  BY <1>1, <1>2, <1>3, <1>4 DEF PairingInit, PInv, HostShowsLatest

(* Requests may leave the pending ones.                                    *)
LEMMA FewerPending ==
  ASSUME PInv, Pending' \subseteq Pending
  PROVE  IsFiniteSet(Pending)' /\ PendingBounded'
<1>1. IsFiniteSet(Pending') /\ Cardinality(Pending') <= Cardinality(Pending)
  BY FS_Subset DEF PInv
<1>2. Cardinality(Pending) \in Nat /\ Cardinality(Pending') \in Nat
  BY <1>1, FS_CardinalityType DEF PInv
<1> QED
  BY <1>1, <1>2, PairingAssumption DEF PInv, PendingBounded

(* A handler begins, with what it needs.                                   *)
LEMMA BeginStep ==
  ASSUME PInv, NEW r \in Runner, NEW job, Begin(r, job),
         job.step \in {"ingest", "mark"} => job.report \in Report,
         job.step \in {"expire", "approve", "reject", "mark"} => job.session \in Session,
         job.step = "ingest" => job.session \in Session \cup {NoReport}
  PROVE  PInv'
<1>1. handler' = [handler EXCEPT ![r] = job] /\ UNCHANGED <<request, host, reports, overtook>>
  BY DEF Begin
<1>2. DOMAIN handler' = Runner /\ JobsKnown'
  BY <1>1 DEF PInv, JobsKnown
<1> QED
  BY <1>1, <1>2 DEF PInv, Pending, PendingBounded, HostShowsLatest

(* A handler ends and leaves its thread free.                              *)
LEMMA DoneStep ==
  ASSUME PInv, NEW r \in Runner, Done(r)
  PROVE  DOMAIN handler' = Runner /\ JobsKnown'
BY DEF PInv, JobsKnown, Done, Idle

(* A creation counts under the lock it writes with: one more is pending    *)
(* only where there was room for it.                                       *)
LEMMA CreateStep ==
  ASSUME PInv, NEW r \in Runner, CreateCommit(r)
  PROVE  PInv'
<1> DEFINE s == handler[r].session
           NewRow(q) == IF q = s THEN [request[q] EXCEPT !.status = "pending"]
                        ELSE IF request[q].status = "pending" THEN Expired(request[q])
                        ELSE request[q]
<1>1. \/ request' = request
      \/ Cardinality(Pending) < MaxPending /\ request' = [q \in Session |-> NewRow(q)]
  <2>1. Cardinality(Pending) \in Nat
    BY FS_CardinalityType DEF PInv
  <2> QED
    BY <2>1, PairingAssumption DEF CreateCommit, Counted
<1>2. request \in [Session -> Request]
  BY DEF PInv
<1>3. \A q \in Session : NewRow(q) \in Request
  BY <1>2 DEF Request, Expired
<1>4. request' \in [Session -> Request]
  BY <1>1, <1>2, <1>3
<1>5. IsFiniteSet(Pending)' /\ PendingBounded'
  <2>1. CASE request' = request
    BY <2>1 DEF PInv, Pending, PendingBounded
  <2>2. CASE Cardinality(Pending) < MaxPending /\ request' = [q \in Session |-> NewRow(q)]
    <3>1. Pending' \subseteq Pending \cup {s}
      BY <1>2, <2>2 DEF Pending, Expired, Request
    <3>2. /\ IsFiniteSet(Pending \cup {s})
          /\ Cardinality(Pending \cup {s}) <= Cardinality(Pending) + 1
      <4>1. IsFiniteSet(Pending) /\ Cardinality(Pending) \in Nat
        BY FS_CardinalityType DEF PInv
      <4>2. /\ IsFiniteSet(Pending \cup {s})
            /\ \/ Cardinality(Pending \cup {s}) = Cardinality(Pending)
               \/ Cardinality(Pending \cup {s}) = Cardinality(Pending) + 1
        <5> HIDE DEF s
        <5> QED
          BY <4>1, FS_AddElement
      <4> QED
        BY <4>1, <4>2
    <3>3. IsFiniteSet(Pending') /\ Cardinality(Pending') <= Cardinality(Pending \cup {s})
      BY <3>1, <3>2, FS_Subset
    <3>4. Cardinality(Pending) \in Nat /\ Cardinality(Pending') \in Nat
          /\ Cardinality(Pending \cup {s}) \in Nat
      BY <3>2, <3>3, FS_CardinalityType DEF PInv
    <3> QED
      BY <2>2, <3>2, <3>3, <3>4, PairingAssumption DEF PendingBounded
  <2> QED
    BY <1>1, <2>1, <2>2
<1>6. DOMAIN handler' = Runner /\ JobsKnown'
  BY DoneStep DEF CreateCommit
<1>7. UNCHANGED <<host, reports, overtook>>
  BY DEF CreateCommit
<1> QED
  BY <1>4, <1>5, <1>6, <1>7 DEF PInv, HostShowsLatest

(* The newest report stays the one a host shows, if no handler read the    *)
(* host before another one changed it.                                     *)
LEMMA IngestStep ==
  ASSUME PInv, NEW r \in Runner, Ingest(r)
  PROVE  PInv'
<1> DEFINE report == handler[r].report
<1>1. report \in Report /\ handler[r].step = "ingest" /\ request' = request
  BY DEF Ingest, PInv, JobsKnown
<1>2. DOMAIN handler' = Runner /\ JobsKnown'
  <2>1. CASE handler[r].session = NoReport
    BY <2>1, DoneStep DEF Ingest
  <2>2. CASE handler[r].session # NoReport
    <3>1. handler' = [handler EXCEPT ![r].step = "mark"]
      BY <2>2 DEF Ingest
    <3> QED
      BY <1>1, <2>2, <3>1 DEF PInv, JobsKnown
  <2> QED
    BY <2>1, <2>2
<1>3. CASE report \in reports
  BY <1>1, <1>2, <1>3 DEF Ingest, PInv, Pending, PendingBounded, HostShowsLatest
<1>4. CASE report \notin reports
  <2>1. /\ reports' = reports \cup {report}
        /\ host' = [host EXCEPT !.name = IF Latest(report) /\ Name[report] # handler[r].read
                                         THEN Name[report] ELSE @]
        /\ overtook' = (overtook \/ host.name # handler[r].read)
    BY <1>4 DEF Ingest
  <2>2. reports' \subseteq Report /\ host' \in [known : BOOLEAN, name : Names]
    BY <1>1, <2>1 DEF PInv, Names
  <2>3. \A q \in reports' : Collected[q] \in Int
    BY <2>2, PairingAssumption
  <2>4. ASSUME ~overtook'
        PROVE  \E p \in reports' : /\ host'.name = Name[p]
                                   /\ \A q \in reports' : Collected[q] <= Collected[p]
    <3>1. ~overtook /\ host.name = handler[r].read
      BY <2>1, <2>4
    <3>2. CASE Latest(report)
      <4>1. host'.name = Name[report]
        BY <2>1, <3>1, <3>2 DEF PInv
      <4>2. \A q \in reports' : Collected[q] <= Collected[report]
        BY <2>1, <2>3, <3>2 DEF Latest
      <4> QED
        BY <2>1, <4>1, <4>2
    <3>3. CASE ~Latest(report)
      <4>1. PICK newer \in reports : ~(Collected[newer] <= Collected[report])
        BY <3>3 DEF Latest
      <4>2. PICK p \in reports : /\ host.name = Name[p]
                                 /\ \A q \in reports : Collected[q] <= Collected[p]
        BY <3>1, <4>1 DEF PInv, HostShowsLatest
      <4>3. Collected[report] <= Collected[p]
        <5>1. Collected[newer] <= Collected[p] /\ Collected[newer] \in Int
              /\ Collected[p] \in Int /\ Collected[report] \in Int
          BY <2>1, <2>3, <4>2
        <5> QED
          BY <4>1, <5>1
      <4>4. host'.name = host.name
        BY <2>1, <3>3 DEF PInv
      <4> QED
        BY <2>1, <4>2, <4>3, <4>4
    <3> QED
      BY <3>2, <3>3
  <2>5. HostShowsLatest'
    BY <2>4 DEF HostShowsLatest
  <2> QED
    BY <1>1, <1>2, <2>2, <2>5 DEF PInv, Pending, PendingBounded
<1> QED
  BY <1>3, <1>4

(* Every step of a handler, of the operator or of the clock keeps the      *)
(* invariant.                                                              *)
LEMMA PairingStep == PInv /\ [PairingNext]_pvars => PInv'
<1> SUFFICES ASSUME PInv, [PairingNext]_pvars PROVE PInv'
  OBVIOUS
<1>0. request \in [Session -> Request] /\ host \in [known : BOOLEAN, name : Names]
  BY DEF PInv
<1>1. ASSUME NEW s \in Session, TimePasses(s) PROVE PInv'
  <2>1. request' = [request EXCEPT ![s].past = TRUE] /\ UNCHANGED <<host, reports, handler, overtook>>
    BY <1>1 DEF TimePasses
  <2>2. request' \in [Session -> Request] /\ Pending' \subseteq Pending
    BY <1>0, <2>1 DEF Request, Pending
  <2> QED
    BY <2>1, <2>2, FewerPending DEF PInv, JobsKnown, HostShowsLatest
<1>2. CASE List
  <2>1. request' = [s \in Session |-> IF request[s].status \in {"pending", "approved"}
                                     THEN Expired(request[s]) ELSE request[s]]
        /\ UNCHANGED <<host, reports, handler, overtook>>
    BY <1>2 DEF List
  <2>2. request' \in [Session -> Request] /\ Pending' \subseteq Pending
    BY <1>0, <2>1 DEF Request, Pending, Expired
  <2> QED
    BY <2>1, <2>2, FewerPending DEF PInv, JobsKnown, HostShowsLatest
<1>3. CASE Register
  BY <1>3 DEF Register, PInv, JobsKnown, Pending, PendingBounded, HostShowsLatest
<1>4. CASE Stop
  BY <1>4 DEF Stop, PInv, JobsKnown, Idle, Pending, PendingBounded, HostShowsLatest
<1>5. ASSUME NEW s \in Session, NEW d \in {"approve", "reject"}, Decide(s, d) PROVE PInv'
  BY <1>5, BeginStep DEF Decide, Idle, Runner
<1>6. ASSUME NEW r \in Thread, NEW s \in Session, CreateBegin(r, s) \/ Poll(r, s) PROVE PInv'
  BY <1>6, BeginStep DEF CreateBegin, Poll, Idle, Runner
<1>7. ASSUME NEW r \in Thread, NEW s \in Session, NEW q \in Report, PairingReportBegin(r, s, q)
      PROVE  PInv'
  BY <1>7, BeginStep DEF PairingReportBegin, Idle, Runner
<1>8. ASSUME NEW r \in Runner, NEW q \in Report, ReportBegin(r, q) PROVE PInv'
  BY <1>8, BeginStep DEF ReportBegin, Idle
<1>9. ASSUME NEW r \in Runner, StatusCommit(r) PROVE PInv'
  <2> DEFINE s == handler[r].session
  <2>1. PICK status \in {"expired", "approved", "rejected"} :
          request' = [request EXCEPT ![s].status = status]
    BY <1>9 DEF StatusCommit
  <2>2. request' \in [Session -> Request] /\ Pending' \subseteq Pending
    <3>1. s \in Session
      BY <1>9 DEF StatusCommit, PInv, JobsKnown
    <3>2. [request[s] EXCEPT !.status = status] \in Request
      BY <1>0, <3>1 DEF Request
    <3>3. request' = [request EXCEPT ![s] = [request[s] EXCEPT !.status = status]]
      BY <2>1
    <3>4. request' \in [Session -> Request]
      BY <1>0, <3>2, <3>3
    <3> QED
      BY <1>0, <2>1, <3>1, <3>4 DEF Request, Pending
  <2>3. host' = [host EXCEPT !.known = @ \/ handler[r].step = "approve"]
        /\ UNCHANGED <<reports, overtook>>
    BY <1>9 DEF StatusCommit
  <2>4. host' \in [known : BOOLEAN, name : Names] /\ host'.name = host.name
    BY <1>0, <2>3
  <2>5. DOMAIN handler' = Runner /\ JobsKnown'
    BY <1>9, DoneStep DEF StatusCommit
  <2> QED
    BY <2>2, <2>3, <2>4, <2>5, FewerPending DEF PInv, HostShowsLatest
<1>10. ASSUME NEW r \in Runner, Mark(r) PROVE PInv'
  <2> DEFINE s == handler[r].session
  <2>1. request' = [request EXCEPT ![s].used = TRUE, ![s].report = handler[r].report]
        /\ UNCHANGED <<host, reports, overtook>>
    BY <1>10 DEF Mark
  <2>2. s \in Session /\ handler[r].report \in Report
    BY <1>10 DEF Mark, PInv, JobsKnown
  <2>3. request' \in [Session -> Request] /\ Pending' \subseteq Pending
    <3> DEFINE used == [request[s] EXCEPT !.used = TRUE, !.report = handler[r].report]
    <3> HIDE DEF s
    <3>1. used \in Request /\ used.status = request[s].status /\ used.past = request[s].past
      <4>1. request[s] \in Request
        BY <1>0, <2>2
      <4> QED
        BY <2>2, <4>1 DEF Request
    <3>2. request' = [request EXCEPT ![s] = used]
      BY <1>0, <2>1, <2>2
    <3> HIDE DEF used
    <3>3. request' \in [Session -> Request]
      BY <1>0, <3>1, <3>2
    <3> QED
      BY <1>0, <2>2, <3>1, <3>2, <3>3 DEF Request, Pending
  <2>4. DOMAIN handler' = Runner /\ JobsKnown'
    BY <1>10, DoneStep DEF Mark
  <2> QED
    BY <2>1, <2>3, <2>4, FewerPending DEF PInv, HostShowsLatest
<1>11. CASE UNCHANGED pvars
  BY <1>11 DEF pvars, PInv, JobsKnown, Pending, PendingBounded, HostShowsLatest
<1> QED
  BY <1>1, <1>2, <1>3, <1>4, <1>5, <1>6, <1>7, <1>8, <1>9, <1>10, <1>11, CreateStep, IngestStep
     DEF PairingNext

(* So it holds throughout.                                                 *)
LEMMA PairingHolds == PairingSpec => []PInv
BY PairingInitial, PairingStep, PTL DEF PairingSpec

(* For any number of sessions, threads and handlers in flight: the open    *)
(* requests of a MAC never exceed the limit.                               *)
THEOREM PendingIsBounded == PairingSpec => []PendingBounded
BY PairingHolds, PTL DEF PInv

(* For any reports with any dates, in any order: a host shows its newest   *)
(* report, unless a handler read the host before another one changed it.   *)
THEOREM NewestReportIsShown == PairingSpec => []HostShowsLatest
BY PairingHolds, PTL DEF PInv

-----------------------------------------------------------------------------
(* The relay cache.                                                        *)

WorkKnown ==
  /\ DOMAIN work = Worker
  /\ \A w \in Worker : /\ work[w].step \in {"create", "update", "replace"} => work[w].digest \in Digest
                       /\ work[w].step \in {"create", "update"} => work[w].block \in Block

(* A file that was verified is whole until it is renamed.                  *)
VerifiedIsWhole ==
  overtaken \/ \A w \in Worker : work[w].step = "replace" => staged[work[w].digest] \in {NoFile, Block}

LeasesKnown ==
  /\ lease \in [Reader -> [step : {"none", "found", "held"}, digest : Digest \cup {NoDigest},
                          late : BOOLEAN]]
  /\ \A r \in Reader : lease[r].step # "none" => lease[r].digest \in Digest

RInv ==
  /\ cached \in [Digest -> SUBSET Block] /\ staged \in [Digest -> SUBSET Block]
  /\ WorkKnown /\ LeasesKnown
  /\ VerifiedIsWhole /\ CachedIsWhole /\ LeasedStays

(* The cache begins empty, with no work and no leases.                     *)
LEMMA RelayInitial == RelayInit => RInv
BY DEF RelayInit, RInv, WorkKnown, LeasesKnown, VerifiedIsWhole, CachedIsWhole, LeasedStays, Free, NoLease,
       NoFile, Entries, Has

(* A worker starts on what it knows; a file it goes to rename is whole.    *)
LEMMA StartStep ==
  ASSUME RInv, NEW w \in Worker, NEW step, NEW d, NEW b, StartWork(w, step, d, b),
         step \in {"create", "update", "replace"} => d \in Digest,
         step \in {"create", "update"} => b \in Block,
         step = "replace" => staged[d] = Block
  PROVE  WorkKnown' /\ (UNCHANGED <<staged, overtaken>> => VerifiedIsWhole')
<1>1. work' = [work EXCEPT ![w] = [step |-> step, digest |-> d, block |-> b]]
  BY DEF StartWork
<1> QED
  BY <1>1 DEF RInv, WorkKnown, VerifiedIsWhole

(* A worker that ends renames nothing any more.                            *)
LEMMA EndStep ==
  ASSUME RInv, NEW w \in Worker, Ends(w)
  PROVE  WorkKnown' /\ (UNCHANGED <<staged, overtaken>> => VerifiedIsWhole')
<1>1. work' = [work EXCEPT ![w] = Free]
  BY DEF Ends
<1> QED
  BY <1>1 DEF RInv, WorkKnown, VerifiedIsWhole, Free

(* A write changes a staged file, and no verified one unless it overtakes  *)
(* its rename.                                                             *)
LEMMA WriteStep ==
  ASSUME RInv, NEW w \in Worker, Write(w)
  PROVE  RInv'
<1> DEFINE d == work[w].digest
           b == work[w].block
<1>1. d \in Digest /\ b \in Block /\ UNCHANGED <<cached, lock, lease>>
  BY DEF Write, RInv, WorkKnown
<1>2. WorkKnown'
  BY EndStep DEF Write
<1>3. staged' \in [Digest -> SUBSET Block]
  BY <1>1 DEF Write, RInv, NoFile
<1>4. \A v \in Worker : work'[v].step = "replace" => work[v] = work'[v]
  BY DEF Write, Ends, Free, RInv, WorkKnown
<1>5. VerifiedIsWhole'
  <2>1. CASE work[w].step = "create"
    <3>1. staged' = [staged EXCEPT ![d] = {b}]
          /\ overtaken' = (overtaken \/ \E v \in Worker : work[v].step = "replace" /\ work[v].digest = d)
      BY <2>1 DEF Write
    <3>2. ASSUME ~overtaken', NEW v \in Worker, work'[v].step = "replace"
          PROVE  staged'[work'[v].digest] \in {NoFile, Block}
      <4>1. work'[v] = work[v] /\ work[v].digest \in Digest
        BY <1>4, <3>2 DEF RInv, WorkKnown
      <4>2. staged[work[v].digest] \in {NoFile, Block}
        BY <3>1, <3>2, <4>1 DEF RInv, VerifiedIsWhole
      <4>3. work[v].digest # d
        BY <3>1, <3>2, <4>1
      <4>4. staged'[work[v].digest] = staged[work[v].digest]
        <5> HIDE DEF d, b
        <5> QED
          BY <1>1, <3>1, <4>1, <4>3 DEF RInv, LeasesKnown
      <4> QED
        BY <4>1, <4>2, <4>4
    <3> QED
      BY <3>2 DEF VerifiedIsWhole
  <2>2. CASE work[w].step = "update"
    <3>1. staged' = [staged EXCEPT ![d] = IF @ = NoFile THEN @ ELSE @ \cup {b}]
          /\ overtaken' = overtaken
      BY <2>2 DEF Write
    <3>2. \A e \in Digest : staged[e] \in {NoFile, Block} => staged'[e] = staged[e]
      BY <1>1, <3>1 DEF RInv, LeasesKnown
    <3>3. ASSUME ~overtaken', NEW v \in Worker, work'[v].step = "replace"
          PROVE  staged'[work'[v].digest] \in {NoFile, Block}
      <4>1. work'[v] = work[v] /\ work[v].digest \in Digest
        BY <1>4, <3>3 DEF RInv, WorkKnown
      <4>2. staged[work[v].digest] \in {NoFile, Block}
        BY <3>1, <3>3, <4>1 DEF RInv, VerifiedIsWhole
      <4> QED
        BY <3>2, <4>1, <4>2
    <3> QED
      BY <3>3 DEF VerifiedIsWhole
  <2> QED
    BY <2>1, <2>2 DEF Write
<1>6. CachedIsWhole'
  <2>1. overtaken => overtaken'
    BY DEF Write
  <2> QED
    BY <1>1, <2>1 DEF RInv, CachedIsWhole, Entries, Has, HasWhole
<1>7. LeasedStays'
  BY <1>1 DEF RInv, LeasedStays, Has
<1> QED
  BY <1>1, <1>2, <1>3, <1>5, <1>6, <1>7 DEF RInv, LeasesKnown

(* A rename makes a verified file a cached one.                            *)
LEMMA ReplaceStep ==
  ASSUME RInv, NEW w \in Worker, Replace(w)
  PROVE  RInv'
<1> DEFINE d == work[w].digest
<1>1. d \in Digest /\ work[w].step = "replace" /\ UNCHANGED <<lease, overtaken>>
  BY DEF Replace, RInv, WorkKnown
<1>2. CASE staged[d] = NoFile
  BY <1>1, <1>2, EndStep DEF Replace, RInv, LeasesKnown, CachedIsWhole, LeasedStays, Entries, Has, HasWhole
<1>3. CASE staged[d] # NoFile
  <2>1. /\ cached' = [cached EXCEPT ![d] = staged[d]] /\ staged' = [staged EXCEPT ![d] = NoFile]
        /\ work' = [work EXCEPT ![w].step = "evict"]
    BY <1>3 DEF Replace, Goes
  <2>2. cached' \in [Digest -> SUBSET Block] /\ staged' \in [Digest -> SUBSET Block]
    BY <1>1, <2>1 DEF RInv, NoFile
  <2>3. WorkKnown' /\ \A v \in Worker : work'[v].step = "replace" => work[v] = work'[v]
    BY <2>1 DEF RInv, WorkKnown
  <2>4. VerifiedIsWhole'
    BY <1>1, <2>1, <2>3 DEF RInv, VerifiedIsWhole, WorkKnown
  <2>5. CachedIsWhole'
    BY <1>1, <1>3, <2>1 DEF RInv, VerifiedIsWhole, CachedIsWhole, Entries, Has, HasWhole
  <2>6. \A e \in Digest : Has(e) => Has(e)'
    BY <1>1, <1>3, <2>1 DEF RInv, Has
  <2>7. LeasedStays'
    BY <1>1, <1>3, <2>1, <2>6 DEF RInv, LeasesKnown, LeasedStays
  <2> QED
    BY <1>1, <2>2, <2>3, <2>4, <2>5, <2>7 DEF RInv, LeasesKnown
<1> QED
  BY <1>2, <1>3

(* Eviction takes only what no lease in force protects.                    *)
LEMMA EvictStep ==
  ASSUME RInv, NEW w \in Worker, Evict(w)
  PROVE  RInv'
<1>1. PICK V \in Victims : cached' = [d \in Digest |-> IF d \in V THEN NoFile ELSE cached[d]]
  BY DEF Evict
<1>2. V \subseteq Unleased
  BY DEF Victims
<1>3. cached' \in [Digest -> SUBSET Block]
  BY <1>1 DEF RInv, NoFile
<1>4. CachedIsWhole'
  BY <1>1 DEF Evict, RInv, CachedIsWhole, Entries, Has, HasWhole
<1>5. LeasedStays'
  <2>1. ASSUME NEW r \in Reader, lease[r].step = "held" PROVE lease[r].digest \notin V
    BY <1>2, <2>1 DEF Unleased, Entries
  <2> QED
    BY <1>1, <2>1 DEF Evict, RInv, LeasesKnown, LeasedStays, Has
<1> QED
  BY <1>3, <1>4, <1>5, EndStep DEF Evict, RInv, LeasesKnown

(* Every step of a worker, a reader or the clock keeps the invariant.      *)
LEMMA RelayStep == RInv /\ [RelayNext]_rvars => RInv'
<1> SUFFICES ASSUME RInv, [RelayNext]_rvars PROVE RInv'
  OBVIOUS
<1>1. ASSUME NEW w \in Worker, NEW d \in Digest, Publish(w, d) PROVE RInv'
  <2>1. cached' = [cached EXCEPT ![d] = Block] /\ UNCHANGED <<staged, lease, overtaken>>
    BY <1>1 DEF Publish
  <2>2. WorkKnown' /\ VerifiedIsWhole'
    BY <1>1, <2>1, StartStep DEF Publish
  <2>3. \A e \in Digest : /\ Has(e) => Has(e)'
                          /\ Has(e)' /\ e # d => Has(e) /\ cached'[e] = cached[e]
    BY <2>1 DEF RInv, Has, NoFile
  <2>4. LeasedStays'
    BY <2>1, <2>3 DEF RInv, LeasesKnown, LeasedStays
  <2>5. CachedIsWhole'
    BY <2>1, <2>3 DEF RInv, CachedIsWhole, Entries, HasWhole
  <2> QED
    BY <2>1, <2>2, <2>4, <2>5 DEF RInv, LeasesKnown
<1>2. ASSUME NEW w \in Worker, NEW d \in Digest, NEW b \in Block, WriteBegin(w, d, b) PROVE RInv'
  <2>1. UNCHANGED <<cached, staged, lease, overtaken>>
    BY <1>2 DEF WriteBegin
  <2>2. WorkKnown' /\ VerifiedIsWhole'
    BY <1>2, <2>1, StartStep DEF WriteBegin
  <2> QED
    BY <2>1, <2>2 DEF RInv, LeasesKnown, CachedIsWhole, LeasedStays, Entries, Has, HasWhole
<1>3. ASSUME NEW w \in Worker, NEW d \in Digest, CompleteBegin(w, d) PROVE RInv'
  <2>1. UNCHANGED <<cached, staged, lease, overtaken>>
    BY <1>3 DEF CompleteBegin
  <2>2. WorkKnown' /\ VerifiedIsWhole'
    BY <1>3, <2>1, StartStep DEF CompleteBegin, Complete
  <2> QED
    BY <2>1, <2>2 DEF RInv, LeasesKnown, CachedIsWhole, LeasedStays, Entries, Has, HasWhole
<1>4. ASSUME NEW w \in Worker, Trim(w) PROVE RInv'
  <2>1. UNCHANGED <<cached, staged, lease, overtaken>>
    BY <1>4 DEF Trim
  <2>2. WorkKnown' /\ VerifiedIsWhole'
    BY <1>4, <2>1, StartStep DEF Trim
  <2> QED
    BY <2>1, <2>2 DEF RInv, LeasesKnown, CachedIsWhole, LeasedStays, Entries, Has, HasWhole
<1>5. ASSUME NEW r \in Reader, (\E d \in Digest : AcquireBegin(r, d)) \/ Acquire(r) \/ LeaseEnds(r)
      PROVE  RInv'
  <2>1. UNCHANGED <<cached, staged, work, overtaken>>
    BY <1>5 DEF AcquireBegin, Acquire, LeaseEnds
  <2>2. LeasesKnown' /\ LeasedStays'
    <3>1. CASE \E d \in Digest : AcquireBegin(r, d)
      BY <3>1 DEF AcquireBegin, RInv, LeasesKnown, LeasedStays, Has
    <3>2. CASE Acquire(r)
      <4> DEFINE new == [lease[r] EXCEPT !.step = "held", !.late = ~Has(lease[r].digest)]
      <4>1. lease[r] \in [step : {"none", "found", "held"}, digest : Digest \cup {NoDigest},
                          late : BOOLEAN] /\ lease[r].digest \in Digest
        BY <3>2 DEF Acquire, RInv, LeasesKnown
      <4>2. /\ new \in [step : {"none", "found", "held"}, digest : Digest \cup {NoDigest},
                        late : BOOLEAN]
            /\ new.digest = lease[r].digest /\ (Has(new.digest) \/ new.late)
        BY <4>1
      <4>3. lease' = [lease EXCEPT ![r] = new] /\ cached' = cached
        BY <3>2 DEF Acquire, RInv, LeasesKnown
      <4> HIDE DEF new
      <4> QED
        BY <4>1, <4>2, <4>3 DEF RInv, LeasesKnown, LeasedStays, Has
    <3>3. CASE LeaseEnds(r)
      BY <3>3 DEF LeaseEnds, NoLease, RInv, LeasesKnown, LeasedStays, Has
    <3> QED
      BY <1>5, <3>1, <3>2, <3>3
  <2> QED
    BY <2>1, <2>2 DEF RInv, WorkKnown, VerifiedIsWhole, CachedIsWhole, Entries, Has, HasWhole
<1>6. CASE RelayStop
  BY <1>6 DEF RelayStop, RInv, WorkKnown, LeasesKnown, VerifiedIsWhole, CachedIsWhole, LeasedStays, Free, NoLease,
              Entries, Has, HasWhole
<1>7. CASE UNCHANGED rvars
  BY <1>7 DEF rvars, RInv, WorkKnown, LeasesKnown, VerifiedIsWhole, CachedIsWhole, LeasedStays, Entries, Has,
              HasWhole
<1> QED
  BY <1>1, <1>2, <1>3, <1>4, <1>5, <1>6, <1>7, WriteStep, ReplaceStep, EvictStep DEF RelayNext

(* So it holds throughout.                                                 *)
LEMMA RelayHolds == RelaySpec => []RInv
BY RelayInitial, RelayStep, PTL DEF RelaySpec

(* For any artifacts, blocks, workers and sizes: what the relay serves is  *)
(* whole, unless a staged file was begun anew between its verification and *)
(* its rename.                                                             *)
THEOREM ServedIsWhole == RelaySpec => []CachedIsWhole
BY RelayHolds, PTL DEF RInv

(* And it keeps what a reader took a lease on while it was there.          *)
THEOREM LeasesProtect == RelaySpec => []LeasedStays
BY RelayHolds, PTL DEF RInv

-----------------------------------------------------------------------------
(* Hooks.                                                                  *)

(* What the ledger says was done is in place or was rolled back; a run has *)
(* passed only what is in the ledger.                                      *)
HInv ==
  /\ at \in 1 .. Steps + 1
  /\ done \subseteq Step
  /\ ledger \subseteq effect \cup undone
  /\ run = "forward" => 1 .. at - 1 \subseteq ledger
  /\ SuccessHasEffects

(* Nothing has run at first.                                               *)
LEMMA HooksInitial == HooksInit => HInv
BY HooksAssumption DEF HooksInit, HInv, SuccessHasEffects

(* Every step of a run or of a rollback keeps the invariant.               *)
LEMMA HooksStep == HInv /\ [HooksNext]_hvars => HInv'
<1> SUFFICES ASSUME HInv, [HooksNext]_hvars PROVE HInv'
  OBVIOUS
<1> USE HooksAssumption
<1>0. at \in Int /\ Steps \in Int
  BY DEF HInv
<1>1. CASE Deploy
  BY <1>1 DEF Deploy, HInv, SuccessHasEffects
<1>2. CASE Skip
  BY <1>0, <1>2 DEF Skip, InOrder, Step, HInv, SuccessHasEffects
<1>3. CASE Succeed
  BY <1>0, <1>3 DEF Succeed, InOrder, Step, HInv, SuccessHasEffects
<1>4. CASE Fail
  <2>1. effect \subseteq effect' /\ run' \in {"forward", "rollback"} /\ run = "forward"
    BY <1>4 DEF Fail, InOrder
  <2> QED
    BY <1>4, <2>1 DEF Fail, HInv, SuccessHasEffects
<1>5. CASE Rollback
  BY <1>5 DEF Rollback, HInv, SuccessHasEffects
<1>6. CASE Finish
  BY <1>0, <1>6 DEF Finish, Step, HInv, SuccessHasEffects
<1>7. CASE HooksStop
  BY <1>7 DEF HooksStop, HInv, SuccessHasEffects
<1>8. CASE UNCHANGED hvars
  BY <1>8 DEF hvars, HInv, SuccessHasEffects
<1> QED
  BY <1>1, <1>2, <1>3, <1>4, <1>5, <1>6, <1>7, <1>8 DEF HooksNext

(* For any plan, retries and rollbacks: after a run that succeeds every    *)
(* step has its effect, unless an earlier run rolled it back.              *)
THEOREM SuccessIsEffective == HooksSpec => []SuccessHasEffects
<1>1. HInv => SuccessHasEffects
  BY DEF HInv
<1> QED
  BY <1>1, HooksInitial, HooksStep, PTL DEF HooksSpec

-----------------------------------------------------------------------------
(* Multicast.                                                              *)

(* A request asks for pieces its receiver did not have, and what it had    *)
(* then it has now.                                                        *)
NackRemembers ==
  \A nack \in nacks : /\ nack.missing # {} /\ nack.missing \cap nack.seen = {}
                      /\ nack.seen \subseteq received[nack.receiver]

MInv == MulticastTypeOK /\ NackRemembers

Below(P, b) == {c \in P : c < b}

(* A nonempty set of pieces has a least one: one with a least set of       *)
(* smaller ones.                                                           *)
LEMMA LeastPiece ==
  ASSUME NEW P \in SUBSET Piece, P # {}
  PROVE  \E b \in P : Below(P, b) = {}
<1> DEFINE Belows == {Below(P, b) : b \in P}
<1>1. IsFiniteSet(P)
  <2>1. 0 \in Int /\ Pieces - 1 \in Int
    BY MulticastAssumption
  <2>2. IsFiniteSet(Piece)
    BY <2>1, FS_Interval DEF Piece
  <2> QED
    BY <2>2, FS_Subset
<1>2. Belows \subseteq FiniteSubsetsOf(P)
  <2>1. FiniteSubsetsOf(P) = SUBSET P
    BY <1>1, FS_FiniteSubsetsOfFinite
  <2> QED
    BY <2>1 DEF Below
<1>3. PICK D \in Belows : \A E \in Belows : <<E, D>> \notin StrictSubsetOrdering(P)
  <2>1. Belows # {}
    OBVIOUS
  <2> HIDE DEF Belows
  <2> QED
    BY <1>2, <2>1, FS_StrictSubsetOrderingWellFounded, WFMin
<1>4. PICK b \in P : D = Below(P, b)
  BY <1>3
<1>5. ASSUME NEW c \in P, c < b PROVE FALSE
  <2>1. ASSUME NEW d \in P, d < c PROVE d < b
    <3>1. b \in Int /\ c \in Int /\ d \in Int
      BY DEF Piece
    <3> QED
      BY <1>5, <2>1, <3>1
  <2>2. ~(c < c)
    BY DEF Piece
  <2>3. Below(P, c) \subseteq Below(P, b) /\ c \in Below(P, b) /\ c \notin Below(P, c)
    BY <1>5, <2>1, <2>2, Zenon DEF Below
  <2>4. Below(P, c) \in SUBSET P /\ D \in SUBSET P
    BY <1>4 DEF Below
  <2>5. <<Below(P, c), D>> \in StrictSubsetOrdering(P)
    BY <1>4, <2>3, <2>4 DEF StrictSubsetOrdering
  <2> QED
    BY <1>3, <2>5
<1> QED
  BY <1>5 DEF Below

(* Whoever misses something asks for something.                            *)
LEMMA AsksForSome ==
  ASSUME MulticastTypeOK, NEW r \in Receiver, Missing(r) # {}
  PROVE  Asked(r) # {} /\ Asked(r) \subseteq Missing(r)
<1>1. PICK b \in Missing(r) : {c \in Missing(r) : c < b} = {}
  BY LeastPiece DEF Missing, Below
<1>2. Cardinality({c \in Missing(r) : c < b}) = 0
  BY <1>1, FS_EmptySet
<1> QED
  BY <1>1, <1>2, MulticastAssumption DEF Asked

(* Nobody has a piece or has asked for one.                                *)
LEMMA MulticastInitial == MulticastInit => MInv
BY MulticastAssumption DEF MulticastInit, MInv, MulticastTypeOK, NackRemembers

(* Pieces are only gained, so a remembered request stays a past one.       *)
LEMMA MulticastStep == MInv /\ [MulticastNext]_mvars => MInv'
<1> SUFFICES ASSUME MInv, [MulticastNext]_mvars PROVE MInv'
  OBVIOUS
<1>0. MulticastTypeOK /\ NackRemembers
  BY DEF MInv
<1>1. CASE Send
  <2>1. MulticastTypeOK'
    BY <1>0, <1>1, MulticastAssumption DEF Send, MulticastTypeOK
  <2> QED
    BY <1>0, <1>1, <2>1 DEF Send, MInv, NackRemembers
<1>2. ASSUME NEW r \in Receiver, AddReceiver(r) PROVE MInv'
  BY <1>0, <1>2 DEF AddReceiver, MInv, MulticastTypeOK, NackRemembers
<1>3. ASSUME NEW r \in Receiver, NEW b \in Piece, Receive(r, b) PROVE MInv'
  <2>1. received' \in [Receiver -> SUBSET Piece] /\ nacks' = nacks
        /\ \A q \in Receiver : received[q] \subseteq received'[q]
    BY <1>0, <1>3 DEF Receive, MulticastTypeOK
  <2>2. MulticastTypeOK'
    BY <1>0, <1>3, <2>1 DEF Receive, MulticastTypeOK
  <2>3. \A nack \in nacks : nack.receiver \in Receiver
    BY <1>0 DEF MulticastTypeOK
  <2> QED
    BY <1>0, <2>1, <2>2, <2>3 DEF MInv, NackRemembers
<1>4. ASSUME NEW r \in Receiver, RepairRequest(r) PROVE MInv'
  <2> DEFINE new == [receiver |-> r, missing |-> Asked(r), seen |-> received[r]]
  <2>1. nacks' = nacks \cup {new} /\ UNCHANGED <<member, received, sent, repaired, requests>>
    BY <1>4 DEF RepairRequest
  <2>2. Asked(r) # {} /\ Asked(r) \subseteq Missing(r)
    BY <1>0, <1>4, AsksForSome DEF RepairRequest
  <2>3. MulticastTypeOK'
    BY <1>0, <2>1, <2>2 DEF MulticastTypeOK, Missing
  <2>4. new.missing # {} /\ new.missing \cap new.seen = {} /\ new.seen \subseteq received[new.receiver]
    BY <2>2 DEF Missing
  <2> QED
    BY <1>0, <2>1, <2>3, <2>4 DEF MInv, NackRemembers
<1>5. ASSUME NEW nack \in nacks, ValidateRepair(nack) PROVE MInv'
  <2>1. nack.receiver \in Receiver /\ nack.missing \subseteq Piece
    BY <1>0 DEF MulticastTypeOK
  <2>2. MulticastTypeOK'
    BY <1>0, <1>5, <2>1 DEF ValidateRepair, MulticastTypeOK
  <2> QED
    BY <1>0, <1>5, <2>2 DEF ValidateRepair, MInv, NackRemembers
<1>6. CASE UNCHANGED mvars
  BY <1>0, <1>6 DEF mvars, MInv, MulticastTypeOK, NackRemembers
<1> QED
  BY <1>1, <1>2, <1>3, <1>4, <1>5, <1>6 DEF MulticastNext

(* For any receivers and number of pieces: every request for repair asks   *)
(* for something, and is refused only after its receiver got a piece.      *)
THEOREM RefusalsMeanProgress == MulticastSpec => []RefusalMeansProgress
<1>1. MInv => RefusalMeansProgress
  <2> SUFFICES ASSUME MInv, NEW nack \in nacks
               PROVE  nack.missing # {} /\ (~Valid(nack) => nack.seen # received[nack.receiver])
    BY DEF RefusalMeansProgress
  <2>1. nack.missing # {} /\ nack.missing \cap nack.seen = {} /\ nack.missing \subseteq Piece
    BY DEF MInv, NackRemembers, MulticastTypeOK
  <2> QED
    BY <2>1 DEF Valid, Missing
<1> QED
  BY <1>1, MulticastInitial, MulticastStep, PTL DEF MulticastSpec
-----------------------------------------------------------------------------
(* Credentials.                                                            *)

(* No generation is younger than the last one issued, nor than the pointer; *)
(* nor did a request read one that is.                                      *)
NewestLast ==
  /\ \A g \in Generation : row[g].exists => g <= issued /\ row[g].at <= now
  /\ pointer <= issued /\ \A h \in Handler : seen[h].pointer <= issued
  /\ pointer # None => \A g \in Generation : row[g].exists => g <= pointer

(* What is neither revoked nor out of date was granted a grace period by   *)
(* each younger generation that was issued since.                          *)
GraceGiven ==
  \A g, h \in Generation :
    g < h /\ row[g].exists /\ row[h].exists /\ ~row[g].revoked /\ row[g].at <= row[h].at =>
      row[g].grace <= row[h].at + Grace \/ row[g].expires <= row[h].at

(* The credential of the pointer is in force, if no request worked on an   *)
(* outdated one.                                                           *)
PointerInForce ==
  ~outdated /\ pointer # None /\ row[pointer].exists =>
    /\ ~row[pointer].revoked
    /\ row[pointer].grace = Never /\ row[pointer].expires = expires

CInv == CredentialsTypeOK /\ NewestLast /\ GraceGiven /\ PointerInForce

(* What a request remembers of the host before it reads it has its type.   *)
LEMMA UnreadTyped ==
  Unread \in [busy : BOOLEAN, pointer : Generation \cup {None}, expires : Time] /\ 0 \in Time
BY CredentialsAssumption DEF Unread, Time, Never

(* There is no credential at first.                                        *)
LEMMA CredentialsInitial == CredentialsInit => CInv
<1> SUFFICES ASSUME CredentialsInit PROVE CInv
  OBVIOUS
<1> USE CredentialsAssumption
<1>1. NoRow \in [exists : BOOLEAN, at : Time, expires : Time, grace : Time, revoked : BOOLEAN]
  BY DEF NoRow, Time, Never
<1>2. CredentialsTypeOK
  <2>1. row \in [Generation -> [exists : BOOLEAN, at : Time, expires : Time, grace : Time,
                                revoked : BOOLEAN]]
    BY <1>1 DEF CredentialsInit
  <2>2. seen \in [Handler -> [busy : BOOLEAN, pointer : Generation \cup {None}, expires : Time]]
    BY UnreadTyped DEF CredentialsInit
  <2>3. /\ now \in 0 .. MaxTime /\ pointer \in Generation \cup {None} /\ expires \in Time
        /\ issued \in 0 .. Generations /\ outdated \in BOOLEAN
    <3>1. Lifetime \in Time /\ 0 \in Generation
      BY DEF Time, Never, Generation
    <3>2. now \in 0 .. MaxTime /\ issued \in 0 .. Generations
      BY DEF CredentialsInit
    <3>3. pointer \in Generation \cup {None} /\ expires \in Time
      BY <3>1, UnreadTyped DEF CredentialsInit
    <3>4. outdated \in BOOLEAN
      BY DEF CredentialsInit
    <3> QED
      BY <3>2, <3>3, <3>4
  <2> QED
    BY <2>1, <2>2, <2>3 DEF CredentialsTypeOK
<1>3. \A g \in Generation : ~row[g].exists
  BY DEF CredentialsInit, NoRow
<1>4. pointer \in {None, 0} /\ issued = 0 /\ \A h \in Handler : seen[h].pointer = None
  BY DEF CredentialsInit, Unread
<1> QED
  BY <1>2, <1>3, <1>4 DEF CInv, NewestLast, GraceGiven, PointerInForce, Generation, None

(* A new credential gives the one before it its grace, and is in force     *)
(* itself.                                                                 *)
LEMMA IssueStep ==
  ASSUME CInv, NEW r \in Handler, Issue(r)
  PROVE  CInv'
<1> USE CredentialsAssumption
<1> DEFINE Row == [exists : BOOLEAN, at : Time, expires : Time, grace : Time, revoked : BOOLEAN]
           new == [NoRow EXCEPT !.exists = TRUE, !.at = now, !.expires = now + Lifetime]
<1>0. CredentialsTypeOK /\ NewestLast /\ GraceGiven /\ PointerInForce
  BY DEF CInv
<1>1. now \in Nat /\ now <= MaxTime /\ issued \in Nat /\ issued + 1 \in Generation
  BY <1>0 DEF CredentialsTypeOK, Issue, Generation
<1>a. Never \in Nat /\ now + Lifetime <= Never /\ now <= Never
  BY <1>1 DEF Never
<1>b. 0 \in Time /\ now \in Time /\ now + Lifetime \in Time /\ Never \in Time
  BY <1>1, <1>a DEF Time
<1>2. new \in Row /\ new.exists /\ ~new.revoked /\ new.at = now /\ new.expires = now + Lifetime
      /\ new.grace = Never
  BY <1>b DEF NoRow
<1> HIDE DEF new
<1>p. PICK old : old = seen[r]
  OBVIOUS
<1>q. PICK import : import = Imported(old)
  OBVIOUS
<1>3. /\ issued' = issued + 1 /\ pointer' = issued + 1 /\ expires' = now + Lifetime /\ now' = now
      /\ row' = [g \in Generation |-> IF g = issued + 1 THEN new ELSE Granted(import[g])]
      /\ seen' = [seen EXCEPT ![r] = Unread] /\ outdated' \in BOOLEAN
  BY <1>0, <1>p, <1>q DEF Issue, Work, Resume, new, CredentialsTypeOK
<1>o. old.pointer \in Generation \cup {None} /\ old.expires \in Time /\ old.pointer <= issued
  BY <1>0, <1>p DEF CredentialsTypeOK, NewestLast
<1>4. import \in [Generation -> Row]
  <2> DEFINE made == [NoRow EXCEPT !.exists = TRUE, !.at = now, !.expires = old.expires]
  <2>1. made \in Row
    BY <1>o, <1>b DEF NoRow
  <2> HIDE DEF made
  <2>2. row \in [Generation -> Row] /\ [row EXCEPT ![old.pointer] = made] \in [Generation -> Row]
    BY <1>0, <2>1 DEF CredentialsTypeOK
  <2> QED
    BY <2>2, <1>q DEF Imported, made
<1>5. ASSUME NEW g \in Generation, import[g].exists
      PROVE  /\ g <= issued /\ import[g].at <= now
             /\ import[g].at = now \/ (row[g].exists /\ import[g] = row[g])
  <2>1. CASE old.pointer # None /\ ~row[old.pointer].exists /\ g = old.pointer
    <3>1. import[g] = [NoRow EXCEPT !.exists = TRUE, !.at = now, !.expires = old.expires]
      BY <1>0, <1>q, <2>1 DEF Imported, CredentialsTypeOK
    <3>2. import[g].at = now
      BY <3>1 DEF NoRow
    <3>3. g <= issued
      BY <1>o, <2>1
    <3>4. import[g].at <= now
      BY <1>1, <3>2
    <3> QED
      BY <3>2, <3>3, <3>4, Zenon
  <2>2. CASE ~(old.pointer # None /\ ~row[old.pointer].exists /\ g = old.pointer)
    <3>1. import[g] = row[g]
      BY <1>0, <1>q, <2>2 DEF Imported, CredentialsTypeOK
    <3> QED
      BY <1>0, <1>5, <3>1 DEF NewestLast
  <2> QED
    BY <2>1, <2>2
<1>6. ASSUME NEW c \in Row
      PROVE  /\ Granted(c) \in Row /\ Granted(c).exists = c.exists /\ Granted(c).at = c.at
             /\ Granted(c).revoked = c.revoked /\ Granted(c).expires = c.expires
             /\ Granted(c).grace <= c.grace
             /\ c.exists /\ ~c.revoked => Granted(c).grace <= now + Grace \/ c.expires <= now
  BY <1>1 DEF Granted, Earlier, Time, Never
<1>7. \A g \in Generation : row'[g] = IF g = issued + 1 THEN new ELSE Granted(import[g])
  BY <1>3
<1>8. CredentialsTypeOK'
  <2>1. row' \in [Generation -> Row]
    BY <1>2, <1>3, <1>4, <1>6
  <2> QED
    BY <1>0, <1>1, <1>3, <1>b, <2>1 DEF CredentialsTypeOK, Generation, Unread, Time
<1>9. NewestLast'
  <2>1. ASSUME NEW g \in Generation, row'[g].exists PROVE g <= issued + 1 /\ row'[g].at <= now
    <3>1. CASE g = issued + 1
      BY <1>1, <1>2, <1>7, <3>1
    <3>2. CASE g # issued + 1
      <4>1. import[g].exists /\ row'[g].at = import[g].at
        BY <1>4, <1>6, <1>7, <2>1, <3>2
      <4> QED
        BY <1>1, <1>5, <4>1 DEF Generation
    <3> QED
      BY <3>1, <3>2
  <2>2. issued + 1 <= issued + 1 /\ \A h \in Handler : seen'[h].pointer <= issued + 1
    BY <1>0, <1>1, <1>3 DEF NewestLast, CredentialsTypeOK, Unread, None, Generation
  <2> QED
    BY <1>3, <2>1, <2>2 DEF NewestLast
<1>10. GraceGiven'
  <2> SUFFICES ASSUME NEW g \in Generation, NEW h \in Generation, g < h,
                      row'[g].exists, row'[h].exists, ~row'[g].revoked, row'[g].at <= row'[h].at
               PROVE  row'[g].grace <= row'[h].at + Grace \/ row'[g].expires <= row'[h].at
    BY DEF GraceGiven
  <2>1. g # issued + 1
    BY <1>1, <1>4, <1>5, <1>6, <1>7 DEF Generation
  <2>2. row'[g] = Granted(import[g]) /\ import[g] \in Row
        /\ import[g].exists /\ ~import[g].revoked
    BY <1>4, <1>6, <1>7, <2>1
  <2>a. row'[g].at = import[g].at /\ row'[g].expires = import[g].expires
        /\ row'[g].grace <= import[g].grace
        /\ (row'[g].grace <= now + Grace \/ row'[g].expires <= now)
    BY <1>6, <2>2
  <2>b. row'[g].grace \in Int /\ import[g].grace \in Int /\ row'[h].at \in Int /\ import[g].at \in Int
    BY <1>4, <1>8 DEF CredentialsTypeOK, Time
  <2>3. CASE row'[h].at = now
    BY <2>3, <2>a
  <2>4. CASE row'[h].at # now
    <3>1. h # issued + 1
      BY <1>2, <1>7, <2>4
    <3>2. import[h].exists /\ row'[h].at = import[h].at
      BY <1>4, <1>6, <1>7, <3>1
    <3>3. row[h].exists /\ import[h] = row[h] /\ import[h].at <= now
      BY <1>5, <2>4, <3>2
    <3>4. import[g].at # now
      BY <1>1, <2>4, <2>a, <2>b, <3>2, <3>3
    <3>5. row[g].exists /\ import[g] = row[g]
      BY <1>5, <2>2, <3>4
    <3>6. row[g].grace <= row[h].at + Grace \/ row[g].expires <= row[h].at
      BY <1>0, <2>2, <2>a, <3>2, <3>3, <3>5 DEF GraceGiven
    <3> QED
      BY <1>1, <2>a, <2>b, <3>2, <3>3, <3>5, <3>6
  <2> QED
    BY <2>3, <2>4
<1>11. PointerInForce'
  BY <1>1, <1>2, <1>3, <1>7 DEF PointerInForce
<1> QED
  BY <1>8, <1>9, <1>10, <1>11 DEF CInv

(* Rotations, revocations and the passing of time keep the invariant.      *)
LEMMA CredentialsStep == CInv /\ [CredentialsNext]_cvars => CInv'
<1> SUFFICES ASSUME CInv, [CredentialsNext]_cvars PROVE CInv'
  OBVIOUS
<1>0. CredentialsTypeOK /\ NewestLast /\ GraceGiven /\ PointerInForce
  BY DEF CInv
<1>1. CASE \E h \in Handler : Issue(h)
  BY <1>1, IssueStep
<1>2. ASSUME NEW r \in Handler, Revoke(r)
      PROVE  CInv'
  <2>1. \A g \in Generation : row'[g] = [row[g] EXCEPT !.revoked = row[g].exists]
    BY <1>2 DEF Revoke
  <2>0. /\ pointer' \in {pointer, None} /\ expires' \in Time /\ UNCHANGED <<now, issued>>
        /\ seen' = [seen EXCEPT ![r] = Unread] /\ outdated' \in BOOLEAN
        /\ ~outdated' => pointer' = None
    <3>1. 0 \in Time /\ expires \in Time /\ outdated \in BOOLEAN
      BY <1>0, UnreadTyped DEF CredentialsTypeOK
    <3>2. /\ IF seen[r].pointer = None THEN UNCHANGED <<pointer, expires>>
             ELSE pointer' = None /\ expires' = 0
          /\ UNCHANGED <<now, issued>>
          /\ seen' = [seen EXCEPT ![r] = Unread]
          /\ outdated' = (outdated \/ seen[r].pointer # pointer \/ seen[r].expires # expires)
      BY <1>2 DEF Revoke, Work, Resume
    <3> QED
      BY <3>1, <3>2
  <2>2. CredentialsTypeOK'
    <3>1. row' \in [Generation -> [exists : BOOLEAN, at : Time, expires : Time, grace : Time,
                                   revoked : BOOLEAN]]
      BY <1>0, <1>2 DEF Revoke, CredentialsTypeOK
    <3>2. pointer' \in Generation \cup {None}
      BY <1>0, <2>0 DEF CredentialsTypeOK
    <3>3. seen' \in [Handler -> [busy : BOOLEAN, pointer : Generation \cup {None}, expires : Time]]
      BY <1>0, <2>0, UnreadTyped DEF CredentialsTypeOK
    <3> QED
      BY <1>0, <2>0, <3>1, <3>2, <3>3 DEF CredentialsTypeOK
  <2>3. NewestLast'
    <3>1. \A g \in Generation : row'[g].exists = row[g].exists /\ row'[g].at = row[g].at
      <4>1. \A g \in Generation :
              row[g] \in [exists : BOOLEAN, at : Time, expires : Time, grace : Time, revoked : BOOLEAN]
        BY <1>0 DEF CredentialsTypeOK
      <4> QED
        BY <2>1, <4>1
    <3>2. issued \in Nat /\ None <= issued
      BY <1>0 DEF CredentialsTypeOK, None
    <3>3. \A h \in Handler : seen'[h].pointer <= issued
      BY <1>0, <2>0, <3>2 DEF NewestLast, CredentialsTypeOK, Unread
    <3> QED
      BY <1>0, <2>0, <3>1, <3>2, <3>3 DEF NewestLast
  <2>4. \A g \in Generation : row'[g].exists = row[g].exists /\ row'[g].revoked = row[g].exists
    <3>1. \A g \in Generation :
            row[g] \in [exists : BOOLEAN, at : Time, expires : Time, grace : Time, revoked : BOOLEAN]
      BY <1>0 DEF CredentialsTypeOK
    <3> QED
      BY <2>1, <3>1
  <2>5. GraceGiven'
    BY <2>4 DEF GraceGiven
  <2> QED
    BY <2>0, <2>2, <2>3, <2>5 DEF CInv, PointerInForce
<1>5. ASSUME NEW r \in Handler, Read(r) \/ Refuse(r)
      PROVE  CInv'
  <2>1. /\ UNCHANGED <<now, pointer, expires, row, issued, outdated>>
        /\ \/ seen' = [seen EXCEPT ![r] = [busy |-> TRUE, pointer |-> pointer, expires |-> expires]]
           \/ seen' = [seen EXCEPT ![r] = Unread]
    BY <1>5 DEF Read, Refuse, Resume
  <2>2. CredentialsTypeOK'
    <3>1. [busy |-> TRUE, pointer |-> pointer, expires |-> expires]
            \in [busy : BOOLEAN, pointer : Generation \cup {None}, expires : Time]
      BY <1>0 DEF CredentialsTypeOK
    <3> QED
      BY <1>0, <2>1, <3>1, UnreadTyped DEF CredentialsTypeOK
  <2>3. NewestLast'
    BY <1>0, <2>1 DEF NewestLast, CredentialsTypeOK, Unread, None
  <2> QED
    BY <1>0, <2>1, <2>2, <2>3 DEF CInv, GraceGiven, PointerInForce
<1>3. CASE Tick
  <2>1. CredentialsTypeOK' /\ now' = now + 1 /\ now \in Nat
    BY <1>0, <1>3, CredentialsAssumption DEF Tick, CredentialsTypeOK
  <2>2. NewestLast'
    BY <1>0, <1>3, <2>1 DEF Tick, NewestLast, CredentialsTypeOK, Time
  <2> QED
    BY <1>0, <1>3, <2>1, <2>2 DEF Tick, CInv, GraceGiven, PointerInForce
<1>4. CASE UNCHANGED cvars
  BY <1>0, <1>4 DEF cvars, CInv, CredentialsTypeOK, NewestLast, GraceGiven, PointerInForce
<1> QED
  BY <1>1, <1>2, <1>3, <1>4, <1>5 DEF CredentialsNext

(* For any lifetime, grace period, requests and number of rotations: an    *)
(* older token is refused once the grace of the first rotation since it    *)
(* got its row is over, and the newest one is accepted until it expires or *)
(* is revoked, unless a request worked on a host changed since its reading. *)
THEOREM OverlapIsBounded == CredentialsSpec => []OverlapBounded
<1>1. CInv => OverlapBounded
  <2> SUFFICES ASSUME CInv PROVE OverlapBounded
    OBVIOUS
  <2>0. CredentialsTypeOK /\ NewestLast /\ GraceGiven /\ PointerInForce
    BY DEF CInv
  <2>1. ASSUME NEW g \in Generation, NEW h \in Generation, g < h, row[h].exists,
               row[g].at <= row[h].at, Accepted(g)
        PROVE  now < row[h].at + Grace
    <3>1. g \in Int /\ h \in Int /\ now \in Int /\ row[h].at \in Int /\ row[h].at <= now
          /\ row[g].grace \in Int /\ row[g].expires \in Int
      BY <2>0, <2>1 DEF CredentialsTypeOK, NewestLast, Generation, Time
    <3>2. Usable(g)
      BY <2>0, <2>1, <3>1 DEF Accepted, NewestLast, None, Generation
    <3>3. row[g].grace <= row[h].at + Grace \/ row[g].expires <= row[h].at
      BY <2>0, <2>1, <3>2 DEF Usable, GraceGiven
    <3> QED
      BY <3>1, <3>2, <3>3, CredentialsAssumption DEF Usable
  <2>2. ~outdated => NewestAccepted
    <3>1. Never > now
      BY <2>0, CredentialsAssumption DEF CredentialsTypeOK, Never
    <3> QED
      BY <2>0, <3>1 DEF NewestAccepted, Accepted, Usable, PointerInForce
  <2> QED
    BY <2>1, <2>2 DEF OverlapBounded
<1> QED
  BY <1>1, CredentialsInitial, CredentialsStep, PTL DEF CredentialsSpec
-----------------------------------------------------------------------------
(* The types of all five: what the invariants above leave out of them.     *)

(* A handler is at one of the steps of its request.                        *)
LEMMA PairingTyped ==
  ASSUME PInv, PairingTypeOK, [PairingNext]_pvars
  PROVE  PairingTypeOK'
<1>1. PInv'
  BY PairingStep
<1>2. overtook' \in BOOLEAN
  <2>1. overtook' = overtook \/ \E r \in Runner : Ingest(r)
    BY DEF PairingNext, pvars, List, Register, Stop, TimePasses, Decide, CreateBegin, Poll,
           PairingReportBegin, ReportBegin, Begin, CreateCommit, StatusCommit, Mark
  <2>2. ASSUME NEW r \in Runner, Ingest(r) PROVE overtook' \in BOOLEAN
    BY <2>2 DEF Ingest, PairingTypeOK
  <2> QED
    BY <2>1, <2>2 DEF PairingTypeOK
<1> DEFINE HandlerStep == {"idle", "create", "expire", "approve", "reject", "ingest", "mark"}
<1>3. DOMAIN handler = Runner /\ \A r \in Runner : handler[r].step \in HandlerStep
  BY DEF PInv, PairingTypeOK
<1>4. \A q \in Runner : handler'[q].step \in HandlerStep
  <2>1. ASSUME NEW r \in Runner, NEW job, Begin(r, job), job.step \in HandlerStep
        PROVE  \A q \in Runner : handler'[q].step \in HandlerStep
    BY <1>3, <2>1 DEF Begin
  <2>2. ASSUME NEW r \in Runner, Done(r)
        PROVE  \A q \in Runner : handler'[q].step \in HandlerStep
    BY <1>3, <2>2 DEF Done, Idle
  <2>3. CASE handler' = handler
    BY <1>3, <2>3
  <2>4. CASE Stop
    BY <2>4 DEF Stop, Idle
  <2>5. ASSUME NEW s \in Session, NEW d \in {"approve", "reject"}, Decide(s, d)
        PROVE  \A q \in Runner : handler'[q].step \in HandlerStep
    BY <2>1, <2>5 DEF Decide, Idle, Runner
  <2>6. ASSUME NEW r \in Thread, NEW s \in Session, CreateBegin(r, s) \/ Poll(r, s)
        PROVE  \A q \in Runner : handler'[q].step \in HandlerStep
    BY <2>1, <2>6 DEF CreateBegin, Poll, Idle, Runner
  <2>8. ASSUME NEW r \in Thread, NEW s \in Session, NEW q \in Report, PairingReportBegin(r, s, q)
        PROVE  \A p \in Runner : handler'[p].step \in HandlerStep
    BY <2>1, <2>8 DEF PairingReportBegin, Idle, Runner
  <2>9. ASSUME NEW r \in Runner, NEW q \in Report, ReportBegin(r, q)
        PROVE  \A p \in Runner : handler'[p].step \in HandlerStep
    BY <2>1, <2>9 DEF ReportBegin, Idle
  <2>10. List \/ Register \/ (\E s \in Session : TimePasses(s)) \/ UNCHANGED pvars
         => handler' = handler
    BY DEF List, Register, TimePasses, pvars
  <2>7. ASSUME NEW r \in Runner, CreateCommit(r) \/ StatusCommit(r) \/ Ingest(r) \/ Mark(r)
        PROVE  \A q \in Runner : handler'[q].step \in HandlerStep
    <3>1. Done(r) \/ handler' = [handler EXCEPT ![r].step = "mark"]
      BY <2>7 DEF CreateCommit, StatusCommit, Ingest, Mark
    <3>2. CASE Done(r)
      BY <2>2, <3>2
    <3>3. CASE handler' = [handler EXCEPT ![r].step = "mark"]
      BY <1>3, <3>3
    <3> QED
      BY <3>1, <3>2, <3>3
  <2> QED
    BY <2>3, <2>4, <2>5, <2>6, <2>7, <2>8, <2>9, <2>10 DEF PairingNext
<1> QED
  BY <1>1, <1>2, <1>4 DEF PInv, PairingTypeOK, Request

(* A worker is at one of the steps of its call, and the lock is a worker's *)
(* or free.                                                                *)
LEMMA RelayTyped ==
  ASSUME RInv, RelayTypeOK, [RelayNext]_rvars
  PROVE  RelayTypeOK'
<1>1. RInv'
  BY RelayStep
<1> DEFINE WorkStep == {"free", "create", "update", "replace", "evict"}
<1>2. DOMAIN work = Worker /\ \A w \in Worker : work[w].step \in WorkStep
  BY DEF RInv, WorkKnown, RelayTypeOK
<1>3. \A v \in Worker : work'[v].step \in WorkStep
  <2>1. ASSUME NEW w \in Worker, NEW step \in WorkStep, NEW d, NEW b, StartWork(w, step, d, b)
        PROVE  \A v \in Worker : work'[v].step \in WorkStep
    BY <1>2, <2>1 DEF StartWork
  <2>2. ASSUME NEW w \in Worker, Ends(w) \/ Goes(w, "evict")
        PROVE  \A v \in Worker : work'[v].step \in WorkStep
    <3>1. CASE Ends(w)
      BY <1>2, <3>1 DEF Ends, Free
    <3>2. CASE Goes(w, "evict")
      BY <1>2, <3>2 DEF Goes
    <3> QED
      BY <2>2, <3>1, <3>2
  <2>3. CASE work' = work
    BY <1>2, <2>3
  <2>9. CASE RelayStop
    BY <2>9 DEF RelayStop, Free
  <2>4. ASSUME NEW w \in Worker, NEW d \in Digest, Publish(w, d) \/ CompleteBegin(w, d)
        PROVE  \A v \in Worker : work'[v].step \in WorkStep
    BY <2>1, <2>4 DEF Publish, CompleteBegin
  <2>5. ASSUME NEW w \in Worker, NEW d \in Digest, NEW b \in Block, WriteBegin(w, d, b)
        PROVE  \A v \in Worker : work'[v].step \in WorkStep
    BY <2>1, <2>5 DEF WriteBegin
  <2>6. ASSUME NEW w \in Worker, Write(w) \/ Replace(w) \/ Evict(w)
        PROVE  \A v \in Worker : work'[v].step \in WorkStep
    BY <2>2, <2>6 DEF Write, Replace, Evict
  <2>7. ASSUME NEW w \in Worker, Trim(w)
        PROVE  \A v \in Worker : work'[v].step \in WorkStep
    BY <2>1, <2>7 DEF Trim
  <2>8. ASSUME NEW r \in Reader, (\E d \in Digest : AcquireBegin(r, d)) \/ Acquire(r) \/ LeaseEnds(r)
        PROVE  work' = work
    BY <2>8 DEF AcquireBegin, Acquire, LeaseEnds
  <2> QED
    <3> HIDE DEF WorkStep
    <3>1. UNCHANGED rvars => work' = work
      BY DEF rvars
    <3> QED
      BY <2>3, <2>4, <2>5, <2>6, <2>7, <2>8, <2>9, <3>1 DEF RelayNext
<1>4. lock' \in Worker \cup {NoOne}
  BY DEF RelayTypeOK, RelayNext, rvars, Publish, WriteBegin, CompleteBegin, Write, Replace, Evict, Trim,
         AcquireBegin, Acquire, LeaseEnds, RelayStop
<1>5. overtaken' \in BOOLEAN
  BY DEF RelayTypeOK, RelayNext, rvars, Publish, WriteBegin, CompleteBegin, Write, Replace, Evict, Trim,
         AcquireBegin, Acquire, LeaseEnds, RelayStop
<1> QED
  BY <1>1, <1>3, <1>4, <1>5 DEF RInv, LeasesKnown, RelayTypeOK

(* The last of the completed steps is one of them.                         *)
LEMMA LastDone ==
  ASSUME NEW D \in SUBSET Step, D # {}
  PROVE  Max(D) \in D
<1> DEFINE Left == {Steps - s : s \in D}
<1>0. /\ Steps \in Int
      /\ \A s \in D : s \in Int /\ s <= Steps
  BY HooksAssumption DEF Step
<1>1. Left \subseteq Nat /\ Left # {}
  BY <1>0
<1>2. PICK m \in Left : \A n \in Left : <<n, m>> \notin OpToRel(<, Nat)
  <2> HIDE DEF Left
  <2> QED
    BY <1>1, NatLessThanWellFounded, WFMin
<1>3. \A n \in Left : m <= n
  <2> HIDE DEF Left
  <2> TAKE n \in Left
  <2>1. n \in Nat /\ m \in Nat /\ <<n, m>> \in Nat \X Nat
    BY <1>1, <1>2
  <2>2. ~(n < m)
    BY <1>2, <2>1 DEF OpToRel
  <2> QED
    BY <2>1, <2>2
<1>4. PICK s \in D : m = Steps - s
  BY <1>2
<1>5. \A r \in D : s >= r
  <2> TAKE r \in D
  <2>1. Steps - r \in Left /\ r \in Int /\ s \in Int
    BY <1>0, <1>4
  <2>2. m <= Steps - r
    BY <1>3, <2>1
  <2> QED
    BY <1>0, <1>4, <2>1, <2>2
<1> QED
  BY <1>5 DEF Max

(* The tries of a step end with its retries, and what may be rolled back   *)
(* is in the ledger.                                                       *)
LEMMA HooksTyped ==
  ASSUME HInv, HooksTypeOK, [HooksNext]_hvars
  PROVE  HooksTypeOK'
<1> USE HooksAssumption
<1>1. at \in Int /\ tries \in Int /\ \A s \in Step : Retries[s] \in Nat
  BY DEF HooksTypeOK, Step
<1>2. HInv'
  BY HooksStep
<1>3. CASE Deploy \/ HooksStop
  <2>1. at' = 1 /\ tries' = 0 /\ ledger' = ledger /\ undone' = undone /\ done' = {}
        /\ run' \in {"forward", "idle"}
    BY <1>3 DEF Deploy, HooksStop
  <2>2. effect' \subseteq effect \cup Step
    BY <1>3 DEF Deploy, HooksStop, InOrder
  <2>3. effect' \subseteq Step /\ 1 \in Step /\ 1 \in 1 .. Steps + 1
    BY <2>2 DEF HooksTypeOK, Step
  <2> QED
    BY <1>1, <2>1, <2>3 DEF HooksTypeOK
<1>4. CASE Skip \/ Succeed
  <2>1. at \in Step /\ at' = at + 1 /\ tries' = 0 /\ undone' = undone /\ run' = run
        /\ effect' \in {effect, effect \cup {at}} /\ ledger' \in {ledger, ledger \cup {at}}
        /\ done' \subseteq ledger' /\ ledger \subseteq ledger'
    BY <1>4 DEF Skip, Succeed, InOrder, HooksTypeOK
  <2>2. ledger' \subseteq Step /\ effect' \subseteq Step /\ undone' \subseteq ledger' /\ at' \in 1 .. Steps + 1
    BY <1>1, <2>1 DEF HooksTypeOK, Step
  <2>3. tries' \in 0 .. (IF at' \in Step THEN Retries[at'] ELSE 0)
    BY <1>1, <2>1
  <2> QED
    BY <2>1, <2>2, <2>3 DEF HooksTypeOK
<1>5. CASE Fail
  <2>1. at \in Step /\ UNCHANGED <<ledger, at, done, undone>> /\ effect' \subseteq Step
    BY <1>5 DEF Fail, InOrder, HooksTypeOK
  <2>2. tries' \in 0 .. Retries[at] /\ run' \in {"forward", "rollback"}
    BY <1>1, <1>5, <2>1 DEF Fail, InOrder, Tries, HooksTypeOK
  <2> QED
    BY <2>1, <2>2 DEF HooksTypeOK
<1>6. CASE Rollback
  <2>1. Max(done) \in ledger
    BY <1>6, LastDone DEF Rollback, HInv, HooksTypeOK
  <2> QED
    BY <1>6, <2>1 DEF Rollback, HooksTypeOK
<1>7. CASE Finish \/ UNCHANGED hvars
  BY <1>7 DEF Finish, hvars, HooksTypeOK
<1> QED
  BY <1>3, <1>4, <1>5, <1>6, <1>7 DEF HooksNext

(* The invariants and types of all five together.                          *)
AllInv ==
  /\ PInv /\ PairingTypeOK /\ CInv /\ RInv /\ RelayTypeOK
  /\ HInv /\ HooksTypeOK /\ MInv

LEMMA AllInitial == Init => AllInv
<1> SUFFICES ASSUME Init PROVE AllInv
  OBVIOUS
<1>1. PInv /\ CInv /\ RInv /\ HInv /\ MInv
  BY PairingInitial, CredentialsInitial, RelayInitial, HooksInitial, MulticastInitial DEF Init
<1>2. PairingTypeOK
  BY <1>1 DEF Init, PairingInit, PairingTypeOK, PInv, Request, Idle
<1>3. RelayTypeOK
  BY <1>1 DEF Init, RelayInit, RelayTypeOK, RInv, Free, NoLease
<1>4. HooksTypeOK
  <2>1. 1 \in Step /\ Retries[1] \in Nat /\ 1 \in 1 .. Steps + 1
    BY HooksAssumption DEF Step
  <2> QED
    BY <2>1 DEF Init, HooksInit, HooksTypeOK
<1> QED
  BY <1>1, <1>2, <1>3, <1>4 DEF AllInv

(* One service steps, and the others stay.                                 *)
LEMMA AllStep == AllInv /\ [Next]_services => AllInv'
<1> SUFFICES ASSUME AllInv, [Next]_services PROVE AllInv'
  OBVIOUS
<1>1. /\ [PairingNext]_pvars /\ [CredentialsNext]_cvars /\ [RelayNext]_rvars
      /\ [HooksNext]_hvars /\ [MulticastNext]_mvars
  BY DEF Next, services
<1> QED
  BY <1>1, PairingStep, PairingTyped, CredentialsStep, RelayStep, RelayTyped, HooksStep, HooksTyped,
     MulticastStep DEF AllInv

(* For any constants: every service keeps its state within its type, the   *)
(* tries of a hook within its retries and its rollback within its ledger.  *)
THEOREM TypesCorrect == Spec => []ServicesTypeOK
<1>1. AllInv => ServicesTypeOK
  BY DEF AllInv, CInv, MInv, ServicesTypeOK
<1> QED
  BY <1>1, AllInitial, AllStep, PTL DEF Spec
=============================================================================
