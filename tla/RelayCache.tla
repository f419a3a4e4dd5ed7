----------------------------- MODULE RelayCache -----------------------------
(***************************************************************************)
(* The relay cache of pyfog/relay.py with the staged transfers of          *)
(* pyfog/transfer.py.  Several threads publish artifacts, whole or block   *)
(* by block, and evict; readers take leases on what they read.  The lock   *)
(* of the cache covers a publication with its eviction and every change of *)
(* the leases, and neither the check that an artifact is there, nor the    *)
(* staged blocks, nor their verification.                                  *)
(*                                                                         *)
(* A digest stands for an artifact, a staged file for its valid blocks.    *)
(* The eviction goes by access time, which mount options decide: here by   *)
(* any order.  A source file does not change while it is published.        *)
(***************************************************************************)
EXTENDS Integers, FiniteSets, FiniteSetsExt

CONSTANTS Digest, Size, MaxBytes,
          Block,           \* the blocks of an artifact
          Worker, Reader,
          NoDigest, NoBlock, NoOne

ASSUME RelayAssumption ==
  /\ Size \in [Digest -> Nat \ {0}]
  /\ MaxBytes \in Nat \ {0}
  /\ NoDigest \notin Digest /\ NoBlock \notin Block /\ NoOne \notin Worker

VARIABLES
  cached,     \* cached[d]: the blocks of the file published for d
  staged,     \* staged[d]: the valid blocks of d in .staging
  work,       \* work[w]: the call of worker w and how far it is
  lock,       \* who holds _lock over several steps
  lease,      \* lease[r]: the lease of reader r; late is auxiliary, the
              \* artifact was gone when the lease was made
  overtaken   \* auxiliary: a staged file was begun anew after it was verified
              \* and before it was renamed

rvars == <<cached, staged, work, lock, lease, overtaken>>

Free   == [step |-> "free", digest |-> NoDigest, block |-> NoBlock]
NoLease == [step |-> "none", digest |-> NoDigest, late |-> FALSE]

RelayTypeOK ==
  /\ cached \in [Digest -> SUBSET Block] /\ staged \in [Digest -> SUBSET Block]
  /\ \A w \in Worker : work[w].step \in {"free", "create", "update", "replace", "evict"}
  /\ lock \in Worker \cup {NoOne}
  /\ \A r \in Reader : lease[r].step \in {"none", "found", "held"}
  /\ overtaken \in BOOLEAN

(* No file.                                                                *)
NoFile == {}

RelayInit ==
  /\ cached = [d \in Digest |-> NoFile]
  /\ staged = [d \in Digest |-> NoFile]
  /\ work = [w \in Worker |-> Free]
  /\ lock = NoOne
  /\ lease = [r \in Reader |-> NoLease]
  /\ overtaken = FALSE
-----------------------------------------------------------------------------
(* path.is_file(), and with the expected size.                             *)
Has(d)      == cached[d] # NoFile
HasWhole(d) == cached[d] = Block

StartWork(w, step, d, b) ==
  /\ work[w] = Free
  /\ work' = [work EXCEPT ![w] = [step |-> step, digest |-> d, block |-> b]]

Goes(w, step) == work' = [work EXCEPT ![w].step = step]
Ends(w)       == work' = [work EXCEPT ![w] = Free]

(* publish_file has found the source whole and takes the lock; it returns  *)
(* when the artifact is there.                                             *)
Publish(w, d) ==
  /\ lock = NoOne /\ ~HasWhole(d)
  /\ StartWork(w, "evict", d, NoBlock)
  /\ lock' = w
  /\ cached' = [cached EXCEPT ![d] = Block]
  /\ UNCHANGED <<staged, lease, overtaken>>

(* write_verified_block: the payload is good; is there a file to write to? *)
WriteBegin(w, d, b) ==
  /\ b \notin staged[d]
  /\ StartWork(w, IF staged[d] = NoFile THEN "create" ELSE "update", d, b)
  /\ UNCHANGED <<cached, staged, lock, lease, overtaken>>

(* Opened with "w+b", the file is emptied; with "r+b" it has to exist.     *)
Write(w) ==
  LET d == work[w].digest  b == work[w].block IN
  /\ \/ /\ work[w].step = "create"
        /\ staged' = [staged EXCEPT ![d] = {b}]
        /\ overtaken' = (overtaken \/ \E v \in Worker : work[v].step = "replace" /\
                                                       work[v].digest = d)
     \/ /\ work[w].step = "update"
        /\ staged' = [staged EXCEPT ![d] = IF @ = NoFile THEN @ ELSE @ \cup {b}]
        /\ UNCHANGED overtaken
  /\ Ends(w)
  /\ UNCHANGED <<cached, lock, lease>>

(* Slip: it has its size, which the last block gives it.                   *)
CompleteBySize(d) == staged[d] # NoFile

(* The staged file of d has every block and its size.                      *)
Complete(d) == staged[d] = Block

(* complete_block_transfer verifies the staged file, without the lock.     *)
CompleteBegin(w, d) ==
  /\ Complete(d)
  /\ StartWork(w, "replace", d, NoBlock)
  /\ UNCHANGED <<cached, staged, lock, lease, overtaken>>

(* It renames what is there under that name by now, if anything is.        *)
Replace(w) ==
  LET d == work[w].digest IN
  /\ work[w].step = "replace" /\ lock = NoOne
  /\ IF staged[d] = NoFile
     THEN Ends(w) /\ UNCHANGED <<cached, staged, lock>>
     ELSE /\ cached' = [cached EXCEPT ![d] = staged[d]]
          /\ staged' = [staged EXCEPT ![d] = NoFile]
          /\ lock' = w
          /\ Goes(w, "evict")
  /\ UNCHANGED <<lease, overtaken>>

Total(D) == MapThenSumSet(LAMBDA d : Size[d], D)
Entries  == {d \in Digest : Has(d)}

(* Slip: the leases are not looked up.                                     *)
UnleasedAll == Entries

(* What no lease in force protects; the others are purged before.          *)
Unleased == {d \in Entries : \A r \in Reader : lease[r].step # "held" \/ lease[r].digest # d}

(* One after the other goes until the rest fits.                           *)
Victims ==
  {V \in SUBSET Unleased :
     /\ Total(Entries \ V) <= MaxBytes \/ V = Unleased
     /\ V # {} => \E last \in V : Total((Entries \ V) \cup {last}) > MaxBytes}

(* evict at the end of a publication, which then gives the lock back.      *)
Evict(w) ==
  /\ work[w].step = "evict"
  /\ \E V \in Victims : cached' = [d \in Digest |-> IF d \in V THEN NoFile ELSE cached[d]]
  /\ lock' = NoOne
  /\ Ends(w)
  /\ UNCHANGED <<staged, lease, overtaken>>

(* evict on its own: leases may have ended since the last one.             *)
Trim(w) ==
  /\ lock = NoOne /\ Victims # {{}}
  /\ StartWork(w, "evict", NoDigest, NoBlock)
  /\ lock' = w
  /\ UNCHANGED <<cached, staged, lease, overtaken>>

(* acquire finds the artifact, without the lock.                           *)
AcquireBegin(r, d) ==
  /\ lease[r] = NoLease /\ Has(d)
  /\ lease' = [lease EXCEPT ![r] = [step |-> "found", digest |-> d, late |-> FALSE]]
  /\ UNCHANGED <<cached, staged, work, lock, overtaken>>

(* And then adds its lease.                                                *)
Acquire(r) ==
  /\ lease[r].step = "found" /\ lock = NoOne
  /\ lease' = [lease EXCEPT ![r].step = "held", ![r].late = ~Has(lease[r].digest)]
  /\ UNCHANGED <<cached, staged, work, lock, overtaken>>

(* release, or expires_at is reached.                                      *)
LeaseEnds(r) ==
  /\ lease[r].step = "held" /\ lock = NoOne
  /\ lease' = [lease EXCEPT ![r] = NoLease]
  /\ UNCHANGED <<cached, staged, work, lock, overtaken>>

(* The process stops: files stay, leases do not.                           *)
RelayStop ==
  /\ \E w \in Worker : work[w] # Free
  /\ work' = [w \in Worker |-> Free]
  /\ lease' = [r \in Reader |-> NoLease]
  /\ lock' = NoOne
  /\ UNCHANGED <<cached, staged, overtaken>>

RelayNext ==
  \/ \E w \in Worker :
       \/ \E d \in Digest : \/ Publish(w, d) \/ CompleteBegin(w, d)
                            \/ \E b \in Block : WriteBegin(w, d, b)
       \/ Write(w) \/ Replace(w) \/ Evict(w) \/ Trim(w)
  \/ \E r \in Reader : \/ \E d \in Digest : AcquireBegin(r, d)
                       \/ Acquire(r) \/ LeaseEnds(r)
  \/ RelayStop

RelaySpec == RelayInit /\ [][RelayNext]_rvars
-----------------------------------------------------------------------------
(* What the relay serves under a digest is the whole artifact, whoever     *)
(* staged its blocks and however often publishers crashed, unless a writer *)
(* began its staged file anew between the verification and the rename.     *)
CachedIsWhole == \A d \in Entries : HasWhole(d) \/ overtaken

(* An artifact stays in the cache as long as a reader holds a lease on it, *)
(* whatever is published meanwhile, if it was still there when the lease   *)
(* was made: acquire looks before it takes the lock.                       *)
LeasedStays == \A r \in Reader : lease[r].step = "held" => Has(lease[r].digest) \/ lease[r].late
=============================================================================
