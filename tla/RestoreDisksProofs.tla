-------------------------- MODULE RestoreDisksProofs --------------------------
(***************************************************************************)
(* Proofs about RestoreDisks, for every set of machines, with any number   *)
(* of disks of any size and partitions of any length, and every growth of  *)
(* the targets.                                                            *)
(***************************************************************************)
EXTENDS RestoreDisks, SequenceTheorems, FiniteSetTheorems, TLAPS

-----------------------------------------------------------------------------
(* What the manifest of a machine looks like.                              *)

PartitionOK(p) ==
  /\ p.number \in Nat \ {0} /\ p.start \in Nat /\ p.count \in Nat \ {0}
  /\ p.role \in {"esp", "boot", "root", "swap"}
  /\ p.role = "esp" <=> p.fs = "fat32"
  /\ p.role = "swap" <=> p.fs = "swap"

PartsOK(parts) ==
  /\ Len(parts) \in Nat /\ DOMAIN parts = 1 .. Len(parts)
  /\ \A k \in DOMAIN parts : PartitionOK(parts[k])
  /\ \A j, k \in DOMAIN parts : j < k => parts[j].number < parts[k].number

ManifestOK ==
  /\ man.table \in {"gpt", "mbr"}
  /\ Len(man.disks) \in Nat \ {0} /\ DOMAIN man.disks = 1 .. Len(man.disks)
  /\ \A i \in Disks : man.disks[i].size \in Nat /\ PartsOK(Parts(i))

LEMMA MachineDisks ==
  ASSUME NEW m \in Machine
  PROVE  /\ m.table \in {"gpt", "mbr"} /\ m.storage \in Storage
         /\ Len(m.disks) \in Nat \ {0} /\ DOMAIN m.disks = 1 .. Len(m.disks)
         /\ \A i \in DOMAIN m.disks :
              /\ m.disks[i].size \in Nat /\ PartsOK(m.disks[i].parts)
<1>1. /\ IsMachine(m)
      /\ m.disks \in Seq([size : Nat, parts : Seq(Partition)]) /\ m.disks # <<>>
  BY MachineAssumption DEF IsMachine
<1>2. /\ Len(m.disks) \in Nat \ {0} /\ DOMAIN m.disks = 1 .. Len(m.disks)
      /\ m.disks \in [1 .. Len(m.disks) -> [size : Nat, parts : Seq(Partition)]]
  BY <1>1, EmptySeq, LenProperties
<1>3. ASSUME NEW i \in DOMAIN m.disks
      PROVE  m.disks[i].size \in Nat /\ PartsOK(m.disks[i].parts)
  <2> DEFINE parts == m.disks[i].parts
  <2>1. m.disks[i].size \in Nat /\ parts \in Seq(Partition)
    BY <1>2, <1>3
  <2>2. Len(parts) \in Nat /\ DOMAIN parts = 1 .. Len(parts) /\ \A k \in DOMAIN parts : parts[k] \in Partition
    BY <2>1, LenProperties
  <2>3. /\ \A k \in DOMAIN parts : parts[k].fs \in FileSystemsOf[parts[k].role]
        /\ \A j, k \in DOMAIN parts : j < k => parts[j].number < parts[k].number
    BY <1>1, <1>3 DEF IsMachine
  <2>4. ASSUME NEW k \in DOMAIN parts PROVE PartitionOK(parts[k])
    <3>1. parts[k].number \in Nat \ {0} /\ parts[k].start \in Nat /\ parts[k].count \in Nat \ {0}
          /\ parts[k].role \in {"esp", "boot", "root", "swap"}
      BY <2>2 DEF Partition, FileSystemsOf
    <3>2. parts[k].fs \in FileSystemsOf[parts[k].role]
      BY <2>3
    <3> QED
      BY <3>1, <3>2 DEF PartitionOK, FileSystemsOf
  <2> QED
    BY <2>1, <2>2, <2>3, <2>4 DEF PartsOK
<1> QED
  BY <1>1, <1>2, <1>3 DEF IsMachine

(* The manifest keeps the tables of the machine but for the role of a boot *)
(* partition, and names each filesystem.                                   *)
LEMMA ManifestParts ==
  ASSUME NEW m \in Machine, man = Manifest(m)
  PROVE  /\ Disks = DOMAIN m.disks /\ Len(man.disks) = Len(m.disks)
         /\ \A i \in Disks :
              /\ man.disks[i].size = m.disks[i].size
              /\ DOMAIN Parts(i) = DOMAIN m.disks[i].parts /\ Len(Parts(i)) = Len(m.disks[i].parts)
              /\ \A k \in DOMAIN Parts(i) :
                   LET p == Classified(m, m.disks[i].parts[k])
                   IN  Parts(i)[k] = [number |-> p.number, role |-> p.role, fs |-> p.fs, start |-> p.start,
                                      count |-> p.count, uuid |-> Uuid(m, i, p)]
         /\ man.table = m.table /\ man.volumes = m.storage
         /\ man.encryption = IF m.storage = "luks2" THEN "luks2" ELSE "none"
         /\ man.commands = UNION {{p.fs : p \in Range(Parts(i))} \ {"swap"} : i \in Disks}
<1> DEFINE Filled(i) == [k \in DOMAIN m.disks[i].parts |->
             LET p == Classified(m, m.disks[i].parts[k])
             IN  [number |-> p.number, role |-> p.role, fs |-> p.fs, start |-> p.start,
                  count |-> p.count, uuid |-> Uuid(m, i, p)]]
           disks == [i \in DOMAIN m.disks |-> [size |-> m.disks[i].size, parts |-> Filled(i)]]
<1>1. /\ man.disks = disks /\ man.table = m.table /\ man.volumes = m.storage
      /\ man.encryption = IF m.storage = "luks2" THEN "luks2" ELSE "none"
      /\ man.commands = UNION {{p.fs : p \in Range(disks[i].parts)} \ {"swap"} : i \in DOMAIN disks}
  BY DEF Manifest
<1>2. /\ Len(m.disks) \in Nat \ {0} /\ DOMAIN m.disks = 1 .. Len(m.disks)
      /\ \A i \in DOMAIN m.disks : PartsOK(m.disks[i].parts)
  BY MachineDisks
<1> HIDE DEF Filled
<1>3. Disks = DOMAIN m.disks /\ Len(man.disks) = Len(m.disks)
  <2>1. Disks = DOMAIN m.disks
    BY <1>1 DEF Disks
  <2>2. Len(disks) = Len(m.disks)
    BY <1>2
  <2> QED
    BY <1>1, <2>1, <2>2
<1>4. ASSUME NEW i \in Disks
      PROVE  /\ man.disks[i].size = m.disks[i].size /\ Parts(i) = Filled(i)
             /\ DOMAIN Parts(i) = DOMAIN m.disks[i].parts /\ Len(Parts(i)) = Len(m.disks[i].parts)
  <2>1. man.disks[i].size = m.disks[i].size /\ Parts(i) = Filled(i)
    BY <1>1, <1>3 DEF Parts
  <2>2. Len(m.disks[i].parts) \in Nat /\ DOMAIN m.disks[i].parts = 1 .. Len(m.disks[i].parts)
    BY <1>2, <1>3 DEF PartsOK
  <2>3. Len(Filled(i)) = Len(m.disks[i].parts) /\ DOMAIN Filled(i) = DOMAIN m.disks[i].parts
    BY <2>2 DEF Filled
  <2> QED
    BY <2>1, <2>3
<1>5. man.commands = UNION {{p.fs : p \in Range(Parts(i))} \ {"swap"} : i \in Disks}
  <2>1. DOMAIN disks = Disks /\ \A i \in Disks : disks[i].parts = Parts(i)
    BY <1>1 DEF Disks, Parts
  <2> HIDE DEF disks
  <2> QED
    BY <1>1, <2>1
<1>6. ASSUME NEW i \in Disks, NEW k \in DOMAIN Parts(i)
      PROVE  LET p == Classified(m, m.disks[i].parts[k])
             IN  Parts(i)[k] = [number |-> p.number, role |-> p.role, fs |-> p.fs, start |-> p.start,
                                count |-> p.count, uuid |-> Uuid(m, i, p)]
  BY <1>4 DEF Filled
<1> HIDE DEF disks
<1> QED
  BY <1>1, <1>3, <1>4, <1>5, <1>6

LEMMA ManifestIsOK ==
  ASSUME machine \in Machine, man = Manifest(machine)
  PROVE  ManifestOK /\ man.volumes \in Storage
<1>1. /\ machine.table \in {"gpt", "mbr"} /\ machine.storage \in Storage
      /\ Len(machine.disks) \in Nat \ {0} /\ DOMAIN machine.disks = 1 .. Len(machine.disks)
      /\ \A i \in DOMAIN machine.disks : machine.disks[i].size \in Nat /\ PartsOK(machine.disks[i].parts)
  BY MachineDisks
<1>2. ASSUME NEW p, PartitionOK(p)
      PROVE  /\ PartitionOK(Classified(machine, p))
             /\ Classified(machine, p).number = p.number
  <2>1. CASE machine.table = "mbr" /\ p.role = "boot" /\ ~machine.hot
    BY <1>2, <2>1 DEF PartitionOK, Classified
  <2>2. CASE ~(machine.table = "mbr" /\ p.role = "boot" /\ ~machine.hot)
    BY <1>2, <2>2 DEF Classified
  <2> QED
    BY <2>1, <2>2
<1>3. ASSUME NEW i \in Disks PROVE man.disks[i].size \in Nat /\ PartsOK(Parts(i))
  <2>1. man.disks[i].size \in Nat /\ PartsOK(machine.disks[i].parts)
    BY <1>1, ManifestParts
  <2>2. /\ DOMAIN Parts(i) = DOMAIN machine.disks[i].parts /\ Len(Parts(i)) = Len(machine.disks[i].parts)
        /\ \A k \in DOMAIN Parts(i) :
             LET p == Classified(machine, machine.disks[i].parts[k])
             IN  Parts(i)[k] = [number |-> p.number, role |-> p.role, fs |-> p.fs, start |-> p.start,
                                count |-> p.count, uuid |-> Uuid(machine, i, p)]
    BY ManifestParts
  <2>3. ASSUME NEW k \in DOMAIN Parts(i)
        PROVE  PartitionOK(Parts(i)[k]) /\ Parts(i)[k].number = machine.disks[i].parts[k].number
    <3> DEFINE p == Classified(machine, machine.disks[i].parts[k])
    <3>1. PartitionOK(p) /\ p.number = machine.disks[i].parts[k].number
      BY <1>2, <2>1, <2>2, <2>3 DEF PartsOK
    <3>2. Parts(i)[k] = [number |-> p.number, role |-> p.role, fs |-> p.fs, start |-> p.start,
                         count |-> p.count, uuid |-> Uuid(machine, i, p)]
      BY <2>2, <2>3
    <3> HIDE DEF p
    <3> QED
      BY <3>1, <3>2 DEF PartitionOK
  <2> QED
    BY <2>1, <2>2, <2>3 DEF PartsOK
<1> QED
  BY <1>1, <1>3, ManifestParts DEF ManifestOK, Disks
-----------------------------------------------------------------------------
(* What the checks of the agent say of a layout.                           *)

Size(i) == man.disks[i].size

(* A partition of its own role.                                            *)
LEMMA OnlyOne ==
  ASSUME NEW parts, NEW role, PartsOK(parts), OfRole(parts, role) = 1
  PROVE  \E r \in DOMAIN parts : /\ parts[r].role = role
                                 /\ \A k \in DOMAIN parts : parts[k].role = role => k = r
<1> DEFINE S == {k \in DOMAIN parts : parts[k].role = role}
<1>1. IsFiniteSet(DOMAIN parts)
  BY FS_Interval DEF PartsOK
<1>2. IsFiniteSet(S)
  BY <1>1, FS_Subset
<1>3. Cardinality(S) = 1
  BY DEF OfRole
<1>4. \E r : S = {r}
  <2> HIDE DEF S
  <2> QED
    BY <1>2, <1>3, FS_Singleton
<1>5. PICK r : S = {r}
  BY <1>4
<1>6. r \in S
  BY <1>5
<1> QED
  BY <1>5, <1>6

LEMMA AtMostOne ==
  ASSUME NEW parts, NEW role, PartsOK(parts), OfRole(parts, role) <= 1,
         NEW j \in DOMAIN parts, NEW k \in DOMAIN parts, parts[j].role = role, parts[k].role = role
  PROVE  j = k
<1> DEFINE S == {n \in DOMAIN parts : parts[n].role = role}
<1>1. IsFiniteSet(DOMAIN parts)
  BY FS_Interval DEF PartsOK
<1>2. IsFiniteSet(S) /\ IsFiniteSet({j, k}) /\ j \in S /\ k \in S
  BY <1>1, FS_Subset
<1>3. Cardinality(S) \in Nat /\ Cardinality(S) <= 1
  BY <1>2, FS_CardinalityType DEF OfRole
<1>4. Cardinality(S) # 0
  BY <1>2, FS_EmptySet
<1>5. Cardinality(S) = 1
  BY <1>3, <1>4
<1>6. \E r : S = {r}
  <2> HIDE DEF S
  <2> QED
    BY <1>2, <1>5, FS_Singleton
<1>7. PICK r : S = {r}
  BY <1>6
<1> HIDE DEF S
<1> QED
  BY <1>2, <1>7

(* The partitions of a disk lie apart, within the usable sectors, and one  *)
(* of them is the root.                                                    *)
IsRoot(i, r) ==
  /\ r \in DOMAIN Parts(i) /\ Parts(i)[r].role = "root" /\ Root(man.disks[i]) = Parts(i)[r]
  /\ \A k \in DOMAIN Parts(i) : Parts(i)[k].role = "root" => k = r
Laid(i) ==
  /\ \A k \in DOMAIN Parts(i) :
       Parts(i)[k].start >= 1 /\ End(Parts(i)[k]) <= LastUsable(man.table, Size(i))
  /\ \A j, k \in DOMAIN Parts(i) :
       j # k => End(Parts(i)[j]) < Parts(i)[k].start \/ End(Parts(i)[k]) < Parts(i)[j].start
  /\ \E r \in DOMAIN Parts(i) : IsRoot(i, r)

LEMMA NumbersDiffer ==
  ASSUME NEW parts, PartsOK(parts), NEW j \in DOMAIN parts, NEW k \in DOMAIN parts,
         parts[j].number = parts[k].number
  PROVE  j = k
<1>1. j \in Nat /\ k \in Nat /\ parts[j].number \in Nat
  BY DEF PartsOK, PartitionOK
<1>2. (j < k => parts[j].number < parts[k].number) /\ (k < j => parts[k].number < parts[j].number)
  BY DEF PartsOK
<1> QED
  BY <1>1, <1>2

LEMMA RootIs ==
  ASSUME ManifestOK, NEW i \in Disks, OfRole(Parts(i), "root") = 1
  PROVE  \E r \in DOMAIN Parts(i) : IsRoot(i, r)
<1>1. PartsOK(Parts(i))
  BY DEF ManifestOK
<1>2. PICK r \in DOMAIN Parts(i) : /\ Parts(i)[r].role = "root"
                                   /\ \A k \in DOMAIN Parts(i) : Parts(i)[k].role = "root" => k = r
  BY <1>1, OnlyOne
<1>3. \A p \in Range(Parts(i)) : p.role = "root" <=> p = Parts(i)[r]
  BY <1>2 DEF Range
<1>4. Parts(i)[r] \in Range(Parts(i))
  BY DEF Range
<1>5. (CHOOSE p \in Range(Parts(i)) : p.role = "root") = Parts(i)[r]
  BY <1>3, <1>4
<1> QED
  BY <1>2, <1>5 DEF IsRoot, Root, Parts

LEMMA LaidOut ==
  ASSUME ManifestOK, NEW i \in Disks, OfRole(Parts(i), "root") = 1, Apart(Parts(i)),
         \A p \in Range(Parts(i)) : p.start >= FirstUsable /\ End(p) <= LastUsable(man.table, Size(i))
  PROVE  Laid(i)
<1>1. PartsOK(Parts(i))
  BY DEF ManifestOK
<1>2. \A k \in DOMAIN Parts(i) : Parts(i)[k] \in Range(Parts(i))
  BY DEF Range
<1>3. ASSUME NEW j \in DOMAIN Parts(i), NEW k \in DOMAIN Parts(i), j # k
      PROVE  End(Parts(i)[j]) < Parts(i)[k].start \/ End(Parts(i)[k]) < Parts(i)[j].start
  <2>1. Parts(i)[j] # Parts(i)[k]
    BY <1>1, <1>3, NumbersDiffer
  <2> QED
    BY <1>2, <2>1 DEF Apart
<1> QED
  BY <1>2, <1>3, RootIs DEF Laid, FirstUsable

LEMMA AcceptedLayout ==
  ASSUME ManifestOK, AgentAccepts(man), NEW i \in Disks
  PROVE  Laid(i)
<1>1. GeometryAccepted(man, man.disks[i])
  BY DEF AgentAccepts, Disks
<1>2. /\ OfRole(Parts(i), "root") = 1 /\ Apart(Parts(i))
      /\ \A p \in Range(Parts(i)) : p.start >= FirstUsable /\ End(p) <= LastUsable(man.table, Size(i))
  BY <1>1 DEF GeometryAccepted, Parts, Size
<1> QED
  BY <1>2, LaidOut

(* An accepted image on a volume is on the one disk of a linear volume:    *)
(* the roots of RAID1 members have the same filesystem, which the agent    *)
(* refuses.                                                                *)
LEMMA OneVolume ==
  ASSUME machine \in Machine, man = Manifest(machine), ManifestOK, Published(man), AgentAccepts(man), ~Plain
  PROVE  Len(man.disks) = 1
<1>1. man.volumes \in {"lvm-linear", "raid1"}
  BY DEF AgentAccepts, CapabilitiesAccepted, Plain
<1>2. CASE man.volumes = "lvm-linear"
  BY <1>2 DEF Published, Supported
<1>3. CASE man.volumes = "raid1"
  <2>1. Len(man.disks) >= 2 /\ 1 \in Disks /\ 2 \in Disks
    BY <1>3 DEF Published, Supported, ManifestOK, Disks
  <2>2. machine.storage = "raid1"
    BY <1>3, ManifestParts
  <2>3. ASSUME NEW i \in Disks PROVE \E r \in DOMAIN Parts(i) : Parts(i)[r].uuid = <<0, 0>>
    <3>1. PICK r \in DOMAIN Parts(i) : IsRoot(i, r)
      BY AcceptedLayout DEF Laid
    <3> DEFINE p == Classified(machine, machine.disks[i].parts[r])
    <3>2. Parts(i)[r] = [number |-> p.number, role |-> p.role, fs |-> p.fs, start |-> p.start,
                         count |-> p.count, uuid |-> Uuid(machine, i, p)]
      BY ManifestParts
    <3> HIDE DEF p
    <3>3. p.role = "root"
      BY <3>1, <3>2 DEF IsRoot
    <3> QED
      BY <2>2, <3>2, <3>3 DEF Uuid
  <2>4. PICK r \in DOMAIN Parts(1) : Parts(1)[r].uuid = <<0, 0>>
    BY <2>1, <2>3
  <2>5. PICK s \in DOMAIN Parts(2) : Parts(2)[s].uuid = <<0, 0>>
    BY <2>1, <2>3
  <2>6. <<1, r>> \in Slots(man) /\ <<2, s>> \in Slots(man)
    BY <2>1 DEF Slots, Parts, Disks
  <2>7. <<1, r>> = <<2, s>>
    BY <2>4, <2>5, <2>6 DEF AgentAccepts, DistinctFileSystems, Parts
  <2> QED
    BY <2>7
<1> QED
  BY <1>1, <1>2, <1>3

(* A DOS table has a root and at most a boot and a swap partition.  When   *)
(* no number is larger than the table is long, they are numbered in turn.  *)
LEMMA FewOnDos ==
  ASSUME NEW parts, PartsOK(parts), OfRole(parts, "esp") = 0, OfRole(parts, "root") = 1,
         OfRole(parts, "boot") <= 1, OfRole(parts, "swap") <= 1
  PROVE  Len(parts) <= 3
<1> DEFINE Role(r) == {k \in DOMAIN parts : parts[k].role = r}
<1>1. IsFiniteSet(DOMAIN parts) /\ Cardinality(DOMAIN parts) = Len(parts) /\ Len(parts) \in Nat
  BY FS_Interval DEF PartsOK
<1>2. ASSUME NEW r PROVE IsFiniteSet(Role(r)) /\ Cardinality(Role(r)) \in Nat /\ Cardinality(Role(r)) = OfRole(parts, r)
  <2>1. IsFiniteSet(Role(r))
    BY <1>1, FS_Subset
  <2> QED
    BY <2>1, FS_CardinalityType DEF OfRole
<1>3. Role("esp") = {}
  BY <1>2, FS_EmptySet
<1>4. DOMAIN parts = (Role("root") \cup Role("boot")) \cup Role("swap")
  BY <1>3 DEF PartsOK, PartitionOK
<1> HIDE DEF Role
<1> DEFINE two == Role("root") \cup Role("boot")
<1>5. IsFiniteSet(two) /\ Cardinality(two) \in Nat /\ Cardinality(two) <= 2
  <2>1. /\ IsFiniteSet(two)
        /\ Cardinality(two) = Cardinality(Role("root")) + Cardinality(Role("boot"))
                                - Cardinality(Role("root") \cap Role("boot"))
    BY <1>2, FS_Union
  <2>2. Cardinality(Role("root") \cap Role("boot")) \in Nat
    BY <1>2, FS_Intersection, FS_CardinalityType
  <2>3. Cardinality(two) \in Nat
    BY <2>1, FS_CardinalityType
  <2> QED
    BY <1>2, <2>1, <2>2, <2>3
<1>6. Cardinality(DOMAIN parts) <= 3
  <2>1. Cardinality(two \cup Role("swap")) = Cardinality(two) + Cardinality(Role("swap"))
                                               - Cardinality(two \cap Role("swap"))
    BY <1>2, <1>5, FS_Union
  <2>2. Cardinality(two \cap Role("swap")) \in Nat
    BY <1>5, FS_Intersection, FS_CardinalityType
  <2>3. DOMAIN parts = two \cup Role("swap")
    BY <1>4
  <2> HIDE DEF two
  <2> QED
    BY <1>2, <1>5, <2>1, <2>2, <2>3
<1> QED
  BY <1>1, <1>6

LEMMA NumberedInTurn ==
  ASSUME NEW parts, PartsOK(parts), Len(parts) <= 3,
         \A k \in DOMAIN parts : parts[k].number \in DOMAIN parts
  PROVE  \A k \in DOMAIN parts : parts[k].number = k
<1>1. Len(parts) \in {0, 1, 2, 3} /\ DOMAIN parts = 1 .. Len(parts)
  BY DEF PartsOK
<1>2. \A k \in DOMAIN parts : parts[k].number \in 1 .. Len(parts)
  BY <1>1
<1>3. \A j, k \in DOMAIN parts : j < k => parts[j].number < parts[k].number
  BY DEF PartsOK
<1>4. CASE Len(parts) \in {0, 1}
  BY <1>1, <1>2, <1>4
<1>5. CASE Len(parts) = 2
  <2>1. 1 \in DOMAIN parts /\ 2 \in DOMAIN parts
    BY <1>1, <1>5
  <2>2. parts[1].number \in 1 .. 2 /\ parts[2].number \in 1 .. 2 /\ parts[1].number < parts[2].number
    BY <1>2, <1>3, <1>5, <2>1
  <2> QED
    BY <1>1, <1>5, <2>2
<1>6. CASE Len(parts) = 3
  <2>1. 1 \in DOMAIN parts /\ 2 \in DOMAIN parts /\ 3 \in DOMAIN parts
    BY <1>1, <1>6
  <2>2. /\ parts[1].number \in 1 .. 3 /\ parts[2].number \in 1 .. 3 /\ parts[3].number \in 1 .. 3
        /\ parts[1].number < parts[2].number /\ parts[2].number < parts[3].number
    BY <1>2, <1>3, <1>6, <2>1
  <2> QED
    BY <1>1, <1>6, <2>2
<1> QED
  BY <1>1, <1>4, <1>5, <1>6


-----------------------------------------------------------------------------
(* The inductive invariant.                                                *)

Refused == {"source", "captured", "refused", "unpublished"}
Chosen == Working \cup {"succeeded", "failed"}
Fields == {"size", "table", "data", "boot"}

(* What the agent has checked before it writes, and still holds: a task    *)
(* changes neither the sizes of the disks nor the manifest nor the tools.  *)
Ready ==
  /\ AgentAccepts(man) /\ Required \cap missing = {}
  /\ \A i \in Disks : TargetAccepted(i)

IsDisk(i) ==
  /\ DOMAIN target[i] = Fields
  /\ target[i].size \in Nat /\ target[i].size >= Size(i)
  /\ DOMAIN target[i].data = 0 .. (target[i].size - 1)
  /\ \A e \in target[i].table :
       /\ e.number \in Nat /\ e.start \in Nat \ {0} /\ e.count \in Nat \ {0}
       /\ End(e) < target[i].size

Typed ==
  /\ machine \in Machine /\ man = Manifest(machine) /\ TypeOK
  /\ stage \notin Refused => Published(man)
  /\ IF stage \in Refused \cup {"published"} THEN target = << >>
     ELSE DOMAIN target = Disks /\ \A i \in Disks : IsDisk(i)
  /\ at[1] \in Nat \ {0} /\ at[2] \in Nat \ {0}
  /\ stage \in {"tables", "restoring", "booting"} => at[1] \in Disks
  /\ stage \notin {"rejected", "tables", "restoring", "booting", "verifying", "succeeded", "failed"} =>
       at[1] = 1 /\ at[2] = 1

Untouched ==
  /\ stage \in Chosen => Ready
  /\ stage \in {"reserved", "downloading"} => \A i \in Disks : target[i] = Blank(target[i].size)
  /\ stage = "rejected" => \/ \A i \in Disks : target[i] = Blank(target[i].size)
                           \/ Ready /\ got = Total /\ "gzip" \in missing
  /\ stage \in Chosen \ {"downloading", "failed"} => got = Total
  /\ stage = "failed" => Written = {} \/ got = Total
  /\ stage = "stack" => ~Plain

(* The tables are those of the manifest until a root grows.                *)
Tabled ==
  /\ stage = "tables" => \A i \in Disks : i < at[1] => target[i].table = Table(i)
  /\ stage = "stack" => \A i \in Disks : target[i].table = Table(i)
  /\ stage = "restoring" => \A i \in Disks : i >= at[1] => target[i].table = Table(i)

(* The agent finds each partition by its number.  On a DOS table it finds  *)
(* the right ones only if they are numbered in turn, and all of them only  *)
(* then.                                                                   *)
Numbered(i) == man.table = "gpt" \/ \A k \in DOMAIN Parts(i) : Parts(i)[k].number = k
Present(i, k) == \E e \in Table(i) : e.number = Parts(i)[k].number
OnVolume(i, k) == Parts(i)[k].role = "root" /\ ~Plain
Content(i, k) == IF OnVolume(i, k) THEN "pv" ELSE Parts(i)[k].uuid
Filled(i, k) ==
  \A s \in Parts(i)[k].start .. End(Parts(i)[k]) : target[i].data[s] = Content(i, k)
Put(i, k) ==
  /\ Present(i, k)
  /\ Numbered(i) => Filled(i, k) /\ (OnVolume(i, k) => volume = Parts(i)[k].uuid)

Complete(i) ==
  /\ \A p \in Range(Parts(i)) : InPlace(i, p)
  /\ \A e, f \in target[i].table : e = f \/ End(e) < f.start \/ End(f) < e.start
  /\ \A e \in target[i].table : End(e) <= LastUsable(man.table, target[i].size)

Progress ==
  /\ stage = "restoring" =>
       /\ \A k \in DOMAIN Parts(at[1]) : k < at[2] => Put(at[1], k)
       /\ \A k \in DOMAIN Parts(1) : OnVolume(1, k) =>
            Present(1, k) /\ (Numbered(1) => Filled(1, k))
       /\ \A i \in Disks : i < at[1] => Complete(i)
  /\ stage \in {"finalizing", "booting", "verifying", "succeeded"} => \A i \in Disks : Complete(i)

Booted ==
  /\ stage = "booting" => \A i \in Disks : i < at[1] => target[i].boot
  /\ stage \in {"verifying", "succeeded"} => \A i \in Disks : target[i].boot
  /\ stage \in {"booting", "verifying", "succeeded"} => (op = "clone" => 1 \in renamed)

RestoreInv == Typed /\ Untouched /\ Tabled /\ Progress /\ Booted /\ OthersAreRestorable

-----------------------------------------------------------------------------
(* What every step may count on.                                           *)

LEMMA ManifestHolds == Typed => ManifestOK /\ Disks = 1 .. Len(man.disks)
  BY ManifestIsOK DEF Typed, ManifestOK, Disks

LEMMA DiskNumbers ==
  ASSUME ManifestOK
  PROVE  /\ Len(man.disks) \in Nat \ {0} /\ 1 \in Disks
         /\ \A i \in Disks :
              /\ i \in Nat \ {0} /\ i <= Len(man.disks) /\ (Len(man.disks) = 1 => i = 1)
              /\ i < Len(man.disks) => i + 1 \in Disks
              /\ DOMAIN Parts(i) \subseteq Nat \ {0}
<1>1. Disks = 1 .. Len(man.disks) /\ Len(man.disks) \in Nat \ {0}
  BY DEF ManifestOK, Disks
<1>2. ASSUME NEW i \in Disks PROVE DOMAIN Parts(i) \subseteq Nat \ {0}
  <2>1. DOMAIN Parts(i) = 1 .. Len(Parts(i)) /\ Len(Parts(i)) \in Nat
    BY DEF ManifestOK, PartsOK
  <2> QED
    BY <2>1
<1> DEFINE n == Len(man.disks)
<1>3. n \in Nat \ {0} /\ \A i : i \in Disks <=> i \in 1 .. n
  BY <1>1
<1> HIDE DEF n
<1>4. 1 \in Disks
  BY <1>3
<1>5. ASSUME NEW i \in Disks
      PROVE  /\ i \in Nat \ {0} /\ i <= n /\ (n = 1 => i = 1)
             /\ i < n => i + 1 \in Disks
  BY <1>3
<1> QED
  BY <1>2, <1>3, <1>4, <1>5 DEF n

LEMMA LastIsInside ==
  ASSUME NEW size \in Nat, NEW other \in Nat, size <= other, man.table \in {"gpt", "mbr"}
  PROVE  /\ LastUsable(man.table, size) \in Int /\ LastUsable(man.table, size) < size
         /\ LastUsable(man.table, size) <= LastUsable(man.table, other)
  BY DEF LastUsable

(* The agent works on targets it has accepted: whatever grows is the last  *)
(* partition of a GPT.                                                     *)
GrowsLast(i) ==
  Larger(i) =>
    /\ Plain /\ man.table = "gpt" /\ Root(man.disks[i]).fs = "ext4"
    /\ \A k \in DOMAIN Parts(i) :
         Parts(i)[k].start <= Root(man.disks[i]).start /\ Parts(i)[k].role # "swap"

LEMMA Accepted ==
  ASSUME Typed, Untouched, stage \in Chosen
  PROVE  /\ ManifestOK /\ Ready /\ DOMAIN target = Disks /\ Disks = 1 .. Len(man.disks)
         /\ \A i \in Disks : IsDisk(i) /\ PartsOK(Parts(i)) /\ Laid(i) /\ GrowsLast(i) /\ usable[i]
         /\ ~Plain => Len(man.disks) = 1
<1>1. ManifestOK /\ Ready /\ DOMAIN target = Disks /\ \A i \in Disks : IsDisk(i)
  BY ManifestHolds DEF Typed, Untouched, Chosen, Working, Refused
<1>2. ASSUME NEW i \in Disks PROVE GrowsLast(i) /\ usable[i]
  <2>1. TargetAccepted(i)
    BY <1>1 DEF Ready
  <2>2. \A k \in DOMAIN Parts(i) : Parts(i)[k] \in Range(Parts(i))
    BY DEF Range
  <2> QED
    BY <2>1, <2>2 DEF TargetAccepted, Expandable, GrowsLast
<1>3. ~Plain => Len(man.disks) = 1
  <2>1. Published(man)
    BY DEF Typed, Chosen, Working, Refused
  <2> QED
    BY <1>1, <2>1, OneVolume DEF Typed, Ready
<1>4. \A i \in Disks : Laid(i)
  BY <1>1, AcceptedLayout DEF Ready
<1> QED
  BY <1>1, <1>2, <1>3, <1>4, ManifestHolds DEF ManifestOK

(* The entries of a table, one for each partition.                         *)
EntryOf(i, k) ==
  [number |-> IF man.table = "gpt" THEN Parts(i)[k].number ELSE k,
   start |-> Parts(i)[k].start, count |-> Parts(i)[k].count]

LEMMA Entries ==
  ASSUME ManifestOK, NEW i \in Disks, Laid(i)
  PROVE  /\ \A k \in DOMAIN Parts(i) : EntryOf(i, k) \in Table(i)
         /\ \A e \in Table(i) : \E k \in DOMAIN Parts(i) : e = EntryOf(i, k)
         /\ \A j, k \in DOMAIN Parts(i) : EntryOf(i, j).number = EntryOf(i, k).number => j = k
         /\ \A k \in DOMAIN Parts(i) :
              /\ EntryOf(i, k).number \in Nat
              /\ EntryOf(i, k).start = Parts(i)[k].start /\ EntryOf(i, k).count = Parts(i)[k].count
              /\ EntryOf(i, k).start \in Nat \ {0} /\ EntryOf(i, k).count \in Nat \ {0}
              /\ End(EntryOf(i, k)) = End(Parts(i)[k])
              /\ End(EntryOf(i, k)) <= LastUsable(man.table, Size(i))
              /\ End(EntryOf(i, k)) < Size(i)
<1>1. PartsOK(Parts(i)) /\ Size(i) \in Nat /\ man.table \in {"gpt", "mbr"}
  BY DEF ManifestOK, Size
<1>2. Table(i) = {EntryOf(i, k) : k \in DOMAIN Parts(i)}
  BY DEF Table, EntryOf
<1>3. ASSUME NEW k \in DOMAIN Parts(i)
      PROVE  /\ EntryOf(i, k).number = IF man.table = "gpt" THEN Parts(i)[k].number ELSE k
             /\ EntryOf(i, k).start = Parts(i)[k].start /\ EntryOf(i, k).count = Parts(i)[k].count
  BY DEF EntryOf
<1>4. ASSUME NEW j \in DOMAIN Parts(i), NEW k \in DOMAIN Parts(i),
             EntryOf(i, j).number = EntryOf(i, k).number
      PROVE  j = k
  BY <1>1, <1>3, <1>4, NumbersDiffer
<1>5. ASSUME NEW k \in DOMAIN Parts(i)
      PROVE  /\ EntryOf(i, k).number \in Nat
             /\ EntryOf(i, k).start \in Nat \ {0} /\ EntryOf(i, k).count \in Nat \ {0}
             /\ End(EntryOf(i, k)) = End(Parts(i)[k])
             /\ End(EntryOf(i, k)) <= LastUsable(man.table, Size(i))
             /\ End(EntryOf(i, k)) < Size(i)
  <2>1. k \in Nat /\ PartitionOK(Parts(i)[k])
    BY <1>1 DEF PartsOK
  <2>2. Parts(i)[k].start >= 1 /\ End(Parts(i)[k]) <= LastUsable(man.table, Size(i))
    BY DEF Laid
  <2>3. End(EntryOf(i, k)) = End(Parts(i)[k])
    BY <1>3 DEF End
  <2>4. End(Parts(i)[k]) \in Int
    BY <2>1 DEF End, PartitionOK
  <2>5. LastUsable(man.table, Size(i)) \in Int /\ LastUsable(man.table, Size(i)) < Size(i)
    BY <1>1, LastIsInside
  <2>6. End(EntryOf(i, k)) < Size(i)
    BY <1>1, <2>2, <2>3, <2>4, <2>5
  <2> QED
    BY <1>3, <2>1, <2>2, <2>3, <2>6 DEF PartitionOK
<1> HIDE DEF EntryOf
<1> QED
  BY <1>2, <1>3, <1>4, <1>5

(* The entries of a table lie apart, and each number names one of them.    *)
LEMMA EntriesApart ==
  ASSUME ManifestOK, NEW i \in Disks, Laid(i), NEW e \in Table(i), NEW f \in Table(i)
  PROVE  /\ e = f \/ End(e) < f.start \/ End(f) < e.start
         /\ e.number = f.number => e = f
<1>1. PICK j \in DOMAIN Parts(i) : e = EntryOf(i, j)
  BY Entries
<1>2. PICK k \in DOMAIN Parts(i) : f = EntryOf(i, k)
  BY Entries
<1>3. /\ e.start = Parts(i)[j].start /\ End(e) = End(Parts(i)[j])
      /\ f.start = Parts(i)[k].start /\ End(f) = End(Parts(i)[k])
  BY <1>1, <1>2, Entries
<1>4. j # k => End(Parts(i)[j]) < Parts(i)[k].start \/ End(Parts(i)[k]) < Parts(i)[j].start
  BY DEF Laid
<1> QED
  BY <1>1, <1>2, <1>3, <1>4, Entries

-----------------------------------------------------------------------------
(* What the steps that write do to the disks.                              *)

(* No disk but one changes, and on this one some sectors, and its table.   *)
Overlaid(new, i, first, last, content) ==
  /\ DOMAIN new = DOMAIN target /\ \A j \in DOMAIN target : j # i => new[j] = target[j]
  /\ DOMAIN new[i] = Fields /\ new[i].size = target[i].size /\ new[i].boot = target[i].boot
  /\ DOMAIN new[i].data = DOMAIN target[i].data
  /\ \A s \in DOMAIN target[i].data :
       new[i].data[s] = IF s \in first .. last THEN content ELSE target[i].data[s]

LEMMA WroteIs ==
  ASSUME NEW i \in DOMAIN target, DOMAIN target[i] = Fields, NEW first, NEW last, NEW content
  PROVE  /\ Overlaid(Wrote(i, first, last, content), i, first, last, content)
         /\ Wrote(i, first, last, content)[i].table = target[i].table
<1> DEFINE d == target[i]
           D == [s \in DOMAIN d.data |-> IF s \in first .. last THEN content ELSE d.data[s]]
           new == [d EXCEPT !.data = D]
           T == Wrote(i, first, last, content)
<1>1. T = [target EXCEPT ![i] = new]
  BY DEF Wrote
<1>2. /\ DOMAIN D = DOMAIN d.data
      /\ \A s \in DOMAIN d.data : D[s] = IF s \in first .. last THEN content ELSE d.data[s]
  OBVIOUS
<1> HIDE DEF D
<1>3. /\ DOMAIN new = Fields /\ new.size = d.size /\ new.boot = d.boot /\ new.table = d.table
      /\ new.data = D
  BY DEF Fields
<1> HIDE DEF new
<1>4. /\ DOMAIN T = DOMAIN target /\ T[i] = new
      /\ \A j \in DOMAIN target : j # i => T[j] = target[j]
  BY <1>1
<1> HIDE DEF T
<1>5. /\ DOMAIN T[i] = Fields /\ T[i].size = d.size /\ T[i].boot = d.boot /\ T[i].table = d.table
      /\ DOMAIN T[i].data = DOMAIN d.data
      /\ \A s \in DOMAIN d.data : T[i].data[s] = IF s \in first .. last THEN content ELSE d.data[s]
  BY <1>2, <1>3, <1>4
<1>6. Overlaid(T, i, first, last, content) /\ T[i].table = target[i].table
  BY <1>4, <1>5 DEF Overlaid
<1> QED
  BY <1>6 DEF T

LEMMA ToolsRequired ==
  /\ ~Plain => "lvm" \in Required
  /\ \A i \in Disks : Larger(i) => "resize" \in Required
<1> DEFINE formats == {"table", "swap"} \cup (UNION {{p.fs : p \in Artifacts(i)} : i \in Disks})
           stack == IF Plain THEN {} ELSE {"lvm"}
           growth == IF \E i \in Disks : Larger(i) THEN {"resize"} ELSE {}
<1>1. Required = formats \cup stack \cup growth
  BY Zenon DEF Required
<1>2. ~Plain => "lvm" \in stack
  OBVIOUS
<1>3. \A i \in Disks : Larger(i) => "resize" \in growth
  OBVIOUS
<1> HIDE DEF formats, stack, growth
<1> QED
  BY <1>1, <1>2, <1>3

LEMMA WriteTableIs ==
  ASSUME Typed, Untouched, WriteTable
  PROVE  /\ at[1] \in Disks
         /\ DOMAIN target' = Disks /\ \A j \in Disks : j # at[1] => target'[j] = target[j]
         /\ DOMAIN target'[at[1]] = Fields /\ target'[at[1]].size = target[at[1]].size
         /\ target'[at[1]].data = target[at[1]].data /\ target'[at[1]].table = Table(at[1])
         /\ stage' = IF at[1] < Len(man.disks) THEN "tables"
                     ELSE IF Plain THEN "restoring" ELSE "stack"
         /\ at' = IF at[1] < Len(man.disks) THEN <<at[1] + 1, 1>> ELSE <<1, 1>>
         /\ UNCHANGED <<image, choice, got, volume, renamed, fault>>
<1> DEFINE i == at[1]
<1>1. stage = "tables" /\ stage \in Chosen /\ i \in Disks
  BY DEF WriteTable, Typed, Chosen, Working
<1>2. Ready /\ DOMAIN target = Disks /\ IsDisk(i)
  BY <1>1, Accepted
<1>3. "table" \notin missing
  BY <1>2 DEF Ready, Required
<1>4. /\ target' = [target EXCEPT ![i].table = Table(i), ![i].boot = man.table = "mbr"]
      /\ stage' = IF i < Len(man.disks) THEN "tables" ELSE IF Plain THEN "restoring" ELSE "stack"
      /\ at' = IF i < Len(man.disks) THEN <<i + 1, 1>> ELSE <<1, 1>>
      /\ UNCHANGED <<image, choice, got, volume, renamed, fault>>
  BY <1>1, <1>3 DEF WriteTable
<1> DEFINE d == target[i]
           T == Table(i)
           new == [[d EXCEPT !.table = T] EXCEPT !.boot = (man.table = "mbr")]
<1>5. target' = [target EXCEPT ![i] = new]
  BY <1>1, <1>2, <1>4
<1>6. DOMAIN d = Fields
  BY <1>2 DEF IsDisk
<1> HIDE DEF T
<1>7. DOMAIN new = Fields /\ new.size = d.size /\ new.data = d.data /\ new.table = T
  BY <1>6 DEF Fields
<1> HIDE DEF new
<1>8. DOMAIN target' = Disks /\ target'[i] = new /\ \A j \in Disks : j # i => target'[j] = target[j]
  BY <1>1, <1>2, <1>5
<1> QED
  BY <1>1, <1>4, <1>7, <1>8 DEF T

LEMMA BuildStackIs ==
  ASSUME Typed, Untouched, BuildStack
  PROVE  /\ stage = "stack" /\ ~Plain /\ Disks = {1} /\ Len(man.disks) = 1
         /\ \/ /\ stage' = "failed" /\ target' = target
               /\ Entry(1, Root(man.disks[1]).number) = {}
            \/ /\ stage' = "restoring"
               /\ \E e \in Entry(1, Root(man.disks[1]).number) :
                    Overlaid(target', 1, e.start, e.start + e.count - 1, "pv")
               /\ target'[1].table = target[1].table
         /\ UNCHANGED <<image, choice, got, at, volume, renamed, fault>>
<1>1. stage = "stack" /\ stage \in Chosen
  BY DEF BuildStack, Chosen, Working
<1>2. ~Plain
  BY <1>1 DEF Untouched
<1>3. Ready /\ DOMAIN target = Disks /\ Disks = 1 .. Len(man.disks) /\ Len(man.disks) = 1
      /\ \A i \in Disks : IsDisk(i)
  BY <1>1, <1>2, Accepted
<1>4. "lvm" \notin missing
  <2>1. "lvm" \in Required
    BY <1>2, ToolsRequired
  <2> QED
    BY <1>3, <2>1 DEF Ready
<1>5. 1 \in DOMAIN target /\ DOMAIN target[1] = Fields /\ Disks = {1}
  BY <1>3 DEF IsDisk
<1> DEFINE E == Entry(1, Root(man.disks[1]).number)
<1> HIDE DEF E
<1>6. /\ stage' = IF E = {} THEN "failed" ELSE "restoring"
      /\ target' = IF stage' # "restoring" THEN target
                   ELSE LET e == CHOOSE e \in E : TRUE IN Wrote(1, e.start, e.start + e.count - 1, "pv")
      /\ UNCHANGED <<image, choice, got, at, volume, renamed, fault>>
  BY <1>4 DEF BuildStack, E
<1>7. CASE E = {}
  BY <1>1, <1>2, <1>3, <1>5, <1>6, <1>7 DEF E
<1>8. CASE E # {}
  <2> DEFINE e == CHOOSE e \in E : TRUE
  <2>1. e \in E
    BY <1>8
  <2>2. stage' = "restoring" /\ target' = Wrote(1, e.start, e.start + e.count - 1, "pv")
    BY <1>6, <1>8
  <2> HIDE DEF e
  <2>3. Overlaid(target', 1, e.start, e.start + e.count - 1, "pv") /\ target'[1].table = target[1].table
    BY <1>5, <2>2, WroteIs
  <2> QED
    BY <1>1, <1>2, <1>3, <1>5, <1>6, <2>1, <2>2, <2>3 DEF E
<1> QED
  BY <1>7, <1>8

(* partclone and mkswap fill the entry with the number of the partition.   *)
LEMMA RestoredIs ==
  ASSUME Typed, Untouched, RestorePartition
  PROVE  LET i == at[1]  k == at[2] IN
         /\ stage = "restoring" /\ i \in Disks /\ k \in DOMAIN Parts(i)
         /\ \/ /\ OnVolume(i, k) /\ volume' = Parts(i)[k].uuid /\ at' = <<i, k + 1>>
               /\ UNCHANGED <<stage, target>>
            \/ /\ ~OnVolume(i, k) /\ stage' = "failed" /\ target' = target /\ volume' = volume
               /\ \A e \in Entry(i, Parts(i)[k].number) : ~(e.count >= Parts(i)[k].count)
            \/ /\ ~OnVolume(i, k) /\ stage' = stage /\ volume' = volume /\ at' = <<i, k + 1>>
               /\ \E e \in Entry(i, Parts(i)[k].number) :
                    /\ e.count >= Parts(i)[k].count
                    /\ Overlaid(target', i, e.start, e.start + Parts(i)[k].count - 1, Parts(i)[k].uuid)
               /\ target'[i].table = target[i].table
         /\ at'[1] = i /\ at'[2] = k + 1
         /\ UNCHANGED <<image, choice, got, renamed, fault>>
<1> DEFINE i == at[1]
           k == at[2]
           p == Parts(i)[k]
<1>1. stage = "restoring" /\ stage \in Chosen /\ i \in Disks /\ k \in DOMAIN Parts(i)
  BY DEF RestorePartition, Typed, Chosen, Working
<1>2. Ready /\ DOMAIN target = Disks /\ IsDisk(i) /\ PartsOK(Parts(i))
  BY <1>1, Accepted
<1>3. DOMAIN target[i] = Fields
  BY <1>2 DEF IsDisk
<1>4. p.fs \notin missing
  <2>1. PartitionOK(p) /\ p \in Range(Parts(i))
    BY <1>1, <1>2 DEF PartsOK, Range
  <2>2. CASE p.role = "swap"
    BY <1>2, <2>1, <2>2 DEF PartitionOK, Ready, Required
  <2>3. CASE p.role # "swap"
    <3>1. p.fs \in {q.fs : q \in Artifacts(i)}
      BY <2>1, <2>3 DEF Artifacts
    <3>2. p.fs \in UNION {{q.fs : q \in Artifacts(j)} : j \in Disks}
      BY <1>1, <3>1
    <3>3. p.fs \in Required
      BY <3>2 DEF Required
    <3> QED
      BY <1>2, <3>3 DEF Ready
  <2> QED
    BY <2>2, <2>3
<1>5. UNCHANGED <<image, choice, got, renamed, fault>>
  BY DEF RestorePartition
<1>6. CASE OnVolume(i, k) /\ volume' = p.uuid /\ at' = <<i, k + 1>> /\ UNCHANGED <<stage, target>>
  BY <1>1, <1>5, <1>6
<1>7. CASE ~OnVolume(i, k) /\ Restored(p) /\ UNCHANGED volume
  <2> DEFINE fits == {e \in Entry(i, p.number) : e.count >= p.count}
  <2>1. \A e \in fits : e \in Entry(i, p.number) /\ e.count >= p.count
    OBVIOUS
  <2>2. \A e \in Entry(i, p.number) : e.count >= p.count => e \in fits
    OBVIOUS
  <2>3. /\ stage' = IF p.fs \in missing THEN "rejected" ELSE IF fits = {} THEN "failed" ELSE stage
        /\ target' = IF stage' # stage THEN target
                     ELSE LET e == CHOOSE e \in fits : TRUE
                          IN  Wrote(i, e.start, e.start + p.count - 1, p.uuid)
        /\ at' = <<i, k + 1>>
    BY <1>7 DEF Restored
  <2> HIDE DEF fits, p
  <2>4. CASE fits = {}
    <3>1. stage' = "failed" /\ target' = target
      BY <1>1, <1>4, <2>3, <2>4
    <3> QED
      BY <1>1, <1>5, <1>7, <2>2, <2>3, <2>4, <3>1 DEF p
  <2>5. CASE fits # {}
    <3> DEFINE e == CHOOSE e \in fits : TRUE
    <3>1. e \in fits
      BY <2>5
    <3>2. stage' = stage /\ target' = Wrote(i, e.start, e.start + p.count - 1, p.uuid)
      BY <1>4, <2>3, <2>5
    <3> HIDE DEF e
    <3>3. Overlaid(target', i, e.start, e.start + p.count - 1, p.uuid) /\ target'[i].table = target[i].table
      BY <1>1, <1>2, <1>3, <3>2, WroteIs
    <3> QED
      BY <1>1, <1>5, <1>7, <2>1, <2>3, <3>1, <3>2, <3>3 DEF p
  <2> QED
    BY <2>4, <2>5
<1> QED
  BY <1>1, <1>6, <1>7 DEF RestorePartition, OnVolume

(* A larger disk that was accepted may grow; no tool is missing for it.    *)
LEMMA FinishIs ==
  ASSUME Typed, Untouched, FinishDisk
  PROVE  LET i == at[1]
             root == Root(man.disks[i])
             last == LastUsable("gpt", target[i].size)
             others == {e \in target[i].table : e.number # root.number}
             failed == (Larger(i) /\ target' = target) \/ ~Verified(i, target'[i])
         IN
         /\ stage = "restoring" /\ i \in Disks /\ at[2] \notin DOMAIN Parts(i)
         /\ \/ target' = target
            \/ /\ Larger(i)
               /\ Overlaid(target', i, root.start, last, root.uuid)
               /\ target'[i].table = others \cup {[number |-> root.number, start |-> root.start,
                                                   count |-> last - root.start + 1]}
         /\ stage' = IF failed THEN "failed" ELSE IF i < Len(man.disks) THEN "restoring" ELSE "finalizing"
         /\ at' = IF i < Len(man.disks) THEN <<i + 1, 1>> ELSE <<1, 1>>
         /\ UNCHANGED <<image, choice, got, volume, renamed, fault>>
<1> DEFINE i == at[1]
           root == Root(man.disks[i])
           last == LastUsable("gpt", target[i].size)
           others == {e \in target[i].table : e.number # root.number}
           entry == [number |-> root.number, start |-> root.start, count |-> last - root.start + 1]
<1>1. stage = "restoring" /\ stage \in Chosen /\ i \in Disks /\ at[2] \notin DOMAIN Parts(i)
  BY DEF FinishDisk, Typed, Chosen, Working
<1>2. Ready /\ DOMAIN target = Disks /\ IsDisk(i) /\ TargetAccepted(i)
  BY <1>1, Accepted DEF Ready
<1>3. DOMAIN target[i] = Fields
  BY <1>2 DEF IsDisk
<1>4. Larger(i) => Expandable(i) /\ Plain /\ "resize" \notin missing
  <2>1. Larger(i) => "resize" \in Required
    BY <1>1, ToolsRequired
  <2> QED
    BY <1>2, <2>1 DEF Ready, TargetAccepted
<1>5. /\ target' = IF Larger(i) THEN Expanded(i) ELSE target
      /\ stage' = IF (Larger(i) /\ target' = target) \/ ~Verified(i, target'[i]) THEN "failed"
                  ELSE IF i < Len(man.disks) THEN "restoring" ELSE "finalizing"
      /\ at' = IF i < Len(man.disks) THEN <<i + 1, 1>> ELSE <<1, 1>>
      /\ UNCHANGED <<image, choice, got, volume, renamed, fault>>
  BY <1>1, <1>4 DEF FinishDisk, Grows
<1> DEFINE W == Wrote(i, root.start, last, root.uuid)
<1>6. Overlaid(W, i, root.start, last, root.uuid)
  BY <1>1, <1>2, <1>3, WroteIs
<1>7. Expanded(i) = target \/ Expanded(i) = [W EXCEPT ![i].table = others \cup {entry}]
  BY DEF Expanded
<1> HIDE DEF W, others, entry
<1>8. ASSUME target' = [W EXCEPT ![i].table = others \cup {entry}]
      PROVE  Overlaid(target', i, root.start, last, root.uuid) /\ target'[i].table = others \cup {entry}
  <2> DEFINE d == W[i]
             new == [d EXCEPT !.table = others \cup {entry}]
  <2>1. target' = [W EXCEPT ![i] = new]
    BY <1>8
  <2>2. DOMAIN d = Fields
    BY <1>6 DEF Overlaid
  <2>3. /\ DOMAIN new = Fields /\ new.size = d.size /\ new.data = d.data /\ new.boot = d.boot
        /\ new.table = others \cup {entry}
    BY <2>2 DEF Fields
  <2> HIDE DEF new
  <2>4. DOMAIN target' = DOMAIN W /\ target'[i] = new /\ \A j \in DOMAIN W : j # i => target'[j] = W[j]
    BY <1>1, <1>2, <1>6, <2>1 DEF Overlaid
  <2> QED
    BY <1>6, <2>3, <2>4 DEF Overlaid
<1>9. \/ target' = target
      \/ /\ Larger(i)
         /\ Overlaid(target', i, root.start, last, root.uuid)
         /\ target'[i].table = others \cup {entry}
  BY <1>5, <1>7, <1>8
<1> QED
  BY <1>1, <1>5, <1>9 DEF others, entry

LEMMA EnsureBootIs ==
  ASSUME Typed, Untouched, EnsureBoot
  PROVE  /\ stage = "booting" /\ at[1] \in Disks
         /\ DOMAIN target' = Disks /\ \A j \in Disks : j # at[1] => target'[j] = target[j]
         /\ DOMAIN target'[at[1]] = Fields /\ target'[at[1]].size = target[at[1]].size
         /\ target'[at[1]].data = target[at[1]].data /\ target'[at[1]].table = target[at[1]].table
         /\ target'[at[1]].boot
         /\ stage' = IF at[1] < Len(man.disks) THEN "booting" ELSE "verifying"
         /\ at' = <<at[1] + 1, 1>>
         /\ UNCHANGED <<image, choice, got, volume, renamed, fault>>
<1> DEFINE i == at[1]
           d == target[i]
           new == [d EXCEPT !.boot = TRUE]
<1>1. stage = "booting" /\ stage \in Chosen /\ i \in Disks
  BY DEF EnsureBoot, Typed, Chosen, Working
<1>2. DOMAIN target = Disks /\ DOMAIN d = Fields
  BY <1>1, Accepted DEF IsDisk
<1>3. target' = [target EXCEPT ![i] = new]
  BY DEF EnsureBoot, Bootable
<1>4. DOMAIN new = Fields /\ new.size = d.size /\ new.data = d.data /\ new.table = d.table /\ new.boot
  BY <1>2 DEF Fields
<1> HIDE DEF new
<1>5. DOMAIN target' = Disks /\ target'[i] = new /\ \A j \in Disks : j # i => target'[j] = target[j]
  BY <1>1, <1>2, <1>3
<1>6. /\ stage' = IF i < Len(man.disks) THEN "booting" ELSE "verifying"
      /\ at' = <<i + 1, 1>> /\ UNCHANGED <<image, choice, got, volume, renamed, fault>>
  BY DEF EnsureBoot
<1> QED
  BY <1>1, <1>4, <1>5, <1>6

-----------------------------------------------------------------------------
(* Type correctness is inductive.                                          *)

LEMMA Frame ==
  ASSUME UNCHANGED image
  PROVE  /\ machine' = machine /\ man' = man /\ Disks' = Disks /\ Plain' = Plain /\ Total' = Total
         /\ ManifestOK' = ManifestOK
         /\ \A i \in Disks : /\ Parts(i)' = Parts(i) /\ Size(i)' = Size(i) /\ Table(i)' = Table(i)
                             /\ Laid(i)' = Laid(i) /\ Numbered(i)' = Numbered(i)
         /\ \A i \in Disks, k \in Nat : /\ Present(i, k)' = Present(i, k)
                                        /\ OnVolume(i, k)' = OnVolume(i, k)
                                        /\ Content(i, k)' = Content(i, k)
<1>1. machine' = machine /\ man' = man
  BY DEF image
<1>2. Disks' = Disks /\ Plain' = Plain /\ Total' = Total
  BY <1>1 DEF Disks, Plain, Total
<1>3. ASSUME NEW i \in Disks
      PROVE  Parts(i)' = Parts(i) /\ Size(i)' = Size(i) /\ Table(i)' = Table(i)
  BY <1>1 DEF Parts, Size, Table
<1>4. ManifestOK' = ManifestOK
  BY <1>1 DEF ManifestOK, Disks, Parts, PartsOK, PartitionOK
<1>5. ASSUME NEW i \in Disks PROVE Laid(i)' = Laid(i) /\ Numbered(i)' = Numbered(i)
  BY <1>1 DEF Laid, IsRoot, Numbered, Parts, Size
<1>6. ASSUME NEW i \in Disks, NEW k \in Nat
      PROVE  /\ Present(i, k)' = Present(i, k) /\ OnVolume(i, k)' = OnVolume(i, k)
             /\ Content(i, k)' = Content(i, k)
  BY <1>1 DEF Present, OnVolume, Content, Table, Parts, Plain
<1> QED
  BY <1>1, <1>2, <1>3, <1>4, <1>5, <1>6

LEMMA TypedInit == Init => Typed
<1> SUFFICES ASSUME Init PROVE Typed
  OBVIOUS
<1>1. /\ machine \in Machine /\ man = Manifest(machine) /\ stage = "source"
      /\ target = << >> /\ at = <<1, 1>>
  BY DEF Init
<1>2. DOMAIN target = {}
  BY <1>1
<1>3. TypeOK
  BY <1>2 DEF Init, TypeOK
<1>4. at[1] = 1 /\ at[2] = 1
  BY <1>1
<1> QED
  BY <1>1, <1>3, <1>4 DEF Typed, Refused

(* A step on disks that were reserved.                                     *)
LEMMA TypedKept ==
  ASSUME Typed, UNCHANGED image, stage \notin Refused \cup {"published"},
         stage' \in Chosen \cup {"rejected"},
         DOMAIN target' = Disks, \A i \in Disks : IsDisk(i)',
         op' = op, missing' = missing, got' \in Nat, renamed' \subseteq {1}, fault' \in BOOLEAN,
         at'[1] \in Nat \ {0}, at'[2] \in Nat \ {0},
         stage' \in {"tables", "restoring", "booting"} => at'[1] \in Disks,
         stage' \in {"downloading", "stack", "finalizing"} => at'[1] = 1 /\ at'[2] = 1
  PROVE  Typed'
<1>1. machine' = machine /\ man' = man /\ Disks' = Disks
  BY Frame
<1>2. \A i \in DOMAIN target' :
        /\ DOMAIN target'[i].data = 0 .. (target'[i].size - 1)
        /\ \A e \in target'[i].table : e.start > 0 /\ e.count > 0 /\ End(e) < target'[i].size
  BY DEF IsDisk
<1>3. TypeOK'
  BY <1>2 DEF TypeOK, Typed, Chosen, Working
<1>4. Published(man)
  BY DEF Typed
<1> QED
  BY <1>1, <1>3, <1>4 DEF Typed, Refused, Chosen, Working

(* An entry that fits its disk.                                            *)
LEMMA EntriesFit ==
  ASSUME Typed, Untouched, stage \in Chosen, NEW i \in Disks, NEW e \in Table(i)
  PROVE  /\ e.number \in Nat /\ e.start \in Nat \ {0} /\ e.count \in Nat \ {0}
         /\ End(e) < target[i].size
<1>1. ManifestOK /\ Laid(i) /\ IsDisk(i)
  BY Accepted
<1>2. PICK k \in DOMAIN Parts(i) : e = EntryOf(i, k)
  BY <1>1, Entries
<1>3. /\ EntryOf(i, k).number \in Nat /\ EntryOf(i, k).start \in Nat \ {0}
      /\ EntryOf(i, k).count \in Nat \ {0} /\ End(EntryOf(i, k)) < Size(i)
  BY <1>1, Entries
<1>4. Size(i) \in Nat /\ target[i].size \in Nat /\ Size(i) <= target[i].size
  BY <1>1 DEF ManifestOK, Size, IsDisk
<1>5. End(EntryOf(i, k)) \in Int
  BY <1>3 DEF End
<1> QED
  BY <1>2, <1>3, <1>4, <1>5

LEMMA DiskOverlaid ==
  ASSUME UNCHANGED image, NEW i \in Disks, IsDisk(i), NEW first, NEW last, NEW content,
         Overlaid(target', i, first, last, content),
         \A e \in target'[i].table : /\ e.number \in Nat /\ e.start \in Nat \ {0} /\ e.count \in Nat \ {0}
                                     /\ End(e) < target[i].size
  PROVE  IsDisk(i)'
  BY Frame DEF IsDisk, Overlaid

LEMMA DiskKept ==
  ASSUME UNCHANGED image, NEW i \in Disks, IsDisk(i), target'[i] = target[i]
  PROVE  IsDisk(i)'
  BY Frame DEF IsDisk

(* The room of a root that grows.                                          *)
LEMMA RootGrows ==
  ASSUME Typed, Untouched, stage \in Chosen, NEW i \in Disks, Larger(i)
  PROVE  LET root == Root(man.disks[i])
             last == LastUsable("gpt", target[i].size)
         IN  /\ man.table = "gpt" /\ Plain /\ last \in Int /\ last < target[i].size
             /\ \E r \in DOMAIN Parts(i) : /\ IsRoot(i, r) /\ root = Parts(i)[r]
                                           /\ root.number \in Nat /\ root.start \in Nat \ {0}
                                           /\ root.count \in Nat \ {0}
                                           /\ End(root) <= last
<1> DEFINE root == Root(man.disks[i])
           last == LastUsable("gpt", target[i].size)
<1>1. ManifestOK /\ Laid(i) /\ GrowsLast(i) /\ IsDisk(i) /\ PartsOK(Parts(i))
  BY Accepted
<1>2. man.table = "gpt" /\ Plain
  BY <1>1 DEF GrowsLast
<1>3. Size(i) \in Nat /\ target[i].size \in Nat /\ Size(i) <= target[i].size
  BY <1>1 DEF ManifestOK, Size, IsDisk
<1>4. last \in Int /\ last < target[i].size /\ LastUsable("gpt", Size(i)) \in Int
      /\ LastUsable("gpt", Size(i)) <= last
  BY <1>3 DEF LastUsable
<1>5. PICK r \in DOMAIN Parts(i) : IsRoot(i, r)
  BY <1>1 DEF Laid
<1>6. root = Parts(i)[r] /\ PartitionOK(root)
  BY <1>1, <1>5 DEF IsRoot, PartsOK
<1>7. root.start >= 1 /\ End(root) <= LastUsable("gpt", Size(i))
  BY <1>1, <1>2, <1>6 DEF Laid
<1>8. root.number \in Nat /\ root.start \in Nat \ {0} /\ root.count \in Nat \ {0} /\ End(root) \in Int
  BY <1>6, <1>7 DEF PartitionOK, End
<1>9. End(root) <= last
  BY <1>4, <1>7, <1>8
<1> HIDE DEF root, last
<1> QED
  BY <1>2, <1>4, <1>5, <1>6, <1>8, <1>9 DEF root, last

LEMMA TypedReserve ==
  ASSUME Typed, Reserve
  PROVE  /\ stage = "published" /\ stage' = "reserved" /\ DOMAIN target' = Disks
         /\ \A i \in Disks : IsDisk(i)' /\ target'[i] = Blank(target'[i].size)
         /\ UNCHANGED <<image, got, at, volume, renamed, fault>>
         /\ op' \in {"restore", "clone"} /\ missing' \subseteq Tool
<1>1. /\ stage = "published" /\ stage' = "reserved" /\ UNCHANGED <<image, got, at, volume, renamed, fault>>
      /\ op' \in {"restore", "clone"} /\ missing' \subseteq Tool
  BY DEF Reserve
<1>2. PICK more \in [Disks -> Growth] :
        target' = [i \in Disks |-> Blank(man.disks[i].size + more[i])]
  BY DEF Reserve
<1>3. DOMAIN target' = Disks
  BY <1>2
<1>4. ASSUME NEW i \in Disks PROVE IsDisk(i)' /\ target'[i] = Blank(target'[i].size)
  <2> DEFINE size == man.disks[i].size + more[i]
  <2>1. target'[i] = Blank(size)
    BY <1>2
  <2>2. man.disks[i].size \in Nat /\ more[i] \in Nat
    BY <1>2, ManifestHolds, GrowthAssumption DEF ManifestOK
  <2>3. size \in Nat /\ size >= man.disks[i].size
    BY <2>2
  <2> HIDE DEF size
  <2>4. /\ DOMAIN Blank(size) = Fields /\ Blank(size).size = size /\ Blank(size).table = {}
        /\ DOMAIN Blank(size).data = 0 .. (size - 1)
    BY DEF Blank, Fields
  <2>5. Size(i)' = man.disks[i].size
    BY <1>1, Frame DEF Size
  <2> QED
    BY <2>1, <2>3, <2>4, <2>5 DEF IsDisk
<1> QED
  BY <1>1, <1>3, <1>4

LEMMA TypedStep == Typed /\ Untouched /\ [Next]_vars => Typed'
<1> SUFFICES ASSUME Typed, Untouched, [Next]_vars PROVE Typed'
  OBVIOUS
<1>1. CASE Capture \/ Publish
  <2>1. /\ UNCHANGED <<image, choice, target, got, at, renamed, fault>>
        /\ target = << >> /\ at[1] = 1 /\ at[2] = 1
        /\ stage \in {"source", "captured"} /\ stage' \in {"captured", "refused", "published", "unpublished"}
        /\ stage' = "published" => Published(man)
    BY <1>1 DEF Capture, Publish, Typed, Refused
  <2>2. machine' = machine /\ man' = man
    BY <2>1 DEF image
  <2>3. TypeOK'
    BY <2>1 DEF TypeOK, Typed, choice
  <2> QED
    BY <2>1, <2>2, <2>3 DEF Typed, Refused
<1>2. CASE Reserve
  <2>1. /\ stage = "published" /\ stage' = "reserved" /\ DOMAIN target' = Disks
        /\ \A i \in Disks : IsDisk(i)'
        /\ UNCHANGED <<image, got, at, volume, renamed, fault>>
        /\ op' \in {"restore", "clone"} /\ missing' \subseteq Tool
    BY <1>2, TypedReserve
  <2>2. machine' = machine /\ man' = man /\ Disks' = Disks
    BY <2>1, Frame
  <2>3. \A i \in DOMAIN target' :
          /\ DOMAIN target'[i].data = 0 .. (target'[i].size - 1)
          /\ \A e \in target'[i].table : e.start > 0 /\ e.count > 0 /\ End(e) < target'[i].size
    BY <2>1 DEF IsDisk
  <2>4. TypeOK'
    BY <2>1, <2>3 DEF TypeOK, Typed
  <2> QED
    BY <2>1, <2>2, <2>4 DEF Typed, Refused
<1>3. CASE Validate \/ Download \/ NoDecompressor \/ Customize \/ Report \/ Fail
  <2>1. UNCHANGED <<image, op, missing, target, at>>
    BY <1>3 DEF Validate, Download, NoDecompressor, Customize, Report, Fail, choice
  <2>2. stage \notin Refused \cup {"published"} /\ stage' \in Chosen \cup {"rejected"}
    BY <1>3 DEF Validate, Download, NoDecompressor, Customize, Report, Fail, Chosen, Working, Refused
  <2>3. got' \in Nat /\ renamed' \subseteq {1} /\ fault' \in BOOLEAN
    <3>1. got \in Nat /\ renamed \subseteq {1} /\ fault \in BOOLEAN
      BY DEF Typed, TypeOK
    <3>2. CASE Customize
      BY <3>1, <3>2 DEF Customize
    <3>3. CASE Download
      BY <3>1, <3>3 DEF Download
    <3>4. CASE Validate \/ NoDecompressor \/ Report \/ Fail
      BY <3>1, <3>4 DEF Validate, NoDecompressor, Report, Fail
    <3> QED
      BY <1>3, <3>2, <3>3, <3>4
  <2>4. /\ stage' \in {"tables", "booting"} => stage \in {"downloading", "finalizing"}
        /\ stage' \notin {"restoring", "stack", "finalizing"}
        /\ stage' = "downloading" => stage \in {"reserved", "downloading"}
    BY <1>3 DEF Validate, Download, NoDecompressor, Customize, Report, Fail, Working
  <2>5. Disks = 1 .. Len(man.disks) /\ 1 \in Disks
    BY ManifestHolds DEF ManifestOK
  <2>6. DOMAIN target' = Disks /\ \A i \in Disks : IsDisk(i)'
    BY <2>1, <2>2, DiskKept DEF Typed
  <2>7. /\ stage \in {"reserved", "downloading", "finalizing"} => at[1] = 1 /\ at[2] = 1
        /\ at[1] \in Nat \ {0} /\ at[2] \in Nat \ {0}
    BY DEF Typed
  <2> QED
    BY <2>1, <2>2, <2>3, <2>4, <2>5, <2>6, <2>7, TypedKept
<1>4. CASE WriteTable
  <2>1. /\ stage = "tables" /\ stage \in Chosen /\ stage' \in Chosen /\ stage' \in {"tables", "restoring", "stack"}
        /\ UNCHANGED <<image, op, missing, got, renamed, fault>>
    BY <1>4, WriteTableIs DEF WriteTable, Chosen, Working, choice
  <2>2. Disks = 1 .. Len(man.disks) /\ Len(man.disks) \in Nat \ {0} /\ at[1] \in Disks /\ DOMAIN target' = Disks
    BY <1>4, WriteTableIs, ManifestHolds DEF ManifestOK
  <2>3. /\ at'[1] \in Nat \ {0} /\ at'[2] \in Nat \ {0} /\ at'[1] \in Disks
        /\ stage' \in {"downloading", "stack", "finalizing"} => at'[1] = 1 /\ at'[2] = 1
    <3>1. CASE at[1] < Len(man.disks)
      BY <1>4, <2>2, <3>1, WriteTableIs
    <3>2. CASE ~(at[1] < Len(man.disks))
      BY <1>4, <2>2, <3>2, WriteTableIs
    <3> QED
      BY <3>1, <3>2
  <2>4. ASSUME NEW i \in Disks PROVE IsDisk(i)'
    <3>1. IsDisk(i) /\ Size(i)' = Size(i)
      BY <2>1, Accepted, Frame
    <3>2. CASE i = at[1]
      <4>1. /\ DOMAIN target'[i] = Fields /\ target'[i].size = target[i].size
            /\ target'[i].data = target[i].data /\ target'[i].table = Table(i)
        BY <1>4, <3>2, WriteTableIs
      <4> QED
        BY <2>1, <3>1, <4>1, EntriesFit DEF IsDisk
    <3>3. CASE i # at[1]
      <4>1. target'[i] = target[i]
        BY <1>4, <3>3, WriteTableIs
      <4> QED
        BY <3>1, <4>1 DEF IsDisk
    <3> QED
      BY <3>2, <3>3
  <2> QED
    BY <2>1, <2>2, <2>3, <2>4, TypedKept DEF Typed, TypeOK, Refused
<1>5. CASE BuildStack
  <2>1. /\ stage = "stack" /\ stage \in Chosen /\ stage' \in {"failed", "restoring"} /\ Disks = {1}
        /\ UNCHANGED <<image, op, missing, got, at, renamed, fault>>
        /\ at[1] = 1 /\ at[2] = 1
    BY <1>5, BuildStackIs DEF Chosen, Working, choice, Typed
  <2>2. IsDisk(1) /\ DOMAIN target = Disks
    BY <2>1, Accepted
  <2>3. DOMAIN target' = Disks /\ IsDisk(1)'
    <3>1. CASE target' = target
      BY <2>1, <2>2, <3>1, Frame DEF IsDisk
    <3>2. CASE target' # target
      <4>1. PICK e \in Entry(1, Root(man.disks[1]).number) :
              Overlaid(target', 1, e.start, e.start + e.count - 1, "pv")
        BY <1>5, <3>2, BuildStackIs
      <4>2. target'[1].table = target[1].table
        BY <1>5, <3>2, BuildStackIs
      <4>3. \A f \in target'[1].table : /\ f.number \in Nat /\ f.start \in Nat \ {0} /\ f.count \in Nat \ {0}
                                        /\ End(f) < target[1].size
        BY <2>2, <4>2 DEF IsDisk
      <4>4. 1 \in Disks /\ DOMAIN target' = Disks
        BY <2>1, <2>2, <4>1 DEF Overlaid
      <4> QED
        BY <2>1, <2>2, <4>1, <4>3, <4>4, DiskOverlaid
    <3> QED
      BY <3>1, <3>2
  <2> QED
    BY <2>1, <2>3, TypedKept DEF Typed, TypeOK, Refused, Chosen, Working
<1>6. CASE RestorePartition
  <2> DEFINE i == at[1]
             k == at[2]
  <2>1. /\ stage = "restoring" /\ stage \in Chosen /\ stage' \in {"failed", "restoring"} /\ i \in Disks
        /\ UNCHANGED <<image, op, missing, got, renamed, fault>>
        /\ at'[1] = i /\ at'[2] = k + 1
    BY <1>6, RestoredIs DEF Chosen, Working, choice
  <2>2. \A j \in Disks : IsDisk(j) /\ Size(j)' = Size(j)
    BY <2>1, Accepted, Frame
  <2>3. DOMAIN target = Disks
    BY <2>1, Accepted
  <2>4. DOMAIN target' = Disks /\ \A j \in Disks : IsDisk(j)'
    <3>1. CASE target' = target
      BY <2>2, <2>3, <3>1 DEF IsDisk
    <3>2. CASE target' # target
      <4>1. PICK e \in Entry(i, Parts(i)[k].number) :
              Overlaid(target', i, e.start, e.start + Parts(i)[k].count - 1, Parts(i)[k].uuid)
        BY <1>6, <3>2, RestoredIs
      <4>2. target'[i].table = target[i].table
        BY <1>6, <3>2, RestoredIs
      <4>3. \A f \in target'[i].table : /\ f.number \in Nat /\ f.start \in Nat \ {0} /\ f.count \in Nat \ {0}
                                        /\ End(f) < target[i].size
        BY <2>1, <2>2, <4>2 DEF IsDisk
      <4>4. ASSUME NEW j \in Disks, j = i PROVE IsDisk(j)'
        BY <2>1, <2>2, <4>1, <4>3, <4>4, DiskOverlaid
      <4>5. DOMAIN target' = Disks /\ \A j \in Disks : j # i => target'[j] = target[j]
        BY <2>3, <4>1 DEF Overlaid
      <4> QED
        BY <2>1, <2>2, <4>4, <4>5, DiskKept
    <3> QED
      BY <3>1, <3>2
  <2>5. at'[1] \in Nat \ {0} /\ at'[2] \in Nat \ {0}
    BY <2>1 DEF Typed
  <2> QED
    BY <2>1, <2>4, <2>5, TypedKept DEF Typed, TypeOK, Refused, Chosen, Working
<1>7. CASE FinishDisk
  <2> DEFINE i == at[1]
             root == Root(man.disks[i])
             last == LastUsable("gpt", target[i].size)
             others == {e \in target[i].table : e.number # root.number}
             entry == [number |-> root.number, start |-> root.start, count |-> last - root.start + 1]
  <2>1. /\ stage = "restoring" /\ stage \in Chosen /\ i \in Disks
        /\ stage' \in {"failed", "restoring", "finalizing"}
        /\ UNCHANGED <<image, op, missing, got, renamed, fault>>
        /\ at' = IF i < Len(man.disks) THEN <<i + 1, 1>> ELSE <<1, 1>>
        /\ stage' = "finalizing" => ~(i < Len(man.disks))
    BY <1>7, FinishIs DEF Chosen, Working, choice
  <2>2. \A j \in Disks : IsDisk(j) /\ Size(j)' = Size(j)
    BY <2>1, Accepted, Frame
  <2>3. DOMAIN target = Disks /\ Disks = 1 .. Len(man.disks) /\ Len(man.disks) \in Nat \ {0}
    BY <2>1, Accepted DEF ManifestOK
  <2>4. DOMAIN target' = Disks /\ \A j \in Disks : IsDisk(j)'
    <3>1. CASE target' = target
      BY <2>2, <2>3, <3>1 DEF IsDisk
    <3>2. CASE target' # target
      <4>1. /\ Larger(i) /\ Overlaid(target', i, root.start, last, root.uuid)
            /\ target'[i].table = others \cup {entry}
        BY <1>7, <3>2, FinishIs
      <4>2. /\ last \in Int /\ last < target[i].size /\ root.number \in Nat /\ root.start \in Nat \ {0}
            /\ root.count \in Nat \ {0} /\ End(root) <= last
        BY <2>1, <4>1, RootGrows
      <4>3. /\ entry.number = root.number /\ entry.start = root.start /\ entry.count = last - root.start + 1
        OBVIOUS
      <4> HIDE DEF entry, root, last
      <4>4. entry.count \in Nat \ {0} /\ End(entry) = last
        BY <4>2, <4>3 DEF End
      <4>5. \A e \in target'[i].table : /\ e.number \in Nat /\ e.start \in Nat \ {0} /\ e.count \in Nat \ {0}
                                        /\ End(e) < target[i].size
        BY <2>1, <2>2, <4>1, <4>2, <4>3, <4>4 DEF IsDisk
      <4>6. ASSUME NEW j \in Disks, j = i PROVE IsDisk(j)'
        BY <2>1, <2>2, <4>1, <4>5, <4>6, DiskOverlaid
      <4>7. DOMAIN target' = Disks /\ \A j \in Disks : j # i => target'[j] = target[j]
        BY <2>3, <4>1 DEF Overlaid
      <4> QED
        BY <2>1, <2>2, <4>6, <4>7, DiskKept
    <3> QED
      BY <3>1, <3>2
  <2>5. /\ at'[1] \in Nat \ {0} /\ at'[2] \in Nat \ {0} /\ at'[1] \in Disks
        /\ stage' = "finalizing" => at'[1] = 1 /\ at'[2] = 1
    <3>1. CASE i < Len(man.disks)
      BY <2>1, <2>3, <3>1
    <3>2. CASE ~(i < Len(man.disks))
      BY <2>1, <2>3, <3>2
    <3> QED
      BY <3>1, <3>2
  <2> QED
    BY <2>1, <2>4, <2>5, TypedKept DEF Typed, TypeOK, Refused, Chosen, Working
<1>8. CASE EnsureBoot
  <2> DEFINE i == at[1]
  <2>1. /\ stage = "booting" /\ stage \in Chosen /\ stage' \in {"booting", "verifying"} /\ i \in Disks
        /\ UNCHANGED <<image, op, missing, got, renamed, fault>>
        /\ at' = <<i + 1, 1>> /\ (stage' = "booting" => i < Len(man.disks))
    BY <1>8, EnsureBootIs DEF Chosen, Working, choice
  <2>2. \A j \in Disks : IsDisk(j) /\ Size(j)' = Size(j)
    BY <2>1, Accepted, Frame
  <2>3. Disks = 1 .. Len(man.disks) /\ Len(man.disks) \in Nat \ {0}
    BY <2>1, Accepted DEF ManifestOK
  <2>4. DOMAIN target' = Disks /\ \A j \in Disks : IsDisk(j)'
    <3>1. /\ DOMAIN target' = Disks /\ \A j \in Disks : j # i => target'[j] = target[j]
          /\ DOMAIN target'[i] = Fields /\ target'[i].size = target[i].size
          /\ target'[i].data = target[i].data /\ target'[i].table = target[i].table
      BY <1>8, EnsureBootIs
    <3> QED
      BY <2>1, <2>2, <3>1 DEF IsDisk
  <2>5. at'[1] = i + 1 /\ at'[2] = 1
    BY <2>1
  <2>6. at'[1] \in Nat \ {0} /\ at'[2] \in Nat \ {0} /\ (stage' = "booting" => at'[1] \in Disks)
    BY <2>1, <2>3, <2>5
  <2> QED
    BY <2>1, <2>4, <2>6, TypedKept DEF Typed, TypeOK, Refused, Chosen, Working
<1>9. CASE UNCHANGED vars
  <2>1. machine' = machine /\ man' = man /\ stage' = stage /\ target' = target /\ at' = at
        /\ op' = op /\ missing' = missing /\ got' = got /\ renamed' = renamed /\ fault' = fault
    BY <1>9 DEF vars, image, choice
  <2>2. Disks' = Disks /\ \A i \in Disks : IsDisk(i)' = IsDisk(i)
    BY <2>1 DEF Disks, IsDisk, Size
  <2> QED
    BY <2>1, <2>2 DEF Typed, TypeOK
<1> QED
  BY <1>1, <1>2, <1>3, <1>4, <1>5, <1>6, <1>7, <1>8, <1>9 DEF Next

-----------------------------------------------------------------------------
(* What the agent has checked holds to the end, and it writes nothing      *)
(* before.                                                                 *)

LEMMA ReadyKept ==
  ASSUME UNCHANGED <<image, usable, missing>>, \A i \in Disks : target'[i].size = target[i].size, Ready
  PROVE  Ready'
<1>1. man' = man /\ Disks' = Disks /\ usable' = usable /\ missing' = missing /\ Plain' = Plain
  BY Frame
<1>2. AgentAccepts(man)'
  BY <1>1 DEF Ready
<1>3. ASSUME NEW i \in Disks
      PROVE  Larger(i)' = Larger(i) /\ Artifacts(i)' = Artifacts(i) /\ TargetAccepted(i)'
  <2>1. Larger(i)' = Larger(i) /\ Parts(i)' = Parts(i) /\ Artifacts(i)' = Artifacts(i)
    BY <1>1 DEF Larger, Parts, Artifacts
  <2>2. TargetAccepted(i)
    BY DEF Ready
  <2>3. Expandable(i)'
    BY <1>1, <2>1, <2>2 DEF Expandable, TargetAccepted
  <2> QED
    BY <1>1, <2>1, <2>2, <2>3 DEF TargetAccepted
<1>4. Required' = Required
  <2> DEFINE formats == UNION {{p.fs : p \in Artifacts(i)} : i \in Disks}
             growth == IF \E i \in Disks : Larger(i) THEN {"resize"} ELSE {}
             stack == IF Plain THEN {} ELSE {"lvm"}
  <2>1. Required = {"table", "swap"} \cup formats \cup stack \cup growth
    BY DEF Required
  <2>2. formats' = formats
    BY <1>1, <1>3
  <2>3. growth' = growth /\ stack' = stack
    BY <1>1, <1>3
  <2>4. Required' = {"table", "swap"} \cup formats' \cup stack' \cup growth'
    BY DEF Required
  <2> HIDE DEF formats, growth, stack
  <2> QED
    BY <2>1, <2>2, <2>3, <2>4
<1> QED
  BY <1>1, <1>2, <1>3, <1>4 DEF Ready

LEMMA SizesKept ==
  ASSUME Typed, Untouched, stage \in Chosen, [Next]_vars
  PROVE  /\ UNCHANGED <<image, usable, missing>> /\ DOMAIN target' = Disks
         /\ \A i \in Disks : target'[i].size = target[i].size
<1>1. DOMAIN target = Disks
  BY Accepted
<1>2. CASE \/ Validate \/ Download \/ NoDecompressor \/ Customize \/ Report \/ Fail
           \/ UNCHANGED vars
  BY <1>1, <1>2 DEF Validate, Download, NoDecompressor, Customize, Report, Fail, vars, choice
<1>3. CASE WriteTable
  <2>1. /\ DOMAIN target' = Disks /\ UNCHANGED <<image, choice>>
        /\ \A i \in Disks : i # at[1] => target'[i] = target[i]
        /\ target'[at[1]].size = target[at[1]].size
    BY <1>3, WriteTableIs
  <2> QED
    BY <2>1 DEF choice
<1>4. CASE BuildStack
  <2>1. UNCHANGED <<image, choice>> /\ Disks = {1}
    BY <1>4, BuildStackIs
  <2>2. target' = target \/ (DOMAIN target' = DOMAIN target /\ target'[1].size = target[1].size)
    BY <1>4, BuildStackIs DEF Overlaid
  <2> QED
    BY <1>1, <2>1, <2>2 DEF choice
<1>5. CASE RestorePartition
  <2>1. UNCHANGED <<image, choice>>
    BY <1>5, RestoredIs
  <2>2. \/ target' = target
        \/ /\ DOMAIN target' = DOMAIN target /\ \A i \in DOMAIN target : i # at[1] => target'[i] = target[i]
           /\ target'[at[1]].size = target[at[1]].size
    BY <1>5, RestoredIs DEF Overlaid
  <2> QED
    BY <1>1, <2>1, <2>2 DEF choice
<1>6. CASE FinishDisk
  <2>1. UNCHANGED <<image, choice>>
    BY <1>6, FinishIs
  <2>2. \/ target' = target
        \/ /\ DOMAIN target' = DOMAIN target /\ \A i \in DOMAIN target : i # at[1] => target'[i] = target[i]
           /\ target'[at[1]].size = target[at[1]].size
    BY <1>6, FinishIs DEF Overlaid
  <2> QED
    BY <1>1, <2>1, <2>2 DEF choice
<1>7. CASE EnsureBoot
  <2>1. /\ DOMAIN target' = Disks /\ UNCHANGED <<image, choice>>
        /\ \A i \in Disks : i # at[1] => target'[i] = target[i]
        /\ target'[at[1]].size = target[at[1]].size
    BY <1>7, EnsureBootIs
  <2> QED
    BY <2>1 DEF choice
<1>8. ~(Capture \/ Publish \/ Reserve)
  BY DEF Capture, Publish, Reserve, Chosen, Working
<1> QED
  BY <1>2, <1>3, <1>4, <1>5, <1>6, <1>7, <1>8 DEF Next

LEMMA UntouchedInit == Init => Untouched
  BY DEF Init, Untouched, Chosen, Working

LEMMA UntouchedStep == Typed /\ Untouched /\ [Next]_vars => Untouched'
<1> SUFFICES ASSUME Typed, Untouched, [Next]_vars PROVE Untouched'
  OBVIOUS
<1>1. CASE Capture \/ Publish
  BY <1>1 DEF Capture, Publish, Untouched, Chosen, Working
<1>2. CASE Reserve
  <2>1. stage' = "reserved" /\ UNCHANGED image /\ \A i \in Disks : target'[i] = Blank(target'[i].size)
    BY <1>2, TypedReserve
  <2>2. \A i \in Disks' : target'[i] = Blank(target[i].size)'
    BY <2>1, Frame DEF Blank
  <2> QED
    BY <2>1, <2>2 DEF Untouched, Chosen, Working
<1>3. CASE Validate
  <2>1. /\ stage = "reserved" /\ UNCHANGED <<image, choice, target, got, at, volume, renamed, fault>>
        /\ stage' = IF Ready THEN "downloading" ELSE "rejected"
    BY <1>3 DEF Validate, Ready
  <2>2. UNCHANGED <<image, usable, missing>>
    BY <2>1 DEF choice
  <2>3. stage' = "downloading" => Ready'
    BY <2>1, <2>2, ReadyKept
  <2>4. \A i \in Disks' : target'[i] = Blank(target[i].size)'
    BY <2>1, Frame DEF Untouched, Blank
  <2> QED
    BY <2>1, <2>3, <2>4 DEF Untouched, Chosen, Working
<1>4. CASE stage \in Chosen
  <2>1. UNCHANGED <<image, usable, missing>> /\ Ready /\ DOMAIN target = Disks
    BY <1>4, SizesKept, Accepted
  <2>2. Ready'
    BY <1>4, <2>1, SizesKept, ReadyKept
  <2>3. Disks' = Disks /\ Total' = Total /\ Plain' = Plain
    BY <2>1, Frame
  <2>4. CASE Download
    <3>1. /\ stage = "downloading" /\ got' = got + 1 /\ UNCHANGED target
          /\ stage' = IF got' = Total THEN "tables" ELSE stage
      BY <2>4 DEF Download
    <3>2. \A i \in Disks' : target'[i] = Blank(target[i].size)'
      BY <2>3, <3>1 DEF Untouched, Blank
    <3> QED
      BY <2>2, <2>3, <3>1, <3>2 DEF Untouched
  <2>5. CASE Fail
    <3>1. stage \in Working /\ stage' = "failed" /\ UNCHANGED <<target, got>>
      BY <2>5 DEF Fail
    <3>2. CASE stage = "downloading"
      <4>1. Written = {}
        BY <2>1, <3>2 DEF Untouched, Written
      <4>2. Written' = {}
        BY <3>1, <4>1 DEF Written, Blank
      <4> QED
        BY <2>2, <3>1, <4>2 DEF Untouched
    <3>3. CASE stage # "downloading"
      <4>1. stage \in Chosen /\ stage # "downloading" /\ stage # "failed"
        BY <3>1, <3>3 DEF Chosen, Working
      <4>2. got = Total
        BY <4>1 DEF Untouched
      <4> QED
        BY <2>2, <2>3, <3>1, <4>2 DEF Untouched
    <3> QED
      BY <3>2, <3>3
  <2>6. CASE /\ stage \in Working \ {"downloading"} /\ got' = got
             /\ stage' \in Chosen \ {"downloading"} /\ (stage' = "stack" => ~Plain)
    <3>1. got = Total
      BY <2>6 DEF Untouched, Chosen, Working
    <3>2. stage' \notin {"reserved", "rejected", "downloading"}
      BY <2>6 DEF Chosen, Working
    <3> QED
      BY <2>2, <2>3, <2>6, <3>1, <3>2 DEF Untouched
  <2>7. WriteTable \/ BuildStack \/ RestorePartition \/ FinishDisk \/ EnsureBoot \/ Customize \/ Report
          => /\ stage \in Working \ {"downloading"} /\ got' = got
             /\ stage' \in Chosen \ {"downloading"} /\ (stage' = "stack" => ~Plain)
    <3>1. CASE WriteTable
      <4>1. stage = "tables"
        BY <3>1 DEF WriteTable
      <4>2. got' = got /\ stage' \in {"tables", "restoring", "stack"} /\ (stage' = "stack" => ~Plain)
        BY <3>1, WriteTableIs
      <4> QED
        BY <4>1, <4>2 DEF Chosen, Working
    <3>2. CASE BuildStack
      <4>1. stage = "stack" /\ got' = got /\ stage' \in {"failed", "restoring"}
        BY <3>2, BuildStackIs
      <4> QED
        BY <4>1 DEF Chosen, Working
    <3>3. CASE RestorePartition
      <4>1. stage = "restoring" /\ got' = got /\ stage' \in {"failed", "restoring"}
        BY <3>3, RestoredIs
      <4> QED
        BY <4>1 DEF Chosen, Working
    <3>4. CASE FinishDisk
      <4>1. stage = "restoring" /\ got' = got /\ stage' \in {"failed", "restoring", "finalizing"}
        BY <3>4, FinishIs
      <4> QED
        BY <4>1 DEF Chosen, Working
    <3>5. CASE EnsureBoot
      <4>1. stage = "booting" /\ got' = got /\ stage' \in {"booting", "verifying"}
        BY <3>5, EnsureBootIs
      <4> QED
        BY <4>1 DEF Chosen, Working
    <3>6. CASE Customize \/ Report
      BY <3>6 DEF Customize, Report, Chosen, Working
    <3> QED
      BY <3>1, <3>2, <3>3, <3>4, <3>5, <3>6
  <2>8. CASE UNCHANGED vars
    <3>1. stage' = stage /\ got' = got /\ target' = target
      BY <2>8 DEF vars
    <3>2. Written' = Written /\ \A i \in Disks : Blank(target[i].size)' = Blank(target[i].size)
      BY <3>1 DEF Written, Blank
    <3>3. stage' # "rejected"
      BY <1>4, <3>1 DEF Chosen, Working
    <3> QED
      BY <2>2, <2>3, <3>1, <3>2, <3>3 DEF Untouched
  <2>9. ~(Capture \/ Publish \/ Reserve \/ Validate)
    BY <1>4 DEF Capture, Publish, Reserve, Validate, Chosen, Working
  <2>10. CASE NoDecompressor
    <3>1. stage = "restoring" /\ stage' = "rejected" /\ got' = got /\ "gzip" \in missing
      BY <2>10 DEF NoDecompressor
    <3>2. got = Total
      BY <3>1 DEF Untouched, Chosen, Working
    <3> QED
      BY <2>1, <2>2, <2>3, <3>1, <3>2 DEF Untouched, Chosen, Working
  <2> QED
    BY <2>4, <2>5, <2>6, <2>7, <2>8, <2>9, <2>10 DEF Next
<1>5. CASE UNCHANGED vars /\ stage \notin Chosen
  <2>1. /\ stage' = stage /\ target' = target /\ got' = got
        /\ UNCHANGED <<machine, man, usable, missing>>
    BY <1>5 DEF vars, image, choice
  <2>2. /\ Disks' = Disks /\ \A i \in Disks : Blank(target[i].size)' = Blank(target[i].size)
        /\ Total' = Total /\ (Ready => Ready')
    BY <2>1, Frame DEF Blank, Ready, TargetAccepted, Expandable, Larger, Plain, Parts, Required,
                       Artifacts, image
  <2>3. stage = "rejected" => \/ \A i \in Disks' : target'[i] = Blank(target[i].size)'
                              \/ Ready' /\ got' = Total' /\ "gzip" \in missing'
    <3>1. CASE \A i \in Disks : target[i] = Blank(target[i].size)
      BY <2>1, <2>2, <3>1
    <3>2. CASE Ready /\ got = Total /\ "gzip" \in missing
      BY <2>1, <2>2, <3>2
    <3> QED
      BY <3>1, <3>2 DEF Untouched
  <2>4. stage \in {"reserved", "downloading"} => \A i \in Disks' : target'[i] = Blank(target[i].size)'
    BY <2>1, <2>2 DEF Untouched
  <2> QED
    BY <1>5, <2>1, <2>3, <2>4 DEF Untouched, Chosen, Working
<1>6. Next => Capture \/ Publish \/ Reserve \/ Validate \/ stage \in Chosen
  BY DEF Next, Download, WriteTable, BuildStack, NoDecompressor, RestorePartition, FinishDisk,
         Customize, EnsureBoot, Report, Fail, Chosen, Working
<1> QED
  BY <1>1, <1>2, <1>3, <1>4, <1>5, <1>6

-----------------------------------------------------------------------------
(* The tables are those of the manifest until a root grows.                *)

LEMMA TabledInit == Init => Tabled
  BY DEF Init, Tabled

LEMMA TabledStep == Typed /\ Untouched /\ Tabled /\ [Next]_vars => Tabled'
<1> SUFFICES ASSUME Typed, Untouched, Tabled, [Next]_vars PROVE Tabled'
  OBVIOUS
<1>0. Disks = 1 .. Len(man.disks) /\ Len(man.disks) \in Nat \ {0}
  BY ManifestHolds DEF ManifestOK
<1>1. CASE \/ Capture \/ Publish \/ Reserve \/ Validate \/ NoDecompressor
           \/ Customize \/ Report \/ Fail
  BY <1>1 DEF Capture, Publish, Reserve, Validate, NoDecompressor, Customize, Report, Fail, Tabled
<1>2. CASE Download
  <2>1. stage' \in {"downloading", "tables"} /\ at' = at /\ at[1] = 1 /\ UNCHANGED image
    BY <1>2 DEF Download, Typed
  <2> QED
    BY <1>0, <2>1, Frame DEF Tabled
<1>3. CASE WriteTable
  <2> DEFINE i == at[1]
  <2>1. /\ i \in Disks /\ UNCHANGED image /\ stage = "tables"
        /\ \A j \in Disks : j # i => target'[j] = target[j]
        /\ target'[i].table = Table(i)
        /\ stage' = IF i < Len(man.disks) THEN "tables" ELSE IF Plain THEN "restoring" ELSE "stack"
        /\ at' = IF i < Len(man.disks) THEN <<i + 1, 1>> ELSE <<1, 1>>
    BY <1>3, WriteTableIs DEF WriteTable
  <2>2. \A j \in Disks : j <= i => target'[j].table = Table(j)
    BY <1>0, <2>1 DEF Tabled
  <2>3. Disks' = Disks /\ \A j \in Disks : Table(j)' = Table(j)
    BY <2>1, Frame
  <2>4. CASE i < Len(man.disks)
    <3>1. stage' = "tables" /\ at'[1] = i + 1
      BY <2>1, <2>4
    <3> QED
      BY <1>0, <2>1, <2>2, <2>3, <3>1 DEF Tabled
  <2>5. CASE ~(i < Len(man.disks))
    <3>1. stage' \in {"restoring", "stack"} /\ \A j \in Disks : j <= i
      BY <1>0, <2>1, <2>5
    <3> QED
      BY <2>2, <2>3, <3>1 DEF Tabled
  <2> QED
    BY <2>4, <2>5
<1>4. CASE BuildStack
  <2>1. /\ stage = "stack" /\ UNCHANGED image /\ Disks = {1} /\ stage' \in {"restoring", "failed"}
        /\ stage' = "restoring" => target'[1].table = target[1].table
    BY <1>4, BuildStackIs
  <2> QED
    BY <2>1, Frame DEF Tabled
<1>5. CASE RestorePartition
  <2> DEFINE i == at[1]
  <2>1. /\ stage = "restoring" /\ UNCHANGED image /\ stage' \in {"restoring", "failed"} /\ at'[1] = i
        /\ \/ target' = target
           \/ /\ \A j \in DOMAIN target : j # i => target'[j] = target[j]
              /\ target'[i].table = target[i].table
    BY <1>5, RestoredIs DEF Overlaid
  <2>2. DOMAIN target = Disks
    BY <2>1, Accepted DEF Chosen, Working
  <2>3. \A j \in Disks : target'[j].table = target[j].table
    BY <2>1, <2>2
  <2> QED
    BY <2>1, <2>3, Frame DEF Tabled
<1>6. CASE FinishDisk
  <2> DEFINE i == at[1]
  <2>1. /\ stage = "restoring" /\ i \in Disks /\ UNCHANGED image
        /\ stage' \in {"failed", "restoring", "finalizing"}
        /\ stage' = "restoring" => i < Len(man.disks)
        /\ at' = IF i < Len(man.disks) THEN <<i + 1, 1>> ELSE <<1, 1>>
        /\ \/ target' = target
           \/ \A j \in DOMAIN target : j # i => target'[j] = target[j]
    BY <1>6, FinishIs DEF Overlaid
  <2>2. DOMAIN target = Disks
    BY <2>1, Accepted DEF Chosen, Working
  <2>3. stage' = "restoring" => at'[1] = i + 1
    BY <2>1
  <2>4. stage' = "restoring" => \A j \in Disks : j >= at'[1] => target'[j].table = Table(j)
    BY <1>0, <2>1, <2>2, <2>3 DEF Tabled
  <2> QED
    BY <2>1, <2>4, Frame DEF Tabled
<1>7. CASE EnsureBoot
  BY <1>7, EnsureBootIs DEF Tabled
<1>8. CASE UNCHANGED vars
  <2>1. stage' = stage /\ target' = target /\ at' = at /\ UNCHANGED image
    BY <1>8 DEF vars
  <2> QED
    BY <2>1, Frame DEF Tabled
<1> QED
  BY <1>1, <1>2, <1>3, <1>4, <1>5, <1>6, <1>7, <1>8 DEF Next

(* Every disk gets its boot loader, and a clone its identity.              *)
LEMMA BootedInit == Init => Booted
  BY DEF Init, Booted

LEMMA BootedStep == Typed /\ Untouched /\ Booted /\ [Next]_vars => Booted'
<1> SUFFICES ASSUME Typed, Untouched, Booted, [Next]_vars PROVE Booted'
  OBVIOUS
<1>0. Disks = 1 .. Len(man.disks) /\ Len(man.disks) \in Nat \ {0}
  BY ManifestHolds DEF ManifestOK
<1>1. CASE Capture \/ Publish \/ Reserve \/ Validate \/ Download \/ NoDecompressor \/ Fail
  BY <1>1 DEF Capture, Publish, Reserve, Validate, Download, NoDecompressor, Fail, Booted
<1>2. CASE WriteTable \/ BuildStack \/ RestorePartition \/ FinishDisk
  <2>1. stage' \notin {"booting", "verifying", "succeeded"}
    <3>1. CASE WriteTable
      BY <3>1, WriteTableIs
    <3>2. CASE BuildStack
      BY <3>2, BuildStackIs
    <3>3. CASE RestorePartition
      BY <3>3, RestoredIs
    <3>4. CASE FinishDisk
      BY <3>4, FinishIs
    <3> QED
      BY <1>2, <3>1, <3>2, <3>3, <3>4
  <2> QED
    BY <2>1 DEF Booted
<1>3. CASE Customize
  <2>1. /\ stage' = "booting" /\ at' = at /\ at[1] = 1 /\ op' = op /\ UNCHANGED image
        /\ renamed' = IF op = "clone" THEN {1} ELSE {}
    BY <1>3 DEF Customize, Typed, choice
  <2> QED
    BY <1>0, <2>1, Frame DEF Booted
<1>4. CASE EnsureBoot
  <2> DEFINE i == at[1]
  <2>1. /\ stage = "booting" /\ i \in Disks /\ UNCHANGED image /\ op' = op /\ renamed' = renamed
        /\ \A j \in Disks : j # i => target'[j] = target[j]
        /\ target'[i].boot
        /\ stage' = IF i < Len(man.disks) THEN "booting" ELSE "verifying"
        /\ at' = <<i + 1, 1>>
    BY <1>4, EnsureBootIs DEF choice
  <2>2. \A j \in Disks : j <= i => target'[j].boot
    BY <1>0, <2>1 DEF Booted
  <2>3. at'[1] = i + 1 /\ Disks' = Disks
    BY <2>1, Frame
  <2>4. stage' = "verifying" => \A j \in Disks : j <= i
    BY <1>0, <2>1
  <2> QED
    BY <1>0, <2>1, <2>2, <2>3, <2>4 DEF Booted
<1>5. CASE Report
  <2>1. stage = "verifying" /\ stage' = "succeeded" /\ UNCHANGED <<image, op, target, renamed>>
    BY <1>5 DEF Report, choice
  <2> QED
    BY <2>1, Frame DEF Booted
<1>6. CASE UNCHANGED vars
  <2>1. stage' = stage /\ UNCHANGED <<image, op, target, at, renamed>>
    BY <1>6 DEF vars, choice
  <2> QED
    BY <2>1, Frame DEF Booted
<1> QED
  BY <1>1, <1>2, <1>3, <1>4, <1>5, <1>6 DEF Next

-----------------------------------------------------------------------------
(* A number leads to its own partition, on a DOS table once all of them    *)
(* have been found.                                                        *)

LEMMA NumberedEntry ==
  ASSUME ManifestOK, NEW i \in Disks, Laid(i), Numbered(i), NEW k \in DOMAIN Parts(i),
         NEW e \in Table(i), e.number = Parts(i)[k].number
  PROVE  e = EntryOf(i, k)
<1>1. EntryOf(i, k) \in Table(i)
  BY Entries
<1>2. EntryOf(i, k).number = Parts(i)[k].number
  BY DEF EntryOf, Numbered
<1> QED
  BY <1>1, <1>2, EntriesApart

LEMMA NumberedPresent ==
  ASSUME ManifestOK, NEW i \in Disks, Laid(i), Numbered(i), NEW k \in DOMAIN Parts(i)
  PROVE  EntryOf(i, k) \in Table(i) /\ EntryOf(i, k).number = Parts(i)[k].number /\ Present(i, k)
<1>1. EntryOf(i, k) \in Table(i)
  BY Entries
<1>2. EntryOf(i, k).number = Parts(i)[k].number
  BY DEF EntryOf, Numbered
<1> QED
  BY <1>1, <1>2 DEF Present

LEMMA InTurn ==
  ASSUME ManifestOK, AgentAccepts(man), NEW i \in Disks, man.table = "mbr",
         \A k \in DOMAIN Parts(i) : Parts(i)[k].number \in DOMAIN Parts(i)
  PROVE  Numbered(i)
<1>1. GeometryAccepted(man, man.disks[i]) /\ PartsOK(Parts(i))
  BY DEF AgentAccepts, Disks, ManifestOK
<1>2. /\ OfRole(Parts(i), "esp") = 0 /\ OfRole(Parts(i), "root") = 1
      /\ OfRole(Parts(i), "boot") <= 1 /\ OfRole(Parts(i), "swap") <= 1
  BY <1>1 DEF GeometryAccepted, Parts
<1>3. Len(Parts(i)) <= 3
  BY <1>1, <1>2, FewOnDos
<1>4. \A k \in DOMAIN Parts(i) : Parts(i)[k].number = k
  BY <1>1, <1>3, NumberedInTurn
<1> QED
  BY <1>4 DEF Numbered

LEMMA AllPresent ==
  ASSUME ManifestOK, AgentAccepts(man), NEW i \in Disks, \A k \in DOMAIN Parts(i) : Present(i, k)
  PROVE  Numbered(i)
<1>1. CASE man.table = "gpt"
  BY <1>1 DEF Numbered
<1>2. CASE man.table = "mbr"
  <2>1. ASSUME NEW k \in DOMAIN Parts(i) PROVE Parts(i)[k].number \in DOMAIN Parts(i)
    <3>1. PICK e \in Table(i) : e.number = Parts(i)[k].number
      BY DEF Present
    <3>2. PICK j \in DOMAIN Parts(i) : e = EntryOf(i, j)
      BY AcceptedLayout, Entries
    <3>3. e.number = j
      BY <1>2, <3>2 DEF EntryOf
    <3> QED
      BY <3>1, <3>3
  <2> QED
    BY <1>2, <2>1, InTurn
<1> QED
  BY <1>1, <1>2 DEF ManifestOK

(* The sectors of a partition are sectors of its disk.                     *)
LEMMA SectorsOf ==
  ASSUME Typed, Untouched, stage \in Chosen, NEW i \in Disks, NEW k \in DOMAIN Parts(i),
         NEW s \in Parts(i)[k].start .. End(Parts(i)[k])
  PROVE  s \in DOMAIN target[i].data /\ s \in Int
<1>1. ManifestOK /\ Laid(i) /\ IsDisk(i) /\ PartsOK(Parts(i))
  BY Accepted
<1>2. EntryOf(i, k) \in Table(i) /\ End(EntryOf(i, k)) = End(Parts(i)[k])
  BY <1>1, Entries
<1>3. End(Parts(i)[k]) < target[i].size
  BY <1>2, EntriesFit
<1>4. Parts(i)[k].start \in Nat /\ Parts(i)[k].count \in Nat /\ End(Parts(i)[k]) \in Int
  BY <1>1 DEF PartsOK, PartitionOK, End
<1> QED
  BY <1>1, <1>3, <1>4 DEF IsDisk

(* A partition keeps its content while sectors apart from it are written.  *)
LEMMA FilledKept ==
  ASSUME Typed, Untouched, stage \in Chosen, UNCHANGED image, NEW i \in Disks, NEW k \in DOMAIN Parts(i),
         NEW first, NEW last, NEW content, Overlaid(target', i, first, last, content),
         \A s \in Parts(i)[k].start .. End(Parts(i)[k]) : s \notin first .. last,
         Filled(i, k)
  PROVE  Filled(i, k)'
<1>1. k \in Nat
  BY Accepted DEF PartsOK
<1>2. Parts(i)' = Parts(i) /\ Content(i, k)' = Content(i, k)
  BY <1>1, Frame
<1>3. ASSUME NEW s \in Parts(i)[k].start .. End(Parts(i)[k]) PROVE target'[i].data[s] = Content(i, k)
  <2>1. s \in DOMAIN target[i].data
    BY SectorsOf
  <2> QED
    BY <2>1 DEF Overlaid, Filled
<1> QED
  BY <1>2, <1>3 DEF Filled

LEMMA FilledSame ==
  ASSUME UNCHANGED image, NEW i \in Disks, NEW k \in Nat, target'[i].data = target[i].data, Filled(i, k)
  PROVE  Filled(i, k)'
  BY Frame DEF Filled

(* Sectors of two partitions.                                              *)
LEMMA SectorsApart ==
  ASSUME ManifestOK, NEW i \in Disks, Laid(i), NEW j \in DOMAIN Parts(i), NEW k \in DOMAIN Parts(i), j # k,
         NEW s \in Parts(i)[j].start .. End(Parts(i)[j])
  PROVE  s \notin Parts(i)[k].start .. End(Parts(i)[k])
<1>1. End(Parts(i)[j]) < Parts(i)[k].start \/ End(Parts(i)[k]) < Parts(i)[j].start
  BY DEF Laid
<1>2. /\ Parts(i)[j].start \in Nat /\ Parts(i)[j].count \in Nat
      /\ Parts(i)[k].start \in Nat /\ Parts(i)[k].count \in Nat
  BY DEF ManifestOK, PartsOK, PartitionOK
<1>3. End(Parts(i)[j]) \in Int /\ End(Parts(i)[k]) \in Int
  BY <1>2 DEF End
<1> QED
  BY <1>1, <1>2, <1>3

LEMMA CompleteKept ==
  ASSUME UNCHANGED <<image, volume>>, NEW i \in Disks, target'[i].size = target[i].size,
         target'[i].data = target[i].data, target'[i].table = target[i].table, Complete(i)
  PROVE  Complete(i)'
<1>1. man' = man /\ Parts(i)' = Parts(i) /\ Plain' = Plain
  BY Frame
<1>2. ASSUME NEW p \in Range(Parts(i)) PROVE InPlace(i, p)'
  <2>1. InPlace(i, p)
    BY DEF Complete
  <2> QED
    BY <1>1, <2>1 DEF InPlace
<1> QED
  BY <1>1, <1>2 DEF Complete

(* A disk on which every partition has been found and filled is complete   *)
(* as it is.                                                               *)
LEMMA CompleteAsItIs ==
  ASSUME Typed, Untouched, stage \in Chosen, NEW i \in Disks, target[i].table = Table(i),
         \A k \in DOMAIN Parts(i) : Put(i, k)
  PROVE  Complete(i)
<1>1. ManifestOK /\ AgentAccepts(man) /\ Laid(i) /\ IsDisk(i) /\ PartsOK(Parts(i))
  BY Accepted DEF Ready
<1>2. Numbered(i)
  BY <1>1, AllPresent DEF Put
<1>3. ASSUME NEW p \in Range(Parts(i)) PROVE InPlace(i, p)
  <2>1. PICK k \in DOMAIN Parts(i) : p = Parts(i)[k]
    BY DEF Range
  <2>2. /\ EntryOf(i, k) \in target[i].table /\ EntryOf(i, k).number = p.number
        /\ EntryOf(i, k).start = p.start /\ EntryOf(i, k).count = p.count
    BY <1>1, <1>2, <2>1, NumberedPresent, Entries
  <2>3. p.count \in Nat
    BY <1>1, <2>1 DEF PartsOK, PartitionOK
  <2>4. \A s \in p.start .. End(p) : target[i].data[s] = Content(i, k)
    BY <1>2, <2>1 DEF Put, Filled
  <2>5. OnVolume(i, k) => volume = p.uuid
    BY <1>2, <2>1 DEF Put
  <2>6. \E e \in target[i].table : e.number = p.number /\ e.start = p.start /\ e.count >= p.count
    BY <2>2, <2>3
  <2> QED
    BY <2>1, <2>4, <2>5, <2>6 DEF InPlace, Content, OnVolume
<1>4. \A e, f \in target[i].table : e = f \/ End(e) < f.start \/ End(f) < e.start
  BY <1>1, EntriesApart
<1>5. ASSUME NEW e \in target[i].table PROVE End(e) <= LastUsable(man.table, target[i].size)
  <2>1. PICK k \in DOMAIN Parts(i) : e = EntryOf(i, k)
    BY <1>1, Entries
  <2>2. e.start \in Nat /\ e.count \in Nat /\ End(e) <= LastUsable(man.table, Size(i))
    BY <1>1, <2>1, Entries
  <2>3. Size(i) \in Nat /\ target[i].size \in Nat /\ Size(i) <= target[i].size /\ man.table \in {"gpt", "mbr"}
    BY <1>1 DEF ManifestOK, Size, IsDisk
  <2>4. LastUsable(man.table, Size(i)) <= LastUsable(man.table, target[i].size)
        /\ LastUsable(man.table, Size(i)) \in Int /\ LastUsable(man.table, target[i].size) \in Int
    BY <2>3, LastIsInside
  <2> QED
    BY <2>2, <2>4 DEF End
<1> QED
  BY <1>3, <1>4, <1>5 DEF Complete

(* A root that grew is the last partition of its disk: no other one is in  *)
(* its way, and the others keep their entries and their content.           *)
LEMMA CompleteGrown ==
  ASSUME Typed, Untouched, stage \in Chosen, UNCHANGED <<image, volume>>,
         NEW i \in Disks, target[i].table = Table(i), \A k \in DOMAIN Parts(i) : Put(i, k), Larger(i),
         Overlaid(target', i, Root(man.disks[i]).start, LastUsable("gpt", target[i].size),
                  Root(man.disks[i]).uuid),
         target'[i].table =
           {e \in target[i].table : e.number # Root(man.disks[i]).number} \cup
           {[number |-> Root(man.disks[i]).number, start |-> Root(man.disks[i]).start,
             count |-> LastUsable("gpt", target[i].size) - Root(man.disks[i]).start + 1]}
  PROVE  Complete(i)'
<1> DEFINE root == Root(man.disks[i])
           last == LastUsable("gpt", target[i].size)
           others == {e \in target[i].table : e.number # root.number}
           entry == [number |-> root.number, start |-> root.start, count |-> last - root.start + 1]
<1>1. ManifestOK /\ AgentAccepts(man) /\ Laid(i) /\ IsDisk(i) /\ PartsOK(Parts(i)) /\ GrowsLast(i)
  BY Accepted DEF Ready
<1>2. Numbered(i) /\ Complete(i)
  BY <1>1, AllPresent, CompleteAsItIs DEF Put
<1>3. PICK r \in DOMAIN Parts(i) : /\ IsRoot(i, r) /\ root = Parts(i)[r]
                                   /\ root.number \in Nat /\ root.start \in Nat \ {0}
                                   /\ root.count \in Nat \ {0} /\ End(root) <= last
  BY RootGrows
<1>4. man.table = "gpt" /\ Plain /\ last \in Int /\ last < target[i].size
  BY RootGrows
<1>5. entry.number = root.number /\ entry.start = root.start /\ entry.count = last - root.start + 1
  OBVIOUS
<1>6. target'[i].table = others \cup {entry} /\ Overlaid(target', i, root.start, last, root.uuid)
  OBVIOUS
<1>7. \A k \in DOMAIN Parts(i) : Parts(i)[k].start <= root.start
  BY <1>1 DEF GrowsLast
<1> HIDE DEF root, last, entry
<1>8. End(entry) = last /\ entry.count >= root.count
  BY <1>3, <1>4, <1>5 DEF End
<1>9. man' = man /\ Parts(i)' = Parts(i) /\ Plain' = Plain /\ target'[i].size = target[i].size
  BY <1>6, Frame DEF Overlaid
(* What lies before the root.                                              *)
<1>10. ASSUME NEW k \in DOMAIN Parts(i), k # r
       PROVE  End(Parts(i)[k]) < root.start
  <2>1. End(Parts(i)[k]) < root.start \/ End(root) < Parts(i)[k].start
    BY <1>1, <1>3, <1>10 DEF Laid
  <2>2. Parts(i)[k].start \in Nat /\ Parts(i)[k].count \in Nat
    BY <1>1 DEF PartsOK, PartitionOK
  <2> QED
    BY <1>3, <1>7, <2>1, <2>2 DEF End
<1>11. ASSUME NEW e \in others PROVE End(e) < root.start /\ e.start \in Nat /\ e.count \in Nat \ {0}
  <2>1. PICK k \in DOMAIN Parts(i) : e = EntryOf(i, k)
    BY <1>1, Entries
  <2>2. EntryOf(i, k).number = Parts(i)[k].number /\ End(e) = End(Parts(i)[k])
    BY <1>1, <1>2, <2>1, NumberedPresent, Entries
  <2>3. k # r
    BY <1>3, <2>1, <2>2
  <2>4. e.start \in Nat /\ e.count \in Nat \ {0}
    BY <1>1, <2>1, Entries
  <2> QED
    BY <1>10, <2>2, <2>3, <2>4
<1>12. ASSUME NEW p \in Range(Parts(i)) PROVE InPlace(i, p)'
  <2>1. PICK k \in DOMAIN Parts(i) : p = Parts(i)[k]
    BY DEF Range
  <2>2. InPlace(i, p)
    BY <1>2 DEF Complete
  <2>3. PartitionOK(p)
    BY <1>1, <2>1 DEF PartsOK
  <2>4. CASE k = r
    <3>1. p = root /\ entry \in target'[i].table
      BY <1>3, <1>6, <2>1, <2>4
    <3>2. \A s \in p.start .. End(p) : s \in root.start .. last
      BY <1>3, <1>4, <2>3, <3>1 DEF PartitionOK, End
    <3>3. ASSUME NEW s \in p.start .. End(p) PROVE target'[i].data[s] = p.uuid
      <4>1. s \in DOMAIN target[i].data
        BY <2>1, SectorsOf
      <4> QED
        BY <1>6, <3>1, <3>2, <4>1 DEF Overlaid
    <3> QED
      BY <1>4, <1>5, <1>8, <1>9, <3>1, <3>3 DEF InPlace
  <2>5. CASE k # r
    <3>1. EntryOf(i, k) \in target[i].table /\ EntryOf(i, k).number = p.number
          /\ EntryOf(i, k).start = p.start /\ EntryOf(i, k).count = p.count
      BY <1>1, <1>2, <2>1, NumberedPresent, Entries
    <3>2. p.number # root.number
      BY <1>1, <1>3, <2>1, <2>5, NumbersDiffer
    <3>3. EntryOf(i, k) \in target'[i].table
      BY <1>6, <3>1, <3>2
    <3>4. ASSUME NEW s \in p.start .. End(p)
          PROVE  target'[i].data[s] = target[i].data[s]
      <4>1. s \in DOMAIN target[i].data /\ s \in Int
        BY <2>1, SectorsOf
      <4>2. s \notin root.start .. last
        <5>1. End(p) < root.start /\ End(p) \in Int
          BY <1>10, <2>1, <2>3, <2>5 DEF End, PartitionOK
        <5> QED
          BY <1>3, <1>4, <4>1, <5>1
      <4> QED
        BY <1>6, <4>1, <4>2 DEF Overlaid
    <3>5. p.count >= p.count
      BY <2>3 DEF PartitionOK
    <3>6. \E e \in target'[i].table : e.number = p.number /\ e.start = p.start /\ e.count >= p.count
      BY <3>1, <3>3, <3>5
    <3>7. /\ \A s \in p.start .. End(p) :
               target[i].data[s] = IF p.role = "root" /\ ~Plain THEN "pv" ELSE p.uuid
          /\ p.role = "root" /\ ~Plain => volume = p.uuid
      BY <2>2 DEF InPlace
    <3> QED
      BY <1>9, <3>4, <3>6, <3>7 DEF InPlace
  <2> QED
    BY <2>4, <2>5
<1>13. ASSUME NEW e \in target'[i].table, NEW f \in target'[i].table
       PROVE  e = f \/ End(e) < f.start \/ End(f) < e.start
  <2>1. CASE e \in others /\ f \in others
    BY <1>1, <2>1, EntriesApart
  <2>2. CASE e = entry \/ f = entry
    BY <1>5, <1>6, <1>11, <2>2
  <2> QED
    BY <1>6, <2>1, <2>2
<1>14. ASSUME NEW e \in target'[i].table PROVE End(e) <= LastUsable("gpt", target[i].size)
  <2>1. CASE e = entry
    BY <1>4, <1>8, <2>1 DEF last
  <2>2. CASE e \in others
    BY <1>2, <1>4, <2>2 DEF Complete
  <2> QED
    BY <1>6, <2>1, <2>2
<1> QED
  BY <1>4, <1>9, <1>12, <1>13, <1>14 DEF Complete

-----------------------------------------------------------------------------
(* The agent puts one partition after the other in its place, and leaves   *)
(* a disk when it is complete.                                             *)

LEMMA PutKept ==
  ASSUME UNCHANGED <<image, volume>>, NEW i \in Disks, NEW k \in Nat, Filled(i, k) => Filled(i, k)', Put(i, k)
  PROVE  Put(i, k)'
<1>1. /\ Present(i, k)' = Present(i, k) /\ Numbered(i)' = Numbered(i) /\ OnVolume(i, k)' = OnVolume(i, k)
      /\ Parts(i)' = Parts(i)
  BY Frame
<1> QED
  BY <1>1 DEF Put

LEMMA ProgressInit == Init => Progress
  BY DEF Init, Progress

(* Before the first partition there is at most the volume.                 *)
LEMMA ProgressTables ==
  ASSUME Typed, Untouched, WriteTable
  PROVE  Progress'
<1>1. /\ UNCHANGED image /\ stage' \in {"tables", "restoring", "stack"}
      /\ stage' = "restoring" => Plain /\ at' = <<1, 1>>
  BY WriteTableIs
<1>2. CASE stage' = "restoring"
  <2>1. Plain' /\ at'[1] = 1 /\ at'[2] = 1 /\ 1 \in Disks /\ Disks = 1 .. Len(man.disks) /\ Disks' = Disks
    BY <1>1, <1>2, Frame, ManifestHolds DEF ManifestOK
  <2>2. DOMAIN Parts(1)' = 1 .. Len(Parts(1))
    BY <1>1, <2>1, Frame, ManifestHolds DEF ManifestOK, PartsOK
  <2>3. \A k \in DOMAIN Parts(1)' : ~(k < 1)
    BY <2>2
  <2>4. \A i \in Disks' : ~(i < 1)
    BY <2>1
  <2>5. \A k : ~OnVolume(1, k)'
    BY <2>1 DEF OnVolume
  <2> QED
    BY <1>2, <2>1, <2>3, <2>4, <2>5 DEF Progress
<1> QED
  BY <1>1, <1>2 DEF Progress

LEMMA ProgressStack ==
  ASSUME Typed, Untouched, Tabled, BuildStack
  PROVE  Progress'
<1>1. /\ stage = "stack" /\ ~Plain /\ Disks = {1} /\ UNCHANGED <<image, at>>
      /\ stage' \in {"failed", "restoring"} /\ stage \in Chosen
      /\ stage' = "restoring" =>
           \E e \in Entry(1, Root(man.disks[1]).number) :
              Overlaid(target', 1, e.start, e.start + e.count - 1, "pv")
  BY BuildStackIs DEF Chosen, Working
<1>2. CASE stage' = "restoring"
  <2>1. /\ ManifestOK /\ Laid(1) /\ PartsOK(Parts(1)) /\ target[1].table = Table(1)
        /\ at'[1] = 1 /\ at'[2] = 1
    BY <1>1, Accepted DEF Tabled, Typed
  <2>2. PICK e \in Entry(1, Root(man.disks[1]).number) :
          Overlaid(target', 1, e.start, e.start + e.count - 1, "pv")
    BY <1>1, <1>2
  <2>3. e \in Table(1) /\ e.number = Root(man.disks[1]).number
    BY <2>1 DEF Entry
  <2>4. /\ Parts(1)' = Parts(1) /\ Disks' = Disks
        /\ \A k \in Nat : OnVolume(1, k)' = OnVolume(1, k) /\ Present(1, k)' = Present(1, k)
                          /\ Content(1, k)' = Content(1, k)
        /\ Numbered(1)' = Numbered(1)
    BY <1>1, Frame
  <2>5. ASSUME NEW k \in DOMAIN Parts(1), OnVolume(1, k)
        PROVE  Present(1, k) /\ (Numbered(1) => Filled(1, k)')
    <3>1. Parts(1)[k] = Root(man.disks[1])
      BY <2>1, <2>5 DEF Laid, IsRoot, OnVolume
    <3>2. Present(1, k)
      BY <2>3, <3>1 DEF Present
    <3>3. ASSUME Numbered(1) PROVE Filled(1, k)'
      <4>1. e = EntryOf(1, k)
        BY <1>1, <2>1, <2>3, <3>1, <3>3, NumberedEntry
      <4>2. e.start = Parts(1)[k].start /\ e.start + e.count - 1 = End(Parts(1)[k])
        BY <1>1, <2>1, <4>1, Entries DEF End
      <4>3. ASSUME NEW s \in Parts(1)[k].start .. End(Parts(1)[k]) PROVE target'[1].data[s] = "pv"
        <5>1. s \in DOMAIN target[1].data
          BY <1>1, SectorsOf
        <5> QED
          BY <2>2, <4>2, <5>1 DEF Overlaid
      <4>4. k \in Nat
        BY <2>1 DEF PartsOK
      <4> QED
        BY <2>4, <2>5, <4>3, <4>4 DEF Filled, Content
    <3> QED
      BY <3>2, <3>3
  <2>6. DOMAIN Parts(1) = 1 .. Len(Parts(1)) /\ DOMAIN Parts(1) \subseteq Nat
    BY <2>1 DEF PartsOK
  <2>7. \A k \in DOMAIN Parts(1) : ~(k < 1)
    BY <2>6
  <2>8. \A i \in Disks' : ~(i < 1)
    BY <1>1, <2>4
  <2>9. \A k \in DOMAIN Parts(1)' : OnVolume(1, k)' => Present(1, k)' /\ (Numbered(1)' => Filled(1, k)')
    BY <2>4, <2>5, <2>6
  <2> QED
    BY <1>2, <2>1, <2>4, <2>7, <2>8, <2>9 DEF Progress
<1> QED
  BY <1>1, <1>2 DEF Progress

LEMMA ProgressRestore ==
  ASSUME Typed, Untouched, Tabled, Progress, RestorePartition
  PROVE  Progress'
<1>0. PICK i \in Disks, k \in Nat : i = at[1] /\ k = at[2]
  BY RestoredIs DEF Typed
<1>1. /\ stage = "restoring" /\ stage \in Chosen /\ i \in Disks /\ k \in DOMAIN Parts(i)
      /\ UNCHANGED image /\ at'[1] = i /\ at'[2] = k + 1 /\ stage' \in {"restoring", "failed"}
  BY <1>0, RestoredIs DEF Chosen, Working
<1>2. /\ ManifestOK /\ DOMAIN target = Disks /\ Disks = 1 .. Len(man.disks) /\ PartsOK(Parts(i)) /\ Laid(i)
      /\ target[i].table = Table(i) /\ (~Plain => Len(man.disks) = 1)
  <2>1. target[i].table = Table(i)
    <3>1. \A j \in Disks : j >= i => target[j].table = Table(j)
      BY <1>0, <1>1 DEF Tabled
    <3>2. i >= i
      BY <1>0 DEF Typed
    <3> QED
      BY <1>1, <3>1, <3>2
  <2> QED
    BY <1>1, <2>1, Accepted
<1>3. /\ Disks' = Disks /\ Plain' = Plain
      /\ \A j \in Disks : Parts(j)' = Parts(j) /\ Numbered(j)' = Numbered(j)
      /\ \A j \in Disks, n \in Nat : Present(j, n)' = Present(j, n) /\ OnVolume(j, n)' = OnVolume(j, n)
  BY <1>1, Frame
<1>4. /\ \A n \in DOMAIN Parts(i) : n < k => Put(i, n)
      /\ \A n \in DOMAIN Parts(1) : OnVolume(1, n) => Present(1, n) /\ (Numbered(1) => Filled(1, n))
      /\ \A j \in Disks : j < i => Complete(j)
  BY <1>0, <1>1 DEF Progress
<1>5. /\ i \in Nat /\ 1 \in Disks /\ k \in Nat /\ DOMAIN Parts(i) \subseteq Nat /\ DOMAIN Parts(1) \subseteq Nat
      /\ ~Plain => i = 1
  BY <1>0, <1>2, DiskNumbers
<1>6. ASSUME NEW n \in DOMAIN Parts(i), NEW m \in DOMAIN Parts(i), OnVolume(i, n), OnVolume(i, m)
      PROVE  n = m
  BY <1>2, <1>6 DEF Laid, IsRoot, OnVolume
<1>7. CASE stage' = "failed"
  BY <1>7 DEF Progress
(* The root of a linear volume: its device is the volume, not a partition. *)
<1>8. CASE /\ OnVolume(i, k) /\ volume' = Parts(i)[k].uuid /\ UNCHANGED <<stage, target>>
  <2>1. i = 1 /\ ~Plain
    BY <1>5, <1>8 DEF OnVolume
  <2>2. ASSUME NEW n \in DOMAIN Parts(i), Filled(i, n) PROVE Filled(i, n)'
    BY <1>1, <1>5, <1>8, <2>2, FilledSame
  <2>3. ASSUME NEW n \in DOMAIN Parts(1), n < k + 1 PROVE Put(1, n)'
    <3>1. CASE n = k
      <4>1. Present(1, k) /\ (Numbered(1) => Filled(1, k))
        BY <1>1, <1>4, <1>8, <2>1
      <4> QED
        BY <1>1, <1>3, <1>5, <1>8, <2>1, <2>2, <3>1, <4>1 DEF Put
    <3>2. CASE n # k
      <4>1. n < k
        BY <1>5, <2>3, <3>2
      <4>2. Put(1, n)
        BY <1>4, <2>1, <4>1
      <4>3. ~OnVolume(1, n)
        BY <1>1, <1>6, <1>8, <2>1, <3>2
      <4> QED
        BY <1>3, <1>5, <2>1, <2>2, <4>2, <4>3 DEF Put
    <3> QED
      BY <3>1, <3>2
  <2>4. \A n \in DOMAIN Parts(1) : OnVolume(1, n)' => Present(1, n)' /\ (Numbered(1)' => Filled(1, n)')
    BY <1>3, <1>4, <1>5, <2>1, <2>2
  <2>5. \A j \in Disks : ~(j < i)
    BY <1>2, <2>1
  <2> QED
    BY <1>1, <1>3, <1>5, <1>8, <2>1, <2>3, <2>4, <2>5 DEF Progress
<1>9. CASE /\ ~OnVolume(i, k) /\ stage' = stage /\ volume' = volume
           /\ \E e \in Entry(i, Parts(i)[k].number) :
                /\ e.count >= Parts(i)[k].count
                /\ Overlaid(target', i, e.start, e.start + Parts(i)[k].count - 1, Parts(i)[k].uuid)
           /\ target'[i].table = target[i].table
  <2>1. PICK e \in Entry(i, Parts(i)[k].number) :
          Overlaid(target', i, e.start, e.start + Parts(i)[k].count - 1, Parts(i)[k].uuid)
    BY <1>9
  <2>2. e \in Table(i) /\ e.number = Parts(i)[k].number
    <3>1. \A number : \A f \in Entry(i, number) : f \in target[i].table /\ f.number = number
      BY DEF Entry
    <3> QED
      BY <1>2, <2>1, <3>1
  <2>3. Present(i, k)
    BY <2>2 DEF Present
  <2>4. ASSUME Numbered(i)
        PROVE  /\ e.start = Parts(i)[k].start
               /\ e.start + Parts(i)[k].count - 1 = End(Parts(i)[k])
    <3>1. e = EntryOf(i, k)
      BY <1>1, <1>2, <2>2, <2>4, NumberedEntry
    <3>2. e.start = Parts(i)[k].start
      BY <1>1, <1>2, <3>1, Entries
    <3> QED
      BY <3>2 DEF End
  <2>5. ASSUME NEW n \in DOMAIN Parts(i), n # k, Numbered(i), Filled(i, n) PROVE Filled(i, n)'
    <3>1. \A s \in Parts(i)[n].start .. End(Parts(i)[n]) : s \notin e.start .. e.start + Parts(i)[k].count - 1
      BY <1>1, <1>2, <2>4, <2>5, SectorsApart
    <3> QED
      BY <1>1, <2>1, <2>5, <3>1, FilledKept
  <2>6. ASSUME Numbered(i) PROVE Filled(i, k)'
    <3>1. ASSUME NEW s \in Parts(i)[k].start .. End(Parts(i)[k])
          PROVE  target'[i].data[s] = Parts(i)[k].uuid
      <4>1. s \in DOMAIN target[i].data
        BY <1>1, SectorsOf
      <4> QED
        BY <2>1, <2>4, <2>6, <4>1 DEF Overlaid
    <3>2. Content(i, k)' = Parts(i)[k].uuid
      <4>1. Content(i, k)' = Content(i, k)
        BY <1>1, <1>5, Frame
      <4> QED
        BY <1>9, <4>1 DEF Content
    <3> QED
      BY <1>1, <1>3, <3>1, <3>2 DEF Filled
  <2>7. ASSUME NEW n \in DOMAIN Parts(i), n < k + 1 PROVE Put(i, n)'
    <3>1. CASE n = k
      BY <1>1, <1>3, <1>5, <1>9, <2>3, <2>6, <3>1 DEF Put
    <3>2. CASE n # k
      <4>1. n < k
        BY <1>5, <2>7, <3>2
      <4>2. Put(i, n)
        BY <1>4, <4>1
      <4> QED
        BY <1>1, <1>3, <1>5, <1>9, <2>5, <3>2, <4>2 DEF Put
    <3> QED
      BY <3>1, <3>2
  <2>8. ASSUME NEW n \in DOMAIN Parts(1), OnVolume(1, n)
        PROVE  Present(1, n) /\ (Numbered(1) => Filled(1, n)')
    <3>1. i = 1 /\ n # k
      BY <1>5, <1>9, <2>8 DEF OnVolume
    <3> QED
      BY <1>4, <2>5, <2>8, <3>1
  <2>9. ASSUME NEW j \in Disks, j < i PROVE Complete(j)'
    <3>1. target'[j] = target[j]
      BY <1>2, <1>5, <2>1, <2>9 DEF Overlaid
    <3> QED
      BY <1>1, <1>4, <1>9, <2>9, <3>1, CompleteKept
  <2>10. \A n \in DOMAIN Parts(1)' : OnVolume(1, n)' => Present(1, n)' /\ (Numbered(1)' => Filled(1, n)')
    BY <1>3, <1>5, <2>8
  <2> QED
    BY <1>1, <1>3, <1>9, <2>7, <2>9, <2>10 DEF Progress
<1> QED
  BY <1>0, <1>7, <1>8, <1>9, RestoredIs

LEMMA ProgressFinish ==
  ASSUME Typed, Untouched, Tabled, Progress, FinishDisk
  PROVE  Progress'
<1>0. PICK i \in Disks : i = at[1]
  BY FinishIs
<1> DEFINE root == Root(man.disks[i])
           last == LastUsable("gpt", target[i].size)
           others == {e \in target[i].table : e.number # root.number}
           entry == [number |-> root.number, start |-> root.start, count |-> last - root.start + 1]
<1>1. /\ stage = "restoring" /\ stage \in Chosen /\ at[2] \notin DOMAIN Parts(i)
      /\ UNCHANGED <<image, volume>> /\ stage' \in {"failed", "restoring", "finalizing"}
      /\ stage' = "restoring" => i < Len(man.disks) /\ at' = <<i + 1, 1>>
      /\ stage' = "finalizing" => ~(i < Len(man.disks))
      /\ \/ target' = target
         \/ /\ Larger(i) /\ Overlaid(target', i, root.start, last, root.uuid)
            /\ target'[i].table = others \cup {entry}
  BY <1>0, FinishIs DEF Chosen, Working
<1>2. /\ ManifestOK /\ DOMAIN target = Disks /\ Disks = 1 .. Len(man.disks) /\ Len(man.disks) \in Nat \ {0}
      /\ PartsOK(Parts(i)) /\ (~Plain => Len(man.disks) = 1)
  BY <1>1, Accepted DEF ManifestOK
<1>3. target[i].table = Table(i)
  <2>1. \A j \in Disks : j >= i => target[j].table = Table(j)
    BY <1>0, <1>1 DEF Tabled
  <2>2. i >= i
    BY <1>2
  <2> QED
    BY <2>1, <2>2
<1>4. /\ \A k \in DOMAIN Parts(i) : Put(i, k)
      /\ \A j \in Disks : j < i => Complete(j)
  <2>1. at[2] \in Nat \ {0}
    BY DEF Typed
  <2>2. \A k \in DOMAIN Parts(i) : k < at[2]
    BY <1>1, <1>2, <2>1 DEF PartsOK
  <2> QED
    BY <1>0, <1>1, <2>2 DEF Progress
<1>5. ASSUME NEW j \in Disks, j < i PROVE Complete(j)'
  <2>1. target'[j] = target[j]
    BY <1>1, <1>2, <1>5 DEF Overlaid
  <2> QED
    BY <1>1, <1>4, <1>5, <2>1, CompleteKept
<1>6. Complete(i)'
  <2>1. CASE target' = target
    BY <1>1, <1>3, <1>4, <2>1, CompleteAsItIs, CompleteKept
  <2>2. CASE /\ Larger(i) /\ Overlaid(target', i, root.start, last, root.uuid)
             /\ target'[i].table = others \cup {entry}
    BY <1>1, <1>3, <1>4, <2>2, CompleteGrown
  <2> QED
    BY <1>1, <2>1, <2>2
<1>7. Disks' = Disks /\ Plain' = Plain /\ \A j \in Disks : Parts(j)' = Parts(j)
  BY <1>1, Frame
<1>8. CASE stage' = "failed"
  BY <1>8 DEF Progress
<1>9. CASE stage' = "restoring"
  <2>1. at'[1] = i + 1 /\ at'[2] = 1 /\ i + 1 \in Disks
    BY <1>1, <1>2, <1>9
  <2>2. Plain'
    <3>1. Len(man.disks) # 1
      BY <1>0, <1>1, <1>2, <1>9, DiskNumbers
    <3> QED
      BY <1>2, <1>7, <3>1
  <2>3. \A k \in DOMAIN Parts(i + 1) : ~(k < 1)
    BY <1>2, <2>1 DEF ManifestOK, PartsOK
  <2>4. \A k : ~OnVolume(1, k)'
    BY <2>2 DEF OnVolume
  <2>5. \A j \in Disks : j < i + 1 => j < i \/ j = i
    BY <1>2
  <2>6. Parts(i + 1)' = Parts(i + 1) /\ \A j \in Disks' : j < i + 1 => Complete(j)'
    BY <1>5, <1>6, <1>7, <2>1, <2>5
  <2> QED
    BY <1>9, <2>1, <2>3, <2>4, <2>6 DEF Progress
<1>10. CASE stage' = "finalizing"
  <2>1. \A j \in Disks : j < i \/ j = i
    BY <1>1, <1>2, <1>10
  <2> QED
    BY <1>5, <1>6, <1>7, <1>10, <2>1 DEF Progress
<1> QED
  BY <1>1, <1>8, <1>9, <1>10

LEMMA ProgressStep == Typed /\ Untouched /\ Tabled /\ Progress /\ [Next]_vars => Progress'
<1> SUFFICES ASSUME Typed, Untouched, Tabled, Progress, [Next]_vars PROVE Progress'
  OBVIOUS
<1>1. CASE Capture \/ Publish \/ Reserve \/ Validate \/ Download \/ NoDecompressor \/ Fail
  BY <1>1 DEF Capture, Publish, Reserve, Validate, Download, NoDecompressor, Fail, Progress
<1>2. CASE Customize \/ Report
  <2>1. /\ stage \in {"finalizing", "verifying"} /\ stage' \in {"booting", "succeeded"}
        /\ UNCHANGED <<image, target, volume>>
    BY <1>2 DEF Customize, Report
  <2>2. \A i \in Disks : Complete(i)'
    BY <2>1, CompleteKept DEF Progress
  <2> QED
    BY <2>1, <2>2, Frame DEF Progress
<1>3. CASE EnsureBoot
  <2> DEFINE i == at[1]
  <2>1. /\ stage = "booting" /\ i \in Disks /\ UNCHANGED <<image, volume>>
        /\ \A j \in Disks : j # i => target'[j] = target[j]
        /\ target'[i].size = target[i].size
        /\ target'[i].data = target[i].data /\ target'[i].table = target[i].table
        /\ stage' \in {"booting", "verifying"}
    BY <1>3, EnsureBootIs
  <2>2. \A j \in Disks : /\ target'[j].size = target[j].size
                         /\ target'[j].data = target[j].data /\ target'[j].table = target[j].table
    BY <2>1
  <2>3. \A j \in Disks : Complete(j)'
    BY <2>1, <2>2, CompleteKept DEF Progress
  <2> QED
    BY <2>1, <2>3, Frame DEF Progress
<1>4. CASE UNCHANGED vars
  <2>1. stage' = stage /\ UNCHANGED <<image, target, at, volume>>
    BY <1>4 DEF vars
  <2>2. \A i \in Disks : Complete(i) => Complete(i)'
    BY <2>1, CompleteKept
  <2>3. \A i \in Disks, k \in Nat : Filled(i, k)' = Filled(i, k)
    BY <2>1, Frame DEF Filled
  <2>4. /\ Disks' = Disks /\ \A i \in Disks : Parts(i)' = Parts(i) /\ Numbered(i)' = Numbered(i)
        /\ \A i \in Disks, k \in Nat : Present(i, k)' = Present(i, k) /\ OnVolume(i, k)' = OnVolume(i, k)
    BY <2>1, Frame
  <2>5. CASE stage = "restoring"
    <3>1. at[1] \in Disks /\ 1 \in Disks /\ ManifestOK
      BY <2>5, ManifestHolds DEF Typed, ManifestOK
    <3>2. DOMAIN Parts(at[1]) \subseteq Nat /\ DOMAIN Parts(1) \subseteq Nat
      BY <3>1 DEF ManifestOK, PartsOK
    <3>3. at' = at /\ volume' = volume
      BY <2>1
    <3>4. \A k \in DOMAIN Parts(at[1]) : Put(at[1], k) => Put(at[1], k)'
      BY <2>3, <2>4, <3>1, <3>2, <3>3 DEF Put
    <3>5. \A k \in DOMAIN Parts(1) : /\ OnVolume(1, k)' = OnVolume(1, k) /\ Present(1, k)' = Present(1, k)
                                     /\ Numbered(1)' = Numbered(1) /\ Filled(1, k)' = Filled(1, k)
      BY <2>3, <2>4, <3>1, <3>2
    <3>6. DOMAIN Parts(at[1])' = DOMAIN Parts(at[1]) /\ DOMAIN Parts(1)' = DOMAIN Parts(1)
      BY <2>4, <3>1, <3>3
    <3> QED
      BY <2>1, <2>2, <2>4, <2>5, <3>3, <3>4, <3>5, <3>6 DEF Progress
  <2>6. CASE stage # "restoring"
    BY <2>1, <2>2, <2>4, <2>6 DEF Progress
  <2> QED
    BY <2>5, <2>6
<1> QED
  BY <1>1, <1>2, <1>3, <1>4, ProgressTables, ProgressStack, ProgressRestore, ProgressFinish DEF Next

-----------------------------------------------------------------------------
(* What the server publishes the agent accepts, but for three kinds of     *)
(* images.                                                                 *)

LEMMA PublishedLayout ==
  ASSUME ManifestOK, Published(man), NEW i \in Disks
  PROVE  GeometryAccepted(man, man.disks[i])
<1>1. GeometryPublished(man, man.disks[i]) /\ PartsOK(Parts(i)) /\ man.table \in {"gpt", "mbr"}
  BY DEF Published, Disks, ManifestOK
<1>2. /\ man.table = "gpt" => Len(Parts(i)) >= 2 /\ OfRole(Parts(i), "esp") = 1
      /\ man.table = "mbr" => OfRole(Parts(i), "esp") = 0
      /\ OfRole(Parts(i), "root") = 1
      /\ OfRole(Parts(i), "boot") <= 1 /\ OfRole(Parts(i), "swap") <= 1
      /\ \A p \in Range(Parts(i)) :
           p.start >= FirstUsable /\ End(p) <= LastUsable(man.table, man.disks[i].size)
      /\ Apart(Parts(i))
  BY <1>1 DEF GeometryPublished, Parts
<1>3. Len(Parts(i)) >= 1
  <2>1. PICK r \in DOMAIN Parts(i) : IsRoot(i, r)
    BY <1>2, RootIs
  <2> QED
    BY <1>1, <2>1 DEF PartsOK
<1>4. \A j, k \in DOMAIN Parts(i) : Parts(i)[j].number = Parts(i)[k].number => j = k
  BY <1>1, NumbersDiffer
<1> QED
  BY <1>1, <1>2, <1>3, <1>4 DEF GeometryAccepted, Parts

LEMMA PublishedIsAccepted ==
  ASSUME machine \in Machine, man = Manifest(machine), ManifestOK, Published(man), ~KnownUnrestorable
  PROVE  AgentAccepts(man)
<1>1. /\ man.volumes \in {"partitions", "lvm-linear"} /\ man.volumes = machine.storage
      /\ man.encryption = "none" /\ "ext4" \in man.commands
  <2>1. man.volumes = machine.storage /\ machine.storage \in Storage
        /\ man.encryption = IF machine.storage = "luks2" THEN "luks2" ELSE "none"
    BY ManifestParts, MachineDisks
  <2> QED
    BY <2>1 DEF Published, KnownUnrestorable, Storage
<1>2. ASSUME NEW i \in Disks PROVE GeometryAccepted(man, man.disks[i]) /\ PartsOK(Parts(i))
  BY <1>2, PublishedLayout DEF ManifestOK
<1>3. Len(man.disks) > 1 => man.table = "gpt"
  <2>1. man.table \in {"gpt", "mbr"} /\ Len(man.disks) \in Nat
    BY DEF ManifestOK
  <2> DEFINE n == Len(man.disks)
  <2>2. man.table = "mbr" => n = 1
    BY DEF Published, Supported
  <2>3. n = 1 => ~(n > 1)
    OBVIOUS
  <2> HIDE DEF n
  <2>4. n > 1 => man.table = "gpt"
    BY <2>1, <2>2, <2>3
  <2> QED
    BY <2>4 DEF n
<1>4. CommandsDeclared(man)
  <2>1. man.commands = UNION {{p.fs : p \in Range(Parts(i))} \ {"swap"} : i \in Disks}
    BY ManifestParts
  <2>2. ASSUME man.table = "gpt" PROVE "fat32" \in man.commands
    <3>1. 1 \in Disks
      BY DiskNumbers
    <3>2. OfRole(Parts(1), "esp") = 1
      BY <1>2, <2>2, <3>1 DEF GeometryAccepted, Parts
    <3>3. PICK k \in DOMAIN Parts(1) : Parts(1)[k].role = "esp"
      BY <1>2, <3>1, <3>2, OnlyOne
    <3>4. Parts(1)[k].fs = "fat32" /\ Parts(1)[k] \in Range(Parts(1))
      BY <1>2, <3>1, <3>3 DEF PartsOK, PartitionOK, Range
    <3> QED
      BY <2>1, <3>1, <3>4
  <2>3. ASSUME NEW fs \in FileSystems(man) \cap {"xfs", "btrfs"} PROVE fs \in man.commands
    <3>1. PICK i \in Disks : fs \in {p.fs : p \in Range(Parts(i))}
      BY DEF FileSystems, Disks, Parts
    <3> QED
      BY <2>1, <3>1
  <2> QED
    BY <1>1, <2>2, <2>3 DEF CommandsDeclared
<1>5. DistinctFileSystems(man)
  <2>1. ASSUME NEW i \in Disks, NEW k \in DOMAIN Parts(i)
        PROVE  Parts(i)[k].uuid = <<i, Parts(i)[k].number>>
    <3> DEFINE p == Classified(machine, machine.disks[i].parts[k])
    <3>1. Parts(i)[k] = [number |-> p.number, role |-> p.role, fs |-> p.fs, start |-> p.start,
                         count |-> p.count, uuid |-> Uuid(machine, i, p)]
      BY ManifestParts
    <3> HIDE DEF p
    <3>2. Parts(i)[k].number = p.number /\ Parts(i)[k].uuid = Uuid(machine, i, p)
      BY <3>1
    <3> QED
      BY <1>1, <3>2 DEF Uuid
  <2>2. ASSUME NEW i \in Disks, NEW k \in DOMAIN Parts(i), NEW j \in Disks, NEW n \in DOMAIN Parts(j),
               Parts(i)[k].uuid = Parts(j)[n].uuid
        PROVE  i = j /\ k = n
    <3>1. <<i, Parts(i)[k].number>> = <<j, Parts(j)[n].number>>
      BY <2>1, <2>2
    <3>2. i = j /\ Parts(i)[k].number = Parts(j)[n].number
      BY <3>1
    <3> QED
      BY <1>2, <3>2, NumbersDiffer
  <2>3. ASSUME NEW a \in Slots(man) PROVE \E i \in Disks : \E k \in DOMAIN Parts(i) : a = <<i, k>>
    BY DEF Slots, Disks, Parts
  <2>4. ASSUME NEW a \in Slots(man), NEW b \in Slots(man),
               man.disks[a[1]].parts[a[2]].uuid = man.disks[b[1]].parts[b[2]].uuid
        PROVE  a = b
    <3>1. PICK i \in Disks : \E k \in DOMAIN Parts(i) : a = <<i, k>>
      BY <2>3
    <3>2. PICK k \in DOMAIN Parts(i) : a = <<i, k>>
      BY <3>1
    <3>3. PICK j \in Disks : \E n \in DOMAIN Parts(j) : b = <<j, n>>
      BY <2>3
    <3>4. PICK n \in DOMAIN Parts(j) : b = <<j, n>>
      BY <3>3
    <3>5. Parts(i)[k].uuid = Parts(j)[n].uuid
      BY <2>4, <3>2, <3>4 DEF Parts
    <3> QED
      BY <2>2, <3>2, <3>4, <3>5
  <2> QED
    BY <2>4 DEF DistinctFileSystems
<1>6. CapabilitiesAccepted(man)
  BY <1>1 DEF CapabilitiesAccepted, Published, Supported, ManifestOK
<1> QED
  BY <1>2, <1>3, <1>4, <1>5, <1>6 DEF AgentAccepts, Disks

LEMMA RestorableNumbers ==
  ASSUME ManifestOK, AgentAccepts(man), ~KnownUnrestorable, NEW i \in Disks
  PROVE  Numbered(i)
<1>1. CASE man.table = "gpt"
  BY <1>1 DEF Numbered
<1>2. CASE man.table = "mbr"
  <2>1. Len(man.disks) = 1 /\ i = 1
    <3> DEFINE n == Len(man.disks)
    <3>1. ~(n > 1)
      BY <1>2 DEF AgentAccepts
    <3>2. n \in Nat \ {0} /\ (n = 1 => i = 1)
      BY DiskNumbers
    <3> HIDE DEF n
    <3>3. n = 1
      BY <3>1, <3>2
    <3> QED
      BY <3>2, <3>3 DEF n
  <2>2. {p.number : p \in Range(Parts(1))} = DOMAIN Parts(1)
    BY <1>2 DEF KnownUnrestorable
  <2>3. \A k \in DOMAIN Parts(1) : Parts(1)[k] \in Range(Parts(1))
    BY DEF Range
  <2>4. \A k \in DOMAIN Parts(1) : Parts(1)[k].number \in DOMAIN Parts(1)
    BY <2>2, <2>3
  <2> QED
    BY <1>2, <2>1, <2>4, InTurn
<1> QED
  BY <1>1, <1>2 DEF ManifestOK

(* When nothing fails on its own, an image the server publishes goes back  *)
(* to disks of the size of its source.                                     *)
LEMMA RestorableInit == Init => OthersAreRestorable
  BY DEF Init, OthersAreRestorable, PublishedIsRestorable

LEMMA RestorableStep ==
  Typed /\ Untouched /\ Tabled /\ Progress /\ OthersAreRestorable /\ [Next]_vars => OthersAreRestorable'
<1> SUFFICES ASSUME Typed, Untouched, Tabled, Progress, OthersAreRestorable, [Next]_vars,
                    ~KnownUnrestorable', stage' \in {"rejected", "failed"}, SameDisks', missing' = {}
             PROVE  fault'
  BY DEF OthersAreRestorable, PublishedIsRestorable
<1>1. CASE Capture \/ Publish \/ Reserve \/ Download \/ Customize \/ Report
  BY <1>1 DEF Capture, Publish, Reserve, Download, Customize, Report
<1>2. CASE NoDecompressor \/ Fail
  BY <1>2 DEF NoDecompressor, Fail, choice
<1>3. CASE UNCHANGED vars
  <2>1. /\ stage' = stage /\ fault' = fault /\ man' = man /\ missing' = missing
        /\ target' = target /\ usable' = usable
    BY <1>3 DEF vars, image, choice
  <2>2. ~KnownUnrestorable
    BY <2>1 DEF KnownUnrestorable, Parts
  <2>3. SameDisks
    BY <2>1 DEF SameDisks, Larger
  <2> QED
    BY <2>1, <2>2, <2>3 DEF OthersAreRestorable, PublishedIsRestorable
<1>4. CASE Validate
  <2>1. /\ stage = "reserved" /\ UNCHANGED <<image, choice, target, got, at, volume, renamed, fault>>
        /\ stage' = IF Ready THEN "downloading" ELSE "rejected"
    BY <1>4 DEF Validate, Ready
  <2>2. machine' = machine /\ man' = man /\ missing = {} /\ usable' = usable
    BY <2>1 DEF image, choice
  <2>3. ~KnownUnrestorable /\ SameDisks
    BY <2>1, <2>2 DEF KnownUnrestorable, Parts, SameDisks, Larger
  <2>4. /\ machine \in Machine /\ man = Manifest(machine) /\ ManifestOK /\ Published(man)
        /\ DOMAIN target = Disks /\ \A i \in Disks : IsDisk(i)
    BY <2>1, ManifestHolds DEF Typed, Refused
  <2>5. AgentAccepts(man)
    BY <2>3, <2>4, PublishedIsAccepted
  <2>6. ASSUME NEW i \in Disks PROVE TargetAccepted(i)
    BY <2>3, <2>4 DEF SameDisks, TargetAccepted, Expandable, IsDisk, Size
  <2> QED
    BY <2>1, <2>2, <2>5, <2>6 DEF Ready
<1>5. CASE stage \in Chosen /\ ~NoDecompressor /\ ~Fail /\ ~UNCHANGED vars
  <2>1. /\ UNCHANGED <<image, usable, missing>> /\ DOMAIN target' = Disks
        /\ \A i \in Disks : target'[i].size = target[i].size
    BY <1>5, SizesKept
  <2>2. man' = man
    BY <2>1 DEF image
  <2>3. /\ ManifestOK /\ AgentAccepts(man) /\ DOMAIN target = Disks
        /\ \A i \in Disks : PartsOK(Parts(i)) /\ Laid(i)
    BY <1>5, Accepted DEF Ready
  <2>4. ~KnownUnrestorable
    BY <2>2 DEF KnownUnrestorable, Parts
  <2>5. \A i \in Disks : Numbered(i)
    BY <2>3, <2>4, RestorableNumbers
  <2>6. \A i \in Disks : ~Larger(i)
    BY <2>1, <2>2 DEF SameDisks, Larger
  <2>7. CASE WriteTable
    BY <2>7, WriteTableIs
  <2>8. CASE EnsureBoot
    BY <2>8, EnsureBootIs
  <2>9. CASE BuildStack
    <3>1. stage = "stack" /\ Disks = {1} /\ Entry(1, Root(man.disks[1]).number) = {}
      BY <2>9, BuildStackIs
    <3>2. target[1].table = Table(1)
      BY <3>1 DEF Tabled
    <3>3. PICK r \in DOMAIN Parts(1) : IsRoot(1, r)
      BY <2>3, <3>1 DEF Laid
    <3>4. EntryOf(1, r) \in Table(1) /\ EntryOf(1, r).number = Root(man.disks[1]).number
      BY <2>3, <2>5, <3>1, <3>3, NumberedPresent DEF IsRoot
    <3>5. EntryOf(1, r) \in Entry(1, Root(man.disks[1]).number)
      BY <3>2, <3>4 DEF Entry
    <3> QED
      BY <3>1, <3>5
  <2>10. CASE RestorePartition
    <3>1. PICK i \in Disks, k \in Nat : i = at[1] /\ k = at[2]
      BY <2>10, RestoredIs DEF Typed
    <3>2. /\ stage = "restoring" /\ k \in DOMAIN Parts(i)
          /\ \A e \in Entry(i, Parts(i)[k].number) : ~(e.count >= Parts(i)[k].count)
      BY <2>10, <3>1, RestoredIs
    <3>3. target[i].table = Table(i)
      <4>1. \A j \in Disks : j >= i => target[j].table = Table(j)
        BY <3>1, <3>2 DEF Tabled
      <4> QED
        BY <2>3, <3>1, <4>1, DiskNumbers
    <3>4. /\ EntryOf(i, k) \in Table(i) /\ EntryOf(i, k).number = Parts(i)[k].number
          /\ EntryOf(i, k).count = Parts(i)[k].count
      BY <2>3, <2>5, <3>1, <3>2, NumberedPresent, Entries
    <3>5. EntryOf(i, k) \in Entry(i, Parts(i)[k].number)
      BY <3>3, <3>4 DEF Entry
    <3>6. Parts(i)[k].count \in Nat
      BY <2>3, <3>1, <3>2 DEF PartsOK, PartitionOK
    <3> QED
      BY <3>2, <3>4, <3>5, <3>6
  <2>11. CASE FinishDisk
    <3>1. PICK i \in Disks : i = at[1]
      BY <2>11, FinishIs
    <3>2. /\ stage = "restoring" /\ at[2] \notin DOMAIN Parts(i)
          /\ \/ target' = target
             \/ Larger(i)
          /\ stage' = "failed" => (Larger(i) /\ target' = target) \/ ~Verified(i, target'[i])
          /\ stage' # "rejected"
      BY <2>11, <3>1, FinishIs
    <3>3. target' = target /\ ~Verified(i, target[i])
      BY <2>6, <3>1, <3>2
    <3>4. target[i].table = Table(i)
      <4>1. \A j \in Disks : j >= i => target[j].table = Table(j)
        BY <3>1, <3>2 DEF Tabled
      <4> QED
        BY <2>3, <3>1, <4>1, DiskNumbers
    <3>5. \A k \in DOMAIN Parts(i) : Put(i, k)
      <4>1. at[2] \in Nat \ {0}
        BY DEF Typed
      <4>2. \A k \in DOMAIN Parts(i) : k < at[2]
        BY <2>3, <3>1, <3>2, <4>1 DEF PartsOK
      <4> QED
        BY <3>1, <3>2, <4>2 DEF Progress
    <3>6. ASSUME NEW p \in Range(Parts(i))
          PROVE  \E e \in target[i].table :
                   /\ e.number = p.number
                   /\ target[i].data[e.start] = IF p.role = "root" /\ ~Plain THEN "pv" ELSE p.uuid
                   /\ p.role = "root" /\ ~Plain => volume = p.uuid
      <4>1. PICK k \in DOMAIN Parts(i) : p = Parts(i)[k]
        BY DEF Range
      <4>2. /\ EntryOf(i, k) \in Table(i) /\ EntryOf(i, k).number = p.number
            /\ EntryOf(i, k).start = p.start
        BY <2>3, <2>5, <3>1, <4>1, NumberedPresent, Entries
      <4>3. Filled(i, k) /\ (OnVolume(i, k) => volume = p.uuid)
        BY <2>5, <3>1, <3>5, <4>1 DEF Put
      <4>4. p.start \in p.start .. End(p)
        BY <2>3, <3>1, <4>1 DEF PartsOK, PartitionOK, End
      <4>5. target[i].data[p.start] = Content(i, k)
        BY <4>1, <4>3, <4>4 DEF Filled
      <4> QED
        BY <3>4, <4>1, <4>2, <4>3, <4>5 DEF Content, OnVolume
    <3>7. Verified(i, target[i])
      BY <3>6 DEF Verified
    <3> QED
      BY <3>3, <3>7
  <2> QED
    BY <1>1, <1>4, <1>5, <2>7, <2>8, <2>9, <2>10, <2>11 DEF Next
<1>6. Next => Capture \/ Publish \/ Reserve \/ Validate \/ stage \in Chosen
  BY DEF Next, Download, WriteTable, BuildStack, NoDecompressor, RestorePartition, FinishDisk,
         Customize, EnsureBoot, Report, Fail, Chosen, Working
<1> QED
  BY <1>1, <1>2, <1>3, <1>4, <1>5, <1>6

-----------------------------------------------------------------------------
LEMMA RestoreInvHolds == Spec => []RestoreInv
<1>1. Init => RestoreInv
  BY TypedInit, UntouchedInit, TabledInit, ProgressInit, BootedInit, RestorableInit DEF RestoreInv
<1>2. RestoreInv /\ [Next]_vars => RestoreInv'
  BY TypedStep, UntouchedStep, TabledStep, ProgressStep, BootedStep, RestorableStep DEF RestoreInv
<1> QED
  BY <1>1, <1>2, PTL DEF Spec

(* What is written lies on the target disks: the tables, the filesystems   *)
(* and the root that grows, for every image and every larger target.       *)
THEOREM TypeCorrect == Spec => []TypeOK
<1>1. RestoreInv => TypeOK
  BY DEF RestoreInv, Typed
<1> QED
  BY <1>1, RestoreInvHolds, PTL

(* The agent refuses before it writes, unless it lacks a decompressor: once *)
(* a disk is written, all the artifacts are verified, all the disks are the *)
(* ones reserved, and no other tool that a later step needs is missing.     *)
THEOREM RefusalCorrect == Spec => []RefusedBeforeWrite
<1>1. RestoreInv => RefusedBeforeWrite
  <2> SUFFICES ASSUME Typed, Untouched PROVE RefusedBeforeWrite
    BY DEF RestoreInv
  <2>1. Written # {} => stage \in Chosen \cup {"rejected"}
    <3>1. CASE stage \in Refused \cup {"published"}
      BY <3>1 DEF Typed, Written
    <3>2. CASE stage = "reserved"
      BY <3>2 DEF Typed, Untouched, Written, Refused
    <3> QED
      BY <3>1, <3>2 DEF Typed, TypeOK, Refused, Chosen, Working
  <2>2. stage = "downloading" => Written = {}
    BY DEF Typed, Untouched, Written, Refused
  <2>3. stage = "rejected" /\ Written # {} => Ready /\ got = Total /\ "gzip" \in missing
    BY DEF Typed, Untouched, Written, Refused
  <2>4. Written # {} => got = Total
    <3>1. CASE stage \in Chosen \ {"downloading", "failed"}
      BY <3>1 DEF Untouched
    <3>2. CASE stage \in {"downloading", "failed"}
      BY <2>2, <3>2 DEF Untouched
    <3> QED
      BY <2>1, <2>3, <3>1, <3>2
  <2>5. Written # {} => \A i \in Disks : usable[i]
    BY <2>1, <2>3, Accepted DEF Ready, TargetAccepted
  <2> QED
    BY <2>3, <2>4, <2>5 DEF RefusedBeforeWrite
<1> QED
  BY <1>1, RestoreInvHolds, PTL

(* A restoration that reports success has put every partition of every     *)
(* disk in its place, with its content, whatever the numbers of its table, *)
(* and no root that grew meets another partition.                          *)
THEOREM SuccessCorrect == Spec => []SuccessIsComplete
<1>1. RestoreInv => SuccessIsComplete
  BY DEF RestoreInv, Progress, Booted, Complete, SuccessIsComplete
<1> QED
  BY <1>1, RestoreInvHolds, PTL

(* Three checks written apart agree: an image that the server publishes,   *)
(* but for the three kinds named, is never refused by the agent, and no    *)
(* command fails on it but on its own, on disks of the same size.          *)
THEOREM RestorableCorrect == Spec => []OthersAreRestorable
<1>1. RestoreInv => OthersAreRestorable
  BY DEF RestoreInv
<1> QED
  BY <1>1, RestoreInvHolds, PTL
=============================================================================
