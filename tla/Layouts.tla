------------------------------ MODULE Layouts ------------------------------
(* The layout of an image on its way from a machine to a machine: which     *)
(* disks a capture accepts and the manifest it writes, which manifests the  *)
(* server publishes and reserves, and which ones the agent of a restoration *)
(* accepts.  The three checks are separate code and are written separately. *)
(* Sectors are counted in units of one partition slot: unit 0 holds the     *)
(* partition table and the gap GRUB needs, and a GPT keeps its copy in the  *)
(* last unit of the disk.                                                   *)
EXTENDS Naturals, FiniteSets, Sequences, SequencesExt

(* A disk has its partitions in the order of the table, which is that of    *)
(* their numbers.  The role of a partition is told from its filesystem.     *)
FileSystemsOf == [esp |-> {"fat32"}, boot |-> {"ext4", "xfs"},
                  root |-> {"ext4", "xfs", "btrfs"}, swap |-> {"swap"}]
Partition == [number : Nat \ {0}, role : DOMAIN FileSystemsOf,
              fs : UNION {FileSystemsOf[r] : r \in DOMAIN FileSystemsOf},
              start : Nat, count : Nat \ {0}]
Storage == {"partitions", "lvm-linear", "luks2", "raid1"}
IsMachine(m) ==
  /\ m.table \in {"gpt", "mbr"} /\ m.storage \in Storage /\ m.hot \in BOOLEAN
  /\ m.disks \in Seq([size : Nat, parts : Seq(Partition)]) /\ m.disks # <<>>
  /\ \A i \in DOMAIN m.disks : LET parts == m.disks[i].parts IN
       /\ \A k \in DOMAIN parts : parts[k].fs \in FileSystemsOf[parts[k].role]
       /\ \A j, k \in DOMAIN parts : j < k => parts[j].number < parts[k].number

End(p) == p.start + p.count - 1
Apart(parts) ==
  \A p, q \in Range(parts) : p = q \/ End(p) < q.start \/ End(q) < p.start
OfRole(parts, role) == Cardinality({k \in DOMAIN parts : parts[k].role = role})
Root(disk) == CHOOSE p \in Range(disk.parts) : p.role = "root"
FirstUsable == 1
(* Slip: the size of a disk is taken for the number of its last sector.     *)
LastUsableIsSize(table, size) == size
LastUsable(table, size) == IF table = "gpt" THEN size - 2 ELSE size - 1

-----------------------------------------------------------------------------
(* Capture: the agent reads the table of each disk and names the role of    *)
(* each partition.  A DOS table knows no names: /boot is told from the root *)
(* by its mount point, which only a running system has.                     *)
Classified(m, p) ==
  IF m.table = "mbr" /\ p.role = "boot" /\ ~m.hot THEN [p EXCEPT !.role = "root"]
                                                  ELSE p
Parsed(m, disk) ==
  [disk EXCEPT !.parts = [k \in DOMAIN @ |-> Classified(m, @[k])]]

ParsesGpt(disk) == OfRole(disk.parts, "esp") = 1 /\ OfRole(disk.parts, "root") = 1

ParsesMbr(disk) ==
  /\ \A p \in Range(disk.parts) : p.start >= FirstUsable /\ End(p) < disk.size
  /\ OfRole(disk.parts, "root") = 1
  /\ OfRole(disk.parts, "boot") <= 1 /\ OfRole(disk.parts, "swap") <= 1
  /\ Apart(disk.parts)

CaptureAccepts(m) ==
  /\ \A i \in DOMAIN m.disks :
       IF m.table = "gpt" THEN ParsesGpt(Parsed(m, m.disks[i]))
                          ELSE ParsesMbr(Parsed(m, m.disks[i]))
  /\ Len(m.disks) > 1 => m.table = "gpt"
  /\ m.storage = "raid1" => Len(m.disks) >= 2
  /\ m.storage \in {"lvm-linear", "luks2"} => Len(m.disks) = 1

(* The two members of a RAID1 array carry one filesystem with one UUID.     *)
Uuid(m, i, p) ==
  IF m.storage = "raid1" /\ p.role = "root" THEN <<0, 0>> ELSE <<i, p.number>>

(* The volume profile of the manifest is the name of the storage profile,   *)
(* LUKS2 included, although LUKS2 has a field of its own.                   *)
Manifest(m) ==
  LET Filled(i) == [k \in DOMAIN m.disks[i].parts |->
        LET p == Classified(m, m.disks[i].parts[k])
        IN  [number |-> p.number, role |-> p.role, fs |-> p.fs, start |-> p.start,
             count |-> p.count, uuid |-> Uuid(m, i, p)]]
      disks == [i \in DOMAIN m.disks |->
                  [size |-> m.disks[i].size, parts |-> Filled(i)]]
  IN  [table |-> m.table, volumes |-> m.storage,
       encryption |-> IF m.storage = "luks2" THEN "luks2" ELSE "none",
       disks |-> disks,
       commands |-> UNION {{p.fs : p \in Range(disks[i].parts)} \ {"swap"} :
                             i \in DOMAIN disks}]

-----------------------------------------------------------------------------
(* Publication: the schema of the manifest and the profiles of the server.  *)
GeometryPublished(man, disk) ==
  LET numbers == {p.number : p \in Range(disk.parts)}
      uuids == {p.uuid : p \in Range(disk.parts)}
  IN  /\ man.table = "gpt" => Len(disk.parts) >= 2 /\ OfRole(disk.parts, "esp") = 1
      /\ man.table = "mbr" => OfRole(disk.parts, "esp") = 0
      /\ Cardinality(numbers) = Len(disk.parts)
      /\ Cardinality(uuids) = Len(disk.parts)
      /\ OfRole(disk.parts, "root") = 1
      /\ \A role \in {"boot", "swap"} : OfRole(disk.parts, role) <= 1
      /\ \A p \in Range(disk.parts) :
           p.start >= FirstUsable /\ End(p) <= LastUsable(man.table, disk.size)
      /\ Apart(disk.parts)

FileSystems(man) ==
  UNION {{p.fs : p \in Range(man.disks[i].parts)} : i \in DOMAIN man.disks}

Supported(man) ==
  /\ FileSystems(man) \subseteq
       IF man.table = "mbr" THEN {"ext4", "swap"}
                            ELSE {"fat32", "ext4", "swap", "xfs", "btrfs"}
  /\ man.table = "mbr" => Len(man.disks) = 1
  /\ man.encryption = "luks2" => Len(man.disks) = 1 /\ man.volumes = "partitions"
  /\ man.volumes = "raid1" => Len(man.disks) >= 2
  /\ man.volumes = "lvm-linear" => Len(man.disks) = 1

Published(man) ==
  /\ man.volumes \in {"partitions", "lvm", "lvm-linear", "raid1"}
  /\ \A i \in DOMAIN man.disks : GeometryPublished(man, man.disks[i])
  /\ Supported(man)

-----------------------------------------------------------------------------
(* Restoration: the agent checks the manifest again in its initramfs.  The  *)
(* UUIDs of the filesystems must differ over all the disks of the image,    *)
(* and partclone.ext4 must be among the commands of any image.              *)
GeometryInside(man, disk) ==
  /\ \A p \in Range(disk.parts) :
       p.start >= FirstUsable /\ End(p) < LastUsable(man.table, disk.size)
  /\ Apart(disk.parts)
GeometryAccepted(man, disk) ==
  /\ Len(disk.parts) >= IF man.table = "gpt" THEN 2 ELSE 1
  /\ \A p \in Range(disk.parts) :
       p.start >= FirstUsable /\ End(p) <= LastUsable(man.table, disk.size)
  /\ \A j, k \in DOMAIN disk.parts :
       disk.parts[j].number = disk.parts[k].number => j = k
  /\ Apart(disk.parts)
  /\ OfRole(disk.parts, "esp") = IF man.table = "gpt" THEN 1 ELSE 0
  /\ OfRole(disk.parts, "root") = 1
  /\ OfRole(disk.parts, "boot") <= 1 /\ OfRole(disk.parts, "swap") <= 1

Slots(man) == UNION {{i} \X DOMAIN man.disks[i].parts : i \in DOMAIN man.disks}

DistinctFileSystems(man) ==
  \A a, b \in Slots(man) :
    man.disks[a[1]].parts[a[2]].uuid = man.disks[b[1]].parts[b[2]].uuid => a = b

CommandsDeclared(man) ==
  {"ext4"} \cup (IF man.table = "gpt" THEN {"fat32"} ELSE {})
           \cup (FileSystems(man) \cap {"xfs", "btrfs"}) \subseteq man.commands

CapabilitiesAccepted(man) ==
  /\ FileSystems(man) \subseteq
       {"ext4", "swap", "xfs", "btrfs"} \cup IF man.table = "gpt" THEN {"fat32"} ELSE {}
  /\ man.encryption \in {"none", "luks2"}
  /\ man.volumes \in {"partitions", "lvm-linear", "raid1"}
  /\ man.encryption # "none" => man.volumes = "partitions"

AgentAccepts(man) ==
  /\ CommandsDeclared(man)
  /\ \A i \in DOMAIN man.disks : GeometryAccepted(man, man.disks[i])
  /\ DistinctFileSystems(man)
  /\ CapabilitiesAccepted(man)
  /\ Len(man.disks) > 1 => man.table = "gpt"
=============================================================================
