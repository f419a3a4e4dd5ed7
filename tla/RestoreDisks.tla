---------------------------- MODULE RestoreDisks ----------------------------
(* A machine is captured, its image is published and reserved, and an agent *)
(* restores or clones it onto the disks of a target, down to which content  *)
(* lies in which sectors.  The server's answer to a report is left open (a  *)
(* refusal is one of the reasons of Fail): AgentSession models it.  Images  *)
(* on RAID1 and LUKS2 never get past the checks of Layouts, so the stacks a *)
(* restoration builds for them are left out.                                *)
EXTENDS Layouts
CONSTANTS Machine,    \* the machines that may be captured
          Growth,     \* how many units a target disk may exceed its source
          Tool        \* tools that may be missing from the agent's image

ASSUME MachineAssumption == \A m \in Machine : IsMachine(m)
ASSUME GrowthAssumption == Growth \subseteq Nat

VARIABLES
  machine,  \* the machine captured
  man,      \* the manifest of its image
  stage,    \* how far the image has come
  op,       \* "restore" or "clone"
  target,   \* the target disks: size, entries of the table, data, boot loader
  usable,   \* whether each is still the disk reserved, identified and at rest
  missing,  \* the tools the agent lacks
  got,      \* artifacts downloaded and verified
  at,       \* <<disk, partition>> being written
  volume,   \* the content of the logical volume
  renamed,  \* the disks whose root got the identity of the clone
  fault     \* a command, a download or a report has failed on its own

image == <<machine, man>>
choice == <<op, usable, missing>>
vars == <<image, choice, stage, target, got, at, volume, renamed, fault>>

Blank(size) == [size |-> size, table |-> {}, data |-> [s \in 0..(size - 1) |-> "old"],
                boot |-> FALSE]

Init ==
  /\ machine \in Machine
  /\ man = Manifest(machine)
  /\ stage = "source" /\ op = "restore" /\ target = << >> /\ usable = << >>
  /\ missing = {} /\ got = 0 /\ at = <<1, 1>> /\ volume = "none"
  /\ renamed = {} /\ fault = FALSE

Disks == DOMAIN man.disks

(* What is written lies on the target disks, the entries of the tables      *)
(* included.                                                                *)
TypeOK ==
  /\ stage \in {"source", "captured", "refused", "published", "unpublished", "reserved",
                "rejected", "downloading", "tables", "stack", "restoring", "finalizing",
                "booting", "verifying", "succeeded", "failed"}
  /\ op \in {"restore", "clone"} /\ missing \subseteq Tool /\ got \in Nat
  /\ \A i \in DOMAIN target :
       /\ DOMAIN target[i].data = 0 .. (target[i].size - 1)
       /\ \A e \in target[i].table : e.start > 0 /\ e.count > 0 /\ End(e) < target[i].size
  /\ renamed \subseteq {1} /\ fault \in BOOLEAN
Parts(i) == man.disks[i].parts
Larger(i) == target[i].size > man.disks[i].size
Plain == man.volumes = "partitions"

-----------------------------------------------------------------------------
Capture ==
  /\ stage = "source"
  /\ stage' = IF CaptureAccepts(machine) THEN "captured" ELSE "refused"
  /\ UNCHANGED <<image, choice, target, got, at, volume, renamed, fault>>

Publish ==
  /\ stage = "captured"
  /\ stage' = IF Published(man) THEN "published" ELSE "unpublished"
  /\ UNCHANGED <<image, choice, target, got, at, volume, renamed, fault>>

(* The operator reserves disks that are not smaller.  Until the agent starts*)
(* one may be exchanged or mounted, and its initramfs may lack tools.       *)
Reserve ==
  /\ stage = "published" /\ stage' = "reserved"
  /\ op' \in {"restore", "clone"}
  /\ \E more \in [Disks -> Growth] :
       target' = [i \in Disks |-> Blank(man.disks[i].size + more[i])]
  /\ usable' \in [Disks -> BOOLEAN]
  /\ missing' \in {{}} \cup {{t} : t \in Tool}
  /\ UNCHANGED <<image, got, at, volume, renamed, fault>>

-----------------------------------------------------------------------------
(* Only the last partition of a GPT grows, an ext4 root without swap.       *)
Expandable(i) ==
  LET root == Root(man.disks[i])
  IN  Larger(i) =>
        /\ man.table = "gpt" /\ root.fs = "ext4"
        /\ \A p \in Range(Parts(i)) : p.start <= root.start /\ p.role # "swap"

TargetAccepted(i) ==
  /\ usable[i]
  /\ target[i].size >= man.disks[i].size
  /\ Larger(i) => Plain
  /\ Expandable(i)

(* mkswap is always required, the tool of a filesystem for its artifacts.   *)
Artifacts(i) == {p \in Range(Parts(i)) : p.role # "swap"}
RequiredPlain ==
  {"table", "swap"} \cup (UNION {{p.fs : p \in Artifacts(i)} : i \in Disks})
            \cup (IF Plain THEN {} ELSE {"lvm"})
Required ==
  {"table", "swap"} \cup (UNION {{p.fs : p \in Artifacts(i)} : i \in Disks})
            \cup (IF Plain THEN {} ELSE {"lvm"})
            \cup (IF \E i \in Disks : Larger(i) THEN {"resize"} ELSE {})

Validate ==
  /\ stage = "reserved"
  /\ stage' = IF /\ AgentAccepts(man)
                 /\ \A i \in Disks : TargetAccepted(i)
                 /\ Required \cap missing = {}
              THEN "downloading" ELSE "rejected"
  /\ UNCHANGED <<image, choice, target, got, at, volume, renamed, fault>>

Total == Cardinality({a \in Slots(man) : man.disks[a[1]].parts[a[2]].role # "swap"})
         + (IF man.table = "mbr" THEN 1 ELSE 0)

Download ==
  /\ stage = "downloading" /\ got < Total
  /\ got' = got + 1
  /\ stage' = IF got' = Total THEN "tables" ELSE stage
  /\ UNCHANGED <<image, choice, target, at, volume, renamed, fault>>

(* sgdisk gets the number of each partition; the script of sfdisk has no    *)
(* numbers, and sfdisk numbers its lines in turn.                           *)
Table(i) ==
  {[number |-> IF man.table = "gpt" THEN Parts(i)[k].number ELSE k,
    start |-> Parts(i)[k].start, count |-> Parts(i)[k].count] : k \in DOMAIN Parts(i)}

WriteTable ==
  /\ stage = "tables"
  /\ LET i == at[1] IN
     /\ target' = IF "table" \in missing THEN target
                  ELSE [target EXCEPT ![i].table = Table(i), ![i].boot = man.table = "mbr"]
     /\ stage' = IF "table" \in missing THEN "rejected"
                 ELSE IF i < Len(man.disks) THEN stage
                 ELSE IF Plain THEN "restoring" ELSE "stack"
     /\ at' = IF i < Len(man.disks) THEN <<i + 1, 1>> ELSE <<1, 1>>
  /\ UNCHANGED <<image, choice, got, volume, renamed, fault>>

Entry(i, number) == {e \in target[i].table : e.number = number}
Wrote(i, first, last, content) ==
  [target EXCEPT ![i].data = [s \in DOMAIN @ |-> IF s \in first..last THEN content ELSE @[s]]]

BuildStack ==
  /\ stage = "stack"
  /\ stage' = IF "lvm" \in missing THEN "rejected"
              ELSE IF Entry(1, Root(man.disks[1]).number) = {} THEN "failed" ELSE "restoring"
  /\ target' = IF stage' # "restoring" THEN target
               ELSE LET e == CHOOSE e \in Entry(1, Root(man.disks[1]).number) : TRUE
                    IN  Wrote(1, e.start, e.start + e.count - 1, "pv")
  /\ UNCHANGED <<image, choice, got, at, volume, renamed, fault>>

(* mkswap or partclone writes to the device with the number of the manifest.*)
Restored(p) ==
  LET i == at[1]
      fits == {e \in Entry(i, p.number) : e.count >= p.count}
  IN  /\ stage' = IF p.fs \in missing THEN "rejected"
                  ELSE IF fits = {} THEN "failed" ELSE stage
      /\ target' = IF stage' # stage THEN target
                   ELSE LET e == CHOOSE e \in fits : TRUE
                        IN  Wrote(i, e.start, e.start + p.count - 1, p.uuid)
      /\ at' = <<i, at[2] + 1>>

(* A capture compresses every artifact of a partition with gzip; whether    *)
(* the agent of the restoration has it, no check before this one asks.      *)
NoDecompressor ==
  /\ stage = "restoring" /\ at[2] \in DOMAIN Parts(at[1])
  /\ Parts(at[1])[at[2]].role # "swap" /\ "gzip" \in missing
  /\ stage' = "rejected"
  /\ UNCHANGED <<image, choice, target, got, at, volume, renamed, fault>>

RestorePartition ==
  /\ stage = "restoring" /\ at[2] \in DOMAIN Parts(at[1])
  /\ Parts(at[1])[at[2]].role = "swap" \/ "gzip" \notin missing
  /\ LET p == Parts(at[1])[at[2]] IN
     \/ /\ p.role # "root" \/ Plain
        /\ Restored(p)
        /\ UNCHANGED volume
     \/ /\ p.role = "root" /\ ~Plain
        /\ volume' = p.uuid /\ at' = <<at[1], at[2] + 1>>
        /\ UNCHANGED <<stage, target>>
  /\ UNCHANGED <<image, choice, got, renamed, fault>>

-----------------------------------------------------------------------------
(* The root gets all the room up to the last usable sector of the target.   *)
(* sgdisk refuses an entry that overlaps another one.                       *)
Expanded(i) ==
  LET root == Root(man.disks[i])
      last == LastUsable("gpt", target[i].size)
      others == {e \in target[i].table : e.number # root.number}
  IN  IF \E e \in others : e.start \in root.start..last THEN target
      ELSE [Wrote(i, root.start, last, root.uuid) EXCEPT
              ![i].table = others \cup {[number |-> root.number, start |-> root.start,
                                         count |-> last - root.start + 1]}]

(* blkid on each device: the filesystem with the UUID of the manifest.      *)
Verified(i, disk) ==
  \A p \in Range(Parts(i)) :
    \E e \in disk.table :
      /\ e.number = p.number
      /\ disk.data[e.start] = IF p.role = "root" /\ ~Plain THEN "pv" ELSE p.uuid
      /\ p.role = "root" /\ ~Plain => volume = p.uuid

Grows(i) == Plain /\ Larger(i)

FinishDisk ==
  /\ stage = "restoring" /\ at[2] \notin DOMAIN Parts(at[1])
  /\ LET i == at[1] IN
     /\ target' = IF Grows(i) /\ Expandable(i) /\ "resize" \notin missing
                  THEN Expanded(i) ELSE target
     /\ stage' = IF Grows(i) /\ (~Expandable(i) \/ "resize" \in missing) THEN "rejected"
                 ELSE IF (Grows(i) /\ target' = target) \/ ~Verified(i, target'[i])
                 THEN "failed"
                 ELSE IF i < Len(man.disks) THEN stage ELSE "finalizing"
     /\ at' = IF i < Len(man.disks) THEN <<i + 1, 1>> ELSE <<1, 1>>
  /\ UNCHANGED <<image, choice, got, volume, renamed, fault>>

(* A clone gets its identity on the root of the first disk.                 *)
Customize ==
  /\ stage = "finalizing" /\ stage' = "booting"
  /\ renamed' = IF op = "clone" THEN {1} ELSE {}
  /\ UNCHANGED <<image, choice, target, got, at, volume, fault>>

BootableFirst(i) == [target EXCEPT ![1].boot = TRUE]
Bootable(i) == [target EXCEPT ![i].boot = TRUE]

EnsureBoot ==
  /\ stage = "booting"
  /\ LET i == at[1] IN
     /\ target' = Bootable(i)
     /\ stage' = IF i < Len(man.disks) THEN stage ELSE "verifying"
     /\ at' = <<i + 1, 1>>
  /\ UNCHANGED <<image, choice, got, volume, renamed, fault>>

Report ==
  /\ stage = "verifying" /\ stage' = "succeeded"
  /\ UNCHANGED <<image, choice, target, got, at, volume, renamed, fault>>

Working == {"downloading", "tables", "stack", "restoring", "finalizing", "booting", "verifying"}

(* A command, a download, a report or the lease fails; nothing is undone.   *)
Fail ==
  /\ stage \in Working
  /\ stage' = "failed" /\ fault' = TRUE
  /\ UNCHANGED <<image, choice, target, got, at, volume, renamed>>

Next ==
  \/ Capture \/ Publish \/ Reserve \/ Validate \/ Download \/ WriteTable
  \/ BuildStack \/ NoDecompressor \/ RestorePartition \/ FinishDisk \/ Customize \/ EnsureBoot
  \/ Report \/ Fail

Spec == Init /\ [][Next]_vars

-----------------------------------------------------------------------------
Written == {i \in DOMAIN target : target[i] # Blank(target[i].size)}

(* What _restore_claimed_task refuses after it began to write (a manifest   *)
(* it does not support, a disk that was exchanged or is in use, a target it *)
(* cannot fill, a tool that is missing) can only be the want of a           *)
(* decompressor: all the rest it finds out before, for all the disks of the *)
(* task, and it verifies every artifact before.                             *)
RefusedBeforeWrite ==
  /\ stage = "rejected" => Written = {} \/ "gzip" \in missing
  /\ Written # {} => got = Total /\ \A i \in Disks : usable[i]

(* _require_restore_tools is to check every destructive tool before the     *)
(* first write of a table.  It does not ask for the decompressor, so this   *)
(* does not hold: see the README.                                           *)
ToolsBeforeWrite == stage = "rejected" => Written = {}

(* A restoration that reports success has every partition of every disk in  *)
(* its place with its content, a grown root that meets no other partition,  *)
(* a boot loader on every disk, and the new identity if it is a clone.      *)
InPlace(i, p) ==
  /\ \E e \in target[i].table :
       e.number = p.number /\ e.start = p.start /\ e.count >= p.count
  /\ \A s \in p.start..End(p) :
       target[i].data[s] = IF p.role = "root" /\ ~Plain THEN "pv" ELSE p.uuid
  /\ p.role = "root" /\ ~Plain => volume = p.uuid
SuccessIsComplete ==
  stage = "succeeded" =>
    /\ \A i \in Disks :
         /\ \A p \in Range(Parts(i)) : InPlace(i, p)
         /\ \A e, f \in target[i].table : e = f \/ End(e) < f.start \/ End(f) < e.start
         /\ \A e \in target[i].table : End(e) <= LastUsable(man.table, target[i].size)
         /\ target[i].boot
    /\ op = "clone" => 1 \in renamed

(* A published image can be written back to disks of the size of its source:*)
(* no check of the agent refuses what the checks of the capture and of the  *)
(* server let through, and no command is given an impossible task.          *)
SameDisks == \A i \in DOMAIN target : usable[i] /\ ~Larger(i)
PublishedIsRestorable ==
  stage \in {"rejected", "failed"} /\ SameDisks /\ missing = {} => fault

(* The same but for three kinds of images, which the server publishes and   *)
(* the agent cannot restore: RAID1 (the two roots have one UUID), no ext4   *)
(* filesystem at all, and a DOS table with a gap in its numbers.            *)
KnownUnrestorable ==
  \/ man.volumes = "raid1"
  \/ "ext4" \notin man.commands
  \/ man.table = "mbr" /\ {p.number : p \in Range(Parts(1))} # DOMAIN Parts(1)
OthersAreRestorable == KnownUnrestorable \/ PublishedIsRestorable
=============================================================================
