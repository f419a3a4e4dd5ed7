--------------------------- MODULE MCRestoreDisks ---------------------------
(* Small machines: up to three partitions of one unit on three slots, in    *)
(* every order of places and numbers, with at most one of /boot and swap.   *)
EXTENDS RestoreDisks

Roles(table) ==
  {{"root"}, {"root", "swap"}, {"root", "boot"}} \cup
  (IF table = "gpt" THEN {{"esp", "root"} \cup r : r \in {{}, {"swap"}, {"boot"}}} ELSE {})

FsOf(role, root) == CASE role = "root" -> root [] role = "esp" -> "fat32"
                      [] role = "swap" -> "swap" [] role = "boot" -> "ext4"

Layout(roles, place, number, root) ==
  SetToSortSeq({[number |-> number[r], role |-> r, fs |-> FsOf(r, root),
                 start |-> place[r], count |-> 1] : r \in roles},
               LAMBDA p, q : p.number < q.number)

Injections(S, T) == {f \in [S -> T] : \A a, b \in S : f[a] = f[b] => a = b}

Layouts(table, root) ==
  UNION {{Layout(r, f, n, root) : f \in Injections(r, 1..3), n \in Injections(r, 1..3)} :
           r \in Roles(table)}

Size(table) == IF table = "gpt" THEN 5 ELSE 4

Single(table, storages, roots) ==
  {[table |-> table, storage |-> s, hot |-> h,
    disks |-> <<[size |-> Size(table), parts |-> l]>>] :
     s \in storages, h \in {table = "mbr", FALSE},
     l \in UNION {Layouts(table, root) : root \in roots}}

Double(storages, roots) ==
  {[table |-> "gpt", storage |-> s, hot |-> FALSE,
    disks |-> <<[size |-> 5, parts |-> l], [size |-> 5, parts |-> l]>>] :
     s \in storages, l \in {k \in UNION {Layouts("gpt", root) : root \in roots} : Len(k) = 2}}

FileSystemsOfRoot == {"ext4", "xfs", "btrfs"}
AllMachines ==
  Single("gpt", {"partitions", "lvm-linear", "luks2"}, FileSystemsOfRoot)
  \cup Single("mbr", {"partitions", "lvm-linear"}, {"ext4", "xfs"})
  \cup Double({"partitions", "raid1"}, {"ext4", "xfs"})
RaidMachines == Double({"raid1"}, {"ext4"})
=============================================================================
