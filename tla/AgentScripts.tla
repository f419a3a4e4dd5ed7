---------------------------- MODULE AgentScripts ----------------------------
(***************************************************************************)
(* The steps that scripts/run_image_task.py takes for a capture and for a  *)
(* restoration, from the first request after the claim.  An artifact is    *)
(* the number of its chunks, and a chunk is the unit of bytes.  What reads *)
(* or writes the disk between two steps is left out; it can fail anywhere. *)
(***************************************************************************)
EXTENDS Integers, SequencesExt

CONSTANTS BootSector, \* 1 if a boot sector is captured before the rest, else 0
          Artifacts,  \* the chunks of each further artifact
          DiskSize    \* the bytes of the captured disks, no less than the chunks

ASSUME ArtifactsAssumption ==
  /\ BootSector \in {0, 1} /\ Artifacts \in Seq(Nat \ {0})
  /\ DiskSize >= FoldLeft(+, BootSector, Artifacts)

(* The chunks before artifact a, and all of them.                          *)
Before(a) == FoldLeft(+, BootSector, SubSeq(Artifacts, 1, a - 1))
Sent      == Before(Len(Artifacts) + 1)

Post(phase, bytes) == <<[kind |-> "progress", phase |-> phase, bytes |-> bytes]>>
Only(kind)         == <<[kind |-> kind, phase |-> "assigned", bytes |-> 0]>>

(* A chunk is uploaded with its end within its artifact; the first one of  *)
(* an artifact, and then every eighth, is reported with the bytes so far.  *)
UploadChunk(a, c) ==
  <<[kind |-> "upload", phase |-> "uploading", bytes |-> c]>> \o Only("check") \o
  (IF c = 1 \/ c % 8 = 0 THEN Post("uploading", Before(a) + c) ELSE <<>>)
UploadArtifact(a) == FlattenSeq([c \in 1 .. Artifacts[a] |-> UploadChunk(a, c)])
Uploads ==
  (IF BootSector = 1 THEN <<[kind |-> "upload", phase |-> "uploading", bytes |-> 1]>> ELSE <<>>)
  \o FlattenSeq([a \in DOMAIN Artifacts |-> UploadArtifact(a)])

(* capture_task of disks that nobody writes.                               *)
ColdCapture ==
  Only("check") \o Post("inspecting", 0) \o Uploads \o
  Post("verifying", DiskSize) \o Only("check") \o Only("result")

(* capture_task of mounted file systems, frozen while they are read.       *)
HotCapture ==
  Only("check") \o Post("freezing", 0) \o Only("freeze") \o Post("capturing", 0) \o
  Post("capturing", 0) \o Uploads \o Post("thawing", Sent) \o Only("thaw") \o
  Post("verifying", DiskSize) \o Only("check") \o Only("result")

(* _restore_claimed_task: every artifact is downloaded and verified before *)
(* the first block is written; then the bytes are counted anew.            *)
Restore ==
  Only("check") \o Post("inspecting", 0) \o
  FlattenSeq([a \in DOMAIN Artifacts |->
                Only("check") \o Post("downloading", Before(a) + Artifacts[a])]) \o
  Only("check") \o Post("restoring", 0) \o
  FlattenSeq([a \in DOMAIN Artifacts |->
                Only("check") \o Post("restoring", Before(a) + Artifacts[a])]) \o
  Only("check") \o Post("finalizing", Sent) \o
  Only("check") \o Post("verifying", Sent) \o Only("result")

AgentScript == [cold |-> ColdCapture, hot |-> HotCapture, restore |-> Restore]
=============================================================================
