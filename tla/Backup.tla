------------------------------- MODULE Backup -------------------------------
(***************************************************************************)
(* Reading the card from the recovery system: the backup of the root       *)
(* partition or of the whole card (forge_recovery_backup) and the card's   *)
(* digests (forge_recovery_hash), each a job of the host with a worker in  *)
(* the RAM of the target, the layout they bind (forge_recovery_layout),    *)
(* and what else writes the card: a restoration of the root, a commit that *)
(* mounts the boot partition, and the normal system after a reset.         *)
(*                                                                         *)
(* The card is three blocks, the second and third of them the root; the    *)
(* first, like what lies behind the root, belongs to the whole card only.  *)
(* A checksum is the bytes it is of.  The layout does not change: a check  *)
(* that finds it changed is one more failure, and so is a lease pulse      *)
(* without an answer.                                                      *)
(***************************************************************************)
EXTENDS Naturals

CONSTANTS
  Jobs,       \* jobs that read the card
  MaxBoots,   \* bound on boots
  MaxWrites   \* bound on blocks written by others

(* Whoever holds a partition, a job is neither nobody nor another writer.  *)
JobsAssumption == Jobs \cap {"none", "writer"} = {} /\ MaxBoots \in Nat \ {0} /\ MaxWrites \in Nat

Block == 1..3
Root == 2..3
Kinds == {"root-partition-bytes", "whole-card-bytes", "storage-hash"}
Bit == {0, 1}

VARIABLES
  card,       \* what the blocks hold
  boot, recovery,  \* the present boot, and whether it is a recovery boot
  holder,     \* who has a partition: "none", a job, "writer"
  writes,
  kind,       \* of a job
  of,         \* the boot it is approved for
  host,       \* how far the host is
  worker,     \* how far its worker is
  read,       \* the blocks the worker has read, and passed on
  receipt,    \* it has told the length, the digest and the boot
  file,       \* the archive on the host, once all of it has come
  snap,       \* the card when the worker had opened it
  accepted    \* acceptance.json: "none", "incomplete", "verified"

target == <<card, boot, recovery, holder, writes>>
job == <<kind, of>>
vars == <<target, job, host, worker, read, receipt, file, snap, accepted>>

Nothing == [b \in {} |-> 0]
Scope(k) == IF k = "root-partition-bytes" THEN Root ELSE Block
Partition(b) == IF b \in Root THEN "root" ELSE "boot"
(* O_EXCL on the whole device excludes the holders of its partitions.      *)
Claims(k) == {Partition(b) : b \in Scope(k)}
Cut(bytes, k) == [b \in Scope(k) |-> bytes[b]]

TypeOK ==
  /\ card \in [Block -> Bit] /\ boot \in 1..MaxBoots /\ recovery \in BOOLEAN
  /\ holder \in [{"boot", "root"} -> Jobs \cup {"none", "writer"}] /\ writes \in 0..MaxWrites
  /\ kind \in [Jobs -> Kinds] /\ of \in [Jobs -> 0..MaxBoots]
  /\ host \in [Jobs -> {"idle", "inspected", "receiving", "received", "reread", "over"}]
  /\ worker \in [Jobs -> {"none", "sent", "opened", "reading", "done", "dead"}]
  /\ receipt \in [Jobs -> BOOLEAN] /\ accepted \in [Jobs -> {"none", "incomplete", "verified"}]

Init ==
  /\ card = [b \in Block |-> 0] /\ boot = 1 /\ recovery = TRUE
  /\ holder = [p \in {"boot", "root"} |-> "none"] /\ writes = 0
  /\ kind \in [Jobs -> Kinds] /\ of = [j \in Jobs |-> 0]
  /\ host = [j \in Jobs |-> "idle"] /\ worker = [j \in Jobs |-> "none"]
  /\ read = [j \in Jobs |-> Nothing] /\ receipt = [j \in Jobs |-> FALSE]
  /\ file = [j \in Jobs |-> Nothing] /\ snap = [j \in Jobs |-> Nothing]
  /\ accepted = [j \in Jobs |-> "none"]

-----------------------------------------------------------------------------
(* The target around the jobs.                                             *)

Alive(j) == worker[j] \in {"sent", "opened", "reading"}
Release(h, j) == [p \in DOMAIN h |-> IF h[p] = j THEN "none" ELSE h[p]]

(* Power, a lease that ran out, a reboot: every process there is gone.     *)
Reset ==
  /\ boot < MaxBoots /\ boot' = boot + 1 /\ recovery' \in BOOLEAN
  /\ holder' = [p \in DOMAIN holder |-> "none"]
  /\ worker' = [j \in Jobs |-> IF Alive(j) THEN "dead" ELSE worker[j]]
  /\ UNCHANGED <<card, writes, job, host, read, receipt, file, snap, accepted>>

(* A restoration claims the root, a commit mounts the boot partition.      *)
Take(p) ==
  /\ recovery /\ holder[p] = "none" /\ holder' = [holder EXCEPT ![p] = "writer"]
  /\ UNCHANGED <<card, boot, recovery, writes, job, host, worker, read, receipt, file, snap, accepted>>
Leave(p) ==
  /\ holder[p] = "writer" /\ holder' = [holder EXCEPT ![p] = "none"]
  /\ UNCHANGED <<card, boot, recovery, writes, job, host, worker, read, receipt, file, snap, accepted>>
Write(b) ==
  /\ ~ recovery \/ holder[Partition(b)] = "writer"
  /\ writes < MaxWrites /\ writes' = writes + 1
  /\ card' = [card EXCEPT ![b] = 1 - @]
  /\ UNCHANGED <<boot, recovery, holder, job, host, worker, read, receipt, file, snap, accepted>>

-----------------------------------------------------------------------------
(* The host.                                                               *)

SameBoot(j) == recovery /\ boot = of[j]

(* A pulse and inspect_storage of the approved boot, before a directory.   *)
Inspect(j) ==
  /\ host[j] = "idle" /\ recovery
  /\ of' = [of EXCEPT ![j] = boot] /\ host' = [host EXCEPT ![j] = "inspected"]
  /\ UNCHANGED <<target, kind, worker, read, receipt, file, snap, accepted>>

(* The directory, the plan and the worker; the acceptance record of the    *)
(* end says incomplete unless the job gets through.                        *)
Start(j) ==
  /\ host[j] = "inspected"
  /\ host' = [host EXCEPT ![j] = "receiving"] /\ worker' = [worker EXCEPT ![j] = "sent"]
  /\ UNCHANGED <<target, job, read, receipt, file, snap, accepted>>

(* receive: both pipes at their end, status zero, and one receipt; its     *)
(* length, boot and ranges are those of the plan.                          *)
Receive(j) ==
  /\ host[j] = "receiving" /\ worker[j] = "done" /\ receipt[j]
  /\ host' = [host EXCEPT ![j] = "received"] /\ file' = [file EXCEPT ![j] = read[j]]
  /\ UNCHANGED <<target, job, worker, read, receipt, snap, accepted>>

(* Something happens to the archive before it is read again.               *)
Spoil(j) ==
  /\ host[j] = "received" /\ file[j] = read[j]
  /\ \E b \in DOMAIN file[j] : file' = [file EXCEPT ![j][b] = 1 - @]
  /\ UNCHANGED <<target, job, host, worker, read, receipt, snap, accepted>>

Reread(j) ==
  /\ host[j] = "received" /\ (kind[j] # "storage-hash" => file[j] = read[j])
  /\ host' = [host EXCEPT ![j] = "reread"]
  /\ UNCHANGED <<target, job, worker, read, receipt, file, snap, accepted>>

(* The closing inspect_storage of the same boot.                           *)
Accept(j) ==
  /\ host[j] = "reread" /\ SameBoot(j)
  /\ host' = [host EXCEPT ![j] = "over"] /\ accepted' = [accepted EXCEPT ![j] = "verified"]
  /\ UNCHANGED <<target, job, worker, read, receipt, file, snap>>

(* A refusal, a bound, a deadline, a pulse: before the directory there is  *)
(* no record.  The worker need not know that nobody listens any more.      *)
HostFails(j) ==
  /\ host[j] \in {"inspected", "receiving", "received", "reread"}
  /\ accepted' = [accepted EXCEPT ![j] = IF host[j] = "inspected" THEN "none" ELSE "incomplete"]
  /\ host' = [host EXCEPT ![j] = "over"]
  /\ UNCHANGED <<target, job, worker, read, receipt, file, snap>>

-----------------------------------------------------------------------------
(* The worker.                                                             *)

OpenShared(j) ==
  /\ worker[j] = "sent" /\ SameBoot(j)
  /\ worker' = [worker EXCEPT ![j] = "opened"]
  /\ UNCHANGED <<target, job, host, read, receipt, file, snap, accepted>>
(* check, then open: the device or the partition is nobody else's.         *)
Open(j) ==
  /\ worker[j] = "sent" /\ SameBoot(j)
  /\ \A p \in Claims(kind[j]) : holder[p] = "none"
  /\ holder' = [p \in DOMAIN holder |-> IF p \in Claims(kind[j]) THEN j ELSE holder[p]]
  /\ worker' = [worker EXCEPT ![j] = "opened"]
  /\ UNCHANGED <<card, boot, recovery, writes, job, host, read, receipt, file, snap, accepted>>

(* The open device has the approved size, and the second check holds.      *)
Begin(j) ==
  /\ worker[j] = "opened" /\ SameBoot(j)
  /\ worker' = [worker EXCEPT ![j] = "reading"] /\ snap' = [snap EXCEPT ![j] = Cut(card, kind[j])]
  /\ UNCHANGED <<target, job, host, read, receipt, file, accepted>>

Left(j) == Scope(kind[j]) \ DOMAIN read[j]

ReadBlock(j) ==
  /\ worker[j] = "reading" /\ Left(j) # {}
  /\ LET b == CHOOSE x \in Left(j) : \A y \in Left(j) : x <= y
     IN read' = [read EXCEPT ![j] = [x \in DOMAIN @ \cup {b} |-> IF x = b THEN card[b] ELSE @[x]]]
  /\ UNCHANGED <<target, job, host, worker, receipt, file, snap, accepted>>

(* The third check, the receipt, and the device is closed.                 *)
Finish(j) ==
  /\ worker[j] = "reading" /\ Left(j) = {} /\ SameBoot(j)
  /\ worker' = [worker EXCEPT ![j] = "done"] /\ receipt' = [receipt EXCEPT ![j] = TRUE]
  /\ holder' = Release(holder, j)
  /\ UNCHANGED <<card, boot, recovery, writes, job, host, read, file, snap, accepted>>

WorkerDies(j) ==
  /\ Alive(j) /\ worker' = [worker EXCEPT ![j] = "dead"] /\ holder' = Release(holder, j)
  /\ UNCHANGED <<card, boot, recovery, writes, job, host, read, receipt, file, snap, accepted>>

Next ==
  \/ Reset
  \/ \E p \in {"boot", "root"} : Take(p) \/ Leave(p)
  \/ \E b \in Block : Write(b)
  \/ \E j \in Jobs :
       \/ Inspect(j) \/ Start(j) \/ Receive(j) \/ Spoil(j) \/ Reread(j) \/ Accept(j) \/ HostFails(j)
       \/ Open(j) \/ Begin(j) \/ ReadBlock(j) \/ Finish(j) \/ WorkerDies(j)

Spec == Init /\ [][Next]_vars

-----------------------------------------------------------------------------
(* A record that is verified, its archive and its digests are what the     *)
(* card held at one moment of the boot the owner approved, whatever wrote  *)
(* to the card before and after, in whatever order jobs overlap.           *)
SnapshotIsWhole ==
  \A j \in Jobs : accepted[j] = "verified" =>
    /\ read[j] = snap[j] /\ DOMAIN read[j] = Scope(kind[j])
    /\ kind[j] # "storage-hash" => file[j] = snap[j]
=============================================================================
