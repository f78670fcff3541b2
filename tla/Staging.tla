------------------------------ MODULE Staging ------------------------------
(***************************************************************************)
(* The owner's boot staging, from the first file to the public boot        *)
(* partition: forge_recovery_stage_dispatch and _worker write one of four  *)
(* boot files per approved phase, _tryboot boots the staged recovery once, *)
(* _cleanup restores the phases and removes the recovery image,            *)
(* forge_boot_privacy_restore gives the boot partition its public fstab    *)
(* back.                                                                   *)
(*                                                                         *)
(* The host keeps durable records under a flock per directory; the target  *)
(* keeps an attempt ledger in /run, which every boot empties, and one lock *)
(* for all its workers.  A worker is an SSH command: it may start late, in *)
(* a later boot, never, or go on after the host gave up waiting.  Phase i  *)
(* guards the files of all the others, so it writes only when the phases   *)
(* before it are staged and the ones after it are not.                     *)
(***************************************************************************)
EXTENDS Naturals

CONSTANTS
  Phases,     \* number of phases (4 in the code)
  MaxBoot     \* boots of a run; boot 1 is the one the draft was prepared in

ASSUME StagingAssumption ==
  /\ Phases \in Nat \ {0}
  /\ MaxBoot \in Nat \ {0}

VARIABLES
  boot, system,        \* the target's boot and what it is running
  mount, fstab,        \* permissions of the mounted boot partition, and the next mount's
  file, onDisk,        \* the phases' files as read back, and as a power loss leaves them
  image,               \* the private recovery image
  ledger,              \* /run: what the attempt ledger of this boot holds
  worker,              \* the SSH command that executes an attempt
  rebooter,            \* the tryboot command
  remover,             \* the command that removes the image: [at, boot]
  fstabber,            \* the command that restores fstab: [at, boot]
  query,               \* the last reconciliation sent: [at, key, boot, found]
  request,             \* host record of an attempt: the boot approved for it, 0 none
  ack,                 \* host records: acknowledged attempts
  found,               \* host records: the last reconciliation of an attempt
  tryboot, pub, privacy, \* host records: the claims and the publication journal
  host,                \* the process that holds the staging flock: [at, key, boot]
  unsettled,           \* history: attempts whose write began and whose end was never recorded
  meddled              \* history: somebody changed a boot file

target == <<boot, system, mount, fstab, file, onDisk, image, ledger>>
commands == <<worker, rebooter, remover, fstabber, query>>
journal == <<request, ack, found, tryboot, pub, privacy>>
history == <<unsettled, meddled>>
vars == <<target, commands, journal, host, history>>

Phase == 1..Phases
Key == Phase \X {"apply", "restore"}
Boot == 1..MaxBoot
NoKey == <<0, "apply">>
Nobody == [at |-> "idle", key |-> NoKey, boot |-> 0]
NoQuery == [at |-> "none", key |-> NoKey, boot |-> 0, found |-> "none"]
NoCommand == [at |-> "none", boot |-> 0]

Content == {"before", "after", "other"}
Command == [at : {"none", "sent", "entered", "replied"}, boot : 0..MaxBoot]

TypeOK ==
  /\ boot \in Boot /\ system \in {"normal", "recovery"}
  /\ mount \in {"private", "public"} /\ fstab \in {"private", "public"}
  /\ file \in [Phase -> Content] /\ onDisk \in [Phase -> Content]
  /\ image \in {"present", "absent"}
  /\ ledger \in [Key -> {"none", "intent", "receipt", "fence"}]
  /\ worker \in [Key -> {"none", "sent", "entered", "wrote", "replied"}]
  /\ rebooter \in {"none", "sent", "checked", "issued"}
  /\ remover \in Command /\ fstabber \in Command
  /\ query \in [at : {"none", "sent", "answered"}, key : Key \cup {NoKey},
                boot : 0..MaxBoot, found : {"none", "open", "before", "after"}]
  /\ request \in [Key -> 0..MaxBoot]
  /\ ack \subseteq Key
  /\ found \in [Key -> {"none", "open", "before", "after"}]
  /\ tryboot \in {"none", "claimed"}
  /\ pub \in {"apply", "uncertain", "restore"}
  /\ privacy \in {"none", "claimed"}
  /\ host \in [at : {"idle", "approved", "waiting", "asking", "trying"},
               key : Key \cup {NoKey}, boot : 0..MaxBoot]
  /\ unsettled \subseteq Key
  /\ meddled \in BOOLEAN

-----------------------------------------------------------------------------
(* What the target's files and locks say.                                  *)

Conflict(p) ==
  \/ file[p] = "other"
  \/ \E i \in 1..(p - 1) : file[i] # "after"
  \/ \E i \in (p + 1)..Phases : file[i] # "before"

Desired(k) == IF k[2] = "apply" THEN "after" ELSE "before"
AllBefore == \A p \in Phase : file[p] = "before"

(* /run/lock/uconsole-forge-target.lock, taken without waiting.            *)
TargetLocked ==
  \/ \E k \in Key : worker[k] \in {"entered", "wrote"}
  \/ rebooter = "checked"
  \/ remover.at = "entered"

(* read_boot() == expected on a normal boot.                               *)
Running(b) == system = "normal" /\ boot = b

(* target_policy and mount_guard; published(): acknowledged and in place.  *)
Private == mount = "private" /\ fstab = "private"
ImageIntact == image = "present" /\ Private
Published == pub = "apply" /\ ImageIntact /\ ~TargetLocked

(* What the host's records say.                                            *)
Requested(k) == request[k] # 0
Resolved(k) == k \in ack \/ found[k] \in {"before", "after"}
NothingUncertain == \A k \in Key : Requested(k) => Resolved(k)
Restored(p) == <<p, "restore">> \in ack \/ found[<<p, "restore">>] = "before"

(* phase_states and inputs of the cleanup.                                 *)
AllRestored ==
  /\ boot # 1
  /\ NothingUncertain
  /\ \A p \in Phase : <<p, "apply">> \in ack /\ Restored(p)

-----------------------------------------------------------------------------
Init ==
  /\ boot = 1 /\ system = "normal"
  /\ mount = "private" /\ fstab = "private"
  /\ file = [p \in Phase |-> "before"] /\ onDisk = file
  /\ image = "present"
  /\ ledger = [k \in Key |-> "none"]
  /\ worker = [k \in Key |-> "none"]
  /\ rebooter = "none" /\ remover = NoCommand /\ fstabber = NoCommand
  /\ query = NoQuery
  /\ request = [k \in Key |-> 0]
  /\ ack = {}
  /\ found = [k \in Key |-> "none"]
  /\ tryboot = "none" /\ pub = "apply" /\ privacy = "none"
  /\ host = Nobody
  /\ unsettled = {} /\ meddled = FALSE

-----------------------------------------------------------------------------
(* The host: one phase and direction per call.                             *)

Approve(k) ==
  /\ host.at = "idle"
  /\ ~Requested(k)
  /\ NothingUncertain
  /\ system = "normal"
  /\ k[2] = "apply" => boot = 1 /\ Published
  /\ host' = [at |-> "approved", key |-> k, boot |-> boot]
  /\ UNCHANGED <<target, commands, journal, history>>

(* The durable request, then the SSH command.                              *)
Submit ==
  /\ host.at = "approved"
  /\ request' = [request EXCEPT ![host.key] = host.boot]
  /\ worker' = [worker EXCEPT ![host.key] = "sent"]
  /\ host' = [host EXCEPT !.at = "waiting"]
  /\ UNCHANGED <<target, rebooter, remover, fstabber, query, ack, found, tryboot, pub, privacy, history>>

(* checked_response accepted the reply.                                    *)
Acknowledge ==
  /\ host.at = "waiting"
  /\ worker[host.key] = "replied"
  /\ ack' = ack \cup {host.key}
  /\ worker' = [worker EXCEPT ![host.key] = "none"]
  /\ unsettled' = unsettled \ {host.key}
  /\ host' = Nobody
  /\ UNCHANGED <<target, rebooter, remover, fstabber, query, request, found, tryboot, pub, privacy, meddled>>

(* reconcile: the boot is observed, the query recorded and sent.  (For an  *)
(* acknowledged attempt the answer would be recorded and never read.)      *)
Ask(k) ==
  /\ host.at = "idle"
  /\ Requested(k)
  /\ k \notin ack
  /\ system = "normal"
  /\ query' = [at |-> "sent", key |-> k, boot |-> boot, found |-> "none"]
  /\ host' = [at |-> "asking", key |-> k, boot |-> boot]
  /\ UNCHANGED <<target, worker, rebooter, remover, fstabber, journal, history>>

(* The answer becomes the latest reconciliation record.                    *)
RecordAnswer ==
  /\ host.at = "asking"
  /\ query.at = "answered"
  /\ found' = [found EXCEPT ![query.key] = query.found]
  /\ unsettled' = IF query.found = "open" THEN unsettled ELSE unsettled \ {query.key}
  /\ query' = NoQuery
  /\ host' = Nobody
  /\ UNCHANGED <<target, worker, rebooter, remover, fstabber, request, ack, tryboot, pub, privacy,
                 meddled>>

(* A timeout, an SSH error or the death of the process: a reply is lost, a *)
(* command that has not replied goes on.                                   *)
GiveUp ==
  /\ host.at # "idle"
  /\ host' = Nobody
  /\ worker' = [k \in Key |-> IF worker[k] = "replied" THEN "none" ELSE worker[k]]
  /\ query' = IF query.at = "answered" THEN NoQuery ELSE query
  /\ UNCHANGED <<target, rebooter, remover, fstabber, journal, history>>

-----------------------------------------------------------------------------
(* The staging worker on the target.                                       *)

(* perform up to the ledger's intent: the bound boot, the target lock, the *)
(* private mount, no conflict, no fence and no other attempt open.         *)
Enter(k) ==
  /\ worker[k] = "sent"
  /\ Running(request[k])
  /\ ~TargetLocked
  /\ mount = "private"
  /\ k[2] = "apply" => ImageIntact
  /\ ~Conflict(k[1])
  /\ ledger[k] = "none"
  /\ \A j \in Key \ {k} : ledger[j] # "intent"
  /\ ledger' = [ledger EXCEPT ![k] = "intent"]
  /\ worker' = [worker EXCEPT ![k] = "entered"]
  /\ unsettled' = unsettled \cup {k}
  /\ UNCHANGED <<boot, system, mount, fstab, file, onDisk, image, rebooter, remover, fstabber, query,
                 journal, host, meddled>>

(* apply_file renames the new file into place, or removes it, unless it is *)
(* already as desired.                                                     *)
Write(k) ==
  /\ worker[k] = "entered"
  /\ file[k[1]] # "other"
  /\ file' = [file EXCEPT ![k[1]] = Desired(k)]
  /\ worker' = [worker EXCEPT ![k] = "wrote"]
  /\ UNCHANGED <<boot, system, mount, fstab, onDisk, image, ledger, rebooter, remover, fstabber, query,
                 journal, host, history>>

(* The reply reaches the host only while it waits.                         *)
ReplyTo(k) == IF host.at = "waiting" /\ host.key = k THEN "replied" ELSE "none"

(* fsync of the directory, the guards once more, the receipt, the reply.   *)
Finish(k) ==
  /\ worker[k] = "wrote"
  /\ file[k[1]] = Desired(k)
  /\ ~Conflict(k[1])
  /\ k[2] = "apply" => ImageIntact
  /\ onDisk' = [onDisk EXCEPT ![k[1]] = file[k[1]]]
  /\ ledger' = [ledger EXCEPT ![k] = "receipt"]
  /\ worker' = [worker EXCEPT ![k] = ReplyTo(k)]
  /\ UNCHANGED <<boot, system, mount, fstab, file, image, rebooter, remover, fstabber, query,
                 journal, host, history>>

(* The command never starts, a check raises, or the process is killed.     *)
Stop(k) ==
  /\ worker[k] \in {"sent", "entered", "wrote"}
  /\ worker' = [worker EXCEPT ![k] = "none"]
  /\ UNCHANGED <<target, rebooter, remover, fstabber, query, journal, host, history>>

(* The reconciling worker: fence in the attempt's own boot, then inspect.  *)
(* An intent without a receipt needs a new boot, a conflict stays open.    *)
AnswerIncompleteAsEnded ==
  LET k == query.key IN
  /\ query.at = "sent" /\ Running(query.boot) /\ ~TargetLocked /\ mount = "private"
  /\ ledger' = IF boot = request[k] /\ ledger[k] = "none" THEN [ledger EXCEPT ![k] = "fence"] ELSE ledger
  /\ query' = [query EXCEPT !.at = "answered", !.found = IF Conflict(k[1]) THEN "open" ELSE file[k[1]]]
  /\ UNCHANGED <<boot, system, mount, fstab, file, onDisk, image, worker, rebooter, remover, fstabber,
                 journal, host, history>>

Answer ==
  LET k == query.key
      bound == boot = request[k]
  IN
  /\ query.at = "sent"
  /\ Running(query.boot)
  /\ ~TargetLocked
  /\ mount = "private"
  /\ ledger' = IF bound /\ ledger[k] = "none" THEN [ledger EXCEPT ![k] = "fence"] ELSE ledger
  /\ query' = [query EXCEPT !.at = "answered", !.found =
                 IF Conflict(k[1]) \/ (bound /\ ledger[k] = "intent") THEN "open" ELSE file[k[1]]]
  /\ UNCHANGED <<boot, system, mount, fstab, file, onDisk, image, worker, rebooter, remover, fstabber,
                 journal, host, history>>

-----------------------------------------------------------------------------
(* One tryboot of the staged files.                                        *)

(* reviewed: every phase acknowledged in the prepared boot, no restore     *)
(* begun, nothing uncertain; the claim is durable before anything else.    *)
ClaimTryboot ==
  /\ host.at = "idle"
  /\ tryboot = "none"
  /\ NothingUncertain
  /\ \A p \in Phase : <<p, "apply">> \in ack /\ ~Requested(<<p, "restore">>)
  /\ tryboot' = "claimed"
  /\ host' = [Nobody EXCEPT !.at = "trying"]
  /\ UNCHANGED <<target, commands, request, ack, found, pub, privacy, history>>

(* The prepared boot and the publication observed again; the command sent. *)
SendTryboot ==
  /\ host.at = "trying"
  /\ rebooter = "none"
  /\ Running(1)
  /\ Published
  /\ rebooter' = "sent"
  /\ UNCHANGED <<target, worker, remover, fstabber, query, journal, host, history>>

CheckTryboot ==
  /\ rebooter = "sent"
  /\ Running(1)
  /\ ~TargetLocked
  /\ ImageIntact
  /\ \A p \in Phase : file[p] = "after"
  /\ rebooter' = "checked"
  /\ UNCHANGED <<target, worker, remover, fstabber, query, journal, host, history>>

(* /sbin/reboot '0 tryboot' returns and the lock with it; the system is    *)
(* still going down.                                                       *)
IssueTryboot ==
  /\ rebooter = "checked"
  /\ rebooter' = "issued"
  /\ UNCHANGED <<target, worker, remover, fstabber, query, journal, host, history>>

StopTryboot ==
  /\ rebooter \in {"sent", "checked"}
  /\ rebooter' = "none"
  /\ UNCHANGED <<target, worker, remover, fstabber, query, journal, host, history>>

-----------------------------------------------------------------------------
(* Cleanup.  Its restores are the dispatches above, in reverse order.      *)

(* The nine preimages captured again, then the journaled removal is sent.  *)
SendRemoval ==
  /\ host.at = "idle"
  /\ pub = "apply"
  /\ AllRestored
  /\ system = "normal"
  /\ AllBefore
  /\ pub' = "uncertain"
  /\ remover' = [at |-> "sent", boot |-> boot]
  /\ UNCHANGED <<target, worker, rebooter, fstabber, query, request, ack, found, tryboot, privacy, host, history>>

(* The guard: the bound boot and the original files, under the lock.       *)
EnterRemoval ==
  /\ remover.at = "sent"
  /\ Running(remover.boot)
  /\ ~TargetLocked
  /\ AllBefore
  /\ Private
  /\ remover' = [remover EXCEPT !.at = "entered"]
  /\ UNCHANGED <<target, worker, rebooter, fstabber, query, journal, host, history>>

(* The image is removed; the guard once more decides about the reply.      *)
RemoveImage ==
  /\ remover.at = "entered"
  /\ image' = "absent"
  /\ remover' = IF AllBefore THEN [remover EXCEPT !.at = "replied"] ELSE NoCommand
  /\ UNCHANGED <<boot, system, mount, fstab, file, onDisk, ledger, worker, rebooter, fstabber, query,
                 journal, host, history>>

StopRemoval ==
  /\ remover.at # "none"
  /\ remover' = NoCommand
  /\ UNCHANGED <<target, worker, rebooter, fstabber, query, journal, host, history>>

AcknowledgeRemoval ==
  /\ remover.at = "replied"
  /\ pub' = "restore"
  /\ remover' = NoCommand
  /\ UNCHANGED <<target, worker, rebooter, fstabber, query, request, ack, found, tryboot, privacy, host, history>>

(* forge_boot_privacy_restore: cleanup complete, one durable attempt.      *)
SendFstab ==
  /\ host.at = "idle"
  /\ privacy = "none"
  /\ pub = "restore"
  /\ AllRestored
  /\ system = "normal"
  /\ privacy' = "claimed"
  /\ fstabber' = [at |-> "sent", boot |-> boot]
  /\ UNCHANGED <<target, worker, rebooter, remover, query, request, ack, found, tryboot, pub, host, history>>

(* Its guard: bound boot, private mount, original files, no image found in *)
(* the inventory; the original fstab takes effect at the next mount.       *)
RestoreFstab ==
  /\ fstabber.at = "sent"
  /\ Running(fstabber.boot)
  /\ ~TargetLocked
  /\ mount = "private"
  /\ AllBefore
  /\ image = "absent"
  /\ fstab' = "public"
  /\ fstabber' = NoCommand
  /\ UNCHANGED <<boot, system, mount, file, onDisk, image, ledger, worker, rebooter, remover, query,
                 journal, host, history>>

-----------------------------------------------------------------------------
(* A boot empties /run and ends what runs on the target; a command that    *)
(* has not started yet may still be delivered.                             *)
Restart(next) ==
  /\ boot < MaxBoot
  /\ boot' = boot + 1
  /\ system' = next
  /\ mount' = fstab
  /\ ledger' = [k \in Key |-> "none"]
  /\ worker' = [k \in Key |-> IF worker[k] \in {"entered", "wrote"} THEN "none" ELSE worker[k]]
  /\ rebooter' = IF rebooter = "sent" THEN "sent" ELSE "none"
  /\ remover' = IF remover.at = "entered" THEN NoCommand ELSE remover
  /\ UNCHANGED <<fstab, image, fstabber, query, journal, host, history>>

(* The reboot asked for: file systems are synced, tryboot selected.        *)
Tryboot ==
  /\ rebooter = "issued"
  /\ Restart("recovery")
  /\ onDisk' = file
  /\ UNCHANGED file

(* Any other orderly reboot ends in a normal boot.                         *)
Reboot ==
  /\ rebooter # "issued"
  /\ Restart("normal")
  /\ onDisk' = file
  /\ UNCHANGED file

(* A power loss keeps, of each file not yet synced, one or the other.      *)
PowerLoss ==
  /\ Restart("normal")
  /\ \E kept \in SUBSET Phase :
       file' = [p \in Phase |-> IF p \in kept THEN file[p] ELSE onDisk[p]]
  /\ onDisk' = file'

(* Somebody else replaces a guarded boot file, once: behind the guards of  *)
(* a command that is at work, or, a bound, in the prepared boot and the    *)
(* last phase's.                                                           *)
Meddle(p) ==
  /\ ~meddled /\ (TargetLocked \/ (boot = 1 /\ p = Phases))
  /\ system = "normal"
  /\ meddled' = TRUE
  /\ file' = [file EXCEPT ![p] = "other"]
  /\ onDisk' = [onDisk EXCEPT ![p] = "other"]
  /\ UNCHANGED <<boot, system, mount, fstab, image, ledger, commands, journal, host, unsettled>>

HostStep ==
  \/ \E k \in Key : Approve(k) \/ Ask(k)
  \/ Submit \/ Acknowledge \/ RecordAnswer \/ GiveUp
  \/ ClaimTryboot \/ SendTryboot \/ SendRemoval \/ AcknowledgeRemoval \/ SendFstab

TargetStep ==
  \/ \E k \in Key : Enter(k) \/ Write(k) \/ Finish(k) \/ Stop(k)
  \/ Answer
  \/ CheckTryboot \/ IssueTryboot \/ StopTryboot
  \/ EnterRemoval \/ RemoveImage \/ StopRemoval
  \/ RestoreFstab

Next == HostStep \/ TargetStep \/ Tryboot \/ Reboot \/ PowerLoss \/ \E p \in Phase : Meddle(p)

Spec == Init /\ [][Next]_vars

-----------------------------------------------------------------------------
(* A later file never stands without the ones it names: at any moment, and *)
(* after any power loss, the staged files are a prefix of the phases, so   *)
(* the selector is on the disk only with its command line and firmware.    *)
StagedIsAPrefix ==
  ~meddled => \A j \in Phase : \A i \in 1..(j - 1) :
     /\ file[j] = "after" => file[i] = "after"
     /\ onDisk[j] = "after" => onDisk[i] = "after"

(* When the records allow the next phase, nothing written is still at the  *)
(* mercy of a power loss.                                                  *)
SettledIsDurable == NothingUncertain => file = onDisk

(* What the host may go on from: a prefix of the phases, durable as soon   *)
(* as no attempt is open, however late a worker of an earlier one writes.  *)
StagedIsSound == StagedIsAPrefix /\ SettledIsDurable

=============================================================================
