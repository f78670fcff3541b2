---------------------------- MODULE StagingProofs ----------------------------
(***************************************************************************)
(* For any number of phases and boots, the staged files are a prefix of    *)
(* the plan and durable once nothing is uncertain; for any number of jobs  *)
(* that read the card, what is accepted as verified is the card at one     *)
(* moment.                                                                 *)
(*                                                                         *)
(* The first rests on when an attempt is over (Dead): a definite answer    *)
(* of a reconciliation is about such an attempt only, one attempt at a     *)
(* time has its intent open, only its file may be lost with the power, and *)
(* while it may write every earlier phase is staged and no later one       *)
(* (Fits).  The second rests on the device: from its opening to its        *)
(* receipt a job is the only holder of what it reads, so nobody writes     *)
(* there, and what it has read is still the card.                          *)
(***************************************************************************)
EXTENDS MCStaging, Integers, TLAPS

(***************************************************************************)
(* The staged files.                                                       *)
(***************************************************************************)
(* An attempt is over once nothing it may still do can change its file.    *)
Dead(k) ==
  /\ Requested(k) /\ ledger[k] # "intent"
  /\ ledger[k] = "none" => request[k] # boot

(* A worker is sent once, for the boot it is recorded with.                *)
StagingAttempts ==
  \A k \in Key :
    /\ request[k] <= boot
    /\ ~ Requested(k) => worker[k] = "none" /\ ledger[k] = "none" /\ k \notin ack
    /\ worker[k] = "sent" => k \notin ack /\ ledger[k] \notin {"intent", "receipt"}
    /\ worker[k] \in {"entered", "wrote"} => ledger[k] = "intent"
    /\ ledger[k] = "intent" => k \notin ack /\ request[k] = boot /\ worker[k] # "replied"

(* What the host is about.                                                 *)
StagingHost ==
  /\ host.at \in {"approved", "waiting"} => host.key \in Key
  /\ host.at = "approved" => ~ Requested(host.key) /\ host.boot # 0
  /\ host.boot <= boot
  /\ query.at # "none" => query.key \in Key /\ Requested(query.key)

(* A definite reconciliation is about an attempt that is over.             *)
StagingSettled ==
  /\ \A k \in Key : found[k] \in {"before", "after"} => Dead(k)
  /\ query.at = "answered" /\ query.found \in {"before", "after"} => Dead(query.key)

(* One attempt at a time is open, and only its file may be lost.           *)
StagingOpen ==
  /\ \A j, k \in Key : ledger[j] = "intent" /\ ledger[k] = "intent" => j = k
  /\ \A p \in Phase : file[p] # onDisk[p] => \E k \in Key : k[1] = p /\ ledger[k] = "intent"

(* Who is about to write has every earlier file staged and no later one.   *)
Fits(p) ==
  \A i \in Phase : /\ i < p => file[i] = "after"
                   /\ p < i => file[i] = "before"
StagingOrder ==
  ~ meddled =>
    /\ \A p \in Phase : file[p] # "other" /\ onDisk[p] # "other"
    /\ \A i, j \in Phase : i < j =>
         /\ file[j] = "after" => file[i] = "after"
         /\ onDisk[j] = "after" => onDisk[i] = "after"
    /\ \A k \in Key : worker[k] \in {"entered", "wrote"} => Fits(k[1])

StagingInv ==
  TypeOK /\ StagingAttempts /\ StagingHost /\ StagingSettled /\ StagingOpen /\ StagingOrder

LEMMA StagingTypes ==
  /\ Phases \in Nat \ {0} /\ MaxBoot \in Nat \ {0} /\ Phase = 1..Phases
  /\ \A k \in Key : k[1] \in Phase /\ k[2] \in {"apply", "restore"}
  BY StagingAssumption DEF Phase, Key

(* What the proofs need of the types.                                      *)
LEMMA StagingTyped ==
  TypeOK =>
    /\ boot \in Nat \ {0} /\ request \in [Key -> Nat] /\ ack \subseteq Key
    /\ ledger \in [Key -> {"none", "intent", "receipt", "fence"}]
    /\ worker \in [Key -> {"none", "sent", "entered", "wrote", "replied"}]
    /\ found \in [Key -> {"none", "open", "before", "after"}]
    /\ file \in [Phase -> Content] /\ onDisk \in [Phase -> Content]
    /\ DOMAIN host = {"at", "key", "boot"} /\ host.boot \in Nat
    /\ DOMAIN query = {"at", "key", "boot", "found"}
  BY StagingAssumption DEF TypeOK, Boot

LEMMA TypeOKKept == StagingInv /\ Next => TypeOK'
<1> SUFFICES ASSUME StagingInv, Next PROVE TypeOK'
  OBVIOUS
<1> USE StagingTypes DEF StagingInv, StagingHost, TypeOK
<1>1. ASSUME NEW k \in Key, Approve(k) PROVE TypeOK'
  BY <1>1 DEF Approve, commands, history, journal, target, Boot, Command, Content, NoKey
<1>2. ASSUME NEW k \in Key, Ask(k) PROVE TypeOK'
  BY <1>2 DEF Ask, history, journal, target, Boot, Command, Content, NoKey
<1>3. ASSUME NEW k \in Key, Enter(k) PROVE TypeOK'
  BY <1>3 DEF Enter, journal, Boot, Command, Content, NoKey
<1>4. ASSUME NEW k \in Key, Write(k) PROVE TypeOK'
  BY SMTT(30), <1>4 DEF Write, Desired, history, journal, Boot, Command, Content, NoKey
<1>5. ASSUME NEW k \in Key, Finish(k) PROVE TypeOK'
  BY SMTT(30), <1>5 DEF Finish, Desired, ReplyTo, history, journal, Boot, Command, Content, NoKey
<1>6. ASSUME NEW k \in Key, Stop(k) PROVE TypeOK'
  BY <1>6 DEF Stop, history, journal, target, Boot, Command, Content, NoKey
<1>7. CASE Submit
  <2>1. /\ host' = [host EXCEPT !.at = "waiting"]
        /\ request' = [request EXCEPT ![host.key] = host.boot]
        /\ worker' = [worker EXCEPT ![host.key] = "sent"]
        /\ UNCHANGED <<target, rebooter, remover, fstabber, query, ack, found, tryboot, pub,
                       privacy,
                      history>>
    BY <1>7 DEF Submit
  <2>2. /\ host' \in [at : {"idle", "approved", "waiting", "asking", "trying"},
                      key : Key \cup {NoKey}, boot : 0..MaxBoot]
        /\ request' \in [Key -> 0..MaxBoot]
        /\ worker' \in [Key -> {"none", "sent", "entered", "wrote", "replied"}]
    BY <2>1
  <2> QED BY SMTT(30), <2>1, <2>2 DEF target, history, Boot, Command, Content
<1>8. CASE Acknowledge
  BY <1>8 DEF Acknowledge, Nobody, target, NoKey, Boot, Command, Content
<1>9. CASE RecordAnswer
  BY <1>9 DEF RecordAnswer, NoQuery, Nobody, target, NoKey, Boot, Command, Content
<1>10. CASE GiveUp
  BY <1>10 DEF GiveUp, NoQuery, Nobody, history, journal, target, NoKey, Boot, Command, Content
<1>11. CASE ClaimTryboot
  <2>1. host' = [Nobody EXCEPT !.at = "trying"] /\ tryboot' = "claimed"
        /\ UNCHANGED <<target, commands, request, ack, found, pub, privacy, history>>
    BY <1>11 DEF ClaimTryboot
  <2>2. host' = [at |-> "trying", key |-> NoKey, boot |-> 0]
    BY <2>1 DEF Nobody
  <2>3. host' \in [at : {"idle", "approved", "waiting", "asking", "trying"},
                   key : Key \cup {NoKey}, boot : 0..MaxBoot]
    BY <2>2
  <2> QED BY SMTT(30), <2>1, <2>3 DEF target, commands, history, Boot, Command, Content
<1>12. CASE SendTryboot
  BY <1>12 DEF SendTryboot, history, journal, target, Boot, Command, Content, NoKey
<1>13. CASE SendRemoval
  BY <1>13 DEF SendRemoval, history, target, Boot, Command, Content, NoKey
<1>14. CASE AcknowledgeRemoval
  BY <1>14 DEF AcknowledgeRemoval, NoCommand, history, target, Boot, Command, Content, NoKey
<1>15. CASE SendFstab
  BY <1>15 DEF SendFstab, history, target, Boot, Command, Content, NoKey
<1>16. CASE Answer
  <2>1. /\ UNCHANGED <<boot, system, mount, fstab, file, onDisk, image, worker, rebooter,
                       remover,
                      fstabber, journal, host, history>>
        /\ ledger' = ledger \/ ledger' = [ledger EXCEPT ![query.key] = "fence"]
        /\ query.at = "sent"
    BY <1>16 DEF Answer
  <2>2. PICK f : /\ query' = [query EXCEPT !.at = "answered", !.found = f]
                 /\ f = "open" \/ (f = file[query.key[1]] /\ f # "other")
    BY <1>16 DEF Answer, Conflict
  <2>3. query.key[1] \in Phase
    BY <2>1
  <2>4. f \in {"open", "before", "after"}
    BY <2>2, <2>3 DEF Content
  <2>5. query' \in [at : {"none", "sent", "answered"}, key : Key \cup {NoKey},
                    boot : 0..MaxBoot, found : {"none", "open", "before", "after"}]
    BY <2>2, <2>4
  <2>6. ledger' \in [Key -> {"none", "intent", "receipt", "fence"}]
    BY <2>1
  <2> QED BY SMTT(30), <2>1, <2>5, <2>6 DEF journal, history, Boot, Command, Content
<1>17. CASE CheckTryboot
  BY <1>17 DEF CheckTryboot, history, journal, target, Boot, Command, Content, NoKey
<1>18. CASE IssueTryboot
  BY <1>18 DEF IssueTryboot, history, journal, target, Boot, Command, Content, NoKey
<1>19. CASE StopTryboot
  BY <1>19 DEF StopTryboot, history, journal, target, Boot, Command, Content, NoKey
<1>20. CASE EnterRemoval
  <2>1. remover' = [remover EXCEPT !.at = "entered"]
        /\ UNCHANGED <<target, worker, rebooter, fstabber, query, journal, host, history>>
    BY <1>20 DEF EnterRemoval
  <2>2. remover' \in Command
    BY <2>1 DEF Command
  <2> QED BY <2>1, <2>2 DEF target, journal, history, Boot, Content
<1>21. CASE RemoveImage
  <2>1. /\ remover' \in {[remover EXCEPT !.at = "replied"], NoCommand} /\ image' = "absent"
        /\ UNCHANGED <<boot, system, mount, fstab, file, onDisk, ledger, worker, rebooter,
                       fstabber, query, journal, host, history>>
    BY <1>21 DEF RemoveImage
  <2>2. [remover EXCEPT !.at = "replied"] \in Command
    BY DEF Command
  <2>3. NoCommand \in Command
    BY DEF Command, NoCommand
  <2>4. remover' \in Command
    BY <2>1, <2>2, <2>3
  <2> QED BY <2>1, <2>4 DEF journal, history
<1>22. CASE StopRemoval
  BY <1>22 DEF StopRemoval, NoCommand, history, journal, target, Boot, Command, Content, NoKey
<1>23. CASE RestoreFstab
  BY <1>23 DEF RestoreFstab, NoCommand, history, journal, Boot, Command, Content, NoKey
<1>24. CASE Tryboot
  BY <1>24 DEF Tryboot, Restart, NoCommand, history, journal, Boot, Command, Content, NoKey
<1>25. CASE Reboot
  BY <1>25 DEF Reboot, Restart, NoCommand, history, journal, Boot, Command, Content, NoKey
<1>26. CASE PowerLoss
  BY <1>26 DEF PowerLoss, Restart, NoCommand, history, journal, Boot, Command, Content, NoKey
<1>27. ASSUME NEW p \in Phase, Meddle(p) PROVE TypeOK'
  BY <1>27 DEF Meddle, commands, journal, Boot, Command, Content, NoKey
<1> HIDE DEF StagingInv, StagingHost, TypeOK
<1> QED BY <1>1, <1>2, <1>3, <1>4, <1>5, <1>6, <1>7, <1>8, <1>9, <1>10, <1>11, <1>12, <1>13,
      <1>14, <1>15, <1>16, <1>17, <1>18, <1>19, <1>20, <1>21, <1>22, <1>23, <1>24, <1>25, <1>26,
      <1>27
      DEF Next, HostStep, TargetStep

LEMMA StagingAttemptsKept == StagingInv /\ Next => StagingAttempts'
<1> SUFFICES ASSUME StagingInv, Next PROVE StagingAttempts'
  OBVIOUS
<1> USE StagingTypes, StagingTyped DEF StagingInv, StagingAttempts, StagingHost, StagingOpen,
      StagingOrder, StagingSettled
<1>1. ASSUME NEW k \in Key, Enter(k) PROVE StagingAttempts'
  <2>1. /\ worker[k] = "sent" /\ request[k] = boot /\ ledger[k] = "none" /\ ~ Conflict(k[1])
        /\ \A j \in Key : ledger[j] # "intent"
        /\ ledger' = [ledger EXCEPT ![k] = "intent"]
        /\ worker' = [worker EXCEPT ![k] = "entered"]
        /\ UNCHANGED <<boot, file, onDisk, query, request, ack, found, host, meddled>>
    BY <1>1 DEF Enter, Running, journal
  <2>2. \A j \in Key : /\ ledger'[j] = (IF j = k THEN "intent" ELSE ledger[j])
                       /\ worker'[j] = (IF j = k THEN "entered" ELSE worker[j])
    BY <2>1
  <2>3. Requested(k) /\ k \notin ack
    BY <2>1
  <2> QED BY <2>1, <2>2, <2>3 DEF Requested
<1>2. ASSUME NEW k \in Key, Write(k) PROVE StagingAttempts'
  BY <1>2 DEF Write, Desired, history, journal, Requested, Dead, Fits
<1>3. ASSUME NEW k \in Key, Finish(k) PROVE StagingAttempts'
  BY <1>3 DEF Finish, Desired, ReplyTo, history, journal, Requested, Dead, Fits
<1>4. ASSUME NEW k \in Key, Stop(k) PROVE StagingAttempts'
  BY <1>4 DEF Stop, history, journal, target, Requested, Dead, Fits
<1>5. CASE Submit
  <2>1. /\ host.at = "approved" /\ host.key \in Key /\ ~ Requested(host.key)
        /\ host.boot <= boot
        /\ request' = [request EXCEPT ![host.key] = host.boot]
        /\ worker' = [worker EXCEPT ![host.key] = "sent"]
        /\ UNCHANGED <<boot, ledger, ack>>
    BY <1>5 DEF Submit, target
  <2>2. \A k \in Key : /\ request'[k] = (IF k = host.key THEN host.boot ELSE request[k])
                       /\ worker'[k] = (IF k = host.key THEN "sent" ELSE worker[k])
    BY <2>1
  <2>3. host.boot # 0
    BY <2>1
  <2> QED BY <2>1, <2>2, <2>3 DEF Requested
<1>6. CASE Acknowledge
  BY <1>6 DEF Acknowledge, Nobody, target, NoKey, Requested, Dead, Fits
<1>7. CASE GiveUp
  BY <1>7 DEF GiveUp, NoQuery, Nobody, history, journal, target, NoKey, Requested, Dead, Fits
<1>8. CASE Answer
  BY <1>8 DEF Answer, history, journal, Requested, Dead, Fits
<1>9. CASE Tryboot
  BY <1>9 DEF Tryboot, Restart, NoCommand, history, journal, Requested, Dead, Fits
<1>10. CASE Reboot
  BY <1>10 DEF Reboot, Restart, NoCommand, history, journal, Requested, Dead, Fits
<1>11. CASE PowerLoss
  BY <1>11 DEF PowerLoss, Restart, NoCommand, history, journal, Requested, Dead, Fits
<1>12. CASE UNCHANGED <<ack, boot, ledger, request, worker>>
  BY <1>12 DEF Requested
<1> HIDE DEF StagingInv, StagingAttempts, StagingHost, StagingOpen, StagingOrder, StagingSettled
<1> QED BY <1>1, <1>2, <1>3, <1>4, <1>5, <1>6, <1>7, <1>8, <1>9, <1>10, <1>11, <1>12
      DEF Next, HostStep, TargetStep, Approve, Ask, RecordAnswer, ClaimTryboot, SendTryboot,
          SendRemoval, AcknowledgeRemoval, SendFstab, CheckTryboot, IssueTryboot, StopTryboot,
          EnterRemoval, RemoveImage, StopRemoval, RestoreFstab, Meddle, target, commands,
          journal, history

LEMMA StagingHostKept == StagingInv /\ Next => StagingHost'
<1> SUFFICES ASSUME StagingInv, Next PROVE StagingHost'
  OBVIOUS
<1> USE StagingTypes, StagingTyped DEF StagingInv, StagingAttempts, StagingHost, StagingOpen,
      StagingOrder, StagingSettled
<1>1. ASSUME NEW k \in Key, Approve(k) PROVE StagingHost'
  BY <1>1 DEF Approve, Requested, commands, history, journal, target, Resolved, Dead, Fits
<1>2. ASSUME NEW k \in Key, Ask(k) PROVE StagingHost'
  BY <1>2 DEF Ask, Requested, history, journal, target, Dead, Fits
<1>3. CASE Submit
  BY <1>3 DEF Submit, history, target, Requested, Dead, Fits
<1>4. CASE Acknowledge
  BY <1>4 DEF Acknowledge, Nobody, target, NoKey, Requested, Dead, Fits
<1>5. CASE RecordAnswer
  BY <1>5 DEF RecordAnswer, NoQuery, Nobody, target, NoKey, Requested, Dead, Fits
<1>6. CASE GiveUp
  BY <1>6 DEF GiveUp, NoQuery, Nobody, history, journal, target, NoKey, Requested, Dead, Fits
<1>7. CASE ClaimTryboot
  BY <1>7 DEF ClaimTryboot, Nobody, Requested, commands, history, target, NoKey, Resolved, Dead,
      Fits
<1>8. CASE Answer
  BY <1>8 DEF Answer, history, journal, Requested, Dead, Fits
<1>9. CASE Tryboot
  BY <1>9 DEF Tryboot, Restart, NoCommand, history, journal, Requested, Dead, Fits
<1>10. CASE Reboot
  BY <1>10 DEF Reboot, Restart, NoCommand, history, journal, Requested, Dead, Fits
<1>11. CASE PowerLoss
  BY <1>11 DEF PowerLoss, Restart, NoCommand, history, journal, Requested, Dead, Fits
<1>12. CASE UNCHANGED <<boot, host, query, request>>
  BY <1>12 DEF Requested
<1> HIDE DEF StagingInv, StagingAttempts, StagingHost, StagingOpen, StagingOrder, StagingSettled
<1> QED BY <1>1, <1>2, <1>3, <1>4, <1>5, <1>6, <1>7, <1>8, <1>9, <1>10, <1>11, <1>12
      DEF Next, HostStep, TargetStep, Enter, Write, Finish, Stop, SendTryboot, SendRemoval,
          AcknowledgeRemoval, SendFstab, CheckTryboot, IssueTryboot, StopTryboot, EnterRemoval,
          RemoveImage, StopRemoval, RestoreFstab, Meddle, journal, history, target, commands

LEMMA StagingSettledKept == StagingInv /\ Next => StagingSettled'
<1> SUFFICES ASSUME StagingInv, Next PROVE StagingSettled'
  OBVIOUS
<1> USE StagingTypes, StagingTyped DEF StagingInv, StagingAttempts, StagingHost, StagingOpen,
      StagingOrder, StagingSettled
<1>1. ASSUME NEW k \in Key, Ask(k) PROVE StagingSettled'
  BY <1>1 DEF Ask, Requested, history, journal, target, Dead, Fits
<1>2. ASSUME NEW k \in Key, Enter(k) PROVE StagingSettled'
  <2>1. /\ worker[k] = "sent" /\ request[k] = boot /\ ledger[k] = "none" /\ ~ Conflict(k[1])
        /\ \A j \in Key : ledger[j] # "intent"
        /\ ledger' = [ledger EXCEPT ![k] = "intent"]
        /\ worker' = [worker EXCEPT ![k] = "entered"]
        /\ UNCHANGED <<boot, file, onDisk, query, request, ack, found, host, meddled>>
    BY <1>2 DEF Enter, Running, journal
  <2>2. \A j \in Key : /\ ledger'[j] = (IF j = k THEN "intent" ELSE ledger[j])
                       /\ worker'[j] = (IF j = k THEN "entered" ELSE worker[j])
    BY <2>1
  <2>3. ~ Dead(k)
    BY <2>1 DEF Dead
  <2>4. \A j \in Key : Dead(j) => j # k /\ Dead(j)'
    BY <2>1, <2>2, <2>3 DEF Dead, Requested
  <2>5. /\ \A j \in Key : found[j] \in {"before", "after"} => Dead(j)'
        /\ query.at = "answered" /\ query.found \in {"before", "after"} =>
             query.key \in Key /\ Dead(query.key)
    BY <2>4
  <2> QED BY <2>1, <2>2, <2>3, <2>5 DEF Dead, Requested
<1>3. ASSUME NEW k \in Key, Finish(k) PROVE StagingSettled'
  BY <1>3 DEF Finish, Desired, ReplyTo, history, journal, Dead, Requested, Fits
<1>4. CASE Submit
  BY <1>4 DEF Submit, history, target, Dead, Requested, Fits
<1>5. CASE RecordAnswer
  BY <1>5 DEF RecordAnswer, NoQuery, Nobody, target, NoKey, Dead, Requested, Fits
<1>6. CASE GiveUp
  BY <1>6 DEF GiveUp, NoQuery, Nobody, history, journal, target, NoKey, Dead, Requested, Fits
<1>7. CASE Answer
  BY <1>7 DEF Answer, history, journal, Dead, Requested, Fits
<1>8. CASE Tryboot
  BY <1>8 DEF Tryboot, Restart, NoCommand, history, journal, Dead, Requested, Fits
<1>9. CASE Reboot
  BY <1>9 DEF Reboot, Restart, NoCommand, history, journal, Dead, Requested, Fits
<1>10. CASE PowerLoss
  BY <1>10 DEF PowerLoss, Restart, NoCommand, history, journal, Dead, Requested, Fits
<1>11. CASE UNCHANGED <<boot, found, ledger, query, request>>
  BY <1>11 DEF Dead, Requested
<1> HIDE DEF StagingInv, StagingAttempts, StagingHost, StagingOpen, StagingOrder, StagingSettled
<1> QED BY <1>1, <1>2, <1>3, <1>4, <1>5, <1>6, <1>7, <1>8, <1>9, <1>10, <1>11
      DEF Next, HostStep, TargetStep, Approve, Write, Stop, Acknowledge, ClaimTryboot,
          SendTryboot, SendRemoval, AcknowledgeRemoval, SendFstab, CheckTryboot, IssueTryboot,
          StopTryboot, EnterRemoval, RemoveImage, StopRemoval, RestoreFstab, Meddle, target,
          commands, journal, history

LEMMA StagingOpenKept == StagingInv /\ Next => StagingOpen'
<1> SUFFICES ASSUME StagingInv, Next PROVE StagingOpen'
  OBVIOUS
<1> USE StagingTypes, StagingTyped DEF StagingInv, StagingAttempts, StagingHost, StagingOpen,
      StagingOrder, StagingSettled
<1>1. ASSUME NEW k \in Key, Enter(k) PROVE StagingOpen'
  <2>1. /\ worker[k] = "sent" /\ request[k] = boot /\ ledger[k] = "none" /\ ~ Conflict(k[1])
        /\ \A j \in Key : ledger[j] # "intent"
        /\ ledger' = [ledger EXCEPT ![k] = "intent"]
        /\ worker' = [worker EXCEPT ![k] = "entered"]
        /\ UNCHANGED <<boot, file, onDisk, query, request, ack, found, host, meddled>>
    BY <1>1 DEF Enter, Running, journal
  <2>2. \A j \in Key : /\ ledger'[j] = (IF j = k THEN "intent" ELSE ledger[j])
                       /\ worker'[j] = (IF j = k THEN "entered" ELSE worker[j])
    BY <2>1
  <2>3. \A p \in Phase : file[p] = onDisk[p]
    BY <2>1
  <2> QED BY <2>1, <2>2, <2>3
<1>2. ASSUME NEW k \in Key, Write(k) PROVE StagingOpen'
  BY <1>2 DEF Write, Desired, history, journal, Requested, Dead, Fits
<1>3. ASSUME NEW k \in Key, Finish(k) PROVE StagingOpen'
  BY <1>3 DEF Finish, Desired, ReplyTo, history, journal, Requested, Dead, Fits
<1>4. CASE Answer
  BY <1>4 DEF Answer, history, journal, Requested, Dead, Fits
<1>5. CASE Tryboot
  BY <1>5 DEF Tryboot, Restart, NoCommand, history, journal, Requested, Dead, Fits
<1>6. CASE Reboot
  BY <1>6 DEF Reboot, Restart, NoCommand, history, journal, Requested, Dead, Fits
<1>7. CASE PowerLoss
  BY <1>7 DEF PowerLoss, Restart, NoCommand, history, journal, Requested, Dead, Fits
<1>8. ASSUME NEW p \in Phase, Meddle(p) PROVE StagingOpen'
  BY <1>8 DEF Meddle, commands, journal, Requested, Dead, Fits
<1>9. CASE UNCHANGED <<file, ledger, onDisk>>
  <2>1. \A p \in Phase : file[p] # onDisk[p] => \E k \in Key : k[1] = p /\ ledger[k] = "intent"
    OBVIOUS
  <2> QED BY <1>9, <2>1
<1> HIDE DEF StagingInv, StagingAttempts, StagingHost, StagingOpen, StagingOrder, StagingSettled
<1> QED BY <1>1, <1>2, <1>3, <1>4, <1>5, <1>6, <1>7, <1>8, <1>9
      DEF Next, HostStep, TargetStep, Approve, Ask, Stop, Submit, Acknowledge, RecordAnswer,
          GiveUp, ClaimTryboot, SendTryboot, SendRemoval, AcknowledgeRemoval, SendFstab,
          CheckTryboot, IssueTryboot, StopTryboot, EnterRemoval, RemoveImage, StopRemoval,
          RestoreFstab, target, commands, journal, history

LEMMA StagingOrderKept == StagingInv /\ Next => StagingOrder'
<1> SUFFICES ASSUME StagingInv, Next PROVE StagingOrder'
  OBVIOUS
<1> USE StagingTypes, StagingTyped DEF StagingInv, StagingAttempts, StagingHost, StagingOpen,
      StagingOrder, StagingSettled
<1>1. ASSUME NEW k \in Key, Enter(k) PROVE StagingOrder'
  <2>1. /\ worker[k] = "sent" /\ request[k] = boot /\ ledger[k] = "none" /\ ~ Conflict(k[1])
        /\ \A j \in Key : ledger[j] # "intent"
        /\ ledger' = [ledger EXCEPT ![k] = "intent"]
        /\ worker' = [worker EXCEPT ![k] = "entered"]
        /\ UNCHANGED <<boot, file, onDisk, query, request, ack, found, host, meddled>>
    BY <1>1 DEF Enter, Running, journal
  <2>2. \A j \in Key : /\ ledger'[j] = (IF j = k THEN "intent" ELSE ledger[j])
                       /\ worker'[j] = (IF j = k THEN "entered" ELSE worker[j])
    BY <2>1
  <2>3. ~ meddled => Fits(k[1])
    <3>1. k[1] \in 1..Phases /\ Phases \in Nat
      OBVIOUS
    <3>2. \A i \in Phase : /\ i < k[1] => i \in 1..(k[1] - 1)
                           /\ k[1] < i => i \in (k[1] + 1)..Phases
      BY <3>1
    <3> QED BY <2>1, <3>2 DEF Conflict, Fits
  <2>4. \A p : Fits(p)' <=> Fits(p)
    BY <2>1 DEF Fits
  <2> QED BY <2>1, <2>2, <2>3, <2>4
<1>2. ASSUME NEW k \in Key, Write(k) PROVE StagingOrder'
  BY <1>2 DEF Write, Desired, history, journal, Fits, Requested, Dead
<1>3. ASSUME NEW k \in Key, Finish(k) PROVE StagingOrder'
  BY <1>3 DEF Finish, Desired, ReplyTo, history, journal, Fits, Requested, Dead
<1>4. ASSUME NEW k \in Key, Stop(k) PROVE StagingOrder'
  BY <1>4 DEF Stop, history, journal, target, Fits, Requested, Dead
<1>5. CASE Submit
  BY <1>5 DEF Submit, history, target, Fits, Requested, Dead
<1>6. CASE Acknowledge
  BY <1>6 DEF Acknowledge, Nobody, target, NoKey, Fits, Requested, Dead
<1>7. CASE GiveUp
  BY <1>7 DEF GiveUp, NoQuery, Nobody, history, journal, target, NoKey, Fits, Requested, Dead
<1>8. CASE Tryboot
  BY <1>8 DEF Tryboot, Restart, NoCommand, history, journal, Fits, Requested, Dead
<1>9. CASE Reboot
  BY <1>9 DEF Reboot, Restart, NoCommand, history, journal, Fits, Requested, Dead
<1>10. CASE PowerLoss
  <2>1. PICK kept \in SUBSET Phase :
          file' = [p \in Phase |-> IF p \in kept THEN file[p] ELSE onDisk[p]]
    BY <1>10 DEF PowerLoss
  <2>2. /\ onDisk' = file' /\ meddled' = meddled
        /\ \A k \in Key : worker'[k] \notin {"entered", "wrote"}
    BY <1>10 DEF PowerLoss, Restart, history
  <2>3. \A p, q \in Phase : file[p] # onDisk[p] /\ file[q] # onDisk[q] => p = q
    OBVIOUS
  <2>4. \A p \in Phase : file'[p] \in {file[p], onDisk[p]}
    BY <2>1
  <2>5. ASSUME ~ meddled, NEW i \in Phase, NEW j \in Phase, i < j, file'[j] = "after"
        PROVE  file'[i] = "after"
    <3>1. file[i] = onDisk[i] \/ file[j] = onDisk[j]
      <4>1. i # j
        BY <2>5 DEF Phase
      <4> QED BY <4>1, <2>3
    <3>2. /\ file[j] = "after" => file[i] = "after"
          /\ onDisk[j] = "after" => onDisk[i] = "after"
      BY <2>5
    <3>3. file'[j] \in {file[j], onDisk[j]} /\ file'[i] \in {file[i], onDisk[i]}
      BY <2>4
    <3>4. CASE file[i] = onDisk[i]
      BY <3>2, <3>3, <3>4, <2>5
    <3>5. CASE file[j] = onDisk[j]
      BY <3>2, <3>3, <3>5, <2>5
    <3> QED BY <3>1, <3>4, <3>5
  <2>6. ASSUME ~ meddled, NEW p \in Phase PROVE file'[p] # "other"
    <3>1. file[p] # "other" /\ onDisk[p] # "other"
      BY <2>6
    <3>2. file'[p] = file[p] \/ file'[p] = onDisk[p]
      BY <2>4
    <3> QED BY <3>1, <3>2
  <2> QED BY <2>2, <2>5, <2>6
<1>11. ASSUME NEW p \in Phase, Meddle(p) PROVE StagingOrder'
  BY <1>11 DEF Meddle, commands, journal, Fits, Requested, Dead
<1>12. CASE UNCHANGED <<file, meddled, onDisk, worker>>
  <2>1. \A p \in Phase : Fits(p) => Fits(p)'
    BY <1>12 DEF Fits
  <2> QED BY <1>12, <2>1
<1> HIDE DEF StagingInv, StagingAttempts, StagingHost, StagingOpen, StagingOrder, StagingSettled
<1> QED BY <1>1, <1>2, <1>3, <1>4, <1>5, <1>6, <1>7, <1>8, <1>9, <1>10, <1>11, <1>12
      DEF Next, HostStep, TargetStep, Approve, Ask, RecordAnswer, ClaimTryboot, SendTryboot,
          SendRemoval, AcknowledgeRemoval, SendFstab, Answer, CheckTryboot, IssueTryboot,
          StopTryboot, EnterRemoval, RemoveImage, StopRemoval, RestoreFstab, target, commands,
          journal, history

LEMMA StagingStart == Init => StagingInv
<1> SUFFICES ASSUME Init PROVE StagingInv
  OBVIOUS
<1>1. TypeOK
  <2>1. /\ query \in [at : {"none", "sent", "answered"}, key : Key \cup {NoKey},
                      boot : 0..MaxBoot, found : {"none", "open", "before", "after"}]
        /\ host \in [at : {"idle", "approved", "waiting", "asking", "trying"},
                     key : Key \cup {NoKey}, boot : 0..MaxBoot]
        /\ remover \in Command /\ fstabber \in Command
    BY StagingTypes DEF Init, Command, NoCommand, NoQuery, Nobody
  <2>2. boot \in Boot /\ request \in [Key -> 0..MaxBoot]
    BY StagingTypes DEF Init, Boot
  <2>3. file \in [Phase -> Content] /\ onDisk \in [Phase -> Content]
    BY DEF Init, Content
  <2> QED BY <2>1, <2>2, <2>3 DEF Init, TypeOK
<1>2. StagingAttempts /\ StagingHost /\ StagingSettled
  BY StagingTypes DEF Init, StagingAttempts, StagingHost, StagingSettled, Requested, NoQuery,
     Nobody
<1>3. StagingOpen /\ StagingOrder
  BY StagingTypes DEF Init, StagingOpen, StagingOrder
<1> QED BY <1>1, <1>2, <1>3 DEF StagingInv

LEMMA StagingStep == StagingInv /\ [Next]_vars => StagingInv'
<1> SUFFICES ASSUME StagingInv, [Next]_vars PROVE StagingInv'
  OBVIOUS
<1>1. CASE Next
  BY <1>1, TypeOKKept, StagingAttemptsKept, StagingHostKept, StagingSettledKept,
     StagingOpenKept,
     StagingOrderKept DEF StagingInv
<1>2. CASE UNCHANGED vars
  BY <1>2
  DEF vars, target, commands, journal, history, StagingInv, TypeOK, StagingAttempts,
     StagingHost,
      StagingSettled, StagingOpen, StagingOrder, Requested, Dead, Fits
<1> QED BY <1>1, <1>2

(* For any number of phases and boots, with workers that start late, in a  *)
(* later boot or never and a power loss anywhere: the staged files are a   *)
(* prefix of the phases unless somebody else wrote one, and once no        *)
(* attempt is uncertain they are on the disk as they are read back.        *)
THEOREM StagedStaysSound == Spec => []StagedIsSound
<1>1. StagingInv => StagedIsAPrefix
  <2> SUFFICES ASSUME StagingInv, ~ meddled, NEW j \in Phase, NEW i \in 1..(j - 1)
               PROVE /\ file[j] = "after" => file[i] = "after"
                     /\ onDisk[j] = "after" => onDisk[i] = "after"
    BY DEF StagedIsAPrefix
  <2>1. i \in Phase /\ i < j
    BY StagingTypes
  <2> QED BY <2>1 DEF StagingInv, StagingOrder
<1>2. StagingInv => SettledIsDurable
  <2> SUFFICES ASSUME StagingInv, NothingUncertain PROVE file = onDisk
    BY DEF SettledIsDurable
  <2>1. \A k \in Key : ledger[k] # "intent"
    <3> SUFFICES ASSUME NEW k \in Key, ledger[k] = "intent" PROVE FALSE
      OBVIOUS
    <3>1. Requested(k) /\ k \notin ack /\ ~ Dead(k)
      BY DEF StagingInv, StagingAttempts, Dead
    <3>2. found[k] \notin {"before", "after"}
      BY <3>1 DEF StagingInv, StagingSettled
    <3> QED BY <3>1, <3>2 DEF NothingUncertain, Resolved
  <2>2. \A p \in Phase : file[p] = onDisk[p]
    BY <2>1 DEF StagingInv, StagingOpen
  <2> QED BY <2>2 DEF StagingInv, TypeOK
<1> QED BY <1>1, <1>2, StagingStart, StagingStep, PTL DEF Spec, StagedIsSound

(***************************************************************************)
(* The jobs that read the card.                                            *)
(***************************************************************************)
(* The types of the run's state, and the records that are functions.       *)
StorageTyped ==
  /\ B!TypeOK
  /\ DOMAIN read = Jobs /\ DOMAIN copy = Jobs /\ DOMAIN snap = Jobs

(* The device is the job's own from its opening to its receipt.            *)
StorageHeld ==
  \A j \in Jobs : reader[j] \in {"opened", "reading"} =>
    recovery /\ \A p \in B!Claims(kind[j]) : holder[p] = j

(* What has been read is what the card held when the device was opened.    *)
StorageRead ==
  \A j \in Jobs :
    /\ read[j] = [b \in DOMAIN read[j] |-> read[j][b]]
    /\ reader[j] \in {"none", "sent", "opened"} => DOMAIN read[j] = {}
    /\ reader[j] \in {"reading", "done"} =>
         /\ snap[j] = [b \in B!Scope(kind[j]) |-> snap[j][b]]
         /\ DOMAIN read[j] \subseteq B!Scope(kind[j])
         /\ \A b \in DOMAIN read[j] : read[j][b] = snap[j][b]
    /\ reader[j] = "reading" => \A b \in B!Scope(kind[j]) : snap[j][b] = card[b]
    /\ reader[j] = "done" => DOMAIN read[j] = B!Scope(kind[j])

(* The host's record rests on the worker's receipt and on the archive.     *)
StorageAccepted ==
  \A j \in Jobs :
    /\ caller[j] \in {"idle", "inspected"} => reader[j] = "none"
    /\ receipt[j] => reader[j] = "done"
    /\ caller[j] \in {"received", "reread"} \/ told[j] = "verified" => reader[j] = "done"
    /\ (caller[j] = "reread" \/ told[j] = "verified") /\ kind[j] # "storage-hash" =>
         copy[j] = read[j]
    /\ told[j] = "verified" => caller[j] = "over"

StorageInv == StorageTyped /\ StorageHeld /\ StorageRead /\ StorageAccepted

(* Only who holds a partition writes it while the target is in recovery.   *)
LEMMA ScopeIsClaimed ==
  ASSUME NEW k \in B!Kinds, NEW b \in B!Block
  PROVE  /\ b \in B!Scope(k) => B!Partition(b) \in B!Claims(k)
         /\ B!Scope(k) \subseteq B!Block /\ B!Scope(k) # {}
         /\ B!Claims(k) \subseteq {"boot", "root"} /\ B!Claims(k) # {}
  <1>1. B!Scope(k) \subseteq B!Block /\ 2 \in B!Scope(k)
    BY DEF B!Kinds, B!Scope, B!Block, B!Root
  <1>2. b \in B!Scope(k) => B!Partition(b) \in B!Claims(k)
    BY DEF B!Claims
  <1>3. B!Claims(k) \subseteq {"boot", "root"} /\ B!Partition(2) \in B!Claims(k)
    BY <1>1 DEF B!Claims, B!Partition
  <1> QED BY <1>1, <1>2, <1>3

(* The worker reads on where the blocks it has end.                        *)
LEMMA LeftHasALeast ==
  ASSUME NEW S \in SUBSET B!Block, S # {}
  PROVE  (CHOOSE x \in S : \A y \in S : x <= y) \in S
  <1>1. \E x \in S : \A y \in S : x <= y
    <2>1. \A y \in S : y = 1 \/ y = 2 \/ y = 3
      BY DEF B!Block
    <2>2. CASE 1 \in S
      BY <2>1, <2>2
    <2>3. CASE 1 \notin S /\ 2 \in S
      BY <2>1, <2>3
    <2>4. CASE 1 \notin S /\ 2 \notin S
      <3>1. \A y \in S : y = 3
        BY <2>1, <2>4
      <3> QED BY <3>1
    <2> QED BY <2>2, <2>3, <2>4
  <1> QED BY <1>1

LEMMA StorageTypedKept == StorageInv /\ B!Next => StorageTyped'
<1> SUFFICES ASSUME StorageInv, B!Next PROVE StorageTyped'
  OBVIOUS
<1> USE StorageAssumption DEF StorageInv, StorageTyped
<1>1. CASE B!Reset
  <2>1. /\ now' \in 1..MaxBoots /\ recovery' \in BOOLEAN
        /\ UNCHANGED <<card, writes, kind, of, caller, read, receipt, copy, snap, told>>
    BY <1>1 DEF B!Reset, B!job, B!TypeOK, B!JobsAssumption
  <2>2. holder' \in [{"boot", "root"} -> Jobs \cup {"none", "writer"}]
    BY <1>1 DEF B!Reset, B!TypeOK
  <2>3. reader' \in [Jobs -> {"none", "sent", "opened", "reading", "done", "dead"}]
    BY <1>1 DEF B!Reset, B!Alive, B!TypeOK
  <2> QED BY <2>1, <2>2, <2>3 DEF B!TypeOK
<1>2. ASSUME NEW p \in {"boot", "root"}, B!Take(p) PROVE StorageTyped'
  BY <1>2 DEF B!Take, B!job, B!TypeOK, B!Bit, B!Block, B!Kinds
<1>3. ASSUME NEW p \in {"boot", "root"}, B!Leave(p) PROVE StorageTyped'
  BY <1>3 DEF B!Leave, B!job, B!TypeOK, B!Bit, B!Block, B!Kinds
<1>4. ASSUME NEW b \in B!Block, B!Write(b) PROVE StorageTyped'
  <2>1. /\ writes' \in 0..MaxWrites
        /\ UNCHANGED <<now, recovery, holder, kind, of, caller, reader, read, receipt, copy,
                       snap, told>>
    BY <1>4 DEF B!Write, B!job, B!TypeOK, B!JobsAssumption
  <2>2. card' \in [B!Block -> B!Bit]
    <3>1. card[b] \in {0, 1}
      BY DEF B!TypeOK, B!Bit
    <3>2. 1 - card[b] \in B!Bit
      BY <3>1 DEF B!Bit
    <3>3. card' = [card EXCEPT ![b] = 1 - card[b]]
      BY <1>4 DEF B!Write
    <3> QED BY <3>2, <3>3 DEF B!TypeOK
  <2> QED BY <2>1, <2>2 DEF B!TypeOK
<1>5. ASSUME NEW j \in Jobs, B!Inspect(j) PROVE StorageTyped'
  BY <1>5 DEF B!Inspect, B!target, B!TypeOK, B!Bit, B!Block, B!Kinds
<1>6. ASSUME NEW j \in Jobs, B!Start(j) PROVE StorageTyped'
  BY <1>6 DEF B!Start, B!job, B!target, B!TypeOK, B!Bit, B!Block, B!Kinds
<1>7. ASSUME NEW j \in Jobs, B!Receive(j) PROVE StorageTyped'
  BY <1>7 DEF B!Receive, B!job, B!target, B!TypeOK, B!Bit, B!Block, B!Kinds
<1>8. ASSUME NEW j \in Jobs, B!Spoil(j) PROVE StorageTyped'
  BY <1>8 DEF B!Spoil, B!job, B!target, B!TypeOK, B!Bit, B!Block, B!Kinds
<1>9. ASSUME NEW j \in Jobs, B!Reread(j) PROVE StorageTyped'
  BY <1>9 DEF B!Reread, B!job, B!target, B!TypeOK, B!Bit, B!Block, B!Kinds
<1>10. ASSUME NEW j \in Jobs, B!Accept(j) PROVE StorageTyped'
  BY <1>10 DEF B!Accept, B!SameBoot, B!job, B!target, B!TypeOK, B!Bit, B!Block, B!Kinds
<1>11. ASSUME NEW j \in Jobs, B!HostFails(j) PROVE StorageTyped'
  BY <1>11 DEF B!HostFails, B!job, B!target, B!TypeOK, B!Bit, B!Block, B!Kinds
<1>12. ASSUME NEW j \in Jobs, B!Open(j) PROVE StorageTyped'
  BY <1>12 DEF B!Open, B!Claims, B!SameBoot, B!job, B!Partition, B!Scope, B!Root, B!Block,
      B!TypeOK, B!Bit, B!Kinds
<1>13. ASSUME NEW j \in Jobs, B!Begin(j) PROVE StorageTyped'
  BY <1>13 DEF B!Begin, B!Cut, B!SameBoot, B!job, B!target, B!Scope, B!Block, B!Root, B!TypeOK,
      B!Bit, B!Kinds
<1>14. ASSUME NEW j \in Jobs, B!ReadBlock(j) PROVE StorageTyped'
  BY <1>14 DEF B!ReadBlock, B!Left, B!job, B!target, B!Scope, B!Block, B!Root, B!TypeOK, B!Bit,
      B!Kinds
<1>15. ASSUME NEW j \in Jobs, B!Finish(j) PROVE StorageTyped'
  BY <1>15 DEF B!Finish, B!Left, B!Release, B!SameBoot, B!job, B!Scope, B!Block, B!Root,
      B!TypeOK, B!Bit, B!Kinds
<1>16. ASSUME NEW j \in Jobs, B!WorkerDies(j) PROVE StorageTyped'
  BY <1>16 DEF B!WorkerDies, B!Alive, B!Release, B!job, B!TypeOK, B!Bit, B!Block, B!Kinds
<1> HIDE DEF StorageInv, StorageTyped
<1> QED BY <1>1, <1>2, <1>3, <1>4, <1>5, <1>6, <1>7, <1>8, <1>9, <1>10, <1>11, <1>12, <1>13,
      <1>14, <1>15, <1>16
      DEF B!Next

LEMMA StorageHeldKept == StorageInv /\ B!Next => StorageHeld'
<1> SUFFICES ASSUME StorageInv, B!Next PROVE StorageHeld'
  OBVIOUS
<1> USE StorageAssumption DEF StorageInv, StorageAccepted, StorageHeld, StorageRead,
      StorageTyped
<1>1. CASE B!Reset
  BY <1>1 DEF B!Reset, B!Alive, B!job, B!Root, B!TypeOK, B!Bit
<1>2. ASSUME NEW p \in {"boot", "root"}, B!Take(p) PROVE StorageHeld'
  <2>1. \A i \in Jobs : /\ i # "none" /\ i # "writer"
                       /\ B!Claims(kind[i]) \subseteq DOMAIN holder
    <3>1. 1 \in B!Block
      BY DEF B!Block
    <3> QED BY <3>1, ScopeIsClaimed DEF B!TypeOK, B!JobsAssumption
  <2> SUFFICES ASSUME NEW i \in Jobs, reader'[i] \in {"opened", "reading"}
               PROVE  recovery' /\ \A q \in B!Claims(kind'[i]) : holder'[q] = i
    OBVIOUS
  <2>2. /\ holder[p] = "none" /\ UNCHANGED <<recovery, kind, reader>>
        /\ holder' = [holder EXCEPT ![p] = "writer"]
    BY <1>2 DEF B!Take, B!job
  <2>3. \A q \in B!Claims(kind[i]) : q \in DOMAIN holder /\ holder[q] = i
    BY <2>1, <2>2
  <2> QED BY <2>1, <2>2, <2>3
<1>3. ASSUME NEW p \in {"boot", "root"}, B!Leave(p) PROVE StorageHeld'
  <2>1. \A i \in Jobs : /\ i # "none" /\ i # "writer"
                       /\ B!Claims(kind[i]) \subseteq DOMAIN holder
    <3>1. 1 \in B!Block
      BY DEF B!Block
    <3> QED BY <3>1, ScopeIsClaimed DEF B!TypeOK, B!JobsAssumption
  <2> SUFFICES ASSUME NEW i \in Jobs, reader'[i] \in {"opened", "reading"}
               PROVE  recovery' /\ \A q \in B!Claims(kind'[i]) : holder'[q] = i
    OBVIOUS
  <2>2. /\ holder[p] = "writer" /\ UNCHANGED <<recovery, kind, reader>>
        /\ holder' = [holder EXCEPT ![p] = "none"]
    BY <1>3 DEF B!Leave, B!job
  <2>3. \A q \in B!Claims(kind[i]) : q \in DOMAIN holder /\ holder[q] = i
    BY <2>1, <2>2
  <2> QED BY <2>1, <2>2, <2>3
<1>4. ASSUME NEW j \in Jobs, B!Start(j) PROVE StorageHeld'
  BY <1>4 DEF B!Start, B!job, B!target, B!Root, B!TypeOK, B!Bit
<1>5. ASSUME NEW j \in Jobs, B!Open(j) PROVE StorageHeld'
  <2>1. \A i \in Jobs : /\ i # "none" /\ i # "writer"
                       /\ B!Claims(kind[i]) \subseteq DOMAIN holder
    <3>1. 1 \in B!Block
      BY DEF B!Block
    <3> QED BY <3>1, ScopeIsClaimed DEF B!TypeOK, B!JobsAssumption
  <2> SUFFICES ASSUME NEW i \in Jobs, reader'[i] \in {"opened", "reading"}
               PROVE  recovery' /\ \A q \in B!Claims(kind'[i]) : holder'[q] = i
    OBVIOUS
  <2>2. /\ recovery /\ UNCHANGED <<recovery, kind>>
        /\ \A p \in B!Claims(kind[j]) : holder[p] = "none"
        /\ holder' = [p \in DOMAIN holder |-> IF p \in B!Claims(kind[j]) THEN j ELSE holder[p]]
        /\ reader' = [reader EXCEPT ![j] = "opened"]
    BY <1>5 DEF B!Open, B!SameBoot, B!job
  <2>3. CASE i = j
    BY <2>1, <2>2, <2>3
  <2>4. CASE i # j
    <3>1. \A q \in B!Claims(kind[i]) : q \in DOMAIN holder /\ holder[q] = i
      BY <2>1, <2>2, <2>4 DEF B!TypeOK
    <3>2. reader[i] = reader'[i]
      BY <2>2, <2>4 DEF B!TypeOK
    <3> QED BY <2>1, <2>2, <3>1, <3>2
  <2> QED BY <2>3, <2>4
<1>6. ASSUME NEW j \in Jobs, B!Begin(j) PROVE StorageHeld'
  BY <1>6 DEF B!Begin, B!SameBoot, B!job, B!target, B!Root, B!TypeOK, B!Bit
<1>7. ASSUME NEW j \in Jobs, B!Finish(j) PROVE StorageHeld'
  <2>1. \A i \in Jobs : /\ i # "none" /\ i # "writer"
                       /\ B!Claims(kind[i]) \subseteq DOMAIN holder
    <3>1. 1 \in B!Block
      BY DEF B!Block
    <3> QED BY <3>1, ScopeIsClaimed DEF B!TypeOK, B!JobsAssumption
  <2> SUFFICES ASSUME NEW i \in Jobs, reader'[i] \in {"opened", "reading"}
               PROVE  recovery' /\ \A q \in B!Claims(kind'[i]) : holder'[q] = i
    OBVIOUS
  <2>2. /\ recovery' = recovery /\ kind' = kind
        /\ reader' = [reader EXCEPT ![j] = "done"]
        /\ holder' = [p \in DOMAIN holder |-> IF holder[p] = j THEN "none" ELSE holder[p]]
    BY <1>7 DEF B!Finish, B!Release, B!job
  <2>3. i # j /\ reader[i] = reader'[i]
    BY <2>2 DEF B!TypeOK
  <2>4. \A q \in B!Claims(kind[i]) : q \in DOMAIN holder /\ holder[q] = i
    BY <2>1, <2>3
  <2> QED BY <2>2, <2>3, <2>4
<1>8. ASSUME NEW j \in Jobs, B!WorkerDies(j) PROVE StorageHeld'
  <2>1. \A i \in Jobs : /\ i # "none" /\ i # "writer"
                       /\ B!Claims(kind[i]) \subseteq DOMAIN holder
    <3>1. 1 \in B!Block
      BY DEF B!Block
    <3> QED BY <3>1, ScopeIsClaimed DEF B!TypeOK, B!JobsAssumption
  <2> SUFFICES ASSUME NEW i \in Jobs, reader'[i] \in {"opened", "reading"}
               PROVE  recovery' /\ \A q \in B!Claims(kind'[i]) : holder'[q] = i
    OBVIOUS
  <2>2. /\ recovery' = recovery /\ kind' = kind
        /\ reader' = [reader EXCEPT ![j] = "dead"]
        /\ holder' = [p \in DOMAIN holder |-> IF holder[p] = j THEN "none" ELSE holder[p]]
    BY <1>8 DEF B!WorkerDies, B!Release, B!job
  <2>3. i # j /\ reader[i] = reader'[i]
    BY <2>2 DEF B!TypeOK
  <2>4. \A q \in B!Claims(kind[i]) : q \in DOMAIN holder /\ holder[q] = i
    BY <2>1, <2>3
  <2> QED BY <2>2, <2>3, <2>4
<1>9. CASE UNCHANGED <<holder, kind, reader, recovery>>
  BY <1>9 DEF B!Root
<1> HIDE DEF StorageInv, StorageAccepted, StorageHeld, StorageRead, StorageTyped
<1> QED BY <1>1, <1>2, <1>3, <1>4, <1>5, <1>6, <1>7, <1>8, <1>9
      DEF B!Next, B!Write, B!Inspect, B!Receive, B!Spoil, B!Reread, B!Accept, B!HostFails,
          B!ReadBlock, B!job, B!target

LEMMA StorageReadKept == StorageInv /\ B!Next => StorageRead'
<1> SUFFICES ASSUME StorageInv, B!Next PROVE StorageRead'
  OBVIOUS
<1> USE StorageAssumption DEF StorageInv, StorageAccepted, StorageHeld, StorageRead,
      StorageTyped
<1>1. CASE B!Reset
  BY <1>1 DEF B!Reset, B!Alive, B!job, B!Root, B!TypeOK, B!Bit
<1>2. ASSUME NEW b \in B!Block, B!Write(b) PROVE StorageRead'
  <2>1. /\ ~ recovery \/ holder[B!Partition(b)] = "writer"
        /\ card' = [card EXCEPT ![b] = 1 - @] /\ UNCHANGED <<kind, reader, read, snap>>
    BY <1>2 DEF B!Write, B!job
  <2>2. ASSUME NEW i \in Jobs, reader[i] = "reading", NEW c \in B!Scope(kind[i])
        PROVE  c \in B!Block /\ c # b
    <3>1. kind[i] \in B!Kinds /\ i # "writer"
      BY DEF B!TypeOK, B!JobsAssumption
    <3>2. c \in B!Block /\ B!Partition(c) \in B!Claims(kind[i])
      BY <2>2, <3>1, ScopeIsClaimed
    <3>3. recovery /\ holder[B!Partition(c)] = i
      BY <2>2, <3>2
    <3> QED BY <2>1, <3>1, <3>2, <3>3
  <2>3. \A i \in Jobs : reader[i] = "reading" => \A c \in B!Scope(kind[i]) : card'[c] = card[c]
    BY <2>1, <2>2 DEF B!TypeOK
  <2> QED BY <2>1, <2>3
<1>3. ASSUME NEW j \in Jobs, B!Start(j) PROVE StorageRead'
  BY <1>3 DEF B!Start, B!job, B!target, B!Root, B!TypeOK, B!Bit
<1>4. ASSUME NEW j \in Jobs, B!Open(j) PROVE StorageRead'
  BY <1>4 DEF B!Open, B!SameBoot, B!job, B!Root, B!TypeOK, B!Bit
<1>5. ASSUME NEW j \in Jobs, B!Begin(j) PROVE StorageRead'
  <2>1. /\ reader[j] = "opened" /\ reader' = [reader EXCEPT ![j] = "reading"]
        /\ snap' = [snap EXCEPT ![j] = B!Cut(card, kind[j])]
        /\ UNCHANGED <<card, kind, read>>
    BY <1>5 DEF B!Begin, B!target, B!job
  <2>2. snap'[j] = [c \in B!Scope(kind[j]) |-> card[c]] /\ DOMAIN read[j] = {}
    BY <2>1 DEF B!Cut
  <2>3. /\ reader'[j] = "reading"
        /\ \A i \in Jobs \ {j} : reader'[i] = reader[i] /\ snap'[i] = snap[i]
    BY <2>1 DEF B!TypeOK
  <2>4. \A c \in B!Scope(kind[j]) : snap'[j][c] = card[c]
    BY <2>2
  <2>5. snap'[j] = [c \in B!Scope(kind[j]) |-> snap'[j][c]]
    BY <2>2, <2>4
  <2> QED BY <2>1, <2>2, <2>3, <2>4, <2>5
<1>6. ASSUME NEW j \in Jobs, B!ReadBlock(j) PROVE StorageRead'
  <2> DEFINE b == CHOOSE x \in B!Left(j) : \A y \in B!Left(j) : x <= y
  <2>1. /\ reader[j] = "reading" /\ B!Left(j) # {}
        /\ read' = [read EXCEPT ![j] =
              [x \in DOMAIN read[j] \cup {b} |-> IF x = b THEN card[b] ELSE read[j][x]]]
        /\ UNCHANGED <<card, kind, reader, snap>>
    BY <1>6 DEF B!ReadBlock, B!target, B!job
  <2>2. b \in B!Scope(kind[j])
    <3>1. kind[j] \in B!Kinds /\ 1 \in B!Block
      BY DEF B!TypeOK, B!Block
    <3>2. B!Scope(kind[j]) \subseteq B!Block
      BY <3>1, ScopeIsClaimed
    <3>3. B!Left(j) \in SUBSET B!Block /\ B!Left(j) \subseteq B!Scope(kind[j])
      BY <3>2 DEF B!Left
    <3>4. b \in B!Left(j)
      BY <2>1, <3>3, LeftHasALeast
    <3> QED BY <3>3, <3>4
  <2>3. card[b] = snap[j][b]
    BY <2>1, <2>2
  <2> HIDE DEF b
  <2>4. read'[j] = [x \in DOMAIN read[j] \cup {b} |-> IF x = b THEN card[b] ELSE read[j][x]]
    BY <2>1
  <2>5. /\ DOMAIN read'[j] = DOMAIN read[j] \cup {b}
        /\ \A x \in DOMAIN read'[j] : read'[j][x] = snap[j][x]
    BY <2>1, <2>3, <2>4
  <2>6. read'[j] = [x \in DOMAIN read'[j] |-> read'[j][x]]
    BY <2>4
  <2>7. \A i \in Jobs \ {j} : read'[i] = read[i]
    BY <2>1
  <2> SUFFICES ASSUME NEW i \in Jobs
               PROVE  /\ read'[i] = [c \in DOMAIN read'[i] |-> read'[i][c]]
                      /\ reader'[i] \in {"none", "sent", "opened"} => DOMAIN read'[i] = {}
                      /\ reader'[i] \in {"reading", "done"} =>
                           /\ snap'[i] = [c \in B!Scope(kind'[i]) |-> snap'[i][c]]
                           /\ DOMAIN read'[i] \subseteq B!Scope(kind'[i])
                           /\ \A c \in DOMAIN read'[i] : read'[i][c] = snap'[i][c]
                      /\ reader'[i] = "reading" =>
                           \A c \in B!Scope(kind'[i]) : snap'[i][c] = card'[c]
                      /\ reader'[i] = "done" => DOMAIN read'[i] = B!Scope(kind'[i])
    OBVIOUS
  <2>8. CASE i = j
    <3>1. DOMAIN read[j] \subseteq B!Scope(kind[j])
      BY <2>1
    <3>2. DOMAIN read'[j] \subseteq B!Scope(kind[j])
      BY <3>1, <2>2, <2>5
    <3> QED BY <2>1, <2>5, <2>6, <2>8, <3>2
  <2>9. CASE i # j
    <3>1. read'[i] = read[i]
      BY <2>7, <2>9
    <3>2. UNCHANGED <<card, kind, reader, snap>>
      BY <2>1
    <3>3. read[i] = [c \in DOMAIN read[i] |-> read[i][c]]
      OBVIOUS
    <3>4. /\ reader[i] \in {"none", "sent", "opened"} => DOMAIN read[i] = {}
          /\ reader[i] \in {"reading", "done"} =>
               /\ snap[i] = [c \in B!Scope(kind[i]) |-> snap[i][c]]
               /\ DOMAIN read[i] \subseteq B!Scope(kind[i])
               /\ \A c \in DOMAIN read[i] : read[i][c] = snap[i][c]
          /\ reader[i] = "reading" => \A c \in B!Scope(kind[i]) : snap[i][c] = card[c]
          /\ reader[i] = "done" => DOMAIN read[i] = B!Scope(kind[i])
      OBVIOUS
    <3>5. read'[i] = [c \in DOMAIN read'[i] |-> read'[i][c]]
      BY <3>1, <3>3
    <3> QED BY <3>1, <3>2, <3>4, <3>5
  <2> QED BY <2>8, <2>9
<1>7. ASSUME NEW j \in Jobs, B!Finish(j) PROVE StorageRead'
  BY <1>7 DEF B!Finish, B!Left, B!Release, B!SameBoot, B!job, B!Root, B!TypeOK, B!Bit
<1>8. ASSUME NEW j \in Jobs, B!WorkerDies(j) PROVE StorageRead'
  BY <1>8 DEF B!WorkerDies, B!Alive, B!Release, B!job, B!Root, B!TypeOK, B!Bit
<1>9. CASE UNCHANGED <<card, kind, read, reader, snap>>
  BY <1>9 DEF B!Root
<1> HIDE DEF StorageInv, StorageAccepted, StorageHeld, StorageRead, StorageTyped
<1> QED BY <1>1, <1>2, <1>3, <1>4, <1>5, <1>6, <1>7, <1>8, <1>9
      DEF B!Next, B!Take, B!Leave, B!Inspect, B!Receive, B!Spoil, B!Reread, B!Accept,
          B!HostFails, B!job, B!target

LEMMA StorageAcceptedKept == StorageInv /\ B!Next => StorageAccepted'
<1> SUFFICES ASSUME StorageInv, B!Next PROVE StorageAccepted'
  OBVIOUS
<1> USE StorageAssumption DEF StorageInv, StorageAccepted, StorageHeld, StorageRead,
      StorageTyped
<1>1. CASE B!Reset
  BY <1>1 DEF B!Reset, B!Alive, B!job, B!TypeOK, B!Bit, B!Root
<1>2. ASSUME NEW j \in Jobs, B!Inspect(j) PROVE StorageAccepted'
  BY <1>2 DEF B!Inspect, B!target, B!TypeOK, B!Bit, B!Root
<1>3. ASSUME NEW j \in Jobs, B!Start(j) PROVE StorageAccepted'
  BY <1>3 DEF B!Start, B!job, B!target, B!TypeOK, B!Bit, B!Root
<1>4. ASSUME NEW j \in Jobs, B!Receive(j) PROVE StorageAccepted'
  BY <1>4 DEF B!Receive, B!job, B!target, B!TypeOK, B!Bit, B!Root
<1>5. ASSUME NEW j \in Jobs, B!Spoil(j) PROVE StorageAccepted'
  BY <1>5 DEF B!Spoil, B!job, B!target, B!TypeOK, B!Bit, B!Root
<1>6. ASSUME NEW j \in Jobs, B!Reread(j) PROVE StorageAccepted'
  BY <1>6 DEF B!Reread, B!job, B!target, B!TypeOK, B!Bit, B!Root
<1>7. ASSUME NEW j \in Jobs, B!Accept(j) PROVE StorageAccepted'
  BY <1>7 DEF B!Accept, B!SameBoot, B!job, B!target, B!TypeOK, B!Bit, B!Root
<1>8. ASSUME NEW j \in Jobs, B!HostFails(j) PROVE StorageAccepted'
  BY <1>8 DEF B!HostFails, B!job, B!target, B!TypeOK, B!Bit, B!Root
<1>9. ASSUME NEW j \in Jobs, B!Open(j) PROVE StorageAccepted'
  BY <1>9 DEF B!Open, B!SameBoot, B!job, B!Root, B!TypeOK, B!Bit
<1>10. ASSUME NEW j \in Jobs, B!Begin(j) PROVE StorageAccepted'
  BY <1>10 DEF B!Begin, B!SameBoot, B!job, B!target, B!Root, B!TypeOK, B!Bit
<1>11. ASSUME NEW j \in Jobs, B!ReadBlock(j) PROVE StorageAccepted'
  BY <1>11 DEF B!ReadBlock, B!Left, B!job, B!target, B!Root, B!TypeOK, B!Bit
<1>12. ASSUME NEW j \in Jobs, B!Finish(j) PROVE StorageAccepted'
  BY <1>12 DEF B!Finish, B!Left, B!Release, B!SameBoot, B!job, B!Root, B!TypeOK, B!Bit
<1>13. ASSUME NEW j \in Jobs, B!WorkerDies(j) PROVE StorageAccepted'
  BY <1>13 DEF B!WorkerDies, B!Alive, B!Release, B!job, B!TypeOK, B!Bit, B!Root
<1>14. CASE UNCHANGED <<caller, copy, kind, read, reader, receipt, told>>
  BY <1>14
<1> HIDE DEF StorageInv, StorageAccepted, StorageHeld, StorageRead, StorageTyped
<1> QED BY <1>1, <1>2, <1>3, <1>4, <1>5, <1>6, <1>7, <1>8, <1>9, <1>10, <1>11, <1>12, <1>13,
      <1>14
      DEF B!Next, B!Take, B!Leave, B!Write, B!job

LEMMA StorageStarts == B!Init => StorageInv
  BY StorageAssumption DEF B!Init, StorageInv, StorageTyped, StorageHeld, StorageRead,
     StorageAccepted,
     B!TypeOK, B!JobsAssumption, B!Block, B!Bit, B!Nothing

LEMMA StorageStays == StorageInv /\ [B!Next]_B!vars => StorageInv'
<1> SUFFICES ASSUME StorageInv, [B!Next]_B!vars PROVE StorageInv'
  OBVIOUS
<1>1. CASE B!Next
  BY <1>1, StorageTypedKept, StorageHeldKept, StorageReadKept,
     StorageAcceptedKept DEF StorageInv
<1>2. CASE UNCHANGED B!vars
  BY <1>2 DEF StorageInv, StorageTyped, StorageHeld, StorageRead, StorageAccepted,
     B!vars, B!target, B!job, B!TypeOK
<1> QED BY <1>1, <1>2

(* A record that is verified, its archive and its digests are what the     *)
(* card held at one moment of the boot it was approved for: every job and  *)
(* any number of boots and of writes beside it.                            *)
THEOREM SnapshotStaysWhole == B!Spec => []SnapshotIsWhole
<1>1. StorageInv => SnapshotIsWhole
  <2> SUFFICES ASSUME StorageInv, NEW j \in Jobs, told[j] = "verified"
               PROVE  /\ read[j] = snap[j] /\ DOMAIN read[j] = B!Scope(kind[j])
                      /\ kind[j] # "storage-hash" => copy[j] = snap[j]
    BY DEF SnapshotIsWhole, B!SnapshotIsWhole
  <2>1. reader[j] = "done" /\ (kind[j] # "storage-hash" => copy[j] = read[j])
    BY DEF StorageInv, StorageAccepted
  <2>2. /\ read[j] = [b \in B!Scope(kind[j]) |-> read[j][b]]
        /\ snap[j] = [b \in B!Scope(kind[j]) |-> snap[j][b]]
        /\ DOMAIN read[j] = B!Scope(kind[j])
        /\ \A b \in B!Scope(kind[j]) : read[j][b] = snap[j][b]
    BY <2>1 DEF StorageInv, StorageRead
  <2>3. read[j] = snap[j]
    BY <2>2
  <2> QED BY <2>1, <2>2, <2>3
<1> QED BY <1>1, StorageStarts, StorageStays, PTL DEF B!Spec
=============================================================================
