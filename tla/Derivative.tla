----------------------------- MODULE Derivative -----------------------------
(***************************************************************************)
(* A modified image of the card, from its export to the stream that        *)
(* deploys its root: the comparison with the retained backup that seals    *)
(* its manifest (forge_derivative_prepare, forge_recovery_derivative), the *)
(* check of a copy of its root (forge_recovery_derivative_health), the     *)
(* deployment plan (forge_recovery_deploy_plan) and the delivery of the    *)
(* chunks.                                                                 *)
(*                                                                         *)
(* A block of the retained card is 0, a modified one 1: the first block    *)
(* belongs to the protected ranges, the others are the root.  The image,   *)
(* the archive and the copy may be changed from outside at any moment; any *)
(* such change changes the file's fingerprint, here its stamp.  A checksum *)
(* is the bytes it is of.                                                  *)
(***************************************************************************)
EXTENDS Naturals, Sequences

CONSTANT MaxChanges   \* bound on changes from outside

Block == 1..3
Root == 2..3
Original == <<0, 0, 0>>
Names == {"image", "archive", "copy"}

VARIABLES
  bytes, stamp,   \* of the three files
  changes,
  flow,           \* the owner's operation and how far it is
  reviewed,       \* the stamp of the image the owner reviewed, <<>> before
  pass,           \* the bytes being read: "none", "qualify", "copy", "rehash", "deploy"
  opened,         \* the stamps of the files when the pass opened them
  seen, base,     \* the blocks of the image (or copy) and of the archive it has read
  manifest,       \* [image, stamp], <<>> before: the sealed chunks and the identity
  prepared,       \* the owner's preparation is accepted
  checkedOn,      \* the root the checker ran on
  health,         \* acceptance of the check: "none", "clean", "errors"
  plan,           \* the deployment plan is compiled
  sent,           \* the chunks the restoration worker was given
  delivered

files == <<bytes, stamp, changes>>
evidence == <<manifest, prepared, checkedOn, health, plan>>
delivery == <<sent, delivered>>
vars == <<files, flow, reviewed, pass, opened, seen, base, evidence, delivery>>

RootOf(image) == [i \in 1..2 |-> image[i + 1]]

TypeOK ==
  /\ bytes \in [Names -> [Block -> {0, 1}]] /\ stamp \in [Names -> Nat] /\ changes \in 0..MaxChanges
  /\ flow \in {"idle", "prepare", "sealed", "health", "copied", "rehashed", "checking", "deploy"}
  /\ pass \in {"none", "qualify", "copy", "rehash", "deploy"}
  /\ health \in {"none", "clean", "errors"} /\ plan \in BOOLEAN /\ delivered \in BOOLEAN

Init ==
  /\ \E image \in [Block -> {0, 1}] :
       bytes = [n \in Names |-> IF n = "image" THEN image ELSE Original]
  /\ stamp = [n \in Names |-> 0] /\ changes = 0
  /\ flow = "idle" /\ reviewed = <<>> /\ pass = "none"
  /\ opened = stamp /\ seen = <<>> /\ base = <<>>
  /\ manifest = <<>> /\ prepared = FALSE /\ checkedOn = <<>> /\ health = "none" /\ plan = FALSE
  /\ sent = <<>> /\ delivered = FALSE

-----------------------------------------------------------------------------
Change(n, b) ==
  /\ changes < MaxChanges /\ changes' = changes + 1
  /\ bytes' = [bytes EXCEPT ![n][b] = 1 - @] /\ stamp' = [stamp EXCEPT ![n] = @ + 1]
  /\ UNCHANGED <<flow, reviewed, pass, opened, seen, base, evidence, delivery>>

(* The archive the original manifest binds, by its fingerprint and records *)
Bound == stamp["archive"] = 0
Same(n) == stamp[n] = opened[n]

(* inputs: the pinned source, the rollback archive and the export.         *)
Review ==
  /\ flow = "idle" /\ reviewed = <<>> /\ Bound /\ reviewed' = <<stamp["image"]>>
  /\ UNCHANGED <<files, flow, pass, opened, seen, base, evidence, delivery>>
AsReviewed == Bound /\ reviewed = <<stamp["image"]>>

Start(p) == pass' = p /\ opened' = stamp /\ seen' = <<>> /\ base' = <<>>
Stop == pass' = "none" /\ seen' = <<>> /\ base' = <<>> /\ UNCHANGED opened

Prepare ==
  /\ flow = "idle" /\ ~ prepared /\ AsReviewed /\ flow' = "prepare" /\ Start("qualify")
  /\ manifest' = <<>>
  /\ UNCHANGED <<files, reviewed, prepared, checkedOn, health, plan, delivery>>

Fails ==
  /\ flow # "idle" /\ flow' = "idle" /\ Stop
  /\ UNCHANGED <<files, reviewed, evidence, delivery>>

-----------------------------------------------------------------------------
(* Qualification: image and archive are read side by side.                 *)

Compares(b, was, is) == IF b \in Root THEN was = Original[b] ELSE was = is

QualifyBlock ==
  /\ pass = "qualify" /\ Len(seen) < 3
  /\ LET b == Len(seen) + 1 IN
       /\ Compares(b, bytes["archive"][b], bytes["image"][b])
       /\ seen' = Append(seen, bytes["image"][b]) /\ base' = Append(base, bytes["archive"][b])
  /\ UNCHANGED <<files, flow, reviewed, pass, opened, evidence, delivery>>

(* Both checksums, the image as it was opened, the archive and its records *)
(* as they were: only then the manifest is written.                        *)
Seal ==
  /\ pass = "qualify" /\ Len(seen) = 3 /\ base = Original /\ Same("image") /\ Same("archive")
  /\ manifest' = [image |-> seen, stamp |-> opened["image"]]
  /\ flow' = "sealed" /\ Stop
  /\ UNCHANGED <<files, reviewed, prepared, checkedOn, health, plan, delivery>>

AcceptPreparation ==
  /\ flow = "sealed" /\ AsReviewed /\ prepared' = TRUE /\ flow' = "idle"
  /\ UNCHANGED <<files, reviewed, pass, opened, seen, base, manifest, checkedOn, health, plan, delivery>>

-----------------------------------------------------------------------------
(* stream: the chunks of the sealed image, for a copy or for the target.   *)

(* load: the manifest with its pin, its inputs and its receipt.            *)
Loaded == manifest # <<>> /\ prepared

OpenStream(p) ==
  /\ Loaded /\ Bound /\ stamp["image"] = manifest.stamp /\ Start(p)

(* The protected bytes before the chunks; a chunk before it is consumed.   *)
Matches(b, value) == value = manifest.image[b]

Stream(b) ==
  /\ pass \in {"copy", "deploy"} /\ Len(seen) < 3 /\ b = Len(seen) + 1
  /\ Matches(b, bytes["image"][b]) /\ seen' = Append(seen, bytes["image"][b])
  /\ IF b \notin Root THEN UNCHANGED <<bytes, stamp, sent>>
     ELSE IF pass = "copy" THEN
       /\ bytes' = [bytes EXCEPT !["copy"][b] = bytes["image"][b]] /\ UNCHANGED <<stamp, sent>>
     ELSE sent' = Append(sent, bytes["image"][b]) /\ UNCHANGED <<bytes, stamp>>
  /\ UNCHANGED <<changes, flow, reviewed, pass, opened, base, evidence, delivered>>

StreamEnds == Len(seen) = 3 /\ seen = manifest.image /\ Same("image") /\ Same("archive")

-----------------------------------------------------------------------------
(* inspect_root: a copy, its checksum, and e2fsck on what was summed.      *)

BeginHealth ==
  /\ flow = "idle" /\ health = "none" /\ OpenStream("copy") /\ flow' = "health"
  /\ UNCHANGED <<files, reviewed, evidence, delivery>>
EndCopy ==
  /\ pass = "copy" /\ StreamEnds /\ flow' = "copied" /\ pass' = "none"
  /\ opened' = [opened EXCEPT !["copy"] = stamp["copy"]] /\ seen' = <<>> /\ UNCHANGED base
  /\ UNCHANGED <<files, reviewed, evidence, delivery>>
(* The open file is the one that was written.                              *)
BeginRehash ==
  /\ flow = "copied" /\ Same("copy") /\ flow' = "rehashed" /\ pass' = "rehash" /\ seen' = <<0>>
  /\ UNCHANGED <<files, reviewed, opened, base, evidence, delivery>>
RehashBlock ==
  /\ pass = "rehash" /\ Len(seen) < 3 /\ seen' = Append(seen, bytes["copy"][Len(seen) + 1])
  /\ UNCHANGED <<files, flow, reviewed, pass, opened, base, evidence, delivery>>
CheckUnhashed ==
  /\ pass = "rehash" /\ Len(seen) = 3
  /\ checkedOn' = RootOf(bytes["copy"]) /\ flow' = "checking" /\ Stop
  /\ UNCHANGED <<files, reviewed, manifest, prepared, health, plan, delivery>>
Check ==
  /\ pass = "rehash" /\ Len(seen) = 3 /\ RootOf(seen) = RootOf(manifest.image)
  /\ checkedOn' = RootOf(bytes["copy"]) /\ flow' = "checking" /\ Stop
  /\ UNCHANGED <<files, reviewed, manifest, prepared, health, plan, delivery>>
AcceptHealth ==
  /\ flow = "checking" /\ Same("copy") /\ health' \in {"clean", "errors"} /\ flow' = "idle"
  /\ UNCHANGED <<files, reviewed, pass, opened, seen, base, manifest, prepared, checkedOn, plan, delivery>>

(* read_health: the pinned receipt, with the stream and the checker it is   *)
(* of.                                                                     *)
Healthy == health = "clean"

(* compile_plan: pinned clean health of this manifest, a card whose root   *)
(* is still the retained one, and something that changes.                  *)
ChangedChunks == {b \in Root : manifest.image[b] # Original[b]}
CompilePlan ==
  /\ flow = "idle" /\ Loaded /\ Healthy /\ ChangedChunks # {} /\ plan' = TRUE
  /\ UNCHANGED <<files, flow, reviewed, pass, opened, seen, base, manifest, prepared, checkedOn, health, delivery>>

Deploy ==
  /\ flow = "idle" /\ plan /\ Healthy /\ ~ delivered /\ sent = <<>> /\ OpenStream("deploy") /\ flow' = "deploy"
  /\ UNCHANGED <<files, reviewed, evidence, delivery>>
EndDeploy ==
  /\ pass = "deploy" /\ StreamEnds /\ delivered' = TRUE /\ flow' = "idle" /\ Stop
  /\ UNCHANGED <<files, reviewed, evidence, sent>>

Next ==
  \/ \E n \in Names, b \in Block : Change(n, b)
  \/ \E b \in Block : Stream(b)
  \/ Review \/ Prepare \/ Fails \/ QualifyBlock \/ Seal \/ AcceptPreparation
  \/ BeginHealth \/ EndCopy \/ BeginRehash \/ RehashBlock \/ Check \/ AcceptHealth
  \/ CompilePlan \/ Deploy \/ EndDeploy

Spec == Init /\ [][Next]_vars

-----------------------------------------------------------------------------
(* Whatever is changed meanwhile: a sealed image differs from the retained *)
(* card in the root only, a check with a result ran on exactly that root,  *)
(* and a chunk reaches the target only as part of an image that was sealed *)
(* and found clean; a completed delivery is all of it.                     *)
DeployedIsQualified ==
  /\ manifest # <<>> => manifest.image[1] = Original[1]
  /\ health # "none" => checkedOn = RootOf(manifest.image)
  /\ sent # <<>> => health = "clean" /\ prepared
  /\ \A i \in DOMAIN sent : sent[i] = checkedOn[i]
  /\ delivered => Len(sent) = 2
=============================================================================
