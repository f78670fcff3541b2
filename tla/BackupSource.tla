---------------------------- MODULE BackupSource ----------------------------
(***************************************************************************)
(* What the host derives from a retained card backup, and sends from it:   *)
(* the range digests (forge_recovery_archive_hash), the chunk manifest of  *)
(* the root and the stream of a restoration (forge_recovery_restore_       *)
(* source), the image (forge_recovery_archive), the partition copies and   *)
(* their checks (forge_recovery_filesystems), and the two operations of    *)
(* the owner that combine them (forge_backup_source).                      *)
(*                                                                         *)
(* Somebody else may change the archive, put another in its place, put     *)
(* another backup's records beside it, or change the image, at any moment. *)
(* A fingerprint is the file and its stamp: any write and any renaming     *)
(* changes the stamp.  A checksum is the bytes it is of.  The reviewed     *)
(* backup holds 0 in every block and another one 1.                        *)
(***************************************************************************)
EXTENDS Naturals, Sequences

CONSTANT MaxMeddles   \* bound on changes from outside

Block == 1..3
Root == <<2, 3>>
Files == {1, 2}
Holds(record) == [b \in Block |-> record - 1]

VARIABLES
  content, stamp,  \* of the two files that may be the archive
  name,       \* the file card.img.gz names
  records,    \* whose plan.json and acceptance.json the directory has
  meddles, exchanged,  \* the records were, while an operation ran
  owner,      \* the operation of the owner and how far it is
  reviewed,   \* the fingerprint it was approved with, <<>> before
  pass,       \* the pass over the archive under way, "none" between two
  opened,     \* the file it has open, its fingerprint and the records then
  seen,       \* the blocks it has read
  ranges,     \* acceptance of the range digests: the bytes, <<>> for none
  manifest,   \* the chunks of the root and what it binds, <<>> for none
  image,      \* image.img, its stamp and the backup of its receipt, <<>> for none
  copied,     \* the bytes the partition copies are of
  checks,     \* the results of the two checkers
  done,       \* the owner's operations whose acceptance.json is complete
  sent        \* the chunks the consumer of a stream was given

outside == <<meddles, exchanged>>
archive == <<content, stamp, name, records>>
results == <<ranges, manifest, image, copied, checks, done>>
vars == <<archive, outside, owner, reviewed, pass, opened, seen, results, sent>>

Fingerprint(f) == <<f, IF f = 0 THEN image.stamp ELSE stamp[f]>>
RootOf(bytes) == [i \in DOMAIN Root |-> bytes[Root[i]]]
Passes == {"ranges", "map", "image", "health", "stream"}

TypeOK ==
  /\ content \in [Files -> [Block -> {0, 1}]] /\ stamp \in [Files -> Nat]
  /\ name \in Files /\ records \in Files /\ meddles \in 0..MaxMeddles
  /\ owner \in {"idle", "prepare", "mapped", "check", "checked", "stream"}
  /\ pass \in Passes \cup {"none"} /\ done \subseteq {"prepare", "check", "stream"}

Init ==
  /\ content = [f \in Files |-> Holds(f)] /\ stamp = [f \in Files |-> 0]
  /\ name = 1 /\ records = 1 /\ meddles = 0 /\ exchanged = FALSE
  /\ owner = "idle" /\ reviewed = <<>> /\ pass = "none" /\ opened = <<>> /\ seen = <<>>
  /\ ranges = <<>> /\ manifest = <<>> /\ image = <<>> /\ copied = <<>> /\ checks = <<>>
  /\ done = {} /\ sent = <<>>

-----------------------------------------------------------------------------
(* Somebody else.                                                          *)

Meddle == meddles < MaxMeddles /\ meddles' = meddles + 1
          /\ UNCHANGED <<owner, reviewed, pass, opened, seen, ranges, manifest, copied, checks, done, sent>>

Change(f, b) ==
  /\ Meddle /\ content' = [content EXCEPT ![f][b] = 1 - @] /\ stamp' = [stamp EXCEPT ![f] = @ + 1]
  /\ UNCHANGED <<name, records, exchanged, image>>
Rename ==
  /\ Meddle /\ name' = 3 - name /\ stamp' = [f \in Files |-> stamp[f] + 1]
  /\ UNCHANGED <<content, records, exchanged, image>>
OtherRecords ==
  /\ Meddle /\ records' = 3 - records /\ exchanged' = (exchanged \/ owner # "idle")
  /\ UNCHANGED <<content, stamp, name, image>>
ChangeImage(b) ==
  /\ Meddle /\ image # <<>> /\ image' = [image EXCEPT !.bytes[b] = 1 - @, !.stamp = @ + 1]
  /\ UNCHANGED <<archive, exchanged>>

-----------------------------------------------------------------------------
(* The owner's operations.                                                 *)

(* inputs: the pinned acceptance record, and opened() without a scan.      *)
Inputs == records = 1

Review ==
  /\ owner = "idle" /\ reviewed = <<>> /\ Inputs /\ reviewed' = Fingerprint(name)
  /\ UNCHANGED <<archive, outside, owner, pass, opened, seen, results, sent>>

Unchanged == Inputs /\ Fingerprint(name) = reviewed

(* _destination and the output directory, which must be new.               *)
Begin(o) ==
  /\ owner = "idle" /\ reviewed # <<>> /\ o \notin done /\ Unchanged
  /\ owner' = o
  /\ IF o = "prepare" THEN manifest = <<>> /\ ranges' = <<>> /\ UNCHANGED image
     ELSE image' = <<>> /\ UNCHANGED ranges
  /\ UNCHANGED <<archive, outside, reviewed, pass, opened, seen, manifest, copied, checks, done, sent>>

(* prepare: acceptance.json after the last look at the inputs.             *)
Complete(last, o) ==
  /\ owner = last /\ pass = "none" /\ Unchanged
  /\ done' = done \cup {o} /\ owner' = "idle"
  /\ UNCHANGED <<archive, outside, reviewed, pass, opened, seen, ranges, manifest, image, copied, checks, sent>>

(* A refusal or the end of the host.                                       *)
Fails ==
  /\ owner # "idle" /\ owner' = "idle" /\ pass' = "none" /\ opened' = <<>> /\ seen' = <<>>
  /\ UNCHANGED <<archive, outside, reviewed, results, sent>>

-----------------------------------------------------------------------------
(* A pass: the records and the archive are opened, the archive is read,    *)
(* and its end compares.                                                   *)

(* Which pass the owner's operation makes next.                            *)
NextPass(p) ==
  \/ owner = "prepare" /\ p = IF ranges = <<>> THEN "ranges" ELSE "map"
  \/ owner = "check" /\ p = IF image = <<>> THEN "image" ELSE "health"
  \/ owner = "stream" /\ p = "stream"

(* stream: the identity of the archive is the frozen manifest's.           *)
Identified(p) == p = "stream" => records = manifest.of /\ Fingerprint(name) = manifest.print

(* A completed, matching receipt: the file has the recorded size.          *)
Open(p) ==
  /\ pass = "none" /\ NextPass(p) /\ p # "health" /\ Identified(p)
  /\ pass' = p /\ opened' = [file |-> name, print |-> Fingerprint(name), records |-> records] /\ seen' = <<>>
  /\ UNCHANGED <<archive, outside, owner, reviewed, results, sent>>

(* inspect_filesystems: receipts of image and backup agree.                *)
OpenImage ==
  /\ pass = "none" /\ NextPass("health") /\ image.of = records
  /\ pass' = "health" /\ opened' = [file |-> 0, print |-> <<0, image.stamp>>, records |-> records] /\ seen' = <<>>
  /\ UNCHANGED <<archive, outside, owner, reviewed, results, sent>>

Bytes == IF pass = "health" THEN image.bytes ELSE content[opened.file]
AtEnd == pass # "none" /\ Len(seen) = 3

(* Any chunk goes to the consumer as it comes.                             *)
MayConsumeAny(chunk) == TRUE
(* checked: only the chunk of the pinned map does.                         *)
MayConsume(chunk) == chunk = manifest.chunks[Len(sent) + 1]

ReadBlock ==
  /\ pass # "none" /\ Len(seen) < 3
  /\ LET b == Len(seen) + 1
         chunk == Bytes[b]
     IN /\ seen' = Append(seen, chunk)
        /\ IF pass = "stream" /\ b \in {2, 3} THEN MayConsume(chunk) /\ sent' = Append(sent, chunk)
           ELSE UNCHANGED sent
  /\ UNCHANGED <<archive, outside, owner, reviewed, pass, opened, results>>

(* The open file is as it was; its name still names it, and the records    *)
(* beside it are the same.                                                 *)
Stable == Fingerprint(opened.file) = opened.print
Named == name = opened.file /\ records = opened.records

End == AtEnd /\ Stable /\ seen = Holds(opened.records)

Close == pass' = "none" /\ opened' = <<>> /\ seen' = <<>>

CaptureRanges ==
  /\ pass = "ranges" /\ End /\ Named /\ Close /\ ranges' = seen
  /\ UNCHANGED <<archive, outside, owner, reviewed, manifest, image, copied, checks, done, sent>>

(* The manifest is written when the root of the scan is the approved one.  *)
Map ==
  /\ pass = "map" /\ End /\ Named /\ RootOf(seen) = RootOf(ranges) /\ Close
  /\ manifest' = [chunks |-> RootOf(seen), print |-> opened.print, of |-> opened.records]
  /\ owner' = "mapped"
  /\ UNCHANGED <<archive, outside, reviewed, ranges, image, copied, checks, done, sent>>

Materialize ==
  /\ pass = "image" /\ End /\ Close /\ image' = [bytes |-> seen, of |-> opened.records, stamp |-> 0]
  /\ UNCHANGED <<archive, outside, owner, reviewed, ranges, manifest, copied, checks, done, sent>>

(* run_check: the exit status of a checker that ended within its bounds.   *)
Outcomes == {"clean", "errors"}

(* The copies are complete; both checkers run on them, read-only.          *)
CheckCopies ==
  /\ pass = "health" /\ End /\ Close /\ copied' = seen
  /\ \E boot, root \in Outcomes : checks' = <<boot, root>>
  /\ owner' = "checked"
  /\ UNCHANGED <<archive, outside, reviewed, ranges, manifest, image, done, sent>>

(* stream is called with the manifest and its pin: contiguous chunks of    *)
(* the whole root.                                                         *)
Valid(m) == m # <<>> /\ Len(m.chunks) = Len(Root)
BeginStream ==
  /\ owner = "idle" /\ Valid(manifest) /\ sent = <<>> /\ "stream" \notin done /\ owner' = "stream"
  /\ UNCHANGED <<archive, outside, reviewed, pass, opened, seen, results, sent>>
EndStream ==
  /\ pass = "stream" /\ End /\ Named /\ Close /\ done' = done \cup {"stream"} /\ owner' = "idle"
  /\ UNCHANGED <<archive, outside, reviewed, ranges, manifest, image, copied, checks, sent>>

Next ==
  \/ \E f \in Files, b \in Block : Change(f, b)
  \/ \E b \in Block : ChangeImage(b)
  \/ Rename \/ OtherRecords
  \/ Review \/ Begin("prepare") \/ Begin("check")
  \/ Complete("mapped", "prepare") \/ Complete("checked", "check") \/ Fails
  \/ \E p \in Passes : Open(p)
  \/ OpenImage \/ ReadBlock \/ CaptureRanges \/ Map \/ Materialize \/ CheckCopies
  \/ BeginStream \/ EndStream

Spec == Init /\ [][Next]_vars

-----------------------------------------------------------------------------
(* Whatever somebody else does to the directory meanwhile: a manifest maps *)
(* the root of the backup it binds, the chunks a stream hands on are, up   *)
(* to where it stops, that root, and a stream that ends handed on all of   *)
(* it.  An operation that is accepted derived everything from the bytes    *)
(* the owner's pin names, and the partition copies are those bytes, unless *)
(* the records were exchanged and put back while it ran.                   *)
DerivedIsTheBackup ==
  /\ manifest # <<>> =>
       /\ manifest.chunks = RootOf(Holds(manifest.of))
       /\ \A i \in DOMAIN sent : sent[i] = manifest.chunks[i]
       /\ "stream" \in done => Len(sent) = Len(Root)
  /\ "prepare" \in done /\ ~ exchanged => ranges = Holds(1) /\ manifest.of = 1
  /\ "check" \in done /\ ~ exchanged => copied = Holds(1) /\ checks # <<>>
=============================================================================
