--------------------------- MODULE FileTransition ---------------------------
(***************************************************************************)
(* A journaled transition of files on an SSH target and its reversal: the  *)
(* owner's dispatch (tools/forge_target_ssh.py with the event journal of   *)
(* tools/forge_target_journal.py) and the worker that applies one file     *)
(* after the other (perform, and apply_file of tools/forge_target_files.py)*)
(*                                                                         *)
(* Only the last event of the journal matters: a direction that was not    *)
(* acknowledged must be dispatched again before it may be reversed.  The   *)
(* worker recognises what an interrupted one left by its journaled scratch *)
(* names.  A scratch file is "partial" while it does not read back as the  *)
(* desired state, "full" when it does, "synced" after its fsync, "linked"  *)
(* when it is a second name of the published file.                         *)
(***************************************************************************)
EXTENDS Naturals

CONSTANTS
  Count,          \* files of the plan, applied in this order
  Before, After,  \* [1..Count -> contents] of the plan; Absent without a file
  Absent, Other,  \* no file; a file that is not of the plan
  Edited,         \* files that somebody else may change
  MaxCalls,       \* bound on dispatches
  LateStart       \* a worker may still take the lock after its SSH call ended

File == 1..Count
Call == 1..MaxCalls
Direction == {"apply", "restore"}

PlanAssumption ==
  /\ Count \in Nat \ {0} /\ MaxCalls \in Nat \ {0}
  /\ Edited \subseteq File /\ LateStart \in BOOLEAN
  /\ \A f \in File : Before[f] # Other /\ After[f] # Other /\ Before[f] # After[f]

VARIABLES
  last,      \* the last journal event: its direction and state
  journal,   \* "blocked" once an event cannot be read back
  waiting,   \* the host waits for the answer of the last call
  asked,     \* direction of each call made; "none" before
  reply,     \* how each call ended; "none" while it has not
  owner,     \* the call whose worker holds the target lock; 0 without
  pos,       \* the file it is at
  stage,     \* and how far it is with it
  dest,      \* the destination of each file, as everybody sees it
  onDisk,    \* as a power loss would leave it
  scratch    \* [Direction -> [File -> mark]]: the journaled scratch names

host == <<last, journal, waiting>>
calls == <<asked, reply>>
worker == <<owner, pos, stage>>
files == <<dest, onDisk, scratch>>
vars == <<host, calls, worker, files>>

Want(d, f) == IF d = "apply" THEN After[f] ELSE Before[f]
From(d, f) == IF d = "apply" THEN Before[f] ELSE After[f]
Torn == "torn"

TypeOK ==
  /\ last \in [direction : Direction, state : {"dispatch", "acknowledged", "uncertain"}]
  /\ journal \in {"sound", "blocked"} /\ waiting \in BOOLEAN
  /\ asked \in [Call -> Direction \cup {"none"}]
  /\ reply \in [Call -> {"none", "done", "error"}]
  /\ owner \in 0..MaxCalls /\ pos \in File
  /\ stage \in {"begin", "looked", "staging", "staged", "linked", "published"}
  /\ \A f \in File :
       /\ dest[f] \in {Before[f], After[f], Other, Torn}
       /\ onDisk[f] \in {Before[f], After[f], Other, Torn}
       /\ \A d \in Direction :
            scratch[d][f] \in {"none", "partial", "full", "synced", "linked"}

(* prepare() captured the preimages; nothing was dispatched yet, which     *)
(* the journal does not tell from an acknowledged restore.                 *)
Init ==
  /\ last = [direction |-> "restore", state |-> "acknowledged"]
  /\ journal = "sound" /\ waiting = FALSE
  /\ asked = [c \in Call |-> "none"] /\ reply = [c \in Call |-> "none"]
  /\ owner = 0 /\ pos = 1 /\ stage = "begin"
  /\ dest = [f \in File |-> Before[f]] /\ onDisk = dest
  /\ scratch = [d \in Direction |-> [f \in File |-> "none"]]

-----------------------------------------------------------------------------
(* The host.                                                               *)

Sent(c) == asked[c] # "none"
Pending(c) == Sent(c) /\ reply[c] = "none" /\ owner # c
Current(c) == Sent(c) /\ \A k \in Call : Sent(k) => k <= c

(* A pending direction must be reconciled before it is reversed.           *)
MayDispatch(d) == last.state = "acknowledged" \/ last.direction = d

(* dispatch() up to the start of SSH.                                      *)
Dispatch(d) ==
  /\ journal = "sound" /\ ~ waiting /\ MayDispatch(d)
  /\ \E c \in Call :
       /\ ~ Sent(c) /\ \A k \in Call : k < c => Sent(k)
       /\ asked' = [asked EXCEPT ![c] = d]
  /\ last' = [direction |-> d, state |-> "dispatch"]
  /\ waiting' = TRUE
  /\ UNCHANGED <<journal, reply, worker, files>>

(* Mutant: the answer of any call counts.                                  *)
AcknowledgedAnyNonce ==
  /\ waiting
  /\ \E c \in Call : Sent(c) /\ reply[c] = "done"
  /\ last' = [last EXCEPT !.state = "acknowledged"]
  /\ waiting' = FALSE
  /\ UNCHANGED <<journal, calls, worker, files>>

(* The answer of this very call, told by its nonce.                        *)
Acknowledged ==
  /\ waiting
  /\ \E c \in Call : Current(c) /\ reply[c] = "done"
  /\ last' = [last EXCEPT !.state = "acknowledged"]
  /\ waiting' = FALSE
  /\ UNCHANGED <<journal, calls, worker, files>>

(* Timeout, cancellation, a lost connection or an error answer; or the     *)
(* host dies, maybe inside the write of an event.  A worker that runs goes *)
(* on; one that has not read its whole request fails when the stream ends. *)
GaveUp ==
  /\ waiting
  /\ last' \in {last, [last EXCEPT !.state = "uncertain"]}
  /\ journal' \in {"sound", "blocked"}
  /\ waiting' = FALSE
  /\ reply' = [c \in Call |->
                 IF Current(c) /\ Pending(c) /\ ~ LateStart THEN "error" ELSE reply[c]]
  /\ UNCHANGED <<asked, worker, files>>

-----------------------------------------------------------------------------
(* The worker.                                                             *)

dir == asked[owner]
Mark(m) == scratch' = [scratch EXCEPT ![dir][pos] = m]
Persist == onDisk' = [onDisk EXCEPT ![pos] = dest[pos]]
Working(s) == owner # 0 /\ stage = s
GoOn(s) == stage' = s /\ UNCHANGED <<owner, pos, host, calls>>

(* perform(): the target lock is taken without waiting.                    *)
Begin(c) ==
  /\ Pending(c) /\ owner = 0
  /\ owner' = c /\ pos' = 1 /\ stage' = "begin"
  /\ UNCHANGED <<host, calls, files>>

(* The lock is busy, the machine is not the planned one, no connection.    *)
Refused(c) ==
  /\ Pending(c)
  /\ reply' = [reply EXCEPT ![c] = "error"]
  /\ UNCHANGED <<host, asked, worker, files>>

(* recover_stage: an exact scratch file is kept and synced, the second     *)
(* name of a published file goes; anything else is left for inspection.    *)
Recover ==
  /\ Working("begin")
  /\ \/ scratch[dir][pos] = "none" /\ UNCHANGED <<scratch, onDisk>>
     \/ scratch[dir][pos] \in {"full", "synced"} /\ Mark("synced") /\ UNCHANGED onDisk
     \/ scratch[dir][pos] = "linked" /\ dest[pos] = Want(dir, pos) /\ Mark("none") /\ Persist
  /\ GoOn("looked")
  /\ UNCHANGED dest

(* The next file, or the answer and the end of the worker.                 *)
Advance ==
  IF pos < Count
    THEN pos' = pos + 1 /\ stage' = "begin" /\ UNCHANGED <<owner, calls>>
    ELSE /\ owner' = 0 /\ pos' = 1 /\ stage' = "begin"
         /\ reply' = [reply EXCEPT ![owner] = "done"] /\ UNCHANGED asked

AlreadyApplied ==
  /\ Working("looked") /\ dest[pos] = Want(dir, pos)
  /\ Mark("none") /\ Persist /\ Advance
  /\ UNCHANGED <<host, dest>>

(* The scratch file is created exclusively; it is not complete yet.        *)
StageFile ==
  /\ Working("looked") /\ dest[pos] = From(dir, pos)
  /\ Want(dir, pos) # Absent /\ scratch[dir][pos] = "none"
  /\ Mark("partial") /\ GoOn("staging")
  /\ UNCHANGED <<dest, onDisk>>

(* Written, its metadata set, synced and read back.                        *)
FillStage ==
  /\ Working("staging")
  /\ Mark("synced") /\ GoOn("staged")
  /\ UNCHANGED <<dest, onDisk>>

Ready ==
  /\ Working("looked") \/ Working("staged")
  /\ Want(dir, pos) = Absent \/ scratch[dir][pos] # "none"
(* What becomes visible: a file whose data was not synced may be torn.     *)
Staged == IF scratch[dir][pos] = "synced" THEN Want(dir, pos) ELSE Torn

Remove ==
  /\ Ready /\ dest[pos] = From(dir, pos) /\ Want(dir, pos) = Absent
  /\ dest' = [dest EXCEPT ![pos] = Absent]
  /\ GoOn("published")
  /\ UNCHANGED <<onDisk, scratch>>

(* publish_absent: link(2), or a rename that replaces nothing where the    *)
(* file system has no links; either fails if somebody created the file.    *)
Create ==
  /\ Ready /\ From(dir, pos) = Absent /\ dest[pos] = Absent
  /\ dest' = [dest EXCEPT ![pos] = Staged]
  /\ \/ Mark("linked") /\ GoOn("linked")
     \/ Mark("none") /\ GoOn("published")
  /\ UNCHANGED onDisk

UnlinkStage ==
  /\ Working("linked")
  /\ Mark("none") /\ GoOn("published")
  /\ UNCHANGED <<dest, onDisk>>

Replace ==
  /\ Ready /\ From(dir, pos) # Absent /\ Want(dir, pos) # Absent
  /\ dest[pos] = From(dir, pos)
  /\ dest' = [dest EXCEPT ![pos] = Staged]
  /\ Mark("none") /\ GoOn("published")
  /\ UNCHANGED onDisk

(* os.fsync of the directory and the check after publication.              *)
Finish ==
  /\ Working("published") /\ dest[pos] = Want(dir, pos)
  /\ Persist /\ Advance
  /\ UNCHANGED <<host, dest, scratch>>

Released == owner' = 0 /\ pos' = 1 /\ stage' = "begin"

(* Any check or call raises; inside its try block the worker removes the   *)
(* scratch file.                                                           *)
Raised ==
  /\ owner # 0
  /\ \E m \in (CASE stage \in {"begin", "published"} -> {scratch[dir][pos]}
                 [] stage = "looked" -> {scratch[dir][pos], "none"}
                 [] OTHER -> {"none"}) : Mark(m)
  /\ reply' = [reply EXCEPT ![owner] = "error"]
  /\ Released
  /\ UNCHANGED <<host, asked, dest, onDisk>>

(* The worker is killed: an unfinished scratch file may be complete.       *)
Killed ==
  /\ owner # 0
  /\ \E m \in (IF scratch[dir][pos] = "partial" THEN {"partial", "full"} ELSE {scratch[dir][pos]}) :
       Mark(m)
  /\ reply' = [reply EXCEPT ![owner] = "error"]
  /\ Released
  /\ UNCHANGED <<host, asked, dest, onDisk>>

-----------------------------------------------------------------------------
(* What a power loss makes of scratch file d of f when the destination     *)
(* comes back as content: names that were not synced may be gone or back.  *)
Leftover(d, f, content) ==
  CASE scratch[d][f] = "none" ->
         IF content # dest[f] /\ dest[f] = Want(d, f) /\ dest[f] # Absent
           THEN {"none", "synced"} ELSE {"none"}
    [] scratch[d][f] = "partial" -> {"none", "partial"}
    [] scratch[d][f] = "full" -> {"none", "partial", "full"}
    [] scratch[d][f] = "synced" -> {"none", "synced"}
    [] scratch[d][f] = "linked" ->
         IF content = dest[f] THEN {"none", "linked"} ELSE {"none", "synced"}

(* The target loses power; calls still connecting do not survive the boot. *)
PowerLoss ==
  /\ \E back \in SUBSET File :
       dest' = [f \in File |-> IF f \in back THEN onDisk[f] ELSE dest[f]]
  /\ onDisk' = dest'
  /\ LET found(x) == Leftover(x[1], x[2], dest'[x[2]])
         open == {x \in Direction \X File : found(x) # {"none"}}
     IN \E mark \in [open -> UNION {found(x) : x \in open}] :
          /\ \A x \in open : mark[x] \in found(x)
          /\ scratch' = [d \in Direction |-> [f \in File |->
                            IF <<d, f>> \in open THEN mark[<<d, f>>] ELSE "none"]]
  /\ reply' = [c \in Call |-> IF Sent(c) /\ reply[c] = "none" THEN "error" ELSE reply[c]]
  /\ Released
  /\ UNCHANGED <<host, asked>>

(* Somebody else changes a file while no worker runs, or creates one that  *)
(* is absent at any time.                                                  *)
Edit(f) ==
  /\ owner = 0 \/ dest[f] = Absent
  /\ dest[f] # Other
  /\ dest' = [dest EXCEPT ![f] = Other] /\ onDisk' = [onDisk EXCEPT ![f] = Other]
  /\ \E m \in {"partial", "synced"} :
       scratch' = [d \in Direction |->
                    [scratch[d] EXCEPT ![f] = IF @ = "linked" THEN m ELSE @]]
  /\ UNCHANGED <<host, calls, worker>>

Work ==
  \/ Recover \/ AlreadyApplied \/ StageFile \/ FillStage
  \/ Remove \/ Create \/ UnlinkStage \/ Replace \/ Finish \/ Raised \/ Killed

Next ==
  \/ \E d \in Direction : Dispatch(d)
  \/ Acknowledged \/ GaveUp
  \/ \E c \in Call : Begin(c) \/ Refused(c)
  \/ Work \/ PowerLoss
  \/ \E f \in Edited : Edit(f)

Spec == Init /\ [][Next]_vars

-----------------------------------------------------------------------------

(* With the last event acknowledged every file of the plan is as its       *)
(* direction says, or as somebody else left it; never half written.        *)
FilesAsAcknowledged ==
  last.state = "acknowledged" =>
    \A f \in File : dest[f] \in {Want(last.direction, f), Other}
=============================================================================
