------------------------------ MODULE Startup ------------------------------
(***************************************************************************)
(* From an empty directory to a running guest: the setup window             *)
(* (workbench_setup.py) and the wizard before it (workbench_wizard.py), the *)
(* host packages and the pinned image (workbench_onboarding.py), and the    *)
(* commands that prepare a workspace and configure its desktop              *)
(* (uconsole_emulator.py).  The window is one thread that polls its child   *)
(* process or its job; what is already there is not done again.  A window   *)
(* that dies leaves its worker, and the worker's QEMU, running.             *)
(***************************************************************************)
EXTENDS Naturals, FiniteSets

CONSTANTS
  MaxRuns,      \* bound: starts, by a button or by the wizard
  MaxKills      \* bound: deaths of the window

VARIABLES
  flow,      \* the run: active, cancelled, its own image chosen, the job it waits for
  consent,   \* active_consent: the wizard's approvals, or that the owner is asked
  passed,    \* dependencies_checked, emulator_checked, default_image_ready
  attempted, \* packages_attempted
  process,   \* the window's child process
  stop,      \* of the process: cancelled, or stop_after_packages
  rebuild,   \* rebuild_pending
  result,    \* how the job ended
  host,      \* packages missing, emulator built
  cache,     \* the downloaded archive and its partial file
  worker,    \* the download, import and desktop processes; opt: the network may be
             \* used, or the image is the owner's
  ws,        \* the workspace's files
  guest,     \* the QEMU that holds the workspace's lock
  mine,      \* the window owns it
  runs, kills,
  approved,  \* history: what the owner approved for this run
  done       \* history: what this run installed or fetched

vars == <<flow, consent, passed, attempted, process, stop, rebuild, result,
          host, cache, worker, ws, guest, mine, runs, kills, approved, done>>
window == <<flow, consent, passed, attempted, process, stop, rebuild, result>>
places == <<host, cache, worker, ws, guest, mine>>
counts == <<runs, kills, approved, done>>

Grants == {"packages", "download"}
Ask == [wizard |-> FALSE, grants |-> {}]
Consents == [wizard : {TRUE}, grants : SUBSET Grants]
Roles == {"check", "packages", "build", "probe", "download"}
Jobs == {"import", "desktop", "boot"}
NoProcess == [role |-> "", state |-> ""]
NoFlow == [active |-> FALSE, cancelled |-> FALSE, custom |-> FALSE, job |-> ""]
NoWorker == [role |-> "", at |-> 0, owned |-> FALSE, opt |-> FALSE]
Absent == [base |-> "none", overlay |-> "none", json |-> "none"]

TypeOK ==
  /\ flow \in [active : BOOLEAN, cancelled : BOOLEAN, custom : BOOLEAN, job : Jobs \cup {""}]
  /\ consent \in Consents \cup {Ask}
  /\ passed \subseteq {"packages", "emulator", "image"}
  /\ attempted \in BOOLEAN /\ rebuild \in BOOLEAN /\ mine \in BOOLEAN
  /\ process \in {NoProcess} \cup [role : Roles, state : {"running", "done", "failed"}]
  /\ stop \in {"", "killed", "packages"} /\ result \in {"", "done", "failed"}
  /\ host \in [missing : BOOLEAN, built : BOOLEAN]
  /\ cache \in [archive : {"none", "whole", "bad"}, partial : {"none", "part", "whole", "bad"}]
  /\ worker \in [1 .. MaxKills + 1 -> [role : {"", "download", "import", "desktop"},
                                       at : 0 .. 4, owned : BOOLEAN, opt : BOOLEAN]]
  /\ ws \in [base : {"none", "part", "whole"}, overlay : {"none", "plain", "half", "desktop"},
             json : {"none", "part", "prepared", "desktop"}]
  /\ guest \in {"", "setup", "boot"}
  /\ runs \in 0 .. MaxRuns /\ kills \in 0 .. MaxKills
  /\ approved \subseteq Grants /\ done \subseteq Grants

Init ==
  /\ flow = NoFlow /\ consent = Ask /\ passed = {} /\ attempted = FALSE
  /\ process = NoProcess /\ stop = "" /\ rebuild = FALSE /\ result = ""
  /\ host \in [missing : BOOLEAN, built : BOOLEAN]
  /\ cache \in [archive : {"none", "whole", "bad"}, partial : {"none", "part"}]
  /\ worker = [w \in 1 .. MaxKills + 1 |-> NoWorker]
  /\ ws = Absent /\ guest = "" /\ mine = FALSE
  /\ runs = 0 /\ kills = 0 /\ approved = {} /\ done = {}

-----------------------------------------------------------------------------
(* Parts of one callback of the window: what the flow, the process, its     *)
(* stop request, the checks passed, the result, the workers and the         *)
(* approvals become.                                                        *)

Finish ==
  /\ flow' = NoFlow /\ process' = NoProcess /\ rebuild' = FALSE /\ result' = ""
  /\ UNCHANGED <<stop, worker, approved>>

Launch(role) ==
  /\ process' = [role |-> role, state |-> "running"]
  /\ stop' = ""

Begins(role, opt) ==
  \E w \in DOMAIN worker :
    /\ worker[w] = NoWorker
    /\ worker' = [worker EXCEPT ![w] = [role |-> role, at |-> 1, owned |-> TRUE, opt |-> opt]]

\* A file that is there is not asked for again; and without the wizard's approval
\* only the cache is used.
DownloadDefault ==
  LET cached == cache.archive # "none" IN
  \/ /\ consent.wizard => cached \/ "download" \in consent.grants
     /\ Launch("download") /\ Begins("download", consent.wizard => "download" \in consent.grants)
     /\ approved' = IF consent.wizard \/ cached THEN approved ELSE approved \cup {"download"}
     /\ UNCHANGED <<flow, rebuild, result>>
  \/ ~cached /\ "download" \notin consent.grants /\ Finish

\* What is there is not done again; a directory without machine.json is not used.
NextStage(has) ==
  IF "packages" \notin has THEN "check"
  ELSE IF ~host.built THEN "build"
  ELSE IF "emulator" \notin has THEN "probe"
  ELSE IF ws.json = "none" /\ ws # Absent THEN "error"
  ELSE IF ws.json = "none" /\ ~flow.custom /\ "image" \notin has THEN "download"
  ELSE IF ws.json = "none" THEN "import"
  ELSE IF ws.json = "part" THEN "error"
  ELSE IF ws.json = "prepared" THEN "desktop"
  ELSE "boot"

Submit(s) ==
  /\ flow' = [flow EXCEPT !.job = s]
  /\ process' = NoProcess /\ result' = ""
  /\ IF s = "boot" THEN UNCHANGED worker ELSE Begins(s, flow.custom)
  /\ UNCHANGED <<stop, rebuild, approved>>

Advance(has) ==
  LET s == NextStage(has) IN
  /\ passed' = has
  /\ IF flow.cancelled \/ s = "error" THEN Finish
     ELSE CASE s \in {"check", "build", "probe"} ->
                 Launch(s) /\ UNCHANGED <<flow, rebuild, result, worker, approved>>
            [] s = "download" -> DownloadDefault
            [] s \in Jobs -> Submit(s) \/ Finish          \* it is refused, or dismissed

-----------------------------------------------------------------------------
(* The owner. *)

Startable == ~mine /\ process = NoProcess /\ ~flow.active /\ runs < MaxRuns

\* Approval applies only to this run, never a later Start.
Begin(given) ==
  /\ Startable
  /\ runs' = runs + 1 /\ done' = {}
  /\ consent' = given
  /\ \E custom \in BOOLEAN :
       flow' = [active |-> TRUE, cancelled |-> FALSE, custom |-> custom, job |-> ""]
  /\ passed' = {} /\ attempted' = FALSE /\ result' = ""
  /\ Launch("check")
  /\ UNCHANGED <<rebuild, kills, places>>

StartButton == Begin(Ask) /\ approved' = {}
WizardFinish == \E c \in Consents : Begin(c) /\ approved' = c.grants

\* Advanced tools: install the packages, and then perhaps build, outside a run.
RequestBuild ==
  /\ process = NoProcess /\ ~flow.active /\ runs < MaxRuns
  /\ runs' = runs + 1 /\ done' = {} /\ approved' = {}
  /\ rebuild' \in BOOLEAN
  /\ attempted' = FALSE /\ Launch("check")
  /\ UNCHANGED <<flow, consent, passed, result, kills, places>>

\* A package transaction is not interrupted: only what follows is.
Cancel ==
  /\ process # NoProcess /\ stop = ""
  /\ IF process.role = "packages" THEN stop' = "packages" /\ rebuild' = FALSE
     ELSE stop' = "killed" /\ UNCHANGED rebuild

CancelBuild ==
  /\ Cancel
  /\ UNCHANGED <<flow, consent, passed, attempted, process, result, places, counts>>

CancelFlow ==
  /\ flow.active /\ ~flow.cancelled
  /\ flow' = [flow EXCEPT !.cancelled = TRUE]
  /\ IF process # NoProcess /\ stop = "" THEN Cancel ELSE UNCHANGED <<stop, rebuild>>
  /\ UNCHANGED <<consent, passed, attempted, process, result, places, counts>>

-----------------------------------------------------------------------------
(* poll: the child process has ended. *)

StoppingKilled == flow.cancelled \/ stop = "killed"    \* mutant: after the packages it goes on
Stopping == flow.cancelled \/ stop # ""

Quiet == UNCHANGED <<attempted, done>>
GiveUp == Finish /\ UNCHANGED passed

\* dependencies_result: what is missing is installed once, with an approval.
MayAsk == ~(flow.active /\ consent.wizard)

InstallPackages ==
  /\ ~attempted /\ attempted' = TRUE
  /\ MayAsk \/ "packages" \in consent.grants
  /\ approved' = IF MayAsk THEN approved \cup {"packages"} ELSE approved
  /\ done' = done \cup {"packages"}
  /\ Launch("packages")
  /\ UNCHANGED <<flow, passed, rebuild, result, worker>>

NothingMissing ==
  IF flow.active THEN Advance(passed \cup {"packages"})
  ELSE IF rebuild THEN Launch("build") /\ rebuild' = FALSE /\ UNCHANGED <<flow, passed, result, worker, approved>>
  ELSE GiveUp

Verified(role) == IF role = "probe" THEN {"emulator"} ELSE IF role = "download" THEN {"image"} ELSE {}

Poll ==
  /\ process.state \in {"done", "failed"}
  /\ LET role == process.role IN
       IF Stopping \/ process.state = "failed" THEN GiveUp /\ Quiet
       ELSE \/ role = "check" /\ host.missing /\ (InstallPackages \/ (GiveUp /\ Quiet))
            \/ role = "check" /\ ~host.missing /\ NothingMissing /\ Quiet
            \/ /\ role = "packages" /\ Launch("check") /\ Quiet
               /\ UNCHANGED <<flow, passed, rebuild, result, worker, approved>>
            \/ /\ role \in {"build", "probe", "download"} /\ Quiet
               /\ IF flow.active THEN Advance(passed \cup Verified(role)) ELSE GiveUp
  /\ UNCHANGED <<consent, host, cache, ws, guest, mine, runs, kills>>

\* poll_flow, once the window's own poll has let the job go.
PollJob ==
  /\ flow.job # "" /\ result # ""
  /\ IF result = "failed" \/ flow.cancelled \/ flow.job = "boot" THEN GiveUp
     ELSE Advance(passed)
  /\ UNCHANGED <<consent, attempted, host, cache, ws, guest, mine, runs, kills, done>>

-----------------------------------------------------------------------------
(* The processes. *)

\* The check, apt, the build and the probe; packages come and go.
ProcessEnds ==
  /\ process.state = "running" /\ process.role # "download"
  /\ \E s \in {"done", "failed"} :
       /\ process' = [process EXCEPT !.state = s]
       /\ host' = [host EXCEPT !.built = @ \/ (process.role = "build" /\ s = "done")]
  /\ UNCHANGED <<flow, consent, passed, attempted, stop, rebuild, result,
                 cache, worker, ws, guest, mine, counts>>

PackagesChange ==
  /\ host' = [host EXCEPT !.missing = ~@]
  /\ UNCHANGED <<window, cache, worker, ws, guest, mine, counts>>

\* A worker ends: its parent, if that lives, sees how.
Ended(w, s) ==
  /\ worker' = [worker EXCEPT ![w] = NoWorker]
  /\ process' = IF worker[w].owned /\ worker[w].role = "download"
                THEN [process EXCEPT !.state = s] ELSE process
  /\ result' = IF worker[w].owned /\ worker[w].role # "download" THEN s ELSE result
Goes(w) == worker' = [worker EXCEPT ![w].at = @ + 1] /\ UNCHANGED <<process, result>>
At(w, role, at) == worker[w].role = role /\ worker[w].at = at
Alone(w, role) == \A v \in DOMAIN worker \ {w} : ~(worker[v].role = role /\ worker[v].at > 1)
Others == <<flow, consent, passed, attempted, stop, rebuild, host, mine, runs, kills, approved>>

\* download: under the cache's lock, a whole archive is used, another set aside,
\* and the network is used only with leave to.
OpenCache(w) ==
  /\ At(w, "download", 1) /\ Alone(w, "download")
  /\ \/ cache.archive = "whole" /\ Ended(w, "done") /\ UNCHANGED <<cache, done>>
     \/ /\ cache.archive # "whole" /\ worker[w].opt /\ Goes(w)
        /\ cache' = [cache EXCEPT !.archive = "none"]
        /\ done' = IF cache.partial # "whole" /\ worker[w].owned THEN done \cup {"download"} ELSE done
     \/ cache.archive # "whole" /\ ~worker[w].opt /\ Ended(w, "failed") /\ UNCHANGED <<cache, done>>
  /\ UNCHANGED <<Others, ws, guest>>

Fetch(w) ==
  /\ At(w, "download", 2)
  /\ IF cache.partial \in {"none", "part"}
     THEN cache' \in {[cache EXCEPT !.partial = p] : p \in {"part", "whole", "bad"}}
     ELSE UNCHANGED cache
  /\ Goes(w)
  /\ UNCHANGED <<Others, ws, guest, done>>

VerifyFetched(w) ==
  /\ At(w, "download", 3)
  /\ CASE cache.partial = "whole" -> cache' = [archive |-> "whole", partial |-> "none"] /\ Ended(w, "done")
       [] cache.partial = "bad" -> cache' = [cache EXCEPT !.partial = "none"] /\ Ended(w, "failed")
       [] OTHER -> Ended(w, "failed") /\ UNCHANGED cache
  /\ UNCHANGED <<Others, ws, guest, done>>

\* prepare: the digest of the archive, a new directory, the base image, the
\* overlay, and machine.json last.
MakeWorkspace(w) ==
  /\ At(w, "import", 1) /\ ws = Absent
  /\ worker[w].opt \/ cache.archive = "whole"
  /\ ws' = [ws EXCEPT !.base = "part"] /\ Goes(w)
  /\ UNCHANGED <<Others, cache, guest, done>>

CopyBase(w) ==
  /\ At(w, "import", 2)
  /\ ws' = [ws EXCEPT !.base = "whole"] /\ Goes(w)
  /\ UNCHANGED <<Others, cache, guest, done>>

\* Mutant: machine.json before the overlay it describes.
CreateOverlayLast(w) ==
  /\ At(w, "import", 3)
  /\ ws' = [ws EXCEPT !.json = "prepared"] /\ Goes(w)
  /\ UNCHANGED <<Others, cache, guest, done>>

CreateOverlay(w) ==
  /\ At(w, "import", 3)
  /\ ws' = [ws EXCEPT !.overlay = "plain", !.json = "part"] /\ Goes(w)
  /\ UNCHANGED <<Others, cache, guest, done>>

WriteMachine(w) ==
  /\ At(w, "import", 4)
  /\ ws' = [ws EXCEPT !.json = "prepared"] /\ Ended(w, "done")
  /\ UNCHANGED <<Others, cache, guest, done>>

\* configure-display: under the workspace's lock what another one did is seen; the
\* overlay is complete when QEMU has ended well, and only then machine.json says so.
Unlocked(w) == guest = "" /\ Alone(w, "desktop")

Configured == ws.json = "desktop"

LockDesktop(w) ==
  /\ At(w, "desktop", 1) /\ Unlocked(w)
  /\ IF Configured THEN Ended(w, "done") /\ UNCHANGED <<ws, guest>>
     ELSE Goes(w) /\ guest' = "setup" /\ ws' = [ws EXCEPT !.overlay = "half"]
  /\ UNCHANGED <<Others, cache, done>>

RunSetup(w) ==
  /\ At(w, "desktop", 2) /\ guest = "setup"
  /\ ws' = [ws EXCEPT !.overlay = "desktop"] /\ Goes(w)
  /\ UNCHANGED <<Others, cache, guest, done>>

QuitSetup(w) ==
  /\ At(w, "desktop", 3) /\ guest = "setup" /\ guest' = "" /\ Goes(w)
  /\ UNCHANGED <<Others, cache, ws, done>>

RecordDesktop(w) ==
  /\ At(w, "desktop", 4) /\ ws' = [ws EXCEPT !.json = "desktop"] /\ Ended(w, "done")
  /\ UNCHANGED <<Others, cache, guest, done>>

\* A worker fails, is cancelled or is killed, with its QEMU or without it.
WorkerDies(w) ==
  /\ worker[w] # NoWorker /\ Ended(w, "failed")
  /\ guest' \in IF worker[w].role = "desktop" /\ worker[w].at \in {2, 3} THEN {guest, ""} ELSE {guest}
  /\ UNCHANGED <<Others, cache, ws, done>>

\* The boot job, under the same lock; a guest stops, and so does an orphaned QEMU.
Boots ==
  /\ flow.job = "boot" /\ result = ""
  /\ IF guest = "" /\ \A w \in DOMAIN worker : ~(worker[w].role = "desktop" /\ worker[w].at > 1)
     THEN result' \in {"done", "failed"} ELSE result' = "failed"
  /\ guest' = IF result' = "done" THEN "boot" ELSE guest
  /\ mine' = (result' = "done")
  /\ UNCHANGED <<flow, consent, passed, attempted, process, stop, rebuild,
                 host, cache, worker, ws, counts>>

GuestEnds ==
  /\ guest # "" /\ guest' = "" /\ mine' = FALSE
  /\ UNCHANGED <<window, host, cache, worker, ws, counts>>

\* The window dies; its workers, the package transaction and the guest do not.
WindowDies ==
  /\ kills < MaxKills /\ kills' = kills + 1
  /\ flow' = NoFlow /\ consent' = Ask /\ passed' = {} /\ attempted' = FALSE
  /\ process' = NoProcess /\ stop' = "" /\ rebuild' = FALSE /\ result' = "" /\ mine' = FALSE
  /\ worker' = [w \in DOMAIN worker |-> [worker[w] EXCEPT !.owned = FALSE]]
  /\ approved' = {} /\ done' = {}
  /\ UNCHANGED <<host, cache, ws, guest, runs>>

Next ==
  \/ StartButton \/ WizardFinish \/ RequestBuild \/ CancelBuild \/ CancelFlow
  \/ Poll \/ PollJob \/ ProcessEnds \/ PackagesChange
  \/ \E w \in DOMAIN worker :
       \/ OpenCache(w) \/ Fetch(w) \/ VerifyFetched(w)
       \/ MakeWorkspace(w) \/ CopyBase(w) \/ CreateOverlay(w) \/ WriteMachine(w)
       \/ LockDesktop(w) \/ RunSetup(w) \/ QuitSetup(w) \/ RecordDesktop(w)
       \/ WorkerDies(w)
  \/ Boots \/ GuestEnds \/ WindowDies

Spec == Init /\ [][Next]_vars

-----------------------------------------------------------------------------
(* However windows and workers die and overlap, a workspace that counts as  *)
(* prepared has its whole base image and an overlay, one that counts as     *)
(* configured has the desktop in its overlay, and only such a one boots     *)
(* (prepare, _configure_display).                                           *)
PreparedIsWhole ==
  /\ ws.json \in {"prepared", "desktop"} => ws.base = "whole" /\ ws.overlay # "none"
  /\ ws.json = "desktop" \/ guest = "boot" => ws.json = "desktop" /\ ws.overlay = "desktop"

(* "Downloads and package installs ask for approval": whatever a run        *)
(* fetches or installs was approved for that run.                           *)
AskedFirst == done \subseteq approved

(* Once the owner has cancelled, no further process and no further job      *)
(* begins, whatever the cancelled one still answers.                        *)
Asked == flow.cancelled \/ (process # NoProcess /\ stop # "")
CancelStops ==
  [][Asked => /\ process'.state = "running" => process' = process
              /\ flow'.job \in {"", flow.job}]_vars
=============================================================================
