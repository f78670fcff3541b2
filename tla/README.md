# A TLA+ verification project for the uConsole Workbench

The uConsole Workbench drives an emulated ClockworkPi uConsole and, with its
owner's consent, a physical one: it edits its boot files, streams whole root
file systems onto it, starts and stops its services and types at its keyboard.
Almost every one of these operations runs over a channel that may fail while
the command is still on its way, against a target that may lose power, from a
host process that may be killed. The code answers with a small set of devices,
used over and over: durable intents and receipts, attempt nonces that can be
fenced, leases with a hardware watchdog behind them, journals that make a
half-finished operation finishable, contents pinned by what the owner was
shown, and records that say *uncertain* rather than guess.

This project models those devices and the protocols built from them,
model-checks them with TLC and proves the ones everything else rests on with
TLAPS. Every definition is translated from the source; `PROJECT.json` maps each
to the lines it stands for, lists the hazards of the code with the properties
that watch them, and gives for every property a plausible mutation of the code
that breaks it.

    tlc -workers 2 -config MCStaging.cfg MCStaging      # any run of section 3
    tlapm BootCommitProofs.tla                          # any *Proofs module

## 1. Inventory

Everything named `forge_*`, `workbench_*` or `uconsole_*` lives in `tools/`.
*Hard* names the behaviour that unit tests hardly reach.

### What is done to a target

| component | state | operations | interacts with | hard | correct when |
|---|---|---|---|---|---|
| **Attempt ledger** (`forge_recovery_ledger`) | per nonce an intent, a receipt, a fence; a flock | run, fence | every worker on the target | kill and power loss between any two records | no effect twice, none after a fence, at most one open, a receipt stands for an effect that returned |
| **Journaled image operation** (`forge_recovery_journal`, `_image`, `_ssh`, `_publication_*`) | the host's history; the image and its durability | prepare, dispatch, reconcile, publish, remove | ledger, staging | SSH given up while the worker still travels; a failed fsync after the rename | it is the register it promises to be |
| **Target file transition** (`forge_target_ssh`, `_files`, `_journal`, `_backup`) | last event of the journal; per file its content, durability and scratch name | prepare, apply, restore, observe | ledger-like journal on the target | a worker killed between scratch, fsync, link and rename; somebody else's edit | acknowledged means every file is as the direction says, never half written |
| **Service transaction** (`forge_target_phases`, `_effects`, `_service_*`) | per direction a phase ledger; files, link, unit, manager | apply, restore, observe, act, verify | systemd | a second worker after a kill; systemctl timeouts; late workers | start and stop at most once; what is acknowledged is so |
| **Boot staging** (`forge_recovery_stage_*`, `_tryboot`, `_cleanup`, `forge_boot_privacy_restore`) | host records per phase, boot files and their durability, fstab journal | apply, restore, reconcile, tryboot, remove image, restore fstab | image operation, ledger | commands of an earlier boot; power loss between rename and fsync | the files are a prefix of the phases, and durable when no attempt is open |

### What a recovery boot is

| component | state | operations | interacts with | hard | correct when |
|---|---|---|---|---|---|
| **Lease, endpoint, timers** (`forge_recovery_lease*`, `_deadline`) | the lease, `deadline.json`, two processes, the watchdog | renew, publish, poll, ping, reboot | recovery session; every leased worker | stalls, deaths, hanging reboots, a snapshot read between two publications | an armed session ends in time |
| **Recovery session** (`forge_recovery_session`, `_lease_client`) | durable pending request and last receipt | renew, retry, reopen | endpoint | lost, late and repeated requests, host crash at any record | host and target differ by the pending request at most |
| **Boot recipes** (`forge_tryboot_recipe`, `forge_trial_firmware`, `forge_recovery_stage_review`, `_hold`) | the boot files by what the firmware makes of them | compile, review, write phase by phase | staging, boot commit | every intermediate card is booted once by a reset | the firmware always finds one complete system |
| **Boot commit** (`forge_recovery_bootcommit`, `_commit_*`) | channel, ledger, mount, FAT contents, lease budget | prepare, approve, commit, fence, inspect | lease, claim | reset with the mount dirty; reconciliation beside a live worker | verdicts are true; the lease outlives the mount |
| **Boots, holds and reboots** (`forge_held_reboot*`, `forge_normal_*`, `forge_recovery_bootplan`, `forge_session_enrollment`, `forge_ram_*`) | the boot, what selected it, enrollment, plans, tickets | enroll, prepare, commit, reboot, verify | boot commit, lease, ledger | a late reboot worker in a later boot; two plans in one boot | reboots happen where approved, evidence is true of its boot |
| **Campaign and policies** (`forge_recovery_jobs`, `forge_*_policy`, `forge_recovery_restore_plan`, `_reconcile`) | the journals of one card, the evidence read of it | compile, approve, dispatch, reconcile, release | all of the above | a writer that died after its cache was read back | a card returns to the normal system on a whole root only |

### What is read from and written to the card

| component | state | operations | interacts with | hard | correct when |
|---|---|---|---|---|---|
| **Root restoration** (`forge_recovery_restore_*`) | pipes, journals of both sides, RAM ledger, chunks written and synchronized | dispatch, stream, challenge, complete, reconcile | lease, ledger, claim | one channel for data and control; a cached chunk that matches; drift of the card | completion is durable, only the approved card is written, nobody waits for ever |
| **Backup and hashes** (`forge_recovery_backup`, `_hash`, `_layout`, `_claim`) | two storage jobs with workers, archive, receipts, snapshot | read, verify, adopt | claim, writers, reboots | a reader of an earlier boot beside a writer; a stream that breaks and is adopted | a verified record is one moment of the approved boot |
| **Derived images** (`forge_backup_source`, `forge_recovery_restore_source`, `_filesystems`, `_archive*`) | archive, records, image and copies with their stamps | identify, extract, check, stream | the owner's directory, which anybody writes | exchange between check and use | all that is derived is of the bytes the pin names |
| **Derivative deployment** (`forge_recovery_derivative*`, `forge_derivative_prepare`, `forge_recovery_deploy_plan`) | image, archive, copy, manifest, plan | seal, check health, plan, deliver | restoration | the same, and differences outside the root | a delivered chunk is of an image sealed and found clean |

### The host

| component | state | operations | interacts with | hard | correct when |
|---|---|---|---|---|---|
| **Job controller** (`forge_controller`, `forge_history`) | jobs, busy paths and machines, futures, history rows | submit, run, cancel, retire, close | every operation is a job of it | callbacks in whichever thread comes last; failing history commits | exclusive work, honest history, every job ends |
| **Workspace** (`forge_workspace`, `forge_boot`, `forge_runtime`) | disk and boot files, checkpoints, restore journal, inherited lock | checkpoint, restore, recover, refresh, launch | controller, guest jobs | power loss between two directory operations; a launcher that dies before its QEMU | a pending restore can be finished, nothing is lost, a guest is alone |
| **Guest jobs** (`uconsole_agent`, `forge_guest_*`, `forge_runtime`) | one shell, typed lines, a job directory, a supervisor, a process group | execute, upload, cancel, stop | workspace, controller | a line that runs after the host gave up; cancellation against completion | one line at a time, answers mean quiet |
| **Window** (`uconsole_workbench`, `forge_dispatch`) | runtimes, jobs, console, replay, owner queue | boot, stop, replay, poll, adopt, release, close | controller, agents | modal dialogs are nested event loops; jobs finish between two polls | one reader per console, live QEMUs are owned, *nothing* means nothing |
| **Attachment and MCP** (`forge_local`, `uconsole_mcp`, `forge_client`) | connections, slots, sessions, calls | connect, accept, call, reply, idle out, close | window's queue | close while calls wait for the thread that closes | slots are conserved, closing is clean |
| **Panels** (`forge_recovery_gui`, `forge_target_gui`, `forge_recovery_stage_gui`) | review, question, registry of approvals, one job, enrollment | review, ask, approve, run, poll | controller, files anybody rewrites | a file rewritten between review, question, approval and use | what was executed was displayed and approved |
| **Setup and preparation** (`workbench_setup`, `_wizard`, `_onboarding`, `uconsole_emulator`) | consents, stages, child process, cache, workspace, QEMU | download, install, prepare, configure, boot, cancel | packages, network, a window that dies | two windows' workers on one workspace; a damaged cache | prepared means whole; cancelled means nothing more begins |

### The keyboard

| component | state | operations | interacts with | hard | correct when |
|---|---|---|---|---|---|
| **Firmware** (`Code/uconsole_keyboard`) | matrix, pick maps, Fn, lock, volume, report, one debounce timer | press, release, PD2, scan | USB host | Fn and the lock moving under held keys; contacts moving during a scan | Fn needs a switch, what is held can be released, bounces do not pass |
| **Deck and bridge** (`forge_keyboard_gui`, `_host`, `forge_keyboard`) | held contacts, queue, pending releases, job, bridge | type, click, wheel, focus loss, poll, deliver | controller, firmware oracle, guest | partial delivery, queue overflow, an agent between two entries | the display shows what the guest holds; typing never mixes with clicks |

### Not modelled

Each has its reason, in `PROJECT.json` too:

* *No second actor or no lasting state*: the unleased watchdog and its handoff
  (one device opened once), host tasks (a child process whose cancellation is
  the controller's), `LeasePulse` (decides only when to renew), the setting up
  of boot privacy (one file changed by the modelled kind of worker; its
  reversal is modelled in Staging), downloads and listings of guest jobs.
* *Sequential computation over data*: recovery image builds, emulator images
  and exports, service authoring, HID encodings, the replay schedule, the AT
  interpreter of the modem and its scenarios, the JSON of policies.
* *Pure I/O or views*: audio, schematic, help, diagnostics, terminal drawing,
  menus and wording, validators and probes, packaging, the QEMU devices, the
  flashing scripts.
* *Out of the bounds of a module although its component is modelled*: the
  firmware's trackball, key-slot table and joystick; QEMU's command line and
  platform discovery; a power loss during setup.

## 2. Modules

    AttemptLedger ◁ (INSTANCE) ImageOperation ── refines ── ImageRegister
    Lease ◁ LeaseEndpoint ◁ LeaseTimers ◁ RecoverySession
    ServicePlans ◁ ServiceTransaction                   (◁ : is used by)

    harness             components side by side                   theorems
    MCOperations        ImageOperation, FileTransition, GuestJob  ImageOperationProofs
    MCRecoverySession   RecoverySession                           RecoverySessionProofs
    MCBoot              BootCommit, HeldBoot, BootRecipe,         BootCommitProofs
                        Campaign
    MCRestoreTransfer   RestoreTransfer, BackupSource,            RestoreTransferProofs
                        Derivative
    MCWorkspace         Workspace, ServiceTransaction             WorkspaceProofs
    MCStaging           Staging, Backup                           StagingProofs
    MCWorkbench         Workbench, Attachment, Panels, Startup    PanelsProofs
    MCController        JobController, KeyboardFirmware,          ControllerProofs
                        KeyboardDebounce, KeyboardDeck

Where a harness holds several components, its proof module extends the harness
itself, so a theorem names the very definition that the run checks. It speaks of
the component's own specification (`H!Spec`, `W!Spec`, …) and of every value of
its constants: the values of a run stand in its `.cfg` only. (The one constant
that a harness fixes is FileTransition's `LateStart`, see *Observed*.)

* **AttemptLedger** — `run` and `fence` as the steps between two durable
  records. A record is absent, torn, loose (readable, never synchronized) or
  whole; a kill leaves the first three, a power loss drops or keeps the loose.
* **ImageOperation** — the host's history (`dispatch`, `reconcile`), calls that
  time out, workers that arrive later, and the image with its name and its
  durability. Its target side *is* the ledger: `ImplementsLedger` is checked and
  proved. **ImageRegister** is what the owner is promised: a register with at most
  one open attempt, closed by agreeing on what is there.
* **FileTransition** — one call after the other, each with a worker that takes
  one step per file operation; a scratch file is partial, full, synced or
  linked, and the next worker recognises it by its journaled name.
* **Lease**, **LeaseEndpoint**, **LeaseTimers** — the grant as a value; check,
  publish and acknowledge with time passing in between; the software timer, the
  keeper of the hardware watchdog, and the supervisor. Requests are arbitrary.
  **RecoverySession** replaces them by those the durable session on the host
  sends, and is shown to be a LeaseTimers.
* **JobController** — a job passes named phases from `submit` to the end of
  its cleanup; a `finished` callback runs in the worker's, the canceller's or
  `close()`'s thread, as in `concurrent.futures`.
* **ServiceTransaction** runs the plans of **ServicePlans** (the phases that
  `forge_target_service_compile` generates for a new and an updated unit).
  systemd is abstract: load, enablement and activity of one unit, a manager
  that may have read older files, a start or stop job that may outlive its
  `systemctl`.
* **BootCommit** — time in units of ten seconds; the lease counts down, and
  its end resets the target.
* **HeldBoot** — boots are numbered, the host only sees that two differ. Plans
  of the selector pass preparation, commit, the owner's ticket, reboot and
  verification; the commit itself is a worker under the target's locks.
* **BootRecipe** — a configuration is what its last assignments select; a step
  writes one file of one phase or the selector. It starts from 576 cards.
* **Campaign** — journals that are dispatched once, evidence files read from
  the target, policies compiled from them, and writers whose synchronizations
  may not have happened. It ties the components of a recovery boot together at
  the level of their receipts, the way the policies do.
* **RestoreTransfer** — pipes are sequences of message types; what is written
  and what is synchronized are different.
* **BackupSource**, **Derivative**, **Backup** — blocks of the card are 0 or 1, a
  checksum is the bytes it is of, a fingerprint is a file with its stamp, which
  every write changes. Anybody may write or exchange the files at any step.
* **Workspace** — a file's content is the version of the disk it belongs to;
  `wsLog` and `cpLog` are the directory states a power loss may leave.
* **GuestJob** — lines typed to the one shell, run in order but at any time.
* **Staging** — the host's record files, the target's ledger in `/run`, which
  every boot empties, and one record per command on the way.
* **Workbench** — a step is one Tk callback, one job step, one agent's call or
  one event of a VM; a modal dialog suspends the action that opened it.
  **Attachment** is the listener and its threads, **Panels** the two panels
  with every dialog and what its job does to the files they review,
  **Startup** the setup window with its jobs, child processes and QEMU.
* **KeyboardFirmware** — a step is one debounced contact change with the whole
  handler. **KeyboardDebounce** is the scan below it. **KeyboardDeck** — a step
  is one Tk callback, one job step or one delivery.

Each module's `TypeOK` documents its state. `MC*` modules supply the constants.
Several harnesses check components that do not interact *side by side*: a
variable `part` says which of them moves, so the run is the disjoint union of
their state spaces, and each part's properties are checked in it. Components
that do interact are composed in a module: ledger with image operation, lease
with session, window with queue of calls, staging with its attempts, campaign
with its boots.

## 3. Runs

Nine runs pass, three end in a violation that is a finding.

| run | properties | bounds, and why they are enough |
|---|---|---|
| operations: **image** | ImplementsRegister, ImplementsLedger | 3 attempts, 5 calls: an uncertain apply, its fence, a restore, a second uncertain one; one further worker of an earlier call is always possible |
| operations: **files** | FilesAsAcknowledged | a file created, one replaced, one removed; 4 dispatches: apply, its retry, restore, its retry; one foreign edit |
| operations: **guest** | OneLineAtATime, EveryOperationEnds | two operations, a script of three processes: one process beyond parent and child escapes a census |
| recovery_session | ResetInTime, SessionAgrees, EverySessionEnds, ImplementsTimers | 2 renewals, Term 2, cap 3, watchdog 1, clock to 5: a lost reply, its retry, an orphan behind it, the cap; the clock runs past every deadline plus the watchdog, so the liveness is not cut off |
| job_controller | Exclusive, HistoryHonest, EveryJobEnds | 3 jobs (two share a workspace, two a target), 2 workers, 2 places in memory (128 in the code): conflict on each resource, a queued job that is cancelled, one that retires |
| boot: **commit** | VerdictIsTrue, LeaseOutlivesMount | the code's own times in tens of seconds, 2 resets: one during the attempt, one between fence and inspection |
| boot: **held** | RebootsWhereApproved, EvidenceIsTrue | two plans, four boots: the recovery, the held one, the normal one, and one more in which a late worker may strike |
| boot: **recipe** | WholeBoots | every card the backup may have shown (576), all four phases, the held selector and the way back |
| boot: **campaign** | NormalIsWhole | three journals, three boots, three reads of evidence, one root plan at a time (see *Observed*): hold, root transfer, its reconciliation or the release |
| restore_transfer: **transfer** | CompletionIsDurable, WritesAsApproved, NeverBothWait | two plans, two chunks, one reset; each plan has a chunk the card already holds, so the skip is taken |
| restore_transfer: **source**, **derivative** | DerivedIsTheBackup, DeployedIsQualified | three interferences: exchange, use, and putting back |
| workspace: **workspace** | PendingIsFinishable, GuestAlone, NothingLost | two processes (symmetric), one user checkpoint, two safety checkpoints, two disk versions, disk and two artifacts: a replacement before, between and after the others |
| workspace: **service** | ActedOnce, AcknowledgedIsTrue | a new service and an update of a running one, 4 dispatches, 1 failure of the service: an apply retried, then restored, with a late worker of each |
| staging: **staging** | StagedIsSound | two phases (a file and the selector that names it), three boots: preparation, cleanup, and the mount that shows the restored fstab; others change a boot file while a command holds the locks, or the last phase's in the prepared boot |
| staging: **storage** | SnapshotIsWhole | two jobs: a hash beside a backup of the card or of its root, the card beside its root, two of the root; two boots, one foreign write: the shortest that tears a reading |
| workbench: **window** | ConsoleExclusive, NothingMeansNothing, LiveIsOwned | two calls, two VMs, a queue of one: one call runs, one waits, one is refused |
| workbench: **attachment** | ConnectionsEnd | three connections for two slots |
| workbench: **panels** | ExecutedWasReviewed | two contents, three boots, one panel per behaviour beside the agents |
| workbench: **setup** | PreparedIsWhole, CancelStops | two starts, one window that dies; the cache empty, whole, damaged, or partial without an archive; a built host has its packages |
| keyboard | HeldIsPicked, BounceIsFiltered, DeckIsTrue | six contacts, one of each class whose handling shares state (Fn, Esc, two Shifts, Volume and a PD2 button); two columns, debounce 3 of a narrow clock of 8 and a wide of 16; one key, one button, three contacts, two held and one queued (32 and 64 in the code, limits of the same tests) |
| workbench_visible, setup_asked, keyboard_release | BootBecomesVisible, AskedFirst, ReleaseKeepsIdentity (violated) | as above, the one part moving |

What they show:

* **operations** — through lost calls, kills, failed syncs and power losses the
  image operation is the register of the owner and runs the ledger of the
  target; an acknowledged plan's files are as it says or as somebody else left
  them; the guest's channel never holds two lines, an answer other than
  *uncertain* means that nothing of the operation runs any more, and every
  operation ends whatever the guest does.
* **recovery_session** — host and target differ by the one durable pending
  request. An armed session ends in a reset, less than two watchdog timeouts
  after its deadline: two, because the keeper may stall between its check and
  its keepalive.
* **job_controller** — no order of cancel, callback registration and close
  strands a job or lets two functions work on one resource; the durable row
  claims only what happened, also for a job that memory has dropped.
* **boot** — a complete reconciliation of a commit reports what is on the card,
  and 90 seconds cover layout check, alarm and unmount; a reboot ends the boot
  its plan is bound to, at most once, and evidence is true of its boot; a reset
  between any two file operations of a recipe finds one complete system; a card
  goes back to the normal system on a whole root.
* **restore_transfer** — an acknowledged root is the source's and durable, the
  first byte is written on the approved card only and never on a root left in
  part in that boot, and the two sides never wait for each other; whatever is
  exchanged or rewritten, what is derived and deployed is the sealed bytes.
* **workspace** — recovery never meets a file that is neither staged nor
  replaced; a disk content goes away only with a durable checkpoint of it;
  killed, refused or late, workers never start or stop a service a second time
  in a direction.
* **staging** — the selector is never on disk without what it names, and the
  files are durable when no attempt is open, however late a command of an
  earlier boot arrives; a verified reading is one moment of the card.
* **workbench** — a console has one reader; a client told that nothing started
  is right for good; slots are conserved and closing never waits for itself;
  nothing is executed that was not displayed and approved, though the file may
  be rewritten at any moment; a workspace that counts as prepared is whole,
  whatever windows and workers died; after a cancellation nothing more begins.
* **keyboard** — Fn cannot stick, what the host holds some contact's release
  lets go of, the deck's display agrees with the guest.

`CHECK_DEADLOCK FALSE` stands where the system may really stop: everyone may
finish, give up or be dead, and bounded counters run out.

### Findings

* *workbench_visible*: the docs say that a remote boot "becomes visible in the
  GUI after boot completion" (`docs/forge-agents.md`). When the window releases an exited emulator in the
  same poll in which an agent's boot completes, the adoption is skipped
  and never made up (`uconsole_workbench.py:286`).
* *setup_asked*: `workbench_setup.py:163` asks before a download only when the
  archive is missing; a cached archive that does not match its digest is
  downloaded again without a question.
* *keyboard_release*: `keyboard_action` records a press in the pick map before it
  looks at the code, and the Fn codes of Space and Esc handle presses only. A
  plain Space after Fn+Space is therefore never released at the host, against the
  rule the tests of the firmware oracle name ("Fn release identity",
  `tests/test_keyboard_oracle.py:90`). `HeldIsPicked` states what does hold.

### Observed

Met while modelling, without a run of their own:

* *Campaign with four journals*: `NormalIsWhole` fails after 26 steps. A deploy
  plan A is dispatched in boot 2 and never runs; in boot 3 a plan B writes every
  chunk and dies before its last synchronization. Reconciling the *old* plan A
  reads the root as the source's, from the cache, and asks for no new recovery
  boot, because `forge_recovery_restore_reconcile.py:91` compares the boot of
  the reconciled plan only; a release is then prepared on a root that is not
  durable (docs/forge-agents.md:308-309 and docs/emulator-device-plan.md:1112
  ask for a new boot after an incomplete writer). The run's bound, three
  journals and one root plan at a time, keeps it out; *NormalStaysWhole* proves the
  property wherever this case does not occur.
* The single-file transition is checked without workers that start after their call
  ended (`LateStart`): with them a reversed plan can be applied again
  (`forge_target_ssh.py:46`; docs/forge-agents.md:800 leaves it to the owner).
* `BounceIsFiltered` speaks of the first 65,536 ms: `keyboard.ino:112` compares
  a 32-bit clock with a 16-bit stamp, and the filter passes everything after.
* In a guest job the census can miss a process that the script forks from a
  TERM trap between its two reads (`forge_guest_worker.py`, `members`).
* The window's `close` looks for an agent's job before its modal questions, not
  after (`uconsole_workbench.py:1330`), and choosing a replay schedule writes
  back a runtime that may be stale (744-757): `LiveIsOwned` exempts it.
* Backup checks compare their inputs before and after only, and a partition
  copy is opened again by name with a check of its size.
* Setup: `prepare` writes base image and `machine.json` without a
  synchronization, `base_sha256` is not compared at launch, and the display
  setup replaces `machine.json` without one, so that a power loss may leave it
  empty (`uconsole_emulator.py:504`); when the log directory cannot be made,
  `begin` leaves the flow active without a stage until it is cancelled.
* Staging: three ways to wedge a preparation (an out-of-order phase,
  reconciling a settled attempt again after later phases, a restore sent before
  its apply), which the docs cover by "conflicts remain blocked".
* After a torn root the guided policy cannot prepare a restoration: it asks for
  the hashes of the hold's own guard.

## 4. Fairness

* LeaseTimers, RecoverySession: the clock (`Tick`), the watchdog hardware
  (`WatchdogFires`) and the scheduling of the software timer (`SoftPoll`).
  Nothing of the host, the keeper, the supervisor or the reboot command: each
  may stall for ever, which is what the watchdog is for.
* JobController: one weak fairness of `Scheduled`: while a pool thread, the
  thread that registers a callback or the sweep and end of `shutdown` can go
  on, one of them does. None is favoured, so nothing depends on the order in
  which threads are run. This assumes the functions of jobs return; each bounds
  its own calls by timeouts. Clients owe nothing.
* GuestJob: weak fairness of the host's own steps, whose waits all have
  timeouts, and strong fairness of the polling deadline, which is checked again
  and again between polls. Nothing of the guest.

The other specifications state safety only and have no fairness.

## 5. Proofs

For all values of the constants, checked by `tlapm` to the last leaf:

* **ImageOperationProofs**, any numbers of attempts and calls. *The ledger*, with
  attempts as nonces and calls as workers: `LedgerInv` joins that the lock has one
  holder (`LockHeld`), that a worker's stage agrees with the records it has written
  (`StageRecords`), that records come in order (`RecordOrder`), and that at most
  one effect is open, and only then an intent lacks its receipt. From it
  *ExecutedOnce*, *FenceIsFinal*, *ReceiptProves*, *EffectsSerialised*,
  *EffectsBeginAlone*. *The operation* implements it step by step
  (`LedgerRefined`), so these hold of it (*OperationRunsOnce*, *OperationFenced*,
  *OperationsSerialised*). It implements the owner's register too
  (`RegisterRefined`), which is harder: an answer must be known to be true of the
  image before the host reads it. `CallsMade` says what calls exist about which
  attempts, `Answers` what an answer proves, `Barred` that whatever still travels
  for a closed attempt meets its fence, and `ImageKnown` where the image lies
  before, during and after the one open effect.
  *The file transition*, any plan of files and calls (`LateStart` off): an
  acknowledged plan is on disk because a worker has done all files before its
  position (`FileWork`) and nobody is at work once a call was answered
  (`FileAnswers`): *FilesStayAsAcknowledged*. *Guest jobs*, any script and number
  of operations: an uncertain channel is never used again, a certain one holds at
  most the line that is waited for (`GuestChannel`), and a result in the job's
  directory is found by a census after which nothing was created (`GuestGroup`):
  *GuestAnswersMeanQuiet*.
* **RecoverySessionProofs**, any term, cap, watchdog and number of renewals.
  `ResetInTime` is not inductive: it speaks of now, while what limits the time
  is the keeper's last keepalive, issued after a check against a snapshot that
  may have been replaced meanwhile. `KeeperBounds` ties stage, snapshot and last
  keepalive together, `FileBounds` and `EndpointAgrees` say what a snapshot can
  be, `SoftBounds` does the same for the software timer and `StartupOrder`
  carries that nothing is granted before the watchdog is armed.
  *ExpiryIsNeverSpurious* is proved only: no timer gives up except for time.
  For the host session, `SInv` adds that the journal is ahead of the target
  by the pending request only (`Journaled`), that every request under way was
  journaled (`UnderWay`), and what a renewal being granted can be (`Granting`).
  From it *SessionsAgree*, and *TimersRefined*, through which the timers'
  theorems hold of the session: *SessionsEndInTime*, *SessionsExpireOnTime*.
* **ControllerProofs**. *The controller*, any jobs, paths, machines and pool size:
  `Exclusive` needs that a job from its submission to its release owns its
  entries of both lock tables (`Owned`); `HistoryHonest` needs what a phase says
  about row, result and function (`Progress`), what a row says by itself (`Rows`),
  and that only a committed job leaves memory (`Remembered`). *The firmware*, any
  subset of the keymap's switches: `PicksHeld` says when a contact may be on
  record at all (it is closed and the lock is off, unless its Fn layer is deaf to
  releases), so no press overwrites a code that the host still holds, and a
  release lets go of what it takes off the record (`ReportPicked`); `FnClosed`
  holds because the lock hides no release of Fn: *HeldStaysPicked*. *The filter*, any
  columns, debounce time and widths: what is sampled is either old or not
  younger than the timer that its change restarted (`SamplesTimed`):
  *BounceStaysFiltered*, an action property. *The deck*, any keys, contacts,
  limits, boots and resets: every queued entry fits what the one before it leaves
  held, and the last one leaves what the host keys hold (`Chained`, `Typed`); the
  guest is between what the deck shows and what it has sent, as long as they are
  linked (`Believed`), and holds nothing of the deck's without a working bridge
  (`BridgeTrue`) or when no deck is open (`DeckOwns`): *DeckStaysTrue*.
* **BootCommitProofs**. *The commit*, any lease, budget and timeouts with
  `Check + Window + Unmounting < Budget` (`TimeAssumption`; the runs take 10, 60
  and 10 of 90 seconds): `LeaseOutlivesMount` needs what is left in each phase of
  the worker (`Reserve`); `VerdictIsTrue` needs that from a fence on no worker
  holds the card and none can begin (`Barrier`, also stated as *FencedForGood*).
  *Boots and reboots*, any plans and boots: nobody changes the selector under a
  worker that has inspected it (`HeldLocked`), a plan only goes forward
  (`HeldOrder`), and what was enrolled or witnessed is of a boot after the one its
  plan is bound to (`HeldEnrolled`, `HeldWitnessed`): *RebootsStayApproved*,
  *EvidenceStaysTrue*. *The campaign*, any journals, boots and readings:
  *NormalStaysWhole* says `NoneBeside => NormalIsWhole`. The hypothesis is the
  case under *Observed*, spelled out: no transfer stays unfinished beside another
  root plan in the boot of a release. Without it the property is false with four
  journals: the policies look at one plan, and this is what they take for granted
  about the others. *The recipes* (no constants, any number of steps): once the
  draft is sealed the card is, beside the native configuration and command
  line, a prefix of the four steps over the backup (`Between`), or the hold
  (`RecipeInv`); that either of them is one complete system, with the one-shot
  flag or without, is then a matter of what the recipe contains
  (`SelectsNative`, `SelectsRecovery`): *AlwaysBootsWhole*.
* **RestoreTransferProofs**. *The transfer*, any plans, cards, sources and resets:
  while an attempt has its intent in the boot's ledger nobody else gets one before
  a reset (`Begun`), so whatever is not yet durable is the chunk this one worker is
  at (`Unsynced`, `Written`): *CompletionsAreDurable*, and as an action property
  *WritesAreApproved*. For *OneAlwaysSpeaks* the invariant is the conversation
  itself: `Conversing` says for every stage of a worker what lies in either pipe
  and what the host has noted meanwhile; that some side can always go on is read
  off it. *Sources and derivatives*, any number of interferences: what a check
  pinned is what was read, however often the files change in between
  (`SourcePinned`, `SourceMapped`; `DerivativeSealed`, `DerivativeChecked`,
  `DerivativeGiven`): *AlwaysTheBackup*, *OnlyTheQualified*.
* **WorkspaceProofs**, any processes, names, artifacts and versions. A power loss
  may combine any surviving state of the workspace with any of `checkpoints/`, so
  the invariant speaks of all pairs: where two states differ in the disk, each
  checkpoint directory that may survive holds both contents (`Differing`), and
  where a restore is pending, the old and the staged one (`Recoverable`). `Phases`
  carries what each step has prepared for the next, `Locks` that one process or
  the QEMU it left is at work, `GuestsFree` that a guest's writes meet no pending
  restore. From it *GuestsAreAlone*, *PendingAreFinishable* and, as an action
  property, *NothingIsLost*. *Service transactions*, any set of plans: an effect
  that may not be repeated was invoked at most once, and only under a durable
  intent (`ServiceActed`), and not yet where the intent has just become durable
  (`ServiceIntended`): *ActsOnce*. The place where a worker resumes is the least
  unfinished phase, which exists by well-founded induction (`Least`).
  `AcknowledgedIsTrue` needs where the plan is: phases are done in their order,
  so what the present one finds is what those before it leave, whichever
  direction the course is in (`CourseTrue`; files by `FilesAt`, the service by
  `ActiveAt`), and the manager's dependencies are behind the link only between the link's
  phase and the next reload (`GraphTrue`). What the plans
  have in common is `Coherent`: the run evaluates it over the nine plans that
  ServicePlans compiles. *AcknowledgedStaysTrue*.
* **StagingProofs**. *The staged files*, any phases and boots: `Dead` says when an
  attempt can change its file no more; a definite answer is about a dead attempt
  (`StagingSettled`), one attempt at a time has its intent open (`StagingOpen`),
  and while it may write, all earlier phases are staged and no later one is (`Fits`
  in `StagingOrder`): *StagedStaysSound*. *Readings of the card*, any jobs and
  boots: from its opening to its receipt a job is the only holder of what it reads
  (`StorageHeld`), so what it has read so far still is the card (`StorageRead`),
  and the record rests on receipt and archive (`StorageAccepted`):
  *SnapshotStaysWhole*.
* **PanelsProofs**. *The panels*, any contents and boots: consent is given in one
  dialog, and passes through the registry, a second dialog and a job before
  anything is executed; the invariant says each of them carries approved contents
  (`RegistryApproved`, `DialogApproved`, `JobsApproved`): *ReviewedFirst*. *The
  window*, any machines, calls and queue (`WindowInv`): who has the workspace's
  job has not polled it yet, and a job on the console has closed the window's own
  connection (`WorkAwaited`); a machine that an agent booted while the window held
  a dead one is adopted before the owner can act again (`StaleIsPolled`): *OneReader*,
  *NothingStaysNothing*, *MachinesAreOwned*. *The attachment*, any
  clients and slots: free slots and held connections add up to `MaxClients`
  (`SlotsHeld`, by cardinalities), and one connection at a time is between the
  accept thread and its worker (`AcceptsInTurn`): *ConnectionsAlwaysEnd*. *The setup*, any number
  of starts and deaths: one import and one desktop configuration is past its
  check at a time, and each has left the files as its step says (`ImportSteps`,
  `DesktopSteps`), and the window waits for one thing (`WaitsForOne`):
  *PreparedStaysWhole* and, as an action property, *CancelAlwaysStops*.

Assumptions: the named ASSUMEs and nothing else. They are the types of bounds and
constants, that distinguished values (no job, no machine, a plan's absent file)
lie outside the sets they are compared with, and four that say more:
`TimeAssumption` above, `LeaseAssumption` (a term is no longer than the cap),
`TransactionAssumption` with `PlanAssumption`, the shape of the plans that the
code compiles, and `SwitchesAssumption`, that switches are the keymap's. The
harnesses repeat those of the components they instantiate under a name of their
own (`HeldAssumption`, `FilesAssumption`, `GuestAssumption`,
`TransactionsAssumption`, `AttachmentAssumption`, `StorageAssumption`,
`SizesAssumption`, `InputAssumption`), so the runs evaluate them.

Only model-checked:

* liveness (`EverySessionEnds`, `EveryJobEnds`, `EveryOperationEnds`): fairness and
  ENABLED are out of the prover's reach;

## 6. What the models take for granted

* Flocks die with their process and are inherited by children; a synchronized
  file or directory survives; directory operations of one directory reach the
  disk in their order; nothing is lost silently.
* An SSH call does not outlive a reboot of the target (10 s connect timeout);
  Staging, Backup and HeldBoot do *not* assume this.
* JobController: a history is configured. BootCommit: a layout check takes at
  most ten seconds; BootCommit, RestoreTransfer: after a reset the target is in
  recovery again. RestoreTransfer: challenge numbers and lease sequence are
  abstracted; a renewal is asked for only where `progress` or the live budget
  may ask; an uncertain acceptance tells no more than none; the packet of a
  dispatch is delivered at most once.
* HeldBoot: the identity of a session in RAM is one comparison that succeeds
  in its own boot only. BootRecipe: `config.txt` has three meanings, a command
  line is the set of the kinds of its arguments. Campaign: the owner accepts no
  known filesystem errors.
* Backup: the layout of the card does not change; a check that finds it changed
  is one more failure. BackupSource, Derivative: a checksum tells any two
  contents apart, a stamp any two writes.
* ServiceTransaction: a service that failed by itself and a target that was
  rebooted are exempt from `AcknowledgedIsTrue`.
* Workspace: `configure_display` counts as a run of the guest; no QEMU is
  started outside the Workbench; extraction of the boot files is one step that
  may fail.
* GuestJob: operations of one runtime are serialised by the controller; a
  process told to terminate forks no more.
* Staging: the reviewed order of phases is not demanded of the approvals; a
  reply is lost once the host gave up; a query is replaced by a newer one.
* Panels: one panel is open per behaviour, beside the agents; nobody boots the
  machine outside the panel while an enrollment is in hand. Startup: desktop
  mode, no power loss, missing packages are one Boolean.
* KeyboardFirmware: PD2 does not move within a handler, six key slots never run
  out. KeyboardDebounce: the scan and the clock are scaled down alike.
  KeyboardDeck: reports are known by their contact; the agent uses a contact of its own.

## 7. Plan

Done in this order: ledger and image operation (the device all others are
built on), lease and session, controller, service transaction, boot commit,
root restoration, workspace, guest jobs, staging, keyboard; then file
transition, boots and holds, recipes, backup and what is derived from it,
window, attachment, panels, setup, campaign.

Left, by importance:

1. Compositions: boot commit and restoration over one ledger, claim and lease;
   a campaign whose journals are those of the detailed modules; the unleased
   watchdog and its handoff beside the lease timers.
2. Components: modem PDP state, the trackball and key slots of the firmware, a
   power loss during setup.
