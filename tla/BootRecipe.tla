----------------------------- MODULE BootRecipe -----------------------------
(***************************************************************************)
(* What the plans of a recovery boot contain and what the firmware makes   *)
(* of them: the compilation of the alternate boot files from the backed-up *)
(* ones (forge_tryboot_recipe, forge_trial_firmware), their four guarded   *)
(* phases and the offline review of the sealed draft                       *)
(* (forge_recovery_stage_review), the held selector                        *)
(* (forge_recovery_hold, forge_recovery_bootplan) and the checks of its    *)
(* commit (forge_recovery_bootcommit).                                     *)
(*                                                                         *)
(* A configuration is what its last assignments select: the command-line   *)
(* file, whether a RAM image follows the kernel and which one, the         *)
(* firmware pair and the watchdog.  A command line is the set of the kinds *)
(* of its arguments.  How the phases are run is the module Staging, how a  *)
(* selector is committed BootCommit: here each is one guarded step.        *)
(***************************************************************************)
EXTENDS Naturals

VARIABLES
  card,       \* the boot files
  backup,     \* their preimages, captured before the draft
  draft,      \* the sealed transitions, {} when there are none
  begun       \* the owner has reviewed the draft and runs it

vars == <<card, backup, draft, begun>>

CONFIG == "config.txt"
CMDLINE == "cmdline.txt"
TRYBOOT == "tryboot.txt"
TRIAL_CMDLINE == "forge-trial-cmdline.txt"
AUTOBOOT == "autoboot.txt"
NATIVE == [start |-> "start4.elf", fixup |-> "fixup4.dat"]
FORGE == [start |-> "forge-start.elf", fixup |-> "forge-fixup.dat"]
Paths == {CONFIG, CMDLINE, TRYBOOT, TRIAL_CMDLINE, AUTOBOOT,
          NATIVE.start, NATIVE.fixup, FORGE.start, FORGE.fixup}

Absent == [kind |-> "absent"]
File(private, data) == [kind |-> "file", private |-> private, data |-> data]

(* Settings and arguments that somebody must flatten or review first.      *)
Indirect == {"include", "cmdline", "ramfsfile", "kernel_watchdog", "gpu_mem"}
Override == {"init", "emulator", "trial", "recovery", "watchdog", "initrd"}
Dropped == {"root", "rootwait", "quiet"}

(* The cards a target may have: its own files, and at most one that a      *)
(* recovery would make.                                                    *)
Card(odd, arguments, private, taken) ==
  [p \in Paths |->
     CASE p = CONFIG -> File(private, [cmdline |-> CMDLINE, image |-> "native", pair |-> NATIVE,
                                       watchdog |-> FALSE, odd |-> odd])
       [] p = CMDLINE -> File(private, {"console"} \cup arguments)
       [] p \in {NATIVE.start, NATIVE.fixup} -> File(private, {"native"})
       [] OTHER -> IF p = taken THEN File(private, {}) ELSE Absent]

Cards ==
  {Card(odd, arguments, private, taken) :
     odd \in {{}} \cup {{x} : x \in Indirect},
     arguments \in {Dropped, {}} \cup {Dropped \cup {x} : x \in Override},
     private \in BOOLEAN, taken \in Paths \cup {"none"}}

Init == card \in Cards /\ backup = card /\ draft = {} /\ begun = FALSE

-----------------------------------------------------------------------------
(* The compilers.                                                          *)

Compilable(b) ==
  /\ \A p \in {TRYBOOT, TRIAL_CMDLINE, AUTOBOOT, FORGE.start, FORGE.fixup} : b[p] = Absent
  /\ b[CONFIG].data.odd = {}
  /\ "root" \in b[CMDLINE].data /\ b[CMDLINE].data \cap Override = {}

PrivateMetadata(b) == \A p \in Paths : b[p] # Absent => b[p].private

(* Without the native root, its options and what would hide the recovery.  *)
RecoveryArguments(native) == (native \ Dropped) \cup {"ram", "trial", "recovery", "watchdog", "lease"}

(* The alternate, matched firmware pair and its watchdog.                  *)
FirmwareConfig(native) == [native EXCEPT !.pair = FORGE, !.watchdog = TRUE]

RecoveryConfig(native) ==
  [FirmwareConfig(native) EXCEPT !.cmdline = TRIAL_CMDLINE, !.image = "recovery"]

(* compile_recovery_recipe: the contents of the four files.                *)
Recipe(b) ==
  [p \in {FORGE.start, FORGE.fixup, TRIAL_CMDLINE, TRYBOOT} |->
     CASE p = TRIAL_CMDLINE -> RecoveryArguments(b[CMDLINE].data)
       [] p = TRYBOOT -> RecoveryConfig(b[CONFIG].data)
       [] OTHER -> {"bundle"}]

SelectorFirst == <<TRYBOOT, FORGE.start, FORGE.fixup, TRIAL_CMDLINE>>
Steps == <<FORGE.start, FORGE.fixup, TRIAL_CMDLINE, TRYBOOT>>

(* The card when the first n steps are staged.                             *)
Staged(b, n) ==
  [p \in Paths |-> IF \E i \in 1..n : Steps[i] = p THEN File(TRUE, Recipe(b)[p]) ELSE b[p]]

(* compile_hold: config.txt with the content of the staged selector.       *)
Held(b) == LET s == Staged(b, 4) IN [s EXCEPT ![CONFIG].data = s[TRYBOOT].data]

(* A transition guards every file, the ones it leaves alone included.      *)
Transition(name, before, after) == [name |-> name, before |-> before, after |-> after]

(* prepare_staging and compile_hold; compile_transition names the hold and *)
(* its reversal, the phases are reversed by the file executor.             *)
Compile(b) ==
  {Transition("apply", Staged(b, n - 1), Staged(b, n)) : n \in 1..4}
    \cup {Transition("restore", Staged(b, n), Staged(b, n - 1)) : n \in 1..4}
    \cup {Transition("install-hold", Staged(b, 4), Held(b)),
          Transition("release-hold", Held(b), Staged(b, 4))}

-----------------------------------------------------------------------------
(* The owner and the card.                                                 *)

Capture == draft = {} /\ backup' = card /\ UNCHANGED <<card, draft, begun>>

(* stage_prepare: the preimages are read again before the draft is sealed. *)
Prepare ==
  /\ draft = {} /\ Compilable(backup) /\ PrivateMetadata(backup) /\ card = backup
  /\ draft' = Compile(backup) /\ UNCHANGED <<card, backup, begun>>

(* stage_review.load: every transition is what the backup compiles to.     *)
Load ==
  /\ ~ begun /\ draft # {} /\ draft = Compile(backup) /\ begun' = TRUE
  /\ UNCHANGED <<card, backup, draft>>

Matches(t) == card = t.before

(* Only the files that differ are written.                                 *)
Execute(t) ==
  /\ begun /\ Matches(t)
  /\ card' = [p \in Paths |-> IF t.before[p] # t.after[p] THEN t.after[p] ELSE card[p]]
  /\ UNCHANGED <<backup, draft, begun>>

(* The running normal system updates its own configuration.                *)
Normal == card[CONFIG].data.image = "native"
Update ==
  /\ Normal
  /\ \/ \E x \in Indirect : card' = [card EXCEPT ![CONFIG].data.odd = {x}]
     \/ \E x \in {"quiet", "splash"} : card' = [card EXCEPT ![CMDLINE].data = {"root", "console", x}]
  /\ UNCHANGED <<backup, draft, begun>>

Next ==
  \/ Capture \/ Prepare \/ Load \/ Update
  \/ \E t \in draft : Execute(t)

Spec == Init /\ [][Next]_vars

-----------------------------------------------------------------------------
(* What the firmware makes of a card, with or without the one-shot flag.   *)

Selects(c, oneShot) ==
  LET f == IF oneShot /\ c[TRYBOOT] # Absent THEN c[TRYBOOT].data ELSE c[CONFIG].data
      arguments == IF c[f.cmdline] = Absent THEN {} ELSE c[f.cmdline].data
      pair == {IF c[f.pair[m]] = Absent THEN {} ELSE c[f.pair[m]].data : m \in {"start", "fixup"}}
  IN CASE f.image = "native" /\ "root" \in arguments /\ arguments \cap {"ram", "recovery"} = {}
            /\ pair = {{"native"}} /\ ~ f.watchdog -> "native"
       [] f.image = "recovery" /\ {"ram", "recovery", "trial", "watchdog", "lease"} \subseteq arguments
            /\ arguments \cap Dropped = {} /\ pair = {{"bundle"}} /\ f.watchdog -> "recovery"
       [] OTHER -> "broken"

(* Whatever transition the card stands between, and whatever the normal    *)
(* system did to its own files meanwhile, the firmware finds one complete  *)
(* system: the recovery through a selector that is in place, with its      *)
(* command line, firmware pair and watchdog, and the native one otherwise. *)
WholeBoots ==
  begun =>
    /\ Selects(card, FALSE) = IF Normal THEN "native" ELSE "recovery"
    /\ Selects(card, TRUE) = IF card[TRYBOOT] = Absent THEN "native" ELSE "recovery"
=============================================================================
