---------------------------- MODULE MCController ----------------------------
(***************************************************************************)
(* The controller: three jobs, of which the first two share a workspace    *)
(* and the last two a physical target, on two worker threads and with room *)
(* for two in memory; and what keyboard jobs come from and end in.         *)
(* The deck: a plain key and one that needs Fn share a contact, with       *)
(* another they pass the limit of held contacts; one queued entry besides  *)
(* the one under way, a second VM and one USB reset.  The firmware: Fn and *)
(* the lock, whose Fn layer is deaf to releases, beside two Shifts and     *)
(* Volume, which share a state, and a button that PD2 turns into a key;    *)
(* and the few contacts that show what deafness does to a release.  Its    *)
(* debounce filter with two columns, so that one contact moves while the   *)
(* other's timer runs and between the two reads of a scan.                 *)
(* They are checked side by side; part says which of the four moves.       *)
(***************************************************************************)
EXTENDS JobController

CONSTANTS
  Switches, None,
  Columns, Debounce, Narrow, Wide,
  Key, Button, Contacts, Mapped, AgentContact, MaxHeld, MaxQueue, MaxBoots, MaxResets,
  j1, j2, j3, p1, p2, m1, fn, one, two, Parts
VARIABLES part,
          down, pick, fn_on, lock, select_on, sf_on, backlight, adjust, pd2, report, disturbed,
          closed, sampled, matrix, deing, de_time, now, col, age, first,
          deck, worker, bridge, vm, guest
K == INSTANCE KeyboardFirmware
F == INSTANCE KeyboardDebounce
D == INSTANCE KeyboardDeck WITH Contact <- Contacts
ASSUME SwitchesAssumption == K!SwitchesAssumption
ASSUME SizesAssumption == F!SizesAssumption
ASSUME InputAssumption == D!InputAssumption

MCPathOf == [j \in Job |-> IF j = j3 THEN p2 ELSE p1]
MCMachineOf == [j \in Job |-> IF j = j1 THEN NoMachine ELSE m1]
Shared == {"FN_L", "ESC", "GAME_A", "SHIFT_L", "SHIFT_R", "VOLUME"}
Deafened == {"FN_L", "SPACE", "U", "EMPTY"}
MCMapped == {{one}, {fn, one}, {two}}

keys == <<down, pick, fn_on, lock, select_on, sf_on, backlight, adjust, pd2, report, disturbed>>
filter == <<closed, sampled, matrix, deing, de_time, now, col, age, first>>
window == <<deck, worker, bridge, vm, guest>>

MCInit ==
  /\ part \in Parts /\ Init /\ K!Init /\ F!Init /\ D!Init
  /\ (part # "filter" => closed = {}) /\ (part # "firmware" => ~ pd2)
MCNext ==
  \/ part = "controller" /\ Next /\ UNCHANGED <<part, keys, filter, window>>
  \/ part = "firmware" /\ K!Next /\ UNCHANGED <<part, vars, filter, window>>
  \/ part = "filter" /\ F!Next /\ UNCHANGED <<part, vars, keys, window>>
  \/ part = "deck" /\ D!Next /\ UNCHANGED <<part, vars, keys, filter>>
MCSpec == MCInit /\ [][MCNext]_<<part, vars, keys, filter, window>>
FairSpec == MCSpec /\ Fairness

HeldIsPicked == K!HeldIsPicked
ReleaseKeepsIdentity == K!ReleaseKeepsIdentity
BounceIsFiltered == F!BounceIsFiltered
DeckIsTrue == D!DeckIsTrue
=============================================================================
