-------------------------- MODULE KeyboardFirmware --------------------------
(***************************************************************************)
(* The key handlers of the keyboard's microcontroller                      *)
(* (Code/uconsole_keyboard): keyboard_action and keypad_action turn every  *)
(* debounced change of a contact into calls of the USB library, through    *)
(* two key maps (default and Fn), a record of what each contact was        *)
(* pressed as (the pick maps), the keyboard lock and the mode switch PD2.  *)
(*                                                                         *)
(* One loop() runs trackball_task, keys_task and keyboard_task in turn and *)
(* handles each changed contact to completion, so a step is one contact.   *)
(* A contact stands for its class: the switches below have, between them,  *)
(* every case of the four switch statements that a key map can reach, save *)
(* the codes handled alike.  ctrl_timer is commented out in setup(), so    *)
(* the "lock" fields of Shift, Ctrl, Alt and Fn stay 0.  PD2 does not move *)
(* within one handler, and the USB library's six key slots do not run out. *)
(***************************************************************************)
EXTENDS Naturals, FiniteSets

CONSTANTS
    Switches,   \* the contacts under test, a subset of DOMAIN DefMap
    None        \* 0 in a pick map or in sf_on: nothing

\* keyboard_maps and keys_maps, default layer.
DefMap ==
    [SELECT |-> "_SELECT_KEY", VOLUME |-> "_VOLUME_M", ESC |-> "KEY_ESC",
     TAB |-> "KEY_TAB", COMMA |-> ",", U |-> "u", J |-> "j", Q |-> "q",
     SPACE |-> " ", FN_L |-> "_FN_KEY", FN_R |-> "_FN_KEY", EMPTY |-> "EMP",
     UP |-> "KEY_UP_ARROW", GAME_A |-> "_JOYSTICK_A",
     SHIFT_L |-> "_LEFT_SHIFT_KEY", SHIFT_R |-> "KEY_RIGHT_SHIFT",
     ALT |-> "_LEFT_ALT", MOUSE_L |-> "_MOUSE_LEFT"]

\* keyboard_maps and keys_maps, Fn layer.
FnMap ==
    [SELECT |-> "_PRINT_KEY", VOLUME |-> "_VOLUME_MUTE",
     ESC |-> "_FN_LOCK_KEYBOARD", TAB |-> "KEY_CAPS_LOCK",
     COMMA |-> "_FN_BRIGHTNESS_DOWN", U |-> "KEY_PAGE_UP", J |-> "KEY_END",
     Q |-> "q", SPACE |-> "_FN_LIGHT_KEYBOARD", FN_L |-> "_FN_KEY",
     FN_R |-> "_FN_KEY", EMPTY |-> "EMP", UP |-> "KEY_PAGE_UP",
     GAME_A |-> "_JOYSTICK_A", SHIFT_L |-> "_FN_SHIFT",
     SHIFT_R |-> "_FN_SHIFT", ALT |-> "_CMD_KEY", MOUSE_L |-> "_MOUSE_LEFT"]

\* The contacts read by keys_task; the others are in the 8 by 8 matrix.
Pad == {"UP", "GAME_A", "SHIFT_L", "SHIFT_R", "ALT", "MOUSE_L"}

VARIABLES
    down,       \* matrix_prev and keys_prev: the contacts handled as closed
    pick,       \* keyboard_pick_map and keys_pick_map
    fn_on, lock, select_on, sf_on, backlight,   \* Keyboard_state
    adjust,     \* setAdjustForHostCapsLock of the USB library
    pd2,        \* the mode switch on the back, HIGH or not
    report,     \* what the host was told is held and not told is let go
    disturbed   \* history: the lock or PD2 moved under a held contact

vars == <<down, pick, fn_on, lock, select_on, sf_on, backlight, adjust, pd2,
          report, disturbed>>
-----------------------------------------------------------------------------
\* The codes of the USB consumer page: one at a time, one release for all.
Consumer == {"_VOLUME_P", "_VOLUME_M", "_VOLUME_MUTE", "_FN_BRIGHTNESS_DOWN"}
Shifts == {"_LEFT_SHIFT_KEY", "KEY_RIGHT_SHIFT"}
Layer == {"_FN_LOCK_KEYBOARD", "_FN_LIGHT_KEYBOARD", "_FN_KEY"}
Deaf == {s \in Switches : FnMap[s] \in Layer}
PD2Keys == {"_SELECT_KEY", "_JOYSTICK_A"}
Codes == {DefMap[s] : s \in DOMAIN DefMap} \cup {FnMap[s] : s \in DOMAIN FnMap}

SwitchesAssumption == Switches \subseteq DOMAIN DefMap /\ None \notin Codes

\* What check_pd2() turns a code into; every other code stands for itself.
Output(k, high) ==
    CASE k = "_SELECT_KEY" -> IF high THEN " " ELSE "button9"
      [] k = "_JOYSTICK_A" -> IF high THEN "j" ELSE "button2"
      [] OTHER -> k

Outputs == {Output(k, h) : k \in Codes, h \in BOOLEAN} \cup {"_VOLUME_P"}

\* The code a contact has now: fn_on decides, at its press and at its release.
Current(s) == IF fn_on THEN FnMap[s] ELSE DefMap[s]

\* The early returns of the two handlers.
Ignored(s) ==
    \/ Current(s) = "EMP"
    \/ lock /\ (s \in Pad \/ Current(s) \notin {"_FN_KEY", "_FN_LOCK_KEYBOARD"})

Picked(s) == [pick EXCEPT ![s] = IF @ = None THEN Current(s) ELSE @]
-----------------------------------------------------------------------------
TypeOK ==
    /\ down \subseteq Switches
    /\ pick \in [Switches -> Codes \cup {None}]
    /\ {fn_on, lock, select_on, adjust, pd2, disturbed} \subseteq BOOLEAN
    /\ sf_on \in Shifts \cup {None}
    /\ backlight \in 0..2
    /\ report \subseteq Outputs

Init ==
    /\ down = {} /\ report = {} /\ pick = [s \in Switches |-> None]
    /\ fn_on = FALSE /\ lock = FALSE /\ select_on = FALSE /\ sf_on = None
    /\ backlight = 0 /\ adjust = FALSE /\ pd2 \in BOOLEAN /\ disturbed = FALSE
-----------------------------------------------------------------------------
\* A change the handlers return from at once; the contact is marked all the same.
Ignore(s) ==
    /\ Ignored(s)
    /\ down' = IF s \in down THEN down \ {s} ELSE down \cup {s}
    /\ UNCHANGED <<pick, fn_on, lock, select_on, sf_on, backlight, adjust, pd2,
                   report, disturbed>>

\* keyboard_release_core, keypad_release_core: what letting code k go does.
Let(k) ==
    /\ report' = CASE k \in Consumer -> report \ Consumer
                   [] OTHER -> report \ {Output(k, pd2)}
    /\ sf_on' = IF k \in Shifts THEN None ELSE sf_on
    /\ adjust' = IF k = "KEY_CAPS_LOCK" THEN FALSE ELSE adjust

\* Mutant: the release lets go of the code the contact has now.
LetCurrent(s, k) ==
    /\ Let(k)
    /\ pick' = [pick EXCEPT ![s] = None]

\* keyboard_release, keypad_release: the code the contact was pressed as, or,
\* when its press was not seen, the code k the contact has now.
LetPicked(s, k) ==
    /\ Let(IF pick[s] = None THEN k ELSE pick[s])
    /\ pick' = [pick EXCEPT ![s] = None]

\* The press of a code that holds something: a key, a button, a consumer code.
PressCode(s) ==
    LET k == Current(s)
        shifted == k = "_VOLUME_M" /\ sf_on # None
        told == IF shifted THEN "_VOLUME_P" ELSE Output(k, pd2)
    IN
    /\ ~Ignored(s) /\ s \notin down /\ k \notin Layer \cup {"_FN_SHIFT"}
    /\ down' = down \cup {s}
    /\ pick' = Picked(s)
    /\ report' = (report \ ((IF k \in Consumer THEN Consumer ELSE {})
                            \cup (IF shifted THEN Shifts ELSE {}))) \cup {told}
    /\ sf_on' = IF k \in Shifts THEN k ELSE sf_on
    /\ select_on' = (select_on \/ k = "_SELECT_KEY")
    /\ adjust' = (adjust \/ k = "KEY_CAPS_LOCK")
    /\ UNCHANGED <<fn_on, lock, backlight, pd2, disturbed>>

\* Its release, in whichever layer the contact is by then.
ReleaseCode(s) ==
    LET k == Current(s) IN
    /\ ~Ignored(s) /\ s \in down /\ k \notin Layer
    /\ down' = down \ {s}
    /\ LetPicked(s, k)
    /\ select_on' = (select_on /\ k # "_SELECT_KEY")
    /\ UNCHANGED <<fn_on, lock, backlight, pd2, disturbed>>

\* Shift pressed with Fn held: its handler lets go, pressed or released.
PressFnShift(s) ==
    /\ ~Ignored(s) /\ s \notin down /\ Current(s) = "_FN_SHIFT"
    /\ down' = down \cup {s}
    /\ LetPicked(s, "_FN_SHIFT")
    /\ UNCHANGED <<fn_on, lock, select_on, backlight, pd2, disturbed>>

\* Fn, the keyboard lock and the light act at the press.
PressLayer(s) ==
    LET k == Current(s) IN
    /\ ~Ignored(s) /\ s \notin down /\ k \in Layer
    /\ down' = down \cup {s}
    /\ pick' = Picked(s)
    /\ fn_on' = (fn_on \/ k = "_FN_KEY")
    /\ lock' = IF k = "_FN_LOCK_KEYBOARD" THEN ~lock ELSE lock
    /\ backlight' = IF k = "_FN_LIGHT_KEYBOARD" THEN (backlight + 1) % 3
                    ELSE backlight
    /\ disturbed' = \/ disturbed
                    \/ lock' # lock /\ \E t \in down : DefMap[t] # "_FN_KEY"
    /\ UNCHANGED <<select_on, sf_on, adjust, pd2, report>>

\* Their release: only Fn does anything, and nothing clears the pick map.
ReleaseLayer(s) ==
    LET k == Current(s) IN
    /\ ~Ignored(s) /\ s \in down /\ k \in Layer
    /\ down' = down \ {s}
    /\ fn_on' = (fn_on /\ k # "_FN_KEY")
    /\ UNCHANGED <<pick, lock, select_on, sf_on, backlight, adjust, pd2, report,
                   disturbed>>

\* Somebody moves the mode switch.
FlipPD2 ==
    /\ pd2' = ~pd2
    /\ disturbed' = (disturbed \/ \E s \in Switches : pick[s] \in PD2Keys)
    /\ UNCHANGED <<down, pick, fn_on, lock, select_on, sf_on, backlight, adjust,
                   report>>

Next ==
    \/ FlipPD2
    \/ \E s \in Switches :
        \/ Ignore(s) \/ PressCode(s) \/ ReleaseCode(s) \/ PressFnShift(s)
        \/ PressLayer(s) \/ ReleaseLayer(s)

Spec == Init /\ [][Next]_vars
-----------------------------------------------------------------------------
\* Code k, at its press, told the host o.
Told(k, o) == k # None /\ (o = Output(k, pd2) \/ (o = "_VOLUME_P" /\ k = "_VOLUME_M"))

\* keyboard_pick_map, keys_pick_map: unless the lock or PD2 moved under a held
\* contact, whatever the host holds is recorded as some contact's code, so that
\* contact's next release lets go of it even if Fn moved in between.  Contacts
\* whose Fn layer is deaf to releases (Space, Esc) are ReleaseKeepsIdentity's.
\* And whatever layer, lock or mode the keyboard went through, Fn is on only
\* while one of its contacts is closed: the lock must not hide its release.
HeldIsPicked ==
    /\ ~disturbed =>
        \A o \in report : \E s \in Switches :
            Told(pick[s], o) \/ (s \in Deaf /\ o = DefMap[s])
    /\ fn_on => \E s \in down : DefMap[s] = "_FN_KEY"

\* What the oracle's tests ask of a release ("Fn release identity"): unless the
\* lock or PD2 moved, whatever the host holds belongs to a contact still closed.
ReleaseKeepsIdentity ==
    ~disturbed => \A o \in report : \E s \in down : Told(pick[s], o)
=============================================================================
