-------------------------- MODULE ControllerProofs --------------------------
(***************************************************************************)
(* Four parts of the Workbench, for every value of their constants.        *)
(*                                                                         *)
(* The controller: exclusion and the honesty of the history for any number *)
(* of jobs, paths, machines and worker threads.  Exclusive is not          *)
(* inductive: it needs that a job in any phase from its submission to its  *)
(* release is the one entry of the two lock tables.  The history is honest *)
(* because the phase of a job says what its row and its function can be.   *)
(*                                                                         *)
(* The firmware: what is on record for a contact says when it may still be *)
(* reported, which needs where the Fn layer is deaf to releases.           *)
(* The filter: no sample is younger than the timer its change restarted.   *)
(* The deck: each queued entry starts from what the one before it leaves,  *)
(* and the guest is between what the deck holds and what it sends.         *)
(***************************************************************************)
EXTENDS MCController, Integers, Sequences, FiniteSetTheorems, TLAPS

-----------------------------------------------------------------------------
(* The jobs (JobController).                                               *)

Phases == Working \cup {"new", "queued", "unhooked", "over", "lost"}
Ended == {"releasing", "finalizing", "publishing", "over"}

(* The types that the argument needs (the bound on memory is not).         *)
Types ==
  /\ phase \in [Job -> Phases]
  /\ result \in [Job -> Terminal \cup {"none"}]
  /\ busy \in [Path -> Job \cup {NoJob}]
  /\ targetBusy \in [Machine -> Job \cup {NoJob}]
  /\ history \in [Job -> Terminal \cup {"none", "queued", "running"}]

(* A job that was submitted and has not given back its locks owns them.    *)
Owned ==
  \A j \in Job : Holding(j) =>
    /\ busy[PathOf[j]] = j
    /\ MachineOf[j] # NoMachine => targetBusy[MachineOf[j]] = j

(* Only a job that is over with its row committed leaves memory.           *)
Remembered ==
  \A j \in Job :
    /\ phase[j] \notin {"new", "lost"} => j \in jobs \/ (phase[j] = "over" /\ j \in persisted)
    /\ j \in persisted => phase[j] \in Ended /\ history[j] = result[j] /\ result[j] \in Terminal

(* What the phase of a job says about its row, result and function.        *)
Progress ==
  \A j \in Job :
    /\ phase[j] \in {"new", "queued", "starting", "unhooked", "checking"} => j \notin began
    /\ phase[j] \in {"new", "queued", "starting", "unhooked", "checking", "executing"}
         => j \notin returned /\ history[j] \notin Terminal
    /\ phase[j] \in {"checking", "executing"} => history[j] = "running"
    /\ phase[j] \in {"recording", "unhooked"} => result[j] \in Terminal
    /\ phase[j] = "unhooked" => result[j] = "cancelled"
    /\ phase[j] = "recording" =>
         /\ result[j] = "completed" => j \in returned
         /\ result[j] = "cancelled" => j \notin returned

(* What a row says whatever became of its job.                             *)
Rows ==
  \A j \in Job :
    /\ history[j] \in {"none", "queued"} => j \notin began
    /\ history[j] = "completed" => j \in returned
    /\ history[j] = "cancelled" => j \notin returned

IInv == Types /\ Owned /\ Remembered /\ Progress /\ Rows

-----------------------------------------------------------------------------
LEMMA InitIInv == Init => IInv
  BY ControllerAssumption
  DEF Init, IInv, Types, Owned, Remembered, Progress, Rows, Phases, Holding, Terminal, Working

LEMMA StepIInv == IInv /\ [Next]_vars => IInv'
<1> SUFFICES ASSUME IInv, [Next]_vars PROVE IInv'
  OBVIOUS
<1> USE ControllerAssumption
    DEF IInv, Types, Phases, Ended, Terminal, Working, Goto
<1>1. ASSUME NEW j \in Job, Submit(j) PROVE IInv'
  <2> USE <1>1 DEF Submit, Free, Own, MakeRoom, Retirable, events, past
  <2>1. Types' OBVIOUS
  <2>2. Owned' BY DEF Owned, Holding
  <2>3. Remembered' BY DEF Remembered
  <2>4. Progress' BY DEF Progress
  <2>5. Rows' BY DEF Rows, Progress
  <2> QED BY <2>1, <2>2, <2>3, <2>4, <2>5
<1>2. ASSUME NEW j \in Job, SubmitRefused(j) PROVE IInv'
  <2> USE <1>2 DEF SubmitRefused, MakeRoom, Retirable, events, past, locks
  <2>1. Types' OBVIOUS
  <2>2. Owned' BY DEF Owned, Holding
  <2>3. Remembered' BY DEF Remembered
  <2>4. Progress' BY DEF Progress
  <2>5. Rows' BY DEF Rows, Progress
  <2> QED BY <2>1, <2>2, <2>3, <2>4, <2>5
<1>3. ASSUME NEW j \in Job, Hook(j) PROVE IInv'
  <2> USE <1>3 DEF Hook, past, locks
  <2>1. Types' OBVIOUS
  <2>2. Owned' BY DEF Owned, Holding
  <2>3. Remembered' BY DEF Remembered
  <2>4. Progress' BY DEF Progress
  <2>5. Rows' BY DEF Rows
  <2> QED BY <2>1, <2>2, <2>3, <2>4, <2>5
<1>4. ASSUME NEW j \in Job, Start(j) PROVE IInv'
  <2> USE <1>4 DEF Start, events, past, locks
  <2>1. Types' OBVIOUS
  <2>2. Owned' BY DEF Owned, Holding
  <2>3. Remembered' BY DEF Remembered
  <2>4. Progress' BY DEF Progress
  <2>5. Rows' BY DEF Rows
  <2> QED BY <2>1, <2>2, <2>3, <2>4, <2>5
<1>5. ASSUME NEW j \in Job, RecordRunning(j) PROVE IInv'
  <2> USE <1>5 DEF RecordRunning, events, past, locks
  <2>1. Types' OBVIOUS
  <2>2. Owned' BY DEF Owned, Holding
  <2>3. Remembered' BY DEF Remembered
  <2>4. Progress' BY DEF Progress
  <2>5. Rows' BY DEF Rows
  <2> QED BY <2>1, <2>2, <2>3, <2>4, <2>5
<1>6. ASSUME NEW j \in Job, Check(j) PROVE IInv'
  <2> USE <1>6 DEF Check, events, locks
  <2>1. Types' OBVIOUS
  <2>2. Owned' BY DEF Owned, Holding
  <2>3. Remembered' BY DEF Remembered
  <2>4. Progress' BY DEF Progress
  <2>5. Rows' BY DEF Rows, Progress
  <2> QED BY <2>1, <2>2, <2>3, <2>4, <2>5
<1>7. ASSUME NEW j \in Job, Execute(j) PROVE IInv'
  <2> USE <1>7 DEF Execute, events, locks
  <2>1. Types' OBVIOUS
  <2>2. Owned' BY DEF Owned, Holding
  <2>3. Remembered' BY DEF Remembered
  <2>4. Progress' BY DEF Progress
  <2>5. Rows' BY DEF Rows, Progress
  <2> QED BY <2>1, <2>2, <2>3, <2>4, <2>5
<1>8. ASSUME NEW j \in Job, RecordOutcome(j) PROVE IInv'
  <2> USE <1>8 DEF RecordOutcome, past, locks
  <2>1. Types' BY DEF Progress
  <2>2. Owned' BY DEF Owned, Holding
  <2>3. Remembered' BY DEF Remembered, Progress
  <2>4. Progress' BY DEF Progress
  <2>5. Rows' BY DEF Rows, Progress
  <2> QED BY <2>1, <2>2, <2>3, <2>4, <2>5
<1>9. ASSUME NEW j \in Job, Release(j) PROVE IInv'
  <2> USE <1>9 DEF Release, events, past
  <2>1. Types' OBVIOUS
  <2>2. Owned' BY DEF Owned, Holding
  <2>3. Remembered' BY DEF Remembered
  <2>4. Progress' BY DEF Progress
  <2>5. Rows' BY DEF Rows
  <2> QED BY <2>1, <2>2, <2>3, <2>4, <2>5
<1>10. ASSUME NEW j \in Job, Finalize(j) PROVE IInv'
  <2> USE <1>10 DEF Finalize, events, past, locks
  <2>1. Types' OBVIOUS
  <2>2. Owned' BY DEF Owned, Holding
  <2>3. Remembered' BY DEF Remembered
  <2>4. Progress' BY DEF Progress
  <2>5. Rows' BY DEF Rows
  <2> QED BY <2>1, <2>2, <2>3, <2>4, <2>5
<1>11. ASSUME NEW j \in Job, Publish(j) PROVE IInv'
  <2> USE <1>11 DEF Publish, events, past, locks
  <2>1. Types' OBVIOUS
  <2>2. Owned' BY DEF Owned, Holding
  <2>3. Remembered' BY DEF Remembered
  <2>4. Progress' BY DEF Progress
  <2>5. Rows' BY DEF Rows
  <2> QED BY <2>1, <2>2, <2>3, <2>4, <2>5
<1>12. ASSUME NEW j \in Job, CancelFuture(j) PROVE IInv'
  <2> USE <1>12 DEF CancelFuture, past, locks
  <2>1. Types' OBVIOUS
  <2>2. Owned' BY DEF Owned, Holding
  <2>3. Remembered' BY DEF Remembered
  <2>4. Progress' BY DEF Progress
  <2>5. Rows' BY DEF Rows
  <2> QED BY <2>1, <2>2, <2>3, <2>4, <2>5
<1>13. ASSUME NEW j \in Job, RequestStop(j) PROVE IInv'
  BY <1>13 DEF RequestStop, core, past, locks, Owned, Holding, Remembered, Progress, Rows
<1>14. ASSUME BeginClose \/ EndClose PROVE IInv'
  BY <1>14 DEF BeginClose, EndClose, events, past, locks, Owned, Holding, Remembered, Progress, Rows
<1>15. ASSUME Crash PROVE IInv'
  <2> USE <1>15 DEF Crash, past
  <2>1. Types' OBVIOUS
  <2>2. Owned' BY DEF Holding, Owned
  <2>3. Remembered' BY DEF Remembered
  <2>4. Progress' BY DEF Progress
  <2>5. Rows' BY DEF Rows
  <2> QED BY <2>1, <2>2, <2>3, <2>4, <2>5
<1>16. ASSUME UNCHANGED vars PROVE IInv'
  BY <1>16 DEF vars, core, events, past, locks, Owned, Holding, Remembered, Progress, Rows
<1> QED
  BY <1>1, <1>2, <1>3, <1>4, <1>5, <1>6, <1>7, <1>8, <1>9, <1>10, <1>11, <1>12, <1>13, <1>14,
     <1>15, <1>16
  DEF Next, Work, CancelQueued, Sweep

LEMMA Invariant == Spec => []IInv
  BY InitIInv, StepIInv, PTL DEF Spec

(* Two jobs never hold the same workspace or the same physical target,     *)
(* from submission to the cleanup that finished() does, through every      *)
(* cancellation, close and crash.                                          *)
THEOREM AlwaysExclusive == Spec => []Exclusive
<1>1. IInv => Exclusive
  BY ControllerAssumption DEF IInv, Owned, Exclusive
<1> QED BY Invariant, <1>1, PTL

(* No durable row claims what did not happen, and a job that was dropped   *)
(* from memory is answered from its row as it ended.                       *)
THEOREM HistoryAlwaysHonest == Spec => []HistoryHonest
<1>1. ASSUME IInv, NEW j \in Job, phase[j] = "over", j \notin jobs PROVE Status(j) = result[j]
  <2>1. history[j] = result[j] /\ result[j] \in Terminal
    BY <1>1 DEF IInv, Remembered
  <2>2. Status(j) = IF history[j] \in {"queued", "running"} THEN "unresolved" ELSE history[j]
    BY <1>1 DEF Status
  <2> QED BY <2>1, <2>2 DEF Terminal
<1>2. IInv => HistoryHonest
  BY <1>1 DEF IInv, Rows, HistoryHonest
<1> QED BY Invariant, <1>2, PTL

-----------------------------------------------------------------------------
(* The bound on memory: the set of jobs stays finite and within the limit. *)
Memory == TypeOK /\ IsFiniteSet(jobs)

LEMMA RoomIsSmaller ==
  ASSUME Memory, NEW room \in MakeRoom
  PROVE  /\ room \subseteq jobs /\ IsFiniteSet(room)
         /\ Cardinality(room) \in Nat /\ Cardinality(room) < Limit
<1>1. Cardinality(jobs) \in Nat /\ Cardinality(jobs) <= Limit
  BY FS_CardinalityType DEF Memory, TypeOK
<1>2. CASE Cardinality(jobs) < Limit
  BY <1>1, <1>2 DEF Memory, MakeRoom
<1>3. CASE ~ (Cardinality(jobs) < Limit)
  <2>1. PICK k \in jobs : room = jobs \ {k}
    BY <1>3 DEF MakeRoom
  <2>2. IsFiniteSet(room) /\ Cardinality(room) = Cardinality(jobs) - 1
    BY <2>1, FS_RemoveElement DEF Memory
  <2>3. Cardinality(jobs) # 0
    BY <2>1, FS_EmptySet DEF Memory
  <2> QED BY <1>1, <2>1, <2>2, <2>3, ControllerAssumption
<1> QED BY <1>2, <1>3

LEMMA InitMemory == Init => Memory
  BY FS_EmptySet, ControllerAssumption DEF Init, Memory, TypeOK, Working, Terminal

LEMMA StepMemory == Memory /\ IInv /\ [Next]_vars => Memory'
<1> SUFFICES ASSUME Memory, IInv, [Next]_vars PROVE Memory'
  OBVIOUS
<1>0. Limit \in Nat /\ NoJob \notin Job
  BY ControllerAssumption
<1> USE DEF Memory, TypeOK, Terminal, Working, Goto
<1>1. ASSUME NEW j \in Job, Submit(j) PROVE Memory'
  <2>1. PICK room \in MakeRoom : jobs' = room \cup {j}
    BY <1>1 DEF Submit
  <2>2. /\ room \subseteq jobs /\ IsFiniteSet(room)
        /\ Cardinality(room) \in Nat /\ Cardinality(room) < Limit
    BY <2>1, RoomIsSmaller
  <2>3. IsFiniteSet(jobs') /\ Cardinality(jobs') <= Limit
    <3> DEFINE n == Cardinality(room)
               m == Cardinality(room \cup {j})
    <3>1. IsFiniteSet(room \cup {j}) /\ m = IF j \in room THEN n ELSE n + 1
      BY <2>2, FS_AddElement
    <3>2. n \in Nat /\ n < Limit
      BY <2>2
    <3>3. m <= Limit
      <4> HIDE DEF m, n
      <4> QED BY <1>0, <3>1, <3>2
    <3> QED BY <2>1, <3>1, <3>3
  <2>4. jobs' \subseteq Job
    BY <2>1, <2>2
  <2> QED BY <1>1, <2>3, <2>4, ControllerAssumption DEF Submit, Own, events, past
<1>2. ASSUME NEW j \in Job, SubmitRefused(j) PROVE Memory'
  <2>1. PICK room \in MakeRoom : jobs' = room
    BY <1>2 DEF SubmitRefused
  <2>2. jobs' \subseteq Job /\ IsFiniteSet(jobs') /\ Cardinality(jobs') <= Limit
    BY <1>0, <2>1, RoomIsSmaller
  <2> QED BY <1>2, <2>2 DEF SubmitRefused, locks, events, past
<1>3. ASSUME NEW j \in Job, Hook(j) \/ Start(j) PROVE Memory'
  BY <1>3 DEF Hook, Start, locks, events, past
<1>4. ASSUME NEW j \in Job, RecordRunning(j) \/ Check(j) \/ Execute(j) PROVE Memory'
  BY <1>4 DEF RecordRunning, Check, Execute, locks, events, past
<1>5. ASSUME NEW j \in Job, RecordOutcome(j) PROVE Memory'
  BY <1>5 DEF RecordOutcome, locks, past, IInv, Progress
<1>6. ASSUME NEW j \in Job, Release(j) \/ Finalize(j) \/ Publish(j) PROVE Memory'
  BY <1>6 DEF Release, Finalize, Publish, locks, events, past
<1>7. ASSUME NEW j \in Job, CancelQueued(j) \/ Sweep(j) PROVE Memory'
  BY <1>7 DEF CancelQueued, Sweep, CancelFuture, locks, past
<1>8. ASSUME NEW j \in Job, RequestStop(j) PROVE Memory'
  BY <1>8 DEF RequestStop, core, locks, past
<1>9. ASSUME BeginClose \/ EndClose PROVE Memory'
  BY <1>9 DEF BeginClose, EndClose, locks, events, past
<1>10. ASSUME Crash PROVE Memory'
  BY <1>10, <1>0, FS_EmptySet DEF Crash, past
<1>11. ASSUME UNCHANGED vars PROVE Memory'
  BY <1>11 DEF vars, core, locks, events, past
<1> QED
  BY <1>1, <1>2, <1>3, <1>4, <1>5, <1>6, <1>7, <1>8, <1>9, <1>10, <1>11 DEF Next, Work

(* The controller keeps its types, and never more jobs in memory than its  *)
(* limit, whatever is submitted, retired or refused.                       *)
THEOREM TypeCorrect == Spec => []TypeOK
<1>1. Memory => TypeOK
  BY DEF Memory
<1> QED BY InitMemory, StepMemory, Invariant, <1>1, PTL DEF Spec

-----------------------------------------------------------------------------
(* The key handlers (KeyboardFirmware).                                    *)

IsFn(s) == K!DefMap[s] = "_FN_KEY"

KeysShape ==
  /\ down \subseteq Switches /\ pick \in [Switches -> K!Codes \cup {None}]
  /\ \A s \in Switches : pick[s] \in {None, K!DefMap[s], K!FnMap[s]} /\ pick[s] # "EMP"

(* What a contact was pressed as is on record only while it is closed and  *)
(* the lock is off, but where the Fn layer is deaf to releases.            *)
PicksHeld ==
  ~ disturbed => \A s \in Switches : pick[s] # None => s \in K!Deaf \/ (s \in down /\ ~ lock)

Known(o, s) == K!Told(pick[s], o) \/ (s \in K!Deaf /\ o = K!DefMap[s])
ReportPicked == ~ disturbed => \A o \in report : \E s \in Switches : Known(o, s)
FnClosed == fn_on => \E s \in down : IsFn(s)

KeysInv == KeysShape /\ PicksHeld /\ ReportPicked /\ FnClosed

(* The two key maps.                                                       *)
LEMMA Maps ==
  ASSUME NEW s \in DOMAIN K!DefMap
  PROVE  /\ K!DefMap[s] \in K!Codes /\ K!FnMap[s] \in K!Codes
         /\ K!DefMap[s] \in K!Layer <=> IsFn(s)
         /\ K!FnMap[s] = "_FN_KEY" <=> IsFn(s)
         /\ IsFn(s) => s \notin K!Pad
         /\ K!DefMap[s] = "EMP" <=> K!FnMap[s] = "EMP"
         /\ K!DefMap[s] # "_FN_SHIFT"
         /\ K!FnMap[s] \in K!Layer /\ ~ IsFn(s) => K!DefMap[s] \in {"KEY_ESC", " "}
<1>1. K!DefMap[s] \in K!Codes /\ K!FnMap[s] \in K!Codes
  BY DEF K!Codes, K!DefMap, K!FnMap
<1>2. s \in {"SELECT", "VOLUME", "ESC", "TAB", "COMMA", "U", "J", "Q", "SPACE", "FN_L", "FN_R", "EMPTY",
             "UP", "GAME_A", "SHIFT_L", "SHIFT_R", "ALT", "MOUSE_L"}
  BY DEF K!DefMap
<1>3. /\ K!DefMap["SELECT"] = "_SELECT_KEY" /\ K!DefMap["VOLUME"] = "_VOLUME_M"
      /\ K!DefMap["ESC"] = "KEY_ESC" /\ K!DefMap["TAB"] = "KEY_TAB"
      /\ K!DefMap["COMMA"] = "," /\ K!DefMap["U"] = "u"
      /\ K!DefMap["J"] = "j" /\ K!DefMap["Q"] = "q"
      /\ K!DefMap["SPACE"] = " " /\ K!DefMap["FN_L"] = "_FN_KEY"
      /\ K!DefMap["FN_R"] = "_FN_KEY" /\ K!DefMap["EMPTY"] = "EMP"
      /\ K!DefMap["UP"] = "KEY_UP_ARROW" /\ K!DefMap["GAME_A"] = "_JOYSTICK_A"
      /\ K!DefMap["SHIFT_L"] = "_LEFT_SHIFT_KEY" /\ K!DefMap["SHIFT_R"] = "KEY_RIGHT_SHIFT"
      /\ K!DefMap["ALT"] = "_LEFT_ALT" /\ K!DefMap["MOUSE_L"] = "_MOUSE_LEFT"
  BY DEF K!DefMap
<1>4. /\ K!FnMap["SELECT"] = "_PRINT_KEY" /\ K!FnMap["VOLUME"] = "_VOLUME_MUTE"
      /\ K!FnMap["ESC"] = "_FN_LOCK_KEYBOARD" /\ K!FnMap["TAB"] = "KEY_CAPS_LOCK"
      /\ K!FnMap["COMMA"] = "_FN_BRIGHTNESS_DOWN" /\ K!FnMap["U"] = "KEY_PAGE_UP"
      /\ K!FnMap["J"] = "KEY_END" /\ K!FnMap["Q"] = "q"
      /\ K!FnMap["SPACE"] = "_FN_LIGHT_KEYBOARD" /\ K!FnMap["FN_L"] = "_FN_KEY"
      /\ K!FnMap["FN_R"] = "_FN_KEY" /\ K!FnMap["EMPTY"] = "EMP"
      /\ K!FnMap["UP"] = "KEY_PAGE_UP" /\ K!FnMap["GAME_A"] = "_JOYSTICK_A"
      /\ K!FnMap["SHIFT_L"] = "_FN_SHIFT" /\ K!FnMap["SHIFT_R"] = "_FN_SHIFT"
      /\ K!FnMap["ALT"] = "_CMD_KEY" /\ K!FnMap["MOUSE_L"] = "_MOUSE_LEFT"
  BY DEF K!FnMap
<1>5. /\ K!DefMap[s] \in K!Layer <=> IsFn(s)
      /\ K!FnMap[s] = "_FN_KEY" <=> IsFn(s)
  BY <1>2, <1>3, <1>4, ZenonT(60) DEF K!Layer, IsFn
<1>6. IsFn(s) => s \notin K!Pad
  BY <1>2, <1>3 DEF K!Pad, IsFn
<1>7. K!DefMap[s] = "EMP" <=> K!FnMap[s] = "EMP"
  BY <1>2, <1>3, <1>4
<1>8. K!DefMap[s] # "_FN_SHIFT"
  BY <1>2, <1>3
<1>9. K!FnMap[s] \in K!Layer /\ ~ IsFn(s) => K!DefMap[s] \in {"KEY_ESC", " "}
  BY <1>2, <1>3, <1>4, ZenonT(60) DEF K!Layer, IsFn
<1> QED BY <1>1, <1>5, <1>6, <1>7, <1>8, <1>9

LEMMA EmptyIsCode == None # "EMP"
<1>1. "EMPTY" \in DOMAIN K!DefMap /\ K!DefMap["EMPTY"] = "EMP"
  BY DEF K!DefMap
<1> QED BY <1>1, Maps, SwitchesAssumption DEF K!SwitchesAssumption

LEMMA NowCoded ==
  ASSUME NEW s \in Switches
  PROVE  /\ K!Current(s) \in K!Codes /\ K!Current(s) # None
         /\ K!Current(s) \in {K!DefMap[s], K!FnMap[s]}
         /\ K!Current(s) = "_FN_KEY" <=> IsFn(s)
         /\ K!Current(s) \in K!Layer => s \in K!Deaf
         /\ K!Current(s) = "EMP" <=> K!DefMap[s] = "EMP"
         /\ IsFn(s) => ~ K!Ignored(s)
<1>1. s \in DOMAIN K!DefMap
  BY SwitchesAssumption DEF K!SwitchesAssumption
<1> QED BY <1>1, Maps, SwitchesAssumption DEF K!SwitchesAssumption, K!Current, K!Deaf, K!Ignored, K!Layer, IsFn

(* Letting go of what a contact was pressed as takes what it told the host *)
(* out of the report.                                                      *)
LEMMA LetsGo ==
  ASSUME KeysInv, NEW s \in Switches, NEW k, K!LetPicked(s, k), UNCHANGED <<pd2, disturbed>>
  PROVE  ReportPicked' /\ pick' = [pick EXCEPT ![s] = None] /\ report' \subseteq report
<1> DEFINE c == IF pick[s] = None THEN k ELSE pick[s]
<1>1. /\ pick' = [pick EXCEPT ![s] = None]
      /\ report' = IF c \in K!Consumer THEN report \ K!Consumer ELSE report \ {K!Output(c, pd2)}
  BY DEF K!LetPicked, K!Let
<1>2. \A t \in Switches \ {s} : pick'[t] = pick[t]
  BY <1>1 DEF KeysInv, KeysShape
<1>3. ASSUME NEW o \in report', ~ disturbed, K!Told(pick[s], o) PROVE FALSE
  <2>1. c = pick[s] /\ (o = K!Output(c, pd2) \/ (o = "_VOLUME_P" /\ c = "_VOLUME_M"))
    BY <1>3 DEF K!Told
  <2>2. CASE c \in K!Consumer
    <3>1. K!Output(c, pd2) = c
      BY <2>2 DEF K!Consumer, K!Output
    <3>2. o \in K!Consumer
      BY <2>1, <2>2, <3>1 DEF K!Consumer
    <3> QED BY <1>1, <2>2, <3>2
  <2>3. CASE c \notin K!Consumer
    <3>1. c # "_VOLUME_M"
      BY <2>3 DEF K!Consumer
    <3> QED BY <1>1, <2>1, <2>3, <3>1
  <2> QED BY <2>2, <2>3
<1>4. ASSUME NEW o \in report', ~ disturbed PROVE \E t \in Switches : Known(o, t)'
  <2>1. o \in report
    BY <1>1
  <2>2. PICK t \in Switches : Known(o, t)
    BY <1>4, <2>1 DEF KeysInv, ReportPicked
  <2>3. CASE t = s
    BY <1>3, <1>4, <2>2, <2>3 DEF Known, K!Deaf
  <2>4. CASE t # s
    BY <1>2, <2>2, <2>4 DEF Known, K!Told, K!Deaf
  <2> QED BY <2>3, <2>4
<1> QED BY <1>1, <1>4 DEF ReportPicked

(* A press that is recorded as what it tells the host.                     *)
LEMMA Recorded ==
  ASSUME KeysInv, NEW s \in Switches, ~ K!Ignored(s), pick' = K!Picked(s)
  PROVE  /\ \A t \in Switches \ {s} : pick'[t] = pick[t]
         /\ pick[s] # None => pick' = pick
         /\ pick[s] = None => pick'[s] = K!Current(s)
         /\ pick' \in [Switches -> K!Codes \cup {None}]
         /\ \A t \in Switches : pick'[t] \in {None, K!DefMap[t], K!FnMap[t]} /\ pick'[t] # "EMP"
<1>1. pick \in [Switches -> K!Codes \cup {None}]
  BY DEF KeysInv, KeysShape
<1>2. K!Current(s) # "EMP"
  BY DEF K!Ignored
<1>3. /\ \A t \in Switches \ {s} : pick'[t] = pick[t]
      /\ pick'[s] = IF pick[s] = None THEN K!Current(s) ELSE pick[s]
      /\ pick' \in [Switches -> K!Codes \cup {None}]
  BY <1>1, NowCoded DEF K!Picked
<1>4. pick[s] # None => pick' = pick
  BY <1>1, <1>3
<1> QED BY <1>2, <1>3, <1>4, NowCoded DEF KeysInv, KeysShape

LEMMA StillKnown ==
  ASSUME KeysInv, NEW s \in Switches, UNCHANGED pd2,
         \A t \in Switches \ {s} : pick'[t] = pick[t],
         pick[s] # None => pick' = pick,
         NEW o, \E t \in Switches : Known(o, t)
  PROVE  \E t \in Switches : Known(o, t)'
<1>1. PICK t \in Switches : Known(o, t)
  OBVIOUS
<1>2. CASE t = s /\ pick[s] = None
  BY <1>1, <1>2 DEF Known, K!Told, K!Deaf
<1>3. CASE t # s \/ pick[s] # None
  BY <1>1, <1>3 DEF Known, K!Told, K!Deaf
<1> QED BY <1>2, <1>3

LEMMA IgnoreKeepsKeys == ASSUME KeysInv, NEW s \in Switches, K!Ignore(s) PROVE KeysInv'
<1>1. /\ down' = IF s \in down THEN down \ {s} ELSE down \cup {s}
      /\ UNCHANGED <<pick, fn_on, lock, pd2, report, disturbed>> /\ K!Ignored(s)
  BY DEF K!Ignore
<1>2. KeysShape'
  BY <1>1 DEF KeysInv, KeysShape
<1>3. ~ IsFn(s)
  BY <1>1, NowCoded
<1>4. FnClosed'
  BY <1>1, <1>3 DEF KeysInv, FnClosed
<1>5. ReportPicked'
  BY <1>1 DEF KeysInv, ReportPicked, Known, K!Told, K!Deaf
<1>6. ASSUME ~ disturbed, s \in down, pick[s] # None, s \notin K!Deaf PROVE FALSE
  <2>1. ~ lock
    BY <1>6 DEF KeysInv, PicksHeld
  <2>2. K!Current(s) = "EMP"
    BY <1>1, <2>1 DEF K!Ignored
  <2>3. K!DefMap[s] = "EMP" /\ K!FnMap[s] = "EMP"
    BY <2>2, NowCoded, Maps, SwitchesAssumption DEF K!SwitchesAssumption
  <2> QED BY <1>6, <2>3 DEF KeysInv, KeysShape
<1>7. PicksHeld'
  BY <1>1, <1>6 DEF KeysInv, PicksHeld, K!Deaf
<1> QED BY <1>2, <1>4, <1>5, <1>7 DEF KeysInv

LEMMA PressKeepsKeys == ASSUME KeysInv, NEW s \in Switches, K!PressCode(s) PROVE KeysInv'
<1> DEFINE k == K!Current(s)
           shifted == k = "_VOLUME_M" /\ sf_on # None
           told == IF shifted THEN "_VOLUME_P" ELSE K!Output(k, pd2)
<1>1. /\ ~ K!Ignored(s) /\ s \notin down /\ k \notin K!Layer \cup {"_FN_SHIFT"}
      /\ down' = down \cup {s} /\ pick' = K!Picked(s)
      /\ report' \subseteq report \cup {told}
      /\ UNCHANGED <<fn_on, lock, pd2, disturbed>>
  BY DEF K!PressCode
<1>2. /\ \A t \in Switches \ {s} : pick'[t] = pick[t]
      /\ pick[s] # None => pick' = pick
      /\ pick[s] = None => pick'[s] = k
      /\ pick' \in [Switches -> K!Codes \cup {None}]
      /\ \A t \in Switches : pick'[t] \in {None, K!DefMap[t], K!FnMap[t]} /\ pick'[t] # "EMP"
  BY <1>1, Recorded
<1>3. KeysShape'
  BY <1>1, <1>2 DEF KeysInv, KeysShape
<1>4. FnClosed'
  BY <1>1 DEF KeysInv, FnClosed
<1>5. ~ lock
  BY <1>1 DEF K!Ignored, K!Layer
<1>6. PicksHeld'
  BY <1>1, <1>2, <1>5 DEF KeysInv, PicksHeld, K!Deaf
<1>7. ASSUME ~ disturbed, NEW o, o = told PROVE Known(o, s)'
  <2>1. CASE pick[s] = None
    BY <1>1, <1>2, <1>7, <2>1, NowCoded DEF Known, K!Told
  <2>2. CASE pick[s] # None
    <3>1. s \in K!Deaf
      BY <1>1, <1>7, <2>2 DEF KeysInv, PicksHeld
    <3>2. s \in DOMAIN K!DefMap /\ K!FnMap[s] \in K!Layer
      BY <3>1, SwitchesAssumption DEF K!SwitchesAssumption, K!Deaf
    <3>3. ~ IsFn(s)
      BY <1>1, NowCoded DEF K!Layer
    <3>4. K!DefMap[s] \in {"KEY_ESC", " "} /\ k = K!DefMap[s]
      BY <1>1, <3>2, <3>3, Maps, NowCoded
    <3>5. told = K!DefMap[s]
      BY <3>4 DEF K!Output
    <3> QED BY <1>7, <3>1, <3>5 DEF Known, K!Deaf
  <2> QED BY <2>1, <2>2
<1>8. ASSUME ~ disturbed, NEW o \in report' PROVE \E t \in Switches : Known(o, t)'
  <2>1. CASE o = told
    BY <1>7, <1>8, <2>1
  <2>2. CASE o # told
    <3>1. \E t \in Switches : Known(o, t)
      BY <1>1, <1>8, <2>2 DEF KeysInv, ReportPicked
    <3> HIDE DEF told
    <3> QED BY <1>1, <1>2, <3>1, StillKnown
  <2> QED BY <2>1, <2>2
<1>9. ReportPicked'
  BY <1>1, <1>8 DEF ReportPicked
<1> QED BY <1>3, <1>4, <1>6, <1>9 DEF KeysInv

LEMMA ReleaseKeepsKeys == ASSUME KeysInv, NEW s \in Switches, K!ReleaseCode(s) PROVE KeysInv'
<1>1. /\ down' = down \ {s} /\ K!LetPicked(s, K!Current(s)) /\ K!Current(s) \notin K!Layer
      /\ UNCHANGED <<fn_on, lock, pd2, disturbed>>
  BY DEF K!ReleaseCode
<1>2. ReportPicked' /\ pick' = [pick EXCEPT ![s] = None]
  BY <1>1, LetsGo
<1>3. KeysShape'
  BY <1>1, <1>2, EmptyIsCode DEF KeysInv, KeysShape
<1>4. ~ IsFn(s)
  BY <1>1, NowCoded DEF K!Layer
<1>5. FnClosed'
  BY <1>1, <1>4 DEF KeysInv, FnClosed
<1>6. PicksHeld'
  BY <1>1, <1>2 DEF KeysInv, KeysShape, PicksHeld, K!Deaf
<1> QED BY <1>2, <1>3, <1>5, <1>6 DEF KeysInv

LEMMA FnShiftKeepsKeys == ASSUME KeysInv, NEW s \in Switches, K!PressFnShift(s) PROVE KeysInv'
<1>1. /\ down' = down \cup {s} /\ K!LetPicked(s, "_FN_SHIFT")
      /\ UNCHANGED <<fn_on, lock, pd2, disturbed>>
  BY DEF K!PressFnShift
<1>2. ReportPicked' /\ pick' = [pick EXCEPT ![s] = None]
  BY <1>1, LetsGo
<1>3. KeysShape'
  BY <1>1, <1>2, EmptyIsCode DEF KeysInv, KeysShape
<1>4. FnClosed'
  BY <1>1 DEF KeysInv, FnClosed
<1>5. PicksHeld'
  BY <1>1, <1>2 DEF KeysInv, KeysShape, PicksHeld, K!Deaf
<1> QED BY <1>2, <1>3, <1>4, <1>5 DEF KeysInv

LEMMA LayerKeepsKeys == ASSUME KeysInv, NEW s \in Switches, K!PressLayer(s) PROVE KeysInv'
<1> DEFINE k == K!Current(s)
<1>1. /\ ~ K!Ignored(s) /\ s \notin down /\ k \in K!Layer
      /\ down' = down \cup {s} /\ pick' = K!Picked(s)
      /\ fn_on' = (fn_on \/ k = "_FN_KEY")
      /\ disturbed' = (disturbed \/ (lock' # lock /\ \E t \in down : K!DefMap[t] # "_FN_KEY"))
      /\ UNCHANGED <<pd2, report>>
  BY DEF K!PressLayer
<1>2. /\ \A t \in Switches \ {s} : pick'[t] = pick[t]
      /\ pick[s] # None => pick' = pick
      /\ pick' \in [Switches -> K!Codes \cup {None}]
      /\ \A t \in Switches : pick'[t] \in {None, K!DefMap[t], K!FnMap[t]} /\ pick'[t] # "EMP"
  BY <1>1, Recorded
<1>3. KeysShape'
  BY <1>1, <1>2 DEF KeysInv, KeysShape
<1>4. s \in K!Deaf
  BY <1>1, NowCoded
<1>5. FnClosed'
  <2>1. CASE k = "_FN_KEY"
    BY <1>1, <2>1, NowCoded DEF FnClosed
  <2>2. CASE k # "_FN_KEY"
    BY <1>1, <2>2 DEF KeysInv, FnClosed
  <2> QED BY <2>1, <2>2
<1>6. ASSUME ~ disturbed', NEW t \in Switches, pick'[t] # None, t \notin K!Deaf
      PROVE  t \in down' /\ ~ lock'
  <2>1. t # s /\ pick[t] # None /\ ~ disturbed
    BY <1>1, <1>2, <1>4, <1>6
  <2>2. t \in down /\ ~ lock
    BY <1>6, <2>1 DEF KeysInv, PicksHeld
  <2>3. ~ IsFn(t)
    BY <1>6, Maps, SwitchesAssumption DEF K!SwitchesAssumption, K!Deaf, K!Layer
  <2>4. lock' = lock
    BY <1>1, <1>6, <2>2, <2>3 DEF IsFn
  <2> QED BY <1>1, <2>2, <2>4
<1>7. PicksHeld'
  BY <1>6 DEF PicksHeld, K!Deaf
<1>8. ASSUME ~ disturbed', NEW o \in report' PROVE \E t \in Switches : Known(o, t)'
  <2>1. \E t \in Switches : Known(o, t)
    BY <1>1, <1>8 DEF KeysInv, ReportPicked
  <2> QED BY <1>1, <1>2, <2>1, StillKnown
<1>9. ReportPicked'
  BY <1>8 DEF ReportPicked
<1> QED BY <1>3, <1>5, <1>7, <1>9 DEF KeysInv

LEMMA LayerReleaseKeepsKeys == ASSUME KeysInv, NEW s \in Switches, K!ReleaseLayer(s) PROVE KeysInv'
<1>1. /\ K!Current(s) \in K!Layer /\ down' = down \ {s}
      /\ fn_on' = (fn_on /\ K!Current(s) # "_FN_KEY")
      /\ UNCHANGED <<pick, lock, pd2, report, disturbed>>
  BY DEF K!ReleaseLayer
<1>2. KeysShape' /\ ReportPicked'
  BY <1>1 DEF KeysInv, KeysShape, ReportPicked, Known, K!Told, K!Deaf
<1>3. s \in K!Deaf /\ (fn_on' => fn_on /\ ~ IsFn(s))
  BY <1>1, NowCoded
<1>4. PicksHeld' /\ FnClosed'
  BY <1>1, <1>3 DEF KeysInv, PicksHeld, FnClosed, K!Deaf
<1> QED BY <1>2, <1>4 DEF KeysInv

(* The mode switch matters to what SELECT and GAME_A were pressed as.      *)
LEMMA FlipKeepsKeys == ASSUME KeysInv, K!FlipPD2 PROVE KeysInv'
<1>1. /\ disturbed' = (disturbed \/ \E s \in Switches : pick[s] \in K!PD2Keys)
      /\ UNCHANGED <<down, pick, fn_on, lock, report>>
  BY DEF K!FlipPD2
<1>2. ASSUME ~ disturbed', NEW o \in report', NEW t \in Switches, Known(o, t) PROVE Known(o, t)'
  <2>1. pick[t] \notin {"_SELECT_KEY", "_JOYSTICK_A"}
    BY <1>1, <1>2 DEF K!PD2Keys
  <2>2. K!Output(pick[t], pd2) = pick[t] /\ K!Output(pick[t], pd2') = pick[t]
    BY <2>1 DEF K!Output
  <2> QED BY <1>1, <1>2, <2>2 DEF Known, K!Told, K!Deaf
<1>3. ReportPicked'
  BY <1>1, <1>2 DEF KeysInv, ReportPicked
<1> QED BY <1>1, <1>3 DEF KeysInv, KeysShape, PicksHeld, FnClosed, K!Deaf

LEMMA KeysBegin == K!Init => KeysInv
  BY EmptyIsCode DEF K!Init, KeysInv, KeysShape, PicksHeld, ReportPicked, FnClosed

LEMMA KeysKept == KeysInv /\ [K!Next]_(K!vars) => KeysInv'
<1>1. ASSUME KeysInv, K!Next PROVE KeysInv'
  BY <1>1, FlipKeepsKeys, IgnoreKeepsKeys, PressKeepsKeys, ReleaseKeepsKeys, FnShiftKeepsKeys,
     LayerKeepsKeys, LayerReleaseKeepsKeys DEF K!Next
<1>2. ASSUME KeysInv, UNCHANGED K!vars PROVE KeysInv'
  BY <1>2 DEF KeysInv, KeysShape, PicksHeld, ReportPicked, FnClosed, Known, K!Told, K!Deaf, K!vars
<1> QED BY <1>1, <1>2

(* For every choice of contacts, in whatever order they close and open     *)
(* while Fn, the lock and the mode switch move: what the host holds is on  *)
(* record as some contact's code, and Fn is on only under a closed Fn.     *)
THEOREM HeldStaysPicked == K!Spec => []HeldIsPicked
<1>1. KeysInv => HeldIsPicked
  BY DEF KeysInv, HeldIsPicked, K!HeldIsPicked, ReportPicked, Known, FnClosed, IsFn
<1> QED BY <1>1, KeysBegin, KeysKept, PTL DEF K!Spec

-----------------------------------------------------------------------------
(* The debounce filter (KeyboardDebounce).                                 *)

FilterTypes ==
  /\ now \in Nat /\ now < Wide /\ de_time \in Nat /\ de_time < Narrow
  /\ col \in Nat \ {0} /\ DOMAIN age = F!Contact /\ \A c \in F!Contact : age[c] \in Nat

(* Before millis() outgrows the stamp, no sample is younger than the timer *)
(* that its change restarted.                                              *)
SamplesTimed ==
  first => /\ now < Narrow /\ de_time <= now
           /\ \A c \in F!Contact : age[c] >= F!Old \/ age[c] >= now - de_time

FilterInv == FilterTypes /\ SamplesTimed

LEMMA Sizes ==
  /\ Columns \in Nat \ {0} /\ Debounce \in Nat \ {0} /\ Narrow \in Nat \ {0} /\ Wide \in Nat \ {0}
  /\ Debounce < Narrow /\ Narrow < Wide
  BY SizesAssumption DEF F!SizesAssumption

LEMMA SmallModulo == ASSUME NEW n \in Nat \ {0}, NEW x \in Nat, x < n PROVE x % n = x
  OBVIOUS

LEMMA ModuloInRange == ASSUME NEW n \in Nat \ {0}, NEW x \in Nat PROVE x % n \in Nat /\ x % n < n
  OBVIOUS

LEMMA WrappedModulo == ASSUME NEW n \in Nat \ {0}, NEW x \in Nat, x < n PROVE (x + n) % n = x
  OBVIOUS

LEMMA PassingTime ==
  ASSUME FilterTypes, NEW d \in 0..1, NEW ages, F!Pass(d, ages),
         DOMAIN ages = F!Contact, \A c \in F!Contact : ages[c] \in Nat
  PROVE  /\ now' \in Nat /\ now' < Wide
         /\ DOMAIN age' = F!Contact /\ \A c \in F!Contact : age'[c] \in Nat
         /\ first' => first /\ now' = now + d /\ now' < Narrow
         /\ \A c \in F!Contact : age'[c] >= F!Old \/ age'[c] = ages[c] + d
<1>1. /\ now' = (now + d) % Wide /\ first' = (first /\ now + d < Narrow)
      /\ age' = [c \in F!Contact |-> IF ages[c] + d > F!Old THEN F!Old ELSE ages[c] + d]
  BY DEF F!Pass
<1>2. now + d \in Nat /\ F!Old \in Nat
  BY Sizes DEF FilterTypes, F!Old
<1>3. now' \in Nat /\ now' < Wide
  BY <1>1, <1>2, Sizes, ModuloInRange
<1>4. first' => first /\ now' = now + d /\ now' < Narrow
  <2> SUFFICES ASSUME first' PROVE now' = now + d
    BY <1>1
  <2>0. now + d < Narrow
    BY <1>1, Zenon
  <2>1. now + d < Wide
    BY <1>2, <2>0, Sizes
  <2> QED BY <1>1, <1>2, <2>1, Sizes, SmallModulo
<1>5. /\ DOMAIN age' = F!Contact /\ \A c \in F!Contact : age'[c] \in Nat
      /\ \A c \in F!Contact : age'[c] >= F!Old \/ age'[c] = ages[c] + d
  BY <1>1, <1>2
<1> QED BY <1>3, <1>4, <1>5

LEMMA SampleKeepsFilter == ASSUME FilterInv, F!Sample PROVE FilterInv' /\ matrix' = matrix
<1> DEFINE changed == (col \in closed) # (col \in sampled)
           ages == IF changed THEN [age EXCEPT ![col] = 0] ELSE age
<1>1. /\ col <= Columns /\ col' = col + 1 /\ matrix' = matrix
      /\ de_time' = IF changed THEN now % Narrow ELSE de_time
  BY DEF F!Sample
<1>2. PICK d \in 0..1 : F!Pass(d, ages)
  BY DEF F!Sample
<1>3. /\ DOMAIN ages = F!Contact /\ \A c \in F!Contact : ages[c] \in Nat
      /\ \A c \in F!Contact : ages[c] = age[c] \/ changed
  BY DEF FilterInv, FilterTypes
<1> HIDE DEF ages
<1>4. /\ now' \in Nat /\ now' < Wide
      /\ DOMAIN age' = F!Contact /\ \A c \in F!Contact : age'[c] \in Nat
      /\ first' => first /\ now' = now + d /\ now' < Narrow
      /\ \A c \in F!Contact : age'[c] >= F!Old \/ age'[c] = ages[c] + d
  BY <1>2, <1>3, PassingTime DEF FilterInv
<1>5. FilterTypes'
  BY <1>1, <1>4, Sizes, ModuloInRange DEF FilterInv, FilterTypes
<1>6. first' => SamplesTimed'
  <2>1. CASE first' /\ changed
    <3>1. de_time' = now /\ now' = now + d
      BY <1>1, <1>4, <2>1, Sizes, SmallModulo DEF FilterInv, FilterTypes, SamplesTimed
    <3> QED BY <1>3, <1>4, <2>1, <3>1 DEF FilterInv, FilterTypes, SamplesTimed, F!Old, F!Contact
  <2>2. CASE first' /\ ~ changed
    <3>1. de_time' = de_time /\ \A c \in F!Contact : ages[c] = age[c]
      BY <1>1, <1>3, <2>2
    <3>2. now' = now + d /\ now' < Narrow /\ de_time <= now
      BY <1>4, <2>2 DEF FilterInv, SamplesTimed
    <3>3. ASSUME NEW c \in F!Contact PROVE age'[c] >= F!Old \/ age'[c] >= now' - de_time'
      <4>1. age[c] \in Nat /\ now \in Nat /\ de_time \in Nat /\ (age[c] >= F!Old \/ age[c] >= now - de_time)
        BY <1>4, <2>2 DEF FilterInv, FilterTypes, SamplesTimed
      <4>2. age'[c] >= F!Old \/ age'[c] = age[c] + d
        BY <1>4, <3>1
      <4> QED BY <3>1, <3>2, <4>1, <4>2, Sizes DEF F!Old
    <3> QED BY <1>5, <3>1, <3>2, <3>3 DEF SamplesTimed, FilterTypes, FilterInv
  <2> QED BY <2>1, <2>2
<1> QED BY <1>1, <1>5, <1>6 DEF FilterInv, SamplesTimed

LEMMA TakeKeepsFilter ==
  ASSUME FilterInv, F!Take
  PROVE  FilterInv' /\ (matrix' # matrix /\ first => \A c \in F!Contact : age[c] > Debounce)
<1>1. /\ col' = 1 /\ UNCHANGED de_time
      /\ \E d \in 0..1 : F!Pass(d, age)
      /\ matrix' # matrix => F!Elapsed > Debounce
  BY DEF F!Take
<1>2. PICK d \in 0..1 : F!Pass(d, age)
  BY <1>1
<1>3. /\ now' \in Nat /\ now' < Wide
      /\ DOMAIN age' = F!Contact /\ \A c \in F!Contact : age'[c] \in Nat
      /\ first' => first /\ now' = now + d /\ now' < Narrow
      /\ \A c \in F!Contact : age'[c] >= F!Old \/ age'[c] = age[c] + d
  BY <1>2, PassingTime DEF FilterInv, FilterTypes
<1>4. FilterTypes'
  BY <1>1, <1>3 DEF FilterInv, FilterTypes
<1>5. SamplesTimed'
  BY <1>1, <1>3, Sizes DEF FilterInv, FilterTypes, SamplesTimed, F!Old
<1>6. ASSUME matrix' # matrix, first, NEW c \in F!Contact PROVE age[c] > Debounce
  <2>0. now \in Nat /\ now < Wide /\ de_time \in Nat /\ de_time <= now
    BY <1>6 DEF FilterInv, FilterTypes, SamplesTimed
  <2>1. now - de_time \in Nat /\ now - de_time < Wide
    BY <2>0, Sizes
  <2>2. (now + Wide) - de_time = (now - de_time) + Wide
    BY <2>0, Sizes
  <2>3. F!Elapsed = now - de_time
    BY <2>1, <2>2, Sizes, WrappedModulo DEF F!Elapsed
  <2> QED BY <1>1, <1>6, <2>3, Sizes DEF FilterInv, FilterTypes, SamplesTimed, F!Old
<1> QED BY <1>4, <1>5, <1>6 DEF FilterInv

LEMMA FilterBegins == F!Init => FilterInv
  BY Sizes DEF F!Init, FilterInv, FilterTypes, SamplesTimed, F!Old, F!Contact

LEMMA FilterKept ==
  ASSUME FilterInv, [F!Next]_(F!vars)
  PROVE  FilterInv' /\ (matrix' # matrix /\ first => \A c \in F!Contact : age[c] > Debounce)
<1>1. CASE \E c \in F!Contact : F!Move(c)
  BY <1>1 DEF F!Move, FilterInv, FilterTypes, SamplesTimed
<1>2. CASE F!Scan
  BY <1>2, SampleKeepsFilter, TakeKeepsFilter DEF F!Scan
<1>3. CASE UNCHANGED F!vars
  BY <1>3 DEF F!vars, FilterInv, FilterTypes, SamplesTimed
<1> QED BY <1>1, <1>2, <1>3 DEF F!Next

(* For any number of contacts, any debounce time and any widths of clock   *)
(* and stamp: until the clock outgrows the stamp, the handlers see a new   *)
(* matrix only when every sample in it is older than the debounce time.    *)
THEOREM BounceStaysFiltered == F!Spec => BounceIsFiltered
<1>1. FilterInv /\ [F!Next]_(F!vars) => FilterInv'
  BY FilterKept
<1>2. FilterInv /\ [F!Next]_(F!vars) =>
        [matrix' # matrix /\ first => \A c \in F!Contact : age[c] > Debounce]_(F!vars)
  BY FilterKept
<1> QED BY <1>1, <1>2, FilterBegins, PTL DEF F!Spec, BounceIsFiltered, F!BounceIsFiltered

-----------------------------------------------------------------------------
(* The deck, its jobs and the bridge (KeyboardDeck).                       *)

DeckFields ==
  [open : BOOLEAN, identity : Nat, held : SUBSET Contacts, down : [D!Inputs -> SUBSET Contacts],
   queue : Seq(D!Entry), active : BOOLEAN, failed : BOOLEAN,
   job : {"none", "sent", "completed", "failed"}, entry : D!Entry, pending : SUBSET Key]

DeckTypes ==
  /\ deck \in DeckFields
  /\ worker \in [of : {"none", "deck", "agent"}, entry : D!Entry, at : {"idle", "queued", "delivering"}]
  /\ bridge \in [there : BOOLEAN, error : BOOLEAN, epoch : Nat]
  /\ vm \in [live : BOOLEAN, identity : Nat, epoch : Nat]

(* An entry turns the contacts h into the ones it says are held after it.  *)
Fits(h, e) == e.held = (h \ e.release) \cup e.press /\ e.release \cap e.press = {}

(* What is held once the job under way is over, and once all is sent.      *)
Underway(d) == IF d.job = "none" THEN d.held ELSE d.entry.held
Final(d) == IF d.queue = <<>> THEN Underway(d) ELSE D!Last(d.queue).held

Chained(d) ==
  /\ d.job \in {"sent", "completed"} => Fits(d.held, d.entry)
  /\ \A i \in 1..Len(d.queue) : Fits(IF i = 1 THEN Underway(d) ELSE d.queue[i - 1].held, d.queue[i])
Typed(d) ==
  IF d.active THEN Final(d) = D!HostHeld(d) ELSE D!HostHeld(d) = {} /\ d.queue = <<>>
Orderly(d) == ~ d.failed /\ d.job # "failed" => Chained(d) /\ Typed(d)

(* What the guest holds of the deck's contacts.                            *)
Linked(d) == vm.live /\ vm.identity = d.identity /\ (bridge.there => bridge.epoch = vm.epoch)
There == guest \cap Contacts
Believed(d) ==
  Linked(d) /\ ~ d.failed =>
    /\ d.job = "none" => There = d.held
    /\ d.job = "sent" => d.held \ d.entry.release \subseteq There /\ There \subseteq d.held \cup d.entry.press
    /\ d.job = "completed" => There = d.entry.held

(* The guest holds nothing that did not come over a bridge that works.     *)
BridgeTrue ==
  /\ ~ vm.live \/ ~ bridge.there \/ bridge.epoch # vm.epoch => guest = {}
  /\ bridge.epoch <= vm.epoch /\ 0 < vm.epoch /\ (~ bridge.there => bridge.epoch = 0)
  /\ worker.at = "delivering" => bridge.there

(* ... and nothing of the deck's but what the deck that is open sent.      *)
DeckOwns ==
  /\ deck.identity <= vm.identity
  /\ deck.identity # vm.identity \/ ~ deck.open => There = {}
  /\ ~ deck.open => deck.job = "none"
  /\ worker.of = "deck" <=> deck.job = "sent"
  /\ worker.of = "none" => worker.at = "idle"
  /\ worker.of = "deck" => worker.entry = deck.entry /\ (vm.live => vm.identity = deck.identity)
  /\ worker.of = "agent" => worker.entry = D!NoEntry

DeckInv == DeckTypes /\ Orderly(deck) /\ Believed(deck) /\ BridgeTrue /\ DeckOwns

LEMMA Entries ==
  /\ D!NoEntry \in D!Entry
  /\ \A e \in D!Entry : e.release \subseteq Contacts /\ e.press \subseteq Contacts /\ e.held \subseteq Contacts
  BY DEF D!NoEntry, D!Entry

LEMMA HeldFields ==
  ASSUME NEW d \in DeckFields
  PROVE  D!HostHeld(d) \subseteq Contacts /\ Underway(d) \subseteq Contacts
  BY Entries DEF DeckFields, D!HostHeld, Underway

LEMMA NoEntries == ASSUME NEW q \in Seq(D!Entry) PROVE q = <<>> <=> Len(q) = 0
  OBVIOUS

LEMMA QueueHead ==
  ASSUME NEW q \in Seq(D!Entry), q # <<>>
  PROVE  /\ Head(q) = q[1] /\ Head(q) \in D!Entry /\ Len(q) \in Nat /\ Len(q) > 0
         /\ Tail(q) \in Seq(D!Entry) /\ Len(Tail(q)) = Len(q) - 1
         /\ \A i \in 1..Len(Tail(q)) : Tail(q)[i] = q[i + 1]
         /\ Tail(q) = <<>> <=> Len(q) = 1
         /\ Tail(q) # <<>> => D!Last(Tail(q)) = D!Last(q)
<1>1. Head(q) = q[1] /\ Head(q) \in D!Entry /\ Len(q) \in Nat /\ Len(q) > 0
  OBVIOUS
<1>2. /\ Tail(q) \in Seq(D!Entry) /\ Len(Tail(q)) = Len(q) - 1
      /\ \A i \in 1..Len(Tail(q)) : Tail(q)[i] = q[i + 1]
  OBVIOUS
<1>3. Tail(q) = <<>> <=> Len(q) = 1
  <2> DEFINE rest == Tail(q)
  <2>1. rest \in Seq(D!Entry)
    BY <1>2
  <2> HIDE DEF rest
  <2>2. rest = <<>> <=> Len(rest) = 0
    BY <2>1, NoEntries
  <2> QED BY <1>1, <1>2, <2>2 DEF rest
<1>4. Tail(q) # <<>> => D!Last(Tail(q)) = D!Last(q)
  BY <1>1, <1>2, <1>3 DEF D!Last
<1> QED BY <1>1, <1>2, <1>3, <1>4

LEMMA QueueEnd ==
  ASSUME NEW q \in Seq(D!Entry), NEW e \in D!Entry
  PROVE  /\ Append(q, e) \in Seq(D!Entry) /\ Len(Append(q, e)) = Len(q) + 1 /\ Append(q, e) # <<>>
         /\ \A i \in 1..Len(q) : Append(q, e)[i] = q[i]
         /\ Append(q, e)[Len(q) + 1] = e /\ D!Last(Append(q, e)) = e
<1>1. /\ Append(q, e) \in Seq(D!Entry) /\ Len(Append(q, e)) = Len(q) + 1 /\ Len(q) \in Nat
      /\ \A i \in 1..Len(q) : Append(q, e)[i] = q[i]
      /\ Append(q, e)[Len(q) + 1] = e
  OBVIOUS
<1> QED BY <1>1 DEF D!Last

(* What a callback may make of the deck d.                                 *)
Sendable(d) == d.job = "none" /\ ~ d.failed /\ vm.live /\ vm.identity = d.identity /\ worker.of = "none"
Follows(d, r) ==
  /\ r \in DeckFields /\ Orderly(r) /\ Believed(r)
  /\ r.open = d.open /\ r.identity = d.identity
  /\ \/ r.job = d.job /\ r.entry = d.entry
     \/ r.job = "sent" /\ Sendable(d)

LEMMA SentCases ==
  ASSUME NEW d \in DeckFields, NEW e \in D!Entry, NEW host \in BOOLEAN
  PROVE  \/ D!Sent(d, e, host) = d /\ (d.job # "none" \/ d.failed \/ (d.active /\ ~ host))
         \/ D!Sent(d, e, host) = [d EXCEPT !.job = "sent", !.entry = e] /\ Sendable(d)
            /\ (d.active => host)
         \/ D!Sent(d, e, host) = [d EXCEPT !.failed = host] /\ d.job = "none" /\ ~ d.failed
  BY DEF D!Sent, Sendable

(* An entry that was sent has reached nothing yet.                         *)
LEMMA SendingBelieved ==
  ASSUME NEW d \in DeckFields, Believed(d), d.job = "none", NEW e \in D!Entry
  PROVE  Believed([d EXCEPT !.job = "sent", !.entry = e])
<1> DEFINE s == [d EXCEPT !.job = "sent", !.entry = e]
<1>1. /\ s.job = "sent" /\ s.entry = e /\ s.held = d.held /\ s.failed = d.failed /\ s.identity = d.identity
  BY DEF DeckFields
<1> HIDE DEF s
<1> SUFFICES Believed(s)
  BY DEF s
<1> QED BY <1>1 DEF Believed, Linked, There

LEMMA DrainFollows ==
  ASSUME NEW d \in DeckFields, Orderly(d), Believed(d)
  PROVE  Follows(d, D!Drained(d))
<1>1. CASE d.job # "none" \/ d.failed
  BY <1>1 DEF D!Drained, Follows
<1>2. CASE d.job = "none" /\ ~ d.failed /\ d.queue # <<>>
  <2> DEFINE q == d.queue
             e == Head(q)
             d1 == [d EXCEPT !.queue = Tail(@)]
             s == [d1 EXCEPT !.job = "sent", !.entry = e]
             f == [d1 EXCEPT !.failed = TRUE]
  <2>1. /\ q \in Seq(D!Entry) /\ e = q[1] /\ e \in D!Entry /\ Len(q) \in Nat /\ Len(q) > 0
        /\ Tail(q) \in Seq(D!Entry) /\ Len(Tail(q)) = Len(q) - 1
        /\ \A i \in 1..Len(Tail(q)) : Tail(q)[i] = q[i + 1]
        /\ Tail(q) = <<>> <=> Len(q) = 1
        /\ Tail(q) # <<>> => D!Last(Tail(q)) = D!Last(q)
    <3>1. q \in Seq(D!Entry) /\ q # <<>>
      BY <1>2 DEF DeckFields
    <3> HIDE DEF q
    <3> QED BY <3>1, QueueHead
  <2>2. d1 \in DeckFields /\ d1.job = "none" /\ ~ d1.failed /\ d1.queue = Tail(q)
        /\ d1.open = d.open /\ d1.identity = d.identity /\ d1.active = d.active /\ d1.held = d.held
        /\ d1.down = d.down
    BY <1>2, <2>1 DEF DeckFields
  <2> HIDE DEF d1, q
  <2>3. D!Drained(d) = D!Sent(d1, e, TRUE)
    BY <1>2 DEF D!Drained, d1, q
  <2>4. (D!Drained(d) = s /\ Sendable(d1)) \/ D!Drained(d) = f
    BY <2>1, <2>2, <2>3, SentCases
  <2>5. CASE D!Drained(d) = f
    <3>1. f \in DeckFields /\ f.failed /\ f.open = d.open /\ f.identity = d.identity
          /\ f.job = d.job /\ f.entry = d.entry
      BY <1>2, <2>2 DEF DeckFields, d1
    <3> QED BY <2>5, <3>1 DEF Follows, Orderly, Believed
  <2>6. CASE D!Drained(d) = s /\ Sendable(d1)
    <3>1. /\ s \in DeckFields /\ s.job = "sent" /\ s.entry = e /\ s.queue = Tail(q) /\ s.held = d.held
          /\ s.open = d.open /\ s.identity = d.identity /\ s.active = d.active /\ s.down = d.down
          /\ s.failed = d.failed
      BY <2>1, <2>2, <1>2 DEF DeckFields
    <3>2. Believed(d1)
      BY <1>2, <2>2 DEF Believed, Linked, There
    <3>3. Believed(s)
      BY <2>1, <2>2, <3>2, SendingBelieved
    <3> HIDE DEF s
    <3>4. Chained(d) /\ Typed(d)
      BY <1>2 DEF Orderly
    <3>5. Chained(s)
      <4>1. Fits(s.held, s.entry)
        BY <1>2, <2>1, <3>1, <3>4 DEF Chained, Underway, q
      <4>2. ASSUME NEW i \in 1..Len(s.queue)
            PROVE  Fits(IF i = 1 THEN Underway(s) ELSE s.queue[i - 1].held, s.queue[i])
        <5>1. i \in Nat /\ i + 1 \in 1..Len(q) /\ i + 1 # 1 /\ (i + 1) - 1 = i /\ s.queue[i] = q[i + 1]
          BY <2>1, <3>1
        <5>2. Fits(q[i].held, q[i + 1])
          BY <5>1, <3>4 DEF Chained, q
        <5>3. CASE i = 1
          BY <2>1, <3>1, <5>1, <5>2, <5>3 DEF Underway
        <5>4. CASE i # 1
          <6>1. i - 1 \in 1..Len(Tail(q)) /\ (i - 1) + 1 = i
            BY <3>1, <5>1, <5>4, SMTT(30)
          <6>2. s.queue[i - 1] = q[i]
            BY <2>1, <3>1, <6>1
          <6> QED BY <5>1, <5>2, <5>4, <6>2
        <5> QED BY <5>3, <5>4
      <4> QED BY <4>1, <4>2 DEF Chained
    <3>6. Typed(s)
      <4>1. d.active /\ Final(d) = D!HostHeld(d) /\ D!HostHeld(s) = D!HostHeld(d)
        BY <1>2, <3>1, <3>4 DEF Typed, D!HostHeld
      <4>2. Final(s) = Final(d)
        <5>1. CASE Tail(q) = <<>>
          BY <1>2, <2>1, <3>1, <5>1 DEF Final, Underway, q, D!Last
        <5>2. CASE Tail(q) # <<>>
          BY <1>2, <2>1, <3>1, <5>2 DEF Final, q
        <5> QED BY <5>1, <5>2
      <4> QED BY <3>1, <4>1, <4>2 DEF Typed
    <3>7. Sendable(d)
      BY <1>2, <2>2, <2>6 DEF Sendable
    <3> QED BY <2>6, <3>1, <3>3, <3>5, <3>6, <3>7 DEF Follows, Orderly
  <2> QED BY <2>4, <2>5, <2>6
<1>3. CASE d.job = "none" /\ ~ d.failed /\ d.queue = <<>>
  <2> DEFINE r == [d EXCEPT !.active = @ /\ D!HostHeld(d) # {}]
  <2>1. D!Drained(d) = r
    BY <1>3 DEF D!Drained
  <2>2. /\ r \in DeckFields /\ r.open = d.open /\ r.identity = d.identity /\ r.job = d.job /\ r.entry = d.entry
        /\ r.held = d.held /\ r.queue = d.queue /\ r.down = d.down /\ r.failed = d.failed
    BY DEF DeckFields
  <2>3. r.active <=> d.active /\ D!HostHeld(d) # {}
    BY DEF DeckFields
  <2> HIDE DEF r
  <2>4. Believed(r) /\ Chained(r) /\ Final(r) = Final(d) /\ D!HostHeld(r) = D!HostHeld(d)
    BY <1>3, <2>2 DEF Believed, Linked, Orderly, Chained, Underway, Final, D!HostHeld
  <2>5. Typed(r)
    BY <1>3, <2>2, <2>3, <2>4 DEF Orderly, Typed
  <2> QED BY <2>1, <2>2, <2>4, <2>5 DEF Follows, Orderly
<1> QED BY <1>1, <1>2, <1>3

(* An entry that goes from what the host keys held to what they hold now   *)
(* may be queued, if nothing is held by clicks.                            *)
LEMMA QueueFollows ==
  ASSUME NEW d \in DeckFields, Orderly(d), Believed(d), ~ d.failed,
         d.active \/ (d.held = {} /\ d.job = "none"),
         NEW e \in D!Entry, Fits(D!HostHeld(d), e),
         NEW x \in DeckFields, x.queue = Append(d.queue, e), x.active, e.held = D!HostHeld(x),
         x.open = d.open, x.identity = d.identity, x.held = d.held, x.failed = d.failed,
         x.job = d.job, x.entry = d.entry
  PROVE  Follows(d, D!Drained(x))
<1> DEFINE q == Append(d.queue, e)
<1>1. d.queue \in Seq(D!Entry) /\ Len(d.queue) \in Nat
  BY DEF DeckFields
<1>2. /\ q \in Seq(D!Entry) /\ Len(q) = Len(d.queue) + 1 /\ q # <<>>
      /\ \A i \in 1..Len(d.queue) : q[i] = d.queue[i]
      /\ q[Len(d.queue) + 1] = e /\ D!Last(q) = e
  BY <1>1, QueueEnd
<1>3. x.queue = q
  OBVIOUS
<1> HIDE DEF q
<1>4. Believed(x)
  BY DEF Believed, Linked, There
<1>5. Orderly(x)
  <2> SUFFICES ASSUME d.job # "failed" PROVE Chained(x) /\ Typed(x)
    BY <1>3 DEF Orderly
  <2>1. Chained(d) /\ Typed(d)
    BY DEF Orderly
  <2>2. Final(d) = D!HostHeld(d)
    BY <2>1 DEF Typed, Final, Underway
  <2>3. ASSUME NEW i \in 1..Len(x.queue)
        PROVE  Fits(IF i = 1 THEN Underway(x) ELSE x.queue[i - 1].held, x.queue[i])
    <3>1. Underway(x) = Underway(d)
      BY <1>3 DEF Underway
    <3>2. CASE i <= Len(d.queue)
      <4>1. i \in 1..Len(d.queue) /\ x.queue[i] = d.queue[i]
            /\ (i # 1 => i - 1 \in 1..Len(d.queue) /\ x.queue[i - 1] = d.queue[i - 1])
        BY <1>1, <1>2, <1>3, <3>2
      <4> QED BY <2>1, <3>1, <4>1 DEF Chained
    <3>3. CASE i = Len(d.queue) + 1
      <4>1. x.queue[i] = e
        BY <1>2, <1>3, <3>3
      <4>2. CASE i = 1
        <5>1. d.queue = <<>>
          BY <1>1, <3>3, <4>2, NoEntries
        <5> QED BY <2>2, <3>1, <4>1, <4>2, <5>1 DEF Final
      <4>3. CASE i # 1
        <5>1. i - 1 = Len(d.queue) /\ i - 1 \in 1..Len(d.queue) /\ d.queue # <<>>
          BY <1>1, <3>3, <4>3, NoEntries
        <5>2. x.queue[i - 1].held = Final(d)
          BY <1>2, <1>3, <5>1 DEF Final, D!Last
        <5> QED BY <2>2, <4>1, <4>3, <5>2
      <4> QED BY <4>2, <4>3
    <3> QED BY <1>1, <1>2, <1>3, <3>2, <3>3
  <2>4. x.job \in {"sent", "completed"} => Fits(x.held, x.entry)
    BY <1>3, <2>1 DEF Chained
  <2>5. Final(x) = D!HostHeld(x)
    BY <1>2, <1>3 DEF Final
  <2> QED BY <1>3, <2>3, <2>4, <2>5 DEF Chained, Typed
<1>6. Follows(x, D!Drained(x))
  BY <1>3, <1>4, <1>5, DrainFollows
<1> QED BY <1>6 DEF Follows, Sendable

LEMMA HostEventFollows ==
  ASSUME NEW d \in DeckFields, Orderly(d), Believed(d), NEW kd \in [D!Inputs -> SUBSET Contacts]
  PROVE  Follows(d, D!HostEvent(d, kd))
<1> DEFINE before == D!HostHeld(d)
           after == UNION {kd[k] : k \in D!Inputs}
           e == [release |-> before \ after, press |-> after \ before, held |-> after]
           c == [d EXCEPT !.down = kd]
           q == Append(d.queue, e)
           x == [c EXCEPT !.queue = Append(@, e), !.active = TRUE]
           barred == d.failed \/ (~ d.active /\ (d.held # {} \/ d.job # "none"))
<1>1. \/ D!HostEvent(d, kd) = d
      \/ D!HostEvent(d, kd) = [d EXCEPT !.failed = TRUE]
      \/ D!HostEvent(d, kd) = D!Drained(c) /\ before = after /\ ~ barred
      \/ D!HostEvent(d, kd) = [c EXCEPT !.failed = TRUE]
      \/ D!HostEvent(d, kd) = D!Drained(x) /\ ~ barred
  BY DEF D!HostEvent
<1>2. before \subseteq Contacts /\ after \subseteq Contacts
  BY HeldFields
<1> HIDE DEF before
<1>3. /\ c \in DeckFields /\ c.down = kd /\ c.open = d.open /\ c.identity = d.identity /\ c.held = d.held
      /\ c.queue = d.queue /\ c.active = d.active /\ c.failed = d.failed /\ c.job = d.job /\ c.entry = d.entry
  BY DEF DeckFields
<1>4. D!HostHeld(c) = after
  BY <1>3 DEF D!HostHeld
<1>5. CASE D!HostEvent(d, kd) = d
  BY <1>5 DEF Follows
<1>6. CASE D!HostEvent(d, kd) = [d EXCEPT !.failed = TRUE]
  <2> DEFINE f == [d EXCEPT !.failed = TRUE]
  <2>1. f \in DeckFields /\ f.failed /\ f.open = d.open /\ f.identity = d.identity /\ f.job = d.job
        /\ f.entry = d.entry
    BY DEF DeckFields
  <2> QED BY <1>6, <2>1 DEF Follows, Orderly, Believed
<1>7. CASE D!HostEvent(d, kd) = [c EXCEPT !.failed = TRUE]
  <2> DEFINE f == [c EXCEPT !.failed = TRUE]
  <2>1. f \in DeckFields /\ f.failed /\ f.open = d.open /\ f.identity = d.identity /\ f.job = d.job
        /\ f.entry = d.entry
    BY <1>3 DEF DeckFields
  <2> QED BY <1>7, <2>1 DEF Follows, Orderly, Believed
<1> HIDE DEF c, after
<1>8. CASE D!HostEvent(d, kd) = D!Drained(c) /\ before = after
  <2>1. Orderly(c)
    BY <1>3, <1>4, <1>8 DEF Orderly, Chained, Typed, Underway, Final, before
  <2>2. Believed(c)
    BY <1>3 DEF Believed, Linked, There
  <2>3. Follows(c, D!Drained(c))
    BY <1>3, <2>1, <2>2, DrainFollows
  <2> QED BY <1>3, <1>8, <2>3 DEF Follows, Sendable
<1>9. CASE D!HostEvent(d, kd) = D!Drained(x) /\ ~ barred
  <2>1. e \in D!Entry /\ Fits(before, e) /\ e.held = after
    BY <1>2 DEF D!Entry, Fits
  <2> HIDE DEF e
  <2>2. d.queue \in Seq(D!Entry)
    BY DEF DeckFields
  <2>3. q \in Seq(D!Entry)
    BY <2>1, <2>2, QueueEnd
  <2>4. /\ x \in DeckFields /\ x.queue = q /\ x.active = TRUE /\ x.down = kd /\ x.open = d.open
        /\ x.identity = d.identity /\ x.held = d.held /\ x.failed = d.failed /\ x.job = d.job
        /\ x.entry = d.entry
    BY <1>3, <2>3 DEF DeckFields
  <2>5. e.held = D!HostHeld(x)
    BY <2>1, <2>4 DEF D!HostHeld, after
  <2> HIDE DEF x
  <2> QED BY <1>9, <2>1, <2>4, <2>5, QueueFollows DEF before
<1> QED BY <1>1, <1>5, <1>6, <1>7, <1>8, <1>9

LEMMA CallbackKeeps ==
  ASSUME DeckInv, deck.open, NEW r, D!Callback(r), NEW d, Follows(d, r),
         d.open = deck.open, d.identity = deck.identity,
         \/ d.job = deck.job /\ d.entry = deck.entry
         \/ d.job = "none" /\ deck.job \in {"completed", "failed"}
  PROVE  DeckInv'
<1>1. /\ deck' = r /\ UNCHANGED <<bridge, vm, guest>>
      /\ worker' = IF r.job = "sent" /\ deck.job # "sent"
                   THEN [of |-> "deck", entry |-> r.entry, at |-> "queued"] ELSE worker
  BY DEF D!Callback
<1>2. /\ r \in DeckFields /\ Orderly(r) /\ Believed(r) /\ r.open = deck.open /\ r.identity = deck.identity
      /\ (r.job = d.job /\ r.entry = d.entry) \/ (r.job = "sent" /\ Sendable(d))
  BY DEF Follows
<1>3. DeckTypes /\ BridgeTrue /\ DeckOwns
  BY DEF DeckInv
<1>4. r.entry \in D!Entry
  BY <1>2 DEF DeckFields
<1>5. worker' \in [of : {"none", "deck", "agent"}, entry : D!Entry, at : {"idle", "queued", "delivering"}]
  BY <1>1, <1>3, <1>4 DEF DeckTypes
<1>6. DeckTypes'
  BY <1>1, <1>2, <1>3, <1>5 DEF DeckTypes
<1>7. Orderly(deck)' /\ Believed(deck)'
  BY <1>1, <1>2 DEF Orderly, Chained, Typed, Underway, Final, Believed, Linked, There
<1>8. CASE r.job = "sent" /\ deck.job # "sent"
  <2>1. Sendable(d)
    BY <1>2, <1>8
  <2>2. worker'.of = "deck" /\ worker'.entry = r.entry /\ worker'.at = "queued"
    BY <1>1, <1>8
  <2>3. vm.live /\ vm.identity = deck.identity
    BY <2>1 DEF Sendable
  <2> QED BY <1>1, <1>2, <1>3, <1>6, <1>7, <1>8, <2>2, <2>3 DEF DeckInv, BridgeTrue, DeckOwns, There
<1>9. CASE ~ (r.job = "sent" /\ deck.job # "sent")
  <2>1. worker' = worker
    BY <1>1, <1>9
  <2>2. (r.job = "sent" <=> deck.job = "sent") /\ (r.job = "sent" => r.entry = deck.entry)
    BY <1>2, <1>9 DEF Sendable
  <2> QED BY <1>1, <1>2, <1>3, <1>6, <1>7, <2>1, <2>2 DEF DeckInv, BridgeTrue, DeckOwns, There
<1> QED BY <1>8, <1>9

LEMMA PendingSame ==
  ASSUME DeckInv, NEW P \in SUBSET Key
  PROVE  LET d == [deck EXCEPT !.pending = P]
         IN  /\ d \in DeckFields /\ Orderly(d) /\ Believed(d)
             /\ d.open = deck.open /\ d.identity = deck.identity /\ d.job = deck.job /\ d.entry = deck.entry
             /\ d.down \in [D!Inputs -> SUBSET Contacts]
<1> DEFINE d == [deck EXCEPT !.pending = P]
<1>1. /\ d \in DeckFields /\ d.open = deck.open /\ d.identity = deck.identity /\ d.job = deck.job
      /\ d.entry = deck.entry /\ d.held = deck.held /\ d.queue = deck.queue /\ d.down = deck.down
      /\ d.active = deck.active /\ d.failed = deck.failed /\ d.down \in [D!Inputs -> SUBSET Contacts]
  BY DEF DeckInv, DeckTypes, DeckFields
<1> HIDE DEF d
<1>2. Orderly(d) /\ Believed(d)
  BY <1>1 DEF DeckInv, Orderly, Chained, Typed, Underway, Final, D!HostHeld, Believed, Linked
<1> QED BY <1>1, <1>2 DEF d

LEMMA HostKeysKeep ==
  ASSUME DeckInv, deck.open, NEW P \in SUBSET Key, NEW kd \in [D!Inputs -> SUBSET Contacts],
         D!Callback(D!HostEvent([deck EXCEPT !.pending = P], kd))
  PROVE  DeckInv'
<1> DEFINE d == [deck EXCEPT !.pending = P]
<1>1. /\ d \in DeckFields /\ Orderly(d) /\ Believed(d)
      /\ d.open = deck.open /\ d.identity = deck.identity /\ d.job = deck.job /\ d.entry = deck.entry
  BY PendingSame
<1> HIDE DEF d
<1>2. Follows(d, D!HostEvent(d, kd))
  BY <1>1, HostEventFollows
<1>3. D!Callback(D!HostEvent(d, kd))
  BY DEF d
<1> QED BY <1>1, <1>2, <1>3, CallbackKeeps

LEMMA PressKeepsDeck ==
  ASSUME DeckInv, NEW k \in D!Inputs, NEW m \in Mapped, D!Press(k, m) PROVE DeckInv'
<1> DEFINE P == deck.pending \ {k}
           d == [deck EXCEPT !.pending = P]
           kd == [d.down EXCEPT ![k] = IF @ = {} THEN m ELSE @]
<1>1. deck.open /\ D!Callback(D!HostEvent(d, kd))
  BY DEF D!Press
<1>2. P \in SUBSET Key
  BY DEF DeckInv, DeckTypes, DeckFields
<1>3. d.down \in [D!Inputs -> SUBSET Contacts] /\ m \in SUBSET Contacts
  BY <1>2, PendingSame, InputAssumption DEF D!InputAssumption
<1>4. kd \in [D!Inputs -> SUBSET Contacts]
  BY <1>3
<1> QED BY <1>1, <1>2, <1>4, HostKeysKeep

LEMMA WithoutKey ==
  ASSUME NEW d \in DeckFields, NEW k \in D!Inputs PROVE D!Without(d, k) \in [D!Inputs -> SUBSET Contacts]
  BY DEF D!Without, DeckFields

LEMMA IdleKeepsDeck == ASSUME DeckInv, NEW k \in Key, D!Idle(k) PROVE DeckInv'
<1> DEFINE P == deck.pending \ {k}
           d == [deck EXCEPT !.pending = P]
<1>1. deck.open /\ D!Callback(D!HostEvent(d, D!Without(d, k)))
  BY DEF D!Idle
<1>2. P \in SUBSET Key /\ k \in D!Inputs
  BY DEF DeckInv, DeckTypes, DeckFields, D!Inputs
<1>3. D!Without(d, k) \in [D!Inputs -> SUBSET Contacts]
  BY <1>2, PendingSame, WithoutKey
<1> QED BY <1>1, <1>2, <1>3, HostKeysKeep

LEMMA ButtonKeepsDeck == ASSUME DeckInv, NEW k \in Button, D!ButtonRelease(k) PROVE DeckInv'
<1>1. deck \in DeckFields /\ Orderly(deck) /\ Believed(deck) /\ k \in D!Inputs
  BY DEF DeckInv, DeckTypes, D!Inputs
<1>2. Follows(deck, D!HostEvent(deck, D!Without(deck, k)))
  BY <1>1, WithoutKey, HostEventFollows
<1> QED BY <1>2, CallbackKeeps DEF D!ButtonRelease

LEMMA FocusKeepsDeck == ASSUME DeckInv, D!FocusOut PROVE DeckInv'
<1> DEFINE d == [deck EXCEPT !.pending = {}]
           kd == [k \in D!Inputs |-> {}]
<1>1. deck.open /\ D!Callback(D!HostEvent(d, kd))
  BY DEF D!FocusOut
<1> QED BY <1>1, HostKeysKeep

LEMMA KeyReleaseKeepsDeck == ASSUME DeckInv, NEW k \in Key, D!KeyRelease(k) PROVE DeckInv'
<1> DEFINE P == deck.pending \cup {k}
           d == [deck EXCEPT !.pending = P]
<1>1. deck.open /\ D!Callback(d)
  BY DEF D!KeyRelease
<1>2. P \in SUBSET Key
  BY DEF DeckInv, DeckTypes, DeckFields
<1>3. /\ d \in DeckFields /\ Orderly(d) /\ Believed(d)
      /\ d.open = deck.open /\ d.identity = deck.identity /\ d.job = deck.job /\ d.entry = deck.entry
  BY <1>2, PendingSame
<1> HIDE DEF d
<1>4. Follows(d, d)
  BY <1>3 DEF Follows
<1> QED BY <1>1, <1>3, <1>4, CallbackKeeps

LEMMA FailedFollows == ASSUME NEW d \in DeckFields PROVE Follows(d, [d EXCEPT !.failed = TRUE])
<1> DEFINE f == [d EXCEPT !.failed = TRUE]
<1>1. f \in DeckFields /\ f.failed /\ f.open = d.open /\ f.identity = d.identity /\ f.job = d.job
      /\ f.entry = d.entry
  BY DEF DeckFields
<1> QED BY <1>1 DEF Follows, Orderly, Believed

(* Pointer and wheel queue an entry that changes no contact.               *)
LEMMA QueuesKeep ==
  ASSUME DeckInv, deck.open, ~ deck.failed, deck.active \/ (deck.held = {} /\ deck.job = "none"),
         NEW e \in D!Entry, e.release = {}, e.press = {}, e.held = D!HostHeld(deck),
         D!Callback(IF D!Full(deck) THEN [deck EXCEPT !.failed = TRUE]
                    ELSE D!Drained([deck EXCEPT !.active = TRUE, !.queue = Append(@, e)]))
  PROVE  DeckInv'
<1>1. deck \in DeckFields /\ Orderly(deck) /\ Believed(deck)
  BY DEF DeckInv, DeckTypes
<1>2. CASE D!Full(deck)
  <2>1. D!Callback([deck EXCEPT !.failed = TRUE])
    BY <1>2
  <2> QED BY <1>1, <2>1, FailedFollows, CallbackKeeps
<1>3. CASE ~ D!Full(deck)
  <2> DEFINE q == Append(deck.queue, e)
             x == [deck EXCEPT !.active = TRUE, !.queue = Append(@, e)]
  <2>1. deck.queue \in Seq(D!Entry)
    BY <1>1 DEF DeckFields
  <2>2. q \in Seq(D!Entry)
    BY <2>1, QueueEnd
  <2>3. /\ x \in DeckFields /\ x.queue = q /\ x.active /\ x.open = deck.open /\ x.down = deck.down
        /\ x.identity = deck.identity /\ x.held = deck.held /\ x.failed = deck.failed
        /\ x.job = deck.job /\ x.entry = deck.entry
    BY <1>1, <2>2 DEF DeckFields
  <2>4. D!Callback(D!Drained(x))
    BY <1>3
  <2> HIDE DEF x
  <2>5. D!HostHeld(x) = D!HostHeld(deck)
    BY <2>3 DEF D!HostHeld
  <2>6. Fits(D!HostHeld(deck), e)
    BY DEF Fits
  <2>7. Follows(deck, D!Drained(x))
    BY <1>1, <2>3, <2>5, <2>6, QueueFollows
  <2> QED BY <2>4, <2>7, CallbackKeeps
<1> QED BY <1>2, <1>3

LEMMA MotionKeepsDeck == ASSUME DeckInv, D!Motion PROVE DeckInv'
<1> DEFINE e == [D!NoEntry EXCEPT !.held = D!HostHeld(deck)]
<1>1. D!HostHeld(deck) \subseteq Contacts
  BY HeldFields DEF DeckInv, DeckTypes
<1>2. e \in D!Entry /\ e.release = {} /\ e.press = {} /\ e.held = D!HostHeld(deck)
  BY <1>1 DEF D!Entry, D!NoEntry
<1>3. /\ deck.open /\ ~ deck.failed /\ (deck.active \/ (deck.held = {} /\ deck.job = "none"))
      /\ D!Callback(IF D!Full(deck) THEN [deck EXCEPT !.failed = TRUE]
                    ELSE D!Drained([deck EXCEPT !.active = TRUE, !.queue = Append(@, e)]))
  BY DEF D!Motion
<1> HIDE DEF e
<1> QED BY <1>2, <1>3, QueuesKeep

LEMMA WheelKeepsDeck == ASSUME DeckInv, D!Wheel PROVE DeckInv'
<1>1. /\ D!NoEntry \in D!Entry /\ D!NoEntry.release = {} /\ D!NoEntry.press = {} /\ D!NoEntry.held = {}
  BY Entries DEF D!NoEntry
<1>2. /\ deck.open /\ ~ deck.failed /\ (deck.active \/ (deck.held = {} /\ deck.job = "none"))
      /\ D!HostHeld(deck) = {}
      /\ D!Callback(IF D!Full(deck) THEN [deck EXCEPT !.failed = TRUE]
                    ELSE D!Drained([deck EXCEPT !.active = TRUE, !.queue = Append(@, D!NoEntry)]))
  BY DEF D!Wheel
<1> QED BY <1>1, <1>2, QueuesKeep

(* A click sends its entry only when nothing is typed.                     *)
LEMMA ClickKeeps ==
  ASSUME DeckInv, deck.open, NEW e \in D!Entry, Fits(deck.held, e), D!Callback(D!Sent(deck, e, FALSE))
  PROVE  DeckInv'
<1> DEFINE r == D!Sent(deck, e, FALSE)
           s == [deck EXCEPT !.job = "sent", !.entry = e]
           f == [deck EXCEPT !.failed = FALSE]
<1>1. deck \in DeckFields /\ Orderly(deck) /\ Believed(deck)
  BY DEF DeckInv, DeckTypes
<1>2. \/ r = deck
      \/ r = s /\ Sendable(deck) /\ ~ deck.active
      \/ r = f /\ ~ deck.failed
  BY <1>1, SentCases
<1> HIDE DEF r
<1>3. Follows(deck, r)
  <2>1. CASE r = deck
    BY <1>1, <2>1 DEF Follows
  <2>2. CASE r = f /\ ~ deck.failed
    <3>1. /\ f \in DeckFields /\ f.open = deck.open /\ f.identity = deck.identity /\ f.held = deck.held
          /\ f.down = deck.down /\ f.queue = deck.queue /\ f.active = deck.active /\ ~ f.failed
          /\ f.job = deck.job /\ f.entry = deck.entry
      BY <1>1 DEF DeckFields
    <3> HIDE DEF f
    <3>2. Orderly(f) /\ Believed(f)
      BY <1>1, <2>2, <3>1 DEF Orderly, Chained, Typed, Underway, Final, D!HostHeld, Believed, Linked
    <3> QED BY <2>2, <3>1, <3>2 DEF Follows
  <2>3. CASE r = s /\ Sendable(deck) /\ ~ deck.active
    <3>1. /\ s \in DeckFields /\ s.open = deck.open /\ s.identity = deck.identity /\ s.held = deck.held
          /\ s.down = deck.down /\ s.queue = deck.queue /\ s.active = deck.active /\ s.failed = deck.failed
          /\ s.job = "sent" /\ s.entry = e
      BY <1>1 DEF DeckFields
    <3>2. Believed(s)
      BY <1>1, <2>3, SendingBelieved DEF Sendable
    <3> HIDE DEF s
    <3>3. deck.queue = <<>> /\ D!HostHeld(deck) = {}
      BY <1>1, <2>3 DEF Orderly, Typed, Sendable
    <3>4. Orderly(s)
      BY <2>3, <3>1, <3>3 DEF Orderly, Chained, Typed, D!HostHeld
    <3> QED BY <2>3, <3>1, <3>2, <3>4 DEF Follows
  <2> QED BY <1>2, <2>1, <2>2, <2>3
<1> QED BY <1>3, CallbackKeeps DEF r

LEMMA ToggleKeepsDeck == ASSUME DeckInv, NEW c \in Contacts, D!Toggle(c) PROVE DeckInv'
<1> DEFINE held == IF c \notin deck.held THEN deck.held \cup {c} ELSE deck.held \ {c}
           e == [press |-> held \ deck.held, release |-> deck.held \ held, held |-> held]
<1>1. deck.open /\ D!Callback(D!Sent(deck, e, FALSE))
  BY DEF D!Toggle
<1>2. e \in D!Entry /\ Fits(deck.held, e)
  BY DEF D!Entry, Fits, DeckInv, DeckTypes, DeckFields
<1> HIDE DEF e
<1> QED BY <1>1, <1>2, ClickKeeps

LEMMA ReleaseAllKeepsDeck == ASSUME DeckInv, D!ReleaseAll PROVE DeckInv'
<1> DEFINE e == [D!NoEntry EXCEPT !.release = deck.held]
<1>1. deck.open /\ D!Callback(D!Sent(deck, e, FALSE))
  BY DEF D!ReleaseAll
<1>2. e \in D!Entry /\ Fits(deck.held, e)
  BY DEF D!Entry, D!NoEntry, Fits, DeckInv, DeckTypes, DeckFields
<1> HIDE DEF e
<1> QED BY <1>1, <1>2, ClickKeeps

LEMMA PollKeepsDeck == ASSUME DeckInv, D!Poll PROVE DeckInv'
<1> DEFINE d == [deck EXCEPT !.job = "none", !.entry = D!NoEntry]
           x == [d EXCEPT !.held = deck.entry.held]
<1>1. /\ deck.open /\ deck.job \in {"completed", "failed"}
      /\ D!Callback(IF deck.job = "failed" THEN [d EXCEPT !.failed = TRUE] ELSE D!Drained(x))
  BY DEF D!Poll
<1>2. /\ d \in DeckFields /\ d.open = deck.open /\ d.identity = deck.identity /\ d.job = "none"
  BY Entries DEF DeckInv, DeckTypes, DeckFields
<1>3. /\ x \in DeckFields /\ x.open = deck.open /\ x.identity = deck.identity /\ x.job = "none"
      /\ x.held = deck.entry.held /\ x.queue = deck.queue /\ x.down = deck.down /\ x.active = deck.active
      /\ x.failed = deck.failed
  BY Entries DEF DeckInv, DeckTypes, DeckFields
<1> HIDE DEF d, x
<1>4. CASE deck.job = "failed"
  <2>1. Follows(d, [d EXCEPT !.failed = TRUE])
    BY <1>2, FailedFollows
  <2> QED BY <1>1, <1>2, <1>4, <2>1, CallbackKeeps
<1>5. CASE deck.job = "completed"
  <2>1. Orderly(x)
    BY <1>3, <1>5 DEF DeckInv, Orderly, Chained, Typed, Underway, Final, D!HostHeld
  <2>2. Believed(x)
    BY <1>3, <1>5 DEF DeckInv, Believed, Linked
  <2>3. Follows(x, D!Drained(x))
    BY <1>3, <2>1, <2>2, DrainFollows
  <2> QED BY <1>1, <1>3, <1>5, <2>3, CallbackKeeps
<1> QED BY <1>1, <1>4, <1>5

LEMMA CloseKeepsDeck == ASSUME DeckInv, D!Close PROVE DeckInv'
<1> DEFINE d == [deck EXCEPT !.open = FALSE, !.pending = {}]
<1>1. /\ d \in DeckFields /\ ~ d.open /\ d.identity = deck.identity /\ d.job = deck.job
      /\ d.entry = deck.entry /\ d.held = deck.held /\ d.queue = deck.queue /\ d.down = deck.down
      /\ d.active = deck.active /\ d.failed = deck.failed
  BY DEF DeckInv, DeckTypes, DeckFields
<1>2. /\ deck.job = "none" /\ deck' = d /\ UNCHANGED <<worker, bridge, vm, guest>>
      /\ (vm.live /\ vm.identity = deck.identity => deck.held = {} /\ ~ deck.failed)
  BY <1>1 DEF D!Close, D!Callback
<1> HIDE DEF d
<1>3. There = {}
  BY <1>2 DEF DeckInv, Believed, Linked, BridgeTrue, DeckOwns, There
<1>4. Orderly(d) /\ Believed(d)
  BY <1>1 DEF DeckInv, Orderly, Chained, Typed, Underway, Final, D!HostHeld, Believed, Linked
<1>5. DeckTypes' /\ BridgeTrue'
  BY <1>1, <1>2 DEF DeckInv, DeckTypes, BridgeTrue
<1>6. Orderly(deck)' /\ Believed(deck)'
  BY <1>2, <1>4 DEF Orderly, Chained, Typed, Underway, Final, Believed, Linked, There
<1>7. DeckOwns'
  BY <1>1, <1>2, <1>3 DEF DeckInv, DeckOwns, There
<1> QED BY <1>5, <1>6, <1>7 DEF DeckInv

LEMMA OpenKeepsDeck == ASSUME DeckInv, D!Open PROVE DeckInv'
<1> DEFINE d == D!FreshDeck(vm.identity)
<1>1. vm.identity \in Nat /\ D!NoEntry \in D!Entry /\ <<>> \in Seq(D!Entry)
  BY Entries DEF DeckInv, DeckTypes
<1>2. /\ d \in DeckFields /\ d.open /\ d.identity = vm.identity /\ d.job = "none" /\ d.held = {}
      /\ d.queue = <<>> /\ ~ d.active /\ d.down = [k \in D!Inputs |-> {}] /\ ~ d.failed
  BY <1>1 DEF D!FreshDeck, DeckFields
<1>3. ~ deck.open /\ deck' = d /\ UNCHANGED <<worker, bridge, vm, guest>>
  BY <1>2 DEF D!Open, D!Callback
<1> HIDE DEF d
<1>4. There = {} /\ deck.job = "none"
  BY <1>3 DEF DeckInv, DeckOwns
<1>5. Orderly(d) /\ Believed(d)
  <2>1. D!HostHeld(d) = {}
    BY <1>2 DEF D!HostHeld
  <2> QED BY <1>2, <1>4, <2>1 DEF Orderly, Chained, Typed, Believed
<1>6. DeckTypes' /\ BridgeTrue'
  BY <1>2, <1>3 DEF DeckInv, DeckTypes, BridgeTrue
<1>7. Orderly(deck)' /\ Believed(deck)'
  BY <1>3, <1>5 DEF Orderly, Chained, Typed, Underway, Final, Believed, Linked, There
<1>8. DeckOwns'
  BY <1>2, <1>3, <1>4 DEF DeckInv, DeckTypes, DeckOwns, There
<1> QED BY <1>6, <1>7, <1>8 DEF DeckInv

LEMMA AgentKeepsDeck == ASSUME DeckInv, D!AgentSubmit PROVE DeckInv'
<1>1. /\ worker.of = "none" /\ UNCHANGED <<deck, bridge, vm, guest>>
      /\ worker' = [of |-> "agent", entry |-> D!NoEntry, at |-> "queued"]
  BY DEF D!AgentSubmit
<1>2. DeckTypes'
  BY <1>1, Entries DEF DeckInv, DeckTypes
<1>3. BridgeTrue' /\ DeckOwns'
  BY <1>1 DEF DeckInv, BridgeTrue, DeckOwns, There
<1>4. Orderly(deck)' /\ Believed(deck)'
  BY <1>1 DEF DeckInv, Orderly, Chained, Typed, Underway, Final, Believed, Linked, There
<1> QED BY <1>2, <1>3, <1>4 DEF DeckInv

(* A job ends: how it did is for the deck to poll.                         *)
LEMMA EndKeeps ==
  ASSUME DeckInv, worker.at # "idle", NEW how \in {"completed", "failed"}, D!End(how), UNCHANGED <<vm, guest>>,
         how = "completed" /\ worker.of = "deck" /\ Linked(deck) /\ ~ deck.failed => There = deck.entry.held,
         bridge' \in [there : BOOLEAN, error : BOOLEAN, epoch : Nat],
         bridge'.epoch = bridge.epoch, bridge.there => bridge'.there
  PROVE  DeckInv'
<1>1. worker' = D!NoWorker /\ deck' = IF worker.of = "deck" THEN [deck EXCEPT !.job = how] ELSE deck
  BY DEF D!End
<1>2. worker'.of = "none" /\ worker'.at = "idle"
      /\ worker' \in [of : {"none", "deck", "agent"}, entry : D!Entry, at : {"idle", "queued", "delivering"}]
  BY <1>1, Entries DEF D!NoWorker
<1>3. BridgeTrue'
  BY <1>2 DEF DeckInv, BridgeTrue
<1>4. CASE worker.of = "deck"
  <2> DEFINE d == [deck EXCEPT !.job = how]
  <2>1. /\ d \in DeckFields /\ d.open = deck.open /\ d.identity = deck.identity /\ d.job = how
        /\ d.entry = deck.entry /\ d.held = deck.held /\ d.queue = deck.queue /\ d.down = deck.down
        /\ d.active = deck.active /\ d.failed = deck.failed
    BY DEF DeckInv, DeckTypes, DeckFields
  <2>2. deck' = d /\ deck.job = "sent" /\ deck.open
    BY <1>1, <1>4 DEF DeckInv, DeckOwns
  <2> HIDE DEF d
  <2>3. Orderly(d)
    <3>1. SUFFICES ASSUME ~ deck.failed, how = "completed" PROVE Chained(d) /\ Typed(d)
      BY <2>1 DEF Orderly
    <3>2. Chained(deck) /\ Typed(deck)
      BY <2>2, <3>1 DEF DeckInv, Orderly
    <3>3. Underway(d) = Underway(deck) /\ D!HostHeld(d) = D!HostHeld(deck)
      BY <2>1, <2>2, <3>1 DEF Underway, D!HostHeld
    <3>4. Final(d) = Final(deck)
      BY <2>1, <3>3 DEF Final
    <3> QED BY <2>1, <2>2, <3>1, <3>2, <3>3, <3>4 DEF Chained, Typed
  <2>4. Orderly(deck)'
    BY <2>2, <2>3 DEF Orderly, Chained, Typed, Underway, Final
  <2>5. Linked(deck)' => Linked(deck)
    BY <2>1, <2>2 DEF Linked
  <2>6. Believed(deck)'
    BY <1>4, <2>1, <2>2, <2>5 DEF Believed, There
  <2>7. DeckTypes'
    BY <1>2, <2>1, <2>2 DEF DeckInv, DeckTypes
  <2>8. DeckOwns'
    BY <1>2, <2>1, <2>2 DEF DeckInv, DeckOwns, There
  <2> QED BY <1>3, <2>4, <2>6, <2>7, <2>8 DEF DeckInv
<1>5. CASE worker.of # "deck"
  <2>1. UNCHANGED <<deck, vm, guest>> /\ deck.job # "sent"
    BY <1>1, <1>5 DEF DeckInv, DeckOwns
  <2>2. Orderly(deck)'
    BY <2>1 DEF DeckInv, Orderly, Chained, Typed, Underway, Final
  <2>3. (Linked(deck)' => Linked(deck)) /\ There' = There
    BY <2>1 DEF Linked, There
  <2>4. Believed(deck)'
    BY <2>1, <2>3 DEF DeckInv, Believed
  <2>5. DeckTypes' /\ DeckOwns'
    BY <1>2, <2>1, <2>3 DEF DeckInv, DeckTypes, DeckOwns
  <2> QED BY <1>3, <2>2, <2>4, <2>5 DEF DeckInv
<1> QED BY <1>4, <1>5

LEMMA RefuseKeepsDeck == ASSUME DeckInv, D!RefuseJob PROVE DeckInv'
<1>1. worker.at = "queued" /\ D!End("failed") /\ UNCHANGED <<bridge, vm, guest>>
  BY DEF D!RefuseJob
<1>2. /\ bridge' \in [there : BOOLEAN, error : BOOLEAN, epoch : Nat]
      /\ bridge'.epoch <= vm.epoch /\ (~ bridge'.there => bridge'.epoch = 0)
  BY <1>1 DEF DeckInv, DeckTypes, BridgeTrue
<1> QED BY <1>1, <1>2, EndKeeps

LEMMA CompleteKeepsDeck == ASSUME DeckInv, D!CompleteJob PROVE DeckInv'
<1>1. /\ worker.at = "delivering" /\ worker.entry.release \cap guest = {} /\ worker.entry.press \subseteq guest
      /\ D!End("completed") /\ UNCHANGED <<bridge, vm, guest>>
  BY DEF D!CompleteJob
<1>2. /\ bridge' \in [there : BOOLEAN, error : BOOLEAN, epoch : Nat]
      /\ bridge'.epoch <= vm.epoch /\ (~ bridge'.there => bridge'.epoch = 0)
  BY <1>1 DEF DeckInv, DeckTypes, BridgeTrue
<1>3. ASSUME worker.of = "deck", Linked(deck), ~ deck.failed PROVE There = deck.entry.held
  <2>1. /\ deck.job = "sent" /\ worker.entry = deck.entry
        /\ deck.entry.press \subseteq Contacts /\ deck.entry.release \subseteq Contacts
    BY <1>3, Entries DEF DeckInv, DeckTypes, DeckFields, DeckOwns
  <2>2. Fits(deck.held, deck.entry)
    BY <1>3, <2>1 DEF DeckInv, Orderly, Chained
  <2>3. deck.held \ deck.entry.release \subseteq There /\ There \subseteq deck.held \cup deck.entry.press
    BY <1>3, <2>1 DEF DeckInv, Believed
  <2> QED BY <1>1, <2>1, <2>2, <2>3 DEF Fits, There
<1> QED BY <1>1, <1>2, <1>3, EndKeeps

LEMMA BreakKeepsDeck == ASSUME DeckInv, D!BreakJob PROVE DeckInv'
<1> DEFINE b == [bridge EXCEPT !.there = TRUE, !.error = TRUE]
<1>1. worker.at # "idle" /\ D!End("failed") /\ bridge' = b /\ UNCHANGED <<vm, guest>>
  BY DEF D!BreakJob
<1>2. b \in [there : BOOLEAN, error : BOOLEAN, epoch : Nat] /\ b.there /\ b.epoch = bridge.epoch
  BY DEF DeckInv, DeckTypes
<1>3. vm.epoch # 0 /\ bridge.epoch <= vm.epoch /\ (~ bridge.there => bridge.epoch = 0)
  BY DEF DeckInv, DeckTypes, BridgeTrue
<1> HIDE DEF b
<1> QED BY <1>1, <1>2, <1>3, EndKeeps

LEMMA StartKeepsDeck == ASSUME DeckInv, D!StartJob PROVE DeckInv'
<1> DEFINE b == [bridge EXCEPT !.there = TRUE, !.epoch = vm.epoch]
           w == [worker EXCEPT !.at = "delivering"]
<1>1. /\ worker.at = "queued" /\ (bridge.there => bridge.epoch = vm.epoch)
      /\ bridge' = b /\ worker' = w /\ UNCHANGED <<deck, vm, guest>>
  BY DEF D!StartJob, D!Usable
<1>2. /\ b \in [there : BOOLEAN, error : BOOLEAN, epoch : Nat] /\ b.there /\ b.epoch = vm.epoch
      /\ w \in [of : {"none", "deck", "agent"}, entry : D!Entry, at : {"idle", "queued", "delivering"}]
      /\ w.of = worker.of /\ w.entry = worker.entry /\ w.at = "delivering" /\ worker.of # "none"
  BY <1>1 DEF DeckInv, DeckTypes, DeckOwns
<1> HIDE DEF b, w
<1>3. DeckTypes' /\ BridgeTrue' /\ DeckOwns'
  BY <1>1, <1>2 DEF DeckInv, DeckTypes, BridgeTrue, DeckOwns, There
<1>4. Orderly(deck)' /\ Believed(deck)'
  BY <1>1, <1>2 DEF DeckInv, Orderly, Chained, Typed, Underway, Final, Believed, Linked, There
<1> QED BY <1>3, <1>4 DEF DeckInv

LEMMA DeliverKeepsDeck == ASSUME DeckInv, D!Deliver PROVE DeckInv'
<1>1. /\ worker.at = "delivering" /\ vm.live /\ (bridge.there => bridge.epoch = vm.epoch)
      /\ UNCHANGED <<deck, worker, bridge, vm>>
      /\ \/ \E c \in worker.entry.release \cap guest : guest' = guest \ {c}
         \/ \E c \in worker.entry.press \ guest : guest' = guest \cup {c}
         \/ worker.of = "agent" /\ \E g \in SUBSET {AgentContact} : guest' = (guest \ {AgentContact}) \cup g
  BY DEF D!Deliver, D!Usable
<1>2. bridge.there /\ worker.of # "none"
  BY <1>1 DEF DeckInv, BridgeTrue, DeckOwns
<1>3. DeckTypes' /\ BridgeTrue' /\ Orderly(deck)'
  BY <1>1, <1>2 DEF DeckInv, DeckTypes, BridgeTrue, Orderly, Chained, Typed, Underway, Final
<1>4. CASE worker.of = "agent"
  <2>1. worker.entry.release = {} /\ worker.entry.press = {}
    BY <1>4 DEF DeckInv, DeckOwns, D!NoEntry
  <2>2. AgentContact \notin Contacts
    BY InputAssumption DEF D!InputAssumption
  <2>3. There' = There
    BY <1>1, <2>1, <2>2 DEF There
  <2>4. Believed(deck)' /\ DeckOwns'
    BY <1>1, <2>3 DEF DeckInv, Believed, Linked, DeckOwns
  <2> QED BY <1>3, <2>4 DEF DeckInv
<1>5. CASE worker.of = "deck"
  <2>1. /\ deck.job = "sent" /\ deck.open /\ worker.entry = deck.entry /\ vm.identity = deck.identity
        /\ deck.entry.press \subseteq Contacts
    BY <1>1, <1>5, Entries DEF DeckInv, DeckTypes, DeckFields, DeckOwns
  <2>2. DeckOwns'
    BY <1>1, <2>1 DEF DeckInv, DeckOwns
  <2>3. Believed(deck)'
    BY <1>1, <1>5, <2>1 DEF DeckInv, Believed, Linked, There
  <2> QED BY <1>3, <2>2, <2>3 DEF DeckInv
<1>6. worker.of \in {"none", "deck", "agent"}
  BY DEF DeckInv, DeckTypes
<1> QED BY <1>2, <1>4, <1>5, <1>6

LEMMA EndsKeepsDeck == ASSUME DeckInv, D!VMEnds PROVE DeckInv'
<1> DEFINE v == [vm EXCEPT !.live = FALSE]
<1>1. vm' = v /\ guest' = {} /\ UNCHANGED <<deck, worker, bridge>>
  BY DEF D!VMEnds
<1>2. v \in [live : BOOLEAN, identity : Nat, epoch : Nat] /\ ~ v.live /\ v.identity = vm.identity
      /\ v.epoch = vm.epoch
  BY DEF DeckInv, DeckTypes
<1> HIDE DEF v
<1>3. DeckTypes' /\ BridgeTrue' /\ DeckOwns'
  BY <1>1, <1>2 DEF DeckInv, DeckTypes, BridgeTrue, DeckOwns, There
<1>4. Orderly(deck)' /\ Believed(deck)'
  BY <1>1, <1>2 DEF DeckInv, Orderly, Chained, Typed, Underway, Final, Believed, Linked
<1> QED BY <1>3, <1>4 DEF DeckInv

LEMMA BootKeepsDeck == ASSUME DeckInv, D!Boot PROVE DeckInv'
<1> DEFINE v == [vm EXCEPT !.live = TRUE, !.identity = @ + 1]
<1>1. ~ vm.live /\ worker.of = "none" /\ vm' = v /\ bridge' = D!NoBridge /\ UNCHANGED <<deck, worker, guest>>
  BY DEF D!Boot
<1>2. v \in [live : BOOLEAN, identity : Nat, epoch : Nat] /\ v.identity = vm.identity + 1 /\ v.epoch = vm.epoch
  <2>1. vm \in [live : BOOLEAN, identity : Nat, epoch : Nat]
    BY DEF DeckInv, DeckTypes
  <2>2. vm.identity + 1 \in Nat
    BY <2>1
  <2> QED BY <2>1, <2>2, Zenon
<1>3. bridge' \in [there : BOOLEAN, error : BOOLEAN, epoch : Nat] /\ ~ bridge'.there /\ bridge'.epoch = 0
  BY <1>1 DEF D!NoBridge
<1> HIDE DEF v
<1>4. DeckTypes' /\ BridgeTrue' /\ DeckOwns'
  BY <1>1, <1>2, <1>3 DEF DeckInv, DeckTypes, DeckFields, BridgeTrue, DeckOwns, There
<1>5. deck.identity \in Nat /\ vm.identity \in Nat /\ deck.identity <= vm.identity
  BY DEF DeckInv, DeckTypes, DeckFields, DeckOwns
<1>6. Orderly(deck)'
  BY <1>1 DEF DeckInv, Orderly, Chained, Typed, Underway, Final
<1>7. vm'.identity # deck.identity
  <2>1. \A i, k \in Nat : i <= k => k + 1 # i
    OBVIOUS
  <2> QED BY <1>1, <1>2, <1>5, <2>1
<1>8. Believed(deck)'
  BY <1>1, <1>7 DEF Believed, Linked
<1> QED BY <1>4, <1>6, <1>8 DEF DeckInv

LEMMA ResetKeepsDeck == ASSUME DeckInv, D!UsbReset PROVE DeckInv'
<1> DEFINE v == [vm EXCEPT !.epoch = @ + 1]
<1>1. vm' = v /\ guest' = {} /\ UNCHANGED <<deck, worker, bridge>>
  BY DEF D!UsbReset
<1>2. v \in [live : BOOLEAN, identity : Nat, epoch : Nat] /\ v.live = vm.live /\ v.identity = vm.identity
      /\ v.epoch = vm.epoch + 1 /\ vm.epoch \in Nat /\ bridge.epoch \in Nat
  BY DEF DeckInv, DeckTypes
<1> HIDE DEF v
<1>3. DeckTypes' /\ BridgeTrue' /\ DeckOwns'
  BY <1>1, <1>2 DEF DeckInv, DeckTypes, BridgeTrue, DeckOwns, There
<1>4. Orderly(deck)'
  BY <1>1, <1>2 DEF DeckInv, Orderly, Chained, Typed, Underway, Final
<1>5. Believed(deck)'
  <2>1. CASE bridge.there
    BY <1>1, <1>2, <2>1 DEF DeckInv, Believed, Linked, BridgeTrue
  <2>2. CASE ~ bridge.there
    <3>1. guest = {} /\ (Linked(deck)' => Linked(deck))
      BY <1>1, <1>2, <2>2 DEF DeckInv, BridgeTrue, Linked
    <3> QED BY <1>1, <3>1 DEF DeckInv, Believed, There
  <2> QED BY <2>1, <2>2
<1> QED BY <1>3, <1>4, <1>5 DEF DeckInv

LEMMA DeckBegins == D!Init => DeckInv
<1> SUFFICES ASSUME D!Init PROVE DeckInv
  OBVIOUS
<1> DEFINE d == D!FreshDeck(1)
<1>1. /\ deck = d /\ worker = D!NoWorker /\ bridge = D!NoBridge /\ guest = {}
      /\ vm = [live |-> TRUE, identity |-> 1, epoch |-> 1]
  BY DEF D!Init
<1>2. D!NoEntry \in D!Entry /\ <<>> \in Seq(D!Entry)
  BY Entries
<1>3. /\ d \in DeckFields /\ d.open /\ d.identity = 1 /\ d.job = "none" /\ d.held = {}
      /\ d.queue = <<>> /\ ~ d.active /\ d.down = [k \in D!Inputs |-> {}] /\ ~ d.failed
  BY <1>2 DEF D!FreshDeck, DeckFields
<1> HIDE DEF d
<1>4. Orderly(deck) /\ Believed(deck)
  <2>1. D!HostHeld(d) = {}
    BY <1>3 DEF D!HostHeld
  <2> QED BY <1>1, <1>3, <2>1 DEF Orderly, Chained, Typed, Believed, There
<1>5. DeckTypes /\ BridgeTrue
  BY <1>1, <1>2, <1>3 DEF DeckTypes, BridgeTrue, D!NoWorker, D!NoBridge
<1>6. DeckOwns
  BY <1>1, <1>3 DEF DeckOwns, There, D!NoWorker
<1> QED BY <1>4, <1>5, <1>6 DEF DeckInv

LEMMA DeckKept == DeckInv /\ [D!Next]_(D!vars) => DeckInv'
<1>1. ASSUME DeckInv, D!Next PROVE DeckInv'
  <2>1. CASE D!WorkerStep
    BY <1>1, <2>1, RefuseKeepsDeck, StartKeepsDeck, DeliverKeepsDeck, CompleteKeepsDeck, BreakKeepsDeck
       DEF D!WorkerStep
  <2>2. CASE D!AgentSubmit \/ D!VMEnds \/ D!Boot \/ D!UsbReset
    BY <1>1, <2>2, AgentKeepsDeck, EndsKeepsDeck, BootKeepsDeck, ResetKeepsDeck
  <2>3. CASE D!FocusOut \/ D!Motion \/ D!Wheel \/ D!ReleaseAll \/ D!Poll \/ D!Close \/ D!Open
    BY <1>1, <2>3, FocusKeepsDeck, MotionKeepsDeck, WheelKeepsDeck, ReleaseAllKeepsDeck, PollKeepsDeck,
       CloseKeepsDeck, OpenKeepsDeck
  <2>4. CASE \E k \in D!Inputs, m \in Mapped : D!Press(k, m)
    BY <1>1, <2>4, PressKeepsDeck
  <2>5. CASE \/ \E k \in Key : D!KeyRelease(k) \/ D!Idle(k)
             \/ \E k \in Button : D!ButtonRelease(k)
             \/ \E c \in Contacts : D!Toggle(c)
    BY <1>1, <2>5, KeyReleaseKeepsDeck, IdleKeepsDeck, ButtonKeepsDeck, ToggleKeepsDeck
  <2> QED BY <1>1, <2>1, <2>2, <2>3, <2>4, <2>5 DEF D!Next
<1>2. ASSUME DeckInv, UNCHANGED D!vars PROVE DeckInv'
  BY <1>2 DEF DeckInv, DeckTypes, Orderly, Chained, Typed, Underway, Final, Believed, Linked, There,
     BridgeTrue, DeckOwns, D!vars
<1> QED BY <1>1, <1>2

(* For any keys, contacts and limits, any queue, agents, broken jobs, USB  *)
(* resets and boots: what the guest holds is what the deck shows whenever  *)
(* it waits for no job, and typing ends in what the host keys hold.        *)
THEOREM DeckStaysTrue == D!Spec => []DeckIsTrue
<1>1. ASSUME DeckInv PROVE DeckIsTrue
  <2>1. D!DeckBelief
    BY <1>1 DEF DeckInv, Believed, Linked, There, D!DeckBelief, D!Connected
  <2>2. D!TypingIsWhole
    BY <1>1 DEF DeckInv, Orderly, Typed, Final, Underway, D!TypingIsWhole
  <2> QED BY <2>1, <2>2 DEF DeckIsTrue, D!DeckIsTrue
<1> QED BY <1>1, DeckBegins, DeckKept, PTL DEF D!Spec
=============================================================================
