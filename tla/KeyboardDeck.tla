---------------------------- MODULE KeyboardDeck ----------------------------
(***************************************************************************)
(* The Workbench's keyboard deck (forge_keyboard_gui.KeyboardDeck), the    *)
(* host keys behind its typing area (forge_keyboard_host.HostKeys), the    *)
(* controller's keyboard_input job and the bridge that drives the firmware *)
(* oracle and injects its reports into the guest                           *)
(* (forge_keyboard.KeyboardBridge).                                        *)
(*                                                                         *)
(* The deck lives in Tk's single thread: one of its steps is one callback, *)
(* with every call it makes.  The job runs in the controller's thread; an  *)
(* agent submits keyboard jobs of its own to the same bridge.  A report is *)
(* known by the contact it tells of; which key that is, is                 *)
(* KeyboardFirmware's subject.                                             *)
(***************************************************************************)
EXTENDS Naturals, Sequences, FiniteSets, SequencesExt

CONSTANTS
    Key,        \* keycodes of host keys
    Button,     \* the pointer pad's buttons, released without delay
    Contact,    \* contacts the deck can hold
    Mapped,     \* contacts(keysym): the contact sets of the keysyms
    AgentContact,   \* the contact agents press
    MaxHeld,    \* 32
    MaxQueue,   \* 64
    MaxBoots, MaxResets     \* bounds: boots of the VM, USB resets

InputAssumption ==
    /\ Mapped \subseteq (SUBSET Contact) \ {{}}
    /\ AgentContact \notin Contact
    /\ {MaxHeld, MaxQueue, MaxBoots, MaxResets} \subseteq Nat

VARIABLES
    deck,       \* the window and its fields
    worker,     \* the workspace's one active keyboard job, if any
    bridge,     \* controller.keyboards[workspace]
    vm,         \* the runtime: alive, its identity, the USB epoch
    guest       \* the contacts the guest was told are closed

vars == <<deck, worker, bridge, vm, guest>>
-----------------------------------------------------------------------------
Inputs == Key \cup Button
\* One entry of host_queue: contacts to open, to close, and held afterwards.
Entry == [release : SUBSET Contact, press : SUBSET Contact, held : SUBSET Contact]
NoEntry == [release |-> {}, press |-> {}, held |-> {}]
NoWorker == [of |-> "none", entry |-> NoEntry, at |-> "idle"]
NoBridge == [there |-> FALSE, error |-> FALSE, epoch |-> 0]

FreshDeck(id) ==
    [open |-> TRUE, identity |-> id, held |-> {}, down |-> [k \in Inputs |-> {}],
     queue |-> <<>>, active |-> FALSE, failed |-> FALSE, job |-> "none",
     entry |-> NoEntry, pending |-> {}]

HostHeld(d) == UNION {d.down[k] : k \in Inputs}

TypeOK ==
    /\ deck.open \in BOOLEAN /\ deck.active \in BOOLEAN /\ deck.failed \in BOOLEAN
    /\ deck.identity \in 1..MaxBoots /\ deck.held \subseteq Contact
    /\ deck.down \in [Inputs -> Mapped \cup {{}}]
    /\ deck.queue \in Seq(Entry) /\ Len(deck.queue) <= MaxQueue
    /\ deck.job \in {"none", "sent", "completed", "failed"} /\ deck.entry \in Entry
    /\ deck.pending \subseteq Key
    /\ worker.of \in {"none", "deck", "agent"} /\ worker.at \in {"idle", "queued", "delivering"}
    /\ bridge.there \in BOOLEAN /\ bridge.error \in BOOLEAN /\ bridge.epoch \in 0..(MaxResets + 1)
    /\ vm.live \in BOOLEAN /\ vm.identity \in 1..MaxBoots /\ vm.epoch \in 1..(MaxResets + 1)
    /\ guest \subseteq Contact \cup {AgentContact}

Init ==
    /\ deck = FreshDeck(1) /\ worker = NoWorker /\ bridge = NoBridge
    /\ vm = [live |-> TRUE, identity |-> 1, epoch |-> 1] /\ guest = {}
-----------------------------------------------------------------------------
\* KeyboardDeck.send: the deck afterwards.  Nothing is sent beside a pending
\* job or after a failure; a refused host entry fails the deck.
Sent(d, e, host) ==
    IF d.job # "none" \/ d.failed \/ (d.active /\ ~host) THEN d
    ELSE IF vm.live /\ vm.identity = d.identity /\ worker.of = "none"
    THEN [d EXCEPT !.job = "sent", !.entry = e]
    ELSE [d EXCEPT !.failed = host]

\* drain_host.
Drained(d) ==
    IF d.job # "none" \/ d.failed THEN d
    ELSE IF d.queue # <<>>
    THEN Sent([d EXCEPT !.queue = Tail(@)], Head(d.queue), TRUE)
    ELSE [d EXCEPT !.active = @ /\ HostHeld(d) # {}]

Full(d) == Len(d.queue) >= MaxQueue

\* A callback ends with the deck d; a job it sent is in the controller.
Callback(d) ==
    /\ deck' = d
    /\ worker' = IF d.job = "sent" /\ deck.job # "sent"
                 THEN [of |-> "deck", entry |-> d.entry, at |-> "queued"]
                 ELSE worker
    /\ UNCHANGED <<bridge, vm, guest>>

\* host_event and HostKeys.change: the host keys become "down".
HostEvent(d, down) ==
    LET before == HostHeld(d)
        after == UNION {down[k] : k \in Inputs}
        e == [release |-> before \ after, press |-> after \ before, held |-> after]
        changed == [d EXCEPT !.down = down]
    IN
    IF d.failed \/ (~d.active /\ (d.held # {} \/ d.job # "none")) THEN d
    ELSE IF Cardinality(after) > MaxHeld THEN [d EXCEPT !.failed = TRUE]
    ELSE IF before = after THEN Drained(changed)
    ELSE IF Full(d) THEN [changed EXCEPT !.failed = TRUE]
    ELSE Drained([changed EXCEPT !.queue = Append(@, e), !.active = TRUE])

Without(d, k) == [d.down EXCEPT ![k] = {}]
-----------------------------------------------------------------------------
\* key_press, pointer_button: a press cancels the release that waits for it; a
\* key already down keeps the contacts it was pressed as.
Press(k, m) ==
    /\ deck.open
    /\ LET d == [deck EXCEPT !.pending = @ \ {k}] IN
       Callback(HostEvent(d, [d.down EXCEPT ![k] = IF @ = {} THEN m ELSE @]))

\* key_release: the release waits until Tk is idle.
KeyRelease(k) ==
    /\ deck.open
    /\ Callback([deck EXCEPT !.pending = @ \cup {k}])

\* Its after_idle callback.
Idle(k) ==
    /\ deck.open /\ k \in deck.pending
    /\ LET d == [deck EXCEPT !.pending = @ \ {k}] IN
       Callback(HostEvent(d, Without(d, k)))

\* pointer_button: a button's release does not wait.
ButtonRelease(k) == deck.open /\ Callback(HostEvent(deck, Without(deck, k)))

\* focus_out: every host key is let go of.
FocusOut ==
    /\ deck.open
    /\ LET d == [deck EXCEPT !.pending = {}] IN
       Callback(HostEvent(d, [k \in Inputs |-> {}]))

\* pointer_motion: a batch of trackball edges, which holds nothing.
Motion ==
    /\ deck.open /\ ~deck.failed
    /\ deck.active \/ (deck.held = {} /\ deck.job = "none")
    /\ Callback(IF Full(deck) THEN [deck EXCEPT !.failed = TRUE]
                ELSE Drained([deck EXCEPT !.active = TRUE, !.queue =
                         Append(@, [NoEntry EXCEPT !.held = HostHeld(deck)])]))

\* pointer_wheel: Select goes down and up again within the entry.
Wheel ==
    /\ deck.open /\ ~deck.failed /\ HostHeld(deck) = {}
    /\ deck.active \/ (deck.held = {} /\ deck.job = "none")
    /\ Callback(IF Full(deck) THEN [deck EXCEPT !.failed = TRUE]
                ELSE Drained([deck EXCEPT !.active = TRUE, !.queue = Append(@, NoEntry)]))

\* toggle: a click on a contact.
Toggle(c) ==
    LET on == c \notin deck.held
        held == IF on THEN deck.held \cup {c} ELSE deck.held \ {c}
    IN
    /\ deck.open /\ ~deck.active /\ (on => Cardinality(deck.held) < MaxHeld)
    /\ Callback(Sent(deck, [press |-> held \ deck.held, release |-> deck.held \ held,
                            held |-> held], FALSE))

\* release_all.
ReleaseAll ==
    /\ deck.open /\ deck.held # {}
    /\ Callback(Sent(deck, [NoEntry EXCEPT !.release = deck.held], FALSE))

\* Mutant: the window forgets what it holds when a job ends badly.
PollForgetting ==
    /\ deck.open /\ deck.job \in {"completed", "failed"}
    /\ LET d == [deck EXCEPT !.job = "none", !.entry = NoEntry] IN
       Callback(Drained([d EXCEPT !.held = deck.entry.held]))

\* poll: the job is over.
Poll ==
    /\ deck.open /\ deck.job \in {"completed", "failed"}
    /\ LET d == [deck EXCEPT !.job = "none", !.entry = NoEntry] IN
       Callback(IF deck.job = "failed" THEN [d EXCEPT !.failed = TRUE]
                ELSE Drained([d EXCEPT !.held = deck.entry.held]))

\* close: refused while the VM it drives runs and something may be held.
Close ==
    /\ deck.open /\ deck.job = "none"
    /\ vm.live /\ vm.identity = deck.identity => deck.held = {} /\ ~deck.failed
    /\ Callback([deck EXCEPT !.open = FALSE, !.pending = {}])

\* keyboard_deck of the Workbench: a new deck, once the old window is gone.
Open ==
    /\ ~deck.open /\ vm.live
    /\ Callback(FreshDeck(vm.identity))
-----------------------------------------------------------------------------
\* An agent's keyboard_input job for the same workspace.
AgentSubmit ==
    /\ worker.of = "none" /\ vm.live
    /\ worker' = [of |-> "agent", entry |-> NoEntry, at |-> "queued"]
    /\ UNCHANGED <<deck, bridge, vm, guest>>

\* The job ends, and the controller's future shows how.
End(how) ==
    /\ worker' = NoWorker
    /\ deck' = IF worker.of = "deck" THEN [deck EXCEPT !.job = how] ELSE deck

\* Another client cancels the job before it starts, or the VM is gone, or the
\* bridge is in error: nothing is sent.
RefuseJob ==
    /\ worker.at = "queued"
    /\ End("failed")
    /\ UNCHANGED <<bridge, vm, guest>>

Usable == vm.live /\ ~bridge.error /\ (bridge.there => bridge.epoch = vm.epoch)

\* submit_keyboard's action and apply: a bridge is made when there is none, and
\* the oracle takes the commands.
StartJob ==
    /\ worker.at = "queued" /\ Usable
    /\ bridge' = [bridge EXCEPT !.there = TRUE, !.epoch = vm.epoch]
    /\ worker' = [worker EXCEPT !.at = "delivering"]
    /\ UNCHANGED <<deck, vm, guest>>

\* apply: one report reaches the guest, the releases of an entry first.
Deliver ==
    /\ worker.at = "delivering" /\ Usable
    /\ LET opened == worker.entry.release \cap guest
           closed == worker.entry.press \ guest
       IN
       \/ \E c \in opened : guest' = guest \ {c}
       \/ opened = {} /\ \E c \in closed : guest' = guest \cup {c}
       \/ worker.of = "agent" /\ \E g \in SUBSET {AgentContact} :
             guest' = (guest \ {AgentContact}) \cup g
    /\ UNCHANGED <<deck, worker, bridge, vm>>

\* apply: every report delivered and the last transport state accepted.
CompleteJob ==
    /\ worker.at = "delivering" /\ Usable
    /\ worker.entry.release \cap guest = {} /\ worker.entry.press \subseteq guest
    /\ End("completed")
    /\ UNCHANGED <<bridge, vm, guest>>

\* apply: a deadline, the oracle, the transport or a USB reset; what reached the
\* guest stays, and the bridge remembers.
BreakJob ==
    /\ \/ worker.at = "delivering"
       \/ worker.at = "queued" /\ vm.live /\ ~bridge.error
    /\ bridge' = [bridge EXCEPT !.there = TRUE, !.error = TRUE]
    /\ End("failed")
    /\ UNCHANGED <<vm, guest>>

\* The VM's process ends.
VMEnds ==
    /\ vm.live /\ vm' = [vm EXCEPT !.live = FALSE] /\ guest' = {}
    /\ UNCHANGED <<deck, worker, bridge>>

\* start, with no job in the way: a new runtime, without the old bridge.
Boot ==
    /\ ~vm.live /\ worker.of = "none" /\ vm.identity < MaxBoots
    /\ vm' = [vm EXCEPT !.live = TRUE, !.identity = @ + 1]
    /\ bridge' = NoBridge
    /\ UNCHANGED <<deck, worker, guest>>

\* The guest resets the USB device, whose keys are up again.
UsbReset ==
    /\ vm.live /\ vm.epoch <= MaxResets
    /\ vm' = [vm EXCEPT !.epoch = @ + 1] /\ guest' = {}
    /\ UNCHANGED <<deck, worker, bridge>>

WorkerStep == RefuseJob \/ StartJob \/ Deliver \/ CompleteJob \/ BreakJob

Next ==
    \/ \E k \in Inputs, m \in Mapped : Press(k, m)
    \/ \E k \in Key : KeyRelease(k) \/ Idle(k)
    \/ \E k \in Button : ButtonRelease(k)
    \/ \E c \in Contact : Toggle(c)
    \/ FocusOut \/ Motion \/ Wheel \/ ReleaseAll \/ Poll \/ Close \/ Open
    \/ AgentSubmit \/ WorkerStep \/ VMEnds \/ Boot \/ UsbReset

Spec == Init /\ [][Next]_vars
-----------------------------------------------------------------------------
\* The deck drives the VM it was opened on, over the same USB connection.
Connected ==
    /\ vm.live /\ vm.identity = deck.identity
    /\ bridge.there => bridge.epoch = vm.epoch

\* poll: "the held indicator changes only after a successful job": between jobs,
\* unless the deck gave up, the guest holds exactly the contacts it shows.
DeckBelief ==
    deck.open /\ Connected /\ deck.job = "none" /\ ~deck.failed
        => guest \cap Contact = deck.held

\* host_event, toggle, pointer_wheel: typing and clicking never mix: without
\* host_active no host key is down and nothing is queued, and the last entry
\* sent or queued leaves exactly what the host keys hold.
TypingIsWhole ==
    LET sent == IF deck.job = "none" THEN deck.held ELSE deck.entry.held
        final == IF deck.queue = <<>> THEN sent ELSE Last(deck.queue).held
    IN
    deck.open /\ ~deck.failed /\ deck.job # "failed" =>
        IF deck.active THEN final = HostHeld(deck)
        ELSE HostHeld(deck) = {} /\ deck.queue = <<>>

\* What the guest holds, what the deck shows and what the host keys hold are one
\* thing at three times, whatever is queued, in flight, cancelled or refused.
DeckIsTrue == DeckBelief /\ TypingIsWhole

=============================================================================
