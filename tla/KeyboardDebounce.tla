-------------------------- MODULE KeyboardDebounce --------------------------
(***************************************************************************)
(* matrix_scan of the keyboard firmware, and scan_keys, which has the same *)
(* shape: the contacts are sampled one column after another while they     *)
(* move, all of them share one timer, and what the handlers see            *)
(* (KeyboardFirmware's "down") is replaced when the timer has run for more *)
(* than Debounce milliseconds.  The timer is a uint16_t, millis() is a     *)
(* uint32_t: Narrow and Wide are their ranges, scaled down.                *)
(***************************************************************************)
EXTENDS Naturals

CONSTANTS
    Columns,    \* MATRIX_COLS; one contact of each is modelled
    Debounce,   \* DEBOUNCE (KEY_DEBOUNCE in scan_keys)
    Narrow,     \* 2^16
    Wide        \* 2^32

SizesAssumption ==
    /\ {Columns, Debounce, Narrow, Wide} \subseteq Nat \ {0}
    /\ Debounce < Narrow /\ Narrow < Wide /\ Wide % Narrow = 0

VARIABLES
    closed,     \* the contacts as they are
    sampled,    \* matrix_debouncing
    matrix,     \* what keyboard_task reads
    deing, de_time,     \* keyboard_debouncing
    now,        \* millis()
    col,        \* the column sampled next; Columns + 1: all are
    age,        \* history: milliseconds since each sample changed, saturating
    first       \* history: millis() has stayed below Narrow so far

vars == <<closed, sampled, matrix, deing, de_time, now, col, age, first>>

Contact == 1..Columns
Old == Debounce + 2
-----------------------------------------------------------------------------
TypeOK ==
    /\ {closed, sampled, matrix} \subseteq SUBSET Contact
    /\ deing \in BOOLEAN /\ de_time \in 0..(Narrow - 1) /\ now \in 0..(Wide - 1)
    /\ col \in 1..(Columns + 1) /\ age \in [Contact -> 0..Old] /\ first \in BOOLEAN

Init ==
    /\ closed \in SUBSET Contact /\ sampled = {} /\ matrix = {}
    /\ deing = FALSE /\ de_time = 0 /\ now = 0 /\ col = 1
    /\ age = [c \in Contact |-> Old] /\ first = TRUE

\* d milliseconds go by; ages is the age of each sample before that.
Pass(d, ages) ==
    /\ now' = (now + d) % Wide
    /\ first' = (first /\ now + d < Narrow)
    /\ age' = [c \in Contact |-> IF ages[c] + d > Old THEN Old ELSE ages[c] + d]

\* A contact closes, opens or bounces.
Move(c) ==
    /\ closed' = IF c \in closed THEN closed \ {c} ELSE closed \cup {c}
    /\ UNCHANGED <<sampled, matrix, deing, de_time, now, col, age, first>>

\* One column: a sample that differs from the last one restarts the timer.
Sample ==
    LET changed == (col \in closed) # (col \in sampled) IN
    /\ col <= Columns
    /\ sampled' = (sampled \ {col}) \cup (closed \cap {col})
    /\ deing' = (deing \/ changed)
    /\ de_time' = IF changed THEN now % Narrow ELSE de_time
    /\ col' = col + 1
    /\ \E d \in 0..1 : Pass(d, IF changed THEN [age EXCEPT ![col] = 0] ELSE age)
    /\ UNCHANGED <<closed, matrix>>

Elapsed == ((now + Wide) - de_time) % Wide

\* Mutant: the samples are taken over a millisecond early.
TakeEarly ==
    /\ col > Columns
    /\ IF deing /\ Elapsed >= Debounce
       THEN matrix' = sampled /\ deing' = FALSE /\ Pass(0, age)
       ELSE UNCHANGED <<matrix, deing>> /\ Pass(1, age)
    /\ col' = 1
    /\ UNCHANGED <<closed, sampled, de_time>>

\* The end of a scan: take the samples over, or delay(1).
Take ==
    /\ col > Columns
    /\ IF deing /\ Elapsed > Debounce
       THEN matrix' = sampled /\ deing' = FALSE /\ Pass(0, age)
       ELSE UNCHANGED <<matrix, deing>> /\ Pass(1, age)
    /\ col' = 1
    /\ UNCHANGED <<closed, sampled, de_time>>

Scan == Sample \/ Take
Next == Scan \/ \E c \in Contact : Move(c)

Spec == Init /\ [][Next]_vars
-----------------------------------------------------------------------------
\* The oracle's tests test_matrix_bounce_is_filtered and
\* test_direct_key_bounce_is_filtered: whatever order contacts move in, the
\* handlers see a new matrix only when no sample of it is younger than Debounce.
\* In matrix_scan that ends when millis() outgrows the uint16_t de_time.
BounceIsFiltered ==
    [][matrix' # matrix /\ first => \A c \in Contact : age[c] > Debounce]_vars

=============================================================================
