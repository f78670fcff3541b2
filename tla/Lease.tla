------------------------------- MODULE Lease -------------------------------
(***************************************************************************)
(* The recovery lease as a value: tools/forge_recovery_lease.py (the grant *)
(* and its renewal) and the snapshot rule of                               *)
(* tools/forge_recovery_deadline.py.  Time is the target's monotonic clock *)
(* counted from the start of the session, in ticks.  Identity fields       *)
(* (nonce, boot id, owner) never change and are left out; a request or a   *)
(* snapshot that carries other ones is refused before anything else.       *)
(***************************************************************************)
EXTENDS Naturals

CONSTANTS
  Term,     \* the longest grant (300 s)
  Hard      \* the absolute cap of a session (86400 s)

ASSUME LeaseAssumption == Term \in Nat \ {0} /\ Hard \in Nat /\ Term <= Hard

Leases == [sampled : Nat, deadline : 0..Hard, seq : Nat, secs : 0..Term]
Requests == [seq : Nat \ {0}, secs : 1..Term]

(* Lease.start at time 0.                                                  *)
InitialLease == [sampled |-> 0, deadline |-> Term, seq |-> 0, secs |-> 0]

(* Lease.check: not expired, not past the cap, the clock not reversed.     *)
Live(l, t) == l.sampled <= t /\ t < l.deadline /\ t < Hard

Earlier(a, b) == IF a <= b THEN a ELSE b
Later(a, b) == IF a <= b THEN b ELSE a

IsDuplicate(l, r) == r.seq = l.seq /\ r.secs = l.secs
IsNext(l, r) == r.seq = l.seq + 1

Renewable(l, r, t) == Live(l, t) /\ (IsDuplicate(l, r) \/ IsNext(l, r))

Renewed(l, r, t) ==
  IF IsDuplicate(l, r)
    THEN [l EXCEPT !.sampled = t]
    ELSE [sampled |-> t, seq |-> r.seq, secs |-> r.secs,
          deadline |-> Earlier(Hard, Later(l.deadline, t + r.secs))]

(* validate: snapshot c may follow the snapshot l the reader accepted last.*)
Acceptable(l, c, t) ==
  /\ Live(c, t)
  /\ l.sampled <= c.sampled /\ l.deadline <= c.deadline
  /\ c.deadline <= Hard /\ c.deadline <= c.sampled + Term
  /\ c.seq = l.seq => c.deadline = l.deadline /\ c.secs = l.secs
  /\ c.seq # l.seq => l.seq < c.seq /\ c.sampled < l.deadline /\ 0 < c.secs
=============================================================================
