------------------------- MODULE MCRecoverySession -------------------------
(***************************************************************************)
(* Two renewals: a lost reply retried before and after its orphan arrives, *)
(* a renewal behind an orphan, a crash between intent, request and reply,  *)
(* the hard cap, and every stall and death of the three processes on the   *)
(* target.  MaxTime lies beyond every deadline plus the watchdog.          *)
(***************************************************************************)
EXTENDS RecoverySession
=============================================================================
