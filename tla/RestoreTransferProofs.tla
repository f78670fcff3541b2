------------------------ MODULE RestoreTransferProofs ------------------------
(***************************************************************************)
(* For any plans, card, sources and number of resets: a completion that    *)
(* was acknowledged or verified is on the card for good, an attempt writes *)
(* on what was approved, and host and worker never wait for each other.    *)
(*                                                                         *)
(* The first two rest on the boot-wide ledger: while an attempt has its    *)
(* intent there, nobody else gets one before a reset (Begun), so whatever  *)
(* is not yet on the card is the chunk this one worker is writing          *)
(* (Unsynced).  The third says for every stage of a worker what lies in    *)
(* the pipes and what the host has noted meanwhile (Conversing).           *)
(*                                                                         *)
(* Two more parts are about what is restored.  However often the files are *)
(* changed, what the host derived from a backup is that backup             *)
(* (SourcePinned, SourceMapped), and what it deploys of a modified image   *)
(* was sealed and checked (DerivativeChecked, DerivativeGiven).            *)
(***************************************************************************)
EXTENDS MCRestoreTransfer, Integers, SequenceTheorems, TLAPS

(* The worker has its intent in the ledger and still holds the lock.       *)
Doing(p) == worker[p] \in Locking \ {"locked"}
(* It found the card as planned and may have begun to change it.           *)
Changing == {"inspect", "mounted", "unmounted", "write", "leaving", "closing", "finished"}
              \cup Streaming

Structure ==
  /\ DOMAIN plan = Plans /\ DOMAIN phase = Plans /\ DOMAIN accepted = Plans
  /\ DOMAIN worker = Plans /\ DOMAIN ledger = Plans /\ DOMAIN got = Plans
  /\ DOMAIN fenced = Plans /\ DOMAIN verdict = Plans
  /\ DOMAIN root = Index /\ writer \in Plans \cup {"nobody"} /\ boot \in 0..MaxBoots

Alone == \A p, q \in Plans : worker[p] \in Locking /\ worker[q] \in Locking => p = q

(* An attempt has one worker, good for the boot of its plan.               *)
Dispatched ==
  \A p \in Plans :
    /\ phase[p] = "none" => worker[p] = "none"
    /\ phase[p] # "none" => plan[p].boot \in 0..boot
    /\ worker[p] \in Locking => boot = plan[p].boot

(* The ledger.                                                             *)
Begun ==
  \A p \in Plans :
    /\ Doing(p) => ledger[p] = "intent" /\ \A q \in Plans \ {p} : ledger[q] # "intent"
    /\ ledger[p] = "receipt" => worker[p] = "done"
    /\ ledger[p] \in {"none", "intent", "receipt", "fence"}

(* What the host may have been told.                                       *)
Told ==
  \A p \in Plans :
    /\ accepted[p] = "acknowledged" \/ verdict[p] = "verified" \/ fenced[p] = "completed"
         => worker[p] = "done"
    /\ fenced[p] # "none" \/ verdict[p] # "none" =>
         /\ phase[p] = "over" /\ ~ Doing(p)
         /\ boot = plan[p].boot => ledger[p] # "none"

(* What is not on the card yet.                                            *)
Unsynced ==
  /\ dirty # {} => \E p \in Plans : ledger[p] = "intent"
  /\ \A p \in Plans :
       Doing(p) => dirty \subseteq IF worker[p] \in {"writing", "written"} THEN {got[p] + 1} ELSE {}

(* Who wrote last, and what there is then.                                 *)
Written ==
  /\ \A p \in Plans :
       /\ worker[p] = "writing" => writer = p
       /\ worker[p] \in {"leaving", "closing", "finished"} => root = Source[p]
       /\ worker[p] = "done" /\ writer = p => root = Source[p] /\ dirty = {}
       /\ worker[p] \in Changing /\ writer # p =>
            root = plan[p].before /\ guarded = plan[p].guard
  /\ writer # "nobody" =>
       /\ phase[writer] # "none"
       /\ boot = plan[writer].boot => ledger[writer] \in {"intent", "receipt"}

IInv == Structure /\ Alone /\ Dispatched /\ Begun /\ Told /\ Unsynced /\ Written
-----------------------------------------------------------------------------
LEMMA StructureKept == IInv /\ Next => Structure'
<1> SUFFICES ASSUME IInv, Next PROVE Structure'
  OBVIOUS
<1> USE PlanAssumption DEF IInv, Structure, Go, At, Index, proto, pipes, work, card, target, recon
<1>1. ASSUME NEW p \in Plans, Prepare(p) PROVE Structure'
  BY <1>1 DEF Prepare
<1>2. ASSUME NEW p \in Plans, Dispatch(p) PROVE Structure'
  BY <1>2 DEF Dispatch
<1>3. ASSUME NEW p \in Plans, Challenged(p) PROVE Structure'
  BY <1>3 DEF Challenged
<1>4. ASSUME NEW p \in Plans, Reply(p) PROVE Structure'
  BY <1>4 DEF Reply
<1>5. ASSUME NEW p \in Plans, NoteUnmounted(p) PROVE Structure'
  BY <1>5 DEF NoteUnmounted
<1>6. ASSUME NEW p \in Plans, CloseInput(p) PROVE Structure'
  BY <1>6 DEF CloseInput
<1>7. ASSUME NEW p \in Plans, NoteComplete(p) PROVE Structure'
  BY <1>7 DEF NoteComplete
<1>8. ASSUME NEW p \in Plans, Accept(p) PROVE Structure'
  BY <1>8 DEF Accept
<1>9. ASSUME NEW p \in Plans, HostFails(p) PROVE Structure'
  BY <1>9 DEF HostFails
<1>10. ASSUME NEW p \in Plans, Start(p) PROVE Structure'
  BY <1>10 DEF Start
<1>11. ASSUME NEW p \in Plans, Refused(p) PROVE Structure'
  BY <1>11 DEF Refused
<1>12. ASSUME NEW p \in Plans, Begin(p) PROVE Structure'
  BY <1>12 DEF Begin
<1>13. ASSUME NEW p \in Plans, Acquire(p) PROVE Structure'
  BY <1>13 DEF Acquire
<1>14. ASSUME NEW p \in Plans, Guard(p) PROVE Structure'
  BY <1>14 DEF Guard
<1>15. ASSUME NEW p \in Plans, Mount(p) PROVE Structure'
  BY <1>15 DEF Mount
<1>16. ASSUME NEW p \in Plans, Unmount(p) PROVE Structure'
  BY <1>16 DEF Unmount
<1>17. ASSUME NEW p \in Plans, AskToWrite(p) PROVE Structure'
  BY <1>17 DEF AskToWrite
<1>18. ASSUME NEW p \in Plans, MayWrite(p) PROVE Structure'
  BY <1>18 DEF MayWrite
<1>19. ASSUME NEW p \in Plans, TakeChunk(p) PROVE Structure'
  BY <1>19 DEF TakeChunk
<1>20. ASSUME NEW p \in Plans, WriteChunk(p) PROVE Structure'
  BY <1>20 DEF WriteChunk
<1>21. ASSUME NEW p \in Plans, FinishChunk(p) PROVE Structure'
  BY <1>21 DEF FinishChunk
<1>22. ASSUME NEW p \in Plans, VerifyChunk(p) PROVE Structure'
  BY <1>22 DEF VerifyChunk
<1>23. ASSUME NEW p \in Plans, TakeEnd(p) PROVE Structure'
  BY <1>23 DEF TakeEnd
<1>24. ASSUME NEW p \in Plans, Readback(p) PROVE Structure'
  BY <1>24 DEF Readback
<1>25. ASSUME NEW p \in Plans, Leave(p) PROVE Structure'
  BY <1>25 DEF Leave
<1>26. ASSUME NEW p \in Plans, SeeEnd(p) PROVE Structure'
  BY <1>26 DEF SeeEnd
<1>27. ASSUME NEW p \in Plans, Complete(p) PROVE Structure'
  BY <1>27 DEF Complete
<1>28. ASSUME NEW p \in Plans, Dies(p) PROVE Structure'
  BY <1>28 DEF Dies
<1>29. ASSUME NEW p \in Plans, Fence(p) PROVE Structure'
  BY <1>29 DEF Fence, Barred
<1>30. ASSUME NEW p \in Plans, FenceFails(p) PROVE Structure'
  BY <1>30 DEF FenceFails, Barred
<1>31. ASSUME NEW p \in Plans, Classify(p) PROVE Structure'
  BY <1>31 DEF Classify
<1>32. ASSUME NEW p \in Plans, ReconcileFails(p) PROVE Structure'
  BY <1>32 DEF ReconcileFails
<1>33. CASE Reset
  BY <1>33 DEF Reset
<1>34. CASE UNCHANGED <<accepted, boot, fenced, got, ledger, phase, plan, root, verdict, worker, writer>>
  BY <1>34
<1> QED BY <1>1, <1>2, <1>3, <1>4, <1>5, <1>6, <1>7, <1>8, <1>9, <1>10, <1>11, <1>12, <1>13,
      <1>14, <1>15, <1>16, <1>17, <1>18, <1>19, <1>20, <1>21, <1>22, <1>23, <1>24, <1>25, <1>26,
      <1>27, <1>28, <1>29, <1>30, <1>31, <1>32, <1>33, <1>34
      DEF Next, Host, Guest, Reconciliation, Approve, IntendChunk, SendChunk, NoteChunk,
          FinishSource, NoteReadback, Renew, Renewed, Drift, pipes, work, card, target, recon,
          proto

LEMMA AloneKept == IInv /\ Next => Alone'
<1> SUFFICES ASSUME IInv, Next PROVE Alone'
  OBVIOUS
<1> USE PlanAssumption DEF IInv, Alone, Structure, Go, At, Index, proto, pipes, work, card, target, recon
<1>1. ASSUME NEW p \in Plans, Dispatch(p) PROVE Alone'
  BY <1>1 DEF Dispatch, Locking, Claiming, Streaming
<1>2. ASSUME NEW p \in Plans, Challenged(p) PROVE Alone'
  BY <1>2 DEF Challenged
<1>3. ASSUME NEW p \in Plans, Start(p) PROVE Alone'
  BY <1>3 DEF Start, LockFree, Locked
<1>4. ASSUME NEW p \in Plans, Refused(p) PROVE Alone'
  BY <1>4 DEF Refused, Locking, Claiming, Streaming
<1>5. ASSUME NEW p \in Plans, Begin(p) PROVE Alone'
  BY <1>5 DEF Begin, Locking
<1>6. ASSUME NEW p \in Plans, Acquire(p) PROVE Alone'
  BY <1>6 DEF Acquire, Locking
<1>7. ASSUME NEW p \in Plans, Guard(p) PROVE Alone'
  BY <1>7 DEF Guard, Locking, Claiming
<1>8. ASSUME NEW p \in Plans, Mount(p) PROVE Alone'
  BY <1>8 DEF Mount, Locking, Claiming
<1>9. ASSUME NEW p \in Plans, Unmount(p) PROVE Alone'
  BY <1>9 DEF Unmount, Locking, Claiming
<1>10. ASSUME NEW p \in Plans, AskToWrite(p) PROVE Alone'
  BY <1>10 DEF AskToWrite, Locking, Claiming
<1>11. ASSUME NEW p \in Plans, MayWrite(p) PROVE Alone'
  BY <1>11 DEF MayWrite, Locking, Claiming
<1>12. ASSUME NEW p \in Plans, TakeChunk(p) PROVE Alone'
  BY <1>12 DEF TakeChunk, Locking, Claiming, Streaming
<1>13. ASSUME NEW p \in Plans, WriteChunk(p) PROVE Alone'
  BY <1>13 DEF WriteChunk, Locking, Claiming, Streaming
<1>14. ASSUME NEW p \in Plans, FinishChunk(p) PROVE Alone'
  BY <1>14 DEF FinishChunk, Locking, Claiming, Streaming
<1>15. ASSUME NEW p \in Plans, VerifyChunk(p) PROVE Alone'
  BY <1>15 DEF VerifyChunk, Locking, Claiming, Streaming
<1>16. ASSUME NEW p \in Plans, TakeEnd(p) PROVE Alone'
  BY <1>16 DEF TakeEnd, Locking, Claiming, Streaming
<1>17. ASSUME NEW p \in Plans, Readback(p) PROVE Alone'
  BY <1>17 DEF Readback, Locking, Claiming, Streaming
<1>18. ASSUME NEW p \in Plans, Leave(p) PROVE Alone'
  BY <1>18 DEF Leave, Locking, Claiming
<1>19. ASSUME NEW p \in Plans, SeeEnd(p) PROVE Alone'
  BY <1>19 DEF SeeEnd, Locking
<1>20. ASSUME NEW p \in Plans, Complete(p) PROVE Alone'
  BY <1>20 DEF Complete, Locking
<1>21. ASSUME NEW p \in Plans, Dies(p) PROVE Alone'
  BY <1>21 DEF Dies
<1>22. CASE Reset
  BY <1>22 DEF Reset
<1>23. CASE UNCHANGED <<worker>>
  BY <1>23
<1> QED BY <1>1, <1>2, <1>3, <1>4, <1>5, <1>6, <1>7, <1>8, <1>9, <1>10, <1>11, <1>12, <1>13,
      <1>14, <1>15, <1>16, <1>17, <1>18, <1>19, <1>20, <1>21, <1>22, <1>23
      DEF Next, Host, Guest, Reconciliation, Prepare, Approve, Reply, NoteUnmounted,
          IntendChunk, SendChunk, NoteChunk, FinishSource, NoteReadback, CloseInput,
          NoteComplete, Accept, HostFails, Renew, Renewed, Fence, FenceFails, Classify,
          ReconcileFails, Drift, proto, pipes, work, card, target, recon

LEMMA DispatchedKept == IInv /\ Next => Dispatched'
<1> SUFFICES ASSUME IInv, Next PROVE Dispatched'
  OBVIOUS
<1> USE PlanAssumption DEF IInv, Alone, Dispatched, Structure, Go, At, Index, proto, pipes, work, card, target, recon
<1>1. ASSUME NEW p \in Plans, Prepare(p) PROVE Dispatched'
  BY <1>1 DEF Prepare
<1>2. ASSUME NEW p \in Plans, Dispatch(p) PROVE Dispatched'
  BY <1>2 DEF Dispatch
<1>3. ASSUME NEW p \in Plans, Challenged(p) PROVE Dispatched'
  BY <1>3 DEF Challenged
<1>4. ASSUME NEW p \in Plans, Reply(p) PROVE Dispatched'
  BY <1>4 DEF Reply
<1>5. ASSUME NEW p \in Plans, NoteUnmounted(p) PROVE Dispatched'
  BY <1>5 DEF NoteUnmounted
<1>6. ASSUME NEW p \in Plans, CloseInput(p) PROVE Dispatched'
  BY <1>6 DEF CloseInput
<1>7. ASSUME NEW p \in Plans, NoteComplete(p) PROVE Dispatched'
  BY <1>7 DEF NoteComplete
<1>8. ASSUME NEW p \in Plans, Accept(p) PROVE Dispatched'
  BY <1>8 DEF Accept
<1>9. ASSUME NEW p \in Plans, HostFails(p) PROVE Dispatched'
  BY <1>9 DEF HostFails, Active
<1>10. ASSUME NEW p \in Plans, Start(p) PROVE Dispatched'
  BY <1>10 DEF Start, Identity
<1>11. ASSUME NEW p \in Plans, Refused(p) PROVE Dispatched'
  BY <1>11 DEF Refused, Locking, Claiming, Streaming
<1>12. ASSUME NEW p \in Plans, Begin(p) PROVE Dispatched'
  BY <1>12 DEF Begin, Locking
<1>13. ASSUME NEW p \in Plans, Acquire(p) PROVE Dispatched'
  BY <1>13 DEF Acquire, Locking
<1>14. ASSUME NEW p \in Plans, Guard(p) PROVE Dispatched'
  BY <1>14 DEF Guard, Locking, Claiming
<1>15. ASSUME NEW p \in Plans, Mount(p) PROVE Dispatched'
  BY <1>15 DEF Mount, Locking, Claiming
<1>16. ASSUME NEW p \in Plans, Unmount(p) PROVE Dispatched'
  BY <1>16 DEF Unmount, Locking, Claiming
<1>17. ASSUME NEW p \in Plans, AskToWrite(p) PROVE Dispatched'
  BY <1>17 DEF AskToWrite, Locking, Claiming
<1>18. ASSUME NEW p \in Plans, MayWrite(p) PROVE Dispatched'
  BY <1>18 DEF MayWrite, Locking, Claiming
<1>19. ASSUME NEW p \in Plans, TakeChunk(p) PROVE Dispatched'
  BY <1>19 DEF TakeChunk, Locking, Claiming, Streaming
<1>20. ASSUME NEW p \in Plans, WriteChunk(p) PROVE Dispatched'
  BY <1>20 DEF WriteChunk, Locking, Claiming, Streaming
<1>21. ASSUME NEW p \in Plans, FinishChunk(p) PROVE Dispatched'
  BY <1>21 DEF FinishChunk, Locking, Claiming, Streaming
<1>22. ASSUME NEW p \in Plans, VerifyChunk(p) PROVE Dispatched'
  BY <1>22 DEF VerifyChunk, Locking, Claiming, Streaming
<1>23. ASSUME NEW p \in Plans, TakeEnd(p) PROVE Dispatched'
  BY <1>23 DEF TakeEnd, Locking, Claiming, Streaming
<1>24. ASSUME NEW p \in Plans, Readback(p) PROVE Dispatched'
  BY <1>24 DEF Readback, Locking, Claiming, Streaming
<1>25. ASSUME NEW p \in Plans, Leave(p) PROVE Dispatched'
  BY <1>25 DEF Leave, Locking, Claiming
<1>26. ASSUME NEW p \in Plans, SeeEnd(p) PROVE Dispatched'
  BY <1>26 DEF SeeEnd, Locking
<1>27. ASSUME NEW p \in Plans, Complete(p) PROVE Dispatched'
  BY <1>27 DEF Complete, Locking
<1>28. ASSUME NEW p \in Plans, Dies(p) PROVE Dispatched'
  BY <1>28 DEF Dies, Locking, Claiming, Streaming
<1>29. CASE Reset
  BY <1>29 DEF Reset, Locking, Claiming, Streaming
<1>30. CASE UNCHANGED <<boot, phase, plan, worker>>
  BY <1>30
<1> QED BY ZenonT(60), <1>1, <1>2, <1>3, <1>4, <1>5, <1>6, <1>7, <1>8, <1>9, <1>10, <1>11, <1>12, <1>13,
      <1>14, <1>15, <1>16, <1>17, <1>18, <1>19, <1>20, <1>21, <1>22, <1>23, <1>24, <1>25, <1>26,
      <1>27, <1>28, <1>29, <1>30
      DEF Next, Host, Guest, Reconciliation, Approve, IntendChunk, SendChunk, NoteChunk,
          FinishSource, NoteReadback, Renew, Renewed, Fence, FenceFails, Classify,
          ReconcileFails, Drift, pipes, work, card, target, recon, proto

LEMMA BegunKept == IInv /\ Next => Begun'
<1> SUFFICES ASSUME IInv, Next PROVE Begun'
  OBVIOUS
<1> USE PlanAssumption DEF IInv, Alone, Begun, Dispatched, Structure, Go, At, Index, proto, pipes, work, card, target, recon
<1>1. ASSUME NEW p \in Plans, Dispatch(p) PROVE Begun'
  BY <1>1 DEF Dispatch, Doing, Locking, Claiming, Streaming
<1>2. ASSUME NEW p \in Plans, Challenged(p) PROVE Begun'
  BY <1>2 DEF Challenged, Doing
<1>3. ASSUME NEW p \in Plans, Start(p) PROVE Begun'
  BY <1>3 DEF Start, Doing
<1>4. ASSUME NEW p \in Plans, Refused(p) PROVE Begun'
  BY <1>4 DEF Refused, Locking, Claiming, Streaming, Doing
<1>5. ASSUME NEW p \in Plans, Begin(p) PROVE Begun'
  BY <1>5 DEF Begin, Permitted, Doing
<1>6. ASSUME NEW p \in Plans, Acquire(p) PROVE Begun'
  BY <1>6 DEF Acquire, Doing, Locking
<1>7. ASSUME NEW p \in Plans, Guard(p) PROVE Begun'
  BY <1>7 DEF Guard, Doing, Locking, Claiming
<1>8. ASSUME NEW p \in Plans, Mount(p) PROVE Begun'
  BY <1>8 DEF Mount, Doing, Locking, Claiming
<1>9. ASSUME NEW p \in Plans, Unmount(p) PROVE Begun'
  BY <1>9 DEF Unmount, Doing, Locking, Claiming
<1>10. ASSUME NEW p \in Plans, AskToWrite(p) PROVE Begun'
  BY <1>10 DEF AskToWrite, Doing, Locking, Claiming
<1>11. ASSUME NEW p \in Plans, MayWrite(p) PROVE Begun'
  BY <1>11 DEF MayWrite, Doing, Locking, Claiming
<1>12. ASSUME NEW p \in Plans, TakeChunk(p) PROVE Begun'
  BY <1>12 DEF TakeChunk, Doing, Locking, Claiming, Streaming
<1>13. ASSUME NEW p \in Plans, WriteChunk(p) PROVE Begun'
  BY <1>13 DEF WriteChunk, Doing, Locking, Claiming, Streaming
<1>14. ASSUME NEW p \in Plans, FinishChunk(p) PROVE Begun'
  BY <1>14 DEF FinishChunk, Doing, Locking, Claiming, Streaming
<1>15. ASSUME NEW p \in Plans, VerifyChunk(p) PROVE Begun'
  BY <1>15 DEF VerifyChunk, Doing, Locking, Claiming, Streaming
<1>16. ASSUME NEW p \in Plans, TakeEnd(p) PROVE Begun'
  BY <1>16 DEF TakeEnd, Doing, Locking, Claiming, Streaming
<1>17. ASSUME NEW p \in Plans, Readback(p) PROVE Begun'
  BY <1>17 DEF Readback, Doing, Locking, Claiming, Streaming
<1>18. ASSUME NEW p \in Plans, Leave(p) PROVE Begun'
  BY <1>18 DEF Leave, Doing, Locking, Claiming
<1>19. ASSUME NEW p \in Plans, SeeEnd(p) PROVE Begun'
  BY <1>19 DEF SeeEnd, Doing, Locking
<1>20. ASSUME NEW p \in Plans, Complete(p) PROVE Begun'
  BY <1>20 DEF Complete, Doing, Locking, Claiming, Streaming
<1>21. ASSUME NEW p \in Plans, Dies(p) PROVE Begun'
  BY <1>21 DEF Dies, Locking, Claiming, Streaming, Doing
<1>22. ASSUME NEW p \in Plans, Fence(p) PROVE Begun'
  BY <1>22 DEF Fence, Barred, Doing
<1>23. ASSUME NEW p \in Plans, FenceFails(p) PROVE Begun'
  BY <1>23 DEF FenceFails, Barred, Doing
<1>24. CASE Reset
  BY <1>24 DEF Reset, Locking, Claiming, Streaming, Doing
<1>25. CASE UNCHANGED <<ledger, worker>>
  BY <1>25 DEF Doing
<1> QED BY ZenonT(60), <1>1, <1>2, <1>3, <1>4, <1>5, <1>6, <1>7, <1>8, <1>9, <1>10, <1>11, <1>12, <1>13,
      <1>14, <1>15, <1>16, <1>17, <1>18, <1>19, <1>20, <1>21, <1>22, <1>23, <1>24, <1>25
      DEF Next, Host, Guest, Reconciliation, Prepare, Approve, Reply, NoteUnmounted,
          IntendChunk, SendChunk, NoteChunk, FinishSource, NoteReadback, CloseInput,
          NoteComplete, Accept, HostFails, Renew, Renewed, Classify, ReconcileFails, Drift,
          proto, pipes, work, card, target, recon

LEMMA ToldKept == IInv /\ Next => Told'
<1> SUFFICES ASSUME IInv, Next PROVE Told'
  OBVIOUS
<1> USE PlanAssumption DEF IInv, Begun, Dispatched, Structure, Told, Go, At, Index, proto, pipes, work, card, target, recon
<1>1. ASSUME NEW p \in Plans, Prepare(p) PROVE Told'
  BY <1>1 DEF Prepare, NoPlan, Doing
<1>2. ASSUME NEW p \in Plans, Dispatch(p) PROVE Told'
  BY <1>2 DEF Dispatch, Doing
<1>3. ASSUME NEW p \in Plans, Challenged(p) PROVE Told'
  BY <1>3 DEF Challenged, Doing
<1>4. ASSUME NEW p \in Plans, Reply(p) PROVE Told'
  BY <1>4 DEF Reply, Active, Doing
<1>5. ASSUME NEW p \in Plans, NoteUnmounted(p) PROVE Told'
  BY <1>5 DEF NoteUnmounted, Doing
<1>6. ASSUME NEW p \in Plans, CloseInput(p) PROVE Told'
  BY <1>6 DEF CloseInput, Doing
<1>7. ASSUME NEW p \in Plans, NoteComplete(p) PROVE Told'
  BY <1>7 DEF NoteComplete, Doing
<1>8. ASSUME NEW p \in Plans, Accept(p) PROVE Told'
  BY <1>8 DEF Accept, Doing
<1>9. ASSUME NEW p \in Plans, HostFails(p) PROVE Told'
  BY <1>9 DEF HostFails, Doing
<1>10. ASSUME NEW p \in Plans, Start(p) PROVE Told'
  BY <1>10 DEF Start, Doing
<1>11. ASSUME NEW p \in Plans, Refused(p) PROVE Told'
  BY <1>11 DEF Refused, Locking, Claiming, Streaming, Doing
<1>12. ASSUME NEW p \in Plans, Begin(p) PROVE Told'
  BY <1>12 DEF Begin, Permitted, Doing, Locking
<1>13. ASSUME NEW p \in Plans, Acquire(p) PROVE Told'
  BY <1>13 DEF Acquire, Doing, Locking
<1>14. ASSUME NEW p \in Plans, Guard(p) PROVE Told'
  BY <1>14 DEF Guard, Doing, Locking, Claiming
<1>15. ASSUME NEW p \in Plans, Mount(p) PROVE Told'
  BY <1>15 DEF Mount, Doing, Locking, Claiming
<1>16. ASSUME NEW p \in Plans, Unmount(p) PROVE Told'
  BY <1>16 DEF Unmount, Doing, Locking, Claiming
<1>17. ASSUME NEW p \in Plans, AskToWrite(p) PROVE Told'
  BY <1>17 DEF AskToWrite, Doing, Locking, Claiming
<1>18. ASSUME NEW p \in Plans, MayWrite(p) PROVE Told'
  BY <1>18 DEF MayWrite, Doing, Locking, Claiming
<1>19. ASSUME NEW p \in Plans, TakeChunk(p) PROVE Told'
  BY <1>19 DEF TakeChunk, Doing, Locking, Claiming, Streaming
<1>20. ASSUME NEW p \in Plans, WriteChunk(p) PROVE Told'
  BY <1>20 DEF WriteChunk, Doing, Locking, Claiming, Streaming
<1>21. ASSUME NEW p \in Plans, FinishChunk(p) PROVE Told'
  BY <1>21 DEF FinishChunk, Doing, Locking, Claiming, Streaming
<1>22. ASSUME NEW p \in Plans, VerifyChunk(p) PROVE Told'
  BY <1>22 DEF VerifyChunk, Doing, Locking, Claiming, Streaming
<1>23. ASSUME NEW p \in Plans, TakeEnd(p) PROVE Told'
  BY <1>23 DEF TakeEnd, Doing, Locking, Claiming, Streaming
<1>24. ASSUME NEW p \in Plans, Readback(p) PROVE Told'
  BY <1>24 DEF Readback, Doing, Locking, Claiming, Streaming
<1>25. ASSUME NEW p \in Plans, Leave(p) PROVE Told'
  BY <1>25 DEF Leave, Doing, Locking, Claiming
<1>26. ASSUME NEW p \in Plans, SeeEnd(p) PROVE Told'
  BY <1>26 DEF SeeEnd, Doing, Locking
<1>27. ASSUME NEW p \in Plans, Complete(p) PROVE Told'
  BY <1>27 DEF Complete, Doing, Locking
<1>28. ASSUME NEW p \in Plans, Dies(p) PROVE Told'
  BY <1>28 DEF Dies, Locking, Claiming, Streaming, Doing
<1>29. ASSUME NEW p \in Plans, Fence(p) PROVE Told'
  BY <1>29 DEF Fence, Barred, Fenceable, MayFence, InLedger, Doing
<1>30. ASSUME NEW p \in Plans, FenceFails(p) PROVE Told'
  BY <1>30 DEF FenceFails, Barred, Doing
<1>31. ASSUME NEW p \in Plans, Classify(p) PROVE Told'
  BY <1>31 DEF Classify, Doing
<1>32. ASSUME NEW p \in Plans, ReconcileFails(p) PROVE Told'
  BY <1>32 DEF ReconcileFails, Doing
<1>33. CASE Reset
  BY <1>33 DEF Reset, Locking, Claiming, Streaming, Doing
<1>34. CASE UNCHANGED <<accepted, boot, fenced, ledger, phase, plan, verdict, worker>>
  BY <1>34 DEF Doing
<1> QED BY <1>1, <1>2, <1>3, <1>4, <1>5, <1>6, <1>7, <1>8, <1>9, <1>10, <1>11, <1>12, <1>13,
      <1>14, <1>15, <1>16, <1>17, <1>18, <1>19, <1>20, <1>21, <1>22, <1>23, <1>24, <1>25, <1>26,
      <1>27, <1>28, <1>29, <1>30, <1>31, <1>32, <1>33, <1>34
      DEF Next, Host, Guest, Reconciliation, Approve, IntendChunk, SendChunk, NoteChunk,
          FinishSource, NoteReadback, Renew, Renewed, Drift, pipes, work, card, target, recon,
          proto

LEMMA UnsyncedKept == IInv /\ Next => Unsynced'
<1> SUFFICES ASSUME IInv, Next PROVE Unsynced'
  OBVIOUS
<1> USE PlanAssumption DEF IInv, Alone, Begun, Structure, Unsynced, Go, At, Index, proto, pipes, work, card, target, recon
<1>1. ASSUME NEW p \in Plans, Dispatch(p) PROVE Unsynced'
  BY <1>1 DEF Dispatch, Doing, Locking, Claiming, Streaming
<1>2. ASSUME NEW p \in Plans, Challenged(p) PROVE Unsynced'
  BY <1>2 DEF Challenged, Doing
<1>3. ASSUME NEW p \in Plans, Start(p) PROVE Unsynced'
  BY <1>3 DEF Start, Doing
<1>4. ASSUME NEW p \in Plans, Refused(p) PROVE Unsynced'
  BY <1>4 DEF Refused, Locking, Claiming, Streaming, Doing
<1>5. ASSUME NEW p \in Plans, Begin(p) PROVE Unsynced'
  BY <1>5 DEF Begin, Permitted
<1>6. ASSUME NEW p \in Plans, Acquire(p) PROVE Unsynced'
  BY <1>6 DEF Acquire, Doing, Locking
<1>7. ASSUME NEW p \in Plans, Guard(p) PROVE Unsynced'
  BY <1>7 DEF Guard, Doing, Locking, Claiming
<1>8. ASSUME NEW p \in Plans, Mount(p) PROVE Unsynced'
  BY <1>8 DEF Mount, Doing, Locking, Claiming
<1>9. ASSUME NEW p \in Plans, Unmount(p) PROVE Unsynced'
  BY <1>9 DEF Unmount, Doing, Locking, Claiming
<1>10. ASSUME NEW p \in Plans, AskToWrite(p) PROVE Unsynced'
  BY <1>10 DEF AskToWrite, Doing, Locking, Claiming
<1>11. ASSUME NEW p \in Plans, MayWrite(p) PROVE Unsynced'
  BY <1>11 DEF MayWrite, Doing, Locking, Claiming
<1>12. ASSUME NEW p \in Plans, TakeChunk(p) PROVE Unsynced'
  BY <1>12 DEF TakeChunk, Doing, Locking, Claiming, Streaming
<1>13. ASSUME NEW p \in Plans, WriteChunk(p) PROVE Unsynced'
  BY <1>13 DEF WriteChunk, Doing, Locking, Claiming, Streaming
<1>14. ASSUME NEW p \in Plans, FinishChunk(p) PROVE Unsynced'
  BY <1>14 DEF FinishChunk, Doing, Locking, Claiming, Streaming
<1>15. ASSUME NEW p \in Plans, VerifyChunk(p) PROVE Unsynced'
  BY <1>15 DEF VerifyChunk, Synced, Doing, Locking, Claiming, Streaming
<1>16. ASSUME NEW p \in Plans, TakeEnd(p) PROVE Unsynced'
  BY <1>16 DEF TakeEnd, Doing, Locking, Claiming, Streaming
<1>17. ASSUME NEW p \in Plans, Readback(p) PROVE Unsynced'
  BY <1>17 DEF Readback, Doing, Locking, Claiming, Streaming
<1>18. ASSUME NEW p \in Plans, Leave(p) PROVE Unsynced'
  BY <1>18 DEF Leave, Doing, Locking, Claiming
<1>19. ASSUME NEW p \in Plans, SeeEnd(p) PROVE Unsynced'
  BY <1>19 DEF SeeEnd, Doing, Locking
<1>20. ASSUME NEW p \in Plans, Complete(p) PROVE Unsynced'
  BY <1>20 DEF Complete, Doing, Locking
<1>21. ASSUME NEW p \in Plans, Dies(p) PROVE Unsynced'
  BY <1>21 DEF Dies, Locking, Claiming, Streaming, Doing
<1>22. ASSUME NEW p \in Plans, Fence(p) PROVE Unsynced'
  BY <1>22 DEF Fence, Barred, Doing
<1>23. ASSUME NEW p \in Plans, FenceFails(p) PROVE Unsynced'
  BY <1>23 DEF FenceFails, Barred, Doing
<1>24. CASE Reset
  BY <1>24 DEF Reset
<1>25. CASE UNCHANGED <<dirty, got, ledger, worker>>
  BY <1>25 DEF Doing
<1> QED BY SMTT(30), <1>1, <1>2, <1>3, <1>4, <1>5, <1>6, <1>7, <1>8, <1>9, <1>10, <1>11, <1>12, <1>13,
      <1>14, <1>15, <1>16, <1>17, <1>18, <1>19, <1>20, <1>21, <1>22, <1>23, <1>24, <1>25
      DEF Next, Host, Guest, Reconciliation, Prepare, Approve, Reply, NoteUnmounted,
          IntendChunk, SendChunk, NoteChunk, FinishSource, NoteReadback, CloseInput,
          NoteComplete, Accept, HostFails, Renew, Renewed, Classify, ReconcileFails, Drift,
          proto, pipes, work, card, target, recon

LEMMA WrittenKept == IInv /\ Next => Written'
<1> SUFFICES ASSUME IInv, Next PROVE Written'
  OBVIOUS
<1> USE PlanAssumption DEF IInv, Alone, Begun, Dispatched, Structure, Unsynced, Written, Go, At, Index, proto, pipes, work, card, target, recon
<1>1. ASSUME NEW p \in Plans, Prepare(p) PROVE Written'
  BY <1>1 DEF Prepare, NoPlan
<1>2. ASSUME NEW p \in Plans, Dispatch(p) PROVE Written'
  BY <1>2 DEF Dispatch, Changing, Streaming
<1>3. ASSUME NEW p \in Plans, Challenged(p) PROVE Written'
  BY <1>3 DEF Challenged
<1>4. ASSUME NEW p \in Plans, Reply(p) PROVE Written'
  BY <1>4 DEF Reply
<1>5. ASSUME NEW p \in Plans, NoteUnmounted(p) PROVE Written'
  BY <1>5 DEF NoteUnmounted
<1>6. ASSUME NEW p \in Plans, CloseInput(p) PROVE Written'
  BY <1>6 DEF CloseInput
<1>7. ASSUME NEW p \in Plans, NoteComplete(p) PROVE Written'
  BY <1>7 DEF NoteComplete
<1>8. ASSUME NEW p \in Plans, Accept(p) PROVE Written'
  BY <1>8 DEF Accept
<1>9. ASSUME NEW p \in Plans, HostFails(p) PROVE Written'
  BY <1>9 DEF HostFails
<1>10. ASSUME NEW p \in Plans, Start(p) PROVE Written'
  BY <1>10 DEF Start, Streaming, Changing
<1>11. ASSUME NEW p \in Plans, Refused(p) PROVE Written'
  BY <1>11 DEF Refused, Streaming, Changing
<1>12. ASSUME NEW p \in Plans, Begin(p) PROVE Written'
  BY <1>12 DEF Begin, Changing, Streaming
<1>13. ASSUME NEW p \in Plans, Acquire(p) PROVE Written'
  BY <1>13 DEF Acquire, Changing, Streaming
<1>14. ASSUME NEW p \in Plans, Guard(p) PROVE Written'
  BY <1>14 DEF Guard, GuardsHold
<1>15. ASSUME NEW p \in Plans, Mount(p) PROVE Written'
  BY <1>15 DEF Mount, Changing
<1>16. ASSUME NEW p \in Plans, Unmount(p) PROVE Written'
  BY <1>16 DEF Unmount, Changing
<1>17. ASSUME NEW p \in Plans, AskToWrite(p) PROVE Written'
  BY <1>17 DEF AskToWrite, Changing
<1>18. ASSUME NEW p \in Plans, MayWrite(p) PROVE Written'
  BY <1>18 DEF MayWrite, Changing
<1>19. ASSUME NEW p \in Plans, TakeChunk(p) PROVE Written'
  BY <1>19 DEF TakeChunk, Changing, Streaming
<1>20. ASSUME NEW p \in Plans, WriteChunk(p) PROVE Written'
  BY <1>20 DEF WriteChunk, Changing, Streaming, Locking, Claiming, Doing
<1>21. ASSUME NEW p \in Plans, FinishChunk(p) PROVE Written'
  BY <1>21 DEF FinishChunk, Changing, Streaming, Locking, Claiming
<1>22. ASSUME NEW p \in Plans, VerifyChunk(p) PROVE Written'
  BY <1>22 DEF VerifyChunk, Synced, Changing, Streaming
<1>23. ASSUME NEW p \in Plans, TakeEnd(p) PROVE Written'
  BY <1>23 DEF TakeEnd, Changing, Streaming
<1>24. ASSUME NEW p \in Plans, Readback(p) PROVE Written'
  BY <1>24 DEF Readback, Changing, Streaming
<1>25. ASSUME NEW p \in Plans, Leave(p) PROVE Written'
  BY <1>25 DEF Leave, Changing
<1>26. ASSUME NEW p \in Plans, SeeEnd(p) PROVE Written'
  BY <1>26 DEF SeeEnd, Changing
<1>27. ASSUME NEW p \in Plans, Complete(p) PROVE Written'
  BY <1>27 DEF Complete, Changing, Locking, Doing
<1>28. ASSUME NEW p \in Plans, Dies(p) PROVE Written'
  BY <1>28 DEF Dies, Streaming, Changing
<1>29. ASSUME NEW p \in Plans, Fence(p) PROVE Written'
  BY <1>29 DEF Fence, Barred
<1>30. ASSUME NEW p \in Plans, FenceFails(p) PROVE Written'
  BY <1>30 DEF FenceFails, Barred
<1>31. CASE Drift
  BY <1>31 DEF Drift, LockFree, Locked, Locking, Claiming, Changing
<1>32. CASE Reset
  BY <1>32 DEF Reset, Locking, Claiming, Streaming, Changing
<1>33. CASE UNCHANGED <<boot, dirty, guarded, ledger, phase, plan, root, worker, writer>>
  BY <1>33
<1> QED BY ZenonT(60), <1>1, <1>2, <1>3, <1>4, <1>5, <1>6, <1>7, <1>8, <1>9, <1>10, <1>11, <1>12, <1>13,
      <1>14, <1>15, <1>16, <1>17, <1>18, <1>19, <1>20, <1>21, <1>22, <1>23, <1>24, <1>25, <1>26,
      <1>27, <1>28, <1>29, <1>30, <1>31, <1>32, <1>33
      DEF Next, Host, Guest, Reconciliation, Approve, IntendChunk, SendChunk, NoteChunk,
          FinishSource, NoteReadback, Renew, Renewed, Classify, ReconcileFails, pipes, work,
          card, target, recon, proto

LEMMA IInvBegins == Init => IInv
<1> SUFFICES ASSUME Init PROVE IInv
  OBVIOUS
<1> USE PlanAssumption DEF Init
<1>1. Structure /\ Alone
  BY DEF Structure, Alone, Locking, Claiming, Streaming, Index
<1>2. Dispatched /\ Begun /\ Told
  BY DEF Dispatched, Begun, Told, Doing, Locking, Claiming, Streaming
<1>3. Unsynced
  BY DEF Unsynced, Doing, Locking, Claiming, Streaming
<1>4. Written
  BY DEF Written, Changing, Streaming
<1> QED BY <1>1, <1>2, <1>3, <1>4 DEF IInv

LEMMA IInvKept == IInv /\ [Next]_vars => IInv'
<1>1. IInv /\ Next => IInv'
  BY StructureKept, AloneKept, DispatchedKept, BegunKept, ToldKept, UnsyncedKept, WrittenKept
     DEF IInv
<1>2. IInv /\ UNCHANGED vars => IInv'
  BY DEF IInv, Structure, Alone, Dispatched, Begun, Told, Unsynced, Written, Doing, vars, proto,
     pipes, work, card, target, recon
<1> QED BY <1>1, <1>2

LEMMA IInvHolds == Spec => []IInv
  BY IInvBegins, IInvKept, PTL DEF Spec

(* An acknowledged or verified completion stands for a worker that         *)
(* finished, a complete reconciliation for one that neither runs nor       *)
(* begins any more; and what the last writer completed is the source's     *)
(* to the last chunk and survives every reset.                             *)
THEOREM CompletionsAreDurable == Spec => []CompletionIsDurable
<1>1. IInv => CompletionIsDurable
  BY DEF IInv, Told, Written, Doing, CompletionIsDurable
<1> QED BY <1>1, IInvHolds, PTL

(* The first chunk of an attempt goes on the card the owner approved it    *)
(* for, and never on one that another attempt of that boot left in part.   *)
FirstChunk ==
  writer' # writer =>
    /\ root = plan[writer'].before /\ guarded = plan[writer'].guard
    /\ writer # "nobody" /\ root # Source[writer] => plan[writer'].boot > plan[writer].boot

LEMMA NextWritesAsApproved == IInv /\ [Next]_vars => FirstChunk
<1> SUFFICES ASSUME IInv, [Next]_vars, writer' # writer PROVE FirstChunk
  BY DEF FirstChunk
<1>1. PICK p \in Plans : WriteChunk(p)
  BY DEF Next, Host, Guest, Reconciliation, vars, card, Prepare, Dispatch, Challenged, Approve,
     Reply, NoteUnmounted, IntendChunk, SendChunk, NoteChunk, FinishSource, NoteReadback,
     CloseInput, NoteComplete, Accept, HostFails, Start, Refused, Begin, Acquire, Guard, Mount,
     Unmount, AskToWrite, MayWrite, TakeChunk, FinishChunk, VerifyChunk, TakeEnd, Readback, Leave,
     SeeEnd, Complete, Renew, Renewed, Dies, Fence, FenceFails, Classify, ReconcileFails, Drift,
     Reset
<1>2. writer' = p /\ worker[p] = "holding" /\ Identity(p)
  BY <1>1 DEF WriteChunk, At, card
<1>3. root = plan[p].before /\ guarded = plan[p].guard
  BY <1>2 DEF IInv, Written, Changing, Streaming
<1>4. CASE writer # "nobody" /\ root # Source[writer]
  <2>1. writer \in Plans /\ writer # p /\ ledger[writer] # "intent"
    BY <1>2, <1>4 DEF IInv, Structure, Begun, Doing, Locking, Claiming, Streaming
  <2>2. boot # plan[writer].boot
    BY <1>4, <2>1 DEF IInv, Written, Begun
  <2>3. plan[writer].boot \in 0..boot /\ boot = plan[p].boot /\ boot \in Nat
    BY <1>2, <1>4 DEF IInv, Written, Dispatched, Structure, Identity
  <2>4. plan[p].boot > plan[writer].boot
    BY <2>2, <2>3
  <2> QED BY <1>2, <1>3, <2>4 DEF FirstChunk
<1> QED BY <1>2, <1>3, <1>4 DEF FirstChunk, IInv, Structure

(* An attempt writes its first chunk on the card the owner approved it     *)
(* for, and never on a root that another one left in part in that boot.    *)
THEOREM WritesAreApproved == Spec => WritesAsApproved
<1> QED BY IInvHolds, NextWritesAsApproved, PTL DEF Spec, WritesAsApproved, FirstChunk

-----------------------------------------------------------------------------
(* The conversation: what lies in the pipes, and what the host has noted,  *)
(* at every stage of a worker whose host is still there.                   *)

Telling(p, said) == pending[p] = "none" /\ up[p] = said /\ down[p] = <<>>
Hearing(p, said) == pending[p] = "none" /\ up[p] = <<>> /\ down[p] = said
Still(p) == Telling(p, <<>>)
Asked(p, m) == Telling(p, <<m>>) \/ (pending[p] = m /\ up[p] = <<>> /\ down[p] = <<>>)
(* Request m takes the host from phase f to phase g.                       *)
Request(p, m, f, g) ==
  (phase[p] = f /\ Asked(p, m)) \/ (phase[p] = g /\ Hearing(p, <<"reply">>))
Pausing(p, f) == IF asking[p] THEN Request(p, "renew", f, f) ELSE phase[p] = f /\ Still(p)
(* What it has said so far, with the renewal it may be asking for.         *)
Adding(p, m) == Telling(p, IF asking[p] THEN <<m, "renew">> ELSE <<m>>)

(* s chunks are sent and c acknowledged.                                   *)
Counts(p, s, c, ends) == sent[p] = s /\ chunks[p] = c /\ finished[p] = ends
Fresh(p) == got[p] = 0 /\ intended[p] = 0 /\ Counts(p, 0, 0, {})
Through(p) == got[p] = Chunks /\ sent[p] = Chunks /\ chunks[p] = Chunks

Opening(p) ==
  /\ worker[p] \in {"starting", "locked"} => phase[p] = "initial" /\ Still(p) /\ Fresh(p)
  /\ worker[p] = "acquire" => Request(p, "acquire", "initial", "acquired") /\ Fresh(p)
  /\ worker[p] = "guarding" => Pausing(p, "acquired") /\ Fresh(p)
  /\ worker[p] = "inspect" => Request(p, "inspect", "acquired", "inspecting") /\ Fresh(p)
  /\ worker[p] = "mounted" => phase[p] = "inspecting" /\ Still(p) /\ Fresh(p)
  /\ worker[p] = "unmounted" =>
       Fresh(p) /\ (Pausing(p, "unmounted") \/ (phase[p] = "inspecting" /\ Adding(p, "unmounted")))
  /\ worker[p] = "write" =>
       \/ Fresh(p) /\ phase[p] = "inspecting" /\ Telling(p, <<"unmounted", "write">>)
       \/ Fresh(p) /\ phase[p] = "unmounted" /\ Asked(p, "write")
       \/ /\ got[p] = 0 /\ phase[p] = "streaming"
          /\ \/ Counts(p, 0, 0, {}) /\ Hearing(p, <<"reply">>)
             \/ Counts(p, 1, 0, {}) /\ Hearing(p, <<"reply", "chunk">>)

Sending(p) ==
  /\ worker[p] = "receiving" =>
       /\ phase[p] = "streaming"
       /\ \/ Counts(p, got[p], got[p], {}) /\ Still(p)
          \/ Counts(p, got[p] + 1, got[p], {}) /\ Hearing(p, <<"chunk">>)
          \/ got[p] > 0 /\ Counts(p, got[p], got[p] - 1, {}) /\ Telling(p, <<"chunk">>)
          \/ Through(p) /\ finished[p] = {"source"} /\ Hearing(p, <<"source-complete">>)
  /\ worker[p] \in {"holding", "writing", "written"} =>
       Counts(p, got[p] + 1, got[p], {}) /\ Pausing(p, "streaming")

Closing(p) ==
  /\ worker[p] = "reading" =>
       Through(p) /\ finished[p] = {"source"} /\ Pausing(p, "streaming")
  /\ worker[p] = "leaving" =>
       /\ Through(p) /\ phase[p] = "streaming"
       /\ \/ finished[p] = {"source"} /\ Adding(p, "readback")
          \/ finished[p] = {"source", "readback"} /\ Pausing(p, "streaming")
  /\ worker[p] = "closing" =>
       /\ Through(p)
       /\ \/ /\ phase[p] = "streaming" /\ finished[p] = {"source"}
             /\ Telling(p, <<"readback", "close-input">>)
          \/ /\ phase[p] = "streaming" /\ finished[p] = {"source", "readback"}
             /\ Telling(p, <<"close-input">>)
          \/ phase[p] = "input-closed" /\ pending[p] = "none" /\ up[p] = <<>>

Pauses == {"guarding", "unmounted", "holding", "reading", "leaving"}
Conversing(p) ==
  /\ phase[p] = "none" => worker[p] = "none" /\ Still(p) /\ Fresh(p)
  /\ asking[p] => worker[p] \in Pauses
  /\ "none" \notin approved[p]
  /\ Active(p) => Opening(p) /\ Sending(p) /\ Closing(p)
  /\ got[p] \in 0..Chunks
  /\ worker[p] \in {"holding", "writing", "written"} => got[p] < Chunks
  /\ intended[p] \in 0..Chunks /\ sent[p] \in Nat /\ chunks[p] \in Nat
  /\ chunks[p] <= sent[p] /\ sent[p] <= intended[p] /\ intended[p] <= chunks[p] + 1

Pipes ==
  /\ DOMAIN phase = Plans /\ DOMAIN pending = Plans /\ DOMAIN up = Plans /\ DOMAIN down = Plans
  /\ DOMAIN worker = Plans /\ DOMAIN asking = Plans /\ DOMAIN got = Plans
  /\ DOMAIN sent = Plans /\ DOMAIN chunks = Plans /\ DOMAIN finished = Plans
  /\ DOMAIN intended = Plans /\ DOMAIN approved = Plans
Conversations == \A p \in Plans : Conversing(p)
-----------------------------------------------------------------------------
(* What one message, or two, come to in a pipe.                            *)
LEMMA SaidTwo == ASSUME NEW m, NEW n PROVE Append(<<m>>, n) = <<m, n>>
<1> DEFINE Said == {m, n}
<1>1. /\ <<m>> \in Seq(Said) /\ <<m, n>> \in Seq(Said) /\ n \in Said
      /\ Append(<<m>>, n) \in Seq(Said)
  OBVIOUS
<1>2. Len(Append(<<m>>, n)) = 2 /\ Len(<<m, n>>) = 2
  BY <1>1
<1>3. Append(<<m>>, n)[1] = m /\ Append(<<m>>, n)[2] = n
  BY <1>1
<1>4. \A i \in 1..2 : Append(<<m>>, n)[i] = <<m, n>>[i]
  BY <1>3
<1> QED BY <1>1, <1>2, <1>4, SeqEqual

One(m) ==
  Append(<<>>, m) = <<m>> /\ <<m>> # <<>> /\ Head(<<m>>) = m /\ Tail(<<m>>) = <<>>
Two(m, n) ==
  /\ Append(<<m>>, n) = <<m, n>> /\ <<m, n>> # <<>>
  /\ Head(<<m, n>>) = m /\ Tail(<<m, n>>) = <<n>>
LEMMA SaidOnce == ASSUME NEW m PROVE One(m)
  BY DEF One
LEMMA SaidTwice == ASSUME NEW m, NEW n PROVE Two(m, n)
<1>1. <<m, n>> # <<>> /\ Head(<<m, n>>) = m /\ Tail(<<m, n>>) = <<n>>
  OBVIOUS
<1> QED BY <1>1, SaidTwo DEF Two
LEMMA Said ==
  /\ One("acquire") /\ One("inspect") /\ One("write") /\ One("renew") /\ One("unmounted")
  /\ One("chunk") /\ One("readback") /\ One("close-input") /\ One("reply")
  /\ One("source-complete") /\ One("complete")
  /\ Two("unmounted", "renew") /\ Two("unmounted", "write") /\ Two("readback", "renew")
  /\ Two("readback", "close-input") /\ Two("reply", "chunk")
  BY SaidOnce, SaidTwice

LEMMA PrepareConverses ==
  ASSUME Pipes, PlanAssumption, NEW p \in Plans, Prepare(p), Conversing(p)
  PROVE  Conversing(p)'
BY Said DEF Pipes, One, Two, Go, At, Active, proto, pipes, work, card, target, recon, Prepare,
      Conversing, Closing, Fresh, Opening, Pauses, Sending, Still, Adding, Pausing, Telling,
      Through, Counts, Asked, Hearing, Request, Streaming

LEMMA DispatchConverses ==
  ASSUME Pipes, PlanAssumption, NEW p \in Plans, Dispatch(p), Conversing(p)
  PROVE  Conversing(p)'
BY Said DEF Pipes, One, Two, Go, At, Active, proto, pipes, work, card, target, recon, Dispatch,
      Conversing, Closing, Fresh, Opening, Pauses, Sending, Still, Adding, Pausing, Telling,
      Through, Counts, Asked, Hearing, Request

LEMMA ChallengedConverses ==
  ASSUME Pipes, PlanAssumption, NEW p \in Plans, Challenged(p), Conversing(p)
  PROVE  Conversing(p)'
<1>1. PICK m \in Expected(p) : Reads(p, m) /\ pending' = [pending EXCEPT ![p] = m]
  BY DEF Challenged
<1>2. /\ Active(p) /\ Conversing(p) /\ pending[p] = "none" /\ up[p] # <<>> /\ Head(up[p]) = m
      /\ pending'[p] = m /\ up'[p] = Tail(up[p]) 
      /\ UNCHANGED <<phase, down, worker, asking, got, sent, chunks, finished, intended, approved>>
  BY <1>1 DEF Challenged, Reads, Pipes, work
<1>3. /\ m \in {"acquire", "inspect", "write", "renew"}
      /\ m = "acquire" => phase[p] = "initial"
      /\ m = "inspect" => phase[p] = "acquired"
      /\ m = "write" => phase[p] = "unmounted"
      /\ m = "renew" => phase[p] \in {"acquired", "unmounted", "streaming"}
  BY <1>1 DEF Expected
<1> USE Said DEF One, Two
<1>4. ASSUME NEW n, NEW f, NEW g, Request(p, n, f, g), n \in {"acquire", "inspect", "write", "renew"}
      PROVE  Request(p, n, f, g)'
  <2>1. One(n)
    BY SaidOnce
  <2>2. CASE Asked(p, n)
    BY ZenonT(60), <1>2, <1>4, <2>1, <2>2 DEF Request, Asked, Telling, Hearing, One
  <2>3. CASE ~ Asked(p, n)
    BY <1>2, <1>4, <2>3 DEF Request, Hearing
  <2> QED BY <2>2, <2>3
<1>5. ASSUME NEW f, Pausing(p, f) PROVE Pausing(p, f)'
  BY <1>2, <1>4, <1>5 DEF Pausing, Still, Telling
<1>6. CASE worker[p] \in {"acquire", "inspect", "guarding"}
  BY <1>2, <1>4, <1>5, <1>6
     DEF Conversing, Active, Opening, Sending, Closing, Fresh, Counts
<1>8. CASE worker[p] = "unmounted"
  BY <1>2, <1>3, <1>5, <1>8
     DEF Conversing, Active, Opening, Sending, Closing, Fresh, Counts, Adding, Telling
<1>9. CASE worker[p] = "write"
  <2>1. Fresh(p) /\ phase[p] = "unmounted" /\ Telling(p, <<"write">>)
    BY <1>2, <1>3, <1>9 DEF Conversing, Opening, Telling, Hearing, Asked
  <2>2. Fresh(p)' /\ phase'[p] = "unmounted" /\ Asked(p, "write")'
    BY <1>2, <2>1 DEF Fresh, Counts, Asked, Telling
  <2> QED BY <1>2, <1>9, <2>2 DEF Conversing, Active, Opening, Sending, Closing
<1>10. CASE worker[p] \in {"holding", "writing", "written"}
  BY <1>2, <1>5, <1>10 DEF Conversing, Active, Opening, Sending, Closing, Counts
<1>11. CASE worker[p] \in {"reading", "leaving"}
  BY <1>2, <1>3, <1>5, <1>11
     DEF Conversing, Active, Opening, Sending, Closing, Through, Adding, Telling
<1>12. CASE worker[p] \notin {"acquire", "inspect", "guarding", "unmounted", "write", "holding",
           "writing", "written", "reading", "leaving"}
  <2>1. worker[p] \notin {"starting", "locked", "mounted", "receiving", "closing"}
    BY <1>2, <1>3 DEF Conversing, Opening, Sending, Closing, Still, Telling, Hearing
  <2> QED BY <1>2, <1>12, <2>1 DEF Conversing, Active, Opening, Sending, Closing
<1> QED BY <1>6, <1>8, <1>9, <1>10, <1>11, <1>12

LEMMA ApproveConverses ==
  ASSUME Pipes, PlanAssumption, NEW p \in Plans, Approve(p), Conversing(p)
  PROVE  Conversing(p)'
BY Said DEF Pipes, One, Two, Go, At, Active, proto, pipes, work, card, target, recon, Approve,
      Conversing, Controls, Closing, Fresh, Opening, Pauses, Sending, Still, Adding, Pausing,
      Telling, Through, Counts, Asked, Hearing, Request

LEMMA ReplyConverses ==
  ASSUME Pipes, PlanAssumption, NEW p \in Plans, Reply(p), Conversing(p)
  PROVE  Conversing(p)'
<1>1. Active(p) /\ Conversing(p) /\ pending[p] # "none"
  BY DEF Reply, MayReply, Conversing
<1>2. /\ pending'[p] = "none"
      /\ worker[p] # "dead" => down'[p] = Append(down[p], "reply")
      /\ UNCHANGED <<up, worker, asking, got, sent, chunks, finished, intended, approved>>
  BY DEF Reply, Answers, Pipes, work
<1>3. /\ pending[p] = "acquire" => phase'[p] = "acquired"
      /\ pending[p] = "inspect" => phase'[p] = "inspecting"
      /\ pending[p] = "write" => phase'[p] = "streaming"
      /\ pending[p] = "renew" => phase'[p] = phase[p]
      /\ phase'[p] # "none" /\ (phase'[p] \in {"acquired", "inspecting", "streaming"} \/ phase'[p] = phase[p])
  BY <1>1 DEF Reply, Pipes, Active
<1> USE Said DEF One, Two
<1>4. ASSUME NEW m, NEW f, NEW g, Request(p, m, f, g), worker[p] # "dead"
      PROVE  pending[p] = m /\ phase[p] = f /\ up[p] = <<>> /\ Hearing(p, <<"reply">>)'
  BY <1>1, <1>2, <1>4 DEF Request, Asked, Telling, Hearing
<1>5. ASSUME NEW f, Pausing(p, f), worker[p] # "dead"
      PROVE  asking[p] /\ phase[p] = f /\ phase'[p] = f /\ Hearing(p, <<"reply">>)'
  BY <1>1, <1>2, <1>3, <1>4, <1>5 DEF Pausing, Still, Telling
<1>6. CASE worker[p] \in {"acquire", "inspect"}
  BY ZenonT(60), <1>1, <1>2, <1>3, <1>4, <1>6
     DEF Conversing, Opening, Sending, Closing, Request, Fresh, Counts
<1>7. CASE worker[p] = "guarding"
  BY ZenonT(60), <1>1, <1>2, <1>3, <1>5, <1>7
     DEF Conversing, Opening, Sending, Closing, Pausing, Request, Fresh, Counts
<1>8. CASE worker[p] = "unmounted"
  BY <1>1, <1>2, <1>3, <1>5, <1>8
     DEF Conversing, Opening, Sending, Closing, Pausing, Request, Fresh, Counts, Adding, Telling
<1>9. CASE worker[p] = "write"
  <2>1. Fresh(p) /\ pending[p] = "write" /\ down[p] = <<>> /\ up[p] = <<>>
    BY <1>1, <1>9 DEF Conversing, Opening, Telling, Hearing, Asked
  <2> QED BY <1>1, <1>2, <1>3, <1>9, <2>1 DEF Conversing, Opening, Sending, Closing, Fresh, Counts, Hearing
<1>10. CASE worker[p] \in {"holding", "writing", "written"}
  BY ZenonT(60), <1>1, <1>2, <1>3, <1>5, <1>10
     DEF Conversing, Opening, Sending, Closing, Pausing, Request, Counts
<1>11. CASE worker[p] \in {"reading", "leaving"}
  BY ZenonT(60), <1>1, <1>2, <1>3, <1>5, <1>11
     DEF Conversing, Opening, Sending, Closing, Pausing, Request, Through, Adding, Telling
<1>12. CASE worker[p] \notin {"acquire", "inspect", "guarding", "unmounted", "write", "holding",
           "writing", "written", "reading", "leaving"}
  <2>1. worker[p] \notin {"starting", "locked", "mounted", "receiving"}
    BY <1>1 DEF Conversing, Opening, Sending, Still, Telling, Hearing
  <2>2. worker[p] = "closing" => phase[p] = "input-closed" /\ up[p] = <<>> /\ Through(p)
                               /\ pending[p] = "none"
    BY <1>1 DEF Conversing, Closing, Telling
  <2> QED BY <1>1, <1>2, <1>3, <1>12, <2>1, <2>2 DEF Conversing, Opening, Sending, Closing, Through
<1> QED BY <1>6, <1>7, <1>8, <1>9, <1>10, <1>11, <1>12

LEMMA NoteUnmountedConverses ==
  ASSUME Pipes, PlanAssumption, NEW p \in Plans, NoteUnmounted(p), Conversing(p)
  PROVE  Conversing(p)'
BY Said DEF Pipes, One, Two, Go, At, Active, proto, pipes, work, card, target, recon,
      NoteUnmounted, Conversing, Reads, Closing, Fresh, Opening, Pauses, Sending, Still, Adding,
      Pausing, Telling, Through, Counts, Asked, Hearing, Request

LEMMA IntendChunkConverses ==
  ASSUME Pipes, PlanAssumption, NEW p \in Plans, IntendChunk(p), Conversing(p)
  PROVE  Conversing(p)'
BY Said DEF Pipes, One, Two, Go, At, Active, proto, pipes, work, card, target, recon,
      IntendChunk, Conversing, Closing, Fresh, Opening, Pauses, Sending, Still, Adding, Pausing,
      Telling, Through, Counts, Asked, Hearing, Request

LEMMA SendChunkConverses ==
  ASSUME Pipes, PlanAssumption, NEW p \in Plans, SendChunk(p), Conversing(p)
  PROVE  Conversing(p)'
<1>1. /\ phase[p] = "streaming" /\ sent[p] = chunks[p] /\ intended[p] = chunks[p] + 1
      /\ chunks[p] \in Nat
  BY DEF SendChunk, Conversing
<1>2. /\ sent'[p] = sent[p] + 1 /\ (worker[p] # "dead" => down'[p] = Append(down[p], "chunk"))
      /\ UNCHANGED <<phase, pending, up, worker, asking, got, chunks, finished, intended, approved>>
  BY DEF SendChunk, Answers, Pipes, work
<1>3. phase'[p] = "streaming" /\ worker'[p] = worker[p]
  BY <1>1, <1>2
<1>4. Conversing(p)
  OBVIOUS
<1> USE Said DEF One, Two
<1>5. CASE worker[p] = "write"
  <2>1. Counts(p, 0, 0, {}) /\ Hearing(p, <<"reply">>) /\ got[p] = 0
    BY <1>1, <1>4, <1>5 DEF Conversing, Active, Opening, Counts, Fresh
  <2>2. Counts(p, 1, 0, {})' /\ Hearing(p, <<"reply", "chunk">>)' /\ got'[p] = 0
    BY <1>1, <1>2, <1>5, <2>1 DEF Counts, Hearing
  <2> QED BY <1>1, <1>2, <1>3, <1>4, <1>5, <2>2 DEF Conversing, Opening, Sending, Closing
<1>6. CASE worker[p] = "receiving"
  <2>1. Counts(p, got[p], got[p], {}) /\ Still(p)
    BY <1>1, <1>4, <1>6 DEF Conversing, Active, Sending, Counts, Through
  <2>2. Counts(p, got[p] + 1, got[p], {})' /\ Hearing(p, <<"chunk">>)'
    BY <1>1, <1>2, <1>6, <2>1 DEF Counts, Hearing, Still, Telling
  <2> QED BY <1>1, <1>2, <1>3, <1>4, <1>6, <2>2 DEF Conversing, Opening, Sending, Closing
<1>7. CASE worker[p] \notin {"write", "receiving"}
  <2>1. ~ (worker[p] \in {"starting", "locked", "acquire", "guarding", "inspect", "mounted",
           "unmounted", "holding", "writing", "written", "reading", "leaving", "closing"})
    BY <1>1, <1>4 DEF Conversing, Active, Opening, Sending, Closing, Counts, Fresh, Request,
       Pausing, Through, Adding
  <2> QED BY <1>1, <1>2, <1>3, <1>4, <1>7, <2>1 DEF Conversing, Opening, Sending, Closing
<1> QED BY <1>5, <1>6, <1>7

LEMMA NoteChunkConverses ==
  ASSUME Pipes, PlanAssumption, NEW p \in Plans, NoteChunk(p), Conversing(p)
  PROVE  Conversing(p)'
<1>1. phase[p] = "streaming" /\ chunks[p] < sent[p] /\ pending[p] = "none" /\ up[p] # <<>>
  BY DEF NoteChunk, Reads
<1>2. /\ chunks'[p] = chunks[p] + 1 /\ up'[p] = Tail(up[p]) /\ Head(up[p]) = "chunk"
      /\ UNCHANGED <<phase, pending, down, worker, asking, got, sent, finished, intended, approved>>
  BY DEF NoteChunk, Reads, Pipes, work
<1>3. phase'[p] = "streaming" /\ worker'[p] = worker[p] /\ Conversing(p)
  BY <1>1, <1>2
<1>4. sent[p] = chunks[p] + 1 /\ intended[p] = sent[p] /\ sent[p] \in Nat /\ chunks[p] \in Nat
  BY <1>1, <1>3 DEF Conversing
<1> USE Said DEF One, Two
<1>5. CASE worker[p] = "receiving"
  <2>1. Counts(p, got[p], got[p] - 1, {}) /\ Telling(p, <<"chunk">>) /\ got[p] \in Nat
    BY <1>1, <1>3, <1>4, <1>5, PlanAssumption
       DEF Conversing, Active, Sending, Counts, Through, Hearing, Still, Telling
  <2>2. Counts(p, got[p], got[p], {})' /\ Still(p)'
    BY <1>2, <1>4, <2>1 DEF Counts, Still, Telling
  <2> QED BY <1>1, <1>2, <1>3, <1>4, <1>5, <2>2 DEF Conversing, Opening, Sending, Closing
<1>6. CASE worker[p] # "receiving"
  <2>1. ~ (worker[p] \in {"starting", "locked", "acquire", "guarding", "inspect", "mounted",
           "unmounted", "reading", "leaving", "closing", "write"})
    BY <1>1, <1>2, <1>3, <1>4 DEF Conversing, Active, Opening, Sending, Closing, Counts, Fresh, Request,
       Pausing, Through, Adding, Hearing, Still, Telling, Asked
  <2>2. worker[p] \notin {"holding", "writing", "written"}
    BY <1>1, <1>2, <1>3, <1>4 DEF Conversing, Active, Sending, Request, Pausing, Hearing, Still, Telling, Asked
  <2> QED BY <1>1, <1>2, <1>3, <1>4, <1>6, <2>1, <2>2 DEF Conversing, Opening, Sending, Closing
<1> QED BY <1>5, <1>6

LEMMA FinishSourceConverses ==
  ASSUME Pipes, PlanAssumption, NEW p \in Plans, FinishSource(p), Conversing(p)
  PROVE  Conversing(p)'
<1>1. /\ phase[p] = "streaming" /\ chunks[p] = Chunks /\ pending[p] = "none"
      /\ "source" \notin finished[p]
  BY DEF FinishSource
<1>2. /\ finished'[p] = finished[p] \cup {"source"}
      /\ worker[p] # "dead" => down'[p] = Append(down[p], "source-complete")
      /\ UNCHANGED <<phase, pending, up, worker, asking, got, sent, chunks, intended, approved>>
  BY DEF FinishSource, Answers, Pipes, work
<1>3. phase'[p] = "streaming" /\ worker'[p] = worker[p] /\ Conversing(p)
  BY <1>1, <1>2
<1> USE Said, PlanAssumption DEF One, Two
<1>4. CASE worker[p] = "receiving"
  <2>1. Counts(p, got[p], got[p], {}) /\ Still(p) /\ got[p] = Chunks
    BY <1>1, <1>3, <1>4 DEF Conversing, Active, Sending, Counts, Through
  <2>2. Through(p)' /\ finished'[p] = {"source"} /\ Hearing(p, <<"source-complete">>)'
    BY <1>1, <1>2, <1>4, <2>1 DEF Counts, Through, Still, Telling, Hearing
  <2> QED BY <1>1, <1>2, <1>3, <1>4, <2>2 DEF Conversing, Opening, Sending, Closing
<1>5. CASE worker[p] # "receiving"
  <2>1. ~ (worker[p] \in {"starting", "locked", "acquire", "guarding", "inspect", "mounted",
           "unmounted", "reading", "leaving", "closing", "write", "holding", "writing", "written"})
    BY <1>1, <1>3 DEF Conversing, Active, Opening, Sending, Closing, Counts, Fresh, Request,
       Pausing, Through, Adding
  <2> QED BY <1>1, <1>2, <1>3, <1>5, <2>1 DEF Conversing, Opening, Sending, Closing
<1> QED BY <1>4, <1>5

LEMMA NoteReadbackConverses ==
  ASSUME Pipes, PlanAssumption, NEW p \in Plans, NoteReadback(p), Conversing(p)
  PROVE  Conversing(p)'
BY ZenonT(60), Said DEF Pipes, One, Two, Go, At, Active, proto, pipes, work, card, target, recon,
      NoteReadback, Conversing, Reads, Closing, Fresh, Opening, Pauses, Sending, Still, Adding,
      Pausing, Telling, Through, Counts, Asked, Hearing, Request

LEMMA CloseInputConverses ==
  ASSUME Pipes, PlanAssumption, NEW p \in Plans, CloseInput(p), Conversing(p)
  PROVE  Conversing(p)'
BY Said DEF Pipes, One, Two, Go, At, Active, proto, pipes, work, card, target, recon,
      CloseInput, Conversing, Reads, Closing, Fresh, Opening, Pauses, Sending, Still, Adding,
      Pausing, Telling, Through, Counts, Asked, Hearing, Request

LEMMA NoteCompleteConverses ==
  ASSUME Pipes, PlanAssumption, NEW p \in Plans, NoteComplete(p), Conversing(p)
  PROVE  Conversing(p)'
BY Said DEF Pipes, One, Two, Go, At, Active, proto, pipes, work, card, target, recon,
      NoteComplete, Conversing, Reads, Closing, Fresh, Opening, Pauses, Sending, Still, Adding,
      Pausing, Telling, Through, Counts, Asked, Hearing, Request

LEMMA AcceptConverses ==
  ASSUME Pipes, PlanAssumption, NEW p \in Plans, Accept(p), Conversing(p)
  PROVE  Conversing(p)'
BY Said DEF Pipes, One, Two, Go, At, Active, proto, pipes, work, card, target, recon, Accept,
      Conversing, Closing, Fresh, Opening, Pauses, Sending, Still, Adding, Pausing, Telling,
      Through, Counts, Asked, Hearing, Request

LEMMA HostFailsConverses ==
  ASSUME Pipes, PlanAssumption, NEW p \in Plans, HostFails(p), Conversing(p)
  PROVE  Conversing(p)'
BY Said DEF Pipes, One, Two, Go, At, Active, proto, pipes, work, card, target, recon, HostFails,
      Conversing, Closing, Fresh, Opening, Pauses, Sending, Still, Adding, Pausing, Telling,
      Through, Counts, Asked, Hearing, Request

LEMMA StartConverses ==
  ASSUME Pipes, PlanAssumption, NEW p \in Plans, Start(p), Conversing(p)
  PROVE  Conversing(p)'
BY Said DEF Pipes, One, Two, Go, At, Active, proto, pipes, work, card, target, recon, Start,
      Conversing, Closing, Fresh, Opening, Pauses, Sending, Still, Adding, Pausing, Telling,
      Through, Counts, Asked, Hearing, Request, Streaming

LEMMA RefusedConverses ==
  ASSUME Pipes, PlanAssumption, NEW p \in Plans, Refused(p), Conversing(p)
  PROVE  Conversing(p)'
BY Said DEF Pipes, One, Two, Go, At, Active, proto, pipes, work, card, target, recon, Refused,
      Conversing, Closing, Fresh, Opening, Pauses, Sending, Still, Adding, Pausing, Telling,
      Through, Counts, Asked, Hearing, Request, Streaming

LEMMA BeginConverses ==
  ASSUME Pipes, PlanAssumption, NEW p \in Plans, Begin(p), Conversing(p)
  PROVE  Conversing(p)'
BY Said DEF Pipes, One, Two, Go, At, Active, proto, pipes, work, card, target, recon, Begin,
      Conversing, Tell, Closing, Fresh, Opening, Pauses, Sending, Still, Adding, Pausing,
      Telling, Through, Counts, Asked, Hearing, Request

LEMMA AcquireConverses ==
  ASSUME Pipes, PlanAssumption, NEW p \in Plans, Acquire(p), Conversing(p)
  PROVE  Conversing(p)'
BY Said DEF Pipes, One, Two, Go, At, Active, proto, pipes, work, card, target, recon, Acquire,
      Conversing, Hears, Closing, Fresh, Opening, Pauses, Sending, Still, Adding, Pausing,
      Telling, Through, Counts, Asked, Hearing, Request

LEMMA GuardConverses ==
  ASSUME Pipes, PlanAssumption, NEW p \in Plans, Guard(p), Conversing(p)
  PROVE  Conversing(p)'
BY ZenonT(60), Said DEF Pipes, One, Two, Go, At, Active, proto, pipes, work, card, target, recon, Guard,
      Conversing, Tell, Closing, Fresh, Opening, Pauses, Sending, Still, Adding, Pausing,
      Telling, Through, Counts, Asked, Hearing, Request

LEMMA MountConverses ==
  ASSUME Pipes, PlanAssumption, NEW p \in Plans, Mount(p), Conversing(p)
  PROVE  Conversing(p)'
BY Said DEF Pipes, One, Two, Go, At, Active, proto, pipes, work, card, target, recon, Mount,
      Conversing, Hears, Closing, Fresh, Opening, Pauses, Sending, Still, Adding, Pausing,
      Telling, Through, Counts, Asked, Hearing, Request

LEMMA UnmountConverses ==
  ASSUME Pipes, PlanAssumption, NEW p \in Plans, Unmount(p), Conversing(p)
  PROVE  Conversing(p)'
BY Said DEF Pipes, One, Two, Go, At, Active, proto, pipes, work, card, target, recon, Unmount,
      Conversing, Tell, Closing, Fresh, Opening, Pauses, Sending, Still, Adding, Pausing,
      Telling, Through, Counts, Asked, Hearing, Request

LEMMA AskToWriteConverses ==
  ASSUME Pipes, PlanAssumption, NEW p \in Plans, AskToWrite(p), Conversing(p)
  PROVE  Conversing(p)'
BY ZenonT(60), Said DEF Pipes, One, Two, Go, At, Active, proto, pipes, work, card, target, recon,
      AskToWrite, Conversing, Tell, Closing, Fresh, Opening, Pauses, Sending, Still, Adding,
      Pausing, Telling, Through, Counts, Asked, Hearing, Request

LEMMA MayWriteConverses ==
  ASSUME Pipes, PlanAssumption, NEW p \in Plans, MayWrite(p), Conversing(p)
  PROVE  Conversing(p)'
<1>1. /\ worker[p] = "write" /\ ~ asking[p] /\ worker'[p] = "receiving"
      /\ down[p] # <<>> /\ Head(down[p]) = "reply" /\ down'[p] = Tail(down[p])
      /\ UNCHANGED <<phase, pending, up, asking, got, sent, chunks, finished, intended, approved>>
  BY DEF MayWrite, At, Go, Hears, Pipes, proto
<1>2. CASE Active(p)
  <2>1. /\ got[p] = 0 /\ phase[p] = "streaming"
        /\ \/ Counts(p, 0, 0, {}) /\ Hearing(p, <<"reply">>)
           \/ Counts(p, 1, 0, {}) /\ Hearing(p, <<"reply", "chunk">>)
    BY <1>1, <1>2 DEF Conversing, Opening, Telling, Asked
  <2>2. CASE Counts(p, 0, 0, {}) /\ Hearing(p, <<"reply">>)
    <3>1. Counts(p, got[p], got[p], {})' /\ Still(p)'
      BY <1>1, <2>1, <2>2, Said DEF Still, Telling, Hearing, Counts, One
    <3> QED BY <1>1, <1>2, <2>1, <3>1 DEF Conversing, Active, Opening, Sending, Closing
  <2>3. CASE Counts(p, 1, 0, {}) /\ Hearing(p, <<"reply", "chunk">>)
    <3>1. Counts(p, got[p] + 1, got[p], {})' /\ Hearing(p, <<"chunk">>)'
      BY <1>1, <2>1, <2>3, Said DEF Hearing, Counts, Two
    <3> QED BY <1>1, <1>2, <2>1, <3>1 DEF Conversing, Active, Opening, Sending, Closing
  <2> QED BY <2>1, <2>2, <2>3
<1>3. CASE ~ Active(p)
  BY <1>1, <1>3 DEF Conversing, Active
<1> QED BY <1>2, <1>3

LEMMA TakeChunkConverses ==
  ASSUME Pipes, PlanAssumption, NEW p \in Plans, TakeChunk(p), Conversing(p)
  PROVE  Conversing(p)'
BY Said DEF Pipes, One, Two, Go, At, Active, proto, pipes, work, card, target, recon, TakeChunk,
      Conversing, Hears, Closing, Fresh, Opening, Pauses, Sending, Still, Adding, Pausing,
      Telling, Through, Counts, Asked, Hearing, Request

LEMMA WriteChunkConverses ==
  ASSUME Pipes, PlanAssumption, NEW p \in Plans, WriteChunk(p), Conversing(p)
  PROVE  Conversing(p)'
BY Said DEF Pipes, One, Two, Go, At, Active, proto, pipes, work, card, target, recon,
      WriteChunk, Conversing, Closing, Fresh, Opening, Pauses, Sending, Still, Adding, Pausing,
      Telling, Through, Counts, Asked, Hearing, Request

LEMMA FinishChunkConverses ==
  ASSUME Pipes, PlanAssumption, NEW p \in Plans, FinishChunk(p), Conversing(p)
  PROVE  Conversing(p)'
BY Said DEF Pipes, One, Two, Go, At, Active, proto, pipes, work, card, target, recon,
      FinishChunk, Conversing, Closing, Fresh, Opening, Pauses, Sending, Still, Adding, Pausing,
      Telling, Through, Counts, Asked, Hearing, Request

LEMMA VerifyChunkConverses ==
  ASSUME Pipes, PlanAssumption, NEW p \in Plans, VerifyChunk(p), Conversing(p)
  PROVE  Conversing(p)'
<1>1. /\ worker[p] = "written" /\ ~ asking[p] /\ got'[p] = got[p] + 1 /\ worker'[p] = "receiving"
      /\ UNCHANGED <<phase, pending, down, asking, sent, chunks, finished, intended, approved>>
      /\ phase[p] # "over" => up'[p] = Append(up[p], "chunk")
  BY DEF VerifyChunk, At, Go, Acknowledge, Tell, Pipes, proto
<1>2. CASE Active(p)
  <2>1. /\ Counts(p, got[p] + 1, got[p], {}) /\ phase[p] = "streaming" /\ Still(p)
        /\ got[p] \in 0..Chunks
    BY <1>1, <1>2 DEF Conversing, Sending, Pausing
  <2>2. Telling(p, <<"chunk">>)'
    BY <1>1, <2>1, Said DEF Still, Telling, One
  <2>3. got'[p] > 0 /\ Counts(p, got[p], got[p] - 1, {})' 
    BY <1>1, <2>1, PlanAssumption DEF Counts
  <2> QED BY <1>1, <1>2, <2>1, <2>2, <2>3, PlanAssumption DEF Conversing, Active, Opening, Sending, Closing, Counts
<1>3. CASE ~ Active(p)
  BY <1>1, <1>3 DEF Conversing, Active
<1> QED BY <1>2, <1>3

LEMMA TakeEndConverses ==
  ASSUME Pipes, PlanAssumption, NEW p \in Plans, TakeEnd(p), Conversing(p)
  PROVE  Conversing(p)'
BY Said DEF Pipes, One, Two, Go, At, Active, proto, pipes, work, card, target, recon, TakeEnd,
      Conversing, Hears, Closing, Fresh, Opening, Pauses, Sending, Still, Adding, Pausing,
      Telling, Through, Counts, Asked, Hearing, Request

LEMMA ReadbackConverses ==
  ASSUME Pipes, PlanAssumption, NEW p \in Plans, Readback(p), Conversing(p)
  PROVE  Conversing(p)'
BY Said DEF Pipes, One, Two, Go, At, Active, proto, pipes, work, card, target, recon, Readback,
      Conversing, Tell, Closing, Fresh, Opening, Pauses, Sending, Still, Adding, Pausing,
      Telling, Through, Counts, Asked, Hearing, Request

LEMMA LeaveConverses ==
  ASSUME Pipes, PlanAssumption, NEW p \in Plans, Leave(p), Conversing(p)
  PROVE  Conversing(p)'
BY Said DEF Pipes, One, Two, Go, At, Active, proto, pipes, work, card, target, recon, Leave,
      Conversing, Tell, Closing, Fresh, Opening, Pauses, Sending, Still, Adding, Pausing,
      Telling, Through, Counts, Asked, Hearing, Request

LEMMA SeeEndConverses ==
  ASSUME Pipes, PlanAssumption, NEW p \in Plans, SeeEnd(p), Conversing(p)
  PROVE  Conversing(p)'
BY Said DEF Pipes, One, Two, Go, At, Active, proto, pipes, work, card, target, recon, SeeEnd,
      Conversing, Closing, Fresh, Opening, Pauses, Sending, Still, Adding, Pausing, Telling,
      Through, Counts, Asked, Hearing, Request

LEMMA CompleteConverses ==
  ASSUME Pipes, PlanAssumption, NEW p \in Plans, Complete(p), Conversing(p)
  PROVE  Conversing(p)'
BY Said DEF Pipes, One, Two, Go, At, Active, proto, pipes, work, card, target, recon, Complete,
      Conversing, Tell, Closing, Fresh, Opening, Pauses, Sending, Still, Adding, Pausing,
      Telling, Through, Counts, Asked, Hearing, Request

LEMMA RenewConverses ==
  ASSUME Pipes, PlanAssumption, NEW p \in Plans, Renew(p), Conversing(p)
  PROVE  Conversing(p)'
BY ZenonT(60), Said DEF Pipes, One, Two, Go, At, Active, proto, pipes, work, card, target, recon, Renew,
      Conversing, Tell, Closing, Fresh, Opening, Pauses, Sending, Still, Adding, Pausing,
      Telling, Through, Counts, Asked, Hearing, Request

LEMMA RenewedConverses ==
  ASSUME Pipes, PlanAssumption, NEW p \in Plans, Renewed(p), Conversing(p)
  PROVE  Conversing(p)'
BY Said DEF Pipes, One, Two, Go, At, Active, proto, pipes, work, card, target, recon, Renewed,
      Conversing, Hears, Closing, Fresh, Opening, Pauses, Sending, Still, Adding, Pausing,
      Telling, Through, Counts, Asked, Hearing, Request

LEMMA DiesConverses ==
  ASSUME Pipes, PlanAssumption, NEW p \in Plans, Dies(p), Conversing(p)
  PROVE  Conversing(p)'
BY Said DEF Pipes, One, Two, Go, At, Active, proto, pipes, work, card, target, recon, Dies,
      Conversing, Locking, Closing, Fresh, Opening, Pauses, Sending, Still, Claiming, Adding,
      Pausing, Telling, Through, Counts, Asked, Hearing, Request, Streaming

(* A step on one attempt leaves the conversations of the others alone.     *)
Untouched(q) ==
  /\ phase'[q] = phase[q] /\ pending'[q] = pending[q] /\ up'[q] = up[q] /\ down'[q] = down[q]
  /\ worker'[q] = worker[q] /\ asking'[q] = asking[q] /\ got'[q] = got[q]
  /\ sent'[q] = sent[q] /\ chunks'[q] = chunks[q] /\ finished'[q] = finished[q]
  /\ intended'[q] = intended[q] /\ approved'[q] = approved[q]

LEMMA OthersUntouched ==
  ASSUME Pipes, NEW p \in Plans, Host(p) \/ Guest(p)
  PROVE  Pipes' /\ \A q \in Plans \ {p} : Untouched(q)
<1> USE DEF Pipes, Untouched, Go, At, proto, pipes, work
<1>1. CASE Prepare(p)
  BY <1>1 DEF Prepare
<1>2. CASE Dispatch(p)
  BY <1>2 DEF Dispatch
<1>3. CASE Challenged(p)
  BY <1>3 DEF Challenged, Reads
<1>4. CASE Approve(p)
  BY <1>4 DEF Approve
<1>5. CASE Reply(p)
  BY <1>5 DEF Reply, Answers
<1>6. CASE NoteUnmounted(p)
  BY <1>6 DEF NoteUnmounted, Reads
<1>7. CASE IntendChunk(p)
  BY <1>7 DEF IntendChunk
<1>8. CASE SendChunk(p)
  BY <1>8 DEF SendChunk, Answers
<1>9. CASE NoteChunk(p)
  BY <1>9 DEF NoteChunk, Reads
<1>10. CASE FinishSource(p)
  BY <1>10 DEF FinishSource, Answers
<1>11. CASE NoteReadback(p)
  BY <1>11 DEF NoteReadback, Reads
<1>12. CASE CloseInput(p)
  BY <1>12 DEF CloseInput, Reads
<1>13. CASE NoteComplete(p)
  BY <1>13 DEF NoteComplete, Reads
<1>14. CASE Accept(p)
  BY <1>14 DEF Accept
<1>15. CASE HostFails(p)
  BY <1>15 DEF HostFails
<1>16. CASE Start(p)
  BY <1>16 DEF Start
<1>17. CASE Refused(p)
  BY <1>17 DEF Refused
<1>18. CASE Begin(p)
  BY <1>18 DEF Begin, Tell
<1>19. CASE Acquire(p)
  BY <1>19 DEF Acquire, Hears
<1>20. CASE Guard(p)
  BY <1>20 DEF Guard, Tell
<1>21. CASE Mount(p)
  BY <1>21 DEF Mount, Hears
<1>22. CASE Unmount(p)
  BY <1>22 DEF Unmount, Tell
<1>23. CASE AskToWrite(p)
  BY <1>23 DEF AskToWrite, Tell
<1>24. CASE MayWrite(p)
  BY <1>24 DEF MayWrite, Hears
<1>25. CASE TakeChunk(p)
  BY <1>25 DEF TakeChunk, Hears
<1>26. CASE WriteChunk(p)
  BY <1>26 DEF WriteChunk
<1>27. CASE FinishChunk(p)
  BY <1>27 DEF FinishChunk
<1>28. CASE VerifyChunk(p)
  BY <1>28 DEF VerifyChunk, Acknowledge, Tell
<1>29. CASE TakeEnd(p)
  BY <1>29 DEF TakeEnd, Hears
<1>30. CASE Readback(p)
  BY <1>30 DEF Readback, Tell
<1>31. CASE Leave(p)
  BY <1>31 DEF Leave, Tell
<1>32. CASE SeeEnd(p)
  BY <1>32 DEF SeeEnd
<1>33. CASE Complete(p)
  BY <1>33 DEF Complete, Tell
<1>34. CASE Renew(p)
  BY <1>34 DEF Renew, Tell
<1>35. CASE Renewed(p)
  BY <1>35 DEF Renewed, Hears
<1>36. CASE Dies(p)
  BY <1>36 DEF Dies
<1> QED BY <1>1, <1>2, <1>3, <1>4, <1>5, <1>6, <1>7, <1>8, <1>9, <1>10, <1>11, <1>12, <1>13,
      <1>14, <1>15, <1>16, <1>17, <1>18, <1>19, <1>20, <1>21, <1>22, <1>23, <1>24, <1>25, <1>26,
      <1>27, <1>28, <1>29, <1>30, <1>31, <1>32, <1>33, <1>34, <1>35, <1>36
      DEF Host, Guest

LEMMA OwnConverses ==
  ASSUME Pipes, NEW p \in Plans, Conversing(p), Host(p) \/ Guest(p)
  PROVE  Conversing(p)'
BY PlanAssumption, PrepareConverses, DispatchConverses, ChallengedConverses, ApproveConverses,
      ReplyConverses, NoteUnmountedConverses, IntendChunkConverses, SendChunkConverses,
      NoteChunkConverses, FinishSourceConverses, NoteReadbackConverses, CloseInputConverses,
      NoteCompleteConverses, AcceptConverses, HostFailsConverses, StartConverses,
      RefusedConverses, BeginConverses, AcquireConverses, GuardConverses, MountConverses,
      UnmountConverses, AskToWriteConverses, MayWriteConverses, TakeChunkConverses,
      WriteChunkConverses, FinishChunkConverses, VerifyChunkConverses, TakeEndConverses,
      ReadbackConverses, LeaveConverses, SeeEndConverses, CompleteConverses, RenewConverses,
      RenewedConverses, DiesConverses
   DEF Host, Guest

LEMMA UntouchedConverses ==
  ASSUME NEW q \in Plans, Untouched(q), Conversing(q) PROVE Conversing(q)'
BY DEF Untouched, Conversing, Active, Opening, Sending, Closing, Request, Asked, Telling, Hearing,
       Still, Pausing, Adding, Counts, Fresh, Through

LEMMA ResetConverses ==
  ASSUME Pipes, Conversations, Reset PROVE Pipes' /\ Conversations'
<1>1. Pipes'
  BY DEF Pipes, Reset, proto
<1>2. ASSUME NEW p \in Plans PROVE Conversing(p)'
  <2>1. Conversing(p) /\ ~ asking'[p]
    BY DEF Conversations, Reset
  <2>2. CASE worker[p] \in Locking
    <3>1. worker'[p] = "dead"
      BY <2>2 DEF Reset
    <3>2. /\ phase'[p] = phase[p] /\ got'[p] = got[p] /\ sent'[p] = sent[p]
          /\ chunks'[p] = chunks[p] /\ intended'[p] = intended[p] /\ approved'[p] = approved[p]
      BY DEF Reset, proto
    <3>3. phase[p] # "none"
      BY <2>1, <2>2 DEF Conversing, Locking, Claiming, Streaming
    <3> QED BY <2>1, <3>1, <3>2, <3>3 DEF Conversing, Opening, Sending, Closing
  <2>3. CASE worker[p] \notin Locking
    <3>1. ~ asking[p]
      BY <2>1, <2>3 DEF Conversing, Pauses, Locking, Claiming, Streaming
    <3>2. /\ phase'[p] = phase[p] /\ got'[p] = got[p] /\ sent'[p] = sent[p]
          /\ chunks'[p] = chunks[p] /\ intended'[p] = intended[p] /\ approved'[p] = approved[p]
          /\ pending'[p] = pending[p] /\ finished'[p] = finished[p] /\ up'[p] = up[p]
          /\ worker'[p] = worker[p] /\ down'[p] = down[p]
      BY <2>3 DEF Reset, proto
    <3> HIDE DEF Reset
    <3> QED BY <2>1, <3>1, <3>2 DEF Conversing, Active, Opening, Sending, Closing, Request, Asked,
       Telling, Hearing, Still, Pausing, Adding, Counts, Fresh, Through
  <2> QED BY <2>2, <2>3
<1> QED BY <1>1, <1>2 DEF Conversations

LEMMA ConversationsKept ==
  Pipes /\ Conversations /\ [Next]_vars => Pipes' /\ Conversations'
<1> SUFFICES ASSUME Pipes, Conversations, [Next]_vars PROVE Pipes' /\ Conversations'
  OBVIOUS
<1>1. ASSUME NEW p \in Plans, Host(p) \/ Guest(p) PROVE Pipes' /\ Conversations'
  BY <1>1, OthersUntouched, UntouchedConverses, OwnConverses DEF Conversations
<1>2. CASE Reset
  BY <1>2, ResetConverses
<1>3. CASE UNCHANGED <<proto, pipes, work>>
  <2>1. Pipes' /\ \A q \in Plans : Untouched(q)
    BY <1>3 DEF Pipes, Untouched, proto, pipes, work
  <2> QED BY <2>1, UntouchedConverses DEF Conversations
<1> QED BY <1>1, <1>2, <1>3
      DEF Next, Reconciliation, Drift, Fence, FenceFails, Classify, ReconcileFails, vars

LEMMA ConversationsBegin == Init => Pipes /\ Conversations
BY PlanAssumption
   DEF Init, Pipes, Conversations, Conversing, Active, Still, Telling, Fresh, Counts

LEMMA OneSpeaks ==
  ASSUME NEW p \in Plans, Conversing(p) PROVE ~ (HostWaits(p) /\ WorkerWaits(p))
<1> SUFFICES ASSUME HostWaits(p), WorkerWaits(p) PROVE FALSE
  OBVIOUS
<1>1. Active(p) /\ Still(p)
  BY DEF HostWaits, WorkerWaits, Still, Telling
<1>2. ~ asking[p]
  BY <1>1, Said DEF Conversing, Pauses, Opening, Sending, Closing, Pausing, Request, Asked,
     Telling, Hearing, Adding, Still, One, Two
<1>3. worker[p] \notin {"acquire", "inspect", "write", "receiving"}
  BY <1>1, Said DEF HostWaits, Conversing, Opening, Sending, Request, Asked, Telling, Hearing,
     Still, Counts, One, Two
<1> QED BY <1>1, <1>2, <1>3, Said DEF WorkerWaits, HostWaits, Conversing, Closing, Still, Telling,
      One, Two

(* One channel carries chunks, challenges and answers in turns, and in no  *)
(* state of a call that is alive at both ends do both of them wait.        *)
THEOREM OneAlwaysSpeaks == Spec => []NeverBothWait
<1>1. Pipes /\ Conversations => NeverBothWait
  BY OneSpeaks DEF Conversations, NeverBothWait
<1> QED BY <1>1, ConversationsBegin, ConversationsKept, PTL DEF Spec
-----------------------------------------------------------------------------
(* What is derived from a backup (BackupSource).                           *)

BytesOf(x) == DOMAIN x = S!Block /\ \A b \in S!Block : x[b] \in {0, 1}

SourceShape ==
  /\ DOMAIN content = S!Files /\ \A f \in S!Files : BytesOf(content[f])
  /\ DOMAIN stamp = S!Files /\ \A f \in S!Files : stamp[f] \in Nat
  /\ name \in S!Files /\ records \in S!Files
  /\ exchanged \in BOOLEAN
  /\ owner \in {"idle", "prepare", "mapped", "check", "checked", "stream"}
  /\ pass \in S!Passes \cup {"none"}
  /\ seen \in Seq({0, 1}) /\ Len(seen) <= 3
  /\ passed \in Seq({0, 1})
  /\ image # <<>> => BytesOf(image.bytes) /\ DOMAIN image = {"bytes", "of", "stamp"}

(* A pass belongs to the operation that made it, and sees one set of       *)
(* records; without an exchange it is the owner's.                         *)
SourcePasses ==
  /\ pass \in {"ranges", "map"} => owner = "prepare"
  /\ pass \in {"image", "health"} => owner = "check"
  /\ pass = "stream" => owner = "stream"
  /\ pass # "none" => DOMAIN opened = {"file", "print", "records"}
  /\ pass # "none" /\ pass # "health" => opened.file \in S!Files
  /\ pass = "health" => image # <<>>

(* While an operation runs and no records were exchanged, they are those   *)
(* of the owner's backup, and so is what was derived.                      *)
SourcePinned ==
  /\ owner \in {"prepare", "mapped", "check", "checked"} /\ ~ exchanged =>
       records = 1 /\ (pass # "none" => opened.records = 1)
  /\ owner \in {"prepare", "mapped"} => "prepare" \notin done
  /\ owner = "prepare" /\ ~ exchanged => ranges = <<>> \/ ranges = S!Holds(1)
  /\ owner = "mapped" /\ ~ exchanged => ranges = S!Holds(1) /\ manifest.of = 1
  /\ pass = "map" /\ ~ exchanged => ranges = S!Holds(1)
  /\ owner = "prepare" => manifest = <<>>
  /\ owner \in {"mapped", "stream"} \/ done \cap {"prepare", "stream"} # {} => manifest # <<>>
  /\ owner = "checked" /\ ~ exchanged => copied = S!Holds(1) /\ checks # <<>>
  /\ owner \in {"check", "checked"} => "check" \notin done
  /\ "prepare" \in done /\ ~ exchanged => ranges = S!Holds(1) /\ manifest.of = 1
  /\ "check" \in done /\ ~ exchanged => copied = S!Holds(1) /\ checks # <<>>

(* The manifest is the root of one backup, and a stream hands on a prefix. *)
SourceMapped ==
  /\ manifest # <<>> =>
       /\ DOMAIN manifest = {"chunks", "print", "of"}
       /\ manifest.chunks = S!RootOf(S!Holds(manifest.of))
  /\ passed # <<>> => manifest # <<>>
  /\ \A i \in 1..Len(passed) : passed[i] = manifest.chunks[i]
  /\ owner = "stream" /\ pass = "none" => passed = <<>> /\ "stream" \notin done
  /\ pass = "stream" =>
       /\ "stream" \notin done
       /\ Len(passed) = IF Len(seen) = 0 THEN 0 ELSE Len(seen) - 1
  /\ "stream" \in done => Len(passed) = 2

SourceInv == SourceShape /\ SourcePasses /\ SourcePinned /\ SourceMapped

LEMMA SourceShapeKept == SourceInv /\ S!Next => SourceShape'
<1> SUFFICES ASSUME SourceInv, S!Next PROVE SourceShape'
  OBVIOUS
<1> USE DEF SourceInv, SourcePasses, SourceShape, S!archive, S!outside, S!results
<1>1. ASSUME NEW f \in S!Files, NEW b \in S!Block, S!Change(f, b) PROVE SourceShape'
  BY <1>1 DEF S!Change, S!Meddle, BytesOf, S!Files, S!Passes, S!Block
<1>2. ASSUME NEW b \in S!Block, S!ChangeImage(b) PROVE SourceShape'
  <2>1. DOMAIN image = {"bytes", "of", "stamp"} /\ BytesOf(image.bytes)
    BY <1>2 DEF S!ChangeImage
  <2>2. image' = [image EXCEPT !.bytes[b] = 1 - @, !.stamp = @ + 1]
    BY <1>2 DEF S!ChangeImage
  <2>3. DOMAIN image' = {"bytes", "of", "stamp"} /\ image'.bytes = [image.bytes EXCEPT ![b] = 1 - @]
    BY <2>1, <2>2
  <2>4. BytesOf(image'.bytes)
    BY <1>2, <2>1, <2>3 DEF BytesOf, S!Block
  <2>5. image' # <<>>
    <3>1. "bytes" \notin DOMAIN <<>>
      OBVIOUS
    <3> QED BY <2>3, <3>1
  <2> QED BY <1>2, <2>3, <2>4, <2>5 DEF S!ChangeImage, S!Meddle
<1>3. CASE S!Rename
  BY <1>3 DEF S!Rename, S!Files, S!Meddle, BytesOf, S!Passes, S!Block
<1>4. CASE S!OtherRecords
  BY <1>4 DEF S!OtherRecords, S!Meddle, BytesOf, S!Files, S!Passes, S!Block
<1>5. CASE S!Review
  BY <1>5 DEF S!Review, S!Fingerprint, S!Inputs, BytesOf, S!Files, S!Passes, S!Block
<1>6. ASSUME NEW o \in {"prepare", "check"}, S!Begin(o) PROVE SourceShape'
  BY <1>6 DEF S!Begin, S!Unchanged, S!Fingerprint, S!Inputs, BytesOf, S!Files, S!Passes, S!Block
<1>7. ASSUME NEW l, NEW o, <<l, o>> \in {<<"mapped", "prepare">>, <<"checked", "check">>}, S!Complete(l, o) PROVE SourceShape'
  BY <1>7 DEF S!Complete, S!Unchanged, S!Fingerprint, S!Inputs, BytesOf, S!Files, S!Passes,
      S!Block
<1>8. CASE S!Fails
  BY <1>8 DEF S!Fails, BytesOf, S!Files, S!Passes, S!Block
<1>9. ASSUME NEW p \in S!Passes, S!Open(p) PROVE SourceShape'
  BY <1>9 DEF S!Open, S!Fingerprint, S!Identified, S!NextPass, BytesOf, S!Files, S!Passes,
      S!Block
<1>10. CASE S!OpenImage
  BY <1>10 DEF S!OpenImage, S!NextPass, BytesOf, S!Files, S!Passes, S!Block
<1>11. CASE S!ReadBlock
  <2> DEFINE chunk == S!Bytes[Len(seen) + 1]
  <2>1. pass # "none" /\ Len(seen) < 3 /\ Len(seen) + 1 \in S!Block
    BY <1>11 DEF S!ReadBlock, S!Block
  <2>2. chunk \in {0, 1}
    <3>1. BytesOf(S!Bytes)
      BY <2>1, <1>11 DEF S!Bytes, S!Passes
    <3> QED BY <2>1, <3>1 DEF BytesOf
  <2> HIDE DEF chunk
  <2>3. seen' = Append(seen, chunk) /\ (passed' = passed \/ passed' = Append(passed, chunk))
    BY <1>11 DEF S!ReadBlock, chunk
  <2>4. seen' \in Seq({0, 1}) /\ Len(seen') <= 3 /\ passed' \in Seq({0, 1})
    <3>1. seen' \in Seq({0, 1}) /\ Len(seen') = Len(seen) + 1
      BY <2>2, <2>3
    <3>2. passed' \in Seq({0, 1})
      <4>1. passed \in Seq({0, 1})
        OBVIOUS
      <4> HIDE DEF SourceShape, SourceInv
      <4> QED BY <2>2, <2>3, <4>1
    <3> QED BY <2>1, <3>1, <3>2
  <2> QED BY <1>11, <2>4 DEF S!ReadBlock
<1>12. CASE S!CaptureRanges
  BY <1>12 DEF S!CaptureRanges, S!Close, S!End, S!Named, S!AtEnd, S!Stable, S!Block,
      S!Fingerprint, BytesOf, S!Files, S!Passes
<1>13. CASE S!Map
  BY <1>13 DEF S!Map, S!Close, S!End, S!Named, S!AtEnd, S!Stable, S!Root, S!Block,
      S!Fingerprint, BytesOf, S!Files, S!Passes
<1>14. CASE S!Materialize
  BY <1>14 DEF S!Materialize, S!Close, S!End, S!AtEnd, S!Stable, S!Block, S!Fingerprint,
      BytesOf, S!Files, S!Passes
<1>15. CASE S!CheckCopies
  BY <1>15 DEF S!CheckCopies, S!Close, S!End, S!Outcomes, S!AtEnd, S!Stable, S!Block,
      S!Fingerprint, BytesOf, S!Files, S!Passes
<1>16. CASE S!BeginStream
  BY <1>16 DEF S!BeginStream, S!Valid, S!Root, BytesOf, S!Files, S!Passes, S!Block
<1>17. CASE S!EndStream
  BY <1>17 DEF S!EndStream, S!Close, S!End, S!Named, S!AtEnd, S!Stable, S!Block, S!Fingerprint,
      BytesOf, S!Files, S!Passes
<1> HIDE DEF SourceInv, SourcePasses, SourceShape
<1> QED BY <1>1, <1>2, <1>3, <1>4, <1>5, <1>6, <1>7, <1>8, <1>9, <1>10, <1>11, <1>12, <1>13,
      <1>14, <1>15, <1>16, <1>17
      DEF S!Next

LEMMA SourcePassesKept == SourceInv /\ S!Next => SourcePasses'
<1> SUFFICES ASSUME SourceInv, S!Next PROVE SourcePasses'
  OBVIOUS
<1> USE DEF SourceInv, SourcePasses, SourceShape, S!archive, S!outside, S!results
<1>1. ASSUME NEW f \in S!Files, NEW b \in S!Block, S!Change(f, b) PROVE SourcePasses'
  BY <1>1 DEF S!Change, S!Meddle, S!Files, BytesOf, S!Passes, S!Block
<1>2. ASSUME NEW b \in S!Block, S!ChangeImage(b) PROVE SourcePasses'
  <2>1. DOMAIN image = {"bytes", "of", "stamp"} /\ BytesOf(image.bytes)
    BY <1>2 DEF S!ChangeImage
  <2>2. image' = [image EXCEPT !.bytes[b] = 1 - @, !.stamp = @ + 1]
    BY <1>2 DEF S!ChangeImage
  <2>3. DOMAIN image' = {"bytes", "of", "stamp"} /\ image'.bytes = [image.bytes EXCEPT ![b] = 1 - @]
    BY <2>1, <2>2
  <2>4. BytesOf(image'.bytes)
    BY <1>2, <2>1, <2>3 DEF BytesOf, S!Block
  <2>5. image' # <<>>
    <3>1. "bytes" \notin DOMAIN <<>>
      OBVIOUS
    <3> QED BY <2>3, <3>1
  <2> QED BY <1>2, <2>3, <2>4, <2>5 DEF S!ChangeImage, S!Meddle
<1>3. CASE S!Rename
  BY <1>3 DEF S!Rename, S!Files, S!Meddle, BytesOf, S!Passes, S!Block
<1>4. CASE S!OtherRecords
  BY <1>4 DEF S!OtherRecords, S!Meddle, S!Files, BytesOf, S!Passes, S!Block
<1>5. ASSUME NEW o \in {"prepare", "check"}, S!Begin(o) PROVE SourcePasses'
  BY <1>5 DEF S!Begin, S!Unchanged, S!Fingerprint, S!Inputs, S!Files, BytesOf, S!Passes, S!Block
<1>6. ASSUME NEW l, NEW o, <<l, o>> \in {<<"mapped", "prepare">>, <<"checked", "check">>}, S!Complete(l, o) PROVE SourcePasses'
  BY <1>6 DEF S!Complete, S!Unchanged, S!Fingerprint, S!Inputs, S!Files, BytesOf, S!Passes,
      S!Block
<1>7. CASE S!Fails
  BY <1>7 DEF S!Fails, S!Files, BytesOf, S!Passes, S!Block
<1>8. ASSUME NEW p \in S!Passes, S!Open(p) PROVE SourcePasses'
  BY <1>8 DEF S!Open, S!Fingerprint, S!Identified, S!NextPass, S!Files, BytesOf, S!Passes,
      S!Block
<1>9. CASE S!OpenImage
  BY <1>9 DEF S!OpenImage, S!NextPass, S!Files, BytesOf, S!Passes, S!Block
<1>10. CASE S!CaptureRanges
  BY <1>10 DEF S!CaptureRanges, S!Close, S!End, S!Named, S!AtEnd, S!Stable, S!Block,
      S!Fingerprint, S!Files, BytesOf, S!Passes
<1>11. CASE S!Map
  BY <1>11 DEF S!Map, S!Close, S!End, S!Named, S!AtEnd, S!Stable, S!Root, S!Block,
      S!Fingerprint, S!Files, BytesOf, S!Passes
<1>12. CASE S!Materialize
  BY <1>12 DEF S!Materialize, S!Close, S!End, S!AtEnd, S!Stable, S!Block, S!Fingerprint,
      S!Files, BytesOf, S!Passes
<1>13. CASE S!CheckCopies
  BY <1>13 DEF S!CheckCopies, S!Close, S!End, S!Outcomes, S!AtEnd, S!Stable, S!Block,
      S!Fingerprint, S!Files, BytesOf, S!Passes
<1>14. CASE S!BeginStream
  BY <1>14 DEF S!BeginStream, S!Valid, S!Root, S!Files, BytesOf, S!Passes, S!Block
<1>15. CASE S!EndStream
  BY <1>15 DEF S!EndStream, S!Close, S!End, S!Named, S!AtEnd, S!Stable, S!Block, S!Fingerprint,
      S!Files, BytesOf, S!Passes
<1>16. CASE UNCHANGED <<image, opened, owner, pass>>
  BY <1>16 DEF S!Files
<1> HIDE DEF SourceInv, SourcePasses, SourceShape
<1> QED BY <1>1, <1>2, <1>3, <1>4, <1>5, <1>6, <1>7, <1>8, <1>9, <1>10, <1>11, <1>12, <1>13,
      <1>14, <1>15, <1>16
      DEF S!Next, S!Review, S!ReadBlock, S!archive, S!outside, S!results

LEMMA SourcePinnedKept == SourceInv /\ S!Next => SourcePinned'
<1> SUFFICES ASSUME SourceInv, S!Next PROVE SourcePinned'
  OBVIOUS
<1> USE DEF SourceInv, SourcePasses, SourcePinned, SourceShape, S!archive, S!outside, S!results
<1>1. ASSUME NEW f \in S!Files, NEW b \in S!Block, S!Change(f, b) PROVE SourcePinned'
  BY <1>1 DEF S!Change, S!Meddle, S!Block, BytesOf, S!Files, S!Passes
<1>2. ASSUME NEW b \in S!Block, S!ChangeImage(b) PROVE SourcePinned'
  BY <1>2 DEF S!ChangeImage, S!Meddle, S!Block, BytesOf, S!Files, S!Passes
<1>3. CASE S!Rename
  BY <1>3 DEF S!Rename, S!Files, S!Meddle, S!Block, BytesOf, S!Passes
<1>4. CASE S!OtherRecords
  BY <1>4 DEF S!OtherRecords, S!Meddle, S!Block, BytesOf, S!Files, S!Passes
<1>5. ASSUME NEW o \in {"prepare", "check"}, S!Begin(o) PROVE SourcePinned'
  BY <1>5 DEF S!Begin, S!Unchanged, S!Fingerprint, S!Inputs, S!Block, BytesOf, S!Files, S!Passes
<1>6. ASSUME NEW l, NEW o, <<l, o>> \in {<<"mapped", "prepare">>, <<"checked", "check">>}, S!Complete(l, o) PROVE SourcePinned'
  BY <1>6 DEF S!Complete, S!Unchanged, S!Fingerprint, S!Inputs, S!Block, BytesOf, S!Files,
      S!Passes
<1>7. CASE S!Fails
  BY <1>7 DEF S!Fails, S!Block, BytesOf, S!Files, S!Passes
<1>8. ASSUME NEW p \in S!Passes, S!Open(p) PROVE SourcePinned'
  BY <1>8 DEF S!Open, S!Fingerprint, S!Identified, S!NextPass, S!Block, BytesOf, S!Files,
      S!Passes
<1>9. CASE S!OpenImage
  BY <1>9 DEF S!OpenImage, S!NextPass, S!Block, BytesOf, S!Files, S!Passes
<1>10. CASE S!CaptureRanges
  BY <1>10 DEF S!CaptureRanges, S!Close, S!End, S!Named, S!AtEnd, S!Stable, S!Block,
      S!Fingerprint, BytesOf, S!Files, S!Passes
<1>11. CASE S!Map
  BY <1>11 DEF S!Map, S!Close, S!End, S!Named, S!AtEnd, S!Stable, S!Root, S!Block,
      S!Fingerprint, BytesOf, S!Files, S!Passes
<1>12. CASE S!Materialize
  BY <1>12 DEF S!Materialize, S!Close, S!End, S!AtEnd, S!Stable, S!Block, S!Fingerprint,
      BytesOf, S!Files, S!Passes
<1>13. CASE S!CheckCopies
  BY <1>13 DEF S!CheckCopies, S!Close, S!End, S!Outcomes, S!AtEnd, S!Stable, S!Block,
      S!Fingerprint, BytesOf, S!Files, S!Passes
<1>14. CASE S!BeginStream
  BY <1>14 DEF S!BeginStream, S!Valid, S!Root, S!Block, BytesOf, S!Files, S!Passes
<1>15. CASE S!EndStream
  BY <1>15 DEF S!EndStream, S!Close, S!End, S!Named, S!AtEnd, S!Stable, S!Block, S!Fingerprint,
      BytesOf, S!Files, S!Passes
<1>16. CASE UNCHANGED <<checks, copied, done, exchanged, manifest, opened, owner, pass, ranges, records>>
  BY <1>16 DEF S!Block
<1> HIDE DEF SourceInv, SourcePasses, SourcePinned, SourceShape
<1> QED BY <1>1, <1>2, <1>3, <1>4, <1>5, <1>6, <1>7, <1>8, <1>9, <1>10, <1>11, <1>12, <1>13,
      <1>14, <1>15, <1>16
      DEF S!Next, S!Review, S!ReadBlock, S!archive, S!outside, S!results

LEMMA SourceMappedKept == SourceInv /\ S!Next => SourceMapped'
<1> SUFFICES ASSUME SourceInv, S!Next PROVE SourceMapped'
  OBVIOUS
<1> USE DEF SourceInv, SourceMapped, SourcePasses, SourcePinned, SourceShape, S!archive,
      S!outside, S!results
<1>1. ASSUME NEW f \in S!Files, NEW b \in S!Block, S!Change(f, b) PROVE SourceMapped'
  BY <1>1 DEF S!Change, S!Meddle, S!Block, S!Root, BytesOf, S!Files, S!Passes
<1>2. ASSUME NEW b \in S!Block, S!ChangeImage(b) PROVE SourceMapped'
  BY <1>2 DEF S!ChangeImage, S!Meddle, S!Block, S!Root, BytesOf, S!Files, S!Passes
<1>3. CASE S!Rename
  BY <1>3 DEF S!Rename, S!Files, S!Meddle, S!Block, S!Root, BytesOf, S!Passes
<1>4. CASE S!OtherRecords
  BY <1>4 DEF S!OtherRecords, S!Meddle, S!Block, S!Root, BytesOf, S!Files, S!Passes
<1>5. CASE S!Review
  BY <1>5 DEF S!Review, S!Fingerprint, S!Inputs, S!Block, S!Root, BytesOf, S!Files, S!Passes
<1>6. ASSUME NEW o \in {"prepare", "check"}, S!Begin(o) PROVE SourceMapped'
  BY <1>6 DEF S!Begin, S!Unchanged, S!Fingerprint, S!Inputs, S!Block, S!Root, BytesOf, S!Files,
      S!Passes
<1>7. ASSUME NEW l, NEW o, <<l, o>> \in {<<"mapped", "prepare">>, <<"checked", "check">>}, S!Complete(l, o) PROVE SourceMapped'
  BY <1>7 DEF S!Complete, S!Unchanged, S!Fingerprint, S!Inputs, S!Block, S!Root, BytesOf,
      S!Files, S!Passes
<1>8. CASE S!Fails
  BY <1>8 DEF S!Fails, S!Block, S!Root, BytesOf, S!Files, S!Passes
<1>9. ASSUME NEW p \in S!Passes, S!Open(p) PROVE SourceMapped'
  BY <1>9 DEF S!Open, S!Fingerprint, S!Identified, S!NextPass, S!Block, S!Root, BytesOf,
      S!Files, S!Passes
<1>10. CASE S!OpenImage
  BY <1>10 DEF S!OpenImage, S!NextPass, S!Block, S!Root, BytesOf, S!Files, S!Passes
<1>11. CASE S!ReadBlock
  <2>1. /\ UNCHANGED <<content, manifest, owner, pass, done>> /\ pass # "none"
        /\ Len(seen') = Len(seen) + 1 /\ Len(seen) \in Nat /\ Len(passed) \in Nat
    BY <1>11 DEF S!ReadBlock
  <2>2. CASE ~ (pass = "stream" /\ Len(seen) + 1 \in {2, 3})
    <3>1. passed' = passed /\ Len(seen) < 3
      BY <1>11, <2>2 DEF S!ReadBlock
    <3> QED BY <2>1, <2>2, <3>1
  <2>3. CASE pass = "stream" /\ Len(seen) + 1 \in {2, 3}
    <3>1. PICK chunk : passed' = Append(passed, chunk) /\ chunk = manifest.chunks[Len(passed) + 1]
      BY <1>11, <2>3 DEF S!ReadBlock, S!MayConsume
    <3>2. Len(passed) = Len(seen) - 1 /\ manifest # <<>> /\ "stream" \notin done
      BY <2>3
    <3>3. Len(passed') = Len(passed) + 1 /\ passed'[Len(passed) + 1] = chunk
          /\ \A i \in 1..Len(passed) : passed'[i] = passed[i]
      BY <3>1
    <3>4. \A i \in 1..Len(passed') : passed'[i] = manifest.chunks[i]
      BY <2>1, <3>1, <3>3
    <3> QED BY <2>1, <2>3, <3>2, <3>3, <3>4
  <2> QED BY <2>2, <2>3
<1>12. CASE S!CaptureRanges
  BY <1>12 DEF S!CaptureRanges, S!Close, S!End, S!Named, S!AtEnd, S!Stable, S!Block,
      S!Fingerprint, S!Root, BytesOf, S!Files, S!Passes
<1>13. CASE S!Map
  BY <1>13 DEF S!Map, S!Close, S!End, S!Named, S!AtEnd, S!Stable, S!Root, S!Block,
      S!Fingerprint, BytesOf, S!Files, S!Passes
<1>14. CASE S!Materialize
  BY <1>14 DEF S!Materialize, S!Close, S!End, S!AtEnd, S!Stable, S!Block, S!Fingerprint, S!Root,
      BytesOf, S!Files, S!Passes
<1>15. CASE S!CheckCopies
  BY <1>15 DEF S!CheckCopies, S!Close, S!End, S!Outcomes, S!AtEnd, S!Stable, S!Block,
      S!Fingerprint, S!Root, BytesOf, S!Files, S!Passes
<1>16. CASE S!BeginStream
  BY <1>16 DEF S!BeginStream, S!Valid, S!Root, S!Block, BytesOf, S!Files, S!Passes
<1>17. CASE S!EndStream
  BY <1>17 DEF S!EndStream, S!Close, S!End, S!Named, S!AtEnd, S!Stable, S!Block, S!Fingerprint,
      S!Root, BytesOf, S!Files, S!Passes
<1> HIDE DEF SourceInv, SourceMapped, SourcePasses, SourcePinned, SourceShape
<1> QED BY <1>1, <1>2, <1>3, <1>4, <1>5, <1>6, <1>7, <1>8, <1>9, <1>10, <1>11, <1>12, <1>13,
      <1>14, <1>15, <1>16, <1>17
      DEF S!Next

LEMMA SourceInvBegins == S!Init => SourceInv
<1> SUFFICES ASSUME S!Init PROVE SourceInv
  OBVIOUS
<1>1. SourceShape
  <2>1. content = [f \in S!Files |-> S!Holds(f)] /\ stamp = [f \in S!Files |-> 0]
    BY DEF S!Init
  <2>2. \A f \in S!Files : BytesOf(content[f]) /\ stamp[f] \in Nat
    BY <2>1 DEF BytesOf, S!Files, S!Holds, S!Block
  <2>3. seen = <<>> /\ passed = <<>> /\ image = <<>>
    BY DEF S!Init
  <2>4. seen \in Seq({0, 1}) /\ Len(seen) <= 3 /\ passed \in Seq({0, 1})
    BY <2>3
  <2> QED BY <2>1, <2>2, <2>3, <2>4 DEF S!Init, SourceShape, S!Files, S!Passes
<1>2. SourcePasses /\ SourcePinned /\ SourceMapped
  BY DEF S!Init, SourcePasses, SourcePinned, SourceMapped
<1> QED BY <1>1, <1>2 DEF SourceInv

LEMMA SourceInvKept == SourceInv /\ [S!Next]_(S!vars) => SourceInv'
<1> SUFFICES ASSUME SourceInv, [S!Next]_(S!vars) PROVE SourceInv'
  OBVIOUS
<1>1. CASE S!Next
  BY <1>1, SourceShapeKept, SourcePassesKept, SourcePinnedKept, SourceMappedKept DEF SourceInv
<1>2. CASE UNCHANGED S!vars
  BY <1>2 DEF SourceInv, SourceShape, SourcePasses, SourcePinned, SourceMapped, S!vars, S!archive,
       S!outside, S!results
<1> QED BY <1>1, <1>2

(* Whatever is changed beside the host, however often: manifest, stream    *)
(* and accepted operations are the backup that they name, down to the last *)
(* block (forge_backup_source, forge_recovery_restore_source).             *)
THEOREM AlwaysTheBackup == S!Spec => []DerivedIsTheBackup
<1>1. SourceInv => DerivedIsTheBackup
  <2> SUFFICES ASSUME SourceInv PROVE S!DerivedIsTheBackup
    BY DEF DerivedIsTheBackup
  <2>1. DOMAIN passed = 1..Len(passed) /\ Len(S!Root) = 2
    BY DEF SourceInv, SourceShape, S!Root
  <2> QED BY <2>1 DEF SourceInv, SourcePinned, SourceMapped, S!DerivedIsTheBackup
<1> QED BY <1>1, SourceInvBegins, SourceInvKept, PTL DEF S!Spec

-----------------------------------------------------------------------------
(* A modified image (Derivative).                                          *)

DerivativeShape ==
  /\ DOMAIN bytes = D!Names /\ \A n \in D!Names : BytesOf(bytes[n])
  /\ DOMAIN stamps = D!Names /\ DOMAIN openStamps = D!Names
  /\ \A n \in D!Names : stamps[n] \in Nat /\ openStamps[n] \in Nat /\ openStamps[n] <= stamps[n]
  /\ looked \in Seq({0, 1}) /\ Len(looked) <= 3
  /\ base \in Seq({0, 1}) /\ given \in Seq({0, 1})
  /\ reading \in {"none", "qualify", "copy", "rehash", "deploy"}

(* A pass belongs to the operation that made it; nothing is sealed once    *)
(* the owner's preparation is accepted, and nothing checked twice.         *)
DerivativePasses ==
  /\ reading = "qualify" => flow = "prepare"
  /\ reading = "copy" => flow = "health"
  /\ reading = "rehash" => flow = "rehashed"
  /\ reading = "deploy" <=> flow = "deploy"
  /\ flow \in {"prepare", "sealed"} => ~ prepared
  /\ flow \in {"health", "copied", "rehashed", "checking", "deploy"} => prepared
  /\ flow \in {"health", "copied", "rehashed", "checking"} => health = "none"
  /\ health # "none" => prepared
  /\ flow = "deploy" \/ given # <<>> \/ delivered => health = "clean"
  /\ flow = "sealed" \/ prepared => sealed # <<>>

(* A sealed image begins with the protected ranges of the archive.         *)
DerivativeSealed ==
  /\ reading = "qualify" => Len(base) = Len(looked) /\ (Len(looked) > 0 => looked[1] = base[1])
  /\ sealed # <<>> =>
       /\ DOMAIN sealed = {"image", "stamp"}
       /\ sealed.image \in Seq({0, 1}) /\ Len(sealed.image) = 3
       /\ sealed.image[1] = D!Original[1]

(* What is summed is what is checked as long as the copy is not touched.   *)
DerivativeChecked ==
  /\ reading = "rehash" => Len(looked) >= 1
  /\ reading = "rehash" /\ D!Same("copy") =>
       \A i \in 2..Len(looked) : looked[i] = bytes["copy"][i]
  /\ (flow = "checking" /\ D!Same("copy")) \/ health # "none" =>
       checkedOn = D!RootOf(sealed.image)

(* The target is given a prefix of the sealed root, and only once.         *)
DerivativeGiven ==
  /\ \A i \in 1..Len(given) : given[i] = sealed.image[i + 1]
  /\ Len(given) <= 2
  /\ reading = "deploy" => Len(given) = IF Len(looked) = 0 THEN 0 ELSE Len(looked) - 1
  /\ delivered => Len(given) = 2

DerivativeInv ==
  DerivativeShape /\ DerivativePasses /\ DerivativeSealed /\ DerivativeChecked /\ DerivativeGiven

LEMMA DerivativeShapeKept == DerivativeInv /\ D!Next => DerivativeShape'
<1> SUFFICES ASSUME DerivativeInv, D!Next PROVE DerivativeShape'
  OBVIOUS
<1> USE DEF DerivativeInv, DerivativeShape, D!files, D!evidence, D!delivery
<1>1. ASSUME NEW n \in D!Names, NEW b \in D!Block, D!Change(n, b) PROVE DerivativeShape'
  BY <1>1 DEF D!Change, BytesOf, D!Names
<1>2. ASSUME NEW b \in D!Block, D!Stream(b) PROVE DerivativeShape'
  <2>1. Len(looked) < 3 /\ looked' = Append(looked, bytes["image"][b])
    BY <1>2 DEF D!Stream
  <2>2. bytes["image"][b] \in {0, 1}
    BY <1>2 DEF BytesOf, D!Names, S!Block, D!Block
  <2>3. looked' \in Seq({0, 1}) /\ Len(looked') <= 3
    BY <2>1, <2>2
  <2>4. given' = given \/ given' = Append(given, bytes["image"][b])
    BY <1>2 DEF D!Stream
  <2>5. given' \in Seq({0, 1})
    <3>1. given \in Seq({0, 1})
      OBVIOUS
    <3> HIDE DEF DerivativeShape, DerivativeInv
    <3> QED BY <2>2, <2>4, <3>1
  <2>6. DOMAIN bytes' = D!Names /\ \A n \in D!Names : BytesOf(bytes'[n])
    <3>1. bytes' = bytes \/ bytes' = [bytes EXCEPT !["copy"][b] = bytes["image"][b]]
      BY <1>2 DEF D!Stream
    <3> QED BY ZenonT(60), <1>2, <2>2, <3>1 DEF BytesOf, D!Names, S!Block, D!Block
  <2> QED BY <1>2, <2>3, <2>5, <2>6 DEF D!Stream
<1>3. CASE D!Prepare
  BY <1>3 DEF D!Prepare, D!AsReviewed, D!Start, D!Bound, BytesOf, D!Names
<1>4. CASE D!Fails
  BY <1>4 DEF D!Fails, D!Stop, BytesOf, D!Names
<1>5. CASE D!QualifyBlock
  <2>1. Len(looked) < 3 /\ Len(looked) + 1 \in D!Block
    BY <1>5 DEF D!QualifyBlock, D!Block
  <2>2. bytes["image"][Len(looked) + 1] \in {0, 1}
    BY <2>1 DEF BytesOf, D!Names, S!Block, D!Block
  <2>3. looked' \in Seq({0, 1}) /\ Len(looked') <= 3
    BY <1>5, <2>1, <2>2 DEF D!QualifyBlock
  <2>4. bytes["archive"][Len(looked) + 1] \in {0, 1}
    BY <2>1 DEF BytesOf, D!Names, S!Block, D!Block
  <2>5. base' \in Seq({0, 1})
    BY <1>5, <2>4 DEF D!QualifyBlock
  <2> QED BY <1>5, <2>3, <2>5 DEF D!QualifyBlock
<1>6. CASE D!Seal
  BY <1>6 DEF D!Seal, D!Original, D!Same, D!Stop, BytesOf, D!Names
<1>7. CASE D!BeginHealth
  BY <1>7 DEF D!BeginHealth, D!OpenStream, D!Bound, D!Loaded, D!Start, BytesOf, D!Names
<1>8. CASE D!EndCopy
  BY <1>8 DEF D!EndCopy, D!StreamEnds, D!Same, BytesOf, D!Names
<1>9. CASE D!BeginRehash
  BY <1>9 DEF D!BeginRehash, D!Same, BytesOf, D!Names
<1>10. CASE D!RehashBlock
  <2>1. Len(looked) < 3 /\ Len(looked) + 1 \in D!Block
    BY <1>10 DEF D!RehashBlock, D!Block
  <2>2. bytes["copy"][Len(looked) + 1] \in {0, 1}
    BY <2>1 DEF BytesOf, D!Names, S!Block, D!Block
  <2>3. looked' \in Seq({0, 1}) /\ Len(looked') <= 3
    BY <1>10, <2>1, <2>2 DEF D!RehashBlock
  <2> QED BY <1>10, <2>3 DEF D!RehashBlock
<1>11. CASE D!Check
  BY <1>11 DEF D!Check, D!Stop, BytesOf, D!Names
<1>12. CASE D!Deploy
  BY <1>12 DEF D!Deploy, D!Healthy, D!OpenStream, D!Bound, D!Loaded, D!Start, BytesOf, D!Names
<1>13. CASE D!EndDeploy
  BY <1>13 DEF D!EndDeploy, D!Stop, D!StreamEnds, D!Same, BytesOf, D!Names
<1>14. CASE UNCHANGED <<base, bytes, given, looked, openStamps, reading, stamps>>
  BY <1>14 DEF BytesOf, D!Names
<1> HIDE DEF DerivativeInv, DerivativeShape
<1> QED BY <1>1, <1>2, <1>3, <1>4, <1>5, <1>6, <1>7, <1>8, <1>9, <1>10, <1>11, <1>12, <1>13,
      <1>14
      DEF D!Next, D!Review, D!AcceptPreparation, D!AcceptHealth, D!CompilePlan, D!files,
          D!evidence, D!delivery

LEMMA DerivativePassesKept == DerivativeInv /\ D!Next => DerivativePasses'
<1> SUFFICES ASSUME DerivativeInv, D!Next PROVE DerivativePasses'
  OBVIOUS
<1> USE DEF DerivativeInv, DerivativePasses, DerivativeShape, D!files, D!evidence, D!delivery
<1>1. ASSUME NEW b \in D!Block, D!Stream(b) PROVE DerivativePasses'
  BY <1>1 DEF D!Stream, D!Matches, D!Root, BytesOf, D!Names
<1>2. CASE D!Prepare
  BY <1>2 DEF D!Prepare, D!AsReviewed, D!Start, D!Bound, BytesOf, D!Names
<1>3. CASE D!Fails
  BY <1>3 DEF D!Fails, D!Stop, BytesOf, D!Names
<1>4. CASE D!Seal
  BY <1>4 DEF D!Seal, D!Original, D!Same, D!Stop, BytesOf, D!Names
<1>5. CASE D!AcceptPreparation
  BY <1>5 DEF D!AcceptPreparation, D!AsReviewed, D!Bound, BytesOf, D!Names
<1>6. CASE D!BeginHealth
  BY <1>6 DEF D!BeginHealth, D!OpenStream, D!Bound, D!Loaded, D!Start, BytesOf, D!Names
<1>7. CASE D!EndCopy
  BY <1>7 DEF D!EndCopy, D!StreamEnds, D!Same, BytesOf, D!Names
<1>8. CASE D!BeginRehash
  BY <1>8 DEF D!BeginRehash, D!Same, BytesOf, D!Names
<1>9. CASE D!Check
  BY <1>9 DEF D!Check, D!Stop, BytesOf, D!Names
<1>10. CASE D!AcceptHealth
  BY <1>10 DEF D!AcceptHealth, D!Same, BytesOf, D!Names
<1>11. CASE D!Deploy
  BY <1>11 DEF D!Deploy, D!Healthy, D!OpenStream, D!Bound, D!Loaded, D!Start, BytesOf, D!Names
<1>12. CASE D!EndDeploy
  BY <1>12 DEF D!EndDeploy, D!Stop, D!StreamEnds, D!Same, BytesOf, D!Names
<1>13. CASE UNCHANGED <<delivered, flow, given, health, prepared, reading, sealed>>
  BY <1>13
<1> HIDE DEF DerivativeInv, DerivativePasses, DerivativeShape
<1> QED BY <1>1, <1>2, <1>3, <1>4, <1>5, <1>6, <1>7, <1>8, <1>9, <1>10, <1>11, <1>12, <1>13
      DEF D!Next, D!Change, D!Review, D!QualifyBlock, D!RehashBlock, D!CompilePlan, D!evidence,
          D!delivery, D!files

LEMMA DerivativeSealedKept == DerivativeInv /\ D!Next => DerivativeSealed'
<1> SUFFICES ASSUME DerivativeInv, D!Next PROVE DerivativeSealed'
  OBVIOUS
<1> USE DEF DerivativeInv, DerivativePasses, DerivativeSealed, DerivativeShape, D!files,
      D!evidence, D!delivery
<1>1. ASSUME NEW n \in D!Names, NEW b \in D!Block, D!Change(n, b) PROVE DerivativeSealed'
  BY <1>1 DEF D!Change, D!Original, BytesOf, D!Names
<1>2. ASSUME NEW b \in D!Block, D!Stream(b) PROVE DerivativeSealed'
  BY <1>2 DEF D!Stream, D!Matches, D!Root, D!Original, BytesOf, D!Names
<1>3. CASE D!Review
  BY <1>3 DEF D!Review, D!Bound, D!Original, BytesOf, D!Names
<1>4. CASE D!Prepare
  BY <1>4 DEF D!Prepare, D!AsReviewed, D!Start, D!Bound, D!Original, BytesOf, D!Names
<1>5. CASE D!Fails
  BY <1>5 DEF D!Fails, D!Stop, D!Original, BytesOf, D!Names
<1>6. CASE D!QualifyBlock
  BY <1>6 DEF D!QualifyBlock, D!Compares, D!Original, D!Root, BytesOf, D!Names
<1>7. CASE D!Seal
  BY <1>7 DEF D!Seal, D!Original, D!Same, D!Stop, BytesOf, D!Names
<1>8. CASE D!AcceptPreparation
  BY <1>8 DEF D!AcceptPreparation, D!AsReviewed, D!Bound, D!Original, BytesOf, D!Names
<1>9. CASE D!BeginHealth
  BY <1>9 DEF D!BeginHealth, D!OpenStream, D!Bound, D!Loaded, D!Start, D!Original, BytesOf,
      D!Names
<1>10. CASE D!EndCopy
  BY <1>10 DEF D!EndCopy, D!StreamEnds, D!Same, D!Original, BytesOf, D!Names
<1>11. CASE D!BeginRehash
  BY <1>11 DEF D!BeginRehash, D!Same, D!Original, BytesOf, D!Names
<1>12. CASE D!RehashBlock
  BY <1>12 DEF D!RehashBlock, D!Original, BytesOf, D!Names
<1>13. CASE D!Check
  BY <1>13 DEF D!Check, D!Stop, D!Original, BytesOf, D!Names
<1>14. CASE D!AcceptHealth
  BY <1>14 DEF D!AcceptHealth, D!Same, D!Original, BytesOf, D!Names
<1>15. CASE D!CompilePlan
  BY <1>15 DEF D!CompilePlan, D!ChangedChunks, D!Healthy, D!Loaded, D!Original, D!Root, BytesOf,
      D!Names
<1>16. CASE D!Deploy
  BY <1>16 DEF D!Deploy, D!Healthy, D!OpenStream, D!Bound, D!Loaded, D!Start, D!Original,
      BytesOf, D!Names
<1>17. CASE D!EndDeploy
  BY <1>17 DEF D!EndDeploy, D!Stop, D!StreamEnds, D!Same, D!Original, BytesOf, D!Names
<1> HIDE DEF DerivativeInv, DerivativePasses, DerivativeSealed, DerivativeShape
<1> QED BY <1>1, <1>2, <1>3, <1>4, <1>5, <1>6, <1>7, <1>8, <1>9, <1>10, <1>11, <1>12, <1>13,
      <1>14, <1>15, <1>16, <1>17
      DEF D!Next

LEMMA DerivativeCheckedKept == DerivativeInv /\ D!Next => DerivativeChecked'
<1> SUFFICES ASSUME DerivativeInv, D!Next PROVE DerivativeChecked'
  OBVIOUS
<1> USE DEF DerivativeInv, DerivativeChecked, DerivativePasses, DerivativeSealed,
      DerivativeShape, D!files, D!evidence, D!delivery
<1>1. ASSUME NEW n \in D!Names, NEW b \in D!Block, D!Change(n, b) PROVE DerivativeChecked'
  BY <1>1 DEF D!Change, D!Same, BytesOf, D!Names, D!Original
<1>2. ASSUME NEW b \in D!Block, D!Stream(b) PROVE DerivativeChecked'
  BY <1>2 DEF D!Stream, D!Matches, D!Root, D!Same, BytesOf, D!Names, D!Original
<1>3. CASE D!Review
  BY <1>3 DEF D!Review, D!Bound, D!Same, BytesOf, D!Names, D!Original
<1>4. CASE D!Prepare
  BY <1>4 DEF D!Prepare, D!AsReviewed, D!Start, D!Bound, D!Same, BytesOf, D!Names, D!Original
<1>5. CASE D!Fails
  BY <1>5 DEF D!Fails, D!Stop, D!Same, BytesOf, D!Names, D!Original
<1>6. CASE D!QualifyBlock
  BY <1>6 DEF D!QualifyBlock, D!Compares, D!Original, D!Root, D!Same, BytesOf, D!Names
<1>7. CASE D!Seal
  BY <1>7 DEF D!Seal, D!Original, D!Same, D!Stop, BytesOf, D!Names
<1>8. CASE D!AcceptPreparation
  BY <1>8 DEF D!AcceptPreparation, D!AsReviewed, D!Bound, D!Same, BytesOf, D!Names, D!Original
<1>9. CASE D!BeginHealth
  BY <1>9 DEF D!BeginHealth, D!OpenStream, D!Bound, D!Loaded, D!Start, D!Same, BytesOf, D!Names,
      D!Original
<1>10. CASE D!EndCopy
  BY <1>10 DEF D!EndCopy, D!StreamEnds, D!Same, BytesOf, D!Names, D!Original
<1>11. CASE D!BeginRehash
  BY <1>11 DEF D!BeginRehash, D!Same, BytesOf, D!Names, D!Original
<1>12. CASE D!RehashBlock
  <2>1. /\ UNCHANGED <<bytes, stamps, openStamps, flow, checkedOn, health, sealed, reading>>
        /\ Len(looked) < 3 /\ looked' = Append(looked, bytes["copy"][Len(looked) + 1])
    BY <1>12 DEF D!RehashBlock
  <2>2. looked \in Seq({0, 1}) /\ bytes["copy"][Len(looked) + 1] \in {0, 1}
    <3>1. looked \in Seq({0, 1}) /\ BytesOf(bytes["copy"])
      BY DEF D!Names
    <3> HIDE DEF DerivativeInv, DerivativeChecked, DerivativePasses, DerivativeSealed,
          DerivativeShape
    <3>2. Len(looked) + 1 \in S!Block
      BY <2>1, <3>1 DEF S!Block
    <3> QED BY <3>1, <3>2 DEF BytesOf
  <2>3. /\ Len(looked') = Len(looked) + 1 /\ Len(looked) \in Nat
        /\ looked'[Len(looked) + 1] = bytes["copy"][Len(looked) + 1]
        /\ \A i \in 1..Len(looked) : looked'[i] = looked[i]
    <3> HIDE DEF DerivativeInv, DerivativeChecked, DerivativePasses, DerivativeSealed,
          DerivativeShape
    <3> QED BY <2>1, <2>2
  <2>4. D!Same("copy")' <=> D!Same("copy")
    BY <2>1 DEF D!Same
  <2>5. DerivativeChecked
    OBVIOUS
  <2> HIDE DEF DerivativeInv, DerivativePasses, DerivativeSealed, DerivativeShape
  <2>6. D!RootOf(sealed.image)' = D!RootOf(sealed.image)
    BY <2>1 DEF D!RootOf
  <2> QED BY <2>1, <2>3, <2>4, <2>5, <2>6
<1>13. CASE D!Check
  <2>1. Len(looked) = 3 /\ D!RootOf(looked) = D!RootOf(sealed.image)
    BY <1>13 DEF D!Check
  <2>2. ASSUME D!Same("copy") PROVE D!RootOf(bytes["copy"]) = D!RootOf(looked)
    <3>1. looked[2] = bytes["copy"][2] /\ looked[3] = bytes["copy"][3]
      BY <1>13, <2>1, <2>2 DEF D!Check
    <3> HIDE DEF DerivativeInv, DerivativeChecked, DerivativePasses, DerivativeSealed,
          DerivativeShape
    <3> QED BY <3>1 DEF D!RootOf
  <2>3. UNCHANGED <<stamps, openStamps, sealed, health>> /\ checkedOn' = D!RootOf(bytes["copy"])
    BY <1>13 DEF D!Check, D!Stop, D!files
  <2>4. reading' = "none" /\ health = "none"
    BY <1>13 DEF D!Check, D!Stop
  <2>5. D!Same("copy")' => checkedOn' = D!RootOf(sealed.image)'
    BY <2>1, <2>2, <2>3 DEF D!Same, D!RootOf
  <2> QED BY <2>3, <2>4, <2>5
<1>14. CASE D!AcceptHealth
  BY <1>14 DEF D!AcceptHealth, D!Same, BytesOf, D!Names, D!Original
<1>15. CASE D!CompilePlan
  BY <1>15 DEF D!CompilePlan, D!ChangedChunks, D!Healthy, D!Loaded, D!Original, D!Root, D!Same,
      BytesOf, D!Names
<1>16. CASE D!Deploy
  BY <1>16 DEF D!Deploy, D!Healthy, D!OpenStream, D!Bound, D!Loaded, D!Start, D!Same, BytesOf,
      D!Names, D!Original
<1>17. CASE D!EndDeploy
  BY <1>17 DEF D!EndDeploy, D!Stop, D!StreamEnds, D!Same, BytesOf, D!Names, D!Original
<1> HIDE DEF DerivativeInv, DerivativeChecked, DerivativePasses, DerivativeSealed,
      DerivativeShape
<1> QED BY <1>1, <1>2, <1>3, <1>4, <1>5, <1>6, <1>7, <1>8, <1>9, <1>10, <1>11, <1>12, <1>13,
      <1>14, <1>15, <1>16, <1>17
      DEF D!Next

LEMMA DerivativeGivenKept == DerivativeInv /\ D!Next => DerivativeGiven'
<1> SUFFICES ASSUME DerivativeInv, D!Next PROVE DerivativeGiven'
  OBVIOUS
<1> USE DEF DerivativeInv, DerivativeChecked, DerivativeGiven, DerivativePasses,
      DerivativeSealed, DerivativeShape, D!files, D!evidence, D!delivery
<1>1. ASSUME NEW n \in D!Names, NEW b \in D!Block, D!Change(n, b) PROVE DerivativeGiven'
  BY <1>1 DEF D!Change, BytesOf, D!Names, D!Original, D!Same
<1>2. ASSUME NEW b \in D!Block, D!Stream(b) PROVE DerivativeGiven'
  <2>1. Len(looked) < 3 /\ b = Len(looked) + 1 /\ looked' = Append(looked, bytes["image"][b])
    BY <1>2 DEF D!Stream
  <2>2. bytes["image"][b] = sealed.image[b] /\ bytes["image"][b] \in {0, 1}
    BY <1>2 DEF D!Stream, D!Matches, BytesOf, D!Names, S!Block, D!Block
  <2>3. Len(looked') = Len(looked) + 1
    BY <2>1, <2>2
  <2>4. UNCHANGED <<sealed, delivered, reading, flow>> /\ ~ delivered
    BY <1>2 DEF D!Stream, D!evidence
  <2>5. CASE given' = given
    BY <1>2, <2>1, <2>3, <2>4, <2>5 DEF D!Stream, D!Root
  <2>6. CASE given' = Append(given, bytes["image"][b]) /\ reading = "deploy" /\ b \in D!Root
    <3>1. Len(given) = b - 2 /\ Len(given') = b - 1 /\ b \in {2, 3}
      BY <2>1, <2>2, <2>6 DEF D!Root
    <3>2. \A i \in 1..Len(given') : given'[i] = IF i = b - 1 THEN bytes["image"][b] ELSE given[i]
      BY <2>2, <2>6, <3>1
    <3>3. \A i \in 1..Len(given') : given'[i] = sealed.image[i + 1]
      BY <2>2, <3>1, <3>2
    <3> QED BY <2>1, <2>3, <2>4, <3>1, <3>3
  <2> QED BY <1>2, <2>5, <2>6 DEF D!Stream
<1>3. CASE D!Review
  BY <1>3 DEF D!Review, D!Bound, BytesOf, D!Names, D!Original, D!Same
<1>4. CASE D!Prepare
  BY <1>4 DEF D!Prepare, D!AsReviewed, D!Start, D!Bound, BytesOf, D!Names, D!Original, D!Same
<1>5. CASE D!Fails
  BY <1>5 DEF D!Fails, D!Stop, BytesOf, D!Names, D!Original, D!Same
<1>6. CASE D!QualifyBlock
  BY <1>6 DEF D!QualifyBlock, D!Compares, D!Original, D!Root, BytesOf, D!Names, D!Same
<1>7. CASE D!Seal
  BY <1>7 DEF D!Seal, D!Original, D!Same, D!Stop, BytesOf, D!Names
<1>8. CASE D!AcceptPreparation
  BY <1>8 DEF D!AcceptPreparation, D!AsReviewed, D!Bound, BytesOf, D!Names, D!Original, D!Same
<1>9. CASE D!BeginHealth
  BY <1>9 DEF D!BeginHealth, D!OpenStream, D!Bound, D!Loaded, D!Start, BytesOf, D!Names,
      D!Original, D!Same
<1>10. CASE D!EndCopy
  BY <1>10 DEF D!EndCopy, D!StreamEnds, D!Same, BytesOf, D!Names, D!Original
<1>11. CASE D!BeginRehash
  BY <1>11 DEF D!BeginRehash, D!Same, BytesOf, D!Names, D!Original
<1>12. CASE D!RehashBlock
  BY <1>12 DEF D!RehashBlock, BytesOf, D!Names, D!Original, D!Same
<1>13. CASE D!Check
  BY <1>13 DEF D!Check, D!Stop, BytesOf, D!Names, D!Original, D!Same
<1>14. CASE D!AcceptHealth
  BY <1>14 DEF D!AcceptHealth, D!Same, BytesOf, D!Names, D!Original
<1>15. CASE D!CompilePlan
  BY <1>15 DEF D!CompilePlan, D!ChangedChunks, D!Healthy, D!Loaded, D!Original, D!Root, BytesOf,
      D!Names, D!Same
<1>16. CASE D!Deploy
  BY <1>16 DEF D!Deploy, D!Healthy, D!OpenStream, D!Bound, D!Loaded, D!Start, BytesOf, D!Names,
      D!Original, D!Same
<1>17. CASE D!EndDeploy
  BY <1>17 DEF D!EndDeploy, D!Stop, D!StreamEnds, D!Same, BytesOf, D!Names, D!Original
<1> HIDE DEF DerivativeInv, DerivativeChecked, DerivativeGiven, DerivativePasses,
      DerivativeSealed, DerivativeShape
<1> QED BY <1>1, <1>2, <1>3, <1>4, <1>5, <1>6, <1>7, <1>8, <1>9, <1>10, <1>11, <1>12, <1>13,
      <1>14, <1>15, <1>16, <1>17
      DEF D!Next

LEMMA DerivativeInvBegins == D!Init => DerivativeInv
<1> SUFFICES ASSUME D!Init PROVE DerivativeInv
  OBVIOUS
<1>1. DerivativeShape
  <2>1. PICK x \in [D!Block -> {0, 1}] :
          bytes = [n \in D!Names |-> IF n = "image" THEN x ELSE D!Original]
    BY DEF D!Init
  <2>2. \A n \in D!Names : BytesOf(bytes[n])
    BY <2>1 DEF BytesOf, D!Block, S!Block, D!Original, D!Names
  <2>3. looked = <<>> /\ base = <<>> /\ given = <<>>
    BY DEF D!Init
  <2> QED BY <2>1, <2>2, <2>3 DEF D!Init, DerivativeShape, D!Names
<1>2. DerivativePasses /\ DerivativeSealed /\ DerivativeChecked /\ DerivativeGiven
  BY DEF D!Init, DerivativePasses, DerivativeSealed, DerivativeChecked, DerivativeGiven
<1> QED BY <1>1, <1>2 DEF DerivativeInv

LEMMA DerivativeInvKept == DerivativeInv /\ [D!Next]_(D!vars) => DerivativeInv'
<1> SUFFICES ASSUME DerivativeInv, [D!Next]_(D!vars) PROVE DerivativeInv'
  OBVIOUS
<1>1. CASE D!Next
  BY <1>1, DerivativeShapeKept, DerivativePassesKept, DerivativeSealedKept, DerivativeCheckedKept,
     DerivativeGivenKept DEF DerivativeInv
<1>2. CASE UNCHANGED D!vars
  BY <1>2 DEF DerivativeInv, DerivativeShape, DerivativePasses, DerivativeSealed,
       DerivativeChecked, DerivativeGiven, D!Same, D!vars, D!files, D!evidence, D!delivery
<1> QED BY <1>1, <1>2

(* However often image, archive and copy are changed, and whenever: only   *)
(* the root of the card differs from the retained one, and the target is   *)
(* given nothing but the root that was sealed and found clean              *)
(* (forge_recovery_derivative, forge_recovery_derivative_health).          *)
THEOREM OnlyTheQualified == D!Spec => []DeployedIsQualified
<1>1. DerivativeInv => DeployedIsQualified
  <2> SUFFICES ASSUME DerivativeInv PROVE D!DeployedIsQualified
    BY DEF DeployedIsQualified
  <2>1. DOMAIN given = 1..Len(given)
    BY DEF DerivativeInv, DerivativeShape
  <2>2. given # <<>> => health = "clean" /\ prepared
    BY DEF DerivativeInv, DerivativePasses
  <2>3. \A i \in DOMAIN given : given[i] = checkedOn[i]
    <3> SUFFICES ASSUME NEW i \in DOMAIN given PROVE given[i] = checkedOn[i]
      OBVIOUS
    <3>1. given # <<>> /\ i \in 1..2
      BY <2>1 DEF DerivativeInv, DerivativeShape, DerivativeGiven
    <3>2. checkedOn = D!RootOf(sealed.image)
      BY <2>2, <3>1 DEF DerivativeInv, DerivativeChecked
    <3> QED BY <2>1, <3>1, <3>2 DEF DerivativeInv, DerivativeGiven, D!RootOf
  <2> QED BY <2>2, <2>3
        DEF DerivativeInv, DerivativeSealed, DerivativeChecked, DerivativeGiven, D!DeployedIsQualified
<1> QED BY <1>1, DerivativeInvBegins, DerivativeInvKept, PTL DEF D!Spec
=============================================================================
