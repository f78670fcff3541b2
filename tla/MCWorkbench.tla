---------------------------- MODULE MCWorkbench ----------------------------
(***************************************************************************)
(* The window with two agents' calls, two virtual machines and a queue of  *)
(* one; its attachment with three connections for two slots; and the       *)
(* recovery panel or the target panel, with files of two contents and      *)
(* three boots of the target; and the setup window with two starts, one of *)
(* which may die.  They are checked side by side: part says which moves.   *)
(***************************************************************************)
EXTENDS Panels

CONSTANTS Calls, QueueLimit, MaxMachines, Clients, MaxClients, MaxRuns, MaxKills, Parts
VARIABLES part,
          field, work, vm, owned, runtime, serial, channelError, shutdown, queue, future, told,
          stage, modal, life, disowned,
          conn, session, call, slots, workers, accepting, stalled, closing, joined, queueOpen,
          flow, consent, passed, attempted, child, stop, rebuild, result,
          host, cache, procs, ws, guest, mine, runs, kills, approved, done
W == INSTANCE Workbench WITH MaxBoots <- MaxMachines, job <- work, dialog <- modal
A == INSTANCE Attachment
ASSUME AttachmentAssumption == A!ListenerAssumption
U == INSTANCE Startup WITH process <- child, worker <- procs
desktop == <<field, work, vm, owned, runtime, serial, channelError, shutdown, queue, future, told,
             stage, modal, life, disowned>>
attachment == <<conn, session, call, slots, workers, accepting, stalled, closing, joined, queueOpen>>
setup == <<flow, consent, passed, attempted, child, stop, rebuild, result,
           host, cache, procs, ws, guest, mine, runs, kills, approved, done>>

MCInit ==
  /\ part \in Parts /\ W!Init /\ A!Init /\ Init /\ U!Init
  /\ part # "panels" => used = {"target"}
  \* What an aborted download left lies beside no archive, and a machine on which
  \* QEMU was built has its packages.
  /\ (cache.partial = "part" => cache.archive = "none") /\ (host.built => ~host.missing)
  /\ part # "setup" => cache.archive = "none" /\ cache.partial = "none"
                       /\ ~host.built /\ ~host.missing
MCNext ==
  \/ part = "window" /\ W!Next /\ UNCHANGED <<part, attachment, vars, setup>>
  \/ part = "attachment" /\ A!Next /\ UNCHANGED <<part, desktop, vars, setup>>
  \/ part = "panels" /\ Next /\ UNCHANGED <<part, desktop, attachment, setup>>
  \/ part = "setup" /\ U!Next /\ UNCHANGED <<part, desktop, attachment, vars>>
MCSpec == MCInit /\ [][MCNext]_<<part, desktop, attachment, vars, setup>>

ConsoleExclusive == W!ConsoleExclusive
NothingMeansNothing == W!NothingMeansNothing
LiveIsOwned == W!LiveIsOwned
BootBecomesVisible == W!BootBecomesVisible
ConnectionsEnd == A!ConnectionsEnd
PreparedIsWhole == U!PreparedIsWhole
AskedFirst == U!AskedFirst
CancelStops == U!CancelStops
=============================================================================
