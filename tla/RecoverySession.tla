-------------------------- MODULE RecoverySession --------------------------
(***************************************************************************)
(* The owner's durable recovery session on the host                        *)
(* (tools/forge_recovery_session.py) and its client                        *)
(* (tools/forge_recovery_lease_client.py), against the renewal endpoint of *)
(* the target.  A renewal is written to the journal before it is sent and  *)
(* its reply before it is believed; a renewal without a reply, whatever    *)
(* became of it, is retried with the very same request, and a request      *)
(* whose SSH call was given up may still reach the endpoint.  The target   *)
(* is the whole of LeaseTimers, whose arbitrary requests are replaced by   *)
(* those the host really sends.                                            *)
(***************************************************************************)
EXTENDS LeaseTimers, Sequences

VARIABLES
  journal,   \* "blocked" once a session record cannot be read back
  pending,   \* the durable request without a reply, at most one
  accepted,  \* the last receipt
  call,      \* the current SSH call: none, sent, served
  answer,    \* the receipt on its way back to it, at most one
  orphans    \* requests of calls given up that may still arrive

session == <<journal, pending, accepted, call, answer, orphans>>
target == vars
sessionVars == <<vars, session>>

AtMostOne(s) == Len(s) <= 1

SessionTypeOK ==
  /\ TypeOK
  /\ journal \in {"sound", "blocked"}
  /\ pending \in Seq(Requests) /\ AtMostOne(pending)
  /\ accepted \in [seq : Nat, deadline : Nat]
  /\ call \in {"none", "sent", "served"}
  /\ answer \in Seq([seq : Nat, deadline : Nat, at : Nat]) /\ AtMostOne(answer)
  /\ orphans \subseteq Requests

(* prepare(): a session that was never renewed.                            *)
SessionInit ==
  /\ Init
  /\ journal = "sound" /\ pending = <<>> /\ accepted = [seq |-> 0, deadline |-> 0]
  /\ call = "none" /\ answer = <<>> /\ orphans = {}

-----------------------------------------------------------------------------
(* The target.                                                             *)

(* The helper of the current call reaches the endpoint.                    *)
ServeCall ==
  /\ call = "sent"
  /\ Serve(pending[1])
  /\ UNCHANGED <<softTimer, keeper>>
  /\ call' = "served"
  /\ UNCHANGED <<journal, pending, accepted, answer, orphans>>

(* So does the helper of a call given up; its reply has no reader.         *)
ServeOrphan ==
  \E r \in orphans :
    /\ Serve(r)
    /\ UNCHANGED <<softTimer, keeper>>
    /\ orphans' = orphans \ {r}
    /\ UNCHANGED <<journal, pending, accepted, call, answer>>

PublishRenewal == (Publish \/ PollFails) /\ UNCHANGED <<softTimer, keeper, session>>

(* The receipt goes to the connection that asked.                          *)
AcknowledgeRenewal ==
  /\ Acknowledge
  /\ UNCHANGED <<softTimer, keeper>>
  /\ answer' = IF call = "served" /\ answer = <<>> /\ pending[1].seq = candidate.seq
                 THEN <<[seq |-> candidate.seq, deadline |-> candidate.deadline, at |-> now]>>
                 ELSE answer
  /\ UNCHANGED <<journal, pending, accepted, call, orphans>>

-----------------------------------------------------------------------------
(* The host.  What it does after the reset is not followed.                *)

MayCall == power = "up" /\ journal = "sound" /\ call = "none"

RenewTooLong(secs) ==
  /\ MayCall /\ pending = <<>> /\ accepted.seq < MaxSeq
  /\ pending' = <<[seq |-> accepted.seq + 1, secs |-> secs + Term]>>
  /\ call' = "sent"
  /\ UNCHANGED <<target, journal, accepted, answer, orphans>>

(* renew(): the intent is durable before the request is sent.              *)
Renew(secs) ==
  /\ MayCall /\ pending = <<>> /\ accepted.seq < MaxSeq
  /\ pending' = <<[seq |-> accepted.seq + 1, secs |-> secs]>>
  /\ call' = "sent"
  /\ UNCHANGED <<target, journal, accepted, answer, orphans>>

(* retry_pending(): the very same request, after a lost reply or a restart *)
(* that found an intent without its reply.                                 *)
Retry ==
  /\ MayCall /\ pending # <<>>
  /\ call' = "sent"
  /\ UNCHANGED <<target, journal, pending, accepted, answer, orphans>>

(* check_receipt, with the clock t that the helper read afterwards.        *)
Receipt(a, t) ==
  /\ a.seq = pending[1].seq
  /\ t < a.deadline /\ a.deadline <= Earlier(t + Term, Hard)
  /\ accepted.deadline <= a.deadline

(* The reply is checked, recorded and accepted.                            *)
Accept ==
  /\ power = "up" /\ call = "served" /\ answer # <<>>
  /\ \E t \in (answer[1].at)..now : Receipt(answer[1], t)
  /\ accepted' = [seq |-> answer[1].seq, deadline |-> answer[1].deadline]
  /\ pending' = <<>> /\ call' = "none" /\ answer' = <<>>
  /\ UNCHANGED <<target, journal, orphans>>

AbandonForgetting ==
  /\ power = "up" /\ call # "none"
  /\ orphans' = IF call = "sent" THEN orphans \cup {pending[1]} ELSE orphans
  /\ call' = "none" /\ answer' = <<>> /\ pending' = <<>>
  /\ UNCHANGED <<target, journal, accepted>>

(* The call fails or times out, its receipt is refused, or the host        *)
(* crashes: the request stays pending, and may still arrive.               *)
Abandon ==
  /\ power = "up" /\ call # "none"
  /\ orphans' = IF call = "sent" THEN orphans \cup {pending[1]} ELSE orphans
  /\ call' = "none" /\ answer' = <<>>
  /\ UNCHANGED <<target, journal, pending, accepted>>

(* A crash or an error inside write_record leaves an intent or a reply     *)
(* that the next Session refuses.                                          *)
JournalBlocked ==
  /\ power = "up" /\ journal = "sound"
  /\ journal' = "blocked"
  /\ orphans' = IF call = "sent" THEN orphans \cup {pending[1]} ELSE orphans
  /\ call' = "none" /\ answer' = <<>>
  /\ UNCHANGED <<target, pending, accepted>>

(* The clock, the watchdog, the timers and the supervisor.                 *)
OnTheirOwn ==
  /\ Tick \/ WatchdogFires \/ Reboot \/ SoftPoll \/ SoftStalls \/ SoftDies
     \/ HardArms \/ HardChecks \/ HardPings \/ HardDies \/ Ready \/ SupervisorFails
  /\ UNCHANGED session

SessionNext ==
  \/ OnTheirOwn
  \/ ServeCall \/ ServeOrphan \/ PublishRenewal \/ AcknowledgeRenewal
  \/ (\E secs \in Seconds : Renew(secs)) \/ Retry \/ Accept \/ Abandon \/ JournalBlocked

(* The fairness of LeaseTimers; the host owes nothing.                     *)
SessionSpec == SessionInit /\ [][SessionNext]_sessionVars /\ Fairness

-----------------------------------------------------------------------------
(* Whatever the host does, the target behaves as LeaseTimers says, so what *)
(* is proved of LeaseTimers holds here.                                    *)
ImplementsTimers == Init /\ [][Next]_vars

(* Host and target agree on the sequence up to one request, and that one   *)
(* is the durable pending request, to the last field: so a retry is always *)
(* acknowledged and a new renewal is always the next one, across lost      *)
(* replies, crashes and orphaned requests.                                 *)
SessionAgrees ==
  /\ accepted.seq <= file.seq /\ file.seq <= accepted.seq + 1
  /\ file.seq = accepted.seq + 1 =>
       pending = <<[seq |-> file.seq, secs |-> file.secs]>>

=============================================================================
