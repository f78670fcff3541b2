--------------------------- MODULE LeaseEndpoint ---------------------------
(***************************************************************************)
(* The renewal service of a leased recovery session on the target:         *)
(* LeaseEndpoint of tools/forge_recovery_lease_socket.py, which owns the   *)
(* lease, and DeadlineFile.publish of tools/forge_recovery_deadline.py,    *)
(* which replaces the file both timers read.  A renewal is checked,        *)
(* published and acknowledged in that order, and time passes in between.   *)
(***************************************************************************)
EXTENDS Lease

VARIABLES
  now,       \* the target's monotonic clock
  power,     \* "up" until the reset that ends the session
  service,   \* the supervisor: starting, serving or failed
  lease,     \* the endpoint's lease
  file,      \* deadline.json, and with it the writer's last state
  renewing,  \* a renewal is between its check and its acknowledgement
  candidate  \* that renewal; the endpoint's own lease when there is none

endpoint == <<service, lease, file, renewing, candidate>>

EndpointTypeOK ==
  /\ now \in Nat /\ power \in {"up", "reset"}
  /\ service \in {"starting", "serving", "failed"}
  /\ lease \in Leases /\ file \in Leases
  /\ renewing \in BOOLEAN /\ candidate \in Leases

EndpointInit ==
  /\ now = 0 /\ power = "up" /\ service = "starting"
  /\ lease = InitialLease /\ file = InitialLease
  /\ renewing = FALSE /\ candidate = InitialLease

-----------------------------------------------------------------------------
(* poll: the lease is live, a packet of the session's owner is accepted.   *)
Serve(r) ==
  /\ power = "up" /\ service = "serving" /\ ~ renewing
  /\ Renewable(lease, r, now)
  /\ renewing' = TRUE /\ candidate' = Renewed(lease, r, now)
  /\ UNCHANGED <<now, power, service, lease, file>>

(* publish: the snapshot must follow the one published last; any failure   *)
(* poisons the endpoint.                                                   *)
Publish ==
  /\ power = "up" /\ service = "serving" /\ renewing /\ candidate # file
  /\ IF Acceptable(file, candidate, now)
       THEN file' = candidate /\ UNCHANGED service
       ELSE service' = "failed" /\ UNCHANGED file
  /\ UNCHANGED <<now, power, lease, renewing, candidate>>

(* Only a published and still live lease becomes the endpoint's lease and  *)
(* is acknowledged.                                                        *)
Acknowledge ==
  /\ power = "up" /\ service = "serving" /\ renewing /\ candidate = file
  /\ Live(file, now)
  /\ lease' = file /\ renewing' = FALSE
  /\ UNCHANGED <<now, power, service, file, candidate>>

(* poll found its lease, or the one it just published, expired: the        *)
(* supervisor leaves its loop for good and asks for a reboot.              *)
PollFails ==
  /\ power = "up" /\ service = "serving"
  /\ ~ Live(lease, now) \/ (renewing /\ candidate = file /\ ~ Live(file, now))
  /\ service' = "failed"
  /\ UNCHANGED <<now, power, lease, file, renewing, candidate>>
=============================================================================
