---------------------------- MODULE ServicePlans ----------------------------
(***************************************************************************)
(* The paired apply and restore plans that                                 *)
(* tools/forge_target_service_compile.py builds for one systemd unit.      *)
(* A phase has an operation and what must be observed before and after it, *)
(* each a function of the objects in its scope: "service", "file", "link". *)
(***************************************************************************)
EXTENDS Sequences

(* systemctl show: is the unit loaded, enabled, active, and does it need a *)
(* reload because its file changed.                                        *)
Service(load, enabled, active, reload) ==
  [load |-> load, enabled |-> enabled, active |-> active, reload |-> reload]

Views(service, file, link) == [service |-> service, file |-> file, link |-> link]
ServiceView(service) == [service |-> service]
FileView(file) == [file |-> file]
LinkView(link) == [link |-> link]

Phase(op, before, after) == [op |-> op, before |-> before, after |-> after]
Verify(state) == Phase("verify", state, state)

Repeatable(phase) == phase.op \notin {"start", "stop"}
(* A reload must be invoked even where it cannot be observed.              *)
MustActNever(phase) == FALSE
MustAct(phase) == phase.op = "daemon-reload"

(* new_service: install, enable and start a unit that is absent, and back. *)
NewService ==
  LET absent == Service(FALSE, FALSE, "inactive", FALSE)
      loaded == Service(TRUE, FALSE, "inactive", FALSE)
      enabled == Service(TRUE, TRUE, "inactive", FALSE)
      active == Service(TRUE, TRUE, "active", FALSE)
      stale == Service(TRUE, TRUE, "inactive", TRUE)
      old == Views(absent, "absent", "absent")
      new == Views(active, "new", "link")
  IN [apply |->
        << Verify(old),
           Phase("file", FileView("absent"), FileView("new")),
           Phase("daemon-reload", ServiceView(loaded), ServiceView(loaded)),
           Phase("link", LinkView("absent"), LinkView("link")),
           Phase("daemon-reload", ServiceView(enabled), ServiceView(enabled)),
           Phase("start", ServiceView(enabled), ServiceView(active)),
           Verify(new) >>,
      restore |->
        << Verify(new),
           Phase("stop", ServiceView(active), ServiceView(enabled)),
           Phase("link", LinkView("link"), LinkView("absent")),
           Phase("file", FileView("new"), FileView("absent")),
           Phase("daemon-reload", ServiceView(stale), ServiceView(absent)),
           Verify(old) >>]

(* One direction of update_service: replace the file of a loaded unit that *)
(* is stopped first and started last where it is, or shall be, active.     *)
Replacement(enabled, from, to) ==
  LET link == IF enabled THEN "link" ELSE "absent"
      state(x) == Views(Service(TRUE, enabled, x.active, FALSE), x.file, link)
      idle(reload) == ServiceView(Service(TRUE, enabled, "inactive", reload))
      running == ServiceView(Service(TRUE, enabled, "active", FALSE))
      stop == IF from.active = "active" THEN <<Phase("stop", running, idle(FALSE))>> ELSE <<>>
      start == IF to.active = "active" THEN <<Phase("start", idle(FALSE), running)>> ELSE <<>>
  IN <<Verify(state(from))>> \o stop \o
     << Phase("file", FileView(from.file), FileView(to.file)),
        Phase("daemon-reload", idle(TRUE), idle(FALSE)) >> \o start \o
     <<Verify(state(to))>>

UpdateService(enabled, was, active) ==
  LET from == [file |-> "old", active |-> was]
      to == [file |-> "new", active |-> active]
  IN [apply |-> Replacement(enabled, from, to), restore |-> Replacement(enabled, to, from)]
=============================================================================
