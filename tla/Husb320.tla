------------------------------ MODULE Husb320 ------------------------------
(***************************************************************************)
(* The HUSB320 USB Type-C controller driver of the C20e tablet             *)
(* (overlay/drivers/usb/typec/husb320.c).                                  *)
(*                                                                         *)
(* `husb' is struct husb320 together with the attributes of the Type-C     *)
(* port the driver publishes; `chip' is the controller behind the I2C bus  *)
(* and `plug' the cable, both external.  Every function that runs under    *)
(* husb->lock is one action, except where the driver reads the controller  *)
(* more than once: the controller moves on between the reads of            *)
(* INTERRUPT, STATUS and TYPE, so the interrupt thread and the first       *)
(* update of probe are split there (`step' says where the lock holder is). *)
(* Each call that can fail (regulator, role switch, mux, I2C...) fails or  *)
(* not by choice of the set `f' of failing calls.                          *)
(***************************************************************************)
EXTENDS Naturals, FiniteSets

CONSTANTS
  CapType,   \* cap.type of the connector: "src", "snk" or "drp"
  HasData,   \* the connector has a data-role property
  HasVbus,   \* a vbus-supply regulator was found
  Kinds,     \* the kinds of partner the environment plugs in
  CCs,       \* the orientations it uses
  Faults     \* the calls that may fail

PortTypes == {"src", "snk", "drp"}
PrefRoles == {"source", "sink", "no_pref"}
States == {"unattached", "source", "sink", "debug_source", "debug_sink", "audio"}
Attached == States \ {"unattached"}

PortFaults == {"vbus", "role", "mode", "orient"}
FaultPoints == PortFaults \cup
  {"partner", "rd_int", "wr_int", "rd_status", "rd_type", "wr_manual",
   "wr_mask", "wr_enable", "wr_role", "hw_init", "port", "irq"}

ASSUME ConnectorAssumption ==
  /\ CapType \in PortTypes
  /\ HasData \in BOOLEAN
  /\ HasVbus \in BOOLEAN
  /\ CapType # "snk" => HasVbus          \* husb320_get_vbus refuses it otherwise
ASSUME EnvAssumption ==
  /\ Kinds \subseteq Attached
  /\ CCs \subseteq {"normal", "reverse"}
  /\ Faults \subseteq FaultPoints

VARIABLES
  husb,   \* struct husb320 and the port's Type-C class attributes
  chip,   \* controller registers and its connection state (external)
  plug,   \* what is plugged in: [kind, cc] (external)
  step,   \* where the holder of husb->lock is, "free" when nobody holds it
  intr,   \* the INTERRUPT bits the interrupt thread has read
  seen,   \* the STATUS register husb320_update_state has read
  irq,    \* "none": not requested, "on", "off": disable_irq
  life    \* progress of probe, remove and shutdown

vars == <<husb, chip, plug, step, intr, seen, irq, life>>
-----------------------------------------------------------------------------
(* The driver's pure functions. *)

\* cap.data after husb320_parse_connector: the data role has to match the
\* power role, and is derived from it when the connector names none.
cap_data == CASE CapType = "src" -> "dfp"
              [] CapType = "snk" -> "ufp"
              [] CapType = "drp" -> "drd"

\* Mutant: the preference is taken as the role, "no preference" included.
default_power_role_is_preference(h) ==
  CASE h.port_type = "src" -> "source"
    [] h.port_type = "snk" -> "sink"
    [] OTHER -> h.preferred_role

husb320_default_power_role(h) ==
  CASE h.port_type = "src" -> "source"
    [] h.port_type = "snk" -> "sink"
    [] OTHER -> IF h.preferred_role = "source" THEN "source" ELSE "sink"

husb320_default_data_role(h) ==
  CASE cap_data = "dfp" -> "host"
    [] cap_data = "ufp" -> "device"
    [] OTHER -> IF husb320_default_power_role(h) = "source" THEN "host" ELSE "device"

husb320_set_unattached_roles(h) ==
  [h EXCEPT !.pwr_role = husb320_default_power_role(h),
            !.data_role = IF HasData THEN husb320_default_data_role(h) ELSE @]

\* husb320_set_vbus returns early when nothing changes.
set_vbus_fails(h, enable, f) == HasVbus /\ h.vbus_on # enable /\ "vbus" \in f

husb320_set_vbus(h, enable, f) ==
  IF HasVbus /\ "vbus" \notin f THEN [h EXCEPT !.vbus_on = enable] ELSE h

set_mode_fails(h, mode, f) ==
  ~(h.mode_valid /\ h.connector_mode = mode) /\ "mode" \in f

husb320_set_mode(h, mode, f) ==
  IF set_mode_fails(h, mode, f) THEN h
  ELSE [h EXCEPT !.connector_mode = mode, !.mode_valid = TRUE]

\* A NULL role switch (no data role) accepts every request.
set_role_fails(f) == HasData /\ "role" \in f

set_orientation_fails(h, o, f) == h.orientation # o /\ "orient" \in f

\* Mutant: the cleanup forgets VBUS.
disconnect_without_vbus(h, f) ==
  LET err == \/ set_role_fails(f)
             \/ set_mode_fails(h, "safe", f)
             \/ set_orientation_fails(h, "none", f)
  IN  husb320_set_unattached_roles(
        [husb320_set_mode(h, "safe", f) EXCEPT
           !.usb_role = IF set_role_fails(f) THEN @ ELSE "none",
           !.partner = "null",
           !.orientation = IF set_orientation_fails(h, "none", f) THEN @ ELSE "none",
           !.state = "unattached",
           !.state_valid = ~err])

\* Every cleanup call is made whatever the earlier ones returned; an error
\* leaves state_valid FALSE.
husb320_disconnect(h, f) ==
  LET err == \/ set_vbus_fails(h, FALSE, f)
             \/ set_role_fails(f)
             \/ set_mode_fails(h, "safe", f)
             \/ set_orientation_fails(h, "none", f)
      v   == husb320_set_mode(husb320_set_vbus(h, FALSE, f), "safe", f)
  IN  husb320_set_unattached_roles(
        [v EXCEPT !.usb_role = IF set_role_fails(f) THEN @ ELSE "none",
                  !.partner = "null",
                  !.orientation = IF set_orientation_fails(h, "none", f) THEN @ ELSE "none",
                  !.state = "unattached",
                  !.state_valid = ~err])

husb320_state_power_role(s) ==
  IF s \in {"source", "debug_source", "audio"} THEN "source" ELSE "sink"

husb320_state_accessory(s) ==
  CASE s \in {"debug_source", "debug_sink"} -> "debug"
    [] s = "audio" -> "audio"
    [] OTHER -> "plain"

husb320_state_usb_role(s) ==
  CASE HasData /\ s \in {"source", "debug_source"} /\ cap_data # "ufp" -> "host"
    [] HasData /\ s \in {"sink", "debug_sink"} /\ cap_data # "dfp" -> "device"
    [] OTHER -> "none"

husb320_state_mode(s) ==
  CASE s \in {"debug_source", "debug_sink"} -> "debug"
    [] s = "audio" -> "audio"
    [] s \in {"source", "sink"} -> "usb"
    [] OTHER -> "safe"

\* The result of husb320_apply_state: the new struct and whether it returned 0.
Done(h) == [h |-> h, ok |-> TRUE]
Fail(h) == [h |-> h, ok |-> FALSE]

\* The tail of husb320_apply_state for an attached state: each step returns
\* at the first call that fails and leaves what was done before in place.
apply_attached(h, s, o, f) ==
  LET role == husb320_state_usb_role(s)
      h1 == [h EXCEPT !.orientation = o]
      h2 == husb320_set_vbus(h1, s = "source", f)
      h3 == [h2 EXCEPT !.usb_role = role]
      h4 == husb320_set_mode(h3, husb320_state_mode(s), f)
      h5 == [h4 EXCEPT !.data_role = CASE role = "host" -> "host"
                                       [] role = "device" -> "device"
                                       [] OTHER -> @,
                       !.pwr_role = husb320_state_power_role(s)]
      h6 == [h5 EXCEPT !.partner = IF @ = "null" THEN husb320_state_accessory(s) ELSE @,
                       !.state = s,
                       !.state_valid = TRUE]
  IN  IF set_orientation_fails(h, o, f) THEN Fail(h)
      ELSE IF set_vbus_fails(h1, s = "source", f) THEN Fail(h1)
      ELSE IF role # h2.usb_role /\ "role" \in f THEN Fail(h2)
      ELSE IF set_mode_fails(h3, husb320_state_mode(s), f) THEN Fail(h3)
      ELSE IF h5.partner = "null" /\ "partner" \in f
           THEN Fail([h5 EXCEPT !.state_valid = FALSE])
      ELSE Done(h6)

\* Nothing to do for an unattached port that is already cleaned up.
already_unattached(h) ==
  /\ h.state = "unattached" /\ h.state_valid
  /\ h.partner = "null" /\ ~h.vbus_on /\ h.usb_role = "none"

\* Mutant: the old state is not cleaned up on the way to another attached one.
apply_state_without_cleanup(h, s, o, fd, fa) ==
  LET d == husb320_disconnect(h, fd)
  IN  IF s = "unattached"
      THEN IF already_unattached(h) THEN Done(h) ELSE [h |-> d, ok |-> d.state_valid]
      ELSE apply_attached(h, s, o, fa)

\* fd: the calls failing in the cleanup of the old state, fa: in the new one.
husb320_apply_state(h, s, o, fd, fa) ==
  LET d == husb320_disconnect(h, fd)
  IN  IF s = "unattached"
      THEN IF already_unattached(h) THEN Done(h) ELSE [h |-> d, ok |-> d.state_valid]
      ELSE IF s # h.state /\ (~h.state_valid \/ h.state # "unattached")
      THEN IF d.state_valid THEN apply_attached(d, s, o, fa) ELSE Fail(d)
      ELSE apply_attached(h, s, o, fa)

\* husb320_get_state of a STATUS and a TYPE value that were read one after
\* the other: attached comes from the first, the kind from the second.
husb320_get_state(status, type) ==
  IF status.attached /\ type # "unattached" THEN type ELSE "unattached"
-----------------------------------------------------------------------------
(* The controller (external). *)

\* The partner kinds that a PORT_ROLE setting lets the controller attach to.
Detects(role, kind) ==
  CASE role = "src" -> kind \in {"source", "debug_source", "audio"}
    [] role = "snk" -> kind \in {"sink", "debug_sink"}
    [] OTHER -> kind \in Attached

\* What the controller settles on for the current plug.
Target == IF chip.enabled /\ Detects(chip.role, plug.kind)
          THEN plug ELSE [kind |-> "unattached", cc |-> "none"]

\* The interrupt pin (level low): unmasked and something pending.
PinAsserted == ~chip.masked /\ chip.ints # {}

\* Dropping the connection, and the register writes that make it happen.
Dropped(c) == [c EXCEPT !.kind = "unattached", !.cc = "none"]

\* husb320_hw_disable tries both writes.
husb320_hw_disable(c, f) ==
  LET m == IF "wr_mask" \in f THEN c ELSE [c EXCEPT !.masked = TRUE]
  IN  IF "wr_enable" \in f THEN m ELSE [Dropped(m) EXCEPT !.enabled = FALSE]

\* The try field written with a port type: only a DRP has a preference.
husb320_try_role(type, pref) == IF type = "drp" THEN pref ELSE "no_pref"

\* Writing the mode field of PORT_ROLE makes the controller start detection over.
WritePortRole(c, type, pref) ==
  [Dropped(c) EXCEPT !.role = type, !.try = husb320_try_role(type, pref)]

Plug(kind, cc) ==
  /\ plug.kind = "unattached"
  /\ plug' = [kind |-> kind, cc |-> cc]
  /\ UNCHANGED <<husb, chip, step, intr, seen, irq, life>>

Unplug ==
  /\ plug.kind # "unattached"
  /\ plug' = [kind |-> "unattached", cc |-> "none"]
  /\ UNCHANGED <<husb, chip, step, intr, seen, irq, life>>

\* A port leaves an attached state through unattached, and latches DETACH.
ChipDetach ==
  /\ chip.enabled
  /\ chip.kind # "unattached"
  /\ [kind |-> chip.kind, cc |-> chip.cc] # Target
  /\ chip' = [Dropped(chip) EXCEPT !.ints = @ \cup {"detach"}]
  /\ UNCHANGED <<husb, plug, step, intr, seen, irq, life>>

ChipAttach ==
  /\ chip.enabled
  /\ chip.kind = "unattached"
  /\ Target.kind # "unattached"
  /\ chip' = [chip EXCEPT !.kind = Target.kind, !.cc = Target.cc,
                          !.ints = @ \cup {"other"}]
  /\ UNCHANGED <<husb, plug, step, intr, seen, irq, life>>

\* VBUS change, current change or orientation: no change of connection state.
ChipNotify ==
  /\ chip.enabled
  /\ "other" \notin chip.ints
  /\ chip' = [chip EXCEPT !.ints = @ \cup {"other"}]
  /\ UNCHANGED <<husb, plug, step, intr, seen, irq, life>>
-----------------------------------------------------------------------------
(* husb320_irq_thread and what it calls. *)

\* Mutant: the thread runs on while the port is shutting down.
IrqEnterAnyway ==
  /\ irq = "on" /\ PinAsserted /\ step = "free"
  /\ step' = "irq_ack" /\ intr' = chip.ints
  /\ UNCHANGED <<husb, chip, plug, seen, irq, life>>

\* Mutant: a shutting-down thread returns and leaves the line enabled.
IrqEnterIgnores ==
  /\ irq = "on" /\ PinAsserted /\ step = "free"
  /\ IF husb.shutting_down
     THEN UNCHANGED <<step, intr>>
     ELSE \/ step' = "irq_ack" /\ intr' = chip.ints
          \/ "rd_int" \in Faults /\ step' = "irq_err" /\ UNCHANGED intr
  /\ UNCHANGED <<husb, chip, plug, seen, irq, life>>

\* The thread is woken by the pin, takes the lock and reads INTERRUPT and
\* INTERRUPT1; during shutdown it only disables the line.
IrqEnter ==
  /\ irq = "on" /\ PinAsserted /\ step = "free"
  /\ IF husb.shutting_down
     THEN irq' = "off" /\ UNCHANGED <<step, intr>>
     ELSE /\ UNCHANGED irq
          /\ \/ step' = "irq_ack" /\ intr' = chip.ints
             \/ "rd_int" \in Faults /\ step' = "irq_err" /\ UNCHANGED intr
  /\ UNCHANGED <<husb, chip, plug, seen, life>>

\* Write the bits back to clear them, and clean up at once on a detach.
IrqAck ==
  /\ step = "irq_ack"
  /\ \/ /\ \E f \in SUBSET (Faults \cap PortFaults) :
             husb' = IF "detach" \in intr THEN husb320_disconnect(husb, f) ELSE husb
        /\ chip' = [chip EXCEPT !.ints = @ \ intr]
        /\ step' = "irq_status"
     \/ "wr_int" \in Faults /\ step' = "irq_err" /\ UNCHANGED <<husb, chip>>
  /\ intr' = {}
  /\ UNCHANGED <<plug, seen, irq, life>>

\* husb320_update_state, first read.  A failed read is an error of the
\* update: recovery in the interrupt thread, the error path in probe.
ReadStatus ==
  /\ \/ /\ seen' = [attached |-> chip.kind # "unattached", cc |-> chip.cc]
        /\ \/ step = "irq_status" /\ step' = "irq_type" /\ UNCHANGED life
           \/ step = "probe_status" /\ step' = "probe_type" /\ UNCHANGED life
     \/ /\ "rd_status" \in Faults
        /\ UNCHANGED seen
        /\ \/ step = "irq_status" /\ step' = "recover" /\ UNCHANGED life
           \/ step = "probe_status" /\ step' = "free" /\ life' = "fail_irq"
  /\ UNCHANGED <<husb, chip, plug, intr, irq>>

\* Mutant: the interrupt bits are cleared last, after the state was read.
UpdateReturnsThenClears(r) ==
  /\ husb' = r.h
  /\ \/ /\ step = "irq_type"
        /\ step' = IF r.ok THEN "free" ELSE "recover"
        /\ chip' = [chip EXCEPT !.ints = {}]
        /\ UNCHANGED life
     \/ /\ step = "probe_type"
        /\ step' = "free"
        /\ life' = IF r.ok THEN "unmask" ELSE "fail_irq"
        /\ UNCHANGED chip
  /\ seen' = [attached |-> FALSE, cc |-> "none"]
  /\ UNCHANGED <<plug, intr, irq>>

\* husb320_update_state, second read, and husb320_apply_state; `r' is its
\* result.  The lock holder goes on to recovery or to the next step of probe.
UpdateReturns(r) ==
  /\ husb' = r.h
  /\ \/ /\ step = "irq_type"
        /\ step' = IF r.ok THEN "free" ELSE "recover"
        /\ UNCHANGED life
     \/ /\ step = "probe_type"
        /\ step' = "free"
        /\ life' = IF r.ok THEN "unmask" ELSE "fail_irq"
  /\ seen' = [attached |-> FALSE, cc |-> "none"]
  /\ UNCHANGED <<chip, plug, intr, irq>>

ReadTypeAndApply ==
  \/ LET s == husb320_get_state(seen, chip.kind)
         o == IF s = "unattached" THEN "none" ELSE seen.cc
     IN  \E fd \in SUBSET (Faults \cap PortFaults),
            fa \in SUBSET (Faults \cap (PortFaults \cup {"partner"})) :
           UpdateReturns(husb320_apply_state(husb, s, o, fd, fa))
  \/ "rd_type" \in Faults /\ UpdateReturns(Fail(husb))

\* husb320_error_recovery: clean up and restart the connection; when either
\* fails the driver gives up and switches the controller off.
Recovered(f) ==
  LET h == husb320_disconnect(husb, f)
      c == IF "wr_manual" \in f THEN chip ELSE Dropped(chip)
  IN  IF h.state_valid /\ "wr_manual" \notin f
      THEN [h |-> h, c |-> c]
      ELSE [h |-> [h EXCEPT !.shutting_down = TRUE], c |-> husb320_hw_disable(c, f)]

RecoveryFaults == Faults \cap (PortFaults \cup {"wr_manual", "wr_mask", "wr_enable"})

ErrorRecovery ==
  /\ step = "recover"
  /\ \E f \in SUBSET RecoveryFaults :
       husb' = Recovered(f).h /\ chip' = Recovered(f).c
  /\ step' = "free"
  /\ UNCHANGED <<plug, intr, seen, irq, life>>

\* The err label of the interrupt thread: give up for good.
IrqErr ==
  /\ step = "irq_err"
  /\ \E f \in SUBSET RecoveryFaults, g \in SUBSET (Faults \cap {"wr_mask", "wr_enable"}) :
       /\ husb' = [Recovered(f).h EXCEPT !.shutting_down = TRUE]
       /\ chip' = husb320_hw_disable(Recovered(f).c, g)
  /\ irq' = "off"
  /\ step' = "free"
  /\ UNCHANGED <<plug, intr, seen, life>>
-----------------------------------------------------------------------------
(* The Type-C class operations; the class offers them on a DRP port only. *)

PortRegistered == life \in {"request_irq", "update", "unmask", "bound", "fail_irq",
                            "fail_port", "remove_irq", "remove_rest",
                            "shut_irq", "shut_rest", "off"}

husb320_port_type_set(type) ==
  /\ PortRegistered /\ CapType = "drp" /\ type # husb.port_type
  /\ step = "free" /\ ~husb.shutting_down
  /\ \E f \in SUBSET (Faults \cap (PortFaults \cup {"wr_role"})) :
       LET h == husb320_disconnect(husb, f)
       IN  IF h.state_valid /\ "wr_role" \notin f
           THEN /\ husb' = husb320_set_unattached_roles([h EXCEPT !.port_type = type])
                /\ chip' = WritePortRole(chip, type, husb.preferred_role)
                /\ UNCHANGED step
           ELSE husb' = h /\ step' = "recover" /\ UNCHANGED chip
  /\ UNCHANGED <<plug, intr, seen, irq, life>>

\* Mutant: the TRY field is written whatever the port type.
try_role_set_always(role) ==
  /\ PortRegistered /\ CapType = "drp" /\ role # husb.preferred_role
  /\ step = "free" /\ ~husb.shutting_down
  /\ husb' = [husb EXCEPT !.preferred_role = role]
  /\ chip' = [chip EXCEPT !.try = role]
  /\ UNCHANGED <<plug, step, intr, seen, irq, life>>

husb320_try_role_set(role) ==
  /\ PortRegistered /\ CapType = "drp" /\ role # husb.preferred_role
  /\ step = "free" /\ ~husb.shutting_down
  /\ husb' = [husb EXCEPT !.preferred_role = role]
  /\ chip' = [chip EXCEPT !.try = IF husb.port_type = "drp" THEN role ELSE @]
  /\ UNCHANGED <<plug, step, intr, seen, irq, life>>
-----------------------------------------------------------------------------
(* probe, remove and shutdown. *)

husb320_hw_init ==
  /\ life = "hw_init"
  /\ \/ /\ chip' = [WritePortRole(chip, husb.port_type, husb.preferred_role)
                      EXCEPT !.masked = TRUE, !.enabled = TRUE, !.ints = {}]
        /\ life' = "register"
     \/ /\ "hw_init" \in Faults
        /\ \E f \in SUBSET (Faults \cap {"wr_mask", "wr_enable"}) :
             chip' = husb320_hw_disable(chip, f)
        /\ life' = "failed"
  /\ UNCHANGED <<husb, plug, step, intr, seen, irq>>

RegisterPort ==
  /\ life = "register"
  /\ \/ life' = "request_irq" /\ UNCHANGED chip
     \/ /\ "port" \in Faults
        /\ \E f \in SUBSET (Faults \cap {"wr_mask", "wr_enable"}) :
             chip' = husb320_hw_disable(chip, f)
        /\ life' = "failed"
  /\ UNCHANGED <<husb, plug, step, intr, seen, irq>>

RequestIrq ==
  /\ life = "request_irq"
  /\ \/ irq' = "on" /\ life' = "update"
     \/ "irq" \in Faults /\ life' = "fail_port" /\ UNCHANGED irq
  /\ UNCHANGED <<husb, chip, plug, step, intr, seen>>

\* probe takes the lock for its first update.
ProbeUpdate ==
  /\ life = "update" /\ step = "free"
  /\ step' = "probe_status"
  /\ UNCHANGED <<husb, chip, plug, intr, seen, irq, life>>

\* The interrupts are unmasked without the lock.
ProbeUnmask ==
  /\ life = "unmask"
  /\ \/ chip' = [chip EXCEPT !.masked = FALSE] /\ life' = "bound"
     \/ "wr_mask" \in Faults /\ life' = "fail_irq" /\ UNCHANGED chip
  /\ UNCHANGED <<husb, plug, step, intr, seen, irq>>

\* err_free_irq: devm_free_irq waits for a running interrupt thread.
ProbeFreeIrq ==
  /\ life = "fail_irq" /\ step = "free"
  /\ husb' = [husb EXCEPT !.shutting_down = TRUE]
  /\ irq' = "none"
  /\ life' = "fail_port"
  /\ UNCHANGED <<chip, plug, step, intr, seen>>

\* err_unregister_port and the labels below it.
ProbeUnregister ==
  /\ life = "fail_port" /\ step = "free"
  /\ \E f \in SUBSET (Faults \cap (PortFaults \cup {"wr_mask", "wr_enable"})) :
       /\ husb' = [husb320_disconnect(husb, f) EXCEPT !.shutting_down = TRUE]
       /\ chip' = husb320_hw_disable(chip, f)
  /\ life' = "failed"
  /\ UNCHANGED <<plug, step, intr, seen, irq>>

\* The first critical section of husb320_remove and husb320_shutdown.
StopInterrupts(next) ==
  /\ life = "bound" /\ step = "free"
  /\ husb' = [husb EXCEPT !.shutting_down = TRUE]
  /\ \/ chip' = [chip EXCEPT !.masked = TRUE]
     \/ "wr_mask" \in Faults /\ UNCHANGED chip
  /\ life' = next
  /\ UNCHANGED <<plug, step, intr, seen, irq>>

RemoveBegin == StopInterrupts("remove_irq")
ShutdownBegin == StopInterrupts("shut_irq")

\* devm_free_irq and disable_irq wait for a running interrupt thread; the
\* lock is released around them, so that the thread can finish.
RemoveFreeIrq ==
  /\ life = "remove_irq" /\ step = "free"
  /\ irq' = "none"
  /\ life' = "remove_rest"
  /\ UNCHANGED <<husb, chip, plug, step, intr, seen>>

\* Mutant: remove disables the controller and keeps the connection.
remove_without_disconnect ==
  /\ life = "remove_rest" /\ step = "free"
  /\ \E f \in SUBSET (Faults \cap {"wr_mask", "wr_enable"}) :
       chip' = husb320_hw_disable(chip, f)
  /\ life' = "gone"
  /\ UNCHANGED <<husb, plug, step, intr, seen, irq>>

husb320_remove ==
  /\ life = "remove_rest" /\ step = "free"
  /\ \E f \in SUBSET (Faults \cap (PortFaults \cup {"wr_mask", "wr_enable"})) :
       /\ husb' = husb320_disconnect(husb, f)
       /\ chip' = husb320_hw_disable(chip, f)
  /\ life' = "gone"
  /\ UNCHANGED <<plug, step, intr, seen, irq>>

ShutdownDisableIrq ==
  /\ life = "shut_irq" /\ step = "free"
  /\ irq' = "off"
  /\ life' = "shut_rest"
  /\ UNCHANGED <<husb, chip, plug, step, intr, seen>>

\* husb320_set_sink_mode returns at the first write that fails.
husb320_set_sink_mode(c, f) ==
  LET m == [c EXCEPT !.masked = TRUE]
      r == [Dropped(m) EXCEPT !.role = "snk", !.try = "no_pref"]
  IN  IF "wr_mask" \in f THEN c
      ELSE IF "wr_role" \in f THEN m
      ELSE IF "wr_enable" \in f THEN r
      ELSE [r EXCEPT !.enabled = TRUE]

\* Sink only and enabled, so that the tablet still takes charge when it is
\* off; the controller is disabled instead when the cleanup or one of the
\* writes failed, and on a source-only port.
husb320_shutdown ==
  /\ life = "shut_rest" /\ step = "free"
  /\ \E f \in SUBSET (Faults \cap (PortFaults \cup {"wr_mask", "wr_role", "wr_enable"})),
        g \in SUBSET (Faults \cap {"wr_mask", "wr_enable"}) :
       LET h    == husb320_disconnect(husb, f)
           sink == h.state_valid /\ CapType # "src"
           c    == IF sink THEN husb320_set_sink_mode(chip, f) ELSE chip
       IN  /\ husb' = h
           /\ chip' = IF sink /\ f \cap {"wr_mask", "wr_role", "wr_enable"} = {}
                      THEN c ELSE husb320_hw_disable(c, g)
  /\ life' = "off"
  /\ UNCHANGED <<plug, step, intr, seen, irq>>
-----------------------------------------------------------------------------
\* probe starts from a zeroed struct, after husb320_parse_connector; the
\* controller comes up with any enable and mask bits.
Init ==
  /\ \E pref \in (IF CapType = "drp" THEN PrefRoles ELSE {"no_pref"}) :
       husb = husb320_set_unattached_roles(
         [state |-> "unattached", state_valid |-> FALSE, vbus_on |-> FALSE,
          usb_role |-> "none", connector_mode |-> "safe", mode_valid |-> FALSE,
          partner |-> "null", port_type |-> CapType, preferred_role |-> pref,
          shutting_down |-> FALSE, orientation |-> "none",
          pwr_role |-> "sink", data_role |-> "device"])
  /\ \E e, m \in BOOLEAN :
       chip = [role |-> "drp", try |-> "no_pref", enabled |-> e, masked |-> m,
               kind |-> "unattached", cc |-> "none", ints |-> {}]
  /\ plug = [kind |-> "unattached", cc |-> "none"]
  /\ step = "free"
  /\ intr = {}
  /\ seen = [attached |-> FALSE, cc |-> "none"]
  /\ irq = "none"
  /\ life = "hw_init"

Environment ==
  \/ \E k \in Kinds, cc \in CCs : Plug(k, cc)
  \/ Unplug
  \/ ChipNotify
  \/ \E t \in PortTypes : husb320_port_type_set(t)
  \/ \E r \in PrefRoles : husb320_try_role_set(r)
  \/ RemoveBegin
  \/ ShutdownBegin

Controller == ChipDetach \/ ChipAttach

IrqThread == IrqEnter \/ IrqAck \/ IrqErr

LockHolder == ReadStatus \/ ReadTypeAndApply \/ ErrorRecovery

Lifecycle ==
  \/ husb320_hw_init \/ RegisterPort \/ RequestIrq \/ ProbeUpdate \/ ProbeUnmask
  \/ ProbeFreeIrq \/ ProbeUnregister
  \/ RemoveFreeIrq \/ husb320_remove \/ ShutdownDisableIrq \/ husb320_shutdown

Next == Environment \/ Controller \/ IrqThread \/ LockHolder \/ Lifecycle

Spec == Init /\ [][Next]_vars

\* The controller, a woken interrupt thread, a lock holder and the driver
\* core's probe, remove and shutdown calls keep running; cables, sysfs
\* writes and the decision to remove are the environment's.
FairSpec == /\ Spec
            /\ WF_vars(Controller)
            /\ WF_vars(IrqThread)
            /\ WF_vars(LockHolder)
            /\ WF_vars(Lifecycle)
-----------------------------------------------------------------------------
(* Properties. *)

HusbType ==
  [state: States, state_valid: BOOLEAN, vbus_on: BOOLEAN,
   usb_role: {"none", "host", "device"},
   connector_mode: {"safe", "usb", "audio", "debug"}, mode_valid: BOOLEAN,
   partner: {"null", "plain", "debug", "audio"}, port_type: PortTypes,
   preferred_role: PrefRoles, shutting_down: BOOLEAN,
   orientation: {"none", "normal", "reverse"},
   pwr_role: {"source", "sink"}, data_role: {"host", "device"}]

ChipType ==
  [role: PortTypes, try: PrefRoles, enabled: BOOLEAN, masked: BOOLEAN,
   kind: States, cc: {"none", "normal", "reverse"}, ints: SUBSET {"detach", "other"}]

(* The struct, the registers and the positions of the threads stay in range; *)
(* in particular the roles published for an unattached port are real roles   *)
(* even when the connector states no preference.                             *)
TypeOK ==
  /\ husb \in HusbType
  /\ chip \in ChipType
  /\ plug \in [kind: States, cc: {"none", "normal", "reverse"}]
  /\ step \in {"free", "irq_ack", "irq_status", "irq_type", "irq_err", "recover",
               "probe_status", "probe_type"}
  /\ intr \subseteq {"detach", "other"}
  /\ seen \in [attached: BOOLEAN, cc: {"none", "normal", "reverse"}]
  /\ irq \in {"none", "on", "off"}
  /\ life \in {"hw_init", "register", "request_irq", "update", "unmask", "bound",
               "fail_irq", "fail_port", "failed", "remove_irq", "remove_rest", "gone",
               "shut_irq", "shut_rest", "off"}

\* Nobody holds husb->lock and no failed probe is waiting for its cleanup.
Settled == step = "free" /\ life \notin {"fail_irq", "fail_port"}

(* "VBUS ... belongs to the HUSB320 Type-C controller, which turns it on     *)
(* only in the Type-C SOURCE state" (rk3562-rk817-tablet-v10.dts:975):       *)
(* whenever the lock is free the boost is on only for a valid SOURCE state,  *)
(* or because the regulator refused to go off and the driver has shut down.  *)
VbusOnlyAsSource ==
  Settled /\ husb.vbus_on =>
    \/ husb.state = "source" /\ husb.state_valid
    \/ husb.shutting_down /\ ~husb.state_valid

(* The published partner is the one that is attached: there is one exactly   *)
(* in a valid attached state, its accessory kind, the USB role, the mode and *)
(* the power role are those of that state, whatever states and failures were *)
(* passed through on the way (husb320_register_partner keeps an existing     *)
(* partner, so a missed unregister would leave the old accessory).           *)
PublishedStateAgrees ==
  Settled =>
    /\ (husb.partner # "null") <=> (husb.state # "unattached")
    /\ husb.state # "unattached" =>
         /\ husb.state_valid
         /\ husb.partner = husb320_state_accessory(husb.state)
         /\ husb.usb_role = husb320_state_usb_role(husb.state)
         /\ husb.mode_valid /\ husb.connector_mode = husb320_state_mode(husb.state)
         /\ husb.pwr_role = husb320_state_power_role(husb.state)
         /\ HasVbus => husb.vbus_on = (husb.state = "source")

(* No attach or detach is lost: with the lock free and no interrupt pending  *)
(* the driver has the state and orientation the controller reports, although *)
(* the cable may be moved between the reads of INTERRUPT, STATUS and TYPE.   *)
NoLostEvent ==
  step = "free" /\ life = "bound" /\ ~husb.shutting_down /\ chip.ints = {} =>
    husb.state = chip.kind /\ husb.orientation = chip.cc

(* PORT_ROLE holds what port_type_set and try_role_set have accepted, also   *)
(* when a preference was stored while the port was not a DRP.                *)
PortRoleRegisterAgrees ==
  step = "free" /\ ~husb.shutting_down
    /\ life \in {"register", "request_irq", "update", "unmask", "bound"} =>
      /\ chip.role = husb.port_type
      /\ chip.try = husb320_try_role(husb.port_type, husb.preferred_role)

(* Once remove or shutdown is over nothing is published, and VBUS and the    *)
(* USB role are released unless a call refused; it stays so, since neither   *)
(* the interrupt thread nor a sysfs write may act on a port shutting down.   *)
StoppedPortIsSafe ==
  life \in {"gone", "off", "failed"} =>
    /\ husb.partner = "null" /\ husb.state = "unattached"
    /\ husb.state_valid => ~husb.vbus_on /\ husb.usb_role = "none"

(* Shutting down is final, and once probe is over no step after it turns     *)
(* VBUS on or takes a USB role.  (probe itself applies the first state       *)
(* without looking at shutting_down, which a failed port_type write may have *)
(* set by then.)                                                             *)
ShutdownIsFinal ==
  [][husb.shutting_down =>
       /\ husb'.shutting_down
       /\ life # "update" =>
            /\ husb'.vbus_on => husb.vbus_on
            /\ husb'.usb_role \in {husb.usb_role, "none"}]_vars

(* A port whose cable, port type and driver binding no longer change ends up *)
(* in the state the cable asks for, unless the driver has given up.  Reads   *)
(* and cleanup calls do not fail here; the cable may have been moved between *)
(* any two steps of the interrupt thread.                                    *)
Disturbed ==
  \/ plug' # plug \/ life' # life
  \/ husb'.port_type # husb.port_type
  \/ step = "free" /\ step' = "recover"      \* a port_type write that failed

EventuallyTracksPlug ==
  <>[][~Disturbed]_vars =>
    <>[](life = "bound" /\ ~husb.shutting_down =>
           husb.state = IF Detects(husb.port_type, plug.kind)
                        THEN plug.kind ELSE "unattached")

(* A driver that gave up does not leave its level interrupt asserted for     *)
(* ever, although masking it may fail: the next wake-up disables the line.   *)
NoInterruptStorm ==
  husb.shutting_down /\ irq = "on" /\ PinAsserted ~> irq # "on" \/ ~PinAsserted
=============================================================================
