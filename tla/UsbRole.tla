------------------------------ MODULE UsbRole ------------------------------
(***************************************************************************)
(* The service that picks the data role of the USB-C port                  *)
(* (overlay/c20e-usb-role.sh), the hook that releases the console gadget   *)
(* around suspend (overlay/c20e-usb-gadget-sleep) and what they steer.     *)
(*                                                                         *)
(* `port' is what the Type-C class shows, `usb' the dual-role controller   *)
(* and the configfs gadget, `svc' the shell process, `hook' the suspend    *)
(* under way.  Every command of the scripts that reads or writes sysfs is  *)
(* an action of its own, so the cable, the kernel's role switch, the host  *)
(* on the other side, a suspend and a kill of the service fall between any *)
(* two.  The kernel and the devices are external.                          *)
(***************************************************************************)
EXTENDS Naturals

CONSTANTS
  Partners,     \* what may be plugged in: see PartnerKinds
  Tries,        \* rounds of the bind loop (25 in set_device)
  Probes,       \* rounds of the probe loop (PROBE * 5 in decide)
  MaxSwaps,     \* times a cable is moved before the service has polled
  MaxSlow,      \* times a computer needs longer than PROBE to configure us
  MaxBindFails, \* writes to the gadget's UDC that fail though the UDC exists
  MaxKills,     \* times the service is killed
  MaxSleeps     \* suspends

\* A sink is powered by the tablet (OTG adapter, unpowered hub); a laptop and
\* a charger (or a charging hub) both present Rp.
PartnerKinds == {"sink", "laptop", "charger"}

ASSUME RoleAssumption ==
  /\ Partners \subseteq PartnerKinds
  /\ Tries \in Nat \ {0} /\ Probes \in Nat \ {0}
  /\ MaxSwaps \in Nat /\ MaxSlow \in Nat
  /\ MaxBindFails \in Nat /\ MaxKills \in Nat /\ MaxSleeps \in Nat

VARIABLES
  port,   \* partner: what is attached; role: /sys/class/typec/port0/data_role
  usb,    \* mode of the controller, udc present, gadget bound, configured
  svc,    \* c20e-usb-role: pc, $now, $last, what follows set_device, loop count
  hook,   \* suspend: pc, whether the STATE file exists
  moved,  \* history: cable moved or service started since the last decision
  left    \* what the bounds still allow

vars == <<port, usb, svc, hook, moved, left>>

Presence == IF port.partner = "none" THEN "absent" ELSE "present"

\* What husb320 makes the tablet for a partner: it powers a sink and is its
\* USB host.
DataRole(p) == IF p = "sink" THEN "host" ELSE "device"

\* The service starts after c20e-usb-debug has put the controller in device
\* mode and created the gadget, bound unless it found no UDC.
Init ==
  /\ port \in [partner : Partners \cup {"none"}, role : {"host", "device"}]
  /\ port.partner # "none" => port.role = DataRole(port.partner)
  /\ usb \in [mode : {"host", "device"}, udc : BOOLEAN, bound : BOOLEAN, configured : {FALSE}]
  /\ usb.udc => usb.mode = "device"
  /\ usb.mode = "host" => port.partner = "sink"
  /\ svc = [pc |-> "poll", now |-> "unset", last |-> "unset", then |-> "poll", n |-> 0]
  /\ hook = [pc |-> "awake", saved |-> FALSE]
  /\ moved = TRUE
  /\ left = [swaps |-> MaxSwaps, slow |-> MaxSlow, fails |-> MaxBindFails,
             kills |-> MaxKills, sleeps |-> MaxSleeps]
-----------------------------------------------------------------------------
(* The controller and the gadget. *)

\* Writing "host" or "device" to the controller, by debugfs or by the kernel's
\* role switch: the UDC goes away in host mode and comes back later (UdcUp);
\* the gadget keeps the name it was bound to.
SetMode(u, m) ==
  IF m = u.mode THEN u ELSE [u EXCEPT !.mode = m, !.udc = FALSE, !.configured = FALSE]

\* echo "" > $G/UDC
Unbind(u) == [u EXCEPT !.bound = FALSE, !.configured = FALSE]

\* The UDC of the dwc3 controller is registered again after a switch.
UdcUp ==
  /\ usb.mode = "device" /\ ~usb.udc
  /\ usb' = [usb EXCEPT !.udc = TRUE]
  /\ UNCHANGED <<port, svc, hook, moved, left>>

\* A computer sees the gadget and configures it.
Configurable ==
  /\ port.partner = "laptop" /\ hook.pc # "asleep"
  /\ usb.udc /\ usb.bound /\ ~usb.configured
Configure ==
  /\ Configurable
  /\ usb' = [usb EXCEPT !.configured = TRUE]
  /\ UNCHANGED <<port, svc, hook, moved, left>>
-----------------------------------------------------------------------------
(* The cable: husb320 sets the role switch, then the data role, then the   *)
(* partner; on a detach the role switch goes to NONE, which dwc3 takes for *)
(* device mode.                                                            *)

\* A cable rests until the service has seen it, but for MaxSwaps quick moves.
Seen(presence) ==
  \/ svc.now = presence /\ UNCHANGED left
  \/ svc.now # presence /\ left.swaps > 0 /\ left' = [left EXCEPT !.swaps = @ - 1]

Plug(p) ==
  /\ port.partner = "none"
  /\ Seen("absent")
  /\ port' = [partner |-> p, role |-> DataRole(p)]
  /\ usb' = SetMode(usb, DataRole(p))
  /\ moved' = TRUE
  /\ UNCHANGED <<svc, hook>>

Unplug ==
  /\ port.partner # "none"
  /\ Seen("present")
  /\ \E r \in {"host", "device"} : port' = [partner |-> "none", role |-> r]
  /\ usb' = [SetMode(usb, "device") EXCEPT !.configured = FALSE]
  /\ moved' = TRUE
  /\ UNCHANGED <<svc, hook>>

\* During a suspend both ends of a swap are one interrupt to husb320: a
\* partner of the same role stays the same partner.
SwapAsleep(p) ==
  /\ hook.pc = "asleep" /\ port.partner \notin {"none", p}
  /\ left.swaps > 0 /\ left' = [left EXCEPT !.swaps = @ - 1]
  /\ port' = [partner |-> p, role |-> DataRole(p)]
  /\ usb' = [(IF port.role = DataRole(p) THEN usb ELSE SetMode(usb, DataRole(p)))
               EXCEPT !.configured = FALSE]
  /\ moved' = TRUE
  /\ UNCHANGED <<svc, hook>>
-----------------------------------------------------------------------------
(* c20e-usb-role. *)

Running(pc) == svc.pc = pc /\ hook.pc # "asleep"
Goto(pc) == svc' = [svc EXCEPT !.pc = pc]
\* Mutants of Decided: $last is never written; the loop notes what is attached
\* after the decision instead of what it decided on.
DecidedForgets == svc' = [svc EXCEPT !.pc = "poll"]
DecidedRereads == svc' = [svc EXCEPT !.pc = "poll", !.last = Presence]

\* decide returns; the loop notes what it had read before it.
Decided == svc' = [svc EXCEPT !.pc = "poll", !.last = svc.now]

\* One turn of the loop: look at the partner, decide when it changed.
Poll ==
  /\ Running("poll")
  /\ svc' = [svc EXCEPT !.now = Presence, !.pc = IF Presence # svc.last THEN "decide" ELSE "poll"]
  /\ moved' = (moved /\ Presence = svc.last)
  /\ UNCHANGED <<port, usb, hook, left>>

\* decide, first test
DecideOnPartner ==
  /\ Running("decide")
  /\ IF Presence = "absent"
       THEN svc' = [svc EXCEPT !.pc = "set_device", !.then = "poll"]
       ELSE Goto("role")
  /\ UNCHANGED <<port, usb, hook, moved, left>>

\* decide, second test: [host] in data_role means that we power the partner.
DecideOnRole ==
  /\ Running("role")
  /\ IF port.role = "host"
       THEN Goto("set_host")
       ELSE svc' = [svc EXCEPT !.pc = "set_device", !.then = "probe"]
  /\ UNCHANGED <<port, usb, hook, moved, left>>

\* Mutant of set_device: it first releases the gadget, as c20e-usb-debug does.
set_device_rebinds ==
  /\ Running("set_device")
  /\ usb' = Unbind(SetMode(usb, "device"))
  /\ svc' = [svc EXCEPT !.pc = "bind", !.n = Tries]
  /\ UNCHANGED <<port, hook, moved, left>>

\* set_device, the two writes of the mode
set_device ==
  /\ Running("set_device")
  /\ usb' = SetMode(usb, "device")
  /\ svc' = [svc EXCEPT !.pc = "bind", !.n = Tries]
  /\ UNCHANGED <<port, hook, moved, left>>

\* Mutant of BindRound: the loop has no last round.
BindRoundEndless ==
  /\ Running("bind") /\ ~(usb.udc /\ usb.bound)
  /\ usb' = IF usb.udc THEN [usb EXCEPT !.bound = TRUE] ELSE usb
  /\ svc' = [svc EXCEPT !.n = @ - 1]
  /\ UNCHANGED <<port, hook, moved, left>>

\* set_device, one round of the loop that waits for the UDC and binds.  The
\* UDC of a controller in device mode is back, and a bind works, before the
\* last of the 25 rounds.
BindRound ==
  /\ Running("bind") /\ svc.n > 0
  /\ \/ /\ ~usb.udc
        /\ svc.n = 1 => usb.mode = "host"
        /\ UNCHANGED <<usb, left>>
     \/ /\ usb.udc /\ ~usb.bound
        /\ usb' = [usb EXCEPT !.bound = TRUE]
        /\ UNCHANGED left
     \/ /\ usb.udc /\ ~usb.bound
        /\ svc.n > 1 /\ left.fails > 0
        /\ left' = [left EXCEPT !.fails = @ - 1]
        /\ UNCHANGED usb
  /\ svc' = [svc EXCEPT !.n = @ - 1]
  /\ UNCHANGED <<port, hook, moved>>

\* The loop ends bound, or after its last round; decide goes on or returns.
BindEnd ==
  /\ Running("bind")
  /\ svc.n = 0 \/ (usb.udc /\ usb.bound)
  /\ IF svc.then = "poll" THEN Decided ELSE svc' = [svc EXCEPT !.pc = "probe", !.n = Probes]
  /\ UNCHANGED <<port, usb, hook, moved, left>>

\* One round of the probe loop.  A computer that can configure the gadget does
\* so before the last round, but for MaxSlow slow ones.
TooSlow == svc.n = 1 /\ Configurable
ProbeRound ==
  /\ Running("probe") /\ svc.n > 0
  /\ \/ (usb.configured \/ Presence = "absent") /\ Decided /\ UNCHANGED left
     \/ /\ ~usb.configured /\ Presence = "present"
        /\ svc' = [svc EXCEPT !.n = @ - 1]
        /\ \/ ~TooSlow /\ UNCHANGED left
           \/ TooSlow /\ left.slow > 0 /\ left' = [left EXCEPT !.slow = @ - 1]
  /\ UNCHANGED <<port, usb, hook, moved>>

ProbeEnd ==
  /\ Running("probe") /\ svc.n = 0
  /\ Goto("set_host")
  /\ UNCHANGED <<port, usb, hook, moved, left>>

\* set_host: release the gadget, then switch.
UnbindForHost ==
  /\ Running("set_host")
  /\ usb' = Unbind(usb)
  /\ Goto("host")
  /\ UNCHANGED <<port, hook, moved, left>>

set_host ==
  /\ Running("host")
  /\ usb' = SetMode(usb, "host")
  /\ Decided
  /\ UNCHANGED <<port, hook, moved, left>>

Service ==
  \/ Poll \/ DecideOnPartner \/ DecideOnRole \/ set_device \/ BindRound \/ BindEnd
  \/ ProbeRound \/ ProbeEnd \/ UnbindForHost \/ set_host

\* The service is killed anywhere and started again (Restart=on-failure).
Restart ==
  /\ hook.pc # "asleep" /\ left.kills > 0
  /\ left' = [left EXCEPT !.kills = @ - 1]
  /\ svc' = [svc EXCEPT !.pc = "poll", !.now = "unset", !.last = "unset"]
  /\ moved' = TRUE
  /\ UNCHANGED <<port, usb, hook>>
-----------------------------------------------------------------------------
(* Suspend and resume with the hook. *)

\* pre: read the gadget's UDC and keep it in STATE
HookSave ==
  /\ hook.pc = "awake" /\ left.sleeps > 0
  /\ left' = [left EXCEPT !.sleeps = @ - 1]
  /\ hook' = IF usb.bound THEN [pc |-> "unbind", saved |-> TRUE] ELSE [hook EXCEPT !.pc = "ready"]
  /\ UNCHANGED <<port, usb, svc, moved>>

HookUnbind ==
  /\ hook.pc = "unbind"
  /\ usb' = Unbind(usb)
  /\ hook' = [hook EXCEPT !.pc = "ready"]
  /\ UNCHANGED <<port, svc, moved, left>>

\* The kernel freezes user space and suspends dwc3, which fails with the
\* gadget bound in device mode.
SuspendBlocked == usb.bound /\ usb.mode = "device"
Suspend ==
  /\ hook.pc = "ready"
  /\ hook' = [hook EXCEPT !.pc = IF SuspendBlocked THEN "post" ELSE "asleep"]
  /\ UNCHANGED <<port, usb, svc, moved, left>>
Wake ==
  /\ hook.pc = "asleep"
  /\ hook' = [hook EXCEPT !.pc = "post"]
  /\ UNCHANGED <<port, usb, svc, moved, left>>

\* post: write the kept name back, which fails without the UDC
HookRestore ==
  /\ hook.pc = "post"
  /\ usb' = IF hook.saved /\ usb.udc THEN [usb EXCEPT !.bound = TRUE] ELSE usb
  /\ hook' = [pc |-> "awake", saved |-> FALSE]
  /\ UNCHANGED <<port, svc, moved, left>>

Sleep == HookSave \/ HookUnbind \/ Suspend \/ Wake \/ HookRestore
Kernel == UdcUp \/ Configure
Cable == (\E p \in Partners : Plug(p) \/ SwapAsleep(p)) \/ Unplug
Next == Service \/ Restart \/ Sleep \/ Kernel \/ Cable

Spec == Init /\ [][Next]_vars

\* The service keeps being scheduled whenever it is not frozen, a suspend
\* that began goes through and is followed by a wake-up, and the controller
\* and a computer on the cable finish what they began.
Fairness ==
  /\ WF_vars(Service)
  /\ WF_vars(HookUnbind) /\ WF_vars(Suspend) /\ WF_vars(Wake) /\ WF_vars(HookRestore)
  /\ WF_vars(UdcUp) /\ WF_vars(Configure)

FairSpec == Spec /\ Fairness
-----------------------------------------------------------------------------
(* Properties. *)

PortType == [partner : Partners \cup {"none"}, role : {"host", "device"}]
UsbType == [mode : {"host", "device"}, udc : BOOLEAN, bound : BOOLEAN, configured : BOOLEAN]
SvcType ==
  [pc : {"poll", "decide", "role", "set_device", "bind", "probe", "set_host", "host"},
   now : {"unset", "absent", "present"}, last : {"unset", "absent", "present"},
   then : {"poll", "probe"}, n : Nat]
HookType == [pc : {"awake", "unbind", "ready", "asleep", "post"}, saved : BOOLEAN]
LeftType == [swaps : Nat, slow : Nat, fails : Nat, kills : Nat, sleeps : Nat]

\* Every variable keeps its type; no loop and no budget runs below zero.
TypeOK ==
  /\ port \in PortType
  /\ usb \in UsbType
  /\ svc \in SvcType
  /\ hook \in HookType
  /\ moved \in BOOLEAN
  /\ left \in LeftType

\* "decided only when something is plugged or unplugged, so the port never
\* flaps": between two decisions the cable was moved or the service started.
DecideOnlyOnChange == [][svc.pc = "poll" /\ svc'.pc = "decide" => moved]_vars

\* A computer that has configured the gadget in time keeps its console while it
\* stays attached: no step of the service, not even one of a service that was
\* killed and decides anew, takes the gadget from it.  Said of the time before
\* the first suspend, unnoticed swap and slow computer.
ConsoleKept ==
  [][/\ left.sleeps = MaxSleeps /\ left.swaps = MaxSwaps /\ left.slow = MaxSlow
     /\ usb.configured /\ port' = port
     => usb'.configured]_vars

\* The policy of the script for what is attached.
Policy(p) ==
  CASE p = "none" -> usb.mode = "device" /\ usb.udc /\ usb.bound
    [] p = "laptop" -> usb.mode = "device" /\ usb.configured
    [] OTHER -> usb.mode = "host"

\* A computer is recognised if it is in time and no suspend cuts a probe short.
Recognisable(p) ==
  p = "laptop" => [](left.slow = MaxSlow /\ (svc.pc = "probe" => hook.pc = "awake"))

\* A cable that is left alone ends in the mode the policy names, whatever was
\* attached before, at which step of the service it was moved, wherever the
\* service was killed and whenever the tablet slept, if a poll saw every move.
PolicyFollowed ==
  \A p \in Partners \cup {"none"} :
    [](left.swaps = MaxSwaps) /\ <>[](port.partner = p) /\ Recognisable(p) => <>[]Policy(p)

\* "Unbinding the gadget first lets dwc3 suspend": a suspend for which the
\* hook has run is not refused by the controller.
SuspendNotBlocked == [][hook.pc = "ready" => hook'.pc # "post"]_vars
=============================================================================
