--------------------------- MODULE UsbRoleProofs ---------------------------
(***************************************************************************)
(* Proofs about UsbRole, for every set of partners, every length of the    *)
(* loops and every number of swaps, kills and suspends.                    *)
(***************************************************************************)
EXTENDS UsbRole, TLAPS

\* Nothing has moved since the service read $now.
NowIsCurrent == ~moved => svc.now = Presence

\* A service that rests has decided on what it read last.
DecidedOnNow == svc.pc = "poll" /\ ~moved => svc.last = svc.now

IndInv == TypeOK /\ NowIsCurrent /\ DecidedOnNow

\* Changing the mode or releasing the gadget keeps the controller's record.
LEMMA UsbRecord ==
  ASSUME NEW u \in UsbType, NEW m \in {"host", "device"}
  PROVE  /\ SetMode(u, m) \in UsbType
         /\ Unbind(u) \in UsbType
         /\ [u EXCEPT !.configured = FALSE] \in UsbType
         /\ [u EXCEPT !.configured = TRUE] \in UsbType
         /\ [u EXCEPT !.bound = TRUE] \in UsbType
         /\ [u EXCEPT !.udc = TRUE] \in UsbType
BY DEF SetMode, Unbind, UsbType

\* Every step of the service keeps every variable's type.
LEMMA ServiceType == TypeOK /\ Service => TypeOK'
<1> SUFFICES ASSUME TypeOK, Service PROVE TypeOK'
  OBVIOUS
<1>0. /\ port \in PortType /\ usb \in UsbType /\ svc \in SvcType /\ hook \in HookType
      /\ moved \in BOOLEAN /\ left \in LeftType
  BY DEF TypeOK
<1>1. port' = port /\ hook' = hook
  BY DEF Service, Poll, DecideOnPartner, DecideOnRole, set_device, BindRound, BindEnd,
     ProbeRound, ProbeEnd, UnbindForHost, set_host
<1>2. usb' \in UsbType
  BY <1>0, UsbRecord DEF Service, Poll, DecideOnPartner, DecideOnRole, set_device, BindRound,
     BindEnd, ProbeRound, ProbeEnd, UnbindForHost, set_host
<1>3. moved' \in BOOLEAN
  <2>1. CASE Poll
    BY <2>1, Zenon DEF Poll
  <2>2. CASE UNCHANGED moved
    BY <1>0, <2>2
  <2> QED BY <2>1, <2>2 DEF Service, DecideOnPartner, DecideOnRole, set_device, BindRound,
     BindEnd, ProbeRound, ProbeEnd, UnbindForHost, set_host
<1>4. left' \in LeftType
  <2>1. CASE UNCHANGED left
    BY <1>0, <2>1
  <2>2. CASE left.fails > 0 /\ left' = [left EXCEPT !.fails = @ - 1]
    BY <1>0, <2>2 DEF LeftType
  <2>3. CASE left.slow > 0 /\ left' = [left EXCEPT !.slow = @ - 1]
    BY <1>0, <2>3 DEF LeftType
  <2> QED BY <2>1, <2>2, <2>3 DEF Service, Poll, DecideOnPartner, DecideOnRole, set_device,
     BindRound, BindEnd, ProbeRound, ProbeEnd, UnbindForHost, set_host
<1>5. svc' \in SvcType
  <2> USE <1>0, RoleAssumption DEF SvcType
  <2>1. CASE Poll
    <3>1. Presence \in {"absent", "present"}
      BY DEF Presence
    <3> QED BY <2>1, <3>1 DEF Poll
  <2>2. CASE DecideOnPartner \/ DecideOnRole
    BY <2>2 DEF DecideOnPartner, DecideOnRole, Goto
  <2>3. CASE set_device \/ UnbindForHost \/ set_host \/ ProbeEnd
    BY <2>3 DEF set_device, UnbindForHost, set_host, ProbeEnd, Goto, Decided
  <2>4. CASE BindRound
    <3>1. svc.n > 0 /\ svc' = [svc EXCEPT !.n = @ - 1]
      BY <2>4 DEF BindRound
    <3> QED BY <3>1
  <2>5. CASE BindEnd
    BY <2>5 DEF BindEnd, Decided
  <2>6. CASE ProbeRound
    <3>1. svc.n > 0 /\ (Decided \/ svc' = [svc EXCEPT !.n = @ - 1])
      BY <2>6 DEF ProbeRound
    <3>2. CASE Decided
      BY <3>2 DEF Decided
    <3>3. CASE svc' = [svc EXCEPT !.n = @ - 1]
      BY <3>1, <3>3
    <3> QED BY <3>1, <3>2, <3>3
  <2> QED BY <2>1, <2>2, <2>3, <2>4, <2>5, <2>6 DEF Service
<1> QED BY <1>0, <1>1, <1>2, <1>3, <1>4, <1>5 DEF TypeOK

\* So does every move of the cable, quick or not.
LEMMA CableType == TypeOK /\ Cable => TypeOK'
<1> SUFFICES ASSUME TypeOK, Cable PROVE TypeOK'
  OBVIOUS
<1>0. /\ port \in PortType /\ usb \in UsbType /\ svc \in SvcType /\ hook \in HookType
      /\ left \in LeftType
  BY DEF TypeOK
<1>1. svc' = svc /\ hook' = hook /\ moved' = TRUE
  BY DEF Cable, Plug, Unplug, SwapAsleep
<1>2. \A p : DataRole(p) \in {"host", "device"}
  BY DEF DataRole
<1>3. port' \in PortType
  BY <1>2 DEF Cable, Plug, Unplug, SwapAsleep, PortType
<1>4. usb' \in UsbType
  <2>1. ASSUME NEW p \in Partners, Plug(p) PROVE usb' \in UsbType
    BY <1>0, <1>2, <2>1, UsbRecord DEF Plug
  <2>2. ASSUME NEW p \in Partners, SwapAsleep(p) PROVE usb' \in UsbType
    <3> DEFINE u == IF port.role = DataRole(p) THEN usb ELSE SetMode(usb, DataRole(p))
    <3>1. u \in UsbType
      BY <1>0, <1>2, UsbRecord
    <3>2. usb' = [u EXCEPT !.configured = FALSE]
      BY <2>2 DEF SwapAsleep
    <3> HIDE DEF u
    <3> QED BY <3>1, <3>2, UsbRecord
  <2>3. CASE Unplug
    <3> DEFINE u == SetMode(usb, "device")
    <3>1. u \in UsbType
      BY <1>0, UsbRecord
    <3>2. usb' = [u EXCEPT !.configured = FALSE]
      BY <2>3 DEF Unplug
    <3> HIDE DEF u
    <3> QED BY <3>1, <3>2, UsbRecord
  <2> QED BY <2>1, <2>2, <2>3 DEF Cable
<1>5. left' \in LeftType
  <2>1. left' = left \/ (left.swaps > 0 /\ left' = [left EXCEPT !.swaps = @ - 1])
    BY DEF Cable, Plug, Unplug, SwapAsleep, Seen
  <2> QED BY <1>0, <2>1 DEF LeftType
<1> QED BY <1>0, <1>1, <1>3, <1>4, <1>5 DEF TypeOK

\* And so do a kill of the service, a suspend and the controller.
LEMMA TypeStep == TypeOK /\ [Next]_vars => TypeOK'
<1> SUFFICES ASSUME TypeOK, [Next]_vars PROVE TypeOK'
  OBVIOUS
<1>0. /\ port \in PortType /\ usb \in UsbType /\ svc \in SvcType /\ hook \in HookType
      /\ moved \in BOOLEAN /\ left \in LeftType
  BY DEF TypeOK
<1>1. CASE Restart
  <2>1. left' \in LeftType
    BY <1>0, <1>1 DEF Restart, LeftType
  <2>2. svc' \in SvcType
    BY <1>0, <1>1 DEF Restart, SvcType
  <2> QED BY <1>0, <1>1, <2>1, <2>2 DEF Restart, TypeOK
<1>2. CASE Sleep
  <2>1. left' \in LeftType
    <3>1. left' = left \/ (left.sleeps > 0 /\ left' = [left EXCEPT !.sleeps = @ - 1])
      BY <1>2 DEF Sleep, HookSave, HookUnbind, Suspend, Wake, HookRestore
    <3> QED BY <1>0, <3>1 DEF LeftType
  <2>2. hook' \in HookType
    <3> USE <1>0 DEF HookType
    <3>1. CASE HookSave
      BY <3>1 DEF HookSave
    <3>2. CASE HookUnbind \/ Wake
      BY <3>2 DEF HookUnbind, Wake
    <3>3. CASE Suspend
      BY <3>3 DEF Suspend
    <3>4. CASE HookRestore
      BY <3>4 DEF HookRestore
    <3> QED BY <1>2, <3>1, <3>2, <3>3, <3>4 DEF Sleep
  <2>3. usb' \in UsbType
    BY <1>0, <1>2, UsbRecord DEF Sleep, HookSave, HookUnbind, Suspend, Wake, HookRestore
  <2>4. port' = port /\ svc' = svc /\ moved' = moved
    BY <1>2 DEF Sleep, HookSave, HookUnbind, Suspend, Wake, HookRestore
  <2> QED BY <1>0, <2>1, <2>2, <2>3, <2>4 DEF TypeOK
<1>3. CASE Kernel
  <2>1. usb' \in UsbType
    BY <1>0, <1>3, UsbRecord DEF Kernel, UdcUp, Configure
  <2> QED BY <1>0, <1>3, <2>1 DEF Kernel, UdcUp, Configure, TypeOK
<1>4. CASE UNCHANGED vars
  BY <1>0, <1>4 DEF vars, TypeOK
<1> QED BY <1>1, <1>2, <1>3, <1>4, ServiceType, CableType DEF Next

\* What the service read last and decided on is kept by every step: a move of
\* the cable and a start of the service set `moved', and only the end of a
\* decision makes the service rest.
LEMMA SeenStep == IndInv /\ [Next]_vars => NowIsCurrent' /\ DecidedOnNow'
<1> SUFFICES ASSUME IndInv, [Next]_vars PROVE NowIsCurrent' /\ DecidedOnNow'
  OBVIOUS
<1> USE DEF IndInv, TypeOK, SvcType, NowIsCurrent, DecidedOnNow
<1>1. CASE Poll
  BY <1>1 DEF Poll, Presence, Running
<1>2. CASE \/ DecideOnPartner \/ DecideOnRole \/ set_device \/ BindRound \/ ProbeEnd
           \/ UnbindForHost
  BY <1>2 DEF DecideOnPartner, DecideOnRole, set_device, BindRound, ProbeEnd, UnbindForHost,
     Goto, Presence, Running
<1>3. CASE BindEnd \/ ProbeRound \/ set_host
  BY <1>3 DEF BindEnd, ProbeRound, set_host, Decided, Presence, Running
<1>4. CASE Restart \/ Cable
  BY <1>4 DEF Restart, Cable, Plug, Unplug, SwapAsleep
<1>5. CASE Sleep \/ Kernel \/ UNCHANGED vars
  BY <1>5 DEF Sleep, HookSave, HookUnbind, Suspend, Wake, HookRestore, Kernel, UdcUp, Configure,
     Presence, vars
<1> QED BY <1>1, <1>2, <1>3, <1>4, <1>5 DEF Next, Service

\* The inductive invariant holds in every reachable state of the service.
THEOREM Invariance == Spec => []IndInv
<1>1. Init => IndInv
  <2> SUFFICES ASSUME Init PROVE IndInv
    OBVIOUS
  <2>1. usb \in UsbType /\ port \in PortType
    BY DEF Init, UsbType, PortType
  <2>2. svc \in SvcType /\ hook \in HookType /\ left \in LeftType /\ moved = TRUE
    BY RoleAssumption DEF Init, SvcType, HookType, LeftType
  <2> QED BY <2>1, <2>2 DEF IndInv, TypeOK, NowIsCurrent, DecidedOnNow
<1>2. IndInv /\ [Next]_vars => IndInv'
  BY TypeStep, SeenStep DEF IndInv
<1> QED BY <1>1, <1>2, PTL DEF Spec

\* Every variable of the role service, the hook and the port keeps its type.
THEOREM TypeCorrect == Spec => []TypeOK
<1>1. IndInv => TypeOK
  BY DEF IndInv
<1> QED BY <1>1, Invariance, PTL

\* c20e-usb-role decides only after the cable was moved or the service was
\* started, so a port that is left alone never flaps.
THEOREM NoFlap == Spec => DecideOnlyOnChange
<1> DEFINE A == svc.pc = "poll" /\ svc'.pc = "decide" => moved
<1>1. ASSUME IndInv, [Next]_vars PROVE A
  <2> SUFFICES ASSUME svc.pc = "poll", svc'.pc = "decide" PROVE moved
    OBVIOUS
  <2> USE <1>1 DEF IndInv, TypeOK, SvcType
  <2>1. CASE Poll
    BY <2>1 DEF Poll, NowIsCurrent, DecidedOnNow
  <2>2. CASE Service /\ ~Poll
    BY <2>2 DEF Service, DecideOnPartner, DecideOnRole, set_device, BindRound, BindEnd,
       ProbeRound, ProbeEnd, UnbindForHost, set_host, Running
  <2>3. CASE Restart
    BY <2>3 DEF Restart
  <2>4. CASE Sleep \/ Kernel \/ Cable \/ UNCHANGED vars
    BY <2>4 DEF Sleep, HookSave, HookUnbind, Suspend, Wake, HookRestore, Kernel, UdcUp,
       Configure, Cable, Plug, Unplug, SwapAsleep, vars
  <2> QED BY <2>1, <2>2, <2>3, <2>4 DEF Next
<1>2. IndInv /\ [Next]_vars => [A]_vars
  BY <1>1
<1>3. Spec => [][A]_vars
  BY <1>2, Invariance, PTL DEF Spec
<1> QED BY <1>3 DEF DecideOnlyOnChange
-----------------------------------------------------------------------------
(* The console of a computer.  The proof needs to know how the service     *)
(* got where it is: a computer that is attached while the gadget is        *)
(* released or the mode changed must be one the service has not found.     *)

\* The condition ConsoleKept puts on the time: nothing was left to chance yet.
Quiet == left.sleeps = MaxSleeps /\ left.swaps = MaxSwaps /\ left.slow = MaxSlow

\* The budgets only shrink, so what is quiet now has been quiet all along.
BudgetsBounded == left.sleeps <= MaxSleeps /\ left.swaps <= MaxSwaps /\ left.slow <= MaxSlow

\* husb320 shows the role it gave the tablet for the partner.
RoleFitsPartner == port.partner # "none" => port.role = DataRole(port.partner)

\* A controller in host mode has no UDC.
UdcNeedsDevice == usb.udc => usb.mode = "device"

\* Only a computer configures the gadget, and only a gadget that is bound.
ConsoleIsReal == usb.configured => port.partner = "laptop" /\ usb.udc /\ usb.bound

\* A quiet time is one before the first suspend.
HookRests == Quiet => hook.pc = "awake"

\* decide has found a partner and is past its first test.
Deciding ==
  \/ svc.pc \in {"role", "probe", "set_host", "host"}
  \/ svc.pc \in {"set_device", "bind"} /\ svc.then = "probe"

\* The partner decide has found is not one the loop had read.
CableRests == Quiet /\ Deciding /\ svc.now = "absent" => port.partner # "none"

\* A computer is never on its way to host mode: the bind loop ends with the
\* gadget bound, and no round of the probe loop is the last.
ComputerFound ==
  Quiet /\ port.partner = "laptop" =>
    /\ svc.pc \notin {"set_host", "host"}
    /\ svc.pc = "bind" /\ svc.then = "probe" =>
         usb.mode = "device" /\ (svc.n = 0 => usb.udc /\ usb.bound)
    /\ svc.pc = "probe" => usb.udc /\ usb.bound /\ svc.n > 0

ConsoleInv ==
  /\ BudgetsBounded /\ RoleFitsPartner /\ UdcNeedsDevice /\ ConsoleIsReal
  /\ HookRests /\ CableRests /\ ComputerFound

\* A step spends from at most one budget and gives nothing back.
LEMMA QuietBefore ==
  ASSUME TypeOK, BudgetsBounded, [Next]_vars
  PROVE  BudgetsBounded' /\ (Quiet' => Quiet /\ UNCHANGED <<left.sleeps, left.swaps, left.slow>>)
<1>0. left \in LeftType
  BY DEF TypeOK
<1>1. \/ left' = left
      \/ left' = [left EXCEPT !.swaps = @ - 1]
      \/ left' = [left EXCEPT !.slow = @ - 1]
      \/ left' = [left EXCEPT !.fails = @ - 1]
      \/ left' = [left EXCEPT !.kills = @ - 1]
      \/ left' = [left EXCEPT !.sleeps = @ - 1]
  <2>1. CASE Service
    BY <2>1 DEF Service, Poll, DecideOnPartner, DecideOnRole, set_device, BindRound, BindEnd,
       ProbeRound, ProbeEnd, UnbindForHost, set_host
  <2>2. CASE Restart
    BY <2>2 DEF Restart
  <2>3. CASE Sleep
    BY <2>3 DEF Sleep, HookSave, HookUnbind, Suspend, Wake, HookRestore
  <2>4. CASE Kernel
    BY <2>4 DEF Kernel, UdcUp, Configure
  <2>5. CASE Cable
    BY <2>5 DEF Cable, Plug, Unplug, SwapAsleep, Seen
  <2>6. CASE UNCHANGED vars
    BY <2>6 DEF vars
  <2> QED BY <2>1, <2>2, <2>3, <2>4, <2>5, <2>6 DEF Next
<1> QED BY <1>0, <1>1, RoleAssumption DEF LeftType, BudgetsBounded, Quiet

\* What the controller and the port do by themselves, at any time.
LEMMA ConsoleStep ==
  ASSUME TypeOK, RoleFitsPartner, UdcNeedsDevice, ConsoleIsReal, [Next]_vars
  PROVE  RoleFitsPartner' /\ UdcNeedsDevice' /\ ConsoleIsReal'
<1> USE DEF TypeOK, UsbType, PortType, RoleFitsPartner, UdcNeedsDevice, ConsoleIsReal
<1>1. CASE Service
  <2>1. port' = port
    BY <1>1 DEF Service, Poll, DecideOnPartner, DecideOnRole, set_device, BindRound, BindEnd,
       ProbeRound, ProbeEnd, UnbindForHost, set_host
  <2>2. \/ usb' = usb
        \/ usb' = SetMode(usb, "device") \/ usb' = SetMode(usb, "host")
        \/ usb' = Unbind(usb)
        \/ usb' = [usb EXCEPT !.bound = TRUE]
    BY <1>1 DEF Service, Poll, DecideOnPartner, DecideOnRole, set_device, BindRound, BindEnd,
       ProbeRound, ProbeEnd, UnbindForHost, set_host
  <2> QED BY <2>1, <2>2 DEF SetMode, Unbind
<1>2. CASE Sleep
  <2>1. port' = port
    BY <1>2 DEF Sleep, HookSave, HookUnbind, Suspend, Wake, HookRestore
  <2>2. usb' = usb \/ usb' = Unbind(usb) \/ usb' = [usb EXCEPT !.bound = TRUE]
    BY <1>2 DEF Sleep, HookSave, HookUnbind, Suspend, Wake, HookRestore
  <2> QED BY <2>1, <2>2 DEF Unbind
<1>3. CASE Kernel
  BY <1>3 DEF Kernel, UdcUp, Configure, Configurable
<1>4. CASE Cable
  <2>1. ASSUME NEW p \in Partners, Plug(p)
        PROVE  RoleFitsPartner' /\ UdcNeedsDevice' /\ ConsoleIsReal'
    BY <2>1 DEF Plug, SetMode
  <2>2. ASSUME NEW p \in Partners, SwapAsleep(p)
        PROVE  RoleFitsPartner' /\ UdcNeedsDevice' /\ ConsoleIsReal'
    <3>1. /\ port' = [partner |-> p, role |-> DataRole(p)]
          /\ ~usb'.configured
          /\ usb'.udc => usb'.mode = "device"
      BY <2>2 DEF SwapAsleep, SetMode
    <3> QED BY <3>1
  <2>3. CASE Unplug
    <3>1. port'.partner = "none" /\ ~usb'.configured /\ (usb'.udc => usb'.mode = "device")
      BY <2>3 DEF Unplug, SetMode
    <3> QED BY <3>1
  <2> QED BY <1>4, <2>1, <2>2, <2>3 DEF Cable
<1>5. CASE Restart \/ UNCHANGED vars
  BY <1>5 DEF Restart, vars
<1> QED BY <1>1, <1>2, <1>3, <1>4, <1>5 DEF Next

\* While it is quiet the cable rests once decide has found a partner: only a
\* poll that saw the partner lets it go, and only one that saw none lets
\* another come.
LEMMA CableStep ==
  ASSUME TypeOK, Quiet, HookRests, CableRests, Cable, Quiet'
  PROVE  /\ hook' = hook /\ svc' = svc
         /\ \/ /\ port.partner = "none" /\ svc.now = "absent" /\ ~Deciding
            \/ /\ port.partner # "none" /\ svc.now = "present" /\ port'.partner = "none"
<1>0. left \in LeftType /\ port \in PortType
  BY DEF TypeOK
<1>1. left.swaps > 0 /\ left' = [left EXCEPT !.swaps = @ - 1] => FALSE
  BY <1>0 DEF Quiet, LeftType
<1>2. ASSUME NEW p \in Partners, Plug(p)
      PROVE  hook' = hook /\ svc' = svc /\ port.partner = "none" /\ svc.now = "absent"
  BY <1>1, <1>2 DEF Plug, Seen
<1>3. ASSUME NEW p \in Partners, SwapAsleep(p) PROVE FALSE
  BY <1>3 DEF SwapAsleep, HookRests
<1>4. CASE Unplug
  <2>1. hook' = hook /\ svc' = svc /\ port.partner # "none" /\ svc.now = "present"
    BY <1>1, <1>4 DEF Unplug, Seen
  <2>2. port'.partner = "none"
    BY <1>4 DEF Unplug
  <2> QED BY <2>1, <2>2
<1> QED BY <1>2, <1>3, <1>4 DEF Cable, CableRests

\* No step of a quiet time suspends, lets go a partner decide has found while
\* it was not the one it read, or leads a computer towards host mode.
LEMMA QuietStep ==
  ASSUME TypeOK, ConsoleInv, [Next]_vars, Quiet, Quiet'
  PROVE  hook'.pc = "awake" /\ CableRests' /\ ComputerFound'
<1> USE DEF TypeOK, SvcType, ConsoleInv
<1>0. hook.pc = "awake"
  BY DEF HookRests
<1>1. CASE Cable
  <2> USE <1>1, CableStep
  <2>1. Deciding' = Deciding
    BY DEF Deciding
  <2> QED BY <1>0, <2>1 DEF CableRests, ComputerFound, Deciding
<1>2. CASE Restart
  BY <1>0, <1>2 DEF Restart, CableRests, ComputerFound, Deciding
<1>3. CASE Sleep
  <2>1. left \in LeftType
    OBVIOUS
  <2> QED BY <1>0, <1>3, <2>1 DEF Sleep, HookSave, HookUnbind, Suspend, Wake, HookRestore, Quiet, LeftType
<1>4. CASE Kernel
  <2>1. port' = port /\ svc' = svc /\ hook' = hook /\ (usb.udc => usb'.udc)
        /\ usb'.bound = usb.bound /\ usb'.mode = usb.mode
    BY <1>4 DEF Kernel, UdcUp, Configure, UsbType
  <2> QED BY <1>0, <2>1 DEF CableRests, ComputerFound, Deciding
<1>5. CASE UNCHANGED vars
  BY <1>0, <1>5 DEF vars, CableRests, ComputerFound, Deciding
<1>6. CASE Service
  <2>0. port' = port /\ hook' = hook
    BY <1>6 DEF Service, Poll, DecideOnPartner, DecideOnRole, set_device, BindRound, BindEnd,
       ProbeRound, ProbeEnd, UnbindForHost, set_host
  <2> USE <1>0, <2>0 DEF CableRests, ComputerFound, Deciding, Running
  <2>1. CASE Poll
    BY <2>1 DEF Poll
  <2>2. CASE DecideOnPartner
    BY <2>2 DEF DecideOnPartner, Presence, Goto
  <2>3. CASE DecideOnRole
    BY <2>3 DEF DecideOnRole, Goto, RoleFitsPartner, DataRole
  <2>4. CASE set_device
    <3>1. usb'.mode = "device"
      BY <2>4 DEF set_device, SetMode, UsbType
    <3>2. svc' = [svc EXCEPT !.pc = "bind", !.n = Tries] /\ svc.pc = "set_device"
      BY <2>4 DEF set_device
    <3> QED BY <3>1, <3>2, RoleAssumption
  <2>5. CASE BindRound
    <3>1. svc.pc = "bind" /\ svc' = [svc EXCEPT !.n = @ - 1] /\ svc.n > 0
      BY <2>5 DEF BindRound
    <3>2. usb'.mode = usb.mode
      BY <2>5 DEF BindRound, UsbType
    <3>3. svc.n = 1 /\ usb.mode = "device" => usb'.udc /\ usb'.bound
      BY <2>5 DEF BindRound, UsbType
    <3>4. svc'.n = 0 => svc.n = 1
      BY <3>1
    <3> QED BY <3>1, <3>2, <3>3, <3>4
  <2>6. CASE BindEnd
    <3>1. CASE svc.then = "poll"
      BY <2>6, <3>1 DEF BindEnd, Decided
    <3>2. CASE svc.then = "probe"
      <4>1. /\ svc.pc = "bind" /\ usb' = usb
            /\ svc' = [svc EXCEPT !.pc = "probe", !.n = Probes]
            /\ svc.n = 0 \/ (usb.udc /\ usb.bound)
        BY <2>6, <3>2 DEF BindEnd
      <4>2. svc'.pc = "probe" /\ svc'.n > 0 /\ svc'.now = svc.now
        BY <4>1, RoleAssumption
      <4>3. port.partner = "laptop" => usb'.udc /\ usb'.bound
        BY <3>2, <4>1
      <4> QED BY <3>2, <4>1, <4>2, <4>3
    <3> QED BY <3>1, <3>2
  <2>7. CASE ProbeRound
    <3>1. CASE Decided
      BY <3>1 DEF Decided
    <3>2. CASE ~Decided
      <4>1. /\ svc.pc = "probe" /\ svc.n > 0 /\ ~usb.configured
            /\ svc' = [svc EXCEPT !.n = @ - 1]
            /\ usb' = usb
        BY <2>7, <3>2 DEF ProbeRound
      <4>2. ~TooSlow
        BY <2>7, <3>2 DEF ProbeRound, Quiet, LeftType
      <4>3. port.partner = "laptop" => svc.n # 1
        BY <4>1, <4>2 DEF TooSlow, Configurable
      <4> QED BY <4>1, <4>3
    <3> QED BY <3>1, <3>2
  <2>8. CASE ProbeEnd
    BY <2>8 DEF ProbeEnd, Goto
  <2>9. CASE UnbindForHost
    BY <2>9 DEF UnbindForHost, Goto
  <2>10. CASE set_host
    BY <2>10 DEF set_host, Decided
  <2> QED BY <1>6, <2>1, <2>2, <2>3, <2>4, <2>5, <2>6, <2>7, <2>8, <2>9, <2>10 DEF Service
<1> QED BY <1>1, <1>2, <1>3, <1>4, <1>5, <1>6 DEF Next

\* So the ways to the console's loss are closed in every reachable state.
LEMMA ConsoleInvariance == Spec => []ConsoleInv
<1>1. Init => ConsoleInv
  <2> SUFFICES ASSUME Init PROVE ConsoleInv
    OBVIOUS
  <2>1. BudgetsBounded
    BY RoleAssumption DEF Init, BudgetsBounded
  <2>2. RoleFitsPartner /\ UdcNeedsDevice /\ ConsoleIsReal
    BY DEF Init, RoleFitsPartner, UdcNeedsDevice, ConsoleIsReal
  <2>3. svc.pc = "poll" /\ hook.pc = "awake"
    BY DEF Init
  <2>4. HookRests /\ CableRests /\ ComputerFound
    BY <2>3 DEF HookRests, CableRests, Deciding, ComputerFound
  <2> QED BY <2>1, <2>2, <2>4 DEF ConsoleInv
<1>2. TypeOK /\ ConsoleInv /\ [Next]_vars => ConsoleInv'
  <2> SUFFICES ASSUME TypeOK, ConsoleInv, [Next]_vars PROVE ConsoleInv'
    OBVIOUS
  <2>1. BudgetsBounded' /\ (Quiet' => Quiet)
    BY QuietBefore DEF ConsoleInv
  <2>2. RoleFitsPartner' /\ UdcNeedsDevice' /\ ConsoleIsReal'
    BY ConsoleStep DEF ConsoleInv
  <2>3. HookRests' /\ CableRests' /\ ComputerFound'
    <3>1. CASE Quiet'
      BY <2>1, <3>1, QuietStep DEF HookRests
    <3>2. CASE ~Quiet'
      BY <3>2 DEF HookRests, CableRests, ComputerFound
    <3> QED BY <3>1, <3>2
  <2> QED BY <2>1, <2>2, <2>3 DEF ConsoleInv
<1> QED BY <1>1, <1>2, TypeCorrect, PTL DEF Spec

\* c20e-usb-role never takes the console from a computer that configured it in
\* time and stays attached, at whatever step it is killed and decides anew.
THEOREM ConsoleStays == Spec => ConsoleKept
<1> DEFINE A == /\ left.sleeps = MaxSleeps /\ left.swaps = MaxSwaps /\ left.slow = MaxSlow
                /\ usb.configured /\ port' = port
                => usb'.configured
<1>1. ASSUME TypeOK, ConsoleInv, [Next]_vars PROVE A
  <2> SUFFICES ASSUME Quiet, usb.configured, port' = port PROVE usb'.configured
    BY DEF Quiet
  <2> USE <1>1 DEF TypeOK, UsbType, ConsoleInv
  <2>0. port.partner = "laptop" /\ usb.udc /\ usb.mode = "device" /\ hook.pc = "awake"
    BY DEF ConsoleIsReal, UdcNeedsDevice, HookRests
  <2>1. svc.pc \notin {"set_host", "host"}
    BY <2>0 DEF ComputerFound
  <2>2. CASE Service
    BY <2>0, <2>1, <2>2 DEF Service, Poll, DecideOnPartner, DecideOnRole, set_device, BindRound,
       BindEnd, ProbeRound, ProbeEnd, UnbindForHost, set_host, Running, SetMode
  <2>3. CASE Sleep
    BY <2>0, <2>3 DEF Sleep, HookSave, HookUnbind, Suspend, Wake, HookRestore
  <2>4. CASE Kernel
    BY <2>4 DEF Kernel, UdcUp, Configure
  <2>5. CASE Cable
    <3>1. port'.partner # port.partner
      BY <2>0, <2>5 DEF Cable, Plug, Unplug, SwapAsleep
    <3> QED BY <3>1
  <2>6. CASE Restart \/ UNCHANGED vars
    BY <2>6 DEF Restart, vars
  <2> QED BY <2>2, <2>3, <2>4, <2>5, <2>6 DEF Next
<1>2. TypeOK /\ ConsoleInv /\ [Next]_vars => [A]_vars
  BY <1>1
<1>3. Spec => [][A]_vars
  BY <1>2, TypeCorrect, ConsoleInvariance, PTL DEF Spec
<1> QED BY <1>3 DEF ConsoleKept
=============================================================================
