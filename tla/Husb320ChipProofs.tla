------------------------- MODULE Husb320ChipProofs -------------------------
(***************************************************************************)
(* The HUSB320 driver against its controller: what the driver believes of  *)
(* the connection and of PORT_ROLE is what the controller has, for every   *)
(* connector, every set of partners and every set of failing calls.        *)
(***************************************************************************)
EXTENDS Husb320Proofs

\* The controller reports an orientation only for an attached port.
CcOK(c) == c.kind = "unattached" => c.cc = "none"

\* A cleanup that succeeded has reset the orientation switch.
OrientClean(h) == h.state = "unattached" /\ h.state_valid => h.orientation = "none"

Synced == husb.state = chip.kind /\ husb.orientation = chip.cc

\* What an update has read is still so, or an interrupt says it is not.
SeenFresh ==
  \/ chip.ints # {}
  \/ seen.attached = (chip.kind # "unattached") /\ seen.cc = chip.cc

\* The connection: no obligation while the interrupt thread is between its
\* acknowledgement and its first read, since it will read after clearing.
TrackInv ==
  /\ plug.kind = "unattached" => plug.cc = "none"
  /\ CcOK(chip)
  /\ ~Undone => OrientClean(husb)
  /\ step \in {"irq_type", "probe_type"} => SeenFresh
  /\ step = "free" /\ life \in {"unmask", "bound"} /\ ~husb.shutting_down =>
       Synced \/ chip.ints # {}

\* PORT_ROLE of a controller that hw_init has set up.
RoleOf(h, c) ==
  /\ c.role = h.port_type
  /\ c.try = husb320_try_role(h.port_type, h.preferred_role)

RoleInv ==
  ~husb.shutting_down /\ life \in {"register", "request_irq", "update", "unmask", "bound"} =>
    RoleOf(husb, chip)

ChipInv == TrackInv /\ RoleInv
-----------------------------------------------------------------------------
(* husb320_disconnect returns 0 only with the orientation switch reset. *)
LEMMA DisconnectOrientation ==
  ASSUME NEW h \in HusbType, NEW f, NoBoost(h)
  PROVE  OrientClean(husb320_disconnect(h, f))
<1> DEFINE b == husb320_set_vbus(h, FALSE, f)
           v == husb320_set_mode(b, "safe", f)
           bad == set_orientation_fails(h, "none", f)
           ok == ~ \/ set_vbus_fails(h, FALSE, f)
                   \/ set_role_fails(f)
                   \/ set_mode_fails(h, "safe", f)
                   \/ bad
           ur == IF set_role_fails(f) THEN v.usb_role ELSE "none"
           ori == IF bad THEN v.orientation ELSE "none"
           w == [v EXCEPT !.usb_role = ur, !.partner = "null", !.orientation = ori,
                          !.state = "unattached", !.state_valid = ok]
           d == husb320_disconnect(h, f)
<1>1. b \in HusbType
  BY SetVbus
<1> HIDE DEF b
<1>2. v \in HusbType
  BY <1>1, SetMode
<1>3. d = husb320_set_unattached_roles(w)
  BY DEF husb320_disconnect, b
<1>4. ok => ori = "none"
  OBVIOUS
<1> HIDE DEF v, d
<1>5. ur \in {"none", "host", "device"} /\ ori \in {"none", "normal", "reverse"} /\ ok \in BOOLEAN
  BY <1>2 DEF HusbType
<1> HIDE DEF ur, ori, ok
<1>6. w \in HusbType
  BY <1>2, <1>5, ReleasedStruct
<1>7. w.state_valid = ok /\ w.orientation = ori
  BY <1>2 DEF HusbType
<1> HIDE DEF w
<1>8. d.orientation = w.orientation /\ d.state_valid = w.state_valid
  <2>1. d.orientation = w.orientation
    BY <1>3, <1>6 DEF husb320_set_unattached_roles, HusbType
  <2>2. d.state_valid = w.state_valid
    BY <1>3, <1>6, UnattachedRoles
  <2> QED BY <2>1, <2>2
<1>9. OrientClean(d)
  BY <1>4, <1>7, <1>8 DEF OrientClean
<1> QED BY <1>9 DEF d

(* The attached half of husb320_apply_state returns 0 with the orientation   *)
(* it was given.                                                             *)
LEMMA AttachedOrientation ==
  ASSUME NEW h \in HusbType, NEW s \in Attached,
         NEW o \in {"none", "normal", "reverse"}, NEW f, NoBoost(h)
  PROVE  LET r == apply_attached(h, s, o, f)
         IN  r.ok => r.h.orientation = o
<1> DEFINE role == husb320_state_usb_role(s)
           mode == husb320_state_mode(s)
           pwr == husb320_state_power_role(s)
           acc == husb320_state_accessory(s)
           on == s = "source"
           h1 == [h EXCEPT !.orientation = o]
           h2 == husb320_set_vbus(h1, on, f)
           h3 == [h2 EXCEPT !.usb_role = role]
           h4 == husb320_set_mode(h3, mode, f)
           data == CASE role = "host" -> "host" [] role = "device" -> "device"
                     [] OTHER -> h4.data_role
           h5 == [h4 EXCEPT !.data_role = data, !.pwr_role = pwr]
           par == IF h5.partner = "null" THEN acc ELSE h5.partner
           h6 == [h5 EXCEPT !.partner = par, !.state = s, !.state_valid = TRUE]
           r == apply_attached(h, s, o, f)
           Oriented(x) == x \in HusbType /\ x.orientation = o
<1>0. /\ role \in {"none", "host", "device"} /\ mode \in {"safe", "usb", "audio", "debug"}
      /\ pwr \in {"source", "sink"} /\ acc \in {"plain", "debug", "audio"}
  BY StateOperators
<1>r. r.ok => r.h = h6
  BY DEF apply_attached, Fail, Done
<1>n. on \in BOOLEAN
  OBVIOUS
<1>1. Oriented(h1) /\ NoBoost(h1)
  BY DEF HusbType, NoBoost
<1> HIDE DEF h1, on, role, mode, pwr, acc, r
<1>2. Oriented(h2)
  <2>1. h2 \in HusbType
    BY <1>1, <1>n, SetVbus
  <2>2. h2.orientation = h1.orientation
    BY <1>1, <1>n DEF husb320_set_vbus, HusbType
  <2> QED BY <1>1, <2>1, <2>2
<1> HIDE DEF h2
<1>3. Oriented(h3)
  BY <1>0, <1>2 DEF HusbType
<1> HIDE DEF h3
<1>4. Oriented(h4)
  <2>1. h4 \in HusbType
    BY <1>0, <1>3, SetMode
  <2>2. h4.orientation = h3.orientation
    BY <1>0, <1>3 DEF husb320_set_mode, HusbType
  <2> QED BY <1>3, <2>1, <2>2
<1> HIDE DEF h4
<1>d. data \in {"host", "device"}
  BY <1>4 DEF HusbType
<1> HIDE DEF data
<1>5. Oriented(h5)
  <2>1. h5 \in HusbType
    BY <1>0, <1>4, <1>d, RolesTyped
  <2>2. h5.orientation = h4.orientation
    BY <1>4 DEF HusbType
  <2> QED BY <1>4, <2>1, <2>2
<1> HIDE DEF h5, par
<1>6. h6.orientation = o
  BY <1>5 DEF HusbType
<1> QED BY <1>r, <1>6 DEF r

(* husb320_apply_state of a clean struct returns 0 with the orientation of   *)
(* the new state: "none" for unattached, the one it was given otherwise.     *)
LEMMA ApplyOrientation ==
  ASSUME NEW h \in HusbType, NEW s \in States,
         NEW o \in {"none", "normal", "reverse"}, NEW fd, NEW fa,
         NoBoost(h), OrientClean(h), s = "unattached" => o = "none"
  PROVE  LET r == husb320_apply_state(h, s, o, fd, fa)
         IN  r.ok => r.h.orientation = o
<1> DEFINE r == husb320_apply_state(h, s, o, fd, fa)
           d == husb320_disconnect(h, fd)
<1>1. d \in HusbType /\ NoBoost(d) /\ d.state = "unattached" /\ OrientClean(d)
  BY Disconnect, DisconnectOrientation
<1> HIDE DEF d
<1>2. \/ s = "unattached" /\ already_unattached(h) /\ r = Done(h)
      \/ s = "unattached" /\ r = [h |-> d, ok |-> d.state_valid]
      \/ s # "unattached" /\ r = apply_attached(d, s, o, fa)
      \/ r = Fail(d)
      \/ s # "unattached" /\ r = apply_attached(h, s, o, fa)
  BY DEF husb320_apply_state, d
<1> HIDE DEF r
<1>3. CASE s = "unattached" /\ already_unattached(h) /\ r = Done(h)
  BY <1>3 DEF already_unattached, OrientClean, Done, r
<1>4. CASE s = "unattached" /\ r = [h |-> d, ok |-> d.state_valid]
  BY <1>1, <1>4 DEF OrientClean, r
<1>5. CASE s # "unattached" /\ r = apply_attached(d, s, o, fa)
  <2>1. s \in Attached
    BY <1>5 DEF Attached
  <2>2. r.ok => r.h.orientation = o
    BY <1>1, <1>5, <2>1, AttachedOrientation
  <2> QED BY <2>2 DEF r
<1>6. CASE r = Fail(d)
  BY <1>6 DEF Fail, r
<1>7. CASE s # "unattached" /\ r = apply_attached(h, s, o, fa)
  <2>1. s \in Attached
    BY <1>7 DEF Attached
  <2>2. r.ok => r.h.orientation = o
    BY <1>7, <2>1, AttachedOrientation
  <2> QED BY <2>2 DEF r
<1> QED BY <1>2, <1>3, <1>4, <1>5, <1>6, <1>7

(* What the register writes do to the connection and to PORT_ROLE.           *)
LEMMA ChipEffects ==
  ASSUME NEW c \in ChipType, CcOK(c), NEW f
  PROVE  /\ /\ Dropped(c).kind = "unattached" /\ Dropped(c).cc = "none"
            /\ Dropped(c).role = c.role /\ Dropped(c).try = c.try
         /\ /\ CcOK(husb320_hw_disable(c, f))
            /\ husb320_hw_disable(c, f).role = c.role /\ husb320_hw_disable(c, f).try = c.try
         /\ CcOK(husb320_set_sink_mode(c, f))
<1> DEFINE x == Dropped(c)
           m == [c EXCEPT !.masked = TRUE]
           y == IF "wr_mask" \in f THEN c ELSE m
           dy == Dropped(y)
           dm == Dropped(m)
           z == [dm EXCEPT !.role = "snk", !.try = "no_pref"]
<1>1. ASSUME NEW q \in ChipType
      PROVE  /\ Dropped(q) \in ChipType
             /\ Dropped(q).kind = "unattached" /\ Dropped(q).cc = "none"
             /\ Dropped(q).role = q.role /\ Dropped(q).try = q.try
  BY ChipWrites DEF Dropped, ChipType
<1>2. m \in ChipType /\ m.kind = c.kind /\ m.cc = c.cc /\ m.role = c.role /\ m.try = c.try
  BY DEF ChipType
<1> HIDE DEF m
<1>3. y \in ChipType /\ y.kind = c.kind /\ y.cc = c.cc /\ y.role = c.role /\ y.try = c.try
  BY <1>2
<1> HIDE DEF y
<1>4. /\ dy \in ChipType /\ dy.kind = "unattached" /\ dy.cc = "none"
      /\ dy.role = c.role /\ dy.try = c.try
      /\ dm \in ChipType /\ dm.kind = "unattached" /\ dm.cc = "none"
  BY <1>1, <1>2, <1>3
<1> HIDE DEF dy, dm
<1>5. husb320_hw_disable(c, f) = IF "wr_enable" \in f THEN y ELSE [dy EXCEPT !.enabled = FALSE]
  BY DEF husb320_hw_disable, y, dy, m
<1>6. /\ CcOK(husb320_hw_disable(c, f))
      /\ husb320_hw_disable(c, f).role = c.role /\ husb320_hw_disable(c, f).try = c.try
  BY <1>3, <1>4, <1>5 DEF CcOK, ChipType
<1>7. z \in ChipType /\ z.kind = "unattached" /\ z.cc = "none"
  BY <1>4 DEF ChipType, PortTypes, PrefRoles
<1>8. husb320_set_sink_mode(c, f) =
        IF "wr_mask" \in f THEN c
        ELSE IF "wr_role" \in f THEN m
        ELSE IF "wr_enable" \in f THEN z ELSE [z EXCEPT !.enabled = TRUE]
  BY DEF husb320_set_sink_mode, m, dm, z
<1> HIDE DEF z
<1>9. CcOK(husb320_set_sink_mode(c, f))
  BY <1>2, <1>7, <1>8 DEF CcOK, ChipType
<1> QED BY <1>1, <1>6, <1>9

(* A write of PORT_ROLE drops the connection and stores the two fields.      *)
LEMMA RoleWrite ==
  ASSUME NEW c \in ChipType, NEW t \in PortTypes, NEW p \in PrefRoles
  PROVE  LET w == WritePortRole(c, t, p)
         IN  /\ w \in ChipType
             /\ w.kind = "unattached" /\ w.cc = "none"
             /\ w.role = t /\ w.try = husb320_try_role(t, p)
<1> DEFINE x == Dropped(c)
<1>1. x \in ChipType /\ x.kind = "unattached" /\ x.cc = "none"
  BY ChipWrites DEF Dropped, ChipType
<1>2. WritePortRole(c, t, p) = [x EXCEPT !.role = t, !.try = husb320_try_role(t, p)]
  BY DEF WritePortRole
<1>3. WritePortRole(c, t, p) \in ChipType
  BY ChipWrites
<1> HIDE DEF x
<1> QED BY <1>1, <1>2, <1>3 DEF ChipType

(* A recovery that does not give up leaves both sides without a connection,  *)
(* and PORT_ROLE alone.                                                      *)
LEMMA RecoveryTracks ==
  ASSUME TypeOK, NoBoost(husb), CcOK(chip), NEW f
  PROVE  LET r == Recovered(f)
         IN  /\ r.c \in ChipType /\ CcOK(r.c)
             /\ r.c.role = chip.role /\ r.c.try = chip.try
             /\ OrientClean(r.h)
             /\ ~r.h.shutting_down =>
                  /\ r.h.state = "unattached" /\ r.h.orientation = "none"
                  /\ r.c.kind = "unattached" /\ r.c.cc = "none"
                  /\ r.h.port_type = husb.port_type
                  /\ r.h.preferred_role = husb.preferred_role
                  /\ ~husb.shutting_down
<1> DEFINE d == husb320_disconnect(husb, f)
           e == [d EXCEPT !.shutting_down = TRUE]
           c == IF "wr_manual" \in f THEN chip ELSE Dropped(chip)
           k == husb320_hw_disable(c, f)
<1>1. husb \in HusbType /\ chip \in ChipType
  BY DEF TypeOK
<1>2. /\ d \in HusbType /\ OrientClean(d) /\ d.state = "unattached"
      /\ d.shutting_down = husb.shutting_down
      /\ d.port_type = husb.port_type /\ d.preferred_role = husb.preferred_role
  BY <1>1, Disconnect, DisconnectOrientation
<1> HIDE DEF d
<1>3. /\ e.shutting_down /\ e.state = d.state /\ e.state_valid = d.state_valid
      /\ e.orientation = d.orientation
  BY <1>2 DEF HusbType
<1>4. /\ c \in ChipType /\ CcOK(c) /\ c.role = chip.role /\ c.try = chip.try
      /\ "wr_manual" \notin f => c.kind = "unattached" /\ c.cc = "none"
  BY <1>1, ChipWrites, ChipEffects DEF CcOK
<1> HIDE DEF c, e
<1>5. k \in ChipType /\ CcOK(k) /\ k.role = chip.role /\ k.try = chip.try
  BY <1>4, ChipWrites, ChipEffects
<1>6. Recovered(f) = IF d.state_valid /\ "wr_manual" \notin f
                     THEN [h |-> d, c |-> c] ELSE [h |-> e, c |-> k]
  BY DEF Recovered, d, e, c
<1> HIDE DEF k
<1>7. CASE d.state_valid /\ "wr_manual" \notin f
  BY <1>2, <1>4, <1>6, <1>7 DEF OrientClean
<1>8. CASE ~(d.state_valid /\ "wr_manual" \notin f)
  BY <1>2, <1>3, <1>5, <1>6, <1>8 DEF OrientClean
<1> QED BY <1>7, <1>8
-----------------------------------------------------------------------------
(* Nothing is plugged in, and probe has not read anything yet. *)
LEMMA ChipInit == Init => ChipInv
<1> SUFFICES ASSUME Init PROVE ChipInv
  OBVIOUS
<1>1. husb.state_valid = FALSE
  <2>1. PICK pref \in PrefRoles :
          husb = husb320_set_unattached_roles(
           [state |-> "unattached", state_valid |-> FALSE, vbus_on |-> FALSE,
            usb_role |-> "none", connector_mode |-> "safe", mode_valid |-> FALSE,
            partner |-> "null", port_type |-> CapType, preferred_role |-> pref,
            shutting_down |-> FALSE, orientation |-> "none",
            pwr_role |-> "sink", data_role |-> "device"])
    BY DEF Init, PrefRoles
  <2> DEFINE h0 == [state |-> "unattached", state_valid |-> FALSE, vbus_on |-> FALSE,
                    usb_role |-> "none", connector_mode |-> "safe", mode_valid |-> FALSE,
                    partner |-> "null", port_type |-> CapType, preferred_role |-> pref,
                    shutting_down |-> FALSE, orientation |-> "none",
                    pwr_role |-> "sink", data_role |-> "device"]
  <2>2. h0 \in HusbType /\ h0.state_valid = FALSE
    BY ConnectorAssumption DEF HusbType, States
  <2> HIDE DEF h0
  <2>3. husb = husb320_set_unattached_roles(h0)
    BY <2>1 DEF h0
  <2> QED BY <2>2, <2>3, UnattachedRoles
<1> QED BY <1>1 DEF Init, ChipInv, TrackInv, RoleInv, CcOK, OrientClean

(* The cable and the controller: a change of the connection latches a bit.   *)
LEMMA ChipMoves ==
  ASSUME IndInv, ChipInv,
         \/ \E k \in Kinds, cc \in CCs : Plug(k, cc)
         \/ Unplug \/ ChipNotify \/ ChipDetach \/ ChipAttach
  PROVE  ChipInv'
<1>0. chip \in ChipType /\ UNCHANGED <<husb, step, intr, seen, irq, life>>
  BY DEF IndInv, TypeOK, Plug, Unplug, ChipNotify, ChipDetach, ChipAttach
<1>1. CASE UNCHANGED chip
  <2>1. plug'.kind = "unattached" => plug'.cc = "none"
    BY EnvAssumption DEF ChipInv, TrackInv, Plug, Unplug, ChipNotify, ChipDetach, ChipAttach,
                         Attached
  <2> QED BY <1>0, <1>1, <2>1 DEF ChipInv, TrackInv, RoleInv, RoleOf, SeenFresh, Synced, Undone
<1>2. CASE ChipNotify \/ ChipDetach \/ ChipAttach
  <2>1. UNCHANGED plug
    BY <1>2 DEF ChipNotify, ChipDetach, ChipAttach
  <2>2. chip'.ints # {} /\ chip'.role = chip.role /\ chip'.try = chip.try
    <3> DEFINE x == Dropped(chip)
    <3>1. CASE ChipDetach
      <4>1. x \in ChipType /\ x.role = chip.role /\ x.try = chip.try
        BY <1>0, ChipWrites, ChipEffects DEF ChipInv, TrackInv
      <4> HIDE DEF x
      <4>2. chip' = [x EXCEPT !.ints = @ \cup {"detach"}]
        BY <3>1 DEF ChipDetach, x
      <4> QED BY <4>1, <4>2 DEF ChipType
    <3>2. CASE ChipNotify \/ ChipAttach
      BY <1>0, <3>2 DEF ChipNotify, ChipAttach, ChipType
    <3> QED BY <1>2, <3>1, <3>2
  <2>3. CcOK(chip')
    <3>1. CASE ChipNotify
      BY <1>0, <3>1 DEF ChipNotify, ChipType, CcOK, ChipInv, TrackInv
    <3>2. CASE ChipDetach
      <4> DEFINE x == Dropped(chip)
      <4>1. x \in ChipType /\ x.kind = "unattached" /\ x.cc = "none"
        BY <1>0, ChipWrites, ChipEffects DEF ChipInv, TrackInv
      <4> HIDE DEF x
      <4>2. chip' = [x EXCEPT !.ints = @ \cup {"detach"}]
        BY <3>2 DEF ChipDetach, x
      <4> QED BY <4>1, <4>2 DEF ChipType, CcOK
    <3>3. CASE ChipAttach
      BY <1>0, <3>3 DEF ChipAttach, ChipType, CcOK
    <3> QED BY <1>2, <3>1, <3>2, <3>3
  <2> QED BY <1>0, <2>1, <2>2, <2>3 DEF ChipInv, TrackInv, RoleInv, RoleOf, SeenFresh, Undone
<1> QED BY <1>1, <1>2 DEF Plug, Unplug

(* The steps that leave husb alone.  Probe gets a PORT_ROLE from hw_init,    *)
(* and the first read of an update is fresh when it is made.                 *)
LEMMA QuietMoves ==
  ASSUME IndInv, ChipInv,
         \/ IrqEnter \/ ReadStatus \/ husb320_hw_init \/ RegisterPort \/ RequestIrq
         \/ ProbeUpdate \/ ProbeUnmask \/ RemoveFreeIrq \/ ShutdownDisableIrq
  PROVE  ChipInv'
<1>0. /\ husb \in HusbType /\ chip \in ChipType /\ CcOK(chip)
      /\ UNCHANGED <<husb, plug>>
      /\ life \in Stopping => husb.shutting_down
      /\ husb.shutting_down => step \in {"free", "probe_status", "probe_type"}
      /\ step \in {"probe_status", "probe_type"} => life = "update"
      /\ life \in {"hw_init", "register"} => step = "free"
  BY DEF IndInv, TypeOK, Rest, LifeInv, ChipInv, TrackInv, IrqEnter, ReadStatus, husb320_hw_init,
         RegisterPort, RequestIrq, ProbeUpdate, ProbeUnmask, RemoveFreeIrq, ShutdownDisableIrq
<1>1. CASE IrqEnter \/ RequestIrq \/ ProbeUpdate \/ RemoveFreeIrq \/ ShutdownDisableIrq
  BY <1>0, <1>1 DEF IrqEnter, RequestIrq, ProbeUpdate, RemoveFreeIrq, ShutdownDisableIrq,
     ChipInv, TrackInv, RoleInv, RoleOf, SeenFresh, Synced, Undone, Stopping
<1>2. CASE ReadStatus
  <2>1. UNCHANGED chip
    BY <1>2 DEF ReadStatus
  <2>2. step' \in {"irq_type", "probe_type"} => SeenFresh'
    BY <1>2 DEF ReadStatus, SeenFresh
  <2>3. RoleInv'
    BY <1>0, <1>2 DEF ReadStatus, ChipInv, RoleInv, RoleOf
  <2> QED BY <1>0, <1>2, <2>1, <2>2, <2>3 DEF ReadStatus, ChipInv, TrackInv, Undone
<1>3. CASE husb320_hw_init \/ RegisterPort
  <2>1. CcOK(chip')
    <3>1. \A f : CcOK(husb320_hw_disable(chip, f))
      BY <1>0, ChipEffects
    <3>2. CASE husb320_hw_init /\ life' = "register"
      <4> DEFINE w == WritePortRole(chip, husb.port_type, husb.preferred_role)
      <4>1. w \in ChipType /\ w.kind = "unattached" /\ w.cc = "none"
        BY <1>0, RoleWrite DEF HusbType
      <4> HIDE DEF w
      <4>2. chip' = [w EXCEPT !.masked = TRUE, !.enabled = TRUE, !.ints = {}]
        BY <3>2 DEF husb320_hw_init, w
      <4> QED BY <4>1, <4>2 DEF ChipType, CcOK
    <3> QED BY <1>0, <1>3, <3>1, <3>2 DEF husb320_hw_init, RegisterPort
  <2>2. RoleInv'
    <3>1. CASE husb320_hw_init /\ life' = "register"
      <4> DEFINE w == WritePortRole(chip, husb.port_type, husb.preferred_role)
      <4>1. /\ w \in ChipType /\ w.role = husb.port_type
            /\ w.try = husb320_try_role(husb.port_type, husb.preferred_role)
        BY <1>0, RoleWrite DEF HusbType
      <4> HIDE DEF w
      <4>2. chip' = [w EXCEPT !.masked = TRUE, !.enabled = TRUE, !.ints = {}]
        BY <3>1 DEF husb320_hw_init, w
      <4>3. chip'.role = w.role /\ chip'.try = w.try
        BY <4>1, <4>2 DEF ChipType
      <4> QED BY <1>0, <4>1, <4>3 DEF RoleInv, RoleOf
    <3>2. CASE life' = "failed"
      BY <3>2 DEF RoleInv
    <3>3. CASE RegisterPort /\ UNCHANGED chip
      BY <1>0, <3>3 DEF RegisterPort, ChipInv, RoleInv, RoleOf
    <3> QED BY <1>3, <3>1, <3>2, <3>3 DEF husb320_hw_init, RegisterPort
  <2>3. step' = "free" /\ life' \in {"register", "request_irq", "failed"}
        /\ life \in {"hw_init", "register"}
    BY <1>0, <1>3 DEF husb320_hw_init, RegisterPort
  <2> QED BY <1>0, <2>1, <2>2, <2>3 DEF ChipInv, TrackInv, Undone
<1>4. CASE ProbeUnmask
  <2>1. /\ chip'.kind = chip.kind /\ chip'.cc = chip.cc /\ chip'.ints = chip.ints
        /\ chip'.role = chip.role /\ chip'.try = chip.try
    BY <1>0, <1>4 DEF ProbeUnmask, ChipType
  <2> QED BY <1>0, <1>4, <2>1 DEF ProbeUnmask, ChipInv, TrackInv, RoleInv, RoleOf, CcOK, SeenFresh,
       Synced, Undone
<1> QED BY <1>1, <1>2, <1>3, <1>4

(* The acknowledgement, the recoveries and the last cleanups: the driver is  *)
(* on its way to a new read, unconnected on both sides, or has given up.     *)
LEMMA CleanupMoves ==
  ASSUME IndInv, ChipInv,
         \/ IrqAck \/ ErrorRecovery \/ IrqErr \/ ProbeUnregister
         \/ husb320_remove \/ husb320_shutdown
  PROVE  ChipInv'
<1>0. /\ TypeOK /\ husb \in HusbType /\ chip \in ChipType /\ NoBoost(husb) /\ CcOK(chip)
      /\ UNCHANGED plug
  BY DEF IndInv, TypeOK, Rest, ChipInv, TrackInv, IrqAck, ErrorRecovery, IrqErr,
         ProbeUnregister, husb320_remove, husb320_shutdown
<1>1. CASE IrqAck
  <2>1. /\ CcOK(chip') /\ chip'.role = chip.role /\ chip'.try = chip.try
    BY <1>0, <1>1 DEF IrqAck, ChipType, CcOK
  <2>2. /\ step' \in {"irq_status", "irq_err"} /\ step = "irq_ack" /\ UNCHANGED life
        /\ \/ UNCHANGED husb
           \/ \E f : husb' = husb320_disconnect(husb, f)
    BY <1>1 DEF IrqAck
  <2>3. (~Undone' => OrientClean(husb')) /\ RoleInv'
    <3>1. CASE UNCHANGED husb
      BY <2>1, <2>2, <3>1 DEF ChipInv, TrackInv, RoleInv, RoleOf, Undone
    <3>2. CASE \E f : husb' = husb320_disconnect(husb, f)
      <4>1. /\ OrientClean(husb') /\ husb'.shutting_down = husb.shutting_down
            /\ husb'.port_type = husb.port_type
            /\ husb'.preferred_role = husb.preferred_role
        BY <1>0, <3>2, Disconnect, DisconnectOrientation
      <4> QED BY <2>1, <2>2, <4>1 DEF ChipInv, RoleInv, RoleOf
    <3> QED BY <2>2, <3>1, <3>2
  <2> QED BY <1>0, <2>1, <2>2, <2>3 DEF ChipInv, TrackInv
<1>2. CASE ErrorRecovery
  <2>1. PICK f : husb' = Recovered(f).h /\ chip' = Recovered(f).c
    BY <1>2 DEF ErrorRecovery
  <2>2. /\ CcOK(chip') /\ chip'.role = chip.role /\ chip'.try = chip.try
        /\ OrientClean(husb')
        /\ ~husb'.shutting_down =>
             /\ husb'.state = "unattached" /\ husb'.orientation = "none"
             /\ chip'.kind = "unattached" /\ chip'.cc = "none"
             /\ husb'.port_type = husb.port_type
             /\ husb'.preferred_role = husb.preferred_role
             /\ ~husb.shutting_down
    BY <1>0, <2>1, RecoveryTracks
  <2>3. step' = "free" /\ UNCHANGED life
    BY <1>2 DEF ErrorRecovery
  <2> QED BY <1>0, <2>2, <2>3 DEF ChipInv, TrackInv, RoleInv, RoleOf, Synced
<1>3. CASE IrqErr
  <2>1. PICK f, g : /\ husb' = [Recovered(f).h EXCEPT !.shutting_down = TRUE]
                    /\ chip' = husb320_hw_disable(Recovered(f).c, g)
    BY <1>3 DEF IrqErr
  <2> DEFINE h == Recovered(f).h
             c == Recovered(f).c
  <2>2. h \in HusbType /\ OrientClean(h) /\ c \in ChipType /\ CcOK(c)
    BY <1>0, Recovery, RecoveryTracks
  <2> HIDE DEF h, c
  <2>3. husb' = [h EXCEPT !.shutting_down = TRUE] /\ chip' = husb320_hw_disable(c, g)
    BY <2>1 DEF h, c
  <2>4. OrientClean(husb') /\ husb'.shutting_down
    BY <2>2, <2>3 DEF HusbType, OrientClean
  <2>5. CcOK(chip')
    BY <2>2, <2>3, ChipEffects
  <2> QED BY <1>0, <1>3, <2>4, <2>5 DEF IrqErr, ChipInv, TrackInv, RoleInv
<1>4. CASE ProbeUnregister
  <2>1. PICK f : /\ husb' = [husb320_disconnect(husb, f) EXCEPT !.shutting_down = TRUE]
                 /\ chip' = husb320_hw_disable(chip, f)
    BY <1>4 DEF ProbeUnregister
  <2> DEFINE h == husb320_disconnect(husb, f)
  <2>2. h \in HusbType /\ OrientClean(h)
    BY <1>0, Disconnect, DisconnectOrientation
  <2> HIDE DEF h
  <2>3. husb' = [h EXCEPT !.shutting_down = TRUE]
    BY <2>1 DEF h
  <2>4. OrientClean(husb') /\ husb'.shutting_down
    BY <2>2, <2>3 DEF HusbType, OrientClean
  <2>5. CcOK(chip')
    BY <1>0, <2>1, ChipEffects
  <2> QED BY <1>0, <1>4, <2>4, <2>5 DEF ProbeUnregister, ChipInv, TrackInv, RoleInv
<1>5. CASE husb320_remove \/ husb320_shutdown
  <2>1. OrientClean(husb')
    <3>1. PICK f : husb' = husb320_disconnect(husb, f)
      BY <1>5 DEF husb320_remove, husb320_shutdown
    <3> QED BY <1>0, <3>1, DisconnectOrientation
  <2>2. CcOK(chip')
    <3>1. PICK f, g : \/ chip' = husb320_hw_disable(chip, f)
                      \/ chip' = husb320_set_sink_mode(chip, f)
                      \/ chip' = husb320_hw_disable(husb320_set_sink_mode(chip, f), g)
      BY <1>5 DEF husb320_remove, husb320_shutdown
    <3> DEFINE m == husb320_set_sink_mode(chip, f)
    <3>2. m \in ChipType /\ CcOK(m) /\ CcOK(husb320_hw_disable(chip, f))
      BY <1>0, ChipWrites, ChipEffects
    <3> HIDE DEF m
    <3>3. CcOK(husb320_hw_disable(m, g))
      BY <3>2, ChipEffects
    <3> QED BY <3>1, <3>2, <3>3 DEF m
  <2>3. step' = "free" /\ life' \in {"gone", "off"}
    BY <1>5 DEF husb320_remove, husb320_shutdown
  <2> QED BY <1>0, <2>1, <2>2, <2>3 DEF ChipInv, TrackInv, RoleInv
<1> QED BY <1>1, <1>2, <1>3, <1>4, <1>5

(* An accepted port type is in PORT_ROLE at once, with no connection on       *)
(* either side; an accepted preference as far as the port type has one.       *)
LEMMA ClassMoves ==
  ASSUME IndInv, ChipInv,
         \/ \E t \in PortTypes : husb320_port_type_set(t)
         \/ \E r \in PrefRoles : husb320_try_role_set(r)
  PROVE  ChipInv'
<1>0. husb \in HusbType /\ chip \in ChipType /\ NoBoost(husb) /\ husb.preferred_role \in PrefRoles
  BY DEF IndInv, TypeOK, Rest, HusbType
<1>1. ASSUME NEW t \in PortTypes, husb320_port_type_set(t)
      PROVE  ChipInv'
  <2>1. PICK f : LET h == husb320_disconnect(husb, f)
                 IN  IF h.state_valid /\ "wr_role" \notin f
                     THEN /\ husb' = husb320_set_unattached_roles([h EXCEPT !.port_type = t])
                          /\ chip' = WritePortRole(chip, t, husb.preferred_role)
                          /\ UNCHANGED step
                     ELSE husb' = h /\ step' = "recover" /\ UNCHANGED chip
    BY <1>1 DEF husb320_port_type_set
  <2>2. UNCHANGED <<plug, life>> /\ step = "free"
    BY <1>1 DEF husb320_port_type_set
  <2> DEFINE h == husb320_disconnect(husb, f)
             g == [h EXCEPT !.port_type = t]
  <2>3. /\ h \in HusbType /\ OrientClean(h) /\ h.state = "unattached"
        /\ h.shutting_down = husb.shutting_down
        /\ h.port_type = husb.port_type /\ h.preferred_role = husb.preferred_role
    BY <1>0, Disconnect, DisconnectOrientation
  <2> HIDE DEF h
  <2>4. CASE husb' = h /\ step' = "recover" /\ UNCHANGED chip
    BY <2>2, <2>3, <2>4 DEF ChipInv, TrackInv, RoleInv, RoleOf, Undone
  <2>5. CASE /\ h.state_valid /\ husb' = husb320_set_unattached_roles(g) /\ UNCHANGED step
             /\ chip' = WritePortRole(chip, t, husb.preferred_role)
    <3>1. /\ g \in HusbType /\ g.port_type = t /\ g.preferred_role = husb.preferred_role
          /\ g.state = "unattached" /\ g.orientation = "none"
      BY <2>3, <2>5 DEF HusbType, OrientClean
    <3> HIDE DEF g
    <3>2. /\ husb'.port_type = t /\ husb'.preferred_role = husb.preferred_role
          /\ husb'.state = "unattached"
      BY <2>5, <3>1, UnattachedRoles
    <3>3. husb'.orientation = "none"
      BY <2>5, <3>1 DEF husb320_set_unattached_roles, HusbType
    <3>4. /\ chip'.kind = "unattached" /\ chip'.cc = "none"
          /\ chip'.role = t /\ chip'.try = husb320_try_role(t, husb.preferred_role)
      BY <1>0, <2>5, RoleWrite
    <3> QED BY <2>2, <2>5, <3>2, <3>3, <3>4 DEF ChipInv, TrackInv, RoleInv, RoleOf, CcOK, OrientClean,
         Synced
  <2> QED BY <2>1, <2>4, <2>5 DEF h
<1>2. ASSUME NEW r \in PrefRoles, husb320_try_role_set(r)
      PROVE  ChipInv'
  <2>1. /\ UNCHANGED <<plug, step, seen, life>>
        /\ husb' = [husb EXCEPT !.preferred_role = r]
        /\ chip' = [chip EXCEPT !.try = IF husb.port_type = "drp" THEN r ELSE @]
    BY <1>2 DEF husb320_try_role_set
  <2>2. /\ husb'.state = husb.state /\ husb'.state_valid = husb.state_valid
        /\ husb'.orientation = husb.orientation /\ husb'.shutting_down = husb.shutting_down
        /\ husb'.port_type = husb.port_type /\ husb'.preferred_role = r
    BY <1>0, <2>1 DEF HusbType
  <2>3. /\ chip'.kind = chip.kind /\ chip'.cc = chip.cc /\ chip'.ints = chip.ints
        /\ chip'.role = chip.role
        /\ chip'.try = IF husb.port_type = "drp" THEN r ELSE chip.try
    BY <1>0, <2>1 DEF ChipType
  <2>4. TrackInv'
    BY <2>1, <2>2, <2>3 DEF ChipInv, TrackInv, CcOK, OrientClean, SeenFresh, Synced, Undone
  <2>5. RoleInv'
    BY <2>1, <2>2, <2>3 DEF ChipInv, RoleInv, RoleOf, husb320_try_role
  <2> QED BY <2>4, <2>5 DEF ChipInv
<1> QED BY <1>1, <1>2

(* A driver that stops keeps the state it has. *)
LEMMA StopMoves ==
  ASSUME IndInv, ChipInv, ProbeFreeIrq \/ RemoveBegin \/ ShutdownBegin
  PROVE  ChipInv'
<1> USE DEF ProbeFreeIrq, RemoveBegin, ShutdownBegin, StopInterrupts
<1>1. /\ husb'.shutting_down /\ husb'.state = husb.state
      /\ husb'.state_valid = husb.state_valid /\ husb'.orientation = husb.orientation
  BY DEF IndInv, TypeOK, HusbType
<1>2. chip'.kind = chip.kind /\ chip'.cc = chip.cc
  BY DEF IndInv, TypeOK, ChipType
<1>3. UNCHANGED plug /\ step' = "free" /\ step = "free"
  OBVIOUS
<1>4. ~Undone' => ~Undone
  BY DEF Undone
<1> QED BY <1>1, <1>2, <1>3, <1>4 DEF ChipInv, TrackInv, RoleInv, CcOK, OrientClean

(* The second read of an update: with no interrupt pending both reads are    *)
(* of the connection as it is, and that is what a return of 0 has applied.   *)
LEMMA UpdateMoves ==
  ASSUME IndInv, ChipInv, ReadTypeAndApply
  PROVE  ChipInv'
<1> DEFINE s == husb320_get_state(seen, chip.kind)
           o == IF s = "unattached" THEN "none" ELSE seen.cc
<1>0. husb \in HusbType /\ chip \in ChipType /\ NoBoost(husb)
  BY DEF IndInv, TypeOK, Rest
<1>1. /\ s \in States /\ o \in {"none", "normal", "reverse"}
      /\ s = "unattached" => o = "none"
  BY <1>0 DEF husb320_get_state, ChipType, States, IndInv, TypeOK
<1>2. PICK r :
        /\ UpdateReturns(r)
        /\ \/ r = Fail(husb)
           \/ \E fd, fa : r = husb320_apply_state(husb, s, o, fd, fa)
  BY DEF ReadTypeAndApply
<1>3. /\ husb' = r.h /\ UNCHANGED <<chip, plug>>
      /\ step \in {"irq_type", "probe_type"} /\ step' \in {"free", "recover"}
      /\ step = "irq_type" => UNCHANGED life /\ (step' = "free" => r.ok)
      /\ step = "probe_type" => life' \in {"unmask", "fail_irq"} /\ (life' = "unmask" => r.ok)
  BY <1>2 DEF UpdateReturns
<1>4. SeenFresh => (s = chip.kind /\ o = chip.cc) \/ chip.ints # {}
  BY DEF SeenFresh, husb320_get_state, ChipInv, TrackInv, CcOK
<1> HIDE DEF s, o
<1>5. /\ r.h.shutting_down = husb.shutting_down
      /\ r.h.port_type = husb.port_type /\ r.h.preferred_role = husb.preferred_role
  <2>1. CASE r = Fail(husb)
    BY <2>1 DEF Fail
  <2>2. ASSUME NEW fd, NEW fa, r = husb320_apply_state(husb, s, o, fd, fa)
        PROVE  /\ r.h.shutting_down = husb.shutting_down
               /\ r.h.port_type = husb.port_type
               /\ r.h.preferred_role = husb.preferred_role
    BY <1>0, <1>1, <2>2, ApplyState
  <2> QED BY <1>2, <2>1, <2>2
<1>6. ASSUME r.ok, ~Undone
      PROVE  r.h.state = s /\ r.h.orientation = o
  <2>1. PICK fd, fa : r = husb320_apply_state(husb, s, o, fd, fa)
    BY <1>2, <1>6 DEF Fail
  <2>2. Published(husb) /\ OrientClean(husb)
    BY <1>6 DEF IndInv, Rest, Consistent, ChipInv, TrackInv
  <2>3. r.h.state = s
    BY <1>0, <1>1, <1>6, <2>1, <2>2, ApplyState
  <2>4. r.h.orientation = o
    BY <1>0, <1>1, <1>6, <2>1, <2>2, ApplyOrientation
  <2> QED BY <2>3, <2>4
<1>7. ~Undone' => ~Undone /\ r.ok
  <2>1. step = "probe_type" => life = "update"
    BY DEF IndInv, Rest, LifeInv
  <2> QED BY <1>3, <2>1 DEF Undone
<1>8. ~Undone' => OrientClean(husb')
  BY <1>1, <1>3, <1>6, <1>7 DEF OrientClean
<1>9. ~Undone' => Synced' \/ chip'.ints # {}
  BY <1>3, <1>4, <1>6, <1>7 DEF ChipInv, TrackInv, Synced
<1>10. RoleInv'
  <2>1. step = "probe_type" => life = "update"
    BY DEF IndInv, Rest, LifeInv
  <2> QED BY <1>3, <1>5, <2>1 DEF ChipInv, RoleInv, RoleOf
<1> QED BY <1>3, <1>8, <1>9, <1>10 DEF ChipInv, TrackInv, CcOK, Undone
-----------------------------------------------------------------------------
(* Every step keeps the invariant of the driver and its controller. *)
LEMMA ChipNext == IndInv /\ ChipInv /\ [Next]_vars => ChipInv'
<1> SUFFICES ASSUME IndInv, ChipInv, [Next]_vars PROVE ChipInv'
  OBVIOUS
<1>1. CASE UNCHANGED vars
  BY <1>1 DEF vars, ChipInv, TrackInv, RoleInv, RoleOf, CcOK, OrientClean, SeenFresh, Synced, Undone
<1>2. CASE Environment
  BY <1>2, ChipMoves, ClassMoves, StopMoves DEF Environment
<1>3. CASE Controller
  BY <1>3, ChipMoves DEF Controller
<1>4. CASE IrqThread
  BY <1>4, QuietMoves, CleanupMoves DEF IrqThread
<1>5. CASE LockHolder
  BY <1>5, QuietMoves, CleanupMoves, UpdateMoves DEF LockHolder
<1>6. CASE Lifecycle
  BY <1>6, QuietMoves, CleanupMoves, StopMoves DEF Lifecycle
<1> QED BY <1>1, <1>2, <1>3, <1>4, <1>5, <1>6 DEF Next

(* In every reachable state: what an update has read is still true or an     *)
(* interrupt is pending, a cleanup that succeeded has reset the orientation, *)
(* and PORT_ROLE holds the port type and the preference in force.            *)
THEOREM ChipInvariance == Spec => []ChipInv
<1>1. Spec => []IndInv
  BY Invariance
<1> QED BY <1>1, ChipInit, ChipNext, PTL DEF Spec

(* No attach or detach is lost, wherever the cable moves between the reads   *)
(* of INTERRUPT, STATUS and TYPE and whichever calls fail.                   *)
THEOREM NoEventIsLost == Spec => []NoLostEvent
<1>1. ChipInv => NoLostEvent
  BY DEF ChipInv, TrackInv, NoLostEvent, Synced
<1> QED BY <1>1, ChipInvariance, PTL

(* PORT_ROLE holds what port_type_set and try_role_set have accepted.        *)
THEOREM PortRoleSafety == Spec => []PortRoleRegisterAgrees
<1>1. ChipInv => PortRoleRegisterAgrees
  BY DEF ChipInv, RoleInv, RoleOf, PortRoleRegisterAgrees
<1> QED BY <1>1, ChipInvariance, PTL
=============================================================================
