--------------------------- MODULE Husb320Proofs ---------------------------
(***************************************************************************)
(* Proofs about the HUSB320 driver: its safety properties for every kind   *)
(* of connector, every set of partners and every set of failing calls.     *)
(***************************************************************************)
EXTENDS Husb320, TLAPS

(* Struct-level facts the invariant is made of. *)

\* Without a regulator the driver never records VBUS as on.
NoBoost(h) == ~HasVbus => ~h.vbus_on

\* A partner exactly in an attached state, which is then fully applied.
Published(h) ==
  /\ (h.partner # "null") <=> (h.state # "unattached")
  /\ h.state # "unattached" =>
       /\ h.state_valid
       /\ h.partner = husb320_state_accessory(h.state)
       /\ h.usb_role = husb320_state_usb_role(h.state)
       /\ h.mode_valid /\ h.connector_mode = husb320_state_mode(h.state)
       /\ h.pwr_role = husb320_state_power_role(h.state)
       /\ HasVbus => h.vbus_on = (h.state = "source")

\* An unattached port whose cleanup succeeded drives nothing.
CleanedUp(h) ==
  h.state = "unattached" /\ h.state_valid => ~h.vbus_on /\ h.usb_role = "none"

\* The calls of a failed update are undone only by the recovery, or by the
\* error path of probe; everywhere else the struct is consistent.
Consistent(h) == Published(h) /\ CleanedUp(h)

Undone == step = "recover" \/ life \in {"fail_irq", "fail_port"}

Stopping == {"remove_irq", "remove_rest", "gone", "shut_irq", "shut_rest", "off"}

\* Where the lock holder may be once the port is shutting down, and where
\* probe may be while it holds the lock.
LifeInv ==
  /\ husb.shutting_down => step \in {"free", "probe_status", "probe_type"}
  /\ step \in {"probe_status", "probe_type"} => life = "update"
  /\ life \in {"hw_init", "register", "gone", "off", "failed"} => step = "free"
  /\ life \in {"hw_init", "register", "request_irq", "fail_port", "failed"} => irq = "none"
  /\ step \in {"irq_ack", "irq_status", "irq_type", "irq_err"} => irq = "on"
  /\ life \in {"hw_init", "register"} => husb.state = "unattached"
  /\ life \in Stopping => husb.shutting_down

\* An unclean VBUS is on only for a driver that has given up.
VbusInv == Settled /\ husb.vbus_on /\ ~husb.state_valid => husb.shutting_down

\* All of the invariant that speaks of husb, step, irq and life.
Rest ==
  /\ NoBoost(husb)
  /\ ~Undone => Consistent(husb)
  /\ LifeInv
  /\ VbusInv
  /\ StoppedPortIsSafe

IndInv == TypeOK /\ Rest
-----------------------------------------------------------------------------
(* The default roles of every struct are real roles (husb320_default_*_role *)
(* and husb320_set_unattached_roles, which uses them).                      *)
LEMMA DefaultRoles ==
  ASSUME NEW h \in HusbType
  PROVE  /\ husb320_default_power_role(h) \in {"source", "sink"}
         /\ husb320_default_data_role(h) \in {"host", "device"}
<1>1. husb320_default_power_role(h) \in {"source", "sink"}
  BY DEF husb320_default_power_role
<1>2. cap_data \in {"dfp", "ufp", "drd"}
  BY ConnectorAssumption DEF cap_data, PortTypes
<1>3. husb320_default_data_role(h) \in {"host", "device"}
  BY <1>1, <1>2 DEF husb320_default_data_role
<1> QED BY <1>1, <1>3

(* husb320_set_unattached_roles touches the two published roles only. *)
LEMMA UnattachedRoles ==
  ASSUME NEW h \in HusbType
  PROVE  LET r == husb320_set_unattached_roles(h)
         IN  /\ r \in HusbType
             /\ r.state = h.state /\ r.state_valid = h.state_valid
             /\ r.vbus_on = h.vbus_on /\ r.usb_role = h.usb_role
             /\ r.partner = h.partner /\ r.shutting_down = h.shutting_down
             /\ r.port_type = h.port_type /\ r.preferred_role = h.preferred_role
<1> DEFINE r == husb320_set_unattached_roles(h)
<1>1. r \in HusbType
  BY DefaultRoles DEF husb320_set_unattached_roles, HusbType
<1>2. r.state = h.state /\ r.state_valid = h.state_valid
  BY DEF husb320_set_unattached_roles, HusbType
<1> QED BY <1>1, <1>2 DEF husb320_set_unattached_roles, HusbType

(* husb320_set_vbus changes vbus_on only, and sets it unless it fails. *)
LEMMA SetVbus ==
  ASSUME NEW h \in HusbType, NEW e \in BOOLEAN, NEW f, NoBoost(h)
  PROVE  LET r == husb320_set_vbus(h, e, f)
         IN  /\ r \in HusbType
             /\ NoBoost(r)
             /\ ~set_vbus_fails(h, e, f) /\ HasVbus => r.vbus_on = e
             /\ ~e /\ ~h.vbus_on => ~r.vbus_on
             /\ r.state = h.state /\ r.state_valid = h.state_valid
             /\ r.usb_role = h.usb_role
             /\ r.partner = h.partner /\ r.shutting_down = h.shutting_down
             /\ r.port_type = h.port_type /\ r.preferred_role = h.preferred_role
BY ConnectorAssumption DEF husb320_set_vbus, set_vbus_fails, HusbType, NoBoost

(* husb320_set_mode changes the recorded mode only. *)
LEMMA SetMode ==
  ASSUME NEW h \in HusbType, NEW mode \in {"safe", "usb", "audio", "debug"}, NEW f
  PROVE  LET r == husb320_set_mode(h, mode, f)
         IN  /\ r \in HusbType
             /\ ~set_mode_fails(h, mode, f) => r.mode_valid /\ r.connector_mode = mode
             /\ r.vbus_on = h.vbus_on /\ r.usb_role = h.usb_role
             /\ r.state = h.state /\ r.state_valid = h.state_valid
             /\ r.partner = h.partner /\ r.shutting_down = h.shutting_down
             /\ r.port_type = h.port_type /\ r.preferred_role = h.preferred_role
<1>1. CASE set_mode_fails(h, mode, f)
  BY <1>1 DEF husb320_set_mode
<1>2. CASE ~set_mode_fails(h, mode, f)
  <2> DEFINE r == husb320_set_mode(h, mode, f)
  <2>1. r = [h EXCEPT !.connector_mode = mode, !.mode_valid = TRUE]
    BY <1>2 DEF husb320_set_mode
  <2>2. r \in HusbType
    BY <2>1 DEF HusbType
  <2> HIDE DEF r
  <2>3. r.mode_valid /\ r.connector_mode = mode
    BY <2>1 DEF HusbType
  <2>4. /\ r.vbus_on = h.vbus_on /\ r.usb_role = h.usb_role
        /\ r.state = h.state /\ r.state_valid = h.state_valid
        /\ r.partner = h.partner /\ r.shutting_down = h.shutting_down
        /\ r.port_type = h.port_type /\ r.preferred_role = h.preferred_role
    BY <2>1 DEF HusbType
  <2> QED BY <2>2, <2>3, <2>4 DEF r
<1> QED BY <1>1, <1>2

(* What husb320_disconnect writes leaves a well-formed struct. *)
LEMMA ReleasedStruct ==
  ASSUME NEW v \in HusbType, NEW ur \in {"none", "host", "device"},
         NEW ori \in {"none", "normal", "reverse"}, NEW ok \in BOOLEAN
  PROVE  [v EXCEPT !.usb_role = ur, !.partner = "null", !.orientation = ori,
                   !.state = "unattached", !.state_valid = ok] \in HusbType
<1> DEFINE x == [v EXCEPT !.usb_role = ur, !.partner = "null", !.orientation = ori]
<1>1. x \in HusbType
  BY DEF HusbType
<1>2. [v EXCEPT !.usb_role = ur, !.partner = "null", !.orientation = ori,
                !.state = "unattached", !.state_valid = ok]
        = [x EXCEPT !.state = "unattached", !.state_valid = ok]
  OBVIOUS
<1> HIDE DEF x
<1>3. [x EXCEPT !.state = "unattached", !.state_valid = ok] \in HusbType
  BY <1>1 DEF HusbType, States
<1> QED BY <1>2, <1>3

(* husb320_disconnect always ends unattached and without a partner; when it *)
(* returns 0 (state_valid) VBUS and the USB role are released.  It never    *)
(* switches anything on.                                                    *)
LEMMA Disconnect ==
  ASSUME NEW h \in HusbType, NEW f, NoBoost(h)
  PROVE  LET d == husb320_disconnect(h, f)
         IN  /\ d \in HusbType
             /\ NoBoost(d)
             /\ d.state = "unattached" /\ d.partner = "null"
             /\ d.state_valid => ~d.vbus_on /\ d.usb_role = "none"
             /\ ~h.vbus_on => ~d.vbus_on
             /\ d.usb_role \in {h.usb_role, "none"}
             /\ d.shutting_down = h.shutting_down
             /\ d.port_type = h.port_type /\ d.preferred_role = h.preferred_role
<1> DEFINE b == husb320_set_vbus(h, FALSE, f)
           v == husb320_set_mode(b, "safe", f)
           err == \/ set_vbus_fails(h, FALSE, f)
                  \/ set_role_fails(f)
                  \/ set_mode_fails(h, "safe", f)
                  \/ set_orientation_fails(h, "none", f)
           ur == IF set_role_fails(f) THEN v.usb_role ELSE "none"
           ori == IF set_orientation_fails(h, "none", f) THEN v.orientation ELSE "none"
           ok == ~err
           w == [v EXCEPT !.usb_role = ur, !.partner = "null", !.orientation = ori,
                          !.state = "unattached", !.state_valid = ok]
           d == husb320_disconnect(h, f)
<1>1. /\ b \in HusbType /\ NoBoost(b)
      /\ ~set_vbus_fails(h, FALSE, f) => ~b.vbus_on
      /\ ~h.vbus_on => ~b.vbus_on
      /\ b.usb_role = h.usb_role /\ b.shutting_down = h.shutting_down
      /\ b.port_type = h.port_type /\ b.preferred_role = h.preferred_role
  BY SetVbus DEF NoBoost
<1> HIDE DEF b
<1>2. /\ v \in HusbType
      /\ v.vbus_on = b.vbus_on /\ v.usb_role = b.usb_role
      /\ v.shutting_down = b.shutting_down
      /\ v.port_type = b.port_type /\ v.preferred_role = b.preferred_role
  BY <1>1, SetMode
<1>3. d = husb320_set_unattached_roles(w)
  BY DEF husb320_disconnect, b
<1> HIDE DEF v, d, err
<1>e. /\ ok \in BOOLEAN
      /\ ur \in {"none", "host", "device"}
      /\ ori \in {"none", "normal", "reverse"}
  BY <1>2 DEF HusbType
<1> HIDE DEF ur, ori, ok
<1>w. w \in HusbType
  BY <1>2, <1>e, ReleasedStruct
<1>4. /\ w.state = "unattached" /\ w.partner = "null"
      /\ w.state_valid = ok
      /\ w.vbus_on = v.vbus_on
      /\ w.usb_role = ur
      /\ w.shutting_down = v.shutting_down
      /\ w.port_type = v.port_type /\ w.preferred_role = v.preferred_role
  BY <1>2, <1>e DEF HusbType
<1> HIDE DEF w
<1>5. /\ d \in HusbType
      /\ d.state = w.state /\ d.state_valid = w.state_valid
      /\ d.vbus_on = w.vbus_on /\ d.usb_role = w.usb_role
      /\ d.partner = w.partner /\ d.shutting_down = w.shutting_down
      /\ d.port_type = w.port_type /\ d.preferred_role = w.preferred_role
  BY <1>3, <1>w, UnattachedRoles
<1>6. NoBoost(d)
  BY <1>1, <1>2, <1>4, <1>5 DEF NoBoost
<1> QED BY <1>1, <1>2, <1>4, <1>5, <1>6 DEF d, err, ur, ok

(* The operators of an attached state give values of the struct's fields. *)
LEMMA StateOperators ==
  ASSUME NEW s \in Attached
  PROVE  /\ husb320_state_power_role(s) \in {"source", "sink"}
         /\ husb320_state_accessory(s) \in {"plain", "debug", "audio"}
         /\ husb320_state_usb_role(s) \in {"none", "host", "device"}
         /\ husb320_state_mode(s) \in {"safe", "usb", "audio", "debug"}
BY DEF husb320_state_power_role, husb320_state_accessory, husb320_state_usb_role,
       husb320_state_mode, Attached, States

(* Recording the roles keeps the struct in range. *)
LEMMA RolesTyped ==
  ASSUME NEW h \in HusbType, NEW d \in {"host", "device"}, NEW p \in {"source", "sink"}
  PROVE  [h EXCEPT !.data_role = d, !.pwr_role = p] \in HusbType
BY DEF HusbType

(* The attached half of husb320_apply_state keeps the struct well formed;    *)
(* entered with an unattached port, or to refresh the state it is in, it     *)
(* returns 0 only with that state fully published.                           *)
LEMMA ApplyAttached ==
  ASSUME NEW h \in HusbType, NEW s \in Attached,
         NEW o \in {"none", "normal", "reverse"}, NEW f,
         NoBoost(h)
  PROVE  LET r == apply_attached(h, s, o, f)
         IN  /\ r.h \in HusbType
             /\ r.ok \in BOOLEAN
             /\ NoBoost(r.h)
             /\ r.ok /\ Published(h) /\ h.state \in {"unattached", s} =>
                  Published(r.h) /\ r.h.state = s /\ r.h.state_valid
             /\ r.h.shutting_down = h.shutting_down
             /\ r.h.port_type = h.port_type /\ r.h.preferred_role = h.preferred_role
<1> DEFINE role == husb320_state_usb_role(s)
           mode == husb320_state_mode(s)
           pwr == husb320_state_power_role(s)
           acc == husb320_state_accessory(s)
           h1 == [h EXCEPT !.orientation = o]
           on == s = "source"
           h2 == husb320_set_vbus(h1, on, f)
           h3 == [h2 EXCEPT !.usb_role = role]
           h4 == husb320_set_mode(h3, mode, f)
           data == CASE role = "host" -> "host" [] role = "device" -> "device"
                     [] OTHER -> h4.data_role
           h5 == [h4 EXCEPT !.data_role = data, !.pwr_role = pwr]
           par == IF h5.partner = "null" THEN acc ELSE h5.partner
           h6 == [h5 EXCEPT !.partner = par, !.state = s, !.state_valid = TRUE]
           hp == [h5 EXCEPT !.state_valid = FALSE]
           Kept(x) == /\ x \in HusbType /\ NoBoost(x)
                      /\ x.shutting_down = h.shutting_down
                      /\ x.port_type = h.port_type /\ x.preferred_role = h.preferred_role
<1>0. /\ role \in {"none", "host", "device"} /\ mode \in {"safe", "usb", "audio", "debug"}
      /\ pwr \in {"source", "sink"} /\ acc \in {"plain", "debug", "audio"}
  BY StateOperators
<1>1. Kept(h1) /\ h1.partner = h.partner
  BY DEF HusbType, NoBoost
<1>n. on \in BOOLEAN
  OBVIOUS
<1> HIDE DEF h1, on, role, mode, pwr, acc
<1>2. /\ Kept(h2) /\ h2.partner = h.partner
      /\ ~set_vbus_fails(h1, on, f) /\ HasVbus => h2.vbus_on = on
  BY <1>1, <1>n, SetVbus
<1> HIDE DEF h2
<1>3. Kept(h3) /\ h3.partner = h.partner /\ h3.vbus_on = h2.vbus_on /\ h3.usb_role = role
  BY <1>0, <1>2 DEF HusbType, NoBoost
<1> HIDE DEF h3
<1>4. /\ Kept(h4) /\ h4.partner = h.partner
      /\ h4.vbus_on = h2.vbus_on /\ h4.usb_role = role
      /\ ~set_mode_fails(h3, mode, f) => h4.mode_valid /\ h4.connector_mode = mode
  BY <1>0, <1>3, SetMode DEF NoBoost
<1> HIDE DEF h4
<1>d. data \in {"host", "device"}
  BY <1>4 DEF HusbType
<1> HIDE DEF data
<1>5. /\ Kept(h5) /\ h5.partner = h.partner
      /\ h5.vbus_on = h2.vbus_on /\ h5.usb_role = role
      /\ h5.pwr_role = pwr
      /\ h5.mode_valid = h4.mode_valid /\ h5.connector_mode = h4.connector_mode
  <2>t. h4 \in HusbType
    BY <1>4
  <2>1. h5 \in HusbType
    BY <1>0, <2>t, <1>d, RolesTyped
  <2>2. h5.pwr_role = pwr
    BY <2>t DEF HusbType
  <2>3. /\ h5.partner = h4.partner /\ h5.vbus_on = h4.vbus_on
        /\ h5.usb_role = h4.usb_role /\ h5.mode_valid = h4.mode_valid
        /\ h5.connector_mode = h4.connector_mode
        /\ h5.shutting_down = h4.shutting_down /\ h5.port_type = h4.port_type
        /\ h5.preferred_role = h4.preferred_role
    BY <2>t DEF HusbType
  <2>4. NoBoost(h5)
    BY <1>4, <2>3 DEF NoBoost
  <2>. HIDE DEF h5
  <2>. QED
    BY <1>4, <2>1, <2>2, <2>3, <2>4
<1> HIDE DEF h5
<1>p. /\ par \in {"null", "plain", "debug", "audio"}
      /\ Published(h) /\ h.state \in {"unattached", s} => par = acc
  BY <1>0, <1>5 DEF Published, acc, HusbType
<1> HIDE DEF par
<1>6. /\ Kept(h6)
      /\ h6.partner = par /\ h6.state = s /\ h6.state_valid
      /\ h6.vbus_on = h2.vbus_on /\ h6.usb_role = role /\ h6.pwr_role = pwr
      /\ h6.mode_valid = h4.mode_valid /\ h6.connector_mode = h4.connector_mode
  <2>t. h5 \in HusbType
    BY <1>5
  <2>1. h6 \in HusbType
    BY <1>p, <2>t DEF HusbType, Attached
  <2>2. h6.partner = par /\ h6.state = s /\ h6.state_valid
    BY <2>t DEF HusbType
  <2>3. /\ h6.vbus_on = h5.vbus_on /\ h6.usb_role = h5.usb_role
        /\ h6.pwr_role = h5.pwr_role /\ h6.mode_valid = h5.mode_valid
        /\ h6.connector_mode = h5.connector_mode
        /\ h6.shutting_down = h5.shutting_down /\ h6.port_type = h5.port_type
        /\ h6.preferred_role = h5.preferred_role
    BY <2>t DEF HusbType
  <2>4. NoBoost(h6)
    BY <1>5, <2>3 DEF NoBoost
  <2>. HIDE DEF h6
  <2>. QED
    BY <1>5, <2>1, <2>2, <2>3, <2>4
<1>7. Kept(hp)
  BY <1>5 DEF HusbType, NoBoost
<1> HIDE DEF h6, hp
<1>8. ASSUME ~set_vbus_fails(h1, on, f), ~set_mode_fails(h3, mode, f),
             Published(h), h.state \in {"unattached", s}
      PROVE  Published(h6)
  BY <1>0, <1>2, <1>4, <1>6, <1>8, <1>p DEF Published, acc, role, mode, pwr, on, Attached
<1>9. apply_attached(h, s, o, f) =
        IF set_orientation_fails(h, o, f) THEN Fail(h)
        ELSE IF set_vbus_fails(h1, on, f) THEN Fail(h1)
        ELSE IF role # h2.usb_role /\ "role" \in f THEN Fail(h2)
        ELSE IF set_mode_fails(h3, mode, f) THEN Fail(h3)
        ELSE IF h5.partner = "null" /\ "partner" \in f THEN Fail(hp)
        ELSE Done(h6)
  BY DEF apply_attached, h1, h2, h3, h4, h5, h6, hp, par, data, role, mode, pwr, acc, on
<1> QED
  BY <1>1, <1>2, <1>3, <1>6, <1>7, <1>8, <1>9 DEF Fail, Done
(* husb320_apply_state, entered with a consistent struct: 0 means that the   *)
(* new state is fully applied, whatever state and failures came before.      *)
LEMMA ApplyState ==
  ASSUME NEW h \in HusbType, NEW s \in States,
         NEW o \in {"none", "normal", "reverse"}, NEW fd, NEW fa,
         NoBoost(h)
  PROVE  LET r == husb320_apply_state(h, s, o, fd, fa)
         IN  /\ r.h \in HusbType
             /\ r.ok \in BOOLEAN
             /\ NoBoost(r.h)
             /\ r.ok /\ Published(h) =>
                  Consistent(r.h) /\ r.h.state = s /\ r.h.state_valid
             /\ r.h.shutting_down = h.shutting_down
             /\ r.h.port_type = h.port_type /\ r.h.preferred_role = h.preferred_role
<1> DEFINE r == husb320_apply_state(h, s, o, fd, fa)
           d == husb320_disconnect(h, fd)
           Good(q) == /\ q.h \in HusbType
                      /\ q.ok \in BOOLEAN
                      /\ NoBoost(q.h)
                      /\ q.ok /\ Published(h) =>
                           Consistent(q.h) /\ q.h.state = s /\ q.h.state_valid
                      /\ q.h.shutting_down = h.shutting_down
                      /\ q.h.port_type = h.port_type
                      /\ q.h.preferred_role = h.preferred_role
<1>1. /\ d \in HusbType /\ NoBoost(d)
      /\ d.state = "unattached" /\ d.partner = "null"
      /\ d.state_valid => ~d.vbus_on /\ d.usb_role = "none"
      /\ d.shutting_down = h.shutting_down
      /\ d.port_type = h.port_type /\ d.preferred_role = h.preferred_role
  BY Disconnect
<1> HIDE DEF d
<1>2. d.state_valid \in BOOLEAN
  BY <1>1 DEF HusbType
<1>3. Published(d)
  BY <1>1 DEF Published
<1>4. CASE s = "unattached" /\ already_unattached(h)
  <2>1. r = Done(h)
    BY <1>4 DEF husb320_apply_state
  <2>2. Published(h) => Consistent(h) /\ h.state = s /\ h.state_valid
    BY <1>4 DEF already_unattached, Consistent, CleanedUp
  <2> QED BY <2>1, <2>2 DEF Done
<1>5. CASE s = "unattached" /\ ~already_unattached(h)
  <2>1. r = [h |-> d, ok |-> d.state_valid]
    BY <1>5 DEF husb320_apply_state, d
  <2> QED BY <1>1, <1>2, <1>3, <1>5, <2>1 DEF Consistent, CleanedUp
<1>6. CASE s # "unattached" /\ s # h.state /\ (~h.state_valid \/ h.state # "unattached")
  <2>1. r = IF d.state_valid THEN apply_attached(d, s, o, fa) ELSE Fail(d)
    BY <1>6 DEF husb320_apply_state, d
  <2>2. CASE ~d.state_valid
    BY <1>1, <2>1, <2>2 DEF Fail
  <2>3. CASE d.state_valid
    <3>1. s \in Attached
      BY <1>6 DEF Attached
    <3>2. r = apply_attached(d, s, o, fa)
      BY <2>1, <2>3
    <3> HIDE DEF r
    <3>3. /\ r.h \in HusbType /\ r.ok \in BOOLEAN /\ NoBoost(r.h)
          /\ r.ok => Published(r.h) /\ r.h.state = s /\ r.h.state_valid
          /\ r.h.shutting_down = d.shutting_down
          /\ r.h.port_type = d.port_type /\ r.h.preferred_role = d.preferred_role
      BY <1>1, <1>3, <3>1, <3>2, ApplyAttached
    <3> QED BY <1>1, <1>6, <3>3 DEF Consistent, CleanedUp, r
  <2> QED BY <2>2, <2>3
<1>7. CASE s # "unattached" /\ ~(s # h.state /\ (~h.state_valid \/ h.state # "unattached"))
  <2>1. s \in Attached
    BY <1>7 DEF Attached
  <2>2. r = apply_attached(h, s, o, fa)
    BY <1>7 DEF husb320_apply_state
  <2> HIDE DEF r
  <2> QED BY <1>7, <2>1, <2>2, ApplyAttached DEF Consistent, CleanedUp, r
<1> QED BY <1>4, <1>5, <1>6, <1>7

(* The register writes leave a well-formed controller. *)
LEMMA ChipWrites ==
  ASSUME NEW c \in ChipType
  PROVE  /\ Dropped(c) \in ChipType
         /\ \A f : husb320_hw_disable(c, f) \in ChipType
         /\ \A f : husb320_set_sink_mode(c, f) \in ChipType
         /\ \A t \in PortTypes, p \in PrefRoles : WritePortRole(c, t, p) \in ChipType
<1>1. ASSUME NEW x \in ChipType PROVE Dropped(x) \in ChipType
  BY DEF Dropped, ChipType, States
<1>2. ASSUME NEW f PROVE husb320_hw_disable(c, f) \in ChipType
  <2> DEFINE m == IF "wr_mask" \in f THEN c ELSE [c EXCEPT !.masked = TRUE]
             x == Dropped(m)
  <2>1. m \in ChipType
    BY DEF ChipType
  <2> HIDE DEF m
  <2>2. x \in ChipType
    BY <1>1, <2>1
  <2> HIDE DEF x
  <2>3. [x EXCEPT !.enabled = FALSE] \in ChipType
    BY <2>2 DEF ChipType
  <2> QED BY <2>1, <2>3 DEF husb320_hw_disable, m, x
<1>3. ASSUME NEW f PROVE husb320_set_sink_mode(c, f) \in ChipType
  <2> DEFINE m == [c EXCEPT !.masked = TRUE]
             x == Dropped(m)
             r == [x EXCEPT !.role = "snk", !.try = "no_pref"]
  <2>1. m \in ChipType
    BY DEF ChipType
  <2> HIDE DEF m
  <2>2. x \in ChipType
    BY <1>1, <2>1
  <2> HIDE DEF x
  <2>3. r \in ChipType
    BY <2>2 DEF ChipType, PortTypes, PrefRoles
  <2> HIDE DEF r
  <2>4. [r EXCEPT !.enabled = TRUE] \in ChipType
    BY <2>3 DEF ChipType
  <2> QED BY <2>1, <2>3, <2>4 DEF husb320_set_sink_mode, m, x, r
<1>4. ASSUME NEW t \in PortTypes, NEW p \in PrefRoles PROVE WritePortRole(c, t, p) \in ChipType
  <2> DEFINE x == Dropped(c)
             y == husb320_try_role(t, p)
  <2>1. x \in ChipType
    BY <1>1
  <2>2. y \in PrefRoles
    BY DEF husb320_try_role, PrefRoles
  <2> HIDE DEF x, y
  <2>3. [x EXCEPT !.role = t, !.try = y] \in ChipType
    BY <2>1, <2>2 DEF ChipType
  <2> QED BY <2>3 DEF WritePortRole, x, y
<1> QED BY <1>1, <1>2, <1>3, <1>4

(* What every cleanup of the port establishes. *)
LEMMA Cleaned ==
  ASSUME NEW h \in HusbType, NEW f, NoBoost(h)
  PROVE  LET d == husb320_disconnect(h, f)
         IN  d \in HusbType /\ NoBoost(d) /\ Consistent(d)
BY Disconnect DEF Consistent, Published, CleanedUp

(* husb320_error_recovery ends in a consistent struct; unless everything was *)
(* released the driver is shutting down.                                     *)
LEMMA Recovery ==
  ASSUME TypeOK, NoBoost(husb), NEW f
  PROVE  LET r == Recovered(f)
         IN  /\ r.h \in HusbType /\ r.c \in ChipType
             /\ NoBoost(r.h) /\ Consistent(r.h)
             /\ r.h.state = "unattached"
             /\ r.h.state_valid \/ r.h.shutting_down
             /\ husb.shutting_down => r.h.shutting_down
             /\ r.h.vbus_on => husb.vbus_on
             /\ r.h.usb_role \in {husb.usb_role, "none"}
<1> DEFINE d == husb320_disconnect(husb, f)
           e == [d EXCEPT !.shutting_down = TRUE]
           c == IF "wr_manual" \in f THEN chip ELSE Dropped(chip)
<1>1. husb \in HusbType /\ chip \in ChipType
  BY DEF TypeOK
<1>2. /\ d \in HusbType /\ NoBoost(d) /\ Consistent(d)
      /\ d.state = "unattached" /\ d.shutting_down = husb.shutting_down
      /\ ~husb.vbus_on => ~d.vbus_on
      /\ d.usb_role \in {husb.usb_role, "none"}
  BY <1>1, Disconnect, Cleaned
<1> HIDE DEF d
<1>3. /\ e \in HusbType
      /\ e.state = d.state /\ e.vbus_on = d.vbus_on /\ e.usb_role = d.usb_role
      /\ e.shutting_down
      /\ e.partner = d.partner /\ e.state_valid = d.state_valid
  BY <1>2 DEF HusbType
<1> HIDE DEF e
<1>4. NoBoost(e) /\ Consistent(e)
  BY <1>2, <1>3 DEF NoBoost, Consistent, Published, CleanedUp
<1>5. c \in ChipType /\ husb320_hw_disable(c, f) \in ChipType
  BY <1>1, ChipWrites
<1> HIDE DEF c
<1>6. Recovered(f) = IF d.state_valid /\ "wr_manual" \notin f
                     THEN [h |-> d, c |-> c]
                     ELSE [h |-> e, c |-> husb320_hw_disable(c, f)]
  BY DEF Recovered, d, e, c
<1>7. CASE d.state_valid /\ "wr_manual" \notin f
  BY <1>2, <1>5, <1>6, <1>7
<1>8. CASE ~(d.state_valid /\ "wr_manual" \notin f)
  BY <1>2, <1>3, <1>4, <1>5, <1>6, <1>8
<1> QED BY <1>7, <1>8
-----------------------------------------------------------------------------
(* A step that leaves husb, step, irq and life alone (cable and controller). *)
LEMMA FrameChip ==
  ASSUME Rest, UNCHANGED <<husb, step, irq, life>>
  PROVE  Rest'
BY DEF Rest, NoBoost, Undone, Consistent, Published, CleanedUp, LifeInv, VbusInv, Settled,
       StoppedPortIsSafe, Stopping

(* A step after which husb is unattached, without partner and consistent,    *)
(* and the driver is shutting down unless everything was released.           *)
LEMMA AfterCleanup ==
  ASSUME NoBoost(husb'), Consistent(husb'), LifeInv',
         husb'.state = "unattached",
         husb'.state_valid \/ husb'.shutting_down \/ step' # "free"
  PROVE  Rest'
BY DEF Rest, Consistent, Published, CleanedUp, VbusInv, Settled, StoppedPortIsSafe, LifeInv,
       Stopping

(* The initial struct is unattached and drives nothing. *)
LEMMA InitInv == Init => IndInv
<1> SUFFICES ASSUME Init PROVE IndInv
  OBVIOUS
<1>1. PICK pref \in (IF CapType = "drp" THEN PrefRoles ELSE {"no_pref"}) :
        husb = husb320_set_unattached_roles(
         [state |-> "unattached", state_valid |-> FALSE, vbus_on |-> FALSE,
          usb_role |-> "none", connector_mode |-> "safe", mode_valid |-> FALSE,
          partner |-> "null", port_type |-> CapType, preferred_role |-> pref,
          shutting_down |-> FALSE, orientation |-> "none",
          pwr_role |-> "sink", data_role |-> "device"])
  BY DEF Init
<1> DEFINE h0 == [state |-> "unattached", state_valid |-> FALSE, vbus_on |-> FALSE,
                  usb_role |-> "none", connector_mode |-> "safe", mode_valid |-> FALSE,
                  partner |-> "null", port_type |-> CapType, preferred_role |-> pref,
                  shutting_down |-> FALSE, orientation |-> "none",
                  pwr_role |-> "sink", data_role |-> "device"]
<1>2. /\ h0 \in HusbType
      /\ h0.state = "unattached" /\ h0.partner = "null" /\ ~h0.vbus_on
      /\ ~h0.state_valid /\ ~h0.shutting_down /\ h0.usb_role = "none"
  BY ConnectorAssumption DEF HusbType, States, PrefRoles
<1> HIDE DEF h0
<1>3. husb = husb320_set_unattached_roles(h0)
  BY <1>1 DEF h0
<1>4. /\ husb \in HusbType
      /\ husb.state = "unattached" /\ husb.partner = "null" /\ ~husb.vbus_on
      /\ ~husb.state_valid /\ ~husb.shutting_down /\ husb.usb_role = "none"
  BY <1>2, <1>3, UnattachedRoles
<1>5. TypeOK
  BY <1>4 DEF Init, TypeOK, ChipType, PortTypes, PrefRoles, States
<1>6. NoBoost(husb) /\ Consistent(husb)
  BY <1>4 DEF NoBoost, Consistent, Published, CleanedUp
<1>7. LifeInv /\ VbusInv /\ StoppedPortIsSafe
  BY <1>4 DEF Init, LifeInv, VbusInv, StoppedPortIsSafe, Stopping
<1> QED BY <1>5, <1>6, <1>7 DEF IndInv, Rest
-----------------------------------------------------------------------------
(* The cable and the controller do not touch the driver's state. *)
LEMMA EnvStep ==
  ASSUME IndInv,
         \/ \E k \in Kinds, cc \in CCs : Plug(k, cc)
         \/ Unplug \/ ChipNotify \/ ChipDetach \/ ChipAttach
  PROVE  IndInv'
<1>1. UNCHANGED <<husb, step, intr, seen, irq, life>>
  BY DEF Plug, Unplug, ChipNotify, ChipDetach, ChipAttach
<1>2. Rest'
  BY <1>1, FrameChip DEF IndInv
<1>3. chip' \in ChipType
  <2>1. CASE UNCHANGED chip
    BY <2>1 DEF IndInv, TypeOK
  <2>2. CASE ChipNotify
    BY <2>2 DEF IndInv, TypeOK, ChipNotify, ChipType
  <2>3. CASE ChipDetach
    <3> DEFINE c == Dropped(chip)
    <3>1. c \in ChipType
      BY ChipWrites DEF IndInv, TypeOK
    <3> HIDE DEF c
    <3> QED BY <2>3, <3>1 DEF ChipDetach, ChipType, c
  <2>4. CASE ChipAttach
    <3>1. Target.kind \in States /\ Target.cc \in {"none", "normal", "reverse"}
      BY DEF IndInv, TypeOK, Target, States
    <3> QED BY <2>4, <3>1 DEF IndInv, TypeOK, ChipAttach, ChipType
  <2> QED BY <2>1, <2>2, <2>3, <2>4 DEF Plug, Unplug
<1>4. plug' \in [kind: States, cc: {"none", "normal", "reverse"}]
  BY EnvAssumption DEF IndInv, TypeOK, Plug, Unplug, ChipNotify, ChipDetach, ChipAttach,
                       Attached, States
<1>5. TypeOK'
  BY <1>1, <1>3, <1>4 DEF IndInv, TypeOK
<1> QED BY <1>2, <1>5 DEF IndInv

(* The steps that leave husb alone: the entry of the interrupt thread, the   *)
(* first read of an update, and the parts of probe, remove and shutdown that *)
(* only move the interrupt or the controller.                                *)
LEMMA QuietStep ==
  ASSUME IndInv,
         \/ IrqEnter \/ ReadStatus \/ husb320_hw_init \/ RegisterPort \/ RequestIrq
         \/ ProbeUpdate \/ ProbeUnmask \/ RemoveFreeIrq \/ ShutdownDisableIrq
  PROVE  IndInv'
<1> USE DEF IndInv
<1>1. UNCHANGED husb
  BY DEF IrqEnter, ReadStatus, husb320_hw_init, RegisterPort, RequestIrq, ProbeUpdate,
         ProbeUnmask, RemoveFreeIrq, ShutdownDisableIrq
<1>2. chip' \in ChipType
  <2>1. CASE UNCHANGED chip
    BY <2>1 DEF TypeOK
  <2>2. CASE husb320_hw_init
    <3> DEFINE c == WritePortRole(chip, husb.port_type, husb.preferred_role)
    <3>1. c \in ChipType
      BY ChipWrites DEF TypeOK, HusbType
    <3> HIDE DEF c
    <3>2. [c EXCEPT !.masked = TRUE, !.enabled = TRUE, !.ints = {}] \in ChipType
      BY <3>1 DEF ChipType
    <3>3. \A f : husb320_hw_disable(chip, f) \in ChipType
      BY ChipWrites DEF TypeOK
    <3> QED BY <2>2, <3>2, <3>3 DEF husb320_hw_init, c
  <2>3. CASE RegisterPort
    BY <2>1, <2>3, ChipWrites DEF RegisterPort, TypeOK
  <2>4. CASE ProbeUnmask
    BY <2>1, <2>4 DEF ProbeUnmask, TypeOK, ChipType
  <2> QED BY <2>1, <2>2, <2>3, <2>4 DEF IrqEnter, ReadStatus, RequestIrq, ProbeUpdate,
             RemoveFreeIrq, ShutdownDisableIrq
<1>3. TypeOK'
  <2> USE DEF TypeOK, IrqEnter, ReadStatus, husb320_hw_init, RegisterPort, RequestIrq,
          ProbeUpdate, ProbeUnmask, RemoveFreeIrq, ShutdownDisableIrq
  <2>1. husb' \in HusbType /\ plug' \in [kind: States, cc: {"none", "normal", "reverse"}]
    BY <1>1
  <2>2. intr' \subseteq {"detach", "other"}
    BY DEF ChipType
  <2>3. seen' \in [attached: BOOLEAN, cc: {"none", "normal", "reverse"}]
    <3> DEFINE att == chip.kind # "unattached"
    <3>1. att \in BOOLEAN /\ chip.cc \in {"none", "normal", "reverse"}
      BY DEF ChipType
    <3>2. seen' = seen \/ seen' = [attached |-> att, cc |-> chip.cc]
      OBVIOUS
    <3> HIDE DEF att
    <3> QED BY <3>1, <3>2
  <2>4. irq' \in {"none", "on", "off"}
    OBVIOUS
  <2>5. step' \in {"free", "irq_ack", "irq_status", "irq_type", "irq_err", "recover",
                   "probe_status", "probe_type"}
    OBVIOUS
  <2>6. life' \in {"hw_init", "register", "request_irq", "update", "unmask", "bound",
                   "fail_irq", "fail_port", "failed", "remove_irq", "remove_rest", "gone",
                   "shut_irq", "shut_rest", "off"}
    OBVIOUS
  <2> QED BY <1>2, <2>1, <2>2, <2>3, <2>4, <2>5, <2>6
<1>4. LifeInv'
  BY <1>1 DEF Rest, LifeInv, Stopping, TypeOK, IrqEnter, ReadStatus, husb320_hw_init,
     RegisterPort, RequestIrq, ProbeUpdate, ProbeUnmask, RemoveFreeIrq, ShutdownDisableIrq
<1>5. ~Undone' => Consistent(husb')
  BY <1>1 DEF Rest, Undone, Consistent, Published, CleanedUp, IrqEnter, ReadStatus,
     husb320_hw_init, RegisterPort, RequestIrq, ProbeUpdate, ProbeUnmask, RemoveFreeIrq,
     ShutdownDisableIrq
<1>6. VbusInv' /\ StoppedPortIsSafe'
  BY <1>1 DEF Rest, VbusInv, Settled, StoppedPortIsSafe, LifeInv, Undone, Consistent,
     Published, CleanedUp, IrqEnter, ReadStatus, husb320_hw_init, RegisterPort, RequestIrq,
     ProbeUpdate, ProbeUnmask, RemoveFreeIrq, ShutdownDisableIrq
<1> QED BY <1>1, <1>3, <1>4, <1>5, <1>6 DEF Rest, NoBoost

(* The steps after which the port is disconnected: the acknowledgement of a  *)
(* detach, the recoveries, and the cleanups of probe, remove and shutdown.   *)
LEMMA CleanupStep ==
  ASSUME IndInv,
         \/ IrqAck \/ ErrorRecovery \/ IrqErr \/ ProbeUnregister
         \/ husb320_remove \/ husb320_shutdown
  PROVE  IndInv'
<1> USE DEF IndInv
<1>0. husb \in HusbType /\ chip \in ChipType /\ NoBoost(husb)
  BY DEF TypeOK, Rest
<1>1. CASE IrqAck
  <2>1. chip' \in ChipType
    BY <1>0, <1>1 DEF IrqAck, ChipType
  <2>2. CASE UNCHANGED husb
    <3>1. TypeOK'
      BY <1>1, <2>1, <2>2 DEF IrqAck, TypeOK
    <3>2. Rest'
      BY <1>1, <2>2 DEF IrqAck, Rest, NoBoost, Undone, Consistent, Published, CleanedUp, LifeInv,
         Stopping, VbusInv, Settled, StoppedPortIsSafe
    <3> QED BY <3>1, <3>2
  <2>3. CASE \E f : husb' = husb320_disconnect(husb, f) /\ step' = "irq_status"
    <3>1. /\ husb' \in HusbType /\ NoBoost(husb') /\ Consistent(husb')
          /\ husb'.state = "unattached" /\ husb'.shutting_down = husb.shutting_down
      BY <1>0, <2>3, Disconnect, Cleaned
    <3>2. TypeOK'
      BY <1>1, <2>1, <2>3, <3>1 DEF IrqAck, TypeOK
    <3>3. LifeInv'
      BY <1>1, <2>3, <3>1 DEF IrqAck, Rest, LifeInv, Stopping
    <3>4. Rest'
      BY <2>3, <3>1, <3>3, AfterCleanup
    <3> QED BY <3>2, <3>4
  <2> QED BY <1>1, <2>2, <2>3 DEF IrqAck
<1>2. CASE ErrorRecovery
  <2>1. /\ husb' \in HusbType /\ chip' \in ChipType
        /\ NoBoost(husb') /\ Consistent(husb')
        /\ husb'.state = "unattached"
        /\ husb'.state_valid \/ husb'.shutting_down
        /\ husb.shutting_down => husb'.shutting_down
    BY <1>0, <1>2, Recovery DEF ErrorRecovery
  <2>2. TypeOK'
    BY <1>2, <2>1 DEF ErrorRecovery, TypeOK
  <2>3. LifeInv'
    BY <1>2, <2>1 DEF ErrorRecovery, Rest, LifeInv, Stopping
  <2> QED BY <2>1, <2>2, <2>3, AfterCleanup
<1>3. CASE IrqErr
  <2>1. PICK f, g : /\ husb' = [Recovered(f).h EXCEPT !.shutting_down = TRUE]
                    /\ chip' = husb320_hw_disable(Recovered(f).c, g)
    BY <1>3 DEF IrqErr
  <2> DEFINE h == Recovered(f).h
  <2>2. h \in HusbType /\ NoBoost(h) /\ Consistent(h) /\ h.state = "unattached"
    BY <1>0, Recovery
  <2>3. chip' \in ChipType
    BY <1>0, <2>1, Recovery, ChipWrites
  <2> HIDE DEF h
  <2>4. husb' = [h EXCEPT !.shutting_down = TRUE]
    BY <2>1 DEF h
  <2>5. /\ husb' \in HusbType /\ husb'.state = "unattached" /\ husb'.shutting_down
        /\ husb'.vbus_on = h.vbus_on /\ husb'.usb_role = h.usb_role
        /\ husb'.partner = h.partner /\ husb'.state_valid = h.state_valid
    BY <2>2, <2>4 DEF HusbType
  <2>6. NoBoost(husb') /\ Consistent(husb')
    BY <2>2, <2>5 DEF NoBoost, Consistent, Published, CleanedUp
  <2>7. TypeOK'
    BY <1>3, <2>3, <2>5 DEF IrqErr, TypeOK
  <2>8. LifeInv'
    BY <1>3, <2>5 DEF IrqErr, Rest, LifeInv, Stopping
  <2> QED BY <2>5, <2>6, <2>7, <2>8, AfterCleanup
<1>4. CASE ProbeUnregister
  <2>1. PICK f : /\ husb' = [husb320_disconnect(husb, f) EXCEPT !.shutting_down = TRUE]
                 /\ chip' = husb320_hw_disable(chip, f)
    BY <1>4 DEF ProbeUnregister
  <2> DEFINE h == husb320_disconnect(husb, f)
  <2>2. h \in HusbType /\ NoBoost(h) /\ Consistent(h) /\ h.state = "unattached"
    BY <1>0, Disconnect, Cleaned
  <2>3. chip' \in ChipType
    BY <1>0, <2>1, ChipWrites
  <2> HIDE DEF h
  <2>4. husb' = [h EXCEPT !.shutting_down = TRUE]
    BY <2>1 DEF h
  <2>5. /\ husb' \in HusbType /\ husb'.state = "unattached" /\ husb'.shutting_down
        /\ husb'.vbus_on = h.vbus_on /\ husb'.usb_role = h.usb_role
        /\ husb'.partner = h.partner /\ husb'.state_valid = h.state_valid
    BY <2>2, <2>4 DEF HusbType
  <2>6. NoBoost(husb') /\ Consistent(husb')
    BY <2>2, <2>5 DEF NoBoost, Consistent, Published, CleanedUp
  <2>7. TypeOK'
    BY <1>4, <2>3, <2>5 DEF ProbeUnregister, TypeOK
  <2>8. LifeInv'
    BY <1>4, <2>5 DEF ProbeUnregister, Rest, LifeInv, Stopping
  <2> QED BY <2>5, <2>6, <2>7, <2>8, AfterCleanup
<1>5. CASE husb320_remove \/ husb320_shutdown
  <2>1. PICK f : husb' = husb320_disconnect(husb, f)
    BY <1>5 DEF husb320_remove, husb320_shutdown
  <2>2. /\ husb' \in HusbType /\ NoBoost(husb') /\ Consistent(husb')
        /\ husb'.state = "unattached" /\ husb'.shutting_down = husb.shutting_down
    BY <1>0, <2>1, Disconnect, Cleaned
  <2>3. husb.shutting_down
    BY <1>5 DEF Rest, LifeInv, Stopping, husb320_remove, husb320_shutdown
  <2>4. chip' \in ChipType
    BY <1>0, <1>5, ChipWrites DEF husb320_remove, husb320_shutdown
  <2>5. TypeOK'
    BY <1>5, <2>2, <2>4 DEF husb320_remove, husb320_shutdown, TypeOK
  <2>6. LifeInv'
    BY <1>5, <2>2, <2>3 DEF husb320_remove, husb320_shutdown, Rest, LifeInv, Stopping
  <2> QED BY <2>2, <2>3, <2>5, <2>6, AfterCleanup
<1> QED BY <1>1, <1>2, <1>3, <1>4, <1>5

(* A sysfs write of the port type or of the preferred role. *)
LEMMA ClassStep ==
  ASSUME IndInv,
         \/ \E t \in PortTypes : husb320_port_type_set(t)
         \/ \E r \in PrefRoles : husb320_try_role_set(r)
  PROVE  IndInv'
<1> USE DEF IndInv
<1>0. husb \in HusbType /\ chip \in ChipType /\ NoBoost(husb) /\ husb.preferred_role \in PrefRoles
  BY DEF TypeOK, Rest, HusbType
<1>1. ASSUME NEW t \in PortTypes, husb320_port_type_set(t)
      PROVE  IndInv'
  <2>1. PICK f : LET h == husb320_disconnect(husb, f)
                 IN  IF h.state_valid /\ "wr_role" \notin f
                     THEN /\ husb' = husb320_set_unattached_roles([h EXCEPT !.port_type = t])
                          /\ chip' = WritePortRole(chip, t, husb.preferred_role)
                          /\ UNCHANGED step
                     ELSE husb' = h /\ step' = "recover" /\ UNCHANGED chip
    BY <1>1 DEF husb320_port_type_set
  <2> DEFINE h == husb320_disconnect(husb, f)
             g == [h EXCEPT !.port_type = t]
  <2>2. /\ h \in HusbType /\ NoBoost(h) /\ Consistent(h) /\ h.state = "unattached"
        /\ h.shutting_down = husb.shutting_down
    BY <1>0, Disconnect, Cleaned
  <2> HIDE DEF h
  <2>3. /\ g \in HusbType
        /\ g.state = h.state /\ g.state_valid = h.state_valid /\ g.vbus_on = h.vbus_on
        /\ g.usb_role = h.usb_role /\ g.partner = h.partner
        /\ g.shutting_down = h.shutting_down
    BY <2>2 DEF HusbType
  <2>4. chip' \in ChipType
    BY <1>0, <2>1, ChipWrites
  <2>5. CASE husb' = h /\ step' = "recover"
    <3>1. TypeOK'
      BY <1>1, <2>2, <2>4, <2>5 DEF husb320_port_type_set, TypeOK
    <3>2. LifeInv'
      BY <1>1, <2>2, <2>5 DEF husb320_port_type_set, PortRegistered, Rest, LifeInv, Stopping
    <3> QED BY <2>2, <2>5, <3>1, <3>2, AfterCleanup
  <2>6. CASE h.state_valid /\ husb' = husb320_set_unattached_roles(g) /\ UNCHANGED step
    <3> HIDE DEF g
    <3>1. /\ husb' \in HusbType
          /\ husb'.state = "unattached" /\ husb'.state_valid /\ husb'.vbus_on = h.vbus_on
          /\ husb'.usb_role = h.usb_role /\ husb'.partner = h.partner
          /\ husb'.shutting_down = husb.shutting_down
      BY <2>2, <2>3, <2>6, UnattachedRoles
    <3>2. NoBoost(husb') /\ Consistent(husb')
      BY <2>2, <2>6, <3>1 DEF NoBoost, Consistent, Published, CleanedUp
    <3>3. TypeOK'
      BY <1>1, <2>4, <2>6, <3>1 DEF husb320_port_type_set, TypeOK
    <3>4. LifeInv'
      BY <1>1, <2>6, <3>1 DEF husb320_port_type_set, Rest, LifeInv, Stopping
    <3> QED BY <3>1, <3>2, <3>3, <3>4, AfterCleanup
  <2> QED BY <2>1, <2>5, <2>6 DEF h
<1>2. ASSUME NEW r \in PrefRoles, husb320_try_role_set(r)
      PROVE  IndInv'
  <2>1. /\ husb' \in HusbType
        /\ husb'.state = husb.state /\ husb'.state_valid = husb.state_valid
        /\ husb'.vbus_on = husb.vbus_on /\ husb'.usb_role = husb.usb_role
        /\ husb'.partner = husb.partner /\ husb'.shutting_down = husb.shutting_down
        /\ husb'.mode_valid = husb.mode_valid /\ husb'.connector_mode = husb.connector_mode
        /\ husb'.pwr_role = husb.pwr_role
    BY <1>0, <1>2 DEF husb320_try_role_set, HusbType
  <2>2. chip' \in ChipType
    BY <1>0, <1>2 DEF husb320_try_role_set, ChipType
  <2>3. TypeOK'
    BY <1>2, <2>1, <2>2 DEF husb320_try_role_set, TypeOK
  <2>4. Rest'
    BY <1>2, <2>1 DEF husb320_try_role_set, Rest, NoBoost, Undone, Consistent, Published,
       CleanedUp, LifeInv, Stopping, VbusInv, Settled, StoppedPortIsSafe
  <2> QED BY <2>3, <2>4
<1> QED BY <1>1, <1>2

(* The steps that only set shutting_down: the error path of probe, and the   *)
(* first critical section of remove and of shutdown.                         *)
LEMMA StopStep ==
  ASSUME IndInv, ProbeFreeIrq \/ RemoveBegin \/ ShutdownBegin
  PROVE  IndInv'
<1> USE DEF IndInv, ProbeFreeIrq, RemoveBegin, ShutdownBegin, StopInterrupts
<1>1. /\ husb' \in HusbType /\ husb'.shutting_down
      /\ husb'.state = husb.state /\ husb'.state_valid = husb.state_valid
      /\ husb'.vbus_on = husb.vbus_on /\ husb'.usb_role = husb.usb_role
      /\ husb'.partner = husb.partner
      /\ husb'.mode_valid = husb.mode_valid /\ husb'.connector_mode = husb.connector_mode
      /\ husb'.pwr_role = husb.pwr_role
  <2>1. husb \in HusbType /\ husb' = [husb EXCEPT !.shutting_down = TRUE]
    BY DEF TypeOK
  <2>2. husb' \in HusbType
    BY ONLY <2>1 DEF HusbType
  <2> QED BY ONLY <2>1, <2>2 DEF HusbType
<1>2. chip' \in ChipType
  BY DEF TypeOK, ChipType
<1>3. TypeOK'
  BY <1>1, <1>2 DEF TypeOK
<1>4. LifeInv'
  BY <1>1 DEF Rest, LifeInv, Stopping
<1>5. NoBoost(husb') /\ (~Undone' => Consistent(husb'))
  BY <1>1 DEF Rest, NoBoost, Undone, Consistent, Published, CleanedUp
<1>6. VbusInv' /\ StoppedPortIsSafe'
  BY <1>1 DEF VbusInv, StoppedPortIsSafe
<1> QED BY <1>3, <1>4, <1>5, <1>6 DEF Rest

(* The second read of an update and what husb320_apply_state makes of it. *)
LEMMA UpdateStep ==
  ASSUME IndInv, ReadTypeAndApply
  PROVE  IndInv'
<1> USE DEF IndInv
<1>0. husb \in HusbType /\ chip \in ChipType /\ NoBoost(husb)
  BY DEF TypeOK, Rest
<1>1. PICK r :
        /\ UpdateReturns(r)
        /\ \/ r = Fail(husb)
           \/ \E s \in States, o \in {"none", "normal", "reverse"} : \E fd, fa :
                r = husb320_apply_state(husb, s, o, fd, fa)
  <2> DEFINE s == husb320_get_state(seen, chip.kind)
             o == IF s = "unattached" THEN "none" ELSE seen.cc
  <2>1. s \in States
    BY <1>0 DEF husb320_get_state, ChipType, States
  <2>2. o \in {"none", "normal", "reverse"}
    BY DEF TypeOK
  <2> HIDE DEF s, o
  <2>3. CASE "rd_type" \in Faults /\ UpdateReturns(Fail(husb))
    BY <2>3
  <2>4. CASE \E fd \in SUBSET (Faults \cap PortFaults),
                fa \in SUBSET (Faults \cap (PortFaults \cup {"partner"})) :
               UpdateReturns(husb320_apply_state(husb, s, o, fd, fa))
    BY <2>1, <2>2, <2>4
  <2> QED BY <2>3, <2>4 DEF ReadTypeAndApply, s, o
<1>2. CASE r = Fail(husb)
  <2>1. husb' = husb /\ ~r.ok
    BY <1>1, <1>2 DEF UpdateReturns, Fail
  <2>2. TypeOK'
    BY <1>1, <2>1 DEF UpdateReturns, TypeOK
  <2>3. Rest'
    BY <1>1, <2>1 DEF UpdateReturns, Rest, NoBoost, Undone, LifeInv, Stopping, VbusInv, Settled,
       StoppedPortIsSafe
  <2> QED BY <2>2, <2>3
<1>3. ASSUME NEW s \in States, NEW o \in {"none", "normal", "reverse"}, NEW fd, NEW fa,
             r = husb320_apply_state(husb, s, o, fd, fa)
      PROVE  IndInv'
  <2>1. step \in {"irq_type", "probe_type"}
    BY <1>1 DEF UpdateReturns
  <2>2. /\ r.h \in HusbType /\ r.ok \in BOOLEAN /\ NoBoost(r.h)
        /\ r.ok /\ Published(husb) => Consistent(r.h) /\ r.h.state_valid
        /\ r.h.shutting_down = husb.shutting_down
    BY <1>0, <1>3, ApplyState
  <2>3. TypeOK'
    BY <1>1, <2>2 DEF UpdateReturns, TypeOK
  <2>4. LifeInv'
    BY <1>1, <2>2 DEF UpdateReturns, Rest, LifeInv, Stopping
  <2>5. ~Undone' => Published(husb) /\ r.ok
    BY <1>1, <2>1 DEF UpdateReturns, Rest, LifeInv, Undone, Consistent
  <2>6. NoBoost(husb') /\ (~Undone' => Consistent(husb'))
    BY <1>1, <2>2, <2>5 DEF UpdateReturns
  <2>7. VbusInv'
    BY <1>1, <2>2, <2>5 DEF UpdateReturns, VbusInv, Settled, Undone
  <2>8. StoppedPortIsSafe'
    BY <1>1, <2>1 DEF UpdateReturns, StoppedPortIsSafe, Rest, LifeInv
  <2> QED BY <2>3, <2>4, <2>6, <2>7, <2>8 DEF Rest
<1> QED BY <1>1, <1>2, <1>3
-----------------------------------------------------------------------------
(* Every step of the driver, the controller and the cable keeps IndInv. *)
LEMMA NextInv == IndInv /\ [Next]_vars => IndInv'
<1> SUFFICES ASSUME IndInv, [Next]_vars PROVE IndInv'
  OBVIOUS
<1>1. CASE UNCHANGED vars
  <2>1. TypeOK'
    BY <1>1 DEF vars, IndInv, TypeOK
  <2> QED BY <1>1, <2>1, FrameChip DEF vars, IndInv
<1>2. CASE Environment
  BY <1>2, EnvStep, ClassStep, StopStep DEF Environment
<1>3. CASE Controller
  BY <1>3, EnvStep DEF Controller
<1>4. CASE IrqThread
  BY <1>4, QuietStep, CleanupStep DEF IrqThread
<1>5. CASE LockHolder
  BY <1>5, QuietStep, CleanupStep, UpdateStep DEF LockHolder
<1>6. CASE Lifecycle
  BY <1>6, QuietStep, CleanupStep, StopStep DEF Lifecycle
<1> QED BY <1>1, <1>2, <1>3, <1>4, <1>5, <1>6 DEF Next

(* The inductive invariant holds in every state the driver can reach: the     *)
(* struct is consistent whenever no failed update waits for its recovery, and *)
(* a port that is shutting down lets nobody but probe hold the lock.          *)
THEOREM Invariance == Spec => []IndInv
BY InitInv, NextInv, PTL DEF Spec

(* Type correctness of the driver for every connector and set of failures.   *)
THEOREM TypeCorrect == Spec => []TypeOK
<1>1. IndInv => TypeOK
  BY DEF IndInv
<1> QED BY <1>1, Invariance, PTL

(* VBUS is on only in the SOURCE state, or because it cannot be switched off *)
(* by a driver that has given up: the device tree's promise.                 *)
THEOREM VbusSafety == Spec => []VbusOnlyAsSource
<1>1. IndInv => VbusOnlyAsSource
  BY DEF IndInv, Rest, VbusInv, VbusOnlyAsSource, Settled, Undone, Consistent, Published,
         CleanedUp, NoBoost, TypeOK, HusbType
<1> QED BY <1>1, Invariance, PTL

(* What is published agrees with the state, after every sequence of cables,  *)
(* sysfs writes and failing calls.                                           *)
THEOREM PublishedSafety == Spec => []PublishedStateAgrees
<1>1. IndInv => PublishedStateAgrees
  BY DEF IndInv, Rest, PublishedStateAgrees, Settled, Undone, Consistent, Published
<1> QED BY <1>1, Invariance, PTL

(* A stopped port publishes nothing and drives nothing it could release.     *)
THEOREM StoppedSafety == Spec => []StoppedPortIsSafe
<1>1. IndInv => StoppedPortIsSafe
  BY DEF IndInv, Rest
<1> QED BY <1>1, Invariance, PTL

(* Shutting down is final: no later step of the interrupt thread, of a sysfs *)
(* write, of remove or of shutdown switches anything on.                     *)
THEOREM ShutdownFinality == Spec => ShutdownIsFinal
<1> DEFINE Final == husb.shutting_down =>
              /\ husb'.shutting_down
              /\ life # "update" =>
                   /\ husb'.vbus_on => husb.vbus_on
                   /\ husb'.usb_role \in {husb.usb_role, "none"}
<1>1. ASSUME IndInv, [Next]_vars PROVE Final
  <2> SUFFICES ASSUME husb.shutting_down
               PROVE  /\ husb'.shutting_down
                      /\ life # "update" =>
                           /\ husb'.vbus_on => husb.vbus_on
                           /\ husb'.usb_role \in {husb.usb_role, "none"}
    OBVIOUS
  <2>0. /\ husb \in HusbType /\ NoBoost(husb)
        /\ step \in {"free", "probe_status", "probe_type"}
        /\ step \in {"probe_status", "probe_type"} => life = "update"
    BY <1>1 DEF IndInv, TypeOK, Rest, LifeInv
  <2>1. CASE UNCHANGED husb
    BY <2>1
  <2>2. CASE ProbeFreeIrq \/ RemoveBegin \/ ShutdownBegin
    BY <2>0, <2>2 DEF ProbeFreeIrq, RemoveBegin, ShutdownBegin, StopInterrupts, HusbType
  <2>3. CASE \E f : husb' = husb320_disconnect(husb, f)
    BY <2>0, <2>3, Disconnect
  <2>4. CASE ProbeUnregister
    <3>1. PICK f : husb' = [husb320_disconnect(husb, f) EXCEPT !.shutting_down = TRUE]
      BY <2>4 DEF ProbeUnregister
    <3> DEFINE d == husb320_disconnect(husb, f)
    <3>2. d \in HusbType /\ (d.vbus_on => husb.vbus_on) /\ d.usb_role \in {husb.usb_role, "none"}
      BY <2>0, Disconnect
    <3> HIDE DEF d
    <3>3. husb' = [d EXCEPT !.shutting_down = TRUE]
      BY <3>1 DEF d
    <3> QED BY <3>2, <3>3 DEF HusbType
  <2>5. CASE ReadTypeAndApply
    <3>1. life = "update"
      BY <2>0, <2>5 DEF ReadTypeAndApply, UpdateReturns
    <3>2. \/ UNCHANGED husb
          \/ \E s \in States, o \in {"none", "normal", "reverse"} : \E fd, fa :
               husb' = husb320_apply_state(husb, s, o, fd, fa).h
      <4> DEFINE s == husb320_get_state(seen, chip.kind)
                 o == IF s = "unattached" THEN "none" ELSE seen.cc
      <4>1. s \in States
        BY <1>1 DEF IndInv, TypeOK, husb320_get_state, ChipType, States
      <4>2. o \in {"none", "normal", "reverse"}
        BY <1>1 DEF IndInv, TypeOK
      <4> HIDE DEF s, o
      <4>3. CASE UpdateReturns(Fail(husb))
        BY <4>3 DEF UpdateReturns, Fail
      <4>4. CASE \E fd, fa : UpdateReturns(husb320_apply_state(husb, s, o, fd, fa))
        BY <4>1, <4>2, <4>4 DEF UpdateReturns
      <4> QED BY <2>5, <4>3, <4>4 DEF ReadTypeAndApply, s, o
    <3>3. husb'.shutting_down = husb.shutting_down
      <4>1. ASSUME NEW s \in States, NEW o \in {"none", "normal", "reverse"}, NEW fd, NEW fa
            PROVE  husb320_apply_state(husb, s, o, fd, fa).h.shutting_down = husb.shutting_down
        <5> DEFINE r == husb320_apply_state(husb, s, o, fd, fa)
        <5>1. /\ r.h \in HusbType /\ r.ok \in BOOLEAN
              /\ r.h.shutting_down = husb.shutting_down
          BY <2>0, ApplyState
        <5> QED BY <5>1
      <4> QED BY <3>2, <4>1
    <3> QED BY <3>1, <3>3
  <2>6. CASE Environment
    BY <2>1, <2>2, <2>6 DEF Environment, Plug, Unplug, ChipNotify, husb320_port_type_set,
       husb320_try_role_set
  <2>7. CASE Controller \/ IrqThread
    BY <2>0, <2>1, <2>7 DEF Controller, ChipDetach, ChipAttach, IrqThread, IrqEnter, IrqAck, IrqErr
  <2>8. CASE LockHolder
    BY <2>0, <2>1, <2>5, <2>8 DEF LockHolder, ReadStatus, ErrorRecovery
  <2>9. CASE Lifecycle
    BY <2>1, <2>2, <2>3, <2>4, <2>9 DEF Lifecycle, husb320_hw_init, RegisterPort, RequestIrq,
       ProbeUpdate, ProbeUnmask, RemoveFreeIrq, husb320_remove, ShutdownDisableIrq,
       husb320_shutdown
  <2> QED BY <1>1, <2>1, <2>6, <2>7, <2>8, <2>9 DEF Next, vars
<1>2. IndInv /\ [Next]_vars => [Final]_vars
  BY <1>1
<1>3. Spec => [][Final]_vars
  BY <1>2, Invariance, PTL DEF Spec
<1> QED BY <1>3 DEF ShutdownIsFinal
=============================================================================
