-------------------------- MODULE SkwServiceProofs --------------------------
(***************************************************************************)
(* Proofs about SkwService, for every set of services and every value of   *)
(* the bounds.                                                             *)
(***************************************************************************)
EXTENDS SkwService, TLAPS

\* Where a thread comes back to from a reset or a boot, another step begins.
BackIsStep == \A t \in Threads : th[t].pc \in {"reset", "boot"} => th[t].back # "unlock"

\* What the RX thread does besides reading messages, it does in an exception,
\* and it never starts a service.
InCall == {"boot_mutex", "except_mutex", "clear", "off", "reset", "boot", "assert_map",
           "notify_wifi", "notify_bt", "cancel"}
RxStops ==
  /\ th["rx"].kind = "stop"
  /\ th["rx"].pc \notin {"send", "reinit", "wait", "wait_event"}
  /\ th["rx"].back \in {"idle", "except_mutex", "off"}
  /\ th["rx"].pc \in InCall => InException

ThInv == th \in [Threads -> Frame] /\ BackIsStep /\ RxStops

DriverType == fw_assert \in BOOLEAN /\ recovery \in [scheduled: BOOLEAN, running: BOOLEAN]
LockType   == boot \in Threads \cup {NoOne} /\ except \in Threads \cup {NoOne}
FlagType   == done \in BOOLEAN /\ pend \in BOOLEAN
Rest ==
  /\ sdio \in SdioType /\ FlagType /\ LockType /\ DriverType
  /\ chan \in Seq(Message) /\ cp \in CpType /\ left \in LeftType

\* The inductive invariant.
IInv == ThInv /\ Rest

CpStates == {"ok", "assert", "dumpdone", "blocked"}

\* What the steps do to the records keeps their types.
LEMMA SdioKeeps ==
  ASSUME sdio \in SdioType
  PROVE  /\ \A s \in CpStates : [sdio EXCEPT !.cp_state = s] \in SdioType
         /\ \A m \in SUBSET Services : [sdio EXCEPT !.map = m] \in SdioType
         /\ \A b \in BOOLEAN : [sdio EXCEPT !.power_off = b] \in SdioType
         /\ \A s \in CpStates, b \in BOOLEAN :
              [sdio EXCEPT !.cp_state = s, !.host_state = b] \in SdioType
BY DEF SdioType, CpStates

LEMMA CpKeeps ==
  ASSUME cp \in CpType
  PROVE  /\ CpOff \in CpType
         /\ \A s \in {"off", "reset", "boot", "up", "dead", "dumped", "stuck", "hung"} :
              [cp EXCEPT !.st = s] \in CpType /\ [CpOff EXCEPT !.st = s] \in CpType
         /\ \A C \in SUBSET ({"start", "stop"} \X {"wifi", "bt"}) :
              /\ [cp EXCEPT !.cmds = C] \in CpType
              /\ \A S \in SUBSET {"wifi", "bt"} : [cp EXCEPT !.cmds = C, !.services = S] \in CpType
BY DEF CpType, CpOff

Backs == {"idle", "wait_event", "except_mutex", "send", "unlock", "off"}

LEMMA IdleType == Idle \in Frame
BY DEF Frame, Idle, Places, Message

LEMMA FrameKeeps ==
  ASSUME NEW f \in Frame, NEW p \in Places
  PROVE  /\ [f EXCEPT !.pc = p] \in Frame
         /\ \A k \in {"start", "stop"} : [f EXCEPT !.pc = p, !.kind = k] \in Frame
         /\ \A k \in {"start", "stop"}, v \in {"wifi", "bt"} :
              [f EXCEPT !.pc = p, !.kind = k, !.svc = v] \in Frame
         /\ \A b \in Backs : [f EXCEPT !.pc = p, !.back = b] \in Frame
         /\ \A C \in SUBSET Services : [f EXCEPT !.pc = p, !.copy = C] \in Frame
         /\ \A C \in SUBSET Services, m \in Message :
              [f EXCEPT !.pc = p, !.msg = m, !.copy = C] \in Frame
         /\ \A b \in Backs, C \in SUBSET Services, ok \in BOOLEAN :
              [f EXCEPT !.ok = ok, !.back = b, !.copy = C, !.pc = p] \in Frame
<1>1. /\ [f EXCEPT !.pc = p] \in Frame
      /\ \A k \in {"start", "stop"} : [f EXCEPT !.pc = p, !.kind = k] \in Frame
      /\ \A k \in {"start", "stop"}, v \in {"wifi", "bt"} :
           [f EXCEPT !.pc = p, !.kind = k, !.svc = v] \in Frame
      /\ \A b \in Backs : [f EXCEPT !.pc = p, !.back = b] \in Frame
      /\ \A C \in SUBSET Services : [f EXCEPT !.pc = p, !.copy = C] \in Frame
  BY DEF Frame, Backs
<1>2. \A C \in SUBSET Services, m \in Message :
        [f EXCEPT !.pc = p, !.msg = m, !.copy = C] \in Frame
  BY DEF Frame
<1>3. \A b \in Backs, C \in SUBSET Services, ok \in BOOLEAN :
        [f EXCEPT !.ok = ok, !.back = b, !.copy = C, !.pc = p] \in Frame
  BY DEF Frame, Backs
<1> QED BY <1>1, <1>2, <1>3

LEMMA RecoveryKeeps ==
  ASSUME recovery \in [scheduled: BOOLEAN, running: BOOLEAN]
  PROVE  \A b \in BOOLEAN :
           /\ [recovery EXCEPT !.scheduled = b] \in [scheduled: BOOLEAN, running: BOOLEAN]
           /\ [recovery EXCEPT !.running = b] \in [scheduled: BOOLEAN, running: BOOLEAN]
OBVIOUS

LEMMA SpendType ==
  ASSUME left \in LeftType, NEW what \in {"calls", "asserts", "slow", "hangs"}, Spend(what)
  PROVE  left' \in LeftType
BY ServiceAssumption DEF Spend, LeftType

\* A step of one thread keeps ThInv if its frame fits.
RxFits(f) ==
  /\ f.kind = "stop"
  /\ f.pc \notin {"send", "reinit", "wait", "wait_event"}
  /\ f.back \in {"idle", "except_mutex", "off"}
  /\ f.pc \in InCall => InException'

LEMMA FrameFits ==
  ASSUME ThInv, NEW t \in Threads, NEW f \in Frame, th' = [th EXCEPT ![t] = f],
         f.pc \in {"reset", "boot"} => f.back # "unlock",
         t # "rx" /\ InException => InException',
         t = "rx" => RxFits(f)
  PROVE  ThInv'
<1>1. "rx" \in Threads
  BY DEF Threads
<1>2. th'[t] = f /\ \A u \in Threads \ {t} : th'[u] = th[u]
  BY DEF ThInv
<1>3. th' \in [Threads -> Frame]
  BY DEF ThInv
<1>4. BackIsStep'
  BY <1>2 DEF ThInv, BackIsStep
<1>5. RxStops'
  BY <1>1, <1>2 DEF ThInv, RxStops, RxFits
<1> QED BY <1>3, <1>4, <1>5 DEF ThInv

LEMMA GotoFits ==
  ASSUME ThInv, NEW t \in Threads, NEW p \in Places, Goto(t, p),
         p \in {"reset", "boot"} => th[t].back # "unlock",
         t # "rx" /\ InException => InException',
         t = "rx" => /\ p \notin {"send", "reinit", "wait", "wait_event"}
                     /\ p \in InCall => InException'
  PROVE  ThInv'
<1> DEFINE f == IF p = "idle" THEN Idle ELSE [th[t] EXCEPT !.pc = p]
<1>1. th[t] \in Frame
  BY DEF ThInv
<1>2. f \in Frame
  BY <1>1, FrameKeeps, IdleType
<1>3. th' = [th EXCEPT ![t] = f]
  BY DEF Goto
<1>4. /\ f.pc = p
      /\ p # "idle" => f.back = th[t].back /\ f.kind = th[t].kind
      /\ p = "idle" => f.back = "idle" /\ f.kind = "stop"
  BY <1>1 DEF Frame, Idle
<1>5. t = "rx" => f.kind = "stop" /\ f.back \in {"idle", "except_mutex", "off"}
  BY <1>4 DEF ThInv, RxStops
<1>6. f.pc \in {"reset", "boot"} => f.back # "unlock"
  BY <1>4
<1>7. t = "rx" => RxFits(f)
  BY <1>4, <1>5 DEF RxFits
<1> HIDE DEF f
<1> QED BY <1>2, <1>3, <1>6, <1>7, FrameFits

LEMMA CallFits ==
  ASSUME ThInv, NEW t \in Threads, NEW kind \in {"start", "stop"}, NEW svc \in {"wifi", "bt"},
         Call(t, kind, svc), InException => InException',
         t = "rx" => kind = "stop" /\ InException'
  PROVE  ThInv'
<1> DEFINE f == [Idle EXCEPT !.pc = "boot_mutex", !.kind = kind, !.svc = svc]
<1>1. f \in Frame
  BY FrameKeeps, IdleType DEF Places
<1>2. th' = [th EXCEPT ![t] = f]
  BY DEF Call
<1>3. f.pc = "boot_mutex" /\ f.back = "idle" /\ f.kind = kind
  BY DEF Idle
<1> HIDE DEF f
<1>4. t = "rx" => RxFits(f)
  BY <1>3 DEF RxFits
<1> QED BY <1>1, <1>2, <1>3, <1>4, FrameFits

LEMMA ReturnFits ==
  ASSUME ThInv, Rest, NEW t \in Threads, Return(t), InException => InException',
         t = "rx" => InException
  PROVE  ThInv' /\ LockType' /\ DriverType'
<1> DEFINE p == CASE t = "rx" /\ th[t].svc = "wifi" -> "notify_bt"
                  [] t = "work" -> "clear_map"
                  [] OTHER -> "idle"
           k == IF t \in Services THEN th[t].kind ELSE "stop"
           f == [Idle EXCEPT !.pc = p, !.kind = k]
<1>1. p \in {"notify_bt", "clear_map", "idle"} /\ k \in {"start", "stop"}
      /\ (t = "rx" => k = "stop")
  <2>1. th[t] \in Frame
    BY DEF ThInv
  <2>2. th[t].kind \in {"start", "stop"}
    BY <2>1 DEF Frame
  <2>3. "rx" \notin Services
    BY ServiceAssumption
  <2> QED BY <2>2, <2>3
<1>2. f \in Frame
  <2> HIDE DEF p, k
  <2>1. p \in Places /\ Idle \in Frame
    BY <1>1, IdleType DEF Places
  <2> QED BY <1>1, <2>1, FrameKeeps
<1>3. th' = [th EXCEPT ![t] = f]
  BY DEF Return, Idle
<1>4. f.pc = p /\ f.back = "idle" /\ f.kind = k
  BY DEF Idle
<1>5. ThInv'
  <2> HIDE DEF f, p, k
  <2>1. t = "rx" => RxFits(f)
    BY <1>1, <1>4 DEF RxFits
  <2> QED BY <1>1, <1>2, <1>3, <1>4, <2>1, FrameFits
<1>6. LockType'
  BY DEF Return, Rest, LockType
<1>7. DriverType'
  <2>1. CASE UNCHANGED driver
    BY <2>1 DEF driver, Rest, DriverType
  <2>2. CASE fw_assert' = FALSE /\ recovery' = [recovery EXCEPT !.running = FALSE]
    BY <2>2, RecoveryKeeps DEF Rest, DriverType
  <2> QED BY <2>1, <2>2 DEF Return
<1> QED BY <1>5, <1>6, <1>7

LEMMA InitFits == Init => IInv
<1> SUFFICES ASSUME Init PROVE IInv
  OBVIOUS
<1>1. ThInv
  BY IdleType DEF Init, ThInv, BackIsStep, RxStops, InCall, Idle, Threads
<1>2. left \in LeftType
  BY ServiceAssumption DEF Init, LeftType
<1>3. sdio \in SdioType /\ cp \in CpType /\ chan \in Seq(Message)
  BY DEF Init, SdioType, CpType, CpOff
<1>4. FlagType /\ LockType /\ DriverType
  BY DEF Init, FlagType, LockType, DriverType
<1> QED BY <1>1, <1>2, <1>3, <1>4 DEF IInv, Rest

\* The steps of a call, whoever makes it.
LEMMA StepFits ==
  ASSUME IInv, NEW t \in Threads, Step(t)
  PROVE  IInv'
<1>0. ThInv /\ Rest /\ th[t] \in Frame
  BY DEF IInv, ThInv

<1>1. CASE skw_boot_loader(t)
  <2>1. ThInv'
    <3> DEFINE b == IF th[t].kind = "start" THEN "wait_event" ELSE "except_mutex"
               p == IF sdio.power_off THEN "reset" ELSE b
               f == [th[t] EXCEPT !.pc = p, !.back = b]
    <3>1. f \in Frame
      <4>1. p \in Places /\ b \in Backs
        BY DEF Places, Backs
      <4> HIDE DEF p, b
      <4> QED BY <1>0, <4>1, FrameKeeps
    <3>2. th' = [th EXCEPT ![t] = f]
      BY <1>1 DEF skw_boot_loader
    <3>3. f.kind = th[t].kind /\ f.back = b /\ f.pc \in {"reset", f.back}
      BY <1>0, <1>1 DEF Frame, Idle, skw_boot_loader
    <3>4. InException => InException'
      BY <1>1 DEF skw_boot_loader, InException
    <3> HIDE DEF f
    <3>5. t = "rx" => RxFits(f)
      BY <1>0, <1>1, <3>3 DEF ThInv, RxStops, RxFits, InCall, InException, skw_boot_loader
    <3> QED BY <1>0, <3>1, <3>2, <3>3, <3>4, <3>5, FrameFits
  <2>2. Rest'
    BY <1>0, <1>1 DEF skw_boot_loader, Rest, FlagType, LockType, DriverType, locks, driver
  <2> QED BY <2>1, <2>2 DEF IInv

<1>2. CASE skw_sdio_cp_service_ops(t)
  <2>0. t # "rx" /\ sdio' = sdio
    BY <1>0, <1>2 DEF ThInv, RxStops, skw_sdio_cp_service_ops
  <2>1. ThInv'
    <3>1. CASE Return(t)
      BY <1>0, <2>0, <3>1, ReturnFits DEF InException
    <3>2. CASE Goto(t, "except_mutex")
      BY <1>0, <2>0, <3>2, GotoFits DEF InException, Places
    <3> QED BY <1>2, <3>1, <3>2 DEF skw_sdio_cp_service_ops
  <2>2. Rest'
    <3>1. CASE Return(t)
      BY <1>0, <1>2, <2>0, <3>1, ReturnFits
      DEF InException, skw_sdio_cp_service_ops, Rest, FlagType
    <3>2. CASE UNCHANGED <<locks, driver>>
      BY <1>0, <1>2, <3>2
      DEF skw_sdio_cp_service_ops, Rest, FlagType, LockType, DriverType, locks, driver
    <3> QED BY <1>2, <3>1, <3>2 DEF skw_sdio_cp_service_ops
  <2> QED BY <2>1, <2>2 DEF IInv

<1>3. CASE service_start(t)
  <2>1. ThInv'
    <3> DEFINE p == IF sdio.map = {} /\ sdio.power_off THEN "reset" ELSE "send"
               f == [th[t] EXCEPT !.pc = p, !.back = "send"]
    <3>1. f \in Frame
      <4>1. p \in Places /\ "send" \in Backs
        BY DEF Places, Backs
      <4> HIDE DEF p
      <4> QED BY <1>0, <4>1, FrameKeeps
    <3>2. th' = [th EXCEPT ![t] = f]
      BY <1>3 DEF service_start
    <3>3. /\ f.kind = "start" /\ f.back = "send" /\ f.pc \in {"reset", "send"}
      BY <1>0, <1>3 DEF Frame, Idle, service_start
    <3>4. InException => InException'
      BY <1>3 DEF service_start, InException
    <3> HIDE DEF f
    <3>5. t = "rx" => RxFits(f)
      BY <1>0, <1>3, <3>3 DEF ThInv, RxStops, RxFits, InCall, InException, service_start
    <3> QED BY <1>0, <3>1, <3>2, <3>3, <3>4, <3>5, FrameFits
  <2>2. Rest'
    BY <1>0, <1>3 DEF service_start, Rest, FlagType, LockType, DriverType, locks, driver
  <2> QED BY <2>1, <2>2 DEF IInv

<1>4. CASE skw_check_cp_ready(t)
  <2>1. ThInv'
    BY <1>0, <1>4, GotoFits
    DEF ThInv, BackIsStep, RxStops, InCall, InException, Places, skw_check_cp_ready
  <2>2. Rest'
    BY <1>0, <1>4
    DEF skw_check_cp_ready, Rest, FlagType, LockType, DriverType, locks, driver
  <2> QED BY <2>1, <2>2 DEF IInv

<1>5. CASE StartCompleted(t)
  <2>1. ThInv' /\ LockType' /\ DriverType'
    BY <1>0, <1>5, ReturnFits DEF StartCompleted, ThInv, RxStops, InException
  <2>2. Rest'
    BY <1>0, <1>5, <2>1 DEF StartCompleted, Rest, FlagType
  <2> QED BY <2>1, <2>2 DEF IInv

<1>6. CASE Completed(t)
  <2>1. ThInv'
    <3>1. th[t].back \in Places /\ t # "rx"
      BY <1>0, <1>6 DEF Completed, Frame, Places, ThInv, RxStops
    <3> QED BY <1>0, <1>6, <3>1, GotoFits DEF Completed, InException
  <2>2. Rest'
    BY <1>0, <1>6 DEF Completed, Rest, FlagType, LockType, DriverType, locks, driver
  <2> QED BY <2>1, <2>2 DEF IInv

<1>7. CASE service_stop(t)
  <2>1. ThInv'
    <3>0. sdio.map \in SUBSET Services
      BY <1>0 DEF Rest, SdioType
    <3> DEFINE on == th[t].svc \in sdio.map /\ (th[t].svc = "wifi" \/ ~InException)
               p  == IF on THEN "clear" ELSE "off"
               C  == IF on THEN sdio.map ELSE {}
               f  == [th[t] EXCEPT !.pc = p, !.copy = C]
    <3>1. f \in Frame
      <4>1. p \in Places /\ C \in SUBSET Services
        BY <3>0 DEF Places
      <4> HIDE DEF p, C
      <4> QED BY <1>0, <4>1, FrameKeeps
    <3>2. th' = [th EXCEPT ![t] = f]
      BY <1>7 DEF service_stop
    <3>3. f.kind = "stop" /\ f.back = th[t].back /\ f.pc \in {"clear", "off"}
      BY <1>0, <1>7 DEF Frame, Idle, service_stop
    <3>4. InException => InException'
      BY <1>7 DEF service_stop, InException
    <3> HIDE DEF f
    <3>5. t = "rx" => RxFits(f)
      BY <1>0, <1>7, <3>3 DEF ThInv, RxStops, RxFits, InCall, InException, service_stop
    <3> QED BY <1>0, <3>1, <3>2, <3>3, <3>4, <3>5, FrameFits
  <2>2. Rest'
    BY <1>0, <1>7 DEF service_stop, Rest, FlagType, LockType, DriverType, locks, driver
  <2> QED BY <2>1, <2>2 DEF IInv

<1>8. CASE send_start(t)
  <2>0. t # "rx"
    BY <1>0, <1>8 DEF ThInv, RxStops, send_start
  <2>3. InException => InException'
    BY <1>8 DEF send_start, InException
  <2>4. th[t].svc \in {"wifi", "bt"}
    BY <1>0 DEF Frame
  <2>1. ThInv' /\ LockType' /\ DriverType' /\ (cp \in CpType)'
    <3>1. CASE Return(t) /\ UNCHANGED cp
      BY <1>0, <2>0, <2>3, <3>1, ReturnFits DEF Rest
    <3>2. CASE /\ cp' = [cp EXCEPT !.cmds = @ \cup {<<"start", th[t].svc>>}]
               /\ th' = [th EXCEPT ![t].pc = "reinit", ![t].back = "unlock"]
               /\ UNCHANGED <<locks, driver>>
      <4> DEFINE f == [th[t] EXCEPT !.pc = "reinit", !.back = "unlock"]
                 C == cp.cmds \cup {<<"start", th[t].svc>>}
      <4>1. f \in Frame
        BY <1>0, FrameKeeps DEF Places, Backs
      <4>2. th' = [th EXCEPT ![t] = f]
        BY <3>2
      <4>3. f.pc = "reinit"
        BY <1>0 DEF Frame
      <4>4. C \in SUBSET ({"start", "stop"} \X {"wifi", "bt"}) /\ cp' = [cp EXCEPT !.cmds = C]
        BY <1>0, <2>4, <3>2 DEF Rest, CpType
      <4>5. (cp \in CpType)'
        <5> HIDE DEF C
        <5> QED BY <1>0, <4>4, CpKeeps DEF Rest
      <4>6. ThInv'
        <5> HIDE DEF f
        <5> QED BY <1>0, <2>0, <2>3, <4>1, <4>2, <4>3, FrameFits
      <4> QED BY <1>0, <3>2, <4>5, <4>6 DEF Rest, LockType, DriverType, locks, driver
    <3> QED BY <1>8, <3>1, <3>2 DEF send_start
  <2>2. Rest'
    BY <1>0, <1>8, <2>1 DEF send_start, Rest, FlagType
  <2> QED BY <2>1, <2>2 DEF IInv

<1>9. CASE TimedOut(t)
  <2>0. t # "rx"
    BY <1>0, <1>9 DEF ThInv, RxStops, TimedOut
  <2>3. InException => InException'
    BY <1>9 DEF TimedOut, InException
  <2>4. left' \in LeftType
    BY <1>0, <1>9, SpendType DEF TimedOut, Rest
  <2>1. ThInv' /\ LockType' /\ DriverType'
    <3>1. CASE Return(t)
      BY <1>0, <2>0, <2>3, <3>1, ReturnFits
    <3>2. CASE Goto(t, th[t].back) /\ th[t].back # "unlock" /\ UNCHANGED <<locks, driver>>
      <4>1. th[t].back \in Places
        BY <1>0, <3>2 DEF Frame, Places
      <4>2. ThInv'
        BY <1>0, <2>0, <2>3, <3>2, <4>1, GotoFits
      <4> QED BY <1>0, <3>2, <4>2 DEF Rest, LockType, DriverType, locks, driver
    <3> QED BY <1>9, <3>1, <3>2 DEF TimedOut
  <2>2. Rest'
    BY <1>0, <1>9, <2>1, <2>4 DEF TimedOut, Rest, FlagType
  <2> QED BY <2>1, <2>2 DEF IInv

<1>10. CASE send_stop(t)
  <2>3. InException' = InException
    BY <1>10 DEF send_stop, InException
  <2>4. th[t].svc \in {"wifi", "bt"} /\ th[t].copy \in SUBSET Services
    BY <1>0 DEF Frame
  <2>1. ThInv'
    <3> DEFINE fails == InException \/ cp.st = "off"
               p == IF th[t].svc = "bt" /\ ~fails THEN "reinit" ELSE "off"
               f == [th[t] EXCEPT !.ok = ~fails, !.back = "off", !.copy = {}, !.pc = p]
    <3>1. f \in Frame
      <4>1. p \in Places /\ "off" \in Backs /\ {} \in SUBSET Services
        BY DEF Places, Backs
      <4>2. (~fails) \in BOOLEAN
        OBVIOUS
      <4> HIDE DEF p, fails
      <4> QED BY <1>0, <4>1, <4>2, FrameKeeps
    <3>2. th' = [th EXCEPT ![t] = f]
      BY <1>10 DEF send_stop
    <3>3. f.pc = p /\ f.back = "off" /\ f.kind = th[t].kind
      BY <1>0 DEF Frame
    <3>4. t = "rx" => th[t].kind = "stop" /\ InException'
      BY <1>0, <1>10, <2>3 DEF ThInv, RxStops, InCall, send_stop
    <3>5. t = "rx" => RxFits(f)
      <4> HIDE DEF f
      <4> QED BY <2>3, <3>3, <3>4 DEF RxFits
    <3> HIDE DEF f
    <3> QED BY <1>0, <2>3, <3>1, <3>2, <3>3, <3>5, FrameFits
  <2>5. (sdio \in SdioType)'
    <3>1. sdio' = [sdio EXCEPT !.map = th[t].copy \ {th[t].svc}]
      BY <1>10 DEF send_stop
    <3>2. th[t].copy \ {th[t].svc} \in SUBSET Services
      BY <2>4
    <3> QED BY <1>0, <3>1, <3>2, SdioKeeps DEF Rest
  <2>6. (cp \in CpType)'
    <3> DEFINE C == cp.cmds \cup {<<"stop", th[t].svc>>}
    <3>1. C \in SUBSET ({"start", "stop"} \X {"wifi", "bt"})
      BY <1>0, <2>4 DEF Rest, CpType
    <3>2. cp' = cp \/ cp' = [cp EXCEPT !.cmds = C]
      BY <1>10 DEF send_stop
    <3> HIDE DEF C
    <3> QED BY <1>0, <3>1, <3>2, CpKeeps DEF Rest
  <2>2. Rest'
    BY <1>0, <1>10, <2>5, <2>6
    DEF send_stop, Rest, FlagType, LockType, DriverType, locks, driver
  <2> QED BY <2>1, <2>2 DEF IInv

<1>11. CASE power_off(t)
  <2>3. InException' = InException
    BY <1>0, <1>11 DEF power_off, InException, Rest, SdioType
  <2>4. t = "rx" => InException
    BY <1>0, <1>11 DEF power_off, ThInv, RxStops, InCall
  <2>1. ThInv' /\ LockType' /\ DriverType'
    BY <1>0, <1>11, <2>3, <2>4, ReturnFits DEF power_off
  <2>5. (sdio \in SdioType /\ cp \in CpType /\ chan \in Seq(Message))'
    <3>1. CASE sdio' = [sdio EXCEPT !.power_off = TRUE] /\ cp' = CpOff /\ chan' = <<>>
      <4>1. <<>> \in Seq(Message)
        OBVIOUS
      <4>2. [sdio EXCEPT !.power_off = TRUE] \in SdioType /\ CpOff \in CpType
        BY <1>0, SdioKeeps, CpKeeps DEF Rest
      <4> QED BY <3>1, <4>1, <4>2
    <3>2. CASE UNCHANGED <<sdio, cp, chan>>
      BY <1>0, <3>2 DEF Rest
    <3> QED BY <1>11, <3>1, <3>2 DEF power_off
  <2>2. Rest'
    BY <1>0, <1>11, <2>1, <2>5 DEF power_off, Rest, FlagType
  <2> QED BY <2>1, <2>2 DEF IInv

<1>12. CASE skw_sdio_cp_reset(t)
  <2>3. InException' = InException
    BY <1>0, <1>12 DEF skw_sdio_cp_reset, InException, Rest, SdioType
  <2>4. /\ th[t].back \in Places /\ th[t].back \notin {"reset", "boot", "unlock"}
        /\ t = "rx" => th[t].back \in {"idle", "except_mutex", "off"} /\ InException
    BY <1>0, <1>12 DEF skw_sdio_cp_reset, ThInv, BackIsStep, RxStops, InCall, Frame, Places
  <2>5. ThInv'
    <3>1. CASE Goto(t, "boot")
      BY <1>0, <2>3, <2>4, <3>1, GotoFits DEF Places
    <3>2. CASE Goto(t, th[t].back)
      BY <1>0, <2>3, <2>4, <3>2, GotoFits
    <3> QED BY <1>12, <3>1, <3>2 DEF skw_sdio_cp_reset
  <2>1. ThInv'
    BY <2>5
  <2>6. (sdio \in SdioType /\ cp \in CpType /\ left \in LeftType)'
    BY <1>0, <1>12, SdioKeeps, CpKeeps, SpendType DEF skw_sdio_cp_reset, Rest
  <2>7. <<>> \in Seq(Message)
    OBVIOUS
  <2>2. Rest'
    BY <1>0, <1>12, <2>6, <2>7
    DEF skw_sdio_cp_reset, Rest, FlagType, LockType, DriverType, locks, driver
  <2> QED BY <2>1, <2>2 DEF IInv

<1>13. CASE skw_sdio_boot_cp(t)
  <2>3. InException' = InException
    BY <1>13 DEF skw_sdio_boot_cp, InException
  <2>4. /\ th[t].back \in Places /\ th[t].back \notin {"reset", "boot", "unlock"}
        /\ t = "rx" => th[t].back \in {"idle", "except_mutex", "off"} /\ InException
    BY <1>0, <1>13 DEF skw_sdio_boot_cp, ThInv, BackIsStep, RxStops, InCall, Frame, Places
  <2>1. ThInv'
    <3>1. CASE InException /\ Goto(t, th[t].back)
      BY <1>0, <2>3, <2>4, <3>1, GotoFits
    <3>2. CASE t # "rx" /\ Goto(t, "reinit")
      BY <1>0, <2>3, <3>2, GotoFits DEF Places
    <3> QED BY <1>13, <2>4, <3>1, <3>2 DEF skw_sdio_boot_cp
  <2>5. (cp \in CpType)'
    BY <1>0, <1>13, CpKeeps DEF skw_sdio_boot_cp, Rest
  <2>2. Rest'
    BY <1>0, <1>13, <2>5
    DEF skw_sdio_boot_cp, Rest, FlagType, LockType, DriverType, locks, driver
  <2> QED BY <2>1, <2>2 DEF IInv

<1> QED BY <1>1, <1>2, <1>3, <1>4, <1>5, <1>6, <1>7, <1>8, <1>9, <1>10, <1>11, <1>12, <1>13
    DEF Step

\* The RX thread.
LEMMA RxStepFits ==
  ASSUME IInv, RxStep
  PROVE  IInv'
<1>0. /\ ThInv /\ Rest /\ "rx" \in Threads /\ th["rx"] \in Frame
      /\ sdio \in SdioType /\ chan \in Seq(Message)
      /\ recovery \in [scheduled: BOOLEAN, running: BOOLEAN]
  BY DEF IInv, ThInv, Rest, DriverType, Threads
<1>1. CASE Receive
  <2> DEFINE C == IF Head(chan)[1] = "ready" THEN sdio.map ELSE {}
             f == [Idle EXCEPT !.pc = "handle", !.msg = Head(chan), !.copy = C]
  <2>1. C \in SUBSET Services
    BY <1>0 DEF SdioType
  <2>2. Head(chan) \in Message /\ Tail(chan) \in Seq(Message)
    BY <1>0, <1>1 DEF Receive
  <2>3. f \in Frame
    <3> HIDE DEF C
    <3> QED BY <2>1, <2>2, IdleType, FrameKeeps DEF Places
  <2>4. th' = [th EXCEPT !["rx"] = f]
    BY <1>1 DEF Receive
  <2>5. f.pc = "handle" /\ f.kind = "stop" /\ f.back = "idle"
    BY DEF Idle
  <2>6. ThInv'
    <3> HIDE DEF f
    <3> QED BY <1>0, <2>3, <2>4, <2>5, FrameFits DEF RxFits, InCall
  <2>7. Rest'
    BY <1>0, <1>1, <2>2 DEF Receive, Rest, FlagType, LockType, DriverType, locks, driver
  <2> QED BY <2>6, <2>7 DEF IInv
<1>2. CASE \/ \E svc \in Services : HandleReady(svc)
           \/ HandleExit \/ HandleBspReady \/ EndException
  <2>1. RxEnd
    BY <1>2 DEF HandleReady, HandleExit, HandleBspReady, EndException
  <2>2. ThInv'
    BY <1>0, <2>1, GotoFits DEF RxEnd, Places, InCall
  <2>3. Rest'
    <3>1. CASE \E svc \in Services : HandleReady(svc)
      <4>1. PICK svc \in Services : HandleReady(svc)
        BY <3>1
      <4>2. th["rx"].copy \cup {svc} \in SUBSET Services
        BY <1>0 DEF Frame
      <4>3. (sdio \in SdioType)'
        BY <1>0, <4>1, <4>2, SdioKeeps DEF HandleReady
      <4> QED BY <1>0, <4>1, <4>3
          DEF HandleReady, Rest, FlagType, LockType, DriverType, locks, driver
    <3>2. CASE HandleExit
      BY <1>0, <3>2 DEF HandleExit, Rest, FlagType, LockType, DriverType, locks, driver
    <3>3. CASE HandleBspReady
      <4>1. <<"trunk_W">> \in Message
        BY DEF Message
      <4>2. (chan \in Seq(Message))'
        BY <1>0, <3>3, <4>1 DEF HandleBspReady
      <4> QED BY <1>0, <3>3, <4>2
          DEF HandleBspReady, Rest, FlagType, LockType, DriverType, locks, driver
    <3>4. CASE EndException
      <4>1. (sdio \in SdioType)'
        BY <1>0, <3>4, SdioKeeps DEF EndException, CpStates
      <4> QED BY <1>0, <3>4, <4>1
          DEF EndException, Rest, FlagType, LockType, DriverType, locks, driver
    <3> QED BY <1>2, <3>1, <3>2, <3>3, <3>4
  <2> QED BY <2>2, <2>3 DEF IInv
<1>3. CASE HandleAssert \/ HandleVersion
  <2>1. /\ InException' = InException
        /\ Goto("rx", "assert_mutex") \/ Goto("rx", "version")
    BY <1>3 DEF HandleAssert, HandleVersion, InException
  <2>2. ThInv'
    BY <1>0, <2>1, GotoFits DEF Places, InCall
  <2>3. pend' \in BOOLEAN /\ done' \in BOOLEAN
    BY <1>0, <1>3 DEF HandleAssert, HandleVersion, Rest, FlagType
  <2>4. DriverType'
    BY <1>0, <1>3, RecoveryKeeps DEF HandleAssert, HandleVersion, Rest, DriverType, driver
  <2>5. Rest'
    BY <1>0, <1>3, <2>3, <2>4
    DEF HandleAssert, HandleVersion, Rest, FlagType, LockType, locks
  <2> QED BY <2>2, <2>5 DEF IInv
<1>4. CASE AssertLocked \/ HandleDumpDone
  <2>1. CASE RxEnd /\ UNCHANGED sdio
    <3>1. ThInv'
      BY <1>0, <2>1, GotoFits DEF RxEnd, Places, InCall
    <3>2. Rest'
      BY <1>0, <1>4, <2>1
      DEF AssertLocked, HandleDumpDone, Rest, FlagType, LockType, DriverType, locks, driver
    <3> QED BY <3>1, <3>2 DEF IInv
  <2>2. CASE \/ sdio' = [sdio EXCEPT !.cp_state = "assert"] /\ Goto("rx", "assert_map")
             \/ sdio' = [sdio EXCEPT !.cp_state = "dumpdone"] /\ Goto("rx", "cancel")
    <3>1. InException' /\ (sdio \in SdioType)'
      <4>1. InException'
        BY <1>0, <2>2 DEF SdioType, InException
      <4>2. (sdio \in SdioType)'
        BY <1>0, <2>2, SdioKeeps DEF CpStates
      <4> QED BY <4>1, <4>2
    <3>2. ThInv'
      BY <1>0, <2>2, <3>1, GotoFits DEF Places
    <3>3. Rest'
      BY <1>0, <1>4, <3>1
      DEF AssertLocked, HandleDumpDone, Rest, FlagType, LockType, DriverType, locks, driver
    <3> QED BY <3>2, <3>3 DEF IInv
  <2> QED BY <1>4, <2>1, <2>2 DEF AssertLocked, HandleDumpDone
<1>5. CASE NotifyAssert
  <2>1. InException /\ (sdio \in SdioType)' /\ InException'
    BY <1>0, <1>5, SdioKeeps DEF NotifyAssert, ThInv, RxStops, InCall, InException, SdioType
  <2>2. ThInv'
    BY <1>0, <1>5, <2>1, GotoFits DEF NotifyAssert, Places
  <2>3. DriverType'
    BY <1>0, <1>5, RecoveryKeeps DEF NotifyAssert, Rest, DriverType
  <2>4. Rest'
    BY <1>0, <1>5, <2>1, <2>3 DEF NotifyAssert, Rest, FlagType, LockType, locks
  <2> QED BY <2>2, <2>4 DEF IInv
<1>6. CASE \E svc \in {"wifi", "bt"} : NotifyStops(svc)
  <2>1. PICK svc \in {"wifi", "bt"} : NotifyStops(svc)
    BY <1>6
  <2>2. InException /\ InException'
    BY <1>0, <2>1 DEF NotifyStops, ThInv, RxStops, InCall, InException
  <2>3. ThInv'
    <3>1. CASE Call("rx", "stop", svc)
      BY <1>0, <2>2, <3>1, CallFits
    <3>2. CASE Goto("rx", IF svc = "wifi" THEN "notify_bt" ELSE "idle")
      BY <1>0, <2>2, <3>2, GotoFits DEF Places
    <3> QED BY <2>1, <3>1, <3>2 DEF NotifyStops
  <2>4. Rest'
    BY <1>0, <2>1 DEF NotifyStops, Rest, FlagType, LockType, DriverType, locks, driver
  <2> QED BY <2>3, <2>4 DEF IInv
<1>7. CASE CancelWork
  <2>1. InException /\ InException'
    BY <1>0, <1>7 DEF CancelWork, ThInv, RxStops, InCall, InException
  <2> DEFINE f == [Idle EXCEPT !.pc = "reset"]
  <2>2. f \in Frame /\ f.pc = "reset" /\ f.back = "idle" /\ f.kind = "stop"
    BY IdleType, FrameKeeps DEF Places, Idle
  <2>3. th' = [th EXCEPT !["rx"] = f]
    BY <1>7 DEF CancelWork
  <2>4. ThInv'
    <3> HIDE DEF f
    <3> QED BY <1>0, <2>1, <2>2, <2>3, FrameFits DEF RxFits
  <2>5. Rest'
    BY <1>0, <1>7 DEF CancelWork, Rest, FlagType, LockType, DriverType, locks, driver
  <2> QED BY <2>4, <2>5 DEF IInv
<1> QED BY <1>1, <1>2, <1>3, <1>4, <1>5, <1>6, <1>7 DEF RxStep

\* The exception work and the drivers.
LEMMA WorkFits ==
  ASSUME IInv, WorkStep \/ RecoveryWork
  PROVE  IInv'
<1>0. /\ ThInv /\ Rest /\ "work" \in Threads /\ sdio \in SdioType
      /\ recovery \in [scheduled: BOOLEAN, running: BOOLEAN]
  BY DEF IInv, Rest, DriverType, Threads
<1>1. CASE WorkBegins \/ WorkStops
  <2>1. /\ InException' = InException
        /\ Goto("work", "work_mutex") \/ Goto("work", "clear_map") \/ Call("work", "stop", "wifi")
    BY <1>1 DEF WorkBegins, WorkStops, InException
  <2>2. ThInv'
    BY <1>0, <2>1, GotoFits, CallFits DEF Places
  <2>3. Rest'
    BY <1>0, <1>1
    DEF WorkBegins, WorkStops, Rest, FlagType, LockType, DriverType, locks, driver
  <2> QED BY <2>2, <2>3 DEF IInv
<1>2. CASE skw_sdio_exception_work
  <2>1. PICK p \in {"idle", "clear_map", "notify_wifi"} : Goto("work", p)
    BY <1>2 DEF skw_sdio_exception_work
  <2>2. (InException => InException') /\ (sdio \in SdioType)'
    <3>1. InException => InException'
      BY <1>0, <1>2 DEF skw_sdio_exception_work, InException, SdioType
    <3>2. (sdio \in SdioType)'
      BY <1>0, <1>2, SdioKeeps DEF skw_sdio_exception_work, CpStates
    <3> QED BY <3>1, <3>2
  <2>3. ThInv'
    BY <1>0, <2>1, <2>2, GotoFits DEF Places
  <2>4. DriverType'
    BY <1>0, <1>2, RecoveryKeeps DEF skw_sdio_exception_work, Rest, DriverType, driver
  <2>5. Rest'
    BY <1>0, <1>2, <2>2, <2>4 DEF skw_sdio_exception_work, Rest, FlagType, LockType, locks
  <2> QED BY <2>3, <2>5 DEF IInv
<1>3. CASE WorkRecovers
  <2>1. (InException => InException') /\ (sdio \in SdioType)'
    BY <1>0, <1>3, SdioKeeps DEF WorkRecovers, InException, SdioType
  <2> DEFINE f == [Idle EXCEPT !.pc = "reset"]
  <2>2. f \in Frame /\ f.back = "idle"
    BY IdleType, FrameKeeps DEF Places, Idle
  <2>3. th' = [th EXCEPT !["work"] = f]
    BY <1>3 DEF WorkRecovers
  <2>4. ThInv'
    <3> HIDE DEF f
    <3> QED BY <1>0, <2>1, <2>2, <2>3, FrameFits
  <2>5. Rest'
    BY <1>0, <1>3, <2>1
    DEF WorkRecovers, Rest, FlagType, LockType, DriverType, locks, driver
  <2> QED BY <2>4, <2>5 DEF IInv
<1>4. CASE RecoveryWork
  <2>1. "wifi" \in Threads /\ InException' = InException
    BY <1>4 DEF RecoveryWork, Threads, InException
  <2>2. ThInv'
    BY <1>0, <1>4, <2>1, CallFits DEF RecoveryWork
  <2>3. Rest'
    BY <1>0, <1>4 DEF RecoveryWork, Rest, FlagType, LockType, DriverType, locks
  <2> QED BY <2>2, <2>3 DEF IInv
<1> QED BY <1>1, <1>2, <1>3, <1>4 DEF WorkStep

LEMMA DriversFit ==
  ASSUME IInv,
         \/ \E t \in Services, kind \in {"start", "stop"} : DriverCalls(t, kind)
         \/ send_modem_assert_command
  PROVE  IInv'
<1>0. ThInv /\ Rest /\ sdio \in SdioType
  BY DEF IInv, Rest
<1>1. ASSUME NEW t \in Services, NEW kind \in {"start", "stop"}, DriverCalls(t, kind)
      PROVE  IInv'
  <2>1. /\ t \in Threads \ {"rx"} /\ t \in {"wifi", "bt"}
        /\ InException' = InException /\ Call(t, kind, t)
    BY <1>1, ServiceAssumption DEF DriverCalls, Threads, InException
  <2>2. ThInv'
    BY <1>0, <2>1, CallFits
  <2>3. left' \in LeftType
    BY <1>0, <1>1, SpendType DEF DriverCalls, Rest
  <2>4. Rest'
    BY <1>0, <1>1, <2>3
    DEF DriverCalls, Rest, FlagType, LockType, DriverType, locks, driver
  <2> QED BY <2>2, <2>4 DEF IInv
<1>2. CASE send_modem_assert_command
  <2> DEFINE h == sdio.host_state \/ cp.st = "off"
  <2>1. \/ UNCHANGED <<sdio, pend>>
        \/ /\ sdio' = [sdio EXCEPT !.cp_state = "assert", !.host_state = h]
           /\ pend' = TRUE
    BY <1>2 DEF send_modem_assert_command
  <2>2. h \in BOOLEAN
    BY <1>0 DEF SdioType
  <2>3. (sdio \in SdioType)' /\ (InException => InException')
    <3> HIDE DEF h
    <3>1. InException => InException'
      BY <1>0, <2>1 DEF SdioType, InException
    <3>2. (sdio \in SdioType)'
      BY <1>0, <2>1, <2>2, SdioKeeps DEF CpStates
    <3> QED BY <3>1, <3>2
  <2>4. ThInv'
    BY <1>0, <1>2, <2>3 DEF send_modem_assert_command, ThInv, BackIsStep, RxStops
  <2>5. left' \in LeftType
    BY <1>0, <1>2, SpendType DEF send_modem_assert_command, Rest
  <2>6. Rest'
    <3> HIDE DEF h
    <3> QED BY <1>0, <1>2, <2>1, <2>3, <2>5
        DEF send_modem_assert_command, Rest, FlagType, LockType, DriverType, locks
  <2> QED BY <2>4, <2>6 DEF IInv
<1> QED BY <1>1, <1>2

\* The CP.
LEMMA CpFits ==
  ASSUME IInv, CpStep \/ CpAsserts
  PROVE  IInv'
<1>0. ThInv /\ Rest /\ cp \in CpType /\ chan \in Seq(Message)
  BY DEF IInv, Rest
<1>1. UNCHANGED <<sdio, done, locks, th, pend, driver>>
  BY DEF CpStep, CpBoots, CpHangs, CpDumps, CpServes, CpAsserts
<1>2. ThInv'
  BY <1>0, <1>1 DEF ThInv, BackIsStep, RxStops, InException
<1>3. left' \in LeftType
  BY <1>0, SpendType
  DEF CpStep, CpBoots, CpHangs, CpDumps, CpServes, CpAsserts, Rest
<1>4. \A m \in Message : Send(m) => chan' \in Seq(Message)
  BY <1>0 DEF Send
<1>5. (chan \in Seq(Message) /\ cp \in CpType)'
  <2>1. CASE CpBoots \/ CpHangs \/ CpDumps \/ CpAsserts
    BY <1>0, <1>4, <2>1, CpKeeps DEF CpBoots, CpHangs, CpDumps, CpAsserts, Message
  <2>2. ASSUME NEW c \in cp.cmds, CpServes(c)
        PROVE  (chan \in Seq(Message) /\ cp \in CpType)'
    <3> DEFINE C == cp.cmds \ {c}
               S == IF c[1] = "start" THEN cp.services \cup {c[2]} ELSE cp.services \ {c[2]}
    <3>1. c \in {"start", "stop"} \X {"wifi", "bt"}
      BY <1>0 DEF CpType
    <3>2. C \in SUBSET ({"start", "stop"} \X {"wifi", "bt"}) /\ S \in SUBSET {"wifi", "bt"}
      BY <1>0, <3>1 DEF CpType
    <3>3. cp' = [cp EXCEPT !.cmds = C, !.services = S]
      BY <2>2 DEF CpServes
    <3>4. (cp \in CpType)'
      <4> HIDE DEF C, S
      <4> QED BY <1>0, <3>2, <3>3, CpKeeps
    <3>5. <<"ready", c[2]>> \in Message /\ <<"exit", "bt">> \in Message
      BY <3>1 DEF Message
    <3>6. (chan \in Seq(Message))'
      BY <1>0, <1>4, <2>2, <3>5 DEF CpServes
    <3> QED BY <3>4, <3>6
  <2> QED BY <2>1, <2>2 DEF CpStep
<1>6. Rest'
  BY <1>0, <1>1, <1>3, <1>5 DEF Rest, FlagType, LockType, DriverType, locks, driver
<1> QED BY <1>2, <1>6 DEF IInv

\* The invariant is inductive, and holds in every reachable state.
THEOREM Invariance == Spec => []IInv
<1>1. IInv /\ [Next]_vars => IInv'
  <2> SUFFICES ASSUME IInv, [Next]_vars PROVE IInv'
    OBVIOUS
  <2>1. CASE Next
    BY <2>1, StepFits, RxStepFits, WorkFits, DriversFit, CpFits DEF Next
  <2>2. CASE UNCHANGED vars
    BY <2>2 DEF vars, IInv, ThInv, BackIsStep, RxStops, InException,
                Rest, FlagType, LockType, DriverType
  <2> QED BY <2>1, <2>2
<1> QED BY InitFits, <1>1, PTL DEF Spec

\* skw_boot.c, skw_sdio_main.c, skw_sdio_rx.c: whatever drivers are loaded and
\* however often they call, the CP asserts, hangs or is late, the state of the
\* service control keeps its types.
THEOREM TypeCorrect == Spec => []TypeOK
<1>1. IInv => TypeOK
  BY DEF IInv, ThInv, Rest, FlagType, LockType, DriverType, TypeOK
<1> QED BY Invariance, <1>1, PTL

\* skw_sdio_rx.c: the RX thread never waits for the completion that only it
\* delivers.  What it does besides reading messages it does in an exception,
\* which only the RX thread itself ends, and there neither a boot nor a stop
\* waits.
THEOREM NoSelfWaiting == Spec => []NoSelfWait
<1>1. IInv => NoSelfWait
  BY DEF IInv, ThInv, RxStops, NoSelfWait
<1> QED BY Invariance, <1>1, PTL
=============================================================================
