----------------------------- MODULE SkwService -----------------------------
(***************************************************************************)
(* The service control of the Seekwave platform driver on SDIO             *)
(* (seekwaveplatform/skwutil/skw_boot.c, sdio/skw_sdio_main.c and          *)
(* sdio/skw_sdio_rx.c): the Wi-Fi and the Bluetooth driver start and stop  *)
(* their service on the chip's processor (the CP), which is powered off    *)
(* when none is left, rebooted when one is wanted again, and recovered     *)
(* after it has asserted.                                                  *)
(*                                                                         *)
(* Four threads run the code: a caller for each service, the RX thread     *)
(* (skw_sdio_handle_packet, and the notifiers it calls) and the delayed    *)
(* exception work.  boot_mutex is held over skw_boot_loader, except_mutex  *)
(* over a start or a stop; cp_state, service_state_map and power_off are   *)
(* also read and written without them, and every waiter shares the one     *)
(* completion download_done.                                               *)
(*                                                                         *)
(* A step runs from one point where another thread can interfere to the    *)
(* next.  The build is the tree's own: CONFIG_SEEKWAVE_PLD_RELEASE is set  *)
(* by the Makefile, the chip is an SV6160 and has its enable GPIO.  The    *)
(* log switch of the CP, the wake GPIOs, the data ports and the parsing of *)
(* the firmware images are left out.                                       *)
(***************************************************************************)
EXTENDS Integers, Sequences

CONSTANTS
  Services,   \* the services whose driver is loaded: "wifi", "bt"
  MaxChan,    \* bound: messages the CP may have under way
  MaxCalls,   \* bound: how often the drivers start or stop a service
  MaxAsserts, \* bound: how often the CP asserts, or is told to
  MaxSlow,    \* bound: how often an answer comes later than its timeout
  MaxHangs    \* bound: how often a reset fails or the CP hangs in its boot

ASSUME ServiceAssumption ==
  /\ Services \subseteq {"wifi", "bt"}
  /\ MaxChan \in Nat \ {0} /\ MaxCalls \in Nat /\ MaxAsserts \in Nat
  /\ MaxSlow \in Nat /\ MaxHangs \in Nat

Threads == Services \cup {"rx", "work"}

VARIABLES
  sdio,      \* cp_state, service_state_map, power_off and host_state of skw_sdio
  done,      \* the completion download_done
  boot,      \* who holds boot_mutex
  except,    \* who holds except_mutex
  th,        \* where each thread is, and in which call
  pend,      \* skw_except_work is scheduled
  chan,      \* the messages of the CP on their way
  cp,        \* the CP: its state, its services, the commands it has not handled
  fw_assert, \* SKW_FLAG_FW_ASSERT of the Wi-Fi driver
  recovery,  \* the recovery work of the Wi-Fi driver: scheduled, running
  left       \* what is left of the bounds

vars == <<sdio, done, boot, except, th, pend, chan, cp, fw_assert, recovery, left>>
locks  == <<boot, except>>
driver == <<fw_assert, recovery>>

NoOne == "none"
Idle  == [pc |-> "idle", kind |-> "stop", svc |-> "wifi", ok |-> TRUE, back |-> "idle",
          copy |-> {}, msg |-> <<"none">>]
CpOff == [st |-> "off", services |-> {}, cmds |-> {}]
InException == sdio.cp_state # "ok"

Spend(what) == left[what] > 0 /\ left' = [left EXCEPT ![what] = @ - 1]

Goto(t, p) == th' = [th EXCEPT ![t] = IF p = "idle" THEN Idle ELSE [@ EXCEPT !.pc = p]]
-----------------------------------------------------------------------------
(* Calls: skw_start_wifi_service, skw_stop_wifi_service and the same for     *)
(* Bluetooth, made by a driver, and by the notifiers on the RX thread and    *)
(* the exception work.                                                       *)

Call(t, kind, svc) ==
  th' = [th EXCEPT ![t] = [Idle EXCEPT !.pc = "boot_mutex", !.kind = kind, !.svc = svc]]

\* A driver asks for its service, or gives it up.
DriverCalls(t, kind) ==
  /\ th[t].pc = "idle"
  /\ Spend("calls")
  /\ Call(t, kind, t)
  /\ UNCHANGED <<sdio, done, locks, pend, chan, cp, driver>>

\* skw_boot_loader: a chip that is off is rebooted first, whatever is asked.
skw_boot_loader(t) ==
  /\ th[t].pc = "boot_mutex"
  /\ boot = NoOne
  /\ boot' = t
  /\ LET ops == IF th[t].kind = "start" THEN "wait_event" ELSE "except_mutex"
     IN  th' = [th EXCEPT ![t].pc = IF sdio.power_off THEN "reset" ELSE ops,
                          ![t].back = ops]
  /\ UNCHANGED <<sdio, done, except, pend, chan, cp, driver, left>>

\* Mutant: the return forgets except_mutex.
ReturnWithoutUnlock(t) ==
  /\ boot' = NoOne
  /\ th' = [th EXCEPT ![t] = Idle]
  /\ UNCHANGED <<except, driver>>

\* The call returns and the locks it holds are released.  The RX thread and the
\* exception work go on; the recovery work of the Wi-Fi driver takes the
\* firmware for alive again, whatever was returned.
Return(t) ==
  /\ boot' = NoOne
  /\ except' = IF except = t THEN NoOne ELSE except
  /\ th' = [th EXCEPT ![t] =
              [Idle EXCEPT !.pc = CASE t = "rx" /\ th[t].svc = "wifi" -> "notify_bt"
                                    [] t = "work" -> "clear_map"
                                    [] OTHER -> "idle",
                           !.kind = IF t \in Services THEN th[t].kind ELSE @]]
  /\ IF t = "wifi" /\ recovery.running
     THEN fw_assert' = FALSE /\ recovery' = [recovery EXCEPT !.running = FALSE]
     ELSE UNCHANGED driver

\* A start waits up to 2 s for the end of an exception, and has nothing to do
\* for a service that is on.  (The RX thread is not 2 s away from the end.)
skw_sdio_cp_service_ops(t) ==
  /\ th[t].pc = "wait_event"
  /\ InException => th["rx"].pc # "version"
  /\ IF th[t].svc \in sdio.map
     THEN Return(t)
     ELSE Goto(t, "except_mutex") /\ UNCHANGED <<locks, driver>>
  /\ UNCHANGED <<sdio, done, pend, chan, cp, left>>

\* skw_WIFI_service_start and skw_BT_service_start, up to the command.
service_start(t) ==
  /\ th[t].pc = "except_mutex" /\ th[t].kind = "start"
  /\ except = NoOne
  /\ except' = t
  /\ th' = [th EXCEPT ![t].pc = IF sdio.map = {} /\ sdio.power_off THEN "reset" ELSE "send",
                      ![t].back = "send"]
  /\ UNCHANGED <<sdio, done, boot, pend, chan, cp, driver, left>>

\* send_modem_service_command(service, START): refused during an exception,
\* failing on a chip that is off.
send_start(t) ==
  /\ th[t].pc = "send"
  /\ IF InException \/ cp.st = "off"
     THEN Return(t) /\ UNCHANGED cp
     ELSE /\ cp' = [cp EXCEPT !.cmds = @ \cup {<<"start", th[t].svc>>}]
          /\ th' = [th EXCEPT ![t].pc = "reinit", ![t].back = "unlock"]
          /\ UNCHANGED <<locks, driver>>
  /\ UNCHANGED <<sdio, done, pend, chan, left>>

\* skw_check_cp_ready forgets what was completed so far ...
skw_check_cp_ready(t) ==
  /\ th[t].pc = "reinit"
  /\ done' = FALSE
  /\ Goto(t, "wait")
  /\ UNCHANGED <<sdio, locks, pend, chan, cp, driver, left>>

\* ... and waits for the next completion: the start returns 0,
StartCompleted(t) ==
  /\ th[t].pc = "wait" /\ th[t].back = "unlock"
  /\ done
  /\ done' = FALSE
  /\ Return(t)
  /\ UNCHANGED <<sdio, pend, chan, cp, left>>

\* or the boot or the stop goes on;
Completed(t) ==
  /\ th[t].pc = "wait" /\ th[t].back # "unlock"
  /\ done
  /\ done' = FALSE
  /\ Goto(t, th[t].back)
  /\ UNCHANGED <<sdio, locks, pend, chan, cp, driver, left>>

\* The answer t waits for is on its way to an RX thread that reads.
Answering(t) ==
  LET m == CASE th[t].back = "unlock" -> {<<"ready", th[t].svc>>}
             [] th[t].back = "off"    -> {<<"exit", "bt">>}
             [] OTHER -> IF InException THEN {} ELSE {<<"bspready">>, <<"trunk_W">>}
  IN  /\ th["rx"].pc \in {"idle", "handle", "version"} /\ ~sdio.power_off
      /\ \/ \E i \in DOMAIN chan : chan[i] \in m
         \/ th["rx"].msg \in m
         \/ cp.st = "boot" /\ <<"bspready">> \in m
         \/ cp.st = "up" /\ <<th[t].kind, th[t].svc>> \in cp.cmds

\* but no longer than a second.
TimedOut(t) ==
  /\ th[t].pc = "wait"
  /\ ~done
  /\ IF Answering(t) THEN Spend("slow") ELSE UNCHANGED left
  /\ IF th[t].back = "unlock"
     THEN Return(t)
     ELSE Goto(t, th[t].back) /\ UNCHANGED <<locks, driver>>
  /\ UNCHANGED <<sdio, done, pend, chan, cp>>

\* skw_WIFI_service_stop and skw_BT_service_stop: the bit is read, ...
service_stop(t) ==
  /\ th[t].pc = "except_mutex" /\ th[t].kind = "stop"
  /\ except = NoOne
  /\ except' = t
  /\ LET on == th[t].svc \in sdio.map /\ (th[t].svc = "wifi" \/ ~InException)
     IN  th' = [th EXCEPT ![t].pc = IF on THEN "clear" ELSE "off",
                          ![t].copy = IF on THEN sdio.map ELSE {}]
  /\ UNCHANGED <<sdio, done, boot, pend, chan, cp, driver, left>>

\* ... send_modem_service_command(service, STOP) stores the map without it (a
\* load and a store), and writes the command unless there is an exception; the
\* end of the Bluetooth service is waited for.
send_stop(t) ==
  /\ th[t].pc = "clear"
  /\ sdio' = [sdio EXCEPT !.map = th[t].copy \ {th[t].svc}]
  /\ LET fails == InException \/ cp.st = "off"
     IN  /\ cp' = IF fails THEN cp ELSE [cp EXCEPT !.cmds = @ \cup {<<"stop", th[t].svc>>}]
         /\ th' = [th EXCEPT ![t].ok = ~fails, ![t].back = "off", ![t].copy = {},
                     ![t].pc = IF th[t].svc = "bt" /\ ~fails THEN "reinit" ELSE "off"]
  /\ UNCHANGED <<done, locks, pend, chan, driver, left>>

\* The last stop powers the chip off; what it had to say is lost.
power_off(t) ==
  /\ th[t].pc = "off"
  /\ IF ~InException /\ th[t].ok /\ sdio.map = {} /\ ~sdio.power_off
     THEN /\ sdio' = [sdio EXCEPT !.power_off = TRUE]
          /\ cp' = CpOff
          /\ chan' = <<>>
     ELSE UNCHANGED <<sdio, cp, chan>>
  /\ Return(t)
  /\ UNCHANGED <<done, pend, left>>
-----------------------------------------------------------------------------
(* skw_recovery_mode: reset the card, download the firmware, start it. *)

\* skw_sdio_cp_reset.  None of the callers of skw_recovery_mode looks at its
\* result.
skw_sdio_cp_reset(t) ==
  /\ th[t].pc = "reset"
  /\ chan' = <<>>
  /\ \/ /\ sdio' = [sdio EXCEPT !.power_off = FALSE]
        /\ cp' = [CpOff EXCEPT !.st = "reset"]
        /\ Goto(t, "boot")
        /\ UNCHANGED left
     \/ /\ Spend("hangs")
        /\ cp' = [CpOff EXCEPT !.st = "hung"]
        /\ Goto(t, th[t].back)
        /\ UNCHANGED sdio
  /\ UNCHANGED <<done, locks, pend, driver>>

\* Mutant: the firmware is waited for in an exception, too.
boot_cp_always_waits(t) ==
  /\ th[t].pc = "boot"
  /\ cp' = IF cp.st = "reset" THEN [cp EXCEPT !.st = "boot"] ELSE cp
  /\ Goto(t, "reinit")
  /\ UNCHANGED <<sdio, done, locks, pend, chan, driver, left>>

\* skw_sdio_boot_cp waits for the firmware only outside an exception.
skw_sdio_boot_cp(t) ==
  /\ th[t].pc = "boot"
  /\ cp' = IF cp.st = "reset" THEN [cp EXCEPT !.st = "boot"] ELSE cp
  /\ Goto(t, IF InException THEN th[t].back ELSE "reinit")
  /\ UNCHANGED <<sdio, done, locks, pend, chan, driver, left>>
-----------------------------------------------------------------------------
(* The RX thread: messages of the loopcheck channel. *)

Handling(m) == th["rx"].pc = "handle" /\ th["rx"].msg = m
RxEnd == Goto("rx", "idle")

\* A chip that is off is not read.
Receive ==
  /\ th["rx"].pc = "idle"
  /\ chan # <<>> /\ ~sdio.power_off
  /\ chan' = Tail(chan)
  /\ th' = [th EXCEPT !["rx"] = [Idle EXCEPT !.pc = "handle", !.msg = Head(chan),
              !.copy = IF Head(chan)[1] = "ready" THEN sdio.map ELSE {}]]
  /\ UNCHANGED <<sdio, done, locks, pend, cp, driver, left>>

\* WIFIREADY and BTREADY: service_state_map |= bit is a load and a store too.
HandleReady(svc) ==
  /\ Handling(<<"ready", svc>>)
  /\ sdio' = [sdio EXCEPT !.map = th["rx"].copy \cup {svc}]
  /\ done' = TRUE
  /\ RxEnd
  /\ UNCHANGED <<locks, pend, chan, cp, driver, left>>

HandleExit ==
  /\ Handling(<<"exit", "bt">>)
  /\ done' = TRUE
  /\ RxEnd
  /\ UNCHANGED <<sdio, locks, pend, chan, cp, driver, left>>

\* BSPREADY: the version is asked for, and a CP that lives answers.
HandleBspReady ==
  /\ Handling(<<"bspready">>)
  /\ chan' = IF cp.st = "up" THEN Append(chan, <<"trunk_W">>) ELSE chan
  /\ RxEnd
  /\ UNCHANGED <<sdio, done, locks, pend, cp, driver, left>>

\* Mutant: the exception work is not scheduled, DUMPDONE being expected.
assert_without_work ==
  /\ Handling(<<"assert">>)
  /\ Goto("rx", "assert_mutex")
  /\ UNCHANGED <<sdio, done, locks, pend, chan, cp, driver, left>>

\* BSPASSERT: the exception work is scheduled, outside the mutex, ...
HandleAssert ==
  /\ Handling(<<"assert">>)
  /\ pend' = (pend \/ ~InException)
  /\ Goto("rx", "assert_mutex")
  /\ UNCHANGED <<sdio, done, locks, chan, cp, driver, left>>

\* Mutant: the number of the event is stored, as the other handlers do.
assert_stores_event ==
  /\ th["rx"].pc = "assert_mutex"
  /\ except = NoOne
  /\ sdio' = [sdio EXCEPT !.cp_state = "event"]
  /\ Goto("rx", "assert_map")
  /\ UNCHANGED <<done, locks, pend, chan, cp, driver, left>>

\* ... a recovery of the work is left alone, otherwise the exception begins
AssertLocked ==
  /\ th["rx"].pc = "assert_mutex"
  /\ except = NoOne
  /\ IF sdio.cp_state = "blocked"
     THEN RxEnd /\ UNCHANGED sdio
     ELSE /\ sdio' = [sdio EXCEPT !.cp_state = "assert"]
          /\ Goto("rx", "assert_map")
  /\ UNCHANGED <<done, locks, pend, chan, cp, driver, left>>

\* and ends all services.  skw_bsp_notifier of the Wi-Fi driver cancels the
\* driver's recovery work, ...
NotifyAssert ==
  /\ th["rx"].pc = "assert_map"
  /\ sdio' = [sdio EXCEPT !.map = {}]
  /\ fw_assert' = TRUE
  /\ recovery' = [recovery EXCEPT !.scheduled = FALSE]
  /\ Goto("rx", "notify_wifi")
  /\ UNCHANGED <<done, locks, pend, chan, cp, left>>

\* ... waits for its end, and stops the service; the Bluetooth driver
\* (btseekwave_plt_event_notifier) stops its own.
NotifyStops(svc) ==
  /\ th["rx"].pc = (IF svc = "wifi" THEN "notify_wifi" ELSE "notify_bt")
  /\ svc = "wifi" => ~recovery.running
  /\ IF svc \in Services
     THEN Call("rx", "stop", svc)
     ELSE Goto("rx", IF svc = "wifi" THEN "notify_bt" ELSE "idle")
  /\ UNCHANGED <<sdio, done, locks, pend, chan, cp, driver, left>>

\* DUMPDONE: the exception work is not needed any more,
HandleDumpDone ==
  /\ Handling(<<"dumpdone">>)
  /\ except = NoOne
  /\ IF sdio.cp_state = "blocked"
     THEN RxEnd /\ UNCHANGED sdio
     ELSE /\ sdio' = [sdio EXCEPT !.cp_state = "dumpdone"]
          /\ Goto("rx", "cancel")
  /\ UNCHANGED <<done, locks, pend, chan, cp, driver, left>>

\* it is cancelled, waited for, and the chip recovered here.
CancelWork ==
  /\ th["rx"].pc = "cancel"
  /\ th["work"].pc = "idle"
  /\ pend' = FALSE
  /\ th' = [th EXCEPT !["rx"] = [Idle EXCEPT !.pc = "reset"]]
  /\ UNCHANGED <<sdio, done, locks, chan, cp, driver, left>>

\* Mutant: cp_state is tested after it was cleared.
version_tested_late ==
  /\ Handling(<<"trunk_W">>)
  /\ done' = TRUE
  /\ Goto("rx", "version")
  /\ UNCHANGED <<sdio, recovery, locks, pend, chan, cp, fw_assert, left>>

\* The version of the firmware (trunk_W...): a boot is complete.  The drivers
\* hear of it after an exception only, and before the exception is over.
HandleVersion ==
  /\ Handling(<<"trunk_W">>)
  /\ IF InException
     THEN recovery' = [recovery EXCEPT !.scheduled = TRUE] /\ UNCHANGED done
     ELSE done' = TRUE /\ UNCHANGED recovery
  /\ Goto("rx", "version")
  /\ UNCHANGED <<sdio, locks, pend, chan, cp, fw_assert, left>>

EndException ==
  /\ th["rx"].pc = "version"
  /\ sdio' = [sdio EXCEPT !.cp_state = "ok", !.host_state = FALSE]
  /\ RxEnd
  /\ UNCHANGED <<done, locks, pend, chan, cp, driver, left>>
-----------------------------------------------------------------------------
(* The exception work, and the Wi-Fi driver's side. *)

\* The delay (2 s or 8 s) outlasts every hold of except_mutex (1 s), so the
\* RX thread that scheduled the work is not waiting for the mutex any more.
WorkBegins ==
  /\ pend
  /\ th["work"].pc = "idle"
  /\ ~(th["rx"].pc = "assert_mutex" /\ ~InException)
  /\ pend' = FALSE
  /\ Goto("work", "work_mutex")
  /\ UNCHANGED <<sdio, done, locks, chan, cp, driver, left>>

\* An assert that has not ended with a dump: DEVICE_BLOCKED_EVENT, which the
\* Wi-Fi driver takes as an assert, unless the host itself is to blame.
skw_sdio_exception_work ==
  /\ th["work"].pc = "work_mutex"
  /\ except = NoOne
  /\ IF sdio.cp_state # "assert"
     THEN Goto("work", "idle") /\ UNCHANGED <<sdio, driver>>
     ELSE /\ sdio' = [sdio EXCEPT !.cp_state = "blocked"]
          /\ IF sdio.host_state
             THEN Goto("work", "clear_map") /\ UNCHANGED driver
             ELSE /\ fw_assert' = TRUE
                  /\ recovery' = [recovery EXCEPT !.scheduled = FALSE]
                  /\ Goto("work", "notify_wifi")
  /\ UNCHANGED <<done, locks, pend, chan, cp, left>>

WorkStops ==
  /\ th["work"].pc = "notify_wifi"
  /\ ~recovery.running
  /\ IF "wifi" \in Services THEN Call("work", "stop", "wifi") ELSE Goto("work", "clear_map")
  /\ UNCHANGED <<sdio, done, locks, pend, chan, cp, driver, left>>

WorkRecovers ==
  /\ th["work"].pc = "clear_map"
  /\ sdio' = [sdio EXCEPT !.map = {}]
  /\ th' = [th EXCEPT !["work"] = [Idle EXCEPT !.pc = "reset"]]
  /\ UNCHANGED <<done, locks, pend, chan, cp, driver, left>>

\* skw_hw_assert, when a Wi-Fi command is not answered, and
\* send_modem_assert_command; whether the CP reacts is open.  (The command took
\* seconds to time out: the RX thread is not about to end an exception.)
send_modem_assert_command ==
  /\ "wifi" \in Services /\ th["wifi"].kind = "start" /\ th["wifi"].pc = "idle"
  /\ th["rx"].pc # "version"
  /\ ~fw_assert
  /\ Spend("asserts")
  /\ fw_assert' = TRUE
  /\ IF InException
     THEN UNCHANGED <<sdio, pend>>
     ELSE /\ sdio' = [sdio EXCEPT !.cp_state = "assert", !.host_state = @ \/ cp.st = "off"]
          /\ pend' = TRUE
  /\ UNCHANGED <<done, locks, th, chan, cp, recovery>>

\* The recovery work of the Wi-Fi driver enables the service first.
RecoveryWork ==
  /\ recovery.scheduled
  /\ "wifi" \in Services /\ th["wifi"].pc = "idle"
  /\ recovery' = [scheduled |-> FALSE, running |-> TRUE]
  /\ Call("wifi", "start", "wifi")
  /\ UNCHANGED <<sdio, done, locks, pend, chan, cp, fw_assert, left>>
-----------------------------------------------------------------------------
(* The CP (external). *)

Send(m) == Len(chan) < MaxChan /\ chan' = Append(chan, m)

CpBoots ==
  /\ cp.st = "boot"
  /\ Send(<<"bspready">>)
  /\ cp' = [cp EXCEPT !.st = "up"]
  /\ UNCHANGED <<sdio, done, locks, th, pend, driver, left>>

CpServes(c) ==
  /\ cp.st = "up"
  /\ c \in cp.cmds
  /\ IF c[1] = "start" THEN Send(<<"ready", c[2]>>)
     ELSE IF c[2] = "bt" THEN Send(<<"exit", "bt">>)
     ELSE UNCHANGED chan
  /\ cp' = [cp EXCEPT !.cmds = @ \ {c},
                      !.services = IF c[1] = "start" THEN @ \cup {c[2]} ELSE @ \ {c[2]}]
  /\ UNCHANGED <<sdio, done, locks, th, pend, driver, left>>

\* The CP asserts, by itself or because it was told to, ...
CpAsserts ==
  /\ cp.st = "up"
  /\ Spend("asserts")
  /\ Send(<<"assert">>)
  /\ cp' = [CpOff EXCEPT !.st = "dead"]
  /\ UNCHANGED <<sdio, done, locks, th, pend, driver>>

\* ... writes its dump, or fails to.
CpDumps ==
  /\ cp.st = "dead"
  /\ \/ Send(<<"dumpdone">>) /\ cp' = [cp EXCEPT !.st = "dumped"]
     \/ cp' = [cp EXCEPT !.st = "stuck"] /\ UNCHANGED chan
  /\ UNCHANGED <<sdio, done, locks, th, pend, driver, left>>

\* The CP stops in its boot.
CpHangs ==
  /\ cp.st = "boot"
  /\ Spend("hangs")
  /\ cp' = [cp EXCEPT !.st = "hung"]
  /\ UNCHANGED <<sdio, done, locks, th, pend, chan, driver>>
-----------------------------------------------------------------------------
\* The firmware has been booted once, and no service started.
Init ==
  /\ sdio = [cp_state |-> "ok", map |-> {}, power_off |-> FALSE, host_state |-> FALSE]
  /\ done = FALSE
  /\ boot = NoOne /\ except = NoOne
  /\ th = [t \in Threads |-> Idle]
  /\ pend = FALSE
  /\ chan = <<>>
  /\ cp = [CpOff EXCEPT !.st = "up"]
  /\ fw_assert = FALSE
  /\ recovery = [scheduled |-> FALSE, running |-> FALSE]
  /\ left = [calls |-> MaxCalls, asserts |-> MaxAsserts, slow |-> MaxSlow, hangs |-> MaxHangs]

\* A call goes on.
Step(t) ==
  \/ skw_boot_loader(t)
  \/ skw_sdio_cp_service_ops(t)
  \/ service_start(t)
  \/ send_start(t)
  \/ skw_check_cp_ready(t)
  \/ StartCompleted(t)
  \/ Completed(t)
  \/ TimedOut(t)
  \/ service_stop(t)
  \/ send_stop(t)
  \/ power_off(t)
  \/ skw_sdio_cp_reset(t)
  \/ skw_sdio_boot_cp(t)

\* The RX thread goes on.
RxStep ==
  \/ Receive
  \/ \E svc \in Services : HandleReady(svc)
  \/ HandleExit
  \/ HandleBspReady
  \/ HandleAssert
  \/ AssertLocked
  \/ NotifyAssert
  \/ \E svc \in {"wifi", "bt"} : NotifyStops(svc)
  \/ HandleDumpDone
  \/ CancelWork
  \/ HandleVersion
  \/ EndException

WorkStep ==
  \/ WorkBegins
  \/ skw_sdio_exception_work
  \/ WorkStops
  \/ WorkRecovers

CpStep == CpBoots \/ CpHangs \/ CpDumps \/ \E c \in cp.cmds : CpServes(c)

Next ==
  \/ \E t \in Services, kind \in {"start", "stop"} : DriverCalls(t, kind)
  \/ \E t \in Threads : Step(t)
  \/ RxStep
  \/ WorkStep
  \/ send_modem_assert_command
  \/ RecoveryWork
  \/ CpStep
  \/ CpAsserts

Spec == Init /\ [][Next]_vars

\* The kernel runs every thread, its mutexes are handed over in order and its
\* timers fire; a CP that boots comes up or hangs, one that has asserted writes
\* its dump or is stuck, one that is up serves its commands (in time, unless
\* MaxSlow lets it be late) or asserts.  Nobody has to call.
Fairness ==
  /\ \A t \in Threads : WF_vars(Step(t))
  /\ WF_vars(RxStep)
  /\ WF_vars(WorkStep)
  /\ WF_vars(RecoveryWork)
  /\ WF_vars(CpStep)

FairSpec == Spec /\ Fairness
-----------------------------------------------------------------------------
Message == {<<"ready", "wifi">>, <<"ready", "bt">>, <<"exit", "bt">>, <<"bspready">>,
            <<"assert">>, <<"dumpdone">>, <<"trunk_W">>}

Places == {"idle", "boot_mutex", "wait_event", "except_mutex", "send", "reinit", "wait",
           "clear", "off", "reset", "boot", "handle", "assert_mutex", "assert_map",
           "notify_wifi", "notify_bt", "cancel", "version", "work_mutex", "clear_map"}

Frame == [pc: Places, kind: {"start", "stop"}, svc: {"wifi", "bt"}, ok: BOOLEAN,
          back: {"idle", "wait_event", "except_mutex", "send", "unlock", "off"},
          copy: SUBSET Services, msg: Message \cup {<<"none">>}]

SdioType  == [cp_state: {"ok", "assert", "dumpdone", "blocked"}, map: SUBSET Services,
              power_off: BOOLEAN, host_state: BOOLEAN]
CpType    == [st: {"off", "reset", "boot", "up", "dead", "dumped", "stuck", "hung"},
              services: SUBSET {"wifi", "bt"}, cmds: SUBSET ({"start", "stop"} \X {"wifi", "bt"})]
LeftType  == [calls: 0..MaxCalls, asserts: 0..MaxAsserts, slow: 0..MaxSlow, hangs: 0..MaxHangs]

TypeOK ==
  /\ sdio \in SdioType
  /\ done \in BOOLEAN /\ pend \in BOOLEAN /\ fw_assert \in BOOLEAN
  /\ boot \in Threads \cup {NoOne} /\ except \in Threads \cup {NoOne}
  /\ th \in [Threads -> Frame]
  /\ chan \in Seq(Message)
  /\ cp \in CpType
  /\ recovery \in [scheduled: BOOLEAN, running: BOOLEAN]
  /\ left \in LeftType

\* The RX thread never waits for a completion, which only it could deliver: its
\* own recovery (after DUMPDONE) and the stops of its notifiers find the
\* exception still going on and skip skw_check_cp_ready, whatever else runs.
NoSelfWait == th["rx"].pc # "wait"

\* An exception ends, by a dump or by the exception work, unless the reset
\* fails or the firmware hangs in its boot: nobody retries then.
ExceptionEnds == InException ~> (~InException \/ cp.st = "hung")

\* The exception work recovers a chip whose exception the RX thread ends.
Overtaken == /\ th["work"].pc \notin {"idle", "work_mutex"}
             /\ ~InException \/ th["rx"].pc = "version"

\* The Wi-Fi driver does not take its firmware for dead for ever: the BSPREADY
\* event reaches it, its recovery work starts the service and clears FW_ASSERT.
\* Only an exception work that overlaps the version message can prevent it: the
\* boot it waits for is not announced to the drivers.
AssertEnds == <>Overtaken \/ []<>(~fw_assert \/ cp.st = "hung")

\* Every start and stop of a driver returns: boot_mutex, except_mutex, the RX
\* thread, the work and the Wi-Fi driver's recovery never wait in a circle.
CallsEnd == \A t \in Services : (th[t].pc # "idle") ~> (th[t].pc = "idle")
=============================================================================
