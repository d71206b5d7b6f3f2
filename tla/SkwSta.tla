-------------------------------- MODULE SkwSta --------------------------------
(***************************************************************************)
(* The station of the Wi-Fi driver with the SME of wpa_supplicant          *)
(* (CONFIG_SKW_STA_SME_EXT): authentication and association in             *)
(* skw_cfg80211.c, the management frames and events in skw_msg.c, the      *)
(* connection timer in skw_iface.c and the replay of the interfaces after  *)
(* a death of the firmware in skw_recovery.c, together with the scans and  *)
(* timers of SkwScan.                                                      *)
(*                                                                         *)
(* Three threads act on the station: the caller from cfg80211 (one at a    *)
(* time, under the wiphy's mutex), the ordered event workqueue (frames,    *)
(* events, the connection timer's work) and the recovery work.  core.lock  *)
(* is held over a whole request, frame or timer work, commands included,   *)
(* but neither over a DISCONNECT event nor over the recovery.  A step ends *)
(* where a command is sent, so those two meet the others there.            *)
(*                                                                         *)
(* A command is answered, or refused (one of MaxTurns), or fails because   *)
(* the firmware is dead; SkwCmd models how.  WEP, TDLS, keys, rates and    *)
(* the contents of the frames are left out.                                *)
(***************************************************************************)
EXTENDS SkwScan

CONSTANTS
  Bss,       \* the access points
  Home,      \* the one a connection is with at first
  Ctxs,      \* the peer contexts: 1..n
  MaxRetry,  \* SKW_MAX_AUTH_ASSOC_RETRY_NUM
  MaxQueue,  \* bound: events on the queue
  MaxTurns   \* bound: requests from cfg80211, frames and events nobody asked
             \* for, commands the firmware refuses and its deaths, together

ASSUME StaAssumption ==
  /\ IsFiniteSet(Ctxs) /\ Ctxs # {} /\ Ctxs = 1..Cardinality(Ctxs)
  /\ MaxRetry \in Nat \ {0} /\ MaxQueue \in Nat \ {0} /\ MaxTurns \in Nat
  /\ Home \in Bss /\ "none" \notin Bss \* the address of no access point

VARIABLES
  sta,      \* core.sm, core.bss, core.timer, sta.work and core.pending
  peers,    \* skw->peer_ctx: address and whether frames may be sent
  lock,     \* who holds core.lock
  queue,    \* iface->event_work: events not handled yet
  event,    \* the event workqueue: where it is in a leave
  rd,       \* skw->recovery_data, and SKW_FLAG_FW_CHIP_RECOVERY
  recovery, \* skw->recovery_work
  asserted, \* SKW_FLAG_FW_ASSERT
  fw,       \* the firmware: alive, interface opened, its peers, frames to come
  cfg,      \* what cfg80211 was told: connected to, authenticated with last
  left      \* what is left of MaxTurns

vars == <<timer_data, scanning, user, sta, peers, lock, queue, event, rd, recovery,
          asserted, fw, cfg, left>>
link     == <<sta, peers, cfg>>
restart  == <<rd, recovery, asserted>>
external == <<fw, left>>

NoBss   == "none"
NoPeer  == [addr |-> NoBss, open |-> FALSE]
NoEvent == [pc |-> "idle", bss |-> NoBss, tell |-> "nothing"]
NoSta   == [state |-> "NONE", bss |-> NoBss, ctx |-> 0, sae |-> FALSE, timer |-> FALSE,
            work |-> FALSE, retry |-> 0, fresh |-> FALSE, pending |-> "AUTH"]
Associated == sta.state \in {"ASSOCED", "COMPLETED"}

Spend == left > 0 /\ left' = left - 1

Dead == [up |-> FALSE, opened |-> FALSE, peers |-> [c \in Ctxs |-> NoBss], air |-> {}, again |-> {}]

\* The outcome of a command.
Alive == fw.up /\ fw.opened /\ ~asserted
Answer(ok) ==
  IF Alive THEN IF ok THEN UNCHANGED left ELSE Spend
           ELSE ~ok /\ UNCHANGED left

Tell(b) == cfg' = [c \in DOMAIN cfg |-> IF cfg[c] = b THEN NoBss ELSE cfg[c]]
-----------------------------------------------------------------------------
(* Peer contexts. *)

\* skw_peer_ctx: the context of an address, or 0.
skw_peer_ctx(b) ==
  LET S == {c \in Ctxs : peers[c].addr = b}
  IN  IF b = NoBss \/ S = {} THEN 0 ELSE CHOOSE c \in S : \A d \in S : c <= d

\* Mutant: the transmission is stopped after the command only.
unjoin_stops_late(b, ok, s) ==
  LET c == skw_peer_ctx(b)
  IN  IF c = 0
      THEN sta' = s /\ UNCHANGED <<peers, fw>>
      ELSE /\ sta' = IF ok THEN [s EXCEPT !.bss = NoBss, !.ctx = 0] ELSE s
           /\ peers' = IF ok THEN [peers EXCEPT ![c] = NoPeer] ELSE peers
           /\ fw' = IF ok THEN [fw EXCEPT !.peers[c] = NoBss, !.air = {}, !.again = {}] ELSE fw

\* skw_unjoin, for a station in state s: without a context there is nothing to
\* do; if the command fails everything but the transmission stays.
skw_unjoin(b, ok, s) ==
  LET c == skw_peer_ctx(b)
  IN  IF c = 0
      THEN sta' = s /\ UNCHANGED <<peers, fw>>
      ELSE /\ sta' = IF ok THEN [s EXCEPT !.bss = NoBss, !.ctx = 0] ELSE s
           /\ peers' = [peers EXCEPT ![c] = IF ok THEN NoPeer ELSE [@ EXCEPT !.open = FALSE]]
           /\ fw' = IF ok THEN [fw EXCEPT !.peers[c] = NoBss, !.air = {}, !.again = {}] ELSE fw

\* A command is sent only if there is a context.
Unjoined(b, ok, s) ==
  /\ IF skw_peer_ctx(b) = 0 THEN ok /\ UNCHANGED left ELSE Answer(ok)
  /\ skw_unjoin(b, ok, s)

\* skw_join: the firmware chooses the context, which is bound to the address.
skw_join(b, s) ==
  \E c \in Ctxs :
    /\ fw.peers[c] = NoBss
    /\ fw' = [fw EXCEPT !.peers[c] = b]
    /\ peers' = [peers EXCEPT ![c] = [addr |-> b, open |-> FALSE]]
    /\ sta' = [s EXCEPT !.bss = b, !.ctx = c]

\* skw_sta_leave up to its skw_unjoin: del_timer_sync, skw_set_state.
Leaving(s) == [s EXCEPT !.timer = FALSE, !.state = "NONE", !.sae = FALSE]

\* Mutant: the count goes on.
started_keeps_retry(s, state) == [s EXCEPT !.state = state, !.timer = TRUE]

\* Mutant: the timer is forgotten.
started_without_timer(s, state) == [s EXCEPT !.state = state, !.retry = 0]

\* skw_set_sta_timer, after a change to state.
Started(s, state) == [s EXCEPT !.state = state, !.timer = TRUE, !.retry = 0]
-----------------------------------------------------------------------------
(* Requests from cfg80211. *)

Locked(t) == lock = NoBss /\ lock' = t
User(p) == user' = [user EXCEPT !.pc = p]
Done == user' = NoUser /\ lock' = NoBss

\* skw_auth, up to its first command.  A scan is ended first.
skw_auth(b) ==
  /\ user.pc = "idle" /\ cfg.conn # b
  /\ Spend
  /\ skw_scan_done
  /\ lock = NoBss
  /\ CASE sta.state \in {"AUTHING", "ASSOCING"} \/ (Associated /\ sta.bss = b) ->
            UNCHANGED <<lock, user, sta, cfg>>
       [] Associated /\ sta.bss # b ->
            /\ Tell(sta.bss)
            /\ sta' = [sta EXCEPT !.state = "NONE"]
            /\ lock' = "user"
            /\ user' = [pc |-> "auth_unjoin", arg |-> b, roam |-> TRUE]
       [] sta.state = "NONE" ->
            /\ lock' = "user"
            /\ user' = [pc |-> IF sta.bss # NoBss THEN "auth_unjoin" ELSE "auth_join",
                        arg |-> b, roam |-> FALSE]
            /\ UNCHANGED <<sta, cfg>>
       [] OTHER -> \* AUTHED
            /\ lock' = "user"
            /\ user' = [pc |-> "auth_cmd", arg |-> b, roam |-> FALSE]
            /\ sta' = Started(sta, "AUTHING")
            /\ UNCHANGED cfg
  /\ UNCHANGED <<cqm_low, work_list, peers, queue, event, restart, fw>>

\* The connection that is left, and once more if an address is still there.
auth_unjoin(ok) ==
  /\ user.pc = "auth_unjoin"
  /\ Unjoined(sta.bss, ok, sta)
  /\ IF ok
     THEN /\ user' = [user EXCEPT !.pc = IF user.roam /\ sta'.bss # NoBss
                                         THEN "auth_unjoin" ELSE "auth_join",
                                  !.roam = FALSE]
          /\ UNCHANGED lock
     ELSE Done
  /\ UNCHANGED <<timer_data, scanning, queue, event, restart, cfg>>

auth_join(ok) ==
  /\ user.pc = "auth_join"
  /\ Answer(ok)
  /\ IF ok
     THEN skw_join(user.arg, Started(sta, "AUTHING")) /\ User("auth_cmd") /\ UNCHANGED lock
     ELSE Done /\ UNCHANGED <<sta, peers, fw>>
  /\ UNCHANGED <<timer_data, scanning, queue, event, restart, cfg>>

\* skw_cmd_auth; the confirm of SAE after the peer's own ends in AUTHED.
skw_cmd_auth(ok, confirm) ==
  /\ user.pc = "auth_cmd"
  /\ Answer(ok)
  /\ IF ok
     THEN /\ sta' = [sta EXCEPT !.pending = "AUTH",
                                !.state = IF confirm /\ sta.sae THEN "AUTHED" ELSE @]
          /\ fw' = [fw EXCEPT !.air = @ \cup {<<"auth", user.arg>>}]
          /\ Done
     ELSE /\ sta' = [sta EXCEPT !.pending = "AUTH", !.timer = FALSE]
          /\ User("failed")
          /\ UNCHANGED <<fw, lock>>
  /\ UNCHANGED <<timer_data, scanning, peers, queue, event, restart, cfg>>

\* A failed command undoes the join, and the request is refused.
auth_failed(ok) ==
  /\ user.pc = "failed"
  /\ Unjoined(user.arg, ok, [sta EXCEPT !.state = "NONE"])
  /\ Done
  /\ UNCHANGED <<timer_data, scanning, queue, event, restart, cfg>>

\* skw_assoc: with the access point the station is authenticated with, or
\* a roaming to another one.
skw_assoc(b) ==
  /\ user.pc = "idle" /\ cfg.conn # b
  /\ cfg.auth = b \/ cfg.conn # NoBss
  /\ Spend
  /\ lock = NoBss
  /\ CASE sta.state = "AUTHED" ->
            /\ lock' = "user"
            /\ user' = [NoUser EXCEPT !.pc = "assoc_cmd", !.arg = b]
            /\ sta' = Started(sta, "ASSOCING")
       [] Associated /\ sta.bss # b ->
            /\ lock' = "user"
            /\ user' = [NoUser EXCEPT !.pc = "assoc_unjoin", !.arg = b]
            /\ sta' = [sta EXCEPT !.state = "NONE"]
       [] OTHER -> UNCHANGED <<lock, user, sta>>
  /\ UNCHANGED <<timer_data, scanning, peers, queue, event, restart, fw, cfg>>

assoc_unjoin(ok) ==
  /\ user.pc = "assoc_unjoin"
  /\ Unjoined(sta.bss, ok, sta)
  /\ IF ok THEN User("assoc_join") /\ UNCHANGED lock ELSE Done
  /\ UNCHANGED <<timer_data, scanning, queue, event, restart, cfg>>

assoc_join(ok) ==
  /\ user.pc = "assoc_join"
  /\ Answer(ok)
  /\ IF ok
     THEN skw_join(user.arg, Started(sta, "ASSOCING")) /\ User("assoc_cmd") /\ UNCHANGED lock
     ELSE Done /\ UNCHANGED <<sta, peers, fw>>
  /\ UNCHANGED <<timer_data, scanning, queue, event, restart, cfg>>

skw_cmd_assoc(ok) ==
  /\ user.pc = "assoc_cmd"
  /\ Answer(ok)
  /\ IF ok
     THEN /\ sta' = [sta EXCEPT !.pending = "ASSOC"]
          /\ fw' = [fw EXCEPT !.air = @ \cup {<<"assoc", user.arg>>}]
          /\ Done
     ELSE /\ sta' = [sta EXCEPT !.pending = "ASSOC", !.timer = FALSE]
          /\ User("failed")
          /\ UNCHANGED <<fw, lock>>
  /\ UNCHANGED <<timer_data, scanning, peers, queue, event, restart, cfg>>

\* skw_cfg80211_deauth, skw_cfg80211_disassoc.
skw_cfg80211_deauth(b) ==
  /\ user.pc = "idle" /\ b \in {cfg.conn, cfg.auth} \ {NoBss}
  /\ Spend
  /\ Locked("user")
  /\ sta' = Leaving(sta)
  /\ user' = [NoUser EXCEPT !.pc = "deauth", !.arg = b]
  /\ UNCHANGED <<timer_data, scanning, peers, queue, event, restart, fw, cfg>>

deauth_unjoin(ok) ==
  /\ user.pc = "deauth"
  /\ Unjoined(user.arg, ok, sta)
  /\ Tell(user.arg)
  /\ Done
  /\ UNCHANGED <<timer_data, scanning, queue, event, restart>>

\* skw_change_station (AUTHORIZED), without core.lock.
skw_change_station ==
  /\ user.pc = "idle" /\ cfg.conn # NoBss
  /\ skw_peer_ctx(cfg.conn) # 0 /\ sta.state # "COMPLETED"
  /\ sta' = [sta EXCEPT !.state = "COMPLETED"]
  /\ UNCHANGED <<timer_data, scanning, user, peers, lock, queue, event, restart, external, cfg>>

Scan(id) ==
  /\ Spend
  /\ skw_cqm_bg_scan(id, sta.state = "COMPLETED")
  /\ UNCHANGED <<sta, peers, lock, queue, event, restart, fw, cfg>>

ScanTimer == scan_timer /\ UNCHANGED <<link, lock, queue, event, restart, external>>

ScanCmd(ok) ==
  /\ scan_cmd(ok)
  /\ Answer(ok)
  /\ fw' = IF ok THEN [fw EXCEPT !.air = @ \cup {<<"scan_done", NoBss>>}] ELSE fw
  /\ UNCHANGED <<link, lock, queue, event, restart>>

UserStep ==
  \/ \E ok \in BOOLEAN :
       \/ auth_unjoin(ok) \/ auth_join(ok) \/ auth_failed(ok)
       \/ \E confirm \in BOOLEAN : skw_cmd_auth(ok, confirm)
       \/ assoc_unjoin(ok) \/ assoc_join(ok) \/ skw_cmd_assoc(ok)
       \/ deauth_unjoin(ok) \/ ScanCmd(ok)
  \/ ScanTimer
-----------------------------------------------------------------------------
(* The event workqueue: one work at a time; the works may overtake each    *)
(* other.                                                                  *)

Handles(what, b) ==
  /\ event.pc = "idle" /\ queue # <<>> /\ Head(queue) = <<what, b>>
  /\ queue' = Tail(queue)

\* skw_sta_leave under core.lock; leave_unjoin ends it.
Leave(b, tell) ==
  /\ lock' = "event"
  /\ event' = [pc |-> "leave", bss |-> b, tell |-> tell]

leave_unjoin(ok) ==
  /\ event.pc = "leave"
  /\ Unjoined(event.bss, ok, [sta EXCEPT !.sae = (event.tell = "confirm")])
  /\ CASE event.tell = "deauth"  -> Tell(event.bss)
       [] event.tell = "timeout" -> cfg' = [cfg EXCEPT !.auth = NoBss]
       [] event.tell \in {"nothing", "confirm"} -> UNCHANGED cfg
  /\ event' = NoEvent
  /\ lock' = NoBss
  /\ UNCHANGED <<timer_data, scanning, user, queue, restart>>

\* skw_sta_timer
StaTimer ==
  /\ sta.timer
  /\ sta' = [sta EXCEPT !.timer = FALSE, !.work = TRUE]
  /\ UNCHANGED <<timer_data, scanning, user, peers, lock, queue, event, restart, external, cfg>>

\* skw_sta_work: SKW_STEP_TIMEOUT has elapsed, unless a frame came since the
\* timer was started (fresh); SKW_CONNECT_TIMEOUT may have passed (late).  An
\* attempt without an answer is repeated, with the command that was sent last.
sta_work(elapsed, late) ==
  /\ event.pc = "idle" /\ sta.work /\ lock = NoBss
  /\ elapsed \/ sta.fresh
  /\ LET s     == [sta EXCEPT !.work = FALSE]
         retry == sta.retry + 1
         tries == sta.state \in {"AUTHING", "AUTHED", "ASSOCING"}
         sae   == sta.state = "AUTHED" /\ sta.sae
         fails == tries /\ (late \/ sae \/ (elapsed /\ retry >= MaxRetry))
         sends == tries /\ ~sae /\ elapsed /\ retry < MaxRetry
         counted == IF tries /\ ~sae /\ elapsed THEN [s EXCEPT !.retry = retry] ELSE s
     IN  \/ /\ ~tries /\ elapsed /\ ~late
            /\ sta' = s
            /\ UNCHANGED <<lock, event>>
         \/ /\ sends
            /\ sta' = [counted EXCEPT !.state = IF @ = "AUTHED" THEN "AUTHING" ELSE @]
            /\ lock' = "event"
            /\ event' = [pc |-> "resend", bss |-> sta.bss, tell |-> IF late THEN "late" ELSE "nothing"]
         \/ /\ ~sends /\ fails
            /\ sta' = Leaving(counted)
            /\ Leave(sta.bss, "timeout")
         \/ /\ tries /\ ~sends /\ ~fails
            /\ sta' = [counted EXCEPT !.timer = TRUE, !.fresh = FALSE]
            /\ UNCHANGED <<lock, event>>
  /\ UNCHANGED <<timer_data, scanning, user, queue, peers, restart, external, cfg>>

\* The command is answered: the timer again, or the attempt is given up.
sta_resent(ok) ==
  /\ event.pc = "resend"
  /\ Answer(ok)
  /\ IF ok /\ event.tell # "late"
     THEN /\ sta' = [sta EXCEPT !.timer = TRUE, !.fresh = FALSE]
          /\ lock' = NoBss
          /\ event' = NoEvent
     ELSE /\ sta' = Leaving(sta)
          /\ Leave(sta.bss, "timeout")
  /\ fw' = IF /\ ok /\ \E c \in Ctxs : fw.peers[c] = sta.bss
              /\ sta.pending = (IF sta.state = "ASSOCING" THEN "ASSOC" ELSE "AUTH")
           THEN [fw EXCEPT !.air = @ \cup
                   {<<IF sta.pending = "AUTH" THEN "auth" ELSE "assoc", sta.bss>>}]
           ELSE fw
  /\ UNCHANGED <<timer_data, scanning, user, queue, peers, restart, cfg>>

\* skw_sta_rx_auth; what: "auth", "confirm" (of SAE) or the failure of either.
\* That a confirm came is noted even after it has failed and the station left.
skw_sta_rx_auth(what, b) ==
  /\ Handles(what, b) /\ lock = NoBss
  /\ IF sta.bss # b
     THEN UNCHANGED <<sta, cfg, lock, event>>
     ELSE LET s == [sta EXCEPT !.state = "AUTHED", !.fresh = TRUE, !.retry = 0]
          IN  IF what \in {"auth_fail", "confirm_fail"}
              THEN /\ sta' = Leaving(s)
                   /\ Leave(b, IF what = "confirm_fail" THEN "confirm" ELSE "nothing")
                   /\ UNCHANGED cfg
              ELSE /\ sta' = [s EXCEPT !.sae = @ \/ what = "confirm"]
                   /\ cfg' = [cfg EXCEPT !.auth = b]
                   /\ UNCHANGED <<lock, event>>
  /\ UNCHANGED <<timer_data, scanning, user, peers, restart, external>>

\* skw_sta_rx_assoc: frames may be sent to the peer of the station's context.
skw_sta_rx_assoc(what, b) ==
  /\ Handles(what, b) /\ lock = NoBss
  /\ IF sta.ctx = 0 \/ peers[sta.ctx].addr # b
     THEN UNCHANGED <<sta, peers, cfg>>
     ELSE IF what = "assoc"
     THEN /\ sta' = [sta EXCEPT !.state = "ASSOCED"]
          /\ peers' = [peers EXCEPT ![sta.ctx].open = TRUE]
          /\ cfg' = [conn |-> b, auth |-> b]
     ELSE /\ sta' = [sta EXCEPT !.state = "NONE"]
          /\ UNCHANGED <<peers, cfg>>
  /\ UNCHANGED <<timer_data, scanning, user, lock, event, restart, external>>

\* skw_sta_rx_deauth: a second one finds no context.
skw_sta_rx_deauth(b) ==
  /\ Handles("deauth", b) /\ lock = NoBss
  /\ IF skw_peer_ctx(b) = 0
     THEN UNCHANGED <<sta, lock, event>>
     ELSE sta' = Leaving(sta) /\ Leave(b, "deauth")
  /\ UNCHANGED <<timer_data, scanning, user, peers, restart, external, cfg>>

\* skw_event_disconnect leaves without core.lock, whatever the station is
\* doing: del_timer_sync and the state, then the command.
skw_event_disconnect(b) ==
  /\ Handles("disconnect", b)
  /\ sta' = Leaving(sta)
  /\ event' = [pc |-> "disconnect", bss |-> b, tell |-> "deauth"]
  /\ UNCHANGED <<timer_data, scanning, user, peers, lock, restart, external, cfg>>

disconnect_unjoin(ok) ==
  /\ event.pc = "disconnect"
  /\ Unjoined(event.bss, ok, sta)
  /\ Tell(event.bss)
  /\ event' = NoEvent
  /\ UNCHANGED <<timer_data, scanning, user, queue, lock, restart>>

\* SCAN_CMPL and CQM.
ScanEvent ==
  \/ /\ Handles("scan_done", NoBss)
     /\ skw_scan_done
     /\ UNCHANGED <<cqm_low, work_list, user, link, lock, event, restart, external>>
  \/ /\ Handles("cqm", NoBss)
     /\ skw_event_cqm
     /\ UNCHANGED <<user, link, lock, event, restart, external>>

EventStep ==
  \/ \E ok \in BOOLEAN : leave_unjoin(ok) \/ sta_resent(ok) \/ disconnect_unjoin(ok)
  \/ \E elapsed, late \in BOOLEAN : sta_work(elapsed, late)
  \/ \E b \in Bss :
       \/ \E what \in {"auth", "confirm", "auth_fail", "confirm_fail"} : skw_sta_rx_auth(what, b)
       \/ \E what \in {"assoc", "assoc_fail"} : skw_sta_rx_assoc(what, b)
       \/ skw_sta_rx_deauth(b)
       \/ skw_event_disconnect(b)
  \/ ScanEvent
-----------------------------------------------------------------------------
(* The recovery work. *)

Recovers(p) == recovery' = [recovery EXCEPT !.pc = p]

\* skw_recovery_prepare takes the peers away, unless an earlier recovery did
\* and failed.
skw_recovery_prepare ==
  /\ recovery.pc = "scheduled"
  /\ Recovers("enable")
  /\ IF rd.recovering
     THEN UNCHANGED <<rd, peers>>
     ELSE /\ rd' = [recovering |-> TRUE,
                    peer |-> [c \in Ctxs |-> [addr |-> peers[c].addr, deauthed |-> FALSE]],
                    peer_map |-> {c \in Ctxs : peers[c].addr # NoBss}]
          /\ peers' = [c \in Ctxs |-> NoPeer]
  /\ UNCHANGED <<timer_data, scanning, user, sta, lock, queue, event, asserted, external, cfg>>

\* FW_ASSERT is cleared, even one that was set since;
recovery_enable ==
  /\ recovery.pc = "enable"
  /\ asserted' = FALSE
  /\ Recovers("calib")
  /\ UNCHANGED <<timer_data, scanning, user, link, lock, queue, event, rd, external>>

\* the commands that ask for the chip and download the calibration, whose
\* failure is only kept in ret.
recovery_calib ==
  /\ recovery.pc = "calib"
  /\ recovery' = [recovery EXCEPT !.pc = "open", !.ret = fw.up /\ ~asserted]
  /\ UNCHANGED <<timer_data, scanning, user, link, lock, queue, event, rd, asserted, external>>

\* The station's interface is opened and, after the replay of its peers, one
\* without peers.  A failure asserts the firmware (skw_hw_assert).
skw_cmd_open_dev(ok) ==
  /\ recovery.pc = "open" \/ (recovery.pc = "replay" /\ recovery.map = {})
  /\ IF asserted
     THEN ok /\ Recovers("finish") /\ UNCHANGED <<asserted, fw, left>>
     ELSE /\ IF fw.up THEN IF ok THEN UNCHANGED left ELSE Spend
                      ELSE ~ok /\ UNCHANGED left
          /\ asserted' = ~ok
          /\ recovery' = [pc  |-> IF ok /\ recovery.pc = "open" THEN "replay" ELSE "finish",
                          ret |-> ok,
                          map |-> IF ok /\ recovery.pc = "open" THEN rd.peer_map ELSE {}]
          /\ fw' = IF ok THEN [fw EXCEPT !.opened = TRUE] ELSE Dead
  /\ UNCHANGED <<timer_data, scanning, user, link, lock, queue, event, rd>>

First(S) == CHOOSE c \in S : \A d \in S : c <= d

\* Mutant: every peer is taken for one of TDLS.
replay_all_tdls ==
  /\ recovery.pc = "replay" /\ recovery.map # {}
  /\ LET c == First(recovery.map) IN
     /\ rd.peer[c].addr # NoBss /\ ~rd.peer[c].deauthed
     /\ rd' = [rd EXCEPT !.peer[c].deauthed = TRUE]
     /\ recovery' = [recovery EXCEPT !.map = @ \ {c}]
  /\ UNCHANGED <<timer_data, scanning, user, link, lock, queue, event, asserted, external>>

\* skw_recovery_sta: the station's peer is left, another one is told so.  A
\* peer that was told before is skipped with its bit kept: for ever.
replay_peer ==
  /\ recovery.pc = "replay" /\ recovery.map # {}
  /\ LET c == First(recovery.map) IN
     /\ rd.peer[c].addr # NoBss /\ ~rd.peer[c].deauthed
     /\ IF rd.peer[c].addr = sta.bss
        THEN /\ sta' = [sta EXCEPT !.timer = FALSE]
             /\ Recovers("cancel")
             /\ UNCHANGED rd
        ELSE /\ rd' = [rd EXCEPT !.peer[c].deauthed = TRUE]
             /\ recovery' = [recovery EXCEPT !.map = @ \ {c}]
             /\ UNCHANGED sta
  /\ UNCHANGED <<timer_data, scanning, user, peers, lock, queue, event, asserted, external, cfg>>

\* cancel_work_sync waits for a work that runs.
replay_cancel ==
  /\ recovery.pc = "cancel"
  /\ event.pc # "resend" /\ ~(event.pc = "leave" /\ event.tell = "timeout")
  /\ sta' = [sta EXCEPT !.work = FALSE]
  /\ Recovers("unjoin")
  /\ UNCHANGED <<timer_data, scanning, user, peers, lock, queue, event, rd, asserted, external, cfg>>

\* Mutant: a peer that was left keeps its bit.
replay_bit_kept ==
  /\ recovery.pc = "unjoin"
  /\ LET c == First(recovery.map)
         b == rd.peer[c].addr
     IN  /\ sta' = [sta EXCEPT !.state = "NONE", !.bss = NoBss, !.ctx = 0]
         /\ fw' = IF Alive THEN [fw EXCEPT !.peers = [d \in Ctxs |-> IF @[d] = b THEN NoBss ELSE @[d]]]
                  ELSE fw
         /\ Tell(b)
         /\ rd' = [rd EXCEPT !.peer[c].deauthed = TRUE]
         /\ Recovers("replay")
  /\ UNCHANGED <<timer_data, scanning, user, peers, lock, queue, event, asserted, left>>

\* skw_cmd_unjoin, whose failure is only logged; then the station is reset,
\* without core.lock, and cfg80211 told.
replay_unjoin ==
  /\ recovery.pc = "unjoin"
  /\ LET c == First(recovery.map)
         b == rd.peer[c].addr
     IN  /\ sta' = [sta EXCEPT !.state = "NONE", !.bss = NoBss, !.ctx = 0]
         /\ fw' = IF Alive THEN [fw EXCEPT !.peers = [d \in Ctxs |-> IF @[d] = b THEN NoBss ELSE @[d]]]
                  ELSE fw
         /\ Tell(b)
         /\ rd' = [rd EXCEPT !.peer[c].deauthed = TRUE]
         /\ recovery' = [recovery EXCEPT !.pc = "replay", !.map = @ \ {c}]
  /\ UNCHANGED <<timer_data, scanning, user, peers, lock, queue, event, asserted, left>>

NoRecovery == [recovering |-> FALSE,
               peer |-> [c \in Ctxs |-> [addr |-> NoBss, deauthed |-> FALSE]],
               peer_map |-> {}]

\* The peers are freed if the last command succeeded.
recovery_finish ==
  /\ recovery.pc = "finish"
  /\ rd' = IF recovery.ret THEN [NoRecovery EXCEPT !.peer_map = rd.peer_map] ELSE rd
  /\ recovery' = [recovery EXCEPT !.pc = "idle"]
  /\ UNCHANGED <<timer_data, scanning, user, link, lock, queue, event, asserted, external>>

RecoveryStep ==
  \/ skw_recovery_prepare \/ recovery_enable \/ recovery_calib
  \/ \E ok \in BOOLEAN : skw_cmd_open_dev(ok)
  \/ replay_peer \/ replay_cancel \/ replay_unjoin
  \/ recovery_finish
-----------------------------------------------------------------------------
(* The firmware, the access points and the platform. *)

Push(what, b) == Len(queue) < MaxQueue /\ queue' = Append(queue, <<what, b>>)

\* The answers an access point may give; the end of a scan has no other.
Answers(what) == IF what = "auth"  THEN {"auth", "confirm", "auth_fail", "confirm_fail"} ELSE
                 IF what = "assoc" THEN {"assoc", "assoc_fail"} ELSE {what}

\* What was sent over the air is answered; the answer may come again later.
Answered(what, b, again) ==
  /\ <<what, b>> \in fw.air
  /\ \E answer \in Answers(what) :
       /\ Push(answer, b)
       /\ fw' = [fw EXCEPT !.air = @ \ {<<what, b>>},
                           !.again = IF again THEN @ \cup {<<answer, b>>} ELSE @]
  /\ IF again THEN b # NoBss /\ Spend ELSE UNCHANGED left
  /\ UNCHANGED <<timer_data, scanning, user, link, lock, event, restart>>

AnsweredAgain(answer, b) ==
  /\ <<answer, b>> \in fw.again
  /\ Push(answer, b)
  /\ fw' = [fw EXCEPT !.again = @ \ {<<answer, b>>}]
  /\ UNCHANGED <<timer_data, scanning, user, link, lock, event, restart, left>>

\* What nobody asked for: the firmware loses its access point, a deauth of it,
\* or a weak signal.
Unasked(what, b) ==
  /\ fw.up /\ fw.opened
  /\ \E c \in Ctxs : fw.peers[c] # NoBss /\ b \in {fw.peers[c], NoBss}
  /\ Spend
  /\ Push(what, b)
  /\ fw' = IF what = "disconnect"
           THEN [fw EXCEPT !.peers = [c \in Ctxs |-> IF @[c] = b THEN NoBss ELSE @[c]]]
           ELSE fw
  /\ UNCHANGED <<timer_data, scanning, user, link, lock, event, restart>>

\* skw_bsp_notifier, ASSERT: cancel_work_sync waits for a recovery under way.
FwDies ==
  /\ fw.up
  /\ Spend
  /\ fw' = Dead
  /\ asserted' = TRUE
  /\ recovery' = IF recovery.pc = "scheduled" THEN [recovery EXCEPT !.pc = "idle"] ELSE recovery
  /\ UNCHANGED <<timer_data, scanning, user, link, lock, queue, event, rd>>

\* skw_bsp_notifier, READY.
FwReady ==
  /\ ~fw.up /\ recovery.pc = "idle"
  /\ fw' = [fw EXCEPT !.up = TRUE]
  /\ Recovers("scheduled")
  /\ UNCHANGED <<timer_data, scanning, user, link, lock, queue, event, rd, asserted, left>>

TimePasses == Tick /\ UNCHANGED <<scanning, user, link, lock, queue, event, restart, external>>

FwStep ==
  \/ \E b \in Bss, again \in BOOLEAN : Answered("auth", b, again) \/ Answered("assoc", b, again)
  \/ Answered("scan_done", NoBss, FALSE)
  \/ \E item \in fw.again : AnsweredAgain(item[1], item[2])
  \/ \E b \in Bss : Unasked("deauth", b) \/ Unasked("disconnect", b)
  \/ Unasked("cqm", NoBss)
  \/ FwDies \/ FwReady
-----------------------------------------------------------------------------
Request ==
  \/ \E b \in Bss : skw_auth(b) \/ skw_assoc(b) \/ skw_cfg80211_deauth(b)
  \/ skw_change_station
  \/ \E id \in Reqs : Scan(id)

Timers_ == TimerStep /\ UNCHANGED <<link, lock, queue, event, restart, external>>
Work    == skw_work /\ UNCHANGED <<link, lock, queue, event, restart, external>>

\* The station has no connection, is authenticated or has a connection.
Init ==
  /\ InitScan
  /\ \E b \in {Home, NoBss}, open \in BOOLEAN :
       LET c == IF b = NoBss THEN 0 ELSE 1 IN
       /\ c = 0 => ~open
       /\ sta = [NoSta EXCEPT
                  !.state = IF c = 0 THEN "NONE" ELSE IF open THEN "COMPLETED" ELSE "AUTHED",
                  !.bss = b, !.ctx = c, !.timer = c # 0 /\ ~open,
                  !.pending = IF open THEN "ASSOC" ELSE "AUTH"]
       /\ peers = [d \in Ctxs |-> IF d = c THEN [addr |-> b, open |-> open] ELSE NoPeer]
       /\ fw = [up |-> TRUE, opened |-> TRUE, air |-> {}, again |-> {},
                peers |-> [d \in Ctxs |-> IF d = c THEN b ELSE NoBss]]
       /\ cfg = [conn |-> IF open THEN b ELSE NoBss, auth |-> b]
  /\ lock = NoBss
  /\ queue = <<>>
  /\ event = NoEvent
  /\ rd = NoRecovery
  /\ recovery = [pc |-> "idle", ret |-> TRUE, map |-> {}]
  /\ asserted = FALSE
  /\ left = MaxTurns

Next ==
  \/ Request \/ UserStep
  \/ StaTimer \/ EventStep
  \/ Timers_ \/ Work \/ TimePasses
  \/ RecoveryStep
  \/ FwStep

Spec == Init /\ [][Next]_vars

\* Threads, timers and time go on, and a work that is being cancelled is not queued
\* again.
FairSpec ==
  /\ Spec
  /\ WF_vars(UserStep)
  /\ WF_vars(StaTimer)
  /\ WF_vars(EventStep)
  /\ WF_vars(Timers_) /\ WF_vars(Work) /\ WF_vars(TimePasses)
  /\ WF_vars(RecoveryStep) /\ SF_vars(replay_cancel)
-----------------------------------------------------------------------------
(* Properties. *)

\* Every variable stays in its type; the retries of an attempt are counted from
\* its start and never exceed their number.
TypeOK ==
  /\ ScanType
  /\ sta.state \in {"NONE", "AUTHING", "AUTHED", "ASSOCING", "ASSOCED", "COMPLETED"}
  /\ sta.bss \in Bss \cup {NoBss} /\ sta.ctx \in Ctxs \cup {0}
  /\ sta.retry \in 0..MaxRetry
  /\ peers \in [Ctxs -> [addr: Bss \cup {NoBss}, open: BOOLEAN]]
  /\ lock \in {NoBss, "user", "event"}
  /\ Len(queue) <= MaxQueue
  /\ rd.peer_map \subseteq Ctxs /\ recovery.map \subseteq rd.peer_map
  /\ cfg \in [conn: Bss \cup {NoBss}, auth: Bss \cup {NoBss}]

\* skw_timer.c keeps the promises of TimerSet: a timer is called once, not
\* before its time, and not forgotten.
Armed_  == [id \in Armed |-> timer_data.list[CHOOSE i \in DOMAIN timer_data.list :
                                               timer_data.list[i].id = id].left]
Timers == INSTANCE TimerSet WITH armed <- Armed_, firing <- ToSet(timer_data.expired)
TimerSpec == Timers!Spec

\* What cfg80211 has started ends: every scan is reported, every authentication
\* and association answered or given up.
RequestsEnd ==
  /\ scan_cfg # NoReq ~> scan_cfg = NoReq
  /\ sta.state \in {"AUTHING", "ASSOCING"} ~> sta.state \notin {"AUTHING", "ASSOCING"}

\* The station has the one context that is bound, and its address.
Joined == \A c \in Ctxs : peers[c].addr # NoBss => sta.ctx = c /\ sta.bss = peers[c].addr

\* Frames are sent to the peer of a joined station only, or to one that is about
\* to be left.
BeingLeft == \/ user.pc \in {"auth_unjoin", "assoc_unjoin", "deauth"}
             \/ event.pc \in {"leave", "disconnect"}
OpenOnlyJoined ==
  \A c \in Ctxs : peers[c].open => sta.ctx = c /\ (sta.state # "NONE" \/ BeingLeft)

\* Where the code lets them part: a recovery resets a station that has joined
\* again in the meantime; a repeated association is refused whose first answer
\* was a success; a request that fails, or a late DISCONNECT, leaves the station
\* under another address than the one it is connected to.
Reset == recovery.pc = "unjoin" /\ recovery'.pc = "replay"
Refused(b) == queue # <<>> /\ Head(queue) = <<"assoc_fail", b>> /\ queue' = Tail(queue)
LeftElsewhere ==
  \/ user.pc = "failed" /\ user'.pc = "idle" /\ user.arg # sta.bss
  \/ event.pc = "disconnect" /\ event'.pc = "idle" /\ event.bss # sta.bss

ContextKept == Joined => Joined' \/ Reset
ClosedWhenLeft ==
  Joined /\ OpenOnlyJoined =>
    OpenOnlyJoined' \/ Reset \/ LeftElsewhere \/ \E b \in Bss : Refused(b)

\* No other step (of a request, an event, a timer or the recovery) lets the
\* station and its peers part.
PeersAgree == [][ContextKept /\ ClosedWhenLeft]_vars

\* A recovery that has succeeded leaves no connection that both sides keep but
\* whose context it took away.
NoDeadConnection ==
  recovery.pc = "finish" /\ recovery.ret /\ ~asserted
  => \A c \in rd.peer_map :
       sta.bss = rd.peer[c].addr /\ cfg.conn = sta.bss => skw_peer_ctx(sta.bss) # 0

\* What is left behind belongs to what still runs: no dead connection, and the
\* timer of a scan does not outlive it (its id is the address of the request).
NothingLeftBehind == NoDeadConnection /\ Armed \cap Reqs \subseteq {scan_cfg}

\* A recovery ends, unless an earlier one failed after it had told a peer: then
\* skw_recovery_sta skips that peer with its bit kept, for ever.
RecoveryEnds ==
  recovery.pc = "scheduled" /\ (\A c \in Ctxs : ~rd.peer[c].deauthed) ~> recovery.pc = "idle"
===============================================================================
