------------------------------- MODULE SkwScan --------------------------------
(***************************************************************************)
(* Scans and the signal monitor of the Wi-Fi driver (skw_cfg80211.c,       *)
(* skw_msg.c), which use the software timers, and the work list of         *)
(* skw_work.c that takes a scan's timeout out of the timer's handler.      *)
(*                                                                         *)
(* A timer's id is the address of the scan request, which cfg80211 frees   *)
(* when the scan is reported, so an address may come again; the signal     *)
(* monitor's id is a function.  The channels and the results of a scan are *)
(* left out.                                                               *)
(***************************************************************************)
EXTENDS SkwTimer

CONSTANTS Reqs, \* addresses of scan requests
          Cqm   \* the id of the signal monitor's timer

ASSUME ScanAssumption ==
  /\ Cqm \notin Reqs /\ Ids = Reqs \cup {Cqm}
  /\ "none" \notin Reqs \* the address of no request

VARIABLES
  scan_req,  \* skw->scan_req
  scan_cfg,  \* the scan cfg80211 has under way
  cqm_low,   \* SKW_IFACE_STA_ROAM_FLAG_CQM_LOW
  work_list, \* how many SKW_WORK_SCAN_TIMEOUT are queued
  user       \* the caller from cfg80211: where it is, and in which request

scanning == <<scan_req, scan_cfg, cqm_low, work_list>>

NoReq == "none"
NoUser == [pc |-> "idle", arg |-> NoReq, roam |-> FALSE]
-----------------------------------------------------------------------------
(* skw_scan, in three steps: skw_cqm_bg_scan, the timer, the command. *)

\* A scan for the network of a connection with a weak signal looks at one
\* channel only, once.
skw_cqm_bg_scan(id, completed) ==
  /\ user.pc = "idle" /\ scan_cfg = NoReq
  /\ scan_cfg' = id
  /\ user' = [NoUser EXCEPT !.pc = "scan_timer", !.arg = id]
  /\ \/ UNCHANGED <<cqm_low, timer_data>>
     \/ /\ completed /\ cqm_low
        /\ cqm_low' = FALSE
        /\ skw_del_timer_work(Cqm)
  /\ UNCHANGED <<scan_req, work_list>>

\* The request is stored, without skw->lock, and its timer started.
scan_timer ==
  /\ user.pc = "scan_timer"
  /\ scan_req' = user.arg
  /\ skw_add_timer_work(user.arg)
  /\ user' = [user EXCEPT !.pc = "scan_cmd"]
  /\ UNCHANGED <<scan_cfg, cqm_low, work_list>>

\* SKW_CMD_START_SCAN; a scan that is refused is not reported.
scan_cmd(ok) ==
  /\ user.pc = "scan_cmd"
  /\ user' = NoUser
  /\ IF ok
     THEN UNCHANGED <<scan_req, scan_cfg, timer_data>>
     ELSE /\ scan_req' = NoReq
          /\ scan_cfg' = NoReq
          /\ skw_del_timer_work(user.arg)
  /\ UNCHANGED <<cqm_low, work_list>>

\* Whatever scan there is now is reported.
skw_scan_done ==
  IF scan_req = NoReq
  THEN UNCHANGED <<scan_req, scan_cfg, timer_data>>
  ELSE /\ scan_req' = NoReq
       /\ scan_cfg' = NoReq
       /\ skw_del_timer_work(scan_req)

\* The callbacks: skw_scan_timeout queues a work,
skw_scan_timeout ==
  /\ \E id \in Reqs : callback(id)
  /\ work_list' = work_list + 1
  /\ UNCHANGED <<scan_req, scan_cfg, cqm_low, user>>

\* skw_cqm_scan_timeout forgets the weak signal.
skw_cqm_scan_timeout ==
  /\ callback(Cqm)
  /\ cqm_low' = FALSE
  /\ UNCHANGED <<scan_req, scan_cfg, work_list, user>>

\* skw_work reports the scan as aborted.
skw_work ==
  /\ work_list > 0
  /\ work_list' = work_list - 1
  /\ skw_scan_done
  /\ UNCHANGED <<cqm_low, user>>

\* skw_event_cqm: the signal of the connection is weak.
skw_event_cqm ==
  /\ cqm_low' = TRUE
  /\ IF cqm_low THEN UNCHANGED timer_data ELSE skw_add_timer_work(Cqm)
  /\ UNCHANGED <<scan_req, scan_cfg, work_list>>

\* What a thread of its own does: the timer's handler, the worker, time.
TimerStep ==
  \/ (skw_timer_work \/ rearm) /\ UNCHANGED <<scanning, user>>
  \/ skw_scan_timeout
  \/ skw_cqm_scan_timeout

InitScan ==
  /\ timer_data = NoTimers
  /\ scan_req = NoReq /\ scan_cfg = NoReq
  /\ cqm_low = FALSE
  /\ work_list = 0
  /\ user = NoUser

ScanType ==
  /\ TimerType
  /\ scan_req \in Reqs \cup {NoReq} /\ scan_cfg \in Reqs \cup {NoReq}
  /\ cqm_low \in BOOLEAN
  /\ work_list \in Nat
===============================================================================
