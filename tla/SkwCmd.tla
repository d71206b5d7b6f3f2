------------------------------- MODULE SkwCmd -------------------------------
(***************************************************************************)
(* The command channel of the EA6621Q Wi-Fi driver (skwifi/skw_msg.c): one *)
(* command at a time, kept in skw->cmd under the mutex skw->cmd.lock.      *)
(*                                                                         *)
(* A blocking sender (skw_msg_xmit_timeout) holds the mutex until the      *)
(* command is answered, its wait is interrupted or times out.  The data    *)
(* path (skw_msg_try_send) returns with the mutex held: the answer, the    *)
(* abort of the command or a timer releases it.  The TX thread hands the   *)
(* command to the bus, the RX thread brings the answer, the platform       *)
(* driver reports the firmware's death and its restart, and the recovery   *)
(* work then sends commands of its own.                                    *)
(*                                                                         *)
(* A command is [id, seq]; its answer carries the same pair.  Payloads,    *)
(* the wake lock, the inst/monitor checks of skw_cmd_tx_allowed and the    *)
(* flags MP_MODE, FW_THERMAL and FW_MAC_RECOVERY (as FW_ASSERT, set and    *)
(* cleared by firmware events) are left out.                               *)
(***************************************************************************)
EXTENDS Integers, FiniteSets

CONSTANTS
  Callers,        \* threads in skw_msg_xmit_timeout
  Interruptible,  \* those that may receive a signal
  TryCallers,     \* contexts in skw_msg_try_send
  Recovery,       \* the recovery work, a blocking sender too
  NoOne,          \* the mutex is free
  MaxSeq,         \* bound: a call starts only below this sequence number
  MaxDeaths,      \* bound: how often the firmware dies by itself
  MaxSlow,        \* bound: how often it answers later than the timeout
  MaxSuspends     \* bound: how often the system suspends

Senders == Callers \cup {Recovery}
Threads == Senders \cup TryCallers

ASSUME ThreadAssumption ==
  /\ IsFiniteSet(Threads) /\ Interruptible \subseteq Callers
  /\ Callers \cap TryCallers = {} /\ Recovery \notin Callers \cup TryCallers
  /\ NoOne \notin Threads
  /\ MaxSeq \in Nat \ {0} /\ MaxDeaths \in Nat /\ MaxSlow \in Nat
  /\ MaxSuspends \in Nat

VARIABLES
  cmd,     \* skw->cmd: seq, flags, status, callback and the message in data
  holder,  \* who holds skw->cmd.lock
  pc,      \* where each thread is
  mine,    \* the message a blocking sender waits for
  timer,   \* the command timer: on timer_data.list, or taken off to fire
  ack,     \* the answer skw_cmd_ack_handler works on
  flags,   \* FW_ASSERT and BLOCK_TX of skw->flags
  work,    \* SKW_WORK_FLAG_ASSERT of the worker
  recov,   \* the recovery work
  fw,      \* the firmware, as the platform driver reports it
  sent,    \* the commands this firmware has received
  left     \* what is left of the bounds: deaths, slow answers, suspends

vars == <<cmd, holder, pc, mine, timer, ack, flags, work, recov, fw, sent, left>>

NoMsg == [id |-> NoOne, seq |-> 0]
Late  == [id |-> NoOne, seq |-> 1]
Idle  == [pc |-> "idle", msg |-> NoMsg, late |-> FALSE]

\* Every ordinary caller may send the same command; the recovery opens a device.
Id(p) == IF p = Recovery THEN Recovery ELSE "cmd"

skw_tx_allowed == flags = {}
-----------------------------------------------------------------------------
(* Sending. *)

\* skw_msg_xmit_timeout is called, and waits for the mutex.
Call(s) ==
  /\ s \in Callers
  /\ pc[s] = "idle"
  /\ cmd.seq < MaxSeq
  /\ pc' = [pc EXCEPT ![s] = "lock"]
  /\ UNCHANGED <<cmd, holder, mine, timer, ack, flags, work, recov, fw, sent, left>>

skw_cmd_lock(s) ==
  /\ pc[s] = "lock"
  /\ holder = NoOne
  /\ holder' = s
  /\ pc' = [pc EXCEPT ![s] = "locked"]
  /\ UNCHANGED <<cmd, mine, timer, ack, flags, work, recov, fw, sent, left>>

\* The mutex_trylock of skw_msg_try_send (busy: nothing happens).
TryLock(t) ==
  /\ t \in TryCallers
  /\ pc[t] = "idle"
  /\ cmd.seq < MaxSeq
  /\ holder = NoOne
  /\ holder' = t
  /\ pc' = [pc EXCEPT ![t] = "locked"]
  /\ UNCHANGED <<cmd, mine, timer, ack, flags, work, recov, fw, sent, left>>

\* mutex_unlock clears the owner whoever calls it.
skw_cmd_unlock == holder' = NoOne

\* The call ends: the mutex is released and 0 or an error returned, which only
\* the recovery looks at.
Return(p, r) ==
  /\ skw_cmd_unlock
  /\ pc' = [pc EXCEPT ![p] = IF p = Recovery THEN r ELSE "idle"]

\* skw_cmd_tx_allowed refuses.
NotAllowed(p) ==
  /\ pc[p] = "locked"
  /\ ~skw_tx_allowed
  /\ Return(p, "error")
  /\ UNCHANGED <<cmd, mine, timer, ack, flags, work, recov, fw, sent, left>>

\* skw_cmd_tx_allowed agrees; the flags may change from here on.
Allowed(p) ==
  /\ pc[p] = "locked"
  /\ skw_tx_allowed
  /\ pc' = [pc EXCEPT ![p] = "allowed"]
  /\ UNCHANGED <<cmd, holder, mine, timer, ack, flags, work, recov, fw, sent, left>>

\* Mutant: the sequence number is incremented for the header once more.
set_cmd_counts_twice(p) ==
  /\ pc[p] = "allowed"
  /\ LET msg == [id |-> Id(p), seq |-> cmd.seq + 2]
     IN  /\ cmd' = [cmd EXCEPT !.seq = @ + 2, !.id = Id(p), !.msg = msg,
                               !.flags = {}, !.status = NoMsg]
         /\ mine' = IF p \in Senders THEN [mine EXCEPT ![p] = msg] ELSE mine
  /\ ack' = [ack EXCEPT !.late = ack.pc = "apply"]
  /\ pc' = [pc EXCEPT ![p] = "set"]
  /\ UNCHANGED <<holder, timer, flags, work, recov, fw, sent, left>>

\* The next message is built; an answer that is being handled is late now.
skw_set_cmd(p) ==
  /\ pc[p] = "allowed"
  /\ LET msg == [id |-> Id(p), seq |-> cmd.seq + 1]
     IN  /\ cmd' = [cmd EXCEPT !.seq = @ + 1, !.id = Id(p), !.msg = msg,
                               !.flags = {}, !.status = NoMsg]
         /\ mine' = IF p \in Senders THEN [mine EXCEPT ![p] = msg] ELSE mine
  /\ ack' = [ack EXCEPT !.late = ack.pc = "apply"]
  /\ pc' = [pc EXCEPT ![p] = "set"]
  /\ UNCHANGED <<holder, timer, flags, work, recov, fw, sent, left>>

\* The callback is set, and the TX thread told to transmit.
skw_msg_xmit_timeout(s) ==
  /\ s \in Senders
  /\ pc[s] = "set"
  /\ cmd' = [cmd EXCEPT !.callback = "xmit_timeout", !.flags = @ \cup {"XMIT"}]
  /\ pc' = [pc EXCEPT ![s] = "wait"]
  /\ UNCHANGED <<holder, mine, timer, ack, flags, work, recov, fw, sent, left>>

\* Mutant: without the timer.
try_send_without_timer(t) ==
  /\ t \in TryCallers
  /\ pc[t] = "set"
  /\ cmd' = [cmd EXCEPT !.callback = "try_send", !.flags = @ \cup {"XMIT"}]
  /\ pc' = [pc EXCEPT ![t] = "idle"]
  /\ UNCHANGED <<holder, mine, timer, ack, flags, work, recov, fw, sent, left>>

\* The same after the timer was armed; the caller returns with the mutex held.
skw_msg_try_send(t) ==
  /\ t \in TryCallers
  /\ pc[t] = "set"
  /\ timer' = [timer EXCEPT !.on = TRUE]
  /\ cmd' = [cmd EXCEPT !.callback = "try_send", !.flags = @ \cup {"XMIT"}]
  /\ pc' = [pc EXCEPT ![t] = "idle"]
  /\ UNCHANGED <<holder, mine, ack, flags, work, recov, fw, sent, left>>

\* The TX thread takes the flag; a command that is no longer allowed is
\* dropped without a word.
skw_bus_cmd_xmit ==
  /\ "XMIT" \in cmd.flags
  /\ cmd' = [cmd EXCEPT !.flags = @ \ {"XMIT"}]
  /\ sent' = IF skw_tx_allowed /\ fw = "up" THEN sent \cup {cmd.msg} ELSE sent
  /\ UNCHANGED <<holder, pc, mine, timer, ack, flags, work, recov, fw, left>>
-----------------------------------------------------------------------------
(* The end of a command. *)

\* The effect of skw->cmd.callback on the mutex and the timer.
skw_msg_try_send_cb == timer' = [timer EXCEPT !.on = FALSE] /\ skw_cmd_unlock

callback(c) ==
  \/ c.callback = "try_send" /\ skw_msg_try_send_cb
  \/ c.callback = "xmit_timeout" /\ UNCHANGED <<timer, holder>>

\* Mutant: the sequence number is not compared.
ack_checks_id_only ==
  /\ ack.pc = "idle" /\ fw = "up"
  /\ \E msg \in sent :
       /\ msg.id = cmd.id /\ "ACKED" \notin cmd.flags
       /\ ack' = [pc |-> "apply", msg |-> msg, late |-> FALSE]
  /\ cmd' = [cmd EXCEPT !.flags = @ \cup {"ACKED"}]
  /\ UNCHANGED <<holder, pc, mine, timer, flags, work, recov, fw, sent, left>>

\* An answer comes in, in any order, late or again, and passes the check of
\* skw_cmd_ack_handler (one that does not is dropped).
skw_cmd_ack_handler ==
  /\ ack.pc = "idle" /\ fw = "up"
  /\ \E msg \in sent :
       /\ msg.id = cmd.id /\ msg.seq = cmd.seq /\ "ACKED" \notin cmd.flags
       /\ ack' = [pc |-> "apply", msg |-> msg, late |-> FALSE]
  /\ cmd' = [cmd EXCEPT !.flags = @ \cup {"ACKED"}]
  /\ UNCHANGED <<holder, pc, mine, timer, flags, work, recov, fw, sent, left>>

\* The rest of the handler: the status is stored in whatever command is
\* current now, and its callback called.
AckApply ==
  /\ ack.pc = "apply"
  /\ LET c == [cmd EXCEPT !.status = IF ack.late THEN Late ELSE ack.msg,
                          !.flags = @ \cup {"DONE"}]
     IN  cmd' = c /\ callback(c)
  /\ ack' = Idle
  /\ UNCHANGED <<pc, mine, flags, work, recov, fw, sent, left>>

\* The wait of a sender ends with its condition, DONE.
Answered(s) ==
  /\ s \in Senders
  /\ pc[s] = "wait"
  /\ "DONE" \in cmd.flags
  /\ Return(s, "done")
  /\ mine' = [mine EXCEPT ![s] = NoMsg]
  /\ UNCHANGED <<cmd, timer, ack, flags, work, recov, fw, sent, left>>

\* -ERESTARTSYS: the command is given up, and nobody told.
Interrupted(s) ==
  /\ s \in Interruptible
  /\ pc[s] = "wait"
  /\ "DONE" \notin cmd.flags
  /\ Return(s, "error")
  /\ mine' = [mine EXCEPT ![s] = NoMsg]
  /\ UNCHANGED <<cmd, timer, ack, flags, work, recov, fw, sent, left>>

\* skw_hw_assert: the firmware is told to dump and die, once.
skw_hw_assert(f) ==
  /\ flags' = f \cup {"FW_ASSERT"}
  /\ fw' = IF "FW_ASSERT" \notin f /\ fw = "up" THEN "dead" ELSE fw

\* The command msg is answered in time unless the firmware is slow.
Answerable(msg) ==
  \/ ack.pc = "apply" /\ ack.msg = msg
  \/ /\ fw = "up" /\ "ACKED" \notin cmd.flags
     /\ cmd.msg = msg /\ cmd.seq = msg.seq
     /\ "XMIT" \in cmd.flags \/ msg \in sent

\* A timeout: of a command that cannot be answered, or of a slow answer.
TimeIsUp(msg) ==
  \/ ~Answerable(msg) /\ UNCHANGED left
  \/ Answerable(msg) /\ left.slow > 0 /\ left' = [left EXCEPT !.slow = @ - 1]

TimedOut(s) ==
  /\ s \in Senders
  /\ pc[s] = "wait"
  /\ "DONE" \notin cmd.flags
  /\ TimeIsUp(mine[s])
  /\ Return(s, "error")
  /\ skw_hw_assert(flags)
  /\ mine' = [mine EXCEPT ![s] = NoMsg]
  /\ UNCHANGED <<cmd, timer, ack, work, recov, sent>>

\* skw_timer_work moves the expired timer to a list of its own, and drops
\* the lock before it calls skw_cmd_timeout_fn.
TimerExpires ==
  /\ timer.on /\ ~timer.fired
  /\ TimeIsUp(cmd.msg)
  /\ timer' = [on |-> FALSE, fired |-> TRUE]
  /\ UNCHANGED <<cmd, holder, pc, mine, ack, flags, work, recov, fw, sent>>

\* Mutant: the mutex stays locked.
timeout_fn_without_unlock ==
  /\ timer.fired
  /\ timer' = [timer EXCEPT !.fired = FALSE]
  /\ flags' = flags \cup {"BLOCK_TX"}
  /\ work' = TRUE
  /\ UNCHANGED <<cmd, holder, pc, mine, ack, recov, fw, sent, left>>

skw_cmd_timeout_fn ==
  /\ timer.fired
  /\ timer' = [timer EXCEPT !.fired = FALSE]
  /\ flags' = flags \cup {"BLOCK_TX"}
  /\ skw_cmd_unlock
  /\ work' = TRUE
  /\ UNCHANGED <<cmd, pc, mine, ack, recov, fw, sent, left>>

\* The worker runs skw_hw_assert.
skw_work ==
  /\ work
  /\ work' = FALSE
  /\ skw_hw_assert(flags)
  /\ UNCHANGED <<cmd, holder, pc, mine, timer, ack, recov, sent, left>>
-----------------------------------------------------------------------------
(* Suspend, the death of the firmware, and recovery. *)

\* left.suspends is odd while the system is suspended.
skw_suspend ==
  /\ left.suspends > 0 /\ left.suspends % 2 = 0
  /\ left' = [left EXCEPT !.suspends = @ - 1]
  /\ flags' = flags \cup {"BLOCK_TX"}
  /\ UNCHANGED <<cmd, holder, pc, mine, timer, ack, work, recov, fw, sent>>

skw_resume ==
  /\ left.suspends % 2 = 1
  /\ left' = [left EXCEPT !.suspends = @ - 1]
  /\ flags' = flags \ {"BLOCK_TX"}
  /\ UNCHANGED <<cmd, holder, pc, mine, timer, ack, work, recov, fw, sent>>

FirmwareDies ==
  /\ fw = "up"
  /\ left.deaths > 0
  /\ left' = [left EXCEPT !.deaths = @ - 1]
  /\ fw' = "dead"
  /\ UNCHANGED <<cmd, holder, pc, mine, timer, ack, flags, work, recov, sent>>

\* skw_abort_cmd calls the callback of an unanswered command without DONE:
\* it ends a try_send, but does not wake a blocking sender.
skw_abort_cmd ==
  IF holder # NoOne /\ "ACKED" \notin cmd.flags
  THEN cmd' = [cmd EXCEPT !.flags = @ \cup {"ACKED"}] /\ callback(cmd)
  ELSE UNCHANGED <<cmd, timer, holder>>

\* SKW_BSP_NF_ASSERT reaches skw_bsp_notifier.
NotifyAssert ==
  /\ fw = "dead"
  /\ flags' = flags \cup {"FW_ASSERT"}
  /\ skw_abort_cmd
  /\ fw' = "notified"
  /\ UNCHANGED <<pc, mine, ack, work, recov, sent, left>>

\* Its cancel_work_sync waits for a running recovery; then Wi-Fi is stopped.
NotifyAssertEnd ==
  /\ fw = "notified"
  /\ recov # "running"
  /\ recov' = "idle"
  /\ fw' = "down"
  /\ sent' = {}
  /\ UNCHANGED <<cmd, holder, pc, mine, timer, ack, flags, work, left>>

\* SKW_BSP_NF_READY.  The firmware is downloaded again first, which outlasts
\* the RX thread's last answer and a timer callback that is under way.
NotifyReady ==
  /\ fw = "down"
  /\ ack.pc = "idle" /\ ~timer.fired
  /\ fw' = "up"
  /\ recov' = "queued"
  /\ UNCHANGED <<cmd, holder, pc, mine, timer, ack, flags, work, sent, left>>

\* Mutant: the flags that block transmission stay.
recovery_without_flags ==
  /\ recov = "queued"
  /\ recov' = "running"
  /\ cmd' = [cmd EXCEPT !.seq = 0]
  /\ pc' = [pc EXCEPT ![Recovery] = "lock"]
  /\ UNCHANGED <<holder, mine, timer, ack, flags, work, fw, sent, left>>

\* The recovery work resets the channel without taking its mutex, and sends.
skw_recovery_work ==
  /\ recov = "queued"
  /\ recov' = "running"
  /\ cmd' = [cmd EXCEPT !.seq = 0]
  /\ flags' = {}
  /\ pc' = [pc EXCEPT ![Recovery] = "lock"]
  /\ UNCHANGED <<holder, mine, timer, ack, work, fw, sent, left>>

\* A device that cannot be opened again is answered with another assert.
RecoveryEnd ==
  /\ pc[Recovery] \in {"done", "error"}
  /\ pc' = [pc EXCEPT ![Recovery] = "idle"]
  /\ recov' = "idle"
  /\ IF pc[Recovery] = "error" THEN skw_hw_assert(flags) ELSE UNCHANGED <<flags, fw>>
  /\ UNCHANGED <<cmd, holder, mine, timer, ack, work, sent, left>>

Init ==
  /\ cmd = [id |-> Recovery, seq |-> 0, msg |-> NoMsg, flags |-> {"ACKED", "DONE"},
            status |-> NoMsg, callback |-> "xmit_timeout"]
  /\ holder = NoOne
  /\ pc = [p \in Threads |-> "idle"]
  /\ mine = [s \in Senders |-> NoMsg]
  /\ timer = [on |-> FALSE, fired |-> FALSE]
  /\ ack = Idle
  /\ flags = {}
  /\ work = FALSE
  /\ recov = "idle"
  /\ fw = "up"
  /\ sent = {}
  /\ left = [deaths |-> MaxDeaths, slow |-> MaxSlow, suspends |-> 2 * MaxSuspends]

Send(p) ==
  NotAllowed(p) \/ Allowed(p) \/ skw_set_cmd(p) \/ skw_msg_xmit_timeout(p) \/ skw_msg_try_send(p)

Next ==
  \/ \E s \in Senders : Call(s) \/ skw_cmd_lock(s) \/ Answered(s) \/ Interrupted(s) \/ TimedOut(s)
  \/ \E t \in TryCallers : TryLock(t)
  \/ \E p \in Threads : Send(p)
  \/ skw_bus_cmd_xmit \/ skw_cmd_ack_handler \/ AckApply
  \/ TimerExpires \/ skw_cmd_timeout_fn \/ skw_work
  \/ skw_suspend \/ skw_resume
  \/ FirmwareDies \/ NotifyAssert \/ NotifyAssertEnd \/ NotifyReady
  \/ skw_recovery_work \/ RecoveryEnd

Spec == Init /\ [][Next]_vars

\* The threads run, an answerable command is answered, timeouts and timers
\* expire, the platform reports and restarts a dead firmware.  The mutex is
\* handed over in the order of its waiters, and a wait ends with its timeout
\* whatever happens meanwhile, hence strong fairness.
Fairness ==
  /\ \A p \in Threads : WF_vars(Send(p))
  /\ \A s \in Senders : SF_vars(skw_cmd_lock(s)) /\ SF_vars(Answered(s) \/ TimedOut(s))
  /\ WF_vars(skw_bus_cmd_xmit) /\ WF_vars(skw_cmd_ack_handler) /\ WF_vars(AckApply)
  /\ SF_vars(TimerExpires) /\ WF_vars(skw_cmd_timeout_fn) /\ WF_vars(skw_work)
  /\ WF_vars(NotifyAssert) /\ WF_vars(NotifyAssertEnd) /\ WF_vars(NotifyReady)
  /\ WF_vars(skw_recovery_work) /\ WF_vars(RecoveryEnd)

FairSpec == Spec /\ Fairness
-----------------------------------------------------------------------------
(* Properties. *)

Seqs == 0 .. MaxSeq + Cardinality(Threads)
Msgs == [id : {"cmd", Recovery, NoOne}, seq : Seqs]

\* Every variable keeps its type; the commands in transit never outrun the
\* sequence numbers.
TypeOK ==
  /\ cmd \in [id : {"cmd", Recovery}, seq : Seqs, msg : Msgs, status : Msgs,
             flags : SUBSET {"XMIT", "ACKED", "DONE"}, callback : {"xmit_timeout", "try_send"}]
  /\ holder \in Threads \cup {NoOne}
  /\ pc \in [Threads -> {"idle", "lock", "locked", "allowed", "set", "wait", "done", "error"}]
  /\ mine \in [Senders -> Msgs]
  /\ timer \in [on : BOOLEAN, fired : BOOLEAN]
  /\ ack \in [pc : {"idle", "apply"}, msg : Msgs, late : BOOLEAN]
  /\ flags \subseteq {"FW_ASSERT", "BLOCK_TX"}
  /\ work \in BOOLEAN
  /\ recov \in {"idle", "queued", "running"}
  /\ fw \in {"up", "dead", "notified", "down"}
  /\ sent \subseteq Msgs
  /\ left \in [deaths : 0 .. MaxDeaths, slow : 0 .. MaxSlow, suspends : 0 .. 2 * MaxSuspends]

\* lockdep_assert_held(&skw->cmd.lock) in skw_set_cmd: whoever builds a
\* command holds the mutex.
LockHeldInSetCmd == \A p \in Threads : pc[p] = "allowed" => holder = p

\* A blocking call that returns a status returns the status of its own
\* command, whatever answers come late, again or after a recovery that reset
\* the sequence numbers.  Only an answer that was between the check and the
\* end of skw_cmd_ack_handler while its caller gave up can reach the next
\* caller (Late).
OwnAnswer ==
  \A s \in Senders :
    pc[s] = "wait" /\ "DONE" \in cmd.flags => cmd.status \in {mine[s], Late}

\* Every call returns: the mutex comes back from every sender, from the data
\* path, from aborted commands and from a dead firmware.
CallsReturn == \A s \in Senders : pc[s] # "idle" ~> pc[s] = "idle"

\* A firmware that dies, or is asserted, is restarted and the channel opened
\* for its recovery, even while calls are under way: the notifier, the
\* recovery work and the callers never wait for each other in a circle.
DeathIsRecovered == fw # "up" ~> recov = "running" /\ "FW_ASSERT" \notin flags

\* Once nothing fails any more the recovery ends for good: a blocking call
\* that was aborted times out after the restart and asserts the new firmware,
\* but that does not go on for ever.
Recovers == <>[](fw = "up" /\ "FW_ASSERT" \notin flags /\ recov = "idle")
=============================================================================
