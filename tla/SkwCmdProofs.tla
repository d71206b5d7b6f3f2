----------------------------- MODULE SkwCmdProofs -----------------------------
(***************************************************************************)
(* The command channel with blocking senders only (TryCallers = {}): for   *)
(* any number of threads, deaths, slow answers and suspends, the mutex     *)
(* excludes and a call returns the status of its own command.  With the    *)
(* data path too: the types, and how far the numbers go.                   *)
(***************************************************************************)
EXTENDS SkwCmd, FiniteSetTheorems, TLAPS

InLock == {"locked", "allowed", "set", "wait"}
Pcs    == {"idle", "lock", "done", "error"} \cup InLock
AnyMsg == [id : {"cmd", Recovery, NoOne}, seq : Nat]

\* The state has its types; there is no try_send to arm the timer or to be
\* called back.
Types ==
  /\ cmd \in [id : {"cmd", Recovery}, seq : Nat, msg : AnyMsg, status : AnyMsg,
              flags : SUBSET {"XMIT", "ACKED", "DONE"}, callback : {"xmit_timeout"}]
  /\ pc \in [Threads -> Pcs]
  /\ mine \in [Senders -> AnyMsg]
  /\ ack \in [pc : {"idle", "apply"}, msg : AnyMsg, late : BOOLEAN]
  /\ sent \subseteq AnyMsg
  /\ timer = [on |-> FALSE, fired |-> FALSE]

\* Whoever is between lock and unlock holds the mutex, and the other way round.
Exclusion == \A p \in Threads : pc[p] \in InLock <=> holder = p

\* The recovery work is a thread of its own only while it runs.
RecoveryRuns ==
  /\ recov = "running" <=> pc[Recovery] # "idle"
  /\ fw = "down" => recov = "idle"

\* The message a sender waits for is the one that was built last.
WaitsForLast == \A s \in Senders : pc[s] \in {"set", "wait"} => mine[s] = cmd.msg

\* The sequence number is that of the last message, unless a recovery has reset
\* it; then no answer can pass the check, since none has the number 0.
SeqOfLast  == cmd.seq = 0 \/ cmd.msg = [id |-> cmd.id, seq |-> cmd.seq]
SentFromOne == /\ \A msg \in sent : msg.seq # 0
               /\ "XMIT" \in cmd.flags => cmd.msg.seq # 0
               /\ \A s \in Senders : pc[s] = "set" => cmd.msg.seq # 0

\* An answer that is being handled, and one that was stored, is that of the last
\* message, or late.
AnswerOfLast == ack.pc = "apply" /\ ~ack.late => ack.msg = cmd.msg
StatusOfLast == "DONE" \in cmd.flags => cmd.status \in {cmd.msg, Late}

Inv == /\ Types /\ Exclusion /\ RecoveryRuns
       /\ WaitsForLast /\ SeqOfLast /\ SentFromOne /\ AnswerOfLast /\ StatusOfLast

\* The channel: what all invariants but Exclusion and RecoveryRuns speak of.
channel == <<cmd, mine, ack, sent, timer>>
-----------------------------------------------------------------------------
LEMMA StartInv ==
  ASSUME TryCallers = {}, Init
  PROVE  Inv
<1>1. Recovery \in Senders /\ Senders = Threads /\ NoOne \notin Threads
  BY ThreadAssumption DEF Senders, Threads
<1>2. NoMsg \in AnyMsg
  BY DEF NoMsg, AnyMsg
<1>3. Types
  BY <1>1, <1>2 DEF Init, Types, Pcs, Idle
<1>4. Exclusion /\ RecoveryRuns /\ WaitsForLast /\ SeqOfLast /\ SentFromOne
  BY <1>1 DEF Init, Exclusion, RecoveryRuns, WaitsForLast, SeqOfLast, SentFromOne, InLock
<1>5. AnswerOfLast /\ StatusOfLast
  BY DEF Init, AnswerOfLast, StatusOfLast, Idle
<1> QED BY <1>3, <1>4, <1>5 DEF Inv

\* A thread moves without a change to the channel; not into "set", and into the
\* mutex only if it is free or its own.
LEMMA ThreadMoves ==
  ASSUME TryCallers = {}, Inv, UNCHANGED <<cmd, ack, sent, timer>>,
         NEW p \in Threads, NEW to \in Pcs \ {"set", "wait"},
         pc' = [pc EXCEPT ![p] = to],
         \/ UNCHANGED mine
         \/ mine' = [mine EXCEPT ![p] = NoMsg],
         \/ to \in InLock /\ holder' = p /\ holder \in {NoOne, p}
         \/ to \notin InLock /\ IF pc[p] \in InLock THEN holder' = NoOne ELSE holder' = holder,
         RecoveryRuns'
  PROVE  Inv'
<1>1. Senders = Threads /\ NoOne \notin Threads /\ NoMsg \in AnyMsg
  BY ThreadAssumption DEF Senders, Threads, NoMsg, AnyMsg
<1>2. /\ pc' \in [Threads -> Pcs] /\ pc'[p] = to
      /\ \A q \in Threads : q # p => pc'[q] = pc[q]
  BY DEF Inv, Types
<1>3. mine' \in [Senders -> AnyMsg] /\ \A q \in Threads : q # p => mine'[q] = mine[q]
  BY <1>1 DEF Inv, Types
<1>4. Types'
  BY <1>2, <1>3 DEF Inv, Types
<1>5. Exclusion'
  BY <1>1, <1>2 DEF Inv, Exclusion
<1>6. WaitsForLast' /\ SentFromOne'
  BY <1>1, <1>2, <1>3 DEF Inv, WaitsForLast, SentFromOne
<1>7. SeqOfLast' /\ AnswerOfLast' /\ StatusOfLast'
  BY DEF Inv, SeqOfLast, AnswerOfLast, StatusOfLast
<1> QED BY <1>4, <1>5, <1>6, <1>7 DEF Inv

\* The channel stays, and so do the threads.
LEMMA NothingMoves ==
  ASSUME Inv, UNCHANGED <<cmd, mine, ack, sent, timer, pc, holder>>, RecoveryRuns'
  PROVE  Inv'
  BY DEF Inv, Types, Exclusion, WaitsForLast, SeqOfLast, SentFromOne, AnswerOfLast, StatusOfLast

LEMMA RecoveryStays ==
  ASSUME Inv, UNCHANGED <<recov, fw>>, UNCHANGED pc[Recovery]
  PROVE  RecoveryRuns'
  BY DEF Inv, RecoveryRuns
-----------------------------------------------------------------------------
(* The steps of the senders. *)

LEMMA CallStep ==
  ASSUME TryCallers = {}, Inv, NEW s \in Senders, Call(s) \/ skw_cmd_lock(s)
  PROVE  Inv'
<1>1. s \in Threads /\ Recovery \notin Callers
  BY ThreadAssumption DEF Threads
<1>2. CASE Call(s)
  <2>1. pc[s] = "idle" /\ pc' = [pc EXCEPT ![s] = "lock"] /\ s # Recovery
    BY <1>1, <1>2 DEF Call
  <2>2. UNCHANGED pc[Recovery]
    BY <2>1 DEF Inv, Types
  <2>3. RecoveryRuns'
    BY <1>2, <2>2, RecoveryStays DEF Call
  <2> QED BY <1>1, <1>2, <2>1, <2>3, ThreadMoves DEF Call, Pcs, InLock
<1>3. CASE skw_cmd_lock(s)
  <2>1. pc[s] = "lock" /\ pc' = [pc EXCEPT ![s] = "locked"]
    BY <1>3 DEF skw_cmd_lock
  <2>2. RecoveryRuns'
    BY <1>3, <2>1 DEF skw_cmd_lock, Inv, Types, RecoveryRuns
  <2> QED BY <1>1, <1>3, <2>1, <2>2, ThreadMoves DEF skw_cmd_lock, Pcs, InLock
<1> QED BY <1>2, <1>3

\* A call that has the mutex returns.
LEMMA ReturnStep ==
  ASSUME TryCallers = {}, Inv, NEW p \in Threads, NEW r \in {"done", "error"},
         pc[p] \in InLock, Return(p, r), UNCHANGED <<cmd, ack, sent, timer, recov>>,
         UNCHANGED mine \/ mine' = [mine EXCEPT ![p] = NoMsg],
         fw' = fw \/ (fw = "up" /\ fw' = "dead")
  PROVE  Inv'
<1> DEFINE to == IF p = Recovery THEN r ELSE "idle"
<1>1. pc' = [pc EXCEPT ![p] = to] /\ holder' = NoOne
  BY DEF Return, skw_cmd_unlock
<1>2. to \in Pcs \ {"set", "wait"} /\ to \notin InLock
  BY DEF Pcs, InLock
<1>3. RecoveryRuns'
  BY <1>1 DEF Inv, Types, RecoveryRuns, InLock
<1> QED BY <1>1, <1>2, <1>3, ThreadMoves

LEMMA WaitEnds ==
  ASSUME TryCallers = {}, Inv, NEW s \in Senders,
         Answered(s) \/ Interrupted(s) \/ TimedOut(s)
  PROVE  Inv'
<1>1. s \in Threads /\ pc[s] \in InLock
  BY DEF Threads, InLock, Answered, Interrupted, TimedOut
<1>2. CASE Answered(s)
  BY <1>1, <1>2, ReturnStep DEF Answered
<1>3. CASE Interrupted(s)
  BY <1>1, <1>3, ReturnStep DEF Interrupted
<1>4. CASE TimedOut(s)
  BY <1>1, <1>4, ReturnStep DEF TimedOut, skw_hw_assert
<1> QED BY <1>2, <1>3, <1>4

LEMMA AllowStep ==
  ASSUME TryCallers = {}, Inv, NEW p \in Threads, NotAllowed(p) \/ Allowed(p)
  PROVE  Inv'
<1>1. CASE NotAllowed(p)
  BY <1>1, ReturnStep DEF NotAllowed, InLock
<1>2. CASE Allowed(p)
  <2>1. pc[p] = "locked" /\ pc' = [pc EXCEPT ![p] = "allowed"] /\ holder = p
    BY <1>2 DEF Allowed, Inv, Exclusion, InLock
  <2>2. RecoveryRuns'
    BY <1>2, <2>1 DEF Allowed, Inv, Types, RecoveryRuns
  <2> QED BY <1>2, <2>1, <2>2, ThreadMoves DEF Allowed, Pcs, InLock
<1> QED BY <1>1, <1>2

\* The message is built by the one sender that has the mutex, so nobody else
\* waits for the one before.
LEMMA SetCmdStep ==
  ASSUME TryCallers = {}, Inv, NEW p \in Threads, skw_set_cmd(p)
  PROVE  Inv'
<1> DEFINE msg == [id |-> Id(p), seq |-> cmd.seq + 1]
<1>1. p \in Senders /\ Senders = Threads
  BY ThreadAssumption DEF Senders, Threads
<1>2. /\ pc[p] = "allowed" /\ pc' = [pc EXCEPT ![p] = "set"]
      /\ mine' = [mine EXCEPT ![p] = msg]
      /\ cmd' = [cmd EXCEPT !.seq = @ + 1, !.id = Id(p), !.msg = msg,
                            !.flags = {}, !.status = NoMsg]
      /\ ack' = [ack EXCEPT !.late = ack.pc = "apply"]
      /\ UNCHANGED <<holder, timer, recov, fw, sent>>
  BY <1>1 DEF skw_set_cmd
<1>3. Id(p) \in {"cmd", Recovery} /\ cmd.seq \in Nat /\ NoMsg \in AnyMsg /\ msg \in AnyMsg
  BY DEF Id, Inv, Types, AnyMsg, NoMsg
<1>4. msg.seq = cmd.seq + 1 /\ msg.seq # 0 /\ msg = [id |-> Id(p), seq |-> cmd.seq + 1]
  BY <1>3
<1> HIDE DEF msg
<1>5. /\ pc' \in [Threads -> Pcs] /\ pc'[p] = "set"
      /\ \A q \in Threads : q # p => pc'[q] = pc[q]
      /\ mine' \in [Senders -> AnyMsg] /\ mine'[p] = msg
      /\ \A q \in Threads : q # p => mine'[q] = mine[q]
  BY <1>1, <1>2, <1>3 DEF Inv, Types, Pcs, InLock
<1>6. /\ cmd' \in [id : {"cmd", Recovery}, seq : Nat, msg : AnyMsg, status : AnyMsg,
                   flags : SUBSET {"XMIT", "ACKED", "DONE"}, callback : {"xmit_timeout"}]
      /\ cmd'.seq = cmd.seq + 1 /\ cmd'.id = Id(p) /\ cmd'.msg = msg /\ cmd'.flags = {}
  <2>1. cmd' = [id |-> Id(p), seq |-> cmd.seq + 1, msg |-> msg, flags |-> {},
                status |-> NoMsg, callback |-> cmd.callback]
    BY <1>2 DEF Inv, Types
  <2>2. cmd.callback = "xmit_timeout" /\ {} \in SUBSET {"XMIT", "ACKED", "DONE"}
    BY DEF Inv, Types
  <2> QED BY <1>3, <2>1, <2>2
<1>7. /\ ack' \in [pc : {"idle", "apply"}, msg : AnyMsg, late : BOOLEAN]
      /\ ack'.pc = "apply" => ack'.late
  BY <1>2 DEF Inv, Types
<1>8. Types'
  BY <1>2, <1>5, <1>6, <1>7 DEF Inv, Types
<1>9. Exclusion'
  BY <1>2, <1>5 DEF Inv, Exclusion, InLock
<1>10. RecoveryRuns'
  BY <1>2, <1>5 DEF Inv, Types, RecoveryRuns
<1>11. WaitsForLast'
  <2>1. \A q \in Senders : q # p => pc[q] \notin InLock
    BY <1>1, <1>2 DEF Inv, Exclusion, InLock
  <2> QED BY <1>1, <1>5, <1>6, <2>1 DEF WaitsForLast, InLock
<1>12. SeqOfLast' /\ SentFromOne' /\ AnswerOfLast' /\ StatusOfLast'
  BY <1>2, <1>4, <1>6, <1>7 DEF Inv, SeqOfLast, SentFromOne, AnswerOfLast, StatusOfLast
<1> QED BY <1>8, <1>9, <1>10, <1>11, <1>12 DEF Inv

LEMMA XmitStep ==
  ASSUME TryCallers = {}, Inv, NEW s \in Senders, skw_msg_xmit_timeout(s)
  PROVE  Inv'
<1>1. s \in Threads
  BY DEF Threads
<1>2. /\ pc[s] = "set" /\ pc' = [pc EXCEPT ![s] = "wait"]
      /\ cmd' = [cmd EXCEPT !.callback = "xmit_timeout", !.flags = @ \cup {"XMIT"}]
      /\ UNCHANGED <<holder, mine, timer, ack, recov, fw, sent>>
  BY DEF skw_msg_xmit_timeout
<1>3. /\ pc' \in [Threads -> Pcs] /\ pc'[s] = "wait"
      /\ \A q \in Threads : q # s => pc'[q] = pc[q]
  BY <1>1, <1>2 DEF Inv, Types, Pcs, InLock
<1>4. /\ cmd' \in [id : {"cmd", Recovery}, seq : Nat, msg : AnyMsg, status : AnyMsg,
                   flags : SUBSET {"XMIT", "ACKED", "DONE"}, callback : {"xmit_timeout"}]
      /\ cmd'.seq = cmd.seq /\ cmd'.id = cmd.id /\ cmd'.msg = cmd.msg
      /\ cmd'.status = cmd.status /\ cmd'.flags = cmd.flags \cup {"XMIT"}
  BY <1>2 DEF Inv, Types
<1>5. Types' /\ Exclusion'
  BY <1>2, <1>3, <1>4 DEF Inv, Types, Exclusion, InLock
<1>6. RecoveryRuns'
  BY <1>1, <1>2, <1>3 DEF Inv, Types, RecoveryRuns
<1>7. WaitsForLast' /\ SentFromOne'
  BY <1>1, <1>2, <1>3, <1>4 DEF Inv, WaitsForLast, SentFromOne, Threads
<1>8. SeqOfLast' /\ AnswerOfLast' /\ StatusOfLast'
  BY <1>2, <1>4 DEF Inv, SeqOfLast, AnswerOfLast, StatusOfLast
<1> QED BY <1>5, <1>6, <1>7, <1>8 DEF Inv
-----------------------------------------------------------------------------
(* The steps of the bus, of the answer and of the platform. *)

LEMMA BusStep ==
  ASSUME Inv, skw_bus_cmd_xmit
  PROVE  Inv'
<1>1. /\ "XMIT" \in cmd.flags /\ cmd' = [cmd EXCEPT !.flags = @ \ {"XMIT"}]
      /\ sent' = sent \cup {cmd.msg} \/ sent' = sent
      /\ UNCHANGED <<holder, pc, mine, timer, ack, recov, fw>>
  BY DEF skw_bus_cmd_xmit
<1>2. /\ cmd' \in [id : {"cmd", Recovery}, seq : Nat, msg : AnyMsg, status : AnyMsg,
                   flags : SUBSET {"XMIT", "ACKED", "DONE"}, callback : {"xmit_timeout"}]
      /\ cmd'.seq = cmd.seq /\ cmd'.id = cmd.id /\ cmd'.msg = cmd.msg
      /\ cmd'.status = cmd.status /\ cmd'.flags = cmd.flags \ {"XMIT"}
      /\ cmd.msg \in AnyMsg
  BY <1>1 DEF Inv, Types
<1>3. Types' /\ Exclusion' /\ RecoveryRuns'
  BY <1>1, <1>2 DEF Inv, Types, Exclusion, RecoveryRuns
<1>4. WaitsForLast' /\ SentFromOne'
  BY <1>1, <1>2 DEF Inv, WaitsForLast, SentFromOne
<1>5. SeqOfLast' /\ AnswerOfLast' /\ StatusOfLast'
  BY <1>1, <1>2 DEF Inv, SeqOfLast, AnswerOfLast, StatusOfLast
<1> QED BY <1>3, <1>4, <1>5 DEF Inv

\* The check of the sequence number makes an answer that of the last message: a
\* number that was reset matches none.
LEMMA AckStep ==
  ASSUME Inv, skw_cmd_ack_handler
  PROVE  Inv'
<1>1. PICK msg \in sent :
        /\ msg.id = cmd.id /\ msg.seq = cmd.seq
        /\ ack' = [pc |-> "apply", msg |-> msg, late |-> FALSE]
  BY DEF skw_cmd_ack_handler
<1>2. /\ cmd' = [cmd EXCEPT !.flags = @ \cup {"ACKED"}]
      /\ UNCHANGED <<holder, pc, mine, timer, recov, fw, sent>>
  BY DEF skw_cmd_ack_handler
<1>3. /\ cmd' \in [id : {"cmd", Recovery}, seq : Nat, msg : AnyMsg, status : AnyMsg,
                   flags : SUBSET {"XMIT", "ACKED", "DONE"}, callback : {"xmit_timeout"}]
      /\ cmd'.seq = cmd.seq /\ cmd'.id = cmd.id /\ cmd'.msg = cmd.msg
      /\ cmd'.status = cmd.status /\ cmd'.flags = cmd.flags \cup {"ACKED"}
  BY <1>2 DEF Inv, Types
<1>4. msg \in AnyMsg /\ msg.seq # 0
  BY DEF Inv, Types, SentFromOne
<1>5. msg = cmd.msg
  <2>1. cmd.msg = [id |-> cmd.id, seq |-> cmd.seq]
    BY <1>1, <1>4 DEF Inv, SeqOfLast
  <2>2. msg = [id |-> msg.id, seq |-> msg.seq]
    BY <1>4 DEF AnyMsg
  <2> QED BY <1>1, <2>1, <2>2
<1>6. Types' /\ Exclusion' /\ RecoveryRuns'
  BY <1>1, <1>2, <1>3, <1>4 DEF Inv, Types, Exclusion, RecoveryRuns
<1>7. WaitsForLast' /\ SentFromOne'
  BY <1>2, <1>3 DEF Inv, WaitsForLast, SentFromOne
<1>8. SeqOfLast' /\ AnswerOfLast' /\ StatusOfLast'
  BY <1>1, <1>2, <1>3, <1>5 DEF Inv, SeqOfLast, AnswerOfLast, StatusOfLast
<1> QED BY <1>6, <1>7, <1>8 DEF Inv

LEMMA ApplyStep ==
  ASSUME Inv, AckApply
  PROVE  Inv'
<1> DEFINE status == IF ack.late THEN Late ELSE ack.msg
<1>1. /\ ack.pc = "apply" /\ ack' = Idle
      /\ cmd' = [cmd EXCEPT !.status = status, !.flags = @ \cup {"DONE"}]
      /\ UNCHANGED <<pc, mine, recov, fw, sent>>
  BY DEF AckApply
<1>2. status \in AnyMsg /\ status \in {cmd.msg, Late} /\ Idle \in [pc : {"idle", "apply"}, msg : AnyMsg, late : BOOLEAN]
  BY <1>1 DEF Inv, Types, AnswerOfLast, Idle, NoMsg, Late, AnyMsg
<1> HIDE DEF status
<1>3. /\ cmd' \in [id : {"cmd", Recovery}, seq : Nat, msg : AnyMsg, status : AnyMsg,
                   flags : SUBSET {"XMIT", "ACKED", "DONE"}, callback : {"xmit_timeout"}]
      /\ cmd'.seq = cmd.seq /\ cmd'.id = cmd.id /\ cmd'.msg = cmd.msg
      /\ cmd'.status = status /\ cmd'.flags = cmd.flags \cup {"DONE"}
      /\ cmd'.callback = "xmit_timeout"
  BY <1>1, <1>2 DEF Inv, Types
<1>4. UNCHANGED <<timer, holder>>
  <2>1. callback(cmd')
    BY DEF AckApply
  <2> QED BY <1>3, <2>1 DEF callback
<1>5. Types' /\ Exclusion' /\ RecoveryRuns'
  BY <1>1, <1>2, <1>3, <1>4 DEF Inv, Types, Exclusion, RecoveryRuns
<1>6. WaitsForLast' /\ SentFromOne'
  BY <1>1, <1>3 DEF Inv, WaitsForLast, SentFromOne
<1>7. SeqOfLast' /\ AnswerOfLast' /\ StatusOfLast'
  BY <1>1, <1>2, <1>3 DEF Inv, SeqOfLast, AnswerOfLast, StatusOfLast, Idle
<1> QED BY <1>5, <1>6, <1>7 DEF Inv

\* Without a try_send the timer never expires, and the abort of a command calls
\* back nobody.
LEMMA AbortStep ==
  ASSUME Inv, NotifyAssert
  PROVE  Inv'
<1>1. /\ fw = "dead" /\ fw' = "notified" /\ UNCHANGED <<pc, mine, ack, recov, sent>>
      /\ skw_abort_cmd
  BY DEF NotifyAssert
<1>2. /\ UNCHANGED <<timer, holder>>
      /\ cmd' = cmd \/ cmd' = [cmd EXCEPT !.flags = @ \cup {"ACKED"}]
  BY <1>1 DEF skw_abort_cmd, callback, Inv, Types
<1>3. /\ cmd' \in [id : {"cmd", Recovery}, seq : Nat, msg : AnyMsg, status : AnyMsg,
                   flags : SUBSET {"XMIT", "ACKED", "DONE"}, callback : {"xmit_timeout"}]
      /\ cmd'.seq = cmd.seq /\ cmd'.id = cmd.id /\ cmd'.msg = cmd.msg
      /\ cmd'.status = cmd.status
      /\ cmd'.flags = cmd.flags \/ cmd'.flags = cmd.flags \cup {"ACKED"}
  BY <1>2 DEF Inv, Types
<1>4. Types' /\ Exclusion' /\ RecoveryRuns'
  BY <1>1, <1>2, <1>3 DEF Inv, Types, Exclusion, RecoveryRuns
<1>5. WaitsForLast' /\ SentFromOne'
  BY <1>1, <1>3 DEF Inv, WaitsForLast, SentFromOne
<1>6. SeqOfLast' /\ AnswerOfLast' /\ StatusOfLast'
  BY <1>1, <1>3 DEF Inv, SeqOfLast, AnswerOfLast, StatusOfLast
<1> QED BY <1>4, <1>5, <1>6 DEF Inv

\* The other steps of the platform leave the channel alone, ...
LEMMA PlatformStep ==
  ASSUME Inv,
         \/ TimerExpires \/ skw_cmd_timeout_fn \/ skw_work \/ skw_suspend \/ skw_resume
         \/ FirmwareDies \/ NotifyReady
  PROVE  Inv'
<1>1. ~timer.on /\ ~timer.fired
  BY DEF Inv, Types
<1>2. CASE TimerExpires \/ skw_cmd_timeout_fn
  BY <1>1, <1>2 DEF TimerExpires, skw_cmd_timeout_fn
<1>3. CASE skw_work \/ skw_suspend \/ skw_resume \/ FirmwareDies
  <2>1. /\ UNCHANGED <<cmd, mine, ack, sent, timer, pc, holder, recov>>
        /\ fw' = fw \/ (fw = "up" /\ fw' = "dead")
    BY <1>3 DEF skw_work, skw_hw_assert, skw_suspend, skw_resume, FirmwareDies
  <2>2. RecoveryRuns'
    BY <2>1 DEF Inv, RecoveryRuns
  <2> QED BY <2>1, <2>2, NothingMoves
<1>4. CASE NotifyReady
  <2>1. /\ UNCHANGED <<cmd, mine, ack, sent, timer, pc, holder>>
        /\ fw = "down" /\ fw' = "up" /\ recov' = "queued"
    BY <1>4 DEF NotifyReady
  <2>2. RecoveryRuns'
    BY <2>1 DEF Inv, RecoveryRuns
  <2> QED BY <2>1, <2>2, NothingMoves
<1> QED BY <1>2, <1>3, <1>4

\* ... forget what was sent to a firmware that is down, ...
LEMMA DownStep ==
  ASSUME Inv, NotifyAssertEnd
  PROVE  Inv'
<1>1. /\ recov # "running" /\ recov' = "idle" /\ sent' = {}
      /\ UNCHANGED <<cmd, mine, ack, timer, pc, holder>>
  BY DEF NotifyAssertEnd
<1> QED BY <1>1 DEF Inv, Types, Exclusion, RecoveryRuns, WaitsForLast, SeqOfLast, SentFromOne,
                    AnswerOfLast, StatusOfLast

\* ... and reset the sequence number under a sender that may still wait.
LEMMA RecoveryStep ==
  ASSUME TryCallers = {}, Inv, skw_recovery_work \/ RecoveryEnd
  PROVE  Inv'
<1>1. Recovery \in Threads /\ Recovery \in Senders
  BY DEF Threads, Senders
<1>2. CASE skw_recovery_work
  <2>1. /\ recov = "queued" /\ recov' = "running" /\ cmd' = [cmd EXCEPT !.seq = 0]
        /\ pc' = [pc EXCEPT ![Recovery] = "lock"] /\ pc[Recovery] = "idle"
        /\ UNCHANGED <<holder, mine, timer, ack, fw, sent>>
    BY <1>2 DEF skw_recovery_work, Inv, RecoveryRuns
  <2>2. /\ cmd' \in [id : {"cmd", Recovery}, seq : Nat, msg : AnyMsg, status : AnyMsg,
                     flags : SUBSET {"XMIT", "ACKED", "DONE"}, callback : {"xmit_timeout"}]
        /\ cmd'.seq = 0 /\ cmd'.id = cmd.id /\ cmd'.msg = cmd.msg
        /\ cmd'.status = cmd.status /\ cmd'.flags = cmd.flags
    BY <2>1 DEF Inv, Types
  <2>3. /\ pc' \in [Threads -> Pcs] /\ pc'[Recovery] = "lock"
        /\ \A q \in Threads : q # Recovery => pc'[q] = pc[q]
    BY <1>1, <2>1 DEF Inv, Types, Pcs
  <2>4. Types' /\ Exclusion'
    BY <1>1, <2>1, <2>2, <2>3 DEF Inv, Types, Exclusion, InLock
  <2>5. RecoveryRuns'
    BY <2>1, <2>3 DEF Inv, RecoveryRuns
  <2>6. WaitsForLast' /\ SentFromOne'
    BY <2>1, <2>2, <2>3 DEF Inv, WaitsForLast, SentFromOne, Threads
  <2>7. SeqOfLast' /\ AnswerOfLast' /\ StatusOfLast'
    BY <2>1, <2>2 DEF Inv, SeqOfLast, AnswerOfLast, StatusOfLast
  <2> QED BY <2>4, <2>5, <2>6, <2>7 DEF Inv
<1>3. CASE RecoveryEnd
  <2>1. /\ pc[Recovery] \in {"done", "error"} /\ pc' = [pc EXCEPT ![Recovery] = "idle"]
        /\ recov' = "idle" /\ UNCHANGED <<cmd, holder, mine, timer, ack, sent>>
    BY <1>3 DEF RecoveryEnd
  <2>2. RecoveryRuns'
    BY <1>1, <2>1 DEF Inv, Types, RecoveryRuns
  <2> QED BY <1>1, <2>1, <2>2, ThreadMoves DEF Pcs, InLock
<1> QED BY <1>2, <1>3
-----------------------------------------------------------------------------
(* The theorems. *)

LEMMA NextInv ==
  ASSUME TryCallers = {}, Inv, [Next]_vars
  PROVE  Inv'
<1>1. CASE UNCHANGED vars
  <2>1. UNCHANGED <<cmd, mine, ack, sent, timer, pc, holder, recov, fw>>
    BY <1>1 DEF vars
  <2>2. RecoveryRuns'
    BY <2>1 DEF Inv, RecoveryRuns
  <2> QED BY <2>1, <2>2, NothingMoves
<1>2. ASSUME NEW s \in Senders,
             Call(s) \/ skw_cmd_lock(s) \/ Answered(s) \/ Interrupted(s) \/ TimedOut(s)
      PROVE  Inv'
  BY <1>2, CallStep, WaitEnds
<1>3. ASSUME NEW p \in Threads, Send(p) PROVE Inv'
  <2>1. p \in Senders
    BY DEF Threads
  <2>2. ~skw_msg_try_send(p)
    BY DEF skw_msg_try_send
  <2> QED BY <1>3, <2>1, <2>2, AllowStep, SetCmdStep, XmitStep DEF Send
<1>4. CASE skw_bus_cmd_xmit \/ skw_cmd_ack_handler \/ AckApply
  BY <1>4, BusStep, AckStep, ApplyStep
<1>5. CASE \/ TimerExpires \/ skw_cmd_timeout_fn \/ skw_work \/ skw_suspend \/ skw_resume
           \/ FirmwareDies \/ NotifyAssert \/ NotifyAssertEnd \/ NotifyReady
           \/ skw_recovery_work \/ RecoveryEnd
  BY <1>5, PlatformStep, AbortStep, DownStep, RecoveryStep
<1> QED BY <1>1, <1>2, <1>3, <1>4, <1>5 DEF Next

\* With blocking senders only, the invariant holds in every run.
THEOREM Invariance == TryCallers = {} => (Spec => []Inv)
<1> SUFFICES ASSUME TryCallers = {} PROVE Spec => []Inv
  OBVIOUS
<1>1. Init => Inv
  BY StartInv
<1>2. Inv /\ [Next]_vars => Inv'
  BY NextInv
<1> QED BY <1>1, <1>2, PTL DEF Spec

\* A blocking call never returns the status of another one, whatever answers come
\* late or again, however many calls are given up and however often the firmware
\* dies and the numbers start again.
THEOREM OwnAnswerSafety == TryCallers = {} => (Spec => []OwnAnswer)
<1> SUFFICES ASSUME TryCallers = {} PROVE Spec => []OwnAnswer
  OBVIOUS
<1>1. Inv => OwnAnswer
  BY DEF Inv, WaitsForLast, StatusOfLast, OwnAnswer
<1> QED BY <1>1, Invariance, PTL

\* lockdep_assert_held in skw_set_cmd is right as long as nobody returns with the
\* mutex held: only the data path's try_send (run skwcmd_lock) breaks it.
THEOREM BlockingSendersExclude == TryCallers = {} => (Spec => []LockHeldInSetCmd)
<1> SUFFICES ASSUME TryCallers = {} PROVE Spec => []LockHeldInSetCmd
  OBVIOUS
<1>1. Inv => LockHeldInSetCmd
  BY DEF Inv, Exclusion, InLock, LockHeldInSetCmd
<1> QED BY <1>1, Invariance, PTL
-----------------------------------------------------------------------------
(* The types, with try_send too. *)

\* A call starts below MaxSeq only; those under way may each count once more,
\* whatever the others count meanwhile and whenever a recovery starts again at 0.
Counted == {p \in Threads : pc[p] \in {"lock", "locked", "allowed"}}
Numbers == cmd.seq + Cardinality(Counted) <= MaxSeq + Cardinality(Threads)

TypeInv == TypeOK /\ Numbers

CmdRecord ==
  [id : {"cmd", Recovery}, seq : Seqs, msg : Msgs, status : Msgs,
   flags : SUBSET {"XMIT", "ACKED", "DONE"}, callback : {"xmit_timeout", "try_send"}]
AckRecord  == [pc : {"idle", "apply"}, msg : Msgs, late : BOOLEAN]
TimerRecord == [on : BOOLEAN, fired : BOOLEAN]
LeftRecord ==
  [deaths : 0 .. MaxDeaths, slow : 0 .. MaxSlow, suspends : 0 .. 2 * MaxSuspends]
Flags == {"FW_ASSERT", "BLOCK_TX"}
Fws   == {"up", "dead", "notified", "down"}

\* The number of callers that may still count is at most that of the threads.
LEMMA Counts ==
  /\ IsFiniteSet(Counted) /\ Cardinality(Counted) \in Nat
  /\ Cardinality(Threads) \in Nat /\ Cardinality(Counted) <= Cardinality(Threads)
<1>1. IsFiniteSet(Threads) /\ Counted \subseteq Threads
  BY ThreadAssumption DEF Counted
<1> QED BY <1>1, FS_Subset, FS_CardinalityType

LEMMA Numerals ==
  /\ Seqs \subseteq Nat /\ NoMsg \in Msgs /\ Late \in Msgs
  /\ \A n \in Nat : n <= MaxSeq + Cardinality(Threads) => n \in Seqs
  /\ \A n \in Seqs : n <= MaxSeq + Cardinality(Threads)
<1> DEFINE top == MaxSeq + Cardinality(Threads)
<1>1. top \in Nat /\ top >= 1
  BY Counts, ThreadAssumption
<1>2. Seqs = 0 .. top
  BY DEF Seqs
<1> HIDE DEF top
<1>3. /\ Seqs \subseteq Nat /\ 0 \in Seqs /\ 1 \in Seqs
      /\ \A n \in Nat : n <= top => n \in Seqs
      /\ \A n \in Seqs : n <= top
  BY <1>1, <1>2
<1>4. NoMsg \in Msgs /\ Late \in Msgs
  BY <1>3 DEF NoMsg, Late, Msgs
<1> QED BY <1>3, <1>4 DEF top

\* The numbers, if no call starts and nothing is built.
LEMMA NumbersStay ==
  ASSUME TypeInv, cmd'.seq = cmd.seq, Counted' \subseteq Counted
  PROVE  Numbers'
<1>1. Cardinality(Counted') <= Cardinality(Counted) /\ Cardinality(Counted') \in Nat
  BY Counts, FS_Subset, FS_CardinalityType
<1>2. cmd.seq \in Nat /\ MaxSeq \in Nat
  BY Numerals, ThreadAssumption DEF TypeInv, TypeOK
<1> QED BY <1>1, <1>2, Counts DEF TypeInv, Numbers

\* A thread moves.
LEMMA Moved ==
  ASSUME TypeInv, NEW p \in Threads, NEW to \in Pcs, pc' = [pc EXCEPT ![p] = to]
  PROVE  /\ pc' \in [Threads -> Pcs]
         /\ \/ to \in {"lock", "locked", "allowed"} /\ pc[p] \notin {"lock", "locked", "allowed"}
            \/ Counted' \subseteq Counted
<1>1. pc \in [Threads -> Pcs]
  BY DEF TypeInv, TypeOK, Pcs, InLock
<1> QED BY <1>1 DEF Counted

LEMMA TypeStart ==
  ASSUME Init
  PROVE  TypeInv
<1>1. /\ MaxDeaths \in Nat /\ MaxSlow \in Nat /\ MaxSuspends \in Nat /\ 2 * MaxSuspends \in Nat
      /\ MaxSeq \in Nat
  BY ThreadAssumption
<1>2. left \in LeftRecord
  BY <1>1 DEF Init, LeftRecord
<1>3. 0 \in Seqs
  BY <1>1, Numerals, Counts
<1>4. cmd \in CmdRecord /\ ack \in AckRecord /\ mine \in [Senders -> Msgs] /\ timer \in TimerRecord
  BY <1>3, Numerals DEF Init, CmdRecord, AckRecord, Idle, TimerRecord
<1>5. Numbers
  <2>1. cmd.seq = 0
    BY DEF Init
  <2> QED BY <1>1, <2>1, Counts DEF Numbers
<1>6. /\ holder = NoOne /\ pc = [p \in Threads |-> "idle"] /\ flags = {} /\ work = FALSE
      /\ recov = "idle" /\ fw = "up" /\ sent = {}
  BY DEF Init
<1>7. /\ holder \in Threads \cup {NoOne} /\ pc \in [Threads -> Pcs] /\ flags \subseteq Flags
      /\ recov \in {"idle", "queued", "running"} /\ fw \in Fws /\ sent \subseteq Msgs
  BY <1>6 DEF Pcs, Fws
<1>8. work \in BOOLEAN
  BY <1>6
<1> QED
  BY <1>2, <1>4, <1>5, <1>7, <1>8
  DEF TypeInv, TypeOK, CmdRecord, AckRecord, TimerRecord, LeftRecord, Flags, Fws, Pcs, InLock

\* The steps of a thread between the messages.
LEMMA ThreadTypes ==
  ASSUME TypeInv, NEW p \in Threads,
         \/ Call(p) \/ skw_cmd_lock(p) \/ TryLock(p) \/ NotAllowed(p) \/ Allowed(p)
         \/ (p \in Senders /\ (Answered(p) \/ Interrupted(p) \/ TimedOut(p)))
  PROVE  TypeInv'
<1> USE DEF TypeInv
<1>1. PICK to \in Pcs : pc' = [pc EXCEPT ![p] = to]
  BY DEF Call, skw_cmd_lock, TryLock, NotAllowed, Allowed, Answered, Interrupted, TimedOut, Return,
         Pcs, InLock
<1>2. pc' \in [Threads -> Pcs]
  BY <1>1, Moved
<1>3. UNCHANGED <<cmd, timer, ack, work, recov, sent>>
  BY DEF Call, skw_cmd_lock, TryLock, NotAllowed, Allowed, Answered, Interrupted, TimedOut
<1>4. holder' \in {holder, p, NoOne} /\ holder' \in Threads \cup {NoOne}
  BY DEF Call, skw_cmd_lock, TryLock, NotAllowed, Allowed, Answered, Interrupted, TimedOut, Return,
         skw_cmd_unlock, TypeOK
<1>5. mine' \in [Senders -> Msgs]
  <2>1. mine' = mine \/ (p \in Senders /\ mine' = [mine EXCEPT ![p] = NoMsg])
    BY DEF Call, skw_cmd_lock, TryLock, NotAllowed, Allowed, Answered, Interrupted, TimedOut
  <2> QED BY <2>1, Numerals DEF TypeOK
<1>6. flags' \subseteq Flags /\ fw' \in Fws
  BY DEF Call, skw_cmd_lock, TryLock, NotAllowed, Allowed, Answered, Interrupted, TimedOut,
         skw_hw_assert, TypeOK, Flags, Fws
<1>7. left' \in LeftRecord
  <2>1. left' = left \/ (left.slow > 0 /\ left' = [left EXCEPT !.slow = @ - 1])
    BY DEF Call, skw_cmd_lock, TryLock, NotAllowed, Allowed, Answered, Interrupted, TimedOut, TimeIsUp
  <2>2. left \in LeftRecord
    BY DEF TypeOK, LeftRecord
  <2>3. left.slow \in 0 .. MaxSlow /\ (left.slow > 0 => left.slow - 1 \in 0 .. MaxSlow)
    BY <2>2, ThreadAssumption DEF LeftRecord
  <2> QED BY <2>1, <2>2, <2>3 DEF LeftRecord
<1>8. Numbers'
  <2>1. CASE Counted' \subseteq Counted
    BY <1>3, <2>1, NumbersStay
  <2>2. CASE ~(Counted' \subseteq Counted)
    <3>1. pc[p] \notin {"lock", "locked", "allowed"} /\ to \in {"lock", "locked", "allowed"}
      BY <1>1, <2>2, Moved
    <3>2. cmd.seq < MaxSeq
      <4>1. Call(p) \/ TryLock(p)
        <5>1. ASSUME Return(p, "done") \/ Return(p, "error") PROVE FALSE
          <6>1. pc'[p] \in {"idle", "done", "error"}
            BY <5>1 DEF Return, TypeOK
          <6> QED BY <1>1, <3>1, <6>1 DEF TypeOK
        <5> QED BY <3>1, <5>1 DEF skw_cmd_lock, NotAllowed, Allowed, Answered, Interrupted, TimedOut
      <4> QED BY <4>1 DEF Call, TryLock
    <3>3. cmd.seq \in Nat /\ MaxSeq \in Nat
      BY Numerals, ThreadAssumption DEF TypeOK
    <3>4. Cardinality(Counted') <= Cardinality(Threads) /\ Cardinality(Counted') \in Nat
      <4>1. IsFiniteSet(Threads) /\ Counted' \subseteq Threads
        BY ThreadAssumption DEF Counted
      <4> QED BY <4>1, FS_Subset, FS_CardinalityType
    <3> QED BY <1>3, <3>2, <3>3, <3>4, Counts DEF Numbers
  <2> QED BY <2>1, <2>2
<1> QED BY <1>2, <1>3, <1>4, <1>5, <1>6, <1>7, <1>8 DEF TypeOK, Pcs, InLock, Flags, Fws, LeftRecord

LEMMA BuildTypes ==
  ASSUME TypeInv, NEW p \in Threads, skw_set_cmd(p)
  PROVE  TypeInv'
<1> USE DEF TypeInv
<1> DEFINE n == cmd.seq + 1
           msg == [id |-> Id(p), seq |-> n]
<1>1. /\ pc[p] = "allowed" /\ pc' = [pc EXCEPT ![p] = "set"]
      /\ cmd' = [cmd EXCEPT !.seq = n, !.id = Id(p), !.msg = msg, !.flags = {}, !.status = NoMsg]
      /\ mine' = IF p \in Senders THEN [mine EXCEPT ![p] = msg] ELSE mine
      /\ ack' = [ack EXCEPT !.late = ack.pc = "apply"]
      /\ UNCHANGED <<holder, timer, flags, work, recov, fw, sent, left>>
  BY DEF skw_set_cmd
<1>2. /\ p \in Counted /\ Counted' = Counted \ {p} /\ pc' \in [Threads -> Pcs]
  BY <1>1 DEF Counted, TypeOK, Pcs, InLock
<1>3. Cardinality(Counted') = Cardinality(Counted) - 1 /\ Cardinality(Counted') \in Nat
  BY <1>2, Counts, FS_RemoveElement, FS_CardinalityType
<1>4. n \in Nat /\ n + Cardinality(Counted') <= MaxSeq + Cardinality(Threads) /\ n \in Seqs
  <2>1. cmd.seq \in Nat /\ MaxSeq \in Nat
    BY Numerals, ThreadAssumption DEF TypeOK
  <2>2. n \in Nat /\ n + Cardinality(Counted') <= MaxSeq + Cardinality(Threads)
    BY <1>3, <2>1, Counts DEF Numbers
  <2>3. n <= MaxSeq + Cardinality(Threads)
    BY <1>3, <2>1, <2>2, Counts
  <2> QED BY <2>2, <2>3, Numerals
<1> HIDE DEF n
<1>5. msg \in Msgs /\ Id(p) \in {"cmd", Recovery}
  BY <1>4 DEF Msgs, Id
<1> HIDE DEF msg
<1>6. cmd' \in CmdRecord /\ cmd'.seq = n
  BY <1>1, <1>4, <1>5, Numerals DEF TypeOK, CmdRecord
<1>7. Numbers'
  BY <1>4, <1>6 DEF Numbers
<1>8. mine' \in [Senders -> Msgs] /\ ack' \in AckRecord
  BY <1>1, <1>5 DEF TypeOK, AckRecord
<1> QED BY <1>1, <1>2, <1>6, <1>7, <1>8 DEF TypeOK, Pcs, InLock, CmdRecord, AckRecord

\* The message is handed over.
LEMMA HandTypes ==
  ASSUME TypeInv, NEW p \in Threads, skw_msg_xmit_timeout(p) \/ skw_msg_try_send(p)
  PROVE  TypeInv'
<1> USE DEF TypeInv
<1>1. PICK to \in {"wait", "idle"}, how \in {"xmit_timeout", "try_send"} :
        /\ pc' = [pc EXCEPT ![p] = to]
        /\ cmd' = [cmd EXCEPT !.callback = how, !.flags = @ \cup {"XMIT"}]
  BY DEF skw_msg_xmit_timeout, skw_msg_try_send
<1>2. timer' = timer \/ timer' = [timer EXCEPT !.on = TRUE]
  BY DEF skw_msg_xmit_timeout, skw_msg_try_send
<1>3. UNCHANGED <<holder, mine, ack, flags, work, recov, fw, sent, left>>
  BY DEF skw_msg_xmit_timeout, skw_msg_try_send
<1>4. pc' \in [Threads -> Pcs] /\ Counted' \subseteq Counted
  BY <1>1, Moved DEF Pcs, InLock
<1>5. cmd' \in CmdRecord /\ cmd'.seq = cmd.seq
  BY <1>1 DEF TypeOK, CmdRecord
<1>6. timer' \in TimerRecord
  BY <1>2 DEF TypeOK, TimerRecord
<1>7. Numbers'
  BY <1>4, <1>5, NumbersStay
<1> QED BY <1>3, <1>4, <1>5, <1>6, <1>7 DEF TypeOK, Pcs, InLock, CmdRecord, TimerRecord

LEMMA CallbackTypes ==
  ASSUME TypeInv, NEW c, callback(c)
  PROVE  timer' \in TimerRecord /\ holder' \in Threads \cup {NoOne}
<1>1. \/ timer' = [timer EXCEPT !.on = FALSE] /\ holder' = NoOne
      \/ UNCHANGED <<timer, holder>>
  BY DEF callback, skw_msg_try_send_cb, skw_cmd_unlock
<1> QED BY <1>1 DEF TypeInv, TypeOK, TimerRecord

\* The bus, the answer, the timer and the worker.
LEMMA BusTypes ==
  ASSUME TypeInv,
         \/ skw_bus_cmd_xmit \/ skw_cmd_ack_handler \/ AckApply
         \/ TimerExpires \/ skw_cmd_timeout_fn \/ skw_work
  PROVE  TypeInv'
<1> USE DEF TypeInv
<1>1. CASE skw_bus_cmd_xmit
  <2>1. cmd' = [cmd EXCEPT !.flags = @ \ {"XMIT"}] /\ sent' \in {sent \cup {cmd.msg}, sent}
        /\ UNCHANGED <<holder, pc, mine, timer, ack, flags, work, recov, fw, left>>
    BY <1>1 DEF skw_bus_cmd_xmit
  <2>2. cmd' \in CmdRecord /\ cmd'.seq = cmd.seq /\ sent' \subseteq Msgs
    BY <2>1 DEF TypeOK, CmdRecord
  <2>3. Numbers'
    BY <2>1, <2>2, NumbersStay DEF Counted
  <2> QED BY <2>1, <2>2, <2>3 DEF TypeOK, CmdRecord
<1>2. CASE skw_cmd_ack_handler
  <2>1. PICK msg \in sent : ack' = [pc |-> "apply", msg |-> msg, late |-> FALSE]
    BY <1>2 DEF skw_cmd_ack_handler
  <2>2. /\ cmd' = [cmd EXCEPT !.flags = @ \cup {"ACKED"}]
        /\ UNCHANGED <<holder, pc, mine, timer, flags, work, recov, fw, sent, left>>
    BY <1>2 DEF skw_cmd_ack_handler
  <2>3. cmd' \in CmdRecord /\ cmd'.seq = cmd.seq /\ ack' \in AckRecord
    BY <2>1, <2>2 DEF TypeOK, CmdRecord, AckRecord
  <2>4. Numbers'
    BY <2>2, <2>3, NumbersStay DEF Counted
  <2> QED BY <2>2, <2>3, <2>4 DEF TypeOK, CmdRecord, AckRecord
<1>3. CASE AckApply
  <2> DEFINE status == IF ack.late THEN Late ELSE ack.msg
  <2>1. /\ cmd' = [cmd EXCEPT !.status = status, !.flags = @ \cup {"DONE"}] /\ callback(cmd')
        /\ ack' = Idle /\ UNCHANGED <<pc, mine, flags, work, recov, fw, sent, left>>
    BY <1>3 DEF AckApply
  <2>2. status \in Msgs /\ Idle \in AckRecord
    BY Numerals DEF TypeOK, AckRecord, Idle
  <2> HIDE DEF status
  <2>3. cmd' \in CmdRecord /\ cmd'.seq = cmd.seq
    BY <2>1, <2>2 DEF TypeOK, CmdRecord
  <2>4. timer' \in TimerRecord /\ holder' \in Threads \cup {NoOne}
    BY <2>1, CallbackTypes
  <2>5. Numbers'
    BY <2>1, <2>3, NumbersStay DEF Counted
  <2> QED BY <2>1, <2>2, <2>3, <2>4, <2>5 DEF TypeOK, CmdRecord, AckRecord, TimerRecord
<1>4. CASE TimerExpires
  <2>1. /\ timer' = [on |-> FALSE, fired |-> TRUE]
        /\ UNCHANGED <<cmd, holder, pc, mine, ack, flags, work, recov, fw, sent>>
        /\ left' = left \/ (left.slow > 0 /\ left' = [left EXCEPT !.slow = @ - 1])
    BY <1>4 DEF TimerExpires, TimeIsUp
  <2>2. left \in LeftRecord
    BY DEF TypeOK, LeftRecord
  <2>3. left.slow > 0 => left.slow - 1 \in 0 .. MaxSlow
    BY <2>2, ThreadAssumption DEF LeftRecord
  <2>4. left' \in LeftRecord
    BY <2>1, <2>2, <2>3 DEF LeftRecord
  <2>5. Numbers'
    BY <2>1, NumbersStay DEF Counted
  <2>6. timer' \in TimerRecord
    BY <2>1 DEF TimerRecord
  <2> QED BY <2>1, <2>4, <2>5, <2>6 DEF TypeOK, LeftRecord, TimerRecord
<1>5. CASE skw_cmd_timeout_fn
  <2>1. /\ timer' = [timer EXCEPT !.fired = FALSE] /\ flags' = flags \cup {"BLOCK_TX"}
        /\ holder' = NoOne /\ work' = TRUE
        /\ UNCHANGED <<cmd, pc, mine, ack, recov, fw, sent, left>>
    BY <1>5 DEF skw_cmd_timeout_fn, skw_cmd_unlock
  <2>2. timer' \in TimerRecord /\ flags' \subseteq Flags
    BY <2>1 DEF TypeOK, TimerRecord, Flags
  <2>3. Numbers'
    BY <2>1, NumbersStay DEF Counted
  <2> QED BY <2>1, <2>2, <2>3 DEF TypeOK, TimerRecord, Flags
<1>6. CASE skw_work
  <2>1. /\ work' = FALSE /\ flags' = flags \cup {"FW_ASSERT"} /\ fw' \in {fw, "dead"}
        /\ UNCHANGED <<cmd, holder, pc, mine, timer, ack, recov, sent, left>>
    BY <1>6 DEF skw_work, skw_hw_assert
  <2>2. flags' \subseteq Flags /\ fw' \in Fws
    BY <2>1 DEF TypeOK, Flags, Fws
  <2>3. Numbers'
    BY <2>1, NumbersStay DEF Counted
  <2> QED BY <2>1, <2>2, <2>3 DEF TypeOK, Flags, Fws
<1> QED BY <1>1, <1>2, <1>3, <1>4, <1>5, <1>6

\* Suspend, the death of the firmware and the notifier.
LEMMA PlatformTypes ==
  ASSUME TypeInv,
         \/ skw_suspend \/ skw_resume \/ FirmwareDies
         \/ NotifyAssert \/ NotifyAssertEnd \/ NotifyReady
  PROVE  TypeInv'
<1> USE DEF TypeInv
<1>1. CASE skw_suspend \/ skw_resume \/ FirmwareDies
  <2>1. /\ flags' \in {flags, flags \cup {"BLOCK_TX"}, flags \ {"BLOCK_TX"}} /\ fw' \in {fw, "dead"}
        /\ UNCHANGED <<cmd, holder, pc, mine, timer, ack, work, recov, sent>>
        /\ \/ left.suspends # 0 /\ left' = [left EXCEPT !.suspends = @ - 1]
           \/ left.deaths > 0 /\ left' = [left EXCEPT !.deaths = @ - 1]
    <3>1. CASE skw_suspend
      BY <3>1 DEF skw_suspend, TypeOK
    <3>2. CASE skw_resume
      BY <3>2 DEF skw_resume, TypeOK
    <3>3. CASE FirmwareDies
      BY <3>3 DEF FirmwareDies
    <3> QED BY <1>1, <3>1, <3>2, <3>3
  <2>2. left \in LeftRecord
    BY DEF TypeOK, LeftRecord
  <2>3. /\ left.suspends # 0 => left.suspends - 1 \in 0 .. 2 * MaxSuspends
        /\ left.deaths > 0 => left.deaths - 1 \in 0 .. MaxDeaths
    BY <2>2, ThreadAssumption DEF LeftRecord
  <2>4. left' \in LeftRecord
    BY <2>1, <2>2, <2>3 DEF LeftRecord
  <2>5. flags' \subseteq Flags /\ fw' \in Fws
    BY <2>1 DEF TypeOK, Flags, Fws
  <2>6. Numbers'
    BY <2>1, NumbersStay DEF Counted
  <2> QED BY <2>1, <2>4, <2>5, <2>6 DEF TypeOK, LeftRecord, Flags, Fws
<1>2. CASE NotifyAssert
  <2>1. /\ flags' = flags \cup {"FW_ASSERT"} /\ fw' = "notified" /\ skw_abort_cmd
        /\ UNCHANGED <<pc, mine, ack, work, recov, sent, left>>
    BY <1>2 DEF NotifyAssert
  <2>2. \/ cmd' = [cmd EXCEPT !.flags = @ \cup {"ACKED"}] /\ callback(cmd)
        \/ UNCHANGED <<cmd, timer, holder>>
    BY <2>1 DEF skw_abort_cmd
  <2>3. cmd' \in CmdRecord /\ cmd'.seq = cmd.seq
    BY <2>2 DEF TypeOK, CmdRecord
  <2>4. timer' \in TimerRecord /\ holder' \in Threads \cup {NoOne}
    <3>1. CASE callback(cmd)
      BY <3>1, CallbackTypes
    <3>2. CASE UNCHANGED <<cmd, timer, holder>>
      BY <3>2 DEF TypeOK, TimerRecord
    <3> QED BY <2>2, <3>1, <3>2
  <2>5. flags' \subseteq Flags /\ fw' \in Fws
    BY <2>1 DEF TypeOK, Flags, Fws
  <2>6. Numbers'
    BY <2>1, <2>3, NumbersStay DEF Counted
  <2> QED BY <2>1, <2>3, <2>4, <2>5, <2>6 DEF TypeOK, CmdRecord, TimerRecord, Flags, Fws
<1>3. CASE NotifyAssertEnd \/ NotifyReady
  <2>1. /\ UNCHANGED <<cmd, holder, pc, mine, timer, ack, flags, work, left>>
        /\ fw' \in {"down", "up"} /\ recov' \in {"idle", "queued"} /\ sent' \in {sent, {}}
    BY <1>3 DEF NotifyAssertEnd, NotifyReady
  <2>2. sent' \subseteq Msgs /\ fw' \in Fws
    BY <2>1 DEF TypeOK, Fws
  <2>3. Numbers'
    BY <2>1, NumbersStay DEF Counted
  <2> QED BY <2>1, <2>2, <2>3 DEF TypeOK, Fws
<1> QED BY <1>1, <1>2, <1>3

\* A recovery starts again at 0: whoever is under way may count from there.
LEMMA RecoveryTypes ==
  ASSUME TypeInv, skw_recovery_work \/ RecoveryEnd
  PROVE  TypeInv'
<1> USE DEF TypeInv
<1>0. Recovery \in Threads
  BY DEF Threads, Senders
<1>1. CASE skw_recovery_work
  <2>1. /\ recov' = "running" /\ cmd' = [cmd EXCEPT !.seq = 0] /\ flags' = {}
        /\ pc' = [pc EXCEPT ![Recovery] = "lock"]
        /\ UNCHANGED <<holder, mine, timer, ack, work, fw, sent, left>>
    BY <1>1 DEF skw_recovery_work
  <2>2. pc' \in [Threads -> Pcs]
    BY <1>0, <2>1, Moved DEF Pcs
  <2>3. 0 \in Seqs
    BY Numerals, Counts, ThreadAssumption
  <2>4. cmd' \in CmdRecord /\ cmd'.seq = 0
    BY <2>1, <2>3 DEF TypeOK, CmdRecord
  <2>5. Numbers'
    <3>1. IsFiniteSet(Threads) /\ Counted' \subseteq Threads
      BY ThreadAssumption DEF Counted
    <3>2. Cardinality(Counted') <= Cardinality(Threads) /\ Cardinality(Counted') \in Nat
      BY <3>1, FS_Subset, FS_CardinalityType
    <3>3. MaxSeq \in Nat
      BY ThreadAssumption
    <3> QED BY <2>4, <3>2, <3>3, Counts DEF Numbers
  <2>6. flags' \subseteq Flags
    BY <2>1
  <2> QED BY <2>1, <2>2, <2>4, <2>5, <2>6 DEF TypeOK, Pcs, InLock, CmdRecord, Flags
<1>2. CASE RecoveryEnd
  <2>1. /\ recov' = "idle" /\ pc' = [pc EXCEPT ![Recovery] = "idle"]
        /\ flags' \in {flags, flags \cup {"FW_ASSERT"}} /\ fw' \in {fw, "dead"}
        /\ UNCHANGED <<cmd, holder, mine, timer, ack, work, sent, left>>
    BY <1>2 DEF RecoveryEnd, skw_hw_assert
  <2>2. pc' \in [Threads -> Pcs] /\ Counted' \subseteq Counted
    BY <1>0, <2>1, Moved DEF Pcs
  <2>3. flags' \subseteq Flags /\ fw' \in Fws
    BY <2>1 DEF TypeOK, Flags, Fws
  <2>4. Numbers'
    BY <2>1, <2>2, NumbersStay
  <2> QED BY <2>1, <2>2, <2>3, <2>4 DEF TypeOK, Pcs, InLock, Flags, Fws
<1> QED BY <1>1, <1>2

\* The channel keeps its types, for blocking senders and the data path alike; a
\* recovery that starts again at 0 under callers does not let the numbers run
\* past those the callers under way may still count.
THEOREM TypeCorrect == Spec => []TypeOK
<1>1. Init => TypeInv
  BY TypeStart
<1>2. TypeInv /\ [Next]_vars => TypeInv'
  <2> SUFFICES ASSUME TypeInv, [Next]_vars PROVE TypeInv'
    OBVIOUS
  <2>1. CASE UNCHANGED vars
    BY <2>1 DEF vars, TypeInv, TypeOK, Numbers, Counted
  <2>2. ASSUME NEW p \in Threads, Send(p) PROVE TypeInv'
    BY <2>2, ThreadTypes, BuildTypes, HandTypes DEF Send
  <2>3. Senders \subseteq Threads /\ TryCallers \subseteq Threads
    BY DEF Threads
  <2> QED
    BY <2>1, <2>2, <2>3, ThreadTypes, BusTypes, PlatformTypes, RecoveryTypes DEF Next
<1>3. TypeInv => TypeOK
  BY DEF TypeInv
<1> QED BY <1>1, <1>2, <1>3, PTL DEF Spec
===============================================================================
