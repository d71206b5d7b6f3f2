-------------------------------- MODULE SkwTx ---------------------------------
(***************************************************************************)
(* The transmit path of the Wi-Fi driver (skw_tx.c, skw_core.c): frames    *)
(* from the network stack to the buffers of the firmware.                  *)
(*                                                                         *)
(* skw_ndo_xmit queues a frame by access category, pure TCP acks apart,    *)
(* and stops the stack's queue when too much waits.  The work skw_tx_worker*)
(* moves the frames to a list of its own, takes as many as the firmware has*)
(* given credits for, and lets the stack go on.  Credits come back with    *)
(* what the firmware receives or as an event.  A frame is a number, its    *)
(* category and, for an ack, its TCP stream.  One interface, one lmac.     *)
(***************************************************************************)
EXTENDS Integers, Sequences, FiniteSets, SequencesExt

CONSTANTS
  Acs,        \* the access categories, from the first served to the last
  Be,         \* the one that carries the pure acks
  Ack,        \* SKW_ACK_TXQ
  Kinds,      \* the frames that may be sent: [q, stream, plain]
  High, Low,  \* SKW_TXQ_HIGH_THRESHOLD, SKW_TXQ_LOW_THRESHOLD
  PktLimit,   \* frames in one transfer (max_tx_count_limit)
  Quota,      \* what a category may always send in one round (base)
  Grant,      \* buffers of the firmware
  MaxFrames, MaxTurns \* bounds: frames; suspends, deaths, failures, ...

Categories == {Acs[i] : i \in DOMAIN Acs}
Queues == Categories \cup {Ack}

ASSUME QueueAssumption ==
  /\ Acs \in Seq(STRING) /\ Be \in Categories /\ Ack \notin Categories
  /\ Kinds \subseteq [q : Queues, stream : STRING, plain : BOOLEAN]
ASSUME SizeAssumption ==
  /\ {High, Low, PktLimit, Grant, MaxFrames} \subseteq Nat \ {0}
  /\ PktLimit < Low /\ Low <= High
  /\ MaxTurns \in Nat
  /\ Quota \in [Categories -> Nat \ {0}]

VARIABLES
  txq,     \* iface->txq
  cache,   \* iface->tx_cache, the worker's own
  stopped, \* which queues of the stack are stopped
  xmit,    \* skw_ndo_xmit on each queue of the stack
  worker,  \* skw_tx_worker: place, category, taken frames, credit, pending_qlen
  queued,  \* the work is pending
  credit,  \* lmac->fw_credit
  cmd,     \* SKW_CMD_FLAG_XMIT
  flags,   \* skw->flags, those of skw_tx_allowed
  link,    \* [entry, deauth]: the peer, SKW_IFACE_FLAG_DEAUTH
  fw,      \* [state, held, wire]: firmware, used buffers, credits on the way
  again,   \* SKW_FLAG_FW_CHIP_RECOVERY
  turns,   \* how many of MaxTurns are used
  sent,    \* how many frames were queued so far
  \* history
  lost,    \* credits of transfers that failed
  kicked,  \* the worker was woken since it may transmit again
  cut      \* the queue was stopped, or about to be, when its frames were purged

tx == <<txq, cache, stopped, xmit, sent>>
driver == <<worker, queued, credit, cmd>>
env == <<flags, link, fw, again, turns>>
vars == <<tx, driver, env, lost, kicked, cut>>

Frame == [q : Queues, stream : STRING, plain : BOOLEAN, id : Nat]
NetQueue(q) == IF q = Ack THEN Be ELSE q
Rest == [pc |-> "idle", ac |-> 1, list |-> <<>>, cred |-> 0, pending |-> 0]
Waiting == (UNION {ToSet(txq[q]) : q \in Queues})
           \cup (UNION {ToSet(cache[a]) : a \in Categories})
skw_tx_allowed == flags = {}
skw_wakeup_tx == queued' = TRUE /\ kicked' = TRUE
Turn == turns < MaxTurns /\ turns' = turns + 1
-----------------------------------------------------------------------------
(* skw_merge_pure_ack.  A round takes the last ack and looks at the others *)
(* from the front: of its stream, a plain one is dropped, one with options *)
(* goes out; the rest goes to the back.  The loop compares its counter     *)
(* with a length that shrinks, and so leaves some acks to later rounds.    *)

Look(last, s, i) ==
  IF i > Len(s.ackq) THEN s
  ELSE LET a == Head(s.ackq) IN
       IF a.stream # last.stream
       THEN [s EXCEPT !.ackq = Append(Tail(@), a)]
       ELSE [ackq |-> Tail(s.ackq),
             out |-> IF a.plain THEN s.out ELSE Append(s.out, a)]

Round(s) ==
  IF s.ackq = <<>> THEN s
  ELSE LET last == Last(s.ackq)
           seen[i \in 0 .. Len(s.ackq)] ==
             IF i = 0 THEN [s EXCEPT !.ackq = Front(@)]
                      ELSE Look(last, seen[i - 1], i)
       IN [seen[Len(s.ackq)] EXCEPT !.out = Append(@, last)]

skw_merge_pure_ack(ackq, out) ==
  LET after[n \in 0 .. Len(ackq)] ==
        IF n = 0 THEN [ackq |-> ackq, out |-> out] ELSE Round(after[n - 1])
  IN after[Len(ackq)].out
-----------------------------------------------------------------------------
(* skw_ndo_xmit: the frame is queued and the worker woken, then the two    *)
(* lists are measured, one after the other.  Without a peer the frame is   *)
(* dropped.  The acks would stop a queue that the stack does not have.     *)

Queue(k) ==
  LET a == NetQueue(k.q) IN
  /\ sent < MaxFrames /\ link.entry
  /\ ~stopped[a] /\ xmit[a].pc = "idle"
  /\ sent' = sent + 1
  /\ txq' = [txq EXCEPT ![k.q] =
               Append(@, [q |-> k.q, stream |-> k.stream,
                          plain |-> k.plain, id |-> sent])]
  /\ skw_wakeup_tx
  /\ xmit' = IF k.q = Ack THEN xmit
             ELSE [xmit EXCEPT ![a] = [pc |-> "queued", len |-> 0]]
  /\ UNCHANGED <<cache, stopped, worker, credit, cmd, env, lost, cut>>

MeasureQueue(a) ==
  /\ xmit[a].pc = "queued"
  /\ xmit' = [xmit EXCEPT ![a] = [pc |-> "measured", len |-> Len(txq[a])]]
  /\ UNCHANGED <<txq, cache, stopped, sent, driver, env, lost, kicked, cut>>

StopIfLong(a) ==
  /\ xmit[a].pc = "measured"
  /\ xmit' = [xmit EXCEPT ![a] = [pc |-> "idle", len |-> 0]]
  /\ LET long == xmit[a].len + Len(cache[a]) >= High IN
     /\ stopped' = [stopped EXCEPT ![a] = @ \/ long]
     /\ cut' = [cut EXCEPT ![a] = @ /\ stopped'[a]]
  /\ UNCHANGED <<txq, cache, sent, driver, env, lost, kicked>>

Xmit == \E a \in Categories : MeasureQueue(a) \/ StopIfLong(a)
-----------------------------------------------------------------------------
(* skw_tx_worker.  A step of it goes to the next place: *)

Goto(pc) == worker' = [worker EXCEPT !.pc = pc]

\* The next category, or the end of the round.
NextAc(w) ==
  IF w.ac < Len(Acs) THEN [w EXCEPT !.pc = "splice", !.ac = @ + 1]
                     ELSE [w EXCEPT !.pc = "check"]

\* Frames of a category are purged: what would have restarted its queue.
Purged(S) == cut' = [a \in Categories |->
                       cut[a] \/ (a \in S /\ (stopped[a] \/ xmit[a].pc # "idle"))]
Restarted(S) == cut' = [a \in Categories |->
                          cut[a] /\ ~(a \in S /\ stopped[a] /\ xmit[a].pc = "idle")]

Start ==
  /\ worker.pc = "idle" /\ queued
  /\ queued' = FALSE
  /\ Goto("top")
  /\ UNCHANGED <<tx, credit, cmd, env, lost, kicked, cut>>

\* The command goes first.  Without credit the worker stays for a second at
\* most (tx_wait_time), then returns.
Top ==
  /\ worker.pc = "top"
  /\ cmd' = FALSE
  /\ \/ /\ skw_tx_allowed /\ credit # 0
        /\ worker' = [Rest EXCEPT !.pc = "splice"]
     \/ ~skw_tx_allowed /\ worker' = Rest
     \/ skw_tx_allowed /\ credit = 0 /\ worker' \in {worker, Rest}
  /\ UNCHANGED <<tx, queued, credit, env, lost, kicked, cut>>

\* A stopped queue goes on when little is left, and something is.  Mutant:
\* the threshold is below what one transfer takes.
still_stopped_low(a, n) == stopped[a] /\ ~(n > 0 /\ n < Low - PktLimit)
StillStopped(a, n) == stopped[a] /\ ~(n > 0 /\ n < Low)

\* The frames found count as pending.  Mutant: they do not.
found_uncounted(w, n) == [w EXCEPT !.pc = "pick"]
Found(w, n) == [w EXCEPT !.pc = "pick", !.pending = @ + n]

\* The frames of the category join the worker's list; those of a connection
\* being left are purged.
Splice ==
  /\ worker.pc = "splice"
  /\ LET a == Acs[worker.ac]
         acks == IF a = Be THEN skw_merge_pure_ack(txq[Ack], <<>>) ELSE <<>>
         all == IF link.deauth THEN <<>> ELSE cache[a] \o acks \o txq[a]
         n == Len(all)
     IN /\ txq' = [q \in Queues |-> IF NetQueue(q) = a THEN <<>> ELSE txq[q]]
        /\ cache' = [cache EXCEPT ![a] = all]
        /\ stopped' = [stopped EXCEPT ![a] = StillStopped(a, n)]
        /\ IF link.deauth THEN Purged({a})
           ELSE Restarted(IF StillStopped(a, n) THEN {} ELSE {a})
        /\ worker' = IF n = 0 THEN NextAc(worker) ELSE Found(worker, n)
  /\ UNCHANGED <<xmit, sent, queued, credit, cmd, env, lost, kicked>>

\* n frames from the front; Quota is what the category is owed, unless
\* frames, credits or the transfer run out.  Mutant: from the back.
take_last(s, n) == SubSeq(s, Len(s) - n + 1, Len(s))
Take(s, n) == SubSeq(s, 1, n)

Pick ==
  /\ worker.pc = "pick"
  /\ IF credit = 0
     THEN Goto("check") /\ UNCHANGED cache
     ELSE LET a == Acs[worker.ac]
              s == cache[a]
          IN \E n \in 1 .. Len(s) :
               /\ n <= credit /\ n <= PktLimit
               /\ n >= Quota[a] \/ n \in {Len(s), credit, PktLimit}
               /\ worker' = [worker EXCEPT !.pc = "send", !.pending = @ - n,
                               !.cred = credit - n, !.list = Take(s, n)]
               /\ cache' = [cache EXCEPT ![a] = SubSeq(s, n + 1, Len(s))]
  /\ UNCHANGED <<txq, stopped, xmit, sent, queued, credit, cmd, env, lost, kicked, cut>>

\* skw_sync_adma_tx: the transfer, which outlasts the two measurements of
\* skw_ndo_xmit.  One that fails leaves nothing in the firmware.
Send ==
  /\ worker.pc = "send"
  /\ \A a \in Categories : xmit[a].pc = "idle"
  /\ Goto("sub")
  /\ \/ /\ fw.state \in {"opening", "up"}
        /\ fw' = [fw EXCEPT !.held = @ + Len(worker.list)]
        /\ UNCHANGED <<turns, lost>>
     \/ /\ fw.state \in {"opening", "up"} /\ Turn
        /\ lost' = lost + Len(worker.list)
        /\ UNCHANGED fw
     \/ /\ fw.state \notin {"opening", "up"}
        /\ UNCHANGED <<fw, turns, lost>>
  /\ UNCHANGED <<tx, queued, credit, cmd, flags, link, again, kicked, cut>>

\* skw_sub_credit, whatever became of the transfer.  A category that leaves
\* credits lets the next one send.
Sub ==
  /\ worker.pc = "sub"
  /\ credit' = credit - Len(worker.list)
  /\ worker' = [(IF worker.cred = 0 THEN [worker EXCEPT !.pc = "check"]
                                    ELSE NextAc(worker))
                 EXCEPT !.list = <<>>, !.cred = 0]
  /\ UNCHANGED <<tx, queued, cmd, env, lost, kicked, cut>>

\* The worker goes on while a frame of this round or a new one waits.
Check ==
  /\ worker.pc = "check"
  /\ worker' =
       IF \/ worker.pending > 0 \/ cmd
          \/ \E a \in Categories : cache[a] # <<>> \/ txq[a] # <<>>
       THEN [Rest EXCEPT !.pc = "top"] ELSE Rest
  /\ UNCHANGED <<tx, queued, credit, cmd, env, lost, kicked, cut>>

Worker == Start \/ Top \/ Splice \/ Pick \/ Send \/ Sub \/ Check
-----------------------------------------------------------------------------
(* Credits.  A message of the firmware returns some (external). *)

Report ==
  /\ fw.state = "up"
  /\ \E c \in 1 .. fw.held :
       fw' = [fw EXCEPT !.held = @ - c, !.wire = @ + c]
  /\ UNCHANGED <<tx, driver, flags, link, again, turns, lost, kicked, cut>>

\* Mutant: the worker is not woken.
credit_without_wake ==
  /\ fw.wire > 0
  /\ credit' = credit + fw.wire
  /\ fw' = [fw EXCEPT !.wire = 0]
  /\ UNCHANGED <<tx, worker, queued, cmd, flags, link, again, turns, lost, kicked, cut>>

skw_add_credit ==
  /\ fw.wire > 0
  /\ credit' = credit + fw.wire
  /\ fw' = [fw EXCEPT !.wire = 0]
  /\ skw_wakeup_tx
  /\ UNCHANGED <<tx, worker, cmd, flags, link, again, turns, lost, cut>>

(* The connection: it is left and joined again by commands. *)

Command == ~cmd /\ cmd' = TRUE /\ skw_wakeup_tx

\* skw_unjoin: nothing is accepted any more, what waits is purged.
skw_unjoin ==
  /\ link.entry /\ fw.state = "up" /\ Turn /\ Command
  /\ link' = [entry |-> FALSE, deauth |-> TRUE]
  /\ UNCHANGED <<tx, worker, credit, flags, fw, again, lost, cut>>

unjoined ==
  /\ link.deauth /\ ~cmd
  /\ link' = [link EXCEPT !.deauth = FALSE]
  /\ UNCHANGED <<tx, driver, flags, fw, again, turns, lost, kicked, cut>>

skw_join ==
  /\ ~link.entry /\ fw.state = "up" /\ Turn /\ Command
  /\ link' = [entry |-> TRUE, deauth |-> FALSE]
  /\ UNCHANGED <<tx, worker, credit, flags, fw, again, lost, cut>>

(* What keeps the worker from transmitting.  skw_resume (SDIO) and the end *)
(* of a thermal warning do not wake it.                                    *)

Unblock(f) ==
  /\ f \in flags
  /\ flags' = flags \ {f}
  /\ kicked' = (queued \/ worker.pc # "idle")
  /\ UNCHANGED <<txq, cache, xmit, sent, driver, link, fw, again, turns, lost>>

skw_suspend ==
  /\ "BLOCK_TX" \notin flags /\ Turn
  /\ flags' = flags \cup {"BLOCK_TX"}
  /\ UNCHANGED <<tx, driver, link, fw, again, lost, kicked, cut>>

skw_resume == Unblock("BLOCK_TX") /\ UNCHANGED <<stopped, cut>>

skw_event_thermal_warn ==
  \/ /\ fw.state = "up" /\ "FW_THERMAL" \notin flags /\ Turn
     /\ flags' = flags \cup {"FW_THERMAL"}
     /\ stopped' = [a \in Categories |-> TRUE]
     /\ UNCHANGED <<txq, cache, xmit, sent, driver, link, fw, again, lost, kicked, cut>>
  \/ /\ fw.state = "up" /\ Unblock("FW_THERMAL")
     /\ stopped' = [a \in Categories |-> FALSE]
     /\ Restarted(Categories)
-----------------------------------------------------------------------------
(* A death of the firmware and its recovery; the notifier sets FW_ASSERT.  *)
(* The firmware is back (external) only after the transfers of the old one *)
(* have ended.                                                             *)

skw_bsp_notifier ==
  /\ fw.state \in {"opening", "up"} /\ Turn
  /\ fw' = [state |-> "dead", held |-> 0, wire |-> 0]
  /\ flags' = flags \cup {"FW_ASSERT"}
  /\ UNCHANGED <<tx, driver, link, again, lost, kicked, cut>>

FwReady ==
  /\ fw.state = "dead" /\ worker.pc \in {"idle", "top"}
  /\ fw' = [fw EXCEPT !.state = "ready"]
  /\ UNCHANGED <<tx, driver, flags, link, again, turns, lost, kicked, cut>>

\* Mutant: the credits of the old firmware are kept.
prepare_keeps_credit ==
  /\ fw.state = "ready"
  /\ fw' = [fw EXCEPT !.state = "enable"]
  /\ again' = TRUE
  /\ lost' = 0
  /\ UNCHANGED <<tx, driver, flags, link, turns, kicked, cut>>

\* The credits are void; the first time, the peers are set aside and the
\* frames purged.
skw_recovery_prepare ==
  /\ fw.state = "ready"
  /\ fw' = [fw EXCEPT !.state = "enable"]
  /\ credit' = 0
  /\ lost' = 0
  /\ again' = TRUE
  /\ IF again THEN UNCHANGED <<txq, cache, link, cut>>
     ELSE /\ txq' = [q \in Queues |-> <<>>]
          /\ cache' = [a \in Categories |-> <<>>]
          /\ link' = [link EXCEPT !.entry = FALSE]
          /\ Purged(Categories)
  /\ UNCHANGED <<stopped, xmit, sent, worker, queued, cmd, flags, turns, kicked>>

\* The flags are cleared and commands sent,
recovery_enable ==
  /\ fw.state = "enable" /\ Command
  /\ fw' = [fw EXCEPT !.state = "opening"]
  /\ flags' = {}
  /\ UNCHANGED <<tx, worker, credit, link, again, turns, lost, cut>>

\* of which the last opens the device: the firmware grants its buffers.
skw_cmd_open_dev ==
  /\ fw.state = "opening" /\ ~cmd
  /\ fw' = [fw EXCEPT !.state = "up", !.wire = Grant]
  /\ again' = FALSE
  /\ UNCHANGED <<tx, driver, flags, link, turns, lost, kicked, cut>>

Recovery == skw_recovery_prepare \/ recovery_enable \/ skw_cmd_open_dev
-----------------------------------------------------------------------------
Init ==
  /\ txq = [q \in Queues |-> <<>>]
  /\ cache = [a \in Categories |-> <<>>]
  /\ stopped = [a \in Categories |-> FALSE]
  /\ xmit = [a \in Categories |-> [pc |-> "idle", len |-> 0]]
  /\ worker = Rest
  /\ queued = TRUE
  /\ credit = 0
  /\ cmd = FALSE
  /\ flags = {}
  /\ link = [entry |-> TRUE, deauth |-> FALSE]
  /\ fw = [state |-> "up", held |-> 0, wire |-> Grant]
  /\ again = FALSE
  /\ turns = 0 /\ sent = 0 /\ lost = 0
  /\ kicked = TRUE
  /\ cut = [a \in Categories |-> FALSE]

User ==
  \/ \E k \in Kinds : Queue(k)
  \/ skw_unjoin \/ unjoined \/ skw_join
  \/ skw_suspend \/ skw_resume

Firmware ==
  Report \/ skw_add_credit \/ skw_event_thermal_warn \/ skw_bsp_notifier \/ FwReady

Next == Xmit \/ Worker \/ User \/ Firmware \/ Recovery

Spec == Init /\ [][Next]_vars

\* The threads run, the firmware sends what it holds and comes back after a
\* death.  Nobody has to send, join, resume or end a thermal warning.
FairSpec ==
  /\ Spec
  /\ WF_vars(Xmit) /\ WF_vars(Worker) /\ WF_vars(Recovery)
  /\ WF_vars(Report) /\ WF_vars(skw_add_credit) /\ WF_vars(FwReady)
-----------------------------------------------------------------------------
TypeOK ==
  /\ txq \in [Queues -> Seq(Frame)]
  /\ cache \in [Categories -> Seq(Frame)]
  /\ stopped \in [Categories -> BOOLEAN] /\ cut \in [Categories -> BOOLEAN]
  /\ xmit \in [Categories -> [pc : {"idle", "queued", "measured"}, len : Nat]]
  /\ worker \in [pc : {"idle", "top", "splice", "pick", "send", "sub", "check"},
                 ac : DOMAIN Acs, list : Seq(Frame), cred : Nat, pending : Nat]
  /\ {queued, cmd, again, kicked} \subseteq BOOLEAN
  /\ flags \subseteq {"FW_ASSERT", "BLOCK_TX", "FW_THERMAL"}
  /\ link \in [entry : BOOLEAN, deauth : BOOLEAN]
  /\ fw \in [state : {"up", "dead", "ready", "enable", "opening"},
             held : Nat, wire : Nat]
  /\ credit \in Int /\ {turns, sent, lost} \subseteq Nat

(* Credits are neither invented nor forgotten: every buffer of the firmware*)
(* is a credit here, one on the way back, or a frame it holds; only failed *)
(* transfers take some for good (skw_tx.c:205 subtracts before it looks at *)
(* the result).  The counter is not below zero, where the worker would     *)
(* send without limit, across deaths and recoveries.                       *)
InTransfer == IF worker.pc = "sub" THEN Len(worker.list) ELSE 0
CreditsKept ==
  /\ credit >= 0
  /\ fw.held <= Grant
  /\ fw.state = "up" => credit - InTransfer + fw.held + fw.wire + lost = Grant

(* A frame leaves only into a transfer, before all younger ones of its     *)
(* queue, or in a purge, or as an ack that a younger ack of its stream     *)
(* makes superfluous.  With acks of several streams the code does not keep *)
(* the youngest: of s0 t1 s2 t3 the acks t3 and s0 are left, since a round *)
(* that stops early leaves s2 in front of s0.                              *)
Gone == Waiting \ Waiting'
Superfluous(f) ==
  /\ f.q = Ack /\ f.plain
  /\ \E g \in Waiting' :
       /\ g.q = Ack /\ g.stream = f.stream
       /\ g.id > f.id \/ \E h \in ToSet(txq[Ack]) : h.stream # f.stream
LeavesForAReason ==
  \A f \in Gone :
    \/ f \in ToSet(worker'.list)
    \/ link.deauth \/ fw.state = "ready"
    \/ Superfluous(f)
OldestFirst ==
  worker.pc = "pick" =>
    \A f \in Gone, g \in Waiting' : f.q = g.q /\ f.q # Ack => f.id < g.id
FramesInOrder == [][LeavesForAReason /\ OldestFirst]_vars

(* What waits is sent.  It may have to wait while the driver is suspended  *)
(* or too hot, then until something wakes the worker (nothing does at once,*)
(* see Unblock), and if failed transfers have taken all credits.           *)
Excused ==
  \/ flags \cap {"BLOCK_TX", "FW_THERMAL"} # {}
  \/ ~kicked
  \/ lost >= Grant
EventuallySent == []<>(Excused \/ (Waiting = {} /\ ~cmd))

(* A stopped queue goes on (its restart needs a frame that waits), unless  *)
(* its frames were purged: then it stays stopped, as skw_ndo_tx_timeout    *)
(* only reports it.                                                        *)
QueueRestarts == \A a \in Categories : []<>(Excused \/ cut[a] \/ ~stopped[a])
===============================================================================
