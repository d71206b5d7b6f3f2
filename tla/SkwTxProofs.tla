------------------------------ MODULE SkwTxProofs -----------------------------
(***************************************************************************)
(* The transmit path, for any number of categories, frames, credits,       *)
(* failed transfers, deaths and recoveries: credits are kept (CreditsKept),*)
(* which needs only the number of frames a transfer takes; the types       *)
(* (TypeOK) and the order of the frames (FramesInOrder), which need what   *)
(* skw_merge_pure_ack does with any acks (MergeKeeps): a theorem about its *)
(* two loops, by induction on a least round that would break it.           *)
(***************************************************************************)
EXTENDS SkwTx, SequenceTheorems, WellFoundedInduction, TLAPS

\* The length of what the worker takes from a queue (skw_tx.c:715-716).
LEMMA TakeLength ==
  ASSUME NEW s, NEW n \in Nat PROVE Len(Take(s, n)) = n
<1> DEFINE S == {s[i] : i \in 1 .. n}
<1>1. \A i \in 1 .. n : s[i] \in S
  OBVIOUS
<1>2. Len(SubSeq(s, 1, n)) = IF 1 <= n THEN n - 1 + 1 ELSE 0
  <2> HIDE DEF S
  <2> QED BY <1>1, SubSeqProperties
<1> QED BY <1>2 DEF Take

Pcs == {"idle", "top", "splice", "pick", "send", "sub", "check"}

\* The types that matter.
CreditType ==
  /\ DOMAIN worker = {"pc", "ac", "list", "cred", "pending"}
  /\ worker.pc \in Pcs
  /\ fw \in [state : {"up", "dead", "ready", "enable", "opening"},
             held : Nat, wire : Nat]
  /\ credit \in Nat /\ lost \in Nat

\* A transfer is paid for, until it is subtracted.
Covered ==
  worker.pc \in {"send", "sub"} =>
    Len(worker.list) \in Nat /\ Len(worker.list) <= credit

\* A dead firmware holds nothing and stays blocked until its successor is
\* being opened; by then the worker has ended its round and finds no credit.
DeadIsQuiet ==
  /\ fw.state \in {"dead", "ready", "enable"} => "FW_ASSERT" \in flags
  /\ fw.state \in {"ready", "enable", "opening"} => worker.pc \in {"idle", "top"}
  /\ fw.state \in {"enable", "opening"} => credit = 0 /\ lost = 0
  /\ fw.state # "up" => fw.held = 0 /\ fw.wire = 0

\* Frames that are in the firmware already but not subtracted yet count twice.
Balance ==
  fw.state = "up" => credit + fw.held + fw.wire + lost = Grant + InTransfer

CreditInv == CreditType /\ Covered /\ DeadIsQuiet /\ Balance

\* The counter and the firmware's buffers follow from the invariant.
LEMMA InvImpliesKept == CreditInv => CreditsKept
<1> SUFFICES ASSUME CreditInv PROVE CreditsKept
  OBVIOUS
<1> USE SizeAssumption DEF CreditInv, CreditType
<1>1. InTransfer \in Nat /\ InTransfer <= credit
  BY DEF Covered, InTransfer
<1>2. fw.held <= Grant
  <2>1. CASE fw.state = "up"
    BY <1>1, <2>1 DEF Balance
  <2>2. CASE fw.state # "up"
    BY <2>2 DEF DeadIsQuiet
  <2> QED BY <2>1, <2>2
<1>3. ASSUME fw.state = "up"
      PROVE  credit - InTransfer + fw.held + fw.wire + lost = Grant
  <2> DEFINE h == fw.held  w == fw.wire  n == InTransfer
  <2>1. credit + h + w + lost = Grant + n
    BY <1>3 DEF Balance
  <2>2. /\ credit \in Nat /\ h \in Nat /\ w \in Nat /\ lost \in Nat
        /\ n \in Nat /\ Grant \in Nat
    BY <1>1
  <2> HIDE DEF h, w, n
  <2>3. credit - n + h + w + lost = Grant
    BY <2>1, <2>2
  <2> QED BY <2>3 DEF h, w, n
<1> QED BY <1>2, <1>3 DEF CreditsKept

\* The firmware has just been opened, no worker has run (skw_core.c:1369).
LEMMA InitInv == Init => CreditInv
BY SizeAssumption
   DEF Init, Rest, CreditInv, CreditType, Covered, DeadIsQuiet, Balance,
       InTransfer, Pcs

\* What leaves worker, credit, flags, firmware and lost alone.
LEMMA QuietStep ==
  ASSUME CreditInv, UNCHANGED <<worker, credit, flags, fw, lost>>
  PROVE  CreditInv'
BY DEF CreditInv, CreditType, Covered, DeadIsQuiet, Balance, InTransfer

\* The worker moves to a place outside a transfer, of which it may not start
\* one while the firmware is away.
LEMMA WorkerMoves ==
  ASSUME CreditInv, UNCHANGED <<credit, flags, fw, lost>>,
         worker.pc # "sub",
         DOMAIN worker' = DOMAIN worker,
         worker'.pc \in Pcs \ {"send", "sub"},
         \/ worker.pc \notin {"idle", "top"}
         \/ worker'.pc \in {"idle", "top"}
         \/ flags = {} /\ credit # 0
  PROVE  CreditInv'
BY DEF CreditInv, CreditType, Covered, DeadIsQuiet, Balance, InTransfer

\* The steps of skw_tx_worker.
LEMMA WorkerStep == ASSUME CreditInv, Worker PROVE CreditInv'
<1> USE DEF Worker
<1>w. DOMAIN worker = {"pc", "ac", "list", "cred", "pending"} /\ worker.pc \in Pcs
  BY DEF CreditInv, CreditType
<1>g. Grant \in Nat
  BY SizeAssumption
<1>1. CASE Start
  BY <1>1, <1>w, WorkerMoves DEF Start, Goto, tx, env, Pcs
<1>2. CASE Top
  <2>1. UNCHANGED <<credit, flags, fw, lost>> /\ worker.pc = "top"
    BY <1>2 DEF Top, env
  <2>2. CASE worker' = [Rest EXCEPT !.pc = "splice"] /\ flags = {} /\ credit # 0
    BY <2>1, <2>2, <1>w, WorkerMoves DEF Rest, Pcs
  <2>3. CASE worker' = Rest
    BY <2>1, <2>3, <1>w, WorkerMoves DEF Rest, Pcs
  <2>4. CASE worker' = worker
    BY <2>1, <2>4, QuietStep
  <2> QED BY <1>2, <2>2, <2>3, <2>4 DEF Top, skw_tx_allowed
<1>3. CASE Splice
  <2>1. UNCHANGED <<credit, flags, fw, lost>> /\ worker.pc = "splice"
    BY <1>3 DEF Splice, env
  <2>2. \/ worker' = NextAc(worker)
        \/ \E n : worker' = Found(worker, n)
    BY <1>3 DEF Splice
  <2>3. DOMAIN worker' = DOMAIN worker /\ worker'.pc \in {"splice", "check", "pick"}
    BY <2>2, <1>w DEF NextAc, Found
  <2> QED BY <2>1, <2>3, WorkerMoves DEF Pcs
<1>4. CASE Pick
  <2>1. UNCHANGED <<credit, flags, fw, lost>> /\ worker.pc = "pick"
    BY <1>4 DEF Pick, env
  <2>2. CASE credit = 0
    <3>1. worker' = [worker EXCEPT !.pc = "check"]
      BY <1>4, <2>2 DEF Pick, Goto
    <3> QED BY <2>1, <3>1, <1>w, WorkerMoves DEF Pcs
  <2>3. CASE credit # 0
    <3>1. PICK n \in 1 .. Len(cache[Acs[worker.ac]]) :
            /\ n <= credit
            /\ worker' = [worker EXCEPT !.pc = "send", !.pending = @ - n,
                            !.cred = credit - n,
                            !.list = Take(cache[Acs[worker.ac]], n)]
      BY <1>4, <2>3 DEF Pick
    <3>2. n \in Nat
      OBVIOUS
    <3>3. Len(Take(cache[Acs[worker.ac]], n)) = n
      BY <3>2, TakeLength
    <3>4. /\ DOMAIN worker' = DOMAIN worker /\ worker'.pc = "send"
          /\ worker'.list = Take(cache[Acs[worker.ac]], n)
      BY <3>1, <1>w
    <3> QED BY <2>1, <3>1, <3>2, <3>3, <3>4
            DEF CreditInv, CreditType, Covered, DeadIsQuiet, Balance, InTransfer, Pcs
  <2> QED BY <2>2, <2>3
<1>5. CASE Send
  <2>1. /\ worker.pc = "send" /\ worker'.pc = "sub" /\ worker'.list = worker.list
        /\ DOMAIN worker' = DOMAIN worker /\ UNCHANGED <<credit, flags>>
    BY <1>5, <1>w DEF Send, Goto
  <2>2. \/ /\ fw.state = "up" /\ lost' = lost
           /\ fw' = [fw EXCEPT !.held = @ + Len(worker.list)]
        \/ fw.state = "up" /\ fw' = fw /\ lost' = lost + Len(worker.list)
        \/ fw.state = "dead" /\ fw' = fw /\ lost' = lost
    BY <1>5 DEF Send, CreditInv, CreditType, DeadIsQuiet
  <2>3. Len(worker.list) \in Nat /\ Len(worker.list) <= credit
    BY <2>1 DEF CreditInv, Covered
  <2>4. /\ fw' \in [state : {"up", "dead", "ready", "enable", "opening"},
                    held : Nat, wire : Nat]
        /\ fw'.state = fw.state /\ fw'.wire = fw.wire /\ lost' \in Nat
        /\ fw.state # "up" => fw' = fw
        /\ fw.state = "up" =>
             fw'.held + lost' = fw.held + lost + Len(worker.list)
    BY <2>2, <2>3 DEF CreditInv, CreditType
  <2>5. CreditType' /\ Covered' /\ DeadIsQuiet'
    BY <2>1, <2>2, <2>3, <2>4
       DEF CreditInv, CreditType, Covered, DeadIsQuiet, Pcs
  <2>6. InTransfer = 0 /\ InTransfer' = Len(worker.list)
    BY <2>1 DEF InTransfer
  <2>7. Balance'
    <3> SUFFICES ASSUME fw.state = "up"
                 PROVE  credit + fw'.held + fw.wire + lost' = Grant + Len(worker.list)
      BY <2>1, <2>4, <2>6 DEF Balance
    <3> DEFINE n == Len(worker.list)  h == fw.held  w == fw.wire  g == fw'.held
               l == lost'
    <3>1. credit + h + w + lost = Grant + 0
      BY <2>6 DEF CreditInv, Balance
    <3>2. /\ credit \in Nat /\ h \in Nat /\ w \in Nat /\ lost \in Nat
          /\ g \in Nat /\ l \in Nat /\ n \in Nat
      BY <2>3, <2>4 DEF CreditInv, CreditType
    <3>3. g + l = h + lost + n
      BY <2>4
    <3> HIDE DEF n, h, w, g, l
    <3>4. credit + g + w + l = Grant + n
      BY <3>1, <3>2, <3>3, <1>g
    <3> QED BY <3>4 DEF n, w, g, l
  <2> QED BY <2>5, <2>7 DEF CreditInv
<1>6. CASE Sub
  <2>1. /\ worker.pc = "sub" /\ credit' = credit - Len(worker.list)
        /\ UNCHANGED <<flags, fw, lost>>
    BY <1>6 DEF Sub, env
  <2>2. DOMAIN worker' = DOMAIN worker /\ worker'.pc \in {"check", "splice"}
    BY <1>6, <1>w DEF Sub, NextAc
  <2>3. Len(worker.list) \in Nat /\ Len(worker.list) <= credit
    BY <2>1 DEF CreditInv, Covered
  <2>4. CreditType' /\ Covered' /\ DeadIsQuiet'
    BY <2>1, <2>2, <2>3 DEF CreditInv, CreditType, Covered, DeadIsQuiet, Pcs
  <2>5. InTransfer = Len(worker.list) /\ InTransfer' = 0
    BY <2>1, <2>2 DEF InTransfer
  <2>6. Balance'
    <3> DEFINE n == Len(worker.list)  h == fw.held  w == fw.wire
    <3>1. /\ credit \in Nat /\ h \in Nat /\ w \in Nat /\ lost \in Nat /\ n \in Nat
      BY <2>3 DEF CreditInv, CreditType
    <3>u. fw' = fw /\ lost' = lost
      BY <2>1
    <3> SUFFICES ASSUME fw.state = "up" PROVE credit' + h + w + lost = Grant + InTransfer'
      BY <3>u DEF Balance
    <3>2. credit + h + w + lost = Grant + n
      BY <2>5 DEF CreditInv, Balance
    <3>3. credit' = credit - n
      BY <2>1
    <3> HIDE DEF n, h, w
    <3> QED BY <3>1, <3>2, <3>3, <2>5, <1>g
  <2> QED BY <2>4, <2>6 DEF CreditInv
<1>7. CASE Check
  <2>1. UNCHANGED <<credit, flags, fw, lost>> /\ worker.pc = "check"
    BY <1>7 DEF Check, env
  <2>2. worker' = [Rest EXCEPT !.pc = "top"] \/ worker' = Rest
    BY <1>7 DEF Check
  <2>3. DOMAIN worker' = DOMAIN worker /\ worker'.pc \in {"top", "idle"}
    BY <2>2, <1>w DEF Rest
  <2> QED BY <2>1, <2>3, WorkerMoves DEF Pcs
<1> QED BY <1>1, <1>2, <1>3, <1>4, <1>5, <1>6, <1>7

\* The stack, cfg80211 and the interface.
LEMMA UserStep == ASSUME CreditInv, User \/ Xmit PROVE CreditInv'
<1>1. CASE skw_suspend
  BY <1>1 DEF skw_suspend, tx, driver, CreditInv, CreditType, Covered,
       DeadIsQuiet, Balance, InTransfer
<1>2. CASE skw_resume
  BY <1>2 DEF skw_resume, Unblock, driver, CreditInv, CreditType, Covered,
       DeadIsQuiet, Balance, InTransfer
<1>3. CASE UNCHANGED <<worker, credit, flags, fw, lost>>
  BY <1>3, QuietStep
<1>4. ASSUME NEW k \in Kinds, Queue(k) PROVE CreditInv'
  BY <1>3, <1>4 DEF Queue, env
<1>5. ASSUME Xmit PROVE CreditInv'
  BY <1>3, <1>5 DEF Xmit, MeasureQueue, StopIfLong, driver, env
<1>6. ASSUME skw_unjoin \/ unjoined \/ skw_join PROVE CreditInv'
  BY <1>3, <1>6 DEF skw_unjoin, unjoined, skw_join, driver
<1> QED BY <1>1, <1>2, <1>4, <1>5, <1>6 DEF User

\* Credits come back, the firmware dies or is too hot.
LEMMA FirmwareStep == ASSUME CreditInv, Firmware PROVE CreditInv'
<1> USE DEF CreditInv, CreditType, Covered, DeadIsQuiet, Balance, InTransfer
<1>g. Grant \in Nat
  BY SizeAssumption
<1>1. CASE Report
  <2>1. PICK c \in 1 .. fw.held : fw' = [fw EXCEPT !.held = @ - c, !.wire = @ + c]
    BY <1>1 DEF Report
  <2>2. UNCHANGED <<worker, credit, flags, lost>> /\ fw.state = "up"
    BY <1>1 DEF Report, driver
  <2>3. /\ fw' \in [state : {"up", "dead", "ready", "enable", "opening"},
                    held : Nat, wire : Nat]
        /\ fw'.state = "up" /\ fw'.held + fw'.wire = fw.held + fw.wire
    <3>1. c \in Nat /\ fw.held - c \in Nat /\ fw.wire + c \in Nat
      BY <2>1
    <3>2. fw' = [state |-> "up", held |-> fw.held - c, wire |-> fw.wire + c]
      BY <2>1, <2>2
    <3> QED BY <3>1, <3>2
  <2>4. CreditType' /\ Covered' /\ DeadIsQuiet'
    BY <2>2, <2>3
  <2>5. Balance'
    <3>1. InTransfer' = InTransfer /\ InTransfer \in Nat
      BY <2>2
    <3>2. credit + fw.held + fw.wire + lost = Grant + InTransfer
      BY <2>2
    <3>3. credit + fw'.held + fw'.wire + lost = Grant + InTransfer
      <4> HIDE DEF InTransfer, Balance, Covered, DeadIsQuiet
      <4> QED BY <2>3, <3>1, <3>2, <1>g
    <3> QED BY <2>2, <3>1, <3>3
  <2> QED BY <2>4, <2>5
<1>2. CASE skw_add_credit
  BY <1>2 DEF skw_add_credit
<1>3. CASE skw_event_thermal_warn
  BY <1>3 DEF skw_event_thermal_warn, Unblock, driver
<1>4. CASE skw_bsp_notifier
  BY <1>4 DEF skw_bsp_notifier, driver
<1>5. CASE FwReady
  BY <1>5 DEF FwReady, driver
<1> QED BY <1>1, <1>2, <1>3, <1>4, <1>5 DEF Firmware

\* The recovery work.
LEMMA RecoveryStep == ASSUME CreditInv, Recovery PROVE CreditInv'
<1> USE DEF CreditInv, CreditType, Covered, DeadIsQuiet, Balance, InTransfer
<1>1. CASE skw_recovery_prepare
  BY <1>1 DEF skw_recovery_prepare
<1>2. CASE recovery_enable
  BY <1>2 DEF recovery_enable
<1>3. CASE skw_cmd_open_dev
  <2>1. /\ fw.state = "opening" /\ UNCHANGED <<worker, credit, flags, lost>>
        /\ fw' = [fw EXCEPT !.state = "up", !.wire = Grant]
    BY <1>3 DEF skw_cmd_open_dev, driver
  <2>2. /\ fw' \in [state : {"up", "dead", "ready", "enable", "opening"},
                    held : Nat, wire : Nat]
        /\ fw'.state = "up" /\ fw'.held = 0 /\ fw'.wire = Grant
    BY <2>1, SizeAssumption
  <2>3. credit = 0 /\ lost = 0 /\ worker.pc \in {"idle", "top"} /\ Grant \in Nat
    BY <2>1, SizeAssumption
  <2> QED BY <2>1, <2>2, <2>3
<1> QED BY <1>1, <1>2, <1>3 DEF Recovery

\* The inductive invariant of the credits.
THEOREM Invariance == Spec => []CreditInv
<1>1. ASSUME CreditInv, [Next]_vars PROVE CreditInv'
  <2>1. CASE UNCHANGED vars
    BY <1>1, <2>1, QuietStep DEF vars, driver, env
  <2>2. CASE Next
    BY <1>1, <2>2, WorkerStep, UserStep, FirmwareStep, RecoveryStep DEF Next
  <2> QED BY <1>1, <2>1, <2>2
<1> QED BY <1>1, InitInv, PTL DEF Spec

\* Credits are neither invented nor forgotten, and never below zero, across
\* deaths and recoveries: skw_sub_credit and skw_add_credit (CreditsKept).
THEOREM CreditSafety == Spec => []CreditsKept
BY Invariance, InvImpliesKept, PTL
-----------------------------------------------------------------------------
(* Induction, and the frames of a list. *)

\* Induction up to a bound, over the members of a set.
LEMMA UpTo ==
  ASSUME NEW N \in Nat, NEW T, 0 \in T, \A n \in 1 .. N : n - 1 \in T => n \in T
  PROVE  \A n \in 0 .. N : n \in T
<1> DEFINE R == {ss \in Nat \X Nat : ss[1] < ss[2]}
           F == (0 .. N) \ T
<1>1. IsWellFoundedOn(R, Nat)
  BY NatLessThanWellFounded DEF OpToRel
<1>2. SUFFICES ASSUME F # {} PROVE FALSE
  BY DEF F
<1>3. F \subseteq Nat
  OBVIOUS
<1>4. PICK m \in F : \A k \in F : ~ (<<k, m>> \in R)
  <2> HIDE DEF F, R
  <2> QED BY ONLY <1>1, <1>2, <1>3, WFMin
<1>5. m \in 1 .. N
  OBVIOUS
<1>6. m - 1 \in F
  BY <1>5, <1>4
<1>7. <<m - 1, m>> \in R
  BY <1>5
<1> QED BY <1>4, <1>6, <1>7

\* What the operations on lists do to the set of their frames.
LEMMA EmptyToSet == ToSet(<<>>) = {}
BY DEF ToSet

LEMMA AppendToSet ==
  ASSUME NEW S, NEW s \in Seq(S), NEW e \in S
  PROVE  /\ Append(s, e) \in Seq(S) /\ Len(Append(s, e)) = Len(s) + 1
         /\ \A i \in 1 .. Len(s) : Append(s, e)[i] = s[i]
         /\ Append(s, e)[Len(s) + 1] = e
         /\ ToSet(Append(s, e)) = ToSet(s) \cup {e}
<1>1. /\ Append(s, e) \in Seq(S) /\ Len(Append(s, e)) = Len(s) + 1
      /\ \A i \in 1 .. Len(s) : Append(s, e)[i] = s[i]
      /\ Append(s, e)[Len(s) + 1] = e
  OBVIOUS
<1>2. /\ DOMAIN s = 1 .. Len(s) /\ Len(s) \in Nat
      /\ DOMAIN Append(s, e) = 1 .. Len(s) + 1
  BY <1>1
<1>3. ToSet(Append(s, e)) \subseteq ToSet(s) \cup {e}
  BY <1>1, <1>2 DEF ToSet
<1>4. ToSet(s) \cup {e} \subseteq ToSet(Append(s, e))
  BY <1>1, <1>2 DEF ToSet
<1> QED BY <1>1, <1>3, <1>4

LEMMA HeadTailToSet ==
  ASSUME NEW S, NEW s \in Seq(S), s # <<>>
  PROVE  /\ Head(s) \in S /\ Tail(s) \in Seq(S) /\ Len(Tail(s)) = Len(s) - 1
         /\ ToSet(s) = {Head(s)} \cup ToSet(Tail(s))
<1>1. /\ Head(s) \in S /\ Tail(s) \in Seq(S) /\ Len(Tail(s)) = Len(s) - 1
      /\ \A i \in 1 .. Len(Tail(s)) : Tail(s)[i] = s[i + 1]
      /\ Head(s) = s[1]
  BY HeadTailProperties
<1>2. DOMAIN s = 1 .. Len(s) /\ Len(s) \in Nat \ {0} /\ DOMAIN Tail(s) = 1 .. Len(s) - 1
  BY <1>1, EmptySeq
<1>3. ToSet(s) \subseteq {Head(s)} \cup ToSet(Tail(s))
  <2>1. SUFFICES ASSUME NEW i \in 1 .. Len(s), i # 1 PROVE s[i] \in ToSet(Tail(s))
    BY <1>1, <1>2 DEF ToSet
  <2>2. i - 1 \in DOMAIN Tail(s) /\ Tail(s)[i - 1] = s[i]
    BY <1>1, <1>2, <2>1
  <2> QED BY <2>2 DEF ToSet
<1>4. {Head(s)} \cup ToSet(Tail(s)) \subseteq ToSet(s)
  BY <1>1, <1>2 DEF ToSet
<1> QED BY <1>1, <1>3, <1>4

LEMMA FrontLastToSet ==
  ASSUME NEW S, NEW s \in Seq(S), s # <<>>
  PROVE  /\ Last(s) \in S /\ Front(s) \in Seq(S) /\ Len(Front(s)) = Len(s) - 1
         /\ ToSet(s) = {Last(s)} \cup ToSet(Front(s))
<1>1. DOMAIN s = 1 .. Len(s) /\ Len(s) \in Nat \ {0} /\ s \in [1 .. Len(s) -> S]
  BY EmptySeq, LenProperties
<1>2. /\ Front(s) \in Seq(S) /\ Len(Front(s)) = Len(s) - 1
      /\ \A i \in 1 .. Len(s) - 1 : Front(s)[i] = s[i]
  <2>1. \A i \in 1 .. Len(s) - 1 : s[i] \in S
    BY <1>1
  <2>2. Len(s) - 1 \in Int
    BY <1>1
  <2>3. /\ SubSeq(s, 1, Len(s) - 1) \in Seq(S)
        /\ Len(SubSeq(s, 1, Len(s) - 1)) =
             IF 1 <= Len(s) - 1 THEN Len(s) - 1 - 1 + 1 ELSE 0
        /\ \A i \in 1 .. Len(s) - 1 - 1 + 1 : SubSeq(s, 1, Len(s) - 1)[i] = s[1 + i - 1]
    BY <2>1, <2>2, SubSeqProperties
  <2> QED BY <2>3, <1>1 DEF Front
<1>3. DOMAIN Front(s) = 1 .. Len(s) - 1
  BY <1>2
<1>4. ToSet(s) \subseteq {Last(s)} \cup ToSet(Front(s))
  BY <1>1, <1>2, <1>3 DEF ToSet, Last
<1>5. {Last(s)} \cup ToSet(Front(s)) \subseteq ToSet(s)
  BY <1>1, <1>2, <1>3 DEF ToSet, Last
<1> QED BY <1>1, <1>2, <1>4, <1>5 DEF Last

LEMMA ConcatToSet ==
  ASSUME NEW S, NEW s \in Seq(S), NEW t \in Seq(S)
  PROVE  /\ s \o t \in Seq(S) /\ Len(s \o t) = Len(s) + Len(t)
         /\ ToSet(s \o t) = ToSet(s) \cup ToSet(t)
<1>1. /\ s \o t \in Seq(S) /\ Len(s \o t) = Len(s) + Len(t)
      /\ \A i \in 1 .. Len(s) + Len(t) : (s \o t)[i] =
                     IF i <= Len(s) THEN s[i] ELSE t[i - Len(s)]
  BY ConcatProperties
<1>2. /\ DOMAIN s = 1 .. Len(s) /\ Len(s) \in Nat
      /\ DOMAIN t = 1 .. Len(t) /\ Len(t) \in Nat
      /\ DOMAIN (s \o t) = 1 .. Len(s) + Len(t)
  BY <1>1
<1>3. ToSet(s \o t) \subseteq ToSet(s) \cup ToSet(t)
  BY <1>1, <1>2 DEF ToSet
<1>4. ToSet(s) \subseteq ToSet(s \o t)
  BY <1>1, <1>2 DEF ToSet
<1>5. ToSet(t) \subseteq ToSet(s \o t)
  <2>1. SUFFICES ASSUME NEW i \in 1 .. Len(t) PROVE t[i] \in ToSet(s \o t)
    BY <1>2 DEF ToSet
  <2>2. i + Len(s) \in DOMAIN (s \o t) /\ (s \o t)[i + Len(s)] = t[i]
    BY <1>1, <1>2
  <2> QED BY <2>2 DEF ToSet
<1> QED BY <1>1, <1>3, <1>4, <1>5

LEMMA InToSet ==
  ASSUME NEW S, NEW s \in Seq(S)
  PROVE  /\ ToSet(s) \subseteq S
         /\ \A e \in ToSet(s) : \E i \in 1 .. Len(s) : e = s[i]
         /\ \A i \in 1 .. Len(s) : s[i] \in ToSet(s)
<1>1. DOMAIN s = 1 .. Len(s) /\ s \in [1 .. Len(s) -> S]
  BY LenProperties
<1> QED BY <1>1 DEF ToSet
-----------------------------------------------------------------------------
(* The merge of the pure acks. *)

\* What skw_merge_pure_ack works on: acks to look at, acks to send.
Merging == [ackq : Seq(Frame), out : Seq(Frame)]

\* In a round that began with s and took the ack last: the acks left, and
\* those dropped so far are plain and of the stream of last.
LookInv(t, s, last) ==
  /\ Len(t.ackq) < Len(s.ackq)
  /\ ToSet(t.ackq) \cup ToSet(t.out) \subseteq ToSet(s.ackq) \cup ToSet(s.out)
  /\ ToSet(s.out) \subseteq ToSet(t.out)
  /\ \A f \in ToSet(s.ackq) :
       \/ f \in ToSet(t.ackq) \cup ToSet(t.out) \cup {last}
       \/ f.plain /\ f.stream = last.stream

LEMMA LookStep ==
  ASSUME NEW s \in Merging, NEW t \in Merging, NEW last \in Frame,
         NEW i \in Nat \ {0}, LookInv(t, s, last)
  PROVE  Look(last, t, i) \in Merging /\ LookInv(Look(last, t, i), s, last)
<1>t. t.ackq \in Seq(Frame) /\ t.out \in Seq(Frame) /\ s.ackq \in Seq(Frame)
  BY DEF Merging
<1>n. Len(t.ackq) \in Nat /\ Len(s.ackq) \in Nat
  BY <1>t, LenProperties
<1>1. CASE i > Len(t.ackq)
  <2>1. Look(last, t, i) = t
    BY <1>1 DEF Look
  <2> QED BY <2>1
<1>2. CASE ~(i > Len(t.ackq))
  <2> DEFINE a == Head(t.ackq)  q == Tail(t.ackq)
  <2>1. t.ackq # <<>>
    BY <1>2, EmptySeq
  <2>2. /\ a \in Frame /\ q \in Seq(Frame) /\ Len(q) = Len(t.ackq) - 1
        /\ ToSet(t.ackq) = {a} \cup ToSet(q)
    BY <1>t, <2>1, HeadTailToSet
  <2> HIDE DEF a, q
  <2>3. CASE a.stream # last.stream
    <3>1. Look(last, t, i) = [t EXCEPT !.ackq = Append(q, a)]
      BY <1>2, <2>3 DEF Look, a, q
    <3>2. /\ Append(q, a) \in Seq(Frame) /\ Len(Append(q, a)) = Len(t.ackq)
          /\ ToSet(Append(q, a)) = ToSet(t.ackq)
      BY <2>2, <1>n, AppendToSet
    <3>3. /\ Look(last, t, i) = [ackq |-> Append(q, a), out |-> t.out]
      BY <3>1 DEF Merging
    <3> QED BY <3>2, <3>3, <1>t DEF Merging, LookInv
  <2>4. CASE a.stream = last.stream
    <3> DEFINE o == IF a.plain THEN t.out ELSE Append(t.out, a)
    <3>1. Look(last, t, i) = [ackq |-> q, out |-> o]
      BY <1>2, <2>4 DEF Look, a, q
    <3>2. /\ o \in Seq(Frame)
          /\ ToSet(t.out) \subseteq ToSet(o) /\ ToSet(o) \subseteq ToSet(t.out) \cup {a}
          /\ a.plain \/ a \in ToSet(o)
      BY <2>2, <1>t, AppendToSet
    <3> HIDE DEF o
    <3>3. Look(last, t, i) \in Merging
      BY <3>1, <3>2, <2>2 DEF Merging
    <3>4. LookInv([ackq |-> q, out |-> o], s, last)
      <4>1. Len(q) < Len(s.ackq)
        BY <2>2, <1>n DEF LookInv
      <4>2. \A f \in ToSet(s.ackq) :
              \/ f \in ToSet(q) \cup ToSet(o) \cup {last}
              \/ f.plain /\ f.stream = last.stream
        BY <2>2, <2>4, <3>2 DEF LookInv
      <4>3. /\ ToSet(q) \cup ToSet(o) \subseteq ToSet(s.ackq) \cup ToSet(s.out)
            /\ ToSet(s.out) \subseteq ToSet(o)
        BY <2>2, <3>2 DEF LookInv
      <4> QED BY <4>1, <4>2, <4>3 DEF LookInv
    <3> QED BY <3>1, <3>3, <3>4
  <2> QED BY <2>3, <2>4
<1> QED BY <1>1, <1>2

\* What a round leaves of s: its last ack is sent, some are gone.
RoundInv(r, s) ==
  /\ Len(r.ackq) < Len(s.ackq)
  /\ ToSet(r.ackq) \cup ToSet(r.out) \subseteq ToSet(s.ackq) \cup ToSet(s.out)
  /\ ToSet(s.out) \cup {Last(s.ackq)} \subseteq ToSet(r.out)
  /\ \A f \in ToSet(s.ackq) :
       \/ f \in ToSet(r.ackq) \cup ToSet(r.out)
       \/ f.plain /\ f.stream = Last(s.ackq).stream

LEMMA RoundStep ==
  ASSUME NEW s \in Merging, s.ackq # <<>>
  PROVE  Round(s) \in Merging /\ RoundInv(Round(s), s)
<1> DEFINE N == Len(s.ackq)
           last == Last(s.ackq)
           first == [s EXCEPT !.ackq = Front(@)]
           Run(h, n) == h = [i \in 0 .. n |-> IF i = 0 THEN first
                                              ELSE Look(last, h[i - 1], i)]
           g == CHOOSE h : Run(h, N)
<1>s. s.ackq \in Seq(Frame) /\ s.out \in Seq(Frame) /\ s = [ackq |-> s.ackq, out |-> s.out]
  BY DEF Merging
<1>n. N \in Nat \ {0}
  BY <1>s, EmptySeq
<1>f. /\ last \in Frame /\ Front(s.ackq) \in Seq(Frame) /\ Len(Front(s.ackq)) = N - 1
      /\ ToSet(s.ackq) = {last} \cup ToSet(Front(s.ackq))
  BY <1>s, FrontLastToSet
<1>r. Round(s) = [g[N] EXCEPT !.out = Append(@, last)]
  BY DEF Round
<1>b. first = [ackq |-> Front(s.ackq), out |-> s.out]
  BY <1>s
<1>1. first \in Merging /\ LookInv(first, s, last)
  BY <1>b, <1>f, <1>s, <1>n DEF Merging, LookInv
<1>2. \E h : Run(h, N)
  <2> DEFINE T == {n \in 0 .. N : \E h : Run(h, n)}
  <2>1. 0 \in T
    <3>1. Run([i \in 0 .. 0 |-> first], 0)
      OBVIOUS
    <3> HIDE DEF Run
    <3> QED BY <3>1, <1>n
  <2>2. ASSUME NEW n \in 1 .. N, n - 1 \in T PROVE n \in T
    <3>1. PICK h : Run(h, n - 1)
      <4> HIDE DEF Run
      <4> QED BY <2>2
    <3> DEFINE k == [i \in 0 .. n |-> IF i = n THEN Look(last, h[n - 1], n) ELSE h[i]]
    <3> HIDE DEF first
    <3>2. Run(k, n)
      <4>1. \A i \in 0 .. n : k[i] = IF i = 0 THEN first ELSE Look(last, k[i - 1], i)
        <5>1. n \in Nat \ {0}
          BY <1>n
        <5>2. \A i \in 0 .. n - 1 : h[i] = IF i = 0 THEN first ELSE Look(last, h[i - 1], i)
          BY <3>1
        <5>3. k[n - 1] = h[n - 1]
          BY <5>1
        <5>4. k[n] = Look(last, k[n - 1], n)
          BY <5>1, <5>3
        <5>5. ASSUME NEW i \in 0 .. n - 1
              PROVE  k[i] = IF i = 0 THEN first ELSE Look(last, k[i - 1], i)
          <6>1. k[i] = h[i]
            BY <5>1, <5>5
          <6>2. i # 0 => k[i - 1] = h[i - 1]
            BY <5>1, <5>5
          <6> HIDE DEF k
          <6> QED BY <5>2, <6>1, <6>2
        <5>6. \A i \in 0 .. n : i = n \/ i \in 0 .. n - 1
          BY <5>1
        <5> HIDE DEF k
        <5> QED BY <5>1, <5>4, <5>5, <5>6
      <4>2. k = [i \in 0 .. n |-> k[i]]
        OBVIOUS
      <4> HIDE DEF k
      <4> QED BY <4>1, <4>2
    <3> HIDE DEF Run, k
    <3> QED BY <3>2
  <2>3. N \in T
    <3> HIDE DEF T, N
    <3>1. \A n \in 0 .. N : n \in T
      BY <1>n, <2>1, <2>2, UpTo
    <3> QED BY <3>1, <1>n
  <2> HIDE DEF Run
  <2> QED BY <2>3
<1>3. Run(g, N)
  <2> HIDE DEF Run
  <2> QED BY <1>2
<1>4. g[N] \in Merging /\ LookInv(g[N], s, last)
  <2> DEFINE T == {n \in 0 .. N : g[n] \in Merging /\ LookInv(g[n], s, last)}
  <2> HIDE DEF first, last, g, N
  <2>1. g[0] = first /\ \A n \in 1 .. N : g[n] = Look(last, g[n - 1], n)
    BY <1>3, <1>n
  <2>2. 0 \in T
    BY <2>1, <1>1, <1>n
  <2>3. ASSUME NEW n \in 1 .. N, n - 1 \in T PROVE n \in T
    BY <2>1, <2>3, <1>f, <1>n, LookStep
  <2>4. \A n \in 0 .. N : n \in T
    <3> HIDE DEF T
    <3> QED BY <1>n, <2>2, <2>3, UpTo
  <2> QED BY <2>4, <1>n
<1> DEFINE t == g[N]
<1>5. /\ t.ackq \in Seq(Frame) /\ t.out \in Seq(Frame)
      /\ t = [ackq |-> t.ackq, out |-> t.out]
  BY <1>4 DEF Merging
<1>6. Round(s) = [ackq |-> t.ackq, out |-> Append(t.out, last)]
  BY <1>r, <1>5
<1>7. /\ Append(t.out, last) \in Seq(Frame)
      /\ ToSet(Append(t.out, last)) = ToSet(t.out) \cup {last}
  <2> HIDE DEF t, last
  <2> QED BY <1>5, <1>f, AppendToSet
<1> HIDE DEF g, N, first, Run
<1>8. last \in ToSet(s.ackq)
  BY <1>f
<1>9. RoundInv([ackq |-> t.ackq, out |-> Append(t.out, last)], s)
  BY <1>4, <1>7, <1>8 DEF LookInv, RoundInv
<1> QED BY <1>5, <1>6, <1>7, <1>9 DEF Merging

\* After n rounds over ackq: whatever is gone is plain, and an ack of its
\* stream is sent; so is the last of all.
MergeInv(r, ackq, n) ==
  /\ Len(r.ackq) <= Len(ackq) - n
  /\ ToSet(r.ackq) \cup ToSet(r.out) \subseteq ToSet(ackq)
  /\ n > 0 => Last(ackq) \in ToSet(r.out)
  /\ n = 0 => r.ackq = ackq
  /\ \A f \in ToSet(ackq) :
       \/ f \in ToSet(r.ackq) \cup ToSet(r.out)
       \/ f.plain /\ \E e \in ToSet(r.out) : e.stream = f.stream

LEMMA MergeStep ==
  ASSUME NEW ackq \in Seq(Frame), NEW n \in 1 .. Len(ackq),
         NEW r \in Merging, MergeInv(r, ackq, n - 1)
  PROVE  Round(r) \in Merging /\ MergeInv(Round(r), ackq, n)
<1>r. r.ackq \in Seq(Frame) /\ r.out \in Seq(Frame)
  BY DEF Merging
<1>n. /\ Len(r.ackq) \in Nat /\ Len(ackq) \in Nat /\ n \in Nat \ {0}
      /\ n <= Len(ackq)
  BY <1>r, LenProperties
<1>1. CASE r.ackq = <<>>
  <2>1. Round(r) = r
    BY <1>1 DEF Round
  <2>2. n - 1 # 0
    <3> SUFFICES ASSUME n = 1 PROVE FALSE
      BY <1>n
    <3>1. ackq = <<>>
      BY <1>1 DEF MergeInv
    <3> QED BY <3>1, <1>n, EmptySeq
  <2>3. Len(r.ackq) = 0
    BY <1>1, EmptySeq
  <2> QED BY <2>1, <2>2, <2>3, <1>n DEF MergeInv
<1>2. CASE r.ackq # <<>>
  <2> DEFINE q == Round(r)
  <2>1. q \in Merging /\ RoundInv(q, r)
    BY <1>2, RoundStep
  <2>2. Len(q.ackq) \in Nat
    BY <2>1, LenProperties DEF Merging
  <2> HIDE DEF q
  <2>3. /\ Len(q.ackq) <= Len(ackq) - n
        /\ n # 0
    BY <2>1, <2>2, <1>n DEF RoundInv, MergeInv
  <2>4. Last(r.ackq) \in ToSet(q.out) /\ ToSet(r.out) \subseteq ToSet(q.out)
    BY <2>1 DEF RoundInv
  <2>5. Last(ackq) \in ToSet(q.out)
    BY <2>4, <1>n DEF MergeInv
  <2>6. ToSet(q.ackq) \cup ToSet(q.out) \subseteq ToSet(ackq)
    BY <2>1 DEF RoundInv, MergeInv
  <2>7. ASSUME NEW f \in ToSet(ackq), f \notin ToSet(q.ackq) \cup ToSet(q.out)
        PROVE  f.plain /\ \E e \in ToSet(q.out) : e.stream = f.stream
    <3>1. CASE f \in ToSet(r.ackq)
      BY <2>1, <2>4, <2>7, <3>1 DEF RoundInv
    <3>2. CASE f \notin ToSet(r.ackq)
      BY <2>4, <2>7, <3>2 DEF MergeInv
    <3> QED BY <3>1, <3>2
  <2>8. MergeInv(q, ackq, n)
    BY <2>3, <2>5, <2>6, <2>7 DEF MergeInv
  <2> QED BY <2>1, <2>8 DEF q
<1> QED BY <1>1, <1>2

\* skw_merge_pure_ack invents no ack, drops only plain ones, sends at least
\* one of every stream, and the last of all.
THEOREM MergeKeeps ==
  ASSUME NEW ackq \in Seq(Frame)
  PROVE  LET out == skw_merge_pure_ack(ackq, <<>>) IN
         /\ out \in Seq(Frame)
         /\ ToSet(out) \subseteq ToSet(ackq)
         /\ ackq # <<>> => Last(ackq) \in ToSet(out)
         /\ \A f \in ToSet(ackq) \ ToSet(out) :
              f.plain /\ \E e \in ToSet(out) : e.stream = f.stream
<1> DEFINE N == Len(ackq)
           first == [ackq |-> ackq, out |-> <<>>]
           Run(h, m) == h = [n \in 0 .. m |-> IF n = 0 THEN first ELSE Round(h[n - 1])]
           g == CHOOSE h : Run(h, N)
<1>n. N \in Nat
  BY LenProperties
<1>r. skw_merge_pure_ack(ackq, <<>>) = g[N].out
  BY DEF skw_merge_pure_ack
<1>1. first \in Merging /\ MergeInv(first, ackq, 0)
  <2>1. first.ackq = ackq /\ first.out = <<>>
    OBVIOUS
  <2>2. first \in Merging
    BY EmptySeq DEF Merging
  <2> HIDE DEF first
  <2>3. MergeInv(first, ackq, 0)
    BY <2>1, <1>n, EmptyToSet DEF MergeInv
  <2> QED BY <2>2, <2>3
<1>2. \E h : Run(h, N)
  <2> DEFINE T == {n \in 0 .. N : \E h : Run(h, n)}
  <2>1. 0 \in T
    <3>1. Run([i \in 0 .. 0 |-> first], 0)
      OBVIOUS
    <3> HIDE DEF Run
    <3> QED BY <3>1, <1>n
  <2>2. ASSUME NEW n \in 1 .. N, n - 1 \in T PROVE n \in T
    <3>1. PICK h : Run(h, n - 1)
      <4> HIDE DEF Run
      <4> QED BY <2>2
    <3> DEFINE k == [i \in 0 .. n |-> IF i = n THEN Round(h[n - 1]) ELSE h[i]]
    <3> HIDE DEF first
    <3>2. Run(k, n)
      <4>1. \A i \in 0 .. n : k[i] = IF i = 0 THEN first ELSE Round(k[i - 1])
        <5>1. n \in Nat \ {0}
          BY <1>n
        <5>2. \A i \in 0 .. n - 1 : h[i] = IF i = 0 THEN first ELSE Round(h[i - 1])
          BY <3>1
        <5>3. k[n - 1] = h[n - 1]
          BY <5>1
        <5>4. k[n] = Round(k[n - 1])
          BY <5>1, <5>3
        <5>5. ASSUME NEW i \in 0 .. n - 1
              PROVE  k[i] = IF i = 0 THEN first ELSE Round(k[i - 1])
          <6>1. k[i] = h[i]
            BY <5>1, <5>5
          <6>2. i # 0 => k[i - 1] = h[i - 1]
            BY <5>1, <5>5
          <6> HIDE DEF k
          <6> QED BY <5>2, <6>1, <6>2
        <5>6. \A i \in 0 .. n : i = n \/ i \in 0 .. n - 1
          BY <5>1
        <5> HIDE DEF k
        <5> QED BY <5>1, <5>4, <5>5, <5>6
      <4>2. k = [i \in 0 .. n |-> k[i]]
        OBVIOUS
      <4> HIDE DEF k
      <4> QED BY <4>1, <4>2
    <3> HIDE DEF Run, k
    <3> QED BY <3>2
  <2>3. N \in T
    <3> HIDE DEF T, N
    <3>1. \A n \in 0 .. N : n \in T
      BY <1>n, <2>1, <2>2, UpTo
    <3> QED BY <3>1, <1>n
  <2> HIDE DEF Run
  <2> QED BY <2>3
<1>3. Run(g, N)
  <2> HIDE DEF Run
  <2> QED BY <1>2
<1>4. g[N] \in Merging /\ MergeInv(g[N], ackq, N)
  <2> DEFINE T == {n \in 0 .. N : g[n] \in Merging /\ MergeInv(g[n], ackq, n)}
  <2> HIDE DEF first, g
  <2>1. g[0] = first /\ \A n \in 1 .. N : g[n] = Round(g[n - 1])
    BY <1>3, <1>n
  <2>2. 0 \in T
    BY <2>1, <1>1, <1>n
  <2>3. ASSUME NEW n \in 1 .. N, n - 1 \in T PROVE n \in T
    BY <2>1, <2>3, <1>n, MergeStep
  <2>4. \A n \in 0 .. N : n \in T
    <3> HIDE DEF T, N
    <3> QED BY <1>n, <2>2, <2>3, UpTo
  <2> QED BY <2>4, <1>n
<1> DEFINE r == g[N]
<1> HIDE DEF g, Run, first
<1>5. r.ackq \in Seq(Frame) /\ r.out \in Seq(Frame) /\ Len(r.ackq) \in Nat
  BY <1>4, LenProperties DEF Merging
<1> HIDE DEF r
<1>6. Len(r.ackq) <= N - N
  BY <1>4 DEF MergeInv, r
<1>7. r.ackq = <<>>
  BY <1>5, <1>6, <1>n, EmptySeq
<1>8. ToSet(r.ackq) = {}
  BY <1>7, EmptyToSet
<1>9. ackq # <<>> => N > 0
  BY <1>n, EmptySeq
<1>10. /\ ToSet(r.out) \subseteq ToSet(ackq)
       /\ ackq # <<>> => Last(ackq) \in ToSet(r.out)
       /\ \A f \in ToSet(ackq) \ ToSet(r.out) :
              f.plain /\ \E e \in ToSet(r.out) : e.stream = f.stream
  BY <1>4, <1>8, <1>9 DEF MergeInv, r
<1> QED BY <1>r, <1>5, <1>10 DEF r
-----------------------------------------------------------------------------
(* Types. *)

\* The frames the worker counted as pending are still there when it picks.
PendingInv ==
  worker.pc = "pick" => Len(cache[Acs[worker.ac]]) <= worker.pending
TypeInv == TypeOK /\ PendingInv

Workers == [pc : Pcs, ac : DOMAIN Acs, list : Seq(Frame), cred : Nat, pending : Nat]

LEMMA AcsType ==
  /\ Acs \in Seq(STRING) /\ DOMAIN Acs = 1 .. Len(Acs) /\ Len(Acs) \in Nat
  /\ 1 \in DOMAIN Acs
  /\ \A i \in DOMAIN Acs : Acs[i] \in Categories
  /\ Be \in Categories /\ Categories \subseteq Queues /\ Ack \in Queues
  /\ \A q \in Queues : NetQueue(q) \in Categories
<1>1. /\ Acs \in Seq(STRING) /\ DOMAIN Acs = 1 .. Len(Acs) /\ Len(Acs) \in Nat
      /\ Be \in Categories
  BY QueueAssumption
<1>2. PICK i \in DOMAIN Acs : Be = Acs[i]
  BY <1>1 DEF Categories
<1>3. 1 \in DOMAIN Acs
  BY <1>1, <1>2
<1> QED BY <1>1, <1>3 DEF Categories, Queues, NetQueue

LEMMA RestType == Rest \in Workers /\ [Rest EXCEPT !.pc = "splice"] \in Workers
                  /\ [Rest EXCEPT !.pc = "top"] \in Workers
<1>1. <<>> \in Seq(Frame) /\ 1 \in DOMAIN Acs
  BY AcsType, EmptySeq
<1> QED BY <1>1 DEF Rest, Workers, Pcs

LEMMA NextAcType ==
  ASSUME NEW w \in Workers
  PROVE  NextAc(w) \in Workers /\ NextAc(w).pc \in {"splice", "check"}
<1>1. w.ac \in DOMAIN Acs /\ Len(Acs) \in Nat /\ DOMAIN Acs = 1 .. Len(Acs)
  BY AcsType DEF Workers
<1>2. CASE w.ac < Len(Acs)
  <2>1. w.ac + 1 \in DOMAIN Acs
    BY <1>1, <1>2
  <2>2. NextAc(w) = [w EXCEPT !.pc = "splice", !.ac = w.ac + 1]
    BY <1>2 DEF NextAc
  <2> HIDE DEF NextAc
  <2> QED BY <2>1, <2>2 DEF Workers, Pcs
<1>3. CASE ~(w.ac < Len(Acs))
  <2>1. NextAc(w) = [w EXCEPT !.pc = "check"]
    BY <1>3 DEF NextAc
  <2> QED BY <2>1 DEF Workers, Pcs
<1> QED BY <1>2, <1>3

LEMMA InitType == Init => TypeInv
<1> SUFFICES ASSUME Init PROVE TypeInv
  OBVIOUS
<1>1. worker \in Workers /\ worker.pc = "idle"
  BY RestType DEF Init, Rest
<1>2. txq \in [Queues -> Seq(Frame)] /\ cache \in [Categories -> Seq(Frame)]
  BY EmptySeq DEF Init
<1>3. Grant \in Nat
  BY SizeAssumption
<1>4. /\ stopped \in [Categories -> BOOLEAN] /\ cut \in [Categories -> BOOLEAN]
      /\ xmit \in [Categories -> [pc : {"idle", "queued", "measured"}, len : Nat]]
  BY DEF Init
<1>b. {queued, cmd, again, kicked} \subseteq BOOLEAN
  <2>1. queued \in BOOLEAN /\ cmd \in BOOLEAN /\ again \in BOOLEAN /\ kicked \in BOOLEAN
    BY DEF Init
  <2> QED BY <2>1
<1>5. /\ flags \subseteq {"FW_ASSERT", "BLOCK_TX", "FW_THERMAL"}
      /\ link \in [entry : BOOLEAN, deauth : BOOLEAN]
      /\ credit \in Int /\ {turns, sent, lost} \subseteq Nat
  BY DEF Init
<1>6. fw \in [state : {"up", "dead", "ready", "enable", "opening"},
              held : Nat, wire : Nat]
  BY <1>3 DEF Init
<1> QED BY <1>1, <1>2, <1>4, <1>b, <1>5, <1>6 DEF TypeInv, TypeOK, PendingInv, Workers, Pcs

\* Steps that leave the frames and the worker alone.
LEMMA QuietType ==
  ASSUME TypeInv, UNCHANGED <<txq, cache, worker>>,
         stopped' \in [Categories -> BOOLEAN], cut' \in [Categories -> BOOLEAN],
         xmit' \in [Categories -> [pc : {"idle", "queued", "measured"}, len : Nat]],
         {queued', cmd', again', kicked'} \subseteq BOOLEAN,
         flags' \subseteq {"FW_ASSERT", "BLOCK_TX", "FW_THERMAL"},
         link' \in [entry : BOOLEAN, deauth : BOOLEAN],
         fw' \in [state : {"up", "dead", "ready", "enable", "opening"},
                  held : Nat, wire : Nat],
         credit' \in Int, {turns', sent', lost'} \subseteq Nat
  PROVE  TypeInv'
BY DEF TypeInv, TypeOK, PendingInv

\* Steps of the worker, which leave the rest alone.
LEMMA WorkerType ==
  ASSUME TypeInv, worker' \in Workers,
         txq' \in [Queues -> Seq(Frame)], cache' \in [Categories -> Seq(Frame)],
         worker'.pc = "pick" => Len(cache'[Acs[worker'.ac]]) <= worker'.pending,
         stopped' \in [Categories -> BOOLEAN], cut' \in [Categories -> BOOLEAN],
         UNCHANGED <<xmit, again, kicked, flags, link, sent>>,
         {queued', cmd'} \subseteq BOOLEAN,
         fw' \in [state : {"up", "dead", "ready", "enable", "opening"},
                  held : Nat, wire : Nat],
         credit' \in Int, {turns', lost'} \subseteq Nat
  PROVE  TypeInv'
BY DEF TypeInv, TypeOK, PendingInv, Workers, Pcs

LEMMA TurnType == ASSUME TypeOK, Turn PROVE turns' \in Nat
BY DEF TypeOK, Turn

\* A frame is queued (skw_ndo_xmit).
LEMMA QueueType == ASSUME TypeInv, NEW k \in Kinds, Queue(k) PROVE TypeInv'
<1> DEFINE f == [q |-> k.q, stream |-> k.stream, plain |-> k.plain, id |-> sent]
<1>k. k.q \in Queues /\ k.stream \in STRING /\ k.plain \in BOOLEAN
  BY QueueAssumption
<1>1. f \in Frame /\ sent' \in Nat
  BY <1>k DEF TypeInv, TypeOK, Queue, Frame
<1>2. txq' = [txq EXCEPT ![k.q] = Append(@, f)]
  BY DEF Queue
<1>3. txq' \in [Queues -> Seq(Frame)]
  <2> HIDE DEF f
  <2> QED BY <1>1, <1>2, <1>k DEF TypeInv, TypeOK
<1>4. xmit' \in [Categories -> [pc : {"idle", "queued", "measured"}, len : Nat]]
  <2> DEFINE P == [pc : {"idle", "queued", "measured"}, len : Nat]
             p == [pc |-> "queued", len |-> 0]
  <2>1. p \in P
    OBVIOUS
  <2>2. xmit' = xmit \/ xmit' = [xmit EXCEPT ![NetQueue(k.q)] = p]
    BY DEF Queue
  <2>3. xmit \in [Categories -> P]
    BY DEF TypeInv, TypeOK
  <2> HIDE DEF P, p
  <2>4. xmit' \in [Categories -> P]
    BY <2>1, <2>2, <2>3
  <2> QED BY <2>4 DEF P
<1>5. /\ UNCHANGED <<cache, stopped, worker, credit, cmd, env, lost, cut>>
      /\ queued' = TRUE /\ kicked' = TRUE
  BY DEF Queue, skw_wakeup_tx
<1> QED BY <1>1, <1>3, <1>4, <1>5 DEF TypeInv, TypeOK, PendingInv, env

\* The two lists are measured (skw_ndo_xmit).
LEMMA XmitType == ASSUME TypeInv, Xmit PROVE TypeInv'
<1> DEFINE P == [pc : {"idle", "queued", "measured"}, len : Nat]
<1>x. xmit \in [Categories -> P]
  BY DEF TypeInv, TypeOK
<1>1. ASSUME NEW a \in Categories, MeasureQueue(a) PROVE TypeInv'
  <2> DEFINE p == [pc |-> "measured", len |-> Len(txq[a])]
  <2>1. p \in P
    <3>1. txq[a] \in Seq(Frame)
      BY AcsType DEF TypeInv, TypeOK
    <3> QED BY <3>1, LenProperties
  <2>2. xmit' = [xmit EXCEPT ![a] = p]
    BY <1>1 DEF MeasureQueue
  <2>3. xmit' \in [Categories -> P]
    <3> HIDE DEF P, p
    <3> QED BY <2>1, <2>2, <1>x
  <2> QED BY <1>1, <2>3, QuietType
          DEF MeasureQueue, driver, env, TypeInv, TypeOK
<1>2. ASSUME NEW a \in Categories, StopIfLong(a) PROVE TypeInv'
  <2> DEFINE p == [pc |-> "idle", len |-> 0]
  <2>2. xmit' = [xmit EXCEPT ![a] = p]
    BY <1>2 DEF StopIfLong
  <2>3. xmit' \in [Categories -> P]
    <3>1. p \in P
      OBVIOUS
    <3> HIDE DEF P, p
    <3> QED BY <3>1, <2>2, <1>x
  <2>4. PICK l \in BOOLEAN : stopped' = [stopped EXCEPT ![a] = @ \/ l]
    BY <1>2 DEF StopIfLong
  <2>5. stopped' \in [Categories -> BOOLEAN]
    BY <2>4 DEF TypeInv, TypeOK
  <2>6. cut' \in [Categories -> BOOLEAN]
    BY <1>2, <2>5 DEF TypeInv, TypeOK, StopIfLong
  <2> QED BY <1>2, <2>3, <2>5, <2>6, QuietType
          DEF StopIfLong, driver, env, TypeInv, TypeOK
<1> QED BY <1>1, <1>2 DEF Xmit

\* n frames are taken from the front of a list, the others stay.
LEMMA TakeType ==
  ASSUME NEW s \in Seq(Frame), NEW n \in 1 .. Len(s)
  PROVE  LET rest == SubSeq(s, n + 1, Len(s)) IN
         /\ Take(s, n) \in Seq(Frame) /\ rest \in Seq(Frame)
         /\ Len(rest) = Len(s) - n
         /\ \A i \in 1 .. Len(s) - n : rest[i] = s[n + i]
         /\ \A i \in 1 .. n : s[i] \in ToSet(Take(s, n))
         /\ ToSet(Take(s, n)) \subseteq ToSet(s)
<1> DEFINE rest == SubSeq(s, n + 1, Len(s))  t == SubSeq(s, 1, n)
<1>1. Len(s) \in Nat /\ s \in [1 .. Len(s) -> Frame] /\ DOMAIN s = 1 .. Len(s)
  BY LenProperties
<1>2. n \in Nat \ {0} /\ n <= Len(s)
  BY <1>1
<1>3. /\ rest \in Seq(Frame)
      /\ Len(rest) = IF n + 1 <= Len(s) THEN Len(s) - (n + 1) + 1 ELSE 0
      /\ \A i \in 1 .. Len(s) - (n + 1) + 1 : rest[i] = s[n + 1 + i - 1]
  <2>1. \A i \in n + 1 .. Len(s) : s[i] \in Frame
    BY <1>1, <1>2
  <2> QED BY <2>1, <1>1, <1>2, SubSeqProperties
<1>4. /\ t \in Seq(Frame) /\ Len(t) = n /\ \A i \in 1 .. n : t[i] = s[i]
  <2>1. \A i \in 1 .. n : s[i] \in Frame
    BY <1>1, <1>2
  <2>2. /\ t \in Seq(Frame) /\ Len(t) = IF 1 <= n THEN n - 1 + 1 ELSE 0
        /\ \A i \in 1 .. n - 1 + 1 : t[i] = s[1 + i - 1]
    BY <2>1, <1>2, SubSeqProperties
  <2> QED BY <2>2, <1>2
<1> HIDE DEF rest, t
<1>5. DOMAIN t = 1 .. n
  BY <1>4, LenProperties
<1>6. Len(rest) = Len(s) - n /\ \A i \in 1 .. Len(s) - n : rest[i] = s[n + i]
  <2>1. Len(rest) = Len(s) - n
    <3>1. n + 1 <= Len(s) => Len(s) - (n + 1) + 1 = Len(s) - n
      BY <1>1, <1>2
    <3>2. \A l, m \in Nat : m <= l /\ ~(m + 1 <= l) => l - m = 0
      OBVIOUS
    <3>3. ~(n + 1 <= Len(s)) => Len(s) - n = 0
      BY <1>1, <1>2, <3>2
    <3> QED BY <1>3, <3>1, <3>3
  <2>2. ASSUME NEW i \in 1 .. Len(s) - n PROVE rest[i] = s[n + i]
    <3>1. i \in 1 .. Len(s) - (n + 1) + 1 /\ n + 1 + i - 1 = n + i
      BY <1>1, <1>2
    <3>2. rest[i] = s[n + 1 + i - 1]
      BY <1>3, <3>1
    <3> QED BY <3>1, <3>2
  <2> QED BY <2>1, <2>2
<1>7. /\ \A i \in 1 .. n : s[i] \in ToSet(t)
      /\ ToSet(t) \subseteq ToSet(s)
  BY <1>1, <1>2, <1>4, <1>5 DEF ToSet
<1>8. t = Take(s, n)
  BY DEF t, Take
<1> QED BY <1>3, <1>4, <1>6, <1>7, <1>8 DEF rest

\* The list of a category after a splice.
SpliceAcks(a) == IF a = Be THEN skw_merge_pure_ack(txq[Ack], <<>>) ELSE <<>>
Spliced(a) == IF link.deauth THEN <<>> ELSE cache[a] \o SpliceAcks(a) \o txq[a]

LEMMA SplicedType ==
  ASSUME TypeOK, NEW a \in Categories
  PROVE  /\ SpliceAcks(a) \in Seq(Frame) /\ Spliced(a) \in Seq(Frame)
         /\ cache[a] \in Seq(Frame) /\ txq[a] \in Seq(Frame) /\ txq[Ack] \in Seq(Frame)
         /\ cache[a] \o SpliceAcks(a) \in Seq(Frame)
         /\ ~link.deauth => Spliced(a) = (cache[a] \o SpliceAcks(a)) \o txq[a]
<1>1. cache[a] \in Seq(Frame) /\ txq[a] \in Seq(Frame) /\ txq[Ack] \in Seq(Frame)
  BY AcsType DEF TypeOK
<1>2. SpliceAcks(a) \in Seq(Frame)
  BY <1>1, MergeKeeps, EmptySeq DEF SpliceAcks
<1>3. cache[a] \o SpliceAcks(a) \in Seq(Frame)
  BY <1>1, <1>2, ConcatProperties
<1>4. (cache[a] \o SpliceAcks(a)) \o txq[a] \in Seq(Frame)
  BY <1>1, <1>3, ConcatProperties
<1> QED BY <1>1, <1>2, <1>3, <1>4, EmptySeq DEF Spliced

LEMMA SpliceFacts ==
  ASSUME TypeOK, Splice
  PROVE  LET a == Acs[worker.ac] IN
         /\ a \in Categories /\ Spliced(a) \in Seq(Frame)
         /\ txq' = [q \in Queues |-> IF NetQueue(q) = a THEN <<>> ELSE txq[q]]
         /\ cache' = [cache EXCEPT ![a] = Spliced(a)]
         /\ worker' = IF Len(Spliced(a)) = 0 THEN NextAc(worker)
                      ELSE Found(worker, Len(Spliced(a)))
<1> DEFINE a == Acs[worker.ac]
<1>1. a \in Categories
  BY AcsType DEF TypeOK
<1> QED BY <1>1, SplicedType DEF Splice, Spliced, SpliceAcks

LEMMA SpliceType == ASSUME TypeInv, Splice PROVE TypeInv'
<1> DEFINE a == Acs[worker.ac]  n == Len(Spliced(a))
<1>t. TypeOK
  BY DEF TypeInv
<1>w. worker \in Workers
  BY <1>t DEF TypeOK, Workers, Pcs
<1>1. /\ a \in Categories /\ Spliced(a) \in Seq(Frame)
      /\ txq' = [q \in Queues |-> IF NetQueue(q) = a THEN <<>> ELSE txq[q]]
      /\ cache' = [cache EXCEPT ![a] = Spliced(a)]
      /\ worker' = IF n = 0 THEN NextAc(worker) ELSE Found(worker, n)
  BY <1>t, SpliceFacts
<1>2. n \in Nat
  BY <1>1, LenProperties
<1>3. txq' \in [Queues -> Seq(Frame)]
  <2>1. <<>> \in Seq(Frame)
    BY EmptySeq
  <2> HIDE DEF a
  <2> QED BY <1>1, <1>t, <2>1 DEF TypeOK
<1>4. cache' \in [Categories -> Seq(Frame)] /\ cache'[a] = Spliced(a)
  <2> HIDE DEF a
  <2> QED BY <1>1, <1>t DEF TypeOK
<1>5. /\ worker' \in Workers
      /\ worker'.pc = "pick" => Len(cache'[Acs[worker'.ac]]) <= worker'.pending
  <2>1. CASE n = 0
    BY <2>1, <1>1, <1>w, NextAcType
  <2>2. CASE n # 0
    <3> DEFINE v == [pc |-> "pick", ac |-> worker.ac, list |-> worker.list,
                     cred |-> worker.cred, pending |-> worker.pending + n]
    <3>1. worker' = [worker EXCEPT !.pc = "pick", !.pending = @ + n]
      BY <2>2, <1>1 DEF Found
    <3>2. worker' = v
      <4> HIDE DEF n
      <4> QED BY <3>1, <1>w DEF Workers
    <3>3. worker.pending \in Nat /\ worker.pending + n \in Nat /\ n <= worker.pending + n
      <4> HIDE DEF n
      <4> QED BY <1>w, <1>2 DEF Workers
    <3>4. v \in Workers
      <4> HIDE DEF n
      <4> QED BY <1>w, <3>3 DEF Workers, Pcs
    <3>5. Len(cache'[Acs[worker'.ac]]) = n
      BY <1>4, <3>2
    <3> QED BY <3>2, <3>3, <3>4, <3>5
  <2> QED BY <2>1, <2>2
<1>6. stopped' \in [Categories -> BOOLEAN]
  <2>1. PICK m : stopped' = [stopped EXCEPT ![a] = StillStopped(a, m)]
    BY DEF Splice
  <2>2. StillStopped(a, m) \in BOOLEAN
    BY DEF StillStopped
  <2> HIDE DEF a
  <2> QED BY <2>1, <2>2, <1>t DEF TypeOK
<1>7. cut' \in [Categories -> BOOLEAN]
  <2>1. \E S : Purged(S) \/ Restarted(S)
    BY DEF Splice
  <2> QED BY <2>1 DEF Purged, Restarted
<1> HIDE DEF a, n
<1> QED BY <1>3, <1>4, <1>5, <1>6, <1>7, <1>t, WorkerType DEF Splice, env, TypeOK

LEMMA PickFacts ==
  ASSUME TypeOK, Pick, credit # 0
  PROVE  LET a == Acs[worker.ac]
             s == cache[a]
         IN /\ a \in Categories /\ s \in Seq(Frame)
            /\ \E n \in 1 .. Len(s) :
                 /\ n <= credit
                 /\ worker' = [worker EXCEPT !.pc = "send", !.pending = @ - n,
                                 !.cred = credit - n, !.list = Take(s, n)]
                 /\ cache' = [cache EXCEPT ![a] = SubSeq(s, n + 1, Len(s))]
<1>1. Acs[worker.ac] \in Categories
  BY AcsType DEF TypeOK
<1> QED BY <1>1 DEF Pick, TypeOK

LEMMA PickType == ASSUME TypeInv, CreditInv, Pick PROVE TypeInv'
<1>t. TypeOK
  BY DEF TypeInv
<1>w. worker \in Workers /\ worker.pc = "pick"
  BY <1>t DEF TypeOK, Workers, Pcs, Pick
<1>u. /\ UNCHANGED <<txq, stopped, xmit, sent, queued, credit, cmd, env, lost, kicked, cut>>
  BY DEF Pick
<1>1. CASE credit = 0
  <2>1. worker' = [worker EXCEPT !.pc = "check"] /\ cache' = cache
    BY <1>1 DEF Pick, Goto
  <2>2. worker' \in Workers /\ worker'.pc = "check"
    BY <2>1, <1>w DEF Workers, Pcs
  <2> QED BY <2>1, <2>2, <1>t, <1>u, WorkerType DEF env, TypeOK
<1>2. CASE credit # 0
  <2> DEFINE a == Acs[worker.ac]  s == cache[a]
  <2>1. /\ a \in Categories /\ s \in Seq(Frame)
        /\ \E n \in 1 .. Len(s) :
                 /\ n <= credit
                 /\ worker' = [worker EXCEPT !.pc = "send", !.pending = @ - n,
                                 !.cred = credit - n, !.list = Take(s, n)]
                 /\ cache' = [cache EXCEPT ![a] = SubSeq(s, n + 1, Len(s))]
    BY <1>2, <1>t, PickFacts
  <2>2. PICK n \in 1 .. Len(s) :
                 /\ n <= credit
                 /\ worker' = [worker EXCEPT !.pc = "send", !.pending = @ - n,
                                 !.cred = credit - n, !.list = Take(s, n)]
                 /\ cache' = [cache EXCEPT ![a] = SubSeq(s, n + 1, Len(s))]
    BY <2>1
  <2>3. Take(s, n) \in Seq(Frame) /\ SubSeq(s, n + 1, Len(s)) \in Seq(Frame)
    <3> HIDE DEF s
    <3> QED BY <2>1, TakeType
  <2>4. Len(s) \in Nat /\ n \in Nat /\ n <= Len(s)
    <3> HIDE DEF s
    <3> QED BY <2>1, LenProperties
  <2>5. Len(s) <= worker.pending /\ worker.pending \in Nat
    BY <1>w DEF TypeInv, PendingInv, Workers
  <2>6. credit \in Nat
    BY DEF CreditInv, CreditType
  <2>7. worker.pending - n \in Nat /\ credit - n \in Nat
    <3> HIDE DEF s
    <3> QED BY <2>2, <2>4, <2>5, <2>6
  <2>8. cache' \in [Categories -> Seq(Frame)]
    <3> HIDE DEF s, a
    <3> QED BY <2>1, <2>2, <2>3, <1>t DEF TypeOK
  <2>9. worker' = [pc |-> "send", ac |-> worker.ac, list |-> Take(s, n),
                   cred |-> credit - n, pending |-> worker.pending - n]
    <3> HIDE DEF s, a
    <3> QED BY <2>2, <1>w DEF Workers
  <2>10. worker' \in Workers /\ worker'.pc = "send"
    <3> HIDE DEF s, a
    <3> QED BY <2>9, <2>3, <2>7, <1>w DEF Workers, Pcs
  <2> HIDE DEF s, a
  <2> QED BY <2>8, <2>10, <1>t, <1>u, WorkerType DEF env, TypeOK
<1> QED BY <1>1, <1>2

\* The other steps of skw_tx_worker.
LEMMA WorkerStepType == ASSUME TypeInv, CreditInv, Worker PROVE TypeInv'
<1>t. TypeOK
  BY DEF TypeInv
<1>w. worker \in Workers
  BY <1>t DEF TypeOK, Workers, Pcs
<1>r. Rest \in Workers /\ Rest.pc = "idle"
  BY RestType DEF Rest
<1>1. CASE Start
  <2>1. worker' \in Workers /\ worker'.pc = "top"
    BY <1>1, <1>w DEF Start, Goto, Workers, Pcs
  <2> QED BY <1>1, <2>1, <1>t, WorkerType DEF Start, tx, env, TypeOK
<1>2. CASE Top
  <2>1. \/ worker' = [Rest EXCEPT !.pc = "splice"]
        \/ worker' = Rest
        \/ worker' = worker
    BY <1>2 DEF Top
  <2>2. worker' \in Workers /\ worker'.pc # "pick"
    BY <2>1, <1>2, <1>w, RestType DEF Top, Rest
  <2> QED BY <1>2, <2>2, <1>t, WorkerType DEF Top, tx, env, TypeOK
<1>3. CASE Splice
  BY <1>3, SpliceType
<1>4. CASE Pick
  BY <1>4, PickType
<1>5. CASE Send
  <2>1. worker' \in Workers /\ worker'.pc = "sub"
    BY <1>5, <1>w DEF Send, Goto, Workers, Pcs
  <2>2. Len(worker.list) \in Nat
    BY <1>w, LenProperties DEF Workers
  <2>3. /\ fw' \in [state : {"up", "dead", "ready", "enable", "opening"},
                    held : Nat, wire : Nat]
        /\ {turns', lost'} \subseteq Nat
    <3>f. /\ fw \in [state : {"up", "dead", "ready", "enable", "opening"},
                     held : Nat, wire : Nat]
          /\ turns \in Nat /\ lost \in Nat
      BY <1>t DEF TypeOK
    <3>1. CASE fw' = [fw EXCEPT !.held = @ + Len(worker.list)] /\ UNCHANGED <<turns, lost>>
      BY <3>1, <3>f, <2>2
    <3>2. CASE Turn /\ lost' = lost + Len(worker.list) /\ fw' = fw
      BY <3>2, <3>f, <2>2 DEF Turn
    <3>3. CASE UNCHANGED <<fw, turns, lost>>
      BY <3>3, <3>f
    <3> QED BY <1>5, <3>1, <3>2, <3>3 DEF Send
  <2>4. UNCHANGED <<tx, queued, credit, cmd, flags, link, again, kicked, cut>>
    BY <1>5 DEF Send
  <2> QED BY <2>1, <2>3, <2>4, <1>t, WorkerType DEF tx, TypeOK
<1>6. CASE Sub
  <2> DEFINE v == IF worker.cred = 0 THEN [worker EXCEPT !.pc = "check"] ELSE NextAc(worker)
  <2>1. v \in Workers /\ v.pc \in {"check", "splice"}
    <3>1. [worker EXCEPT !.pc = "check"] \in Workers /\ [worker EXCEPT !.pc = "check"].pc = "check"
      BY <1>w DEF Workers, Pcs
    <3> QED BY <3>1, <1>w, NextAcType
  <2>2. worker' = [v EXCEPT !.list = <<>>, !.cred = 0]
    BY <1>6 DEF Sub
  <2>3. worker' \in Workers /\ worker'.pc # "pick"
    <3> HIDE DEF v
    <3> QED BY <2>1, <2>2, EmptySeq DEF Workers
  <2>4. credit' \in Int
    <3>1. Len(worker.list) \in Nat
      BY <1>w, LenProperties DEF Workers
    <3> QED BY <1>6, <1>t, <3>1 DEF Sub, TypeOK
  <2>5. UNCHANGED <<tx, queued, cmd, env, lost, kicked, cut>>
    BY <1>6 DEF Sub
  <2> QED BY <2>3, <2>4, <2>5, <1>t, WorkerType DEF tx, env, TypeOK
<1>7. CASE Check
  <2>1. worker' = [Rest EXCEPT !.pc = "top"] \/ worker' = Rest
    BY <1>7 DEF Check
  <2>2. worker' \in Workers /\ worker'.pc # "pick"
    BY <2>1, RestType DEF Rest
  <2> QED BY <1>7, <2>2, <1>t, WorkerType DEF Check, tx, env, TypeOK
<1> QED BY <1>1, <1>2, <1>3, <1>4, <1>5, <1>6, <1>7 DEF Worker

\* The connection and the suspend.
LEMMA UserType == ASSUME TypeInv, User PROVE TypeInv'
<1>t. TypeOK
  BY DEF TypeInv
<1>1. ASSUME NEW k \in Kinds, Queue(k) PROVE TypeInv'
  BY <1>1, QueueType
<1>2. CASE skw_unjoin
  <2>1. turns' \in Nat
    BY <1>2, <1>t, TurnType DEF skw_unjoin
  <2> QED BY <1>2, <2>1, <1>t, QuietType
          DEF skw_unjoin, Command, skw_wakeup_tx, tx, TypeOK
<1>3. CASE unjoined
  BY <1>3, <1>t, QuietType DEF unjoined, tx, driver, TypeOK
<1>4. CASE skw_join
  <2>1. turns' \in Nat
    BY <1>4, <1>t, TurnType DEF skw_join
  <2> QED BY <1>4, <2>1, <1>t, QuietType
          DEF skw_join, Command, skw_wakeup_tx, tx, TypeOK
<1>5. CASE skw_suspend
  <2>1. turns' \in Nat
    BY <1>5, <1>t, TurnType DEF skw_suspend
  <2> QED BY <1>5, <2>1, <1>t, QuietType DEF skw_suspend, tx, driver, TypeOK
<1>6. CASE skw_resume
  <2>1. kicked' \in BOOLEAN
    BY <1>6 DEF skw_resume, Unblock
  <2> QED BY <1>6, <2>1, <1>t, QuietType DEF skw_resume, Unblock, driver, TypeOK
<1> QED BY <1>1, <1>2, <1>3, <1>4, <1>5, <1>6 DEF User

\* Credits, heat, deaths.
LEMMA FirmwareType == ASSUME TypeInv, Firmware PROVE TypeInv'
<1>t. TypeOK
  BY DEF TypeInv
<1> DEFINE F == [state : {"up", "dead", "ready", "enable", "opening"},
                 held : Nat, wire : Nat]
<1>f. fw \in F /\ credit \in Int
  BY <1>t DEF TypeOK
<1>1. CASE Report
  <2>1. PICK c \in 1 .. fw.held : fw' = [fw EXCEPT !.held = @ - c, !.wire = @ + c]
    BY <1>1 DEF Report
  <2>2. fw.held - c \in Nat /\ fw.wire + c \in Nat
    BY <1>f, <2>1
  <2>3. fw' \in F
    BY <1>f, <2>1, <2>2
  <2> QED BY <1>1, <2>3, <1>t, QuietType DEF Report, tx, driver, TypeOK
<1>2. CASE skw_add_credit
  <2>1. fw' \in F /\ credit' \in Int
    BY <1>2, <1>f DEF skw_add_credit
  <2> QED BY <1>2, <2>1, <1>t, QuietType DEF skw_add_credit, skw_wakeup_tx, tx, TypeOK
<1>3. CASE skw_event_thermal_warn
  <2>1. CASE /\ Turn
             /\ flags' = flags \cup {"FW_THERMAL"}
             /\ stopped' = [a \in Categories |-> TRUE]
             /\ UNCHANGED <<txq, cache, xmit, sent, driver, link, fw, again, lost, kicked, cut>>
    <3>1. turns' \in Nat
      BY <2>1, <1>t, TurnType
    <3>2. stopped' \in [Categories -> BOOLEAN]
      BY <2>1
    <3> QED BY <2>1, <3>1, <3>2, <1>t, QuietType DEF driver, TypeOK
  <2>2. CASE /\ Unblock("FW_THERMAL")
             /\ stopped' = [a \in Categories |-> FALSE]
             /\ Restarted(Categories)
    <3>1. kicked' \in BOOLEAN /\ stopped' \in [Categories -> BOOLEAN]
      BY <2>2 DEF Unblock
    <3>2. cut' \in [Categories -> BOOLEAN]
      BY <2>2 DEF Restarted
    <3> QED BY <2>2, <3>1, <3>2, <1>t, QuietType DEF Unblock, driver, TypeOK
  <2> QED BY <1>3, <2>1, <2>2 DEF skw_event_thermal_warn
<1>4. CASE skw_bsp_notifier
  <2>1. turns' \in Nat
    BY <1>4, <1>t, TurnType DEF skw_bsp_notifier
  <2>2. fw' \in F
    BY <1>4 DEF skw_bsp_notifier
  <2> QED BY <1>4, <2>1, <2>2, <1>t, QuietType DEF skw_bsp_notifier, tx, driver, TypeOK
<1>5. CASE FwReady
  <2>1. fw' \in F
    BY <1>5, <1>f DEF FwReady
  <2> QED BY <1>5, <2>1, <1>t, QuietType DEF FwReady, tx, driver, TypeOK
<1> QED BY <1>1, <1>2, <1>3, <1>4, <1>5 DEF Firmware

\* The recovery work.
LEMMA RecoveryType == ASSUME TypeInv, CreditInv, Recovery PROVE TypeInv'
<1>t. TypeOK
  BY DEF TypeInv
<1> DEFINE F == [state : {"up", "dead", "ready", "enable", "opening"},
                 held : Nat, wire : Nat]
<1>f. fw \in F
  BY <1>t DEF TypeOK
<1>1. CASE skw_recovery_prepare
  <2>1. fw' \in F /\ again' = TRUE /\ credit' = 0 /\ lost' = 0
    BY <1>1, <1>f DEF skw_recovery_prepare
  <2>2. CASE again
    <3>1. UNCHANGED <<txq, cache, link, cut>>
      BY <1>1, <2>2 DEF skw_recovery_prepare
    <3> QED BY <1>1, <2>1, <3>1, <1>t, QuietType DEF skw_recovery_prepare, TypeOK
  <2>3. CASE ~again
    <3>1. /\ txq' = [q \in Queues |-> <<>>]
          /\ cache' = [a \in Categories |-> <<>>]
          /\ link' = [link EXCEPT !.entry = FALSE]
          /\ Purged(Categories)
      BY <1>1, <2>3 DEF skw_recovery_prepare
    <3>2. /\ txq' \in [Queues -> Seq(Frame)] /\ cache' \in [Categories -> Seq(Frame)]
      BY <3>1, EmptySeq
    <3>3. cut' \in [Categories -> BOOLEAN] /\ link' \in [entry : BOOLEAN, deauth : BOOLEAN]
      BY <3>1, <1>t DEF Purged, TypeOK
    <3>4. /\ UNCHANGED <<stopped, xmit, sent, worker, queued, cmd, flags, turns, kicked>>
          /\ worker.pc # "pick"
      BY <1>1 DEF skw_recovery_prepare, CreditInv, DeadIsQuiet
    <3> QED BY <2>1, <3>2, <3>3, <3>4, <1>t DEF TypeInv, TypeOK, PendingInv
  <2> QED BY <2>2, <2>3
<1>2. CASE recovery_enable
  <2>1. fw' \in F
    BY <1>2, <1>f DEF recovery_enable
  <2> QED BY <1>2, <2>1, <1>t, QuietType
          DEF recovery_enable, Command, skw_wakeup_tx, tx, TypeOK
<1>3. CASE skw_cmd_open_dev
  <2>1. fw' \in F
    BY <1>3, <1>f, SizeAssumption DEF skw_cmd_open_dev
  <2> QED BY <1>3, <2>1, <1>t, QuietType DEF skw_cmd_open_dev, tx, driver, TypeOK
<1> QED BY <1>1, <1>2, <1>3 DEF Recovery

\* The types hold in every state, for any frames, categories and bounds (SkwTx
\* as a whole); a count of pending frames never goes below zero (skw_tx.c:719).
THEOREM TypeCorrect == Spec => []TypeOK
<1>1. ASSUME TypeInv, CreditInv, [Next]_vars PROVE TypeInv'
  <2>1. CASE UNCHANGED vars
    BY <1>1, <2>1 DEF vars, tx, driver, env, TypeInv, TypeOK, PendingInv
  <2>2. CASE Next
    BY <1>1, <2>2, WorkerStepType, XmitType, UserType, FirmwareType, RecoveryType DEF Next
  <2> QED BY <1>1, <2>1, <2>2
<1>2. TypeInv => TypeOK
  BY DEF TypeInv
<1> QED BY <1>1, <1>2, InitType, Invariance, PTL DEF Spec
-----------------------------------------------------------------------------
(* The order of the frames. *)

\* Frames of one queue of the stack stand in the order they came, first in the
\* worker's list and then in the interface's; each list holds its own frames.
Sorted(s) ==
  \A i, j \in DOMAIN s : i < j /\ s[i].q = s[j].q /\ s[i].q # Ack => s[i].id < s[j].id
Before(s, t) ==
  \A f \in ToSet(s), g \in ToSet(t) : f.q = g.q /\ f.q # Ack => f.id < g.id
QueueOrder(q) ==
  /\ \A f \in ToSet(txq[q]) : f.q = q /\ f.id < sent
  /\ \A i, j \in DOMAIN txq[q] : i < j => txq[q][i].id < txq[q][j].id
CacheOrder(a) ==
  /\ \A f \in ToSet(cache[a]) : NetQueue(f.q) = a /\ f.id < sent
  /\ Sorted(cache[a]) /\ Before(cache[a], txq[a])
OrderInv ==
  /\ \A q \in Queues : QueueOrder(q)
  /\ \A a \in Categories : CacheOrder(a)

LEMMA SortedConcat ==
  ASSUME NEW s \in Seq(Frame), NEW t \in Seq(Frame),
         Sorted(s), Sorted(t), Before(s, t)
  PROVE  Sorted(s \o t)
<1>1. /\ Len(s) \in Nat /\ DOMAIN s = 1 .. Len(s)
      /\ Len(t) \in Nat /\ DOMAIN t = 1 .. Len(t)
      /\ DOMAIN (s \o t) = 1 .. Len(s) + Len(t)
      /\ \A i \in 1 .. Len(s) + Len(t) : (s \o t)[i] =
                     IF i <= Len(s) THEN s[i] ELSE t[i - Len(s)]
  BY ConcatProperties
<1> DEFINE u == s \o t
<1> HIDE DEF u
<1>2. SUFFICES ASSUME NEW i \in DOMAIN u, NEW j \in DOMAIN u,
                      i < j, u[i].q = u[j].q, u[i].q # Ack
               PROVE  u[i].id < u[j].id
  BY DEF Sorted, u
<1>3. CASE j <= Len(s)
  <2>1. i \in DOMAIN s /\ j \in DOMAIN s /\ u[i] = s[i] /\ u[j] = s[j]
    BY <1>1, <1>2, <1>3 DEF u
  <2> QED BY <2>1, <1>2 DEF Sorted
<1>4. CASE i <= Len(s) /\ ~(j <= Len(s))
  <2>1. /\ i \in DOMAIN s /\ j - Len(s) \in DOMAIN t
        /\ u[i] = s[i] /\ u[j] = t[j - Len(s)]
    BY <1>1, <1>2, <1>4 DEF u
  <2>2. u[i] \in ToSet(s) /\ u[j] \in ToSet(t)
    BY <2>1 DEF ToSet
  <2> QED BY <2>2, <1>2 DEF Before
<1>5. CASE ~(i <= Len(s))
  <2>1. /\ i - Len(s) \in DOMAIN t /\ j - Len(s) \in DOMAIN t
        /\ i - Len(s) < j - Len(s)
        /\ u[i] = t[i - Len(s)] /\ u[j] = t[j - Len(s)]
    BY <1>1, <1>2, <1>5 DEF u
  <2> QED BY <2>1, <1>2 DEF Sorted
<1>6. j <= Len(s) \/ (i <= Len(s) /\ ~(j <= Len(s))) \/ ~(i <= Len(s))
  OBVIOUS
<1> QED BY <1>3, <1>4, <1>5, <1>6

LEMMA InitOrder == Init => OrderInv
BY EmptyToSet DEF Init, OrderInv, QueueOrder, CacheOrder, Sorted, Before

\* Steps that leave the frames alone.
LEMMA QuietOrder ==
  ASSUME OrderInv, UNCHANGED <<txq, cache, sent>> PROVE OrderInv'
BY DEF OrderInv, QueueOrder, CacheOrder, Sorted, Before

LEMMA CategoryIsQueue ==
  /\ \A a \in Categories : a \in Queues /\ a # Ack /\ NetQueue(a) = a
  /\ NetQueue(Ack) = Be
BY QueueAssumption DEF Queues, NetQueue

\* A new frame is the youngest of its queue.
LEMMA QueueOrdered ==
  ASSUME TypeOK, OrderInv, NEW k \in Kinds, Queue(k) PROVE OrderInv'
<1> DEFINE f == [q |-> k.q, stream |-> k.stream, plain |-> k.plain, id |-> sent]
           s == txq[k.q]
<1>k. k.q \in Queues /\ k.stream \in STRING /\ k.plain \in BOOLEAN
  BY QueueAssumption
<1>1. f \in Frame /\ f.q = k.q /\ f.id = sent /\ sent \in Nat /\ sent' = sent + 1
  BY <1>k DEF TypeOK, Queue, Frame
<1>2. txq' = [txq EXCEPT ![k.q] = Append(@, f)] /\ cache' = cache
  BY DEF Queue
<1>3. s \in Seq(Frame) /\ txq \in [Queues -> Seq(Frame)] /\ cache \in [Categories -> Seq(Frame)]
  BY <1>k DEF TypeOK
<1>4. /\ txq'[k.q] = Append(s, f)
      /\ \A q \in Queues : q # k.q => txq'[q] = txq[q]
  <2> HIDE DEF f
  <2> QED BY <1>2, <1>3, <1>k
<1> HIDE DEF f, s
<1>5. /\ Append(s, f) \in Seq(Frame) /\ Len(Append(s, f)) = Len(s) + 1
      /\ \A i \in 1 .. Len(s) : Append(s, f)[i] = s[i]
      /\ Append(s, f)[Len(s) + 1] = f
      /\ ToSet(Append(s, f)) = ToSet(s) \cup {f}
  BY <1>1, <1>3, AppendToSet
<1>6. /\ DOMAIN s = 1 .. Len(s) /\ Len(s) \in Nat
      /\ DOMAIN Append(s, f) = 1 .. Len(s) + 1
      /\ \A i \in 1 .. Len(s) : s[i] \in ToSet(s)
  <2>1. DOMAIN s = 1 .. Len(s) /\ Len(s) \in Nat
    BY <1>3, LenProperties
  <2>2. DOMAIN Append(s, f) = 1 .. Len(s) + 1
    BY <1>5, LenProperties
  <2>3. \A i \in 1 .. Len(s) : s[i] \in ToSet(s)
    BY <1>3, InToSet
  <2> QED BY <2>1, <2>2, <2>3
<1>t. /\ \A q \in Queues : \A g \in ToSet(txq[q]) : g.id \in Nat
      /\ \A a \in Categories : \A g \in ToSet(cache[a]) : g.id \in Nat
  <2>1. \A g \in Frame : g.id \in Nat
    BY DEF Frame
  <2>2. ASSUME NEW q \in Queues, NEW g \in ToSet(txq[q]) PROVE g \in Frame
    <3>1. txq[q] \in Seq(Frame)
      BY <1>3
    <3> QED BY <3>1, <2>2, InToSet
  <2>3. ASSUME NEW a \in Categories, NEW g \in ToSet(cache[a]) PROVE g \in Frame
    <3>1. cache[a] \in Seq(Frame)
      BY <1>3
    <3> QED BY <3>1, <2>3, InToSet
  <2> QED BY <2>1, <2>2, <2>3
<1>7. ASSUME NEW q \in Queues PROVE QueueOrder(q)'
  <2>1. CASE q # k.q
    <3>1. QueueOrder(q)
      BY DEF OrderInv
    <3> QED BY <1>1, <1>4, <1>t, <2>1, <3>1 DEF QueueOrder
  <2>2. CASE q = k.q
    <3>1. QueueOrder(k.q) /\ txq[k.q] = s
      BY <1>k DEF OrderInv, s
    <3>2. \A g \in ToSet(s) : g.q = k.q /\ g.id < sent /\ g.id \in Nat
      BY <3>1, <1>t, <1>k DEF QueueOrder
    <3>3. \A g \in ToSet(Append(s, f)) : g.q = k.q /\ g.id < sent'
      BY <1>1, <1>5, <3>2
    <3>4. ASSUME NEW i \in 1 .. Len(s) + 1, NEW j \in 1 .. Len(s) + 1, i < j
          PROVE  Append(s, f)[i].id < Append(s, f)[j].id
      <4>1. i \in 1 .. Len(s) /\ Append(s, f)[i] = s[i] /\ s[i].id < sent
        BY <1>5, <1>6, <3>2, <3>4
      <4>2. CASE j = Len(s) + 1
        BY <4>1, <4>2, <1>1, <1>5
      <4>3. CASE j # Len(s) + 1
        <5>1. j \in 1 .. Len(s) /\ Append(s, f)[j] = s[j]
          BY <4>3, <1>5, <1>6
        <5> QED BY <4>1, <5>1, <3>1, <3>4, <1>6 DEF QueueOrder
      <4> QED BY <4>2, <4>3
    <3> QED BY <2>2, <1>4, <1>6, <3>3, <3>4 DEF QueueOrder
  <2> QED BY <2>1, <2>2
<1>8. ASSUME NEW a \in Categories PROVE CacheOrder(a)'
  <2>1. CacheOrder(a)
    BY DEF OrderInv
  <2>2. \A g \in ToSet(cache[a]) : NetQueue(g.q) = a /\ g.id < sent'
    BY <2>1, <1>1, <1>t DEF CacheOrder
  <2>3. Before(cache[a], txq'[a])
    <3>1. CASE a # k.q
      BY <3>1, <2>1, <1>4, CategoryIsQueue DEF CacheOrder
    <3>2. CASE a = k.q
      <4>1. txq[a] = s
        BY <3>2 DEF s
      <4> QED BY <4>1, <3>2, <2>1, <1>1, <1>4, <1>5 DEF CacheOrder, Before
    <3> QED BY <3>1, <3>2
  <2> QED BY <2>1, <2>2, <2>3, <1>2 DEF CacheOrder
<1> QED BY <1>7, <1>8 DEF OrderInv

\* What waits, list by list.
LEMMA WaitingIn ==
  ASSUME NEW f
  PROVE  /\ f \in Waiting <=> \/ \E q \in Queues : f \in ToSet(txq[q])
                              \/ \E a \in Categories : f \in ToSet(cache[a])
         /\ f \in Waiting' <=> \/ \E q \in Queues : f \in ToSet(txq'[q])
                               \/ \E a \in Categories : f \in ToSet(cache'[a])
<1> DEFINE A == UNION {ToSet(txq[q]) : q \in Queues}
           B == UNION {ToSet(cache[a]) : a \in Categories}
<1>1. f \in A <=> \E q \in Queues : f \in ToSet(txq[q])
  OBVIOUS
<1>2. f \in B <=> \E a \in Categories : f \in ToSet(cache[a])
  OBVIOUS
<1>3. f \in A' <=> \E q \in Queues : f \in ToSet(txq'[q])
  BY DEF ToSet
<1>4. f \in B' <=> \E a \in Categories : f \in ToSet(cache'[a])
  BY DEF ToSet
<1>5. Waiting = A \cup B
  BY DEF Waiting
<1>6. Waiting' = A' \cup B'
  BY DEF Waiting
<1> HIDE DEF A, B
<1> QED BY <1>1, <1>2, <1>3, <1>4, <1>5, <1>6

\* The frames of a splice: those of the list, the acks kept, those of the queue.
LEMMA SplicedSet ==
  ASSUME TypeOK, OrderInv, NEW a \in Categories, ~link.deauth
  PROVE  /\ ToSet(Spliced(a)) = ToSet(cache[a]) \cup ToSet(SpliceAcks(a)) \cup ToSet(txq[a])
         /\ \A f \in ToSet(SpliceAcks(a)) :
              a = Be /\ f \in ToSet(txq[Ack]) /\ f.q = Ack /\ f.id < sent
         /\ Sorted(Spliced(a))
<1> DEFINE c == cache[a]  k == SpliceAcks(a)  t == txq[a]
<1>1. /\ c \in Seq(Frame) /\ k \in Seq(Frame) /\ t \in Seq(Frame) /\ c \o k \in Seq(Frame)
      /\ txq[Ack] \in Seq(Frame) /\ Spliced(a) = (c \o k) \o t
  BY SplicedType
<1>2. \A f \in ToSet(k) :
        a = Be /\ f \in ToSet(txq[Ack]) /\ f.q = Ack /\ f.id < sent
  <2>1. \A f \in ToSet(txq[Ack]) : f.q = Ack /\ f.id < sent
    BY AcsType DEF OrderInv, QueueOrder
  <2>2. CASE a = Be
    <3>1. k = skw_merge_pure_ack(txq[Ack], <<>>)
      BY <2>2 DEF SpliceAcks
    <3>2. ToSet(k) \subseteq ToSet(txq[Ack])
      BY <3>1, <1>1, MergeKeeps
    <3> QED BY <2>1, <2>2, <3>2
  <2>3. CASE a # Be
    BY <2>3, EmptyToSet DEF SpliceAcks
  <2> QED BY <2>2, <2>3
<1>3. CacheOrder(a) /\ QueueOrder(a)
  BY AcsType DEF OrderInv
<1>4. Sorted(k)
  <2>1. \A i \in DOMAIN k : k[i] \in ToSet(k)
    BY DEF ToSet
  <2> HIDE DEF k
  <2> QED BY <2>1, <1>2 DEF Sorted
<1>5. Before(c, k)
  <2> HIDE DEF k
  <2> QED BY <1>2 DEF Before
<1>6. Sorted(c) /\ Sorted(t) /\ Before(c, t)
  BY <1>3 DEF CacheOrder, QueueOrder, Sorted
<1> HIDE DEF c, k, t
<1>7. Sorted(c \o k)
  BY <1>1, <1>4, <1>5, <1>6, SortedConcat
<1>8. ToSet(c \o k) = ToSet(c) \cup ToSet(k)
  BY <1>1, ConcatToSet
<1>9. Before(c \o k, t)
  BY <1>8, <1>2, <1>6 DEF Before
<1>10. Sorted((c \o k) \o t)
  BY <1>1, <1>6, <1>7, <1>9, SortedConcat
<1>11. ToSet((c \o k) \o t) = ToSet(c) \cup ToSet(k) \cup ToSet(t)
  <2> DEFINE d == c \o k
  <2> HIDE DEF d
  <2>1. d \in Seq(Frame) /\ ToSet(d) = ToSet(c) \cup ToSet(k)
    BY <1>1, <1>8 DEF d
  <2>2. ToSet(d \o t) = ToSet(d) \cup ToSet(t)
    BY <2>1, <1>1, ConcatToSet
  <2> QED BY <2>1, <2>2 DEF d
<1> QED BY <1>1, <1>2, <1>10, <1>11 DEF c, k, t

LEMMA SpliceLists ==
  ASSUME TypeOK, Splice
  PROVE  LET a == Acs[worker.ac] IN
         /\ a \in Categories
         /\ cache'[a] = Spliced(a) /\ txq'[a] = <<>>
         /\ \A b \in Categories : b # a => cache'[b] = cache[b] /\ txq'[b] = txq[b]
         /\ \A q \in Queues :
              txq'[q] = IF NetQueue(q) = a THEN <<>> ELSE txq[q]
<1> DEFINE a == Acs[worker.ac]
<1>1. /\ a \in Categories
      /\ txq' = [q \in Queues |-> IF NetQueue(q) = a THEN <<>> ELSE txq[q]]
      /\ cache' = [cache EXCEPT ![a] = Spliced(a)]
  BY SpliceFacts
<1> HIDE DEF a
<1>2. cache \in [Categories -> Seq(Frame)]
  BY DEF TypeOK
<1>3. \A b \in Categories : b # a => cache'[b] = cache[b] /\ txq'[b] = txq[b]
  BY <1>1, <1>2, CategoryIsQueue
<1>4. cache'[a] = Spliced(a) /\ txq'[a] = <<>>
  BY <1>1, <1>2, CategoryIsQueue
<1>5. \A q \in Queues :
        txq'[q] = IF NetQueue(q) = a THEN <<>> ELSE txq[q]
  BY <1>1
<1> QED BY <1>1, <1>3, <1>4, <1>5 DEF a

LEMMA SpliceOrdered == ASSUME TypeOK, OrderInv, Splice PROVE OrderInv'
<1> DEFINE a == Acs[worker.ac]
<1>1. /\ a \in Categories
      /\ cache'[a] = Spliced(a) /\ txq'[a] = <<>>
      /\ \A b \in Categories : b # a => cache'[b] = cache[b] /\ txq'[b] = txq[b]
      /\ \A q \in Queues :
           txq'[q] = IF NetQueue(q) = a THEN <<>> ELSE txq[q]
  BY SpliceLists
<1> HIDE DEF a
<1>2. sent' = sent
  BY DEF Splice
<1>3. ASSUME NEW q \in Queues PROVE QueueOrder(q)'
  <2>1. QueueOrder(q)
    BY DEF OrderInv
  <2>2. CASE txq'[q] = <<>>
    BY <2>2, EmptyToSet DEF QueueOrder
  <2>3. CASE txq'[q] = txq[q]
    BY <2>1, <2>3, <1>2 DEF QueueOrder
  <2> QED BY <1>1, <2>2, <2>3
<1>4. ASSUME NEW b \in Categories PROVE CacheOrder(b)'
  <2>1. CacheOrder(b) /\ QueueOrder(b)
    BY AcsType DEF OrderInv
  <2>2. CASE b # a
    BY <2>1, <2>2, <1>1, <1>2 DEF CacheOrder
  <2>3. CASE b = a
    <3>1. Before(Spliced(a), <<>>)
      BY EmptyToSet DEF Before
    <3>2. CASE link.deauth
      <4>1. Spliced(a) = <<>>
        BY <3>2 DEF Spliced
      <4>2. Sorted(<<>>)
        BY DEF Sorted
      <4> QED BY <2>3, <3>1, <4>1, <4>2, <1>1, EmptyToSet DEF CacheOrder
    <3>3. CASE ~link.deauth
      <4>1. /\ ToSet(Spliced(a)) = ToSet(cache[a]) \cup ToSet(SpliceAcks(a)) \cup ToSet(txq[a])
            /\ \A f \in ToSet(SpliceAcks(a)) :
                 a = Be /\ f \in ToSet(txq[Ack]) /\ f.q = Ack /\ f.id < sent
            /\ Sorted(Spliced(a))
        BY <1>1, <3>3, SplicedSet
      <4>2. \A f \in ToSet(Spliced(a)) : NetQueue(f.q) = a /\ f.id < sent
        BY <4>1, <2>1, <2>3, CategoryIsQueue DEF CacheOrder, QueueOrder
      <4> QED BY <4>1, <4>2, <3>1, <2>3, <1>1, <1>2 DEF CacheOrder
    <3> QED BY <3>2, <3>3
  <2> QED BY <2>2, <2>3
<1> QED BY <1>3, <1>4 DEF OrderInv

\* A splice drops only acks that another ack makes superfluous.
LEMMA SpliceLeaves ==
  ASSUME TypeOK, OrderInv, Splice PROVE LeavesForAReason /\ OldestFirst
<1> DEFINE a == Acs[worker.ac]
<1>1. /\ a \in Categories
      /\ cache'[a] = Spliced(a) /\ txq'[a] = <<>>
      /\ \A b \in Categories : b # a => cache'[b] = cache[b] /\ txq'[b] = txq[b]
      /\ \A q \in Queues :
           txq'[q] = IF NetQueue(q) = a THEN <<>> ELSE txq[q]
  BY SpliceLists
<1> HIDE DEF a
<1>2. OldestFirst
  BY DEF OldestFirst, Splice
<1>3. ASSUME NEW f \in Gone, ~link.deauth PROVE Superfluous(f)
  <2>1. f \in Waiting /\ f \notin Waiting'
    BY DEF Gone
  <2>2. /\ ToSet(Spliced(a)) = ToSet(cache[a]) \cup ToSet(SpliceAcks(a)) \cup ToSet(txq[a])
        /\ \A g \in ToSet(SpliceAcks(a)) :
             a = Be /\ g \in ToSet(txq[Ack]) /\ g.q = Ack /\ g.id < sent
    BY <1>1, <1>3, SplicedSet
  <2>3. \A g \in ToSet(Spliced(a)) : g \in Waiting'
    BY <1>1, WaitingIn
  <2>4. \A b \in Categories : f \notin ToSet(cache[b])
    <3>1. SUFFICES ASSUME NEW b \in Categories, f \in ToSet(cache[b]) PROVE FALSE
      OBVIOUS
    <3>2. CASE b = a
      BY <3>1, <3>2, <2>1, <2>2, <2>3
    <3>3. CASE b # a
      BY <3>1, <3>3, <1>1, <2>1, WaitingIn
    <3> QED BY <3>2, <3>3
  <2>5. PICK q \in Queues : f \in ToSet(txq[q])
    BY <2>1, <2>4, WaitingIn
  <2>6. NetQueue(q) = a
    BY <1>1, <2>1, <2>5, WaitingIn
  <2>7. q # a
    BY <2>1, <2>2, <2>3, <2>5
  <2>8. q = Ack /\ a = Be
    BY <2>6, <2>7 DEF NetQueue
  <2> DEFINE s == txq[Ack]  out == SpliceAcks(a)
  <2>9. s \in Seq(Frame) /\ f \in ToSet(s) /\ QueueOrder(Ack)
    BY <2>5, <2>8, AcsType DEF TypeOK, OrderInv
  <2>10. f \notin ToSet(out)
    BY <2>1, <2>2, <2>3
  <2>11. out = skw_merge_pure_ack(s, <<>>)
    BY <2>8 DEF SpliceAcks
  <2>12. /\ s # <<>> => Last(s) \in ToSet(out)
         /\ f.plain /\ \E e \in ToSet(out) : e.stream = f.stream
    <3> HIDE DEF s, out
    <3> QED BY <2>9, <2>10, <2>11, MergeKeeps
  <2>13. \A e \in ToSet(out) : e \in Waiting' /\ e.q = Ack
    BY <2>2, <2>3
  <2>14. f.q = Ack
    BY <2>9 DEF QueueOrder
  <2>15. CASE \E h \in ToSet(s) : h.stream # f.stream
    <3> HIDE DEF out
    <3> QED BY <2>12, <2>13, <2>14, <2>15 DEF Superfluous
  <2>16. CASE \A h \in ToSet(s) : h.stream = f.stream
    <3>1. Len(s) \in Nat /\ DOMAIN s = 1 .. Len(s)
      BY <2>9, LenProperties
    <3>2. PICK i \in DOMAIN s : f = s[i]
      BY <2>9 DEF ToSet
    <3>3. s # <<>>
      BY <2>9, EmptyToSet
    <3>4. Last(s) \in ToSet(out) /\ Last(s) = s[Len(s)]
      BY <3>3, <2>12 DEF Last
    <3>5. i # Len(s)
      BY <3>2, <3>4, <2>10
    <3>6. Len(s) \in DOMAIN s /\ i < Len(s)
      BY <3>1, <3>5
    <3>7. f.id < Last(s).id
      BY <3>2, <3>4, <3>6, <2>9 DEF QueueOrder
    <3>8. Last(s) \in ToSet(s)
      BY <3>4, <3>6 DEF ToSet
    <3>9. Last(s).stream = f.stream /\ Last(s) \in Waiting' /\ Last(s).q = Ack
      BY <2>13, <2>16, <3>4, <3>8
    <3>10. Last(s).id > f.id
      BY <3>7
    <3> HIDE DEF s, out
    <3> QED BY <2>12, <2>14, <3>9, <3>10 DEF Superfluous
  <2> QED BY <2>15, <2>16
<1> QED BY <1>2, <1>3 DEF LeavesForAReason

\* What a pick takes: n frames from the front of one list.
LEMMA PickLists ==
  ASSUME TypeOK, Pick, credit # 0
  PROVE  LET a == Acs[worker.ac]
             s == cache[a]
         IN /\ a \in Categories /\ s \in Seq(Frame)
            /\ \E n \in 1 .. Len(s) :
                 /\ worker'.list = Take(s, n)
                 /\ cache'[a] = SubSeq(s, n + 1, Len(s))
                 /\ \A b \in Categories : b # a => cache'[b] = cache[b]
<1> DEFINE a == Acs[worker.ac]  s == cache[a]
<1>1. /\ a \in Categories /\ s \in Seq(Frame)
      /\ \E n \in 1 .. Len(s) :
                 /\ worker' = [worker EXCEPT !.pc = "send", !.pending = @ - n,
                                 !.cred = credit - n, !.list = Take(s, n)]
                 /\ cache' = [cache EXCEPT ![a] = SubSeq(s, n + 1, Len(s))]
  BY PickFacts
<1>2. PICK n \in 1 .. Len(s) :
                 /\ worker' = [worker EXCEPT !.pc = "send", !.pending = @ - n,
                                 !.cred = credit - n, !.list = Take(s, n)]
                 /\ cache' = [cache EXCEPT ![a] = SubSeq(s, n + 1, Len(s))]
  BY <1>1
<1>3. cache \in [Categories -> Seq(Frame)] /\ "list" \in DOMAIN worker
  BY DEF TypeOK
<1> HIDE DEF a, s
<1>4. worker'.list = Take(s, n)
  BY <1>2, <1>3
<1>5. /\ cache'[a] = SubSeq(s, n + 1, Len(s))
      /\ \A b \in Categories : b # a => cache'[b] = cache[b]
  BY <1>1, <1>2, <1>3
<1> QED BY <1>1, <1>4, <1>5 DEF a, s

\* A pick takes the oldest.
LEMMA PickOrdered ==
  ASSUME TypeOK, OrderInv, Pick
  PROVE  OrderInv' /\ LeavesForAReason /\ OldestFirst
<1>u. txq' = txq /\ sent' = sent
  BY DEF Pick
<1>1. CASE credit = 0
  <2>1. cache' = cache
    BY <1>1 DEF Pick
  <2>2. Gone = {}
    BY <2>1, <1>u, WaitingIn DEF Gone
  <2> QED BY <2>1, <2>2, <1>u, QuietOrder DEF LeavesForAReason, OldestFirst
<1>2. CASE credit # 0
  <2> DEFINE a == Acs[worker.ac]  s == cache[a]
  <2>1. /\ a \in Categories /\ s \in Seq(Frame)
        /\ \E n \in 1 .. Len(s) :
             /\ worker'.list = Take(s, n)
             /\ cache'[a] = SubSeq(s, n + 1, Len(s))
             /\ \A b \in Categories : b # a => cache'[b] = cache[b]
    BY <1>2, PickLists
  <2>2. PICK n \in 1 .. Len(s) :
             /\ worker'.list = Take(s, n)
             /\ cache'[a] = SubSeq(s, n + 1, Len(s))
             /\ \A b \in Categories : b # a => cache'[b] = cache[b]
    BY <2>1
  <2> DEFINE rest == SubSeq(s, n + 1, Len(s))
  <2>3. CacheOrder(a) /\ cache[a] = s
    BY <2>1 DEF OrderInv
  <2> HIDE DEF a, s
  <2>4. /\ rest \in Seq(Frame) /\ Len(rest) = Len(s) - n
        /\ \A i \in 1 .. Len(s) - n : rest[i] = s[n + i]
        /\ \A i \in 1 .. n : s[i] \in ToSet(Take(s, n))
    BY <2>1, TakeType
  <2>5. /\ Len(s) \in Nat /\ DOMAIN s = 1 .. Len(s) /\ n \in Nat \ {0} /\ n <= Len(s)
    BY <2>1, LenProperties
  <2> HIDE DEF rest
  <2>6. DOMAIN rest = 1 .. Len(s) - n
    BY <2>4, LenProperties
  <2>7. ASSUME NEW i \in DOMAIN rest
        PROVE  n + i \in DOMAIN s /\ rest[i] = s[n + i] /\ i \in Nat
    BY <2>4, <2>5, <2>6
  <2>8. ToSet(rest) \subseteq ToSet(s)
    BY <2>7 DEF ToSet
  <2>9. Sorted(rest)
    <3>1. SUFFICES ASSUME NEW i \in DOMAIN rest, NEW j \in DOMAIN rest,
                          i < j, rest[i].q = rest[j].q, rest[i].q # Ack
                   PROVE  rest[i].id < rest[j].id
      BY DEF Sorted
    <3>2. n + i < n + j
      BY <3>1, <2>5, <2>7
    <3> QED BY <3>1, <3>2, <2>3, <2>7 DEF CacheOrder, Sorted
  <2>10. OrderInv'
    <3>1. \A q \in Queues : QueueOrder(q)'
      BY <1>u DEF OrderInv, QueueOrder
    <3>2. ASSUME NEW b \in Categories PROVE CacheOrder(b)'
      <4>1. CASE b # a
        <5>1. CacheOrder(b)
          BY DEF OrderInv
        <5> QED BY <4>1, <5>1, <2>2, <1>u DEF CacheOrder
      <4>2. CASE b = a
        <5>1. cache'[a] = rest
          BY <2>2 DEF rest
        <5>2. Before(rest, txq[a])
          BY <2>3, <2>8 DEF CacheOrder, Before
        <5>3. \A f \in ToSet(rest) : NetQueue(f.q) = a /\ f.id < sent
          BY <2>3, <2>8 DEF CacheOrder
        <5> QED BY <4>2, <5>1, <5>2, <5>3, <2>9, <1>u DEF CacheOrder
      <4> QED BY <4>1, <4>2
    <3> QED BY <3>1, <3>2 DEF OrderInv
  <2>11. ASSUME NEW f \in Gone
         PROVE  \E i \in 1 .. n : f = s[i]
    <3>1. f \in Waiting /\ f \notin Waiting'
      BY DEF Gone
    <3>2. \A q \in Queues : f \notin ToSet(txq[q])
      BY <3>1, <1>u, WaitingIn
    <3>3. PICK b \in Categories : f \in ToSet(cache[b])
      BY <3>1, <3>2, WaitingIn
    <3>4. b = a
      BY <3>1, <3>3, <2>2, WaitingIn
    <3>5. PICK i \in DOMAIN s : f = s[i]
      BY <3>3, <3>4, <2>3 DEF ToSet
    <3>6. i <= n
      <4>1. SUFFICES ASSUME ~(i <= n) PROVE FALSE
        OBVIOUS
      <4>2. i - n \in DOMAIN rest /\ n + (i - n) = i
        BY <4>1, <2>5, <2>6
      <4>3. rest[i - n] = f
        BY <4>2, <2>7, <3>5
      <4>4. f \in ToSet(rest) /\ cache'[a] = rest
        BY <4>2, <4>3, <2>2 DEF ToSet, rest
      <4> QED BY <4>4, <2>1, <3>1, WaitingIn
    <3> QED BY <3>5, <3>6, <2>5
  <2>12. LeavesForAReason
    BY <2>2, <2>4, <2>11 DEF LeavesForAReason
  <2>13. ASSUME NEW f \in Gone, NEW g \in Waiting', f.q = g.q, f.q # Ack
         PROVE  f.id < g.id
    <3>1. PICK i \in 1 .. n : f = s[i]
      BY <2>11, <2>13
    <3>2. i \in DOMAIN s /\ f \in ToSet(s) /\ NetQueue(f.q) = a
      <4>1. i \in DOMAIN s
        BY <3>1, <2>5
      <4> QED BY <4>1, <3>1, <2>3 DEF ToSet, CacheOrder
    <3>3. CASE \E q \in Queues : g \in ToSet(txq'[q])
      <4>1. PICK q \in Queues : g \in ToSet(txq[q])
        BY <3>3, <1>u
      <4>2. g.q = q
        BY <4>1 DEF OrderInv, QueueOrder
      <4>3. q = a
        BY <4>2, <2>13, <3>2 DEF NetQueue
      <4> QED BY <4>1, <4>3, <3>2, <2>3, <2>13 DEF CacheOrder, Before
    <3>4. CASE \E b \in Categories : g \in ToSet(cache'[b])
      <4>1. PICK b \in Categories : g \in ToSet(cache'[b])
        BY <3>4
      <4>2. CacheOrder(b)'
        BY <2>10 DEF OrderInv
      <4>3. b = a
        BY <4>1, <4>2, <3>2, <2>13 DEF CacheOrder
      <4>4. g \in ToSet(rest)
        BY <4>1, <4>3, <2>2 DEF rest
      <4>5. PICK j \in DOMAIN rest : g = rest[j]
        BY <4>4 DEF ToSet
      <4>6. n + j \in DOMAIN s /\ g = s[n + j] /\ i < n + j
        <5>1. DOMAIN rest \subseteq Nat \ {0}
          BY <2>5, <2>6
        <5> QED BY <4>5, <5>1, <2>5, <2>7, <3>1
      <4> QED BY <4>6, <3>1, <3>2, <2>3, <2>13 DEF CacheOrder, Sorted
    <3> QED BY <3>3, <3>4, <2>13, WaitingIn
  <2>14. OldestFirst
    BY <2>13 DEF OldestFirst
  <2> QED BY <2>10, <2>12, <2>14
<1> QED BY <1>1, <1>2

\* Every step keeps the order, and lets frames leave only in it.
LEMMA QuietLeaves ==
  ASSUME OrderInv, UNCHANGED <<txq, cache, sent>>
  PROVE  OrderInv' /\ LeavesForAReason /\ OldestFirst
<1>1. Gone = {}
  BY WaitingIn DEF Gone
<1> QED BY <1>1, QuietOrder DEF LeavesForAReason, OldestFirst

LEMMA OrderStep ==
  ASSUME TypeOK, CreditInv, OrderInv, Next
  PROVE  OrderInv' /\ LeavesForAReason /\ OldestFirst
<1>1. ASSUME NEW k \in Kinds, Queue(k)
      PROVE  OrderInv' /\ LeavesForAReason /\ OldestFirst
  <2> DEFINE f == [q |-> k.q, stream |-> k.stream, plain |-> k.plain, id |-> sent]
  <2>k. k.q \in Queues /\ k.stream \in STRING /\ k.plain \in BOOLEAN /\ sent \in Nat
    BY QueueAssumption DEF TypeOK
  <2>1. txq' = [txq EXCEPT ![k.q] = Append(@, f)] /\ cache' = cache
    BY <1>1 DEF Queue
  <2>2. txq \in [Queues -> Seq(Frame)] /\ f \in Frame
    BY <2>k DEF TypeOK, Frame
  <2> HIDE DEF f
  <2>3. ASSUME NEW q \in Queues PROVE ToSet(txq[q]) \subseteq ToSet(txq'[q])
    <3>1. CASE q # k.q
      BY <3>1, <2>1, <2>2
    <3>2. CASE q = k.q
      <4>1. txq'[q] = Append(txq[q], f) /\ txq[q] \in Seq(Frame)
        BY <3>2, <2>1, <2>2
      <4> QED BY <4>1, <2>2, AppendToSet
    <3> QED BY <3>1, <3>2
  <2>4. Gone = {}
    BY <2>1, <2>3, WaitingIn DEF Gone
  <2> QED BY <1>1, <2>4, QueueOrdered DEF LeavesForAReason, OldestFirst
<1>2. CASE Splice
  BY <1>2, SpliceOrdered, SpliceLeaves
<1>3. CASE Pick
  BY <1>3, PickOrdered
<1>4. CASE skw_recovery_prepare
  <2>1. fw.state = "ready" /\ worker.pc # "pick" /\ sent' = sent
    BY <1>4 DEF skw_recovery_prepare, CreditInv, DeadIsQuiet
  <2>2. LeavesForAReason /\ OldestFirst
    BY <2>1 DEF LeavesForAReason, OldestFirst
  <2>3. CASE again
    BY <1>4, <2>1, <2>2, <2>3, QuietOrder DEF skw_recovery_prepare
  <2>4. CASE ~again
    <3>1. txq' = [q \in Queues |-> <<>>] /\ cache' = [a \in Categories |-> <<>>]
      BY <1>4, <2>4 DEF skw_recovery_prepare
    <3>2. \A q \in Queues : txq'[q] = <<>>
      BY <3>1
    <3>3. \A a \in Categories : cache'[a] = <<>>
      BY <3>1
    <3>4. \A a \in Categories : txq'[a] = <<>>
      BY <3>2, AcsType
    <3>5. OrderInv'
      BY <3>2, <3>3, <3>4, EmptyToSet DEF OrderInv, QueueOrder, CacheOrder, Sorted, Before
    <3> QED BY <3>5, <2>2
  <2> QED BY <2>3, <2>4
<1>5. CASE UNCHANGED <<txq, cache, sent>>
  BY <1>5, QuietLeaves
<1>6. ASSUME Xmit PROVE UNCHANGED <<txq, cache, sent>>
  BY <1>6 DEF Xmit, MeasureQueue, StopIfLong
<1>7. ASSUME Start \/ Top \/ Send \/ Sub \/ Check PROVE UNCHANGED <<txq, cache, sent>>
  BY <1>7 DEF Start, Top, Send, Sub, Check, tx
<1>8. ASSUME skw_unjoin \/ unjoined \/ skw_join \/ skw_suspend \/ skw_resume
      PROVE  UNCHANGED <<txq, cache, sent>>
  BY <1>8 DEF skw_unjoin, unjoined, skw_join, skw_suspend, skw_resume, Unblock, tx
<1>9. ASSUME Firmware PROVE UNCHANGED <<txq, cache, sent>>
  BY <1>9 DEF Firmware, Report, skw_add_credit, skw_event_thermal_warn, Unblock,
       skw_bsp_notifier, FwReady, tx
<1>10. ASSUME recovery_enable \/ skw_cmd_open_dev PROVE UNCHANGED <<txq, cache, sent>>
  BY <1>10 DEF recovery_enable, skw_cmd_open_dev, tx
<1> QED BY <1>1, <1>2, <1>3, <1>4, <1>5, <1>6, <1>7, <1>8, <1>9, <1>10
        DEF Next, Worker, User, Recovery

\* A frame leaves only into a transfer, in a purge, or as an ack another one
\* makes superfluous, and before all younger ones of its queue (FramesInOrder).
THEOREM FramesLeaveInOrder == Spec => FramesInOrder
<1>1. ASSUME TypeOK, CreditInv, OrderInv, [Next]_vars
      PROVE  OrderInv' /\ [LeavesForAReason /\ OldestFirst]_vars
  <2>1. CASE UNCHANGED vars
    BY <1>1, <2>1, QuietOrder DEF vars, tx
  <2>2. CASE Next
    BY <1>1, <2>2, OrderStep
  <2> QED BY <1>1, <2>1, <2>2
<1> QED BY <1>1, InitOrder, Invariance, TypeCorrect, PTL DEF Spec, FramesInOrder
===============================================================================
