----------------------------- MODULE UnpProofs ------------------------------
(***************************************************************************)
(* Proofs about three small programs of UNIX Network Programming: Rtt,     *)
(* for every range of the timers and number of calls; ProdCons, for every  *)
(* buffer size and number of items; and SemOpen, for every number of       *)
(* processes, files, polling rounds and waits.                             *)
(***************************************************************************)
EXTENDS Rtt, ProdCons, SemOpen, TLAPS

(***************************************************************************)
(* Rtt.  A datagram with the current sequence number carries the current   *)
(* request, because sequence numbers only grow and a request keeps its     *)
(* data and its rtt_base from the first transmission to the last.          *)
(***************************************************************************)

\* Every datagram under way belongs to a request that was made, and the ones of
\* the present request are copies of it.
NetOK ==
    \A m \in toServer \cup toClient :
       m.seq <= seq /\ (m.seq = seq => m.data = outbuff /\ m.base = base)

\* rtt_timeout is called at most once more than a request may be retransmitted;
\* between requests, the timeout is one that rtt_minmax has seen.
RtoOK ==
    /\ state # "idle" => nrexmt <= MAXNREXMT /\ rttinit
    /\ state = "idle" /\ rttinit => RXTMIN <= rto

\* RttTypeOK in two parts, the flags apart.
FlagsOK == rttinit \in BOOLEAN /\ timer \in BOOLEAN

DataOK ==
    /\ state \in {"idle", "send", "recv", "got"}
    /\ seq \in 0 .. MaxSeq /\ outbuff \in Data
    /\ base \in Nat /\ rto \in Nat /\ nrexmt \in 0 .. MAXNREXMT + 1
    /\ toServer \subseteq Datagram /\ toClient \subseteq Datagram
    /\ result \in {"none", "answer", "ETIMEDOUT"}

\* A request that is under way has a number.
SeqOK == state # "idle" => seq >= 1

RttIInv ==
    FlagsOK /\ DataOK /\ SeqOK /\ NetOK /\ RtoOK /\ TimerRuns /\ AnswersRequest

LEMMA TypeParts == RttTypeOK <=> FlagsOK /\ DataOK
BY Zenon DEF RttTypeOK, FlagsOK, DataOK

LEMMA MinmaxOK ==
    ASSUME NEW x \in Nat
    PROVE  rtt_minmax(x) \in Nat /\ RXTMIN <= rtt_minmax(x)
BY RttAssumption DEF rtt_minmax

LEMMA InitRttIInv == RttInit => RttIInv
<1> SUFFICES ASSUME RttInit PROVE RttIInv
    OBVIOUS
<1>1. FlagsOK
    BY Zenon DEF RttInit, FlagsOK
<1>2. DataOK
    BY RttAssumption DEF RttInit, DataOK
<1>3. NetOK
    BY DEF RttInit, NetOK
<1>4. SeqOK /\ RtoOK /\ TimerRuns /\ AnswersRequest
    BY Zenon DEF RttInit, SeqOK, RtoOK, TimerRuns, AnswersRequest
<1> QED BY <1>1, <1>2, <1>3, <1>4 DEF RttIInv

LEMMA CallIInv == RttIInv /\ Call => RttIInv'
<1> SUFFICES ASSUME RttIInv, Call PROVE RttIInv'
    OBVIOUS
<1>1. rtt_minmax(3) \in Nat /\ RXTMIN <= rtt_minmax(3)
    BY MinmaxOK
<1>2. FlagsOK'
    BY Zenon DEF RttIInv, FlagsOK, Call, net
<1>3. DataOK'
    BY <1>1, RttAssumption DEF RttIInv, DataOK, Call, net
<1>4. NetOK'
    <2> SUFFICES ASSUME NEW m \in toServer \cup toClient
                 PROVE  m.seq <= seq + 1 /\ m.seq # seq + 1
        BY DEF Call, net, NetOK
    <2>1. m.seq \in Int /\ m.seq <= seq /\ seq \in Int
        BY RttAssumption DEF RttIInv, DataOK, NetOK, Datagram
    <2> QED BY <2>1
<1>5. rttinit' = TRUE
    BY Zenon DEF RttIInv, FlagsOK, Call
<1>6. RXTMIN <= rto'
    BY <1>1, Zenon DEF RttIInv, RtoOK, Call
<1>7. state' = "send" /\ result' = "none" /\ nrexmt' = 0 /\ seq' = seq + 1
    BY Zenon DEF Call
<1>8. SeqOK' /\ nrexmt' <= MAXNREXMT
    BY <1>7, RttAssumption DEF RttIInv, DataOK, SeqOK
<1>9. RtoOK' /\ TimerRuns' /\ AnswersRequest'
    BY <1>5, <1>6, <1>7, <1>8, Zenon DEF RtoOK, TimerRuns, AnswersRequest
<1> QED BY <1>2, <1>3, <1>4, <1>8, <1>9 DEF RttIInv

LEMMA SendIInv == RttIInv /\ Send => RttIInv'
<1> SUFFICES ASSUME RttIInv, Send PROVE RttIInv'
    OBVIOUS
<1>1. rto > 0
    BY RttAssumption DEF RttIInv, DataOK, TimerRuns, Send
<1>2. timer' = TRUE
    BY <1>1, Zenon DEF Send
<1>3. FlagsOK'
    BY <1>2, Zenon DEF RttIInv, FlagsOK, Send
<1>4. DataOK' /\ SeqOK'
    BY RttAssumption DEF RttIInv, DataOK, SeqOK, Send, Datagram
<1>5. NetOK'
    BY RttAssumption DEF RttIInv, DataOK, NetOK, Send
<1>6. RtoOK' /\ TimerRuns' /\ AnswersRequest'
    BY <1>2, Zenon DEF RttIInv, RtoOK, TimerRuns, AnswersRequest, Send
<1> QED BY <1>3, <1>4, <1>5, <1>6 DEF RttIInv

LEMMA RecvIInv == RttIInv /\ Recv => RttIInv'
<1> SUFFICES ASSUME RttIInv, Recv PROVE RttIInv'
    OBVIOUS
<1>1. PICK m \in toClient :
         /\ toClient' \in {toClient, toClient \ {m}}
         /\ recvd' = m
         /\ state' = IF m.seq = seq THEN "got" ELSE "recv"
    BY DEF Recv
<1>2. FlagsOK'
    BY Zenon DEF RttIInv, FlagsOK, Recv
<1>3. DataOK' /\ SeqOK' /\ NetOK'
    BY <1>1 DEF RttIInv, DataOK, SeqOK, NetOK, Recv
<1>4. RtoOK' /\ TimerRuns'
    BY <1>1, Zenon DEF RttIInv, RtoOK, TimerRuns, Recv
<1>5. AnswersRequest'
    BY <1>1 DEF RttIInv, NetOK, AnswersRequest, Recv
<1> QED BY <1>2, <1>3, <1>4, <1>5 DEF RttIInv

LEMMA StopIInv == RttIInv /\ Stop => RttIInv'
<1> SUFFICES ASSUME RttIInv, Stop PROVE RttIInv'
    OBVIOUS
<1>1. rto' \in Nat /\ RXTMIN <= rto'
    BY MinmaxOK, RttAssumption DEF Stop
<1>2. FlagsOK'
    BY Zenon DEF RttIInv, FlagsOK, Stop
<1>3. DataOK' /\ SeqOK' /\ NetOK'
    BY <1>1 DEF RttIInv, DataOK, SeqOK, NetOK, Stop, net
<1>4. RtoOK' /\ TimerRuns' /\ AnswersRequest'
    BY <1>1, Zenon DEF RttIInv, RtoOK, TimerRuns, AnswersRequest, Stop, net
<1> QED BY <1>2, <1>3, <1>4 DEF RttIInv

LEMMA AlarmIInv == RttIInv /\ Alarm => RttIInv'
<1> SUFFICES ASSUME RttIInv, Alarm PROVE RttIInv'
    OBVIOUS
<1>1. FlagsOK'
    BY Zenon DEF RttIInv, FlagsOK, Alarm
<1>2. DataOK' /\ SeqOK' /\ NetOK'
    BY RttAssumption DEF RttIInv, DataOK, SeqOK, NetOK, RtoOK, Alarm, net
<1>3. RXTMIN <= rto'
    BY RttAssumption DEF RttIInv, DataOK, TimerRuns, Alarm
<1>4. state' # "idle" => nrexmt' <= MAXNREXMT /\ rttinit'
    <2>1. state # "idle"
        BY DEF Alarm
    <2>2. rttinit
        BY <2>1, Zenon DEF RttIInv, RtoOK
    <2>3. state' = "idle" \/ (nrexmt' <= MAXNREXMT /\ rttinit' = rttinit)
        BY Zenon DEF Alarm
    <2> QED BY <2>2, <2>3, Zenon
<1>5. RtoOK' /\ TimerRuns' /\ AnswersRequest'
    BY <1>3, <1>4, Zenon DEF RtoOK, TimerRuns, AnswersRequest, Alarm
<1> QED BY <1>1, <1>2, <1>5 DEF RttIInv

LEMMA NetworkIInv == RttIInv /\ (Echo \/ Lose) => RttIInv'
<1> SUFFICES ASSUME RttIInv, Echo \/ Lose PROVE RttIInv'
    OBVIOUS
<1>1. UNCHANGED <<state, seq, outbuff, recvd, rttinit, base, rto, nrexmt, timer, result>>
    BY Zenon DEF Echo, Lose
<1>2. toServer' \subseteq toServer /\ toClient' \subseteq toServer \cup toClient
    BY DEF Echo, Lose
<1>3. FlagsOK' /\ SeqOK' /\ RtoOK' /\ TimerRuns' /\ AnswersRequest'
    BY <1>1, Zenon DEF RttIInv, FlagsOK, SeqOK, RtoOK, TimerRuns, AnswersRequest
<1>4. DataOK' /\ NetOK'
    BY <1>1, <1>2 DEF RttIInv, DataOK, NetOK
<1> QED BY <1>3, <1>4 DEF RttIInv

\* The inductive invariant holds throughout: what dg_send_recv relies on when it
\* compares sequence numbers alone.
THEOREM RttInvariance == RttSpec => []RttIInv
<1>1. RttIInv /\ UNCHANGED rttVars => RttIInv'
    <2> SUFFICES ASSUME RttIInv, UNCHANGED rttVars PROVE RttIInv'
        OBVIOUS
    <2>1. /\ UNCHANGED <<state, seq, outbuff, recvd, rttinit, base, rto, nrexmt, timer, result>>
          /\ UNCHANGED <<toServer, toClient>>
        BY DEF rttVars, net
    <2>2. FlagsOK' /\ SeqOK' /\ RtoOK' /\ TimerRuns' /\ AnswersRequest'
        BY <2>1, Zenon DEF RttIInv, FlagsOK, SeqOK, RtoOK, TimerRuns, AnswersRequest
    <2>3. DataOK' /\ NetOK'
        BY <2>1 DEF RttIInv, DataOK, NetOK
    <2> QED BY <2>2, <2>3 DEF RttIInv
<1>2. RttIInv /\ [RttNext]_rttVars => RttIInv'
    BY <1>1, CallIInv, SendIInv, RecvIInv, StopIInv, AlarmIInv, NetworkIInv DEF RttNext
<1> QED BY <1>2, InitRttIInv, PTL DEF RttSpec

\* The state of dg_send_recv stays well typed, nrexmt within MAXNREXMT + 1.
THEOREM RttTypeCorrect == RttSpec => []RttTypeOK
<1>1. RttIInv => RttTypeOK
    BY TypeParts DEF RttIInv
<1> QED BY <1>1, RttInvariance, PTL

\* dg_send_recv returns the answer to its own request, whatever was lost,
\* repeated, delayed or reordered.
THEOREM AnswersRequestHolds == RttSpec => []AnswersRequest
<1>1. RttIInv => AnswersRequest
    BY DEF RttIInv
<1> QED BY <1>1, RttInvariance, PTL

\* dg_send_recv never blocks in Recvmsg without a timer.
THEOREM TimerRunsHolds == RttSpec => []TimerRuns
<1>1. RttIInv => TimerRuns
    BY DEF RttIInv
<1> QED BY <1>1, RttInvariance, PTL

-----------------------------------------------------------------------------

(***************************************************************************)
(* ProdCons: the counts of the semaphores account for the items, so an     *)
(* item stays in its slot until it is consumed.                            *)
(***************************************************************************)

\* Division with remainder.
LEMMA Division ==
  ASSUME NEW n \in Nat \ {0}, NEW a \in Nat
  PROVE  \E q \in Int : a = n * q + (a % n)
<1>1. a \div n \in Int
  OBVIOUS
<1>2. a = n * (a \div n) + (a % n)
  OBVIOUS
<1> QED
  BY <1>1, <1>2

LEMMA ModDistinct ==
  ASSUME NEW a \in Nat, NEW b \in Nat, a < b, b < a + NBuff
  PROVE  a % NBuff # b % NBuff
<1>1. NBuff \in Nat \ {0}
  BY ProdConsAssumption
<1>2. PICK q \in Int : a = NBuff * q + (a % NBuff)
  BY Zenon, <1>1, Division
<1>3. PICK r \in Int : b = NBuff * r + (b % NBuff)
  BY Zenon, <1>1, Division
<1>4. SUFFICES ASSUME a % NBuff = b % NBuff PROVE FALSE
  OBVIOUS
<1>5. b - a = NBuff * (r - q)
  BY <1>1, <1>2, <1>3, <1>4
<1>6. r - q > 0
  BY <1>1, <1>5
<1>7. NBuff * (r - q) >= NBuff
  BY <1>1, <1>6
<1> QED
  BY <1>1, <1>5, <1>7

-----------------------------------------------------------------------------

\* The slot a thread has taken and not yet told the other thread about.
Held(t) == IF pc[t] \in {"lock", "use", "unlock", "tell"} THEN 1 ELSE 0

InBuffer(t) == IF pc[t] \in {"use", "unlock"} THEN 1 ELSE 0

Stored == IF pc["produce"] \in {"unlock", "tell"} THEN 1 ELSE 0

SlotsCounted ==
    /\ sem_count["nempty"] =
          NBuff + i["consume"] - i["produce"] - Held("produce")
    /\ sem_count["nstored"] = i["produce"] - i["consume"] - Held("consume")

MutexCounted ==
    sem_count["mutex"] = 1 - InBuffer("produce") - InBuffer("consume")

\* The items between the two loop variables are in their slots.
ItemsStored ==
    \A k \in Nat : i["consume"] <= k /\ k < i["produce"] + Stored =>
       buff[k % NBuff] = k

\* Only produce() waits for nempty and only consume() for nstored.
Callers ==
    /\ Inside("nempty") \subseteq {"produce"}
    /\ Inside("nstored") \subseteq {"consume"}

Disjoint == \A s \in Sem : waiting[s] \cap woken[s] = {}

InLoop == \A t \in Thread : pc[t] # "done" => i[t] < NItems

SemInv == SemTypeOK /\ Callers /\ Disjoint /\ WaiterWoken

IInv ==
    /\ TypeOK /\ SemInv /\ InLoop
    /\ SlotsCounted /\ MutexCounted /\ ItemsStored /\ NoMismatch

LEMMA PostSem ==
  ASSUME NEW s \in Sem, SemInv, Post(s)
  PROVE  SemInv' /\ sem_count' = [sem_count EXCEPT ![s] = @ + 1]
<1> USE ProdConsAssumption DEF SemInv, SemTypeOK
<1>1. sem_count' = [sem_count EXCEPT ![s] = @ + 1]
  BY DEF Post
<1>2. CASE UNCHANGED <<waiting, woken>>
  <2>1. SemTypeOK' /\ Callers' /\ Disjoint'
    BY <1>1, <1>2 DEF Callers, Disjoint, Inside
  <2>2. WaiterWoken'
    BY <1>1, <1>2 DEF WaiterWoken, Post, SignalDue, CondSignal
  <2> QED
    BY <1>1, <2>1, <2>2
<1>3. CASE \E t \in waiting[s] :
             /\ waiting' = [waiting EXCEPT ![s] = @ \ {t}]
             /\ woken' = [woken EXCEPT ![s] = @ \cup {t}]
  <2>1. PICK t \in waiting[s] :
             /\ waiting' = [waiting EXCEPT ![s] = @ \ {t}]
             /\ woken' = [woken EXCEPT ![s] = @ \cup {t}]
    BY <1>3
  <2>2. SemTypeOK' /\ Callers' /\ Disjoint'
    BY <1>1, <2>1 DEF Callers, Disjoint, Inside
  <2>3. WaiterWoken'
    BY <1>1, <2>1 DEF WaiterWoken
  <2> QED
    BY <1>1, <2>2, <2>3
<1> QED
  BY <1>2, <1>3 DEF Post, CondSignal

LEMMA TakeSem ==
  ASSUME NEW s \in Sem, NEW t \in Thread, SemInv, sem_count["mutex"] <= 1,
         WaitTakes(t, s) \/ ResumeTakes(t, s)
  PROVE  /\ SemInv' /\ sem_count[s] > 0
         /\ sem_count' = [sem_count EXCEPT ![s] = @ - 1]
<1> USE ProdConsAssumption DEF SemInv, SemTypeOK
<1>1. sem_count[s] > 0 /\ sem_count' = [sem_count EXCEPT ![s] = @ - 1]
  BY DEF WaitTakes, ResumeTakes, Take
<1>2. CASE WaitTakes(t, s)
  BY <1>1, <1>2 DEF WaitTakes, Callers, Disjoint, Inside, WaiterWoken
<1>3. CASE ResumeTakes(t, s)
  <2>1. /\ t \in woken[s] /\ waiting' = waiting
        /\ woken' = [woken EXCEPT ![s] = @ \ {t}]
    BY <1>3 DEF ResumeTakes
  <2>2. SemTypeOK' /\ Callers' /\ Disjoint'
    BY <1>1, <2>1 DEF Callers, Disjoint, Inside
  <2>3. s # "mutex" => waiting[s] = {}
    BY <2>1 DEF Callers, Disjoint, Inside
  <2>4. WaiterWoken'
    BY <1>1, <2>1, <2>3 DEF WaiterWoken
  <2> QED
    BY <1>1, <2>2, <2>4
<1> QED
  BY <1>2, <1>3

LEMMA BlockSem ==
  ASSUME NEW s \in Sem, NEW t \in Thread, SemInv,
         s = "nempty" => t = "produce", s = "nstored" => t = "consume",
         WaitBlocks(t, s) \/ ResumeBlocks(t, s)
  PROVE  SemInv' /\ sem_count' = sem_count
<1> USE ProdConsAssumption DEF SemInv, SemTypeOK
<1>1. sem_count[s] = 0 /\ sem_count' = sem_count
  BY DEF WaitBlocks, ResumeBlocks
<1>2. waiting' = [waiting EXCEPT ![s] = @ \cup {t}]
  BY DEF WaitBlocks, ResumeBlocks
<1>3. woken' = [woken EXCEPT ![s] = @ \ {t}]
  BY DEF WaitBlocks, ResumeBlocks, Free, Inside
<1>4. SemTypeOK' /\ Callers' /\ Disjoint'
  BY <1>1, <1>2, <1>3 DEF Callers, Disjoint, Inside
<1>5. WaiterWoken'
  BY <1>1, <1>2, <1>3 DEF WaiterWoken
<1> QED
  BY <1>1, <1>4, <1>5

LEMMA SpuriousSem ==
  ASSUME NEW s \in Sem, NEW t \in Thread, SemInv, SpuriousWakeup(t, s)
  PROVE  SemInv' /\ sem_count' = sem_count
  BY ProdConsAssumption
     DEF SemInv, SemTypeOK, SpuriousWakeup, Callers, Disjoint, Inside,
         WaiterWoken

-----------------------------------------------------------------------------

LEMMA InitIInv == Init => IInv
<1> SUFFICES ASSUME Init PROVE IInv
  OBVIOUS
<1> USE ProdConsAssumption
<1>1. TypeOK /\ SemTypeOK
  <2>1. SemTypeOK
    BY SemAssumption DEF Init, SemInit, SemTypeOK
  <2>2. pc \in [Thread -> {"slot", "lock", "use", "unlock", "tell", "done"}]
    BY DEF Init, LoopTest
  <2>3. i \in [Thread -> 0..NItems] /\ buff \in [0..(NBuff - 1) -> Nat]
    BY DEF Init
  <2> QED
    BY <2>1, <2>2, <2>3 DEF Init, TypeOK
<1>2. Callers /\ Disjoint /\ WaiterWoken
  BY DEF Init, SemInit, Callers, Disjoint, WaiterWoken, Inside
<1>3. InLoop /\ NoMismatch /\ ItemsStored
  BY DEF Init, LoopTest, InLoop, NoMismatch, ItemsStored, Stored
<1>4. SlotsCounted /\ MutexCounted
  BY DEF Init, SemInit, ThreeSems, LoopTest, SlotsCounted, MutexCounted,
         Held, InBuffer
<1> QED
  BY <1>1, <1>2, <1>3, <1>4 DEF IInv, SemInv

LEMMA MutexBound ==
  ASSUME IInv
  PROVE  sem_count["mutex"] <= 1
  BY DEF IInv, MutexCounted, InBuffer

\* A call that blocks, or is woken, changes nothing but the waiting threads.
LEMMA CountsKept ==
  ASSUME IInv, SemInv', sem_count' = sem_count, UNCHANGED progVars
  PROVE  IInv'
<1>1. SlotsCounted' /\ MutexCounted'
  BY DEF IInv, progVars, SlotsCounted, MutexCounted, Held, InBuffer
<1>2. TypeOK' /\ InLoop' /\ ItemsStored' /\ NoMismatch'
  BY DEF IInv, progVars, SemInv, TypeOK, InLoop, ItemsStored, Stored,
         NoMismatch
<1> QED
  BY <1>1, <1>2 DEF IInv

LEMMA SlotIInv ==
  ASSUME NEW t \in Thread, IInv, Slot(t)
  PROVE  IInv'
<1> DEFINE s == IF t = "produce" THEN "nempty" ELSE "nstored"
<1> USE ProdConsAssumption
<1>1. s \in Sem /\ (s = "nempty" => t = "produce")
                /\ (s = "nstored" => t = "consume")
  OBVIOUS
<1>2. UNCHANGED <<i, buff, mismatch>> /\ pc[t] = "slot" /\ SemInv
  BY DEF Slot, WaitStep, Goto, IInv
<1>3. pc \in [Thread -> {"slot", "lock", "use", "unlock", "tell", "done"}]
  BY DEF IInv, TypeOK
<1>4. CASE (WaitBlocks(t, s) \/ ResumeBlocks(t, s))
             /\ Goto(t, "slot", "slot")
  <2>1. SemInv' /\ sem_count' = sem_count
    BY <1>1, <1>2, <1>4, BlockSem
  <2>2. UNCHANGED progVars
    BY <1>2, <1>3, <1>4 DEF Goto, progVars
  <2> QED
    BY <2>1, <2>2, CountsKept
<1>5. CASE (WaitTakes(t, s) \/ ResumeTakes(t, s))
             /\ Goto(t, "slot", "lock")
  <2>1. SemInv' /\ sem_count' = [sem_count EXCEPT ![s] = @ - 1]
    BY <1>1, <1>2, <1>5, MutexBound, TakeSem
  <2>2. pc' = [pc EXCEPT ![t] = "lock"]
    BY <1>5 DEF Goto
  <2>3. TypeOK'
    BY <1>2, <2>1, <2>2 DEF IInv, TypeOK, SemInv
  <2>4. InLoop' /\ NoMismatch'
    BY <1>2, <1>3, <2>2 DEF IInv, InLoop, NoMismatch
  <2>5. ItemsStored'
    BY <1>2, <1>3, <2>2 DEF IInv, ItemsStored, Stored
  <2>6. SlotsCounted' /\ MutexCounted'
    <3>1. sem_count \in [Sem -> Nat] /\ i \in [Thread -> 0..NItems]
      BY DEF IInv, TypeOK, SemTypeOK
    <3>2. CASE t = "produce"
      <4>1. pc'["produce"] = "lock" /\ pc'["consume"] = pc["consume"]
        BY <1>3, <2>2, <3>2
      <4>2. /\ sem_count'["mutex"] = sem_count["mutex"]
            /\ sem_count'["nempty"] = sem_count["nempty"] - 1
            /\ sem_count'["nstored"] = sem_count["nstored"]
        BY <2>1, <3>1, <3>2
      <4> QED
        BY <1>2, <3>1, <3>2, <4>1, <4>2
           DEF IInv, SlotsCounted, MutexCounted, Held, InBuffer
    <3>3. CASE t = "consume"
      <4>1. pc'["consume"] = "lock" /\ pc'["produce"] = pc["produce"]
        BY <1>3, <2>2, <3>3
      <4>2. /\ sem_count'["mutex"] = sem_count["mutex"]
            /\ sem_count'["nempty"] = sem_count["nempty"]
            /\ sem_count'["nstored"] = sem_count["nstored"] - 1
        BY <2>1, <3>1, <3>3
      <4> QED
        BY <1>2, <3>1, <3>3, <4>1, <4>2
           DEF IInv, SlotsCounted, MutexCounted, Held, InBuffer
    <3> QED
      BY <3>2, <3>3
  <2> QED
    BY <2>1, <2>3, <2>4, <2>5, <2>6 DEF IInv
<1> QED
  BY <1>4, <1>5 DEF Slot, WaitStep

LEMMA LockIInv ==
  ASSUME NEW t \in Thread, IInv, Lock(t)
  PROVE  IInv'
<1> USE ProdConsAssumption
<1>2. UNCHANGED <<i, buff, mismatch>> /\ pc[t] = "lock" /\ SemInv
  BY DEF Lock, WaitStep, Goto, IInv
<1>3. pc \in [Thread -> {"slot", "lock", "use", "unlock", "tell", "done"}]
  BY DEF IInv, TypeOK
<1>4. CASE (WaitBlocks(t, "mutex") \/ ResumeBlocks(t, "mutex"))
             /\ Goto(t, "lock", "lock")
  <2>1. SemInv' /\ sem_count' = sem_count
    BY <1>2, <1>4, BlockSem
  <2>2. UNCHANGED progVars
    BY <1>2, <1>3, <1>4 DEF Goto, progVars
  <2> QED
    BY <2>1, <2>2, CountsKept
<1>5. CASE (WaitTakes(t, "mutex") \/ ResumeTakes(t, "mutex"))
             /\ Goto(t, "lock", "use")
  <2>1. SemInv' /\ sem_count' = [sem_count EXCEPT !["mutex"] = @ - 1]
    BY <1>2, <1>5, MutexBound, TakeSem
  <2>2. pc' = [pc EXCEPT ![t] = "use"]
    BY <1>5 DEF Goto
  <2>3. TypeOK'
    BY <1>2, <2>1, <2>2 DEF IInv, TypeOK, SemInv
  <2>4. InLoop' /\ NoMismatch'
    BY <1>2, <1>3, <2>2 DEF IInv, InLoop, NoMismatch
  <2>5. ItemsStored'
    BY <1>2, <1>3, <2>2 DEF IInv, ItemsStored, Stored
  <2>6. SlotsCounted' /\ MutexCounted'
    <3>1. sem_count \in [Sem -> Nat] /\ i \in [Thread -> 0..NItems]
      BY DEF IInv, TypeOK, SemTypeOK
    <3>2. CASE t = "produce"
      <4>1. pc'["produce"] = "use" /\ pc'["consume"] = pc["consume"]
        BY <1>3, <2>2, <3>2
      <4>2. /\ sem_count'["mutex"] = sem_count["mutex"] - 1
            /\ sem_count'["nempty"] = sem_count["nempty"]
            /\ sem_count'["nstored"] = sem_count["nstored"]
        BY <2>1, <3>1, <3>2
      <4> QED
        BY <1>2, <3>1, <3>2, <4>1, <4>2
           DEF IInv, SlotsCounted, MutexCounted, Held, InBuffer
    <3>3. CASE t = "consume"
      <4>1. pc'["consume"] = "use" /\ pc'["produce"] = pc["produce"]
        BY <1>3, <2>2, <3>3
      <4>2. /\ sem_count'["mutex"] = sem_count["mutex"] - 1
            /\ sem_count'["nempty"] = sem_count["nempty"]
            /\ sem_count'["nstored"] = sem_count["nstored"]
        BY <2>1, <3>1, <3>3
      <4> QED
        BY <1>2, <3>1, <3>3, <4>1, <4>2
           DEF IInv, SlotsCounted, MutexCounted, Held, InBuffer
    <3> QED
      BY <3>2, <3>3
  <2> QED
    BY <2>1, <2>3, <2>4, <2>5, <2>6 DEF IInv
<1> QED
  BY <1>4, <1>5 DEF Lock, WaitStep

LEMMA UnlockIInv ==
  ASSUME NEW t \in Thread, IInv, Unlock(t)
  PROVE  IInv'
<1> USE ProdConsAssumption
<1>1. SemInv' /\ sem_count' = [sem_count EXCEPT !["mutex"] = @ + 1]
  BY PostSem DEF Unlock, IInv
<1>2. pc[t] = "unlock" /\ pc' = [pc EXCEPT ![t] = "tell"]
  BY DEF Unlock, Goto
<1>3. pc \in [Thread -> {"slot", "lock", "use", "unlock", "tell", "done"}]
  BY DEF IInv, TypeOK
<1>4. UNCHANGED <<i, buff, mismatch>>
  BY DEF Unlock
<1>5. TypeOK'
  BY <1>1, <1>2, <1>4 DEF IInv, TypeOK, SemInv
<1>6. InLoop' /\ NoMismatch'
  BY <1>2, <1>3, <1>4 DEF IInv, InLoop, NoMismatch
<1>7. ItemsStored'
  BY <1>2, <1>3, <1>4 DEF IInv, ItemsStored, Stored
<1>8. SlotsCounted' /\ MutexCounted'
  <2>1. sem_count \in [Sem -> Nat] /\ i \in [Thread -> 0..NItems]
    BY DEF IInv, TypeOK, SemTypeOK
  <2>2. CASE t = "produce"
    <3>1. pc'["produce"] = "tell" /\ pc'["consume"] = pc["consume"]
      BY <1>2, <1>3, <2>2
    <3>2. /\ sem_count'["mutex"] = sem_count["mutex"] + 1
          /\ sem_count'["nempty"] = sem_count["nempty"]
          /\ sem_count'["nstored"] = sem_count["nstored"]
      BY <1>1, <2>1, <2>2
    <3> QED
      BY <1>2, <1>4, <2>1, <2>2, <3>1, <3>2
         DEF IInv, SlotsCounted, MutexCounted, Held, InBuffer
  <2>3. CASE t = "consume"
    <3>1. pc'["consume"] = "tell" /\ pc'["produce"] = pc["produce"]
      BY <1>2, <1>3, <2>3
    <3>2. /\ sem_count'["mutex"] = sem_count["mutex"] + 1
          /\ sem_count'["nempty"] = sem_count["nempty"]
          /\ sem_count'["nstored"] = sem_count["nstored"]
      BY <1>1, <2>1, <2>3
    <3> QED
      BY <1>2, <1>4, <2>1, <2>3, <3>1, <3>2
         DEF IInv, SlotsCounted, MutexCounted, Held, InBuffer
  <2> QED
    BY <2>2, <2>3
<1> QED
  BY <1>1, <1>5, <1>6, <1>7, <1>8 DEF IInv

LEMMA TellIInv ==
  ASSUME NEW t \in Thread, IInv, Tell(t)
  PROVE  IInv'
<1> DEFINE s == IF t = "produce" THEN "nstored" ELSE "nempty"
<1> USE ProdConsAssumption
<1>1. SemInv' /\ sem_count' = [sem_count EXCEPT ![s] = @ + 1]
  BY PostSem DEF Tell, IInv
<1>2. pc[t] = "tell" /\ pc' = [pc EXCEPT ![t] = LoopTest(i[t] + 1)]
  BY DEF Tell, Goto
<1>3. pc \in [Thread -> {"slot", "lock", "use", "unlock", "tell", "done"}]
  BY DEF IInv, TypeOK
<1>4. i' = [i EXCEPT ![t] = @ + 1] /\ UNCHANGED <<buff, mismatch>>
  BY DEF Tell
<1>5. i \in [Thread -> 0..NItems] /\ i[t] < NItems
  BY <1>2 DEF IInv, TypeOK, InLoop
<1>6. TypeOK'
  <2>1. i' \in [Thread -> 0..NItems]
    BY <1>4, <1>5
  <2> QED
    BY <1>1, <1>2, <1>4, <2>1 DEF IInv, TypeOK, SemInv, LoopTest
<1>7. InLoop' /\ NoMismatch'
  BY <1>2, <1>3, <1>4, <1>5 DEF IInv, InLoop, NoMismatch, LoopTest
<1>8. ItemsStored'
  <2>1. CASE t = "produce"
    <3>1. i'["produce"] = i["produce"] + 1 /\ i'["consume"] = i["consume"]
      BY <1>4, <1>5, <2>1
    <3>2. Stored = 1 /\ Stored' = 0
      BY <1>2, <1>3, <2>1 DEF Stored, LoopTest
    <3> QED
      BY <1>4, <1>5, <3>1, <3>2 DEF IInv, ItemsStored
  <2>2. CASE t = "consume"
    <3>1. i'["consume"] = i["consume"] + 1 /\ i'["produce"] = i["produce"]
      BY <1>4, <1>5, <2>2
    <3>2. Stored' = Stored
      BY <1>2, <1>3, <2>2 DEF Stored
    <3> QED
      BY <1>4, <1>5, <3>1, <3>2 DEF IInv, ItemsStored
  <2> QED
    BY <2>1, <2>2
<1>9. SlotsCounted' /\ MutexCounted'
  <2>1. sem_count \in [Sem -> Nat] /\ i \in [Thread -> 0..NItems]
    BY DEF IInv, TypeOK, SemTypeOK
  <2>2. CASE t = "produce"
    <3>1. pc'["produce"] = LoopTest(i[t] + 1) /\ pc'["consume"] = pc["consume"]
      BY <1>2, <1>3, <2>2
    <3>2. /\ sem_count'["mutex"] = sem_count["mutex"]
          /\ sem_count'["nempty"] = sem_count["nempty"]
          /\ sem_count'["nstored"] = sem_count["nstored"] + 1
      BY <1>1, <2>1, <2>2
    <3>3. i'["produce"] = i["produce"] + 1 /\ i'["consume"] = i["consume"]
      BY <1>4, <2>1, <2>2
    <3> QED
      BY <1>2, <1>4, <2>1, <2>2, <3>1, <3>2, <3>3
         DEF IInv, SlotsCounted, MutexCounted, Held, InBuffer, LoopTest
  <2>3. CASE t = "consume"
    <3>1. pc'["consume"] = LoopTest(i[t] + 1) /\ pc'["produce"] = pc["produce"]
      BY <1>2, <1>3, <2>3
    <3>2. /\ sem_count'["mutex"] = sem_count["mutex"]
          /\ sem_count'["nempty"] = sem_count["nempty"] + 1
          /\ sem_count'["nstored"] = sem_count["nstored"]
      BY <1>1, <2>1, <2>3
    <3>3. i'["consume"] = i["consume"] + 1 /\ i'["produce"] = i["produce"]
      BY <1>4, <2>1, <2>3
    <3> QED
      BY <1>2, <1>4, <2>1, <2>3, <3>1, <3>2, <3>3
         DEF IInv, SlotsCounted, MutexCounted, Held, InBuffer, LoopTest
  <2> QED
    BY <2>2, <2>3
<1> QED
  BY <1>1, <1>6, <1>7, <1>8, <1>9 DEF IInv

LEMMA UseIInv ==
  ASSUME NEW t \in Thread, IInv, Use(t)
  PROVE  IInv'
<1> USE ProdConsAssumption
<1>1. UNCHANGED <<sem_count, waiting, woken, i>>
  BY DEF Use, semVars
<1>2. pc[t] = "use" /\ pc' = [pc EXCEPT ![t] = "unlock"]
  BY DEF Use, Goto
<1>3. pc \in [Thread -> {"slot", "lock", "use", "unlock", "tell", "done"}]
  BY DEF IInv, TypeOK
<1>4. SemInv'
  BY <1>1 DEF IInv, SemInv, SemTypeOK, Callers, Inside, Disjoint, WaiterWoken
<1>5. SlotsCounted' /\ MutexCounted' /\ InLoop'
  BY <1>1, <1>2, <1>3
     DEF IInv, SlotsCounted, MutexCounted, InLoop, Held, InBuffer
<1>6. /\ i["produce"] \in Nat /\ i["consume"] \in Nat
      /\ sem_count["nempty"] \in Nat /\ sem_count["nstored"] \in Nat
      /\ buff \in [0..(NBuff - 1) -> Nat]
  BY DEF IInv, TypeOK, SemTypeOK
<1>7. \A k \in Nat : k % NBuff \in 0..(NBuff - 1)
  OBVIOUS
<1>8. CASE t = "produce"
  <2> DEFINE P == i["produce"]
  <2>1. buff' = [buff EXCEPT ![P % NBuff] = P] /\ mismatch' = mismatch
    BY <1>8 DEF Use
  <2>2. TypeOK' /\ NoMismatch'
    BY <1>1, <1>2, <1>4, <1>6, <2>1
       DEF IInv, TypeOK, SemInv, NoMismatch
  <2>3. P < i["consume"] + NBuff
    BY <1>2, <1>6, <1>8 DEF IInv, SlotsCounted, Held
  <2>4. Stored = 0 /\ Stored' = 1
    BY <1>2, <1>3, <1>8 DEF Stored
  <2>5. ASSUME NEW k \in Nat, i["consume"] <= k, k < P + 1
        PROVE  buff'[k % NBuff] = k
    <3>1. CASE k = P
      BY <1>6, <1>7, <2>1, <3>1
    <3>2. CASE k # P
      <4>1. k < P /\ P < k + NBuff
        BY <1>6, <2>3, <2>5, <3>2
      <4>2. k % NBuff # P % NBuff
        BY <1>6, <4>1, ModDistinct
      <4>3. buff[k % NBuff] = k
        BY <1>6, <2>4, <2>5, <4>1 DEF IInv, ItemsStored
      <4> QED
        BY <1>6, <1>7, <2>1, <4>2, <4>3
    <3> QED
      BY <3>1, <3>2
  <2>6. ItemsStored'
    BY <1>1, <2>4, <2>5 DEF ItemsStored
  <2> QED
    BY <1>4, <1>5, <2>2, <2>6 DEF IInv
<1>9. CASE t = "consume"
  <2> DEFINE C == i["consume"]
  <2>1. buff' = buff /\ mismatch' = (mismatch \/ buff[C % NBuff] # C)
    BY <1>9 DEF Use
  <2>2. C < i["produce"]
    BY <1>2, <1>6, <1>9 DEF IInv, SlotsCounted, Held
  <2>3. buff[C % NBuff] = C
    <3>1. C <= C /\ C < i["produce"] + Stored
      BY <1>6, <2>2 DEF Stored
    <3> QED
      BY <1>6, <3>1 DEF IInv, ItemsStored
  <2>4. NoMismatch'
    BY <2>1, <2>3 DEF IInv, NoMismatch
  <2>5. TypeOK'
    BY <1>1, <1>2, <1>4, <2>1 DEF IInv, TypeOK, SemInv
  <2>6. ItemsStored'
    BY <1>1, <1>2, <1>3, <1>9, <2>1 DEF IInv, ItemsStored, Stored
  <2> QED
    BY <1>4, <1>5, <2>4, <2>5, <2>6 DEF IInv
<1> QED
  BY <1>8, <1>9

LEMMA NextIInv == IInv /\ [Next]_vars => IInv'
<1> SUFFICES ASSUME IInv, [Next]_vars PROVE IInv'
  OBVIOUS
<1>1. CASE UNCHANGED vars
  <2>1. SemInv' /\ sem_count' = sem_count /\ UNCHANGED progVars
    BY <1>1 DEF vars, semVars, progVars, IInv, SemInv, SemTypeOK, Callers,
                Inside, Disjoint, WaiterWoken
  <2> QED
    BY <2>1, CountsKept
<1>2. CASE \E t \in Thread : ThreadStep(t)
  BY <1>2, SlotIInv, LockIInv, UseIInv, UnlockIInv, TellIInv DEF ThreadStep
<1>3. CASE \E t \in Thread, s \in Sem :
             SpuriousWakeup(t, s) /\ UNCHANGED progVars
  BY <1>3, SpuriousSem, CountsKept DEF IInv
<1> QED
  BY <1>1, <1>2, <1>3 DEF Next, Exit

\* IInv holds in every state of the program.
THEOREM Inductive == Safety => []IInv
  BY InitIInv, NextIInv, PTL DEF Safety

\* The variables keep their types: no semaphore value goes below 0 and no
\* loop variable beyond nitems.
THEOREM TypeCorrect == Safety => []TypeOK
<1>1. IInv => TypeOK
  BY DEF IInv
<1> QED
  BY <1>1, Inductive, PTL

\* consume() finds every item in its slot, whatever NBUFF and nitems are.
THEOREM ItemsArrive == Safety => []NoMismatch
<1>1. IInv => NoMismatch
  BY DEF IInv
<1> QED
  BY <1>1, Inductive, PTL

\* The two threads never use the buffer together.
THEOREM BufferExcluded == Safety => []BufferExclusion
<1>1. IInv => BufferExclusion
  BY ProdConsAssumption
     DEF IInv, TypeOK, SemTypeOK, MutexCounted, InBuffer, BufferExclusion
<1> QED
  BY <1>1, Inductive, PTL

\* mysem_post's test for 0 loses no wakeup in this program: of each semaphore
\* there is one waiter, or its value is at most 1.
THEOREM NoWakeupLost == Safety => []WaiterWoken
<1>1. IInv => WaiterWoken
  BY DEF IInv, SemInv
<1> QED
  BY <1>1, Inductive, PTL

-----------------------------------------------------------------------------

(***************************************************************************)
(* SemOpen.  The argument follows a file: it has one creator, its bit is   *)
(* set until that creator has initialized it, and the name refers to it    *)
(* until the creator fails or the semaphore is unlinked.                   *)
(***************************************************************************)

Place == {"again", "init", "chmod", "exists", "poll", "err", "opened", "failed", "dead"}

\* Descriptors and the name refer to files that were created, and the rounds of
\* the polling loop are counted from 0.
FdOK ==
    /\ entry \notin unused
    /\ xusr \cap unused = {}
    /\ \A p \in Proc : fd[p] \notin unused
    /\ \A p \in Proc : label[p] \in {"init", "chmod", "poll", "opened"} => fd[p] \in File
    /\ \A p \in Proc : label[p] = "poll" => tries[p] < MaxTries

\* A file has one creator.  The name refers to the file until the creator's error
\* path, or mysem_unlink, removes it.
CreatorOK ==
    /\ \A p \in Proc : label[p] \in {"init", "chmod"} => p \in created
    /\ \A p \in created :
          /\ label[p] \in {"init", "chmod", "err", "opened", "failed", "dead"}
          /\ fd[p] \in File
          /\ label[p] = "failed" => entry # fd[p]
          /\ label[p] # "failed" => unlinked \/ entry = fd[p]
    /\ \A p, q \in created : fd[p] = fd[q] => p = q

\* The bit of a file is off only once the file is initialized, and it is on only
\* while the creator has not returned.
BitOK ==
    /\ \A p \in Proc : label[p] = "chmod" => count[fd[p]] # Uninitialized
    /\ \A f \in File : f \in unused \/ f \in xusr \/ count[f] # Uninitialized
    /\ \A f \in xusr : \E p \in created : fd[p] = f /\ label[p] # "opened"

\* Without removals there is one file.
SameOK == Removed \/ \A p \in Proc : fd[p] # NoFile => fd[p] = entry

\* The inductive invariant.
OpenIInv ==
    OpenTypeOK /\ FdOK /\ CreatorOK /\ BitOK /\ SameOK /\ InitializedUnlessRemoved

LEMMA InitOpenIInv == OpenInit => OpenIInv
<1> SUFFICES ASSUME OpenInit PROVE OpenIInv
  OBVIOUS
<1>1. OpenTypeOK
  <2>1. unlinked \in BOOLEAN
    BY Zenon DEF OpenInit
  <2>2. label \in [Proc -> Place]
    BY DEF OpenInit, Place
  <2>3. /\ entry \in File \cup {NoFile} /\ unused \subseteq File /\ xusr \subseteq File
        /\ created \subseteq Proc /\ fd \in [Proc -> File \cup {NoFile}]
    BY DEF OpenInit
  <2>4. /\ count \in [File -> {Uninitialized} \cup 0..Value]
        /\ tries \in [Proc -> 0..MaxTries] /\ left \in [Proc -> 0..NWaits]
    BY SemOpenAssumption DEF OpenInit, Uninitialized
  <2> QED
    BY <2>1, <2>2, <2>3, <2>4 DEF OpenTypeOK, Place
<1>2. \A p \in Proc : label[p] \in {"exists", "again"} /\ fd[p] = NoFile
  BY DEF OpenInit
<1>3. FdOK /\ CreatorOK
  BY <1>2, SemOpenAssumption DEF OpenInit, FdOK, CreatorOK
<1>4. BitOK /\ SameOK /\ InitializedUnlessRemoved
  BY <1>2 DEF OpenInit, BitOK, SameOK, InitializedUnlessRemoved
<1> QED
  BY <1>1, <1>3, <1>4 DEF OpenIInv

\* A process changes its own place only.
LEMMA Moves ==
    ASSUME OpenTypeOK, NEW p \in Proc, NEW l \in Place, GotoLabel(p, l)
    PROVE  /\ label' \in [Proc -> Place] /\ label'[p] = l
           /\ \A q \in Proc : q # p => label'[q] = label[q]
BY DEF OpenTypeOK, GotoLabel, Place

\* What was removed stays removed.
LEMMA RemovedStays ==
    ASSUME OpenIInv, created \subseteq created', unlinked => unlinked',
           \A p \in Proc : label[p] = "failed" => label'[p] = "failed"
    PROVE  Removed => Removed'
BY DEF Removed, OpenIInv, OpenTypeOK

\* A process is killed, or a call of the creator fails.
LEMMA KillIInv ==
    ASSUME OpenIInv, NEW p \in Proc, Kill(p) \/ InitFails(p)
    PROVE  OpenIInv'
<1> USE DEF OpenIInv
<1>1. PICK l \in {"dead", "err"} :
         /\ GotoLabel(p, l) /\ UNCHANGED <<fileVars, procVars>>
         /\ label[p] # "failed" /\ (l = "err" => label[p] \in {"init", "chmod"})
  BY DEF Kill, InitFails
<1>2. l \in Place /\ l \in {"dead", "err"}
  BY DEF Place
<1>3. /\ label' \in [Proc -> Place] /\ label'[p] = l
      /\ \A q \in Proc : q # p => label'[q] = label[q]
  BY <1>1, <1>2, Moves
<1>4. Removed => Removed'
  BY <1>1, <1>3, RemovedStays DEF fileVars, procVars
<1>5. OpenTypeOK'
  BY <1>1, <1>2, <1>3, <1>4, SemOpenAssumption DEF OpenTypeOK, Place, fileVars, procVars
<1>6. FdOK'
  BY SMTT(30), <1>1, <1>2, <1>3, <1>4, SemOpenAssumption DEF OpenTypeOK, FdOK, fileVars, procVars
<1>7. CreatorOK'
  BY <1>1, <1>2, <1>3, <1>4, SemOpenAssumption
  DEF OpenTypeOK, FdOK, CreatorOK, fileVars, procVars
<1>8. BitOK'
  BY <1>1, <1>2, <1>3, <1>4, SemOpenAssumption
  DEF OpenTypeOK, FdOK, CreatorOK, BitOK, fileVars, procVars
<1>9. SameOK' /\ InitializedUnlessRemoved'
  BY <1>1, <1>2, <1>3, <1>4, SemOpenAssumption
  DEF OpenTypeOK, FdOK, BitOK, SameOK, InitializedUnlessRemoved, fileVars, procVars
<1> QED
  BY <1>5, <1>6, <1>7, <1>8, <1>9

\* The entry is made for a new file.
LEMMA CreateNewIInv ==
    ASSUME OpenIInv, NEW p \in Proc, Create(p), entry = NoFile
    PROVE  OpenIInv'
<1> USE DEF OpenIInv
<1> DEFINE f == CHOOSE g \in unused : TRUE
<1>1. /\ label[p] = "again" /\ GotoLabel(p, "init")
      /\ f \in unused /\ entry' = f /\ unused' = unused \ {f}
      /\ xusr' = xusr \cup {f} /\ fd' = [fd EXCEPT ![p] = f]
      /\ created' = created \cup {p}
      /\ UNCHANGED <<count, oflag, tries, left, unlinked>>
  BY DEF Create, NewFile
<1>2. "init" \in Place
  BY DEF Place
<1>3. /\ label' \in [Proc -> Place] /\ label'[p] = "init"
      /\ \A q \in Proc : q # p => label'[q] = label[q]
  BY <1>1, <1>2, Moves
<1>4. Removed => Removed'
  BY <1>1, <1>3, RemovedStays
<1>5. f \in File /\ f # NoFile /\ p \notin created
  BY <1>1, SemOpenAssumption DEF OpenTypeOK, CreatorOK
<1> HIDE DEF f
<1>6. OpenTypeOK'
  BY <1>1, <1>2, <1>3, <1>4, <1>5, SemOpenAssumption DEF OpenTypeOK, Place
<1>7. FdOK'
  BY SMTT(30), <1>1, <1>2, <1>3, <1>4, <1>5, SemOpenAssumption DEF OpenTypeOK, FdOK
<1>8. CreatorOK'
  BY SMTT(30), <1>1, <1>2, <1>3, <1>4, <1>5, SemOpenAssumption DEF OpenTypeOK, FdOK, CreatorOK
<1>9. BitOK'
  BY SMTT(30), <1>1, <1>2, <1>3, <1>4, <1>5, SemOpenAssumption
     DEF OpenTypeOK, FdOK, CreatorOK, BitOK
<1>10. SameOK' /\ InitializedUnlessRemoved'
  BY <1>1, <1>2, <1>3, <1>4, <1>5, SemOpenAssumption
  DEF OpenTypeOK, FdOK, BitOK, SameOK, InitializedUnlessRemoved
<1> QED
  BY <1>6, <1>7, <1>8, <1>9, <1>10

\* open finds the file: EEXIST.
LEMMA CreateExistsIInv ==
    ASSUME OpenIInv, NEW p \in Proc, Create(p), entry # NoFile
    PROVE  OpenIInv'
<1> USE DEF OpenIInv
<1> DEFINE l == IF oflag[p] = "creat" THEN "exists" ELSE "failed"
<1>1. /\ label[p] = "again" /\ GotoLabel(p, l)
      /\ UNCHANGED <<fileVars, procVars>>
  BY DEF Create, NewFile, fileVars, procVars
<1>2. l \in Place
  BY DEF Place
<1>3. /\ label' \in [Proc -> Place] /\ label'[p] = l
      /\ \A q \in Proc : q # p => label'[q] = label[q]
  BY <1>1, <1>2, Moves
<1>4. Removed => Removed'
  BY <1>1, <1>3, RemovedStays DEF fileVars, procVars
<1>5. l \in {"exists", "failed"} /\ p \notin created
  BY <1>1 DEF CreatorOK
<1> HIDE DEF l
<1>6. OpenTypeOK'
  BY <1>1, <1>2, <1>3, <1>4, <1>5, SemOpenAssumption
  DEF OpenTypeOK, Place, fileVars, procVars
<1>7. FdOK'
  BY <1>1, <1>2, <1>3, <1>4, <1>5, SemOpenAssumption
  DEF OpenTypeOK, FdOK, fileVars, procVars
<1>8. CreatorOK'
  BY <1>1, <1>2, <1>3, <1>4, <1>5, SemOpenAssumption
  DEF OpenTypeOK, FdOK, CreatorOK, fileVars, procVars
<1>9. BitOK'
  BY <1>1, <1>2, <1>3, <1>4, <1>5, SemOpenAssumption
  DEF OpenTypeOK, FdOK, CreatorOK, BitOK, fileVars, procVars
<1>10. SameOK' /\ InitializedUnlessRemoved'
  BY <1>1, <1>2, <1>3, <1>4, <1>5, SemOpenAssumption
  DEF OpenTypeOK, FdOK, BitOK, SameOK, InitializedUnlessRemoved, fileVars, procVars
<1> QED
  BY <1>6, <1>7, <1>8, <1>9, <1>10

\* The creator initializes its file.
LEMMA InitializeIInv ==
    ASSUME OpenIInv, NEW p \in Proc, Initialize(p)
    PROVE  OpenIInv'
<1> USE DEF OpenIInv
<1>1. /\ label[p] = "init" /\ GotoLabel(p, "chmod")
      /\ count' = [count EXCEPT ![fd[p]] = Value]
      /\ UNCHANGED <<entry, unused, xusr, procVars>>
  BY DEF Initialize
<1>2. "chmod" \in Place
  BY DEF Place
<1>3. /\ label' \in [Proc -> Place] /\ label'[p] = "chmod"
      /\ \A q \in Proc : q # p => label'[q] = label[q]
  BY <1>1, <1>2, Moves
<1>4. Removed => Removed'
  BY <1>1, <1>3, RemovedStays DEF procVars
<1>5. fd[p] \in File /\ Value # Uninitialized /\ Value \in 0 .. Value
  BY <1>1, SemOpenAssumption DEF FdOK, Uninitialized
<1>6. OpenTypeOK'
  BY <1>1, <1>2, <1>3, <1>4, <1>5, SemOpenAssumption DEF OpenTypeOK, Place, procVars
<1>7. FdOK'
  BY SMTT(30), <1>1, <1>2, <1>3, <1>4, <1>5, SemOpenAssumption DEF OpenTypeOK, FdOK, procVars
<1>8. CreatorOK'
  BY <1>1, <1>2, <1>3, <1>4, <1>5, SemOpenAssumption
  DEF OpenTypeOK, FdOK, CreatorOK, procVars
<1>9. BitOK'
  BY <1>1, <1>2, <1>3, <1>4, <1>5, SemOpenAssumption
  DEF OpenTypeOK, FdOK, CreatorOK, BitOK, procVars
<1>10. SameOK' /\ InitializedUnlessRemoved'
  BY <1>1, <1>2, <1>3, <1>4, <1>5, SemOpenAssumption
  DEF OpenTypeOK, FdOK, BitOK, SameOK, InitializedUnlessRemoved, procVars
<1> QED
  BY <1>6, <1>7, <1>8, <1>9, <1>10

\* The creator turns the bit off and returns.
LEMMA FchmodIInv ==
    ASSUME OpenIInv, NEW p \in Proc, Fchmod(p)
    PROVE  OpenIInv'
<1> USE DEF OpenIInv
<1>1. /\ label[p] = "chmod" /\ GotoLabel(p, "opened")
      /\ xusr' = xusr \ {fd[p]}
      /\ UNCHANGED <<entry, unused, count, procVars>>
  BY DEF Fchmod
<1>2. "opened" \in Place
  BY DEF Place
<1>3. /\ label' \in [Proc -> Place] /\ label'[p] = "opened"
      /\ \A q \in Proc : q # p => label'[q] = label[q]
  BY <1>1, <1>2, Moves
<1>4. Removed => Removed'
  BY <1>1, <1>3, RemovedStays DEF procVars
<1>5. fd[p] \in File /\ p \in created /\ count[fd[p]] # Uninitialized
  BY <1>1 DEF FdOK, CreatorOK, BitOK
<1>6. OpenTypeOK'
  BY <1>1, <1>2, <1>3, <1>4, <1>5, SemOpenAssumption DEF OpenTypeOK, Place, procVars
<1>7. FdOK'
  BY SMTT(30), <1>1, <1>2, <1>3, <1>4, <1>5, SemOpenAssumption DEF OpenTypeOK, FdOK, procVars
<1>8. CreatorOK'
  BY <1>1, <1>2, <1>3, <1>4, <1>5, SemOpenAssumption
  DEF OpenTypeOK, FdOK, CreatorOK, procVars
<1>9. BitOK'
  BY <1>1, <1>2, <1>3, <1>4, <1>5, SemOpenAssumption
  DEF OpenTypeOK, FdOK, CreatorOK, BitOK, procVars
<1>10. SameOK' /\ InitializedUnlessRemoved'
  BY <1>1, <1>2, <1>3, <1>4, <1>5, SemOpenAssumption
  DEF OpenTypeOK, FdOK, BitOK, SameOK, InitializedUnlessRemoved, procVars
<1> QED
  BY <1>6, <1>7, <1>8, <1>9, <1>10

\* open finds the file; polling starts.
LEMMA ExistsFoundIInv ==
    ASSUME OpenIInv, NEW p \in Proc, Exists(p), entry # NoFile
    PROVE  OpenIInv'
<1> USE DEF OpenIInv
<1>1. /\ label[p] = "exists" /\ GotoLabel(p, "poll")
      /\ fd' = [fd EXCEPT ![p] = entry] /\ tries' = [tries EXCEPT ![p] = 0]
      /\ UNCHANGED <<fileVars, oflag, created, left, unlinked>>
  BY DEF Exists
<1>2. "poll" \in Place
  BY DEF Place
<1>3. /\ label' \in [Proc -> Place] /\ label'[p] = "poll"
      /\ \A q \in Proc : q # p => label'[q] = label[q]
  BY <1>1, <1>2, Moves
<1>4. Removed => Removed'
  BY <1>1, <1>3, RemovedStays
<1>5. entry \in File /\ p \notin created
  BY <1>1 DEF OpenTypeOK, CreatorOK
<1>6. OpenTypeOK'
  <2>1. tries' \in [Proc -> 0..MaxTries]
    BY <1>1, SemOpenAssumption DEF OpenTypeOK
  <2> QED
    BY <1>1, <1>3, <1>5, <2>1 DEF OpenTypeOK, Place, fileVars
<1>7. FdOK'
  BY SMTT(30), <1>1, <1>2, <1>3, <1>4, <1>5, SemOpenAssumption DEF OpenTypeOK, FdOK, fileVars
<1>8. CreatorOK'
  BY <1>1, <1>2, <1>3, <1>4, <1>5, SemOpenAssumption
  DEF OpenTypeOK, FdOK, CreatorOK, fileVars
<1>9. BitOK'
  BY <1>1, <1>2, <1>3, <1>4, <1>5, SemOpenAssumption
  DEF OpenTypeOK, FdOK, CreatorOK, BitOK, fileVars
<1>10. SameOK' /\ InitializedUnlessRemoved'
  BY <1>1, <1>2, <1>3, <1>4, <1>5, SemOpenAssumption
  DEF OpenTypeOK, FdOK, BitOK, SameOK, InitializedUnlessRemoved, fileVars
<1> QED
  BY <1>6, <1>7, <1>8, <1>9, <1>10

\* open finds no file: ENOENT.
LEMMA ExistsGoneIInv ==
    ASSUME OpenIInv, NEW p \in Proc, Exists(p), entry = NoFile
    PROVE  OpenIInv'
<1> USE DEF OpenIInv
<1>1. /\ label[p] = "exists" /\ GotoLabel(p, Gone(p))
      /\ UNCHANGED <<fileVars, procVars>>
  BY DEF Exists, fileVars, procVars
<1>2. Gone(p) \in Place
  BY DEF Place, Gone
<1>3. /\ label' \in [Proc -> Place] /\ label'[p] = Gone(p)
      /\ \A q \in Proc : q # p => label'[q] = label[q]
  BY <1>1, <1>2, Moves
<1>4. Removed => Removed'
  BY <1>1, <1>3, RemovedStays DEF fileVars, procVars
<1>5. Gone(p) \in {"again", "err"} /\ p \notin created
  BY <1>1 DEF Gone, CreatorOK
<1>6. OpenTypeOK'
  BY <1>1, <1>2, <1>3, <1>4, <1>5, SemOpenAssumption
  DEF OpenTypeOK, Place, fileVars, procVars
<1>7. FdOK'
  BY <1>1, <1>2, <1>3, <1>4, <1>5, SemOpenAssumption
  DEF OpenTypeOK, FdOK, fileVars, procVars
<1>8. CreatorOK'
  BY <1>1, <1>2, <1>3, <1>4, <1>5, SemOpenAssumption
  DEF OpenTypeOK, FdOK, CreatorOK, fileVars, procVars
<1>9. BitOK'
  BY <1>1, <1>2, <1>3, <1>4, <1>5, SemOpenAssumption
  DEF OpenTypeOK, FdOK, CreatorOK, BitOK, fileVars, procVars
<1>10. SameOK' /\ InitializedUnlessRemoved'
  BY <1>1, <1>2, <1>3, <1>4, <1>5, SemOpenAssumption
  DEF OpenTypeOK, FdOK, BitOK, SameOK, InitializedUnlessRemoved, fileVars, procVars
<1> QED
  BY <1>6, <1>7, <1>8, <1>9, <1>10

\* A round of the polling loop.
LEMMA PollIInv ==
    ASSUME OpenIInv, NEW p \in Proc, Poll(p)
    PROVE  OpenIInv'
<1> USE DEF OpenIInv
<1> DEFINE l == IF entry = NoFile THEN Gone(p)
                    ELSE IF InitializationDone THEN "opened"
                    ELSE IF tries'[p] = MaxTries THEN "err" ELSE "poll"
<1>1. /\ label[p] = "poll" /\ GotoLabel(p, l)
      /\ tries' = [tries EXCEPT ![p] = @ + 1]
      /\ UNCHANGED <<fileVars, oflag, fd, created, left, unlinked>>
  BY DEF Poll
<1>2. l \in Place
  BY DEF Place, Gone
<1>3. /\ label' \in [Proc -> Place] /\ label'[p] = l
      /\ \A q \in Proc : q # p => label'[q] = label[q]
  BY <1>1, <1>2, Moves
<1>4. Removed => Removed'
  BY <1>1, <1>3, RemovedStays
<1>5. /\ l \in {"again", "err", "opened", "poll"} /\ p \notin created
      /\ l = "opened" => entry # NoFile /\ entry \notin xusr
  BY <1>1 DEF Gone, CreatorOK, InitializationDone
<1>6. /\ tries[p] \in Nat /\ tries[p] < MaxTries /\ tries'[p] = tries[p] + 1
      /\ l = "poll" => tries'[p] # MaxTries
  BY SMTT(30), <1>1, SemOpenAssumption DEF OpenTypeOK, FdOK, Gone
<1> HIDE DEF l
<1>7. OpenTypeOK'
  <2>1. tries' \in [Proc -> 0..MaxTries]
    BY <1>1, <1>6, SemOpenAssumption DEF OpenTypeOK
  <2> QED
    BY <1>1, <1>3, <2>1 DEF OpenTypeOK, Place, fileVars
<1>8. FdOK'
  BY SMTT(30), <1>1, <1>2, <1>3, <1>4, <1>5, <1>6, SemOpenAssumption DEF OpenTypeOK, FdOK, fileVars
<1>9. CreatorOK'
  BY <1>1, <1>2, <1>3, <1>4, <1>5, <1>6, SemOpenAssumption
  DEF OpenTypeOK, FdOK, CreatorOK, fileVars
<1>10. BitOK'
  BY <1>1, <1>2, <1>3, <1>4, <1>5, <1>6, SemOpenAssumption
  DEF OpenTypeOK, FdOK, CreatorOK, BitOK, fileVars
<1>11. SameOK' /\ InitializedUnlessRemoved'
  BY <1>1, <1>2, <1>3, <1>4, <1>5, <1>6, SemOpenAssumption
  DEF OpenTypeOK, FdOK, BitOK, SameOK, InitializedUnlessRemoved, fileVars
<1> QED
  BY <1>7, <1>8, <1>9, <1>10, <1>11

\* The error path: the creator removes its file.
LEMMA CleanUpIInv ==
    ASSUME OpenIInv, NEW p \in Proc, CleanUp(p)
    PROVE  OpenIInv'
<1> USE DEF OpenIInv
<1>1. /\ label[p] = "err" /\ GotoLabel(p, "failed")
      /\ entry' = IF p \in created THEN NoFile ELSE entry
      /\ UNCHANGED <<unused, xusr, count, procVars>>
  BY DEF CleanUp
<1>2. "failed" \in Place
  BY DEF Place
<1>3. /\ label' \in [Proc -> Place] /\ label'[p] = "failed"
      /\ \A q \in Proc : q # p => label'[q] = label[q]
  BY <1>1, <1>2, Moves
<1>4. Removed => Removed'
  BY <1>1, <1>3, RemovedStays DEF procVars
<1>5. p \in created => Removed'
  BY <1>1, <1>3 DEF Removed, procVars
<1>6. \A q \in created : ~unlinked /\ p \in created /\ q # p => label[q] = "failed"
  BY <1>1 DEF CreatorOK
<1>7. OpenTypeOK'
  BY <1>1, <1>2, <1>3, <1>4, <1>5, <1>6, SemOpenAssumption DEF OpenTypeOK, Place, procVars
<1>8. FdOK'
  BY SMTT(30), <1>1, <1>2, <1>3, <1>4, <1>5, <1>6, SemOpenAssumption DEF OpenTypeOK, FdOK, procVars
<1>9. CreatorOK'
  BY <1>1, <1>2, <1>3, <1>4, <1>5, <1>6, SemOpenAssumption
  DEF OpenTypeOK, FdOK, CreatorOK, procVars
<1>10. BitOK'
  BY <1>1, <1>2, <1>3, <1>4, <1>5, <1>6, SemOpenAssumption
  DEF OpenTypeOK, FdOK, CreatorOK, BitOK, procVars
<1>11. SameOK' /\ InitializedUnlessRemoved'
  BY <1>1, <1>2, <1>3, <1>4, <1>5, <1>6, SemOpenAssumption
  DEF OpenTypeOK, FdOK, BitOK, SameOK, InitializedUnlessRemoved, procVars
<1> QED
  BY <1>7, <1>8, <1>9, <1>10, <1>11

\* A decrement.
LEMMA WaitIInv ==
    ASSUME OpenIInv, NEW p \in Proc, Wait(p)
    PROVE  OpenIInv'
<1> USE DEF OpenIInv
<1>1. /\ label[p] = "opened" /\ left[p] > 0 /\ count[fd[p]] > 0
      /\ count' = [count EXCEPT ![fd[p]] = @ - 1]
      /\ left' = [left EXCEPT ![p] = @ - 1]
      /\ UNCHANGED <<entry, unused, xusr, label, oflag, fd, created, tries, unlinked>>
  BY DEF Wait
<1>2. /\ fd[p] \in File /\ count[fd[p]] \in Int /\ count[fd[p]] <= Value
      /\ left[p] \in 0 .. NWaits
  BY <1>1, SemOpenAssumption DEF FdOK, OpenTypeOK, Uninitialized
<1>3. \A f \in File : count[f] # Uninitialized => count'[f] # Uninitialized
  BY <1>1, <1>2 DEF OpenTypeOK, Uninitialized
<1>4. Removed => Removed'
  BY <1>1, RemovedStays
<1>5. OpenTypeOK'
  BY <1>1, <1>2, <1>3, <1>4, SemOpenAssumption DEF OpenTypeOK, Place
<1>6. FdOK'
  BY SMTT(30), <1>1, <1>2, <1>3, <1>4, SemOpenAssumption DEF OpenTypeOK, FdOK
<1>7. CreatorOK'
  BY SMTT(30), <1>1, <1>2, <1>3, <1>4, SemOpenAssumption DEF OpenTypeOK, FdOK, CreatorOK
<1>8. BitOK'
  BY SMTT(30), <1>1, <1>2, <1>3, <1>4, SemOpenAssumption DEF OpenTypeOK, FdOK, CreatorOK, BitOK
<1>9. SameOK' /\ InitializedUnlessRemoved'
  BY <1>1, <1>2, <1>3, <1>4, SemOpenAssumption
  DEF OpenTypeOK, FdOK, BitOK, SameOK, InitializedUnlessRemoved
<1> QED
  BY <1>5, <1>6, <1>7, <1>8, <1>9

\* mysem_unlink.
LEMMA UnlinkIInv ==
    ASSUME OpenIInv, Unlink
    PROVE  OpenIInv'
<1> USE DEF OpenIInv
<1>1. /\ entry' = NoFile
      /\ UNCHANGED <<unused, xusr, count, label, oflag, fd, created, tries, left>>
  BY DEF Unlink
<1>2. unlinked' = TRUE
  BY Zenon DEF Unlink
<1>3. unlinked' \in BOOLEAN
  BY <1>2, Zenon
<1>4. OpenTypeOK'
  BY <1>1, <1>3 DEF OpenTypeOK
<1>5. FdOK' /\ BitOK'
  BY SMTT(30), <1>1, SemOpenAssumption DEF OpenTypeOK, FdOK, BitOK
<1>6. CreatorOK'
  BY <1>1, <1>2, SemOpenAssumption DEF CreatorOK
<1>7. Removed'
  BY <1>2, Zenon DEF Removed
<1> QED
  BY <1>4, <1>5, <1>6, <1>7 DEF SameOK, InitializedUnlessRemoved

LEMMA NextOpenIInv == OpenIInv /\ [OpenNext]_openVars => OpenIInv'
<1> SUFFICES ASSUME OpenIInv, [OpenNext]_openVars PROVE OpenIInv'
  OBVIOUS
<1>1. CASE UNCHANGED openVars
  BY <1>1 DEF openVars, fileVars, procVars, OpenIInv, OpenTypeOK, FdOK, CreatorOK, BitOK, SameOK,
              InitializedUnlessRemoved, Removed
<1>2. ASSUME NEW p \in Proc, OpenStep(p) PROVE OpenIInv'
  BY <1>2, CreateNewIInv, CreateExistsIInv, InitializeIInv, FchmodIInv, ExistsFoundIInv,
     ExistsGoneIInv, PollIInv, CleanUpIInv DEF OpenStep
<1>3. ASSUME NEW p \in Proc, InitFails(p) \/ Wait(p) \/ Kill(p) PROVE OpenIInv'
  BY <1>3, KillIInv, WaitIInv
<1> QED
  BY <1>1, <1>2, <1>3, UnlinkIInv DEF OpenNext, Done

\* The inductive invariant holds throughout.
THEOREM SemOpenInvariance == OpenSpec => []OpenIInv
BY InitOpenIInv, NextOpenIInv, PTL DEF OpenSpec

\* The variables of mysem_open stay well typed: no count is negative and no caller
\* polls more than MAX_TRIES times.
THEOREM SemOpenTypeCorrect == OpenSpec => []OpenTypeOK
<1>1. OpenIInv => OpenTypeOK
  BY DEF OpenIInv
<1> QED
  BY <1>1, SemOpenInvariance, PTL

\* However many processes race in mysem_open and wherever they are killed: unless a
\* file was removed, a caller that succeeds has an initialized semaphore.
THEOREM InitializedHolds == OpenSpec => []InitializedUnlessRemoved
<1>1. OpenIInv => InitializedUnlessRemoved
  BY DEF OpenIInv
<1> QED
  BY <1>1, SemOpenInvariance, PTL

\* Unless a file was removed, the callers of mysem_open share one semaphore.
THEOREM SameHolds == OpenSpec => []SameUnlessRemoved
<1>1. OpenIInv => SameUnlessRemoved
  <2> SUFFICES ASSUME OpenIInv, ~Removed, NEW p \in Proc, NEW q \in Proc,
                      label[p] = "opened", label[q] = "opened"
               PROVE  fd[p] = fd[q]
    BY DEF SameUnlessRemoved
  <2> QED
    BY SemOpenAssumption DEF OpenIInv, FdOK, SameOK
<1> QED
  BY <1>1, SemOpenInvariance, PTL

\* A failure of mysem_open leaves no half-initialized file under the name.
THEOREM BitHasCreatorHolds == OpenSpec => []BitHasCreator
<1>1. OpenIInv => BitHasCreator
  <2> SUFFICES ASSUME OpenIInv, entry \in xusr
               PROVE  \E p \in created :
                         fd[p] = entry /\ label[p] \in {"init", "chmod", "err", "dead"}
    BY DEF BitHasCreator
  <2>1. PICK p \in created : fd[p] = entry /\ label[p] # "opened"
    BY DEF OpenIInv, BitOK
  <2>2. label[p] \in {"init", "chmod", "err", "dead"}
    BY <2>1 DEF OpenIInv, CreatorOK
  <2> QED
    BY <2>1, <2>2
<1> QED
  BY <1>1, SemOpenInvariance, PTL

\* The error path of mysem_open unlinks by name, and still removes no file but its
\* own, unless mysem_unlink came before.
THEOREM RemovesOnlyItsOwnHolds == OpenSpec => RemovesOnlyItsOwn
<1> DEFINE Own ==
      \A p \in Proc :
         label[p] = "err" /\ label'[p] = "failed" /\ entry' # entry
            => unlinked \/ (entry = fd[p] /\ p \in created)
<1>1. OpenIInv /\ [OpenNext]_openVars => [Own]_openVars
  <2> SUFFICES ASSUME OpenIInv, OpenNext, NEW p \in Proc,
                      label[p] = "err", label'[p] = "failed", entry' # entry, ~unlinked
               PROVE  entry = fd[p] /\ p \in created
    OBVIOUS
  <2>1. ASSUME NEW q \in Proc, q # p, OpenStep(q) \/ InitFails(q) \/ Kill(q)
        PROVE  FALSE
    <3>1. PICK l : GotoLabel(q, l)
      BY <2>1 DEF OpenStep, Create, NewFile, Initialize, Fchmod, Exists, Poll, CleanUp,
                  InitFails, Kill
    <3> QED
      BY <2>1, <3>1 DEF GotoLabel, OpenIInv, OpenTypeOK
  <2>2. CleanUp(p)
    <3>1. ~Unlink /\ ~Done /\ \A q \in Proc : ~Wait(q)
      BY DEF Unlink, Done, openVars, fileVars, procVars, Wait
    <3>2. OpenStep(p) \/ InitFails(p) \/ Kill(p)
      BY <2>1, <3>1 DEF OpenNext
    <3>3. ~InitFails(p) /\ ~Kill(p)
      BY DEF InitFails, Kill, fileVars
    <3> QED
      BY <3>2, <3>3 DEF OpenStep, Create, Initialize, Fchmod, Exists, Poll
  <2>3. p \in created
    BY <2>2 DEF CleanUp
  <2> QED
    BY <2>3 DEF OpenIInv, CreatorOK
<1> QED
  BY <1>1, SemOpenInvariance, PTL DEF OpenSpec, RemovesOnlyItsOwn

-----------------------------------------------------------------------------
(* The final value of testsem.c.                                           *)

INSTANCE FiniteSetTheorems

\* A file is counted down only after its one initialization, and by processes
\* that have it open for good.
CountOK ==
    /\ \A p \in Proc : left[p] # NWaits =>
          /\ label[p] \in {"opened", "dead"}
          /\ fd[p] \in File /\ count[fd[p]] # Uninitialized
    /\ \A p \in Proc : label[p] = "init" => count[fd[p]] = Uninitialized
    /\ \A f \in unused : count[f] = Uninitialized

LEMMA DecrementsFinite ==
    ASSUME NEW f
    PROVE  IsFiniteSet(Decrements(f)) /\ Cardinality(Decrements(f)) \in Nat
<1>1. IsFiniteSet(1 .. NWaits)
  BY SemOpenAssumption, FS_Interval
<1>2. IsFiniteSet(Proc \X (1 .. NWaits))
  BY Zenon, <1>1, SemOpenAssumption, FS_Product
<1> QED
  BY Zenon, <1>2, FS_Subset, FS_CardinalityType DEF Decrements

\* A process that has decremented nothing may change its file.
LEMMA DecrementsKept ==
    ASSUME OpenTypeOK, left' = left, NEW f,
           \A p \in Proc : fd'[p] = fd[p] \/ left[p] = NWaits
    PROVE  Decrements(f)' = Decrements(f)
<1>1. \A n \in 1 .. NWaits : ~ (NWaits < n)
  BY SemOpenAssumption
<1>2. ASSUME NEW w \in Proc \X (1 .. NWaits)
      PROVE  fd'[w[1]] = f /\ left'[w[1]] < w[2] <=> fd[w[1]] = f /\ left[w[1]] < w[2]
  <2>1. w[1] \in Proc /\ w[2] \in 1 .. NWaits
    BY Zenon
  <2> QED
    BY Zenon, <1>1, <2>1
<1> QED
  BY Zenon, <1>2 DEF Decrements

\* The steps that leave counts and waits alone.
LEMMA NoCountStep ==
    ASSUME OpenIInv, CountOK, NoLostDecrement, UNCHANGED <<count, left>>,
           unused' \subseteq unused,
           \A p \in Proc : \/ fd'[p] = fd[p] /\ (label'[p] = label[p] \/ label'[p] = "dead")
                           \/ /\ label[p] \notin {"opened", "dead"}
                              /\ label'[p] = "init" => fd'[p] \in unused
    PROVE  CountOK' /\ NoLostDecrement'
<1>1. \A p \in Proc : \/ fd'[p] = fd[p] /\ (label'[p] = label[p] \/ label'[p] = "dead")
                      \/ left[p] = NWaits /\ (label'[p] = "init" => fd'[p] \in unused)
  BY Zenon DEF CountOK
<1>2. CountOK'
  BY Zenon, <1>1 DEF CountOK
<1>3. \A f \in File : Decrements(f)' = Decrements(f)
  BY Zenon, <1>1, DecrementsKept DEF OpenIInv
<1> QED
  BY Zenon, <1>2, <1>3 DEF NoLostDecrement

\* The creator sets the count of a file that nobody has used.
LEMMA InitializeCount ==
    ASSUME OpenIInv, CountOK, NoLostDecrement, NEW p \in Proc, Initialize(p)
    PROVE  CountOK' /\ NoLostDecrement'
<1>1. /\ label[p] = "init" /\ count' = [count EXCEPT ![fd[p]] = Value]
      /\ label' = [label EXCEPT ![p] = "chmod"] /\ UNCHANGED <<unused, fd, left>>
  BY Zenon DEF Initialize, GotoLabel, procVars
<1>2. fd[p] \in File /\ count[fd[p]] = Uninitialized /\ fd[p] \notin unused
  BY Zenon, <1>1 DEF CountOK, OpenIInv, FdOK
<1>3. Value # Uninitialized
  BY SemOpenAssumption DEF Uninitialized
<1>4. /\ count'[fd[p]] = Value
      /\ \A f \in File : f # fd[p] => count'[f] = count[f]
  BY Zenon, <1>1, <1>2 DEF OpenIInv, OpenTypeOK
<1>5. /\ label'[p] = "chmod"
      /\ \A q \in Proc : q # p => label'[q] = label[q]
  BY Zenon, <1>1 DEF OpenIInv, OpenTypeOK
<1>6. ASSUME NEW q \in Proc, label'[q] = "init" PROVE fd[q] # fd[p] /\ fd[q] \in File
  <2>1. q # p /\ label[q] = "init"
    BY Zenon, <1>5, <1>6
  <2> QED
    BY Zenon, <1>1, <2>1 DEF OpenIInv, CreatorOK, FdOK
<1>7. CountOK'
  <2>1. ASSUME NEW q \in Proc, left[q] # NWaits
        PROVE  /\ label'[q] \in {"opened", "dead"}
               /\ fd[q] \in File /\ count'[fd[q]] # Uninitialized
    <3>1. /\ label[q] \in {"opened", "dead"}
          /\ fd[q] \in File /\ count[fd[q]] # Uninitialized
      BY Zenon, <2>1 DEF CountOK
    <3>2. q # p /\ fd[q] # fd[p]
      BY Zenon, <1>1, <1>2, <3>1
    <3>3. count'[fd[q]] = count[fd[q]]
      BY Zenon, <1>4, <3>1, <3>2
    <3> QED
      BY Zenon, <1>5, <3>1, <3>2, <3>3
  <2>2. ASSUME NEW q \in Proc, label'[q] = "init" PROVE count'[fd[q]] = Uninitialized
    BY Zenon, <1>4, <1>5, <1>6, <2>2 DEF CountOK
  <2>3. \A f \in unused : count'[f] = Uninitialized
    BY Zenon, <1>2, <1>4 DEF CountOK, OpenIInv, OpenTypeOK
  <2> QED
    BY Zenon, <1>1, <2>1, <2>2, <2>3 DEF CountOK
<1>8. \A f \in File : Decrements(f)' = Decrements(f)
  BY Zenon, <1>1, DecrementsKept DEF OpenIInv
<1>9. Decrements(fd[p]) = {}
  <2>1. \A q \in Proc : fd[q] = fd[p] => left[q] = NWaits
    BY Zenon, <1>2 DEF CountOK
  <2>2. \A n \in 1 .. NWaits : ~ (NWaits < n)
    BY SemOpenAssumption
  <2> QED
    BY Zenon, <2>1, <2>2 DEF Decrements
<1>10. Value = Value - Cardinality({})
  <2>1. Cardinality({}) = 0
    BY Zenon, FS_EmptySet
  <2> QED
    BY <2>1, SemOpenAssumption
<1>11. NoLostDecrement'
  BY Zenon, <1>4, <1>8, <1>9, <1>10 DEF NoLostDecrement
<1> QED
  BY Zenon, <1>7, <1>11

\* A wait takes one from the count and is one decrement more.
LEMMA WaitCount ==
    ASSUME OpenIInv, CountOK, NoLostDecrement, NEW p \in Proc, Wait(p)
    PROVE  CountOK' /\ NoLostDecrement'
<1>1. PICK f : f = fd[p]
  BY Zenon
<1>2. /\ label[p] = "opened" /\ left[p] > 0 /\ count[f] > 0
      /\ count' = [count EXCEPT ![f] = count[f] - 1]
      /\ left' = [left EXCEPT ![p] = left[p] - 1] /\ UNCHANGED <<unused, fd, label>>
  BY Zenon, <1>1 DEF Wait
<1>3. /\ f \in File /\ f \notin unused /\ left[p] \in 1 .. NWaits
      /\ count[f] \in 1 .. Value
  <2>1. /\ f \in File /\ f \notin unused
    BY Zenon, <1>2, <1>1 DEF OpenIInv, FdOK
  <2>2. left[p] \in 0 .. NWaits /\ count[f] \in {Uninitialized} \cup 0 .. Value
    BY Zenon, <2>1 DEF OpenIInv, OpenTypeOK
  <2> QED
    BY <1>2, <2>1, <2>2, SemOpenAssumption DEF Uninitialized
<1>4. /\ count'[f] = count[f] - 1 /\ left'[p] = left[p] - 1
      /\ \A g \in File : g # f => count'[g] = count[g]
      /\ \A q \in Proc : q # p => left'[q] = left[q]
  BY Zenon, <1>2, <1>3 DEF OpenIInv, OpenTypeOK
<1>5. count[f] # Uninitialized /\ count[f] - 1 # Uninitialized
  BY <1>3, SemOpenAssumption DEF Uninitialized
<1>6. CountOK'
  <2>1. ASSUME NEW q \in Proc, left'[q] # NWaits
        PROVE  /\ label[q] \in {"opened", "dead"}
               /\ fd[q] \in File /\ count'[fd[q]] # Uninitialized
    <3>1. CASE q = p
      BY Zenon, <1>2, <1>3, <1>4, <1>5, <1>1, <3>1
    <3>2. CASE q # p
      <4>1. /\ label[q] \in {"opened", "dead"}
            /\ fd[q] \in File /\ count[fd[q]] # Uninitialized
        BY Zenon, <1>4, <2>1, <3>2 DEF CountOK
      <4> QED
        BY Zenon, <1>4, <1>5, <4>1
    <3> QED
      BY Zenon, <3>1, <3>2
  <2>2. ASSUME NEW q \in Proc, label[q] = "init" PROVE count'[fd[q]] = Uninitialized
    <3>1. count[fd[q]] = Uninitialized /\ fd[q] \in File
      BY Zenon, <2>2 DEF CountOK, OpenIInv, FdOK
    <3> QED
      BY Zenon, <1>4, <1>5, <3>1
  <2>3. \A g \in unused : count'[g] = Uninitialized
    BY Zenon, <1>3, <1>4 DEF CountOK, OpenIInv, OpenTypeOK
  <2> QED
    BY Zenon, <1>2, <2>1, <2>2, <2>3 DEF CountOK
<1>7. /\ Decrements(f)' = Decrements(f) \cup {<<p, left[p]>>}
      /\ <<p, left[p]>> \notin Decrements(f)
      /\ \A g \in File : g # f => Decrements(g)' = Decrements(g)
  <2>1. \A n \in 1 .. NWaits : left[p] - 1 < n <=> left[p] < n \/ n = left[p]
    BY <1>3, SemOpenAssumption
  <2>2. ~ (left[p] < left[p])
    BY <1>3
  <2>3. ASSUME NEW q \in Proc, NEW n \in 1 .. NWaits
        PROVE  left'[q] < n <=> left[q] < n \/ (q = p /\ n = left[p])
    BY Zenon, <1>4, <2>1
  <2>4. ASSUME NEW g, NEW w
        PROVE  w \in Decrements(g)' <=> \/ w \in Decrements(g)
                                        \/ g = f /\ w = <<p, left[p]>>
    <3>1. CASE w \in Proc \X (1 .. NWaits)
      <4>1. PICK q \in Proc, n \in 1 .. NWaits : w = <<q, n>>
        BY <3>1
      <4>2. w[1] = q /\ w[2] = n
        BY Zenon, <4>1
      <4>3. /\ w \in Decrements(g)' <=> fd[q] = g /\ left'[q] < n
            /\ w \in Decrements(g) <=> fd[q] = g /\ left[q] < n
        BY Zenon, <1>2, <3>1, <4>2 DEF Decrements
      <4>4. w = <<p, left[p]>> <=> q = p /\ n = left[p]
        BY Zenon, <4>1
      <4> QED
        BY Zenon, <1>1, <2>3, <4>3, <4>4
    <3>2. CASE w \notin Proc \X (1 .. NWaits)
      <4>1. w # <<p, left[p]>>
        BY <1>3, <3>2
      <4> QED
        BY Zenon, <3>2, <4>1 DEF Decrements
    <3> QED
      BY Zenon, <3>1, <3>2
  <2>5. <<p, left[p]>> \notin Decrements(f)
    BY Zenon, <2>2 DEF Decrements
  <2>6. Decrements(f)' = Decrements(f) \cup {<<p, left[p]>>}
    <3>1. \A w : w \in Decrements(f)' <=> w \in Decrements(f) \/ w = <<p, left[p]>>
      BY Zenon, <2>4
    <3> QED
      BY Zenon, <3>1
  <2>7. ASSUME NEW g \in File, g # f PROVE Decrements(g)' = Decrements(g)
    <3>1. \A w : w \in Decrements(g)' <=> w \in Decrements(g)
      BY Zenon, <2>4, <2>7
    <3> QED
      BY Zenon, <3>1
  <2> QED
    BY Zenon, <2>5, <2>6, <2>7
<1>8. /\ Cardinality(Decrements(f)') = Cardinality(Decrements(f)) + 1
      /\ Cardinality(Decrements(f)) \in Nat
  BY Zenon, <1>7, DecrementsFinite, FS_AddElement
<1>9. count[f] = Value - Cardinality(Decrements(f))
  BY Zenon, <1>3, <1>5 DEF NoLostDecrement
<1>10. count[f] - 1 = Value - (Cardinality(Decrements(f)) + 1)
  BY <1>8, <1>9, SemOpenAssumption
<1>11. NoLostDecrement'
  <2> SUFFICES ASSUME NEW g \in File, count'[g] # Uninitialized
               PROVE  count'[g] = Value - Cardinality(Decrements(g)')
    BY Zenon DEF NoLostDecrement
  <2>1. CASE g = f
    BY Zenon, <1>4, <1>8, <1>10, <2>1
  <2>2. CASE g # f
    BY Zenon, <1>4, <1>7, <2>2 DEF NoLostDecrement
  <2> QED
    BY Zenon, <2>1, <2>2
<1> QED
  BY Zenon, <1>6, <1>11

LEMMA NextCount ==
    ASSUME OpenIInv, CountOK, NoLostDecrement, [OpenNext]_openVars
    PROVE  CountOK' /\ NoLostDecrement'
<1>1. CASE UNCHANGED openVars \/ Unlink \/ Done
  <2>1. UNCHANGED <<count, left, unused, fd, label>>
    BY Zenon, <1>1 DEF openVars, fileVars, procVars, Unlink, Done
  <2> QED
    BY Zenon, <2>1, NoCountStep
<1>2. ASSUME NEW p \in Proc, Create(p) \/ Fchmod(p) \/ Exists(p) \/ Poll(p) \/ CleanUp(p)
                             \/ InitFails(p) \/ Kill(p)
      PROVE  CountOK' /\ NoLostDecrement'
  <2>1. PICK l : GotoLabel(p, l)
    BY Zenon, <1>2 DEF Create, NewFile, Fchmod, Exists, Poll, CleanUp, InitFails, Kill
  <2>2. /\ label'[p] = l
        /\ \A q \in Proc : q # p => label'[q] = label[q]
    BY Zenon, <2>1 DEF GotoLabel, OpenIInv, OpenTypeOK
  <2>3. UNCHANGED <<count, left>> /\ unused' \subseteq unused
    BY Zenon, <1>2 DEF Create, NewFile, Fchmod, Exists, Poll, CleanUp, InitFails, Kill,
       fileVars, procVars
  <2>4. \A q \in Proc : q # p => fd'[q] = fd[q]
    <3>1. fd' = fd \/ \E f : fd' = [fd EXCEPT ![p] = f]
      BY Zenon, <1>2 DEF Create, NewFile, Fchmod, Exists, Poll, CleanUp, InitFails, Kill,
         procVars
    <3> QED
      BY Zenon, <3>1 DEF OpenIInv, OpenTypeOK
  <2>5. \/ fd'[p] = fd[p] /\ (label'[p] = label[p] \/ label'[p] = "dead")
        \/ /\ label[p] \notin {"opened", "dead"}
           /\ label'[p] = "init" => fd'[p] \in unused
    <3>1. CASE Kill(p)
      <4>1. label' = [label EXCEPT ![p] = "dead"] /\ fd' = fd
        BY Zenon, <3>1 DEF Kill, GotoLabel, procVars
      <4> QED
        BY Zenon, <4>1 DEF OpenIInv, OpenTypeOK
    <3>2. CASE Create(p) /\ entry = NoFile
      <4>1. PICK f \in unused : fd' = [fd EXCEPT ![p] = f]
        BY <3>2 DEF Create, NewFile
      <4> QED
        BY Zenon, <3>2, <4>1 DEF Create, OpenIInv, OpenTypeOK
    <3>3. CASE \/ Create(p) /\ entry # NoFile
               \/ Fchmod(p) \/ Exists(p) \/ Poll(p) \/ CleanUp(p) \/ InitFails(p)
      <4>1. /\ label[p] \notin {"opened", "dead"}
            /\ GotoLabel(p, "opened") \/ GotoLabel(p, "exists") \/ GotoLabel(p, "failed") \/ GotoLabel(p, "poll")
               \/ GotoLabel(p, "again") \/ GotoLabel(p, "err")
        BY Zenon, <3>3 DEF Create, Fchmod, Exists, Poll, CleanUp, InitFails, Gone
      <4>2. label'[p] # "init"
        BY Zenon, <4>1 DEF GotoLabel, OpenIInv, OpenTypeOK
      <4> QED
        BY Zenon, <4>1, <4>2
    <3> QED
      BY Zenon, <1>2, <3>1, <3>2, <3>3
  <2>6. \A q \in Proc : \/ fd'[q] = fd[q] /\ (label'[q] = label[q] \/ label'[q] = "dead")
                        \/ /\ label[q] \notin {"opened", "dead"}
                           /\ label'[q] = "init" => fd'[q] \in unused
    BY Zenon, <2>2, <2>4, <2>5
  <2> QED
    BY Zenon, <2>3, <2>6, NoCountStep
<1> QED
  BY Zenon, <1>1, <1>2, InitializeCount, WaitCount DEF OpenNext, OpenStep

\* Every wait of testsem.c shows in the count of the file it waited on: whatever
\* processes race to create the semaphore, die or unlink it, a count is never set
\* again once a wait has decremented it.
THEOREM NoLostDecrementHolds == OpenSpec => []NoLostDecrement
<1>1. OpenInit => CountOK /\ NoLostDecrement
  <2> SUFFICES ASSUME OpenInit PROVE CountOK /\ NoLostDecrement
    OBVIOUS
  <2>1. /\ \A f \in File : count[f] = Uninitialized
        /\ \A p \in Proc : label[p] \in {"exists", "again"} /\ left[p] = NWaits
        /\ unused = File
    BY Zenon DEF OpenInit
  <2> QED
    BY Zenon, <2>1 DEF CountOK, NoLostDecrement
<1>2. OpenIInv /\ (CountOK /\ NoLostDecrement) /\ [OpenNext]_openVars => (CountOK /\ NoLostDecrement)'
  BY Zenon, NextCount
<1>3. OpenSpec => [](CountOK /\ NoLostDecrement)
  BY <1>1, <1>2, SemOpenInvariance, PTL DEF OpenSpec
<1> QED
  BY <1>3, PTL

-----------------------------------------------------------------------------
(* The powers of two that bound the doublings of rtt_timeout.  Exponents      *)
(* are counted through the sets of subsets, whose size is a power of two.     *)

LEMMA Doubling ==
    ASSUME NEW n \in Nat
    PROVE  2 ^ n \in Nat /\ 2 ^ (n + 1) = 2 * 2 ^ n
<1> DEFINE S == 1 .. n
           T == 1 .. n + 1
           A == SUBSET S
           B == {X \in SUBSET T : n + 1 \in X}
<1>1. /\ IsFiniteSet(S) /\ Cardinality(S) = n
      /\ IsFiniteSet(T) /\ Cardinality(T) = n + 1
  <2>1. /\ IsFiniteSet(S) /\ Cardinality(S) = IF 1 > n THEN 0 ELSE n - 1 + 1
        /\ IsFiniteSet(T) /\ Cardinality(T) = IF 1 > n + 1 THEN 0 ELSE n + 1 - 1 + 1
    BY FS_Interval
  <2> QED
    BY <2>1
<1>2. n + 1 \notin S /\ T = S \cup {n + 1}
  BY DEF S, T
<1>3. /\ IsFiniteSet(A) /\ Cardinality(A) = 2 ^ n /\ Cardinality(A) \in Nat
      /\ IsFiniteSet(SUBSET T) /\ Cardinality(SUBSET T) = 2 ^ (n + 1)
  BY Zenon, <1>1, FS_SUBSET, FS_CardinalityType DEF A
<1>4. ExistsBijection(A, B)
  <2> DEFINE g == [X \in A |-> X \cup {n + 1}]
  <2>1. g \in [A -> B]
    BY Zenon, <1>2 DEF A, B
  <2>2. ASSUME NEW X \in A, NEW Y \in A, g[X] = g[Y] PROVE X = Y
    <3>1. X \cup {n + 1} = Y \cup {n + 1} /\ n + 1 \notin X /\ n + 1 \notin Y
      BY Zenon, <1>2, <2>2 DEF A
    <3>2. \A z : z \in X <=> z \in Y
      BY Zenon, <3>1
    <3> QED
      BY <3>2
  <2>3. ASSUME NEW Y \in B PROVE \E X \in A : g[X] = Y
    <3>1. Y \ {n + 1} \in A /\ (Y \ {n + 1}) \cup {n + 1} = Y
      BY <1>2, <2>3 DEF A, B
    <3> QED
      BY Zenon, <3>1
  <2> HIDE DEF g
  <2>4. g \in Injection(A, B)
    BY Zenon, <2>1, <2>2 DEF Injection, IsInjective
  <2>5. g \in Surjection(A, B)
    BY Zenon, <2>1, <2>3 DEF Surjection
  <2> QED
    BY Zenon, <2>4, <2>5 DEF ExistsBijection, Bijection
<1>5. IsFiniteSet(B) /\ Cardinality(B) = Cardinality(A)
  BY Zenon, <1>3, <1>4, FS_Bijection
<1>6. SUBSET T = A \cup B /\ A \cap B = {}
  <2>1. ASSUME NEW X \in SUBSET T PROVE X \in A \cup B
    BY Zenon, <1>2 DEF A, B
  <2>2. ASSUME NEW X \in A \cup B PROVE X \in SUBSET T
    BY Zenon, <1>2 DEF A, B
  <2>3. ASSUME NEW X \in A \cap B PROVE FALSE
    BY Zenon, <1>2 DEF A, B
  <2> QED
    BY Zenon, <2>1, <2>2, <2>3
<1>7. Cardinality(A \cup B) = Cardinality(A) + Cardinality(B) - Cardinality(A \cap B)
  BY Zenon, <1>3, <1>5, FS_Union
<1>8. Cardinality(A \cap B) = 0
  BY Zenon, <1>6, FS_EmptySet
<1> HIDE DEF A, B, S, T
<1>9. Cardinality(SUBSET T) = 2 * Cardinality(A)
  <2>1. Cardinality(A) \in Nat /\ Cardinality(SUBSET T) = Cardinality(A \cup B)
    BY Zenon, <1>3, <1>6
  <2> QED
    BY <1>5, <1>7, <1>8, <2>1
<1> QED
  BY Zenon, <1>3, <1>9

\* Between requests the timeout is one that rtt_minmax has bounded: after a request
\* that was given up, rtt_init sets it anew.
IdleBounded == state = "idle" /\ rttinit => rto <= RXTMAX

LEMMA NextTimeoutBounded ==
    ASSUME RttIInv, IdleBounded, TimeoutBounded, [RttNext]_rttVars
    PROVE  IdleBounded' /\ TimeoutBounded'
<1>1. /\ rto \in Nat /\ nrexmt \in Nat /\ RXTMAX \in Nat /\ RXTMIN \in Nat
      /\ RXTMIN <= RXTMAX
  BY RttAssumption DEF RttIInv, DataOK
<1>2. 2 ^ 0 = 1
  BY SMT
<1>3. \A x \in Nat : rtt_minmax(x) <= RXTMAX
  BY <1>1 DEF rtt_minmax
<1>4. CASE Call
  <2>1. /\ state = "idle" /\ state' = "send" /\ nrexmt' = 0
        /\ (~ rttinit /\ rto' = rtt_minmax(3)) \/ (rttinit /\ rto' = rto)
    BY Zenon, <1>4 DEF Call
  <2>2. rto' <= RXTMAX
    <3>1. CASE rttinit
      BY Zenon, <2>1, <3>1 DEF IdleBounded
    <3>2. CASE ~ rttinit
      <4>1. rto' = rtt_minmax(3) /\ 3 \in Nat
        BY <2>1, <3>2
      <4> QED
        BY Zenon, <1>3, <4>1
    <3> QED
      BY Zenon, <3>1, <3>2
  <2>3. RXTMAX * 2 ^ 0 = RXTMAX
    BY <1>1, <1>2
  <2> QED
    BY Zenon, <2>1, <2>2, <2>3 DEF IdleBounded, TimeoutBounded
<1>5. CASE Alarm
  <2>1. /\ state \in {"recv", "got"} /\ rto' = 2 * rto /\ nrexmt' = nrexmt + 1
        /\ state' = "send" \/ ~ rttinit'
    BY Zenon, <1>5 DEF Alarm
  <2>2. state # "idle" /\ rto <= RXTMAX * 2 ^ nrexmt
    <3>1. state # "idle"
      BY Zenon, <2>1
    <3> QED
      BY Zenon, <3>1 DEF TimeoutBounded
  <2>3. 2 ^ nrexmt \in Nat /\ 2 ^ (nrexmt + 1) = 2 * 2 ^ nrexmt
    BY Zenon, <1>1, Doubling
  <2>4. PICK d \in Nat : d = 2 ^ nrexmt
    BY Zenon, <2>3
  <2>5. rto' <= RXTMAX * (2 * d)
    <3>1. RXTMAX * (2 * d) = 2 * (RXTMAX * d) /\ RXTMAX * d \in Nat
      BY <1>1
    <3>2. rto <= RXTMAX * d
      BY Zenon, <2>2, <2>4
    <3> QED
      BY <1>1, <2>1, <3>1, <3>2
  <2>6. rto' <= RXTMAX * 2 ^ nrexmt'
    BY Zenon, <2>1, <2>3, <2>4, <2>5
  <2> QED
    BY Zenon, <2>1, <2>6 DEF IdleBounded, TimeoutBounded
<1>6. CASE Stop
  <2>1. state' = "idle" /\ \E r \in Raw : rto' = rtt_minmax(r)
    BY Zenon, <1>6 DEF Stop
  <2>2. rto' <= RXTMAX
    BY Zenon, <1>3, <2>1, RttAssumption
  <2> QED
    BY Zenon, <2>1, <2>2 DEF IdleBounded, TimeoutBounded
<1>7. CASE UNCHANGED <<rto, nrexmt, rttinit>> /\ (state' = "idle" <=> state = "idle")
  BY Zenon, <1>7 DEF IdleBounded, TimeoutBounded
<1>8. Send \/ Recv \/ Echo \/ Lose \/ UNCHANGED rttVars =>
         UNCHANGED <<rto, nrexmt, rttinit>> /\ (state' = "idle" <=> state = "idle")
  BY Zenon DEF Send, Recv, Echo, Lose, rttVars
<1> QED
  BY Zenon, <1>4, <1>5, <1>6, <1>7, <1>8 DEF RttNext

\* However many requests are made, answered or given up, rtt_timeout never takes
\* the timeout of a request beyond RXTMAX doubled once per retransmission.
THEOREM TimeoutBoundedHolds == RttSpec => []TimeoutBounded
<1>1. RttInit => IdleBounded /\ TimeoutBounded
  BY Zenon DEF RttInit, IdleBounded, TimeoutBounded
<1>2. RttIInv /\ (IdleBounded /\ TimeoutBounded) /\ [RttNext]_rttVars
         => (IdleBounded /\ TimeoutBounded)'
  BY Zenon, NextTimeoutBounded
<1>3. RttSpec => [](IdleBounded /\ TimeoutBounded)
  BY <1>1, <1>2, RttInvariance, PTL DEF RttSpec
<1> QED
  BY <1>3, PTL
=============================================================================
