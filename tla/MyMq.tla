-------------------------------- MODULE MyMq --------------------------------
(***************************************************************************)
(* The message queue of unpv22e/my_pxmsg_mmap once it is created: a header *)
(* and mq_maxmsg message nodes in a file that every process maps, the      *)
(* nodes linked into a list of messages and a free list, one mutex and one *)
(* condition variable for senders and receivers alike.                     *)
(*                                                                         *)
(* Everything in the header is used under mqh_lock, so the code between    *)
(* two releases of the lock is one action.  A process has one thread and   *)
(* at most one descriptor for the queue.  Calls that fail (EBADF, EMSGSIZE,*)
(* EAGAIN, EBUSY) change nothing and are left out.                         *)
(***************************************************************************)
EXTENDS Integers, FiniteSets, Sequences

CONSTANTS
    Proc,       \* processes
    NoProc,     \* mqh_pid = 0
    MaxMsg,     \* mq_maxmsg
    Prio,       \* priorities in use
    MaxSend,    \* bound: number of mymq_send calls in a behaviour
    NoMessage

ASSUME MqAssumption ==
    /\ IsFiniteSet(Proc) /\ NoProc \notin Proc
    /\ MaxMsg \in Nat \ {0} /\ MaxSend \in Nat
    /\ Prio \subseteq Nat

Node == 1..MaxMsg
Message == [prio : Prio, body : 1..MaxSend]

VARIABLES
    mqh_head, mqh_free,     \* first node of each list, 0 for none
    msg_next,               \* the link in each node
    msg,                    \* msg_prio and the data of each node
    mq_curmsgs, mqh_nwait,
    mqh_pid, mqh_event,     \* registered process; its event is a signal
    mqi_open, mqi_nonblock, \* per process: mqi_magic is set, O_NONBLOCK
    pc,                     \* where each process is
    arg,                    \* the message of a process blocked in mymq_send
    got,                    \* the last message mymq_receive copied out
    nsig,                   \* signals queued to each process
    nsend,                  \* mymq_send calls so far; names the messages
    aborted                 \* a process called err_dump with mqh_lock locked

listVars == <<mqh_head, mqh_free, msg_next, msg, mq_curmsgs>>
regVars == <<mqh_pid, mqh_event, nsig>>
openVars == <<mqi_open, mqi_nonblock>>

vars == <<listVars, mqh_nwait, regVars, openVars, pc, arg, got, nsend,
          aborted>>

Is(label) == {p \in Proc : pc[p] = label}

\* pthread_cond_signal on mqh_wait: one process wakes, sender or receiver.
CondSignal(f) ==
    LET waiting == {p \in Proc : f[p] \in {"sendwait", "recvwait"}}
        wake(p) == IF f[p] = "sendwait" THEN "sendwake" ELSE "recvwake"
    IN  IF waiting = {} THEN {f}
        ELSE {[f EXCEPT ![p] = wake(p)] : p \in waiting}

Return(p) == [pc EXCEPT ![p] = "idle"]

\* The queue as mymq_open leaves it in the file, and no descriptor open.
Init ==
    /\ mqh_head = 0
    /\ mqh_free = 1
    /\ msg_next = [i \in Node |-> IF i < MaxMsg THEN i + 1 ELSE 0]
    /\ msg = [i \in Node |-> NoMessage]
    /\ mq_curmsgs = 0
    /\ mqh_nwait = 0
    /\ mqh_pid = NoProc
    /\ mqh_event = FALSE
    /\ mqi_open = [p \in Proc |-> FALSE]
    /\ mqi_nonblock = [p \in Proc |-> FALSE]
    /\ pc = [p \in Proc |-> "idle"]
    /\ arg = [p \in Proc |-> NoMessage]
    /\ got = NoMessage
    /\ nsig = [p \in Proc |-> 0]
    /\ nsend = 0
    /\ aborted = FALSE

-----------------------------------------------------------------------------

Idle(p) == pc[p] = "idle" /\ mqi_open[p]

\* mymq_open of the existing queue.
Open(p) ==
    /\ pc[p] = "idle" /\ ~mqi_open[p]
    /\ mqi_open' = [mqi_open EXCEPT ![p] = TRUE]
    /\ \E nonblock \in BOOLEAN :
          mqi_nonblock' = [mqi_nonblock EXCEPT ![p] = nonblock]
    /\ UNCHANGED <<listVars, mqh_nwait, regVars, pc, arg, got, nsend,
                   aborted>>

\* mymq_close unregisters the caller first.
Close(p) ==
    /\ Idle(p)
    /\ mqh_pid' = IF mqh_pid = p THEN NoProc ELSE mqh_pid
    /\ mqi_open' = [mqi_open EXCEPT ![p] = FALSE]
    /\ UNCHANGED <<listVars, mqh_nwait, mqh_event, nsig, mqi_nonblock, pc, arg,
                   got, nsend, aborted>>

\* mymq_setattr changes O_NONBLOCK of this descriptor only.
SetAttr(p) ==
    /\ Idle(p)
    /\ mqi_nonblock' = [mqi_nonblock EXCEPT ![p] = ~@]
    /\ UNCHANGED <<listVars, mqh_nwait, regVars, mqi_open, pc, arg, got,
                   nsend, aborted>>

\* mymq_notify with an event: a registered process that is gone is replaced.
Register(p) ==
    /\ Idle(p)
    /\ mqh_pid = NoProc \/ mqh_pid \in Is("dead")
    /\ mqh_pid' = p
    /\ mqh_event' \in BOOLEAN
    /\ UNCHANGED <<listVars, mqh_nwait, nsig, openVars, pc, arg, got,
                   nsend, aborted>>

\* mymq_notify with NULL.
Unregister(p) ==
    /\ Idle(p) /\ mqh_pid = p
    /\ mqh_pid' = NoProc
    /\ UNCHANGED <<listVars, mqh_nwait, mqh_event, nsig, openVars, pc, arg, got,
                   nsend, aborted>>

-----------------------------------------------------------------------------

\* Mutant: a message overtakes those of its own priority.
GoesBeforeEqual(m, x) == m.prio >= x.prio

\* A message goes before the first one of lower priority.
GoesBefore(m, x) == m.prio > x.prio

\* The loop that looks for the place of m: index takes the values s[0], s[1],
\* ..., s[n], and the node before the last one is *pmsghdr.
Scan(m, n, s) ==
    /\ s[0] = mqh_head
    /\ \A k \in 0..(n - 1) : s[k] # 0 /\ s[k + 1] = msg_next[s[k]]
    /\ \A k \in 0..(n - 1) : ~GoesBefore(m, msg[s[k]])
    /\ s[n] # 0 => GoesBefore(m, msg[s[n]])

WasEmpty == mq_curmsgs = 0

\* The free node is filled and linked in; if the queue was empty one waiting
\* process is signalled.
LinkIn(p, m) ==
    LET new == mqh_free IN
    /\ \E n \in 0..MaxMsg : \E s \in [0..n -> 0..MaxMsg] :
          /\ Scan(m, n, s)
          /\ mqh_head' = IF n = 0 THEN new ELSE mqh_head
          /\ msg_next' = [i \in Node |-> IF i = new THEN s[n]
                                         ELSE IF n > 0 /\ i = s[n - 1] THEN new
                                         ELSE msg_next[i]]
    /\ mqh_free' = msg_next[new]
    /\ msg' = [msg EXCEPT ![new] = m]
    /\ pc' \in IF WasEmpty THEN CondSignal(Return(p)) ELSE {Return(p)}
    /\ mq_curmsgs' = mq_curmsgs + 1

\* mymq_send from line 56 on.
Enqueue(p, m) ==
    /\ aborted' = (mqh_free = 0)
    /\ IF aborted' THEN UNCHANGED <<listVars, pc>> ELSE LinkIn(p, m)

\* Mutant: blocked receivers are not looked at.
NotifyArrivalAlways ==
    IF mq_curmsgs = 0 /\ mqh_pid # NoProc
    THEN /\ nsig' = IF mqh_event /\ mqh_pid \notin Is("dead")
                    THEN [nsig EXCEPT ![mqh_pid] = @ + 1] ELSE nsig
         /\ mqh_pid' = NoProc
    ELSE UNCHANGED <<mqh_pid, nsig>>

\* The notification at the front of mymq_send, when it finds the queue empty.
NotifyArrival ==
    IF mq_curmsgs = 0 /\ mqh_pid # NoProc /\ mqh_nwait = 0
    THEN /\ nsig' = IF mqh_event /\ mqh_pid \notin Is("dead")
                    THEN [nsig EXCEPT ![mqh_pid] = @ + 1] ELSE nsig
         /\ mqh_pid' = NoProc
    ELSE UNCHANGED <<mqh_pid, nsig>>

\* mymq_send up to its return or its first wait.
Send(p) ==
    /\ Idle(p) /\ nsend < MaxSend
    /\ nsend' = nsend + 1
    /\ \E prio \in Prio :
         LET m == [prio |-> prio, body |-> nsend'] IN
         \/ /\ mq_curmsgs < MaxMsg
            /\ NotifyArrival
            /\ Enqueue(p, m)
            /\ UNCHANGED arg
         \/ /\ mq_curmsgs >= MaxMsg /\ ~mqi_nonblock[p]
            /\ pc' = [pc EXCEPT ![p] = "sendwait"]
            /\ arg' = [arg EXCEPT ![p] = m]
            /\ UNCHANGED <<listVars, mqh_pid, nsig, aborted>>
    /\ UNCHANGED <<mqh_nwait, mqh_event, openVars, got>>

\* Mutant: the room is not tested again.
SendResumeUntested(p) ==
    /\ pc[p] = "sendwake"
    /\ Enqueue(p, arg[p])
    /\ arg' = [arg EXCEPT ![p] = NoMessage]
    /\ UNCHANGED <<mqh_nwait, regVars, openVars, got, nsend>>

\* A sender that comes back from pthread_cond_wait.
SendResume(p) ==
    /\ pc[p] = "sendwake"
    /\ \/ /\ mq_curmsgs >= MaxMsg
          /\ pc' = [pc EXCEPT ![p] = "sendwait"]
          /\ UNCHANGED <<listVars, arg, aborted>>
       \/ /\ mq_curmsgs < MaxMsg
          /\ Enqueue(p, arg[p])
          /\ arg' = [arg EXCEPT ![p] = NoMessage]
    /\ UNCHANGED <<mqh_nwait, regVars, openVars, got, nsend>>

WasFull == mq_curmsgs = MaxMsg

\* Mutant: the node goes to the free list without the rest of that list.
LinkOutDroppingFree(p) ==
    /\ mqh_head' = msg_next[mqh_head]
    /\ got' = msg[mqh_head]
    /\ mqh_free' = mqh_head
    /\ pc' \in IF WasFull THEN CondSignal(Return(p)) ELSE {Return(p)}
    /\ mq_curmsgs' = mq_curmsgs - 1
    /\ UNCHANGED <<msg, msg_next>>

\* The first message is copied out and its node put at the front of the free
\* list; if the queue was full one waiting process is signalled.
LinkOut(p) ==
    /\ mqh_head' = msg_next[mqh_head]
    /\ got' = msg[mqh_head]
    /\ msg_next' = [msg_next EXCEPT ![mqh_head] = mqh_free]
    /\ mqh_free' = mqh_head
    /\ pc' \in IF WasFull THEN CondSignal(Return(p)) ELSE {Return(p)}
    /\ mq_curmsgs' = mq_curmsgs - 1
    /\ UNCHANGED msg

\* mymq_receive from line 48 on.
Dequeue(p) ==
    /\ aborted' = (mqh_head = 0)
    /\ IF aborted' THEN UNCHANGED <<listVars, pc, got>> ELSE LinkOut(p)

\* mymq_receive up to its return or its first wait.
Receive(p) ==
    /\ Idle(p)
    /\ \/ /\ mq_curmsgs > 0
          /\ Dequeue(p)
          /\ UNCHANGED mqh_nwait
       \/ /\ mq_curmsgs = 0 /\ ~mqi_nonblock[p]
          /\ mqh_nwait' = mqh_nwait + 1
          /\ pc' = [pc EXCEPT ![p] = "recvwait"]
          /\ UNCHANGED <<listVars, got, aborted>>
    /\ UNCHANGED <<regVars, openVars, arg, nsend>>

\* Mutant: mqh_nwait is decremented inside the loop.
ReceiveResumeDecrements(p) ==
    /\ pc[p] = "recvwake"
    /\ mqh_nwait' = mqh_nwait - 1
    /\ \/ /\ mq_curmsgs = 0
          /\ pc' = [pc EXCEPT ![p] = "recvwait"]
          /\ UNCHANGED <<listVars, got, aborted>>
       \/ /\ mq_curmsgs > 0
          /\ Dequeue(p)
    /\ UNCHANGED <<regVars, openVars, arg, nsend>>

\* A receiver that comes back from pthread_cond_wait.
ReceiveResume(p) ==
    /\ pc[p] = "recvwake"
    /\ \/ /\ mq_curmsgs = 0
          /\ pc' = [pc EXCEPT ![p] = "recvwait"]
          /\ UNCHANGED <<listVars, mqh_nwait, got, aborted>>
       \/ /\ mq_curmsgs > 0
          /\ mqh_nwait' = mqh_nwait - 1
          /\ Dequeue(p)
    /\ UNCHANGED <<regVars, openVars, arg, nsend>>

\* pthread_cond_wait may return without a signal.
SpuriousWakeup(p) ==
    /\ \/ pc[p] = "sendwait" /\ pc' = [pc EXCEPT ![p] = "sendwake"]
       \/ pc[p] = "recvwait" /\ pc' = [pc EXCEPT ![p] = "recvwake"]
    /\ UNCHANGED <<listVars, mqh_nwait, regVars, openVars, arg, got, nsend,
                   aborted>>

\* The process is killed between calls or inside pthread_cond_wait: nothing in
\* the mapped file changes.
Kill(p) ==
    /\ pc[p] # "dead"
    /\ pc' = [pc EXCEPT ![p] = "dead"]
    /\ mqi_open' = [mqi_open EXCEPT ![p] = FALSE]
    /\ arg' = [arg EXCEPT ![p] = NoMessage]
    /\ UNCHANGED <<listVars, mqh_nwait, regVars, mqi_nonblock, got, nsend,
                   aborted>>

\* Every call needs mqh_lock, which an aborted process leaves locked.
Step(p) ==
    /\ ~aborted
    /\ \/ Open(p) \/ Close(p) \/ SetAttr(p) \/ Register(p) \/ Unregister(p)
       \/ Send(p) \/ SendResume(p) \/ Receive(p) \/ ReceiveResume(p)
       \/ SpuriousWakeup(p)

Calls == \E p \in Proc : Step(p)

Next == Calls \/ \E p \in Proc : Kill(p)

Spec == Init /\ [][Next]_vars

\* The same while no process is killed.
CallSpec == Init /\ [][Calls]_vars

-----------------------------------------------------------------------------

\* The header and the processes' places have their types.
TypeOK ==
    /\ {mqh_head, mqh_free} \subseteq 0..MaxMsg
    /\ msg_next \in [Node -> 0..MaxMsg]
    /\ msg \in [Node -> Message \cup {NoMessage}]
    /\ mq_curmsgs \in 0..MaxMsg
    /\ mqh_nwait \in Nat
    /\ mqh_pid \in Proc \cup {NoProc} /\ mqh_event \in BOOLEAN
    /\ mqi_open \in [Proc -> BOOLEAN] /\ mqi_nonblock \in [Proc -> BOOLEAN]
    /\ pc \in [Proc -> {"idle", "sendwait", "sendwake", "recvwait", "recvwake",
                       "dead"}]
    /\ arg \in [Proc -> Message \cup {NoMessage}]
    /\ got \in Message \cup {NoMessage}
    /\ nsig \in [Proc -> Nat]
    /\ nsend \in 0..MaxSend
    /\ aborted \in BOOLEAN

\* g lists the nodes in the order of the links: the mq_curmsgs messages first,
\* the free nodes behind them, each node once.
Layout(g) ==
    /\ \A i, j \in Node : g[i] = g[j] => i = j
    /\ \A x \in Node : \E i \in Node : g[i] = x
    /\ mqh_head = IF mq_curmsgs = 0 THEN 0 ELSE g[1]
    /\ mqh_free = IF mq_curmsgs = MaxMsg THEN 0 ELSE g[mq_curmsgs + 1]
    /\ \A i \in Node :
          msg_next[g[i]] = IF i = mq_curmsgs \/ i = MaxMsg THEN 0 ELSE g[i + 1]

\* The pointer surgery of mymq_send and mymq_receive neither loses nor shares a
\* node: every node is on exactly one of the two lists, both lists end, and
\* mq_curmsgs is the length of the message list.
ListsPartition == \E g \in [Node -> Node] : Layout(g)

\* The err_dump calls of mymq_send ("free = 0") and mymq_receive ("head = 0"),
\* both made with the lock held, are never reached.
NoErrDump == ~aborted

\* The messages on the list, first to be received first.
Queue ==
    LET g == CHOOSE g \in [Node -> Node] : Layout(g)
    IN  [i \in 1..mq_curmsgs |-> msg[g[i]]]

PQ == INSTANCE PrioQueue WITH Capacity <- MaxMsg, queue <- Queue

\* The linked list, its insertion loop and the waits of mymq_send and
\* mymq_receive implement the abstract queue: priority order, first in first
\* out within a priority, no message lost, invented or handed out twice.
IsPrioQueue == PQ!Spec

Receivers == Is("recvwait") \cup Is("recvwake")

\* No receiver that is blocked goes uncounted: mymq_send never takes the queue
\* for one without receivers while it has some.
NwaitCoversReceivers == mqh_nwait >= Cardinality(Receivers)

\* A process that closed the queue is not left registered for notification; one
\* that was killed may be, until the next mymq_notify or message.
RegisteredIsOpen ==
    mqh_pid # NoProc => mqi_open[mqh_pid] \/ pc[mqh_pid] = "dead"

\* testmq.c: "send another and make certain another signal is not sent" and
\* "child calls mq_receive, which prevents notification".  A process gets a
\* signal only while it is registered, it is not registered any more
\* afterwards, the message came to an empty queue, and no other process was
\* blocked in mymq_receive to take it.
SignalOnlyWhenDue ==
    [][\A p \in Proc : nsig'[p] # nsig[p] =>
          /\ nsig'[p] = nsig[p] + 1
          /\ mqh_pid = p /\ mqh_pid' # p
          /\ Queue = <<>> /\ Queue' # <<>>
          /\ Receivers = {}]_vars

\* "wake up anyone blocked in mq_receive waiting for a message" (mq_send.c) and
\* "wake up anyone blocked in mq_send waiting for room" (mq_receive.c).  While
\* there is a message and a receiver is blocked, a receiver has been woken;
\* while there is room and a sender is blocked, a sender has been woken.
BlockedAreWoken ==
    /\ mq_curmsgs > 0 /\ Is("recvwait") # {} => Is("recvwake") # {}
    /\ mq_curmsgs < MaxMsg /\ Is("sendwait") # {} => Is("sendwake") # {}
=============================================================================
