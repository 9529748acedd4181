----------------------------- MODULE PrioQueue ------------------------------
(***************************************************************************)
(* What a Posix message queue promises: a bounded queue that hands out the *)
(* message of highest priority first and, among messages of equal          *)
(* priority, the oldest one first.                                         *)
(***************************************************************************)
EXTENDS Integers, Sequences

CONSTANTS
    Capacity,       \* the most messages the queue can hold
    Message,        \* records with a field prio
    NoMessage       \* nothing was handed out yet

VARIABLES
    queue,          \* the messages, in the order they will be handed out
    got             \* the last message handed out

vars == <<queue, got>>

Init == queue = <<>> /\ got = NoMessage

\* m goes behind the messages of its priority or a higher one and before the
\* messages of a lower one.
Put(m) ==
    /\ Len(queue) < Capacity
    /\ \E k \in 0..Len(queue) :
          /\ \A i \in 1..k : queue[i].prio >= m.prio
          /\ \A i \in (k + 1)..Len(queue) : queue[i].prio < m.prio
          /\ queue' = [i \in 1..(Len(queue) + 1) |->
                         IF i <= k THEN queue[i]
                         ELSE IF i = k + 1 THEN m ELSE queue[i - 1]]
    /\ UNCHANGED got

Take ==
    /\ queue # <<>>
    /\ got' = Head(queue)
    /\ queue' = Tail(queue)

Next == (\E m \in Message : Put(m)) \/ Take

Spec == Init /\ [][Next]_vars
=============================================================================
