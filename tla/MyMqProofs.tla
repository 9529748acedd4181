----------------------------- MODULE MyMqProofs -----------------------------
(***************************************************************************)
(* Proofs about MyMq for every finite set of processes, every mq_maxmsg,   *)
(* every set of priorities and every number of mymq_send calls: the two    *)
(* lists partition the nodes, the err_dump calls are not reached, and the  *)
(* linked list implements PrioQueue.                                       *)
(***************************************************************************)
EXTENDS MyMq, WellFoundedInduction, TLAPS

\* The least-number principle, which stands in for induction along a list.
LEMMA Least ==
    ASSUME NEW T, T \subseteq Nat, T # {}
    PROVE  \E x \in T : \A y \in T : x <= y
<1> DEFINE R == OpToRel(<, Nat)
<1>1. IsWellFoundedOn(R, Nat)
  BY Zenon, NatLessThanWellFounded
<1> HIDE DEF R
<1>2. PICK x \in T : \A y \in T : ~ (<<y, x>> \in R)
  BY Zenon, <1>1, WFMin
<1>3. \A y \in T : <<y, x>> \in R <=> y < x
  BY Zenon DEF R, OpToRel
<1>4. ASSUME NEW y \in T PROVE x <= y
  <2>1. x \in Nat /\ y \in Nat /\ ~(y < x)
    BY Zenon, <1>2, <1>3
  <2> QED
    BY <2>1
<1> QED
  BY Zenon, <1>4

-----------------------------------------------------------------------------

\* Where the i-th node was before the first free node, which is the c + 1st, is
\* moved behind the n-th.
Into(c, n, i) ==
    IF i <= n THEN i ELSE IF i = n + 1 THEN c + 1
    ELSE IF i <= c + 1 THEN i - 1 ELSE i

\* Where the i-th node was before the first node is moved behind the c-th.
OutOf(c, i) == IF i < c THEN i + 1 ELSE IF i = c THEN 1 ELSE i

\* Both moves permute the places.
LEMMA IntoPermutes ==
    ASSUME NEW c \in Nat, c < MaxMsg, NEW n \in 0..c
    PROVE  /\ \A i \in Node : Into(c, n, i) \in Node
           /\ \A i, j \in Node : Into(c, n, i) = Into(c, n, j) => i = j
           /\ \A x \in Node : \E i \in Node : Into(c, n, i) = x
<1>1. MaxMsg \in Nat
  BY Zenon, MqAssumption
<1>2. \A i \in Node : Into(c, n, i) \in Node
  BY <1>1 DEF Into, Node
<1>3. \A i, j \in Node : Into(c, n, i) = Into(c, n, j) => i = j
  BY <1>1 DEF Into, Node
<1>4. ASSUME NEW x \in Node PROVE \E i \in Node : Into(c, n, i) = x
  <2>1. x \in 1..MaxMsg
    BY Zenon DEF Node
  <2>2. CASE x <= n \/ x > c + 1
    BY <1>1, <2>1, <2>2 DEF Into
  <2>3. CASE n < x /\ x <= c
    <3>1. x + 1 \in Node
      BY <1>1, <2>1, <2>3 DEF Node
    <3>2. Into(c, n, x + 1) = x
      BY <1>1, <2>1, <2>3 DEF Into
    <3> QED
      BY Zenon, <3>1, <3>2
  <2>4. CASE x = c + 1
    <3>1. n + 1 \in Node /\ Into(c, n, n + 1) = x
      BY <1>1, <2>1, <2>4 DEF Into, Node
    <3> QED
      BY Zenon, <3>1
  <2> QED
    BY <2>1, <2>2, <2>3, <2>4
<1> QED
  BY Zenon, <1>2, <1>3, <1>4

LEMMA OutOfPermutes ==
    ASSUME NEW c \in Node
    PROVE  /\ \A i \in Node : OutOf(c, i) \in Node
           /\ \A i, j \in Node : OutOf(c, i) = OutOf(c, j) => i = j
           /\ \A x \in Node : \E i \in Node : OutOf(c, i) = x
<1>1. MaxMsg \in Nat
  BY Zenon, MqAssumption
<1>2. \A i \in Node : OutOf(c, i) \in Node
  BY <1>1 DEF OutOf, Node
<1>3. \A i, j \in Node : OutOf(c, i) = OutOf(c, j) => i = j
  BY <1>1 DEF OutOf, Node
<1>4. ASSUME NEW x \in Node PROVE \E i \in Node : OutOf(c, i) = x
  <2>1. x \in 1..MaxMsg /\ c \in 1..MaxMsg
    BY Zenon DEF Node
  <2>2. CASE x > c
    BY <1>1, <2>1, <2>2 DEF OutOf
  <2>3. CASE 1 < x /\ x <= c
    <3>1. x - 1 \in Node /\ OutOf(c, x - 1) = x
      BY <1>1, <2>1, <2>3 DEF OutOf, Node
    <3> QED
      BY Zenon, <3>1
  <2>4. CASE x = 1
    <3>1. OutOf(c, c) = x
      BY <2>1, <2>4 DEF OutOf
    <3> QED
      BY Zenon, <3>1
  <2> QED
    BY <2>1, <2>2, <2>3, <2>4
<1> QED
  BY Zenon, <1>2, <1>3, <1>4

\* h lists every node once; so it does after a move.
Permuted(h) ==
    /\ h \in [Node -> Node]
    /\ \A i, j \in Node : h[i] = h[j] => i = j
    /\ \A x \in Node : \E i \in Node : h[i] = x

LEMMA MovedIn ==
    ASSUME NEW c \in Nat, c < MaxMsg, NEW n \in 0..c,
           NEW g \in [Node -> Node],
           \A i, j \in Node : g[i] = g[j] => i = j,
           \A x \in Node : \E i \in Node : g[i] = x,
           NEW h, h = [i \in Node |-> g[Into(c, n, i)]]
    PROVE  Permuted(h)
<1>1. \A i \in Node : Into(c, n, i) \in Node /\ h[i] = g[Into(c, n, i)]
  BY Zenon, IntoPermutes
<1>2. h \in [Node -> Node]
  BY Zenon, <1>1
<1>3. \A i, j \in Node : h[i] = h[j] => i = j
  BY <1>1, IntoPermutes
<1>4. ASSUME NEW x \in Node PROVE \E i \in Node : h[i] = x
  <2>1. PICK k \in Node : g[k] = x
    OBVIOUS
  <2>2. PICK i \in Node : Into(c, n, i) = k
    BY Zenon, IntoPermutes
  <2> QED
    BY Zenon, <1>1, <2>1, <2>2
<1> QED
  BY Zenon, <1>2, <1>3, <1>4 DEF Permuted

LEMMA MovedOut ==
    ASSUME NEW c \in Node, NEW g \in [Node -> Node],
           \A i, j \in Node : g[i] = g[j] => i = j,
           \A x \in Node : \E i \in Node : g[i] = x,
           NEW h, h = [i \in Node |-> g[OutOf(c, i)]]
    PROVE  Permuted(h)
<1>1. \A i \in Node : OutOf(c, i) \in Node /\ h[i] = g[OutOf(c, i)]
  BY Zenon, OutOfPermutes
<1>2. h \in [Node -> Node]
  BY Zenon, <1>1
<1>3. \A i, j \in Node : h[i] = h[j] => i = j
  BY <1>1, OutOfPermutes
<1>4. ASSUME NEW x \in Node PROVE \E i \in Node : h[i] = x
  <2>1. PICK k \in Node : g[k] = x
    OBVIOUS
  <2>2. PICK i \in Node : OutOf(c, i) = k
    BY Zenon, OutOfPermutes
  <2> QED
    BY Zenon, <1>1, <2>1, <2>2
<1> QED
  BY Zenon, <1>2, <1>3, <1>4 DEF Permuted

\* The insertion loop follows the list of messages and stays on it.
LEMMA ScanFollows ==
    ASSUME TypeOK, NEW g \in [Node -> Node], Layout(g), NEW m,
           NEW n \in 0..MaxMsg, NEW s \in [0..n -> 0..MaxMsg], Scan(m, n, s)
    PROVE  /\ n <= mq_curmsgs
           /\ \A k \in 0..n : s[k] = IF k < mq_curmsgs THEN g[k + 1] ELSE 0
<1> DEFINE P(k) == /\ k <= mq_curmsgs
                   /\ s[k] = IF k < mq_curmsgs THEN g[k + 1] ELSE 0
           T == {k \in 0..n : ~P(k)}
<1>1. SUFFICES T = {}
  OBVIOUS
<1>2. SUFFICES ASSUME T # {} PROVE FALSE
  OBVIOUS
<1>3. PICK x \in T : \A y \in T : x <= y
  <2>1. T \subseteq Nat
    OBVIOUS
  <2> HIDE DEF T
  <2> QED
    BY Zenon, <1>2, <2>1, Least
<1>4. mq_curmsgs \in 0..MaxMsg /\ MaxMsg \in Nat /\ x \in 0..n
  BY Zenon, MqAssumption DEF TypeOK
<1>5. P(0)
  BY <1>4 DEF Scan, Layout
<1>6. x > 0
  BY <1>3, <1>4, <1>5
<1>7. P(x - 1)
  BY <1>3, <1>4, <1>6
<1>8. s[x - 1] # 0 /\ s[x] = msg_next[s[x - 1]]
  <2>1. x - 1 \in 0..(n - 1) /\ (x - 1) + 1 = x
    BY <1>4, <1>6
  <2> QED
    BY Zenon, <2>1 DEF Scan
<1>9. x - 1 < mq_curmsgs /\ s[x - 1] = g[x]
  BY <1>4, <1>7, <1>8
<1>10. msg_next[g[x]] = IF x = mq_curmsgs \/ x = MaxMsg THEN 0 ELSE g[x + 1]
  <2>1. x \in Node
    BY <1>4, <1>6 DEF Node
  <2> QED
    BY Zenon, <2>1 DEF Layout
<1>11. P(x)
  BY <1>4, <1>8, <1>9, <1>10
<1> QED
  BY Zenon, <1>11

\* What mymq_send does to the lists when it finds c messages, laid out along g,
\* and inserts behind the n-th.
LinkedIn(g, c, n) ==
    LET next == IF n < c THEN g[n + 1] ELSE 0 IN
    /\ mq_curmsgs = c /\ mq_curmsgs' = c + 1
    /\ mqh_head' = IF n = 0 THEN mqh_free ELSE mqh_head
    /\ msg_next' = [i \in Node |-> IF i = mqh_free THEN next
                                   ELSE IF n > 0 /\ i = g[n] THEN mqh_free
                                   ELSE msg_next[i]]
    /\ mqh_free' = msg_next[mqh_free]

\* Inserting behind the n-th message keeps the layout.
LEMMA LinkInLayout ==
    ASSUME NEW c \in Nat, c < MaxMsg, NEW n \in 0..c,
           NEW g \in [Node -> Node], Layout(g), LinkedIn(g, c, n),
           NEW h, h = [i \in Node |-> g[Into(c, n, i)]]
    PROVE  Layout(h)'
<1>1. MaxMsg \in Nat /\ c + 1 \in Node /\ n + 1 \in Node /\ 1 \in Node
  BY MqAssumption DEF Node
<1>2. /\ \A i, j \in Node : g[i] = g[j] => i = j
      /\ \A x \in Node : \E i \in Node : g[i] = x
      /\ c > 0 => mqh_head = g[1]
      /\ mqh_free = g[c + 1]
      /\ \A i \in Node :
            msg_next[g[i]] = IF i = c \/ i = MaxMsg THEN 0 ELSE g[i + 1]
  BY DEF Layout, LinkedIn
<1>3. Permuted(h)
  BY <1>2, MovedIn
<1>4. ASSUME NEW i \in Node
      PROVE  /\ i <= n => h[i] = g[i]
             /\ i = n + 1 => h[i] = g[c + 1]
             /\ n + 1 < i /\ i <= c + 1 => i - 1 \in Node /\ h[i] = g[i - 1]
             /\ i > c + 1 => h[i] = g[i]
  <2>1. h[i] = g[Into(c, n, i)] /\ i \in 1..MaxMsg
    BY Zenon DEF Node
  <2>2. /\ i <= n => Into(c, n, i) = i
        /\ i = n + 1 => Into(c, n, i) = c + 1
        /\ n + 1 < i /\ i <= c + 1 => i - 1 \in Node /\ Into(c, n, i) = i - 1
        /\ i > c + 1 => Into(c, n, i) = i
    BY <1>1, <2>1 DEF Into, Node
  <2> QED
    BY Zenon, <2>1, <2>2
<1>5. ASSUME NEW x \in Node
      PROVE  msg_next'[x] = IF x = g[c + 1]
                            THEN IF n < c THEN g[n + 1] ELSE 0
                            ELSE IF n > 0 /\ x = g[n] THEN g[c + 1]
                            ELSE msg_next[x]
  BY Zenon, <1>2 DEF LinkedIn
<1>6. mqh_head' = IF mq_curmsgs' = 0 THEN 0 ELSE h[1]
  <2>1. mqh_head' = IF n = 0 THEN g[c + 1] ELSE mqh_head
    BY Zenon, <1>2 DEF LinkedIn
  <2>2. mq_curmsgs' # 0
    BY DEF LinkedIn
  <2>3. CASE n = 0
    BY <1>1, <1>4, <2>1, <2>2, <2>3
  <2>4. CASE n > 0
    BY <1>1, <1>2, <1>4, <2>1, <2>2, <2>4
  <2> QED
    BY <2>3, <2>4
<1>7. mqh_free' = IF mq_curmsgs' = MaxMsg THEN 0 ELSE h[mq_curmsgs' + 1]
  <2>1. mqh_free' = IF c + 1 = MaxMsg THEN 0 ELSE g[(c + 1) + 1]
    <3>1. mqh_free' = msg_next[g[c + 1]]
      BY Zenon, <1>2 DEF LinkedIn
    <3> QED
      BY <1>1, <1>2, <3>1
  <2>2. c + 1 # MaxMsg => (c + 1) + 1 \in Node /\ (c + 1) + 1 > c + 1
    BY <1>1 DEF Node
  <2>3. mq_curmsgs' = c + 1
    BY Zenon DEF LinkedIn
  <2> QED
    BY Zenon, <1>4, <2>1, <2>2, <2>3
<1>8. ASSUME NEW i \in Node
      PROVE  msg_next'[h[i]] = IF i = c + 1 \/ i = MaxMsg THEN 0 ELSE h[i + 1]
  <2>1. i \in 1..MaxMsg /\ (i # MaxMsg => i + 1 \in Node) /\ h[i] \in Node
    BY <1>1, <1>3 DEF Node, Permuted
  <2>2. n > 0 => n \in Node
    BY <1>1 DEF Node
  <2>3. CASE i < n
    <3>1. h[i] = g[i] /\ h[i + 1] = g[i + 1] /\ n \in Node /\ i # MaxMsg
      BY <1>1, <1>4, <2>1, <2>2, <2>3
    <3>2. g[i] # g[c + 1] /\ g[i] # g[n]
      BY <1>1, <1>2, <2>1, <2>3, <3>1
    <3>3. msg_next'[h[i]] = msg_next[g[i]]
      BY Zenon, <1>5, <2>1, <3>1, <3>2
    <3> QED
      BY <1>2, <2>1, <2>3, <3>1, <3>3
  <2>4. CASE i = n
    <3>1. h[i] = g[n] /\ n > 0 /\ n # c + 1 /\ n # MaxMsg
      BY <1>4, <2>1, <2>4
    <3>2. g[n] # g[c + 1]
      BY Zenon, <1>1, <1>2, <2>2, <3>1
    <3>3. msg_next'[h[i]] = g[c + 1]
      BY Zenon, <1>5, <2>1, <3>1, <3>2
    <3>4. h[i + 1] = g[c + 1]
      BY Zenon, <1>1, <1>4, <2>4
    <3> QED
      BY Zenon, <2>4, <3>1, <3>3, <3>4
  <2>5. CASE i = n + 1
    <3>1. msg_next'[h[i]] = IF n < c THEN g[n + 1] ELSE 0
      BY Zenon, <1>4, <1>5, <2>1, <2>5
    <3>2. n < c => /\ i + 1 \in Node /\ n + 1 < i + 1 /\ i + 1 <= c + 1
                   /\ (i + 1) - 1 = n + 1 /\ i # MaxMsg /\ i # c + 1
      BY <1>1, <2>1, <2>5 DEF Node
    <3>3. n < c => h[i + 1] = g[n + 1]
      BY Zenon, <1>4, <3>2
    <3>4. ~(n < c) => i = c + 1
      BY <2>5
    <3> QED
      BY Zenon, <3>1, <3>2, <3>3, <3>4
  <2>6. CASE n + 1 < i /\ i <= c + 1
    <3>1. i - 1 \in Node /\ h[i] = g[i - 1]
      BY Zenon, <1>4, <2>6
    <3>2. /\ i - 1 # c + 1 /\ i - 1 # n /\ i - 1 # MaxMsg /\ (i - 1) + 1 = i
          /\ (i - 1 = c <=> i = c + 1) /\ (i = MaxMsg => i = c + 1)
      BY <2>1, <2>6
    <3>3. g[i - 1] # g[c + 1] /\ (n > 0 => g[i - 1] # g[n])
      BY Zenon, <1>1, <1>2, <2>2, <3>1, <3>2
    <3>4. msg_next'[h[i]] = msg_next[g[i - 1]]
      BY Zenon, <1>5, <2>1, <3>1, <3>3
    <3>5. msg_next[g[i - 1]] = IF i = c + 1 THEN 0 ELSE g[i]
      BY Zenon, <1>2, <3>1, <3>2
    <3>6. i # c + 1 => /\ i + 1 \in Node /\ n + 1 < i + 1 /\ i + 1 <= c + 1
                       /\ (i + 1) - 1 = i
      BY <1>1, <2>1, <2>6 DEF Node
    <3>7. i # c + 1 => h[i + 1] = g[i]
      BY <1>4, <3>6
    <3> QED
      BY Zenon, <3>2, <3>4, <3>5, <3>7
  <2>7. CASE i > c + 1
    <3>1. h[i] = g[i] /\ (i # MaxMsg => h[i + 1] = g[i + 1])
      BY <1>4, <2>1, <2>7
    <3>2. i # c + 1 /\ i # n /\ i # c
      BY <2>1, <2>7
    <3>3. g[i] # g[c + 1] /\ (n > 0 => g[i] # g[n])
      BY Zenon, <1>1, <1>2, <2>2, <3>2
    <3>4. msg_next'[h[i]] = msg_next[g[i]]
      BY Zenon, <1>5, <2>1, <3>1, <3>3
    <3> QED
      BY Zenon, <1>2, <3>1, <3>2, <3>4
  <2> QED
    BY <2>1, <2>3, <2>4, <2>5, <2>6, <2>7
<1>9. mq_curmsgs' = c + 1
  BY Zenon DEF LinkedIn
<1> QED
  BY Zenon, <1>3, <1>6, <1>7, <1>8, <1>9 DEF Layout, Permuted

\* What mymq_receive does to the lists when it finds c messages.
LinkedOut(c) ==
    /\ msg_next \in [Node -> 0..MaxMsg]
    /\ mq_curmsgs = c /\ mq_curmsgs' = c - 1
    /\ mqh_head' = msg_next[mqh_head]
    /\ msg_next' = [msg_next EXCEPT ![mqh_head] = mqh_free]
    /\ mqh_free' = mqh_head

\* Taking the first message off keeps the layout.
LEMMA LinkOutLayout ==
    ASSUME NEW c \in Node, NEW g \in [Node -> Node], Layout(g), LinkedOut(c),
           NEW h, h = [i \in Node |-> g[OutOf(c, i)]]
    PROVE  Layout(h)'
<1>1. /\ MaxMsg \in Nat /\ c \in 1..MaxMsg /\ 1 \in Node
      /\ c # 0 /\ (1 = MaxMsg => c = 1)
  BY MqAssumption DEF Node
<1>2. /\ \A i, j \in Node : g[i] = g[j] => i = j
      /\ \A x \in Node : \E i \in Node : g[i] = x
      /\ mqh_head = g[1]
      /\ mqh_free = IF c = MaxMsg THEN 0 ELSE g[c + 1]
      /\ \A i \in Node :
            msg_next[g[i]] = IF i = c \/ i = MaxMsg THEN 0 ELSE g[i + 1]
  BY Zenon, <1>1 DEF Layout, LinkedOut
<1>3. Permuted(h)
  <2>1. /\ \A i, j \in Node : g[i] = g[j] => i = j
        /\ \A x \in Node : \E i \in Node : g[i] = x
    BY Zenon DEF Layout
  <2> QED
    BY ZenonT(30), <2>1, MovedOut
<1>4. ASSUME NEW i \in Node
      PROVE  /\ i < c => i + 1 \in Node /\ h[i] = g[i + 1]
             /\ i = c => h[i] = g[1]
             /\ i > c => h[i] = g[i]
  <2>0. h[i] = g[OutOf(c, i)]
    OBVIOUS
  <2>1. i \in 1..MaxMsg
    BY Zenon DEF Node
  <2>2. /\ i < c => i + 1 \in Node /\ OutOf(c, i) = i + 1
        /\ i = c => OutOf(c, i) = 1
        /\ i > c => OutOf(c, i) = i
    BY SMTT(30), <1>1, <2>1 DEF OutOf, Node
  <2> QED
    BY Zenon, <2>0, <2>2
<1>5. ASSUME NEW x \in Node
      PROVE  msg_next'[x] = IF x = g[1] THEN mqh_free ELSE msg_next[x]
  BY Zenon, <1>2 DEF LinkedOut
<1>6. mq_curmsgs' = c - 1 /\ mqh_free' = g[1] /\ mqh_head' = msg_next[g[1]]
  BY Zenon, <1>2 DEF LinkedOut
<1>7. mqh_head' = IF mq_curmsgs' = 0 THEN 0 ELSE h[1]
  <2>1. msg_next[g[1]] = IF c = 1 THEN 0 ELSE g[1 + 1]
    BY Zenon, <1>1, <1>2
  <2> QED
    BY <1>1, <1>4, <1>6, <2>1
<1>8. mqh_free' = IF mq_curmsgs' = MaxMsg THEN 0 ELSE h[mq_curmsgs' + 1]
  <2>1. mq_curmsgs' # MaxMsg /\ mq_curmsgs' + 1 = c
    BY <1>1, <1>6
  <2> QED
    BY Zenon, <1>4, <1>6, <2>1
<1>9. ASSUME NEW i \in Node
      PROVE  msg_next'[h[i]] = IF i = c - 1 \/ i = MaxMsg THEN 0 ELSE h[i + 1]
  <2>1. i \in 1..MaxMsg /\ (i # MaxMsg => i + 1 \in Node) /\ h[i] \in Node
    BY <1>1, <1>3 DEF Node, Permuted
  <2>2. CASE i < c
    <3>1. /\ i + 1 \in Node /\ h[i] = g[i + 1] /\ i + 1 # 1 /\ i # MaxMsg
          /\ (i + 1 = c <=> i = c - 1) /\ (i + 1 = MaxMsg => i + 1 = c)
      BY <1>1, <1>4, <2>1, <2>2
    <3>2. msg_next'[h[i]] = msg_next[g[i + 1]]
      BY ZenonT(30), <1>1, <1>2, <1>5, <2>1, <3>1
    <3>3. msg_next[g[i + 1]] = IF i = c - 1 THEN 0 ELSE g[(i + 1) + 1]
      BY Zenon, <1>2, <3>1
    <3>4. i # c - 1 => h[i + 1] = g[(i + 1) + 1]
      <4>1. i # c - 1 => i + 1 < c
        BY <1>1, <2>1, <2>2
      <4> QED
        BY Zenon, <1>4, <3>1, <4>1
    <3> QED
      BY Zenon, <3>1, <3>2, <3>3, <3>4
  <2>3. CASE i = c
    <3>1. msg_next'[h[i]] = IF c = MaxMsg THEN 0 ELSE g[c + 1]
      BY Zenon, <1>2, <1>4, <1>5, <2>1, <2>3
    <3>2. c # MaxMsg => h[c + 1] = g[c + 1]
      BY <1>1, <1>4, <2>1, <2>3
    <3>3. i # c - 1
      BY <2>1, <2>3
    <3> QED
      BY Zenon, <2>3, <3>1, <3>2, <3>3
  <2>4. CASE i > c
    <3>1. h[i] = g[i] /\ (i # MaxMsg => h[i + 1] = g[i + 1])
      BY <1>1, <1>4, <2>1, <2>4
    <3>2. i # 1 /\ i # c /\ i # c - 1
      BY <1>1, <2>1, <2>4
    <3>3. msg_next'[h[i]] = msg_next[g[i]]
      BY ZenonT(30), <1>1, <1>2, <1>5, <2>1, <3>1, <3>2
    <3> QED
      BY Zenon, <1>2, <3>1, <3>2, <3>3
  <2> QED
    BY <1>1, <2>1, <2>2, <2>3, <2>4
<1> QED
  BY Zenon, <1>3, <1>6, <1>7, <1>8, <1>9 DEF Layout, Permuted

-----------------------------------------------------------------------------

\* Two layouts of the same lists order the messages alike.
LEMMA Unique ==
    ASSUME NEW c \in 0..MaxMsg, NEW next,
           NEW g \in [Node -> Node], NEW h \in [Node -> Node],
           c > 0 => g[1] = h[1],
           \A i \in Node : i < c => next[g[i]] = g[i + 1],
           \A i \in Node : i < c => next[h[i]] = h[i + 1]
    PROVE  \A i \in 1..c : g[i] = h[i]
<1> DEFINE T == {i \in 1..c : g[i] # h[i]}
<1>1. SUFFICES ASSUME T # {} PROVE FALSE
  OBVIOUS
<1>2. MaxMsg \in Nat
  BY Zenon, MqAssumption
<1>3. PICK x \in T : \A y \in T : x <= y
  <2>1. T \subseteq Nat
    BY <1>2
  <2> HIDE DEF T
  <2> QED
    BY Zenon, <1>1, <2>1, Least
<1>4. x \in 1..c /\ x # 1
  BY <1>2
<1>5. x - 1 \in Node /\ x - 1 < c /\ x - 1 \in 1..c /\ (x - 1) + 1 = x
      /\ ~(x <= x - 1)
  BY <1>2, <1>4 DEF Node
<1>6. g[x - 1] = h[x - 1]
  BY Zenon, <1>3, <1>5
<1>7. g[x] = h[x]
  BY Zenon, <1>5, <1>6
<1> QED
  BY Zenon, <1>7

LEMMA Below ==
    ASSUME NEW c \in 0..MaxMsg
    PROVE  \A i \in Node : i < c => i # c /\ i # MaxMsg
BY MqAssumption DEF Node

\* Queue is the list of messages, read along any layout; before and after a
\* step.
LEMMA QueueIs ==
    ASSUME mq_curmsgs \in 0..MaxMsg, NEW g \in [Node -> Node], Layout(g)
    PROVE  Queue = [i \in 1..mq_curmsgs |-> msg[g[i]]]
<1>1. PICK h \in [Node -> Node] :
        Layout(h) /\ Queue = [i \in 1..mq_curmsgs |-> msg[h[i]]]
  BY Zenon DEF Queue
<1>2. \A i \in Node : i < mq_curmsgs => i # mq_curmsgs /\ i # MaxMsg
  BY Zenon, Below
<1>3. \A i \in 1..mq_curmsgs : g[i] = h[i]
  <2>1. /\ mq_curmsgs > 0 => g[1] = h[1]
        /\ \A i \in Node : i < mq_curmsgs => msg_next[g[i]] = g[i + 1]
        /\ \A i \in Node : i < mq_curmsgs => msg_next[h[i]] = h[i + 1]
    BY <1>1, <1>2 DEF Layout
  <2> QED
    BY <2>1, Unique
<1>4. [i \in 1..mq_curmsgs |-> msg[g[i]]]
        = [i \in 1..mq_curmsgs |-> msg[h[i]]]
  BY Zenon, <1>3
<1> QED
  BY Zenon, <1>1, <1>4

LEMMA QueueIsNext ==
    ASSUME mq_curmsgs' \in 0..MaxMsg, NEW g \in [Node -> Node], Layout(g)'
    PROVE  Queue' = [i \in 1..mq_curmsgs' |-> msg'[g[i]]]
<1>1. PICK h \in [Node -> Node] :
        Layout(h)' /\ Queue' = [i \in 1..mq_curmsgs' |-> msg'[h[i]]]
  BY Zenon DEF Queue
<1>2. \A i \in Node : i < mq_curmsgs' => i # mq_curmsgs' /\ i # MaxMsg
  BY Zenon, Below
<1>3. \A i \in 1..mq_curmsgs' : g[i] = h[i]
  <2>1. /\ mq_curmsgs' > 0 => g[1] = h[1]
        /\ \A i \in Node : i < mq_curmsgs' => msg_next'[g[i]] = g[i + 1]
        /\ \A i \in Node : i < mq_curmsgs' => msg_next'[h[i]] = h[i + 1]
    BY <1>1, <1>2 DEF Layout
  <2> QED
    BY <2>1, Unique
<1>4. [i \in 1..mq_curmsgs' |-> msg'[g[i]]]
        = [i \in 1..mq_curmsgs' |-> msg'[h[i]]]
  BY Zenon, <1>3
<1> QED
  BY Zenon, <1>1, <1>4

-----------------------------------------------------------------------------

\* q holds c messages in order of priority.
Sorted(q, c) ==
    /\ q \in [1..c -> Message]
    /\ \A i, j \in 1..c : i < j => q[i].prio >= q[j].prio

\* The lists are sound, and the list of messages is in order of priority.
ListInv == ListsPartition /\ Sorted(Queue, mq_curmsgs)

\* The c messages of q with m put in behind the n-th.
Inserted(q, c, n, m) ==
    [i \in 1..(c + 1) |-> IF i <= n THEN q[i]
                          ELSE IF i = n + 1 THEN m ELSE q[i - 1]]

\* n is where the insertion loop stops for m.
StopsAt(q, c, n, m) ==
    /\ \A i \in 1..n : q[i].prio >= m.prio
    /\ n < c => q[n + 1].prio < m.prio

\* Behind the place where the loop stops there are only lower priorities, and
\* inserting there keeps the order.
LEMMA SortedInsert ==
    ASSUME NEW c \in Nat, NEW q, Sorted(q, c), NEW n \in 0..c,
           NEW m \in Message, StopsAt(q, c, n, m)
    PROVE  /\ \A i \in (n + 1)..c : q[i].prio < m.prio
           /\ Sorted(Inserted(q, c, n, m), c + 1)
<1> DEFINE r == Inserted(q, c, n, m)
<1>1. \A i \in 1..c : q[i] \in Message /\ q[i].prio \in Nat
  BY Zenon, MqAssumption DEF Sorted, Message
<1>2. m.prio \in Nat
  BY Zenon, MqAssumption DEF Message
<1>3. ASSUME NEW i \in (n + 1)..c PROVE q[i].prio < m.prio
  <2>1. n + 1 \in 1..c /\ i \in 1..c /\ q[n + 1].prio < m.prio
    BY DEF StopsAt
  <2>2. i # n + 1 => q[n + 1].prio >= q[i].prio
    BY <2>1 DEF Sorted
  <2> QED
    BY <1>1, <1>2, <2>1, <2>2
<1>4. /\ \A i \in 1..(c + 1) : i <= n => i \in 1..c /\ r[i] = q[i]
      /\ \A i \in 1..(c + 1) : i = n + 1 => r[i] = m
      /\ \A i \in 1..(c + 1) : i > n + 1 => /\ i - 1 \in (n + 1)..c
                                           /\ i - 1 \in 1..c
                                           /\ r[i] = q[i - 1]
  BY DEF Inserted
<1>5. r \in [1..(c + 1) -> Message]
  <2>1. \A i \in 1..(c + 1) : r[i] \in Message
    BY <1>1, <1>4
  <2> QED
    BY Zenon, <2>1 DEF Inserted
<1> HIDE DEF r
<1>6. ASSUME NEW i \in 1..(c + 1), NEW j \in 1..(c + 1), i < j
      PROVE  r[i].prio >= r[j].prio
  <2>1. \A k \in 1..n : q[k].prio >= m.prio
    BY Zenon DEF StopsAt
  <2>2. \A k, l \in 1..c : k < l => q[k].prio >= q[l].prio
    BY Zenon DEF Sorted
  <2>3. CASE j <= n
    BY <1>4, <1>6, <2>2, <2>3
  <2>4. CASE j = n + 1
    BY <1>4, <1>6, <2>1, <2>4
  <2>5. CASE j > n + 1
    <3>1. j - 1 \in (n + 1)..c /\ j - 1 \in 1..c /\ r[j] = q[j - 1]
      BY Zenon, <1>4, <2>5
    <3>2. CASE i <= n
      BY <1>4, <2>2, <3>1, <3>2
    <3>3. CASE i = n + 1
      BY <1>1, <1>2, <1>3, <1>4, <3>1, <3>3
    <3>4. CASE i > n + 1
      BY <1>4, <1>6, <2>2, <3>1, <3>4
    <3> QED
      BY <3>2, <3>3, <3>4
  <2> QED
    BY <2>3, <2>4, <2>5
<1> QED
  BY Zenon, <1>3, <1>5, <1>6 DEF Sorted, r

\* The first places are nodes, and no node is 0.
LEMMA Places ==
    /\ \A c \in Nat : c < MaxMsg => \A k \in 1..(c + 1) : k \in Node
    /\ \A c \in 0..MaxMsg : \A k \in 1..c : k \in Node
    /\ \A k \in Node : k # 0
BY MqAssumption DEF Node

\* mymq_send inserts where the loop stops.
LEMMA LinkInStep ==
    ASSUME TypeOK, ListInv, mq_curmsgs < MaxMsg, NEW p, NEW m \in Message,
           LinkIn(p, m)
    PROVE  /\ ListInv'
           /\ \E n \in 0..mq_curmsgs :
                 /\ StopsAt(Queue, mq_curmsgs, n, m)
                 /\ Queue' = Inserted(Queue, mq_curmsgs, n, m)
<1>1. PICK c \in Nat : /\ c = mq_curmsgs /\ c < MaxMsg /\ c \in 0..MaxMsg
                       /\ MaxMsg \in Nat
  BY MqAssumption DEF TypeOK
<1>2. PICK g \in [Node -> Node] : Layout(g)
  BY Zenon DEF ListInv, ListsPartition
<1>3. PICK q : q = Queue /\ q = [i \in 1..c |-> msg[g[i]]] /\ Sorted(q, c)
  BY Zenon, <1>1, <1>2, QueueIs DEF ListInv
<1> DEFINE Loop(n, s) ==
       /\ Scan(m, n, s)
       /\ mqh_head' = IF n = 0 THEN mqh_free ELSE mqh_head
       /\ msg_next' = [i \in Node |-> IF i = mqh_free THEN s[n]
                                      ELSE IF n > 0 /\ i = s[n - 1]
                                      THEN mqh_free ELSE msg_next[i]]
<1>0. PICK n \in 0..MaxMsg : \E s \in [0..n -> 0..MaxMsg] : Loop(n, s)
  BY Zenon DEF LinkIn
<1>4. PICK s \in [0..n -> 0..MaxMsg] : Loop(n, s)
  BY Zenon, <1>0
<1>5. n \in 0..c /\ \A k \in 0..n : s[k] = IF k < c THEN g[k + 1] ELSE 0
  <2>1. n <= mq_curmsgs
        /\ \A k \in 0..n : s[k] = IF k < mq_curmsgs THEN g[k + 1] ELSE 0
    BY Zenon, <1>2, <1>4, ScanFollows
  <2> QED
    BY <1>1, <2>1
<1>6. s[n] = (IF n < c THEN g[n + 1] ELSE 0) /\ (n > 0 => s[n - 1] = g[n])
  <2>1. n \in 0..n /\ (n > 0 => n - 1 \in 0..n /\ n - 1 < c /\ (n - 1) + 1 = n)
    BY <1>1, <1>5
  <2> QED
    BY Zenon, <1>5, <2>1
<1>7. LinkedIn(g, c, n)
  <2>1. msg_next' = [i \in Node |->
                       IF i = mqh_free THEN IF n < c THEN g[n + 1] ELSE 0
                       ELSE IF n > 0 /\ i = g[n] THEN mqh_free
                       ELSE msg_next[i]]
    BY Zenon, <1>4, <1>6
  <2> QED
    BY Zenon, <1>1, <1>4, <2>1 DEF LinkedIn, LinkIn
<1>h. PICK h : h = [i \in Node |-> g[Into(c, n, i)]]
  BY Zenon
<1>8. Layout(h)'
  BY Zenon, <1>1, <1>2, <1>5, <1>7, <1>h, LinkInLayout
<1>9. Permuted(h)
  <2>1. /\ \A i, j \in Node : g[i] = g[j] => i = j
        /\ \A x \in Node : \E i \in Node : g[i] = x
    BY Zenon, <1>2 DEF Layout
  <2>2. c < MaxMsg /\ n \in 0..c
    BY Zenon, <1>1, <1>5
  <2> QED
    BY <1>h, <2>1, <2>2, MovedIn
<1>10. mq_curmsgs' = c + 1 /\ c + 1 \in 0..MaxMsg
  BY <1>1 DEF LinkIn
<1>11. Queue' = [i \in 1..(c + 1) |-> msg'[h[i]]]
  BY Zenon, <1>8, <1>9, <1>10, QueueIsNext DEF Permuted
<1>12. ASSUME NEW i \in 1..(c + 1)
       PROVE  msg'[h[i]] = IF i <= n THEN q[i]
                           ELSE IF i = n + 1 THEN m ELSE q[i - 1]
  <2>0. i \in Node /\ c + 1 \in Node
    <3>1. c + 1 \in 1..(c + 1)
      OBVIOUS
    <3> QED
      BY Zenon, <1>1, <3>1, Places
  <2>1. i \in Node /\ c + 1 \in Node /\ h[i] = g[Into(c, n, i)]
    BY Zenon, <1>h, <2>0
  <2>2. /\ msg' = [msg EXCEPT ![g[c + 1]] = m]
        /\ msg \in [Node -> Message \cup {NoMessage}]
    <3>1. mqh_free = g[c + 1]
      BY <1>1, <1>2 DEF Layout
    <3> QED
      BY Zenon, <3>1 DEF LinkIn, TypeOK
  <2>3. \A k \in 1..c : k \in Node /\ g[k] # g[c + 1] /\ q[k] = msg[g[k]]
    <3>1. \A k \in 1..c : k \in Node /\ k # c + 1
      BY <1>1, Places
    <3> QED
      BY Zenon, <1>2, <1>3, <2>1, <3>1 DEF Layout
  <2>4. CASE i <= n
    <3>1. Into(c, n, i) = i /\ i \in 1..c
      BY <1>1, <1>5, <2>4 DEF Into
    <3> QED
      BY Zenon, <2>1, <2>2, <2>3, <2>4, <3>1
  <2>5. CASE i = n + 1
    <3>1. Into(c, n, i) = c + 1 /\ ~(i <= n)
      BY <1>1, <1>5, <2>5 DEF Into
    <3> QED
      BY Zenon, <2>1, <2>2, <2>5, <3>1
  <2>6. CASE i > n + 1
    <3>1. Into(c, n, i) = i - 1 /\ i - 1 \in 1..c /\ ~(i <= n) /\ i # n + 1
      BY <1>1, <1>5, <2>6 DEF Into
    <3> QED
      BY Zenon, <2>1, <2>2, <2>3, <3>1
  <2> QED
    BY <1>5, <2>4, <2>5, <2>6
<1>13. Queue' = Inserted(q, c, n, m)
  BY Zenon, <1>11, <1>12 DEF Inserted
<1>14. StopsAt(q, c, n, m)
  <2>1. ASSUME NEW i \in 1..n PROVE q[i].prio >= m.prio
    <3>1. i - 1 \in 0..(n - 1) /\ i - 1 \in 0..n /\ i - 1 < c /\ (i - 1) + 1 = i
          /\ i \in 1..c
      BY <1>5
    <3>2. s[i - 1] = g[i] /\ q[i] = msg[g[i]]
      BY Zenon, <1>3, <1>5, <3>1
    <3>3. ~(m.prio > q[i].prio)
      BY Zenon, <1>4, <3>1, <3>2 DEF Scan, GoesBefore
    <3>4. m.prio \in Nat /\ q[i].prio \in Nat
      BY Zenon, <1>3, <3>1, MqAssumption DEF Sorted, Message
    <3> QED
      BY <3>3, <3>4
  <2>2. ASSUME n < c PROVE q[n + 1].prio < m.prio
    <3>1. s[n] = g[n + 1] /\ n + 1 \in 1..c /\ n + 1 \in Node
      BY <1>1, <1>5, <1>6, <2>2, Places
    <3>2. s[n] # 0 /\ q[n + 1] = msg[g[n + 1]]
      BY Zenon, <1>3, <3>1, Places
    <3>3. m.prio > q[n + 1].prio
      BY Zenon, <1>4, <3>1, <3>2 DEF Scan, GoesBefore
    <3>4. m.prio \in Nat /\ q[n + 1].prio \in Nat
      BY ZenonT(30), <1>3, <3>1, MqAssumption DEF Sorted, Message
    <3> QED
      BY Zenon, <3>3, <3>4
  <2> QED
    BY Zenon, <2>1, <2>2 DEF StopsAt
<1>15. ListInv'
  <2>1. Sorted(Queue', mq_curmsgs')
    BY Zenon, <1>3, <1>5, <1>10, <1>13, <1>14, SortedInsert
  <2>2. ListsPartition'
    BY Zenon, <1>8, <1>9 DEF ListsPartition, Permuted
  <2> QED
    BY Zenon, <2>1, <2>2 DEF ListInv, Sorted
<1> QED
  BY Zenon, <1>1, <1>3, <1>5, <1>13, <1>14, <1>15

\* mymq_receive takes the first message.
LEMMA LinkOutStep ==
    ASSUME TypeOK, ListInv, mq_curmsgs > 0, NEW p, LinkOut(p)
    PROVE  /\ ListInv'
           /\ got' = Queue[1]
           /\ Queue' = [i \in 1..(mq_curmsgs - 1) |-> Queue[i + 1]]
<1>1. PICK c \in Node : c = mq_curmsgs
  BY MqAssumption DEF TypeOK, Node
<1>2. /\ MaxMsg \in Nat /\ c \in 0..MaxMsg /\ c # 0 /\ c > 0
      /\ c - 1 \in 0..MaxMsg /\ 1 \in Node
  BY <1>1, MqAssumption DEF Node
<1>3. PICK g \in [Node -> Node] : Layout(g)
  BY Zenon DEF ListInv, ListsPartition
<1>4. PICK q : q = Queue /\ q = [i \in 1..c |-> msg[g[i]]] /\ Sorted(q, c)
  BY Zenon, <1>1, <1>2, <1>3, QueueIs DEF ListInv
<1>5. LinkedOut(c)
  BY Zenon, <1>1 DEF LinkedOut, LinkOut, TypeOK
<1>h. PICK h : h = [i \in Node |-> g[OutOf(c, i)]]
  BY Zenon
<1>6. Layout(h)'
  BY Zenon, <1>3, <1>5, <1>h, LinkOutLayout
<1>7. Permuted(h)
  <2>1. /\ \A i, j \in Node : g[i] = g[j] => i = j
        /\ \A x \in Node : \E i \in Node : g[i] = x
    BY Zenon, <1>3 DEF Layout
  <2> QED
    BY ZenonT(30), <1>h, <2>1, MovedOut
<1>8. mq_curmsgs' = c - 1 /\ msg' = msg /\ mqh_head = g[1] /\ got' = msg[g[1]]
  BY Zenon, <1>1, <1>2, <1>3 DEF LinkOut, Layout
<1>9. Queue' = [i \in 1..(c - 1) |-> msg[h[i]]]
  <2>1. Queue' = [i \in 1..mq_curmsgs' |-> msg'[h[i]]]
    BY Zenon, <1>2, <1>6, <1>7, <1>8, QueueIsNext DEF Permuted
  <2> QED
    BY Zenon, <1>8, <2>1
<1>10. ASSUME NEW i \in 1..(c - 1) PROVE i + 1 \in 1..c /\ msg[h[i]] = q[i + 1]
  <2>1. i \in 1..c /\ i + 1 \in 1..c
    BY <1>2
  <2>2. i \in Node
    BY Zenon, <1>2, <2>1, Places
  <2>3. h[i] = g[OutOf(c, i)]
    BY Zenon, <1>h, <2>2
  <2>4. OutOf(c, i) = i + 1
    BY <1>2 DEF OutOf
  <2> QED
    BY <1>4, <2>1, <2>3, <2>4
<1>11. Queue' = [i \in 1..(c - 1) |-> q[i + 1]]
  BY Zenon, <1>9, <1>10
<1>12. got' = q[1]
  BY <1>2, <1>4, <1>8
<1>13. Sorted(Queue', mq_curmsgs')
  <2>1. Queue' \in [1..(c - 1) -> Message]
    BY Zenon, <1>4, <1>10, <1>11 DEF Sorted
  <2>2. ASSUME NEW i \in 1..(c - 1), NEW j \in 1..(c - 1), i < j
        PROVE  q[i + 1].prio >= q[j + 1].prio
    <3>1. i + 1 \in 1..c /\ j + 1 \in 1..c /\ i + 1 < j + 1
      BY <1>2, <2>2
    <3> QED
      BY Zenon, <1>4, <3>1 DEF Sorted
  <2> QED
    BY Zenon, <1>8, <1>11, <2>1, <2>2 DEF Sorted
<1>14. ListsPartition'
  BY Zenon, <1>6, <1>7 DEF ListsPartition, Permuted
<1> QED
  BY Zenon, <1>1, <1>4, <1>11, <1>12, <1>13, <1>14 DEF ListInv, Sorted

\* With room there is a free node, and with messages there is a first one.
LEMMA NotZero ==
    ASSUME TypeOK, ListInv
    PROVE  /\ mq_curmsgs < MaxMsg => mqh_free \in Node /\ mqh_free # 0
           /\ mq_curmsgs > 0 => mqh_head \in Node /\ mqh_head # 0
<1>1. PICK g \in [Node -> Node] : Layout(g)
  BY Zenon DEF ListInv, ListsPartition
<1>2. mq_curmsgs \in 0..MaxMsg /\ mq_curmsgs \in Nat /\ MaxMsg \in Nat
  BY MqAssumption DEF TypeOK
<1>3. ASSUME mq_curmsgs < MaxMsg PROVE mqh_free \in Node /\ mqh_free # 0
  <2>1. mq_curmsgs + 1 \in 1..(mq_curmsgs + 1) /\ mq_curmsgs # MaxMsg
    BY <1>2, <1>3
  <2>2. mq_curmsgs + 1 \in Node
    BY Zenon, <1>2, <1>3, <2>1, Places
  <2>3. mqh_free = g[mq_curmsgs + 1]
    BY Zenon, <1>1, <2>1 DEF Layout
  <2> QED
    BY Zenon, <2>2, <2>3, Places
<1>4. ASSUME mq_curmsgs > 0 PROVE mqh_head \in Node /\ mqh_head # 0
  <2>1. 1 \in 1..mq_curmsgs /\ mq_curmsgs # 0
    BY <1>2, <1>4
  <2>2. 1 \in Node
    BY Zenon, <1>2, <2>1, Places
  <2>3. mqh_head = g[1]
    BY Zenon, <1>1, <2>1 DEF Layout
  <2> QED
    BY Zenon, <2>2, <2>3, Places
<1> QED
  BY Zenon, <1>3, <1>4

\* A step that leaves the header's lists alone.
LEMMA ListsUnchanged ==
    ASSUME TypeOK, ListInv, UNCHANGED listVars
    PROVE  Queue' = Queue /\ ListInv'
<1>1. PICK g \in [Node -> Node] : Layout(g)
  BY Zenon DEF ListInv, ListsPartition
<1>2. Layout(g)' /\ mq_curmsgs' = mq_curmsgs /\ msg' = msg
  BY Zenon, <1>1 DEF listVars, Layout
<1>3. mq_curmsgs \in 0..MaxMsg
  BY Zenon DEF TypeOK
<1>4. Queue' = Queue
  <2>1. Queue = [i \in 1..mq_curmsgs |-> msg[g[i]]]
    BY Zenon, <1>1, <1>3, QueueIs
  <2>2. Queue' = [i \in 1..mq_curmsgs' |-> msg'[g[i]]]
    BY Zenon, <1>2, <1>3, QueueIsNext
  <2> QED
    BY Zenon, <1>2, <2>1, <2>2
<1>5. ListsPartition'
  BY Zenon, <1>2 DEF ListsPartition
<1> QED
  BY Zenon, <1>2, <1>4, <1>5 DEF ListInv, Sorted

-----------------------------------------------------------------------------

Label == {"idle", "sendwait", "sendwake", "recvwait", "recvwake", "dead"}

\* Where a change of the processes' places from f to f2 is a signal: a blocked
\* process may be woken, nothing else happens.
OnlyWakes(f, f2) ==
    /\ f2 \in [Proc -> Label]
    /\ \A p \in Proc :
          \/ f2[p] = f[p]
          \/ f[p] = "sendwait" /\ f2[p] = "sendwake"
          \/ f[p] = "recvwait" /\ f2[p] = "recvwake"

LEMMA SignalWakes ==
    ASSUME NEW f \in [Proc -> Label], NEW f2 \in CondSignal(f) \cup {f}
    PROVE  OnlyWakes(f, f2)
<1>1. CASE f2 = f
  BY Zenon, <1>1 DEF OnlyWakes
<1>2. CASE f2 # f
  <2>1. PICK p \in Proc :
          /\ f[p] \in {"sendwait", "recvwait"}
          /\ f2 = [f EXCEPT ![p] = IF f[p] = "sendwait" THEN "sendwake"
                                   ELSE "recvwake"]
    BY Zenon, <1>2 DEF CondSignal
  <2> QED
    BY Zenon, <2>1 DEF OnlyWakes, Label
<1> QED
  BY Zenon, <1>1, <1>2

\* A call that returns and signals changes the receivers by its own process.
LEMMA ReturnReceivers ==
    ASSUME TypeOK, NEW p \in Proc, OnlyWakes(Return(p), pc')
    PROVE  /\ pc' \in [Proc -> Label]
           /\ Receivers' = Receivers \ {p}
           /\ \A r \in Proc : pc'[r] \in {"sendwait", "sendwake"}
                              => pc[r] \in {"sendwait", "sendwake"} /\ r # p
           /\ \A r \in Proc : pc[r] = "dead" /\ r # p => pc'[r] = "dead"
<1>1. pc \in [Proc -> Label]
  BY Zenon DEF TypeOK, Label
<1>2. \A r \in Proc : Return(p)[r] = IF r = p THEN "idle" ELSE pc[r]
  BY Zenon, <1>1 DEF Return
<1> QED
  BY Zenon, <1>1, <1>2 DEF OnlyWakes, Receivers, Is

INSTANCE FiniteSetTheorems

\* The set of receivers is finite, and adding or removing one process counts one.
LEMMA Counting ==
    ASSUME NEW S \in SUBSET Proc, NEW p \in Proc
    PROVE  /\ Cardinality(S) \in Nat
           /\ Cardinality(S) = 0 <=> S = {}
           /\ p \notin S => Cardinality(S \cup {p}) = Cardinality(S) + 1
           /\ p \in S => Cardinality(S \ {p}) = Cardinality(S) - 1
<1>1. IsFiniteSet(S)
  BY Zenon, MqAssumption, FS_Subset
<1> QED
  BY Zenon, <1>1, FS_CardinalityType, FS_EmptySet, FS_AddElement,
     FS_RemoveElement

-----------------------------------------------------------------------------

\* A process blocked in mymq_send holds the message it will enqueue.
ArgIsMessage ==
    \A p \in Proc : pc[p] \in {"sendwait", "sendwake"} => arg[p] \in Message

\* The inductive invariant.  NoErrDump needs the lists to be sound, which needs
\* the messages they are given to be messages; the order of the messages is
\* what makes the place where the insertion loop stops the right one.
IInv ==
    /\ TypeOK /\ ListInv /\ NwaitCoversReceivers /\ RegisteredIsOpen
    /\ NoErrDump /\ ArgIsMessage

\* The part of TypeOK about the lists.
ListTypeOK ==
    /\ {mqh_head, mqh_free} \subseteq 0..MaxMsg
    /\ msg_next \in [Node -> 0..MaxMsg]
    /\ msg \in [Node -> Message \cup {NoMessage}]
    /\ mq_curmsgs \in 0..MaxMsg

LEMMA InitIInv == Init => IInv
<1> SUFFICES ASSUME Init PROVE IInv
  OBVIOUS
<1>1. MaxMsg \in Nat \ {0} /\ \A i \in Node : i \in 1..MaxMsg
  BY Zenon, MqAssumption DEF Node
<1>2. msg_next \in [Node -> 0..MaxMsg]
  <2>1. \A i \in Node : (IF i < MaxMsg THEN i + 1 ELSE 0) \in 0..MaxMsg
    BY <1>1
  <2> QED
    BY Zenon, <2>1 DEF Init
<1>3. TypeOK
  <2>1. {mqh_head, mqh_free} \subseteq 0..MaxMsg /\ mq_curmsgs \in 0..MaxMsg
    BY <1>1 DEF Init
  <2>2. mqh_nwait \in Nat /\ nsend \in 0..MaxSend
    BY MqAssumption DEF Init
  <2>3. nsig \in [Proc -> Nat] /\ got \in Message \cup {NoMessage}
    BY Zenon DEF Init
  <2>4. /\ msg \in [Node -> Message \cup {NoMessage}]
        /\ arg \in [Proc -> Message \cup {NoMessage}]
    BY Zenon DEF Init
  <2> QED
    BY Zenon, <1>2, <2>1, <2>2, <2>3, <2>4 DEF Init, TypeOK
<1>4. ListInv
  <2>1. PICK g : g = [i \in Node |-> i]
    BY Zenon
  <2>2. g \in [Node -> Node] /\ \A i \in Node : g[i] = i
    BY Zenon, <2>1
  <2>3. ASSUME NEW i \in Node
        PROVE  msg_next[g[i]] = IF i = 0 \/ i = MaxMsg THEN 0 ELSE g[i + 1]
    <3>1. i \in 1..MaxMsg /\ (i # MaxMsg => i + 1 \in Node) /\ i # 0
      BY <1>1 DEF Node
    <3> QED
      BY <1>1, <2>2, <3>1 DEF Init
  <2>4. mqh_free = g[0 + 1] /\ 0 # MaxMsg
    <3>1. 1 \in Node
      BY <1>1 DEF Node
    <3> QED
      BY <1>1, <2>2, <3>1 DEF Init
  <2>5. Layout(g)
    BY <2>2, <2>3, <2>4 DEF Init, Layout
  <2>6. Queue = [i \in 1..mq_curmsgs |-> msg[g[i]]]
    BY Zenon, <1>3, <2>2, <2>5, QueueIs DEF TypeOK
  <2>7. Sorted(Queue, mq_curmsgs)
    BY <2>6 DEF Init, Sorted
  <2> QED
    BY Zenon, <2>2, <2>5, <2>7 DEF ListInv, ListsPartition
<1>5. NwaitCoversReceivers
  <2>1. Receivers = {}
    BY Zenon DEF Init, Receivers, Is
  <2> QED
    BY <2>1, FS_EmptySet DEF Init, NwaitCoversReceivers
<1> QED
  BY Zenon, <1>3, <1>4, <1>5 DEF IInv, Init, RegisteredIsOpen, NoErrDump, ArgIsMessage

\* mymq_send from the insertion on: err_dump is not called.
LEMMA EnqueueStep ==
    ASSUME IInv, NEW p \in Proc, NEW m \in Message, mq_curmsgs < MaxMsg,
           Enqueue(p, m)
    PROVE  LinkIn(p, m) /\ ~aborted' /\ ListTypeOK' /\ ListInv'
           /\ OnlyWakes(Return(p), pc')
<1>1. TypeOK /\ ListInv
  BY Zenon DEF IInv
<1>2. mqh_free \in Node /\ mqh_free # 0
  BY Zenon, <1>1, NotZero
<1>3. LinkIn(p, m) /\ ~aborted'
  BY Zenon, <1>2 DEF Enqueue
<1>4. ListTypeOK'
  <2>1. mq_curmsgs' \in 0..MaxMsg
    BY <1>1, <1>3, MqAssumption DEF TypeOK, LinkIn
  <2>2. PICK n \in 0..MaxMsg : \E s \in [0..n -> 0..MaxMsg] :
          /\ mqh_head' = IF n = 0 THEN mqh_free ELSE mqh_head
          /\ msg_next' = [i \in Node |-> IF i = mqh_free THEN s[n]
                                         ELSE IF n > 0 /\ i = s[n - 1]
                                         THEN mqh_free ELSE msg_next[i]]
    BY Zenon, <1>3 DEF LinkIn
  <2>3. mqh_head' \in 0..MaxMsg
    BY Zenon, <1>1, <2>2 DEF TypeOK
  <2>4. msg_next' \in [Node -> 0..MaxMsg]
    <3>1. n \in 0..n
      OBVIOUS
    <3>2. mqh_free \in 0..MaxMsg /\ msg_next \in [Node -> 0..MaxMsg]
      BY Zenon, <1>1 DEF TypeOK
    <3> QED
      BY <2>2, <3>1, <3>2
  <2>5. mqh_free' \in 0..MaxMsg /\ msg' \in [Node -> Message \cup {NoMessage}]
    BY Zenon, <1>1, <1>2, <1>3 DEF TypeOK, LinkIn
  <2> QED
    BY Zenon, <2>1, <2>3, <2>4, <2>5 DEF ListTypeOK
<1>5. OnlyWakes(Return(p), pc')
  <2>1. Return(p) \in [Proc -> Label]
    BY Zenon, <1>1 DEF TypeOK, Return, Label
  <2>2. pc' \in CondSignal(Return(p)) \cup {Return(p)}
    BY Zenon, <1>3 DEF LinkIn
  <2> QED
    BY Zenon, <2>1, <2>2, SignalWakes
<1> QED
  BY Zenon, <1>1, <1>3, <1>4, <1>5, LinkInStep

\* mymq_receive from the removal on: err_dump is not called.
LEMMA DequeueStep ==
    ASSUME IInv, NEW p \in Proc, mq_curmsgs > 0, Dequeue(p)
    PROVE  LinkOut(p) /\ ~aborted' /\ ListTypeOK' /\ ListInv'
           /\ OnlyWakes(Return(p), pc') /\ got' \in Message \cup {NoMessage}
<1>1. TypeOK /\ ListInv
  BY Zenon DEF IInv
<1>2. mqh_head \in Node /\ mqh_head # 0
  BY Zenon, <1>1, NotZero
<1>3. LinkOut(p) /\ ~aborted'
  BY Zenon, <1>2 DEF Dequeue
<1>4. ListTypeOK'
  <2>1. mq_curmsgs' \in 0..MaxMsg
    BY <1>1, <1>3, MqAssumption DEF TypeOK, LinkOut
  <2> QED
    BY Zenon, <1>1, <1>2, <1>3, <2>1 DEF TypeOK, LinkOut, ListTypeOK
<1>5. OnlyWakes(Return(p), pc')
  <2>1. Return(p) \in [Proc -> Label]
    BY Zenon, <1>1 DEF TypeOK, Return, Label
  <2>2. pc' \in CondSignal(Return(p)) \cup {Return(p)}
    BY Zenon, <1>3 DEF LinkOut
  <2> QED
    BY Zenon, <2>1, <2>2, SignalWakes
<1>6. got' \in Message \cup {NoMessage}
  BY Zenon, <1>1, <1>2, <1>3 DEF TypeOK, LinkOut
<1> QED
  BY Zenon, <1>1, <1>3, <1>4, <1>5, <1>6, LinkOutStep

\* The calls that neither touch the lists nor wait.
Quiet(p) ==
    Open(p) \/ Close(p) \/ SetAttr(p) \/ Register(p) \/ Unregister(p)

LEMMA QuietIInv ==
    ASSUME IInv, NEW p \in Proc, Quiet(p)
    PROVE  IInv' /\ UNCHANGED <<listVars, got>>
<1>1. TypeOK
  BY Zenon DEF IInv
<1>2. UNCHANGED <<listVars, mqh_nwait, pc, arg, got, aborted>>
  BY Zenon DEF Quiet, Open, Close, SetAttr, Register, Unregister
<1>3. ListInv'
  BY Zenon, <1>2, ListsUnchanged DEF IInv
<1>4. TypeOK'
  <2>1. CASE Open(p)
    BY Zenon, <1>1, <2>1 DEF TypeOK, Open, listVars, regVars
  <2>2. CASE Close(p)
    BY Zenon, <1>1, <2>2 DEF TypeOK, Close, listVars
  <2>3. CASE SetAttr(p)
    BY Zenon, <1>1, <2>3 DEF TypeOK, SetAttr, listVars, regVars
  <2>4. CASE Register(p)
    BY Zenon, <1>1, <2>4 DEF TypeOK, Register, listVars, openVars
  <2>5. CASE Unregister(p)
    BY Zenon, <1>1, <2>5 DEF TypeOK, Unregister, listVars, openVars
  <2> QED
    BY Zenon, <2>1, <2>2, <2>3, <2>4, <2>5 DEF Quiet
<1>5. RegisteredIsOpen'
  <2>1. RegisteredIsOpen
    BY Zenon DEF IInv
  <2>2. CASE Open(p)
    BY Zenon, <1>1, <2>1, <2>2 DEF TypeOK, Open, RegisteredIsOpen, regVars
  <2>3. CASE Close(p)
    BY Zenon, <1>1, <2>1, <2>3 DEF TypeOK, Close, RegisteredIsOpen
  <2>4. CASE SetAttr(p)
    BY Zenon, <2>1, <2>4 DEF SetAttr, RegisteredIsOpen, regVars
  <2>5. CASE Register(p)
    BY Zenon, <2>1, <2>5 DEF Register, Idle, RegisteredIsOpen, openVars
  <2>6. CASE Unregister(p)
    BY Zenon, <2>1, <2>6 DEF Unregister, RegisteredIsOpen
  <2> QED
    BY Zenon, <2>2, <2>3, <2>4, <2>5, <2>6 DEF Quiet
<1>6. NwaitCoversReceivers' /\ NoErrDump' /\ ArgIsMessage'
  BY Zenon, <1>2 DEF IInv, NwaitCoversReceivers, Receivers, Is, NoErrDump, ArgIsMessage
<1> QED
  BY Zenon, <1>2, <1>3, <1>4, <1>5, <1>6 DEF IInv

LEMMA SpuriousIInv ==
    ASSUME IInv, NEW p \in Proc, SpuriousWakeup(p)
    PROVE  IInv' /\ UNCHANGED <<listVars, got>>
<1>1. TypeOK /\ RegisteredIsOpen /\ ArgIsMessage /\ NoErrDump
  BY Zenon DEF IInv
<1>2. ListInv' /\ UNCHANGED <<listVars, got>>
  BY Zenon, ListsUnchanged DEF IInv, SpuriousWakeup
<1>3. \/ pc[p] = "sendwait" /\ pc' = [pc EXCEPT ![p] = "sendwake"]
      \/ pc[p] = "recvwait" /\ pc' = [pc EXCEPT ![p] = "recvwake"]
  BY Zenon DEF SpuriousWakeup
<1>4. pc' \in [Proc -> Label] /\ Receivers' = Receivers
  BY Zenon, <1>1, <1>3 DEF TypeOK, Label, Receivers, Is
<1>5. TypeOK'
  BY Zenon, <1>1, <1>4 DEF TypeOK, Label, SpuriousWakeup, listVars, regVars, openVars
<1>6. RegisteredIsOpen'
  BY Zenon, <1>1, <1>3 DEF TypeOK, RegisteredIsOpen, SpuriousWakeup, regVars, openVars
<1>7. NwaitCoversReceivers'
  BY Zenon, <1>4 DEF IInv, NwaitCoversReceivers, SpuriousWakeup
<1>8. ArgIsMessage' /\ NoErrDump'
  BY Zenon, <1>1, <1>3 DEF TypeOK, ArgIsMessage, NoErrDump, SpuriousWakeup
<1> QED
  BY Zenon, <1>2, <1>5, <1>6, <1>7, <1>8 DEF IInv

\* A process that is killed changes nothing in the file and stops being a
\* receiver without a decrement of mqh_nwait.
LEMMA KillIInv ==
    ASSUME IInv, NEW p \in Proc, Kill(p)
    PROVE  IInv' /\ UNCHANGED <<listVars, got>>
<1>1. TypeOK /\ RegisteredIsOpen /\ ArgIsMessage /\ NoErrDump
  BY Zenon DEF IInv
<1>2. ListInv' /\ UNCHANGED <<listVars, got>>
  BY Zenon, ListsUnchanged DEF IInv, Kill
<1>3. pc' = [pc EXCEPT ![p] = "dead"]
  BY Zenon DEF Kill
<1>4. pc' \in [Proc -> Label] /\ Receivers' = Receivers \ {p}
  BY Zenon, <1>1, <1>3 DEF TypeOK, Label, Receivers, Is
<1>5. TypeOK'
  <2>1. /\ mqi_open' \in [Proc -> BOOLEAN]
        /\ arg' \in [Proc -> Message \cup {NoMessage}]
    BY Zenon, <1>1 DEF TypeOK, Kill
  <2> QED
    BY Zenon, <1>1, <1>4, <2>1 DEF TypeOK, Label, Kill, listVars, regVars
<1>6. RegisteredIsOpen'
  BY Zenon, <1>1, <1>3 DEF TypeOK, RegisteredIsOpen, Kill, regVars
<1>7. NwaitCoversReceivers'
  <2>1. Receivers \in SUBSET Proc /\ Receivers \ {p} \in SUBSET Proc
    BY Zenon DEF Receivers, Is
  <2>2. /\ Cardinality(Receivers) \in Nat
        /\ Cardinality(Receivers \ {p}) \in Nat
    BY Zenon, <2>1, Counting
  <2>3. CASE p \in Receivers
    <3>1. Cardinality(Receivers \ {p}) = Cardinality(Receivers) - 1
      BY Zenon, <2>1, <2>3, Counting
    <3> QED
      BY <1>1, <1>4, <2>2, <3>1 DEF IInv, TypeOK, NwaitCoversReceivers, Kill
  <2>4. CASE p \notin Receivers
    <3>1. Receivers \ {p} = Receivers
      BY Zenon, <2>4
    <3> QED
      BY Zenon, <1>4, <3>1 DEF IInv, NwaitCoversReceivers, Kill
  <2> QED
    BY Zenon, <2>3, <2>4
<1>8. ArgIsMessage' /\ NoErrDump'
  BY Zenon, <1>1, <1>3 DEF TypeOK, ArgIsMessage, NoErrDump, Kill
<1> QED
  BY Zenon, <1>2, <1>5, <1>6, <1>7, <1>8 DEF IInv

\* A process blocked in a call after p's step is p, which blocks, or was blocked
\* before; here for the places only.
LEMMA Blocks ==
    ASSUME TypeOK, NEW p \in Proc,
           NEW label \in {"sendwait", "recvwait"}, pc[p] # "dead",
           pc' = [pc EXCEPT ![p] = label]
    PROVE  /\ pc' \in [Proc -> Label]
           /\ Receivers' = IF label = "recvwait" THEN Receivers \cup {p}
                                                 ELSE Receivers \ {p}
           /\ \A r \in Proc : r # p => pc'[r] = pc[r]
           /\ pc'[p] = label
BY Zenon DEF TypeOK, Label, Receivers, Is

\* Outside of mymq_notify and mymq_close a registered process stays as it is.
LEMMA StaysRegistered ==
    ASSUME TypeOK, RegisteredIsOpen, mqh_pid' = mqh_pid \/ mqh_pid' = NoProc,
           UNCHANGED mqi_open,
           \A r \in Proc : pc[r] = "dead" => pc'[r] = "dead"
    PROVE  RegisteredIsOpen'
BY Zenon DEF TypeOK, RegisteredIsOpen

\* What a step may do to the queue of messages.
QueueStep ==
    \/ UNCHANGED <<listVars, got>>
    \/ /\ mq_curmsgs < MaxMsg /\ UNCHANGED got
       /\ \E p \in Proc, m \in Message : LinkIn(p, m)
    \/ /\ mq_curmsgs > 0
       /\ \E p \in Proc : LinkOut(p)

LEMMA SendIInv ==
    ASSUME IInv, NEW p \in Proc, Send(p)
    PROVE  IInv' /\ QueueStep
<1>1. TypeOK /\ ListInv /\ RegisteredIsOpen /\ ArgIsMessage /\ NoErrDump
      /\ mqh_nwait >= Cardinality(Receivers)
  BY Zenon DEF IInv, NwaitCoversReceivers
<1>2. /\ pc[p] = "idle" /\ p \notin Receivers
      /\ nsend' \in 1..MaxSend /\ nsend' \in 0..MaxSend
  BY <1>1, MqAssumption DEF Send, Idle, TypeOK, Receivers, Is
<1>3. PICK m \in Message :
        \/ /\ mq_curmsgs < MaxMsg
           /\ NotifyArrival
           /\ Enqueue(p, m)
           /\ UNCHANGED arg
        \/ /\ mq_curmsgs >= MaxMsg /\ ~mqi_nonblock[p]
           /\ pc' = [pc EXCEPT ![p] = "sendwait"]
           /\ arg' = [arg EXCEPT ![p] = m]
           /\ UNCHANGED <<listVars, mqh_pid, nsig, aborted>>
  BY Zenon, <1>2 DEF Send, Message
<1>4. UNCHANGED <<mqh_nwait, mqh_event, openVars, got>>
  BY Zenon DEF Send
<1>5. CASE mq_curmsgs < MaxMsg /\ NotifyArrival /\ Enqueue(p, m) /\ UNCHANGED arg
  <2>1. /\ LinkIn(p, m) /\ ~aborted' /\ ListTypeOK' /\ ListInv'
        /\ OnlyWakes(Return(p), pc')
    BY Zenon, <1>5, EnqueueStep
  <2>2. /\ pc' \in [Proc -> Label] /\ Receivers' = Receivers
        /\ \A r \in Proc : pc'[r] \in {"sendwait", "sendwake"}
                           => pc[r] \in {"sendwait", "sendwake"}
        /\ \A r \in Proc : pc[r] = "dead" => pc'[r] = "dead"
    BY Zenon, <1>1, <1>2, <2>1, ReturnReceivers
  <2>3. /\ mqh_pid' = mqh_pid \/ mqh_pid' = NoProc
        /\ mqh_pid' \in Proc \cup {NoProc} /\ nsig' \in [Proc -> Nat]
    BY SMTT(30), <1>1, <1>5 DEF NotifyArrival, TypeOK
  <2>4. TypeOK'
    <3>1. aborted' \in BOOLEAN
      BY Zenon, <1>5 DEF Enqueue
    <3> QED
      BY SMTT(30), <1>1, <1>2, <1>4, <1>5, <2>1, <2>2, <2>3, <3>1
         DEF TypeOK, Label, ListTypeOK, openVars
  <2>5. RegisteredIsOpen'
    BY SMTT(30), <1>1, <1>4, <2>2, <2>3, StaysRegistered DEF openVars
  <2>6. NwaitCoversReceivers' /\ ArgIsMessage' /\ NoErrDump'
    BY SMTT(30), <1>1, <1>4, <1>5, <2>1, <2>2
       DEF NwaitCoversReceivers, ArgIsMessage, NoErrDump
  <2> QED
    BY SMTT(30), <1>4, <1>5, <2>1, <2>4, <2>5, <2>6 DEF IInv, QueueStep
<1>6. CASE /\ pc' = [pc EXCEPT ![p] = "sendwait"]
           /\ arg' = [arg EXCEPT ![p] = m]
           /\ UNCHANGED <<listVars, mqh_pid, nsig, aborted>>
  <2>1. /\ pc' \in [Proc -> Label] /\ Receivers' = Receivers
        /\ \A r \in Proc : r # p => pc'[r] = pc[r]
    <3>1. /\ pc' \in [Proc -> Label] /\ Receivers' = Receivers \ {p}
          /\ \A r \in Proc : r # p => pc'[r] = pc[r]
      BY ZenonT(30), <1>1, <1>2, <1>6, Blocks
    <3> QED
      BY Zenon, <1>2, <3>1
  <2>2. TypeOK'
    <3>1. arg' \in [Proc -> Message \cup {NoMessage}]
      BY Zenon, <1>1, <1>6 DEF TypeOK
    <3> QED
      BY Zenon, <1>1, <1>2, <1>4, <1>6, <2>1, <3>1
         DEF TypeOK, Label, listVars, openVars
  <2>3. RegisteredIsOpen'
    BY Zenon, <1>1, <1>2, <1>4, <1>6, <2>1, StaysRegistered DEF openVars
  <2>4. ListInv'
    BY Zenon, <1>1, <1>6, ListsUnchanged
  <2>5. ArgIsMessage'
    BY Zenon, <1>1, <1>6, <2>1 DEF ArgIsMessage, TypeOK
  <2>6. NwaitCoversReceivers' /\ NoErrDump'
    BY SMTT(30), <1>1, <1>4, <1>6, <2>1
       DEF NwaitCoversReceivers, NoErrDump
  <2> QED
    BY SMTT(30), <1>4, <1>6, <2>2, <2>3, <2>4, <2>5, <2>6 DEF IInv, QueueStep
<1> QED
  BY Zenon, <1>3, <1>5, <1>6

LEMMA SendResumeIInv ==
    ASSUME IInv, NEW p \in Proc, SendResume(p)
    PROVE  IInv' /\ QueueStep
<1>1. TypeOK /\ ListInv /\ RegisteredIsOpen /\ ArgIsMessage /\ NoErrDump
      /\ mqh_nwait >= Cardinality(Receivers)
  BY Zenon DEF IInv, NwaitCoversReceivers
<1>2. pc[p] = "sendwake" /\ p \notin Receivers /\ arg[p] \in Message
  BY Zenon, <1>1 DEF SendResume, Receivers, Is, ArgIsMessage
<1>3. UNCHANGED <<mqh_nwait, regVars, openVars, got, nsend>>
  BY Zenon DEF SendResume
<1>4. CASE /\ mq_curmsgs < MaxMsg /\ Enqueue(p, arg[p])
           /\ arg' = [arg EXCEPT ![p] = NoMessage]
  <2>0. PICK m \in Message : m = arg[p] /\ Enqueue(p, m)
    BY Zenon, <1>2, <1>4
  <2>1. /\ LinkIn(p, m) /\ ~aborted' /\ ListTypeOK' /\ ListInv'
        /\ OnlyWakes(Return(p), pc')
    BY SMTT(30), <1>4, <2>0, EnqueueStep
  <2>2. /\ pc' \in [Proc -> Label] /\ Receivers' = Receivers
        /\ \A r \in Proc : pc'[r] \in {"sendwait", "sendwake"}
                           => pc[r] \in {"sendwait", "sendwake"} /\ r # p
        /\ \A r \in Proc : pc[r] = "dead" => pc'[r] = "dead"
    BY SMTT(30), <1>1, <1>2, <2>1, ReturnReceivers
  <2>3. TypeOK'
    <3>1. aborted' \in BOOLEAN
      BY Zenon, <2>0 DEF Enqueue
    <3>2. arg' \in [Proc -> Message \cup {NoMessage}]
      BY Zenon, <1>1, <1>4 DEF TypeOK
    <3> QED
      BY SMTT(30), <1>1, <1>3, <2>1, <2>2, <3>1, <3>2
         DEF TypeOK, Label, ListTypeOK, openVars, regVars
  <2>4. RegisteredIsOpen'
    BY SMTT(30), <1>1, <1>3, <2>2, StaysRegistered DEF openVars, regVars
  <2>5. ArgIsMessage'
    BY Zenon, <1>1, <1>4, <2>2 DEF ArgIsMessage, TypeOK
  <2>6. NwaitCoversReceivers' /\ NoErrDump'
    BY Zenon, <1>1, <1>3, <2>1, <2>2 DEF NwaitCoversReceivers, NoErrDump
  <2> QED
    BY Zenon, <1>3, <1>4, <2>1, <2>3, <2>4, <2>5, <2>6 DEF IInv, QueueStep
<1>5. CASE /\ pc' = [pc EXCEPT ![p] = "sendwait"]
           /\ UNCHANGED <<listVars, arg, aborted>>
  <2>1. /\ pc' \in [Proc -> Label] /\ Receivers' = Receivers
        /\ \A r \in Proc : r # p => pc'[r] = pc[r]
    <3>1. /\ pc' \in [Proc -> Label] /\ Receivers' = Receivers \ {p}
          /\ \A r \in Proc : r # p => pc'[r] = pc[r]
      BY ZenonT(30), <1>1, <1>2, <1>5, Blocks
    <3> QED
      BY Zenon, <1>2, <3>1
  <2>2. TypeOK'
    BY Zenon, <1>1, <1>3, <1>5, <2>1 DEF TypeOK, Label, listVars, openVars, regVars
  <2>3. RegisteredIsOpen'
    BY Zenon, <1>1, <1>2, <1>3, <2>1, StaysRegistered DEF openVars, regVars
  <2>4. ListInv'
    BY Zenon, <1>1, <1>5, ListsUnchanged
  <2>5. ArgIsMessage'
    BY Zenon, <1>1, <1>2, <1>5, <2>1 DEF ArgIsMessage
  <2>6. NwaitCoversReceivers' /\ NoErrDump'
    BY SMTT(30), <1>1, <1>3, <1>5, <2>1
       DEF NwaitCoversReceivers, NoErrDump
  <2> QED
    BY SMTT(30), <1>3, <1>5, <2>2, <2>3, <2>4, <2>5, <2>6 DEF IInv, QueueStep
<1> QED
  BY Zenon, <1>4, <1>5 DEF SendResume

\* A receiver that blocks is counted; one that returns from its wait no longer.
LEMMA ReceiveIInv ==
    ASSUME IInv, NEW p \in Proc, Receive(p) \/ ReceiveResume(p)
    PROVE  IInv' /\ QueueStep
<1>1. TypeOK /\ ListInv /\ RegisteredIsOpen /\ ArgIsMessage /\ NoErrDump
      /\ mqh_nwait >= Cardinality(Receivers) /\ mqh_nwait \in Nat
      /\ Receivers \in SUBSET Proc
  BY Zenon DEF IInv, NwaitCoversReceivers, Receivers, TypeOK, Is
<1>2. /\ pc[p] \in {"idle", "recvwake"}
      /\ p \in Receivers <=> pc[p] = "recvwake"
      /\ UNCHANGED <<regVars, openVars, arg, nsend>>
  BY Zenon DEF Receive, ReceiveResume, Idle, Receivers, Is
<1>3. CASE /\ mq_curmsgs > 0 /\ Dequeue(p)
           /\ mqh_nwait' = IF pc[p] = "recvwake" THEN mqh_nwait - 1
                           ELSE mqh_nwait
  <2>1. /\ LinkOut(p) /\ ~aborted' /\ ListTypeOK' /\ ListInv'
        /\ OnlyWakes(Return(p), pc') /\ got' \in Message \cup {NoMessage}
    BY SMTT(30), <1>3, DequeueStep
  <2>2. /\ pc' \in [Proc -> Label] /\ Receivers' = Receivers \ {p}
        /\ \A r \in Proc : pc'[r] \in {"sendwait", "sendwake"}
                           => pc[r] \in {"sendwait", "sendwake"}
        /\ \A r \in Proc : pc[r] = "dead" => pc'[r] = "dead"
    BY Zenon, <1>1, <1>2, <2>1, ReturnReceivers
  <2>3. mqh_nwait' >= Cardinality(Receivers') /\ mqh_nwait' \in Nat
    <3>1. CASE pc[p] = "recvwake"
      <4>1. Cardinality(Receivers \ {p}) = Cardinality(Receivers) - 1
            /\ Cardinality(Receivers \ {p}) \in Nat
            /\ Cardinality(Receivers) \in Nat
        BY Zenon, <1>1, <1>2, <3>1, Counting
      <4> QED
        BY SMTT(30), <1>1, <1>3, <2>2, <3>1, <4>1
    <3>2. CASE pc[p] # "recvwake"
      <4>1. Receivers \ {p} = Receivers
        BY SMTT(30), <1>2, <3>2
      <4> QED
        BY Zenon, <1>1, <1>3, <2>2, <3>2, <4>1
    <3> QED
      BY Zenon, <3>1, <3>2
  <2>4. TypeOK'
    <3>1. aborted' \in BOOLEAN
      BY Zenon, <1>3 DEF Dequeue
    <3> QED
      BY SMTT(30), <1>1, <1>2, <2>1, <2>2, <2>3, <3>1
         DEF TypeOK, Label, ListTypeOK, openVars, regVars
  <2>5. RegisteredIsOpen'
    BY SMTT(30), <1>1, <1>2, <2>2, StaysRegistered DEF openVars, regVars
  <2>6. ArgIsMessage'
    BY Zenon, <1>1, <1>2, <2>2 DEF ArgIsMessage
  <2>7. NwaitCoversReceivers' /\ NoErrDump'
    BY Zenon, <2>1, <2>3 DEF NwaitCoversReceivers, NoErrDump
  <2> QED
    BY SMTT(30), <1>3, <2>1, <2>4, <2>5, <2>6, <2>7 DEF IInv, QueueStep
<1>4. CASE /\ pc' = [pc EXCEPT ![p] = "recvwait"]
           /\ mqh_nwait' = IF pc[p] = "recvwake" THEN mqh_nwait
                           ELSE mqh_nwait + 1
           /\ UNCHANGED <<listVars, got, aborted>>
  <2>1. /\ pc' \in [Proc -> Label] /\ Receivers' = Receivers \cup {p}
        /\ \A r \in Proc : r # p => pc'[r] = pc[r]
        /\ pc'[p] = "recvwait"
    BY Zenon, <1>1, <1>2, <1>4, Blocks
  <2>2. mqh_nwait' >= Cardinality(Receivers') /\ mqh_nwait' \in Nat
    <3>1. CASE pc[p] = "recvwake"
      <4>1. Receivers \cup {p} = Receivers
        BY Zenon, <1>2, <3>1
      <4> QED
        BY Zenon, <1>1, <1>4, <2>1, <3>1, <4>1
    <3>2. CASE pc[p] # "recvwake"
      <4>1. Cardinality(Receivers \cup {p}) = Cardinality(Receivers) + 1
            /\ Cardinality(Receivers) \in Nat
        BY SMTT(30), <1>1, <1>2, <3>2, Counting
      <4> QED
        BY <1>1, <1>4, <2>1, <3>2, <4>1
    <3> QED
      BY Zenon, <3>1, <3>2
  <2>3. TypeOK'
    BY Zenon, <1>1, <1>2, <1>4, <2>1, <2>2
       DEF TypeOK, Label, listVars, openVars, regVars
  <2>4. RegisteredIsOpen'
    BY Zenon, <1>1, <1>2, <2>1, StaysRegistered DEF openVars, regVars
  <2>5. ListInv'
    BY Zenon, <1>1, <1>4, ListsUnchanged
  <2>6. ArgIsMessage'
    BY Zenon, <1>1, <1>2, <2>1 DEF ArgIsMessage
  <2>7. NwaitCoversReceivers' /\ NoErrDump'
    BY Zenon, <1>1, <1>4, <2>2 DEF NwaitCoversReceivers, NoErrDump
  <2> QED
    BY Zenon, <1>4, <2>3, <2>4, <2>5, <2>6, <2>7 DEF IInv, QueueStep
<1> QED
  BY SMTT(30), <1>2, <1>3, <1>4 DEF Receive, ReceiveResume, Idle

LEMMA NextIInv ==
    ASSUME IInv, [Next]_vars
    PROVE  IInv' /\ QueueStep
<1>1. CASE UNCHANGED vars
  <2>1. UNCHANGED <<listVars, got>>
    BY Zenon, <1>1 DEF vars
  <2>2. ListInv'
    BY SMTT(30), <2>1, ListsUnchanged DEF IInv
  <2>3. TypeOK' /\ RegisteredIsOpen' /\ NwaitCoversReceivers'
    BY Zenon, <1>1 DEF IInv, TypeOK, RegisteredIsOpen, NwaitCoversReceivers,
       Receivers, Is, vars, listVars, regVars, openVars
  <2>4. ArgIsMessage' /\ NoErrDump'
    BY Zenon, <1>1 DEF IInv, ArgIsMessage, NoErrDump, vars
  <2> QED
    BY Zenon, <2>1, <2>2, <2>3, <2>4 DEF IInv, QueueStep
<1>2. ASSUME NEW p \in Proc, Step(p) PROVE IInv' /\ QueueStep
  <2>1. CASE Quiet(p) \/ SpuriousWakeup(p)
    BY Zenon, <2>1, QuietIInv, SpuriousIInv DEF QueueStep
  <2>2. CASE Send(p)
    BY Zenon, <2>2, SendIInv
  <2>3. CASE SendResume(p)
    BY Zenon, <2>3, SendResumeIInv
  <2>4. CASE Receive(p) \/ ReceiveResume(p)
    BY Zenon, <2>4, ReceiveIInv
  <2> QED
    BY Zenon, <1>2, <2>1, <2>2, <2>3, <2>4 DEF Step, Quiet
<1>3. ASSUME NEW p \in Proc, Kill(p) PROVE IInv' /\ QueueStep
  BY Zenon, <1>3, KillIInv DEF QueueStep
<1> QED
  BY Zenon, <1>1, <1>2, <1>3 DEF Next, Calls

\* The inductive invariant holds throughout.
THEOREM Invariance == Spec => []IInv
<1>1. IInv /\ [Next]_vars => IInv'
  BY Zenon, NextIInv
<1> QED
  BY InitIInv, <1>1, PTL DEF Spec

\* The insertion of mymq_send and the removal of mymq_receive keep every node on
\* exactly one of the two lists.
THEOREM ListsHold == Spec => []ListsPartition
<1>1. IInv => ListsPartition
  BY Zenon DEF IInv, ListInv
<1> QED
  BY Invariance, <1>1, PTL

\* The err_dump calls of mymq_send and mymq_receive are never reached.
THEOREM NoErrDumpHolds == Spec => []NoErrDump
<1>1. IInv => NoErrDump
  BY Zenon DEF IInv
<1> QED
  BY Invariance, <1>1, PTL

\* mqh_nwait counts every process that is blocked in mymq_receive.
THEOREM NwaitHolds == Spec => []NwaitCoversReceivers
<1>1. IInv => NwaitCoversReceivers
  BY Zenon DEF IInv
<1> QED
  BY Invariance, <1>1, PTL

\* The fields of the queue stay in their ranges: mq_curmsgs within mq_maxmsg.
THEOREM MqTypeCorrect == Spec => []TypeOK
<1>1. IInv => TypeOK
  BY Zenon DEF IInv
<1> QED
  BY Invariance, <1>1, PTL

\* A process that is registered for notification has the queue open: mymq_close
\* unregisters it.
THEOREM RegisteredHolds == Spec => []RegisteredIsOpen
<1>1. IInv => RegisteredIsOpen
  BY Zenon DEF IInv
<1> QED
  BY Invariance, <1>1, PTL

-----------------------------------------------------------------------------

\* The queue is a sequence of mq_curmsgs messages.
LEMMA QueueSeq ==
    ASSUME NEW c \in Nat, NEW q, Sorted(q, c)
    PROVE  q \in Seq(Message) /\ Len(q) = c
BY DEF Sorted

LEMMA InitRefines == Init => PQ!Init
<1> SUFFICES ASSUME Init PROVE PQ!Init
  OBVIOUS
<1>1. ListInv
  BY Zenon, InitIInv DEF IInv
<1>2. mq_curmsgs = 0 /\ got = NoMessage
  BY Zenon DEF Init
<1>3. Queue \in Seq(Message) /\ Len(Queue) = 0
  BY Zenon, <1>1, <1>2, QueueSeq DEF ListInv
<1>4. Queue = <<>>
  BY <1>3
<1> QED
  BY Zenon, <1>2, <1>4 DEF PQ!Init

\* Every step of the linked list is a step of the abstract queue or changes
\* nothing in it.
LEMMA StepRefines ==
    ASSUME IInv, IInv', QueueStep
    PROVE  PQ!Next \/ UNCHANGED PQ!vars
<1>1. PICK c \in Nat : c = mq_curmsgs /\ c <= MaxMsg /\ MaxMsg \in Nat
  BY MqAssumption DEF IInv, TypeOK
<1>2. PICK q : q = Queue /\ Sorted(q, c)
  BY Zenon, <1>1 DEF IInv, ListInv
<1>3. q \in Seq(Message) /\ Len(q) = c
  BY Zenon, <1>2, QueueSeq
<1>4. CASE UNCHANGED <<listVars, got>>
  <2>1. Queue' = Queue
    BY Zenon, <1>4, ListsUnchanged DEF IInv
  <2> QED
    BY Zenon, <1>4, <2>1 DEF PQ!vars
<1>5. CASE /\ mq_curmsgs < MaxMsg /\ UNCHANGED got
           /\ \E p \in Proc, m \in Message : LinkIn(p, m)
  <2>1. PICK p \in Proc, m \in Message : LinkIn(p, m)
    BY Zenon, <1>5
  <2>2. PICK n \in 0..c : StopsAt(q, c, n, m) /\ Queue' = Inserted(q, c, n, m)
    BY SMTT(30), <1>1, <1>2, <1>5, <2>1, LinkInStep DEF IInv
  <2>3. \A i \in (n + 1)..c : q[i].prio < m.prio
    BY Zenon, <1>2, <2>2, SortedInsert
  <2>4. \A i \in 1..n : q[i].prio >= m.prio
    BY SMTT(30), <2>2 DEF StopsAt
  <2>5. PQ!Put(m)
    BY Zenon, <1>1, <1>2, <1>3, <1>5, <2>2, <2>3, <2>4 DEF PQ!Put, Inserted
  <2> QED
    BY Zenon, <2>5 DEF PQ!Next
<1>6. CASE mq_curmsgs > 0 /\ \E p \in Proc : LinkOut(p)
  <2>1. got' = q[1] /\ Queue' = [i \in 1..(c - 1) |-> q[i + 1]]
    BY Zenon, <1>1, <1>2, <1>6, LinkOutStep DEF IInv
  <2>2. q # <<>>
    BY <1>1, <1>3, <1>6
  <2>3. Tail(q) \in Seq(Message) /\ Len(Tail(q)) = c - 1
        /\ \A i \in 1..(c - 1) : Tail(q)[i] = q[i + 1]
    BY <1>3, <2>2
  <2>4. Tail(q) = [i \in 1..(c - 1) |-> q[i + 1]]
    <3>1. PICK t : t = Tail(q)
      BY Zenon
    <3>2. t \in [1..(c - 1) -> Message]
      <4>1. t \in Seq(Message) /\ Len(t) = c - 1
        BY Zenon, <2>3, <3>1
      <4>2. t \in [1..Len(t) -> Message]
        BY <4>1
      <4> QED
        BY Zenon, <4>1, <4>2
    <3>3. t = [i \in 1..(c - 1) |-> q[i + 1]]
      BY Zenon, <2>3, <3>1, <3>2
    <3> QED
      BY Zenon, <3>1, <3>3
  <2>5. Head(q) = q[1]
    BY <1>3, <2>2
  <2>6. PQ!Take
    BY Zenon, <1>2, <2>1, <2>2, <2>4, <2>5 DEF PQ!Take
  <2> QED
    BY Zenon, <2>6 DEF PQ!Next
<1> QED
  BY SMTT(30), <1>4, <1>5, <1>6 DEF QueueStep

\* The linked list in the mapped file, with the processes that use it, is a
\* priority queue: it implements PrioQueue.
THEOREM Refinement == Spec => IsPrioQueue
<1>1. IInv /\ IInv' /\ [Next]_vars => [PQ!Next]_(PQ!vars)
  BY Zenon, NextIInv, StepRefines
<1>2. Spec => PQ!Init /\ [][PQ!Next]_(PQ!vars)
  BY Invariance, InitRefines, <1>1, PTL DEF Spec
<1> QED
  BY Zenon, <1>2 DEF IsPrioQueue, PQ!Spec

-----------------------------------------------------------------------------

\* Only mymq_send makes a signal, when it finds the queue empty.
LEMMA SignalSource ==
    ASSUME IInv, [Next]_vars, nsig' # nsig
    PROVE  /\ mq_curmsgs = 0 /\ mq_curmsgs' = 1
           /\ mqh_nwait = 0
           /\ mqh_pid \in Proc /\ mqh_pid' = NoProc
           /\ nsig' = [nsig EXCEPT ![mqh_pid] = @ + 1]
<1>1. PICK p \in Proc : Send(p)
  BY Zenon DEF Next, Calls, Step, Kill, Open, Close, SetAttr, Register, Unregister, SendResume,
     Receive, ReceiveResume, SpuriousWakeup, regVars, vars
<1>2. /\ NotifyArrival /\ mq_curmsgs < MaxMsg
      /\ \E m \in Message : Enqueue(p, m)
  <2>1. nsend' \in 1..MaxSend
    BY <1>1, MqAssumption DEF IInv, TypeOK, Send
  <2> QED
    BY SMTT(30), <1>1, <2>1 DEF Send, Message
<1>3. \E m \in Message : LinkIn(p, m)
  BY Zenon, <1>2, EnqueueStep
<1>4. mq_curmsgs' = mq_curmsgs + 1
  BY Zenon, <1>3 DEF LinkIn
<1> QED
  BY SMTT(30), <1>2, <1>4 DEF NotifyArrival, IInv, TypeOK

\* A signal goes to the registered process only, unregisters it, and is made
\* only for a message that comes to an empty queue nobody is waiting at.
THEOREM SignalsHold == Spec => SignalOnlyWhenDue
<1> DEFINE Due ==
      \A p \in Proc : nsig'[p] # nsig[p] =>
          /\ nsig'[p] = nsig[p] + 1
          /\ mqh_pid = p /\ mqh_pid' # p
          /\ Queue = <<>> /\ Queue' # <<>>
          /\ Receivers = {}
<1>1. IInv /\ IInv' /\ [Next]_vars => [Due]_vars
  <2> SUFFICES ASSUME IInv, IInv', [Next]_vars,
                      NEW p \in Proc, nsig'[p] # nsig[p]
               PROVE  /\ nsig'[p] = nsig[p] + 1
                      /\ mqh_pid = p /\ mqh_pid' # p
                      /\ Queue = <<>> /\ Queue' # <<>>
                      /\ Receivers = {}
    OBVIOUS
  <2>1. /\ mq_curmsgs = 0 /\ mq_curmsgs' = 1
        /\ mqh_nwait = 0
        /\ mqh_pid \in Proc /\ mqh_pid' = NoProc
        /\ nsig' = [nsig EXCEPT ![mqh_pid] = @ + 1]
    BY SMTT(30), SignalSource
  <2>2. mqh_pid = p /\ nsig'[p] = nsig[p] + 1 /\ mqh_pid' # p
    BY Zenon, <2>1, MqAssumption DEF IInv, TypeOK
  <2>3. Queue = <<>>
    <3>1. Queue \in Seq(Message) /\ Len(Queue) = 0
      BY Zenon, <2>1, QueueSeq DEF IInv, ListInv
    <3> QED
      BY <3>1
  <2>4. Queue' # <<>>
    <3>1. Sorted(Queue', 1)
      BY Zenon, <2>1 DEF IInv, ListInv, Sorted
    <3>2. Len(Queue') = 1
      BY ZenonT(30), <3>1, QueueSeq
    <3>3. \A q : Len(q) = 1 => q # <<>>
      OBVIOUS
    <3> QED
      BY Zenon, <3>2, <3>3
  <2>5. Receivers = {}
    <3>1. Receivers \in SUBSET Proc
      BY Zenon DEF Receivers, Is
    <3>2. Cardinality(Receivers) \in Nat
      BY Zenon, <3>1, Counting
    <3>3. Cardinality(Receivers) = 0
      BY <2>1, <3>2 DEF IInv, NwaitCoversReceivers
    <3> QED
      BY Zenon, <3>1, <3>3, Counting
  <2> QED
    BY SMTT(30), <2>2, <2>3, <2>4, <2>5
<1>2. Spec => [][Due]_vars
  BY Invariance, <1>1, PTL DEF Spec
<1> QED
  BY Zenon, <1>2 DEF SignalOnlyWhenDue
=============================================================================
