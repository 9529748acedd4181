-------------------------------- MODULE Rtt ---------------------------------
(***************************************************************************)
(* A reliable request over UDP: dg_send_recv of unpv13e/rtt, the timeout   *)
(* functions of lib/rtt.c, the echo server of lib/dg_echo.c and a network  *)
(* that loses, delays, reorders and duplicates datagrams.                  *)
(*                                                                         *)
(* A datagram is in the set toServer or toClient until it is lost; its     *)
(* receipt may leave it there.  Of a timestamp the model keeps the call of *)
(* rtt_init it counts from (rtt_base), so that the transmissions of a      *)
(* request are alike.  The estimators are floating point: rtt_stop arrives *)
(* at any value of Raw.                                                    *)
(***************************************************************************)
EXTENDS Integers, FiniteSets

CONSTANTS
    Data,       \* what callers send
    Raw,        \* values of RTT_RTOCALC, in seconds
    RXTMIN, RXTMAX, MAXNREXMT,
    MaxSeq      \* bound: calls of dg_send_recv

ASSUME RttAssumption ==
    /\ Raw \subseteq Nat
    /\ RXTMIN \in Nat /\ RXTMAX \in Nat /\ 0 < RXTMIN /\ RXTMIN <= RXTMAX
    /\ MAXNREXMT \in Nat /\ MaxSeq \in Nat

VARIABLES
    state,      \* "idle", "send", "recv" or "got"
    seq,        \* sendhdr.seq
    outbuff,
    recvd,      \* recvhdr and inbuff
    rttinit, base, rto, nrexmt,
    timer,      \* SIGALRM is due
    toServer, toClient,
    result      \* of the last call: "none", "answer" or "ETIMEDOUT"

net == <<toServer, toClient>>
rttVars == <<state, seq, outbuff, recvd, rttinit, base, rto, nrexmt, timer, net,
          result>>

Datagram == [seq : 1 .. MaxSeq, base : Nat, data : Data]

\* Mutant: the upper limit is missing.
rtt_min(r) == IF r < RXTMIN THEN RXTMIN ELSE r

rtt_minmax(r) == IF r < RXTMIN THEN RXTMIN ELSE IF r > RXTMAX THEN RXTMAX ELSE r

RttInit ==
    /\ state = "idle"
    /\ seq = 0
    /\ outbuff \in Data
    /\ recvd = [seq |-> 0, base |-> 0, data |-> outbuff]
    /\ rttinit = FALSE /\ base = 0 /\ rto = 0 /\ nrexmt = 0
    /\ timer = FALSE
    /\ toServer = {} /\ toClient = {}
    /\ result = "none"

-----------------------------------------------------------------------------

\* A new request: rtt_init the first time and after a request was given up,
\* srtt = 0 and rttvar = 0.75 make 3 seconds; rtt_newpack.
Call ==
    /\ state = "idle" /\ seq < MaxSeq
    /\ \/ /\ ~ rttinit
          /\ base' = base + 1 /\ rto' = rtt_minmax(3) /\ rttinit' = TRUE
       \/ rttinit /\ UNCHANGED <<base, rto, rttinit>>
    /\ seq' = seq + 1
    /\ outbuff' \in Data
    /\ nrexmt' = 0
    /\ state' = "send"
    /\ result' = "none"
    /\ UNCHANGED <<recvd, timer, net>>

\* Label sendagain: Sendmsg, alarm and sigsetjmp.  alarm(0) starts no timer.
Send ==
    /\ state = "send"
    /\ toServer' = toServer \cup
          {[seq |-> seq, base |-> base, data |-> outbuff]}
    /\ timer' = (rto > 0)
    /\ state' = "recv"
    /\ UNCHANGED <<seq, outbuff, recvd, rttinit, base, rto, nrexmt, toClient, result>>

\* Mutant: any answer will do.
RecvAny ==
    /\ state = "recv"
    /\ \E m \in toClient :
          /\ toClient' \in {toClient, toClient \ {m}}
          /\ recvd' = m
          /\ state' = "got"
    /\ UNCHANGED <<seq, outbuff, rttinit, base, rto, nrexmt, timer, toServer, result>>

\* Recvmsg, until the answer has the sequence number of the request.
Recv ==
    /\ state = "recv"
    /\ \E m \in toClient :
          /\ toClient' \in {toClient, toClient \ {m}}
          /\ recvd' = m
          /\ state' = IF m.seq = seq THEN "got" ELSE "recv"
    /\ UNCHANGED <<seq, outbuff, rttinit, base, rto, nrexmt, timer, toServer, result>>

\* alarm(0) and rtt_stop.
Stop ==
    /\ state = "got"
    /\ timer' = FALSE
    /\ \E r \in Raw : rto' = rtt_minmax(r)
    /\ state' = "idle"
    /\ result' = "answer"
    /\ UNCHANGED <<seq, outbuff, recvd, rttinit, base, nrexmt, net>>

\* Mutant: rtt_timeout is not called.
AlarmUncounted ==
    /\ timer /\ state \in {"recv", "got"}
    /\ timer' = FALSE
    /\ state' = "send"
    /\ UNCHANGED <<seq, outbuff, recvd, base, rttinit, rto, nrexmt, net, result>>

\* SIGALRM, also after the answer was received: sig_alrm jumps back, rtt_timeout
\* doubles the timeout, and the request is sent again or given up.
Alarm ==
    /\ timer /\ state \in {"recv", "got"}
    /\ timer' = FALSE
    /\ rto' = 2 * rto
    /\ nrexmt' = nrexmt + 1
    /\ \/ /\ nrexmt' <= MAXNREXMT
          /\ state' = "send"
          /\ UNCHANGED <<rttinit, result>>
       \/ /\ nrexmt' > MAXNREXMT
          /\ rttinit' = FALSE
          /\ state' = "idle"
          /\ result' = "ETIMEDOUT"
    /\ UNCHANGED <<seq, outbuff, recvd, base, net>>

\* dg_echo: a datagram goes back as it came.
Echo ==
    /\ \E m \in toServer :
          /\ toServer' \in {toServer, toServer \ {m}}
          /\ toClient' = toClient \cup {m}
    /\ UNCHANGED <<state, seq, outbuff, recvd, rttinit, base, rto, nrexmt, timer, result>>

\* The network loses a datagram.
Lose ==
    /\ \/ \E m \in toServer : toServer' = toServer \ {m} /\ UNCHANGED toClient
       \/ \E m \in toClient : toClient' = toClient \ {m} /\ UNCHANGED toServer
    /\ UNCHANGED <<state, seq, outbuff, recvd, rttinit, base, rto, nrexmt, timer, result>>

RttNext == Call \/ Send \/ Recv \/ Stop \/ Alarm \/ Echo \/ Lose

RttSpec == RttInit /\ [][RttNext]_rttVars

\* The client runs and time passes; nothing is assumed of network and server.
RttFairSpec == RttSpec /\ WF_rttVars(Send) /\ WF_rttVars(Stop) /\ WF_rttVars(Alarm)

-----------------------------------------------------------------------------

\* Type correctness.
RttTypeOK ==
    /\ state \in {"idle", "send", "recv", "got"}
    /\ seq \in 0 .. MaxSeq /\ outbuff \in Data
    /\ rttinit \in BOOLEAN /\ timer \in BOOLEAN
    /\ base \in Nat /\ rto \in Nat /\ nrexmt \in 0 .. MAXNREXMT + 1
    /\ toServer \subseteq Datagram /\ toClient \subseteq Datagram
    /\ result \in {"none", "answer", "ETIMEDOUT"}

\* A call that returns an answer returns the echo of its own request, whatever
\* late and duplicate datagrams overwrote inbuff before, and the timestamp from
\* which rtt_stop computes the round trip counts from the same rtt_base.
AnswersRequest ==
    state = "got" \/ (state = "idle" /\ result = "answer") =>
       recvd.seq = seq /\ recvd.data = outbuff /\ recvd.base = base

\* While a call waits for its answer the timer runs: the timeout is never 0, which
\* alarm would take for "no timer", also when rtt_stop computed it from round
\* trips too short to measure.
TimerRuns ==
    state # "idle" => RXTMIN <= rto /\ (state = "recv" => timer)

\* The timeout of a request is never beyond what the doublings of rtt_timeout make
\* of RXTMAX: rto is doubled without rtt_minmax, but every request starts with one
\* that is in bounds, whatever requests before it were given up.
TimeoutBounded ==
    state # "idle" => rto <= RXTMAX * 2 ^ nrexmt

\* Every call returns, with an answer or with ETIMEDOUT, even if every datagram
\* is lost and even if answers to other requests keep coming.
CallReturns == state # "idle" ~> state = "idle"

=============================================================================
