---------------------------- MODULE PrintdProofs ----------------------------
(***************************************************************************)
(* The safety properties of Printd for every number of jobs, of chunks and *)
(* of deaths of the daemon, from the inductive invariant IInv.             *)
(*                                                                         *)
(* The argument is about numbers.  A job acts on the files of its number   *)
(* while its thread works or while it has a turn.  The number of a job     *)
(* that acts was given out by this daemon already, or its control file is  *)
(* in the spool; so a number that is given out and whose files are not in  *)
(* the spool belongs to nobody else, and a job that is not in clash never  *)
(* meets another one at its files.                                         *)
(***************************************************************************)
EXTENDS Printd, TLAPS

Place == {"new", "creat", "copy", "writereq", "respond", "add", "signal", "done",
          "unreq", "undata", "refused", "gone"}

Started == {j \in Job : cpc[j] # "new"}

\* The client thread of job j exists and has a number.
Working(j) == cpc[j] \notin {"new", "done", "refused", "gone"}

Elems(q) == {q[i] : i \in DOMAIN q}

Distinct(q) == \A i, k \in DOMAIN q : q[i].job = q[k].job => i = k

\* The jobs that have a turn, with their numbers.
Held == Elems(queue) \cup ({jp} \ {None})

Turn(j) == [job |-> j, jobid |-> no[j]]

HasTurn(j) == \E t \in Held : t.job = j

Acts(j) == Working(j) \/ HasTurn(j)

\* The control file of job j is in the spool, with so much of the request.
HasReq(j, nr) == reqDir[no[j]] = [job |-> j, nr |-> nr]

\* The data file of job j is in the spool, with what was received.
HasData(j) == dataDir[no[j]] = j /\ inode[j] = spooled[j]

AtFile == {"send", "status", "undata", "unreq", "defer"}

\* Where the threads can be.
PlaceOK ==
    /\ mainpc = "down" => ppc = "off" /\ queue = <<>> /\ scan = {}
    /\ mainpc # "serve" => \A j \in Job : ~ Working(j)
    /\ mainpc = "serve" => scan = {}
    /\ mainpc = "purge" => entry \in Number /\ reqDir[entry] = None
    /\ jp = None <=> ppc \in {"off", "test", "blocked"}
    /\ ppc \in AtFile => fd \in Job

\* Numbers are given out once by a daemon.
NumOK ==
    /\ nextjob <= Cardinality(Started) + 1 /\ jobfile <= Cardinality(Started) + 1
    /\ \A j \in Job : cpc[j] = "new" <=> no[j] = 0
    /\ \A j \in Job : Working(j) => no[j] < nextjob
    /\ \A j, k \in Job : Working(j) /\ Working(k) /\ no[j] = no[k] => j = k

\* Files have the number of the job that made them.
FileOK ==
    /\ \A n \in Number : dataDir[n] # None => no[dataDir[n]] = n
    /\ \A n \in Number : reqDir[n] # None =>
          /\ no[reqDir[n].job] = n
          /\ cpc[reqDir[n].job] \in {"writereq", "unreq", "respond", "add", "signal",
                                     "done", "gone"}

\* A job has one turn, after it was added; its number is not one that this daemon
\* is still to read or, unless its control file is there, to give out.
TurnOK ==
    /\ \A t \in Held :
          /\ no[t.job] = t.jobid
          /\ cpc[t.job] \in {"signal", "done", "gone"}
          /\ t.jobid \notin scan
          /\ \/ t.jobid < nextjob
             \/ reqDir[t.jobid] # None /\ reqDir[t.jobid].job = t.job
    /\ Distinct(queue)
    /\ jp # None => \A t \in Elems(queue) : t.job # jp.job
    /\ \A n \in scan : reqDir[n] # None

\* The number of a job that works and is not in clash is no other job's that acts.
AloneOK ==
    \A j, k \in Job : Working(j) /\ j \notin clash /\ Acts(k) /\ no[j] = no[k] => j = k

\* A job that acts finds at its number its own files, or those of a job in clash.
OwnOK ==
    \A k \in Job : Acts(k) =>
       /\ reqDir[no[k]] # None => reqDir[no[k]].job \in clash \cup {k}
       /\ dataDir[no[k]] # None => dataDir[no[k]] \in clash \cup {k}

\* The two files of a number are of one job, or of two in clash.
PairOK ==
    \A n \in Number : reqDir[n] # None /\ dataDir[n] # None /\ dataDir[n] # reqDir[n].job =>
       reqDir[n].job \in clash /\ dataDir[n] \in clash

\* What is in the spool of job j.
KeepJob(j) ==
    /\ cpc[j] = "creat" => dataDir[no[j]] = None
    /\ cpc[j] \in {"creat", "copy"} => reqDir[no[j]] = None
    /\ cpc[j] \in {"copy", "writereq"} => HasData(j)
    /\ cpc[j] = "writereq" => HasReq(j, "short")
    /\ cpc[j] \in {"respond", "add"} => HasReq(j, "whole")
    /\ HasTurn(j) => HasReq(j, "whole")
    /\ j \in acked \ confirmed => HasReq(j, "whole")
    /\ cpc[j] # "new" /\ HasReq(j, "whole") =>
          HasData(j) \/ (dataDir[no[j]] = None /\ j \in confirmed)

KeepOK == \A j \in Job \ clash : KeepJob(j)

\* Where an acknowledged job is expected by a daemon that is up.
Expected(j) ==
    cpc[j] = "add" \/ Turn(j) \in Held \/ (mainpc # "serve" /\ no[j] \in scan)

AckOK ==
    /\ \A j \in acked : cpc[j] \in {"add", "signal", "done", "gone"}
    /\ mainpc # "down" => \A j \in (acked \ confirmed) \ clash : Expected(j)

\* What was sent of a job that is not in clash is what was received for it.
SendOK ==
    /\ \A j \in Job : cpc[j] \in {"new", "creat"} => spooled[j] = <<>>
    /\ \A j \in confirmed : cpc[j] \in {"signal", "done", "gone"}
    /\ \A j \in confirmed \ clash : printed[j] = spooled[j]
    /\ ppc \in {"undata", "unreq"} => jp.job \in confirmed
    /\ ppc \notin AtFile => sent = <<>>
    /\ ppc \in {"send", "status", "undata"} /\ jp.job \notin clash =>
          fd = jp.job /\ inode[fd] = spooled[fd] /\ size = Len(inode[fd])
    /\ ppc = "send" /\ jp.job \notin clash =>
          Len(sent) <= Len(inode[fd]) /\ \A i \in 1 .. Len(sent) : sent[i] = inode[fd][i]
    /\ ppc \in {"status", "undata"} /\ jp.job \notin clash => sent = inode[fd]

\* The inductive invariant.
IInv ==
    /\ TypeOK /\ PlaceOK /\ NumOK /\ FileOK /\ TurnOK
    /\ AloneOK /\ OwnOK /\ PairOK /\ KeepOK /\ AckOK /\ SendOK

-----------------------------------------------------------------------------
(* Queues.                                                                 *)

LEMMA AppendTurn ==
    ASSUME NEW q \in Seq(JobRec), NEW t \in JobRec
    PROVE  /\ Append(q, t) \in Seq(JobRec)
           /\ Elems(Append(q, t)) = Elems(q) \cup {t}
           /\ Distinct(q) /\ (\A u \in Elems(q) : u.job # t.job) => Distinct(Append(q, t))
<1>1. /\ Append(q, t) \in Seq(JobRec) /\ Len(Append(q, t)) = Len(q) + 1
      /\ \A i \in 1 .. Len(q) : Append(q, t)[i] = q[i]
      /\ Append(q, t)[Len(q) + 1] = t
      /\ DOMAIN q = 1 .. Len(q) /\ DOMAIN Append(q, t) = 1 .. Len(q) + 1 /\ Len(q) \in Nat
  OBVIOUS
<1>2. Elems(Append(q, t)) = Elems(q) \cup {t}
  <2>1. \A u : u \in Elems(Append(q, t)) => u \in Elems(q) \cup {t}
    BY <1>1 DEF Elems
  <2>2. \A i \in 1 .. Len(q) : i \in 1 .. Len(q) + 1
    BY <1>1
  <2>3. \A u \in Elems(q) : u \in Elems(Append(q, t))
    BY Zenon, <1>1, <2>2 DEF Elems
  <2>4. t \in Elems(Append(q, t))
    BY <1>1 DEF Elems
  <2> QED
    BY Zenon, <2>1, <2>3, <2>4
<1>3. Distinct(q) /\ (\A u \in Elems(q) : u.job # t.job) => Distinct(Append(q, t))
  <2> SUFFICES ASSUME Distinct(q), \A u \in Elems(q) : u.job # t.job,
                      NEW i \in 1 .. Len(q) + 1, NEW k \in 1 .. Len(q) + 1,
                      Append(q, t)[i].job = Append(q, t)[k].job
               PROVE  i = k
    BY Zenon, <1>1 DEF Distinct
  <2>1. \A m \in 1 .. Len(q) : q[m] \in Elems(q)
    BY Zenon, <1>1 DEF Elems
  <2> QED
    BY <1>1, <2>1 DEF Distinct
<1> QED
  BY Zenon, <1>1, <1>2, <1>3

LEMMA FirstTurn ==
    ASSUME NEW q \in Seq(JobRec), q # <<>>
    PROVE  /\ Head(q) \in JobRec /\ Tail(q) \in Seq(JobRec)
           /\ Elems(q) = Elems(Tail(q)) \cup {Head(q)}
           /\ Distinct(q) => Distinct(Tail(q)) /\ \A u \in Elems(Tail(q)) : u.job # Head(q).job
<1>1. /\ Len(q) \in Nat \ {0} /\ DOMAIN q = 1 .. Len(q)
      /\ Tail(q) \in Seq(JobRec) /\ Len(Tail(q)) = Len(q) - 1
      /\ DOMAIN Tail(q) = 1 .. Len(q) - 1
      /\ \A i \in 1 .. Len(q) - 1 : Tail(q)[i] = q[i + 1]
      /\ Head(q) = q[1] /\ Head(q) \in JobRec
  OBVIOUS
<1>2. Elems(q) = Elems(Tail(q)) \cup {Head(q)}
  <2>1. ASSUME NEW i \in 1 .. Len(q) PROVE q[i] \in Elems(Tail(q)) \cup {Head(q)}
    <3>1. CASE i = 1
      BY Zenon, <1>1, <3>1
    <3>2. CASE i # 1
      <4>1. i - 1 \in 1 .. Len(q) - 1 /\ Tail(q)[i - 1] = q[(i - 1) + 1]
        BY <1>1, <3>2
      <4>2. q[i] = Tail(q)[i - 1]
        BY <4>1
      <4> QED
        BY Zenon, <1>1, <4>1, <4>2 DEF Elems
    <3> QED
      BY Zenon, <3>1, <3>2
  <2>2. ASSUME NEW i \in 1 .. Len(q) - 1 PROVE Tail(q)[i] \in Elems(q)
    <3>1. i + 1 \in 1 .. Len(q) /\ Tail(q)[i] = q[i + 1]
      BY <1>1
    <3> QED
      BY Zenon, <1>1, <3>1 DEF Elems
  <2>3. Head(q) \in Elems(q)
    BY <1>1 DEF Elems
  <2> QED
    BY <1>1, <2>1, <2>2, <2>3 DEF Elems
<1>3. ASSUME Distinct(q)
      PROVE  Distinct(Tail(q)) /\ \A u \in Elems(Tail(q)) : u.job # Head(q).job
  <2>1. ASSUME NEW i \in 1 .. Len(q) - 1, NEW k \in 1 .. Len(q) - 1,
               Tail(q)[i].job = Tail(q)[k].job
        PROVE  i = k
    <3>1. i + 1 \in 1 .. Len(q) /\ k + 1 \in 1 .. Len(q) /\ q[i + 1].job = q[k + 1].job
      BY <1>1, <2>1
    <3>2. i + 1 = k + 1
      BY Zenon, <1>1, <1>3, <3>1 DEF Distinct
    <3> QED
      BY <3>2
  <2>2. ASSUME NEW i \in 1 .. Len(q) - 1 PROVE Tail(q)[i].job # Head(q).job
    <3>1. i + 1 \in 1 .. Len(q) /\ 1 \in 1 .. Len(q) /\ i + 1 # 1
      BY <1>1
    <3>2. q[i + 1].job # q[1].job
      BY Zenon, <1>1, <1>3, <3>1 DEF Distinct
    <3> QED
      BY Zenon, <1>1, <3>2
  <2> QED
    BY <1>1, <2>1, <2>2 DEF Distinct, Elems
<1> QED
  BY Zenon, <1>1, <1>2, <1>3

LEMMA TurnBack ==
    ASSUME NEW q \in Seq(JobRec), NEW t \in JobRec
    PROVE  /\ <<t>> \o q \in Seq(JobRec)
           /\ Elems(<<t>> \o q) = Elems(q) \cup {t}
           /\ Distinct(q) /\ (\A u \in Elems(q) : u.job # t.job) => Distinct(<<t>> \o q)
<1> DEFINE r == <<t>> \o q
<1>1. /\ r \in Seq(JobRec) /\ Len(q) \in Nat /\ Len(r) = Len(q) + 1
      /\ DOMAIN q = 1 .. Len(q) /\ DOMAIN r = 1 .. Len(q) + 1 /\ r[1] = t
      /\ \A i \in 1 .. Len(q) + 1 : i # 1 => r[i] = q[i - 1]
  OBVIOUS
<1> HIDE DEF r
<1>2. ASSUME NEW i \in 1 .. Len(q) + 1, i # 1
      PROVE  i - 1 \in 1 .. Len(q) /\ r[i] = q[i - 1] /\ r[i] \in Elems(q)
  BY <1>1, <1>2 DEF Elems
<1>3. ASSUME NEW i \in 1 .. Len(q) PROVE q[i] \in Elems(r)
  <2>1. i + 1 \in 1 .. Len(q) + 1 /\ i + 1 # 1 /\ (i + 1) - 1 = i
    BY <1>1
  <2>2. r[i + 1] = q[i]
    BY Zenon, <1>1, <2>1
  <2> QED
    BY Zenon, <1>1, <2>1, <2>2 DEF Elems
<1>4. Elems(r) = Elems(q) \cup {t}
  <2>1. t \in Elems(r)
    BY <1>1 DEF Elems
  <2> QED
    BY <1>1, <1>2, <1>3, <2>1 DEF Elems
<1>5. ASSUME Distinct(q), \A u \in Elems(q) : u.job # t.job
      PROVE  Distinct(r)
  <2> SUFFICES ASSUME NEW i \in 1 .. Len(q) + 1, NEW k \in 1 .. Len(q) + 1, r[i].job = r[k].job
               PROVE  i = k
    BY Zenon, <1>1 DEF Distinct
  <2>1. i = 1 <=> k = 1
    BY Zenon, <1>1, <1>2, <1>5
  <2>2. CASE i # 1 /\ k # 1
    <3>1. i - 1 \in 1 .. Len(q) /\ k - 1 \in 1 .. Len(q) /\ q[i - 1].job = q[k - 1].job
      BY Zenon, <1>2, <2>2
    <3>2. i - 1 = k - 1
      BY Zenon, <1>1, <1>5, <3>1 DEF Distinct
    <3> QED
      BY <3>2
  <2> QED
    BY Zenon, <2>1, <2>2
<1> QED
  BY Zenon, <1>1, <1>4, <1>5 DEF r

-----------------------------------------------------------------------------
(* Facts the steps use.                                                    *)

LEMMA NumberFacts == Number \subseteq Nat /\ 0 \notin Number
BY DEF Number

\* Turns are of jobs, and what the printer thread has is one.
LEMMA HeldFacts ==
    ASSUME TypeOK
    PROVE  /\ Held \subseteq JobRec
           /\ \A t \in Held : t.job \in Job /\ t.jobid \in Number
           /\ jp # None => jp \in Held
           /\ Elems(queue) \subseteq Held
<1>1. Elems(queue) \subseteq JobRec
  BY DEF TypeOK, Elems
<1>2. \A t \in JobRec : t.job \in Job /\ t.jobid \in Number
  BY Zenon DEF JobRec
<1> QED
  BY Zenon, <1>1, <1>2 DEF Held, TypeOK

\* A job with a number has one.
LEMMA HasNumber ==
    ASSUME TypeOK, NumOK, NEW j \in Job, cpc[j] # "new"
    PROVE  no[j] \in Number
BY Zenon DEF TypeOK, NumOK

LEMMA NatFacts ==
    ASSUME TypeOK
    PROVE  nextjob \in Nat \ {0} /\ jobfile \in Nat /\ \A i \in Job : no[i] \in Nat
<1>1. nextjob \in Nat \ {0} /\ jobfile \in Nat /\ no \in [Job -> Number \cup {0}]
  BY Zenon DEF TypeOK
<1>2. Number \cup {0} \subseteq Nat
  BY NumberFacts
<1> QED
  BY Zenon, <1>1, <1>2

-----------------------------------------------------------------------------
(* What the thread of a job does.                                          *)

\* The thread of job j moves, and touches the files of its number only.
OwnStep(j) ==
    /\ Working(j) /\ cpc'[j] # "new"
    /\ UNCHANGED <<jobfile, mainVars, jp, fd, size, sent, confirmed, printed,
                   nextjob, no, clash>>
    /\ ppc' = ppc \/ (ppc = "blocked" /\ ppc' = "test")
    /\ \A i \in Job : i # j => cpc'[i] = cpc[i] /\ spooled'[i] = spooled[i]
    /\ \A n \in Number : n # no[j] => dataDir'[n] = dataDir[n] /\ reqDir'[n] = reqDir[n]
    /\ \A f \in Job : f # j /\ f # dataDir[no[j]] => inode'[f] = inode[f]
    /\ cpc[j] \notin {"creat", "copy"} => UNCHANGED <<inode, spooled>>
    /\ cpc[j] = "signal" => cpc'[j] = "done"
    /\ dataDir'[no[j]] \in {None, dataDir[no[j]], j}
    /\ reqDir'[no[j]] # None =>
          \/ reqDir'[no[j]].job = j
          \/ reqDir[no[j]] # None /\ reqDir'[no[j]].job = reqDir[no[j]].job
    /\ acked \subseteq acked' /\ acked' \subseteq acked \cup {j}
    /\ Held \subseteq Held' /\ Held' \subseteq Held \cup {Turn(j)}

\* Such a step leaves alone what the jobs other than j rely on.
LEMMA OthersKept ==
    ASSUME IInv, TypeOK', NEW j \in Job, OwnStep(j), NEW i \in Job \ clash, i # j, KeepJob(i)
    PROVE  KeepJob(i)'
<1> USE DEF IInv
<1>1. no[j] \in Number /\ (cpc[i] # "new" => no[i] \in Number)
  BY Zenon, HasNumber DEF OwnStep, Working
<1>2. /\ cpc'[i] = cpc[i] /\ spooled'[i] = spooled[i] /\ no'[i] = no[i] /\ no' = no
      /\ confirmed' = confirmed /\ (i \in acked' <=> i \in acked)
  BY Zenon DEF OwnStep
<1>3. HasTurn(i)' => HasTurn(i)
  BY <1>2 DEF OwnStep, HasTurn, Turn
<1>4. HasTurn(i) => cpc[i] # "new"
  BY Zenon, HeldFacts DEF HasTurn, TurnOK
<1>5. i \in acked => cpc[i] # "new"
  BY Zenon DEF AckOK
<1>6. Acts(j)
  BY Zenon DEF OwnStep, Acts
<1>7. CASE no[i] # no[j]
  <2>1. cpc[i] # "new" => dataDir'[no[i]] = dataDir[no[i]] /\ reqDir'[no[i]] = reqDir[no[i]]
    BY Zenon, <1>1, <1>7 DEF OwnStep
  <2>2. dataDir[no[j]] # i
    BY Zenon, <1>1, <1>7, PrintdAssumption DEF FileOK
  <2>3. inode'[i] = inode[i]
    BY Zenon, <2>2 DEF OwnStep
  <2>4. cpc[i] # "new" => /\ HasData(i)' = HasData(i)
                          /\ HasReq(i, "whole")' = HasReq(i, "whole")
                          /\ HasReq(i, "short")' = HasReq(i, "short")
    BY Zenon, <1>2, <2>1, <2>3 DEF HasData, HasReq
  <2> QED
    BY Zenon, <1>2, <1>3, <1>4, <1>5, <2>1, <2>4 DEF KeepJob
<1>8. CASE no[i] = no[j]
  <2>1. ~ Working(i)
    BY Zenon, <1>6, <1>8 DEF AloneOK
  <2>2. ~ HasReq(i, "whole") /\ ~ HasReq(i, "short")
    BY <1>6, <1>8, PrintdAssumption DEF OwnOK, HasReq, Request
  <2>3. ~ HasReq(i, "whole")'
    <3> SUFFICES ASSUME HasReq(i, "whole")' PROVE FALSE
      OBVIOUS
    <3>1. reqDir'[no[j]] = [job |-> i, nr |-> "whole"]
      BY Zenon, <1>2, <1>8 DEF HasReq
    <3>2. [job |-> i, nr |-> "whole"] \in Request /\ [job |-> i, nr |-> "whole"].job = i
      BY Zenon DEF Request
    <3>3. reqDir[no[j]] # None /\ reqDir[no[j]].job = i
      BY Zenon, <3>1, <3>2, PrintdAssumption DEF OwnStep
    <3> QED
      BY Zenon, <1>6, <3>3 DEF OwnOK
  <2> QED
    BY Zenon, <1>2, <1>3, <2>1, <2>2, <2>3 DEF KeepJob, Working
<1> QED
  BY Zenon, <1>7, <1>8

\* The rest of the invariant after such a step, but for what job j relies on.
LEMMA OwnStepIInv ==
    ASSUME IInv, TypeOK', NEW j \in Job, OwnStep(j),
           reqDir'[no[j]] # None /\ reqDir'[no[j]].job = j =>
              cpc'[j] \in {"writereq", "unreq", "respond", "add", "signal", "done", "gone"},
           cpc[j] = "copy" \/ (cpc[j] = "creat" /\ reqDir' = reqDir)
              \/ (dataDir'[no[j]] \in {None, dataDir[no[j]]}
                  /\ (reqDir'[no[j]] # None => reqDir[no[j]] # None
                                               /\ reqDir'[no[j]].job = reqDir[no[j]].job)),
           cpc[j] = "copy" => dataDir' = dataDir,
           j \notin clash => KeepJob(j)',
           j \in acked' => cpc'[j] \in {"add", "signal", "done"},
           j \in acked' /\ j \notin confirmed /\ j \notin clash => Expected(j)',
           cpc'[j] # "creat",
           TurnOK'
    PROVE  IInv'
<1> USE DEF IInv
<1>1. /\ no[j] \in Number /\ no' = no /\ clash' = clash /\ confirmed' = confirmed
      /\ mainpc' = mainpc /\ scan' = scan /\ nextjob' = nextjob
  BY Zenon, HasNumber DEF OwnStep, Working, mainVars
<1>2. mainpc = "serve"
  BY Zenon DEF PlaceOK, OwnStep
<1>3. \A i \in Job : (Working(i)' => Working(i)) /\ (cpc'[i] = "new" <=> cpc[i] = "new")
  BY Zenon DEF OwnStep, Working
<1>4. \A i \in Job : HasTurn(i)' => Acts(i)
  BY DEF OwnStep, HasTurn, Acts, Turn
<1>5. \A i \in Job : Acts(i)' => Acts(i)
  BY Zenon, <1>3, <1>4 DEF Acts
<1>6. Acts(j)
  BY Zenon DEF OwnStep, Acts
<1>7. PlaceOK'
  BY Zenon, <1>1, <1>2 DEF PlaceOK, OwnStep, mainVars, AtFile
<1>8. NumOK'
  <2>1. Started' = Started
    BY Zenon, <1>3 DEF Started
  <2> QED
    BY <1>1, <1>3, <2>1 DEF NumOK, OwnStep
<1>9. FileOK'
  <2>1. ASSUME NEW n \in Number, dataDir'[n] # None PROVE no[dataDir'[n]] = n
    BY <1>1, <2>1 DEF FileOK, OwnStep
  <2>2. ASSUME NEW n \in Number, reqDir'[n] # None
        PROVE  /\ no[reqDir'[n].job] = n
               /\ cpc'[reqDir'[n].job] \in {"writereq", "unreq", "respond", "add",
                                            "signal", "done", "gone"}
    <3>1. reqDir'[n] \in Request /\ reqDir'[n].job \in Job
      BY Zenon, <2>2 DEF TypeOK, Request
    <3>2. CASE reqDir'[n].job = j /\ n = no[j]
      BY Zenon, <2>2, <3>2
    <3>3. CASE ~ (reqDir'[n].job = j /\ n = no[j])
      <4>1. reqDir[n] # None /\ reqDir'[n].job = reqDir[n].job
        BY Zenon, <2>2, <3>3 DEF OwnStep
      <4>2. no[reqDir'[n].job] = n
        BY Zenon, <4>1 DEF FileOK
      <4>3. reqDir'[n].job # j
        BY Zenon, <3>3, <4>2
      <4> QED
        BY <3>1, <4>1, <4>2, <4>3 DEF FileOK, OwnStep
    <3> QED
      BY Zenon, <3>2, <3>3
  <2> QED
    BY Zenon, <1>1, <2>1, <2>2 DEF FileOK
<1>10. AloneOK'
  BY Zenon, <1>1, <1>3, <1>5 DEF AloneOK
<1>11. OwnOK'
  <2> SUFFICES ASSUME NEW k \in Job, Acts(k)
               PROVE  /\ reqDir'[no[k]] # None => reqDir'[no[k]].job \in clash \cup {k}
                      /\ dataDir'[no[k]] # None => dataDir'[no[k]] \in clash \cup {k}
    BY Zenon, <1>1, <1>5 DEF OwnOK
  <2>1. no[k] \in Number
    BY Zenon, HeldFacts, HasNumber DEF Acts, Working, HasTurn, TurnOK
  <2>2. CASE no[k] # no[j]
    BY Zenon, <2>1, <2>2 DEF OwnStep, OwnOK
  <2>3. CASE no[k] = no[j]
    <3>1. j = k \/ j \in clash
      BY Zenon, <2>3 DEF AloneOK, OwnStep
    <3> QED
      BY <2>3, <3>1 DEF OwnStep, OwnOK
  <2> QED
    BY Zenon, <2>2, <2>3
<1>12. PairOK'
  <2> SUFFICES ASSUME NEW n \in Number, reqDir'[n] # None, dataDir'[n] # None,
                      dataDir'[n] # reqDir'[n].job
               PROVE  reqDir'[n].job \in clash /\ dataDir'[n] \in clash
    BY Zenon, <1>1 DEF PairOK
  <2>1. CASE n # no[j]
    BY Zenon, <2>1 DEF OwnStep, PairOK
  <2>2. CASE n = no[j]
    <3>1. /\ reqDir[n] # None => reqDir[n].job \in clash \cup {j}
          /\ dataDir[n] # None => dataDir[n] \in clash \cup {j}
      BY Zenon, <1>6, <2>2 DEF OwnOK
    <3>2. reqDir'[n].job \in clash \cup {j} /\ dataDir'[n] \in clash \cup {j}
      BY Zenon, <2>2, <3>1 DEF OwnStep
    <3>3. CASE j \in clash
      BY Zenon, <3>2, <3>3
    <3>4. CASE j \notin clash
      <4>1. cpc[j] = "creat" => reqDir[n] = None
        BY Zenon, <2>2, <3>4 DEF KeepOK, KeepJob
      <4>2. cpc[j] = "copy" => dataDir[n] = j /\ reqDir[n] = None
        BY Zenon, <2>2, <3>4 DEF KeepOK, KeepJob, HasData
      <4> QED
        BY Zenon, <2>2, <3>2, <3>4, <4>1, <4>2 DEF OwnStep, PairOK
    <3> QED
      BY Zenon, <3>3, <3>4
  <2> QED
    BY Zenon, <2>1, <2>2
<1>13. KeepOK'
  BY Zenon, <1>1, OthersKept DEF KeepOK
<1>14. AckOK'
  <2>1. \A i \in acked' : i # j => i \in acked /\ cpc'[i] = cpc[i]
    BY Zenon DEF OwnStep, TypeOK
  <2>2. \A i \in Job : i # j /\ Expected(i) => Expected(i)'
    BY Zenon, <1>1 DEF OwnStep, Expected, Turn
  <2> QED
    BY Zenon, <1>1, <2>1, <2>2 DEF AckOK, TypeOK
<1>15. SendOK'
  <2>1. /\ ppc' = ppc \/ (ppc \notin AtFile /\ ppc' \notin AtFile)
        /\ jp' = jp /\ fd' = fd /\ size' = size /\ sent' = sent /\ printed' = printed
    BY Zenon DEF OwnStep, AtFile
  <2>2. \A i \in Job : cpc'[i] \in {"new", "creat"} => spooled'[i] = <<>>
    BY Zenon DEF OwnStep, SendOK, Working
  <2>3. \A i \in confirmed : /\ cpc'[i] \in {"signal", "done", "gone"}
                             /\ spooled'[i] = spooled[i]
    <3>1. confirmed \subseteq Job /\ \A i \in confirmed : cpc[i] \in {"signal", "done", "gone"}
      BY Zenon DEF SendOK, TypeOK
    <3>2. j \in confirmed => cpc[j] = "signal" /\ cpc'[j] = "done" /\ spooled' = spooled
      BY Zenon, <3>1 DEF OwnStep, Working
    <3> QED
      BY Zenon, <3>1, <3>2 DEF OwnStep
  <2>4. ASSUME ppc \in {"send", "status", "undata"}, jp.job \notin clash
        PROVE  inode'[fd] = inode[fd] /\ spooled'[fd] = spooled[fd]
    <3>1. fd = jp.job /\ fd \in Job /\ jp # None
      BY Zenon, <2>4 DEF SendOK, PlaceOK, AtFile
    <3>2. cpc[fd] \in {"signal", "done", "gone"}
      BY Zenon, <3>1, HeldFacts DEF TurnOK
    <3>3. fd = j => cpc[j] \notin {"creat", "copy"}
      BY Zenon, <3>2
    <3>4. fd = dataDir[no[j]] => fd = j
      BY Zenon, <1>6, <2>4, <3>1, PrintdAssumption DEF OwnOK
    <3> QED
      BY Zenon, <3>1, <3>3, <3>4 DEF OwnStep
  <2>5. {"send", "status", "undata", "unreq"} \subseteq AtFile
    BY Zenon DEF AtFile
  <2> QED
    BY <1>1, <2>1, <2>2, <2>3, <2>4, <2>5 DEF SendOK
<1> QED
  BY Zenon, <1>7, <1>8, <1>9, <1>10, <1>11, <1>12, <1>13, <1>14, <1>15

\* A job that is not added yet has no turn, is not confirmed and, before the
\* response, not acknowledged.
LEMMA NotYet ==
    ASSUME IInv, NEW j \in Job
    PROVE  /\ cpc[j] \notin {"signal", "done", "gone"} => ~ HasTurn(j) /\ j \notin confirmed
           /\ cpc[j] \notin {"add", "signal", "done", "gone"} => j \notin acked
BY Zenon, HeldFacts DEF IInv, HasTurn, TurnOK, SendOK, AckOK

\* A control file is a file.
LEMMA ReqIsFile ==
    ASSUME NEW j \in Job, NEW nr \in {"short", "whole"}, HasReq(j, nr)
    PROVE  reqDir[no[j]] # None /\ reqDir[no[j]].job = j /\ reqDir[no[j]].nr = nr
<1>1. [job |-> j, nr |-> nr] \in Request
  BY Zenon DEF Request
<1>2. reqDir[no[j]] = [job |-> j, nr |-> nr]
  BY Zenon DEF HasReq
<1> QED
  BY <1>1, <1>2, PrintdAssumption

\* The turns stay when no job is added.
LEMMA SameTurns ==
    ASSUME IInv, NEW j \in Job, OwnStep(j), queue' = queue
    PROVE  TurnOK'
<1> USE DEF IInv
<1>1. /\ Held' = Held /\ no' = no /\ scan' = scan /\ nextjob' = nextjob /\ jp' = jp
      /\ mainpc = "serve" /\ scan = {}
  BY DEF OwnStep, Held, Elems, mainVars, PlaceOK
<1>2. no[j] \in Number /\ no[j] < nextjob
  BY Zenon, HasNumber DEF NumOK, OwnStep, Working
<1>3. ASSUME NEW t \in Held
      PROVE  /\ cpc'[t.job] \in {"signal", "done", "gone"}
             /\ t.jobid < nextjob \/ (reqDir'[t.jobid] # None /\ reqDir'[t.jobid].job = t.job)
  <2>1. t.job \in Job /\ t.jobid \in Number
    BY Zenon, HeldFacts
  <2>2. cpc'[t.job] \in {"signal", "done", "gone"}
    BY Zenon, <2>1 DEF OwnStep, TurnOK, Working
  <2>3. t.jobid < nextjob \/ (reqDir'[t.jobid] # None /\ reqDir'[t.jobid].job = t.job)
    BY Zenon, <1>2, <2>1 DEF OwnStep, TurnOK
  <2> QED
    BY Zenon, <2>2, <2>3
<1>4. Elems(queue)' = Elems(queue) /\ Distinct(queue)' = Distinct(queue)
  BY Zenon DEF Elems, Distinct
<1> QED
  BY Zenon, <1>1, <1>3, <1>4 DEF TurnOK

LEMMA CreatDataIInv ==
    ASSUME IInv, NEW j \in Job, CreatData(j)
    PROVE  IInv'
<1> USE DEF IInv
<1> DEFINE f == IF dataDir[no[j]] = None THEN j ELSE dataDir[no[j]]
<1>1. /\ cpc[j] = "creat" /\ no[j] \in Number /\ f \in Job
      /\ UNCHANGED <<reqDir, nextjob, queue, no, ppc, acked, spooled, clash,
                     jobfile, mainVars, jp, fd, size, sent, crashes, confirmed, printed>>
      /\ Held' = Held
  BY Zenon, HasNumber DEF CreatData, unchangedByClients, Held, Elems, TypeOK
<1>2. ~ HasTurn(j) /\ j \notin confirmed /\ j \notin acked
  BY Zenon, <1>1, NotYet
<1>3. ~ HasTurn(j)'
  BY Zenon, <1>1, <1>2 DEF HasTurn
<1>4. reqDir[no[j]] # None => reqDir[no[j]].job # j
  BY Zenon, <1>1 DEF FileOK
<1>5. CASE Goto(j, "refused") /\ UNCHANGED <<dataDir, inode>>
  <2>1. TypeOK' /\ cpc'[j] = "refused" /\ \A i \in Job : i # j => cpc'[i] = cpc[i]
    BY Zenon, <1>1, <1>5 DEF TypeOK, Goto, mainVars
  <2>2. OwnStep(j)
    BY Zenon, <1>1, <1>5, <2>1 DEF OwnStep, Working, mainVars
  <2>3. j \notin clash => KeepJob(j)'
    BY Zenon, <1>1, <1>2, <1>3, <1>5, <2>1, ReqIsFile DEF KeepOK, KeepJob, HasReq
  <2> QED
    BY Zenon, <1>1, <1>2, <1>4, <1>5, <2>1, <2>2, <2>3, OwnStepIInv, SameTurns
<1>6. CASE /\ dataDir' = [dataDir EXCEPT ![no[j]] = f]
           /\ inode' = [inode EXCEPT ![f] = <<>>]
           /\ Goto(j, "copy")
  <2>1. TypeOK' /\ cpc'[j] = "copy" /\ \A i \in Job : i # j => cpc'[i] = cpc[i]
    <3> HIDE DEF f
    <3>1. dataDir' \in [Number -> Job \cup {None}]
      BY Zenon, <1>1, <1>6 DEF TypeOK
    <3>2. inode' \in [Job -> Seq(Job)]
      BY <1>1, <1>6 DEF TypeOK
    <3> QED
      BY Zenon, <1>1, <1>6, <3>1, <3>2 DEF TypeOK, Goto, mainVars
  <2>2. OwnStep(j)
    BY Zenon, <1>1, <1>6, <2>1 DEF OwnStep, Working, mainVars, TypeOK
  <2>3. ASSUME j \notin clash PROVE KeepJob(j)'
    <3>1. dataDir[no[j]] = None /\ reqDir[no[j]] = None /\ spooled[j] = <<>>
      BY Zenon, <1>1, <2>3 DEF KeepOK, KeepJob, SendOK
    <3>2. HasData(j)'
      BY Zenon, <1>1, <1>6, <3>1 DEF HasData, TypeOK
    <3> QED
      BY Zenon, <1>1, <1>2, <1>3, <2>1, <3>1, <3>2 DEF KeepJob
  <2> QED
    BY Zenon, <1>1, <1>2, <1>4, <2>1, <2>2, <2>3, OwnStepIInv, SameTurns
<1> QED
  BY Zenon, <1>5, <1>6 DEF CreatData

LEMMA CopyIInv ==
    ASSUME IInv, NEW j \in Job, Copy(j)
    PROVE  IInv'
<1> USE DEF IInv
<1>1. /\ cpc[j] = "copy" /\ no[j] \in Number
      /\ UNCHANGED <<dataDir, reqDir, nextjob, queue, no, ppc, acked, clash,
                     jobfile, mainVars, jp, fd, size, sent, crashes, confirmed, printed>>
      /\ Held' = Held
  BY Zenon, HasNumber DEF Copy, unchangedByClients, Held, Elems
<1>2. ~ HasTurn(j) /\ j \notin confirmed /\ j \notin acked
  BY Zenon, <1>1, NotYet
<1>3. ~ HasTurn(j)'
  BY Zenon, <1>1, <1>2 DEF HasTurn
<1>4. reqDir[no[j]] # None => reqDir[no[j]].job # j
  BY Zenon, <1>1 DEF FileOK
<1>5. CASE Goto(j, "undata") /\ UNCHANGED <<inode, spooled>>
  <2>1. TypeOK' /\ cpc'[j] = "undata" /\ \A i \in Job : i # j => cpc'[i] = cpc[i]
    BY <1>1, <1>5 DEF TypeOK, Goto, mainVars
  <2>2. OwnStep(j)
    BY Zenon, <1>1, <1>5, <2>1 DEF OwnStep, Working, mainVars
  <2>3. j \notin clash => KeepJob(j)'
    BY Zenon, <1>1, <1>2, <1>3, <1>5, <2>1, ReqIsFile DEF KeepOK, KeepJob, HasReq
  <2> QED
    BY Zenon, <1>1, <1>2, <1>4, <1>5, <2>1, <2>2, <2>3, OwnStepIInv, SameTurns
<1>6. CASE /\ spooled' = [spooled EXCEPT ![j] = Append(@, j)]
           /\ inode' = [f \in Job |-> IF f = dataDir[no[j]]
                                      THEN Append(inode[f], j) ELSE inode[f]]
           /\ UNCHANGED cpc
  <2>1. TypeOK'
    <3>1. spooled' \in [Job -> Seq(Job)] /\ inode' \in [Job -> Seq(Job)]
      BY <1>6 DEF TypeOK
    <3> QED
      BY Zenon, <1>1, <1>6, <3>1 DEF TypeOK, mainVars
  <2>2. OwnStep(j)
    BY Zenon, <1>1, <1>6 DEF OwnStep, Working, mainVars, TypeOK
  <2>3. ASSUME j \notin clash PROVE KeepJob(j)'
    <3>1. HasData(j) /\ reqDir[no[j]] = None
      BY Zenon, <1>1, <2>3 DEF KeepOK, KeepJob
    <3>2. HasData(j)'
      BY Zenon, <1>1, <1>6, <3>1 DEF HasData, TypeOK
    <3> QED
      BY Zenon, <1>1, <1>2, <1>3, <1>6, <3>1, <3>2 DEF KeepJob
  <2> QED
    BY Zenon, <1>1, <1>2, <1>4, <1>6, <2>1, <2>2, <2>3, OwnStepIInv, SameTurns
<1> QED
  BY Zenon, <1>5, <1>6 DEF Copy

LEMMA CreatReqIInv ==
    ASSUME IInv, NEW j \in Job, CreatReq(j)
    PROVE  IInv'
<1> USE DEF IInv
<1>1. /\ cpc[j] = "copy" /\ no[j] \in Number
      /\ UNCHANGED <<dataDir, inode, nextjob, queue, no, ppc, acked, spooled, clash,
                     jobfile, mainVars, jp, fd, size, sent, crashes, confirmed, printed>>
      /\ Held' = Held
  BY Zenon, HasNumber DEF CreatReq, unchangedByClients, Held, Elems
<1>2. ~ HasTurn(j) /\ j \notin confirmed /\ j \notin acked
  BY Zenon, <1>1, NotYet
<1>3. ~ HasTurn(j)'
  BY Zenon, <1>1, <1>2 DEF HasTurn
<1>4. reqDir[no[j]] # None => reqDir[no[j]].job # j
  BY Zenon, <1>1 DEF FileOK
<1>5. CASE Goto(j, "undata") /\ UNCHANGED reqDir
  <2>1. TypeOK' /\ cpc'[j] = "undata" /\ \A i \in Job : i # j => cpc'[i] = cpc[i]
    BY Zenon, <1>1, <1>5 DEF TypeOK, Goto, mainVars
  <2>2. OwnStep(j)
    BY Zenon, <1>1, <1>5, <2>1 DEF OwnStep, Working, mainVars
  <2>3. j \notin clash => KeepJob(j)'
    BY Zenon, <1>1, <1>2, <1>3, <1>5, <2>1, ReqIsFile DEF KeepOK, KeepJob, HasReq
  <2> QED
    BY Zenon, <1>1, <1>2, <1>4, <1>5, <2>1, <2>2, <2>3, OwnStepIInv, SameTurns
<1>6. CASE /\ reqDir' = [reqDir EXCEPT ![no[j]] = [job |-> j, nr |-> "short"]]
           /\ Goto(j, "writereq")
  <2>1. /\ TypeOK' /\ cpc'[j] = "writereq" /\ \A i \in Job : i # j => cpc'[i] = cpc[i]
        /\ reqDir'[no[j]] = [job |-> j, nr |-> "short"]
    BY Zenon, <1>1, <1>6 DEF TypeOK, Goto, mainVars, Request
  <2>2. OwnStep(j)
    BY Zenon, <1>1, <1>6, <2>1 DEF OwnStep, Working, mainVars, TypeOK
  <2>3. ASSUME j \notin clash PROVE KeepJob(j)'
    <3>1. HasData(j)
      BY Zenon, <1>1, <2>3 DEF KeepOK, KeepJob
    <3>2. HasData(j)' /\ HasReq(j, "short")'
      BY Zenon, <1>1, <2>1, <3>1 DEF HasData, HasReq
    <3> QED
      BY Zenon, <1>1, <1>2, <1>3, <2>1, <3>2 DEF KeepJob
  <2> QED
    BY Zenon, <1>1, <1>2, <1>4, <2>1, <2>2, <2>3, OwnStepIInv, SameTurns
<1> QED
  BY Zenon, <1>5, <1>6 DEF CreatReq

LEMMA WriteReqIInv ==
    ASSUME IInv, NEW j \in Job, WriteReq(j)
    PROVE  IInv'
<1> USE DEF IInv
<1>1. /\ cpc[j] = "writereq" /\ no[j] \in Number
      /\ UNCHANGED <<dataDir, inode, nextjob, queue, no, ppc, acked, spooled, clash,
                     jobfile, mainVars, jp, fd, size, sent, crashes, confirmed, printed>>
      /\ Held' = Held
  BY Zenon, HasNumber DEF WriteReq, unchangedByClients, Held, Elems
<1>2. ~ HasTurn(j) /\ j \notin confirmed /\ j \notin acked
  BY Zenon, <1>1, NotYet
<1>3. ~ HasTurn(j)'
  BY Zenon, <1>1, <1>2 DEF HasTurn
<1>4. CASE Goto(j, "unreq") /\ UNCHANGED reqDir
  <2>1. TypeOK' /\ cpc'[j] = "unreq" /\ \A i \in Job : i # j => cpc'[i] = cpc[i]
    BY Zenon, <1>1, <1>4 DEF TypeOK, Goto, mainVars
  <2>2. OwnStep(j)
    BY Zenon, <1>1, <1>4, <2>1 DEF OwnStep, Working, mainVars
  <2>3. ASSUME j \notin clash PROVE KeepJob(j)'
    <3>1. HasReq(j, "short")
      BY Zenon, <1>1, <2>3 DEF KeepOK, KeepJob
    <3>2. ~ HasReq(j, "whole")
      BY Zenon, <3>1, ReqIsFile
    <3>3. ~ HasReq(j, "whole")'
      BY Zenon, <1>1, <1>4, <3>2 DEF HasReq
    <3> QED
      BY Zenon, <1>1, <1>2, <1>3, <2>1, <3>3 DEF KeepJob
  <2> QED
    BY Zenon, <1>1, <1>2, <1>4, <2>1, <2>2, <2>3, OwnStepIInv, SameTurns
<1>5. CASE /\ reqDir' = [reqDir EXCEPT ![no[j]] =
                            IF @ = None THEN None ELSE [@ EXCEPT !.nr = "whole"]]
           /\ Goto(j, "respond")
  <2>1. /\ reqDir' \in [Number -> Request \cup {None}]
        /\ reqDir'[no[j]] # None => /\ reqDir[no[j]] # None
                                    /\ reqDir'[no[j]].job = reqDir[no[j]].job
        /\ \A n \in Number : n # no[j] => reqDir'[n] = reqDir[n]
        /\ HasReq(j, "short") => reqDir'[no[j]] = [job |-> j, nr |-> "whole"]
    <3>1. reqDir[no[j]] \in Request \cup {None}
      BY Zenon, <1>1 DEF TypeOK
    <3>2. reqDir[no[j]] # None =>
             /\ [reqDir[no[j]] EXCEPT !.nr = "whole"] \in Request
             /\ [reqDir[no[j]] EXCEPT !.nr = "whole"].job = reqDir[no[j]].job
             /\ [reqDir[no[j]] EXCEPT !.nr = "whole"] = [job |-> reqDir[no[j]].job, nr |-> "whole"]
      BY <3>1 DEF Request
    <3>3. reqDir'[no[j]] = IF reqDir[no[j]] = None THEN None
                           ELSE [reqDir[no[j]] EXCEPT !.nr = "whole"]
      BY Zenon, <1>1, <1>5 DEF TypeOK
    <3>4. HasReq(j, "short") => reqDir[no[j]] # None /\ reqDir[no[j]].job = j
      BY Zenon, ReqIsFile
    <3> QED
      BY Zenon, <1>1, <1>5, <3>2, <3>3, <3>4 DEF TypeOK
  <2>2. TypeOK' /\ cpc'[j] = "respond" /\ \A i \in Job : i # j => cpc'[i] = cpc[i]
    BY <1>1, <1>5, <2>1 DEF TypeOK, Goto, mainVars
  <2>3. OwnStep(j)
    BY Zenon, <1>1, <2>1, <2>2 DEF OwnStep, Working, mainVars
  <2>4. ASSUME j \notin clash PROVE KeepJob(j)'
    <3>1. HasData(j) /\ HasReq(j, "short")
      BY Zenon, <1>1, <2>4 DEF KeepOK, KeepJob
    <3>2. HasData(j)' /\ HasReq(j, "whole")'
      BY Zenon, <1>1, <2>1, <3>1 DEF HasData, HasReq
    <3> QED
      BY Zenon, <1>1, <1>2, <1>3, <2>2, <3>2 DEF KeepJob
  <2> QED
    BY Zenon, <1>1, <1>2, <2>1, <2>2, <2>3, <2>4, OwnStepIInv, SameTurns
<1> QED
  BY Zenon, <1>4, <1>5 DEF WriteReq

LEMMA RespondIInv ==
    ASSUME IInv, NEW j \in Job, Respond(j)
    PROVE  IInv'
<1> USE DEF IInv
<1>1. /\ cpc[j] = "respond" /\ no[j] \in Number /\ acked' = acked \cup {j} /\ Goto(j, "add")
      /\ UNCHANGED <<dataDir, inode, reqDir, nextjob, queue, no, ppc, spooled, clash,
                     jobfile, mainVars, jp, fd, size, sent, crashes, confirmed, printed>>
      /\ Held' = Held
  BY Zenon, HasNumber DEF Respond, unchangedByClients, Held, Elems
<1>2. ~ HasTurn(j) /\ j \notin confirmed
  BY Zenon, <1>1, NotYet
<1>3. TypeOK' /\ cpc'[j] = "add" /\ \A i \in Job : i # j => cpc'[i] = cpc[i]
  BY <1>1 DEF TypeOK, Goto, mainVars
<1>4. OwnStep(j)
  BY Zenon, <1>1, <1>3 DEF OwnStep, Working, mainVars
<1>5. ASSUME j \notin clash PROVE KeepJob(j)'
  <2>1. /\ HasReq(j, "whole") /\ HasReq(j, "whole")'
        /\ HasData(j)' = HasData(j) /\ HasTurn(j)' = HasTurn(j)
    BY Zenon, <1>1, <1>5 DEF KeepOK, KeepJob, HasReq, HasData, HasTurn
  <2> QED
    BY Zenon, <1>1, <1>2, <1>3, <1>5, <2>1 DEF KeepOK, KeepJob
<1>6. Expected(j)'
  BY Zenon, <1>3 DEF Expected
<1> QED
  BY Zenon, <1>1, <1>2, <1>3, <1>4, <1>5, <1>6, OwnStepIInv, SameTurns

LEMMA AddJobIInv ==
    ASSUME IInv, NEW j \in Job, AddJob(j)
    PROVE  IInv'
<1> USE DEF IInv
<1>1. /\ cpc[j] = "add" /\ no[j] \in Number /\ no[j] < nextjob /\ Goto(j, "signal")
      /\ queue' = Append(queue, Turn(j)) /\ Turn(j) \in JobRec
      /\ UNCHANGED <<dataDir, inode, reqDir, nextjob, no, ppc, acked, spooled, clash,
                     jobfile, mainVars, jp, fd, size, sent, crashes, confirmed, printed>>
  BY Zenon, HasNumber DEF AddJob, Enqueue, unchangedByClients, Turn, JobRec, NumOK, Working
<1>2. ~ HasTurn(j) /\ j \notin confirmed
  BY Zenon, <1>1, NotYet
<1>3. Turn(j).job = j /\ Turn(j).jobid = no[j]
  BY Zenon DEF Turn
<1>4. /\ queue' \in Seq(JobRec) /\ Elems(queue)' = Elems(queue) \cup {Turn(j)}
      /\ Held' = Held \cup {Turn(j)} /\ Distinct(queue)'
  <2>1. queue \in Seq(JobRec) /\ Distinct(queue)
    BY Zenon DEF TypeOK, TurnOK
  <2>2. \A u \in Elems(queue) : u.job # Turn(j).job
    BY Zenon, <1>2, <1>3 DEF HasTurn, Held
  <2>3. /\ queue' \in Seq(JobRec) /\ Elems(queue') = Elems(queue) \cup {Turn(j)}
        /\ Distinct(queue')
    BY Zenon, <1>1, <2>1, <2>2, AppendTurn
  <2>4. Elems(queue)' = Elems(queue') /\ Distinct(queue)' = Distinct(queue')
    BY Zenon DEF Elems, Distinct
  <2> QED
    BY Zenon, <1>1, <2>3, <2>4 DEF Held
<1>5. TypeOK' /\ cpc'[j] = "signal" /\ \A i \in Job : i # j => cpc'[i] = cpc[i]
  BY Zenon, <1>1, <1>4 DEF TypeOK, Goto, mainVars
<1>6. OwnStep(j)
  BY Zenon, <1>1, <1>4, <1>5 DEF OwnStep, Working, mainVars
<1>7. ASSUME j \notin clash PROVE KeepJob(j)'
  <2>1. HasReq(j, "whole") /\ HasReq(j, "whole")' /\ HasData(j)' = HasData(j)
    BY Zenon, <1>1, <1>7 DEF KeepOK, KeepJob, HasReq, HasData
  <2> QED
    BY Zenon, <1>1, <1>2, <1>5, <1>7, <2>1 DEF KeepOK, KeepJob
<1>8. Expected(j)'
  BY Zenon, <1>1, <1>4 DEF Expected, Turn
<1>9. TurnOK'
  <2>1. scan = {} /\ scan' = {}
    BY Zenon, <1>1 DEF PlaceOK, Working, mainVars
  <2>2. \A t \in Held : t.job \in Job /\ t.job # j
    BY Zenon, <1>2, HeldFacts DEF HasTurn
  <2>3. jp' = jp /\ no' = no /\ nextjob' = nextjob /\ reqDir' = reqDir
    BY Zenon, <1>1
  <2>4. jp # None => \A t \in Elems(queue)' : t.job # jp.job
    BY Zenon, <1>2, <1>3, <1>4, HeldFacts DEF HasTurn, TurnOK
  <2> QED
    BY ZenonT(40), <1>1, <1>3, <1>4, <1>5, <2>1, <2>2, <2>3, <2>4 DEF TurnOK
<1> QED
  BY Zenon, <1>1, <1>2, <1>5, <1>6, <1>7, <1>8, <1>9, OwnStepIInv

LEMMA SignalJobIInv ==
    ASSUME IInv, NEW j \in Job, SignalJob(j)
    PROVE  IInv'
<1> USE DEF IInv
<1>1. /\ cpc[j] = "signal" /\ no[j] \in Number /\ Goto(j, "done")
      /\ ppc' = IF ppc = "blocked" THEN "test" ELSE ppc
      /\ UNCHANGED <<dataDir, inode, reqDir, nextjob, queue, no, acked, spooled, clash,
                     jobfile, mainVars, jp, fd, size, sent, crashes, confirmed, printed>>
      /\ Held' = Held
  BY Zenon, HasNumber DEF SignalJob, SignalJobwait, unchangedByClients, Held, Elems
<1>2. TypeOK' /\ cpc'[j] = "done" /\ \A i \in Job : i # j => cpc'[i] = cpc[i]
  BY Zenon, <1>1 DEF TypeOK, Goto, mainVars
<1>3. OwnStep(j)
  BY Zenon, <1>1, <1>2 DEF OwnStep, Working, mainVars
<1>4. ASSUME j \notin clash PROVE KeepJob(j)'
  <2>1. HasReq(j, "whole")' = HasReq(j, "whole") /\ HasData(j)' = HasData(j)
        /\ HasTurn(j)' = HasTurn(j)
    BY Zenon, <1>1 DEF HasReq, HasData, HasTurn
  <2> QED
    BY Zenon, <1>1, <1>2, <1>4, <2>1 DEF KeepOK, KeepJob
<1>5. ASSUME j \in acked, j \notin confirmed, j \notin clash PROVE Expected(j)'
  <2>1. mainpc = "serve"
    BY Zenon, <1>1 DEF PlaceOK, Working
  <2> QED
    BY Zenon, <1>1, <1>5, <2>1 DEF AckOK, Expected, Turn
<1> QED
  BY Zenon, <1>1, <1>2, <1>3, <1>4, <1>5, OwnStepIInv, SameTurns

LEMMA UnlinkOnErrorIInv ==
    ASSUME IInv, NEW j \in Job, UnlinkOnError(j)
    PROVE  IInv'
<1> USE DEF IInv
<1>1. /\ cpc[j] \in {"unreq", "undata"} /\ no[j] \in Number
      /\ UNCHANGED <<inode, nextjob, queue, no, ppc, acked, spooled, clash,
                     jobfile, mainVars, jp, fd, size, sent, crashes, confirmed, printed>>
      /\ Held' = Held
  BY Zenon, HasNumber DEF UnlinkOnError, unchangedByClients, Held, Elems
<1>2. ~ HasTurn(j) /\ j \notin confirmed /\ j \notin acked
  BY Zenon, <1>1, NotYet
<1>3. ~ HasTurn(j)'
  BY Zenon, <1>1, <1>2 DEF HasTurn
<1>4. CASE /\ cpc[j] = "unreq"
           /\ reqDir' = [reqDir EXCEPT ![no[j]] = None]
           /\ Goto(j, "undata") /\ UNCHANGED dataDir
  <2>1. /\ TypeOK' /\ cpc'[j] = "undata" /\ \A i \in Job : i # j => cpc'[i] = cpc[i]
        /\ reqDir'[no[j]] = None
    BY Zenon, <1>1, <1>4 DEF TypeOK, Goto, mainVars
  <2>2. OwnStep(j)
    BY Zenon, <1>1, <1>4, <2>1 DEF OwnStep, Working, mainVars, TypeOK
  <2>3. ~ HasReq(j, "whole")'
    <3>1. [job |-> j, nr |-> "whole"] \in Request
      BY Zenon DEF Request
    <3> QED
      BY Zenon, <1>1, <2>1, <3>1, PrintdAssumption DEF HasReq
  <2>4. KeepJob(j)'
    BY Zenon, <1>1, <1>2, <1>3, <2>1, <2>3 DEF KeepJob
  <2> QED
    BY Zenon, <1>1, <1>2, <1>4, <2>1, <2>2, <2>4, OwnStepIInv, SameTurns
<1>5. CASE /\ cpc[j] = "undata"
           /\ dataDir' = [dataDir EXCEPT ![no[j]] = None]
           /\ Goto(j, "refused") /\ UNCHANGED reqDir
  <2>1. /\ TypeOK' /\ cpc'[j] = "refused" /\ \A i \in Job : i # j => cpc'[i] = cpc[i]
        /\ dataDir'[no[j]] = None
    BY Zenon, <1>1, <1>5 DEF TypeOK, Goto, mainVars
  <2>2. OwnStep(j)
    BY Zenon, <1>1, <1>5, <2>1 DEF OwnStep, Working, mainVars, TypeOK
  <2>3. reqDir[no[j]] # None => reqDir[no[j]].job # j
    BY Zenon, <1>1, <1>5 DEF FileOK
  <2>4. ~ HasReq(j, "whole")
    BY Zenon, <2>3, ReqIsFile
  <2>5. ~ HasReq(j, "whole")'
    BY Zenon, <1>1, <1>5, <2>4 DEF HasReq
  <2>6. KeepJob(j)'
    BY Zenon, <1>1, <1>2, <1>3, <2>1, <2>5 DEF KeepJob
  <2> QED
    BY Zenon, <1>1, <1>2, <1>5, <2>1, <2>2, <2>3, <2>6, OwnStepIInv, SameTurns
<1> QED
  BY Zenon, <1>4, <1>5 DEF UnlinkOnError

-----------------------------------------------------------------------------
(* What the printer thread does.                                           *)

\* A step that leaves the files and the client threads alone and adds no turn.
CalmStep ==
    /\ UNCHANGED <<dataDir, inode, reqDir, cpc, no, acked, spooled, clash>>
    /\ confirmed \subseteq confirmed' /\ Held' \subseteq Held

LEMMA CalmStepOK ==
    ASSUME IInv, CalmStep
    PROVE  FileOK' /\ AloneOK' /\ OwnOK' /\ PairOK' /\ KeepOK' /\ Started' = Started
<1> USE DEF IInv, CalmStep
<1>1. \A i \in Job : /\ Working(i)' = Working(i) /\ (HasTurn(i)' => HasTurn(i))
                     /\ (Acts(i)' => Acts(i))
  BY Zenon DEF Working, HasTurn, Acts
<1>2. FileOK' /\ PairOK' /\ Started' = Started
  BY Zenon DEF FileOK, PairOK, Started
<1>3. AloneOK' /\ OwnOK'
  BY Zenon, <1>1 DEF AloneOK, OwnOK
<1>4. ASSUME NEW i \in Job \ clash PROVE KeepJob(i)'
  <2>1. KeepJob(i)
    BY Zenon DEF KeepOK
  <2>2. /\ HasReq(i, "whole")' = HasReq(i, "whole") /\ HasReq(i, "short")' = HasReq(i, "short")
        /\ HasData(i)' = HasData(i)
    BY Zenon DEF HasReq, HasData
  <2> QED
    BY Zenon, <1>1, <2>1, <2>2 DEF KeepJob
<1> QED
  BY Zenon, <1>2, <1>3, <1>4 DEF KeepOK

\* A step of the printer thread on its own variables.  Of the turns it drops those
\* of jobs that are confirmed or in clash.
LEMMA PrinterStepIInv ==
    ASSUME IInv, CalmStep, TypeOK', UNCHANGED <<mainVars, nextjob>>,
           jobfile' \in {jobfile, nextjob}, mainpc # "down",
           \A t \in Held : t \in Held' \/ t.job \in confirmed' \cup clash,
           jp' = None <=> ppc' \in {"off", "test", "blocked"},
           ppc' \in AtFile => fd' \in Job,
           Distinct(queue'), jp' # None => \A t \in Elems(queue') : t.job # jp'.job,
           SendOK'
    PROVE  IInv'
<1> USE DEF IInv
<1>1. FileOK' /\ AloneOK' /\ OwnOK' /\ PairOK' /\ KeepOK' /\ Started' = Started
  BY Zenon, CalmStepOK
<1>2. /\ UNCHANGED <<dataDir, inode, reqDir, cpc, no, acked, spooled, clash>>
      /\ UNCHANGED <<mainpc, scan, entry, nextjob>>
      /\ confirmed \subseteq confirmed' /\ Held' \subseteq Held
  BY Zenon DEF CalmStep, mainVars
<1>3. PlaceOK'
  BY Zenon, <1>2 DEF PlaceOK, Working
<1>4. NumOK'
  BY Zenon, <1>1, <1>2 DEF NumOK, Working
<1>5. TurnOK'
  <2>1. Distinct(queue)' /\ (jp' # None => \A t \in Elems(queue)' : t.job # jp'.job)
    BY Zenon DEF Distinct, Elems
  <2> QED
    BY Zenon, <1>2, <2>1 DEF TurnOK
<1>6. AckOK'
  <2>1. ASSUME NEW i \in (acked \ confirmed') \ clash PROVE Expected(i)'
    <3>1. Expected(i)
      BY Zenon, <1>2, <2>1 DEF AckOK
    <3>2. Turn(i)' = Turn(i) /\ Turn(i).job = i
      BY Zenon, <1>2 DEF Turn
    <3> QED
      BY Zenon, <1>2, <3>1, <3>2 DEF Expected
  <2> QED
    BY Zenon, <1>2, <2>1 DEF AckOK
<1> QED
  BY Zenon, <1>1, <1>3, <1>4, <1>5, <1>6

\* The printer thread has a job that has its turn, or none.
LEMMA AtPrinter ==
    ASSUME IInv, ppc \notin {"off", "test", "blocked"}
    PROVE  /\ mainpc # "down" /\ jp # None /\ jp \in Held /\ jp \in JobRec
           /\ jp.job \in Job /\ jp.jobid \in Number /\ no[jp.job] = jp.jobid
           /\ cpc[jp.job] \in {"signal", "done", "gone"}
           /\ HasTurn(jp.job) /\ Acts(jp.job)
           /\ jp.job \notin clash => HasReq(jp.job, "whole")
<1>1. mainpc # "down" /\ jp # None
  BY Zenon DEF IInv, PlaceOK
<1>2. jp \in Held /\ jp.job \in Job /\ jp.jobid \in Number /\ jp \in JobRec
  BY Zenon, <1>1, HeldFacts DEF IInv
<1>3. no[jp.job] = jp.jobid /\ cpc[jp.job] \in {"signal", "done", "gone"}
  BY Zenon, <1>2 DEF IInv, TurnOK
<1>4. HasTurn(jp.job) /\ Acts(jp.job)
  BY Zenon, <1>2 DEF HasTurn, Acts
<1> QED
  BY Zenon, <1>1, <1>2, <1>3, <1>4 DEF IInv, KeepOK, KeepJob

LEMMA GetJobIInv ==
    ASSUME IInv, GetJob
    PROVE  IInv'
<1> USE DEF IInv
<1>1. /\ ppc = "test" /\ jp = None /\ sent = <<>> /\ mainpc # "down"
      /\ UNCHANGED <<jobfile, dataDir, reqDir, fd, size, sent, crashes, confirmed, printed,
                     inode, mainVars, nextjob, cpc, no, acked, spooled, clash>>
  BY Zenon DEF GetJob, unchangedByPrinter, PlaceOK, SendOK, AtFile
<1>2. queue \in Seq(JobRec) /\ Distinct(queue)
  BY Zenon DEF TypeOK, TurnOK
<1>3. CASE queue = <<>> /\ ppc' = "blocked" /\ UNCHANGED <<queue, jp>>
  <2>1. TypeOK' /\ Held' = Held
    BY Zenon, <1>1, <1>3 DEF TypeOK, Held, Elems, mainVars
  <2>2. CalmStep
    BY Zenon, <1>1, <2>1 DEF CalmStep
  <2>3. SendOK'
    BY Zenon, <1>1, <1>3 DEF SendOK, AtFile
  <2> QED
    BY Zenon, <1>1, <1>2, <1>3, <2>1, <2>2, <2>3, PrinterStepIInv DEF AtFile
<1>4. CASE queue # <<>> /\ jp' = Head(queue) /\ queue' = Tail(queue) /\ ppc' = "save"
  <2>1. /\ jp' \in JobRec /\ queue' \in Seq(JobRec) /\ Elems(queue) = Elems(queue') \cup {jp'}
        /\ Distinct(queue') /\ \A u \in Elems(queue') : u.job # jp'.job
    BY Zenon, <1>2, <1>4, FirstTurn
  <2>2. jp' # None /\ Held' = Held
    <3>1. Elems(queue)' = Elems(queue')
      BY Zenon DEF Elems
    <3> QED
      BY Zenon, <1>1, <2>1, <3>1, PrintdAssumption DEF Held
  <2>3. TypeOK'
    BY Zenon, <1>1, <1>4, <2>1 DEF TypeOK, mainVars
  <2>4. CalmStep
    BY Zenon, <1>1, <2>2 DEF CalmStep
  <2>5. SendOK'
    BY Zenon, <1>1, <1>4 DEF SendOK, AtFile
  <2> QED
    BY Zenon, <1>1, <1>4, <2>1, <2>2, <2>3, <2>4, <2>5, PrinterStepIInv DEF AtFile
<1> QED
  BY Zenon, <1>3, <1>4 DEF GetJob

\* Steps that keep the job and the queue.
LEMMA UpdateJobnoIInv ==
    ASSUME IInv, UpdateJobno
    PROVE  IInv'
<1> USE DEF IInv
<1>1. /\ ppc = "save" /\ ppc' = "open" /\ jobfile' = nextjob
      /\ UNCHANGED <<dataDir, reqDir, queue, jp, fd, size, sent, crashes, confirmed, printed,
                     inode, mainVars, nextjob, cpc, no, acked, spooled, clash>>
      /\ Held' = Held
  BY Zenon DEF UpdateJobno, unchangedByPrinter, Held, Elems
<1>2. mainpc # "down" /\ jp # None
  BY Zenon, <1>1, AtPrinter
<1>3. TypeOK'
  BY Zenon, <1>1 DEF TypeOK, mainVars
<1>4. SendOK'
  BY Zenon, <1>1 DEF SendOK, AtFile
<1>5. CalmStep /\ Distinct(queue') /\ \A t \in Elems(queue') : t.job # jp.job
  BY Zenon, <1>1, <1>2 DEF CalmStep, TurnOK
<1> QED
  BY Zenon, <1>1, <1>2, <1>3, <1>4, <1>5, PrinterStepIInv DEF AtFile

LEMMA OpenDataIInv ==
    ASSUME IInv, OpenData
    PROVE  IInv'
<1> USE DEF IInv
<1>1. /\ ppc = "open"
      /\ UNCHANGED <<jobfile, dataDir, reqDir, queue, sent, crashes, confirmed, printed,
                     inode, mainVars, nextjob, cpc, no, acked, spooled, clash>>
  BY Zenon DEF OpenData, unchangedByPrinter
<1>2. /\ mainpc # "down" /\ jp # None /\ jp \in JobRec /\ jp.job \in Job /\ jp.jobid \in Number
      /\ no[jp.job] = jp.jobid /\ Acts(jp.job) /\ cpc[jp.job] # "new"
      /\ jp.job \notin clash => HasReq(jp.job, "whole")
  BY Zenon, <1>1, AtPrinter
<1>3. jp.job \notin clash =>
         HasData(jp.job) \/ (dataDir[jp.jobid] = None /\ jp.job \in confirmed)
  BY Zenon, <1>2 DEF KeepOK, KeepJob
<1>4. sent = <<>> /\ Distinct(queue') /\ \A t \in Elems(queue') : t.job # jp.job
  BY Zenon, <1>1, <1>2 DEF SendOK, AtFile, TurnOK
<1>5. CASE /\ dataDir[jp.jobid] # None /\ fd' = dataDir[jp.jobid]
           /\ size' = Len(inode[fd']) /\ ppc' = "send" /\ jp' = jp
  <2>1. fd' \in Job /\ size' \in Nat
    BY <1>2, <1>5 DEF TypeOK
  <2>2. TypeOK' /\ Held' = Held
    <3>1. TypeOK'
      BY Zenon, <1>1, <1>5, <2>1 DEF TypeOK, mainVars
    <3>2. Held' = Held
      BY Zenon, <1>1, <1>5 DEF Held, Elems
    <3> QED
      BY Zenon, <3>1, <3>2
  <2>3. CalmStep
    BY Zenon, <1>1, <2>2 DEF CalmStep
  <2>4. jp.job \notin clash => fd' = jp.job /\ inode[fd'] = spooled[fd']
    BY Zenon, <1>2, <1>3, <1>5 DEF HasData
  <2>5. Len(sent) = 0 /\ Len(inode[fd']) \in Nat
    BY <1>4, <2>1 DEF TypeOK
  <2>6. SendOK'
    <3>1. jp.job \notin clash =>
             Len(sent) <= Len(inode[fd']) /\ \A i \in 1 .. Len(sent) : sent[i] = inode[fd'][i]
      BY <2>5
    <3>2. /\ \A j \in Job : cpc[j] \in {"new", "creat"} => spooled[j] = <<>>
          /\ \A j \in confirmed : cpc[j] \in {"signal", "done", "gone"}
          /\ \A j \in confirmed \ clash : printed[j] = spooled[j]
      BY Zenon DEF SendOK
    <3>3. ppc' \in AtFile /\ ppc' \notin {"status", "undata", "unreq"}
      BY Zenon, <1>5 DEF AtFile
    <3> QED
      BY Zenon, <1>1, <1>5, <2>4, <3>1, <3>2, <3>3 DEF SendOK
  <2> QED
    BY Zenon, <1>1, <1>2, <1>4, <1>5, <2>1, <2>2, <2>3, <2>6, PrinterStepIInv
<1>6. CASE dataDir[jp.jobid] = None /\ jp' = None /\ ppc' = "test" /\ UNCHANGED <<fd, size>>
  <2>1. jp.job \in confirmed \cup clash
    BY Zenon, <1>2, <1>3, <1>6, PrintdAssumption DEF HasData
  <2>2. TypeOK'
    BY Zenon, <1>1, <1>6 DEF TypeOK, mainVars
  <2>3. Held = Held' \cup {jp}
    <3>1. Elems(queue)' = Elems(queue)
      BY Zenon, <1>1 DEF Elems
    <3> QED
      BY Zenon, <1>2, <1>6, <3>1 DEF Held
  <2>4. CalmStep
    BY Zenon, <1>1, <2>3 DEF CalmStep
  <2>5. SendOK'
    BY Zenon, <1>1, <1>4, <1>6 DEF SendOK, AtFile
  <2>6. \A t \in Held : t \in Held' \/ t.job \in confirmed' \cup clash
    BY Zenon, <1>1, <2>1, <2>3
  <2> QED
    BY Zenon, <1>1, <1>2, <1>4, <1>6, <2>2, <2>4, <2>5, <2>6, PrinterStepIInv DEF AtFile
<1> QED
  BY Zenon, <1>5, <1>6 DEF OpenData

\* The steps in which the file is sent.
LEMMA SendIInv ==
    ASSUME IInv, SendChunk \/ SendEnd \/ PrinterFails
    PROVE  IInv'
<1> USE DEF IInv
<1>1. /\ ppc \in {"send", "status"}
      /\ UNCHANGED <<jobfile, dataDir, reqDir, queue, jp, fd, size, crashes, confirmed, printed,
                     inode, mainVars, nextjob, cpc, no, acked, spooled, clash>>
      /\ Held' = Held
  BY Zenon DEF SendChunk, SendEnd, PrinterFails, unchangedByPrinter, Held, Elems
<1>2. mainpc # "down" /\ jp # None
  BY Zenon, <1>1, AtPrinter
<1>3. fd \in Job /\ inode[fd] \in Seq(Job) /\ sent \in Seq(Job)
  BY Zenon, <1>1 DEF PlaceOK, AtFile, TypeOK
<1>4. CalmStep /\ Distinct(queue') /\ \A t \in Elems(queue') : t.job # jp.job
  BY Zenon, <1>1, <1>2 DEF CalmStep, TurnOK
<1>5. ppc' \in {"send", "status", "defer"} /\ sent' \in Seq(Job) /\ SendOK'
  <2>1. CASE SendChunk
    <3>1. /\ ppc = "send" /\ ppc' = ppc /\ Len(sent) < Len(inode[fd])
          /\ sent' = Append(sent, inode[fd][Len(sent) + 1])
      BY Zenon, <2>1 DEF SendChunk
    <3>2. /\ Len(sent) \in Nat /\ Len(inode[fd]) \in Nat
          /\ Len(sent) + 1 \in 1 .. Len(inode[fd])
      BY <1>3, <3>1
    <3>3. /\ sent' \in Seq(Job) /\ Len(sent') = Len(sent) + 1
          /\ \A i \in 1 .. Len(sent) : sent'[i] = sent[i]
          /\ sent'[Len(sent) + 1] = inode[fd][Len(sent) + 1]
      BY <1>3, <3>1, <3>2
    <3>4. \A i \in 1 .. Len(sent') : i \in 1 .. Len(sent) \/ i = Len(sent) + 1
      BY <3>2, <3>3
    <3>5. jp.job \notin clash =>
             Len(sent') <= Len(inode[fd]) /\ \A i \in 1 .. Len(sent') : sent'[i] = inode[fd][i]
      BY <3>1, <3>2, <3>3, <3>4 DEF SendOK
    <3> QED
      BY Zenon, <1>1, <3>1, <3>3, <3>5 DEF SendOK, AtFile
  <2>2. CASE SendEnd
    <3>1. /\ ppc = "send" /\ ppc' = "status" /\ Len(sent) >= Len(inode[fd]) /\ sent' = sent
      BY Zenon, <2>2 DEF SendEnd
    <3>2. ASSUME jp.job \notin clash PROVE sent = inode[fd]
      <4>1. Len(sent) <= Len(inode[fd]) /\ \A i \in 1 .. Len(sent) : sent[i] = inode[fd][i]
        BY Zenon, <3>1, <3>2 DEF SendOK
      <4>2. Len(sent) = Len(inode[fd])
        BY <1>3, <3>1, <4>1
      <4> QED
        BY <1>3, <4>1, <4>2
    <3> QED
      BY Zenon, <1>1, <1>3, <3>1, <3>2 DEF SendOK, AtFile
  <2>3. CASE PrinterFails
    <3>1. ppc' = "defer" /\ sent' = sent
      BY Zenon, <2>3 DEF PrinterFails
    <3> QED
      BY Zenon, <1>1, <1>3, <3>1 DEF SendOK, AtFile
  <2> QED
    BY Zenon, <2>1, <2>2, <2>3
<1>6. TypeOK'
  BY Zenon, <1>1, <1>5 DEF TypeOK, mainVars
<1> QED
  BY Zenon, <1>1, <1>2, <1>3, <1>4, <1>5, <1>6, PrinterStepIInv

LEMMA StatusOkIInv ==
    ASSUME IInv, StatusOk
    PROVE  IInv'
<1> USE DEF IInv
<1>1. /\ ppc = "status" /\ ppc' = "undata" /\ confirmed' = confirmed \cup {jp.job}
      /\ printed' = [printed EXCEPT ![jp.job] = sent]
      /\ UNCHANGED <<jobfile, dataDir, reqDir, queue, jp, fd, size, sent, crashes,
                     inode, mainVars, nextjob, cpc, no, acked, spooled, clash>>
      /\ Held' = Held
  BY Zenon DEF StatusOk, unchangedByPrinter, Held, Elems
<1>2. /\ mainpc # "down" /\ jp # None /\ jp.job \in Job
      /\ cpc[jp.job] \in {"signal", "done", "gone"}
  BY Zenon, <1>1, AtPrinter
<1>3. fd \in Job
  BY Zenon, <1>1 DEF PlaceOK, AtFile
<1>4. TypeOK'
  BY Zenon, <1>1, <1>2 DEF TypeOK, mainVars
<1>5. SendOK'
  <2>1. /\ printed'[jp.job] = sent
        /\ \A i \in Job : i # jp.job => printed'[i] = printed[i]
        /\ confirmed \subseteq Job
    BY Zenon, <1>1, <1>2 DEF TypeOK
  <2>2. jp.job \notin clash => printed'[jp.job] = spooled[jp.job]
    BY Zenon, <1>1, <2>1 DEF SendOK
  <2>3. \A i \in confirmed' : cpc[i] \in {"signal", "done", "gone"}
    BY Zenon, <1>1, <1>2 DEF SendOK
  <2>4. \A i \in confirmed' \ clash : printed'[i] = spooled[i]
    BY Zenon, <1>1, <2>1, <2>2 DEF SendOK
  <2> QED
    BY Zenon, <1>1, <2>3, <2>4 DEF SendOK, AtFile
<1>6. CalmStep /\ Distinct(queue') /\ \A t \in Elems(queue') : t.job # jp.job
  BY Zenon, <1>1, <1>2 DEF CalmStep, TurnOK
<1> QED
  BY Zenon, <1>1, <1>2, <1>3, <1>4, <1>5, <1>6, PrinterStepIInv

LEMMA DeferIInv ==
    ASSUME IInv, Defer
    PROVE  IInv'
<1> USE DEF IInv
<1>1. /\ ppc = "defer" /\ ppc' = "test" /\ queue' = <<jp>> \o queue
      /\ jp' = None /\ fd' = None /\ size' = 0 /\ sent' = <<>>
      /\ UNCHANGED <<jobfile, dataDir, reqDir, crashes, confirmed, printed,
                     inode, mainVars, nextjob, cpc, no, acked, spooled, clash>>
  BY Zenon DEF Defer, EndJob, unchangedByPrinter
<1>2. mainpc # "down" /\ jp # None /\ jp \in JobRec
  BY Zenon, <1>1, AtPrinter
<1>3. queue \in Seq(JobRec) /\ Distinct(queue) /\ \A t \in Elems(queue) : t.job # jp.job
  BY Zenon, <1>2 DEF TypeOK, TurnOK
<1>4. queue' \in Seq(JobRec) /\ Elems(queue') = Elems(queue) \cup {jp} /\ Distinct(queue')
  BY Zenon, <1>1, <1>2, <1>3, TurnBack
<1>5. Held' = Held
  <2>1. Elems(queue)' = Elems(queue')
    BY Zenon DEF Elems
  <2> QED
    BY Zenon, <1>1, <1>2, <1>4, <2>1 DEF Held
<1>6. TypeOK'
  <2>1. sent' \in Seq(Job) /\ size' \in Nat /\ fd' \in Job \cup {None}
    BY <1>1
  <2> QED
    BY Zenon, <1>1, <1>4, <2>1 DEF TypeOK, mainVars
<1>7. SendOK'
  BY Zenon, <1>1 DEF SendOK, AtFile
<1>8. CalmStep
  BY Zenon, <1>1, <1>5 DEF CalmStep
<1> QED
  BY Zenon, <1>1, <1>2, <1>4, <1>5, <1>6, <1>7, <1>8, PrinterStepIInv DEF AtFile

\* The data file of a confirmed job is unlinked.
LEMMA UnlinkDataIInv ==
    ASSUME IInv, UnlinkPrinted, ppc = "undata"
    PROVE  IInv'
<1> USE DEF IInv
<1>1. /\ ppc' = "unreq" /\ dataDir' = [dataDir EXCEPT ![jp.jobid] = None]
      /\ UNCHANGED <<jobfile, reqDir, queue, jp, fd, size, sent, crashes, confirmed, printed,
                     inode, mainpc, scan, entry, nextjob, cpc, no, acked, spooled, clash>>
      /\ Held' = Held
  BY Zenon DEF UnlinkPrinted, unchangedByPrinter, mainVars, Held, Elems
<1>2. /\ jp # None /\ jp.job \in Job /\ jp.jobid \in Number /\ no[jp.job] = jp.jobid
      /\ cpc[jp.job] \in {"signal", "done", "gone"} /\ Acts(jp.job) /\ mainpc # "down"
      /\ jp.job \in confirmed
  BY Zenon, AtPrinter DEF SendOK
<1>3. /\ dataDir'[jp.jobid] = None
      /\ \A n \in Number : n # jp.jobid => dataDir'[n] = dataDir[n]
  BY Zenon, <1>1, <1>2 DEF TypeOK
<1>4. TypeOK'
  BY Zenon, <1>1, <1>2 DEF TypeOK
<1>5. \A i \in Job : /\ Working(i)' = Working(i) /\ HasTurn(i)' = HasTurn(i)
                     /\ Acts(i)' = Acts(i)
  BY Zenon, <1>1 DEF Working, HasTurn, Acts
<1>6. PlaceOK'
  BY Zenon, <1>1, <1>5 DEF PlaceOK, AtFile
<1>7. NumOK'
  BY Zenon, <1>1, <1>5 DEF NumOK, Started
<1>8. FileOK' /\ PairOK'
  BY <1>1, <1>3 DEF FileOK, PairOK
<1>9. TurnOK'
  <2>1. Elems(queue)' = Elems(queue) /\ Distinct(queue)' = Distinct(queue)
    BY Zenon, <1>1 DEF Elems, Distinct
  <2> QED
    BY Zenon, <1>1, <2>1 DEF TurnOK
<1>10. AloneOK'
  BY Zenon, <1>1, <1>5 DEF AloneOK
<1>11. OwnOK'
  <2> SUFFICES ASSUME NEW k \in Job, Acts(k), dataDir'[no[k]] # None
               PROVE  dataDir'[no[k]] \in clash \cup {k}
    BY Zenon, <1>1, <1>5 DEF OwnOK
  <2>1. no[k] \in Number
    BY Zenon, HeldFacts, HasNumber DEF Acts, Working, HasTurn, TurnOK
  <2> QED
    BY Zenon, <1>3, <2>1 DEF OwnOK
<1>12. KeepOK'
  <2> SUFFICES ASSUME NEW i \in Job \ clash PROVE KeepJob(i)'
    BY Zenon, <1>1 DEF KeepOK
  <2>1. KeepJob(i) /\ (cpc[i] # "new" => no[i] \in Number)
    BY Zenon, HasNumber DEF KeepOK
  <2>2. HasReq(i, "whole")' = HasReq(i, "whole") /\ HasReq(i, "short")' = HasReq(i, "short")
    BY Zenon, <1>1 DEF HasReq
  <2>3. CASE no[i] # jp.jobid
    <3>1. cpc[i] # "new" => HasData(i)' = HasData(i) /\ dataDir'[no[i]] = dataDir[no[i]]
      BY Zenon, <1>1, <1>3, <2>1, <2>3 DEF HasData
    <3> QED
      BY Zenon, <1>1, <1>5, <2>1, <2>2, <3>1 DEF KeepJob
  <2>4. CASE no[i] = jp.jobid
    <3>1. cpc[i] \notin {"creat", "copy", "writereq"}
      BY Zenon, <1>2, <2>4 DEF AloneOK, Working
    <3>2. HasReq(i, "whole") => i = jp.job
      BY <1>2, <2>4, ReqIsFile DEF OwnOK
    <3> QED
      BY Zenon, <1>1, <1>2, <1>3, <1>5, <2>1, <2>2, <2>4, <3>1, <3>2 DEF KeepJob
  <2> QED
    BY Zenon, <2>3, <2>4
<1>13. AckOK'
  BY Zenon, <1>1 DEF AckOK, Expected, Turn
<1>14. SendOK'
  BY Zenon, <1>1, <1>2 DEF SendOK, AtFile
<1> QED
  BY Zenon, <1>4, <1>6, <1>7, <1>8, <1>9, <1>10, <1>11, <1>12, <1>13, <1>14

\* Its control file is unlinked, and its turn is over.
LEMMA UnlinkReqIInv ==
    ASSUME IInv, UnlinkPrinted, ppc = "unreq"
    PROVE  IInv'
<1> USE DEF IInv
<1>1. /\ ppc' = "test" /\ jp' = None /\ fd' = None /\ size' = 0 /\ sent' = <<>>
      /\ reqDir' = [reqDir EXCEPT ![jp.jobid] = None]
      /\ UNCHANGED <<jobfile, dataDir, queue, crashes, confirmed, printed,
                     inode, mainpc, scan, entry, nextjob, cpc, no, acked, spooled, clash>>
  BY Zenon DEF UnlinkPrinted, EndJob, unchangedByPrinter, mainVars
<1>2. /\ jp # None /\ jp.job \in Job /\ jp.jobid \in Number /\ no[jp.job] = jp.jobid
      /\ cpc[jp.job] \in {"signal", "done", "gone"} /\ Acts(jp.job) /\ mainpc # "down"
      /\ jp.job \in confirmed /\ jp \in Held
  BY Zenon, AtPrinter DEF SendOK
<1>3. /\ reqDir'[jp.jobid] = None
      /\ \A n \in Number : n # jp.jobid => reqDir'[n] = reqDir[n]
  BY Zenon, <1>1, <1>2 DEF TypeOK
<1>4. TypeOK'
  <2>1. sent' \in Seq(Job) /\ size' \in Nat /\ fd' \in Job \cup {None}
    BY <1>1
  <2>2. reqDir' \in [Number -> Request \cup {None}]
    BY Zenon, <1>1, <1>2 DEF TypeOK
  <2> QED
    BY Zenon, <1>1, <2>1, <2>2 DEF TypeOK
<1>5. Held' = Elems(queue) /\ Held = Held' \cup {jp} /\ \A t \in Held' : t.job # jp.job
  <2>1. Held' = Elems(queue)
    BY Zenon, <1>1 DEF Held, Elems
  <2> QED
    BY Zenon, <1>2, <2>1 DEF Held, TurnOK
<1>6. \A i \in Job : /\ Working(i)' = Working(i) /\ (HasTurn(i)' => HasTurn(i) /\ i # jp.job)
                     /\ (Acts(i)' => Acts(i))
  BY Zenon, <1>1, <1>5 DEF Working, HasTurn, Acts
<1>7. PlaceOK'
  BY Zenon, <1>1, <1>3, <1>6 DEF PlaceOK, AtFile
<1>8. NumOK'
  BY Zenon, <1>1, <1>6 DEF NumOK, Started
<1>9. FileOK' /\ PairOK'
  BY <1>1, <1>3 DEF FileOK, PairOK
<1>10. TurnOK'
  <2>1. ASSUME NEW t \in Held'
        PROVE  t.jobid < nextjob \/ (reqDir'[t.jobid] # None /\ reqDir'[t.jobid].job = t.job)
    <3>1. t \in Held /\ t.job # jp.job /\ t.jobid \in Number
      BY Zenon, <1>5, HeldFacts
    <3>2. CASE t.jobid # jp.jobid
      BY Zenon, <1>3, <3>1, <3>2 DEF TurnOK
    <3>3. CASE t.jobid = jp.jobid
      BY Zenon, <1>2, <3>1, <3>3 DEF TurnOK
    <3> QED
      BY Zenon, <3>2, <3>3
  <2>2. \A n \in scan : n \in Number /\ n # jp.jobid
    BY Zenon, <1>2 DEF TurnOK, TypeOK
  <2>3. \A n \in scan : reqDir'[n] # None
    BY Zenon, <1>3, <2>2 DEF TurnOK
  <2>4. Distinct(queue)' = Distinct(queue)
    BY Zenon, <1>1 DEF Distinct
  <2> QED
    BY Zenon, <1>1, <1>5, <2>1, <2>3, <2>4 DEF TurnOK
<1>11. AloneOK'
  BY Zenon, <1>1, <1>6 DEF AloneOK
<1>12. OwnOK'
  <2> SUFFICES ASSUME NEW k \in Job, Acts(k), reqDir'[no[k]] # None
               PROVE  reqDir'[no[k]].job \in clash \cup {k}
    BY Zenon, <1>1, <1>6 DEF OwnOK
  <2>1. no[k] \in Number
    BY Zenon, HeldFacts, HasNumber DEF Acts, Working, HasTurn, TurnOK
  <2> QED
    BY Zenon, <1>3, <2>1 DEF OwnOK
<1>13. KeepOK'
  <2> SUFFICES ASSUME NEW i \in Job \ clash PROVE KeepJob(i)'
    BY Zenon, <1>1 DEF KeepOK
  <2>1. KeepJob(i) /\ (cpc[i] # "new" => no[i] \in Number)
    BY Zenon, HasNumber DEF KeepOK
  <2>2. HasData(i)' = HasData(i)
    BY Zenon, <1>1 DEF HasData
  <2>3. HasTurn(i) \/ i \in acked => cpc[i] # "new"
    BY Zenon, NotYet
  <2>4. CASE no[i] # jp.jobid
    <3>1. cpc[i] # "new" => /\ HasReq(i, "whole")' = HasReq(i, "whole")
                            /\ HasReq(i, "short")' = HasReq(i, "short")
                            /\ reqDir'[no[i]] = reqDir[no[i]]
      BY Zenon, <1>1, <1>3, <2>1, <2>4 DEF HasReq
    <3> QED
      BY Zenon, <1>1, <1>6, <2>1, <2>2, <2>3, <3>1 DEF KeepJob
  <2>5. CASE no[i] = jp.jobid
    <3>1. cpc[i] \notin {"creat", "copy", "writereq", "respond", "add"}
      BY Zenon, <1>2, <2>5 DEF AloneOK, Working
    <3>2. HasReq(i, "whole") => i = jp.job
      BY <1>2, <2>5, ReqIsFile DEF OwnOK
    <3>3. ~ HasReq(i, "whole")'
      <4>1. [job |-> i, nr |-> "whole"] \in Request
        BY Zenon DEF Request
      <4> QED
        BY Zenon, <1>1, <1>3, <2>5, <4>1, PrintdAssumption DEF HasReq
    <3> QED
      BY Zenon, <1>1, <1>2, <1>6, <2>1, <3>1, <3>2, <3>3 DEF KeepJob
  <2> QED
    BY Zenon, <2>4, <2>5
<1>14. AckOK'
  <2>1. ASSUME NEW i \in (acked \ confirmed) \ clash PROVE Expected(i)'
    <3>1. Expected(i) /\ i # jp.job
      BY Zenon, <1>2, <2>1 DEF AckOK
    <3>2. Turn(i)' = Turn(i) /\ Turn(i).job = i
      BY Zenon, <1>1 DEF Turn
    <3>3. Turn(i) \in Held => Turn(i) \in Held'
      BY Zenon, <1>5, <3>1, <3>2
    <3> QED
      BY Zenon, <1>1, <3>1, <3>2, <3>3 DEF Expected
  <2> QED
    BY Zenon, <1>1, <2>1 DEF AckOK
<1>15. SendOK'
  BY Zenon, <1>1 DEF SendOK, AtFile
<1> QED
  BY Zenon, <1>4, <1>7, <1>8, <1>9, <1>10, <1>11, <1>12, <1>13, <1>14, <1>15

-----------------------------------------------------------------------------
(* What main does, and the death of the daemon.                            *)

\* What both outcomes of reading a request file leave alone.
unchangedByRead == <<jobfile, dataDir, inode, nextjob, cpc, no, ppc, jp, fd, size, sent,
                     crashes, acked, confirmed, spooled, printed, clash>>

\* A whole request is queued again.
ReadWhole(n) ==
    /\ mainpc = "scan" /\ n \in scan /\ scan' = scan \ {n}
    /\ reqDir[n].nr = "whole" /\ Enqueue(reqDir[n].job, n) /\ mainpc' = "signal"
    /\ UNCHANGED <<entry, reqDir, unchangedByRead>>

LEMMA ReadWholeIInv ==
    ASSUME IInv, NEW n, ReadWhole(n)
    PROVE  IInv'
<1> USE DEF IInv
<1>0. /\ mainpc = "scan" /\ n \in scan /\ scan' = scan \ {n}
      /\ reqDir[n].nr = "whole" /\ Enqueue(reqDir[n].job, n) /\ mainpc' = "signal"
      /\ UNCHANGED <<entry, reqDir, jobfile, dataDir, inode, nextjob, cpc, no, ppc, jp, fd,
                     size, sent, crashes, acked, confirmed, spooled, printed, clash>>
  BY Zenon DEF ReadWhole, unchangedByRead
<1> DEFINE k == reqDir[n].job
           t == [job |-> k, jobid |-> n]
<1>1. /\ n \in Number /\ reqDir[n] # None /\ reqDir[n] \in Request /\ k \in Job
      /\ reqDir[n] = [job |-> k, nr |-> "whole"]
  BY Zenon, <1>0 DEF TurnOK, TypeOK, Request
<1>2. no[k] = n /\ cpc[k] \in {"done", "gone"} /\ \A i \in Job : ~ Working(i)
  BY Zenon, <1>0, <1>1 DEF FileOK, PlaceOK, Working
<1>3. t \in JobRec /\ t.job = k /\ t.jobid = n
  BY Zenon, <1>1 DEF JobRec
<1>4. \A u \in Held : u.jobid # n /\ u.job # k
  BY <1>0, <1>1, <1>2 DEF TurnOK
<1> HIDE DEF k, t
<1>5. /\ queue' \in Seq(JobRec) /\ Elems(queue)' = Elems(queue) \cup {t}
      /\ Held' = Held \cup {t} /\ Distinct(queue)'
  <2>1. queue \in Seq(JobRec) /\ Distinct(queue) /\ queue' = Append(queue, t)
    BY Zenon, <1>0 DEF TypeOK, TurnOK, Enqueue, k, t
  <2>2. \A u \in Elems(queue) : u.job # t.job
    BY Zenon, <1>3, <1>4 DEF Held
  <2>3. queue' \in Seq(JobRec) /\ Elems(queue') = Elems(queue) \cup {t} /\ Distinct(queue')
    BY Zenon, <1>3, <2>1, <2>2, AppendTurn
  <2>4. Elems(queue)' = Elems(queue') /\ Distinct(queue)' = Distinct(queue')
    BY Zenon, <1>0 DEF Elems, Distinct
  <2> QED
    BY Zenon, <1>0, <2>3, <2>4 DEF Held
<1>6. TypeOK'
  BY Zenon, <1>0, <1>5 DEF TypeOK
<1>7. \A i \in Job : /\ ~ Working(i)' /\ (HasTurn(i)' <=> HasTurn(i) \/ i = k)
                     /\ (Acts(i)' => Acts(i) \/ i = k)
  BY Zenon, <1>0, <1>2, <1>3, <1>5 DEF Working, HasTurn, Acts
<1>8. PlaceOK'
  BY Zenon, <1>0, <1>7 DEF PlaceOK
<1>9. NumOK'
  BY Zenon, <1>0, <1>7 DEF NumOK, Started
<1>10. FileOK' /\ PairOK'
  BY <1>0, Zenon DEF FileOK, PairOK
<1>11. TurnOK'
  <2>1. jp # None => \A u \in Elems(queue)' : u.job # jp.job
    BY Zenon, <1>0, <1>3, <1>4, <1>5, HeldFacts DEF TurnOK
  <2>2. \A u \in Held : u.jobid \notin scan'
    BY Zenon, <1>0 DEF TurnOK
  <2> QED
    BY Zenon, <1>0, <1>1, <1>2, <1>3, <1>5, <2>1, <2>2 DEF TurnOK, k
<1>12. AloneOK'
  BY Zenon, <1>0, <1>7 DEF AloneOK
<1>13. OwnOK'
  <2>1. /\ reqDir[no[k]] # None => reqDir[no[k]].job \in clash \cup {k}
        /\ dataDir[no[k]] # None => dataDir[no[k]] \in clash \cup {k}
    BY Zenon, <1>0, <1>1, <1>2 DEF PairOK, k
  <2> QED
    BY Zenon, <1>0, <1>7, <2>1 DEF OwnOK
<1>14. KeepOK'
  <2> SUFFICES ASSUME NEW i \in Job \ clash PROVE KeepJob(i)'
    BY <1>0, Zenon DEF KeepOK
  <2>1. KeepJob(i)
    BY Zenon, <1>0 DEF KeepOK
  <2>2. /\ HasReq(i, "whole")' = HasReq(i, "whole") /\ HasReq(i, "short")' = HasReq(i, "short")
        /\ HasData(i)' = HasData(i)
    BY Zenon, <1>0 DEF HasReq, HasData
  <2>3. i = k => HasReq(i, "whole")
    BY Zenon, <1>1, <1>2 DEF HasReq
  <2> QED
    BY Zenon, <1>0, <1>7, <2>1, <2>2, <2>3 DEF KeepJob
<1>15. AckOK'
  <2>1. ASSUME NEW i \in (acked \ confirmed) \ clash PROVE Expected(i)'
    <3>1. i \in Job /\ Expected(i) /\ HasReq(i, "whole")
      BY Zenon, <1>0, <2>1 DEF AckOK, TypeOK, KeepOK, KeepJob
    <3>2. Turn(i)' = Turn(i)
      BY <1>0, Zenon DEF Turn
    <3>3. no[i] = n => Turn(i) = t
      BY Zenon, <1>0, <3>1, ReqIsFile DEF Turn, t, k
    <3> QED
      BY Zenon, <1>0, <1>5, <3>1, <3>2, <3>3 DEF Expected
  <2> QED
    BY Zenon, <1>0, <2>1 DEF AckOK
<1>16. SendOK'
  BY Zenon, <1>0 DEF SendOK
<1> QED
  BY Zenon, <1>6, <1>8, <1>9, <1>10, <1>11, <1>12, <1>13, <1>14, <1>15, <1>16

\* A request that is not whole is unlinked.
ReadShort(n) ==
    /\ mainpc = "scan" /\ n \in scan /\ scan' = scan \ {n}
    /\ reqDir[n].nr # "whole" /\ reqDir' = [reqDir EXCEPT ![n] = None] /\ entry' = n
    /\ mainpc' = "purge"
    /\ UNCHANGED <<queue, unchangedByRead>>

LEMMA ReadShortIInv ==
    ASSUME IInv, NEW n, ReadShort(n)
    PROVE  IInv'
<1> USE DEF IInv
<1>0. /\ mainpc = "scan" /\ n \in scan /\ scan' = scan \ {n}
      /\ reqDir[n].nr # "whole" /\ reqDir' = [reqDir EXCEPT ![n] = None] /\ entry' = n
      /\ mainpc' = "purge"
      /\ UNCHANGED <<queue, jobfile, dataDir, inode, nextjob, cpc, no, ppc, jp, fd, size,
                     sent, crashes, acked, confirmed, spooled, printed, clash>>
  BY Zenon DEF ReadShort, unchangedByRead
<1>1. /\ n \in Number /\ reqDir'[n] = None
      /\ \A m \in Number : m # n => reqDir'[m] = reqDir[m]
  BY Zenon, <1>0 DEF TypeOK
<1>2. \A i \in Job : ~ Working(i) /\ ~ Working(i)'
  BY Zenon, <1>0 DEF PlaceOK, Working
<1>3. Held' = Held /\ \A i \in Job : HasTurn(i)' = HasTurn(i) /\ Acts(i)' = Acts(i)
  BY Zenon, <1>0 DEF Held, Elems, HasTurn, Acts, Working
<1>4. TypeOK'
  BY Zenon, <1>0, <1>1 DEF TypeOK
<1>5. PlaceOK'
  BY Zenon, <1>0, <1>1, <1>2 DEF PlaceOK
<1>6. NumOK'
  BY Zenon, <1>0, <1>2 DEF NumOK, Started
<1>7. FileOK' /\ PairOK'
  BY <1>0, <1>1 DEF FileOK, PairOK
<1>8. TurnOK'
  <2>1. \A t \in Held : t.jobid \in Number /\ t.jobid # n
    BY Zenon, <1>0, HeldFacts DEF TurnOK
  <2>2. \A m \in scan' : m \in Number /\ reqDir'[m] # None
    BY Zenon, <1>0, <1>1 DEF TurnOK, TypeOK
  <2>3. Elems(queue)' = Elems(queue) /\ Distinct(queue)' = Distinct(queue)
    BY Zenon, <1>0 DEF Elems, Distinct
  <2> QED
    BY <1>0, <1>1, <1>3, <2>1, <2>2, <2>3 DEF TurnOK
<1>9. AloneOK'
  BY Zenon, <1>0, <1>2 DEF AloneOK
<1>10. OwnOK'
  <2> SUFFICES ASSUME NEW k \in Job, Acts(k), reqDir'[no[k]] # None
               PROVE  reqDir'[no[k]].job \in clash \cup {k}
    BY Zenon, <1>0, <1>3 DEF OwnOK
  <2>1. no[k] \in Number
    BY Zenon, HeldFacts, HasNumber DEF Acts, Working, HasTurn, TurnOK
  <2> QED
    BY Zenon, <1>0, <1>1, <2>1 DEF OwnOK
<1>11. \A i \in Job : HasReq(i, "whole") => no[i] # n
  BY Zenon, <1>0, ReqIsFile
<1>12. KeepOK'
  <2> SUFFICES ASSUME NEW i \in Job \ clash PROVE KeepJob(i)'
    BY Zenon, <1>0 DEF KeepOK
  <2>1. KeepJob(i) /\ (cpc[i] # "new" => no[i] \in Number)
    BY Zenon, HasNumber DEF KeepOK
  <2>2. HasData(i)' = HasData(i) /\ (HasTurn(i) \/ i \in acked => cpc[i] # "new")
    BY Zenon, <1>0, NotYet DEF HasData
  <2>3. cpc[i] # "new" => HasReq(i, "whole")' = HasReq(i, "whole")
    <3>1. [job |-> i, nr |-> "whole"] \in Request
      BY Zenon DEF Request
    <3>2. CASE no[i] = n
      BY <1>0, <1>1, <1>11, <3>1, <3>2, PrintdAssumption DEF HasReq
    <3>3. CASE no[i] # n
      BY Zenon, <1>0, <1>1, <2>1, <3>3 DEF HasReq
    <3> QED
      BY Zenon, <3>2, <3>3
  <2>4. cpc'[i] \notin {"creat", "copy", "writereq", "respond", "add"}
    BY Zenon, <1>0, <1>2 DEF Working
  <2> QED
    BY Zenon, <1>0, <1>3, <2>1, <2>2, <2>3, <2>4 DEF KeepJob
<1>13. AckOK'
  <2>1. ASSUME NEW i \in (acked \ confirmed) \ clash PROVE Expected(i)'
    <3>1. i \in Job /\ Expected(i) /\ HasReq(i, "whole")
      BY Zenon, <1>0, <2>1 DEF AckOK, TypeOK, KeepOK, KeepJob
    <3>2. Turn(i)' = Turn(i) /\ no[i] # n
      BY Zenon, <1>0, <1>11, <3>1 DEF Turn
    <3> QED
      BY Zenon, <1>0, <1>3, <3>1, <3>2 DEF Expected
  <2> QED
    BY Zenon, <1>0, <2>1 DEF AckOK
<1>14. SendOK'
  BY Zenon, <1>0 DEF SendOK
<1> QED
  BY Zenon, <1>4, <1>5, <1>6, <1>7, <1>8, <1>9, <1>10, <1>12, <1>13, <1>14

LEMMA ReadRequestIInv ==
    ASSUME IInv, ReadRequest
    PROVE  IInv'
<1>1. PICK n \in scan : ReadWhole(n) \/ ReadShort(n)
  BY Zenon DEF ReadRequest, ReadWhole, ReadShort, unchangedByRead, printerVars, history
<1> QED
  BY Zenon, <1>1, ReadWholeIInv, ReadShortIInv

\* ... and so is its data file.
LEMMA PurgeDataIInv ==
    ASSUME IInv, PurgeData
    PROVE  IInv'
<1> USE DEF IInv
<1>1. /\ mainpc = "purge" /\ mainpc' = "scan" /\ entry' = None
      /\ dataDir' = [dataDir EXCEPT ![entry] = None]
      /\ UNCHANGED <<jobfile, inode, reqDir, scan, nextjob, queue, cpc, no, ppc, jp, fd, size,
                     sent, crashes, acked, confirmed, spooled, printed, clash>>
  BY Zenon DEF PurgeData, printerVars, history
<1>2. /\ entry \in Number /\ reqDir[entry] = None /\ dataDir'[entry] = None
      /\ \A m \in Number : m # entry => dataDir'[m] = dataDir[m]
  BY Zenon, <1>1 DEF PlaceOK, TypeOK
<1>3. \A i \in Job : ~ Working(i) /\ ~ Working(i)'
  BY Zenon, <1>1 DEF PlaceOK, Working
<1>4. Held' = Held /\ \A i \in Job : HasTurn(i)' = HasTurn(i) /\ Acts(i)' = Acts(i)
  BY Zenon, <1>1 DEF Held, Elems, HasTurn, Acts, Working
<1>5. TypeOK'
  BY Zenon, <1>1, <1>2 DEF TypeOK
<1>6. PlaceOK'
  BY Zenon, <1>1, <1>3 DEF PlaceOK
<1>7. NumOK'
  BY Zenon, <1>1, <1>3 DEF NumOK, Started
<1>8. FileOK' /\ PairOK'
  <2>1. \A m \in Number : dataDir'[m] # None => dataDir'[m] = dataDir[m] /\ m # entry
    BY Zenon, <1>2
  <2>2. FileOK'
    <3>1. \A m \in Number : dataDir'[m] # None => no'[dataDir'[m]] = m
      BY <1>1, <2>1 DEF FileOK
    <3> QED
      BY Zenon, <1>1, <3>1 DEF FileOK
  <2>3. PairOK'
    BY <1>1, <1>2, <2>1 DEF PairOK
  <2> QED
    BY Zenon, <2>2, <2>3
<1>9. TurnOK'
  BY <1>1, <1>4 DEF TurnOK, Distinct, Elems
<1>10. AloneOK'
  BY Zenon, <1>3 DEF AloneOK
<1>11. OwnOK'
  <2> SUFFICES ASSUME NEW k \in Job, Acts(k), dataDir'[no[k]] # None
               PROVE  dataDir'[no[k]] \in clash \cup {k}
    BY Zenon, <1>1, <1>4 DEF OwnOK
  <2>1. no[k] \in Number
    BY Zenon, HeldFacts, HasNumber DEF Acts, Working, HasTurn, TurnOK
  <2> QED
    BY Zenon, <1>2, <2>1 DEF OwnOK
<1>12. KeepOK'
  <2> SUFFICES ASSUME NEW i \in Job \ clash PROVE KeepJob(i)'
    BY Zenon, <1>1 DEF KeepOK
  <2>1. KeepJob(i) /\ (cpc[i] # "new" => no[i] \in Number)
    BY Zenon, HasNumber DEF KeepOK
  <2>2. HasReq(i, "whole")' = HasReq(i, "whole")
    BY Zenon, <1>1 DEF HasReq
  <2>3. HasReq(i, "whole") => no[i] # entry
    BY Zenon, <1>2, ReqIsFile
  <2>4. cpc[i] # "new" /\ HasReq(i, "whole") =>
           HasData(i)' = HasData(i) /\ dataDir'[no[i]] = dataDir[no[i]]
    BY Zenon, <1>1, <1>2, <2>1, <2>3 DEF HasData
  <2>5. cpc'[i] \notin {"creat", "copy", "writereq", "respond", "add"}
    BY Zenon, <1>3 DEF Working
  <2> QED
    BY Zenon, <1>1, <1>4, <2>1, <2>2, <2>4, <2>5 DEF KeepJob
<1>13. AckOK'
  BY Zenon, <1>1, <1>4 DEF AckOK, Expected, Turn
<1>14. SendOK'
  BY Zenon, <1>1 DEF SendOK
<1> QED
  BY Zenon, <1>5, <1>6, <1>7, <1>8, <1>9, <1>10, <1>11, <1>12, <1>13, <1>14

\* The printer thread is signalled, or clients are accepted from now on.
LEMMA MainMovesIInv ==
    ASSUME IInv, SignalRequest \/ Serve
    PROVE  IInv'
<1> USE DEF IInv
<1>1. /\ \/ mainpc = "signal" /\ mainpc' = "scan"
         \/ mainpc = "scan" /\ scan = {} /\ mainpc' = "serve"
      /\ ppc' = ppc \/ (ppc = "blocked" /\ ppc' = "test")
      /\ UNCHANGED <<jobfile, dataDir, inode, reqDir, scan, entry, nextjob, queue, cpc, no,
                     jp, fd, size, sent, crashes, acked, confirmed, spooled, printed, clash>>
  BY Zenon DEF SignalRequest, SignalJobwait, Serve, disk, printerVars, history
<1>2. Held' = Held
  BY Zenon, <1>1 DEF Held, Elems
<1>3. TypeOK'
  BY Zenon, <1>1 DEF TypeOK
<1>4. CalmStep
  BY Zenon, <1>1, <1>2 DEF CalmStep
<1>5. FileOK' /\ AloneOK' /\ OwnOK' /\ PairOK' /\ KeepOK' /\ Started' = Started
  BY Zenon, <1>4, CalmStepOK
<1>6. \A i \in Job : ~ Working(i) /\ ~ Working(i)'
  BY Zenon, <1>1 DEF PlaceOK, Working
<1>7. PlaceOK'
  BY Zenon, <1>1, <1>6 DEF PlaceOK, AtFile
<1>8. NumOK'
  BY Zenon, <1>1, <1>5, <1>6 DEF NumOK
<1>9. TurnOK'
  BY <1>1, <1>2 DEF TurnOK, Distinct, Elems
<1>10. AckOK'
  BY Zenon, <1>1, <1>2 DEF AckOK, Expected, Turn
<1>11. SendOK'
  BY Zenon, <1>1 DEF SendOK, AtFile
<1> QED
  BY Zenon, <1>3, <1>5, <1>7, <1>8, <1>9, <1>10, <1>11

-----------------------------------------------------------------------------
(* The steps that give out numbers or start over.  The cardinalities they      *)
(* count with are hypotheses here; StartedFacts and NewStarted discharge them. *)

\* No client was accepted yet, and the spool is empty.
LEMMA InitIInv ==
    ASSUME Init, Cardinality(Started) \in Nat
    PROVE  IInv
<1>1. TypeOK
  BY DEF Init, TypeOK
<1>2. Held = {}
  BY DEF Init, Held, Elems
<1>3. \A j \in Job : cpc[j] = "new" /\ no[j] = 0 /\ ~ Working(j) /\ ~ HasTurn(j)
  BY Zenon, <1>2 DEF Init, Working, HasTurn
<1>4. \A n \in Number : dataDir[n] = None /\ reqDir[n] = None
  BY Zenon DEF Init
<1>5. PlaceOK
  BY Zenon, <1>3 DEF Init, PlaceOK, AtFile
<1>6. NumOK
  BY <1>1, <1>3 DEF Init, NumOK
<1>7. FileOK /\ PairOK
  BY Zenon, <1>4 DEF FileOK, PairOK
<1>8. TurnOK
  BY <1>2 DEF Init, TurnOK, Distinct, Elems
<1>9. AloneOK /\ OwnOK
  BY Zenon, <1>3 DEF AloneOK, OwnOK, Acts
<1>10. KeepOK
  BY Zenon, <1>3 DEF Init, KeepOK, KeepJob
<1>11. AckOK /\ SendOK
  BY Zenon DEF Init, AckOK, SendOK, AtFile
<1> QED
  BY Zenon, <1>1, <1>5, <1>6, <1>7, <1>8, <1>9, <1>10, <1>11 DEF IInv

\* One more job is started: one of the numbers left is its number.
CountsOneMore(j) ==
    /\ Cardinality(Started) \in Nat /\ Cardinality(Job) \in Nat
    /\ Cardinality(Started \cup {j}) = Cardinality(Started) + 1
    /\ Cardinality(Started \cup {j}) <= Cardinality(Job)

\* A new job gets the next number.  If no file has that number, nobody who acts
\* has it and nobody who is kept has it.
LEMMA GetNewJobnoIInv ==
    ASSUME IInv, NEW j \in Job, GetNewJobno(j), CountsOneMore(j)
    PROVE  IInv'
<1> USE DEF IInv
<1>1. /\ mainpc = "serve" /\ cpc[j] = "new" /\ no[j] = 0
      /\ no' = [no EXCEPT ![j] = nextjob] /\ nextjob' = nextjob + 1
      /\ clash' = IF InSpool(nextjob)
                  THEN clash \cup {j} \cup {k \in Job : no[k] = nextjob} ELSE clash
      /\ Goto(j, "creat")
      /\ UNCHANGED <<dataDir, inode, reqDir, queue, ppc, acked, spooled,
                     jobfile, mainpc, scan, entry, jp, fd, size, sent, crashes, confirmed, printed>>
      /\ Held' = Held
  BY Zenon DEF GetNewJobno, unchangedByClients, mainVars, Held, Elems, NumOK
<1>2. /\ Started' = Started \cup {j}
      /\ Cardinality(Started') = Cardinality(Started) + 1
      /\ Cardinality(Started) + 1 <= Cardinality(Job)
      /\ Cardinality(Started) \in Nat /\ Cardinality(Job) \in Nat
  <2>1. Started' = Started \cup {j}
    BY Zenon, <1>1 DEF Started, Goto, TypeOK
  <2> QED
    BY Zenon, <2>1 DEF CountsOneMore
<1>3. nextjob \in Number
  <2>1. nextjob \in Nat \ {0} /\ nextjob <= Cardinality(Started) + 1
    BY Zenon, NatFacts DEF NumOK
  <2> QED
    BY <1>2, <2>1 DEF Number
<1>4. /\ cpc'[j] = "creat" /\ no'[j] = nextjob
      /\ \A i \in Job : i # j => cpc'[i] = cpc[i] /\ no'[i] = no[i]
  BY Zenon, <1>1 DEF Goto, TypeOK
<1>5. TypeOK'
  <2>1. no' \in [Job -> Number \cup {0}] /\ nextjob' \in Nat \ {0}
    BY <1>1, <1>3 DEF TypeOK
  <2>2. clash' \subseteq Job
    BY Zenon, <1>1 DEF TypeOK
  <2> QED
    BY Zenon, <1>1, <2>1, <2>2 DEF TypeOK, Goto
<1>6. /\ clash \subseteq clash'
      /\ InSpool(nextjob) => j \in clash' /\ \A k \in Job : no[k] = nextjob => k \in clash'
  BY Zenon, <1>1
<1>7. /\ ~ HasTurn(j) /\ j \notin confirmed /\ j \notin acked
      /\ \A n \in Number : /\ dataDir[n] # None => dataDir[n] # j
                           /\ reqDir[n] # None => reqDir[n].job # j
  <2>1. ~ HasTurn(j) /\ j \notin confirmed /\ j \notin acked
    BY Zenon, <1>1, NotYet
  <2>2. \A n \in Number : /\ dataDir[n] # None => dataDir[n] # j
                          /\ reqDir[n] # None => reqDir[n].job # j
    BY Zenon, <1>1, NumberFacts DEF FileOK
  <2> QED
    BY Zenon, <2>1, <2>2
<1>8. /\ \A i \in Job : HasTurn(i)' <=> HasTurn(i)
      /\ \A i \in Job : i # j => (Working(i)' <=> Working(i)) /\ (Acts(i)' <=> Acts(i))
  BY Zenon, <1>1, <1>4 DEF HasTurn, Working, Acts
<1>9. PlaceOK'
  BY Zenon, <1>1, <1>4 DEF PlaceOK, AtFile
<1>10. NumOK'
  <2>1. \A i \in Job : cpc'[i] = "new" <=> no'[i] = 0
    BY Zenon, <1>3, <1>4, NumberFacts DEF NumOK
  <2>2. nextjob \in Nat /\ \A i \in Job : no[i] \in Nat
    BY Zenon, NatFacts
  <2>3. \A i \in Job : i # j /\ Working(i)' => no'[i] < nextjob
    BY Zenon, <1>4, <1>8 DEF NumOK
  <2>4. \A i, k \in Job : Working(i)' /\ Working(k)' /\ no'[i] = no'[k] => i = k
    <3>1. ASSUME NEW i \in Job, NEW k \in Job, i # j, k # j, Working(i)', Working(k)',
                 no'[i] = no'[k]
          PROVE  i = k
      BY Zenon, <1>4, <1>8, <3>1 DEF NumOK
    <3>2. ~ (nextjob < nextjob)
      BY <2>2
    <3>3. ASSUME NEW i \in Job, i # j, Working(i)', no'[i] = no'[j] PROVE FALSE
      BY Zenon, <1>4, <2>3, <3>2, <3>3
    <3> QED
      BY Zenon, <3>1, <3>3
  <2>5. \A i \in Job : Working(i)' => no'[i] < nextjob'
    <3>1. nextjob < nextjob' /\ nextjob' \in Nat
      BY <1>1, <2>2
    <3>2. \A i \in Job : no'[i] \in Nat /\ (no'[i] < nextjob => no'[i] < nextjob')
      BY <1>4, <2>2, <3>1
    <3> QED
      BY Zenon, <1>4, <2>3, <3>1, <3>2
  <2>6. /\ nextjob' <= Cardinality(Started') + 1 /\ jobfile' <= Cardinality(Started') + 1
    BY <1>1, <1>2 DEF NumOK, TypeOK
  <2> QED
    BY Zenon, <2>1, <2>4, <2>5, <2>6 DEF NumOK
<1>11. FileOK'
  <2>1. \A n \in Number : dataDir[n] # None => no'[dataDir[n]] = n
    BY <1>4, <1>7 DEF FileOK, TypeOK
  <2>2. ASSUME NEW n \in Number, reqDir[n] # None
        PROVE  no'[reqDir[n].job] = no[reqDir[n].job] /\ cpc'[reqDir[n].job] = cpc[reqDir[n].job]
    <3>1. reqDir[n].job \in Job /\ reqDir[n].job # j
      BY Zenon, <1>7, <2>2 DEF TypeOK, Request
    <3> QED
      BY Zenon, <1>4, <3>1
  <2> QED
    BY Zenon, <1>1, <2>1, <2>2 DEF FileOK
<1>12. TurnOK'
  <2>1. \A t \in Held : t.job \in Job /\ t.jobid \in Number /\ t.job # j
    BY Zenon, <1>7, HeldFacts DEF HasTurn
  <2>2. \A t \in Held : t.jobid < nextjob => t.jobid < nextjob'
    <3>1. nextjob \in Nat /\ \A t \in Held : t.jobid \in Nat
      BY Zenon, <2>1, NatFacts, NumberFacts
    <3> QED
      BY <1>1, <3>1
  <2>3. Elems(queue)' = Elems(queue) /\ Distinct(queue)' = Distinct(queue)
    BY Zenon, <1>1 DEF Elems, Distinct
  <2> QED
    BY Zenon, <1>1, <1>4, <2>1, <2>2, <2>3 DEF TurnOK
<1>13. \A k \in Job : Acts(k) /\ no[k] = nextjob => InSpool(nextjob)
  <2> SUFFICES ASSUME NEW k \in Job, Acts(k), no[k] = nextjob PROVE InSpool(nextjob)
    OBVIOUS
  <2>1. nextjob \in Nat /\ ~ (nextjob < nextjob)
    BY DEF TypeOK
  <2>2. HasTurn(k)
    BY Zenon, <2>1 DEF Acts, NumOK
  <2>3. PICK t \in Held : t.job = k
    BY Zenon, <2>2 DEF HasTurn
  <2>4. t.jobid = nextjob
    BY Zenon, <2>3 DEF TurnOK
  <2> QED
    BY Zenon, <2>1, <2>4 DEF TurnOK, InSpool
<1>14. AloneOK'
  <2> SUFFICES ASSUME NEW a \in Job, NEW b \in Job, Working(a)', a \notin clash', Acts(b)',
                      no'[a] = no'[b]
               PROVE  a = b
    BY Zenon DEF AloneOK
  <2>1. CASE a # j /\ b # j
    BY Zenon, <1>4, <1>6, <1>8, <2>1 DEF AloneOK
  <2>2. CASE a = j /\ b # j
    BY Zenon, <1>4, <1>6, <1>8, <1>13, <2>2
  <2>3. CASE a # j /\ b = j
    <3>1. no[a] < nextjob /\ no[a] = nextjob
      BY Zenon, <1>4, <1>8, <2>3 DEF NumOK
    <3> QED
      BY <3>1 DEF TypeOK
  <2> QED
    BY Zenon, <2>1, <2>2, <2>3
<1>15. OwnOK'
  <2> SUFFICES ASSUME NEW k \in Job, Acts(k)'
               PROVE  /\ reqDir[no'[k]] # None => reqDir[no'[k]].job \in clash' \cup {k}
                      /\ dataDir[no'[k]] # None => dataDir[no'[k]] \in clash' \cup {k}
    BY Zenon, <1>1 DEF OwnOK
  <2>1. CASE k # j
    BY Zenon, <1>4, <1>6, <1>8, <2>1 DEF OwnOK
  <2>2. CASE k = j
    <3>1. /\ reqDir[nextjob] # None => reqDir[nextjob].job \in Job
          /\ dataDir[nextjob] # None => dataDir[nextjob] \in Job
      BY Zenon, <1>3 DEF TypeOK, Request
    <3> QED
      BY Zenon, <1>3, <1>4, <1>6, <2>2, <3>1 DEF FileOK, InSpool
  <2> QED
    BY Zenon, <2>1, <2>2
<1>16. PairOK'
  BY Zenon, <1>1, <1>6 DEF PairOK
<1>17. KeepOK'
  <2> SUFFICES ASSUME NEW i \in Job, i \notin clash' PROVE KeepJob(i)'
    BY Zenon DEF KeepOK
  <2>1. CASE i # j
    <3>1. KeepJob(i)
      BY Zenon, <1>6 DEF KeepOK
    <3>2. /\ no'[i] = no[i] /\ cpc'[i] = cpc[i]
          /\ HasData(i)' = HasData(i) /\ HasReq(i, "whole")' = HasReq(i, "whole")
          /\ HasReq(i, "short")' = HasReq(i, "short")
      BY Zenon, <1>1, <1>4, <2>1 DEF HasData, HasReq
    <3> QED
      BY Zenon, <1>1, <1>8, <3>1, <3>2 DEF KeepJob
  <2>2. CASE i = j
    <3>1. dataDir[nextjob] = None /\ reqDir[nextjob] = None
      BY Zenon, <1>6, <2>2 DEF InSpool
    <3>2. [job |-> j, nr |-> "whole"] \in Request
      BY Zenon DEF Request
    <3>3. ~ HasReq(j, "whole")'
      <4>1. reqDir'[no'[j]] = None
        BY Zenon, <1>1, <1>4, <3>1
      <4> QED
        BY Zenon, <3>2, <4>1, PrintdAssumption DEF HasReq
    <3> QED
      BY Zenon, <1>1, <1>4, <1>7, <1>8, <2>2, <3>1, <3>3 DEF KeepJob
  <2> QED
    BY Zenon, <2>1, <2>2
<1>18. AckOK'
  <2>1. \A i \in acked : i \in Job /\ i # j
    BY Zenon, <1>7 DEF TypeOK
  <2>2. ASSUME NEW i \in Job, i # j, Expected(i) PROVE Expected(i)'
    <3>1. Turn(i)' = Turn(i) /\ cpc'[i] = cpc[i] /\ no'[i] = no[i]
      BY Zenon, <1>4, <2>2 DEF Turn
    <3> QED
      BY Zenon, <1>1, <2>2, <3>1 DEF Expected
  <2> QED
    BY Zenon, <1>1, <1>4, <1>6, <2>1, <2>2 DEF AckOK
<1>19. SendOK'
  <2>1. \A i \in Job : cpc'[i] \in {"new", "creat"} => spooled[i] = <<>>
    BY Zenon, <1>1, <1>4 DEF SendOK
  <2>2. \A i \in confirmed : i \in Job /\ i # j
    BY Zenon, <1>7 DEF TypeOK
  <2> QED
    BY Zenon, <1>1, <1>4, <1>6, <2>1, <2>2 DEF SendOK
<1> QED
  BY Zenon, <1>5, <1>9, <1>10, <1>11, <1>12, <1>14, <1>15, <1>16, <1>17, <1>18, <1>19

\* A daemon starts and finds every whole request in REQDIR.
LEMMA StartIInv ==
    ASSUME IInv, Start, Cardinality(Started) \in Nat
    PROVE  IInv'
<1> USE DEF IInv
<1>1. /\ mainpc = "down" /\ mainpc' = "scan" /\ ppc' = "test" /\ ppc = "off" /\ jp = None
      /\ nextjob' = IF jobfile = 0 THEN 1 ELSE jobfile
      /\ scan' = {n \in Number : reqDir[n] # None} /\ queue = <<>>
      /\ UNCHANGED <<jobfile, dataDir, inode, reqDir, entry, queue, cpc, no, jp, fd, size, sent,
                     crashes, acked, confirmed, spooled, printed, clash>>
  BY Zenon DEF Start, disk, history, PlaceOK
<1>2. Held = {} /\ Held' = {}
  BY <1>1 DEF Held, Elems
<1>3. TypeOK'
  <2>1. nextjob' \in Nat \ {0}
    BY <1>1, NatFacts
  <2> QED
    BY Zenon, <1>1, <2>1 DEF TypeOK
<1>4. CalmStep
  BY Zenon, <1>1, <1>2 DEF CalmStep
<1>5. FileOK' /\ AloneOK' /\ OwnOK' /\ PairOK' /\ KeepOK' /\ Started' = Started
  BY Zenon, <1>4, CalmStepOK
<1>6. \A i \in Job : ~ Working(i) /\ ~ Working(i)'
  BY Zenon, <1>1 DEF PlaceOK, Working
<1>7. PlaceOK'
  BY Zenon, <1>1, <1>6 DEF PlaceOK, AtFile
<1>8. NumOK'
  <2>1. nextjob' <= Cardinality(Started) + 1
    <3>1. jobfile \in Nat /\ jobfile <= Cardinality(Started) + 1
      BY Zenon, NatFacts DEF NumOK
    <3> QED
      BY <1>1, <3>1
  <2> QED
    BY Zenon, <1>1, <1>5, <1>6, <2>1 DEF NumOK
<1>9. TurnOK'
  BY Zenon, <1>1, <1>2 DEF TurnOK, Distinct, Elems
<1>10. AckOK'
  <2>1. ASSUME NEW i \in (acked \ confirmed) \ clash PROVE Expected(i)'
    <3>1. i \in Job /\ cpc[i] # "new" /\ HasReq(i, "whole")
      BY Zenon, <2>1 DEF AckOK, TypeOK, KeepOK, KeepJob
    <3>2. no[i] \in Number /\ reqDir[no[i]] # None
      BY Zenon, <3>1, HasNumber, ReqIsFile
    <3> QED
      BY Zenon, <1>1, <3>2 DEF Expected
  <2> QED
    BY Zenon, <1>1, <2>1 DEF AckOK
<1>11. SendOK'
  BY Zenon, <1>1 DEF SendOK, AtFile
<1> QED
  BY Zenon, <1>3, <1>5, <1>7, <1>8, <1>9, <1>10, <1>11

\* The daemon dies: files and numbers stay, nobody works and nobody has a turn.
LEMMA StopIInv ==
    ASSUME IInv, Stop, Cardinality(Started) \in Nat
    PROVE  IInv'
<1> USE DEF IInv
<1>1. /\ mainpc' = "down" /\ scan' = {} /\ entry' = None /\ queue' = <<>>
      /\ cpc' = [j \in Job |-> IF cpc[j] \in {"new", "done", "refused"} THEN cpc[j] ELSE "gone"]
      /\ ppc' = "off" /\ jp' = None /\ fd' = None /\ size' = 0 /\ sent' = <<>> /\ nextjob' = 1
      /\ crashes' = crashes + 1
      /\ UNCHANGED <<jobfile, dataDir, inode, reqDir, no, acked, confirmed, spooled, printed, clash>>
  BY Zenon DEF Stop, Die, disk
<1>2. \A i \in Job : /\ cpc'[i] = "new" <=> cpc[i] = "new"
                     /\ cpc'[i] \in {"new", "done", "refused", "gone"}
                     /\ cpc[i] \in {"done", "refused"} => cpc'[i] = cpc[i]
                     /\ cpc[i] \notin {"new", "done", "refused"} => cpc'[i] = "gone"
  BY Zenon, <1>1
<1>3. TypeOK'
  <2>1. cpc' \in [Job -> Place]
    BY Zenon, <1>1, <1>2 DEF Place
  <2>2. queue' \in Seq(JobRec) /\ sent' \in Seq(Job) /\ size' \in Nat /\ nextjob' \in Nat \ {0}
    BY <1>1
  <2>3. crashes' \in Nat
    BY <1>1 DEF TypeOK
  <2> QED
    BY Zenon, <1>1, <2>1, <2>2, <2>3 DEF TypeOK, Place
<1>4. Held' = {} /\ \A i \in Job : ~ Working(i)' /\ ~ HasTurn(i)' /\ ~ Acts(i)'
  <2>1. Held' = {}
    BY <1>1 DEF Held, Elems
  <2> QED
    BY Zenon, <1>2, <2>1 DEF Working, HasTurn, Acts
<1>5. PlaceOK'
  BY Zenon, <1>1, <1>4 DEF PlaceOK, AtFile
<1>6. NumOK'
  <2>1. Started' = Started
    BY Zenon, <1>2 DEF Started
  <2>2. nextjob' <= Cardinality(Started) + 1
    BY <1>1
  <2> QED
    BY Zenon, <1>1, <1>2, <1>4, <2>1, <2>2 DEF NumOK
<1>7. FileOK' /\ PairOK'
  <2>1. \A n \in Number : reqDir[n] # None => reqDir[n].job \in Job
    BY Zenon DEF TypeOK, Request
  <2>2. \A n \in Number : reqDir[n] # None => cpc'[reqDir[n].job] \in {"done", "gone"}
    BY Zenon, <1>2, <2>1 DEF FileOK
  <2> QED
    BY <1>1, <2>2 DEF FileOK, PairOK
<1>8. TurnOK'
  BY <1>1, <1>4 DEF TurnOK, Distinct, Elems
<1>9. AloneOK' /\ OwnOK'
  BY Zenon, <1>4 DEF AloneOK, OwnOK
<1>10. KeepOK'
  <2> SUFFICES ASSUME NEW i \in Job \ clash PROVE KeepJob(i)'
    BY Zenon, <1>1 DEF KeepOK
  <2>1. KeepJob(i)
    BY Zenon DEF KeepOK
  <2>2. HasReq(i, "whole")' = HasReq(i, "whole") /\ HasData(i)' = HasData(i)
    BY Zenon, <1>1 DEF HasReq, HasData
  <2>3. cpc'[i] \notin {"creat", "copy", "writereq", "respond", "add"}
    BY Zenon, <1>2
  <2> QED
    BY Zenon, <1>1, <1>2, <1>4, <2>1, <2>2, <2>3 DEF KeepJob
<1>11. AckOK'
  BY Zenon, <1>1, <1>2 DEF AckOK, TypeOK
<1>12. SendOK'
  <2>1. \A i \in confirmed : cpc'[i] \in {"signal", "done", "gone"}
    BY Zenon, <1>2 DEF SendOK, TypeOK
  <2> QED
    BY Zenon, <1>1, <1>2, <2>1 DEF SendOK, AtFile
<1> QED
  BY Zenon, <1>3, <1>5, <1>6, <1>7, <1>8, <1>9, <1>10, <1>11, <1>12

-----------------------------------------------------------------------------
(* The theorems.                                                           *)

INSTANCE FiniteSetTheorems

\* The jobs that were started are as many as there are numbers given out, at least.
LEMMA StartedFacts ==
    IsFiniteSet(Started) /\ Cardinality(Started) \in Nat /\ Cardinality(Job) \in Nat
BY Zenon, PrintdAssumption, FS_Subset, FS_CardinalityType DEF Started

\* A job that was not started is one more.
LEMMA NewStarted ==
    ASSUME NEW j \in Job, GetNewJobno(j)
    PROVE  CountsOneMore(j)
<1>1. j \notin Started /\ Started \cup {j} \subseteq Job
  BY Zenon DEF Started, GetNewJobno
<1>2. Cardinality(Started \cup {j}) = Cardinality(Started) + 1
  BY Zenon, <1>1, StartedFacts, FS_AddElement
<1>3. Cardinality(Started \cup {j}) <= Cardinality(Job)
  BY Zenon, <1>1, PrintdAssumption, FS_Subset
<1> QED
  BY Zenon, <1>2, <1>3, StartedFacts DEF CountsOneMore

LEMMA NextIInv == IInv /\ [Next]_vars => IInv'
<1> SUFFICES ASSUME IInv, [Next]_vars PROVE IInv'
  OBVIOUS
<1>1. CASE Main
  BY Zenon, <1>1, StartedFacts, StartIInv, ReadRequestIInv, PurgeDataIInv, MainMovesIInv DEF Main
<1>2. CASE Stop
  BY Zenon, <1>2, StartedFacts, StopIInv
<1>3. CASE Printer
  <2>1. UnlinkPrinted => ppc = "undata" \/ ppc = "unreq"
    BY Zenon DEF UnlinkPrinted
  <2> QED
    BY Zenon, <1>3, <2>1, GetJobIInv, UpdateJobnoIInv, OpenDataIInv, SendIInv, StatusOkIInv,
       UnlinkDataIInv, UnlinkReqIInv, DeferIInv
    DEF Printer
<1>4. CASE \E j \in Job : Client(j)
  <2>1. PICK j \in Job : Client(j)
    BY Zenon, <1>4
  <2> QED
    BY Zenon, <2>1, NewStarted, GetNewJobnoIInv, CreatDataIInv, CopyIInv, CreatReqIInv, WriteReqIInv,
       RespondIInv, AddJobIInv, SignalJobIInv, UnlinkOnErrorIInv
    DEF Client
<1>5. CASE UNCHANGED vars
  <2>1. UNCHANGED <<jobfile, dataDir, inode, reqDir, mainpc, scan, entry, nextjob, queue, cpc,
                    no, ppc, jp, fd, size, sent, crashes, acked, confirmed, spooled, printed,
                    clash>>
    BY Zenon, <1>5 DEF vars, disk, mainVars, printerVars, history
  <2>2. Held' = Held
    BY Zenon, <2>1 DEF Held, Elems
  <2>3. CalmStep
    BY Zenon, <2>1, <2>2 DEF CalmStep
  <2>4. FileOK' /\ AloneOK' /\ OwnOK' /\ PairOK' /\ KeepOK' /\ Started' = Started
    BY Zenon, <2>3, CalmStepOK
  <2>5. TypeOK' /\ PlaceOK' /\ NumOK'
    BY <2>1, <2>4 DEF IInv, TypeOK, PlaceOK, NumOK, Working
  <2>6. TurnOK' /\ AckOK' /\ SendOK'
    <3>1. Elems(queue)' = Elems(queue) /\ Distinct(queue)' = Distinct(queue)
      BY Zenon, <2>1 DEF Elems, Distinct
    <3>2. TurnOK'
      BY Zenon, <2>1, <2>2, <3>1 DEF IInv, TurnOK
    <3>3. AckOK'
      BY Zenon, <2>1, <2>2 DEF IInv, AckOK, Expected, Turn
    <3>4. SendOK'
      BY Zenon, <2>1 DEF IInv, SendOK
    <3> QED
      BY Zenon, <3>2, <3>3, <3>4
  <2> QED
    BY Zenon, <2>4, <2>5, <2>6 DEF IInv
<1> QED
  BY Zenon, <1>1, <1>2, <1>3, <1>4, <1>5 DEF Next

\* The invariant of the spooler holds in every state of printd, whatever client
\* threads, printer thread and restarts do.
THEOREM Invariance == Spec => []IInv
<1>1. Init => IInv
  BY Zenon, InitIInv, StartedFacts
<1> QED
  BY <1>1, NextIInv, PTL DEF Spec

\* The spool and the daemon's variables are what their declarations say.
THEOREM TypeCorrect == Spec => []TypeOK
<1>1. IInv => TypeOK
  BY Zenon DEF IInv
<1> QED
  BY <1>1, Invariance, PTL

\* A job whose client was sent the request ID, and that the printer has not
\* confirmed, has both its files whole in the spool after any number of deaths of
\* the daemon, and a daemon that is up knows of it.
THEOREM AcknowledgedKept == Spec => []AcknowledgedIsKept
<1>1. IInv => AcknowledgedIsKept
  <2> SUFFICES ASSUME IInv, NEW j \in (acked \ confirmed) \ clash
               PROVE  Kept(j) /\ (mainpc # "down" => Pending(j))
    BY Zenon DEF AcknowledgedIsKept
  <2>1. j \in Job /\ cpc[j] # "new"
    BY Zenon DEF IInv, TypeOK, AckOK
  <2>2. HasReq(j, "whole") /\ HasData(j)
    BY Zenon, <2>1 DEF IInv, KeepOK, KeepJob
  <2>3. Kept(j)
    BY Zenon, <2>1, <2>2, PrintdAssumption DEF Kept, HasReq, HasData
  <2>4. ASSUME mainpc # "down" PROVE Pending(j)
    <3>1. Expected(j)
      BY Zenon, <2>4 DEF IInv, AckOK
    <3>2. Turn(j) \in Held => Turn(j) = jp \/ \E i \in DOMAIN queue : queue[i] = Turn(j)
      BY Zenon DEF Held, Elems
    <3> QED
      BY Zenon, <3>1, <3>2 DEF Expected, Pending, Turn
  <2> QED
    BY Zenon, <2>3, <2>4
<1> QED
  BY <1>1, Invariance, PTL

\* What was sent to the printer for a confirmed job is what its client thread
\* received, also when a later daemon sent it, and as long as announced.
THEOREM PrintedSpooled == Spec => []PrintedAsSpooled
<1>1. IInv => PrintedAsSpooled
  BY Zenon DEF IInv, SendOK, PrintedAsSpooled
<1> QED
  BY <1>1, Invariance, PTL

\* No job has two turns, and none has one before its client thread added it.
THEOREM OneTurn == Spec => []QueuedOnce
<1>1. IInv => QueuedOnce
  <2> SUFFICES ASSUME IInv PROVE QueuedOnce
    OBVIOUS
  <2>1. queue \in Seq(JobRec) /\ Distinct(queue)
    BY Zenon DEF IInv, TypeOK, TurnOK
  <2>2. Distinct(Turns) /\ Elems(Turns) \subseteq Held
    <3>1. CASE jp = None
      BY Zenon, <2>1, <3>1 DEF Turns, Held
    <3>2. CASE jp # None
      <4>1. jp \in JobRec /\ \A t \in Elems(queue) : t.job # jp.job
        BY Zenon, <3>2 DEF IInv, TypeOK, TurnOK
      <4>2. Distinct(<<jp>> \o queue) /\ Elems(<<jp>> \o queue) = Elems(queue) \cup {jp}
        BY Zenon, <2>1, <4>1, TurnBack
      <4> QED
        BY Zenon, <3>2, <4>2 DEF Turns, Held
    <3> QED
      BY Zenon, <3>1, <3>2
  <2>3. \A i \in DOMAIN Turns : Turns[i] \in Held
    BY Zenon, <2>2 DEF Elems
  <2>4. \A i \in DOMAIN Turns : cpc[Turns[i].job] \in {"signal", "done", "gone"}
    BY Zenon, <2>3 DEF IInv, TurnOK
  <2> QED
    BY Zenon, <2>2, <2>4 DEF QueuedOnce, Distinct
<1> QED
  BY <1>1, Invariance, PTL

\* The order of the turns is the order in which jobs were accepted, and a job that
\* fails keeps its turn.
THEOREM TurnsKept == Spec => KeepsTurn
<1> DEFINE Kind ==
       \/ Turns' = Turns \/ mainpc' = "down"
       \/ Turns # <<>> /\ Turns' = Tail(Turns)
       \/ \E r \in JobRec : Turns' = Append(Turns, r)
<1>1. ASSUME IInv, IInv', [Next]_vars PROVE Kind
  <2>1. /\ queue \in Seq(JobRec) /\ jp \in JobRec \cup {None}
        /\ queue' \in Seq(JobRec) /\ jp' \in JobRec \cup {None}
    BY Zenon, <1>1 DEF IInv, TypeOK
  <2>2. CASE queue' = queue /\ jp' = jp
    BY Zenon, <2>2 DEF Turns
  <2>3. CASE Stop
    BY Zenon, <2>3 DEF Stop, Die
  <2>4. ASSUME NEW r \in JobRec, queue' = Append(queue, r), jp' = jp PROVE Kind
    <3>1. jp # None => <<jp>> \o Append(queue, r) = Append(<<jp>> \o queue, r)
      BY <2>1
    <3> QED
      BY Zenon, <2>4, <3>1 DEF Turns
  <2>5. ASSUME jp # None, jp' = None, queue' = queue PROVE Kind
    <3>1. <<jp>> \o queue # <<>> /\ Tail(<<jp>> \o queue) = queue
      BY <2>1, <2>5
    <3> QED
      BY Zenon, <2>5, <3>1 DEF Turns
  <2>6. ASSUME jp = None, queue # <<>>, jp' = Head(queue), queue' = Tail(queue) PROVE Kind
    <3>1. jp' \in JobRec /\ <<Head(queue)>> \o Tail(queue) = queue
      BY <2>1, <2>6
    <3> QED
      BY Zenon, <2>6, <3>1, PrintdAssumption DEF Turns
  <2>7. ASSUME jp # None, jp' = None, queue' = <<jp>> \o queue PROVE Kind
    BY Zenon, <2>7 DEF Turns
  <2>8. CASE Main
    <3>1. CASE ReadRequest
      <4>1. PICK n \in scan : /\ jp' = jp
                              /\ \/ reqDir[n].nr = "whole" /\ Enqueue(reqDir[n].job, n)
                                 \/ queue' = queue
        BY Zenon, <3>1 DEF ReadRequest, printerVars
      <4>2. n \in Number /\ reqDir[n].job \in Job
        <5>1. n \in Number /\ reqDir[n] \in Request \cup {None} /\ reqDir[n] # None
          BY Zenon, <1>1, <4>1 DEF IInv, TypeOK, TurnOK
        <5> QED
          BY Zenon, <5>1 DEF Request
      <4>3. [job |-> reqDir[n].job, jobid |-> n] \in JobRec
        BY Zenon, <4>2 DEF JobRec
      <4> QED
        BY Zenon, <2>2, <2>4, <4>1, <4>3 DEF Enqueue
    <3>2. CASE Start \/ PurgeData \/ SignalRequest \/ Serve
      BY Zenon, <2>2, <3>2 DEF Start, PurgeData, SignalRequest, Serve, printerVars
    <3> QED
      BY Zenon, <2>8, <3>1, <3>2 DEF Main
  <2>9. CASE Printer
    <3>1. CASE GetJob
      <4>1. jp = None
        BY Zenon, <1>1, <3>1 DEF GetJob, IInv, PlaceOK
      <4> QED
        BY Zenon, <2>2, <2>6, <3>1, <4>1 DEF GetJob
    <3>2. CASE OpenData \/ UnlinkPrinted \/ Defer
      <4>1. jp # None
        BY Zenon, <1>1, <3>2 DEF OpenData, UnlinkPrinted, Defer, IInv, PlaceOK
      <4> QED
        BY Zenon, <2>2, <2>5, <2>7, <3>2, <4>1 DEF OpenData, UnlinkPrinted, Defer, EndJob
    <3>3. CASE UpdateJobno \/ SendChunk \/ SendEnd \/ StatusOk \/ PrinterFails
      BY Zenon, <2>2, <3>3 DEF UpdateJobno, SendChunk, SendEnd, StatusOk, PrinterFails
    <3> QED
      BY Zenon, <2>9, <3>1, <3>2, <3>3 DEF Printer
  <2>10. ASSUME NEW j \in Job, Client(j) PROVE Kind
    <3>1. CASE AddJob(j)
      <4>1. no[j] \in Number
        BY Zenon, <1>1, <3>1, HasNumber DEF AddJob, IInv
      <4>2. [job |-> j, jobid |-> no[j]] \in JobRec
        BY Zenon, <4>1 DEF JobRec
      <4> QED
        BY Zenon, <2>4, <3>1, <4>2 DEF AddJob, Enqueue, unchangedByClients
    <3>2. CASE ~ AddJob(j)
      BY Zenon, <2>2, <2>10, <3>2
      DEF Client, GetNewJobno, CreatData, Copy, CreatReq, WriteReq, Respond, SignalJob,
          UnlinkOnError, unchangedByClients
    <3> QED
      BY Zenon, <3>1, <3>2
  <2>11. CASE UNCHANGED vars
    BY Zenon, <2>2, <2>11 DEF vars, printerVars
  <2> QED
    BY Zenon, <1>1, <2>3, <2>8, <2>9, <2>10, <2>11 DEF Next
<1> QED
  BY <1>1, Invariance, PTL DEF Spec, KeepsTurn

=============================================================================
