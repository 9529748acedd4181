------------------------------- MODULE Printd -------------------------------
(***************************************************************************)
(* The print spooler daemon apue.3e/printer/printd.c: its spool directory, *)
(* its queue of pending jobs, one thread per client, the printer thread,   *)
(* and what a daemon finds when it starts after the last one died.         *)
(*                                                                         *)
(* Clients are identified with the jobs they submit.  A step is a critical *)
(* section under joblock, or one system call on the spool.                 *)
(* A data file is an inode whose content is a sequence of chunks, each     *)
(* named by the job it was received for; inode j is the one made by the    *)
(* creat of the client of job j.                                           *)
(***************************************************************************)
EXTENDS Integers, Sequences, FiniteSets

CONSTANTS
    Job,
    None,
    MaxChunk,   \* bound: reads from a client that return data
    MaxCrash    \* bound: deaths of the daemon

\* int32_t numbers, as long as fewer than INT_MAX jobs are submitted.
Number == 1 .. Cardinality(Job)

VARIABLES
    jobfile,    \* the job number file; 0 when it is empty
    dataDir,    \* the inode each number names in DATADIR
    inode,      \* the content of each inode
    reqDir,     \* the request each number names in REQDIR
    mainpc,     \* "down", "scan", "purge", "signal" or "serve"
    scan,       \* entries of REQDIR that readdir has still to return
    entry,      \* the entry build_qonstart is at
    nextjob,
    queue,      \* jobhead ... jobtail
    cpc, no,    \* of each client_thread: where it is, and jobid
    ppc, jp, fd, size, sent,  \* the printer thread
    crashes,
    acked,      \* jobs whose client was sent "request ID"
    confirmed,  \* jobs whose IPP status was OK
    spooled,    \* what was received for each job
    printed,    \* what was sent for each job that was confirmed
    clash       \* jobs that had a number while another job's files had it

disk == <<jobfile, dataDir, inode, reqDir>>
mainVars == <<mainpc, scan, entry>>
printerVars == <<ppc, jp, fd, size, sent>>
history == <<crashes, acked, confirmed, spooled, printed, clash>>
vars == <<disk, mainVars, nextjob, queue, cpc, no, printerVars, history>>

\* A member of the list of pending jobs.
JobRec == [job : Job, jobid : Number]

\* A control file: the job it is of, and how much of the request it has.
Request == [job : Job, nr : {"short", "whole"}]

ASSUME PrintdAssumption ==
    /\ IsFiniteSet(Job)
    /\ None \notin Job /\ None \notin JobRec /\ None \notin Request
    /\ MaxChunk \in Nat /\ MaxCrash \in Nat

Init ==
    /\ jobfile = 0
    /\ dataDir = [n \in Number |-> None]
    /\ inode = [f \in Job |-> <<>>]
    /\ reqDir = [n \in Number |-> None]
    /\ mainpc = "down" /\ scan = {} /\ entry = None
    /\ nextjob = 1
    /\ queue = <<>>
    /\ cpc = [j \in Job |-> "new"]
    /\ no = [j \in Job |-> 0]
    /\ ppc = "off" /\ jp = None /\ fd = None /\ size = 0 /\ sent = <<>>
    /\ crashes = 0
    /\ acked = {} /\ confirmed = {} /\ clash = {}
    /\ spooled = [j \in Job |-> <<>>]
    /\ printed = [j \in Job |-> <<>>]

-----------------------------------------------------------------------------
(* The daemon starts and stops.                                            *)

\* Mutant: an empty job file is not told from one with a number.
StartFromFile ==
    /\ mainpc = "down"
    /\ nextjob' = jobfile
    /\ ppc' = "test"
    /\ mainpc' = "scan"
    /\ scan' = {n \in Number : reqDir[n] # None}
    /\ UNCHANGED <<disk, entry, queue, cpc, no, jp, fd, size, sent, history>>

\* init_request, init_printer, the two threads, and opendir of build_qonstart.
Start ==
    /\ mainpc = "down"
    /\ nextjob' = IF jobfile = 0 THEN 1 ELSE jobfile
    /\ ppc' = "test"
    /\ mainpc' = "scan"
    /\ scan' = {n \in Number : reqDir[n] # None}
    /\ UNCHANGED <<disk, entry, queue, cpc, no, jp, fd, size, sent, history>>

\* The process is gone: the files stay, memory and threads do not.
Die ==
    /\ mainpc' = "down" /\ scan' = {} /\ entry' = None
    /\ queue' = <<>>
    /\ cpc' = [j \in Job |-> IF cpc[j] \in {"new", "done", "refused"}
                             THEN cpc[j] ELSE "gone"]
    /\ ppc' = "off" /\ jp' = None /\ fd' = None /\ size' = 0 /\ sent' = <<>>
    /\ nextjob' = 1
    /\ UNCHANGED <<no, acked, confirmed, spooled, printed, clash>>

\* SIGTERM (kill_workers and exit), init_printer without a printer address, or
\* a death nobody asked for.
Stop ==
    /\ mainpc # "down" /\ crashes < MaxCrash
    /\ crashes' = crashes + 1
    /\ Die
    /\ UNCHANGED disk

-----------------------------------------------------------------------------
(* The queue of pending jobs.                                              *)

\* Mutant: the new job goes to the head.
EnqueueAtHead(job, jobid) == queue' = <<[job |-> job, jobid |-> jobid]>> \o queue

\* The critical section of add_job.
Enqueue(job, jobid) == queue' = Append(queue, [job |-> job, jobid |-> jobid])

\* Mutant: nobody is told of the new job.
SignalForgotten == UNCHANGED ppc

\* pthread_cond_signal, which add_job calls after it released joblock.
SignalJobwait == ppc' = IF ppc = "blocked" THEN "test" ELSE ppc

\* build_qonstart reads one request file.
ReadRequest ==
    /\ mainpc = "scan" /\ scan # {}
    /\ \E n \in scan :
          /\ scan' = scan \ {n}
          /\ \/ /\ reqDir[n].nr = "whole"
                /\ Enqueue(reqDir[n].job, n)
                /\ mainpc' = "signal"
                /\ UNCHANGED <<entry, reqDir>>
             \/ /\ reqDir[n].nr # "whole"
                /\ reqDir' = [reqDir EXCEPT ![n] = None]
                /\ entry' = n
                /\ mainpc' = "purge"
                /\ UNCHANGED queue
    /\ UNCHANGED <<jobfile, dataDir, inode, nextjob, cpc, no, printerVars,
                   history>>

\* ... and unlinks the data of a request that is not whole,
PurgeData ==
    /\ mainpc = "purge"
    /\ dataDir' = [dataDir EXCEPT ![entry] = None]
    /\ mainpc' = "scan" /\ entry' = None
    /\ UNCHANGED <<jobfile, inode, reqDir, scan, nextjob, queue, cpc, no,
                   printerVars, history>>

\* ... or signals the printer thread.
SignalRequest ==
    /\ mainpc = "signal"
    /\ SignalJobwait
    /\ mainpc' = "scan"
    /\ UNCHANGED <<disk, scan, entry, nextjob, queue, cpc, no, jp, fd, size,
                   sent, history>>

\* main starts to accept clients.
Serve ==
    /\ mainpc = "scan" /\ scan = {}
    /\ mainpc' = "serve"
    /\ UNCHANGED <<disk, scan, entry, nextjob, queue, cpc, no, printerVars,
                   history>>

-----------------------------------------------------------------------------
(* client_thread.                                                          *)

Goto(j, label) == cpc' = [cpc EXCEPT ![j] = label]

unchangedByClients == <<jobfile, mainVars, jp, fd, size, sent, crashes,
                        confirmed, printed>>

\* A file of the spool directory has number n.
InSpool(n) == dataDir[n] # None \/ reqDir[n] # None

\* The connection is accepted, the header is read, and get_newjobno called.
GetNewJobno(j) ==
    /\ mainpc = "serve" /\ cpc[j] = "new"
    /\ no' = [no EXCEPT ![j] = nextjob]
    /\ nextjob' = nextjob + 1
    /\ clash' = IF InSpool(nextjob)
                THEN clash \cup {j} \cup {k \in Job : no[k] = nextjob} ELSE clash
    /\ Goto(j, "creat")
    /\ UNCHANGED <<dataDir, inode, reqDir, queue, ppc, acked, spooled,
                   unchangedByClients>>

\* creat of the data file: a new inode, or the one there, truncated.
CreatData(j) ==
    /\ cpc[j] = "creat"
    /\ \/ LET f == IF dataDir[no[j]] = None THEN j ELSE dataDir[no[j]]
          IN  /\ dataDir' = [dataDir EXCEPT ![no[j]] = f]
              /\ inode' = [inode EXCEPT ![f] = <<>>]
              /\ Goto(j, "copy")
       \/ Goto(j, "refused") /\ UNCHANGED <<dataDir, inode>>
    /\ UNCHANGED <<reqDir, nextjob, queue, no, ppc, acked, spooled, clash,
                   unchangedByClients>>

\* One read from the client and the write of what it returned, which may fail.
Copy(j) ==
    /\ cpc[j] = "copy"
    /\ \/ /\ Len(spooled[j]) < MaxChunk
          /\ spooled' = [spooled EXCEPT ![j] = Append(@, j)]
          /\ inode' = [f \in Job |-> IF f = dataDir[no[j]]
                                     THEN Append(inode[f], j) ELSE inode[f]]
          /\ UNCHANGED cpc
       \/ Goto(j, "undata") /\ UNCHANGED <<inode, spooled>>
    /\ UNCHANGED <<dataDir, reqDir, nextjob, queue, no, ppc, acked, clash,
                   unchangedByClients>>

\* The read returns 0, or -1 after 20 seconds without data: the control file
\* is created.
CreatReq(j) ==
    /\ cpc[j] = "copy"
    /\ \/ /\ reqDir' = [reqDir EXCEPT ![no[j]] = [job |-> j, nr |-> "short"]]
          /\ Goto(j, "writereq")
       \/ Goto(j, "undata") /\ UNCHANGED reqDir
    /\ UNCHANGED <<dataDir, inode, nextjob, queue, no, ppc, acked, spooled,
                   clash, unchangedByClients>>

\* The write of the request to it, unless another thread unlinked it.
WriteReq(j) ==
    /\ cpc[j] = "writereq"
    /\ \/ /\ reqDir' = [reqDir EXCEPT ![no[j]] =
                           IF @ = None THEN None ELSE [@ EXCEPT !.nr = "whole"]]
          /\ Goto(j, "respond")
       \/ Goto(j, "unreq") /\ UNCHANGED reqDir
    /\ UNCHANGED <<dataDir, inode, nextjob, queue, no, ppc, acked, spooled,
                   clash, unchangedByClients>>

\* The response "request ID".
Respond(j) ==
    /\ cpc[j] = "respond"
    /\ acked' = acked \cup {j}
    /\ Goto(j, "add")
    /\ UNCHANGED <<dataDir, inode, reqDir, nextjob, queue, no, ppc, spooled,
                   clash, unchangedByClients>>

\* add_job,
AddJob(j) ==
    /\ cpc[j] = "add"
    /\ Enqueue(j, no[j])
    /\ Goto(j, "signal")
    /\ UNCHANGED <<dataDir, inode, reqDir, nextjob, no, ppc, acked, spooled,
                   clash, unchangedByClients>>

\* ... and its signal; the thread exits.
SignalJob(j) ==
    /\ cpc[j] = "signal"
    /\ SignalJobwait
    /\ Goto(j, "done")
    /\ UNCHANGED <<dataDir, inode, reqDir, nextjob, queue, no, acked, spooled,
                   clash, unchangedByClients>>

\* The error paths unlink what was created, the control file first.
UnlinkOnError(j) ==
    /\ \/ /\ cpc[j] = "unreq"
          /\ reqDir' = [reqDir EXCEPT ![no[j]] = None]
          /\ Goto(j, "undata") /\ UNCHANGED dataDir
       \/ /\ cpc[j] = "undata"
          /\ dataDir' = [dataDir EXCEPT ![no[j]] = None]
          /\ Goto(j, "refused") /\ UNCHANGED reqDir
    /\ UNCHANGED <<inode, nextjob, queue, no, ppc, acked, spooled, clash,
                   unchangedByClients>>

Client(j) ==
    \/ GetNewJobno(j) \/ CreatData(j) \/ Copy(j) \/ CreatReq(j) \/ WriteReq(j)
    \/ Respond(j) \/ AddJob(j) \/ SignalJob(j) \/ UnlinkOnError(j)

-----------------------------------------------------------------------------
(* printer_thread.                                                         *)

unchangedByPrinter == <<inode, mainVars, nextjob, cpc, no, acked, spooled,
                        clash>>

\* Mutant: remove_job is missing.
GetJobKeeping ==
    /\ ppc = "test"
    /\ \/ /\ queue = <<>>
          /\ ppc' = "blocked"
          /\ UNCHANGED jp
       \/ /\ queue # <<>>
          /\ jp' = Head(queue)
          /\ ppc' = "save"
    /\ UNCHANGED <<jobfile, dataDir, reqDir, queue, fd, size, sent, crashes,
                   confirmed, printed, unchangedByPrinter>>

\* Wait on jobwait while there is no job, and remove the first one.
GetJob ==
    /\ ppc = "test"
    /\ \/ /\ queue = <<>>
          /\ ppc' = "blocked"
          /\ UNCHANGED <<queue, jp>>
       \/ /\ queue # <<>>
          /\ jp' = Head(queue) /\ queue' = Tail(queue)
          /\ ppc' = "save"
    /\ UNCHANGED <<jobfile, dataDir, reqDir, fd, size, sent, crashes,
                   confirmed, printed, unchangedByPrinter>>

\* update_jobno, without joblock.
UpdateJobno ==
    /\ ppc = "save"
    /\ jobfile' = nextjob
    /\ ppc' = "open"
    /\ UNCHANGED <<dataDir, reqDir, queue, jp, fd, size, sent, crashes,
                   confirmed, printed, unchangedByPrinter>>

\* open and fstat of the data file; a job whose file is not there is dropped.
OpenData ==
    /\ ppc = "open"
    /\ \/ /\ dataDir[jp.jobid] # None
          /\ fd' = dataDir[jp.jobid]
          /\ size' = Len(inode[fd'])
          /\ ppc' = "send"
          /\ UNCHANGED jp
       \/ /\ dataDir[jp.jobid] = None
          /\ jp' = None
          /\ ppc' = "test"
          /\ UNCHANGED <<fd, size>>
    /\ UNCHANGED <<jobfile, dataDir, reqDir, queue, sent, crashes, confirmed,
                   printed, unchangedByPrinter>>

\* The printer is connected to and sent the headers, with size as
\* Content-Length; read a chunk of the file and write it to the printer,
SendChunk ==
    /\ ppc = "send" /\ Len(sent) < Len(inode[fd])
    /\ sent' = Append(sent, inode[fd][Len(sent) + 1])
    /\ UNCHANGED <<jobfile, dataDir, reqDir, queue, ppc, jp, fd, size, crashes,
                   confirmed, printed, unchangedByPrinter>>

\* ... up to the end of the file.
SendEnd ==
    /\ ppc = "send" /\ Len(sent) >= Len(inode[fd])
    /\ ppc' = "status"
    /\ UNCHANGED <<jobfile, dataDir, reqDir, queue, jp, fd, size, sent,
                   crashes, confirmed, printed, unchangedByPrinter>>

\* printer_status: the printer has the job, as far as it answers that it does.
StatusOk ==
    /\ ppc = "status"
    /\ confirmed' = confirmed \cup {jp.job}
    /\ printed' = [printed EXCEPT ![jp.job] = sent]
    /\ ppc' = "undata"
    /\ UNCHANGED <<jobfile, dataDir, reqDir, queue, jp, fd, size, sent,
                   crashes, unchangedByPrinter>>

\* The printer cannot be contacted or written to, or does not answer OK.
PrinterFails ==
    /\ ppc \in {"send", "status"}
    /\ ppc' = "defer"
    /\ UNCHANGED <<jobfile, dataDir, reqDir, queue, jp, fd, size, sent,
                   crashes, confirmed, printed, unchangedByPrinter>>

\* Mutant: the file is not closed, the next attempt continues where this ended.
EndJobOpen ==
    /\ ppc' = "test"
    /\ jp' = None
    /\ UNCHANGED <<fd, size, sent>>

\* The end of an iteration: everything is closed.
EndJob ==
    /\ ppc' = "test"
    /\ jp' = None /\ fd' = None /\ size' = 0 /\ sent' = <<>>

\* The data file is unlinked, then the control file.
UnlinkPrinted ==
    /\ \/ /\ ppc = "undata"
          /\ dataDir' = [dataDir EXCEPT ![jp.jobid] = None]
          /\ ppc' = "unreq"
          /\ UNCHANGED <<reqDir, jp, fd, size, sent>>
       \/ /\ ppc = "unreq"
          /\ reqDir' = [reqDir EXCEPT ![jp.jobid] = None]
          /\ EndJob
          /\ UNCHANGED dataDir
    /\ UNCHANGED <<jobfile, queue, crashes, confirmed, printed,
                   unchangedByPrinter>>

\* Mutant: a job that failed is forgotten.
DeferDropping ==
    /\ ppc = "defer"
    /\ EndJob
    /\ UNCHANGED <<jobfile, dataDir, reqDir, queue, crashes, confirmed,
                   printed, unchangedByPrinter>>

\* Label defer: replace_job, and a minute of sleep.
Defer ==
    /\ ppc = "defer"
    /\ queue' = <<jp>> \o queue
    /\ EndJob
    /\ UNCHANGED <<jobfile, dataDir, reqDir, crashes, confirmed, printed,
                   unchangedByPrinter>>

Printer ==
    \/ GetJob \/ UpdateJobno \/ OpenData \/ SendChunk \/ SendEnd \/ StatusOk
    \/ PrinterFails \/ UnlinkPrinted \/ Defer

Main == Start \/ ReadRequest \/ PurgeData \/ SignalRequest \/ Serve

Next ==
    \/ Main \/ Stop \/ Printer \/ \E j \in Job : Client(j)

Spec == Init /\ [][Next]_vars

\* The threads run, and a printer that is asked again and again answers.
FairSpec ==
    /\ Spec
    /\ WF_vars(Main)
    /\ WF_vars(Printer)
    /\ \A n \in 0 .. MaxChunk : SF_vars(SendChunk /\ Len(sent) = n)
    /\ SF_vars(SendEnd)
    /\ SF_vars(StatusOk)
    /\ \A j \in Job : WF_vars(AddJob(j) \/ SignalJob(j))

-----------------------------------------------------------------------------

\* Type correctness of the spool and of the daemon's variables.
TypeOK ==
    /\ jobfile \in Nat /\ nextjob \in Nat \ {0}
    /\ dataDir \in [Number -> Job \cup {None}]
    /\ inode \in [Job -> Seq(Job)]
    /\ reqDir \in [Number -> Request \cup {None}]
    /\ mainpc \in {"down", "scan", "purge", "signal", "serve"}
    /\ scan \subseteq Number /\ entry \in Number \cup {None}
    /\ queue \in Seq(JobRec)
    /\ cpc \in [Job -> {"new", "creat", "copy", "writereq", "respond", "add",
                        "signal", "done", "unreq", "undata", "refused", "gone"}]
    /\ no \in [Job -> Number \cup {0}]
    /\ ppc \in {"off", "test", "blocked", "save", "open", "send", "status",
                "undata", "unreq", "defer"}
    /\ jp \in JobRec \cup {None}
    /\ fd \in Job \cup {None} /\ size \in Nat /\ sent \in Seq(Job)
    /\ crashes \in Nat
    /\ acked \subseteq Job /\ confirmed \subseteq Job /\ clash \subseteq Job
    /\ spooled \in [Job -> Seq(Job)] /\ printed \in [Job -> Seq(Job)]

\* Both files of job j are in the spool, with what was received for it.
Kept(j) ==
    /\ reqDir[no[j]] = [job |-> j, nr |-> "whole"]
    /\ dataDir[no[j]] # None
    /\ inode[dataDir[no[j]]] = spooled[j]

\* Where a pending job is in the memory of a daemon that is up: with its
\* client thread, in the queue, with the printer thread, or not read back yet.
Pending(j) ==
    \/ cpc[j] = "add"
    \/ \E i \in DOMAIN queue : queue[i] = [job |-> j, jobid |-> no[j]]
    \/ jp = [job |-> j, jobid |-> no[j]]
    \/ mainpc # "serve" /\ no[j] \in scan

\* A job that the client was told is accepted, and that the printer has not
\* confirmed, is whole in the spool directory whatever the daemon died of, and
\* a daemon that is up knows of it.  The exception are jobs that had to share
\* their number: update_jobno saves nextjob when a job is printed and not when it
\* is accepted, so that a daemon may start with a number that is in the spool.
AcknowledgedIsKept ==
    \A j \in (acked \ confirmed) \ clash :
       Kept(j) /\ (mainpc # "down" => Pending(j))

\* What a confirmed job sent to the printer is what its client's thread
\* received, although the file is read after the client is gone and perhaps by
\* a later daemon; and it has the length announced in the header.
PrintedAsSpooled ==
    /\ \A j \in confirmed \ clash : printed[j] = spooled[j]
    /\ ppc = "undata" /\ jp.job \notin clash => Len(sent) = size

\* The jobs of this daemon that are not done with, in the order of their turn.
Turns == IF jp = None THEN queue ELSE <<jp>> \o queue

\* No job is in the queue or with the printer thread twice, and none while its
\* client thread has still to add it: the queue is filled by the client threads and, after a
\* restart, from a directory whose files the printer thread is unlinking.
QueuedOnce ==
    /\ \A i, k \in DOMAIN Turns : Turns[i].job = Turns[k].job => i = k
    /\ \A i \in DOMAIN Turns : cpc[Turns[i].job] \in {"signal", "done", "gone"}

\* Jobs are served in the order in which they were accepted, and one that fails
\* keeps its turn: the list only grows at its end and shrinks at its front
\* while the daemon lives.
KeepsTurn ==
    [][ \/ Turns' = Turns \/ mainpc' = "down"
        \/ Turns # <<>> /\ Turns' = Tail(Turns)
        \/ \E r \in JobRec : Turns' = Append(Turns, r) ]_vars

\* An acknowledged job is printed in the end, through failing connections,
\* refusals of the printer and deaths of the daemon, unless it lost its number
\* to another job.
AcknowledgedIsPrinted ==
    \A j \in Job : j \in acked ~> j \in confirmed \cup clash

=============================================================================
