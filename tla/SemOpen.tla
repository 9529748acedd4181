------------------------------ MODULE SemOpen -------------------------------
(***************************************************************************)
(* How mysem_open of unpv22e/my_pxsem_mmap creates a semaphore that        *)
(* several processes open at once, and testsem.c, whose threads do that.   *)
(*                                                                         *)
(* The semaphore is a file.  The process that creates it with O_EXCL sets  *)
(* the user-execute bit, initializes the file and turns the bit off; the   *)
(* others open the file and poll the bit.  One system call is one action.  *)
(* File is the set of files that can be created; the directory entry       *)
(* pathname refers to one of them or to none, and a file lives on for its  *)
(* openers when its entry is gone.                                         *)
(***************************************************************************)
EXTENDS Integers, FiniteSets

CONSTANTS
    Proc,       \* the callers of mysem_open
    File,       \* bound: the files created in a behaviour
    NoFile,
    MaxTries,   \* MAX_TRIES
    Value,      \* initval
    NWaits      \* nwaits: decrements of a caller that has the semaphore

ASSUME SemOpenAssumption ==
    /\ IsFiniteSet(Proc) /\ NoFile \notin File
    /\ MaxTries \in Nat \ {0} /\ Value \in Nat /\ NWaits \in Nat

VARIABLES
    entry,      \* the file pathname refers to
    unused,     \* files not created yet
    xusr,       \* files with S_IXUSR set
    count,      \* sem_count of each file; -1 until it is initialized
    oflag,      \* "creat": O_CREAT; "excl": O_CREAT | O_EXCL; "open": neither
    label,      \* the label each process is at
    fd,         \* the file each process has open
    created,    \* processes that created their file
    tries,      \* i of the polling loop
    left,       \* decrements each process has to do
    unlinked    \* mysem_unlink was called (bound: once)

fileVars == <<entry, unused, xusr, count>>
procVars == <<oflag, fd, created, tries, left, unlinked>>
openVars == <<fileVars, label, procVars>>

Uninitialized == -1

GotoLabel(p, l) == label' = [label EXCEPT ![p] = l]

OpenInit ==
    /\ entry = NoFile
    /\ unused = File
    /\ xusr = {}
    /\ count = [f \in File |-> Uninitialized]
    /\ oflag \in [Proc -> {"creat", "excl", "open"}]
    /\ label = [p \in Proc |-> IF oflag[p] = "open" THEN "exists" ELSE "again"]
    /\ fd = [p \in Proc |-> NoFile]
    /\ created = {}
    /\ tries = [p \in Proc |-> 0]
    /\ left = [p \in Proc |-> NWaits]
    /\ unlinked = FALSE

-----------------------------------------------------------------------------

\* The entry is made for a new file with S_IXUSR set; it does not matter which.
NewFile(p) ==
    /\ unused # {}
    /\ LET f == CHOOSE f \in unused : TRUE
       IN  /\ entry' = f
           /\ unused' = unused \ {f}
           /\ xusr' = xusr \cup {f}
           /\ fd' = [fd EXCEPT ![p] = f]
    /\ created' = created \cup {p}
    /\ GotoLabel(p, "init")

\* Mutant: a file that is initialized is replaced.
CreateReplacing(p) ==
    /\ label[p] = "again"
    /\ \/ entry \notin xusr /\ NewFile(p)
       \/ /\ entry \in xusr
          /\ GotoLabel(p, IF oflag[p] = "creat" THEN "exists" ELSE "failed")
          /\ UNCHANGED <<entry, unused, xusr, fd, created>>
    /\ UNCHANGED <<count, oflag, tries, left, unlinked>>

\* Mutant: O_EXCL is missing, an existing file is initialized again.
CreateShared(p) ==
    /\ label[p] = "again"
    /\ \/ entry = NoFile /\ NewFile(p)
       \/ /\ entry # NoFile
          /\ fd' = [fd EXCEPT ![p] = entry]
          /\ GotoLabel(p, "init")
          /\ UNCHANGED <<entry, unused, xusr, created>>
    /\ UNCHANGED <<count, oflag, tries, left, unlinked>>

\* open with O_CREAT | O_EXCL.
Create(p) ==
    /\ label[p] = "again"
    /\ \/ entry = NoFile /\ NewFile(p)
       \/ /\ entry # NoFile
          /\ GotoLabel(p, IF oflag[p] = "creat" THEN "exists" ELSE "failed")
          /\ UNCHANGED <<entry, unused, xusr, fd, created>>
    /\ UNCHANGED <<count, oflag, tries, left, unlinked>>

\* The file is written and mapped; mutex, condition variable and count are set.
Initialize(p) ==
    /\ label[p] = "init"
    /\ count' = [count EXCEPT ![fd[p]] = Value]
    /\ GotoLabel(p, "chmod")
    /\ UNCHANGED <<entry, unused, xusr, procVars>>

\* fchmod, and mysem_open returns.
Fchmod(p) ==
    /\ label[p] = "chmod"
    /\ xusr' = xusr \ {fd[p]}
    /\ GotoLabel(p, "opened")
    /\ UNCHANGED <<entry, unused, count, procVars>>

\* One of the calls of the creator fails.
InitFails(p) ==
    /\ label[p] \in {"init", "chmod"}
    /\ GotoLabel(p, "err")
    /\ UNCHANGED <<fileVars, procVars>>

\* Where ENOENT leads.
Gone(p) == IF oflag[p] = "creat" THEN "again" ELSE "err"

\* Label exists: open the file and map it.
Exists(p) ==
    /\ label[p] = "exists"
    /\ \/ /\ entry # NoFile
          /\ fd' = [fd EXCEPT ![p] = entry]
          /\ tries' = [tries EXCEPT ![p] = 0]
          /\ GotoLabel(p, "poll")
       \/ /\ entry = NoFile
          /\ GotoLabel(p, Gone(p))
          /\ UNCHANGED <<fd, tries>>
    /\ UNCHANGED <<fileVars, oflag, created, left, unlinked>>

\* Mutant: the bit is not looked at.
InitializationDoneAlways == TRUE

\* The bit of the file that pathname refers to now.
InitializationDone == entry \notin xusr

\* Mutant: there is no limit to the rounds.
PollForever(p) ==
    /\ label[p] = "poll"
    /\ GotoLabel(p, IF entry = NoFile THEN Gone(p)
               ELSE IF InitializationDone THEN "opened" ELSE "poll")
    /\ UNCHANGED <<fileVars, procVars>>

\* One round of the loop that waits for the initialization; after MaxTries
\* rounds the call fails.
Poll(p) ==
    /\ label[p] = "poll"
    /\ tries' = [tries EXCEPT ![p] = @ + 1]
    /\ GotoLabel(p, IF entry = NoFile THEN Gone(p)
               ELSE IF InitializationDone THEN "opened"
               ELSE IF tries'[p] = MaxTries THEN "err" ELSE "poll")
    /\ UNCHANGED <<fileVars, oflag, fd, created, left, unlinked>>

\* Mutant: nothing is removed.
CleanUpLeavesFile(p) ==
    /\ label[p] = "err"
    /\ GotoLabel(p, "failed")
    /\ UNCHANGED <<fileVars, procVars>>

\* Mutant: "created" is not tested.
CleanUpAlways(p) ==
    /\ label[p] = "err"
    /\ entry' = NoFile
    /\ GotoLabel(p, "failed")
    /\ UNCHANGED <<unused, xusr, count, procVars>>

\* Label err: the creator removes the file.
CleanUp(p) ==
    /\ label[p] = "err"
    /\ entry' = IF p \in created THEN NoFile ELSE entry
    /\ GotoLabel(p, "failed")
    /\ UNCHANGED <<unused, xusr, count, procVars>>

\* Mysem_wait of testsem.c; it blocks at 0.
Wait(p) ==
    /\ label[p] = "opened" /\ left[p] > 0
    /\ count[fd[p]] > 0
    /\ count' = [count EXCEPT ![fd[p]] = @ - 1]
    /\ left' = [left EXCEPT ![p] = @ - 1]
    /\ UNCHANGED <<entry, unused, xusr, label, oflag, fd, created, tries, unlinked>>

\* mysem_unlink by some other process.
Unlink ==
    /\ entry # NoFile /\ ~ unlinked
    /\ entry' = NoFile
    /\ unlinked' = TRUE
    /\ UNCHANGED <<unused, xusr, count, label, oflag, fd, created, tries, left>>

\* The process is killed.
Kill(p) ==
    /\ label[p] \notin {"failed", "dead"}
    /\ GotoLabel(p, "dead")
    /\ UNCHANGED <<fileVars, procVars>>

OpenStep(p) ==
    \/ Create(p) \/ Initialize(p) \/ Fchmod(p)
    \/ Exists(p) \/ Poll(p) \/ CleanUp(p)

Returned(p) == label[p] \in {"opened", "failed", "dead"}

\* All calls have returned and all waits are done; a wait for a semaphore that
\* is not initialized never ends.
Done ==
    /\ \A p \in Proc : Returned(p)
    /\ \A p \in Proc : label[p] = "opened" =>
          left[p] = 0 \/ count[fd[p]] = Uninitialized
    /\ UNCHANGED openVars

\* Calls of the creator may fail, processes may be killed at any point and the
\* semaphore may be unlinked while processes open it.
OpenNext ==
    \/ Done \/ Unlink
    \/ \E p \in Proc : OpenStep(p) \/ InitFails(p) \/ Wait(p) \/ Kill(p)

\* Every process that is alive is scheduled.
OpenFairness == \A p \in Proc : WF_openVars(OpenStep(p))

OpenSpec == OpenInit /\ [][OpenNext]_openVars /\ OpenFairness

-----------------------------------------------------------------------------

\* The variables have their types.
OpenTypeOK ==
    /\ entry \in File \cup {NoFile}
    /\ unused \subseteq File /\ xusr \subseteq File
    /\ count \in [File -> {Uninitialized} \cup 0..Value]
    /\ label \in [Proc -> {"again", "init", "chmod", "exists", "poll", "err",
                       "opened", "failed", "dead"}]
    /\ fd \in [Proc -> File \cup {NoFile}]
    /\ created \subseteq Proc
    /\ tries \in [Proc -> 0..MaxTries]
    /\ left \in [Proc -> 0..NWaits]
    /\ unlinked \in BOOLEAN

\* The error path of some creator has removed its file, or mysem_unlink has.
Removed == unlinked \/ \E p \in created : label[p] = "failed"

\* testsem.c lets its threads "try and hit any possible race conditions in
\* mysem_open()".  Unless a file was removed, a caller that gets the semaphore
\* finds mutex, condition variable and count initialized, also when the creator
\* was killed on the way.  (The loop polls the bit through the name: once the
\* name refers to another file the bit says nothing of the file that is open.)
InitializedUnlessRemoved ==
    Removed \/ \A p \in Proc : label[p] = "opened" => count[fd[p]] # Uninitialized

\* Unless a file was removed, all callers that succeed get the same semaphore.
SameUnlessRemoved ==
    Removed \/ \A p, q \in Proc :
                  label[p] = "opened" /\ label[q] = "opened" => fd[p] = fd[q]

\* The decrements of f: those of a process are numbered by what was left before.
Decrements(f) ==
    {w \in Proc \X (1 .. NWaits) : fd[w[1]] = f /\ left[w[1]] < w[2]}

\* testsem.c: "final values should be" the initial value less the waits.  The
\* count is set once, before any caller uses it, so no decrement is lost.
NoLostDecrement ==
    \A f \in File : count[f] # Uninitialized =>
       count[f] = Value - Cardinality(Decrements(f))

\* A caller that fails removes no file but the one it created, unless that one
\* was unlinked before (the error path unlinks by name).
RemovesOnlyItsOwn ==
    [][\A p \in Proc :
          label[p] = "err" /\ label'[p] = "failed" /\ entry' # entry
             => unlinked \/ (entry = fd[p] /\ p \in created)]_openVars

\* A file with the bit set under pathname has a creator that is still at work
\* on it or was killed: no failure leaves behind a file that makes all later
\* callers time out.
BitHasCreator ==
    entry \in xusr =>
       \E p \in created :
          fd[p] = entry /\ label[p] \in {"init", "chmod", "err", "dead"}

\* mysem_open returns: the creator's failure or death does not hang the others.
OpenReturns == \A p \in Proc : <>Returned(p)
=============================================================================
