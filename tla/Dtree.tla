------------------------------- MODULE Dtree --------------------------------
(***************************************************************************)
(* tlpi-dist/inotify/inotify_dtree.c: a program that keeps a cache of the  *)
(* directories below its root directories up to date from inotify events,  *)
(* while another process creates, removes and renames directories.         *)
(*                                                                         *)
(* A directory is an i-node with a path; the ones below "out" are not      *)
(* monitored.  The kernel's part (watches, the event queue and its limit)  *)
(* and nftw are external.  The cache is the sequence of the used slots of  *)
(* wlCache, in the order in which they were filled.                        *)
(***************************************************************************)
EXTENDS Integers, Sequences, SequencesExt

CONSTANTS
    Root, Out,  \* names of the directories on the command line; another one
    Name,       \* names below them
    Ino,        \* i-nodes
    Trees,      \* file systems to start from: a path for each i-node
    None,
    MaxDepth,   \* bound: length of a path
    MaxOps,     \* bound: changes of the file system
    MaxQueue,   \* limit of the event queue, IN_Q_OVERFLOW not counted
    ReadMax,    \* events that fit the buffer of a read
    MaxRebuild  \* bound: commands that rebuild the cache

VARIABLES
    dir,        \* path of each i-node, <<>> if it is free
    pend,       \* IN_MOVED_TO still to be queued by a rename
    ops,        \* changes made so far
    watch,      \* kernel: i-node of each watch descriptor
    nextwd,     \* kernel: the next watch descriptor
    queue,      \* kernel: unread events
    pc,         \* "select", "read", "proc", "walk", "hang", "block" or "exit"
    buf,        \* events read and not processed
    firstTry,
    roots,      \* rootDirPaths
    cache,      \* wlCache
    walk,       \* paths nftw has still to look at, to visit or to list
    rebuilds,   \* commands so far
    raced       \* history: since the program last began to build the cache, a
                \* rename was made while it had not caught up, or nftw gave up

fs == <<dir, pend, ops>>
kernel == <<watch, nextwd, queue>>
vars == <<fs, kernel, pc, buf, firstTry, roots, cache, walk, rebuilds, raced>>

Path == {<<n>> \o q : n \in Root \cup {Out}, q \in UNION {[1 .. n -> Name] : n \in 0 .. MaxDepth - 1}}

Under(p, q) == IsPrefix(q, p)
Parent(p) == Front(p)
At(d, p) == {i \in Ino : d[i] = p}
Exists(p) == p = <<Out>> \/ At(dir, p) # {}
Monitored == {i \in Ino : dir[i] # <<>> /\ dir[i][1] \in roots}

Event(t, wd, name, cookie) == [type |-> t, wd |-> wd, name |-> name, cookie |-> cookie]
Overflow == Event("IN_Q_OVERFLOW", -1, None, 0)

\* External: the queue takes an event, unless it repeats the last one, or an
\* overflow event once.
Queued(q, e) ==
    IF q # <<>> /\ Last(q) = e THEN q
    ELSE IF Len(q) < MaxQueue THEN Append(q, e)
    ELSE IF q # <<>> /\ Last(q) = Overflow THEN q ELSE Append(q, Overflow)

\* External: the event for a watch on an i-node of the set, if there is one.
Notify(q, is, t, name, cookie) ==
    LET wds == {w \in DOMAIN watch : watch[w] \in is}
    IN  IF wds = {} THEN q
        ELSE Queued(q, Event(t, CHOOSE w \in wds : TRUE, name, cookie))

Entry(wd, p) == [wd |-> wd, path |-> p]
Wds == {cache[k].wd : k \in DOMAIN cache}
Paths == {cache[k].path : k \in DOMAIN cache}

\* The slot of a watch descriptor, 0 if it has none.
findWatch(wd) == SelectInSeq(cache, LAMBDA e : e.wd = wd)

CachedPath(wd) == cache[findWatch(wd)].path

\* markCacheSlotEmpty for every slot of the watch descriptors in S.
Without(S) == SelectSeq(cache, LAMBDA e : e.wd \notin S)

Unwatched(S) == Restrict(watch, DOMAIN watch \ S)

Quiet == pc \in {"select", "read"} /\ queue = <<>> /\ pend = <<>>

-----------------------------------------------------------------------------
\* External: what the other process does to the file system.

mkdir(p) ==
    /\ pend = <<>> /\ ops < MaxOps
    /\ p[1] # Out /\ Len(p) > 1 /\ Exists(Parent(p)) /\ ~ Exists(p)
    /\ \E i \in Ino :
          /\ dir[i] = <<>> /\ \A j \in Ino : dir[j] = <<>> => i <= j
          /\ dir' = [dir EXCEPT ![i] = p]
    /\ queue' = Notify(queue, At(dir, Parent(p)), "IN_CREATE", Last(p), 0)
    /\ ops' = ops + 1
    /\ UNCHANGED <<pend, watch, nextwd, pc, buf, firstTry, roots, cache, walk, rebuilds, raced>>

rmdir(i) ==
    /\ pend = <<>> /\ ops < MaxOps
    /\ dir[i] # <<>> /\ \A j \in Ino \ {i} : ~ Under(dir[j], dir[i])
    /\ dir' = [dir EXCEPT ![i] = <<>>]
    /\ LET wds == {w \in DOMAIN watch : watch[w] = i}
       IN  /\ queue' = Notify(Notify(queue, {i}, "IN_DELETE_SELF", None, 0),
                              {i}, "IN_IGNORED", None, 0)
           /\ watch' = Unwatched(wds)
    /\ ops' = ops + 1
    /\ UNCHANGED <<pend, nextwd, pc, buf, firstTry, roots, cache, walk, rebuilds, raced>>

\* A root directory only ever moves out; nothing replaces another directory.
rename(i, p) ==
    /\ pend = <<>> /\ ops < MaxOps
    /\ dir[i] # <<>> /\ Len(p) > 1 /\ Exists(Parent(p)) /\ ~ Exists(p)
    /\ ~ Under(p, dir[i])
    /\ Len(dir[i]) = 1 => p[1] = Out
    /\ dir[i][1] = Out => p[1] # Out
    /\ \A j \in Ino : Under(dir[j], dir[i]) =>
          Len(p) + Len(dir[j]) - Len(dir[i]) <= MaxDepth
    /\ dir' = [j \in Ino |-> IF Under(dir[j], dir[i])
                              THEN p \o SubSeq(dir[j], Len(dir[i]) + 1, Len(dir[j]))
                              ELSE dir[j]]
    /\ ops' = ops + 1
    /\ raced' = (raced \/ ~ Quiet)
    /\ \/ /\ Len(dir[i]) = 1
          /\ queue' = Notify(queue, {i}, "IN_MOVE_SELF", None, 0)
          /\ pend' = <<>>
       \/ /\ Len(dir[i]) > 1
          /\ queue' = Notify(queue, At(dir, Parent(dir[i])), "IN_MOVED_FROM",
                             Last(dir[i]), ops')
          /\ pend' = p
    /\ UNCHANGED <<watch, nextwd, pc, buf, firstTry, roots, cache, walk, rebuilds>>

\* The second event of a rename.
moved_to ==
    /\ pend # <<>>
    /\ queue' = Notify(queue, At(dir, Parent(pend)), "IN_MOVED_TO", Last(pend), ops)
    /\ pend' = <<>>
    /\ UNCHANGED <<dir, ops, watch, nextwd, pc, buf, firstTry, roots, cache, walk, rebuilds, raced>>

Change ==
    \/ \E p \in Path : mkdir(p)
    \/ \E i \in Ino : rmdir(i)
    \/ \E i \in Ino, p \in Path : rename(i, p)
    \/ moved_to

-----------------------------------------------------------------------------

\* The walk of nftw that watches the roots.
WatchRoots(rs) == LET s == SetToSeq(rs) IN [k \in DOMAIN s |-> <<"stat", <<s[k]>>>>]

\* A new inotify instance and an empty cache, to be filled from the roots; the
\* rest of the buffer is discarded.
reinitialize(rs) ==
    /\ watch' = <<>> /\ nextwd' = 1 /\ queue' = <<>>
    /\ cache' = <<>> /\ walk' = WatchRoots(rs)
    /\ buf' = <<>> /\ firstTry' = TRUE
    /\ pc' = "walk"
    /\ raced' = FALSE

Init ==
    /\ dir \in Trees
    /\ pend = <<>> /\ ops = 0
    /\ watch = <<>> /\ nextwd = 1 /\ queue = <<>>
    /\ pc = "walk" /\ buf = <<>> /\ firstTry = TRUE
    /\ roots = Root
    /\ cache = <<>> /\ walk = WatchRoots(Root)
    /\ rebuilds = 0 /\ raced = FALSE

\* External: nftw looks at the next path and passes over one that is gone.
lstat ==
    /\ pc = "walk" /\ walk # <<>> /\ walk[1][1] = "stat"
    /\ LET p == walk[1][2]
       IN  walk' = (IF Exists(p) THEN <<<<"visit", p>>>> ELSE <<>>) \o Tail(walk)
    /\ UNCHANGED <<fs, kernel, pc, buf, firstTry, roots, cache, rebuilds, raced>>

Visiting ==
    /\ pc = "walk" /\ walk # <<>> /\ walk[1][1] = "visit"
    /\ UNCHANGED <<fs, queue, pc, buf, firstTry, roots, rebuilds>>

\* nftw returns -1 because the directory went after lstat and before it was
\* opened: watchDir logs it, and the rest of the walk of this tree is left out.
nftw_fails ==
    /\ Visiting
    /\ LET p == walk[1][2]
       IN  /\ ~ Exists(p)
           /\ walk' = SelectSeq(Tail(walk), LAMBDA x : x[1] = "read" \/ x[2][1] # p[1])
    /\ raced' = (raced \/ walk' # Tail(walk))
    /\ UNCHANGED <<watch, nextwd, cache>>

\* inotify_add_watch fails with ENOENT.
add_watch_fails ==
    /\ Visiting
    /\ ~ Exists(walk[1][2])
    /\ walk' = Tail(walk)
    /\ UNCHANGED <<watch, nextwd, cache, raced>>

\* External: inotify_add_watch, which returns w.
inotify_add_watch(i, w) ==
    \/ w \in DOMAIN watch /\ watch[w] = i /\ UNCHANGED <<watch, nextwd>>
    \/ /\ \A v \in DOMAIN watch : watch[v] # i
       /\ w = nextwd
       /\ watch' = (w :> i) @@ watch
       /\ nextwd' = nextwd + 1

\* Mutant: the test of findWatch is missing.
traverseTreeUntested ==
    /\ Visiting
    /\ LET p == walk[1][2]
       IN  \E i \in At(dir, p), w \in 1 .. nextwd :
              /\ inotify_add_watch(i, w)
              /\ walk' = <<<<"list", p>>>> \o Tail(walk)
              /\ cache' = Append(cache, Entry(w, p))
    /\ UNCHANGED raced

\* traverseTree: watch the directory at the path and add it to the cache, unless
\* its watch descriptor is there.
traverseTree ==
    /\ Visiting
    /\ LET p == walk[1][2]
       IN  \E i \in At(dir, p), w \in 1 .. nextwd :
              /\ inotify_add_watch(i, w)
              /\ walk' = <<<<"list", p>>>> \o Tail(walk)
              /\ cache' = IF findWatch(w) # 0 THEN cache ELSE Append(cache, Entry(w, p))
    /\ UNCHANGED raced

\* External: nftw goes on with the subdirectories of a directory it has visited.
list ==
    /\ pc = "walk" /\ walk # <<>> /\ walk[1][1] = "list"
    /\ LET p == walk[1][2]
           sub == {q \in Path : Len(q) = Len(p) + 1 /\ Under(q, p) /\ Exists(q)}
       IN  \E s \in SetToSeqs(sub) :
              walk' = [k \in DOMAIN s |-> <<"stat", s[k]>>] \o Tail(walk)
    /\ UNCHANGED <<fs, kernel, pc, buf, firstTry, roots, cache, rebuilds, raced>>

\* Mutant: the end of the buffer is not noticed.
walkedOn ==
    /\ pc = "walk" /\ walk \in {<<>>, <<<<"read">>>>}
    /\ pc' = "proc"
    /\ walk' = <<>>
    /\ UNCHANGED <<fs, kernel, buf, firstTry, roots, cache, rebuilds, raced>>

\* The end of watchSubtree: on to the next event.
walked ==
    /\ pc = "walk" /\ walk \in {<<>>, <<<<"read">>>>}
    /\ pc' = IF walk # <<>> THEN "read" ELSE IF buf = <<>> THEN "select" ELSE "proc"
    /\ walk' = <<>>
    /\ UNCHANGED <<fs, kernel, buf, firstTry, roots, cache, rebuilds, raced>>

-----------------------------------------------------------------------------

\* processInotifyEvents: the first read.
read ==
    /\ pc \in {"select", "read"} /\ queue # <<>>
    /\ LET n == IF Len(queue) < ReadMax THEN Len(queue) ELSE ReadMax
       IN  buf' = SubSeq(queue, 1, n) /\ queue' = SubSeq(queue, n + 1, Len(queue))
    /\ firstTry' = TRUE
    /\ pc' = "proc"
    /\ UNCHANGED <<fs, watch, nextwd, roots, cache, walk, rebuilds, raced>>

\* The read with a timeout that follows an IN_MOVED_FROM at the end of the buffer
\* returns: with events, or, while the alarm is still to come, without.
ReadReturns ==
    /\ pc = "hang" \/ (pc = "block" /\ queue # <<>>)
    /\ buf' = buf \o queue /\ queue' = <<>>
    /\ pc' = "proc"
    /\ UNCHANGED <<fs, watch, nextwd, roots, cache, walk, rebuilds, raced>>

\* Mutant: firstTry is not cleared.
rereadForever == ReadReturns /\ UNCHANGED firstTry

reread == ReadReturns /\ firstTry' = FALSE

\* External: SIGALRM comes before read is called, which it will not interrupt.
alarm_early ==
    /\ pc = "hang"
    /\ pc' = "block"
    /\ UNCHANGED <<fs, kernel, buf, firstTry, roots, cache, walk, rebuilds, raced>>

\* Control after n events were consumed.
Consume(n) ==
    /\ buf' = SubSeq(buf, n + 1, Len(buf))
    /\ firstTry' = TRUE
    /\ pc' = IF n = Len(buf) THEN "select" ELSE "proc"

\* Processing an event about a watch descriptor that is in the cache.
Processing(types) ==
    /\ pc = "proc" /\ buf[1].type \in types /\ buf[1].wd \in Wds
    /\ UNCHANGED <<fs, rebuilds>>

EventPath == Append(CachedPath(buf[1].wd), buf[1].name)

\* A directory was created in or renamed into the tree: watchSubtree, unless
\* the path is in the cache.
on_create ==
    /\ Processing({"IN_CREATE", "IN_MOVED_TO"})
    /\ \/ /\ EventPath \in Paths
          /\ Consume(1)
          /\ UNCHANGED walk
       \/ /\ EventPath \notin Paths
          /\ buf' = Tail(buf) /\ firstTry' = TRUE
          /\ walk' = <<<<"stat", EventPath>>>>
          /\ pc' = "walk"
    /\ UNCHANGED <<kernel, roots, cache, raced>>

\* zapRootDirPath ends the program with the last root.
on_delete_self ==
    /\ Processing({"IN_DELETE_SELF"})
    /\ LET p == CachedPath(buf[1].wd)
       IN  /\ roots' = {n \in roots : <<n>> # p}
           /\ cache' = Without({buf[1].wd})
           /\ IF roots' = {} THEN pc' = "exit" /\ UNCHANGED <<buf, firstTry>>
              ELSE Consume(1)
    /\ UNCHANGED <<kernel, walk, raced>>

\* The watches of the entries are removed one by one, each with an IN_IGNORED;
\* if one is gone already, the cache is rebuilt.
zapSubtree(p, rs) ==
    LET zap == {cache[k].wd : k \in {j \in DOMAIN cache : Under(cache[j].path, p)}}
    IN  \/ /\ zap \subseteq DOMAIN watch
           /\ \E s \in SetToSeqs(zap) :
                 queue' = FoldLeft(LAMBDA q, w : Queued(q, Event("IN_IGNORED", w, None, 0)),
                                   queue, s)
           /\ watch' = Unwatched(zap)
           /\ cache' = Without(zap)
           /\ Consume(1)
           /\ UNCHANGED <<nextwd, walk, raced>>
        \/ /\ ~ zap \subseteq DOMAIN watch
           /\ reinitialize(rs)

\* Mutant: the paths below the renamed directory are left.
rewriteOnePath(p, q) ==
    cache' = [k \in DOMAIN cache |-> IF cache[k].path = p THEN Entry(cache[k].wd, q)
                                                          ELSE cache[k]]

\* rewriteCachedPaths for a rename, IN_MOVED_FROM with its IN_MOVED_TO.
rewriteCachedPaths(p, q) ==
    LET Renamed(r) == IF Under(r, p) THEN q \o SubSeq(r, Len(p) + 1, Len(r)) ELSE r
    IN  cache' = [k \in DOMAIN cache |-> Entry(cache[k].wd, Renamed(cache[k].path))]

Paired == Len(buf) > 1 /\ buf[2].type = "IN_MOVED_TO" /\ buf[2].cookie = buf[1].cookie

on_rename ==
    /\ Processing({"IN_MOVED_FROM"}) /\ Paired
    /\ UNCHANGED roots
    /\ \/ /\ buf[2].wd \notin Wds
          /\ reinitialize(roots)
       \/ /\ buf[2].wd \in Wds
          /\ rewriteCachedPaths(EventPath, Append(CachedPath(buf[2].wd), buf[2].name))
          /\ Consume(2)
          /\ UNCHANGED <<kernel, walk, raced>>

\* IN_MOVED_FROM without IN_MOVED_TO: moved out, or, at the end of the buffer
\* and the first time, to be looked at again after another read.
on_moved_from ==
    /\ Processing({"IN_MOVED_FROM"}) /\ ~ Paired
    /\ UNCHANGED roots
    /\ \/ /\ Len(buf) > 1 \/ ~ firstTry
          /\ zapSubtree(EventPath, roots)
       \/ /\ Len(buf) = 1 /\ firstTry
          /\ pc' = "hang"
          /\ UNCHANGED <<kernel, buf, firstTry, cache, walk, raced>>

\* A root was moved: it is not monitored any more.  Only the watch of a root
\* reports it, and only the first time is its path still one of a root.
on_move_self ==
    /\ Processing({"IN_MOVE_SELF"})
    /\ LET p == CachedPath(buf[1].wd)
       IN  /\ p \in {<<n>> : n \in roots}
           /\ roots' = roots \ {p[1]}
           /\ IF roots' = {}
              THEN pc' = "exit" /\ UNCHANGED <<kernel, buf, firstTry, cache, walk, raced>>
              ELSE zapSubtree(p, roots \ {p[1]})

on_ignored ==
    /\ pc = "proc" /\ buf[1].type = "IN_IGNORED"
    /\ Consume(1)
    /\ UNCHANGED <<fs, kernel, roots, cache, walk, rebuilds, raced>>

\* An unknown watch descriptor or a queue overflow: start all over.
on_lost ==
    /\ pc = "proc" /\ buf[1].type # "IN_IGNORED" /\ buf[1].wd \notin Wds
    /\ reinitialize(roots)
    /\ UNCHANGED <<fs, roots, rebuilds>>

Process ==
    \/ on_create \/ on_delete_self \/ on_rename \/ on_moved_from
    \/ on_move_self \/ on_ignored \/ on_lost

\* executeCommand "0".  If select reported events too, the program goes on to
\* read, from the new instance.
rebuild ==
    /\ pc = "select" /\ rebuilds < MaxRebuild
    /\ rebuilds' = rebuilds + 1
    /\ walk' = WatchRoots(roots) \o (IF queue = <<>> THEN <<>> ELSE <<<<"read">>>>)
    /\ watch' = <<>> /\ nextwd' = 1 /\ queue' = <<>> /\ cache' = <<>>
    /\ pc' = "walk"
    /\ raced' = FALSE
    /\ UNCHANGED <<fs, buf, firstTry, roots>>

Walk == lstat \/ nftw_fails \/ add_watch_fails \/ traverseTree \/ list \/ walked

Monitor == Walk \/ read \/ reread \/ Process

Next == (pc # "exit" /\ Change) \/ Monitor \/ alarm_early \/ rebuild

Spec == Init /\ [][Next]_vars

\* The program runs; the other process need not do anything.
FairSpec == Spec /\ WF_vars(Monitor) /\ WF_vars(moved_to)

-----------------------------------------------------------------------------

\* Type correctness.
TypeOK ==
    /\ dir \in [Ino -> Path \cup {<<>>}] /\ pend \in Path \cup {<<>>}
    /\ pc \in {"select", "read", "proc", "walk", "hang", "block", "exit"}
    /\ DOMAIN watch \subseteq 1 .. nextwd - 1
    /\ \A w \in DOMAIN watch : dir[watch[w]] # <<>>
    /\ Wds \subseteq 1 .. nextwd - 1
    /\ Len(queue) <= MaxQueue + 1
    /\ roots \subseteq Root
    /\ pc = "proc" => buf # <<>>

\* What is still to be read or processed tells that the watch is gone.
Announced(wd) ==
    \E e \in Range(buf \o queue) : e = Overflow \/ (e.type = "IN_DELETE_SELF" /\ e.wd = wd)

\* However directories were moved in front of or behind a walk, and also where
\* the paths are wrong: each watch of the kernel has one slot, so that its events
\* can be placed and none is acted on twice (a second slot "would leave the cache
\* in a confused state"), and a slot outlives its watch only while the event
\* that will empty it, or an overflow, is still to be processed.
SlotsMatchWatches ==
    /\ \A j, k \in DOMAIN cache : cache[j].wd = cache[k].wd => j = k
    /\ DOMAIN watch \subseteq Wds
    /\ \A w \in Wds \ DOMAIN watch : Announced(w)

\* The cache holds exactly the directories below the roots, each under its
\* present path and with a live watch.
SameAsTree ==
    /\ Wds = DOMAIN watch
    /\ \A k \in DOMAIN cache : cache[k].path = dir[watch[cache[k].wd]]
    /\ Paths = {dir[i] : i \in Monitored}

\* When no event is outstanding the cache agrees with the file system, however
\* creations and removals fell between the steps of a walk and the reads, after
\* an overflow of the queue, after a rename whose events were not read together,
\* and after every rebuild.  Excepted (raced): a rename that was made before the
\* program had caught up, and a walk that nftw gave up with directories left.
Consistent == Quiet /\ ~ raced => SameAsTree

\* Once the file system is left alone the program comes to rest: neither the
\* second read for an IN_MOVED_FROM nor the rebuilding of the cache repeats
\* itself for ever.  Excepted: the alarm came before the read it was set for,
\* and the program waits for another event with the IN_MOVED_FROM unprocessed.
CatchesUp ==
    <>[](Quiet \/ pc = "exit" \/ (pc = "block" /\ queue = <<>> /\ pend = <<>>))

=============================================================================
