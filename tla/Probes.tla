------------------------------- MODULE Probes -------------------------------
(***************************************************************************)
(* The in-kernel half of repx: the eBPF tracepoint programs of             *)
(* repx-ebpf/src/main.rs, the maps they share, and the tasks of the kernel *)
(* that trip them.  Each probe runs to completion on the CPU of the task   *)
(* that trips it, so one probe is one action; what really interleaves is   *)
(* the probes of different tasks, the read and the write inside            *)
(* record_drop, the two submissions of one rename, and userspace draining  *)
(* the ring.                                                               *)
(*                                                                         *)
(* The kernel (task table, thread groups, PID reuse) is external: it is    *)
(* modelled only as far as the probes can tell its behaviours apart.       *)
(***************************************************************************)
EXTENDS Integers, Sequences, FiniteSets

CONSTANTS
  Pids,              \* task ids: one number space for PIDs and thread ids
  Root,              \* the traced command, the only key of ROOT_PID
  Fds,               \* descriptor numbers
  PathClasses,       \* what the probes can tell of a path, see PathClass
  Workload,          \* the file operations tasks issue in this instance
  WatchMode,         \* WATCH_MODE: externals on watched prefixes are recorded
  CloneExitAttached, \* sys_exit_clone/clone3 attached (best effort)
  LeaderMayExitFirst,\* a group leader may exit before its other threads
  RootPidRecycled,   \* the root's PID may be given to another process
  RingCap,           \* capacity of EVENTS, in events
  TrackedCap,        \* capacity of TRACKED_PIDS
  StashCap,          \* capacity of each stash map
  WatchedFdCap,      \* capacity of WATCHED_FDS
  MaxLost            \* bound: record_drop calls in one behaviour

\* abs: begins with "/".  raw: its bytes begin with a watched prefix.
\* under: the file it names really lies under a watched directory.
PathClass == [abs : BOOLEAN, raw : BOOLEAN, under : BOOLEAN]

FileOps == {"openat", "rename", "unlink", "close", "mmap"}

ASSUME ConstantsOK ==
  /\ Root \in Pids
  /\ PathClasses \subseteq PathClass
  /\ Workload \subseteq FileOps
  /\ {WatchMode, CloneExitAttached, LeaderMayExitFirst, RootPidRecycled}
        \subseteq BOOLEAN
  /\ RingCap \in Nat /\ TrackedCap \in Nat /\ StashCap \in Nat
  /\ WatchedFdCap \in Nat /\ MaxLost \in Nat

VARIABLES
  \* --- the kernel (external) ---
  state,         \* "free": unused id, "run": a task, "dead": unreaped leader
  tg,            \* thread-group id of each task
  sc,            \* the probed call a task is inside of
  child,         \* what the clone a task is inside of will return
  \* --- the maps ---
  TRACKED_PIDS,
  OPENAT_STASH,  \* from_watch of each task's entry; "none": no entry
  PATH_OP_STASH, \* with the entries of PATH_OP_OLD_PATH and _NEW_PATH
  WATCHED_FDS,   \* pairs <<tgid, fd>>
  EVENTS,        \* the ring buffer
  DROP_COUNT,
  \* --- a task inside record_drop ---
  owed,          \* record_drop calls the task's probe still has to make
  rd,            \* the count it read and has not yet written back
  \* --- history, not read by any probe ---
  ours,          \* the task descends from the traced command
  due,           \* the source an event of the call in flight should have
  lost,          \* record_drop calls made
  missed,        \* sources of calls that left neither event nor drop
  mishaps        \* turns that TRACKED_PIDS does not follow, see Mishaps

kernelVars == <<state, tg, mishaps>>
callVars == <<sc, child, due>>
mapVars == <<TRACKED_PIDS, OPENAT_STASH, PATH_OP_STASH, WATCHED_FDS, EVENTS>>
dropVars == <<owed, rd, DROP_COUNT, lost>>
vars == <<kernelVars, callVars, mapVars, dropVars, ours, missed>>

\* Event.source and from_watch: 0 is "tree", 1 is "watch".
Source == {"tree", "watch"}
SourceOrNone == Source \cup {"none"}

\* What the probes decide about an event; which call it reports and what of it
\* is the matter of Collector.  ours is history, userspace cannot see it.
Event == [source : Source, ours : BOOLEAN]

NotRead == -1

\* What can part TRACKED_PIDS from the tree: a task exits before the clone that
\* made it has returned to its parent; a leader exits before its threads; a
\* stranger under the root's PID calls execve.
Mishaps == {"child_first", "leader_first", "root_exec"}

Calls == {"none", "openat", "rename", "rename_emit", "unlink", "clone", "exit"}

KernelTypeOK ==
  /\ state \in [Pids -> {"free", "run", "dead"}]
  /\ tg \in [Pids -> Pids]
  /\ ours \in [Pids -> BOOLEAN]
CallTypeOK ==
  /\ sc \in [Pids -> Calls]
  /\ child \in [Pids -> Pids]
  /\ due \in [Pids -> SourceOrNone]
StashTypeOK ==
  /\ OPENAT_STASH \in [Pids -> SourceOrNone]
  /\ PATH_OP_STASH \in [Pids -> SourceOrNone]
RingTypeOK ==
  /\ EVENTS \in Seq(Event)
  /\ Len(EVENTS) <= RingCap
DropTypeOK ==
  /\ DROP_COUNT \in Nat
  /\ owed \in [Pids -> Nat]
  /\ rd \in [Pids -> Nat \cup {NotRead}]
  /\ lost \in Nat
TypeOK ==
  /\ KernelTypeOK
  /\ CallTypeOK
  /\ TRACKED_PIDS \subseteq Pids
  /\ StashTypeOK
  /\ WATCHED_FDS \subseteq Pids \X Fds
  /\ RingTypeOK
  /\ DropTypeOK
  /\ missed \subseteq Source
  /\ mishaps \subseteq Mishaps

\* Userspace registers the stopped child in ROOT_PID and TRACKED_PIDS, then
\* resumes it; WATCH_MODE is populated before it is spawned.
Init ==
  /\ state = [p \in Pids |-> IF p = Root THEN "run" ELSE "free"]
  /\ tg = [p \in Pids |-> p]
  /\ sc = [p \in Pids |-> "none"]
  /\ child = [p \in Pids |-> p]
  /\ TRACKED_PIDS = {Root}
  /\ OPENAT_STASH = [p \in Pids |-> "none"]
  /\ PATH_OP_STASH = [p \in Pids |-> "none"]
  /\ WATCHED_FDS = {}
  /\ EVENTS = <<>>
  /\ DROP_COUNT = 0
  /\ owed = [p \in Pids |-> 0]
  /\ rd = [p \in Pids |-> NotRead]
  /\ ours = [p \in Pids |-> p = Root]
  /\ due = [p \in Pids |-> "none"]
  /\ lost = 0
  /\ missed = {}
  /\ mishaps = {}

-----------------------------------------------------------------------------
(* Helpers of the probes.                                                  *)

is_tracked(tgid) == tgid \in TRACKED_PIDS

\* Mutant: the result of the insert is ignored and the insert left out.
TracksNothing(p) == TRACKED_PIDS
\* Mutants: the entry survives; the group is removed with each thread.
UntracksNothing(p) == TRACKED_PIDS
UntracksGroup(p) == TRACKED_PIDS \ {tg[p]}

SourceOf(t) == IF is_tracked(tg[t]) THEN "tree" ELSE "watch"

\* HashMap::insert fails on a full map unless the key is there already.
TrackFails(p) == p \notin TRACKED_PIDS /\ Cardinality(TRACKED_PIDS) >= TrackedCap
track_pid(p) == IF TrackFails(p) THEN TRACKED_PIDS ELSE TRACKED_PIDS \cup {p}
untrack_pid(p) == TRACKED_PIDS \ {p}

OpenatFull ==
  Cardinality({t \in Pids : OPENAT_STASH[t] # "none"}) >= StashCap
OldPathFull ==
  Cardinality({t \in Pids : PATH_OP_STASH[t] # "none"}) >= StashCap
NewPathFull ==
  Cardinality({t \in Pids : /\ PATH_OP_STASH[t] # "none"
                            /\ sc[t] \in {"rename", "rename_emit"}}) >= StashCap

Num(b) == IF b THEN 1 ELSE 0

\* Mutant: one event more than the buffer holds.
RingOverfull == Len(EVENTS) > RingCap
RingFull == Len(EVENTS) >= RingCap

Submit(t, source) ==
  EVENTS' = IF RingFull THEN EVENTS
            ELSE Append(EVENTS, [source |-> source, ours |-> ours[t]])

\* The probe of t calls record_drop n times before t leaves the probe.
Charge(t, n) ==
  /\ lost + n <= MaxLost
  /\ lost' = lost + n
  /\ owed' = [owed EXCEPT ![t] = n]
  /\ UNCHANGED <<rd, DROP_COUNT>>

\* History: a call that should have left an event was ignored by its probe.
Ignored(source) == missed' = missed \cup ({source} \cap Source)
Noticed == UNCHANGED missed

TreeDue(t) == IF ours[t] THEN "tree" ELSE "none"
\* An external modification under a watched directory.
WatchDue(t, under) ==
  IF ours[t] THEN "tree" ELSE IF WatchMode /\ under THEN "watch" ELSE "none"

Running(t) == state[t] = "run" /\ owed[t] = 0
Idle(t) == Running(t) /\ sc[t] = "none"
Live(t) == state[t] = "run" /\ sc[t] # "exit"

\* History: the mishaps in an exit of t, and in an execve under the PID p.
LeaderFirst(t) == \E u \in Pids \ {t} : Live(u) /\ tg[u] = t
ChildFirst(t) == \E u \in Pids : sc[u] = "clone" /\ child[u] = t
ExitMishaps(t) ==
  {m \in {"child_first", "leader_first"} :
     ours[t] /\ (IF m = "leader_first" THEN LeaderFirst(t) ELSE ChildFirst(t))}
ExecMishaps(p) == {m \in {"root_exec"} : p = Root /\ ~ours[p]}

Enter(t, call, d) ==
  /\ sc' = [sc EXCEPT ![t] = call]
  /\ due' = [due EXCEPT ![t] = d]
  /\ UNCHANGED child
Return(t) ==
  /\ sc' = [sc EXCEPT ![t] = "none"]
  /\ due' = [due EXCEPT ![t] = "none"]
  /\ child' = [child EXCEPT ![t] = t]

\* A new task c in the group g, and the release of task id t.
Create(c, g, mine) ==
  /\ state' = [state EXCEPT ![c] = "run"]
  /\ tg' = [tg EXCEPT ![c] = g]
  /\ ours' = [ours EXCEPT ![c] = mine]
Release(t) ==
  /\ state' = [state EXCEPT ![t] = "free"]
  /\ tg' = [tg EXCEPT ![t] = t]
  /\ ours' = [ours EXCEPT ![t] = FALSE]
\* The last thread t of a group takes over the id p of its dead leader.
TakeOver(t, p) ==
  /\ state' = [state EXCEPT ![t] = "free", ![p] = "run"]
  /\ tg' = [tg EXCEPT ![t] = t]
  /\ ours' = [ours EXCEPT ![t] = FALSE]
-----------------------------------------------------------------------------
(* openat                                                                  *)

\* Mutant: relative writes are filtered on the raw path as well.
KeepsMatchesOnly(t, path, write, readable) ==
  is_tracked(tg[t]) \/ (WatchMode /\ readable /\ path.raw)

\* Untracked tasks are filtered on the raw path: reads always, writes when
\* the path is absolute.  An unreadable path is the empty path here.
KeepsOpenat(t, path, write, readable) ==
  \/ is_tracked(tg[t])
  \/ /\ WatchMode
     /\ \/ write /\ ~(readable /\ path.abs)
        \/ readable /\ path.raw

OpenatEnter(t, path, write, readable) ==
  LET keeps == KeepsOpenat(t, path, write, readable)
  IN  /\ "openat" \in Workload
      /\ Idle(t)
      /\ Charge(t, Num(keeps /\ OpenatFull))
      /\ Enter(t, "openat", IF keeps /\ OpenatFull THEN "none"
                            ELSE WatchDue(t, write /\ path.under))
      /\ OPENAT_STASH' = IF keeps /\ ~OpenatFull
                         THEN [OPENAT_STASH EXCEPT ![t] = SourceOf(t)]
                         ELSE OPENAT_STASH
      /\ Noticed
      /\ UNCHANGED <<kernelVars, ours, TRACKED_PIDS, PATH_OP_STASH,
                     WATCHED_FDS, EVENTS>>

\* Mutant: a failed call returns before the entry is removed.
OpenatFailsEarly(t) ==
  /\ Running(t) /\ sc[t] = "openat"
  /\ Return(t)
  /\ UNCHANGED <<kernelVars, mapVars, dropVars, ours, missed>>

OpenatFails(t) ==
  /\ Running(t) /\ sc[t] = "openat"
  /\ OPENAT_STASH' = [OPENAT_STASH EXCEPT ![t] = "none"]
  /\ Return(t)
  /\ UNCHANGED <<kernelVars, dropVars, ours, missed, TRACKED_PIDS,
                 PATH_OP_STASH, WATCHED_FDS, EVENTS>>

\* The call returns descriptor fd; a watch-mode descriptor is remembered.
OpenatExit(t, fd) ==
  LET stash == OPENAT_STASH[t]
      key == <<tg[t], fd>>
      fdFails == /\ stash = "watch"
                 /\ key \notin WATCHED_FDS
                 /\ Cardinality(WATCHED_FDS) >= WatchedFdCap
  IN  /\ Running(t) /\ sc[t] = "openat"
      /\ \/ /\ stash = "none"
            /\ Ignored(due[t])
            /\ UNCHANGED <<EVENTS, WATCHED_FDS, dropVars>>
         \/ /\ stash # "none"
            /\ Submit(t, stash)
            /\ WATCHED_FDS' = IF stash = "watch" /\ ~fdFails
                              THEN WATCHED_FDS \cup {key} ELSE WATCHED_FDS
            /\ Charge(t, Num(RingFull) + Num(fdFails))
            /\ Noticed
      /\ OPENAT_STASH' = [OPENAT_STASH EXCEPT ![t] = "none"]
      /\ Return(t)
      /\ UNCHANGED <<kernelVars, ours, TRACKED_PIDS, PATH_OP_STASH>>
-----------------------------------------------------------------------------
(* rename, renameat, renameat2, unlink, unlinkat                           *)

\* stash_rename: both paths are read and stored whatever became of the other
\* one, each failure a drop; only then are external calls filtered.  A stash
\* entry has one entry in PATH_OP_OLD_PATH (and in _NEW_PATH if a rename), of
\* equal capacity, so the last insert cannot fail once these have succeeded.
RenameEnter(t, old, new, oldReadable, newReadable) ==
  LET seen == is_tracked(tg[t]) \/ WatchMode
      drops == Num(~oldReadable \/ OldPathFull) + Num(~newReadable \/ NewPathFull)
      filtered == /\ ~is_tracked(tg[t])
                  /\ old.abs /\ new.abs /\ ~old.raw /\ ~new.raw
  IN  /\ "rename" \in Workload
      /\ Idle(t)
      /\ Charge(t, IF seen THEN drops ELSE 0)
      /\ Enter(t, "rename", IF seen /\ drops > 0 THEN "none"
                            ELSE WatchDue(t, old.under \/ new.under))
      /\ PATH_OP_STASH' = IF seen /\ drops = 0 /\ ~filtered
                          THEN [PATH_OP_STASH EXCEPT ![t] = SourceOf(t)]
                          ELSE PATH_OP_STASH
      /\ Noticed
      /\ UNCHANGED <<kernelVars, ours, TRACKED_PIDS, OPENAT_STASH,
                     WATCHED_FDS, EVENTS>>

\* stash_unlink
UnlinkEnter(t, path, readable) ==
  LET seen == is_tracked(tg[t]) \/ WatchMode
      drops == Num(~readable \/ OldPathFull)
      filtered == ~is_tracked(tg[t]) /\ path.abs /\ ~path.raw
  IN  /\ "unlink" \in Workload
      /\ Idle(t)
      /\ Charge(t, IF seen THEN drops ELSE 0)
      /\ Enter(t, "unlink", IF seen /\ drops > 0 THEN "none"
                            ELSE WatchDue(t, path.under))
      /\ PATH_OP_STASH' = IF seen /\ drops = 0 /\ ~filtered
                          THEN [PATH_OP_STASH EXCEPT ![t] = SourceOf(t)]
                          ELSE PATH_OP_STASH
      /\ Noticed
      /\ UNCHANGED <<kernelVars, ours, TRACKED_PIDS, OPENAT_STASH,
                     WATCHED_FDS, EVENTS>>

\* try_path_op_exit on a failed call, or on one that was not stashed.
PathOpReturns(t, ok) ==
  /\ Running(t) /\ sc[t] \in {"rename", "unlink"}
  /\ ok => PATH_OP_STASH[t] = "none"
  /\ IF ok THEN Ignored(due[t]) ELSE Noticed
  /\ PATH_OP_STASH' = [PATH_OP_STASH EXCEPT ![t] = "none"]
  /\ Return(t)
  /\ UNCHANGED <<kernelVars, dropVars, ours, TRACKED_PIDS, OPENAT_STASH,
                 WATCHED_FDS, EVENTS>>

\* The source half of a rename; the probe goes on to the destination half.
RenameExitSource(t) ==
  /\ Running(t) /\ sc[t] = "rename" /\ PATH_OP_STASH[t] # "none"
  /\ Submit(t, PATH_OP_STASH[t])
  /\ Charge(t, Num(RingFull))
  /\ sc' = [sc EXCEPT ![t] = "rename_emit"]
  /\ Noticed
  /\ UNCHANGED <<kernelVars, ours, child, due, TRACKED_PIDS, OPENAT_STASH,
                 PATH_OP_STASH, WATCHED_FDS>>

\* The destination half of a rename, or the one event of an unlink.
PathOpExit(t) ==
  /\ Running(t) /\ PATH_OP_STASH[t] # "none"
  /\ sc[t] \in {"rename_emit", "unlink"}
  /\ Submit(t, PATH_OP_STASH[t])
  /\ Charge(t, Num(RingFull))
  /\ PATH_OP_STASH' = [PATH_OP_STASH EXCEPT ![t] = "none"]
  /\ Return(t)
  /\ Noticed
  /\ UNCHANGED <<kernelVars, ours, TRACKED_PIDS, OPENAT_STASH, WATCHED_FDS>>
-----------------------------------------------------------------------------
(* close and mmap: one probe, on entry.                                    *)

Close(t, fd) ==
  LET key == <<tg[t], fd>>
  IN  /\ "close" \in Workload
      /\ Idle(t)
      /\ \/ /\ is_tracked(tg[t]) \/ key \in WATCHED_FDS
            /\ Submit(t, SourceOf(t))
            /\ Charge(t, Num(RingFull))
            /\ WATCHED_FDS' = IF is_tracked(tg[t]) THEN WATCHED_FDS
                              ELSE WATCHED_FDS \ {key}
            /\ Noticed
         \/ /\ ~is_tracked(tg[t]) /\ key \notin WATCHED_FDS
            /\ Ignored(TreeDue(t))
            /\ UNCHANGED <<EVENTS, WATCHED_FDS, dropVars>>
      /\ UNCHANGED <<kernelVars, callVars, ours, TRACKED_PIDS, OPENAT_STASH,
                     PATH_OP_STASH>>

Mmap(t, fd) ==
  /\ "mmap" \in Workload
  /\ Idle(t)
  /\ \/ /\ is_tracked(tg[t]) \/ <<tg[t], fd>> \in WATCHED_FDS
        /\ Submit(t, SourceOf(t))
        /\ Charge(t, Num(RingFull))
        /\ Noticed
     \/ /\ ~is_tracked(tg[t]) /\ <<tg[t], fd>> \notin WATCHED_FDS
        /\ Ignored(TreeDue(t))
        /\ UNCHANGED <<EVENTS, dropVars>>
  /\ UNCHANGED <<kernelVars, callVars, ours, TRACKED_PIDS, OPENAT_STASH,
                 PATH_OP_STASH, WATCHED_FDS>>
-----------------------------------------------------------------------------
(* Process lifetimes.                                                      *)

\* execve, once the other threads of the group are gone.  An exec from a
\* thread that is not the leader takes over the dead leader's id.  The probe
\* tracks the root again, whoever runs under its PID.
Exec(t) ==
  LET p == tg[t]
      now == IF p = Root THEN track_pid(p) ELSE TRACKED_PIDS
  IN  /\ Idle(t)
      /\ \A u \in Pids \ {t} : state[u] = "run" => tg[u] # p
      /\ IF t = p THEN UNCHANGED <<state, tg, ours>>
                   ELSE TakeOver(t, p)
      /\ mishaps' = mishaps \cup ExecMishaps(p)
      /\ TRACKED_PIDS' = now
      /\ \/ /\ p \in now
            /\ Submit(p, "tree")
            /\ Charge(p, Num(RingFull))
            /\ Noticed
         \/ /\ p \notin now
            /\ Charge(p, Num(p = Root))
            /\ Ignored(IF p = Root THEN "none" ELSE TreeDue(t))
            /\ UNCHANGED EVENTS
      /\ UNCHANGED <<callVars, OPENAT_STASH, PATH_OP_STASH, WATCHED_FDS>>

CanReuse(p) == state[p] = "free" /\ (p = Root => RootPidRecycled)

\* clone: sched_process_fork fires before the child runs, for a new process
\* and for a new thread alike.  Its probe emits first, then tracks the child.
Fork(t, c, thread) ==
  /\ Idle(t) /\ CanReuse(c)
  /\ Create(c, IF thread THEN tg[t] ELSE c, ours[t])
  /\ IF CloneExitAttached
     THEN /\ sc' = [sc EXCEPT ![t] = "clone"]
          /\ child' = [child EXCEPT ![t] = c]
     ELSE UNCHANGED <<sc, child>>
  /\ \/ /\ is_tracked(tg[t])
        /\ Submit(t, "tree")
        /\ TRACKED_PIDS' = track_pid(c)
        /\ Charge(t, Num(RingFull) + Num(TrackFails(c)))
        /\ Noticed
     \/ /\ ~is_tracked(tg[t])
        /\ Ignored(TreeDue(t))
        /\ UNCHANGED <<EVENTS, TRACKED_PIDS, dropVars>>
  /\ UNCHANGED <<mishaps, due, OPENAT_STASH, PATH_OP_STASH, WATCHED_FDS>>

\* sys_exit_clone in the parent: tracks the returned id, which by now may
\* belong to nobody.
CloneExit(t) ==
  /\ Running(t) /\ sc[t] = "clone"
  /\ \/ /\ is_tracked(tg[t])
        /\ TRACKED_PIDS' = track_pid(child[t])
        /\ Charge(t, Num(TrackFails(child[t])))
     \/ /\ ~is_tracked(tg[t])
        /\ UNCHANGED <<TRACKED_PIDS, dropVars>>
  /\ Return(t)
  /\ UNCHANGED <<kernelVars, ours, missed, OPENAT_STASH, PATH_OP_STASH,
                 WATCHED_FDS, EVENTS>>

\* sched_process_exit, once per thread.
Exit(t) ==
  /\ Idle(t)
  /\ t = tg[t] => \/ LeaderMayExitFirst
                  \/ ~LeaderFirst(t)
  /\ sc' = [sc EXCEPT ![t] = "exit"]
  /\ mishaps' = mishaps \cup ExitMishaps(t)
  /\ \/ /\ is_tracked(tg[t]) /\ t # tg[t]
        /\ TRACKED_PIDS' = untrack_pid(t)
        /\ Noticed
        /\ UNCHANGED <<EVENTS, dropVars>>
     \/ /\ is_tracked(tg[t]) /\ t = tg[t]
        /\ Submit(t, "tree")
        /\ Charge(t, Num(RingFull))
        /\ TRACKED_PIDS' = untrack_pid(t)
        /\ Noticed
     \/ /\ ~is_tracked(tg[t])
        /\ Ignored(IF t = tg[t] THEN TreeDue(t) ELSE "none")
        /\ UNCHANGED <<TRACKED_PIDS, EVENTS, dropVars>>
  /\ UNCHANGED <<state, tg, ours, child, due, OPENAT_STASH, PATH_OP_STASH,
                 WATCHED_FDS>>

\* The kernel ends the task; a leader stays as a zombie until it is reaped,
\* which cannot happen before its last thread is gone.
Die(t) ==
  /\ Running(t) /\ sc[t] = "exit"
  /\ IF t = tg[t] THEN /\ state' = [state EXCEPT ![t] = "dead"]
                       /\ UNCHANGED <<tg, ours>>
                  ELSE Release(t)
  /\ sc' = [sc EXCEPT ![t] = "none"]
  /\ UNCHANGED <<mishaps, child, due, mapVars, dropVars, missed>>

Reap(p) ==
  /\ state[p] = "dead"
  /\ \A u \in Pids : state[u] = "run" => tg[u] # p
  /\ Release(p)
  /\ UNCHANGED <<mishaps, callVars, mapVars, dropVars, missed>>

\* An unrelated process appears, possibly under a recycled PID.
SpawnForeign(p) ==
  /\ CanReuse(p)
  /\ Create(p, p, FALSE)
  /\ UNCHANGED <<mishaps, callVars, mapVars, dropVars, missed>>
-----------------------------------------------------------------------------
(* record_drop is a lookup followed by an insert, with other CPUs between. *)

RecordDropRead(t) ==
  /\ owed[t] > 0 /\ rd[t] = NotRead
  /\ rd' = [rd EXCEPT ![t] = DROP_COUNT]
  /\ UNCHANGED <<kernelVars, callVars, mapVars, owed, DROP_COUNT, lost, ours,
                 missed>>

\* Mutant: the count is written back as it was read.
RecordDropWriteOld(t) ==
  /\ owed[t] > 0 /\ rd[t] # NotRead
  /\ DROP_COUNT' = rd[t]
  /\ owed' = [owed EXCEPT ![t] = @ - 1]
  /\ rd' = [rd EXCEPT ![t] = NotRead]
  /\ UNCHANGED <<kernelVars, callVars, mapVars, lost, ours, missed>>

RecordDropWrite(t) ==
  /\ owed[t] > 0 /\ rd[t] # NotRead
  /\ DROP_COUNT' = rd[t] + 1
  /\ owed' = [owed EXCEPT ![t] = @ - 1]
  /\ rd' = [rd EXCEPT ![t] = NotRead]
  /\ UNCHANGED <<kernelVars, callVars, mapVars, lost, ours, missed>>

\* Userspace: drain_ring_into_buffer takes the oldest event.
Consume ==
  /\ EVENTS # <<>>
  /\ EVENTS' = Tail(EVENTS)
  /\ UNCHANGED <<kernelVars, callVars, dropVars, ours, missed, TRACKED_PIDS,
                 OPENAT_STASH, PATH_OP_STASH, WATCHED_FDS>>

FileOp(t) ==
  \/ \E path \in PathClasses, write, readable \in BOOLEAN :
        OpenatEnter(t, path, write, readable)
  \/ OpenatFails(t)
  \/ \E fd \in Fds : OpenatExit(t, fd) \/ Close(t, fd) \/ Mmap(t, fd)
  \/ \E old, new \in PathClasses, oldReadable, newReadable \in BOOLEAN :
        RenameEnter(t, old, new, oldReadable, newReadable)
  \/ \E path \in PathClasses, readable \in BOOLEAN :
        UnlinkEnter(t, path, readable)
  \/ \E ok \in BOOLEAN : PathOpReturns(t, ok)
  \/ RenameExitSource(t)
  \/ PathOpExit(t)

Lifetime(t) ==
  \/ Exec(t)
  \/ \E c \in Pids, thread \in BOOLEAN : Fork(t, c, thread)
  \/ CloneExit(t)
  \/ Exit(t)
  \/ Die(t)
  \/ Reap(t)
  \/ SpawnForeign(t)

Next ==
  \/ \E t \in Pids : FileOp(t) \/ Lifetime(t)
  \/ \E t \in Pids : RecordDropRead(t) \/ RecordDropWrite(t)
  \/ Consume

Spec == Init /\ [][Next]_vars
-----------------------------------------------------------------------------
(* Properties                                                              *)

\* No probe is inside record_drop.
Quiet == \A t \in Pids : owed[t] = 0

\* Once no probe is inside record_drop, a loss that was noticed shows in
\* DROP_COUNT, which trace and verify refuse when it is not 0: the unlocked
\* read and write of record_drop may swallow increments of concurrent probes
\* but never all of them.
DropsFailClosed == Quiet /\ lost > 0 => DROP_COUNT > 0

\* Every successful open, rename, unlink, close, mmap, exec, fork and process
\* exit in the traced command's tree leaves an event in the ring, or the drop
\* counter says that the trace is incomplete.
NoSilentLoss == Quiet /\ "tree" \in missed => DROP_COUNT > 0

\* As long as nothing was dropped, the live tasks of the traced command's
\* tree are exactly covered: the thread group of each one is tracked.
TreeTracked ==
  \A t \in Pids : Live(t) /\ ours[t] => is_tracked(tg[t]) \/ lost > 0

\* What try_exit's comment promises: no entry of TRACKED_PIDS is left to match
\* a recycled PID, so a tracked process is one of the tree.
NoStaleTracking == \A p \in TRACKED_PIDS : state[p] = "run" => ours[p]

\* TRACKED_PIDS goes wrong in three ways only: as long as no child has exited
\* before its clone returned (sys_exit_clone tracks it again), no leader before
\* its threads and no stranger has called execve under the root's PID, every
\* entry is a live task of the tree, through forks, threads, full maps and
\* recycled ids.
StaleHasCause ==
  mishaps = {} => \A p \in TRACKED_PIDS : Live(p) /\ ours[p]

\* Event.source: an event marked as the fork tree's was caused by the fork tree
\* unless one of the mishaps has put a stranger among the tracked processes; one
\* marked external was not, unless a leader left its threads behind or tracking
\* of a child was dropped.
SourceTruthful ==
  \A i \in DOMAIN EVENTS :
     /\ EVENTS[i].source = "tree" => EVENTS[i].ours \/ mishaps # {}
     /\ EVENTS[i].source = "watch" =>
          ~EVENTS[i].ours \/ "leader_first" \in mishaps \/ lost > 0

\* A stash entry belongs to a call in flight of a running task, so a recycled
\* id never returns from a call with the arguments of its predecessor.
StashesInFlight ==
  \A t \in Pids :
     /\ OPENAT_STASH[t] # "none" => state[t] = "run" /\ sc[t] = "openat"
     /\ PATH_OP_STASH[t] # "none" =>
          state[t] = "run" /\ sc[t] \in {"rename", "rename_emit", "unlink"}

\* Watch mode: an external process that opens for writing, renames or unlinks
\* a file under a watched directory is never ignored, if absolute paths are
\* spelled as the watched prefix is.
ExternalWritesSeen == "watch" \notin missed

\* Probes run to completion.
FairSpec ==
  Spec /\ \A t \in Pids : WF_vars(RecordDropRead(t) \/ RecordDropWrite(t))

\* A noticed loss is eventually on the counter, and stays there however many
\* other probes write the counter back from an old read.
DropsAreCounted == lost > 0 ~> [](DROP_COUNT > 0)
=============================================================================
