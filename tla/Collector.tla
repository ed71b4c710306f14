----------------------------- MODULE Collector ------------------------------
(***************************************************************************)
(* The userspace half of the tracer: collect_events, finish_with_sort and  *)
(* process_event of tracer.rs with the state they keep.  Events are only   *)
(* buffered while the traced command runs; after it has ended and the ring *)
(* has been quiet for a while they are sorted by timestamp and processed,  *)
(* against the /proc and the files of that later moment.                   *)
(***************************************************************************)
EXTENDS World

CONSTANTS
  WatchPrefixes,  \* the watched directories
  MaxGeneration   \* u32::MAX

ASSUME CollectorConstantsOK == MaxGeneration \in Nat \ {0}

VARIABLES
  phase,          \* "collect", "quiesce", "process" or "done"
  raw_events,     \* what drain_ring_into_buffer has buffered
  todo,           \* those of raw_events still to be processed
  events,         \* the result; of is history: the raw event it was made of
  \* --- EventCollectorState ---
  root_initial_exec_pending,
  current_processes,
  next_generations,
  process_cwds,
  fd_table,
  pending_renames,
  malformed_events

bufferVars == <<phase, raw_events, todo>>
processVars == <<current_processes, next_generations, root_initial_exec_pending>>
tableVars == <<process_cwds, fd_table, pending_renames>>
collectorVars == <<bufferVars, events, processVars, tableVars, malformed_events>>
vars == <<worldVars, collectorVars>>

\* HashMap::insert and HashMap::remove.
Put(map, key, value) ==
  [k \in DOMAIN map \cup {key} |-> IF k = key THEN value ELSE map[k]]
Delete(map, key) == Restrict(map, DOMAIN map \ {key})

Lifetime(pid, generation) == [pid |-> pid, generation |-> generation]
Process(pid, generation, exec_epoch) ==
  [lifetime |-> Lifetime(pid, generation), exec_epoch |-> exec_epoch]
root_process == Process(Root, 0, 0)

Init ==
  /\ WorldInit
  /\ phase = "collect"
  /\ raw_events = {} /\ todo = {}
  /\ events = <<>>
  /\ root_initial_exec_pending = TRUE
  /\ current_processes = [p \in {Root} |-> root_process]
  /\ next_generations = [p \in {Root} |-> 1]
  /\ process_cwds = [l \in {root_process.lifetime} |-> Home]
  /\ fd_table = <<>>
  /\ pending_renames = <<>>
  /\ malformed_events = 0
-----------------------------------------------------------------------------
(* The methods of EventCollectorState, as what they return and what they   *)
(* leave behind.                                                           *)

\* Mutant: the counter is too narrow and wraps.
wrapping_add(n) == (n + 1) % 2
saturating_add(n) == IF n >= MaxGeneration THEN n ELSE n + 1

\* Mutant: every use of a PID is the same lifetime.
same_generation(pid) == 0
next_generation(pid) ==
  IF pid \in DOMAIN next_generations THEN next_generations[pid] ELSE 0

\* Mutant: a new process is filed under the root's PID.
new_root_process(pid) == Process(Root, next_generation(pid), 0)
new_process(pid) == Process(pid, next_generation(pid), 0)

current_process(pid) ==
  IF pid \in DOMAIN current_processes THEN current_processes[pid]
                                      ELSE new_process(pid)

\* next_generations once current_process has started pid, if it had to.
GenerationsWith(pid) ==
  IF pid \in DOMAIN current_processes THEN next_generations
  ELSE Put(next_generations, pid, saturating_add(next_generation(pid)))

KnowProcess(pid) ==
  /\ current_processes' = Put(current_processes, pid, current_process(pid))
  /\ next_generations' = GenerationsWith(pid)

Readable(pid) == state[pid] \in {"tree", "ext"}

\* Relative paths: /proc/<pid>/cwd if there is such a process now, else the
\* cached directory, else root_cwd; a path relative to a descriptor stays as
\* it is once the process is gone.
resolve_path(process, style, raw) ==
  LET pid == process.lifetime.pid
  IN  CASE style = "abs" -> raw
        [] style = "dirfd" -> IF Readable(pid) THEN DirFd \o raw ELSE raw
        [] style = "cwd" ->
             IF Readable(pid) THEN cwd[tg[pid]] \o raw
             ELSE IF process.lifetime \in DOMAIN process_cwds
             THEN process_cwds[process.lifetime] \o raw
             ELSE Home \o raw

\* resolve_path caches the working directory it could read.
CwdsAfter(process, style) ==
  LET pid == process.lifetime.pid
  IN  IF style = "cwd" /\ Readable(pid)
      THEN Put(process_cwds, process.lifetime, cwd[tg[pid]]) ELSE process_cwds

is_path_within(path, prefix) == IsPrefix(prefix, path)
Watched(path) == \E prefix \in WatchPrefixes : is_path_within(path, prefix)

\* The filter of an external rename.  Mutant: both ends have to be watched.
FilteredEitherEnd(external, from, to) ==
  external /\ (~Watched(from) \/ ~Watched(to))
FilteredRename(external, from, to) ==
  external /\ ~Watched(from) /\ ~Watched(to)

\* file_identity.rs: the version of the contents, or why there is none.
Missing == -1
NotObserved == -2
EMPTY == 0

observe_path(path) ==
  IF FilesAt(path) = {} THEN Missing
  ELSE content[CHOOSE f \in FilesAt(path) : TRUE]

\* Through /proc/<pid>/fd/<fd> if what is there now has the name that was
\* opened, else by that name.
open_handle(pid, fd, path) ==
  LET f == ofd[tg[pid]][fd]
  IN  IF Readable(pid) /\ f # None /\ NameBehind(tg[pid], fd) = path THEN f
      ELSE IF FilesAt(path) = {} THEN None
      ELSE CHOOSE g \in FilesAt(path) : TRUE

observe_current(open_state) ==
  IF open_state.handle # None THEN content[open_state.handle]
                              ELSE observe_path(open_state.path)

\* Mutant: an exchange moves one way only.
rewrite_one_way(path, from, to, exchange) == Moved(path, from, to)

rewrite_path(path, from, to, exchange) ==
  IF IsPrefix(from, path) THEN Moved(path, from, to)
  ELSE IF exchange /\ IsPrefix(to, path) THEN Moved(path, to, from)
  ELSE path

rewrite_open_file_paths(from, to, exchange) ==
  [k \in DOMAIN fd_table |->
     [fd_table[k] EXCEPT !.path = rewrite_path(@, from, to, exchange)]]

Traced(kind, e, process, path, observation) ==
  [kind |-> kind, process |-> process, path |-> path,
   external |-> e.source = "ext", observation |-> observation, of |-> e]
Push(event) == events' = Append(events, event)
-----------------------------------------------------------------------------
(* process_event, one action per kind of event.                            *)

\* sort_unstable_by_key: events of one timestamp come in any order.
Take(e) ==
  /\ phase = "process"
  /\ e \in todo /\ \A d \in todo : e.timestamp_ns <= d.timestamp_ns
  /\ todo' = todo \ {e}
  /\ UNCHANGED <<worldVars, phase, raw_events>>

Malformed == malformed_events' = malformed_events + 1
WellFormed == UNCHANGED malformed_events

\* from_utf8().unwrap_or("<invalid utf8>"), which is a relative path.
Decoded(raw) == IF raw \in BadNames THEN <<"<invalid utf8>">> ELSE raw

ProcessOpen(e) ==
  LET process == current_process(e.tgid)
      raw == Decoded(e.payload.raw)
      style == IF e.payload.raw \in BadNames /\ e.payload.style = "abs"
               THEN "cwd" ELSE e.payload.style
      path == resolve_path(process, style, raw)
      handle == open_handle(e.tgid, e.payload.fd, path)
      file == [path |-> path, handle |-> handle,
               write |-> e.payload.mode # "r", open_observation |-> NotObserved]
      observation == IF e.payload.mode = "trunc" THEN EMPTY
                     ELSE observe_current(file)
      filtered == e.source = "ext" /\ ~Watched(path)
  IN  /\ Take(e) /\ e.kind = "open"
      /\ KnowProcess(e.tgid)
      /\ process_cwds' = CwdsAfter(process, style)
      /\ fd_table' = IF filtered THEN fd_table
                     ELSE Put(fd_table, <<process.lifetime, e.payload.fd>>,
                              [file EXCEPT !.open_observation = observation])
      /\ IF filtered THEN UNCHANGED events
         ELSE Push(Traced("open", e, process, path, observation))
      /\ WellFormed
      /\ UNCHANGED <<root_initial_exec_pending, pending_renames>>

ProcessClose(e) ==
  LET process == current_process(e.tgid)
      key == <<process.lifetime, e.payload.fd>>
      known == key \in DOMAIN fd_table
      observation == IF known /\ fd_table[key].write
                     THEN observe_current(fd_table[key]) ELSE NotObserved
  IN  /\ Take(e) /\ e.kind = "close"
      /\ KnowProcess(e.tgid)
      /\ fd_table' = Delete(fd_table, key)
      /\ IF e.source = "ext" /\ ~known THEN UNCHANGED events
         ELSE Push(Traced("close", e, process,
                          IF known THEN fd_table[key].path ELSE NoPath,
                          observation))
      /\ WellFormed
      /\ UNCHANGED <<root_initial_exec_pending, process_cwds, pending_renames>>

ProcessMmap(e) ==
  LET process == current_process(e.tgid)
      key == <<process.lifetime, e.payload.fd>>
      known == key \in DOMAIN fd_table
  IN  /\ Take(e) /\ e.kind = "mmap"
      /\ KnowProcess(e.tgid)
      /\ IF e.source = "ext" /\ ~known THEN UNCHANGED events
         ELSE Push(Traced("mmap", e, process,
                          IF known THEN fd_table[key].path ELSE NoPath,
                          IF known THEN fd_table[key].open_observation
                                   ELSE NotObserved))
      /\ WellFormed
      /\ UNCHANGED <<root_initial_exec_pending, tableVars>>

\* The two halves of a rename meet under the thread and the timestamp.
ProcessRenameSource(e) ==
  LET process == current_process(e.tgid)
      bad == e.payload.raw \in BadNames
      key == <<e.pid, e.timestamp_ns>>
  IN  /\ Take(e) /\ e.kind = "rename_source"
      /\ KnowProcess(e.tgid)
      /\ IF bad THEN Malformed ELSE WellFormed
      /\ process_cwds' = IF bad THEN process_cwds
                         ELSE CwdsAfter(process, e.payload.style)
      /\ pending_renames' =
           IF bad THEN pending_renames
           ELSE Put(pending_renames, key,
                  [process |-> process, exchange |-> e.payload.exchange,
                   external |-> e.source = "ext",
                   from |-> resolve_path(process, e.payload.style,
                                         e.payload.raw)])
      /\ UNCHANGED <<root_initial_exec_pending, events, fd_table>>

\* The source half was not there, or the name is not UTF-8.
RejectRenameDestination(e) ==
  LET key == <<e.pid, e.timestamp_ns>>
  IN  /\ Take(e) /\ e.kind = "rename_destination"
      /\ key \notin DOMAIN pending_renames \/ e.payload.raw \in BadNames
      /\ pending_renames' = Delete(pending_renames, key)
      /\ Malformed
      /\ UNCHANGED <<processVars, events, process_cwds, fd_table>>

ProcessRenameDestination(e) ==
  LET key == <<e.pid, e.timestamp_ns>>
      pending == pending_renames[key]
      to == resolve_path(pending.process, e.payload.style, e.payload.raw)
      external == pending.external \/ e.source = "ext"
      renamed(from, dest) ==
        [kind |-> "rename", process |-> pending.process, path |-> dest,
         from |-> from, external |-> external,
         observation |-> observe_path(dest), of |-> e]
  IN  /\ Take(e) /\ e.kind = "rename_destination"
      /\ key \in DOMAIN pending_renames /\ e.payload.raw \notin BadNames
      /\ pending_renames' = Delete(pending_renames, key)
      /\ process_cwds' = CwdsAfter(pending.process, e.payload.style)
      /\ IF FilteredRename(external, pending.from, to)
         THEN UNCHANGED <<fd_table, events>>
         ELSE /\ fd_table' =
                   rewrite_open_file_paths(pending.from, to, pending.exchange)
              /\ events' = events \o <<renamed(pending.from, to)>> \o
                   IF pending.exchange THEN <<renamed(to, pending.from)>>
                                       ELSE <<>>
      /\ WellFormed
      /\ UNCHANGED processVars

\* An open descriptor of the path serves as the observation, any one.
ProcessUnlink(e) ==
  LET process == current_process(e.tgid)
      path == resolve_path(process, e.payload.style, e.payload.raw)
      open == {k \in DOMAIN fd_table : fd_table[k].path = path}
      bad == e.payload.raw \in BadNames
  IN  /\ Take(e) /\ e.kind = "unlink"
      /\ KnowProcess(e.tgid)
      /\ process_cwds' = IF bad THEN process_cwds
                         ELSE CwdsAfter(process, e.payload.style)
      /\ \/ /\ bad
            /\ Malformed
            /\ UNCHANGED events
         \/ /\ ~bad /\ e.source = "ext" /\ ~Watched(path)
            /\ WellFormed
            /\ UNCHANGED events
         \/ /\ ~bad /\ (e.source = "tree" \/ Watched(path))
            /\ WellFormed
            /\ \E observation \in
                 IF open = {} THEN {observe_path(path)}
                 ELSE {observe_current(fd_table[k]) : k \in open} :
                   Push(Traced("unlink", e, process, path, observation))
      /\ UNCHANGED <<root_initial_exec_pending, fd_table, pending_renames>>

\* The first exec of the root is swallowed: trace_command reports it.
SwallowRootExec(e) ==
  /\ Take(e) /\ e.kind = "exec"
  /\ e.tgid = Root /\ root_initial_exec_pending
  /\ root_initial_exec_pending' = FALSE
  /\ UNCHANGED <<current_processes, next_generations, tableVars, events,
                 malformed_events>>

\* Mutant: the image of a process stays the one it was forked with.
same_epoch(process) == process
next_epoch(process) ==
  [process EXCEPT !.exec_epoch = saturating_add(@)]

\* The path serves only to find the file that is observed.
ProcessExec(e) ==
  LET process == next_epoch(current_process(e.tgid))
  IN  /\ Take(e) /\ e.kind = "exec"
      /\ ~(e.tgid = Root /\ root_initial_exec_pending)
      /\ current_processes' = Put(current_processes, e.tgid, process)
      /\ next_generations' = GenerationsWith(e.tgid)
      /\ process_cwds' = CwdsAfter(process, e.payload.style)
      /\ LET path == resolve_path(process, e.payload.style, e.payload.raw)
         IN  Push(Traced("exec", e, process, path, observe_path(path)))
      /\ WellFormed
      /\ UNCHANGED <<root_initial_exec_pending, fd_table, pending_renames>>

\* fork_process: the child is a new lifetime with its parent's working
\* directory and descriptors.
Inherited(parent, child) ==
  LET fds == {fd \in Fds : <<parent, fd>> \in DOMAIN fd_table}
  IN  [k \in DOMAIN fd_table \cup ({child} \X fds) |->
         IF k \in {child} \X fds THEN fd_table[<<parent, k[2]>>]
                                 ELSE fd_table[k]]

ProcessFork(e) ==
  LET parent == current_process(e.tgid)
      c == e.payload.child
      child == new_process(c)
  IN  /\ Take(e) /\ e.kind = "fork"
      /\ current_processes' =
           Put(Put(current_processes, e.tgid, parent), c, child)
      /\ next_generations' =
           Put(GenerationsWith(e.tgid), c, saturating_add(next_generation(c)))
      /\ process_cwds' =
           IF parent.lifetime \in DOMAIN process_cwds
           THEN Put(process_cwds, child.lifetime, process_cwds[parent.lifetime])
           ELSE process_cwds
      /\ fd_table' = Inherited(parent.lifetime, child.lifetime)
      /\ Push([kind |-> "fork", process |-> parent, child |-> child, of |-> e])
      /\ WellFormed
      /\ UNCHANGED <<root_initial_exec_pending, pending_renames>>

\* The process stays in current_processes.
ProcessExit(e) ==
  /\ Take(e) /\ e.kind = "exit"
  /\ KnowProcess(e.tgid)
  /\ Push([kind |-> "exit", process |-> current_process(e.tgid),
           exit_code |-> e.payload.exit_code, of |-> e])
  /\ WellFormed
  /\ UNCHANGED <<root_initial_exec_pending, tableVars>>

process_event(e) ==
  \/ ProcessOpen(e) \/ ProcessClose(e) \/ ProcessMmap(e) \/ ProcessUnlink(e)
  \/ ProcessRenameSource(e) \/ ProcessRenameDestination(e)
  \/ RejectRenameDestination(e) \/ SwallowRootExec(e) \/ ProcessExec(e)
  \/ ProcessFork(e) \/ ProcessExit(e)
-----------------------------------------------------------------------------
(* collect_events and finish_with_sort.                                    *)

\* drain_ring_into_buffer.  arrived is history: what the opened file holds
\* when the event reaches userspace.
Drain ==
  LET arrive(e) == IF e.kind = "open"
                   THEN [e EXCEPT !.payload.arrived = content[e.payload.file]]
                   ELSE e
  IN  /\ phase \in {"collect", "quiesce"} /\ ring # {}
      /\ raw_events' = raw_events \cup {arrive(e) : e \in ring}
      /\ ring' = {}
      /\ UNCHANGED <<taskVars, fileVars, clock, last, phase, todo, events,
                     processVars, tableVars, malformed_events>>

\* waitpid(WNOHANG) reaps the root.
WaitPid ==
  /\ phase = "collect" /\ state[Root] = "zombie"
  /\ state' = [state EXCEPT ![Root] = "free"]
  /\ phase' = "quiesce"
  /\ UNCHANGED <<fileVars, clock, last, ring, tg, birth, image, cwd, ofd,
                 started, code, raw_events, todo, events, processVars,
                 tableVars, malformed_events>>

\* Mutant: the deadline is put off while any descendant lives.
QuiescedWhenAlone ==
  /\ phase = "quiesce" /\ ring = {}
  /\ \A p \in Pids : state[p] # "tree"
  /\ phase' = "process"
  /\ todo' = raw_events
  /\ UNCHANGED <<worldVars, raw_events, events, processVars, tableVars,
                 malformed_events>>

\* The ring has had nothing new until the deadline; what comes now is late.
Quiesced ==
  /\ phase = "quiesce" /\ ring = {}
  /\ phase' = "process"
  /\ todo' = raw_events
  /\ UNCHANGED <<worldVars, raw_events, events, processVars, tableVars,
                 malformed_events>>

\* Mutant: the exit status of waitpid is not applied.
KeepExitCode(exits) == exits

\* The last exit event of the root's PID gets the exit status of waitpid.
SetExitCode(exits) ==
  LET isRoot(x) == x.kind = "exit" /\ x.process.lifetime.pid = Root
      i == SelectLastInSeq(exits, isRoot)
  IN  IF i > 0 THEN [exits EXCEPT ![i].exit_code = code]
      ELSE Append(exits, [kind |-> "exit", process |-> current_process(Root),
                          exit_code |-> code])

\* The end of finish_with_sort, and of trace_command: the exec of the root
\* goes first, renames of which one half is missing count as malformed.
Finish ==
  LET isExit(x) == x.kind = "exit" /\ x.process.lifetime.pid = Root
  IN  /\ phase = "process" /\ todo = {}
      /\ phase' = "done"
      /\ events' = Cons([kind |-> "exec", process |-> root_process],
                        SetExitCode(events))
      /\ current_processes' =
           IF SelectInSeq(events, isExit) > 0 THEN current_processes
           ELSE Delete(current_processes, Root)
      /\ malformed_events' = malformed_events + Cardinality(DOMAIN pending_renames)
      /\ pending_renames' = <<>>
      /\ UNCHANGED <<worldVars, raw_events, todo, next_generations,
                     root_initial_exec_pending, process_cwds, fd_table>>

CollectorNext ==
  \/ Drain \/ WaitPid \/ Quiesced \/ Finish
  \/ \E e \in todo : process_event(e)

Next ==
  \/ WorldNext /\ UNCHANGED collectorVars
  \/ CollectorNext

Spec == Init /\ [][Next]_vars
-----------------------------------------------------------------------------
(* Properties                                                              *)

TypeOK ==
  /\ phase \in {"collect", "quiesce", "process", "done"}
  /\ todo \subseteq raw_events
  /\ root_initial_exec_pending \in BOOLEAN
  /\ \A p \in DOMAIN current_processes :
        p \in DOMAIN next_generations /\ current_processes[p].lifetime.pid = p
  /\ next_generations \in [DOMAIN next_generations -> 0 .. MaxGeneration]
  /\ \A k \in DOMAIN fd_table : k[1].pid \in Pids /\ k[2] \in Fds
  /\ malformed_events \in Nat

\* What trace_command returns as dropped_events; 0 is a trace that trace and
\* verify accept.
dropped_events == malformed_events

\* The results that were made of a raw event.
Reported == {events[i] : i \in {j \in DOMAIN events : "of" \in DOMAIN events[j]}}
Instance(e) == <<e.tgid, e.born>>

\* Two results of the fork tree have the same lifetime exactly if the same
\* process caused them, however PIDs are recycled, and a fork names the child
\* as the child's own events do.
LifetimesTold ==
  LET tree == {x \in Reported : x.of.source = "tree"}
      named == {<<x.process.lifetime, Instance(x.of)>> : x \in tree} \cup
               {<<x.child.lifetime, <<x.of.payload.child, x.of.payload.born>> >> :
                  x \in {y \in tree : y.kind = "fork"}}
  IN  \A a, b \in named : a[1] = b[1] <=> a[2] = b[2]

\* The epoch of a result of the fork tree counts the images of its process.
EpochsTold ==
  \A x \in Reported : x.of.source = "tree" => x.process.exec_epoch = x.of.image

\* README: "Process attribution uses a PID-reuse-safe lifetime plus an exec
\* epoch", for the processes of the fork tree.
TreeLifetimesTruthful == LifetimesTold /\ EpochsTold

\* In a trace that is accepted every reported path is the name the file had
\* when the event happened: through renames of files and of directories above
\* them, exchanges, descriptors inherited over fork, and recycled PIDs with
\* descriptors of their own.  Names that are not UTF-8 and descriptors of
\* deleted files are excepted.  It is about renames that are heard of: one by
\* an external process between names outside of the watched directories is not.
PathsTruthful ==
  dropped_events = 0 =>
    \A x \in {y \in Reported : y.kind \notin {"fork", "exit"}} :
      LET truth == x.of.payload
      IN  \/ truth.path \in BadNames
          \/ x.kind \in {"close", "mmap"} /\ (truth.nameless \/ x.path = truth.path)
          \/ x.kind \in {"open", "unlink", "exec"} /\ x.path = truth.path
          \/ /\ x.kind = "rename"
             /\ \/ x.from = truth.from /\ x.path = truth.path
                \/ truth.exchange /\ x.from = truth.path /\ x.path = truth.from

\* A finished trace reports the exit of the traced command once, under its
\* first lifetime and with the status waitpid returned.
RootExitTruthful ==
  phase = "done" =>
    LET exits == {i \in DOMAIN events : /\ events[i].kind = "exit"
                                        /\ events[i].process.lifetime = root_process.lifetime}
    IN  Cardinality(exits) = 1 /\ \A i \in exits : events[i].exit_code = code

\* The open that made the descriptor of a close or mmap event.
OpenedBy(e) ==
  LET opens == {o \in raw_events : /\ o.kind = "open" /\ Instance(o) = Instance(e)
                                   /\ o.payload.fd = e.payload.fd
                                   /\ o.timestamp_ns < e.timestamp_ns}
  IN  {o \in opens : \A d \in opens : d.timestamp_ns <= o.timestamp_ns}

\* What watch mode leaves out: the doings of external processes with names
\* outside the watched directories and descriptors opened there.
OutsideWatch(e) ==
  /\ e.source = "ext"
  /\ \/ e.kind \in {"open", "unlink"} /\ ~Watched(e.payload.path)
     \/ /\ e.kind \in {"rename_source", "rename_destination"}
        /\ ~Watched(e.payload.from) /\ ~Watched(e.payload.path)
     \/ /\ e.kind \in {"close", "mmap"}
        /\ \A o \in OpenedBy(e) : ~Watched(o.payload.path)

\* An accepted trace accounts for every event that reached userspace: it is
\* the first exec of the root, or process_event reported it, alone or with the
\* other half of its rename, or it is outside of what is watched.
EventsAccounted ==
  phase = "done" /\ dropped_events = 0 =>
    \A e \in raw_events :
      \/ e.kind = "exec" /\ e.payload.first
      \/ \E x \in Reported :
           x.of = e \/ /\ x.kind = "rename" /\ x.of.pid = e.pid
                       /\ x.of.timestamp_ns = e.timestamp_ns
      \/ OutsideWatch(e)

\* A PID that is used again starts with no descriptor and no working directory
\* of its predecessor: whenever start_process takes a generation, no entry of
\* fd_table or process_cwds is filed under that lifetime yet.
LifetimesFresh ==
  [][\A p \in Pids :
       next_generation(p)' # next_generation(p) =>
         /\ new_process(p).lifetime \notin DOMAIN process_cwds
         /\ \A k \in DOMAIN fd_table : k[1] # new_process(p).lifetime]_vars

\* README: file reads "are hashed when their events reach userspace".
HashedOnArrival ==
  \A x \in {y \in Reported : y.kind = "open"} :
     x.observation \in {x.of.payload.content, x.of.payload.arrived}

\* The loops of the collector go on as long as they have work.
FairSpec == Spec /\ WF_vars(CollectorNext)

\* Once the traced command has ended the trace is finished, provided its
\* descendants fall silent.
Terminates == state[Root] = "zombie" ~> phase = "done"
=============================================================================
