# repx in TLA+

repx runs a command under eBPF tracepoints, turns what the command did into a
canonical set of operations, and commits to that set and to the files produced
in an attestation that can be verified by running the command again. This
directory holds TLA+ models of its parts, TLC runs that check them on small
instances, and TLAPS proofs for all instances.

Four specifications cover the program from the tracepoints to the signed
document: the probes in the kernel (`Probes`), the collector in userspace
(`Collector`), a session from the snapshot to the verdict (`Repx`, which composes
the canonicalizer, the slicer, file identity and the workspace), and the documents
(`Attestation`).

    cd tla
    tlc -workers 2 -config ProbesTree.cfg MCProbes
    tlc -workers 2 -config CollectorPaths.cfg MCCollector
    tlc -workers 2 -config Repx.cfg MCRepx
    tlc -workers 2 -config Attestation.cfg MCAttestation
    tlapm ProbesProofs.tla        # and every other *Proofs.tla

## The system

| Component | State | Operations | Correct when |
| --- | --- | --- | --- |
| eBPF probes, `repx-ebpf/src/main.rs` | maps `TRACKED_PIDS`, `ROOT_PID`, `OPENAT_STASH`, `PATH_OP_STASH` with its two path maps, `WATCHED_FDS`, `WATCH_MODE`, the ring `EVENTS`, `DROP_COUNT` | one probe per tracepoint, running in the task that trips it, on any CPU | the tree of the traced command is tracked and nothing else is; every covered call leaves an event or a drop; no map entry outlives its owner |
| event types, `repx-common` | none | `EventKind`, `Event` | both sides agree on them |
| set-up, `tracer.rs` 26-420, 533-821, 1603-1650 | the maps before the command starts | discover offsets, load, attach, `spawn_suspended`, register, `SIGCONT` | everything is armed before the command runs |
| event collector, `tracer.rs` 823-1597 | `EventCollectorState`, the buffer of raw events, the list of results | `collect_events`, `finish_with_sort`, `process_event` | each raw event becomes the right traced event: process, path, observation; collecting ends |
| file identity, `file_identity.rs` | none | `observe_path`, `observe_file`, normalization of paths and Go control files | an identity depends on contents or a stable name only |
| canonicalizer, `canonicalize.rs` | indices and tools of processes, pending writes, two vectors of operations | `canonicalize_events`, `finalize_ops` | the set does not depend on scheduling; every closed write has its contents |
| output slicer, `slice.rs` | flows of processes, writers by path and by contents, the queue of the walk | `canonicalize_output_slice` | the producers of the outputs and everything they depend on, and no more; the walk ends |
| Merkle tree, `merkle.rs` | leaves, or nodes in old documents | build, root, leaves, difference | the root determines the leaves; a difference is that of the traces |
| attestation, `attestation.rs` | the document | create, write, read, validate | the root binds command, selection, outputs and operations |
| workspace, `workspace.rs` | snapshots before and after | `snapshot`, `changed_outputs`, `select_outputs` | the outputs are what the command produced |
| command line, `main.rs` | files between commands | trace, verify, explain, diff, stability, harness, generate-key, sign, verify-signature | verify accepts exactly a repetition without drops |
| stability and harness | the attestations of the runs | compare with the first run, repeat | same build, same root |
| DSSE envelope, `dsse.rs` | key files, envelope | sign, verify, read and write keys | what is accepted was signed, and what was signed is accepted |

Interaction: tasks trip probes; probes talk to each other only through the maps
and to userspace through `EVENTS` and `DROP_COUNT`. The collector drains the
ring while the command runs, waits until the ring has been quiet for 100 ms
after the root was reaped, sorts by timestamp, and processes the events in one
pass, reading `/proc` and the files as they are *then*. `trace_command` adds the
root's exec and returns `dropped_events`, the sum of `DROP_COUNT` and of the
collector's malformed events; `trace` and `verify` refuse a result in which it
is not 0. If outputs were selected the slicer, otherwise the canonicalizer works on
the list afterwards; its operations are the leaves of the tree whose root the
attestation commits to.

What is hard here: probes of several tasks interleave and share maps without
locks; PIDs and thread ids are recycled while events that name them are still
queued; maps and the ring have capacities; a rename is two events that are lost
or reordered separately; paths are resolved long after the fact; descendants may
outlive the root. The later stages are sequential, but their input is one of many
interleavings and hash tables hand out their elements in any order, while what
they compute has to be the same each time. The hazards in `PROJECT.json` name the lines.

## Modules

| Module | Content |
| --- | --- |
| `Probes` | the probes and maps, with the kernel's task table as far as they can tell it |
| `MCProbes` | constants of the Probes runs |
| `ProbesProofs` | theorems about Probes: types, drops, stashes, the tree, stale entries, the source of an event, watch mode |
| `World` | what happens on the machine while a command is traced, seen from the collector (external) |
| `Collector` | EXTENDS World: the collector |
| `MCCollector` | constants of the Collector runs |
| `CollectorProofs` | theorems about Collector: lifetimes are fresh, types, the exit of the root |
| `CollectorLifetimeProofs` | EXTENDS CollectorProofs: lifetimes and epochs tell the truth |
| `CollectorAccountProofs` | EXTENDS CollectorLifetimeProofs: every event is accounted for |
| `CollectorPathProofs` | EXTENDS CollectorAccountProofs: names of files |
| `Identity` | file identity, as operators |
| `Builds` | EXTENDS Identity: builds as programs of events, their files and their schedules |
| `Canonicalize` | EXTENDS Builds: `canonicalize_events`, one action per event |
| `Slice` | EXTENDS Canonicalize: `canonicalize_output_slice`, scan and walk |
| `Provenance` | abstract specification of an output slice |
| `Repx` | EXTENDS Slice: sessions of trace and verify, or of the harness |
| `MCRepx` | the builds of the Repx runs |
| `RepxProofs` | theorems about Repx: the slice, loss, verdicts, types of both folds, committed outputs, inputs |
| `RepxFlowProofs` | EXTENDS RepxProofs: closed writes, producers, dependencies |
| `Attestation` | tree, commitment, documents, keys and signatures |
| `MCAttestation` | what is attested in its run |
| `AttestationProofs` | theorems about Attestation: roots, commitments, documents, envelopes, keys |

### Probes

Each map is a variable under its own name. A hash map keyed by task is a
function with `"none"` for no entry, a set map is a set; capacities are
constants, and an insert into a full map fails as `bpf_map_update_elem` does. A
probe runs to completion in its task, so it is one action, with two exceptions
where the order of memory accesses matters: `record_drop` is a read and a write
of `DROP_COUNT` (`RecordDropRead`, `RecordDropWrite`; `owed[t]` calls still to be
made), and the exit probe of a rename submits two events (`RenameExitSource`,
`PathOpExit`). A path is what the filters can see of it: absolute or not, its bytes
under a prefix or not, and (history) whether the file really is under a watched
directory. The user-memory reads may fail (`readable`).

The kernel is external: `state`, `tg`, `sc` and the actions `Die`, `Reap`,
`SpawnForeign`, with ids reused as soon as they are released. `ours`, `due`,
`lost`, `missed` and `mishaps` are history variables: which tasks descend from the
command, what the call in flight ought to leave, how often `record_drop` was called,
which kinds of calls left nothing, and which turns of events that `TRACKED_PIDS` does
not follow have happened: a child has exited before its clone returned
(`child_first`), a leader before its threads (`leader_first`), a stranger has called
execve under the root's PID (`root_exec`). An event carries its source and, as history,
whose it is; its kind, PID and paths are the matter of `Collector`.

`CloneExitAttached`, `LeaderMayExitFirst` and `RootPidRecycled` are switches for
circumstances the probes do not control. `trace_command` attaches the clone-exit probes
wherever the kernel allows it, so they are on in every passing run; with all
three on, as in `probes_deployed`, the kernel may do everything it does. A switch is off
where a run isolates one cause of a refutation, or where a property is false with it.

### World and Collector

`World` has processes, threads, files with names and versions of contents,
descriptors and working directories. A call and its probe are one step there,
which puts an event into `ring`; drops are the business of `Probes`. Events carry
history fields (`born`, `image`, and `path`, `from`, `content`, `arrived` in the
payload) with what was true when they happened, against which the results are
compared. `Ties` lets tasks on two CPUs read the same timestamp, `OutlivesRoot`
lets descendants run on after the root.

`Collector` has one variable per field of `EventCollectorState`, under its name,
plus the buffer and the phase of the loop. Each arm of the match in
`process_event` is an action `Process...`, with its early returns as conjuncts:
the filter on external events, the rejections, the swallowed first exec of the
root. `Take` is the sorted pass: any of the events with the least timestamp,
since the sort is unstable. `resolve_path`, `current_process`,
`rewrite_open_file_paths`, `is_path_within` and the others keep their names; a
path is a sequence of components, an observation the version of the contents that
hashing would have seen, `Missing` or `NotObserved`. The string `<invalid utf8>`
that replaces an undecodable open path is kept, as it changes how the path is
resolved. What `paths_agree` and `/proc/<pid>/fd` contribute to an open is
`open_handle`.

The abstractions: short records and unknown kinds cannot come out of these
probes and are left out; the exec observation reads the file by name (the
`/proc/<pid>/exe` link names the same file); symbolic links between paths are
not modelled here (`Probes` has their effect on the filter).

### Identity, Builds, Canonicalize, Slice and Repx

A build is a record: for each process the sequence of its traced calls, the files
it starts from, the files it may leave (`finals`: one is chosen per run, so two
runs may differ), the names it may draw (`names`), the sessions it is used in, and
what is true of it (`producers`, `derivations`), against which slices are checked.
Between fork and wait the processes interleave freely. Since the collector
observes files after the command has ended, an observation is what the path holds
in `final`.

`Deliver(p)` hands the next event of p to both folds, `CanonStep` and `ScanStep`,
which have one action per arm of the two `match`es; of their results `EndTrace`
uses the one the code would have computed. The maps and vectors of
`canonicalize_events` keep their names. An index into a vector is the event that
pushed the element, as vectors are sorted in the end. A map to sets is a relation
in `Slice`; its `pending_writes` is `open_writes`. An Option is a sequence of at most
one element. The walk is one action per process taken off the queue, any process
of the queue, since it is filled from a `HashSet`. Where the code takes the first
writer of a `HashSet`, `canonicalize_output_slice` is the set of all results.

`Repx` has the stages of the commands: `Trace`, `Verify` and `HarnessAgain` take a
snapshot and start the build, `EndFailed` is the refusals, `EndTrace` the second
snapshot and the selection, `WalkStep` and `Emit` the slicer, `Report` writes the
attestation or compares. `Lose` is a dropped event. `ResetWorkspace` is the user's
business between trace and verify; the harness has nothing like it.

SHA-256 is ideal: the hash of an operation is the sequence of what is fed to it,
without separators as in the code, and the root of a run is the record it commits
to. Whether a name looks like a compiler's temporary or a session directory is
given by the constant `Recognized`; what is modelled is where names are
normalized, and that contents which spell out a drawn name (`Mentions`) are
normalized in the control files that are recognized, and nowhere else.

`Provenance` says what a slice is: a set of processes that starts as the producers
of the outputs, grows by suppliers of its members only, and is closed when no
supplier is missing. The refinement mapping takes `reading` to the reads of contents
other than the outputs' own (the code never follows those), `producing` to
`writers_by_hash`, `seeds` to the producers by path after the fixup.

### Attestation

Three uses of the files are explored one at a time: two documents are compared
(`diff`, and `analyze` of the stability report), one is replaced and read against a
pinned root (`pin`), one is signed (`sign`). `Damage` replaces one part at a time (version,
process root, command, selection, outputs, leaves, nodes, leaf count), until up to
`MaxChanges` of them differ from what was written. The values are those of all documents; for
leaves and nodes also any level of any tree and the file's own root alone, since nothing in
the code tells hashes of leaves from hashes of nodes or of commitments. The root itself stays,
as `--expected-root` refuses another one at once. `Document` gives what
each release writes: 0.1.0 has the nodes of the tree and no leaves, 0.2.1 a JSON
commitment, 0.3.0 the framed one. Texts are sequences over a small alphabet in which
lengths are letters too, so that framing matters; they are not bounded, while the code casts
them with `as u32`, which makes a difference from 2^32 elements on. A hash is a term over what was
hashed (SHA-256 is taken to have no collisions); the texts `hash_pair` joins have one
length, so it is a pair. `Levels` are the levels of a tree, the padded leaves first, and
`MaxDepth` bounds how often they are paired up. `OriginsUnderstood` says what
the canonicalizer hands over: hashes of operations, sorted and without duplicates, so
that a set of them has one order. `GenerateKey`,
`WriteSigningKey` and `WriteVerifyingKey` are the steps of generate-key, each of
which may fail and leave part of a file; `RemoveKey` is the user clearing up.

## Properties and runs

Passing runs:

| Run | Instance | Properties |
| --- | --- | --- |
| `probes_tree` | 3 tasks, watch mode, clone-exit probes attached, every file operation, absolute and relative paths, leaders exit last, ring of 1, 1 drop | `TypeOK`, `NoSilentLoss`, `TreeTracked`, `StashesInFlight`, `ExternalWritesSeen` |
| `probes_deployed` | 2 tasks, watch mode, clone-exit probes attached, leaders may exit first, every PID recycled, 2 drops, fairness | `DropsFailClosed`, `StaleHasCause`, `SourceTruthful`, `DropsAreCounted` |
| `collector_paths` | the root and an external process, 2 files, a name, a watched directory and a name in it, 5 timestamps | `PathsTruthful`, `EventsAccounted` |
| `collector_processes` | 2 task ids, 7 timestamps: forks, threads, execs, recycled ids, descendants that outlive the root | `TypeOK`, `TreeLifetimesTruthful`, `PathsTruthful`, `RootExitTruthful`, `LifetimesFresh` |
| `collector_ends` | equal timestamps, undecodable names, chdir, descriptor-relative paths, a descendant that outlives the root, fairness | `Terminates` |
| `repx` | six builds of up to three processes and an external one, every schedule, two runs, fairness | `TypeOK`, `SameBuildSameRoot`, `VerifiedMeansReproduced`, `InputsReproduced`, `FailClosed`, `ClosedWritesHashed`, `ProducersIncluded`, `OutputsCommitted`, `DependenciesCommitted`, `SliceIsProvenance`, `WalkEnds` |
| `attestation` | 17 origins, three versions, two key pairs, up to two parts replaced | `KeysArePair`, `DiffTruthful`, `PinnedMeansSame`, `SignatureTruthful` |

What they say: as long as group leaders exit last, the tree stays tracked and a call of
it either leaves an event or makes the trace refused. What else is tracked, and so
reported as the tree's, is exact until a child exits before its clone has returned, a
leader before its threads, or a stranger runs execve under the root's PID; nothing else
leaves an entry behind, in any configuration. In the collector, results are
attributed to the right process and the right name through renames, exchanges,
inheritance and recycled PIDs, as long as the process that is asked about in
`/proc` is the one that is meant. Given the events, a build that does the same has the
same root whatever the schedule and whatever names it draws; VERIFIED means that the
outputs, and in full-trace mode the inputs, are those that were attested; a
slice holds every producer and every dependency that can be followed by
contents. A document with a commitment and the pinned root has the version, command,
selection, outputs and process root that were attested, whatever else was replaced in it; one
that holds operations and no nodes has the attested operations too. An accepted signature is
one of the key that signed the document.

Runs that TLC refutes, each against a sentence of the repository (the findings
in `PROJECT.json` quote them):

| Run | Property | What happens |
| --- | --- | --- |
| `probes_leader_exit` | `NoSilentLoss` | threads that outlive their leader are not traced any more |
| `probes_stale` | `NoStaleTracking` | a thread that exits before its clone returns is tracked again by the clone-exit probe, and whoever gets its id is taken for the tree |
| `collector_arrival` | `HashedOnArrival` | contents are hashed when the command has ended |
| `pinned_leaves` | `PinnedLeaves` | one node, the process root, beside other leaves: the file is valid and has the pinned root |
| `slice_copy` | `DependenciesCommitted` | what a copied output was made from is not committed |

The properties that pass are stated for what the code can keep. Outside of that,
the model has these behaviours too, most of them hazards in `PROJECT.json`: a thread that
exits after its leader stays tracked; a stranger that runs execve under the recycled PID of the
root is tracked; the hashes of the nodes of one level pass for the leaves of a document with the
same root; a document becomes one of version 0.1.0, whose root commits to nothing else, with its
root for the only node or leaf; the halves of a rename share a timestamp and may be sorted the wrong way
round, which refuses the trace; a descriptor-relative path stays relative once its
process has exited; an absolute path that spells a watched
directory differently is filtered in the kernel; an external process on a recycled
PID gets the lifetime of its predecessor; a relative path of an exited process is
resolved in the working directory of whoever has its PID now; events after the quiet
window are neither reported nor counted; an external open with an undecodable name
fails the watch filter; a rename by an external process outside of the watched directories is
not applied to the descriptors the tree holds (the names of `collector_paths` have no such
rename, and the proof assumes that there is none); the tool of an output nobody reached is chosen by the order of a
`HashSet`; a program that was executed after its output had been opened, as by a
shell's redirection, is not in the slice of that output; the harness does not reset the
workspace, so a second run has no changed outputs and is attested in full-trace mode;
an old document with nodes alone can be signed, but its envelope is never accepted.

### Bounds

Three tasks are a root, a child and an unrelated process or second child, with
every id reused at once; two tasks suffice for the collector, where the second
id is used again and again. A ring, stash or descriptor map of one entry is full
and empty within two operations, which is where the capacities matter. `MaxLost`
of 2 lets two `record_drop` calls race; in `probes_tree`, where `record_drop` is not the
question, one drop is enough to end what the properties promise. `MaxTime` counts
events, the root's first exec and last exit included: 7 is the shortest trace in which
a child opens a file, exits with the descriptor open, and its successor on the same PID
closes that number; 5 has room for three calls: a file is opened, it or its directory is
renamed or exchanged, and it is closed or mapped; or an external process opens a file outside,
the tree moves it into the watched directory, and the descriptor is closed. Longer
histories of renames are the business of the proofs. `MaxBirths` bounds unrelated
processes, which leave no event. `MaxWrites` of 2 is one write after the file was made. `MaxGeneration`
stands for `u32::MAX` and is not reached.

The builds of `repx` are small programs, each for a family of hazards: `Make` has two
concurrent compilers whose results may be swapped or missing, and a linker; `Stage`
renames the directory of an output, before or after a late write is closed,
and has several writers of the same contents; `Shared` has inherited descriptors, a
file renamed while open, an output that is replaced or kept; `Watched` an external
process and one whose start was not seen; `Temporary` drawn names, a Go work
directory and a dated cache entry; `Dropped` loses one event (`MaxLost`) anywhere.
`MaxEpoch` of 1 lets each process exec twice. Two runs suffice, as every later run of a
harness is compared with the first alone. Up to five leaves make trees with and
without padding (`MaxDepth` of 3 has room for eight); 17 origins differ from each other in one respect or in how
texts run together. `MaxChanges` of 2 is the least with which replacing a document goes
unnoticed: other leaves and a node, or another version and its one hash.

Symmetry over the non-root ids (and files) is used only for invariants.
Deadlock checking is off for Collector: a finished trace, or a world that has
used up its timestamps, stops; and for Repx and Attestation, whose sessions end. It is
on for Probes, where tasks can always come
and go.

### Fairness

`Probes!FairSpec` has weak fairness for the two steps of `record_drop`: eBPF
programs are verified to terminate and run without blocking. `Collector!FairSpec`
has weak fairness for the collector's own steps: its loops poll with a timeout and
never wait for anyone. Nothing is assumed of the traced processes; that the ring
falls silent comes from the bound on events, so `Terminates` says that nothing but
a stream of new events keeps the collector from ending (a descendant that is
never quiet for 100 ms does). `Repx!FairSpec` has weak fairness for the slicer's walk and
emission, a loop in one thread that waits for nothing.

## Proofs

`ProbesProofs`, for all sets of tasks, descriptors and paths and all capacities:

* `TypeCorrect`: `TypeOK`, inductive as it stands.
* `Groups`: `GroupOK`, how the kernel relates tasks to groups (a leader's id is
  its group's id and is not released before its threads are gone). It rests on
  the model of the kernel and everything below uses it.
* `DropsFailClosedCorrect`: `DropsFailClosed` by a strengthening that speaks of
  calls still owed: a drop that is not yet on the counter has a task inside
  `record_drop`, whichever stale value the counter is overwritten with.
* `StashesCorrect`: `StashesInFlight`; ids are not released inside a call.
* `TreeTrackedCorrect` and `NoSilentLossCorrect`, assuming `~LeaderMayExitFirst`:
  while nothing was dropped, each live task of the tree, and each child a clone is
  about to return, has its group tracked; hence a probe never ignores a call of the
  tree, unless a drop was charged, which then shows on the counter. The assumption
  is needed: `probes_leader_exit` is the counterexample without it.
* `StaleHasCauseCorrect` and `SourceTruthfulCorrect`, with no hypothesis: the clone-exit probes
  attached or not, leaders exiting in any order, any PID recycled. `TrackingInv` holds until the
  first mishap: entries are live tasks of the tree (`EntriesLive`), a group is tracked with its
  threads (`GroupsTracked`), a live task has a live leader (`LeadersLive`), and a clone in flight
  will return a live task of the same tree (`ClonesLive`); without the last two the steps of
  `Exit` and `CloneExit` could not be shown to keep the first. Mishaps are never taken back
  (`MishapsGrow`), so `Tracked` carries this through the trace. That a call marked external is no call
  of the tree rests on `Covered`: until a leader exits first, the tree is tracked.
  `StashesTruthful` carries the source from the entry probe to the exit probe. That none of the
  mishaps happens is what `NoStaleTracking` would need, and `probes_stale` refutes.
* `ExternalWritesSeenCorrect`, assuming `SpelledAlike`: an absolute path below a watched
  directory begins with its bytes. The filters of the probes compare bytes, so the
  assumption is what `--watch` with an absolute, resolved path gives. Calls that watch
  mode is to report always have a stash entry (`WatchedStashed`).

`CollectorProofs`, for all constants including the width of the counter:

* `LifetimesFreshCorrect`: `Spec => LifetimesFresh`. The inductive invariant
  `FreshInv` says that each lifetime mentioned in `current_processes`,
  `process_cwds`, `fd_table` or `pending_renames` has a generation below the next
  one of its PID, unless that counter is saturated. `Preserved` reduces a step to
  what it adds, `Known` and `Forked` show that what `current_process` and
  `fork_process` return was handed out.
* `TypesCorrect`: `Spec => []TypeOK`. `TypeInv` says what raw events look like (`RawEvent`)
  and what tasks there are (`TasksInv`): what `process_event` finds in an event, and so
  what it files, depends on what the machine may do.
* `RootExitCorrect`: `Spec => []RootExitTruthful`. `RootInv` says that nobody else gets the
  PID of the root and that only it is filed under the first lifetime; `ExitInv` counts: in
  each phase of the loop, the exit of the root is either still in the ring or the buffer,
  or has become exactly one result, with the status of `waitpid`.

`CollectorLifetimeProofs`, assuming `Wide` (a `u32` counts the forks of one PID in a trace
without saturating; `MaxTime` bounds them):

* `LifetimesCorrect`: `Spec => []LifetimesTold`, with and without ties. The collector knows
  only PIDs and timestamps. `SeenInv` and `BirthInv` say what timestamps are worth: the fork
  of a process is older than all its events and younger than all events of those that had
  the PID before, and no tie can blur that, since the kernel releases a PID only after
  the exit. `LifeInv` says what was made of the events taken so far: the newest process
  of a PID whose fork was taken is the one in `current_processes`, and each process has one
  lifetime.
* `TreeLifetimesCorrect`: `Spec => []TreeLifetimesTruthful`, assuming `~Ties` too. The epochs
  need it: an event of a thread may share its timestamp with the exec of its leader and be
  taken on either side of it. `OrderInv` and `FirstInv` relate images to timestamps and
  single out the root's first exec, which is swallowed; `ImageInv` and `EpochInv` say that
  the epoch filed for a process is the number of its execs taken so far.

`CollectorAccountProofs`, assuming `Stationary` (names are UTF-8, and absolute or relative to a
working directory that is the same for all and that no rename moves; paths relative to a
descriptor, and `chdir` as far as `/proc` tells it too late, are hazards no property covers):

* `EventsAreAccounted`: `Spec => []EventsAccounted`, for any watched directories, any width of
  the counter, with and without ties. There are four ways for an event to leave no result.
  The exec that is swallowed is the first one of the root (`FirstInv`); the source of a
  rename waits for its other half (`PendingInv`); what the watch filter drops has names
  outside of the watched directories, since the path that is resolved later is the one the
  call had (`NamesInv`, `AllHome`); and a close or mmap of an external
  process whose descriptor is unknown belongs to an open that was dropped for that reason
  (`ExtInv`: neither a close nor a fork has come between the two). `AccountInv` counts
  what was taken against these.

`CollectorPathProofs`, assuming `Stationary`, `Wide`, `~Ties` and `Unwatched`:

* `PathsAreTruthful`: `Spec => []PathsTruthful`. The tables of the collector describe a machine
  that has since moved on. `HistInv` therefore says that there is a history, one picture of
  the files and descriptors for each timestamp, in which each event still in the ring or
  the buffer tells how one picture became the next (`Effect`), and that the tables are
  those of the picture of the last event taken (`Match`); `ToldInv` says it of the results.
  Each hypothesis is needed for that: two events of one timestamp may be taken in the
  other order (`~Ties`; `UniqueInv` is what remains of it), processes of a saturated PID
  share a lifetime and its descriptors (`Wide`), and a rename by an external process
  outside of the watched directories is dropped before it rewrites what is filed
  (`Unwatched`).

`RepxProofs`, for all builds, sessions and schedules (`BuildsUnderstood`: a program is a
sequence of steps, forks name processes of the build, and no process has more images than
epochs):

* `SliceImplementsProvenance`: `Spec => SliceIsProvenance`. `WalkInv` relates the walk to
  the graph: all members of the queue are included, the contents known are the
  outputs' and what included processes have read, and for a process that is
  included and off the queue its reads are known and their writers
  included. So when the queue is empty nothing is missing (`Close`), and a step adds
  suppliers only (`Grow`).
* `NothingRestsOnLoss`: `Spec => []FailClosed`, by what is known at each stage of the
  session about loss and the flag (`LossInv`).
* `VerifiedIsReproduced`: `Spec => []VerifiedMeansReproduced`. `VerdictInv` says that the
  recorded outputs were selected by `select_outputs` from the recorded snapshots, and
  that VERIFIED was said of equal roots, which hold equal outputs.
* `TypesCorrect`: `Spec => []TypeOK`. In `ShapeInv`, the epoch of a process is the number of
  images it has begun (`EpochInv`), so every event carries an instance; a position in `ops`
  and `external_ops` keeps the type it was pushed with (`CanonInv`), so what a close resolves
  is a write; and the scan credits instances only (`ScanInv`). The renames that are applied
  once more at the start of the walk are a fold over `rename_pairs`: `FoldDefined` shows that
  it has a value for any number of renames and `FixupNames` that it credits nobody new.
* `OutputsAreCommitted`: `Spec => []OutputsCommitted`. `CommitInv` says that the walk sets out from
  the contents of the outputs, and `SliceCommits` that the result has an operation that wrote
  each of them: of a process the walk has reached, of the writer that was chosen, or of nobody.
* `InputsAreReproduced`: `Spec => [](Plain(build) /\ lost = 0 => InputsReproduced)`. `FoldInv`
  says of the canonicalizer that each step of the tree that reads has an operation with
  what was observed, and each operation that reads has such a step; so a root tells the set
  of observations, also when it is sorted and its operations hashed in any order
  (`BaselineTells` for the attested run), and one observation tells the contents, or the name of what was
  missing. `Plain` is about the last point: an open that truncates is recorded as a read of an
  empty file, no drawn name makes a path system state, external processes read nothing below
  a watched directory, and two missing files do not have one name once drawn parts are
  normalized. Four of the checked
  builds are `Plain`: Make, Stage, Shared and Temporary.

`RepxFlowProofs`, for all builds that meet the hypothesis of each theorem:

* `ClosedWritesAreHashed`: `Spec => [](Disciplined(build) => ClosedWritesHashed)`. Both folds key
  pending writes by process and descriptor, and a fork copies the keys. `Held` says
  that whoever holds the descriptor of an operation has a key that points to it and has not
  closed it, in terms of how far the programs have come; `WritesInv` that each write is held
  or resolved. `Disciplined` says that numbers of
  descriptors are used as the kernel hands them out: one that is open for writing is not
  opened again before it was closed, in the process or its child, and a process is forked
  once; also that files of a watched directory are accessed by external processes only,
  which do not fork. Make, Stage, Temporary and Dropped are such builds.
* `ProducersAreIncluded`: `Spec => [](Attributed => ProducersIncluded)`. `Attributed` says what a
  producer is: an image that opened a file for writing whose descriptor was left to its own close
  or that of a child, and which has become the output by at most one rename. `Known` follows
  such a descriptor through the scan: its entry while it is open (`Own`), the copy in a
  child (`Inherited`), the credit after the close and the pair after the rename
  (`Credited`, `Remembered`); `FixupGrows` shows that the renames which are applied once more take nobody's
  credit away. All checked builds are `Attributed`.
* `DependenciesAreCommitted`: `Spec => [](Attributed /\ Derived /\ Distinct => DependenciesCommitted)`.
  `Derived` says that a derivation is a chain of processes, each of which reads what
  the one after it left, through regular files; `Distinct` that a file in between has the contents of an
  output only if it is one. `DependInv` says that the scan knows all reads and writers of such files
  and that what the walk has reached is committed; the first link of a chain that the walk
  would miss is shown not to exist (`ChainFollowed`). All checked builds are
  `Derived`, and only that of `slice_copy`, which is the finding, is not `Distinct`.

`AttestationProofs`, for all origins, any depth of trees and any number of keys:

* `RootInjective`: trees with one root have the same leaves. The levels are unfolded from
  the recursive definition (`LevelsAt`, `LevelShape`, `DepthIs`); two trees with one root
  agree level by level from the root down (`SameLevels`), which forces one depth
  (`SameDepth`), as a leaf is no inner node, and one number of leaves (`SameLength`), as
  padding is no leaf.
* `CommitmentInjective`: the commitment of version 0.3 determines its four fields. Counts
  and lengths are in front of what they count, so equal encodings can be taken apart from
  the left (`Cancel`, `WriteAllCancel`, `OutputCancel`), through any number of
  concatenated blocks.
* `DiffIsTruthful`: `Spec => []DiffTruthful`. What a document of any version says can be read
  from it (`DocumentIs`, `TreeRead`; for the flat node list of 0.1.0 `LegacyTree` finds leaves
  and root at their positions).
* `PinnedRootMeansSame`: `Spec => []PinnedMeansSame`, for any number of replaced parts.
  `FileInv` keeps of a replaced file that it can be parsed (`Parsed`), and of any other that it is
  the document of its origin. The rest follows from `validate` and the root alone: the three
  kinds of root tell the versions with a commitment apart (`CommitmentKind`, `PinnedVersion`), a
  commitment binds its four fields (`ValidatedBinds`), and operations without nodes are the leaves
  of the one tree with that process root (`LeavesRead`, with `RootInjective`).
* `SignaturesAreTruthful`: `Spec => []SignatureTruthful`. `EnvelopeInv` says that the
  one signature made with the key is over the payload as it was signed, whatever became of
  the payload since; equal payloads say the same (`PayloadIs`).
* `GeneratedKeysArePair`: `Spec => []KeysArePair`. `KeyInv` adds what generate-key relies
  on between its steps: no file before the first write, only its own private key before
  the second.

Assumptions used: `ConstantsOK`, `WorldConstantsOK`, `CollectorConstantsOK`,
`BuildConstantsOK`, `BuildsUnderstood`, `RepxConstantsOK`, `AttestationConstantsOK`,
`OriginsUnderstood`, which TLC evaluates on every run, and
the circumstances named above, which the theorems state as hypotheses; the runs of the
same properties are instances that satisfy them.

Induction over data is done with the least element of a set of numbers (`LeastNumber`, from
`WFMin` of `WellFoundedInduction`), since theorems with operator parameters cannot be used.

Only model-checked:

* liveness (`DropsAreCounted`, `Terminates`, `WalkEnds`): the prover has no fairness;
* `SameBuildSameRoot`, which compares the complete traces of two schedules, through both folds
  and the names each run has drawn. It needs the root as a function of the build and
  its files alone, which for the canonicalizer is a fact about sorted sequences of
  operations that were appended in two different orders.

## Plan

In this order:

1. A proof of `SameBuildSameRoot`: the bag of operations of a complete trace as a function of
   the build, its files and the drawn names; `FoldInv` and `WritesInv` are its halves.
2. `Trace`: probes and collector composed over the ring, with the drops in
   `dropped_events`; an abstract event stream (each call of the tree appears once, in
   order per task, or the trace is refused) that it implements. Close-on-exec and
   stale `WATCHED_FDS` entries belong here.

## Not modelled

Offset discovery, loading and attaching of programs, memory layout of events, the
letters by which drawn names and control files are recognized, JSON, base64 and
hexadecimal encodings, formatting and logging: input and output or data without
control. In the workspace: symbolic links, the exception for `.git`, directories
reached twice, and the normalization of paths given as flags. In file identity: the identity
of a file that cannot be read, and some of the names that are normalized (`importcfg.link`,
`/dev/pts`). A mapping of a descriptor that was opened with `O_TRUNC` is given the empty observation
of the open (`tracer.rs` 1528-1530), which `Builds` leaves out; no build of the runs maps one.
Descriptors are written to in `World` without regard to their mode, which only adds
behaviours. Watch directories are the same in both runs of a session. The Jaccard quotients of the stability report are
left out. Calls that the repository's README declares uncovered (`open`, `openat2`,
`dup*`, `io_uring`, network) have no probe and no action.
