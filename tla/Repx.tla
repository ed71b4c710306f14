-------------------------------- MODULE Repx --------------------------------
(***************************************************************************)
(* repx trace followed by repx verify, and repx harness: each run takes a  *)
(* snapshot, traces the build, takes another, selects the outputs, makes   *)
(* the operations with the canonicalizer or the slicer and commits to      *)
(* them.  Trees of hashes are modelled in Attestation; here the root is    *)
(* what it commits to.                                                     *)
(***************************************************************************)
EXTENDS Slice

CONSTANTS
  Workspace,   \* paths under the current directory
  MaxLost      \* events the ring may drop in a run

ASSUME RepxConstantsOK == MaxLost \in Nat

VARIABLES
  stage,       \* "ready", "run", "walk", "attested", "refused", "failed", "done"
  session,     \* [tool, allow, selection, lossy]: "trace" and then verify, or
               \* "harness"; --allow-dropped-events; the output flags; whether
               \* the ring is under pressure
  round,       \* how many runs were begun
  disk,        \* path -> contents
  before,      \* snapshot at the start of the run
  lost,        \* dropped_events
  outputs,     \* selected_outputs of the run
  attestation, \* the root that was written
  actual,      \* the root of the run that ended last
  verdict,
  baseline     \* history of the first run

resultVars == <<attestation, actual, verdict, baseline>>
runVars == <<stage, round, disk, before, lost, outputs>>
vars == <<buildVars, canonVars, sliceVars, session, resultVars, runVars>>
-----------------------------------------------------------------------------
(* workspace.rs.  An entry is the contents of a file, or Directory; links  *)
(* that lead nowhere, and what cannot be read, are no more than absent;    *)
(* no file of the workspace is a control file of Go.                       *)

snapshot(files) ==
  [p \in {q \in Workspace : files[q] # Absent} |-> files[p]]

OutputFile(new, p) == [path |-> p, hash |-> <<"content", new[p]>>]
RegularFiles(new) == {p \in DOMAIN new : new[p] # Directory}

\* Mutant: only files that are new.
new_outputs(old, new) == {OutputFile(new, p) : p \in RegularFiles(new) \ DOMAIN old}

changed_outputs(old, new) ==
  {OutputFile(new, p) :
     p \in {q \in RegularFiles(new) : q \in DOMAIN old => old[q] # new[q]}}

Inferred(sel) == sel.artifacts = {} /\ sel.output_roots = {}

\* An artifact that is no regular file after the build is an error.
Selectable(sel, new) == sel.artifacts \subseteq RegularFiles(new)

select_outputs(sel, old, new) ==
  IF Inferred(sel) THEN changed_outputs(old, new)
  ELSE {o \in changed_outputs(old, new) :
          \E r \in sel.output_roots : IsPrefix(r, o.path)}
       \cup {OutputFile(new, p) : p \in sel.artifacts}
-----------------------------------------------------------------------------
(* The runs.                                                               *)

\* Attestation::new_with_outputs; the command is the build.
root_hash(process_root, sel, outs) ==
  [process_root |-> process_root, output_selection |-> sel, outputs |-> outs]

None == [written |-> FALSE]
Runs == 2  \* of a harness: every later run is compared with the first

Init ==
  /\ build \in AllBuilds
  /\ session \in build.sessions
  /\ final = build.start /\ names \in build.names
  /\ at = [p \in Lifetimes |-> 1] /\ epoch = [p \in Lifetimes |-> 0]
  /\ CanonInit /\ ScanInit
  /\ stage = "ready" /\ round = 0
  /\ disk = build.start /\ before = <<>> /\ lost = 0 /\ outputs = {}
  /\ attestation = None /\ actual = None /\ verdict = "none" /\ baseline = None

\* The first snapshot; the traced command starts.
BeginRun ==
  /\ stage' = "run" /\ round' = round + 1
  /\ before' = snapshot(disk)
  /\ lost' = 0 /\ outputs' = {}
  /\ final' \in build.finals /\ names' \in build.names
  /\ at' = [p \in Lifetimes |-> 1] /\ epoch' = [p \in Lifetimes |-> 0]
  /\ CanonReset /\ ScanReset
  /\ UNCHANGED <<build, session, resultVars, disk>>

\* The first run of a trace or of a harness.
Trace == stage = "ready" /\ BeginRun

\* Someone puts the workspace back to what it was; the harness does not.
ResetWorkspace ==
  /\ stage = "attested" /\ session.tool = "trace"
  /\ disk # build.start
  /\ disk' = build.start
  /\ UNCHANGED <<buildVars, canonVars, sliceVars, session, resultVars,
                 stage, round, before, lost, outputs>>

\* validate_output_selection: the flags have to be those of the attestation.
VerifyRefused(sel) ==
  /\ stage = "attested" /\ session.tool = "trace"
  /\ sel # attestation.root.output_selection
  /\ stage' = "refused"
  /\ UNCHANGED <<buildVars, canonVars, sliceVars, session, resultVars,
                 round, disk, before, lost, outputs>>

Verify ==
  /\ stage = "attested" /\ session.tool = "trace"
  /\ session.selection = attestation.root.output_selection
  /\ BeginRun

HarnessAgain ==
  /\ stage = "attested" /\ session.tool = "harness" /\ round < Runs
  /\ BeginRun

\* An event reaches both folds, is lost, or is none that is traced.
Deliver(p) ==
  /\ stage = "run" /\ Enabled(p) /\ StepOf(p).type # "wait"
  /\ CanonStep(Event(p)) /\ ScanStep(Event(p))
  /\ Advance(p)
  /\ UNCHANGED <<session, resultVars, runVars>>

Lose(p) ==
  /\ stage = "run" /\ Enabled(p) /\ StepOf(p).type # "wait"
  /\ session.lossy /\ lost < MaxLost
  /\ lost' = lost + 1
  /\ Advance(p)
  /\ UNCHANGED <<canonVars, sliceVars, session, resultVars, stage, round,
                 disk, before, outputs>>

Wait(p) ==
  /\ stage = "run" /\ Enabled(p) /\ StepOf(p).type = "wait"
  /\ Advance(p)
  /\ UNCHANGED <<canonVars, sliceVars, session, resultVars, runVars>>

\* Whether the choice of an orphan's writer can be seen in the result.
Ambiguous ==
  \E h \in Orphans : Cardinality({flow_tool[x] : x \in Candidates(h)}) > 1

\* The attestation is written, or compared with the one that was.
Report(process_root, outs) ==
  LET root == root_hash(process_root, session.selection, outs)
  IN  /\ actual' = [written |-> TRUE, root |-> root]
      /\ IF round = 1
         THEN /\ stage' = "attested"
              /\ attestation' = actual'
              /\ baseline' = [written |-> TRUE, before |-> before, final |-> final,
                              lost |-> lost, outputs |-> outs,
                              ambiguous |-> Ambiguous]
              /\ UNCHANGED verdict
         ELSE /\ stage' = "done"
              /\ verdict' = IF root = attestation.root THEN "VERIFIED" ELSE "MISMATCH"
              /\ UNCHANGED <<attestation, baseline>>

\* Mutant: loss is tolerated when verifying too.
AllowedAlways == session.allow

AllowedLoss == session.allow /\ (round = 1 \/ session.tool = "harness")

EndFailed ==
  /\ stage = "run" /\ BuildDone
  /\ ~Selectable(session.selection, snapshot(final)) \/ (lost > 0 /\ ~AllowedLoss)
  /\ stage' = "failed" /\ disk' = final
  /\ UNCHANGED <<buildVars, canonVars, sliceVars, session, resultVars,
                 round, before, lost, outputs>>

EndTrace ==
  LET after == snapshot(final)
      outs == select_outputs(session.selection, before, after)
  IN  /\ stage = "run" /\ BuildDone
      /\ Selectable(session.selection, after)
      /\ lost > 0 => AllowedLoss
      /\ disk' = final /\ outputs' = outs
      /\ \/ /\ outs = {}
            /\ Report(canonicalize_events, outs)
            /\ UNCHANGED sliceVars
         \/ /\ StartWalk(outs)
            /\ stage' = "walk"
            /\ UNCHANGED resultVars
      /\ UNCHANGED <<buildVars, canonVars, session, round, before, lost>>

WalkStep ==
  /\ stage = "walk"
  /\ \E x \in queue : Pop(x)
  /\ UNCHANGED <<buildVars, canonVars, session, resultVars, runVars>>

Emit ==
  /\ stage = "walk"
  /\ EndWalk
  /\ \E result \in canonicalize_output_slice : Report(result, outputs)
  /\ UNCHANGED <<buildVars, canonVars, session, round, disk, before, lost, outputs>>

Next ==
  \/ Trace \/ ResetWorkspace \/ Verify \/ HarnessAgain
  \/ \E s \in build.sessions : VerifyRefused(s.selection)
  \/ \E p \in Lifetimes : Deliver(p) \/ Lose(p) \/ Wait(p)
  \/ EndFailed \/ EndTrace \/ WalkStep \/ Emit

Spec == Init /\ [][Next]_vars

\* The loops of the slicer run on by themselves.
FairSpec == Spec /\ WF_vars(WalkStep \/ Emit)
-----------------------------------------------------------------------------
(* Properties.                                                             *)

Ended == stage \in {"attested", "done"}

\* Whether contents h are part of a committed operation.
Committed(h) ==
  \E leaf \in actual.root.process_root : \E i \in DOMAIN leaf : leaf[i] = h

\* A pending write is the position of a write operation, as the index into
\* ops or external_ops that a close resolves has to be.
PendingResolvable ==
  /\ \A k \in DOMAIN pending_writes :
       /\ pending_writes[k] \in DOMAIN ops
       /\ ops[pending_writes[k]].op_type = "file_write"
  /\ \A k \in DOMAIN external_pending_writes :
       /\ external_pending_writes[k] \in DOMAIN external_ops
       /\ external_ops[external_pending_writes[k]].op_type = "external_file_write"

\* The state has the shape the code's types and indices give it.
TypeOK ==
  /\ stage \in {"ready", "run", "walk", "attested", "refused", "failed", "done"}
  /\ verdict \in {"none", "VERIFIED", "MISMATCH"}
  /\ lost \in 0 .. MaxLost
  /\ at \in [Lifetimes -> Nat \ {0}]
  /\ epoch \in [Lifetimes -> 0 .. MaxEpoch]
  /\ DOMAIN process_to_index \cup DOMAIN process_to_tool_hash \subseteq Instances
  /\ fallback_external_processes \subseteq Lifetimes
  /\ PendingResolvable
  /\ \A k \in DOMAIN open_writes : open_writes[k].process \in Instances
  /\ \A r \in reads \cup writes \cup renames : r[1] \in Instances
  /\ \A w \in writers_by_hash \cup writers_by_path : w[2] \in Instances
  /\ included_processes \subseteq Instances
  /\ queue \subseteq included_processes

\* "same build, same root" (harness.rs): a build that does the same, from the
\* same files and without loss, has the same root however its processes are
\* scheduled, unless the slicer had to choose between writers.
SameBuildSameRoot ==
  verdict = "MISMATCH" =>
    \/ before # baseline.before \/ final # baseline.final
    \/ lost + baseline.lost > 0
    \/ Ambiguous \/ baseline.ambiguous

\* VERIFIED means that the outputs came out the same: those of the attested
\* run, and when outputs are inferred every regular file that is there after
\* both runs (one that only one of them removed is no output of either).
VerifiedMeansReproduced ==
  verdict = "VERIFIED" =>
    /\ \A o \in baseline.outputs : final[o.path] = baseline.final[o.path]
    /\ Inferred(session.selection) /\ before = baseline.before =>
         \A p \in RegularFiles(snapshot(final)) \cap RegularFiles(snapshot(baseline.final)) :
            final[p] = baseline.final[p]

\* Without outputs to start from the whole trace is attested: VERIFIED then
\* means that the processes of the tree have read the same contents, and
\* found the same files missing, whatever names were drawn.
InputsReproduced ==
  LET IsRead(s) == /\ s.type \in {"open", "mmap"} /\ s.path # NoPath
                   /\ s.mode \in {"r", "rw"} /\ ~is_system_state(s.path)
      ReadPaths == UNION {{Program(p)[k].path :
                             k \in {j \in DOMAIN Program(p) : IsRead(Program(p)[j])}} :
                           p \in Lifetimes \ External}
      Found(files) == {files[path] : path \in ReadPaths \cap DOMAIN files} \ {Absent}
      NotFound(files) ==
        {path \in ReadPaths : path \in DOMAIN files => files[path] = Absent}
  IN  verdict = "VERIFIED" /\ outputs = {} /\ baseline.lost = 0 =>
        /\ Found(final) = Found(baseline.final)
        /\ NotFound(final) = NotFound(baseline.final)

\* Nothing rests on an incomplete trace unless --allow-dropped-events was
\* given, and what verify says never does.
FailClosed ==
  /\ baseline.written /\ baseline.lost > 0 => session.allow
  /\ verdict # "none" /\ lost > 0 => session.allow /\ session.tool = "harness"

\* Every write whose descriptor its process, or a child that inherited it,
\* has closed carries the contents by the time the trace is complete: no
\* close was taken for another descriptor's or for another process's.
ClosedWritesHashed ==
  LET Closes(q, from, fd) ==
        \E j \in DOMAIN Program(q) :
           /\ j > from /\ Program(q)[j].type = "close" /\ Program(q)[j].fd = fd
           /\ Program(q)[j].path # NoPath /\ can_write(Program(q)[j])
      Closed(i) ==
        LET p == i[1][1]
            k == i[1][2]
            fd == Program(p)[k].fd
        IN  \/ Closes(p, k, fd)
            \/ \E q \in Lifetimes : /\ \E f \in Forks(p, q) : f > k
                                    /\ Closes(q, 0, fd)
      Unresolved(list) ==
        {i \in DOMAIN list : /\ i[2] \in {"file_write", "external_file_write"}
                             /\ list[i].output_hashes = <<>>}
  IN  stage = "run" /\ BuildDone /\ lost = 0 =>
        \A i \in Unresolved(ops) \cup Unresolved(external_ops) : ~Closed(i)

\* Who opened a selected output for writing is in the slice, through forks,
\* execs and renames of the file or of a directory above it.
ProducersIncluded ==
  Ended /\ lost = 0 =>
    \A d \in build.producers :
       (\E o \in outputs : o.path = d.path) => d.process \in included_processes

\* An output-rooted attestation commits every selected output (README.md),
\* also those that nobody was seen to write.
OutputsCommitted ==
  Ended => \A o \in actual.root.outputs : Committed(o.hash)

\* It commits what the outputs were made from (README.md: "content-resolved
\* dependencies"), as long as what lies in between is still there.
DependenciesCommitted ==
  Ended /\ lost = 0 =>
    \A d \in build.derivations :
       /\ \E o \in outputs : o.path = d.output
       /\ \A path \in d.through \cup {d.input} : final[path] # Absent
       => Committed(<<"content", final[d.input]>>)

\* The walk comes to an end.
WalkEnds == stage = "walk" ~> stage # "walk"

\* What the slicer does is what Provenance allows; contents equal to an
\* output's are not followed.
Sliced == INSTANCE Provenance WITH
  reading   <- {r \in reads : r[2] \notin output_hashes},
  producing <- writers_by_hash,
  seeds     <- Seeds(writers_by_path, outputs),
  included  <- included_processes,
  slicing   <- IF walking THEN "growing"
               ELSE IF output_hashes = {} THEN "open" ELSE "closed"

\* The slicer implements Provenance.
SliceIsProvenance == Sliced!ProvenanceSpec
=============================================================================
