----------------------------- MODULE RepxProofs -----------------------------
(***************************************************************************)
(* Proofs about repx trace, verify and harness for every build, however    *)
(* many processes, files and events it has.                                *)
(*                                                                         *)
(* The slicer implements Provenance.  The only step in question is the     *)
(* last one: that an empty queue means that nobody is missing.  WalkInv    *)
(* says what is settled while the queue is not empty: what a process that  *)
(* left the queue has read is relevant, and whoever wrote something        *)
(* relevant (and no output) is included.                                   *)
(*                                                                         *)
(* Below: what a verdict means and what it rests on; the types of both     *)
(* folds; that outputs are committed; that inputs are reproduced.          *)
(***************************************************************************)
EXTENDS Repx, TLAPS, WellFoundedInduction, FiniteSetTheorems, SequenceTheorems

Settled ==
  /\ output_hashes # {}
  /\ output_hashes \subseteq relevant_hashes
  /\ queue \subseteq included_processes
  /\ \A r \in reads : r[1] \in included_processes \ queue => r[2] \in relevant_hashes
  /\ \A w \in writers_by_hash :
        w[1] \in relevant_hashes \ output_hashes => w[2] \in included_processes

Unsliced == output_hashes = {} /\ included_processes = {}

WalkInv ==
  /\ walking = (stage = "walk")
  /\ stage \in {"ready", "run"} => Unsliced
  /\ stage = "walk" => Settled
-----------------------------------------------------------------------------
(* WalkInv is inductive.                                                   *)

\* Before the first run nothing is sliced.
LEMMA WalkInit == Init => WalkInv
BY DEF Init, ScanInit, WalkInv, Unsliced

\* A run begins with the slicer's locals reset.
LEMMA WalkBegin ==
  ASSUME BeginRun
  PROVE  WalkInv' /\ Unsliced' /\ walking' = FALSE
BY DEF BeginRun, ScanReset, WalkInv, Unsliced

\* The walk starts with the producers of the outputs in the queue.
LEMMA WalkStart ==
  ASSUME NEW outs, StartWalk(outs)
  PROVE  Settled' /\ walking' = TRUE
<1>1. \E o \in outs : o.hash \in output_hashes'
  BY DEF StartWalk
<1>. QED
  BY <1>1 DEF StartWalk, Settled

\* A process leaves the queue when all it has read is relevant and whoever
\* wrote that is included.
LEMMA WalkPop ==
  ASSUME NEW x, Settled, Pop(x)
  PROVE  Settled'
<1>. DEFINE fresh == {h \in {r[2] : r \in {s \in reads : s[1] = x}} : h \notin relevant_hashes}
            found == {w[2] : w \in {v \in writers_by_hash : v[1] \in fresh}}
                       \ included_processes
<1>1. /\ relevant_hashes' = relevant_hashes \cup fresh
      /\ included_processes' = included_processes \cup found
      /\ queue' = (queue \ {x}) \cup found
      /\ UNCHANGED <<output_hashes, reads, writers_by_hash>>
  BY DEF Pop, scanVars, flowVars, writerVars
<1>2. \A r \in reads : r[1] = x => r[2] \in relevant_hashes \cup fresh
  OBVIOUS
<1>3. \A w \in writers_by_hash : w[1] \in fresh => w[2] \in included_processes \cup found
  OBVIOUS
<1>. HIDE DEF fresh, found
<1>4. /\ output_hashes' # {}
      /\ output_hashes' \subseteq relevant_hashes'
      /\ queue' \subseteq included_processes'
  BY <1>1 DEF Settled
<1>5. ASSUME NEW r \in reads', r[1] \in included_processes' \ queue'
      PROVE  r[2] \in relevant_hashes'
  BY <1>1, <1>2, <1>5 DEF Settled
<1>6. ASSUME NEW w \in writers_by_hash', w[1] \in relevant_hashes' \ output_hashes'
      PROVE  w[2] \in included_processes'
  BY <1>1, <1>3, <1>6 DEF Settled
<1>. QED
  BY <1>4, <1>5, <1>6 DEF Settled

\* Every step keeps WalkInv.
LEMMA WalkNext == WalkInv /\ [Next]_vars => WalkInv'
<1>. SUFFICES ASSUME WalkInv, [Next]_vars PROVE WalkInv'
  OBVIOUS
<1>1. CASE Trace
  BY <1>1, WalkBegin DEF Trace
<1>2. CASE Verify
  BY <1>2, WalkBegin DEF Verify
<1>3. CASE HarnessAgain
  BY <1>3, WalkBegin DEF HarnessAgain
<1>4. CASE ResetWorkspace
  BY <1>4 DEF ResetWorkspace, WalkInv, Unsliced, Settled, sliceVars, walkVars, scanVars,
              flowVars, writerVars
<1>5. ASSUME NEW sel, VerifyRefused(sel) PROVE WalkInv'
  BY <1>5 DEF VerifyRefused, WalkInv, Unsliced, Settled, sliceVars, walkVars
<1>6. ASSUME NEW p \in Lifetimes, Deliver(p) PROVE WalkInv'
  BY <1>6 DEF Deliver, ScanStep, WalkInv, Unsliced, runVars, walkVars
<1>7. ASSUME NEW p \in Lifetimes, Lose(p) PROVE WalkInv'
  BY <1>7 DEF Lose, WalkInv, Unsliced, sliceVars, walkVars
<1>8. ASSUME NEW p \in Lifetimes, Wait(p) PROVE WalkInv'
  BY <1>8 DEF Wait, WalkInv, Unsliced, sliceVars, walkVars, runVars
<1>9. CASE EndFailed
  BY <1>9 DEF EndFailed, WalkInv, sliceVars, walkVars
<1>10. CASE EndTrace
  <2>. DEFINE outs == select_outputs(session.selection, before, snapshot(final))
  <2>1. CASE Report(canonicalize_events, outs) /\ UNCHANGED sliceVars
    <3>1. stage' \in {"attested", "done"}
      BY <2>1 DEF Report
    <3>. QED
      BY <1>10, <2>1, <3>1 DEF EndTrace, WalkInv, sliceVars, walkVars
  <2>2. CASE StartWalk(outs) /\ stage' = "walk"
    BY <2>2, WalkStart DEF WalkInv
  <2>. QED
    BY <1>10, <2>1, <2>2 DEF EndTrace
<1>11. CASE WalkStep
  <2>1. PICK x : Pop(x)
    BY <1>11 DEF WalkStep
  <2>2. Settled'
    BY <1>11, <2>1, WalkPop DEF WalkStep, WalkInv
  <2>. QED
    BY <1>11, <2>1, <2>2 DEF WalkStep, WalkInv, Pop, runVars
<1>12. CASE Emit
  <2>1. stage' \in {"attested", "done"}
    BY <1>12 DEF Emit, Report
  <2>. QED
    BY <1>12, <2>1 DEF Emit, EndWalk, WalkInv
<1>13. CASE UNCHANGED vars
  BY <1>13 DEF vars, runVars, sliceVars, walkVars, scanVars, flowVars, writerVars, WalkInv,
               Unsliced, Settled
<1>. QED
  BY <1>1, <1>2, <1>3, <1>4, <1>5, <1>6, <1>7, <1>8, <1>9, <1>10, <1>11, <1>12, <1>13
  DEF Next
-----------------------------------------------------------------------------
(* Refinement.                                                             *)

\* A step at which nothing is sliced is one at which the trace is read.
LEMMA ReadsTrace ==
  ASSUME Unsliced', walking' = FALSE
  PROVE  Sliced!Observe
BY DEF Unsliced, Sliced!Observe

\* Steps of the session leave the slice alone.
LEMMA LeavesSlice ==
  ASSUME UNCHANGED sliceVars, UNCHANGED outputs
  PROVE  UNCHANGED Sliced!provenanceVars
BY DEF sliceVars, scanVars, walkVars, flowVars, writerVars, Seeds,
       Sliced!provenanceVars, Sliced!graphVars

\* The walk takes in suppliers only.
LEMMA PopGrows ==
  ASSUME NEW x, Settled, walking = TRUE, Pop(x), UNCHANGED outputs
  PROVE  Sliced!Grow
<1>. DEFINE fresh == {h \in {r[2] : r \in {s \in reads : s[1] = x}} : h \notin relevant_hashes}
            found == {w[2] : w \in {v \in writers_by_hash : v[1] \in fresh}}
                       \ included_processes
<1>1. /\ included_processes' = included_processes \cup found
      /\ x \in included_processes
      /\ UNCHANGED <<output_hashes, reads, writers_by_hash, writers_by_path, walking>>
  BY DEF Pop, scanVars, flowVars, writerVars, Settled
<1>2. \A w \in found : w \in Sliced!Suppliers(included_processes)
  <2>. TAKE w \in found
  <2>1. PICK v \in writers_by_hash : v[1] \in fresh /\ v[2] = w
    OBVIOUS
  <2>2. PICK r \in reads : r[1] = x /\ r[2] = v[1] /\ v[1] \notin relevant_hashes
    BY <2>1
  <2>3. r \in {q \in reads : q[2] \notin output_hashes}
    BY <2>2 DEF Settled
  <2>. QED
    BY <1>1, <2>1, <2>2, <2>3 DEF Sliced!Suppliers
<1>. HIDE DEF fresh, found
<1>3. UNCHANGED Sliced!graphVars
  BY <1>1 DEF Sliced!graphVars, Seeds
<1>. QED
  BY <1>1, <1>2, <1>3 DEF Sliced!Grow

\* When the queue is empty nobody is missing.
LEMMA EmitCloses ==
  ASSUME Settled, walking = TRUE, EndWalk, UNCHANGED outputs
  PROVE  Sliced!Close
<1>1. /\ UNCHANGED <<output_hashes, reads, writers_by_hash, writers_by_path,
                     included_processes>>
      /\ walking' = FALSE /\ queue = {} /\ output_hashes # {}
  BY DEF EndWalk, scanVars, flowVars, writerVars, Settled
<1>2. ASSUME NEW v \in writers_by_hash, NEW r \in reads, r[2] \notin output_hashes,
             r[1] \in included_processes, r[2] = v[1]
      PROVE  v[2] \in included_processes
  BY <1>1, <1>2 DEF Settled
<1>3. Sliced!Suppliers(included_processes) \subseteq included_processes
  BY <1>2 DEF Sliced!Suppliers
<1>4. UNCHANGED Sliced!graphVars
  BY <1>1 DEF Sliced!graphVars, Seeds
<1>. QED
  BY <1>1, <1>3, <1>4 DEF Sliced!Close

\* Every step of repx is one of Provenance, or leaves it alone.
LEMMA StepImplements ==
  WalkInv /\ WalkInv' /\ [Next]_vars => [Sliced!ProvenanceNext]_(Sliced!provenanceVars)
<1>. SUFFICES ASSUME WalkInv, WalkInv', [Next]_vars
              PROVE  Sliced!ProvenanceNext \/ UNCHANGED Sliced!provenanceVars
  OBVIOUS
<1>1. CASE BeginRun
  BY <1>1, WalkBegin, ReadsTrace DEF Sliced!ProvenanceNext
<1>2. CASE UNCHANGED sliceVars /\ UNCHANGED outputs
  BY <1>2, LeavesSlice
<1>3. CASE stage = "run" /\ UNCHANGED walkVars
  BY <1>3, ReadsTrace DEF walkVars, WalkInv, Unsliced, Sliced!ProvenanceNext
<1>4. CASE EndTrace
  <2>. DEFINE outs == select_outputs(session.selection, before, snapshot(final))
  <2>1. CASE UNCHANGED sliceVars
    BY <1>3, <1>4, <2>1 DEF EndTrace, sliceVars
  <2>2. CASE StartWalk(outs)
    <3>1. outputs' = outs /\ walking = FALSE /\ output_hashes = {}
      BY <1>4 DEF EndTrace, WalkInv, Unsliced
    <3>2. walking' = TRUE /\ included_processes' = Seeds(writers_by_path, outputs)'
      BY <2>2, <3>1 DEF StartWalk, Seeds
    <3>. QED
      BY <3>1, <3>2 DEF Sliced!Begin, Sliced!ProvenanceNext
  <2>. QED
    BY <1>4, <2>1, <2>2 DEF EndTrace
<1>5. CASE WalkStep
  <2>1. PICK x : Pop(x)
    BY <1>5 DEF WalkStep
  <2>. QED
    BY <1>5, <2>1, PopGrows DEF WalkStep, WalkInv, runVars, Sliced!ProvenanceNext
<1>6. CASE Emit
  BY <1>6, EmitCloses DEF Emit, WalkInv, Sliced!ProvenanceNext
<1>7. CASE Trace \/ Verify \/ HarnessAgain
  BY <1>1, <1>7 DEF Trace, Verify, HarnessAgain
<1>8. CASE ResetWorkspace \/ \E s \in build.sessions : VerifyRefused(s.selection)
  BY <1>2, <1>8 DEF ResetWorkspace, VerifyRefused
<1>9. CASE EndFailed \/ \E p \in Lifetimes : Deliver(p) \/ Lose(p) \/ Wait(p)
  BY <1>3, <1>9 DEF EndFailed, Deliver, Lose, Wait, ScanStep, sliceVars
<1>10. CASE UNCHANGED vars
  BY <1>2, <1>10 DEF vars, runVars
<1>. QED
  BY <1>4, <1>5, <1>6, <1>7, <1>8, <1>9, <1>10 DEF Next

\* The slicer implements Provenance: what canonicalize_output_slice includes
\* is the least set that holds the producers of the selected outputs and, of
\* everything a member has read (other than the outputs' contents), the
\* producers.
THEOREM SliceImplementsProvenance == Spec => SliceIsProvenance
<1>1. Init => Sliced!ProvenanceInit
  BY DEF Init, ScanInit, Sliced!ProvenanceInit
<1>2. Spec => []WalkInv
  BY WalkInit, WalkNext, PTL DEF Spec
<1>. QED
  BY <1>1, <1>2, StepImplements, PTL DEF Spec, SliceIsProvenance, Sliced!ProvenanceSpec
-----------------------------------------------------------------------------
(* Verdicts.                                                               *)

\* Where a session stands: a verdict ends it, and from its second run on
\* there is an attestation to compare with.
SessionInv ==
  /\ round \in Nat
  /\ verdict # "none" => stage = "done"
  /\ stage = "ready" => round = 0
  /\ stage # "ready" => round # 0
  /\ stage = "attested" => attestation.written
  /\ stage \in {"run", "walk"} /\ round # 1 => attestation.written

\* The outputs outs are those that the flags select between two snapshots.
SelectedBy(outs, old, files) ==
  /\ outs = select_outputs(session.selection, old, snapshot(files))
  /\ Selectable(session.selection, snapshot(files))

\* What is remembered of the first run, and of a run that is being sliced.
RecordInv ==
  /\ attestation.written =>
       /\ attestation.root.outputs = baseline.outputs
       /\ SelectedBy(baseline.outputs, baseline.before, baseline.final)
  /\ stage = "walk" => SelectedBy(outputs, before, final)

LossInv ==
  /\ stage = "walk" /\ lost > 0 => AllowedLoss
  /\ FailClosed

VerdictInv == SessionInv /\ RecordInv /\ LossInv /\ VerifiedMeansReproduced

\* A session begins without a verdict and without an attestation.
LEMMA VerdictInit == Init => VerdictInv
BY DEF Init, None, VerdictInv, SessionInv, RecordInv, LossInv, FailClosed,
       VerifiedMeansReproduced

\* A selected output carries the contents the build left at its path.
LEMMA OutputContents ==
  ASSUME NEW outs, NEW old, NEW files, SelectedBy(outs, old, files), NEW o \in outs
  PROVE  o.hash = <<"content", files[o.path]>>
<1>. DEFINE new == snapshot(files)
<1>1. PICK p \in RegularFiles(new) : o = OutputFile(new, p)
  BY DEF SelectedBy, select_outputs, Selectable, changed_outputs
<1>2. new[p] = files[p]
  BY <1>1 DEF RegularFiles, snapshot
<1>. QED
  BY <1>1, <1>2 DEF OutputFile

\* Equal selected outputs mean equal files, where they are outputs.
LEMMA EqualOutputs ==
  ASSUME NEW outs, NEW old, NEW files, SelectedBy(outs, old, files),
         NEW old2, NEW files2, SelectedBy(outs, old2, files2), NEW o \in outs
  PROVE  files[o.path] = files2[o.path]
<1>1. o.hash = <<"content", files[o.path]>>
  BY OutputContents
<1>2. o.hash = <<"content", files2[o.path]>>
  BY OutputContents
<1>. QED
  BY <1>1, <1>2

\* A file that is there after both builds and that one of them has changed
\* is an output.
LEMMA EqualFiles ==
  ASSUME Inferred(session.selection),
         NEW outs, NEW old, NEW files, SelectedBy(outs, old, files),
         NEW files2, SelectedBy(outs, old, files2),
         NEW p \in RegularFiles(snapshot(files)) \cap RegularFiles(snapshot(files2))
  PROVE  files[p] = files2[p]
<1>. DEFINE new == snapshot(files)
            new2 == snapshot(files2)
<1>1. outs = changed_outputs(old, new) /\ outs = changed_outputs(old, new2)
  BY DEF SelectedBy, select_outputs
<1>2. new[p] = files[p] /\ new2[p] = files2[p]
  BY DEF RegularFiles, snapshot
<1>3. CASE p \in DOMAIN old => old[p] # new[p]
  <2>1. OutputFile(new, p) \in outs /\ OutputFile(new, p).path = p
    BY <1>1, <1>3 DEF changed_outputs, OutputFile
  <2>. QED
    BY <2>1, EqualOutputs
<1>4. CASE p \in DOMAIN old => old[p] # new2[p]
  <2>1. OutputFile(new2, p) \in outs /\ OutputFile(new2, p).path = p
    BY <1>1, <1>4 DEF changed_outputs, OutputFile
  <2>. QED
    BY <2>1, EqualOutputs
<1>. QED
  BY <1>2, <1>3, <1>4

\* A run that ends with a report ends with a true one.
LEMMA ReportKeeps ==
  ASSUME VerdictInv, NEW process_root, NEW outs, Report(process_root, outs),
         stage \in {"run", "walk"},
         SelectedBy(outs, before, final), lost > 0 => AllowedLoss,
         outputs' = outs,
         UNCHANGED <<session, round, before, lost, final>>
  PROVE  VerdictInv'
<1>1. verdict = "none" /\ round # 0
  BY DEF VerdictInv, SessionInv
<1>2. CASE round = 1
  <2>1. /\ stage' = "attested" /\ verdict' = verdict
        /\ attestation'.written /\ attestation'.root.outputs = outs
        /\ baseline'.outputs = outs /\ baseline'.before = before
        /\ baseline'.final = final /\ baseline'.lost = lost
    BY <1>2 DEF Report, root_hash
  <2>2. SessionInv'
    BY <1>1, <2>1 DEF VerdictInv, SessionInv
  <2>3. RecordInv'
    BY <2>1 DEF RecordInv, SelectedBy
  <2>4. LossInv'
    BY <1>1, <2>1 DEF LossInv, FailClosed, AllowedLoss
  <2>. QED
    BY <1>1, <2>1, <2>2, <2>3, <2>4 DEF VerdictInv, VerifiedMeansReproduced
<1>3. CASE round # 1
  <2>1. /\ stage' = "done" /\ UNCHANGED <<attestation, baseline>>
        /\ verdict' = "VERIFIED" => attestation.root.outputs = outs
    BY <1>3 DEF Report, root_hash
  <2>2. attestation.written
    BY <1>3 DEF VerdictInv, SessionInv
  <2>3. SessionInv'
    BY <1>1, <2>1 DEF VerdictInv, SessionInv
  <2>4. RecordInv'
    BY <2>1 DEF VerdictInv, RecordInv, SelectedBy
  <2>5. LossInv'
    BY <1>3, <2>1 DEF VerdictInv, LossInv, FailClosed, AllowedLoss
  <2>6. ASSUME verdict' = "VERIFIED"
        PROVE  /\ SelectedBy(baseline.outputs, before, final)
               /\ SelectedBy(baseline.outputs, baseline.before, baseline.final)
    BY <2>1, <2>2, <2>6 DEF VerdictInv, RecordInv
  <2>7. ASSUME verdict' = "VERIFIED", NEW o \in baseline.outputs
        PROVE  final[o.path] = baseline.final[o.path]
    BY <2>6, <2>7, EqualOutputs
  <2>8. ASSUME verdict' = "VERIFIED", Inferred(session.selection), before = baseline.before,
               NEW p \in RegularFiles(snapshot(final))
                           \cap RegularFiles(snapshot(baseline.final))
        PROVE  final[p] = baseline.final[p]
    BY <2>6, <2>8, EqualFiles
  <2>9. VerifiedMeansReproduced'
    BY <2>1, <2>7, <2>8 DEF VerifiedMeansReproduced, Inferred, RegularFiles, snapshot
  <2>. QED
    BY <2>3, <2>4, <2>5, <2>9 DEF VerdictInv
<1>. QED
  BY <1>2, <1>3

\* The next run of a session that has no verdict yet.
LEMMA BeginKeeps ==
  ASSUME VerdictInv, BeginRun, \/ stage = "ready"
                               \/ stage = "attested"
  PROVE  VerdictInv'
<1>1. /\ verdict = "none" /\ stage' = "run" /\ round' = round + 1
      /\ UNCHANGED <<session, attestation, verdict, baseline>>
  BY DEF BeginRun, resultVars, VerdictInv, SessionInv
<1>. QED
  BY <1>1 DEF VerdictInv, SessionInv, RecordInv, LossInv, FailClosed, SelectedBy,
              VerifiedMeansReproduced

\* Steps within a run, and steps that only touch the disk or end in failure.
LEMMA QuietKeeps ==
  ASSUME VerdictInv, UNCHANGED <<session, resultVars, round>>,
         \/ UNCHANGED <<stage, before, lost, outputs, final>>
         \/ stage \in {"run", "walk", "attested"} /\ stage' \in {"run", "refused", "failed"}
            /\ (stage' = "run" => stage = "run")
  PROVE  VerdictInv'
BY DEF VerdictInv, SessionInv, RecordInv, LossInv, FailClosed, AllowedLoss, SelectedBy,
       Selectable, select_outputs, VerifiedMeansReproduced, resultVars

\* Every step keeps VerdictInv.
LEMMA VerdictNext == VerdictInv /\ [Next]_vars => VerdictInv'
<1>. SUFFICES ASSUME VerdictInv, [Next]_vars PROVE VerdictInv'
  OBVIOUS
<1>1. CASE Trace \/ Verify \/ HarnessAgain
  BY <1>1, BeginKeeps DEF Trace, Verify, HarnessAgain
<1>2. CASE ResetWorkspace
  BY <1>2, QuietKeeps DEF ResetWorkspace, buildVars
<1>3. ASSUME NEW sel, VerifyRefused(sel) PROVE VerdictInv'
  BY <1>3, QuietKeeps DEF VerifyRefused
<1>4. ASSUME NEW p \in Lifetimes, Deliver(p) \/ Lose(p) \/ Wait(p) PROVE VerdictInv'
  <2>1. stage = "run" /\ stage' = "run" /\ UNCHANGED <<session, resultVars, round>>
    BY <1>4 DEF Deliver, Lose, Wait, runVars
  <2>. QED
    BY <2>1, QuietKeeps
<1>5. CASE EndFailed
  BY <1>5, QuietKeeps DEF EndFailed
<1>6. CASE EndTrace
  <2>. DEFINE outs == select_outputs(session.selection, before, snapshot(final))
  <2>1. /\ stage = "run" /\ outputs' = outs /\ (lost > 0 => AllowedLoss)
        /\ Selectable(session.selection, snapshot(final))
        /\ UNCHANGED <<session, round, before, lost, final>>
    BY <1>6 DEF EndTrace, buildVars
  <2>2. SelectedBy(outs, before, final)
    BY <2>1 DEF SelectedBy
  <2>. HIDE DEF outs
  <2>3. CASE Report(canonicalize_events, outs)
    BY <2>1, <2>2, <2>3, ReportKeeps
  <2>4. CASE stage' = "walk" /\ UNCHANGED resultVars
    <3>1. UNCHANGED <<attestation, verdict, baseline>> /\ verdict = "none"
      BY <2>1, <2>4 DEF resultVars, VerdictInv, SessionInv
    <3>2. SessionInv' /\ RecordInv'
      BY <2>1, <2>2, <2>4, <3>1 DEF VerdictInv, SessionInv, RecordInv, SelectedBy
    <3>3. LossInv' /\ VerifiedMeansReproduced'
      BY <2>1, <2>4, <3>1 DEF VerdictInv, LossInv, FailClosed, AllowedLoss,
                              VerifiedMeansReproduced
    <3>. QED
      BY <3>2, <3>3 DEF VerdictInv
  <2>. QED
    BY <1>6, <2>3, <2>4 DEF EndTrace, outs
<1>7. CASE WalkStep
  BY <1>7, QuietKeeps DEF WalkStep, runVars, buildVars
<1>8. CASE Emit
  <2>1. PICK result : Report(result, outputs)
    BY <1>8 DEF Emit
  <2>2. /\ stage = "walk" /\ outputs' = outputs
        /\ UNCHANGED <<session, round, before, lost, final>>
    BY <1>8 DEF Emit, buildVars
  <2>3. SelectedBy(outputs, before, final) /\ (lost > 0 => AllowedLoss)
    BY <2>2 DEF VerdictInv, RecordInv, LossInv
  <2>. QED
    BY <2>1, <2>2, <2>3, ReportKeeps
<1>9. CASE UNCHANGED vars
  BY <1>9, QuietKeeps DEF vars, runVars, buildVars
<1>. QED
  BY <1>1, <1>2, <1>3, <1>4, <1>5, <1>6, <1>7, <1>8, <1>9 DEF Next

\* trace attests, and verify answers, on complete traces only, unless the
\* user allowed dropped events; verify never does.
THEOREM NothingRestsOnLoss == Spec => []FailClosed
<1>1. VerdictInv => FailClosed
  BY DEF VerdictInv, LossInv
<1>. QED
  BY <1>1, VerdictInit, VerdictNext, PTL DEF Spec

\* VERIFIED is said of builds whose outputs are the attested ones, and then
\* also of every file that inferring the outputs could have found.
THEOREM VerifiedIsReproduced == Spec => []VerifiedMeansReproduced
<1>1. VerdictInv => VerifiedMeansReproduced
  BY DEF VerdictInv
<1>. QED
  BY <1>1, VerdictInit, VerdictNext, PTL DEF Spec
-----------------------------------------------------------------------------
(* Proofs about the two folds over the trace, for every build whose        *)
(* programs fork its own processes and have no more images than there are  *)
(* epochs (Understood), however many renames it makes and whatever is lost *)
(* of its trace.                                                           *)
(*                                                                         *)
(* ShapeInv says what the folds rely on.  Every event carries an instance, *)
(* because the epoch of a process counts the images it has begun; every    *)
(* position in the vectors of operations keeps the type it was pushed      *)
(* with, so that a pending write stays the position of a write; and the    *)
(* scan credits instances only, before and after the renames are applied   *)
(* once more, which takes an induction over the renames.  CommitInv adds   *)
(* that the walk sets out from the contents of the outputs: what it emits  *)
(* then has, for each of them, an operation that wrote it.                 *)

-----------------------------------------------------------------------------
(* Folding the renames.                                                    *)

\* A set of numbers that is not empty has a least element.
LEMMA LeastNumber ==
  ASSUME NEW T \in SUBSET Nat, T # {}
  PROVE  \E n \in T : \A m \in T : n <= m
<1>1. PICK n \in T : \A m \in T : ~ (<<m, n>> \in OpToRel(<, Nat))
  BY NatLessThanWellFounded, WFMin
<1>2. \A m \in T : ~ (m < n)
  BY <1>1 DEF OpToRel
<1>. QED
  BY <1>2

\* What a fold over the first n renames is made of: the pairs of a subset of
\* them, applied from the lowest to the highest.
Folded(g, n, writers, pairs) ==
  g = [s \in SUBSET (1 .. n) |->
         IF s = {} THEN writers
         ELSE Aliased(g[s \ {Max(s)}], pairs[Max(s)][1], pairs[Max(s)][2])]

\* The largest of the numbers up to n, if n is among them.
LEMMA MaxIsLast ==
  ASSUME NEW n \in Nat, NEW s \in SUBSET (1 .. n), n \in s
  PROVE  Max(s) = n
<1>1. \A y \in s : n >= y
  OBVIOUS
<1>2. \A x \in s : (\A y \in s : x >= y) => x = n
  BY <1>1
<1>. QED
  BY <1>1, <1>2 DEF Max

\* The fold is defined, however many renames there are.
LEMMA FoldDefined ==
  ASSUME NEW writers, NEW pairs
  PROVE  \A n \in Nat : \E g : Folded(g, n, writers, pairs)
<1>. DEFINE Missing_ == {n \in Nat : ~ \E g : Folded(g, n, writers, pairs)}
<1>. SUFFICES ASSUME Missing_ # {} PROVE FALSE
  OBVIOUS
<1>1. PICK n \in Missing_ : \A m \in Missing_ : n <= m
  BY LeastNumber
<1>2. n # 0
  <2>. DEFINE g == [s \in SUBSET (1 .. 0) |-> writers]
  <2>1. Folded(g, 0, writers, pairs)
    BY DEF Folded
  <2>. QED
    BY <1>1, <2>1
<1>3. PICK g : Folded(g, n - 1, writers, pairs)
  <2>1. n - 1 \in Nat /\ ~(n <= n - 1)
    BY <1>1, <1>2
  <2>. QED
    BY <1>1, <2>1
<1>. DEFINE one(h, s) == Aliased(h[s \ {Max(s)}], pairs[Max(s)][1], pairs[Max(s)][2])
            f == [s \in SUBSET (1 .. n) |->
                    IF n \in s THEN one(g, s) ELSE g[s]]
<1>4. ASSUME NEW s \in SUBSET (1 .. n)
      PROVE  f[s] = IF s = {} THEN writers ELSE one(f, s)
  <2>1. CASE n \in s
    <3>1. Max(s) = n
      BY <1>1, <2>1, MaxIsLast
    <3>2. s \ {n} \in SUBSET (1 .. n) /\ n \notin s \ {n}
      OBVIOUS
    <3>3. f[s \ {n}] = g[s \ {n}]
      BY <3>2
    <3>4. f[s] = one(g, s)
      BY <2>1
    <3>. QED
      BY <2>1, <3>1, <3>3, <3>4
  <2>2. CASE n \notin s
    <3>1. s \in SUBSET (1 .. n - 1)
      BY <1>1, <1>2, <2>2
    <3>2. f[s] = g[s]
      BY <2>2
    <3>3. s \ {Max(s)} \in SUBSET (1 .. n) /\ n \notin s \ {Max(s)}
      BY <2>2
    <3>4. f[s \ {Max(s)}] = g[s \ {Max(s)}]
      BY <3>3
    <3>. HIDE DEF f
    <3>5. g[s] = IF s = {} THEN writers ELSE one(g, s)
      BY <1>3, <3>1 DEF Folded
    <3>. QED
      BY <3>2, <3>4, <3>5
  <2>. QED
    BY <2>1, <2>2
<1>5. Folded(f, n, writers, pairs)
  <2>1. f = [s \in SUBSET (1 .. n) |-> f[s]]
    OBVIOUS
  <2>. HIDE DEF f
  <2>. QED
    BY <1>4, <2>1 DEF Folded
<1>. QED
  BY <1>1, <1>5

\* Whoever the fold names was named before it.
LEMMA FoldNames ==
  ASSUME NEW writers, NEW pairs, NEW P, \A w \in writers : w[2] \in P,
         NEW n \in Nat, NEW g, Folded(g, n, writers, pairs)
  PROVE  \A w \in g[1 .. n] : w[2] \in P
<1>. DEFINE Named_(k) == \A w \in g[1 .. k] : w[2] \in P
            Stray == {k \in Nat : k <= n /\ ~Named_(k)}
<1>. SUFFICES ASSUME Stray # {} PROVE FALSE
  OBVIOUS
<1>1. PICK k \in Stray : \A m \in Stray : k <= m
  BY LeastNumber
<1>2. \A s \in SUBSET (1 .. n) :
         g[s] = IF s = {} THEN writers
                ELSE Aliased(g[s \ {Max(s)}], pairs[Max(s)][1], pairs[Max(s)][2])
  BY DEF Folded
<1>3. k # 0
  <2>1. 1 .. 0 = {} /\ 1 .. 0 \in SUBSET (1 .. n)
    OBVIOUS
  <2>. QED
    BY <1>1, <1>2, <2>1
<1>4. Named_(k - 1)
  BY <1>1, <1>3
<1>5. /\ 1 .. k \in SUBSET (1 .. n) /\ 1 .. k # {} /\ (1 .. k) \ {k} = 1 .. k - 1
      /\ k \in 1 .. k /\ k \in Nat
  BY <1>1, <1>3
<1>6. Max(1 .. k) = k
  BY <1>5, MaxIsLast
<1>7. g[1 .. k] = Aliased(g[1 .. k - 1], pairs[k][1], pairs[k][2])
  BY <1>2, <1>5, <1>6
<1>8. Named_(k)
  BY <1>4, <1>7 DEF Aliased
<1>. QED
  BY <1>1, <1>8

\* Whoever the renames are credited to is a writer or a renamer already.
LEMMA FixupNames ==
  ASSUME NEW P, \A w \in writers_by_path : w[2] \in P, NEW S, rename_pairs \in Seq(S)
  PROVE  \A w \in Fixup : w[2] \in P
<1>. DEFINE n == Len(rename_pairs)
            iter == CHOOSE g : Folded(g, n, writers_by_path, rename_pairs)
<1>1. n \in Nat /\ DOMAIN rename_pairs = 1 .. n
  OBVIOUS
<1>2. Folded(iter, n, writers_by_path, rename_pairs)
  BY <1>1, FoldDefined
<1>3. Fixup = iter[1 .. n]
  BY <1>1 DEF Fixup, FoldLeft, MapThenFoldSet, Folded
<1>. HIDE DEF iter, n
<1>. QED
  BY <1>1, <1>2, <1>3, FoldNames

-----------------------------------------------------------------------------
(* Every event carries an instance.                                        *)

\* The images that process p has begun before its k-th step.
Images(p, k) == {j \in DOMAIN Program(p) : j < k /\ NewImage(Program(p)[j], p, j)}

\* The epoch of a process counts its images.
EpochInv ==
  /\ build \in AllBuilds
  /\ at \in [Lifetimes -> Nat \ {0}]
  /\ epoch \in [Lifetimes -> Nat]
  /\ \A p \in Lifetimes : epoch[p] = Cardinality(Images(p, at[p]))

\* What the folds rely on: e is an event of an instance, and forks name one.
Genuine(e) ==
  /\ e.process \in Instances
  /\ e.type = "fork" => e.step.child \in Lifetimes

\* One image more, and never more than there are epochs.
LEMMA ImagesCounted ==
  ASSUME EpochInv, NEW p \in Lifetimes, Running(p)
  PROVE  /\ EpochOf(p) = Cardinality(Images(p, at[p] + 1))
         /\ EpochOf(p) \in 0 .. MaxEpoch
<1>. DEFINE k == at[p]
            all == {j \in DOMAIN Program(p) : NewImage(Program(p)[j], p, j)}
<1>1. /\ Len(Program(p)) \in Nat /\ DOMAIN Program(p) = 1 .. Len(Program(p))
      /\ Cardinality(all) <= MaxEpoch
  BY BuildsUnderstood DEF Understood, EpochInv, Program
<1>2. k \in Nat \ {0} /\ k \in DOMAIN Program(p)
  BY <1>1 DEF EpochInv, Running
<1>3. IsFiniteSet(DOMAIN Program(p))
  BY <1>1, FS_Interval
<1>4. IsFiniteSet(all) /\ IsFiniteSet(Images(p, k)) /\ IsFiniteSet(Images(p, k + 1))
  BY <1>3, FS_Subset DEF Images
<1>5. Cardinality(Images(p, k + 1)) <= Cardinality(all)
  BY <1>4, FS_Subset DEF Images
<1>6. Cardinality(Images(p, k)) \in Nat /\ Cardinality(Images(p, k + 1)) \in Nat
      /\ Cardinality(all) \in Nat
  BY <1>4, FS_CardinalityType
<1>7. EpochOf(p) = Cardinality(Images(p, k + 1))
  <2>1. CASE NewImage(StepOf(p), p, k)
    <3>1. Images(p, k + 1) = Images(p, k) \cup {k} /\ k \notin Images(p, k)
      BY <1>1, <1>2, <2>1 DEF Images, StepOf
    <3>. QED
      BY <1>4, <2>1, <3>1, FS_AddElement DEF EpochOf, EpochInv
  <2>2. CASE ~NewImage(StepOf(p), p, k)
    <3>1. Images(p, k + 1) = Images(p, k)
      BY <1>1, <1>2, <2>2 DEF Images, StepOf
    <3>. QED
      BY <2>2, <3>1 DEF EpochOf, EpochInv
  <2>. QED
    BY <2>1, <2>2
<1>. HIDE DEF all
<1>. QED
  BY <1>1, <1>5, <1>6, <1>7, BuildConstantsOK

\* Events of a process that takes a step.
LEMMA EventsGenuine ==
  ASSUME EpochInv, NEW p \in Lifetimes, Enabled(p)
  PROVE  Genuine(Event(p))
<1>1. EpochOf(p) \in 0 .. MaxEpoch
  BY ImagesCounted DEF Enabled
<1>2. Event(p).process \in Instances
  BY <1>1 DEF Event, Instances
<1>3. ASSUME StepOf(p).type = "fork" PROVE Event(p).step.child \in Lifetimes
  <2>1. /\ Len(Program(p)) \in Nat /\ DOMAIN Program(p) = 1 .. Len(Program(p))
        /\ \A j \in DOMAIN Program(p) :
             Program(p)[j].type = "fork" =>
               "child" \in DOMAIN Program(p)[j] /\ Program(p)[j].child \in Lifetimes
    BY BuildsUnderstood DEF Understood, EpochInv, Program
  <2>2. at[p] \in DOMAIN Program(p)
    BY <2>1 DEF EpochInv, Enabled, Running
  <2>3. "child" \in DOMAIN StepOf(p) /\ StepOf(p).child \in Lifetimes
    BY <1>3, <2>1, <2>2 DEF StepOf
  <2>4. Named(StepOf(p)).child = StepOf(p).child
    BY <2>3 DEF Named
  <2>. QED
    BY <2>3, <2>4 DEF Event
<1>4. Event(p).type = StepOf(p).type
  BY DEF Event
<1>. QED
  BY <1>2, <1>3, <1>4 DEF Genuine

\* A step of a process keeps the count.
LEMMA EpochAdvance ==
  ASSUME EpochInv, NEW p \in Lifetimes, Running(p), Advance(p)
  PROVE  EpochInv'
<1>1. /\ EpochOf(p) = Cardinality(Images(p, at[p] + 1))
      /\ EpochOf(p) \in 0 .. MaxEpoch
  BY ImagesCounted
<1>2. /\ at' = [at EXCEPT ![p] = @ + 1]
      /\ epoch' = [epoch EXCEPT ![p] = EpochOf(p)]
      /\ build' = build
  BY DEF Advance
<1>3. /\ at' \in [Lifetimes -> Nat \ {0}] /\ epoch' \in [Lifetimes -> Nat]
      /\ build' \in AllBuilds
  BY <1>1, <1>2, BuildConstantsOK DEF EpochInv
<1>4. ASSUME NEW q \in Lifetimes PROVE epoch'[q] = Cardinality(Images(q, at[q]))'
  <2>1. Images(q, at[q])' = Images(q, at'[q])
    BY <1>2 DEF Images, Program
  <2>2. CASE q = p
    BY <1>1, <1>2, <2>1, <2>2 DEF EpochInv
  <2>3. CASE q # p
    BY <1>2, <2>1, <2>3 DEF EpochInv
  <2>. QED
    BY <2>2, <2>3
<1>. QED
  BY <1>3, <1>4 DEF EpochInv
-----------------------------------------------------------------------------
(* canonicalize_events: a pending write stays the position of a write.     *)

\* Every position is named by the type of the operation that stands there.
Positions(list) ==
  \A i \in DOMAIN list : "op_type" \in DOMAIN list[i] /\ list[i].op_type = i[2]

\* Every entry of a map of pending writes is a position of type t.
Pending(map, list, t) ==
  \A k \in DOMAIN map :
     k = <<k[1], k[2]>> /\ map[k] \in DOMAIN list /\ map[k][2] = t

CanonInv ==
  /\ DOMAIN process_to_index \subseteq Instances
  /\ DOMAIN process_to_tool_hash \subseteq Instances
  /\ fallback_external_processes \subseteq Lifetimes
  /\ Positions(ops) /\ Positions(external_ops)
  /\ Pending(pending_writes, ops, "file_write")
  /\ Pending(external_pending_writes, external_ops, "external_file_write")

\* Pushing keeps what is there.
LEMMA PushKeeps ==
  ASSUME NEW list, Positions(list), NEW e, NEW new,
         \A op \in new : "op_type" \in DOMAIN op
  PROVE  /\ Positions(Push(list, e, new))
         /\ DOMAIN list \subseteq DOMAIN Push(list, e, new)
         /\ \A op \in new : <<e.id, op.op_type>> \in DOMAIN Push(list, e, new)
<1>. DEFINE to == Push(list, e, new)
<1>1. DOMAIN to = DOMAIN list \cup {<<e.id, op.op_type>> : op \in new}
  BY DEF Push
<1>2. ASSUME NEW i \in DOMAIN to
      PROVE  "op_type" \in DOMAIN to[i] /\ to[i].op_type = i[2]
  <2>1. CASE \E op \in new : i = <<e.id, op.op_type>>
    <3>1. to[i] = CHOOSE op \in new : i = <<e.id, op.op_type>>
      BY <1>2, <2>1 DEF Push
    <3>2. to[i] \in new /\ i = <<e.id, to[i].op_type>>
      BY <2>1, <3>1
    <3>. QED
      BY <3>2
  <2>2. CASE ~ \E op \in new : i = <<e.id, op.op_type>>
    <3>1. i \in DOMAIN list /\ to[i] = list[i]
      BY <1>1, <1>2, <2>2 DEF Push
    <3>. QED
      BY <3>1 DEF Positions
  <2>. QED
    BY <2>1, <2>2
<1>. QED
  BY <1>1, <1>2 DEF Positions

\* Resolving a write leaves its type alone.
LEMMA FillKeeps ==
  ASSUME NEW list, Positions(list), NEW i \in DOMAIN list, NEW observation
  PROVE  /\ Positions(Fill(list, i, observation))
         /\ DOMAIN Fill(list, i, observation) = DOMAIN list
<1>1. DOMAIN Fill(list, i, observation) = DOMAIN list
  BY DEF Fill
<1>2. ASSUME NEW j \in DOMAIN list
      PROVE  /\ "op_type" \in DOMAIN Fill(list, i, observation)[j]
             /\ Fill(list, i, observation)[j].op_type = j[2]
  BY <1>2 DEF Fill, Positions
<1>. QED
  BY <1>1, <1>2 DEF Positions

\* A list that grows, one entry more, one less.
LEMMA PendingGrows ==
  ASSUME NEW map, NEW list, NEW more, NEW t, Pending(map, list, t),
         DOMAIN list \subseteq DOMAIN more
  PROVE  Pending(map, more, t)
BY DEF Pending

LEMMA PendingPut ==
  ASSUME NEW map, NEW list, NEW t, Pending(map, list, t),
         NEW p, NEW fd, NEW i \in DOMAIN list, i[2] = t
  PROVE  Pending(Put(map, <<p, fd>>, i), list, t)
BY DEF Pending, Put

LEMMA PendingDelete ==
  ASSUME NEW map, NEW list, NEW t, Pending(map, list, t), NEW key
  PROVE  Pending(Delete(map, key), list, t)
BY DEF Pending, Delete

\* The locals of a call.
LEMMA CanonStart ==
  CanonInit => CanonInv
<1>1. root_process \in Instances
  BY BuildConstantsOK DEF root_process, Instances
<1>2. DOMAIN <<>> = {}
  OBVIOUS
<1>. QED
  BY <1>1, <1>2 DEF CanonInit, CanonInv, Positions, Pending

LEMMA CanonAgain ==
  CanonReset => CanonInv'
<1>1. root_process \in Instances
  BY BuildConstantsOK DEF root_process, Instances
<1>2. DOMAIN <<>> = {}
  OBVIOUS
<1>. QED
  BY <1>1, <1>2 DEF CanonReset, CanonInv, Positions, Pending
-----------------------------------------------------------------------------
(* One event.                                                              *)

\* An index for a process keeps the others.
LEMMA Indexed ==
  ASSUME CanonInv, NEW x \in Instances
  PROVE  DOMAIN IndexWith(x) \subseteq Instances
BY DEF CanonInv, IndexWith, Put

LEMMA OpShape ==
  ASSUME NEW t, NEW n, NEW tool, NEW args, NEW ins, NEW outs
  PROVE  /\ "op_type" \in DOMAIN CanonicalOp(t, n, tool, args, ins, outs)
         /\ CanonicalOp(t, n, tool, args, ins, outs).op_type = t
BY DEF CanonicalOp

LEMMA ExecKeeps ==
  ASSUME CanonInv, NEW e, Genuine(e), CanonExec(e)
  PROVE  CanonInv'
<1>. DEFINE op == CanonicalOp("exec", IndexWith(e.process)[e.process],
                              <<e.observation>>, <<>>, <<>>, <<>>)
<1>1. "op_type" \in DOMAIN op
  BY OpShape
<1>. HIDE DEF op
<1>2. Positions(Push(ops, e, {op})) /\ DOMAIN ops \subseteq DOMAIN Push(ops, e, {op})
  BY <1>1, PushKeeps DEF CanonInv
<1>3. ops' = Push(ops, e, {op})
  BY DEF CanonExec, op
<1>4. DOMAIN process_to_tool_hash' \subseteq Instances
  BY DEF CanonExec, Put, Genuine, CanonInv
<1>5. DOMAIN process_to_index' \subseteq Instances
  BY Indexed DEF CanonExec, Genuine
<1>6. Pending(pending_writes, ops', "file_write")
  BY <1>2, <1>3, PendingGrows DEF CanonInv
<1>. QED
  BY <1>2, <1>3, <1>4, <1>5, <1>6 DEF CanonExec, CanonInv

LEMMA ForkKeeps ==
  ASSUME CanonInv, NEW e, Genuine(e), CanonFork(e)
  PROVE  CanonInv'
<1>. DEFINE inherited == {k \in DOMAIN pending_writes : k[1] = e.process[1]}
            copies == {<<e.step.child, k[2]>> : k \in inherited}
            copied == [k \in DOMAIN pending_writes \cup copies |->
                         IF k \in copies THEN pending_writes[<<e.process[1], k[2]>>]
                                         ELSE pending_writes[k]]
<1>1. <<e.step.child, 0>> \in Instances
  BY BuildConstantsOK DEF Genuine, Instances, CanonFork
<1>2. DOMAIN process_to_tool_hash' \subseteq Instances
  BY <1>1 DEF CanonFork, Put, CanonInv
<1>3. pending_writes' = copied
  BY DEF CanonFork
<1>4. ASSUME NEW k \in DOMAIN copied
      PROVE  k = <<k[1], k[2]>> /\ copied[k] \in DOMAIN ops /\ copied[k][2] = "file_write"
  <2>1. CASE k \in copies
    <3>1. PICK j \in inherited : k = <<e.step.child, j[2]>>
      BY <2>1
    <3>2. j = <<e.process[1], k[2]>> /\ j \in DOMAIN pending_writes
      BY <3>1 DEF CanonInv, Pending
    <3>3. copied[k] = pending_writes[j]
      BY <2>1, <3>2
    <3>. QED
      BY <3>1, <3>2, <3>3 DEF CanonInv, Pending
  <2>2. CASE k \notin copies
    BY <1>4, <2>2 DEF CanonInv, Pending
  <2>. QED
    BY <2>1, <2>2
<1>. HIDE DEF copied
<1>5. Pending(pending_writes', ops, "file_write")
  BY <1>3, <1>4 DEF Pending
<1>. QED
  BY <1>2, <1>5 DEF CanonFork, CanonInv

\* fresh is whether a write is pushed, pushed what is pushed then.
LEMMA TreeAccessKeeps ==
  ASSUME CanonInv, NEW e, Genuine(e), NEW accesses, NEW fresh \in BOOLEAN,
         \A op \in accesses : "op_type" \in DOMAIN op,
         TreeAccess(e, accesses, fresh)
  PROVE  CanonInv'
<1>. DEFINE write == TreeOp(e, "file_write", <<>>, <<>>, <<>>)
            new == accesses \cup (IF fresh THEN {write} ELSE {})
<1>1. "op_type" \in DOMAIN write /\ write.op_type = "file_write"
  BY OpShape DEF TreeOp
<1>2. \A op \in new : "op_type" \in DOMAIN op
  BY <1>1
<1>3. fresh => write \in new
  OBVIOUS
<1>4. ops' = Push(ops, e, new)
  BY DEF TreeAccess
<1>. HIDE DEF write, new
<1>5. /\ Positions(ops') /\ DOMAIN ops \subseteq DOMAIN ops'
      /\ \A op \in new : <<e.id, op.op_type>> \in DOMAIN ops'
  BY <1>2, <1>4, PushKeeps DEF CanonInv
<1>6. Pending(pending_writes, ops', "file_write")
  BY <1>5, PendingGrows DEF CanonInv
<1>7. Pending(pending_writes', ops', "file_write")
  <2>1. CASE fresh
    <3>1. <<e.id, "file_write">> \in DOMAIN ops'
      BY <1>1, <1>3, <1>5, <2>1
    <3>2. pending_writes' = Put(pending_writes, <<e.process[1], e.step.fd>>,
                                <<e.id, "file_write">>)
      BY <2>1 DEF TreeAccess
    <3>. QED
      BY <1>6, <3>1, <3>2, PendingPut
  <2>2. CASE ~fresh
    BY <1>6, <2>2 DEF TreeAccess
  <2>. QED
    BY <2>1, <2>2
<1>8. DOMAIN process_to_index' \subseteq Instances
  BY Indexed DEF TreeAccess, Genuine
<1>. QED
  BY <1>5, <1>7, <1>8 DEF TreeAccess, CanonInv

LEMMA ExternalAccessKeeps ==
  ASSUME CanonInv, NEW e, Genuine(e), NEW accesses, NEW fresh \in BOOLEAN,
         \A op \in accesses : "op_type" \in DOMAIN op,
         ExternalAccess(e, accesses, fresh)
  PROVE  CanonInv'
<1>. DEFINE write == ExternalOp("external_file_write", <<>>, <<>>, <<>>)
            new == accesses \cup (IF fresh THEN {write} ELSE {})
<1>1. "op_type" \in DOMAIN write /\ write.op_type = "external_file_write"
  BY OpShape DEF ExternalOp
<1>2. \A op \in new : "op_type" \in DOMAIN op
  BY <1>1
<1>3. fresh => write \in new
  OBVIOUS
<1>4. external_ops' = Push(external_ops, e, new)
  BY DEF ExternalAccess
<1>. HIDE DEF write, new
<1>5. /\ Positions(external_ops') /\ DOMAIN external_ops \subseteq DOMAIN external_ops'
      /\ \A op \in new : <<e.id, op.op_type>> \in DOMAIN external_ops'
  BY <1>2, <1>4, PushKeeps DEF CanonInv
<1>6. Pending(external_pending_writes, external_ops', "external_file_write")
  BY <1>5, PendingGrows DEF CanonInv
<1>7. Pending(external_pending_writes', external_ops', "external_file_write")
  <2>1. CASE fresh
    <3>1. <<e.id, "external_file_write">> \in DOMAIN external_ops'
      BY <1>1, <1>3, <1>5, <2>1
    <3>2. external_pending_writes' =
            Put(external_pending_writes, <<e.process[1], e.step.fd>>,
                <<e.id, "external_file_write">>)
      BY <2>1 DEF ExternalAccess
    <3>. QED
      BY <1>6, <3>1, <3>2, PendingPut
  <2>2. CASE ~fresh
    BY <1>6, <2>2 DEF ExternalAccess
  <2>. QED
    BY <2>1, <2>2
<1>8. fallback_external_processes' \subseteq Lifetimes
  BY DEF ExternalAccess, Genuine, CanonInv, Instances
<1>. QED
  BY <1>5, <1>7, <1>8 DEF ExternalAccess, CanonInv

LEMMA OpenKeeps ==
  ASSUME CanonInv, NEW e, Genuine(e), CanonOpen(e)
  PROVE  CanonInv'
<1>. DEFINE external == IF can_read(e.step)
                        THEN {ExternalOp("external_file_read", <<>>, <<e.observation>>, <<>>)}
                        ELSE {}
            tree == IF can_read(e.step)
                    THEN {TreeOp(e, "file_read", <<>>, <<e.observation>>, <<>>)} ELSE {}
            state == {SystemStateRead(e)}
<1>1. \A op \in external \cup tree \cup state : "op_type" \in DOMAIN op
  BY OpShape DEF ExternalOp, TreeOp, SystemStateRead
<1>2. can_write(e.step) \in BOOLEAN
  BY DEF can_write
<1>3. \/ UNCHANGED canonVars
      \/ ExternalAccess(e, external, can_write(e.step))
      \/ TreeAccess(e, state, FALSE)
      \/ TreeAccess(e, tree, can_write(e.step))
  BY DEF CanonOpen, IgnoredOpen
<1>. HIDE DEF external, tree, state
<1>4. CASE UNCHANGED canonVars
  BY <1>4 DEF canonVars, opsVars, CanonInv
<1>5. CASE ExternalAccess(e, external, can_write(e.step))
  BY <1>1, <1>2, <1>5, ExternalAccessKeeps
<1>6. CASE TreeAccess(e, state, FALSE)
  BY <1>1, <1>6, TreeAccessKeeps
<1>7. CASE TreeAccess(e, tree, can_write(e.step))
  BY <1>1, <1>2, <1>7, TreeAccessKeeps
<1>. QED
  BY <1>3, <1>4, <1>5, <1>6, <1>7

LEMMA MmapKeeps ==
  ASSUME CanonInv, NEW e, Genuine(e), CanonMmap(e)
  PROVE  CanonInv'
<1>. DEFINE is_write == e.step.mode = "rw"
            key == <<e.process[1], e.step.fd>>
            mmap == << <<"arg", "mmap">> >>
            external == {ExternalOp("external_file_read", mmap, <<e.observation>>, <<>>)}
            tree == {TreeOp(e, "file_read", mmap, <<e.observation>>, <<>>)}
            state == {SystemStateRead(e)}
            fresh == is_write /\ key \notin DOMAIN pending_writes
            freshExternal == is_write /\ key \notin DOMAIN external_pending_writes
<1>1. \A op \in external \cup tree \cup state : "op_type" \in DOMAIN op
  BY OpShape DEF ExternalOp, TreeOp, SystemStateRead
<1>2. fresh \in BOOLEAN /\ freshExternal \in BOOLEAN
  OBVIOUS
<1>3. \/ UNCHANGED canonVars
      \/ ExternalAccess(e, external, freshExternal)
      \/ TreeAccess(e, state, FALSE)
      \/ TreeAccess(e, tree, fresh)
  BY DEF CanonMmap
<1>. HIDE DEF external, tree, state, fresh, freshExternal
<1>4. CASE UNCHANGED canonVars
  BY <1>4 DEF canonVars, opsVars, CanonInv
<1>5. CASE ExternalAccess(e, external, freshExternal)
  BY <1>1, <1>2, <1>5, ExternalAccessKeeps
<1>6. CASE TreeAccess(e, state, FALSE)
  BY <1>1, <1>6, TreeAccessKeeps
<1>7. CASE TreeAccess(e, tree, fresh)
  BY <1>1, <1>2, <1>7, TreeAccessKeeps
<1>. QED
  BY <1>3, <1>4, <1>5, <1>6, <1>7

\* A close finds a write operation at the position it resolves.
LEMMA CloseKeeps ==
  ASSUME CanonInv, NEW e, CanonClose(e)
  PROVE  CanonInv'
<1>. DEFINE key == <<e.process[1], e.step.fd>>
<1>1. UNCHANGED <<process_to_index, process_to_tool_hash, fallback_external_processes>>
  BY DEF CanonClose
<1>2. CASE UNCHANGED opsVars
  BY <1>1, <1>2 DEF opsVars, CanonInv
<1>3. CASE /\ external_pending_writes' = Delete(external_pending_writes, key)
           /\ external_ops' =
                IF key \in DOMAIN external_pending_writes /\ can_write(e.step)
                THEN Fill(external_ops, external_pending_writes[key], e.observation)
                ELSE external_ops
           /\ UNCHANGED <<pending_writes, ops>>
  <2>1. Positions(external_ops') /\ DOMAIN external_ops' = DOMAIN external_ops
    <3>1. CASE key \in DOMAIN external_pending_writes /\ can_write(e.step)
      <4>1. external_pending_writes[key] \in DOMAIN external_ops
        BY <3>1 DEF CanonInv, Pending
      <4>. QED
        BY <1>3, <3>1, <4>1, FillKeeps DEF CanonInv
    <3>2. CASE ~(key \in DOMAIN external_pending_writes /\ can_write(e.step))
      BY <1>3, <3>2 DEF CanonInv
    <3>. QED
      BY <3>1, <3>2
  <2>2. Pending(external_pending_writes', external_ops', "external_file_write")
    BY <1>3, <2>1, PendingDelete, PendingGrows DEF CanonInv
  <2>. QED
    BY <1>1, <1>3, <2>1, <2>2 DEF CanonInv
<1>4. CASE /\ pending_writes' = Delete(pending_writes, key)
           /\ ops' = IF key \in DOMAIN pending_writes /\ can_write(e.step)
                     THEN Fill(ops, pending_writes[key], e.observation) ELSE ops
           /\ UNCHANGED <<external_pending_writes, external_ops>>
  <2>1. Positions(ops') /\ DOMAIN ops' = DOMAIN ops
    <3>1. CASE key \in DOMAIN pending_writes /\ can_write(e.step)
      <4>1. pending_writes[key] \in DOMAIN ops
        BY <3>1 DEF CanonInv, Pending
      <4>. QED
        BY <1>4, <3>1, <4>1, FillKeeps DEF CanonInv
    <3>2. CASE ~(key \in DOMAIN pending_writes /\ can_write(e.step))
      BY <1>4, <3>2 DEF CanonInv
    <3>. QED
      BY <3>1, <3>2
  <2>2. Pending(pending_writes', ops', "file_write")
    BY <1>4, <2>1, PendingDelete, PendingGrows DEF CanonInv
  <2>. QED
    BY <1>1, <1>4, <2>1, <2>2 DEF CanonInv
<1>. QED
  BY <1>2, <1>3, <1>4 DEF CanonClose

LEMMA MovedKeeps ==
  ASSUME CanonInv, NEW e, Genuine(e), NEW paths, NEW t, NEW x, NEW outs,
         Moved(e, paths, t, x, outs)
  PROVE  CanonInv'
<1>. DEFINE flags == << <<"flags", "0x0">> >>
            external == {ExternalOp(x, flags, <<e.observation>>, outs)}
            tree == {TreeOp(e, t, flags, <<e.observation>>, outs)}
<1>1. \A op \in external \cup tree : "op_type" \in DOMAIN op
  BY OpShape DEF ExternalOp, TreeOp
<1>2. ExternalAccess(e, external, FALSE) \/ TreeAccess(e, tree, FALSE)
  BY DEF Moved
<1>. HIDE DEF external, tree
<1>. QED
  BY <1>1, <1>2, ExternalAccessKeeps, TreeAccessKeeps

LEMMA ExitKeeps ==
  ASSUME CanonInv, NEW e, CanonExit(e)
  PROVE  CanonInv'
<1>. DEFINE op == TreeOp(e, "exit",
                    IF e.process[1] = Root THEN << <<"exit", e.step.code>> >> ELSE <<>>,
                    <<>>, <<>>)
<1>1. "op_type" \in DOMAIN op
  BY OpShape DEF TreeOp
<1>2. ops' = Push(ops, e, {op}) \/ ops' = ops
  BY DEF CanonExit
<1>. HIDE DEF op
<1>3. Positions(ops') /\ DOMAIN ops \subseteq DOMAIN ops'
  BY <1>1, <1>2, PushKeeps DEF CanonInv
<1>4. Pending(pending_writes, ops', "file_write")
  BY <1>3, PendingGrows DEF CanonInv
<1>. QED
  BY <1>3, <1>4 DEF CanonExit, CanonInv

\* One iteration of the loop.
LEMMA CanonKeeps ==
  ASSUME CanonInv, NEW e, Genuine(e), CanonStep(e)
  PROVE  CanonInv'
<1>1. CASE CanonRename(e) \/ CanonUnlink(e)
  BY <1>1, MovedKeeps DEF CanonRename, CanonUnlink
<1>. QED
  BY <1>1, ExecKeeps, ForkKeeps, OpenKeeps, MmapKeeps, CloseKeeps, ExitKeeps DEF CanonStep
-----------------------------------------------------------------------------
(* canonicalize_output_slice: the scan names instances only.               *)

\* An Option is a sequence of at most one element.
IsOption(s) == s = <<>> \/ s = <<s[1]>>

ScanInv ==
  /\ DOMAIN flow_tool = Instances /\ \A x \in Instances : IsOption(flow_tool[x])
  /\ \A r \in reads : r[1] \in Instances
  /\ \A r \in writes : r[1] \in Instances
  /\ \A r \in renames : r[1] \in Instances
  /\ \A k \in DOMAIN open_writes :
        /\ k = <<k[1], k[2]>>
        /\ {"process", "path"} \subseteq DOMAIN open_writes[k]
        /\ open_writes[k].process \in Instances
  /\ \A w \in writers_by_hash : w[2] \in Instances
  /\ \A w \in writers_by_path : w[2] \in Instances
  /\ \E S : rename_pairs \in Seq(S)

LEMMA ScanStart == ScanInit => ScanInv
<1>1. DOMAIN <<>> = {} /\ <<>> \in Seq({})
  OBVIOUS
<1>. QED
  BY <1>1 DEF ScanInit, ScanInv, IsOption

LEMMA ScanAgain == ScanReset => ScanInv'
<1>1. DOMAIN <<>> = {} /\ <<>> \in Seq({})
  OBVIOUS
<1>. QED
  BY <1>1 DEF ScanReset, ScanInv, IsOption

LEMMA AccessedKeeps ==
  ASSUME ScanInv, NEW e, Genuine(e), NEW read, NEW write, Accessed(e, read, write)
  PROVE  ScanInv'
<1>1. UNCHANGED <<flow_tool, writes, renames, writers_by_hash, writers_by_path, rename_pairs>>
  BY DEF Accessed, writerVars
<1>2. \A r \in reads' : r[1] \in Instances
  BY DEF Accessed, ScanInv, Genuine
<1>3. ASSUME NEW k \in DOMAIN open_writes'
      PROVE  /\ k = <<k[1], k[2]>>
             /\ {"process", "path"} \subseteq DOMAIN open_writes'[k]
             /\ open_writes'[k].process \in Instances
  BY <1>3 DEF Accessed, Put, ScanInv, Genuine
<1>. QED
  BY <1>1, <1>2, <1>3 DEF ScanInv

LEMMA ScanForkKeeps ==
  ASSUME ScanInv, NEW e, Genuine(e), ScanFork(e)
  PROVE  ScanInv'
<1>. DEFINE inherited == {k \in DOMAIN open_writes : k[1] = e.process[1]}
            copies == {<<e.step.child, k[2]>> : k \in inherited}
            copied == [k \in DOMAIN open_writes \cup copies |->
                         IF k \in copies THEN open_writes[<<e.process[1], k[2]>>]
                                         ELSE open_writes[k]]
<1>1. UNCHANGED <<reads, writes, renames, writers_by_hash, writers_by_path, rename_pairs>>
  BY DEF ScanFork, writerVars
<1>2. DOMAIN flow_tool' = Instances /\ \A x \in Instances : IsOption(flow_tool'[x])
  <2>1. flow_tool' = [flow_tool EXCEPT ![<<e.step.child, 0>>] = flow_tool[e.process]]
    BY DEF ScanFork
  <2>2. e.process \in Instances
    BY DEF Genuine
  <2>. QED
    BY <2>1, <2>2 DEF ScanInv
<1>3. open_writes' = copied
  BY DEF ScanFork
<1>4. ASSUME NEW k \in DOMAIN copied
      PROVE  /\ k = <<k[1], k[2]>>
             /\ {"process", "path"} \subseteq DOMAIN copied[k]
             /\ copied[k].process \in Instances
  <2>1. CASE k \in copies
    <3>1. PICK j \in inherited : k = <<e.step.child, j[2]>>
      BY <2>1
    <3>2. j = <<e.process[1], k[2]>> /\ j \in DOMAIN open_writes
      BY <3>1 DEF ScanInv
    <3>3. copied[k] = open_writes[j]
      BY <2>1, <3>2
    <3>. QED
      BY <3>1, <3>2, <3>3 DEF ScanInv
  <2>2. CASE k \notin copies
    BY <1>4, <2>2 DEF ScanInv
  <2>. QED
    BY <2>1, <2>2
<1>. HIDE DEF copied
<1>. QED
  BY <1>1, <1>2, <1>3, <1>4 DEF ScanInv

LEMMA ScanCloseKeeps ==
  ASSUME ScanInv, NEW e, ScanClose(e)
  PROVE  ScanInv'
<1>. DEFINE key == <<e.process[1], e.step.fd>>
            writer == open_writes[key].process
            hashes == content_hash(e.observation)
<1>1. UNCHANGED <<flow_tool, reads, renames, rename_pairs>>
      /\ open_writes' = Delete(open_writes, key)
  BY DEF ScanClose
<1>2. ASSUME NEW k \in DOMAIN open_writes'
      PROVE  /\ k = <<k[1], k[2]>>
             /\ {"process", "path"} \subseteq DOMAIN open_writes'[k]
             /\ open_writes'[k].process \in Instances
  BY <1>1, <1>2 DEF Delete, ScanInv
<1>3. \/ /\ key \in DOMAIN open_writes
         /\ writers_by_path' = writers_by_path \cup {<<e.step.path, writer>>}
         /\ writes' = writes \cup {<<writer, h>> : h \in hashes}
         /\ writers_by_hash' = writers_by_hash \cup {<<h, writer>> : h \in hashes}
      \/ UNCHANGED <<writers_by_path, writes, writers_by_hash>>
  BY DEF ScanClose
<1>4. key \in DOMAIN open_writes => writer \in Instances
  BY DEF ScanInv
<1>. HIDE DEF key, writer, hashes
<1>5. /\ \A w \in writers_by_path' : w[2] \in Instances
      /\ \A w \in writers_by_hash' : w[2] \in Instances
      /\ \A r \in writes' : r[1] \in Instances
  BY <1>3, <1>4 DEF ScanInv
<1>. QED
  BY <1>1, <1>2, <1>5 DEF ScanInv

LEMMA ScanRenameKeeps ==
  ASSUME ScanInv, NEW e, Genuine(e), ScanRename(e)
  PROVE  ScanInv'
<1>1. UNCHANGED <<flow_tool, writes>>
  BY DEF ScanRename
<1>2. /\ \A r \in reads' : r[1] \in Instances
      /\ \A r \in renames' : r[1] \in Instances
      /\ \A w \in writers_by_hash' : w[2] \in Instances
  BY DEF ScanRename, ScanInv, Genuine
<1>3. \A w \in writers_by_path' : w[2] \in Instances
  BY DEF ScanRename, ScanInv, Genuine, Aliased
<1>4. ASSUME NEW k \in DOMAIN open_writes'
      PROVE  /\ k = <<k[1], k[2]>>
             /\ {"process", "path"} \subseteq DOMAIN open_writes'[k]
             /\ open_writes'[k].process \in Instances
  <2>1. k \in DOMAIN open_writes
    BY <1>4 DEF ScanRename
  <2>2. open_writes'[k] = [open_writes[k] EXCEPT
                             !.path = rewrite_path_prefix(@, e.step.path, e.step.to)]
    BY <2>1 DEF ScanRename
  <2>. QED
    BY <2>1, <2>2 DEF ScanInv
<1>5. \E S : rename_pairs' \in Seq(S)
  <2>1. PICK S : rename_pairs \in Seq(S)
    BY DEF ScanInv
  <2>. DEFINE pair == <<e.step.path, e.step.to>>
  <2>2. rename_pairs' = Append(rename_pairs, pair)
    BY DEF ScanRename
  <2>. HIDE DEF pair
  <2>3. rename_pairs \in Seq(S \cup {pair})
    BY <2>1
  <2>4. rename_pairs' \in Seq(S \cup {pair})
    BY <2>2, <2>3
  <2>. QED
    BY <2>4
<1>. QED
  BY <1>1, <1>2, <1>3, <1>4, <1>5 DEF ScanInv

\* One iteration of the loop.
LEMMA ScanKeeps ==
  ASSUME ScanInv, NEW e, Genuine(e), ScanStep(e)
  PROVE  ScanInv'
<1>1. CASE ScanExec(e)
  <2>1. flow_tool' = [flow_tool EXCEPT ![e.process] = <<e.observation>>]
    BY <1>1 DEF ScanExec
  <2>2. IsOption(<<e.observation>>)
    BY DEF IsOption
  <2>3. DOMAIN flow_tool' = Instances /\ \A x \in Instances : IsOption(flow_tool'[x])
    BY <2>1, <2>2 DEF ScanInv
  <2>. QED
    BY <1>1, <2>3 DEF ScanExec, ScanInv, writerVars
<1>2. CASE ScanOpen(e) \/ ScanMmap(e)
  BY <1>2, AccessedKeeps DEF ScanOpen, ScanMmap
<1>3. CASE ScanExit(e) \/ ScanIgnored(e)
  BY <1>3 DEF ScanExit, ScanIgnored, ScanInv, scanVars, flowVars, writerVars
<1>. QED
  BY <1>1, <1>2, <1>3, ScanForkKeeps, ScanCloseKeeps, ScanRenameKeeps DEF ScanStep
-----------------------------------------------------------------------------
(* Types.                                                                  *)

ShapeInv ==
  /\ EpochInv /\ CanonInv /\ ScanInv
  /\ stage \in {"ready", "run", "walk", "attested", "refused", "failed", "done"}
  /\ verdict \in {"none", "VERIFIED", "MISMATCH"}
  /\ lost \in 0 .. MaxLost
  /\ included_processes \subseteq Instances
  /\ queue \subseteq included_processes

\* No image is begun before the first step.
LEMMA EpochStart ==
  ASSUME build \in AllBuilds, NEW p \in Lifetimes
  PROVE  Cardinality(Images(p, 1)) = 0
<1>1. DOMAIN Program(p) = 1 .. Len(Program(p)) /\ Len(Program(p)) \in Nat
  BY BuildsUnderstood DEF Understood, Program
<1>2. Images(p, 1) = {}
  BY <1>1 DEF Images
<1>. QED
  BY <1>2, FS_EmptySet

LEMMA ShapeInit == Init => ShapeInv
<1>. SUFFICES ASSUME Init PROVE ShapeInv
  OBVIOUS
<1>1. /\ at \in [Lifetimes -> Nat \ {0}] /\ epoch \in [Lifetimes -> Nat]
      /\ build \in AllBuilds
  BY DEF Init
<1>2. ASSUME NEW p \in Lifetimes PROVE epoch[p] = Cardinality(Images(p, at[p]))
  <2>1. at[p] = 1 /\ epoch[p] = 0
    BY DEF Init
  <2>. QED
    BY <1>1, <2>1, EpochStart
<1>3. EpochInv
  BY <1>1, <1>2 DEF EpochInv
<1>4. CanonInv /\ ScanInv
  BY CanonStart, ScanStart DEF Init
<1>. QED
  BY <1>3, <1>4, RepxConstantsOK DEF Init, ScanInit, ShapeInv

LEMMA ShapeBegin ==
  ASSUME ShapeInv, BeginRun
  PROVE  ShapeInv'
<1>1. /\ at' = [p \in Lifetimes |-> 1] /\ epoch' = [p \in Lifetimes |-> 0]
      /\ build' = build /\ build \in AllBuilds
  BY DEF BeginRun, ShapeInv, EpochInv
<1>2. ASSUME NEW p \in Lifetimes PROVE epoch'[p] = Cardinality(Images(p, at[p]))'
  <2>1. at'[p] = 1 /\ epoch'[p] = 0
    BY <1>1
  <2>2. Images(p, at[p])' = Images(p, 1)
    BY <1>1, <2>1 DEF Images, Program
  <2>. QED
    BY <1>1, <2>1, <2>2, EpochStart
<1>3. EpochInv'
  BY <1>1, <1>2 DEF EpochInv
<1>4. CanonInv' /\ ScanInv'
  BY CanonAgain, ScanAgain DEF BeginRun
<1>5. lost' = 0 /\ stage' = "run" /\ verdict' = verdict
  BY DEF BeginRun, resultVars
<1>6. included_processes' = {} /\ queue' = {}
  BY DEF BeginRun, ScanReset
<1>. QED
  BY <1>3, <1>4, <1>5, <1>6, RepxConstantsOK DEF ShapeInv

\* Steps that touch neither the build nor the folds.
LEMMA ShapeQuiet ==
  ASSUME ShapeInv, UNCHANGED <<build, at, epoch, canonVars, sliceVars, lost>>,
         stage' \in {"ready", "run", "walk", "attested", "refused", "failed", "done"},
         verdict' \in {"none", "VERIFIED", "MISMATCH"}
  PROVE  ShapeInv'
<1>1. EpochInv'
  BY DEF ShapeInv, EpochInv, Images, Program
<1>2. CanonInv'
  BY DEF ShapeInv, CanonInv, canonVars, opsVars
<1>3. ScanInv'
  BY DEF ShapeInv, ScanInv, sliceVars, scanVars, flowVars, writerVars
<1>. QED
  BY <1>1, <1>2, <1>3 DEF ShapeInv, sliceVars, walkVars

LEMMA ReportShape ==
  ASSUME ShapeInv, NEW result, NEW outs, Report(result, outs)
  PROVE  stage' \in {"attested", "done"} /\ verdict' \in {"none", "VERIFIED", "MISMATCH"}
BY DEF Report, ShapeInv

\* The walk starts at instances and follows the writers.
LEMMA ShapeStart ==
  ASSUME ShapeInv, NEW outs, StartWalk(outs),
         UNCHANGED <<buildVars, canonVars, verdict, lost>>, stage' = "walk"
  PROVE  ShapeInv'
<1>1. EpochInv'
  BY DEF ShapeInv, EpochInv, Images, Program, buildVars
<1>2. CanonInv'
  BY DEF ShapeInv, CanonInv, canonVars, opsVars
<1>3. PICK S : rename_pairs \in Seq(S)
  BY DEF ShapeInv, ScanInv
<1>4. \A w \in Fixup : w[2] \in Instances
  BY <1>3, FixupNames DEF ShapeInv, ScanInv
<1>5. writers_by_path' = Fixup
  BY DEF StartWalk
<1>6. ScanInv'
  BY <1>4, <1>5 DEF StartWalk, ShapeInv, ScanInv, flowVars
<1>7. included_processes' \subseteq Instances /\ queue' = included_processes'
  BY <1>4 DEF StartWalk, Seeds
<1>. QED
  BY <1>1, <1>2, <1>6, <1>7 DEF ShapeInv

LEMMA ShapePop ==
  ASSUME ShapeInv, NEW x, Pop(x), UNCHANGED <<buildVars, canonVars, verdict, lost, stage>>
  PROVE  ShapeInv'
<1>1. EpochInv'
  BY DEF ShapeInv, EpochInv, Images, Program, buildVars
<1>2. CanonInv'
  BY DEF ShapeInv, CanonInv, canonVars, opsVars
<1>3. ScanInv'
  BY DEF Pop, ShapeInv, ScanInv, scanVars, flowVars, writerVars
<1>4. included_processes' \subseteq Instances /\ queue' \subseteq included_processes'
  BY DEF Pop, ShapeInv, ScanInv
<1>. QED
  BY <1>1, <1>2, <1>3, <1>4 DEF ShapeInv

LEMMA ShapeNext == ShapeInv /\ [Next]_vars => ShapeInv'
<1>. SUFFICES ASSUME ShapeInv, [Next]_vars PROVE ShapeInv'
  OBVIOUS
<1>1. CASE Trace \/ Verify \/ HarnessAgain
  BY <1>1, ShapeBegin DEF Trace, Verify, HarnessAgain
<1>2. CASE ResetWorkspace
  BY <1>2, ShapeQuiet DEF ResetWorkspace, buildVars, resultVars, ShapeInv
<1>3. ASSUME NEW sel, VerifyRefused(sel) PROVE ShapeInv'
  BY <1>3, ShapeQuiet DEF VerifyRefused, buildVars, resultVars, ShapeInv
<1>4. ASSUME NEW p \in Lifetimes, Deliver(p) PROVE ShapeInv'
  <2>1. Enabled(p) /\ Running(p) /\ Advance(p)
    BY <1>4 DEF Deliver, Enabled
  <2>2. Genuine(Event(p))
    BY <2>1, EventsGenuine DEF ShapeInv
  <2>3. EpochInv'
    BY <2>1, EpochAdvance DEF ShapeInv
  <2>4. CanonInv' /\ ScanInv'
    BY <1>4, <2>2, CanonKeeps, ScanKeeps DEF Deliver, ShapeInv
  <2>5. UNCHANGED <<stage, verdict, lost, included_processes, queue>>
    BY <1>4 DEF Deliver, ScanStep, walkVars, resultVars, runVars
  <2>. QED
    BY <2>3, <2>4, <2>5 DEF ShapeInv
<1>5. ASSUME NEW p \in Lifetimes, Lose(p) PROVE ShapeInv'
  <2>1. Running(p) /\ Advance(p)
    BY <1>5 DEF Lose, Enabled
  <2>2. EpochInv'
    BY <2>1, EpochAdvance DEF ShapeInv
  <2>3. lost' \in 0 .. MaxLost
    BY <1>5, RepxConstantsOK DEF Lose, ShapeInv
  <2>4. CanonInv' /\ ScanInv'
    BY <1>5 DEF Lose, ShapeInv, CanonInv, ScanInv, canonVars, opsVars, sliceVars, scanVars,
                flowVars, writerVars
  <2>. QED
    BY <1>5, <2>2, <2>3, <2>4 DEF Lose, ShapeInv, sliceVars, walkVars, resultVars
<1>6. ASSUME NEW p \in Lifetimes, Wait(p) PROVE ShapeInv'
  <2>1. Running(p) /\ Advance(p)
    BY <1>6 DEF Wait, Enabled
  <2>2. EpochInv'
    BY <2>1, EpochAdvance DEF ShapeInv
  <2>4. CanonInv' /\ ScanInv'
    BY <1>6 DEF Wait, ShapeInv, CanonInv, ScanInv, canonVars, opsVars, sliceVars, scanVars,
                flowVars, writerVars
  <2>. QED
    BY <1>6, <2>2, <2>4 DEF Wait, ShapeInv, sliceVars, walkVars, resultVars, runVars
<1>7. CASE EndFailed
  BY <1>7, ShapeQuiet DEF EndFailed, buildVars, resultVars, ShapeInv
<1>8. CASE EndTrace
  <2>. DEFINE outs == select_outputs(session.selection, before, snapshot(final))
  <2>1. CASE Report(canonicalize_events, outs) /\ UNCHANGED sliceVars
    <3>1. stage' \in {"attested", "done"} /\ verdict' \in {"none", "VERIFIED", "MISMATCH"}
      BY <2>1, ReportShape
    <3>. QED
      BY <1>8, <2>1, <3>1, ShapeQuiet DEF EndTrace, buildVars
  <2>2. CASE StartWalk(outs) /\ stage' = "walk" /\ UNCHANGED resultVars
    BY <1>8, <2>2, ShapeStart DEF EndTrace, resultVars
  <2>. QED
    BY <1>8, <2>1, <2>2 DEF EndTrace
<1>9. CASE WalkStep
  <2>1. PICK x : Pop(x)
    BY <1>9 DEF WalkStep
  <2>. QED
    BY <1>9, <2>1, ShapePop DEF WalkStep, resultVars, runVars
<1>10. CASE Emit
  <2>1. stage' \in {"attested", "done"} /\ verdict' \in {"none", "VERIFIED", "MISMATCH"}
    BY <1>10, ReportShape DEF Emit
  <2>2. EpochInv' /\ CanonInv'
    BY <1>10 DEF Emit, ShapeInv, EpochInv, CanonInv, Images, Program, buildVars, canonVars,
                 opsVars
  <2>3. ScanInv'
    BY <1>10 DEF Emit, EndWalk, ShapeInv, ScanInv, scanVars, flowVars, writerVars
  <2>. QED
    BY <1>10, <2>1, <2>2, <2>3 DEF Emit, EndWalk, ShapeInv
<1>11. CASE UNCHANGED vars
  BY <1>11, ShapeQuiet DEF vars, buildVars, resultVars, runVars, ShapeInv
<1>. QED
  BY <1>1, <1>2, <1>3, <1>4, <1>5, <1>6, <1>7, <1>8, <1>9, <1>10, <1>11 DEF Next

LEMMA ShapeIsTyped == ShapeInv => TypeOK
<1>. SUFFICES ASSUME ShapeInv PROVE TypeOK
  OBVIOUS
<1>1. ASSUME NEW p \in Lifetimes PROVE epoch[p] \in 0 .. MaxEpoch
  <2>. DEFINE all == {j \in DOMAIN Program(p) : NewImage(Program(p)[j], p, j)}
  <2>1. /\ Len(Program(p)) \in Nat /\ DOMAIN Program(p) = 1 .. Len(Program(p))
        /\ Cardinality(all) <= MaxEpoch
    BY BuildsUnderstood DEF Understood, ShapeInv, EpochInv, Program
  <2>2. IsFiniteSet(DOMAIN Program(p)) /\ all \subseteq DOMAIN Program(p)
    BY <2>1, FS_Interval
  <2>3. IsFiniteSet(all) /\ Images(p, at[p]) \subseteq all
    BY <2>2, FS_Subset DEF Images
  <2>4. Cardinality(Images(p, at[p])) <= Cardinality(all)
    BY <2>3, FS_Subset
  <2>5. Cardinality(all) \in Nat
    BY <2>3, FS_CardinalityType
  <2>. HIDE DEF all
  <2>6. epoch[p] \in Nat /\ epoch[p] <= MaxEpoch
    BY <2>1, <2>4, <2>5, BuildConstantsOK DEF ShapeInv, EpochInv
  <2>. QED
    BY <2>6, BuildConstantsOK
<1>2. at \in [Lifetimes -> Nat \ {0}] /\ epoch \in [Lifetimes -> 0 .. MaxEpoch]
  BY <1>1 DEF ShapeInv, EpochInv
<1>3. PendingResolvable
  BY DEF ShapeInv, CanonInv, Positions, Pending, PendingResolvable
<1>4. /\ DOMAIN process_to_index \cup DOMAIN process_to_tool_hash \subseteq Instances
      /\ fallback_external_processes \subseteq Lifetimes
  BY DEF ShapeInv, CanonInv
<1>5. /\ \A k \in DOMAIN open_writes : open_writes[k].process \in Instances
      /\ \A r \in reads \cup writes \cup renames : r[1] \in Instances
      /\ \A w \in writers_by_hash \cup writers_by_path : w[2] \in Instances
  BY DEF ShapeInv, ScanInv
<1>. QED
  BY <1>2, <1>3, <1>4, <1>5 DEF ShapeInv, TypeOK

\* The state of both folds has the shape the code relies on, for every build:
\* a pending write is the position of a write operation when a close resolves
\* it (canonicalize.rs indexes ops and external_ops with it), and whoever the
\* slicer credits with a file, through however many renames, is a process of
\* the build.
THEOREM TypesCorrect == Spec => []TypeOK
<1>1. Init => ShapeInv
  BY ShapeInit
<1>2. ShapeInv /\ [Next]_vars => ShapeInv'
  BY ShapeNext
<1>. QED
  BY <1>1, <1>2, ShapeIsTyped, PTL DEF Spec
-----------------------------------------------------------------------------
(* Every output is committed.                                              *)

\* What is attested covers the outputs, and the walk set out from them.
CommitInv ==
  /\ OutputsCommitted
  /\ stage = "walk" => output_hashes = {o.hash : o \in outputs}

LEMMA OptionSeq ==
  ASSUME NEW s, IsOption(s), NEW S, s[1] \in S
  PROVE  s \in Seq(S)
<1>1. CASE s = <<>>
  BY <1>1
<1>2. CASE s = <<s[1]>>
  <2>. DEFINE a == s[1]
  <2>. HIDE DEF a
  <2>1. a \in S /\ s = <<a>>
    BY <1>2 DEF a
  <2>. QED
    BY <2>1
<1>. QED
  BY <1>1, <1>2 DEF IsOption

\* The hash of an operation tells what it wrote.
LEMMA HashTells ==
  ASSUME NEW t, NEW n, NEW tool, NEW args, NEW ins, NEW h,
         IsOption(tool), IsOption(args), IsOption(ins)
  PROVE  \E i \in DOMAIN hash(CanonicalOp(t, n, tool, args, ins, <<h>>)) :
            hash(CanonicalOp(t, n, tool, args, ins, <<h>>))[i] = h
<1>. DEFINE S == {<<"op", t>>, tool[1], args[1], ins[1], h}
            body == << <<"op", t>> >> \o tool \o args \o ins
<1>1. /\ << <<"op", t>> >> \in Seq(S) /\ tool \in Seq(S) /\ args \in Seq(S)
      /\ ins \in Seq(S) /\ <<h>> \in Seq(S)
  BY OptionSeq
<1>2. body \in Seq(S)
  BY <1>1
<1>3. hash(CanonicalOp(t, n, tool, args, ins, <<h>>)) = body \o <<h>>
  BY DEF hash, CanonicalOp
<1>. HIDE DEF S, body
<1>4. /\ Len(body) + 1 \in DOMAIN (body \o <<h>>)
      /\ (body \o <<h>>)[Len(body) + 1] = h
  BY <1>1, <1>2
<1>. QED
  BY <1>3, <1>4

\* The result holds an operation that wrote, or renamed, contents h.
LEMMA FlowCommits ==
  ASSUME ScanInv, NEW x \in Instances, NEW t, NEW ins, IsOption(ins), NEW h, NEW all,
         FlowOp(x, t, ins, <<h>>) \in all
  PROVE  \E leaf \in finalize_ops(all) : \E i \in DOMAIN leaf : leaf[i] = h
<1>. DEFINE op == FlowOp(x, t, ins, <<h>>)
<1>1. op = CanonicalOp(t, 0, flow_tool[x], <<>>, ins, <<h>>)
  BY DEF FlowOp
<1>2. IsOption(flow_tool[x]) /\ IsOption(<<>>)
  BY DEF ScanInv, IsOption
<1>3. \E i \in DOMAIN hash(op) : hash(op)[i] = h
  BY <1>1, <1>2, HashTells
<1>4. hash(op) \in finalize_ops(all)
  BY DEF finalize_ops
<1>. QED
  BY <1>3, <1>4

\* Whichever way the writers of orphans are chosen, every output is written
\* by an operation: that of a process the walk has reached, that of the one
\* that was chosen, or one of nobody.
LEMMA SliceCommits ==
  ASSUME ScanInv, NEW result \in canonicalize_output_slice,
         NEW h \in output_hashes, h \in relevant_hashes
  PROVE  \E leaf \in result : \E i \in DOMAIN leaf : leaf[i] = h
<1>1. PICK pick \in [Orphans -> {{}} \cup {{x} : x \in Instances}] :
         result = finalize_ops(ReachedOps \cup ExitOps
                               \cup UNION {OrphanOp(o, pick[o]) : o \in Orphans})
  BY DEF canonicalize_output_slice
<1>. DEFINE all == ReachedOps \cup ExitOps \cup UNION {OrphanOp(o, pick[o]) : o \in Orphans}
<1>2. IsOption(<<>>) /\ IsOption(<<h>>) /\ result = finalize_ops(all)
  BY <1>1 DEF IsOption
<1>3. CASE h \in Orphans
  <2>1. OrphanOp(h, pick[h]) \subseteq all
    BY <1>3
  <2>2. CASE pick[h] = {}
    <3>. DEFINE arg == << <<"arg", "output">> >>
                op == CanonicalOp("file_write", -1, <<>>, arg, <<>>, <<h>>)
    <3>1. op \in all
      BY <2>1, <2>2 DEF OrphanOp
    <3>2. IsOption(arg)
      BY DEF IsOption
    <3>. HIDE DEF arg, all
    <3>3. \E i \in DOMAIN hash(op) : hash(op)[i] = h
      BY <1>2, <3>2, HashTells
    <3>4. hash(op) \in finalize_ops(all)
      BY <3>1 DEF finalize_ops
    <3>. QED
      BY <1>2, <3>3, <3>4
  <2>3. CASE pick[h] # {}
    <3>1. PICK x \in Instances : pick[h] = {x}
      BY <1>3, <2>3
    <3>2. FlowOp(x, "file_write", <<>>, <<h>>) \in all
      BY <2>1, <2>3, <3>1 DEF OrphanOp
    <3>. HIDE DEF all
    <3>. QED
      BY <1>2, <3>2, FlowCommits
  <2>. QED
    BY <2>2, <2>3
<1>4. CASE h \notin Orphans
  <2>1. PICK x \in included_processes : <<x, h>> \in writes \cup renames
    BY <1>4 DEF Orphans
  <2>2. x \in Instances
    BY <2>1 DEF ScanInv
  <2>3. CASE <<x, h>> \in writes
    <3>1. <<x, h>> \in {r \in writes : r[1] \in included_processes /\ r[2] \in relevant_hashes}
      BY <2>1, <2>3
    <3>2. FlowOp(x, "file_write", <<>>, <<h>>) \in all
      <4>. DEFINE r == <<x, h>>
      <4>1. r[1] = x /\ r[2] = h
        OBVIOUS
      <4>. HIDE DEF r
      <4>. QED
        BY <3>1, <4>1 DEF ReachedOps, r
    <3>. HIDE DEF all
    <3>. QED
      BY <1>2, <2>2, <3>2, FlowCommits
  <2>4. CASE <<x, h>> \in renames
    <3>1. <<x, h>> \in {r \in renames : r[1] \in included_processes /\ r[2] \in relevant_hashes}
      BY <2>1, <2>4
    <3>2. FlowOp(x, "file_rename", <<h>>, <<h>>) \in all
      <4>. DEFINE r == <<x, h>>
      <4>1. r[1] = x /\ r[2] = h
        OBVIOUS
      <4>. HIDE DEF r
      <4>. QED
        BY <3>1, <4>1 DEF ReachedOps, r
    <3>. HIDE DEF all
    <3>. QED
      BY <1>2, <2>2, <3>2, FlowCommits
  <2>. QED
    BY <2>1, <2>3, <2>4
<1>. QED
  BY <1>3, <1>4

LEMMA CommitInit == Init => CommitInv
BY DEF Init, CommitInv, OutputsCommitted, Ended

\* Only Report ends a run, and nothing but Report writes what is attested.
LEMMA CommitNext == ShapeInv /\ WalkInv /\ CommitInv /\ [Next]_vars => CommitInv'
<1>. SUFFICES ASSUME ShapeInv, WalkInv, CommitInv, [Next]_vars PROVE CommitInv'
  OBVIOUS
<1>1. ASSUME stage' \notin {"attested", "done", "walk"} PROVE CommitInv'
  BY <1>1 DEF CommitInv, OutputsCommitted, Ended
<1>2. ASSUME UNCHANGED <<stage, actual, output_hashes, outputs>> PROVE CommitInv'
  BY <1>2 DEF CommitInv, OutputsCommitted, Ended, Committed
<1>3. CASE Trace \/ Verify \/ HarnessAgain
  BY <1>1, <1>3 DEF Trace, Verify, HarnessAgain, BeginRun
<1>4. CASE ResetWorkspace
  BY <1>2, <1>4 DEF ResetWorkspace, sliceVars, walkVars, resultVars
<1>5. ASSUME NEW sel, VerifyRefused(sel) PROVE CommitInv'
  BY <1>1, <1>5 DEF VerifyRefused
<1>6. ASSUME NEW p \in Lifetimes, Deliver(p) \/ Lose(p) \/ Wait(p) PROVE CommitInv'
  BY <1>1, <1>6 DEF Deliver, Lose, Wait, runVars
<1>7. CASE EndFailed
  BY <1>1, <1>7 DEF EndFailed
<1>8. CASE EndTrace
  <2>. DEFINE outs == select_outputs(session.selection, before, snapshot(final))
  <2>1. CASE outs = {} /\ Report(canonicalize_events, outs)
    <3>1. stage' \in {"attested", "done"} /\ actual'.root.outputs = {}
      BY <2>1 DEF Report, root_hash
    <3>. QED
      BY <3>1 DEF CommitInv, OutputsCommitted
  <2>2. CASE StartWalk(outs) /\ stage' = "walk"
    BY <1>8, <2>2 DEF EndTrace, StartWalk, CommitInv, OutputsCommitted, Ended
  <2>. QED
    BY <1>8, <2>1, <2>2 DEF EndTrace
<1>9. CASE WalkStep
  BY <1>2, <1>9 DEF WalkStep, Pop, resultVars, runVars
<1>10. CASE Emit
  <2>1. PICK result \in canonicalize_output_slice : Report(result, outputs)
    BY <1>10 DEF Emit
  <2>2. /\ stage' \in {"attested", "done"}
        /\ actual'.root.outputs = outputs /\ actual'.root.process_root = result
    BY <2>1 DEF Report, root_hash
  <2>3. ASSUME NEW o \in outputs
        PROVE  \E leaf \in result : \E i \in DOMAIN leaf : leaf[i] = o.hash
    <3>1. o.hash \in output_hashes
      BY <1>10 DEF Emit, CommitInv
    <3>2. o.hash \in relevant_hashes
      BY <1>10, <3>1 DEF Emit, WalkInv, Settled
    <3>. QED
      BY <2>1, <3>1, <3>2, SliceCommits DEF ShapeInv
  <2>. QED
    BY <2>2, <2>3 DEF CommitInv, OutputsCommitted, Committed
<1>11. CASE UNCHANGED vars
  BY <1>2, <1>11 DEF vars, sliceVars, walkVars, resultVars, runVars
<1>. QED
  BY <1>3, <1>4, <1>5, <1>6, <1>7, <1>8, <1>9, <1>10, <1>11 DEF Next

\* An attestation commits the contents of every selected output, also of
\* those that nobody was seen to write and of those whose writer the walk has
\* not reached, whatever the build did and whatever was lost of its trace.
THEOREM OutputsAreCommitted == Spec => []OutputsCommitted
<1>1. Init => ShapeInv /\ WalkInv /\ CommitInv
  BY ShapeInit, WalkInit, CommitInit
<1>2. ShapeInv /\ WalkInv /\ CommitInv /\ [Next]_vars => (ShapeInv /\ WalkInv /\ CommitInv)'
  BY ShapeNext, WalkNext, CommitNext
<1>3. CommitInv => OutputsCommitted
  BY DEF CommitInv
<1>. QED
  BY <1>1, <1>2, <1>3, PTL DEF Spec

-----------------------------------------------------------------------------
(* Inputs are reproduced.  Every read of the tree is an operation that     *)
(* ends in what was observed, and nothing else is; so the root of a whole  *)
(* trace tells the contents that were read, through any schedule and       *)
(* whatever names were drawn.                                              *)

\* The steps whose contents count, and their paths.
IsInput(s) ==
  /\ s.type \in {"open", "mmap"} /\ s.path # NoPath
  /\ s.mode \in {"r", "rw"} /\ ~is_system_state(s.path)
InputPaths(b) ==
  UNION {{b.program[p][k].path :
            k \in {j \in DOMAIN b.program[p] : IsInput(b.program[p][j])}} :
          p \in Lifetimes \ External}

\* A path, and what is observed there, with names n and files.
DrawnWith(n, path) ==
  [i \in DOMAIN path |-> IF path[i] \in DOMAIN n THEN n[path[i]] ELSE path[i]]
ObservedIn(path, files, n) ==
  IF path \notin DOMAIN files \/ files[path] = Absent THEN Missing(DrawnWith(n, path))
  ELSE IF files[path] = Directory THEN NonRegular(DrawnWith(n, path))
  ELSE observe_file(DrawnWith(n, path), files[path], n)

\* An access the tree makes is one the property speaks of: files are not
\* truncated when they are opened, for that is recorded as a read of an empty
\* file; whether a path is system state does not depend on the names drawn,
\* and no such path is watched; external processes read nothing that is.
PlainStep(s, external, drawn) ==
  s.type \in {"open", "mmap"} =>
    /\ {"path", "mode"} \subseteq DOMAIN s
    /\ s.path \in Seq(STRING)
    /\ s.mode \in {"r", "w", "rw"}
    /\ s.type = "open" => s.path # NoPath
    /\ s.type = "mmap" => s.mode # "w"
    /\ \A n \in drawn :
         /\ is_system_state(DrawnWith(n, s.path)) <=> is_system_state(s.path)
         /\ is_system_state(s.path) => ~is_watched_path(DrawnWith(n, s.path))
         /\ external /\ s.mode # "w" => ~is_watched_path(DrawnWith(n, s.path))

\* The names of missing files are told apart after normalization.
Plain(b) ==
  /\ \A p \in Lifetimes : \A k \in DOMAIN b.program[p] :
       PlainStep(b.program[p][k], p \in External, b.names)
  /\ \A n, m \in b.names : \A path, other \in InputPaths(b) :
       hash_path(DrawnWith(n, path)) = hash_path(DrawnWith(m, other)) => path = other

\* Fields of an operation that are hashed one after the other.
WellFormed(op) ==
  /\ op = CanonicalOp(op.op_type, op.process_index, op.tool_hash, op.args,
                      op.input_hashes, op.output_hashes)
  /\ IsOption(op.tool_hash) /\ IsOption(op.args)
  /\ IsOption(op.input_hashes) /\ IsOption(op.output_hashes)

\* Operation op says that path was read.
ReadOp(op, path) ==
  /\ WellFormed(op)
  /\ op.input_hashes = <<ObservedIn(path, final, names)>> /\ op.output_hashes = <<>>

\* Process p of the tree has read with its j-th step, if when[p] is its next one.
HasRead(p, j, when) == j < when[p] /\ IsInput(Program(p)[j])

\* The types of a read.
Reads == {"file_read", "external_file_read"}

\* Positions are events of the past; operations that are called reads are reads of the tree.
ListInv(list, when) ==
  \A i \in DOMAIN list :
    /\ i = <<i[1], i[2]>> /\ i[1] = <<i[1][1], i[1][2]>>
    /\ i[1][1] \in Lifetimes /\ i[1][2] \in Nat /\ i[1][2] < when[i[1][1]]
    /\ WellFormed(list[i])
    /\ i[2] \in Reads => \E p \in Lifetimes \ External : \E j \in DOMAIN Program(p) :
                      HasRead(p, j, when) /\ ReadOp(list[i], Program(p)[j].path)

Recorded(list, path) == \E i \in DOMAIN list : i[2] \in Reads /\ ReadOp(list[i], path)

\* Every read is recorded.
Complete(tree, external, when) ==
  \A p \in Lifetimes \ External : \A j \in DOMAIN Program(p) :
    HasRead(p, j, when) => \/ Recorded(tree, Program(p)[j].path)
                           \/ Recorded(external, Program(p)[j].path)

FoldInv ==
  /\ names \in build.names
  /\ ListInv(ops, at) /\ ListInv(external_ops, at)
  /\ lost = 0 => Complete(ops, external_ops, at)

\* What a root says was read.
Reading == {<<"op", "file_read">>, <<"op", "external_file_read">>}
Told(root) == {leaf[Len(leaf)] : leaf \in {l \in root : l[1] \in Reading}}
Observed(b, files, n) == {ObservedIn(path, files, n) : path \in InputPaths(b)}

\* The first and the last that goes into the hash of an operation.
LEMMA HashEnds ==
  ASSUME NEW op, WellFormed(op)
  PROVE  /\ hash(op)[1] = <<"op", op.op_type>>
         /\ \A v : op.input_hashes = <<v>> /\ op.output_hashes = <<>> =>
              hash(op)[Len(hash(op))] = v
<1>. DEFINE first == <<"op", op.op_type>>
            tool == op.tool_hash
            args == op.args
            ins == op.input_hashes
            outs == op.output_hashes
            S == {first, tool[1], args[1], ins[1], outs[1]}
            body == <<first>> \o tool \o args
<1>1. /\ <<first>> \in Seq(S) /\ tool \in Seq(S) /\ args \in Seq(S)
      /\ ins \in Seq(S) /\ outs \in Seq(S)
  BY OptionSeq DEF WellFormed
<1>2. body \in Seq(S)
  BY <1>1
<1>3. hash(op) = body \o ins \o outs
  BY DEF hash
<1>4. body[1] = first /\ Len(body) \in Nat /\ Len(body) >= 1
  <2>1. Len(<<first>> \o tool) >= 1 /\ (<<first>> \o tool)[1] = first
        /\ <<first>> \o tool \in Seq(S)
    BY <1>1
  <2>. HIDE DEF tool, args, S, first
  <2>. QED
    BY <1>1, <2>1
<1>. HIDE DEF body, first, S, tool, args
<1>5. hash(op)[1] = first
  <2>1. (body \o ins)[1] = first /\ Len(body \o ins) >= 1 /\ body \o ins \in Seq(S)
    BY <1>1, <1>2, <1>4
  <2>. HIDE DEF ins, outs
  <2>. QED
    BY <1>1, <1>3, <2>1
<1>6. ASSUME NEW v, ins = <<v>>, outs = <<>>
      PROVE  hash(op)[Len(hash(op))] = v
  <2>1. hash(op) = body \o <<v>>
    BY <1>1, <1>2, <1>3, <1>6
  <2>2. <<v>> \in Seq(S)
    BY <1>1, <1>6
  <2>. QED
    BY <1>2, <2>1, <2>2
<1>. QED
  BY <1>5, <1>6 DEF first, ins, outs

\* observe_path with its variables.
LEMMA ObservedNow ==
  ASSUME NEW path
  PROVE  /\ observe_path(path) = ObservedIn(path, final, names)
         /\ Drawn(path) = DrawnWith(names, path)
<1>1. Drawn(path) = DrawnWith(names, path)
  BY DEF Drawn, DrawnWith
<1>. QED
  BY <1>1 DEF observe_path, ObservedIn

\* Drawing names makes no path out of none, and none out of a path.
LEMMA DrawnPath ==
  ASSUME NEW path \in Seq(STRING), NEW n
  PROVE  DrawnWith(n, path) = NoPath <=> path = NoPath
<1>1. DOMAIN DrawnWith(n, path) = DOMAIN path
  BY DEF DrawnWith
<1>2. DOMAIN NoPath = {}
  BY DEF NoPath
<1>3. ASSUME DOMAIN path = {} PROVE path = NoPath
  BY <1>3, EmptySeq DEF NoPath
<1>4. ASSUME DOMAIN path = {} PROVE DrawnWith(n, path) = NoPath
  BY <1>4, <1>2, <1>3 DEF DrawnWith
<1>. QED
  BY <1>1, <1>2, <1>3, <1>4
-----------------------------------------------------------------------------
(* What an event adds to the lists of operations.                          *)

\* Event e turns list into more; S are the reads it adds.
Gains(list, more, e, S) ==
  /\ \A i \in DOMAIN list : i \in DOMAIN more /\ (i[2] \in Reads => more[i] = list[i])
  /\ \A i \in DOMAIN more :
       /\ WellFormed(more[i])
       /\ \/ i \in DOMAIN list /\ (i[2] \in Reads => more[i] = list[i])
          \/ i = <<e.id, i[2]>> /\ (i[2] \in Reads => more[i] \in S)
  /\ \A op \in S : \E i \in DOMAIN more : i[2] \in Reads /\ more[i] = op

\* Nothing stands where the event will push.
Room(list, e) == \A i \in DOMAIN list : i = <<i[1], i[2]>> /\ i[1] # e.id /\ WellFormed(list[i])

\* A new operation takes its place beside those that are there.
LEMMA PushGains ==
  ASSUME NEW list, NEW e, Room(list, e), NEW new,
         \A op \in new : WellFormed(op),
         \A op, other \in new : op.op_type = other.op_type => op = other
  PROVE  Gains(list, Push(list, e, new), e, {op \in new : op.op_type \in Reads})
<1>. DEFINE more == Push(list, e, new)
            S == {op \in new : op.op_type \in Reads}
<1>1. DOMAIN more = DOMAIN list \cup {<<e.id, op.op_type>> : op \in new}
  BY DEF Push
<1>2. ASSUME NEW i \in DOMAIN list PROVE i \in DOMAIN more /\ more[i] = list[i]
  <2>1. ~ \E op \in new : i = <<e.id, op.op_type>>
    BY <1>2 DEF Room
  <2>. QED
    BY <1>1, <1>2, <2>1 DEF Push
<1>3. ASSUME NEW op \in new
      PROVE  <<e.id, op.op_type>> \in DOMAIN more /\ more[<<e.id, op.op_type>>] = op
  <2>. DEFINE i == <<e.id, op.op_type>>
  <2>1. more[i] = CHOOSE o \in new : i = <<e.id, o.op_type>>
    BY <1>1, <1>3 DEF Push
  <2>2. more[i] \in new /\ i = <<e.id, more[i].op_type>>
    BY <1>3, <2>1
  <2>3. more[i].op_type = op.op_type
    BY <2>2
  <2>. QED
    BY <1>1, <1>3, <2>2, <2>3
<1>4. ASSUME NEW i \in DOMAIN more, i \notin DOMAIN list
      PROVE  \E op \in new : i = <<e.id, op.op_type>> /\ more[i] = op
  BY <1>1, <1>3, <1>4
<1>. HIDE DEF more
<1>5. ASSUME NEW i \in DOMAIN more
      PROVE  /\ WellFormed(more[i])
             /\ \/ i \in DOMAIN list /\ (i[2] \in Reads => more[i] = list[i])
                \/ i = <<e.id, i[2]>> /\ (i[2] \in Reads => more[i] \in S)
  <2>1. CASE i \in DOMAIN list
    BY <1>2, <2>1 DEF Room
  <2>2. CASE i \notin DOMAIN list
    <3>1. PICK op \in new : i = <<e.id, op.op_type>> /\ more[i] = op
      BY <1>4, <1>5, <2>2
    <3>. QED
      BY <3>1
  <2>. QED
    BY <2>1, <2>2
<1>6. ASSUME NEW op \in S PROVE \E i \in DOMAIN more : i[2] \in Reads /\ more[i] = op
  BY <1>3, <1>6
<1>7. Gains(list, more, e, S)
  BY <1>2, <1>5, <1>6 DEF Gains
<1>. QED
  BY <1>7 DEF more

\* Completing an operation adds none and changes no read.
LEMMA FillGains ==
  ASSUME NEW list, NEW e, Room(list, e), NEW i \in DOMAIN list, NEW observation,
         i[2] \notin Reads
  PROVE  Gains(list, Fill(list, i, observation), e, {})
<1>. DEFINE more == Fill(list, i, observation)
<1>1. DOMAIN more = DOMAIN list /\ \A j \in DOMAIN list : j # i => more[j] = list[j]
  BY DEF Fill
<1>2. WellFormed(more[i])
  <2>. DEFINE op == list[i]
  <2>1. WellFormed(op)
    BY DEF Room
  <2>2. more[i] = [op EXCEPT !.output_hashes = <<observation>>]
    BY DEF Fill
  <2>3. more[i] = CanonicalOp(op.op_type, op.process_index, op.tool_hash, op.args,
                              op.input_hashes, <<observation>>)
    <3>1. op = CanonicalOp(op.op_type, op.process_index, op.tool_hash, op.args,
                           op.input_hashes, op.output_hashes)
      BY <2>1 DEF WellFormed
    <3>. HIDE DEF op, more
    <3>2. [op EXCEPT !.output_hashes = <<observation>>] =
            CanonicalOp(op.op_type, op.process_index, op.tool_hash, op.args,
                        op.input_hashes, <<observation>>)
      BY <3>1 DEF CanonicalOp
    <3>. QED
      BY <2>2, <3>2
  <2>. HIDE DEF op, more
  <2>4. /\ more[i].op_type = op.op_type /\ more[i].process_index = op.process_index
        /\ more[i].tool_hash = op.tool_hash /\ more[i].args = op.args
        /\ more[i].input_hashes = op.input_hashes /\ more[i].output_hashes = <<observation>>
    BY <2>3 DEF CanonicalOp
  <2>5. IsOption(<<observation>>)
    BY DEF IsOption
  <2>. QED
    BY <2>1, <2>3, <2>4, <2>5 DEF WellFormed
<1>. HIDE DEF more
<1>3. Gains(list, more, e, {})
  BY <1>1, <1>2 DEF Gains, Room
<1>. QED
  BY <1>3 DEF more

\* Nothing is added.
LEMMA NothingGained ==
  ASSUME NEW list, NEW e, Room(list, e)
  PROVE  Gains(list, list, e, {})
BY DEF Gains, Room

\* Operations are well formed when they are pushed.
LEMMA OpFormed ==
  ASSUME NEW ty, NEW n, NEW tool, NEW args, NEW ins, NEW outs,
         IsOption(tool), IsOption(args), IsOption(ins), IsOption(outs)
  PROVE  /\ WellFormed(CanonicalOp(ty, n, tool, args, ins, outs))
         /\ CanonicalOp(ty, n, tool, args, ins, outs).op_type = ty
         /\ CanonicalOp(ty, n, tool, args, ins, outs).input_hashes = ins
         /\ CanonicalOp(ty, n, tool, args, ins, outs).output_hashes = outs
<1>. DEFINE op == CanonicalOp(ty, n, tool, args, ins, outs)
<1>1. /\ op.op_type = ty /\ op.process_index = n /\ op.tool_hash = tool /\ op.args = args
      /\ op.input_hashes = ins /\ op.output_hashes = outs
  BY DEF CanonicalOp
<1>2. op = CanonicalOp(op.op_type, op.process_index, op.tool_hash, op.args,
                       op.input_hashes, op.output_hashes)
  BY <1>1
<1>. HIDE DEF op
<1>3. WellFormed(op)
  BY <1>1, <1>2 DEF WellFormed
<1>. QED
  BY <1>1, <1>3 DEF op

\* An operation of a process of the tree has the form of one.
LEMMA TreeOpFormed ==
  ASSUME NEW e, NEW ty, NEW args, NEW ins, NEW outs,
         IsOption(args), IsOption(ins), IsOption(outs)
  PROVE  /\ WellFormed(TreeOp(e, ty, args, ins, outs))
         /\ TreeOp(e, ty, args, ins, outs).op_type = ty
         /\ TreeOp(e, ty, args, ins, outs).input_hashes = ins
         /\ TreeOp(e, ty, args, ins, outs).output_hashes = outs
<1>1. IsOption(tool_hash(e.process))
  BY DEF tool_hash, IsOption
<1>. QED
  BY <1>1, OpFormed DEF TreeOp

\* So has that of an external process.
LEMMA ExternalOpFormed ==
  ASSUME NEW ty, NEW args, NEW ins, NEW outs,
         IsOption(args), IsOption(ins), IsOption(outs)
  PROVE  /\ WellFormed(ExternalOp(ty, args, ins, outs))
         /\ ExternalOp(ty, args, ins, outs).op_type = ty
         /\ ExternalOp(ty, args, ins, outs).input_hashes = ins
         /\ ExternalOp(ty, args, ins, outs).output_hashes = outs
<1>1. IsOption(<<>>)
  BY DEF IsOption
<1>. QED
  BY <1>1, OpFormed DEF ExternalOp

\* What an access of the tree, and one that counts as external, adds.
LEMMA TreeAccessGains ==
  ASSUME NEW e, Room(ops, e), NEW op, WellFormed(op), op.op_type # "file_write",
         NEW accesses \in SUBSET {op}, NEW fresh \in BOOLEAN, TreeAccess(e, accesses, fresh)
  PROVE  /\ Gains(ops, ops', e, {o \in accesses : o.op_type \in Reads})
         /\ external_ops' = external_ops
<1>. DEFINE write == TreeOp(e, "file_write", <<>>, <<>>, <<>>)
            new == accesses \cup (IF fresh THEN {write} ELSE {})
<1>1. WellFormed(write) /\ write.op_type = "file_write"
  BY TreeOpFormed DEF IsOption, Reads
<1>2. ops' = Push(ops, e, new) /\ external_ops' = external_ops
  BY DEF TreeAccess
<1>. HIDE DEF write
<1>3. /\ \A o \in new : WellFormed(o)
      /\ \A o, other \in new : o.op_type = other.op_type => o = other
  BY <1>1
<1>4. {o \in new : o.op_type \in Reads} = {o \in accesses : o.op_type \in Reads}
  BY <1>1 DEF Reads
<1>. HIDE DEF new
<1>5. Gains(ops, Push(ops, e, new), e, {o \in new : o.op_type \in Reads})
  BY <1>3, PushGains
<1>. QED
  BY <1>2, <1>4, <1>5

\* An external process accesses a file.
LEMMA ExternalAccessGains ==
  ASSUME NEW e, Room(external_ops, e), NEW op, WellFormed(op),
         op.op_type # "external_file_write",
         NEW accesses \in SUBSET {op}, NEW fresh \in BOOLEAN,
         ExternalAccess(e, accesses, fresh)
  PROVE  /\ Gains(external_ops, external_ops', e,
                  {o \in accesses : o.op_type \in Reads})
         /\ ops' = ops
<1>. DEFINE write == ExternalOp("external_file_write", <<>>, <<>>, <<>>)
            new == accesses \cup (IF fresh THEN {write} ELSE {})
<1>1. WellFormed(write) /\ write.op_type = "external_file_write"
  BY ExternalOpFormed DEF IsOption
<1>2. external_ops' = Push(external_ops, e, new) /\ ops' = ops
  BY DEF ExternalAccess
<1>. HIDE DEF write
<1>3. /\ \A o \in new : WellFormed(o)
      /\ \A o, other \in new : o.op_type = other.op_type => o = other
  BY <1>1
<1>4. {o \in new : o.op_type \in Reads}
        = {o \in accesses : o.op_type \in Reads}
  BY <1>1 DEF Reads
<1>. HIDE DEF new
<1>5. Gains(external_ops, Push(external_ops, e, new), e,
            {o \in new : o.op_type \in Reads})
  BY <1>3, PushGains
<1>. QED
  BY <1>2, <1>4, <1>5

\* What event e, the next step of p, adds: its read, if it is one.
Adds(p) ==
  \E S, T :
    /\ Gains(ops, ops', Event(p), S)
    /\ Gains(external_ops, external_ops', Event(p), T)
    /\ \A op \in S \cup T :
         p \notin External /\ IsInput(StepOf(p)) /\ ReadOp(op, StepOf(p).path)
    /\ p \notin External /\ IsInput(StepOf(p)) => S \cup T # {}

\* The events of an open and of a mapping.
LEMMA AccessEvent ==
  ASSUME Plain(build), names \in build.names, NEW p \in Lifetimes, at[p] \in DOMAIN Program(p),
         StepOf(p).type \in {"open", "mmap"}
  PROVE  /\ Event(p).step.path = DrawnWith(names, StepOf(p).path)
         /\ Event(p).step.mode = StepOf(p).mode
         /\ Event(p).observation = ObservedIn(StepOf(p).path, final, names)
         /\ Event(p).type = StepOf(p).type /\ (Event(p).external <=> p \in External)
         /\ PlainStep(StepOf(p), p \in External, build.names)
         /\ Event(p).step.path = NoPath <=> StepOf(p).path = NoPath
<1>. DEFINE s == StepOf(p)
<1>1. PlainStep(s, p \in External, build.names)
  BY DEF Plain, StepOf, Program
<1>2. {"path", "mode"} \subseteq DOMAIN s /\ s.path \in Seq(STRING) /\ s.mode # "trunc"
  BY <1>1 DEF PlainStep
<1>3. Named(s).path = Drawn(s.path) /\ Named(s).mode = s.mode
  BY <1>2 DEF Named
<1>4. Observation(s) = observe_path(s.path)
  BY <1>2 DEF Observation
<1>5. Drawn(s.path) = DrawnWith(names, s.path)
      /\ observe_path(s.path) = ObservedIn(s.path, final, names)
  BY ObservedNow
<1>6. DrawnWith(names, s.path) = NoPath <=> s.path = NoPath
  BY <1>2, DrawnPath
<1>. HIDE DEF s
<1>7. /\ Event(p).step = Named(s) /\ Event(p).observation = Observation(s)
      /\ Event(p).type = s.type /\ (Event(p).external <=> p \in External)
  BY DEF Event, s
<1>. QED
  BY <1>1, <1>3, <1>4, <1>5, <1>6, <1>7 DEF s

\* An open adds the read it makes.
LEMMA OpenAdds ==
  ASSUME Plain(build), names \in build.names, NEW p \in Lifetimes, at[p] \in DOMAIN Program(p),
         Room(ops, Event(p)), Room(external_ops, Event(p)), CanonOpen(Event(p))
  PROVE  Adds(p)
<1>. DEFINE e == Event(p)
            s == StepOf(p)
            v == e.observation
            tree == TreeOp(e, "file_read", <<>>, <<v>>, <<>>)
            external == ExternalOp("external_file_read", <<>>, <<v>>, <<>>)
            state == SystemStateRead(e)
<1>0. s.type = "open"
  BY DEF CanonOpen, Event
<1>1. /\ e.step.path = DrawnWith(names, s.path) /\ e.step.mode = s.mode
      /\ v = ObservedIn(s.path, final, names)
      /\ e.type = s.type /\ (e.external <=> p \in External)
      /\ PlainStep(s, p \in External, build.names)
      /\ e.step.path = NoPath <=> s.path = NoPath
  BY <1>0, AccessEvent
<1>2. /\ s.path # NoPath /\ s.mode \in {"r", "w", "rw"}
      /\ is_system_state(e.step.path) <=> is_system_state(s.path)
      /\ is_system_state(s.path) => ~is_watched_path(e.step.path)
      /\ p \in External /\ s.mode # "w" => ~is_watched_path(e.step.path)
  BY <1>0, <1>1 DEF PlainStep
<1>3. /\ IsInput(s) <=> can_read(e.step) /\ ~is_system_state(s.path)
      /\ can_read(e.step) <=> s.mode # "w"
      /\ can_write(e.step) \in BOOLEAN
  BY <1>0, <1>1, <1>2 DEF IsInput, can_read, can_write
<1>4. IsOption(<<>>) /\ IsOption(<<v>>) /\ IsOption(<< <<"system", "state">> >>)
  BY DEF IsOption
<1>5. /\ WellFormed(tree) /\ tree.op_type = "file_read" /\ ReadOp(tree, s.path)
  BY <1>1, <1>4, TreeOpFormed DEF ReadOp
<1>6. /\ WellFormed(external) /\ external.op_type = "external_file_read"
      /\ ReadOp(external, s.path)
  BY <1>1, <1>4, ExternalOpFormed DEF ReadOp
<1>7. WellFormed(state) /\ state.op_type = "system_state_read"
  BY <1>4, TreeOpFormed DEF SystemStateRead
<1>8. \/ e.external /\ UNCHANGED canonVars
      \/ /\ e.external \/ is_watched_path(e.step.path)
         /\ e.external => is_watched_path(e.step.path)
         /\ ExternalAccess(e, IF can_read(e.step) THEN {external} ELSE {}, can_write(e.step))
      \/ /\ ~e.external /\ is_system_state(e.step.path)
         /\ TreeAccess(e, {state}, FALSE)
      \/ /\ ~e.external /\ ~is_system_state(e.step.path)
         /\ TreeAccess(e, IF can_read(e.step) THEN {tree} ELSE {}, can_write(e.step))
  BY DEF CanonOpen, IgnoredOpen, AsExternal, FallbackExternal
<1>. HIDE DEF tree, external, state, e, s, v
<1>9. /\ Gains(ops, ops, e, {})
      /\ Gains(external_ops, external_ops, e, {})
  BY NothingGained DEF e
<1>10. ASSUME NEW S, NEW T,
              Gains(ops, ops', e, S),
              Gains(external_ops, external_ops', e, T),
              \A op \in S \cup T : p \notin External /\ IsInput(s) /\ ReadOp(op, s.path),
              p \notin External /\ IsInput(s) => S \cup T # {}
       PROVE  Adds(p)
  BY <1>10 DEF Adds, e, s
<1>11. CASE e.external /\ UNCHANGED canonVars
  <2>1. ops' = ops /\ external_ops' = external_ops
    BY <1>11 DEF canonVars, opsVars
  <2>. QED
    BY <1>1, <1>9, <1>10, <1>11, <2>1
<1>12. ASSUME e.external \/ is_watched_path(e.step.path),
              e.external => is_watched_path(e.step.path),
              ExternalAccess(e, IF can_read(e.step) THEN {external} ELSE {}, can_write(e.step))
       PROVE  Adds(p)
  <2>. DEFINE accesses == IF can_read(e.step) THEN {external} ELSE {}
              T == {o \in accesses : o.op_type \in Reads}
  <2>0. accesses \in SUBSET {external} /\ Room(external_ops, e)
        /\ external.op_type # "external_file_write"
    BY <1>6 DEF e
  <2>1. /\ Gains(external_ops, external_ops', e, T)
        /\ ops' = ops
    BY <1>3, <1>6, <1>12, <2>0, ExternalAccessGains
  <2>2. T = accesses
    BY <1>6 DEF Reads
  <2>3. can_read(e.step) => p \notin External /\ IsInput(s)
    BY <1>1, <1>2, <1>3, <1>12
  <2>. QED
    BY <1>3, <1>6, <1>9, <1>10, <2>1, <2>2, <2>3
<1>13. ASSUME ~e.external, is_system_state(e.step.path), TreeAccess(e, {state}, FALSE)
       PROVE  Adds(p)
  <2>0. {state} \in SUBSET {state} /\ Room(ops, e) /\ state.op_type # "file_write"
    BY <1>7 DEF e
  <2>1. /\ Gains(ops, ops', e, {o \in {state} : o.op_type \in Reads})
        /\ external_ops' = external_ops
    BY <1>7, <1>13, <2>0, TreeAccessGains
  <2>2. {o \in {state} : o.op_type \in Reads} = {}
    BY <1>7 DEF Reads
  <2>. QED
    BY <1>2, <1>3, <1>9, <1>10, <1>13, <2>1, <2>2
<1>14. ASSUME ~e.external, ~is_system_state(e.step.path),
              TreeAccess(e, IF can_read(e.step) THEN {tree} ELSE {}, can_write(e.step))
       PROVE  Adds(p)
  <2>. DEFINE accesses == IF can_read(e.step) THEN {tree} ELSE {}
              S == {o \in accesses : o.op_type \in Reads}
  <2>0. accesses \in SUBSET {tree} /\ Room(ops, e) /\ tree.op_type # "file_write"
    BY <1>5 DEF e
  <2>1. Gains(ops, ops', e, S) /\ external_ops' = external_ops
    BY <1>3, <1>5, <1>14, <2>0, TreeAccessGains
  <2>2. S = accesses
    BY <1>5 DEF Reads
  <2>. QED
    BY <1>1, <1>2, <1>3, <1>5, <1>9, <1>10, <1>14, <2>1, <2>2
<1>. QED
  BY <1>8, <1>11, <1>12, <1>13, <1>14

\* So does a mapping.
LEMMA MmapAdds ==
  ASSUME Plain(build), names \in build.names, NEW p \in Lifetimes, at[p] \in DOMAIN Program(p),
         Room(ops, Event(p)), Room(external_ops, Event(p)), CanonMmap(Event(p))
  PROVE  Adds(p)
<1>. DEFINE e == Event(p)
            s == StepOf(p)
            v == e.observation
            mmap == << <<"arg", "mmap">> >>
            key == <<e.process[1], e.step.fd>>
            is_write == e.step.mode = "rw"
            fresh == is_write /\ key \notin DOMAIN pending_writes
            freshExternal == is_write /\ key \notin DOMAIN external_pending_writes
            tree == TreeOp(e, "file_read", mmap, <<v>>, <<>>)
            external == ExternalOp("external_file_read", mmap, <<v>>, <<>>)
            state == SystemStateRead(e)
<1>0. s.type = "mmap" /\ fresh \in BOOLEAN /\ freshExternal \in BOOLEAN
  BY DEF CanonMmap, Event
<1>1. /\ e.step.path = DrawnWith(names, s.path) /\ e.step.mode = s.mode
      /\ v = ObservedIn(s.path, final, names)
      /\ e.type = s.type /\ (e.external <=> p \in External)
      /\ PlainStep(s, p \in External, build.names)
      /\ e.step.path = NoPath <=> s.path = NoPath
  BY <1>0, AccessEvent
<1>2. /\ s.mode \in {"r", "rw"}
      /\ is_system_state(e.step.path) <=> is_system_state(s.path)
      /\ is_system_state(s.path) => ~is_watched_path(e.step.path)
      /\ p \in External => ~is_watched_path(e.step.path)
  BY <1>0, <1>1 DEF PlainStep
<1>3. IsInput(s) <=> s.path # NoPath /\ ~is_system_state(s.path)
  BY <1>0, <1>1, <1>2 DEF IsInput
<1>4. /\ IsOption(<<>>) /\ IsOption(<<v>>) /\ IsOption(mmap)
      /\ IsOption(<< <<"system", "state">> >>)
  BY DEF IsOption
<1>5. /\ WellFormed(tree) /\ tree.op_type = "file_read" /\ ReadOp(tree, s.path)
  BY <1>1, <1>4, TreeOpFormed DEF ReadOp
<1>6. /\ WellFormed(external) /\ external.op_type = "external_file_read"
      /\ ReadOp(external, s.path)
  BY <1>1, <1>4, ExternalOpFormed DEF ReadOp
<1>7. WellFormed(state) /\ state.op_type = "system_state_read"
  BY <1>4, TreeOpFormed DEF SystemStateRead
<1>8. \/ (e.step.path = NoPath \/ e.external) /\ UNCHANGED canonVars
      \/ /\ e.step.path # NoPath /\ (e.external => is_watched_path(e.step.path))
         /\ e.external \/ is_watched_path(e.step.path)
         /\ ExternalAccess(e, {external}, freshExternal)
      \/ /\ e.step.path # NoPath /\ ~e.external /\ is_system_state(e.step.path)
         /\ TreeAccess(e, {state}, FALSE)
      \/ /\ e.step.path # NoPath /\ ~e.external /\ ~is_system_state(e.step.path)
         /\ TreeAccess(e, {tree}, fresh)
  BY DEF CanonMmap, AsExternal, FallbackExternal
<1>. HIDE DEF tree, external, state, e, s, v, fresh, freshExternal
<1>9. /\ Gains(ops, ops, e, {})
      /\ Gains(external_ops, external_ops, e, {})
  BY NothingGained DEF e
<1>10. ASSUME NEW S, NEW T,
              Gains(ops, ops', e, S),
              Gains(external_ops, external_ops', e, T),
              \A op \in S \cup T : p \notin External /\ IsInput(s) /\ ReadOp(op, s.path),
              p \notin External /\ IsInput(s) => S \cup T # {}
       PROVE  Adds(p)
  BY <1>10 DEF Adds, e, s
<1>11. CASE (e.step.path = NoPath \/ e.external) /\ UNCHANGED canonVars
  <2>1. ops' = ops /\ external_ops' = external_ops
    BY <1>11 DEF canonVars, opsVars
  <2>. QED
    BY <1>1, <1>3, <1>9, <1>10, <1>11, <2>1
<1>12. ASSUME e.step.path # NoPath, e.external => is_watched_path(e.step.path),
              e.external \/ is_watched_path(e.step.path),
              ExternalAccess(e, {external}, freshExternal)
       PROVE  Adds(p)
  <2>0. {external} \in SUBSET {external} /\ Room(external_ops, e)
        /\ external.op_type # "external_file_write"
    BY <1>6 DEF e
  <2>1. /\ Gains(external_ops, external_ops', e,
                 {o \in {external} : o.op_type \in Reads})
        /\ ops' = ops
    BY <1>0, <1>6, <1>12, <2>0, ExternalAccessGains
  <2>2. {o \in {external} : o.op_type \in Reads} = {external}
    BY <1>6 DEF Reads
  <2>3. p \notin External /\ IsInput(s)
    BY <1>1, <1>2, <1>3, <1>12
  <2>. QED
    BY <1>6, <1>9, <1>10, <2>1, <2>2, <2>3
<1>13. ASSUME ~e.external, is_system_state(e.step.path), TreeAccess(e, {state}, FALSE)
       PROVE  Adds(p)
  <2>0. {state} \in SUBSET {state} /\ Room(ops, e) /\ state.op_type # "file_write"
    BY <1>7 DEF e
  <2>1. /\ Gains(ops, ops', e, {o \in {state} : o.op_type \in Reads})
        /\ external_ops' = external_ops
    BY <1>7, <1>13, <2>0, TreeAccessGains
  <2>2. {o \in {state} : o.op_type \in Reads} = {}
    BY <1>7 DEF Reads
  <2>. QED
    BY <1>2, <1>3, <1>9, <1>10, <1>13, <2>1, <2>2
<1>14. ASSUME e.step.path # NoPath, ~e.external, ~is_system_state(e.step.path),
              TreeAccess(e, {tree}, fresh)
       PROVE  Adds(p)
  <2>0. {tree} \in SUBSET {tree} /\ Room(ops, e) /\ tree.op_type # "file_write"
    BY <1>5 DEF e
  <2>1. /\ Gains(ops, ops', e, {o \in {tree} : o.op_type \in Reads})
        /\ external_ops' = external_ops
    BY <1>0, <1>5, <1>14, <2>0, TreeAccessGains
  <2>2. {o \in {tree} : o.op_type \in Reads} = {tree}
    BY <1>5 DEF Reads
  <2>. QED
    BY <1>1, <1>2, <1>3, <1>5, <1>9, <1>10, <1>14, <2>1, <2>2
<1>. QED
  BY <1>8, <1>11, <1>12, <1>13, <1>14

\* All other events add no read.
LEMMA NoReadAdds ==
  ASSUME NEW p \in Lifetimes, ~IsInput(StepOf(p)),
         Gains(ops, ops', Event(p), {}),
         Gains(external_ops, external_ops', Event(p), {})
  PROVE  Adds(p)
BY DEF Adds

\* A close adds no read.
LEMMA CloseAdds ==
  ASSUME CanonInv, NEW p \in Lifetimes, StepOf(p).type = "close",
         Room(ops, Event(p)), Room(external_ops, Event(p)), CanonClose(Event(p))
  PROVE  Adds(p)
<1>. DEFINE e == Event(p)
            key == <<e.process[1], e.step.fd>>
<1>1. ~IsInput(StepOf(p))
  BY DEF IsInput
<1>2. /\ Gains(ops, ops, e, {})
      /\ Gains(external_ops, external_ops, e, {})
  BY NothingGained
<1>3. ASSUME key \in DOMAIN pending_writes
      PROVE  Gains(ops, Fill(ops, pending_writes[key], e.observation), e, {})
  <2>1. pending_writes[key] \in DOMAIN ops /\ pending_writes[key][2] \notin Reads
    BY <1>3 DEF CanonInv, Pending, Reads
  <2>. QED
    BY <2>1, FillGains
<1>4. ASSUME key \in DOMAIN external_pending_writes
      PROVE  Gains(external_ops, Fill(external_ops, external_pending_writes[key], e.observation),
                   e, {})
  <2>1. /\ external_pending_writes[key] \in DOMAIN external_ops
        /\ external_pending_writes[key][2] \notin Reads
    BY <1>4 DEF CanonInv, Pending, Reads
  <2>. QED
    BY <2>1, FillGains
<1>5. /\ \/ ops' = ops
         \/ key \in DOMAIN pending_writes
            /\ ops' = Fill(ops, pending_writes[key], e.observation)
      /\ \/ external_ops' = external_ops
         \/ key \in DOMAIN external_pending_writes
            /\ external_ops' = Fill(external_ops, external_pending_writes[key], e.observation)
  BY DEF CanonClose, opsVars
<1>. QED
  BY <1>1, <1>2, <1>3, <1>4, <1>5, NoReadAdds

\* Nor does a rename or an unlink.
LEMMA MovedAdds ==
  ASSUME NEW p \in Lifetimes, ~IsInput(StepOf(p)),
         Room(ops, Event(p)), Room(external_ops, Event(p)),
         NEW paths, NEW ty \in {"file_rename", "file_delete"},
         NEW xty \in {"external_file_rename", "external_file_delete"},
         NEW outs, IsOption(outs), Moved(Event(p), paths, ty, xty, outs)
  PROVE  Adds(p)
<1>. DEFINE e == Event(p)
            flags == << <<"flags", "0x0">> >>
            external == ExternalOp(xty, flags, <<e.observation>>, outs)
            tree == TreeOp(e, ty, flags, <<e.observation>>, outs)
<1>1. /\ Gains(ops, ops, e, {})
      /\ Gains(external_ops, external_ops, e, {})
  BY NothingGained
<1>2. IsOption(flags) /\ IsOption(<<e.observation>>)
  BY DEF IsOption
<1>3. WellFormed(external) /\ external.op_type = xty
  BY <1>2, ExternalOpFormed
<1>4. WellFormed(tree) /\ tree.op_type = ty
  BY <1>2, TreeOpFormed
<1>5. \/ ExternalAccess(e, {external}, FALSE)
      \/ TreeAccess(e, {tree}, FALSE)
  BY DEF Moved
<1>. HIDE DEF external, tree
<1>6. CASE ExternalAccess(e, {external}, FALSE)
  <2>0. {external} \in SUBSET {external} /\ external.op_type # "external_file_write"
    BY <1>3
  <2>1. /\ Gains(external_ops, external_ops', e,
                 {o \in {external} : o.op_type \in Reads})
        /\ ops' = ops
    BY <1>3, <1>6, <2>0, ExternalAccessGains
  <2>2. {o \in {external} : o.op_type \in Reads} = {}
    BY <1>3 DEF Reads
  <2>. QED
    BY <1>1, <2>1, <2>2, NoReadAdds
<1>7. CASE TreeAccess(e, {tree}, FALSE)
  <2>0. {tree} \in SUBSET {tree} /\ tree.op_type # "file_write"
    BY <1>4
  <2>1. /\ Gains(ops, ops', e, {o \in {tree} : o.op_type \in Reads})
        /\ external_ops' = external_ops
    BY <1>4, <1>7, <2>0, TreeAccessGains
  <2>2. {o \in {tree} : o.op_type \in Reads} = {}
    BY <1>4 DEF Reads
  <2>. QED
    BY <1>1, <2>1, <2>2, NoReadAdds
<1>. QED
  BY <1>5, <1>6, <1>7

\* An exec, or an exit, pushes one operation or none.
LEMMA PushedAdds ==
  ASSUME NEW p \in Lifetimes, ~IsInput(StepOf(p)),
         Room(ops, Event(p)), Room(external_ops, Event(p)), NEW op, WellFormed(op),
         op.op_type \notin Reads,
         ops' = Push(ops, Event(p), {op}), external_ops' = external_ops
  PROVE  Adds(p)
<1>1. Gains(external_ops, external_ops, Event(p), {})
  BY NothingGained
<1>2. Gains(ops, Push(ops, Event(p), {op}), Event(p),
            {o \in {op} : o.op_type \in Reads})
  <2>1. \A o \in {op} : WellFormed(o)
    OBVIOUS
  <2>2. \A o, other \in {op} : o.op_type = other.op_type => o = other
    OBVIOUS
  <2>. QED
    BY <2>1, <2>2, PushGains
<1>3. {o \in {op} : o.op_type \in Reads} = {}
  OBVIOUS
<1>. QED
  BY <1>1, <1>2, <1>3, NoReadAdds

\* Every event is one of these.
LEMMA EventAdds ==
  ASSUME Plain(build), names \in build.names, CanonInv, NEW p \in Lifetimes,
         at[p] \in DOMAIN Program(p),
         Room(ops, Event(p)), Room(external_ops, Event(p)), CanonStep(Event(p))
  PROVE  Adds(p)
<1>. DEFINE e == Event(p)
            s == StepOf(p)
<1>0. e.type = s.type
  BY DEF Event
<1>1. s.type \notin {"open", "mmap"} => ~IsInput(s)
  BY DEF IsInput
<1>2. CASE CanonOpen(e)
  BY <1>2, OpenAdds
<1>3. CASE CanonMmap(e)
  BY <1>3, MmapAdds
<1>4. CASE CanonClose(e)
  <2>1. s.type = "close"
    BY <1>0, <1>4 DEF CanonClose
  <2>. QED
    BY <1>4, <2>1, CloseAdds
<1>5. CASE CanonRename(e)
  <2>1. ~IsInput(s) /\ IsOption(<<e.observation>>)
    BY <1>0, <1>1, <1>5 DEF CanonRename, IsOption
  <2>. QED
    BY <1>5, <2>1, MovedAdds DEF CanonRename
<1>6. CASE CanonUnlink(e)
  <2>1. ~IsInput(s) /\ IsOption(<<>>)
    BY <1>0, <1>1, <1>6 DEF CanonUnlink, IsOption
  <2>. QED
    BY <1>6, <2>1, MovedAdds DEF CanonUnlink
<1>7. CASE CanonFork(e)
  <2>1. ~IsInput(s) /\ ops' = ops /\ external_ops' = external_ops
    BY <1>0, <1>1, <1>7 DEF CanonFork
  <2>. QED
    BY <2>1, NothingGained, NoReadAdds
<1>8. CASE CanonExec(e)
  <2>. DEFINE op == CanonicalOp("exec", IndexWith(e.process)[e.process],
                                <<e.observation>>, <<>>, <<>>, <<>>)
  <2>1. ~IsInput(s) /\ ops' = Push(ops, e, {op}) /\ external_ops' = external_ops
    BY <1>0, <1>1, <1>8 DEF CanonExec
  <2>2. IsOption(<<>>) /\ IsOption(<<e.observation>>)
    BY DEF IsOption
  <2>3. WellFormed(op) /\ op.op_type = "exec"
    BY <2>2, OpFormed
  <2>. HIDE DEF op
  <2>. QED
    BY <2>1, <2>3, PushedAdds DEF Reads
<1>9. CASE CanonExit(e)
  <2>. DEFINE args == IF e.process[1] = Root THEN << <<"exit", e.step.code>> >> ELSE <<>>
              op == TreeOp(e, "exit", args, <<>>, <<>>)
  <2>1. /\ ~IsInput(s) /\ external_ops' = external_ops
        /\ ops' = Push(ops, e, {op}) \/ ops' = ops
    BY <1>0, <1>1, <1>9 DEF CanonExit
  <2>2. IsOption(<<>>) /\ IsOption(args)
    BY DEF IsOption
  <2>3. WellFormed(op) /\ op.op_type = "exit"
    BY <2>2, TreeOpFormed
  <2>. HIDE DEF op
  <2>4. CASE ops' = ops
    BY <2>1, <2>4, NothingGained, NoReadAdds
  <2>. QED
    BY <2>1, <2>3, <2>4, PushedAdds DEF Reads
<1>. QED
  BY <1>2, <1>3, <1>4, <1>5, <1>6, <1>7, <1>8, <1>9 DEF CanonStep
-----------------------------------------------------------------------------
(* The lists hold the reads.                                               *)

\* A process that is about to take a step has room for its event.
LEMMA EventRoom ==
  ASSUME at \in [Lifetimes -> Nat \ {0}], NEW p \in Lifetimes,
         NEW list, ListInv(list, at)
  PROVE  Room(list, Event(p))
<1>1. Event(p).id = <<p, at[p]>>
  BY DEF Event
<1>2. ASSUME NEW i \in DOMAIN list PROVE i[1] # <<p, at[p]>>
  <2>1. i[1] = <<i[1][1], i[1][2]>> /\ i[1][2] \in Nat /\ i[1][2] < at[i[1][1]]
    BY <1>2 DEF ListInv
  <2>. QED
    BY <2>1
<1>. QED
  BY <1>1, <1>2 DEF Room, ListInv

\* Process p has taken its next step, with its event or without it.
LEMMA ListKept ==
  ASSUME at \in [Lifetimes -> Nat \ {0}], NEW p \in Lifetimes, at[p] \in DOMAIN Program(p),
         NEW when, when = [at EXCEPT ![p] = @ + 1],
         Len(Program(p)) \in Nat, DOMAIN Program(p) = 1 .. Len(Program(p)),
         NEW list, NEW more, NEW S, ListInv(list, at),
         Gains(list, more, Event(p), S),
         \A op \in S : p \notin External /\ IsInput(StepOf(p)) /\ ReadOp(op, StepOf(p).path)
  PROVE  ListInv(more, when)
<1>1. Event(p).id = <<p, at[p]>>
  BY DEF Event
<1>2. /\ \A q \in Lifetimes : at[q] \in Nat /\ when[q] \in Nat /\ at[q] <= when[q]
      /\ at[p] < when[p]
  OBVIOUS
<1>. SUFFICES ASSUME NEW i \in DOMAIN more
              PROVE  /\ i = <<i[1], i[2]>> /\ i[1] = <<i[1][1], i[1][2]>>
                     /\ i[1][1] \in Lifetimes /\ i[1][2] \in Nat /\ i[1][2] < when[i[1][1]]
                     /\ WellFormed(more[i])
                     /\ i[2] \in Reads =>
                          \E q \in Lifetimes \ External : \E j \in DOMAIN Program(q) :
                          HasRead(q, j, when) /\ ReadOp(more[i], Program(q)[j].path)
  BY DEF ListInv
<1>3. WellFormed(more[i])
  BY DEF Gains
<1>4. CASE i \in DOMAIN list /\ (i[2] \in Reads => more[i] = list[i])
  <2>1. /\ i = <<i[1], i[2]>> /\ i[1] = <<i[1][1], i[1][2]>>
        /\ i[1][1] \in Lifetimes /\ i[1][2] \in Nat /\ i[1][2] < at[i[1][1]]
    BY <1>4 DEF ListInv
  <2>2. i[1][2] < when[i[1][1]]
    BY <1>2, <2>1
  <2>3. ASSUME i[2] \in Reads
        PROVE  \E q \in Lifetimes \ External : \E j \in DOMAIN Program(q) :
                 HasRead(q, j, when) /\ ReadOp(more[i], Program(q)[j].path)
    <3>0. PICK q \in Lifetimes \ External : \E j \in DOMAIN Program(q) :
             HasRead(q, j, at) /\ ReadOp(list[i], Program(q)[j].path)
      BY <1>4, <2>3 DEF ListInv
    <3>1. PICK j \in DOMAIN Program(q) :
             HasRead(q, j, at) /\ ReadOp(list[i], Program(q)[j].path)
      BY <3>0
    <3>2. HasRead(q, j, when)
      <4>1. CASE q = p
        BY <1>2, <3>1, <4>1 DEF HasRead
      <4>2. CASE q # p
        BY <3>1, <4>2 DEF HasRead
      <4>. QED
        BY <4>1, <4>2
    <3>. QED
      BY <1>4, <2>3, <3>1, <3>2
  <2>. QED
    BY <1>3, <2>1, <2>2, <2>3
<1>5. CASE i = <<Event(p).id, i[2]>> /\ (i[2] \in Reads => more[i] \in S)
  <2>1. i[1] = <<p, at[p]>> /\ i[1][1] = p /\ i[1][2] = at[p]
    BY <1>1, <1>5
  <2>2. ASSUME i[2] \in Reads
        PROVE  p \in Lifetimes \ External /\ HasRead(p, at[p], when)
               /\ ReadOp(more[i], Program(p)[at[p]].path)
    BY <1>2, <1>5, <2>2 DEF HasRead, StepOf
  <2>. QED
    BY <1>2, <1>3, <1>5, <2>1, <2>2
<1>. QED
  BY <1>4, <1>5 DEF Gains

\* What is recorded stays so.
LEMMA RecordedKept ==
  ASSUME NEW list, NEW more, NEW e, NEW S, Gains(list, more, e, S),
         NEW path, Recorded(list, path)
  PROVE  Recorded(more, path)
BY DEF Gains, Recorded

\* The reads stay complete when one process takes a step.
LEMMA CompleteKept ==
  ASSUME at \in [Lifetimes -> Nat \ {0}], NEW p \in Lifetimes, at[p] \in DOMAIN Program(p),
         NEW when, when = [at EXCEPT ![p] = @ + 1],
         Len(Program(p)) \in Nat, DOMAIN Program(p) = 1 .. Len(Program(p)),
         NEW tree, NEW external, Complete(ops, external_ops, at),
         NEW S, NEW T,
         Gains(ops, tree, Event(p), S),
         Gains(external_ops, external, Event(p), T),
         \A op \in S \cup T : ReadOp(op, StepOf(p).path),
         p \notin External /\ IsInput(StepOf(p)) => S \cup T # {}
  PROVE  Complete(tree, external, when)
<1>. SUFFICES ASSUME NEW q \in Lifetimes \ External, NEW j \in DOMAIN Program(q),
                     HasRead(q, j, when)
              PROVE  \/ Recorded(tree, Program(q)[j].path)
                     \/ Recorded(external, Program(q)[j].path)
  BY DEF Complete
<1>1. CASE HasRead(q, j, at)
  <2>1. \/ Recorded(ops, Program(q)[j].path)
        \/ Recorded(external_ops, Program(q)[j].path)
    BY <1>1 DEF Complete
  <2>. QED
    BY <2>1, RecordedKept
<1>2. CASE ~HasRead(q, j, at)
  <2>1. q = p
    BY <1>2 DEF HasRead
  <2>2. j = at[p] /\ IsInput(StepOf(p))
    BY <1>2, <2>1 DEF HasRead, StepOf
  <2>3. PICK op \in S \cup T : ReadOp(op, StepOf(p).path)
    BY <2>1, <2>2
  <2>4. \/ Recorded(tree, StepOf(p).path)
        \/ Recorded(external, StepOf(p).path)
    BY <2>3 DEF Gains, Recorded
  <2>. QED
    BY <2>1, <2>2, <2>4 DEF StepOf
<1>. QED
  BY <1>1, <1>2

\* What is known of a program while its process runs.
LEMMA ProgramShape ==
  ASSUME EpochInv, NEW p \in Lifetimes
  PROVE  /\ Len(Program(p)) \in Nat /\ DOMAIN Program(p) = 1 .. Len(Program(p))
         /\ at \in [Lifetimes -> Nat \ {0}]
         /\ Running(p) <=> at[p] \in DOMAIN Program(p)
BY BuildsUnderstood DEF Understood, EpochInv, Program, Running

\* Where build, files and names stay, so do what the lists say.
LEMMA FoldSame ==
  ASSUME UNCHANGED <<build, final, names>>
  PROVE  /\ FoldInv' <=>
              /\ names \in build.names
              /\ ListInv(ops', at')
              /\ ListInv(external_ops', at')
              /\ lost' = 0 => Complete(ops', external_ops', at')
         /\ Plain(build)' <=> Plain(build)
<1>1. \A op, path : ReadOp(op, path)' <=> ReadOp(op, path)
  BY DEF ReadOp
<1>2. \A p, j, when : HasRead(p, j, when)' <=> HasRead(p, j, when)
  BY DEF HasRead, Program
<1>. QED
  BY DEF FoldInv, ListInv, Complete, Recorded, ReadOp, HasRead, Program

\* An event is delivered.
LEMMA FoldDelivered ==
  ASSUME EpochInv, CanonInv, Plain(build), FoldInv, NEW p \in Lifetimes, Deliver(p)
  PROVE  FoldInv'
<1>1. /\ Running(p) /\ Advance(p) /\ CanonStep(Event(p)) /\ lost' = lost
  BY DEF Deliver, Enabled, runVars
<1>2. /\ Len(Program(p)) \in Nat /\ DOMAIN Program(p) = 1 .. Len(Program(p))
      /\ at \in [Lifetimes -> Nat \ {0}] /\ at[p] \in DOMAIN Program(p)
  BY <1>1, ProgramShape
<1>3. UNCHANGED <<build, final, names>> /\ at' = [at EXCEPT ![p] = @ + 1]
  BY <1>1 DEF Advance
<1>4. Room(ops, Event(p)) /\ Room(external_ops, Event(p))
  BY <1>2, EventRoom DEF FoldInv
<1>5. Adds(p)
  BY <1>1, <1>2, <1>4, EventAdds DEF FoldInv
<1>6. PICK S, T :
        /\ Gains(ops, ops', Event(p), S)
        /\ Gains(external_ops, external_ops', Event(p), T)
        /\ \A op \in S \cup T :
             p \notin External /\ IsInput(StepOf(p)) /\ ReadOp(op, StepOf(p).path)
        /\ p \notin External /\ IsInput(StepOf(p)) => S \cup T # {}
  BY <1>5 DEF Adds
<1>7. ListInv(ops', at') /\ ListInv(external_ops', at')
  BY <1>2, <1>3, <1>6, ListKept DEF FoldInv
<1>8. lost = 0 => Complete(ops', external_ops', at')
  BY <1>2, <1>3, <1>6, CompleteKept DEF FoldInv
<1>. QED
  BY <1>1, <1>3, <1>7, <1>8, FoldSame DEF FoldInv

\* A step that leaves no event: a wait, or one whose event is lost.
LEMMA FoldAdvanced ==
  ASSUME EpochInv, FoldInv, NEW p \in Lifetimes, Running(p), Advance(p),
         UNCHANGED <<ops, external_ops>>,
         lost' # 0 \/ (lost' = lost /\ ~IsInput(StepOf(p)))
  PROVE  FoldInv'
<1>2. /\ Len(Program(p)) \in Nat /\ DOMAIN Program(p) = 1 .. Len(Program(p))
      /\ at \in [Lifetimes -> Nat \ {0}] /\ at[p] \in DOMAIN Program(p)
  BY ProgramShape
<1>3. UNCHANGED <<build, final, names>> /\ at' = [at EXCEPT ![p] = @ + 1]
  BY DEF Advance
<1>4. Room(ops, Event(p)) /\ Room(external_ops, Event(p))
  BY <1>2, EventRoom DEF FoldInv
<1>. DEFINE S == {}
<1>5. /\ Gains(ops, ops', Event(p), S)
      /\ Gains(external_ops, external_ops', Event(p), S)
      /\ \A op \in S :
           p \notin External /\ IsInput(StepOf(p)) /\ ReadOp(op, StepOf(p).path)
      /\ \A op \in S \cup S : ReadOp(op, StepOf(p).path)
  BY <1>4, NothingGained
<1>. HIDE DEF S
<1>6. ListInv(ops, at) /\ ListInv(external_ops, at)
  BY DEF FoldInv
<1>7. ListInv(ops', at') /\ ListInv(external_ops', at')
  BY <1>2, <1>3, <1>5, <1>6, ListKept
<1>8. ASSUME lost' = 0 PROVE Complete(ops', external_ops', at')
  <2>1. Complete(ops, external_ops, at) /\ ~IsInput(StepOf(p))
    BY <1>8 DEF FoldInv
  <2>. QED
    BY <1>2, <1>3, <1>5, <2>1, CompleteKept
<1>. QED
  BY <1>3, <1>7, <1>8, FoldSame DEF FoldInv
-----------------------------------------------------------------------------
(* The root tells what was read.                                           *)

\* What the operations of a list say was read.
LEMMA LeafOfRead ==
  ASSUME NEW op, NEW path, ReadOp(op, path), op.op_type \in Reads
  PROVE  /\ hash(op)[1] \in Reading
         /\ hash(op)[Len(hash(op))] = ObservedIn(path, final, names)
BY HashEnds DEF ReadOp, Reads, Reading

\* A leaf that reads comes from an operation that reads.
LEMMA LeafIsRead ==
  ASSUME NEW list, Positions(list), ListInv(list, at), NEW i \in DOMAIN list,
         hash(list[i])[1] \in Reading
  PROVE  \E path \in InputPaths(build) :
           hash(list[i])[Len(hash(list[i]))] = ObservedIn(path, final, names)
<1>. DEFINE op == list[i]
<1>1. WellFormed(op) /\ op.op_type = i[2]
  BY DEF ListInv, Positions
<1>2. hash(op)[1] = <<"op", op.op_type>>
  BY <1>1, HashEnds
<1>3. i[2] \in Reads
  BY <1>1, <1>2 DEF Reads, Reading
<1>4. PICK p \in Lifetimes \ External : \E j \in DOMAIN Program(p) :
         HasRead(p, j, at) /\ ReadOp(op, Program(p)[j].path)
  BY <1>3 DEF ListInv
<1>5. PICK j \in DOMAIN Program(p) : HasRead(p, j, at) /\ ReadOp(op, Program(p)[j].path)
  BY <1>4
<1>6. Program(p)[j].path \in InputPaths(build)
  BY <1>5 DEF HasRead, InputPaths, Program
<1>7. hash(op)[Len(hash(op))] = ObservedIn(Program(p)[j].path, final, names)
  BY <1>1, <1>3, <1>5, LeafOfRead
<1>. QED
  BY <1>6, <1>7

\* The root of a whole trace tells exactly what was observed.
LEMMA RootTells ==
  ASSUME EpochInv, CanonInv, FoldInv, BuildDone, lost = 0
  PROVE  Told(canonicalize_events) = Observed(build, final, names)
<1>. DEFINE all == {ops[i] : i \in DOMAIN ops} \cup {external_ops[i] : i \in DOMAIN external_ops}
<1>0. canonicalize_events = {hash(op) : op \in all}
  BY DEF canonicalize_events, finalize_ops
<1>1. ASSUME NEW v \in Told(canonicalize_events) PROVE v \in Observed(build, final, names)
  <2>1. PICK leaf \in canonicalize_events : leaf[1] \in Reading /\ v = leaf[Len(leaf)]
    BY <1>1 DEF Told
  <2>2. PICK op \in all : leaf = hash(op)
    BY <1>0, <2>1
  <2>3. CASE \E i \in DOMAIN ops : op = ops[i]
    <3>1. PICK i \in DOMAIN ops : op = ops[i]
      BY <2>3
    <3>. QED
      BY <2>1, <2>2, <3>1, LeafIsRead DEF CanonInv, FoldInv, Observed
  <2>4. CASE \E i \in DOMAIN external_ops : op = external_ops[i]
    <3>1. PICK i \in DOMAIN external_ops : op = external_ops[i]
      BY <2>4
    <3>. QED
      BY <2>1, <2>2, <3>1, LeafIsRead DEF CanonInv, FoldInv, Observed
  <2>. QED
    BY <2>2, <2>3, <2>4
<1>2. ASSUME NEW v \in Observed(build, final, names) PROVE v \in Told(canonicalize_events)
  <2>1. PICK path \in InputPaths(build) : v = ObservedIn(path, final, names)
    BY <1>2 DEF Observed
  <2>2. PICK p \in Lifetimes \ External :
          \E j \in DOMAIN Program(p) : IsInput(Program(p)[j]) /\ Program(p)[j].path = path
    BY <2>1 DEF InputPaths, Program
  <2>3. PICK j \in DOMAIN Program(p) : IsInput(Program(p)[j]) /\ Program(p)[j].path = path
    BY <2>2
  <2>4. j < at[p]
    BY ProgramShape DEF BuildDone, Running
  <2>5. Recorded(ops, path) \/ Recorded(external_ops, path)
    BY <2>3, <2>4 DEF FoldInv, Complete, HasRead
  <2>6. PICK op \in all : ReadOp(op, path) /\ op.op_type \in Reads
    BY <2>5 DEF Recorded, CanonInv, Positions
  <2>7. hash(op) \in canonicalize_events
    BY <1>0, <2>6
  <2>8. hash(op)[1] \in Reading /\ hash(op)[Len(hash(op))] = v
    BY <2>1, <2>6, LeafOfRead
  <2>. QED
    BY <2>7, <2>8 DEF Told
<1>. QED
  BY <1>1, <1>2

\* Equal observations mean equal contents, and the same files missing.
LEMMA ObservedContents ==
  ASSUME NEW path, NEW files, NEW n, NEW other, NEW files2, NEW m,
         ObservedIn(path, files, n) = ObservedIn(other, files2, m)
  PROVE  /\ path \in DOMAIN files /\ files[path] # Absent =>
              other \in DOMAIN files2 /\ files2[other] # Absent /\ files2[other] = files[path]
         /\ (path \in DOMAIN files => files[path] = Absent) =>
              /\ other \in DOMAIN files2 => files2[other] = Absent
              /\ hash_path(DrawnWith(n, path)) = hash_path(DrawnWith(m, other))
<1>. DEFINE gone(p, f) == p \notin DOMAIN f \/ f[p] = Absent
            v == ObservedIn(path, files, n)
<1>1. ASSUME NEW p, NEW f, NEW d
      PROVE  /\ gone(p, f) => ObservedIn(p, f, d) = <<"missing", hash_path(DrawnWith(d, p))>>
             /\ ~gone(p, f) /\ f[p] = Directory => ObservedIn(p, f, d)[1] = "non-regular"
             /\ ~gone(p, f) /\ f[p] # Directory =>
                  ObservedIn(p, f, d)[1] = "content" /\ ObservedIn(p, f, d)[2] = f[p]
  <2>1. CASE gone(p, f)
    BY <2>1 DEF ObservedIn, Missing
  <2>2. CASE ~gone(p, f) /\ f[p] = Directory
    BY <2>2 DEF ObservedIn, NonRegular
  <2>3. CASE ~gone(p, f) /\ f[p] # Directory
    <3>1. ObservedIn(p, f, d) = observe_file(DrawnWith(d, p), f[p], d)
      BY <2>3 DEF ObservedIn
    <3>. QED
      BY <2>3, <3>1 DEF observe_file
  <2>. QED
    BY <2>1, <2>2, <2>3
<1>. HIDE DEF gone
<1>2. gone(path, files) => v[1] = "missing" /\ v[2] = hash_path(DrawnWith(n, path))
  BY <1>1
<1>3. gone(other, files2) => v[1] = "missing" /\ v[2] = hash_path(DrawnWith(m, other))
  BY <1>1
<1>4. gone(path, files) <=> gone(other, files2)
  BY <1>1, <1>2, <1>3
<1>5. ASSUME ~gone(path, files) PROVE files2[other] = files[path]
  BY <1>1, <1>4, <1>5
<1>. QED
  BY <1>2, <1>3, <1>4, <1>5 DEF gone

FoundIn(b, files) == {files[path] : path \in InputPaths(b) \cap DOMAIN files} \ {Absent}
MissingIn(b, files) ==
  {path \in InputPaths(b) : path \in DOMAIN files => files[path] = Absent}

\* InputsReproduced in these terms, of a state and of the next one.
Reproduced(b, v, outs, base, files) ==
  v = "VERIFIED" /\ outs = {} /\ base.lost = 0 =>
    /\ FoundIn(b, files) = FoundIn(b, base.final)
    /\ MissingIn(b, files) = MissingIn(b, base.final)

\* InputsReproduced with its definitions replaced by those above.
LEMMA InputsUnfolded ==
  /\ InputsReproduced <=> Reproduced(build, verdict, outputs, baseline, final)
  /\ InputsReproduced' <=> Reproduced(build', verdict', outputs', baseline', final')
<1>. DEFINE paths == UNION {{Program(p)[k].path :
                              k \in {j \in DOMAIN Program(p) :
                                /\ Program(p)[j].type \in {"open", "mmap"}
                                /\ Program(p)[j].path # NoPath
                                /\ Program(p)[j].mode \in {"r", "rw"}
                                /\ ~is_system_state(Program(p)[j].path)}} :
                              p \in Lifetimes \ External}
<1>1. InputPaths(build) = paths
  BY DEF InputPaths, Program, IsInput
<1>2. InputPaths(build') = paths'
  BY DEF InputPaths, Program, IsInput
<1>3. InputsReproduced <=> Reproduced(build, verdict, outputs, baseline, final)
  BY <1>1 DEF InputsReproduced, Reproduced, FoundIn, MissingIn
<1>4. InputsReproduced' <=> Reproduced(build', verdict', outputs', baseline', final')
  BY <1>2 DEF InputsReproduced, Reproduced, FoundIn, MissingIn
<1>. QED
  BY <1>3, <1>4

\* Equal observations come from equal contents.
LEMMA InputsIncluded ==
  ASSUME Plain(build), NEW files, NEW n \in build.names, NEW files2, NEW m \in build.names,
         Observed(build, files, n) \subseteq Observed(build, files2, m)
  PROVE  /\ FoundIn(build, files) \subseteq FoundIn(build, files2)
         /\ MissingIn(build, files) \subseteq MissingIn(build, files2)
<1>1. ASSUME NEW path \in InputPaths(build)
      PROVE  \E other \in InputPaths(build) :
               ObservedIn(path, files, n) = ObservedIn(other, files2, m)
  BY <1>1 DEF Observed
<1>2. ASSUME NEW c \in FoundIn(build, files) PROVE c \in FoundIn(build, files2)
  <2>1. PICK path \in InputPaths(build) \cap DOMAIN files : c = files[path] /\ c # Absent
    BY <1>2 DEF FoundIn
  <2>2. PICK other \in InputPaths(build) :
          ObservedIn(path, files, n) = ObservedIn(other, files2, m)
    BY <1>1, <2>1
  <2>3. other \in DOMAIN files2 /\ files2[other] # Absent /\ files2[other] = c
    BY <2>1, <2>2, ObservedContents
  <2>. QED
    BY <2>2, <2>3 DEF FoundIn
<1>3. ASSUME NEW path \in MissingIn(build, files) PROVE path \in MissingIn(build, files2)
  <2>1. path \in InputPaths(build) /\ (path \in DOMAIN files => files[path] = Absent)
    BY <1>3 DEF MissingIn
  <2>2. PICK other \in InputPaths(build) :
          ObservedIn(path, files, n) = ObservedIn(other, files2, m)
    BY <1>1, <2>1
  <2>3. /\ other \in DOMAIN files2 => files2[other] = Absent
        /\ hash_path(DrawnWith(n, path)) = hash_path(DrawnWith(m, other))
    BY <2>1, <2>2, ObservedContents
  <2>4. path = other
    BY <2>1, <2>2, <2>3 DEF Plain
  <2>. QED
    BY <2>1, <2>3, <2>4 DEF MissingIn
<1>. QED
  BY <1>2, <1>3
-----------------------------------------------------------------------------
(* Through a session.                                                      *)

\* The attestation of a whole trace tells what the first run has read.
BaselineTells ==
  attestation.written /\ baseline.lost = 0 /\ attestation.root.outputs = {} =>
    \E n \in build.names :
       Told(attestation.root.process_root) = Observed(build, baseline.final, n)

InputInv ==
  /\ stage = "walk" => outputs # {}
  /\ Plain(build) => FoldInv /\ BaselineTells /\ (lost = 0 => InputsReproduced)

\* The report of a run keeps it: all is told in the first, and VERIFIED in
\* the second means that the same is told.
LEMMA InputReport ==
  ASSUME SessionInv, InputInv, NEW root, NEW outs, Report(root, outs),
         stage \in {"run", "walk"}, outputs' = outs,
         UNCHANGED <<buildVars, ops, external_ops, lost, round>>,
         Plain(build) /\ lost = 0 /\ outs = {} => Told(root) = Observed(build, final, names)
  PROVE  InputInv'
<1>1. stage' # "walk" /\ verdict = "none" /\ UNCHANGED <<build, final, names, at>>
  BY DEF Report, SessionInv, buildVars
<1>. SUFFICES ASSUME Plain(build)
              PROVE  FoldInv' /\ BaselineTells' /\ (lost' = 0 => InputsReproduced')
  BY <1>1, FoldSame DEF InputInv
<1>2. FoldInv'
  BY <1>1, FoldSame DEF InputInv, FoldInv
<1>3. names \in build.names
  BY DEF InputInv, FoldInv
<1>4. CASE round = 1
  <2>1. /\ attestation'.root.process_root = root /\ attestation'.root.outputs = outs
        /\ baseline'.final = final /\ baseline'.lost = lost /\ verdict' = verdict
    BY <1>4 DEF Report, root_hash
  <2>2. BaselineTells'
    BY <1>1, <1>3, <2>1 DEF BaselineTells
  <2>3. InputsReproduced'
    BY <1>1, <2>1 DEF InputsReproduced
  <2>. QED
    BY <1>2, <2>2, <2>3
<1>5. CASE round # 1
  <2>1. /\ UNCHANGED <<attestation, baseline>>
        /\ verdict' = "VERIFIED" =>
             root = attestation.root.process_root /\ outs = attestation.root.outputs
    BY <1>5 DEF Report, root_hash
  <2>2. BaselineTells'
    BY <1>1, <2>1 DEF InputInv, BaselineTells
  <2>3. ASSUME lost = 0, verdict' = "VERIFIED", outs = {}, baseline.lost = 0
        PROVE  /\ FoundIn(build, final) = FoundIn(build, baseline.final)
               /\ MissingIn(build, final) = MissingIn(build, baseline.final)
    <3>1. attestation.written
      BY <1>5 DEF SessionInv
    <3>2. PICK n \in build.names : Told(root) = Observed(build, baseline.final, n)
      BY <2>1, <2>3, <3>1 DEF InputInv, BaselineTells
    <3>3. Observed(build, final, names) = Observed(build, baseline.final, n)
      BY <2>3, <3>2
    <3>4. /\ FoundIn(build, final) \subseteq FoundIn(build, baseline.final)
          /\ MissingIn(build, final) \subseteq MissingIn(build, baseline.final)
      BY <1>3, <3>3, InputsIncluded
    <3>5. /\ FoundIn(build, baseline.final) \subseteq FoundIn(build, final)
          /\ MissingIn(build, baseline.final) \subseteq MissingIn(build, final)
      BY <1>3, <3>3, InputsIncluded
    <3>. QED
      BY <3>4, <3>5
  <2>4. lost' = 0 => InputsReproduced'
    BY <1>1, <2>1, <2>3, InputsUnfolded DEF Reproduced
  <2>. QED
    BY <1>2, <2>2, <2>4
<1>. QED
  BY <1>4, <1>5

\* Steps that leave the build and its operations alone.
LEMMA InputQuiet ==
  ASSUME InputInv, UNCHANGED <<buildVars, ops, external_ops, lost, resultVars>>,
         \/ outputs' = outputs
         \/ verdict = "none",
         stage' = "walk" => outputs' # {}
  PROVE  InputInv'
<1>1. UNCHANGED <<build, final, names, at, attestation, verdict, baseline>>
  BY DEF buildVars, resultVars
<1>. SUFFICES ASSUME Plain(build)
              PROVE  FoldInv' /\ BaselineTells' /\ (lost' = 0 => InputsReproduced')
  BY <1>1, FoldSame DEF InputInv
<1>2. FoldInv'
  BY <1>1, FoldSame DEF InputInv, FoldInv
<1>3. BaselineTells'
  BY <1>1 DEF InputInv, BaselineTells
<1>4. lost' = 0 => InputsReproduced'
  BY <1>1, InputsUnfolded DEF InputInv, Reproduced
<1>. QED
  BY <1>2, <1>3, <1>4

\* Before the first step nothing is listed and nothing was read.
LEMMA FoldStart ==
  ASSUME build \in AllBuilds, NEW when, when = [p \in Lifetimes |-> 1]
  PROVE  ListInv(<<>>, when) /\ Complete(<<>>, <<>>, when)
<1>1. DOMAIN <<>> = {}
  OBVIOUS
<1>2. ASSUME NEW p \in Lifetimes, NEW j \in DOMAIN Program(p) PROVE ~HasRead(p, j, when)
  <2>1. DOMAIN Program(p) = 1 .. Len(Program(p)) /\ Len(Program(p)) \in Nat
    BY BuildsUnderstood DEF Understood, Program
  <2>. QED
    BY <2>1 DEF HasRead
<1>. QED
  BY <1>1, <1>2 DEF ListInv, Complete

\* A run that begins has read nothing.
LEMMA InputBegin ==
  ASSUME EpochInv, SessionInv, InputInv, BeginRun, stage \in {"ready", "attested"}
  PROVE  InputInv'
<1>1. /\ build' = build /\ names' \in build.names /\ stage' = "run" /\ verdict = "none"
      /\ ops' = <<>> /\ external_ops' = <<>> /\ at' = [p \in Lifetimes |-> 1]
      /\ UNCHANGED <<attestation, verdict, baseline>>
  BY DEF BeginRun, CanonReset, resultVars, SessionInv
<1>. SUFFICES ASSUME Plain(build)
              PROVE  FoldInv' /\ BaselineTells' /\ InputsReproduced'
  BY <1>1 DEF InputInv
<1>2. DOMAIN ops' = {} /\ DOMAIN external_ops' = {}
  BY <1>1
<1>3. ASSUME NEW p \in Lifetimes, NEW j \in DOMAIN Program(p)' PROVE ~(j < at'[p])
  <2>1. /\ DOMAIN Program(p)' = 1 .. Len(Program(p)) /\ Len(Program(p)) \in Nat
    BY <1>1, ProgramShape DEF Program
  <2>. QED
    BY <1>1, <2>1
<1>4. ListInv(ops, at)' /\ ListInv(external_ops, at)'
  BY <1>2 DEF ListInv
<1>5. Complete(ops, external_ops, at)'
  BY <1>3 DEF Complete, HasRead
<1>6. FoldInv'
  BY <1>1, <1>4, <1>5 DEF FoldInv
<1>7. BaselineTells'
  BY <1>1 DEF InputInv, BaselineTells
<1>8. InputsReproduced'
  BY <1>1, InputsUnfolded DEF Reproduced
<1>. QED
  BY <1>6, <1>7, <1>8

\* In the beginning.
LEMMA InputInitially == Init => InputInv
<1>. SUFFICES ASSUME Init PROVE InputInv
  OBVIOUS
<1>1. /\ stage = "ready" /\ ~attestation.written /\ verdict = "none"
      /\ build \in AllBuilds /\ names \in build.names
      /\ ops = <<>> /\ external_ops = <<>> /\ at = [p \in Lifetimes |-> 1]
  BY DEF Init, CanonInit, None
<1>2. FoldInv
  BY <1>1, FoldStart DEF FoldInv
<1>3. InputsReproduced
  BY <1>1, InputsUnfolded DEF Reproduced
<1>. QED
  BY <1>1, <1>2, <1>3 DEF InputInv, BaselineTells

\* Every step keeps the inputs.
LEMMA InputNext == ShapeInv /\ SessionInv /\ InputInv /\ [Next]_vars => InputInv'
<1>. SUFFICES ASSUME ShapeInv, SessionInv, InputInv, [Next]_vars PROVE InputInv'
  OBVIOUS
<1>1. CASE Trace \/ Verify \/ HarnessAgain
  BY <1>1, InputBegin DEF Trace, Verify, HarnessAgain, ShapeInv
<1>2. CASE ResetWorkspace
  BY <1>2, InputQuiet DEF ResetWorkspace, canonVars, opsVars
<1>3. ASSUME NEW sel, VerifyRefused(sel) PROVE InputInv'
  BY <1>3, InputQuiet DEF VerifyRefused, canonVars, opsVars
<1>4. ASSUME NEW p \in Lifetimes, Deliver(p) \/ Lose(p) \/ Wait(p) PROVE InputInv'
  <2>1. /\ stage = "run" /\ stage' = "run" /\ Running(p) /\ Advance(p) /\ verdict = "none"
        /\ UNCHANGED <<build, final, names, attestation, verdict, baseline, outputs>>
    BY <1>4 DEF Deliver, Lose, Wait, Enabled, Advance, runVars, resultVars, SessionInv
  <2>. SUFFICES ASSUME Plain(build)
                PROVE  FoldInv' /\ BaselineTells' /\ InputsReproduced'
    BY <2>1 DEF InputInv
  <2>2. BaselineTells'
    BY <2>1 DEF InputInv, BaselineTells
  <2>3. InputsReproduced'
    BY <2>1, InputsUnfolded DEF Reproduced
  <2>4. CASE Deliver(p)
    BY <2>2, <2>3, <2>4, FoldDelivered DEF InputInv, ShapeInv
  <2>5. CASE Lose(p)
    <3>1. lost' # 0 /\ UNCHANGED <<ops, external_ops>>
      BY <2>5 DEF Lose, ShapeInv, canonVars, opsVars
    <3>. QED
      BY <2>1, <2>2, <2>3, <3>1, FoldAdvanced DEF InputInv, ShapeInv
  <2>6. CASE Wait(p)
    <3>1. lost' = lost /\ ~IsInput(StepOf(p)) /\ UNCHANGED <<ops, external_ops>>
      BY <2>6 DEF Wait, IsInput, runVars, canonVars, opsVars
    <3>. QED
      BY <2>1, <2>2, <2>3, <3>1, FoldAdvanced DEF InputInv, ShapeInv
  <2>. QED
    BY <1>4, <2>4, <2>5, <2>6
<1>5. CASE EndFailed
  BY <1>5, InputQuiet DEF EndFailed, canonVars, opsVars
<1>6. CASE EndTrace
  <2>. DEFINE outs == select_outputs(session.selection, before, snapshot(final))
  <2>1. /\ stage = "run" /\ BuildDone /\ outputs' = outs /\ verdict = "none"
        /\ UNCHANGED <<buildVars, ops, external_ops, lost, round>>
    BY <1>6 DEF EndTrace, canonVars, opsVars, SessionInv
  <2>2. \/ outs = {} /\ Report(canonicalize_events, outs)
        \/ StartWalk(outs) /\ stage' = "walk" /\ UNCHANGED resultVars
    BY <1>6 DEF EndTrace
  <2>. HIDE DEF outs
  <2>3. CASE Report(canonicalize_events, outs)
    <3>1. Plain(build) /\ lost = 0 => Told(canonicalize_events) = Observed(build, final, names)
      BY <2>1, RootTells DEF InputInv, ShapeInv
    <3>. QED
      BY <2>1, <2>3, <3>1, InputReport
  <2>4. CASE StartWalk(outs) /\ stage' = "walk" /\ UNCHANGED resultVars
    <3>1. outputs' # {}
      BY <2>1, <2>4 DEF StartWalk
    <3>. QED
      BY <2>1, <2>4, <3>1, InputQuiet
  <2>. QED
    BY <2>2, <2>3, <2>4
<1>7. CASE WalkStep
  BY <1>7, InputQuiet DEF WalkStep, canonVars, opsVars, runVars, InputInv
<1>8. CASE Emit
  <2>1. PICK result : Report(result, outputs)
    BY <1>8 DEF Emit
  <2>2. /\ stage = "walk" /\ outputs' = outputs /\ outputs # {}
        /\ UNCHANGED <<buildVars, ops, external_ops, lost, round>>
    BY <1>8 DEF Emit, canonVars, opsVars, InputInv
  <2>. QED
    BY <2>1, <2>2, InputReport
<1>9. CASE UNCHANGED vars
  BY <1>9, InputQuiet DEF vars, canonVars, opsVars, runVars, InputInv
<1>. QED
  BY <1>1, <1>2, <1>3, <1>4, <1>5, <1>6, <1>7, <1>8, <1>9 DEF Next

\* A whole-trace root binds what went into the build: when a complete run is
\* VERIFIED without outputs to start from, the tree has read the same contents
\* and missed the same files as the attested one, through every schedule and
\* whatever temporary names were drawn (canonicalize.rs, file_identity.rs).
\* Said of builds that truncate nothing on opening, that nobody else reads for
\* below a watched directory, and whose missing files have different names
\* after normalization.
THEOREM InputsAreReproduced == Spec => [](Plain(build) /\ lost = 0 => InputsReproduced)
<1>1. Init => ShapeInv /\ VerdictInv /\ InputInv
  BY ShapeInit, VerdictInit, InputInitially
<1>2. ShapeInv /\ VerdictInv /\ InputInv /\ [Next]_vars
        => ShapeInv' /\ VerdictInv' /\ InputInv'
  BY ShapeNext, VerdictNext, InputNext DEF VerdictInv
<1>3. InputInv => (Plain(build) /\ lost = 0 => InputsReproduced)
  BY DEF InputInv
<1>. QED
  BY <1>1, <1>2, <1>3, PTL DEF Spec
=============================================================================
