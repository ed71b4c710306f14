------------------------------- MODULE Builds -------------------------------
(***************************************************************************)
(* The builds whose traces are canonicalized: the events that tracer.rs    *)
(* hands over, one program of events per process, and the files the build  *)
(* leaves behind.  How the processes interleave is open; only fork and     *)
(* wait order them.  Contents are hashed when the trace is processed, so   *)
(* an observation is what the path holds at the end of the build.          *)
(***************************************************************************)
EXTENDS Identity

CONSTANTS
  Lifetimes,      \* the processes of a build
  Root,           \* the traced command
  External,       \* processes outside its fork tree
  MaxEpoch,       \* execs after the first image of a process
  WatchPrefixes,  \* directories given with --watch
  AllBuilds       \* the builds that are considered

\* Step s, the k-th of process p, begins a new image: every exec but the
\* first of the root does.
NewImage(s, p, k) == s.type = "exec" /\ ~(p = Root /\ k = 1)

\* What is known of a build: its programs are sequences of steps that fork
\* its own processes, and no process has more images than epochs.
Understood(b) ==
  \A p \in Lifetimes :
     /\ Len(b.program[p]) \in Nat /\ DOMAIN b.program[p] = 1 .. Len(b.program[p])
     /\ \A k \in DOMAIN b.program[p] :
          b.program[p][k].type = "fork" =>
            "child" \in DOMAIN b.program[p][k] /\ b.program[p][k].child \in Lifetimes
     /\ Cardinality({k \in DOMAIN b.program[p] : NewImage(b.program[p][k], p, k)}) <= MaxEpoch

ASSUME BuildConstantsOK ==
  /\ Root \in Lifetimes \ External
  /\ MaxEpoch \in Nat

ASSUME BuildsUnderstood == \A b \in AllBuilds : Understood(b)

VARIABLES
  build,  \* [program, start, finals, names, sessions, producers, derivations]:
          \* the steps of each process, the files it finds and those it may
          \* leave, the names it may draw, the commands it is traced with; who
          \* wrote which file, and which file went into which, by way of which
          \* others
  final,  \* path -> contents at the end of the build that is running
  names,  \* what stands for a drawn name in the program -> the one drawn
  at,     \* next step of each process
  epoch   \* exec epoch of each process

buildVars == <<build, final, names, at, epoch>>

NoPath == <<>>

\* HashMap::insert and HashMap::remove.
Put(map, key, value) ==
  [k \in DOMAIN map \cup {key} |-> IF k = key THEN value ELSE map[k]]
Delete(map, key) == [k \in DOMAIN map \ {key} |-> map[k]]

Instances == Lifetimes \X (0 .. MaxEpoch)
root_process == <<Root, 0>>

is_watched_path(path) == \E prefix \in WatchPrefixes : is_path_within(path, prefix)

\* The path with the names that were drawn.
Drawn(path) ==
  [i \in DOMAIN path |-> IF path[i] \in DOMAIN names THEN names[path[i]] ELSE path[i]]

observe_path(path) ==
  IF path \notin DOMAIN final \/ final[path] = Absent THEN Missing(Drawn(path))
  ELSE IF final[path] = Directory THEN NonRegular(Drawn(path))
  ELSE observe_file(Drawn(path), final[path], names)

Observation(s) ==
  CASE s.type = "exec"   -> <<"content", s.tool>>
    [] s.type = "rename" -> observe_path(s.to)
    [] s.type = "open" /\ s.mode = "trunc" -> <<"content", EMPTY_CONTENT_HASH>>
    [] s.type \in {"open", "close", "mmap", "unlink"} -> observe_path(s.path)
    [] OTHER -> <<"none", "none">>

\* O_ACCMODE of an open; "trunc" is O_RDWR with O_TRUNC.
can_read(s)  == s.mode \in {"r", "rw", "trunc"}
can_write(s) == s.mode \in {"w", "rw", "trunc"}

Program(p) == build.program[p]
Running(p) == at[p] <= Len(Program(p))
StepOf(p)  == Program(p)[at[p]]

\* A step as the tracer sees it.
Named(s) ==
  [f \in DOMAIN s |-> IF f \in {"path", "to"} THEN Drawn(s[f]) ELSE s[f]]

\* A process runs once it was forked; a program nobody forks is one whose
\* beginning the tracer has not seen.
Forks(q, p) == {k \in DOMAIN Program(q) :
                  Program(q)[k].type = "fork" /\ Program(q)[k].child = p}
Started(p) == \A q \in Lifetimes : \A k \in Forks(q, p) : at[q] > k

Enabled(p) ==
  /\ Running(p) /\ Started(p)
  /\ StepOf(p).type = "wait" => ~Running(StepOf(p).child)

\* The epoch an event of p carries.
EpochOf(p) ==
  IF NewImage(StepOf(p), p, at[p]) THEN epoch[p] + 1 ELSE epoch[p]

Event(p) == [step        |-> Named(StepOf(p)),
             type        |-> StepOf(p).type,
             process     |-> <<p, EpochOf(p)>>,
             external    |-> p \in External,
             observation |-> Observation(StepOf(p)),
             id          |-> <<p, at[p]>>]

\* Process p takes its next step.
Advance(p) ==
  /\ at' = [at EXCEPT ![p] = @ + 1]
  /\ epoch' = [epoch EXCEPT ![p] = EpochOf(p)]
  /\ UNCHANGED <<build, final, names>>

BuildDone == \A p \in Lifetimes : ~Running(p)
=============================================================================
