---------------------------- MODULE ProbesProofs ----------------------------
(***************************************************************************)
(* What holds of the probes for any number of tasks, descriptors and       *)
(* paths and for every capacity of the maps and of the ring.  The module   *)
(* proves TypeOK, then GroupOK (how the kernel relates a task to its       *)
(* thread group), and on top of it, each as an inductive invariant of its  *)
(* own: the drop counter, the stashes, coverage of the fork tree, and from *)
(* that coverage that no call of the tree is lost in silence; then who is  *)
(* tracked, what Event.source says, and what watch mode must not overlook. *)
(***************************************************************************)
EXTENDS Probes, TLAPS

-----------------------------------------------------------------------------
(* Frames: what a file operation leaves alone, and the two helpers every   *)
(* probe is built from.                                                    *)

\* A file operation changes neither the task table nor TRACKED_PIDS.
LEMMA FileOpFrame ==
  ASSUME NEW t \in Pids, FileOp(t)
  PROVE  UNCHANGED <<state, tg, ours, mishaps, TRACKED_PIDS>>
BY DEF FileOp, OpenatEnter, OpenatFails, OpenatExit, Close, Mmap,
       RenameEnter, UnlinkEnter, PathOpReturns, RenameExitSource, PathOpExit,
       kernelVars

\* A file operation moves only its own task, and not into clone or exit.
LEMMA FileOpCalls ==
  ASSUME TypeOK, NEW t \in Pids, FileOp(t)
  PROVE  /\ Running(t)
         /\ sc[t] \notin {"exit", "clone"}
         /\ sc' = [sc EXCEPT ![t] = sc'[t]]
         /\ sc'[t] \notin {"exit", "clone"}
BY DEF FileOp, OpenatEnter, OpenatFails, OpenatExit, Close, Mmap,
       RenameEnter, UnlinkEnter, PathOpReturns, RenameExitSource, PathOpExit,
       callVars, Enter, Return, Idle, TypeOK, CallTypeOK

\* Submitting an event keeps the ring a bounded sequence of events.
LEMMA SubmitType ==
  ASSUME KernelTypeOK, RingTypeOK, NEW t \in Pids,
         NEW source \in Source, Submit(t, source)
  PROVE  RingTypeOK'
<1> DEFINE e == [source |-> source, ours |-> ours[t]]
<1>1. e \in Event
  BY DEF KernelTypeOK, Event
<1>. HIDE DEF e
<1>2. /\ Append(EVENTS, e) \in Seq(Event)
      /\ Len(Append(EVENTS, e)) = Len(EVENTS) + 1
  BY <1>1 DEF RingTypeOK
<1>3. EVENTS' = IF RingFull THEN EVENTS ELSE Append(EVENTS, e)
  BY DEF Submit, e
<1>. QED  BY <1>2, <1>3, ConstantsOK DEF RingTypeOK, RingFull

\* The effect of record_drop calls on the counters, without their number.
ChargeStep(t) ==
  /\ owed[t] = 0
  /\ lost' \in Nat /\ lost' >= lost
  /\ owed' = [owed EXCEPT ![t] = lost' - lost]
  /\ UNCHANGED <<rd, DROP_COUNT>>

LEMMA ChargeIsStep ==
  ASSUME DropTypeOK, NEW t \in Pids, NEW n \in Nat, owed[t] = 0, Charge(t, n)
  PROVE  ChargeStep(t)
BY DEF ChargeStep, Charge, DropTypeOK

-----------------------------------------------------------------------------
(* Type correctness, one part of the state after the other.                *)

\* The task table stays a table of tasks.
LEMMA KernelType == TypeOK /\ [Next]_vars => KernelTypeOK'
<1>. SUFFICES ASSUME TypeOK, [Next]_vars  PROVE KernelTypeOK'
  OBVIOUS
<1>1. ASSUME NEW t \in Pids, FileOp(t)
      PROVE  KernelTypeOK'
  BY <1>1, FileOpFrame
     DEF TypeOK, KernelTypeOK
<1>2. ASSUME NEW t \in Pids, Exec(t)
      PROVE  KernelTypeOK'
  <2>1. CASE t = tg[t]
    BY <1>2, <2>1 DEF Exec, TypeOK, KernelTypeOK
  <2>2. CASE t # tg[t]
    <3>1. TakeOver(t, tg[t]) /\ tg[t] \in Pids
      BY <1>2, <2>2 DEF Exec, TypeOK, KernelTypeOK
    <3>. QED
      BY <3>1 DEF TakeOver, TypeOK, KernelTypeOK
  <2>. QED  BY <2>1, <2>2
<1>3. ASSUME NEW t \in Pids, NEW c \in Pids, NEW thread \in BOOLEAN,
             Fork(t, c, thread)
      PROVE  KernelTypeOK'
  BY <1>3
     DEF Fork, Create, TypeOK, KernelTypeOK
<1>4. ASSUME NEW t \in Pids, CloneExit(t)
      PROVE  KernelTypeOK'
  BY <1>4
     DEF CloneExit, TypeOK, KernelTypeOK, kernelVars
<1>5. ASSUME NEW t \in Pids, Exit(t)
      PROVE  KernelTypeOK'
  BY <1>5
     DEF Exit, TypeOK, KernelTypeOK, kernelVars
<1>6. ASSUME NEW t \in Pids, Die(t)
      PROVE  KernelTypeOK'
  BY <1>6
     DEF Die, Release, TypeOK, KernelTypeOK
<1>7. ASSUME NEW t \in Pids, Reap(t)
      PROVE  KernelTypeOK'
  BY <1>7
     DEF Reap, Release, TypeOK, KernelTypeOK
<1>8. ASSUME NEW t \in Pids, SpawnForeign(t)
      PROVE  KernelTypeOK'
  BY <1>8
     DEF SpawnForeign, Create, TypeOK, KernelTypeOK
<1>9. ASSUME NEW t \in Pids, RecordDropRead(t)
      PROVE  KernelTypeOK'
  BY <1>9
     DEF RecordDropRead, TypeOK, KernelTypeOK, kernelVars
<1>10. ASSUME NEW t \in Pids, RecordDropWrite(t)
      PROVE  KernelTypeOK'
  BY <1>10
     DEF RecordDropWrite, TypeOK, KernelTypeOK, kernelVars
<1>11. CASE Consume
  BY <1>11
     DEF Consume, TypeOK, KernelTypeOK, kernelVars
<1>12. CASE UNCHANGED vars
  BY <1>12
     DEF vars, TypeOK, KernelTypeOK, kernelVars
<1>. QED  BY <1>1, <1>2, <1>3, <1>4, <1>5, <1>6, <1>7, <1>8, <1>9, <1>10, <1>11, <1>12
          DEF Next, Lifetime

\* Each task is in one known call.
LEMMA CallType == TypeOK /\ [Next]_vars => CallTypeOK'
<1>. SUFFICES ASSUME TypeOK, [Next]_vars  PROVE CallTypeOK'
  OBVIOUS
<1>1. ASSUME NEW t \in Pids, FileOp(t)
      PROVE  CallTypeOK'
  <2>. USE DEF TypeOK, CallTypeOK, Calls, SourceOrNone, Source
  <2>1. ASSUME NEW path \in PathClasses, NEW write \in BOOLEAN,
               NEW readable \in BOOLEAN, OpenatEnter(t, path, write, readable)
        PROVE  CallTypeOK'
    BY <2>1 DEF OpenatEnter, Enter, WatchDue
  <2>2. ASSUME NEW old \in PathClasses, NEW new \in PathClasses,
               NEW oldReadable \in BOOLEAN, NEW newReadable \in BOOLEAN,
               RenameEnter(t, old, new, oldReadable, newReadable)
        PROVE  CallTypeOK'
    BY <2>2 DEF RenameEnter, Enter, WatchDue
  <2>3. ASSUME NEW path \in PathClasses, NEW readable \in BOOLEAN,
               UnlinkEnter(t, path, readable)
        PROVE  CallTypeOK'
    BY <2>3 DEF UnlinkEnter, Enter, WatchDue
  <2>4. CASE Return(t)
    BY <2>4 DEF Return
  <2>5. CASE UNCHANGED callVars
    BY <2>5 DEF callVars
  <2>6. CASE RenameExitSource(t)
    BY <2>6 DEF RenameExitSource
  <2>. HIDE DEF TypeOK, CallTypeOK, Calls, SourceOrNone, Source
  <2>. QED  BY <1>1, <2>1, <2>2, <2>3, <2>4, <2>5, <2>6
            DEF FileOp, OpenatFails, OpenatExit, Close, Mmap, PathOpReturns,
                PathOpExit
<1>2. ASSUME NEW t \in Pids, Exec(t)
      PROVE  CallTypeOK'
  BY <1>2
     DEF Exec, TypeOK, CallTypeOK, Calls, callVars
<1>3. ASSUME NEW t \in Pids, NEW c \in Pids, NEW thread \in BOOLEAN,
             Fork(t, c, thread)
      PROVE  CallTypeOK'
  BY <1>3
     DEF Fork, TypeOK, CallTypeOK, Calls, callVars
<1>4. ASSUME NEW t \in Pids, CloneExit(t)
      PROVE  CallTypeOK'
  BY <1>4
     DEF CloneExit, Return, TypeOK, CallTypeOK, Calls, SourceOrNone
<1>5. ASSUME NEW t \in Pids, Exit(t)
      PROVE  CallTypeOK'
  BY <1>5
     DEF Exit, TypeOK, CallTypeOK, Calls, callVars
<1>6. ASSUME NEW t \in Pids, Die(t)
      PROVE  CallTypeOK'
  BY <1>6
     DEF Die, TypeOK, CallTypeOK, Calls, callVars
<1>7. ASSUME NEW t \in Pids, Reap(t)
      PROVE  CallTypeOK'
  BY <1>7
     DEF Reap, TypeOK, CallTypeOK, Calls, callVars
<1>8. ASSUME NEW t \in Pids, SpawnForeign(t)
      PROVE  CallTypeOK'
  BY <1>8
     DEF SpawnForeign, TypeOK, CallTypeOK, Calls, callVars
<1>9. ASSUME NEW t \in Pids, RecordDropRead(t)
      PROVE  CallTypeOK'
  BY <1>9
     DEF RecordDropRead, TypeOK, CallTypeOK, Calls, callVars
<1>10. ASSUME NEW t \in Pids, RecordDropWrite(t)
      PROVE  CallTypeOK'
  BY <1>10
     DEF RecordDropWrite, TypeOK, CallTypeOK, Calls, callVars
<1>11. CASE Consume
  BY <1>11
     DEF Consume, TypeOK, CallTypeOK, Calls, callVars
<1>12. CASE UNCHANGED vars
  BY <1>12
     DEF vars, TypeOK, CallTypeOK, Calls, callVars
<1>. QED  BY <1>1, <1>2, <1>3, <1>4, <1>5, <1>6, <1>7, <1>8, <1>9, <1>10, <1>11, <1>12
          DEF Next, Lifetime

\* TRACKED_PIDS holds task ids.
LEMMA TrackedType == TypeOK /\ [Next]_vars => TRACKED_PIDS' \subseteq Pids
<1>. SUFFICES ASSUME TypeOK, [Next]_vars  PROVE TRACKED_PIDS' \subseteq Pids
  OBVIOUS
<1>1. ASSUME NEW t \in Pids, FileOp(t)
      PROVE  TRACKED_PIDS' \subseteq Pids
  BY <1>1, FileOpFrame
     DEF TypeOK
<1>2. ASSUME NEW t \in Pids, Exec(t)
      PROVE  TRACKED_PIDS' \subseteq Pids
  BY <1>2, ConstantsOK
     DEF Exec, track_pid, TypeOK
<1>3. ASSUME NEW t \in Pids, NEW c \in Pids, NEW thread \in BOOLEAN,
             Fork(t, c, thread)
      PROVE  TRACKED_PIDS' \subseteq Pids
  BY <1>3
     DEF Fork, track_pid, TypeOK
<1>4. ASSUME NEW t \in Pids, CloneExit(t)
      PROVE  TRACKED_PIDS' \subseteq Pids
  BY <1>4
     DEF CloneExit, track_pid, TypeOK, CallTypeOK
<1>5. ASSUME NEW t \in Pids, Exit(t)
      PROVE  TRACKED_PIDS' \subseteq Pids
  BY <1>5
     DEF Exit, untrack_pid, TypeOK
<1>6. ASSUME NEW t \in Pids, Die(t)
      PROVE  TRACKED_PIDS' \subseteq Pids
  BY <1>6
     DEF Die, TypeOK, mapVars
<1>7. ASSUME NEW t \in Pids, Reap(t)
      PROVE  TRACKED_PIDS' \subseteq Pids
  BY <1>7
     DEF Reap, TypeOK, mapVars
<1>8. ASSUME NEW t \in Pids, SpawnForeign(t)
      PROVE  TRACKED_PIDS' \subseteq Pids
  BY <1>8
     DEF SpawnForeign, TypeOK, mapVars
<1>9. ASSUME NEW t \in Pids, RecordDropRead(t)
      PROVE  TRACKED_PIDS' \subseteq Pids
  BY <1>9
     DEF RecordDropRead, TypeOK, mapVars
<1>10. ASSUME NEW t \in Pids, RecordDropWrite(t)
      PROVE  TRACKED_PIDS' \subseteq Pids
  BY <1>10
     DEF RecordDropWrite, TypeOK, mapVars
<1>11. CASE Consume
  BY <1>11
     DEF Consume, TypeOK, mapVars
<1>12. CASE UNCHANGED vars
  BY <1>12
     DEF vars, TypeOK, mapVars
<1>. QED  BY <1>1, <1>2, <1>3, <1>4, <1>5, <1>6, <1>7, <1>8, <1>9, <1>10, <1>11, <1>12
          DEF Next, Lifetime

\* Both stashes hold a source per task.
LEMMA StashType == TypeOK /\ [Next]_vars => StashTypeOK'
<1>. SUFFICES ASSUME TypeOK, [Next]_vars  PROVE StashTypeOK'
  OBVIOUS
<1>1. ASSUME NEW t \in Pids, FileOp(t)
      PROVE  StashTypeOK'
  BY <1>1
     DEF FileOp, OpenatEnter, OpenatFails, OpenatExit, Close, Mmap,
         RenameEnter, UnlinkEnter, PathOpReturns, RenameExitSource, PathOpExit,
       SourceOf, TypeOK, StashTypeOK, SourceOrNone, Source
<1>2. ASSUME NEW t \in Pids, Exec(t)
      PROVE  StashTypeOK'
  BY <1>2
     DEF Exec, TypeOK, StashTypeOK, mapVars
<1>3. ASSUME NEW t \in Pids, NEW c \in Pids, NEW thread \in BOOLEAN,
             Fork(t, c, thread)
      PROVE  StashTypeOK'
  BY <1>3
     DEF Fork, TypeOK, StashTypeOK, mapVars
<1>4. ASSUME NEW t \in Pids, CloneExit(t)
      PROVE  StashTypeOK'
  BY <1>4
     DEF CloneExit, TypeOK, StashTypeOK, mapVars
<1>5. ASSUME NEW t \in Pids, Exit(t)
      PROVE  StashTypeOK'
  BY <1>5
     DEF Exit, TypeOK, StashTypeOK, mapVars
<1>6. ASSUME NEW t \in Pids, Die(t)
      PROVE  StashTypeOK'
  BY <1>6
     DEF Die, TypeOK, StashTypeOK, mapVars
<1>7. ASSUME NEW t \in Pids, Reap(t)
      PROVE  StashTypeOK'
  BY <1>7
     DEF Reap, TypeOK, StashTypeOK, mapVars
<1>8. ASSUME NEW t \in Pids, SpawnForeign(t)
      PROVE  StashTypeOK'
  BY <1>8
     DEF SpawnForeign, TypeOK, StashTypeOK, mapVars
<1>9. ASSUME NEW t \in Pids, RecordDropRead(t)
      PROVE  StashTypeOK'
  BY <1>9
     DEF RecordDropRead, TypeOK, StashTypeOK, mapVars
<1>10. ASSUME NEW t \in Pids, RecordDropWrite(t)
      PROVE  StashTypeOK'
  BY <1>10
     DEF RecordDropWrite, TypeOK, StashTypeOK, mapVars
<1>11. CASE Consume
  BY <1>11
     DEF Consume, TypeOK, StashTypeOK, mapVars
<1>12. CASE UNCHANGED vars
  BY <1>12
     DEF vars, TypeOK, StashTypeOK, mapVars
<1>. QED  BY <1>1, <1>2, <1>3, <1>4, <1>5, <1>6, <1>7, <1>8, <1>9, <1>10, <1>11, <1>12
          DEF Next, Lifetime

\* WATCHED_FDS holds pairs of a task id and a descriptor.
LEMMA WatchedType == TypeOK /\ [Next]_vars => WATCHED_FDS' \subseteq Pids \X Fds
<1>. SUFFICES ASSUME TypeOK, [Next]_vars  PROVE WATCHED_FDS' \subseteq Pids \X Fds
  OBVIOUS
<1>1. ASSUME NEW t \in Pids, FileOp(t)
      PROVE  WATCHED_FDS' \subseteq Pids \X Fds
  <2>1. ASSUME NEW fd \in Fds, OpenatExit(t, fd) \/ Close(t, fd)
        PROVE  WATCHED_FDS' \subseteq WATCHED_FDS \cup {<<tg[t], fd>>}
    BY <2>1 DEF OpenatExit, Close
  <2>3. \/ WATCHED_FDS' = WATCHED_FDS
        \/ \E fd \in Fds : OpenatExit(t, fd) \/ Close(t, fd)
    BY <1>1 DEF FileOp, OpenatEnter, OpenatFails, Mmap, RenameEnter,
       UnlinkEnter, PathOpReturns, RenameExitSource, PathOpExit
  <2>2. tg[t] \in Pids
    BY DEF TypeOK, KernelTypeOK
  <2>. QED  BY <2>1, <2>2, <2>3 DEF TypeOK
<1>2. ASSUME NEW t \in Pids, Exec(t)
      PROVE  WATCHED_FDS' \subseteq Pids \X Fds
  BY <1>2
     DEF Exec, TypeOK, mapVars
<1>3. ASSUME NEW t \in Pids, NEW c \in Pids, NEW thread \in BOOLEAN,
             Fork(t, c, thread)
      PROVE  WATCHED_FDS' \subseteq Pids \X Fds
  BY <1>3
     DEF Fork, TypeOK, mapVars
<1>4. ASSUME NEW t \in Pids, CloneExit(t)
      PROVE  WATCHED_FDS' \subseteq Pids \X Fds
  BY <1>4
     DEF CloneExit, TypeOK, mapVars
<1>5. ASSUME NEW t \in Pids, Exit(t)
      PROVE  WATCHED_FDS' \subseteq Pids \X Fds
  BY <1>5
     DEF Exit, TypeOK, mapVars
<1>6. ASSUME NEW t \in Pids, Die(t)
      PROVE  WATCHED_FDS' \subseteq Pids \X Fds
  BY <1>6
     DEF Die, TypeOK, mapVars
<1>7. ASSUME NEW t \in Pids, Reap(t)
      PROVE  WATCHED_FDS' \subseteq Pids \X Fds
  BY <1>7
     DEF Reap, TypeOK, mapVars
<1>8. ASSUME NEW t \in Pids, SpawnForeign(t)
      PROVE  WATCHED_FDS' \subseteq Pids \X Fds
  BY <1>8
     DEF SpawnForeign, TypeOK, mapVars
<1>9. ASSUME NEW t \in Pids, RecordDropRead(t)
      PROVE  WATCHED_FDS' \subseteq Pids \X Fds
  BY <1>9
     DEF RecordDropRead, TypeOK, mapVars
<1>10. ASSUME NEW t \in Pids, RecordDropWrite(t)
      PROVE  WATCHED_FDS' \subseteq Pids \X Fds
  BY <1>10
     DEF RecordDropWrite, TypeOK, mapVars
<1>11. CASE Consume
  BY <1>11
     DEF Consume, TypeOK, mapVars
<1>12. CASE UNCHANGED vars
  BY <1>12
     DEF vars, TypeOK, mapVars
<1>. QED  BY <1>1, <1>2, <1>3, <1>4, <1>5, <1>6, <1>7, <1>8, <1>9, <1>10, <1>11, <1>12
          DEF Next, Lifetime

\* The ring holds events, at most RingCap of them.
LEMMA RingType == TypeOK /\ [Next]_vars => RingTypeOK'
<1>. SUFFICES ASSUME TypeOK, [Next]_vars  PROVE RingTypeOK'
  OBVIOUS
<1>1. ASSUME NEW t \in Pids, FileOp(t)
      PROVE  RingTypeOK'
  <2>. USE SubmitType DEF TypeOK, KernelTypeOK, StashTypeOK, Source, SourceOrNone
  <2>1. ASSUME NEW fd \in Fds, OpenatExit(t, fd)  PROVE RingTypeOK'
    BY <2>1 DEF OpenatExit, RingTypeOK
  <2>2. ASSUME NEW fd \in Fds, Close(t, fd) \/ Mmap(t, fd)  PROVE RingTypeOK'
    BY <2>2 DEF Close, Mmap, RingTypeOK, SourceOf
  <2>3. CASE RenameExitSource(t) \/ PathOpExit(t)
    BY <2>3 DEF RenameExitSource, PathOpExit
  <2>4. CASE UNCHANGED EVENTS
    BY <2>4 DEF RingTypeOK
  <2>. QED  BY <1>1, <2>1, <2>2, <2>3, <2>4
            DEF FileOp, OpenatEnter, OpenatFails, RenameEnter, UnlinkEnter,
                PathOpReturns
<1>2. ASSUME NEW t \in Pids, Exec(t)
      PROVE  RingTypeOK'
  BY <1>2, SubmitType
     DEF Exec, TypeOK, KernelTypeOK, RingTypeOK, Source
<1>3. ASSUME NEW t \in Pids, NEW c \in Pids, NEW thread \in BOOLEAN,
             Fork(t, c, thread)
      PROVE  RingTypeOK'
  BY <1>3, SubmitType
     DEF Fork, TypeOK, RingTypeOK, Source
<1>4. ASSUME NEW t \in Pids, CloneExit(t)
      PROVE  RingTypeOK'
  BY <1>4
     DEF CloneExit, TypeOK, RingTypeOK, mapVars
<1>5. ASSUME NEW t \in Pids, Exit(t)
      PROVE  RingTypeOK'
  BY <1>5, SubmitType
     DEF Exit, TypeOK, RingTypeOK, Source
<1>6. ASSUME NEW t \in Pids, Die(t)
      PROVE  RingTypeOK'
  BY <1>6
     DEF Die, TypeOK, RingTypeOK, mapVars
<1>7. ASSUME NEW t \in Pids, Reap(t)
      PROVE  RingTypeOK'
  BY <1>7
     DEF Reap, TypeOK, RingTypeOK, mapVars
<1>8. ASSUME NEW t \in Pids, SpawnForeign(t)
      PROVE  RingTypeOK'
  BY <1>8
     DEF SpawnForeign, TypeOK, RingTypeOK, mapVars
<1>9. ASSUME NEW t \in Pids, RecordDropRead(t)
      PROVE  RingTypeOK'
  BY <1>9
     DEF RecordDropRead, TypeOK, RingTypeOK, mapVars
<1>10. ASSUME NEW t \in Pids, RecordDropWrite(t)
      PROVE  RingTypeOK'
  BY <1>10
     DEF RecordDropWrite, TypeOK, RingTypeOK, mapVars
<1>11. CASE Consume
  BY <1>11, ConstantsOK
     DEF Consume, TypeOK, RingTypeOK
<1>12. CASE UNCHANGED vars
  BY <1>12
     DEF vars, TypeOK, RingTypeOK, mapVars
<1>. QED  BY <1>1, <1>2, <1>3, <1>4, <1>5, <1>6, <1>7, <1>8, <1>9, <1>10, <1>11, <1>12
          DEF Next, Lifetime

\* The counters stay natural numbers.
LEMMA DropType == TypeOK /\ [Next]_vars => DropTypeOK'
<1>. SUFFICES ASSUME TypeOK, [Next]_vars  PROVE DropTypeOK'
  OBVIOUS
<1>1. ASSUME NEW t \in Pids, FileOp(t)
      PROVE  DropTypeOK'
  <2>. USE DEF Charge, Num, TypeOK, DropTypeOK, dropVars
  <2>1. ASSUME NEW path \in PathClasses, NEW write \in BOOLEAN,
               NEW readable \in BOOLEAN, OpenatEnter(t, path, write, readable)
        PROVE  DropTypeOK'
    BY <2>1 DEF OpenatEnter
  <2>2. ASSUME NEW old \in PathClasses, NEW new \in PathClasses,
               NEW oldReadable \in BOOLEAN, NEW newReadable \in BOOLEAN,
               RenameEnter(t, old, new, oldReadable, newReadable)
        PROVE  DropTypeOK'
    BY <2>2 DEF RenameEnter
  <2>3. ASSUME NEW path \in PathClasses, NEW readable \in BOOLEAN,
               UnlinkEnter(t, path, readable)
        PROVE  DropTypeOK'
    BY <2>3 DEF UnlinkEnter
  <2>4. ASSUME NEW fd \in Fds, OpenatExit(t, fd)  PROVE DropTypeOK'
    BY <2>4 DEF OpenatExit
  <2>5. ASSUME NEW fd \in Fds, Close(t, fd) \/ Mmap(t, fd)  PROVE DropTypeOK'
    BY <2>5 DEF Close, Mmap
  <2>6. CASE RenameExitSource(t) \/ PathOpExit(t)
    BY <2>6 DEF RenameExitSource, PathOpExit
  <2>7. CASE UNCHANGED dropVars
    BY <2>7
  <2>. QED  BY <1>1, <2>1, <2>2, <2>3, <2>4, <2>5, <2>6, <2>7
            DEF FileOp, OpenatFails, PathOpReturns
<1>2. ASSUME NEW t \in Pids, Exec(t)
      PROVE  DropTypeOK'
  BY <1>2
     DEF Exec, KernelTypeOK, Charge, Num, TypeOK, DropTypeOK, dropVars
<1>3. ASSUME NEW t \in Pids, NEW c \in Pids, NEW thread \in BOOLEAN,
             Fork(t, c, thread)
      PROVE  DropTypeOK'
  BY <1>3
     DEF Fork, Charge, Num, TypeOK, DropTypeOK, dropVars
<1>4. ASSUME NEW t \in Pids, CloneExit(t)
      PROVE  DropTypeOK'
  BY <1>4
     DEF CloneExit, Charge, Num, TypeOK, DropTypeOK, dropVars
<1>5. ASSUME NEW t \in Pids, Exit(t)
      PROVE  DropTypeOK'
  BY <1>5
     DEF Exit, Charge, Num, TypeOK, DropTypeOK, dropVars
<1>6. ASSUME NEW t \in Pids, Die(t)
      PROVE  DropTypeOK'
  BY <1>6
     DEF Die, TypeOK, DropTypeOK, dropVars
<1>7. ASSUME NEW t \in Pids, Reap(t)
      PROVE  DropTypeOK'
  BY <1>7
     DEF Reap, TypeOK, DropTypeOK, dropVars
<1>8. ASSUME NEW t \in Pids, SpawnForeign(t)
      PROVE  DropTypeOK'
  BY <1>8
     DEF SpawnForeign, TypeOK, DropTypeOK, dropVars
<1>9. ASSUME NEW t \in Pids, RecordDropRead(t)
      PROVE  DropTypeOK'
  BY <1>9
     DEF RecordDropRead, TypeOK, DropTypeOK, dropVars
<1>10. ASSUME NEW t \in Pids, RecordDropWrite(t)
      PROVE  DropTypeOK'
  BY <1>10
     DEF RecordDropWrite, TypeOK, DropTypeOK, NotRead
<1>11. CASE Consume
  BY <1>11
     DEF Consume, TypeOK, DropTypeOK, dropVars
<1>12. CASE UNCHANGED vars
  BY <1>12
     DEF vars, TypeOK, DropTypeOK, dropVars
<1>. QED  BY <1>1, <1>2, <1>3, <1>4, <1>5, <1>6, <1>7, <1>8, <1>9, <1>10, <1>11, <1>12
          DEF Next, Lifetime

\* The history of missed calls names sources only.
LEMMA MissedType == TypeOK /\ [Next]_vars => missed' \subseteq Source
<1>. SUFFICES ASSUME TypeOK, [Next]_vars  PROVE missed' \subseteq Source
  OBVIOUS
<1>1. ASSUME NEW t \in Pids, FileOp(t)
      PROVE  missed' \subseteq Source
  BY <1>1
     DEF FileOp, OpenatEnter, OpenatFails, OpenatExit, Close, Mmap,
         RenameEnter, UnlinkEnter, PathOpReturns, RenameExitSource, PathOpExit,
       Ignored, Noticed, TypeOK
<1>2. ASSUME NEW t \in Pids, Exec(t)
      PROVE  missed' \subseteq Source
  BY <1>2
     DEF Exec, Ignored, Noticed, TypeOK
<1>3. ASSUME NEW t \in Pids, NEW c \in Pids, NEW thread \in BOOLEAN,
             Fork(t, c, thread)
      PROVE  missed' \subseteq Source
  BY <1>3
     DEF Fork, Ignored, Noticed, TypeOK
<1>4. ASSUME NEW t \in Pids, CloneExit(t)
      PROVE  missed' \subseteq Source
  BY <1>4
     DEF CloneExit, Ignored, Noticed, TypeOK
<1>5. ASSUME NEW t \in Pids, Exit(t)
      PROVE  missed' \subseteq Source
  BY <1>5
     DEF Exit, Ignored, Noticed, TypeOK
<1>6. ASSUME NEW t \in Pids, Die(t)
      PROVE  missed' \subseteq Source
  BY <1>6
     DEF Die, Ignored, Noticed, TypeOK
<1>7. ASSUME NEW t \in Pids, Reap(t)
      PROVE  missed' \subseteq Source
  BY <1>7
     DEF Reap, Ignored, Noticed, TypeOK
<1>8. ASSUME NEW t \in Pids, SpawnForeign(t)
      PROVE  missed' \subseteq Source
  BY <1>8
     DEF SpawnForeign, Ignored, Noticed, TypeOK
<1>9. ASSUME NEW t \in Pids, RecordDropRead(t)
      PROVE  missed' \subseteq Source
  BY <1>9
     DEF RecordDropRead, Ignored, Noticed, TypeOK
<1>10. ASSUME NEW t \in Pids, RecordDropWrite(t)
      PROVE  missed' \subseteq Source
  BY <1>10
     DEF RecordDropWrite, Ignored, Noticed, TypeOK
<1>11. CASE Consume
  BY <1>11
     DEF Consume, Ignored, Noticed, TypeOK
<1>12. CASE UNCHANGED vars
  BY <1>12
     DEF vars, Ignored, Noticed, TypeOK
<1>. QED  BY <1>1, <1>2, <1>3, <1>4, <1>5, <1>6, <1>7, <1>8, <1>9, <1>10, <1>11, <1>12
          DEF Next, Lifetime

\* The history of mishaps only grows, and stays a set of mishaps.
LEMMA MishapsGrow ==
  TypeOK /\ [Next]_vars => mishaps \subseteq mishaps' /\ mishaps' \subseteq Mishaps
<1>. SUFFICES ASSUME TypeOK, [Next]_vars
              PROVE  mishaps \subseteq mishaps' /\ mishaps' \subseteq Mishaps
  OBVIOUS
<1>1. ASSUME NEW t \in Pids, FileOp(t)
      PROVE  UNCHANGED mishaps
  BY <1>1, FileOpFrame
<1>2. ASSUME NEW t \in Pids, Exec(t)
      PROVE  mishaps' = mishaps \cup ExecMishaps(tg[t])
  BY <1>2 DEF Exec
<1>3. ASSUME NEW t \in Pids, Exit(t)
      PROVE  mishaps' = mishaps \cup ExitMishaps(t)
  BY <1>3 DEF Exit
<1>4. ASSUME NEW t \in Pids,
             \/ \E c \in Pids, thread \in BOOLEAN : Fork(t, c, thread)
             \/ CloneExit(t) \/ Die(t) \/ Reap(t) \/ SpawnForeign(t)
             \/ RecordDropRead(t) \/ RecordDropWrite(t)
      PROVE  UNCHANGED mishaps
  BY <1>4 DEF Fork, CloneExit, Die, Reap, SpawnForeign, RecordDropRead,
     RecordDropWrite, kernelVars
<1>5. CASE Consume \/ UNCHANGED vars
  BY <1>5 DEF Consume, vars, kernelVars, TypeOK
<1>6. mishaps \subseteq Mishaps
  BY DEF TypeOK
<1>7. \A t \in Pids : ExitMishaps(t) \subseteq Mishaps /\ ExecMishaps(tg[t]) \subseteq Mishaps
  BY DEF ExitMishaps, ExecMishaps, Mishaps
<1>. QED  BY <1>1, <1>2, <1>3, <1>4, <1>5, <1>6, <1>7 DEF Next, Lifetime

\* Type correctness of the specification: every map, the ring and the
\* counters keep their types whatever the tasks do, and the ring never holds
\* more events than it has room for.
THEOREM TypeCorrect == Spec => []TypeOK
<1>1. Init => TypeOK
  BY ConstantsOK DEF Init, TypeOK, KernelTypeOK, CallTypeOK, StashTypeOK,
     RingTypeOK, DropTypeOK, Calls, Source, SourceOrNone, NotRead
<1>2. TypeOK /\ [Next]_vars => TypeOK'
  BY KernelType, CallType, TrackedType, StashType, WatchedType, RingType,
     DropType, MissedType, MishapsGrow DEF TypeOK
<1>. QED  BY <1>1, <1>2, PTL DEF Spec

-----------------------------------------------------------------------------
(* The kernel: tasks and their thread groups.                              *)

\* A running task's leader exists, leads its own group and descends from the
\* traced command exactly if the task does; only running tasks are in a call
\* or in record_drop.
GroupOK ==
  \A t \in Pids :
     /\ state[t] = "run" => /\ state[tg[t]] # "free"
                            /\ tg[tg[t]] = tg[t]
                            /\ ours[tg[t]] = ours[t]
     /\ state[t] # "run" => tg[t] = t /\ owed[t] = 0 /\ sc[t] = "none"

\* A file operation charges drops to its own, running task only.
LEMMA FileOpOwed ==
  ASSUME TypeOK, NEW t \in Pids, FileOp(t), NEW u \in Pids, u # t
  PROVE  owed'[u] = owed[u]
BY ZenonT(60)
   DEF FileOp, OpenatEnter, OpenatFails, OpenatExit, Close, Mmap,
       RenameEnter, UnlinkEnter, PathOpReturns, RenameExitSource, PathOpExit,
       dropVars, Charge, TypeOK, DropTypeOK

\* The kernel's invariant is inductive.
LEMMA GroupStep == TypeOK /\ GroupOK /\ [Next]_vars => GroupOK'
<1>. SUFFICES ASSUME TypeOK, GroupOK, [Next]_vars  PROVE GroupOK'
  OBVIOUS
<1>1. ASSUME NEW t \in Pids, FileOp(t)
      PROVE  GroupOK'
  BY <1>1, FileOpFrame, FileOpCalls, FileOpOwed
     DEF Running, GroupOK, TypeOK, KernelTypeOK, CallTypeOK
<1>2. ASSUME NEW t \in Pids, Exec(t)
      PROVE  GroupOK'
  <2>1. Running(t) /\ sc[t] = "none" /\ tg[t] \in Pids
    BY <1>2 DEF Exec, Idle, TypeOK, KernelTypeOK
  <2>2. \A u \in Pids : u # tg[t] => owed'[u] = owed[u]
    BY <1>2, <2>1 DEF Exec, Charge, TypeOK, DropTypeOK
  <2>3. CASE t = tg[t]
    BY <1>2, <2>1, <2>2, <2>3 DEF Exec, callVars, Running, GroupOK
  <2>4. CASE t # tg[t]
    <3>1. state[tg[t]] = "dead"
      BY <1>2, <2>1, <2>4 DEF Exec, Running, GroupOK, TypeOK, KernelTypeOK
    <3>2. TakeOver(t, tg[t]) /\ sc' = sc
      BY <1>2, <2>4 DEF Exec, callVars
    <3>3. ours[tg[t]] = ours[t]
      BY <2>1 DEF GroupOK, Running
    <3>. DEFINE p == tg[t]
    <3>4. /\ p \in Pids /\ p # t /\ tg[p] = p /\ state[t] = "run" /\ ours[p] = ours[t]
          /\ \A u \in Pids : u \notin {t, p} => state'[u] = state[u]
          /\ \A u \in Pids : u # t => tg'[u] = tg[u] /\ ours'[u] = ours[u]
          /\ state'[t] = "free" /\ state'[p] = "run" /\ tg'[t] = t /\ sc'[t] = "none"
          /\ \A u \in Pids : tg[u] \in Pids /\ sc'[u] = sc[u]
      BY <2>1, <2>4, <3>2, <3>3 DEF TakeOver, Running, GroupOK, TypeOK, KernelTypeOK
    <3>5. owed'[t] = 0 /\ \A u \in Pids : u # p => owed'[u] = owed[u]
      BY <2>1, <2>2, <2>4 DEF Running
    <3>6. \A u \in Pids : state[u] = "run" => tg[u] # t
      BY <2>4, <3>4 DEF GroupOK
    <3>. HIDE DEF p
    <3>. QED
      BY <3>4, <3>5, <3>6 DEF GroupOK
  <2>. QED  BY <2>3, <2>4
<1>3. ASSUME NEW t \in Pids, NEW c \in Pids, NEW thread \in BOOLEAN,
             Fork(t, c, thread)
      PROVE  GroupOK'
  <2>1. /\ Running(t) /\ state[c] = "free" /\ t # c
        /\ tg' = [tg EXCEPT ![c] = IF thread THEN tg[t] ELSE c]
    BY <1>3 DEF Fork, Idle, Running, CanReuse, Create
  <2>2. \A u \in Pids : u # t => owed'[u] = owed[u] /\ sc'[u] = sc[u]
    BY <1>3 DEF Fork, Charge, dropVars, TypeOK, DropTypeOK, CallTypeOK
  <2>. QED  BY <1>3, <2>1, <2>2
            DEF Fork, Create, Running, GroupOK, TypeOK, KernelTypeOK
<1>4. ASSUME NEW t \in Pids, CloneExit(t)
      PROVE  GroupOK'
  BY <1>4
     DEF CloneExit, Running, Return, Charge, kernelVars, dropVars, GroupOK, TypeOK, KernelTypeOK, CallTypeOK, DropTypeOK
<1>5. ASSUME NEW t \in Pids, Exit(t)
      PROVE  GroupOK'
  BY <1>5
     DEF Exit, Idle, Running, Charge, kernelVars, dropVars, GroupOK, TypeOK, KernelTypeOK, CallTypeOK, DropTypeOK
<1>6. ASSUME NEW t \in Pids, Die(t)
      PROVE  GroupOK'
  BY <1>6
     DEF Die, Running, Release, dropVars, GroupOK, TypeOK, KernelTypeOK, CallTypeOK, DropTypeOK
<1>7. ASSUME NEW t \in Pids, Reap(t)
      PROVE  GroupOK'
  BY <1>7
     DEF Reap, Release, callVars, dropVars, GroupOK, TypeOK, KernelTypeOK, CallTypeOK, DropTypeOK
<1>8. ASSUME NEW t \in Pids, SpawnForeign(t)
      PROVE  GroupOK'
  BY <1>8
     DEF SpawnForeign, CanReuse, Create, callVars, dropVars, GroupOK, TypeOK, KernelTypeOK, CallTypeOK, DropTypeOK
<1>9. ASSUME NEW t \in Pids, RecordDropRead(t)
      PROVE  GroupOK'
  BY <1>9
     DEF RecordDropRead, kernelVars, callVars, dropVars, NotRead, GroupOK, TypeOK, KernelTypeOK, CallTypeOK, DropTypeOK
<1>10. ASSUME NEW t \in Pids, RecordDropWrite(t)
      PROVE  GroupOK'
  BY <1>10
     DEF RecordDropWrite, kernelVars, callVars, dropVars, NotRead, GroupOK, TypeOK, KernelTypeOK, CallTypeOK, DropTypeOK
<1>11. CASE Consume
  BY <1>11
     DEF Consume, kernelVars, callVars, dropVars, NotRead, GroupOK, TypeOK, KernelTypeOK, CallTypeOK, DropTypeOK
<1>12. CASE UNCHANGED vars
  BY <1>12
     DEF vars, kernelVars, callVars, dropVars, NotRead, GroupOK, TypeOK, KernelTypeOK, CallTypeOK, DropTypeOK
<1>. QED  BY <1>1, <1>2, <1>3, <1>4, <1>5, <1>6, <1>7, <1>8, <1>9, <1>10, <1>11, <1>12
          DEF Next, Lifetime

LEMMA Groups == Spec => [](TypeOK /\ GroupOK)
<1>1. Init => GroupOK
  BY ConstantsOK DEF Init, GroupOK
<1>. QED  BY <1>1, GroupStep, TypeCorrect, PTL DEF Spec

-----------------------------------------------------------------------------
(* The drop counter.                                                       *)

\* A noticed loss is on the counter or on its way there.
DropInv == lost > 0 => DROP_COUNT > 0 \/ \E t \in Pids : owed[t] > 0

\* What one step may do to the counters.
DropEffect ==
  \/ UNCHANGED dropVars
  \/ \E t \in Pids : \/ ChargeStep(t)
                     \/ RecordDropRead(t)
                     \/ RecordDropWrite(t)


\* Every step charges one task, moves one record_drop on, or leaves the counters alone.
LEMMA DropSteps == TypeOK /\ GroupOK /\ [Next]_vars => DropEffect
<1>. SUFFICES ASSUME TypeOK, GroupOK, [Next]_vars  PROVE DropEffect
  OBVIOUS
<1>1. ASSUME NEW t \in Pids, FileOp(t)
      PROVE  DropEffect
  <2>1. \/ UNCHANGED dropVars
        \/ owed[t] = 0 /\ \E n \in Nat : Charge(t, n)
    <3>. USE DEF Idle, Running, Num
    <3>1. ASSUME NEW path \in PathClasses, NEW write \in BOOLEAN,
                 NEW readable \in BOOLEAN, OpenatEnter(t, path, write, readable)
          PROVE  owed[t] = 0 /\ \E n \in Nat : Charge(t, n)
      BY <3>1 DEF OpenatEnter
    <3>2. ASSUME NEW old \in PathClasses, NEW new \in PathClasses,
                 NEW oldReadable \in BOOLEAN, NEW newReadable \in BOOLEAN,
                 RenameEnter(t, old, new, oldReadable, newReadable)
          PROVE  owed[t] = 0 /\ \E n \in Nat : Charge(t, n)
      BY <3>2 DEF RenameEnter
    <3>3. ASSUME NEW path \in PathClasses, NEW readable \in BOOLEAN,
                 UnlinkEnter(t, path, readable)
          PROVE  owed[t] = 0 /\ \E n \in Nat : Charge(t, n)
      BY <3>3 DEF UnlinkEnter
    <3>4. ASSUME NEW fd \in Fds, OpenatExit(t, fd)
          PROVE  UNCHANGED dropVars \/ (owed[t] = 0 /\ \E n \in Nat : Charge(t, n))
      BY <3>4 DEF OpenatExit
    <3>5. ASSUME NEW fd \in Fds, Close(t, fd) \/ Mmap(t, fd)
          PROVE  UNCHANGED dropVars \/ (owed[t] = 0 /\ \E n \in Nat : Charge(t, n))
      BY <3>5 DEF Close, Mmap
    <3>6. CASE RenameExitSource(t) \/ PathOpExit(t)
      BY <3>6 DEF RenameExitSource, PathOpExit
    <3>. QED  BY <1>1, <3>1, <3>2, <3>3, <3>4, <3>5, <3>6
              DEF FileOp, OpenatFails, PathOpReturns
  <2>. QED  BY <2>1, ChargeIsStep DEF DropEffect, TypeOK
<1>2. ASSUME NEW t \in Pids, Exec(t)
      PROVE  DropEffect
  <2>1. tg[t] \in Pids /\ owed[tg[t]] = 0
    <3>1. CASE t = tg[t]
      BY <1>2, <3>1 DEF Exec, Idle, Running
    <3>2. CASE t # tg[t]
      <4>1. state[tg[t]] # "run"
        BY <1>2, <3>2 DEF Exec, Idle, Running, GroupOK, TypeOK, KernelTypeOK
      <4>. QED  BY <4>1 DEF GroupOK, TypeOK, KernelTypeOK
    <3>. QED  BY <3>1, <3>2 DEF TypeOK, KernelTypeOK
  <2>2. \E n \in Nat : Charge(tg[t], n)
    BY <1>2 DEF Exec, Num
  <2>. QED  BY <2>1, <2>2, ChargeIsStep DEF DropEffect, TypeOK
<1>3. ASSUME NEW t \in Pids, NEW c \in Pids, NEW thread \in BOOLEAN,
             Fork(t, c, thread)
      PROVE  DropEffect
  <2>1. \/ UNCHANGED dropVars
        \/ owed[t] = 0 /\ \E n \in Nat : Charge(t, n)
    BY <1>3 DEF Fork, Idle, Running, Num
  <2>. QED  BY <2>1, ChargeIsStep DEF DropEffect, TypeOK
<1>4. ASSUME NEW t \in Pids, CloneExit(t)
      PROVE  DropEffect
  <2>1. \/ UNCHANGED dropVars
        \/ owed[t] = 0 /\ \E n \in Nat : Charge(t, n)
    BY <1>4 DEF CloneExit, Running, Num
  <2>. QED  BY <2>1, ChargeIsStep DEF DropEffect, TypeOK
<1>5. ASSUME NEW t \in Pids, Exit(t)
      PROVE  DropEffect
  <2>1. \/ UNCHANGED dropVars
        \/ owed[t] = 0 /\ \E n \in Nat : Charge(t, n)
    BY <1>5 DEF Exit, Idle, Running, Num
  <2>. QED  BY <2>1, ChargeIsStep DEF DropEffect, TypeOK
<1>6. ASSUME NEW t \in Pids, Die(t)
      PROVE  DropEffect
  BY <1>6 DEF Die, DropEffect
<1>7. ASSUME NEW t \in Pids, Reap(t)
      PROVE  DropEffect
  BY <1>7 DEF Reap, DropEffect
<1>8. ASSUME NEW t \in Pids, SpawnForeign(t)
      PROVE  DropEffect
  BY <1>8 DEF SpawnForeign, DropEffect
<1>9. ASSUME NEW t \in Pids, RecordDropRead(t)
      PROVE  DropEffect
  BY <1>9 DEF DropEffect
<1>10. ASSUME NEW t \in Pids, RecordDropWrite(t)
      PROVE  DropEffect
  BY <1>10 DEF DropEffect
<1>11. CASE Consume
  BY <1>11 DEF Consume, DropEffect
<1>12. CASE UNCHANGED vars
  BY <1>12 DEF vars, DropEffect
<1>. QED  BY <1>1, <1>2, <1>3, <1>4, <1>5, <1>6, <1>7, <1>8, <1>9, <1>10, <1>11, <1>12
          DEF Next, Lifetime

\* The number of record_drop calls never shrinks.
LEMMA LostGrows == TypeOK /\ GroupOK /\ [Next]_vars => lost' >= lost /\ lost' \in Nat
BY DropSteps DEF DropEffect, ChargeStep, RecordDropRead, RecordDropWrite,
   dropVars, TypeOK, DropTypeOK

LEMMA PositiveDifference ==
  ASSUME NEW a \in Nat, NEW b \in Nat, b > a  PROVE b - a > 0
OBVIOUS

LEMMA DropStepOK == TypeOK /\ GroupOK /\ DropInv /\ [Next]_vars => DropInv'
<1>. SUFFICES ASSUME TypeOK, GroupOK, DropInv, [Next]_vars  PROVE DropInv'
  OBVIOUS
<1>1. CASE UNCHANGED dropVars
  BY <1>1 DEF dropVars, DropInv
<1>2. ASSUME NEW t \in Pids, ChargeStep(t)  PROVE DropInv'
  <2>1. CASE lost' = lost
    BY <1>2, <2>1 DEF ChargeStep, DropInv, TypeOK, DropTypeOK
  <2>2. CASE lost' > lost
    <3>1. owed'[t] = lost' - lost
      BY <1>2 DEF ChargeStep, TypeOK, DropTypeOK
    <3>3. lost \in Nat /\ lost' \in Nat
      BY <1>2 DEF ChargeStep, TypeOK, DropTypeOK
    <3>2. lost' - lost > 0
      BY <2>2, <3>3, PositiveDifference
    <3>. QED  BY <3>1, <3>2 DEF DropInv
  <2>. QED  BY <1>2, <2>1, <2>2 DEF ChargeStep, TypeOK, DropTypeOK
<1>3. ASSUME NEW t \in Pids, RecordDropRead(t)  PROVE DropInv'
  BY <1>3 DEF RecordDropRead, DropInv
<1>4. ASSUME NEW t \in Pids, RecordDropWrite(t)  PROVE DropInv'
  BY <1>4 DEF RecordDropWrite, DropInv, TypeOK, DropTypeOK, NotRead
<1>. QED  BY DropSteps, <1>1, <1>2, <1>3, <1>4 DEF DropEffect

LEMMA DropInvariant == Spec => []DropInv
<1>1. Init => DropInv
  BY DEF Init, DropInv
<1>. QED  BY <1>1, DropStepOK, Groups, PTL DEF Spec

\* Loss fails closed: however the unlocked reads and writes of record_drop
\* interleave on any number of CPUs, once they are done the counter is not 0
\* if there was anything to count.
THEOREM DropsFailClosedCorrect == Spec => []DropsFailClosed
<1>1. TypeOK /\ DropInv => DropsFailClosed
  BY DEF DropInv, DropsFailClosed, Quiet, TypeOK, DropTypeOK
<1>. QED  BY <1>1, DropInvariant, TypeCorrect, PTL

-----------------------------------------------------------------------------
(* Stashes                                                                 *)


\* No step leaves an entry behind.
LEMMA StashStep == TypeOK /\ GroupOK /\ StashesInFlight /\ [Next]_vars => StashesInFlight'
<1>. SUFFICES ASSUME TypeOK, GroupOK, StashesInFlight, [Next]_vars  PROVE StashesInFlight'
  OBVIOUS
<1>1. ASSUME NEW t \in Pids, FileOp(t)
      PROVE  StashesInFlight'
  <2>1. UNCHANGED <<state, tg>>
    BY <1>1, FileOpFrame
  <2>2. \A u \in Pids : u # t => sc'[u] = sc[u]
    BY <1>1, FileOpCalls DEF TypeOK, CallTypeOK
  <2>4. \A u \in Pids : u # t => OPENAT_STASH'[u] = OPENAT_STASH[u]
    BY <1>1 DEF FileOp, OpenatEnter, OpenatFails, OpenatExit, Close, Mmap,
       RenameEnter, UnlinkEnter, PathOpReturns, RenameExitSource, PathOpExit,
       TypeOK, StashTypeOK
  <2>5. \A u \in Pids : u # t => PATH_OP_STASH'[u] = PATH_OP_STASH[u]
    BY <1>1 DEF FileOp, OpenatEnter, OpenatFails, OpenatExit, Close, Mmap,
       RenameEnter, UnlinkEnter, PathOpReturns, RenameExitSource, PathOpExit,
       TypeOK, StashTypeOK
  <2>3. /\ state[t] = "run"
        /\ OPENAT_STASH'[t] # "none" => sc'[t] = "openat"
        /\ PATH_OP_STASH'[t] # "none" =>
             sc'[t] \in {"rename", "rename_emit", "unlink"}
    BY <1>1 DEF FileOp, OpenatEnter, OpenatFails, OpenatExit, Close, Mmap,
       RenameEnter, UnlinkEnter, PathOpReturns, RenameExitSource, PathOpExit,
       Enter, Return, callVars, TypeOK, CallTypeOK, StashTypeOK, Idle,
       Running, StashesInFlight
  <2>. QED  BY <2>1, <2>2, <2>3, <2>4, <2>5 DEF StashesInFlight
<1>2. ASSUME NEW t \in Pids, Exec(t)
      PROVE  StashesInFlight'
  <2>1. sc' = sc /\ OPENAT_STASH' = OPENAT_STASH /\ PATH_OP_STASH' = PATH_OP_STASH
    BY <1>2 DEF Exec, callVars
  <2>2. \A u \in Pids : state[u] = "run" /\ u # t => state'[u] = "run"
    BY <1>2 DEF Exec, TakeOver, TypeOK, KernelTypeOK
  <2>. QED  BY <1>2, <2>1, <2>2 DEF Exec, Idle, StashesInFlight
<1>3. ASSUME NEW t \in Pids, NEW c \in Pids, NEW thread \in BOOLEAN,
             Fork(t, c, thread)
      PROVE  StashesInFlight'
  BY <1>3
     DEF Fork, Create, Idle, StashesInFlight, TypeOK, KernelTypeOK, CallTypeOK
<1>4. ASSUME NEW t \in Pids, CloneExit(t)
      PROVE  StashesInFlight'
  BY <1>4
     DEF CloneExit, Return, kernelVars, StashesInFlight, TypeOK, CallTypeOK
<1>5. ASSUME NEW t \in Pids, Exit(t)
      PROVE  StashesInFlight'
  BY <1>5
     DEF Exit, Idle, kernelVars, StashesInFlight, TypeOK, CallTypeOK
<1>6. ASSUME NEW t \in Pids, Die(t)
      PROVE  StashesInFlight'
  BY <1>6
     DEF Die, Release, mapVars, StashesInFlight, TypeOK, KernelTypeOK, CallTypeOK
<1>7. ASSUME NEW t \in Pids, Reap(t)
      PROVE  StashesInFlight'
  BY <1>7
     DEF Reap, Release, mapVars, callVars, StashesInFlight, TypeOK, KernelTypeOK
<1>8. ASSUME NEW t \in Pids, SpawnForeign(t)
      PROVE  StashesInFlight'
  BY <1>8
     DEF SpawnForeign, Create, mapVars, callVars, StashesInFlight, TypeOK, KernelTypeOK
<1>9. ASSUME NEW t \in Pids, RecordDropRead(t)
      PROVE  StashesInFlight'
  BY <1>9
     DEF RecordDropRead, kernelVars, callVars, mapVars, StashesInFlight
<1>10. ASSUME NEW t \in Pids, RecordDropWrite(t)
      PROVE  StashesInFlight'
  BY <1>10
     DEF RecordDropWrite, kernelVars, callVars, mapVars, StashesInFlight
<1>11. CASE Consume
  BY <1>11
     DEF Consume, kernelVars, callVars, mapVars, StashesInFlight
<1>12. CASE UNCHANGED vars
  BY <1>12
     DEF vars, kernelVars, callVars, mapVars, StashesInFlight
<1>. QED  BY <1>1, <1>2, <1>3, <1>4, <1>5, <1>6, <1>7, <1>8, <1>9, <1>10, <1>11, <1>12
          DEF Next, Lifetime

\* A stash entry never outlives its call, so an id that is used again cannot
\* return from a call of its predecessor: for every order in which the calls,
\* exits and reuses of any number of tasks happen.
THEOREM StashesCorrect == Spec => []StashesInFlight
<1>1. Init => StashesInFlight
  BY DEF Init, StashesInFlight
<1>. QED  BY <1>1, StashStep, Groups, PTL DEF Spec

-----------------------------------------------------------------------------
(* Coverage of the fork tree, when no leader exits before its threads.     *)

\* A call that owes the tree an event has a stash entry, and no call of the
\* tree was ignored, unless a drop was charged.
NothingMissed ==
  /\ "tree" \in missed => lost > 0
  /\ \A t \in Pids :
       /\ sc[t] = "openat" /\ due[t] = "tree" /\ OPENAT_STASH[t] = "none"
             => lost > 0
       /\ sc[t] \in {"rename", "unlink"} /\ due[t] = "tree"
             /\ PATH_OP_STASH[t] = "none" => lost > 0


\* A live task of the tree stays tracked, by induction over clone and exit.
LEMMA TreeTrackedStep ==
  "leader_first" \notin mishaps' /\ TypeOK /\ GroupOK /\ TreeTracked /\ [Next]_vars
    => TreeTracked'
<1>. SUFFICES ASSUME "leader_first" \notin mishaps', TypeOK, GroupOK, TreeTracked, [Next]_vars  PROVE TreeTracked'
  OBVIOUS
<1>1. ASSUME NEW t \in Pids, FileOp(t)
      PROVE  TreeTracked'
  BY <1>1, FileOpFrame, FileOpCalls, LostGrows
     DEF TreeTracked, Live, is_tracked, Running, TypeOK, KernelTypeOK,
       CallTypeOK, DropTypeOK
<1>2. ASSUME NEW t \in Pids, Exec(t)
      PROVE  TreeTracked'
  <2>1. TRACKED_PIDS \subseteq TRACKED_PIDS' /\ sc' = sc
    BY <1>2 DEF Exec, track_pid, callVars
  <2>2. CASE t = tg[t]
    BY <1>2, <2>1, <2>2, LostGrows DEF Exec, TreeTracked, Live, is_tracked, TypeOK, DropTypeOK
  <2>3. CASE t # tg[t]
    <3>1. TakeOver(t, tg[t]) /\ Live(t) /\ tg[t] \in Pids
      BY <1>2, <2>3 DEF Exec, Idle, Running, Live, TypeOK, KernelTypeOK
    <3>2. tg[tg[t]] = tg[t] /\ ours[tg[t]] = ours[t]
      BY <3>1 DEF GroupOK, Live
    <3>. QED  BY <2>1, <2>3, <3>1, <3>2, LostGrows
              DEF TakeOver, TreeTracked, Live, is_tracked, TypeOK,
                  KernelTypeOK, DropTypeOK
  <2>. QED  BY <2>2, <2>3
<1>3. ASSUME NEW t \in Pids, NEW c \in Pids, NEW thread \in BOOLEAN,
             Fork(t, c, thread)
      PROVE  TreeTracked'
  <2>. DEFINE g == IF thread THEN tg[t] ELSE c
  <2>1. /\ state' = [state EXCEPT ![c] = "run"]
        /\ tg' = [tg EXCEPT ![c] = g]
        /\ ours' = [ours EXCEPT ![c] = ours[t]]
        /\ Live(t) /\ t # c
        /\ \A u \in Pids : u # t => sc'[u] = sc[u]
    BY <1>3 DEF Fork, Create, CanReuse, Idle, Running, Live, TypeOK, CallTypeOK
  <2>2. TRACKED_PIDS \subseteq TRACKED_PIDS'
    BY <1>3 DEF Fork, track_pid
  <2>3. ours[t] => g \in TRACKED_PIDS' \/ lost' > 0
    <3>1. CASE ~is_tracked(tg[t])
      BY <2>1, <3>1, LostGrows DEF TreeTracked, TypeOK, DropTypeOK
    <3>2. CASE is_tracked(tg[t]) /\ TrackFails(c)
      BY <1>3, <3>2 DEF Fork, Charge, Num, TypeOK, DropTypeOK
    <3>3. CASE is_tracked(tg[t]) /\ ~TrackFails(c)
      BY <1>3, <2>2, <3>3 DEF Fork, track_pid, is_tracked
    <3>. QED  BY <3>1, <3>2, <3>3
  <2>. HIDE DEF g
  <2>. QED  BY <2>1, <2>2, <2>3, LostGrows
            DEF TreeTracked, Live, is_tracked, TypeOK, KernelTypeOK, DropTypeOK
<1>4. ASSUME NEW t \in Pids, CloneExit(t)
      PROVE  TreeTracked'
  BY <1>4, LostGrows
     DEF CloneExit, Return, track_pid, kernelVars, Running, TreeTracked, Live, is_tracked,
       TypeOK, CallTypeOK, DropTypeOK
<1>5. ASSUME NEW t \in Pids, Exit(t)
      PROVE  TreeTracked'
  <2>1. UNCHANGED <<state, tg, ours>> /\ Live(t) /\ sc' = [sc EXCEPT ![t] = "exit"]
    BY <1>5 DEF Exit, kernelVars, Idle, Running, Live
  <2>2. TRACKED_PIDS \ {t} \subseteq TRACKED_PIDS'
    BY <1>5 DEF Exit, untrack_pid
  <2>3. \A u \in Pids : u # t /\ Live(u) /\ ours[u] => tg[u] # t
    <3>1. "leader_first" \notin ExitMishaps(t)
      BY <1>5 DEF Exit
    <3>2. ~ours[t] \/ ~LeaderFirst(t)
      BY <3>1 DEF ExitMishaps
    <3>. QED  BY <3>2 DEF LeaderFirst, GroupOK, Live
  <2>. QED  BY <2>1, <2>2, <2>3, LostGrows
            DEF TreeTracked, Live, is_tracked, TypeOK, KernelTypeOK,
                CallTypeOK, DropTypeOK
<1>6. ASSUME NEW t \in Pids, Die(t)
      PROVE  TreeTracked'
  BY <1>6, LostGrows
     DEF Die, Release, mapVars, TreeTracked, Live, is_tracked, TypeOK, KernelTypeOK, CallTypeOK,
       DropTypeOK
<1>7. ASSUME NEW t \in Pids, Reap(t)
      PROVE  TreeTracked'
  BY <1>7, LostGrows
     DEF Reap, Release, mapVars, callVars, TreeTracked, Live, is_tracked, TypeOK, KernelTypeOK,
       DropTypeOK
<1>8. ASSUME NEW t \in Pids, SpawnForeign(t)
      PROVE  TreeTracked'
  BY <1>8, LostGrows
     DEF SpawnForeign, Create, mapVars, callVars, TreeTracked, Live, is_tracked, TypeOK,
       KernelTypeOK, DropTypeOK
<1>9. ASSUME NEW t \in Pids, RecordDropRead(t)
      PROVE  TreeTracked'
  BY <1>9
     DEF RecordDropRead, kernelVars, callVars, mapVars, dropVars, TreeTracked, Live, is_tracked
<1>10. ASSUME NEW t \in Pids, RecordDropWrite(t)
      PROVE  TreeTracked'
  BY <1>10
     DEF RecordDropWrite, kernelVars, callVars, mapVars, dropVars, TreeTracked, Live, is_tracked
<1>11. CASE Consume
  BY <1>11
     DEF Consume, kernelVars, callVars, mapVars, dropVars, TreeTracked, Live, is_tracked
<1>12. CASE UNCHANGED vars
  BY <1>12
     DEF vars, kernelVars, callVars, mapVars, dropVars, TreeTracked, Live, is_tracked
<1>. QED  BY <1>1, <1>2, <1>3, <1>4, <1>5, <1>6, <1>7, <1>8, <1>9, <1>10, <1>11, <1>12
          DEF Next, Lifetime

\* While the tree is tracked no call of it is ignored.
LEMMA NothingMissedStep == TypeOK /\ GroupOK /\ TreeTracked /\ NothingMissed /\ [Next]_vars => NothingMissed'
<1>. SUFFICES ASSUME TypeOK, GroupOK, TreeTracked, NothingMissed, [Next]_vars  PROVE NothingMissed'
  OBVIOUS
<1>1. ASSUME NEW t \in Pids, FileOp(t)
      PROVE  NothingMissed'
  <2>. DEFINE Gone(u) == ours[u] => is_tracked(tg[u]) \/ lost > 0
  <2>1. Gone(t)
    BY <1>1, FileOpCalls DEF TreeTracked, Live, Running
  <2>2. "tree" \in missed' => lost' > 0
    <3>1. "tree" \in missed' => lost > 0
      BY <1>1, <2>1 DEF FileOp, OpenatEnter, OpenatFails, OpenatExit, Close,
         Mmap, RenameEnter, UnlinkEnter, PathOpReturns, RenameExitSource,
         PathOpExit, Ignored, Noticed, TreeDue, NothingMissed, Source
    <3>. QED  BY <3>1, LostGrows DEF TypeOK, DropTypeOK
  <2>3. ASSUME NEW u \in Pids, u # t
        PROVE  /\ sc'[u] = sc[u] /\ due'[u] = due[u]
               /\ OPENAT_STASH'[u] = OPENAT_STASH[u]
               /\ PATH_OP_STASH'[u] = PATH_OP_STASH[u]
    <3>1. sc'[u] = sc[u]
      BY <1>1, <2>3, FileOpCalls DEF TypeOK, CallTypeOK
    <3>2. due'[u] = due[u]
      <4>1. \/ UNCHANGED due
            \/ \E d \in SourceOrNone : due' = [due EXCEPT ![t] = d]
        BY <1>1 DEF FileOp, OpenatEnter, OpenatFails, OpenatExit, Close,
           Mmap, RenameEnter, UnlinkEnter, PathOpReturns, RenameExitSource,
           PathOpExit, Enter, Return, WatchDue, callVars, SourceOrNone, Source
      <4>. QED  BY <2>3, <4>1 DEF TypeOK, CallTypeOK
    <3>3. OPENAT_STASH'[u] = OPENAT_STASH[u]
      BY <1>1, <2>3 DEF FileOp, OpenatEnter, OpenatFails, OpenatExit, Close,
         Mmap, RenameEnter, UnlinkEnter, PathOpReturns, RenameExitSource,
         PathOpExit, TypeOK, StashTypeOK
    <3>4. PATH_OP_STASH'[u] = PATH_OP_STASH[u]
      BY <1>1, <2>3 DEF FileOp, OpenatEnter, OpenatFails, OpenatExit, Close,
         Mmap, RenameEnter, UnlinkEnter, PathOpReturns, RenameExitSource,
         PathOpExit, TypeOK, StashTypeOK
    <3>. QED  BY <3>1, <3>2, <3>3, <3>4
  <2>4. sc'[t] = "openat" /\ due'[t] = "tree" /\ OPENAT_STASH'[t] = "none" => lost' > 0
    <3>1. ASSUME NEW path \in PathClasses, NEW write \in BOOLEAN,
                 NEW readable \in BOOLEAN, OpenatEnter(t, path, write, readable),
                 due'[t] = "tree", OPENAT_STASH'[t] = "none"
          PROVE  ours[t] /\ ~is_tracked(tg[t])
      BY <3>1 DEF OpenatEnter, Enter, WatchDue, KeepsOpenat, SourceOf, TypeOK,
         CallTypeOK, StashTypeOK
    <3>2. sc'[t] = "openat" =>
            \E path \in PathClasses, write, readable \in BOOLEAN :
               OpenatEnter(t, path, write, readable)
      BY <1>1 DEF FileOp, OpenatFails, OpenatExit, Close, Mmap, RenameEnter,
         UnlinkEnter, PathOpReturns, RenameExitSource, PathOpExit, Enter,
         Return, callVars, Idle, TypeOK, CallTypeOK
    <3>. QED  BY <2>1, <3>1, <3>2, LostGrows DEF TypeOK, DropTypeOK
  <2>5. sc'[t] \in {"rename", "unlink"} /\ due'[t] = "tree" /\ PATH_OP_STASH'[t] = "none"
           => lost' > 0
    <3>1. ASSUME NEW old \in PathClasses, NEW new \in PathClasses,
                 NEW oldReadable \in BOOLEAN, NEW newReadable \in BOOLEAN,
                 RenameEnter(t, old, new, oldReadable, newReadable),
                 due'[t] = "tree", PATH_OP_STASH'[t] = "none"
          PROVE  ours[t] /\ ~is_tracked(tg[t])
      BY <3>1 DEF RenameEnter, Enter, WatchDue, Num, SourceOf, TypeOK,
         CallTypeOK, StashTypeOK
    <3>2. ASSUME NEW path \in PathClasses, NEW readable \in BOOLEAN,
                 UnlinkEnter(t, path, readable),
                 due'[t] = "tree", PATH_OP_STASH'[t] = "none"
          PROVE  ours[t] /\ ~is_tracked(tg[t])
      BY <3>2 DEF UnlinkEnter, Enter, WatchDue, Num, SourceOf, TypeOK,
         CallTypeOK, StashTypeOK
    <3>3. \/ sc'[t] \notin {"rename", "unlink"}
          \/ \E old, new \in PathClasses, oldReadable, newReadable \in BOOLEAN :
                 RenameEnter(t, old, new, oldReadable, newReadable)
          \/ \E path \in PathClasses, readable \in BOOLEAN :
                 UnlinkEnter(t, path, readable)
      <4>1. ASSUME NEW path \in PathClasses, NEW write \in BOOLEAN,
                   NEW readable \in BOOLEAN, OpenatEnter(t, path, write, readable)
            PROVE  sc'[t] = "openat"
        BY <4>1 DEF OpenatEnter, Enter, TypeOK, CallTypeOK
      <4>2. OpenatFails(t) => sc'[t] = "none"
        BY DEF OpenatFails, Return, TypeOK, CallTypeOK
      <4>3. ASSUME NEW fd \in Fds, OpenatExit(t, fd) \/ Close(t, fd) \/ Mmap(t, fd)
            PROVE  sc'[t] = "none"
        BY <4>3 DEF OpenatExit, Close, Mmap, Return, Idle, callVars, TypeOK,
           CallTypeOK
      <4>4. ASSUME NEW ok \in BOOLEAN, PathOpReturns(t, ok)
            PROVE  sc'[t] = "none"
        BY <4>4 DEF PathOpReturns, Return, TypeOK, CallTypeOK
      <4>5. RenameExitSource(t) => sc'[t] = "rename_emit"
        BY DEF RenameExitSource, TypeOK, CallTypeOK
      <4>6. PathOpExit(t) => sc'[t] = "none"
        BY DEF PathOpExit, Return, TypeOK, CallTypeOK
      <4>. QED  BY <1>1, <4>1, <4>2, <4>3, <4>4, <4>5, <4>6 DEF FileOp
    <3>. QED  BY <2>1, <3>1, <3>2, <3>3, LostGrows DEF TypeOK, DropTypeOK
  <2>. QED  BY <2>2, <2>3, <2>4, <2>5, LostGrows DEF NothingMissed, TypeOK, DropTypeOK
<1>2. ASSUME NEW t \in Pids, Exec(t)
      PROVE  NothingMissed'
  <2>1. ours[t] => is_tracked(tg[t]) \/ lost > 0
    BY <1>2 DEF Exec, Idle, Running, TreeTracked, Live
  <2>2. "tree" \in missed' => lost > 0
    BY <1>2, <2>1 DEF Exec, Ignored, Noticed, TreeDue, is_tracked, track_pid,
       NothingMissed, Source
  <2>3. \A u \in Pids : sc'[u] \in {"openat", "rename", "unlink"} => sc'[u] = sc[u]
    BY <1>2 DEF Exec, callVars, TypeOK, CallTypeOK
  <2>4. UNCHANGED <<due, OPENAT_STASH, PATH_OP_STASH>>
    BY <1>2 DEF Exec, callVars
  <2>. QED  BY <2>2, <2>3, <2>4, LostGrows DEF NothingMissed, TypeOK, DropTypeOK
<1>3. ASSUME NEW t \in Pids, NEW c \in Pids, NEW thread \in BOOLEAN,
             Fork(t, c, thread)
      PROVE  NothingMissed'
  <2>1. ours[t] => is_tracked(tg[t]) \/ lost > 0
    BY <1>3 DEF Fork, Idle, Running, TreeTracked, Live
  <2>2. "tree" \in missed' => lost > 0
    BY <1>3, <2>1 DEF Fork, Ignored, Noticed, TreeDue, is_tracked, track_pid,
       NothingMissed, Source
  <2>3. \A u \in Pids : sc'[u] \in {"openat", "rename", "unlink"} => sc'[u] = sc[u]
    BY <1>3 DEF Fork, callVars, TypeOK, CallTypeOK
  <2>4. UNCHANGED <<due, OPENAT_STASH, PATH_OP_STASH>>
    BY <1>3 DEF Fork, callVars
  <2>. QED  BY <2>2, <2>3, <2>4, LostGrows DEF NothingMissed, TypeOK, DropTypeOK
<1>4. ASSUME NEW t \in Pids, CloneExit(t)
      PROVE  NothingMissed'
  BY <1>4, LostGrows
     DEF CloneExit, Return, NothingMissed, TypeOK, CallTypeOK, DropTypeOK
<1>5. ASSUME NEW t \in Pids, Exit(t)
      PROVE  NothingMissed'
  <2>1. ours[t] => is_tracked(tg[t]) \/ lost > 0
    BY <1>5 DEF Exit, Idle, Running, TreeTracked, Live
  <2>2. "tree" \in missed' => lost > 0
    BY <1>5, <2>1 DEF Exit, Ignored, Noticed, TreeDue, is_tracked, track_pid,
       NothingMissed, Source
  <2>3. \A u \in Pids : sc'[u] \in {"openat", "rename", "unlink"} => sc'[u] = sc[u]
    BY <1>5 DEF Exit, callVars, TypeOK, CallTypeOK
  <2>4. UNCHANGED <<due, OPENAT_STASH, PATH_OP_STASH>>
    BY <1>5 DEF Exit, callVars
  <2>. QED  BY <2>2, <2>3, <2>4, LostGrows DEF NothingMissed, TypeOK, DropTypeOK
<1>6. ASSUME NEW t \in Pids, Die(t)
      PROVE  NothingMissed'
  BY <1>6, LostGrows
     DEF Die, mapVars, NothingMissed, TypeOK, CallTypeOK, DropTypeOK
<1>7. ASSUME NEW t \in Pids, Reap(t)
      PROVE  NothingMissed'
  BY <1>7
     DEF Reap, callVars, mapVars, dropVars, NothingMissed
<1>8. ASSUME NEW t \in Pids, SpawnForeign(t)
      PROVE  NothingMissed'
  BY <1>8
     DEF SpawnForeign, callVars, mapVars, dropVars, NothingMissed
<1>9. ASSUME NEW t \in Pids, RecordDropRead(t)
      PROVE  NothingMissed'
  BY <1>9
     DEF RecordDropRead, callVars, mapVars, dropVars, NothingMissed
<1>10. ASSUME NEW t \in Pids, RecordDropWrite(t)
      PROVE  NothingMissed'
  BY <1>10
     DEF RecordDropWrite, callVars, mapVars, dropVars, NothingMissed
<1>11. CASE Consume
  BY <1>11
     DEF Consume, callVars, mapVars, dropVars, NothingMissed
<1>12. CASE UNCHANGED vars
  BY <1>12
     DEF vars, callVars, mapVars, dropVars, NothingMissed
<1>. QED  BY <1>1, <1>2, <1>3, <1>4, <1>5, <1>6, <1>7, <1>8, <1>9, <1>10, <1>11, <1>12
          DEF Next, Lifetime

\* No leader of the tree has exited before its threads.
LeadersLast == "leader_first" \notin mishaps

LEMMA LeadersExitLast ==
  ASSUME ~LeaderMayExitFirst
  PROVE  Spec => []LeadersLast
<1>1. Init => LeadersLast
  BY DEF Init, LeadersLast
<1>2. TypeOK /\ GroupOK /\ LeadersLast /\ [Next]_vars => LeadersLast'
  <2>. SUFFICES ASSUME TypeOK, GroupOK, "leader_first" \notin mishaps, [Next]_vars
                PROVE  "leader_first" \notin mishaps'
    BY DEF LeadersLast
  <2>1. ASSUME NEW t \in Pids, FileOp(t)
        PROVE  UNCHANGED mishaps
    BY <2>1, FileOpFrame
  <2>2. ASSUME NEW t \in Pids, Exec(t)
        PROVE  "leader_first" \notin mishaps'
    BY <2>2 DEF Exec, ExecMishaps
  <2>3. ASSUME NEW t \in Pids, Exit(t)
        PROVE  "leader_first" \notin mishaps'
    <3>1. t = tg[t] => ~LeaderFirst(t)
      BY <2>3 DEF Exit
    <3>2. t # tg[t] => ~LeaderFirst(t)
      BY DEF LeaderFirst, Live, GroupOK
    <3>3. "leader_first" \notin ExitMishaps(t)
      BY <3>1, <3>2 DEF ExitMishaps
    <3>. QED  BY <2>3, <3>3 DEF Exit
  <2>4. ASSUME NEW t \in Pids,
               \/ \E c \in Pids, thread \in BOOLEAN : Fork(t, c, thread)
               \/ CloneExit(t) \/ Die(t) \/ Reap(t) \/ SpawnForeign(t)
               \/ RecordDropRead(t) \/ RecordDropWrite(t)
        PROVE  UNCHANGED mishaps
    BY <2>4 DEF Fork, CloneExit, Die, Reap, SpawnForeign, RecordDropRead,
       RecordDropWrite, kernelVars
  <2>5. CASE Consume \/ UNCHANGED vars
    BY <2>5 DEF Consume, vars, kernelVars
  <2>. QED  BY <2>1, <2>2, <2>3, <2>4, <2>5 DEF Next, Lifetime
<1>. QED  BY <1>1, <1>2, Groups, PTL DEF Spec

\* Until a leader exits before its threads the tree is tracked.
Covered == LeadersLast => TreeTracked

LEMMA Coverage == Spec => []Covered
<1>1. Init => Covered
  BY ConstantsOK DEF Init, Covered, LeadersLast, TreeTracked, Live, is_tracked
<1>2. TypeOK /\ GroupOK /\ Covered /\ [Next]_vars => Covered'
  BY TreeTrackedStep, MishapsGrow DEF Covered, LeadersLast
<1>. QED  BY <1>1, <1>2, Groups, PTL DEF Spec

LEMMA TreeInvariants ==
  ASSUME ~LeaderMayExitFirst
  PROVE  Spec => [](TreeTracked /\ NothingMissed)
<1>1. Init => NothingMissed
  BY DEF Init, NothingMissed
<1>2. TypeOK /\ GroupOK /\ TreeTracked /\ NothingMissed /\ [Next]_vars => NothingMissed'
  BY NothingMissedStep
<1>3. Spec => []TreeTracked
  <2>1. Covered /\ LeadersLast => TreeTracked
    BY DEF Covered
  <2>. QED  BY <2>1, Coverage, LeadersExitLast, PTL
<1>. QED  BY <1>1, <1>2, <1>3, Groups, PTL DEF Spec

\* If leaders exit last, every live task of the traced command's tree is in a
\* tracked thread group until a drop is charged: whether or not the probes of
\* clone's return are attached, and with PIDs recycled at will.
THEOREM TreeTrackedCorrect ==
  ASSUME ~LeaderMayExitFirst
  PROVE  Spec => []TreeTracked
BY TreeInvariants, PTL

\* If leaders exit last, no event of the traced command's tree is lost
\* silently, at any capacity of the ring and of the maps.
THEOREM NoSilentLossCorrect ==
  ASSUME ~LeaderMayExitFirst
  PROVE  Spec => []NoSilentLoss
<1>1. NothingMissed /\ DropsFailClosed => NoSilentLoss
  BY DEF NothingMissed, DropsFailClosed, NoSilentLoss
<1>. QED  BY <1>1, TreeInvariants, DropsFailClosedCorrect, PTL
-----------------------------------------------------------------------------
(* Who is in TRACKED_PIDS, and what Event.source says.                     *)
(*                                                                         *)
(* That entries are live tasks of the tree is not inductive: the exit of a *)
(* thread only untracks it while its group is tracked, and the return of   *)
(* clone tracks the child again.  TrackingInv adds that groups are tracked *)
(* with their threads, that a live task of the tree has a live leader, and *)
(* that a clone in flight will return a live task of the same tree.  Every *)
(* step keeps it but those that mishaps names.  From it and Covered        *)
(* follows what a stash entry, and the event made of it, says.             *)

EntriesLive == \A p \in TRACKED_PIDS : Live(p) /\ ours[p]
GroupsTracked == \A p \in TRACKED_PIDS : tg[p] \in TRACKED_PIDS
LeadersLive == \A t \in Pids : Live(t) /\ ours[t] => Live(tg[t])
ClonesLive ==
  \A t \in Pids : sc[t] = "clone" /\ ours[t] =>
     /\ Live(child[t]) /\ ours[child[t]]
     /\ tg[child[t]] \in {child[t], tg[t]}

TrackingInv ==
  /\ EntriesLive
  /\ GroupsTracked
  /\ LeadersLive
  /\ ClonesLive

\* A step that touches nothing of the tree keeps TrackingInv.
LEMMA ElsewhereStep ==
  ASSUME TypeOK, GroupOK, TrackingInv, NEW X \in SUBSET Pids,
         UNCHANGED TRACKED_PIDS,
         \A u \in Pids \ X :
            /\ state'[u] = state[u] /\ tg'[u] = tg[u] /\ ours'[u] = ours[u]
            /\ sc'[u] = "exit" <=> sc[u] = "exit"
            /\ sc'[u] = "clone" => sc[u] = "clone" /\ child'[u] = child[u],
         \A x \in X : /\ ~(Live(x) /\ ours[x]) /\ ~(Live(x)' /\ ours'[x])
                      /\ ~(sc'[x] = "clone" /\ ours'[x])
  PROVE  TrackingInv'
<1>1. \A u \in Pids \ X : Live(u)' <=> Live(u)
  BY DEF Live
<1>2. \A u \in Pids : tg[u] \in Pids /\ child[u] \in Pids
  BY DEF TypeOK, KernelTypeOK, CallTypeOK
<1>3. \A u \in Pids : Live(u) => ours[tg[u]] = ours[u]
  BY DEF Live, GroupOK
<1>4. TRACKED_PIDS \subseteq Pids \ X
  BY DEF TypeOK, TrackingInv, EntriesLive
<1>5. EntriesLive' /\ GroupsTracked'
  BY <1>1, <1>4 DEF TrackingInv, EntriesLive, GroupsTracked
<1>6. ASSUME NEW u \in Pids, Live(u)', ours'[u]
      PROVE  Live(tg[u])'
  <2>1. u \notin X /\ Live(u) /\ ours[u]
    BY <1>1, <1>6
  <2>2. Live(tg[u]) /\ ours[tg[u]] /\ tg[u] \in Pids
    BY <1>2, <1>3, <2>1 DEF TrackingInv, LeadersLive
  <2>3. tg[u] \notin X /\ tg'[u] = tg[u]
    BY <2>1, <2>2
  <2>. QED  BY <1>1, <2>2, <2>3
<1>7. ASSUME NEW u \in Pids, sc'[u] = "clone", ours'[u]
      PROVE  /\ Live(child[u])' /\ ours'[child'[u]]
             /\ tg'[child'[u]] \in {child'[u], tg'[u]}
  <2>1. /\ u \notin X /\ sc[u] = "clone" /\ ours[u]
        /\ child'[u] = child[u] /\ tg'[u] = tg[u]
    BY <1>7
  <2>2. /\ Live(child[u]) /\ ours[child[u]] /\ child[u] \in Pids
        /\ tg[child[u]] \in {child[u], tg[u]}
    BY <1>2, <2>1 DEF TrackingInv, ClonesLive
  <2>3. child[u] \notin X
    BY <2>2
  <2>. QED  BY <1>1, <2>1, <2>2, <2>3
<1>. QED  BY <1>5, <1>6, <1>7 DEF TrackingInv, LeadersLive, ClonesLive

\* Every step keeps TrackingInv unless it is one of the mishaps.
LEMMA TrackingStep ==
  mishaps' = {} /\ TypeOK /\ GroupOK /\ TrackingInv /\ [Next]_vars => TrackingInv'
<1>. SUFFICES ASSUME mishaps' = {}, TypeOK, GroupOK, TrackingInv, [Next]_vars
              PROVE  TrackingInv'
  OBVIOUS
<1>1. ASSUME NEW t \in Pids, FileOp(t)
      PROVE  TrackingInv'
  <2>1. UNCHANGED <<state, tg, ours, TRACKED_PIDS>>
    BY <1>1, FileOpFrame
  <2>2. /\ \A u \in Pids : u # t => sc'[u] = sc[u]
        /\ sc[t] \notin {"exit", "clone"} /\ sc'[t] \notin {"exit", "clone"}
    BY <1>1, FileOpCalls DEF TypeOK, CallTypeOK
  <2>3. \A u \in Pids : u # t => child'[u] = child[u]
    BY <1>1 DEF FileOp, OpenatEnter, OpenatFails, OpenatExit, Close, Mmap,
       RenameEnter, UnlinkEnter, PathOpReturns, RenameExitSource, PathOpExit,
       callVars, Enter, Return, TypeOK, CallTypeOK
  <2>4. \A u \in Pids \ {} : /\ (sc'[u] = "exit" <=> sc[u] = "exit")
                             /\ sc'[u] = "clone" => sc[u] = "clone" /\ child'[u] = child[u]
    BY <2>2, <2>3
  <2>. QED  BY <2>1, <2>4, ElsewhereStep
<1>2. ASSUME NEW t \in Pids, Exec(t)
      PROVE  TrackingInv'
  <2>. DEFINE p == tg[t]
  <2>1. Live(t) /\ UNCHANGED <<sc, child>> /\ p \in Pids /\ ours[p] = ours[t] /\ tg[p] = p
    BY <1>2 DEF Exec, Idle, Running, Live, callVars, GroupOK, TypeOK, KernelTypeOK
  <2>2. p = Root => ours[p]
    <3>1. ExecMishaps(p) = {}
      BY <1>2 DEF Exec
    <3>. QED  BY <3>1 DEF ExecMishaps
  <2>3. TRACKED_PIDS' = TRACKED_PIDS \/ (p = Root /\ TRACKED_PIDS' = TRACKED_PIDS \cup {p})
    BY <1>2 DEF Exec, track_pid
  <2>4. CASE t = p
    <3>1. UNCHANGED <<state, tg, ours>>
      BY <1>2, <2>4 DEF Exec
    <3>. QED
      BY <2>1, <2>2, <2>3, <2>4, <3>1 DEF TrackingInv, EntriesLive, GroupsTracked,
         LeadersLive, ClonesLive, Live
  <2>5. CASE t # p
    <3>1. ~Live(p)
      BY <1>2, <2>1, <2>5 DEF Exec, Live
    <3>2. ~ours[t]
      BY <2>1, <3>1 DEF TrackingInv, LeadersLive
    <3>3. UNCHANGED TRACKED_PIDS
      BY <2>1, <2>2, <2>3, <3>2
    <3>4. /\ \A u \in Pids \ {t, p} : /\ state'[u] = state[u] /\ tg'[u] = tg[u]
                                      /\ ours'[u] = ours[u]
          /\ ~ours'[t] /\ ~ours'[p]
      BY <1>2, <2>1, <2>5, <3>2 DEF Exec, TakeOver, TypeOK, KernelTypeOK
    <3>. HIDE DEF p
    <3>5. {t, p} \in SUBSET Pids
      BY <2>1
    <3>6. \A x \in {t, p} : /\ ~(Live(x) /\ ours[x]) /\ ~(Live(x)' /\ ours'[x])
                            /\ ~(sc'[x] = "clone" /\ ours'[x])
      BY <2>1, <3>2, <3>4
    <3>. QED  BY <2>1, <3>3, <3>4, <3>5, <3>6, ElsewhereStep
  <2>. QED  BY <2>4, <2>5
<1>3. ASSUME NEW t \in Pids, NEW c \in Pids, NEW thread \in BOOLEAN,
             Fork(t, c, thread)
      PROVE  TrackingInv'
  <2>. DEFINE g == IF thread THEN tg[t] ELSE c
  <2>1. /\ state' = [state EXCEPT ![c] = "run"]
        /\ tg' = [tg EXCEPT ![c] = g]
        /\ ours' = [ours EXCEPT ![c] = ours[t]]
        /\ Live(t) /\ state[c] = "free" /\ t # c
    BY <1>3 DEF Fork, Create, CanReuse, Idle, Running, Live
  <2>2. /\ \A u \in Pids : u # t => sc'[u] = sc[u] /\ child'[u] = child[u]
        /\ sc'[t] # "exit" /\ (sc'[t] = "clone" => child'[t] = c)
    BY <1>3 DEF Fork, Idle, TypeOK, CallTypeOK
  <2>3. \/ TRACKED_PIDS' = TRACKED_PIDS
        \/ tg[t] \in TRACKED_PIDS /\ TRACKED_PIDS' = TRACKED_PIDS \cup {c}
    BY <1>3 DEF Fork, track_pid, is_tracked
  <2>4. sc[c] = "none" /\ ~Live(c) /\ c \notin TRACKED_PIDS /\ TRACKED_PIDS \subseteq Pids
    BY <2>1 DEF GroupOK, Live, TrackingInv, EntriesLive, TypeOK
  <2>5. /\ Live(c)'
        /\ \A u \in Pids : u # c => (Live(u)' <=> Live(u))
    BY <2>1, <2>2, <2>4 DEF Live, TypeOK, KernelTypeOK
  <2>6. /\ tg[t] \in Pids /\ ours[tg[t]] = ours[t]
        /\ ours[t] => Live(tg[t]) /\ tg[t] # c
    BY <2>1, <2>4 DEF TrackingInv, LeadersLive, GroupOK, Live, TypeOK, KernelTypeOK
  <2>7. tg[t] \in TRACKED_PIDS => ours[t]
    BY <2>6 DEF TrackingInv, EntriesLive
  <2>8. \A u \in Pids : u # c => tg'[u] = tg[u] /\ ours'[u] = ours[u]
    BY <2>1 DEF TypeOK, KernelTypeOK
  <2>9. tg'[c] = g /\ ours'[c] = ours[t] /\ g \in {c, tg[t]}
    BY <2>1 DEF TypeOK, KernelTypeOK
  <2>. HIDE DEF g
  <2>10. EntriesLive'
    BY <2>3, <2>4, <2>5, <2>7, <2>8, <2>9 DEF TrackingInv, EntriesLive
  <2>11. GroupsTracked'
    BY <2>3, <2>4, <2>8, <2>9 DEF TrackingInv, GroupsTracked
  <2>12. LeadersLive'
    <3>1. ASSUME NEW u \in Pids, u # c, Live(u)', ours'[u]
          PROVE  Live(tg[u])'
      <4>1. Live(tg[u]) /\ tg[u] \in Pids
        BY <2>5, <2>8, <3>1 DEF TrackingInv, LeadersLive, TypeOK, KernelTypeOK
      <4>. QED  BY <2>4, <2>5, <2>8, <3>1, <4>1
    <3>2. ours'[c] => Live(tg[c])'
      BY <2>5, <2>6, <2>9
    <3>. QED  BY <3>1, <3>2 DEF LeadersLive
  <2>13. ClonesLive'
    <3>1. ASSUME NEW u \in Pids, u # t, sc'[u] = "clone", ours'[u]
          PROVE  /\ Live(child[u])' /\ ours'[child'[u]]
                 /\ tg'[child'[u]] \in {child'[u], tg'[u]}
      <4>1. u # c /\ sc[u] = "clone" /\ ours[u] /\ child'[u] = child[u] /\ tg'[u] = tg[u]
        BY <2>2, <2>4, <2>8, <3>1
      <4>2. /\ Live(child[u]) /\ ours[child[u]] /\ child[u] \in Pids
            /\ tg[child[u]] \in {child[u], tg[u]}
        BY <4>1 DEF TrackingInv, ClonesLive, TypeOK, CallTypeOK
      <4>3. child[u] # c
        BY <2>4, <4>2
      <4>. QED  BY <2>5, <2>8, <4>1, <4>2, <4>3
    <3>2. ASSUME sc'[t] = "clone", ours'[t]
          PROVE  /\ Live(child[t])' /\ ours'[child'[t]]
                 /\ tg'[child'[t]] \in {child'[t], tg'[t]}
      <4>1. child'[t] = c /\ ours[t] /\ tg'[t] = tg[t]
        BY <2>1, <2>2, <2>8, <3>2
      <4>. QED  BY <2>5, <2>9, <4>1
    <3>. QED  BY <3>1, <3>2 DEF ClonesLive
  <2>. QED
    BY <2>10, <2>11, <2>12, <2>13 DEF TrackingInv
<1>4. ASSUME NEW t \in Pids, CloneExit(t)
      PROVE  TrackingInv'
  <2>. DEFINE c == child[t]
  <2>1. /\ UNCHANGED <<state, tg, ours>> /\ sc[t] = "clone" /\ state[t] = "run"
        /\ sc' = [sc EXCEPT ![t] = "none"] /\ child' = [child EXCEPT ![t] = t]
    BY <1>4 DEF CloneExit, Return, Running, kernelVars
  <2>2. \/ TRACKED_PIDS' = TRACKED_PIDS
        \/ tg[t] \in TRACKED_PIDS /\ TRACKED_PIDS' = TRACKED_PIDS \cup {c}
    BY <1>4 DEF CloneExit, track_pid, is_tracked
  <2>3. \A u \in Pids : Live(u)' <=> Live(u)
    BY <2>1 DEF Live, TypeOK, CallTypeOK
  <2>4. tg[t] \in TRACKED_PIDS => ours[t]
    BY <2>1 DEF TrackingInv, EntriesLive, GroupOK
  <2>5. /\ c \in Pids /\ TRACKED_PIDS \subseteq Pids
        /\ ours[t] => Live(c) /\ ours[c] /\ tg[c] \in {c, tg[t]}
    BY <2>1 DEF TrackingInv, ClonesLive, TypeOK, CallTypeOK
  <2>. HIDE DEF c
  <2>6. EntriesLive' /\ GroupsTracked'
    BY <2>1, <2>2, <2>3, <2>4, <2>5 DEF TrackingInv, EntriesLive, GroupsTracked
  <2>7. LeadersLive'
    BY <2>1, <2>3 DEF TrackingInv, LeadersLive, TypeOK, KernelTypeOK
  <2>8. ClonesLive'
    <3>. SUFFICES ASSUME NEW u \in Pids, sc'[u] = "clone", ours'[u]
                  PROVE  /\ Live(child[u])' /\ ours'[child'[u]]
                         /\ tg'[child'[u]] \in {child'[u], tg'[u]}
      BY DEF ClonesLive
    <3>1. u # t /\ sc[u] = "clone" /\ child'[u] = child[u] /\ child[u] \in Pids
      BY <2>1 DEF TypeOK, CallTypeOK
    <3>. QED  BY <2>1, <2>3, <3>1 DEF TrackingInv, ClonesLive
  <2>. QED  BY <2>6, <2>7, <2>8 DEF TrackingInv
<1>5. ASSUME NEW t \in Pids, Exit(t)
      PROVE  TrackingInv'
  <2>1. /\ UNCHANGED <<state, tg, ours, child>> /\ Live(t)
        /\ sc' = [sc EXCEPT ![t] = "exit"]
    BY <1>5 DEF Exit, Idle, Running, Live
  <2>2. /\ ~Live(t)'
        /\ \A u \in Pids : u # t => (Live(u)' <=> Live(u))
    BY <2>1 DEF Live, TypeOK, CallTypeOK
  <2>3. ~ours[t] \/ (~LeaderFirst(t) /\ ~ChildFirst(t))
    <3>1. ExitMishaps(t) = {}
      BY <1>5 DEF Exit
    <3>. QED  BY <3>1 DEF ExitMishaps
  <2>4. \A u \in Pids : u # t /\ Live(u) /\ ours[u] => tg[u] # t
    BY <2>3 DEF LeaderFirst, GroupOK, Live
  <2>5. \A u \in Pids : sc[u] = "clone" /\ ours[u] => child[u] # t
    BY <2>3 DEF ChildFirst, TrackingInv, ClonesLive
  <2>6. \/ TRACKED_PIDS' = TRACKED_PIDS \ {t}
        \/ TRACKED_PIDS' = TRACKED_PIDS /\ tg[t] \notin TRACKED_PIDS
    BY <1>5 DEF Exit, untrack_pid, is_tracked
  <2>7. TRACKED_PIDS' = TRACKED_PIDS \ {t} /\ TRACKED_PIDS \subseteq Pids
    BY <2>6 DEF TrackingInv, GroupsTracked, TypeOK
  <2>8. EntriesLive'
    BY <2>1, <2>2, <2>7 DEF TrackingInv, EntriesLive
  <2>9. GroupsTracked'
    BY <2>1, <2>4, <2>7 DEF TrackingInv, GroupsTracked, EntriesLive
  <2>10. LeadersLive'
    BY <2>1, <2>2, <2>4 DEF TrackingInv, LeadersLive, TypeOK, KernelTypeOK
  <2>11. ClonesLive'
    <3>. SUFFICES ASSUME NEW u \in Pids, sc'[u] = "clone", ours[u]
                  PROVE  /\ Live(child[u])' /\ ours'[child'[u]]
                         /\ tg'[child'[u]] \in {child'[u], tg'[u]}
      BY <2>1 DEF ClonesLive
    <3>1. sc[u] = "clone" /\ child[u] \in Pids
      BY <2>1 DEF TypeOK, CallTypeOK
    <3>2. child[u] # t
      BY <2>5, <3>1
    <3>. QED  BY <2>1, <2>2, <3>1, <3>2 DEF TrackingInv, ClonesLive
  <2>. QED
    BY <2>8, <2>9, <2>10, <2>11 DEF TrackingInv
<1>6. ASSUME NEW t \in Pids, Die(t)
      PROVE  TrackingInv'
  <2>1. /\ ~Live(t) /\ UNCHANGED <<TRACKED_PIDS, child>>
        /\ sc' = [sc EXCEPT ![t] = "none"] /\ state'[t] # "run"
        /\ \A u \in Pids : u # t => /\ state'[u] = state[u] /\ tg'[u] = tg[u]
                                    /\ ours'[u] = ours[u]
    BY <1>6 DEF Die, Release, Running, Live, mapVars, TypeOK, KernelTypeOK
  <2>2. sc'[t] = "none" /\ \A u \in Pids : u # t => sc'[u] = sc[u]
    BY <2>1 DEF TypeOK, CallTypeOK
  <2>3. ~Live(t)' /\ {t} \in SUBSET Pids
    BY <2>1 DEF Live
  <2>4. \A x \in {t} : /\ ~(Live(x) /\ ours[x]) /\ ~(Live(x)' /\ ours'[x])
                       /\ ~(sc'[x] = "clone" /\ ours'[x])
    BY <2>1, <2>2, <2>3
  <2>5. \A u \in Pids \ {t} :
           /\ state'[u] = state[u] /\ tg'[u] = tg[u] /\ ours'[u] = ours[u]
           /\ (sc'[u] = "exit" <=> sc[u] = "exit")
           /\ sc'[u] = "clone" => sc[u] = "clone" /\ child'[u] = child[u]
    BY <2>1, <2>2
  <2>. QED  BY <2>1, <2>3, <2>4, <2>5, ElsewhereStep
<1>7. ASSUME NEW t \in Pids, Reap(t) \/ SpawnForeign(t)
      PROVE  TrackingInv'
  <2>1. /\ state[t] # "run" /\ UNCHANGED <<TRACKED_PIDS, sc, child>>
        /\ ours'[t] = FALSE
        /\ \A u \in Pids : u # t => /\ state'[u] = state[u] /\ tg'[u] = tg[u]
                                    /\ ours'[u] = ours[u]
    BY <1>7 DEF Reap, SpawnForeign, CanReuse, Create, Release, mapVars, callVars,
       TypeOK, KernelTypeOK
  <2>2. {t} \in SUBSET Pids
    OBVIOUS
  <2>3. \A x \in {t} : /\ ~(Live(x) /\ ours[x]) /\ ~(Live(x)' /\ ours'[x])
                       /\ ~(sc'[x] = "clone" /\ ours'[x])
    BY <2>1 DEF Live
  <2>. QED  BY <2>1, <2>2, <2>3, ElsewhereStep
<1>8. CASE \/ \E t \in Pids : RecordDropRead(t) \/ RecordDropWrite(t)
           \/ Consume \/ UNCHANGED vars
  <2>1. UNCHANGED <<state, tg, sc, child, ours, TRACKED_PIDS>>
    BY <1>8 DEF RecordDropRead, RecordDropWrite, Consume, vars, kernelVars,
       callVars, mapVars
  <2>. QED
    BY <2>1 DEF TrackingInv, EntriesLive, GroupsTracked, LeadersLive, ClonesLive, Live
<1>. QED  BY <1>1, <1>2, <1>3, <1>4, <1>5, <1>6, <1>7, <1>8
          DEF Next, Lifetime

\* Until the first mishap the tracked ids are the tree's.
Tracked == mishaps = {} => TrackingInv

LEMMA Tracking == Spec => []Tracked
<1>1. Init => Tracked
  <2>. SUFFICES ASSUME Init  PROVE TrackingInv
    BY DEF Tracked
  <2>1. \A t \in Pids : tg[t] = t /\ sc[t] = "none"
    BY DEF Init
  <2>2. ours[Root] /\ state[Root] = "run" /\ TRACKED_PIDS = {Root}
    BY ConstantsOK DEF Init
  <2>. QED
    BY <2>1, <2>2, ConstantsOK DEF TrackingInv, EntriesLive, GroupsTracked,
       LeadersLive, ClonesLive, Live
<1>2. TypeOK /\ GroupOK /\ Tracked /\ [Next]_vars => Tracked'
  BY TrackingStep, MishapsGrow DEF Tracked
<1>. QED  BY <1>1, <1>2, Groups, PTL DEF Spec

\* With every probe attached, with leaders that exit first and the root's PID
\* recycled: an entry of TRACKED_PIDS that is no live task of the tree goes
\* back to one of the three mishaps, for any number of processes and threads
\* and any capacity of the map.
THEOREM StaleHasCauseCorrect == Spec => []StaleHasCause
<1>1. Tracked => StaleHasCause
  BY DEF Tracked, TrackingInv, EntriesLive, StaleHasCause
<1>. QED  BY <1>1, Tracking, PTL
-----------------------------------------------------------------------------
(* Event.source.                                                           *)

\* What a source says of the task that caused the event, and says for good:
\* drops and mishaps only grow.
Says(source, mine) ==
  /\ source = "tree" => mine \/ mishaps # {}
  /\ source = "watch" => ~mine \/ "leader_first" \in mishaps \/ lost > 0
SaysNext(source, mine) ==
  /\ source = "tree" => mine \/ mishaps' # {}
  /\ source = "watch" => ~mine \/ "leader_first" \in mishaps' \/ lost' > 0

StashesTruthful ==
  \A t \in Pids : Says(OPENAT_STASH[t], ours[t]) /\ Says(PATH_OP_STASH[t], ours[t])

\* SourceOf tells the tree from the rest of the machine.
LEMMA SourceOfTruth ==
  ASSUME TypeOK, GroupOK, Tracked, Covered, NEW t \in Pids, Live(t)
  PROVE  /\ Says(SourceOf(t), ours[t])
         /\ is_tracked(tg[t]) => Says("tree", ours[t])
<1>1. ours[tg[t]] = ours[t]
  BY DEF GroupOK, Live
<1>2. is_tracked(tg[t]) => ours[t] \/ mishaps # {}
  BY <1>1 DEF is_tracked, Tracked, TrackingInv, EntriesLive
<1>3. ~is_tracked(tg[t]) => ~ours[t] \/ "leader_first" \in mishaps \/ lost > 0
  BY DEF Covered, LeadersLast, TreeTracked
<1>. QED  BY <1>2, <1>3 DEF Says, SourceOf

LEMMA SaysForGood ==
  ASSUME TypeOK, GroupOK, [Next]_vars, NEW source, NEW mine, Says(source, mine)
  PROVE  SaysNext(source, mine)
<1>1. lost > 0 => lost' > 0
  BY LostGrows DEF TypeOK, DropTypeOK
<1>2. mishaps \subseteq mishaps'
  BY MishapsGrow
<1>. QED  BY <1>1, <1>2 DEF Says, SaysNext

\* An event with a true source keeps the ring truthful.
LEMMA SubmitTruth ==
  ASSUME TypeOK, GroupOK, [Next]_vars, SourceTruthful, NEW t \in Pids,
         NEW source, Submit(t, source), SaysNext(source, ours[t])
  PROVE  SourceTruthful'
<1>. DEFINE e == [source |-> source, ours |-> ours[t]]
<1>1. e.source = source /\ e.ours = ours[t]
  OBVIOUS
<1>2. EVENTS' = IF RingFull THEN EVENTS ELSE Append(EVENTS, e)
  BY DEF Submit
<1>. HIDE DEF e
<1>3. ASSUME NEW i \in DOMAIN EVENTS'
      PROVE  SaysNext(EVENTS'[i].source, EVENTS'[i].ours)
  <2>1. EVENTS \in Seq(Event)
    BY DEF TypeOK, RingTypeOK
  <2>2. \/ i \in DOMAIN EVENTS /\ EVENTS'[i] = EVENTS[i]
        \/ EVENTS'[i] = e
    BY <1>2, <1>3, <2>1
  <2>3. CASE i \in DOMAIN EVENTS /\ EVENTS'[i] = EVENTS[i]
    <3>1. Says(EVENTS[i].source, EVENTS[i].ours)
      BY <2>3 DEF SourceTruthful, Says
    <3>2. SaysNext(EVENTS[i].source, EVENTS[i].ours)
      BY <3>1, SaysForGood
    <3>. QED  BY <2>3, <3>2
  <2>4. CASE EVENTS'[i] = e
    BY <1>1, <2>4
  <2>. QED  BY <2>2, <2>3, <2>4
<1>. QED  BY <1>3 DEF SourceTruthful, SaysNext

\* An untouched or a shortened ring stays truthful.
LEMMA RingTruth ==
  ASSUME TypeOK, GroupOK, [Next]_vars, SourceTruthful,
         UNCHANGED EVENTS \/ Consume
  PROVE  SourceTruthful'
<1>1. \A i \in DOMAIN EVENTS : SaysNext(EVENTS[i].source, EVENTS[i].ours)
  <2>. SUFFICES ASSUME NEW i \in DOMAIN EVENTS
                PROVE  SaysNext(EVENTS[i].source, EVENTS[i].ours)
    OBVIOUS
  <2>1. Says(EVENTS[i].source, EVENTS[i].ours)
    BY DEF SourceTruthful, Says
  <2>. QED  BY <2>1, SaysForGood
<1>2. CASE UNCHANGED EVENTS
  BY <1>1, <1>2 DEF SourceTruthful, SaysNext
<1>3. CASE Consume
  <2>1. EVENTS \in Seq(Event) /\ EVENTS # <<>> /\ EVENTS' = Tail(EVENTS)
    BY <1>3 DEF Consume, TypeOK, RingTypeOK
  <2>2. \A i \in DOMAIN EVENTS' : i + 1 \in DOMAIN EVENTS /\ EVENTS'[i] = EVENTS[i + 1]
    BY <2>1
  <2>. QED  BY <1>1, <2>2 DEF SourceTruthful, SaysNext
<1>. QED  BY <1>2, <1>3

\* No step puts an event with a wrong source into the ring.
LEMMA SourceStep ==
  TypeOK /\ GroupOK /\ Tracked /\ Covered /\ StashesTruthful
    /\ SourceTruthful /\ [Next]_vars => SourceTruthful'
<1>. SUFFICES ASSUME TypeOK, GroupOK, Tracked, Covered, StashesTruthful,
                     SourceTruthful, [Next]_vars
              PROVE  SourceTruthful'
  OBVIOUS
<1>1. ASSUME NEW t \in Pids, FileOp(t)
      PROVE  SourceTruthful'
  <2>1. Live(t)
    BY <1>1, FileOpCalls DEF Running, Live
  <2>2. Says(SourceOf(t), ours[t])
    BY <2>1, SourceOfTruth
  <2>3. Says(OPENAT_STASH[t], ours[t]) /\ Says(PATH_OP_STASH[t], ours[t])
    BY DEF StashesTruthful
  <2>4. \/ UNCHANGED EVENTS
        \/ \E source : Submit(t, source) /\ Says(source, ours[t])
    BY <1>1, <2>2, <2>3 DEF FileOp, OpenatEnter, OpenatFails, OpenatExit, Close,
       Mmap, RenameEnter, UnlinkEnter, PathOpReturns, RenameExitSource, PathOpExit
  <2>. QED  BY <2>4, SaysForGood, SubmitTruth, RingTruth
<1>2. ASSUME NEW t \in Pids, Exec(t)
      PROVE  SourceTruthful'
  <2>. DEFINE p == tg[t]
  <2>1. Live(t) /\ p \in Pids /\ ours[p] = ours[t]
    BY <1>2 DEF Exec, Idle, Running, Live, GroupOK, TypeOK, KernelTypeOK
  <2>2. is_tracked(p) => SaysNext("tree", ours[p])
    BY <2>1, SourceOfTruth, SaysForGood
  <2>3. p = Root => SaysNext("tree", ours[p])
    <3>1. ExecMishaps(p) \subseteq mishaps'
      BY <1>2 DEF Exec
    <3>. QED  BY <3>1 DEF ExecMishaps, SaysNext
  <2>4. UNCHANGED EVENTS \/ (Submit(p, "tree") /\ (p = Root \/ is_tracked(p)))
    BY <1>2 DEF Exec, is_tracked
  <2>. QED  BY <2>1, <2>2, <2>3, <2>4, SubmitTruth, RingTruth
<1>3. ASSUME NEW t \in Pids,
             \/ \E c \in Pids, thread \in BOOLEAN : Fork(t, c, thread)
             \/ Exit(t)
      PROVE  SourceTruthful'
  <2>1. UNCHANGED EVENTS \/ (Submit(t, "tree") /\ is_tracked(tg[t]))
    BY <1>3 DEF Fork, Exit
  <2>2. Live(t)
    BY <1>3 DEF Fork, Exit, Idle, Running, Live
  <2>. QED  BY <2>1, <2>2, SourceOfTruth, SaysForGood, SubmitTruth, RingTruth
<1>4. ASSUME NEW t \in Pids, \/ CloneExit(t) \/ Die(t) \/ Reap(t) \/ SpawnForeign(t)
                             \/ RecordDropRead(t) \/ RecordDropWrite(t)
      PROVE  SourceTruthful'
  <2>1. UNCHANGED EVENTS
    BY <1>4 DEF CloneExit, Die, Reap, SpawnForeign, RecordDropRead,
       RecordDropWrite, mapVars
  <2>. QED  BY <2>1, RingTruth
<1>5. CASE Consume \/ UNCHANGED vars
  BY <1>5, RingTruth DEF vars, mapVars
<1>. QED  BY <1>1, <1>2, <1>3, <1>4, <1>5 DEF Next, Lifetime

\* A stash entry is made with the source of the moment, and its task stays
\* what it is until the call returns.
LEMMA StashTruthStep ==
  TypeOK /\ GroupOK /\ Tracked /\ Covered /\ StashesInFlight
    /\ StashesTruthful /\ [Next]_vars => StashesTruthful'
<1>. SUFFICES ASSUME TypeOK, GroupOK, Tracked, Covered, StashesInFlight,
                     StashesTruthful, [Next]_vars
              PROVE  StashesTruthful'
  OBVIOUS
<1>. DEFINE Kept(u) == /\ OPENAT_STASH'[u] \in {OPENAT_STASH[u], "none"}
                       /\ PATH_OP_STASH'[u] \in {PATH_OP_STASH[u], "none"}
                       /\ ours'[u] = ours[u]
            Empty(u) == OPENAT_STASH'[u] = "none" /\ PATH_OP_STASH'[u] = "none"
            Made(u) == /\ OPENAT_STASH'[u] \in {OPENAT_STASH[u], "none", SourceOf(u)}
                       /\ PATH_OP_STASH'[u] \in {PATH_OP_STASH[u], "none", SourceOf(u)}
                       /\ ours'[u] = ours[u] /\ Live(u)
<1>1. ASSUME \A u \in Pids : Kept(u) \/ Empty(u) \/ Made(u)
      PROVE  StashesTruthful'
  <2>. SUFFICES ASSUME NEW u \in Pids
                PROVE  /\ SaysNext(OPENAT_STASH'[u], ours'[u])
                       /\ SaysNext(PATH_OP_STASH'[u], ours'[u])
    BY DEF StashesTruthful, Says, SaysNext
  <2>1. /\ SaysNext(OPENAT_STASH[u], ours[u]) /\ SaysNext(PATH_OP_STASH[u], ours[u])
        /\ SaysNext("none", ours[u]) /\ SaysNext("none", ours'[u])
    BY SaysForGood DEF StashesTruthful, SaysNext
  <2>2. Live(u) => SaysNext(SourceOf(u), ours[u])
    BY SourceOfTruth, SaysForGood
  <2>. HIDE DEF Kept, Empty, Made
  <2>3. CASE Kept(u)
    BY <2>1, <2>3 DEF Kept
  <2>4. CASE Empty(u)
    BY <2>1, <2>4 DEF Empty
  <2>5. CASE Made(u)
    BY <2>1, <2>2, <2>5 DEF Made
  <2>. QED  BY <1>1, <2>3, <2>4, <2>5
<1>2. ASSUME NEW t \in Pids, FileOp(t)
      PROVE  \A u \in Pids : Kept(u) \/ Empty(u) \/ Made(u)
  <2>1. ours' = ours /\ Live(t)
    BY <1>2, FileOpFrame, FileOpCalls DEF Running, Live
  <2>2. /\ \A u \in Pids : u # t => OPENAT_STASH'[u] = OPENAT_STASH[u]
        /\ OPENAT_STASH'[t] \in {OPENAT_STASH[t], "none", SourceOf(t)}
    BY <1>2 DEF FileOp, OpenatEnter, OpenatFails, OpenatExit, Close, Mmap,
       RenameEnter, UnlinkEnter, PathOpReturns, RenameExitSource, PathOpExit,
       TypeOK, StashTypeOK
  <2>3. /\ \A u \in Pids : u # t => PATH_OP_STASH'[u] = PATH_OP_STASH[u]
        /\ PATH_OP_STASH'[t] \in {PATH_OP_STASH[t], "none", SourceOf(t)}
    BY <1>2 DEF FileOp, OpenatEnter, OpenatFails, OpenatExit, Close, Mmap,
       RenameEnter, UnlinkEnter, PathOpReturns, RenameExitSource, PathOpExit,
       TypeOK, StashTypeOK
  <2>. QED  BY <2>1, <2>2, <2>3
<1>3. ASSUME NEW t \in Pids, Exit(t) \/ CloneExit(t)
      PROVE  \A u \in Pids : Kept(u)
  <2>1. UNCHANGED <<OPENAT_STASH, PATH_OP_STASH, ours>>
    BY <1>3 DEF Exit, CloneExit
  <2>. QED  BY <2>1
<1>4. ASSUME NEW t \in Pids, Exec(t)
      PROVE  \A u \in Pids : Kept(u) \/ Empty(u)
  <2>1. UNCHANGED <<OPENAT_STASH, PATH_OP_STASH>> /\ sc[t] = "none"
    BY <1>4 DEF Exec, Idle
  <2>2. \A u \in Pids : u # t => ours'[u] = ours[u]
    BY <1>4 DEF Exec, TakeOver, TypeOK, KernelTypeOK
  <2>. QED  BY <2>1, <2>2 DEF StashesInFlight
<1>5. ASSUME NEW t \in Pids, NEW c \in Pids, NEW thread \in BOOLEAN,
             Fork(t, c, thread)
      PROVE  \A u \in Pids : Kept(u) \/ Empty(u)
  <2>1. UNCHANGED <<OPENAT_STASH, PATH_OP_STASH>> /\ state[c] = "free"
    BY <1>5 DEF Fork, CanReuse
  <2>2. \A u \in Pids : u # c => ours'[u] = ours[u]
    BY <1>5 DEF Fork, Create, TypeOK, KernelTypeOK
  <2>. QED  BY <2>1, <2>2 DEF StashesInFlight
<1>6. ASSUME NEW t \in Pids, Die(t) \/ Reap(t) \/ SpawnForeign(t)
      PROVE  \A u \in Pids : Kept(u) \/ Empty(u)
  <2>1. UNCHANGED <<OPENAT_STASH, PATH_OP_STASH>> /\ (state[t] # "run" \/ sc[t] = "exit")
    BY <1>6 DEF Die, Reap, SpawnForeign, CanReuse, mapVars
  <2>2. \A u \in Pids : u # t => ours'[u] = ours[u]
    BY <1>6 DEF Die, Reap, SpawnForeign, Release, Create, TypeOK, KernelTypeOK
  <2>. QED  BY <2>1, <2>2 DEF StashesInFlight
<1>7. CASE \/ \E t \in Pids : RecordDropRead(t) \/ RecordDropWrite(t)
           \/ Consume \/ UNCHANGED vars
  <2>1. UNCHANGED <<OPENAT_STASH, PATH_OP_STASH, ours>>
    BY <1>7 DEF RecordDropRead, RecordDropWrite, Consume, vars, mapVars
  <2>. QED  BY <1>1, <2>1
<1>. QED  BY <1>1, <1>2, <1>3, <1>4, <1>5, <1>6, <1>7 DEF Next, Lifetime

\* With every probe attached, in every order of exits and with any PID
\* recycled: an event marked as the fork tree's was caused by the fork tree or
\* comes after a mishap, and one marked external was not, unless a leader left
\* its threads behind or a drop was charged; also for events whose source was
\* stashed when the call began.
THEOREM SourceTruthfulCorrect == Spec => []SourceTruthful
<1>1. Init => StashesTruthful /\ SourceTruthful
  BY DEF Init, StashesTruthful, Says, SourceTruthful
<1>2. TypeOK /\ GroupOK /\ Tracked /\ Covered /\ StashesInFlight
        /\ StashesTruthful /\ SourceTruthful /\ [Next]_vars
          => StashesTruthful' /\ SourceTruthful'
  BY StashTruthStep, SourceStep
<1>. QED
  BY <1>1, <1>2, Groups, Tracking, Coverage, StashesCorrect, PTL DEF Spec
-----------------------------------------------------------------------------
(* Watch mode.                                                             *)

\* Absolute paths below a watched directory are spelled as its prefix is.
SpelledAlike == \A path \in PathClasses : path.abs /\ path.under => path.raw

\* A call in flight that watch mode is to report has a stash entry.
WatchedStashed ==
  \A t \in Pids :
     /\ sc[t] = "openat" /\ due[t] = "watch" => OPENAT_STASH[t] # "none"
     /\ sc[t] \in {"rename", "unlink"} /\ due[t] = "watch"
           => PATH_OP_STASH[t] # "none"

\* The filters of the three entry probes let every such call pass.
LEMMA EntryFilters ==
  ASSUME SpelledAlike, TypeOK, NEW t \in Pids, FileOp(t), due'[t] = "watch"
  PROVE  /\ sc'[t] = "openat" => OPENAT_STASH'[t] # "none"
         /\ sc'[t] \in {"rename", "unlink"} => PATH_OP_STASH'[t] # "none"
<1>. USE ConstantsOK DEF TypeOK, CallTypeOK, StashTypeOK
<1>1. ASSUME NEW path \in PathClasses, NEW write \in BOOLEAN,
             NEW readable \in BOOLEAN, OpenatEnter(t, path, write, readable)
      PROVE  sc'[t] = "openat" /\ OPENAT_STASH'[t] # "none"
  <2>1. /\ sc'[t] = "openat"
        /\ ~(KeepsOpenat(t, path, write, readable) /\ OpenatFull)
        /\ WatchMode /\ write /\ path.under
    BY <1>1 DEF OpenatEnter, Enter, WatchDue
  <2>2. KeepsOpenat(t, path, write, readable)
    BY <2>1 DEF KeepsOpenat, SpelledAlike
  <2>. QED  BY <1>1, <2>1, <2>2 DEF OpenatEnter, SourceOf
<1>2. ASSUME NEW old \in PathClasses, NEW new \in PathClasses,
             NEW oldReadable \in BOOLEAN, NEW newReadable \in BOOLEAN,
             RenameEnter(t, old, new, oldReadable, newReadable)
      PROVE  sc'[t] = "rename" /\ PATH_OP_STASH'[t] # "none"
  <2>1. sc'[t] = "rename" /\ WatchMode /\ (old.under \/ new.under)
    BY <1>2 DEF RenameEnter, Enter, WatchDue
  <2>2. ~(old.abs /\ new.abs /\ ~old.raw /\ ~new.raw)
    BY <2>1 DEF SpelledAlike
  <2>. DEFINE drops == Num(~oldReadable \/ OldPathFull) + Num(~newReadable \/ NewPathFull)
  <2>3. drops = 0
    <3>1. ~(drops > 0)
      BY <1>2, <2>1 DEF RenameEnter, Enter
    <3>. QED  BY <3>1 DEF Num
  <2>4. PATH_OP_STASH' = [PATH_OP_STASH EXCEPT ![t] = SourceOf(t)]
    BY <1>2, <2>1, <2>2, <2>3 DEF RenameEnter
  <2>. QED  BY <2>1, <2>4 DEF SourceOf
<1>3. ASSUME NEW path \in PathClasses, NEW readable \in BOOLEAN,
             UnlinkEnter(t, path, readable)
      PROVE  sc'[t] = "unlink" /\ PATH_OP_STASH'[t] # "none"
  <2>1. sc'[t] = "unlink" /\ WatchMode /\ path.under
    BY <1>3 DEF UnlinkEnter, Enter, WatchDue
  <2>2. ~(path.abs /\ ~path.raw)
    BY <2>1 DEF SpelledAlike
  <2>. DEFINE drops == Num(~readable \/ OldPathFull)
  <2>3. drops = 0
    <3>1. ~(drops > 0)
      BY <1>3, <2>1 DEF UnlinkEnter, Enter
    <3>. QED  BY <3>1 DEF Num
  <2>4. PATH_OP_STASH' = [PATH_OP_STASH EXCEPT ![t] = SourceOf(t)]
    BY <1>3, <2>1, <2>2, <2>3 DEF UnlinkEnter
  <2>. QED  BY <2>1, <2>4 DEF SourceOf
<1>4. CASE Return(t)
  BY <1>4 DEF Return
<1>5. CASE UNCHANGED callVars /\ Idle(t)
  BY <1>5 DEF callVars, Idle
<1>6. CASE RenameExitSource(t)
  BY <1>6 DEF RenameExitSource
<1>. QED
  BY <1>1, <1>2, <1>3, <1>4, <1>5, <1>6
  DEF FileOp, OpenatFails, OpenatExit, Close, Mmap, PathOpReturns, PathOpExit

\* Every step keeps those entries, and none ignores such a call.
LEMMA WatchStep ==
  SpelledAlike /\ TypeOK /\ GroupOK /\ WatchedStashed /\ ExternalWritesSeen
    /\ [Next]_vars => WatchedStashed' /\ ExternalWritesSeen'
<1>. SUFFICES ASSUME SpelledAlike, TypeOK, GroupOK, WatchedStashed,
                     ExternalWritesSeen, [Next]_vars
              PROVE  WatchedStashed' /\ ExternalWritesSeen'
  OBVIOUS
<1>1. ASSUME NEW t \in Pids, FileOp(t)
      PROVE  WatchedStashed' /\ ExternalWritesSeen'
  <2>1. ASSUME NEW u \in Pids, u # t
        PROVE  /\ sc'[u] = sc[u] /\ due'[u] = due[u]
               /\ OPENAT_STASH'[u] = OPENAT_STASH[u]
               /\ PATH_OP_STASH'[u] = PATH_OP_STASH[u]
    <3>1. sc'[u] = sc[u]
      BY <1>1, <2>1, FileOpCalls DEF TypeOK, CallTypeOK
    <3>2. due'[u] = due[u]
      <4>1. UNCHANGED due \/ \E d \in SourceOrNone : due' = [due EXCEPT ![t] = d]
        BY <1>1 DEF FileOp, OpenatEnter, OpenatFails, OpenatExit, Close,
           Mmap, RenameEnter, UnlinkEnter, PathOpReturns, RenameExitSource,
           PathOpExit, Enter, Return, WatchDue, callVars, SourceOrNone, Source
      <4>. QED  BY <2>1, <4>1 DEF TypeOK, CallTypeOK
    <3>3. OPENAT_STASH'[u] = OPENAT_STASH[u]
      BY <1>1, <2>1 DEF FileOp, OpenatEnter, OpenatFails, OpenatExit, Close,
         Mmap, RenameEnter, UnlinkEnter, PathOpReturns, RenameExitSource,
         PathOpExit, TypeOK, StashTypeOK
    <3>4. PATH_OP_STASH'[u] = PATH_OP_STASH[u]
      BY <1>1, <2>1 DEF FileOp, OpenatEnter, OpenatFails, OpenatExit, Close,
         Mmap, RenameEnter, UnlinkEnter, PathOpReturns, RenameExitSource,
         PathOpExit, TypeOK, StashTypeOK
    <3>. QED  BY <3>1, <3>2, <3>3, <3>4
  <2>2. WatchedStashed'
    BY <1>1, <2>1, EntryFilters DEF WatchedStashed
  <2>3. "watch" \notin missed'
    <3>1. ASSUME NEW fd \in Fds, OpenatExit(t, fd)
          PROVE  UNCHANGED missed \/ (Ignored(due[t]) /\ due[t] # "watch")
      BY <3>1 DEF OpenatExit, Noticed, WatchedStashed
    <3>2. ASSUME NEW ok \in BOOLEAN, PathOpReturns(t, ok)
          PROVE  UNCHANGED missed \/ (Ignored(due[t]) /\ due[t] # "watch")
      BY <3>2 DEF PathOpReturns, Noticed, WatchedStashed
    <3>3. ASSUME NEW fd \in Fds, Close(t, fd) \/ Mmap(t, fd)
          PROVE  UNCHANGED missed \/ Ignored(TreeDue(t))
      BY <3>3 DEF Close, Mmap, Noticed
    <3>4. \/ UNCHANGED missed
          \/ \E d : Ignored(d) /\ d # "watch"
      BY <1>1, <3>1, <3>2, <3>3 DEF FileOp, OpenatEnter, OpenatFails,
         RenameEnter, UnlinkEnter, RenameExitSource, PathOpExit, Noticed, TreeDue
    <3>. QED  BY <3>4 DEF Ignored, ExternalWritesSeen
  <2>. QED  BY <2>2, <2>3 DEF ExternalWritesSeen
<1>2. ASSUME NEW t \in Pids, Lifetime(t)
      PROVE  WatchedStashed' /\ ExternalWritesSeen'
  <2>1. /\ UNCHANGED <<OPENAT_STASH, PATH_OP_STASH>>
        /\ \A u \in Pids : due'[u] \in {due[u], "none"}
    BY <1>2 DEF Lifetime, Exec, Fork, CloneExit, Exit, Die, Reap, SpawnForeign,
       Return, callVars, mapVars, TypeOK, CallTypeOK
  <2>2. \A u \in Pids : sc'[u] \in {sc[u], "none", "clone", "exit"}
    BY <1>2 DEF Lifetime, Exec, Fork, CloneExit, Exit, Die, Reap, SpawnForeign,
       Return, callVars, TypeOK, CallTypeOK
  <2>3. \/ UNCHANGED missed
        \/ \E d \in {"tree", "none"} : Ignored(d)
    BY <1>2 DEF Lifetime, Exec, Fork, CloneExit, Exit, Die, Reap, SpawnForeign,
       Noticed, TreeDue
  <2>4. "watch" \notin missed'
    BY <2>3 DEF Ignored, ExternalWritesSeen
  <2>. QED  BY <2>1, <2>2, <2>4 DEF WatchedStashed, ExternalWritesSeen
<1>3. CASE \/ \E t \in Pids : RecordDropRead(t) \/ RecordDropWrite(t)
           \/ Consume \/ UNCHANGED vars
  <2>1. UNCHANGED <<sc, due, OPENAT_STASH, PATH_OP_STASH, missed>>
    BY <1>3 DEF RecordDropRead, RecordDropWrite, Consume, vars, callVars, mapVars
  <2>. QED  BY <2>1 DEF WatchedStashed, ExternalWritesSeen
<1>. QED  BY <1>1, <1>2, <1>3 DEF Next

\* If absolute paths are spelled as the watched prefixes are, an external
\* process that writes, renames or unlinks under a watched directory is never
\* ignored: by relative paths or unreadable ones, with descriptors inherited
\* or PIDs reused, with every optional probe and in every order of exits.
THEOREM ExternalWritesSeenCorrect ==
  ASSUME SpelledAlike
  PROVE  Spec => []ExternalWritesSeen
<1>1. Init => WatchedStashed /\ ExternalWritesSeen
  BY DEF Init, WatchedStashed, ExternalWritesSeen
<1>2. TypeOK /\ GroupOK /\ WatchedStashed /\ ExternalWritesSeen /\ [Next]_vars
        => WatchedStashed' /\ ExternalWritesSeen'
  BY WatchStep
<1>. QED  BY <1>1, <1>2, Groups, PTL DEF Spec
=============================================================================
