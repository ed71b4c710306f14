----------------------- MODULE CollectorLifetimeProofs -----------------------
(***************************************************************************)
(* Proof that the lifetimes and epochs of the result tell the processes of *)
(* the fork tree apart, however PIDs are recycled.                         *)
(*                                                                         *)
(* The collector knows only timestamps and PIDs.  SeenInv and BirthInv say *)
(* what the timestamps are worth: the fork of a process comes before all   *)
(* its events and after all events of those that had the PID before.       *)
(* LifeInv says what the collector has made of the events it has taken:    *)
(* the newest process of a PID whose fork it has taken is the one filed in *)
(* current_processes, and each process has one lifetime.  That part holds  *)
(* with ties.  The epochs need the timestamps of two processors to differ. *)
(***************************************************************************)
EXTENDS CollectorProofs

Forks(E) == {e \in E : e.kind = "fork"}
ForkOf(f, p, b) == f.payload.child = p /\ f.payload.born = b

\* Timestamps: of each task they grow, and the buffer is older than the ring.
SeenInv ==
  /\ \A e \in Emitted : /\ e.timestamp_ns \in 1 .. MaxTime
                        /\ e.timestamp_ns <= clock
                        /\ e.timestamp_ns <= last[e.pid]
  /\ \A r \in raw_events, q \in ring : r.timestamp_ns <= q.timestamp_ns
  /\ \A d, e \in Emitted :
       d.pid = e.pid /\ d.timestamp_ns = e.timestamp_ns =>
         /\ d.tgid = e.tgid /\ d.born = e.born
         /\ d.source = e.source /\ d.image = e.image

\* Births: forks of one PID are told apart by their timestamps, and the life
\* of a process in the tree lies between its fork and the next of its PID.
BirthInv ==
  /\ \A e \in Emitted : e.born <= birth[e.tgid] /\ (e.tgid = Root => e.born = 1)
  /\ \A f \in Forks(Emitted) :
       /\ f.payload.born <= birth[f.payload.child]
       /\ f.payload.child # f.tgid /\ f.source = "tree"
       /\ f.timestamp_ns <= last[f.payload.child]
  /\ \A f, g \in Forks(Emitted) : f.payload.child = g.payload.child =>
       /\ f.payload.born = g.payload.born => f = g
       /\ f.payload.born < g.payload.born => f.timestamp_ns < g.timestamp_ns
  /\ \A f \in Forks(Emitted), e \in Emitted :
       /\ e.tgid = f.payload.child /\ e.source = "tree"
       /\ e.born < f.payload.born
       => e.timestamp_ns < f.timestamp_ns
  /\ \A e \in Emitted : e.source = "tree" /\ e.tgid # Root =>
       \E f \in Forks(Emitted) : /\ ForkOf(f, e.tgid, e.born)
                                 /\ f.timestamp_ns < e.timestamp_ns
  /\ \A t \in Pids : state[t] = "tree" /\ tg[t] # Root =>
       \E f \in Forks(Emitted) : /\ ForkOf(f, tg[t], birth[tg[t]])
                                 /\ f.timestamp_ns <= last[t]
  /\ \A c \in Pids : state[c] # "tree" \/ tg[c] # c =>
       \A e \in Emitted : e.source = "tree" /\ e.tgid = c => e.timestamp_ns <= last[c]
-----------------------------------------------------------------------------
(* Timestamps.                                                             *)

\* What a task knows of the clock only grows.
LEMMA LastGrows ==
  ASSUME ClockInv, [Next]_vars, NEW t \in Pids
  PROVE  last[t] \in Nat /\ last'[t] \in Nat /\ last'[t] >= last[t]
<1>. DEFINE Goal == last[t] \in Nat /\ last'[t] \in Nat /\ last'[t] >= last[t]
<1>1. ASSUME NEW u \in Pids, NEW ts \in Instants, NEW es, Emit(u, ts, es)
      PROVE  Goal
  BY <1>1 DEF Emit, Tick, Instants, ClockInv
<1>2. ASSUME NEW u \in Pids, NEW ts \in Instants, NEW c \in Pids, NEW thread,
             Fork(u, ts, c, thread)
      PROVE  Goal
  <2>1. /\ ts > last[u] /\ ts > last[c] /\ ts \in Nat
        /\ last' = [last EXCEPT ![u] = ts, ![c] = ts]
    BY <1>2 DEF Fork, Tick, Instants, ClockInv
  <2>. QED
    BY <2>1 DEF ClockInv
<1>3. ASSUME UNCHANGED last
      PROVE  Goal
  BY <1>3 DEF ClockInv
<1>4. ASSUME NEW u \in Pids, NEW ts \in Instants, NEW raw, NEW style, NEW fd, NEW mode,
             Open(u, ts, fd, raw, style, mode)
      PROVE  Goal
  BY <1>1, <1>4 DEF Open
<1>5. ASSUME NEW u \in Pids, NEW ts \in Instants, NEW raw, NEW to, NEW style, NEW exchange,
             Rename(u, ts, raw, to, style, exchange)
      PROVE  Goal
  BY <1>1, <1>5 DEF Rename
<1>6. ASSUME NEW u \in Pids, NEW ts \in Instants, NEW x, NEW style,
             Unlink(u, ts, x, style) \/ Close(u, ts, x) \/ Mmap(u, ts, x)
      PROVE  Goal
  BY <1>1, <1>6 DEF Unlink, Close, Mmap
<1>7. ASSUME NEW u \in Pids, NEW ts \in Instants, NEW x, Exec(u, ts, x) \/ Exit(u, ts, x)
      PROVE  Goal
  BY <1>1, <1>7 DEF Exec, Exit
<1>8. ASSUME CollectorNext
      PROVE  UNCHANGED last
  <2>1. CASE Drain \/ WaitPid \/ Quiesced \/ Finish
    BY <2>1 DEF Drain, WaitPid, Quiesced, Finish, worldVars
  <2>. QED
    BY <1>8, <2>1, Taken DEF CollectorNext, Take, worldVars
<1>9. CASE UNCHANGED vars
  BY <1>3, <1>9 DEF vars, worldVars
<1>10. CASE WorldNext
  BY <1>10, <1>2, <1>3, <1>4, <1>5, <1>6, <1>7
  DEF WorldNext, Write, Chdir, SpawnExternal, SilentExit
<1>. QED
  BY <1>3, <1>8, <1>9, <1>10 DEF Next

\* An event that is heard is no older than any other.
LEMMA HeardLast ==
  ASSUME TypeInv, SeenInv, NEW d, NEW t \in Pids, Heard(d, t), NEW e \in Emitted
  PROVE  /\ d.timestamp_ns \in 1 .. MaxTime /\ d.timestamp_ns = clock'
         /\ e.timestamp_ns <= d.timestamp_ns
         /\ e.pid = t => e.timestamp_ns < d.timestamp_ns
<1>1. clock \in Nat /\ last[t] \in Nat /\ MaxTime \in Nat
  BY WorldConstantsOK DEF TypeInv, ClockInv
<1>2. d.timestamp_ns = clock' /\ clock' \in Nat /\ clock' > last[t] /\ clock' >= clock
      /\ clock' <= MaxTime
  BY <1>1 DEF Heard, Instants
<1>3. e.timestamp_ns \in Nat /\ e.timestamp_ns <= clock /\ e.timestamp_ns <= last[e.pid]
  BY DEF SeenInv
<1>. QED
  BY <1>1, <1>2, <1>3

LEMMA SeenStep ==
  ASSUME TypeInv, SeenInv, [Next]_vars
  PROVE  SeenInv'
<1>0. TasksInv /\ ClockInv /\ EventsInv /\ EventsInv' /\ ClockInv' /\ clock' >= clock
  BY TypeStep, ClockStep DEF TypeInv
<1>1. ASSUME NEW d \in Emitted', NEW e \in Emitted, Alike(d, e)
      PROVE  /\ d.timestamp_ns \in 1 .. MaxTime /\ d.timestamp_ns <= clock'
             /\ d.timestamp_ns <= last'[d.pid]
  <2>1. /\ d.timestamp_ns = e.timestamp_ns /\ d.pid = e.pid /\ e.pid \in Pids
        /\ e.timestamp_ns \in 1 .. MaxTime /\ e.timestamp_ns <= clock
        /\ e.timestamp_ns <= last[e.pid] /\ clock \in Nat /\ clock' \in Nat
    BY <1>0, <1>1 DEF Alike, SeenInv, EventsInv, RawEvent, ClockInv
  <2>. QED
    BY <1>0, <2>1, LastGrows
<1>2. ASSUME NEW d \in Emitted', NEW t \in Pids, Heard(d, t)
      PROVE  /\ d.timestamp_ns \in 1 .. MaxTime /\ d.timestamp_ns <= clock'
             /\ d.timestamp_ns <= last'[d.pid]
  <2>1. clock \in Nat /\ last[t] \in Nat /\ MaxTime \in Nat
    BY <1>0, WorldConstantsOK DEF ClockInv
  <2>. QED
    BY <1>2, <2>1 DEF Heard, Instants
<1>3. \A d \in Emitted' : /\ d.timestamp_ns \in 1 .. MaxTime
                          /\ d.timestamp_ns <= clock'
                          /\ d.timestamp_ns <= last'[d.pid]
  BY <1>0, <1>1, <1>2, Origin
<1>4. \A r \in raw_events', q \in ring' : r.timestamp_ns <= q.timestamp_ns
  <2>1. CASE Drain
    BY <2>1, DrainCopies
  <2>2. CASE raw_events' = raw_events
    <3>. SUFFICES ASSUME NEW r \in raw_events, NEW q \in ring'
                  PROVE  r.timestamp_ns <= q.timestamp_ns
      BY <2>2
    <3>1. CASE q \in ring
      BY <3>1 DEF SeenInv
    <3>2. CASE q \notin ring /\ WorldNext
      BY <1>0, <3>2, NewEvent, HeardLast DEF Emitted
    <3>3. q \in ring \/ WorldNext
      <4>1. CASE CollectorNext
        BY <4>1, CollectorKeeps, DrainCopies
      <4>. QED
        BY <4>1 DEF Next, vars, worldVars
    <3>. QED
      BY <3>1, <3>2, <3>3
  <2>3. Drain \/ raw_events' = raw_events
    BY CollectorKeeps DEF Next, vars, collectorVars, bufferVars
  <2>. QED
    BY <2>1, <2>2, <2>3
<1>5. ASSUME NEW d \in Emitted', NEW e \in Emitted',
             d.pid = e.pid, d.timestamp_ns = e.timestamp_ns
      PROVE  d.tgid = e.tgid /\ d.born = e.born /\ d.source = e.source /\ d.image = e.image
  <2>1. ASSUME NEW x \in Emitted, NEW y \in Emitted, Alike(d, x), Alike(e, y)
        PROVE  d.tgid = e.tgid /\ d.born = e.born /\ d.source = e.source /\ d.image = e.image
    <3>1. /\ d.pid = x.pid /\ d.timestamp_ns = x.timestamp_ns /\ d.tgid = x.tgid
          /\ d.born = x.born /\ d.source = x.source /\ d.image = x.image
      BY <2>1 DEF Alike
    <3>2. /\ e.pid = y.pid /\ e.timestamp_ns = y.timestamp_ns /\ e.tgid = y.tgid
          /\ e.born = y.born /\ e.source = y.source /\ e.image = y.image
      BY <2>1 DEF Alike
    <3>. QED
      BY <1>5, <3>1, <3>2 DEF SeenInv
  <2>2. ASSUME NEW x \in Emitted, NEW t \in Pids, NEW y, NEW z, Alike(y, x), Heard(z, t),
               y.pid = z.pid, y.timestamp_ns = z.timestamp_ns
        PROVE  FALSE
    <3>1. x.pid = t /\ x.timestamp_ns = z.timestamp_ns
      BY <2>2 DEF Alike, Heard
    <3>2. x.timestamp_ns < z.timestamp_ns /\ x.timestamp_ns \in Nat
      BY <2>2, <3>1, HeardLast DEF SeenInv
    <3>. QED
      BY <3>1, <3>2
  <2>3. ASSUME NEW t \in Pids, NEW u \in Pids, Heard(d, t), Heard(e, u),
               d \in ring' \ ring, e \in ring' \ ring
        PROVE  d.tgid = e.tgid /\ d.born = e.born /\ d.source = e.source /\ d.image = e.image
    <3>1. t = u
      BY <1>5, <2>3 DEF Heard
    <3>2. CASE d.kind = "exec" \/ e.kind = "exec"
      <4>1. d = e
        BY <2>3, <3>2 DEF Heard
      <4>. QED
        BY <4>1
    <3>3. CASE d.kind # "exec" /\ e.kind # "exec"
      BY <2>3, <3>1, <3>3 DEF Heard
    <3>. QED
      BY <3>2, <3>3
  <2>. QED
    BY <1>0, <1>5, <2>1, <2>2, <2>3, Origin
<1>. QED
  BY <1>3, <1>4, <1>5 DEF SeenInv, Emitted
-----------------------------------------------------------------------------
(* Births.                                                                 *)

\* The steps, as far as they change tasks.
LEMMA TaskChange ==
  ASSUME [Next]_vars
  PROVE  \/ UNCHANGED <<state, tg, birth>>
         \/ \E t, c \in Pids, ts \in Instants, thread \in BOOLEAN : Fork(t, ts, c, thread)
         \/ \E p \in Pids, dir \in Cwds : SpawnExternal(p, dir)
         \/ \E t \in Pids, ts \in Instants, status \in {0, 1} : Exit(t, ts, status)
         \/ \E t \in Pids : SilentExit(t)
         \/ WaitPid
<1>1. ASSUME FileStep
      PROVE  UNCHANGED <<state, tg, birth>>
  BY <1>1, TasksAlone
<1>2. ASSUME NEW t, NEW ts, NEW style, Exec(t, ts, style)
      PROVE  UNCHANGED <<state, tg, birth>>
  BY <1>2 DEF Exec
<1>3. ASSUME CollectorNext, ~WaitPid
      PROVE  UNCHANGED <<state, tg, birth>>
  <2>1. CASE Drain \/ Quiesced \/ Finish
    BY <2>1 DEF Drain, Quiesced, Finish, worldVars, taskVars
  <2>. QED
    BY <1>3, <2>1, Taken DEF CollectorNext, Take, worldVars, taskVars
<1>4. CASE UNCHANGED vars
  BY <1>4 DEF vars, worldVars, taskVars
<1>. QED
  BY <1>1, <1>2, <1>3, <1>4, WorldSteps DEF Next

\* Births are only counted up.
LEMMA BirthGrows ==
  ASSUME TasksInv, [Next]_vars, NEW p \in Pids
  PROVE  birth[p] \in Nat /\ birth'[p] \in Nat /\ birth'[p] >= birth[p]
<1>1. ASSUME NEW c, birth' = [birth EXCEPT ![c] = @ + 1]
      PROVE  birth[p] \in Nat /\ birth'[p] \in Nat /\ birth'[p] >= birth[p]
  BY <1>1 DEF TasksInv
<1>2. UNCHANGED birth \/ \E c : birth' = [birth EXCEPT ![c] = @ + 1]
  BY TaskChange, ZenonT(60) DEF Fork, SpawnExternal, Born, Exit, SilentExit, WaitPid
<1>. QED
  BY <1>1, <1>2 DEF TasksInv

\* A task of the tree was there before, in the same process, or was forked.
LEMMA TreeOrigin ==
  ASSUME TasksInv, [Next]_vars, NEW t \in Pids, state'[t] = "tree"
  PROVE  \/ /\ state[t] = "tree" /\ tg'[t] = tg[t]
            /\ birth'[tg[t]] = birth[tg[t]]
         \/ \E u \in Pids, ts \in Instants, thread \in BOOLEAN : Fork(u, ts, t, thread)
<1>. DEFINE Old == /\ state[t] = "tree" /\ tg'[t] = tg[t]
                   /\ birth'[tg[t]] = birth[tg[t]]
<1>1. ASSUME NEW c \in Pids, NEW kind, NEW group, NEW dir, NEW fds,
             Born(c, kind, group, dir, fds), c # t
      PROVE  Old
  <2>1. state[t] = "tree" /\ tg'[t] = tg[t] /\ state[c] = "free"
    BY <1>1 DEF Born, TasksInv
  <2>2. tg[t] # c /\ tg[t] \in Pids
    BY <2>1 DEF TasksInv
  <2>. QED
    BY <1>1, <2>1, <2>2 DEF Born, TasksInv
<1>2. ASSUME NEW p \in Pids, NEW dir, SpawnExternal(p, dir)
      PROVE  Old
  <2>1. Born(p, "ext", p, dir, NoFds)
    BY <1>2 DEF SpawnExternal
  <2>2. p # t
    BY <2>1 DEF Born, TasksInv
  <2>. QED
    BY <1>1, <2>1, <2>2
<1>3. ASSUME NEW u \in Pids, NEW ts \in Instants, NEW c \in Pids, NEW thread \in BOOLEAN,
             Fork(u, ts, c, thread), c # t
      PROVE  Old
  BY <1>1, <1>3 DEF Fork
<1>4. ASSUME NEW u \in Pids, NEW end, state' = [state EXCEPT ![u] = end],
             end # "tree", UNCHANGED <<tg, birth>>
      PROVE  Old
  BY <1>4 DEF TasksInv
<1>5. ASSUME NEW u \in Pids, NEW ts, NEW status, Exit(u, ts, status)
      PROVE  Old
  BY <1>4, <1>5 DEF Exit
<1>6. ASSUME NEW u \in Pids, SilentExit(u)
      PROVE  Old
  BY <1>4, <1>6 DEF SilentExit
<1>7. CASE WaitPid
  BY <1>4, <1>7, WorldConstantsOK DEF WaitPid
<1>. QED
  BY <1>2, <1>3, <1>5, <1>6, <1>7, TaskChange

\* A process of the tree ends with an exit event of its leader.
LEMMA LeaderEnds ==
  ASSUME TasksInv, ClockInv, [Next]_vars, NEW c \in Pids, state[c] = "tree",
         tg[c] = c, state'[c] # "tree" \/ tg'[c] # c
  PROVE  last'[c] = clock'
<1>1. ASSUME NEW d \in Pids, NEW kind, NEW group, NEW dir, NEW fds,
             Born(d, kind, group, dir, fds)
      PROVE  FALSE
  BY <1>1 DEF Born, TasksInv
<1>2. ASSUME NEW u \in Pids, NEW ts, NEW status, Exit(u, ts, status)
      PROVE  last'[c] = clock'
  <2>1. u = c
    BY <1>2 DEF Exit, TasksInv
  <2>. QED
    BY <1>2, <2>1 DEF Exit, Emit, Tick, ClockInv
<1>3. ASSUME NEW u \in Pids, SilentExit(u)
      PROVE  FALSE
  <2>1. u # c
    BY <1>3 DEF SilentExit
  <2>. QED
    BY <1>3, <2>1 DEF SilentExit, TasksInv
<1>4. CASE WaitPid
  BY <1>4, WorldConstantsOK DEF WaitPid, TasksInv
<1>. QED
  BY <1>1, <1>2, <1>3, <1>4, TaskChange, ZenonT(60) DEF Fork, SpawnExternal

LEMMA BirthStep ==
  ASSUME TypeInv, SeenInv, BirthInv, [Next]_vars
  PROVE  BirthInv'
<1>0. /\ TasksInv /\ ClockInv /\ EventsInv /\ TasksInv' /\ ClockInv' /\ EventsInv'
      /\ clock' >= clock
  BY TypeStep, ClockStep DEF TypeInv
\* The new event of a task of the tree belongs to a living leader.
<1>1. ASSUME NEW d \in Emitted', NEW t \in Pids, Heard(d, t)
      PROVE  /\ d.tgid = tg[t] /\ tg[t] \in Pids /\ d.born = birth[tg[t]]
             /\ d.source = state[t]
             /\ d.source = "tree" => state[tg[t]] = "tree" /\ tg[tg[t]] = tg[t]
  BY <1>0, <1>1 DEF Heard, TasksInv
\* A fork is there already, or is heard now of a task that was free.
<1>2. ASSUME NEW f \in Forks(Emitted')
      PROVE  \/ f \in Forks(Emitted)
             \/ /\ ring' = ring \cup {f} /\ raw_events' = raw_events /\ f.source = "tree"
                /\ f.payload.child \in Pids /\ state[f.payload.child] = "free"
                /\ f.payload.child # f.tgid
                /\ f.payload.born = birth[f.payload.child] + 1
                /\ birth'[f.payload.child] = birth[f.payload.child] + 1
                /\ f.timestamp_ns = clock' /\ clock' > last[f.payload.child]
                /\ last'[f.payload.child] = clock'
  <2>1. f \in Emitted' /\ f.kind = "fork"
    BY <1>2 DEF Forks
  <2>2. ASSUME NEW e \in Emitted, Alike(f, e)
        PROVE  f \in Forks(Emitted)
    BY <2>1, <2>2 DEF Alike, Forks
  <2>3. ASSUME NEW t \in Pids, Heard(f, t), UNCHANGED collectorVars
        PROVE  /\ ring' = ring \cup {f} /\ raw_events' = raw_events /\ f.source = "tree"
               /\ f.payload.child \in Pids /\ state[f.payload.child] = "free"
               /\ f.payload.child # f.tgid
               /\ f.payload.born = birth[f.payload.child] + 1
               /\ birth'[f.payload.child] = birth[f.payload.child] + 1
               /\ f.timestamp_ns = clock' /\ clock' > last[f.payload.child]
               /\ last'[f.payload.child] = clock'
    <3>1. f.payload.child # f.tgid
      BY <1>0, <2>1, <2>3 DEF Heard, TasksInv
    <3>2. birth'[f.payload.child] = birth[f.payload.child] + 1
      BY <1>0, <2>1, <2>3 DEF Heard, TasksInv
    <3>. QED
      BY <2>1, <2>3, <3>1, <3>2 DEF Heard, collectorVars, bufferVars
  <2>. QED
    BY <1>0, <2>1, <2>2, <2>3, Origin
<1>3. \A f \in Forks(Emitted) : f \in Forks(Emitted')
  BY Kept DEF Forks
<1>4. \A f \in Forks(Emitted) :
        /\ f.payload.child \in Pids /\ f.payload.born \in Nat /\ f.timestamp_ns \in Nat
        /\ f \in Emitted
  BY <1>0 DEF Forks, EventsInv, RawEvent
<1>5. \A e \in Emitted' : e.born <= birth'[e.tgid] /\ (e.tgid = Root => e.born = 1)
  <2>. SUFFICES ASSUME NEW d \in Emitted'
                PROVE  d.born <= birth'[d.tgid] /\ (d.tgid = Root => d.born = 1)
    OBVIOUS
  <2>1. ASSUME NEW e \in Emitted, Alike(d, e)
        PROVE  d.born <= birth'[d.tgid] /\ (d.tgid = Root => d.born = 1)
    <3>1. /\ d.born = e.born /\ d.tgid = e.tgid /\ e.born \in Nat /\ e.tgid \in Pids
          /\ e.born <= birth[e.tgid] /\ (e.tgid = Root => e.born = 1)
      BY <1>0, <2>1 DEF Alike, BirthInv, EventsInv, RawEvent
    <3>. QED
      BY <1>0, <3>1, BirthGrows
  <2>2. ASSUME NEW t \in Pids, Heard(d, t)
        PROVE  d.born <= birth'[d.tgid] /\ (d.tgid = Root => d.born = 1)
    <3>1. d.tgid = tg[t] /\ tg[t] \in Pids /\ d.born = birth[tg[t]]
      BY <1>1, <2>2
    <3>2. birth[Root] = 1
      BY <1>0 DEF TasksInv
    <3>. QED
      BY <1>0, <3>1, <3>2, BirthGrows
  <2>. QED
    BY <1>0, <2>1, <2>2, Origin
<1>6. \A f \in Forks(Emitted') :
        /\ f.payload.born <= birth'[f.payload.child]
        /\ f.payload.child # f.tgid /\ f.source = "tree"
        /\ f.timestamp_ns <= last'[f.payload.child]
  <2>. SUFFICES ASSUME NEW f \in Forks(Emitted')
                PROVE  /\ f.payload.born <= birth'[f.payload.child]
                       /\ f.payload.child # f.tgid /\ f.source = "tree"
                       /\ f.timestamp_ns <= last'[f.payload.child]
    OBVIOUS
  <2>1. CASE f \in Forks(Emitted)
    <3>1. /\ f.payload.child \in Pids /\ f.payload.born \in Nat /\ f.timestamp_ns \in Nat
          /\ f.payload.born <= birth[f.payload.child]
          /\ f.payload.child # f.tgid /\ f.source = "tree"
          /\ f.timestamp_ns <= last[f.payload.child]
      BY <1>4, <2>1 DEF BirthInv
    <3>. QED
      BY <1>0, <3>1, BirthGrows, LastGrows
  <2>2. CASE f \notin Forks(Emitted)
    <3>1. birth[f.payload.child] \in Nat /\ clock' \in Nat
      BY <1>0, <1>2, <2>2 DEF TasksInv, ClockInv
    <3>. QED
      BY <1>2, <2>2, <3>1
  <2>. QED
    BY <2>1, <2>2
<1>7. \A f, g \in Forks(Emitted') : f.payload.child = g.payload.child =>
        /\ f.payload.born = g.payload.born => f = g
        /\ f.payload.born < g.payload.born => f.timestamp_ns < g.timestamp_ns
  <2>. SUFFICES ASSUME NEW f \in Forks(Emitted'), NEW g \in Forks(Emitted'),
                       f.payload.child = g.payload.child
                PROVE  /\ f.payload.born = g.payload.born => f = g
                       /\ f.payload.born < g.payload.born => f.timestamp_ns < g.timestamp_ns
    OBVIOUS
  <2>1. ASSUME NEW x \in Forks(Emitted), NEW y \in Forks(Emitted'), y \notin Forks(Emitted),
               x.payload.child = y.payload.child
        PROVE  /\ x.payload.born < y.payload.born /\ x.timestamp_ns < y.timestamp_ns
               /\ x.payload.born \in Nat /\ y.payload.born \in Nat
    <3>1. /\ x.payload.born <= birth[x.payload.child]
          /\ x.timestamp_ns <= last[x.payload.child]
          /\ x.payload.born \in Nat /\ x.timestamp_ns \in Nat /\ x.payload.child \in Pids
      BY <1>4 DEF BirthInv
    <3>2. birth[x.payload.child] \in Nat /\ last[x.payload.child] \in Nat /\ clock' \in Nat
      BY <1>0, <3>1 DEF TasksInv, ClockInv
    <3>. QED
      BY <1>2, <2>1, <3>1, <3>2
  <2>2. CASE f \in Forks(Emitted) /\ g \in Forks(Emitted)
    BY <2>2 DEF BirthInv
  <2>3. CASE f \in Forks(Emitted) /\ g \notin Forks(Emitted)
    BY <2>1, <2>3
  <2>4. CASE f \notin Forks(Emitted) /\ g \in Forks(Emitted)
    BY <2>1, <2>4
  <2>5. CASE f \notin Forks(Emitted) /\ g \notin Forks(Emitted)
    <3>1. ring' = ring \cup {f} /\ raw_events' = raw_events
      BY <1>2, <2>5
    <3>2. f = g
      BY <2>5, <3>1 DEF Forks, Emitted
    <3>3. f.payload.born \in Nat
      BY <1>0 DEF Forks, EventsInv, RawEvent
    <3>. QED
      BY <3>2, <3>3
  <2>. QED
    BY <2>2, <2>3, <2>4, <2>5
<1>8. \A f \in Forks(Emitted'), e \in Emitted' :
        e.tgid = f.payload.child /\ e.source = "tree" /\ e.born < f.payload.born
          => e.timestamp_ns < f.timestamp_ns
  <2>. SUFFICES ASSUME NEW f \in Forks(Emitted'), NEW d \in Emitted',
                       d.tgid = f.payload.child, d.source = "tree", d.born < f.payload.born
                PROVE  d.timestamp_ns < f.timestamp_ns
    OBVIOUS
  <2>1. ASSUME NEW e \in Emitted, Alike(d, e)
        PROVE  d.timestamp_ns < f.timestamp_ns
    <3>1. /\ e.tgid = f.payload.child /\ e.source = "tree" /\ e.born < f.payload.born
          /\ d.timestamp_ns = e.timestamp_ns /\ e.tgid \in Pids /\ e.timestamp_ns \in Nat
      BY <1>0, <2>1 DEF Alike, EventsInv, RawEvent
    <3>2. CASE f \in Forks(Emitted)
      BY <3>1, <3>2 DEF BirthInv
    <3>3. CASE f \notin Forks(Emitted)
      <4>1. state[e.tgid] = "free" /\ f.timestamp_ns = clock' /\ clock' > last[e.tgid]
        BY <1>2, <3>1, <3>3
      <4>2. e.timestamp_ns <= last[e.tgid]
        BY <3>1, <4>1 DEF BirthInv
      <4>3. last[e.tgid] \in Nat /\ clock' \in Nat
        BY <1>0, <3>1 DEF ClockInv
      <4>. QED
        BY <3>1, <4>1, <4>2, <4>3
    <3>. QED
      BY <3>2, <3>3
  <2>2. ASSUME NEW t \in Pids, Heard(d, t), d \in ring' \ ring
        PROVE  FALSE
    <3>1. /\ d.tgid = tg[t] /\ d.born = birth[tg[t]] /\ tg[t] \in Pids
          /\ state[tg[t]] = "tree"
      BY <1>1, <2>2
    <3>2. CASE f \in Forks(Emitted)
      <4>1. f.payload.born <= birth[tg[t]] /\ f.payload.born \in Nat /\ birth[tg[t]] \in Nat
        BY <1>0, <1>4, <3>1, <3>2, ZenonT(60) DEF BirthInv, TasksInv
      <4>. QED
        BY <3>1, <4>1
    <3>3. CASE f \notin Forks(Emitted)
      BY <1>2, <3>1, <3>3
    <3>. QED
      BY <3>2, <3>3
  <2>. QED
    BY <1>0, <2>1, <2>2, Origin
<1>9. \A e \in Emitted' : e.source = "tree" /\ e.tgid # Root =>
        \E f \in Forks(Emitted') : /\ ForkOf(f, e.tgid, e.born)
                                   /\ f.timestamp_ns < e.timestamp_ns
  <2>. SUFFICES ASSUME NEW d \in Emitted', d.source = "tree", d.tgid # Root
                PROVE  \E f \in Forks(Emitted') : /\ ForkOf(f, d.tgid, d.born)
                                                  /\ f.timestamp_ns < d.timestamp_ns
    OBVIOUS
  <2>1. ASSUME NEW e \in Emitted, Alike(d, e)
        PROVE  \E f \in Forks(Emitted) : /\ ForkOf(f, d.tgid, d.born)
                                         /\ f.timestamp_ns < d.timestamp_ns
    BY <2>1 DEF Alike, BirthInv
  <2>2. ASSUME NEW t \in Pids, Heard(d, t)
        PROVE  \E f \in Forks(Emitted) : /\ ForkOf(f, d.tgid, d.born)
                                         /\ f.timestamp_ns < d.timestamp_ns
    <3>1. /\ d.tgid = tg[t] /\ d.born = birth[tg[t]] /\ state[t] = "tree"
          /\ d.timestamp_ns = clock' /\ clock' > last[t]
      BY <1>1, <2>2 DEF Heard
    <3>2. PICK f \in Forks(Emitted) : /\ ForkOf(f, tg[t], birth[tg[t]])
                                      /\ f.timestamp_ns <= last[t]
      BY <3>1 DEF BirthInv
    <3>3. f.timestamp_ns \in Nat /\ last[t] \in Nat /\ clock' \in Nat
      BY <1>0, <1>4 DEF ClockInv
    <3>4. f.timestamp_ns < d.timestamp_ns
      BY <3>1, <3>2, <3>3
    <3>. QED
      BY <3>1, <3>2, <3>4
  <2>. QED
    BY <1>0, <1>3, <2>1, <2>2, Origin
<1>10. \A t \in Pids : state'[t] = "tree" /\ tg'[t] # Root =>
         \E f \in Forks(Emitted') : /\ ForkOf(f, tg'[t], birth'[tg'[t]])
                                    /\ f.timestamp_ns <= last'[t]
  <2>. SUFFICES ASSUME NEW t \in Pids, state'[t] = "tree", tg'[t] # Root
                PROVE  \E f \in Forks(Emitted') : /\ ForkOf(f, tg'[t], birth'[tg'[t]])
                                                  /\ f.timestamp_ns <= last'[t]
    OBVIOUS
  <2>1. ASSUME state[t] = "tree", tg'[t] = tg[t], birth'[tg[t]] = birth[tg[t]]
        PROVE  \E f \in Forks(Emitted') : /\ ForkOf(f, tg'[t], birth'[tg'[t]])
                                          /\ f.timestamp_ns <= last'[t]
    <3>1. PICK f \in Forks(Emitted) : /\ ForkOf(f, tg[t], birth[tg[t]])
                                      /\ f.timestamp_ns <= last[t]
      BY <2>1 DEF BirthInv
    <3>2. f.timestamp_ns <= last'[t]
      BY <1>0, <1>4, <3>1, LastGrows
    <3>. QED
      BY <1>3, <2>1, <3>1, <3>2
  <2>2. ASSUME NEW u \in Pids, NEW ts \in Instants, NEW thread \in BOOLEAN,
               Fork(u, ts, t, thread)
        PROVE  \E f \in Forks(Emitted') : /\ ForkOf(f, tg'[t], birth'[tg'[t]])
                                          /\ f.timestamp_ns <= last'[t]
    <3>1. /\ state[u] = "tree" /\ state[t] = "free"
          /\ tg' = [tg EXCEPT ![t] = IF thread THEN tg[u] ELSE t]
          /\ birth' = [birth EXCEPT ![t] = @ + 1]
          /\ last' = [last EXCEPT ![u] = ts, ![t] = ts] /\ ts > last[u] /\ ts \in Nat
      BY <1>0, <2>2 DEF Fork, Born, Tick, Instants, ClockInv
    <3>2. last'[t] = ts /\ tg[u] \in Pids /\ tg[u] # t
      BY <1>0, <3>1 DEF ClockInv, TasksInv
    <3>3. CASE thread
      <4>1. tg'[t] = tg[u] /\ birth'[tg[u]] = birth[tg[u]]
        BY <1>0, <3>1, <3>2, <3>3 DEF TasksInv
      <4>2. PICK f \in Forks(Emitted) : /\ ForkOf(f, tg[u], birth[tg[u]])
                                        /\ f.timestamp_ns <= last[u]
        BY <3>1, <4>1 DEF BirthInv
      <4>3. f.timestamp_ns <= last'[t]
        BY <1>0, <1>4, <3>1, <3>2, <4>2 DEF ClockInv
      <4>. QED
        BY <1>3, <4>1, <4>2, <4>3
    <3>4. CASE ~thread
      <4>. DEFINE f == Event("fork", u, ts, [child |-> t, born |-> birth[t] + 1])
      <4>1. ring' = ring \cup {f}
        BY <2>2 DEF Fork
      <4>2. /\ f.kind = "fork" /\ f.payload.child = t /\ f.payload.born = birth[t] + 1
            /\ f.timestamp_ns = ts
        BY DEF Event
      <4>. HIDE DEF f
      <4>3. f \in Forks(Emitted')
        BY <4>1, <4>2 DEF Forks, Emitted
      <4>4. tg'[t] = t /\ birth'[t] = birth[t] + 1
        BY <1>0, <3>1, <3>4 DEF TasksInv
      <4>5. ForkOf(f, tg'[t], birth'[tg'[t]]) /\ f.timestamp_ns <= last'[t]
        BY <3>1, <3>2, <4>2, <4>4 DEF ForkOf
      <4>. QED
        BY <4>3, <4>5
    <3>. QED
      BY <3>3, <3>4
  <2>. QED
    BY <1>0, <2>1, <2>2, TreeOrigin
<1>11. \A c \in Pids : state'[c] # "tree" \/ tg'[c] # c =>
         \A e \in Emitted' : e.source = "tree" /\ e.tgid = c => e.timestamp_ns <= last'[c]
  <2>. SUFFICES ASSUME NEW c \in Pids, state'[c] # "tree" \/ tg'[c] # c,
                       NEW d \in Emitted', d.source = "tree", d.tgid = c
                PROVE  d.timestamp_ns <= last'[c]
    OBVIOUS
  <2>1. CASE state[c] = "tree" /\ tg[c] = c
    <3>1. last'[c] = clock'
      BY <1>0, <2>1, LeaderEnds
    <3>2. d.timestamp_ns <= clock'
      BY SeenStep DEF SeenInv
    <3>. QED
      BY <3>1, <3>2
  <2>2. CASE state[c] # "tree" \/ tg[c] # c
    <3>1. ASSUME NEW e \in Emitted, Alike(d, e)
          PROVE  d.timestamp_ns <= last'[c]
      <4>1. /\ e.source = "tree" /\ e.tgid = c /\ d.timestamp_ns = e.timestamp_ns
            /\ e.timestamp_ns \in Nat
        BY <1>0, <3>1 DEF Alike, EventsInv, RawEvent
      <4>2. e.timestamp_ns <= last[c]
        BY <2>2, <4>1 DEF BirthInv
      <4>. QED
        BY <1>0, <4>1, <4>2, LastGrows
    <3>2. ASSUME NEW t \in Pids, Heard(d, t)
          PROVE  FALSE
      BY <1>1, <2>2, <3>2
    <3>. QED
      BY <1>0, <3>1, <3>2, Origin
  <2>. QED
    BY <2>1, <2>2
<1>. QED
  BY <1>5, <1>6, <1>7, <1>8, <1>9, <1>10, <1>11 DEF BirthInv, Forks, Emitted
-----------------------------------------------------------------------------
(* Lifetimes.                                                              *)

\* The events that process_event has taken.
Done == IF phase \in {"process", "done"} THEN raw_events \ todo ELSE {}

\* The collector has heard of the process that was the b-th to have PID p.
Announced(p, b) ==
  \/ p = Root /\ b = 1
  \/ \E f \in Forks(Done) : ForkOf(f, p, b)

Newest(p, b) ==
  /\ Announced(p, b)
  /\ \A f \in Forks(Done) : f.payload.child = p => f.payload.born <= b

\* A result of the tree, or trace_command itself, calls that process l.
NamedAs(l, p, b) ==
  \/ l = root_process.lifetime /\ p = Root /\ b = 1
  \/ \E x \in Reported :
       /\ x.of.source = "tree"
       /\ \/ x.process.lifetime = l /\ x.of.tgid = p /\ x.of.born = b
          \/ /\ x.kind = "fork" /\ x.child.lifetime = l
             /\ x.of.payload.child = p /\ x.of.payload.born = b

\* The counter is wider than the forks of one PID are many.
Wide == MaxGeneration > MaxTime + 1

LifeInv ==
  /\ \A d \in Done, e \in todo : d.timestamp_ns <= e.timestamp_ns
  /\ \A l, p, b : NamedAs(l, p, b) =>
       /\ Announced(p, b)
       /\ l.pid = p /\ l.generation \in Nat /\ l.generation < next_generation(p)
  /\ \A l, m, p, q, b, c : NamedAs(l, p, b) /\ NamedAs(m, q, c) =>
       (l = m <=> p = q /\ b = c)
  /\ phase # "done" => \A p \in Pids, b \in Nat : Newest(p, b) =>
       /\ p \in DOMAIN current_processes
       /\ NamedAs(current_processes[p].lifetime, p, b)
  /\ phase # "done" => DOMAIN current_processes = DOMAIN next_generations
  /\ \A p \in Pids :
       \/ next_generation(p) <= 1
       \/ \E f \in Forks(Done) : /\ f.payload.child = p
                                 /\ next_generation(p) <= f.timestamp_ns + 1
  /\ \A k \in DOMAIN pending_renames : \E s \in Done :
       /\ s.pid = k[1] /\ s.timestamp_ns = k[2]
       /\ s.source = "tree" =>
            NamedAs(pending_renames[k].process.lifetime, s.tgid, s.born)

\* An event of the tree that is taken belongs to the newest process of its
\* PID: its fork has been taken, and no later one has.
LEMMA TakenIsNewest ==
  ASSUME TypeInv, SeenInv, BirthInv, LifeInv, NEW e \in todo, Take(e), e.source = "tree"
  PROVE  /\ Newest(e.tgid, e.born)
         /\ e.tgid \in DOMAIN current_processes
         /\ current_process(e.tgid) = current_processes[e.tgid]
         /\ NamedAs(current_process(e.tgid).lifetime, e.tgid, e.born)
<1>1. /\ phase = "process" /\ Done = raw_events \ todo /\ e \in raw_events
      /\ \A d \in todo : e.timestamp_ns <= d.timestamp_ns
      /\ e \in Emitted /\ RawEvent(e)
  BY DEF Take, Done, TypeInv, TableInv, TypeOK, EventsInv, Emitted
<1>2. \A f \in Forks(Done) : /\ f \in Forks(Emitted) /\ f \in Done
                             /\ f.payload.child # Root /\ f.payload.born \in Nat
                             /\ f.timestamp_ns \in Nat
  BY <1>1 DEF Forks, Emitted, TypeInv, EventsInv, RawEvent
<1>3. Announced(e.tgid, e.born)
  <2>1. CASE e.tgid = Root
    BY <1>1, <2>1 DEF BirthInv, Announced
  <2>2. CASE e.tgid # Root
    <3>1. PICK f \in Forks(Emitted) : /\ ForkOf(f, e.tgid, e.born)
                                      /\ f.timestamp_ns < e.timestamp_ns
      BY <1>1, <2>2 DEF BirthInv
    <3>2. f \in Emitted /\ f.timestamp_ns \in Nat /\ e.timestamp_ns \in Nat
      BY <1>1 DEF Forks, TypeInv, EventsInv, RawEvent
    <3>3. f \notin ring /\ f \notin todo
      BY <1>1, <3>1, <3>2 DEF SeenInv
    <3>4. f \in Forks(Done)
      BY <1>1, <3>2, <3>3 DEF Emitted, Forks
    <3>. QED
      BY <3>1, <3>4 DEF Announced
  <2>. QED
    BY <2>1, <2>2
<1>4. ASSUME NEW f \in Forks(Done), f.payload.child = e.tgid
      PROVE  f.payload.born <= e.born
  <2>1. f.timestamp_ns <= e.timestamp_ns
    BY <1>2 DEF LifeInv
  <2>2. e.born < f.payload.born => e.timestamp_ns < f.timestamp_ns
    BY <1>1, <1>2, <1>4 DEF BirthInv
  <2>3. e.born \in Nat /\ e.timestamp_ns \in Nat
    BY <1>1 DEF RawEvent
  <2>. QED
    BY <1>2, <2>1, <2>2, <2>3
<1>5. Newest(e.tgid, e.born)
  BY <1>3, <1>4 DEF Newest
<1>6. e.tgid \in Pids /\ e.born \in Nat
  BY <1>1 DEF RawEvent
<1>7. /\ e.tgid \in DOMAIN current_processes
      /\ NamedAs(current_processes[e.tgid].lifetime, e.tgid, e.born)
  BY <1>1, <1>5, <1>6 DEF LifeInv
<1>. QED
  BY <1>5, <1>7 DEF current_process

\* process_event only adds results, all of its own event.
LEMMA ReportedStep ==
  ASSUME IsSeq(events), NEW e, process_event(e)
  PROVE  /\ Reported \subseteq Reported'
         /\ \A x \in Reported' : x \in Reported \/ Result(e, x)
         /\ e.kind = "fork" => \E x \in Reported' : Result(e, x)
<1>1. Added(events, events', e)
  BY ResultsAdded
<1>2. Reported \subseteq Reported'
  BY <1>1 DEF Added, Reported
<1>3. \A x \in Reported' : x \in Reported \/ Result(e, x)
  BY <1>1 DEF Added, Reported
<1>4. ASSUME e.kind = "fork"
      PROVE  \E x \in Reported' : Result(e, x)
  <2>1. PICK i \in DOMAIN events' \ DOMAIN events : Result(e, events'[i])
    BY <1>1, <1>4 DEF Added
  <2>. QED
    BY <2>1 DEF Result, Reported
<1>. QED
  BY <1>2, <1>3, <1>4

\* A rename waits from before, or its source has just been taken.
LEMMA PendingStep ==
  ASSUME NEW e, process_event(e), NEW k \in DOMAIN pending_renames'
  PROVE  \/ k \in DOMAIN pending_renames /\ pending_renames'[k] = pending_renames[k]
         \/ /\ e.kind = "rename_source" /\ k = <<e.pid, e.timestamp_ns>>
            /\ pending_renames'[k].process = current_process(e.tgid)
<1>. DEFINE Goal ==
       \/ k \in DOMAIN pending_renames /\ pending_renames'[k] = pending_renames[k]
       \/ /\ e.kind = "rename_source" /\ k = <<e.pid, e.timestamp_ns>>
          /\ pending_renames'[k].process = current_process(e.tgid)
<1>1. CASE ProcessRenameSource(e)
  BY <1>1 DEF ProcessRenameSource, Put
<1>2. CASE ProcessRenameDestination(e) \/ RejectRenameDestination(e)
  BY <1>2 DEF ProcessRenameDestination, RejectRenameDestination, Delete, Restrict
<1>3. ASSUME UNCHANGED pending_renames
      PROVE  Goal
  BY <1>3
<1>. QED
  BY <1>1, <1>2, <1>3
  DEF process_event, ProcessOpen, ProcessClose, ProcessMmap, ProcessUnlink,
      SwallowRootExec, ProcessExec, ProcessFork, ProcessExit, tableVars

\* Every process that is known has been started, and the other way around;
\* who was not known starts with the first generation.
LEMMA GenerationsStep ==
  ASSUME TypeInv, NEW e \in todo, process_event(e),
         DOMAIN current_processes = DOMAIN next_generations
  PROVE  /\ DOMAIN current_processes' = DOMAIN next_generations'
         /\ \A p \in Pids :
              \/ next_generation(p)' = next_generation(p)
              \/ next_generation(p) = 0 /\ next_generation(p)' <= 1
              \/ /\ e.kind = "fork" /\ p = e.payload.child
                 /\ next_generation(p)' = saturating_add(next_generation(p))
<1>. DEFINE Goal ==
         /\ DOMAIN current_processes' = DOMAIN next_generations'
         /\ \A p \in Pids :
              \/ next_generation(p)' = next_generation(p)
              \/ next_generation(p) = 0 /\ next_generation(p)' <= 1
              \/ /\ e.kind = "fork" /\ p = e.payload.child
                 /\ next_generation(p)' = saturating_add(next_generation(p))
<1>0. \A g : saturating_add(0) <= 1
  BY CollectorConstantsOK DEF saturating_add
<1>1. ASSUME NEW v, current_processes' = Put(current_processes, e.tgid, v),
             next_generations' = GenerationsWith(e.tgid)
      PROVE  Goal
  <2>1. CASE e.tgid \in DOMAIN current_processes
    BY <1>1, <2>1 DEF Put, GenerationsWith, next_generation
  <2>2. CASE e.tgid \notin DOMAIN current_processes
    <3>1. next_generation(e.tgid) = 0
      BY <2>2 DEF next_generation
    <3>2. next_generations' = Put(next_generations, e.tgid, saturating_add(0))
      BY <1>1, <2>2, <3>1 DEF GenerationsWith
    <3>3. DOMAIN current_processes' = DOMAIN next_generations'
      BY <1>1, <3>2 DEF Put
    <3>4. next_generation(e.tgid)' <= 1
      BY <1>0, <3>2 DEF Put, next_generation
    <3>5. \A p \in Pids \ {e.tgid} : next_generation(p)' = next_generation(p)
      BY <3>2 DEF Put, next_generation
    <3>. QED
      BY <3>1, <3>3, <3>4, <3>5
  <2>. QED
    BY <2>1, <2>2
<1>2. ASSUME UNCHANGED <<current_processes, next_generations>>
      PROVE  Goal
  BY <1>2 DEF next_generation
<1>3. CASE ProcessFork(e)
  <2>. DEFINE c == e.payload.child
              g == saturating_add(next_generation(c))
  <2>1. /\ current_processes' =
             Put(Put(current_processes, e.tgid, current_process(e.tgid)), c, new_process(c))
        /\ next_generations' = Put(GenerationsWith(e.tgid), c, g) /\ e.kind = "fork"
    BY <1>3 DEF ProcessFork
  <2>2. /\ DOMAIN GenerationsWith(e.tgid) = DOMAIN next_generations \cup {e.tgid}
        /\ \A p \in DOMAIN next_generations : GenerationsWith(e.tgid)[p] = next_generations[p]
        /\ e.tgid \notin DOMAIN next_generations =>
             GenerationsWith(e.tgid)[e.tgid] = saturating_add(0)
    BY DEF GenerationsWith, Put, next_generation
  <2>. HIDE DEF g, c
  <2>3. DOMAIN current_processes' = DOMAIN next_generations'
    BY <2>1, <2>2 DEF Put
  <2>4. next_generation(c)' = g
    BY <2>1 DEF Put, next_generation
  <2>5. ASSUME NEW p \in Pids, p # c
        PROVE  \/ next_generation(p)' = next_generation(p)
               \/ next_generation(p) = 0 /\ next_generation(p)' <= 1
    BY <1>0, <2>1, <2>2, <2>5 DEF Put, next_generation
  <2>. QED
    BY <2>1, <2>3, <2>4, <2>5 DEF g, c
<1>. QED
  BY <1>1, <1>2, <1>3
  DEF process_event, ProcessOpen, ProcessClose, ProcessMmap, ProcessUnlink,
      ProcessRenameSource, ProcessRenameDestination, RejectRenameDestination,
      SwallowRootExec, ProcessExec, ProcessExit, KnowProcess, processVars

\* What a taken event does to the sets LifeInv speaks of.
LEMMA DoneStep ==
  ASSUME TypeInv, NEW e \in todo, process_event(e)
  PROVE  /\ phase = "process" /\ phase' = "process" /\ Take(e) /\ RawEvent(e)
         /\ Done = raw_events \ todo /\ Done' = Done \cup {e}
         /\ e \notin Done /\ e \in raw_events
         /\ Forks(Done) \subseteq Forks(Emitted)
         /\ Forks(Done') = IF e.kind = "fork" THEN Forks(Done) \cup {e} ELSE Forks(Done)
<1>1. Take(e) /\ e \in raw_events /\ todo \subseteq raw_events /\ RawEvent(e)
  BY Taken DEF TypeInv, TableInv, TypeOK, EventsInv, Emitted
<1>2. /\ phase = "process" /\ phase' = "process"
      /\ todo' = todo \ {e} /\ raw_events' = raw_events
  BY <1>1 DEF Take
<1>3. Done = raw_events \ todo /\ Done' = raw_events \ (todo \ {e})
  BY <1>2 DEF Done
<1>. QED
  BY <1>1, <1>2, <1>3 DEF Forks, Emitted

\* An event that is no fork: nothing new is announced, and a result of the
\* tree names a process as it was named before.
LEMMA SameNames ==
  ASSUME TypeInv, SeenInv, BirthInv, ExitInv, LifeInv, NEW e \in todo, process_event(e),
         e.kind # "fork"
  PROVE  /\ \A p, b : Announced(p, b)' <=> Announced(p, b)
         /\ \A p, b : Newest(p, b)' <=> Newest(p, b)
         /\ \A l, p, b : NamedAs(l, p, b)' <=> NamedAs(l, p, b)
<1>1. Take(e) /\ Forks(Done') = Forks(Done) /\ e \in Emitted
  BY DoneStep DEF Emitted
<1>2. /\ \A p, b : Announced(p, b)' <=> Announced(p, b)
      /\ \A p, b : Newest(p, b)' <=> Newest(p, b)
  BY <1>1 DEF Announced, Newest, Forks, Done
<1>3. /\ Reported \subseteq Reported'
      /\ \A x \in Reported' : x \in Reported \/ Result(e, x)
  BY ReportedStep DEF ExitInv
<1>4. ASSUME NEW x, Result(e, x), x.of.source = "tree"
      PROVE  NamedAs(x.process.lifetime, x.of.tgid, x.of.born) /\ x.kind # "fork"
  <2>1. x.of = e /\ x.process = Attributed(e) /\ e.source = "tree" /\ x.kind # "fork"
    BY <1>4 DEF Result
  <2>2. CASE e.kind = "rename_destination"
    <3>. DEFINE k == <<e.pid, e.timestamp_ns>>
    <3>1. k \in DOMAIN pending_renames /\ x.process = pending_renames[k].process
      BY <1>4, <2>1, <2>2 DEF Result, Attributed
    <3>2. PICK r \in Done : /\ r.pid = k[1] /\ r.timestamp_ns = k[2]
                            /\ r.source = "tree" =>
                                 NamedAs(pending_renames[k].process.lifetime, r.tgid, r.born)
      BY <3>1 DEF LifeInv
    <3>3. r \in Emitted
      BY DoneStep DEF Emitted
    <3>4. r.tgid = e.tgid /\ r.born = e.born /\ r.source = e.source
      BY <1>1, <3>2, <3>3 DEF SeenInv
    <3>. QED
      BY <2>1, <3>1, <3>2, <3>4
  <2>3. CASE e.kind = "exec"
    <3>1. x.process.lifetime = current_process(e.tgid).lifetime
      BY <2>1, <2>3 DEF Attributed, next_epoch
    <3>. QED
      BY <1>1, <2>1, <3>1, TakenIsNewest
  <2>4. CASE e.kind \notin {"rename_destination", "exec"}
    <3>1. x.process = current_process(e.tgid)
      BY <2>1, <2>4 DEF Attributed
    <3>. QED
      BY <1>1, <2>1, <3>1, TakenIsNewest
  <2>. QED
    BY <2>2, <2>3, <2>4
<1>5. ASSUME NEW l, NEW p, NEW b
      PROVE  NamedAs(l, p, b)' <=> NamedAs(l, p, b)
  <2>1. NamedAs(l, p, b) => NamedAs(l, p, b)'
    BY <1>3 DEF NamedAs, root_process, Process, Lifetime
  <2>2. ASSUME NamedAs(l, p, b)'
        PROVE  NamedAs(l, p, b)
    <3>1. CASE l = root_process.lifetime /\ p = Root /\ b = 1
      BY <3>1 DEF NamedAs
    <3>2. ASSUME NEW x \in Reported', x.of.source = "tree",
                 \/ x.process.lifetime = l /\ x.of.tgid = p /\ x.of.born = b
                 \/ /\ x.kind = "fork" /\ x.child.lifetime = l
                    /\ x.of.payload.child = p /\ x.of.payload.born = b
          PROVE  NamedAs(l, p, b)
      <4>1. CASE x \in Reported
        BY <3>2, <4>1 DEF NamedAs
      <4>2. CASE Result(e, x)
        BY <1>4, <3>2, <4>2
      <4>. QED
        BY <1>3, <4>1, <4>2
    <3>. QED
      BY <2>2, <3>1, <3>2 DEF NamedAs, root_process, Process, Lifetime
  <2>. QED
    BY <2>1, <2>2
<1>. QED
  BY <1>2, <1>5

\* A fork: exactly its child is announced and named anew.
LEMMA ChildNamed ==
  ASSUME TypeInv, SeenInv, BirthInv, ExitInv, LifeInv, NEW e \in todo, process_event(e),
         e.kind = "fork"
  PROVE  LET c == e.payload.child
             n == e.payload.born
             new == new_process(c).lifetime
         IN  /\ \A p, b : Announced(p, b)' <=> Announced(p, b) \/ (p = c /\ b = n)
             /\ ~Announced(c, n)
             /\ \A l, p, b :
                  NamedAs(l, p, b)' <=> NamedAs(l, p, b) \/ (l = new /\ p = c /\ b = n)
<1>. DEFINE c == e.payload.child
            n == e.payload.born
            new == new_process(c).lifetime
<1>1. /\ Take(e) /\ Forks(Done') = Forks(Done) \cup {e} /\ e \in Forks(Emitted)
      /\ e \notin Forks(Done) /\ Forks(Done) \subseteq Forks(Emitted) /\ RawEvent(e)
  BY DoneStep DEF Emitted, Forks
<1>2. c \in Pids \ {Root} /\ e.source = "tree"
  BY <1>1 DEF RawEvent, BirthInv
<1>3. \A p, b : Announced(p, b)' <=> Announced(p, b) \/ (p = c /\ b = n)
  <2>1. \A p, b : Announced(p, b)' <=> \/ p = Root /\ b = 1
                                       \/ \E f \in Forks(Done') : ForkOf(f, p, b)
    BY DEF Announced, Forks, Done, ForkOf
  <2>. QED
    BY <1>1, <2>1 DEF Announced, ForkOf
<1>4. ~Announced(c, n)
  BY <1>1, <1>2 DEF Announced, ForkOf, BirthInv
<1>5. /\ Reported \subseteq Reported'
      /\ \A x \in Reported' : x \in Reported \/ Result(e, x)
      /\ \E x \in Reported' : Result(e, x)
  BY ReportedStep DEF ExitInv
<1>6. ASSUME NEW x, Result(e, x)
      PROVE  /\ x.of = e /\ x.kind = "fork" /\ x.child.lifetime = new
             /\ NamedAs(x.process.lifetime, x.of.tgid, x.of.born)
  <2>1. x.of = e /\ x.process = current_process(e.tgid) /\ x.kind = "fork"
        /\ x.child = new_process(c)
    BY <1>6 DEF Result, Attributed
  <2>. QED
    BY <1>1, <1>2, <2>1, TakenIsNewest
<1>7. ASSUME NEW l, NEW p, NEW b
      PROVE  NamedAs(l, p, b)' <=> NamedAs(l, p, b) \/ (l = new /\ p = c /\ b = n)
  <2>. HIDE DEF new
  <2>0. NamedAs(l, p, b)' <=>
          \/ l = root_process.lifetime /\ p = Root /\ b = 1
          \/ \E x \in Reported' :
               /\ x.of.source = "tree"
               /\ \/ x.process.lifetime = l /\ x.of.tgid = p /\ x.of.born = b
                  \/ /\ x.kind = "fork" /\ x.child.lifetime = l
                     /\ x.of.payload.child = p /\ x.of.payload.born = b
    BY DEF NamedAs, root_process, Process, Lifetime
  <2>1. NamedAs(l, p, b) => NamedAs(l, p, b)'
    BY <1>5, <2>0 DEF NamedAs
  <2>2. l = new /\ p = c /\ b = n => NamedAs(l, p, b)'
    <3>1. PICK x \in Reported' : Result(e, x)
      BY <1>5
    <3>. QED
      BY <1>2, <1>6, <2>0, <3>1
  <2>3. ASSUME NEW x \in Reported', x.of.source = "tree",
               \/ x.process.lifetime = l /\ x.of.tgid = p /\ x.of.born = b
               \/ /\ x.kind = "fork" /\ x.child.lifetime = l
                  /\ x.of.payload.child = p /\ x.of.payload.born = b
        PROVE  NamedAs(l, p, b) \/ (l = new /\ p = c /\ b = n)
    <3>1. CASE x \in Reported
      BY <2>3, <3>1 DEF NamedAs
    <3>2. CASE Result(e, x)
      BY <1>6, <2>3, <3>2
    <3>. QED
      BY <1>5, <3>1, <3>2
  <2>4. NamedAs(l, p, b)' => NamedAs(l, p, b) \/ (l = new /\ p = c /\ b = n)
    BY <2>0, <2>3 DEF NamedAs
  <2>. QED
    BY <2>1, <2>2, <2>4
<1>. QED
  BY <1>3, <1>4, <1>7

\* The counter of a PID is bounded by the timestamp of its last fork, so it
\* never saturates.
LEMMA NotSaturated ==
  ASSUME TypeInv, SeenInv, LifeInv, Wide, NEW p \in Pids
  PROVE  next_generation(p) \in Nat /\ next_generation(p) < MaxGeneration
<1>1. next_generation(p) \in Nat
  BY KnownTyped, CollectorConstantsOK DEF TypeInv
<1>2. MaxTime \in Nat /\ MaxGeneration \in Nat
  BY WorldConstantsOK, CollectorConstantsOK
<1>3. ASSUME NEW f \in Forks(Done), next_generation(p) <= f.timestamp_ns + 1
      PROVE  next_generation(p) < MaxGeneration
  <2>1. f \in Emitted
    BY DEF Forks, Done, Emitted
  <2>2. f.timestamp_ns \in 1 .. MaxTime
    BY <2>1 DEF SeenInv
  <2>. QED
    BY <1>1, <1>2, <1>3, <2>2 DEF Wide
<1>. QED
  BY <1>1, <1>2, <1>3 DEF LifeInv, Wide

\* process_event keeps LifeInv.
LEMMA LifeProcessed ==
  ASSUME TypeInv, SeenInv, BirthInv, ExitInv, LifeInv, Wide, NEW e \in todo,
         process_event(e)
  PROVE  LifeInv'
<1>. DEFINE c == e.payload.child
            n == e.payload.born
            new == new_process(c).lifetime
<1>1. /\ phase = "process" /\ phase' = "process" /\ Take(e) /\ RawEvent(e)
      /\ Done = raw_events \ todo /\ Done' = Done \cup {e}
      /\ e \notin Done /\ e \in raw_events
      /\ Forks(Done) \subseteq Forks(Emitted)
      /\ Forks(Done') = IF e.kind = "fork" THEN Forks(Done) \cup {e} ELSE Forks(Done)
  BY DoneStep
<1>2. /\ todo' = todo \ {e} /\ \A d \in todo : e.timestamp_ns <= d.timestamp_ns
      /\ e.timestamp_ns \in Nat /\ e.tgid \in Pids
      /\ e \in Emitted /\ e.timestamp_ns \in 1 .. MaxTime
  BY <1>1 DEF Take, RawEvent, Emitted, SeenInv
<1>3. ASSUME e.kind = "fork"
      PROVE  /\ c \in Pids \ {Root} /\ n \in Nat /\ c # e.tgid /\ e \in Forks(Emitted)
             /\ next_generation(c) \in Nat
             /\ next_generation(c)' = next_generation(c) + 1
             /\ new.pid = c /\ new.generation = next_generation(c)
             /\ c \in DOMAIN current_processes' /\ current_processes'[c].lifetime = new
  <2>1. c \in Pids \ {Root} /\ n \in Nat /\ e \in Forks(Emitted) /\ c # e.tgid
    BY <1>1, <1>2, <1>3 DEF RawEvent, Forks, BirthInv
  <2>2. next_generation(c) \in Nat /\ next_generation(c) < MaxGeneration
    BY <2>1, NotSaturated
  <2>3. ProcessFork(e)
    BY <1>3 DEF process_event, ProcessOpen, ProcessClose, ProcessMmap, ProcessUnlink,
                ProcessRenameSource, ProcessRenameDestination, RejectRenameDestination,
                SwallowRootExec, ProcessExec, ProcessExit
  <2>4. /\ current_processes' =
             Put(Put(current_processes, e.tgid, current_process(e.tgid)), c, new_process(c))
        /\ next_generations' =
             Put(GenerationsWith(e.tgid), c, saturating_add(next_generation(c)))
    BY <2>3 DEF ProcessFork
  <2>5. next_generation(c)' = saturating_add(next_generation(c))
    BY <2>4 DEF Put, next_generation
  <2>6. saturating_add(next_generation(c)) = next_generation(c) + 1
    BY <2>2, CollectorConstantsOK DEF saturating_add
  <2>7. new.pid = c /\ new.generation = next_generation(c)
    BY DEF new_process, Process, Lifetime
  <2>8. c \in DOMAIN current_processes' /\ current_processes'[c] = new_process(c)
    BY <2>4 DEF Put
  <2>. QED
    BY <2>1, <2>2, <2>5, <2>6, <2>7, <2>8
<1>4. \A p, b : Announced(p, b)' <=> Announced(p, b) \/ (e.kind = "fork" /\ p = c /\ b = n)
  <2>1. CASE e.kind = "fork"
    BY <2>1, ChildNamed
  <2>2. CASE e.kind # "fork"
    BY <2>2, SameNames
  <2>. QED
    BY <2>1, <2>2
<1>5. \A l, p, b :
        NamedAs(l, p, b)' <=> \/ NamedAs(l, p, b)
                              \/ e.kind = "fork" /\ l = new /\ p = c /\ b = n
  <2>1. CASE e.kind = "fork"
    BY <2>1, ChildNamed
  <2>2. CASE e.kind # "fork"
    BY <2>2, SameNames
  <2>. QED
    BY <2>1, <2>2
<1>6. e.kind = "fork" => ~Announced(c, n)
  BY ChildNamed
<1>. HIDE DEF c, n, new
<1>7. /\ DOMAIN current_processes' = DOMAIN next_generations'
      /\ \A p \in Pids :
           \/ next_generation(p)' = next_generation(p)
           \/ next_generation(p) = 0 /\ next_generation(p)' <= 1
           \/ e.kind = "fork" /\ p = c
  BY <1>1, GenerationsStep DEF LifeInv, c
<1>8. \A p \in Pids : /\ next_generation(p) \in Nat /\ next_generation(p)' \in Nat
                      /\ next_generation(p)' >= next_generation(p)
  <2>. SUFFICES ASSUME NEW p \in Pids
                PROVE  /\ next_generation(p) \in Nat /\ next_generation(p)' \in Nat
                       /\ next_generation(p)' >= next_generation(p)
    OBVIOUS
  <2>1. next_generation(p) \in Nat /\ next_generation(p)' \in Nat
    <3>1. TableInv /\ TableInv'
      BY TableStep, <1>1 DEF TypeInv, Next, CollectorNext
    <3>2. next_generation(p)' \in 0 .. MaxGeneration
      BY <3>1, CollectorConstantsOK DEF next_generation, TableInv, TypeOK
    <3>. QED
      BY <3>1, <3>2, KnownTyped, CollectorConstantsOK
  <2>. QED
    BY <1>3, <1>7, <2>1
<1>9. \A d \in Done', x \in todo' : d.timestamp_ns <= x.timestamp_ns
  BY <1>1, <1>2 DEF LifeInv
<1>10. \A l, p, b : NamedAs(l, p, b)' =>
         /\ Announced(p, b)'
         /\ l.pid = p /\ l.generation \in Nat /\ l.generation < next_generation(p)'
  <2>. SUFFICES ASSUME NEW l, NEW p, NEW b, NamedAs(l, p, b)'
                PROVE  /\ Announced(p, b)'
                       /\ l.pid = p /\ l.generation \in Nat
                       /\ l.generation < next_generation(p)'
    OBVIOUS
  <2>1. CASE NamedAs(l, p, b)
    <3>1. /\ Announced(p, b) /\ l.pid = p /\ l.generation \in Nat
          /\ l.generation < next_generation(p)
      BY <2>1 DEF LifeInv
    <3>2. p \in Pids
      BY <1>1, <3>1, WorldConstantsOK
      DEF Announced, ForkOf, Forks, Emitted, TypeInv, EventsInv, RawEvent
    <3>. QED
      BY <1>4, <1>8, <3>1, <3>2
  <2>2. CASE e.kind = "fork" /\ l = new /\ p = c /\ b = n
    BY <1>3, <1>4, <2>2
  <2>. QED
    BY <1>5, <2>1, <2>2
<1>11. \A l, m, p, q, a, b : NamedAs(l, p, a)' /\ NamedAs(m, q, b)' =>
         (l = m <=> p = q /\ a = b)
  <2>1. ASSUME NEW l, NEW p, NEW b, NamedAs(l, p, b), e.kind = "fork"
        PROVE  l # new /\ ~(p = c /\ b = n)
    <3>1. /\ Announced(p, b) /\ l.pid = p /\ l.generation \in Nat
          /\ l.generation < next_generation(p)
      BY <2>1 DEF LifeInv
    <3>. QED
      BY <1>3, <1>6, <2>1, <3>1
  <2>. QED
    BY <1>5, <2>1 DEF LifeInv
<1>12. ASSUME NEW p \in Pids, NEW b \in Nat, Newest(p, b)'
       PROVE  /\ p \in DOMAIN current_processes'
              /\ NamedAs(current_processes[p].lifetime, p, b)'
  <2>1. /\ Announced(p, b)'
        /\ \A f \in Forks(Done') : f.payload.child = p => f.payload.born <= b
    BY <1>12 DEF Newest, Forks, Done
  <2>2. CASE e.kind = "fork" /\ p = c
    <3>1. n <= b
      BY <1>1, <2>1, <2>2 DEF c, n
    <3>2. ASSUME b # n
          PROVE  FALSE
      <4>1. Announced(p, b) /\ p # Root
        BY <1>3, <1>4, <2>1, <2>2, <3>2
      <4>2. PICK f \in Forks(Done) : ForkOf(f, p, b)
        BY <4>1 DEF Announced
      <4>3. f \in Forks(Emitted) /\ f \in Done
        BY <1>1 DEF Forks
      <4>4. f.timestamp_ns <= e.timestamp_ns /\ f.timestamp_ns \in Nat
        BY <4>3 DEF LifeInv, Forks, TypeInv, EventsInv, RawEvent
      <4>5. n < b
        BY <1>3, <2>2, <3>1, <3>2
      <4>6. e.timestamp_ns < f.timestamp_ns
        BY <1>3, <2>2, <4>2, <4>3, <4>5 DEF BirthInv, ForkOf, c, n
      <4>. QED
        BY <1>2, <4>4, <4>6
    <3>3. PICK l : l = current_processes'[p].lifetime
      OBVIOUS
    <3>4. l = new /\ p \in DOMAIN current_processes'
      BY <1>3, <2>2, <3>3
    <3>5. NamedAs(l, p, b)'
      BY <1>5, <2>2, <3>2, <3>4
    <3>. QED
      BY <3>3, <3>4, <3>5 DEF NamedAs
  <2>3. CASE ~(e.kind = "fork" /\ p = c)
    <3>1. Newest(p, b)
      BY <1>1, <1>4, <2>1, <2>3 DEF Newest
    <3>2. p \in DOMAIN current_processes /\ NamedAs(current_processes[p].lifetime, p, b)
      BY <1>1, <3>1 DEF LifeInv
    <3>3. /\ p \in DOMAIN current_processes'
          /\ current_processes'[p].lifetime = current_processes[p].lifetime
      BY <2>3, <3>2, LifetimeKept DEF c
    <3>4. PICK l : l = current_processes[p].lifetime
      OBVIOUS
    <3>5. l = current_processes'[p].lifetime
      BY <3>3, <3>4
    <3>6. NamedAs(l, p, b)'
      BY <1>5, <3>2, <3>4
    <3>. QED
      BY <3>3, <3>5, <3>6 DEF NamedAs
  <2>. QED
    BY <2>2, <2>3
<1>13. \A p \in Pids :
         \/ next_generation(p)' <= 1
         \/ \E f \in Forks(Done') : /\ f.payload.child = p
                                    /\ next_generation(p)' <= f.timestamp_ns + 1
  <2>. SUFFICES ASSUME NEW p \in Pids
                PROVE  \/ next_generation(p)' <= 1
                       \/ \E f \in Forks(Done') :
                            /\ f.payload.child = p
                            /\ next_generation(p)' <= f.timestamp_ns + 1
    OBVIOUS
  <2>1. CASE e.kind = "fork" /\ p = c
    <3>1. e \in Forks(Done') /\ e.payload.child = p
      BY <1>1, <2>1 DEF c
    <3>2. next_generation(p)' = next_generation(p) + 1 /\ next_generation(p) \in Nat
      BY <1>3, <2>1
    <3>3. ASSUME NEW f \in Forks(Done), f.payload.child = p,
                 next_generation(p) <= f.timestamp_ns + 1
          PROVE  next_generation(p) <= e.timestamp_ns
      <4>1. /\ f \in Forks(Emitted) /\ f \in Done /\ f # e
            /\ f.timestamp_ns \in Nat /\ f.payload.born \in Nat
        BY <1>1 DEF Forks, TypeInv, EventsInv, RawEvent
      <4>2. f.timestamp_ns <= e.timestamp_ns
        BY <4>1 DEF LifeInv
      <4>3. f.timestamp_ns < e.timestamp_ns
        <5>1. f.payload.born # e.payload.born
          BY <1>3, <2>1, <3>3, <4>1 DEF BirthInv, c
        <5>2. e.payload.born < f.payload.born => e.timestamp_ns < f.timestamp_ns
          BY <1>3, <2>1, <3>3, <4>1 DEF BirthInv, c
        <5>3. f.payload.born < e.payload.born => f.timestamp_ns < e.timestamp_ns
          BY <1>3, <2>1, <3>3, <4>1 DEF BirthInv, c
        <5>4. e.payload.born \in Nat
          BY <1>3, <2>1 DEF n
        <5>. QED
          BY <1>2, <4>1, <4>2, <5>1, <5>2, <5>3, <5>4
      <4>. QED
        BY <1>2, <3>2, <3>3, <4>1, <4>3
    <3>4. next_generation(p) <= e.timestamp_ns
      BY <1>2, <3>2, <3>3 DEF LifeInv
    <3>. QED
      BY <1>2, <3>1, <3>2, <3>4
  <2>2. CASE ~(e.kind = "fork" /\ p = c)
    <3>1. \/ next_generation(p)' = next_generation(p)
          \/ next_generation(p)' <= 1
      BY <1>7, <2>2
    <3>2. \/ next_generation(p) <= 1
          \/ \E f \in Forks(Done) : /\ f.payload.child = p
                                    /\ next_generation(p) <= f.timestamp_ns + 1
      BY DEF LifeInv
    <3>3. Forks(Done) \subseteq Forks(Done')
      BY <1>1
    <3>. QED
      BY <3>1, <3>2, <3>3
  <2>. QED
    BY <2>1, <2>2
<1>14. ASSUME NEW k \in DOMAIN pending_renames'
       PROVE  \E r \in Done' :
                /\ r.pid = k[1] /\ r.timestamp_ns = k[2]
                /\ r.source = "tree" =>
                     NamedAs(pending_renames[k].process.lifetime, r.tgid, r.born)'
  <2>. PICK l : l = pending_renames'[k].process.lifetime
    OBVIOUS
  <2>1. CASE k \in DOMAIN pending_renames /\ pending_renames'[k] = pending_renames[k]
    <3>1. PICK r \in Done : /\ r.pid = k[1] /\ r.timestamp_ns = k[2]
                            /\ r.source = "tree" => NamedAs(l, r.tgid, r.born)
      BY <2>1 DEF LifeInv
    <3>2. r.source = "tree" => NamedAs(l, r.tgid, r.born)'
      BY <1>5, <3>1
    <3>. QED
      BY <1>1, <3>1, <3>2 DEF NamedAs
  <2>2. CASE /\ e.kind = "rename_source" /\ k = <<e.pid, e.timestamp_ns>>
             /\ pending_renames'[k].process = current_process(e.tgid)
    <3>1. e.source = "tree" => NamedAs(l, e.tgid, e.born)
      BY <1>1, <2>2, TakenIsNewest
    <3>2. e \in Done' /\ e.pid = k[1] /\ e.timestamp_ns = k[2]
      BY <1>1, <2>2
    <3>3. e.source = "tree" => NamedAs(l, e.tgid, e.born)'
      BY <1>5, <3>1
    <3>. QED
      BY <3>2, <3>3 DEF NamedAs
  <2>. QED
    BY <2>1, <2>2, PendingStep
<1>15. \A p \in Pids :
         (\/ next_generation(p) <= 1
          \/ \E f \in Forks(Done) : /\ f.payload.child = p
                                    /\ next_generation(p) <= f.timestamp_ns + 1)'
  BY <1>13 DEF Forks, Done
<1>. QED
  BY <1>1, <1>7, <1>9, <1>10, <1>11, <1>12, <1>14, <1>15 DEF LifeInv

\* The end of the trace adds no result of an event, and changes at most the
\* exit code of one.
LEMMA FinishReports ==
  ASSUME ExitInv, Finish, NEW x \in Reported'
  PROVE  \E y \in Reported : /\ x.kind = y.kind /\ x.process = y.process /\ x.of = y.of
                             /\ x.kind # "exit" => x = y
<1>. DEFINE r == SetExitCode(events)
            h == [kind |-> "exec", process |-> root_process]
<1>1. phase = "process" /\ events' = <<h>> \o r
  BY DEF Finish, Cons
<1>2. /\ IsSeq(r)
      /\ \A j \in DOMAIN r :
           \/ j \in DOMAIN events /\ r[j] = events[j]
           \/ /\ j \in DOMAIN events /\ events[j].kind = "exit"
              /\ r[j] = [events[j] EXCEPT !.exit_code = code]
           \/ "of" \notin DOMAIN r[j]
  BY <1>1, ExitCodeSet
<1>. HIDE DEF r
<1>3. PICK S : r \in Seq(S)
  BY <1>2 DEF IsSeq
<1>4. "of" \notin DOMAIN h
  OBVIOUS
<1>. HIDE DEF h
<1>5. /\ Len(r) \in Nat /\ DOMAIN r = 1 .. Len(r)
      /\ DOMAIN events' = 1 .. Len(r) + 1
      /\ events'[1] = h /\ \A j \in 1 .. Len(r) : events'[j + 1] = r[j]
  <2>1. r \in Seq(S \cup {h}) /\ <<h>> \in Seq(S \cup {h})
    BY <1>3
  <2>. QED
    BY <1>1, <2>1
<1>6. PICK i \in DOMAIN events' : x = events'[i] /\ "of" \in DOMAIN x
  BY DEF Reported
<1>7. i - 1 \in DOMAIN r /\ x = r[i - 1]
  BY <1>4, <1>5, <1>6
<1>8. CASE i - 1 \in DOMAIN events /\ x = events[i - 1]
  BY <1>6, <1>8 DEF Reported
<1>9. CASE /\ i - 1 \in DOMAIN events /\ events[i - 1].kind = "exit"
           /\ x = [events[i - 1] EXCEPT !.exit_code = code]
  <2>1. /\ x.kind = events[i - 1].kind /\ x.process = events[i - 1].process
        /\ x.of = events[i - 1].of /\ "of" \in DOMAIN events[i - 1]
    BY <1>6, <1>9
  <2>. QED
    BY <1>9, <2>1 DEF Reported
<1>. QED
  BY <1>2, <1>6, <1>7, <1>8, <1>9

\* The steps that leave the results and the tables alone.
LEMMA LifeSame ==
  ASSUME LifeInv, UNCHANGED <<events, current_processes, next_generations, pending_renames>>,
         Done' = Done, phase' # "done" => phase # "done", Done = {} \/ UNCHANGED todo
  PROVE  LifeInv'
<1>1. Forks(Done)' = Forks(Done)
  BY DEF Forks
<1>2. \A p, b : Announced(p, b)' <=> Announced(p, b)
  BY <1>1 DEF Announced
<1>3. \A p, b : Newest(p, b)' <=> Newest(p, b)
  BY <1>1, <1>2 DEF Newest
<1>4. Reported' = Reported /\ root_process' = root_process
  BY DEF Reported, root_process
<1>5. \A l, p, b : NamedAs(l, p, b)' <=> NamedAs(l, p, b)
  BY <1>4 DEF NamedAs
<1>6. \A p : next_generation(p)' = next_generation(p)
  BY DEF next_generation
<1>7. (\A l, p, b : NamedAs(l, p, b) =>
         /\ Announced(p, b)
         /\ l.pid = p /\ l.generation \in Nat /\ l.generation < next_generation(p))'
  BY <1>2, <1>5, <1>6 DEF LifeInv
<1>8. (\A l, m, p, q, b, c : NamedAs(l, p, b) /\ NamedAs(m, q, c) =>
         (l = m <=> p = q /\ b = c))'
  BY <1>5 DEF LifeInv
<1>9. (phase # "done" => \A p \in Pids, b \in Nat : Newest(p, b) =>
         /\ p \in DOMAIN current_processes
         /\ NamedAs(current_processes[p].lifetime, p, b))'
  <2>. SUFFICES ASSUME phase' # "done", NEW p \in Pids, NEW b \in Nat, Newest(p, b)'
                PROVE  /\ p \in DOMAIN current_processes'
                       /\ NamedAs(current_processes[p].lifetime, p, b)'
    OBVIOUS
  <2>1. /\ p \in DOMAIN current_processes
        /\ NamedAs(current_processes[p].lifetime, p, b)
    BY <1>3 DEF LifeInv
  <2>. QED
    BY <1>4, <2>1 DEF NamedAs
<1>10. (\A k \in DOMAIN pending_renames : \E s \in Done :
          /\ s.pid = k[1] /\ s.timestamp_ns = k[2]
          /\ s.source = "tree" =>
               NamedAs(pending_renames[k].process.lifetime, s.tgid, s.born))'
  BY <1>4 DEF LifeInv, NamedAs
<1>11. (\A p \in Pids :
          \/ next_generation(p) <= 1
          \/ \E f \in Forks(Done) : /\ f.payload.child = p
                                    /\ next_generation(p) <= f.timestamp_ns + 1)'
  BY <1>1, <1>6 DEF LifeInv
<1>12. (\A d \in Done, e \in todo : d.timestamp_ns <= e.timestamp_ns)'
  BY DEF LifeInv
<1>. QED
  BY <1>7, <1>8, <1>9, <1>10, <1>11, <1>12 DEF LifeInv

LEMMA LifeFinished ==
  ASSUME ExitInv, LifeInv, Finish
  PROVE  LifeInv'
<1>1. /\ phase' = "done" /\ todo' = {} /\ pending_renames' = <<>>
      /\ UNCHANGED next_generations /\ Done' = Done
  BY DEF Finish, Done
<1>2. \A p, b : Announced(p, b)' <=> Announced(p, b)
  BY <1>1 DEF Announced, Forks
<1>3. \A l, p, b : NamedAs(l, p, b)' => NamedAs(l, p, b)
  <2>. SUFFICES ASSUME NEW l, NEW p, NEW b, NamedAs(l, p, b)'
                PROVE  NamedAs(l, p, b)
    OBVIOUS
  <2>1. CASE l = root_process.lifetime /\ p = Root /\ b = 1
    BY <2>1 DEF NamedAs
  <2>2. ASSUME NEW x \in Reported', x.of.source = "tree",
               \/ x.process.lifetime = l /\ x.of.tgid = p /\ x.of.born = b
               \/ /\ x.kind = "fork" /\ x.child.lifetime = l
                  /\ x.of.payload.child = p /\ x.of.payload.born = b
        PROVE  NamedAs(l, p, b)
    <3>1. PICK y \in Reported : /\ x.kind = y.kind /\ x.process = y.process /\ x.of = y.of
                                /\ x.kind = "fork" => x = y
      BY FinishReports
    <3>. QED
      BY <2>2, <3>1 DEF NamedAs
  <2>3. root_process' = root_process
    BY DEF root_process
  <2>. QED
    BY <2>1, <2>2, <2>3 DEF NamedAs
<1>4. \A p : next_generation(p)' = next_generation(p)
  BY <1>1 DEF next_generation
<1>5. (\A l, p, b : NamedAs(l, p, b) =>
         /\ Announced(p, b)
         /\ l.pid = p /\ l.generation \in Nat /\ l.generation < next_generation(p))'
  BY <1>2, <1>3, <1>4 DEF LifeInv
<1>6. (\A l, m, p, q, b, c : NamedAs(l, p, b) /\ NamedAs(m, q, c) =>
         (l = m <=> p = q /\ b = c))'
  BY <1>3 DEF LifeInv
<1>7. (\A p \in Pids :
         \/ next_generation(p) <= 1
         \/ \E f \in Forks(Done) : /\ f.payload.child = p
                                   /\ next_generation(p) <= f.timestamp_ns + 1)'
  BY <1>1, <1>4 DEF LifeInv, Forks
<1>. QED
  BY <1>1, <1>5, <1>6, <1>7 DEF LifeInv

LEMMA LifeStep ==
  ASSUME TypeInv, SeenInv, BirthInv, ExitInv, LifeInv, Wide, [Next]_vars
  PROVE  LifeInv'
<1>1. CASE Drain \/ WaitPid \/ Quiesced
  <2>1. /\ UNCHANGED <<events, current_processes, next_generations, pending_renames>>
        /\ phase \in {"collect", "quiesce"}
        /\ phase' \in {"collect", "quiesce"} \/ (phase' = "process" /\ todo' = raw_events')
    BY <1>1 DEF Drain, WaitPid, Quiesced, processVars, tableVars
  <2>2. Done = {} /\ Done' = {}
    BY <2>1 DEF Done
  <2>. QED
    BY <2>1, <2>2, LifeSame
<1>2. CASE UNCHANGED collectorVars
  <2>1. UNCHANGED <<phase, raw_events, todo, events, current_processes, next_generations,
                    pending_renames>>
    BY <1>2 DEF collectorVars, bufferVars, processVars, tableVars
  <2>2. Done' = Done
    BY <2>1 DEF Done
  <2>. QED
    BY <2>1, <2>2, LifeSame
<1>. QED
  BY <1>1, <1>2, LifeFinished, LifeProcessed DEF Next, CollectorNext, vars

\* Nothing has been emitted, and the collector knows the root alone.
LEMMA LifeInitially == Init => SeenInv /\ BirthInv /\ ExitInv /\ RootInv /\ LifeInv
<1>. SUFFICES ASSUME Init PROVE SeenInv /\ BirthInv /\ ExitInv /\ RootInv /\ LifeInv
  OBVIOUS
<1>1. /\ Emitted = {} /\ Forks(Emitted) = {} /\ raw_events = {} /\ ring = {}
      /\ Done = {} /\ Forks(Done) = {} /\ todo = {} /\ events = <<>>
      /\ phase = "collect" /\ pending_renames = <<>>
  BY DEF Init, WorldInit, Emitted, Forks, Done
<1>2. /\ Root \in Pids /\ DOMAIN current_processes = {Root}
      /\ current_processes[Root] = root_process
      /\ DOMAIN next_generations = {Root} /\ next_generations[Root] = 1
  BY WorldConstantsOK DEF Init
<1>3. /\ \A t \in Pids : state[t] = "tree" => tg[t] = Root
  BY DEF Init, WorldInit
<1>4. SeenInv
  BY <1>1 DEF SeenInv
<1>5. BirthInv
  BY <1>1, <1>3 DEF BirthInv
<1>6. Reported = {}
  BY <1>1 DEF Reported
<1>7. /\ root_process.lifetime.pid = Root
      /\ root_process.lifetime.generation = 0
  BY DEF root_process, Process, Lifetime
<1>8. \A l, p, b : NamedAs(l, p, b) <=> l = root_process.lifetime /\ p = Root /\ b = 1
  BY <1>6 DEF NamedAs
<1>9. \A p, b : Announced(p, b) <=> p = Root /\ b = 1
  BY <1>1 DEF Announced
<1>10. \A p : next_generation(p) = IF p = Root THEN 1 ELSE 0
  BY <1>2 DEF next_generation
<1>11. LifeInv
  BY <1>1, <1>2, <1>7, <1>8, <1>9, <1>10 DEF LifeInv, Newest
<1>12. ExitResults(events) = {} /\ IsSeq(events)
  BY <1>1 DEF ExitResults, IsSeq
<1>13. ExitInv /\ RootInv
  BY <1>1, <1>2, <1>12 DEF ExitInv, RootExitTruthful, RootInv, RootExits
<1>. QED
  BY <1>4, <1>5, <1>11, <1>13

LEMMA LifeTold == LifeInv => LifetimesTold
<1>. SUFFICES ASSUME LifeInv PROVE LifetimesTold
  OBVIOUS
<1>. DEFINE tree == {x \in Reported : x.of.source = "tree"}
            named == {<<x.process.lifetime, Instance(x.of)>> : x \in tree} \cup
               {<<x.child.lifetime, <<x.of.payload.child, x.of.payload.born>> >> :
                  x \in {y \in tree : y.kind = "fork"}}
<1>1. ASSUME NEW a \in named
      PROVE  \E p, b : a[2] = <<p, b>> /\ NamedAs(a[1], p, b)
  <2>1. CASE \E x \in tree : a = <<x.process.lifetime, Instance(x.of)>>
    <3>1. PICK x \in tree : a = <<x.process.lifetime, Instance(x.of)>>
      BY <2>1
    <3>2. a[2] = <<x.of.tgid, x.of.born>> /\ NamedAs(a[1], x.of.tgid, x.of.born)
      BY <3>1 DEF NamedAs, Instance
    <3>. QED
      BY <3>2
  <2>2. CASE \E x \in {y \in tree : y.kind = "fork"} :
               a = <<x.child.lifetime, <<x.of.payload.child, x.of.payload.born>> >>
    <3>1. PICK x \in {y \in tree : y.kind = "fork"} :
            a = <<x.child.lifetime, <<x.of.payload.child, x.of.payload.born>> >>
      BY <2>2
    <3>2. /\ a[2] = <<x.of.payload.child, x.of.payload.born>>
          /\ NamedAs(a[1], x.of.payload.child, x.of.payload.born)
      BY <3>1 DEF NamedAs
    <3>. QED
      BY <3>2
  <2>. QED
    BY <2>1, <2>2
<1>2. ASSUME NEW a \in named, NEW c \in named
      PROVE  a[1] = c[1] <=> a[2] = c[2]
  <2>1. PICK p, b : a[2] = <<p, b>> /\ NamedAs(a[1], p, b)
    BY <1>1
  <2>2. PICK q, d : c[2] = <<q, d>> /\ NamedAs(c[1], q, d)
    BY <1>1
  <2>3. a[1] = c[1] <=> p = q /\ b = d
    BY <2>1, <2>2 DEF LifeInv
  <2>. QED
    BY <2>1, <2>2, <2>3
<1>. QED
  BY <1>2 DEF LifetimesTold

\* Two results of the fork tree have the same lifetime exactly if the same
\* process caused them, however PIDs are recycled and events of one timestamp
\* are ordered, as long as the u32 counter of a PID does not saturate.
THEOREM LifetimesCorrect ==
  ASSUME Wide
  PROVE  Spec => []LifetimesTold
<1>. DEFINE IInv == RootInv /\ ExitInv /\ SeenInv /\ BirthInv /\ LifeInv
<1>1. Init => IInv
  BY LifeInitially
<1>2. TypeInv /\ IInv /\ [Next]_vars => IInv'
  BY RootStep, ExitStep, SeenStep, BirthStep, LifeStep DEF TypeInv
<1>. QED
  BY TypeInitially, TypeStep, <1>1, <1>2, LifeTold, PTL DEF Spec
-----------------------------------------------------------------------------
(* Images, while no two tasks read the same timestamp.                     *)

\* The exec calls that an epoch counts: not the one that started the root.
FirstExecs(E) == {e \in E : e.kind = "exec" /\ e.payload.first}
Execs(E, p, b) ==
  {e \in E : e.kind = "exec" /\ ~e.payload.first /\ e.tgid = p /\ e.born = b}

\* n is the image that the last exec call of X has loaded.
Reached(n, X) ==
  IF X = {} THEN n = 0
  ELSE \E d \in X : d.image = n /\ \A c \in X : c.timestamp_ns <= d.timestamp_ns

\* An event and an exec call have different timestamps; the images of a
\* process are fewer than the timestamps.
OrderInv ==
  /\ \A d, e \in Emitted : d.kind = "exec" /\ d.timestamp_ns = e.timestamp_ns => d = e
  /\ \A e \in Emitted : e.image <= e.timestamp_ns
  /\ \A p \in Pids : image[p] <= clock

\* The root begins with the one exec call that trace_command reports.
FirstInv ==
  /\ ~started => /\ \A e \in Emitted : e.kind # "exec"
                 /\ \A t \in Pids : state[t] = "tree" => t = Root
  /\ started => FirstExecs(Emitted) # {}
  /\ \A d, e \in FirstExecs(Emitted) : d = e
  /\ \A e \in FirstExecs(Emitted) : e.tgid = Root
  /\ \A e \in Emitted : e.kind = "exec" =>
       /\ e.payload.first \in BOOLEAN /\ e.source = "tree"
       /\ \E f \in FirstExecs(Emitted) : f.timestamp_ns <= e.timestamp_ns

\* The exec calls emitted before an event add up to the image it came from.
ImageInv ==
  /\ \A p \in Pids : state[p] = "tree" /\ tg[p] = p =>
       Reached(image[p], Execs(Emitted, p, birth[p]))
  /\ \A e \in Emitted : e.source = "tree" =>
       Reached(IF e.kind = "exec" /\ ~e.payload.first THEN e.image - 1 ELSE e.image,
               {d \in Execs(Emitted, e.tgid, e.born) : d.timestamp_ns < e.timestamp_ns})

\* Without ties an event that is heard is newer than all others.
LEMMA HeardAlone ==
  ASSUME TypeInv, SeenInv, ~Ties, NEW d, NEW t \in Pids, Heard(d, t)
  PROVE  /\ clock \in Nat /\ d.timestamp_ns = clock + 1 /\ clock' = clock + 1
         /\ \A e \in Emitted : /\ e.timestamp_ns \in Nat
                               /\ e.timestamp_ns < d.timestamp_ns
         /\ d \notin Emitted
<1>1. clock \in Nat
  BY DEF TypeInv, ClockInv
<1>2. d.timestamp_ns = clock' /\ clock' = clock + 1
  BY DEF Heard, Instants
<1>3. \A e \in Emitted : e.timestamp_ns \in Nat /\ e.timestamp_ns <= clock
  BY DEF SeenInv
<1>. QED
  BY <1>1, <1>2, <1>3

\* Who is heard calling exec has called it.
LEMMA ExecHeard ==
  ASSUME WorldNext, NEW e \in ring', e \notin ring, e.kind = "exec"
  PROVE  \E style : \E t \in Pids, ts \in Instants : Exec(t, ts, style)
<1>. DEFINE Goal == \E style : \E t \in Pids, ts \in Instants : Exec(t, ts, style)
<1>1. ASSUME NEW t, NEW ts, NEW fd, NEW raw, NEW style, NEW mode,
             Open(t, ts, fd, raw, style, mode)
      PROVE  Goal
  BY <1>1 DEF Open, Emit, Event
<1>2. ASSUME NEW t, NEW ts, NEW raw, NEW to, NEW style, NEW exchange,
             Rename(t, ts, raw, to, style, exchange)
      PROVE  Goal
  BY <1>2 DEF Rename, Emit, Event
<1>3. ASSUME NEW t, NEW ts, NEW raw, NEW style, Unlink(t, ts, raw, style)
      PROVE  Goal
  BY <1>3 DEF Unlink, Emit, Event
<1>4. ASSUME NEW t, NEW ts, NEW fd, Close(t, ts, fd) \/ Mmap(t, ts, fd)
      PROVE  Goal
  BY <1>4 DEF Close, Mmap, Emit, Event
<1>5. ASSUME NEW t, NEW ts, NEW c, NEW thread, Fork(t, ts, c, thread)
      PROVE  Goal
  BY <1>5 DEF Fork, Event
<1>6. ASSUME NEW t, NEW ts, NEW status, Exit(t, ts, status)
      PROVE  Goal
  BY <1>6 DEF Exit, Emit, Event
<1>7. ASSUME ring' = ring
      PROVE  Goal
  BY <1>7
<1>. QED
  BY <1>1, <1>2, <1>3, <1>4, <1>5, <1>6, <1>7
  DEF WorldNext, Write, Chdir, SpawnExternal, SilentExit

\* A step is an exec call, with its event, or leaves the living images alone.
LEMMA Loads ==
  ASSUME TypeInv, SeenInv, [Next]_vars
  PROVE  \/ \E e : \E t \in Pids :
               /\ Heard(e, t) /\ e.kind = "exec" /\ Emitted' = Emitted \cup {e}
               /\ UNCHANGED <<state, tg, birth>>
         \/ /\ UNCHANGED started
            /\ \/ UNCHANGED image
               \/ \E c \in Pids : state[c] = "free" /\ image' = [image EXCEPT ![c] = 0]
            /\ \A e : e.kind = "exec" => (e \in Emitted' <=> e \in Emitted)
<1>. DEFINE Load == \E e : \E t \in Pids :
                      /\ Heard(e, t) /\ e.kind = "exec" /\ Emitted' = Emitted \cup {e}
                      /\ UNCHANGED <<state, tg, birth>>
            Quiet == /\ UNCHANGED started
                     /\ \/ UNCHANGED image
                        \/ \E c \in Pids : /\ state[c] = "free"
                                           /\ image' = [image EXCEPT ![c] = 0]
<1>1. ASSUME NEW t \in Pids, NEW ts \in Instants, NEW style, Exec(t, ts, style),
             WorldNext, UNCHANGED collectorVars
      PROVE  Load
  <2>. DEFINE e == [Event("exec", t, ts,
                      [raw |-> Tool, style |-> style,
                       path |-> Path(t, style, Tool), first |-> ~started])
                      EXCEPT !.image = image'[t]]
  <2>1. ring' = ring \cup {e}
    BY <1>1 DEF Exec, Emit
  <2>5. e.kind = "exec" /\ e.timestamp_ns = ts /\ e.pid = t
    BY DEF Event
  <2>. HIDE DEF e
  <2>2. e \notin Emitted
    <3>1. ts > last[t] /\ last[t] \in Nat /\ ts \in Int
      BY <1>1 DEF Exec, Emit, Tick, Instants, TypeInv, ClockInv
    <3>. QED
      BY <2>5, <3>1 DEF SeenInv
  <2>3. \E u \in Pids : Heard(e, u)
    BY <1>1, <2>1, <2>2, NewEvent DEF Emitted, TypeInv
  <2>4. UNCHANGED <<raw_events, state, tg, birth>>
    BY <1>1 DEF Exec, collectorVars, bufferVars
  <2>. QED
    BY <2>1, <2>3, <2>4, <2>5 DEF Emitted
<1>2. ASSUME WorldNext, \A style : \A t \in Pids, ts \in Instants : ~Exec(t, ts, style)
      PROVE  Quiet
  <2>1. ASSUME FileStep
        PROVE  Quiet
    BY <2>1, TasksAlone
  <2>2. ASSUME NEW c \in Pids, NEW kind, NEW group, NEW dir, NEW fds,
               Born(c, kind, group, dir, fds), UNCHANGED started
        PROVE  Quiet
    BY <2>2 DEF Born
  <2>3. ASSUME NEW t, NEW ts, NEW c \in Pids, NEW thread, Fork(t, ts, c, thread)
        PROVE  Quiet
    BY <2>2, <2>3 DEF Fork
  <2>4. ASSUME NEW p \in Pids, NEW dir, SpawnExternal(p, dir)
        PROVE  Quiet
    BY <2>2, <2>4 DEF SpawnExternal
  <2>5. ASSUME NEW t, NEW ts, NEW status, Exit(t, ts, status) \/ SilentExit(t)
        PROVE  Quiet
    BY <2>5 DEF Exit, SilentExit
  <2>. QED
    BY <1>2, <2>1, <2>3, <2>4, <2>5, WorldSteps
<1>3. ASSUME CollectorNext
      PROVE  Quiet
  <2>1. CASE Drain \/ WaitPid \/ Quiesced \/ Finish
    BY <2>1 DEF Drain, WaitPid, Quiesced, Finish, worldVars, taskVars
  <2>. QED
    BY <1>3, <2>1, Taken DEF CollectorNext, Take, worldVars, taskVars
<1>4. ASSUME UNCHANGED vars
      PROVE  Quiet
  BY <1>4 DEF vars, worldVars, taskVars
<1>5. Load \/ Quiet
  BY <1>1, <1>2, <1>3, <1>4 DEF Next
<1>6. ASSUME NEW e \in Emitted', e.kind = "exec", e \notin Emitted
      PROVE  Load
  <2>1. \A x \in Emitted : ~Alike(e, x)
    BY <1>6 DEF Alike
  <2>2. WorldNext /\ UNCHANGED collectorVars /\ e \in ring' /\ e \notin ring
    BY <1>6, <2>1, Origin DEF TypeInv
  <2>. QED
    BY <1>1, <1>6, <2>2, ExecHeard
<1>7. \A e \in Emitted : e.kind = "exec" => e \in Emitted'
  BY Kept
<1>. QED
  BY <1>5, <1>6, <1>7

LEMMA OrderStep ==
  ASSUME TypeInv, SeenInv, OrderInv, ~Ties, [Next]_vars
  PROVE  OrderInv'
<1>0. /\ TasksInv /\ ClockInv /\ EventsInv /\ clock \in Nat /\ clock' \in Nat
      /\ clock' >= clock
  BY TypeStep, ClockStep DEF TypeInv, ClockInv
<1>1. ASSUME NEW d \in Emitted', NEW e \in Emitted', d.kind = "exec",
             d.timestamp_ns = e.timestamp_ns
      PROVE  d = e
  <2>1. ASSUME NEW x \in Emitted, NEW y \in Emitted, Alike(d, x), Alike(e, y)
        PROVE  d = e
    <3>1. x.kind = "exec" /\ d = x /\ x.timestamp_ns = y.timestamp_ns
      BY <1>1, <2>1 DEF Alike
    <3>2. x = y
      BY <3>1 DEF OrderInv
    <3>. QED
      BY <2>1, <3>1, <3>2 DEF Alike
  <2>2. ASSUME NEW x \in Emitted, NEW t \in Pids, NEW y, NEW z, Alike(y, x), Heard(z, t),
               y.timestamp_ns = z.timestamp_ns
        PROVE  FALSE
    <3>1. x.timestamp_ns = z.timestamp_ns
      BY <2>2 DEF Alike
    <3>2. x.timestamp_ns < z.timestamp_ns /\ x.timestamp_ns \in Nat
      BY <2>2, HeardAlone
    <3>. QED
      BY <3>1, <3>2
  <2>3. ASSUME NEW t \in Pids, Heard(d, t), d \in ring' \ ring, e \in ring' \ ring
        PROVE  d = e
    BY <1>1, <2>3 DEF Heard
  <2>. QED
    BY <1>0, <1>1, <2>1, <2>2, <2>3, Origin
<1>2. \A p \in Pids : image'[p] <= clock'
  <2>1. ASSUME NEW t \in Pids, NEW e, Heard(e, t), e.kind = "exec"
        PROVE  \A p \in Pids : image'[p] <= clock'
    <3>1. clock' = clock + 1
      BY <2>1, HeardAlone
    <3>2. image' = [image EXCEPT ![t] = IF started THEN image[t] + 1 ELSE image[t]]
      BY <2>1 DEF Heard
    <3>. QED
      BY <1>0, <3>1, <3>2 DEF OrderInv, TasksInv
  <2>2. ASSUME NEW c \in Pids, image' = [image EXCEPT ![c] = 0]
        PROVE  \A p \in Pids : image'[p] <= clock'
    BY <1>0, <2>2 DEF OrderInv, TasksInv
  <2>3. ASSUME UNCHANGED image
        PROVE  \A p \in Pids : image'[p] <= clock'
    BY <1>0, <2>3 DEF OrderInv, TasksInv
  <2>. QED
    BY <2>1, <2>2, <2>3, Loads
<1>3. ASSUME NEW e \in Emitted'
      PROVE  e.image <= e.timestamp_ns
  <2>1. ASSUME NEW x \in Emitted, Alike(e, x)
        PROVE  e.image <= e.timestamp_ns
    BY <2>1 DEF Alike, OrderInv
  <2>2. ASSUME NEW t \in Pids, Heard(e, t)
        PROVE  e.image <= e.timestamp_ns
    <3>1. e.timestamp_ns = clock + 1
      BY <2>2, HeardAlone
    <3>2. tg[t] \in Pids /\ image[tg[t]] \in Nat /\ image[t] \in Nat
      BY <1>0 DEF TasksInv
    <3>3. e.image \in {image[tg[t]], image[t], image[t] + 1}
      BY <2>2 DEF Heard
    <3>4. image[tg[t]] <= clock /\ image[t] <= clock
      BY <3>2 DEF OrderInv
    <3>. QED
      BY <1>0, <3>1, <3>2, <3>3, <3>4
  <2>. QED
    BY <1>0, <2>1, <2>2, Origin
<1>. QED
  BY <1>1, <1>2, <1>3 DEF OrderInv, Emitted

LEMMA FirstStep ==
  ASSUME TypeInv, SeenInv, FirstInv, [Next]_vars
  PROVE  FirstInv'
<1>1. ASSUME NEW t \in Pids, NEW e, Heard(e, t), e.kind = "exec", Emitted' = Emitted \cup {e},
             UNCHANGED <<state, tg, birth>>
      PROVE  FirstInv'
  <2>1. /\ state[t] = "tree" /\ tg[t] = t /\ e.payload.first = ~started /\ started'
        /\ e.tgid = t /\ e.source = "tree"
    BY <1>1 DEF Heard
  <2>2. \A x \in Emitted : x.timestamp_ns <= e.timestamp_ns
    BY <1>1, HeardLast
  <2>3. e.timestamp_ns \in Nat
    BY <1>1 DEF Heard, Instants, TypeInv, ClockInv
  <2>4. started \in BOOLEAN
    BY DEF TypeInv, TasksInv
  <2>5. CASE ~started
    <3>1. /\ \A x \in Emitted : x.kind # "exec"
          /\ t = Root
      BY <2>1, <2>5 DEF FirstInv
    <3>2. \A x \in Emitted' : x.kind = "exec" => x = e
      BY <1>1, <3>1
    <3>3. e.payload.first
      BY <2>1, <2>5
    <3>4. FirstExecs(Emitted)' = {e} /\ t = Root
      BY <1>1, <3>1, <3>3 DEF FirstExecs
    <3>5. e.payload.first \in BOOLEAN
      BY <2>1
    <3>6. e.timestamp_ns <= e.timestamp_ns
      BY <2>3
    <3>7. \A x \in Emitted' : x.kind = "exec" =>
            /\ x.payload.first \in BOOLEAN /\ x.source = "tree"
            /\ \E f \in FirstExecs(Emitted)' : f.timestamp_ns <= x.timestamp_ns
      BY <2>1, <3>4, <3>2, <3>5, <3>6
    <3>. QED
      BY <2>1, <3>4, <3>7 DEF FirstInv
  <2>6. CASE started
    <3>1. FirstExecs(Emitted)' = FirstExecs(Emitted)
      BY <1>1, <2>1, <2>6 DEF FirstExecs
    <3>2. PICK f \in FirstExecs(Emitted) : TRUE
      BY <2>6 DEF FirstInv
    <3>3. f.timestamp_ns <= e.timestamp_ns
      BY <2>2 DEF FirstExecs
    <3>. QED
      BY <1>1, <2>1, <2>6, <3>1, <3>2, <3>3 DEF FirstInv
  <2>. QED
    BY <2>4, <2>5, <2>6
<1>2. ASSUME UNCHANGED started, \A e : e.kind = "exec" => (e \in Emitted' <=> e \in Emitted)
      PROVE  FirstInv'
  <2>1. FirstExecs(Emitted)' = FirstExecs(Emitted)
    BY <1>2 DEF FirstExecs
  <2>2. ASSUME ~started, NEW t \in Pids, state'[t] = "tree"
        PROVE  t = Root
    <3>1. CASE state[t] = "tree"
      BY <2>2, <3>1 DEF FirstInv
    <3>2. ASSUME NEW u, NEW ts, NEW thread, Fork(u, ts, t, thread)
          PROVE  FALSE
      BY <2>2, <3>2 DEF Fork, May
    <3>. QED
      BY <2>2, <3>1, <3>2, TreeOrigin DEF TypeInv
  <2>. QED
    BY <1>2, <2>1, <2>2 DEF FirstInv
<1>. QED
  BY <1>1, <1>2, Loads

LEMMA ImageStep ==
  ASSUME TypeInv, SeenInv, BirthInv, OrderInv, FirstInv, ImageInv, ~Ties, [Next]_vars
  PROVE  ImageInv'
<1>0. TasksInv /\ ClockInv /\ EventsInv /\ TasksInv' /\ EventsInv'
  BY TypeStep DEF TypeInv
<1>. DEFINE Before(e) == IF e.kind = "exec" /\ ~e.payload.first THEN e.image - 1 ELSE e.image
            Earlier(E, e) == {d \in Execs(E, e.tgid, e.born) :
                                d.timestamp_ns < e.timestamp_ns}
\* Exec calls that come later do not count.
<1>1. ASSUME NEW d \in Emitted', NEW e \in Emitted, Alike(d, e), d.source = "tree",
             Earlier(Emitted', e) = Earlier(Emitted, e)
      PROVE  Reached(Before(d), Earlier(Emitted', d))
  <2>1. Before(d) = Before(e) /\ Earlier(Emitted', d) = Earlier(Emitted', e)
    BY <1>1 DEF Alike
  <2>2. e.source = "tree"
    BY <1>1 DEF Alike
  <2>3. Reached(Before(e), Earlier(Emitted, e))
    BY <2>2 DEF ImageInv
  <2>. HIDE DEF Before, Earlier
  <2>. QED
    BY <1>1, <2>1, <2>3
<1>2. CASE \E e : \E t \in Pids :
             /\ Heard(e, t) /\ e.kind = "exec" /\ Emitted' = Emitted \cup {e}
             /\ UNCHANGED <<state, tg, birth>>
  <2>0. PICK e : \E t \in Pids :
             /\ Heard(e, t) /\ e.kind = "exec" /\ Emitted' = Emitted \cup {e}
             /\ UNCHANGED <<state, tg, birth>>
    BY <1>2
  <2>1. PICK t \in Pids : /\ Heard(e, t) /\ e.kind = "exec" /\ Emitted' = Emitted \cup {e}
                          /\ UNCHANGED <<state, tg, birth>>
    BY <2>0
  <2>2. /\ state[t] = "tree" /\ tg[t] = t /\ e.payload.first = ~started
        /\ e.tgid = t /\ e.born = birth[t] /\ e.source = "tree"
        /\ e.image = IF started THEN image[t] + 1 ELSE image[t]
        /\ image' = [image EXCEPT ![t] = e.image]
    BY <2>1 DEF Heard
  <2>3. /\ started \in BOOLEAN /\ image[t] \in Nat /\ DOMAIN image = Pids
    BY <1>0 DEF TasksInv
  <2>4. \A x \in Emitted : /\ x.timestamp_ns \in Nat /\ x.timestamp_ns < e.timestamp_ns
    BY <2>1, HeardAlone
  <2>5. e.timestamp_ns \in Nat
    BY <2>1, HeardAlone
  <2>6. \A p, b : Execs(Emitted', p, b) =
          IF started /\ p = t /\ b = birth[t] THEN Execs(Emitted, p, b) \cup {e}
                                              ELSE Execs(Emitted, p, b)
    BY <2>1, <2>2, <2>3 DEF Execs
  <2>7. ASSUME NEW x \in Emitted
        PROVE  Earlier(Emitted', x) = Earlier(Emitted, x)
    BY <2>4, <2>5, <2>6
  <2>8. Earlier(Emitted', e) = Execs(Emitted, t, birth[t])
    <3>1. \A x \in Execs(Emitted, t, birth[t]) : x.timestamp_ns < e.timestamp_ns
      BY <2>4 DEF Execs
    <3>. QED
      BY <2>2, <2>5, <2>6, <3>1
  <2>9. Reached(image[t], Execs(Emitted, t, birth[t]))
    BY <2>2 DEF ImageInv
  <2>10. Before(e) = image[t]
    <3>1. CASE started
      <4>1. ~e.payload.first /\ e.image = image[t] + 1
        BY <2>2, <3>1
      <4>2. Before(e) = e.image - 1
        BY <2>1, <4>1
      <4>. HIDE DEF Before
      <4>. QED
        BY <2>3, <4>1, <4>2
    <3>2. CASE ~started
      BY <2>1, <2>2, <2>3, <3>2
    <3>. QED
      BY <3>1, <3>2
  <2>11. ASSUME NEW d \in Emitted', d.source = "tree"
         PROVE  Reached(Before(d), Earlier(Emitted', d))
    <3>1. CASE d \in Emitted
      <4>1. Alike(d, d)
        BY DEF Alike
      <4>. QED
        BY <1>1, <2>7, <2>11, <3>1, <4>1
    <3>2. CASE d = e
      <4>. HIDE DEF Before, Earlier
      <4>. QED
        BY <2>8, <2>9, <2>10, <3>2
    <3>. QED
      BY <2>1, <3>1, <3>2
  <2>12. ASSUME NEW p \in Pids, state[p] = "tree", tg[p] = p
         PROVE  Reached(image'[p], Execs(Emitted', p, birth[p]))
    <3>1. Reached(image[p], Execs(Emitted, p, birth[p]))
      BY <2>12 DEF ImageInv
    <3>2. CASE started /\ p = t
      <4>1. Execs(Emitted', t, birth[t]) = Execs(Emitted, t, birth[t]) \cup {e}
        BY <2>6, <3>2
      <4>2. \A x \in Execs(Emitted', t, birth[t]) : x.timestamp_ns <= e.timestamp_ns
        BY <2>4, <2>5, <4>1 DEF Execs
      <4>3. image'[t] = e.image
        BY <2>2, <2>3
      <4>. QED
        BY <3>2, <4>1, <4>2, <4>3 DEF Reached
    <3>3. CASE ~(started /\ p = t)
      <4>1. Execs(Emitted', p, birth[p]) = Execs(Emitted, p, birth[p])
        BY <2>6, <3>3
      <4>2. image'[p] = image[p]
        BY <2>2, <2>3, <3>3
      <4>. QED
        BY <3>1, <4>1, <4>2
    <3>. QED
      BY <3>2, <3>3
  <2>13. \A p \in Pids : (state[p] = "tree" /\ tg[p] = p =>
           Reached(image[p], Execs(Emitted, p, birth[p])))'
    BY <2>1, <2>12 DEF Reached, Execs
  <2>14. \A d \in Emitted' : d.source = "tree" =>
           Reached(Before(d), Earlier(Emitted, d))'
    BY <2>11 DEF Reached, Execs
  <2>. QED
    BY <2>13, <2>14 DEF ImageInv
<1>3. CASE /\ UNCHANGED image \/ \E c \in Pids : /\ state[c] = "free"
                                                 /\ image' = [image EXCEPT ![c] = 0]
           /\ \A e : e.kind = "exec" => (e \in Emitted' <=> e \in Emitted)
  <2>1. \A p, b : Execs(Emitted', p, b) = Execs(Emitted, p, b)
    BY <1>3 DEF Execs
  <2>2. ASSUME NEW p \in Pids, state'[p] = "tree", tg'[p] = p
        PROVE  Reached(image'[p], Execs(Emitted, p, birth'[p]))
    <3>1. CASE state[p] = "tree" /\ tg'[p] = tg[p] /\ birth'[tg[p]] = birth[tg[p]]
      <4>1. tg[p] = p /\ birth'[p] = birth[p]
        BY <2>2, <3>1
      <4>2. image'[p] = image[p]
        BY <1>0, <1>3, <3>1 DEF TasksInv
      <4>3. Reached(image[p], Execs(Emitted, p, birth[p]))
        BY <3>1, <4>1 DEF ImageInv
      <4>. QED
        BY <4>1, <4>2, <4>3
    <3>2. ASSUME NEW u \in Pids, NEW ts, NEW thread, Fork(u, ts, p, thread)
          PROVE  Reached(image'[p], Execs(Emitted, p, birth'[p]))
      <4>1. image'[p] = 0 /\ birth'[p] = birth[p] + 1 /\ birth[p] \in Nat
        BY <1>0, <3>2 DEF Fork, Born, TasksInv
      <4>2. \A x \in Emitted : x.tgid = p => x.born <= birth[p] /\ x.born \in Nat
        BY <1>0 DEF BirthInv, EventsInv, RawEvent
      <4>3. Execs(Emitted, p, birth'[p]) = {}
        BY <4>1, <4>2 DEF Execs
      <4>. QED
        BY <4>1, <4>3 DEF Reached
    <3>. QED
      BY <1>0, <2>2, <3>1, <3>2, TreeOrigin
  <2>3. ASSUME NEW d \in Emitted', d.source = "tree"
        PROVE  Reached(Before(d), Earlier(Emitted', d))
    <3>1. ASSUME NEW e \in Emitted, Alike(d, e)
          PROVE  Reached(Before(d), Earlier(Emitted', d))
      BY <1>1, <2>1, <2>3, <3>1
    <3>2. ASSUME NEW t \in Pids, Heard(d, t), d \in ring' \ ring
          PROVE  Reached(Before(d), Earlier(Emitted', d))
      <4>0. d \notin Emitted /\ d.kind # "exec"
        BY <1>3, <2>3, <3>2, HeardAlone
      <4>1. /\ d.tgid = tg[t] /\ d.born = birth[tg[t]] /\ d.image = image[tg[t]]
            /\ state[tg[t]] = "tree" /\ tg[tg[t]] = tg[t] /\ tg[t] \in Pids
        BY <1>0, <2>3, <3>2, <4>0 DEF Heard, TasksInv
      <4>2. \A x \in Emitted : x.timestamp_ns < d.timestamp_ns
        BY <3>2, HeardAlone
      <4>3. Earlier(Emitted', d) = Execs(Emitted, tg[t], birth[tg[t]])
        <5>1. \A x \in Execs(Emitted, tg[t], birth[tg[t]]) : x.timestamp_ns < d.timestamp_ns
          BY <4>2 DEF Execs
        <5>. QED
          BY <2>1, <4>1, <5>1
      <4>4. Before(d) = image[tg[t]]
        BY <4>0, <4>1
      <4>5. Reached(image[tg[t]], Execs(Emitted, tg[t], birth[tg[t]]))
        BY <4>1 DEF ImageInv
      <4>. HIDE DEF Before, Earlier
      <4>. QED
        BY <4>3, <4>4, <4>5
    <3>. QED
      BY <1>0, <3>1, <3>2, Origin
  <2>4. \A p \in Pids : (state[p] = "tree" /\ tg[p] = p =>
          Reached(image[p], Execs(Emitted, p, birth[p])))'
    <3>1. ASSUME NEW p \in Pids, state'[p] = "tree", tg'[p] = p
          PROVE  Reached(image'[p], Execs(Emitted', p, birth'[p]))
      BY <2>1, <2>2, <3>1
    <3>. QED
      BY <3>1 DEF Reached, Execs
  <2>5. \A d \in Emitted' : d.source = "tree" =>
          Reached(Before(d), Earlier(Emitted, d))'
    BY <2>3 DEF Reached, Execs
  <2>. QED
    BY <2>4, <2>5 DEF ImageInv
<1>. QED
  BY <1>2, <1>3, Loads
-----------------------------------------------------------------------------
(* Epochs.                                                                 *)

\* The collector has counted the exec calls that it has taken.
EpochInv ==
  /\ phase # "done" => \A p \in Pids, b \in Nat : Newest(p, b) =>
       Reached(current_processes[p].exec_epoch, Execs(Done, p, b))
  /\ phase # "done" => \A p \in DOMAIN current_processes :
       "exec_epoch" \in DOMAIN current_processes[p]
  /\ root_initial_exec_pending <=> FirstExecs(Done) = {}
  /\ \A k \in DOMAIN pending_renames, s \in Done :
       s.pid = k[1] /\ s.timestamp_ns = k[2] /\ s.source = "tree" =>
         pending_renames[k].process.exec_epoch = s.image
  /\ EpochsTold

\* The image of which the process was before the event.
ImageBefore(e) == IF e.kind = "exec" /\ ~e.payload.first THEN e.image - 1 ELSE e.image

\* An event of the tree that is taken finds all earlier exec calls of its
\* process counted, and no later one.
LEMMA TakenEpoch ==
  ASSUME TypeInv, SeenInv, BirthInv, LifeInv, OrderInv, ImageInv, EpochInv,
         NEW e \in todo, Take(e), e.source = "tree"
  PROVE  current_process(e.tgid).exec_epoch = ImageBefore(e)
<1>1. /\ phase = "process" /\ Done = raw_events \ todo /\ e \in raw_events
      /\ \A d \in todo : e.timestamp_ns <= d.timestamp_ns
      /\ e \in Emitted /\ RawEvent(e)
  BY DEF Take, Done, TypeInv, TableInv, TypeOK, EventsInv, Emitted
<1>2. /\ Newest(e.tgid, e.born) /\ e.tgid \in Pids /\ e.born \in Nat
      /\ current_process(e.tgid) = current_processes[e.tgid]
  BY <1>1, TakenIsNewest DEF RawEvent
<1>3. Reached(current_process(e.tgid).exec_epoch, Execs(Done, e.tgid, e.born))
  BY <1>1, <1>2 DEF EpochInv
<1>4. Execs(Done, e.tgid, e.born) =
        {d \in Execs(Emitted, e.tgid, e.born) : d.timestamp_ns < e.timestamp_ns}
  <2>1. ASSUME NEW d \in Done, d.kind = "exec"
        PROVE  d \in Emitted /\ d.timestamp_ns < e.timestamp_ns
    <3>1. d \in Emitted /\ d # e
      BY <1>1 DEF Emitted
    <3>2. d.timestamp_ns <= e.timestamp_ns
      BY DEF LifeInv
    <3>3. d.timestamp_ns # e.timestamp_ns
      BY <1>1, <2>1, <3>1 DEF OrderInv
    <3>4. d.timestamp_ns \in Nat /\ e.timestamp_ns \in Nat
      BY <1>1, <3>1 DEF SeenInv
    <3>. QED
      BY <3>1, <3>2, <3>3, <3>4
  <2>2. ASSUME NEW d \in Emitted, d.timestamp_ns < e.timestamp_ns
        PROVE  d \in Done
    <3>1. d.timestamp_ns \in Nat /\ e.timestamp_ns \in Nat
      BY <1>1 DEF SeenInv
    <3>2. d \notin ring /\ d \notin todo
      BY <1>1, <2>2, <3>1 DEF SeenInv
    <3>. QED
      BY <1>1, <3>2 DEF Emitted
  <2>. QED
    BY <2>1, <2>2 DEF Execs
<1>5. Reached(ImageBefore(e), Execs(Done, e.tgid, e.born))
  BY <1>1, <1>4 DEF ImageInv, ImageBefore
<1>6. ASSUME NEW X \in SUBSET Emitted, \A d \in X : d.kind = "exec",
             NEW n, NEW m, Reached(n, X), Reached(m, X)
      PROVE  n = m
  <2>1. CASE X = {}
    BY <1>6, <2>1 DEF Reached
  <2>2. CASE X # {}
    <3>1. PICK d \in X : d.image = n /\ \A c \in X : c.timestamp_ns <= d.timestamp_ns
      BY <1>6, <2>2 DEF Reached
    <3>2. PICK c \in X : c.image = m /\ \A x \in X : x.timestamp_ns <= c.timestamp_ns
      BY <1>6, <2>2 DEF Reached
    <3>3. d.timestamp_ns \in Nat /\ c.timestamp_ns \in Nat
      BY DEF SeenInv
    <3>4. d.timestamp_ns = c.timestamp_ns
      BY <3>1, <3>2, <3>3
    <3>5. d = c
      BY <1>6, <3>4 DEF OrderInv
    <3>. QED
      BY <3>1, <3>2, <3>5
  <2>. QED
    BY <2>1, <2>2
<1>7. /\ Execs(Done, e.tgid, e.born) \in SUBSET Emitted
      /\ \A d \in Execs(Done, e.tgid, e.born) : d.kind = "exec"
  BY <1>1 DEF Execs, Emitted
<1>. QED
  BY <1>3, <1>5, <1>6, <1>7

\* A process that is known stays as it is until it calls exec or a fork has
\* its PID as the child.
LEMMA EntryKept ==
  ASSUME NEW e, process_event(e), NEW q \in DOMAIN current_processes,
         e.kind = "fork" => e.payload.child # q,
         e.kind = "exec" => e.tgid # q \/ SwallowRootExec(e)
  PROVE  /\ q \in DOMAIN current_processes'
         /\ current_processes'[q] = current_processes[q]
<1>. DEFINE Goal == /\ q \in DOMAIN current_processes'
                    /\ current_processes'[q] = current_processes[q]
<1>1. ASSUME KnowProcess(e.tgid)
      PROVE  Goal
  BY <1>1 DEF KnowProcess, Put, current_process
<1>2. CASE ProcessExec(e)
  <2>1. e.kind = "exec" /\ ~SwallowRootExec(e)
    BY <1>2 DEF ProcessExec, SwallowRootExec
  <2>. QED
    BY <1>2, <2>1 DEF ProcessExec, Put
<1>3. CASE ProcessFork(e)
  <2>1. e.payload.child # q
    BY <1>3 DEF ProcessFork
  <2>2. current_processes' = Put(Put(current_processes, e.tgid, current_process(e.tgid)),
                                 e.payload.child, new_process(e.payload.child))
    BY <1>3 DEF ProcessFork
  <2>. QED
    BY <2>1, <2>2 DEF Put, current_process
<1>4. ASSUME UNCHANGED current_processes
      PROVE  Goal
  BY <1>4
<1>. QED
  BY <1>1, <1>2, <1>3, <1>4
  DEF process_event, ProcessOpen, ProcessClose, ProcessMmap, ProcessUnlink,
      ProcessRenameSource, ProcessRenameDestination, RejectRenameDestination,
      SwallowRootExec, ProcessExit, processVars

\* The exec event that is swallowed is the first of the root.
LEMMA FirstSwallowed ==
  ASSUME TypeInv, SeenInv, LifeInv, OrderInv, FirstInv, EpochInv,
         NEW e \in todo, process_event(e), e.kind = "exec"
  PROVE  /\ e.source = "tree" /\ e.payload.first \in BOOLEAN
         /\ e.payload.first => SwallowRootExec(e)
         /\ ~e.payload.first => ProcessExec(e)
<1>1. /\ Take(e) /\ phase = "process" /\ Done = raw_events \ todo /\ e \in raw_events
      /\ \A d \in todo : e.timestamp_ns <= d.timestamp_ns /\ e \in Emitted
      /\ e \notin Done
  BY DoneStep DEF Take, Emitted
<1>2. /\ e.source = "tree" /\ e.payload.first \in BOOLEAN
  BY <1>1 DEF FirstInv
<1>3. SwallowRootExec(e) \/ ProcessExec(e)
  BY DEF process_event, ProcessOpen, ProcessClose, ProcessMmap, ProcessUnlink,
         ProcessRenameSource, ProcessRenameDestination, RejectRenameDestination,
         ProcessFork, ProcessExit
<1>4. ASSUME e.payload.first
      PROVE  SwallowRootExec(e)
  <2>1. e \in FirstExecs(Emitted)
    BY <1>1, <1>4 DEF FirstExecs
  <2>2. e.tgid = Root
    BY <2>1 DEF FirstInv
  <2>3. FirstExecs(Done) = {}
    BY <1>1, <2>1 DEF FirstInv, FirstExecs, Emitted
  <2>4. root_initial_exec_pending
    BY <2>3 DEF EpochInv
  <2>. QED
    BY <1>3, <2>2, <2>4 DEF ProcessExec
<1>5. ASSUME ~e.payload.first
      PROVE  ProcessExec(e)
  <2>1. PICK f \in FirstExecs(Emitted) : f.timestamp_ns <= e.timestamp_ns
    BY <1>1 DEF FirstInv
  <2>2. f \in Emitted /\ f.kind = "exec" /\ f # e /\ f.timestamp_ns \in Nat
        /\ e.timestamp_ns \in Nat
    BY <1>1, <1>5 DEF FirstExecs, SeenInv
  <2>3. f.timestamp_ns < e.timestamp_ns
    BY <1>1, <2>1, <2>2 DEF OrderInv
  <2>4. f \notin ring /\ f \notin todo
    BY <1>1, <2>2, <2>3 DEF SeenInv
  <2>5. f \in FirstExecs(Done)
    BY <1>1, <2>2, <2>4 DEF FirstExecs, Emitted
  <2>6. ~root_initial_exec_pending
    BY <2>5 DEF EpochInv
  <2>. QED
    BY <1>3, <2>6 DEF SwallowRootExec
<1>. QED
  BY <1>2, <1>4, <1>5

\* The exec calls taken, after one more event.
LEMMA ExecsTaken ==
  ASSUME TypeInv, FirstInv, NEW e \in todo, process_event(e)
  PROVE  /\ \A p, b : Execs(Done', p, b) =
              IF e.kind = "exec" /\ ~e.payload.first /\ p = e.tgid /\ b = e.born
              THEN Execs(Done, p, b) \cup {e} ELSE Execs(Done, p, b)
         /\ FirstExecs(Done') = IF e.kind = "exec" /\ e.payload.first
                                THEN FirstExecs(Done) \cup {e} ELSE FirstExecs(Done)
<1>1. Done' = Done \cup {e}
  BY DoneStep
<1>2. \A p, b : Execs(Done', p, b) =
              IF e.kind = "exec" /\ ~e.payload.first /\ p = e.tgid /\ b = e.born
              THEN Execs(Done, p, b) \cup {e} ELSE Execs(Done, p, b)
  BY <1>1 DEF Execs
<1>3. FirstExecs(Done') = IF e.kind = "exec" /\ e.payload.first
                          THEN FirstExecs(Done) \cup {e} ELSE FirstExecs(Done)
  BY <1>1 DEF FirstExecs
<1>. QED
  BY <1>2, <1>3

\* An exec call counts up to the image that it loads.
LEMMA ExecEpoch ==
  ASSUME TypeInv, SeenInv, BirthInv, LifeInv, OrderInv, FirstInv, ImageInv, EpochInv, Wide,
         NEW e \in todo, process_event(e), e.kind = "exec", ~e.payload.first
  PROVE  next_epoch(current_process(e.tgid)).exec_epoch = e.image
<1>1. /\ Take(e) /\ RawEvent(e) /\ e \in raw_events /\ e \in Emitted /\ phase = "process"
      /\ e.source = "tree"
  BY DoneStep, FirstSwallowed DEF Emitted
<1>. DEFINE m == current_process(e.tgid)
<1>2. m.exec_epoch = e.image - 1
  BY <1>1, TakenEpoch DEF ImageBefore
<1>3. "exec_epoch" \in DOMAIN m
  BY <1>1, TakenIsNewest DEF EpochInv
<1>4. next_epoch(m) = [m EXCEPT !.exec_epoch = saturating_add(@)]
  BY DEF next_epoch
<1>. HIDE DEF m
<1>5. next_epoch(m).exec_epoch = saturating_add(e.image - 1)
  BY <1>2, <1>3, <1>4
<1>6. e.image \in Nat /\ e.image <= e.timestamp_ns /\ e.timestamp_ns \in 1 .. MaxTime
  BY <1>1 DEF OrderInv, SeenInv, RawEvent
<1>7. e.image - 1 < MaxGeneration
  BY <1>6, WorldConstantsOK, CollectorConstantsOK DEF Wide
<1>8. next_epoch(m).exec_epoch = e.image
  BY <1>5, <1>6, <1>7, CollectorConstantsOK DEF saturating_add
<1>. QED
  BY <1>8 DEF m

\* A result of the tree has the epoch of the image that it came from.
LEMMA ResultEpoch ==
  ASSUME TypeInv, SeenInv, BirthInv, LifeInv, OrderInv, FirstInv, ImageInv, EpochInv, Wide,
         NEW e \in todo, process_event(e), ~SwallowRootExec(e), e.source = "tree",
         NEW x, Result(e, x)
  PROVE  x.process.exec_epoch = e.image
<1>1. /\ Take(e) /\ RawEvent(e) /\ e \in raw_events /\ e \in Emitted /\ phase = "process"
  BY DoneStep DEF Emitted
<1>2. current_process(e.tgid).exec_epoch = ImageBefore(e)
  BY <1>1, TakenEpoch
<1>3. CASE e.kind = "rename_destination"
  <2>. DEFINE k == <<e.pid, e.timestamp_ns>>
  <2>1. k \in DOMAIN pending_renames /\ x.process = pending_renames[k].process
    BY <1>3 DEF Result, Attributed
  <2>2. PICK s \in Done : s.pid = k[1] /\ s.timestamp_ns = k[2]
    BY <2>1 DEF LifeInv
  <2>3. s \in Emitted /\ s.pid = e.pid /\ s.timestamp_ns = e.timestamp_ns
    BY <2>2 DEF Done, Emitted
  <2>4. s.source = e.source /\ s.image = e.image
    BY <1>1, <2>3 DEF SeenInv
  <2>. QED
    BY <2>1, <2>2, <2>4 DEF EpochInv
<1>4. CASE e.kind = "exec"
  <2>1. ~e.payload.first
    BY <1>4, FirstSwallowed
  <2>. QED
    BY <1>4, <2>1, ExecEpoch DEF Result, Attributed
<1>5. CASE e.kind \notin {"exec", "rename_destination"}
  BY <1>2, <1>5 DEF Result, Attributed, ImageBefore
<1>. QED
  BY <1>3, <1>4, <1>5

\* process_event keeps EpochInv.
LEMMA EpochProcessed ==
  ASSUME TypeInv, SeenInv, BirthInv, ExitInv, LifeInv, LifeInv', OrderInv, FirstInv, ImageInv,
         EpochInv, Wide, NEW e \in todo, process_event(e)
  PROVE  EpochInv'
<1>1. /\ phase = "process" /\ phase' = "process" /\ Take(e) /\ RawEvent(e)
      /\ Done = raw_events \ todo /\ Done' = Done \cup {e}
      /\ e \notin Done /\ e \in raw_events /\ e \in Emitted
      /\ e.tgid \in Pids /\ e.born \in Nat
  BY DoneStep DEF Emitted, RawEvent
<1>2. /\ Reported \subseteq Reported'
      /\ \A x \in Reported' : x \in Reported \/ Result(e, x)
  BY ReportedStep DEF ExitInv
<1>3. ASSUME NEW x \in Reported', x.of.source = "tree"
      PROVE  x.process.exec_epoch = x.of.image
  <2>1. CASE x \in Reported
    BY <1>3, <2>1 DEF EpochInv, EpochsTold
  <2>2. CASE Result(e, x) /\ SwallowRootExec(e)
    <3>1. events' = events
      BY <2>2 DEF SwallowRootExec
    <3>2. Reported' = Reported
      BY <3>1 DEF Reported
    <3>. QED
      BY <2>1, <3>2
  <2>3. CASE Result(e, x) /\ ~SwallowRootExec(e)
    <3>1. x.of = e
      BY <2>3 DEF Result
    <3>. QED
      BY <1>3, <2>3, <3>1, ResultEpoch
  <2>. QED
    BY <1>2, <2>1, <2>2, <2>3
<1>4. EpochsTold'
  BY <1>3 DEF EpochsTold
<1>5. \A k \in DOMAIN pending_renames', s \in Done' :
        s.pid = k[1] /\ s.timestamp_ns = k[2] /\ s.source = "tree" =>
          pending_renames'[k].process.exec_epoch = s.image
  <2>. SUFFICES ASSUME NEW k \in DOMAIN pending_renames', NEW s \in Done',
                       s.pid = k[1], s.timestamp_ns = k[2], s.source = "tree"
                PROVE  pending_renames'[k].process.exec_epoch = s.image
    OBVIOUS
  <2>0. s \in Emitted
    BY <1>1 DEF Emitted
  <2>1. CASE k \in DOMAIN pending_renames /\ pending_renames'[k] = pending_renames[k]
    <3>1. PICK r \in Done : r.pid = k[1] /\ r.timestamp_ns = k[2]
      BY <2>1 DEF LifeInv
    <3>2. r \in Emitted
      BY <1>1 DEF Emitted
    <3>3. r.source = s.source /\ r.image = s.image
      BY <2>0, <3>1, <3>2 DEF SeenInv
    <3>. QED
      BY <2>1, <3>1, <3>3 DEF EpochInv
  <2>2. CASE /\ e.kind = "rename_source" /\ k = <<e.pid, e.timestamp_ns>>
             /\ pending_renames'[k].process = current_process(e.tgid)
    <3>1. e.source = s.source /\ e.image = s.image
      BY <1>1, <2>0, <2>2 DEF SeenInv
    <3>2. current_process(e.tgid).exec_epoch = e.image
      BY <1>1, <2>2, <3>1, TakenEpoch DEF ImageBefore
    <3>. QED
      BY <2>2, <3>1, <3>2
  <2>. QED
    BY <2>1, <2>2, PendingStep
<1>6. root_initial_exec_pending' <=> FirstExecs(Done') = {}
  <2>1. CASE e.kind = "exec" /\ e.payload.first
    <3>1. SwallowRootExec(e)
      BY <2>1, FirstSwallowed
    <3>2. ~root_initial_exec_pending'
      BY <3>1 DEF SwallowRootExec
    <3>. QED
      BY <2>1, <3>2, ExecsTaken
  <2>2. CASE ~(e.kind = "exec" /\ e.payload.first)
    <3>1. ~SwallowRootExec(e)
      <4>1. e.kind = "exec" => ProcessExec(e)
        BY <2>2, FirstSwallowed
      <4>. QED
        BY <4>1 DEF ProcessExec, SwallowRootExec
    <3>2. root_initial_exec_pending' = root_initial_exec_pending
      BY <3>1
      DEF process_event, ProcessOpen, ProcessClose, ProcessMmap, ProcessUnlink,
          ProcessRenameSource, ProcessRenameDestination, RejectRenameDestination,
          ProcessExec, ProcessFork, ProcessExit, processVars
    <3>3. FirstExecs(Done') = FirstExecs(Done)
      BY <2>2, ExecsTaken
    <3>. QED
      BY <3>2, <3>3 DEF EpochInv
  <2>. QED
    BY <2>1, <2>2
<1>7. \A p \in DOMAIN current_processes' : "exec_epoch" \in DOMAIN current_processes'[p]
  <2>0. \A p : "exec_epoch" \in DOMAIN new_process(p)
    BY DEF new_process, Process
  <2>1. \A p : "exec_epoch" \in DOMAIN current_process(p)
    BY <1>1, <2>0 DEF EpochInv, current_process
  <2>2. "exec_epoch" \in DOMAIN next_epoch(current_process(e.tgid))
    BY <2>1 DEF next_epoch
  <2>3. ASSUME KnowProcess(e.tgid)
        PROVE  \A p \in DOMAIN current_processes' :
                 "exec_epoch" \in DOMAIN current_processes'[p]
    BY <1>1, <2>1, <2>3 DEF KnowProcess, Put, EpochInv
  <2>4. CASE ProcessExec(e)
    BY <1>1, <2>2, <2>4 DEF ProcessExec, Put, EpochInv
  <2>5. CASE ProcessFork(e)
    BY <1>1, <2>0, <2>1, <2>5 DEF ProcessFork, Put, EpochInv
  <2>6. CASE UNCHANGED current_processes
    BY <1>1, <2>6 DEF EpochInv
  <2>. QED
    BY <2>3, <2>4, <2>5, <2>6
    DEF process_event, ProcessOpen, ProcessClose, ProcessMmap, ProcessUnlink,
        ProcessRenameSource, ProcessRenameDestination, RejectRenameDestination,
        SwallowRootExec, ProcessExit, processVars
<1>8. ASSUME NEW p \in Pids, NEW b \in Nat, Newest(p, b)'
      PROVE  Reached(current_processes'[p].exec_epoch, Execs(Done', p, b))
  <2>1. CASE e.kind = "fork" /\ p = e.payload.child
    <3>. DEFINE n == e.payload.born
                new == new_process(p)
    <3>1. ProcessFork(e)
      BY <2>1 DEF process_event, ProcessOpen, ProcessClose, ProcessMmap, ProcessUnlink,
                  ProcessRenameSource, ProcessRenameDestination, RejectRenameDestination,
                  SwallowRootExec, ProcessExec, ProcessExit
    <3>2. current_processes'[p] = new
      BY <2>1, <3>1 DEF ProcessFork, Put
    <3>3. PICK l : l = new.lifetime
      OBVIOUS
    <3>4. NamedAs(l, p, n)'
      BY <2>1, <3>3, ChildNamed
    <3>5. NamedAs(current_processes[p].lifetime, p, b)'
      BY <1>1, <1>8 DEF LifeInv
    <3>6. l = current_processes'[p].lifetime
      BY <3>2, <3>3
    <3>7. NamedAs(l, p, b)'
      BY <3>5, <3>6 DEF NamedAs
    <3>8. b = n
      BY <3>4, <3>7 DEF LifeInv
    <3>9. ASSUME NEW d \in Execs(Done, p, n)
          PROVE  FALSE
      <4>1. d \in Done /\ d \in Emitted /\ d.kind = "exec" /\ d.tgid = p /\ d.born = n
        BY <1>1 DEF Execs, Emitted
      <4>2. d.source = "tree" /\ p # Root
        BY <1>1, <2>1, <4>1 DEF FirstInv, RawEvent
      <4>3. PICK f \in Forks(Emitted) : ForkOf(f, p, n) /\ f.timestamp_ns < d.timestamp_ns
        BY <4>1, <4>2 DEF BirthInv
      <4>4. e \in Forks(Emitted)
        BY <1>1, <2>1 DEF Forks
      <4>5. f = e
        BY <2>1, <4>3, <4>4 DEF BirthInv, ForkOf
      <4>6. d.timestamp_ns <= e.timestamp_ns
        BY <4>1 DEF LifeInv
      <4>7. d.timestamp_ns \in Nat /\ e.timestamp_ns \in Nat
        BY <1>1, <4>1 DEF SeenInv
      <4>. QED
        BY <4>3, <4>5, <4>6, <4>7
    <3>10. Execs(Done', p, b) = {}
      BY <2>1, <3>8, <3>9, ExecsTaken
    <3>11. new.exec_epoch = 0
      BY DEF new_process, Process
    <3>. QED
      BY <3>2, <3>10, <3>11 DEF Reached
  <2>2. CASE ~(e.kind = "fork" /\ p = e.payload.child)
    <3>1. /\ Announced(p, b)'
          /\ \A f \in Forks(Done') : f.payload.child = p => f.payload.born <= b
      BY <1>8 DEF Newest, Forks, Done
    <3>2. Announced(p, b)
      BY <2>2, <3>1, SameNames, ChildNamed
    <3>3. Newest(p, b)
      BY <3>1, <3>2, DoneStep DEF Newest
    <3>4. /\ p \in DOMAIN current_processes
          /\ NamedAs(current_processes[p].lifetime, p, b)
          /\ Reached(current_processes[p].exec_epoch, Execs(Done, p, b))
      BY <1>1, <3>3 DEF LifeInv, EpochInv
    <3>5. CASE e.kind = "exec" /\ ~e.payload.first /\ p = e.tgid
      <4>1. ProcessExec(e) /\ e.source = "tree"
        BY <3>5, FirstSwallowed
      <4>2. current_processes'[p] = next_epoch(current_process(e.tgid))
        BY <3>5, <4>1 DEF ProcessExec, Put
      <4>3. current_processes'[p].exec_epoch = e.image
        BY <3>5, <4>2, ExecEpoch
      <4>4. NamedAs(current_processes[p].lifetime, p, e.born)
        BY <1>1, <3>5, <4>1, TakenIsNewest
      <4>5. b = e.born
        BY <3>4, <4>4 DEF LifeInv
      <4>6. Execs(Done', p, b) = Execs(Done, p, b) \cup {e}
        BY <3>5, <4>5, ExecsTaken
      <4>7. \A d \in Execs(Done, p, b) : d.timestamp_ns <= e.timestamp_ns
        BY DEF LifeInv, Execs
      <4>8. e.timestamp_ns <= e.timestamp_ns
        BY <1>1 DEF SeenInv
      <4>. QED
        BY <4>3, <4>6, <4>7, <4>8 DEF Reached
    <3>6. CASE ~(e.kind = "exec" /\ ~e.payload.first /\ p = e.tgid)
      <4>1. Execs(Done', p, b) = Execs(Done, p, b)
        BY <3>6, ExecsTaken
      <4>2. e.kind = "exec" => e.tgid # p \/ SwallowRootExec(e)
        BY <3>6, FirstSwallowed
      <4>3. current_processes'[p] = current_processes[p]
        BY <2>2, <3>4, <4>2, EntryKept
      <4>. QED
        BY <3>4, <4>1, <4>3
    <3>. QED
      BY <3>5, <3>6
  <2>. QED
    BY <2>1, <2>2
<1>9. (\A p \in Pids, b \in Nat : Newest(p, b) =>
         Reached(current_processes[p].exec_epoch, Execs(Done, p, b)))'
  BY <1>8 DEF Reached, Execs
<1>10. (root_initial_exec_pending <=> FirstExecs(Done) = {})'
  BY <1>6 DEF FirstExecs
<1>. QED
  BY <1>1, <1>4, <1>5, <1>7, <1>9, <1>10 DEF EpochInv

LEMMA EpochStep ==
  ASSUME TypeInv, SeenInv, BirthInv, ExitInv, LifeInv, LifeInv', OrderInv, FirstInv, ImageInv,
         EpochInv, Wide, [Next]_vars
  PROVE  EpochInv'
<1>1. ASSUME UNCHANGED <<events, current_processes, pending_renames, root_initial_exec_pending>>,
             Done' = Done, phase' # "done" => phase # "done"
      PROVE  EpochInv'
  <2>1. /\ \A p, b : Newest(p, b)' <=> Newest(p, b)
        /\ \A p, b : Execs(Done, p, b)' = Execs(Done, p, b)
        /\ FirstExecs(Done)' = FirstExecs(Done)
    BY <1>1 DEF Newest, Announced, Forks, Execs, FirstExecs
  <2>2. (phase # "done" => \A p \in Pids, b \in Nat : Newest(p, b) =>
           Reached(current_processes[p].exec_epoch, Execs(Done, p, b)))'
    <3>. SUFFICES ASSUME phase' # "done", NEW p \in Pids, NEW b \in Nat, Newest(p, b)'
                  PROVE  Reached(current_processes[p].exec_epoch, Execs(Done, p, b))'
      OBVIOUS
    <3>1. Reached(current_processes[p].exec_epoch, Execs(Done, p, b))
      BY <1>1, <2>1 DEF EpochInv
    <3>. QED
      BY <1>1, <3>1 DEF Reached, Execs
  <2>3. EpochsTold'
    BY <1>1 DEF EpochInv, EpochsTold, Reported
  <2>. QED
    BY <1>1, <2>1, <2>2, <2>3 DEF EpochInv
<1>2. CASE Drain \/ WaitPid \/ Quiesced
  <2>1. /\ UNCHANGED <<events, current_processes, pending_renames, root_initial_exec_pending>>
        /\ phase \in {"collect", "quiesce"}
        /\ phase' \in {"collect", "quiesce"} \/ (phase' = "process" /\ todo' = raw_events')
    BY <1>2 DEF Drain, WaitPid, Quiesced, processVars, tableVars
  <2>2. Done = {} /\ Done' = {}
    BY <2>1 DEF Done
  <2>. QED
    BY <1>1, <2>1, <2>2
<1>3. CASE UNCHANGED collectorVars
  <2>1. UNCHANGED <<phase, raw_events, todo, events, current_processes, pending_renames,
                    root_initial_exec_pending>>
    BY <1>3 DEF collectorVars, bufferVars, processVars, tableVars
  <2>2. Done' = Done
    BY <2>1 DEF Done
  <2>. QED
    BY <1>1, <2>1, <2>2
<1>4. CASE Finish
  <2>1. /\ phase' = "done" /\ pending_renames' = <<>> /\ Done' = Done
        /\ UNCHANGED root_initial_exec_pending
    BY <1>4 DEF Finish, Done
  <2>2. EpochsTold'
    <3>. SUFFICES ASSUME NEW x \in Reported', x.of.source = "tree"
                  PROVE  x.process.exec_epoch = x.of.image
      BY DEF EpochsTold
    <3>1. PICK y \in Reported : x.process = y.process /\ x.of = y.of
      BY <1>4, FinishReports
    <3>. QED
      BY <3>1 DEF EpochInv, EpochsTold
  <2>3. FirstExecs(Done)' = FirstExecs(Done)
    BY <2>1 DEF FirstExecs
  <2>. QED
    BY <2>1, <2>2, <2>3 DEF EpochInv
<1>. QED
  BY <1>2, <1>3, <1>4, EpochProcessed DEF Next, CollectorNext, vars

LEMMA EpochInitially == Init => OrderInv /\ FirstInv /\ ImageInv /\ EpochInv
<1>. SUFFICES ASSUME Init PROVE OrderInv /\ FirstInv /\ ImageInv /\ EpochInv
  OBVIOUS
<1>1. /\ Emitted = {} /\ Done = {} /\ events = <<>> /\ clock = 0 /\ ~started
      /\ image = [p \in Pids |-> 0] /\ phase = "collect" /\ pending_renames = <<>>
      /\ root_initial_exec_pending
      /\ state = [p \in Pids |-> IF p = Root THEN "tree" ELSE "free"]
  BY DEF Init, WorldInit, Emitted, Done
<1>2. /\ \A p, b : Execs(Emitted, p, b) = {} /\ Execs(Done, p, b) = {}
      /\ FirstExecs(Emitted) = {} /\ FirstExecs(Done) = {}
  BY <1>1 DEF Execs, FirstExecs
<1>3. OrderInv /\ FirstInv
  BY <1>1, <1>2 DEF OrderInv, FirstInv
<1>4. ImageInv
  BY <1>1, <1>2 DEF ImageInv, Reached
<1>5. /\ DOMAIN current_processes = {Root} /\ current_processes[Root] = root_process
  BY DEF Init
<1>6. root_process.exec_epoch = 0 /\ "exec_epoch" \in DOMAIN root_process
  BY DEF root_process, Process
<1>7. Reported = {}
  BY <1>1 DEF Reported
<1>8. \A p, b : Newest(p, b) => p = Root
  BY <1>1 DEF Newest, Announced, Forks
<1>9. EpochInv
  BY <1>1, <1>2, <1>5, <1>6, <1>7, <1>8 DEF EpochInv, EpochsTold, Reached
<1>. QED
  BY <1>3, <1>4, <1>9

\* When no two processors read the same timestamp, and the u32 counters do not
\* saturate, every result of the fork tree names its process and its image.
THEOREM TreeLifetimesCorrect ==
  ASSUME Wide, ~Ties
  PROVE  Spec => []TreeLifetimesTruthful
<1>. DEFINE IInv == /\ RootInv /\ ExitInv /\ SeenInv /\ BirthInv /\ LifeInv
                    /\ OrderInv /\ FirstInv /\ ImageInv /\ EpochInv
<1>1. Init => IInv
  BY LifeInitially, EpochInitially
<1>2. TypeInv /\ IInv /\ [Next]_vars => IInv'
  <2>. SUFFICES ASSUME TypeInv, IInv, [Next]_vars PROVE IInv'
    OBVIOUS
  <2>1. RootInv' /\ ExitInv' /\ SeenInv' /\ BirthInv' /\ LifeInv'
    BY RootStep, ExitStep, SeenStep, BirthStep, LifeStep DEF TypeInv
  <2>2. OrderInv' /\ FirstInv' /\ ImageInv' /\ EpochInv'
    BY <2>1, OrderStep, FirstStep, ImageStep, EpochStep
  <2>. QED
    BY <2>1, <2>2
<1>3. IInv => TreeLifetimesTruthful
  BY LifeTold DEF EpochInv, TreeLifetimesTruthful
<1>. QED
  BY TypeInitially, TypeStep, <1>1, <1>2, <1>3, PTL DEF Spec
=============================================================================
