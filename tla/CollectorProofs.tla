--------------------------- MODULE CollectorProofs --------------------------
(***************************************************************************)
(* Proof that the collector never hands out a lifetime under which         *)
(* something is already filed, for every set of processes, descriptors and *)
(* names and every width of the generation counter.                        *)
(*                                                                         *)
(* The tables fd_table, process_cwds, current_processes and                *)
(* pending_renames outlive the processes they speak of, so freshness is    *)
(* not a matter of one step: FreshInv says that every lifetime any of them *)
(* mentions has a generation below the next one of its PID, or that the    *)
(* counter of that PID is saturated.  Counters only grow, by one start at  *)
(* a time.                                                                 *)
(*                                                                         *)
(* Below: the types of the state, and the exit of the traced command.      *)
(***************************************************************************)
EXTENDS Collector, TLAPS, FiniteSetTheorems

Counters(g) == g \in [DOMAIN g -> Nat]

\* next_generation, for a given map of counters.
NextOf(g, pid) == IF pid \in DOMAIN g THEN g[pid] ELSE 0

\* start_process has handed out this lifetime.
Used(g, lifetime) ==
  /\ lifetime.generation \in Nat
  /\ \/ lifetime.generation < NextOf(g, lifetime.pid)
     \/ NextOf(g, lifetime.pid) >= MaxGeneration

\* From the counters g to the counters h every PID is started at most once.
Grown(g, h) ==
  /\ Counters(h)
  /\ \A p : \/ NextOf(h, p) = NextOf(g, p)
            \/ NextOf(h, p) = saturating_add(NextOf(g, p))

FreshInv ==
  /\ Counters(next_generations)
  /\ \A p \in DOMAIN current_processes :
        Used(next_generations, current_processes[p].lifetime)
  /\ \A l \in DOMAIN process_cwds : Used(next_generations, l)
  /\ \A k \in DOMAIN fd_table : Used(next_generations, k[1])
  /\ \A k \in DOMAIN pending_renames :
        Used(next_generations, pending_renames[k].process.lifetime)
-----------------------------------------------------------------------------
(* Counters.                                                               *)

\* Counters are natural numbers, also of a PID that was never seen.
LEMMA NextOfNat ==
  ASSUME NEW g, Counters(g), NEW p
  PROVE  NextOf(g, p) \in Nat
BY DEF Counters, NextOf

\* A lifetime that was handed out stays handed out.
LEMMA UsedForGood ==
  ASSUME NEW g, NEW h, NEW l, Counters(g), Grown(g, h), Used(g, l)
  PROVE  Used(h, l)
<1>1. NextOf(g, l.pid) \in Nat
  BY NextOfNat
<1>2. \/ NextOf(h, l.pid) = NextOf(g, l.pid)
      \/ NextOf(h, l.pid) = saturating_add(NextOf(g, l.pid))
  BY DEF Grown
<1>. QED
  BY <1>1, <1>2, CollectorConstantsOK DEF Used, saturating_add

\* A step without start_process.
LEMMA GrownRefl ==
  ASSUME NEW g, Counters(g)
  PROVE  Grown(g, g)
BY DEF Grown

\* What start_process does to the counters.
LEMMA Started ==
  ASSUME NEW g, NEW p, Counters(g)
  PROVE  LET h == Put(g, p, saturating_add(NextOf(g, p)))
         IN  Grown(g, h) /\ Used(h, Lifetime(p, NextOf(g, p)))
<1>. DEFINE h == Put(g, p, saturating_add(NextOf(g, p)))
<1>1. NextOf(g, p) \in Nat
  BY NextOfNat
<1>2. saturating_add(NextOf(g, p)) \in Nat
  BY <1>1 DEF saturating_add
<1>3. Counters(h)
  BY <1>2 DEF Counters, Put
<1>4. \A q : NextOf(h, q) = IF q = p THEN saturating_add(NextOf(g, p))
                                     ELSE NextOf(g, q)
  BY DEF NextOf, Put
<1>5. Grown(g, h)
  BY <1>3, <1>4 DEF Grown
<1>6. Used(h, Lifetime(p, NextOf(g, p)))
  BY <1>1, <1>4, CollectorConstantsOK DEF Used, Lifetime, saturating_add
<1>. QED
  BY <1>5, <1>6

\* current_process returns a lifetime that has been handed out, by then.
LEMMA Known ==
  ASSUME FreshInv, NEW pid
  PROVE  /\ Grown(next_generations, GenerationsWith(pid))
         /\ Used(GenerationsWith(pid), current_process(pid).lifetime)
<1>1. CASE pid \in DOMAIN current_processes
  BY <1>1, GrownRefl DEF FreshInv, GenerationsWith, current_process
<1>2. CASE pid \notin DOMAIN current_processes
  <2>1. next_generation(pid) = NextOf(next_generations, pid)
    BY DEF next_generation, NextOf
  <2>2. current_process(pid).lifetime = Lifetime(pid, NextOf(next_generations, pid))
    BY <1>2, <2>1 DEF current_process, new_process, Process
  <2>. QED
    BY <1>2, <2>1, <2>2, Started DEF FreshInv, GenerationsWith
<1>. QED
  BY <1>1, <1>2

\* Both processes of a fork have been handed out, by then.
LEMMA Forked ==
  ASSUME FreshInv, NEW pid, NEW c
  PROVE  LET h == Put(GenerationsWith(pid), c, saturating_add(next_generation(c)))
         IN  /\ Grown(next_generations, h)
             /\ Used(h, current_process(pid).lifetime)
             /\ Used(h, new_process(c).lifetime)
<1>. DEFINE g == GenerationsWith(pid)
            h == Put(g, c, saturating_add(next_generation(c)))
<1>1. Grown(next_generations, g) /\ Used(g, current_process(pid).lifetime)
  BY Known
<1>2. /\ next_generation(c) = NextOf(next_generations, c)
      /\ next_generation(c) \in Nat
  BY NextOfNat DEF next_generation, NextOf, FreshInv
<1>3. saturating_add(next_generation(c)) \in Nat
  BY <1>2, CollectorConstantsOK DEF saturating_add
<1>4. Counters(h)
  BY <1>1, <1>3 DEF Grown, Counters, Put
<1>5. \A q : NextOf(h, q) = IF q = c THEN saturating_add(next_generation(c))
                                     ELSE NextOf(g, q)
  BY DEF NextOf, Put
<1>6. Grown(next_generations, h)
  BY <1>1, <1>2, <1>4, <1>5 DEF Grown
<1>7. Used(h, new_process(c).lifetime)
  BY <1>2, <1>5, CollectorConstantsOK
  DEF Used, new_process, Process, Lifetime, saturating_add
<1>8. Used(h, current_process(pid).lifetime)
  <2>. DEFINE l == current_process(pid).lifetime
  <2>1. NextOf(g, c) \in Nat
    BY <1>1, NextOfNat DEF Grown
  <2>2. NextOf(g, c) = next_generation(c) \/ NextOf(g, c) = saturating_add(next_generation(c))
    BY <1>1, <1>2 DEF Grown
  <2>3. NextOf(h, l.pid) >= NextOf(g, l.pid) \/ NextOf(h, l.pid) = NextOf(g, l.pid)
    BY <1>2, <1>3, <1>5, <2>1, <2>2, CollectorConstantsOK DEF saturating_add
  <2>4. NextOf(g, l.pid) \in Nat /\ NextOf(h, l.pid) \in Nat
    BY <1>1, <1>4, NextOfNat DEF Grown
  <2>. QED
    BY <1>1, <2>3, <2>4, CollectorConstantsOK DEF Used
<1>. QED
  BY <1>6, <1>7, <1>8
-----------------------------------------------------------------------------
(* Steps.                                                                  *)

\* A step may add to a table only lifetimes that have been handed out.
LEMMA Preserved ==
  ASSUME FreshInv,
         Grown(next_generations, next_generations'),
         \A p \in DOMAIN current_processes' :
            \/ Used(next_generations', current_processes'[p].lifetime)
            \/ /\ p \in DOMAIN current_processes
               /\ current_processes'[p].lifetime = current_processes[p].lifetime,
         \A l \in DOMAIN process_cwds' :
            Used(next_generations', l) \/ l \in DOMAIN process_cwds,
         \A k \in DOMAIN fd_table' :
            Used(next_generations', k[1]) \/ k \in DOMAIN fd_table,
         \A k \in DOMAIN pending_renames' :
            \/ Used(next_generations', pending_renames'[k].process.lifetime)
            \/ /\ k \in DOMAIN pending_renames
               /\ pending_renames'[k] = pending_renames[k]
  PROVE  FreshInv'
<1>1. \A l : Used(next_generations, l) => Used(next_generations', l)
  BY UsedForGood DEF FreshInv
<1>2. Counters(next_generations')
  BY DEF Grown
<1>. QED
  BY <1>1, <1>2 DEF FreshInv

\* resolve_path files a working directory under the lifetime it resolves for.
LEMMA CwdsDomain ==
  ASSUME NEW process, NEW style
  PROVE  DOMAIN CwdsAfter(process, style)
           \subseteq DOMAIN process_cwds \cup {process.lifetime}
BY DEF CwdsAfter, Put

\* process_event for the kinds that use one process, known or started here:
\* what they leave in the tables is filed under its lifetime.
LEMMA OneProcess ==
  ASSUME FreshInv, NEW pid,
         KnowProcess(pid),
         DOMAIN process_cwds'
           \subseteq DOMAIN process_cwds \cup {current_process(pid).lifetime},
         \A k \in DOMAIN fd_table' :
            k \in DOMAIN fd_table \/ k[1] = current_process(pid).lifetime,
         \A k \in DOMAIN pending_renames' :
            \/ pending_renames'[k].process = current_process(pid)
            \/ /\ k \in DOMAIN pending_renames
               /\ pending_renames'[k] = pending_renames[k]
  PROVE  FreshInv' /\ Grown(next_generations, next_generations')
<1>1. next_generations' = GenerationsWith(pid)
  BY DEF KnowProcess
<1>2. /\ Grown(next_generations, next_generations')
      /\ Used(next_generations', current_process(pid).lifetime)
  BY <1>1, Known
<1>3. \A p \in DOMAIN current_processes' :
         \/ Used(next_generations', current_processes'[p].lifetime)
         \/ /\ p \in DOMAIN current_processes
            /\ current_processes'[p].lifetime = current_processes[p].lifetime
  BY <1>2 DEF KnowProcess, Put
<1>. QED
  BY <1>2, <1>3, Preserved

\* A step that starts nothing and only takes entries away.
LEMMA NothingAdded ==
  ASSUME FreshInv, UNCHANGED <<next_generations, process_cwds>>,
         DOMAIN current_processes' \subseteq DOMAIN current_processes,
         \A p \in DOMAIN current_processes' :
            current_processes'[p] = current_processes[p],
         DOMAIN fd_table' \subseteq DOMAIN fd_table,
         DOMAIN pending_renames' \subseteq DOMAIN pending_renames,
         \A k \in DOMAIN pending_renames' :
            pending_renames'[k] = pending_renames[k]
  PROVE  FreshInv' /\ Grown(next_generations, next_generations')
<1>1. Grown(next_generations, next_generations')
  BY GrownRefl DEF FreshInv
<1>. QED
  BY <1>1, Preserved

\* Every step keeps FreshInv and starts each PID at most once.
LEMMA Step ==
  ASSUME FreshInv, [Next]_vars
  PROVE  FreshInv' /\ Grown(next_generations, next_generations')
<1>1. ASSUME NEW e, ProcessOpen(e)
      PROVE  FreshInv' /\ Grown(next_generations, next_generations')
  <2>. DEFINE process == current_process(e.tgid)
  <2>1. KnowProcess(e.tgid) /\ UNCHANGED pending_renames
    BY <1>1 DEF ProcessOpen
  <2>2. DOMAIN process_cwds' \subseteq DOMAIN process_cwds \cup {process.lifetime}
    BY <1>1, CwdsDomain DEF ProcessOpen
  <2>3. \A k \in DOMAIN fd_table' :
           k \in DOMAIN fd_table \/ k[1] = process.lifetime
    BY <1>1 DEF ProcessOpen, Put
  <2>. QED
    BY <2>1, <2>2, <2>3, OneProcess
<1>2. ASSUME NEW e, ProcessClose(e)
      PROVE  FreshInv' /\ Grown(next_generations, next_generations')
  <2>1. KnowProcess(e.tgid) /\ UNCHANGED <<process_cwds, pending_renames>>
    BY <1>2 DEF ProcessClose
  <2>2. DOMAIN fd_table' \subseteq DOMAIN fd_table
    BY <1>2 DEF ProcessClose, Delete, Restrict
  <2>. QED
    BY <2>1, <2>2, OneProcess
<1>3. ASSUME NEW e, ProcessMmap(e) \/ ProcessExit(e)
      PROVE  FreshInv' /\ Grown(next_generations, next_generations')
  <2>1. KnowProcess(e.tgid) /\ UNCHANGED <<process_cwds, fd_table, pending_renames>>
    BY <1>3 DEF ProcessMmap, ProcessExit, tableVars
  <2>. QED
    BY <2>1, OneProcess
<1>4. ASSUME NEW e, ProcessUnlink(e)
      PROVE  FreshInv' /\ Grown(next_generations, next_generations')
  <2>1. KnowProcess(e.tgid) /\ UNCHANGED <<fd_table, pending_renames>>
    BY <1>4 DEF ProcessUnlink
  <2>2. DOMAIN process_cwds'
          \subseteq DOMAIN process_cwds \cup {current_process(e.tgid).lifetime}
    BY <1>4, CwdsDomain DEF ProcessUnlink
  <2>. QED
    BY <2>1, <2>2, OneProcess
<1>5. ASSUME NEW e, ProcessRenameSource(e)
      PROVE  FreshInv' /\ Grown(next_generations, next_generations')
  <2>. DEFINE process == current_process(e.tgid)
  <2>1. KnowProcess(e.tgid) /\ UNCHANGED fd_table
    BY <1>5 DEF ProcessRenameSource
  <2>2. DOMAIN process_cwds' \subseteq DOMAIN process_cwds \cup {process.lifetime}
    BY <1>5, CwdsDomain DEF ProcessRenameSource
  <2>3. \A k \in DOMAIN pending_renames' :
           \/ pending_renames'[k].process = process
           \/ /\ k \in DOMAIN pending_renames
              /\ pending_renames'[k] = pending_renames[k]
    BY <1>5 DEF ProcessRenameSource, Put
  <2>. QED
    BY <2>1, <2>2, <2>3, OneProcess
<1>6. ASSUME NEW e, ProcessRenameDestination(e)
      PROVE  FreshInv' /\ Grown(next_generations, next_generations')
  <2>. DEFINE key == <<e.pid, e.timestamp_ns>>
              lifetime == pending_renames[key].process.lifetime
  <2>1. UNCHANGED <<current_processes, next_generations>> /\ key \in DOMAIN pending_renames
    BY <1>6 DEF ProcessRenameDestination, processVars
  <2>2. Grown(next_generations, next_generations')
    BY <2>1, GrownRefl DEF FreshInv
  <2>3. Used(next_generations', lifetime)
    BY <2>1 DEF FreshInv
  <2>4. DOMAIN process_cwds' \subseteq DOMAIN process_cwds \cup {lifetime}
    BY <1>6, CwdsDomain DEF ProcessRenameDestination
  <2>5. DOMAIN fd_table' \subseteq DOMAIN fd_table
    BY <1>6 DEF ProcessRenameDestination, rewrite_open_file_paths
  <2>6. \A k \in DOMAIN pending_renames' :
           k \in DOMAIN pending_renames /\ pending_renames'[k] = pending_renames[k]
    BY <1>6 DEF ProcessRenameDestination, Delete, Restrict
  <2>. QED
    BY <2>1, <2>2, <2>3, <2>4, <2>5, <2>6, Preserved
<1>7. ASSUME NEW e, RejectRenameDestination(e)
      PROVE  FreshInv' /\ Grown(next_generations, next_generations')
  <2>1. UNCHANGED <<current_processes, next_generations, process_cwds, fd_table>>
    BY <1>7 DEF RejectRenameDestination, processVars
  <2>2. /\ DOMAIN pending_renames' \subseteq DOMAIN pending_renames
        /\ \A k \in DOMAIN pending_renames' :
              pending_renames'[k] = pending_renames[k]
    BY <1>7 DEF RejectRenameDestination, Delete, Restrict
  <2>. QED
    BY <2>1, <2>2, NothingAdded
<1>8. ASSUME NEW e, SwallowRootExec(e)
      PROVE  FreshInv' /\ Grown(next_generations, next_generations')
  BY <1>8, NothingAdded DEF SwallowRootExec, tableVars
<1>9. ASSUME NEW e, ProcessExec(e)
      PROVE  FreshInv' /\ Grown(next_generations, next_generations')
  <2>. DEFINE process == next_epoch(current_process(e.tgid))
  <2>1. process.lifetime = current_process(e.tgid).lifetime
    BY DEF next_epoch, current_process, new_process, Process
  <2>2. /\ Grown(next_generations, next_generations')
        /\ Used(next_generations', process.lifetime)
    BY <1>9, <2>1, Known DEF ProcessExec
  <2>3. \A p \in DOMAIN current_processes' :
           \/ Used(next_generations', current_processes'[p].lifetime)
           \/ /\ p \in DOMAIN current_processes
              /\ current_processes'[p].lifetime = current_processes[p].lifetime
    BY <1>9, <2>2 DEF ProcessExec, Put
  <2>4. DOMAIN process_cwds' \subseteq DOMAIN process_cwds \cup {process.lifetime}
    BY <1>9, CwdsDomain DEF ProcessExec
  <2>5. UNCHANGED <<fd_table, pending_renames>>
    BY <1>9 DEF ProcessExec
  <2>. QED
    BY <2>2, <2>3, <2>4, <2>5, Preserved
<1>10. ASSUME NEW e, ProcessFork(e)
       PROVE  FreshInv' /\ Grown(next_generations, next_generations')
  <2>. DEFINE parent == current_process(e.tgid)
              child == new_process(e.payload.child)
  <2>1. /\ Grown(next_generations, next_generations')
        /\ Used(next_generations', parent.lifetime)
        /\ Used(next_generations', child.lifetime)
    BY <1>10, Forked DEF ProcessFork
  <2>2. \A p \in DOMAIN current_processes' :
           \/ Used(next_generations', current_processes'[p].lifetime)
           \/ /\ p \in DOMAIN current_processes
              /\ current_processes'[p].lifetime = current_processes[p].lifetime
    BY <1>10, <2>1 DEF ProcessFork, Put
  <2>3. DOMAIN process_cwds' \subseteq DOMAIN process_cwds \cup {child.lifetime}
    BY <1>10 DEF ProcessFork, Put
  <2>4. \A k \in DOMAIN fd_table' : k \in DOMAIN fd_table \/ k[1] = child.lifetime
    BY <1>10 DEF ProcessFork, Inherited
  <2>5. UNCHANGED pending_renames
    BY <1>10 DEF ProcessFork
  <2>. QED
    BY <2>1, <2>2, <2>3, <2>4, <2>5, Preserved
<1>11. CASE Finish
  <2>1. UNCHANGED <<next_generations, process_cwds, fd_table>>
    BY <1>11 DEF Finish
  <2>2. /\ DOMAIN current_processes' \subseteq DOMAIN current_processes
        /\ \A p \in DOMAIN current_processes' :
              current_processes'[p] = current_processes[p]
    BY <1>11 DEF Finish, Delete, Restrict
  <2>3. DOMAIN pending_renames' = {}
    BY <1>11 DEF Finish
  <2>. QED
    BY <2>1, <2>2, <2>3, NothingAdded
<1>12. CASE Drain \/ WaitPid \/ Quiesced
  BY <1>12, NothingAdded DEF Drain, WaitPid, Quiesced, processVars, tableVars
<1>13. CASE (WorldNext /\ UNCHANGED collectorVars) \/ UNCHANGED vars
  BY <1>13, NothingAdded DEF vars, collectorVars, processVars, tableVars
<1>. QED
  BY <1>1, <1>2, <1>3, <1>4, <1>5, <1>6, <1>7, <1>8, <1>9, <1>10, <1>11, <1>12,
     <1>13 DEF Next, CollectorNext, process_event
-----------------------------------------------------------------------------
\* Only the lifetime of the root has been handed out at the start.
LEMMA Initially == Init => FreshInv
BY CollectorConstantsOK
DEF Init, FreshInv, Counters, Used, NextOf, root_process, Process, Lifetime

\* Whenever start_process takes a generation of a PID, neither fd_table nor
\* process_cwds has an entry under the lifetime it makes: a process that gets
\* a recycled PID cannot be given descriptors or a working directory of the
\* process that had it before.
THEOREM LifetimesFreshCorrect == Spec => LifetimesFresh
<1>. DEFINE Fresh ==
       \A p \in Pids :
         next_generation(p)' # next_generation(p) =>
           /\ new_process(p).lifetime \notin DOMAIN process_cwds
           /\ \A k \in DOMAIN fd_table : k[1] # new_process(p).lifetime
<1>1. FreshInv /\ [Next]_vars => FreshInv'
  BY Step
<1>2. FreshInv /\ [Next]_vars => [Fresh]_vars
  <2>. SUFFICES ASSUME FreshInv, [Next]_vars, NEW p \in Pids,
                       next_generation(p)' # next_generation(p)
                PROVE  ~Used(next_generations, new_process(p).lifetime)
    BY DEF FreshInv
  <2>1. Grown(next_generations, next_generations')
    BY Step
  <2>2. /\ next_generation(p) = NextOf(next_generations, p)
        /\ next_generation(p)' = NextOf(next_generations', p)
    BY DEF next_generation, NextOf
  <2>3. next_generation(p) \in Nat
    BY <2>2, NextOfNat DEF FreshInv
  <2>4. next_generation(p)' = saturating_add(next_generation(p))
    BY <2>1, <2>2 DEF Grown
  <2>5. next_generation(p) < MaxGeneration
    BY <2>3, <2>4, CollectorConstantsOK DEF saturating_add
  <2>. QED
    BY <2>2, <2>3, <2>5, CollectorConstantsOK
    DEF Used, new_process, Process, Lifetime
<1>. QED
  BY Initially, <1>1, <1>2, PTL DEF Spec, LifetimesFresh

-----------------------------------------------------------------------------
(* Proofs that the state of the collector keeps its types and that a       *)
(* finished trace reports the exit of the traced command once, with the    *)
(* status of waitpid, for every set of processes, descriptors and names,   *)
(* with and without ties and whether or not descendants outlive the root.  *)
(*                                                                         *)
(* Both rest on what the raw events look like, and so on what the machine  *)
(* may do: TasksInv has the tasks, Heard what an event says of the task    *)
(* that caused it, and RawEvent what process_event may rely on, also after *)
(* drain_ring_into_buffer has copied the event.                            *)

\* Everything the probes have reported so far.
Emitted == ring \cup raw_events

Fields == {"kind", "timestamp_ns", "pid", "tgid", "source", "payload", "born",
           "image"}

RawEvent(e) ==
  /\ DOMAIN e = Fields
  /\ e.pid \in Pids /\ e.tgid \in Pids /\ e.source \in {"tree", "ext"}
  /\ e.timestamp_ns \in Nat /\ e.born \in Nat /\ e.image \in Nat
  /\ e.kind = "open" => "fd" \in DOMAIN e.payload /\ e.payload.fd \in Fds
  /\ e.kind = "fork" => /\ e.payload.child \in Pids \ {Root}
                        /\ e.payload.born \in Nat

\* Tasks: a thread has a living leader, an unrelated process is one task, and
\* nobody else ever gets the PID of the root.
TasksInv ==
  /\ state \in [Pids -> {"free", "tree", "ext", "zombie"}]
  /\ tg \in [Pids -> Pids]
  /\ birth \in [Pids -> Nat] /\ image \in [Pids -> Nat]
  /\ started \in BOOLEAN
  /\ \A t \in Pids : state[t] = "tree" => /\ state[tg[t]] = "tree"
                                          /\ tg[tg[t]] = tg[t]
  /\ \A t \in Pids : state[t] = "ext" => tg[t] = t
  /\ tg[Root] = Root /\ birth[Root] = 1
  /\ state[Root] \in {"tree", "zombie", "free"}

\* Timestamps: no task has read a clock that is ahead of the last reading.
ClockInv ==
  /\ clock \in Nat /\ last \in [Pids -> Nat]
  /\ \A t \in Pids : last[t] <= clock

\* A step of task t has put e into the ring.
Heard(e, t) ==
  /\ state[t] \in {"tree", "ext"}
  /\ DOMAIN e = Fields
  /\ e.pid = t /\ e.tgid = tg[t] /\ e.source = state[t]
  /\ e.born = birth[tg[t]]
  /\ e.timestamp_ns = clock' /\ clock' \in Instants
  /\ clock' > last[t] /\ last'[t] = clock'
  /\ e.kind # "exec" => e.image = image[tg[t]]
  /\ e.kind = "open" => "fd" \in DOMAIN e.payload /\ e.payload.fd \in Fds
  /\ e.kind = "fork" => /\ state[t] = "tree" /\ started
                        /\ e.payload.child \in Pids \ {Root}
                        /\ state[e.payload.child] = "free"
                        /\ e.payload.born = birth[e.payload.child] + 1
                        /\ birth' = [birth EXCEPT ![e.payload.child] = @ + 1]
                        /\ clock' > last[e.payload.child]
                        /\ last'[e.payload.child] = clock'
  /\ e.kind = "exec" => /\ state[t] = "tree" /\ tg[t] = t
                        /\ e.payload.first = ~started /\ started'
                        /\ e.image = IF started THEN image[t] + 1 ELSE image[t]
                        /\ image' = [image EXCEPT ![t] = e.image]
  /\ e.kind = "exit" => /\ state[t] = "tree" /\ tg[t] = t
                        /\ state'[t] # "tree"
  /\ e.kind \in {"fork", "exec", "exit"} => ring' = ring \cup {e}
-----------------------------------------------------------------------------
(* What a step of the machine reports.                                     *)

\* Every event that a step of the machine adds to the ring was caused by one
\* task, and says of it what is true then.
LEMMA NewEvent ==
  ASSUME TasksInv, ClockInv, WorldNext, NEW e \in ring', e \notin ring
  PROVE  \E t \in Pids : Heard(e, t)
<1>. DEFINE Goal == \E t \in Pids : Heard(e, t)
<1>1. ASSUME NEW t \in Pids, NEW ts \in Instants, NEW fd \in Fds, NEW raw, NEW style,
             NEW mode, Open(t, ts, fd, raw, style, mode)
      PROVE  Goal
  <2>1. PICK f \in Files :
          Emit(t, ts, {Event("open", t, ts,
                [fd |-> fd, raw |-> raw, style |-> style, mode |-> mode,
                 path |-> Path(t, style, raw), file |-> f, content |-> content'[f],
                 arrived |-> content'[f]])})
    BY <1>1 DEF Open
  <2>. DEFINE d == Event("open", t, ts,
                [fd |-> fd, raw |-> raw, style |-> style, mode |-> mode,
                 path |-> Path(t, style, raw), file |-> f, content |-> content'[f],
                 arrived |-> content'[f]])
  <2>2. e = d /\ clock' = ts /\ ts > last[t] /\ last'[t] = ts
    BY <2>1 DEF Emit, Tick, ClockInv
  <2>3. state[t] \in {"tree", "ext"}
    BY <1>1 DEF Open, May
  <2>4. e.kind = "open" /\ e.payload.fd = fd /\ "fd" \in DOMAIN e.payload
    BY <2>2 DEF Event
  <2>. QED
    BY <2>2, <2>3, <2>4 DEF Heard, Event, Fields
<1>2. ASSUME NEW t \in Pids, NEW ts \in Instants, NEW fd,
             Close(t, ts, fd) \/ Mmap(t, ts, fd)
      PROVE  Goal
  <2>1. PICK kind \in {"close", "mmap"} :
          Emit(t, ts, {Event(kind, t, ts, FdPayload(tg[t], fd))})
    BY <1>2 DEF Close, Mmap
  <2>2. /\ e = Event(kind, t, ts, FdPayload(tg[t], fd))
        /\ clock' = ts /\ ts > last[t]
        /\ last'[t] = ts
    BY <2>1 DEF Emit, Tick, ClockInv
  <2>3. state[t] \in {"tree", "ext"}
    BY <1>2 DEF Close, Mmap, May
  <2>. QED
    BY <2>2, <2>3 DEF Heard, Event, Fields
<1>3. ASSUME NEW t \in Pids, NEW ts \in Instants, NEW raw, NEW to, NEW style,
             NEW exchange, Rename(t, ts, raw, to, style, exchange)
      PROVE  Goal
  <2>1. PICK kind \in {"rename_source", "rename_destination"}, payload \in {e.payload} :
          /\ e = Event(kind, t, ts, payload)
          /\ Tick(t, ts) /\ last' = [last EXCEPT ![t] = ts]
    BY <1>3 DEF Rename, Emit, Event
  <2>2. state[t] \in {"tree", "ext"}
    BY <1>3 DEF Rename, May
  <2>. QED
    BY <2>1, <2>2 DEF Heard, Event, Fields, Tick, ClockInv
<1>4. ASSUME NEW t \in Pids, NEW ts \in Instants, NEW raw, NEW style,
             Unlink(t, ts, raw, style)
      PROVE  Goal
  <2>1. /\ e = Event("unlink", t, ts,
                     [raw |-> raw, style |-> style, path |-> Path(t, style, raw)])
        /\ clock' = ts /\ ts > last[t] /\ last'[t] = ts
    BY <1>4 DEF Unlink, Emit, Tick, ClockInv
  <2>2. state[t] \in {"tree", "ext"}
    BY <1>4 DEF Unlink, May
  <2>. QED
    BY <2>1, <2>2 DEF Heard, Event, Fields
<1>5. ASSUME NEW t \in Pids, NEW ts \in Instants, NEW style, Exec(t, ts, style)
      PROVE  Goal
  <2>0. PICK d : ring' = ring \cup {d}
    BY <1>5 DEF Exec, Emit
  <2>1. /\ e = [Event("exec", t, ts,
                  [raw |-> Tool, style |-> style,
                   path |-> Path(t, style, Tool), first |-> ~started])
                  EXCEPT !.image = image'[t]]
        /\ clock' = ts /\ ts > last[t] /\ last'[t] = ts
    BY <1>5 DEF Exec, Emit, Tick, ClockInv
  <2>2. state[t] = "tree" /\ tg[t] = t /\ started'
    BY <1>5 DEF Exec, Alone
  <2>3. /\ image'[t] = IF started THEN image[t] + 1 ELSE image[t]
        /\ image' = [image EXCEPT ![t] = image'[t]]
    BY <1>5 DEF Exec, TasksInv
  <2>4. /\ e.kind = "exec" /\ e.image = image'[t] /\ e.payload.first = ~started
        /\ DOMAIN e = Fields
        /\ e.pid = t /\ e.tgid = tg[t] /\ e.source = state[t]
        /\ e.born = birth[tg[t]] /\ e.timestamp_ns = ts
    BY <2>1 DEF Event, Fields
  <2>. QED
    BY <2>0, <2>1, <2>2, <2>3, <2>4 DEF Heard
<1>6. ASSUME NEW t \in Pids, NEW ts \in Instants, NEW c \in Pids, NEW thread,
             Fork(t, ts, c, thread)
      PROVE  Goal
  <2>1. /\ e = Event("fork", t, ts, [child |-> c, born |-> birth[c] + 1])
        /\ ring' = ring \cup {e}
        /\ clock' = ts /\ ts > last[t] /\ ts > last[c]
        /\ last'[t] = ts /\ last'[c] = ts
    BY <1>6 DEF Fork, Tick, ClockInv
  <2>2. /\ state[t] = "tree" /\ started
        /\ state[c] = "free" /\ c # Root
        /\ birth' = [birth EXCEPT ![c] = @ + 1]
    BY <1>6 DEF Fork, May, Born
  <2>3. e.kind = "fork" /\ e.payload.child = c /\ e.payload.born = birth[c] + 1
    BY <2>1 DEF Event
  <2>. QED
    BY <2>1, <2>2, <2>3 DEF Heard, Event, Fields
<1>7. ASSUME NEW t \in Pids, NEW ts \in Instants, NEW status, Exit(t, ts, status)
      PROVE  Goal
  <2>1. /\ e = Event("exit", t, ts, [exit_code |-> 0])
        /\ ring' = ring \cup {e}
        /\ clock' = ts /\ ts > last[t] /\ last'[t] = ts
    BY <1>7 DEF Exit, Emit, Tick, ClockInv
  <2>2. state[t] = "tree" /\ tg[t] = t /\ state'[t] # "tree"
    BY <1>7 DEF Exit, Alone, TasksInv
  <2>. QED
    BY <2>1, <2>2 DEF Heard, Event, Fields
<1>8. ASSUME ring' = ring
      PROVE  Goal
  BY <1>8
<1>. QED
  BY <1>1, <1>2, <1>3, <1>4, <1>5, <1>6, <1>7, <1>8
  DEF WorldNext, Write, Chdir, SpawnExternal, SilentExit

\* An open, a close or another use of files leaves the tasks as they are.
FileStep ==
  \/ \E t \in Pids, ts \in Instants :
       \/ \E raw \in Names, style \in Styles :
            \/ \E fd \in Fds, mode \in Modes : Open(t, ts, fd, raw, style, mode)
            \/ \E to \in Names, exchange \in BOOLEAN :
                 Rename(t, ts, raw, to, style, exchange)
            \/ Unlink(t, ts, raw, style)
       \/ \E fd \in Fds : Close(t, ts, fd) \/ Mmap(t, ts, fd)
  \/ \E f \in Files : Write(f)
  \/ \E t \in Pids, dir \in Cwds : Chdir(t, dir)

LEMMA TasksAlone ==
  ASSUME FileStep
  PROVE  UNCHANGED <<state, tg, birth, image, started, code>>
<1>1. ASSUME NEW t, NEW ts, NEW raw, NEW style, NEW fd, NEW mode,
             Open(t, ts, fd, raw, style, mode)
      PROVE  UNCHANGED <<state, tg, birth, image, started, code>>
  BY <1>1 DEF Open
<1>2. ASSUME NEW t, NEW ts, NEW raw, NEW to, NEW style, NEW exchange,
             Rename(t, ts, raw, to, style, exchange)
      PROVE  UNCHANGED <<state, tg, birth, image, started, code>>
  BY <1>2 DEF Rename
<1>3. ASSUME NEW t, NEW ts, NEW raw, NEW style, Unlink(t, ts, raw, style)
      PROVE  UNCHANGED <<state, tg, birth, image, started, code>>
  BY <1>3 DEF Unlink, taskVars
<1>4. ASSUME NEW t, NEW ts, NEW fd, Close(t, ts, fd) \/ Mmap(t, ts, fd)
      PROVE  UNCHANGED <<state, tg, birth, image, started, code>>
  BY <1>4 DEF Close, Mmap, taskVars
<1>5. ASSUME NEW f, Write(f)
      PROVE  UNCHANGED <<state, tg, birth, image, started, code>>
  BY <1>5 DEF Write, taskVars
<1>6. ASSUME NEW t, NEW dir, Chdir(t, dir)
      PROVE  UNCHANGED <<state, tg, birth, image, started, code>>
  BY <1>6 DEF Chdir
<1>. QED
  BY <1>1, <1>2, <1>3, <1>4, <1>5, <1>6 DEF FileStep

\* The steps of the machine, those that use files taken together.
LEMMA WorldSteps ==
  ASSUME WorldNext
  PROVE  \/ FileStep
         \/ \E t \in Pids, ts \in Instants :
              \/ \E c \in Pids, thread \in BOOLEAN : Fork(t, ts, c, thread)
              \/ \E style \in Styles \ {"dirfd"} : Exec(t, ts, style)
              \/ \E status \in {0, 1} : Exit(t, ts, status)
         \/ \E t \in Pids, dir \in Cwds : SpawnExternal(t, dir)
         \/ \E t \in Pids : SilentExit(t)
BY DEF WorldNext, FileStep

\* A task comes into being alone or in the group of a living leader.
LEMMA BornTask ==
  ASSUME TasksInv, NEW c \in Pids, NEW kind \in {"tree", "ext"}, NEW group \in Pids,
         NEW dir, NEW fds, Born(c, kind, group, dir, fds),
         group = c \/ (kind = "tree" /\ state[group] = "tree" /\ tg[group] = group),
         UNCHANGED started
  PROVE  TasksInv'
<1>1. /\ state' = [state EXCEPT ![c] = kind] /\ tg' = [tg EXCEPT ![c] = group]
      /\ state[c] = "free" /\ c # Root
  BY DEF Born
<1>2. /\ birth' = [birth EXCEPT ![c] = @ + 1]
      /\ image' = [image EXCEPT ![c] = 0]
  BY DEF Born
<1>3. /\ state' \in [Pids -> {"free", "tree", "ext", "zombie"}]
      /\ tg' \in [Pids -> Pids]
      /\ birth' \in [Pids -> Nat] /\ image' \in [Pids -> Nat]
      /\ started' \in BOOLEAN
  BY <1>1, <1>2 DEF TasksInv
<1>4. \A t \in Pids : state'[t] = "tree" => /\ state'[tg'[t]] = "tree"
                                            /\ tg'[tg'[t]] = tg'[t]
  <2>. SUFFICES ASSUME NEW t \in Pids, state'[t] = "tree"
                PROVE  state'[tg'[t]] = "tree" /\ tg'[tg'[t]] = tg'[t]
    OBVIOUS
  <2>1. CASE t = c
    BY <1>1, <2>1 DEF TasksInv
  <2>2. CASE t # c
    BY <1>1, <2>2 DEF TasksInv
  <2>. QED
    BY <2>1, <2>2
<1>5. \A t \in Pids : state'[t] = "ext" => tg'[t] = t
  BY <1>1 DEF TasksInv
<1>6. /\ tg'[Root] = Root /\ birth'[Root] = 1
      /\ state'[Root] \in {"tree", "zombie", "free"}
  BY <1>1, <1>2, WorldConstantsOK DEF TasksInv
<1>. QED
  BY <1>3, <1>4, <1>5, <1>6 DEF TasksInv

\* A task ends when nobody else is in its group; waitpid ends the root.
LEMMA EndedTask ==
  ASSUME TasksInv, NEW t \in Pids, NEW end \in {"free", "zombie"},
         state' = [state EXCEPT ![t] = end],
         \A u \in Pids \ {t} : state[u] = "tree" => tg[u] # t,
         UNCHANGED <<tg, birth, image, started>>
  PROVE  TasksInv'
<1>1. \A u \in Pids : state'[u] = "tree" => u # t /\ state[u] = "tree"
  BY DEF TasksInv
<1>2. \A u \in Pids : state'[u] = "tree" => state'[tg'[u]] = "tree"
  <2>. SUFFICES ASSUME NEW u \in Pids, state'[u] = "tree"
                PROVE  state'[tg'[u]] = "tree"
    OBVIOUS
  <2>1. u # t /\ state[u] = "tree" /\ tg[u] \in Pids
    BY <1>1 DEF TasksInv
  <2>2. tg[u] # t /\ state[tg[u]] = "tree"
    BY <2>1 DEF TasksInv
  <2>. QED
    BY <2>1, <2>2 DEF TasksInv
<1>. QED
  BY <1>1, <1>2, WorldConstantsOK DEF TasksInv

\* process_event takes its event first, which leaves the machine alone.
LEMMA Taken ==
  ASSUME NEW e, process_event(e)
  PROVE  Take(e)
BY DEF process_event, ProcessOpen, ProcessClose, ProcessMmap, ProcessUnlink,
       ProcessRenameSource, ProcessRenameDestination, RejectRenameDestination,
       SwallowRootExec, ProcessExec, ProcessFork, ProcessExit

\* Every step of the machine and of the collector keeps TasksInv.
LEMMA TasksStep ==
  ASSUME TasksInv, [Next]_vars
  PROVE  TasksInv'
<1>1. ASSUME FileStep
      PROVE  TasksInv'
  BY <1>1, TasksAlone DEF TasksInv
<1>2. ASSUME NEW t \in Pids, NEW ts, NEW c \in Pids, NEW thread \in BOOLEAN,
             Fork(t, ts, c, thread)
      PROVE  TasksInv'
  <2>. DEFINE group == IF thread THEN tg[t] ELSE c
  <2>1. /\ Born(c, "tree", group, cwd[tg[t]], IF thread THEN NoFds ELSE ofd[tg[t]])
        /\ state[t] = "tree" /\ UNCHANGED started
    BY <1>2 DEF Fork
  <2>2. /\ group \in Pids
        /\ group = c \/ (state[group] = "tree" /\ tg[group] = group)
    BY <2>1 DEF TasksInv
  <2>. HIDE DEF group
  <2>. QED
    BY <2>1, <2>2, BornTask
<1>3. ASSUME NEW t \in Pids, NEW ts, NEW style, Exec(t, ts, style)
      PROVE  TasksInv'
  <2>1. UNCHANGED <<state, tg, birth>> /\ started'
    BY <1>3 DEF Exec
  <2>2. image' \in [Pids -> Nat]
    BY <1>3 DEF Exec, TasksInv
  <2>3. started' = TRUE
    BY <1>3 DEF Exec
  <2>. QED
    BY <2>1, <2>2, <2>3 DEF TasksInv
<1>4. ASSUME NEW t \in Pids, NEW ts, NEW status, Exit(t, ts, status)
      PROVE  TasksInv'
  <2>1. PICK end \in {"free", "zombie"} : state' = [state EXCEPT ![t] = end]
    BY <1>4 DEF Exit
  <2>2. /\ \A u \in Pids \ {t} : state[u] = "tree" => tg[u] # t
        /\ UNCHANGED <<tg, birth, image, started>>
    BY <1>4 DEF Exit, Alone
  <2>. QED
    BY <2>1, <2>2, EndedTask
<1>5. ASSUME NEW t \in Pids, NEW dir, SpawnExternal(t, dir)
      PROVE  TasksInv'
  BY <1>5, BornTask DEF SpawnExternal
<1>6. ASSUME NEW t \in Pids, SilentExit(t)
      PROVE  TasksInv'
  <2>1. /\ state' = [state EXCEPT ![t] = "free"]
        /\ UNCHANGED <<tg, birth, image, started>>
    BY <1>6 DEF SilentExit
  <2>2. \A u \in Pids \ {t} : state[u] = "tree" => tg[u] # t
    BY <1>6 DEF SilentExit, TasksInv
  <2>. QED
    BY <2>1, <2>2, EndedTask
<1>7. CASE WaitPid
  <2>1. /\ state' = [state EXCEPT ![Root] = "free"] /\ state[Root] = "zombie"
        /\ UNCHANGED <<tg, birth, image, started>>
    BY <1>7 DEF WaitPid
  <2>2. \A u \in Pids \ {Root} : state[u] = "tree" => tg[u] # Root
    BY <2>1 DEF TasksInv
  <2>. QED
    BY <2>1, <2>2, EndedTask, WorldConstantsOK
<1>8. ASSUME UNCHANGED taskVars
      PROVE  TasksInv'
  BY <1>8 DEF taskVars, TasksInv
<1>9. ASSUME CollectorNext, ~WaitPid
      PROVE  UNCHANGED taskVars
  <2>1. CASE Drain \/ Quiesced \/ Finish
    BY <2>1 DEF Drain, Quiesced, Finish, worldVars
  <2>2. ASSUME NEW e, process_event(e)
        PROVE  UNCHANGED taskVars
    BY <2>2, Taken DEF Take, worldVars
  <2>. QED
    BY <1>9, <2>1, <2>2 DEF CollectorNext
<1>10. CASE UNCHANGED vars
  BY <1>8, <1>10 DEF vars, worldVars
<1>. QED
  BY <1>1, <1>2, <1>3, <1>4, <1>5, <1>6, <1>7, <1>8, <1>9, <1>10, WorldSteps DEF Next
-----------------------------------------------------------------------------
(* The raw events.                                                         *)

\* What drain_ring_into_buffer makes of an event of the ring.
Copied(e) ==
  IF e.kind = "open" THEN [e EXCEPT !.payload.arrived = content[e.payload.file]]
                     ELSE e

\* d is e or a copy of it.
Alike(d, e) ==
  /\ DOMAIN d = DOMAIN e
  /\ d.kind = e.kind /\ d.timestamp_ns = e.timestamp_ns
  /\ d.pid = e.pid /\ d.tgid = e.tgid /\ d.source = e.source
  /\ d.born = e.born /\ d.image = e.image
  /\ DOMAIN d.payload = DOMAIN e.payload
  /\ e.kind = "open" /\ "fd" \in DOMAIN e.payload => d.payload.fd = e.payload.fd
  /\ \A f \in DOMAIN e.payload : f # "arrived" => d.payload[f] = e.payload[f]
  /\ e.kind # "open" => d = e

LEMMA CopiedAlike ==
  ASSUME NEW e, DOMAIN e = Fields
  PROVE  Alike(Copied(e), e)
<1>1. CASE e.kind # "open"
  BY <1>1 DEF Alike, Copied
<1>2. CASE e.kind = "open"
  <2>. DEFINE q == [e.payload EXCEPT !.arrived = content[e.payload.file]]
  <2>1. Copied(e) = [e EXCEPT !.payload = q]
    BY <1>2 DEF Copied
  <2>2. DOMAIN q = DOMAIN e.payload
    OBVIOUS
  <2>3. /\ "fd" \in DOMAIN e.payload => q.fd = e.payload.fd
        /\ \A f \in DOMAIN e.payload : f # "arrived" => q[f] = e.payload[f]
    OBVIOUS
  <2>. HIDE DEF q
  <2>4. /\ DOMAIN Copied(e) = DOMAIN e
        /\ \A f \in Fields : f # "payload" => Copied(e)[f] = e[f]
        /\ Copied(e).payload = q
    BY <2>1 DEF Fields
  <2>. QED
    BY <1>2, <2>2, <2>3, <2>4 DEF Alike, Fields
<1>. QED
  BY <1>1, <1>2

\* Drain with its copies named.
LEMMA DrainCopies ==
  ASSUME Drain
  PROVE  /\ raw_events' = raw_events \cup {Copied(e) : e \in ring}
         /\ ring' = {}
BY DEF Drain, Copied

EventsInv == \A e \in Emitted : RawEvent(e)

\* The collector leaves the emitted events as they are, but for the copies.
LEMMA CollectorKeeps ==
  ASSUME CollectorNext, ~Drain
  PROVE  UNCHANGED <<ring, raw_events>>
<1>1. CASE WaitPid \/ Quiesced \/ Finish
  BY <1>1 DEF WaitPid, Quiesced, Finish, worldVars
<1>2. ASSUME NEW e, process_event(e)
      PROVE  UNCHANGED <<ring, raw_events>>
  BY <1>2, Taken DEF Take, worldVars
<1>. QED
  BY <1>1, <1>2 DEF CollectorNext

\* An event is a copy of one that was there, or was just heard.
LEMMA Origin ==
  ASSUME TasksInv, ClockInv, EventsInv, [Next]_vars, NEW d \in Emitted'
  PROVE  \/ \E e \in Emitted : Alike(d, e)
         \/ /\ WorldNext /\ UNCHANGED collectorVars /\ d \in ring' \ ring
            /\ \E t \in Pids : Heard(d, t)
<1>. DEFINE Old == \E e \in Emitted : Alike(d, e)
<1>1. ASSUME d \in Emitted
      PROVE  Old
  BY <1>1 DEF Alike
<1>2. CASE WorldNext /\ UNCHANGED collectorVars
  <2>1. raw_events' = raw_events
    BY <1>2 DEF collectorVars, bufferVars
  <2>. QED
    BY <1>1, <1>2, <2>1, NewEvent DEF Emitted
<1>3. CASE Drain
  <2>1. d \in raw_events \/ \E e \in ring : d = Copied(e)
    BY <1>3, DrainCopies DEF Emitted
  <2>2. \A e \in ring : Alike(Copied(e), e)
    BY CopiedAlike DEF EventsInv, RawEvent, Emitted
  <2>. QED
    BY <1>1, <2>1, <2>2 DEF Emitted
<1>4. CASE (CollectorNext /\ ~Drain) \/ UNCHANGED vars
  BY <1>1, <1>4, CollectorKeeps DEF Emitted, vars, worldVars, collectorVars, bufferVars
<1>. QED
  BY <1>2, <1>3, <1>4 DEF Next

\* The machine takes nothing out of the ring.
LEMMA RingGrows ==
  ASSUME WorldNext
  PROVE  ring \subseteq ring'
<1>1. ASSUME NEW t, NEW ts, NEW raw, NEW style, NEW fd, NEW mode,
             Open(t, ts, fd, raw, style, mode)
      PROVE  ring \subseteq ring'
  BY <1>1 DEF Open, Emit
<1>2. ASSUME NEW t, NEW ts, NEW raw, NEW to, NEW style, NEW exchange,
             Rename(t, ts, raw, to, style, exchange)
      PROVE  ring \subseteq ring'
  BY <1>2 DEF Rename, Emit
<1>3. ASSUME NEW t, NEW ts, NEW x, NEW style,
             \/ Unlink(t, ts, x, style) \/ Close(t, ts, x) \/ Mmap(t, ts, x)
             \/ Exec(t, ts, x) \/ Exit(t, ts, x) \/ Fork(t, ts, x, style)
      PROVE  ring \subseteq ring'
  BY <1>3 DEF Unlink, Close, Mmap, Exec, Exit, Fork, Emit
<1>4. ASSUME NEW t, NEW x,
             \/ Write(t) \/ Chdir(t, x) \/ SpawnExternal(t, x) \/ SilentExit(t)
      PROVE  ring \subseteq ring'
  BY <1>4 DEF Write, Chdir, SpawnExternal, SilentExit
<1>. QED
  BY <1>1, <1>2, <1>3, <1>4 DEF WorldNext

\* No event is lost, and only those of opens are altered by the copy.
LEMMA Kept ==
  ASSUME [Next]_vars, NEW e \in Emitted, e.kind # "open"
  PROVE  e \in Emitted'
<1>1. CASE WorldNext /\ UNCHANGED collectorVars
  BY <1>1, RingGrows DEF Emitted, collectorVars, bufferVars
<1>2. CASE Drain
  BY <1>2, DrainCopies DEF Emitted, Copied
<1>3. CASE (CollectorNext /\ ~Drain) \/ UNCHANGED vars
  BY <1>3, CollectorKeeps DEF Emitted, vars, worldVars, collectorVars, bufferVars
<1>. QED
  BY <1>1, <1>2, <1>3 DEF Next

\* Raw events keep the shape process_event relies on.
LEMMA EventsStep ==
  ASSUME TasksInv, ClockInv, EventsInv, [Next]_vars
  PROVE  EventsInv'
<1>. SUFFICES ASSUME NEW d \in Emitted'
              PROVE  RawEvent(d)
  BY DEF EventsInv, RawEvent
<1>1. ASSUME NEW e \in Emitted, Alike(d, e)
      PROVE  RawEvent(d)
  <2>1. RawEvent(e)
    BY DEF EventsInv
  <2>2. d.kind # "open" => d = e
    BY <1>1 DEF Alike
  <2>. QED
    BY <1>1, <2>1, <2>2 DEF RawEvent, Alike
<1>2. ASSUME NEW t \in Pids, Heard(d, t)
      PROVE  RawEvent(d)
  <2>1. tg[t] \in Pids /\ birth[tg[t]] \in Nat /\ image[tg[t]] \in Nat /\ image[t] \in Nat
    BY DEF TasksInv
  <2>2. clock' \in Nat
    BY <1>2 DEF Heard, Instants, ClockInv
  <2>3. d.kind = "fork" => /\ d.payload.child \in Pids \ {Root}
                          /\ d.payload.born \in Nat
    BY <1>2 DEF Heard, TasksInv
  <2>4. d.image \in Nat
    BY <1>2, <2>1 DEF Heard
  <2>. QED
    BY <1>2, <2>1, <2>2, <2>3, <2>4 DEF Heard, RawEvent
<1>. QED
  BY <1>1, <1>2, Origin

\* The clock only goes forward, and each task is behind it.
LEMMA ClockStep ==
  ASSUME ClockInv, [Next]_vars
  PROVE  ClockInv' /\ clock' >= clock
<1>1. ASSUME NEW t \in Pids, NEW ts \in Instants, NEW es, Emit(t, ts, es)
      PROVE  ClockInv' /\ clock' >= clock
  <2>1. ts \in Nat /\ ts >= clock
    BY DEF Instants, ClockInv
  <2>2. clock' = ts /\ last' = [last EXCEPT ![t] = ts]
    BY <1>1 DEF Emit, Tick
  <2>. QED
    BY <2>1, <2>2 DEF ClockInv
<1>2. ASSUME NEW t \in Pids, NEW ts \in Instants, NEW c \in Pids, NEW thread, Fork(t, ts, c, thread)
      PROVE  ClockInv' /\ clock' >= clock
  <2>1. ts \in Nat /\ ts >= clock
    BY DEF Instants, ClockInv
  <2>2. clock' = ts /\ last' = [last EXCEPT ![t] = ts, ![c] = ts]
    BY <1>2 DEF Fork, Tick
  <2>. QED
    BY <2>1, <2>2 DEF ClockInv
<1>3. ASSUME UNCHANGED <<clock, last>>
      PROVE  ClockInv' /\ clock' >= clock
  BY <1>3 DEF ClockInv
<1>4. ASSUME WorldNext
      PROVE  ClockInv' /\ clock' >= clock
  <2>1. ASSUME NEW t \in Pids, NEW ts \in Instants, NEW raw, NEW style, NEW fd, NEW mode,
               Open(t, ts, fd, raw, style, mode)
        PROVE  ClockInv' /\ clock' >= clock
    BY <1>1, <2>1 DEF Open
  <2>2. ASSUME NEW t \in Pids, NEW ts \in Instants, NEW raw, NEW to, NEW style, NEW exchange,
               Rename(t, ts, raw, to, style, exchange)
        PROVE  ClockInv' /\ clock' >= clock
    BY <1>1, <2>2 DEF Rename
  <2>3. ASSUME NEW t \in Pids, NEW ts \in Instants, NEW raw, NEW style,
               Unlink(t, ts, raw, style)
        PROVE  ClockInv' /\ clock' >= clock
    BY <1>1, <2>3 DEF Unlink
  <2>4. ASSUME NEW t \in Pids, NEW ts \in Instants, NEW fd,
               Close(t, ts, fd) \/ Mmap(t, ts, fd)
        PROVE  ClockInv' /\ clock' >= clock
    BY <1>1, <2>4 DEF Close, Mmap
  <2>5. ASSUME NEW t \in Pids, NEW ts \in Instants, NEW x,
               Exec(t, ts, x) \/ Exit(t, ts, x)
        PROVE  ClockInv' /\ clock' >= clock
    BY <1>1, <2>5 DEF Exec, Exit
  <2>. QED
    BY <1>2, <1>3, <1>4, <2>1, <2>2, <2>3, <2>4, <2>5
    DEF WorldNext, Write, Chdir, SpawnExternal, SilentExit
<1>5. ASSUME CollectorNext
      PROVE  UNCHANGED <<clock, last>>
  <2>1. CASE Drain \/ WaitPid \/ Quiesced \/ Finish
    BY <2>1 DEF Drain, WaitPid, Quiesced, Finish, worldVars
  <2>. QED
    BY <1>5, <2>1, Taken DEF CollectorNext, Take, worldVars
<1>. QED
  BY <1>3, <1>4, <1>5 DEF Next, vars, worldVars
-----------------------------------------------------------------------------
(* The tables of the collector.                                            *)

\* TypeOK, with what makes it inductive: the tables speak of PIDs, and only
\* finitely many renames wait for their second half.
TableInv ==
  /\ TypeOK
  /\ DOMAIN current_processes \subseteq Pids
  /\ IsFiniteSet(DOMAIN pending_renames)

\* current_process and fork_process keep the counters in their range and the
\* processes filed under their own PIDs.
LEMMA KnownTyped ==
  ASSUME TableInv, NEW pid \in Pids
  PROVE  /\ GenerationsWith(pid) \in [DOMAIN GenerationsWith(pid) -> 0 .. MaxGeneration]
         /\ DOMAIN next_generations \subseteq DOMAIN GenerationsWith(pid)
         /\ pid \in DOMAIN GenerationsWith(pid)
         /\ current_process(pid).lifetime.pid = pid
         /\ next_generation(pid) \in 0 .. MaxGeneration
         /\ saturating_add(next_generation(pid)) \in 0 .. MaxGeneration
         /\ new_process(pid).lifetime.pid = pid
<1>1. next_generation(pid) \in 0 .. MaxGeneration
  BY CollectorConstantsOK DEF next_generation, TableInv, TypeOK
<1>2. saturating_add(next_generation(pid)) \in 0 .. MaxGeneration
  BY <1>1, CollectorConstantsOK DEF saturating_add
<1>3. new_process(pid).lifetime.pid = pid
  BY DEF new_process, Process, Lifetime
<1>4. /\ DOMAIN GenerationsWith(pid) = DOMAIN next_generations \cup {pid}
      /\ GenerationsWith(pid) \in [DOMAIN GenerationsWith(pid) -> 0 .. MaxGeneration]
  <2>1. CASE pid \in DOMAIN current_processes
    BY <2>1 DEF GenerationsWith, TableInv, TypeOK
  <2>2. CASE pid \notin DOMAIN current_processes
    BY <1>2, <2>2 DEF GenerationsWith, Put, TableInv, TypeOK
  <2>. QED
    BY <2>1, <2>2
<1>. QED
  BY <1>1, <1>2, <1>3, <1>4 DEF current_process, TableInv, TypeOK

\* KnowProcess, and what the kinds that call it may leave in the tables.
LEMMA KnowTyped ==
  ASSUME TableInv, NEW e, RawEvent(e), Take(e), KnowProcess(e.tgid),
         UNCHANGED root_initial_exec_pending,
         \A k \in DOMAIN fd_table' : \/ k \in DOMAIN fd_table
                                     \/ k[1].pid = e.tgid /\ k[2] \in Fds,
         \E key : DOMAIN pending_renames' \subseteq DOMAIN pending_renames \cup {key},
         malformed_events' \in {malformed_events, malformed_events + 1}
  PROVE  TableInv'
<1>1. e.tgid \in Pids
  BY DEF RawEvent
<1>2. /\ phase' = "process" /\ todo' \subseteq raw_events'
      /\ root_initial_exec_pending' \in BOOLEAN
  BY DEF Take, TableInv, TypeOK
<1>3. /\ next_generations' \in [DOMAIN next_generations' -> 0 .. MaxGeneration]
      /\ DOMAIN next_generations \subseteq DOMAIN next_generations'
      /\ e.tgid \in DOMAIN next_generations'
      /\ current_process(e.tgid).lifetime.pid = e.tgid
  BY <1>1, KnownTyped DEF KnowProcess
<1>4. /\ DOMAIN current_processes' \subseteq Pids
      /\ \A p \in DOMAIN current_processes' :
            p \in DOMAIN next_generations' /\ current_processes'[p].lifetime.pid = p
  BY <1>1, <1>3 DEF KnowProcess, Put, TableInv, TypeOK
<1>5. \A k \in DOMAIN fd_table' : k[1].pid \in Pids /\ k[2] \in Fds
  BY <1>1 DEF TableInv, TypeOK
<1>6. malformed_events' \in Nat
  BY DEF TableInv, TypeOK
<1>7. IsFiniteSet(DOMAIN pending_renames')
  <2>1. PICK key : DOMAIN pending_renames' \subseteq DOMAIN pending_renames \cup {key}
    OBVIOUS
  <2>2. IsFiniteSet(DOMAIN pending_renames \cup {key})
    BY FS_AddElement DEF TableInv
  <2>. QED
    BY <2>1, <2>2, FS_Subset
<1>. QED
  BY <1>2, <1>3, <1>4, <1>5, <1>6, <1>7 DEF TableInv, TypeOK

\* A step that starts no process and only takes entries away.
LEMMA LessTyped ==
  ASSUME TableInv, phase' \in {"collect", "quiesce", "process", "done"},
         todo' \subseteq raw_events', root_initial_exec_pending' \in BOOLEAN,
         UNCHANGED next_generations,
         DOMAIN current_processes' \subseteq DOMAIN current_processes,
         \A p \in DOMAIN current_processes' :
            current_processes'[p] = current_processes[p],
         DOMAIN fd_table' \subseteq DOMAIN fd_table,
         DOMAIN pending_renames' \subseteq DOMAIN pending_renames,
         malformed_events' \in Nat
  PROVE  TableInv'
<1>1. IsFiniteSet(DOMAIN pending_renames')
  BY FS_Subset DEF TableInv
<1>. QED
  BY <1>1 DEF TableInv, TypeOK

LEMMA TableStep ==
  ASSUME TableInv, EventsInv, [Next]_vars
  PROVE  TableInv'
<1>1. ASSUME NEW e \in todo, process_event(e)
      PROVE  TableInv'
  <2>1. Take(e) /\ RawEvent(e)
    BY <1>1, Taken DEF TableInv, TypeOK, EventsInv, Emitted
  <2>2. /\ e.tgid \in Pids
        /\ current_process(e.tgid).lifetime.pid = e.tgid
    BY <2>1, KnownTyped DEF RawEvent
  <2>3. /\ phase' = "process" /\ todo' \subseteq raw_events'
        /\ malformed_events \in Nat /\ malformed_events + 1 \in Nat
    BY <2>1 DEF Take, TableInv, TypeOK
  <2>4. CASE ProcessOpen(e)
    <3>1. /\ KnowProcess(e.tgid) /\ e.payload.fd \in Fds
          /\ UNCHANGED <<root_initial_exec_pending, pending_renames, malformed_events>>
      BY <2>1, <2>4 DEF ProcessOpen, RawEvent, WellFormed
    <3>2. \A k \in DOMAIN fd_table' :
             k \in DOMAIN fd_table \/ k = <<current_process(e.tgid).lifetime, e.payload.fd>>
      BY <2>4 DEF ProcessOpen, Put
    <3>. QED
      BY <2>1, <2>2, <3>1, <3>2, KnowTyped
  <2>5. CASE ProcessClose(e)
    <3>1. /\ KnowProcess(e.tgid)
          /\ UNCHANGED <<root_initial_exec_pending, pending_renames, malformed_events>>
          /\ DOMAIN fd_table' \subseteq DOMAIN fd_table
      BY <2>5 DEF ProcessClose, WellFormed, Delete, Restrict
    <3>. QED
      BY <2>1, <3>1, KnowTyped
  <2>6. CASE ProcessMmap(e) \/ ProcessExit(e)
    <3>1. /\ KnowProcess(e.tgid)
          /\ UNCHANGED <<root_initial_exec_pending, pending_renames, malformed_events, fd_table>>
      BY <2>6 DEF ProcessMmap, ProcessExit, WellFormed, tableVars
    <3>. QED
      BY <2>1, <3>1, KnowTyped
  <2>7. CASE ProcessUnlink(e)
    <3>1. /\ KnowProcess(e.tgid)
          /\ UNCHANGED <<root_initial_exec_pending, pending_renames, fd_table>>
          /\ malformed_events' \in {malformed_events, malformed_events + 1}
      BY <2>7 DEF ProcessUnlink, WellFormed, Malformed
    <3>. QED
      BY <2>1, <3>1, KnowTyped
  <2>8. CASE ProcessRenameSource(e)
    <3>1. /\ KnowProcess(e.tgid)
          /\ UNCHANGED <<root_initial_exec_pending, fd_table>>
          /\ malformed_events' \in {malformed_events, malformed_events + 1}
      BY <2>8 DEF ProcessRenameSource, WellFormed, Malformed
    <3>2. DOMAIN pending_renames'
            \subseteq DOMAIN pending_renames \cup {<<e.pid, e.timestamp_ns>>}
      BY <2>8 DEF ProcessRenameSource, Put
    <3>. QED
      BY <2>1, <3>1, <3>2, KnowTyped
  <2>9. CASE ProcessRenameDestination(e) \/ RejectRenameDestination(e)
    <3>1. /\ UNCHANGED processVars
          /\ malformed_events' \in {malformed_events, malformed_events + 1}
          /\ DOMAIN fd_table' \subseteq DOMAIN fd_table
      BY <2>9 DEF ProcessRenameDestination, RejectRenameDestination, WellFormed,
                  Malformed, rewrite_open_file_paths
    <3>2. DOMAIN pending_renames' \subseteq DOMAIN pending_renames
      BY <2>9 DEF ProcessRenameDestination, RejectRenameDestination, Delete, Restrict
    <3>. QED
      BY <2>3, <3>1, <3>2, LessTyped DEF processVars, TableInv, TypeOK
  <2>10. CASE SwallowRootExec(e)
    <3>1. /\ UNCHANGED <<current_processes, next_generations, fd_table, pending_renames,
                         malformed_events>>
          /\ root_initial_exec_pending' = FALSE
      BY <2>10 DEF SwallowRootExec, tableVars
    <3>. QED
      BY <2>3, <3>1, LessTyped
  <2>11. CASE ProcessExec(e)
    <3>. DEFINE process == next_epoch(current_process(e.tgid))
    <3>1. process.lifetime.pid = e.tgid
      BY <2>2 DEF next_epoch
    <3>2. /\ UNCHANGED <<root_initial_exec_pending, fd_table, pending_renames,
                         malformed_events>>
          /\ current_processes' = Put(current_processes, e.tgid, process)
          /\ next_generations' = GenerationsWith(e.tgid)
      BY <2>11 DEF ProcessExec, WellFormed
    <3>3. /\ next_generations' \in [DOMAIN next_generations' -> 0 .. MaxGeneration]
          /\ DOMAIN next_generations \cup {e.tgid} \subseteq DOMAIN next_generations'
      BY <2>2, <3>2, KnownTyped
    <3>. HIDE DEF process
    <3>4. /\ DOMAIN current_processes' \subseteq Pids
          /\ \A p \in DOMAIN current_processes' :
                p \in DOMAIN next_generations' /\ current_processes'[p].lifetime.pid = p
      BY <2>2, <3>1, <3>2, <3>3 DEF Put, TableInv, TypeOK
    <3>. QED
      BY <2>3, <3>2, <3>3, <3>4 DEF TableInv, TypeOK
  <2>12. CASE ProcessFork(e)
    <3>. DEFINE parent == current_process(e.tgid)
                c == e.payload.child
                child == new_process(c)
    <3>1. c \in Pids /\ child.lifetime.pid = c
      BY <2>1, <2>12, KnownTyped DEF ProcessFork, RawEvent
    <3>2. /\ UNCHANGED <<root_initial_exec_pending, pending_renames, malformed_events>>
          /\ current_processes' = Put(Put(current_processes, e.tgid, parent), c, child)
          /\ next_generations' =
               Put(GenerationsWith(e.tgid), c, saturating_add(next_generation(c)))
          /\ fd_table' = Inherited(parent.lifetime, child.lifetime)
      BY <2>12 DEF ProcessFork, WellFormed
    <3>3. /\ next_generations' \in [DOMAIN next_generations' -> 0 .. MaxGeneration]
          /\ DOMAIN next_generations \cup {e.tgid, c} \subseteq DOMAIN next_generations'
      <4>1. /\ GenerationsWith(e.tgid)
                 \in [DOMAIN GenerationsWith(e.tgid) -> 0 .. MaxGeneration]
            /\ DOMAIN next_generations \cup {e.tgid} \subseteq DOMAIN GenerationsWith(e.tgid)
            /\ saturating_add(next_generation(c)) \in 0 .. MaxGeneration
        BY <2>2, <3>1, KnownTyped
      <4>. QED
        BY <3>2, <4>1 DEF Put
    <3>4. parent.lifetime.pid = e.tgid
      BY <2>2
    <3>. HIDE DEF parent, child, c
    <3>5. /\ DOMAIN current_processes' \subseteq Pids
          /\ \A p \in DOMAIN current_processes' :
                p \in DOMAIN next_generations' /\ current_processes'[p].lifetime.pid = p
      BY <2>2, <3>1, <3>2, <3>3, <3>4 DEF Put, TableInv, TypeOK
    <3>6. \A k \in DOMAIN fd_table' : k[1].pid \in Pids /\ k[2] \in Fds
      BY <3>1, <3>2 DEF Inherited, TableInv, TypeOK
    <3>. QED
      BY <2>3, <3>2, <3>3, <3>5, <3>6 DEF TableInv, TypeOK
  <2>. QED
    BY <1>1, <2>4, <2>5, <2>6, <2>7, <2>8, <2>9, <2>10, <2>11, <2>12 DEF process_event
<1>2. CASE Finish
  <2>1. /\ phase' = "done" /\ UNCHANGED <<todo, raw_events, next_generations, fd_table>>
        /\ UNCHANGED root_initial_exec_pending
    BY <1>2 DEF Finish
  <2>2. /\ DOMAIN current_processes' \subseteq DOMAIN current_processes
        /\ \A p \in DOMAIN current_processes' :
              current_processes'[p] = current_processes[p]
    BY <1>2 DEF Finish, Delete, Restrict
  <2>3. DOMAIN pending_renames' = {}
    BY <1>2 DEF Finish
  <2>4. malformed_events' \in Nat
    BY <1>2, FS_CardinalityType DEF Finish, TableInv, TypeOK
  <2>. QED
    BY <2>1, <2>2, <2>3, <2>4, LessTyped DEF TableInv, TypeOK
<1>3. CASE Drain \/ WaitPid \/ Quiesced
  <2>1. /\ phase' \in {"collect", "quiesce", "process"} /\ todo' \subseteq raw_events'
        /\ UNCHANGED <<processVars, tableVars, malformed_events>>
    BY <1>3 DEF Drain, WaitPid, Quiesced, TableInv, TypeOK
  <2>. QED
    BY <2>1, LessTyped DEF processVars, tableVars, TableInv, TypeOK
<1>4. CASE UNCHANGED collectorVars
  BY <1>4, LessTyped
  DEF collectorVars, bufferVars, processVars, tableVars, TableInv, TypeOK
<1>. QED
  BY <1>1, <1>2, <1>3, <1>4 DEF Next, CollectorNext, vars

\* All of it, for one induction.
TypeInv == TasksInv /\ ClockInv /\ EventsInv /\ TableInv

LEMMA TypeInitially == Init => TypeInv
<1>. SUFFICES ASSUME Init PROVE TypeInv
  OBVIOUS
<1>1. TasksInv /\ ClockInv
  <2>1. /\ state = [p \in Pids |-> IF p = Root THEN "tree" ELSE "free"]
        /\ tg = [p \in Pids |-> p]
        /\ birth = [p \in Pids |-> IF p = Root THEN 1 ELSE 0]
        /\ image = [p \in Pids |-> 0] /\ last = [p \in Pids |-> 0]
        /\ clock = 0
    BY DEF Init, WorldInit
  <2>2. started \in BOOLEAN /\ Root \in Pids
    BY WorldConstantsOK DEF Init, WorldInit
  <2>3. ClockInv
    BY <2>1 DEF ClockInv
  <2>. QED
    BY <2>1, <2>2, <2>3 DEF TasksInv
<1>2. EventsInv
  BY DEF Init, WorldInit, EventsInv, Emitted
<1>3. TypeOK
  BY CollectorConstantsOK DEF Init, TypeOK, root_process, Process, Lifetime
<1>4. DOMAIN current_processes \subseteq Pids /\ DOMAIN pending_renames = {}
  BY WorldConstantsOK DEF Init
<1>. QED
  BY <1>1, <1>2, <1>3, <1>4, FS_EmptySet DEF TypeInv, TableInv

LEMMA TypeStep == TypeInv /\ [Next]_vars => TypeInv'
BY TasksStep, ClockStep, EventsStep, TableStep DEF TypeInv

\* Whatever the machine does, in whatever order the events of one timestamp
\* are processed: every process is filed under its own PID, with a counter
\* that has not left u32, and every descriptor under a PID of the machine.
THEOREM TypesCorrect == Spec => []TypeOK
<1>1. TypeInv => TypeOK
  BY DEF TypeInv, TableInv
<1>. QED
  BY TypeInitially, TypeStep, <1>1, PTL DEF Spec
-----------------------------------------------------------------------------
(* What process_event adds to the result.                                  *)

IsSeq(s) == \E S : s \in Seq(S)

\* Append, and the concatenation with one or no element.
LEMMA Appended ==
  ASSUME NEW s, IsSeq(s), NEW x
  PROVE  /\ IsSeq(Append(s, x))
         /\ Len(s) \in Nat /\ Len(Append(s, x)) = Len(s) + 1
         /\ DOMAIN s = 1 .. Len(s)
         /\ DOMAIN Append(s, x) = DOMAIN s \cup {Len(s) + 1}
         /\ Len(s) + 1 \notin DOMAIN s
         /\ \A i \in DOMAIN s : Append(s, x)[i] = s[i]
         /\ Append(s, x)[Len(s) + 1] = x
         /\ s \o <<x>> = Append(s, x)
         /\ s \o <<>> = s
<1>1. PICK S : s \in Seq(S)
  BY DEF IsSeq
<1>2. s \in Seq(S \cup {x}) /\ Append(s, x) \in Seq(S \cup {x})
  BY <1>1
<1>. QED
  BY <1>1, <1>2 DEF IsSeq

\* The process that a result is attributed to.
Attributed(e) ==
  IF e.kind = "rename_destination"
  THEN pending_renames[<<e.pid, e.timestamp_ns>>].process
  ELSE IF e.kind = "exec" THEN next_epoch(current_process(e.tgid))
  ELSE current_process(e.tgid)

\* x is a result that process_event(e) pushes.
Result(e, x) ==
  /\ "of" \in DOMAIN x /\ x.of = e
  /\ x.process = Attributed(e)
  /\ e.kind = "rename_destination" =>
       <<e.pid, e.timestamp_ns>> \in DOMAIN pending_renames
  /\ x.kind = "fork" <=> e.kind = "fork"
  /\ e.kind = "fork" => x.child = new_process(e.payload.child)
  /\ x.kind = "exit" <=> e.kind = "exit"
  /\ e.kind = "exit" => "exit_code" \in DOMAIN x

\* From s to r results of e have been added at the end; for a fork and for an
\* exit exactly one.
Added(s, r, e) ==
  /\ IsSeq(r)
  /\ DOMAIN s \subseteq DOMAIN r
  /\ \A i \in DOMAIN s : r[i] = s[i]
  /\ \A i \in DOMAIN r \ DOMAIN s : Result(e, r[i])
  /\ e.kind \in {"fork", "exit"} =>
       \E i \in DOMAIN r \ DOMAIN s : DOMAIN r = DOMAIN s \cup {i}

LEMMA PushAdds ==
  ASSUME IsSeq(events), NEW e, NEW x, Push(x), Result(e, x)
  PROVE  Added(events, events', e)
<1>1. events' = Append(events, x)
  BY DEF Push
<1>. QED
  BY <1>1, Appended DEF Added

LEMMA NoneAdded ==
  ASSUME IsSeq(events), NEW e, UNCHANGED events, e.kind \notin {"fork", "exit"}
  PROVE  Added(events, events', e)
BY DEF Added

LEMMA ResultsAdded ==
  ASSUME IsSeq(events), NEW e, process_event(e)
  PROVE  Added(events, events', e)
<1>0. ASSUME NEW kind, NEW process, NEW path, NEW observation, kind = e.kind,
             kind \notin {"fork", "exit", "rename_destination"},
             process = Attributed(e)
      PROVE  Result(e, Traced(kind, e, process, path, observation))
  BY <1>0 DEF Result, Traced
<1>1. CASE ProcessOpen(e)
  <2>1. e.kind = "open" /\ current_process(e.tgid) = Attributed(e)
    BY <1>1 DEF ProcessOpen, Attributed
  <2>2. \/ UNCHANGED events
        \/ \E path, observation :
             Push(Traced("open", e, current_process(e.tgid), path, observation))
    BY <1>1 DEF ProcessOpen
  <2>. QED
    BY <1>0, <2>1, <2>2, PushAdds, NoneAdded
<1>2. CASE ProcessClose(e)
  <2>1. e.kind = "close" /\ current_process(e.tgid) = Attributed(e)
    BY <1>2 DEF ProcessClose, Attributed
  <2>2. \/ UNCHANGED events
        \/ \E path, observation :
             Push(Traced("close", e, current_process(e.tgid), path, observation))
    BY <1>2 DEF ProcessClose
  <2>. QED
    BY <1>0, <2>1, <2>2, PushAdds, NoneAdded
<1>3. CASE ProcessMmap(e)
  <2>1. e.kind = "mmap" /\ current_process(e.tgid) = Attributed(e)
    BY <1>3 DEF ProcessMmap, Attributed
  <2>2. \/ UNCHANGED events
        \/ \E path, observation :
             Push(Traced("mmap", e, current_process(e.tgid), path, observation))
    BY <1>3 DEF ProcessMmap
  <2>. QED
    BY <1>0, <2>1, <2>2, PushAdds, NoneAdded
<1>4. CASE ProcessUnlink(e)
  <2>1. e.kind = "unlink" /\ current_process(e.tgid) = Attributed(e)
    BY <1>4 DEF ProcessUnlink, Attributed
  <2>2. \/ UNCHANGED events
        \/ \E path, observation :
             Push(Traced("unlink", e, current_process(e.tgid), path, observation))
    BY <1>4 DEF ProcessUnlink
  <2>. QED
    BY <1>0, <2>1, <2>2, PushAdds, NoneAdded
<1>5. CASE ProcessRenameSource(e) \/ RejectRenameDestination(e) \/ SwallowRootExec(e)
  BY <1>5, NoneAdded DEF ProcessRenameSource, RejectRenameDestination, SwallowRootExec
<1>6. CASE ProcessRenameDestination(e)
  <2>. DEFINE key == <<e.pid, e.timestamp_ns>>
              pending == pending_renames[key]
              to == resolve_path(pending.process, e.payload.style, e.payload.raw)
              renamed(from, dest) ==
                [kind |-> "rename", process |-> pending.process, path |-> dest,
                 from |-> from, external |-> pending.external \/ e.source = "ext",
                 observation |-> observe_path(dest), of |-> e]
  <2>1. e.kind = "rename_destination" /\ key \in DOMAIN pending_renames
    BY <1>6 DEF ProcessRenameDestination
  <2>2. \A from, dest : Result(e, renamed(from, dest))
    BY <2>1 DEF Result, Attributed
  <2>3. \/ UNCHANGED events
        \/ events' = events \o <<renamed(pending.from, to)>> \o
             IF pending.exchange THEN <<renamed(to, pending.from)>> ELSE <<>>
    BY <1>6 DEF ProcessRenameDestination
  <2>4. \/ UNCHANGED events
        \/ \E x, y : /\ Result(e, x) /\ Result(e, y)
                     /\ events' = events \o <<x>> \o <<y>> \/ events' = events \o <<x>> \o <<>>
    BY <2>2, <2>3
  <2>. HIDE DEF pending, to, renamed
  <2>5. ASSUME NEW x, Result(e, x)
        PROVE  Added(events, Append(events, x), e)
    BY <2>1, <2>5, Appended DEF Added
  <2>6. ASSUME NEW x, NEW y, Result(e, x), Result(e, y)
        PROVE  Added(events, Append(Append(events, x), y), e)
    <3>1. Added(events, Append(events, x), e)
      BY <2>5, <2>6
    <3>2. IsSeq(Append(events, x))
      BY <3>1 DEF Added
    <3>3. /\ IsSeq(Append(Append(events, x), y))
          /\ DOMAIN Append(events, x) \subseteq DOMAIN Append(Append(events, x), y)
          /\ \A i \in DOMAIN Append(events, x) :
                Append(Append(events, x), y)[i] = Append(events, x)[i]
          /\ \A i \in DOMAIN Append(Append(events, x), y) :
                i \in DOMAIN Append(events, x) \/ Append(Append(events, x), y)[i] = y
      BY <3>2, Appended
    <3>. QED
      BY <2>1, <2>6, <3>1, <3>3 DEF Added
  <2>7. ASSUME NEW x, NEW y
        PROVE  /\ events \o <<x>> \o <<y>> = Append(Append(events, x), y)
               /\ events \o <<x>> \o <<>> = Append(events, x)
    <3>1. IsSeq(Append(events, x)) /\ events \o <<x>> = Append(events, x)
      BY Appended
    <3>. QED
      BY <3>1, Appended
  <2>8. CASE UNCHANGED events
    BY <2>1, <2>8, NoneAdded
  <2>9. ASSUME NEW x, NEW y, Result(e, x), Result(e, y),
               events' = events \o <<x>> \o <<y>> \/ events' = events \o <<x>> \o <<>>
        PROVE  Added(events, events', e)
    <3>1. events' = Append(Append(events, x), y) \/ events' = Append(events, x)
      BY <2>7, <2>9
    <3>. QED
      BY <2>5, <2>6, <2>9, <3>1
  <2>. QED
    BY <2>4, <2>8, <2>9
<1>7. CASE ProcessExec(e)
  <2>1. e.kind = "exec" /\ next_epoch(current_process(e.tgid)) = Attributed(e)
    BY <1>7 DEF ProcessExec, Attributed
  <2>2. \E path, observation :
          Push(Traced("exec", e, next_epoch(current_process(e.tgid)), path, observation))
    BY <1>7 DEF ProcessExec
  <2>. QED
    BY <1>0, <2>1, <2>2, PushAdds
<1>8. CASE ProcessFork(e)
  <2>. DEFINE x == [kind |-> "fork", process |-> current_process(e.tgid),
                    child |-> new_process(e.payload.child), of |-> e]
  <2>1. e.kind = "fork" /\ Push(x)
    BY <1>8 DEF ProcessFork
  <2>2. Result(e, x)
    BY <2>1 DEF Result, Attributed
  <2>. QED
    BY <2>1, <2>2, PushAdds
<1>9. CASE ProcessExit(e)
  <2>. DEFINE x == [kind |-> "exit", process |-> current_process(e.tgid),
                    exit_code |-> e.payload.exit_code, of |-> e]
  <2>1. e.kind = "exit" /\ Push(x)
    BY <1>9 DEF ProcessExit
  <2>2. Result(e, x)
    BY <2>1 DEF Result, Attributed
  <2>. QED
    BY <2>1, <2>2, PushAdds
<1>. QED
  BY <1>1, <1>2, <1>3, <1>4, <1>5, <1>6, <1>7, <1>8, <1>9 DEF process_event
-----------------------------------------------------------------------------
(* The exit of the root.                                                   *)

RootExits(E) == {e \in E : e.kind = "exit" /\ e.tgid = Root}

\* The machine: the root exits once, and is gone when it has been reaped.
RootInv ==
  /\ RootExits(Emitted) # {} => state[Root] # "tree"
  /\ \A d, e \in RootExits(Emitted) : d = e
  /\ phase # "collect" => state[Root] = "free"

\* Nobody is born with the PID of the root, and after it has been reaped its
\* exit status stays what it is.
LEMMA RootStays ==
  ASSUME TasksInv, [Next]_vars
  PROVE  /\ state'[Root] = "tree" => state[Root] = "tree"
         /\ state[Root] = "free" => state'[Root] = "free" /\ code' = code
<1>. DEFINE Goal == /\ state'[Root] = "tree" => state[Root] = "tree"
                    /\ state[Root] = "free" => state'[Root] = "free" /\ code' = code
<1>1. ASSUME FileStep
      PROVE  Goal
  BY <1>1, TasksAlone
<1>2. ASSUME NEW c, NEW kind, NEW group, NEW dir, NEW fds, c # Root,
             Born(c, kind, group, dir, fds), UNCHANGED code
      PROVE  Goal
  BY <1>2, WorldConstantsOK DEF Born, TasksInv
<1>3. ASSUME NEW t \in Pids, NEW ts, NEW status, Exit(t, ts, status)
      PROVE  Goal
  BY <1>3, WorldConstantsOK DEF Exit, TasksInv
<1>4. ASSUME NEW t \in Pids, SilentExit(t)
      PROVE  Goal
  BY <1>4, WorldConstantsOK DEF SilentExit, TasksInv
<1>5. CASE WaitPid
  BY <1>5, WorldConstantsOK DEF WaitPid, TasksInv
<1>6. ASSUME UNCHANGED <<state, code>>
      PROVE  Goal
  BY <1>6
<1>7. ASSUME CollectorNext, ~WaitPid
      PROVE  UNCHANGED <<state, code>>
  <2>1. CASE Drain \/ Quiesced \/ Finish
    BY <2>1 DEF Drain, Quiesced, Finish, worldVars, taskVars
  <2>. QED
    BY <1>7, <2>1, Taken DEF CollectorNext, Take, worldVars, taskVars
<1>8. ASSUME NEW t \in Pids, NEW ts, NEW c \in Pids, NEW thread, Fork(t, ts, c, thread)
      PROVE  Goal
  BY <1>2, <1>8 DEF Fork, Born
<1>9. ASSUME NEW t \in Pids, NEW dir, SpawnExternal(t, dir)
      PROVE  Goal
  BY <1>2, <1>9 DEF SpawnExternal, Born
<1>10. ASSUME NEW t, NEW ts, NEW style, Exec(t, ts, style)
       PROVE  UNCHANGED <<state, code>>
  BY <1>10 DEF Exec
<1>. QED
  BY <1>1, <1>3, <1>4, <1>5, <1>6, <1>7, <1>8, <1>9, <1>10, WorldSteps
  DEF Next, vars, worldVars, taskVars

LEMMA RootStep ==
  ASSUME TasksInv, ClockInv, EventsInv, RootInv, [Next]_vars
  PROVE  RootInv'
<1>1. ASSUME NEW d \in RootExits(Emitted')
      PROVE  \/ d \in RootExits(Emitted)
             \/ /\ state[Root] = "tree" /\ state'[Root] # "tree"
                /\ ring' = ring \cup {d} /\ UNCHANGED raw_events
  <2>1. d \in Emitted' /\ d.kind = "exit" /\ d.tgid = Root
    BY <1>1 DEF RootExits
  <2>2. ASSUME NEW e \in Emitted, Alike(d, e)
        PROVE  d \in RootExits(Emitted)
    BY <2>1, <2>2 DEF Alike, RootExits
  <2>3. ASSUME NEW t \in Pids, Heard(d, t), UNCHANGED collectorVars
        PROVE  /\ state[Root] = "tree" /\ state'[Root] # "tree"
               /\ ring' = ring \cup {d} /\ UNCHANGED raw_events
    BY <2>1, <2>3 DEF Heard, collectorVars, bufferVars
  <2>. QED
    BY <2>1, <2>2, <2>3, Origin
<1>2. \A d, e \in RootExits(Emitted') : d = e
  <2>. SUFFICES ASSUME NEW d \in RootExits(Emitted'), NEW e \in RootExits(Emitted')
                PROVE  d = e
    OBVIOUS
  <2>1. CASE d \in RootExits(Emitted) /\ e \in RootExits(Emitted)
    BY <2>1 DEF RootInv
  <2>2. CASE d \notin RootExits(Emitted) \/ e \notin RootExits(Emitted)
    <3>1. state[Root] = "tree"
      BY <1>1, <2>2
    <3>2. d \notin RootExits(Emitted) /\ e \notin RootExits(Emitted)
      BY <3>1 DEF RootInv
    <3>3. /\ ring' = ring \cup {d} /\ ring' = ring \cup {e}
          /\ d.kind = "exit" /\ d.tgid = Root
      BY <1>1, <3>2 DEF RootExits
    <3>. QED
      BY <3>2, <3>3 DEF RootExits, Emitted
  <2>. QED
    BY <2>1, <2>2
<1>3. RootExits(Emitted') # {} => state'[Root] # "tree"
  BY <1>1, RootStays DEF RootInv
<1>4. phase' # "collect" => state'[Root] = "free"
  <2>1. CASE WaitPid
    BY <2>1, WorldConstantsOK DEF WaitPid, TasksInv
  <2>2. ASSUME phase # "collect"
        PROVE  state'[Root] = "free"
    BY <2>2, RootStays DEF RootInv
  <2>3. ASSUME phase = "collect", ~WaitPid
        PROVE  phase' = "collect"
    <3>1. CASE Drain \/ Quiesced \/ Finish
      BY <2>3, <3>1 DEF Drain, Quiesced, Finish
    <3>2. ASSUME NEW e, process_event(e)
          PROVE  FALSE
      BY <2>3, <3>2, Taken DEF Take
    <3>. QED
      BY <2>3, <3>1, <3>2 DEF Next, CollectorNext, vars, collectorVars, bufferVars
  <2>. QED
    BY <2>1, <2>2, <2>3
<1>. QED
  BY <1>2, <1>3, <1>4 DEF RootInv, RootExits, Emitted

\* The results that tell of an exit under the PID of the root.
ExitResults(s) ==
  {i \in DOMAIN s : s[i].kind = "exit" /\ s[i].process.lifetime.pid = Root}

\* The collector: the root keeps its first lifetime, and at most one result,
\* made of the only event there is, tells of its exit.
ExitInv ==
  /\ IsSeq(events)
  /\ phase \in {"collect", "quiesce"} => events = <<>>
  /\ phase # "done" =>
       /\ Root \in DOMAIN current_processes
       /\ current_processes[Root].lifetime = root_process.lifetime
       /\ \A i, j \in ExitResults(events) : i = j
       /\ \A i \in ExitResults(events) :
            /\ events[i].process.lifetime = root_process.lifetime
            /\ "exit_code" \in DOMAIN events[i]
            /\ events[i].of \in RootExits(raw_events \ todo)
  /\ RootExitTruthful

\* A process that is known keeps its lifetime until a fork has its PID as the
\* child.
LEMMA LifetimeKept ==
  ASSUME NEW e, process_event(e), NEW q \in DOMAIN current_processes,
         e.kind = "fork" => e.payload.child # q
  PROVE  /\ q \in DOMAIN current_processes'
         /\ current_processes'[q].lifetime = current_processes[q].lifetime
<1>. DEFINE Goal == /\ q \in DOMAIN current_processes'
                    /\ current_processes'[q].lifetime = current_processes[q].lifetime
<1>1. ASSUME KnowProcess(e.tgid)
      PROVE  Goal
  BY <1>1 DEF KnowProcess, Put, current_process
<1>2. CASE ProcessExec(e)
  BY <1>2 DEF ProcessExec, Put, current_process, next_epoch
<1>3. CASE ProcessFork(e)
  <2>1. e.payload.child # q
    BY <1>3 DEF ProcessFork
  <2>2. current_processes' = Put(Put(current_processes, e.tgid, current_process(e.tgid)),
                                 e.payload.child, new_process(e.payload.child))
    BY <1>3 DEF ProcessFork
  <2>. QED
    BY <2>1, <2>2 DEF Put, current_process
<1>4. ASSUME UNCHANGED current_processes
      PROVE  Goal
  BY <1>4
<1>. QED
  BY <1>1, <1>2, <1>3, <1>4
  DEF process_event, ProcessOpen, ProcessClose, ProcessMmap, ProcessUnlink,
      ProcessRenameSource, ProcessRenameDestination, RejectRenameDestination,
      SwallowRootExec, ProcessExit, processVars

LEMMA ExitProcessed ==
  ASSUME TypeInv, RootInv, ExitInv, NEW e \in todo, process_event(e)
  PROVE  ExitInv'
<1>1. /\ Take(e) /\ RawEvent(e) /\ e \in raw_events
      /\ phase = "process" /\ phase' = "process"
      /\ todo' = todo \ {e} /\ raw_events' = raw_events
  BY Taken DEF TypeInv, TableInv, TypeOK, EventsInv, Emitted, Take
<1>2. Added(events, events', e)
  BY ResultsAdded DEF ExitInv
<1>3. /\ Root \in DOMAIN current_processes'
      /\ current_processes'[Root].lifetime = root_process.lifetime
  BY <1>1, LifetimeKept DEF ExitInv, RawEvent
<1>4. ASSUME NEW i \in ExitResults(events'), i \notin DOMAIN events
      PROVE  /\ e \in RootExits(raw_events) /\ events'[i].of = e
             /\ events'[i].process.lifetime = root_process.lifetime
             /\ "exit_code" \in DOMAIN events'[i]
             /\ DOMAIN events' = DOMAIN events \cup {i}
  <2>1. Result(e, events'[i]) /\ events'[i].kind = "exit"
    BY <1>2, <1>4 DEF Added, ExitResults
  <2>2. e.kind = "exit" /\ events'[i].process = current_process(e.tgid)
    BY <2>1 DEF Result, Attributed
  <2>3. e.tgid \in Pids /\ current_process(e.tgid).lifetime.pid = e.tgid
    BY <1>1, KnownTyped DEF RawEvent, TypeInv
  <2>4. e.tgid = Root
    BY <1>4, <2>2, <2>3 DEF ExitResults
  <2>5. current_process(Root).lifetime = root_process.lifetime
    BY <1>1 DEF ExitInv, current_process
  <2>6. DOMAIN events' = DOMAIN events \cup {i}
    <3>1. PICK k \in DOMAIN events' \ DOMAIN events :
            DOMAIN events' = DOMAIN events \cup {k}
      BY <1>2, <2>2 DEF Added
    <3>2. i \in DOMAIN events'
      BY <1>4 DEF ExitResults
    <3>3. i = k
      BY <1>4, <3>1, <3>2
    <3>. QED
      BY <3>1, <3>3
  <2>. QED
    BY <1>1, <2>1, <2>2, <2>4, <2>5, <2>6 DEF RootExits, Result
<1>5. \A i \in ExitResults(events') : i \in DOMAIN events => i \in ExitResults(events)
  BY <1>2 DEF Added, ExitResults
<1>6. \A i \in ExitResults(events') :
        /\ events'[i].process.lifetime = root_process.lifetime
        /\ "exit_code" \in DOMAIN events'[i]
        /\ events'[i].of \in RootExits(raw_events' \ todo')
  <2>. SUFFICES ASSUME NEW i \in ExitResults(events')
                PROVE  /\ events'[i].process.lifetime = root_process.lifetime
                       /\ "exit_code" \in DOMAIN events'[i]
                       /\ events'[i].of \in RootExits(raw_events' \ todo')
    OBVIOUS
  <2>1. CASE i \in DOMAIN events
    <3>1. i \in ExitResults(events) /\ events'[i] = events[i]
      BY <1>2, <1>5, <2>1 DEF Added
    <3>. QED
      BY <1>1, <3>1 DEF ExitInv, RootExits
  <2>2. CASE i \notin DOMAIN events
    BY <1>1, <1>4, <2>2 DEF RootExits
  <2>. QED
    BY <2>1, <2>2
<1>7. \A i, j \in ExitResults(events') : i = j
  <2>. SUFFICES ASSUME NEW i \in ExitResults(events'), NEW j \in ExitResults(events')
                PROVE  i = j
    OBVIOUS
  <2>1. CASE i \in DOMAIN events /\ j \in DOMAIN events
    BY <1>1, <1>5, <2>1 DEF ExitInv
  <2>2. ASSUME NEW k \in ExitResults(events'), k \notin DOMAIN events,
               NEW l \in ExitResults(events), l \in DOMAIN events
        PROVE  FALSE
    <3>1. e \in RootExits(raw_events)
      BY <1>4, <2>2
    <3>2. events[l].of \in RootExits(raw_events \ todo)
      BY <1>1, <2>2 DEF ExitInv
    <3>. QED
      BY <3>1, <3>2 DEF RootInv, RootExits, Emitted
  <2>3. CASE i \notin DOMAIN events /\ j \notin DOMAIN events
    <3>1. DOMAIN events' = DOMAIN events \cup {i}
      BY <1>4, <2>3
    <3>. QED
      BY <2>3, <3>1 DEF ExitResults
  <2>4. CASE \/ i \in DOMAIN events /\ j \notin DOMAIN events
             \/ i \notin DOMAIN events /\ j \in DOMAIN events
    BY <1>5, <2>2, <2>4
  <2>. QED
    BY <2>1, <2>3, <2>4
<1>8. IsSeq(events') /\ RootExitTruthful'
  BY <1>1, <1>2 DEF Added, RootExitTruthful
<1>. QED
  BY <1>1, <1>3, <1>6, <1>7, <1>8 DEF ExitInv

\* SetExitCode leaves one exit of the root, and it has the status of waitpid.
LEMMA ExitCodeSet ==
  ASSUME ExitInv, phase = "process"
  PROVE  LET r == SetExitCode(events)
         IN  /\ IsSeq(r)
             /\ \E i \in DOMAIN r :
                  /\ r[i].kind = "exit" /\ r[i].exit_code = code
                  /\ r[i].process.lifetime = root_process.lifetime
                  /\ \A j \in DOMAIN r :
                       /\ r[j].kind = "exit"
                       /\ r[j].process.lifetime = root_process.lifetime
                       => j = i
             /\ \A j \in DOMAIN r :
                  \/ j \in DOMAIN events /\ r[j] = events[j]
                  \/ /\ j \in DOMAIN events /\ events[j].kind = "exit"
                     /\ r[j] = [events[j] EXCEPT !.exit_code = code]
                  \/ "of" \notin DOMAIN r[j]
<1>. DEFINE I == {i \in 1 .. Len(events) : /\ events[i].kind = "exit"
                                          /\ events[i].process.lifetime.pid = Root}
            n == IF I # {} THEN Max(I) ELSE 0
            y == [kind |-> "exit", process |-> current_process(Root), exit_code |-> code]
            r == SetExitCode(events)
<1>1. /\ Len(events) \in Nat /\ DOMAIN events = 1 .. Len(events)
      /\ I = ExitResults(events)
  BY Appended DEF ExitInv, ExitResults
<1>2. r = IF n > 0 THEN [events EXCEPT ![n].exit_code = code] ELSE Append(events, y)
  BY DEF SetExitCode, SelectLastInSeq
<1>3. root_process.lifetime.pid = Root
  BY DEF root_process, Process, Lifetime
<1>4. CASE I = {}
  <2>1. r = Append(events, y)
    <3>1. n = 0
      BY <1>4
    <3>. HIDE DEF n, r, y
    <3>. QED
      BY <1>2, <3>1
  <2>2. current_process(Root).lifetime = root_process.lifetime
    BY DEF ExitInv, current_process
  <2>3. \A j \in DOMAIN events :
          ~(events[j].kind = "exit" /\ events[j].process.lifetime = root_process.lifetime)
    BY <1>1, <1>3, <1>4 DEF ExitResults
  <2>. HIDE DEF r
  <2>4. /\ IsSeq(r) /\ DOMAIN r = DOMAIN events \cup {Len(events) + 1}
        /\ \A i \in DOMAIN events : r[i] = events[i]
        /\ r[Len(events) + 1] = y
    BY <2>1, Appended DEF ExitInv
  <2>5. y.kind = "exit" /\ y.exit_code = code /\ y.process.lifetime = root_process.lifetime
        /\ "of" \notin DOMAIN y
    BY <2>2
  <2>. HIDE DEF y
  <2>. QED
    BY <2>3, <2>4, <2>5 DEF r
<1>5. CASE I # {}
  <2>1. PICK i \in I : \A j \in I : j = i
    BY <1>1, <1>5 DEF ExitInv
  <2>2. I = {i} /\ i \in 1 .. Len(events)
    BY <2>1
  <2>. HIDE DEF I
  <2>3. Max(I) = i
    BY <1>1, <2>2 DEF Max
  <2>4. r = [events EXCEPT ![i].exit_code = code]
    <3>1. n = i /\ i > 0
      BY <1>1, <1>5, <2>2, <2>3
    <3>. HIDE DEF n, r, y
    <3>. QED
      BY <1>2, <3>1
  <2>5. i \in ExitResults(events) /\ "exit_code" \in DOMAIN events[i]
    BY <1>1, <2>2 DEF ExitInv
  <2>6. /\ events[i].kind = "exit" /\ events[i].process.lifetime = root_process.lifetime
    BY <2>5 DEF ExitInv, ExitResults
  <2>7. \A j \in DOMAIN events :
          events[j].kind = "exit" /\ events[j].process.lifetime = root_process.lifetime
            => j = i
    BY <1>1, <1>3, <2>2 DEF ExitResults
  <2>. DEFINE z == [events[i] EXCEPT !.exit_code = code]
  <2>8. z.kind = "exit" /\ z.exit_code = code /\ z.process = events[i].process
    BY <2>5, <2>6
  <2>9. r = [events EXCEPT ![i] = z]
    BY <2>4
  <2>. HIDE DEF r
  <2>12. \A j \in DOMAIN r : \/ j \in DOMAIN events /\ r[j] = events[j]
                            \/ /\ j \in DOMAIN events /\ events[j].kind = "exit"
                               /\ r[j] = [events[j] EXCEPT !.exit_code = code]
    BY <1>1, <2>2, <2>6, <2>9
  <2>. HIDE DEF z
  <2>10. DOMAIN r = DOMAIN events /\ r[i] = z /\ \A j \in DOMAIN events : j # i => r[j] = events[j]
    BY <1>1, <2>2, <2>9
  <2>11. IsSeq(r)
    <3>1. PICK S : events \in Seq(S)
      BY DEF ExitInv, IsSeq
    <3>2. r \in Seq(S \cup {z})
      BY <1>1, <2>2, <2>9, <3>1
    <3>. QED
      BY <3>2 DEF IsSeq
  <2>. QED
    BY <1>1, <2>2, <2>6, <2>7, <2>8, <2>10, <2>11, <2>12 DEF r
<1>. QED
  BY <1>4, <1>5

LEMMA ExitFinished ==
  ASSUME ExitInv, Finish
  PROVE  ExitInv'
<1>. DEFINE r == SetExitCode(events)
            x == [kind |-> "exec", process |-> root_process]
<1>1. phase = "process" /\ phase' = "done" /\ events' = <<x>> \o r /\ code' = code
  BY DEF Finish, Cons, worldVars, taskVars
<1>2. IsSeq(r)
  BY <1>1, ExitCodeSet
<1>3. PICK i \in DOMAIN r :
        /\ r[i].kind = "exit" /\ r[i].exit_code = code
        /\ r[i].process.lifetime = root_process.lifetime
        /\ \A j \in DOMAIN r :
             r[j].kind = "exit" /\ r[j].process.lifetime = root_process.lifetime => j = i
  BY <1>1, ExitCodeSet
<1>. HIDE DEF r
<1>4. PICK S : r \in Seq(S)
  BY <1>2 DEF IsSeq
<1>5. x.kind = "exec"
  OBVIOUS
<1>. HIDE DEF x
<1>6. /\ IsSeq(events') /\ Len(r) \in Nat /\ DOMAIN r = 1 .. Len(r)
      /\ DOMAIN events' = 1 .. Len(r) + 1
      /\ events'[1] = x /\ \A j \in 1 .. Len(r) : events'[j + 1] = r[j]
  <2>1. r \in Seq(S \cup {x}) /\ <<x>> \in Seq(S \cup {x})
    BY <1>4
  <2>. QED
    BY <1>1, <2>1 DEF IsSeq
<1>. DEFINE exits == {j \in DOMAIN events' : /\ events'[j].kind = "exit"
                                            /\ events'[j].process.lifetime = root_process.lifetime}
<1>7. exits = {i + 1}
  <2>1. i + 1 \in exits
    BY <1>3, <1>6
  <2>2. ASSUME NEW j \in exits
        PROVE  j = i + 1
    <3>1. j \in 1 .. Len(r) + 1 /\ j # 1
      BY <1>5, <1>6, <2>2
    <3>2. j - 1 \in 1 .. Len(r) /\ events'[j] = r[j - 1]
      BY <1>6, <3>1
    <3>3. j - 1 = i
      BY <1>3, <1>6, <2>2, <3>2
    <3>. QED
      BY <1>6, <3>1, <3>3
  <2>. QED
    BY <2>1, <2>2
<1>8. Cardinality(exits) = 1
  BY <1>7, FS_Singleton
<1>9. \A j \in exits : events'[j].exit_code = code'
  BY <1>1, <1>3, <1>6, <1>7
<1>10. RootExitTruthful'
  BY <1>8, <1>9 DEF RootExitTruthful, root_process, Process, Lifetime
<1>. QED
  BY <1>1, <1>6, <1>10 DEF ExitInv

LEMMA ExitStep ==
  ASSUME TypeInv, RootInv, ExitInv, [Next]_vars
  PROVE  ExitInv'
<1>1. CASE Drain \/ WaitPid \/ Quiesced
  <2>1. /\ UNCHANGED <<events, current_processes>> /\ phase \in {"collect", "quiesce"}
        /\ phase' \in {"collect", "quiesce", "process"}
    BY <1>1 DEF Drain, WaitPid, Quiesced, processVars
  <2>2. events = <<>> /\ events' = <<>>
    BY <2>1 DEF ExitInv
  <2>3. ExitResults(events') = {}
    BY <2>2 DEF ExitResults
  <2>. QED
    BY <2>1, <2>2, <2>3 DEF ExitInv, RootExitTruthful
<1>2. CASE UNCHANGED collectorVars
  <2>1. UNCHANGED <<phase, raw_events, todo, events, current_processes>>
    BY <1>2 DEF collectorVars, bufferVars, processVars
  <2>2. phase = "done" => code' = code
    BY RootStays DEF RootInv, TypeInv
  <2>3. RootExitTruthful'
    BY <2>1, <2>2 DEF ExitInv, RootExitTruthful
  <2>. QED
    BY <2>1, <2>3 DEF ExitInv, ExitResults, RootExits
<1>. QED
  BY <1>1, <1>2, ExitFinished, ExitProcessed DEF Next, CollectorNext, vars

\* However descendants outlive it, PIDs are recycled and events of one
\* timestamp are ordered: a finished trace has one exit of the traced command,
\* under the lifetime it had from the start and with the status of waitpid.
THEOREM RootExitCorrect == Spec => []RootExitTruthful
<1>1. Init => RootInv /\ ExitInv
  <2>. SUFFICES ASSUME Init PROVE RootInv /\ ExitInv
    OBVIOUS
  <2>1. Emitted = {} /\ phase = "collect" /\ events = <<>>
    BY DEF Init, WorldInit, Emitted
  <2>2. /\ Root \in DOMAIN current_processes
        /\ current_processes[Root] = root_process
    BY DEF Init
  <2>3. ExitResults(events) = {}
    BY <2>1 DEF ExitResults
  <2>4. IsSeq(events)
    BY <2>1 DEF IsSeq
  <2>. QED
    BY <2>1, <2>2, <2>3, <2>4 DEF RootInv, RootExits, ExitInv, RootExitTruthful
<1>2. TypeInv /\ RootInv /\ ExitInv /\ [Next]_vars => (RootInv /\ ExitInv)'
  BY RootStep, ExitStep DEF TypeInv
<1>3. ExitInv => RootExitTruthful
  BY DEF ExitInv
<1>. QED
  BY TypeInitially, TypeStep, <1>1, <1>2, <1>3, PTL DEF Spec
=============================================================================
