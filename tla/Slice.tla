-------------------------------- MODULE Slice -------------------------------
(***************************************************************************)
(* canonicalize_output_slice: the operations the selected outputs depend   *)
(* on.  The trace is scanned once for who read, wrote and renamed which    *)
(* contents; then the producers are walked back from the outputs.  Maps to *)
(* sets are relations here.                                                *)
(***************************************************************************)
EXTENDS Canonicalize

VARIABLES
  \* ProcessFlow
  flow_tool,          \* instance -> tool_hash
  has_exec,           \* instances
  reads,              \* <<instance, hash>>
  writes,             \* <<instance, hash>>
  renames,            \* <<instance, hash>>
  \* the other locals of the scan
  open_writes,        \* pending_writes: (lifetime, fd) -> [process, path]
  writers_by_hash,    \* <<hash, instance>>
  writers_by_path,    \* <<path, instance>>
  rename_pairs,
  root_exit,
  \* the walk
  walking,            \* the queue is being worked off
  output_hashes,
  included_processes,
  relevant_hashes,
  queue

flowVars == <<flow_tool, has_exec, reads, writes, renames>>
writerVars == <<writers_by_hash, writers_by_path, rename_pairs>>
scanVars == <<flowVars, writerVars, open_writes, root_exit>>
walkVars == <<walking, output_hashes, included_processes, relevant_hashes, queue>>
sliceVars == <<scanVars, walkVars>>

ScanInit ==
  /\ flow_tool = [x \in Instances |-> <<>>] /\ has_exec = {}
  /\ reads = {} /\ writes = {} /\ renames = {}
  /\ open_writes = <<>>
  /\ writers_by_hash = {} /\ writers_by_path = {} /\ rename_pairs = <<>>
  /\ root_exit = <<>>
  /\ walking = FALSE /\ output_hashes = {}
  /\ included_processes = {} /\ relevant_hashes = {} /\ queue = {}

\* The locals of the next call.
ScanReset ==
  /\ flow_tool' = [x \in Instances |-> <<>>] /\ has_exec' = {}
  /\ reads' = {} /\ writes' = {} /\ renames' = {}
  /\ open_writes' = <<>>
  /\ writers_by_hash' = {} /\ writers_by_path' = {} /\ rename_pairs' = <<>>
  /\ root_exit' = <<>>
  /\ walking' = FALSE /\ output_hashes' = {}
  /\ included_processes' = {} /\ relevant_hashes' = {} /\ queue' = {}
-----------------------------------------------------------------------------
(* The scan.                                                               *)

rewrite_path_prefix(path, from, to) ==
  IF IsPrefix(from, path) THEN to \o SubSeq(path, Len(from) + 1, Len(path))
                          ELSE path

\* Mutant: writers of a renamed file are not taken along.
NotAliased(writers, from, to) == writers

\* The writers of a path are also those of what it is renamed to.
Aliased(writers, from, to) ==
  writers \cup {<<rewrite_path_prefix(w[1], from, to), w[2]>> :
                  w \in {v \in writers : IsPrefix(from, v[1])}}

\* What a readable file contributes to reads.
ReadHashes(e) ==
  IF is_system_state(e.step.path) THEN { <<"system", "state">> }
                                  ELSE content_hash(e.observation)

ScanExec(e) ==
  /\ e.type = "exec"
  /\ flow_tool' = [flow_tool EXCEPT ![e.process] = <<e.observation>>]
  /\ has_exec' = has_exec \cup {e.process}
  /\ UNCHANGED <<reads, writes, renames, writerVars, open_writes, root_exit>>

ScanFork(e) ==
  LET inherited == {k \in DOMAIN open_writes : k[1] = e.process[1]}
      copies == {<<e.step.child, k[2]>> : k \in inherited}
  IN  /\ e.type = "fork"
      /\ flow_tool' = [flow_tool EXCEPT ![<<e.step.child, 0>>] = flow_tool[e.process]]
      /\ open_writes' =
           [k \in DOMAIN open_writes \cup copies |->
              IF k \in copies THEN open_writes[<<e.process[1], k[2]>>]
                              ELSE open_writes[k]]
      /\ UNCHANGED <<has_exec, reads, writes, renames, writerVars, root_exit>>

\* A file is opened or mapped.
Accessed(e, read, write) ==
  /\ reads' = IF read THEN reads \cup {<<e.process, h>> : h \in ReadHashes(e)}
              ELSE reads
  /\ open_writes' =
       IF write THEN Put(open_writes, <<e.process[1], e.step.fd>>,
                         [process |-> e.process, path |-> e.step.path])
       ELSE open_writes
  /\ UNCHANGED <<flow_tool, has_exec, writes, renames, writerVars, root_exit>>

ScanOpen(e) ==
  /\ e.type = "open" /\ ~e.external
  /\ Accessed(e, can_read(e.step), can_write(e.step))

ScanMmap(e) ==
  /\ e.type = "mmap" /\ ~e.external
  /\ LET known == e.step.path # NoPath
     IN  Accessed(e, known, known /\ e.step.mode = "rw")

\* What is written belongs to who opened it.
ScanClose(e) ==
  LET key == <<e.process[1], e.step.fd>>
      closed == key \in DOMAIN open_writes /\ can_write(e.step)
      writer == open_writes[key].process
      hashes == content_hash(e.observation)
  IN  /\ e.type = "close" /\ ~e.external
      /\ open_writes' = Delete(open_writes, key)
      /\ IF closed /\ e.step.path # NoPath
         THEN /\ writers_by_path' = writers_by_path \cup {<<e.step.path, writer>>}
              /\ writes' = writes \cup {<<writer, h>> : h \in hashes}
              /\ writers_by_hash' = writers_by_hash \cup {<<h, writer>> : h \in hashes}
         ELSE UNCHANGED <<writers_by_path, writes, writers_by_hash>>
      /\ UNCHANGED <<flow_tool, has_exec, reads, renames, rename_pairs, root_exit>>

ScanRename(e) ==
  LET from == e.step.path
      to == e.step.to
      hashes == content_hash(e.observation)
  IN  /\ e.type = "rename" /\ ~e.external
      /\ open_writes' =
           [k \in DOMAIN open_writes |->
              [open_writes[k] EXCEPT !.path = rewrite_path_prefix(@, from, to)]]
      /\ writers_by_path' =
           Aliased(writers_by_path, from, to) \cup {<<to, e.process>>}
      /\ rename_pairs' = Append(rename_pairs, <<from, to>>)
      /\ reads' = reads \cup {<<e.process, h>> : h \in hashes}
      /\ renames' = renames \cup {<<e.process, h>> : h \in hashes}
      /\ writers_by_hash' = writers_by_hash \cup {<<h, e.process>> : h \in hashes}
      /\ UNCHANGED <<flow_tool, has_exec, writes, root_exit>>

ScanExit(e) ==
  /\ e.type = "exit"
  /\ root_exit' = IF e.process[1] = Root
                  THEN << [process |-> e.process, code |-> e.step.code] >>
                  ELSE root_exit
  /\ UNCHANGED <<flowVars, writerVars, open_writes>>

\* External file events and deletions.
ScanIgnored(e) ==
  /\ \/ e.external /\ e.type \in {"open", "mmap", "close", "rename"}
     \/ e.type = "unlink"
  /\ UNCHANGED scanVars

\* One iteration of the loop.
ScanStep(e) ==
  /\ \/ ScanExec(e) \/ ScanFork(e) \/ ScanOpen(e) \/ ScanMmap(e) \/ ScanClose(e)
     \/ ScanRename(e) \/ ScanExit(e) \/ ScanIgnored(e)
  /\ UNCHANGED walkVars
-----------------------------------------------------------------------------
(* The walk.                                                               *)

\* Every rename applied once more, for writes that came after it.
Fixup ==
  FoldLeft(LAMBDA writers, pair : Aliased(writers, pair[1], pair[2]),
           writers_by_path, rename_pairs)

Seeds(writers, outputs) ==
  {w[2] : w \in {v \in writers : \E o \in outputs : o.path = v[1]}}

StartWalk(outputs) ==
  /\ ~walking /\ outputs # {}
  /\ walking' = TRUE
  /\ writers_by_path' = Fixup
  /\ output_hashes' = {o.hash : o \in outputs}
  /\ relevant_hashes' = output_hashes'
  /\ included_processes' = Seeds(Fixup, outputs)
  /\ queue' = included_processes'
  /\ UNCHANGED <<flowVars, writers_by_hash, rename_pairs, open_writes, root_exit>>

\* Mutant: a process is taken off the queue before its reads are looked at.
PopOnly(x) ==
  /\ walking /\ x \in queue
  /\ queue' = queue \ {x}
  /\ UNCHANGED <<scanVars, walking, output_hashes, included_processes,
                 relevant_hashes>>

\* Mutant: whoever produced something that was read is queued again.
PopAgain(x) ==
  LET fresh == {r[2] : r \in {s \in reads : s[1] = x}}
      found == {w[2] : w \in {v \in writers_by_hash : v[1] \in fresh}}
  IN  /\ walking /\ x \in queue
      /\ relevant_hashes' = relevant_hashes \cup fresh
      /\ included_processes' = included_processes \cup found
      /\ queue' = (queue \ {x}) \cup found
      /\ UNCHANGED <<scanVars, walking, output_hashes>>

\* The processes of the queue come in an order that HashSet leaves open.
Pop(x) ==
  LET fresh == {h \in {r[2] : r \in {s \in reads : s[1] = x}} : h \notin relevant_hashes}
      found == {w[2] : w \in {v \in writers_by_hash : v[1] \in fresh}}
                 \ included_processes
  IN  /\ walking /\ x \in queue
      /\ relevant_hashes' = relevant_hashes \cup fresh
      /\ included_processes' = included_processes \cup found
      /\ queue' = (queue \ {x}) \cup found
      /\ UNCHANGED <<scanVars, walking, output_hashes>>

FlowOp(x, op_type, input_hashes, outputs) ==
  CanonicalOp(op_type, 0, flow_tool[x], <<>>, input_hashes, outputs)

\* The operations of the processes the walk has reached.
ReachedOps ==
  LET reached(relation) ==
        {r \in relation : r[1] \in included_processes /\ r[2] \in relevant_hashes}
      execs == {x \in included_processes \cap has_exec : flow_tool[x] # <<>>}
  IN  {FlowOp(x, "exec", <<>>, <<>>) : x \in execs}
      \cup {FlowOp(r[1], "file_read", <<r[2]>>, <<>>) : r \in reached(reads)}
      \cup {FlowOp(r[1], "file_write", <<>>, <<r[2]>>) : r \in reached(writes)}
      \cup {FlowOp(r[1], "file_rename", <<r[2]>>, <<r[2]>>) : r \in reached(renames)}

\* Output contents that no reached process wrote or renamed, and who else did.
Orphans ==
  {h \in output_hashes :
     \A x \in included_processes : <<x, h>> \notin writes \cup renames}
Candidates(h) ==
  {w[2] : w \in {v \in writers_by_hash : v[1] = h /\ <<v[2], h>> \in writes \cup renames}}

\* Mutant: an output that nobody was seen to write is left out.
AttributedOnly(h, chosen) ==
  {FlowOp(x, "file_write", <<>>, <<h>>) : x \in chosen}

\* chosen is the first candidate in the order of a HashSet, if there is one.
OrphanOp(h, chosen) ==
  IF chosen = {}
  THEN {CanonicalOp("file_write", -1, <<>>, << <<"arg", "output">> >>, <<>>, <<h>>)}
  ELSE {FlowOp(x, "file_write", <<>>, <<h>>) : x \in chosen}

ExitOps ==
  {CanonicalOp("exit", 0, flow_tool[root_exit[i].process],
               << <<"exit", root_exit[i].code>> >>, <<>>, <<>>) : i \in DOMAIN root_exit}

\* The result for each way to choose.
canonicalize_output_slice ==
  {finalize_ops(ReachedOps \cup ExitOps
                \cup UNION {OrphanOp(h, pick[h]) : h \in Orphans}) :
     pick \in {f \in [Orphans -> {{}} \cup {{x} : x \in Instances}] :
                 \A h \in Orphans : IF Candidates(h) = {} THEN f[h] = {}
                                    ELSE f[h] # {} /\ f[h] \subseteq Candidates(h)}}

EndWalk ==
  /\ walking /\ queue = {}
  /\ walking' = FALSE
  /\ UNCHANGED <<scanVars, output_hashes, included_processes, relevant_hashes, queue>>
=============================================================================
