---------------------------- MODULE Canonicalize ----------------------------
(***************************************************************************)
(* canonicalize_events: the whole trace as a set of operations.  Every     *)
(* action handles one event of the loop.  A position in the vectors of     *)
(* operations is named by the event that pushed there, since the vectors   *)
(* are sorted by hash in the end.                                          *)
(***************************************************************************)
EXTENDS Builds

VARIABLES
  process_to_index,
  process_to_tool_hash,
  pending_writes,               \* (lifetime, fd) -> position in ops
  external_pending_writes,      \* (lifetime, fd) -> position in external_ops
  fallback_external_processes,  \* lifetimes without a known tool
  ops,
  external_ops

opsVars == <<pending_writes, external_pending_writes, ops, external_ops>>
canonVars == <<process_to_index, process_to_tool_hash, opsVars,
               fallback_external_processes>>

CanonInit ==
  /\ process_to_index = [x \in {root_process} |-> 0]
  /\ process_to_tool_hash = <<>>
  /\ pending_writes = <<>> /\ external_pending_writes = <<>>
  /\ fallback_external_processes = {}
  /\ ops = <<>> /\ external_ops = <<>>

\* The locals of the next call.
CanonReset ==
  /\ process_to_index' = [x \in {root_process} |-> 0]
  /\ process_to_tool_hash' = <<>>
  /\ pending_writes' = <<>> /\ external_pending_writes' = <<>>
  /\ fallback_external_processes' = {}
  /\ ops' = <<>> /\ external_ops' = <<>>
-----------------------------------------------------------------------------
(* Operations.  An Option is a sequence of at most one element.            *)

CanonicalOp(op_type, index, tool_hash, args, input_hashes, output_hashes) ==
  [op_type |-> op_type, process_index |-> index, tool_hash |-> tool_hash,
   args |-> args, input_hashes |-> input_hashes, output_hashes |-> output_hashes]

\* Mutant: process indices are hashed.
hash_with_index(op) ==
  << <<"op", op.op_type>>, <<"index", op.process_index>> >> \o op.tool_hash \o op.args
     \o op.input_hashes \o op.output_hashes

\* What CanonicalOp::hash feeds to SHA-256, in this order.
hash(op) ==
  << <<"op", op.op_type>> >> \o op.tool_hash \o op.args
     \o op.input_hashes \o op.output_hashes

\* No operation has two arguments, inputs or outputs to be sorted.
finalize_ops(all) == {hash(op) : op \in all}

\* Vec::push for each of new.
Push(list, e, new) ==
  [i \in DOMAIN list \cup {<<e.id, op.op_type>> : op \in new} |->
     IF \E op \in new : i = <<e.id, op.op_type>>
     THEN CHOOSE op \in new : i = <<e.id, op.op_type>> ELSE list[i]]

Fill(list, i, observation) == [list EXCEPT ![i].output_hashes = <<observation>>]

tool_hash(process) ==
  IF process \in DOMAIN process_to_tool_hash
  THEN <<process_to_tool_hash[process]>> ELSE <<>>

IndexWith(process) ==
  IF process \in DOMAIN process_to_index THEN process_to_index
  ELSE Put(process_to_index, process, Cardinality(DOMAIN process_to_index))

\* An operation of the process of e, and one of an external process.
TreeOp(e, op_type, args, input_hashes, output_hashes) ==
  CanonicalOp(op_type, IndexWith(e.process)[e.process], tool_hash(e.process),
              args, input_hashes, output_hashes)
ExternalOp(op_type, args, input_hashes, output_hashes) ==
  CanonicalOp(op_type, -1, <<>>, args, input_hashes, output_hashes)

\* A process of the tree whose tool is not known counts as external where it
\* touches watched paths, and stays so.
FallbackExternal(e, paths) ==
  /\ ~e.external /\ e.process[1] # Root
  /\ \E path \in paths : is_watched_path(path)
  /\ \/ e.process[1] \in fallback_external_processes
     \/ e.process \notin DOMAIN process_to_tool_hash

AsExternal(e, paths) == e.external \/ FallbackExternal(e, paths)
-----------------------------------------------------------------------------
(* The arms of the match.                                                  *)

CanonExec(e) ==
  /\ e.type = "exec"
  /\ process_to_index' = IndexWith(e.process)
  /\ process_to_tool_hash' = Put(process_to_tool_hash, e.process, e.observation)
  /\ ops' = Push(ops, e, {CanonicalOp("exec", IndexWith(e.process)[e.process],
                                      <<e.observation>>, <<>>, <<>>, <<>>)})
  /\ UNCHANGED <<pending_writes, external_pending_writes, external_ops,
                 fallback_external_processes>>

\* Mutant: descriptors are not inherited.
ForkToolOnly(e) ==
  LET child == <<e.step.child, 0>>
  IN  /\ e.type = "fork"
      /\ process_to_tool_hash' =
           IF e.process \in DOMAIN process_to_tool_hash
           THEN Put(process_to_tool_hash, child, process_to_tool_hash[e.process])
           ELSE process_to_tool_hash
      /\ UNCHANGED <<process_to_index, opsVars, fallback_external_processes>>

\* The child has its parent's tool and, for its pending writes, its operations.
CanonFork(e) ==
  LET child == <<e.step.child, 0>>
      inherited == {k \in DOMAIN pending_writes : k[1] = e.process[1]}
      copies == {<<child[1], k[2]>> : k \in inherited}
  IN  /\ e.type = "fork"
      /\ process_to_tool_hash' =
           IF e.process \in DOMAIN process_to_tool_hash
           THEN Put(process_to_tool_hash, child, process_to_tool_hash[e.process])
           ELSE process_to_tool_hash
      /\ pending_writes' =
           [k \in DOMAIN pending_writes \cup copies |->
              IF k \in copies THEN pending_writes[<<e.process[1], k[2]>>]
                              ELSE pending_writes[k]]
      /\ UNCHANGED <<process_to_index, external_pending_writes, ops, external_ops,
                     fallback_external_processes>>

IgnoredOpen(e) ==
  /\ e.external /\ ~is_watched_path(e.step.path)
  /\ UNCHANGED canonVars

\* What an external open, or mapping, leaves; fresh says if a write operation
\* is pushed.
ExternalAccess(e, reads, fresh) ==
  /\ fallback_external_processes' = fallback_external_processes \cup {e.process[1]}
  /\ external_ops' = Push(external_ops, e, reads \cup
       (IF fresh THEN {ExternalOp("external_file_write", <<>>, <<>>, <<>>)} ELSE {}))
  /\ external_pending_writes' =
       IF fresh THEN Put(external_pending_writes, <<e.process[1], e.step.fd>>,
                         <<e.id, "external_file_write">>)
       ELSE external_pending_writes
  /\ UNCHANGED <<process_to_index, process_to_tool_hash, pending_writes, ops>>

\* Mutant: the position is taken before the read of the same event is pushed.
TreeAccessEarly(e, reads, fresh) ==
  /\ process_to_index' = IndexWith(e.process)
  /\ ops' = Push(ops, e, reads \cup
       (IF fresh THEN {TreeOp(e, "file_write", <<>>, <<>>, <<>>)} ELSE {}))
  /\ pending_writes' =
       IF fresh THEN Put(pending_writes, <<e.process[1], e.step.fd>>,
                         <<e.id, IF reads = {} THEN "file_write" ELSE "file_read">>)
       ELSE pending_writes
  /\ UNCHANGED <<process_to_tool_hash, external_pending_writes, external_ops,
                 fallback_external_processes>>

TreeAccess(e, reads, fresh) ==
  /\ process_to_index' = IndexWith(e.process)
  /\ ops' = Push(ops, e, reads \cup
       (IF fresh THEN {TreeOp(e, "file_write", <<>>, <<>>, <<>>)} ELSE {}))
  /\ pending_writes' =
       IF fresh THEN Put(pending_writes, <<e.process[1], e.step.fd>>,
                         <<e.id, "file_write">>)
       ELSE pending_writes
  /\ UNCHANGED <<process_to_tool_hash, external_pending_writes, external_ops,
                 fallback_external_processes>>

SystemStateRead(e) ==
  TreeOp(e, "system_state_read", <<>>, << <<"system", "state">> >>, <<>>)

CanonOpen(e) ==
  /\ e.type = "open"
  /\ \/ IgnoredOpen(e)
     \/ /\ ~(e.external /\ ~is_watched_path(e.step.path))
        /\ AsExternal(e, {e.step.path})
        /\ ExternalAccess(e,
             IF can_read(e.step)
             THEN {ExternalOp("external_file_read", <<>>, <<e.observation>>, <<>>)}
             ELSE {}, can_write(e.step))
     \/ /\ ~AsExternal(e, {e.step.path})
        /\ is_system_state(e.step.path)
        /\ TreeAccess(e, {SystemStateRead(e)}, FALSE)
     \/ /\ ~AsExternal(e, {e.step.path})
        /\ ~is_system_state(e.step.path)
        /\ TreeAccess(e,
             IF can_read(e.step)
             THEN {TreeOp(e, "file_read", <<>>, <<e.observation>>, <<>>)}
             ELSE {}, can_write(e.step))

\* mode "rw" is a writable MAP_SHARED mapping, mode "r" any other.
CanonMmap(e) ==
  LET is_write == e.step.mode = "rw"
      key == <<e.process[1], e.step.fd>>
      mmap == << <<"arg", "mmap">> >>
  IN  /\ e.type = "mmap"
      /\ \/ /\ \/ e.step.path = NoPath
               \/ e.external /\ ~is_watched_path(e.step.path)
            /\ UNCHANGED canonVars
         \/ /\ e.step.path # NoPath
            /\ e.external => is_watched_path(e.step.path)
            /\ \/ /\ AsExternal(e, {e.step.path})
                  /\ ExternalAccess(e,
                       {ExternalOp("external_file_read", mmap, <<e.observation>>, <<>>)},
                       is_write /\ key \notin DOMAIN external_pending_writes)
               \/ /\ ~AsExternal(e, {e.step.path})
                  /\ is_system_state(e.step.path)
                  /\ TreeAccess(e, {SystemStateRead(e)}, FALSE)
               \/ /\ ~AsExternal(e, {e.step.path})
                  /\ ~is_system_state(e.step.path)
                  /\ TreeAccess(e,
                       {TreeOp(e, "file_read", mmap, <<e.observation>>, <<>>)},
                       is_write /\ key \notin DOMAIN pending_writes)

\* A close resolves the pending write of its descriptor; only a descriptor
\* that was opened for writing is observed.
CanonClose(e) ==
  LET key == <<e.process[1], e.step.fd>>
      external == \/ e.external
                  \/ /\ e.process[1] # Root
                     /\ e.process[1] \in fallback_external_processes
                     /\ is_watched_path(e.step.path)
  IN  /\ e.type = "close"
      /\ UNCHANGED <<process_to_index, process_to_tool_hash,
                     fallback_external_processes>>
      /\ \/ /\ e.step.path = NoPath
            /\ UNCHANGED opsVars
         \/ /\ e.step.path # NoPath /\ external
            /\ external_pending_writes' = Delete(external_pending_writes, key)
            /\ external_ops' =
                 IF key \in DOMAIN external_pending_writes /\ can_write(e.step)
                 THEN Fill(external_ops, external_pending_writes[key], e.observation)
                 ELSE external_ops
            /\ UNCHANGED <<pending_writes, ops>>
         \/ /\ e.step.path # NoPath /\ ~external
            /\ pending_writes' = Delete(pending_writes, key)
            /\ ops' = IF key \in DOMAIN pending_writes /\ can_write(e.step)
                      THEN Fill(ops, pending_writes[key], e.observation) ELSE ops
            /\ UNCHANGED <<external_pending_writes, external_ops>>

\* Renames and deletions push one operation, on the side of their process.
Moved(e, paths, tree_type, external_type, output_hashes) ==
  LET flags == << <<"flags", "0x0">> >>
      inputs == <<e.observation>>
  IN  \/ /\ AsExternal(e, paths)
         /\ ExternalAccess(e, {ExternalOp(external_type, flags, inputs, output_hashes)},
                           FALSE)
      \/ /\ ~AsExternal(e, paths)
         /\ TreeAccess(e, {TreeOp(e, tree_type, flags, inputs, output_hashes)}, FALSE)

CanonRename(e) ==
  /\ e.type = "rename"
  /\ Moved(e, {e.step.path, e.step.to}, "file_rename", "external_file_rename",
           <<e.observation>>)

CanonUnlink(e) ==
  /\ e.type = "unlink"
  /\ Moved(e, {e.step.path}, "file_delete", "external_file_delete", <<>>)

\* Only the root's exit status is known.
CanonExit(e) ==
  /\ e.type = "exit"
  /\ ops' = IF e.process \in DOMAIN process_to_index
            THEN Push(ops, e, {TreeOp(e, "exit",
                   IF e.process[1] = Root THEN << <<"exit", e.step.code>> >> ELSE <<>>,
                   <<>>, <<>>)})
            ELSE ops
  /\ UNCHANGED <<process_to_index, process_to_tool_hash, pending_writes,
                 external_pending_writes, external_ops, fallback_external_processes>>

\* One iteration of the loop.
CanonStep(e) ==
  \/ CanonExec(e) \/ CanonFork(e) \/ CanonOpen(e) \/ CanonMmap(e)
  \/ CanonClose(e) \/ CanonRename(e) \/ CanonUnlink(e) \/ CanonExit(e)

\* The result.
canonicalize_events ==
  finalize_ops({ops[i] : i \in DOMAIN ops}
               \cup {external_ops[i] : i \in DOMAIN external_ops})
=============================================================================
