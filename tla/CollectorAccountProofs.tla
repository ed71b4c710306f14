----------------------- MODULE CollectorAccountProofs ------------------------
(***************************************************************************)
(* Proof that an accepted trace accounts for every event that reached      *)
(* userspace, with and without ties, for every width of the generation     *)
(* counter and every set of watched directories, as long as everybody      *)
(* works in the directory repx was started in.                             *)
(*                                                                         *)
(* An event may leave no result in four ways, each of which has to be      *)
(* justified from several events: the swallowed exec is the first one of   *)
(* the root; the source of a rename waits until its other half settles it; *)
(* what the watch filter drops is outside of the watched directories; and  *)
(* a close or mmap whose descriptor the collector does not know belongs to *)
(* an open that was dropped for that reason, because neither a close nor a *)
(* fork has come between the two.                                          *)
(***************************************************************************)
EXTENDS CollectorLifetimeProofs

\* Names are UTF-8, and given absolutely or relative to a working directory
\* which is the same for all and which no rename moves.
Stationary ==
  /\ BadNames = {} /\ "dirfd" \notin Styles
  /\ "cwd" \in Styles =>
       /\ Cwds = {Home}
       /\ \A raw \in Names : ~IsPrefix(raw, Home) /\ ~IsPrefix(Home \o raw, Home)
-----------------------------------------------------------------------------
(* What the events say of files.                                           *)

\* Every event of the ring was put there by the operation it is named for.
LEMMA Caused ==
  ASSUME WorldNext, NEW e \in ring', e \notin ring
  PROVE  \E t \in Pids, ts \in Instants :
           \/ \E raw \in Names, style \in Styles :
                \/ \E fd \in Fds, mode \in Modes :
                     Open(t, ts, fd, raw, style, mode) /\ e.kind = "open"
                \/ \E to \in Names, exchange \in BOOLEAN :
                     /\ Rename(t, ts, raw, to, style, exchange)
                     /\ e.kind \in {"rename_source", "rename_destination"}
                \/ Unlink(t, ts, raw, style) /\ e.kind = "unlink"
           \/ \E fd \in Fds : \/ Close(t, ts, fd) /\ e.kind = "close"
                              \/ Mmap(t, ts, fd) /\ e.kind = "mmap"
           \/ \E style \in Styles : Exec(t, ts, style) /\ e.kind = "exec"
           \/ e.kind \in {"fork", "exit"}
<1>1. ASSUME NEW t, NEW ts, NEW fd, NEW raw, NEW style, NEW mode,
             Open(t, ts, fd, raw, style, mode)
      PROVE  e.kind = "open"
  BY <1>1 DEF Open, Emit, Event
<1>2. ASSUME NEW t, NEW ts, NEW raw, NEW to, NEW style, NEW exchange,
             Rename(t, ts, raw, to, style, exchange)
      PROVE  e.kind \in {"rename_source", "rename_destination"}
  BY <1>2 DEF Rename, Emit, Event
<1>3. ASSUME NEW t, NEW ts, NEW raw, NEW style, Unlink(t, ts, raw, style)
      PROVE  e.kind = "unlink"
  BY <1>3 DEF Unlink, Emit, Event
<1>4. ASSUME NEW t, NEW ts, NEW fd, Close(t, ts, fd)
      PROVE  e.kind = "close"
  BY <1>4 DEF Close, Emit, Event
<1>5. ASSUME NEW t, NEW ts, NEW fd, Mmap(t, ts, fd)
      PROVE  e.kind = "mmap"
  BY <1>5 DEF Mmap, Emit, Event
<1>6. ASSUME NEW t, NEW ts, NEW c, NEW thread, Fork(t, ts, c, thread)
      PROVE  e.kind = "fork"
  BY <1>6 DEF Fork, Event
<1>7. ASSUME NEW t, NEW ts, NEW status, Exit(t, ts, status)
      PROVE  e.kind = "exit"
  BY <1>7 DEF Exit, Emit, Event
<1>8. ASSUME NEW t, NEW ts, NEW style, Exec(t, ts, style)
      PROVE  e.kind = "exec"
  BY <1>8 DEF Exec, Emit, Event
<1>9. ASSUME ring' = ring
      PROVE  FALSE
  BY <1>9
<1>. QED
  BY <1>1, <1>2, <1>3, <1>4, <1>5, <1>6, <1>7, <1>8, <1>9
  DEF WorldNext, Write, Chdir, SpawnExternal, SilentExit

\* The name that a raw path has in the directory everybody works in.
AtHome(style, raw) == IF style = "abs" THEN raw ELSE Home \o raw

AllHome ==
  /\ "cwd" \in Styles => cwd = [p \in Pids |-> Home]
  /\ "cwd" \in Styles => \A l \in DOMAIN process_cwds : process_cwds[l] = Home

\* The path of a system call, then.
LEMMA PathHome ==
  ASSUME Stationary, TasksInv, AllHome, NEW t \in Pids, NEW style \in Styles, NEW raw
  PROVE  /\ style \in {"abs", "cwd"}
         /\ Path(t, style, raw) = AtHome(style, raw)
BY WorldConstantsOK DEF Stationary, TasksInv, AllHome, Path, AtHome

\* The path of an event, later.
LEMMA ResolvedHome ==
  ASSUME Stationary, TasksInv, AllHome, NEW process, process.lifetime.pid \in Pids,
         NEW style \in Styles, NEW raw
  PROVE  /\ resolve_path(process, style, raw) = AtHome(style, raw)
         /\ \A l \in DOMAIN CwdsAfter(process, style) :
              "cwd" \in Styles => CwdsAfter(process, style)[l] = Home
<1>1. style \in {"abs", "cwd"}
  BY WorldConstantsOK DEF Stationary
<1>2. style = "cwd" => cwd[tg[process.lifetime.pid]] = Home
  BY DEF TasksInv, AllHome
<1>3. resolve_path(process, style, raw) = AtHome(style, raw)
  <2>1. CASE style = "abs"
    BY <2>1 DEF resolve_path, AtHome
  <2>2. CASE style = "cwd"
    BY <1>2, <2>2 DEF resolve_path, AtHome, AllHome
  <2>. QED
    BY <1>1, <2>1, <2>2
<1>4. \A l \in DOMAIN CwdsAfter(process, style) :
         "cwd" \in Styles => CwdsAfter(process, style)[l] = Home
  BY <1>2 DEF CwdsAfter, Put, AllHome
<1>. QED
  BY <1>3, <1>4

\* The operands of a file event, as they were.
Operands(e) ==
  /\ e.kind \in {"open", "unlink", "exec"} =>
       /\ e.payload.style \in Styles
       /\ e.payload.path = AtHome(e.payload.style, e.payload.raw)
  /\ e.kind = "rename_source" =>
       /\ e.payload.style \in Styles
       /\ e.payload.from = AtHome(e.payload.style, e.payload.raw)
  /\ e.kind = "rename_destination" =>
       /\ e.payload.style \in Styles
       /\ e.payload.path = AtHome(e.payload.style, e.payload.raw)
  /\ e.kind = "exec" => e.pid = e.tgid
  /\ e.kind \in {"close", "mmap"} => e.payload.fd \in Fds
  /\ e.source = "ext" => e.pid = e.tgid /\ e.tgid # Root
  /\ e.kind \in {"open", "unlink", "rename_source", "rename_destination"} =>
       e.payload.raw \in Names
  /\ e.kind = "open" => {"style", "path", "raw", "file"} \subseteq DOMAIN e.payload

\* Two events of one task and timestamp.
Pair(d, e) ==
  /\ d.kind \in {"close", "mmap", "exec"} => d = e
  /\ {d.kind, e.kind} \subseteq {"rename_source", "rename_destination"} =>
       /\ d.payload.from = e.payload.from /\ d.payload.path = e.payload.path
       /\ d.payload.exchange = e.payload.exchange

NamesInv ==
  /\ \A e \in Emitted : Operands(e)
  /\ \A d, e \in Emitted :
       d.pid = e.pid /\ d.timestamp_ns = e.timestamp_ns => Pair(d, e)

\* A new event says where its operand was.
LEMMA NewNames ==
  ASSUME Stationary, TasksInv, ClockInv, AllHome, WorldNext, NEW e \in ring', e \notin ring
  PROVE  Operands(e)
<1>0. PICK u \in Pids : Heard(e, u)
  BY NewEvent
<1>1. e.source = "ext" => e.pid = e.tgid /\ e.tgid # Root
  BY <1>0 DEF Heard, TasksInv
<1>2. PICK t \in Pids, ts \in Instants :
           \/ \E raw \in Names, style \in Styles :
                \/ \E fd \in Fds, mode \in Modes :
                     Open(t, ts, fd, raw, style, mode) /\ e.kind = "open"
                \/ \E to \in Names, exchange \in BOOLEAN :
                     /\ Rename(t, ts, raw, to, style, exchange)
                     /\ e.kind \in {"rename_source", "rename_destination"}
                \/ Unlink(t, ts, raw, style) /\ e.kind = "unlink"
           \/ \E fd \in Fds : \/ Close(t, ts, fd) /\ e.kind = "close"
                              \/ Mmap(t, ts, fd) /\ e.kind = "mmap"
           \/ \E style \in Styles : Exec(t, ts, style) /\ e.kind = "exec"
           \/ e.kind \in {"fork", "exit"}
  BY Caused
<1>3. ASSUME NEW raw \in Names, NEW style \in Styles, NEW fd \in Fds, NEW mode,
             Open(t, ts, fd, raw, style, mode), e.kind = "open"
      PROVE  Operands(e)
  <2>1. PICK f \in Files :
          Emit(t, ts, {Event("open", t, ts,
                [fd |-> fd, raw |-> raw, style |-> style, mode |-> mode,
                 path |-> Path(t, style, raw), file |-> f, content |-> content'[f],
                 arrived |-> content'[f]])})
    BY <1>3 DEF Open
  <2>2. e = Event("open", t, ts,
                [fd |-> fd, raw |-> raw, style |-> style, mode |-> mode,
                 path |-> Path(t, style, raw), file |-> f, content |-> content'[f],
                 arrived |-> content'[f]])
    BY <2>1 DEF Emit
  <2>3. /\ e.payload.style = style /\ e.payload.raw = raw
        /\ e.payload.path = Path(t, style, raw)
        /\ {"style", "path", "raw", "file"} \subseteq DOMAIN e.payload
    BY <2>2 DEF Event
  <2>. QED
    BY <1>1, <1>3, <2>3, PathHome DEF Operands
<1>4. ASSUME NEW raw \in Names, NEW style \in Styles, NEW to \in Names, NEW exchange,
             Rename(t, ts, raw, to, style, exchange),
             e.kind \in {"rename_source", "rename_destination"}
      PROVE  Operands(e)
  <2>. DEFINE half(r) == [raw |-> r, style |-> style, exchange |-> exchange,
                          from |-> Path(t, style, raw), path |-> Path(t, style, to)]
  <2>1. \/ e = Event("rename_source", t, ts, half(raw))
        \/ e = Event("rename_destination", t, ts, half(to))
    BY <1>4 DEF Rename, Emit
  <2>2. /\ e.payload.style = style
        /\ e.payload.from = Path(t, style, raw) /\ e.payload.path = Path(t, style, to)
        /\ e.kind = "rename_source" => e.payload.raw = raw
        /\ e.kind = "rename_destination" => e.payload.raw = to
    BY <2>1 DEF Event
  <2>. QED
    BY <1>1, <1>4, <2>2, PathHome DEF Operands
<1>5. ASSUME NEW raw \in Names, NEW style \in Styles, Unlink(t, ts, raw, style),
             e.kind = "unlink"
      PROVE  Operands(e)
  <2>1. e = Event("unlink", t, ts,
                  [raw |-> raw, style |-> style, path |-> Path(t, style, raw)])
    BY <1>5 DEF Unlink, Emit
  <2>2. /\ e.payload.style = style /\ e.payload.raw = raw
        /\ e.payload.path = Path(t, style, raw)
    BY <2>1 DEF Event
  <2>. QED
    BY <1>1, <1>5, <2>2, PathHome DEF Operands
<1>6. ASSUME NEW fd \in Fds, Close(t, ts, fd) \/ Mmap(t, ts, fd), e.kind \in {"close", "mmap"}
      PROVE  Operands(e)
  <2>1. e.payload = FdPayload(tg[t], fd)
    BY <1>6 DEF Close, Mmap, Emit, Event
  <2>2. e.payload.fd = fd
    BY <2>1 DEF FdPayload
  <2>. QED
    BY <1>1, <1>6, <2>2 DEF Operands
<1>7. ASSUME NEW style \in Styles, Exec(t, ts, style), e.kind = "exec"
      PROVE  Operands(e)
  <2>1. /\ e.payload.style = style /\ e.payload.raw = Tool
        /\ e.payload.path = Path(t, style, Tool)
    BY <1>7 DEF Exec, Emit, Event
  <2>2. Path(t, style, Tool) = AtHome(style, Tool)
    BY PathHome
  <2>. QED
    BY <1>0, <1>1, <1>7, <2>1, <2>2 DEF Operands, Heard
<1>8. ASSUME e.kind \in {"fork", "exit"}
      PROVE  Operands(e)
  BY <1>1, <1>8 DEF Operands
<1>. QED
  BY <1>2, <1>3, <1>4, <1>5, <1>6, <1>7, <1>8

\* Two events of one step are the halves of a rename.
LEMMA NewPair ==
  ASSUME WorldNext, NEW d \in ring', d \notin ring, NEW e \in ring', e \notin ring
  PROVE  Pair(d, e)
<1>1. PICK t \in Pids, ts \in Instants :
           \/ \E raw \in Names, style \in Styles :
                \/ \E fd \in Fds, mode \in Modes :
                     Open(t, ts, fd, raw, style, mode) /\ d.kind = "open"
                \/ \E to \in Names, exchange \in BOOLEAN :
                     /\ Rename(t, ts, raw, to, style, exchange)
                     /\ d.kind \in {"rename_source", "rename_destination"}
                \/ Unlink(t, ts, raw, style) /\ d.kind = "unlink"
           \/ \E fd \in Fds : \/ Close(t, ts, fd) /\ d.kind = "close"
                              \/ Mmap(t, ts, fd) /\ d.kind = "mmap"
           \/ \E style \in Styles : Exec(t, ts, style) /\ d.kind = "exec"
           \/ d.kind \in {"fork", "exit"}
  BY Caused
<1>2. ASSUME NEW raw \in Names, NEW style \in Styles, NEW to \in Names, NEW exchange,
             Rename(t, ts, raw, to, style, exchange)
      PROVE  /\ d.payload.from = e.payload.from /\ d.payload.path = e.payload.path
             /\ d.payload.exchange = e.payload.exchange
  <2>. DEFINE half(r) == [raw |-> r, style |-> style, exchange |-> exchange,
                          from |-> Path(t, style, raw), path |-> Path(t, style, to)]
  <2>1. \A x \in ring' \ ring : \/ x = Event("rename_source", t, ts, half(raw))
                                \/ x = Event("rename_destination", t, ts, half(to))
    BY <1>2 DEF Rename, Emit
  <2>2. \A x \in ring' \ ring : /\ x.payload.from = Path(t, style, raw)
                                /\ x.payload.path = Path(t, style, to)
                                /\ x.payload.exchange = exchange
    BY <2>1 DEF Event
  <2>. QED
    BY <2>2
<1>3. ASSUME NEW fd \in Fds, Close(t, ts, fd) \/ Mmap(t, ts, fd)
      PROVE  d = e
  BY <1>3 DEF Close, Mmap, Emit
<1>4. ASSUME NEW style, Exec(t, ts, style)
      PROVE  d = e
  BY <1>4 DEF Exec, Emit
<1>. QED
  BY <1>1, <1>2, <1>3, <1>4 DEF Pair

\* The operands stay as they were.
LEMMA NamesStep ==
  ASSUME Stationary, TypeInv, SeenInv, AllHome, NamesInv, [Next]_vars
  PROVE  NamesInv'
<1>0. TasksInv /\ ClockInv /\ EventsInv
  BY DEF TypeInv
<1>1. ASSUME NEW d \in Emitted', NEW e \in Emitted, Alike(d, e)
      PROVE  Operands(d)
  <2>1. Operands(e) /\ RawEvent(e)
    BY <1>0 DEF NamesInv, EventsInv
  <2>2. CASE e.kind # "open"
    BY <1>1, <2>1, <2>2 DEF Alike
  <2>3. CASE e.kind = "open"
    <3>1. /\ d.kind = "open" /\ d.source = e.source /\ d.pid = e.pid /\ d.tgid = e.tgid
          /\ d.payload.style = e.payload.style /\ d.payload.raw = e.payload.raw
          /\ d.payload.path = e.payload.path
          /\ {"style", "path", "raw", "file"} \subseteq DOMAIN d.payload
      BY <1>1, <2>1, <2>3 DEF Alike, Operands
    <3>. QED
      BY <2>1, <2>3, <3>1 DEF Operands
  <2>. QED
    BY <2>2, <2>3
<1>2. \A d \in Emitted' : Operands(d)
  BY <1>0, <1>1, Origin, NewNames
<1>3. ASSUME NEW d \in Emitted', NEW e \in Emitted',
             d.pid = e.pid, d.timestamp_ns = e.timestamp_ns
      PROVE  Pair(d, e)
  <2>1. ASSUME NEW x \in Emitted, NEW y \in Emitted, Alike(d, x), Alike(e, y)
        PROVE  Pair(d, e)
    <3>1. Pair(x, y)
      BY <1>3, <2>1 DEF NamesInv, Alike
    <3>2. /\ d.kind = x.kind /\ e.kind = y.kind
          /\ x.kind # "open" => d = x
          /\ y.kind # "open" => e = y
      BY <2>1 DEF Alike
    <3>. QED
      BY <3>1, <3>2 DEF Pair
  <2>2. ASSUME NEW x \in Emitted, NEW t \in Pids, NEW y, NEW z, Alike(y, x), Heard(z, t),
               y.pid = z.pid, y.timestamp_ns = z.timestamp_ns
        PROVE  FALSE
    <3>1. x.pid = t /\ x.timestamp_ns = z.timestamp_ns
      BY <2>2 DEF Alike, Heard
    <3>2. x.timestamp_ns < z.timestamp_ns /\ x.timestamp_ns \in Nat
      BY <2>2, <3>1, HeardLast DEF SeenInv
    <3>. QED
      BY <3>1, <3>2
  <2>. QED
    BY <1>0, <1>3, <2>1, <2>2, Origin, NewPair
<1>. QED
  BY <1>2, <1>3 DEF NamesInv

\* Nobody leaves the directory, and it stays where it is.
LEMMA HomeKept ==
  ASSUME Stationary, TasksInv, AllHome, [Next]_vars, "cwd" \in Styles
  PROVE  cwd' = [p \in Pids |-> Home]
<1>0. cwd = [p \in Pids |-> Home] /\ Cwds = {Home}
  BY DEF AllHome, Stationary
<1>1. ASSUME NEW t \in Pids, NEW ts, NEW raw \in Names, NEW to \in Names,
             NEW style \in Styles, NEW exchange, Rename(t, ts, raw, to, style, exchange)
      PROVE  cwd' = [p \in Pids |-> Home]
  <2>. DEFINE from == Path(t, style, raw)
              dest == Path(t, style, to)
              move(path) == IF IsPrefix(from, path) THEN Moved(path, from, dest)
                            ELSE IF exchange THEN Moved(path, dest, from) ELSE path
  <2>1. cwd' = [p \in Pids |-> move(cwd[p])]
    BY <1>1 DEF Rename
  <2>2. from = AtHome(style, raw) /\ dest = AtHome(style, to) /\ style \in {"abs", "cwd"}
    BY PathHome
  <2>3. ~IsPrefix(from, Home) /\ ~IsPrefix(dest, Home)
    BY <2>2 DEF AtHome, Stationary
  <2>4. move(Home) = Home
    BY <2>3 DEF Moved
  <2>. HIDE DEF move
  <2>. QED
    BY <1>0, <2>1, <2>4
<1>2. ASSUME NEW c, NEW kind, NEW group, NEW fds, Born(c, kind, group, Home, fds)
      PROVE  cwd' = [p \in Pids |-> Home]
  BY <1>0, <1>2 DEF Born
<1>3. ASSUME NEW t \in Pids, NEW ts, NEW c, NEW thread, Fork(t, ts, c, thread)
      PROVE  cwd' = [p \in Pids |-> Home]
  <2>1. cwd[tg[t]] = Home
    BY <1>0 DEF TasksInv
  <2>. QED
    BY <1>2, <1>3, <2>1 DEF Fork
<1>4. ASSUME NEW t, NEW dir \in Cwds, Chdir(t, dir)
      PROVE  cwd' = [p \in Pids |-> Home]
  BY <1>0, <1>4 DEF Chdir
<1>5. ASSUME NEW t, NEW dir \in Cwds, SpawnExternal(t, dir)
      PROVE  cwd' = [p \in Pids |-> Home]
  BY <1>0, <1>2, <1>5 DEF SpawnExternal
<1>6. ASSUME NEW t, NEW ts, NEW fd, NEW raw, NEW style, NEW mode,
             Open(t, ts, fd, raw, style, mode)
      PROVE  cwd' = cwd
  BY <1>6 DEF Open
<1>7. ASSUME NEW t, NEW ts, NEW x, NEW y,
             \/ Unlink(t, ts, x, y) \/ Close(t, ts, x) \/ Mmap(t, ts, x)
             \/ Exec(t, ts, x) \/ Exit(t, ts, x)
      PROVE  cwd' = cwd
  BY <1>7 DEF Unlink, Close, Mmap, Exec, Exit, taskVars
<1>8. ASSUME NEW t, Write(t) \/ SilentExit(t)
      PROVE  cwd' = cwd
  BY <1>8 DEF Write, SilentExit, taskVars
<1>9. ASSUME CollectorNext
      PROVE  cwd' = cwd
  <2>1. CASE Drain \/ WaitPid \/ Quiesced \/ Finish
    BY <2>1 DEF Drain, WaitPid, Quiesced, Finish, worldVars, taskVars
  <2>. QED
    BY <1>9, <2>1, Taken DEF CollectorNext, Take, worldVars, taskVars
<1>. QED
  BY <1>0, <1>1, <1>3, <1>4, <1>5, <1>6, <1>7, <1>8, <1>9
  DEF Next, WorldNext, vars, worldVars, taskVars

\* Only PIDs wait for the other half of a rename.
PendingInv ==
  \A k \in DOMAIN pending_renames :
    /\ pending_renames[k].process.lifetime.pid \in Pids
    /\ \E s \in Done :
         /\ s.kind = "rename_source" /\ k = <<s.pid, s.timestamp_ns>>
         /\ pending_renames[k].external <=> s.source = "ext"
         /\ pending_renames[k].from = s.payload.from
         /\ pending_renames[k].exchange = s.payload.exchange

\* The cached directories are that one, too.
LEMMA CacheHome ==
  ASSUME Stationary, TypeInv, AllHome, NamesInv, PendingInv, NEW e \in todo,
         process_event(e), "cwd" \in Styles, NEW l \in DOMAIN process_cwds'
  PROVE  process_cwds'[l] = Home
<1>0. /\ TasksInv /\ RawEvent(e) /\ Operands(e)
      /\ \A m \in DOMAIN process_cwds : process_cwds[m] = Home
  BY DoneStep DEF TypeInv, NamesInv, Emitted, AllHome
<1>1. e.tgid \in Pids /\ current_process(e.tgid).lifetime.pid = e.tgid
  BY <1>0, KnownTyped DEF RawEvent, TypeInv
<1>2. ASSUME UNCHANGED process_cwds
      PROVE  process_cwds'[l] = Home
  BY <1>0, <1>2
<1>3. ASSUME NEW process, process.lifetime.pid \in Pids, NEW style \in Styles,
             process_cwds' = CwdsAfter(process, style)
      PROVE  process_cwds'[l] = Home
  BY <1>0, <1>3, ResolvedHome
<1>4. CASE ProcessOpen(e)
  <2>1. process_cwds' = CwdsAfter(current_process(e.tgid), e.payload.style)
        /\ e.payload.style \in Styles
    BY <1>0, <1>4 DEF ProcessOpen, Operands, Stationary
  <2>. QED
    BY <1>1, <1>3, <2>1
<1>5. CASE ProcessUnlink(e)
  <2>1. process_cwds' = CwdsAfter(current_process(e.tgid), e.payload.style)
        /\ e.payload.style \in Styles
    BY <1>0, <1>5 DEF ProcessUnlink, Operands, Stationary
  <2>. QED
    BY <1>1, <1>3, <2>1
<1>6. CASE ProcessRenameSource(e)
  <2>1. process_cwds' = CwdsAfter(current_process(e.tgid), e.payload.style)
        /\ e.payload.style \in Styles
    BY <1>0, <1>6 DEF ProcessRenameSource, Operands, Stationary
  <2>. QED
    BY <1>1, <1>3, <2>1
<1>7. CASE ProcessRenameDestination(e)
  <2>. DEFINE k == <<e.pid, e.timestamp_ns>>
  <2>1. /\ process_cwds' = CwdsAfter(pending_renames[k].process, e.payload.style)
        /\ e.payload.style \in Styles /\ k \in DOMAIN pending_renames
    BY <1>0, <1>7 DEF ProcessRenameDestination, Operands
  <2>2. pending_renames[k].process.lifetime.pid \in Pids
    BY <2>1 DEF PendingInv
  <2>. QED
    BY <1>3, <2>1, <2>2
<1>8. CASE ProcessExec(e)
  <2>. DEFINE process == next_epoch(current_process(e.tgid))
  <2>1. /\ process_cwds' = CwdsAfter(process, e.payload.style)
        /\ e.payload.style \in Styles
    BY <1>0, <1>8 DEF ProcessExec, Operands
  <2>2. process.lifetime.pid \in Pids
    BY <1>1 DEF next_epoch
  <2>. HIDE DEF process
  <2>. QED
    BY <1>3, <2>1, <2>2
<1>9. CASE ProcessFork(e)
  <2>1. \/ UNCHANGED process_cwds
        \/ \E c : \E m \in DOMAIN process_cwds :
             process_cwds' = Put(process_cwds, c, process_cwds[m])
    BY <1>9 DEF ProcessFork
  <2>. QED
    BY <1>0, <1>2, <2>1 DEF Put
<1>. QED
  BY <1>2, <1>4, <1>5, <1>6, <1>7, <1>8, <1>9
  DEF process_event, ProcessClose, ProcessMmap, RejectRenameDestination,
      SwallowRootExec, ProcessExit, tableVars

\* Where relative paths occur, every process and every entry of process_cwds stays in the one
\* working directory.
LEMMA HomeStep ==
  ASSUME Stationary, TypeInv, AllHome, NamesInv, PendingInv, [Next]_vars
  PROVE  AllHome'
<1>1. "cwd" \in Styles => cwd' = [p \in Pids |-> Home]
  BY HomeKept DEF TypeInv
<1>2. ASSUME "cwd" \in Styles
      PROVE  \A l \in DOMAIN process_cwds' : process_cwds'[l] = Home
  <2>1. ASSUME UNCHANGED process_cwds
        PROVE  \A l \in DOMAIN process_cwds' : process_cwds'[l] = Home
    BY <1>2, <2>1 DEF AllHome
  <2>2. CASE Drain \/ WaitPid \/ Quiesced \/ Finish
    BY <2>1, <2>2 DEF Drain, WaitPid, Quiesced, Finish, tableVars
  <2>. QED
    BY <1>2, <2>1, <2>2, CacheHome DEF Next, CollectorNext, vars, collectorVars, tableVars
<1>. QED
  BY <1>1, <1>2 DEF AllHome
-----------------------------------------------------------------------------
(* The descriptors of external processes.                                  *)

\* An event is kept, or a copy of it.
LEMMA KeptAlike ==
  ASSUME EventsInv, [Next]_vars, NEW e \in Emitted
  PROVE  \E d \in Emitted' : Alike(d, e)
<1>0. Alike(e, e) /\ DOMAIN e = Fields
  BY DEF Alike, EventsInv, RawEvent
<1>1. CASE WorldNext /\ UNCHANGED collectorVars
  BY <1>0, <1>1, RingGrows DEF Emitted, collectorVars, bufferVars
<1>2. CASE Drain
  <2>1. Alike(Copied(e), e)
    BY <1>0, CopiedAlike
  <2>2. e \in raw_events' \/ Copied(e) \in raw_events'
    BY <1>2, DrainCopies DEF Emitted
  <2>. QED
    BY <1>0, <2>1, <2>2 DEF Emitted
<1>3. CASE (CollectorNext /\ ~Drain) \/ UNCHANGED vars
  BY <1>0, <1>3, CollectorKeeps DEF Emitted, vars, worldVars, collectorVars, bufferVars
<1>. QED
  BY <1>1, <1>2, <1>3 DEF Next

OpenOf(o, p, b, fd) == o.kind = "open" /\ o.tgid = p /\ o.born = b /\ o.payload.fd = fd
CloseOf(c, p, fd) == c.kind = "close" /\ c.tgid = p /\ c.payload.fd = fd

\* A descriptor comes from the last open of its process, which no close has
\* undone, and is used before the PID goes to a child of the tree.
ExtInv ==
  /\ ofd \in [Pids -> [Fds -> Files \cup {None}]]
  /\ \A p \in Pids, fd \in Fds : state[p] = "ext" /\ ofd[p][fd] # None =>
       \E o \in Emitted : /\ OpenOf(o, p, birth[p], fd)
                          /\ \A c \in Emitted : CloseOf(c, p, fd) =>
                               c.timestamp_ns < o.timestamp_ns
  /\ \A e \in Emitted : e.source = "ext" /\ e.kind \in {"close", "mmap"} =>
       \E o \in Emitted :
         /\ OpenOf(o, e.tgid, e.born, e.payload.fd) /\ o.timestamp_ns < e.timestamp_ns
         /\ \A c \in Emitted : CloseOf(c, e.tgid, e.payload.fd) =>
              c.timestamp_ns < o.timestamp_ns \/ e.timestamp_ns <= c.timestamp_ns
  /\ \A f \in Forks(Emitted) : state[f.payload.child] = "ext" =>
       f.payload.born < birth[f.payload.child]
  /\ \A f \in Forks(Emitted), e \in Emitted : e.source = "ext" /\ e.tgid = f.payload.child =>
       /\ f.payload.born < e.born => f.timestamp_ns < e.timestamp_ns
       /\ f.payload.born >= e.born => e.timestamp_ns < f.timestamp_ns
  /\ \A c, e \in Emitted : e.source = "ext" /\ c.tgid = e.tgid /\ c.born < e.born =>
       c.timestamp_ns < e.timestamp_ns

\* Nothing of a PID is newer than what its external process knows of.
LEMMA ExtLast ==
  ASSUME TypeInv, SeenInv, BirthInv, NamesInv, NEW p \in Pids, state[p] = "ext",
         NEW c \in Emitted, c.tgid = p
  PROVE  c.timestamp_ns \in Nat /\ c.timestamp_ns <= last[p]
<1>1. c.source \in {"tree", "ext"} /\ c.timestamp_ns \in Nat
  BY DEF TypeInv, EventsInv, RawEvent
<1>2. CASE c.source = "tree"
  BY <1>1, <1>2 DEF BirthInv
<1>3. CASE c.source = "ext"
  BY <1>1, <1>3 DEF NamesInv, Operands, SeenInv
<1>. QED
  BY <1>1, <1>2, <1>3

\* An external process has its descriptor fd from before the step, or has
\* just opened it.
HasFrom(p, fd) ==
  /\ state[p] = "ext" /\ birth'[p] = birth[p]
  /\ \/ ofd[p][fd] # None /\ \A c \in ring' \ ring : ~CloseOf(c, p, fd)
     \/ \E o : /\ ring' = ring \cup {o} /\ raw_events' = raw_events
               /\ OpenOf(o, p, birth[p], fd) /\ o.timestamp_ns > last[p]

\* A descriptor an external process has after a step it had before, or has just opened.
LEMMA FdsOrigin ==
  ASSUME TasksInv, ofd \in [Pids -> [Fds -> Files \cup {None}]], [Next]_vars
  PROVE  /\ ofd' \in [Pids -> [Fds -> Files \cup {None}]]
         /\ \A p \in Pids, fd \in Fds :
              state'[p] = "ext" /\ ofd'[p][fd] # None => HasFrom(p, fd)
<1>. DEFINE Goal ==
         /\ ofd' \in [Pids -> [Fds -> Files \cup {None}]]
         /\ \A p \in Pids, fd \in Fds :
              state'[p] = "ext" /\ ofd'[p][fd] # None => HasFrom(p, fd)
<1>0. NoFds \in [Fds -> Files \cup {None}] /\ \A fd \in Fds : NoFds[fd] = None
  BY DEF NoFds
<1>1. ASSUME NEW t \in Pids, NEW ts \in Instants, NEW fd0 \in Fds, NEW raw, NEW style,
             NEW mode, Open(t, ts, fd0, raw, style, mode), UNCHANGED raw_events
      PROVE  Goal
  <2>1. PICK f \in Files :
          /\ ofd' = [ofd EXCEPT ![tg[t]][fd0] = f]
          /\ Emit(t, ts, {Event("open", t, ts,
                [fd |-> fd0, raw |-> raw, style |-> style, mode |-> mode,
                 path |-> Path(t, style, raw), file |-> f, content |-> content'[f],
                 arrived |-> content'[f]])})
    BY <1>1 DEF Open
  <2>. DEFINE o == Event("open", t, ts,
                [fd |-> fd0, raw |-> raw, style |-> style, mode |-> mode,
                 path |-> Path(t, style, raw), file |-> f, content |-> content'[f],
                 arrived |-> content'[f]])
  <2>2. ring' = ring \cup {o} /\ ts > last[t]
    BY <2>1 DEF Emit, Tick
  <2>3. o.kind = "open" /\ o.tgid = tg[t] /\ o.born = birth[tg[t]] /\ o.payload.fd = fd0
        /\ o.timestamp_ns = ts
    BY DEF Event
  <2>. HIDE DEF o
  <2>4. UNCHANGED <<state, tg, birth>> /\ tg[t] \in Pids /\ state[t] \in {"tree", "ext"}
    BY <1>1 DEF Open, TasksInv, May
  <2>5. ofd' \in [Pids -> [Fds -> Files \cup {None}]]
    BY <2>1
  <2>6. ASSUME NEW p \in Pids, NEW fd \in Fds, state'[p] = "ext", ofd'[p][fd] # None
        PROVE  HasFrom(p, fd)
    <3>1. CASE p = tg[t] /\ fd = fd0
      <4>1. t = p
        BY <2>4, <2>6, <3>1 DEF TasksInv
      <4>. QED
        BY <1>1, <2>2, <2>3, <2>4, <2>6, <3>1, <4>1 DEF HasFrom, OpenOf
    <3>2. CASE ~(p = tg[t] /\ fd = fd0)
      <4>1. ofd'[p][fd] = ofd[p][fd]
        BY <2>1, <2>4, <3>2
      <4>2. \A c \in ring' \ ring : ~CloseOf(c, p, fd)
        BY <2>2, <2>3 DEF CloseOf
      <4>. QED
        BY <2>4, <2>6, <4>1, <4>2 DEF HasFrom
    <3>. QED
      BY <3>1, <3>2
  <2>. QED
    BY <2>5, <2>6
<1>2. ASSUME NEW t \in Pids, NEW ts \in Instants, NEW fd0 \in Fds, Close(t, ts, fd0)
      PROVE  Goal
  <2>. DEFINE x == Event("close", t, ts, FdPayload(tg[t], fd0))
  <2>1. /\ ofd' = [ofd EXCEPT ![tg[t]][fd0] = None] /\ ring' = ring \cup {x}
        /\ UNCHANGED <<state, tg, birth>> /\ tg[t] \in Pids
    BY <1>2 DEF Close, Emit, TasksInv
  <2>2. x.tgid = tg[t] /\ x.payload.fd = fd0
    BY DEF Event, FdPayload
  <2>. HIDE DEF x
  <2>3. ofd' \in [Pids -> [Fds -> Files \cup {None}]]
    BY <2>1
  <2>4. ASSUME NEW p \in Pids, NEW fd \in Fds, state'[p] = "ext", ofd'[p][fd] # None
        PROVE  HasFrom(p, fd)
    <3>1. ~(p = tg[t] /\ fd = fd0) /\ ofd[p][fd] # None
      BY <2>1, <2>4
    <3>. QED
      BY <2>1, <2>2, <2>4, <3>1 DEF HasFrom, CloseOf
  <2>. QED
    BY <2>3, <2>4
<1>3. ASSUME UNCHANGED <<ofd, state, birth>>, \A c \in ring' \ ring : c.kind # "close"
      PROVE  Goal
  BY <1>3 DEF HasFrom, CloseOf
<1>4. ASSUME NEW t \in Pids, NEW ts, NEW fd, Mmap(t, ts, fd)
      PROVE  Goal
  BY <1>3, <1>4 DEF Mmap, Emit, Event, taskVars
<1>5. ASSUME NEW t \in Pids, NEW ts, NEW raw, NEW to, NEW style, NEW exchange,
             Rename(t, ts, raw, to, style, exchange)
      PROVE  Goal
  BY <1>3, <1>5 DEF Rename, Emit, Event
<1>6. ASSUME NEW t \in Pids, NEW ts, NEW raw, NEW style, Unlink(t, ts, raw, style)
      PROVE  Goal
  BY <1>3, <1>6 DEF Unlink, Emit, Event, taskVars
<1>7. ASSUME NEW t \in Pids, NEW ts, NEW style, Exec(t, ts, style)
      PROVE  Goal
  BY <1>3, <1>7 DEF Exec, Emit, Event
<1>8. ASSUME NEW t, NEW dir, Write(t) \/ Chdir(t, dir)
      PROVE  Goal
  BY <1>3, <1>8 DEF Write, Chdir, taskVars
<1>9. ASSUME NEW c \in Pids, NEW kind, NEW group, NEW dir, NEW fds \in [Fds -> Files \cup {None}],
             Born(c, kind, group, dir, fds), kind = "tree" \/ fds = NoFds,
             \A x \in ring' \ ring : x.kind # "close"
      PROVE  Goal
  <2>1. /\ state' = [state EXCEPT ![c] = kind] /\ birth' = [birth EXCEPT ![c] = @ + 1]
        /\ ofd' = [ofd EXCEPT ![c] = fds]
    BY <1>9 DEF Born
  <2>2. ofd' \in [Pids -> [Fds -> Files \cup {None}]]
    BY <2>1
  <2>3. ASSUME NEW p \in Pids, NEW fd \in Fds, state'[p] = "ext", ofd'[p][fd] # None
        PROVE  HasFrom(p, fd)
    <3>1. p # c
      BY <1>0, <1>9, <2>1, <2>3 DEF TasksInv
    <3>. QED
      BY <1>9, <2>1, <2>3, <3>1 DEF HasFrom, CloseOf, TasksInv
  <2>. QED
    BY <2>2, <2>3
<1>10. ASSUME NEW t \in Pids, NEW ts, NEW c \in Pids, NEW thread \in BOOLEAN,
              Fork(t, ts, c, thread)
       PROVE  Goal
  <2>1. /\ Born(c, "tree", IF thread THEN tg[t] ELSE c, cwd[tg[t]],
                IF thread THEN NoFds ELSE ofd[tg[t]])
        /\ \A x \in ring' \ ring : x.kind # "close"
    BY <1>10 DEF Fork, Event
  <2>2. (IF thread THEN NoFds ELSE ofd[tg[t]]) \in [Fds -> Files \cup {None}]
    BY <1>0 DEF TasksInv
  <2>. QED
    BY <1>9, <2>1, <2>2
<1>11. ASSUME NEW p \in Pids, NEW dir, SpawnExternal(p, dir)
       PROVE  Goal
  BY <1>0, <1>9, <1>11 DEF SpawnExternal
<1>12. ASSUME NEW t \in Pids, NEW end, end # "ext", state' = [state EXCEPT ![t] = end],
              ofd' = [ofd EXCEPT ![t] = NoFds], UNCHANGED birth,
              \A x \in ring' \ ring : x.kind # "close"
       PROVE  Goal
  <2>1. ofd' \in [Pids -> [Fds -> Files \cup {None}]]
    BY <1>0, <1>12
  <2>2. ASSUME NEW p \in Pids, NEW fd \in Fds, state'[p] = "ext", ofd'[p][fd] # None
        PROVE  HasFrom(p, fd)
    <3>1. p # t
      BY <1>12, <2>2 DEF TasksInv
    <3>. QED
      BY <1>12, <2>2, <3>1 DEF HasFrom, CloseOf, TasksInv
  <2>. QED
    BY <2>1, <2>2
<1>13. ASSUME NEW t \in Pids, NEW ts, NEW status, Exit(t, ts, status)
       PROVE  Goal
  <2>1. PICK end : end # "ext" /\ state' = [state EXCEPT ![t] = end]
    BY <1>13 DEF Exit
  <2>2. /\ ofd' = [ofd EXCEPT ![t] = NoFds] /\ UNCHANGED birth
        /\ \A x \in ring' \ ring : x.kind # "close"
    BY <1>13 DEF Exit, Emit, Event
  <2>. QED
    BY <1>12, <2>1, <2>2
<1>14. ASSUME NEW t \in Pids, SilentExit(t)
       PROVE  Goal
  BY <1>12, <1>14 DEF SilentExit
<1>15. CASE CollectorNext
  <2>1. UNCHANGED <<ofd, birth>> /\ ring' \ ring = {}
    <3>1. CASE Drain \/ WaitPid \/ Quiesced \/ Finish
      BY <3>1 DEF Drain, WaitPid, Quiesced, Finish, worldVars, taskVars
    <3>. QED
      BY <1>15, <3>1, Taken DEF CollectorNext, Take, worldVars, taskVars
  <2>2. \A p \in Pids : state'[p] = "ext" => state[p] = "ext"
    <3>1. CASE WaitPid
      BY <3>1 DEF WaitPid, TasksInv
    <3>2. CASE Drain \/ Quiesced \/ Finish
      BY <3>2 DEF Drain, Quiesced, Finish, worldVars, taskVars
    <3>. QED
      BY <1>15, <3>1, <3>2, Taken DEF CollectorNext, Take, worldVars, taskVars
  <2>. QED
    BY <2>1, <2>2 DEF HasFrom
<1>16. CASE UNCHANGED vars
  BY <1>3, <1>16 DEF vars, worldVars, taskVars
<1>17. CASE WorldNext /\ UNCHANGED collectorVars
  <2>1. UNCHANGED raw_events
    BY <1>17 DEF collectorVars, bufferVars
  <2>. QED
    BY <1>1, <1>2, <1>4, <1>5, <1>6, <1>7, <1>8, <1>10, <1>11, <1>13, <1>14, <1>17, <2>1
    DEF WorldNext
<1>. QED
  BY <1>15, <1>16, <1>17 DEF Next

\* The first descriptor part of ExtInv.
LEMMA ExtFdsStep ==
  ASSUME TypeInv, SeenInv, BirthInv, NamesInv, ExtInv, [Next]_vars,
         NEW p \in Pids, NEW fd \in Fds, state'[p] = "ext", ofd'[p][fd] # None
  PROVE  \E o \in Emitted' : /\ OpenOf(o, p, birth'[p], fd)
                             /\ \A c \in Emitted' : CloseOf(c, p, fd) =>
                                  c.timestamp_ns < o.timestamp_ns
<1>0. TasksInv /\ ClockInv /\ EventsInv /\ EventsInv'
  BY EventsStep DEF TypeInv
<1>1. HasFrom(p, fd)
  BY <1>0, FdsOrigin DEF ExtInv
<1>2. state[p] = "ext" /\ birth'[p] = birth[p]
  BY <1>1 DEF HasFrom
<1>3. \A c \in Emitted' : c.kind = "close" => c \in Emitted \/ c \in ring' \ ring
  BY <1>0, Origin DEF Alike
<1>4. CASE ofd[p][fd] # None /\ \A c \in ring' \ ring : ~CloseOf(c, p, fd)
  <2>1. PICK o \in Emitted : /\ OpenOf(o, p, birth[p], fd)
                             /\ \A c \in Emitted : CloseOf(c, p, fd) =>
                                  c.timestamp_ns < o.timestamp_ns
    BY <1>2, <1>4 DEF ExtInv
  <2>2. PICK d \in Emitted' : Alike(d, o)
    BY <1>0, KeptAlike
  <2>3. OpenOf(d, p, birth'[p], fd) /\ d.timestamp_ns = o.timestamp_ns
    BY <1>0, <1>2, <2>1, <2>2 DEF OpenOf, Alike, EventsInv, RawEvent
  <2>. QED
    BY <1>3, <1>4, <2>1, <2>3 DEF CloseOf
<1>5. ASSUME NEW o, ring' = ring \cup {o}, raw_events' = raw_events,
             OpenOf(o, p, birth[p], fd), o.timestamp_ns > last[p]
      PROVE  \E x \in Emitted' : /\ OpenOf(x, p, birth'[p], fd)
                                 /\ \A c \in Emitted' : CloseOf(c, p, fd) =>
                                      c.timestamp_ns < x.timestamp_ns
  <2>1. o \in Emitted' /\ OpenOf(o, p, birth'[p], fd) /\ o.timestamp_ns \in Nat
    BY <1>0, <1>2, <1>5 DEF Emitted, EventsInv, RawEvent
  <2>2. ASSUME NEW c \in Emitted', CloseOf(c, p, fd)
        PROVE  c.timestamp_ns < o.timestamp_ns
    <3>1. c \in Emitted /\ c.tgid = p
      BY <1>5, <2>2 DEF Emitted, CloseOf, OpenOf
    <3>2. c.timestamp_ns \in Nat /\ c.timestamp_ns <= last[p] /\ last[p] \in Nat
      BY <1>0, <1>2, <3>1, ExtLast DEF ClockInv
    <3>. QED
      BY <1>5, <2>1, <3>2
  <2>. QED
    BY <2>1, <2>2
<1>. QED
  BY <1>1, <1>4, <1>5 DEF HasFrom

\* Only who has a descriptor is heard using it.
LEMMA ExtUses ==
  ASSUME TasksInv, WorldNext, NEW e \in ring', e \notin ring, e.source = "ext",
         e.kind \in {"close", "mmap"}, NEW p \in Pids, Heard(e, p)
  PROVE  /\ e.payload.fd \in Fds /\ ofd[p][e.payload.fd] # None
         /\ ring' = ring \cup {e}
<1>1. PICK t \in Pids, ts \in Instants, fd \in Fds : Close(t, ts, fd) \/ Mmap(t, ts, fd)
  BY Caused
<1>2. /\ e.payload = FdPayload(tg[t], fd) /\ e.pid = t /\ ring' = ring \cup {e}
      /\ e.source = state[t]
  BY <1>1 DEF Close, Mmap, Emit, Event
<1>3. t = p /\ tg[t] = t /\ state[t] = "ext"
  BY <1>2 DEF Heard, TasksInv
<1>4. e.payload.fd = fd /\ ofd[p][fd] # None
  BY <1>1, <1>2, <1>3 DEF Close, Mmap, FdPayload
<1>. QED
  BY <1>2, <1>4

\* The second one.
LEMMA ExtUsesStep ==
  ASSUME TypeInv, SeenInv, BirthInv, NamesInv, ExtInv, [Next]_vars,
         NEW e \in Emitted', e.source = "ext", e.kind \in {"close", "mmap"}
  PROVE  \E o \in Emitted' :
         /\ OpenOf(o, e.tgid, e.born, e.payload.fd) /\ o.timestamp_ns < e.timestamp_ns
         /\ \A c \in Emitted' : CloseOf(c, e.tgid, e.payload.fd) =>
              c.timestamp_ns < o.timestamp_ns \/ e.timestamp_ns <= c.timestamp_ns
<1>0. TasksInv /\ ClockInv /\ EventsInv
  BY DEF TypeInv
<1>1. ASSUME NEW o \in Emitted, OpenOf(o, e.tgid, e.born, e.payload.fd)
      PROVE  \E d \in Emitted' : /\ OpenOf(d, e.tgid, e.born, e.payload.fd)
                                 /\ d.timestamp_ns = o.timestamp_ns
  <2>1. PICK d \in Emitted' : Alike(d, o)
    BY <1>0, KeptAlike
  <2>. QED
    BY <1>0, <1>1, <2>1 DEF OpenOf, Alike, EventsInv, RawEvent
<1>2. ASSUME NEW c \in Emitted', c.kind = "close", c \notin Emitted
      PROVE  \E t \in Pids : Heard(c, t)
  BY <1>0, <1>2, Origin DEF Alike
<1>3. CASE e \in Emitted
  <2>1. PICK o \in Emitted :
         /\ OpenOf(o, e.tgid, e.born, e.payload.fd) /\ o.timestamp_ns < e.timestamp_ns
         /\ \A c \in Emitted : CloseOf(c, e.tgid, e.payload.fd) =>
              c.timestamp_ns < o.timestamp_ns \/ e.timestamp_ns <= c.timestamp_ns
    BY <1>3 DEF ExtInv
  <2>2. PICK d \in Emitted' : /\ OpenOf(d, e.tgid, e.born, e.payload.fd)
                              /\ d.timestamp_ns = o.timestamp_ns
    BY <1>1, <2>1
  <2>3. \A c \in Emitted' : CloseOf(c, e.tgid, e.payload.fd) =>
           c \in Emitted \/ e.timestamp_ns <= c.timestamp_ns
    BY <1>2, <1>3, HeardLast DEF CloseOf
  <2>. QED
    BY <2>1, <2>2, <2>3
<1>4. CASE e \notin Emitted
  <2>1. PICK p \in Pids : WorldNext /\ e \in ring' \ ring /\ Heard(e, p) /\ UNCHANGED raw_events
    BY <1>0, <1>4, Origin DEF Alike, collectorVars, bufferVars
  <2>2. /\ e.payload.fd \in Fds /\ ofd[p][e.payload.fd] # None
        /\ ring' = ring \cup {e}
    BY <1>0, <2>1, ExtUses
  <2>3. /\ state[p] = "ext" /\ e.tgid = p /\ e.born = birth[p]
        /\ e.timestamp_ns = clock' /\ clock' > last[p]
    BY <1>0, <2>1 DEF Heard, TasksInv
  <2>4. PICK o \in Emitted : /\ OpenOf(o, p, birth[p], e.payload.fd)
                             /\ \A c \in Emitted : CloseOf(c, p, e.payload.fd) =>
                                  c.timestamp_ns < o.timestamp_ns
    BY <2>2, <2>3 DEF ExtInv
  <2>5. o.timestamp_ns \in Nat /\ o.timestamp_ns <= last[p] /\ last[p] \in Nat
    BY <1>0, <2>3, <2>4, ExtLast DEF OpenOf, ClockInv
  <2>6. clock' \in Nat
    BY <1>0, ClockStep DEF ClockInv
  <2>7. o.timestamp_ns < e.timestamp_ns
    BY <2>3, <2>5, <2>6
  <2>8. PICK d \in Emitted' : /\ OpenOf(d, e.tgid, e.born, e.payload.fd)
                              /\ d.timestamp_ns = o.timestamp_ns
    BY <1>1, <2>3, <2>4
  <2>9. \A c \in Emitted' : c \in Emitted \/ c = e
    BY <2>1, <2>2 DEF Emitted
  <2>. QED
    BY <2>3, <2>4, <2>6, <2>7, <2>8, <2>9
<1>. QED
  BY <1>3, <1>4

\* External processes come from nowhere.
LEMMA ExtOrigin ==
  ASSUME TasksInv, [Next]_vars, NEW p \in Pids, state'[p] = "ext"
  PROVE  state[p] = "ext" \/ \E dir : SpawnExternal(p, dir)
<1>1. ASSUME NEW t \in Pids, NEW end \in {"tree", "free", "zombie"},
             state' = [state EXCEPT ![t] = end]
      PROVE  state[p] = "ext"
  BY <1>1 DEF TasksInv
<1>2. ASSUME NEW q \in Pids, NEW dir, SpawnExternal(q, dir)
      PROVE  state[p] = "ext" \/ q = p
  BY <1>2 DEF SpawnExternal, Born, TasksInv
<1>. QED
  BY <1>1, <1>2, TaskChange, WorldConstantsOK, ZenonT(60)
  DEF Fork, Born, Exit, SilentExit, WaitPid

\* An external process has its PID later than every child that had it before.
LEMMA ExtBornStep ==
  ASSUME TypeInv, SeenInv, BirthInv, ExtInv, [Next]_vars, NEW f \in Forks(Emitted'),
         state'[f.payload.child] = "ext"
  PROVE  f.payload.born < birth'[f.payload.child]
<1>0. TasksInv /\ ClockInv /\ EventsInv /\ f.kind = "fork"
  BY DEF TypeInv, Forks
<1>. DEFINE c == f.payload.child
<1>1. ASSUME NEW t \in Pids, Heard(f, t), f \in ring' \ ring
      PROVE  FALSE
  <2>1. state[c] = "free" /\ c \in Pids
    BY <1>0, <1>1 DEF Heard
  <2>2. PICK dir : SpawnExternal(c, dir)
    BY <1>0, <2>1, ExtOrigin
  <2>. QED
    BY <1>1, <2>2 DEF SpawnExternal
<1>2. CASE f \in Emitted
  <2>1. f \in Forks(Emitted) /\ c \in Pids /\ f.payload.born \in Nat
    BY <1>0, <1>2 DEF Forks, EventsInv, RawEvent
  <2>2. CASE state[c] = "ext"
    <3>1. f.payload.born < birth[c]
      BY <2>1, <2>2 DEF ExtInv
    <3>. QED
      BY <1>0, <2>1, <3>1, BirthGrows
  <2>3. ASSUME NEW dir, SpawnExternal(c, dir)
        PROVE  f.payload.born < birth'[c]
    <3>1. birth'[c] = birth[c] + 1 /\ birth[c] \in Nat
      BY <1>0, <2>1, <2>3 DEF SpawnExternal, Born, TasksInv
    <3>2. f.payload.born <= birth[c]
      BY <2>1 DEF BirthInv
    <3>. QED
      BY <2>1, <3>1, <3>2
  <2>. QED
    BY <1>0, <2>1, <2>2, <2>3, ExtOrigin
<1>3. f \in Emitted \/ (f \in ring' \ ring /\ \E t \in Pids : Heard(f, t))
  <2>1. f \in Emitted'
    BY DEF Forks
  <2>. QED
    BY <1>0, <2>1, Origin DEF Alike
<1>. QED
  BY <1>1, <1>2, <1>3

\* What an external process does comes before the child that gets its PID
\* later, and after the one that had it before.
LEMMA ExtForkStep ==
  ASSUME TypeInv, SeenInv, BirthInv, NamesInv, ExtInv, [Next]_vars,
         NEW f \in Forks(Emitted'), NEW e \in Emitted',
         e.source = "ext", e.tgid = f.payload.child
  PROVE  /\ f.payload.born < e.born => f.timestamp_ns < e.timestamp_ns
         /\ f.payload.born >= e.born => e.timestamp_ns < f.timestamp_ns
<1>0. TasksInv /\ ClockInv /\ EventsInv /\ EventsInv' /\ f.kind = "fork" /\ f \in Emitted'
      /\ ClockInv'
  BY EventsStep, ClockStep DEF TypeInv, Forks
<1>. DEFINE c == f.payload.child
<1>1. /\ c \in Pids /\ f.payload.born \in Nat /\ e.born \in Nat
      /\ e.timestamp_ns \in Nat /\ f.timestamp_ns \in Nat
  BY <1>0 DEF EventsInv, RawEvent
<1>2. ASSUME NEW d \in Emitted, Alike(e, d), f \in Emitted
      PROVE  /\ f.payload.born < e.born => f.timestamp_ns < e.timestamp_ns
             /\ f.payload.born >= e.born => e.timestamp_ns < f.timestamp_ns
  <2>1. f \in Forks(Emitted) /\ d.source = "ext" /\ d.tgid = c
        /\ d.born = e.born /\ d.timestamp_ns = e.timestamp_ns
    BY <1>0, <1>2 DEF Forks, Alike
  <2>. QED
    BY <2>1 DEF ExtInv
<1>3. ASSUME NEW t \in Pids, Heard(e, t), f \in Emitted
      PROVE  f.payload.born < e.born /\ f.timestamp_ns < e.timestamp_ns
  <2>1. t = c /\ state[c] = "ext" /\ e.born = birth[c] /\ e.timestamp_ns = clock'
        /\ clock' > last[c]
    BY <1>0, <1>3 DEF Heard, TasksInv
  <2>2. f \in Forks(Emitted)
    BY <1>0, <1>3 DEF Forks
  <2>3. f.payload.born < birth[c] /\ f.timestamp_ns <= last[c] /\ last[c] \in Nat
        /\ clock' \in Nat
    BY <1>0, <1>1, <2>1, <2>2 DEF ExtInv, BirthInv, ClockInv
  <2>. QED
    BY <1>1, <2>1, <2>3
<1>4. ASSUME NEW t \in Pids, Heard(f, t), NEW d \in Emitted, Alike(e, d)
      PROVE  f.payload.born >= e.born /\ f.payload.born # e.born
             /\ e.timestamp_ns < f.timestamp_ns
  <2>1. /\ state[c] = "free" /\ f.payload.born = birth[c] + 1
        /\ f.timestamp_ns = clock' /\ clock' > last[c]
    BY <1>0, <1>4 DEF Heard
  <2>2. d.source = "ext" /\ d.tgid = c /\ d.born = e.born /\ d.timestamp_ns = e.timestamp_ns
    BY <1>4 DEF Alike
  <2>3. d.pid = c /\ d.timestamp_ns <= last[c] /\ d.born <= birth[c]
    BY <2>2 DEF NamesInv, Operands, SeenInv, BirthInv
  <2>4. last[c] \in Nat /\ birth[c] \in Nat /\ clock' \in Nat
    BY <1>0, <1>1 DEF ClockInv, TasksInv
  <2>. QED
    BY <1>1, <2>1, <2>2, <2>3, <2>4
<1>5. ASSUME NEW t \in Pids, Heard(f, t), f \in ring' \ ring, NEW u \in Pids, Heard(e, u),
             e \in ring' \ ring
      PROVE  FALSE
  <2>1. e = f /\ e.source = "tree"
    BY <1>0, <1>5 DEF Heard
  <2>. QED
    BY <2>1
<1>6. f \in Emitted \/ (f \in ring' \ ring /\ \E t \in Pids : Heard(f, t))
  BY <1>0, Origin DEF Alike
<1>7. (\E d \in Emitted : Alike(e, d)) \/ (e \in ring' \ ring /\ \E t \in Pids : Heard(e, t))
  BY <1>0, Origin
<1>. QED
  BY <1>1, <1>2, <1>3, <1>4, <1>5, <1>6, <1>7

\* ... and after whatever else was done under that PID before.
LEMMA ExtAfterStep ==
  ASSUME TypeInv, SeenInv, BirthInv, NamesInv, ExtInv, [Next]_vars,
         NEW c \in Emitted', NEW e \in Emitted',
         e.source = "ext", c.tgid = e.tgid, c.born < e.born
  PROVE  c.timestamp_ns < e.timestamp_ns
<1>0. TasksInv /\ ClockInv /\ EventsInv /\ EventsInv' /\ ClockInv'
  BY EventsStep, ClockStep DEF TypeInv
<1>1. ASSUME NEW x \in Emitted, Alike(c, x), NEW y \in Emitted, Alike(e, y)
      PROVE  c.timestamp_ns < e.timestamp_ns
  <2>1. /\ y.source = "ext" /\ x.tgid = y.tgid /\ x.born < y.born
        /\ x.timestamp_ns = c.timestamp_ns /\ y.timestamp_ns = e.timestamp_ns
    BY <1>1 DEF Alike
  <2>. QED
    BY <2>1 DEF ExtInv
<1>2. ASSUME NEW x \in Emitted, Alike(c, x), NEW t \in Pids, Heard(e, t)
      PROVE  c.timestamp_ns < e.timestamp_ns
  <2>0. x.tgid = c.tgid /\ x.timestamp_ns = c.timestamp_ns
    BY <1>2 DEF Alike
  <2>1. /\ state[t] = "ext" /\ e.tgid = t /\ e.timestamp_ns = clock' /\ clock' > last[t]
        /\ x.tgid = t /\ x.timestamp_ns = c.timestamp_ns
    BY <1>0, <1>2, <2>0 DEF Heard, TasksInv
  <2>2. x.timestamp_ns \in Nat /\ x.timestamp_ns <= last[t]
    BY <2>1, ExtLast
  <2>. QED
    BY <1>0, <2>1, <2>2 DEF ClockInv
<1>3. ASSUME NEW t \in Pids, Heard(c, t), NEW y \in Emitted, Alike(e, y)
      PROVE  FALSE
  <2>1. c.born = birth[c.tgid] /\ y.tgid = c.tgid /\ y.born = e.born
        /\ c.tgid \in Pids /\ c.born \in Nat /\ e.born \in Nat
    BY <1>0, <1>3 DEF Heard, Alike, EventsInv, RawEvent
  <2>2. y.born <= birth[y.tgid]
    BY DEF BirthInv
  <2>. QED
    BY <2>1, <2>2
<1>4. ASSUME NEW t \in Pids, Heard(c, t), NEW u \in Pids, Heard(e, u)
      PROVE  FALSE
  <2>1. c.born = birth[c.tgid] /\ e.born = birth[e.tgid] /\ c.born \in Nat
    BY <1>0, <1>4 DEF Heard, EventsInv, RawEvent
  <2>. QED
    BY <2>1
<1>5. ASSUME NEW x \in Emitted'
      PROVE  (\E y \in Emitted : Alike(x, y)) \/ (\E t \in Pids : Heard(x, t))
  BY <1>0, Origin
<1>. QED
  BY <1>1, <1>2, <1>3, <1>4, <1>5

\* What is known about external processes is kept by every step.
LEMMA ExtStep ==
  ASSUME TypeInv, SeenInv, BirthInv, NamesInv, ExtInv, [Next]_vars
  PROVE  ExtInv'
<1>1. ofd' \in [Pids -> [Fds -> Files \cup {None}]]
  BY FdsOrigin DEF TypeInv, ExtInv
<1>2. Forks(Emitted)' = Forks(Emitted')
  BY DEF Forks
<1>. QED
  BY <1>1, <1>2, ExtFdsStep, ExtUsesStep, ExtBornStep, ExtForkStep, ExtAfterStep
  DEF ExtInv, OpenOf, CloseOf
-----------------------------------------------------------------------------
(* The account of the events taken.                                        *)

\* What EventsAccounted asks of an event.
Accounted(e) ==
  \/ e.kind = "exec" /\ e.payload.first
  \/ \E x \in Reported :
       x.of = e \/ /\ x.kind = "rename" /\ x.of.pid = e.pid
                   /\ x.of.timestamp_ns = e.timestamp_ns
  \/ OutsideWatch(e)

\* The collector knows the descriptor of an open it has taken.
Held(o) ==
  /\ o.tgid \in DOMAIN current_processes
  /\ <<current_processes[o.tgid].lifetime, o.payload.fd>> \in DOMAIN fd_table

\* It has taken a close of it since, or a fork whose child has that PID.
Gone(o) ==
  \E c \in Done : /\ o.timestamp_ns <= c.timestamp_ns
                  /\ \/ CloseOf(c, o.tgid, o.payload.fd)
                     \/ c.kind = "fork" /\ c.payload.child = o.tgid

AccountInv ==
  /\ \A d \in Done, e \in todo : d.timestamp_ns <= e.timestamp_ns
  /\ phase = "done" => todo = {} /\ pending_renames = <<>>
  /\ root_initial_exec_pending => FirstExecs(Done) = {}
  /\ phase # "done" => \A o \in Done :
       o.kind = "open" /\ o.source = "ext" /\ Watched(o.payload.path) => Held(o) \/ Gone(o)
  /\ malformed_events = 0 => \A e \in Done :
       \/ Accounted(e)
       \/ e.kind = "rename_source" /\ <<e.pid, e.timestamp_ns>> \in DOMAIN pending_renames

\* An open of the same process and descriptor as an external close or mmap
\* was external.
LEMMA OpenerExternal ==
  ASSUME TypeInv, SeenInv, BirthInv, NamesInv, ExtInv, NEW e \in Emitted, NEW o \in Emitted,
         e.source = "ext", o.tgid = e.tgid, o.born = e.born, o.timestamp_ns < e.timestamp_ns
  PROVE  o.source = "ext"
<1>0. /\ o.source \in {"tree", "ext"} /\ e.born \in Nat
      /\ o.timestamp_ns \in Nat /\ e.timestamp_ns \in Nat
  BY DEF TypeInv, EventsInv, RawEvent
<1>. SUFFICES ASSUME o.source = "tree" PROVE FALSE
  BY <1>0
<1>1. o.tgid # Root
  BY DEF NamesInv, Operands
<1>2. PICK f \in Forks(Emitted) : /\ ForkOf(f, o.tgid, o.born)
                                  /\ f.timestamp_ns < o.timestamp_ns
  BY <1>1 DEF BirthInv
<1>3. e.timestamp_ns < f.timestamp_ns /\ f.timestamp_ns \in Nat
  BY <1>0, <1>2 DEF ExtInv, ForkOf, Forks, TypeInv, EventsInv, RawEvent
<1>. QED
  BY <1>0, <1>2, <1>3

\* An external process whose descriptor the collector does not know opened it
\* outside of the watched directories.
LEMMA UnknownOutside ==
  ASSUME TypeInv, SeenInv, BirthInv, NamesInv, ExtInv, AccountInv, NEW e \in todo, Take(e),
         e.source = "ext", e.kind \in {"close", "mmap"},
         <<current_process(e.tgid).lifetime, e.payload.fd>> \notin DOMAIN fd_table
  PROVE  OutsideWatch(e)
<1>. SUFFICES ASSUME NEW o \in OpenedBy(e), Watched(o.payload.path)
              PROVE  FALSE
  BY DEF OutsideWatch
<1>0. /\ e \in raw_events /\ e \in Emitted /\ phase = "process" /\ Done = raw_events \ todo
      /\ \A d \in todo : e.timestamp_ns <= d.timestamp_ns
      /\ e \notin Done /\ Done \subseteq Emitted
      /\ \A d \in Done : d.timestamp_ns <= e.timestamp_ns
  BY DEF Take, TypeInv, TableInv, TypeOK, Emitted, Done, AccountInv
<1>1. /\ o \in raw_events /\ o.kind = "open" /\ o.tgid = e.tgid /\ o.born = e.born
      /\ o.payload.fd = e.payload.fd /\ o.timestamp_ns < e.timestamp_ns
      /\ \A d \in raw_events : /\ OpenOf(d, e.tgid, e.born, e.payload.fd)
                               /\ d.timestamp_ns < e.timestamp_ns
                               => d.timestamp_ns <= o.timestamp_ns
  BY DEF OpenedBy, Instance, OpenOf
<1>2. /\ \A d \in Emitted : /\ d.timestamp_ns \in Nat /\ d.born \in Nat
                            /\ d.source \in {"tree", "ext"}
      /\ \A f \in Forks(Emitted) : f.payload.born \in Nat
  BY DEF TypeInv, EventsInv, RawEvent, Forks
<1>3. o \in Emitted /\ o \in Done /\ o.source = "ext"
  <2>1. o \in Emitted
    BY <1>1 DEF Emitted
  <2>2. o \notin todo
    BY <1>0, <1>1, <1>2, <2>1
  <2>. QED
    BY <1>0, <1>1, <2>1, <2>2, OpenerExternal
<1>4. Held(o) \/ Gone(o)
  BY <1>0, <1>1, <1>3 DEF AccountInv
<1>5. ~Held(o)
  BY <1>1 DEF Held, current_process
<1>6. PICK c \in Done : /\ o.timestamp_ns <= c.timestamp_ns
                        /\ \/ CloseOf(c, o.tgid, o.payload.fd)
                           \/ c.kind = "fork" /\ c.payload.child = o.tgid
  BY <1>4, <1>5 DEF Gone
<1>7. c \in Emitted /\ c.timestamp_ns <= e.timestamp_ns
  BY <1>0, <1>6
<1>8. CASE c.kind = "fork" /\ c.payload.child = o.tgid
  <2>1. c \in Forks(Emitted)
    BY <1>7, <1>8 DEF Forks
  <2>2. /\ c.payload.born < o.born => c.timestamp_ns < o.timestamp_ns
        /\ c.payload.born >= e.born => e.timestamp_ns < c.timestamp_ns
    BY <1>0, <1>1, <1>3, <1>8, <2>1 DEF ExtInv
  <2>. QED
    BY <1>0, <1>1, <1>2, <1>3, <1>6, <1>7, <2>1, <2>2
<1>9. CASE CloseOf(c, o.tgid, o.payload.fd)
  <2>1. PICK q \in Emitted :
         /\ OpenOf(q, e.tgid, e.born, e.payload.fd) /\ q.timestamp_ns < e.timestamp_ns
         /\ \A d \in Emitted : CloseOf(d, e.tgid, e.payload.fd) =>
              d.timestamp_ns < q.timestamp_ns \/ e.timestamp_ns <= d.timestamp_ns
    BY <1>0 DEF ExtInv
  <2>2. q \in raw_events
    BY <1>0, <1>2, <2>1 DEF SeenInv, Emitted
  <2>3. q.timestamp_ns <= o.timestamp_ns
    BY <1>1, <2>1, <2>2
  <2>4. c.timestamp_ns < q.timestamp_ns \/ e.timestamp_ns <= c.timestamp_ns
    BY <1>1, <1>7, <1>9, <2>1
  <2>5. e.timestamp_ns = c.timestamp_ns
    BY <1>0, <1>2, <1>3, <1>6, <1>7, <2>1, <2>3, <2>4
  <2>6. CASE c.source = "ext"
    <3>1. c.pid = e.pid
      BY <1>0, <1>1, <1>7, <1>9, <2>6 DEF NamesInv, Operands, CloseOf
    <3>2. c = e
      BY <1>0, <1>7, <1>9, <2>5, <3>1 DEF NamesInv, Pair, CloseOf
    <3>. QED
      BY <1>0, <3>2
  <2>7. CASE c.source = "tree"
    <3>1. c.tgid = e.tgid /\ e.tgid # Root
      BY <1>0, <1>1, <1>9 DEF CloseOf, NamesInv, Operands
    <3>2. PICK f \in Forks(Emitted) : /\ ForkOf(f, c.tgid, c.born)
                                      /\ f.timestamp_ns < c.timestamp_ns
      BY <1>7, <2>7, <3>1 DEF BirthInv
    <3>3. f \in Emitted
      BY DEF Forks
    <3>4. ~(c.born >= e.born)
      BY <1>0, <1>2, <2>5, <3>1, <3>2, <3>3 DEF ExtInv, ForkOf
    <3>5. c.timestamp_ns < e.timestamp_ns
      BY <1>0, <1>2, <1>7, <3>1, <3>4 DEF ExtInv
    <3>. QED
      BY <1>0, <1>2, <1>7, <2>5, <3>5
  <2>. QED
    BY <1>2, <1>7, <2>6, <2>7
<1>. QED
  BY <1>6, <1>8, <1>9

\* A result that is appended is reported.
LEMMA PushReports ==
  ASSUME IsSeq(events), NEW x, Push(x), "of" \in DOMAIN x
  PROVE  x \in Reported'
<1>1. events' = Append(events, x)
  BY DEF Push
<1>2. Len(events) + 1 \in DOMAIN events' /\ events'[Len(events) + 1] = x
  BY <1>1, Appended
<1>. QED
  BY <1>2 DEF Reported

\* What is left out depends on the buffered events alone.
LEMMA OutsideSame ==
  ASSUME raw_events' = raw_events, NEW e
  PROVE  OutsideWatch(e)' <=> OutsideWatch(e)
BY DEF OutsideWatch, OpenedBy

\* The exec that is swallowed is the first one of the root.
LEMMA SwallowedFirst ==
  ASSUME TypeInv, SeenInv, NamesInv, FirstInv, AccountInv, NEW e \in todo, SwallowRootExec(e)
  PROVE  e.payload.first
<1>1. /\ Take(e) /\ phase = "process" /\ Done = raw_events \ todo /\ e \in raw_events
      /\ \A d \in todo : e.timestamp_ns <= d.timestamp_ns
      /\ e \in Emitted /\ e.kind = "exec" /\ e.tgid = Root /\ root_initial_exec_pending
  BY DEF SwallowRootExec, Take, Emitted, Done, TypeInv, TableInv, TypeOK
<1>2. PICK f \in FirstExecs(Emitted) : f.timestamp_ns <= e.timestamp_ns
  BY <1>1 DEF FirstInv
<1>3. f \in Emitted /\ f.kind = "exec" /\ f.payload.first /\ f.tgid = Root
      /\ f.timestamp_ns \in Nat /\ e.timestamp_ns \in Nat
  BY <1>1, <1>2 DEF FirstExecs, FirstInv, SeenInv
<1>4. CASE f.timestamp_ns = e.timestamp_ns
  <2>1. f.pid = e.pid
    BY <1>1, <1>3 DEF NamesInv, Operands
  <2>2. f = e
    BY <1>1, <1>3, <1>4, <2>1 DEF NamesInv, Pair
  <2>. QED
    BY <1>3, <2>2
<1>5. CASE f.timestamp_ns # e.timestamp_ns
  <2>1. f.timestamp_ns < e.timestamp_ns
    BY <1>2, <1>3, <1>5
  <2>2. f \notin ring /\ f \notin todo
    BY <1>1, <1>3, <2>1 DEF SeenInv
  <2>3. f \in FirstExecs(Done)
    BY <1>1, <1>3, <2>2 DEF FirstExecs, Emitted
  <2>. QED
    BY <1>1, <2>3 DEF AccountInv
<1>. QED
  BY <1>4, <1>5

\* The halves of a rename that meet, and what the filter makes of them.
LEMMA RenameSettled ==
  ASSUME Stationary, TypeInv, SeenInv, AllHome, NamesInv, PendingInv, IsSeq(events),
         NEW e \in todo, ProcessRenameDestination(e), NEW s \in Emitted,
         s.kind \in {"rename_source", "rename_destination"},
         s.pid = e.pid, s.timestamp_ns = e.timestamp_ns
  PROVE  Accounted(s)'
<1>. DEFINE key == <<e.pid, e.timestamp_ns>>
            pending == pending_renames[key]
            to == resolve_path(pending.process, e.payload.style, e.payload.raw)
            external == pending.external \/ e.source = "ext"
<1>0. /\ TasksInv /\ e.kind = "rename_destination" /\ key \in DOMAIN pending_renames
      /\ Take(e) /\ e \in Emitted /\ Done \subseteq Emitted /\ raw_events' = raw_events
  BY DEF ProcessRenameDestination, Take, TypeInv, TableInv, TypeOK, Emitted, Done
<1>1. PICK r \in Done :
         /\ r.kind = "rename_source" /\ key = <<r.pid, r.timestamp_ns>>
         /\ pending.external <=> r.source = "ext"
         /\ pending.from = r.payload.from
  BY <1>0 DEF PendingInv
<1>2. /\ r \in Emitted /\ r.pid = e.pid /\ r.timestamp_ns = e.timestamp_ns
  BY <1>0, <1>1
<1>3. r.source = e.source /\ s.source = e.source
  BY <1>0, <1>2 DEF SeenInv
<1>4. /\ r.payload.from = e.payload.from /\ s.payload.from = e.payload.from
      /\ s.payload.path = e.payload.path
  BY <1>0, <1>1, <1>2 DEF NamesInv, Pair
<1>5. to = e.payload.path
  <2>1. pending.process.lifetime.pid \in Pids
    BY <1>0 DEF PendingInv
  <2>2. e.payload.style \in Styles /\ e.payload.path = AtHome(e.payload.style, e.payload.raw)
    BY <1>0 DEF NamesInv, Operands
  <2>. QED
    BY <1>0, <2>1, <2>2, ResolvedHome
<1>6. CASE FilteredRename(external, pending.from, to)
  <2>1. s.source = "ext" /\ ~Watched(s.payload.from) /\ ~Watched(s.payload.path)
    BY <1>1, <1>3, <1>4, <1>5, <1>6 DEF FilteredRename
  <2>2. OutsideWatch(s)
    BY <2>1 DEF OutsideWatch
  <2>. QED
    BY <1>0, <2>2, OutsideSame DEF Accounted
<1>7. CASE ~FilteredRename(external, pending.from, to)
  <2>. DEFINE x == [kind |-> "rename", process |-> pending.process, path |-> to,
                    from |-> pending.from, external |-> external,
                    observation |-> observe_path(to), of |-> e]
              y == [kind |-> "rename", process |-> pending.process, path |-> pending.from,
                    from |-> to, external |-> external,
                    observation |-> observe_path(pending.from), of |-> e]
  <2>1. events' = events \o <<x>> \o (IF pending.exchange THEN <<y>> ELSE <<>>)
    BY <1>7 DEF ProcessRenameDestination
  <2>2. x.kind = "rename" /\ x.of = e /\ "of" \in DOMAIN x
    OBVIOUS
  <2>. HIDE DEF x, y
  <2>3. /\ IsSeq(Append(events, x)) /\ events \o <<x>> = Append(events, x)
        /\ Len(events) + 1 \in DOMAIN Append(events, x)
        /\ Append(events, x)[Len(events) + 1] = x
    BY Appended
  <2>4. Len(events) + 1 \in DOMAIN events' /\ events'[Len(events) + 1] = x
    <3>1. CASE pending.exchange
      <4>0. Append(events, x) \o <<y>> = Append(Append(events, x), y)
        BY <2>3, Appended
      <4>1. events' = Append(Append(events, x), y)
        BY <2>1, <2>3, <3>1, <4>0
      <4>. QED
        BY <2>3, <4>1, Appended
    <3>2. CASE ~pending.exchange
      <4>1. events' = Append(events, x)
        BY <2>1, <2>3, <3>2, Appended
      <4>. QED
        BY <2>3, <4>1
    <3>. QED
      BY <3>1, <3>2
  <2>5. x \in Reported'
    BY <2>2, <2>4 DEF Reported
  <2>. QED
    BY <2>2, <2>5 DEF Accounted
<1>. QED
  BY <1>6, <1>7

\* process_event accounts for its event, or counts it as malformed.
LEMMA TakenAccounted ==
  ASSUME Stationary, TypeInv, SeenInv, BirthInv, FirstInv, AllHome, NamesInv, ExtInv,
         PendingInv, AccountInv, IsSeq(events), NEW e \in todo, process_event(e),
         malformed_events' = 0
  PROVE  \/ Accounted(e)'
         \/ e.kind = "rename_source" /\ <<e.pid, e.timestamp_ns>> \in DOMAIN pending_renames'
<1>0. /\ TasksInv /\ Take(e) /\ RawEvent(e) /\ e \in Emitted /\ Operands(e)
      /\ raw_events' = raw_events /\ malformed_events \in Nat
  BY DoneStep DEF TypeInv, Take, Emitted, NamesInv, TableInv, TypeOK
<1>1. e.tgid \in Pids /\ current_process(e.tgid).lifetime.pid = e.tgid
  BY <1>0, KnownTyped DEF RawEvent, TypeInv
<1>2. ASSUME NEW x, Push(x), "of" \in DOMAIN x, x.of = e
      PROVE  Accounted(e)'
  BY <1>2, PushReports DEF Accounted
<1>3. ASSUME OutsideWatch(e)
      PROVE  Accounted(e)'
  BY <1>0, <1>3, OutsideSame DEF Accounted
<1>4. \A kind, p, path, observation :
         /\ "of" \in DOMAIN Traced(kind, e, p, path, observation)
         /\ Traced(kind, e, p, path, observation).of = e
  BY DEF Traced
<1>5. CASE ProcessOpen(e)
  <2>1. /\ e.kind = "open" /\ Decoded(e.payload.raw) = e.payload.raw
    BY <1>5 DEF ProcessOpen, Decoded, Stationary
  <2>2. resolve_path(current_process(e.tgid), e.payload.style, e.payload.raw) = e.payload.path
    BY <1>0, <1>1, <2>1, ResolvedHome DEF Operands
  <2>3. \/ e.source = "ext" /\ ~Watched(e.payload.path)
        \/ \E p, path, observation : Push(Traced("open", e, p, path, observation))
    BY <1>5, <2>1, <2>2 DEF ProcessOpen, Stationary
  <2>. QED
    BY <1>2, <1>3, <1>4, <2>1, <2>3 DEF OutsideWatch
<1>6. CASE ProcessClose(e)
  <2>1. \/ /\ e.source = "ext" /\ e.kind = "close"
           /\ <<current_process(e.tgid).lifetime, e.payload.fd>> \notin DOMAIN fd_table
        \/ \E p, path, observation : Push(Traced("close", e, p, path, observation))
    BY <1>6 DEF ProcessClose
  <2>. QED
    BY <1>0, <1>2, <1>3, <1>4, <2>1, UnknownOutside
<1>7. CASE ProcessMmap(e)
  <2>1. \/ /\ e.source = "ext" /\ e.kind = "mmap"
           /\ <<current_process(e.tgid).lifetime, e.payload.fd>> \notin DOMAIN fd_table
        \/ \E p, path, observation : Push(Traced("mmap", e, p, path, observation))
    BY <1>7 DEF ProcessMmap
  <2>. QED
    BY <1>0, <1>2, <1>3, <1>4, <2>1, UnknownOutside
<1>8. CASE ProcessUnlink(e)
  <2>1. e.kind = "unlink" /\ e.payload.raw \notin BadNames
    BY <1>8 DEF ProcessUnlink, Stationary
  <2>2. resolve_path(current_process(e.tgid), e.payload.style, e.payload.raw) = e.payload.path
    BY <1>0, <1>1, <2>1, ResolvedHome DEF Operands
  <2>3. \/ e.source = "ext" /\ ~Watched(e.payload.path)
        \/ \E p, path, observation : Push(Traced("unlink", e, p, path, observation))
    BY <1>8, <2>1, <2>2 DEF ProcessUnlink
  <2>. QED
    BY <1>2, <1>3, <1>4, <2>1, <2>3 DEF OutsideWatch
<1>9. CASE ProcessRenameSource(e)
  BY <1>9 DEF ProcessRenameSource, Put, Stationary
<1>10. CASE ProcessRenameDestination(e)
  <2>1. e.kind = "rename_destination"
    BY <1>10 DEF ProcessRenameDestination
  <2>. QED
    BY <1>0, <1>10, <2>1, RenameSettled
<1>11. CASE RejectRenameDestination(e)
  BY <1>0, <1>11 DEF RejectRenameDestination, Malformed
<1>12. CASE SwallowRootExec(e)
  BY <1>12, SwallowedFirst DEF SwallowRootExec, Accounted
<1>13. CASE ProcessExec(e)
  <2>1. \E p, path, observation : Push(Traced("exec", e, p, path, observation))
    BY <1>13 DEF ProcessExec
  <2>. QED
    BY <1>2, <1>4, <2>1
<1>14. CASE ProcessFork(e)
  <2>. DEFINE x == [kind |-> "fork", process |-> current_process(e.tgid),
                    child |-> new_process(e.payload.child), of |-> e]
  <2>1. Push(x) /\ "of" \in DOMAIN x /\ x.of = e
    BY <1>14 DEF ProcessFork
  <2>. QED
    BY <1>2, <2>1
<1>15. CASE ProcessExit(e)
  <2>. DEFINE x == [kind |-> "exit", process |-> current_process(e.tgid),
                    exit_code |-> e.payload.exit_code, of |-> e]
  <2>1. Push(x) /\ "of" \in DOMAIN x /\ x.of = e
    BY <1>15 DEF ProcessExit
  <2>. QED
    BY <1>2, <2>1
<1>. QED
  BY <1>5, <1>6, <1>7, <1>8, <1>9, <1>10, <1>11, <1>12, <1>13, <1>14, <1>15
  DEF process_event

\* Who waits for the other half of a rename, after one more event.
LEMMA PendingProcessed ==
  ASSUME Stationary, TypeInv, AllHome, NamesInv, PendingInv, NEW e \in todo, process_event(e)
  PROVE  PendingInv'
<1>0. /\ Done \subseteq Done' /\ e \in Done' /\ TasksInv /\ RawEvent(e) /\ Operands(e)
  BY DoneStep DEF TypeInv, NamesInv, Emitted
<1>1. e.tgid \in Pids /\ current_process(e.tgid).lifetime.pid = e.tgid
  BY <1>0, KnownTyped DEF RawEvent, TypeInv
<1>. SUFFICES ASSUME NEW k \in DOMAIN pending_renames'
              PROVE  /\ pending_renames'[k].process.lifetime.pid \in Pids
                     /\ \E s \in Done' :
                          /\ s.kind = "rename_source" /\ k = <<s.pid, s.timestamp_ns>>
                          /\ pending_renames'[k].external <=> s.source = "ext"
                          /\ pending_renames'[k].from = s.payload.from
                          /\ pending_renames'[k].exchange = s.payload.exchange
  BY DEF PendingInv
<1>2. CASE k \in DOMAIN pending_renames /\ pending_renames'[k] = pending_renames[k]
  BY <1>0, <1>2 DEF PendingInv
<1>3. CASE e.kind = "rename_source" /\ k = <<e.pid, e.timestamp_ns>>
  <2>1. ProcessRenameSource(e)
    BY <1>3 DEF process_event, ProcessOpen, ProcessClose, ProcessMmap, ProcessUnlink,
           ProcessRenameDestination, RejectRenameDestination, SwallowRootExec, ProcessExec,
           ProcessFork, ProcessExit
  <2>. DEFINE r == [process |-> current_process(e.tgid), exchange |-> e.payload.exchange,
                    external |-> e.source = "ext",
                    from |-> resolve_path(current_process(e.tgid), e.payload.style,
                                          e.payload.raw)]
  <2>2. pending_renames' = Put(pending_renames, k, r)
    BY <1>3, <2>1 DEF ProcessRenameSource, Stationary
  <2>3. pending_renames'[k] = r
    BY <2>2 DEF Put
  <2>4. r.from = e.payload.from
    BY <1>0, <1>1, <1>3, ResolvedHome DEF Operands
  <2>5. /\ r.process = current_process(e.tgid) /\ (r.external <=> e.source = "ext")
        /\ r.exchange = e.payload.exchange
    OBVIOUS
  <2>. HIDE DEF r
  <2>. QED
    BY <1>0, <1>1, <1>3, <2>3, <2>4, <2>5
<1>. QED
  BY <1>2, <1>3, PendingStep

\* What the collector knows of a descriptor, after one more event.
LEMMA HeldProcessed ==
  ASSUME Stationary, TypeInv, AllHome, NamesInv, AccountInv, NEW e \in todo, process_event(e),
         NEW o \in Done', o.kind = "open", o.source = "ext", Watched(o.payload.path)
  PROVE  Held(o)' \/ Gone(o)'
<1>0. /\ Done' = Done \cup {e} /\ TasksInv /\ RawEvent(e) /\ Operands(e) /\ Take(e)
      /\ phase = "process" /\ TableInv
  BY DoneStep DEF TypeInv, NamesInv, Emitted
<1>1. e.tgid \in Pids /\ current_process(e.tgid).lifetime.pid = e.tgid
  BY <1>0, KnownTyped DEF RawEvent
<1>2. CASE o = e
  <2>1. ProcessOpen(e)
    BY <1>2 DEF process_event, ProcessClose, ProcessMmap, ProcessUnlink, ProcessRenameSource,
           ProcessRenameDestination, RejectRenameDestination, SwallowRootExec, ProcessExec,
           ProcessFork, ProcessExit
  <2>2. resolve_path(current_process(e.tgid), e.payload.style, Decoded(e.payload.raw))
          = e.payload.path
    BY <1>0, <1>1, <1>2, ResolvedHome DEF Operands, Decoded, Stationary
  <2>3. /\ <<current_process(e.tgid).lifetime, e.payload.fd>> \in DOMAIN fd_table'
        /\ KnowProcess(e.tgid)
    BY <1>2, <2>1, <2>2 DEF ProcessOpen, Stationary, Put
  <2>4. /\ e.tgid \in DOMAIN current_processes'
        /\ current_processes'[e.tgid] = current_process(e.tgid)
    BY <2>3 DEF KnowProcess, Put
  <2>. QED
    BY <1>2, <2>3, <2>4 DEF Held
<1>3. CASE o \in Done
  <2>1. Held(o) \/ Gone(o)
    BY <1>0, <1>3 DEF AccountInv
  <2>2. o.timestamp_ns <= e.timestamp_ns
    BY <1>3 DEF AccountInv
  <2>3. CASE Gone(o)
    BY <1>0, <2>3 DEF Gone
  <2>4. CASE Held(o) /\ e.kind = "fork" /\ e.payload.child = o.tgid
    BY <1>0, <2>2, <2>4 DEF Gone
  <2>5. CASE Held(o) /\ ~(e.kind = "fork" /\ e.payload.child = o.tgid)
    <3>. DEFINE key == <<current_processes[o.tgid].lifetime, o.payload.fd>>
    <3>1. /\ o.tgid \in DOMAIN current_processes'
          /\ current_processes'[o.tgid].lifetime = current_processes[o.tgid].lifetime
          /\ key \in DOMAIN fd_table /\ current_processes[o.tgid].lifetime.pid = o.tgid
      BY <1>0, <2>5, LifetimeKept DEF Held, TableInv, TypeOK
    <3>2. CASE key \in DOMAIN fd_table'
      BY <3>1, <3>2 DEF Held
    <3>3. CASE key \notin DOMAIN fd_table'
      <4>1. ProcessClose(e)
        BY <3>1, <3>3, ZenonT(60)
           DEF process_event, ProcessOpen, ProcessMmap, ProcessUnlink,
           ProcessRenameSource, ProcessRenameDestination, RejectRenameDestination,
           SwallowRootExec, ProcessExec, ProcessFork, ProcessExit, tableVars, Put,
           rewrite_open_file_paths, Inherited
      <4>2. key = <<current_process(e.tgid).lifetime, e.payload.fd>> /\ e.kind = "close"
        BY <3>1, <3>3, <4>1 DEF ProcessClose, Delete, Restrict
      <4>3. CloseOf(e, o.tgid, o.payload.fd)
        BY <1>1, <3>1, <4>2 DEF CloseOf
      <4>. QED
        BY <1>0, <2>2, <4>3 DEF Gone
    <3>. QED
      BY <3>2, <3>3
  <2>. QED
    BY <2>1, <2>3, <2>4, <2>5
<1>. QED
  BY <1>0, <1>2, <1>3

\* An event adds to malformed_events or leaves it.
LEMMA MalformedOrNot ==
  ASSUME NEW e, process_event(e)
  PROVE  Malformed \/ WellFormed
<1>1. CASE ProcessOpen(e)
  BY <1>1 DEF ProcessOpen
<1>2. CASE ProcessClose(e)
  BY <1>2 DEF ProcessClose
<1>3. CASE ProcessMmap(e)
  BY <1>3 DEF ProcessMmap
<1>4. CASE ProcessUnlink(e)
  BY <1>4 DEF ProcessUnlink
<1>5. CASE ProcessRenameSource(e)
  BY <1>5 DEF ProcessRenameSource
<1>6. CASE ProcessRenameDestination(e)
  BY <1>6 DEF ProcessRenameDestination
<1>7. CASE RejectRenameDestination(e)
  BY <1>7 DEF RejectRenameDestination
<1>8. CASE SwallowRootExec(e)
  BY <1>8 DEF SwallowRootExec, WellFormed
<1>9. CASE ProcessExec(e)
  BY <1>9 DEF ProcessExec
<1>10. CASE ProcessFork(e)
  BY <1>10 DEF ProcessFork
<1>11. CASE ProcessExit(e)
  BY <1>11 DEF ProcessExit
<1>. QED
  BY <1>1, <1>2, <1>3, <1>4, <1>5, <1>6, <1>7, <1>8, <1>9, <1>10, <1>11 DEF process_event

\* Processing an event settles it: a result, a malformed event, a pending half of a rename, or
\* one of the reasons for which the code says nothing.
LEMMA AccountProcessed ==
  ASSUME Stationary, TypeInv, SeenInv, BirthInv, FirstInv, AllHome, NamesInv, ExtInv,
         PendingInv, AccountInv, IsSeq(events), NEW e \in todo, process_event(e)
  PROVE  AccountInv'
<1>0. /\ Done' = Done \cup {e} /\ TasksInv /\ RawEvent(e) /\ Take(e) /\ e \notin Done
      /\ phase = "process" /\ phase' = "process" /\ raw_events' = raw_events
      /\ todo' = todo \ {e} /\ e \in Emitted /\ Done \subseteq Emitted
      /\ \A d \in todo : e.timestamp_ns <= d.timestamp_ns
      /\ malformed_events \in Nat
  BY DoneStep DEF TypeInv, Take, Emitted, TableInv, TypeOK
<1>1. \A d \in Done', x \in todo' : d.timestamp_ns <= x.timestamp_ns
  BY <1>0 DEF AccountInv
<1>2. ASSUME root_initial_exec_pending'
      PROVE  FirstExecs(Done)' = {}
  <2>1. root_initial_exec_pending /\ ~SwallowRootExec(e)
    <3>1. UNCHANGED root_initial_exec_pending \/ SwallowRootExec(e)
      BY DEF process_event, ProcessOpen, ProcessClose, ProcessMmap, ProcessUnlink,
             ProcessRenameSource, ProcessRenameDestination, RejectRenameDestination,
             ProcessExec, ProcessFork, ProcessExit, processVars
    <3>2. SwallowRootExec(e) => root_initial_exec_pending' = FALSE
      BY DEF SwallowRootExec
    <3>. QED
      BY <1>2, <3>1, <3>2
  <2>2. FirstExecs(Done) = {}
    BY <2>1 DEF AccountInv
  <2>3. ASSUME e.kind = "exec", e.payload.first
        PROVE  FALSE
    <3>1. e \in FirstExecs(Emitted)
      BY <1>0, <2>3 DEF FirstExecs
    <3>2. e.tgid = Root
      BY <3>1 DEF FirstInv
    <3>3. ProcessExec(e)
      BY <2>1, <2>3 DEF process_event, ProcessOpen, ProcessClose, ProcessMmap, ProcessUnlink,
             ProcessRenameSource, ProcessRenameDestination, RejectRenameDestination,
             ProcessFork, ProcessExit
    <3>. QED
      BY <2>1, <3>2, <3>3 DEF ProcessExec
  <2>. QED
    BY <1>0, <2>2, <2>3 DEF FirstExecs
<1>3. \A o \in Done' : o.kind = "open" /\ o.source = "ext" /\ Watched(o.payload.path) =>
         Held(o)' \/ Gone(o)'
  BY HeldProcessed
<1>4. ASSUME malformed_events' = 0, NEW d \in Done'
      PROVE  \/ Accounted(d)'
             \/ /\ d.kind = "rename_source"
                /\ <<d.pid, d.timestamp_ns>> \in DOMAIN pending_renames'
  <2>1. CASE d = e
    BY <1>4, <2>1, TakenAccounted
  <2>2. CASE d \in Done
    <3>1. malformed_events = 0
      <4>1. Malformed \/ WellFormed
        BY MalformedOrNot
      <4>. QED
        BY <1>0, <1>4, <4>1 DEF Malformed, WellFormed
    <3>2. Reported \subseteq Reported'
      BY ReportedStep
    <3>3. CASE Accounted(d)
      BY <1>0, <3>2, <3>3, OutsideSame DEF Accounted
    <3>4. CASE /\ d.kind = "rename_source"
               /\ <<d.pid, d.timestamp_ns>> \in DOMAIN pending_renames
      <4>1. CASE <<d.pid, d.timestamp_ns>> \in DOMAIN pending_renames'
        BY <3>4, <4>1
      <4>2. CASE <<d.pid, d.timestamp_ns>> \notin DOMAIN pending_renames'
        <5>1. ProcessRenameDestination(e) \/ RejectRenameDestination(e)
          BY <3>4, <4>2 DEF process_event, ProcessOpen, ProcessClose, ProcessMmap,
             ProcessUnlink, ProcessRenameSource, SwallowRootExec, ProcessExec, ProcessFork,
             ProcessExit, tableVars, Put
        <5>2. d.pid = e.pid /\ d.timestamp_ns = e.timestamp_ns
          BY <3>4, <4>2, <5>1
          DEF ProcessRenameDestination, RejectRenameDestination, Delete, Restrict
        <5>3. ~RejectRenameDestination(e)
          BY <1>0, <1>4 DEF RejectRenameDestination, Malformed
        <5>. QED
          BY <1>0, <2>2, <3>4, <5>1, <5>2, <5>3, RenameSettled
      <4>. QED
        BY <4>1, <4>2
    <3>. QED
      BY <2>2, <3>1, <3>3, <3>4 DEF AccountInv
  <2>. QED
    BY <1>0, <2>1, <2>2
<1>. QED
  BY <1>0, <1>1, <1>2, <1>3, <1>4 DEF AccountInv

\* The end of the trace keeps the results of events.
LEMMA FinishKeeps ==
  ASSUME ExitInv, Finish, NEW x \in Reported
  PROVE  \E y \in Reported' : y.kind = x.kind /\ y.of = x.of
<1>. DEFINE r == SetExitCode(events)
            h == [kind |-> "exec", process |-> root_process]
<1>1. phase = "process" /\ events' = <<h>> \o r
  BY DEF Finish, Cons
<1>2. IsSeq(r) /\ IsSeq(events)
  BY <1>1, ExitCodeSet DEF ExitInv
<1>3. ASSUME NEW i \in DOMAIN events
      PROVE  /\ i \in DOMAIN r
             /\ r[i] = events[i] \/ r[i] = [events[i] EXCEPT !.exit_code = code]
  <2>1. \/ \E j : r = [events EXCEPT ![j].exit_code = code]
        \/ \E z : r = Append(events, z)
    BY DEF SetExitCode
  <2>. HIDE DEF r
  <2>2. ASSUME NEW j, r = [events EXCEPT ![j].exit_code = code]
        PROVE  /\ i \in DOMAIN r
               /\ r[i] = events[i] \/ r[i] = [events[i] EXCEPT !.exit_code = code]
    BY <2>2
  <2>3. ASSUME NEW z, r = Append(events, z)
        PROVE  i \in DOMAIN r /\ r[i] = events[i]
    BY <1>2, <2>3, Appended
  <2>. QED
    BY <2>1, <2>2, <2>3
<1>. HIDE DEF r
<1>4. PICK S : r \in Seq(S)
  BY <1>2 DEF IsSeq
<1>. HIDE DEF h
<1>5. /\ Len(r) \in Nat /\ DOMAIN r = 1 .. Len(r)
      /\ DOMAIN events' = 1 .. Len(r) + 1
      /\ \A j \in 1 .. Len(r) : events'[j + 1] = r[j]
  <2>1. r \in Seq(S \cup {h}) /\ <<h>> \in Seq(S \cup {h})
    BY <1>4
  <2>. QED
    BY <1>1, <2>1
<1>6. PICK i \in DOMAIN events : x = events[i] /\ "of" \in DOMAIN x
  BY DEF Reported
<1>7. r[i].kind = x.kind /\ r[i].of = x.of /\ "of" \in DOMAIN r[i] /\ i \in DOMAIN r
  <2>1. CASE r[i] = x
    BY <1>3, <1>6, <2>1
  <2>2. CASE r[i] = [x EXCEPT !.exit_code = code]
    BY <1>3, <1>6, <2>2
  <2>. QED
    BY <1>3, <1>6, <2>1, <2>2
<1>8. i + 1 \in DOMAIN events' /\ events'[i + 1] = r[i]
  BY <1>5, <1>7
<1>. QED
  BY <1>7, <1>8 DEF Reported

\* Finishing settles the renames that are still pending as malformed and keeps all else.
LEMMA AccountFinished ==
  ASSUME TypeInv, ExitInv, AccountInv, Finish
  PROVE  AccountInv' /\ PendingInv'
<1>1. /\ phase = "process" /\ phase' = "done" /\ todo = {} /\ todo' = {}
      /\ raw_events' = raw_events /\ pending_renames' = <<>>
      /\ malformed_events' = malformed_events + Cardinality(DOMAIN pending_renames)
      /\ UNCHANGED root_initial_exec_pending
  BY DEF Finish
<1>2. Done' = Done
  BY <1>1 DEF Done
<1>3. DOMAIN pending_renames' = {}
  BY <1>1
<1>4. PendingInv'
  BY <1>3 DEF PendingInv
<1>5. ASSUME malformed_events' = 0, NEW e \in Done
      PROVE  Accounted(e)'
  <2>1. IsFiniteSet(DOMAIN pending_renames) /\ malformed_events \in Nat
    BY DEF TypeInv, TableInv, TypeOK
  <2>2. Cardinality(DOMAIN pending_renames) \in Nat
    BY <2>1, FS_CardinalityType
  <2>3. malformed_events = 0 /\ Cardinality(DOMAIN pending_renames) = 0
    BY <1>1, <1>5, <2>1, <2>2
  <2>4. DOMAIN pending_renames = {}
    BY <2>1, <2>3, FS_EmptySet
  <2>5. Accounted(e)
    BY <2>3, <2>4 DEF AccountInv
  <2>6. OutsideWatch(e) => OutsideWatch(e)'
    BY <1>1, OutsideSame
  <2>7. ASSUME NEW x \in Reported
        PROVE  \E y \in Reported' : y.kind = x.kind /\ y.of = x.of
    BY FinishKeeps
  <2>. QED
    BY <2>5, <2>6, <2>7 DEF Accounted
<1>6. /\ \A d \in Done', e \in todo' : d.timestamp_ns <= e.timestamp_ns
      /\ root_initial_exec_pending' => FirstExecs(Done)' = {}
  BY <1>1, <1>2 DEF AccountInv, FirstExecs
<1>. QED
  BY <1>1, <1>2, <1>4, <1>5, <1>6 DEF AccountInv

\* The steps that leave the collector's tables alone.
LEMMA AccountSame ==
  ASSUME AccountInv, PendingInv, UNCHANGED <<events, processVars, tableVars, malformed_events>>,
         \/ Done = {} /\ Done' = {} /\ phase # "done" /\ phase' # "done"
         \/ UNCHANGED <<phase, raw_events, todo>>
  PROVE  AccountInv' /\ PendingInv'
<1>1. UNCHANGED <<root_initial_exec_pending, current_processes, fd_table, pending_renames>>
  BY DEF processVars, tableVars
<1>2. CASE UNCHANGED <<phase, raw_events, todo>>
  <2>1. Done' = Done /\ Reported' = Reported
    BY <1>2 DEF Done, Reported
  <2>2. \A e : Accounted(e)' <=> Accounted(e)
    BY <1>2, <2>1, OutsideSame DEF Accounted
  <2>3. \A o : (Held(o)' <=> Held(o)) /\ (Gone(o)' <=> Gone(o))
    BY <1>1, <2>1 DEF Held, Gone
  <2>4. FirstExecs(Done)' = FirstExecs(Done)
    BY <2>1 DEF FirstExecs
  <2>5. PendingInv'
    BY <1>1, <2>1 DEF PendingInv
  <2>. QED
    BY <1>1, <1>2, <2>1, <2>2, <2>3, <2>4, <2>5 DEF AccountInv
<1>3. CASE Done = {} /\ Done' = {} /\ phase # "done" /\ phase' # "done"
  <2>1. DOMAIN pending_renames = {}
    BY <1>3 DEF PendingInv
  <2>2. PendingInv'
    BY <1>1, <2>1 DEF PendingInv
  <2>3. FirstExecs(Done)' = {}
    BY <1>3 DEF FirstExecs
  <2>. QED
    BY <1>3, <2>2, <2>3 DEF AccountInv
<1>. QED
  BY <1>2, <1>3

\* The account is inductive.
LEMMA AccountStep ==
  ASSUME Stationary, TypeInv, SeenInv, BirthInv, ExitInv, FirstInv, AllHome, NamesInv, ExtInv,
         PendingInv, AccountInv, [Next]_vars
  PROVE  AccountInv' /\ PendingInv'
<1>1. ASSUME NEW e \in todo, process_event(e)
      PROVE  AccountInv' /\ PendingInv'
  BY <1>1, AccountProcessed, PendingProcessed DEF ExitInv
<1>2. CASE Finish
  BY <1>2, AccountFinished
<1>3. CASE Drain \/ WaitPid \/ Quiesced
  <2>1. UNCHANGED <<events, processVars, tableVars, malformed_events>>
    BY <1>3 DEF Drain, WaitPid, Quiesced
  <2>2. Done = {} /\ Done' = {} /\ phase # "done" /\ phase' # "done"
    BY <1>3 DEF Drain, WaitPid, Quiesced, Done
  <2>. QED
    BY <2>1, <2>2, AccountSame
<1>4. CASE UNCHANGED collectorVars
  BY <1>4, AccountSame DEF collectorVars, bufferVars
<1>. QED
  BY <1>1, <1>2, <1>3, <1>4 DEF Next, CollectorNext, vars

\* Nothing has happened, so nothing is owed.
LEMMA AccountInitially ==
  Init => AllHome /\ NamesInv /\ ExtInv /\ PendingInv /\ AccountInv
<1>. SUFFICES ASSUME Init
              PROVE  AllHome /\ NamesInv /\ ExtInv /\ PendingInv /\ AccountInv
  OBVIOUS
<1>1. Emitted = {} /\ Done = {} /\ Forks(Emitted) = {}
  BY DEF Init, WorldInit, Emitted, Done, Forks
<1>2. AllHome
  BY DEF Init, WorldInit, AllHome
<1>3. NamesInv
  BY <1>1 DEF NamesInv
<1>4. ExtInv
  <2>1. /\ ofd = [p \in Pids |-> [fd \in Fds |-> None]]
        /\ \A p \in Pids : state[p] # "ext"
    BY DEF Init, WorldInit
  <2>2. ofd \in [Pids -> [Fds -> Files \cup {None}]]
    BY <2>1
  <2>. QED
    BY <1>1, <2>1, <2>2 DEF ExtInv
<1>5. PendingInv
  BY DEF Init, PendingInv
<1>6. AccountInv
  BY <1>1 DEF Init, AccountInv, FirstExecs
<1>. QED
  BY <1>2, <1>3, <1>4, <1>5, <1>6

\* EventsAccounted: for every watched directory, interleaving, recycled PID
\* and tie, a trace without malformed events reports every event that was
\* buffered, except the first exec of the root and what external processes do
\* outside of the watched directories.
THEOREM EventsAreAccounted ==
  ASSUME Stationary
  PROVE  Spec => []EventsAccounted
<1>. DEFINE IInv == /\ TypeInv /\ SeenInv /\ BirthInv /\ RootInv /\ ExitInv /\ FirstInv
                    /\ AllHome /\ NamesInv /\ ExtInv /\ PendingInv /\ AccountInv
<1>1. Init => IInv
  BY TypeInitially, LifeInitially, EpochInitially, AccountInitially
<1>2. IInv /\ [Next]_vars => IInv'
  BY TypeStep, SeenStep, BirthStep, RootStep, ExitStep, FirstStep, HomeStep, NamesStep,
     ExtStep, AccountStep DEF TypeInv
<1>3. IInv => EventsAccounted
  <2>. SUFFICES ASSUME IInv, phase = "done", dropped_events = 0, NEW e \in raw_events
                PROVE  Accounted(e)
    BY DEF EventsAccounted, Accounted
  <2>1. todo = {} /\ DOMAIN pending_renames = {} /\ e \in Done
    BY DEF AccountInv, Done
  <2>. QED
    BY <2>1 DEF AccountInv, dropped_events
<1>. QED
  BY <1>1, <1>2, <1>3, PTL DEF Spec
=============================================================================
