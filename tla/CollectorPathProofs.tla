------------------------ MODULE CollectorPathProofs -------------------------
(***************************************************************************)
(* Proof that an accepted trace reports the names files had when the       *)
(* events happened, for any number of processes, threads, descriptors,     *)
(* files and renames.                                                      *)
(*                                                                         *)
(* The collector works on a machine that has moved on, so what its tables  *)
(* say has to be compared with the machine of an earlier moment.  HistInv  *)
(* keeps a history of the machine, one picture for each timestamp: every   *)
(* event in the ring or in the buffer says how one picture became the next *)
(* (Effect), and the tables of the collector are those of the picture that *)
(* belongs to the last event taken (Match).                                *)
(***************************************************************************)
EXTENDS CollectorAccountProofs

\* Nothing but the traced command is heard of: repx runs without --watch.
Unwatched == "external" \notin Workload

\* Nobody is external.
TreeInv ==
  /\ \A t \in Pids : state[t] # "ext"
  /\ \A e \in Emitted : e.source = "tree"

FilesInv ==
  /\ at = [f \in Files |-> at[f]]
  /\ linked \in [Files -> BOOLEAN]
  /\ ofd \in [Pids -> [Fds -> Files \cup {None}]]

\* Timestamps tell events apart, but for the two halves of a rename.
Halves == {"rename_source", "rename_destination"}
UniqueInv ==
  /\ \A d, e \in Emitted : d.timestamp_ns = e.timestamp_ns =>
       d = e \/ (d.kind # e.kind /\ {d.kind, e.kind} \subseteq Halves)
  /\ \A r \in raw_events, q \in ring : r.timestamp_ns < q.timestamp_ns
-----------------------------------------------------------------------------
(* Pictures of the machine.                                                *)

Leaders == {p \in Pids : state[p] = "tree" /\ tg[p] = p}
Now == [lead |-> Leaders, ofd |-> [p \in Leaders |-> ofd[p]],
        at |-> at, linked |-> linked]

\* Descriptors, and files, that stay as they are.
SameFds(s, r) == r.lead = s.lead /\ \A p \in s.lead : r.ofd[p] = s.ofd[p]
SameFiles(s, r) == r.at = s.at /\ r.linked = s.linked

\* What payload says of the file behind a descriptor is so in picture s.
TellsName(e, s) ==
  LET f == s.ofd[e.tgid][e.payload.fd]
  IN  /\ f = None => e.payload.path = NoPath
      /\ f # None => e.payload.path = s.at[f] /\ e.payload.nameless = ~s.linked[f]

\* The descriptor of e is f afterwards, all others are what they were.
SetsFd(e, f, s, r) ==
  /\ r.lead = s.lead
  /\ \A p \in s.lead, fd \in Fds :
       r.ofd[p][fd] = IF p = e.tgid /\ fd = e.payload.fd THEN f ELSE s.ofd[p][fd]

OpenEffect(e, s, r) ==
  LET f == e.payload.file
  IN  /\ f \in Files
      /\ SetsFd(e, f, s, r)
      /\ \A g \in Files \ {f} : r.at[g] = s.at[g] /\ (r.linked[g] <=> s.linked[g])
      /\ r.at[f] = e.payload.path
      /\ \/ s.linked[f] /\ s.at[f] = e.payload.path
         \/ \A p \in s.lead, fd \in Fds : s.ofd[p][fd] # f

RenameEffect(e, s, r) ==
  /\ SameFds(s, r)
  /\ \A f \in Files : r.linked[f] =>
       /\ s.linked[f]
       /\ r.at[f] = rewrite_path(s.at[f], e.payload.from, e.payload.path,
                                 e.payload.exchange)

ForkEffect(e, s, r) ==
  LET c == e.payload.child
  IN  /\ c \notin s.lead
      /\ SameFiles(s, r)
      /\ \A p \in s.lead : r.ofd[p] = s.ofd[p]
      /\ \/ r.lead = s.lead
         \/ r.lead = s.lead \cup {c} /\ r.ofd[c] = s.ofd[e.tgid]

\* How event e turns picture s into picture r.
Effect(e, s, r) ==
  /\ e.tgid \in s.lead
  /\ e.kind = "open" => OpenEffect(e, s, r)
  /\ e.kind = "close" => TellsName(e, s) /\ SetsFd(e, None, s, r) /\ SameFiles(s, r)
  /\ e.kind = "mmap" => TellsName(e, s) /\ SameFds(s, r) /\ SameFiles(s, r)
  /\ e.kind \in Halves => RenameEffect(e, s, r)
  /\ e.kind = "unlink" => /\ SameFds(s, r) /\ r.at = s.at
                          /\ \A f \in Files : r.linked[f] => s.linked[f]
  /\ e.kind = "exec" => SameFds(s, r) /\ SameFiles(s, r)
  /\ e.kind = "fork" => ForkEffect(e, s, r)
  /\ e.kind = "exit" => /\ SameFiles(s, r) /\ r.lead \subseteq s.lead
                        /\ \A p \in r.lead : r.ofd[p] = s.ofd[p]

PictureOK(s) ==
  /\ s.lead \subseteq Pids
  /\ \A p \in s.lead, fd \in Fds : s.ofd[p][fd] \in Files \cup {None}
-----------------------------------------------------------------------------
(* What happens on the machine.                                            *)

\* Nobody becomes external.
LEMMA TreeStep ==
  ASSUME Unwatched, TypeInv, TreeInv, [Next]_vars
  PROVE  TreeInv'
<1>1. ASSUME NEW t \in Pids, state'[t] = "ext" PROVE FALSE
  <2>1. state[t] = "ext" \/ \E dir : SpawnExternal(t, dir)
    BY <1>1, ExtOrigin DEF TypeInv
  <2>. QED
    BY <2>1 DEF TreeInv, SpawnExternal, Unwatched
<1>2. ASSUME NEW d \in Emitted' PROVE d.source = "tree"
  <2>1. CASE \E e \in Emitted : Alike(d, e)
    BY <2>1 DEF Alike, TreeInv
  <2>2. CASE \E t \in Pids : Heard(d, t)
    BY <2>2 DEF Heard, TreeInv
  <2>. QED
    BY <1>2, <2>1, <2>2, Origin DEF TypeInv
<1>. QED
  BY <1>1, <1>2 DEF TreeInv

\* Every file has a name or had one, and descriptors are of files.
LEMMA FilesStep ==
  ASSUME TypeInv, FilesInv, [Next]_vars
  PROVE  FilesInv'
<1>1. ofd' \in [Pids -> [Fds -> Files \cup {None}]]
  BY FdsOrigin DEF TypeInv, FilesInv
<1>2. ASSUME NEW t, NEW ts, NEW fd, NEW raw, NEW style, NEW mode,
             Open(t, ts, fd, raw, style, mode)
      PROVE  FilesInv'
  <2>1. PICK f \in Files : /\ at' = [at EXCEPT ![f] = Path(t, style, raw)]
                           /\ linked' = [linked EXCEPT ![f] = TRUE]
    BY <1>2 DEF Open
  <2>. QED  BY <1>1, <2>1 DEF FilesInv
<1>3. ASSUME NEW t, NEW ts, NEW raw, NEW to, NEW style, NEW exchange,
             Rename(t, ts, raw, to, style, exchange)
      PROVE  FilesInv'
  <2>. DEFINE from == Path(t, style, raw)
              dest == Path(t, style, to)
              move(path) == IF IsPrefix(from, path) THEN Moved(path, from, dest)
                            ELSE IF exchange THEN Moved(path, dest, from) ELSE path
              value(f) == IF linked[f] THEN move(at[f]) ELSE at[f]
  <2>1. /\ at' = [f \in Files |-> value(f)]
        /\ linked' = [f \in Files |-> linked[f] /\ (exchange \/ f \notin FilesAt(dest))]
    BY <1>3 DEF Rename
  <2>. HIDE DEF value, dest
  <2>. QED  BY <1>1, <2>1 DEF FilesInv
<1>4. ASSUME NEW t, NEW ts, NEW raw, NEW style, Unlink(t, ts, raw, style)
      PROVE  FilesInv'
  <2>1. /\ at' = at
        /\ linked' = [f \in Files |-> linked[f] /\ f \notin FilesAt(Path(t, style, raw))]
    BY <1>4 DEF Unlink
  <2>. QED  BY <1>1, <2>1 DEF FilesInv
<1>5. CASE UNCHANGED <<at, linked>>
  BY <1>1, <1>5 DEF FilesInv
<1>6. CASE WorldNext
  <2>1. ASSUME NEW t, NEW ts, NEW fd, Close(t, ts, fd) \/ Mmap(t, ts, fd)
        PROVE  UNCHANGED <<at, linked>>
    BY <2>1 DEF Close, Mmap, fileVars
  <2>2. ASSUME NEW t, NEW ts, NEW c, NEW thread, Fork(t, ts, c, thread)
        PROVE  UNCHANGED <<at, linked>>
    BY <2>2 DEF Fork, fileVars
  <2>3. ASSUME NEW t, NEW ts, NEW style, Exec(t, ts, style)
        PROVE  UNCHANGED <<at, linked>>
    BY <2>3 DEF Exec, fileVars
  <2>4. ASSUME NEW t, NEW ts, NEW status, Exit(t, ts, status)
        PROVE  UNCHANGED <<at, linked>>
    BY <2>4 DEF Exit, fileVars
  <2>5. ASSUME NEW f, Write(f) PROVE UNCHANGED <<at, linked>>
    BY <2>5 DEF Write
  <2>6. ASSUME NEW t, NEW dir, Chdir(t, dir) \/ SpawnExternal(t, dir) \/ SilentExit(t)
        PROVE  UNCHANGED <<at, linked>>
    BY <2>6 DEF Chdir, SpawnExternal, SilentExit, fileVars
  <2>. QED
    BY <1>2, <1>3, <1>4, <1>5, <1>6, <2>1, <2>2, <2>3, <2>4, <2>5, <2>6 DEF WorldNext
<1>7. CASE CollectorNext
  <2>1. CASE \E e \in todo : process_event(e)
    BY <1>5, <2>1, Taken DEF Take, worldVars, fileVars
  <2>2. CASE ~\E e \in todo : process_event(e)
    BY <1>5, <1>7, <2>2 DEF CollectorNext, Drain, WaitPid, Quiesced, Finish, worldVars, fileVars
  <2>. QED  BY <2>1, <2>2
<1>8. CASE UNCHANGED vars
  BY <1>5, <1>8 DEF vars, worldVars, fileVars
<1>. QED
  BY <1>6, <1>7, <1>8 DEF Next

\* Whoever causes an event belongs to a process of the tree.
LEMMA Speaker ==
  ASSUME TypeInv, TreeInv, NEW t \in Pids, state[t] \in {"tree", "ext"}
  PROVE  state[t] = "tree" /\ tg[t] \in Leaders /\ tg[t] \in Pids
BY DEF TypeInv, TasksInv, TreeInv, Leaders

\* The steps no probe hears.
QuietStep ==
  \/ \E f \in Files : Write(f)
  \/ \E t \in Pids, dir \in Cwds : Chdir(t, dir) \/ SpawnExternal(t, dir)
  \/ \E t \in Pids : SilentExit(t)

\* A step of the machine is silent, or the clock ticks and there is one event
\* or the two of a rename.
LEMMA Sounds ==
  ASSUME WorldNext, ~Ties, TypeInv
  PROVE  \/ ring' = ring /\ clock' = clock /\ QuietStep
         \/ /\ clock' = clock + 1
            /\ \E e : /\ ring' = ring \cup {e} /\ e.kind \notin Halves
                      /\ e.timestamp_ns = clock'
         \/ /\ clock' = clock + 1
            /\ \E s, d : /\ ring' = ring \cup {s, d}
                         /\ s.kind = "rename_source" /\ d.kind = "rename_destination"
                         /\ s.timestamp_ns = clock' /\ d.timestamp_ns = clock'
<1>. DEFINE One == \E e : /\ ring' = ring \cup {e} /\ e.kind \notin Halves
                          /\ e.timestamp_ns = clock'
            Two == \E s, d : /\ ring' = ring \cup {s, d}
                         /\ s.kind = "rename_source" /\ d.kind = "rename_destination"
                         /\ s.timestamp_ns = clock' /\ d.timestamp_ns = clock'
<1>1. ASSUME NEW t, NEW ts \in Instants, Tick(t, ts)
      PROVE  clock' = ts /\ clock' = clock + 1
  BY <1>1 DEF Instants, Tick, TypeInv, ClockInv
<1>2. ASSUME NEW t, NEW ts \in Instants, NEW kind, NEW payload, kind \notin Halves,
             Emit(t, ts, {Event(kind, t, ts, payload)})
      PROVE  clock' = clock + 1 /\ One
  <2>1. Event(kind, t, ts, payload).kind = kind
        /\ Event(kind, t, ts, payload).timestamp_ns = ts
    BY DEF Event
  <2>. QED  BY <1>1, <1>2, <2>1 DEF Emit
<1>3. ASSUME NEW t, NEW ts \in Instants, NEW fd, NEW raw, NEW style, NEW mode,
             Open(t, ts, fd, raw, style, mode)
      PROVE  clock' = clock + 1 /\ One
  <2>1. \E payload : Emit(t, ts, {Event("open", t, ts, payload)})
    BY <1>3 DEF Open
  <2>. HIDE DEF One
  <2>. QED  BY <1>2, <2>1 DEF Halves
<1>4. ASSUME NEW t, NEW ts \in Instants, NEW raw, NEW to, NEW style, NEW exchange,
             Rename(t, ts, raw, to, style, exchange)
      PROVE  clock' = clock + 1 /\ Two
  <2>1. \E a, b : Emit(t, ts, {Event("rename_source", t, ts, a),
                               Event("rename_destination", t, ts, b)})
    BY <1>4, Zenon DEF Rename
  <2>2. PICK a, b : Emit(t, ts, {Event("rename_source", t, ts, a),
                                 Event("rename_destination", t, ts, b)})
    BY <2>1
  <2>3. /\ Event("rename_source", t, ts, a).kind = "rename_source"
        /\ Event("rename_source", t, ts, a).timestamp_ns = ts
        /\ Event("rename_destination", t, ts, b).kind = "rename_destination"
        /\ Event("rename_destination", t, ts, b).timestamp_ns = ts
    BY DEF Event
  <2>. QED  BY <1>1, <2>2, <2>3 DEF Emit
<1>5. ASSUME NEW t, NEW ts \in Instants, NEW raw, NEW style, Unlink(t, ts, raw, style)
      PROVE  clock' = clock + 1 /\ One
  <2>1. \E payload : Emit(t, ts, {Event("unlink", t, ts, payload)})
    BY <1>5 DEF Unlink
  <2>. HIDE DEF One
  <2>. QED  BY <1>2, <2>1 DEF Halves
<1>6. ASSUME NEW t, NEW ts \in Instants, NEW fd, Close(t, ts, fd) \/ Mmap(t, ts, fd)
      PROVE  clock' = clock + 1 /\ One
  <2>1. \E payload : \/ Emit(t, ts, {Event("close", t, ts, payload)})
                     \/ Emit(t, ts, {Event("mmap", t, ts, payload)})
    BY <1>6 DEF Close, Mmap
  <2>. HIDE DEF One
  <2>. QED  BY <1>2, <2>1 DEF Halves
<1>7. ASSUME NEW t, NEW ts \in Instants, NEW c, NEW thread, Fork(t, ts, c, thread)
      PROVE  clock' = clock + 1 /\ One
  <2>1. /\ Tick(t, ts)
        /\ ring' = ring \cup {Event("fork", t, ts, [child |-> c, born |-> birth[c] + 1])}
    BY <1>7 DEF Fork
  <2>. DEFINE e == Event("fork", t, ts, [child |-> c, born |-> birth[c] + 1])
  <2>2. e.kind = "fork" /\ e.timestamp_ns = ts
    BY DEF Event
  <2>. HIDE DEF e
  <2>. QED  BY <1>1, <2>1, <2>2 DEF e, Halves
<1>8. ASSUME NEW t, NEW ts \in Instants, NEW style, Exec(t, ts, style)
      PROVE  clock' = clock + 1 /\ One
  <2>. DEFINE e == [Event("exec", t, ts, [raw |-> Tool, style |-> style,
                           path |-> Path(t, style, Tool), first |-> ~started])
                     EXCEPT !.image = image'[t]]
  <2>1. Tick(t, ts) /\ ring' = ring \cup {e}
    BY <1>8 DEF Exec, Emit
  <2>2. e.kind = "exec" /\ e.timestamp_ns = ts
    BY DEF Event
  <2>. HIDE DEF e
  <2>. QED  BY <1>1, <2>1, <2>2 DEF Halves
<1>9. ASSUME NEW t, NEW ts \in Instants, NEW status, Exit(t, ts, status)
      PROVE  clock' = clock + 1 /\ One
  <2>1. \E payload : Emit(t, ts, {Event("exit", t, ts, payload)})
    BY <1>9 DEF Exit
  <2>. HIDE DEF One
  <2>. QED  BY <1>2, <2>1 DEF Halves
<1>10. ASSUME NEW f, Write(f) PROVE ring' = ring /\ clock' = clock
  BY <1>10 DEF Write
<1>11. ASSUME NEW t, NEW dir, Chdir(t, dir) \/ SpawnExternal(t, dir) \/ SilentExit(t)
       PROVE  ring' = ring /\ clock' = clock
  BY <1>11 DEF Chdir, SpawnExternal, SilentExit
<1>. HIDE DEF One, Two
<1>12. \/ ring' = ring /\ clock' = clock /\ QuietStep
       \/ clock' = clock + 1 /\ One
       \/ clock' = clock + 1 /\ Two
  <2>1. CASE \E f \in Files : Write(f)
    BY <1>10, <2>1 DEF QuietStep
  <2>2. CASE \E t \in Pids, dir \in Cwds : Chdir(t, dir) \/ SpawnExternal(t, dir)
    BY <1>11, <2>2 DEF QuietStep
  <2>3. CASE \E t \in Pids : SilentExit(t)
    BY <1>11, <2>3 DEF QuietStep
  <2>4. CASE \E t \in Pids, ts \in Instants :
               \/ \E raw \in Names, style \in Styles :
                    \/ \E fd \in Fds, mode \in Modes : Open(t, ts, fd, raw, style, mode)
                    \/ \E to \in Names, exchange \in BOOLEAN :
                         Rename(t, ts, raw, to, style, exchange)
                    \/ Unlink(t, ts, raw, style)
               \/ \E fd \in Fds : Close(t, ts, fd) \/ Mmap(t, ts, fd)
               \/ \E c \in Pids, thread \in BOOLEAN : Fork(t, ts, c, thread)
               \/ \E style \in Styles \ {"dirfd"} : Exec(t, ts, style)
               \/ \E status \in {0, 1} : Exit(t, ts, status)
    BY <1>3, <1>4, <1>5, <1>6, <1>7, <1>8, <1>9, <2>4
  <2>. QED
    BY <2>1, <2>2, <2>3, <2>4, Zenon DEF WorldNext
<1>. QED
  BY <1>12 DEF One, Two

\* A silent step does not change the picture.
LEMMA Silence ==
  ASSUME Unwatched, TypeInv, TreeInv,
         QuietStep
  PROVE  Now' = Now
<1>1. CASE UNCHANGED <<state, tg, ofd, at, linked>>
  BY <1>1 DEF Now, Leaders
<1>2. ASSUME NEW f, Write(f) PROVE UNCHANGED <<state, tg, ofd, at, linked>>
  BY <1>2 DEF Write, taskVars
<1>3. ASSUME NEW t, NEW dir, Chdir(t, dir) PROVE UNCHANGED <<state, tg, ofd, at, linked>>
  BY <1>3 DEF Chdir, fileVars
<1>4. ASSUME NEW t, NEW dir, SpawnExternal(t, dir) PROVE FALSE
  BY <1>4 DEF SpawnExternal, Unwatched
<1>5. ASSUME NEW t \in Pids, SilentExit(t) PROVE Now' = Now
  <2>1. t \notin Leaders /\ Leaders' = Leaders
    BY <1>5 DEF SilentExit, TypeInv, TasksInv, TreeInv, Leaders
  <2>2. /\ at' = at /\ linked' = linked
        /\ ofd' = [ofd EXCEPT ![t] = NoFds]
    BY <1>5 DEF SilentExit, fileVars
  <2>3. \A p \in Leaders : ofd'[p] = ofd[p]
    BY <2>1, <2>2
  <2>. QED
    BY <2>1, <2>2, <2>3 DEF Now
<1>. QED
  BY <1>1, <1>2, <1>3, <1>4, <1>5 DEF QuietStep

\* An open gives the descriptor its file, and the file its name.
LEMMA OpenHappens ==
  ASSUME TypeInv, TreeInv, FilesInv, NEW t \in Pids, NEW ts, NEW fd \in Fds, NEW raw,
         NEW style, NEW mode, Open(t, ts, fd, raw, style, mode),
         NEW e \in ring', e \notin ring
  PROVE  Effect(e, Now, Now')
<1>. DEFINE p == tg[t]
            path == Path(t, style, raw)
<1>1. PICK f \in Files :
           /\ \/ f \in FilesAt(path)
              \/ \A q \in Pids, d \in Fds : ofd[q][d] # f
           /\ at' = [at EXCEPT ![f] = path]
           /\ linked' = [linked EXCEPT ![f] = TRUE]
           /\ ofd' = [ofd EXCEPT ![p][fd] = f]
           /\ Emit(t, ts, {Event("open", t, ts,
                [fd |-> fd, raw |-> raw, style |-> style, mode |-> mode,
                 path |-> path, file |-> f, content |-> content'[f],
                 arrived |-> content'[f]])})
  BY DEF Open
<1>2. e = Event("open", t, ts,
                [fd |-> fd, raw |-> raw, style |-> style, mode |-> mode,
                 path |-> path, file |-> f, content |-> content'[f],
                 arrived |-> content'[f]])
  BY <1>1 DEF Emit
<1>3. /\ e.kind = "open" /\ e.tgid = p /\ e.payload.fd = fd /\ e.payload.path = path
      /\ e.payload.file = f
  BY <1>2 DEF Event
<1>4. p \in Leaders /\ Leaders' = Leaders /\ Leaders \subseteq Pids
  <2>1. state[t] \in {"tree", "ext"} /\ UNCHANGED <<state, tg>>
    BY DEF Open, May
  <2>. QED  BY <2>1, Speaker DEF Leaders
<1>. HIDE DEF p, path
<1>5. \A q \in Leaders, d \in Fds :
        ofd'[q][d] = IF q = p /\ d = fd THEN f ELSE ofd[q][d]
  BY <1>1, <1>4 DEF FilesInv
<1>6. /\ \A g \in Files \ {f} : at'[g] = at[g] /\ (linked'[g] <=> linked[g])
      /\ at'[f] = path
  BY <1>1 DEF FilesInv
<1>7. \/ linked[f] /\ at[f] = path
      \/ \A q \in Leaders, d \in Fds : ofd[q][d] # f
  BY <1>1, <1>4 DEF FilesAt
<1>. QED
  BY <1>3, <1>4, <1>5, <1>6, <1>7 DEF Effect, OpenEffect, SetsFd, Now, Halves

\* A close and an mmap tell the name behind the descriptor.
LEMMA FdHappens ==
  ASSUME TypeInv, TreeInv, FilesInv, NEW t \in Pids, NEW ts, NEW fd \in Fds,
         Close(t, ts, fd) \/ Mmap(t, ts, fd), NEW e \in ring', e \notin ring
  PROVE  Effect(e, Now, Now')
<1>. DEFINE p == tg[t]
<1>1. /\ state[t] \in {"tree", "ext"} /\ UNCHANGED <<state, tg, at, linked>>
      /\ \/ /\ e = Event("close", t, ts, FdPayload(p, fd))
            /\ ofd' = [ofd EXCEPT ![p][fd] = None]
         \/ e = Event("mmap", t, ts, FdPayload(p, fd)) /\ ofd' = ofd
  BY DEF Close, Mmap, May, Emit, fileVars, taskVars
<1>2. /\ e.tgid = p /\ e.payload = FdPayload(p, fd)
      /\ \/ e.kind = "close" /\ ofd' = [ofd EXCEPT ![p][fd] = None]
         \/ e.kind = "mmap" /\ ofd' = ofd
  BY <1>1 DEF Event
<1>3. p \in Leaders /\ Leaders' = Leaders /\ Leaders \subseteq Pids
  BY <1>1, Speaker DEF Leaders
<1>. HIDE DEF p
<1>4. /\ e.payload.fd = fd
      /\ ofd[p][fd] = None => e.payload.path = NoPath
      /\ ofd[p][fd] # None => /\ e.payload.path = at[ofd[p][fd]]
                              /\ e.payload.nameless = ~linked[ofd[p][fd]]
  BY <1>2 DEF FdPayload, NameBehind, Nameless
<1>5. TellsName(e, Now)
  BY <1>2, <1>3, <1>4 DEF TellsName, Now
<1>6. e.kind = "close" => \A q \in Leaders, d \in Fds :
        ofd'[q][d] = IF q = p /\ d = fd THEN None ELSE ofd[q][d]
  BY <1>2, <1>3 DEF FilesInv
<1>. QED
  BY <1>1, <1>2, <1>3, <1>4, <1>5, <1>6
  DEF Effect, SetsFd, SameFds, SameFiles, Now, Halves

\* A rename moves names as rewrite_path does, and an unlink takes them away.
LEMMA RenameHappens ==
  ASSUME TypeInv, TreeInv, FilesInv, NEW t \in Pids, NEW ts, NEW raw, NEW to, NEW style,
         NEW exchange \in BOOLEAN,
         Rename(t, ts, raw, to, style, exchange), NEW e \in ring', e \notin ring
  PROVE  Effect(e, Now, Now')
<1>. DEFINE from == Path(t, style, raw)
            dest == Path(t, style, to)
            half(r) == [raw |-> r, style |-> style, exchange |-> exchange,
                        from |-> from, path |-> dest]
            move(path) == IF IsPrefix(from, path) THEN Moved(path, from, dest)
                          ELSE IF exchange THEN Moved(path, dest, from) ELSE path
<1>1. /\ state[t] \in {"tree", "ext"} /\ UNCHANGED <<state, tg, ofd>>
      /\ at' = [f \in Files |-> IF linked[f] THEN move(at[f]) ELSE at[f]]
      /\ linked' = [f \in Files |-> linked[f] /\ (exchange \/ f \notin FilesAt(dest))]
      /\ \/ e = Event("rename_source", t, ts, half(raw))
         \/ e = Event("rename_destination", t, ts, half(to))
  BY DEF Rename, Emit, May
<1>2. /\ e.kind \in Halves /\ e.tgid = tg[t]
      /\ e.payload.from = from /\ e.payload.path = dest /\ e.payload.exchange = exchange
  BY <1>1 DEF Event, Halves
<1>3. tg[t] \in Leaders /\ Leaders' = Leaders
  BY <1>1, Speaker DEF Leaders
<1>4. \A path : move(path) = rewrite_path(path, from, dest, exchange)
  BY DEF rewrite_path, Moved
<1>5. ASSUME NEW f \in Files, linked'[f]
      PROVE  linked[f] /\ at'[f] = rewrite_path(at[f], from, dest, exchange)
  <2>. HIDE DEF move, from, dest
  <2>. QED  BY <1>1, <1>4, <1>5
<1>. HIDE DEF move, from, dest, half
<1>6. RenameEffect(e, Now, Now')
  BY <1>1, <1>2, <1>3, <1>5 DEF RenameEffect, SameFds, Now
<1>. QED
  BY <1>2, <1>3, <1>6 DEF Effect, Now, Halves

\* An unlink changes the picture of the machine as its event says.
LEMMA UnlinkHappens ==
  ASSUME TypeInv, TreeInv, FilesInv, NEW t \in Pids, NEW ts, NEW raw, NEW style,
         Unlink(t, ts, raw, style), NEW e \in ring', e \notin ring
  PROVE  Effect(e, Now, Now')
<1>1. /\ state[t] \in {"tree", "ext"} /\ UNCHANGED <<state, tg, ofd, at>>
      /\ linked' = [f \in Files |-> linked[f] /\ f \notin FilesAt(Path(t, style, raw))]
      /\ e = Event("unlink", t, ts, [raw |-> raw, style |-> style,
                                     path |-> Path(t, style, raw)])
  BY DEF Unlink, Emit, May, taskVars
<1>2. e.kind = "unlink" /\ e.tgid = tg[t]
  BY <1>1 DEF Event
<1>3. tg[t] \in Leaders /\ Leaders' = Leaders
  BY <1>1, Speaker DEF Leaders
<1>4. \A f \in Files : linked'[f] => linked[f]
  BY <1>1
<1>. QED
  BY <1>1, <1>2, <1>3, <1>4 DEF Effect, SameFds, Now, Halves

\* A child has the descriptors of its parent, a thread those of its process.
LEMMA ForkHappens ==
  ASSUME TypeInv, TreeInv, FilesInv, NEW t \in Pids, NEW ts, NEW c \in Pids,
         NEW thread \in BOOLEAN, Fork(t, ts, c, thread), NEW e \in ring', e \notin ring
  PROVE  Effect(e, Now, Now')
<1>. DEFINE p == tg[t]
<1>1. /\ state[t] = "tree" /\ state[c] = "free" /\ UNCHANGED <<at, linked>>
      /\ state' = [state EXCEPT ![c] = "tree"]
      /\ tg' = [tg EXCEPT ![c] = IF thread THEN p ELSE c]
      /\ ofd' = [ofd EXCEPT ![c] = IF thread THEN NoFds ELSE ofd[p]]
      /\ e = Event("fork", t, ts, [child |-> c, born |-> birth[c] + 1])
  BY DEF Fork, Born, fileVars
<1>2. e.kind = "fork" /\ e.tgid = p /\ e.payload.child = c
  BY <1>1 DEF Event
<1>3. p \in Leaders /\ p \in Pids /\ c \notin Leaders /\ p # c
  BY <1>1, Speaker DEF Leaders
<1>4. Leaders' = IF thread THEN Leaders ELSE Leaders \cup {c}
  BY <1>1, <1>3 DEF Leaders, TypeInv, TasksInv
<1>. HIDE DEF p
<1>5. \A q \in Leaders : ofd'[q] = ofd[q]
  BY <1>1, <1>3 DEF FilesInv, Leaders
<1>6. ~thread => ofd'[c] = ofd[p]
  BY <1>1 DEF FilesInv
<1>7. ForkEffect(e, Now, Now')
  BY <1>1, <1>2, <1>3, <1>4, <1>5, <1>6 DEF ForkEffect, SameFiles, Now
<1>. QED
  BY <1>2, <1>3, <1>7 DEF Effect, Now, Halves

\* An exec changes the picture of the machine as its event says.
LEMMA ExecHappens ==
  ASSUME TypeInv, TreeInv, FilesInv, NEW t \in Pids, NEW ts, NEW style,
         Exec(t, ts, style), NEW e \in ring', e \notin ring
  PROVE  Effect(e, Now, Now')
<1>1. /\ state[t] = "tree" /\ UNCHANGED <<state, tg, ofd, at, linked>>
      /\ e = [Event("exec", t, ts, [raw |-> Tool, style |-> style,
                     path |-> Path(t, style, Tool), first |-> ~started])
               EXCEPT !.image = image'[t]]
  BY DEF Exec, Emit, fileVars
<1>2. e.kind = "exec" /\ e.tgid = tg[t]
  BY <1>1 DEF Event
<1>3. tg[t] \in Leaders /\ Leaders' = Leaders
  BY <1>1, Speaker DEF Leaders
<1>. QED
  BY <1>1, <1>2, <1>3 DEF Effect, SameFds, SameFiles, Now, Halves

\* An exit changes the picture of the machine as its event says.
LEMMA ExitHappens ==
  ASSUME TypeInv, TreeInv, FilesInv, NEW t \in Pids, NEW ts, NEW status,
         Exit(t, ts, status), NEW e \in ring', e \notin ring
  PROVE  Effect(e, Now, Now')
<1>1. /\ state[t] = "tree" /\ t = tg[t] /\ UNCHANGED <<tg, at, linked>>
      /\ state' = [state EXCEPT ![t] = IF t = Root THEN "zombie" ELSE "free"]
      /\ ofd' = [ofd EXCEPT ![t] = NoFds]
      /\ e = Event("exit", t, ts, [exit_code |-> 0])
  BY DEF Exit, Emit, Alone, fileVars
<1>2. e.kind = "exit" /\ e.tgid = t
  BY <1>1 DEF Event
<1>3. t \in Leaders /\ Leaders' = Leaders \ {t}
  BY <1>1 DEF Leaders, TypeInv, TasksInv
<1>4. \A q \in Leaders' : ofd'[q] = ofd[q]
  BY <1>1, <1>3
<1>. QED
  BY <1>1, <1>2, <1>3, <1>4 DEF Effect, SameFiles, Now, Halves

\* Each new event says how the picture has changed.
LEMMA Happens ==
  ASSUME TypeInv, TreeInv, FilesInv, WorldNext, NEW e \in ring', e \notin ring
  PROVE  Effect(e, Now, Now')
<1>. HIDE DEF Now
<1>1. ~QuietStep
  BY DEF QuietStep, Write, Chdir, SpawnExternal, SilentExit
<1>2. PICK t \in Pids, ts \in Instants :
               \/ \E raw \in Names, style \in Styles :
                    \/ \E fd \in Fds, mode \in Modes : Open(t, ts, fd, raw, style, mode)
                    \/ \E to \in Names, exchange \in BOOLEAN :
                         Rename(t, ts, raw, to, style, exchange)
                    \/ Unlink(t, ts, raw, style)
               \/ \E fd \in Fds : Close(t, ts, fd) \/ Mmap(t, ts, fd)
               \/ \E c \in Pids, thread \in BOOLEAN : Fork(t, ts, c, thread)
               \/ \E style \in Styles \ {"dirfd"} : Exec(t, ts, style)
               \/ \E status \in {0, 1} : Exit(t, ts, status)
  BY <1>1, Zenon DEF WorldNext, QuietStep
<1>. QED
  BY <1>2, OpenHappens, FdHappens, RenameHappens, UnlinkHappens, ForkHappens, ExecHappens,
     ExitHappens
-----------------------------------------------------------------------------
(* Timestamps.                                                             *)

\* What a step of Next does to ring and buffer.
LEMMA RingSteps ==
  ASSUME [Next]_vars
  PROVE  \/ WorldNext /\ UNCHANGED collectorVars
         \/ Drain
         \/ CollectorNext /\ ~Drain /\ UNCHANGED <<ring, raw_events>>
         \/ UNCHANGED vars
BY CollectorKeeps DEF Next

\* Timestamps keep telling events apart, but for the halves of a rename.
LEMMA UniqueStep ==
  ASSUME TypeInv, SeenInv, ~Ties, UniqueInv, [Next]_vars
  PROVE  UniqueInv'
<1>1. CASE WorldNext /\ UNCHANGED collectorVars
  <2>1. raw_events' = raw_events /\ ring \subseteq ring' /\ clock \in Nat
    BY <1>1, RingGrows DEF collectorVars, bufferVars, TypeInv, ClockInv
  <2>2. ASSUME NEW d \in Emitted', d \notin Emitted
        PROVE  /\ d \in ring' /\ d \notin ring /\ d.timestamp_ns = clock'
               /\ \A e \in Emitted : e.timestamp_ns < d.timestamp_ns
    <3>1. d \in ring' /\ d \notin ring
      BY <2>1, <2>2 DEF Emitted
    <3>2. PICK t \in Pids : Heard(d, t)
      BY <1>1, <3>1, NewEvent DEF TypeInv
    <3>. QED
      BY <3>1, <3>2, HeardAlone
  <2>3. ASSUME NEW d \in ring', d \notin ring, NEW e \in ring', e \notin ring
        PROVE  d = e \/ (d.kind # e.kind /\ {d.kind, e.kind} \subseteq Halves)
    BY <1>1, <2>3, Sounds DEF Halves
  <2>4. ASSUME NEW d \in ring', d \notin ring, NEW e \in Emitted
        PROVE  e.timestamp_ns < d.timestamp_ns /\ e.timestamp_ns # d.timestamp_ns
    <3>1. PICK t \in Pids : Heard(d, t)
      BY <1>1, <2>4, NewEvent DEF TypeInv
    <3>. QED
      BY <2>4, <3>1, HeardAlone
  <2>5. Emitted' = Emitted \cup (ring' \ ring)
    BY <2>1 DEF Emitted
  <2>6. ASSUME NEW d \in Emitted', NEW e \in Emitted', d.timestamp_ns = e.timestamp_ns
        PROVE  d = e \/ (d.kind # e.kind /\ {d.kind, e.kind} \subseteq Halves)
    <3>1. CASE d \in Emitted /\ e \in Emitted
      BY <2>6, <3>1 DEF UniqueInv
    <3>2. CASE d \in Emitted /\ e \in ring' \ ring
      BY <2>4, <2>6, <3>2
    <3>3. CASE d \in ring' \ ring /\ e \in Emitted
      BY <2>4, <2>6, <3>3
    <3>4. CASE d \in ring' \ ring /\ e \in ring' \ ring
      BY <2>3, <3>4
    <3>. QED
      BY <2>5, <2>6, <3>1, <3>2, <3>3, <3>4
  <2>7. ASSUME NEW r \in raw_events', NEW q \in ring' PROVE r.timestamp_ns < q.timestamp_ns
    <3>1. r \in Emitted
      BY <2>1, <2>7 DEF Emitted
    <3>. QED
      BY <2>1, <2>4, <2>7, <3>1 DEF UniqueInv
  <2>. QED
    BY <2>6, <2>7 DEF UniqueInv
<1>2. CASE Drain
  <2>1. raw_events' = raw_events \cup {Copied(e) : e \in ring} /\ ring' = {}
    BY <1>2, DrainCopies
  <2>2. \A e \in ring : Alike(Copied(e), e) /\ e \in Emitted
    BY CopiedAlike DEF TypeInv, EventsInv, RawEvent, Emitted
  <2>3. \A e \in ring : Copied(e).timestamp_ns = e.timestamp_ns /\ Copied(e).kind = e.kind
    BY <2>2 DEF Alike
  <2>4. ASSUME NEW d \in Emitted', NEW e \in Emitted', d.timestamp_ns = e.timestamp_ns
        PROVE  d = e \/ (d.kind # e.kind /\ {d.kind, e.kind} \subseteq Halves)
    <3>1. \A x \in raw_events : x \in Emitted
      BY DEF Emitted
    <3>2. \A r \in raw_events, q \in ring : r.timestamp_ns # q.timestamp_ns
      <4>1. \A x \in Emitted : x.timestamp_ns \in Nat
        BY DEF TypeInv, EventsInv, RawEvent
      <4>. QED
        BY <4>1 DEF UniqueInv, Emitted
    <3>3. CASE d \in raw_events /\ e \in raw_events
      BY <2>4, <3>1, <3>3 DEF UniqueInv
    <3>4. ASSUME NEW a \in ring, d = Copied(a), e \in raw_events PROVE FALSE
      BY <2>3, <2>4, <3>2, <3>4
    <3>5. ASSUME NEW a \in ring, e = Copied(a), d \in raw_events PROVE FALSE
      BY <2>3, <2>4, <3>2, <3>5
    <3>6. ASSUME NEW a \in ring, NEW b \in ring, d = Copied(a), e = Copied(b)
          PROVE  d = e \/ (d.kind # e.kind /\ {d.kind, e.kind} \subseteq Halves)
      <4>1. a.timestamp_ns = b.timestamp_ns /\ d.kind = a.kind /\ e.kind = b.kind
        BY <2>3, <2>4, <3>6
      <4>2. a = b \/ (a.kind # b.kind /\ {a.kind, b.kind} \subseteq Halves)
        BY <2>2, <4>1 DEF UniqueInv
      <4>. QED
        BY <3>6, <4>1, <4>2
    <3>7. /\ d \in raw_events \/ \E a \in ring : d = Copied(a)
          /\ e \in raw_events \/ \E a \in ring : e = Copied(a)
      BY <2>1, <2>4 DEF Emitted
    <3>. QED
      BY <3>3, <3>4, <3>5, <3>6, <3>7
  <2>. QED
    BY <2>1, <2>4 DEF UniqueInv
<1>3. CASE UNCHANGED <<ring, raw_events>>
  BY <1>3 DEF UniqueInv, Emitted
<1>. QED
  BY <1>1, <1>2, <1>3, RingSteps DEF vars, worldVars, collectorVars, bufferVars
-----------------------------------------------------------------------------
(* The history of the machine.                                             *)

\* H[n] is the picture at timestamp n: each event leads from one to the next,
\* and there is one for every step of the clock.
History(H) ==
  /\ \A n \in 0 .. clock : PictureOK(H[n])
  /\ H[0].lead = {Root} /\ \A fd \in Fds : H[0].ofd[Root][fd] = None
  /\ H[clock] = Now
  /\ \A e \in Emitted : Effect(e, H[e.timestamp_ns - 1], H[e.timestamp_ns])
  /\ \A n \in 1 .. clock :
       \E e \in Emitted : e.timestamp_ns = n /\ e.kind # "rename_source"

\* Draining does not change what an event says.
LEMMA EffectAlike ==
  ASSUME NEW d, NEW e, Alike(d, e), RawEvent(e), Operands(e), NEW s, NEW r, Effect(e, s, r)
  PROVE  Effect(d, s, r)
<1>1. CASE e.kind # "open"
  <2>1. d = e
    BY <1>1 DEF Alike
  <2>. QED  BY <2>1
<1>2. CASE e.kind = "open"
  <2>1. {"path", "file", "fd"} \subseteq DOMAIN e.payload
    BY <1>2 DEF Operands, RawEvent
  <2>2. /\ d.kind = "open" /\ d.tgid = e.tgid /\ d.payload.path = e.payload.path
        /\ d.payload.file = e.payload.file /\ d.payload.fd = e.payload.fd
    BY <1>2, <2>1 DEF Alike
  <2>3. e.tgid \in s.lead /\ OpenEffect(e, s, r)
    BY <1>2 DEF Effect
  <2>4. OpenEffect(d, s, r)
    BY <2>2, <2>3 DEF OpenEffect, SetsFd
  <2>. QED
    BY <2>2, <2>3, <2>4 DEF Effect, Halves
<1>. QED  BY <1>1, <1>2

\* An event adds a picture.
LEMMA HistoryGrows ==
  ASSUME Unwatched, ~Ties, TypeInv, SeenInv, TreeInv, FilesInv, FilesInv', NEW H, History(H),
         WorldNext, UNCHANGED collectorVars, clock' = clock + 1,
         \E d \in ring' : /\ ring' # ring /\ d.timestamp_ns = clock'
                          /\ d.kind # "rename_source"
  PROVE  \E G : History(G)' /\ \A n \in 0 .. clock : G[n] = H[n]
<1>0. clock \in Nat /\ raw_events' = raw_events /\ ring \subseteq ring'
  BY RingGrows DEF TypeInv, ClockInv, collectorVars, bufferVars
<1>1. PICK N : N = Now'
  OBVIOUS
<1>2. PICK G : G = [n \in Nat |-> IF n = clock + 1 THEN N ELSE H[n]]
  OBVIOUS
<1>3. /\ G[clock + 1] = N /\ G[clock] = H[clock] /\ G[0] = H[0]
      /\ \A n \in 0 .. clock : G[n] = H[n]
  BY <1>0, <1>2
<1>4. \A n \in 0 .. clock' : PictureOK(G[n])
  <2>1. PictureOK(N)
    <3>1. PictureOK(Now)'
      BY DEF FilesInv, PictureOK, Now, Leaders
    <3>. QED  BY <1>1, <3>1 DEF PictureOK
  <2>2. ASSUME NEW n \in 0 .. clock + 1 PROVE PictureOK(G[n])
    <3>1. CASE n = clock + 1
      BY <1>3, <2>1, <3>1
    <3>2. CASE n # clock + 1
      <4>1. n \in 0 .. clock
        BY <1>0, <2>2, <3>2
      <4>. QED  BY <1>3, <4>1 DEF History
    <3>. QED  BY <3>1, <3>2
  <2>. QED  BY <2>2
<1>5. ASSUME NEW e \in Emitted'
      PROVE  Effect(e, G[e.timestamp_ns - 1], G[e.timestamp_ns])
  <2>1. CASE e \in Emitted
    <3>1. e.timestamp_ns \in 1 .. clock
      BY <2>1 DEF SeenInv
    <3>2. e.timestamp_ns \in 0 .. clock /\ e.timestamp_ns - 1 \in 0 .. clock
      BY <1>0, <3>1
    <3>3. Effect(e, H[e.timestamp_ns - 1], H[e.timestamp_ns])
      BY <2>1 DEF History
    <3>. QED  BY <1>3, <3>2, <3>3
  <2>2. CASE e \notin Emitted
    <3>1. e \in ring' /\ e \notin ring
      BY <1>0, <1>5, <2>2 DEF Emitted
    <3>2. PICK t \in Pids : Heard(e, t)
      BY <3>1, NewEvent DEF TypeInv
    <3>3. e.timestamp_ns = clock + 1
      BY <3>2, HeardAlone
    <3>4. Effect(e, Now, Now')
      BY <3>1, Happens
    <3>5. G[e.timestamp_ns] = Now' /\ G[e.timestamp_ns - 1] = Now
      BY <1>0, <1>1, <1>3, <3>3 DEF History
    <3>. QED  BY <3>4, <3>5
  <2>. QED  BY <2>1, <2>2
<1>6. ASSUME NEW n \in 1 .. clock'
      PROVE  \E e \in Emitted' : e.timestamp_ns = n /\ e.kind # "rename_source"
  <2>1. Emitted \subseteq Emitted' /\ ring' \subseteq Emitted'
    BY <1>0 DEF Emitted
  <2>2. n = clock' \/ n \in 1 .. clock
    BY <1>0, <1>6
  <2>. QED  BY <2>1, <2>2 DEF History
<1>7. G[0].lead = {Root} /\ \A fd \in Fds : G[0].ofd[Root][fd] = None
  BY <1>3 DEF History
<1>8. G[clock'] = Now'
  BY <1>1, <1>3
<1>9. History(G)'
  BY <1>4, <1>5, <1>6, <1>7, <1>8 DEF History
<1>. QED  BY <1>3, <1>9

\* Otherwise the history stays as it is.
LEMMA HistoryKept ==
  ASSUME TypeInv, NamesInv, [Next]_vars, NEW H, History(H), Now' = Now, clock' = clock,
         \A d \in Emitted' : \E e \in Emitted : Alike(d, e)
  PROVE  History(H)'
<1>1. ASSUME NEW d \in Emitted'
      PROVE  Effect(d, H[d.timestamp_ns - 1], H[d.timestamp_ns])
  <2>1. PICK e \in Emitted : Alike(d, e)
    BY <1>1
  <2>2. RawEvent(e) /\ Operands(e) /\ Effect(e, H[e.timestamp_ns - 1], H[e.timestamp_ns])
    BY <2>1 DEF TypeInv, EventsInv, NamesInv, History
  <2>3. d.timestamp_ns = e.timestamp_ns
    BY <2>1 DEF Alike
  <2>. QED  BY <2>1, <2>2, <2>3, EffectAlike
<1>2. ASSUME NEW n \in 1 .. clock
      PROVE  \E d \in Emitted' : d.timestamp_ns = n /\ d.kind # "rename_source"
  <2>1. PICK e \in Emitted : e.timestamp_ns = n /\ e.kind # "rename_source"
    BY <1>2 DEF History
  <2>2. PICK d \in Emitted' : Alike(d, e)
    BY KeptAlike DEF TypeInv
  <2>3. d.timestamp_ns = n /\ d.kind # "rename_source"
    BY <2>1, <2>2 DEF Alike
  <2>. QED  BY <2>3
<1>. QED
  BY <1>1, <1>2 DEF History

\* Every step of the machine continues a history of it.
LEMMA HistoryStep ==
  ASSUME Unwatched, ~Ties, TypeInv, SeenInv, TreeInv, FilesInv, FilesInv', NamesInv,
         [Next]_vars, NEW H, History(H)
  PROVE  \E G : History(G)' /\ \A n \in 0 .. clock : G[n] = H[n]
<1>1. \A d \in raw_events \cup ring : Alike(d, d)
  BY DEF Alike
<1>2. CASE WorldNext /\ UNCHANGED collectorVars
  <2>1. CASE ring' = ring /\ clock' = clock /\ QuietStep
    <3>1. Now' = Now
      BY <2>1, Silence
    <3>2. Emitted' = Emitted
      BY <1>2, <2>1 DEF Emitted, collectorVars, bufferVars
    <3>. QED  BY <1>1, <2>1, <3>1, <3>2, HistoryKept DEF Emitted
  <2>2. CASE /\ clock' = clock + 1
             /\ \E d \in ring' : d.timestamp_ns = clock' /\ d.kind # "rename_source"
    <3>1. PICK d \in ring' : d.timestamp_ns = clock' /\ d.kind # "rename_source"
      BY <2>2
    <3>2. ring' # ring
      <4>1. \A e \in ring : e.timestamp_ns <= clock
        BY DEF SeenInv, Emitted
      <4>. QED  BY <2>2, <3>1, <4>1 DEF TypeInv, ClockInv
    <3>. QED  BY <1>2, <2>2, <3>1, <3>2, HistoryGrows
  <2>3. \/ ring' = ring /\ clock' = clock /\ QuietStep
        \/ /\ clock' = clock + 1
           /\ \E d \in ring' : d.timestamp_ns = clock' /\ d.kind # "rename_source"
    BY <1>2, Sounds DEF Halves
  <2>. QED  BY <2>1, <2>2, <2>3
<1>3. CASE Drain
  <2>1. Now' = Now /\ clock' = clock
    BY <1>3 DEF Drain, Now, Leaders, taskVars, fileVars
  <2>2. ASSUME NEW d \in Emitted' PROVE \E e \in Emitted : Alike(d, e)
    BY <1>1, <1>3, <2>2, DrainCopies, CopiedAlike
    DEF Emitted, TypeInv, EventsInv, RawEvent
  <2>. QED  BY <2>1, <2>2, HistoryKept
<1>4. CASE Now' = Now /\ clock' = clock /\ UNCHANGED <<ring, raw_events>>
  <2>1. Emitted' = Emitted
    BY <1>4 DEF Emitted
  <2>. QED  BY <1>1, <1>4, <2>1, HistoryKept DEF Emitted
<1>5. CASE CollectorNext /\ ~Drain /\ UNCHANGED <<ring, raw_events>>
  <2>1. CASE WaitPid
    <3>1. /\ UNCHANGED <<tg, ofd, at, linked, clock>>
          /\ state[Root] = "zombie" /\ state' = [state EXCEPT ![Root] = "free"]
      BY <2>1 DEF WaitPid, fileVars
    <3>2. Leaders' = Leaders
      BY <3>1 DEF Leaders, TypeInv, TasksInv
    <3>. QED  BY <1>4, <1>5, <3>1, <3>2 DEF Now
  <2>2. CASE Quiesced \/ Finish
    BY <1>4, <2>2, <1>5 DEF Quiesced, Finish, worldVars, taskVars, fileVars, Now, Leaders
  <2>3. CASE \E e \in todo : process_event(e)
    BY <1>4, <2>3, <1>5, Taken DEF Take, worldVars, taskVars, fileVars, Now, Leaders
  <2>. QED  BY <1>5, <2>1, <2>2, <2>3 DEF CollectorNext
<1>6. CASE UNCHANGED vars
  BY <1>4, <1>6 DEF vars, worldVars, taskVars, fileVars, collectorVars, bufferVars, Now, Leaders
<1>. QED
  BY <1>2, <1>3, <1>5, <1>6, RingSteps
-----------------------------------------------------------------------------
(* The tables of the collector.                                            *)

\* fd_table has the descriptors of picture s, under the names that their
\* files have in it.
Match(s) ==
  \A p \in s.lead :
    /\ p \in DOMAIN current_processes
    /\ \A fd \in Fds :
         LET key == <<current_processes[p].lifetime, fd>>
             f == s.ofd[p][fd]
         IN  /\ key \in DOMAIN fd_table <=> f # None
             /\ f # None => "path" \in DOMAIN fd_table[key]
             /\ f # None /\ s.linked[f] => fd_table[key].path = s.at[f]

\* The events taken are those up to timestamp n, which led to picture s; of
\* the next one the source half of a rename may have been taken, too.
Follows(s, n) ==
  /\ phase \in {"collect", "quiesce"} => n = 0
  /\ \A e \in todo : e.timestamp_ns > n
  /\ \A e \in Done : \/ e.timestamp_ns <= n
                     \/ e.kind = "rename_source" /\ e.timestamp_ns = n + 1
  /\ Match(s)

\* The event taken is the next one.
LEMMA TakenNext ==
  ASSUME TypeInv, SeenInv, UniqueInv, NEW H, History(H), NEW n \in 0 .. clock,
         Follows(H[n], n), NEW e \in todo, Take(e)
  PROVE  /\ e.timestamp_ns = n + 1 /\ n + 1 \in 0 .. clock
         /\ Effect(e, H[n], H[n + 1]) /\ PictureOK(H[n]) /\ PictureOK(H[n + 1])
<1>1. /\ e \in raw_events /\ e \in Emitted /\ e.timestamp_ns \in Nat /\ clock \in Nat /\ n \in Nat
      /\ e.timestamp_ns <= clock /\ phase = "process" /\ e.timestamp_ns > n
      /\ Done = raw_events \ todo
  BY DEF Take, TypeInv, TableInv, TypeOK, EventsInv, RawEvent, ClockInv, SeenInv, Emitted, Follows,
         Done
<1>2. n + 1 \in 1 .. clock
  BY <1>1
<1>3. PICK d \in Emitted : d.timestamp_ns = n + 1 /\ d.kind # "rename_source"
  BY <1>2 DEF History
<1>4. d \in raw_events
  <2>1. CASE d \in ring
    BY <1>1, <1>3, <2>1 DEF UniqueInv
  <2>. QED  BY <2>1 DEF Emitted
<1>5. d \in todo
  BY <1>1, <1>3, <1>4 DEF Follows
<1>6. e.timestamp_ns <= d.timestamp_ns
  BY <1>5 DEF Take
<1>7. e.timestamp_ns = n + 1
  BY <1>1, <1>3, <1>6
<1>8. Effect(e, H[n], H[n + 1])
  <2>1. Effect(e, H[e.timestamp_ns - 1], H[e.timestamp_ns])
    BY <1>1 DEF History
  <2>2. (n + 1) - 1 = n
    BY <1>1
  <2>. QED  BY <1>7, <2>1, <2>2
<1>9. n + 1 \in 0 .. clock
  BY <1>1, <1>2
<1>. QED
  BY <1>7, <1>8, <1>9 DEF History

\* The files of a rename: one half may be left in todo only if it is the
\* destination.
LEMMA NextTaken ==
  ASSUME TypeInv, SeenInv, UniqueInv, PendingInv, NEW n \in 0 .. clock, NEW s,
         Follows(s, n), NEW e \in todo, process_event(e), malformed_events' = 0,
         e.timestamp_ns = n + 1, e.kind # "rename_source"
  PROVE  /\ \A d \in todo' : d.timestamp_ns > n + 1
         /\ \A d \in Done' : d.timestamp_ns <= n + 1
<1>1. /\ Take(e) /\ phase = "process" /\ Done = raw_events \ todo /\ Done' = Done \cup {e}
      /\ todo' = todo \ {e} /\ n \in Nat /\ malformed_events \in Nat /\ todo \subseteq raw_events
  BY DoneStep DEF Take, TypeInv, ClockInv, TableInv, TypeOK
<1>2. \A d \in raw_events : d.timestamp_ns \in Nat /\ d \in Emitted
  BY DEF TypeInv, EventsInv, RawEvent, Emitted
<1>3. \A d \in Done' : d.timestamp_ns <= n + 1
  <2>1. \A d \in Done : d.timestamp_ns <= n \/ d.timestamp_ns = n + 1
    BY DEF Follows
  <2>. QED  BY <1>1, <1>2, <2>1
<1>4. ASSUME NEW d \in todo', ~(d.timestamp_ns > n + 1) PROVE FALSE
  <2>1. d \in todo /\ d # e /\ d.timestamp_ns = e.timestamp_ns
    BY <1>1, <1>2, <1>4 DEF Follows
  <2>2. /\ e.kind = "rename_destination" /\ d.kind = "rename_source"
    BY <1>1, <1>2, <2>1 DEF UniqueInv, Halves
  <2>3. ~RejectRenameDestination(e)
    BY <1>1 DEF RejectRenameDestination, Malformed
  <2>4. <<e.pid, e.timestamp_ns>> \in DOMAIN pending_renames
    BY <2>2, <2>3 DEF process_event, ProcessOpen, ProcessClose, ProcessMmap, ProcessUnlink,
           ProcessRenameSource, ProcessRenameDestination, SwallowRootExec, ProcessExec,
           ProcessFork, ProcessExit
  <2>5. PICK x \in Done : x.kind = "rename_source"
                          /\ <<e.pid, e.timestamp_ns>> = <<x.pid, x.timestamp_ns>>
    BY <2>4 DEF PendingInv
  <2>6. x = d
    BY <1>1, <1>2, <2>1, <2>2, <2>5 DEF UniqueInv
  <2>. QED
    BY <1>1, <2>1, <2>5, <2>6
<1>. QED
  BY <1>3, <1>4

\* Where the descriptors stay, the names do, too.
LEMMA MatchSame ==
  ASSUME NEW e, process_event(e), e.kind # "fork", fd_table' = fd_table, NEW s, NEW r, Match(s),
         PictureOK(s), r.lead \subseteq s.lead, r.at = s.at,
         \A p \in r.lead : r.ofd[p] = s.ofd[p],
         \A f \in Files : r.linked[f] => s.linked[f]
  PROVE  Match(r)'
<1>1. SUFFICES ASSUME NEW p \in r.lead
               PROVE  /\ p \in DOMAIN current_processes'
                      /\ \A fd \in Fds :
                           LET key == <<current_processes'[p].lifetime, fd>>
                               f == r.ofd[p][fd]
                           IN  /\ key \in DOMAIN fd_table' <=> f # None
                               /\ f # None => "path" \in DOMAIN fd_table'[key]
                               /\ f # None /\ r.linked[f] => fd_table'[key].path = r.at[f]
  BY DEF Match
<1>2. p \in s.lead /\ p \in DOMAIN current_processes
  BY <1>1 DEF Match
<1>3. /\ p \in DOMAIN current_processes'
      /\ current_processes'[p].lifetime = current_processes[p].lifetime
  BY <1>2, LifetimeKept
<1>4. \A fd \in Fds : s.ofd[p][fd] # None => s.ofd[p][fd] \in Files
  BY <1>2 DEF PictureOK
<1>. QED
  BY <1>1, <1>2, <1>3, <1>4 DEF Match

\* The process of a taken event is the one in current_processes, and its
\* lifetime stays.
LEMMA ProcessKept ==
  ASSUME TypeInv, NEW e, process_event(e), NEW s, Match(s), NEW p \in s.lead,
         e.kind = "fork" => e.payload.child # p
  PROVE  /\ p \in DOMAIN current_processes /\ p \in DOMAIN current_processes'
         /\ current_process(p) = current_processes[p]
         /\ current_processes'[p].lifetime = current_processes[p].lifetime
         /\ current_processes[p].lifetime.pid = p
<1>1. p \in DOMAIN current_processes
  BY DEF Match
<1>. QED
  BY <1>1, LifetimeKept DEF current_process, TypeInv, TableInv, TypeOK

\* An open files the descriptor under the path it has in the picture.
LEMMA MatchOpen ==
  ASSUME Stationary, TypeInv, TreeInv, AllHome, NamesInv, NEW e \in todo, ProcessOpen(e),
         NEW s, NEW r, Match(s), PictureOK(s), Effect(e, s, r)
  PROVE  Match(r)'
<1>0. /\ process_event(e) /\ e.kind = "open" /\ RawEvent(e) /\ Operands(e) /\ e.source = "tree"
      /\ TasksInv /\ TableInv
  BY DoneStep DEF process_event, ProcessOpen, TypeInv, NamesInv, TreeInv, Emitted
<1>1. OpenEffect(e, s, r) /\ e.tgid \in s.lead
  BY <1>0 DEF Effect
<1>2. /\ current_process(e.tgid) = current_processes[e.tgid]
      /\ current_process(e.tgid).lifetime.pid = e.tgid /\ e.tgid \in Pids
      /\ e.payload.fd \in Fds
  BY <1>0, <1>1, ProcessKept DEF RawEvent
<1>3. resolve_path(current_process(e.tgid), e.payload.style, Decoded(e.payload.raw))
        = e.payload.path
  BY <1>0, <1>2, ResolvedHome DEF Operands, Decoded, Stationary
<1>. DEFINE key == <<current_processes[e.tgid].lifetime, e.payload.fd>>
<1>4. \E v : /\ fd_table' = Put(fd_table, key, v)
            /\ v.path = e.payload.path /\ "path" \in DOMAIN v
  <2>. DEFINE v(h, o) == [[path |-> e.payload.path, handle |-> h, write |-> e.payload.mode # "r",
                           open_observation |-> NotObserved] EXCEPT !.open_observation = o]
  <2>1. \E h, o : fd_table' = Put(fd_table, key, v(h, o))
    BY <1>0, <1>2, <1>3 DEF ProcessOpen, Stationary
  <2>2. \A h, o : v(h, o).path = e.payload.path /\ "path" \in DOMAIN v(h, o)
    OBVIOUS
  <2>. QED  BY <2>1, <2>2
<1>5. /\ DOMAIN fd_table' = DOMAIN fd_table \cup {key}
      /\ fd_table'[key].path = e.payload.path /\ "path" \in DOMAIN fd_table'[key]
      /\ \A k \in DOMAIN fd_table : k # key => fd_table'[k] = fd_table[k]
  BY <1>4 DEF Put
<1>6. SUFFICES ASSUME NEW p \in r.lead
               PROVE  /\ p \in DOMAIN current_processes'
                      /\ \A fd \in Fds :
                           LET k == <<current_processes'[p].lifetime, fd>>
                               f == r.ofd[p][fd]
                           IN  /\ k \in DOMAIN fd_table' <=> f # None
                               /\ f # None => "path" \in DOMAIN fd_table'[k]
                               /\ f # None /\ r.linked[f] => fd_table'[k].path = r.at[f]
  BY DEF Match
<1>7. p \in s.lead
  BY <1>1, <1>6 DEF OpenEffect, SetsFd
<1>8. /\ p \in DOMAIN current_processes'
      /\ current_processes'[p].lifetime = current_processes[p].lifetime
      /\ current_processes[p].lifetime.pid = p
  BY <1>0, <1>7, ProcessKept
<1>9. ASSUME NEW fd \in Fds
      PROVE  LET k == <<current_processes[p].lifetime, fd>>
                 f == r.ofd[p][fd]
             IN  /\ k \in DOMAIN fd_table' <=> f # None
                 /\ f # None => "path" \in DOMAIN fd_table'[k]
                 /\ f # None /\ r.linked[f] => fd_table'[k].path = r.at[f]
  <2>. DEFINE k == <<current_processes[p].lifetime, fd>>
              f == s.ofd[p][fd]
              g == e.payload.file
  <2>1. CASE p = e.tgid /\ fd = e.payload.fd
    <3>1. k = key /\ r.ofd[p][fd] = g /\ g # None /\ r.at[g] = e.payload.path
      BY <1>1, <1>7, <2>1, WorldConstantsOK DEF OpenEffect, SetsFd
    <3>. QED  BY <1>5, <3>1
  <2>2. CASE ~(p = e.tgid /\ fd = e.payload.fd)
    <3>1. r.ofd[p][fd] = f
      BY <1>1, <1>7, <2>2 DEF OpenEffect, SetsFd
    <3>2. k # key
      BY <1>2, <1>8, <2>2
    <3>3. /\ k \in DOMAIN fd_table' <=> f # None
          /\ f # None => "path" \in DOMAIN fd_table'[k]
      BY <1>5, <1>7, <3>2 DEF Match
    <3>4. ASSUME f # None, r.linked[f] PROVE fd_table'[k].path = r.at[f]
      <4>1. f \in Files
        BY <1>7, <3>4 DEF PictureOK
      <4>2. s.linked[f] /\ r.at[f] = s.at[f]
        BY <1>1, <1>7, <3>4, <4>1 DEF OpenEffect
      <4>. QED  BY <1>5, <1>7, <3>2, <3>4, <4>2 DEF Match
    <3>. QED  BY <3>1, <3>3, <3>4
  <2>. QED  BY <2>1, <2>2
<1>. QED
  BY <1>8, <1>9

\* A close removes the descriptor from the table and from the picture.
LEMMA MatchClose ==
  ASSUME TypeInv, TreeInv, NamesInv, NEW e \in todo, ProcessClose(e),
         NEW s, NEW r, Match(s), PictureOK(s), Effect(e, s, r)
  PROVE  Match(r)'
<1>0. /\ process_event(e) /\ e.kind = "close" /\ RawEvent(e) /\ Operands(e)
  BY DoneStep DEF process_event, ProcessClose, TypeInv, NamesInv, Emitted
<1>1. SetsFd(e, None, s, r) /\ SameFiles(s, r) /\ e.tgid \in s.lead
  BY <1>0 DEF Effect
<1>2. /\ current_process(e.tgid) = current_processes[e.tgid]
      /\ current_process(e.tgid).lifetime.pid = e.tgid /\ e.payload.fd \in Fds
  BY <1>0, <1>1, ProcessKept DEF Operands
<1>. DEFINE key == <<current_processes[e.tgid].lifetime, e.payload.fd>>
<1>3. fd_table' = Delete(fd_table, key)
  BY <1>2 DEF ProcessClose
<1>4. /\ DOMAIN fd_table' = DOMAIN fd_table \ {key}
      /\ \A k \in DOMAIN fd_table : k # key => fd_table'[k] = fd_table[k]
  BY <1>3 DEF Delete, Restrict
<1>6. SUFFICES ASSUME NEW p \in r.lead
               PROVE  /\ p \in DOMAIN current_processes'
                      /\ \A fd \in Fds :
                           LET k == <<current_processes'[p].lifetime, fd>>
                               f == r.ofd[p][fd]
                           IN  /\ k \in DOMAIN fd_table' <=> f # None
                               /\ f # None => "path" \in DOMAIN fd_table'[k]
                               /\ f # None /\ r.linked[f] => fd_table'[k].path = r.at[f]
  BY DEF Match
<1>7. p \in s.lead
  BY <1>1, <1>6 DEF SetsFd
<1>8. /\ p \in DOMAIN current_processes'
      /\ current_processes'[p].lifetime = current_processes[p].lifetime
      /\ current_processes[p].lifetime.pid = p
  BY <1>0, <1>7, ProcessKept
<1>9. ASSUME NEW fd \in Fds
      PROVE  LET k == <<current_processes[p].lifetime, fd>>
                 f == r.ofd[p][fd]
             IN  /\ k \in DOMAIN fd_table' <=> f # None
                 /\ f # None => "path" \in DOMAIN fd_table'[k]
                 /\ f # None /\ r.linked[f] => fd_table'[k].path = r.at[f]
  <2>. DEFINE k == <<current_processes[p].lifetime, fd>>
              f == s.ofd[p][fd]
  <2>1. CASE p = e.tgid /\ fd = e.payload.fd
    <3>1. k = key /\ r.ofd[p][fd] = None
      BY <1>1, <1>7, <2>1 DEF SetsFd
    <3>. QED  BY <1>4, <3>1
  <2>2. CASE ~(p = e.tgid /\ fd = e.payload.fd)
    <3>1. r.ofd[p][fd] = f /\ r.at = s.at /\ r.linked = s.linked
      BY <1>1, <1>7, <2>2 DEF SetsFd, SameFiles
    <3>2. k # key
      BY <1>2, <1>8, <2>2
    <3>. QED  BY <1>4, <1>7, <3>1, <3>2 DEF Match
  <2>. QED  BY <2>1, <2>2
<1>. QED
  BY <1>8, <1>9

\* A rename that is processed has its two halves together.
LEMMA RenamePaths ==
  ASSUME Stationary, TypeInv, TreeInv, AllHome, NamesInv, PendingInv, NEW e \in todo,
         ProcessRenameDestination(e)
  PROVE  LET key == <<e.pid, e.timestamp_ns>>
             pending == pending_renames[key]
         IN  /\ pending.from = e.payload.from
             /\ resolve_path(pending.process, e.payload.style, e.payload.raw) = e.payload.path
             /\ pending.exchange = e.payload.exchange
             /\ ~FilteredRename(pending.external \/ e.source = "ext", pending.from,
                   resolve_path(pending.process, e.payload.style, e.payload.raw))
<1>. DEFINE key == <<e.pid, e.timestamp_ns>>
            pending == pending_renames[key]
<1>0. /\ e.kind = "rename_destination" /\ key \in DOMAIN pending_renames
      /\ RawEvent(e) /\ Operands(e) /\ e.source = "tree" /\ e \in Emitted /\ TasksInv
  BY DoneStep DEF process_event, ProcessRenameDestination, TypeInv, NamesInv, TreeInv, Emitted
<1>1. PICK s \in Done :
         /\ s.kind = "rename_source" /\ key = <<s.pid, s.timestamp_ns>>
         /\ pending.external <=> s.source = "ext"
         /\ pending.from = s.payload.from
         /\ pending.exchange = s.payload.exchange
  BY <1>0 DEF PendingInv
<1>2. s \in Emitted /\ s.source = "tree"
  BY DEF Done, Emitted, TreeInv
<1>3. s.payload.from = e.payload.from /\ s.payload.exchange = e.payload.exchange
  BY <1>0, <1>1, <1>2 DEF NamesInv, Pair
<1>4. resolve_path(pending.process, e.payload.style, e.payload.raw) = e.payload.path
  BY <1>0, ResolvedHome DEF Operands, PendingInv
<1>5. ~(pending.external \/ e.source = "ext")
  BY <1>0, <1>1, <1>2
<1>. QED
  BY <1>1, <1>3, <1>4, <1>5 DEF FilteredRename

\* A rename rewrites the filed paths as it moved the files.
LEMMA MatchRename ==
  ASSUME Stationary, TypeInv, TreeInv, AllHome, NamesInv, PendingInv, NEW e \in todo,
         ProcessRenameDestination(e), NEW s, NEW r, Match(s), PictureOK(s), Effect(e, s, r)
  PROVE  Match(r)'
<1>0. process_event(e) /\ e.kind = "rename_destination"
  BY DEF process_event, ProcessRenameDestination
<1>1. RenameEffect(e, s, r)
  BY <1>0 DEF Effect, Halves
<1>2. fd_table' = rewrite_open_file_paths(e.payload.from, e.payload.path, e.payload.exchange)
  <2>. DEFINE pending == pending_renames[<<e.pid, e.timestamp_ns>>]
              to == resolve_path(pending.process, e.payload.style, e.payload.raw)
  <2>1. /\ pending.from = e.payload.from /\ to = e.payload.path
        /\ pending.exchange = e.payload.exchange
        /\ ~FilteredRename(pending.external \/ e.source = "ext", pending.from, to)
    BY RenamePaths
  <2>2. ~FilteredRename(pending.external \/ e.source = "ext", pending.from, to)
         => fd_table' = rewrite_open_file_paths(pending.from, to, pending.exchange)
    BY DEF ProcessRenameDestination
  <2>. HIDE DEF pending, to
  <2>. QED  BY <2>1, <2>2
<1>3. DOMAIN fd_table' = DOMAIN fd_table
  BY <1>2 DEF rewrite_open_file_paths
<1>4. SUFFICES ASSUME NEW p \in r.lead
               PROVE  /\ p \in DOMAIN current_processes'
                      /\ \A fd \in Fds :
                           LET k == <<current_processes'[p].lifetime, fd>>
                               f == r.ofd[p][fd]
                           IN  /\ k \in DOMAIN fd_table' <=> f # None
                               /\ f # None => "path" \in DOMAIN fd_table'[k]
                               /\ f # None /\ r.linked[f] => fd_table'[k].path = r.at[f]
  BY DEF Match
<1>5. p \in s.lead /\ r.ofd[p] = s.ofd[p]
  BY <1>1, <1>4 DEF RenameEffect, SameFds
<1>6. /\ p \in DOMAIN current_processes'
      /\ current_processes'[p].lifetime = current_processes[p].lifetime
  BY <1>0, <1>5, ProcessKept
<1>7. ASSUME NEW fd \in Fds
      PROVE  LET k == <<current_processes[p].lifetime, fd>>
                 f == s.ofd[p][fd]
             IN  /\ k \in DOMAIN fd_table' <=> f # None
                 /\ f # None => "path" \in DOMAIN fd_table'[k]
                 /\ f # None /\ r.linked[f] => fd_table'[k].path = r.at[f]
  <2>. DEFINE k == <<current_processes[p].lifetime, fd>>
              f == s.ofd[p][fd]
  <2>1. /\ k \in DOMAIN fd_table' <=> f # None
        /\ f # None => "path" \in DOMAIN fd_table'[k]
    <3>1. /\ k \in DOMAIN fd_table <=> f # None
          /\ f # None => "path" \in DOMAIN fd_table[k]
      BY <1>5 DEF Match
    <3>. QED  BY <1>2, <1>3, <3>1 DEF rewrite_open_file_paths
  <2>2. ASSUME f # None, r.linked[f] PROVE fd_table'[k].path = r.at[f]
    <3>1. f \in Files
      BY <1>5, <2>2 DEF PictureOK
    <3>2. s.linked[f] /\ r.at[f] = rewrite_path(s.at[f], e.payload.from, e.payload.path,
                                                e.payload.exchange)
      BY <1>1, <2>2, <3>1 DEF RenameEffect
    <3>3. k \in DOMAIN fd_table /\ fd_table[k].path = s.at[f]
      BY <1>5, <2>2, <3>2 DEF Match
    <3>4. "path" \in DOMAIN fd_table[k]
      BY <1>5, <2>2 DEF Match
    <3>5. fd_table'[k].path = rewrite_path(fd_table[k].path, e.payload.from, e.payload.path,
                                           e.payload.exchange)
      BY <1>2, <3>3, <3>4 DEF rewrite_open_file_paths
    <3>. QED  BY <3>2, <3>3, <3>5
  <2>. QED  BY <2>1, <2>2
<1>. QED
  BY <1>5, <1>6, <1>7

\* The lifetime of a child is not in fd_table yet.
LEMMA ChildFresh ==
  ASSUME TypeInv, SeenInv, LifeInv, FreshInv, Wide, NEW c \in Pids, NEW k \in DOMAIN fd_table
  PROVE  k[1] # new_process(c).lifetime
<1>1. next_generation(c) \in Nat /\ next_generation(c) < MaxGeneration
  BY NotSaturated
<1>2. /\ new_process(c).lifetime.pid = c
      /\ new_process(c).lifetime.generation = next_generation(c)
  BY DEF new_process, Process, Lifetime
<1>3. Used(next_generations, k[1])
  BY DEF FreshInv
<1>. QED
  BY <1>1, <1>2, <1>3, CollectorConstantsOK DEF Used, NextOf, next_generation

\* A fork files for the child the descriptors it inherits in the picture.
LEMMA MatchFork ==
  ASSUME TypeInv, SeenInv, LifeInv, FreshInv, Wide, NEW e \in todo, ProcessFork(e),
         NEW s, NEW r, Match(s), PictureOK(s), Effect(e, s, r)
  PROVE  Match(r)'
<1>. DEFINE c == e.payload.child
            child == new_process(c)
            parent == current_processes[e.tgid]
<1>0. process_event(e) /\ e.kind = "fork" /\ RawEvent(e)
  BY DoneStep DEF process_event, ProcessFork
<1>1. ForkEffect(e, s, r) /\ e.tgid \in s.lead /\ c \in Pids /\ c \notin s.lead
  BY <1>0 DEF Effect, ForkEffect, Halves, RawEvent
<1>2. current_process(e.tgid) = parent
  BY <1>0, <1>1, ProcessKept
<1>3. fd_table' = Inherited(parent.lifetime, child.lifetime)
  BY <1>2 DEF ProcessFork
<1>4. c \in DOMAIN current_processes' /\ current_processes'[c] = child
  <2>1. current_processes' = Put(Put(current_processes, e.tgid, current_process(e.tgid)), c, child)
    BY DEF ProcessFork
  <2>. HIDE DEF child
  <2>. QED  BY <2>1 DEF Put
<1>5. child.lifetime.pid = c /\ \A k \in DOMAIN fd_table : k[1] # child.lifetime
  BY <1>1, ChildFresh DEF new_process, Process, Lifetime
<1>. HIDE DEF child, parent
<1>6. /\ \A fd \in Fds : <<child.lifetime, fd>> \in DOMAIN fd_table'
                           <=> <<parent.lifetime, fd>> \in DOMAIN fd_table
      /\ \A fd \in Fds : <<child.lifetime, fd>> \in DOMAIN fd_table' =>
           fd_table'[<<child.lifetime, fd>>] = fd_table[<<parent.lifetime, fd>>]
      /\ \A l, fd : l # child.lifetime =>
           /\ <<l, fd>> \in DOMAIN fd_table' <=> <<l, fd>> \in DOMAIN fd_table
           /\ <<l, fd>> \in DOMAIN fd_table => fd_table'[<<l, fd>>] = fd_table[<<l, fd>>]
  <2>. DEFINE fds == {fd \in Fds : <<parent.lifetime, fd>> \in DOMAIN fd_table}
  <2>1. /\ DOMAIN fd_table' = DOMAIN fd_table \cup ({child.lifetime} \X fds)
        /\ \A k \in DOMAIN fd_table' :
             fd_table'[k] = IF k \in {child.lifetime} \X fds THEN fd_table[<<parent.lifetime, k[2]>>]
                                                    ELSE fd_table[k]
    BY <1>3 DEF Inherited
  <2>2. \A fd : <<child.lifetime, fd>> \notin DOMAIN fd_table
    BY <1>5
  <2>3. \A l, fd : <<l, fd>> \in {child.lifetime} \X fds <=> l = child.lifetime /\ fd \in fds
    OBVIOUS
  <2>4. \A fd \in Fds : fd \in fds <=> <<parent.lifetime, fd>> \in DOMAIN fd_table
    OBVIOUS
  <2>. HIDE DEF fds
  <2>5. \A l, fd : <<l, fd>> \in DOMAIN fd_table' <=>
                     <<l, fd>> \in DOMAIN fd_table \/ (l = child.lifetime /\ fd \in fds)
    BY <2>1, <2>3
  <2>6. \A fd \in fds : fd_table'[<<child.lifetime, fd>>] = fd_table[<<parent.lifetime, fd>>]
    BY <2>1, <2>3, <2>5
  <2>7. \A l, fd : l # child.lifetime /\ <<l, fd>> \in DOMAIN fd_table =>
                     fd_table'[<<l, fd>>] = fd_table[<<l, fd>>]
    BY <2>1, <2>3, <2>5
  <2>. QED
    BY <2>2, <2>4, <2>5, <2>6, <2>7
<1>7. SUFFICES ASSUME NEW p \in r.lead
               PROVE  /\ p \in DOMAIN current_processes'
                      /\ \A fd \in Fds :
                           LET k == <<current_processes'[p].lifetime, fd>>
                               f == r.ofd[p][fd]
                           IN  /\ k \in DOMAIN fd_table' <=> f # None
                               /\ f # None => "path" \in DOMAIN fd_table'[k]
                               /\ f # None /\ r.linked[f] => fd_table'[k].path = r.at[f]
  BY DEF Match
<1>8. r.at = s.at /\ r.linked = s.linked
  BY <1>1 DEF ForkEffect, SameFiles
<1>9. CASE p \in s.lead
  <2>1. r.ofd[p] = s.ofd[p] /\ p # c
    BY <1>1, <1>9 DEF ForkEffect
  <2>2. /\ p \in DOMAIN current_processes'
        /\ current_processes'[p].lifetime = current_processes[p].lifetime
        /\ current_processes[p].lifetime.pid = p
    BY <1>0, <1>9, <2>1, ProcessKept
  <2>3. current_processes[p].lifetime # child.lifetime
    BY <1>5, <2>1, <2>2
  <2>. HIDE DEF c
  <2>. QED
    BY <1>6, <1>8, <1>9, <2>1, <2>2, <2>3 DEF Match
<1>10. CASE p \notin s.lead
  <2>1. p = c /\ r.ofd[p] = s.ofd[e.tgid]
    BY <1>1, <1>7, <1>10 DEF ForkEffect
  <2>2. \A fd \in Fds :
          LET k == <<parent.lifetime, fd>>
              f == s.ofd[e.tgid][fd]
          IN  /\ k \in DOMAIN fd_table <=> f # None
              /\ f # None => "path" \in DOMAIN fd_table[k]
              /\ f # None /\ s.linked[f] => fd_table[k].path = s.at[f]
    BY <1>1 DEF Match, parent
  <2>. HIDE DEF c
  <2>. QED
    BY <1>4, <1>6, <1>8, <2>1, <2>2, ZenonT(60)
<1>. QED
  BY <1>9, <1>10

\* process_event leads from one picture to the next, unless it has seen only
\* the first half of a rename.
LEMMA FollowTaken ==
  ASSUME Stationary, Wide, TypeInv, SeenInv, LifeInv, FreshInv, TreeInv, AllHome, NamesInv,
         PendingInv, UniqueInv, NEW H, History(H), NEW n \in 0 .. clock, Follows(H[n], n),
         NEW e \in todo, process_event(e), malformed_events' = 0
  PROVE  \E m \in 0 .. clock : Follows(H[m], m)'
<1>0. /\ Take(e) /\ phase' = "process" /\ Done' = Done \cup {e} /\ todo' = todo \ {e} /\ RawEvent(e)
      /\ n \in Nat /\ malformed_events \in Nat /\ clock \in Nat
  BY DoneStep DEF Take, TypeInv, ClockInv, TableInv, TypeOK
<1>1. /\ e.timestamp_ns = n + 1 /\ n + 1 \in 0 .. clock
      /\ Effect(e, H[n], H[n + 1]) /\ PictureOK(H[n]) /\ PictureOK(H[n + 1])
  BY <1>0, TakenNext
<1>2. Match(H[n])
  BY DEF Follows
<1>3. ASSUME e.kind # "rename_source", Match(H[n + 1])'
      PROVE  Follows(H[n + 1], n + 1)'
  BY <1>0, <1>1, <1>3, NextTaken DEF Follows
<1>4. CASE e.kind = "rename_source"
  <2>1. fd_table' = fd_table
    BY <1>4 DEF process_event, ProcessOpen, ProcessClose, ProcessMmap, ProcessUnlink,
           ProcessRenameSource, ProcessRenameDestination, RejectRenameDestination,
           SwallowRootExec, ProcessExec, ProcessFork, ProcessExit
  <2>2. Match(H[n])'
    BY <1>1, <1>2, <1>4, <2>1, MatchSame
  <2>3. Follows(H[n], n)'
    BY <1>0, <1>1, <1>4, <2>2 DEF Follows
  <2>. QED  BY <2>3
<1>5. CASE e.kind \in {"mmap", "unlink", "exec", "exit"}
  <2>1. fd_table' = fd_table
    BY <1>5 DEF process_event, ProcessOpen, ProcessClose, ProcessMmap, ProcessUnlink,
           ProcessRenameSource, ProcessRenameDestination, RejectRenameDestination,
           SwallowRootExec, ProcessExec, ProcessFork, ProcessExit, tableVars
  <2>. DEFINE s == H[n]
              r == H[n + 1]
  <2>. HIDE DEF s, r
  <2>2. /\ r.lead \subseteq s.lead /\ r.at = s.at
        /\ \A p \in r.lead : r.ofd[p] = s.ofd[p]
        /\ \A f \in Files : r.linked[f] => s.linked[f]
    BY <1>1, <1>5 DEF Effect, SameFds, SameFiles, s, r
  <2>3. Match(r)'
    BY <1>1, <1>2, <1>5, <2>1, <2>2, MatchSame DEF s, r
  <2>. QED  BY <1>1, <1>3, <1>5, <2>3 DEF r
<1>6. CASE ProcessOpen(e) \/ ProcessClose(e) \/ ProcessRenameDestination(e) \/ ProcessFork(e)
  <2>1. Match(H[n + 1])'
    BY <1>1, <1>2, <1>6, MatchOpen, MatchClose, MatchRename, MatchFork
  <2>2. e.kind # "rename_source"
    BY <1>6 DEF ProcessOpen, ProcessClose, ProcessRenameDestination, ProcessFork
  <2>. QED  BY <1>1, <1>3, <2>1, <2>2
<1>7. ~RejectRenameDestination(e)
  BY <1>0 DEF RejectRenameDestination, Malformed
<1>8. \/ e.kind = "rename_source"
      \/ e.kind \in {"mmap", "unlink", "exec", "exit"}
      \/ ProcessOpen(e) \/ ProcessClose(e) \/ ProcessRenameDestination(e) \/ ProcessFork(e)
  BY <1>7 DEF process_event, ProcessMmap, ProcessUnlink,
           ProcessRenameSource, SwallowRootExec, ProcessExec, ProcessExit
<1>. QED
  BY <1>4, <1>5, <1>6, <1>8
-----------------------------------------------------------------------------
(* What is reported.                                                       *)

\* Result x names its files as they were called; see PathsTruthful.
Told(x) ==
  LET truth == x.of.payload
  IN  \/ x.kind \in {"fork", "exit"}
      \/ truth.path \in BadNames
      \/ x.kind \in {"close", "mmap"} /\ (truth.nameless \/ x.path = truth.path)
      \/ x.kind \in {"open", "unlink", "exec"} /\ x.path = truth.path
      \/ /\ x.kind = "rename"
         /\ \/ x.from = truth.from /\ x.path = truth.path
            \/ truth.exchange /\ x.from = truth.path /\ x.path = truth.from

ToldInv == malformed_events = 0 => \A x \in Reported : Told(x)

\* A push adds one result and no other.
LEMMA PushOnly ==
  ASSUME IsSeq(events), NEW y, Push(y), NEW x \in Reported'
  PROVE  x \in Reported \/ x = y
<1>1. events' = Append(events, y)
  BY DEF Push
<1>2. PICK i \in DOMAIN events' : x = events'[i] /\ "of" \in DOMAIN x
  BY DEF Reported
<1>3. /\ DOMAIN events' = DOMAIN events \cup {Len(events) + 1}
      /\ \A j \in DOMAIN events : events'[j] = events[j]
      /\ events'[Len(events) + 1] = y
  BY <1>1, Appended
<1>. QED
  BY <1>2, <1>3 DEF Reported

\* A result is truthful if its path is the one its event was caused with.
LEMMA TracedTold ==
  ASSUME NEW kind, NEW e, NEW process, NEW path, NEW observation,
         NEW x, x = Traced(kind, e, process, path, observation),
         \/ kind \in {"open", "unlink", "exec"} /\ path = e.payload.path
         \/ kind \in {"close", "mmap"} /\ (e.payload.nameless \/ path = e.payload.path)
  PROVE  Told(x)
<1>1. x.kind = kind /\ x.path = path /\ x.of = e
  BY DEF Traced
<1>. QED
  BY <1>1 DEF Told

\* What fd_table has for a descriptor is what its event tells.
LEMMA FdTold ==
  ASSUME TypeInv, NamesInv, NEW e \in Emitted, e.kind \in {"close", "mmap"}, process_event(e),
         NEW s, NEW r, Match(s), Effect(e, s, r)
  PROVE  LET key == <<current_process(e.tgid).lifetime, e.payload.fd>>
             path == IF key \in DOMAIN fd_table THEN fd_table[key].path ELSE NoPath
         IN  e.payload.nameless \/ path = e.payload.path
<1>1. e.tgid \in s.lead /\ TellsName(e, s) /\ e.payload.fd \in Fds
  BY DEF Effect, NamesInv, Operands
<1>2. current_process(e.tgid) = current_processes[e.tgid]
  BY <1>1, ProcessKept
<1>. DEFINE key == <<current_process(e.tgid).lifetime, e.payload.fd>>
            f == s.ofd[e.tgid][e.payload.fd]
<1>3. /\ key \in DOMAIN fd_table <=> f # None
      /\ f # None /\ s.linked[f] => fd_table[key].path = s.at[f]
  BY <1>1, <1>2 DEF Match
<1>4. /\ f = None => e.payload.path = NoPath
      /\ f # None => e.payload.path = s.at[f] /\ e.payload.nameless = ~s.linked[f]
  BY <1>1 DEF TellsName
<1>. HIDE DEF key, f
<1>5. e.payload.nameless \/ (IF key \in DOMAIN fd_table THEN fd_table[key].path ELSE NoPath)
                              = e.payload.path
  BY <1>3, <1>4
<1>. QED  BY <1>5 DEF key

\* What processing an event reports is truthful, given tables that match the picture before it.
LEMMA TakenTold ==
  ASSUME Stationary, TypeInv, TreeInv, AllHome, NamesInv, PendingInv, IsSeq(events),
         NEW s, NEW r, Match(s), NEW e \in todo, process_event(e), Effect(e, s, r),
         NEW x \in Reported'
  PROVE  x \in Reported \/ Told(x)
<1>0. /\ RawEvent(e) /\ Operands(e) /\ e.source = "tree" /\ e \in Emitted /\ TasksInv
      /\ e.tgid \in s.lead
  BY DoneStep DEF TypeInv, NamesInv, TreeInv, Emitted, Effect
<1>1. /\ current_process(e.tgid).lifetime.pid = e.tgid /\ e.tgid \in Pids
  BY <1>0, KnownTyped DEF RawEvent, TypeInv
<1>2. \A raw : Decoded(raw) = raw /\ raw \notin BadNames
  BY DEF Decoded, Stationary
<1>3. CASE UNCHANGED events
  BY <1>3 DEF Reported
<1>4. CASE ProcessOpen(e)
  <2>1. resolve_path(current_process(e.tgid), e.payload.style, e.payload.raw) = e.payload.path
    BY <1>0, <1>1, <1>4, ResolvedHome DEF Operands, ProcessOpen
  <2>2. \E o : Push(Traced("open", e, current_process(e.tgid), e.payload.path, o))
    BY <1>0, <1>2, <1>4, <2>1 DEF ProcessOpen
  <2>. QED  BY <2>2, PushOnly, TracedTold
<1>5. CASE ProcessClose(e) \/ ProcessMmap(e)
  <2>. DEFINE key == <<current_process(e.tgid).lifetime, e.payload.fd>>
              path == IF key \in DOMAIN fd_table THEN fd_table[key].path ELSE NoPath
  <2>1. e.kind \in {"close", "mmap"}
    BY <1>5 DEF ProcessClose, ProcessMmap
  <2>2. e.payload.nameless \/ path = e.payload.path
    BY <1>0, <2>1, FdTold
  <2>3. \E o : Push(Traced(e.kind, e, current_process(e.tgid), path, o))
    BY <1>0, <1>5 DEF ProcessClose, ProcessMmap
  <2>. HIDE DEF path
  <2>. QED  BY <2>1, <2>2, <2>3, PushOnly, TracedTold
<1>6. CASE ProcessUnlink(e)
  <2>1. resolve_path(current_process(e.tgid), e.payload.style, e.payload.raw) = e.payload.path
    BY <1>0, <1>1, <1>6, ResolvedHome DEF Operands, ProcessUnlink
  <2>2. \E o : Push(Traced("unlink", e, current_process(e.tgid), e.payload.path, o))
    BY <1>0, <1>2, <1>6, <2>1 DEF ProcessUnlink
  <2>. QED  BY <2>2, PushOnly, TracedTold
<1>7. CASE ProcessExec(e)
  <2>. DEFINE process == next_epoch(current_process(e.tgid))
  <2>0. process.lifetime = current_process(e.tgid).lifetime
    BY DEF next_epoch
  <2>1. resolve_path(process, e.payload.style, e.payload.raw) = e.payload.path
    BY <1>0, <1>1, <1>7, <2>0, ResolvedHome DEF Operands, ProcessExec
  <2>2. \E o : Push(Traced("exec", e, process, e.payload.path, o))
    BY <1>7, <2>1 DEF ProcessExec
  <2>. QED  BY <2>2, PushOnly, TracedTold
<1>8. CASE ProcessFork(e) \/ ProcessExit(e)
  <2>1. \E y : Push(y) /\ y.kind \in {"fork", "exit"}
    <3>1. CASE ProcessFork(e)
      <4>1. Push([kind |-> "fork", process |-> current_process(e.tgid),
                  child |-> new_process(e.payload.child), of |-> e])
        BY <3>1 DEF ProcessFork
      <4>. QED  BY <4>1
    <3>2. CASE ProcessExit(e)
      <4>1. Push([kind |-> "exit", process |-> current_process(e.tgid),
                  exit_code |-> e.payload.exit_code, of |-> e])
        BY <3>2 DEF ProcessExit
      <4>. QED  BY <4>1
    <3>. QED  BY <1>8, <3>1, <3>2
  <2>. QED  BY <2>1, PushOnly DEF Told
<1>9. CASE ProcessRenameDestination(e)
  <2>. DEFINE pending == pending_renames[<<e.pid, e.timestamp_ns>>]
              to == resolve_path(pending.process, e.payload.style, e.payload.raw)
              external == pending.external \/ e.source = "ext"
              a == [kind |-> "rename", process |-> pending.process, path |-> to,
                    from |-> pending.from, external |-> external,
                    observation |-> observe_path(to), of |-> e]
              b == [kind |-> "rename", process |-> pending.process, path |-> pending.from,
                    from |-> to, external |-> external,
                    observation |-> observe_path(pending.from), of |-> e]
  <2>1. /\ pending.from = e.payload.from /\ to = e.payload.path
        /\ pending.exchange = e.payload.exchange
        /\ ~FilteredRename(external, pending.from, to)
    BY <1>9, RenamePaths
  <2>2. events' = events \o <<a>> \o (IF pending.exchange THEN <<b>> ELSE <<>>)
    BY <1>9, <2>1 DEF ProcessRenameDestination
  <2>3. Told(a) /\ (pending.exchange => Told(b))
    BY <2>1 DEF Told
  <2>. HIDE DEF a, b, pending
  <2>4. events \o <<a>> = Append(events, a) /\ IsSeq(Append(events, a))
    BY Appended
  <2>5. \A i \in DOMAIN events' : \/ i \in DOMAIN events /\ events'[i] = events[i]
                                  \/ events'[i] = a
                                  \/ pending.exchange /\ events'[i] = b
    <3>1. CASE pending.exchange
      <4>0. Append(events, a) \o <<b>> = Append(Append(events, a), b)
        BY <2>4, Appended
      <4>1. events' = Append(Append(events, a), b)
        BY <2>2, <2>4, <3>1, <4>0
      <4>2. \A i \in DOMAIN Append(events, a) : \/ i \in DOMAIN events
                                                   /\ Append(events, a)[i] = events[i]
                                                \/ Append(events, a)[i] = a
        BY Appended
      <4>. QED  BY <2>4, <3>1, <4>1, <4>2, Appended
    <3>2. CASE ~pending.exchange
      <4>1. events' = Append(events, a)
        BY <2>2, <2>4, <3>2, Appended
      <4>. QED  BY <4>1, Appended
    <3>. QED  BY <3>1, <3>2
  <2>6. PICK i \in DOMAIN events' : x = events'[i] /\ "of" \in DOMAIN x
    BY DEF Reported
  <2>. QED
    BY <2>3, <2>5, <2>6 DEF Reported
<1>10. CASE ProcessRenameSource(e) \/ RejectRenameDestination(e) \/ SwallowRootExec(e)
  BY <1>3, <1>10 DEF ProcessRenameSource, RejectRenameDestination, SwallowRootExec
<1>. QED
  BY <1>4, <1>5, <1>6, <1>7, <1>8, <1>9, <1>10 DEF process_event
-----------------------------------------------------------------------------
(* The inductive invariant.                                                *)

HistInv ==
  \E H : /\ History(H)
         /\ malformed_events = 0 /\ phase # "done" =>
              \E n \in 0 .. clock : Follows(H[n], n)

\* Malformed events are not forgotten, and a finished trace is finished.
LEMMA Accepting ==
  ASSUME TypeInv, [Next]_vars
  PROVE  /\ malformed_events' = 0 => malformed_events = 0
         /\ phase' # "done" => phase # "done"
<1>0. malformed_events \in Nat /\ IsFiniteSet(DOMAIN pending_renames)
  BY DEF TypeInv, TableInv, TypeOK
<1>1. ASSUME NEW e \in todo, process_event(e)
      PROVE  phase # "done" /\ malformed_events' \in {malformed_events, malformed_events + 1}
  <2>1. Take(e)
    BY <1>1, DoneStep
  <2>. QED
    BY <1>1, <2>1, MalformedOrNot DEF Take, Malformed, WellFormed
<1>2. CASE Finish
  <2>1. Cardinality(DOMAIN pending_renames) \in Nat
    BY <1>0, FS_CardinalityType
  <2>. QED  BY <1>0, <1>2, <2>1 DEF Finish
<1>3. CASE Drain \/ WaitPid \/ Quiesced
  BY <1>3 DEF Drain, WaitPid, Quiesced
<1>4. CASE UNCHANGED collectorVars
  BY <1>4 DEF collectorVars, bufferVars
<1>. QED
  BY <1>0, <1>1, <1>2, <1>3, <1>4 DEF Next, CollectorNext, vars

\* Steps that take no event leave the tables in line with the picture.
LEMMA FollowSame ==
  ASSUME NEW s, NEW n, Follows(s, n), UNCHANGED <<current_processes, fd_table>>,
         phase' \in {"collect", "quiesce"} => n = 0,
         Done' \subseteq Done,
         \A e \in todo' : e.timestamp_ns > n
  PROVE  Follows(s, n)'
BY DEF Follows, Match

\* After every step there is a picture that the tables follow.
LEMMA FollowStep ==
  ASSUME Stationary, Wide, TypeInv, SeenInv, LifeInv, FreshInv, TreeInv, AllHome, NamesInv,
         PendingInv, UniqueInv, [Next]_vars, NEW H, History(H), NEW n \in 0 .. clock,
         Follows(H[n], n), malformed_events' = 0, phase' # "done"
  PROVE  \E m \in 0 .. clock : Follows(H[m], m)'
<1>1. ASSUME NEW e \in todo, process_event(e)
      PROVE  \E m \in 0 .. clock : Follows(H[m], m)'
  BY <1>1, FollowTaken
<1>2. CASE Drain \/ WaitPid
  <2>1. /\ UNCHANGED <<todo, current_processes, fd_table>> /\ phase \in {"collect", "quiesce"}
        /\ Done' = {}
    BY <1>2 DEF Drain, WaitPid, processVars, tableVars, Done
  <2>2. Follows(H[n], n)'
    BY <2>1, FollowSame DEF Follows
  <2>. QED  BY <2>2
<1>3. CASE Quiesced
  <2>1. /\ UNCHANGED <<current_processes, fd_table, raw_events>> /\ phase = "quiesce"
        /\ phase' = "process" /\ todo' = raw_events /\ Done' = {}
    BY <1>3 DEF Quiesced, processVars, tableVars, Done
  <2>2. \A e \in raw_events : e.timestamp_ns > 0
    BY DEF SeenInv, Emitted
  <2>3. n = 0
    BY <2>1 DEF Follows
  <2>4. Follows(H[n], n)'
    BY <2>1, <2>2, <2>3, FollowSame
  <2>. QED  BY <2>4
<1>4. CASE UNCHANGED collectorVars
  <2>1. UNCHANGED <<phase, todo, raw_events, current_processes, fd_table>> /\ Done' = Done
    BY <1>4 DEF collectorVars, bufferVars, processVars, tableVars, Done
  <2>2. Follows(H[n], n)'
    BY <2>1, FollowSame DEF Follows
  <2>. QED  BY <2>2
<1>5. ~Finish
  BY DEF Finish
<1>. QED
  BY <1>1, <1>2, <1>3, <1>4, <1>5 DEF Next, CollectorNext, vars

\* There is a history, and the tables are in line with one of its pictures, after every step.
LEMMA HistStep ==
  ASSUME Stationary, Wide, ~Ties, Unwatched, TypeInv, SeenInv, LifeInv, FreshInv, TreeInv,
         FilesInv, FilesInv', AllHome, NamesInv, PendingInv, UniqueInv, HistInv, [Next]_vars
  PROVE  HistInv'
<1>1. PICK H : /\ History(H)
               /\ malformed_events = 0 /\ phase # "done" =>
                    \E n \in 0 .. clock : Follows(H[n], n)
  BY DEF HistInv
<1>2. PICK G : History(G)' /\ \A n \in 0 .. clock : G[n] = H[n]
  BY <1>1, HistoryStep
<1>3. clock \in Nat /\ clock' \in Nat /\ clock' >= clock
  BY ClockStep DEF TypeInv, ClockInv
<1>4. ASSUME malformed_events' = 0, phase' # "done"
      PROVE  \E m \in 0 .. clock' : Follows(G[m], m)'
  <2>1. PICK n \in 0 .. clock : Follows(H[n], n)
    BY <1>1, <1>4, Accepting
  <2>2. PICK m \in 0 .. clock : Follows(H[m], m)'
    BY <1>1, <1>4, <2>1, FollowStep
  <2>3. G[m] = H[m] /\ m \in 0 .. clock'
    BY <1>2, <1>3, <2>2
  <2>. QED  BY <2>2, <2>3
<1>. QED
  BY <1>2, <1>4 DEF HistInv

\* Results stay truthful: old ones are kept and new ones are read off matching tables.
LEMMA ToldStep ==
  ASSUME Stationary, TypeInv, SeenInv, ExitInv, TreeInv, AllHome, NamesInv, PendingInv,
         UniqueInv, HistInv, ToldInv, [Next]_vars
  PROVE  ToldInv'
<1>. SUFFICES ASSUME malformed_events' = 0, NEW x \in Reported'
              PROVE  Told(x)
  BY DEF ToldInv
<1>0. malformed_events = 0 /\ \A y \in Reported : Told(y)
  BY Accepting DEF ToldInv
<1>1. ASSUME NEW e \in todo, process_event(e)
      PROVE  Told(x)
  <2>1. Take(e) /\ phase = "process" /\ IsSeq(events)
    BY <1>1, DoneStep DEF ExitInv
  <2>2. PICK H : History(H) /\ \E n \in 0 .. clock : Follows(H[n], n)
    BY <1>0, <2>1 DEF HistInv
  <2>3. PICK n \in 0 .. clock : Follows(H[n], n)
    BY <2>2
  <2>4. Effect(e, H[n], H[n + 1]) /\ Match(H[n])
    BY <2>1, <2>2, <2>3, TakenNext DEF Follows
  <2>. QED
    BY <1>0, <1>1, <2>1, <2>4, TakenTold
<1>2. CASE Finish
  <2>1. PICK y \in Reported : x.kind = y.kind /\ (x.kind # "exit" => x = y)
    BY <1>2, FinishReports
  <2>. QED
    BY <1>0, <2>1 DEF Told
<1>3. CASE events' = events
  BY <1>0, <1>3 DEF Reported
<1>4. CASE Drain \/ WaitPid \/ Quiesced
  BY <1>3, <1>4 DEF Drain, WaitPid, Quiesced
<1>5. CASE UNCHANGED collectorVars
  BY <1>3, <1>5 DEF collectorVars
<1>. QED
  BY <1>1, <1>2, <1>4, <1>5 DEF Next, CollectorNext, vars

\* The first picture is the machine before anything has happened.
LEMMA PathsInitially ==
  Init => TreeInv /\ FilesInv /\ UniqueInv /\ HistInv /\ ToldInv
<1>. SUFFICES ASSUME Init
              PROVE  TreeInv /\ FilesInv /\ UniqueInv /\ HistInv /\ ToldInv
  OBVIOUS
<1>1. Emitted = {} /\ Done = {} /\ todo = {} /\ clock = 0 /\ Reported = {} /\ phase = "collect"
      /\ ring = {} /\ raw_events = {} /\ fd_table = <<>>
      /\ current_processes = [p \in {Root} |-> root_process]
  BY DEF Init, WorldInit, Emitted, Done, Reported
<1>2. TreeInv /\ UniqueInv /\ ToldInv
  BY <1>1 DEF Init, WorldInit, TreeInv, UniqueInv, ToldInv
<1>3. FilesInv
  BY DEF Init, WorldInit, FilesInv
<1>4. HistInv
  <2>1. PICK N : N = Now
    OBVIOUS
  <2>2. PICK H : H = [n \in Nat |-> N]
    OBVIOUS
  <2>3. /\ Leaders = {Root} /\ Root \in Pids
        /\ ofd = [p \in Pids |-> [fd \in Fds |-> None]]
    BY WorldConstantsOK DEF Init, WorldInit, Leaders
  <2>4. H[0] = Now /\ Now.lead = {Root} /\ \A fd \in Fds : Now.ofd[Root][fd] = None
    BY <2>1, <2>2, <2>3 DEF Now
  <2>5. PictureOK(H[0])
    BY <2>3, <2>4 DEF PictureOK
  <2>6. History(H)
    BY <1>1, <2>4, <2>5 DEF History
  <2>7. Match(H[0])
    BY <1>1, <2>4 DEF Match
  <2>8. Follows(H[0], 0)
    BY <1>1, <2>7 DEF Follows
  <2>. QED  BY <1>1, <2>6, <2>8 DEF HistInv
<1>. QED
  BY <1>2, <1>3, <1>4

\* Every path in an accepted trace is the name the file had when the event
\* happened: descriptors follow renames of files and directories, exchanges
\* and forks, for any number of processes, threads, descriptors and files and
\* however PIDs are recycled, when everybody works in one directory, nothing
\* but the command's tree is heard of, no two processors read the same
\* timestamp and the u32 counters do not saturate.
THEOREM PathsAreTruthful ==
  ASSUME Stationary, Wide, ~Ties, Unwatched
  PROVE  Spec => []PathsTruthful
<1>. DEFINE IInv == /\ TypeInv /\ SeenInv /\ BirthInv /\ RootInv /\ ExitInv /\ FirstInv
                    /\ AllHome /\ NamesInv /\ ExtInv /\ PendingInv /\ AccountInv
                    /\ FreshInv /\ LifeInv
                    /\ TreeInv /\ FilesInv /\ UniqueInv /\ HistInv /\ ToldInv
<1>1. Init => IInv
  BY TypeInitially, LifeInitially, EpochInitially, AccountInitially, Initially, PathsInitially
<1>2. IInv /\ [Next]_vars => IInv'
  <2>. SUFFICES ASSUME IInv, [Next]_vars PROVE IInv'
    OBVIOUS
  <2>1. TypeInv' /\ SeenInv' /\ BirthInv' /\ RootInv' /\ ExitInv' /\ FirstInv'
    BY TypeStep, SeenStep, BirthStep, RootStep, ExitStep, FirstStep DEF TypeInv
  <2>2. AllHome' /\ NamesInv' /\ ExtInv' /\ PendingInv' /\ AccountInv'
    BY HomeStep, NamesStep, ExtStep, AccountStep
  <2>3. FreshInv' /\ LifeInv'
    BY Step, LifeStep
  <2>4. TreeInv' /\ FilesInv' /\ UniqueInv'
    BY TreeStep, FilesStep, UniqueStep
  <2>5. HistInv' /\ ToldInv'
    BY <2>4, HistStep, ToldStep
  <2>. QED  BY <2>1, <2>2, <2>3, <2>4, <2>5
<1>3. ToldInv => PathsTruthful
  BY DEF ToldInv, Told, PathsTruthful, dropped_events
<1>. QED
  BY <1>1, <1>2, <1>3, PTL DEF Spec
=============================================================================
