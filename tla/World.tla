------------------------------- MODULE World --------------------------------
(***************************************************************************)
(* What happens on the machine while a command is traced, as far as the    *)
(* userspace collector can tell: processes and threads that come and go,   *)
(* files that are opened, renamed, removed and written, and the events the *)
(* probes put into the ring.  All of it is external to the collector.      *)
(*                                                                         *)
(* A system call and its probe are one step here; module Probes has the    *)
(* steps inside the probes, and the drops.  Events carry what the probe    *)
(* knows, and as history (born, image and the fields path, from, content   *)
(* and arrived of the payload) what was true when they happened.           *)
(***************************************************************************)
EXTENDS Integers, Sequences, FiniteSets, SequencesExt

CONSTANTS
  Pids,            \* task ids
  Root,            \* the PID of the traced command
  Fds,             \* descriptor numbers
  Files,           \* inodes
  Names,           \* raw path arguments, sequences of components
  BadNames,        \* those of them that are not UTF-8
  Tool,            \* the raw path that exec is given
  Cwds,            \* directories a process may work in
  Home,            \* root_cwd: the directory repx was started in
  DirFd,           \* a directory that processes hold a descriptor of
  Styles,          \* how paths are given: "abs", "cwd" or "dirfd"
  Modes,           \* how files are opened: "r", "w" or "trunc"
  Workload,        \* the operations of this instance, see Operations
  Ties,            \* tasks on two CPUs may read the same timestamp
  OutlivesRoot,    \* descendants may outlive the traced command
  MaxBirths,       \* bound: unrelated tasks per id
  MaxTime,         \* bound: timestamps
  MaxWrites        \* bound: writes to files

Operations == {"open", "close", "mmap", "rename", "exchange", "unlink",
               "chdir", "exec", "fork", "thread", "external"}

None == "none"
NoPath == <<>>

ASSUME WorldConstantsOK ==
  /\ Root \in Pids
  /\ None \notin Files
  /\ BadNames \subseteq Names
  /\ Home \in Cwds
  /\ Styles \subseteq {"abs", "cwd", "dirfd"}
  /\ Modes \subseteq {"r", "w", "trunc"}
  /\ Workload \subseteq Operations
  /\ {Ties, OutlivesRoot} \subseteq BOOLEAN
  /\ MaxBirths \in Nat /\ MaxTime \in Nat /\ MaxWrites \in Nat

VARIABLES
  state,    \* "free", "tree", "ext"; "zombie": the root, not yet reaped
  tg,       \* thread-group id
  birth,    \* how many tasks have had this id
  image,    \* exec calls of the process since its birth
  cwd,      \* working directory of the process
  ofd,      \* the file behind each descriptor of the process
  started,  \* the root has called exec
  code,     \* exit status of the root
  at,       \* the name of each file, the last one if it has none
  linked,   \* the file has a name
  content,  \* version of the contents; 0 is the empty file
  writes,   \* writes so far
  clock,    \* bpf_ktime_get_ns
  last,     \* timestamp of the last event of each task
  ring      \* EVENTS: the order in it does not matter to the collector

taskVars == <<state, tg, birth, image, cwd, ofd, started, code>>
fileVars == <<at, linked, content, writes>>
worldVars == <<taskVars, fileVars, clock, last, ring>>

WorldInit ==
  /\ state = [p \in Pids |-> IF p = Root THEN "tree" ELSE "free"]
  /\ tg = [p \in Pids |-> p]
  /\ birth = [p \in Pids |-> IF p = Root THEN 1 ELSE 0]
  /\ image = [p \in Pids |-> 0]
  /\ cwd = [p \in Pids |-> Home]
  /\ ofd = [p \in Pids |-> [fd \in Fds |-> None]]
  /\ started = FALSE
  /\ code = 0
  /\ \E f \in Files, path \in Names :
        /\ at = [g \in Files |-> path]
        /\ linked = [g \in Files |-> g = f]
  /\ content = [f \in Files |-> 1]
  /\ writes = 1
  /\ clock = 0
  /\ last = [p \in Pids |-> 0]
  /\ ring = {}

\* Task t may issue the operation op now.
May(op, t) == op \in Workload /\ started /\ state[t] \in {"tree", "ext"}

Path(t, style, raw) ==
  CASE style = "abs" -> raw
    [] style = "cwd" -> cwd[tg[t]] \o raw
    [] style = "dirfd" -> DirFd \o raw

FilesAt(path) == {f \in Files : linked[f] /\ at[f] = path}

\* What bpf_ktime_get_ns may return now; in a probe of t it is later than all
\* that t knows of.
Instants ==
  {n \in IF Ties THEN {clock, clock + 1} ELSE {clock + 1} : n <= MaxTime}
Tick(t, ts) == ts > last[t] /\ clock' = ts

\* payload.pid is the thread, payload.tgid the process.
Event(kind, t, ts, payload) ==
  [kind |-> kind, timestamp_ns |-> ts, pid |-> t, tgid |-> tg[t],
   source |-> state[t], payload |-> payload,
   born |-> birth[tg[t]], image |-> image[tg[t]]]

Emit(t, ts, events) ==
  /\ Tick(t, ts)
  /\ last' = [last EXCEPT ![t] = ts]
  /\ ring' = ring \cup events
-----------------------------------------------------------------------------
(* File operations.                                                        *)

Open(t, ts, fd, raw, style, mode) ==
  LET p == tg[t]
      path == Path(t, style, raw)
  IN  /\ May("open", t) /\ (state[t] = "ext" => mode # "r")
      /\ ofd[p][fd] = None
      /\ \E f \in Files :
           /\ \/ f \in FilesAt(path)
              \/ /\ mode # "r" /\ ~linked[f]
                 /\ \A g \in Files : linked[g] => ~IsPrefix(path, at[g])
                 /\ \A q \in Pids, d \in Fds : ofd[q][d] # f
           /\ at' = [at EXCEPT ![f] = path]
           /\ linked' = [linked EXCEPT ![f] = TRUE]
           /\ content' = [content EXCEPT
                ![f] = IF mode = "trunc" \/ ~linked[f] THEN 0 ELSE @]
           /\ ofd' = [ofd EXCEPT ![p][fd] = f]
           /\ Emit(t, ts, {Event("open", t, ts,
                [fd |-> fd, raw |-> raw, style |-> style, mode |-> mode,
                 path |-> path, file |-> f, content |-> content'[f],
                 arrived |-> content'[f]])})
      /\ UNCHANGED <<state, tg, birth, image, cwd, started, code, writes>>

\* The name of the file behind a descriptor; of a deleted file nothing is
\* expected.
NameBehind(p, fd) == IF ofd[p][fd] = None THEN NoPath ELSE at[ofd[p][fd]]
Nameless(p, fd) == ofd[p][fd] # None /\ ~linked[ofd[p][fd]]

FdPayload(p, fd) ==
  [fd |-> fd, path |-> NameBehind(p, fd), nameless |-> Nameless(p, fd)]

\* A tree process is also heard when it closes a descriptor it does not have.
Close(t, ts, fd) ==
  /\ May("close", t)
  /\ state[t] = "ext" => ofd[tg[t]][fd] # None
  /\ Emit(t, ts, {Event("close", t, ts, FdPayload(tg[t], fd))})
  /\ ofd' = [ofd EXCEPT ![tg[t]][fd] = None]
  /\ UNCHANGED <<fileVars, state, tg, birth, image, cwd, started, code>>

Mmap(t, ts, fd) ==
  /\ May("mmap", t)
  /\ ofd[tg[t]][fd] # None
  /\ Emit(t, ts, {Event("mmap", t, ts, FdPayload(tg[t], fd))})
  /\ UNCHANGED <<taskVars, fileVars>>

Moved(path, from, to) ==
  IF IsPrefix(from, path) THEN to \o SubSeq(path, Len(from) + 1, Len(path))
                          ELSE path

\* rename of a file or a directory, or with RENAME_EXCHANGE the swap of two.
\* The two events of one rename have one timestamp.
Rename(t, ts, rawFrom, rawTo, style, exchange) ==
  LET from == Path(t, style, rawFrom)
      to == Path(t, style, rawTo)
      under(dir) == {f \in Files : linked[f] /\ IsPrefix(dir, at[f])}
      move(path) == IF IsPrefix(from, path) THEN Moved(path, from, to)
                    ELSE IF exchange THEN Moved(path, to, from) ELSE path
      half(raw) == [raw |-> raw, style |-> style, exchange |-> exchange,
                    from |-> from, path |-> to]
  IN  /\ May(IF exchange THEN "exchange" ELSE "rename", t)
      /\ ~IsPrefix(from, to) /\ ~IsPrefix(to, from) /\ ~IsPrefix(from, DirFd)
      /\ under(from) # {}
      /\ IF exchange THEN under(to) # {} /\ ~IsPrefix(to, DirFd)
         ELSE \/ under(to) = {}
              \/ under(to) = FilesAt(to) /\ under(from) = FilesAt(from)
      /\ at' = [f \in Files |-> IF linked[f] THEN move(at[f]) ELSE at[f]]
      /\ linked' = [f \in Files |->
                      linked[f] /\ (exchange \/ f \notin FilesAt(to))]
      /\ cwd' = [p \in Pids |-> move(cwd[p])]
      /\ Emit(t, ts,
           {Event("rename_source", t, ts, half(rawFrom)),
            Event("rename_destination", t, ts, half(rawTo))})
      /\ UNCHANGED <<content, writes, state, tg, birth, image, ofd, started, code>>

Unlink(t, ts, raw, style) ==
  LET path == Path(t, style, raw)
  IN  /\ May("unlink", t)
      /\ FilesAt(path) # {}
      /\ linked' = [f \in Files |-> linked[f] /\ f \notin FilesAt(path)]
      /\ Emit(t, ts, {Event("unlink", t, ts,
                        [raw |-> raw, style |-> style, path |-> path])})
      /\ UNCHANGED <<taskVars, at, content, writes>>

\* No probe: write through an open descriptor, and chdir.
Write(f) ==
  /\ writes < MaxWrites
  /\ \E p \in Pids, fd \in Fds : ofd[p][fd] = f
  /\ writes' = writes + 1
  /\ content' = [content EXCEPT ![f] = writes + 1]
  /\ UNCHANGED <<taskVars, at, linked, clock, last, ring>>

Chdir(t, dir) ==
  /\ May("chdir", t)
  /\ cwd' = [cwd EXCEPT ![tg[t]] = dir]
  /\ UNCHANGED <<fileVars, clock, last, ring, state, tg, birth, image, ofd,
                 started, code>>
-----------------------------------------------------------------------------
(* Processes.                                                              *)

Alone(t) == t = tg[t] /\ \A u \in Pids \ {t} : state[u] # "free" => tg[u] # t

\* The first exec of the root loads the traced command itself.
Exec(t, ts, style) ==
  /\ state[t] = "tree" /\ Alone(t)
  /\ started => "exec" \in Workload
  /\ started' = TRUE
  /\ image' = [image EXCEPT ![t] = IF started THEN @ + 1 ELSE @]
  /\ Emit(t, ts, {[Event("exec", t, ts,
                     [raw |-> Tool, style |-> style,
                      path |-> Path(t, style, Tool), first |-> ~started])
                     EXCEPT !.image = image'[t]]})
  /\ UNCHANGED <<fileVars, state, tg, birth, cwd, ofd, code>>

Born(c, kind, group, dir, fds) ==
  /\ state[c] = "free" /\ c # Root
  /\ state' = [state EXCEPT ![c] = kind]
  /\ tg' = [tg EXCEPT ![c] = group]
  /\ birth' = [birth EXCEPT ![c] = @ + 1]
  /\ image' = [image EXCEPT ![c] = 0]
  /\ cwd' = [cwd EXCEPT ![c] = dir]
  /\ ofd' = [ofd EXCEPT ![c] = fds]

NoFds == [fd \in Fds |-> None]

\* The event names the parent's thread group, whichever thread forks.
Fork(t, ts, c, thread) ==
  LET p == tg[t]
  IN  /\ May(IF thread THEN "thread" ELSE "fork", t) /\ state[t] = "tree"
      /\ Born(c, "tree", IF thread THEN p ELSE c, cwd[p],
              IF thread THEN NoFds ELSE ofd[p])
      /\ Tick(t, ts) /\ ts > last[c]
      /\ last' = [last EXCEPT ![t] = ts, ![c] = ts]
      /\ ring' = ring \cup {Event("fork", t, ts,
                              [child |-> c, born |-> birth[c] + 1])}
      /\ UNCHANGED <<fileVars, started, code>>

\* An unrelated process, of which nothing is heard until it writes.  The PID
\* of the root is not used again while the trace lasts.
SpawnExternal(p, dir) ==
  /\ "external" \in Workload /\ birth[p] < MaxBirths
  /\ Born(p, "ext", p, dir, NoFds)
  /\ UNCHANGED <<fileVars, clock, last, ring, started, code>>

\* A leader ends last; an exit event cannot carry the exit status.
Exit(t, ts, status) ==
  /\ state[t] = "tree" /\ Alone(t)
  /\ t = Root => \/ OutlivesRoot
                 \/ \A u \in Pids \ {t} : state[u] # "tree"
  /\ state' = [state EXCEPT ![t] = IF t = Root THEN "zombie" ELSE "free"]
  /\ ofd' = [ofd EXCEPT ![t] = NoFds]
  /\ code' = IF t = Root THEN status ELSE code
  /\ Emit(t, ts, {Event("exit", t, ts, [exit_code |-> 0])})
  /\ UNCHANGED <<fileVars, tg, birth, image, cwd, started>>

\* Neither a thread nor an unrelated process leaves an event.
SilentExit(t) ==
  /\ state[t] = "ext" \/ (state[t] = "tree" /\ t # tg[t])
  /\ state' = [state EXCEPT ![t] = "free"]
  /\ ofd' = [ofd EXCEPT ![t] = NoFds]
  /\ UNCHANGED <<fileVars, clock, last, ring, tg, birth, image, cwd, started,
                 code>>

WorldNext ==
  \/ \E t \in Pids, ts \in Instants :
       \/ \E raw \in Names, style \in Styles :
            \/ \E fd \in Fds, mode \in Modes : Open(t, ts, fd, raw, style, mode)
            \/ \E to \in Names, exchange \in BOOLEAN :
                 Rename(t, ts, raw, to, style, exchange)
            \/ Unlink(t, ts, raw, style)
       \/ \E fd \in Fds : Close(t, ts, fd) \/ Mmap(t, ts, fd)
       \/ \E c \in Pids, thread \in BOOLEAN : Fork(t, ts, c, thread)
       \/ \E style \in Styles \ {"dirfd"} : Exec(t, ts, style)
       \/ \E status \in {0, 1} : Exit(t, ts, status)
  \/ \E f \in Files : Write(f)
  \/ \E t \in Pids, dir \in Cwds : Chdir(t, dir) \/ SpawnExternal(t, dir)
  \/ \E t \in Pids : SilentExit(t)
=============================================================================
