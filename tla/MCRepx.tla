------------------------------- MODULE MCRepx -------------------------------
(***************************************************************************)
(* The builds of the Repx runs.                                            *)
(***************************************************************************)
EXTENDS Repx, TLC

Exec(t) == [type |-> "exec", tool |-> t]
Fork(p) == [type |-> "fork", child |-> p]
WaitFor(p) == [type |-> "wait", child |-> p]
Open(path, fd, mode) == [type |-> "open", path |-> path, fd |-> fd, mode |-> mode]
CloseFd(path, fd, mode) == [type |-> "close", path |-> path, fd |-> fd, mode |-> mode]
Mmap(path, fd, mode) == [type |-> "mmap", path |-> path, fd |-> fd, mode |-> mode]
Rename(from, to) == [type |-> "rename", path |-> from, to |-> to]
Unlink(path) == [type |-> "unlink", path |-> path]
Exit(code) == [type |-> "exit", code |-> code]
Nothing == <<>>

src == <<"w", "src">>
tmp == <<"w", "tmp">>
log == <<"w", "log">>
staging == <<"w", "staging">>
dist == <<"w", "dist">>
staged == <<"w", "staging", "out">>
out == <<"w", "dist", "out">>
proc == <<"proc">>
served == <<"srv", "f">>
kept == <<"srv", "g">>
elsewhere == <<"etc">>

temporary == <<"tmp", "cc.s">>
importcfg == <<"tmp", "go-build", "importcfg">>
cache == <<"cache", "entry-a">>

MCWorkspace == {src, tmp, out, log}
Files(s, t, o, l) ==
  (src :> s) @@ (tmp :> t) @@ (out :> o) @@ (log :> l) @@ (served :> "f") @@ (kept :> "g")
OnlySource == Files("s", Absent, Absent, Absent)

Wrote(path, p, e) == [path |-> path, process |-> <<p, e>>]
From(o, i, through) == [output |-> o, input |-> i, through |-> through]

Changed == [artifacts |-> {}, output_roots |-> {}]
Artifact(path) == [artifacts |-> {path}, output_roots |-> {}]
Under(root) == [artifacts |-> {}, output_roots |-> {root}]
Full == Under(<<"w", "none">>)  \* selects nothing: the whole trace counts
Session(t, sel) == [tool |-> t, allow |-> FALSE, selection |-> sel, lossy |-> FALSE]
Lossy(t, a, sel) == [tool |-> t, allow |-> a, selection |-> sel, lossy |-> TRUE]

\* a and b compile at the same time, the root links.  They may write each
\* other's contents, and what a wrote may be gone in the end.
Make ==
  [program |->
     [root |-> <<Exec("make"), Fork("a"), Fork("b"), WaitFor("a"), WaitFor("b"),
                 Exec("ld"), Open(tmp, 3, "r"), Open(log, 4, "r"), Open(out, 5, "w"),
                 CloseFd(out, 5, "w"), Exit("0")>>,
      a |-> <<Exec("cc"), Open(src, 3, "r"), Open(tmp, 4, "w"), CloseFd(tmp, 4, "w"),
              Exit("0")>>,
      b |-> <<Exec("cc"), Open(src, 3, "r"), Open(log, 4, "w"), CloseFd(log, 4, "w"),
              Exit("0")>>,
      x |-> Nothing],
   start |-> OnlySource,
   finals |-> {Files("s", "t", "o", "l"), Files("s", "l", "o", "t"),
               Files("s", Absent, "o", "t"), Files("s", "t", "o", Absent)},
   names |-> {<<>>},
   sessions |-> {Session("trace", Changed), Session("trace", Artifact(out)),
                 Session("trace", Full), Session("harness", Under(dist)),
                 Session("harness", Artifact(tmp))},
   producers |-> {Wrote(out, "root", 1), Wrote(tmp, "a", 1), Wrote(log, "b", 1)},
   derivations |-> {From(out, src, {tmp}), From(out, src, {log}), From(out, tmp, {}),
                    From(tmp, src, {}), From(log, src, {})}]

\* a writes the output into a directory that the root renames; others may
\* have written the same contents elsewhere.
Stage ==
  [program |->
     [root |-> <<Exec("sh"), Open(log, 6, "w"), CloseFd(log, 6, "w"), Fork("a"), Fork("b"),
                 WaitFor("a"), Exec("mv"), Rename(staging, dist), WaitFor("b"), Exit("0")>>,
      a |-> <<Exec("cc"), Open(src, 3, "r"), Open(staged, 4, "w"), CloseFd(staged, 4, "w"),
              Open(staged, 4, "rw"), Mmap(staged, 4, "rw"), CloseFd(staged, 4, "rw")>>,
      b |-> <<Open(tmp, 4, "w"), Exec("as"), CloseFd(tmp, 4, "w"), Exit("0")>>,
      x |-> Nothing],
   start |-> OnlySource,
   finals |-> {Files("s", "o", "o", "o"), Files("s", "t", "o", "o"), Files("s", Absent, "o", "l")},
   names |-> {<<>>},
   sessions |-> {Session("trace", Artifact(out)), Session("harness", Under(dist))},
   producers |-> {Wrote(out, "a", 1), Wrote(tmp, "b", 0), Wrote(log, "root", 0)},
   derivations |-> {From(out, src, {})}]

\* The shell opens the log for both children and never closes it; a renames
\* its output while it has it open.
Shared ==
  [program |->
     [root |-> <<Exec("sh"), Open(log, 5, "w"), Fork("a"), Fork("b"), WaitFor("a"),
                 WaitFor("b"), Exit("1")>>,
      a |-> <<Exec("cc"), Open(src, 3, "r"), Open(tmp, 4, "w"), Rename(tmp, out),
              CloseFd(out, 4, "w"), CloseFd(log, 5, "w"), Exit("0")>>,
      b |-> <<Exec("as"), Open(out, 5, "r"), CloseFd(out, 5, "r"), Exit("0")>>,
      x |-> Nothing],
   start |-> Files("s", Absent, "old", Absent),
   finals |-> {Files("s", Absent, "o", "l"), Files("s", Absent, "old", "l")},
   names |-> {<<>>},
   sessions |-> {Session("trace", Changed), Session("trace", Full)},
   producers |-> {Wrote(out, "a", 1), Wrote(log, "root", 0)},
   derivations |-> {From(out, src, {})}]

\* A daemon and a process whose start was not seen touch a watched directory.
Watched ==
  [program |->
     [root |-> <<Exec("sh"), Open(proc, 3, "r"), Mmap(proc, 3, "r"), Open(out, 4, "trunc"),
                 CloseFd(NoPath, 4, "w"), Unlink(tmp), Mmap(NoPath, 9, "r"), Exit("0")>>,
      a |-> Nothing,
      b |-> <<Open(served, 3, "rw"), CloseFd(served, 3, "rw"), Open(tmp, 4, "w"),
              Exec("cat"), Open(kept, 3, "w"), CloseFd(tmp, 4, "w"),
              CloseFd(kept, 3, "w"), Unlink(kept)>>,
      x |-> <<Open(elsewhere, 3, "r"), Open(served, 4, "rw"), Mmap(served, 4, "rw"),
              CloseFd(served, 4, "rw"), Rename(served, kept), Unlink(kept)>>],
   start |-> OnlySource,
   finals |-> {Files("s", Absent, "o", Absent)},
   names |-> {<<>>},
   sessions |-> {Session("harness", Full), Session("trace", Under(dist))},
   producers |-> {},
   derivations |-> {}]

\* The ring drops an event.
Dropped ==
  [program |->
     [root |-> <<Exec("sh"), Fork("a"), Open(out, 3, "w"), WaitFor("a"), Mmap(out, 3, "rw"),
                 CloseFd(out, 3, "w"), Exit("0")>>,
      a |-> <<Exec("cc"), Open(src, 3, "r"), Exit("0")>>,
      b |-> Nothing,
      x |-> <<Open(served, 4, "rw"), Mmap(served, 4, "rw"), CloseFd(served, 4, "w")>>],
   start |-> OnlySource,
   finals |-> {Files("s", Absent, "o", Directory), Files("s2", Absent, "o", "l")},
   names |-> {<<>>},
   sessions |-> {Lossy("trace", TRUE, Changed), Lossy("trace", FALSE, Changed),
                 Lossy("harness", TRUE, Full), Lossy("harness", FALSE, Under(dist)),
                 Lossy("trace", TRUE, Full), Lossy("trace", TRUE, Artifact(log))},
   producers |-> {Wrote(out, "root", 0)},
   derivations |-> {}]

\* The compiler driver hands a temporary file to a; the linker reads a
\* control file in a work directory and a dated entry of a cache.
Temporary ==
  [program |->
     [root |-> <<Exec("gcc"), Open(temporary, 3, "w"), CloseFd(temporary, 3, "w"), Fork("a"),
                 Fork("b"), WaitFor("a"), Unlink(temporary), WaitFor("b"), Exit("0")>>,
      a |-> <<Exec("as"), Open(temporary, 3, "r"), Open(tmp, 4, "rw"), CloseFd(tmp, 4, "rw")>>,
      b |-> <<Exec("link"), Open(importcfg, 3, "r"), Mmap(cache, 4, "r"), Open(log, 5, "w"),
              CloseFd(log, 5, "w")>>,
      x |-> Nothing],
   start |-> OnlySource @@ (importcfg :> Absent) @@ (cache :> "entry"),
   finals |-> {Files("s", t, Absent, "l") @@ (importcfg :> "cfg") @@ (cache :> "entry") :
                 t \in {"t", Absent}},
   names |-> {("cc.s" :> "ccA.s") @@ ("go-build" :> "go-build1") @@ ("now" :> "1"),
              ("cc.s" :> "ccB.s") @@ ("go-build" :> "go-build2") @@ ("now" :> "2")},
   sessions |-> {Session("trace", Full), Session("harness", Full),
                 Session("trace", Artifact(log))},
   producers |-> {Wrote(tmp, "a", 1), Wrote(log, "b", 1)},
   derivations |-> {}]

\* b installs a copy of what a has compiled.
Copy ==
  [program |->
     [root |-> <<Exec("sh"), Fork("a"), WaitFor("a"), Fork("b"), WaitFor("b"), Exit("0")>>,
      a |-> <<Exec("cc"), Open(src, 3, "r"), Open(tmp, 4, "w"), CloseFd(tmp, 4, "w"),
              Exit("0")>>,
      b |-> <<Exec("cp"), Open(tmp, 3, "r"), Open(out, 4, "w"), CloseFd(out, 4, "w"),
              Exit("0")>>,
      x |-> Nothing],
   start |-> OnlySource,
   finals |-> {Files("s", "o", "o", Absent)},
   names |-> {<<>>},
   sessions |-> {Session("trace", Artifact(out))},
   producers |-> {Wrote(out, "b", 1), Wrote(tmp, "a", 1)},
   derivations |-> {From(out, tmp, {}), From(out, src, {tmp})}]

MCBuilds == {Make, Stage, Shared, Watched, Temporary, Dropped}
CopyOnly == {Copy}
MCWatch == {<<"srv">>}
MCSystem == {proc}
MCRecognized == ("ccA.s" :> "<compiler-temp>.s") @@ ("ccB.s" :> "<compiler-temp>.s")
                  @@ ("go-build1" :> "<go-work>") @@ ("go-build2" :> "<go-work>")
MCCache == {"entry-a"}
MCMentions == ("cfg" :> "go-build") @@ ("entry" :> "now")
=============================================================================
