--------------------------- MODULE RepxFlowProofs ---------------------------
(***************************************************************************)
(* Proofs about who wrote what: that closed writes carry their contents,   *)
(* that the producers of an output are in its slice and that what it was   *)
(* made from is committed, however the processes of a build are scheduled. *)
(*                                                                         *)
(* The folds see one interleaving of the processes and know descriptors by *)
(* process and number.  Each invariant here says what they know in terms   *)
(* of the programs alone and of how far each process has come, so that the *)
(* schedule plays no part in it.                                           *)
(***************************************************************************)
EXTENDS RepxProofs

-----------------------------------------------------------------------------
(* Closed writes are hashed.  The folds know a descriptor by its number    *)
(* and the process, so a close finds the right operation only if numbers   *)
(* are used the way the kernel hands them out.                             *)

\* Step s makes an operation that a close has to complete; completes one for
\* descriptor fd; would take the entry of fd away without completing it.
Starts(s) == \/ s.type = "open" /\ can_write(s)
             \/ s.type = "mmap" /\ s.mode = "rw"
Completes(s, fd) ==
  s.type = "close" /\ s.fd = fd /\ s.path # NoPath /\ can_write(s)
Displaces(s, fd) ==
  \/ s.type = "open" /\ s.fd = fd /\ can_write(s)
  \/ s.type = "close" /\ s.fd = fd /\ s.path # NoPath /\ ~can_write(s)

\* Nobody but external processes accesses files of a watched directory, and
\* those do not fork, nor does a process of the tree fork them.
SettledStep(s, external, drawn) ==
  /\ s.type \in {"open", "mmap", "close"} =>
       /\ {"path", "mode", "fd"} \subseteq DOMAIN s
       /\ s.path \in Seq(STRING)
       /\ ~external => \A n \in drawn : ~is_watched_path(DrawnWith(n, s.path))
  /\ s.type = "fork" => ~external /\ s.child \notin External

ForksIn(b, p, q) ==
  {k \in DOMAIN b.program[p] : b.program[p][k].type = "fork" /\ b.program[p][k].child = q}

\* A process is forked once, by another one.  A descriptor that was opened
\* for writing, or inherited so, is not opened for writing again, and not
\* closed as one that was not, before it was closed.
Disciplined(b) ==
  /\ \A p \in Lifetimes : \A k \in DOMAIN b.program[p] :
       SettledStep(b.program[p][k], p \in External, b.names)
  /\ \A p \in Lifetimes : ForksIn(b, p, p) = {}
  /\ \A p, q, r \in Lifetimes : \A f \in ForksIn(b, p, r), g \in ForksIn(b, q, r) :
       p = q /\ f = g
  /\ \A p \in Lifetimes : \A k, j \in DOMAIN b.program[p] :
       k < j /\ Starts(b.program[p][k]) /\ Displaces(b.program[p][j], b.program[p][k].fd) =>
         \E m \in DOMAIN b.program[p] :
            k < m /\ m < j /\ Completes(b.program[p][m], b.program[p][k].fd)
  /\ \A p, q \in Lifetimes : \A f \in ForksIn(b, p, q), k \in DOMAIN b.program[p],
                                j \in DOMAIN b.program[q] :
       k < f /\ Starts(b.program[p][k]) /\ Displaces(b.program[q][j], b.program[p][k].fd) =>
         \/ \E m \in DOMAIN b.program[p] :
               k < m /\ m < f /\ Completes(b.program[p][m], b.program[p][k].fd)
         \/ \E m \in DOMAIN b.program[q] :
               m < j /\ Completes(b.program[q][m], b.program[p][k].fd)

\* The types of a write.
WriteTypes == {"file_write", "external_file_write"}

\* The descriptor that operation i was made for.
Fd(i) == Program(i[1][1])[i[1][2]].fd

\* Process q made operation i or has inherited its descriptor since, when
\* when[p] is the next step of each process; it has it since this step.
Holder(q, i, when) ==
  \/ q = i[1][1]
  \/ \E f \in Forks(i[1][1], q) : i[1][2] < f /\ f < when[i[1][1]]
Since(q, i) == IF q = i[1][1] THEN i[1][2] ELSE 0

\* Operation i is a write of a member; every holder can find it by the
\* descriptor and has not closed that.
Held(i, pend, when, members) ==
  /\ i[1][1] \in members /\ i[1][2] \in DOMAIN Program(i[1][1])
  /\ Starts(Program(i[1][1])[i[1][2]])
  /\ \A q \in Lifetimes : Holder(q, i, when) =>
       /\ <<q, Fd(i)>> \in DOMAIN pend /\ pend[<<q, Fd(i)>>] = i
       /\ \A j \in DOMAIN Program(q) :
            Since(q, i) < j /\ j < when[q] => ~Completes(Program(q)[j], Fd(i))

\* Positions are events of the past.
Past(list, when) ==
  \A i \in DOMAIN list :
    /\ i = <<i[1], i[2]>> /\ i[1] = <<i[1][1], i[1][2]>>
    /\ i[1][1] \in Lifetimes /\ i[1][2] \in Nat \ {0} /\ i[1][2] < when[i[1][1]]
    /\ "output_hashes" \in DOMAIN list[i]

\* Operation i still waits for its contents.
Waits(list, i) == i[2] \in WriteTypes /\ list[i].output_hashes = <<>>

HeldInv(list, pend, when, members) ==
  /\ Past(list, when)
  /\ \A i \in DOMAIN list : Waits(list, i) => Held(i, pend, when, members)

\* Every operation that waits for its contents is held, and no process runs
\* before it was forked.
WritesInv ==
  /\ names \in build.names
  /\ \A p \in Lifetimes : at[p] # 1 => Started(p)
  /\ lost = 0 => /\ HeldInv(ops, pending_writes, at, Lifetimes \ External)
                 /\ HeldInv(external_ops, external_pending_writes, at, Lifetimes \cap External)

\* Forks of a build are those of its programs.
LEMMA ForksAre ==
  ASSUME NEW p, NEW q
  PROVE  Forks(p, q) = ForksIn(build, p, q)
BY DEF Forks, ForksIn, Program

\* Those who hold a member's descriptor are members.
LEMMA HoldersInside ==
  ASSUME Disciplined(build), NEW members \in {Lifetimes \cap External, Lifetimes \ External},
         NEW i, NEW when, i[1][1] \in members, i[1][1] \in Lifetimes,
         NEW q \in Lifetimes, Holder(q, i, when)
  PROVE  q \in members
<1>1. CASE q = i[1][1]
  BY <1>1
<1>2. ASSUME NEW f \in Forks(i[1][1], q) PROVE q \in members
  <2>1. f \in DOMAIN Program(i[1][1]) /\ Program(i[1][1])[f].type = "fork"
        /\ Program(i[1][1])[f].child = q
    BY <1>2 DEF Forks
  <2>2. SettledStep(Program(i[1][1])[f], i[1][1] \in External, build.names)
    BY <2>1 DEF Disciplined, Program
  <2>. QED
    BY <2>1, <2>2 DEF SettledStep
<1>. QED
  BY <1>1, <1>2 DEF Holder

\* A step of a holder does not take the descriptor away.
LEMMA NotDisplaced ==
  ASSUME Disciplined(build), at \in [Lifetimes -> Nat \ {0}],
         NEW i, NEW pend, NEW members, members \subseteq Lifetimes,
         Held(i, pend, at, members), i[1][2] \in Nat \ {0}, i[1][2] < at[i[1][1]],
         \A q \in Lifetimes : DOMAIN Program(q) \subseteq Nat \ {0},
         NEW x \in Lifetimes, at[x] \in DOMAIN Program(x), Holder(x, i, at)
  PROVE  ~Displaces(StepOf(x), Fd(i))
<1>. SUFFICES ASSUME Displaces(StepOf(x), Fd(i)) PROVE FALSE
  OBVIOUS
<1>. DEFINE p == i[1][1]
            k == i[1][2]
<1>1. /\ p \in Lifetimes /\ k \in DOMAIN Program(p) /\ Starts(Program(p)[k])
      /\ Fd(i) = Program(p)[k].fd /\ Displaces(Program(x)[at[x]], Program(p)[k].fd)
  BY DEF Held, Fd, StepOf
<1>2. ASSUME NEW q \in Lifetimes, Holder(q, i, at), NEW j \in DOMAIN Program(q),
             Since(q, i) < j, j < at[q]
      PROVE  ~Completes(Program(q)[j], Program(p)[k].fd)
  BY <1>1, <1>2 DEF Held
<1>3. CASE x = p
  <2>1. PICK m \in DOMAIN Program(p) :
          k < m /\ m < at[p] /\ Completes(Program(p)[m], Program(p)[k].fd)
    BY <1>1, <1>3 DEF Disciplined, Program
  <2>. QED
    BY <1>1, <1>2, <1>3, <2>1 DEF Holder, Since
<1>4. CASE x # p
  <2>1. PICK f \in Forks(p, x) : k < f /\ f < at[p]
    BY <1>4 DEF Holder
  <2>2. f \in ForksIn(build, p, x) /\ f \in DOMAIN Program(p)
    BY <2>1, ForksAre DEF Forks
  <2>3. \/ \E m \in DOMAIN Program(p) :
             k < m /\ m < f /\ Completes(Program(p)[m], Program(p)[k].fd)
        \/ \E m \in DOMAIN Program(x) :
             m < at[x] /\ Completes(Program(x)[m], Program(p)[k].fd)
    BY <1>1, <2>1, <2>2 DEF Disciplined, Program
  <2>4. ASSUME NEW m \in DOMAIN Program(p), k < m, m < f,
               Completes(Program(p)[m], Program(p)[k].fd)
        PROVE  FALSE
    <3>1. m < at[p] /\ Since(p, i) < m /\ Holder(p, i, at)
      <4>1. m \in Nat /\ f \in Nat /\ at[p] \in Nat
        BY <1>1, <2>2
      <4>. QED
        BY <2>1, <2>4, <4>1 DEF Since, Holder
    <3>. QED
      BY <1>1, <1>2, <2>4, <3>1
  <2>5. ASSUME NEW m \in DOMAIN Program(x), m < at[x],
               Completes(Program(x)[m], Program(p)[k].fd)
        PROVE  FALSE
    <3>1. Since(x, i) < m
      BY <1>4 DEF Since
    <3>. QED
      BY <1>2, <2>5, <3>1
  <2>. QED
    BY <2>3, <2>4, <2>5
<1>. QED
  BY <1>3, <1>4
-----------------------------------------------------------------------------
(* What a step leaves of the operations that wait.                         *)

\* The next step of x leaves the holders of i what they have.
Undisturbed(x, i, pend, pend2) ==
  /\ Holder(x, i, at) => ~Completes(StepOf(x), Fd(i))
  /\ x = i[1][1] => StepOf(x).type # "fork"
  /\ \A q \in Lifetimes : Holder(q, i, at) =>
       /\ <<q, Fd(i)>> \in DOMAIN pend2
       /\ pend2[<<q, Fd(i)>>] = pend[<<q, Fd(i)>>]

\* Event i of x is a write that a close will find.
Begins(x, i, pend2, members) ==
  /\ Starts(StepOf(x)) /\ x \in members
  /\ <<x, StepOf(x).fd>> \in DOMAIN pend2 /\ pend2[<<x, StepOf(x).fd>>] = i

\* The next step of x turns list and pend into more and pend2: it leaves an
\* operation alone, completes it, or pushes it.
Carries(x, list, more, pend, pend2, members) ==
  \A i \in DOMAIN more :
    \/ /\ i \in DOMAIN list /\ more[i] = list[i]
       /\ Waits(list, i) => Undisturbed(x, i, pend, pend2)
    \/ /\ i \in DOMAIN list
       /\ "output_hashes" \in DOMAIN more[i] /\ more[i].output_hashes # <<>>
    \/ /\ i = <<Event(x).id, i[2]>> /\ "output_hashes" \in DOMAIN more[i]
       /\ i[2] \in WriteTypes => Begins(x, i, pend2, members)

\* What is held stays so.
LEMMA HeldKept ==
  ASSUME at \in [Lifetimes -> Nat \ {0}], NEW x \in Lifetimes,
         \A q \in Lifetimes : DOMAIN Program(q) \subseteq Nat \ {0},
         NEW when, when = [at EXCEPT ![x] = @ + 1],
         NEW i, NEW pend, NEW pend2, NEW members, members \subseteq Lifetimes,
         Held(i, pend, at, members), Undisturbed(x, i, pend, pend2)
  PROVE  Held(i, pend2, when, members)
<1>1. ASSUME NEW q \in Lifetimes, Holder(q, i, when) PROVE Holder(q, i, at)
  <2>1. ASSUME NEW f \in Forks(i[1][1], q), i[1][2] < f, f < when[i[1][1]]
        PROVE  f < at[i[1][1]]
    <3>1. i[1][1] \in Lifetimes /\ f \in Nat /\ f \in DOMAIN Program(i[1][1])
          /\ Program(i[1][1])[f].type = "fork"
      BY <2>1 DEF Held, Forks
    <3>2. CASE i[1][1] # x
      BY <2>1, <3>1, <3>2
    <3>3. CASE i[1][1] = x
      <4>1. f # at[x]
        BY <3>1, <3>3 DEF Undisturbed, StepOf
      <4>2. f < at[x] + 1 /\ at[x] \in Nat
        BY <2>1, <3>3
      <4>. QED
        BY <3>1, <3>3, <4>1, <4>2
    <3>. QED
      BY <3>2, <3>3
  <2>. QED
    BY <1>1, <2>1 DEF Holder
<1>2. ASSUME NEW q \in Lifetimes, Holder(q, i, when)
      PROVE  /\ <<q, Fd(i)>> \in DOMAIN pend2 /\ pend2[<<q, Fd(i)>>] = i
             /\ \A j \in DOMAIN Program(q) :
                  Since(q, i) < j /\ j < when[q] => ~Completes(Program(q)[j], Fd(i))
  <2>1. Holder(q, i, at)
    BY <1>1, <1>2
  <2>2. /\ <<q, Fd(i)>> \in DOMAIN pend /\ pend[<<q, Fd(i)>>] = i
        /\ \A j \in DOMAIN Program(q) :
             Since(q, i) < j /\ j < at[q] => ~Completes(Program(q)[j], Fd(i))
    BY <2>1 DEF Held
  <2>3. <<q, Fd(i)>> \in DOMAIN pend2 /\ pend2[<<q, Fd(i)>>] = i
    BY <2>1, <2>2 DEF Undisturbed
  <2>4. ASSUME NEW j \in DOMAIN Program(q), Since(q, i) < j, j < when[q]
        PROVE  ~Completes(Program(q)[j], Fd(i))
    <3>1. j \in Nat
      OBVIOUS
    <3>2. CASE j < at[q]
      BY <2>2, <2>4, <3>2
    <3>3. CASE ~(j < at[q])
      <4>1. q = x /\ j = at[x]
        BY <2>4, <3>1, <3>3
      <4>. QED
        BY <2>1, <4>1 DEF Undisturbed, StepOf
    <3>. QED
      BY <3>2, <3>3
  <2>. QED
    BY <2>3, <2>4
<1>3. /\ i[1][1] \in members /\ i[1][2] \in DOMAIN Program(i[1][1])
      /\ Starts(Program(i[1][1])[i[1][2]])
  BY DEF Held
<1>. QED
  BY <1>2, <1>3 DEF Held

\* Its maker alone holds a new write.
LEMMA HeldFirst ==
  ASSUME at \in [Lifetimes -> Nat \ {0}], NEW x \in Lifetimes, at[x] \in DOMAIN Program(x),
         \A q \in Lifetimes : DOMAIN Program(q) \subseteq Nat \ {0},
         NEW when, when = [at EXCEPT ![x] = @ + 1],
         NEW i, i[1] = <<x, at[x]>>, NEW pend2, NEW members, Begins(x, i, pend2, members)
  PROVE  Held(i, pend2, when, members)
<1>1. i[1][1] = x /\ i[1][2] = at[x] /\ Fd(i) = StepOf(x).fd
  BY DEF Fd, StepOf
<1>2. at[x] \in Nat /\ when[x] = at[x] + 1
  OBVIOUS
<1>3. ASSUME NEW q \in Lifetimes, Holder(q, i, when) PROVE q = x
  <2>1. ASSUME NEW f \in Forks(x, q), at[x] < f, f < when[x] PROVE FALSE
    <3>1. f \in Nat
      BY DEF Forks
    <3>. QED
      BY <1>2, <2>1, <3>1
  <2>. QED
    BY <1>1, <1>3, <2>1 DEF Holder
<1>4. ASSUME NEW j \in DOMAIN Program(x), Since(x, i) < j, j < when[x] PROVE FALSE
  <2>1. j \in Nat /\ Since(x, i) = at[x]
    BY <1>1 DEF Since
  <2>. QED
    BY <1>2, <1>4, <2>1
<1>5. Starts(Program(x)[at[x]]) /\ x \in members
  BY DEF Begins, StepOf
<1>6. <<x, Fd(i)>> \in DOMAIN pend2 /\ pend2[<<x, Fd(i)>>] = i
  BY <1>1 DEF Begins
<1>. HIDE DEF Begins
<1>. QED
  BY <1>1, <1>3, <1>4, <1>5, <1>6 DEF Held

\* So every operation that waits is held after the step.
LEMMA CarriedHeld ==
  ASSUME at \in [Lifetimes -> Nat \ {0}], NEW x \in Lifetimes, at[x] \in DOMAIN Program(x),
         \A q \in Lifetimes : DOMAIN Program(q) \subseteq Nat \ {0},
         NEW when, when = [at EXCEPT ![x] = @ + 1],
         NEW list, NEW more, NEW pend, NEW pend2, NEW members, members \subseteq Lifetimes,
         HeldInv(list, pend, at, members), Carries(x, list, more, pend, pend2, members)
  PROVE  HeldInv(more, pend2, when, members)
<1>1. /\ \A q \in Lifetimes : at[q] \in Nat /\ when[q] \in Nat /\ at[q] <= when[q]
      /\ at[x] < when[x] /\ Event(x).id = <<x, at[x]>>
  BY DEF Event
<1>. SUFFICES ASSUME NEW i \in DOMAIN more
              PROVE  /\ i = <<i[1], i[2]>> /\ i[1] = <<i[1][1], i[1][2]>>
                     /\ i[1][1] \in Lifetimes /\ i[1][2] \in Nat \ {0}
                     /\ i[1][2] < when[i[1][1]]
                     /\ "output_hashes" \in DOMAIN more[i]
                     /\ Waits(more, i) => Held(i, pend2, when, members)
  BY DEF HeldInv, Past
<1>2. ASSUME i \in DOMAIN list
      PROVE  /\ i = <<i[1], i[2]>> /\ i[1] = <<i[1][1], i[1][2]>>
             /\ i[1][1] \in Lifetimes /\ i[1][2] \in Nat \ {0}
             /\ i[1][2] < when[i[1][1]] /\ "output_hashes" \in DOMAIN list[i]
  <2>1. /\ i = <<i[1], i[2]>> /\ i[1] = <<i[1][1], i[1][2]>>
        /\ i[1][1] \in Lifetimes /\ i[1][2] \in Nat \ {0}
        /\ i[1][2] < at[i[1][1]] /\ "output_hashes" \in DOMAIN list[i]
    BY <1>2 DEF HeldInv, Past
  <2>. QED
    BY <1>1, <2>1
<1>3. CASE /\ i \in DOMAIN list /\ more[i] = list[i]
           /\ Waits(list, i) => Undisturbed(x, i, pend, pend2)
  <2>1. Waits(more, i) => Held(i, pend, at, members) /\ Undisturbed(x, i, pend, pend2)
    BY <1>3 DEF HeldInv, Waits
  <2>2. Waits(more, i) => Held(i, pend2, when, members)
    BY <2>1, HeldKept
  <2>. QED
    BY <1>2, <1>3, <2>2
<1>4. CASE /\ i \in DOMAIN list
           /\ "output_hashes" \in DOMAIN more[i] /\ more[i].output_hashes # <<>>
  BY <1>2, <1>4 DEF Waits
<1>5. CASE /\ i = <<Event(x).id, i[2]>> /\ "output_hashes" \in DOMAIN more[i]
           /\ i[2] \in WriteTypes => Begins(x, i, pend2, members)
  <2>1. i[1] = <<x, at[x]>>
    BY <1>1, <1>5
  <2>2. Waits(more, i) => Held(i, pend2, when, members)
    BY <1>5, <2>1, HeldFirst DEF Waits
  <2>. QED
    BY <1>1, <1>5, <2>1, <2>2
<1>. QED
  BY <1>3, <1>4, <1>5 DEF Carries

\* An event that leaves list and pend alone carries them, unless a member
\* closes or forks with it.
LEMMA AloneCarries ==
  ASSUME Disciplined(build), NEW x \in Lifetimes,
         NEW members \in {Lifetimes \cap External, Lifetimes \ External},
         members \subseteq Lifetimes,
         NEW list, NEW pend, HeldInv(list, pend, at, members),
         x \in members => StepOf(x).type # "fork" /\ \A fd : ~Completes(StepOf(x), fd)
  PROVE  Carries(x, list, list, pend, pend, members)
<1>. SUFFICES ASSUME NEW i \in DOMAIN list, Waits(list, i)
              PROVE  Undisturbed(x, i, pend, pend)
  BY DEF Carries
<1>1. Held(i, pend, at, members) /\ i[1][1] \in Lifetimes
  BY DEF HeldInv, Past
<1>2. i[1][1] \in members
  BY <1>1 DEF Held
<1>3. Holder(x, i, at) => x \in members
  BY <1>1, <1>2, HoldersInside
<1>4. \A q \in Lifetimes : Holder(q, i, at) => <<q, Fd(i)>> \in DOMAIN pend
  BY <1>1 DEF Held
<1>. QED
  BY <1>2, <1>3, <1>4 DEF Undisturbed

\* What is pushed by an event stands beside what was there.
LEMMA PushBeside ==
  ASSUME NEW x \in Lifetimes, at \in [Lifetimes -> Nat \ {0}],
         NEW list, Past(list, at), NEW new, NEW more, more = Push(list, Event(x), new)
  PROVE  /\ \A i \in DOMAIN list : i \in DOMAIN more /\ more[i] = list[i]
         /\ \A i \in DOMAIN more :
              \/ i \in DOMAIN list
              \/ i = <<Event(x).id, i[2]>> /\ more[i] \in new /\ more[i].op_type = i[2]
<1>. DEFINE e == Event(x)
<1>1. DOMAIN more = DOMAIN list \cup {<<e.id, op.op_type>> : op \in new}
  BY DEF Push
<1>2. e.id = <<x, at[x]>>
  BY DEF Event
<1>3. ASSUME NEW i \in DOMAIN list PROVE i \in DOMAIN more /\ more[i] = list[i]
  <2>1. i[1] # <<x, at[x]>>
    <3>1. i[1] = <<i[1][1], i[1][2]>> /\ i[1][2] \in Nat /\ i[1][2] < at[i[1][1]]
      BY <1>3 DEF Past
    <3>. QED
      BY <3>1
  <2>2. ~ \E op \in new : i = <<e.id, op.op_type>>
    BY <1>2, <2>1
  <2>. QED
    BY <1>1, <1>3, <2>2 DEF Push
<1>4. ASSUME NEW i \in DOMAIN more, i \notin DOMAIN list
      PROVE  i = <<e.id, i[2]>> /\ more[i] \in new /\ more[i].op_type = i[2]
  <2>1. \E op \in new : i = <<e.id, op.op_type>>
    BY <1>1, <1>4
  <2>2. more[i] = CHOOSE op \in new : i = <<e.id, op.op_type>>
    BY <1>1, <1>4, <2>1 DEF Push
  <2>3. more[i] \in new /\ i = <<e.id, more[i].op_type>>
    BY <2>1, <2>2
  <2>. QED
    BY <2>3
<1>. QED
  BY <1>3, <1>4

\* An access pushes operations; one that is fresh is a write of a member, for
\* a descriptor that nobody uses.
LEMMA AccessCarries ==
  ASSUME Disciplined(build), NEW x \in Lifetimes, at \in [Lifetimes -> Nat \ {0}],
         at[x] \in DOMAIN Program(x),
         \A q \in Lifetimes : DOMAIN Program(q) \subseteq Nat \ {0},
         NEW members \in {Lifetimes \cap External, Lifetimes \ External},
         members \subseteq Lifetimes,
         NEW list, NEW more, NEW pend, NEW pend2, HeldInv(list, pend, at, members),
         StepOf(x).type # "fork", \A fd : ~Completes(StepOf(x), fd),
         NEW accesses, \A op \in accesses : "output_hashes" \in DOMAIN op
                                            /\ op.op_type \notin WriteTypes,
         NEW write, "output_hashes" \in DOMAIN write,
         NEW fresh \in BOOLEAN,
         more = Push(list, Event(x), accesses \cup (IF fresh THEN {write} ELSE {})),
         pend2 = IF fresh THEN Put(pend, <<x, StepOf(x).fd>>, <<Event(x).id, write.op_type>>)
                 ELSE pend,
         fresh => /\ x \in members /\ Starts(StepOf(x))
                  /\ \/ Displaces(StepOf(x), StepOf(x).fd)
                     \/ <<x, StepOf(x).fd>> \notin DOMAIN pend
  PROVE  Carries(x, list, more, pend, pend2, members)
<1>. DEFINE key == <<x, StepOf(x).fd>>
            new == accesses \cup (IF fresh THEN {write} ELSE {})
<1>1. /\ \A i \in DOMAIN list : i \in DOMAIN more /\ more[i] = list[i]
      /\ \A i \in DOMAIN more :
           \/ i \in DOMAIN list
           \/ i = <<Event(x).id, i[2]>> /\ more[i] \in new /\ more[i].op_type = i[2]
  BY PushBeside DEF HeldInv
<1>2. /\ fresh => key \in DOMAIN pend2 /\ pend2[key] = <<Event(x).id, write.op_type>>
      /\ \A k \in DOMAIN pend : fresh => k = key \/ (k \in DOMAIN pend2 /\ pend2[k] = pend[k])
      /\ ~fresh => pend2 = pend
  BY DEF Put
<1>3. ASSUME NEW i \in DOMAIN list, Waits(list, i) PROVE Undisturbed(x, i, pend, pend2)
  <2>1. /\ Held(i, pend, at, members) /\ i[1][1] \in Lifetimes
        /\ i[1][2] \in Nat \ {0} /\ i[1][2] < at[i[1][1]]
    BY <1>3 DEF HeldInv, Past
  <2>2. ASSUME NEW q \in Lifetimes, Holder(q, i, at)
        PROVE  <<q, Fd(i)>> \in DOMAIN pend /\ (fresh => <<q, Fd(i)>> # key)
    <3>1. <<q, Fd(i)>> \in DOMAIN pend
      BY <2>1, <2>2 DEF Held
    <3>2. ASSUME fresh, <<q, Fd(i)>> = key PROVE FALSE
      <4>1. q = x /\ Fd(i) = StepOf(x).fd
        BY <3>2
      <4>2. Displaces(StepOf(x), Fd(i))
        BY <3>1, <3>2, <4>1
      <4>. QED
        BY <2>1, <2>2, <4>1, <4>2, NotDisplaced
    <3>. QED
      BY <3>1, <3>2
  <2>3. ASSUME NEW q \in Lifetimes, Holder(q, i, at)
        PROVE  /\ <<q, Fd(i)>> \in DOMAIN pend2
               /\ pend2[<<q, Fd(i)>>] = pend[<<q, Fd(i)>>]
    BY <1>2, <2>2, <2>3
  <2>. QED
    BY <2>3 DEF Undisturbed
<1>4. ASSUME NEW i \in DOMAIN more, i \notin DOMAIN list
      PROVE  /\ i = <<Event(x).id, i[2]>> /\ "output_hashes" \in DOMAIN more[i]
             /\ i[2] \in WriteTypes => Begins(x, i, pend2, members)
  <2>1. i = <<Event(x).id, i[2]>> /\ more[i] \in new /\ more[i].op_type = i[2]
    BY <1>1, <1>4
  <2>2. "output_hashes" \in DOMAIN more[i]
    BY <2>1
  <2>3. ASSUME i[2] \in WriteTypes PROVE Begins(x, i, pend2, members)
    <3>1. fresh /\ more[i] = write
      BY <2>1, <2>3
    <3>2. pend2[key] = i /\ key \in DOMAIN pend2
      BY <1>2, <2>1, <3>1
    <3>. QED
      BY <3>1, <3>2 DEF Begins
  <2>. QED
    BY <2>1, <2>2, <2>3
<1>. QED
  BY <1>1, <1>3, <1>4 DEF Carries

\* A close completes the operation of its descriptor and no other.
LEMMA CloseCarries ==
  ASSUME Disciplined(build), NEW x \in Lifetimes, at \in [Lifetimes -> Nat \ {0}],
         at[x] \in DOMAIN Program(x),
         \A q \in Lifetimes : DOMAIN Program(q) \subseteq Nat \ {0},
         NEW members \in {Lifetimes \cap External, Lifetimes \ External},
         members \subseteq Lifetimes,
         NEW list, NEW more, NEW pend, NEW pend2, HeldInv(list, pend, at, members),
         StepOf(x).type = "close", StepOf(x).path # NoPath,
         \A k \in DOMAIN pend : pend[k] \in DOMAIN list,
         NEW observation,
         pend2 = Delete(pend, <<x, StepOf(x).fd>>),
         more = IF <<x, StepOf(x).fd>> \in DOMAIN pend /\ can_write(StepOf(x))
                THEN Fill(list, pend[<<x, StepOf(x).fd>>], observation) ELSE list
  PROVE  Carries(x, list, more, pend, pend2, members)
<1>. DEFINE key == <<x, StepOf(x).fd>>
            fills == key \in DOMAIN pend /\ can_write(StepOf(x))
<1>1. /\ DOMAIN more = DOMAIN list
      /\ \A i \in DOMAIN list : ~(fills /\ i = pend[key]) => more[i] = list[i]
  BY DEF Fill
<1>2. ASSUME NEW i \in DOMAIN list, fills, i = pend[key]
      PROVE  "output_hashes" \in DOMAIN more[i] /\ more[i].output_hashes # <<>>
  <2>1. "output_hashes" \in DOMAIN list[i]
    BY DEF HeldInv, Past
  <2>2. more[i] = [list[i] EXCEPT !.output_hashes = <<observation>>]
    BY <1>2 DEF Fill
  <2>3. "output_hashes" \in DOMAIN more[i] /\ more[i].output_hashes = <<observation>>
    BY <2>1, <2>2
  <2>4. <<observation>> # <<>>
    OBVIOUS
  <2>. QED
    BY <2>3, <2>4
<1>3. \A k \in DOMAIN pend : k # key => k \in DOMAIN pend2 /\ pend2[k] = pend[k]
  BY DEF Delete
<1>4. ASSUME NEW i \in DOMAIN list, Waits(list, i), ~(fills /\ i = pend[key])
      PROVE  Undisturbed(x, i, pend, pend2)
  <2>1. /\ Held(i, pend, at, members) /\ i[1][1] \in Lifetimes
        /\ i[1][2] \in Nat \ {0} /\ i[1][2] < at[i[1][1]]
    BY <1>4 DEF HeldInv, Past
  <2>2. ASSUME NEW q \in Lifetimes, Holder(q, i, at)
        PROVE  <<q, Fd(i)>> \in DOMAIN pend /\ <<q, Fd(i)>> # key
    <3>1. <<q, Fd(i)>> \in DOMAIN pend /\ pend[<<q, Fd(i)>>] = i
      BY <2>1, <2>2 DEF Held
    <3>2. ASSUME <<q, Fd(i)>> = key PROVE FALSE
      <4>1. q = x /\ Fd(i) = StepOf(x).fd
        BY <3>2
      <4>2. ~can_write(StepOf(x))
        BY <1>4, <3>1, <3>2
      <4>3. Displaces(StepOf(x), Fd(i))
        BY <4>1, <4>2 DEF Displaces
      <4>. QED
        BY <2>1, <2>2, <4>1, <4>3, NotDisplaced
    <3>. QED
      BY <3>1, <3>2
  <2>3. ASSUME NEW q \in Lifetimes, Holder(q, i, at)
        PROVE  /\ <<q, Fd(i)>> \in DOMAIN pend2
               /\ pend2[<<q, Fd(i)>>] = pend[<<q, Fd(i)>>]
    BY <1>3, <2>2, <2>3
  <2>4. Holder(x, i, at) => ~Completes(StepOf(x), Fd(i))
    BY <2>2 DEF Completes
  <2>. QED
    BY <2>3, <2>4 DEF Undisturbed
<1>. QED
  BY <1>1, <1>2, <1>4 DEF Carries
-----------------------------------------------------------------------------
(* Every event does so.                                                    *)

\* Process x is about to take a step.
Ready(x) ==
  /\ Disciplined(build) /\ names \in build.names /\ CanonInv
  /\ at \in [Lifetimes -> Nat \ {0}] /\ at[x] \in DOMAIN Program(x)
  /\ \A q \in Lifetimes : DOMAIN Program(q) \subseteq Nat \ {0}
  /\ HeldInv(ops, pending_writes, at, Lifetimes \ External)
  /\ HeldInv(external_ops, external_pending_writes, at, Lifetimes \cap External)

BothCarry(x) ==
  /\ Carries(x, ops, ops', pending_writes, pending_writes', Lifetimes \ External)
  /\ Carries(x, external_ops, external_ops', external_pending_writes,
             external_pending_writes', Lifetimes \cap External)

\* The step neither forks nor closes.
Mild(x) == StepOf(x).type \notin {"fork", "close"}

\* A step that neither forks nor closes completes no write.
LEMMA MildStep ==
  ASSUME NEW x, Mild(x)
  PROVE  StepOf(x).type # "fork" /\ \A fd : ~Completes(StepOf(x), fd)
BY DEF Mild, Completes

\* The events that name a descriptor.
LEMMA DescriptorEvent ==
  ASSUME NEW x \in Lifetimes, Ready(x), StepOf(x).type \in {"open", "mmap", "close"}
  PROVE  /\ Event(x).step.mode = StepOf(x).mode /\ Event(x).step.fd = StepOf(x).fd
         /\ Event(x).type = StepOf(x).type /\ (Event(x).external <=> x \in External)
         /\ Event(x).process[1] = x
         /\ x \notin External => ~is_watched_path(Event(x).step.path)
         /\ Event(x).step.path = NoPath <=> StepOf(x).path = NoPath
<1>. DEFINE s == StepOf(x)
<1>1. SettledStep(s, x \in External, build.names) /\ names \in build.names
  BY DEF Ready, Disciplined, StepOf, Program
<1>2. /\ {"path", "mode", "fd"} \subseteq DOMAIN s /\ s.path \in Seq(STRING)
      /\ x \notin External => ~is_watched_path(DrawnWith(names, s.path))
  BY <1>1 DEF SettledStep
<1>3. Named(s).path = Drawn(s.path) /\ Named(s).mode = s.mode /\ Named(s).fd = s.fd
  BY <1>2 DEF Named
<1>4. Drawn(s.path) = DrawnWith(names, s.path)
  BY ObservedNow
<1>5. DrawnWith(names, s.path) = NoPath <=> s.path = NoPath
  BY <1>2, DrawnPath
<1>. HIDE DEF s
<1>6. /\ Event(x).step = Named(s) /\ Event(x).type = s.type
      /\ (Event(x).external <=> x \in External) /\ Event(x).process = <<x, EpochOf(x)>>
  BY DEF Event, s
<1>. QED
  BY <1>2, <1>3, <1>4, <1>5, <1>6 DEF s

\* Nothing changes and nothing is closed or forked.
LEMMA IdleCarries ==
  ASSUME NEW x \in Lifetimes, Ready(x),
         StepOf(x).type # "fork", \A fd : ~Completes(StepOf(x), fd),
         UNCHANGED <<ops, pending_writes, external_ops, external_pending_writes>>
  PROVE  BothCarry(x)
BY AloneCarries DEF Ready, BothCarry

\* An access of the tree, and one that counts as external.
LEMMA TreeAccessCarries ==
  ASSUME NEW x \in Lifetimes, Ready(x), Mild(x),
         NEW accesses, \A op \in accesses : WellFormed(op) /\ op.op_type \notin WriteTypes,
         NEW fresh \in BOOLEAN, TreeAccess(Event(x), accesses, fresh),
         fresh => /\ x \notin External /\ Starts(StepOf(x))
                  /\ Event(x).step.fd = StepOf(x).fd
                  /\ \/ Displaces(StepOf(x), StepOf(x).fd)
                     \/ <<x, StepOf(x).fd>> \notin DOMAIN pending_writes
  PROVE  BothCarry(x)
<1>. DEFINE write == TreeOp(Event(x), "file_write", <<>>, <<>>, <<>>)
<1>1. WellFormed(write) /\ write.op_type = "file_write"
  BY TreeOpFormed DEF IsOption
<1>2. \A op : WellFormed(op) => "output_hashes" \in DOMAIN op
  BY DEF WellFormed, CanonicalOp
<1>3. Event(x).process[1] = x
  BY DEF Event
<1>4. /\ ops' = Push(ops, Event(x), accesses \cup (IF fresh THEN {write} ELSE {}))
      /\ pending_writes' = IF fresh THEN Put(pending_writes, <<x, StepOf(x).fd>>,
                                             <<Event(x).id, write.op_type>>)
                           ELSE pending_writes
      /\ UNCHANGED <<external_ops, external_pending_writes>>
  BY <1>1, <1>3 DEF TreeAccess
<1>. HIDE DEF write
<1>5. StepOf(x).type # "fork" /\ \A fd : ~Completes(StepOf(x), fd)
  BY MildStep
<1>6. fresh => x \in Lifetimes \ External
  OBVIOUS
<1>7. /\ "output_hashes" \in DOMAIN write
      /\ \A op \in accesses : "output_hashes" \in DOMAIN op /\ op.op_type \notin WriteTypes
  BY <1>1, <1>2
<1>8. Carries(x, ops, ops', pending_writes, pending_writes', Lifetimes \ External)
  BY <1>4, <1>5, <1>6, <1>7, AccessCarries DEF Ready
<1>9. Carries(x, external_ops, external_ops', external_pending_writes,
              external_pending_writes', Lifetimes \cap External)
  BY <1>4, <1>5, AloneCarries DEF Ready
<1>. QED
  BY <1>8, <1>9 DEF BothCarry

\* An external process accesses a file.
LEMMA ExternalAccessCarries ==
  ASSUME NEW x \in Lifetimes, Ready(x), Mild(x),
         NEW accesses, \A op \in accesses : WellFormed(op) /\ op.op_type \notin WriteTypes,
         NEW fresh \in BOOLEAN, ExternalAccess(Event(x), accesses, fresh),
         fresh => /\ x \in External /\ Starts(StepOf(x))
                  /\ Event(x).step.fd = StepOf(x).fd
                  /\ \/ Displaces(StepOf(x), StepOf(x).fd)
                     \/ <<x, StepOf(x).fd>> \notin DOMAIN external_pending_writes
  PROVE  BothCarry(x)
<1>. DEFINE write == ExternalOp("external_file_write", <<>>, <<>>, <<>>)
<1>1. WellFormed(write) /\ write.op_type = "external_file_write"
  BY ExternalOpFormed DEF IsOption
<1>2. \A op : WellFormed(op) => "output_hashes" \in DOMAIN op
  BY DEF WellFormed, CanonicalOp
<1>3. Event(x).process[1] = x
  BY DEF Event
<1>4. /\ external_ops' =
           Push(external_ops, Event(x), accesses \cup (IF fresh THEN {write} ELSE {}))
      /\ external_pending_writes' =
           IF fresh THEN Put(external_pending_writes, <<x, StepOf(x).fd>>,
                             <<Event(x).id, write.op_type>>)
           ELSE external_pending_writes
      /\ UNCHANGED <<ops, pending_writes>>
  BY <1>1, <1>3 DEF ExternalAccess
<1>. HIDE DEF write
<1>5. StepOf(x).type # "fork" /\ \A fd : ~Completes(StepOf(x), fd)
  BY MildStep
<1>6. fresh => x \in Lifetimes \cap External
  OBVIOUS
<1>7. /\ "output_hashes" \in DOMAIN write
      /\ \A op \in accesses : "output_hashes" \in DOMAIN op /\ op.op_type \notin WriteTypes
  BY <1>1, <1>2
<1>8. Carries(x, external_ops, external_ops', external_pending_writes,
              external_pending_writes', Lifetimes \cap External)
  BY <1>4, <1>5, <1>6, <1>7, AccessCarries DEF Ready
<1>9. Carries(x, ops, ops', pending_writes, pending_writes', Lifetimes \ External)
  BY <1>4, <1>5, AloneCarries DEF Ready
<1>. QED
  BY <1>8, <1>9 DEF BothCarry

\* An open.
LEMMA OpenCarries ==
  ASSUME NEW x \in Lifetimes, Ready(x), CanonOpen(Event(x))
  PROVE  BothCarry(x)
<1>. DEFINE e == Event(x)
            s == StepOf(x)
            v == e.observation
            tree == TreeOp(e, "file_read", <<>>, <<v>>, <<>>)
            external == ExternalOp("external_file_read", <<>>, <<v>>, <<>>)
            state == SystemStateRead(e)
<1>0. s.type = "open" /\ Mild(x)
  BY DEF CanonOpen, Event, Mild
<1>1. /\ e.step.mode = s.mode /\ e.step.fd = s.fd
      /\ (e.external <=> x \in External) /\ e.process[1] = x
      /\ x \notin External => ~is_watched_path(e.step.path)
  BY <1>0, DescriptorEvent
<1>2. IsOption(<<>>) /\ IsOption(<<v>>) /\ IsOption(<< <<"system", "state">> >>)
  BY DEF IsOption
<1>3. WellFormed(tree) /\ tree.op_type = "file_read"
  BY <1>2, TreeOpFormed
<1>4. WellFormed(external) /\ external.op_type = "external_file_read"
  BY <1>2, ExternalOpFormed
<1>5. WellFormed(state) /\ state.op_type = "system_state_read"
  BY <1>2, TreeOpFormed DEF SystemStateRead
<1>6. /\ can_write(e.step) \in BOOLEAN
      /\ can_write(e.step) => Starts(s) /\ Displaces(s, s.fd)
  BY <1>0, <1>1 DEF can_write, Starts, Displaces
<1>7. \/ UNCHANGED canonVars
      \/ /\ x \in External
         /\ ExternalAccess(e, IF can_read(e.step) THEN {external} ELSE {}, can_write(e.step))
      \/ TreeAccess(e, {state}, FALSE)
      \/ /\ x \notin External
         /\ TreeAccess(e, IF can_read(e.step) THEN {tree} ELSE {}, can_write(e.step))
  BY <1>1 DEF CanonOpen, IgnoredOpen, AsExternal, FallbackExternal
<1>. HIDE DEF tree, external, state, s
<1>8. CASE UNCHANGED canonVars
  <2>1. UNCHANGED <<ops, pending_writes, external_ops, external_pending_writes>>
    BY <1>8 DEF canonVars, opsVars
  <2>. QED
    BY <1>0, <2>1, MildStep, IdleCarries
<1>9. CASE /\ x \in External
           /\ ExternalAccess(e, IF can_read(e.step) THEN {external} ELSE {}, can_write(e.step))
  <2>. DEFINE accesses == IF can_read(e.step) THEN {external} ELSE {}
  <2>1. \A op \in accesses : WellFormed(op) /\ op.op_type \notin WriteTypes
    BY <1>4 DEF WriteTypes
  <2>2. ExternalAccess(e, accesses, can_write(e.step)) /\ x \in External
    BY <1>9
  <2>. HIDE DEF accesses
  <2>. QED
    BY <1>0, <1>1, <1>6, <2>1, <2>2, ExternalAccessCarries DEF s
<1>10. CASE TreeAccess(e, {state}, FALSE)
  <2>1. \A op \in {state} : WellFormed(op) /\ op.op_type \notin WriteTypes
    BY <1>5 DEF WriteTypes
  <2>. QED
    BY <1>0, <1>10, <2>1, TreeAccessCarries
<1>11. CASE /\ x \notin External
            /\ TreeAccess(e, IF can_read(e.step) THEN {tree} ELSE {}, can_write(e.step))
  <2>. DEFINE accesses == IF can_read(e.step) THEN {tree} ELSE {}
  <2>1. \A op \in accesses : WellFormed(op) /\ op.op_type \notin WriteTypes
    BY <1>3 DEF WriteTypes
  <2>2. TreeAccess(e, accesses, can_write(e.step)) /\ x \notin External
    BY <1>11
  <2>. HIDE DEF accesses
  <2>. QED
    BY <1>0, <1>1, <1>6, <2>1, <2>2, TreeAccessCarries DEF s
<1>. QED
  BY <1>7, <1>8, <1>9, <1>10, <1>11

\* A mapping.
LEMMA MmapCarries ==
  ASSUME NEW x \in Lifetimes, Ready(x), CanonMmap(Event(x))
  PROVE  BothCarry(x)
<1>. DEFINE e == Event(x)
            s == StepOf(x)
            v == e.observation
            mmap == << <<"arg", "mmap">> >>
            key == <<x, s.fd>>
            fresh == s.mode = "rw" /\ key \notin DOMAIN pending_writes
            freshExternal == s.mode = "rw" /\ key \notin DOMAIN external_pending_writes
            tree == TreeOp(e, "file_read", mmap, <<v>>, <<>>)
            external == ExternalOp("external_file_read", mmap, <<v>>, <<>>)
            state == SystemStateRead(e)
<1>0. s.type = "mmap" /\ Mild(x) /\ fresh \in BOOLEAN /\ freshExternal \in BOOLEAN
  BY DEF CanonMmap, Event, Mild
<1>1. /\ e.step.mode = s.mode /\ e.step.fd = s.fd
      /\ (e.external <=> x \in External) /\ e.process[1] = x
      /\ x \notin External => ~is_watched_path(e.step.path)
  BY <1>0, DescriptorEvent
<1>2. IsOption(<<>>) /\ IsOption(<<v>>) /\ IsOption(<< <<"system", "state">> >>)
      /\ IsOption(mmap)
  BY DEF IsOption
<1>3. WellFormed(tree) /\ tree.op_type = "file_read"
  BY <1>2, TreeOpFormed
<1>4. WellFormed(external) /\ external.op_type = "external_file_read"
  BY <1>2, ExternalOpFormed
<1>5. WellFormed(state) /\ state.op_type = "system_state_read"
  BY <1>2, TreeOpFormed DEF SystemStateRead
<1>6. s.mode = "rw" => Starts(s)
  BY <1>0 DEF Starts
<1>7. \/ UNCHANGED canonVars
      \/ x \in External /\ ExternalAccess(e, {external}, freshExternal)
      \/ TreeAccess(e, {state}, FALSE)
      \/ x \notin External /\ TreeAccess(e, {tree}, fresh)
  BY <1>1 DEF CanonMmap, AsExternal, FallbackExternal
<1>. HIDE DEF tree, external, state, s
<1>8. CASE UNCHANGED canonVars
  <2>1. UNCHANGED <<ops, pending_writes, external_ops, external_pending_writes>>
    BY <1>8 DEF canonVars, opsVars
  <2>. QED
    BY <1>0, <2>1, MildStep, IdleCarries
<1>9. CASE x \in External /\ ExternalAccess(e, {external}, freshExternal)
  <2>1. \A op \in {external} : WellFormed(op) /\ op.op_type \notin WriteTypes
    BY <1>4 DEF WriteTypes
  <2>. QED
    BY <1>0, <1>1, <1>6, <1>9, <2>1, ExternalAccessCarries DEF s
<1>10. CASE TreeAccess(e, {state}, FALSE)
  <2>1. \A op \in {state} : WellFormed(op) /\ op.op_type \notin WriteTypes
    BY <1>5 DEF WriteTypes
  <2>. QED
    BY <1>0, <1>10, <2>1, TreeAccessCarries
<1>11. CASE x \notin External /\ TreeAccess(e, {tree}, fresh)
  <2>1. \A op \in {tree} : WellFormed(op) /\ op.op_type \notin WriteTypes
    BY <1>3 DEF WriteTypes
  <2>. QED
    BY <1>0, <1>1, <1>6, <1>11, <2>1, TreeAccessCarries DEF s
<1>. QED
  BY <1>7, <1>8, <1>9, <1>10, <1>11

\* A close.
LEMMA ClosedCarries ==
  ASSUME NEW x \in Lifetimes, Ready(x), CanonClose(Event(x))
  PROVE  BothCarry(x)
<1>. DEFINE e == Event(x)
            s == StepOf(x)
            key == <<x, s.fd>>
<1>0. s.type = "close" /\ s.type # "fork"
  BY DEF CanonClose, Event
<1>1. /\ e.step.mode = s.mode /\ e.step.fd = s.fd
      /\ (e.external <=> x \in External) /\ e.process[1] = x
      /\ x \notin External => ~is_watched_path(e.step.path)
      /\ e.step.path = NoPath <=> s.path = NoPath
  BY <1>0, DescriptorEvent
<1>2. can_write(e.step) <=> can_write(s)
  BY <1>1 DEF can_write
<1>3. \/ s.path = NoPath /\ UNCHANGED opsVars
      \/ /\ s.path # NoPath /\ x \in External
         /\ external_pending_writes' = Delete(external_pending_writes, key)
         /\ external_ops' =
              IF key \in DOMAIN external_pending_writes /\ can_write(s)
              THEN Fill(external_ops, external_pending_writes[key], e.observation)
              ELSE external_ops
         /\ UNCHANGED <<pending_writes, ops>>
      \/ /\ s.path # NoPath /\ x \notin External
         /\ pending_writes' = Delete(pending_writes, key)
         /\ ops' = IF key \in DOMAIN pending_writes /\ can_write(s)
                   THEN Fill(ops, pending_writes[key], e.observation) ELSE ops
         /\ UNCHANGED <<external_pending_writes, external_ops>>
  BY <1>1, <1>2 DEF CanonClose
<1>4. /\ \A k \in DOMAIN pending_writes : pending_writes[k] \in DOMAIN ops
      /\ \A k \in DOMAIN external_pending_writes :
           external_pending_writes[k] \in DOMAIN external_ops
  BY DEF Ready, CanonInv, Pending
<1>5. CASE s.path = NoPath /\ UNCHANGED opsVars
  <2>1. \A fd : ~Completes(s, fd)
    BY <1>5 DEF Completes
  <2>2. UNCHANGED <<ops, pending_writes, external_ops, external_pending_writes>>
    BY <1>5 DEF opsVars
  <2>. QED
    BY <1>0, <2>1, <2>2, IdleCarries
<1>6. CASE /\ s.path # NoPath /\ x \in External
           /\ external_pending_writes' = Delete(external_pending_writes, key)
           /\ external_ops' =
                IF key \in DOMAIN external_pending_writes /\ can_write(s)
                THEN Fill(external_ops, external_pending_writes[key], e.observation)
                ELSE external_ops
           /\ UNCHANGED <<pending_writes, ops>>
  <2>1. Carries(x, external_ops, external_ops', external_pending_writes,
                external_pending_writes', Lifetimes \cap External)
    BY <1>0, <1>4, <1>6, CloseCarries DEF Ready
  <2>2. Carries(x, ops, ops', pending_writes, pending_writes', Lifetimes \ External)
    BY <1>6, AloneCarries DEF Ready
  <2>. QED
    BY <2>1, <2>2 DEF BothCarry
<1>7. CASE /\ s.path # NoPath /\ x \notin External
           /\ pending_writes' = Delete(pending_writes, key)
           /\ ops' = IF key \in DOMAIN pending_writes /\ can_write(s)
                     THEN Fill(ops, pending_writes[key], e.observation) ELSE ops
           /\ UNCHANGED <<external_pending_writes, external_ops>>
  <2>1. Carries(x, ops, ops', pending_writes, pending_writes', Lifetimes \ External)
    BY <1>0, <1>4, <1>7, CloseCarries DEF Ready
  <2>2. Carries(x, external_ops, external_ops', external_pending_writes,
                external_pending_writes', Lifetimes \cap External)
    BY <1>7, AloneCarries DEF Ready
  <2>. QED
    BY <2>1, <2>2 DEF BothCarry
<1>. QED
  BY <1>3, <1>5, <1>6, <1>7

\* A rename or an unlink.
LEMMA MovedCarries ==
  ASSUME NEW x \in Lifetimes, Ready(x), Mild(x),
         NEW paths, NEW ty \in {"file_rename", "file_delete"},
         NEW xty \in {"external_file_rename", "external_file_delete"},
         NEW outs, IsOption(outs), Moved(Event(x), paths, ty, xty, outs)
  PROVE  BothCarry(x)
<1>. DEFINE e == Event(x)
            flags == << <<"flags", "0x0">> >>
            external == ExternalOp(xty, flags, <<e.observation>>, outs)
            tree == TreeOp(e, ty, flags, <<e.observation>>, outs)
<1>1. IsOption(flags) /\ IsOption(<<e.observation>>)
  BY DEF IsOption
<1>2. \A op \in {external} : WellFormed(op) /\ op.op_type \notin WriteTypes
  BY <1>1, ExternalOpFormed DEF WriteTypes
<1>3. \A op \in {tree} : WellFormed(op) /\ op.op_type \notin WriteTypes
  BY <1>1, TreeOpFormed DEF WriteTypes
<1>4. \/ ExternalAccess(e, {external}, FALSE)
      \/ TreeAccess(e, {tree}, FALSE)
  BY DEF Moved
<1>. HIDE DEF external, tree
<1>. QED
  BY <1>2, <1>3, <1>4, ExternalAccessCarries, TreeAccessCarries

\* An exec, or an exit, pushes one operation.
LEMMA PushedCarries ==
  ASSUME NEW x \in Lifetimes, Ready(x), Mild(x),
         NEW op, WellFormed(op), op.op_type \notin WriteTypes,
         ops' = Push(ops, Event(x), {op}),
         UNCHANGED <<pending_writes, external_ops, external_pending_writes>>
  PROVE  BothCarry(x)
<1>. DEFINE accesses == {op}
            fresh == FALSE
<1>1. "output_hashes" \in DOMAIN op
  BY DEF WellFormed, CanonicalOp
<1>2. StepOf(x).type # "fork" /\ \A fd : ~Completes(StepOf(x), fd)
  BY MildStep
<1>3. {op} = accesses \cup (IF fresh THEN {op} ELSE {})
  OBVIOUS
<1>4. /\ ops' = Push(ops, Event(x), accesses \cup (IF fresh THEN {op} ELSE {}))
      /\ pending_writes' = IF fresh THEN Put(pending_writes, <<x, StepOf(x).fd>>,
                                             <<Event(x).id, op.op_type>>)
                           ELSE pending_writes
  BY <1>3
<1>5. \A o \in accesses : "output_hashes" \in DOMAIN o /\ o.op_type \notin WriteTypes
  BY <1>1
<1>6. fresh \in BOOLEAN /\ ~fresh
  OBVIOUS
<1>. HIDE DEF accesses, fresh
<1>7. Carries(x, ops, ops', pending_writes, pending_writes', Lifetimes \ External)
  BY <1>1, <1>2, <1>4, <1>5, <1>6, AccessCarries DEF Ready
<1>8. Carries(x, external_ops, external_ops', external_pending_writes,
              external_pending_writes', Lifetimes \cap External)
  BY <1>2, AloneCarries DEF Ready
<1>. QED
  BY <1>7, <1>8 DEF BothCarry

\* Every event but a fork.
LEMMA EventCarries ==
  ASSUME NEW x \in Lifetimes, Ready(x), CanonStep(Event(x)), StepOf(x).type # "fork"
  PROVE  BothCarry(x)
<1>. DEFINE e == Event(x)
<1>0. e.type = StepOf(x).type
  BY DEF Event
<1>1. CASE CanonOpen(e)
  BY <1>1, OpenCarries
<1>2. CASE CanonMmap(e)
  BY <1>2, MmapCarries
<1>3. CASE CanonClose(e)
  BY <1>3, ClosedCarries
<1>4. CASE CanonRename(e)
  <2>1. Mild(x) /\ IsOption(<<e.observation>>)
    BY <1>0, <1>4 DEF CanonRename, Mild, IsOption
  <2>. QED
    BY <1>4, <2>1, MovedCarries DEF CanonRename
<1>5. CASE CanonUnlink(e)
  <2>1. Mild(x) /\ IsOption(<<>>)
    BY <1>0, <1>5 DEF CanonUnlink, Mild, IsOption
  <2>. QED
    BY <1>5, <2>1, MovedCarries DEF CanonUnlink
<1>6. CASE CanonExec(e)
  <2>. DEFINE op == CanonicalOp("exec", IndexWith(e.process)[e.process],
                                <<e.observation>>, <<>>, <<>>, <<>>)
  <2>1. /\ Mild(x) /\ ops' = Push(ops, e, {op})
        /\ UNCHANGED <<pending_writes, external_ops, external_pending_writes>>
    BY <1>0, <1>6 DEF CanonExec, Mild
  <2>2. IsOption(<<>>) /\ IsOption(<<e.observation>>)
    BY DEF IsOption
  <2>3. WellFormed(op) /\ op.op_type \notin WriteTypes
    BY <2>2, OpFormed DEF WriteTypes
  <2>. HIDE DEF op
  <2>. QED
    BY <2>1, <2>3, PushedCarries
<1>7. CASE CanonExit(e)
  <2>. DEFINE args == IF e.process[1] = Root THEN << <<"exit", e.step.code>> >> ELSE <<>>
              op == TreeOp(e, "exit", args, <<>>, <<>>)
  <2>1. /\ Mild(x) /\ (ops' = Push(ops, e, {op}) \/ ops' = ops)
        /\ UNCHANGED <<pending_writes, external_ops, external_pending_writes>>
    BY <1>0, <1>7 DEF CanonExit, Mild
  <2>2. IsOption(<<>>) /\ IsOption(args)
    BY DEF IsOption
  <2>3. WellFormed(op) /\ op.op_type \notin WriteTypes
    BY <2>2, TreeOpFormed DEF WriteTypes
  <2>. HIDE DEF op
  <2>4. CASE ops' = ops
    BY <2>1, <2>4, MildStep, IdleCarries
  <2>. QED
    BY <2>1, <2>3, <2>4, PushedCarries
<1>8. ~CanonFork(e)
  BY <1>0 DEF CanonFork
<1>. QED
  BY <1>1, <1>2, <1>3, <1>4, <1>5, <1>6, <1>7, <1>8 DEF CanonStep

\* A fork gives the child what its parent holds.
LEMMA ForkHeld ==
  ASSUME NEW x \in Lifetimes, Ready(x), Enabled(x), CanonFork(Event(x)),
         \A p \in Lifetimes : at[p] # 1 => Started(p),
         NEW when, when = [at EXCEPT ![x] = @ + 1],
         StepOf(x).child \in Lifetimes, "child" \in DOMAIN StepOf(x)
  PROVE  HeldInv(ops', pending_writes', when, Lifetimes \ External)
<1>. DEFINE e == Event(x)
            c == StepOf(x).child
            n == at[x]
            members == Lifetimes \ External
            inherited == {k \in DOMAIN pending_writes : k[1] = x}
            copies == {<<c, k[2]>> : k \in inherited}
<1>0. e.process[1] = x /\ e.step.child = c /\ e.type = StepOf(x).type
  <2>1. Named(StepOf(x)).child = StepOf(x).child
    BY DEF Named
  <2>. QED
    BY <2>1 DEF Event
<1>1. /\ StepOf(x).type = "fork" /\ ops' = ops
      /\ pending_writes' =
           [k \in DOMAIN pending_writes \cup copies |->
              IF k \in copies THEN pending_writes[<<x, k[2]>>] ELSE pending_writes[k]]
  BY <1>0 DEF CanonFork
<1>2. n \in Nat \ {0} /\ when[x] = n + 1 /\ n \in Forks(x, c)
      /\ \A q \in Lifetimes : at[q] \in Nat \ {0} /\ (q # x => when[q] = at[q])
  BY <1>1 DEF Ready, Forks, StepOf
<1>3. c # x /\ \A q \in Lifetimes : \A f \in Forks(q, c) : q = x /\ f = n
  BY <1>2, ForksAre DEF Ready, Disciplined
<1>4. at[c] = 1 /\ when[c] = 1
  <2>1. ~Started(c)
    BY <1>2 DEF Started
  <2>. QED
    BY <1>2, <1>3, <2>1
<1>5. \A k \in DOMAIN pending_writes : k = <<k[1], k[2]>>
  BY DEF Ready, CanonInv, Pending
<1>6. ASSUME NEW q, NEW fd, q # c, <<q, fd>> \in DOMAIN pending_writes
      PROVE  <<q, fd>> \in DOMAIN pending_writes'
             /\ pending_writes'[<<q, fd>>] = pending_writes[<<q, fd>>]
  BY <1>1, <1>6
<1>7. ASSUME NEW fd, <<x, fd>> \in DOMAIN pending_writes
      PROVE  <<c, fd>> \in DOMAIN pending_writes'
             /\ pending_writes'[<<c, fd>>] = pending_writes[<<x, fd>>]
  <2>1. <<c, fd>> \in copies
    BY <1>7
  <2>. QED
    BY <1>1, <2>1
<1>. HIDE DEF c, n, copies, inherited, members
<1>8. ASSUME NEW i \in DOMAIN ops, Waits(ops, i)
      PROVE  Held(i, pending_writes', when, members)
  <2>. DEFINE p == i[1][1]
              k == i[1][2]
  <2>1. /\ Held(i, pending_writes, at, members) /\ p \in Lifetimes
        /\ k \in Nat \ {0} /\ k < at[p]
    BY <1>8 DEF Ready, HeldInv, Past, members
  <2>2. p # c
    BY <1>4, <2>1
  <2>3. ASSUME NEW q \in Lifetimes, q # c, Holder(q, i, when)
        PROVE  Holder(q, i, at)
    <3>1. ASSUME NEW f \in Forks(p, q), k < f, f < when[p] PROVE f < at[p]
      <4>1. f \in Nat /\ f \in DOMAIN Program(p) /\ Program(p)[f].type = "fork"
            /\ Program(p)[f].child = q
        BY <2>1 DEF Ready, Forks
      <4>2. p = x => f # n
        BY <2>3, <4>1 DEF StepOf, c, n
      <4>. QED
        BY <1>2, <2>1, <3>1, <4>1, <4>2 DEF n
    <3>. QED
      BY <2>3, <3>1 DEF Holder
  <2>4. ASSUME NEW q \in Lifetimes, Holder(q, i, when)
        PROVE  /\ <<q, Fd(i)>> \in DOMAIN pending_writes'
               /\ pending_writes'[<<q, Fd(i)>>] = i
               /\ \A j \in DOMAIN Program(q) :
                    Since(q, i) < j /\ j < when[q] => ~Completes(Program(q)[j], Fd(i))
    <3>1. CASE q # c
      <4>1. Holder(q, i, at)
        BY <2>3, <2>4, <3>1
      <4>2. /\ <<q, Fd(i)>> \in DOMAIN pending_writes
            /\ pending_writes[<<q, Fd(i)>>] = i
            /\ \A j \in DOMAIN Program(q) :
                 Since(q, i) < j /\ j < at[q] => ~Completes(Program(q)[j], Fd(i))
        BY <2>1, <4>1 DEF Held
      <4>3. ASSUME NEW j \in DOMAIN Program(q), Since(q, i) < j, j < when[q]
            PROVE  ~Completes(Program(q)[j], Fd(i))
        <5>1. j \in Nat
          BY DEF Ready
        <5>2. CASE j < at[q]
          BY <4>2, <4>3, <5>2
        <5>3. CASE ~(j < at[q])
          <6>1. q = x /\ j = n
            BY <1>2, <4>3, <5>1, <5>3 DEF n
          <6>. QED
            BY <1>1, <6>1 DEF Completes, StepOf, n
        <5>. QED
          BY <5>2, <5>3
      <4>. QED
        BY <1>6, <3>1, <4>2, <4>3
    <3>2. CASE q = c
      <4>1. p = x
        BY <1>3, <2>1, <2>2, <2>4, <3>2 DEF Holder
      <4>2. Holder(x, i, at)
        BY <4>1 DEF Holder
      <4>3. <<x, Fd(i)>> \in DOMAIN pending_writes /\ pending_writes[<<x, Fd(i)>>] = i
        BY <2>1, <4>2 DEF Held
      <4>4. ASSUME NEW j \in DOMAIN Program(q), j < when[q] PROVE FALSE
        <5>1. j \in Nat \ {0}
          BY DEF Ready
        <5>. QED
          BY <1>4, <3>2, <4>4, <5>1
      <4>. QED
        BY <1>7, <3>2, <4>3, <4>4
    <3>. QED
      BY <3>1, <3>2
  <2>5. /\ p \in members /\ k \in DOMAIN Program(p) /\ Starts(Program(p)[k])
    BY <2>1 DEF Held
  <2>. QED
    BY <2>4, <2>5 DEF Held
<1>9. Past(ops, when)
  <2>1. \A q \in Lifetimes : at[q] \in Nat /\ when[q] \in Nat /\ at[q] <= when[q]
    BY <1>2 DEF n
  <2>. QED
    BY <2>1 DEF Ready, HeldInv, Past
<1>. QED
  BY <1>1, <1>8, <1>9 DEF HeldInv, members
-----------------------------------------------------------------------------
(* Through a run.                                                          *)

\* Where the build stays, WritesInv is about the lists and where the
\* processes stand.
LEMMA WritesSame ==
  ASSUME UNCHANGED build
  PROVE  WritesInv' <=>
           /\ names' \in build.names
           /\ \A p \in Lifetimes : at'[p] # 1 => Started(p)'
           /\ lost' = 0 =>
                /\ HeldInv(ops', pending_writes', at', Lifetimes \ External)
                /\ HeldInv(external_ops', external_pending_writes', at', Lifetimes \cap External)
<1>1. \A q : Program(q)' = Program(q)
  BY DEF Program
<1>2. \A list, pend, when, members :
        HeldInv(list, pend, when, members)' <=> HeldInv(list, pend, when, members)
  BY DEF HeldInv, Past, Waits, Held, Holder, Since, Fd, Forks, Program
<1>. QED
  BY <1>1 DEF WritesInv, HeldInv, Past, Waits, Held, Holder, Since, Fd, Forks, Program

\* Nobody has taken a step before it was forked.
LEMMA StartedKept ==
  ASSUME EpochInv, \A p \in Lifetimes : at[p] # 1 => Started(p),
         NEW x \in Lifetimes, Enabled(x), Advance(x)
  PROVE  \A p \in Lifetimes : at'[p] # 1 => Started(p)'
<1>1. /\ at' = [at EXCEPT ![x] = @ + 1] /\ build' = build /\ Started(x)
      /\ at \in [Lifetimes -> Nat \ {0}]
  BY DEF Advance, Enabled, EpochInv
<1>. SUFFICES ASSUME NEW p \in Lifetimes, at'[p] # 1 PROVE Started(p)'
  OBVIOUS
<1>2. Started(p)
  BY <1>1
<1>3. ASSUME NEW q \in Lifetimes, NEW k \in Forks(q, p) PROVE at'[q] > k
  <2>1. at[q] > k /\ k \in Nat
    <3>1. k \in DOMAIN Program(q)
      BY <1>3 DEF Forks
    <3>. QED
      BY <1>2, <3>1, ProgramShape DEF Started
  <2>. QED
    BY <1>1, <2>1
<1>4. \A q : Forks(q, p)' = Forks(q, p)
  BY <1>1 DEF Forks, Program
<1>. QED
  BY <1>3, <1>4 DEF Started

\* An event is delivered.
LEMMA WritesDelivered ==
  ASSUME EpochInv, CanonInv, Disciplined(build), WritesInv, NEW x \in Lifetimes, Deliver(x)
  PROVE  WritesInv'
<1>1. /\ Enabled(x) /\ Running(x) /\ Advance(x) /\ CanonStep(Event(x)) /\ lost' = lost
  BY DEF Deliver, Enabled, runVars
<1>2. /\ at \in [Lifetimes -> Nat \ {0}] /\ at[x] \in DOMAIN Program(x)
      /\ \A q \in Lifetimes : DOMAIN Program(q) \subseteq Nat \ {0}
  BY <1>1, ProgramShape
<1>3. UNCHANGED <<build, names>> /\ at' = [at EXCEPT ![x] = @ + 1]
  BY <1>1 DEF Advance
<1>4. names' \in build.names /\ \A p \in Lifetimes : at'[p] # 1 => Started(p)'
  BY <1>1, <1>3, StartedKept DEF WritesInv
<1>5. ASSUME lost = 0
      PROVE  /\ HeldInv(ops', pending_writes', at', Lifetimes \ External)
             /\ HeldInv(external_ops', external_pending_writes', at', Lifetimes \cap External)
  <2>1. Ready(x)
    BY <1>2, <1>5 DEF Ready, WritesInv
  <2>2. CASE StepOf(x).type # "fork"
    <3>1. BothCarry(x)
      BY <1>1, <2>1, <2>2, EventCarries
    <3>2. HeldInv(ops', pending_writes', at', Lifetimes \ External)
      BY <1>2, <1>3, <2>1, <3>1, CarriedHeld DEF Ready, BothCarry
    <3>3. HeldInv(external_ops', external_pending_writes', at', Lifetimes \cap External)
      BY <1>2, <1>3, <2>1, <3>1, CarriedHeld DEF Ready, BothCarry
    <3>. QED
      BY <3>2, <3>3
  <2>3. CASE StepOf(x).type = "fork"
    <3>1. "child" \in DOMAIN StepOf(x) /\ StepOf(x).child \in Lifetimes
      BY <1>2, <2>3, BuildsUnderstood DEF Understood, EpochInv, Program, StepOf
    <3>2. SettledStep(StepOf(x), x \in External, build.names)
      BY <1>2 DEF Disciplined, StepOf, Program
    <3>3. x \notin External
      BY <2>3, <3>2 DEF SettledStep
    <3>4. CanonFork(Event(x))
      <4>1. Event(x).type = "fork"
        BY <2>3 DEF Event
      <4>. QED
        BY <1>1, <4>1 DEF CanonStep, CanonExec, CanonOpen, CanonMmap, CanonClose,
                          CanonRename, CanonUnlink, CanonExit
    <3>5. HeldInv(ops', pending_writes', at', Lifetimes \ External)
      BY <1>1, <1>3, <2>1, <3>1, <3>4, ForkHeld DEF WritesInv
    <3>6. UNCHANGED <<external_ops, external_pending_writes>>
      BY <3>4 DEF CanonFork
    <3>7. Carries(x, external_ops, external_ops', external_pending_writes,
                  external_pending_writes', Lifetimes \cap External)
      BY <2>1, <3>3, <3>6, AloneCarries DEF Ready
    <3>8. HeldInv(external_ops', external_pending_writes', at', Lifetimes \cap External)
      BY <1>2, <1>3, <2>1, <3>7, CarriedHeld DEF Ready
    <3>. QED
      BY <3>5, <3>8
  <2>. QED
    BY <2>2, <2>3
<1>. QED
  BY <1>1, <1>3, <1>4, <1>5, WritesSame

\* A step that leaves no event: a wait, or one whose event is lost.
LEMMA WritesAdvanced ==
  ASSUME EpochInv, CanonInv, Disciplined(build), WritesInv, NEW x \in Lifetimes,
         Enabled(x), Advance(x), UNCHANGED canonVars,
         lost' # 0 \/ (lost' = lost /\ Mild(x))
  PROVE  WritesInv'
<1>1. /\ at \in [Lifetimes -> Nat \ {0}] /\ at[x] \in DOMAIN Program(x)
      /\ \A q \in Lifetimes : DOMAIN Program(q) \subseteq Nat \ {0}
  BY ProgramShape DEF Enabled
<1>2. UNCHANGED <<build, names, ops, pending_writes, external_ops, external_pending_writes>>
      /\ at' = [at EXCEPT ![x] = @ + 1]
  BY DEF Advance, canonVars, opsVars
<1>3. names' \in build.names /\ \A p \in Lifetimes : at'[p] # 1 => Started(p)'
  BY <1>2, StartedKept DEF WritesInv
<1>4. ASSUME lost' = 0
      PROVE  /\ HeldInv(ops', pending_writes', at', Lifetimes \ External)
             /\ HeldInv(external_ops', external_pending_writes', at', Lifetimes \cap External)
  <2>1. Ready(x) /\ Mild(x)
    BY <1>1, <1>4 DEF Ready, WritesInv
  <2>2. BothCarry(x)
    BY <1>2, <2>1, MildStep, IdleCarries
  <2>3. HeldInv(ops', pending_writes', at', Lifetimes \ External)
    BY <1>1, <1>2, <2>1, <2>2, CarriedHeld DEF Ready, BothCarry
  <2>4. HeldInv(external_ops', external_pending_writes', at', Lifetimes \cap External)
    BY <1>1, <1>2, <2>1, <2>2, CarriedHeld DEF Ready, BothCarry
  <2>. QED
    BY <2>3, <2>4
<1>. QED
  BY <1>2, <1>3, <1>4, WritesSame

\* Steps that leave the build and its operations alone.
LEMMA WritesQuiet ==
  ASSUME WritesInv, UNCHANGED <<buildVars, canonVars, lost>>
  PROVE  WritesInv'
<1>1. UNCHANGED <<build, names, at, ops, pending_writes, external_ops,
                  external_pending_writes, lost>>
  BY DEF buildVars, canonVars, opsVars
<1>2. \A p \in Lifetimes : Started(p)' <=> Started(p)
  BY <1>1 DEF Started, Forks, Program
<1>. QED
  BY <1>1, <1>2, WritesSame DEF WritesInv

\* Before the first step nothing is listed.
LEMMA WritesStart ==
  ASSUME NEW pend, NEW when, NEW members
  PROVE  HeldInv(<<>>, pend, when, members)
<1>1. DOMAIN <<>> = {}
  OBVIOUS
<1>. QED
  BY <1>1 DEF HeldInv, Past

\* A run begins.
LEMMA WritesBegin ==
  ASSUME WritesInv, BeginRun
  PROVE  WritesInv'
<1>1. /\ build' = build /\ names' \in build.names
      /\ ops' = <<>> /\ external_ops' = <<>> /\ at' = [p \in Lifetimes |-> 1]
  BY DEF BeginRun, CanonReset
<1>2. /\ HeldInv(ops', pending_writes', at', Lifetimes \ External)
      /\ HeldInv(external_ops', external_pending_writes', at', Lifetimes \cap External)
  BY <1>1, WritesStart
<1>. QED
  BY <1>1, <1>2, WritesSame

\* In the beginning.
LEMMA WritesInitially == Init => WritesInv
<1>. SUFFICES ASSUME Init PROVE WritesInv
  OBVIOUS
<1>1. /\ names \in build.names
      /\ ops = <<>> /\ external_ops = <<>> /\ at = [p \in Lifetimes |-> 1]
  BY DEF Init, CanonInit
<1>2. /\ HeldInv(ops, pending_writes, at, Lifetimes \ External)
      /\ HeldInv(external_ops, external_pending_writes, at, Lifetimes \cap External)
  BY <1>1, WritesStart
<1>. QED
  BY <1>1, <1>2 DEF WritesInv

\* Said of builds that use descriptors so.
DisciplinedInv == Disciplined(build) => WritesInv

\* Every step keeps the writes.
LEMMA WritesNext == ShapeInv /\ DisciplinedInv /\ [Next]_vars => DisciplinedInv'
<1>. SUFFICES ASSUME ShapeInv, DisciplinedInv, [Next]_vars PROVE DisciplinedInv'
  OBVIOUS
<1>1. build' = build
  BY DEF Next, Trace, ResetWorkspace, Verify, HarnessAgain, BeginRun, VerifyRefused,
         Deliver, Lose, Wait, Advance, EndFailed, EndTrace, WalkStep, Emit, vars, buildVars
<1>. SUFFICES ASSUME Disciplined(build) PROVE WritesInv'
  BY <1>1 DEF DisciplinedInv
<1>2. WritesInv /\ EpochInv /\ CanonInv
  BY DEF DisciplinedInv, ShapeInv
<1>3. CASE Trace \/ Verify \/ HarnessAgain
  BY <1>2, <1>3, WritesBegin DEF Trace, Verify, HarnessAgain
<1>4. CASE ResetWorkspace
  BY <1>2, <1>4, WritesQuiet DEF ResetWorkspace
<1>5. ASSUME NEW sel, VerifyRefused(sel) PROVE WritesInv'
  BY <1>2, <1>5, WritesQuiet DEF VerifyRefused
<1>6. ASSUME NEW x \in Lifetimes, Deliver(x) PROVE WritesInv'
  BY <1>2, <1>6, WritesDelivered
<1>7. ASSUME NEW x \in Lifetimes, Lose(x) PROVE WritesInv'
  <2>1. Enabled(x) /\ Advance(x) /\ UNCHANGED canonVars /\ lost' # 0
    BY <1>7 DEF Lose, ShapeInv
  <2>. QED
    BY <1>2, <2>1, WritesAdvanced
<1>8. ASSUME NEW x \in Lifetimes, Wait(x) PROVE WritesInv'
  <2>1. Enabled(x) /\ Advance(x) /\ UNCHANGED canonVars /\ lost' = lost /\ Mild(x)
    BY <1>8 DEF Wait, runVars, Mild
  <2>. QED
    BY <1>2, <2>1, WritesAdvanced
<1>9. CASE EndFailed
  BY <1>2, <1>9, WritesQuiet DEF EndFailed
<1>10. CASE EndTrace
  BY <1>2, <1>10, WritesQuiet DEF EndTrace
<1>11. CASE WalkStep
  BY <1>2, <1>11, WritesQuiet DEF WalkStep, runVars
<1>12. CASE Emit
  BY <1>2, <1>12, WritesQuiet DEF Emit
<1>13. CASE UNCHANGED vars
  BY <1>2, <1>13, WritesQuiet DEF vars, runVars
<1>. QED
  BY <1>3, <1>4, <1>5, <1>6, <1>7, <1>8, <1>9, <1>10, <1>11, <1>12, <1>13 DEF Next

\* When all processes have run to their ends, a write that waits was closed
\* by none of its holders.
LEMMA HeldIsOpen ==
  ASSUME ShapeInv, Disciplined(build), WritesInv
  PROVE  ClosedWritesHashed
<1>. DEFINE Closes(q, from, fd) ==
              \E j \in DOMAIN Program(q) :
                 /\ j > from /\ Program(q)[j].type = "close" /\ Program(q)[j].fd = fd
                 /\ Program(q)[j].path # NoPath /\ can_write(Program(q)[j])
<1>1. ASSUME BuildDone, NEW i, NEW pend, NEW members, members \subseteq Lifetimes,
             i[1][1] \in Lifetimes, Held(i, pend, at, members)
      PROVE  /\ ~Closes(i[1][1], i[1][2], Fd(i))
             /\ \A q \in Lifetimes : (\E f \in Forks(i[1][1], q) : f > i[1][2]) =>
                  ~Closes(q, 0, Fd(i))
  <2>1. ASSUME NEW q \in Lifetimes, NEW j \in DOMAIN Program(q) PROVE j < at[q] /\ j \in Nat
    <3>1. Len(Program(q)) \in Nat /\ DOMAIN Program(q) = 1 .. Len(Program(q))
          /\ at[q] \in Nat /\ ~(at[q] <= Len(Program(q)))
      BY <1>1, ProgramShape DEF ShapeInv, BuildDone, Running
    <3>. QED
      BY <2>1, <3>1
  <2>2. ASSUME NEW q \in Lifetimes, Holder(q, i, at) PROVE ~Closes(q, Since(q, i), Fd(i))
    <3>1. ASSUME NEW j \in DOMAIN Program(q), Since(q, i) < j
          PROVE  ~Completes(Program(q)[j], Fd(i))
      BY <1>1, <2>1, <2>2, <3>1 DEF Held
    <3>. QED
      BY <3>1 DEF Completes
  <2>3. ~Closes(i[1][1], i[1][2], Fd(i))
    <3>1. Holder(i[1][1], i, at) /\ Since(i[1][1], i) = i[1][2]
      BY DEF Holder, Since
    <3>. HIDE DEF Closes
    <3>. QED
      BY <1>1, <2>2, <3>1
  <2>4. ASSUME NEW q \in Lifetimes, NEW f \in Forks(i[1][1], q), f > i[1][2]
        PROVE  ~Closes(q, 0, Fd(i))
    <3>1. f < at[i[1][1]] /\ f \in Nat
      BY <1>1, <2>1 DEF Forks
    <3>2. q # i[1][1]
      BY <1>1, <2>4, ForksAre DEF Disciplined
    <3>3. Holder(q, i, at) /\ Since(q, i) = 0
      BY <2>4, <3>1, <3>2 DEF Holder, Since
    <3>. HIDE DEF Closes
    <3>. QED
      BY <2>2, <3>3
  <2>. HIDE DEF Closes
  <2>. QED
    BY <2>3, <2>4
<1>2. ASSUME BuildDone, NEW list, NEW pend, NEW members, members \subseteq Lifetimes,
             HeldInv(list, pend, at, members), NEW i \in DOMAIN list, Waits(list, i)
      PROVE  /\ ~Closes(i[1][1], i[1][2], Fd(i))
             /\ \A q \in Lifetimes : (\E f \in Forks(i[1][1], q) : f > i[1][2]) =>
                  ~Closes(q, 0, Fd(i))
  <2>. HIDE DEF Closes
  <2>1. i[1][1] \in Lifetimes /\ Held(i, pend, at, members)
    BY <1>2 DEF HeldInv, Past
  <2>. QED
    BY <1>1, <1>2, <2>1
<1>3. ASSUME BuildDone, lost = 0
      PROVE  /\ \A i \in DOMAIN ops : Waits(ops, i) =>
                  /\ ~Closes(i[1][1], i[1][2], Fd(i))
                  /\ \A q \in Lifetimes : (\E f \in Forks(i[1][1], q) : f > i[1][2]) =>
                       ~Closes(q, 0, Fd(i))
             /\ \A i \in DOMAIN external_ops : Waits(external_ops, i) =>
                  /\ ~Closes(i[1][1], i[1][2], Fd(i))
                  /\ \A q \in Lifetimes : (\E f \in Forks(i[1][1], q) : f > i[1][2]) =>
                       ~Closes(q, 0, Fd(i))
  <2>. HIDE DEF Closes
  <2>1. /\ HeldInv(ops, pending_writes, at, Lifetimes \ External)
        /\ HeldInv(external_ops, external_pending_writes, at, Lifetimes \cap External)
    BY <1>3 DEF WritesInv
  <2>2. Lifetimes \ External \subseteq Lifetimes /\ Lifetimes \cap External \subseteq Lifetimes
    OBVIOUS
  <2>. QED
    BY <1>2, <1>3, <2>1, <2>2
<1>. QED
  BY <1>3 DEF ClosedWritesHashed, Waits, WriteTypes, Fd

\* A close never goes to the wrong operation: in a trace that lost nothing,
\* a write whose descriptor its process, or a child that inherited it, has
\* closed carries the contents, whichever way the processes were scheduled
\* (canonicalize.rs, pending_writes).  Said of builds that use descriptor
\* numbers the way the kernel hands them out.
THEOREM ClosedWritesAreHashed == Spec => [](Disciplined(build) => ClosedWritesHashed)
<1>1. Init => ShapeInv /\ DisciplinedInv
  BY ShapeInit, WritesInitially DEF DisciplinedInv
<1>2. ShapeInv /\ DisciplinedInv /\ [Next]_vars => ShapeInv' /\ DisciplinedInv'
  BY ShapeNext, WritesNext
<1>3. ShapeInv /\ DisciplinedInv => (Disciplined(build) => ClosedWritesHashed)
  BY HeldIsOpen DEF DisciplinedInv
<1>. QED
  BY <1>1, <1>2, <1>3, PTL DEF Spec

-----------------------------------------------------------------------------
(* Producers are included.  The scan keeps for every descriptor who opened *)
(* it, hands that on to children and takes it along with renames; the walk *)
(* sets out from whoever is known for the path of an output.               *)

\* Step s makes an entry for a descriptor to write to; touches that of fd.
Takes(s) == \/ s.type = "open" /\ can_write(s)
            \/ s.type = "mmap" /\ s.path # NoPath /\ s.mode = "rw"
Touches(s, fd) == (s.type = "close" \/ Takes(s)) /\ s.fd = fd

\* No step of p between its steps from and to touches fd.
Untouched(p, from, to, fd) ==
  \A m \in DOMAIN Program(p) : from < m /\ m < to => ~Touches(Program(p)[m], fd)

\* The instance that takes the k-th step of p.
Image(p, k) == <<p, Cardinality(Images(p, k + 1))>>

\* The f-th step of p is the one fork of q.
BornBy(p, f, q) ==
  q # p /\ \A r \in Lifetimes : \A g \in Forks(r, q) : r = p /\ g = f

\* What the k-th step of p has opened for writing is closed by the j-th of q,
\* which is p itself or a child that inherited the descriptor.
Leaves(p, k, q, j) ==
  LET fd == Program(p)[k].fd
  IN  /\ Takes(Program(p)[k]) /\ Completes(Program(q)[j], fd)
      /\ \/ q = p /\ k < j /\ Untouched(p, k, j, fd)
         \/ \E f \in Forks(p, q) : /\ BornBy(p, f, q) /\ k < f
                                   /\ Untouched(p, k, f, fd) /\ Untouched(q, 0, j, fd)

\* Path has the name to at the end: it was closed so or renamed once since.
Becomes(path, to, n) ==
  \/ to = DrawnWith(n, path)
  \/ \E r \in Lifetimes \ External : \E m \in DOMAIN Program(r) :
       /\ Program(r)[m].type = "rename"
       /\ IsPrefix(DrawnWith(n, Program(r)[m].path), DrawnWith(n, path))
       /\ to = rewrite_path_prefix(DrawnWith(n, path), DrawnWith(n, Program(r)[m].path),
                                   DrawnWith(n, Program(r)[m].to))

\* The steps have the fields of their type.
FormedStep(s) ==
  /\ s.type \in {"open", "mmap", "close"} =>
       {"path", "mode", "fd"} \subseteq DOMAIN s /\ s.path \in Seq(STRING)
  /\ s.type = "rename" => {"path", "to"} \subseteq DOMAIN s

\* The producers of a build are those that opened what became the output,
\* when they themselves or their children have closed it.
Attributed ==
  /\ \A p \in Lifetimes : \A k \in DOMAIN Program(p) : FormedStep(Program(p)[k])
  /\ \A d \in build.producers :
       \E p, q \in Lifetimes \ External :
       \E k \in DOMAIN Program(p), j \in DOMAIN Program(q) :
         /\ Leaves(p, k, q, j) /\ d.process = Image(p, k)
         /\ \A n \in build.names : Becomes(Program(q)[j].path, d.path, n)

\* The entries say that w opened descriptor fd of p.
Entry(entries, p, fd, w) ==
  <<p, fd>> \in DOMAIN entries /\ entries[<<p, fd>>].process = w

\* A descriptor that was not touched since it was opened is its opener's.
Own(entries, when) ==
  \A p \in Lifetimes \ External : \A k \in DOMAIN Program(p) :
     Takes(Program(p)[k]) /\ k < when[p] /\ Untouched(p, k, when[p], Program(p)[k].fd) =>
       Entry(entries, p, Program(p)[k].fd, Image(p, k))

\* So is one that was inherited, and not touched by the child either.
Inherited(entries, when) ==
  \A p, q \in Lifetimes \ External : \A k \in DOMAIN Program(p), f \in Forks(p, q) :
     /\ Takes(Program(p)[k]) /\ BornBy(p, f, q) /\ k < f /\ f < when[p]
     /\ Untouched(p, k, f, Program(p)[k].fd) /\ Untouched(q, 0, when[q], Program(p)[k].fd)
     => Entry(entries, q, Program(p)[k].fd, Image(p, k))

\* What was closed is its opener's.
Credited(writers, when) ==
  \A p, q \in Lifetimes \ External : \A k \in DOMAIN Program(p), j \in DOMAIN Program(q) :
     Leaves(p, k, q, j) /\ j < when[q] =>
       <<DrawnWith(names, Program(q)[j].path), Image(p, k)>> \in writers

\* What was renamed is remembered.
Remembered(pairs, when) ==
  \A r \in Lifetimes \ External : \A m \in DOMAIN Program(r) :
     Program(r)[m].type = "rename" /\ m < when[r] =>
       \E i \in DOMAIN pairs : pairs[i] = <<DrawnWith(names, Program(r)[m].path),
                                            DrawnWith(names, Program(r)[m].to)>>

\* What the scan knows.
Known(entries, writers, pairs, when) ==
  /\ Own(entries, when) /\ Inherited(entries, when)
  /\ Credited(writers, when) /\ Remembered(pairs, when)

\* The producers are found by the scan, then reached by the walk.
ProducerInv ==
  /\ names \in build.names
  /\ \A p \in Lifetimes : at[p] # 1 => Started(p)
  /\ stage = "run" /\ lost = 0 => Known(open_writes, writers_by_path, rename_pairs, at)
  /\ stage \in {"walk", "attested", "done"} /\ lost = 0 =>
       \A d \in build.producers :
          (\E o \in outputs : o.path = d.path) => d.process \in included_processes

-----------------------------------------------------------------------------
(* What an event tells the scan.                                           *)

\* The next step of x leaves the entries of others, makes and hands on its
\* own, and forgets no writer and no rename.
Scanned(x) ==
  /\ \A p, fd, w : /\ Entry(open_writes, p, fd, w)
                   /\ p # x \/ ~Touches(StepOf(x), fd)
                   /\ ~(StepOf(x).type = "fork" /\ StepOf(x).child = p)
                   => Entry(open_writes', p, fd, w)
  /\ x \notin External /\ Takes(StepOf(x)) =>
       Entry(open_writes', x, StepOf(x).fd, <<x, EpochOf(x)>>)
  /\ StepOf(x).type = "fork" =>
       \A fd, w : Entry(open_writes, x, fd, w) => Entry(open_writes', StepOf(x).child, fd, w)
  /\ x \notin External => \A fd, w : Completes(StepOf(x), fd) /\ Entry(open_writes, x, fd, w) =>
       <<DrawnWith(names, StepOf(x).path), w>> \in writers_by_path'
  /\ writers_by_path \subseteq writers_by_path'
  /\ x \notin External /\ StepOf(x).type = "rename" =>
       \E i \in DOMAIN rename_pairs' :
          rename_pairs'[i] = <<DrawnWith(names, StepOf(x).path), DrawnWith(names, StepOf(x).to)>>
  /\ \A i \in DOMAIN rename_pairs : \E j \in DOMAIN rename_pairs' :
       rename_pairs'[j] = rename_pairs[i]

\* Nothing that is scanned happens in the step.
LEMMA IdleScanned ==
  ASSUME NEW x, StepOf(x).type \notin {"open", "mmap", "close", "fork", "rename"},
         UNCHANGED <<open_writes, writers_by_path, rename_pairs>>
  PROVE  Scanned(x)
<1>1. ~Takes(StepOf(x)) /\ \A fd : ~Completes(StepOf(x), fd)
  BY DEF Takes, Completes
<1>2. \A p, fd, w : Entry(open_writes, p, fd, w) => Entry(open_writes', p, fd, w)
  BY DEF Entry
<1>. QED
  BY <1>1, <1>2 DEF Scanned

\* An event of x as the scan sees it.
LEMMA ScannedEvent ==
  ASSUME NEW x
  PROVE  /\ Event(x).type = StepOf(x).type /\ (Event(x).external <=> x \in External)
         /\ Event(x).process = <<x, EpochOf(x)>> /\ Event(x).process[1] = x
BY DEF Event

\* The fields that the scan looks at.
LEMMA FieldsSeen ==
  ASSUME NEW x, StepOf(x).type \in {"open", "mmap", "close"}, FormedStep(StepOf(x))
  PROVE  /\ Event(x).step.mode = StepOf(x).mode /\ Event(x).step.fd = StepOf(x).fd
         /\ Event(x).step.path = DrawnWith(names, StepOf(x).path)
         /\ Event(x).step.path = NoPath <=> StepOf(x).path = NoPath
<1>. DEFINE s == StepOf(x)
<1>1. {"path", "mode", "fd"} \subseteq DOMAIN s /\ s.path \in Seq(STRING)
  BY DEF FormedStep
<1>2. Named(s).path = Drawn(s.path) /\ Named(s).mode = s.mode /\ Named(s).fd = s.fd
  BY <1>1 DEF Named
<1>3. Drawn(s.path) = DrawnWith(names, s.path)
  BY ObservedNow
<1>4. DrawnWith(names, s.path) = NoPath <=> s.path = NoPath
  BY <1>1, DrawnPath
<1>. HIDE DEF s
<1>5. Event(x).step = Named(s)
  BY DEF Event, s
<1>. QED
  BY <1>2, <1>3, <1>4, <1>5 DEF s

\* A file is opened or mapped.
LEMMA AccessScanned ==
  ASSUME NEW x, x \notin External, StepOf(x).type \in {"open", "mmap"},
         FormedStep(StepOf(x)), NEW read, NEW write \in BOOLEAN,
         Accessed(Event(x), read, write), write <=> Takes(StepOf(x))
  PROVE  Scanned(x)
<1>. DEFINE e == Event(x)
            s == StepOf(x)
<1>1. e.step.fd = s.fd /\ e.process = <<x, EpochOf(x)>> /\ e.process[1] = x
  BY FieldsSeen, ScannedEvent
<1>2. /\ open_writes' = IF write THEN Put(open_writes, <<x, s.fd>>,
                                          [process |-> <<x, EpochOf(x)>>, path |-> e.step.path])
                        ELSE open_writes
      /\ UNCHANGED <<writers_by_path, rename_pairs>>
  BY <1>1 DEF Accessed, writerVars
<1>3. ASSUME NEW p, NEW fd, NEW w, Entry(open_writes, p, fd, w), p # x \/ ~Touches(s, fd)
      PROVE  Entry(open_writes', p, fd, w)
  <2>1. CASE ~write
    BY <1>2, <1>3, <2>1 DEF Entry
  <2>2. CASE write
    <3>1. <<p, fd>> # <<x, s.fd>>
      BY <1>3, <2>2 DEF Touches
    <3>. QED
      BY <1>2, <1>3, <2>2, <3>1 DEF Entry, Put
  <2>. QED
    BY <2>1, <2>2
<1>4. ASSUME Takes(s) PROVE Entry(open_writes', x, s.fd, <<x, EpochOf(x)>>)
  <2>1. open_writes' = Put(open_writes, <<x, s.fd>>,
                           [process |-> <<x, EpochOf(x)>>, path |-> e.step.path])
    BY <1>2, <1>4
  <2>2. <<x, s.fd>> \in DOMAIN open_writes'
        /\ open_writes'[<<x, s.fd>>] = [process |-> <<x, EpochOf(x)>>, path |-> e.step.path]
    BY <2>1 DEF Put
  <2>. QED
    BY <2>2 DEF Entry
<1>5. s.type # "fork" /\ s.type # "rename" /\ \A fd : ~Completes(s, fd)
  BY DEF Completes
<1>. QED
  BY <1>2, <1>3, <1>4, <1>5 DEF Scanned

\* A descriptor is closed.
LEMMA CloseScanned ==
  ASSUME NEW x, x \notin External, FormedStep(StepOf(x)), ScanClose(Event(x))
  PROVE  Scanned(x)
<1>. DEFINE e == Event(x)
            s == StepOf(x)
            key == <<x, s.fd>>
<1>0. s.type = "close"
  BY ScannedEvent DEF ScanClose
<1>1. /\ e.step.fd = s.fd /\ e.step.mode = s.mode /\ e.process[1] = x
      /\ e.step.path = DrawnWith(names, s.path)
      /\ e.step.path = NoPath <=> s.path = NoPath
  BY <1>0, FieldsSeen, ScannedEvent
<1>2. can_write(e.step) <=> can_write(s)
  BY <1>1 DEF can_write
<1>3. /\ open_writes' = Delete(open_writes, key) /\ rename_pairs' = rename_pairs
      /\ IF key \in DOMAIN open_writes /\ can_write(s) /\ s.path # NoPath
         THEN writers_by_path' = writers_by_path
                \cup {<<DrawnWith(names, s.path), open_writes[key].process>>}
         ELSE writers_by_path' = writers_by_path
  BY <1>1, <1>2 DEF ScanClose
<1>4. ASSUME NEW p, NEW fd, NEW w, Entry(open_writes, p, fd, w), p # x \/ ~Touches(s, fd)
      PROVE  Entry(open_writes', p, fd, w)
  <2>1. <<p, fd>> # key
    BY <1>0, <1>4 DEF Touches
  <2>. QED
    BY <1>3, <1>4, <2>1 DEF Entry, Delete
<1>5. ASSUME NEW fd, NEW w, Completes(s, fd), Entry(open_writes, x, fd, w)
      PROVE  <<DrawnWith(names, s.path), w>> \in writers_by_path'
  BY <1>3, <1>5 DEF Completes, Entry
<1>6. ~Takes(s)
  BY <1>0 DEF Takes
<1>7. writers_by_path \subseteq writers_by_path'
  BY <1>3
<1>. QED
  BY <1>0, <1>3, <1>4, <1>5, <1>6, <1>7 DEF Scanned

\* A file or a directory is renamed.
LEMMA RenameScanned ==
  ASSUME ScanInv, NEW x, x \notin External, FormedStep(StepOf(x)), ScanRename(Event(x))
  PROVE  Scanned(x)
<1>. DEFINE e == Event(x)
            s == StepOf(x)
            pair == <<DrawnWith(names, s.path), DrawnWith(names, s.to)>>
<1>0. s.type = "rename"
  BY ScannedEvent DEF ScanRename
<1>1. e.step.path = DrawnWith(names, s.path) /\ e.step.to = DrawnWith(names, s.to)
  <2>1. {"path", "to"} \subseteq DOMAIN s
    BY <1>0 DEF FormedStep
  <2>2. Named(s).path = Drawn(s.path) /\ Named(s).to = Drawn(s.to)
    BY <2>1 DEF Named
  <2>. QED
    BY <2>2, ObservedNow DEF Event
<1>2. /\ rename_pairs' = Append(rename_pairs, pair)
      /\ writers_by_path \subseteq writers_by_path'
  BY <1>1 DEF ScanRename, Aliased
<1>3. PICK S : rename_pairs \in Seq(S)
  BY DEF ScanInv
<1>. HIDE DEF pair
<1>4. /\ \A i \in DOMAIN rename_pairs :
           i \in DOMAIN rename_pairs' /\ rename_pairs'[i] = rename_pairs[i]
      /\ \E i \in DOMAIN rename_pairs' : rename_pairs'[i] = pair
  <2>1. rename_pairs \in Seq(S \cup {pair})
    BY <1>3
  <2>2. /\ Len(rename_pairs') = Len(rename_pairs) + 1
        /\ rename_pairs'[Len(rename_pairs) + 1] = pair
        /\ DOMAIN rename_pairs' = 1 .. Len(rename_pairs) + 1
        /\ \A i \in 1 .. Len(rename_pairs) : rename_pairs'[i] = rename_pairs[i]
        /\ DOMAIN rename_pairs = 1 .. Len(rename_pairs) /\ Len(rename_pairs) \in Nat
    BY <1>2, <2>1
  <2>. QED
    BY <2>2
<1>5. ASSUME NEW p, NEW fd, NEW w, Entry(open_writes, p, fd, w) PROVE Entry(open_writes', p, fd, w)
  <2>1. <<p, fd>> \in DOMAIN open_writes /\ open_writes[<<p, fd>>].process = w
        /\ {"process", "path"} \subseteq DOMAIN open_writes[<<p, fd>>]
    BY <1>5 DEF Entry, ScanInv
  <2>2. <<p, fd>> \in DOMAIN open_writes' /\
        open_writes'[<<p, fd>>] =
          [open_writes[<<p, fd>>] EXCEPT !.path = rewrite_path_prefix(@, e.step.path, e.step.to)]
    BY <2>1 DEF ScanRename
  <2>3. open_writes'[<<p, fd>>].process = open_writes[<<p, fd>>].process
    BY <2>1, <2>2
  <2>. QED
    BY <2>1, <2>2, <2>3 DEF Entry
<1>6. ~Takes(s) /\ \A fd : ~Completes(s, fd)
  BY <1>0 DEF Takes, Completes
<1>. QED
  BY <1>0, <1>2, <1>4, <1>5, <1>6 DEF Scanned, pair

\* A child inherits descriptors.
LEMMA ForkScanned ==
  ASSUME ScanInv, NEW x, "child" \in DOMAIN StepOf(x), ScanFork(Event(x))
  PROVE  Scanned(x)
<1>. DEFINE e == Event(x)
            s == StepOf(x)
            c == s.child
            inherited == {k \in DOMAIN open_writes : k[1] = x}
            copies == {<<c, k[2]>> : k \in inherited}
<1>0. s.type = "fork" /\ e.process[1] = x
  BY ScannedEvent DEF ScanFork
<1>1. e.step.child = c
  <2>1. Named(s).child = c
    BY DEF Named
  <2>. QED
    BY <2>1 DEF Event
<1>2. /\ open_writes' =
           [k \in DOMAIN open_writes \cup copies |->
              IF k \in copies THEN open_writes[<<x, k[2]>>] ELSE open_writes[k]]
      /\ UNCHANGED <<writers_by_path, rename_pairs>>
  BY <1>0, <1>1 DEF ScanFork, writerVars
<1>. HIDE DEF c
<1>3. ASSUME NEW p, NEW fd, NEW w, Entry(open_writes, p, fd, w), p # c
      PROVE  Entry(open_writes', p, fd, w)
  BY <1>2, <1>3 DEF Entry
<1>4. ASSUME NEW fd, NEW w, Entry(open_writes, x, fd, w) PROVE Entry(open_writes', c, fd, w)
  <2>1. <<c, fd>> \in copies
    BY <1>4 DEF Entry
  <2>2. <<c, fd>> \in DOMAIN open_writes' /\ open_writes'[<<c, fd>>] = open_writes[<<x, fd>>]
    BY <1>2, <2>1
  <2>. QED
    BY <1>4, <2>2 DEF Entry
<1>5. ~Takes(s) /\ \A fd : ~Completes(s, fd)
  BY <1>0 DEF Takes, Completes
<1>. QED
  BY <1>0, <1>2, <1>3, <1>4, <1>5 DEF Scanned, c

\* Steps of external processes on files are none of the scan's.
LEMMA IgnoredScanned ==
  ASSUME NEW x, ScanIgnored(Event(x))
  PROVE  Scanned(x)
<1>1. UNCHANGED <<open_writes, writers_by_path, rename_pairs>>
  BY DEF ScanIgnored, scanVars, writerVars
<1>2. \/ x \in External /\ StepOf(x).type # "fork"
      \/ StepOf(x).type = "unlink"
  BY ScannedEvent DEF ScanIgnored
<1>3. CASE StepOf(x).type = "unlink"
  BY <1>1, <1>3, IdleScanned
<1>4. CASE x \in External /\ StepOf(x).type # "fork"
  <2>1. \A p, fd, w : Entry(open_writes, p, fd, w) => Entry(open_writes', p, fd, w)
    BY <1>1 DEF Entry
  <2>. QED
    BY <1>1, <1>4, <2>1 DEF Scanned
<1>. QED
  BY <1>2, <1>3, <1>4

\* Every event is one of these.
LEMMA EventScanned ==
  ASSUME ScanInv, NEW x, FormedStep(StepOf(x)),
         StepOf(x).type = "fork" => "child" \in DOMAIN StepOf(x), ScanStep(Event(x))
  PROVE  Scanned(x)
<1>. DEFINE e == Event(x)
            s == StepOf(x)
<1>0. e.type = s.type /\ (e.external <=> x \in External)
  BY ScannedEvent
<1>1. CASE ScanExec(e) \/ ScanExit(e)
  <2>1. UNCHANGED <<open_writes, writers_by_path, rename_pairs>> /\ s.type \in {"exec", "exit"}
    BY <1>0, <1>1 DEF ScanExec, ScanExit, writerVars
  <2>. QED
    BY <2>1, IdleScanned
<1>2. CASE ScanFork(e)
  <2>1. s.type = "fork"
    BY <1>0, <1>2 DEF ScanFork
  <2>. QED
    BY <1>2, <2>1, ForkScanned
<1>3. CASE ScanOpen(e)
  <2>1. x \notin External /\ s.type = "open" /\ Accessed(e, can_read(e.step), can_write(e.step))
    BY <1>0, <1>3 DEF ScanOpen
  <2>2. e.step.mode = s.mode
    BY <2>1, FieldsSeen
  <2>3. can_write(e.step) \in BOOLEAN /\ (can_write(e.step) <=> Takes(s))
    BY <2>1, <2>2 DEF can_write, Takes
  <2>. QED
    BY <2>1, <2>3, AccessScanned
<1>4. CASE ScanMmap(e)
  <2>. DEFINE known == e.step.path # NoPath
              write == known /\ e.step.mode = "rw"
  <2>1. x \notin External /\ s.type = "mmap" /\ Accessed(e, known, write)
    BY <1>0, <1>4 DEF ScanMmap
  <2>2. e.step.mode = s.mode /\ (e.step.path = NoPath <=> s.path = NoPath)
    BY <2>1, FieldsSeen
  <2>3. write \in BOOLEAN /\ (write <=> Takes(s))
    BY <2>1, <2>2 DEF Takes
  <2>. HIDE DEF write, known
  <2>. QED
    BY <2>1, <2>3, AccessScanned
<1>5. CASE ScanClose(e)
  BY <1>0, <1>5, CloseScanned DEF ScanClose
<1>6. CASE ScanRename(e)
  BY <1>0, <1>6, RenameScanned DEF ScanRename
<1>7. CASE ScanIgnored(e)
  BY <1>7, IgnoredScanned
<1>. QED
  BY <1>1, <1>2, <1>3, <1>4, <1>5, <1>6, <1>7 DEF ScanStep
-----------------------------------------------------------------------------
(* What the scan knows, after a step.                                      *)

\* Process x takes a step and the scan sees it.
Stepped(x) ==
  /\ \A p \in Lifetimes : at[p] # 1 => Started(p)
  /\ Started(x) /\ at[x] \in DOMAIN Program(x)
  /\ at \in [Lifetimes -> Nat \ {0}] /\ at' = [at EXCEPT ![x] = @ + 1]
  /\ \A p \in Lifetimes : DOMAIN Program(p) \subseteq Nat \ {0}
  /\ EpochOf(x) = Cardinality(Images(x, at[x] + 1))
  /\ Scanned(x)

\* Whoever has been started is not forked now.
LEMMA NotForked ==
  ASSUME NEW x \in Lifetimes, Stepped(x), NEW p, Started(p)
  PROVE  ~(StepOf(x).type = "fork" /\ StepOf(x).child = p)
<1>. SUFFICES ASSUME StepOf(x).type = "fork", StepOf(x).child = p PROVE FALSE
  OBVIOUS
<1>1. at[x] \in Forks(x, p)
  BY DEF Forks, StepOf, Stepped
<1>2. at[x] > at[x] /\ at[x] \in Nat
  BY <1>1 DEF Started, Stepped
<1>. QED
  BY <1>2

\* A stretch without touches ends earlier too.
LEMMA ShorterUntouched ==
  ASSUME NEW x \in Lifetimes, Stepped(x), NEW q \in Lifetimes, NEW from, NEW fd,
         Untouched(q, from, at'[q], fd)
  PROVE  /\ Untouched(q, from, at[q], fd)
         /\ q = x /\ from < at[x] => ~Touches(StepOf(x), fd)
<1>1. at'[q] = (IF q = x THEN at[q] + 1 ELSE at[q]) /\ at[q] \in Nat
  BY DEF Stepped
<1>2. \A m \in DOMAIN Program(q) : m \in Nat /\ (m < at[q] => m < at'[q])
  BY <1>1 DEF Stepped
<1>3. Untouched(q, from, at[q], fd)
  BY <1>2 DEF Untouched
<1>4. ASSUME q = x, from < at[x] PROVE ~Touches(StepOf(x), fd)
  <2>1. at[x] \in DOMAIN Program(x) /\ at[x] < at'[x]
    BY <1>1, <1>4 DEF Stepped
  <2>. QED
    BY <1>4, <2>1 DEF Untouched, StepOf
<1>. QED
  BY <1>3, <1>4

\* An opener's descriptors.
LEMMA OwnKept ==
  ASSUME NEW x \in Lifetimes, Stepped(x), Own(open_writes, at)
  PROVE  Own(open_writes', at')
<1>. SUFFICES ASSUME NEW p \in Lifetimes \ External, NEW k \in DOMAIN Program(p),
                     Takes(Program(p)[k]), k < at'[p],
                     Untouched(p, k, at'[p], Program(p)[k].fd)
              PROVE  Entry(open_writes', p, Program(p)[k].fd, Image(p, k))
  BY DEF Own
<1>. DEFINE fd == Program(p)[k].fd
<1>1. k \in Nat \ {0} /\ at[p] \in Nat \ {0}
      /\ at'[p] = (IF p = x THEN at[p] + 1 ELSE at[p])
  BY DEF Stepped
<1>2. CASE k < at[p]
  <2>1. Untouched(p, k, at[p], fd) /\ (p = x => ~Touches(StepOf(x), fd))
    BY <1>2, ShorterUntouched
  <2>2. Entry(open_writes, p, fd, Image(p, k))
    BY <1>2, <2>1 DEF Own
  <2>3. Started(p)
    BY <1>1, <1>2 DEF Stepped
  <2>4. ~(StepOf(x).type = "fork" /\ StepOf(x).child = p)
    BY <2>3, NotForked
  <2>. QED
    BY <2>1, <2>2, <2>4 DEF Stepped, Scanned
<1>3. CASE ~(k < at[p])
  <2>1. p = x /\ k = at[x]
    BY <1>1, <1>3
  <2>2. Takes(StepOf(x)) /\ fd = StepOf(x).fd /\ x \notin External
    BY <2>1 DEF StepOf
  <2>3. Image(p, k) = <<x, EpochOf(x)>>
    BY <2>1 DEF Image, Stepped
  <2>. QED
    BY <2>1, <2>2, <2>3 DEF Stepped, Scanned
<1>. QED
  BY <1>2, <1>3

\* Inherited descriptors.
LEMMA InheritedKept ==
  ASSUME NEW x \in Lifetimes, Stepped(x), Own(open_writes, at), Inherited(open_writes, at)
  PROVE  Inherited(open_writes', at')
<1>. SUFFICES ASSUME NEW p \in Lifetimes \ External, NEW q \in Lifetimes \ External,
                     NEW k \in DOMAIN Program(p), NEW f \in Forks(p, q),
                     Takes(Program(p)[k]), BornBy(p, f, q), k < f, f < at'[p],
                     Untouched(p, k, f, Program(p)[k].fd),
                     Untouched(q, 0, at'[q], Program(p)[k].fd)
              PROVE  Entry(open_writes', q, Program(p)[k].fd, Image(p, k))
  BY DEF Inherited
<1>. DEFINE fd == Program(p)[k].fd
<1>1. /\ k \in Nat \ {0} /\ at[p] \in Nat \ {0} /\ at[x] \in Nat \ {0}
      /\ at'[p] = (IF p = x THEN at[p] + 1 ELSE at[p])
  BY DEF Stepped
<1>2. f \in Nat /\ Program(p)[f].type = "fork" /\ Program(p)[f].child = q
  BY DEF Stepped, Forks
<1>3. Untouched(q, 0, at[q], fd) /\ (q = x => ~Touches(StepOf(x), fd))
  BY <1>1, ShorterUntouched
<1>4. CASE f < at[p]
  <2>1. Entry(open_writes, q, fd, Image(p, k))
    BY <1>3, <1>4 DEF Inherited
  <2>2. ~(StepOf(x).type = "fork" /\ StepOf(x).child = q)
    <3>1. SUFFICES ASSUME StepOf(x).type = "fork", StepOf(x).child = q PROVE FALSE
      OBVIOUS
    <3>2. at[x] \in Forks(x, q)
      BY <3>1 DEF Forks, StepOf, Stepped
    <3>3. x = p /\ at[x] = f
      BY <3>2 DEF BornBy
    <3>. QED
      BY <1>1, <1>4, <3>3
  <2>. QED
    BY <1>3, <2>1, <2>2 DEF Stepped, Scanned
<1>5. CASE ~(f < at[p])
  <2>1. p = x /\ f = at[x]
    BY <1>1, <1>2, <1>5
  <2>2. Entry(open_writes, x, fd, Image(p, k))
    BY <2>1 DEF Own
  <2>3. StepOf(x).type = "fork" /\ StepOf(x).child = q
    BY <1>2, <2>1 DEF StepOf
  <2>. QED
    BY <2>2, <2>3 DEF Stepped, Scanned
<1>. QED
  BY <1>4, <1>5

\* A file that is closed now was opened by who the entry says.
LEMMA ClosedEntry ==
  ASSUME NEW x \in Lifetimes \ External, Stepped(x), Own(open_writes, at),
         Inherited(open_writes, at), NEW p \in Lifetimes \ External,
         NEW k \in DOMAIN Program(p), Leaves(p, k, x, at[x])
  PROVE  /\ Completes(StepOf(x), Program(p)[k].fd)
         /\ Entry(open_writes, x, Program(p)[k].fd, Image(p, k))
<1>. DEFINE fd == Program(p)[k].fd
            j == at[x]
<1>1. Takes(Program(p)[k]) /\ Completes(StepOf(x), fd)
  BY DEF Leaves, StepOf
<1>2. CASE x = p /\ k < j /\ Untouched(p, k, j, fd)
  BY <1>1, <1>2 DEF Own
<1>3. ASSUME NEW f \in Forks(p, x), BornBy(p, f, x), k < f,
             Untouched(p, k, f, fd), Untouched(x, 0, j, fd)
      PROVE  Entry(open_writes, x, fd, Image(p, k))
  <2>1. at[p] > f /\ f \in Nat /\ at[p] \in Nat
    <3>1. Started(x) /\ f \in DOMAIN Program(p)
      BY DEF Stepped, Forks
    <3>. QED
      BY <3>1 DEF Started, Stepped
  <2>. QED
    BY <1>1, <1>3, <2>1 DEF Inherited
<1>. QED
  BY <1>1, <1>2, <1>3 DEF Leaves

\* Files that were closed.
LEMMA CreditedKept ==
  ASSUME NEW x \in Lifetimes, Stepped(x), Own(open_writes, at), Inherited(open_writes, at),
         Credited(writers_by_path, at)
  PROVE  Credited(writers_by_path', at')
<1>. SUFFICES ASSUME NEW p \in Lifetimes \ External, NEW q \in Lifetimes \ External,
                     NEW k \in DOMAIN Program(p), NEW j \in DOMAIN Program(q),
                     Leaves(p, k, q, j), j < at'[q]
              PROVE  <<DrawnWith(names, Program(q)[j].path), Image(p, k)>> \in writers_by_path'
  BY DEF Credited
<1>. DEFINE fd == Program(p)[k].fd
<1>1. /\ j \in Nat \ {0} /\ at[q] \in Nat \ {0} /\ writers_by_path \subseteq writers_by_path'
      /\ at'[q] = (IF q = x THEN at[q] + 1 ELSE at[q])
  BY DEF Stepped, Scanned
<1>2. CASE j < at[q]
  BY <1>1, <1>2 DEF Credited
<1>3. CASE ~(j < at[q])
  <2>1. q = x /\ j = at[x]
    BY <1>1, <1>3
  <2>2. Completes(StepOf(x), fd) /\ Entry(open_writes, x, fd, Image(p, k))
    BY <2>1, ClosedEntry
  <2>. QED
    BY <2>1, <2>2 DEF Stepped, Scanned, StepOf
<1>. QED
  BY <1>2, <1>3

\* Renames.
LEMMA RememberedKept ==
  ASSUME NEW x \in Lifetimes, Stepped(x), Remembered(rename_pairs, at)
  PROVE  Remembered(rename_pairs', at')
<1>. SUFFICES ASSUME NEW r \in Lifetimes \ External, NEW m \in DOMAIN Program(r),
                     Program(r)[m].type = "rename", m < at'[r]
              PROVE  \E i \in DOMAIN rename_pairs' :
                        rename_pairs'[i] = <<DrawnWith(names, Program(r)[m].path),
                                             DrawnWith(names, Program(r)[m].to)>>
  BY DEF Remembered
<1>1. /\ m \in Nat \ {0} /\ at[r] \in Nat \ {0}
      /\ at'[r] = (IF r = x THEN at[r] + 1 ELSE at[r])
  BY DEF Stepped
<1>2. CASE m < at[r]
  <2>1. PICK i \in DOMAIN rename_pairs :
          rename_pairs[i] = <<DrawnWith(names, Program(r)[m].path),
                              DrawnWith(names, Program(r)[m].to)>>
    BY <1>2 DEF Remembered
  <2>2. PICK j \in DOMAIN rename_pairs' : rename_pairs'[j] = rename_pairs[i]
    BY DEF Stepped, Scanned
  <2>. QED
    BY <2>1, <2>2
<1>3. CASE ~(m < at[r])
  <2>1. r = x /\ m = at[x]
    BY <1>1, <1>3
  <2>. QED
    BY <2>1 DEF Stepped, Scanned, StepOf
<1>. QED
  BY <1>2, <1>3

\* What a process that takes a step is known to be.
LEMMA TakesStep ==
  ASSUME EpochInv, \A p \in Lifetimes : at[p] # 1 => Started(p),
         NEW x \in Lifetimes, Enabled(x), Advance(x), Scanned(x)
  PROVE  Stepped(x)
<1>1. Running(x) /\ Started(x)
  BY DEF Enabled
<1>2. at \in [Lifetimes -> Nat \ {0}] /\ at[x] \in DOMAIN Program(x)
  BY <1>1, ProgramShape
<1>3. \A p \in Lifetimes : DOMAIN Program(p) \subseteq Nat \ {0}
  BY ProgramShape
<1>4. EpochOf(x) = Cardinality(Images(x, at[x] + 1))
  BY <1>1, ImagesCounted
<1>5. at' = [at EXCEPT ![x] = @ + 1]
  BY DEF Advance
<1>. QED
  BY <1>1, <1>2, <1>3, <1>4, <1>5 DEF Stepped

\* All that is known.
LEMMA KnownKept ==
  ASSUME NEW x \in Lifetimes, Stepped(x),
         Known(open_writes, writers_by_path, rename_pairs, at)
  PROVE  Known(open_writes', writers_by_path', rename_pairs', at')
BY OwnKept, InheritedKept, CreditedKept, RememberedKept DEF Known

-----------------------------------------------------------------------------
(* Applying the renames once more.                                         *)

\* More writers have more aliases, and none is dropped.
LEMMA AliasedGrows ==
  ASSUME NEW some, NEW all, some \subseteq all, NEW from, NEW to
  PROVE  /\ Aliased(some, from, to) \subseteq Aliased(all, from, to)
         /\ all \subseteq Aliased(all, from, to)
BY DEF Aliased

\* Whatever the renames are applied to stays, under each new name too.
LEMMA FoldGrows ==
  ASSUME NEW writers, NEW pairs, NEW n \in Nat, NEW g, Folded(g, n, writers, pairs)
  PROVE  /\ writers \subseteq g[1 .. n]
         /\ \A i \in 1 .. n : Aliased(writers, pairs[i][1], pairs[i][2]) \subseteq g[1 .. n]
<1>. DEFINE Grown(k) ==
              /\ writers \subseteq g[1 .. k]
              /\ \A i \in 1 .. k : Aliased(writers, pairs[i][1], pairs[i][2]) \subseteq g[1 .. k]
            Stray == {k \in Nat : k <= n /\ ~Grown(k)}
<1>. SUFFICES ASSUME Stray # {} PROVE FALSE
  OBVIOUS
<1>1. PICK k \in Stray : \A m \in Stray : k <= m
  BY LeastNumber
<1>2. \A s \in SUBSET (1 .. n) :
         g[s] = IF s = {} THEN writers
                ELSE Aliased(g[s \ {Max(s)}], pairs[Max(s)][1], pairs[Max(s)][2])
  BY DEF Folded
<1>3. k # 0
  <2>1. 1 .. 0 = {} /\ 1 .. 0 \in SUBSET (1 .. n)
    OBVIOUS
  <2>. QED
    BY <1>1, <1>2, <2>1
<1>4. Grown(k - 1)
  BY <1>1, <1>3
<1>5. /\ 1 .. k \in SUBSET (1 .. n) /\ 1 .. k # {} /\ (1 .. k) \ {k} = 1 .. k - 1
      /\ k \in 1 .. k /\ k \in Nat
  <2>1. k \in Nat /\ k <= n /\ k # 0
    BY <1>1, <1>3
  <2>. HIDE DEF Grown, Stray
  <2>. QED
    BY <2>1, SMTT(30)
<1>6. Max(1 .. k) = k
  BY <1>5, MaxIsLast
<1>7. g[1 .. k] = Aliased(g[1 .. k - 1], pairs[k][1], pairs[k][2])
  BY <1>2, <1>5, <1>6
<1>8. Grown(k)
  <2>1. /\ Aliased(writers, pairs[k][1], pairs[k][2]) \subseteq g[1 .. k]
        /\ g[1 .. k - 1] \subseteq g[1 .. k]
    BY <1>4, <1>7, AliasedGrows
  <2>2. \A i \in 1 .. k : i = k \/ i \in 1 .. k - 1
    BY <1>5
  <2>. QED
    BY <1>4, <2>1, <2>2
<1>. QED
  BY <1>1, <1>8

\* So it is with the writers that the scan has found.
LEMMA FixupGrows ==
  ASSUME NEW S, rename_pairs \in Seq(S)
  PROVE  /\ writers_by_path \subseteq Fixup
         /\ \A i \in DOMAIN rename_pairs :
              Aliased(writers_by_path, rename_pairs[i][1], rename_pairs[i][2]) \subseteq Fixup
<1>. DEFINE n == Len(rename_pairs)
            iter == CHOOSE g : Folded(g, n, writers_by_path, rename_pairs)
<1>1. n \in Nat /\ DOMAIN rename_pairs = 1 .. n
  OBVIOUS
<1>2. Folded(iter, n, writers_by_path, rename_pairs)
  BY <1>1, FoldDefined
<1>3. Fixup = iter[1 .. n]
  BY <1>1 DEF Fixup, FoldLeft, MapThenFoldSet, Folded
<1>. HIDE DEF iter, n
<1>. QED
  BY <1>1, <1>2, <1>3, FoldGrows

\* At the end of the build every producer is credited with the path.
LEMMA ProducersCredited ==
  ASSUME EpochInv, ScanInv, Attributed, names \in build.names, BuildDone,
         Known(open_writes, writers_by_path, rename_pairs, at), NEW d \in build.producers
  PROVE  <<d.path, d.process>> \in Fixup
<1>0. PICK p \in Lifetimes \ External, q \in Lifetimes \ External :
        \E k \in DOMAIN Program(p), j \in DOMAIN Program(q) :
           /\ Leaves(p, k, q, j) /\ d.process = Image(p, k)
           /\ \A n \in build.names : Becomes(Program(q)[j].path, d.path, n)
  BY DEF Attributed
<1>1. PICK k \in DOMAIN Program(p), j \in DOMAIN Program(q) :
           /\ Leaves(p, k, q, j) /\ d.process = Image(p, k)
           /\ \A n \in build.names : Becomes(Program(q)[j].path, d.path, n)
  BY <1>0
<1>. DEFINE path == DrawnWith(names, Program(q)[j].path)
<1>2. \A r \in Lifetimes : \A m \in DOMAIN Program(r) : m < at[r]
  <2>. SUFFICES ASSUME NEW r \in Lifetimes, NEW m \in DOMAIN Program(r) PROVE m < at[r]
    OBVIOUS
  <2>. QED
    BY ProgramShape DEF BuildDone, Running
<1>3. <<path, d.process>> \in writers_by_path
  BY <1>1, <1>2 DEF Known, Credited
<1>4. PICK S : rename_pairs \in Seq(S)
  BY DEF ScanInv
<1>5. CASE d.path = path
  BY <1>3, <1>4, <1>5, FixupGrows
<1>6. ASSUME NEW r \in Lifetimes \ External, NEW m \in DOMAIN Program(r),
             Program(r)[m].type = "rename",
             IsPrefix(DrawnWith(names, Program(r)[m].path), path),
             d.path = rewrite_path_prefix(path, DrawnWith(names, Program(r)[m].path),
                                          DrawnWith(names, Program(r)[m].to))
      PROVE  <<d.path, d.process>> \in Fixup
  <2>. DEFINE from == DrawnWith(names, Program(r)[m].path)
              to == DrawnWith(names, Program(r)[m].to)
  <2>1. PICK i \in DOMAIN rename_pairs : rename_pairs[i] = <<from, to>>
    BY <1>2, <1>6 DEF Known, Remembered
  <2>. HIDE DEF from, to, path
  <2>2. <<d.path, d.process>> \in Aliased(writers_by_path, from, to)
    BY <1>3, <1>6 DEF Aliased, from, to
  <2>. QED
    BY <1>4, <2>1, <2>2, FixupGrows
<1>. QED
  BY <1>1, <1>5, <1>6 DEF Becomes

-----------------------------------------------------------------------------
(* The runs.                                                               *)

\* Who produced what, and what is known, is about the build and its names.
LEMMA KnownSame ==
  ASSUME UNCHANGED <<build, names>>
  PROVE  /\ Attributed' <=> Attributed
         /\ Known(open_writes, writers_by_path, rename_pairs, at)' <=>
              Known(open_writes', writers_by_path', rename_pairs', at')
<1>1. Own(open_writes, at)' <=> Own(open_writes', at')
  BY DEF Own, Untouched, Image, Images, Program
<1>2. Inherited(open_writes, at)' <=> Inherited(open_writes', at')
  BY DEF Inherited, Untouched, BornBy, Forks, Image, Images, Program
<1>3. Credited(writers_by_path, at)' <=> Credited(writers_by_path', at')
  BY DEF Credited, Leaves, Untouched, BornBy, Forks, Image, Images, Program
<1>4. Remembered(rename_pairs, at)' <=> Remembered(rename_pairs', at')
  BY DEF Remembered, Program
<1>5. Attributed' <=> Attributed
  BY DEF Attributed, Leaves, Untouched, BornBy, Becomes, Forks, Image, Images, Program
<1>. QED
  BY <1>1, <1>2, <1>3, <1>4, <1>5 DEF Known

\* Before the first step of a run there is nothing to know.
LEMMA KnownAgain ==
  ASSUME build' \in AllBuilds, at' = [p \in Lifetimes |-> 1]
  PROVE  Known(open_writes, writers_by_path, rename_pairs, at)'
<1>1. \A p \in Lifetimes : at'[p] = 1 /\ \A k \in DOMAIN Program(p)' : ~(k < 1)
  <2>1. Understood(build')
    BY BuildsUnderstood
  <2>2. \A p \in Lifetimes : \E n \in Nat : DOMAIN Program(p)' = 1 .. n
    BY <2>1 DEF Understood, Program
  <2>3. \A n \in Nat : \A k \in 1 .. n : ~(k < 1)
    OBVIOUS
  <2>. QED
    BY <2>2, <2>3
<1>2. ASSUME NEW p, NEW q, NEW f \in Forks(p, q)' PROVE f \in DOMAIN Program(p)'
  BY <1>2 DEF Forks
<1>3. Own(open_writes, at)'
  BY <1>1 DEF Own
<1>4. Inherited(open_writes, at)'
  BY <1>1, <1>2 DEF Inherited
<1>5. Credited(writers_by_path, at)'
  BY <1>1 DEF Credited
<1>6. Remembered(rename_pairs, at)'
  BY <1>1 DEF Remembered
<1>. QED
  BY <1>3, <1>4, <1>5, <1>6 DEF Known

\* In the beginning.
LEMMA ProducersInitially == Init => ProducerInv
<1>. SUFFICES ASSUME Init PROVE ProducerInv
  OBVIOUS
<1>. QED
  BY DEF Init, ProducerInv

\* A run begins.
LEMMA ProducersBegin ==
  ASSUME EpochInv, BeginRun
  PROVE  ProducerInv'
<1>1. /\ build' = build /\ names' \in build.names /\ stage' = "run"
      /\ at' = [p \in Lifetimes |-> 1]
  BY DEF BeginRun
<1>2. Known(open_writes, writers_by_path, rename_pairs, at)'
  BY <1>1, KnownAgain DEF EpochInv
<1>. QED
  BY <1>1, <1>2 DEF ProducerInv

\* A process takes a step.
LEMMA ProducersAdvance ==
  ASSUME EpochInv, ProducerInv, NEW x \in Lifetimes, Enabled(x), Advance(x),
         stage = "run", stage' = stage, lost' # 0 \/ (lost' = lost /\ Scanned(x))
  PROVE  ProducerInv'
<1>1. UNCHANGED <<build, names>>
  BY DEF Advance
<1>2. \A p \in Lifetimes : at'[p] # 1 => Started(p)'
  BY StartedKept DEF ProducerInv
<1>3. ASSUME lost' = 0 PROVE Known(open_writes, writers_by_path, rename_pairs, at)'
  BY <1>1, <1>3, TakesStep, KnownKept, KnownSame DEF ProducerInv
<1>. QED
  BY <1>1, <1>2, <1>3 DEF ProducerInv

\* A step that leaves the build, and what was scanned, alone.
LEMMA ProducersQuiet ==
  ASSUME ProducerInv, UNCHANGED <<buildVars, lost, outputs>>,
         \/ UNCHANGED <<stage, scanVars>>
         \/ stage' \notin {"run", "walk", "attested", "done"}
         \/ stage # "run" /\ stage' # "run",
         stage' \in {"walk", "attested", "done"} =>
            /\ stage \in {"walk", "attested", "done"}
            /\ included_processes \subseteq included_processes'
  PROVE  ProducerInv'
<1>1. UNCHANGED <<build, names, at>>
  BY DEF buildVars
<1>2. \A p \in Lifetimes : Started(p)' <=> Started(p)
  BY <1>1 DEF Started, Forks, Program
<1>3. ASSUME stage' = "run", lost' = 0
      PROVE  Known(open_writes, writers_by_path, rename_pairs, at)'
  <2>1. stage = "run" /\ UNCHANGED scanVars
    BY <1>3
  <2>2. UNCHANGED <<open_writes, writers_by_path, rename_pairs>>
    BY <2>1 DEF scanVars, writerVars
  <2>. QED
    BY <1>1, <1>3, <2>1, <2>2, KnownSame DEF ProducerInv
<1>. QED
  BY <1>1, <1>2, <1>3 DEF ProducerInv

\* The trace is complete: there are no outputs, or the walk sets out.
LEMMA ProducersEnd ==
  ASSUME EpochInv, ScanInv, Attributed, ProducerInv, EndTrace
  PROVE  ProducerInv'
<1>1. UNCHANGED <<build, names, at, lost>> /\ stage = "run" /\ BuildDone
  BY DEF EndTrace, buildVars
<1>2. \A p \in Lifetimes : Started(p)' <=> Started(p)
  BY <1>1 DEF Started, Forks, Program
<1>3. stage' # "run"
  BY DEF EndTrace, Report
<1>4. ASSUME lost = 0, NEW d \in build.producers, NEW o \in outputs', o.path = d.path
      PROVE  d.process \in included_processes'
  <2>1. <<d.path, d.process>> \in Fixup
    BY <1>1, <1>4, ProducersCredited DEF ProducerInv
  <2>2. outputs' # {} /\ StartWalk(outputs')
    BY <1>4 DEF EndTrace
  <2>3. included_processes' = Seeds(Fixup, outputs')
    BY <2>2 DEF StartWalk
  <2>. QED
    BY <1>4, <2>1, <2>3 DEF Seeds
<1>. QED
  BY <1>1, <1>2, <1>3, <1>4 DEF ProducerInv

\* What a build's producers are said to be makes the difference.
AttributedInv == Attributed => ProducerInv

\* Every step keeps the producers.
LEMMA ProducersNext == ShapeInv /\ AttributedInv /\ [Next]_vars => AttributedInv'
<1>. SUFFICES ASSUME ShapeInv, AttributedInv, [Next]_vars PROVE AttributedInv'
  OBVIOUS
<1>1. build' = build
  BY DEF Next, Trace, ResetWorkspace, Verify, HarnessAgain, BeginRun, VerifyRefused,
         Deliver, Lose, Wait, Advance, EndFailed, EndTrace, WalkStep, Emit, vars, buildVars
<1>. SUFFICES ASSUME Attributed PROVE ProducerInv'
  <2>1. Attributed' <=> Attributed
    BY <1>1 DEF Attributed, Leaves, Untouched, BornBy, Becomes, Forks, Image, Images, Program
  <2>. QED
    BY <2>1 DEF AttributedInv
<1>2. ProducerInv /\ EpochInv /\ ScanInv
  BY DEF AttributedInv, ShapeInv
<1>3. CASE Trace \/ Verify \/ HarnessAgain
  BY <1>2, <1>3, ProducersBegin DEF Trace, Verify, HarnessAgain
<1>4. CASE ResetWorkspace
  BY <1>2, <1>4, ProducersQuiet DEF ResetWorkspace, sliceVars, walkVars
<1>5. ASSUME NEW sel, VerifyRefused(sel) PROVE ProducerInv'
  BY <1>2, <1>5, ProducersQuiet DEF VerifyRefused
<1>6. ASSUME NEW x \in Lifetimes, Deliver(x) PROVE ProducerInv'
  <2>1. /\ Enabled(x) /\ Advance(x) /\ ScanStep(Event(x)) /\ lost' = lost
        /\ stage = "run" /\ stage' = stage
    BY <1>6 DEF Deliver, runVars
  <2>2. at[x] \in DOMAIN Program(x)
    BY <1>2, <2>1, ProgramShape DEF Enabled
  <2>3. FormedStep(StepOf(x))
    BY <2>2 DEF Attributed, StepOf
  <2>4. StepOf(x).type = "fork" => "child" \in DOMAIN StepOf(x)
    BY <1>2, <2>2, BuildsUnderstood DEF Understood, EpochInv, Program, StepOf
  <2>5. Scanned(x)
    BY <1>2, <2>1, <2>3, <2>4, EventScanned
  <2>. QED
    BY <1>2, <2>1, <2>5, ProducersAdvance
<1>7. ASSUME NEW x \in Lifetimes, Lose(x) PROVE ProducerInv'
  <2>1. Enabled(x) /\ Advance(x) /\ lost' # 0 /\ stage = "run" /\ stage' = stage
    BY <1>7 DEF Lose, ShapeInv
  <2>. QED
    BY <1>2, <2>1, ProducersAdvance
<1>8. ASSUME NEW x \in Lifetimes, Wait(x) PROVE ProducerInv'
  <2>1. /\ Enabled(x) /\ Advance(x) /\ lost' = lost /\ stage = "run" /\ stage' = stage
        /\ UNCHANGED <<open_writes, writers_by_path, rename_pairs>>
        /\ StepOf(x).type = "wait"
    BY <1>8 DEF Wait, runVars, sliceVars, scanVars, writerVars
  <2>2. Scanned(x)
    BY <2>1, IdleScanned
  <2>. QED
    BY <1>2, <2>1, <2>2, ProducersAdvance
<1>9. CASE EndFailed
  BY <1>2, <1>9, ProducersQuiet DEF EndFailed
<1>10. CASE EndTrace
  BY <1>2, <1>10, ProducersEnd
<1>11. CASE WalkStep
  <2>1. PICK x \in queue : Pop(x)
    BY <1>11 DEF WalkStep
  <2>2. included_processes \subseteq included_processes' /\ UNCHANGED scanVars
    BY <2>1 DEF Pop
  <2>3. UNCHANGED <<buildVars, lost, outputs, stage>> /\ stage = "walk"
    BY <1>11 DEF WalkStep, runVars
  <2>. QED
    BY <1>2, <2>2, <2>3, ProducersQuiet
<1>12. CASE Emit
  <2>1. UNCHANGED <<buildVars, lost, outputs, included_processes>> /\ stage = "walk"
    BY <1>12 DEF Emit, EndWalk
  <2>2. stage' \in {"attested", "done"}
    BY <1>12 DEF Emit, Report
  <2>. QED
    BY <1>2, <2>1, <2>2, ProducersQuiet
<1>13. CASE UNCHANGED vars
  BY <1>2, <1>13, ProducersQuiet DEF vars, runVars, sliceVars, walkVars
<1>. QED
  BY <1>3, <1>4, <1>5, <1>6, <1>7, <1>8, <1>9, <1>10, <1>11, <1>12, <1>13 DEF Next

\* Whoever opened a selected output for writing is in the slice, through
\* forks, execs and renames, whichever way the processes were scheduled
\* (slice.rs, pending_writes, writers_by_path and rename_pairs).
THEOREM ProducersAreIncluded == Spec => [](Attributed => ProducersIncluded)
<1>1. Init => ShapeInv /\ AttributedInv
  BY ShapeInit, ProducersInitially DEF AttributedInv
<1>2. ShapeInv /\ AttributedInv /\ [Next]_vars => ShapeInv' /\ AttributedInv'
  BY ShapeNext, ProducersNext
<1>3. ShapeInv /\ AttributedInv => (Attributed => ProducersIncluded)
  BY DEF AttributedInv, ProducerInv, ProducersIncluded, Ended
<1>. QED
  BY <1>1, <1>2, <1>3, PTL DEF Spec

-----------------------------------------------------------------------------
(* Dependencies are committed.  A derivation is a chain of processes: each *)
(* has read a file that the next one has left, and the first has left the  *)
(* output.  The scan sees both ends of every link and the walk follows it, *)
(* unless what was read has the contents of an output.                     *)

\* Nothing in the name of path, nor in what it holds, was drawn.
Tells(path) ==
  /\ DrawnWith(names, path) = path /\ path \in DOMAIN final
  /\ final[path] \notin {Absent, Directory} \cup DOMAIN Mentions
Content(path) == <<"content", final[path]>>

\* Instance x reads path; opened a descriptor with which it was written.
ReadsFile(x, path) ==
  \E p \in Lifetimes \ External : \E k \in DOMAIN Program(p) :
     IsInput(Program(p)[k]) /\ Program(p)[k].path = path /\ x = Image(p, k)
LeavesFile(x, path) ==
  \E p, q \in Lifetimes \ External : \E k \in DOMAIN Program(p), j \in DOMAIN Program(q) :
     Leaves(p, k, q, j) /\ Program(q)[j].path = path /\ x = Image(p, k)

\* Of the n instances by each has read a file, from the input up to what the
\* producer of the output has read.
Link(d, n, by, file) ==
  /\ \E e \in build.producers : e.path = d.output /\ e.process = by[1]
  /\ file[n] = d.input
  /\ \A i \in 1 .. n : ReadsFile(by[i], file[i])
  /\ \A i \in 1 .. n - 1 : file[i] \in d.through /\ LeavesFile(by[i + 1], file[i])

\* Every derivation of the build is such a chain, through regular files.
Derived ==
  \A d \in build.derivations :
    /\ IsFiniteSet(d.through)
    /\ \A path \in d.through \cup {d.input} : \A files \in build.finals :
         /\ path \in DOMAIN files /\ files[path] \notin {Directory} \cup DOMAIN Mentions
         /\ \A n \in build.names : DrawnWith(n, path) = path
    /\ \E n \in 1 .. Cardinality(d.through) + 1 :
       \E by \in [1 .. n -> Instances], file \in [1 .. n -> d.through \cup {d.input}] :
          Link(d, n, by, file)

\* A file in between has the contents of an output only if it is one.
Distinct ==
  \A d \in build.derivations : \A path \in d.through :
    (\E o \in outputs : o.hash = Content(path)) => \E o \in outputs : o.path = path

\* The reads that were seen, and who left which contents.
Consumed(relation, when) ==
  \A p \in Lifetimes \ External : \A k \in DOMAIN Program(p) :
     IsInput(Program(p)[k]) /\ Tells(Program(p)[k].path) /\ k < when[p] =>
       <<Image(p, k), Content(Program(p)[k].path)>> \in relation
Supplied(relation, when) ==
  \A p, q \in Lifetimes \ External : \A k \in DOMAIN Program(p), j \in DOMAIN Program(q) :
     Leaves(p, k, q, j) /\ Tells(Program(q)[j].path) /\ j < when[q] =>
       <<Content(Program(q)[j].path), Image(p, k)>> \in relation

\* The trace is complete.
AfterScan == {"walk", "attested", "done"}

\* The scan is complete, the walk sets out from all it has to and what it
\* has reached is committed.
DependInv ==
  /\ stage \in {"run"} \cup AfterScan =>
       /\ final \in build.finals
       /\ lost = 0 => Consumed(reads, at) /\ Supplied(writers_by_hash, at)
  /\ stage \in AfterScan =>
       /\ BuildDone
       /\ lost = 0 => Credited(writers_by_path, at)
       /\ outputs # {} => /\ output_hashes = {o.hash : o \in outputs}
                          /\ Seeds(writers_by_path, outputs) \subseteq included_processes
  /\ Ended /\ outputs # {} =>
       /\ Settled /\ queue = {}
       /\ \A r \in reads : r[1] \in included_processes => Committed(r[2])

-----------------------------------------------------------------------------
(* What an event tells of contents.                                        *)

\* The next step of x adds what it reads, and whose contents it closes.
Seen(x) ==
  /\ reads \subseteq reads' /\ writers_by_hash \subseteq writers_by_hash'
  /\ x \notin External /\ IsInput(StepOf(x)) /\ Tells(StepOf(x).path) =>
       << <<x, EpochOf(x)>>, Content(StepOf(x).path)>> \in reads'
  /\ x \notin External /\ Tells(StepOf(x).path) =>
       \A fd, w : Completes(StepOf(x), fd) /\ Entry(open_writes, x, fd, w) =>
         <<Content(StepOf(x).path), w>> \in writers_by_hash'

\* A step that is no access to a file.
LEMMA IdleSeen ==
  ASSUME NEW x, reads \subseteq reads', writers_by_hash \subseteq writers_by_hash',
         x \in External \/ StepOf(x).type \notin {"open", "mmap", "close"}
  PROVE  Seen(x)
BY DEF Seen, IsInput, Completes

\* What is observed there.
LEMMA ContentSeen ==
  ASSUME NEW x, StepOf(x).type \in {"open", "mmap", "close"}, FormedStep(StepOf(x)),
         Tells(StepOf(x).path), StepOf(x).type = "open" => StepOf(x).mode # "trunc"
  PROVE  /\ Event(x).step.path = StepOf(x).path /\ Event(x).step.mode = StepOf(x).mode
         /\ Event(x).observation = Content(StepOf(x).path)
         /\ content_hash(Event(x).observation) = {Content(StepOf(x).path)}
<1>. DEFINE s == StepOf(x)
<1>1. Event(x).step.path = s.path /\ Event(x).step.mode = s.mode
  BY FieldsSeen DEF Tells
<1>2. Observation(s) = observe_path(s.path)
  BY DEF Observation
<1>3. observe_path(s.path) = ObservedIn(s.path, final, names)
  BY ObservedNow
<1>4. ObservedIn(s.path, final, names) = Content(s.path)
  BY DEF ObservedIn, Tells, Content, observe_file
<1>5. Event(x).observation = Content(s.path)
  BY <1>2, <1>3, <1>4 DEF Event
<1>6. content_hash(Content(s.path)) = {Content(s.path)}
  BY DEF content_hash, Content
<1>. QED
  BY <1>1, <1>5, <1>6

\* A file is opened or mapped.
LEMMA AccessSeen ==
  ASSUME NEW x, x \notin External, StepOf(x).type \in {"open", "mmap"},
         FormedStep(StepOf(x)), NEW read, NEW write,
         Accessed(Event(x), read, write), IsInput(StepOf(x)) => read
  PROVE  Seen(x)
<1>. DEFINE e == Event(x)
            s == StepOf(x)
<1>1. /\ reads' = IF read THEN reads \cup {<<e.process, h>> : h \in ReadHashes(e)} ELSE reads
      /\ writers_by_hash' = writers_by_hash
  BY DEF Accessed, writerVars
<1>2. ASSUME IsInput(s), Tells(s.path)
      PROVE  << <<x, EpochOf(x)>>, Content(s.path)>> \in reads'
  <2>1. s.mode # "trunc" /\ ~is_system_state(s.path)
    BY <1>2 DEF IsInput
  <2>2. e.step.path = s.path /\ content_hash(e.observation) = {Content(s.path)}
    BY <1>2, <2>1, ContentSeen
  <2>3. ReadHashes(e) = {Content(s.path)}
    BY <2>1, <2>2 DEF ReadHashes
  <2>4. e.process = <<x, EpochOf(x)>>
    BY ScannedEvent
  <2>. QED
    BY <1>1, <1>2, <2>3, <2>4
<1>3. \A fd : ~Completes(s, fd)
  BY DEF Completes
<1>. QED
  BY <1>1, <1>2, <1>3 DEF Seen

\* A descriptor is closed.
LEMMA CloseSeen ==
  ASSUME NEW x, x \notin External, FormedStep(StepOf(x)), ScanClose(Event(x))
  PROVE  Seen(x)
<1>. DEFINE e == Event(x)
            s == StepOf(x)
            key == <<x, s.fd>>
            hashes == content_hash(e.observation)
<1>0. s.type = "close"
  BY ScannedEvent DEF ScanClose
<1>1. /\ e.step.fd = s.fd /\ e.step.mode = s.mode /\ e.process[1] = x
      /\ e.step.path = NoPath <=> s.path = NoPath
  BY <1>0, FieldsSeen, ScannedEvent
<1>2. can_write(e.step) <=> can_write(s)
  BY <1>1 DEF can_write
<1>3. /\ reads' = reads
      /\ IF key \in DOMAIN open_writes /\ can_write(s) /\ s.path # NoPath
         THEN writers_by_hash' = writers_by_hash
                \cup {<<h, open_writes[key].process>> : h \in hashes}
         ELSE writers_by_hash' = writers_by_hash
  BY <1>1, <1>2 DEF ScanClose
<1>4. ASSUME Tells(s.path), NEW fd, NEW w, Completes(s, fd), Entry(open_writes, x, fd, w)
      PROVE  <<Content(s.path), w>> \in writers_by_hash'
  <2>1. hashes = {Content(s.path)}
    BY <1>0, <1>4, ContentSeen
  <2>2. key \in DOMAIN open_writes /\ open_writes[key].process = w
        /\ can_write(s) /\ s.path # NoPath
    BY <1>4 DEF Completes, Entry
  <2>. QED
    BY <1>3, <2>1, <2>2
<1>5. ~IsInput(s) /\ writers_by_hash \subseteq writers_by_hash'
  BY <1>0, <1>3 DEF IsInput
<1>. QED
  BY <1>3, <1>4, <1>5 DEF Seen

\* Every event is one of these.
LEMMA EventSeen ==
  ASSUME NEW x, FormedStep(StepOf(x)), ScanStep(Event(x))
  PROVE  Seen(x)
<1>. DEFINE e == Event(x)
            s == StepOf(x)
<1>0. e.type = s.type /\ (e.external <=> x \in External)
  BY ScannedEvent
<1>1. CASE ScanExec(e) \/ ScanFork(e) \/ ScanExit(e)
  <2>1. UNCHANGED <<reads, writers_by_hash>> /\ s.type \in {"exec", "fork", "exit"}
    BY <1>0, <1>1 DEF ScanExec, ScanFork, ScanExit, flowVars, writerVars
  <2>. QED
    BY <2>1, IdleSeen
<1>2. CASE ScanOpen(e)
  <2>1. x \notin External /\ s.type = "open" /\ Accessed(e, can_read(e.step), can_write(e.step))
    BY <1>0, <1>2 DEF ScanOpen
  <2>2. IsInput(s) => can_read(e.step)
    BY <2>1, FieldsSeen DEF IsInput, can_read
  <2>. QED
    BY <2>1, <2>2, AccessSeen
<1>3. CASE ScanMmap(e)
  <2>. DEFINE known == e.step.path # NoPath
              write == known /\ e.step.mode = "rw"
  <2>1. x \notin External /\ s.type = "mmap" /\ Accessed(e, known, write)
    BY <1>0, <1>3 DEF ScanMmap
  <2>2. IsInput(s) => known
    BY <2>1, FieldsSeen DEF IsInput
  <2>. HIDE DEF write, known
  <2>. QED
    BY <2>1, <2>2, AccessSeen
<1>4. CASE ScanClose(e)
  BY <1>0, <1>4, CloseSeen DEF ScanClose
<1>5. CASE ScanRename(e)
  <2>1. reads \subseteq reads' /\ writers_by_hash \subseteq writers_by_hash' /\ s.type = "rename"
    BY <1>0, <1>5 DEF ScanRename
  <2>. QED
    BY <2>1, IdleSeen
<1>6. CASE ScanIgnored(e)
  <2>1. UNCHANGED <<reads, writers_by_hash>> /\ (x \in External \/ s.type = "unlink")
    BY <1>0, <1>6 DEF ScanIgnored, scanVars, flowVars, writerVars
  <2>. QED
    BY <2>1, IdleSeen
<1>. QED
  BY <1>1, <1>2, <1>3, <1>4, <1>5, <1>6 DEF ScanStep
-----------------------------------------------------------------------------
(* What was read and left, after a step.                                   *)

\* Reads.
LEMMA ConsumedKept ==
  ASSUME NEW x \in Lifetimes, Stepped(x), Seen(x), Consumed(reads, at)
  PROVE  Consumed(reads', at')
<1>. SUFFICES ASSUME NEW p \in Lifetimes \ External, NEW k \in DOMAIN Program(p),
                     IsInput(Program(p)[k]), Tells(Program(p)[k].path), k < at'[p]
              PROVE  <<Image(p, k), Content(Program(p)[k].path)>> \in reads'
  BY DEF Consumed
<1>1. /\ k \in Nat \ {0} /\ at[p] \in Nat \ {0} /\ reads \subseteq reads'
      /\ at'[p] = (IF p = x THEN at[p] + 1 ELSE at[p])
  BY DEF Stepped, Seen
<1>2. CASE k < at[p]
  BY <1>1, <1>2 DEF Consumed
<1>3. CASE ~(k < at[p])
  <2>1. p = x /\ k = at[x]
    BY <1>1, <1>3
  <2>2. Image(p, k) = <<x, EpochOf(x)>> /\ Program(p)[k] = StepOf(x)
    BY <2>1 DEF Image, Stepped, StepOf
  <2>. QED
    BY <2>1, <2>2 DEF Seen
<1>. QED
  BY <1>2, <1>3

\* Contents that were left.
LEMMA SuppliedKept ==
  ASSUME NEW x \in Lifetimes, Stepped(x), Seen(x), Own(open_writes, at),
         Inherited(open_writes, at), Supplied(writers_by_hash, at)
  PROVE  Supplied(writers_by_hash', at')
<1>. SUFFICES ASSUME NEW p \in Lifetimes \ External, NEW q \in Lifetimes \ External,
                     NEW k \in DOMAIN Program(p), NEW j \in DOMAIN Program(q),
                     Leaves(p, k, q, j), Tells(Program(q)[j].path), j < at'[q]
              PROVE  <<Content(Program(q)[j].path), Image(p, k)>> \in writers_by_hash'
  BY DEF Supplied
<1>1. /\ j \in Nat \ {0} /\ at[q] \in Nat \ {0} /\ writers_by_hash \subseteq writers_by_hash'
      /\ at'[q] = (IF q = x THEN at[q] + 1 ELSE at[q])
  BY DEF Stepped, Seen
<1>2. CASE j < at[q]
  BY <1>1, <1>2 DEF Supplied
<1>3. CASE ~(j < at[q])
  <2>1. q = x /\ j = at[x] /\ Program(q)[j] = StepOf(x)
    BY <1>1, <1>3 DEF StepOf
  <2>2. /\ Completes(StepOf(x), Program(p)[k].fd)
        /\ Entry(open_writes, x, Program(p)[k].fd, Image(p, k))
    BY <2>1, ClosedEntry
  <2>. QED
    BY <2>1, <2>2 DEF Seen
<1>. QED
  BY <1>2, <1>3

-----------------------------------------------------------------------------
(* The runs.                                                               *)

\* The parts of DependInv are about the build, its files and its names.
LEMMA DependSame ==
  ASSUME UNCHANGED <<build, final, names>>
  PROVE  /\ Consumed(reads, at)' <=> Consumed(reads', at')
         /\ Supplied(writers_by_hash, at)' <=> Supplied(writers_by_hash', at')
         /\ Credited(writers_by_path, at)' <=> Credited(writers_by_path', at')
<1>1. Consumed(reads, at)' <=> Consumed(reads', at')
  BY DEF Consumed, Tells, Content, Image, Images, Program
<1>2. Supplied(writers_by_hash, at)' <=> Supplied(writers_by_hash', at')
  BY DEF Supplied, Tells, Content, Leaves, Untouched, BornBy, Forks, Image, Images, Program
<1>3. Credited(writers_by_path, at)' <=> Credited(writers_by_path', at')
  BY DEF Credited, Leaves, Untouched, BornBy, Forks, Image, Images, Program
<1>. QED
  BY <1>1, <1>2, <1>3

\* In the beginning.
LEMMA DependInitially == Init => DependInv
BY DEF Init, DependInv, AfterScan, Ended

\* A run begins.
LEMMA DependBegin ==
  ASSUME EpochInv, BeginRun
  PROVE  DependInv'
<1>1. /\ build' = build /\ final' \in build.finals /\ stage' = "run"
      /\ at' = [p \in Lifetimes |-> 1] /\ build' \in AllBuilds
  BY DEF BeginRun, EpochInv
<1>2. \A p \in Lifetimes : at'[p] = 1 /\ \A k \in DOMAIN Program(p)' : ~(k < 1)
  <2>1. Understood(build')
    BY <1>1, BuildsUnderstood
  <2>2. \A p \in Lifetimes : \E n \in Nat : DOMAIN Program(p)' = 1 .. n
    BY <2>1 DEF Understood, Program
  <2>3. \A n \in Nat : \A k \in 1 .. n : ~(k < 1)
    OBVIOUS
  <2>. QED
    BY <1>1, <2>2, <2>3
<1>3. Consumed(reads, at)'
  BY <1>2 DEF Consumed
<1>4. Supplied(writers_by_hash, at)'
  BY <1>2 DEF Supplied
<1>. QED
  BY <1>1, <1>3, <1>4 DEF DependInv, AfterScan, Ended

\* A process takes a step.
LEMMA DependAdvance ==
  ASSUME EpochInv, ProducerInv, DependInv, NEW x \in Lifetimes, Enabled(x), Advance(x),
         stage = "run", stage' = stage,
         lost' # 0 \/ (lost' = lost /\ Scanned(x) /\ Seen(x))
  PROVE  DependInv'
<1>1. UNCHANGED <<build, names, final>>
  BY DEF Advance
<1>2. ASSUME lost' = 0 PROVE Consumed(reads, at)' /\ Supplied(writers_by_hash, at)'
  <2>1. lost = 0 /\ Scanned(x) /\ Seen(x)
    BY <1>2
  <2>2. Stepped(x)
    BY <2>1, TakesStep DEF ProducerInv
  <2>3. Own(open_writes, at) /\ Inherited(open_writes, at)
    BY <2>1 DEF ProducerInv, Known
  <2>4. Consumed(reads, at) /\ Supplied(writers_by_hash, at)
    BY <2>1 DEF DependInv
  <2>. QED
    BY <1>1, <2>1, <2>2, <2>3, <2>4, ConsumedKept, SuppliedKept, DependSame
<1>. QED
  BY <1>1, <1>2 DEF DependInv, AfterScan, Ended

\* A step that leaves everything of interest alone.
LEMMA DependQuiet ==
  ASSUME DependInv, UNCHANGED <<buildVars, sliceVars, lost, outputs, stage, actual>>
  PROVE  DependInv'
<1>1. UNCHANGED <<build, names, final, at, reads, writers_by_hash, writers_by_path, queue,
                  output_hashes, included_processes, relevant_hashes>>
  BY DEF buildVars, sliceVars, scanVars, flowVars, writerVars, walkVars
<1>2. BuildDone' <=> BuildDone
  BY <1>1 DEF BuildDone, Running, Program
<1>3. Settled' <=> Settled
  BY <1>1 DEF Settled
<1>4. \A h : Committed(h)' <=> Committed(h)
  BY DEF Committed
<1>. QED
  BY <1>1, <1>2, <1>3, <1>4, DependSame DEF DependInv, Ended, AfterScan, Committed, Seeds

\* The trace is complete: there are no outputs, or the walk sets out.
LEMMA DependEnd ==
  ASSUME EpochInv, ScanInv, ProducerInv, DependInv, EndTrace
  PROVE  DependInv'
<1>1. /\ UNCHANGED <<build, names, final, at, lost>> /\ stage = "run" /\ BuildDone
      /\ UNCHANGED <<reads, writers_by_hash>>
  BY DEF EndTrace, buildVars, StartWalk, sliceVars, scanVars, flowVars, writerVars
<1>2. BuildDone'
  BY <1>1 DEF BuildDone, Running, Program
<1>3. ASSUME lost = 0 PROVE Consumed(reads, at)' /\ Supplied(writers_by_hash, at)'
  BY <1>1, <1>3, DependSame DEF DependInv
<1>4. ASSUME lost = 0 PROVE Credited(writers_by_path, at)'
  <2>1. Credited(writers_by_path, at)
    BY <1>1, <1>4 DEF ProducerInv, Known
  <2>2. writers_by_path \subseteq writers_by_path'
    <3>1. PICK S : rename_pairs \in Seq(S)
      BY DEF ScanInv
    <3>2. writers_by_path \subseteq Fixup
      BY <3>1, FixupGrows
    <3>3. writers_by_path' = writers_by_path \/ writers_by_path' = Fixup
      BY DEF EndTrace, StartWalk, sliceVars, scanVars, writerVars
    <3>. QED
      BY <3>2, <3>3
  <2>3. Credited(writers_by_path', at')
    BY <1>1, <2>1, <2>2 DEF Credited
  <2>. QED
    BY <1>1, <2>3, DependSame
<1>5. ASSUME outputs' # {}
      PROVE  /\ stage' = "walk" /\ output_hashes' = {o.hash : o \in outputs'}
             /\ Seeds(writers_by_path, outputs)' \subseteq included_processes'
  <2>1. stage' = "walk" /\ StartWalk(outputs')
    BY <1>5 DEF EndTrace
  <2>. QED
    BY <2>1 DEF StartWalk, Seeds
<1>6. stage' \in AfterScan /\ (outputs' # {} => stage' = "walk")
  BY <1>5 DEF EndTrace, Report, AfterScan
<1>. QED
  BY <1>1, <1>2, <1>3, <1>4, <1>5, <1>6 DEF DependInv, Ended

\* The walk takes a step.
LEMMA DependWalk ==
  ASSUME DependInv, WalkStep
  PROVE  DependInv'
<1>1. /\ UNCHANGED <<build, names, final, at, lost, outputs, stage>> /\ stage = "walk"
      /\ UNCHANGED <<reads, writers_by_hash, writers_by_path, output_hashes>>
      /\ included_processes \subseteq included_processes'
  BY DEF WalkStep, Pop, buildVars, runVars, scanVars, flowVars, writerVars
<1>2. BuildDone' <=> BuildDone
  BY <1>1 DEF BuildDone, Running, Program
<1>3. ~Ended'
  BY <1>1 DEF Ended
<1>. QED
  BY <1>1, <1>2, <1>3, DependSame DEF DependInv, AfterScan, Seeds

\* An operation that has read contents h holds them.
LEMMA ReadTells ==
  ASSUME ScanInv, NEW x \in Instances, NEW h
  PROVE  \E i \in DOMAIN hash(FlowOp(x, "file_read", <<h>>, <<>>)) :
            hash(FlowOp(x, "file_read", <<h>>, <<>>))[i] = h
<1>. DEFINE tool == flow_tool[x]
            first == <<"op", "file_read">>
            S == {first, tool[1], h}
            body == <<first>> \o tool \o <<>>
<1>1. IsOption(tool)
  BY DEF ScanInv
<1>2. <<first>> \in Seq(S) /\ tool \in Seq(S) /\ <<h>> \in Seq(S) /\ <<>> \in Seq(S)
  BY <1>1, OptionSeq
<1>3. body \in Seq(S)
  BY <1>2
<1>4. hash(FlowOp(x, "file_read", <<h>>, <<>>)) = body \o <<h>> \o <<>>
  BY DEF hash, FlowOp, CanonicalOp
<1>. HIDE DEF S, body, first, tool
<1>5. body \o <<h>> \in Seq(S) /\ body \o <<h>> \o <<>> = body \o <<h>>
  BY <1>2, <1>3
<1>6. /\ Len(body) + 1 \in DOMAIN (body \o <<h>>)
      /\ (body \o <<h>>)[Len(body) + 1] = h
  BY <1>2, <1>3
<1>. QED
  BY <1>4, <1>5, <1>6

\* What a reached process has read is in every result.
LEMMA ReadsCommitted ==
  ASSUME ScanInv, NEW result \in canonicalize_output_slice, NEW r \in reads,
         r[1] \in included_processes, r[2] \in relevant_hashes
  PROVE  \E leaf \in result : \E i \in DOMAIN leaf : leaf[i] = r[2]
<1>1. PICK pick \in [Orphans -> {{}} \cup {{x} : x \in Instances}] :
         result = finalize_ops(ReachedOps \cup ExitOps
                               \cup UNION {OrphanOp(o, pick[o]) : o \in Orphans})
  BY DEF canonicalize_output_slice
<1>. DEFINE op == FlowOp(r[1], "file_read", <<r[2]>>, <<>>)
<1>2. op \in ReachedOps
  BY DEF ReachedOps
<1>3. hash(op) \in result
  BY <1>1, <1>2 DEF finalize_ops
<1>4. r[1] \in Instances
  BY DEF ScanInv
<1>5. \E i \in DOMAIN hash(op) : hash(op)[i] = r[2]
  BY <1>4, ReadTells
<1>. QED
  BY <1>3, <1>5

\* The walk ends.
LEMMA DependEmit ==
  ASSUME ScanInv, WalkInv, DependInv, Emit
  PROVE  DependInv'
<1>1. /\ UNCHANGED <<build, names, final, at, lost, outputs>> /\ stage = "walk"
      /\ UNCHANGED <<reads, writers_by_hash, writers_by_path, output_hashes,
                     included_processes, relevant_hashes, queue>>
      /\ queue = {}
  BY DEF Emit, EndWalk, buildVars, scanVars, flowVars, writerVars
<1>2. PICK result \in canonicalize_output_slice : Report(result, outputs)
  BY DEF Emit
<1>3. stage' \in {"attested", "done"} /\ actual'.root.process_root = result
  BY <1>2 DEF Report, root_hash
<1>4. Settled
  BY <1>1 DEF WalkInv
<1>5. ASSUME NEW r \in reads', r[1] \in included_processes' PROVE Committed(r[2])'
  <2>1. r \in reads /\ r[1] \in included_processes /\ r[2] \in relevant_hashes
    BY <1>1, <1>4, <1>5 DEF Settled
  <2>2. \E leaf \in result : \E i \in DOMAIN leaf : leaf[i] = r[2]
    BY <2>1, ReadsCommitted
  <2>. QED
    BY <1>3, <2>2 DEF Committed
<1>6. Settled'
  BY <1>1, <1>4 DEF Settled
<1>7. BuildDone' <=> BuildDone
  BY <1>1 DEF BuildDone, Running, Program
<1>. QED
  BY <1>1, <1>3, <1>5, <1>6, <1>7, DependSame DEF DependInv, AfterScan, Seeds

\* Where the producers are those of the programs.
FollowedInv == Attributed => DependInv

\* Every step keeps the dependencies.
LEMMA DependNext ==
  ShapeInv /\ WalkInv /\ AttributedInv /\ FollowedInv /\ [Next]_vars => FollowedInv'
<1>. SUFFICES ASSUME ShapeInv, WalkInv, AttributedInv, FollowedInv, [Next]_vars
              PROVE  FollowedInv'
  OBVIOUS
<1>1. build' = build
  BY DEF Next, Trace, ResetWorkspace, Verify, HarnessAgain, BeginRun, VerifyRefused,
         Deliver, Lose, Wait, Advance, EndFailed, EndTrace, WalkStep, Emit, vars, buildVars
<1>. SUFFICES ASSUME Attributed PROVE DependInv'
  <2>1. Attributed' <=> Attributed
    BY <1>1 DEF Attributed, Leaves, Untouched, BornBy, Becomes, Forks, Image, Images, Program
  <2>. QED
    BY <2>1 DEF FollowedInv
<1>2. ProducerInv /\ DependInv /\ EpochInv /\ ScanInv
  BY DEF AttributedInv, FollowedInv, ShapeInv
<1>3. CASE Trace \/ Verify \/ HarnessAgain
  BY <1>2, <1>3, DependBegin DEF Trace, Verify, HarnessAgain
<1>4. CASE ResetWorkspace
  BY <1>2, <1>4, DependQuiet DEF ResetWorkspace, resultVars
<1>5. ASSUME NEW sel, VerifyRefused(sel) PROVE DependInv'
  BY <1>5 DEF VerifyRefused, DependInv, AfterScan, Ended
<1>6. ASSUME NEW x \in Lifetimes, Deliver(x) PROVE DependInv'
  <2>1. /\ Enabled(x) /\ Advance(x) /\ ScanStep(Event(x)) /\ lost' = lost
        /\ stage = "run" /\ stage' = stage
    BY <1>6 DEF Deliver, runVars
  <2>2. at[x] \in DOMAIN Program(x)
    BY <1>2, <2>1, ProgramShape DEF Enabled
  <2>3. FormedStep(StepOf(x))
    BY <2>2 DEF Attributed, StepOf
  <2>4. StepOf(x).type = "fork" => "child" \in DOMAIN StepOf(x)
    BY <1>2, <2>2, BuildsUnderstood DEF Understood, EpochInv, Program, StepOf
  <2>5. Scanned(x) /\ Seen(x)
    BY <1>2, <2>1, <2>3, <2>4, EventScanned, EventSeen
  <2>. QED
    BY <1>2, <2>1, <2>5, DependAdvance
<1>7. ASSUME NEW x \in Lifetimes, Lose(x) PROVE DependInv'
  <2>1. Enabled(x) /\ Advance(x) /\ lost' # 0 /\ stage = "run" /\ stage' = stage
    BY <1>7 DEF Lose, ShapeInv
  <2>. QED
    BY <1>2, <2>1, DependAdvance
<1>8. ASSUME NEW x \in Lifetimes, Wait(x) PROVE DependInv'
  <2>1. /\ Enabled(x) /\ Advance(x) /\ lost' = lost /\ stage = "run" /\ stage' = stage
        /\ UNCHANGED <<open_writes, writers_by_path, rename_pairs, reads, writers_by_hash>>
        /\ StepOf(x).type = "wait"
    BY <1>8 DEF Wait, runVars, sliceVars, scanVars, flowVars, writerVars
  <2>2. Scanned(x) /\ Seen(x)
    BY <2>1, IdleScanned, IdleSeen
  <2>. QED
    BY <1>2, <2>1, <2>2, DependAdvance
<1>9. CASE EndFailed
  BY <1>9 DEF EndFailed, DependInv, AfterScan, Ended
<1>10. CASE EndTrace
  BY <1>2, <1>10, DependEnd
<1>11. CASE WalkStep
  BY <1>2, <1>11, DependWalk
<1>12. CASE Emit
  BY <1>2, <1>12, DependEmit
<1>13. CASE UNCHANGED vars
  BY <1>2, <1>13, DependQuiet DEF vars, runVars, resultVars
<1>. QED
  BY <1>3, <1>4, <1>5, <1>6, <1>7, <1>8, <1>9, <1>10, <1>11, <1>12, <1>13 DEF Next

\* Link by link, from the producer of the output to the reader of the input.
LEMMA ChainFollowed ==
  ASSUME EpochInv, Derived, Distinct, ProducerInv, DependInv, Ended, lost = 0,
         NEW d \in build.derivations, \E o \in outputs : o.path = d.output,
         \A path \in d.through \cup {d.input} : final[path] # Absent
  PROVE  Committed(<<"content", final[d.input]>>)
<1>1. /\ stage \in AfterScan /\ outputs # {} /\ names \in build.names /\ final \in build.finals
      /\ Settled /\ queue = {} /\ output_hashes = {o.hash : o \in outputs}
      /\ Seeds(writers_by_path, outputs) \subseteq included_processes
      /\ \A r \in reads : r[1] \in included_processes => Committed(r[2])
  BY DEF Ended, AfterScan, DependInv, ProducerInv
<1>2. /\ Consumed(reads, at) /\ Supplied(writers_by_hash, at)
      /\ Credited(writers_by_path, at) /\ BuildDone
  BY <1>1 DEF DependInv
<1>3. \A p \in Lifetimes : \A m \in DOMAIN Program(p) : m < at[p]
  <2>. SUFFICES ASSUME NEW p \in Lifetimes, NEW m \in DOMAIN Program(p) PROVE m < at[p]
    OBVIOUS
  <2>. QED
    BY <1>2, ProgramShape DEF BuildDone, Running
<1>4. \A path \in d.through \cup {d.input} : Tells(path)
  BY <1>1 DEF Derived, Tells
<1>5. ASSUME NEW x, NEW path, ReadsFile(x, path), Tells(path)
      PROVE  <<x, Content(path)>> \in reads
  BY <1>2, <1>3, <1>5 DEF ReadsFile, Consumed
<1>6. ASSUME NEW x, NEW path, LeavesFile(x, path), Tells(path)
      PROVE  <<Content(path), x>> \in writers_by_hash /\ <<path, x>> \in writers_by_path
  <2>1. PICK p \in Lifetimes \ External, q \in Lifetimes \ External :
          \E k \in DOMAIN Program(p), j \in DOMAIN Program(q) :
             Leaves(p, k, q, j) /\ Program(q)[j].path = path /\ x = Image(p, k)
    BY <1>6 DEF LeavesFile
  <2>2. PICK k \in DOMAIN Program(p), j \in DOMAIN Program(q) :
             Leaves(p, k, q, j) /\ Program(q)[j].path = path /\ x = Image(p, k)
    BY <2>1
  <2>3. j < at[q] /\ DrawnWith(names, path) = path
    BY <1>3, <1>6 DEF Tells
  <2>4. <<Content(path), x>> \in writers_by_hash
    BY <1>2, <1>6, <2>2, <2>3 DEF Supplied
  <2>5. <<path, x>> \in writers_by_path
    BY <1>2, <2>2, <2>3 DEF Credited
  <2>. QED
    BY <2>4, <2>5
<1>7. ASSUME NEW x \in included_processes, NEW w, NEW path \in d.through,
             ReadsFile(x, path), LeavesFile(w, path)
      PROVE  w \in included_processes
  <2>1. /\ <<x, Content(path)>> \in reads /\ <<Content(path), w>> \in writers_by_hash
        /\ <<path, w>> \in writers_by_path
    BY <1>4, <1>5, <1>6, <1>7
  <2>2. CASE Content(path) \in output_hashes
    <3>1. \E o \in outputs : o.path = path
      BY <1>1, <2>2 DEF Distinct
    <3>2. w \in Seeds(writers_by_path, outputs)
      BY <2>1, <3>1 DEF Seeds
    <3>. QED
      BY <1>1, <3>2
  <2>3. CASE Content(path) \notin output_hashes
    <3>1. Content(path) \in relevant_hashes \ output_hashes
      BY <1>1, <2>1, <2>3 DEF Settled
    <3>. QED
      BY <1>1, <2>1, <3>1 DEF Settled
  <2>. QED
    BY <2>2, <2>3
<1>8. PICK n \in 1 .. Cardinality(d.through) + 1 :
        \E by \in [1 .. n -> Instances], file \in [1 .. n -> d.through \cup {d.input}] :
           Link(d, n, by, file)
  BY DEF Derived
<1>9. PICK by \in [1 .. n -> Instances], file \in [1 .. n -> d.through \cup {d.input}] :
        Link(d, n, by, file)
  BY <1>8
<1>10. n \in Nat /\ n >= 1
  <2>1. Cardinality(d.through) \in Nat
    BY FS_CardinalityType DEF Derived
  <2>. QED
    BY <2>1
<1>11. by[1] \in included_processes
  BY <1>1, <1>9 DEF Link, ProducerInv, AfterScan
<1>12. \A i \in 1 .. n : by[i] \in included_processes
  <2>. DEFINE Stray == {i \in Nat : i \in 1 .. n /\ by[i] \notin included_processes}
  <2>. SUFFICES ASSUME Stray # {} PROVE FALSE
    BY <1>10
  <2>1. PICK i \in Stray : \A m \in Stray : i <= m
    BY LeastNumber
  <2>2. i # 1 /\ i \in 1 .. n
    BY <1>11, <2>1
  <2>3. i - 1 \in 1 .. n - 1 /\ i - 1 \in 1 .. n /\ i - 1 \in Nat /\ (i - 1) + 1 = i
    BY <1>10, <2>2
  <2>4. by[i - 1] \in included_processes
    BY <2>1, <2>3
  <2>5. ReadsFile(by[i - 1], file[i - 1]) /\ file[i - 1] \in d.through
        /\ LeavesFile(by[i], file[i - 1])
    BY <1>9, <2>3 DEF Link
  <2>6. by[i] \in included_processes
    BY <1>7, <2>4, <2>5
  <2>. QED
    BY <2>1, <2>6
<1>13. ReadsFile(by[n], d.input) /\ by[n] \in included_processes
  BY <1>9, <1>10, <1>12 DEF Link
<1>14. <<by[n], Content(d.input)>> \in reads
  BY <1>4, <1>5, <1>13
<1>. QED
  BY <1>1, <1>13, <1>14 DEF Content

\* An attestation commits what its outputs were made from, through every
\* schedule, unless the contents of a file in between are also those of an
\* output that it is not itself (slice.rs, relevant_hashes): a copy of an
\* output is the only thing that hides what lies behind it.
THEOREM DependenciesAreCommitted ==
  Spec => [](Attributed /\ Derived /\ Distinct => DependenciesCommitted)
<1>. DEFINE Inv == ShapeInv /\ WalkInv /\ AttributedInv /\ FollowedInv
<1>1. Init => Inv
  BY ShapeInit, WalkInit, ProducersInitially, DependInitially DEF AttributedInv, FollowedInv
<1>2. Inv /\ [Next]_vars => Inv'
  BY ShapeNext, WalkNext, ProducersNext, DependNext
<1>3. Inv => (Attributed /\ Derived /\ Distinct => DependenciesCommitted)
  <2>. SUFFICES ASSUME Inv, Attributed, Derived, Distinct PROVE DependenciesCommitted
    OBVIOUS
  <2>1. EpochInv /\ ProducerInv /\ DependInv
    BY DEF ShapeInv, AttributedInv, FollowedInv
  <2>. QED
    BY <2>1, ChainFollowed DEF DependenciesCommitted
<1>. QED
  BY <1>1, <1>2, <1>3, PTL DEF Spec
=============================================================================
