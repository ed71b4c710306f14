------------------------- MODULE AttestationProofs --------------------------
(***************************************************************************)
(* What Attestation promises, for every set of origins to attest, every    *)
(* depth of the trees and every number of keys drawn.                      *)
(*                                                                         *)
(* The hashes are free constructors, so all rests on reading back what was *)
(* hashed: the levels of a tree from its root (RootInjective), the fields  *)
(* of a commitment from its bytes (CommitmentInjective).  A file is what   *)
(* was written, or, where parts of it are replaced, each part is of its    *)
(* type (FileInv); one that is validated therefore says what its root was  *)
(* made from.  EnvelopeInv says that the signature is over what was        *)
(* signed.                                                                 *)
(***************************************************************************)
EXTENDS Attestation, TLAPS, WellFoundedInduction, SequenceTheorems

-----------------------------------------------------------------------------
\* Sequences: taking apart what was put together.

\* A set of numbers that is not empty has a least element.
LEMMA LeastNumber ==
  ASSUME NEW T \in SUBSET Nat, T # {}
  PROVE  \E n \in T : \A m \in T : n <= m
<1>1. PICK n \in T : \A m \in T : ~ (<<m, n>> \in OpToRel(<, Nat))
  BY NatLessThanWellFounded, WFMin
<1>2. \A m \in T : ~ (m < n)
  BY <1>1 DEF OpToRel
<1>. QED
  BY <1>2

\* Two texts read the same, wherever they are cut.
Alike(a, x, b, y) == a \o x = b \o y

\* Sequences that begin alike can be taken apart.
LEMMA Cancel ==
  ASSUME NEW S, NEW a \in Seq(S), NEW b \in Seq(S), NEW x \in Seq(S), NEW y \in Seq(S),
         Len(a) = Len(b), Alike(a, x, b, y)
  PROVE  a = b /\ x = y
<1>. USE DEF Alike
<1>1. ASSUME NEW i \in 1 .. Len(a) PROVE a[i] = b[i]
  <2>1. (a \o x)[i] = a[i] /\ (b \o y)[i] = b[i]
    BY <1>1
  <2>. QED
    BY <2>1
<1>2. a = b
  BY <1>1, SeqEqual
<1>3. Len(x) = Len(y)
  <2>1. Len(a \o x) = Len(a) + Len(x) /\ Len(b \o y) = Len(b) + Len(y)
    BY ConcatProperties
  <2>2. Len(a) \in Nat /\ Len(x) \in Nat /\ Len(y) \in Nat
    OBVIOUS
  <2>. QED
    BY <2>1, <2>2
<1>4. ASSUME NEW i \in 1 .. Len(x) PROVE x[i] = y[i]
  <2>1. (a \o x)[Len(a) + i] = x[i] /\ (b \o y)[Len(b) + i] = y[i]
    BY <1>3, <1>4
  <2>. QED
    BY <2>1
<1>. QED
  BY <1>2, <1>3, <1>4, SeqEqual

\* The place where they are cut can be moved.
LEMMA Shift ==
  ASSUME NEW S, NEW a \in Seq(S), NEW b \in Seq(S), NEW x \in Seq(S),
         NEW c \in Seq(S), NEW d \in Seq(S), NEW y \in Seq(S), Alike(a \o b, x, c \o d, y)
  PROVE  Alike(a, b \o x, c, d \o y)
<1>1. (a \o b) \o x = a \o (b \o x)
  BY ConcatAssociative, SMTT(60)
<1>2. (c \o d) \o y = c \o (d \o y)
  BY ConcatAssociative, SMTT(60)
<1>. QED
  BY <1>1, <1>2, Zenon DEF Alike

\* What FlattenSeq computes on the way.
Flattened(f, blocks) ==
  f = [i \in 1 .. Len(blocks) |->
         IF i = 1 THEN blocks[i] ELSE f[i - 1] \o blocks[i]]

\* The recursion in FlattenSeq, unfolded once.
LEMMA FlattenedAt ==
  ASSUME NEW blocks, NEW f, Flattened(f, blocks), NEW i \in 1 .. Len(blocks)
  PROVE  f[i] = IF i = 1 THEN blocks[i] ELSE f[i - 1] \o blocks[i]
BY DEF Flattened

\* The same away from the first block.
LEMMA FlattenedNext ==
  ASSUME NEW blocks, NEW f, Flattened(f, blocks), NEW i \in 1 .. Len(blocks), i # 1
  PROVE  f[i] = f[i - 1] \o blocks[i]
BY FlattenedAt

\* The recursion has a solution for any number of blocks.
LEMMA FlattenedUpTo ==
  ASSUME NEW blocks
  PROVE  \A n \in Nat : \E f : f = [i \in 1 .. n |->
                                      IF i = 1 THEN blocks[i] ELSE f[i - 1] \o blocks[i]]
<1>. DEFINE Good(f, n) == f = [i \in 1 .. n |->
                                 IF i = 1 THEN blocks[i] ELSE f[i - 1] \o blocks[i]]
            Bad == {n \in Nat : ~ \E f : Good(f, n)}
<1>. SUFFICES ASSUME Bad # {} PROVE FALSE
  OBVIOUS
<1>1. PICK n \in Bad : \A m \in Bad : n <= m
  BY LeastNumber
<1>2. n # 0
  <2>. DEFINE g == [i \in 1 .. 0 |-> 0]
  <2>1. Good(g, 0)
    OBVIOUS
  <2>. HIDE DEF Good
  <2>. QED
    BY <1>1, <2>1
<1>3. PICK g : Good(g, n - 1)
  <2>1. n - 1 \in Nat /\ ~(n <= n - 1)
    BY <1>1, <1>2
  <2>. HIDE DEF Good
  <2>. QED
    BY <1>1, <2>1
<1>. DEFINE f == [i \in 1 .. n |->
                    IF i = n THEN (IF n = 1 THEN blocks[n] ELSE g[n - 1] \o blocks[n])
                    ELSE g[i]]
<1>4. ASSUME NEW i \in 1 .. n
      PROVE  f[i] = IF i = 1 THEN blocks[i] ELSE f[i - 1] \o blocks[i]
  <2>0. n \in Nat /\ i \in Nat
    BY <1>1
  <2>1. CASE i = n
    <3>1. n # 1 => f[n - 1] = g[n - 1]
      BY <1>2, <2>0
    <3>. QED
      BY <2>1, <3>1, <2>0
  <2>2. CASE i # n
    <3>1. i \in 1 .. n - 1
      BY <2>0, <2>2
    <3>2. g[i] = IF i = 1 THEN blocks[i] ELSE g[i - 1] \o blocks[i]
      BY <1>3, <3>1
    <3>3. i # 1 => f[i - 1] = g[i - 1]
      BY <2>0, <3>1
    <3>4. f[i] = g[i]
      BY <2>2
    <3>. QED
      BY <3>2, <3>3, <3>4
  <2>. QED
    BY <2>1, <2>2
<1>5. Good(f, n)
  <2>1. f = [i \in 1 .. n |-> f[i]]
    OBVIOUS
  <2>. HIDE DEF f
  <2>. QED
    BY <1>4, <2>1
<1>. HIDE DEF Good, f
<1>. QED
  BY <1>1, <1>5

\* So FlattenSeq is the last value of a solution.
LEMMA FlattenDefined ==
  ASSUME NEW S, NEW blocks \in Seq(Seq(S)), blocks # <<>>
  PROVE  \E f : Flattened(f, blocks) /\ FlattenSeq(blocks) = f[Len(blocks)]
<1>. DEFINE n == Len(blocks)
            iter == CHOOSE f : Flattened(f, blocks)
<1>1. n \in Nat /\ n # 0
  OBVIOUS
<1>2. \E f : Flattened(f, blocks)
  BY <1>1, FlattenedUpTo DEF Flattened
<1>3. Flattened(iter, blocks)
  BY <1>2
<1>4. FlattenSeq(blocks) = iter[n]
  BY <1>1 DEF FlattenSeq, Flattened
<1>. HIDE DEF iter
<1>. QED
  BY <1>3, <1>4

\* Every stage is a sequence, and a beginning of the later ones.
LEMMA FlattenedSeq ==
  ASSUME NEW S, NEW blocks \in Seq(Seq(S)), NEW f, Flattened(f, blocks)
  PROVE  \A i \in 1 .. Len(blocks) : f[i] \in Seq(S)
<1>. DEFINE Bad == {i \in Nat : i \in 1 .. Len(blocks) /\ f[i] \notin Seq(S)}
<1>. SUFFICES ASSUME Bad # {} PROVE FALSE
  OBVIOUS
<1>1. PICK i \in Bad : \A m \in Bad : i <= m
  BY LeastNumber
<1>2. f[i] = IF i = 1 THEN blocks[i] ELSE f[i - 1] \o blocks[i]
  BY <1>1, FlattenedAt
<1>3. blocks[i] \in Seq(S)
  BY <1>1
<1>4. i # 1 => f[i - 1] \in Seq(S)
  BY <1>1
<1>5. f[i] \in Seq(S)
  <2>1. CASE i = 1
    BY <1>2, <1>3, <2>1
  <2>2. CASE i # 1
    BY <1>2, <1>3, <1>4, <2>2, ConcatProperties
  <2>. QED
    BY <2>1, <2>2
<1>. QED
  BY <1>1, <1>5

Continues(S, b, a) == \E r \in Seq(S) : b = a \o r

\* Every partial concatenation is a prefix of the whole.
LEMMA FlattenedPrefix ==
  ASSUME NEW S, NEW blocks \in Seq(Seq(S)), NEW f, Flattened(f, blocks),
         NEW i \in 1 .. Len(blocks)
  PROVE  Continues(S, f[Len(blocks)], f[i])
<1>. DEFINE Bad == {m \in Nat : m \in i .. Len(blocks) /\ ~ \E r \in Seq(S) : f[m] = f[i] \o r}
<1>0. Len(blocks) \in Nat /\ Len(blocks) \in i .. Len(blocks)
  OBVIOUS
<1>. SUFFICES ASSUME Bad # {} PROVE FALSE
  BY <1>0 DEF Continues
<1>1. PICK m \in Bad : \A k \in Bad : m <= k
  BY LeastNumber
<1>2. \A k \in 1 .. Len(blocks) : f[k] \in Seq(S)
  BY FlattenedSeq
<1>3. m # i
  <2>1. f[i] = f[i] \o <<>> /\ <<>> \in Seq(S)
    BY <1>2
  <2>. QED
    BY <1>1, <2>1
<1>4. m - 1 \in i .. Len(blocks) /\ ~(m <= m - 1) /\ m - 1 \in Nat
      /\ m \in 1 .. Len(blocks) /\ m # 1
  BY <1>0, <1>1, <1>3
<1>5. PICK r \in Seq(S) : f[m - 1] = f[i] \o r
  BY <1>1, <1>4
<1>6. f[m] = f[m - 1] \o blocks[m]
  BY <1>4, FlattenedAt
<1>7. blocks[m] \in Seq(S) /\ f[i] \in Seq(S)
  BY <1>2, <1>4
<1>. HIDE DEF Bad
<1>8. f[m] = f[i] \o (r \o blocks[m])
  <2>. DEFINE a == f[i]
              c == blocks[m]
  <2>1. a \in Seq(S) /\ c \in Seq(S)
    BY <1>7
  <2>2. f[m] = (a \o r) \o c
    BY <1>5, <1>6
  <2>. HIDE DEF a, c
  <2>3. (a \o r) \o c = a \o (r \o c)
    BY <2>1, ConcatAssociative, SMTT(60)
  <2>4. f[m] = a \o (r \o c)
    BY <2>2, <2>3
  <2>. QED
    BY <2>4 DEF a, c
<1>9. r \o blocks[m] \in Seq(S)
  BY <1>7, ConcatProperties
<1>. QED
  BY <1>1, <1>8, <1>9 DEF Bad

\* What is flattened from equal blocks is equal.
LEMMA FlattenedEqual ==
  ASSUME NEW p, NEW q, NEW f, NEW g, Flattened(f, p), Flattened(g, q),
         NEW n \in Nat, n <= Len(p), n <= Len(q), Len(p) \in Nat, Len(q) \in Nat,
         \A i \in 1 .. n : p[i] = q[i], n # 0
  PROVE  f[n] = g[n]
<1>. DEFINE Bad == {i \in Nat : i \in 1 .. n /\ f[i] # g[i]}
<1>. SUFFICES ASSUME Bad # {} PROVE FALSE
  OBVIOUS
<1>1. PICK i \in Bad : \A m \in Bad : i <= m
  BY LeastNumber
<1>2. f[i] = IF i = 1 THEN p[i] ELSE f[i - 1] \o p[i]
  BY <1>1, FlattenedAt
<1>3. g[i] = IF i = 1 THEN q[i] ELSE g[i - 1] \o q[i]
  BY <1>1, FlattenedAt
<1>4. i # 1 => f[i - 1] = g[i - 1]
  BY <1>1
<1>. QED
  BY <1>1, <1>2, <1>3, <1>4

\* FlattenSeq is made of what its blocks are made of.
LEMMA FlattenSeqType ==
  ASSUME NEW S, NEW blocks \in Seq(Seq(S))
  PROVE  FlattenSeq(blocks) \in Seq(S)
<1>1. CASE blocks = <<>>
  BY <1>1 DEF FlattenSeq
<1>2. CASE blocks # <<>>
  <2>1. PICK f : Flattened(f, blocks) /\ FlattenSeq(blocks) = f[Len(blocks)]
    BY <1>2, FlattenDefined
  <2>2. Len(blocks) \in 1 .. Len(blocks)
    BY <1>2
  <2>. QED
    BY <2>1, <2>2, FlattenedSeq
<1>. QED
  BY <1>1, <1>2

\* Where the blocks begin to differ, the texts from there on still read alike.
LEMMA FlattenedRest ==
  ASSUME NEW S, NEW p \in Seq(Seq(S)), NEW q \in Seq(Seq(S)), Len(p) = Len(q),
         NEW f, NEW g, Flattened(f, p), Flattened(g, q),
         NEW x \in Seq(S), NEW y \in Seq(S), Alike(f[Len(p)], x, g[Len(q)], y),
         NEW i \in 1 .. Len(p), \A k \in 1 .. i - 1 : p[k] = q[k]
  PROVE  \E u, v \in Seq(S) : Alike(p[i], u, q[i], v)
<1>0. Len(p) \in Nat /\ Len(q) \in Nat /\ i \in 1 .. Len(q)
  OBVIOUS
<1>1. p[i] \in Seq(S) /\ q[i] \in Seq(S)
  BY <1>0
<1>2. f[i] \in Seq(S) /\ g[i] \in Seq(S)
  BY <1>0, FlattenedSeq
<1>3. PICK u \in Seq(S) : f[Len(p)] = f[i] \o u
  <2>1. Continues(S, f[Len(p)], f[i])
    BY FlattenedPrefix
  <2>. QED
    BY <2>1, Zenon DEF Continues
<1>4. PICK v \in Seq(S) : g[Len(q)] = g[i] \o v
  <2>1. Continues(S, g[Len(q)], g[i])
    BY <1>0, FlattenedPrefix
  <2>. QED
    BY <2>1, Zenon DEF Continues
<1>. DEFINE s == u \o x
            t == v \o y
<1>5. s \in Seq(S) /\ t \in Seq(S)
  BY ConcatProperties
<1>6. Alike(f[i], s, g[i], t)
  <2>1. Alike(f[i] \o u, x, g[i] \o v, y)
    BY <1>3, <1>4, Zenon
  <2>. QED
    BY <1>2, <2>1, Shift, Zenon
<1>. HIDE DEF s, t
<1>7. CASE i = 1
  <2>1. f[i] = p[i] /\ g[i] = q[i]
    BY <1>0, <1>7, FlattenedAt
  <2>. QED
    BY <1>5, <1>6, <2>1
<1>8. CASE i # 1
  <2>. DEFINE j == i - 1
              h == f[j]
              a == p[i]
              b == q[i]
  <2>0. j \in Nat /\ j \in 1 .. j /\ j <= Len(p) /\ j <= Len(q) /\ j \in 1 .. Len(p)
    BY <1>0, <1>8
  <2>1. f[i] = h \o a /\ g[i] = g[j] \o b
    BY <1>0, <1>8, FlattenedNext
  <2>2. g[j] = h
    <3>1. \A k \in 1 .. j : p[k] = q[k]
      OBVIOUS
    <3>. HIDE DEF j
    <3>2. j # 0
      BY <2>0
    <3>3. f[j] = g[j]
      BY <1>0, <2>0, <3>1, <3>2, FlattenedEqual, SMTT(30)
    <3>. QED
      BY <3>3
  <2>3. h \in Seq(S)
    BY <2>0, FlattenedSeq
  <2>4. a \in Seq(S) /\ b \in Seq(S)
    BY <1>1
  <2>5. Alike(h \o a, s, h \o b, t)
    BY <1>6, <2>1, <2>2, Zenon
  <2>. HIDE DEF h, a, b, j
  <2>6. Alike(h, a \o s, h, b \o t)
    BY <1>5, <2>3, <2>4, <2>5, Shift, Zenon
  <2>7. a \o s \in Seq(S) /\ b \o t \in Seq(S)
    BY <1>5, <2>4, ConcatProperties
  <2>8. a \o s = b \o t
    BY <2>3, <2>6, <2>7, Cancel
  <2>9. Alike(a, s, b, t)
    BY <2>8, Zenon DEF Alike
  <2>. QED
    BY <1>5, <2>9 DEF a, b
<1>. QED
  BY <1>7, <1>8

\* Blocks that cannot be taken for each other are told apart one by one.
LEMMA FlattenCancel ==
  ASSUME NEW S, NEW p \in Seq(Seq(S)), NEW q \in Seq(Seq(S)), Len(p) = Len(q),
         \A i \in 1 .. Len(p) : \A u, v \in Seq(S) : Alike(p[i], u, q[i], v) => p[i] = q[i],
         NEW x \in Seq(S), NEW y \in Seq(S), Alike(FlattenSeq(p), x, FlattenSeq(q), y)
  PROVE  p = q /\ x = y
<1>. DEFINE n == Len(p)
<1>0. n \in Nat
  OBVIOUS
<1>1. p = q
  <2>1. CASE n = 0
    <3>1. \A i \in 1 .. Len(p) : p[i] = q[i]
      BY <2>1
    <3>. QED
      BY <3>1, SeqEqual, Zenon
  <2>2. CASE n # 0
    <3>0. p # <<>> /\ q # <<>>
      BY <2>2
    <3>1. PICK f : Flattened(f, p) /\ FlattenSeq(p) = f[Len(p)]
      BY <3>0, FlattenDefined, Zenon
    <3>2. PICK g : Flattened(g, q) /\ FlattenSeq(q) = g[Len(q)]
      BY <3>0, FlattenDefined, Zenon
    <3>3. Alike(f[Len(p)], x, g[Len(q)], y)
      BY <3>1, <3>2, Zenon
    <3>. DEFINE Bad == {i \in Nat : i \in 1 .. n /\ p[i] # q[i]}
    <3>4. ASSUME Bad # {} PROVE FALSE
      <4>1. PICK i \in Bad : \A m \in Bad : i <= m
        BY <3>4, LeastNumber
      <4>2. i \in 1 .. Len(p) /\ p[i] # q[i]
        BY <4>1
      <4>3. \A k \in 1 .. i - 1 : p[k] = q[k]
        BY <1>0, <4>1
      <4>. HIDE DEF Bad, n
      <4>4. \E u, v \in Seq(S) : Alike(p[i], u, q[i], v)
        BY <3>1, <3>2, <3>3, <4>2, <4>3, FlattenedRest
      <4>. QED
        BY <4>2, <4>4
    <3>5. \A i \in 1 .. n : p[i] = q[i]
      <4>1. 1 .. n \subseteq Nat
        BY <1>0
      <4>. QED
        BY <3>4, <4>1, Zenon
    <3>. QED
      BY <3>5, SeqEqual, Zenon
  <2>. QED
    BY <2>1, <2>2
<1>2. FlattenSeq(p) \in Seq(S)
  BY FlattenSeqType
<1>. QED
  BY <1>1, <1>2, Cancel

\* A text with its length before it.
LEMMA FrameCancel ==
  ASSUME NEW t \in Seq(Nat), NEW u \in Seq(Nat), NEW x \in Seq(Nat), NEW y \in Seq(Nat),
         Alike(write_commitment_str(t), x, write_commitment_str(u), y)
  PROVE  t = u /\ x = y
<1>. DEFINE f == <<Len(t)>>
            g == <<Len(u)>>
<1>1. f \in Seq(Nat) /\ g \in Seq(Nat) /\ Len(f) = 1 /\ Len(g) = 1
      /\ f[1] = Len(t) /\ g[1] = Len(u)
  OBVIOUS
<1>2. write_commitment_str(t) = f \o t /\ write_commitment_str(u) = g \o u
  BY DEF write_commitment_str
<1>. HIDE DEF f, g
<1>3. Alike(f \o t, x, g \o u, y)
  BY <1>2, Zenon
<1>4. t \o x \in Seq(Nat) /\ u \o y \in Seq(Nat)
  BY ConcatProperties
<1>5. Alike(f, t \o x, g, u \o y)
  BY <1>1, <1>3, Shift, Zenon
<1>6. f = g /\ Alike(t, x, u, y)
  <2>1. f = g /\ t \o x = u \o y
    BY <1>1, <1>4, <1>5, Cancel, Zenon
  <2>. QED
    BY <2>1, Zenon DEF Alike
<1>7. Len(t) = Len(u)
  BY <1>1, <1>6
<1>. QED
  BY <1>6, <1>7, Cancel

\* A framed text is a text.
LEMMA FrameType ==
  ASSUME NEW t \in Seq(Nat)
  PROVE  write_commitment_str(t) \in Seq(Nat)
<1>1. <<Len(t)>> \in Seq(Nat)
  OBVIOUS
<1>. QED
  BY <1>1, ConcatProperties DEF write_commitment_str

\* A list of texts with its length before it.
LEMMA WriteAllType ==
  ASSUME NEW c \in Seq(Seq(Nat))
  PROVE  /\ [i \in DOMAIN c |-> write_commitment_str(c[i])] \in Seq(Seq(Nat))
         /\ WriteAll(c) \in Seq(Nat)
<1>. DEFINE p == [i \in DOMAIN c |-> write_commitment_str(c[i])]
<1>1. ASSUME NEW i \in DOMAIN c PROVE write_commitment_str(c[i]) \in Seq(Nat)
  BY <1>1, FrameType
<1>2. p \in [1 .. Len(c) -> Seq(Nat)] /\ Len(c) \in Nat
  BY <1>1
<1>3. p \in Seq(Seq(Nat))
  BY <1>2, SeqDef
<1>. HIDE DEF p
<1>4. FlattenSeq(p) \in Seq(Nat)
  BY <1>3, FlattenSeqType
<1>5. <<Len(c)>> \in Seq(Nat)
  BY <1>2
<1>6. WriteAll(c) \in Seq(Nat)
  BY <1>4, <1>5, ConcatProperties DEF WriteAll, p
<1>. QED
  BY <1>3, <1>6 DEF p

\* A counted list of framed texts can be taken off the front of an encoding.
LEMMA WriteAllCancel ==
  ASSUME NEW c \in Seq(Seq(Nat)), NEW d \in Seq(Seq(Nat)),
         NEW x \in Seq(Nat), NEW y \in Seq(Nat), Alike(WriteAll(c), x, WriteAll(d), y)
  PROVE  c = d /\ x = y
<1>. DEFINE p == [i \in DOMAIN c |-> write_commitment_str(c[i])]
            q == [i \in DOMAIN d |-> write_commitment_str(d[i])]
            f == <<Len(c)>>
            g == <<Len(d)>>
<1>1. f \in Seq(Nat) /\ g \in Seq(Nat) /\ Len(f) = 1 /\ Len(g) = 1
      /\ f[1] = Len(c) /\ g[1] = Len(d)
  OBVIOUS
<1>2. p \in Seq(Seq(Nat)) /\ q \in Seq(Seq(Nat))
  BY WriteAllType
<1>3. /\ DOMAIN p = 1 .. Len(c) /\ DOMAIN q = 1 .. Len(d)
      /\ \A i \in 1 .. Len(c) : p[i] = write_commitment_str(c[i])
      /\ \A i \in 1 .. Len(d) : q[i] = write_commitment_str(d[i])
  OBVIOUS
<1>4. WriteAll(c) = f \o FlattenSeq(p) /\ WriteAll(d) = g \o FlattenSeq(q)
  BY DEF WriteAll
<1>. HIDE DEF p, q, f, g
<1>5. FlattenSeq(p) \in Seq(Nat) /\ FlattenSeq(q) \in Seq(Nat)
  BY <1>2, FlattenSeqType
<1>. DEFINE a == FlattenSeq(p)
            b == FlattenSeq(q)
<1>. HIDE DEF a, b
<1>6. Alike(f \o a, x, g \o b, y)
  BY <1>4, Zenon DEF a, b
<1>7. a \o x \in Seq(Nat) /\ b \o y \in Seq(Nat)
  BY <1>5, ConcatProperties DEF a, b
<1>8. Alike(f, a \o x, g, b \o y)
  BY <1>1, <1>5, <1>6, Shift, Zenon DEF a, b
<1>9. f = g /\ Alike(a, x, b, y)
  <2>1. f = g /\ a \o x = b \o y
    BY <1>1, <1>7, <1>8, Cancel, Zenon
  <2>. QED
    BY <2>1, Zenon DEF Alike
<1>10. Len(c) = Len(d) /\ Len(p) = Len(c) /\ Len(q) = Len(d)
  BY <1>1, <1>2, <1>3, <1>9
<1>11. ASSUME NEW i \in 1 .. Len(p), NEW u \in Seq(Nat), NEW v \in Seq(Nat),
              Alike(p[i], u, q[i], v)
       PROVE  c[i] = d[i]
  <2>1. c[i] \in Seq(Nat) /\ d[i] \in Seq(Nat)
    BY <1>10
  <2>. QED
    BY <1>3, <1>10, <1>11, <2>1, FrameCancel
<1>12. p = q /\ x = y
  <2>1. \A i \in 1 .. Len(p) : \A u, v \in Seq(Nat) : Alike(p[i], u, q[i], v) => p[i] = q[i]
    BY <1>3, <1>10, <1>11
  <2>. QED
    BY <1>2, <1>9, <1>10, <2>1, FlattenCancel DEF a, b
<1>13. \A i \in 1 .. Len(c) : c[i] = d[i]
  <2>1. <<>> \in Seq(Nat)
    OBVIOUS
  <2>. QED
    <3>1. ASSUME NEW i \in 1 .. Len(c) PROVE c[i] = d[i]
      <4>1. i \in 1 .. Len(p)
        BY <1>10
      <4>2. Alike(p[i], <<>>, q[i], <<>>)
        BY <1>12, Zenon DEF Alike
      <4>. QED
        BY <1>11, <2>1, <4>1, <4>2, Zenon
    <3>. QED
      BY <3>1
<1>. QED
  BY <1>10, <1>12, <1>13, SeqEqual

-----------------------------------------------------------------------------
\* The tree: its levels, its depth and its root (merkle.rs).

\* The powers of two.
LEMMA PowerUpTo ==
  \A n \in Nat : \E f : f = [k \in 0 .. n |-> IF k = 0 THEN 1 ELSE 2 * f[k - 1]]
<1>. DEFINE Good(f, n) == f = [k \in 0 .. n |-> IF k = 0 THEN 1 ELSE 2 * f[k - 1]]
            Bad == {n \in Nat : ~ \E f : Good(f, n)}
<1>. SUFFICES ASSUME Bad # {} PROVE FALSE
  OBVIOUS
<1>1. PICK n \in Bad : \A m \in Bad : n <= m
  BY LeastNumber
<1>2. n # 0
  <2>. DEFINE g == [k \in 0 .. 0 |-> 1]
  <2>1. Good(g, 0)
    OBVIOUS
  <2>. HIDE DEF Good
  <2>. QED
    BY <1>1, <2>1
<1>3. PICK g : Good(g, n - 1)
  <2>1. n - 1 \in Nat /\ ~(n <= n - 1)
    BY <1>1, <1>2
  <2>. HIDE DEF Good
  <2>. QED
    BY <1>1, <2>1
<1>. DEFINE f == [k \in 0 .. n |-> IF k = n THEN 2 * g[n - 1] ELSE g[k]]
<1>4. ASSUME NEW k \in 0 .. n
      PROVE  f[k] = IF k = 0 THEN 1 ELSE 2 * f[k - 1]
  <2>0. n \in Nat /\ k \in Nat
    BY <1>1
  <2>1. CASE k = n
    <3>1. f[n - 1] = g[n - 1]
      BY <1>2, <2>0
    <3>. QED
      BY <1>2, <2>1, <3>1, <2>0
  <2>2. CASE k # n
    <3>1. k \in 0 .. n - 1
      BY <2>0, <2>2
    <3>2. g[k] = IF k = 0 THEN 1 ELSE 2 * g[k - 1]
      BY <1>3, <3>1
    <3>3. k # 0 => f[k - 1] = g[k - 1]
      BY <2>0, <3>1
    <3>4. f[k] = g[k]
      BY <2>2
    <3>. QED
      BY <3>2, <3>3, <3>4
  <2>. QED
    BY <2>1, <2>2
<1>5. Good(f, n)
  <2>1. f = [k \in 0 .. n |-> f[k]]
    OBVIOUS
  <2>. HIDE DEF f
  <2>. QED
    BY <1>4, <2>1
<1>. HIDE DEF Good, f
<1>. QED
  BY <1>1, <1>5

\* So the recursive definition of Power can be unfolded.
LEMMA PowerAt ==
  /\ Power[0] = 1
  /\ \A k \in 1 .. MaxDepth : Power[k] = 2 * Power[k - 1]
<1>1. MaxDepth \in Nat
  BY AttestationConstantsOK
<1>2. \E f : f = [k \in 0 .. MaxDepth |-> IF k = 0 THEN 1 ELSE 2 * f[k - 1]]
  BY <1>1, PowerUpTo
<1>3. Power = [k \in 0 .. MaxDepth |-> IF k = 0 THEN 1 ELSE 2 * Power[k - 1]]
  BY <1>2 DEF Power
<1>. HIDE DEF Power
<1>. QED
  BY <1>1, <1>3

\* Powers are positive numbers.
LEMMA PowerType ==
  \A k \in 0 .. MaxDepth : Power[k] \in Nat /\ Power[k] >= 1
<1>0. MaxDepth \in Nat
  BY AttestationConstantsOK
<1>. DEFINE Bad == {k \in Nat : k \in 0 .. MaxDepth /\ ~(Power[k] \in Nat /\ Power[k] >= 1)}
<1>. SUFFICES ASSUME Bad # {} PROVE FALSE
  BY <1>0
<1>1. PICK k \in Bad : \A m \in Bad : k <= m
  BY LeastNumber
<1>2. k # 0
  BY <1>1, PowerAt
<1>3. Power[k - 1] \in Nat /\ Power[k - 1] >= 1
  BY <1>0, <1>1, <1>2
<1>4. Power[k] = 2 * Power[k - 1]
  BY <1>0, <1>1, <1>2, PowerAt
<1>5. Power[k] \in Nat /\ Power[k] >= 1
  BY <1>3, <1>4
<1>. QED
  BY <1>1, <1>5

\* The number of padded leaves, and how often they can be halved.
LEMMA PaddedTo ==
  ASSUME NEW n \in Nat, n <= Power[MaxDepth]
  PROVE  \E d \in 0 .. MaxDepth : next_power_of_two(n) = Power[d] /\ n <= Power[d]
<1>0. MaxDepth \in Nat /\ MaxDepth \in 0 .. MaxDepth
  BY AttestationConstantsOK
<1>. DEFINE Enough == {k \in Nat : k \in 0 .. MaxDepth /\ n <= Power[k]}
            Least(k) == Power[k] >= n /\ \A j \in 0 .. k - 1 : Power[j] < n
<1>1. Enough # {}
  BY <1>0
<1>2. PICK d \in Enough : \A m \in Enough : d <= m
  BY <1>1, LeastNumber
<1>3. d \in 0 .. MaxDepth /\ Least(d)
  <2>1. d \in 0 .. MaxDepth /\ Power[d] \in Nat /\ n <= Power[d]
    BY <1>2, PowerType
  <2>2. ASSUME NEW j \in 0 .. d - 1 PROVE Power[j] < n
    <3>1. j \in 0 .. MaxDepth /\ j \in Nat /\ ~(d <= j)
      BY <1>0, <2>1
    <3>2. j \notin Enough
      BY <1>2, <3>1
    <3>3. Power[j] \in Nat
      BY <3>1, PowerType
    <3>. QED
      BY <3>1, <3>2, <3>3
  <2>. QED
    BY <2>1, <2>2
<1>. DEFINE c == CHOOSE k \in 0 .. MaxDepth : Least(k)
<1>4. c \in 0 .. MaxDepth /\ Least(c)
  <2>. HIDE DEF Least
  <2>. QED
    BY <1>3
<1>5. next_power_of_two(n) = Power[c]
  BY DEF next_power_of_two
<1>. HIDE DEF c
<1>6. Power[c] \in Nat
  BY <1>4, PowerType
<1>. QED
  BY <1>4, <1>5, <1>6

Ops == {"op"} \X Nat

\* A function on an interval from 1 is a sequence of that length.
LEMMA LenOf ==
  ASSUME NEW n \in Nat, NEW s, s = [i \in 1 .. n |-> s[i]]
  PROVE  Len(s) = n /\ s \in Seq({s[i] : i \in 1 .. n})
<1>. DEFINE S == {s[i] : i \in 1 .. n}
<1>1. s \in [1 .. n -> S]
  OBVIOUS
<1>2. s \in Seq(S)
  BY <1>1, SeqDef
<1>3. DOMAIN s = 1 .. n /\ DOMAIN s = 1 .. Len(s) /\ Len(s) \in Nat
  BY <1>1, <1>2, LenProperties
<1>. HIDE DEF S
<1>4. Len(s) = n
  <2>1. CASE n < Len(s)
    <3>1. Len(s) \in 1 .. Len(s) /\ Len(s) \notin 1 .. n
      BY <1>3, <2>1
    <3>. QED
      BY <1>3, <3>1
  <2>2. CASE Len(s) < n
    <3>1. n \in 1 .. n /\ n \notin 1 .. Len(s)
      BY <1>3, <2>2
    <3>. QED
      BY <1>3, <3>1
  <2>. QED
    BY <1>3, <2>1, <2>2
<1>. QED
  BY <1>2, <1>4 DEF S

\* The levels of a tree.
LEMMA LevelsUpTo ==
  ASSUME NEW l
  PROVE  \A n \in Nat : \E f :
           f = [k \in 0 .. n |-> IF k = 0 THEN Padded(l) ELSE Paired(f[k - 1])]
<1>. DEFINE Good(f, n) == f = [k \in 0 .. n |->
                                 IF k = 0 THEN Padded(l) ELSE Paired(f[k - 1])]
            Bad == {n \in Nat : ~ \E f : Good(f, n)}
<1>. SUFFICES ASSUME Bad # {} PROVE FALSE
  OBVIOUS
<1>1. PICK n \in Bad : \A m \in Bad : n <= m
  BY LeastNumber
<1>2. n # 0
  <2>. DEFINE g == [k \in 0 .. 0 |-> Padded(l)]
  <2>1. Good(g, 0)
    OBVIOUS
  <2>. HIDE DEF Good
  <2>. QED
    BY <1>1, <2>1
<1>3. PICK g : Good(g, n - 1)
  <2>1. n - 1 \in Nat /\ ~(n <= n - 1)
    BY <1>1, <1>2
  <2>. HIDE DEF Good
  <2>. QED
    BY <1>1, <2>1
<1>. DEFINE f == [k \in 0 .. n |-> IF k = n THEN Paired(g[n - 1]) ELSE g[k]]
<1>4. ASSUME NEW k \in 0 .. n
      PROVE  f[k] = IF k = 0 THEN Padded(l) ELSE Paired(f[k - 1])
  <2>0. n \in Nat /\ k \in Nat
    BY <1>1
  <2>1. CASE k = n
    <3>1. f[n - 1] = g[n - 1]
      BY <1>2, <2>0
    <3>. QED
      BY <1>2, <2>1, <3>1, <2>0
  <2>2. CASE k # n
    <3>1. k \in 0 .. n - 1
      BY <2>0, <2>2
    <3>2. g[k] = IF k = 0 THEN Padded(l) ELSE Paired(g[k - 1])
      BY <1>3, <3>1
    <3>3. k # 0 => f[k - 1] = g[k - 1]
      BY <2>0, <3>1
    <3>4. f[k] = g[k]
      BY <2>2
    <3>. QED
      BY <3>2, <3>3, <3>4
  <2>. QED
    BY <2>1, <2>2
<1>5. Good(f, n)
  <2>1. f = [k \in 0 .. n |-> f[k]]
    OBVIOUS
  <2>. HIDE DEF f
  <2>. QED
    BY <1>4, <2>1
<1>. HIDE DEF Good, f
<1>. QED
  BY <1>1, <1>5

\* The recursion in Levels, unfolded.
LEMMA LevelsAt ==
  ASSUME NEW l
  PROVE  /\ Levels(l)[0] = Padded(l)
         /\ \A k \in 1 .. MaxDepth : Levels(l)[k] = Paired(Levels(l)[k - 1])
<1>. DEFINE level == Levels(l)
<1>1. MaxDepth \in Nat
  BY AttestationConstantsOK
<1>2. \E f : f = [k \in 0 .. MaxDepth |-> IF k = 0 THEN Padded(l) ELSE Paired(f[k - 1])]
  BY <1>1, LevelsUpTo
<1>3. level = [k \in 0 .. MaxDepth |-> IF k = 0 THEN Padded(l) ELSE Paired(level[k - 1])]
  BY <1>2 DEF Levels
<1>. HIDE DEF level
<1>4. /\ level[0] = Padded(l)
      /\ \A k \in 1 .. MaxDepth : level[k] = Paired(level[k - 1])
  BY <1>1, <1>3
<1>. QED
  BY <1>4 DEF level

\* A tree of depth d over the leaves l.
Tree(l, d) ==
  /\ d \in 0 .. MaxDepth /\ l \in Seq(Ops)
  /\ next_power_of_two(Len(l)) = Power[d] /\ Len(l) <= Power[d]

\* Every sequence of leaves that is short enough has a tree.
LEMMA TreeOf ==
  ASSUME NEW l \in Seq(Ops), Len(l) <= Power[MaxDepth]
  PROVE  \E d \in 0 .. MaxDepth : Tree(l, d)
BY PaddedTo DEF Tree

\* Every level has half the length of the one below.
Shaped(l, d, k) ==
  /\ Len(Levels(l)[k]) = Power[d - k]
  /\ Levels(l)[k] = [i \in 1 .. Power[d - k] |-> Levels(l)[k][i]]

\* All levels up to the root are sequences of their length.
LEMMA LevelShape ==
  ASSUME NEW l, NEW d, Tree(l, d)
  PROVE  \A k \in 0 .. d : Shaped(l, d, k)
<1>. DEFINE L == Levels(l)
            Fits(k) == Len(L[k]) = Power[d - k] /\ L[k] = [i \in 1 .. Power[d - k] |-> L[k][i]]
            Bad == {k \in Nat : k \in 0 .. d /\ ~Fits(k)}
<1>0. d \in Nat /\ MaxDepth \in Nat /\ d <= MaxDepth
  BY AttestationConstantsOK DEF Tree
<1>. SUFFICES ASSUME Bad # {} PROVE FALSE
  BY <1>0 DEF Shaped
<1>1. PICK k \in Bad : \A m \in Bad : k <= m
  BY LeastNumber
<1>2. k \in 0 .. d /\ k \in Nat /\ d - k \in 0 .. MaxDepth
  BY <1>0, <1>1
<1>3. Power[d - k] \in Nat
  BY <1>2, PowerType
<1>4. CASE k = 0
  <2>1. L[k] = Padded(l) /\ d - k = d
    BY <1>0, <1>4, LevelsAt
  <2>2. L[k] = [i \in 1 .. Power[d - k] |-> L[k][i]]
    BY <2>1 DEF Padded, Tree
  <2>3. Len(L[k]) = Power[d - k]
    BY <1>3, <2>2, LenOf
  <2>. QED
    BY <1>1, <2>2, <2>3
<1>5. CASE k # 0
  <2>0. k - 1 \in 0 .. d /\ k - 1 \in Nat /\ ~(k <= k - 1) /\ k \in 1 .. MaxDepth
        /\ d - (k - 1) \in 1 .. MaxDepth /\ (d - (k - 1)) - 1 = d - k
    BY <1>0, <1>2, <1>5
  <2>1. Fits(k - 1)
    BY <1>1, <2>0
  <2>2. Power[d - (k - 1)] = 2 * Power[d - k]
    BY <2>0, PowerAt
  <2>3. Len(L[k - 1]) \div 2 = Power[d - k]
    BY <1>3, <2>1, <2>2
  <2>4. L[k] = Paired(L[k - 1])
    BY <2>0, LevelsAt
  <2>. HIDE DEF L
  <2>5. L[k] = [i \in 1 .. Power[d - k] |-> L[k][i]]
    BY <2>3, <2>4 DEF Paired
  <2>6. Len(L[k]) = Power[d - k]
    BY <1>3, <2>5, LenOf
  <2>. QED
    BY <1>1, <2>5, <2>6
<1>. QED
  BY <1>4, <1>5

\* The length of a level, from its height.
LEMMA LevelLen ==
  ASSUME NEW l, NEW d, Tree(l, d), NEW k \in 0 .. d
  PROVE  Len(Levels(l)[k]) = Power[d - k]
<1>1. Shaped(l, d, k)
  BY LevelShape
<1>. QED
  BY <1>1, Zenon DEF Shaped

\* A node above the leaves is the hash of its two children.
LEMMA LevelPair ==
  ASSUME NEW l, NEW d, Tree(l, d), NEW k \in 1 .. d, NEW i \in 1 .. Power[d - k]
  PROVE  Levels(l)[k][i] = hash_pair(Levels(l)[k - 1][2 * i - 1], Levels(l)[k - 1][2 * i])
<1>. DEFINE L == Levels(l)
<1>0. /\ d \in Nat /\ MaxDepth \in Nat /\ d <= MaxDepth
      /\ k \in 1 .. MaxDepth /\ k - 1 \in 0 .. d /\ d - (k - 1) \in 1 .. MaxDepth
      /\ (d - (k - 1)) - 1 = d - k /\ d - k \in 0 .. MaxDepth
  BY AttestationConstantsOK DEF Tree
<1>1. Len(L[k - 1]) = Power[d - (k - 1)]
  BY <1>0, LevelLen, Zenon
<1>2. Power[d - (k - 1)] = 2 * Power[d - k] /\ Power[d - k] \in Nat
  BY <1>0, PowerAt, PowerType
<1>3. Len(L[k - 1]) \div 2 = Power[d - k]
  BY <1>1, <1>2
<1>4. L[k] = Paired(L[k - 1])
  BY <1>0, LevelsAt
<1>. HIDE DEF L
<1>5. L[k][i] = hash_pair(L[k - 1][2 * i - 1], L[k - 1][2 * i])
  BY <1>3, <1>4 DEF Paired
<1>. QED
  BY <1>5 DEF L

\* The lowest level is the leaves, then padding.
LEMMA LeafLevel ==
  ASSUME NEW l, NEW d, Tree(l, d), NEW i \in 1 .. Power[d]
  PROVE  Levels(l)[0][i] = IF i <= Len(l) THEN l[i] ELSE Padding
BY LevelsAt, ZenonT(60) DEF Padded, Tree

\* Above the root there is nothing.
LEMMA NoLevel ==
  ASSUME NEW l, NEW d, Tree(l, d)
  PROVE  \A k \in d + 1 .. MaxDepth : Len(Levels(l)[k]) = 0
<1>. DEFINE L == Levels(l)
            Bad == {k \in Nat : k \in d + 1 .. MaxDepth /\ Len(L[k]) # 0}
<1>0. d \in Nat /\ MaxDepth \in Nat /\ d <= MaxDepth
  BY AttestationConstantsOK DEF Tree
<1>. SUFFICES ASSUME Bad # {} PROVE FALSE
  BY <1>0
<1>1. PICK k \in Bad : \A m \in Bad : k <= m
  BY LeastNumber
<1>2. k \in 1 .. MaxDepth /\ k \in Nat /\ k >= d + 1 /\ Len(L[k]) # 0
  BY <1>0, <1>1
<1>3. Len(L[k - 1]) \in {0, 1}
  <2>1. CASE k = d + 1
    <3>1. k - 1 \in 0 .. d /\ d - (k - 1) = 0
      BY <1>0, <2>1
    <3>2. Len(L[k - 1]) = Power[d - (k - 1)]
      BY <3>1, LevelLen, Zenon
    <3>. QED
      BY <3>1, <3>2, PowerAt
  <2>2. CASE k # d + 1
    <3>1. k - 1 \in d + 1 .. MaxDepth /\ ~(k <= k - 1) /\ k - 1 \in Nat
      BY <1>0, <1>2, <2>2
    <3>. QED
      BY <1>1, <3>1
  <2>. QED
    BY <2>1, <2>2
<1>4. L[k] = Paired(L[k - 1])
  BY <1>2, LevelsAt
<1>. HIDE DEF L
<1>5. Len(L[k - 1]) \div 2 = 0
  <2>1. \A n \in {0, 1} : n \div 2 = 0
    OBVIOUS
  <2>. QED
    BY <1>3, <2>1, Zenon
<1>6. L[k] = [i \in 1 .. 0 |-> L[k][i]]
  <2>1. L[k] = [i \in 1 .. 0 |-> hash_pair(L[k - 1][2 * i - 1], L[k - 1][2 * i])]
    BY <1>4, <1>5, Zenon DEF Paired
  <2>. QED
    BY <2>1
<1>7. Len(L[k]) = 0
  <2>. DEFINE s == L[k]
              n == 0
  <2>1. n \in Nat /\ s = [i \in 1 .. n |-> s[i]]
    BY <1>6
  <2>. HIDE DEF s, n
  <2>2. Len(s) = n
    BY <2>1, LenOf
  <2>. QED
    BY <2>2 DEF s, n
<1>. QED
  BY <1>2, <1>7

\* The depth is found where the one level of length 1 is.
LEMMA DepthIs ==
  ASSUME NEW l, NEW d, Tree(l, d)
  PROVE  Depth(l) = d
<1>. DEFINE L == Levels(l)
<1>0. d \in Nat /\ MaxDepth \in Nat /\ d <= MaxDepth /\ d \in 0 .. MaxDepth
  BY AttestationConstantsOK DEF Tree
<1>1. Len(L[d]) = 1
  <2>1. d \in 0 .. d /\ d - d = 0
    BY <1>0
  <2>2. Len(L[d]) = Power[d - d]
    BY <2>1, LevelLen, Zenon
  <2>. QED
    BY <2>1, <2>2, PowerAt
<1>2. ASSUME NEW k \in 0 .. MaxDepth, Len(L[k]) = 1 PROVE k = d
  <2>1. CASE k > d
    <3>1. k \in d + 1 .. MaxDepth
      BY <1>0, <2>1
    <3>2. Len(L[k]) = 0
      BY <3>1, NoLevel
    <3>. QED
      BY <1>2, <3>2
  <2>2. CASE k < d
    <3>1. k \in 0 .. d /\ d - k \in 1 .. MaxDepth /\ (d - k) - 1 \in 0 .. MaxDepth
      BY <1>0, <2>2
    <3>2. Len(L[k]) = Power[d - k]
      BY <3>1, LevelLen
    <3>3. Power[d - k] = 2 * Power[(d - k) - 1] /\ Power[(d - k) - 1] \in Nat
      BY <3>1, PowerAt, PowerType
    <3>. DEFINE p == Power[(d - k) - 1]
    <3>4. p \in Nat /\ 1 = 2 * p
      BY <1>2, <3>2, <3>3, Zenon
    <3>. HIDE DEF p
    <3>. QED
      BY <3>4
  <2>. QED
    BY <1>0, <2>1, <2>2
<1>. HIDE DEF L
<1>3. (CHOOSE k \in 0 .. MaxDepth : Len(L[k]) = 1) = d
  BY <1>0, <1>1, <1>2
<1>. QED
  BY <1>3 DEF Depth, L

\* The root is the one node of the top level.
LEMMA RootIs ==
  ASSUME NEW l, NEW d, Tree(l, d), l # <<>>
  PROVE  root_from_leaves(l) = Levels(l)[d][1]
BY DepthIs DEF root_from_leaves

\* A first node is the hash of an operation or of two nodes.
LEMMA FirstNode ==
  ASSUME NEW l, NEW d, Tree(l, d), l # <<>>, NEW k \in 0 .. d
  PROVE  /\ k = 0 => Levels(l)[k][1] \in Ops
         /\ k # 0 => Levels(l)[k][1] = hash_pair(Levels(l)[k - 1][1], Levels(l)[k - 1][2])
<1>0. d \in Nat /\ MaxDepth \in Nat /\ d <= MaxDepth /\ d \in 0 .. MaxDepth /\ l \in Seq(Ops)
  BY AttestationConstantsOK DEF Tree
<1>1. CASE k = 0
  <2>1. Power[d] \in Nat /\ Power[d] >= 1
    BY <1>0, PowerType
  <2>2. 1 \in 1 .. Power[d] /\ 1 <= Len(l) /\ l[1] \in Ops
    BY <1>0, <2>1
  <2>3. Levels(l)[0][1] = IF 1 <= Len(l) THEN l[1] ELSE Padding
    BY <2>2, LeafLevel
  <2>. QED
    BY <1>1, <2>2, <2>3
<1>2. CASE k # 0
  <2>1. k \in 1 .. d /\ d - k \in 0 .. MaxDepth
    BY <1>0, <1>2
  <2>2. Power[d - k] \in Nat /\ Power[d - k] >= 1
    BY <2>1, PowerType
  <2>3. 1 \in 1 .. Power[d - k]
    BY <2>2
  <2>4. Levels(l)[k][1] = hash_pair(Levels(l)[k - 1][2 * 1 - 1], Levels(l)[k - 1][2 * 1])
    BY <2>1, <2>3, LevelPair
  <2>. QED
    BY <1>2, <2>4
<1>. QED
  BY <1>1, <1>2

\* The root of a tree is told from everything else that is hashed.
LEMMA RootKind ==
  ASSUME NEW l \in Seq(Ops), Len(l) <= Power[MaxDepth]
  PROVE  /\ root_from_leaves(l)[1] \in {"op", "pair"}
         /\ l # <<>> => root_from_leaves(l) # root_from_leaves(<<>>)
<1>1. CASE l = <<>>
  BY <1>1 DEF root_from_leaves, hash_pair
<1>2. CASE l # <<>>
  <2>1. PICK d \in 0 .. MaxDepth : Tree(l, d)
    BY TreeOf
  <2>0. MaxDepth \in Nat /\ d \in Nat /\ d \in 0 .. d
    BY AttestationConstantsOK
  <2>. DEFINE L == Levels(l)
  <2>2. root_from_leaves(l) = L[d][1]
    BY <1>2, <2>1, RootIs
  <2>3. root_from_leaves(<<>>) = <<"pair", <<"text", "empty">>, <<"text", "empty">>>>
    BY DEF root_from_leaves, hash_pair
  <2>4. /\ d = 0 => L[d][1] \in Ops
        /\ d # 0 => L[d][1] = hash_pair(L[d - 1][1], L[d - 1][2])
    BY <1>2, <2>0, <2>1, FirstNode
  <2>5. CASE d = 0
    BY <2>2, <2>3, <2>4, <2>5 DEF Ops
  <2>6. CASE d # 0
    <3>1. d - 1 \in 0 .. d
      BY <2>0, <2>6
    <3>2. \/ L[d - 1][1] \in Ops
          \/ L[d - 1][1] = hash_pair(L[d - 2][1], L[d - 2][2])
      BY <1>2, <2>0, <2>1, <3>1, FirstNode
    <3>. HIDE DEF L
    <3>3. L[d - 1][1] # <<"text", "empty">>
      BY <3>2 DEF Ops, hash_pair
    <3>. QED
      BY <2>2, <2>3, <2>4, <2>6, <3>3 DEF hash_pair
  <2>. QED
    BY <2>5, <2>6
<1>. QED
  BY <1>1, <1>2

\* Trees with one root agree level by level, from the root down.
LEMMA SameLevels ==
  ASSUME NEW l, NEW d, NEW m, NEW e, Tree(l, d), Tree(m, e), l # <<>>, m # <<>>,
         root_from_leaves(l) = root_from_leaves(m),
         NEW n \in Nat, n <= d, n <= e
  PROVE  \A i \in 1 .. Power[n] : Levels(l)[d - n][i] = Levels(m)[e - n][i]
<1>. DEFINE L == Levels(l)
            M == Levels(m)
            Same(k) == \A i \in 1 .. Power[k] : L[d - k][i] = M[e - k][i]
            Bad == {k \in Nat : k <= d /\ k <= e /\ ~Same(k)}
<1>0. d \in Nat /\ e \in Nat /\ MaxDepth \in Nat /\ d <= MaxDepth /\ e <= MaxDepth
  BY AttestationConstantsOK DEF Tree
<1>. SUFFICES ASSUME Bad # {} PROVE FALSE
  OBVIOUS
<1>1. PICK k \in Bad : \A j \in Bad : k <= j
  BY LeastNumber
<1>2. k \in Nat /\ k <= d /\ k <= e /\ ~Same(k)
  BY <1>1
<1>3. CASE k = 0
  <2>1. L[d][1] = M[e][1]
    BY RootIs
  <2>2. Power[0] = 1 /\ d - 0 = d /\ e - 0 = e
    BY <1>0, PowerAt
  <2>. HIDE DEF L, M
  <2>3. Same(0)
    BY <2>1, <2>2
  <2>. QED
    BY <1>2, <1>3, <2>3
<1>4. CASE k # 0
  <2>. DEFINE a == d - (k - 1)
              b == e - (k - 1)
  <2>1. /\ k - 1 \in Nat /\ k - 1 <= d /\ k - 1 <= e /\ ~(k <= k - 1)
        /\ a \in 1 .. d /\ b \in 1 .. e /\ a - 1 = d - k /\ b - 1 = e - k
        /\ d - a = k - 1 /\ e - b = k - 1 /\ k \in 1 .. MaxDepth /\ k - 1 \in 0 .. MaxDepth
    <3>. HIDE DEF Bad, Same, L, M
    <3>1. k \in Nat /\ k <= d /\ k <= e
      BY <1>2
    <3>. QED
      BY <1>0, <1>4, <3>1, SMTT(30)
  <2>2. Same(k - 1)
    BY <1>1, <2>1
  <2>3. Power[k] = 2 * Power[k - 1] /\ Power[k - 1] \in Nat
    BY <2>1, PowerAt, PowerType
  <2>4. ASSUME NEW j \in 1 .. Power[k - 1]
        PROVE  L[d - k][2 * j - 1] = M[e - k][2 * j - 1] /\ L[d - k][2 * j] = M[e - k][2 * j]
    <3>. HIDE DEF a, b
    <3>1. L[a][j] = hash_pair(L[a - 1][2 * j - 1], L[a - 1][2 * j])
      BY <2>1, LevelPair
    <3>2. M[b][j] = hash_pair(M[b - 1][2 * j - 1], M[b - 1][2 * j])
      BY <2>1, LevelPair
    <3>3. L[a][j] = M[b][j]
      BY <2>2 DEF a, b
    <3>. HIDE DEF L, M
    <3>. QED
      BY <2>1, <3>1, <3>2, <3>3 DEF hash_pair
  <2>. HIDE DEF L, M
  <2>5. ASSUME NEW i \in 1 .. Power[k] PROVE L[d - k][i] = M[e - k][i]
    <3>. DEFINE p == Power[k - 1]
    <3>0. p \in Nat /\ i \in 1 .. 2 * p
      BY <2>3
    <3>. HIDE DEF p
    <3>1. \E j \in 1 .. p : i = 2 * j - 1 \/ i = 2 * j
      <4>1. (i + 1) \div 2 \in 1 .. p
            /\ (i = 2 * ((i + 1) \div 2) - 1 \/ i = 2 * ((i + 1) \div 2))
        BY <3>0
      <4>. QED
        BY <4>1
    <3>. QED
      BY <2>4, <3>1 DEF p
  <2>. QED
    BY <1>2, <2>5
<1>. QED
  BY <1>3, <1>4

\* Of two trees with one root, neither is deeper: a leaf of one would be an
\* inner node of the other, or padding.
LEMMA SameDepth ==
  ASSUME NEW l, NEW d, NEW m, NEW e, Tree(l, d), Tree(m, e), l # <<>>, m # <<>>,
         root_from_leaves(l) = root_from_leaves(m)
  PROVE  ~(d < e)
<1>. SUFFICES ASSUME d < e PROVE FALSE
  OBVIOUS
<1>0. d \in Nat /\ e \in Nat /\ MaxDepth \in Nat /\ d <= MaxDepth /\ d \in 0 .. MaxDepth
      /\ d <= d /\ d <= e /\ d - d = 0 /\ 0 \in 0 .. d
      /\ e - d \in 0 .. e /\ e - d # 0
  BY AttestationConstantsOK DEF Tree
<1>1. 1 \in 1 .. Power[d]
  BY <1>0, PowerType
<1>2. Levels(l)[d - d][1] = Levels(m)[e - d][1]
  BY <1>0, <1>1, SameLevels
<1>3. Levels(l)[0][1] \in Ops
  BY <1>0, FirstNode
<1>. DEFINE x == Levels(m)[(e - d) - 1][1]
            y == Levels(m)[(e - d) - 1][2]
<1>4. Levels(m)[e - d][1] = hash_pair(x, y)
  BY <1>0, FirstNode
<1>. HIDE DEF x, y
<1>5. hash_pair(x, y) \in Ops
  BY <1>0, <1>2, <1>3, <1>4
<1>. QED
  BY <1>5 DEF hash_pair, Ops

\* Padding is no operation, so trees whose lowest levels agree have as many leaves.
LEMMA SameLength ==
  ASSUME NEW l, NEW m, NEW d, Tree(l, d), Tree(m, d),
         \A i \in 1 .. Power[d] : Levels(l)[0][i] = Levels(m)[0][i]
  PROVE  ~(Len(l) < Len(m))
<1>. SUFFICES ASSUME Len(l) < Len(m) PROVE FALSE
  OBVIOUS
<1>. DEFINE i == Len(m)
<1>0. /\ d \in 0 .. MaxDepth /\ l \in Seq(Ops) /\ m \in Seq(Ops) /\ Len(m) <= Power[d]
  BY DEF Tree
<1>1. Power[d] \in Nat
  BY <1>0, PowerType
<1>2. i \in 1 .. Power[d] /\ ~(i <= Len(l)) /\ i <= Len(m) /\ m[i] \in Ops
  BY <1>0, <1>1
<1>. HIDE DEF i
<1>3. Levels(l)[0][i] = IF i <= Len(l) THEN l[i] ELSE Padding
  BY <1>2, LeafLevel
<1>4. Levels(m)[0][i] = IF i <= Len(m) THEN m[i] ELSE Padding
  BY <1>2, LeafLevel
<1>5. Padding \in Ops
  BY <1>2, <1>3, <1>4
<1>. QED
  BY <1>5 DEF Padding, hash_pair, Ops

\* merkle.rs root_from_leaves: trees with one root have the same leaves in the
\* same order, whatever their depths and however much of them is padding; the
\* empty tree shares its root with no other.
THEOREM RootInjective ==
  ASSUME NEW l \in Seq(Ops), NEW m \in Seq(Ops),
         Len(l) <= Power[MaxDepth], Len(m) <= Power[MaxDepth],
         root_from_leaves(l) = root_from_leaves(m)
  PROVE  l = m
<1>1. CASE l = <<>> \/ m = <<>>
  BY <1>1, RootKind
<1>2. CASE l # <<>> /\ m # <<>>
  <2>1. PICK d \in 0 .. MaxDepth : Tree(l, d)
    BY TreeOf
  <2>2. PICK e \in 0 .. MaxDepth : Tree(m, e)
    BY TreeOf
  <2>0. d \in Nat /\ e \in Nat
    BY AttestationConstantsOK
  <2>3. ~(d < e)
    BY <1>2, <2>1, <2>2, SameDepth
  <2>4. ~(e < d)
    BY <1>2, <2>1, <2>2, SameDepth
  <2>5. d = e /\ d <= d /\ d - d = 0
    BY <2>0, <2>3, <2>4
  <2>6. Tree(m, d)
    BY <2>2, <2>5
  <2>7. \A i \in 1 .. Power[d] : Levels(l)[0][i] = Levels(m)[0][i]
    <3>1. \A i \in 1 .. Power[d] : Levels(l)[d - d][i] = Levels(m)[d - d][i]
      BY <1>2, <2>0, <2>1, <2>5, <2>6, SameLevels
    <3>. QED
      BY <2>5, <3>1
  <2>8. ~(Len(l) < Len(m))
    BY <2>1, <2>6, <2>7, SameLength
  <2>9. ~(Len(m) < Len(l))
    BY <2>1, <2>6, <2>7, SameLength
  <2>10. Len(l) = Len(m) /\ Len(l) <= Power[d] /\ Power[d] \in Nat /\ Len(l) \in Nat
    BY <2>1, <2>8, <2>9, PowerType DEF Tree
  <2>11. ASSUME NEW i \in 1 .. Len(l) PROVE l[i] = m[i]
    <3>1. i \in 1 .. Power[d] /\ i <= Len(l) /\ i <= Len(m)
      BY <2>10
    <3>2. Levels(l)[0][i] = IF i <= Len(l) THEN l[i] ELSE Padding
      BY <2>1, <3>1, LeafLevel
    <3>3. Levels(m)[0][i] = IF i <= Len(m) THEN m[i] ELSE Padding
      BY <2>6, <3>1, LeafLevel
    <3>. QED
      BY <2>7, <3>1, <3>2, <3>3
  <2>. QED
    BY <2>10, <2>11, SeqEqual
<1>. QED
  BY <1>1, <1>2

-----------------------------------------------------------------------------
\* The tree of an old document (merkle.rs, nodes).

\* The levels that an old document lists, from the root down, and its hashes.
Blocks(l, d) == [k \in 1 .. d + 1 |-> Levels(l)[d + 1 - k]]
Hashes(l, d) == UNION {{Levels(l)[k][i] : i \in 1 .. Power[d - k]} : k \in 0 .. d}

\* The levels of an old document are sequences of its hashes.
LEMMA BlocksType ==
  ASSUME NEW l, NEW d, Tree(l, d)
  PROVE  /\ Blocks(l, d) \in Seq(Seq(Hashes(l, d))) /\ Len(Blocks(l, d)) = d + 1
         /\ \A k \in 1 .. d + 1 : /\ Blocks(l, d)[k] = Levels(l)[d + 1 - k]
                                  /\ Len(Blocks(l, d)[k]) = Power[k - 1]
<1>. DEFINE B == Blocks(l, d)
            S == Hashes(l, d)
<1>0. d \in Nat /\ MaxDepth \in Nat /\ d <= MaxDepth
  BY AttestationConstantsOK DEF Tree
<1>1. ASSUME NEW k \in 0 .. d PROVE Levels(l)[k] \in Seq(S)
  <2>1. Shaped(l, d, k)
    BY LevelShape
  <2>. DEFINE s == Levels(l)[k]
              n == Power[d - k]
              R == {s[i] : i \in 1 .. n}
  <2>2. n \in Nat
    <3>1. d - k \in 0 .. MaxDepth
      BY <1>0
    <3>. QED
      BY <3>1, PowerType
  <2>3. s = [i \in 1 .. n |-> s[i]]
    BY <2>1 DEF Shaped
  <2>4. R \subseteq S
    BY DEF Hashes
  <2>. HIDE DEF s, n, S
  <2>5. s \in Seq(R)
    BY <2>2, <2>3, LenOf
  <2>. HIDE DEF R
  <2>6. s \in Seq(S)
    BY <2>4, <2>5, SeqMonotonic
  <2>. QED
    BY <2>6 DEF s
<1>2. ASSUME NEW k \in 1 .. d + 1
      PROVE  B[k] = Levels(l)[d + 1 - k] /\ d + 1 - k \in 0 .. d /\ d - (d + 1 - k) = k - 1
  BY <1>0 DEF Blocks
<1>3. B \in [1 .. d + 1 -> Seq(S)] /\ d + 1 \in Nat
  <2>1. DOMAIN B = 1 .. d + 1 /\ B = [k \in 1 .. d + 1 |-> B[k]]
    BY DEF Blocks
  <2>2. \A k \in 1 .. d + 1 : B[k] \in Seq(S)
    BY <1>1, <1>2
  <2>. HIDE DEF B, S
  <2>. QED
    BY <1>0, <2>1, <2>2
<1>4. B \in Seq(Seq(S))
  <2>. HIDE DEF B, S
  <2>. QED
    BY <1>3, SeqDef
<1>5. Len(B) = d + 1
  <2>1. B = [k \in 1 .. d + 1 |-> B[k]]
    BY DEF Blocks
  <2>. DEFINE n == d + 1
  <2>. HIDE DEF B
  <2>2. n \in Nat /\ B = [k \in 1 .. n |-> B[k]]
    BY <1>3, <2>1
  <2>. HIDE DEF n
  <2>3. Len(B) = n
    BY <2>2, LenOf
  <2>. QED
    BY <2>3 DEF n
<1>6. ASSUME NEW k \in 1 .. d + 1 PROVE Len(B[k]) = Power[k - 1]
  <2>1. Len(Levels(l)[d + 1 - k]) = Power[d - (d + 1 - k)]
    BY <1>2, LevelLen
  <2>. QED
    BY <1>2, <2>1
<1>. QED
  BY <1>2, <1>4, <1>5, <1>6

\* What an old document has read when k levels are read.
LEMMA NodesRead ==
  ASSUME NEW l, NEW d, Tree(l, d), NEW f, Flattened(f, Blocks(l, d))
  PROVE  \A k \in 1 .. d + 1 : Len(f[k]) = 2 * Power[k - 1] - 1
<1>. DEFINE B == Blocks(l, d)
            S == Hashes(l, d)
            Bad == {k \in Nat : k \in 1 .. d + 1 /\ Len(f[k]) # 2 * Power[k - 1] - 1}
<1>0. d \in Nat /\ MaxDepth \in Nat /\ d <= MaxDepth
  BY AttestationConstantsOK DEF Tree
<1>1. /\ B \in Seq(Seq(S)) /\ Len(B) = d + 1
      /\ \A k \in 1 .. d + 1 : Len(B[k]) = Power[k - 1] /\ B[k] \in Seq(S)
  <2>1. /\ B \in Seq(Seq(S)) /\ Len(B) = d + 1
        /\ \A k \in 1 .. d + 1 : Len(B[k]) = Power[k - 1]
    BY BlocksType
  <2>. HIDE DEF B, S
  <2>. QED
    BY <2>1
<1>. SUFFICES ASSUME Bad # {} PROVE FALSE
  BY <1>0
<1>2. PICK k \in Bad : \A m \in Bad : k <= m
  BY LeastNumber
<1>3. k \in 1 .. d + 1 /\ k \in Nat /\ Len(f[k]) # 2 * Power[k - 1] - 1 /\ k - 1 \in 0 .. MaxDepth
  BY <1>0, <1>2
<1>4. Power[k - 1] \in Nat
  BY <1>3, PowerType
<1>5. f[k] = IF k = 1 THEN B[k] ELSE f[k - 1] \o B[k]
  <2>1. Flattened(f, B) /\ k \in 1 .. Len(B)
    BY <1>1, <1>3
  <2>. HIDE DEF B, S, Bad
  <2>. QED
    BY <1>1, <2>1, FlattenedAt
<1>6. \A j \in 1 .. d + 1 : f[j] \in Seq(S)
  BY <1>1, FlattenedSeq
<1>7. CASE k = 1
  <2>1. Len(f[k]) = Power[0]
    BY <1>1, <1>3, <1>5, <1>7
  <2>. QED
    BY <1>3, <1>7, <2>1, PowerAt
<1>8. CASE k # 1
  <2>1. k - 1 \in 1 .. d + 1 /\ k - 1 \in Nat /\ ~(k <= k - 1) /\ k - 1 \in 1 .. MaxDepth
        /\ (k - 1) - 1 \in 0 .. MaxDepth
    BY <1>0, <1>3, <1>8
  <2>2. Len(f[k - 1]) = 2 * Power[(k - 1) - 1] - 1
    BY <1>2, <2>1
  <2>3. Power[k - 1] = 2 * Power[(k - 1) - 1]
    BY <2>1, PowerAt
  <2>. DEFINE a == f[k - 1]
              b == B[k]
  <2>4. a \in Seq(S) /\ b \in Seq(S) /\ Len(b) = Power[k - 1] /\ f[k] = a \o b
    BY <1>1, <1>3, <1>5, <1>6, <1>8, <2>1
  <2>5. Len(a) = Power[k - 1] - 1
    BY <2>2, <2>3
  <2>. HIDE DEF a, b, S, B, Bad
  <2>6. Len(a \o b) = Len(a) + Len(b)
    BY <2>4, ConcatProperties
  <2>7. Len(f[k]) = (Power[k - 1] - 1) + Power[k - 1]
    BY <2>4, <2>5, <2>6
  <2>. QED
    BY <1>3, <1>4, <2>7
<1>. QED
  BY <1>7, <1>8

\* The nodes of an old document: the root is the first, the padded leaves
\* are the last.
LEMMA NodesOf ==
  ASSUME NEW l, NEW d, Tree(l, d), l # <<>>
  PROVE  /\ LegacyNodes(l) \in Seq(Hashes(l, d))
         /\ Len(LegacyNodes(l)) = 2 * Power[d] - 1
         /\ LegacyNodes(l)[1] = root_from_leaves(l)
         /\ \A i \in 1 .. Power[d] : LegacyNodes(l)[Power[d] - 1 + i] = Levels(l)[0][i]
<1>. DEFINE B == Blocks(l, d)
            S == Hashes(l, d)
            N == LegacyNodes(l)
            n == d + 1
<1>0. d \in Nat /\ MaxDepth \in Nat /\ d <= MaxDepth /\ d \in 0 .. MaxDepth
      /\ n \in Nat /\ n \in 1 .. n /\ n - 1 = d /\ (d + 1) - n = 0 /\ 1 \in 1 .. n
  BY AttestationConstantsOK DEF Tree
<1>1. N = FlattenSeq(B)
  <2>1. Depth(l) = d
    BY DepthIs
  <2>. QED
    BY <2>1, Zenon DEF LegacyNodes, Blocks
<1>2. /\ B \in Seq(Seq(S)) /\ Len(B) = n
      /\ \A k \in 1 .. n : Len(B[k]) = Power[k - 1] /\ B[k] = Levels(l)[d + 1 - k]
  <2>1. /\ B \in Seq(Seq(S)) /\ Len(B) = d + 1
        /\ \A k \in 1 .. d + 1 : B[k] = Levels(l)[d + 1 - k] /\ Len(B[k]) = Power[k - 1]
    BY BlocksType, Zenon
  <2>. HIDE DEF B, S
  <2>. QED
    BY <2>1
<1>3. \A k \in 1 .. n : B[k] \in Seq(S)
  <2>. HIDE DEF B, S, n
  <2>. QED
    BY <1>2
<1>4. B # <<>>
  <2>. HIDE DEF B, S
  <2>. QED
    BY <1>0, <1>2
<1>5. PICK f : Flattened(f, B) /\ FlattenSeq(B) = f[Len(B)]
  <2>. HIDE DEF B, S
  <2>. QED
    BY <1>2, <1>4, FlattenDefined
<1>6. N = f[n] /\ \A k \in 1 .. n : f[k] \in Seq(S)
  <2>1. \A k \in 1 .. Len(B) : f[k] \in Seq(S)
    <3>. HIDE DEF B, S
    <3>. QED
      BY <1>2, <1>5, FlattenedSeq
  <2>. QED
    BY <1>1, <1>2, <1>5, <2>1
<1>7. \A k \in 1 .. n : Len(f[k]) = 2 * Power[k - 1] - 1
  BY <1>5, NodesRead
<1>8. N \in Seq(S) /\ Len(N) = 2 * Power[d] - 1
  BY <1>0, <1>6, <1>7
<1>9. Power[d] \in Nat /\ Power[d] >= 1 /\ Power[0] = 1
  BY <1>0, PowerType, PowerAt
<1>10. N[1] = root_from_leaves(l)
  <2>1. f[1] = B[1] /\ 1 \in 1 .. Len(B)
    <3>. HIDE DEF B, n
    <3>1. 1 \in 1 .. Len(B)
      BY <1>0, <1>2
    <3>. QED
      BY <1>5, <3>1, FlattenedAt
  <2>2. Continues(S, f[Len(B)], f[1])
    <3>. HIDE DEF B, S
    <3>. QED
      BY <1>2, <1>5, <2>1, FlattenedPrefix
  <2>3. PICK r \in Seq(S) : N = B[1] \o r
    <3>1. N = f[Len(B)]
      BY <1>2, <1>6
    <3>. QED
      BY <2>1, <2>2, <3>1, Zenon DEF Continues
  <2>. DEFINE b == B[1]
  <2>4. b \in Seq(S) /\ Len(b) = 1 /\ b = Levels(l)[d] /\ N = b \o r
    <3>1. Len(b) = Power[1 - 1] /\ b = Levels(l)[d + 1 - 1] /\ b \in Seq(S) /\ 1 - 1 = 0 /\ d + 1 - 1 = d
      BY <1>0, <1>2, <1>3
    <3>. QED
      BY <1>9, <2>3, <3>1
  <2>. HIDE DEF b, N, S
  <2>5. (b \o r)[1] = b[1]
    BY <2>4, ConcatProperties
  <2>. QED
    BY <2>4, <2>5, RootIs
<1>11. ASSUME NEW i \in 1 .. Power[d] PROVE N[Power[d] - 1 + i] = Levels(l)[0][i]
  <2>. DEFINE b == B[n]
  <2>1. b \in Seq(S) /\ Len(b) = Power[d] /\ b = Levels(l)[0]
    <3>1. Len(b) = Power[n - 1] /\ b = Levels(l)[d + 1 - n] /\ b \in Seq(S)
      BY <1>0, <1>2, <1>3
    <3>. QED
      BY <1>0, <3>1
  <2>2. CASE n = 1
    <3>1. N = b
      <4>1. n \in 1 .. Len(B)
        BY <1>0, <1>2
      <4>. HIDE DEF B
      <4>. QED
        BY <1>5, <1>6, <2>2, <4>1, FlattenedAt
    <3>2. Power[d] - 1 + i = i
      BY <1>0, <1>9, <2>2
    <3>. QED
      BY <2>1, <3>1, <3>2
  <2>3. CASE n # 1
    <3>. DEFINE a == f[n - 1]
    <3>1. N = a \o b
      <4>1. n \in 1 .. Len(B)
        BY <1>0, <1>2
      <4>2. f[n] = f[n - 1] \o B[n]
        <5>. HIDE DEF B, n
        <5>. QED
          BY <1>5, <2>3, <4>1, FlattenedNext
      <4>. QED
        BY <1>6, <4>2
    <3>2. a \in Seq(S)
      <4>1. n - 1 \in 1 .. n
        BY <1>0, <2>3
      <4>. QED
        BY <1>6, <4>1
    <3>. HIDE DEF a, b, N, S, B, n
    <3>3. Len(a \o b) = Len(a) + Len(b) /\ Len(a) \in Nat
      BY <2>1, <3>2, ConcatProperties
    <3>4. Len(a) = Power[d] - 1
      BY <1>8, <1>9, <2>1, <3>1, <3>3
    <3>. DEFINE p == Power[d]
                j == p - 1 + i
    <3>5. p \in Nat /\ p >= 1 /\ i \in 1 .. p /\ Len(a) = p - 1 /\ Len(b) = p
      BY <1>9, <2>1, <3>4
    <3>. HIDE DEF p
    <3>6. j \in 1 .. Len(a) + Len(b) /\ ~(j <= Len(a)) /\ j - Len(a) = i
      BY <3>5
    <3>. HIDE DEF j
    <3>7. (a \o b)[j] = IF j <= Len(a) THEN a[j] ELSE b[j - Len(a)]
      BY <2>1, <3>2, <3>6, ConcatProperties
    <3>8. (a \o b)[j] = b[i]
      BY <3>6, <3>7
    <3>. QED
      BY <2>1, <3>1, <3>8, Zenon DEF j, p
  <2>. QED
    BY <2>2, <2>3
<1>. QED
  BY <1>8, <1>10, <1>11

\* What is read from the tree of a new document,
LEMMA NewTree ==
  ASSUME NEW l \in Seq(Ops), NEW t, t = [leaves |-> l, nodes |-> <<>>, leaf_count |-> Len(l)]
  PROVE  leaf_hashes(t) = l /\ tree_root(t) = root_from_leaves(l)
<1>1. t.leaves = l /\ t.nodes = <<>> /\ t.leaf_count = Len(l)
  OBVIOUS
<1>2. l # <<>> \/ Len(l) = 0
  OBVIOUS
<1>3. leaf_hashes(t) = l
  BY <1>1, <1>2 DEF leaf_hashes
<1>. QED
  BY <1>1, <1>3 DEF tree_root

\* of an old one,
LEMMA LegacyTree ==
  ASSUME NEW l \in Seq(Ops), Len(l) <= Power[MaxDepth],
         NEW t, t = [leaves |-> <<>>, nodes |-> LegacyNodes(l), leaf_count |-> Len(l)]
  PROVE  /\ leaf_hashes(t) = l /\ tree_root(t) = root_from_leaves(l) /\ t.nodes # <<>>
<1>1. t.leaves = <<>> /\ t.nodes = LegacyNodes(l) /\ t.leaf_count = Len(l)
  OBVIOUS
<1>2. CASE l = <<>>
  <2>1. t.nodes = <<root_from_leaves(l)>> /\ t.leaf_count = 0
    BY <1>1, <1>2 DEF LegacyNodes
  <2>2. t.nodes # <<>> /\ t.nodes[1] = root_from_leaves(l)
    BY <2>1
  <2>3. leaf_hashes(t) = l
    BY <1>1, <1>2, <2>1 DEF leaf_hashes
  <2>. QED
    BY <2>2, <2>3 DEF tree_root
<1>3. CASE l # <<>>
  <2>1. PICK d \in 0 .. MaxDepth : Tree(l, d)
    BY TreeOf
  <2>. DEFINE N == LegacyNodes(l)
              S == Hashes(l, d)
              p == Power[d]
              n == Len(l)
  <2>2. p \in Nat /\ p >= 1 /\ n \in Nat /\ n >= 1 /\ n <= p
    BY <1>3, <2>1, PowerType DEF Tree
  <2>3. /\ N \in Seq(S) /\ Len(N) = 2 * p - 1 /\ N[1] = root_from_leaves(l)
        /\ \A i \in 1 .. p : N[p - 1 + i] = Levels(l)[0][i]
    BY <1>3, <2>1, NodesOf
  <2>4. ASSUME NEW i \in 1 .. n PROVE N[p - 1 + i] = l[i]
    <3>1. i \in 1 .. p /\ i <= n
      BY <2>2
    <3>2. Levels(l)[0][i] = IF i <= n THEN l[i] ELSE Padding
      BY <2>1, <3>1, LeafLevel
    <3>3. N[p - 1 + i] = Levels(l)[0][i]
      BY <2>3, <3>1
    <3>. QED
      BY <3>1, <3>2, <3>3, Zenon
  <2>. HIDE DEF N, S, p, n
  <2>5. N # <<>>
    BY <2>2, <2>3
  <2>6. (Len(N) + 1) \div 2 = p /\ p # 0
        /\ (IF p + n - 1 < Len(N) THEN p + n - 1 ELSE Len(N)) = p + n - 1
    BY <2>2, <2>3
  <2>7. leaf_hashes(t) = SubSeq(N, p, p + n - 1)
    <3>1. t.leaves = <<>> /\ t.nodes = N /\ t.leaf_count = n /\ n # 0
      BY <1>1, <2>2 DEF N, n
    <3>2. leaf_hashes(t) =
            LET padded == (Len(N) + 1) \div 2
                first == IF padded = 0 THEN 1 ELSE padded
                last == first + n - 1
            IN  SubSeq(N, first, IF last < Len(N) THEN last ELSE Len(N))
      BY <3>1 DEF leaf_hashes
    <3>. QED
      BY <2>6, <3>2
  <2>8. SubSeq(N, p, p + n - 1) = l
    <3>. DEFINE q == p + n - 1
                s == SubSeq(N, p, q)
    <3>1. p \in Int /\ q \in Int /\ p <= q /\ q - p + 1 = n /\ \A i \in p .. q : N[i] \in S
      BY <2>2, <2>3
    <3>2. \A i \in 1 .. n : p + i - 1 = p - 1 + i
      BY <2>2
    <3>. HIDE DEF q
    <3>3. /\ s \in Seq(S) /\ Len(s) = IF p <= q THEN q - p + 1 ELSE 0
          /\ \A i \in 1 .. q - p + 1 : s[i] = N[p + i - 1]
      BY <3>1, SubSeqProperties
    <3>. HIDE DEF s
    <3>4. Len(s) = n
      BY <3>1, <3>3
    <3>5. ASSUME NEW i \in 1 .. n PROVE s[i] = l[i]
      <4>1. s[i] = N[p + i - 1]
        BY <3>1, <3>3
      <4>. QED
        BY <2>4, <3>2, <4>1
    <3>6. s \in Seq(S \cup Ops) /\ l \in Seq(S \cup Ops)
      <4>1. S \subseteq S \cup Ops /\ Ops \subseteq S \cup Ops
        OBVIOUS
      <4>. QED
        BY <3>3, <4>1, SeqMonotonic
    <3>7. s = l
      BY <3>4, <3>5, <3>6, SeqEqual DEF n
    <3>. QED
      BY <3>7 DEF s, q
  <2>. QED
    BY <1>1, <2>3, <2>5, <2>7, <2>8 DEF tree_root, N
<1>. QED
  BY <1>2, <1>3

\* and of an old one that was written again.
LEMMA LostTree ==
  ASSUME NEW n \in Nat, NEW t, t = [leaves |-> <<>>, nodes |-> <<>>, leaf_count |-> n]
  PROVE  leaf_hashes(t) = <<>> /\ tree_root(t) = root_from_leaves(<<>>)
<1>1. t.leaves = <<>> /\ t.nodes = <<>> /\ t.leaf_count = n
  OBVIOUS
<1>2. leaf_hashes(t) = <<>>
  <2>1. CASE n = 0
    BY <1>1, <2>1 DEF leaf_hashes
  <2>2. CASE n # 0
    <3>. DEFINE e == <<>>
    <3>1. Len(e) = 0 /\ (Len(e) + 1) \div 2 = 0
      OBVIOUS
    <3>2. leaf_hashes(t) =
            LET padded == (Len(e) + 1) \div 2
                first == IF padded = 0 THEN 1 ELSE padded
                last == first + n - 1
            IN  SubSeq(e, first, IF last < Len(e) THEN last ELSE Len(e))
      BY <1>1, <2>2 DEF leaf_hashes
    <3>3. (IF 1 + n - 1 < Len(e) THEN 1 + n - 1 ELSE Len(e)) = 0
      BY <3>1
    <3>4. leaf_hashes(t) = SubSeq(e, 1, 0)
      BY <3>1, <3>2, <3>3
    <3>5. SubSeq(e, 1, 0) = <<>>
      BY SubSeqEmpty
    <3>. QED
      BY <3>4, <3>5
  <2>. QED
    BY <2>1, <2>2
<1>. QED
  BY <1>1, <1>2 DEF tree_root

-----------------------------------------------------------------------------
\* The commitment (attestation.rs, encode_commitment_v0_3).

WriteOutput(o) == write_commitment_str(o.path) \o write_commitment_str(o.hash)
OutputBlocks(outputs) == [i \in DOMAIN outputs |-> WriteOutput(outputs[i])]

\* An output can be taken off the front of an encoding.
LEMMA OutputCancel ==
  ASSUME NEW o \in Outputs, NEW p \in Outputs, NEW x \in Seq(Nat), NEW y \in Seq(Nat),
         Alike(WriteOutput(o), x, WriteOutput(p), y)
  PROVE  o = p /\ WriteOutput(o) \in Seq(Nat)
<1>0. /\ o.path \in Seq(Nat) /\ o.hash \in Seq(Nat) /\ p.path \in Seq(Nat) /\ p.hash \in Seq(Nat)
      /\ o = [path |-> o.path, hash |-> o.hash] /\ p = [path |-> p.path, hash |-> p.hash]
  BY DEF Outputs, Text
<1>. DEFINE a == write_commitment_str(o.path)
            b == write_commitment_str(o.hash)
            c == write_commitment_str(p.path)
            d == write_commitment_str(p.hash)
<1>1. a \in Seq(Nat) /\ b \in Seq(Nat) /\ c \in Seq(Nat) /\ d \in Seq(Nat)
  BY <1>0, FrameType
<1>2. Alike(a \o b, x, c \o d, y) /\ WriteOutput(o) = a \o b
  BY Zenon DEF WriteOutput
<1>. HIDE DEF a, b, c, d
<1>3. Alike(a, b \o x, c, d \o y)
  BY <1>1, <1>2, Shift, Zenon
<1>4. b \o x \in Seq(Nat) /\ d \o y \in Seq(Nat) /\ a \o b \in Seq(Nat)
  BY <1>1, ConcatProperties
<1>5. o.path = p.path /\ b \o x = d \o y
  BY <1>0, <1>3, <1>4, FrameCancel DEF a, c
<1>6. Alike(b, x, d, y)
  BY <1>5, Zenon DEF Alike
<1>7. o.hash = p.hash
  BY <1>0, <1>6, FrameCancel DEF b, d
<1>. QED
  BY <1>0, <1>2, <1>4, <1>5, <1>7

\* An encoded output is a text.
LEMMA OutputType ==
  ASSUME NEW o \in Outputs
  PROVE  WriteOutput(o) \in Seq(Nat)
<1>1. o.path \in Seq(Nat) /\ o.hash \in Seq(Nat)
  BY DEF Outputs, Text
<1>2. write_commitment_str(o.path) \in Seq(Nat) /\ write_commitment_str(o.hash) \in Seq(Nat)
  BY <1>1, FrameType
<1>. QED
  BY <1>2, ConcatProperties DEF WriteOutput

\* Encoded outputs are a text.
LEMMA OutputsType ==
  ASSUME NEW c \in Seq(Outputs)
  PROVE  OutputBlocks(c) \in Seq(Seq(Nat)) /\ FlattenSeq(OutputBlocks(c)) \in Seq(Nat)
         /\ <<Len(c)>> \in Seq(Nat)
<1>. DEFINE p == OutputBlocks(c)
<1>1. ASSUME NEW i \in DOMAIN c PROVE WriteOutput(c[i]) \in Seq(Nat)
  BY <1>1, OutputType
<1>2. p \in [1 .. Len(c) -> Seq(Nat)] /\ Len(c) \in Nat
  BY <1>1 DEF OutputBlocks
<1>. HIDE DEF p
<1>3. p \in Seq(Seq(Nat))
  BY <1>2, SeqDef
<1>4. FlattenSeq(p) \in Seq(Nat)
  BY <1>3, FlattenSeqType
<1>5. <<Len(c)>> \in Seq(Nat)
  BY <1>2
<1>. QED
  BY <1>3, <1>4, <1>5 DEF p

\* Lists of outputs of one length.
LEMMA OutputsCancel ==
  ASSUME NEW c \in Seq(Outputs), NEW d \in Seq(Outputs), Len(c) = Len(d),
         FlattenSeq(OutputBlocks(c)) = FlattenSeq(OutputBlocks(d))
  PROVE  c = d
<1>. DEFINE p == OutputBlocks(c)
            q == OutputBlocks(d)
<1>1. p \in Seq(Seq(Nat)) /\ q \in Seq(Seq(Nat)) /\ <<>> \in Seq(Nat)
  BY OutputsType
<1>2. /\ DOMAIN p = 1 .. Len(c) /\ DOMAIN q = 1 .. Len(d)
      /\ \A i \in 1 .. Len(c) : p[i] = WriteOutput(c[i])
      /\ \A i \in 1 .. Len(d) : q[i] = WriteOutput(d[i])
  BY DEF OutputBlocks
<1>3. Alike(FlattenSeq(p), <<>>, FlattenSeq(q), <<>>)
  BY Zenon DEF Alike
<1>. HIDE DEF p, q
<1>4. Len(p) = Len(c) /\ Len(q) = Len(d)
  BY <1>1, <1>2
<1>5. ASSUME NEW i \in 1 .. Len(p), NEW u \in Seq(Nat), NEW v \in Seq(Nat),
              Alike(p[i], u, q[i], v)
      PROVE  c[i] = d[i]
  <2>1. c[i] \in Outputs /\ d[i] \in Outputs /\ p[i] = WriteOutput(c[i]) /\ q[i] = WriteOutput(d[i])
    BY <1>2, <1>4
  <2>2. Alike(WriteOutput(c[i]), u, WriteOutput(d[i]), v)
    BY <1>5, <2>1, Zenon
  <2>. QED
    BY <2>1, <2>2, OutputCancel
<1>6. p = q
  <2>1. \A i \in 1 .. Len(p) : \A u, v \in Seq(Nat) : Alike(p[i], u, q[i], v) => p[i] = q[i]
    BY <1>2, <1>4, <1>5
  <2>. QED
    BY <1>1, <1>3, <1>4, <2>1, FlattenCancel
<1>7. ASSUME NEW i \in 1 .. Len(c) PROVE c[i] = d[i]
  <2>1. i \in 1 .. Len(p)
    BY <1>4
  <2>2. Alike(p[i], <<>>, q[i], <<>>)
    BY <1>6, Zenon DEF Alike
  <2>. QED
    BY <1>1, <1>5, <2>1, <2>2
<1>. QED
  BY <1>7, SeqEqual

\* attestation.rs encode_commitment_v0_3: the lengths and counts in front of each
\* field make the encoding readable in one way, so no two records with different
\* process roots, commands, selections or outputs share a commitment.
THEOREM CommitmentInjective ==
  ASSUME NEW r1, NEW r2, NEW c1 \in Seq(Text), NEW c2 \in Seq(Text),
         NEW s1 \in Selections, NEW s2 \in Selections,
         NEW o1 \in Seq(Outputs), NEW o2 \in Seq(Outputs),
         commitment_hash_v0_3(r1, c1, s1, o1) = commitment_hash_v0_3(r2, c2, s2, o2)
  PROVE  r1 = r2 /\ c1 = c2 /\ s1 = s2 /\ o1 = o2
<1>. DEFINE r == <<r1>>
            a == WriteAll(c1)
            b == write_commitment_str(s1.mode)
            c == WriteAll(s1.artifacts)
            d == WriteAll(s1.output_roots)
            e == <<Len(o1)>>
            f == FlattenSeq(OutputBlocks(o1))
            R == <<r2>>
            A == WriteAll(c2)
            B == write_commitment_str(s2.mode)
            C == WriteAll(s2.artifacts)
            D == WriteAll(s2.output_roots)
            E == <<Len(o2)>>
            F == FlattenSeq(OutputBlocks(o2))
            S == Nat \cup {r1, r2}
            t == encode_commitment_v0_3(r1, c1, s1, o1)
<1>1. t = encode_commitment_v0_3(r2, c2, s2, o2)
  BY DEF commitment_hash_v0_3
<1>2. /\ t = r \o a \o b \o c \o d \o e \o f
      /\ t = R \o A \o B \o C \o D \o E \o F
  BY <1>1, Zenon DEF encode_commitment_v0_3, OutputBlocks, WriteOutput
<1>3. /\ s1.mode \in Seq(Nat) /\ s1.artifacts \in Seq(Seq(Nat)) /\ s1.output_roots \in Seq(Seq(Nat))
      /\ s2.mode \in Seq(Nat) /\ s2.artifacts \in Seq(Seq(Nat)) /\ s2.output_roots \in Seq(Seq(Nat))
      /\ c1 \in Seq(Seq(Nat)) /\ c2 \in Seq(Seq(Nat))
      /\ s1 = [mode |-> s1.mode, artifacts |-> s1.artifacts, output_roots |-> s1.output_roots]
      /\ s2 = [mode |-> s2.mode, artifacts |-> s2.artifacts, output_roots |-> s2.output_roots]
  BY DEF Selections, Text
<1>4. /\ a \in Seq(Nat) /\ b \in Seq(Nat) /\ c \in Seq(Nat) /\ d \in Seq(Nat)
      /\ A \in Seq(Nat) /\ B \in Seq(Nat) /\ C \in Seq(Nat) /\ D \in Seq(Nat)
      /\ e \in Seq(Nat) /\ f \in Seq(Nat) /\ E \in Seq(Nat) /\ F \in Seq(Nat)
  BY <1>3, WriteAllType, FrameType, OutputsType
<1>5. r \in Seq(S) /\ R \in Seq(S) /\ Len(r) = 1 /\ Len(R) = 1 /\ r[1] = r1 /\ R[1] = r2
  OBVIOUS
<1>6. Len(e) = 1 /\ Len(E) = 1 /\ e[1] = Len(o1) /\ E[1] = Len(o2)
  OBVIOUS
<1>7. Nat \subseteq S
  OBVIOUS
<1>. HIDE DEF r, a, b, c, d, e, f, R, A, B, C, D, E, F, S, t
<1>8. /\ a \in Seq(S) /\ b \in Seq(S) /\ c \in Seq(S) /\ d \in Seq(S)
      /\ A \in Seq(S) /\ B \in Seq(S) /\ C \in Seq(S) /\ D \in Seq(S)
      /\ e \in Seq(S) /\ f \in Seq(S) /\ E \in Seq(S) /\ F \in Seq(S)
  BY <1>4, <1>7, SeqMonotonic
<1>. DEFINE p1 == e \o f
            p2 == d \o p1
            p3 == c \o p2
            p4 == b \o p3
            p5 == a \o p4
            q1 == E \o F
            q2 == D \o q1
            q3 == C \o q2
            q4 == B \o q3
            q5 == A \o q4
<1>10. p1 \in Seq(Nat) /\ q1 \in Seq(Nat)
  BY <1>4, ConcatProperties, Zenon
<1>11. p2 \in Seq(Nat) /\ q2 \in Seq(Nat)
  <2>. HIDE DEF p1, q1
  <2>. QED
    BY <1>4, <1>10, ConcatProperties, Zenon
<1>12. p3 \in Seq(Nat) /\ q3 \in Seq(Nat)
  <2>. HIDE DEF p2, q2
  <2>. QED
    BY <1>4, <1>11, ConcatProperties, Zenon
<1>13. p4 \in Seq(Nat) /\ q4 \in Seq(Nat)
  <2>. HIDE DEF p3, q3
  <2>. QED
    BY <1>4, <1>12, ConcatProperties, Zenon
<1>9. Alike(r, p5, R, q5)
  <2>. DEFINE y1 == r \o a
              y2 == y1 \o b
              y3 == y2 \o c
              y4 == y3 \o d
              z1 == R \o A
              z2 == z1 \o B
              z3 == z2 \o C
              z4 == z3 \o D
  <2>1. y1 \in Seq(S) /\ z1 \in Seq(S)
    BY <1>5, <1>8, ConcatProperties, Zenon
  <2>2. y2 \in Seq(S) /\ z2 \in Seq(S)
    <3>. HIDE DEF y1, z1
    <3>. QED
      BY <1>8, <2>1, ConcatProperties, Zenon
  <2>3. y3 \in Seq(S) /\ z3 \in Seq(S)
    <3>. HIDE DEF y2, z2
    <3>. QED
      BY <1>8, <2>2, ConcatProperties, Zenon
  <2>4. y4 \in Seq(S) /\ z4 \in Seq(S)
    <3>. HIDE DEF y3, z3
    <3>. QED
      BY <1>8, <2>3, ConcatProperties, Zenon
  <2>5. Alike(y4 \o e, f, z4 \o E, F)
    BY <1>2, Zenon DEF Alike
  <2>6. /\ p1 \in Seq(S) /\ q1 \in Seq(S) /\ p2 \in Seq(S) /\ q2 \in Seq(S)
        /\ p3 \in Seq(S) /\ q3 \in Seq(S) /\ p4 \in Seq(S) /\ q4 \in Seq(S)
    <3>. HIDE DEF p1, p2, p3, p4, q1, q2, q3, q4
    <3>. QED
      BY <1>7, <1>10, <1>11, <1>12, <1>13, SeqMonotonic
  <2>7. Alike(y4, p1, z4, q1)
    <3>. HIDE DEF y4, z4
    <3>. QED
      BY <1>8, <2>4, <2>5, Shift, Zenon
  <2>8. Alike(y3, p2, z3, q2)
    <3>. HIDE DEF y3, z3, p1, q1
    <3>. QED
      BY <1>8, <2>3, <2>6, <2>7, Shift, Zenon
  <2>9. Alike(y2, p3, z2, q3)
    <3>. HIDE DEF y2, z2, p2, q2
    <3>. QED
      BY <1>8, <2>2, <2>6, <2>8, Shift, Zenon
  <2>10. Alike(y1, p4, z1, q4)
    <3>. HIDE DEF y1, z1, p3, q3
    <3>. QED
      BY <1>8, <2>1, <2>6, <2>9, Shift, Zenon
  <2>. HIDE DEF p4, q4
  <2>. QED
    BY <1>5, <1>8, <2>6, <2>10, Shift, Zenon
<1>14. p5 \in Seq(S) /\ q5 \in Seq(S)
  <2>. HIDE DEF p4, q4
  <2>1. p5 \in Seq(Nat) /\ q5 \in Seq(Nat)
    BY <1>4, <1>13, ConcatProperties, Zenon
  <2>. HIDE DEF p5, q5
  <2>. QED
    BY <1>7, <2>1, SeqMonotonic
<1>15. r = R /\ p5 = q5
  <2>. HIDE DEF p5, q5
  <2>. QED
    BY <1>5, <1>9, <1>14, Cancel
<1>16. c1 = c2 /\ p4 = q4
  <2>1. Alike(a, p4, A, q4)
    BY <1>15, Zenon DEF Alike
  <2>. HIDE DEF p4, q4
  <2>. QED
    BY <1>3, <1>13, <2>1, WriteAllCancel DEF a, A
<1>17. s1.mode = s2.mode /\ p3 = q3
  <2>1. Alike(b, p3, B, q3)
    BY <1>16, Zenon DEF Alike
  <2>. HIDE DEF p3, q3
  <2>. QED
    BY <1>3, <1>12, <2>1, FrameCancel DEF b, B
<1>18. s1.artifacts = s2.artifacts /\ p2 = q2
  <2>1. Alike(c, p2, C, q2)
    BY <1>17, Zenon DEF Alike
  <2>. HIDE DEF p2, q2
  <2>. QED
    BY <1>3, <1>11, <2>1, WriteAllCancel DEF c, C
<1>19. s1.output_roots = s2.output_roots /\ p1 = q1
  <2>1. Alike(d, p1, D, q1)
    BY <1>18, Zenon DEF Alike
  <2>. HIDE DEF p1, q1
  <2>. QED
    BY <1>3, <1>10, <2>1, WriteAllCancel DEF d, D
<1>20. e = E /\ f = F
  <2>1. Alike(e, f, E, F) /\ Len(e) = Len(E)
    BY <1>6, <1>19, Zenon DEF Alike
  <2>. QED
    BY <1>4, <2>1, Cancel
<1>21. o1 = o2
  <2>1. Len(o1) = Len(o2)
    BY <1>6, <1>20
  <2>2. FlattenSeq(OutputBlocks(o1)) = FlattenSeq(OutputBlocks(o2))
    BY <1>20, Zenon DEF f, F
  <2>. QED
    BY <2>1, <2>2, OutputsCancel
<1>. QED
  BY <1>3, <1>5, <1>15, <1>16, <1>17, <1>18, <1>19, <1>21

-----------------------------------------------------------------------------
\* The documents on disk.

RootOf(o) == root_from_leaves(o.leaves)
SelectionOf(o) == output_selection_metadata(o)
OutputsOf(o) == SortedOutputs(o.outputs)
NewTreeOf(o) == [leaves |-> o.leaves, nodes |-> <<>>, leaf_count |-> Len(o.leaves)]
OldTreeOf(o) == [leaves |-> <<>>, nodes |-> LegacyNodes(o.leaves), leaf_count |-> Len(o.leaves)]
NoSelection == [mode |-> InferredMode, artifacts |-> <<>>, output_roots |-> <<>>]

\* The fields of the documents of each version.
CommitmentOf(v, o) ==
  CASE v = "0.3.0" -> commitment_hash_v0_3(RootOf(o), o.command, SelectionOf(o), OutputsOf(o))
    [] v = "0.2.1" -> commitment_hash_v0_2(RootOf(o), o.command, SelectionOf(o), OutputsOf(o))
    [] v = "0.1.0" -> RootOf(o)
TreeIn(v, o) == IF v = "0.1.0" THEN OldTreeOf(o) ELSE NewTreeOf(o)
Fields(v, o) ==
  [version |-> v, process_root |-> IF v = "0.3.0" THEN RootOf(o) ELSE NoRoot,
   command |-> o.command, root_hash |-> CommitmentOf(v, o),
   output_selection |-> IF v = "0.1.0" THEN NoSelection ELSE SelectionOf(o),
   outputs |-> IF v = "0.1.0" THEN <<>> ELSE OutputsOf(o), tree |-> TreeIn(v, o)]

\* What OriginsUnderstood says of one origin.
LEMMA OriginType ==
  ASSUME NEW o \in Origins
  PROVE  /\ o.leaves \in Seq(Ops) /\ Len(o.leaves) <= Power[MaxDepth]
         /\ o.command \in Seq(Text) /\ SelectionOf(o) \in Selections
         /\ OutputsOf(o) \in Seq(Outputs) /\ ToSet(OutputsOf(o)) = o.outputs
BY OriginsUnderstood DEF Ops, SelectionOf, OutputsOf

\* The documents have the fields just listed.
LEMMA DocumentIs ==
  ASSUME NEW v \in Versions, NEW o \in Origins
  PROVE  Document(v, o) = Fields(v, o)
<1>. DEFINE new == new_with_outputs(build_merkle_tree(o.leaves), o)
<1>1. tree_root(build_merkle_tree(o.leaves)) = RootOf(o)
  BY OriginType, NewTree DEF build_merkle_tree, RootOf
<1>2. new = [version |-> "0.3.0", process_root |-> RootOf(o), command |-> o.command,
             root_hash |-> commitment_hash_v0_3(RootOf(o), o.command, SelectionOf(o), OutputsOf(o)),
             output_selection |-> SelectionOf(o), outputs |-> OutputsOf(o), tree |-> NewTreeOf(o)]
  BY <1>1, Zenon DEF new_with_outputs, SelectionOf, OutputsOf, NewTreeOf, build_merkle_tree
<1>3. Serialized(new) = new
  BY <1>2 DEF Serialized, NewTreeOf
<1>4. Document(v, o) =
        CASE v = "0.3.0" -> Serialized(new)
          [] v = "0.2.1" ->
               [Serialized(new) EXCEPT
                  !.version = "0.2.1", !.process_root = NoRoot,
                  !.root_hash = commitment_hash_v0_2(new.process_root, new.command,
                                                     new.output_selection, new.outputs)]
          [] v = "0.1.0" ->
               [new EXCEPT
                  !.version = "0.1.0", !.process_root = NoRoot,
                  !.root_hash = new.process_root, !.outputs = <<>>,
                  !.output_selection = NoSelection, !.tree = OldTreeOf(o)]
  BY DEF Document, NoSelection, OldTreeOf
<1>. HIDE DEF new
<1>5. CASE v = "0.3.0"
  <2>1. Document(v, o) = new
    BY <1>3, <1>4, <1>5
  <2>. QED
    BY <1>2, <1>5, <2>1 DEF Fields, TreeIn, CommitmentOf
<1>6. CASE v = "0.2.1"
  <2>1. Document(v, o) =
          [new EXCEPT !.version = "0.2.1", !.process_root = NoRoot,
                      !.root_hash = commitment_hash_v0_2(new.process_root, new.command,
                                                         new.output_selection, new.outputs)]
    BY <1>3, <1>4, <1>6
  <2>. QED
    BY <1>2, <1>6, <2>1 DEF Fields, TreeIn, CommitmentOf
<1>7. CASE v = "0.1.0"
  <2>1. Document(v, o) =
          [new EXCEPT !.version = "0.1.0", !.process_root = NoRoot,
                      !.root_hash = new.process_root, !.outputs = <<>>,
                      !.output_selection = NoSelection, !.tree = OldTreeOf(o)]
    BY <1>4, <1>7
  <2>. QED
    BY <1>2, <1>7, <2>1 DEF Fields, TreeIn, CommitmentOf
<1>. QED
  BY <1>5, <1>6, <1>7 DEF Versions

\* Leaves and root are read back from the tree of a document of any version.
LEMMA TreeRead ==
  ASSUME NEW v \in Versions, NEW o \in Origins
  PROVE  leaf_hashes(TreeIn(v, o)) = o.leaves /\ tree_root(TreeIn(v, o)) = RootOf(o)
<1>1. CASE v = "0.1.0"
  BY <1>1, OriginType, LegacyTree DEF TreeIn, OldTreeOf, RootOf
<1>2. CASE v # "0.1.0"
  BY <1>2, OriginType, NewTree DEF TreeIn, NewTreeOf, RootOf
<1>. QED
  BY <1>1, <1>2

\* What was written can be read again.
LEMMA DocumentRead ==
  ASSUME NEW v \in Versions, NEW o \in Origins, NEW d, d = Document(v, o)
  PROVE  /\ d = Fields(v, o)
         /\ leaf_hashes(d.tree) = o.leaves /\ tree_root(d.tree) = RootOf(o)
         /\ process_root_of(d) = RootOf(o) /\ validate(d) /\ d # NoFile
<1>1. d = Fields(v, o)
  BY DocumentIs
<1>2. /\ d.version = v /\ d.process_root = IF v = "0.3.0" THEN RootOf(o) ELSE NoRoot
      /\ d.command = o.command /\ d.root_hash = CommitmentOf(v, o)
      /\ v # "0.1.0" => d.output_selection = SelectionOf(o) /\ d.outputs = OutputsOf(o)
      /\ d.tree = TreeIn(v, o)
  BY <1>1 DEF Fields
<1>3. leaf_hashes(d.tree) = o.leaves /\ tree_root(d.tree) = RootOf(o)
  BY <1>2, TreeRead
<1>4. process_root_of(d) = RootOf(o)
  BY <1>2, <1>3 DEF process_root_of, Versions
<1>5. validate(d)
  BY <1>2, <1>3, <1>4 DEF validate, Versions, CommitmentOf
<1>6. d # NoFile
  BY <1>2 DEF NoFile, Versions
<1>. QED
  BY <1>1, <1>3, <1>4, <1>5, <1>6

\* Different leaves have different roots.
LEMMA RootsDiffer ==
  ASSUME NEW o \in Origins, NEW p \in Origins, RootOf(o) = RootOf(p)
  PROVE  o.leaves = p.leaves
<1>1. /\ o.leaves \in Seq(Ops) /\ Len(o.leaves) <= Power[MaxDepth]
      /\ p.leaves \in Seq(Ops) /\ Len(p.leaves) <= Power[MaxDepth]
  BY OriginType
<1>. QED
  BY <1>1, RootInjective DEF RootOf

\* Equal commitments of one version commit to the same.
LEMMA CommitmentBinds ==
  ASSUME NEW v \in Versions, NEW o \in Origins, NEW r, NEW c \in Seq(Text),
         NEW s \in Selections, NEW t \in Seq(Outputs),
         \/ v = "0.3.0" /\ CommitmentOf(v, o) = commitment_hash_v0_3(r, c, s, t)
         \/ v = "0.2.1" /\ CommitmentOf(v, o) = commitment_hash_v0_2(r, c, s, t)
  PROVE  r = RootOf(o) /\ c = o.command /\ s = SelectionOf(o) /\ t = OutputsOf(o)
<1>0. /\ o.command \in Seq(Text) /\ SelectionOf(o) \in Selections /\ OutputsOf(o) \in Seq(Outputs)
  BY OriginType
<1>1. CASE v = "0.3.0"
  <2>1. commitment_hash_v0_3(RootOf(o), o.command, SelectionOf(o), OutputsOf(o))
          = commitment_hash_v0_3(r, c, s, t)
    BY <1>1 DEF CommitmentOf
  <2>. QED
    BY <1>0, <2>1, CommitmentInjective
<1>2. CASE v = "0.2.1"
  <2>1. commitment_hash_v0_2(RootOf(o), o.command, SelectionOf(o), OutputsOf(o))
          = commitment_hash_v0_2(r, c, s, t)
    BY <1>2 DEF CommitmentOf
  <2>. QED
    BY <2>1 DEF commitment_hash_v0_2
<1>. QED
  BY <1>1, <1>2

\* A file that is read and has the root of a document of its version says
\* what that document says.
LEMMA ValidatedBinds ==
  ASSUME NEW v \in Versions, NEW o \in Origins, NEW f,
         f.version = v, f.root_hash = CommitmentOf(v, o), validate(f),
         f.command \in Seq(Text), f.output_selection \in Selections, f.outputs \in Seq(Outputs)
  PROVE  /\ tree_root(f.tree) = RootOf(o) /\ process_root_of(f) = RootOf(o)
         /\ v # "0.1.0" => /\ f.command = o.command /\ f.outputs = OutputsOf(o)
                           /\ f.output_selection = SelectionOf(o)
<1>. DEFINE r == process_root_of(f)
<1>1. CASE v = "0.1.0"
  BY <1>1 DEF validate, CommitmentOf, process_root_of
<1>2. CASE v = "0.2.1"
  <2>1. r = tree_root(f.tree)
        /\ f.root_hash = commitment_hash_v0_2(r, f.command, f.output_selection, f.outputs)
    BY <1>2 DEF validate
  <2>. HIDE DEF r
  <2>2. r = RootOf(o) /\ f.command = o.command /\ f.outputs = OutputsOf(o)
        /\ f.output_selection = SelectionOf(o)
    BY <1>2, <2>1, CommitmentBinds
  <2>. QED
    BY <2>1, <2>2 DEF r
<1>3. CASE v = "0.3.0"
  <2>1. r = tree_root(f.tree)
        /\ f.root_hash = commitment_hash_v0_3(r, f.command, f.output_selection, f.outputs)
    BY <1>3 DEF validate
  <2>. HIDE DEF r
  <2>2. r = RootOf(o) /\ f.command = o.command /\ f.outputs = OutputsOf(o)
        /\ f.output_selection = SelectionOf(o)
    BY <1>3, <2>1, CommitmentBinds
  <2>. QED
    BY <2>1, <2>2 DEF r
<1>. QED
  BY <1>1, <1>2, <1>3 DEF Versions

\* The roots of documents of different versions are told apart by their kind.
LEMMA CommitmentKind ==
  ASSUME NEW v \in Versions, NEW o \in Origins
  PROVE  /\ v = "0.3.0" => CommitmentOf(v, o)[1] = "v0.3"
         /\ v = "0.2.1" => CommitmentOf(v, o)[1] = "v0.2"
         /\ v = "0.1.0" => CommitmentOf(v, o)[1] \in {"op", "pair"}
<1>1. RootOf(o)[1] \in {"op", "pair"}
  BY OriginType, RootKind DEF RootOf
<1>. QED
  BY <1>1 DEF CommitmentOf, commitment_hash_v0_3, commitment_hash_v0_2

FieldNames == {"version", "process_root", "command", "root_hash", "output_selection", "outputs",
               "tree"}
TreeNames == {"leaves", "nodes", "leaf_count"}
IsTree(t) ==
  /\ t = [n \in TreeNames |-> t[n]] /\ t.leaf_count \in Nat
  /\ Len(t.leaves) <= Power[MaxDepth]

\* What is still known of a file whose parts were replaced: each part is of
\* its type, and the tree is not too deep.
Parsed(f) ==
  /\ f = [n \in FieldNames |-> f[n]]
  /\ f.version \in Versions /\ f.command \in Seq(Text)
  /\ f.output_selection \in Selections /\ f.outputs \in Seq(Outputs)
  /\ IsTree(f.tree)

\* A file is what was written, or, where files are replaced, can still be parsed.
FileInv ==
  /\ file = [s \in Slots |-> file[s]] /\ origin = [s \in Slots |-> origin[s]]
  /\ \A s \in Slots : file[s] # NoFile =>
       /\ origin[s] \in [version : Versions, of : Origins]
       /\ Parsed(file[s])
       /\ use # "pin" => file[s] = Document(origin[s].version, origin[s].of)

\* The fields of a document have the types the commitment needs.
LEMMA FieldsType ==
  ASSUME NEW v \in Versions, NEW o \in Origins, NEW d, d = Fields(v, o)
  PROVE  /\ d.command \in Seq(Text) /\ d.output_selection \in Selections
         /\ d.outputs \in Seq(Outputs)
         /\ d.version = v /\ d.root_hash = CommitmentOf(v, o) /\ d.tree = TreeIn(v, o)
         /\ d.command = o.command
         /\ v # "0.1.0" => d.output_selection = SelectionOf(o) /\ d.outputs = OutputsOf(o)
<1>1. NoSelection \in Selections
  BY DEF NoSelection, Selections, InferredMode, Text
<1>2. /\ d.command = o.command
      /\ d.output_selection = IF v = "0.1.0" THEN NoSelection ELSE SelectionOf(o)
      /\ d.outputs = IF v = "0.1.0" THEN <<>> ELSE OutputsOf(o)
      /\ d.version = v /\ d.root_hash = CommitmentOf(v, o) /\ d.tree = TreeIn(v, o)
  BY DEF Fields
<1>3. o.command \in Seq(Text) /\ SelectionOf(o) \in Selections /\ OutputsOf(o) \in Seq(Outputs)
  BY OriginType
<1>4. <<>> \in Seq(Outputs)
  OBVIOUS
<1>. QED
  BY <1>1, <1>2, <1>3, <1>4

\* A list of one hash is not too long for a tree.
LEMMA OneFits == 0 <= Power[MaxDepth] /\ 1 <= Power[MaxDepth]
<1>1. MaxDepth \in 0 .. MaxDepth
  BY AttestationConstantsOK
<1>. QED
  BY <1>1, PowerType

\* A document as it was written can be parsed,
LEMMA DocumentParsed ==
  ASSUME NEW v \in Versions, NEW o \in Origins, NEW d, d = Document(v, o)
  PROVE  Parsed(d)
<1>1. d = Fields(v, o)
  BY DocumentIs
<1>2. /\ d.command \in Seq(Text) /\ d.output_selection \in Selections
      /\ d.outputs \in Seq(Outputs) /\ d.version = v /\ d.tree = TreeIn(v, o)
  BY <1>1, FieldsType
<1>3. d = [n \in FieldNames |-> d[n]]
  BY <1>1 DEF Fields, FieldNames
<1>4. /\ o.leaves \in Seq(Ops) /\ Len(o.leaves) \in Nat /\ Len(o.leaves) <= Power[MaxDepth]
  BY OriginType
<1>5. IsTree(NewTreeOf(o))
  BY <1>4 DEF NewTreeOf, IsTree, TreeNames
<1>6. IsTree(OldTreeOf(o))
  <2>1. Len(<<>>) = 0
    OBVIOUS
  <2>. QED
    BY <1>4, <2>1, OneFits DEF OldTreeOf, IsTree, TreeNames
<1>. QED
  BY <1>2, <1>3, <1>5, <1>6 DEF Parsed, TreeIn

\* also with a part replaced by what is at hand.
LEMMA PartReplaced ==
  ASSUME NEW f, Parsed(f), NEW part \in Parts, NEW value,
         \/ value \in Spare[part]
         \/ part \in {"leaves", "nodes"} /\ value = <<f.root_hash>>
  PROVE  Parsed(WithPart(f, part, value))
<1>. DEFINE g == WithPart(f, part, value)
<1>1. ASSUME NEW d \in Documents PROVE Parsed(d)
  BY <1>1, DocumentParsed DEF Documents
<1>2. /\ DOMAIN f = FieldNames /\ f.tree = [n \in TreeNames |-> f.tree[n]]
      /\ DOMAIN f.tree = TreeNames
  BY DEF Parsed, IsTree
<1>0. /\ Spare["version"] = Versions
      /\ Spare["command"] = {d.command : d \in Documents}
      /\ Spare["output_selection"] = {d.output_selection : d \in Documents}
      /\ Spare["outputs"] = {d.outputs : d \in Documents}
      /\ Spare["leaf_count"] = {d.tree.leaf_count : d \in Documents}
      /\ Spare["leaves"] = {l \in HashLists : Len(l) <= Power[MaxDepth]}
  BY DEF Spare
<1>3. /\ part = "version" => value \in Versions
      /\ part = "command" => value \in Seq(Text)
      /\ part = "output_selection" => value \in Selections
      /\ part = "outputs" => value \in Seq(Outputs)
      /\ part = "leaf_count" => value \in Nat
  <2>1. part = "version" => value \in Versions
    BY <1>0
  <2>2. part = "command" => value \in Seq(Text)
    BY <1>0, <1>1 DEF Parsed
  <2>3. part = "output_selection" => value \in Selections
    BY <1>0, <1>1 DEF Parsed
  <2>4. part = "outputs" => value \in Seq(Outputs)
    BY <1>0, <1>1 DEF Parsed
  <2>5. part = "leaf_count" => value \in Nat
    <3>1. \A d \in Documents : IsTree(d.tree)
      BY <1>1 DEF Parsed
    <3>2. \A d \in Documents : d.tree.leaf_count \in Nat
      BY <3>1 DEF IsTree
    <3>. QED
      BY <1>0, <3>2
  <2>. QED
    BY <2>1, <2>2, <2>3, <2>4, <2>5
<1>4. part = "leaves" => Len(value) <= Power[MaxDepth]
  <2>1. Len(<<f.root_hash>>) = 1
    OBVIOUS
  <2>2. value = <<f.root_hash>> => Len(value) <= Power[MaxDepth]
    BY <2>1, OneFits
  <2>. QED
    BY <1>0, <2>2
<1>5. CASE part \in FieldNames
  <2>1. g = [f EXCEPT ![part] = value] /\ part # "tree"
    BY <1>2, <1>5 DEF WithPart, Parts, Spare
  <2>2. g = [n \in FieldNames |-> g[n]] /\ \A n \in FieldNames : g[n] = IF n = part THEN value ELSE f[n]
    BY <1>2, <2>1
  <2>. HIDE DEF g
  <2>3. /\ g.version = IF part = "version" THEN value ELSE f.version
        /\ g.command = IF part = "command" THEN value ELSE f.command
        /\ g.output_selection = IF part = "output_selection" THEN value ELSE f.output_selection
        /\ g.outputs = IF part = "outputs" THEN value ELSE f.outputs
        /\ g.tree = f.tree
    BY <2>1, <2>2 DEF FieldNames
  <2>. QED
    <3>1. Parsed(g)
      BY <1>3, <2>2, <2>3 DEF Parsed
    <3>. QED
      BY <3>1 DEF g
<1>6. CASE part \notin FieldNames
  <2>. DEFINE t == g.tree
  <2>1. g = [f EXCEPT !.tree[part] = value] /\ part \in TreeNames
    BY <1>2, <1>6 DEF WithPart, Parts, Spare, FieldNames, TreeNames
  <2>2. g = [n \in FieldNames |-> g[n]] /\ \A n \in FieldNames : n # "tree" => g[n] = f[n]
    BY <1>2, <2>1
  <2>3. t = [f.tree EXCEPT ![part] = value]
    BY <1>2, <2>1 DEF FieldNames
  <2>. HIDE DEF g, t
  <2>4. t = [n \in TreeNames |-> t[n]] /\ \A n \in TreeNames : t[n] = IF n = part THEN value ELSE f.tree[n]
    BY <1>2, <2>3
  <2>5. /\ t.leaves = IF part = "leaves" THEN value ELSE f.tree.leaves
        /\ t.leaf_count = IF part = "leaf_count" THEN value ELSE f.tree.leaf_count
    BY <2>4 DEF TreeNames
  <2>6. IsTree(t)
    BY <1>3, <1>4, <2>4, <2>5 DEF Parsed, IsTree
  <2>7. g.version = f.version /\ g.command = f.command /\ g.outputs = f.outputs
        /\ g.output_selection = f.output_selection
    BY <2>2 DEF FieldNames
  <2>. QED
    <3>1. Parsed(g)
      BY <2>2, <2>6, <2>7 DEF Parsed, t
    <3>. QED
      BY <3>1 DEF g
<1>. QED
  BY <1>5, <1>6

\* FileInv holds of no files,
LEMMA FileInit == Init => FileInv
  BY DEF Init, FileInv

\* and every step keeps it: files are written whole or replaced part by part.
LEMMA FileNext == FileInv /\ [Next]_vars => FileInv'
<1> SUFFICES ASSUME FileInv, [Next]_vars
             PROVE  FileInv'
  OBVIOUS
<1>1. ASSUME NEW s \in Slots, NEW v \in Versions, NEW o \in Origins, Write(s, v, o)
      PROVE  FileInv'
  <2>1. /\ use' = use /\ file' = [file EXCEPT ![s] = Document(v, o)]
        /\ origin' = [origin EXCEPT ![s] = [version |-> v, of |-> o]]
    BY <1>1 DEF Write
  <2>2. file' = [t \in Slots |-> file'[t]] /\ origin' = [t \in Slots |-> origin'[t]]
    BY <2>1 DEF FileInv
  <2>3. ASSUME NEW t \in Slots, file'[t] # NoFile
        PROVE  /\ origin'[t] \in [version : Versions, of : Origins] /\ Parsed(file'[t])
               /\ use' # "pin" => file'[t] = Document(origin'[t].version, origin'[t].of)
    <3>1. CASE t = s
      <4>1. file'[t] = Document(v, o) /\ origin'[t] = [version |-> v, of |-> o]
        BY <2>1, <3>1 DEF FileInv
      <4>2. Parsed(file'[t])
        BY <4>1, DocumentParsed
      <4>. QED
        BY <4>1, <4>2
    <3>2. CASE t # s
      <4>1. file'[t] = file[t] /\ origin'[t] = origin[t]
        BY <2>1, <3>2 DEF FileInv
      <4>. QED
        BY <2>1, <2>3, <4>1 DEF FileInv
    <3>. QED
      BY <3>1, <3>2
  <2>. QED
    BY <2>2, <2>3 DEF FileInv
<1>2. ASSUME NEW s \in Slots, NEW part \in Parts, Damage(s, part)
      PROVE  FileInv'
  <2>1. /\ use = "pin" /\ file[s] # NoFile /\ use' = use /\ origin' = origin
    BY <1>2 DEF Damage
  <2>2. PICK value : /\ \/ value \in Spare[part]
                        \/ part \in {"leaves", "nodes"} /\ value = <<file[s].root_hash>>
                     /\ file' = [file EXCEPT ![s] = WithPart(file[s], part, value)]
    BY <1>2 DEF Damage, FileInv
  <2>3. file' = [t \in Slots |-> file'[t]] /\ origin' = [t \in Slots |-> origin'[t]]
    BY <2>1, <2>2 DEF FileInv
  <2>4. file'[s] = WithPart(file[s], part, value) /\ Parsed(file[s])
    BY <2>1, <2>2 DEF FileInv
  <2>5. Parsed(file'[s])
    BY <2>2, <2>4, PartReplaced
  <2>6. ASSUME NEW t \in Slots, t # s PROVE file'[t] = file[t]
    BY <2>2, <2>6 DEF FileInv
  <2>7. ASSUME NEW t \in Slots, file'[t] # NoFile
        PROVE  origin'[t] \in [version : Versions, of : Origins] /\ Parsed(file'[t])
    <3>1. CASE t = s
      BY <2>1, <2>5, <3>1 DEF FileInv
    <3>2. CASE t # s
      BY <2>1, <2>6, <2>7, <3>2 DEF FileInv
    <3>. QED
      BY <3>1, <3>2
  <2>. QED
    BY <2>1, <2>3, <2>7 DEF FileInv
<1>3. CASE UNCHANGED <<use, fileVars>>
  BY <1>3 DEF FileInv, fileVars
<1>4. GenerateKey \/ WriteSigningKey \/ WriteVerifyingKey \/ RemoveKey \/ Sign \/ CoSign
        => UNCHANGED <<use, fileVars>>
  BY DEF GenerateKey, WriteSigningKey, WriteVerifyingKey, RemoveKey, Sign, CoSign, fileVars
<1>5. ASSUME NEW o \in Origins, DamageEnvelope(o) PROVE UNCHANGED <<use, fileVars>>
  BY <1>5 DEF DamageEnvelope, fileVars
<1>6. UNCHANGED vars => UNCHANGED <<use, fileVars>>
  BY DEF vars, fileVars
<1> QED
  BY <1>1, <1>2, <1>3, <1>4, <1>5, <1>6 DEF Next

\* The leaves of a tree without nodes are read from its leaves, whatever its
\* leaf_count says.
LEMMA LeavesRead ==
  ASSUME NEW t, IsTree(t), t.nodes = <<>>
  PROVE  leaf_hashes(t) = t.leaves /\ tree_root(t) = root_from_leaves(t.leaves)
<1>1. CASE t.leaves # <<>>
  BY <1>1 DEF leaf_hashes, tree_root
<1>2. CASE t.leaves = <<>>
  <2>1. t.leaf_count \in Nat /\ t = [leaves |-> <<>>, nodes |-> <<>>, leaf_count |-> t.leaf_count]
    BY <1>2 DEF IsTree, TreeNames
  <2>. QED
    BY <1>2, <2>1, LostTree
<1>. QED
  BY <1>1, <1>2

\* A file with a commitment that is read has the version of the document with
\* that root; so has an old one, if its root is that of operations.
LEMMA PinnedVersion ==
  ASSUME NEW v \in Versions, NEW o \in Origins, NEW f, Parsed(f), validate(f),
         f.root_hash = CommitmentOf(v, o), f.version # "0.1.0" \/ OperationsOnly(f)
  PROVE  f.version = v
<1>1. /\ v = "0.3.0" => f.root_hash[1] = "v0.3"
      /\ v = "0.2.1" => f.root_hash[1] = "v0.2"
      /\ v = "0.1.0" => f.root_hash[1] \in {"op", "pair"}
  BY CommitmentKind
<1>2. CASE f.version = "0.3.0"
  <2>1. f.root_hash[1] = "v0.3"
    BY <1>2 DEF validate, commitment_hash_v0_3
  <2>. QED
    BY <1>1, <1>2, <2>1 DEF Versions
<1>3. CASE f.version = "0.2.1"
  <2>1. f.root_hash[1] = "v0.2"
    BY <1>3 DEF validate, commitment_hash_v0_2
  <2>. QED
    BY <1>1, <1>3, <2>1 DEF Versions
<1>4. CASE f.version = "0.1.0"
  <2>1. f.tree.nodes = <<>> /\ f.tree.leaves \in Seq(Ops) /\ IsTree(f.tree)
    BY <1>4 DEF OperationsOnly, Ops, Parsed
  <2>2. f.root_hash = root_from_leaves(f.tree.leaves)
    BY <1>4, <2>1, LeavesRead DEF validate
  <2>3. f.root_hash[1] \in {"op", "pair"}
    BY <2>1, <2>2, RootKind DEF IsTree
  <2>. QED
    BY <1>1, <1>4, <2>3 DEF Versions
<1>. QED
  BY <1>2, <1>3, <1>4 DEF Parsed, Versions

\* What a file with a pinned root says, whichever parts of it were replaced.
LEMMA PinnedFile ==
  ASSUME NEW v \in Versions, NEW o \in Origins, NEW f, Parsed(f), validate(f),
         f.root_hash = CommitmentOf(v, o)
  PROVE  /\ f.version # "0.1.0" =>
              /\ f.version = v /\ f.command = o.command /\ f.outputs = OutputsOf(o)
              /\ f.output_selection = SelectionOf(o) /\ process_root_of(f) = RootOf(o)
         /\ OperationsOnly(f) => f.version = v /\ leaf_hashes(f.tree) = o.leaves
<1>1. /\ f.command \in Seq(Text) /\ f.output_selection \in Selections
      /\ f.outputs \in Seq(Outputs) /\ IsTree(f.tree)
  BY DEF Parsed
<1>2. ASSUME f.version # "0.1.0"
      PROVE  /\ f.version = v /\ f.command = o.command /\ f.outputs = OutputsOf(o)
             /\ f.output_selection = SelectionOf(o) /\ process_root_of(f) = RootOf(o)
  <2>1. f.version = v
    BY <1>2, PinnedVersion
  <2>. QED
    BY <1>1, <1>2, <2>1, ValidatedBinds
<1>3. ASSUME OperationsOnly(f)
      PROVE  f.version = v /\ leaf_hashes(f.tree) = o.leaves
  <2>1. f.version = v
    BY <1>3, PinnedVersion
  <2>2. tree_root(f.tree) = RootOf(o)
    BY <1>1, <2>1, ValidatedBinds
  <2>3. /\ f.tree.leaves \in Seq(Ops) /\ Len(f.tree.leaves) <= Power[MaxDepth]
        /\ leaf_hashes(f.tree) = f.tree.leaves
        /\ root_from_leaves(f.tree.leaves) = RootOf(o)
    BY <1>1, <1>3, <2>2, LeavesRead DEF OperationsOnly, Ops, IsTree
  <2>4. o.leaves \in Seq(Ops) /\ Len(o.leaves) <= Power[MaxDepth]
    BY OriginType
  <2>. QED
    BY <2>1, <2>3, <2>4, RootInjective DEF RootOf
<1>. QED
  BY <1>2, <1>3

\* verify --expected-root: whichever parts of a file were replaced, and by
\* what, one that is read and has the pinned root says what was attested as far
\* as the root covers it.
THEOREM PinnedRootMeansSame == Spec => []PinnedMeansSame
<1>1. FileInv => PinnedMeansSame
  <2>. DEFINE f == file["expected"]
              v == origin["expected"].version
              o == origin["expected"].of
              d == Document(v, o)
  <2>. SUFFICES ASSUME FileInv, use = "pin", f # NoFile, validate(f), f.root_hash = d.root_hash
                PROVE  /\ f.version # "0.1.0" =>
                            /\ f.version = v /\ f.command = d.command /\ f.outputs = d.outputs
                            /\ f.output_selection = d.output_selection
                            /\ process_root_of(f) = process_root_of(d)
                       /\ OperationsOnly(f) =>
                            f.version = v /\ leaf_hashes(f.tree) = o.leaves
    BY DEF PinnedMeansSame
  <2>1. v \in Versions /\ o \in Origins /\ Parsed(f)
    BY DEF FileInv, Slots
  <2>. HIDE DEF f, v, o
  <2>2. d = Fields(v, o) /\ process_root_of(d) = RootOf(o)
    BY <2>1, DocumentRead
  <2>3. /\ d.command = o.command /\ d.root_hash = CommitmentOf(v, o)
        /\ v # "0.1.0" => d.output_selection = SelectionOf(o) /\ d.outputs = OutputsOf(o)
    BY <2>1, <2>2, FieldsType
  <2>. HIDE DEF d
  <2>. QED
    BY <2>1, <2>2, <2>3, PinnedFile
<1> QED
  BY <1>1, FileInit, FileNext, PTL DEF Spec

\* Leaves are in one order, so comparing their sets compares them.
LEMMA LeavesBySet ==
  ASSUME NEW o \in Origins, NEW p \in Origins
  PROVE  ToSet(o.leaves) = ToSet(p.leaves) <=> o.leaves = p.leaves
BY OriginsUnderstood

\* Two documents of one version have one root exactly if they were made from
\* the same.
LEMMA RootsMatch ==
  ASSUME NEW v \in Versions, NEW o \in Origins, NEW p \in Origins
  PROVE  CommitmentOf(v, o) = CommitmentOf(v, p) <=> SameOrigin(v, o, p)
<1>0. /\ p.command \in Seq(Text) /\ SelectionOf(p) \in Selections /\ OutputsOf(p) \in Seq(Outputs)
      /\ ToSet(OutputsOf(p)) = p.outputs /\ ToSet(OutputsOf(o)) = o.outputs
  BY OriginType
<1>1. SameOrigin(v, o, p) <=>
        /\ o.leaves = p.leaves
        /\ v # "0.1.0" => /\ o.command = p.command /\ o.outputs = p.outputs
                          /\ SelectionOf(o) = SelectionOf(p)
  BY LeavesBySet DEF SameOrigin, SelectionOf
<1>2. ASSUME SameOrigin(v, o, p) PROVE CommitmentOf(v, o) = CommitmentOf(v, p)
  <2>1. RootOf(o) = RootOf(p)
    BY <1>1, <1>2 DEF RootOf
  <2>2. o.outputs = p.outputs => OutputsOf(o) = OutputsOf(p)
    BY DEF OutputsOf
  <2>. QED
    BY <1>1, <1>2, <2>1, <2>2 DEF CommitmentOf, Versions
<1>3. ASSUME CommitmentOf(v, o) = CommitmentOf(v, p) PROVE SameOrigin(v, o, p)
  <2>1. CASE v = "0.1.0"
    <3>1. RootOf(o) = RootOf(p)
      BY <1>3, <2>1 DEF CommitmentOf
    <3>. QED
      BY <1>1, <2>1, <3>1, RootsDiffer
  <2>2. CASE v # "0.1.0"
    <3>1. \/ /\ v = "0.3.0"
             /\ CommitmentOf(v, o) = commitment_hash_v0_3(RootOf(p), p.command, SelectionOf(p),
                                                          OutputsOf(p))
          \/ /\ v = "0.2.1"
             /\ CommitmentOf(v, o) = commitment_hash_v0_2(RootOf(p), p.command, SelectionOf(p),
                                                          OutputsOf(p))
      BY <1>3, <2>2 DEF CommitmentOf, Versions
    <3>2. /\ RootOf(p) = RootOf(o) /\ p.command = o.command
          /\ SelectionOf(p) = SelectionOf(o) /\ OutputsOf(p) = OutputsOf(o)
      BY <1>0, <3>1, CommitmentBinds
    <3>3. o.leaves = p.leaves
      BY <3>2, RootsDiffer
    <3>4. o.outputs = p.outputs
      BY <1>0, <3>2
    <3>. QED
      BY <1>1, <3>2, <3>3, <3>4
  <2>. QED
    BY <2>1, <2>2
<1>. QED
  BY <1>2, <1>3

\* What diff finds between two documents.
LEMMA Compared ==
  ASSUME NEW v \in Versions, NEW o \in Origins, NEW w \in Versions, NEW p \in Origins,
         NEW e, NEW a, e = Document(v, o), a = Document(w, p)
  PROVE  /\ diff_leaf_sets(e.tree, a.tree) =
              [missing |-> ToSet(o.leaves) \ ToSet(p.leaves),
               added   |-> ToSet(p.leaves) \ ToSet(o.leaves)]
         /\ process_root_of(a) = process_root_of(e) <=> ToSet(o.leaves) = ToSet(p.leaves)
         /\ v = w => (a.root_hash = e.root_hash <=> SameOrigin(v, o, p))
         /\ v = w /\ v # "0.1.0" => (SameOrigin(v, o, p) <=> ~print_attestation_diff(e, a))
<1>1. /\ e = Fields(v, o) /\ leaf_hashes(e.tree) = o.leaves /\ process_root_of(e) = RootOf(o)
      /\ a = Fields(w, p) /\ leaf_hashes(a.tree) = p.leaves /\ process_root_of(a) = RootOf(p)
  BY DocumentRead
<1>2. diff_leaf_sets(e.tree, a.tree) =
        [missing |-> ToSet(o.leaves) \ ToSet(p.leaves),
         added   |-> ToSet(p.leaves) \ ToSet(o.leaves)]
  BY <1>1, Zenon DEF diff_leaf_sets
<1>3. process_root_of(a) = process_root_of(e) <=> ToSet(o.leaves) = ToSet(p.leaves)
  <2>1. o.leaves = p.leaves => RootOf(o) = RootOf(p)
    BY DEF RootOf
  <2>. QED
    BY <1>1, <2>1, LeavesBySet, RootsDiffer
<1>4. /\ e.root_hash = CommitmentOf(v, o) /\ a.root_hash = CommitmentOf(w, p)
      /\ e.command = o.command /\ a.command = p.command
      /\ v # "0.1.0" => e.output_selection = SelectionOf(o) /\ e.outputs = OutputsOf(o)
      /\ w # "0.1.0" => a.output_selection = SelectionOf(p) /\ a.outputs = OutputsOf(p)
      /\ e.tree = TreeIn(v, o) /\ a.tree = TreeIn(w, p)
  BY <1>1, FieldsType
<1>5. ASSUME v = w PROVE a.root_hash = e.root_hash <=> SameOrigin(v, o, p)
  BY <1>4, <1>5, RootsMatch
<1>6. ASSUME v = w, v # "0.1.0"
      PROVE  SameOrigin(v, o, p) <=> ~print_attestation_diff(e, a)
  <2>. DEFINE E == ToSet(o.leaves)
              A == ToSet(p.leaves)
  <2>1. e.tree.leaf_count = Len(o.leaves) /\ a.tree.leaf_count = Len(p.leaves)
    BY <1>4 DEF TreeIn, OldTreeOf, NewTreeOf
  <2>2. print_output_delta(e.outputs, a.outputs) <=> o.outputs # p.outputs
    BY <1>4, <1>6, OriginType DEF print_output_delta
  <2>3. diff_leaf_sets(e.tree, a.tree) # [missing |-> {}, added |-> {}] <=> E # A
    <3>. HIDE DEF E, A
    <3>1. diff_leaf_sets(e.tree, a.tree) = [missing |-> E \ A, added |-> A \ E]
      BY <1>2 DEF E, A
    <3>2. E = A <=> E \ A = {} /\ A \ E = {}
      OBVIOUS
    <3>. QED
      BY <3>1, <3>2
  <2>4. SameOrigin(v, o, p) <=> /\ E = A /\ o.command = p.command /\ o.outputs = p.outputs
                                /\ SelectionOf(o) = SelectionOf(p)
    BY <1>6 DEF SameOrigin, SelectionOf
  <2>5. E = A => Len(o.leaves) = Len(p.leaves)
    BY LeavesBySet
  <2>6. print_attestation_diff(e, a) <=>
          \/ o.command # p.command \/ SelectionOf(o) # SelectionOf(p) \/ o.outputs # p.outputs
          \/ Len(o.leaves) # Len(p.leaves) \/ E # A
    BY <1>4, <1>6, <2>1, <2>2, <2>3 DEF print_attestation_diff
  <2>. QED
    BY <2>4, <2>5, <2>6, Zenon
<1>. QED
  BY <1>2, <1>3, <1>5, <1>6

\* diff, verify and the stability report (main.rs, stability.rs) tell the truth
\* about any two documents, however their trees are stored.
THEOREM DiffIsTruthful == Spec => []DiffTruthful
<1>1. FileInv => DiffTruthful
  <2>. DEFINE e == file["expected"]
              a == file["actual"]
              v == origin["expected"].version
              w == origin["actual"].version
              o == origin["expected"].of
              p == origin["actual"].of
              report == analyze(e, a)
  <2>. SUFFICES ASSUME FileInv, use = "diff", e # NoFile, a # NoFile
                PROVE  /\ validate(e) /\ validate(a)
                       /\ diff_leaf_sets(e.tree, a.tree) =
                            [missing |-> ToSet(o.leaves) \ ToSet(p.leaves),
                             added   |-> ToSet(p.leaves) \ ToSet(o.leaves)]
                       /\ report.process_root_match <=> ToSet(o.leaves) = ToSet(p.leaves)
                       /\ e.version = a.version =>
                            /\ report.root_match <=> SameOrigin(e.version, o, p)
                            /\ e.version # "0.1.0" =>
                                 (report.root_match <=> ~print_attestation_diff(e, a))
    BY Zenon DEF DiffTruthful
  <2>1. "expected" \in Slots /\ "actual" \in Slots
    BY DEF Slots
  <2>2. /\ v \in Versions /\ o \in Origins /\ e = Document(v, o)
        /\ w \in Versions /\ p \in Origins /\ a = Document(w, p)
    BY <2>1 DEF FileInv
  <2>3. /\ report.root_match <=> a.root_hash = e.root_hash
        /\ report.process_root_match <=> process_root_of(a) = process_root_of(e)
    BY DEF analyze
  <2>. HIDE DEF e, a, v, w, o, p, report
  <2>4. validate(e) /\ validate(a) /\ e = Fields(v, o) /\ a = Fields(w, p)
    BY <2>2, DocumentRead
  <2>5. e.version = v /\ a.version = w
    BY <2>2, <2>4, FieldsType
  <2>6. /\ diff_leaf_sets(e.tree, a.tree) =
             [missing |-> ToSet(o.leaves) \ ToSet(p.leaves),
              added   |-> ToSet(p.leaves) \ ToSet(o.leaves)]
        /\ process_root_of(a) = process_root_of(e) <=> ToSet(o.leaves) = ToSet(p.leaves)
        /\ v = w => (a.root_hash = e.root_hash <=> SameOrigin(v, o, p))
        /\ v = w /\ v # "0.1.0" => (SameOrigin(v, o, p) <=> ~print_attestation_diff(e, a))
    BY <2>2, Compared
  <2>. QED
    BY <2>3, <2>4, <2>5, <2>6, Zenon
<1> QED
  BY <1>1, FileInit, FileNext, PTL DEF Spec

-----------------------------------------------------------------------------
\* The envelope (dsse.rs).

\* What sign puts into the envelope.
PayloadOf(v, o) ==
  Serialized([Document(v, o) EXCEPT !.process_root = process_root_of(Document(v, o))])
LostTreeOf(o) == [leaves |-> <<>>, nodes |-> <<>>, leaf_count |-> Len(o.leaves)]

\* The fields of a signed payload; an old document loses its nodes.
LEMMA PayloadIs ==
  ASSUME NEW v \in Versions, NEW o \in Origins, NEW q, q = PayloadOf(v, o)
  PROVE  /\ q.version = v /\ q.process_root = RootOf(o) /\ q.command = o.command
         /\ q.root_hash = CommitmentOf(v, o)
         /\ v # "0.1.0" => /\ q.output_selection = SelectionOf(o) /\ q.outputs = OutputsOf(o)
                           /\ q.tree = NewTreeOf(o)
         /\ v = "0.1.0" => q.tree = LostTreeOf(o)
<1>. DEFINE d == Document(v, o)
<1>1. d = Fields(v, o) /\ process_root_of(d) = RootOf(o)
  BY DocumentRead
<1>2. q = [[d EXCEPT !.process_root = RootOf(o)] EXCEPT !.tree.nodes = <<>>]
  BY <1>1 DEF PayloadOf, Serialized
<1>3. q = [version |-> d.version, process_root |-> RootOf(o), command |-> d.command,
           root_hash |-> d.root_hash, output_selection |-> d.output_selection,
           outputs |-> d.outputs, tree |-> [d.tree EXCEPT !.nodes = <<>>]]
  BY <1>1, <1>2 DEF Fields
<1>4. /\ d.version = v /\ d.root_hash = CommitmentOf(v, o) /\ d.tree = TreeIn(v, o)
      /\ d.command = o.command
      /\ v # "0.1.0" => d.output_selection = SelectionOf(o) /\ d.outputs = OutputsOf(o)
  BY <1>1, FieldsType
<1>5. /\ q.version = d.version /\ q.process_root = RootOf(o) /\ q.command = d.command
      /\ q.root_hash = d.root_hash /\ q.output_selection = d.output_selection
      /\ q.outputs = d.outputs /\ q.tree = [TreeIn(v, o) EXCEPT !.nodes = <<>>]
  BY <1>3, <1>4
<1>6. /\ v # "0.1.0" => [TreeIn(v, o) EXCEPT !.nodes = <<>>] = NewTreeOf(o)
      /\ v = "0.1.0" => [TreeIn(v, o) EXCEPT !.nodes = <<>>] = LostTreeOf(o)
  BY DEF TreeIn, NewTreeOf, OldTreeOf, LostTreeOf
<1>. QED
  BY <1>4, <1>5, <1>6

\* What is read from it: all of it, except for an old document with operations.
LEMMA PayloadRead ==
  ASSUME NEW v \in Versions, NEW o \in Origins, NEW q, q = PayloadOf(v, o)
  PROVE  /\ validate(q) => leaf_hashes(q.tree) = o.leaves
         /\ v # "0.1.0" \/ o.leaves = <<>> => validate(q)
<1>0. o.leaves \in Seq(Ops) /\ Len(o.leaves) <= Power[MaxDepth] /\ Len(o.leaves) \in Nat
  BY OriginType
<1>1. /\ q.version = v /\ q.process_root = RootOf(o) /\ q.command = o.command
      /\ q.root_hash = CommitmentOf(v, o)
      /\ v # "0.1.0" => /\ q.output_selection = SelectionOf(o) /\ q.outputs = OutputsOf(o)
                        /\ q.tree = NewTreeOf(o)
      /\ v = "0.1.0" => q.tree = LostTreeOf(o)
  BY PayloadIs
<1>2. CASE v = "0.1.0"
  <2>1. leaf_hashes(q.tree) = <<>> /\ tree_root(q.tree) = root_from_leaves(<<>>)
    BY <1>0, <1>1, <1>2, LostTree DEF LostTreeOf
  <2>2. validate(q) <=> RootOf(o) = root_from_leaves(<<>>)
    BY <1>1, <1>2, <2>1 DEF validate, CommitmentOf
  <2>3. RootOf(o) = root_from_leaves(<<>>) <=> o.leaves = <<>>
    BY <1>0, RootKind DEF RootOf
  <2>. QED
    BY <1>2, <2>1, <2>2, <2>3
<1>3. CASE v # "0.1.0"
  <2>1. leaf_hashes(q.tree) = o.leaves /\ tree_root(q.tree) = RootOf(o)
    BY <1>0, <1>1, <1>3, NewTree DEF NewTreeOf, RootOf
  <2>2. process_root_of(q) = RootOf(o)
    BY <1>1, <2>1 DEF process_root_of
  <2>3. validate(q)
    BY <1>1, <1>3, <2>1, <2>2 DEF validate, CommitmentOf, Versions
  <2>. QED
    BY <2>1, <2>3
<1>. QED
  BY <1>2, <1>3

\* Adding a second signature.
LEMMA PairUp ==
  ASSUME NEW x, NEW y
  PROVE  <<x>> \o <<y>> = <<x, y>>
<1>. DEFINE S == {x, y}
            a == <<x>>
            b == <<y>>
            c == <<x, y>>
<1>1. /\ a \in Seq(S) /\ b \in Seq(S) /\ c \in Seq(S) /\ Len(a) = 1 /\ Len(b) = 1 /\ Len(c) = 2
      /\ a[1] = x /\ b[1] = y /\ c[1] = x /\ c[2] = y
  OBVIOUS
<1>. HIDE DEF S, a, b, c
<1>2. /\ a \o b \in Seq(S) /\ Len(a \o b) = Len(a) + Len(b)
      /\ \A i \in 1 .. Len(a) + Len(b) :
           (a \o b)[i] = IF i <= Len(a) THEN a[i] ELSE b[i - Len(a)]
  BY <1>1, ConcatProperties
<1>. DEFINE e == a \o b
<1>3. e \in Seq(S) /\ Len(e) = Len(c) /\ e[1] = c[1] /\ e[2] = c[2]
  BY <1>1, <1>2
<1>. HIDE DEF e
<1>4. \A i \in 1 .. Len(e) : e[i] = c[i]
  BY <1>1, <1>3
<1>5. e = c
  BY <1>1, <1>3, <1>4, SeqEqual
<1>. QED
  BY <1>5 DEF a, b, c, e

\* Whatever becomes of the payload, the signature is one over what was signed.
SignedBy(k, v, o) ==
  /\ envelope.version = v /\ signed.key = k /\ signed.origin = o
  /\ signed.legacy <=> v = "0.1.0"
  /\ \/ envelope.signatures = <<Signature(k, PayloadOf(v, o))>>
     \/ envelope.signatures = <<NoSignature, Signature(k, PayloadOf(v, o))>>

EnvelopeInv ==
  envelope # NoFile =>
    /\ signed.key \notin {Absent, Partial}
    /\ \E v \in Versions, o \in Origins : SignedBy(signed.key, v, o)

\* EnvelopeInv holds of no envelope,
LEMMA EnvelopeInit == Init => EnvelopeInv
  BY DEF Init, EnvelopeInv

\* and signing, co-signing and damage keep it.
LEMMA EnvelopeNext == FileInv /\ EnvelopeInv /\ [Next]_vars => EnvelopeInv'
<1> SUFFICES ASSUME FileInv, EnvelopeInv, [Next]_vars
             PROVE  EnvelopeInv'
  OBVIOUS
<1>1. CASE Sign
  <2>. PICK v \in Versions, o \in Origins, k \in {private_key} :
         /\ v = origin["expected"].version /\ o = origin["expected"].of
         /\ file["expected"] = Document(v, o)
    <3>1. "expected" \in Slots
      BY DEF Slots
    <3>. QED
      BY <1>1, <3>1 DEF Sign, FileInv
  <2>. DEFINE d == Document(v, o)
              q == PayloadOf(v, o)
  <2>1. v \in Versions /\ o \in Origins
    OBVIOUS
  <2>2. /\ k \notin {Absent, Partial}
        /\ envelope' = [version |-> q.version, payload |-> q, signatures |-> <<Signature(k, q)>>]
        /\ signed' = [origin |-> o, legacy |-> d.tree.nodes # <<>>, key |-> k]
    BY <1>1, <2>1 DEF Sign, PayloadOf
  <2>3. d.tree.nodes # <<>> <=> v = "0.1.0"
    <3>1. d.tree = TreeIn(v, o)
      BY <2>1, DocumentIs, FieldsType
    <3>2. CASE v = "0.1.0"
      <4>1. OldTreeOf(o).nodes # <<>>
        BY <2>1, OriginType, LegacyTree DEF OldTreeOf
      <4>. QED
        BY <3>1, <3>2, <4>1 DEF TreeIn
    <3>3. CASE v # "0.1.0"
      BY <3>1, <3>3 DEF TreeIn, NewTreeOf
    <3>. QED
      BY <3>2, <3>3
  <2>4. q.version = v
    BY <2>1, PayloadIs
  <2>5. /\ envelope'.version = v /\ envelope'.signatures = <<Signature(k, q)>>
        /\ signed'.key = k /\ signed'.origin = o /\ (signed'.legacy <=> v = "0.1.0")
    BY <2>2, <2>3, <2>4
  <2>6. SignedBy(k, v, o)'
    BY <2>5, Zenon DEF SignedBy
  <2>. QED
    BY <2>1, <2>2, <2>5, <2>6 DEF EnvelopeInv
<1>2. CASE CoSign
  <2>1. /\ envelope # NoFile /\ Len(envelope.signatures) = 1 /\ signed' = signed
        /\ envelope' = [envelope EXCEPT !.signatures = <<NoSignature>> \o @]
    BY <1>2 DEF CoSign
  <2>2. PICK v \in Versions, o \in Origins : SignedBy(signed.key, v, o)
    BY <2>1 DEF EnvelopeInv
  <2>. DEFINE g == Signature(signed.key, PayloadOf(v, o))
  <2>3. envelope.signatures = <<g>> \/ envelope.signatures = <<NoSignature, g>>
    BY <2>2 DEF SignedBy
  <2>4. envelope.signatures = <<g>>
    <3>. HIDE DEF g
    <3>1. Len(<<NoSignature, g>>) = 2
      OBVIOUS
    <3>. QED
      BY <2>1, <2>3, <3>1
  <2>5. <<NoSignature>> \o <<g>> = <<NoSignature, g>>
    BY PairUp
  <2>6. envelope'.version = envelope.version /\ envelope'.signatures = <<NoSignature, g>>
    BY <2>1, <2>4, <2>5
  <2>. QED
    BY <2>1, <2>2, <2>6 DEF EnvelopeInv, SignedBy
<1>3. ASSUME NEW o \in Origins, DamageEnvelope(o)
      PROVE  EnvelopeInv'
  <2>1. PICK field \in {"command", "tree"} :
          envelope' = [envelope EXCEPT !.payload[field] = Document("0.3.0", o)[field]]
    BY <1>3 DEF DamageEnvelope
  <2>2. signed' = signed /\ envelope # NoFile
    BY <1>3 DEF DamageEnvelope
  <2>3. PICK v \in Versions, p \in Origins : SignedBy(signed.key, v, p)
    BY <2>2 DEF EnvelopeInv
  <2>4. envelope'.version = envelope.version /\ envelope'.signatures = envelope.signatures
    BY <2>1
  <2>. QED
    BY <2>2, <2>3, <2>4 DEF EnvelopeInv, SignedBy
<1>4. CASE UNCHANGED envelopeVars
  BY <1>4 DEF EnvelopeInv, SignedBy, envelopeVars
<1>5. ASSUME NEW s \in Slots,
             \/ \E v \in Versions, o \in Origins : Write(s, v, o)
             \/ \E part \in Parts : Damage(s, part)
      PROVE  UNCHANGED envelopeVars
  BY <1>5 DEF Write, Damage
<1>6. GenerateKey \/ WriteSigningKey \/ WriteVerifyingKey \/ RemoveKey => UNCHANGED envelopeVars
  BY DEF GenerateKey, WriteSigningKey, WriteVerifyingKey, RemoveKey
<1>7. UNCHANGED vars => UNCHANGED envelopeVars
  BY DEF vars
<1> QED
  BY <1>1, <1>2, <1>3, <1>4, <1>5, <1>6, <1>7 DEF Next

\* verify-signature (main.rs, dsse.rs) accepts what was signed, and nothing else,
\* next to whatever other signatures: the old documents whose operations are lost
\* on the way are the only ones that cannot be verified after signing.
THEOREM SignaturesAreTruthful == Spec => []SignatureTruthful
<1>1. EnvelopeInv => SignatureTruthful
  <2>. SUFFICES ASSUME EnvelopeInv PROVE SignatureTruthful
    OBVIOUS
  <2>0. CASE envelope = NoFile
    BY <2>0 DEF SignatureTruthful, VerifySignature
  <2>1. CASE envelope # NoFile
    <3>1. signed.key \notin {Absent, Partial}
      BY <2>1 DEF EnvelopeInv
    <3>2. PICK v \in Versions, o \in Origins : SignedBy(signed.key, v, o)
      BY <2>1 DEF EnvelopeInv
    <3>. DEFINE q == PayloadOf(v, o)
                k == signed.key
                g == Signature(k, q)
                m == <<envelope.version, envelope.payload>>
    <3>3. g.key = k /\ g.message = <<v, q>> /\ g = [key |-> k, message |-> <<v, q>>]
      BY PayloadIs DEF Signature
    <3>4. q.command = o.command
      BY PayloadIs
    <3>5. /\ validate(q) => leaf_hashes(q.tree) = o.leaves
          /\ v # "0.1.0" \/ o.leaves = <<>> => validate(q)
      BY PayloadRead
    <3>6. /\ envelope.version = v /\ signed.origin = o /\ (signed.legacy <=> v = "0.1.0")
          /\ envelope.signatures = <<g>> \/ envelope.signatures = <<NoSignature, g>>
      BY <3>2 DEF SignedBy
    <3>. HIDE DEF q, g, k
    <3>7. /\ \E i \in DOMAIN envelope.signatures : envelope.signatures[i] = g
          /\ \A i \in DOMAIN envelope.signatures :
               envelope.signatures[i] = g \/ envelope.signatures[i] = NoSignature
      BY <3>6
    <3>8. g.message = m <=> envelope.payload = q
      BY <3>3, <3>6
    <3>9. ASSUME VerifySignature
          PROVE  /\ signed.key = public_key
                 /\ ToSet(leaf_hashes(envelope.payload.tree)) = ToSet(signed.origin.leaves)
                 /\ envelope.payload.command = signed.origin.command
      <4>1. public_key # Absent /\ validate(envelope.payload)
        BY <3>9 DEF VerifySignature
      <4>2. PICK i \in DOMAIN envelope.signatures :
              envelope.signatures[i] = [key |-> public_key, message |-> m]
        BY <3>9 DEF VerifySignature, verify
      <4>3. envelope.signatures[i] # NoSignature
        BY <4>1, <4>2 DEF NoSignature
      <4>4. g = [key |-> public_key, message |-> m]
        BY <3>7, <4>2, <4>3
      <4>5. k = public_key /\ envelope.payload = q
        BY <3>3, <3>8, <4>4
      <4>. QED
        BY <3>4, <3>5, <3>6, <4>1, <4>5 DEF k
    <3>10. ASSUME public_key > 0, public_key = signed.key,
                  \E i \in DOMAIN envelope.signatures : envelope.signatures[i].message = m,
                  ~signed.legacy \/ signed.origin.leaves = <<>>
           PROVE  VerifySignature
      <4>1. m # <<>> /\ NoSignature.message = <<>>
        BY DEF NoSignature
      <4>2. envelope.payload = q
        BY <3>7, <3>8, <3>10, <4>1
      <4>3. validate(q)
        BY <3>5, <3>6, <3>10
      <4>4. verify(envelope, public_key)
        BY <3>3, <3>6, <3>7, <3>10, <4>2 DEF verify, k
      <4>5. public_key \notin {Absent, Partial}
        BY <3>1, <3>10
      <4>. QED
        BY <2>1, <4>2, <4>3, <4>4, <4>5 DEF VerifySignature
    <3>. QED
      BY <3>9, <3>10 DEF SignatureTruthful
  <2>. QED
    BY <2>0, <2>1
<1> QED
  BY <1>1, FileInit, FileNext, EnvelopeInit, EnvelopeNext, PTL DEF Spec

-----------------------------------------------------------------------------
\* The key files.  KeysArePair speaks of a generator at rest; what makes it
\* inductive is what the generator relies on between its check for old files and
\* its two writes.

KeyFile == {Absent, Partial} \cup (Nat \ {0})

\* At rest the readable files are a pair; before the first write there is no
\* file, before the second one only the private key that was just written.
KeyInv ==
  /\ private_key \in KeyFile /\ public_key \in KeyFile /\ drawn \in Nat
  /\ generator \in [at : {"idle", "write_signing_key", "write_verifying_key"},
                    key : Nat]
  /\ generator.at = "idle" =>
       (private_key > 0 /\ public_key > 0 => private_key = public_key)
  /\ generator.at # "idle" => generator.key > 0 /\ public_key = Absent
  /\ generator.at = "write_signing_key" => private_key = Absent
  /\ generator.at = "write_verifying_key" => private_key = generator.key

\* KeyInv holds of no key files,
LEMMA KeyInit == Init => KeyInv
  BY DEF Init, KeyInv, KeyFile, Absent, Partial

\* and every step of the generator and the user keeps it.
LEMMA KeyNext == KeyInv /\ [Next]_vars => KeyInv'
<1> SUFFICES ASSUME KeyInv, [Next]_vars
             PROVE  KeyInv'
  OBVIOUS
<1> USE DEF KeyInv, KeyFile, Absent, Partial
<1>1. CASE GenerateKey
  <2>1. /\ NoKeyFiles /\ drawn' = drawn + 1
        /\ generator' = [at |-> "write_signing_key", key |-> drawn']
        /\ private_key' = private_key /\ public_key' = public_key
    BY <1>1 DEF GenerateKey
  <2> QED
    BY <2>1 DEF NoKeyFiles
<1>2. CASE WriteSigningKey
  <2>1. generator.at = "write_signing_key" /\ public_key' = public_key /\ drawn' = drawn
    BY <1>2 DEF WriteSigningKey
  <2>2. CASE /\ private_key' = generator.key
             /\ generator' = [generator EXCEPT !.at = "write_verifying_key"]
    BY <2>1, <2>2
  <2>3. CASE /\ private_key' \in {Absent, Partial, generator.key}
             /\ generator' = [at |-> "idle", key |-> Absent]
    BY <2>1, <2>3
  <2> QED
    BY <1>2, <2>2, <2>3 DEF WriteSigningKey
<1>3. CASE WriteVerifyingKey
  <2>1. /\ generator.at = "write_verifying_key"
        /\ public_key' \in {generator.key, public_key, Partial}
        /\ generator' = [at |-> "idle", key |-> Absent]
        /\ private_key' = private_key /\ drawn' = drawn
    BY <1>3 DEF WriteVerifyingKey
  <2> QED
    BY <2>1
<1>4. CASE RemoveKey
  <2>1. /\ generator.at = "idle" /\ generator' = generator /\ drawn' = drawn
        /\ \/ private_key' = Absent /\ public_key' = public_key
           \/ public_key' = Absent /\ private_key' = private_key
    BY <1>4 DEF RemoveKey
  <2> QED
    BY <2>1
<1>5. CASE UNCHANGED keyVars
  BY <1>5 DEF keyVars
<1>6. ASSUME NEW s \in Slots,
             \/ \E v \in Versions, o \in Origins : Write(s, v, o)
             \/ \E part \in Parts : Damage(s, part)
      PROVE  UNCHANGED keyVars
  BY <1>6 DEF Write, Damage
<1>7. Sign \/ CoSign => UNCHANGED keyVars
  BY DEF Sign, CoSign
<1>8. ASSUME NEW o \in Origins, DamageEnvelope(o)
      PROVE  UNCHANGED keyVars
  BY <1>8 DEF DamageEnvelope
<1>9. UNCHANGED vars => UNCHANGED keyVars
  BY DEF vars
<1> QED
  BY <1>1, <1>2, <1>3, <1>4, <1>5, <1>6, <1>7, <1>8, <1>9 DEF Next

\* Whatever generate-key is interrupted at, and whichever of the two files is
\* cleared away and drawn anew (main.rs GenerateKey, dsse.rs), two key files
\* that can be read belong together.
THEOREM GeneratedKeysArePair == Spec => []KeysArePair
<1>1. KeyInv => KeysArePair
  BY DEF KeyInv, KeysArePair
<1> QED
  BY <1>1, KeyInit, KeyNext, PTL DEF Spec
=============================================================================
