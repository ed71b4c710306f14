----------------------------- MODULE Attestation ----------------------------
(***************************************************************************)
(* The attestation documents: the tree of hashes (merkle.rs), the          *)
(* commitment and its formats (attestation.rs), signing (dsse.rs) and the  *)
(* commands that write, read, compare and sign documents (main.rs,         *)
(* stability.rs).  SHA-256 and Ed25519 are ideal: a digest is the term it  *)
(* was computed from, a signature names its key and its message.  A text   *)
(* is the sequence of its bytes, and a length takes one place of the same  *)
(* alphabet.                                                               *)
(***************************************************************************)
EXTENDS Integers, Sequences, SequencesExt, FiniteSets

CONSTANTS
  Origins,   \* [leaves, command, artifacts, output_roots, outputs] to attest
  MaxKeys,   \* key pairs that are ever drawn
  MaxDepth,  \* levels a tree has above its leaves
  MaxChanges \* parts of a file that are not as they were written

ASSUME AttestationConstantsOK == MaxKeys \in Nat /\ MaxDepth \in Nat /\ MaxChanges \in Nat

VARIABLES
  use,          \* what the files are for: "diff", "pin" or "sign"
  file,         \* slot -> attestation file
  origin,       \* slot -> [version, of]: what its file was written from
  private_key,  \* key files: Absent, Partial or a key
  public_key,
  generator,    \* a running generate-key: [at, key]
  drawn,        \* keys drawn so far
  envelope,     \* DSSE envelope file
  signed        \* what the envelope was made from

fileVars == <<file, origin>>
keyVars == <<private_key, public_key, generator, drawn>>
envelopeVars == <<envelope, signed>>
vars == <<use, fileVars, keyVars, envelopeVars>>

Slots == {"expected", "actual"}
Absent == 0
Partial == -1
NoFile == [version |-> "none"]
NoRoot == <<>>
-----------------------------------------------------------------------------
(* merkle.rs                                                               *)

hash_pair(left, right) == <<"pair", left, right>>
Padding == hash_pair(<<"text", "padding">>, <<"text", "padding">>)

\* The powers of two a tree can be padded to.
Power[k \in 0 .. MaxDepth] == IF k = 0 THEN 1 ELSE 2 * Power[k - 1]

next_power_of_two(n) ==
  Power[CHOOSE k \in 0 .. MaxDepth : Power[k] >= n /\ \A j \in 0 .. k - 1 : Power[j] < n]

Padded(leaves) ==
  [i \in 1 .. next_power_of_two(Len(leaves)) |->
     IF i <= Len(leaves) THEN leaves[i] ELSE Padding]

Paired(level) ==
  [i \in 1 .. Len(level) \div 2 |-> hash_pair(level[2 * i - 1], level[2 * i])]

\* The levels of the tree, the padded leaves first.
Levels(leaves) ==
  LET level[k \in 0 .. MaxDepth] ==
        IF k = 0 THEN Padded(leaves) ELSE Paired(level[k - 1])
  IN  level

\* How often the leaves are paired up until one hash is left.
Depth(leaves) == CHOOSE k \in 0 .. MaxDepth : Len(Levels(leaves)[k]) = 1

root_from_leaves(leaves) ==
  IF leaves = <<>> THEN hash_pair(<<"text", "empty">>, <<"text", "empty">>)
  ELSE Levels(leaves)[Depth(leaves)][1]

\* Mutant: the first leaf is looked for one place too late.
leaf_hashes_late(tree) ==
  IF tree.leaves # <<>> \/ tree.leaf_count = 0 THEN tree.leaves
  ELSE LET first == (Len(tree.nodes) + 1) \div 2 + 1
           last == first + tree.leaf_count - 1
       IN  SubSeq(tree.nodes, first, IF last < Len(tree.nodes) THEN last ELSE Len(tree.nodes))

\* Old documents have the nodes of the tree instead of its leaves, the root
\* first and the leaves, with their padding, last.
leaf_hashes(tree) ==
  IF tree.leaves # <<>> \/ tree.leaf_count = 0 THEN tree.leaves
  ELSE LET padded_leaf_count == (Len(tree.nodes) + 1) \div 2
           first == IF padded_leaf_count = 0 THEN 1 ELSE padded_leaf_count
           last == first + tree.leaf_count - 1
       IN  SubSeq(tree.nodes, first, IF last < Len(tree.nodes) THEN last ELSE Len(tree.nodes))

\* MerkleTree::root_hash
tree_root(tree) ==
  IF tree.nodes # <<>> THEN tree.nodes[1] ELSE root_from_leaves(leaf_hashes(tree))

build_merkle_tree(leaves) ==
  [leaves |-> leaves, nodes |-> <<>>, leaf_count |-> Len(leaves)]

diff_leaf_sets(expected, actual) ==
  LET e == ToSet(leaf_hashes(expected))
      a == ToSet(leaf_hashes(actual))
  IN  [missing |-> e \ a, added |-> a \ e]
-----------------------------------------------------------------------------
(* attestation.rs                                                          *)

\* Order of texts, by their bytes.
Before(s, t) ==
  \/ s # t /\ IsPrefix(s, t)
  \/ \E i \in DOMAIN s \cap DOMAIN t :
        SubSeq(s, 1, i - 1) = SubSeq(t, 1, i - 1) /\ s[i] < t[i]

Sorted(texts) == SortSeq(texts, Before)
SortedOutputs(outputs) ==
  SetToSortSeq(outputs, LAMBDA o, p : Before(o.path, p.path))

write_commitment_str(text) == <<Len(text)>> \o text

WriteAll(texts) ==
  <<Len(texts)>> \o FlattenSeq([i \in DOMAIN texts |-> write_commitment_str(texts[i])])

encode_commitment_v0_3(process_root, command, selection, outputs) ==
  <<process_root>>
    \o WriteAll(command)
    \o write_commitment_str(selection.mode)
    \o WriteAll(selection.artifacts)
    \o WriteAll(selection.output_roots)
    \o <<Len(outputs)>>
    \o FlattenSeq([i \in DOMAIN outputs |-> write_commitment_str(outputs[i].path)
                                              \o write_commitment_str(outputs[i].hash)])

commitment_hash_v0_3(process_root, command, selection, outputs) ==
  <<"v0.3", encode_commitment_v0_3(process_root, command, selection, outputs)>>

\* JSON keeps the fields apart by itself.
commitment_hash_v0_2(process_root, command, selection, outputs) ==
  <<"v0.2", [process_root |-> process_root, command |-> command,
             output_selection |-> selection, outputs |-> outputs]>>

InferredMode == <<7>>
ExplicitMode == <<8>>
output_selection_metadata(o) ==
  [mode |-> IF o.artifacts = <<>> /\ o.output_roots = <<>> THEN InferredMode
            ELSE ExplicitMode,
   artifacts |-> Sorted(o.artifacts), output_roots |-> Sorted(o.output_roots)]

Text == Seq(Nat)
Selections == [mode : Text, artifacts : Seq(Text), output_roots : Seq(Text)]
Outputs == [path : Text, hash : Text]

\* What is attested: the hash of an operation is none of the hashes of a tree,
\* the tree is deep enough, sorting keeps what it sorts, and the leaves are the
\* sorted hashes of distinct operations, so that a set of them has one order.
ASSUME OriginsUnderstood ==
  \A o \in Origins :
    /\ o.leaves \in Seq({"op"} \X Nat) /\ Len(o.leaves) <= Power[MaxDepth]
    /\ o.command \in Seq(Text) /\ output_selection_metadata(o) \in Selections
    /\ SortedOutputs(o.outputs) \in Seq(Outputs)
    /\ ToSet(SortedOutputs(o.outputs)) = o.outputs
    /\ \A p \in Origins : ToSet(o.leaves) = ToSet(p.leaves) => o.leaves = p.leaves

new_with_outputs(tree, o) ==
  LET process_root == tree_root(tree)
      selection == output_selection_metadata(o)
      outputs == SortedOutputs(o.outputs)
  IN  [version |-> "0.3.0", process_root |-> process_root, command |-> o.command,
       root_hash |-> commitment_hash_v0_3(process_root, o.command, selection, outputs),
       output_selection |-> selection, outputs |-> outputs, tree |-> tree]

\* serde: the nodes are never written.
Serialized(att) == [att EXCEPT !.tree.nodes = <<>>]

\* What earlier releases wrote: 0.1.0 all nodes, level by level from the root
\* down, and no outputs; 0.2.1 no process root.
LegacyNodes(leaves) ==
  IF leaves = <<>> THEN <<root_from_leaves(leaves)>>
  ELSE FlattenSeq([k \in 1 .. Depth(leaves) + 1 |-> Levels(leaves)[Depth(leaves) + 1 - k]])

Document(version, o) ==
  LET new == new_with_outputs(build_merkle_tree(o.leaves), o)
  IN  CASE version = "0.3.0" -> Serialized(new)
        [] version = "0.2.1" ->
             [Serialized(new) EXCEPT
                !.version = "0.2.1", !.process_root = NoRoot,
                !.root_hash = commitment_hash_v0_2(new.process_root, new.command,
                                                   new.output_selection, new.outputs)]
        [] version = "0.1.0" ->
             [new EXCEPT
                !.version = "0.1.0", !.process_root = NoRoot,
                !.root_hash = new.process_root, !.outputs = <<>>,
                !.output_selection = [mode |-> InferredMode, artifacts |-> <<>>,
                                      output_roots |-> <<>>],
                !.tree = [leaves |-> <<>>, nodes |-> LegacyNodes(o.leaves),
                          leaf_count |-> Len(o.leaves)]]

Versions == {"0.1.0", "0.2.1", "0.3.0"}

\* The process root once validate has filled it in.
process_root_of(att) ==
  IF att.process_root = NoRoot \/ att.version = "0.1.0" THEN tree_root(att.tree)
                                                        ELSE att.process_root

\* Mutant: the process root is not compared with the tree.
validate_commitment_only(att) ==
  LET root == process_root_of(att)
  IN  \/ att.version = "0.1.0" /\ att.root_hash = tree_root(att.tree)
      \/ /\ att.version = "0.2.1"
         /\ att.root_hash = commitment_hash_v0_2(root, att.command,
                                                 att.output_selection, att.outputs)
      \/ /\ att.version = "0.3.0"
         /\ att.root_hash = commitment_hash_v0_3(root, att.command,
                                                 att.output_selection, att.outputs)

validate(att) ==
  LET root == process_root_of(att)
  IN  \/ att.version = "0.1.0" /\ att.root_hash = tree_root(att.tree)
      \/ /\ att.version = "0.2.1" /\ root = tree_root(att.tree)
         /\ att.root_hash = commitment_hash_v0_2(root, att.command,
                                                 att.output_selection, att.outputs)
      \/ /\ att.version = "0.3.0" /\ root = tree_root(att.tree)
         /\ att.root_hash = commitment_hash_v0_3(root, att.command,
                                                 att.output_selection, att.outputs)
-----------------------------------------------------------------------------
(* main.rs and stability.rs                                                *)

print_output_delta(expected, actual) == ToSet(expected) # ToSet(actual)

\* Whether print_attestation_diff reports anything but the two roots.
print_attestation_diff(expected, actual) ==
  \/ expected.command # actual.command
  \/ expected.output_selection # actual.output_selection
  \/ print_output_delta(expected.outputs, actual.outputs)
  \/ expected.tree.leaf_count # actual.tree.leaf_count
  \/ diff_leaf_sets(expected.tree, actual.tree) # [missing |-> {}, added |-> {}]

\* One run of a stability report, against the baseline.
analyze(baseline, att) ==
  LET delta == diff_leaf_sets(baseline.tree, att.tree)
  IN  [root_match |-> att.root_hash = baseline.root_hash,
       process_root_match |-> process_root_of(att) = process_root_of(baseline),
       missing_leaves |-> Cardinality(delta.missing),
       added_leaves |-> Cardinality(delta.added)]

Init ==
  /\ use \in {"diff", "pin", "sign"}
  /\ file = [s \in Slots |-> NoFile] /\ origin = [s \in Slots |-> <<>>]
  /\ private_key = Absent /\ public_key = Absent
  /\ generator = [at |-> "idle", key |-> Absent] /\ drawn = 0
  /\ envelope = NoFile /\ signed = <<>>

\* trace writes its document; the other versions are old files.
Write(s, version, o) ==
  /\ file[s] = NoFile /\ (s = "actual" => use = "diff")
  /\ file' = [file EXCEPT ![s] = Document(version, o)]
  /\ origin' = [origin EXCEPT ![s] = [version |-> version, of |-> o]]
  /\ UNCHANGED <<use, keyVars, envelopeVars>>

\* What a file can be put together from: the parts of all documents, and as a
\* list of hashes any level of their trees.
Documents == {Document(v, o) : v \in Versions, o \in Origins}
HashLists ==
  UNION {{<<>>, o.leaves, LegacyNodes(o.leaves)}
           \cup {Levels(o.leaves)[k] : k \in 0 .. Depth(o.leaves)} : o \in Origins}
Spare ==
  [version          |-> Versions,
   process_root     |-> {d.process_root : d \in Documents},
   command          |-> {d.command : d \in Documents},
   output_selection |-> {d.output_selection : d \in Documents},
   outputs          |-> {d.outputs : d \in Documents},
   leaves           |-> {l \in HashLists : Len(l) <= Power[MaxDepth]},
   nodes            |-> HashLists,
   leaf_count       |-> {d.tree.leaf_count : d \in Documents}]

Parts == DOMAIN Spare
Part(f, part) == IF part \in DOMAIN f THEN f[part] ELSE f.tree[part]
WithPart(f, part, value) ==
  IF part \in DOMAIN f THEN [f EXCEPT ![part] = value] ELSE [f EXCEPT !.tree[part] = value]

\* Replacing a file, part by part; its own root is a hash at hand as well.
\* With another root_hash verify --expected-root refuses it at once.
Damage(s, part) ==
  /\ use = "pin" /\ file[s] # NoFile
  /\ LET written == Document(origin[s].version, origin[s].of)
         others == {p \in Parts \ {part} : Part(file[s], p) # Part(written, p)}
         own == IF part \in {"leaves", "nodes"} THEN {<<file[s].root_hash>>} ELSE {}
     IN  /\ Cardinality(others) < MaxChanges
         /\ \E value \in Spare[part] \cup own :
              file' = [file EXCEPT ![s] = WithPart(@, part, value)]
  /\ UNCHANGED <<use, origin, keyVars, envelopeVars>>

\* Mutant: an old public key is overwritten.
private_absent == private_key = Absent

NoKeyFiles == private_key = Absent /\ public_key = Absent

\* generate-key: both files must not exist; then one is written after the
\* other, and either write may fail and leave nothing or part of the file.
GenerateKey ==
  /\ use = "sign" /\ generator.at = "idle" /\ drawn < MaxKeys
  /\ NoKeyFiles
  /\ drawn' = drawn + 1
  /\ generator' = [at |-> "write_signing_key", key |-> drawn']
  /\ UNCHANGED <<use, fileVars, private_key, public_key, envelopeVars>>

\* The permissions are set after the write: also a complete file can be
\* followed by an error.
WriteSigningKey ==
  /\ generator.at = "write_signing_key"
  /\ \/ /\ private_key' = generator.key
        /\ generator' = [generator EXCEPT !.at = "write_verifying_key"]
     \/ /\ private_key' \in {Absent, Partial, generator.key}
        /\ generator' = [at |-> "idle", key |-> Absent]
  /\ UNCHANGED <<use, fileVars, public_key, drawn, envelopeVars>>

WriteVerifyingKey ==
  /\ generator.at = "write_verifying_key"
  /\ \/ public_key' = generator.key
     \/ public_key' \in {public_key, Partial}
  /\ generator' = [at |-> "idle", key |-> Absent]
  /\ UNCHANGED <<use, fileVars, private_key, drawn, envelopeVars>>

\* Someone clears one of the key files away.
RemoveKey ==
  /\ generator.at = "idle"
  /\ \/ private_key # Absent /\ private_key' = Absent /\ UNCHANGED public_key
     \/ public_key # Absent /\ public_key' = Absent /\ UNCHANGED private_key
  /\ UNCHANGED <<use, fileVars, generator, drawn, envelopeVars>>

\* A signature over pae(payload_type, payload); the type is that of the version.
Signature(key, payload) == [key |-> key, message |-> <<payload.version, payload>>]
NoSignature == [key |-> Absent, message |-> <<>>]

Sign ==
  /\ use = "sign" /\ file["expected"] # NoFile /\ envelope = NoFile
  /\ private_key \notin {Absent, Partial}
  /\ validate(file["expected"])
  /\ LET att == file["expected"]
         payload == Serialized([att EXCEPT !.process_root = process_root_of(att)])
     IN  envelope' = [version |-> payload.version, payload |-> payload,
                      signatures |-> <<Signature(private_key, payload)>>]
  /\ signed' = [origin |-> origin["expected"].of, legacy |-> file["expected"].tree.nodes # <<>>,
                key |-> private_key]
  /\ UNCHANGED <<use, fileVars, keyVars>>

\* Another signer's signature, or one that does not parse, is put before it.
CoSign ==
  /\ envelope # NoFile /\ Len(envelope.signatures) = 1
  /\ envelope' = [envelope EXCEPT !.signatures = <<NoSignature>> \o @]
  /\ UNCHANGED <<use, fileVars, keyVars, signed>>

\* The payload of the envelope is mixed up with another document's.
DamageEnvelope(o) ==
  /\ envelope # NoFile /\ generator.at = "idle"
  /\ Last(envelope.signatures).message = <<envelope.version, envelope.payload>>
  /\ \E field \in {"command", "tree"} :
        envelope' = [envelope EXCEPT !.payload[field] = Document("0.3.0", o)[field]]
  /\ UNCHANGED <<use, fileVars, keyVars, signed>>

\* Mutant: only the first signature is tried.
verify_first(env, key) ==
  env.signatures[1] = [key |-> key, message |-> <<env.version, env.payload>>]

\* dsse::verify: one good signature is enough.
verify(env, key) ==
  \E i \in DOMAIN env.signatures :
     env.signatures[i] = [key |-> key, message |-> <<env.version, env.payload>>]

\* verify-signature accepts the envelope.
VerifySignature ==
  /\ envelope # NoFile /\ public_key \notin {Absent, Partial}
  /\ verify(envelope, public_key)
  /\ validate(envelope.payload)

Next ==
  \/ \E s \in Slots, v \in Versions, o \in Origins : Write(s, v, o)
  \/ \E s \in Slots, part \in Parts : Damage(s, part)
  \/ GenerateKey \/ WriteSigningKey \/ WriteVerifyingKey \/ RemoveKey
  \/ Sign \/ CoSign
  \/ \E o \in Origins : DamageEnvelope(o)

Spec == Init /\ [][Next]_vars
-----------------------------------------------------------------------------
(* Properties.                                                             *)

\* Two key files that can be read are a pair, whatever generate-key was
\* interrupted at and whichever file was cleared away: it never writes next
\* to a key it did not draw.
KeysArePair ==
  generator.at = "idle" /\ private_key > 0 /\ public_key > 0 => private_key = public_key

\* What a document was made from, as far as its version says.
SameOrigin(version, o, p) ==
  /\ ToSet(o.leaves) = ToSet(p.leaves)
  /\ version # "0.1.0" =>
       /\ o.command = p.command /\ o.outputs = p.outputs
       /\ output_selection_metadata(o) = output_selection_metadata(p)

\* diff and verify tell the truth about two documents, also when their trees
\* are stored differently: the operations reported missing and added are
\* those of the traces, roots of one version match exactly when the traces,
\* commands, selections and outputs do, and then nothing else is reported.
DiffTruthful ==
  LET e == file["expected"]
      a == file["actual"]
      oe == origin["expected"].of
      oa == origin["actual"].of
      report == analyze(e, a)
  IN  e # NoFile /\ a # NoFile /\ use = "diff" =>
        /\ validate(e) /\ validate(a)
        /\ diff_leaf_sets(e.tree, a.tree) =
             [missing |-> ToSet(oe.leaves) \ ToSet(oa.leaves),
              added   |-> ToSet(oa.leaves) \ ToSet(oe.leaves)]
        /\ report.process_root_match <=> ToSet(oe.leaves) = ToSet(oa.leaves)
        /\ e.version = a.version =>
             /\ report.root_match <=> SameOrigin(e.version, oe, oa)
             /\ e.version # "0.1.0" =>
                  (report.root_match <=> ~print_attestation_diff(e, a))

\* What the file holds are hashes of operations, and no nodes above them.
OperationsOnly(f) == f.tree.nodes = <<>> /\ f.tree.leaves \in Seq({"op"} \X Nat)

\* verify --expected-root, for a file that is read and has the pinned root,
\* whichever parts of it were replaced: with a commitment it is of the version
\* that was written, and its command, selection, outputs and process root are
\* the attested ones; if it holds operations and no nodes, they and its version
\* are as written too, for old files as well.  Nodes take the place of the
\* leaves in the root, and hashes of nodes pass for leaves (PinnedLeaves).
PinnedMeansSame ==
  LET f == file["expected"]
      o == origin["expected"]
  IN  use = "pin" /\ f # NoFile =>
        LET written == Document(o.version, o.of)
        IN  validate(f) /\ f.root_hash = written.root_hash =>
              /\ f.version # "0.1.0" =>
                   /\ f.version = o.version
                   /\ f.command = written.command /\ f.outputs = written.outputs
                   /\ f.output_selection = written.output_selection
                   /\ process_root_of(f) = process_root_of(written)
              /\ OperationsOnly(f) =>
                   f.version = o.version /\ leaf_hashes(f.tree) = o.of.leaves

\* "pin it with --expected-root to detect replacement of the attestation file":
\* if a file of the current version is read, has the pinned root and lists
\* operations, they are those that were attested.  The program does not keep
\* this: the tree's root_hash is its first node, if it has one, and leaf_hashes
\* returns the leaves beside it.
PinnedLeaves ==
  LET f == file["expected"]
      o == origin["expected"]
  IN  use = "pin" /\ f # NoFile =>
        (/\ validate(f) /\ f.root_hash = Document(o.version, o.of).root_hash
         /\ f.version = "0.3.0" /\ f.tree.leaves \in Seq({"op"} \X Nat)
         => ToSet(leaf_hashes(f.tree)) = ToSet(o.of.leaves))

\* What verify-signature accepts was signed with the other half of its key
\* and says what the signed document said; and it accepts what was signed,
\* also next to other signatures, except that the operations of an old
\* document with nodes alone are not in the payload any more.
SignatureTruthful ==
  /\ VerifySignature =>
       /\ signed.key = public_key
       /\ ToSet(leaf_hashes(envelope.payload.tree)) = ToSet(signed.origin.leaves)
       /\ envelope.payload.command = signed.origin.command
  /\ /\ envelope # NoFile /\ public_key > 0 /\ public_key = signed.key
     /\ \E i \in DOMAIN envelope.signatures :
          envelope.signatures[i].message = <<envelope.version, envelope.payload>>
     /\ ~signed.legacy \/ signed.origin.leaves = <<>>
     => VerifySignature
=============================================================================
