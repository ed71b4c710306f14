------------------------------ MODULE Identity ------------------------------
(***************************************************************************)
(* The identity of a file (file_identity.rs).  Builds draw names at random *)
(* - compiler temporaries, session directories, the Go work directory -    *)
(* and date their caches.  An identity must not depend on them, neither    *)
(* through the path of a file that is gone nor through a control file that *)
(* spells them out.  Which names look drawn is a matter of their letters   *)
(* and is given by Recognized.                                             *)
(***************************************************************************)
EXTENDS Integers, Sequences, SequencesExt, FiniteSets

CONSTANTS
  SystemState,   \* paths under /proc, /sys and the like
  Recognized,    \* name that looks drawn -> what stands for it
  CacheEntries,  \* file names of Go action-cache entries
  Mentions       \* contents that spell out something drawn -> what

Absent == "absent"
Directory == "directory"
EMPTY_CONTENT_HASH == "empty"

is_path_within(path, prefix) == IsPrefix(prefix, path)
is_system_state(path) == path \in SystemState

is_go_work_dir_component(component) ==
  component \in DOMAIN Recognized /\ Recognized[component] = "<go-work>"

\* Only below the directories for temporary files.
normalize_unavailable_path(path) ==
  IF path # <<>> /\ path[1] = "tmp"
  THEN [i \in DOMAIN path |->
          IF path[i] \in DOMAIN Recognized THEN Recognized[path[i]] ELSE path[i]]
  ELSE path

\* Mutant: the path is forgotten.
hash_no_path(path) == <<>>

hash_path(path) == normalize_unavailable_path(path)

is_go_import_config_path(path) ==
  /\ path # <<>> /\ Last(path) = "importcfg"
  /\ \E i \in DOMAIN path : is_go_work_dir_component(path[i])
is_go_cache_entry_path(path) == path # <<>> /\ Last(path) \in CacheEntries

\* Whether the control file is understood: what it spells out is then left out.
normalize_go_import_config(contents) == Mentions[contents] = "go-build"
normalize_go_cache_entry(contents) == Mentions[contents] = "now"

\* Contents are hashed as they are, with what this build has drawn, unless
\* the file is one whose format is known.
observe_file(path, contents, drawn) ==
  IF contents \notin DOMAIN Mentions THEN <<"content", contents>>
  ELSE IF \/ is_go_import_config_path(path) /\ normalize_go_import_config(contents)
          \/ is_go_cache_entry_path(path) /\ normalize_go_cache_entry(contents)
  THEN <<"content", contents, "normalized">>
  ELSE <<"content", contents, drawn[Mentions[contents]]>>

\* A FileObservation; one that is not Content keeps the path.
Missing(path) == <<"missing", hash_path(path)>>
NonRegular(path) == <<"non-regular", hash_path(path)>>

\* FileObservation::content_hash, as the set of the hashes there are.
content_hash(observation) ==
  IF observation[1] = "content" THEN {observation} ELSE {}
=============================================================================
