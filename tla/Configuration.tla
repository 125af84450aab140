---------------------------- MODULE Configuration -----------------------------
(***************************************************************************)
(* Where a session's root is and what is configured there                  *)
(* (internal/config/config.go).  A directory is the sequence of its names  *)
(* from the root of the file system.  Spelling is abstracted to what       *)
(* normalization makes of it: NormalOf, KeyOf and UpperOf.                 *)
(***************************************************************************)
EXTENDS Integers, Sequences, FiniteSets

CONSTANTS
  Sentinels,     \* the directories that have a .natural-lsp.toml, and what is in it
  Unusable,      \* what is in a file that cannot be read or decoded
  Names,         \* the names of directories and files
  UpperOf,       \* UpperOf[n]: the name in upper case
  Spellings,     \* the extensions as a file may spell them
  NormalOf,      \* NormalOf[s]: trimmed, dotted and in upper case, or NoBody
  KeyOf,         \* KeyOf[s]: the same for a key of extension_types, which keeps ".."
  RankOf,        \* RankOf[s]: where the spelling sorts
  NoBody,        \* a spelling with nothing after its dots
  TypeNames,     \* object types as a file may spell them
  TypeNameOf,    \* TypeNameOf[v]: in lower case, or NoType
  NoType,        \* not the name of a type
  DefaultExtensions,
  DefaultExcludes,
  DefaultSize,
  DefaultMinLength

ASSUME NormalAssumption ==
  /\ NormalOf \in [Spellings -> Spellings \cup {NoBody}]
  /\ KeyOf \in [Spellings -> Spellings \cup {NoBody}]
  /\ NoBody \notin Spellings
  /\ \A s \in Spellings :
       /\ NormalOf[s] # NoBody => NormalOf[NormalOf[s]] = NormalOf[s]
       /\ KeyOf[s] # NoBody => KeyOf[KeyOf[s]] = KeyOf[s]
  /\ RankOf \in [Spellings -> Nat]
  /\ \A s, u \in Spellings : RankOf[s] = RankOf[u] => s = u

ASSUME TypeAssumption ==
  /\ TypeNameOf \in [TypeNames -> TypeNames \cup {NoType}]
  /\ NoType \notin TypeNames
  /\ \A v \in TypeNames : TypeNameOf[v] # NoType => TypeNameOf[TypeNameOf[v]] = TypeNameOf[v]

ASSUME DefaultAssumption ==
  /\ DefaultExtensions \subseteq Spellings /\ DefaultExtensions # {}
  /\ \A s \in DefaultExtensions : NormalOf[s] = s
  /\ DefaultSize \in Nat \ {0}
  /\ DefaultMinLength \in Nat \ {0}

-------------------------------------------------------------------------------
(***************************************************************************)
(* The root.                                                               *)
(***************************************************************************)
\* The directory some levels above another.
Above(start, levels) == SubSeq(start, 1, Len(start) - levels)

SentinelLevels(start) == {k \in 0..Len(start) : Above(start, k) \in DOMAIN Sentinels}

\* The walk up ends at the first sentinel; without one the root is the start.
FindRoot(start) ==
  IF SentinelLevels(start) # {}
    THEN Above(start, CHOOSE k \in SentinelLevels(start) :
                        \A j \in SentinelLevels(start) : k <= j)
    ELSE start

-------------------------------------------------------------------------------
(***************************************************************************)
(* The settings.  Extensions and exclusions are sets: only membership      *)
(* counts.  Libraries keep their places; a nameless one leaves its empty.  *)
(***************************************************************************)
Keys == {"extensions", "excludes", "maxFileSize", "extensionTypes",
         "cachePath", "minLength", "libraries"}

Defaults ==
  [extensions |-> DefaultExtensions, excludes |-> DefaultExcludes, maxFileSize |-> DefaultSize,
   extensionTypes |-> <<>>, cachePath |-> ".natural-lsp-cache", minLength |-> DefaultMinLength,
   libraries |-> <<>>]

\* No configuration: the zero Config of a server that has not been initialized.
Zero ==
  [extensions |-> {}, excludes |-> {}, maxFileSize |-> 0, extensionTypes |-> <<>>,
   cachePath |-> "", minLength |-> 0, libraries |-> <<>>]

\* The file is decoded onto the defaults: a key it does not name keeps its own.
Decoded(file) == [k \in Keys |-> IF k \in DOMAIN file THEN file[k] ELSE Defaults[k]]

\* normalizeExtensions.
Normalized(extensions) == {NormalOf[s] : s \in extensions} \ {NoBody}

\* The keys that map an extension to a type there is.
Claims(types, ext) ==
  {s \in DOMAIN types : KeyOf[s] = ext /\ TypeNameOf[types[s]] # NoType}

ClaimedTypes(types) ==
  {ext \in {KeyOf[s] : s \in DOMAIN types} \ {NoBody} : Claims(types, ext) # {}}

\* Of several keys for one extension the first in order that has a type wins.
Winner(types, ext) ==
  CHOOSE s \in Claims(types, ext) : \A u \in Claims(types, ext) : RankOf[s] <= RankOf[u]

ValidTypes(types) ==
  [ext \in ClaimedTypes(types) |-> TypeNameOf[types[Winner(types, ext)]]]

Named(libraries) == {i \in DOMAIN libraries : libraries[i].name # ""}

\* Validate: the configuration in force.
Validated(c) ==
  [extensions |-> IF Normalized(c.extensions) = {} THEN DefaultExtensions
                                                   ELSE Normalized(c.extensions),
   excludes |-> c.excludes,
   maxFileSize |-> IF c.maxFileSize <= 0 THEN DefaultSize ELSE c.maxFileSize,
   extensionTypes |-> ValidTypes(c.extensionTypes),
   cachePath |-> IF c.cachePath = "" THEN Defaults.cachePath ELSE c.cachePath,
   minLength |-> IF c.minLength <= 0 THEN DefaultMinLength ELSE c.minLength,
   libraries |-> [i \in Named(c.libraries) |-> c.libraries[i]]]

\* Validate: the settings it reports.
Problems(c) ==
  {k \in Keys :
     CASE k = "extensions"     -> \/ \E s \in c.extensions : NormalOf[s] = NoBody
                                  \/ Normalized(c.extensions) = {}
       [] k = "maxFileSize"    -> c.maxFileSize <= 0
       [] k = "cachePath"      -> c.cachePath = ""
       [] k = "minLength"      -> c.minLength <= 0
       [] k = "libraries"      -> Named(c.libraries) # DOMAIN c.libraries
       [] k = "extensionTypes" ->
            \E s \in DOMAIN c.extensionTypes :
              LET ext == KeyOf[s]
              IN  \/ ext = NoBody
                  \/ TypeNameOf[c.extensionTypes[s]] = NoType
                  \/ s # Winner(c.extensionTypes, ext)
       [] OTHER                -> FALSE}

\* Load and Bootstrap: the configuration of a root.  A file that is not there,
\* cannot be read or cannot be decoded leaves the defaults, unvalidated.
ConfigOf(root) ==
  IF root \in DOMAIN Sentinels /\ Sentinels[root] # Unusable
    THEN Validated(Decoded(Sentinels[root]))
    ELSE Defaults

\* IsExcluded: one name on the path is one of the excluded, in any case.
IsExcluded(c, path) ==
  \E i \in DOMAIN path : \E e \in c.excludes : UpperOf[path[i]] = UpperOf[e]

===============================================================================
