------------------------------ MODULE Packaging ------------------------------
(***************************************************************************)
(* Partition of the index into packages: CHIndexerBase::_ProcessIndexSink.  *)
(*                                                                         *)
(* The main package refers to every entry of the index.  When the           *)
(* configuration splits the index, each entry is then popped from it and    *)
(* moved to the fat package or to the resource package its qualifiers call  *)
(* for: by the packaging affinity of automatic resource package qualifiers, *)
(* or by the qualifier sets the configuration lists.                        *)
(*                                                                         *)
(* Qualifier sets are interned: entries, caches and packages speak of their *)
(* index (QSI), and the partition itself interns new ones while it runs.    *)
(* QSI n of the program, counted from 0, is position n + 1 of `sets'.       *)
(***************************************************************************)
EXTENDS Naturals, Sequences, FiniteSets, SequencesExt

CONSTANTS
  Qualifiers,     \* the qualifiers of the project
  NameOf,         \* the qualifier name (language, scale, ...) of each
  Priority,       \* the default build priority of each qualifier name
  Segments,       \* what the names of packages are made of
  Default,        \* the affinity of what belongs to the fat package
  Other,          \* the segment of what has no split qualifier
  Length,         \* raw, token and values-only length of each segment
  MaxIdLength,    \* 30: what a resource id may have
  Configurations, \* what ParsePackagingNode may leave: see ConfigurationsAssumption
  Projects        \* the indexes to split: sequences of qualifier sets

Names == {NameOf[q] : q \in Qualifiers}

ASSUME QualifiersAssumption ==
  /\ IsFiniteSet(Qualifiers)
  /\ DOMAIN NameOf = Qualifiers
  /\ Priority \in [Names -> Nat]
  /\ \A m, n \in Names : Priority[m] = Priority[n] => m = n \/ Priority[m] = 0

\* A token is no longer than the qualifier name it abbreviates.
ASSUME LengthAssumption ==
  /\ Default \notin Segments /\ Other \in Segments
  /\ MaxIdLength \in Nat
  /\ Length \in [Segments -> [raw : Nat, token : Nat, values : Nat]]
  /\ \A s \in Segments : Length[s].values <= Length[s].token /\ Length[s].token <= Length[s].raw

\* A qualifier set has at most one qualifier of each name.
QualifierSets == {Q \in SUBSET Qualifiers : \A p, q \in Q : NameOf[p] = NameOf[q] => p = q}

ASSUME ProjectsAssumption == \A p \in Projects : p \in Seq(QualifierSets)

(***************************************************************************)
(* mode: _eRpMode.  arp: the names of _arpQualifierList.  affinity: what    *)
(* GetPackagingInfo says of a qualifier, under autoPackages, granularSplit  *)
(* and splitLanguageVariants.  each: every automatic qualifier counts       *)
(* (packageBy eachQualifier, compression level 0, on the newest platform).  *)
(* manual: the package of each qualifier that has a qualifier set in the    *)
(* configuration, declared: the packages it names.  The name of a package   *)
(* is the set of its segments; a name from the configuration is one.        *)
(***************************************************************************)
ASSUME ConfigurationsAssumption ==
  \A c \in Configurations :
    /\ c.mode \in {"fat", "auto", "manual"} /\ c.arp \subseteq Names
    /\ c.affinity \in [Qualifiers -> Segments \cup {Default}]
    /\ c.granular \in BOOLEAN /\ c.each \in BOOLEAN /\ c.level \in {0, 1}
    /\ c.each => c.level = 0
    /\ DOMAIN c.manual \subseteq Qualifiers
    /\ c.declared \subseteq {{segment} : segment \in Segments}
    /\ \A q \in DOMAIN c.manual : c.manual[q] \in c.declared
    /\ c.mode # "manual" => c.declared = {}

VARIABLES
  config,   \* the configuration of this build
  pc,       \* "reference", "split" or "done"
  sets,     \* the qualifier sets interned so far; the neutral set is the first
  sink,     \* _indexSink, last entry first to be popped
  main,     \* what _pMainPackage refers to
  fat,      \* the entries of _pFatPackage
  packs,    \* _resourcePackages: no entries is a package not yet allocated
  reported, \* the _reportedQsiList of each package, {} the one that stays
  cache,    \* the QSI each QSI was split by
  level,    \* _resourceIdCompressionLevel
  status,   \* of the shared IDefStatusEx
  lost      \* popped entries that reached no package (history)

vars == <<config, pc, sets, sink, main, fat, packs, reported, cache, level, status, lost>>

-----------------------------------------------------------------------------
Known(s)    == {s[k] : k \in DOMAIN s}
QsiOf(s, Q) == CHOOSE k \in DOMAIN s : s[k] = Q

\* ApplyQualifierSetFromBuilder finds each set among the known or adds it.
InternAll(s, T) == s \o SetToSeq(T \ Known(s))
Intern(s, Q)    == InternAll(s, {Q})

Singles(Q) == {{q} : q \in Q}

\* The qualifier with the highest build priority, which has to be above 0.
Dominant(Q) == {q \in Q : /\ Priority[NameOf[q]] > 0
                          /\ \A r \in Q : Priority[NameOf[r]] <= Priority[NameOf[q]]}

ArpQualifiers(Q)    == {q \in Q : NameOf[q] \in config.arp}
ManualQualifiers(Q) == Q \cap DOMAIN config.manual

Put(f, k, v) == [x \in DOMAIN f \cup {k} |-> IF x = k THEN v ELSE f[x]]

Init ==
  /\ config \in Configurations
  /\ \E project \in Projects :
       LET needed == Known(project) \cup (IF config.mode = "manual"
                                          THEN Singles(DOMAIN config.manual) ELSE {})
       IN  /\ sets = InternAll(<<{}>>, needed)
           /\ sink = [k \in DOMAIN project |-> [id |-> k, qsi |-> QsiOf(sets, project[k])]]
  /\ pc = "reference"
  /\ main = {} /\ fat = {} /\ lost = {}
  /\ packs = [name \in config.declared |-> {}]
  /\ reported = [name \in config.declared \cup {{}} |-> {}]
  /\ cache = <<>>
  /\ level = config.level
  /\ status = "ok"

\* The main package refers to all entries.  If it is not split it reports all
\* sets but the neutral one.
ReferenceEntries ==
  /\ pc = "reference"
  /\ main' = {sink[k].id : k \in DOMAIN sink}
  /\ IF config.mode = "fat"
     THEN pc' = "done" /\ reported' = Put(reported, {}, 2..Len(sets))
     ELSE pc' = "split" /\ reported' = reported
  /\ UNCHANGED <<config, sets, sink, fat, packs, cache, level, status, lost>>

-----------------------------------------------------------------------------
\* The entry PopEntry takes, and its qualifiers.
Popped  == sink[Len(sink)]
Applied == sets[Popped.qsi]

Pop_Peeks == sink' = IF Len(sink) > 1 THEN sink ELSE <<>>   \* MUTANT
Pop       == sink' = SubSeq(sink, 1, Len(sink) - 1)

MoveToFat(e) ==
  /\ fat' = fat \cup {e}
  /\ reported' = Put(reported, {}, reported[{}] \cup {e.qsi})
  /\ UNCHANGED <<packs, lost>>

Lose(e) == lost' = lost \cup {e} /\ UNCHANGED <<fat, packs, reported>>

\* A package is allocated for its first entry, unless the status has failed.
Allocated(name) == name \in DOMAIN packs /\ packs[name] # {}

\* MUTANT: the package is listed before its entry has been added.
AddEntryToPackageWithName_EarlyInsert(e, name, qsi) ==
  /\ packs' = Put(packs, name, {e} \cup IF Allocated(name) THEN packs[name] ELSE {})
  /\ IF Allocated(name) THEN reported' = Put(reported, name, reported[name] \cup {qsi})
                        ELSE reported' = reported
  /\ UNCHANGED <<fat, lost>>

\* MUTANT: only the last qualifier set is reported.
AddEntryToPackageWithName_LastReported(e, name, qsi) ==
  IF status = "failed" /\ ~Allocated(name) THEN Lose(e)
  ELSE /\ packs' = Put(packs, name, {e} \cup IF Allocated(name) THEN packs[name] ELSE {})
       /\ reported' = Put(reported, name, {qsi})
       /\ UNCHANGED <<fat, lost>>

AddEntryToPackageWithName(e, name, qsi) ==
  IF status = "failed" /\ ~Allocated(name) THEN Lose(e)
  ELSE /\ packs' = Put(packs, name, {e} \cup IF Allocated(name) THEN packs[name] ELSE {})
       /\ reported' = Put(reported, name, {qsi} \cup IF Allocated(name) THEN reported[name] ELSE {})
       /\ UNCHANGED <<fat, lost>>

\* _GetPackagingAffinityForQualifierSet: the name has no default segment.
Affinities(Q) == {config.affinity[q] : q \in Q} \ {Default}

AddEntryByAffinity(e, qsi) ==
  IF Affinities(sets'[qsi]) = {} THEN MoveToFat(e)
  ELSE AddEntryToPackageWithName(e, Affinities(sets'[qsi]), qsi)

\* Of several qualifiers an automatic split keeps every one of its names or
\* only the dominant one.
Kept(Q) == IF config.each THEN ArpQualifiers(Q) ELSE Dominant(ArpQualifiers(Q))

Splitting(mode) == pc = "split" /\ config.mode = mode /\ sink # <<>>
Automatic == Splitting("auto") /\ Pop /\ UNCHANGED <<config, pc, main, level>>

\* "other" reports a QSI past the last one: GetNumQualifierSets().
SplitUnqualified ==
  /\ Automatic
  /\ ArpQualifiers(Applied) = {}
  /\ IF config.granular THEN AddEntryToPackageWithName(Popped, {Other}, Len(sets) + 1)
                        ELSE MoveToFat(Popped)
  /\ UNCHANGED <<sets, cache, status>>

SplitByOwnQsi ==
  /\ Automatic
  /\ ArpQualifiers(Applied) # {} /\ Cardinality(Applied) = 1
  /\ status = "ok"
  /\ UNCHANGED <<sets, cache, status>>
  /\ AddEntryByAffinity(Popped, Popped.qsi)

SplitByCachedQsi ==
  /\ Automatic
  /\ ArpQualifiers(Applied) # {} /\ Cardinality(Applied) > 1
  /\ status = "ok" /\ Popped.qsi \in DOMAIN cache
  /\ UNCHANGED <<sets, cache, status>>
  /\ AddEntryByAffinity(Popped, cache[Popped.qsi])

\* MUTANT: the cache maps the effective set to the one it came from.
SplitByEffectiveQsi_SwappedPair ==
  /\ Automatic
  /\ ArpQualifiers(Applied) # {} /\ Cardinality(Applied) > 1
  /\ status = "ok" /\ Popped.qsi \notin DOMAIN cache
  /\ Kept(Applied) # {}
  /\ sets' = Intern(sets, Kept(Applied))
  /\ LET effective == QsiOf(sets', Kept(Applied))
     IN  /\ cache' = Put(cache, effective, Popped.qsi)
         /\ AddEntryByAffinity(Popped, effective)
  /\ UNCHANGED status

SplitByEffectiveQsi ==
  /\ Automatic
  /\ ArpQualifiers(Applied) # {} /\ Cardinality(Applied) > 1
  /\ status = "ok" /\ Popped.qsi \notin DOMAIN cache
  /\ Kept(Applied) # {}
  /\ sets' = Intern(sets, Kept(Applied))
  /\ LET effective == QsiOf(sets', Kept(Applied))
     IN  /\ cache' = Put(cache, Popped.qsi, effective)
         /\ AddEntryByAffinity(Popped, effective)
  /\ UNCHANGED status

\* No qualifier has a priority; after that the affinity is never computed and
\* the entry is offered to a package without a name, which is not allocated.
SplitFails ==
  /\ Automatic
  /\ ArpQualifiers(Applied) # {}
  /\ \/ status = "failed"
     \/ /\ Cardinality(Applied) > 1
        /\ Popped.qsi \notin DOMAIN cache
        /\ Kept(Applied) = {}
  /\ status' = "failed"
  /\ Lose(Popped)
  /\ UNCHANGED <<sets, cache>>

-----------------------------------------------------------------------------
(***************************************************************************)
(* Manual packages.  Comparing a set with those of the configuration        *)
(* interns each of its qualifiers; the cache remembers the result, with     *)
(* NoQsi for the fat package.                                               *)
(***************************************************************************)
NoQsi == 0

Manual == Splitting("manual") /\ status = "ok" /\ Pop /\ UNCHANGED <<config, pc, main, level>>

AddEntryByQsi(e, qsi) ==
  IF qsi = NoQsi THEN MoveToFat(e)
  ELSE AddEntryToPackageWithName(e, UNION {config.manual[q] : q \in sets'[qsi]}, qsi)

MatchCached ==
  /\ Manual
  /\ Popped.qsi \in DOMAIN cache
  /\ UNCHANGED <<sets, cache, status>>
  /\ AddEntryByQsi(Popped, cache[Popped.qsi])

\* A single match needs no priority.
Match(Q) ==
  IF Cardinality(ManualQualifiers(Q)) = 1 THEN ManualQualifiers(Q)
                                          ELSE Dominant(ManualQualifiers(Q))

MatchQualifiers ==
  /\ Manual
  /\ Popped.qsi \notin DOMAIN cache
  /\ ManualQualifiers(Applied) = {} \/ Match(Applied) # {}
  /\ sets' = InternAll(sets, Singles(Applied))
  /\ LET qsi == IF ManualQualifiers(Applied) = {} THEN NoQsi ELSE QsiOf(sets', Match(Applied))
     IN  /\ cache' = Put(cache, Popped.qsi, qsi)
         /\ AddEntryByQsi(Popped, qsi)
  /\ UNCHANGED status

MatchFails ==
  /\ Manual
  /\ Popped.qsi \notin DOMAIN cache
  /\ ManualQualifiers(Applied) # {} /\ Match(Applied) = {}
  /\ sets' = InternAll(sets, Singles(Applied))
  /\ status' = "failed"
  /\ Lose(Popped)
  /\ UNCHANGED cache

-----------------------------------------------------------------------------
\* The id of a package at a compression level: its segments, joined by dots.
IdLength(name, form) == Len(SetToSeq(name)) - 1 +
  FoldSet(LAMBDA segment, sum : sum + Length[segment][form], 0, name)

TooLong(name, form) == IdLength(name, form) > MaxIdLength

(***************************************************************************)
(* One walk over the packages, in the order of their names: it tries a      *)
(* level until a package does not fit and goes on from that package with    *)
(* the next level, never looking again at those before it.                  *)
(***************************************************************************)
FirstTooLong(order, k, form) ==
  LET long == {j \in k..Len(order) : TooLong(order[j], form)}
  IN  IF long = {} THEN Len(order) + 1 ELSE CHOOSE j \in long : \A i \in long : j <= i

\* MUTANT: the walk goes on after the package that did not fit.
Calibrated_SkipsOne(order) ==
  LET raw   == FirstTooLong(order, 1, "raw")
      token == FirstTooLong(order, raw + 1, "token")
  IN  CASE raw > Len(order) -> level
        [] raw <= Len(order) /\ token > Len(order) -> 1
        [] OTHER -> 2

Calibrated(order) ==
  LET raw    == FirstTooLong(order, 1, "raw")
      token  == FirstTooLong(order, raw, "token")
      values == FirstTooLong(order, token, "values")
  IN  CASE raw > Len(order) -> level
        [] raw <= Len(order) /\ token > Len(order) -> 1
        [] token <= Len(order) /\ values > Len(order) -> 2
        [] OTHER -> 3

AutomaticDone ==
  /\ pc = "split" /\ config.mode = "auto" /\ sink = <<>>
  /\ pc' = "done"
  /\ IF status = "ok"
     THEN \E order \in SetToSeqs(DOMAIN packs) : level' = Calibrated(order)
     ELSE level' = level
  /\ UNCHANGED <<config, sets, sink, main, fat, packs, reported, cache, status, lost>>

\* Packages without entries were never allocated and are erased.
Used == {name \in DOMAIN packs : packs[name] # {}}

ManualDone ==
  /\ pc = "split" /\ config.mode = "manual" /\ (sink = <<>> \/ status = "failed")
  /\ pc' = "done"
  /\ IF status = "ok"
     THEN /\ packs' = [name \in Used |-> packs[name]]
          /\ reported' = [name \in Used \cup {{}} |-> reported[name]]
     ELSE UNCHANGED <<packs, reported>>
  /\ UNCHANGED <<config, sets, sink, main, fat, cache, level, status, lost>>

Terminated == pc = "done" /\ UNCHANGED vars

Split == \/ SplitUnqualified \/ SplitByOwnQsi \/ SplitByCachedQsi
         \/ SplitByEffectiveQsi \/ SplitFails
         \/ MatchCached \/ MatchQualifiers \/ MatchFails

Next == ReferenceEntries \/ Split \/ AutomaticDone \/ ManualDone \/ Terminated

Spec == Init /\ [][Next]_vars

-----------------------------------------------------------------------------
Ids == {sink[k].id : k \in DOMAIN sink}
Entries == fat \cup lost \cup UNION {packs[name] : name \in DOMAIN packs}

IsEntry(e) == /\ e = [id |-> e.id, qsi |-> e.qsi]
              /\ e.id \in Nat /\ e.qsi \in DOMAIN sets

TypeOK ==
  /\ config \in Configurations
  /\ pc \in {"reference", "split", "done"}
  /\ sets \in Seq(QualifierSets) /\ sets # <<>>
  /\ sink \in Seq([id : Nat, qsi : DOMAIN sets])
  /\ main \subseteq Nat
  /\ \A e \in Entries : IsEntry(e)
  /\ DOMAIN reported = DOMAIN packs \cup {{}}
  /\ DOMAIN packs \subseteq (SUBSET Segments) \ {{}}
  /\ DOMAIN cache \subseteq DOMAIN sets
  /\ \A qsi \in DOMAIN cache : cache[qsi] \in DOMAIN sets \cup {NoQsi}
  /\ level \in 0..3
  /\ status \in {"ok", "failed"}

(***************************************************************************)
(* The split loses nothing and doubles nothing: every entry the main        *)
(* package refers to is still in the index or in exactly one of the fat and *)
(* resource packages, unless the build has failed.                          *)
(***************************************************************************)
EntryOnce ==
  /\ pc # "reference" => main = Ids \cup {e.id : e \in Entries}
  /\ Ids \cap {e.id : e \in Entries} = {}
  /\ \A d, e \in Entries : d.id = e.id => d = e
  /\ fat \cap lost = {}
  /\ \A m, n \in DOMAIN packs :
       packs[n] \cap (fat \cup lost) = {} /\ (m # n => packs[m] \cap packs[n] = {})
  /\ lost # {} => status = "failed"

(***************************************************************************)
(* Where an entry belongs, from its qualifiers and the configuration alone: *)
(* {} is the fat package.                                                   *)
(***************************************************************************)
Top(Q) == {q \in Q : \A r \in Q : Priority[NameOf[r]] <= Priority[NameOf[q]]}

Home(Q) ==
  LET arp == {q \in Q : NameOf[q] \in config.arp}
      listed == {q \in Q : q \in DOMAIN config.manual}
  IN  CASE config.mode = "manual" -> UNION {config.manual[q] : q \in Top(listed)}
        [] config.mode # "manual" /\ arp = {} -> IF config.granular THEN {Other} ELSE {}
        [] OTHER -> {config.affinity[q] : q \in IF config.each THEN arp ELSE Top(arp)} \ {Default}

(***************************************************************************)
(* The package of an entry depends on its own qualifiers only: not on the   *)
(* order of the entries, on what the caches hold when it is reached, nor on *)
(* the qualifier sets interned on the way.  A successful split has no       *)
(* package without entries.                                                 *)
(***************************************************************************)
EntriesAreHome ==
  /\ \A e \in fat : Home(sets[e.qsi]) = {}
  /\ \A name \in DOMAIN packs : \A e \in packs[name] : Home(sets[e.qsi]) = name
  /\ pc = "done" /\ status = "ok" => \A name \in DOMAIN packs : packs[name] # {}

(***************************************************************************)
(* The dimensions a package is registered for in the mapping file, its      *)
(* reported qualifier sets, are those of its entries: every entry has one   *)
(* and every one has an entry.  The package of what has no split qualifier  *)
(* is left out: it reports a QSI that no set has yet.                       *)
(***************************************************************************)
EntriesOf(name) == IF name = {} THEN fat ELSE packs[name]

ReportsItsEntries ==
  config.mode # "fat" =>
    \A name \in DOMAIN reported \ {{Other}} :
      /\ \A qsi \in reported[name] :
           qsi \in DOMAIN sets /\ \E e \in EntriesOf(name) : sets[qsi] \subseteq sets[e.qsi]
      /\ \A e \in EntriesOf(name) : \E qsi \in reported[name] :
           sets[qsi] \subseteq sets[e.qsi] /\ (name # {} => sets[qsi] # {})

(***************************************************************************)
(* Although the calibration looks at each package once, at the level it     *)
(* ends on every package has an id that fits, and no lower level would do.  *)
(***************************************************************************)
Form == <<"raw", "token", "values">>

CompressionFits ==
  pc = "done" /\ status = "ok" /\ config.mode = "auto" =>
    /\ level = 3 \/ \A name \in DOMAIN packs : ~TooLong(name, Form[level + 1])
    /\ level > config.level => \E name \in DOMAIN packs : TooLong(name, Form[level])
=============================================================================
