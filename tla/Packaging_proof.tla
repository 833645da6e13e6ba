--------------------------- MODULE Packaging_proof ---------------------------
(***************************************************************************)
(* Proofs about Packaging, for every set of qualifiers and priorities,      *)
(* every configuration and every index to split:                            *)
(*   TypeCorrect     the type invariant,                                    *)
(*   NoEntryLost     the split neither loses nor doubles an entry,          *)
(*   EntriesHome     an entry goes where its own qualifiers say,            *)
(*   EntriesReported a package reports the qualifier sets of its entries,   *)
(*   IdsFit          the ids of the resource packages fit.                  *)
(***************************************************************************)
EXTENDS Packaging, Recursion, SequenceTheorems, FiniteSetTheorems, TLAPS

-----------------------------------------------------------------------------
(***************************************************************************)
(* Interning: the sets known before keep their QSI.                         *)
(***************************************************************************)
LEMMA ListsItsElements ==
  ASSUME NEW S, IsFiniteSet(S)
  PROVE  SetToSeq(S) \in Seq(S) /\ Known(SetToSeq(S)) = S
  <1> DEFINE n == Cardinality(S)
  <1>1. n \in Nat /\ ExistsBijection(1..n, S)
    BY FS_CardinalityType
  <1>2. \E f \in [1..n -> S] : IsInjective(f)
    BY <1>1 DEF ExistsBijection, Bijection, Injection
  <1> DEFINE f == SetToSeq(S)
  <1>3. f \in [1..n -> S] /\ IsInjective(f)
    BY <1>2 DEF SetToSeq
  <1>4. Cardinality(1..n) = n
    BY <1>1, FS_Interval
  <1> HIDE DEF f, n
  <1>5. f \in Injection(1..n, S)
    BY <1>3 DEF Injection
  <1>6. f \in Surjection(1..n, S)
    <2>1. Cardinality(1..n) = Cardinality(S)
      BY <1>4 DEF n
    <2> QED
      BY <1>5, <2>1, FS_Injection
  <1>7. \A t \in S : \E k \in 1..n : f[k] = t
    BY <1>6 DEF Surjection
  <1>8. f \in Seq(S)
    BY <1>1, <1>3, SeqDef
  <1> QED
    BY <1>3, <1>7, <1>8 DEF f, Known

\* The sets a qualifier set can be, and the tables of interned ones.
Table == Seq(QualifierSets)

LEMMA FiniteTable ==
  ASSUME NEW T \in SUBSET QualifierSets
  PROVE  IsFiniteSet(T)
  <1>1. IsFiniteSet(SUBSET Qualifiers)
    BY QualifiersAssumption, FS_SUBSET
  <1>2. T \in SUBSET SUBSET Qualifiers
    BY DEF QualifierSets
  <1> QED
    BY <1>1, <1>2, FS_Subset

Extends(t, s) == /\ t \in Table /\ t # <<>>
                 /\ \A k \in DOMAIN s : k \in DOMAIN t /\ t[k] = s[k]

LEMMA Interning ==
  ASSUME NEW s \in Table, s # <<>>, NEW T \in SUBSET QualifierSets
  PROVE  /\ Extends(InternAll(s, T), s)
         /\ Known(InternAll(s, T)) = Known(s) \cup T
  <1> DEFINE new == T \ Known(s)
             r == SetToSeq(new)
             t == s \o r
  <1>1. r \in Seq(new) /\ Known(r) = new
    BY FiniteTable, ListsItsElements
  <1>2. r \in Table
    <2>1. new \subseteq QualifierSets
      OBVIOUS
    <2> HIDE DEF r, new
    <2> QED
      BY <1>1, <2>1, SeqMonotonic DEF Table
  <1> HIDE DEF r
  <1>3. /\ t \in Table /\ Len(t) = Len(s) + Len(r)
        /\ \A i \in 1..(Len(s) + Len(r)) : t[i] = IF i <= Len(s) THEN s[i] ELSE r[i - Len(s)]
    BY <1>2, ConcatProperties DEF Table
  <1>4. /\ Len(s) \in Nat \ {0} /\ Len(r) \in Nat
        /\ DOMAIN s = 1..Len(s) /\ DOMAIN r = 1..Len(r) /\ DOMAIN t = 1..(Len(s) + Len(r))
    BY <1>2, <1>3, LenProperties, EmptySeq DEF Table
  <1> HIDE DEF t
  <1>5. \A k \in DOMAIN s : k \in DOMAIN t /\ t[k] = s[k]
    BY <1>3, <1>4
  <1>6. t # <<>>
    BY <1>3, <1>4, EmptySeq
  <1>7. Known(t) \subseteq Known(s) \cup Known(r)
    <2> SUFFICES ASSUME NEW k \in DOMAIN t PROVE t[k] \in Known(s) \cup Known(r)
      BY DEF Known
    <2>1. CASE k <= Len(s)
      BY <2>1, <1>3, <1>4 DEF Known
    <2>2. CASE ~(k <= Len(s))
      <3>1. k - Len(s) \in DOMAIN r /\ t[k] = r[k - Len(s)]
        BY <2>2, <1>3, <1>4
      <3> QED
        BY <3>1 DEF Known
    <2> QED
      BY <2>1, <2>2
  <1>8. Known(r) \subseteq Known(t)
    <2> SUFFICES ASSUME NEW k \in DOMAIN r PROVE \E j \in DOMAIN t : t[j] = r[k]
      BY DEF Known
    <2>1. Len(s) + k \in DOMAIN t /\ ~(Len(s) + k <= Len(s)) /\ (Len(s) + k) - Len(s) = k
      BY <1>4
    <2>2. t[Len(s) + k] = r[k]
      BY <2>1, <1>3, <1>4
    <2> QED
      BY <2>1, <2>2
  <1>9. Known(s) \subseteq Known(t)
    BY <1>5 DEF Known
  <1>10. InternAll(s, T) = t
    BY DEF InternAll, t, r
  <1> QED
    BY <1>1, <1>3, <1>5, <1>6, <1>7, <1>8, <1>9, <1>10 DEF Extends

\* The QSI of a known set is the index of that set.
LEMMA FindsIts ==
  ASSUME NEW s, NEW Q \in Known(s)
  PROVE  QsiOf(s, Q) \in DOMAIN s /\ s[QsiOf(s, Q)] = Q
  BY DEF Known, QsiOf

(***************************************************************************)
(* The dominant qualifier of a split: when the build goes on, it is the one *)
(* with the highest priority.                                               *)
(***************************************************************************)
LEMMA DominantIsTop ==
  ASSUME NEW Q \in SUBSET Qualifiers, Dominant(Q) # {}
  PROVE  Dominant(Q) = Top(Q)
  <1>1. \A q \in Q : Priority[NameOf[q]] \in Nat
    BY QualifiersAssumption DEF Names
  <1>2. PICK d \in Dominant(Q) : TRUE
    OBVIOUS
  <1> QED
    BY <1>1, <1>2 DEF Dominant, Top

LEMMA SingleIsTop ==
  ASSUME NEW Q \in SUBSET Qualifiers, Cardinality(Q) = 1
  PROVE  Q = Top(Q)
  <1>1. IsFiniteSet(Q)
    BY QualifiersAssumption, FS_Subset
  <1>2. PICK q : Q = {q}
    BY <1>1, FS_Singleton
  <1>3. Priority[NameOf[q]] \in Nat
    BY <1>2, QualifiersAssumption DEF Names
  <1> QED
    BY <1>2, <1>3 DEF Top

LEMMA PutIs ==
  ASSUME NEW f, NEW k, NEW v
  PROVE  /\ DOMAIN Put(f, k, v) = DOMAIN f \cup {k}
         /\ Put(f, k, v)[k] = v
         /\ \A x \in DOMAIN f : x # k => Put(f, k, v)[x] = f[x]
  BY DEF Put

LEMMA PopTakes ==
  ASSUME NEW T, NEW s \in Seq(T), s # <<>>
  PROVE  LET f == SubSeq(s, 1, Len(s) - 1)
         IN  /\ f \in Seq(T) /\ s[Len(s)] \in T
             /\ DOMAIN s = DOMAIN f \cup {Len(s)} /\ Len(s) \notin DOMAIN f
             /\ \A k \in DOMAIN f : f[k] = s[k]
  <1> DEFINE f == SubSeq(s, 1, Len(s) - 1)
  <1>1. Len(s) \in Nat \ {0} /\ DOMAIN s = 1..Len(s) /\ \A k \in 1..Len(s) : s[k] \in T
    BY LenProperties, ElementOfSeq, EmptySeq
  <1>2. f \in Seq(T) /\ Len(f) = Len(s) - 1 /\ \A k \in 1..(Len(s) - 1) : f[k] = s[k]
    BY <1>1, SubSeqProperties
  <1>3. DOMAIN f = 1..(Len(s) - 1)
    BY <1>2, LenProperties
  <1> HIDE DEF f
  <1> QED
    BY <1>1, <1>2, <1>3 DEF f

-----------------------------------------------------------------------------
(***************************************************************************)
(* What the cache knows: the set an entry is split by is a function of its  *)
(* own qualifiers.                                                          *)
(***************************************************************************)
SplitByKept(t, Q, qsi) ==
  qsi \in DOMAIN t /\ Kept(Q) # {} /\ t[qsi] = Kept(Q)

SplitByMatch(t, Q, qsi) ==
  \/ ManualQualifiers(Q) = {} /\ qsi = NoQsi
  \/ /\ ManualQualifiers(Q) # {} /\ Match(Q) # {}
     /\ qsi \in DOMAIN t /\ t[qsi] = Match(Q)

SplitBy(t, Q, qsi) ==
  /\ config.mode = "auto" => SplitByKept(t, Q, qsi)
  /\ config.mode = "manual" => SplitByMatch(t, Q, qsi)

CacheOK == \A k \in DOMAIN cache : k \in DOMAIN sets /\ SplitBy(sets, sets[k], cache[k])

\* The entry goes to a package, which is in the list from then on.
Packed(e, name, qsi) ==
  /\ packs' = Put(packs, name, {e} \cup IF Allocated(name) THEN packs[name] ELSE {})
  /\ reported' = Put(reported, name, {qsi} \cup IF Allocated(name) THEN reported[name] ELSE {})
  /\ UNCHANGED <<fat, lost>>

\* The entry goes where its qualifiers say, or the build fails.
Placed ==
  \/ Lose(Popped) /\ status' = "failed"
  \/ MoveToFat(Popped) /\ Home(Applied) = {} /\ status' = status
  \/ \E name \in (SUBSET Segments) \ {{}} : \E qsi \in Nat :
       /\ Packed(Popped, name, qsi)
       /\ Home(Applied) = name
       /\ \/ name = {Other}
          \/ qsi \in DOMAIN sets' /\ sets'[qsi] # {} /\ sets'[qsi] \subseteq Applied
       /\ status' = status

LEMMA PoppedType ==
  ASSUME TypeOK, sink # <<>>
  PROVE  /\ Popped \in [id : Nat, qsi : DOMAIN sets]
         /\ Popped.id \in Nat /\ Popped.qsi \in DOMAIN sets
         /\ Applied \in QualifierSets /\ Applied \in SUBSET Qualifiers
         /\ IsFiniteSet(Applied)
         /\ DOMAIN sets = 1..Len(sets) /\ Len(sets) \in Nat
  <1>1. /\ sink \in Seq([id : Nat, qsi : DOMAIN sets]) /\ sets \in Seq(QualifierSets)
    BY DEF TypeOK
  <1>2. Popped \in [id : Nat, qsi : DOMAIN sets]
    BY <1>1, PopTakes DEF Popped
  <1>3. DOMAIN sets = 1..Len(sets) /\ Len(sets) \in Nat
    BY <1>1, LenProperties
  <1>4. Popped.id \in Nat /\ Popped.qsi \in DOMAIN sets
    BY <1>2
  <1>5. Applied \in QualifierSets /\ Applied \in SUBSET Qualifiers
    BY <1>1, <1>3, <1>4, ElementOfSeq DEF Applied, QualifierSets
  <1> QED
    BY <1>2, <1>3, <1>4, <1>5, QualifiersAssumption, FS_Subset

LEMMA NamedPlaced ==
  ASSUME NEW name \in (SUBSET Segments) \ {{}}, NEW qsi \in Nat,
         Home(Applied) = name, status' = status, status \in {"ok", "failed"},
         \/ name = {Other}
         \/ qsi \in DOMAIN sets' /\ sets'[qsi] # {} /\ sets'[qsi] \subseteq Applied,
         AddEntryToPackageWithName(Popped, name, qsi)
  PROVE  Placed
  <1>1. CASE status = "failed" /\ ~Allocated(name)
    BY <1>1 DEF AddEntryToPackageWithName, Placed
  <1>2. CASE ~(status = "failed" /\ ~Allocated(name))
    <2>1. Packed(Popped, name, qsi)
      BY <1>2 DEF AddEntryToPackageWithName, Packed
    <2> QED
      BY <2>1 DEF Placed
  <1> QED
    BY <1>1, <1>2

LEMMA KeptIs ==
  ASSUME NEW Q \in SUBSET Qualifiers, Kept(Q) # {}
  PROVE  /\ ArpQualifiers(Q) # {} /\ Kept(Q) \subseteq Q
         /\ Kept(Q) = IF config.each THEN ArpQualifiers(Q) ELSE Top(ArpQualifiers(Q))
  <1>1. ArpQualifiers(Q) \in SUBSET Qualifiers
    BY DEF ArpQualifiers
  <1>2. ~config.each => Dominant(ArpQualifiers(Q)) = Top(ArpQualifiers(Q))
    BY <1>1, DominantIsTop DEF Kept
  <1> QED
    BY <1>2 DEF Kept, Dominant, ArpQualifiers

LEMMA AutomaticHome ==
  ASSUME config \in Configurations, config.mode = "auto",
         NEW Q \in SUBSET Qualifiers, ArpQualifiers(Q) # {}
  PROVE  Home(Q) = Affinities(IF config.each THEN ArpQualifiers(Q) ELSE Top(ArpQualifiers(Q)))
  BY DEF Home, ArpQualifiers, Affinities

LEMMA AffinityPlaced ==
  ASSUME config \in Configurations, config.mode = "auto",
         Applied \in SUBSET Qualifiers, ArpQualifiers(Applied) # {},
         status' = status, status \in {"ok", "failed"},
         NEW qsi \in Nat, qsi \in DOMAIN sets',
         sets'[qsi] # {}, sets'[qsi] \subseteq Applied,
         sets'[qsi] = IF config.each THEN ArpQualifiers(Applied) ELSE Top(ArpQualifiers(Applied)),
         AddEntryByAffinity(Popped, qsi)
  PROVE  Placed
  <1>1. Home(Applied) = Affinities(sets'[qsi])
    BY AutomaticHome
  <1>2. Affinities(sets'[qsi]) \in SUBSET Segments
    BY ConfigurationsAssumption DEF Affinities
  <1>3. CASE Affinities(sets'[qsi]) = {}
    BY <1>1, <1>3 DEF AddEntryByAffinity, Placed
  <1>4. CASE Affinities(sets'[qsi]) # {}
    <2>1. AddEntryToPackageWithName(Popped, Affinities(sets'[qsi]), qsi)
      BY <1>4 DEF AddEntryByAffinity
    <2> QED
      BY <1>1, <1>2, <1>4, <2>1, NamedPlaced
  <1> QED
    BY <1>3, <1>4

LEMMA ManualHome ==
  ASSUME config.mode = "manual", NEW Q
  PROVE  Home(Q) = UNION {config.manual[q] : q \in Top(ManualQualifiers(Q))}
  <1>1. {q \in Q : q \in DOMAIN config.manual} = ManualQualifiers(Q)
    BY DEF ManualQualifiers
  <1> QED
    BY <1>1 DEF Home

LEMMA MatchIs ==
  ASSUME NEW Q \in SUBSET Qualifiers, Match(Q) # {}
  PROVE  /\ Match(Q) = Top(ManualQualifiers(Q))
         /\ Match(Q) \subseteq ManualQualifiers(Q)
  <1>1. ManualQualifiers(Q) \in SUBSET Qualifiers
    BY DEF ManualQualifiers
  <1> QED
    BY <1>1, SingleIsTop, DominantIsTop DEF Match, Dominant

\* A set has one qualifier of each name, and each priority is one name's.
LEMMA MatchIsSingle ==
  ASSUME NEW Q \in QualifierSets, Match(Q) # {}
  PROVE  Match(Q) \in Singles(Q)
  <1> DEFINE M == ManualQualifiers(Q)
  <1>1. M \subseteq Q /\ Q \subseteq Qualifiers /\ IsFiniteSet(M)
    <2>1. M \in SUBSET Qualifiers
      BY DEF ManualQualifiers, QualifierSets
    <2> QED
      BY <2>1, QualifiersAssumption, FS_Subset DEF ManualQualifiers, QualifierSets
  <1>2. CASE Cardinality(M) = 1
    BY <1>1, <1>2, FS_Singleton DEF Match, Singles
  <1>3. CASE Cardinality(M) # 1
    <2>1. Match(Q) = Dominant(M)
      BY <1>3 DEF Match
    <2>2. PICK d \in Dominant(M) : TRUE
      BY <2>1
    <2> HIDE DEF M
    <2>3. d \in M /\ Priority[NameOf[d]] \in Nat /\ Priority[NameOf[d]] > 0
      BY <1>1, <2>2, QualifiersAssumption DEF Dominant, Names
    <2>4. ASSUME NEW e \in Dominant(M) PROVE e = d
      <3>1. e \in M /\ Priority[NameOf[e]] \in Nat
        BY <1>1, QualifiersAssumption DEF Dominant, Names
      <3>2. Priority[NameOf[e]] = Priority[NameOf[d]]
        BY <2>2, <2>3, <3>1 DEF Dominant
      <3>3. NameOf[e] \in Names /\ NameOf[d] \in Names
        BY <1>1, <2>3, <3>1 DEF Names
      <3>4. NameOf[e] = NameOf[d]
        BY <2>3, <3>2, <3>3, QualifiersAssumption
      <3> QED
        BY <1>1, <2>3, <3>1, <3>4 DEF QualifierSets
    <2> QED
      BY <1>1, <2>1, <2>2, <2>3, <2>4 DEF Singles
  <1> QED
    BY <1>2, <1>3

LEMMA QsiPlaced ==
  ASSUME config \in Configurations, config.mode = "manual",
         Applied \in SUBSET Qualifiers,
         status' = status, status \in {"ok", "failed"},
         NEW qsi \in Nat,
         \/ ManualQualifiers(Applied) = {} /\ qsi = NoQsi
         \/ /\ ManualQualifiers(Applied) # {} /\ Match(Applied) # {} /\ qsi # NoQsi
            /\ qsi \in DOMAIN sets' /\ sets'[qsi] = Match(Applied),
         AddEntryByQsi(Popped, qsi)
  PROVE  Placed
  <1>1. CASE ManualQualifiers(Applied) = {} /\ qsi = NoQsi
    <2>1. Home(Applied) = {}
      BY <1>1, ManualHome DEF Top
    <2> QED
      BY <1>1, <2>1 DEF AddEntryByQsi, Placed
  <1>2. CASE /\ ManualQualifiers(Applied) # {} /\ Match(Applied) # {} /\ qsi # NoQsi
             /\ qsi \in DOMAIN sets' /\ sets'[qsi] = Match(Applied)
    <2> DEFINE name == UNION {config.manual[q] : q \in sets'[qsi]}
    <2>1. Home(Applied) = name /\ sets'[qsi] \subseteq ManualQualifiers(Applied)
      BY <1>2, ManualHome, MatchIs
    <2>2. \A q \in sets'[qsi] : \E segment \in Segments : config.manual[q] = {segment}
      BY <2>1, ConfigurationsAssumption DEF ManualQualifiers
    <2>3. name \in (SUBSET Segments) \ {{}}
      BY <2>2, <1>2
    <2>4. AddEntryToPackageWithName(Popped, name, qsi)
      BY <1>2 DEF AddEntryByQsi
    <2>5. sets'[qsi] # {} /\ sets'[qsi] \subseteq Applied
      BY <1>2, <2>1 DEF ManualQualifiers
    <2> HIDE DEF name
    <2> QED
      BY <1>2, <2>1, <2>3, <2>4, <2>5, NamedPlaced
  <1> QED
    BY <1>1, <1>2

LEMMA CacheKept ==
  ASSUME CacheOK, config' = config, cache' = cache, Extends(sets', sets)
  PROVE  CacheOK'
  <1> SUFFICES ASSUME NEW k \in DOMAIN cache
               PROVE  k \in DOMAIN sets' /\ SplitBy(sets, sets[k], cache[k])'
    BY DEF CacheOK
  <1>1. k \in DOMAIN sets /\ SplitBy(sets, sets[k], cache[k])
    BY DEF CacheOK
  <1>2. k \in DOMAIN sets' /\ sets'[k] = sets[k]
    BY <1>1 DEF Extends
  <1> QED
    BY <1>1, <1>2
    DEF Extends, SplitBy, SplitByKept, SplitByMatch, Kept, Match, Dominant, ArpQualifiers,
        ManualQualifiers

LEMMA CacheStored ==
  ASSUME CacheOK, config' = config, Extends(sets', sets),
         NEW k \in DOMAIN sets, NEW v, cache' = Put(cache, k, v), SplitBy(sets', sets[k], v)
  PROVE  CacheOK'
  <1>1. ASSUME NEW j \in DOMAIN cache'
        PROVE  j \in DOMAIN sets' /\ SplitBy(sets', sets[j], cache'[j]) /\ sets'[j] = sets[j]
    <2>1. CASE j = k
      BY <2>1 DEF Extends, Put
    <2>2. CASE j # k
      <3>1. j \in DOMAIN cache /\ cache'[j] = cache[j]
        BY <1>1, <2>2 DEF Put
      <3>2. j \in DOMAIN sets /\ SplitBy(sets, sets[j], cache[j])
        BY <3>1 DEF CacheOK
      <3>3. SplitBy(sets', sets[j], cache[j])
        BY <3>2 DEF Extends, SplitBy, SplitByKept, SplitByMatch
      <3> QED
        BY <3>1, <3>2, <3>3 DEF Extends
    <2> QED
      BY <2>1, <2>2
  <1> SUFFICES ASSUME NEW j \in DOMAIN cache'
               PROVE  (j \in DOMAIN sets)' /\ SplitBy(sets, sets[j], cache[j])'
    BY DEF CacheOK
  <1>2. j \in DOMAIN sets' /\ SplitBy(sets', sets'[j], cache'[j])
    BY <1>1
  <1> QED
    BY <1>2
    DEF SplitBy, SplitByKept, SplitByMatch, Kept, Match, Dominant, ArpQualifiers, ManualQualifiers

LEMMA Unchanged ==
  ASSUME TypeOK, sets' = sets
  PROVE  Extends(sets', sets)
  BY DEF TypeOK, Extends, Table

(***************************************************************************)
(* What every step of the split does.                                       *)
(***************************************************************************)
SplitFrame == pc = "split" /\ sink # <<>> /\ Pop /\ UNCHANGED <<config, pc, main, level>>

SplitStep == SplitFrame /\ config.mode # "fat" /\ Extends(sets', sets) /\ CacheOK' /\ Placed

LEMMA FrameOfSplit ==
  ASSUME Split
  PROVE  SplitFrame /\ config.mode # "fat"
  BY DEF Split, SplitFrame, SplitUnqualified, SplitByOwnQsi, SplitByCachedQsi, SplitByEffectiveQsi,
         SplitFails, MatchCached, MatchQualifiers, MatchFails, Automatic, Manual, Splitting

LEMMA AutomaticStep ==
  ASSUME TypeOK, CacheOK, Automatic,
         SplitUnqualified \/ SplitByOwnQsi \/ SplitByCachedQsi \/ SplitByEffectiveQsi \/ SplitFails
  PROVE  Extends(sets', sets) /\ CacheOK' /\ Placed
  <1>1. /\ config.mode = "auto" /\ sink # <<>> /\ config \in Configurations
        /\ status \in {"ok", "failed"} /\ config' = config
    BY DEF Automatic, Splitting, TypeOK
  <1>2. /\ Popped.qsi \in DOMAIN sets /\ Applied \in SUBSET Qualifiers /\ IsFiniteSet(Applied)
        /\ Applied \in QualifierSets
        /\ DOMAIN sets = 1..Len(sets) /\ Len(sets) \in Nat
        /\ Applied = sets[Popped.qsi]
    BY <1>1, PoppedType DEF Applied
  <1>3. Popped.qsi \in Nat
    BY <1>2
  <1>4. CASE SplitUnqualified
    <2>1. sets' = sets /\ cache' = cache /\ status' = status
      BY <1>4 DEF SplitUnqualified
    <2>2. Home(Applied) = IF config.granular THEN {Other} ELSE {}
      BY <1>1, <1>4 DEF SplitUnqualified, ArpQualifiers, Home
    <2>3. CASE config.granular
      <3>1. {Other} \in (SUBSET Segments) \ {{}}
        BY LengthAssumption
      <3>2. AddEntryToPackageWithName(Popped, {Other}, Len(sets) + 1)
        BY <1>4, <2>3 DEF SplitUnqualified
      <3>3. Len(sets) + 1 \in Nat /\ Home(Applied) = {Other}
        BY <1>2, <2>2, <2>3
      <3>4. Placed
        BY <1>1, <2>1, <3>1, <3>2, <3>3, NamedPlaced
      <3> QED
        BY <1>1, <2>1, <3>4, Unchanged, CacheKept
    <2>4. CASE ~config.granular
      BY <1>1, <1>4, <2>1, <2>2, <2>4, Unchanged, CacheKept DEF SplitUnqualified, Placed
    <2> QED
      BY <2>3, <2>4
  <1>5. CASE SplitByOwnQsi
    <2>1. /\ sets' = sets /\ cache' = cache /\ status' = status
          /\ ArpQualifiers(Applied) # {} /\ Cardinality(Applied) = 1
          /\ AddEntryByAffinity(Popped, Popped.qsi)
      BY <1>5 DEF SplitByOwnQsi
    <2>2. PICK q : Applied = {q}
      BY <1>2, <2>1, FS_Singleton
    <2>3. ArpQualifiers(Applied) = Applied
      BY <2>1, <2>2 DEF ArpQualifiers
    <2>4. Applied = Top(Applied)
      BY <1>2, <2>1, SingleIsTop
    <2>5. Placed
      BY <1>1, <1>2, <1>3, <2>1, <2>3, <2>4, AffinityPlaced
    <2> QED
      BY <1>1, <2>1, <2>5, Unchanged, CacheKept
  <1>6. CASE SplitByCachedQsi
    <2>1. /\ sets' = sets /\ cache' = cache /\ status' = status
          /\ Popped.qsi \in DOMAIN cache
          /\ AddEntryByAffinity(Popped, cache[Popped.qsi])
      BY <1>6 DEF SplitByCachedQsi
    <2>2. SplitByKept(sets, Applied, cache[Popped.qsi])
      BY <1>1, <1>2, <2>1 DEF CacheOK, SplitBy
    <2>3. cache[Popped.qsi] \in DOMAIN sets /\ cache[Popped.qsi] \in Nat
      BY <1>2, <2>2 DEF SplitByKept
    <2>4. Placed
      BY <1>1, <1>2, <2>1, <2>2, <2>3, AffinityPlaced, KeptIs DEF SplitByKept
    <2> QED
      BY <1>1, <2>1, <2>4, Unchanged, CacheKept
  <1>7. CASE SplitByEffectiveQsi
    <2> DEFINE effective == QsiOf(sets', Kept(Applied))
    <2>1. /\ sets' = Intern(sets, Kept(Applied)) /\ status' = status /\ Kept(Applied) # {}
          /\ cache' = Put(cache, Popped.qsi, effective)
          /\ AddEntryByAffinity(Popped, effective)
      BY <1>7 DEF SplitByEffectiveQsi
    <2>2. /\ ArpQualifiers(Applied) # {} /\ Kept(Applied) \in SUBSET Qualifiers
          /\ Kept(Applied) \subseteq Applied
          /\ Kept(Applied) = IF config.each THEN ArpQualifiers(Applied)
                                            ELSE Top(ArpQualifiers(Applied))
      BY <1>2, <2>1, KeptIs
    <2>3. Extends(sets', sets) /\ Kept(Applied) \in Known(sets')
      <3>1. {Kept(Applied)} \in SUBSET QualifierSets /\ sets \in Table /\ sets # <<>>
        BY <1>2, <2>2 DEF TypeOK, Table, QualifierSets
      <3> QED
        BY <2>1, <3>1, Interning DEF Intern
    <2>4. effective \in DOMAIN sets' /\ sets'[effective] = Kept(Applied)
      BY <2>3, FindsIts
    <2>5. effective \in Nat
      <3>1. sets' \in Seq(QualifierSets)
        BY <2>3 DEF Extends, Table
      <3>2. DOMAIN sets' = 1..Len(sets') /\ Len(sets') \in Nat
        BY <3>1, LenProperties
      <3> QED
        BY <2>4, <3>2
    <2> HIDE DEF effective
    <2>6. Placed
      BY <1>1, <1>2, <2>1, <2>2, <2>4, <2>5, AffinityPlaced
    <2>7. SplitBy(sets', sets[Popped.qsi], effective)
      BY <1>1, <1>2, <2>1, <2>4 DEF SplitBy, SplitByKept
    <2> QED
      BY <1>1, <1>2, <2>1, <2>3, <2>6, <2>7, CacheStored
  <1>8. CASE SplitFails
    <2>1. sets' = sets /\ cache' = cache /\ Lose(Popped) /\ status' = "failed"
      BY <1>8 DEF SplitFails
    <2> QED
      BY <1>1, <2>1, Unchanged, CacheKept DEF Placed
  <1> QED
    BY <1>4, <1>5, <1>6, <1>7, <1>8

LEMMA ManualStep ==
  ASSUME TypeOK, CacheOK, Manual, MatchCached \/ MatchQualifiers \/ MatchFails
  PROVE  Extends(sets', sets) /\ CacheOK' /\ Placed
  <1>1. /\ config.mode = "manual" /\ sink # <<>> /\ config \in Configurations
        /\ status \in {"ok", "failed"} /\ config' = config
    BY DEF Manual, Splitting, TypeOK
  <1>2. /\ Popped.qsi \in DOMAIN sets /\ Applied \in SUBSET Qualifiers /\ IsFiniteSet(Applied)
        /\ Applied \in QualifierSets
        /\ DOMAIN sets = 1..Len(sets) /\ Len(sets) \in Nat
        /\ Applied = sets[Popped.qsi]
    BY <1>1, PoppedType DEF Applied
  <1>3. sets \in Table /\ sets # <<>> /\ Singles(Applied) \in SUBSET QualifierSets
    BY <1>2 DEF TypeOK, Table, QualifierSets, Singles
  <1>4. CASE MatchCached
    <2>1. /\ sets' = sets /\ cache' = cache /\ status' = status
          /\ Popped.qsi \in DOMAIN cache
          /\ AddEntryByQsi(Popped, cache[Popped.qsi])
      BY <1>4 DEF MatchCached
    <2>2. SplitByMatch(sets, Applied, cache[Popped.qsi])
      BY <1>1, <1>2, <2>1 DEF CacheOK, SplitBy
    <2>3. /\ cache[Popped.qsi] \in Nat
          /\ cache[Popped.qsi] \in DOMAIN sets => cache[Popped.qsi] # NoQsi
      BY <1>2, <2>2 DEF SplitByMatch, NoQsi
    <2>4. Placed
      BY <1>1, <1>2, <2>1, <2>2, <2>3, QsiPlaced DEF SplitByMatch
    <2> QED
      BY <1>1, <2>1, <2>4, Unchanged, CacheKept
  <1>5. CASE MatchQualifiers
    <2> DEFINE qsi == IF ManualQualifiers(Applied) = {} THEN NoQsi
                                                       ELSE QsiOf(sets', Match(Applied))
    <2>1. /\ sets' = InternAll(sets, Singles(Applied)) /\ status' = status
          /\ ManualQualifiers(Applied) = {} \/ Match(Applied) # {}
          /\ cache' = Put(cache, Popped.qsi, qsi)
          /\ AddEntryByQsi(Popped, qsi)
      BY <1>5 DEF MatchQualifiers
    <2>2. Extends(sets', sets) /\ Known(sets') = Known(sets) \cup Singles(Applied)
      BY <1>3, <2>1, Interning
    <2>3. DOMAIN sets' = 1..Len(sets') /\ Len(sets') \in Nat
      <3>1. sets' \in Seq(QualifierSets)
        BY <2>2 DEF Extends, Table
      <3> QED
        BY <3>1, LenProperties
    <2>4. CASE ManualQualifiers(Applied) = {}
      <3>1. qsi = NoQsi /\ NoQsi \in Nat
        BY <2>4 DEF NoQsi
      <3> HIDE DEF qsi
      <3>2. Placed
        BY <1>1, <1>2, <2>1, <2>4, <3>1, QsiPlaced
      <3>3. SplitBy(sets', sets[Popped.qsi], qsi)
        BY <1>1, <1>2, <2>4, <3>1 DEF SplitBy, SplitByMatch
      <3> QED
        BY <1>1, <1>2, <2>1, <2>2, <3>2, <3>3, CacheStored
    <2>5. CASE ManualQualifiers(Applied) # {}
      <3>1. Match(Applied) \in Known(sets')
        BY <1>2, <2>1, <2>2, <2>5, MatchIsSingle
      <3>2. qsi \in DOMAIN sets' /\ sets'[qsi] = Match(Applied)
        BY <2>5, <3>1, FindsIts
      <3>3. qsi \in Nat /\ qsi # NoQsi
        BY <2>3, <3>2 DEF NoQsi
      <3> HIDE DEF qsi
      <3>4. Placed
        BY <1>1, <1>2, <2>1, <2>5, <3>2, <3>3, QsiPlaced
      <3>5. SplitBy(sets', sets[Popped.qsi], qsi)
        BY <1>1, <1>2, <2>1, <2>5, <3>2 DEF SplitBy, SplitByMatch
      <3> QED
        BY <1>1, <1>2, <2>1, <2>2, <3>4, <3>5, CacheStored
    <2> QED
      BY <2>4, <2>5
  <1>6. CASE MatchFails
    <2>1. /\ sets' = InternAll(sets, Singles(Applied)) /\ cache' = cache
          /\ Lose(Popped) /\ status' = "failed"
      BY <1>6 DEF MatchFails
    <2>2. Extends(sets', sets)
      BY <1>3, <2>1, Interning
    <2> QED
      BY <1>1, <2>1, <2>2, CacheKept DEF Placed
  <1> QED
    BY <1>4, <1>5, <1>6

LEMMA StepOfSplit ==
  ASSUME TypeOK, CacheOK, Split
  PROVE  SplitStep
  <1>1. SplitFrame /\ config.mode # "fat"
    BY FrameOfSplit
  <1>2. CASE SplitUnqualified \/ SplitByOwnQsi \/ SplitByCachedQsi \/ SplitByEffectiveQsi \/ SplitFails
    <2>1. Automatic
      BY <1>2 DEF SplitUnqualified, SplitByOwnQsi, SplitByCachedQsi, SplitByEffectiveQsi, SplitFails
    <2> QED
      BY <1>1, <1>2, <2>1, AutomaticStep DEF SplitStep
  <1>3. CASE MatchCached \/ MatchQualifiers \/ MatchFails
    <2>1. Manual
      BY <1>3 DEF MatchCached, MatchQualifiers, MatchFails
    <2> QED
      BY <1>1, <1>3, <2>1, ManualStep DEF SplitStep
  <1> QED
    BY <1>2, <1>3 DEF Split

-----------------------------------------------------------------------------
(***************************************************************************)
(* What placing an entry does to the packages.                              *)
(***************************************************************************)
LEMMA PackedIs ==
  ASSUME NEW name, NEW qsi, Packed(Popped, name, qsi)
  PROVE  /\ DOMAIN packs' = DOMAIN packs \cup {name}
         /\ \A n \in DOMAIN packs : n # name => packs'[n] = packs[n]
         /\ packs'[name] = {Popped} \cup IF name \in DOMAIN packs THEN packs[name] ELSE {}
         /\ DOMAIN reported' = DOMAIN reported \cup {name}
         /\ \A n \in DOMAIN reported : n # name => reported'[n] = reported[n]
         /\ reported'[name] = {qsi} \cup IF Allocated(name) THEN reported[name] ELSE {}
         /\ fat' = fat /\ lost' = lost
  BY DEF Packed, Put, Allocated

LEMMA PlacedEntries ==
  ASSUME Placed
  PROVE  Entries' = Entries \cup {Popped}
  <1>1. CASE Lose(Popped)
    BY <1>1 DEF Lose, Entries
  <1>2. CASE MoveToFat(Popped)
    BY <1>2 DEF MoveToFat, Entries
  <1>3. ASSUME NEW name, NEW qsi, Packed(Popped, name, qsi)
        PROVE  Entries' = Entries \cup {Popped}
    <2> DEFINE U == UNION {packs[n] : n \in DOMAIN packs}
               V == UNION {packs'[n] : n \in DOMAIN packs'}
    <2>1. U \subseteq V
      <3> SUFFICES ASSUME NEW n \in DOMAIN packs PROVE packs[n] \subseteq V
        OBVIOUS
      <3>1. n \in DOMAIN packs' /\ packs[n] \subseteq packs'[n]
        BY <1>3, PackedIs
      <3> QED
        BY <3>1
    <2>2. Popped \in V
      <3>1. name \in DOMAIN packs' /\ Popped \in packs'[name]
        BY <1>3 DEF Packed, Put
      <3> QED
        BY <3>1
    <2>3. V \subseteq U \cup {Popped}
      <3> SUFFICES ASSUME NEW n \in DOMAIN packs' PROVE packs'[n] \subseteq U \cup {Popped}
        OBVIOUS
      <3>1. (n \in DOMAIN packs /\ packs'[n] \subseteq packs[n] \cup {Popped}) \/ packs'[n] = {Popped}
        BY <1>3, PackedIs
      <3> QED
        BY <3>1
    <2>4. V = U \cup {Popped}
      BY <2>1, <2>2, <2>3
    <2>5. Entries = fat \cup lost \cup U /\ Entries' = fat' \cup lost' \cup V
      BY DEF Entries
    <2>6. fat' = fat /\ lost' = lost
      BY <1>3 DEF Packed
    <2> QED
      BY <2>4, <2>5, <2>6
  <1> QED
    BY <1>1, <1>2, <1>3 DEF Placed

LEMMA PlacedNames ==
  ASSUME TypeOK, Placed
  PROVE  /\ DOMAIN reported' = DOMAIN packs' \cup {{}}
         /\ DOMAIN packs' \subseteq (SUBSET Segments) \ {{}}
         /\ DOMAIN packs \subseteq DOMAIN packs'
         /\ status' \in {"ok", "failed"}
  <1>0. /\ DOMAIN reported = DOMAIN packs \cup {{}}
        /\ DOMAIN packs \subseteq (SUBSET Segments) \ {{}}
        /\ status \in {"ok", "failed"}
    BY DEF TypeOK
  <1>1. CASE Lose(Popped) /\ status' = "failed"
    BY <1>0, <1>1 DEF Lose
  <1>2. CASE MoveToFat(Popped) /\ status' = status
    BY <1>0, <1>2 DEF MoveToFat, Put
  <1>3. ASSUME NEW name \in (SUBSET Segments) \ {{}}, NEW qsi, Packed(Popped, name, qsi),
               status' = status
        PROVE  /\ DOMAIN reported' = DOMAIN packs' \cup {{}}
               /\ DOMAIN packs' \subseteq (SUBSET Segments) \ {{}}
               /\ DOMAIN packs \subseteq DOMAIN packs'
               /\ status' \in {"ok", "failed"}
    <2>1. /\ DOMAIN packs' = DOMAIN packs \cup {name}
          /\ DOMAIN reported' = DOMAIN reported \cup {name}
      BY <1>3, PackedIs
    <2> QED
      BY <1>0, <1>3, <2>1
  <1> QED
    BY <1>1, <1>2, <1>3 DEF Placed

(***************************************************************************)
(* The type invariant, with what the cache knows.                           *)
(***************************************************************************)
TypeInv == TypeOK /\ CacheOK

LEMMA TypeOfSplit ==
  ASSUME TypeInv, SplitStep
  PROVE  TypeInv'
  <1>1. /\ TypeOK /\ CacheOK /\ sink # <<>> /\ Pop /\ Placed /\ Extends(sets', sets) /\ CacheOK'
        /\ config.mode # "fat" /\ UNCHANGED <<config, pc, main, level>>
    BY DEF TypeInv, SplitStep, SplitFrame
  <1>2. config' \in Configurations /\ pc' \in {"reference", "split", "done"}
        /\ main' \subseteq Nat /\ level' \in 0..3
    BY <1>1 DEF TypeOK
  <1>3. sets' \in Seq(QualifierSets) /\ sets' # <<>> /\ DOMAIN sets \subseteq DOMAIN sets'
    BY <1>1 DEF Extends, Table
  <1>4. sink' \in Seq([id : Nat, qsi : DOMAIN sets'])
    <2>1. sink' \in Seq([id : Nat, qsi : DOMAIN sets])
      BY <1>1, PopTakes DEF TypeOK, Pop
    <2>2. [id : Nat, qsi : DOMAIN sets] \subseteq [id : Nat, qsi : DOMAIN sets']
      BY <1>3
    <2> QED
      BY <2>1, <2>2, SeqMonotonic
  <1>5. \A e \in Entries' : IsEntry(e)'
    <2>1. Entries' = Entries \cup {Popped} /\ \A e \in Entries : IsEntry(e)
      BY <1>1, PlacedEntries DEF TypeOK
    <2>2. Popped \in [id : Nat, qsi : DOMAIN sets]
      BY <1>1, PoppedType
    <2>3. IsEntry(Popped)
      BY <2>2 DEF IsEntry
    <2>4. \A e \in Entries \cup {Popped} : IsEntry(e)
      BY <2>1, <2>3
    <2> QED
      BY <1>3, <2>1, <2>4 DEF IsEntry
  <1>6. /\ DOMAIN reported' = DOMAIN packs' \cup {{}}
        /\ DOMAIN packs' \subseteq (SUBSET Segments) \ {{}}
        /\ status' \in {"ok", "failed"}
    BY <1>1, PlacedNames
  <1>7. /\ DOMAIN cache' \subseteq DOMAIN sets'
        /\ \A qsi \in DOMAIN cache' : cache'[qsi] \in DOMAIN sets' \cup {NoQsi}
    <2>1. config.mode = "auto" \/ config.mode = "manual"
      BY <1>1, ConfigurationsAssumption DEF TypeOK
    <2> QED
      BY <1>1, <2>1 DEF CacheOK, SplitBy, SplitByKept, SplitByMatch
  <1>8. TypeOK'
    BY <1>2, <1>3, <1>4, <1>5, <1>6, <1>7 DEF TypeOK
  <1> QED
    BY <1>1, <1>8 DEF TypeInv

LEMMA CalibratedType ==
  ASSUME level \in 0..3, NEW order
  PROVE  Calibrated(order) \in 0..3
  BY DEF Calibrated

LEMMA DoneEntries ==
  ASSUME ManualDone
  PROVE  Entries' = Entries
  <1>1. CASE status = "ok"
    <2>1. packs' = [name \in Used |-> packs[name]] /\ fat' = fat /\ lost' = lost
      BY <1>1 DEF ManualDone
    <2>2. UNION {packs'[n] : n \in DOMAIN packs'} = UNION {packs[n] : n \in DOMAIN packs}
      BY <2>1 DEF Used
    <2> QED
      BY <2>1, <2>2 DEF Entries
  <1>2. CASE status # "ok"
    BY <1>2 DEF ManualDone, Entries
  <1> QED
    BY <1>1, <1>2

LEMMA TypeOfNext ==
  ASSUME TypeInv, [Next]_vars
  PROVE  TypeInv'
  <1>0. TypeOK /\ CacheOK
    BY DEF TypeInv
  <1>1. CASE ReferenceEntries
    <2>1. /\ UNCHANGED <<config, sets, sink, fat, packs, cache, level, status, lost>>
          /\ main' = {sink[k].id : k \in DOMAIN sink}
          /\ pc' \in {"split", "done"}
          /\ reported' = reported \/ reported' = Put(reported, {}, 2..Len(sets))
      BY <1>1 DEF ReferenceEntries
    <2>2. main' \subseteq Nat
      <3>1. sink \in Seq([id : Nat, qsi : DOMAIN sets])
        BY <1>0 DEF TypeOK
      <3>2. DOMAIN sink = 1..Len(sink) /\ \A k \in 1..Len(sink) : sink[k] \in [id : Nat, qsi : DOMAIN sets]
        BY <3>1, LenProperties, ElementOfSeq
      <3> QED
        BY <2>1, <3>2
    <2>3. DOMAIN reported' = DOMAIN packs' \cup {{}}
      BY <1>0, <2>1 DEF TypeOK, Put
    <2>4. Entries' = Entries /\ \A e : IsEntry(e)' = IsEntry(e)
      BY <2>1 DEF Entries, IsEntry
    <2>5. TypeOK'
      BY <1>0, <2>1, <2>2, <2>3, <2>4 DEF TypeOK
    <2> QED
      BY <1>0, <2>1, <2>5, Unchanged, CacheKept DEF TypeInv
  <1>2. CASE Split
    BY <1>0, <1>2, StepOfSplit, TypeOfSplit
  <1>3. CASE AutomaticDone
    <2>1. /\ UNCHANGED <<config, sets, sink, main, fat, packs, reported, cache, status, lost>>
          /\ pc' = "done" /\ level' \in 0..3
      BY <1>0, <1>3, CalibratedType DEF AutomaticDone, TypeOK
    <2>2. Entries' = Entries /\ \A e : IsEntry(e)' = IsEntry(e)
      BY <2>1 DEF Entries, IsEntry
    <2>3. TypeOK'
      BY <1>0, <2>1, <2>2 DEF TypeOK
    <2> QED
      BY <1>0, <2>1, <2>3, Unchanged, CacheKept DEF TypeInv
  <1>4. CASE ManualDone
    <2>1. /\ UNCHANGED <<config, sets, sink, main, fat, cache, level, status, lost>> /\ pc' = "done"
          /\ \/ packs' = packs /\ reported' = reported
             \/ /\ packs' = [name \in Used |-> packs[name]]
                /\ reported' = [name \in Used \cup {{}} |-> reported[name]]
      BY <1>4 DEF ManualDone
    <2>2. DOMAIN packs' \subseteq DOMAIN packs /\ DOMAIN reported' = DOMAIN packs' \cup {{}}
      BY <1>0, <2>1 DEF Used, TypeOK
    <2>3. Entries' = Entries /\ \A e : IsEntry(e)' = IsEntry(e)
      BY <1>4, <2>1, DoneEntries DEF IsEntry
    <2>4. TypeOK'
      BY <1>0, <2>1, <2>2, <2>3 DEF TypeOK
    <2> QED
      BY <1>0, <2>1, <2>4, Unchanged, CacheKept DEF TypeInv
  <1>5. CASE UNCHANGED vars
    <2>1. Entries' = Entries /\ \A e : IsEntry(e)' = IsEntry(e)
      BY <1>5 DEF vars, Entries, IsEntry
    <2>2. TypeOK'
      BY <1>0, <1>5, <2>1 DEF vars, TypeOK
    <2> QED
      BY <1>0, <1>5, <2>2, Unchanged, CacheKept DEF vars, TypeInv
  <1> QED
    BY <1>1, <1>2, <1>3, <1>4, <1>5 DEF Next, Terminated

LEMMA InitSets ==
  ASSUME Init
  PROVE  /\ config \in Configurations
         /\ sets \in Table /\ sets # <<>>
         /\ sink \in Seq([id : Nat, qsi : DOMAIN sets])
         /\ \A j, k \in DOMAIN sink : sink[j].id = sink[k].id => j = k
  <1>1. config \in Configurations
    BY DEF Init
  <1>2. PICK project \in Projects :
          LET needed == Known(project) \cup (IF config.mode = "manual"
                                             THEN Singles(DOMAIN config.manual) ELSE {})
          IN  /\ sets = InternAll(<<{}>>, needed)
              /\ sink = [k \in DOMAIN project |-> [id |-> k, qsi |-> QsiOf(sets, project[k])]]
    BY DEF Init
  <1> DEFINE needed == Known(project) \cup (IF config.mode = "manual"
                                            THEN Singles(DOMAIN config.manual) ELSE {})
  <1>3. project \in Seq(QualifierSets)
    BY ProjectsAssumption
  <1>4. /\ DOMAIN project = 1..Len(project) /\ Len(project) \in Nat
        /\ \A k \in 1..Len(project) : project[k] \in QualifierSets
    BY <1>3, LenProperties, ElementOfSeq
  <1>5. needed \in SUBSET QualifierSets
    <2>1. Known(project) \subseteq QualifierSets
      BY <1>4 DEF Known
    <2>2. Singles(DOMAIN config.manual) \subseteq QualifierSets
      BY <1>1, ConfigurationsAssumption DEF Singles, QualifierSets
    <2> QED
      BY <2>1, <2>2
  <1>6. <<{}>> \in Table /\ <<{}>> # <<>>
    BY DEF Table, QualifierSets
  <1> HIDE DEF needed
  <1>7. sets = InternAll(<<{}>>, needed)
    BY <1>2 DEF needed
  <1>8. /\ sets \in Table /\ sets # <<>>
        /\ needed \subseteq Known(sets)
    BY <1>5, <1>6, <1>7, Interning DEF Extends
  <1>9. \A k \in DOMAIN project : QsiOf(sets, project[k]) \in DOMAIN sets
    <2> TAKE k \in DOMAIN project
    <2>1. project[k] \in Known(sets)
      BY <1>8 DEF needed, Known
    <2> QED
      BY <2>1, FindsIts
  <1>10. sink = [k \in 1..Len(project) |-> [id |-> k, qsi |-> QsiOf(sets, project[k])]]
    BY <1>2, <1>4
  <1>11. sink \in [1..Len(project) -> [id : Nat, qsi : DOMAIN sets]]
    BY <1>4, <1>9, <1>10
  <1>12. sink \in Seq([id : Nat, qsi : DOMAIN sets])
    <2>1. \A S : [1..Len(project) -> S] \subseteq Seq(S)
      BY <1>4, SeqDef
    <2> QED
      BY <1>11, <2>1
  <1>13. \A j, k \in DOMAIN sink : sink[j].id = sink[k].id => j = k
    BY <1>10
  <1> QED
    BY <1>1, <1>8, <1>12, <1>13

LEMMA InitEntries ==
  ASSUME Init
  PROVE  Entries = {} /\ fat = {} /\ lost = {} /\ \A n \in DOMAIN packs : packs[n] = {}
  BY DEF Init, Entries

LEMMA TypeOfInit ==
  ASSUME Init
  PROVE  TypeInv
  <1>1. /\ config \in Configurations
        /\ sets \in Seq(QualifierSets) /\ sets # <<>>
        /\ sink \in Seq([id : Nat, qsi : DOMAIN sets])
        /\ \A e \in Entries : IsEntry(e)
    BY InitSets, InitEntries DEF Table
  <1>2. /\ pc = "reference" /\ main = {} /\ status = "ok" /\ level = config.level
        /\ DOMAIN packs = config.declared /\ DOMAIN reported = config.declared \cup {{}}
        /\ DOMAIN cache = {}
    BY DEF Init
  <1>3. level \in 0..3 /\ DOMAIN packs \subseteq (SUBSET Segments) \ {{}}
    <2>1. config.level \in {0, 1} /\ config.declared \subseteq {{segment} : segment \in Segments}
      BY <1>1, ConfigurationsAssumption
    <2>2. \A name \in DOMAIN packs : name \in (SUBSET Segments) \ {{}}
      BY <1>2, <2>1
    <2>3. level \in 0..3
      BY <1>2, <2>1
    <2> QED
      BY <2>2, <2>3
  <1> QED
    BY <1>1, <1>2, <1>3 DEF TypeInv, TypeOK, CacheOK

\* A split interns qualifier sets and remembers how it split them, but a QSI
\* never changes its meaning: everything that is kept refers to known sets.
THEOREM TypeCorrect == Spec => []TypeOK
  <1>1. Spec => []TypeInv
    BY TypeOfInit, TypeOfNext, PTL DEF Spec
  <1>2. TypeInv => TypeOK
    BY DEF TypeInv
  <1> QED
    BY <1>1, <1>2, PTL

-----------------------------------------------------------------------------
(***************************************************************************)
(* No entry is lost: the ids still in the sink are distinct, and none of    *)
(* them is the id of an entry that was placed.                              *)
(***************************************************************************)
OnceInv ==
  /\ EntryOnce
  /\ \A j, k \in DOMAIN sink : sink[j].id = sink[k].id => j = k
  /\ pc = "reference" => Entries = {}

LEMMA PopIds ==
  ASSUME TypeOK, sink # <<>>, Pop,
         \A j, k \in DOMAIN sink : sink[j].id = sink[k].id => j = k
  PROVE  /\ Ids = Ids' \cup {Popped.id} /\ Popped.id \notin Ids'
         /\ \A j, k \in DOMAIN sink' : sink'[j].id = sink'[k].id => j = k
  <1>1. /\ DOMAIN sink = DOMAIN sink' \cup {Len(sink)} /\ Len(sink) \notin DOMAIN sink'
        /\ \A k \in DOMAIN sink' : sink'[k] = sink[k]
    <2>1. sink \in Seq([id : Nat, qsi : DOMAIN sets])
      BY DEF TypeOK
    <2>2. sink' = SubSeq(sink, 1, Len(sink) - 1)
      BY DEF Pop
    <2> DEFINE E == [id : Nat, qsi : DOMAIN sets]
               f == SubSeq(sink, 1, Len(sink) - 1)
    <2>3. sink \in Seq(E)
      BY <2>1
    <2> HIDE DEF E
    <2>4. /\ DOMAIN sink = DOMAIN f \cup {Len(sink)} /\ Len(sink) \notin DOMAIN f
          /\ \A k \in DOMAIN f : f[k] = sink[k]
      BY <2>3, PopTakes, ZenonT(40)
    <2> HIDE DEF f
    <2> QED
      BY <2>2, <2>4 DEF f
  <1>2. Ids = {sink[k].id : k \in DOMAIN sink} /\ Ids' = {sink'[k].id : k \in DOMAIN sink'}
    BY DEF Ids
  <1>3. Popped = sink[Len(sink)]
    BY DEF Popped
  <1>4. Ids = Ids' \cup {Popped.id}
    <2>1. Popped.id \in Ids
      BY <1>1, <1>2, <1>3
    <2>2. ASSUME NEW k \in DOMAIN sink' PROVE sink'[k].id \in Ids
      <3>1. k \in DOMAIN sink /\ sink'[k] = sink[k]
        BY <1>1
      <3> QED
        BY <1>2, <3>1
    <2>3. ASSUME NEW k \in DOMAIN sink PROVE sink[k].id \in Ids' \cup {Popped.id}
      BY <1>1, <1>2, <1>3
    <2> QED
      BY <1>2, <2>1, <2>2, <2>3
  <1>5. Popped.id \notin Ids'
    BY <1>1, <1>2, <1>3
  <1> QED
    BY <1>1, <1>4, <1>5

LEMMA OnceOfSplit ==
  ASSUME TypeInv, OnceInv, SplitStep
  PROVE  OnceInv'
  <1>1. /\ TypeOK /\ sink # <<>> /\ Pop /\ Placed /\ pc = "split" /\ pc' = "split" /\ main' = main
    BY DEF TypeInv, SplitStep, SplitFrame
  <1>2. /\ Ids = Ids' \cup {Popped.id} /\ Popped.id \notin Ids'
        /\ \A j, k \in DOMAIN sink' : sink'[j].id = sink'[k].id => j = k
    BY <1>1, PopIds DEF OnceInv
  <1>3. Entries' = Entries \cup {Popped}
    BY <1>1, PlacedEntries
  <1>4. /\ main = Ids \cup {e.id : e \in Entries} /\ Ids \cap {e.id : e \in Entries} = {}
        /\ \A d, e \in Entries : d.id = e.id => d = e
    BY <1>1 DEF OnceInv, EntryOnce
  <1>5. Popped.id \notin {e.id : e \in Entries} /\ Popped \notin Entries
    BY <1>2, <1>4
  <1>6. {e.id : e \in Entries'} = {e.id : e \in Entries} \cup {Popped.id}
    BY <1>3
  <1>7. /\ main' = Ids' \cup {e.id : e \in Entries'} /\ Ids' \cap {e.id : e \in Entries'} = {}
        /\ \A d, e \in Entries' : d.id = e.id => d = e
    <2>1. \A d, e \in Entries' : d.id = e.id => d = e
      BY <1>3, <1>4, <1>5
    <2>2. main' = Ids' \cup {e.id : e \in Entries'}
      BY <1>1, <1>2, <1>4, <1>6
    <2>3. Ids' \cap {e.id : e \in Entries'} = {}
      BY <1>2, <1>4, <1>6
    <2> QED
      BY <2>1, <2>2, <2>3
  <1>8. /\ fat \cap lost = {}
        /\ lost # {} => status = "failed"
        /\ \A n \in DOMAIN packs : packs[n] \cap (fat \cup lost) = {}
        /\ \A m, n \in DOMAIN packs : m # n => packs[m] \cap packs[n] = {}
    BY DEF OnceInv, EntryOnce
  <1>9. Popped \notin fat /\ Popped \notin lost /\ \A n \in DOMAIN packs : Popped \notin packs[n]
    BY <1>5 DEF Entries
  <1>10. /\ fat' \cap lost' = {}
         /\ lost' # {} => status' = "failed"
         /\ \A n \in DOMAIN packs' : packs'[n] \cap (fat' \cup lost') = {}
         /\ \A m, n \in DOMAIN packs' : m # n => packs'[m] \cap packs'[n] = {}
    <2>1. CASE Lose(Popped) /\ status' = "failed"
      BY <1>8, <1>9, <2>1 DEF Lose
    <2>2. CASE MoveToFat(Popped) /\ status' = status
      BY <1>8, <1>9, <2>2 DEF MoveToFat
    <2>3. ASSUME NEW name, NEW qsi, Packed(Popped, name, qsi), status' = status
          PROVE  /\ fat' \cap lost' = {}
                 /\ lost' # {} => status' = "failed"
                 /\ \A n \in DOMAIN packs' : packs'[n] \cap (fat' \cup lost') = {}
                 /\ \A m, n \in DOMAIN packs' : m # n => packs'[m] \cap packs'[n] = {}
      <3>1. /\ DOMAIN packs' = DOMAIN packs \cup {name}
            /\ \A n \in DOMAIN packs : n # name => packs'[n] = packs[n]
            /\ packs'[name] = {Popped} \cup IF name \in DOMAIN packs THEN packs[name] ELSE {}
            /\ fat' = fat /\ lost' = lost
        BY <2>3, PackedIs
      <3>2. \A n \in DOMAIN packs' : n # name => n \in DOMAIN packs /\ packs'[n] = packs[n]
        BY <3>1
      <3>3. packs'[name] \cap (fat' \cup lost') = {}
        BY <1>8, <1>9, <3>1
      <3>4. \A n \in DOMAIN packs' : n # name => packs'[n] \cap packs'[name] = {}
        BY <1>8, <1>9, <3>1, <3>2
      <3> QED
        BY <1>8, <2>3, <3>1, <3>2, <3>3, <3>4
    <2> QED
      BY <1>1, <2>1, <2>2, <2>3 DEF Placed
  <1>11. EntryOnce'
    <2>1. \A m, n \in DOMAIN packs' :
            packs'[n] \cap (fat' \cup lost') = {} /\ (m # n => packs'[m] \cap packs'[n] = {})
      BY <1>10
    <2> QED
      BY <1>7, <1>10, <2>1 DEF EntryOnce
  <1> QED
    BY <1>1, <1>2, <1>11 DEF OnceInv

LEMMA OnceOfNext ==
  ASSUME TypeInv, OnceInv, [Next]_vars
  PROVE  OnceInv'
  <1>1. CASE ReferenceEntries
    <2>1. /\ UNCHANGED <<sink, fat, packs, status, lost>> /\ pc = "reference"
          /\ main' = Ids /\ pc' \in {"split", "done"}
      BY <1>1 DEF ReferenceEntries, Ids
    <2>2. Entries = {} /\ Entries' = Entries /\ Ids' = Ids
      BY <2>1 DEF OnceInv, Entries, Ids
    <2>3. EntryOnce'
      BY <2>1, <2>2 DEF OnceInv, EntryOnce
    <2> QED
      BY <2>1, <2>3 DEF OnceInv
  <1>2. CASE Split
    BY <1>2, StepOfSplit, OnceOfSplit DEF TypeInv
  <1>3. CASE AutomaticDone \/ ManualDone
    <2>1. /\ UNCHANGED <<sink, main, fat, status, lost>> /\ pc = "split" /\ pc' = "done"
          /\ DOMAIN packs' \subseteq DOMAIN packs /\ \A n \in DOMAIN packs' : packs'[n] = packs[n]
      BY <1>3 DEF AutomaticDone, ManualDone, Used
    <2>2. Entries' = Entries
      BY <1>3, DoneEntries DEF AutomaticDone, Entries
    <2>3. EntryOnce'
      BY <2>1, <2>2 DEF OnceInv, EntryOnce, Ids
    <2> QED
      BY <2>1, <2>3 DEF OnceInv
  <1>4. CASE UNCHANGED vars
    BY <1>4 DEF vars, OnceInv, EntryOnce, Entries, Ids
  <1> QED
    BY <1>1, <1>2, <1>3, <1>4 DEF Next, Terminated

LEMMA OnceOfInit ==
  ASSUME Init
  PROVE  OnceInv
  <1>1. pc = "reference"
    BY DEF Init
  <1> QED
    BY <1>1, InitSets, InitEntries DEF OnceInv, EntryOnce

\* The split of the index neither loses an entry nor puts it in two packages.
THEOREM NoEntryLost == Spec => []EntryOnce
  <1>1. Init => TypeInv /\ OnceInv
    BY TypeOfInit, OnceOfInit
  <1>2. TypeInv /\ OnceInv /\ [Next]_vars => (TypeInv /\ OnceInv)'
    BY TypeOfNext, OnceOfNext
  <1>3. OnceInv => EntryOnce
    BY DEF OnceInv
  <1> QED
    BY <1>1, <1>2, <1>3, PTL DEF Spec

-----------------------------------------------------------------------------
(***************************************************************************)
(* Every entry is where its qualifiers say.  Only manual packages can be in *)
(* the list before they have an entry.                                      *)
(***************************************************************************)
HomeInv ==
  /\ EntriesAreHome
  /\ config.mode # "manual" => \A n \in DOMAIN packs : packs[n] # {}

LEMMA HomeOfSplit ==
  ASSUME TypeInv, HomeInv, SplitStep
  PROVE  HomeInv'
  <1>1. /\ TypeOK /\ sink # <<>> /\ Placed /\ pc' = "split" /\ config' = config
        /\ Extends(sets', sets)
    BY DEF TypeInv, SplitStep, SplitFrame
  <1>2. \A Q : Home(Q)' = Home(Q)
    BY <1>1 DEF Home, Top
  <1>3. \A e \in Entries \cup {Popped} : sets'[e.qsi] = sets[e.qsi]
    <2>1. \A e \in Entries : e.qsi \in DOMAIN sets
      BY <1>1 DEF TypeOK, IsEntry
    <2>2. Popped.qsi \in DOMAIN sets
      BY <1>1, PoppedType
    <2> QED
      BY <1>1, <2>1, <2>2 DEF Extends
  <1>4. /\ \A e \in fat : Home(sets'[e.qsi]) = {}
        /\ \A n \in DOMAIN packs : \A e \in packs[n] : Home(sets'[e.qsi]) = n
    BY <1>3 DEF HomeInv, EntriesAreHome, Entries
  <1>5. Home(sets'[Popped.qsi]) = Home(Applied)
    BY <1>3 DEF Applied
  <1>6. /\ \A e \in fat' : Home(sets'[e.qsi]) = {}
        /\ \A n \in DOMAIN packs' : \A e \in packs'[n] : Home(sets'[e.qsi]) = n
        /\ config.mode # "manual" => \A n \in DOMAIN packs' : packs'[n] # {}
    <2>1. CASE Lose(Popped)
      BY <1>4, <2>1 DEF Lose, HomeInv
    <2>2. CASE MoveToFat(Popped) /\ Home(Applied) = {}
      BY <1>4, <1>5, <2>2 DEF MoveToFat, HomeInv
    <2>3. ASSUME NEW name, NEW qsi, Packed(Popped, name, qsi), Home(Applied) = name
          PROVE  /\ \A e \in fat' : Home(sets'[e.qsi]) = {}
                 /\ \A n \in DOMAIN packs' : \A e \in packs'[n] : Home(sets'[e.qsi]) = n
                 /\ config.mode # "manual" => \A n \in DOMAIN packs' : packs'[n] # {}
      <3>0. Packed(Popped, name, qsi)
        BY <2>3
      <3>1. /\ DOMAIN packs' = DOMAIN packs \cup {name}
            /\ \A n \in DOMAIN packs : n # name => packs'[n] = packs[n]
            /\ packs'[name] = {Popped} \cup IF name \in DOMAIN packs THEN packs[name] ELSE {}
            /\ fat' = fat /\ lost' = lost
        BY <3>0, PackedIs
      <3>2. \A n \in DOMAIN packs' : n # name => n \in DOMAIN packs /\ packs'[n] = packs[n]
        BY <3>1
      <3>3. \A e \in packs'[name] : Home(sets'[e.qsi]) = name
        BY <1>4, <1>5, <2>3, <3>1
      <3>4. packs'[name] # {}
        BY <3>1
      <3> QED
        BY <1>4, <3>1, <3>2, <3>3, <3>4 DEF HomeInv
    <2> QED
      BY <1>1, <2>1, <2>2, <2>3 DEF Placed
  <1>7. EntriesAreHome'
    BY <1>1, <1>2, <1>6 DEF EntriesAreHome
  <1> QED
    BY <1>1, <1>6, <1>7 DEF HomeInv

LEMMA HomeOfNext ==
  ASSUME TypeInv, HomeInv, [Next]_vars
  PROVE  HomeInv'
  <1>0. config \in Configurations
    BY DEF TypeInv, TypeOK
  <1>1. CASE Split
    BY <1>1, StepOfSplit, HomeOfSplit DEF TypeInv
  <1>2. ASSUME config' = config, sets' = sets, fat' = fat, status' = status,
               DOMAIN packs' \subseteq DOMAIN packs,
               \A n \in DOMAIN packs' : packs'[n] = packs[n],
               pc' = "done" /\ status = "ok" => \A n \in DOMAIN packs' : packs'[n] # {}
        PROVE  HomeInv'
    <2>1. \A Q : Home(Q)' = Home(Q)
      BY <1>2 DEF Home, Top
    <2>2. EntriesAreHome'
      BY <1>2, <2>1 DEF HomeInv, EntriesAreHome
    <2> QED
      BY <1>2, <2>2 DEF HomeInv
  <1>3. CASE ReferenceEntries
    <2>1. UNCHANGED <<config, sets, fat, packs, status>> /\ (pc' = "done" => config.mode = "fat")
      BY <1>3 DEF ReferenceEntries
    <2> QED
      BY <1>2, <2>1 DEF HomeInv
  <1>4. CASE AutomaticDone
    <2>1. UNCHANGED <<config, sets, fat, packs, status>> /\ config.mode = "auto"
      BY <1>4 DEF AutomaticDone
    <2> QED
      BY <1>2, <2>1 DEF HomeInv
  <1>5. CASE ManualDone
    <2>1. /\ UNCHANGED <<config, sets, fat, status>>
          /\ \/ status # "ok" /\ packs' = packs
             \/ packs' = [name \in Used |-> packs[name]]
      BY <1>5 DEF ManualDone
    <2>2. /\ DOMAIN packs' \subseteq DOMAIN packs /\ \A n \in DOMAIN packs' : packs'[n] = packs[n]
          /\ status = "ok" => \A n \in DOMAIN packs' : packs'[n] # {}
      BY <2>1 DEF Used
    <2> QED
      BY <1>2, <2>1, <2>2
  <1>6. CASE UNCHANGED vars
    BY <1>2, <1>6 DEF vars, HomeInv, EntriesAreHome
  <1> QED
    BY <1>1, <1>3, <1>4, <1>5, <1>6 DEF Next, Terminated

LEMMA HomeOfInit ==
  ASSUME Init
  PROVE  HomeInv
  <1>1. config \in Configurations /\ pc = "reference" /\ DOMAIN packs = config.declared
    BY DEF Init
  <1>2. config.mode # "manual" => DOMAIN packs = {}
    BY <1>1, ConfigurationsAssumption
  <1> QED
    BY <1>1, <1>2, InitEntries DEF HomeInv, EntriesAreHome

\* The package of an entry is a function of its qualifiers and the configuration,
\* whatever was split before it; a successful split leaves no empty package.
THEOREM EntriesHome == Spec => []EntriesAreHome
  <1>1. Init => TypeInv /\ HomeInv
    BY TypeOfInit, HomeOfInit
  <1>2. TypeInv /\ HomeInv /\ [Next]_vars => (TypeInv /\ HomeInv)'
    BY TypeOfNext, HomeOfNext
  <1>3. HomeInv => EntriesAreHome
    BY DEF HomeInv
  <1> QED
    BY <1>1, <1>2, <1>3, PTL DEF Spec

-----------------------------------------------------------------------------
(***************************************************************************)
(* What a package reports: each reported set is part of the qualifiers of   *)
(* one of its entries, and each entry has one of these.                     *)
(***************************************************************************)
ReportsFor(t, name, entries, qsis) ==
  /\ \A qsi \in qsis : qsi \in DOMAIN t /\ \E e \in entries : t[qsi] \subseteq t[e.qsi]
  /\ \A e \in entries : \E qsi \in qsis :
       t[qsi] \subseteq t[e.qsi] /\ (name # {} => t[qsi] # {})

ReportInv ==
  config.mode # "fat" =>
    \A name \in DOMAIN reported \ {{Other}} : ReportsFor(sets, name, EntriesOf(name), reported[name])

LEMMA ReportInvIs == ReportInv <=> ReportsItsEntries
  BY DEF ReportInv, ReportsItsEntries, ReportsFor

\* Sets that are interned later do not change what is reported.
LEMMA ReportsKept ==
  ASSUME NEW s, NEW t, Extends(t, s), NEW name, NEW entries, NEW qsis,
         \A e \in entries : e.qsi \in DOMAIN s, ReportsFor(s, name, entries, qsis)
  PROVE  ReportsFor(t, name, entries, qsis)
  <1>1. ASSUME NEW qsi \in qsis
        PROVE  qsi \in DOMAIN t /\ t[qsi] = s[qsi] /\ \E e \in entries : t[qsi] \subseteq t[e.qsi]
    BY DEF Extends, ReportsFor
  <1>2. \A e \in entries : t[e.qsi] = s[e.qsi]
    BY DEF Extends
  <1> QED
    BY <1>1, <1>2 DEF ReportsFor

\* One more entry, and a set that is part of its qualifiers.
LEMMA ReportsMore ==
  ASSUME NEW t, NEW name, NEW entries, NEW qsis, ReportsFor(t, name, entries, qsis),
         NEW e, NEW qsi \in DOMAIN t, t[qsi] \subseteq t[e.qsi], name # {} => t[qsi] # {}
  PROVE  ReportsFor(t, name, entries \cup {e}, qsis \cup {qsi})
  BY DEF ReportsFor

LEMMA ReportsFirst ==
  ASSUME NEW t, NEW name,
         NEW e, NEW qsi \in DOMAIN t, t[qsi] \subseteq t[e.qsi], name # {} => t[qsi] # {}
  PROVE  ReportsFor(t, name, {e}, {qsi})
  BY DEF ReportsFor

LEMMA ReportsOfSplit ==
  ASSUME TypeInv, ReportInv, SplitStep
  PROVE  ReportInv'
  <1>1. /\ TypeOK /\ sink # <<>> /\ Placed /\ config' = config /\ config.mode # "fat"
        /\ Extends(sets', sets)
    BY DEF TypeInv, SplitStep, SplitFrame
  <1>2. /\ DOMAIN reported = DOMAIN packs \cup {{}} /\ {} \notin DOMAIN packs
        /\ \A e \in Entries : e.qsi \in DOMAIN sets
    BY <1>1 DEF TypeOK, IsEntry
  <1>3. Popped.qsi \in DOMAIN sets' /\ sets'[Popped.qsi] = Applied
    <2>1. Popped.qsi \in DOMAIN sets
      BY <1>1, PoppedType
    <2> QED
      BY <1>1, <2>1 DEF Extends, Applied
  <1>4. \A name \in DOMAIN reported \ {{Other}} :
          ReportsFor(sets', name, EntriesOf(name), reported[name])
    <2> TAKE name \in DOMAIN reported \ {{Other}}
    <2>1. EntriesOf(name) \subseteq Entries
      BY <1>2 DEF EntriesOf, Entries
    <2>2. ReportsFor(sets, name, EntriesOf(name), reported[name])
      BY <1>1 DEF ReportInv
    <2> QED
      BY <1>1, <1>2, <2>1, <2>2, ReportsKept
  <1>5. CASE Lose(Popped)
    <2>1. fat' = fat /\ packs' = packs /\ reported' = reported
      BY <1>5 DEF Lose
    <2>2. \A n \in DOMAIN reported' \ {{Other}} :
            ReportsFor(sets', n, IF n = {} THEN fat' ELSE packs'[n], reported'[n])
      BY <1>4, <2>1 DEF EntriesOf
    <2> QED
      BY <2>2 DEF ReportInv, EntriesOf, ReportsFor
  <1>6. CASE MoveToFat(Popped)
    <2>1. /\ fat' = fat \cup {Popped} /\ packs' = packs
          /\ reported' = Put(reported, {}, reported[{}] \cup {Popped.qsi})
      BY <1>6 DEF MoveToFat
    <2>2. /\ DOMAIN reported' = DOMAIN reported
          /\ reported'[{}] = reported[{}] \cup {Popped.qsi}
          /\ \A n \in DOMAIN reported : n # {} => reported'[n] = reported[n]
      BY <1>2, <2>1 DEF Put
    <2>3. {} \in DOMAIN reported \ {{Other}}
      BY <1>2
    <2>4. ReportsFor(sets', {}, fat, reported[{}])
      BY <1>4, <2>3 DEF EntriesOf
    <2>5. ReportsFor(sets', {}, fat', reported'[{}])
      <3>1. ReportsFor(sets', {}, fat \cup {Popped}, reported[{}] \cup {Popped.qsi})
        BY <1>3, <2>4, ReportsMore
      <3> QED
        BY <2>1, <2>2, <3>1
    <2>6. \A n \in DOMAIN reported' \ {{Other}} :
            ReportsFor(sets', n, IF n = {} THEN fat' ELSE packs'[n], reported'[n])
      BY <1>4, <2>1, <2>2, <2>5 DEF EntriesOf
    <2> QED
      BY <2>6 DEF ReportInv, EntriesOf, ReportsFor
  <1>7. ASSUME NEW name \in (SUBSET Segments) \ {{}}, NEW qsi \in Nat, Packed(Popped, name, qsi),
               \/ name = {Other}
               \/ qsi \in DOMAIN sets' /\ sets'[qsi] # {} /\ sets'[qsi] \subseteq Applied
        PROVE  ReportInv'
    <2>1. /\ \A n \in DOMAIN packs : n # name => packs'[n] = packs[n]
          /\ packs'[name] = {Popped} \cup IF name \in DOMAIN packs THEN packs[name] ELSE {}
          /\ fat' = fat /\ lost' = lost
      BY <1>7, PackedIs
    <2>2. /\ DOMAIN reported' = DOMAIN reported \cup {name}
          /\ \A n \in DOMAIN reported : n # name => reported'[n] = reported[n]
          /\ reported'[name] = {qsi} \cup IF Allocated(name) THEN reported[name] ELSE {}
      BY <1>7, PackedIs
    <2>3. ASSUME name # {Other}
          PROVE  ReportsFor(sets', name, packs'[name], reported'[name])
      <3>1. qsi \in DOMAIN sets' /\ sets'[qsi] # {} /\ sets'[qsi] \subseteq sets'[Popped.qsi]
        BY <1>3, <1>7, <2>3
      <3>2. CASE Allocated(name)
        <4>1. name \in DOMAIN reported \ {{Other}} /\ name \in DOMAIN packs
          BY <1>2, <2>3, <3>2 DEF Allocated
        <4>2. ReportsFor(sets', name, packs[name], reported[name])
          BY <1>2, <1>4, <4>1 DEF EntriesOf
        <4>3. ReportsFor(sets', name, packs[name] \cup {Popped}, reported[name] \cup {qsi})
          BY <3>1, <4>2, ReportsMore
        <4>4. packs'[name] = packs[name] \cup {Popped} /\ reported'[name] = reported[name] \cup {qsi}
          BY <2>1, <2>2, <3>2, <4>1
        <4> QED
          BY <4>3, <4>4
      <3>3. CASE ~Allocated(name)
        <4>1. packs'[name] = {Popped} /\ reported'[name] = {qsi}
          BY <2>1, <2>2, <3>3 DEF Allocated
        <4>2. ReportsFor(sets', name, {Popped}, {qsi})
          BY <3>1, ReportsFirst
        <4> QED
          BY <4>1, <4>2
      <3> QED
        BY <3>2, <3>3
    <2>4. \A n \in DOMAIN reported' \ {{Other}} :
            ReportsFor(sets', n, IF n = {} THEN fat' ELSE packs'[n], reported'[n])
      <3> TAKE n \in DOMAIN reported' \ {{Other}}
      <3>1. CASE n = name
        BY <1>7, <2>3, <3>1
      <3>2. CASE n # name
        <4>1. n \in DOMAIN reported \ {{Other}} /\ reported'[n] = reported[n]
          BY <2>2, <3>2
        <4>2. ReportsFor(sets', n, EntriesOf(n), reported[n])
          BY <1>4, <4>1
        <4>3. EntriesOf(n) = IF n = {} THEN fat' ELSE packs'[n]
          BY <1>2, <2>1, <3>2, <4>1 DEF EntriesOf
        <4> QED
          BY <4>1, <4>2, <4>3
      <3> QED
        BY <3>1, <3>2
    <2> QED
      BY <2>4 DEF ReportInv, EntriesOf, ReportsFor
  <1> QED
    BY <1>1, <1>5, <1>6, <1>7 DEF Placed

LEMMA ReportsOfNext ==
  ASSUME TypeInv, ReportInv, [Next]_vars
  PROVE  ReportInv'
  <1>0. DOMAIN reported = DOMAIN packs \cup {{}} /\ {} \notin DOMAIN packs
    BY DEF TypeInv, TypeOK
  <1>1. CASE Split
    BY <1>1, StepOfSplit, ReportsOfSplit DEF TypeInv
  <1>2. CASE ReferenceEntries
    <2>1. /\ UNCHANGED <<config, sets, fat, packs>>
          /\ config.mode # "fat" => reported' = reported
      BY <1>2 DEF ReferenceEntries
    <2>2. config.mode # "fat" => \A n \in DOMAIN reported' \ {{Other}} :
            ReportsFor(sets', n, IF n = {} THEN fat' ELSE packs'[n], reported'[n])
      BY <2>1 DEF ReportInv, EntriesOf
    <2> QED
      BY <2>1, <2>2 DEF ReportInv, EntriesOf, ReportsFor
  <1>3. CASE AutomaticDone \/ UNCHANGED vars
    <2>1. UNCHANGED <<config, sets, fat, packs, reported>>
      BY <1>3 DEF AutomaticDone, vars
    <2>2. config.mode # "fat" => \A n \in DOMAIN reported' \ {{Other}} :
            ReportsFor(sets', n, IF n = {} THEN fat' ELSE packs'[n], reported'[n])
      BY <2>1 DEF ReportInv, EntriesOf
    <2> QED
      BY <2>1, <2>2 DEF ReportInv, EntriesOf, ReportsFor
  <1>4. CASE ManualDone
    <2>1. config' = config /\ sets' = sets /\ fat' = fat
      BY <1>4 DEF ManualDone
    <2>2. /\ DOMAIN reported' \subseteq DOMAIN reported
          /\ \A n \in DOMAIN reported' :
               reported'[n] = reported[n] /\ (n # {} => packs'[n] = packs[n])
      <3>1. CASE status = "ok"
        <4>1. /\ packs' = [name \in Used |-> packs[name]]
              /\ reported' = [name \in Used \cup {{}} |-> reported[name]]
          BY <1>4, <3>1 DEF ManualDone
        <4> QED
          BY <1>0, <4>1 DEF Used
      <3>2. CASE status # "ok"
        BY <1>4, <3>2 DEF ManualDone
      <3> QED
        BY <3>1, <3>2
    <2>3. ASSUME config.mode # "fat"
          PROVE  \A n \in DOMAIN reported' \ {{Other}} :
                   ReportsFor(sets', n, IF n = {} THEN fat' ELSE packs'[n], reported'[n])
      BY <2>1, <2>2, <2>3 DEF ReportInv, EntriesOf
    <2> QED
      BY <2>1, <2>3 DEF ReportInv, EntriesOf, ReportsFor
  <1> QED
    BY <1>1, <1>2, <1>3, <1>4 DEF Next, Terminated

LEMMA ReportsOfInit ==
  ASSUME Init
  PROVE  ReportInv
  <1>1. /\ \A n \in DOMAIN reported : reported[n] = {}
        /\ DOMAIN reported = DOMAIN packs \cup {{}}
    BY DEF Init
  <1>2. \A n \in DOMAIN reported : EntriesOf(n) = {}
    BY <1>1, InitEntries DEF EntriesOf
  <1> QED
    BY <1>1, <1>2 DEF ReportInv, ReportsFor

\* Whatever the order of the entries, the qualifier sets a package is registered
\* for in the mapping file are those its entries have.
THEOREM EntriesReported == Spec => []ReportsItsEntries
  <1>1. Init => TypeInv /\ ReportInv
    BY TypeOfInit, ReportsOfInit
  <1>2. TypeInv /\ ReportInv /\ [Next]_vars => (TypeInv /\ ReportInv)'
    BY TypeOfNext, ReportsOfNext
  <1>3. ReportInv => ReportsItsEntries
    BY ReportInvIs
  <1> QED
    BY <1>1, <1>2, <1>3, PTL DEF Spec

-----------------------------------------------------------------------------
(***************************************************************************)
(* The length of an id: a sum over the segments of a name, picked one after *)
(* another.                                                                *)
(***************************************************************************)
Picked(s) == CHOOSE segment \in s : TRUE

\* How the fold adds the lengths of a set.
Folds(it, form, S) ==
  it = [s \in SUBSET S |-> IF s = {} THEN 0
                           ELSE it[s \ {Picked(s)}] + Length[Picked(s)][form]]

Forms == {"raw", "token", "values"}

\* An id has a dot between its segments.
LEMMA IdLengthIs ==
  ASSUME NEW name, NEW form
  PROVE  IdLength(name, form) = Len(SetToSeq(name)) - 1 + (CHOOSE it : Folds(it, form, name))[name]
  BY Zenon DEF IdLength, FoldSet, MapThenFoldSet, Folds, Picked

\* To pick a segment of a finite set leaves one less.
LEMMA PickedLess ==
  ASSUME NEW S, IsFiniteSet(S), NEW n \in Nat, NEW s \in SUBSET S, s # {}, Cardinality(s) <= n + 1
  PROVE  /\ Picked(s) \in s /\ s \ {Picked(s)} \in SUBSET S
         /\ Cardinality(s \ {Picked(s)}) <= n
  <1>1. IsFiniteSet(s) /\ Picked(s) \in s
    BY FS_Subset DEF Picked
  <1>2. Cardinality(s \ {Picked(s)}) = Cardinality(s) - 1 /\ Cardinality(s) \in Nat
    BY <1>1, FS_RemoveElement, FS_CardinalityType
  <1> QED
    BY <1>1, <1>2

\* The fold is defined on a finite set.
LEMMA FoldExists ==
  ASSUME NEW S \in SUBSET Segments, IsFiniteSet(S), NEW form \in Forms
  PROVE  \E it : Folds(it, form, S)
  <1> DEFINE Small(n) == {s \in SUBSET S : Cardinality(s) <= n}
             More(it, n) == [s \in Small(n) |-> IF s = {} THEN 0
                                                ELSE it[s \ {Picked(s)}] + Length[Picked(s)][form]]
             Part(it, n) == it = More(it, n)
             N == {n \in Nat : \E it : Part(it, n)}
  <1>0. \A s \in SUBSET S :
          IsFiniteSet(s) /\ Cardinality(s) \in Nat /\ Cardinality(s) <= Cardinality(S)
    BY FS_Subset, FS_CardinalityType
  <1>1. 0 \in N
    <2>1. \A s \in Small(0) : s = {}
      BY <1>0, FS_EmptySet
    <2> DEFINE z == [s \in Small(0) |-> 0]
    <2>2. z = More(z, 0)
      BY <2>1
    <2> QED
      BY <2>2
  <1>2. ASSUME NEW n \in Nat, n \in N PROVE n + 1 \in N
    <2>1. PICK it : Part(it, n)
      BY <1>2
    <2> DEFINE next == More(it, n + 1)
    <2>2. ASSUME NEW s \in Small(n + 1), s # {}
          PROVE  next[s \ {Picked(s)}] = it[s \ {Picked(s)}]
      <3> DEFINE r == s \ {Picked(s)}
      <3>1. r \in Small(n) /\ r \in Small(n + 1)
        BY <2>2, <1>0, PickedLess
      <3> HIDE DEF r
      <3>2. it[r] = IF r = {} THEN 0 ELSE it[r \ {Picked(r)}] + Length[Picked(r)][form]
        BY <2>1, <3>1
      <3>3. next[r] = it[r]
        BY <3>1, <3>2
      <3> QED
        BY <3>3 DEF r
    <2>3. next = More(next, n + 1)
      <3>1. \A s \in Small(n + 1) :
              next[s] = IF s = {} THEN 0 ELSE next[s \ {Picked(s)}] + Length[Picked(s)][form]
        BY <2>2
      <3> QED
        BY <3>1
    <2>4. \E g : Part(g, n + 1)
      <3> HIDE DEF next
      <3> QED
        BY <2>3
    <2>5. n + 1 \in Nat
      OBVIOUS
    <2> HIDE DEF Part
    <2> QED
      BY <2>4, <2>5
  <1>3. \A n \in Nat : n \in N
    <2> HIDE DEF N
    <2> QED
      BY <1>1, <1>2, Induction
  <1>4. Cardinality(S) \in Nat /\ Small(Cardinality(S)) = SUBSET S
    BY <1>0
  <1>5. PICK it : Part(it, Cardinality(S))
    BY <1>3, <1>4
  <1>6. Folds(it, form, S)
    BY <1>4, <1>5 DEF Folds
  <1> QED
    BY <1>6

\* A form whose segments are no longer gives an id that is no longer.
LEMMA FoldGrows ==
  ASSUME NEW S \in SUBSET Segments, IsFiniteSet(S), NEW f \in Forms, NEW g \in Forms,
         \A segment \in Segments : Length[segment][g] \in Nat /\ Length[segment][f] \in Nat
                                   /\ Length[segment][g] <= Length[segment][f],
         NEW a, NEW b, Folds(a, f, S), Folds(b, g, S)
  PROVE  a[S] \in Nat /\ b[S] \in Nat /\ b[S] <= a[S]
  <1> DEFINE Grows(s) == a[s] \in Nat /\ b[s] \in Nat /\ b[s] <= a[s]
             N == {n \in Nat : \A s \in SUBSET S : Cardinality(s) <= n => Grows(s)}
  <1>0. \A s \in SUBSET S : IsFiniteSet(s) /\ Cardinality(s) \in Nat /\ (Cardinality(s) = 0 <=> s = {})
    BY FS_Subset, FS_CardinalityType, FS_EmptySet
  <1>1. \A s \in SUBSET S :
          /\ a[s] = IF s = {} THEN 0 ELSE a[s \ {Picked(s)}] + Length[Picked(s)][f]
          /\ b[s] = IF s = {} THEN 0 ELSE b[s \ {Picked(s)}] + Length[Picked(s)][g]
    BY DEF Folds
  <1>2. 0 \in N
    <2>1. \A s \in SUBSET S : Cardinality(s) <= 0 => s = {}
      BY <1>0
    <2>2. Grows({})
      BY <1>1
    <2> HIDE DEF Grows
    <2> QED
      BY <2>1, <2>2
  <1>3. ASSUME NEW n \in Nat, n \in N PROVE n + 1 \in N
    <2> SUFFICES ASSUME NEW s \in SUBSET S, Cardinality(s) <= n + 1
                 PROVE  Grows(s)
      OBVIOUS
    <2>1. CASE s = {}
      <3>1. Grows({})
        BY <1>1
      <3> HIDE DEF Grows
      <3> QED
        BY <2>1, <3>1
    <2>2. CASE s # {}
      <3>1. /\ Picked(s) \in s /\ s \ {Picked(s)} \in SUBSET S
            /\ Cardinality(s \ {Picked(s)}) <= n
        BY <2>2, PickedLess
      <3>2. Grows(s \ {Picked(s)})
        BY <1>3, <3>1
      <3>3. Picked(s) \in Segments
        BY <3>1
      <3> HIDE DEF Grows
      <3>4. /\ a[s] = a[s \ {Picked(s)}] + Length[Picked(s)][f]
            /\ b[s] = b[s \ {Picked(s)}] + Length[Picked(s)][g]
        BY <1>1, <2>2
      <3> QED
        BY <3>2, <3>3, <3>4 DEF Grows
    <2> QED
      BY <2>1, <2>2
  <1>4. \A n \in Nat : n \in N
    <2> HIDE DEF N
    <2> QED
      BY <1>2, <1>3, Induction
  <1>5. Cardinality(S) \in Nat /\ Cardinality(S) \in N
    BY <1>0, <1>4
  <1> QED
    BY <1>5

\* So a package that fits at one level fits at every later one.
LEMMA FitsOn ==
  ASSUME NEW name \in SUBSET Segments, IsFiniteSet(name)
  PROVE  /\ TooLong(name, "token") => TooLong(name, "raw")
         /\ TooLong(name, "values") => TooLong(name, "token")
  <1>1. \A segment \in Segments :
          /\ Length[segment]["raw"] \in Nat /\ Length[segment]["token"] \in Nat
          /\ Length[segment]["values"] \in Nat
          /\ Length[segment]["values"] <= Length[segment]["token"]
          /\ Length[segment]["token"] <= Length[segment]["raw"]
    BY LengthAssumption
  <1> DEFINE sum(form) == (CHOOSE it : Folds(it, form, name))
  <1>2. /\ Folds(sum("raw"), "raw", name) /\ Folds(sum("token"), "token", name)
        /\ Folds(sum("values"), "values", name)
    <2>1. "raw" \in Forms /\ "token" \in Forms /\ "values" \in Forms
      BY DEF Forms
    <2>2. \A form \in Forms : \E it : Folds(it, form, name)
      BY FoldExists
    <2> QED
      BY <2>1, <2>2
  <1> HIDE DEF sum
  <1>3. /\ sum("raw")[name] \in Nat /\ sum("token")[name] \in Nat /\ sum("values")[name] \in Nat
        /\ sum("token")[name] <= sum("raw")[name]
        /\ sum("values")[name] <= sum("token")[name]
    <2>1. "raw" \in Forms /\ "token" \in Forms /\ "values" \in Forms
      BY DEF Forms
    <2>2. /\ sum("raw")[name] \in Nat /\ sum("token")[name] \in Nat
          /\ sum("token")[name] <= sum("raw")[name]
      BY <1>1, <1>2, <2>1, FoldGrows
    <2>3. /\ sum("token")[name] \in Nat /\ sum("values")[name] \in Nat
          /\ sum("values")[name] <= sum("token")[name]
      BY <1>1, <1>2, <2>1, FoldGrows
    <2> QED
      BY <2>2, <2>3
  <1>4. Len(SetToSeq(name)) \in Nat
    BY ListsItsElements, LenProperties
  <1>5. \A form : IdLength(name, form) = Len(SetToSeq(name)) - 1 + sum(form)[name]
    BY IdLengthIs DEF sum
  <1>6. MaxIdLength \in Nat
    BY LengthAssumption
  <1> QED
    BY <1>3, <1>4, <1>5, <1>6 DEF TooLong

-----------------------------------------------------------------------------
(***************************************************************************)
(* The walk over the packages.                                              *)
(***************************************************************************)
\* The next package that is too long, or none is and the walk is over.
LEMMA FirstIs ==
  ASSUME NEW order, Len(order) \in Nat, NEW k \in 1..(Len(order) + 1), NEW form
  PROVE  LET f == FirstTooLong(order, k, form)
         IN  /\ f \in k..(Len(order) + 1)
             /\ \A j \in k..(f - 1) : ~TooLong(order[j], form)
             /\ f <= Len(order) => TooLong(order[f], form)
  <1> DEFINE long == {j \in k..Len(order) : TooLong(order[j], form)}
             f == FirstTooLong(order, k, form)
  <1>1. CASE long = {}
    <2>1. f = Len(order) + 1
      BY <1>1 DEF FirstTooLong
    <2>2. \A j \in k..Len(order) : ~TooLong(order[j], form)
      BY <1>1
    <2> HIDE DEF f, long
    <2> QED
      BY <2>1, <2>2 DEF f
  <1>2. CASE long # {}
    <2>1. f = CHOOSE j \in long : \A i \in long : j <= i
      BY <1>2 DEF FirstTooLong
    <2>2. \E j \in long : \A i \in long : j <= i
      <3>1. long \in SUBSET Nat
        OBVIOUS
      <3> HIDE DEF long
      <3> QED
        BY <1>2, <3>1, LeastNumber
    <2>3. f \in long /\ \A i \in long : f <= i
      <3> HIDE DEF long, f
      <3> QED
        BY <2>1, <2>2
    <2> HIDE DEF f
    <2>4. f \in k..Len(order) /\ TooLong(order[f], form)
      BY <2>3
    <2>5. ASSUME NEW j \in k..(f - 1) PROVE ~TooLong(order[j], form)
      <3>1. j \in k..Len(order) /\ ~(f <= j)
        BY <2>4
      <3> QED
        BY <2>3, <3>1
    <2> QED
      BY <2>4, <2>5 DEF f
  <1> QED
    BY <1>1, <1>2

\* A walk over a finite set visits each of its members.
LEMMA OrderCovers ==
  ASSUME NEW S, IsFiniteSet(S), NEW order \in SetToSeqs(S)
  PROVE  /\ Len(order) \in Nat /\ \A j \in 1..Len(order) : order[j] \in S
         /\ \A s \in S : \E j \in 1..Len(order) : order[j] = s
  <1> DEFINE n == Cardinality(S)
  <1>1. n \in Nat
    BY FS_CardinalityType
  <1>2. order \in [1..n -> S] /\ \A i, j \in 1..n : i # j => order[i] # order[j]
    BY DEF SetToSeqs
  <1>3. Cardinality(1..n) = n /\ IsFiniteSet(1..n)
    BY <1>1, FS_Interval
  <1> HIDE DEF n
  <1>4. order \in Injection(1..n, S)
    BY <1>2 DEF Injection, IsInjective
  <1>5. order \in Surjection(1..n, S)
    <2>1. Cardinality(1..n) = Cardinality(S)
      BY <1>3 DEF n
    <2> QED
      BY <1>4, <2>1, FS_Injection
  <1>6. order \in Seq(S)
    BY <1>1, <1>2, SeqDef
  <1>7. Len(order) = n
    BY <1>1, <1>2, <1>6, LenProperties
  <1> QED
    BY <1>1, <1>2, <1>5, <1>7 DEF Surjection

\* The packages before the one where a level begins fit at the level before, and
\* so at this one; the one where it begins does not fit at the level before.
LEMMA CalibratedFits ==
  ASSUME NEW S \in SUBSET SUBSET Segments, \A name \in S : IsFiniteSet(name),
         NEW order, Len(order) \in Nat, \A j \in 1..Len(order) : order[j] \in S,
         \A name \in S : \E j \in 1..Len(order) : order[j] = name,
         level = config.level, level \in {0, 1}
  PROVE  LET c == Calibrated(order)
         IN  /\ c \in 0..3
             /\ c = 3 \/ \A name \in S : ~TooLong(name, Form[c + 1])
             /\ c > config.level => \E name \in S : TooLong(name, Form[c])
  <1> DEFINE n == Len(order)
             raw == FirstTooLong(order, 1, "raw")
             token == FirstTooLong(order, raw, "token")
             values == FirstTooLong(order, token, "values")
             c == Calibrated(order)
             Fits(j, form) == ~TooLong(order[j], form)
  <1>1. /\ raw \in 1..(n + 1)
        /\ \A j \in 1..(raw - 1) : Fits(j, "raw")
        /\ raw <= n => ~Fits(raw, "raw")
    <2>1. 1 \in 1..(n + 1)
      OBVIOUS
    <2> QED
      BY <2>1, FirstIs
  <1> HIDE DEF raw
  <1>2. /\ token \in raw..(n + 1)
        /\ \A j \in raw..(token - 1) : Fits(j, "token")
        /\ token <= n => ~Fits(token, "token")
    BY <1>1, FirstIs
  <1> HIDE DEF token
  <1>3. /\ values \in token..(n + 1)
        /\ \A j \in token..(values - 1) : Fits(j, "values")
        /\ values <= n => ~Fits(values, "values")
    <2>1. token \in 1..(n + 1)
      BY <1>1, <1>2
    <2> QED
      BY <2>1, FirstIs
  <1> HIDE DEF values
  <1>4. c = CASE raw > n -> level
              [] raw <= n /\ token > n -> 1
              [] token <= n /\ values > n -> 2
              [] OTHER -> 3
    BY DEF Calibrated, raw, token, values
  <1> HIDE DEF c
  <1>5. \A j \in 1..n : /\ order[j] \in S
                        /\ Fits(j, "raw") => Fits(j, "token")
                        /\ Fits(j, "token") => Fits(j, "values")
    BY FitsOn
  <1>6. Form[1] = "raw" /\ Form[2] = "token" /\ Form[3] = "values"
    BY DEF Form
  <1>7. \A name \in S : \E j \in 1..n : order[j] = name
    OBVIOUS
  <1> DEFINE AllFit(form) == \A name \in S : ~TooLong(name, form)
             OneLong(form) == \E name \in S : TooLong(name, form)
  <1>8. \A form : (\A j \in 1..n : Fits(j, form)) => AllFit(form)
    BY <1>7
  <1>9. \A form : \A j \in 1..n : ~Fits(j, form) => OneLong(form)
    BY <1>5
  <1> HIDE DEF Fits, AllFit, OneLong, n
  <1>n. n \in Nat
    BY DEF n
  <1>10. CASE raw > n
    <2>1. c = level /\ \A j \in 1..n : Fits(j, "raw") /\ Fits(j, "token")
      BY <1>1, <1>2, <1>4, <1>5, <1>10, <1>n
    <2>2. AllFit("raw") /\ AllFit("token")
      BY <1>8, <2>1
    <2>3. AllFit(Form[c + 1])
      <3>1. CASE level = 0
        BY <1>6, <2>1, <2>2, <3>1
      <3>2. CASE level = 1
        BY <1>6, <2>1, <2>2, <3>2
      <3> QED
        BY <3>1, <3>2
    <2> QED
      BY <2>1, <2>3 DEF AllFit, c
  <1>11. CASE raw <= n /\ token > n
    <2>1. c = 1
      BY <1>1, <1>2, <1>4, <1>11, <1>n
    <2>2. \A j \in 1..n : Fits(j, "token")
      BY <1>1, <1>2, <1>5, <1>11, <1>n
    <2>3. AllFit("token") /\ OneLong("raw")
      BY <1>1, <1>8, <1>9, <1>11, <2>2, <1>n
    <2>4. AllFit(Form[c + 1]) /\ OneLong(Form[c])
      BY <1>6, <2>1, <2>3
    <2> QED
      BY <2>1, <2>4 DEF AllFit, OneLong, c
  <1>12. CASE token <= n /\ values > n
    <2>1. c = 2
      BY <1>1, <1>2, <1>4, <1>12, <1>n
    <2>2. \A j \in 1..n : Fits(j, "values")
      <3> TAKE j \in 1..n
      <3>1. CASE j < raw
        BY <1>1, <1>5, <3>1, <1>n
      <3>2. CASE raw <= j /\ j < token
        BY <1>1, <1>2, <1>5, <3>2, <1>n
      <3>3. CASE token <= j
        BY <1>1, <1>2, <1>3, <1>12, <3>3, <1>n
      <3> QED
        BY <3>1, <3>2, <3>3, <1>1, <1>2, <1>n
    <2>3. AllFit("values") /\ OneLong("token")
      BY <1>1, <1>2, <1>8, <1>9, <1>12, <2>2, <1>n
    <2>4. AllFit(Form[c + 1]) /\ OneLong(Form[c])
      BY <1>6, <2>1, <2>3
    <2> QED
      BY <2>1, <2>4 DEF AllFit, OneLong, c
  <1>13. CASE values <= n
    <2>1. c = 3 /\ values \in 1..n
      BY <1>1, <1>2, <1>3, <1>4, <1>13, <1>n
    <2>2. OneLong(Form[c])
      BY <1>3, <1>6, <1>9, <1>13, <2>1
    <2> QED
      BY <2>1, <2>2 DEF OneLong, c
  <1> QED
    BY <1>10, <1>11, <1>12, <1>13, <1>1, <1>2, <1>3, <1>n

\* A package has finitely many segments: those of the qualifiers of an entry.
LEMMA HomeIsFinite ==
  ASSUME config \in Configurations, config.mode = "auto", NEW Q \in SUBSET Qualifiers
  PROVE  IsFiniteSet(Home(Q))
  <1> DEFINE kept == IF config.each THEN ArpQualifiers(Q) ELSE Top(ArpQualifiers(Q))
             all == {config.affinity[q] : q \in kept}
  <1>1. kept \in SUBSET Qualifiers
    BY DEF ArpQualifiers, Top
  <1>2. IsFiniteSet(kept)
    BY <1>1, QualifiersAssumption, FS_Subset
  <1> HIDE DEF kept
  <1>3. IsFiniteSet(all)
    <2> DEFINE f == [q \in kept |-> config.affinity[q]]
    <2>1. f \in Surjection(kept, all)
      BY DEF Surjection
    <2> HIDE DEF f, all
    <2> QED
      BY <1>2, <2>1, FS_Surjection
  <1>4. IsFiniteSet(all \ {Default})
    <2> HIDE DEF all
    <2> QED
      BY <1>3, FS_Subset
  <1>5. IsFiniteSet({}) /\ IsFiniteSet({Other})
    BY FS_EmptySet, FS_Singleton
  <1>6. CASE ArpQualifiers(Q) = {}
    BY <1>5, <1>6 DEF Home, ArpQualifiers
  <1>7. CASE ArpQualifiers(Q) # {}
    <2>1. Home(Q) = all \ {Default}
      BY <1>7, AutomaticHome DEF Affinities, kept
    <2> QED
      BY <1>4, <2>1
  <1> QED
    BY <1>6, <1>7

(***************************************************************************)
(* The level is calibrated once, when all packages are there.               *)
(***************************************************************************)
FinitePacks ==
  config.mode = "auto" => IsFiniteSet(DOMAIN packs) /\ \A name \in DOMAIN packs : IsFiniteSet(name)

CompressionInv ==
  /\ pc # "done" => level = config.level
  /\ FinitePacks
  /\ CompressionFits

\* A split step adds at most one package, with finitely many segments.
LEMMA CompressionOfSplit ==
  ASSUME TypeInv, CompressionInv, SplitStep
  PROVE  CompressionInv'
  <1>1. /\ TypeOK /\ sink # <<>> /\ Placed /\ pc' = "split" /\ pc = "split" /\ config' = config
        /\ level' = level
    BY DEF TypeInv, SplitStep, SplitFrame
  <1>2. ASSUME config.mode = "auto"
        PROVE  IsFiniteSet(DOMAIN packs') /\ \A name \in DOMAIN packs' : IsFiniteSet(name)
    <2>1. IsFiniteSet(DOMAIN packs) /\ \A name \in DOMAIN packs : IsFiniteSet(name)
      BY <1>2 DEF CompressionInv, FinitePacks
    <2>2. CASE Lose(Popped) \/ MoveToFat(Popped)
      BY <2>1, <2>2 DEF Lose, MoveToFat
    <2>3. ASSUME NEW name, NEW qsi, Packed(Popped, name, qsi), Home(Applied) = name
          PROVE  IsFiniteSet(DOMAIN packs') /\ \A n \in DOMAIN packs' : IsFiniteSet(n)
      <3>1. DOMAIN packs' = DOMAIN packs \cup {name}
        BY <2>3, PackedIs
      <3>2. IsFiniteSet(name)
        BY <1>1, <1>2, <2>3, PoppedType, HomeIsFinite DEF TypeOK
      <3> QED
        BY <2>1, <3>1, <3>2, FS_AddElement
    <2> QED
      BY <1>1, <2>2, <2>3 DEF Placed
  <1> QED
    BY <1>1, <1>2 DEF CompressionInv, FinitePacks, CompressionFits

\* The end of an automatic split calibrates the level.
LEMMA CompressionOfAutomaticDone ==
  ASSUME TypeInv, CompressionInv, AutomaticDone
  PROVE  CompressionInv'
  <1>1. /\ config' = config /\ packs' = packs /\ status' = status /\ pc' = "done"
        /\ config.mode = "auto" /\ pc # "done"
        /\ status = "ok" => \E order \in SetToSeqs(DOMAIN packs) : level' = Calibrated(order)
    BY DEF AutomaticDone
  <1>2. /\ level = config.level /\ IsFiniteSet(DOMAIN packs)
        /\ \A name \in DOMAIN packs : IsFiniteSet(name)
    BY <1>1 DEF CompressionInv, FinitePacks
  <1>3. level \in {0, 1} /\ DOMAIN packs \in SUBSET SUBSET Segments
    BY <1>2, ConfigurationsAssumption DEF TypeInv, TypeOK
  <1>4. ASSUME status = "ok"
        PROVE  /\ level' = 3 \/ \A name \in DOMAIN packs : ~TooLong(name, Form[level' + 1])
               /\ level' > config.level => \E name \in DOMAIN packs : TooLong(name, Form[level'])
    <2>1. PICK order \in SetToSeqs(DOMAIN packs) : level' = Calibrated(order)
      BY <1>1, <1>4
    <2>2. /\ Len(order) \in Nat /\ \A j \in 1..Len(order) : order[j] \in DOMAIN packs
          /\ \A s \in DOMAIN packs : \E j \in 1..Len(order) : order[j] = s
      BY <1>2, OrderCovers
    <2> QED
      BY <1>2, <1>3, <2>1, <2>2, CalibratedFits
  <1> QED
    BY <1>1, <1>2, <1>4 DEF CompressionInv, FinitePacks, CompressionFits

\* No other step has anything to do with the level.
LEMMA CompressionOfNext ==
  ASSUME TypeInv, CompressionInv, [Next]_vars
  PROVE  CompressionInv'
  <1>1. CASE Split
    BY <1>1, StepOfSplit, CompressionOfSplit DEF TypeInv
  <1>2. CASE AutomaticDone
    BY <1>2, CompressionOfAutomaticDone
  <1>3. CASE ReferenceEntries
    <2>1. /\ UNCHANGED <<config, packs, level, status>> /\ pc # "done"
          /\ pc' = "done" => config.mode = "fat"
      BY <1>3 DEF ReferenceEntries
    <2> QED
      BY <2>1 DEF CompressionInv, FinitePacks, CompressionFits
  <1>4. CASE ManualDone
    <2>1. config' = config /\ config.mode = "manual" /\ pc' = "done"
      BY <1>4 DEF ManualDone
    <2> QED
      BY <2>1 DEF CompressionInv, FinitePacks, CompressionFits
  <1>5. CASE UNCHANGED vars
    BY <1>5 DEF vars, CompressionInv, FinitePacks, CompressionFits
  <1> QED
    BY <1>1, <1>2, <1>3, <1>4, <1>5 DEF Next, Terminated

\* An automatic split begins without packages.
LEMMA CompressionOfInit ==
  ASSUME Init
  PROVE  CompressionInv
  <1>1. config \in Configurations /\ pc = "reference" /\ DOMAIN packs = config.declared
        /\ level = config.level
    BY DEF Init
  <1>2. config.mode = "auto" => DOMAIN packs = {}
    BY <1>1, ConfigurationsAssumption
  <1> QED
    BY <1>1, <1>2, FS_EmptySet DEF CompressionInv, FinitePacks, CompressionFits

\* The walk over the packages looks at each of them once, in any order; yet at
\* the compression level it ends on each id fits, and at no lower level would it.
THEOREM IdsFit == Spec => []CompressionFits
  <1>1. Init => TypeInv /\ CompressionInv
    BY TypeOfInit, CompressionOfInit
  <1>2. TypeInv /\ CompressionInv /\ [Next]_vars => (TypeInv /\ CompressionInv)'
    BY TypeOfNext, CompressionOfNext
  <1>3. CompressionInv => CompressionFits
    BY DEF CompressionInv
  <1> QED
    BY <1>1, <1>2, <1>3, PTL DEF Spec
=============================================================================
