-------------------------- MODULE Qualifiers_proof --------------------------
(***************************************************************************)
(* Proofs about Qualifiers, for every tree, every configuration, every set  *)
(* of qualifiers and every scoring of their values:                         *)
(*   TypeCorrect             the type invariant,                            *)
(*   OnlyTheAllowed          no set has a value that is not allowed,        *)
(*   ScoresAreRight          a qualifier is scored by the right default,    *)
(*   NothingOfThePathIsLost  a path is told whole by a name and its set,    *)
(*   WhatIsExcludedStaysOut  excluded trees are not indexed, nor entered.   *)
(***************************************************************************)
EXTENDS Qualifiers, Recursion, SequenceTheorems, FiniteSetTheorems

-----------------------------------------------------------------------------
(***************************************************************************)
(* The multimap has the pairs it was given: how many pairs there are up to  *)
(* a pair numbers them.                                                     *)
(***************************************************************************)
\* The values of qualifiers; a literal is in STRING only for TLC.
Texts == STRING \cup {"#"} \cup {Environment[a] : a \in Attributes}

PairsOfNames == [key : DOMAIN AttributeOf, value : Texts]

\* Every key has a place in the order.
LEMMA PlaceType ==
  ASSUME NEW key \in DOMAIN AttributeOf
  PROVE  Place(key) \in Nat
  <1>1. \E k \in DOMAIN KeyOrder : KeyOrder[k] = key
    BY NamesOfQualifiers DEF ToSet
  <1>2. DOMAIN KeyOrder \subseteq Nat
    BY NamesOfQualifiers, LenProperties
  <1> QED  BY <1>1, <1>2 DEF Place

\* How many pairs there are up to each: every number once.
LEMMA UpToNumbers ==
  ASSUME NEW pairs \in Seq(PairsOfNames)
  PROVE  LET number == [i \in DOMAIN pairs |-> Cardinality(UpTo(pairs, i))]
         IN  /\ number \in [DOMAIN pairs -> DOMAIN pairs]
             /\ \A k \in DOMAIN pairs : \E i \in DOMAIN pairs : number[i] = k
             /\ \A i, j \in DOMAIN pairs : number[i] = number[j] => i = j
  <1> DEFINE n == Len(pairs)
             number == [i \in DOMAIN pairs |-> Cardinality(UpTo(pairs, i))]
             place(i) == Place(pairs[i].key)
  <1>1. n \in Nat /\ DOMAIN pairs = 1 .. n /\ IsFiniteSet(1 .. n) /\ Cardinality(1 .. n) = n
    <2>1. n \in Nat /\ DOMAIN pairs = 1 .. n
      BY LenProperties
    <2>2. IsFiniteSet(1 .. n) /\ Cardinality(1 .. n) = IF 1 > n THEN 0 ELSE n - 1 + 1
      BY <2>1, FS_Interval
    <2>3. (IF 1 > n THEN 0 ELSE n - 1 + 1) = n
      BY <2>1
    <2> QED  BY <2>1, <2>2, <2>3
  <1>2. \A i \in 1 .. n : place(i) \in Nat
    <2>1. \A i \in 1 .. n : pairs[i] \in PairsOfNames
      BY <1>1, ElementOfSeq
    <2> QED  BY <2>1, PlaceType DEF PairsOfNames
  <1>3. \A i, j \in 1 .. n : j \in UpTo(pairs, i) <=> place(j) < place(i) \/ (place(j) = place(i) /\ j <= i)
    BY <1>1 DEF UpTo
  <1> HIDE DEF place
  <1>4. \A i \in 1 .. n : /\ UpTo(pairs, i) \in SUBSET (1 .. n) /\ i \in UpTo(pairs, i)
                          /\ IsFiniteSet(UpTo(pairs, i)) /\ Cardinality(UpTo(pairs, i)) \in 1 .. n
    <2> TAKE i \in 1 .. n
    <2>1. UpTo(pairs, i) \in SUBSET (1 .. n)
      BY <1>1 DEF UpTo
    <2>2. i \in UpTo(pairs, i)
      BY <1>2, <1>3
    <2>3. IsFiniteSet(UpTo(pairs, i)) /\ Cardinality(UpTo(pairs, i)) <= n
      BY <1>1, <2>1, FS_Subset
    <2>4. Cardinality(UpTo(pairs, i)) \in Nat /\ Cardinality(UpTo(pairs, i)) # 0
      BY <2>2, <2>3, FS_CardinalityType, FS_EmptySet
    <2> QED  BY <1>1, <2>1, <2>2, <2>3, <2>4
  <1>5. number \in [1 .. n -> 1 .. n]
    BY <1>1, <1>4
  <1>6. \A i, j \in 1 .. n : number[i] = number[j] => i = j
    <2> SUFFICES ASSUME NEW i \in 1 .. n, NEW j \in 1 .. n, number[i] = number[j],
                        place(i) < place(j) \/ (place(i) = place(j) /\ i <= j)
                 PROVE  i = j
      BY <1>1, <1>2
    <2>1. ASSUME NEW x \in UpTo(pairs, i) PROVE x \in UpTo(pairs, j)
      <3>1. x \in 1 .. n
        BY <1>4
      <3>2. place(x) < place(i) \/ (place(x) = place(i) /\ x <= i)
        BY <1>3, <3>1
      <3>3. place(x) < place(j) \/ (place(x) = place(j) /\ x <= j)
        BY <1>1, <1>2, <3>1, <3>2
      <3> QED  BY <1>3, <3>1, <3>3
    <2>2. UpTo(pairs, i) = UpTo(pairs, j)
      BY <1>1, <1>4, <2>1, FS_Subset
    <2>3. j \in UpTo(pairs, i)
      BY <1>4, <2>2
    <2> QED  BY <1>1, <1>2, <1>3, <2>3
  <1>7. \A k \in 1 .. n : \E i \in 1 .. n : number[i] = k
    <2> HIDE DEF number
    <2>1. number \in Injection(1 .. n, 1 .. n)
      BY <1>5, <1>6 DEF Injection, IsInjective
    <2>2. number \in Surjection(1 .. n, 1 .. n)
      BY <1>1, <2>1, FS_Injection
    <2> QED  BY <2>2 DEF Surjection
  <1> QED  BY <1>1, <1>5, <1>6, <1>7

\* So the multimap has the pairs it was given.
LEMMA InOrderKeeps ==
  ASSUME NEW pairs \in Seq(PairsOfNames)
  PROVE  /\ InOrder(pairs) \in Seq(PairsOfNames)
         /\ ToSet(InOrder(pairs)) = ToSet(pairs)
  <1> DEFINE n == Len(pairs)
             of(k) == CHOOSE i \in DOMAIN pairs : Cardinality(UpTo(pairs, i)) = k
  <1>1. n \in Nat /\ DOMAIN pairs = 1 .. n
    BY LenProperties
  <1>2. \A k \in 1 .. n : of(k) \in 1 .. n
    BY <1>1, UpToNumbers
  <1>3. \A i \in 1 .. n : \E k \in 1 .. n : of(k) = i
    BY <1>1, UpToNumbers
  <1>4. InOrder(pairs) = [k \in 1 .. n |-> pairs[of(k)]]
    BY <1>1 DEF InOrder
  <1> HIDE DEF of
  <1>5. \A k \in 1 .. n : pairs[of(k)] \in PairsOfNames
    BY <1>2, ElementOfSeq
  <1>6. InOrder(pairs) \in Seq(PairsOfNames)
    BY <1>1, <1>4, <1>5
  <1> QED  BY <1>1, <1>2, <1>3, <1>4, <1>6 DEF ToSet

-----------------------------------------------------------------------------
(***************************************************************************)
(* The applicator: what is applied is allowed and has the score of its      *)
(* value, the sets that were there stay, and no set comes to be twice.      *)
(***************************************************************************)
Parts == [name : STRING, value : STRING, text : STRING]

\* A part gives a pair of a known name and a text.
LEMMA PairType ==
  ASSUME NEW part \in Parts, NEW type
  PROVE  Pair(part, type) \in PairsOfNames
  <1>1. CASE part.name \in DOMAIN AttributeOf
    BY <1>1 DEF Pair, Parts, PairsOfNames, Texts
  <1>2. CASE part.name \notin DOMAIN AttributeOf /\ part.name \in DOMAIN TokenOf
    <2>1. TokenOf[part.name] \in DOMAIN AttributeOf
      BY <1>2, NamesOfQualifiers
    <2> QED  BY <1>2, <2>1 DEF Pair, Parts, PairsOfNames, Texts
  <1>3. CASE part.name \notin DOMAIN AttributeOf /\ part.name \notin DOMAIN TokenOf
    <2> DEFINE value == IF type = "file" THEN "#" ELSE part.text
    <2>1. Language \in DOMAIN AttributeOf
      BY NamesOfQualifiers
    <2>2. value \in Texts
      BY DEF Parts, Texts
    <2>3. Pair(part, type) = [key |-> Language, value |-> value]
      BY <1>3 DEF Pair
    <2> HIDE DEF value
    <2> QED  BY <2>1, <2>2, <2>3 DEF PairsOfNames
  <1> QED  BY <1>1, <1>2, <1>3

\* The pairs of a name are those of its parts.
LEMMA ParseTokenKeeps ==
  ASSUME NEW parts \in Seq(Parts), NEW type
  PROVE  /\ ParseToken(parts, type) \in Seq(PairsOfNames)
         /\ ToSet(ParseToken(parts, type)) = {Pair(parts[i], type) : i \in DOMAIN parts}
  <1> DEFINE pairs == [i \in DOMAIN parts |-> Pair(parts[i], type)]
  <1>1. Len(parts) \in Nat /\ DOMAIN parts = 1 .. Len(parts)
    BY LenProperties
  <1>2. \A i \in 1 .. Len(parts) : Pair(parts[i], type) \in PairsOfNames
    BY ElementOfSeq, PairType
  <1>3. pairs \in Seq(PairsOfNames) /\ DOMAIN pairs = DOMAIN parts
    BY <1>1, <1>2
  <1>4. ToSet(pairs) = {Pair(parts[i], type) : i \in DOMAIN parts}
    BY DEF ToSet
  <1> HIDE DEF pairs
  <1>5. ParseToken(parts, type) = InOrder(pairs)
    BY DEF ParseToken, pairs
  <1> QED  BY <1>3, <1>4, <1>5, InOrderKeeps

ScoreOf(a, v) == IF fallbacks[a] = <<>> THEN 0 ELSE Evaluate[a][<<v, Head(fallbacks[a])>>]

Scored == {[attribute |-> a, value |-> v, score |-> ScoreOf(a, v)] : a \in Attributes, v \in Texts}

\* The qualifiers that are allowed, each with its score.
Sound == {q \in Scored : q.attribute \in DOMAIN allowed => q.value \in allowed[q.attribute]}

\* What the applicator does not refuse is allowed, and scored.
LEMMA NotRefused ==
  ASSUME NEW pair \in PairsOfNames, NEW type, Refusal(pair, type) = "OK"
  PROVE  Qualifier(pair) \in Sound
  <1>1. Attribute(pair) \in Attributes
    BY NamesOfQualifiers DEF Attribute, PairsOfNames
  <1>2. ~Forbidden(pair)
    BY DEF Refusal
  <1>3. Qualifier(pair) = [attribute |-> Attribute(pair), value |-> pair.value, score |-> ScoreOf(Attribute(pair), pair.value)]
    BY DEF Qualifier, FallbackScore, ScoreOf
  <1>4. Qualifier(pair) \in Scored
    BY <1>1, <1>3 DEF Scored, PairsOfNames
  <1> QED  BY <1>2, <1>3, <1>4 DEF Sound, Forbidden

\* Sets of qualifiers, none of which is there twice, after the neutral one.
Interned(table, quals) ==
  /\ table \in Seq(SUBSET quals)
  /\ Len(table) >= 1 /\ table[Neutral] = {}
  /\ \A i, j \in DOMAIN table : table[i] = table[j] => i = j

Keeps(new, old) == Len(old) <= Len(new) /\ \A i \in DOMAIN old : new[i] = old[i]

\* To intern a set leaves those that are there where they are.
LEMMA GetOrAddKeeps ==
  ASSUME NEW quals, NEW all, Interned(sets, all), quals \subseteq all
  PROVE  LET new == GetOrAdd(quals)
         IN  /\ Interned(new.sets, all) /\ Keeps(new.sets, sets)
             /\ new.index \in DOMAIN new.sets /\ new.sets[new.index] = quals
  <1> DEFINE new == GetOrAdd(quals)
  <1>1. sets \in Seq(SUBSET all) /\ Len(sets) \in Nat /\ DOMAIN sets = 1 .. Len(sets)
    BY LenProperties DEF Interned
  <1>2. CASE \E i \in DOMAIN sets : sets[i] = quals
    <2>1. new.sets = sets /\ new.index \in DOMAIN sets /\ sets[new.index] = quals
      BY <1>2 DEF GetOrAdd
    <2> QED  BY <1>1, <2>1 DEF Keeps
  <1>3. CASE ~\E i \in DOMAIN sets : sets[i] = quals
    <2>1. new.sets = Append(sets, quals) /\ new.index = Len(sets) + 1
      BY <1>3 DEF GetOrAdd
    <2>2. Append(sets, quals) \in Seq(SUBSET all) /\ Len(Append(sets, quals)) = Len(sets) + 1
      BY <1>1, AppendProperties
    <2>3. \A i \in 1 .. Len(sets) + 1 : Append(sets, quals)[i] = IF i = Len(sets) + 1 THEN quals ELSE sets[i]
      BY <1>1
    <2>4. DOMAIN Append(sets, quals) = 1 .. Len(sets) + 1
      BY <1>1, <2>2, LenProperties
    <2>5. \A i, j \in 1 .. Len(sets) + 1 : Append(sets, quals)[i] = Append(sets, quals)[j] => i = j
      BY <1>1, <1>3, <2>3 DEF Interned
    <2>6. Append(sets, quals)[Neutral] = {}
      BY <1>1, <2>3 DEF Interned, Neutral
    <2>7. Interned(Append(sets, quals), all)
      BY <1>1, <2>2, <2>4, <2>5, <2>6 DEF Interned
    <2> QED  BY <1>1, <2>1, <2>2, <2>3, <2>4, <2>7 DEF Keeps
  <1> QED  BY <1>2, <1>3

\* What a name says, and whether it is a qualifier.
QualifierParts(parts, type) ==
  LET pairs == {Pair(parts[i], type) : i \in DOMAIN parts}
  IN  pairs # {} /\ \A p \in pairs : Refusal(p, type) = "OK"

QualifiersOf(parts, type) == {Qualifier(p) : p \in ToSet(ParseToken(parts, type))}

\* A name that is applied gives the set of its folder, and what it says itself.
LEMMA ApplyQualifierDoes ==
  ASSUME NEW parts \in Seq(Parts), NEW type, Interned(sets, Sound), NEW parent \in DOMAIN sets
  PROVE  LET result == ApplyQualifier(parts, parent, type)
         IN  /\ Interned(result.sets, Sound) /\ Keeps(result.sets, sets)
             /\ result.set \in DOMAIN result.sets
             /\ result.status \in {"OK", "NOT_ALLOWED"}
             /\ result.status = "OK" =>
                  /\ (result.applied <=> QualifierParts(parts, type))
                  /\ result.sets[result.set] =
                       sets[parent] \cup (IF result.applied THEN QualifiersOf(parts, type) ELSE {})
  <1> DEFINE pairs == ParseToken(parts, type)
             checked == ValidateAttributeValueMap(pairs, type)
             refused == {i \in DOMAIN pairs : Refusal(pairs[i], type) # "OK"}
             quals == AddQualifierToQSB(pairs)
             with == quals \cup (IF parent = Neutral THEN {} ELSE sets[parent])
             new == GetOrAdd(with)
             without == [applied |-> FALSE, set |-> parent, sets |-> sets, status |-> "OK"]
             result == ApplyQualifier(parts, parent, type)
  <1> SUFFICES /\ Interned(result.sets, Sound) /\ Keeps(result.sets, sets)
               /\ result.set \in DOMAIN result.sets
               /\ result.status \in {"OK", "NOT_ALLOWED"}
               /\ result.status = "OK" =>
                    /\ (result.applied <=> QualifierParts(parts, type))
                    /\ result.sets[result.set] =
                         sets[parent] \cup (IF result.applied THEN QualifiersOf(parts, type) ELSE {})
    OBVIOUS
  <1>1. pairs \in Seq(PairsOfNames) /\ ToSet(pairs) = {Pair(parts[i], type) : i \in DOMAIN parts}
    BY ParseTokenKeeps
  <1>2. sets \in Seq(SUBSET Sound) /\ sets[Neutral] = {} /\ sets[parent] \subseteq Sound
    BY LenProperties, ElementOfSeq DEF Interned
  <1>3. quals = QualifiersOf(parts, type)
    BY DEF AddQualifierToQSB, QualifiersOf, ToSet
  <1>4. QualifierParts(parts, type) <=> pairs # <<>> /\ refused = {}
    <2>1. ToSet(pairs) # {} <=> pairs # <<>>
      BY <1>1, LenProperties, EmptySeq DEF ToSet
    <2>2. (\A p \in ToSet(pairs) : Refusal(p, type) = "OK") <=> refused = {}
      BY DEF ToSet
    <2> HIDE DEF pairs, refused
    <2> QED  BY <1>1, <2>1, <2>2 DEF QualifierParts
  <1>5. /\ refused = {} => checked = [valid |-> TRUE, status |-> "OK"]
        /\ refused # {} => checked.status = "NOT_ALLOWED" \/ checked = [valid |-> FALSE, status |-> "OK"]
    BY DEF ValidateAttributeValueMap
  <1>6. refused = {} => quals \subseteq Sound
    <2>1. \A i \in DOMAIN pairs : pairs[i] \in PairsOfNames
      BY <1>1, LenProperties, ElementOfSeq
    <2> QED  BY <2>1, NotRefused DEF AddQualifierToQSB
  <1>7. refused = {} => /\ Interned(new.sets, Sound) /\ Keeps(new.sets, sets)
                        /\ new.index \in DOMAIN new.sets /\ new.sets[new.index] = with
    <2>1. refused = {} => with \subseteq Sound
      BY <1>2, <1>6
    <2> HIDE DEF with, refused
    <2> QED  BY <2>1, GetOrAddKeeps
  <1>8. with = sets[parent] \cup quals
    BY <1>2
  <1>9. Keeps(sets, sets)
    BY <1>2, LenProperties DEF Keeps
  <1>10. result = IF pairs = <<>> THEN without
                  ELSE IF checked.status # "OK" THEN [without EXCEPT !.applied = checked.valid, !.status = checked.status]
                  ELSE IF ~checked.valid THEN without
                  ELSE [applied |-> TRUE, set |-> new.index, sets |-> new.sets, status |-> "OK"]
    BY DEF ApplyQualifier, GetOrAddQualifierSet
  <1> HIDE DEF pairs, checked, refused, quals, with, new, result
  <1>11. CASE pairs # <<>> /\ refused = {}
    <2>1. result = [applied |-> TRUE, set |-> new.index, sets |-> new.sets, status |-> "OK"]
      BY <1>5, <1>10, <1>11
    <2> QED  BY <1>3, <1>4, <1>7, <1>8, <1>11, <2>1
  <1>12. CASE pairs = <<>> \/ (refused # {} /\ checked.status = "OK")
    <2>1. result = without
      BY <1>5, <1>10, <1>12
    <2> QED  BY <1>4, <1>9, <1>12, <2>1
  <1>13. CASE pairs # <<>> /\ refused # {} /\ checked.status # "OK"
    <2>1. result = [without EXCEPT !.applied = checked.valid, !.status = checked.status]
      BY <1>10, <1>13
    <2>2. checked.status = "NOT_ALLOWED"
      BY <1>5, <1>13
    <2>3. result.sets = sets /\ result.set = parent /\ result.status = "NOT_ALLOWED"
      BY <2>1, <2>2
    <2>4. Interned(result.sets, Sound) /\ Keeps(result.sets, sets) /\ result.set \in DOMAIN result.sets
      BY <1>9, <2>3
    <2> QED  BY <2>3, <2>4
  <1> QED  BY <1>11, <1>12, <1>13

-----------------------------------------------------------------------------
(***************************************************************************)
(* The configuration: what is allowed and what is the default of each       *)
(* qualifier, up to the default that is read next and once all are read.    *)
(***************************************************************************)
DefaultAttribute(i) ==
  IF ListedName(i) \in DOMAIN TokenOf THEN TokenOf[ListedName(i)] ELSE AttributeOf[ListedName(i)]

\* The defaults of a qualifier among the first k.
Given(a, k) == {i \in 1 .. k : DefaultAttribute(i) = a}

DefaultsRead(k) ==
  /\ \A i \in 1 .. k : Recognised(ListedName(i))
  /\ named = {DefaultAttribute(i) : i \in 1 .. k}
  /\ \A a \in Attributes : ToSet(fallbacks[a]) = {config.defaults[i].value : i \in Given(a, k)} \ {Empty}

\* The defaults of a qualifier once the profile has filled in what is missing.
DefaultsOf(a) ==
  LET all == Given(a, Len(config.defaults))
  IN  IF config.defaults = <<>> THEN {}
      ELSE IF all # {} THEN {config.defaults[i].value : i \in all} \ {Empty}
      ELSE IF a = Language THEN {} ELSE {Environment[a]} \ {Empty}

AllowedIsRead ==
  /\ allowed = AllowedLists
  /\ \A i \in Listed : ListedName(i) \in DOMAIN AttributeOf

DefaultsComplete ==
  /\ \A i \in DOMAIN config.defaults : Recognised(ListedName(i))
  /\ \A a \in Attributes : ToSet(fallbacks[a]) = DefaultsOf(a)

ConfigInv ==
  /\ config \in Configurations
  /\ at \in Nat
  /\ fallbacks \in [Attributes -> Seq(Texts)]
  /\ pc = "allowed" => at = 0 /\ named = {} /\ \A a \in Attributes : fallbacks[a] = <<>>
  /\ pc = "defaults" => AllowedIsRead /\ at <= Len(config.defaults) /\ DefaultsRead(at)
  /\ pc \in {"base", "exclusions", "walk"} => AllowedIsRead /\ DefaultsComplete
  /\ pc \in {"allowed", "defaults"} => builder = {}
  /\ pc \in {"allowed", "defaults", "base"} => sets = <<{}>>
  /\ pc = "failed" => (sets = <<{}>> /\ builder = {}) \/ (AllowedIsRead /\ DefaultsComplete)

\* The defaults of the configuration are names with values.
LEMMA DefaultsType ==
  ASSUME config \in Configurations
  PROVE  /\ config.defaults \in Seq([name : STRING, value : STRING, allowed : Seq(SUBSET STRING)])
         /\ Len(config.defaults) \in Nat /\ DOMAIN config.defaults = 1 .. Len(config.defaults)
         /\ \A i \in DOMAIN config.defaults : config.defaults[i].value \in Texts
  <1>1. config.defaults \in Seq([name : STRING, value : STRING, allowed : Seq(SUBSET STRING)])
    BY ConfigurationsAssumption
  <1>2. Len(config.defaults) \in Nat /\ DOMAIN config.defaults = 1 .. Len(config.defaults)
    BY <1>1, LenProperties
  <1>3. \A i \in DOMAIN config.defaults : config.defaults[i] \in [name : STRING, value : STRING, allowed : Seq(SUBSET STRING)]
    BY <1>1, <1>2, ElementOfSeq
  <1> QED  BY <1>1, <1>2, <1>3 DEF Texts

\* A map of defaults has one more, at whatever address.
LEMMA InsertedType ==
  ASSUME NEW seq \in Seq(Texts), NEW value \in Texts, NEW new \in Inserted(seq, value)
  PROVE  new \in Seq(Texts) /\ ToSet(new) = ToSet(seq) \cup {value}
  <1>1. Len(seq) \in Nat /\ DOMAIN seq = 1 .. Len(seq)
    BY LenProperties
  <1>2. PICK i \in 1 .. Len(seq) + 1 : new = SubSeq(seq, 1, i - 1) \o <<value>> \o SubSeq(seq, i, Len(seq))
    BY DEF Inserted, InsertAt
  <1> DEFINE front == SubSeq(seq, 1, i - 1)
             back == SubSeq(seq, i, Len(seq))
  <1>3. front \in Seq(Texts) /\ Len(front) = i - 1 /\ \A j \in 1 .. i - 1 : front[j] = seq[j]
    BY <1>1, ElementOfSeq, SubSeqProperties
  <1>4. back \in Seq(Texts) /\ Len(back) = Len(seq) - i + 1 /\ \A j \in 1 .. Len(seq) - i + 1 : back[j] = seq[i + j - 1]
    BY <1>1, ElementOfSeq, SubSeqProperties
  <1> HIDE DEF front, back
  <1> DEFINE head == front \o <<value>>
  <1>5. head \in Seq(Texts) /\ Len(head) = i /\ head[i] = value /\ \A j \in 1 .. i - 1 : head[j] = seq[j]
    BY <1>1, <1>3
  <1>6. new = head \o back
    BY <1>2 DEF front, back
  <1> HIDE DEF head
  <1>7. /\ new \in Seq(Texts) /\ Len(new) = Len(seq) + 1
        /\ \A j \in 1 .. Len(seq) + 1 : new[j] = IF j <= i THEN head[j] ELSE back[j - i]
    BY <1>1, <1>4, <1>5, <1>6, ConcatProperties
  <1>8. \A j \in 1 .. Len(seq) + 1 : /\ j < i => new[j] = seq[j]
                                     /\ j = i => new[j] = value
                                     /\ j > i => new[j] = seq[j - 1]
    <2> TAKE j \in 1 .. Len(seq) + 1
    <2>1. CASE j > i
      <3>1. j - i \in 1 .. Len(seq) - i + 1 /\ i + (j - i) - 1 = j - 1
        BY <1>1, <2>1
      <3>2. new[j] = back[j - i]
        BY <1>1, <1>7, <2>1
      <3>3. back[j - i] = seq[j - 1]
        BY <1>4, <3>1
      <3> QED  BY <1>1, <2>1, <3>2, <3>3
    <2>2. CASE j <= i
      BY <1>1, <1>5, <1>7, <2>2
    <2> QED  BY <1>1, <2>1, <2>2
  <1>9. DOMAIN new = 1 .. Len(seq) + 1
    BY <1>7, LenProperties
  <1>10. ToSet(new) \subseteq ToSet(seq) \cup {value}
    <2> SUFFICES ASSUME NEW j \in 1 .. Len(seq) + 1 PROVE new[j] = value \/ \E k \in 1 .. Len(seq) : new[j] = seq[k]
      BY <1>1, <1>9 DEF ToSet
    <2>1. CASE j > i
      <3>1. j - 1 \in 1 .. Len(seq)
        BY <1>1, <2>1
      <3> QED  BY <1>8, <2>1, <3>1
    <2>2. CASE j < i
      <3>1. j \in 1 .. Len(seq)
        BY <1>1, <2>2
      <3> QED  BY <1>8, <2>2, <3>1
    <2> QED  BY <1>1, <1>8, <2>1, <2>2
  <1>11. ASSUME NEW j \in 1 .. Len(seq) PROVE \E k \in 1 .. Len(seq) + 1 : new[k] = seq[j]
    <2>1. CASE j < i
      BY <1>1, <1>8, <2>1
    <2>2. CASE j >= i
      <3>1. j + 1 \in 1 .. Len(seq) + 1 /\ new[j + 1] = seq[j]
        BY <1>1, <1>8, <2>2
      <3> QED  BY <3>1
    <2> QED  BY <1>1, <2>1, <2>2
  <1>12. i \in DOMAIN new /\ new[i] = value
    BY <1>8, <1>9
  <1>13. ToSet(seq) \cup {value} \subseteq ToSet(new)
    BY <1>1, <1>9, <1>11, <1>12 DEF ToSet
  <1> QED  BY <1>7, <1>10, <1>13

\* What is read off the configuration stays as it is.
LEMMA SameConfiguration ==
  ASSUME UNCHANGED config
  PROVE  /\ AllowedLists' = AllowedLists /\ Listed' = Listed /\ \A i : ListedName(i)' = ListedName(i)
         /\ \A i : DefaultAttribute(i)' = DefaultAttribute(i)
         /\ \A a, k : Given(a, k)' = Given(a, k)
         /\ \A a : DefaultsOf(a)' = DefaultsOf(a)
  <1>1. AllowedLists' = AllowedLists
    BY DEF AllowedLists, Listed, ListedName
  <1>2. Listed' = Listed /\ \A i : ListedName(i)' = ListedName(i)
    BY DEF Listed, ListedName
  <1>3. \A i : DefaultAttribute(i)' = DefaultAttribute(i)
    BY <1>2 DEF DefaultAttribute
  <1>4. \A a, k : Given(a, k)' = Given(a, k)
    BY <1>3 DEF Given
  <1>5. \A a : DefaultsOf(a)' = DefaultsOf(a)
    BY <1>4 DEF DefaultsOf
  <1> QED  BY <1>1, <1>2, <1>3, <1>4, <1>5

\* Nothing is read at first.
LEMMA ConfigInit == Init => ConfigInv
  <1> SUFFICES ASSUME Init PROVE ConfigInv
    OBVIOUS
  <1>1. fallbacks \in [Attributes -> Seq(Texts)] /\ \A a \in Attributes : fallbacks[a] = <<>>
    BY DEF Init
  <1> QED  BY <1>1 DEF Init, ConfigInv

\* Steps after the defaults leave what they say as it is.
LEMMA SettledStays ==
  ASSUME AllowedIsRead, DefaultsComplete, UNCHANGED <<config, allowed, fallbacks>>
  PROVE  AllowedIsRead' /\ DefaultsComplete'
  BY SameConfiguration DEF AllowedIsRead, DefaultsComplete

\* The allowed values are those of the configuration, or the pass has failed.
LEMMA ReadAllowedSettles == ConfigInv /\ ReadAllowed => ConfigInv'
  <1> SUFFICES ASSUME ConfigInv, ReadAllowed PROVE ConfigInv'
    OBVIOUS
  <1>1. /\ pc = "allowed" /\ at = 0 /\ named = {} /\ \A a \in Attributes : fallbacks[a] = <<>>
        /\ sets = <<{}>> /\ builder = {} /\ config \in Configurations /\ fallbacks \in [Attributes -> Seq(Texts)]
    BY DEF ReadAllowed, ConfigInv
  <1>2. UNCHANGED <<config, at, fallbacks, named, sets, builder>>
    BY DEF ReadAllowed
  <1>3. CASE pc' = "failed"
    BY <1>1, <1>2, <1>3 DEF ConfigInv
  <1>4. CASE pc' = "defaults" /\ allowed' = AllowedLists /\ \A i \in Listed : ListedName(i) \in DOMAIN AttributeOf
    <2>1. AllowedIsRead'
      BY <1>2, <1>4, SameConfiguration DEF AllowedIsRead
    <2>2. DefaultsRead(0)
      BY <1>1 DEF DefaultsRead, Given, ToSet
    <2>3. at' = 0 /\ DefaultsRead(at)'
      BY <1>1, <1>2, <2>2, SameConfiguration DEF DefaultsRead
    <2>4. at' <= Len(config'.defaults)
      BY <1>1, <1>2, DefaultsType
    <2> QED  BY <1>1, <1>2, <1>4, <2>1, <2>3, <2>4 DEF ConfigInv
  <1> QED  BY <1>3, <1>4 DEF ReadAllowed, Fail

\* One more default is read.
LEMMA AddDefaultSettles == ConfigInv /\ AddDefault => ConfigInv'
  <1> SUFFICES ASSUME ConfigInv, AddDefault PROVE ConfigInv'
    OBVIOUS
  <1> DEFINE d == config.defaults[at + 1]
             a == DefaultAttribute(at + 1)
  <1>1. /\ pc = "defaults" /\ at \in Nat /\ at < Len(config.defaults) /\ AllowedIsRead /\ DefaultsRead(at)
        /\ sets = <<{}>> /\ builder = {} /\ config \in Configurations /\ fallbacks \in [Attributes -> Seq(Texts)]
    BY DEF AddDefault, ConfigInv
  <1>2. UNCHANGED <<config, allowed, sets, builder>>
    BY DEF AddDefault
  <1>3. AllowedIsRead'
    BY <1>1, <1>2, SameConfiguration DEF AllowedIsRead
  <1>4. a = LET name == DeviceFamily(d.name) IN IF name \in DOMAIN TokenOf THEN TokenOf[name] ELSE AttributeOf[name]
    BY DEF DefaultAttribute, ListedName
  <1>5. \/ pc' = "failed" /\ UNCHANGED fallbacks
        \/ /\ pc' = pc /\ at' = at + 1 /\ named' = named \cup {a} /\ Recognised(ListedName(at + 1))
           /\ \/ d.value = Empty /\ UNCHANGED fallbacks
              \/ /\ d.value # Empty
                 /\ \E new \in Inserted(fallbacks[a], d.value) : fallbacks' = [fallbacks EXCEPT ![a] = new]
    <2> HIDE DEF d, a
    <2>1. CASE ~Recognised(ListedName(at + 1))
      BY <2>1 DEF AddDefault, Fail, ListedName
    <2>2. CASE Recognised(ListedName(at + 1))
      <3>1. /\ named' = named \cup {a}
            /\ IF d.value = Empty THEN UNCHANGED <<pc, status, fallbacks>> /\ at' = at + 1
               ELSE IF d.value \in Values[a]
                 THEN /\ \E new \in Inserted(fallbacks[a], d.value) : fallbacks' = [fallbacks EXCEPT ![a] = new]
                      /\ at' = at + 1 /\ UNCHANGED <<pc, status>>
                 ELSE Fail("INVALID_VALUE") /\ UNCHANGED <<at, fallbacks>>
        BY <2>2 DEF AddDefault, ListedName, DefaultAttribute, d, a
      <3> QED  BY <2>2, <3>1 DEF Fail
    <2> QED  BY <2>1, <2>2
  <1>6. CASE pc' = "failed" /\ UNCHANGED fallbacks
    BY <1>1, <1>2, <1>6 DEF ConfigInv, AddDefault
  <1>7. ASSUME pc' = pc, at' = at + 1, named' = named \cup {a}, Recognised(ListedName(at + 1)),
               \/ d.value = Empty /\ UNCHANGED fallbacks
               \/ /\ d.value # Empty
                  /\ \E new \in Inserted(fallbacks[a], d.value) : fallbacks' = [fallbacks EXCEPT ![a] = new]
        PROVE  ConfigInv'
    <2>1. a \in Attributes
      BY <1>7, NamesOfQualifiers DEF Recognised, DefaultAttribute
    <2>2. d.value \in Texts /\ at + 1 <= Len(config.defaults)
      BY <1>1, DefaultsType
    <2>3. \A b \in Attributes : /\ fallbacks'[b] \in Seq(Texts)
                               /\ ToSet(fallbacks'[b]) = ToSet(fallbacks[b]) \cup (IF b = a THEN {d.value} \ {Empty} ELSE {})
      BY <1>1, <1>7, <2>1, <2>2, InsertedType
    <2>4. fallbacks' \in [Attributes -> Seq(Texts)]
      BY <1>1, <1>7, <2>3
    <2>5. \A b : Given(b, at + 1) = Given(b, at) \cup (IF b = a THEN {at + 1} ELSE {})
      BY <1>1 DEF Given
    <2>6. \A b \in Attributes : ToSet(fallbacks'[b]) = {config.defaults[i].value : i \in Given(b, at + 1)} \ {Empty}
      <3> TAKE b \in Attributes
      <3>1. ToSet(fallbacks[b]) = {config.defaults[i].value : i \in Given(b, at)} \ {Empty}
        BY <1>1 DEF DefaultsRead
      <3>2. CASE b = a
        <4>1. Given(b, at + 1) = Given(b, at) \cup {at + 1}
          BY <2>5, <3>2
        <4> QED  BY <2>3, <3>1, <3>2, <4>1
      <3>3. CASE b # a
        <4>1. Given(b, at + 1) = Given(b, at) /\ ToSet(fallbacks'[b]) = ToSet(fallbacks[b])
          BY <2>3, <2>5, <3>3
        <4> QED  BY <3>1, <4>1
      <3> QED  BY <3>2, <3>3
    <2>7. (\A i \in 1 .. at + 1 : Recognised(ListedName(i))) /\ named' = {DefaultAttribute(i) : i \in 1 .. at + 1}
      BY <1>1, <1>7 DEF DefaultsRead
    <2>8. DefaultsRead(at)'
      BY <1>2, <1>7, <2>6, <2>7, SameConfiguration DEF DefaultsRead
    <2> QED  BY <1>1, <1>2, <1>3, <1>7, <2>2, <2>4, <2>8 DEF ConfigInv
  <1> QED  BY <1>5, <1>6, <1>7

\* The profile fills in what the configuration leaves out.
LEMMA CompleteDefaultsSettles == ConfigInv /\ CompleteDefaults => ConfigInv'
  <1> SUFFICES ASSUME ConfigInv, CompleteDefaults PROVE ConfigInv'
    OBVIOUS
  <1> DEFINE n == Len(config.defaults)
  <1>1. /\ pc = "defaults" /\ at = n /\ AllowedIsRead /\ DefaultsRead(n)
        /\ sets = <<{}>> /\ builder = {} /\ config \in Configurations /\ fallbacks \in [Attributes -> Seq(Texts)]
    BY DEF CompleteDefaults, ConfigInv
  <1>2. UNCHANGED <<config, allowed, sets, builder>> /\ at' = 0 /\ pc' \in {"base", "failed"}
    BY DEF CompleteDefaults, Fail
  <1>3. AllowedIsRead'
    BY <1>1, <1>2, SameConfiguration DEF AllowedIsRead
  <1>4. config.defaults \in Seq([name : STRING, value : STRING, allowed : Seq(SUBSET STRING)]) /\ n \in Nat /\ DOMAIN config.defaults = 1 .. n
    BY <1>1, DefaultsType
  <1>5. fallbacks' \in [Attributes -> Seq(Texts)] /\ \A a \in Attributes : ToSet(fallbacks'[a]) = DefaultsOf(a)
    <2>1. CASE config.defaults = <<>>
      <3>1. UNCHANGED fallbacks /\ n = 0
        BY <2>1, <1>4 DEF CompleteDefaults
      <3>2. \A a : Given(a, n) = {}
        BY <3>1 DEF Given
      <3> QED  BY <1>1, <2>1, <3>1, <3>2 DEF DefaultsRead, DefaultsOf
    <2>2. CASE config.defaults # <<>>
      <3>1. fallbacks' = [a \in Attributes |-> Completed(a)]
        BY <2>2 DEF CompleteDefaults
      <3>2. ASSUME NEW a \in Attributes
            PROVE  Completed(a) \in Seq(Texts) /\ ToSet(Completed(a)) = DefaultsOf(a)
        <4>1. fallbacks[a] \in Seq(Texts) /\ ToSet(fallbacks[a]) = {config.defaults[i].value : i \in Given(a, n)} \ {Empty}
          BY <1>1 DEF DefaultsRead
        <4>2. a \in named <=> Given(a, n) # {}
          BY <1>1 DEF DefaultsRead, Given
        <4>3. Environment[a] \in Texts
          BY DEF Texts
        <4>4. <<Environment[a]>> \in Seq(Texts) /\ ToSet(<<Environment[a]>>) = {Environment[a]}
          BY <4>3 DEF ToSet
        <4> QED  BY <2>2, <4>1, <4>2, <4>4 DEF Completed, DefaultsOf
      <3> QED  BY <3>1, <3>2
    <2> QED  BY <2>1, <2>2
  <1>6. \A i \in DOMAIN config.defaults : Recognised(ListedName(i))
    BY <1>1, <1>4 DEF DefaultsRead
  <1>7. DefaultsComplete'
    BY <1>2, <1>5, <1>6, SameConfiguration DEF DefaultsComplete
  <1> QED  BY <1>1, <1>2, <1>3, <1>5, <1>7 DEF ConfigInv

\* The steps that come once the defaults are complete.
Applies == AddQualifier \/ ApplyQualifiers \/ ReadExclusions \/ VisitFolder \/ VisitFile

\* They leave the configuration and its defaults alone.
LEMMA AppliesAfter ==
  ASSUME Applies
  PROVE  /\ pc \in {"base", "exclusions", "walk"} /\ pc' \in {"base", "exclusions", "walk", "failed"}
         /\ UNCHANGED <<config, allowed, fallbacks>>
         /\ at' \in {at, at + 1}
         /\ pc' = "base" => UNCHANGED sets
  <1>1. CASE AddQualifier
    BY <1>1 DEF AddQualifier, Fail
  <1>2. CASE ApplyQualifiers
    BY <1>2 DEF ApplyQualifiers
  <1>3. CASE ReadExclusions
    BY <1>3 DEF ReadExclusions, Fail
  <1>4. CASE VisitFolder
    BY <1>4 DEF VisitFolder, Fail
  <1>5. CASE VisitFile
    BY <1>5 DEF VisitFile, Fail
  <1> QED  BY <1>1, <1>2, <1>3, <1>4, <1>5 DEF Applies

\* So they keep what is known of it.
LEMMA AppliesSettles == ConfigInv /\ Applies => ConfigInv'
  <1> SUFFICES ASSUME ConfigInv, Applies PROVE ConfigInv'
    OBVIOUS
  <1>1. AllowedIsRead' /\ DefaultsComplete'
    BY AppliesAfter, SettledStays DEF ConfigInv
  <1>2. pc' = "base" => sets' = <<{}>>
    <2>1. pc' = "base" => pc = "base"
      BY DEF Applies, AddQualifier, ApplyQualifiers, ReadExclusions, VisitFolder, VisitFile, Fail
    <2> QED  BY <2>1, AppliesAfter DEF ConfigInv
  <1>3. at' \in Nat
    BY AppliesAfter DEF ConfigInv
  <1> QED  BY <1>1, <1>2, <1>3, AppliesAfter DEF ConfigInv

\* ConfigInv is inductive.
LEMMA ConfigStep == ConfigInv /\ [Next]_vars => ConfigInv'
  <1> SUFFICES ASSUME ConfigInv, [Next]_vars PROVE ConfigInv'
    OBVIOUS
  <1>1. CASE Applies
    BY <1>1, AppliesSettles
  <1>2. CASE UNCHANGED vars
    BY <1>2, SameConfiguration DEF vars, ConfigInv, AllowedIsRead, DefaultsRead, DefaultsComplete
  <1> QED
    BY <1>1, <1>2, ReadAllowedSettles, AddDefaultSettles, CompleteDefaultsSettles DEF Next, Applies

-----------------------------------------------------------------------------
(***************************************************************************)
(* The qualifier sets.                                                      *)
(***************************************************************************)
SetsInv ==
  /\ Interned(sets, Sound)
  /\ builder \subseteq Sound
  /\ base \in DOMAIN sets
  /\ pc \in {"allowed", "defaults", "base"} => base = Neutral
  /\ pc \in {"exclusions", "walk"} => sets[base] = builder

\* At first there is only the neutral set.
LEMMA NeutralOnly == \A quals : Interned(<<{}>>, quals)
  BY DEF Interned, Neutral

\* So the sets are sound at first.
LEMMA SetsInit == Init => SetsInv
  BY NeutralOnly DEF Init, SetsInv, Neutral

\* What is sound depends on the defaults and the allowed values alone.
LEMMA SameSound ==
  ASSUME UNCHANGED <<allowed, fallbacks>>
  PROVE  Sound' = Sound
  <1>1. \A a, v : ScoreOf(a, v)' = ScoreOf(a, v)
    BY DEF ScoreOf
  <1>2. Scored' = Scored
    BY <1>1 DEF Scored
  <1> QED  BY <1>2 DEF Sound

\* A qualifier of the pass is a pair, like that of a name.
LEMMA SingleType ==
  ASSUME NEW q \in [name : STRING, value : STRING], q.name \in DOMAIN AttributeOf
  PROVE  [key |-> q.name, value |-> q.value] \in PairsOfNames
  BY DEF PairsOfNames, Texts

\* A qualifier of the pass is allowed and has its score.
LEMMA AddQualifierInterns == ConfigInv /\ SetsInv /\ AddQualifier => SetsInv'
  <1> SUFFICES ASSUME ConfigInv, SetsInv, AddQualifier PROVE SetsInv'
    OBVIOUS
  <1> DEFINE q == config.qualifiers[at + 1]
             pair == [key |-> q.name, value |-> q.value]
  <1>1. UNCHANGED <<allowed, fallbacks, sets, base>> /\ pc = "base" /\ pc' \in {"base", "failed"}
    BY DEF AddQualifier, Fail
  <1>2. Sound' = Sound
    BY <1>1, SameSound
  <1>3. builder' \subseteq Sound
    <2>1. CASE UNCHANGED builder
      BY <2>1 DEF SetsInv
    <2>2. CASE q.name \in DOMAIN AttributeOf /\ Refusal(pair, "default") = "OK" /\ builder' = builder \cup AddQualifierToQSB(<<pair>>)
      <3>1. q \in [name : STRING, value : STRING]
        <4>1. config.qualifiers \in Seq([name : STRING, value : STRING])
          BY ConfigurationsAssumption DEF ConfigInv
        <4>2. at + 1 \in 1 .. Len(config.qualifiers)
          BY <4>1, LenProperties DEF AddQualifier, ConfigInv
        <4> QED  BY <4>1, <4>2, ElementOfSeq
      <3>2. Qualifier(pair) \in Sound
        BY <2>2, <3>1, SingleType, NotRefused
      <3>3. AddQualifierToQSB(<<pair>>) = {Qualifier(pair)}
        BY DEF AddQualifierToQSB
      <3> QED  BY <2>2, <3>2, <3>3 DEF SetsInv
    <2> QED  BY <2>1, <2>2 DEF AddQualifier
  <1> QED  BY <1>1, <1>2, <1>3 DEF SetsInv, Neutral

\* The set of the pass is interned.
LEMMA ApplyQualifiersInterns ==
  ASSUME SetsInv, ApplyQualifiers
  PROVE  SetsInv' /\ Keeps(sets', sets)
  <1> DEFINE new == GetOrAdd(builder)
  <1>1. UNCHANGED <<allowed, fallbacks, builder>> /\ pc = "base" /\ pc' = "exclusions"
    BY DEF ApplyQualifiers
  <1>2. Sound' = Sound
    BY <1>1, SameSound
  <1>3. CASE builder = {}
    <2>1. UNCHANGED <<sets, base>>
      BY <1>3 DEF ApplyQualifiers
    <2>2. sets[base] = {}
      BY <1>1 DEF SetsInv, Interned
    <2>3. Keeps(sets', sets)
      BY <2>1, LenProperties DEF SetsInv, Interned, Keeps
    <2> QED  BY <1>1, <1>2, <1>3, <2>1, <2>2, <2>3 DEF SetsInv
  <1>4. CASE builder # {}
    <2>1. GetOrAddQualifierSet(builder, Neutral) = new
      BY DEF GetOrAddQualifierSet
    <2>2. sets' = new.sets /\ base' = new.index
      BY <1>4, <2>1 DEF ApplyQualifiers
    <2>3. Interned(new.sets, Sound) /\ Keeps(new.sets, sets) /\ new.index \in DOMAIN new.sets /\ new.sets[new.index] = builder
      BY GetOrAddKeeps DEF SetsInv
    <2> HIDE DEF new
    <2> QED  BY <1>1, <1>2, <2>2, <2>3 DEF SetsInv
  <1> QED  BY <1>3, <1>4

-----------------------------------------------------------------------------
(***************************************************************************)
(* The folders: a visit either fails, or makes an entry of what is next in  *)
(* them, whose set is that of its folder with what its own name says.       *)
(***************************************************************************)
TypeOf(n) == IF n \in DOMAIN Tree THEN "folder" ELSE "file"

ResultOf(n) ==
  IF IF n \in DOMAIN Tree THEN config.folderNames ELSE config.fileNames
    THEN ApplyQualifier(Names[n].parts, Parent.set, TypeOf(n)) ELSE NotApplied

EntryOf(n, result) ==
  IF n \in DOMAIN Tree THEN FolderEntry(Parent, n, result) ELSE FileEntry(Parent, n, result)

FoundIn(n, entry) == IF n \in DOMAIN Tree THEN Children(n, entry) ELSE <<>>

\* What a visit that makes an entry does.
MakesEntry ==
  LET result == ResultOf(Next_)
  IN  /\ result.status = "OK" /\ pc' = "walk" /\ UNCHANGED status
      /\ entries' = Append(entries, EntryOf(Next_, result))
      /\ pending' = Tail(pending) \o FoundIn(Next_, EntryOf(Next_, result))

\* A visit fails, or makes an entry.
LEMMA VisitIs ==
  ASSUME VisitFolder \/ VisitFile
  PROVE  /\ pc = "walk" /\ pending # <<>>
         /\ UNCHANGED <<config, allowed, fallbacks, builder, base>>
         /\ sets' = ResultOf(Next_).sets
         /\ MakesEntry \/ (pc' = "failed" /\ status' # "OK" /\ UNCHANGED <<pending, entries>>)
  <1>1. CASE VisitFolder
    <2>1. ResultOf(Next_) = IF config.folderNames THEN ApplyQualifier(Names[Next_].parts, Parent.set, "folder") ELSE NotApplied
      BY <1>1 DEF VisitFolder, ResultOf, TypeOf
    <2> QED  BY <1>1, <2>1 DEF VisitFolder, MakesEntry, EntryOf, FoundIn, Fail
  <1>2. CASE VisitFile
    <2>1. ResultOf(Next_) = IF config.fileNames THEN ApplyQualifier(Names[Next_].parts, Parent.set, "file") ELSE NotApplied
      BY <1>2 DEF VisitFile, ResultOf, TypeOf
    <2>2. MakesEntry \/ (pc' = "failed" /\ status' # "OK" /\ UNCHANGED <<pending, entries>>)
      <3> DEFINE r == ResultOf(Next_)
      <3>1. CASE r.status # "OK"
        BY <1>2, <2>1, <3>1 DEF VisitFile, Fail
      <3>2. CASE r.status = "OK" /\ r.applied /\ Names[Next_].without = Empty
        BY <1>2, <2>1, <3>2 DEF VisitFile, Fail
      <3>3. CASE r.status = "OK" /\ ~(r.applied /\ Names[Next_].without = Empty)
        <4>1. pending' = Tail(pending) /\ entries' = Append(entries, FileEntry(Parent, Next_, r)) /\ UNCHANGED <<pc, status>>
          BY <1>2, <2>1, <3>3 DEF VisitFile
        <4>2. Tail(pending) = Tail(pending) \o <<>>
          BY <1>2
        <4> QED  BY <1>2, <3>3, <4>1, <4>2 DEF VisitFile, MakesEntry, EntryOf, FoundIn
      <3> QED  BY <3>1, <3>2, <3>3
    <2> QED  BY <1>2, <2>1, <2>2 DEF VisitFile
  <1> QED  BY <1>1, <1>2

Words == DOMAIN Names \cup {Names[n].without : n \in DOMAIN Names}
Paths == Seq(DOMAIN Names)

Entries == [path : Paths, name : Seq(Words), set : Nat, flags : SUBSET Flags, node : DOMAIN Names \cup {"root"}]
Waiting == [parent : Nat, node : DOMAIN Names]

TreeInv ==
  /\ entries \in Seq(Entries) /\ pending \in Seq(Waiting)
  /\ \A i \in DOMAIN entries : entries[i].set \in DOMAIN sets
  /\ \A i \in DOMAIN pending : pending[i].parent \in DOMAIN entries /\ "traverse" \in entries[pending[i].parent].flags
  /\ pc \in {"allowed", "defaults", "base"} => entries = <<>>
  /\ pc \in {"allowed", "defaults", "base", "exclusions"} => pending = <<>>
  /\ pc = "exclusions" => Len(entries) = 1 /\ "traverse" \in entries[1].flags

\* To apply a name keeps the sets sound.
LEMMA ResultDoes ==
  ASSUME Interned(sets, Sound), Parent.set \in DOMAIN sets, NEW n \in DOMAIN Names
  PROVE  LET result == ResultOf(n)
         IN  /\ Interned(result.sets, Sound) /\ Keeps(result.sets, sets)
             /\ result.set \in DOMAIN result.sets
             /\ result.status = "OK" =>
                  /\ (result.applied <=> IsQualifier(n))
                  /\ result.sets[result.set] =
                       sets[Parent.set] \cup (IF result.applied THEN QualifiersOf(Names[n].parts, TypeOf(n)) ELSE {})
  <1> DEFINE used == IF n \in DOMAIN Tree THEN config.folderNames ELSE config.fileNames
  <1>1. Names[n].parts \in Seq(Parts)
    BY TreeAssumption DEF Parts
  <1>2. IsQualifier(n) <=> used /\ QualifierParts(Names[n].parts, TypeOf(n))
    <2>1. CASE n \in DOMAIN Tree
      BY <2>1 DEF IsQualifier, QualifierParts, TypeOf
    <2>2. CASE n \notin DOMAIN Tree
      BY <2>2 DEF IsQualifier, QualifierParts, TypeOf
    <2> QED  BY <2>1, <2>2
  <1>3. CASE used
    <2>1. ResultOf(n) = ApplyQualifier(Names[n].parts, Parent.set, TypeOf(n))
      BY <1>3 DEF ResultOf
    <2> QED  BY <1>1, <1>2, <1>3, <2>1, ApplyQualifierDoes
  <1>4. CASE ~used
    <2>1. ResultOf(n) = NotApplied
      BY <1>4 DEF ResultOf
    <2>2. Keeps(sets, sets)
      BY LenProperties DEF Interned, Keeps
    <2> QED  BY <1>2, <1>4, <2>1, <2>2 DEF NotApplied
  <1> QED  BY <1>3, <1>4

\* What waits is known, and its folder is an entry that is entered.
LEMMA NextIs ==
  ASSUME TreeInv, pending # <<>>
  PROVE  /\ Next_ \in DOMAIN Names /\ pending[1].parent \in DOMAIN entries
         /\ Parent \in Entries /\ Parent.set \in DOMAIN sets /\ "traverse" \in Parent.flags
  <1>1. 1 \in DOMAIN pending /\ pending[1] \in Waiting
    BY LenProperties, ElementOfSeq, EmptySeq DEF TreeInv
  <1>2. pending[1].parent \in DOMAIN entries /\ "traverse" \in entries[pending[1].parent].flags
    BY <1>1 DEF TreeInv
  <1>3. entries[pending[1].parent] \in Entries
    BY <1>2, LenProperties, ElementOfSeq DEF TreeInv
  <1> QED  BY <1>1, <1>2, <1>3 DEF Next_, Parent, Waiting, TreeInv

\* What is not seen of an entry: its name is that of its folder, or goes on.
LEMMA EntryType ==
  ASSUME Parent \in Entries, NEW n \in DOMAIN Names, NEW result, result.set \in Nat
  PROVE  LET e == EntryOf(n, result)
         IN  /\ e \in Entries
             /\ e.path = Append(Parent.path, n) /\ e.flags = FlagsOf(e.path) /\ e.set = result.set
             /\ e.name = IF n \in DOMAIN Tree /\ result.applied THEN Parent.name
                         ELSE Append(Parent.name, IF n \notin DOMAIN Tree /\ result.applied THEN Names[n].without ELSE n)
  <1> DEFINE path == Append(Parent.path, n)
             word == IF n \notin DOMAIN Tree /\ result.applied THEN Names[n].without ELSE n
             name == IF n \in DOMAIN Tree /\ result.applied THEN Parent.name ELSE Append(Parent.name, word)
  <1>1. EntryOf(n, result) = [path |-> path, name |-> name, set |-> result.set, flags |-> FlagsOf(path), node |-> n]
    <2>1. CASE n \in DOMAIN Tree
      BY <2>1 DEF EntryOf, FolderEntry
    <2>2. CASE n \notin DOMAIN Tree
      BY <2>2 DEF EntryOf, FileEntry
    <2> QED  BY <2>1, <2>2
  <1>2. path \in Paths
    BY AppendProperties DEF Entries, Paths
  <1>3. word \in Words
    BY DEF Words
  <1>4. name \in Seq(Words)
    BY <1>3, AppendProperties DEF Entries
  <1>5. FlagsOf(path) \in SUBSET Flags
    BY DEF FlagsOf
  <1> HIDE DEF path, name, word
  <1>6. [path |-> path, name |-> name, set |-> result.set, flags |-> FlagsOf(path), node |-> n] \in Entries
    BY <1>2, <1>4, <1>5 DEF Entries
  <1>7. name = IF n \in DOMAIN Tree /\ result.applied THEN Parent.name ELSE Append(Parent.name, word)
    BY DEF name
  <1> QED  BY <1>1, <1>6, <1>7 DEF path, word

\* What is found in a folder waits for it.
LEMMA FoundInType ==
  ASSUME NEW n, NEW e \in Entries, entries \in Seq(Entries)
  PROVE  /\ FoundIn(n, e) \in Seq(Waiting)
         /\ \A i \in DOMAIN FoundIn(n, e) : FoundIn(n, e)[i].parent = Len(entries) + 1 /\ "traverse" \in e.flags
  <1>1. CASE n \in DOMAIN Tree /\ "traverse" \in e.flags
    <2>1. Tree[n] \in Seq(DOMAIN Names) /\ Len(entries) + 1 \in Nat
      BY <1>1, TreeAssumption, LenProperties
    <2>2. Len(Tree[n]) \in Nat /\ DOMAIN Tree[n] = 1 .. Len(Tree[n]) /\ \A i \in 1 .. Len(Tree[n]) : Tree[n][i] \in DOMAIN Names
      BY <2>1, LenProperties, ElementOfSeq
    <2>3. FoundIn(n, e) = [i \in 1 .. Len(Tree[n]) |-> [parent |-> Len(entries) + 1, node |-> Tree[n][i]]]
      BY <1>1, <2>2 DEF FoundIn, Children
    <2> QED  BY <1>1, <2>1, <2>2, <2>3 DEF Waiting
  <1>2. CASE ~(n \in DOMAIN Tree /\ "traverse" \in e.flags)
    <2>1. FoundIn(n, e) = <<>>
      BY <1>2 DEF FoundIn, Children
    <2> QED  BY <2>1
  <1> QED  BY <1>1, <1>2

\* A visit keeps the sets sound and the entries in their place.
LEMMA VisitKeepsTheTree ==
  ASSUME SetsInv, TreeInv, VisitFolder \/ VisitFile
  PROVE  SetsInv' /\ TreeInv' /\ Keeps(sets', sets)
  <1> DEFINE r == ResultOf(Next_)
             e == EntryOf(Next_, r)
             found == FoundIn(Next_, e)
  <1>1. /\ pc = "walk" /\ pending # <<>> /\ UNCHANGED <<config, allowed, fallbacks, builder, base>> /\ sets' = r.sets
        /\ MakesEntry \/ (pc' = "failed" /\ status' # "OK" /\ UNCHANGED <<pending, entries>>)
    BY VisitIs
  <1>2. /\ Next_ \in DOMAIN Names /\ Parent \in Entries /\ Parent.set \in DOMAIN sets /\ "traverse" \in Parent.flags
    BY <1>1, NextIs
  <1>3. Interned(r.sets, Sound) /\ Keeps(r.sets, sets) /\ r.set \in DOMAIN r.sets
    BY <1>2, ResultDoes DEF SetsInv
  <1>4. SetsInv' /\ Keeps(sets', sets)
    <2>1. Sound' = Sound
      BY <1>1, SameSound
    <2>2. base \in DOMAIN sets' /\ sets'[base] = sets[base]
      BY <1>1, <1>3, LenProperties DEF SetsInv, Interned, Keeps
    <2>3. pc' \in {"walk", "failed"}
      BY <1>1 DEF MakesEntry
    <2> QED  BY <1>1, <1>3, <2>1, <2>2, <2>3 DEF SetsInv
  <1>5. DOMAIN sets \subseteq DOMAIN sets'
    BY <1>1, <1>3, LenProperties DEF SetsInv, Interned, Keeps
  <1>6. CASE pc' = "failed" /\ UNCHANGED <<pending, entries>>
    BY <1>4, <1>5, <1>6 DEF TreeInv
  <1>7. CASE MakesEntry
    <2>1. pc' = "walk" /\ entries' = Append(entries, e) /\ pending' = Tail(pending) \o found
      BY <1>7 DEF MakesEntry
    <2>2. r.set \in Nat
      BY <1>3, LenProperties DEF Interned
    <2>3. e \in Entries /\ e.set = r.set
      BY <1>2, <2>2, EntryType
    <2>4. /\ found \in Seq(Waiting)
          /\ \A i \in DOMAIN found : found[i].parent = Len(entries) + 1 /\ "traverse" \in e.flags
      BY <2>3, FoundInType DEF TreeInv
    <2> HIDE DEF r, e, found
    <2>5. Len(entries) \in Nat /\ DOMAIN entries = 1 .. Len(entries) /\ entries \in Seq(Entries)
      BY LenProperties DEF TreeInv
    <2>6. /\ entries' \in Seq(Entries) /\ DOMAIN entries' = 1 .. Len(entries) + 1 /\ entries'[Len(entries) + 1] = e
          /\ \A i \in 1 .. Len(entries) : entries'[i] = entries[i]
      BY <2>1, <2>3, <2>5, AppendProperties, LenProperties
    <2>7. \A i \in DOMAIN entries' : entries'[i].set \in DOMAIN sets'
      BY <1>1, <1>3, <1>5, <2>3, <2>5, <2>6 DEF TreeInv
    <2>8. pending \in Seq(Waiting) /\ Len(pending) \in Nat /\ DOMAIN pending = 1 .. Len(pending) /\ Len(pending) >= 1
      BY <1>1, LenProperties, EmptySeq DEF TreeInv
    <2>9. /\ Tail(pending) \in Seq(Waiting) /\ Len(Tail(pending)) = Len(pending) - 1
          /\ \A i \in 1 .. Len(pending) - 1 : Tail(pending)[i] = pending[i + 1]
      BY <1>1, <2>8, HeadTailProperties
    <2>10. pending' \in Seq(Waiting)
      BY <2>1, <2>4, <2>9, ConcatProperties
    <2>11. ASSUME NEW i \in DOMAIN pending'
           PROVE  pending'[i].parent \in DOMAIN entries' /\ "traverse" \in entries'[pending'[i].parent].flags
      <3>1. Len(found) \in Nat /\ DOMAIN found = 1 .. Len(found)
        BY <2>4, LenProperties
      <3>2. DOMAIN pending' = 1 .. (Len(pending) - 1) + Len(found)
        BY <2>1, <2>4, <2>8, <2>9, <2>10, <3>1, ConcatProperties, LenProperties
      <3>3. CASE i <= Len(pending) - 1
        <4>1. pending'[i] = pending[i + 1] /\ i + 1 \in DOMAIN pending
          BY <2>1, <2>4, <2>8, <2>9, <3>1, <3>2, <3>3, ConcatProperties
        <4>2. pending[i + 1].parent \in DOMAIN entries /\ "traverse" \in entries[pending[i + 1].parent].flags
          BY <4>1 DEF TreeInv
        <4> QED  BY <2>5, <2>6, <4>1, <4>2
      <3>4. CASE i > Len(pending) - 1
        <4>1. pending'[i] = found[i - (Len(pending) - 1)] /\ i - (Len(pending) - 1) \in DOMAIN found
          BY <2>1, <2>4, <2>8, <2>9, <3>1, <3>2, <3>4, ConcatProperties
        <4> QED  BY <2>4, <2>5, <2>6, <4>1
      <3> QED  BY <2>8, <3>2, <3>3, <3>4
    <2> QED  BY <1>4, <2>1, <2>6, <2>7, <2>10, <2>11 DEF TreeInv
  <1> QED  BY <1>1, <1>4, <1>6, <1>7

Early == ReadAllowed \/ AddDefault \/ CompleteDefaults

\* The steps that read the defaults leave sets and entries alone.
LEMMA EarlyLeaves ==
  ASSUME Early
  PROVE  /\ pc \in {"allowed", "defaults"} /\ pc' \in {"allowed", "defaults", "base", "failed"}
         /\ UNCHANGED <<config, sets, builder, base, pending, entries>>
  BY DEF Early, ReadAllowed, AddDefault, CompleteDefaults, Fail

\* So they keep what is known of them.
LEMMA EarlyKeepsTheTree ==
  ASSUME ConfigInv, SetsInv, TreeInv, Early
  PROVE  SetsInv' /\ TreeInv'
  <1>1. sets' = <<{}>> /\ builder' = {} /\ base' = Neutral
    BY EarlyLeaves DEF ConfigInv, SetsInv
  <1>2. Interned(sets', Sound') /\ base' \in DOMAIN sets'
    BY <1>1, NeutralOnly DEF Neutral
  <1>3. SetsInv'
    BY <1>1, <1>2, EarlyLeaves DEF SetsInv, Neutral
  <1>4. TreeInv'
    BY EarlyLeaves DEF TreeInv
  <1> QED  BY <1>3, <1>4

\* The root is the first entry.
LEMMA RootType ==
  ASSUME ConfigInv, SetsInv, TreeInv, ApplyQualifiers
  PROVE  TreeInv'
  <1> DEFINE root == [path |-> config.root, name |-> <<>>, set |-> base', flags |-> {"traverse"}, node |-> "root"]
  <1>1. entries' = <<root>> /\ pc' = "exclusions" /\ pending' = <<>>
    BY DEF ApplyQualifiers, TreeInv
  <1>2. base' \in DOMAIN sets' /\ base' \in Nat
    BY ApplyQualifiersInterns, LenProperties DEF SetsInv, Interned
  <1>3. config.root \in Paths
    BY ConfigurationsAssumption DEF ConfigInv, Paths
  <1>4. root \in Entries
    BY <1>2, <1>3 DEF Entries, Flags
  <1>5. root.set = base' /\ root.flags = {"traverse"}
    OBVIOUS
  <1> HIDE DEF root
  <1> QED  BY <1>1, <1>2, <1>4, <1>5 DEF TreeInv

\* To read the exclusions changes no set, and finds what is in the root.
LEMMA ReadExclusionsKeepsTheTree ==
  ASSUME SetsInv, TreeInv, ReadExclusions
  PROVE  SetsInv' /\ TreeInv'
  <1>1. pc = "exclusions" /\ pc' \in {"walk", "failed"} /\ UNCHANGED <<config, allowed, fallbacks, sets, builder, base, entries>>
    BY DEF ReadExclusions, Fail
  <1>2. SetsInv'
    BY <1>1, SameSound DEF SetsInv
  <1>3. CASE UNCHANGED pending /\ pc' = "failed"
    BY <1>1, <1>2, <1>3 DEF TreeInv
  <1>4. CASE pc' = "walk" /\ pending' = [i \in DOMAIN Tree["root"] |-> [parent |-> 1, node |-> Tree["root"][i]]]
    <2>1. Tree["root"] \in Seq(DOMAIN Names)
      BY TreeAssumption
    <2>2. Len(Tree["root"]) \in Nat /\ DOMAIN Tree["root"] = 1 .. Len(Tree["root"])
          /\ \A i \in 1 .. Len(Tree["root"]) : Tree["root"][i] \in DOMAIN Names
      BY <2>1, LenProperties, ElementOfSeq
    <2>3. pending' \in Seq(Waiting) /\ \A i \in DOMAIN pending' : pending'[i].parent = 1
      BY <1>4, <2>2 DEF Waiting
    <2>4. 1 \in DOMAIN entries /\ "traverse" \in entries[1].flags
      BY <1>1, LenProperties DEF TreeInv
    <2> QED  BY <1>1, <1>2, <1>4, <2>3, <2>4 DEF TreeInv
  <1> QED  BY <1>3, <1>4 DEF ReadExclusions, Fail

-----------------------------------------------------------------------------
StatusInv ==
  /\ pc \in {"allowed", "defaults", "base", "exclusions", "walk", "failed"}
  /\ (pc = "failed") = (status # "OK")

\* StatusInv is inductive.
LEMMA StatusStep == StatusInv /\ [Next]_vars => StatusInv'
  <1> SUFFICES ASSUME StatusInv, [Next]_vars PROVE StatusInv'
    OBVIOUS
  <1>1. CASE Early
    BY <1>1 DEF StatusInv, Early, ReadAllowed, AddDefault, CompleteDefaults, Fail
  <1>2. CASE AddQualifier \/ ApplyQualifiers \/ ReadExclusions
    BY <1>2 DEF StatusInv, AddQualifier, ApplyQualifiers, ReadExclusions, Fail
  <1>3. CASE VisitFolder \/ VisitFile
    BY <1>3, VisitIs DEF StatusInv, MakesEntry
  <1>4. CASE UNCHANGED vars
    BY <1>4 DEF StatusInv, vars
  <1> QED  BY <1>1, <1>2, <1>3, <1>4 DEF Next, Early

IInv == ConfigInv /\ SetsInv /\ TreeInv /\ StatusInv

\* The invariant holds at first.
LEMMA IInvInit == Init => IInv
  <1> SUFFICES ASSUME Init PROVE IInv
    OBVIOUS
  <1>1. TreeInv
    BY DEF Init, TreeInv
  <1>2. StatusInv
    BY DEF Init, StatusInv
  <1> QED  BY <1>1, <1>2, ConfigInit, SetsInit DEF IInv

\* It is inductive: each step keeps each of its parts.
LEMMA IInvStep == IInv /\ [Next]_vars => IInv'
  <1> SUFFICES ASSUME ConfigInv, SetsInv, TreeInv, StatusInv, [Next]_vars PROVE SetsInv' /\ TreeInv'
    BY ConfigStep, StatusStep DEF IInv
  <1>1. CASE Early
    BY <1>1, EarlyKeepsTheTree
  <1>2. CASE AddQualifier
    <2>1. SetsInv'
      BY <1>2, AddQualifierInterns
    <2> QED  BY <1>2, <2>1 DEF AddQualifier, Fail, TreeInv
  <1>3. CASE ApplyQualifiers
    BY <1>3, ApplyQualifiersInterns, RootType
  <1>4. CASE ReadExclusions
    BY <1>4, ReadExclusionsKeepsTheTree
  <1>5. CASE VisitFolder \/ VisitFile
    BY <1>5, VisitKeepsTheTree
  <1>6. CASE UNCHANGED vars
    BY <1>6, SameSound DEF vars, SetsInv, TreeInv
  <1> QED  BY <1>1, <1>2, <1>3, <1>4, <1>5, <1>6 DEF Next, Early

\* So it always holds.
LEMMA Invariant == Spec => []IInv
  <1>1. Init => IInv
    BY IInvInit
  <1>2. IInv /\ [Next]_vars => IInv'
    BY IInvStep
  <1> QED  BY <1>1, <1>2, PTL DEF Spec

\* Every entry refers to a qualifier set that there is, no set is there twice,
\* and the status is an error exactly when the pass has stopped.
THEOREM TypeCorrect == Spec => []TypeOK
  <1>1. IInv => TypeOK
    <2> SUFFICES ASSUME IInv PROVE TypeOK
      OBVIOUS
    <2>1. \A i \in DOMAIN entries : entries[i].set \in DOMAIN sets /\ entries[i].flags \subseteq Flags
      <3>1. \A i \in DOMAIN entries : entries[i] \in Entries
        BY LenProperties, ElementOfSeq DEF IInv, TreeInv
      <3> QED  BY <3>1 DEF IInv, TreeInv, Entries
    <2>2. \A i \in DOMAIN pending : pending[i].parent \in DOMAIN entries
      BY DEF IInv, TreeInv
    <2>3. (\A i, j \in DOMAIN sets : sets[i] = sets[j] => i = j) /\ base \in DOMAIN sets
      BY DEF IInv, SetsInv, Interned
    <2> QED  BY <2>1, <2>2, <2>3 DEF IInv, StatusInv, TypeOK
  <1> QED  BY <1>1, Invariant, PTL

\* _IsUltFallbackQualifier scores a qualifier, in whichever set it stands, by
\* the default of the configuration, or of the profile where that has none.
THEOREM ScoresAreRight == Spec => []ScoredByTheDefault
  <1>1. IInv => ScoredByTheDefault
    <2> SUFFICES ASSUME IInv, NEW k \in DOMAIN sets, NEW q \in sets[k]
                 PROVE  LET given == {d \in ToSet(config.defaults) : Recognised(DeviceFamily(d.name))
                                       /\ Attribute(Pair([name |-> DeviceFamily(d.name), value |-> d.value, text |-> Empty], "default")) = q.attribute}
                            values == {d.value : d \in given} \ {Empty}
                            defaults == IF config.defaults = <<>> THEN {}
                                        ELSE IF given # {} THEN values
                                        ELSE IF q.attribute = Language THEN {} ELSE {Environment[q.attribute]} \ {Empty}
                        IN  IF defaults = {} THEN q.score = 0 ELSE \E d \in defaults : q.score = Evaluate[q.attribute][<<q.value, d>>]
      BY DEF ScoredByTheDefault, ToSet
    <2> DEFINE a == q.attribute
               given == {d \in ToSet(config.defaults) : Recognised(DeviceFamily(d.name))
                           /\ Attribute(Pair([name |-> DeviceFamily(d.name), value |-> d.value, text |-> Empty], "default")) = a}
    <2>1. q \in Scored /\ sets # <<{}>>
      <3>1. sets[k] \in SUBSET Sound
        BY LenProperties, ElementOfSeq DEF IInv, SetsInv, Interned
      <3>2. sets = <<{}>> => sets[k] = {}
        OBVIOUS
      <3> QED  BY <3>1, <3>2 DEF Sound
    <2>2. a \in Attributes /\ q.score = ScoreOf(a, q.value)
      BY <2>1 DEF Scored
    <2>3. DefaultsComplete /\ config \in Configurations /\ fallbacks \in [Attributes -> Seq(Texts)]
      BY <2>1 DEF IInv, ConfigInv, StatusInv
    <2>4. ToSet(fallbacks[a]) = DefaultsOf(a) /\ fallbacks[a] \in Seq(Texts)
      BY <2>2, <2>3 DEF DefaultsComplete
    <2>5. IF DefaultsOf(a) = {} THEN q.score = 0 ELSE \E d \in DefaultsOf(a) : q.score = Evaluate[a][<<q.value, d>>]
      <3>1. CASE fallbacks[a] = <<>>
        BY <2>2, <2>4, <3>1 DEF ToSet, ScoreOf
      <3>2. CASE fallbacks[a] # <<>>
        <4>1. 1 \in DOMAIN fallbacks[a] /\ Head(fallbacks[a]) = fallbacks[a][1]
          BY <2>4, <3>2, LenProperties, EmptySeq
        <4> QED  BY <2>2, <2>4, <3>2, <4>1 DEF ToSet, ScoreOf
      <3> QED  BY <3>1, <3>2
    <2>6. /\ given = {config.defaults[i] : i \in Given(a, Len(config.defaults))}
      <3>1. DOMAIN config.defaults = 1 .. Len(config.defaults)
        BY <2>3, DefaultsType
      <3>2. ASSUME NEW i \in DOMAIN config.defaults
            PROVE  LET d == config.defaults[i]
                   IN  /\ Recognised(DeviceFamily(d.name))
                       /\ Attribute(Pair([name |-> DeviceFamily(d.name), value |-> d.value, text |-> Empty], "default")) = DefaultAttribute(i)
        <4>1. Recognised(ListedName(i))
          BY <2>3 DEF DefaultsComplete
        <4> QED  BY <4>1, NamesOfQualifiers DEF ListedName, DefaultAttribute, Recognised, Attribute, Pair
      <3> QED  BY <3>1, <3>2 DEF Given, ToSet
    <2> HIDE DEF given
    <2>7. (given = {} <=> Given(a, Len(config.defaults)) = {})
          /\ {d.value : d \in given} = {config.defaults[i].value : i \in Given(a, Len(config.defaults))}
      BY <2>6
    <2> QED  BY <2>5, <2>7 DEF DefaultsOf, given
  <1> QED  BY <1>1, Invariant, PTL

\* _ValidateAttributeValueMap lets no value into a qualifier set that the
\* configuration does not allow, be it from a name or from the pass itself.
THEOREM OnlyTheAllowed == Spec => []AllowedOnly
  <1>1. IInv => AllowedOnly
    <2> SUFFICES ASSUME IInv, NEW k \in DOMAIN sets, NEW q \in sets[k],
                        NEW i \in DOMAIN config.defaults, config.defaults[i].allowed # <<>>,
                        AttributeOf[ListedName(i)] = q.attribute,
                        \A e \in ToSet(config.defaults) : e.allowed # <<>> /\ e # config.defaults[i] => AttributeOf[DeviceFamily(e.name)] # q.attribute
                 PROVE  q.value \in config.defaults[i].allowed[1]
      BY DEF AllowedOnly, ToSet, ListedName
    <2> DEFINE a == q.attribute
               of == {j \in Listed : AttributeOf[ListedName(j)] = a}
               first == CHOOSE j \in of : \A l \in of : j <= l
    <2>1. q \in Sound /\ sets # <<{}>>
      <3>1. sets[k] \in SUBSET Sound
        BY LenProperties, ElementOfSeq DEF IInv, SetsInv, Interned
      <3>2. sets = <<{}>> => sets[k] = {}
        OBVIOUS
      <3> QED  BY <3>1, <3>2
    <2>2. AllowedIsRead /\ config \in Configurations
      BY <2>1 DEF IInv, ConfigInv, StatusInv
    <2>3. i \in of /\ a \in DOMAIN AllowedLists
      BY DEF Listed, AllowedLists
    <2>4. of \in SUBSET Nat
      BY <2>2, DefaultsType DEF Listed
    <2>5. first \in of
      <3> HIDE DEF of
      <3> QED  BY <2>3, <2>4, LeastNumber
    <2>6. AllowedLists[a] = config.defaults[first].allowed[1]
      BY <2>3 DEF AllowedLists
    <2>7. config.defaults[first] = config.defaults[i]
      <3> HIDE DEF first
      <3>1. first \in DOMAIN config.defaults /\ config.defaults[first].allowed # <<>> /\ AttributeOf[ListedName(first)] = a
        BY <2>5 DEF Listed
      <3> QED  BY <3>1 DEF ToSet, ListedName
    <2>8. q.value \in allowed[a]
      BY <2>1, <2>2, <2>3 DEF Sound, AllowedIsRead
    <2> QED  BY <2>2, <2>6, <2>7, <2>8 DEF AllowedIsRead
  <1> QED  BY <1>1, Invariant, PTL

-----------------------------------------------------------------------------
(***************************************************************************)
(* The entries: where each stands, and what its path says.                  *)
(***************************************************************************)
RootLen == Len(config.root)

\* Every folder above an entry, but the root, is one that is entered.
Entered(e) == \A k \in RootLen + 1 .. Len(e.path) - 1 : "traverse" \in FlagsOf(SubSeq(e.path, 1, k))

Below(e) == SubSeq(e.path, RootLen + 1, Len(e.path))

Tells(e, table) ==
  /\ Qualifies(table[e.set]) = Qualifies(builder) \cup UNION {Said(n) : n \in {m \in ToSet(Below(e)) : IsQualifier(m)}}
  /\ NameOf(e.name, Below(e))

Stands(i, e) ==
  /\ IF i = 1 THEN e.path = config.root ELSE e.flags = FlagsOf(e.path)
  /\ Len(e.path) >= RootLen
  /\ Entered(e)

EntriesInv == \A i \in DOMAIN entries : Stands(i, entries[i]) /\ Tells(entries[i], sets)

\* What is below the root of a path grows with the path.
LEMMA BelowGrows ==
  ASSUME NEW path \in Paths, NEW n \in DOMAIN Names, NEW L \in Nat, L <= Len(path)
  PROVE  /\ Append(path, n) \in Paths /\ Len(Append(path, n)) = Len(path) + 1
         /\ \A k \in 0 .. Len(path) : SubSeq(Append(path, n), 1, k) = SubSeq(path, 1, k)
         /\ SubSeq(path, L + 1, Len(path)) \in Paths
         /\ SubSeq(Append(path, n), L + 1, Len(path) + 1) = Append(SubSeq(path, L + 1, Len(path)), n)
  <1> DEFINE longer == Append(path, n)
             below == SubSeq(path, L + 1, Len(path))
             after == SubSeq(longer, L + 1, Len(path) + 1)
  <1>1. Len(path) \in Nat /\ \A i \in 1 .. Len(path) : path[i] \in DOMAIN Names
    BY LenProperties, ElementOfSeq DEF Paths
  <1>2. longer \in Paths /\ Len(longer) = Len(path) + 1
        /\ (\A i \in 1 .. Len(path) : longer[i] = path[i]) /\ longer[Len(path) + 1] = n
    BY <1>1, AppendProperties DEF Paths
  <1>3. below \in Paths /\ Len(below) = Len(path) - L /\ \A i \in 1 .. Len(path) - L : below[i] = path[L + i]
    <2>1. \A i \in L + 1 .. Len(path) : path[i] \in DOMAIN Names
      BY <1>1
    <2>2. below \in Seq(DOMAIN Names) /\ Len(below) = (IF L + 1 <= Len(path) THEN Len(path) - (L + 1) + 1 ELSE 0)
          /\ \A i \in 1 .. Len(path) - (L + 1) + 1 : below[i] = path[L + 1 + i - 1]
      BY <1>1, <2>1, SubSeqProperties
    <2> QED  BY <1>1, <2>2 DEF Paths
  <1> HIDE DEF longer
  <1>4. \A i \in 1 .. Len(path) + 1 : longer[i] \in DOMAIN Names
    BY <1>1, <1>2
  <1>5. after \in Paths /\ Len(after) = Len(path) - L + 1 /\ \A i \in 1 .. Len(path) - L + 1 : after[i] = longer[L + i]
    <2>1. after \in Seq(DOMAIN Names) /\ Len(after) = (IF L + 1 <= Len(path) + 1 THEN (Len(path) + 1) - (L + 1) + 1 ELSE 0)
          /\ \A i \in 1 .. (Len(path) + 1) - (L + 1) + 1 : after[i] = longer[L + 1 + i - 1]
      BY <1>1, <1>4, SubSeqProperties
    <2> QED  BY <1>1, <2>1 DEF Paths
  <1>6. \A k \in 0 .. Len(path) : SubSeq(longer, 1, k) = SubSeq(path, 1, k)
    <2> TAKE k \in 0 .. Len(path)
    <2>1. /\ SubSeq(longer, 1, k) \in Seq(DOMAIN Names) /\ Len(SubSeq(longer, 1, k)) = k
          /\ \A i \in 1 .. k : SubSeq(longer, 1, k)[i] = longer[i]
      <3>1. \A i \in 1 .. k : longer[i] \in DOMAIN Names
        BY <1>1, <1>4
      <3> QED  BY <1>1, <3>1, SubSeqProperties
    <2>2. /\ SubSeq(path, 1, k) \in Seq(DOMAIN Names) /\ Len(SubSeq(path, 1, k)) = k
          /\ \A i \in 1 .. k : SubSeq(path, 1, k)[i] = path[i]
      <3>1. \A i \in 1 .. k : path[i] \in DOMAIN Names
        BY <1>1
      <3> QED  BY <1>1, <3>1, SubSeqProperties
    <2>3. \A i \in 1 .. k : SubSeq(longer, 1, k)[i] = SubSeq(path, 1, k)[i]
      BY <1>1, <1>2, <2>1, <2>2
    <2> QED  BY <2>1, <2>2, <2>3, SeqEqual
  <1> HIDE DEF below, after
  <1>7. after = Append(below, n)
    <2>1. Append(below, n) \in Seq(DOMAIN Names) /\ Len(Append(below, n)) = Len(path) - L + 1
          /\ (\A i \in 1 .. Len(path) - L : Append(below, n)[i] = below[i]) /\ Append(below, n)[Len(path) - L + 1] = n
      BY <1>1, <1>3, AppendProperties DEF Paths
    <2>2. \A i \in 1 .. Len(path) - L + 1 : after[i] = Append(below, n)[i]
      <3> TAKE i \in 1 .. Len(path) - L + 1
      <3>1. CASE i <= Len(path) - L
        <4>1. after[i] = longer[L + i] /\ L + i \in 1 .. Len(path) /\ i \in 1 .. Len(path) - L
          BY <1>1, <1>5, <3>1
        <4> QED  BY <1>2, <1>3, <2>1, <4>1
      <3>2. CASE i = Len(path) - L + 1
        <4>1. after[i] = longer[L + i] /\ L + i = Len(path) + 1
          BY <1>1, <1>5, <3>2
        <4>2. after[i] = n
          BY <1>2, <4>1
        <4>3. Append(below, n)[i] = n
          BY <2>1, <3>2
        <4> QED  BY <4>2, <4>3
      <3>3. i <= Len(path) - L \/ i = Len(path) - L + 1
        BY <1>1
      <3> QED  BY <3>1, <3>2, <3>3
    <2> QED  BY <1>5, <2>1, <2>2, SeqEqual DEF Paths
  <1> QED  BY <1>2, <1>3, <1>6, <1>7 DEF longer, below, after

SpokenAs(n) == IF IsQualifier(n) THEN Names[n].without ELSE n

\* The name of a path goes on with what its last part adds to it.
LEMMA NameGrows ==
  ASSUME NEW name \in Seq(Words), NEW below \in Paths, NEW n \in DOMAIN Names, NameOf(name, below)
  PROVE  NameOf(IF Kept(n) THEN Append(name, SpokenAs(n)) ELSE name, Append(below, n))
  <1> DEFINE longer == Append(below, n)
             last == Len(below) + 1
             new == Append(name, SpokenAs(n))
  <1>1. PICK place \in [DOMAIN name -> DOMAIN below] :
          /\ \A j, k \in DOMAIN name : j < k => place[j] < place[k]
          /\ {place[k] : k \in DOMAIN name} = {k \in DOMAIN below : Kept(below[k])}
          /\ \A k \in DOMAIN name : name[k] = SpokenAs(below[place[k]])
    BY DEF NameOf, SpokenAs
  <1>2. Len(below) \in Nat /\ DOMAIN below = 1 .. Len(below) /\ Len(name) \in Nat /\ DOMAIN name = 1 .. Len(name)
    BY LenProperties DEF Paths
  <1>3. DOMAIN longer = 1 .. last /\ (\A k \in 1 .. Len(below) : longer[k] = below[k]) /\ longer[last] = n
    BY <1>2, AppendProperties, LenProperties DEF Paths
  <1>4. SpokenAs(n) \in Words
    BY DEF SpokenAs, Words
  <1>5. DOMAIN new = 1 .. Len(name) + 1 /\ (\A k \in 1 .. Len(name) : new[k] = name[k]) /\ new[Len(name) + 1] = SpokenAs(n)
    BY <1>2, <1>4, AppendProperties, LenProperties
  <1>6. {k \in DOMAIN longer : Kept(longer[k])} = {k \in DOMAIN below : Kept(below[k])} \cup (IF Kept(n) THEN {last} ELSE {})
    BY <1>2, <1>3
  <1> HIDE DEF longer, new
  <1>7. CASE Kept(n)
    <2> DEFINE places == [k \in 1 .. Len(name) + 1 |-> IF k = Len(name) + 1 THEN last ELSE place[k]]
    <2>1. \A k \in 1 .. Len(name) : place[k] \in 1 .. Len(below) /\ places[k] = place[k]
      <3>1. \A k \in 1 .. Len(name) : place[k] \in 1 .. Len(below)
        BY <1>1, <1>2
      <3>2. \A k \in 1 .. Len(name) : k \in 1 .. Len(name) + 1 /\ k # Len(name) + 1
        BY <1>2
      <3> QED  BY <3>1, <3>2
    <2>2. places[Len(name) + 1] = last /\ places \in [DOMAIN new -> DOMAIN longer]
      BY <1>2, <1>3, <1>5, <2>1
    <2>3. \A j, k \in DOMAIN new : j < k => places[j] < places[k]
      BY <1>1, <1>2, <1>5, <2>1, <2>2
    <2>4. {places[k] : k \in DOMAIN new} = {place[k] : k \in DOMAIN name} \cup {last}
      BY <1>2, <1>5, <2>1, <2>2
    <2>5. {places[k] : k \in DOMAIN new} = {k \in DOMAIN longer : Kept(longer[k])}
      BY <1>1, <1>6, <1>7, <2>4
    <2>6. \A k \in DOMAIN new : new[k] = SpokenAs(longer[places[k]])
      <3> TAKE k \in DOMAIN new
      <3>1. CASE k = Len(name) + 1
        BY <1>3, <1>5, <2>2, <3>1
      <3>2. CASE k \in 1 .. Len(name)
        BY <1>1, <1>2, <1>3, <1>5, <2>1, <3>2
      <3> QED  BY <1>2, <1>5, <3>1, <3>2
    <2> HIDE DEF places
    <2>7. NameOf(new, longer)
      BY <2>2, <2>3, <2>5, <2>6 DEF NameOf, SpokenAs
    <2> QED  BY <1>7, <2>7 DEF new, longer
  <1>8. CASE ~Kept(n)
    <2>1. place \in [DOMAIN name -> DOMAIN longer] /\ \A k \in DOMAIN name : longer[place[k]] = below[place[k]]
      BY <1>1, <1>2, <1>3
    <2>2. {place[k] : k \in DOMAIN name} = {k \in DOMAIN longer : Kept(longer[k])}
      BY <1>1, <1>6, <1>8
    <2>3. NameOf(name, longer)
      BY <1>1, <2>1, <2>2 DEF NameOf, SpokenAs
    <2> QED  BY <1>8, <2>3 DEF longer
  <1> QED  BY <1>7, <1>8

\* What is said of a name depends on what the steps of a walk leave alone.
LEMMA SameTelling ==
  ASSUME UNCHANGED <<config, allowed, builder>>, NEW e, NEW old, NEW new, new[e.set] = old[e.set], Tells(e, old)
  PROVE  Tells(e, new)'
  <1>1. \A pair, type : Refusal(pair, type)' = Refusal(pair, type)
    BY DEF Refusal, Forbidden
  <1>2. \A n : IsQualifier(n)' = IsQualifier(n)
    BY <1>1 DEF IsQualifier
  <1>3. \A n : Kept(n)' = Kept(n)
    BY <1>2 DEF Kept
  <1>4. \A name, below : NameOf(name, below)' = NameOf(name, below)
    BY <1>2, <1>3 DEF NameOf
  <1>5. Below(e)' = Below(e)
    BY DEF Below, RootLen
  <1> QED  BY <1>2, <1>4, <1>5 DEF Tells

\* The qualifiers a name gives are those it says.
LEMMA QualifierSays ==
  ASSUME NEW n
  PROVE  Qualifies(QualifiersOf(Names[n].parts, TypeOf(n))) = Said(n)
  <1> DEFINE pairs == ToSet(ParseToken(Names[n].parts, TypeOf(n)))
  <1>1. QualifiersOf(Names[n].parts, TypeOf(n)) = {Qualifier(p) : p \in pairs}
    BY DEF QualifiersOf
  <1>2. Said(n) = {<<Attribute(p), p.value>> : p \in pairs}
    BY DEF Said, TypeOf
  <1> HIDE DEF pairs
  <1>3. \A p : Qualifier(p).attribute = Attribute(p) /\ Qualifier(p).value = p.value
    BY DEF Qualifier
  <1> QED  BY <1>1, <1>2, <1>3 DEF Qualifies

\* The entry that a visit makes stands and tells as an entry should.
LEMMA NewEntry ==
  ASSUME IInv, EntriesInv, VisitFolder \/ VisitFile, MakesEntry
  PROVE  LET e == EntryOf(Next_, ResultOf(Next_))
         IN  /\ e.flags = FlagsOf(e.path) /\ Len(e.path) >= RootLen
             /\ Entered(e) /\ Tells(e, sets')
  <1> DEFINE n == Next_
             r == ResultOf(n)
             e == EntryOf(n, r)
             p == Parent
             below == SubSeq(p.path, RootLen + 1, Len(p.path))
  <1>1. /\ n \in DOMAIN Names /\ p \in Entries /\ p.set \in DOMAIN sets /\ "traverse" \in p.flags
        /\ pending[1].parent \in DOMAIN entries
    BY VisitIs, NextIs DEF IInv
  <1>2. /\ Interned(r.sets, Sound) /\ Keeps(r.sets, sets) /\ r.set \in DOMAIN r.sets
        /\ (r.applied <=> IsQualifier(n))
        /\ r.sets[r.set] = sets[p.set] \cup (IF r.applied THEN QualifiersOf(Names[n].parts, TypeOf(n)) ELSE {})
    BY <1>1, ResultDoes DEF IInv, SetsInv, MakesEntry
  <1>3. sets' = r.sets
    BY VisitIs
  <1>4. r.set \in Nat
    BY <1>2, LenProperties DEF Interned
  <1>5. /\ e.path = Append(p.path, n) /\ e.flags = FlagsOf(e.path) /\ e.set = r.set
        /\ e.name = IF n \in DOMAIN Tree /\ r.applied THEN p.name
                    ELSE Append(p.name, IF n \notin DOMAIN Tree /\ r.applied THEN Names[n].without ELSE n)
    BY <1>1, <1>4, EntryType
  <1>6. /\ IF pending[1].parent = 1 THEN p.path = config.root ELSE p.flags = FlagsOf(p.path)
        /\ Len(p.path) >= RootLen /\ Entered(p) /\ Tells(p, sets)
    BY <1>1 DEF EntriesInv, Stands, Parent
  <1>7. p.path \in Paths /\ p.name \in Seq(Words) /\ Len(p.path) \in Nat
    BY <1>1, LenProperties DEF Entries, Paths
  <1>8. RootLen \in Nat
    BY ConfigurationsAssumption, LenProperties DEF IInv, ConfigInv, RootLen
  <1>9. /\ Len(e.path) = Len(p.path) + 1
        /\ \A k \in 0 .. Len(p.path) : SubSeq(e.path, 1, k) = SubSeq(p.path, 1, k)
        /\ below \in Paths /\ Below(e) = Append(below, n)
    <2> HIDE DEF n, e, p
    <2>1. Len(e.path) = Len(p.path) + 1
      BY <1>1, <1>5, <1>6, <1>7, <1>8, BelowGrows
    <2>2. \A k \in 0 .. Len(p.path) : SubSeq(e.path, 1, k) = SubSeq(p.path, 1, k)
      BY <1>1, <1>5, <1>6, <1>7, <1>8, BelowGrows
    <2>3. below \in Paths /\ SubSeq(Append(p.path, n), RootLen + 1, Len(p.path) + 1) = Append(below, n)
      BY <1>1, <1>6, <1>7, <1>8, BelowGrows
    <2>4. Below(e) = SubSeq(Append(p.path, n), RootLen + 1, Len(p.path) + 1)
      BY <1>5, <2>1 DEF Below
    <2> QED  BY <2>1, <2>2, <2>3, <2>4
  <1>10. below = Below(p)
    BY DEF Below
  <1> HIDE DEF n, r, e, p, below
  <1>11. Entered(e)
    <2> SUFFICES ASSUME NEW k \in RootLen + 1 .. Len(e.path) - 1 PROVE "traverse" \in FlagsOf(SubSeq(e.path, 1, k))
      BY DEF Entered
    <2>1. k \in 0 .. Len(p.path) /\ SubSeq(e.path, 1, k) = SubSeq(p.path, 1, k)
      BY <1>7, <1>8, <1>9
    <2>2. CASE k <= Len(p.path) - 1
      <3>1. k \in RootLen + 1 .. Len(p.path) - 1
        BY <1>7, <1>8, <1>9, <2>2
      <3> QED  BY <1>6, <2>1, <3>1 DEF Entered
    <2>3. CASE k = Len(p.path)
      <3>1. SubSeq(p.path, 1, k) = p.path
        BY <1>7, <2>3, SubSeqFull DEF Paths
      <3>2. pending[1].parent # 1
        BY <1>6, <1>7, <1>8, <2>3 DEF RootLen
      <3> QED  BY <1>1, <1>6, <2>1, <3>1, <3>2
    <2> QED  BY <1>7, <1>8, <1>9, <2>2, <2>3
  <1>12. Qualifies(sets'[e.set]) = Qualifies(builder) \cup UNION {Said(m) : m \in {l \in ToSet(Below(e)) : IsQualifier(l)}}
    <2>1. ToSet(Below(e)) = ToSet(below) \cup {n}
      <3>1. Len(below) \in Nat /\ DOMAIN below = 1 .. Len(below)
        BY <1>9, LenProperties DEF Paths
      <3>2. DOMAIN Append(below, n) = 1 .. Len(below) + 1 /\ Append(below, n)[Len(below) + 1] = n
            /\ \A k \in 1 .. Len(below) : Append(below, n)[k] = below[k]
        BY <1>1, <1>9, <3>1, AppendProperties, LenProperties DEF Paths
      <3> QED  BY <1>9, <3>1, <3>2 DEF ToSet
    <2>2. Qualifies(sets[p.set]) = Qualifies(builder) \cup UNION {Said(m) : m \in {l \in ToSet(below) : IsQualifier(l)}}
      BY <1>6, <1>10 DEF Tells
    <2>3. CASE IsQualifier(n)
      <3>1. sets'[e.set] = sets[p.set] \cup QualifiersOf(Names[n].parts, TypeOf(n))
        BY <1>2, <1>3, <1>5, <2>3
      <3>2. Qualifies(sets'[e.set]) = Qualifies(sets[p.set]) \cup Said(n)
        BY <3>1, QualifierSays DEF Qualifies
      <3>3. {l \in ToSet(Below(e)) : IsQualifier(l)} = {l \in ToSet(below) : IsQualifier(l)} \cup {n}
        BY <2>1, <2>3
      <3> QED  BY <2>2, <3>2, <3>3
    <2>4. CASE ~IsQualifier(n)
      <3>1. sets'[e.set] = sets[p.set]
        BY <1>2, <1>3, <1>5, <2>4
      <3>2. {l \in ToSet(Below(e)) : IsQualifier(l)} = {l \in ToSet(below) : IsQualifier(l)}
        BY <2>1, <2>4
      <3> QED  BY <2>2, <3>1, <3>2
    <2> QED  BY <2>3, <2>4
  <1>13. NameOf(e.name, Below(e))
    <2>1. e.name = IF Kept(n) THEN Append(p.name, SpokenAs(n)) ELSE p.name
      BY <1>2, <1>5 DEF Kept, SpokenAs
    <2>2. NameOf(p.name, below)
      BY <1>6, <1>10 DEF Tells
    <2>3. NameOf(IF Kept(n) THEN Append(p.name, SpokenAs(n)) ELSE p.name, Append(below, n))
      BY <1>1, <1>7, <1>9, <2>2, NameGrows
    <2> QED  BY <1>9, <2>1, <2>3
  <1>14. Len(e.path) >= RootLen
    BY <1>6, <1>7, <1>8, <1>9
  <1>15. Tells(e, sets')
    BY <1>12, <1>13 DEF Tells
  <1> QED  BY <1>5, <1>11, <1>14, <1>15 DEF e, r, n

\* The flags of a path depend on the configuration alone.
LEMMA SameFlags ==
  ASSUME UNCHANGED config
  PROVE  /\ Rules' = Rules /\ RootLen' = RootLen
         /\ \A path : FlagsOf(path)' = FlagsOf(path)
         /\ \A i, e : Stands(i, e)' = Stands(i, e)
  <1>1. Rules' = Rules /\ RootLen' = RootLen
    BY DEF Rules, RootLen
  <1>2. \A path : FlagsOf(path)' = FlagsOf(path)
    BY <1>1 DEF FlagsOf
  <1>3. \A e : Entered(e)' = Entered(e)
    BY <1>1, <1>2 DEF Entered
  <1> QED  BY <1>1, <1>2, <1>3 DEF Stands

\* An entry that was there stays as it was.
LEMMA OldEntries ==
  ASSUME EntriesInv, UNCHANGED <<config, allowed, builder>>,
         \A i \in DOMAIN entries : entries[i].set \in DOMAIN sets, Keeps(sets', sets)
  PROVE  \A i \in DOMAIN entries : \E e, table : e = entries[i] /\ table = sets' /\ Stands(i, e)' /\ Tells(e, table)'
  <1> TAKE i \in DOMAIN entries
  <1> SUFFICES ASSUME NEW e, NEW old, NEW table, e = entries[i], old = sets, table = sets'
               PROVE  Stands(i, e)' /\ Tells(e, table)'
    OBVIOUS
  <1>1. Stands(i, e) /\ Tells(e, old)
    BY DEF EntriesInv
  <1>2. table[e.set] = old[e.set]
    BY DEF Keeps
  <1> QED  BY <1>1, <1>2, SameTelling, SameFlags

\* How entries that stand and tell give the invariant after a step.
LEMMA EntriesPrimed ==
  ASSUME \A i \in DOMAIN entries' : \E e, table : e = entries'[i] /\ table = sets' /\ Stands(i, e)' /\ Tells(e, table)'
  PROVE  EntriesInv'
  BY DEF EntriesInv

\* Every entry, new or old, stands and tells as it should after a visit.
LEMMA VisitTells ==
  ASSUME IInv, EntriesInv, VisitFolder \/ VisitFile
  PROVE  EntriesInv'
  <1>1. /\ UNCHANGED <<config, allowed, fallbacks, builder, base>> /\ pending # <<>>
        /\ MakesEntry \/ (pc' = "failed" /\ status' # "OK" /\ UNCHANGED <<pending, entries>>)
    BY VisitIs
  <1>2. Keeps(sets', sets) /\ \A i \in DOMAIN entries : entries[i].set \in DOMAIN sets
    BY VisitKeepsTheTree DEF IInv, TreeInv
  <1>3. \A i \in DOMAIN entries : \E e, table : e = entries[i] /\ table = sets' /\ Stands(i, e)' /\ Tells(e, table)'
    BY <1>1, <1>2, OldEntries
  <1>4. CASE UNCHANGED entries
    BY <1>3, <1>4, EntriesPrimed
  <1>5. CASE MakesEntry
    <2> DEFINE n == Next_
               r == ResultOf(n)
               new == EntryOf(n, r)
               last == Len(entries) + 1
    <2>1. entries' = Append(entries, new) /\ sets' = r.sets
      BY <1>5, VisitIs DEF MakesEntry
    <2>2. /\ new.flags = FlagsOf(new.path) /\ Len(new.path) >= RootLen /\ Entered(new) /\ Tells(new, sets')
      BY <1>5, NewEntry
    <2>3. entries \in Seq(Entries) /\ Len(entries) \in Nat /\ DOMAIN entries = 1 .. Len(entries) /\ Len(entries) >= 1
      <3>1. pending[1].parent \in DOMAIN entries
        BY <1>1, NextIs DEF IInv
      <3> QED  BY <3>1, LenProperties DEF IInv, TreeInv
    <2>4. new \in Entries
      <3>1. n \in DOMAIN Names /\ Parent \in Entries /\ Parent.set \in DOMAIN sets
        BY <1>1, NextIs DEF IInv
      <3>2. r.set \in Nat
        BY <3>1, ResultDoes, LenProperties DEF IInv, SetsInv, Interned
      <3> QED  BY <3>1, <3>2, EntryType
    <2> HIDE DEF n, r, new
    <2>5. DOMAIN entries' = 1 .. last /\ entries'[last] = new /\ \A i \in 1 .. Len(entries) : entries'[i] = entries[i]
      BY <2>1, <2>3, <2>4, AppendProperties, LenProperties
    <2>6. ASSUME NEW i, i = last
          PROVE  \E e, table : e = entries'[i] /\ table = sets' /\ Stands(i, e)' /\ Tells(e, table)'
      <3> SUFFICES ASSUME NEW e, NEW old, NEW table, e = new, old = sets', table = sets'
                   PROVE  Stands(i, e)' /\ Tells(e, table)'
        BY <2>3, <2>5, <2>6
      <3>1. Stands(i, e) /\ Tells(e, old)
        BY <2>2, <2>3, <2>6 DEF Stands
      <3> QED  BY <1>1, <3>1, SameTelling, SameFlags
    <2>7. \A i \in DOMAIN entries' : i \in DOMAIN entries \/ i = last
      BY <2>3, <2>5
    <2>8. \A i \in DOMAIN entries' : \E e, table : e = entries'[i] /\ table = sets' /\ Stands(i, e)' /\ Tells(e, table)'
      BY <1>3, <2>3, <2>5, <2>6, <2>7
    <2> QED  BY <2>8, EntriesPrimed
  <1> QED  BY <1>1, <1>4, <1>5

\* The root says what the qualifiers of the pass say, and has no name.
LEMMA RootTells ==
  ASSUME IInv, ApplyQualifiers
  PROVE  EntriesInv'
  <1> DEFINE root == [path |-> config.root, name |-> <<>>, set |-> base', flags |-> {"traverse"}, node |-> "root"]
  <1>1. UNCHANGED <<config, allowed, builder>> /\ entries' = <<root>> /\ pc' = "exclusions"
    BY DEF ApplyQualifiers
  <1>2. sets'[base'] = builder
    BY <1>1, ApplyQualifiersInterns DEF IInv, SetsInv
  <1>3. config.root \in Paths /\ RootLen \in Nat
    BY ConfigurationsAssumption, LenProperties DEF IInv, ConfigInv, RootLen, Paths
  <1>4. root.path = config.root /\ root.name = <<>> /\ root.set = base'
    OBVIOUS
  <1> HIDE DEF root
  <1>5. Len(root.path) = RootLen /\ Below(root) = <<>>
    <2>1. Len(root.path) = RootLen
      BY <1>4 DEF RootLen
    <2>2. SubSeq(root.path, RootLen + 1, RootLen) = <<>>
      BY <1>3, SubSeqEmpty
    <2> QED  BY <2>1, <2>2 DEF Below
  <1>6. NameOf(<<>>, <<>>)
    <2> SUFFICES ASSUME NEW none, none = <<>> PROVE NameOf(none, none)
      OBVIOUS
    <2>1. DOMAIN none = {}
      OBVIOUS
    <2>2. [k \in {} |-> k] \in [DOMAIN none -> DOMAIN none]
      BY <2>1
    <2> QED  BY <2>1, <2>2 DEF NameOf
  <1>7. ToSet(<<>>) = {}
    BY DEF ToSet
  <1>8. ASSUME NEW e, NEW old, NEW table, e = root, old = sets', table = sets'
        PROVE  Stands(1, e)' /\ Tells(e, table)'
    <2>1. Stands(1, e)
      BY <1>3, <1>4, <1>5, <1>8 DEF Stands, Entered
    <2>2. Tells(e, old)
      BY <1>2, <1>4, <1>5, <1>6, <1>7, <1>8 DEF Tells
    <2> QED  BY <1>1, <1>8, <2>1, <2>2, SameTelling, SameFlags
  <1>9. DOMAIN entries' = {1} /\ entries'[1] = root
    BY <1>1
  <1> QED  BY <1>8, <1>9, EntriesPrimed

\* EntriesInv is inductive, given IInv.
LEMMA EntriesStep == IInv /\ EntriesInv /\ [Next]_vars => EntriesInv'
  <1> SUFFICES ASSUME IInv, EntriesInv, [Next]_vars PROVE EntriesInv'
    OBVIOUS
  <1>1. CASE Early \/ AddQualifier
    <2>1. entries' = <<>>
      BY <1>1, EarlyLeaves DEF IInv, TreeInv, AddQualifier
    <2> QED  BY <2>1 DEF EntriesInv
  <1>2. CASE ApplyQualifiers
    BY <1>2, RootTells
  <1>3. CASE ReadExclusions \/ UNCHANGED vars
    <2>1. UNCHANGED <<config, allowed, builder, sets, entries>>
      BY <1>3 DEF ReadExclusions, vars
    <2>2. Keeps(sets', sets) /\ \A i \in DOMAIN entries : entries[i].set \in DOMAIN sets
      BY <2>1, LenProperties DEF Keeps, IInv, TreeInv, SetsInv, Interned
    <2> QED  BY <2>1, <2>2, OldEntries, EntriesPrimed
  <1>4. CASE VisitFolder \/ VisitFile
    BY <1>4, VisitTells
  <1> QED  BY <1>1, <1>2, <1>3, <1>4 DEF Next, Early

\* So it always holds.
LEMMA EntriesInvariant == Spec => []EntriesInv
  <1>1. Init => EntriesInv
    BY DEF Init, EntriesInv
  <1>2. IInv /\ EntriesInv /\ [Next]_vars => EntriesInv'
    BY EntriesStep
  <1> QED  BY <1>1, <1>2, Invariant, PTL DEF Spec

\* Whatever the folders and files are called, CFolderIndexer puts every name of
\* a path either into the name of the resource, in order, or into its set.
THEOREM NothingOfThePathIsLost == Spec => []NothingIsLost
  <1>1. EntriesInv => NothingIsLost
    BY DEF EntriesInv, NothingIsLost, Tells, Below, RootLen
  <1> QED  BY <1>1, EntriesInvariant, PTL

\* _IsExcludedFolderOrFile keeps all of a tree that is not to be indexed out,
\* and CFolderIndexer finds nothing below a folder that is not to be entered.
THEOREM WhatIsExcludedStaysOut == Spec => []ExcludedStaysOut
  <1>1. EntriesInv => ExcludedStaysOut
    <2> SUFFICES ASSUME EntriesInv, NEW i \in DOMAIN entries
                 PROVE  LET e == entries[i]
                            above == {SubSeq(e.path, 1, k) : k \in RootLen + 1 .. Len(e.path) - 1}
                            has(type, flag) == {r \in Rules : r.type = type /\ flag \in r.flags}
                        IN  /\ \A r \in has("tree", "index") : IsPrefix(r.key, e.path) /\ ~TooLong(e.path) => "index" \notin e.flags \/ i = 1
                            /\ \A r \in has("name", "traverse") : \A p \in above : <<Last(p)>> # r.key
                            /\ \A r \in has("tree", "traverse") : \A p \in above : IsPrefix(r.key, p) => TooLong(p)
      BY DEF ExcludedStaysOut, RootLen
    <2> DEFINE e == entries[i]
    <2>1. Stands(i, e)
      BY DEF EntriesInv
    <2>2. \A path : \A r \in Rules : \A flag \in r.flags : Excludes(r, path) => flag \notin FlagsOf(path)
      BY DEF FlagsOf
    <2>3. \A path : \A r \in Rules :
            /\ r.type = "name" /\ r.key = <<Last(path)>> => Excludes(r, path)
            /\ r.type = "tree" /\ IsPrefix(r.key, path) /\ ~TooLong(path) => Excludes(r, path)
      BY DEF Excludes
    <2>4. i # 1 => e.flags = FlagsOf(e.path)
      BY <2>1 DEF Stands
    <2>5. \A k \in RootLen + 1 .. Len(e.path) - 1 : "traverse" \in FlagsOf(SubSeq(e.path, 1, k))
      BY <2>1 DEF Stands, Entered
    <2> HIDE DEF e
    <2> QED  BY <2>2, <2>3, <2>4, <2>5 DEF e
  <1> QED  BY <1>1, EntriesInvariant, PTL
=============================================================================
