--------------------------- MODULE PriConfiguration ---------------------------
(***************************************************************************)
(* The defaults of a configuration: makepri createconfig writes them, from  *)
(* the text of /Default and from the profile, and CBootStrapIndexer reads   *)
(* them when the configuration is used.                                     *)
(***************************************************************************)
EXTENDS Naturals, QualifierNames

CONSTANTS
  Profile,  \* the qualifiers of the profile, in its order
  Lists     \* the qualifiers that accept a list of values, as the languages do

ASSUME ProfileAssumption == ToSet(Profile) = Attributes /\ Lists \subseteq Attributes

Alike(m, n) == AttributeOf[m] = AttributeOf[n]

Pairs == [key : DOMAIN AttributeOf, value : STRING]

(***************************************************************************)
(* The removal of what is said twice, at pair i of the multimap, where pair *)
(* j is looked at.  After a removal the search goes on with the pair after  *)
(* the next: of three alike, one stays twice, and when nothing follows pair *)
(* i any more the iterator is moved past the end, which has no definition.  *)
(***************************************************************************)
Undefined == <<>>

Unique[s \in Seq(Pairs), i \in Nat, j \in Nat] ==
  IF i >= Len(s) THEN s
  ELSE IF j > Len(s) THEN Unique[s, i + 1, i + 2]
  ELSE IF ~Alike(s[i].key, s[j].key) \/ s[i].value # s[j].value THEN Unique[s, i, j + 1]
  ELSE IF Len(s) = i + 1 THEN Undefined
  ELSE Unique[RemoveAt(s, j), i, i + 2]

ValuesOf(pairs, name) ==
  LET of == SelectSeq(pairs, LAMBDA p : p.key = name) IN [i \in DOMAIN of |-> of[i].value]

\* MrtMap::Insert does nothing if the map has the name, in any case.
Inserted(entries, name, values) ==
  IF \E i \in DOMAIN entries : Alike(entries[i].name, name) THEN entries
  ELSE Append(entries, [name |-> name, values |-> values])

\* GetQualifierMapFromToken: the values of a name that is spelled alike are
\* joined by semicolons, in the order of a map from names to values.
GetQualifierMapFromToken(pairs) ==
  FoldLeft(LAMBDA entries, name : IF ValuesOf(pairs, name) = <<>> THEN entries
                                  ELSE Inserted(entries, name, ValuesOf(pairs, name)),
           <<>>, KeyOrder)

\* MUTANT: the defaults of the profile come first.
GetDefaultQualifierMap_First(entries) ==
  FoldLeft(LAMBDA all, e : Inserted(all, e.name, e.values),
           [i \in DOMAIN Profile |-> [name |-> Profile[i], values |-> <<Environment[Profile[i]]>>]], entries)

GetDefaultQualifierMap(entries) ==
  FoldLeft(LAMBDA all, a : Inserted(all, a, <<Environment[a]>>), entries, Profile)

\* GeneratePriConfig: the entries of the default node that is written.
GeneratePriConfig(parts) ==
  LET pairs == ParseToken(parts, "default")
      unique == Unique[pairs, 1, 2]
  IN  IF pairs # <<>> /\ unique = Undefined THEN [status |-> "crashed", entries |-> <<>>]
      ELSE IF \E p \in ToSet(unique) : ~Valid(p) THEN [status |-> "refused", entries |-> <<>>]
      ELSE [status |-> "written", entries |-> GetDefaultQualifierMap(GetQualifierMapFromToken(unique))]

-----------------------------------------------------------------------------
(* CBootStrapIndexer::_ProcessUltimateFallbackNode *)

\* AddUltFallbackAttrValuePair takes an empty value for no default.
Acceptable(entry) ==
  LET a == AttributeOf[DeviceFamily(entry.name)]
  IN  \/ entry.values = <<Empty>>
      \/ ToSet(entry.values) \subseteq Values[a] /\ (Len(entry.values) > 1 => a \in Lists)

IsRead(entries) == \A e \in ToSet(entries) : Acceptable(e)

Fallbacks(entries, a) ==
  UNION {ToSet(e.values) \ {Empty} : e \in {f \in ToSet(entries) : AttributeOf[DeviceFamily(f.name)] = a}}

-----------------------------------------------------------------------------
Spoken(parts) == ToSet(ParseToken(parts, "default"))

(***************************************************************************)
(* A configuration that was made from a text is read, with the defaults the *)
(* text names and those of the profile for what it does not name.  That     *)
(* needs a text that spells each name in one way only, since of Scale and   *)
(* scale the second is lost, and that gives a qualifier which is no list    *)
(* one value: several are joined to one that the reader refuses, as are two *)
(* that remain of three.                                                    *)
(***************************************************************************)
ReadAsWritten(parts, entries) ==
  LET said(a) == {p \in Spoken(parts) : Attribute(p) = a}
      times(a) == Len(SelectSeq(ParseToken(parts, "default"), LAMBDA p : Attribute(p) = a))
  IN  (/\ \A p, q \in Spoken(parts) : Attribute(p) = Attribute(q) => p.key = q.key
       /\ \A a \in Attributes \ Lists : times(a) <= 1) =>
        /\ IsRead(entries)
        /\ \A a \in Attributes : Fallbacks(entries, a) =
             IF said(a) # {} THEN {p.value : p \in said(a)} ELSE {Environment[a]} \ {Empty}
=============================================================================
