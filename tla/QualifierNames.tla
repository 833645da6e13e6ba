---------------------------- MODULE QualifierNames ----------------------------
(***************************************************************************)
(* What CQualifierApplicator makes of a text that may name qualifiers: the  *)
(* name of a folder or of a file, or the defaults of a command line.  A text *)
(* is a sequence of parts, cut at the underscores; a part is cut at its     *)
(* first dash.  Names are compared without regard to case.                  *)
(***************************************************************************)
EXTENDS Naturals, FiniteSets, Sequences, SequencesExt

CONSTANTS
  KeyOrder,     \* the names of qualifiers, in any case, in the order of a std::map
  AttributeOf,  \* of each such name, the qualifier
  TokenOf,      \* the tokens of the profile, such as lang, and their qualifiers
  Values,       \* of each qualifier the values ValidateQualifierComparison accepts
  Environment   \* of each qualifier the default value of the profile, or Empty

Empty == ""
Language == "Language"
Attributes == DOMAIN Values

ASSUME NamesOfQualifiers ==
  /\ {TokenOf[t] : t \in DOMAIN TokenOf} \cup {AttributeOf[n] : n \in DOMAIN AttributeOf} = Attributes
  /\ Language \in Attributes
  /\ \A a \in Attributes : Environment[a] \in Values[a] \cup {Empty}
  /\ KeyOrder \in Seq(DOMAIN AttributeOf) /\ ToSet(KeyOrder) = DOMAIN AttributeOf /\ Attributes \subseteq DOMAIN AttributeOf
  /\ DOMAIN TokenOf \cap DOMAIN AttributeOf = {}
  /\ \A a \in Attributes : AttributeOf[a] = a

Recognised(name) == name \in DOMAIN AttributeOf \cup DOMAIN TokenOf

\* _GetAttrNameValueToAdd: what has no known name in front is a language, but
\* in the name of a file none that exists.
Pair(part, type) ==
  IF part.name \in DOMAIN AttributeOf THEN [key |-> part.name, value |-> part.value]
  ELSE IF part.name \in DOMAIN TokenOf THEN [key |-> TokenOf[part.name], value |-> part.value]
  ELSE [key |-> Language, value |-> IF type = "file" THEN "#" ELSE part.text]

Attribute(pair) == AttributeOf[pair.key]

\* A multimap keeps its pairs in the order of the keys, and those of one key in
\* the order they came: of each pair, how many there are up to it.
Place(key) == CHOOSE k \in DOMAIN KeyOrder : KeyOrder[k] = key

UpTo(pairs, i) ==
  {j \in DOMAIN pairs : \/ Place(pairs[j].key) < Place(pairs[i].key)
                        \/ Place(pairs[j].key) = Place(pairs[i].key) /\ j <= i}

InOrder(pairs) ==
  [k \in DOMAIN pairs |-> pairs[CHOOSE i \in DOMAIN pairs : Cardinality(UpTo(pairs, i)) = k]]

ParseToken(parts, type) == InOrder([i \in DOMAIN parts |-> Pair(parts[i], type)])

Valid(pair) == pair.value \in Values[Attribute(pair)]

\* The name of a qualifier in the configuration.
DeviceFamily(name) == IF name = "Platform" THEN "DeviceFamily" ELSE name
=============================================================================
