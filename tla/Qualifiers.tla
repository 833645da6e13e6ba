----------------------------- MODULE Qualifiers -----------------------------
(***************************************************************************)
(* How a pass comes by the qualifiers of what it indexes.  CIndexPass reads *)
(* which values are allowed, CBootStrapIndexer which are the defaults and   *)
(* which every file of the pass has, CFIXmlConfig what is excluded, and     *)
(* CFolderIndexer then takes the names of folders and files apart: what     *)
(* CQualifierApplicator finds to be a qualifier goes into a qualifier set,  *)
(* and what is left over names the resource.                               *)
(*                                                                         *)
(* What is said of the names of qualifiers themselves is QualifierNames.   *)
(***************************************************************************)
EXTENDS Naturals, QualifierNames

CONSTANTS
  LanguageTags, \* the values CLanguage::IsValidTag accepts
  Evaluate,     \* of a qualifier: the score of a value against a default
  Tree,         \* of each folder, its children
  Names,        \* of each file or folder: its length, the parts that may be
                \* qualifiers, and for a file what stands around them
  Unspeakable,  \* the names that no file can have
  DotEnded,     \* the names that end with a dot
  MaximumPath,  \* MAX_PATH
  Configurations

ASSUME EnvironmentAssumption == "#" \notin Values[Language]

ASSUME TreeAssumption ==
  /\ "root" \in DOMAIN Tree
  /\ \A n \in DOMAIN Tree : Tree[n] \in Seq(DOMAIN Names)
  /\ \A n \in DOMAIN Names : Names[n].parts \in Seq([name : STRING, value : STRING, text : STRING])

ASSUME ConfigurationsAssumption == \A c \in Configurations :
  /\ c.defaults \in Seq([name : STRING, value : STRING, allowed : Seq(SUBSET STRING)])
  /\ c.qualifiers \in Seq([name : STRING, value : STRING])
  /\ c.root \in Seq(DOMAIN Names)

VARIABLES
  config,    \* the configuration of the pass
  pc,        \* what is read next
  at,        \* how much of it has been read
  status,    \* what the status object holds
  allowed,   \* _allowedQualifierValues
  fallbacks, \* _UltFallbackAttrValueMap: of each qualifier its defaults in the order
             \* of the map, which is that of their addresses
  named,     \* _UltFallbackAttrNameList
  sets,      \* the qualifier sets of the decision info builder, the neutral one first
  builder,   \* the qualifiers of the pass that have been read
  base,      \* _baseQualifierSetIndex
  pending,   \* what has been found in the folders and not yet been looked at
  entries    \* the entries made, the root first

vars == <<config, pc, at, status, allowed, fallbacks, named, sets, builder, base, pending, entries>>

Neutral == 1
Flags == {"index", "traverse"}

-----------------------------------------------------------------------------
(* CQualifierApplicator *)

Forbidden(pair) ==
  Attribute(pair) \in DOMAIN allowed /\ pair.value \notin allowed[Attribute(pair)]

\* What is wrong with a pair; only the very name Language is a language here.
Refusal(pair, type) ==
  IF ~Valid(pair) \/ (pair.key = Language /\ type = "folder" /\ pair.value \notin LanguageTags) THEN "INVALID"
  ELSE IF Forbidden(pair) THEN "NOT_ALLOWED"
  ELSE "OK"

\* Fault: only the last pair is looked at.
ValidateAttributeValueMap_Last(pairs, type) ==
  CASE Refusal(Last(pairs), type) = "OK" -> [valid |-> TRUE, status |-> "OK"]
    [] Refusal(Last(pairs), type) = "INVALID" -> [valid |-> FALSE, status |-> "OK"]
    [] OTHER -> [valid |-> FALSE, status |-> "NOT_ALLOWED"]

\* The first refusal decides: an invalid value, of whichever of the pairs, makes
\* the whole no qualifier, and a value that is not allowed is an error.
ValidateAttributeValueMap(pairs, type) ==
  LET refused == {i \in DOMAIN pairs : Refusal(pairs[i], type) # "OK"}
      first == CHOOSE i \in refused : \A j \in refused : i <= j
  IN  IF refused = {} THEN [valid |-> TRUE, status |-> "OK"]
      ELSE IF Refusal(pairs[first], type) = "INVALID" THEN [valid |-> FALSE, status |-> "OK"]
      ELSE [valid |-> first > 1, status |-> "NOT_ALLOWED"]

\* _IsUltFallbackQualifier: the score against the first default of the qualifier.
FallbackScore(pair) ==
  LET a == Attribute(pair)
  IN  IF fallbacks[a] = <<>> THEN 0 ELSE Evaluate[a][<<pair.value, Head(fallbacks[a])>>]

Qualifier(pair) == [attribute |-> Attribute(pair), value |-> pair.value, score |-> FallbackScore(pair)]

AddQualifierToQSB(pairs) == {Qualifier(pairs[i]) : i \in DOMAIN pairs}

\* The decision info builder has every set of qualifiers once.
GetOrAdd(quals) ==
  IF \E i \in DOMAIN sets : sets[i] = quals
    THEN [sets |-> sets, index |-> CHOOSE i \in DOMAIN sets : sets[i] = quals]
    ELSE [sets |-> Append(sets, quals), index |-> Len(sets) + 1]

\* Fault: the qualifiers of the parent are left out.
GetOrAddQualifierSet_Alone(quals, parent) == GetOrAdd(quals)

GetOrAddQualifierSet(quals, parent) ==
  GetOrAdd(quals \cup (IF parent = Neutral THEN {} ELSE sets[parent]))

\* Fault: what is not applied leaves the index as it was, zero.
ApplyQualifier_Unset(parts, parent, type) ==
  LET pairs == ParseToken(parts, type)
      checked == ValidateAttributeValueMap(pairs, type)
  IN  IF pairs # <<>> /\ (checked.valid \/ checked.status # "OK")
        THEN LET new == GetOrAddQualifierSet(AddQualifierToQSB(pairs), parent)
             IN  [applied |-> checked.status = "OK", set |-> new.index, sets |-> new.sets, status |-> checked.status]
        ELSE [applied |-> FALSE, set |-> 0, sets |-> sets, status |-> "OK"]

ApplyQualifier(parts, parent, type) ==
  LET pairs == ParseToken(parts, type)
      checked == ValidateAttributeValueMap(pairs, type)
      new == GetOrAddQualifierSet(AddQualifierToQSB(pairs), parent)
      without == [applied |-> FALSE, set |-> parent, sets |-> sets, status |-> "OK"]
  IN  IF pairs = <<>> THEN without
      ELSE IF checked.status # "OK" THEN [without EXCEPT !.applied = checked.valid, !.status = checked.status]
      ELSE IF ~checked.valid THEN without
      ELSE [applied |-> TRUE, set |-> new.index, sets |-> new.sets, status |-> "OK"]

-----------------------------------------------------------------------------
(* The configuration *)

Fail(error) == pc' = "failed" /\ status' = error

\* ParseAllowedNodes and ValidateAllowedQualiferMapSet.  Of two lists for a
\* qualifier the first counts.  A token is not taken for a name: the lookup
\* by name that comes first has left its error in the status.
Listed == {i \in DOMAIN config.defaults : config.defaults[i].allowed # <<>>}

ListedName(i) == DeviceFamily(config.defaults[i].name)

AllowedLists ==
  [a \in {AttributeOf[ListedName(i)] : i \in Listed} |->
     LET of == {i \in Listed : AttributeOf[ListedName(i)] = a}
         first == CHOOSE i \in of : \A j \in of : i <= j
     IN  config.defaults[first].allowed[1]]

ReadAllowed ==
  /\ pc = "allowed"
  /\ IF (\A i \in Listed : ListedName(i) \in DOMAIN AttributeOf) /\ \A a \in DOMAIN AllowedLists : AllowedLists[a] \subseteq Values[a]
       THEN pc' = "defaults" /\ allowed' = AllowedLists /\ UNCHANGED status
       ELSE Fail("INVALID_ALLOWED") /\ UNCHANGED allowed
  /\ UNCHANGED <<config, at, fallbacks, named, sets, builder, base, pending, entries>>

\* Where among the defaults of the same qualifier a new one comes depends on
\* its address.
Inserted(seq, value) == {InsertAt(seq, i, value) : i \in 1 .. Len(seq) + 1}

\* AddUltFallbackAttrValuePair for the next qualifier of the default node.
AddDefault ==
  LET d == config.defaults[at + 1]
      a == LET name == DeviceFamily(d.name) IN IF name \in DOMAIN TokenOf THEN TokenOf[name] ELSE AttributeOf[name]
  IN  /\ pc = "defaults" /\ at < Len(config.defaults)
      /\ IF ~Recognised(DeviceFamily(d.name))
           THEN Fail("INVALIDARG") /\ UNCHANGED <<at, fallbacks, named>>
           ELSE /\ named' = named \cup {a}
                /\ IF d.value = Empty THEN UNCHANGED <<pc, status, fallbacks>> /\ at' = at + 1
                   ELSE IF d.value \in Values[a]
                     THEN /\ \E new \in Inserted(fallbacks[a], d.value) : fallbacks' = [fallbacks EXCEPT ![a] = new]
                          /\ at' = at + 1 /\ UNCHANGED <<pc, status>>
                     ELSE Fail("INVALID_VALUE") /\ UNCHANGED <<at, fallbacks>>
      /\ UNCHANGED <<config, allowed, sets, builder, base, pending, entries>>

\* Fault: the default of the profile is added to that of the configuration.
Completed_Always(a) ==
  IF a = Language \/ Environment[a] = Empty THEN fallbacks[a] ELSE <<Environment[a]>> \o fallbacks[a]

\* What the configuration does not name has the default of the profile.
Completed(a) ==
  IF a = Language \/ a \in named \/ Environment[a] = Empty THEN fallbacks[a] ELSE <<Environment[a]>>

\* ValidateUltFallbackQualifiers; without a default node there are no defaults.
CompleteDefaults ==
  /\ pc = "defaults" /\ at = Len(config.defaults)
  /\ IF config.defaults = <<>> THEN UNCHANGED <<status, fallbacks, named>> /\ pc' = "base"
     ELSE /\ fallbacks' = [a \in Attributes |-> Completed(a)]
          /\ named' = named \cup (Attributes \ {Language})
          /\ IF Language \in named THEN pc' = "base" /\ UNCHANGED status ELSE Fail("MISSING_DEFAULT_LANGUAGE")
  /\ at' = 0
  /\ UNCHANGED <<config, allowed, sets, builder, base, pending, entries>>

\* CQualifierSetBuilder::_AddQualifier: here a token is no name.
AddQualifier ==
  LET q == config.qualifiers[at + 1]
      pair == [key |-> q.name, value |-> q.value]
  IN  /\ pc = "base" /\ at < Len(config.qualifiers)
      /\ IF q.name \in DOMAIN AttributeOf /\ Refusal(pair, "default") = "OK"
           THEN builder' = builder \cup AddQualifierToQSB(<<pair>>) /\ at' = at + 1 /\ UNCHANGED <<pc, status>>
           ELSE Fail("INVALID_QUALIFIER") /\ UNCHANGED <<at, builder>>
      /\ UNCHANGED <<config, allowed, fallbacks, named, sets, base, pending, entries>>

\* ApplyQualifierSetFromBuilder, and CreateStringEntry for the root.
ApplyQualifiers ==
  LET new == GetOrAddQualifierSet(builder, Neutral)
  IN  /\ pc = "base" /\ at = Len(config.qualifiers)
      /\ IF builder = {} THEN UNCHANGED <<sets, base>> ELSE sets' = new.sets /\ base' = new.index
      /\ entries' = <<[path |-> config.root, name |-> <<>>, set |-> base', flags |-> {"traverse"}, node |-> "root"]>>
      /\ pc' = "exclusions"
      /\ UNCHANGED <<config, at, status, allowed, fallbacks, named, builder, pending>>

\* _ProcessExcludeNode: one backslash at either end says nothing; with nothing
\* else the value is the root.  _IsValidValue: what no file can be called is an
\* error, and so is an empty name between two backslashes.  Two backslashes
\* alone leave an empty tree, which is none of the project's.
Normalised(value) ==
  LET end == IF Len(value) > 1 /\ Last(value) = Empty THEN Front(value) ELSE value
  IN  IF end # <<>> /\ Head(end) = Empty THEN Tail(end) ELSE end

IsValidValue(type, key) ==
  \/ type = "tree" /\ key = <<Empty>>
  \/ /\ ToSet(key) \cap ({Empty} \cup Unspeakable \cup DotEnded) = {}
     /\ type \in {"name", "extension"} => Len(key) = 1

Rules == {[type |-> x.type, key |-> Normalised(x.value), flags |-> x.flags] : x \in ToSet(config.exclusions)}

ReadExclusions ==
  /\ pc = "exclusions"
  /\ IF config.delimiter \in {"-", "_"} THEN Fail("INVALID_DELIMITER") /\ UNCHANGED pending
     ELSE IF \E r \in Rules : ~IsValidValue(r.type, r.key)
       THEN Fail("INVALID_ATTRIB_VALUE") /\ UNCHANGED pending
       ELSE /\ pc' = "walk" /\ UNCHANGED status
            /\ pending' = [i \in DOMAIN Tree["root"] |-> [parent |-> 1, node |-> Tree["root"][i]]]
  /\ UNCHANGED <<config, at, allowed, fallbacks, named, sets, builder, base, entries>>

-----------------------------------------------------------------------------
(* CFolderIndexer *)

LengthOf(path) == FoldLeft(LAMBDA n, s : n + Names[s].length + 1, 0, path) - 1
TooLong(path) == LengthOf(path) >= MaximumPath

\* Fault: a tree is only the folder itself.
Excludes_NotBelow(rule, path) ==
  CASE rule.type \in {"path", "tree"} -> rule.key = path
    [] rule.type = "name" -> rule.key = <<Last(path)>>
    [] rule.type = "extension" -> rule.key = <<Names[Last(path)].extension>>

\* _IsExcludedFolderOrFile: a path that is too long is in no path or tree but
\* the root.  The rule for a path that is the root says nothing.
Excludes(rule, path) ==
  CASE rule.type = "path" -> rule.key = path /\ ~TooLong(path)
    [] rule.type = "tree" -> rule.key = <<>> \/ (IsPrefix(rule.key, path) /\ ~TooLong(path))
    [] rule.type = "name" -> rule.key = <<Last(path)>>
    [] rule.type = "extension" -> rule.key = <<Names[Last(path)].extension>>

\* IsExcludedFolder and IsExcludedFile: the flags that all the rules leave.
FlagsOf(path) ==
  LET rules == {r \in Rules : Excludes(r, path)}
  IN  Flags \ UNION {r.flags : r \in rules}

\* _CreateFolderEntry: a folder whose name is a qualifier has no name.
FolderEntry(parent, n, result) ==
  LET path == Append(parent.path, n)
  IN  [path |-> path, name |-> IF result.applied THEN parent.name ELSE Append(parent.name, n),
       set |-> result.set, flags |-> FlagsOf(path), node |-> n]

\* _CreateFileEntry: the qualifiers are taken out of the name.
FileEntry(parent, n, result) ==
  LET path == Append(parent.path, n)
  IN  [path |-> path, name |-> Append(parent.name, IF result.applied THEN Names[n].without ELSE n),
       set |-> result.set, flags |-> FlagsOf(path), node |-> n]

\* The next of what the folders contain.
Next_ == pending[1].node
Parent == entries[pending[1].parent]
NotApplied == [applied |-> FALSE, set |-> Parent.set, sets |-> sets, status |-> "OK"]

Children(n, entry) ==
  IF "traverse" \in entry.flags THEN [i \in DOMAIN Tree[n] |-> [parent |-> Len(entries) + 1, node |-> Tree[n][i]]] ELSE <<>>

VisitFolder ==
  LET result == IF config.folderNames THEN ApplyQualifier(Names[Next_].parts, Parent.set, "folder") ELSE NotApplied
      entry == FolderEntry(Parent, Next_, result)
  IN  /\ pc = "walk" /\ pending # <<>> /\ Next_ \in DOMAIN Tree
      /\ sets' = result.sets
      /\ IF result.status # "OK" THEN Fail(result.status) /\ UNCHANGED <<pending, entries>>
         ELSE /\ entries' = Append(entries, entry)
              /\ pending' = Tail(pending) \o Children(Next_, entry)
              /\ UNCHANGED <<pc, status>>
      /\ UNCHANGED <<config, at, allowed, fallbacks, named, builder, base>>

\* A file that would be left without a name is an error, once its qualifier
\* set has been added.
VisitFile ==
  LET result == IF config.fileNames THEN ApplyQualifier(Names[Next_].parts, Parent.set, "file") ELSE NotApplied
  IN  /\ pc = "walk" /\ pending # <<>> /\ Next_ \notin DOMAIN Tree
      /\ sets' = result.sets
      /\ IF result.status # "OK" THEN Fail(result.status) /\ UNCHANGED <<pending, entries>>
         ELSE IF result.applied /\ Names[Next_].without = Empty
           THEN Fail("INVALID_QUAL_FILENAME") /\ UNCHANGED <<pending, entries>>
           ELSE /\ entries' = Append(entries, FileEntry(Parent, Next_, result))
                /\ pending' = Tail(pending)
                /\ UNCHANGED <<pc, status>>
      /\ UNCHANGED <<config, at, allowed, fallbacks, named, builder, base>>

-----------------------------------------------------------------------------
Init ==
  /\ config \in Configurations
  /\ pc = "allowed" /\ at = 0 /\ status = "OK"
  /\ allowed = [a \in {} |-> {}]
  /\ fallbacks = [a \in Attributes |-> <<>>]
  /\ named = {} /\ sets = <<{}>> /\ builder = {} /\ base = Neutral
  /\ pending = <<>> /\ entries = <<>>

Next ==
  \/ ReadAllowed \/ AddDefault \/ CompleteDefaults \/ AddQualifier \/ ApplyQualifiers
  \/ ReadExclusions \/ VisitFolder \/ VisitFile

Spec == Init /\ [][Next]_vars

-----------------------------------------------------------------------------
(* Properties *)

\* Every entry refers to a qualifier set there is, and no set is there twice.
TypeOK ==
  /\ pc \in {"allowed", "defaults", "base", "exclusions", "walk", "failed"}
  /\ (pc = "failed") = (status # "OK")
  /\ \A i \in DOMAIN entries : entries[i].set \in DOMAIN sets /\ entries[i].flags \subseteq Flags
  /\ \A i \in DOMAIN pending : pending[i].parent \in DOMAIN entries
  /\ \A i, j \in DOMAIN sets : sets[i] = sets[j] => i = j
  /\ base \in DOMAIN sets

\* Which names are qualifiers, said of the name alone: every part has a known
\* name and a valid value, or is a language.
IsQualifier(n) ==
  LET type == IF n \in DOMAIN Tree THEN "folder" ELSE "file"
      pairs == {Pair(Names[n].parts[i], type) : i \in DOMAIN Names[n].parts}
  IN  /\ IF type = "folder" THEN config.folderNames ELSE config.fileNames
      /\ pairs # {} /\ \A p \in pairs : Refusal(p, type) = "OK"

Said(n) == {<<Attribute(p), p.value>> : p \in ToSet(ParseToken(Names[n].parts, IF n \in DOMAIN Tree THEN "folder" ELSE "file"))}

Qualifies(set) == {<<q.attribute, q.value>> : q \in set}

\* A folder whose name is a qualifier gives no part to the name of a resource.
Kept(n) == n \in DOMAIN Tree => ~IsQualifier(n)

\* The parts of the name are those of the path that are kept, in their order.
NameOf(name, below) ==
  \E place \in [DOMAIN name -> DOMAIN below] :
    /\ \A j, k \in DOMAIN name : j < k => place[j] < place[k]
    /\ {place[k] : k \in DOMAIN name} = {k \in DOMAIN below : Kept(below[k])}
    /\ \A k \in DOMAIN name :
         name[k] = IF IsQualifier(below[place[k]]) THEN Names[below[place[k]]].without ELSE below[place[k]]

\* Nothing of a path is lost and nothing is said twice: each of its names, down
\* from the root, either is a part of the name of the resource or stands in its
\* qualifier set, next to the qualifiers of the pass and nothing else.
NothingIsLost ==
  \A i \in DOMAIN entries :
    LET e == entries[i]
        below == SubSeq(e.path, Len(config.root) + 1, Len(e.path))
    IN  /\ Qualifies(sets[e.set]) = Qualifies(builder) \cup UNION {Said(n) : n \in {m \in ToSet(below) : IsQualifier(m)}}
        /\ NameOf(e.name, below)

\* A qualifier has the score its value gets against the default of the
\* configuration, or that of the profile where the configuration has none, in
\* whichever set it stands and from whichever folder it was inherited.
ScoredByTheDefault ==
  \A s \in ToSet(sets) : \A q \in s :
    LET given == {d \in ToSet(config.defaults) : Recognised(DeviceFamily(d.name))
                    /\ Attribute(Pair([name |-> DeviceFamily(d.name), value |-> d.value, text |-> Empty], "default")) = q.attribute}
        values == {d.value : d \in given} \ {Empty}
        defaults == IF config.defaults = <<>> THEN {}
                    ELSE IF given # {} THEN values
                    ELSE IF q.attribute = Language THEN {} ELSE {Environment[q.attribute]} \ {Empty}
    IN  IF defaults = {} THEN q.score = 0 ELSE \E d \in defaults : q.score = Evaluate[q.attribute][<<q.value, d>>]

\* No candidate has a qualifier whose value the configuration does not allow,
\* be it one of several in a name, or one of the pass.
AllowedOnly ==
  \A s \in ToSet(sets) : \A q \in s :
    \A d \in ToSet(config.defaults) :
      d.allowed # <<>> /\ AttributeOf[DeviceFamily(d.name)] = q.attribute
        /\ (\A e \in ToSet(config.defaults) : e.allowed # <<>> /\ e # d => AttributeOf[DeviceFamily(e.name)] # q.attribute)
      => q.value \in d.allowed[1]

\* What lies in a tree that is not to be indexed is not indexed, however deep
\* it lies, up to the length of a path; and nothing is found below a folder
\* that is not to be entered.
ExcludedStaysOut ==
  \A i \in DOMAIN entries :
    LET e == entries[i]
        above == {SubSeq(e.path, 1, k) : k \in Len(config.root) + 1 .. Len(e.path) - 1}
        has(type, flag) == {r \in Rules : r.type = type /\ flag \in r.flags}
    IN  /\ \A r \in has("tree", "index") : IsPrefix(r.key, e.path) /\ ~TooLong(e.path) => "index" \notin e.flags \/ i = 1
        /\ \A r \in has("name", "traverse") : \A p \in above : <<Last(p)>> # r.key
        /\ \A r \in has("tree", "traverse") : \A p \in above : IsPrefix(r.key, p) => TooLong(p)
=============================================================================
