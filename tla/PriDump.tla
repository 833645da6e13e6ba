------------------------------ MODULE PriDump ------------------------------
(***************************************************************************)
(* A dump, and the way back.  StandalonePriFileXml writes a PRI file down   *)
(* as XML, in one of four kinds and with many options; CPriInfoIndexer      *)
(* takes every file called *.pri.xml that lies in a project for such a      *)
(* dump and indexes what it contains.                                      *)
(*                                                                         *)
(* An element is a tag, the attributes somebody reads, and elements or a    *)
(* text, which is a sequence of characters.                                *)
(***************************************************************************)
EXTENDS Integers, Sequences, SequencesExt

CONSTANTS
  Pris,       \* PRI files: the resource maps, which of them is the primary one
              \* (or none), the contents, the qualifier sets, the decisions
  Children,   \* of each subtree, its children: subtrees and items
  NameOf,     \* their names
  Items,      \* of each item its link, a sequence of at most one, and its candidates
  Within,     \* the pairs of qualifiers of which the second, written as name-value,
              \* is a part of the first
  OptionSets, \* the options to try
  Platforms,  \* a subset of {"windows", "portable"}
  Invalid,    \* the qualifiers that are none where the dump is read
  NotAllowed, \* those that the configuration there does not allow
  Emissions   \* the attributes of the indexer in the configuration there

Kinds == {"Basic", "Detailed", "Schema", "Summary"}
Types == {"String", "Path", "EmbeddedData"}

VARIABLES
  pri, kind, options, platform, emission,
  pc,       \* the next step
  document, \* the document that is being built, or nothing
  file,     \* what the output file holds
  reported, \* what the dump has reported
  read      \* what the indexer has made of the file

vars == <<pri, kind, options, platform, emission, pc, document, file, reported, read>>

Nothing == <<>>

-----------------------------------------------------------------------------
(* Elements *)

AddElement(tag, attributes, body) == [tag |-> tag, at |-> attributes, body |-> body, text |-> <<>>]

Ampersand == 38

\* put_text: away from Windows the text is read as XML, and one with an
\* ampersand that begins no reference is lost.
PutText(text) == IF platform = "portable" /\ Ampersand \in ToSet(text) THEN <<>> ELSE text

Control(c) == c < 32 /\ c \notin {9, 10, 13}
Unprintable(c) == Control(c) \/ c >= 65534

SanitizeData(text) == [i \in DOMAIN text |-> IF Unprintable(text[i]) THEN 32 ELSE text[i]]

SetElementValue(tag, attributes, text) ==
  [tag |-> tag, at |-> attributes, body |-> <<>>,
   text |-> PutText(IF "sanitizexml" \in options THEN SanitizeData(text) ELSE text)]

Empty(tags) == [i \in DOMAIN tags |-> AddElement(tags[i], <<>>, <<>>)]
Named(tag, name, body) == AddElement(tag, [name |-> name], body)

Elements(body, tag) == SelectSeq(body, LAMBDA e : e.tag = tag)

Omitted(option) == option \in options

-----------------------------------------------------------------------------
(* Base64: a digit is written as a letter from 64 on *)

Padding == 61

Digits(b1, b2, b3) == <<b1 \div 4, 16 * (b1 % 4) + (b2 \div 16), 4 * (b2 % 16) + (b3 \div 64), b3 % 64>>

base64encodeU(bytes) ==
  LET n == Len(bytes)
      byte(i) == IF i <= n THEN bytes[i] ELSE 0
      digits == FlattenSeq([k \in 1 .. (n + 2) \div 3 |-> Digits(byte(3 * k - 2), byte(3 * k - 1), byte(3 * k))])
      padded == (3 - (n % 3)) % 3
  IN  [i \in DOMAIN digits |-> IF i > Len(digits) - padded THEN Padding ELSE 64 + digits[i]]

\* Fault: a text with one padding has the length of one with two.
base64decodeU_Padded(text) ==
  LET value(i) == IF text[i] = Padding THEN 0 ELSE text[i] - 64
      bytes(k) == <<4 * value(k - 3) + (value(k - 2) \div 16), ((16 * value(k - 2)) % 256) + (value(k - 1) \div 4),
                    ((64 * value(k - 1)) % 256) + value(k)>>
      size == 3 * (Len(text) \div 4) - (IF Last(text) = Padding THEN 2 ELSE 0)
  IN  [ok |-> TRUE, bytes |-> SubSeq(FlattenSeq([k \in 1 .. Len(text) \div 4 |-> bytes(4 * k)]), 1, size)]

base64decodeU(text) ==
  LET value(i) == IF text[i] = Padding THEN 0 ELSE text[i] - 64
      bytes(k) == <<4 * value(k - 3) + (value(k - 2) \div 16), ((16 * value(k - 2)) % 256) + (value(k - 1) \div 4),
                    ((64 * value(k - 1)) % 256) + value(k)>>
      size == 3 * (Len(text) \div 4) - (IF Last(text) # Padding THEN 0 ELSE IF text[Len(text) - 1] = Padding THEN 2 ELSE 1)
  IN  IF Len(text) = 0 \/ Len(text) % 4 # 0 THEN [ok |-> FALSE, bytes |-> <<>>]
      ELSE [ok |-> TRUE, bytes |-> SubSeq(FlattenSeq([k \in 1 .. Len(text) \div 4 |-> bytes(4 * k)]), 1, size)]

-----------------------------------------------------------------------------
(* What a dump has in common *)

\* The primary resource map comes first.
ResourceMaps == <<pri.primary>> \o SelectSeq([m \in DOMAIN pri.maps |-> m], LAMBDA m : m # pri.primary)

\* All versions of a map but the current one.
PriorVersions(m) == IF Omitted("versioninfo") THEN <<>> ELSE Empty([v \in 1 .. pri.maps[m].versions - 1 |-> "PriorVersion"])
VersionInfo(m) == AddElement("VersionInfo", <<>>, PriorVersions(m))

IsScope(child) == child \in DOMAIN Children
Scopes(s) == SelectSeq(Children[s], IsScope)
ItemsOf(s) == SelectSeq(Children[s], LAMBDA c : ~IsScope(c))

HasLink(i) == Items[i].link # <<>>

\* A percentage in four characters: three digits, rounded to two, of which the
\* last is cut off below a tenth.
ScoreText(score) ==
  IF score \in {0, 1000} THEN score
  ELSE IF score >= 100 THEN 10 * ((score + 5) \div 10) ELSE 10 * (score \div 10)

DumpDetailedQualifier(q) == AddElement("Qualifier", [q EXCEPT !.score = ScoreText(@)], <<>>)
QualifierSet(quals) == AddElement("QualifierSet", <<>>, [i \in DOMAIN quals |-> DumpDetailedQualifier(quals[i])])
Decision(setsOf) == AddElement("Decision", <<>>, [i \in DOMAIN setsOf |-> QualifierSet(setsOf[i])])

-----------------------------------------------------------------------------
(* The detailed dump *)

\* Which candidates are shown.
Shown(i) == IF HasLink(i) THEN "linkedcandidates" \in options ELSE ~Omitted("candidates")

\* Fault: candidates of a linked item are taken for those of any other.
GetNamedResourceIsEmpty_Linked(i) ==
  /\ HasLink(i) => Omitted("links")
  /\ Items[i].candidates = <<>> \/ Omitted("candidates")

GetNamedResourceIsEmpty(i) ==
  /\ HasLink(i) => Omitted("links")
  /\ Items[i].candidates = <<>> \/ ~Shown(i)

RECURSIVE GetSubtreeIsEmpty(_)
GetSubtreeIsEmpty(s) ==
  \A k \in DOMAIN Children[s] :
    LET child == Children[s][k]
    IN  IF IsScope(child) THEN GetSubtreeIsEmpty(child) ELSE GetNamedResourceIsEmpty(child)

\* The value of a candidate; a blob of no bytes cannot be shown.
Value(c) ==
  IF c.type = "EmbeddedData" THEN SetElementValue("Base64Value", <<>>, base64encodeU(c.value))
  ELSE SetElementValue("Value", <<>>, c.value)

DetailedCandidate(c) == AddElement("Candidate", [type |-> c.type], <<QualifierSet(c.qualifiers), Value(c)>>)

\* The decision of an item: the qualifier sets of its candidates.
ItemDecision(i) == Decision([k \in DOMAIN Items[i].candidates |-> Items[i].candidates[k].qualifiers])

DumpDetailedItem(i) ==
  LET link == IF Omitted("links") THEN <<>> ELSE [k \in DOMAIN Items[i].link |-> SetElementValue("Link", <<>>, Items[i].link[k])]
      decision == IF Omitted("namedresourcedecision") THEN <<>> ELSE <<ItemDecision(i)>>
      candidates == IF Shown(i) THEN [k \in DOMAIN Items[i].candidates |-> DetailedCandidate(Items[i].candidates[k])] ELSE <<>>
  IN  IF Omitted("emptynamedresources") /\ GetNamedResourceIsEmpty(i) THEN <<>>
      ELSE <<Named("NamedResource", NameOf[i], link \o decision \o candidates)>>

\* Fault: the order of the basic dump, items before subtrees.
RECURSIVE DumpDetailedRecursiveScopeTree_ItemsFirst(_)
DumpDetailedRecursiveScopeTree_ItemsFirst(s) ==
  LET leftOut(c) == Omitted("emptysubtrees") /\ GetSubtreeIsEmpty(c)
      scopes == SelectSeq(Scopes(s), LAMBDA c : ~leftOut(c))
      items == ItemsOf(s)
  IN  IF leftOut(s) THEN <<>>
      ELSE FlattenSeq([k \in DOMAIN items |-> DumpDetailedItem(items[k])])
           \o [k \in DOMAIN scopes |-> Named("ResourceMapSubtree", NameOf[scopes[k]], DumpDetailedRecursiveScopeTree_ItemsFirst(scopes[k]))]

\* A subtree that is left out if nothing of it would be seen; subtrees come
\* before items.
RECURSIVE DumpDetailedRecursiveScopeTree(_)
DumpDetailedRecursiveScopeTree(s) ==
  LET leftOut(c) == Omitted("emptysubtrees") /\ GetSubtreeIsEmpty(c)
      scopes == SelectSeq(Scopes(s), LAMBDA c : ~leftOut(c))
      items == ItemsOf(s)
  IN  IF leftOut(s) THEN <<>>
      ELSE [k \in DOMAIN scopes |-> Named("ResourceMapSubtree", NameOf[scopes[k]], DumpDetailedRecursiveScopeTree(scopes[k]))]
           \o FlattenSeq([k \in DOMAIN items |-> DumpDetailedItem(items[k])])

DumpDetailedResourceMap(m) ==
  Named("ResourceMap", pri.maps[m].name,
        (IF Omitted("versioninfo") THEN <<>> ELSE <<VersionInfo(m)>>) \o DumpDetailedRecursiveScopeTree(pri.maps[m].root))

AllQualifiers == SetToSeq(UNION {ToSet(quals) : quals \in ToSet(pri.sets)})

DumpDetailedQualifierInfo ==
  <<AddElement("Qualifiers", <<>>, [k \in DOMAIN AllQualifiers |-> DumpDetailedQualifier(AllQualifiers[k])]),
    AddElement("QualifierSets", <<>>, [k \in DOMAIN pri.sets |-> QualifierSet(pri.sets[k])]),
    AddElement("Decisions", <<>>, [d \in DOMAIN pri.decisions |-> Decision([k \in DOMAIN pri.decisions[d] |-> pri.sets[pri.decisions[d][k]]])])>>

PriHeader ==
  AddElement("PriHeader", <<>>, Empty(<<"WindowsEnvironment", "AutoMerge", "IsDeploymentMergeable", "TargetOS", "ReverseMap">>))

DumpDetailedXMLPriFile ==
  AddElement("PriInfo", <<>>,
    (IF Omitted("priheader") THEN <<>> ELSE <<PriHeader>>)
    \o (IF Omitted("qualifierinfo") THEN <<>> ELSE <<AddElement("QualifierInfo", <<>>, DumpDetailedQualifierInfo)>>)
    \o (IF Omitted("resourcemaps") THEN <<>> ELSE [k \in DOMAIN ResourceMaps |-> DumpDetailedResourceMap(ResourceMaps[k])]))

RECURSIVE ItemsBelow(_)
ItemsBelow(s) == ToSet(ItemsOf(s)) \cup UNION {ItemsBelow(c) : c \in ToSet(Scopes(s))}

\* An empty blob ends the dump.
DetailedFails ==
  /\ ~Omitted("resourcemaps")
  /\ \E m \in DOMAIN pri.maps : \E i \in ItemsBelow(pri.maps[m].root) :
       Shown(i) /\ \E c \in ToSet(Items[i].candidates) : c.type = "EmbeddedData" /\ c.value = <<>>

-----------------------------------------------------------------------------
(* The basic dump, the schema and the summary *)

\* A qualifier that is a part of one already listed is not listed.
QualifierList(quals) ==
  FoldLeft(LAMBDA list, q : IF \E p \in ToSet(list) : p = q \/ <<p, q>> \in Within THEN list ELSE Append(list, q),
           <<>>, [k \in DOMAIN quals |-> <<quals[k].name, quals[k].value>>])

IsDefault(quals) == quals # <<>> /\ \A k \in DOMAIN quals : quals[k].score > 0

BasicValue(c) ==
  IF c.type = "EmbeddedData" THEN SetElementValue("Base64Value", <<>>, <<91, 93>>) ELSE SetElementValue("Value", <<>>, c.value)

BasicCandidate(c) ==
  LET listed == IF c.qualifiers = <<>> THEN {} ELSE {"qualifiers"}
      default == IF IsDefault(c.qualifiers) THEN {"isDefault"} ELSE {}
  IN  AddElement("Candidate",
        [a \in {"type"} \cup listed \cup default |->
           CASE a = "type" -> c.type [] a = "qualifiers" -> QualifierList(c.qualifiers) [] a = "isDefault" -> "true"],
        <<BasicValue(c)>>)

DumpBasicNamedResource(i) ==
  Named("NamedResource", NameOf[i],
        [k \in DOMAIN Items[i].link |-> SetElementValue("Link", <<>>, Items[i].link[k])]
        \o [k \in DOMAIN Items[i].candidates |-> BasicCandidate(Items[i].candidates[k])])

\* Items come before subtrees.
RECURSIVE DumpBasicRecursiveResourceMapSubTree(_)
DumpBasicRecursiveResourceMapSubTree(s) ==
  [k \in DOMAIN ItemsOf(s) |-> DumpBasicNamedResource(ItemsOf(s)[k])]
  \o [k \in DOMAIN Scopes(s) |->
       Named("ResourceMapSubtree", NameOf[Scopes(s)[k]], DumpBasicRecursiveResourceMapSubTree(Scopes(s)[k]))]

\* Of each qualifier that is used, its values.
DumpBasicQualifierSummary ==
  IF Omitted("qualifierinfo") THEN <<>> ELSE Empty(SetToSeq({q.name : q \in ToSet(AllQualifiers)}))

DumpBasicResourceMap(m) ==
  Named("ResourceMap", pri.maps[m].name,
        <<AddElement("Qualifiers", <<>>, DumpBasicQualifierSummary)>> \o DumpBasicRecursiveResourceMapSubTree(pri.maps[m].root))

DumpBasicXMLPriFile == AddElement("PriInfo", <<>>, [k \in DOMAIN ResourceMaps |-> DumpBasicResourceMap(ResourceMaps[k])])

RECURSIVE DumpRecursiveSchemaSubTree(_)
DumpRecursiveSchemaSubTree(s) ==
  [k \in DOMAIN ItemsOf(s) |-> Named("NamedResource", NameOf[ItemsOf(s)[k]], <<>>)]
  \o [k \in DOMAIN Scopes(s) |-> Named("ResourceMapSubtree", NameOf[Scopes(s)[k]], DumpRecursiveSchemaSubTree(Scopes(s)[k]))]

DumpResourceSchemaToXml ==
  LET m == pri.primary
  IN  AddElement("PriInfo", <<>>,
        <<Named("ResourceMap", pri.maps[m].name, <<VersionInfo(m)>> \o DumpRecursiveSchemaSubTree(pri.maps[m].root))>>)

SummaryHeader == Empty(<<"Header">>) \o <<AddElement("Toc", <<>>, Empty([k \in 1 .. pri.sections |-> "TocEntry"]))>>

SummarySchema(m) ==
  AddElement("Schema", <<>>, IF Omitted("versioninfo") THEN <<>> ELSE Empty(<<"Version">>) \o PriorVersions(m))

DumpSummaryXMLPriFile ==
  AddElement("PriRaw", <<>>,
    SummaryHeader \o [m \in DOMAIN pri.maps |-> SummarySchema(m)]
    \o (IF Omitted("resourcemaps") THEN <<>> ELSE Empty([m \in DOMAIN pri.maps |-> "ResourceMap"])))

-----------------------------------------------------------------------------
(* Dumping *)

HasPrimary == pri.primary \in DOMAIN pri.maps

DumpPriFile ==
  CASE kind = "Detailed" -> IF HasPrimary /\ ~DetailedFails THEN <<DumpDetailedXMLPriFile>> ELSE Nothing
    [] kind = "Schema" -> IF HasPrimary THEN <<DumpResourceSchemaToXml>> ELSE Nothing
    [] kind = "Summary" -> <<DumpSummaryXMLPriFile>>
    [] kind = "Basic" -> IF HasPrimary THEN <<DumpBasicXMLPriFile>> ELSE Nothing

\* DumpPriFileToXmlFile: a file is opened when the whole document is there.
Dump ==
  /\ pc = "dump"
  /\ document' = DumpPriFile
  /\ IF DumpPriFile = Nothing THEN pc' = "end" /\ reported' = "FAIL" ELSE pc' = "write" /\ UNCHANGED reported
  /\ UNCHANGED <<pri, kind, options, platform, emission, file, read>>

\* WriteXmlToFile: what was in the file is lost when it is opened.
Write ==
  /\ pc = "write"
  /\ \/ file' = document /\ reported' = "OK" /\ pc' = "read"
     \/ UNCHANGED file /\ reported' = "ACCESS_DENIED" /\ pc' = "end"
     \/ file' = Nothing /\ reported' = "FAIL" /\ pc' = "end"
  /\ UNCHANGED <<pri, kind, options, platform, emission, document, read>>

-----------------------------------------------------------------------------
(* What the indexer takes for a dump: the schema, which only Windows checks *)

\* The elements are of these tags, in this order.
InOrder(body, order) ==
  LET place(k) == SelectInSeq(order, LAMBDA tag : tag = body[k].tag)
  IN  \A k \in DOMAIN body : place(k) > 0 /\ (k > 1 => place(k - 1) <= place(k))

AtMostOnce(body, tags) == \A tag \in tags : Len(Elements(body, tag)) <= 1

ValidCandidate(c) ==
  /\ DOMAIN c.at = {"type"} /\ c.at.type \in Types
  /\ InOrder(c.body, <<"QualifierSet", "Value">>) \/ InOrder(c.body, <<"QualifierSet", "Base64Value">>)

ValidItem(e) ==
  /\ InOrder(e.body, <<"Decision", "Link", "Candidate">>) /\ AtMostOnce(e.body, {"Link"})
  /\ \A c \in ToSet(Elements(e.body, "Candidate")) : ValidCandidate(c)

RECURSIVE ValidScope(_)
ValidScope(e) ==
  /\ InOrder(e.body, <<"ResourceMapSubtree", "NamedResource">>)
  /\ \A k \in DOMAIN e.body : IF e.body[k].tag = "NamedResource" THEN ValidItem(e.body[k]) ELSE ValidScope(e.body[k])

ValidDump(root) ==
  /\ InOrder(root.body, <<"PriHeader", "QualifierInfo", "ResourceMap">>)
  /\ AtMostOnce(root.body, {"PriHeader", "QualifierInfo", "ResourceMap"})
  /\ Elements(root.body, "ResourceMap") # <<>>
  /\ LET map == Last(root.body)
     IN  /\ InOrder(map.body, <<"VersionInfo", "ResourceMapSubtree">>) /\ AtMostOnce(map.body, {"VersionInfo"})
         /\ \A v \in ToSet(Elements(map.body, "VersionInfo")) : v.body = <<>>
         /\ \A k \in DOMAIN map.body : map.body[k].tag = "ResourceMapSubtree" => ValidScope(map.body[k])

\* XML has no control characters.
RECURSIVE WellFormed(_)
WellFormed(e) == (\A c \in ToSet(e.text) : ~Unprintable(c)) /\ \A k \in DOMAIN e.body : WellFormed(e.body[k])

-----------------------------------------------------------------------------
(* Reading: a reader returns whether it succeeded, what the status object    *)
(* holds and the entries it made.  A status that has failed stays so.        *)

Result(ok, status, made) == [ok |-> ok, status |-> status, made |-> made]
Begin == Result(TRUE, "OK", {})

\* One after the other: the last one decides whether they succeeded.
Then(first, second) ==
  Result(second.ok, IF first.status = "OK" THEN second.status ELSE first.status, first.made \cup second.made)

\* Going on, whatever has happened, and only as long as nothing has.
Each(Reader(_), seq) == FoldLeft(LAMBDA done, x : Then(done, Reader(x)), Begin, seq)
UntilOneFails(Reader(_), seq) == FoldLeft(LAMBDA done, x : IF done.ok THEN Then(done, Reader(x)) ELSE done, Begin, seq)

\* ParseIndexConfigNode: what the configuration does not say is emitted.
Emits(type) == type \in DOMAIN emission => emission[type]

\* A qualifier that is none is an error nobody records.
ParseQualifierNode(e) ==
  LET q == <<e.at.name, e.at.value>>
  IN  IF q \in Invalid THEN Result(FALSE, "OK", {})
      ELSE IF q \in NotAllowed THEN Result(FALSE, "NOT_ALLOWED", {})
      ELSE Begin

ParseQualifierSetNode(e) == UntilOneFails(ParseQualifierNode, Elements(e.body, "Qualifier"))

Entry(collection, name, type, value, quals) ==
  [collection |-> collection, name |-> name, type |-> type, value |-> value, qualifiers |-> quals]

\* The value of a candidate, if it has one and it can be decoded.
CandidateEntry(collection, name, c, quals) ==
  LET value == Elements(c.body, IF c.at.type = "EmbeddedData" THEN "Base64Value" ELSE "Value")
      bytes == base64decodeU(Head(value).text)
  IN  IF value = <<>> THEN Begin
      ELSE IF c.at.type # "EmbeddedData" THEN Result(TRUE, "OK", {Entry(collection, name, c.at.type, Head(value).text, quals)})
      ELSE IF bytes.ok THEN Result(TRUE, "OK", {Entry(collection, name, c.at.type, bytes.bytes, quals)})
      ELSE Result(FALSE, "OK", {})

\* The first qualifier set counts; none is the neutral one.
ParseCandidateNode(collection, name, c) ==
  LET quals == SubSeq(Elements(c.body, "QualifierSet"), 1, IF Elements(c.body, "QualifierSet") = <<>> THEN 0 ELSE 1)
      parsed == Each(ParseQualifierSetNode, quals)
  IN  IF ~Emits(c.at.type) THEN Result(FALSE, "BAD_INSTANCE_TYPE", {})
      ELSE IF ~parsed.ok THEN parsed
      ELSE CandidateEntry(collection, name, c, UNION {{q.at : q \in ToSet(set.body)} : set \in ToSet(quals)})

ParseLinkNode(collection, name, e) == Result(TRUE, "OK", {Entry(collection, name, "Link", e.text, {})})

ParseItemNode(collection, scope, e) ==
  LET name == Append(scope, e.at.name)
      candidate(c) == ParseCandidateNode(collection, name, c)
      link(l) == ParseLinkNode(collection, name, l)
      candidates == Each(candidate, Elements(e.body, "Candidate"))
      links == Elements(e.body, "Link")
  IN  IF links = <<>> THEN candidates ELSE Then(candidates, link(Head(links)))

\* The first name of a path is that of the collection.
RECURSIVE ParseScopeNode(_, _, _)
ParseScopeNode(collection, path, e) ==
  LET top == collection = ""
      collection2 == IF top THEN e.at.name ELSE collection
      path2 == IF top THEN <<>> ELSE Append(path, e.at.name)
      scope(s) == ParseScopeNode(collection2, path2, s)
      item(i) == ParseItemNode(collection2, path2, i)
      below == Each(scope, Elements(e.body, "ResourceMapSubtree"))
  IN  IF ~below.ok THEN below ELSE Then(below, UntilOneFails(item, Elements(e.body, "NamedResource")))

ParseResourceMapNode(map) ==
  LET scope(s) == ParseScopeNode("", <<>>, s) IN Each(scope, Elements(map.body, "ResourceMapSubtree"))

ParsePriInfo(root) ==
  IF ~WellFormed(root) \/ root.tag # "PriInfo" THEN Result(FALSE, "BAD_XML", {})
  ELSE IF platform = "windows" /\ ~ValidDump(root) THEN Result(FALSE, "INVALID_XML", {})
  ELSE UntilOneFails(ParseResourceMapNode, Elements(root.body, "ResourceMap"))

\* Process: what the status object holds makes a failure of a success.
Read ==
  /\ pc = "read"
  /\ LET result == ParsePriInfo(Head(file))
     IN  read' = <<[result EXCEPT !.ok = result.ok /\ result.status = "OK"]>>
  /\ pc' = "end"
  /\ UNCHANGED <<pri, kind, options, platform, emission, document, file, reported>>

-----------------------------------------------------------------------------
Init ==
  /\ pri \in Pris /\ kind \in Kinds /\ options \in OptionSets
  /\ platform \in Platforms /\ emission \in Emissions
  /\ pc = "dump"
  /\ document = Nothing /\ file = Nothing /\ reported = "" /\ read = <<>>

Next == Dump \/ Write \/ Read

Spec == Init /\ [][Next]_vars

-----------------------------------------------------------------------------
(* Properties *)

RECURSIVE Paths(_)
Paths(s) ==
  {[path |-> <<NameOf[i]>>, item |-> i] : i \in ToSet(ItemsOf(s))}
  \cup UNION {{[p EXCEPT !.path = <<NameOf[c]>> \o @] : p \in Paths(c)} : c \in ToSet(Scopes(s))}

Contents == IF Omitted("resourcemaps") THEN {} ELSE UNION {Paths(pri.maps[m].root) : m \in DOMAIN pri.maps}

Clean(text) == IF "sanitizexml" \in options THEN SanitizeData(text) ELSE text
Written(c) == IF c.type = "EmbeddedData" THEN c.value ELSE Clean(c.value)

\* What a place of the PRI file is to have in a dump with these options.
ToShow(i) ==
  (IF Omitted("links") THEN {} ELSE {Entry("", <<>>, "Link", Clean(l), {}) : l \in ToSet(Items[i].link)})
  \cup (IF Shown(i) THEN {Entry("", <<>>, c.type, Written(c), ToSet(c.qualifiers)) : c \in ToSet(Items[i].candidates)} ELSE {})

\* The texts of the file are such as the platform can write down.
Holds(text) == platform = "windows" \/ Ampersand \notin ToSet(text)
TextsHold == \A p \in Contents : \A e \in ToShow(p.item) : e.type = "EmbeddedData" \/ Holds(e.value)

NoneInvalid == \A p \in Contents : \A e \in ToShow(p.item) : \A q \in e.qualifiers : <<q.name, q.value>> \notin Invalid

Unscored(e) == [e EXCEPT !.qualifiers = {[q EXCEPT !.score = 0] : q \in @}]

\* A project that takes in a detailed dump has every link and every candidate
\* the dump was to show, under its own name, with its own bytes and for the same
\* qualifiers, of which the scores are within a hundredth of what they were;
\* and it has nothing else.  Without an error, that is, and without
\* qualifiers that are none in the project.  What stands in no subtree is not
\* looked for.
ReadsBack ==
  kind = "Detailed" /\ read # <<>> /\ TextsHold /\ NoneInvalid =>
    LET r == Head(read)
        promised == UNION {{[e EXCEPT !.collection = Head(p.path), !.name = Tail(p.path)] : e \in ToShow(p.item)} :
                             p \in {q \in Contents : Len(q.path) > 1}}
    IN  r.ok =>
          /\ {Unscored(e) : e \in r.made} = {Unscored(e) : e \in promised}
          /\ \A e \in r.made : \E f \in promised :
               /\ Unscored(e) = Unscored(f)
               /\ \A q \in e.qualifiers : \E q2 \in f.qualifiers :
                    q.name = q2.name /\ q.value = q2.value /\ q.score - q2.score \in -9 .. 9

\* What an element of the document shows, and where.
RECURSIVE SeenIn(_, _)
SeenIn(e, path) ==
  CASE e.tag \in {"Link", "Candidate"} -> {<<path, IF e.tag = "Link" THEN e.tag ELSE e.at.type>>}
    [] e.tag \in {"ResourceMapSubtree", "NamedResource"} -> UNION {SeenIn(e.body[k], Append(path, e.at.name)) : k \in DOMAIN e.body}
    [] OTHER -> UNION {SeenIn(e.body[k], path) : k \in DOMAIN e.body}

RECURSIVE Found(_, _)
Found(e, tag) == ToSet(Elements(e.body, tag)) \cup UNION {Found(e.body[k], tag) : k \in DOMAIN e.body}

\* Leaving out what is empty leaves out nothing else, whichever of links,
\* candidates and candidates of linked resources are shown; and nothing that
\* is empty stays.
OmitsOnlyTheEmpty ==
  kind = "Detailed" /\ document # Nothing =>
    LET root == Head(document)
    IN  /\ SeenIn(root, <<>>) = UNION {{<<p.path, e.type>> : e \in ToShow(p.item)} : p \in Contents}
        /\ Omitted("emptysubtrees") => \A e \in Found(root, "ResourceMapSubtree") : SeenIn(e, <<>>) # {}
        /\ Omitted("emptynamedresources") => \A e \in Found(root, "NamedResource") : SeenIn(e, <<>>) # {}

\* Which dumps Windows accepts, said of the PRI file: those with one resource
\* map, of one version, with nothing at its top, in which no resource has both
\* a link and a decision, or in a schema no subtree both items and subtrees.
Acceptable ==
  LET m == pri.maps[pri.primary]
      clean == \A p \in Contents : \A e \in ToShow(p.item) : e.type = "EmbeddedData" \/ \A c \in ToSet(e.value) : ~Unprintable(c)
      plain == {i \in ToSet(ItemsOf(m.root)) : ~Omitted("emptynamedresources") \/ ToShow(i) # {}} = {}
      inTop == Omitted("emptysubtrees") /\ \A p \in Contents : ToShow(p.item) = {}
      linked == {p \in Contents : Items[p.item].link # <<>>}
  IN  /\ kind \in {"Detailed", "Schema"}
      /\ Omitted("versioninfo") \/ m.versions = 1
      /\ \/ /\ kind = "Detailed" /\ ~Omitted("resourcemaps") /\ Len(pri.maps) = 1 /\ clean
            /\ plain \/ inTop
            /\ Omitted("links") \/ Omitted("namedresourcedecision") \/ linked = {}
         \/ /\ kind = "Schema" /\ ItemsOf(m.root) = <<>>
            /\ \A s \in DOMAIN Children \ {m.root} :
                 (\E p \in Paths(m.root) : NameOf[s] \in ToSet(p.path)) => ItemsOf(s) = <<>> \/ Scopes(s) = <<>>

Accepted ==
  platform = "windows" /\ read # <<>> => (Head(read).status \notin {"BAD_XML", "INVALID_XML"} <=> Acceptable)
=============================================================================
