----------------------------- MODULE LanguageTag -----------------------------
(***************************************************************************)
(* The language tags of qualifiers: how CLanguage::ParseTag reads a tag one *)
(* subtag at a time, what ValidateTag makes of it, how FormatLanguageTag    *)
(* writes it back, and how FindClosestInList picks the language of a list   *)
(* that is closest to it.                                                  *)
(*                                                                         *)
(* A subtag is a name; Form says of which characters it is made and the     *)
(* tables say what it stands for.  An index into a table is the name of its *)
(* entry, and None is the index zero.  Tags are read without regard to case. *)
(***************************************************************************)
EXTENDS Integers, Sequences, SequencesExt, FiniteSetsExt

CONSTANTS
  Subtag,            \* the subtags of the instance
  Form,              \* of each: its length, the kinds of its characters, and
                     \* whether a digit or an x comes first
  MaximumTagLength,  \* in characters
  Table,             \* the tables of SubtagTables.cpp, see TableAssumption below
  Tags, Requests,    \* the tags that are read; those looked up in the Lists
  Lists

None == ""
Default == <<"default">>

\* A subtag is made of letters and digits; one of one character is either.
ASSUME FormAssumption ==
  /\ Form \in [Subtag -> [len : Nat, letters : BOOLEAN, digits : BOOLEAN, digitFirst : BOOLEAN, x : BOOLEAN]]
  /\ \A s \in Subtag :
       /\ Form[s].len > 0 => Form[s].letters \/ Form[s].digits
       /\ Form[s].len = 1 => ~(Form[s].letters /\ Form[s].digits)
       /\ (Form[s].digitFirst => Form[s].digits) /\ (Form[s].x => Form[s].letters)

\* A table that gives another name gives one that another table has; a
\* pseudo-locale begins with the code of a language; the rank of a name is its
\* index, which is zero only for what is not in the table.
ASSUME TableAssumption ==
  /\ None \notin Subtag
  /\ Table.languages \cup Table.scripts \cup Table.regions \cup DOMAIN Table.extlangs \subseteq Subtag
  /\ \A n \in DOMAIN Table.renamed : Table.renamed[n] \in Table.languages
  /\ \A n \in DOMAIN Table.regionRenamed : Table.regionRenamed[n] \in Table.regions
  /\ \A n \in DOMAIN Table.suppress : Table.suppress[n] \in Table.scripts
  /\ \A n \in DOMAIN Table.written : Table.written[n] \in Table.scripts
  /\ \A v \in DOMAIN Table.pseudo :
       /\ v # <<>> /\ Form[v[1]].len \in 2 .. 3 /\ ~Form[v[1]].digits
       /\ Table.pseudo[v] \in [lang : Table.languages, script : Table.scripts, region : Table.regions, variant : {None}]
  /\ Table.rank \in [Subtag \cup {None} -> Nat] /\ Table.rank[None] = 0
  /\ \A r \in Table.regions : Table.rank[r] > 0

ASSUME TagsAssumption ==
  /\ Tags \subseteq Seq(Subtag) /\ Requests \subseteq Tags
  /\ \A l \in Lists : l \in Seq(Seq(Subtag))
  /\ \A v \in DOMAIN Table.grandfathered : Table.grandfathered[v] \in Seq(Subtag)

VARIABLES
  tag, list,  \* the tag and the list of languages it is looked up in
  read,       \* whether the constructor of CLanguage has returned
  parser,     \* the ParserStateMachine
  language,   \* what the tag stands for, once it is read
  listed,     \* the languages of the list, which are constructed when needed
  search,     \* the locals of FindClosestInList
  affinity    \* the result of GetPackagingInfo

vars == <<tag, list, read, parser, language, listed, search, affinity>>

-----------------------------------------------------------------------------
(* ParseTag *)

\* The numbers of the fields, as in BCP47_SUBTAG_FLAGS.
Language == 0
Extlang  == 1
Script   == 2
Region   == 3
Variant  == 4
Extension  == 5
PrivateUse == 6
Fields == 0 .. 6

\* What to do with a subtag of 1 to 8 characters in each of the states 0 to 6.
StateTransitions ==
  [s \in 0 .. 6 |-> CASE s = 0 -> <<9, 1, 1, 4, 0, 0, 0, 0>>
                      [] s = 1 -> <<9, 6, 2, 4, 8, 8, 8, 8>>
                      [] s = 2 -> <<9, 6, 7, 4, 8, 8, 8, 8>>
                      [] s = 3 -> <<9, 6, 7, 5, 8, 8, 8, 8>>
                      [] s = 4 -> <<9, 12, 12, 5, 8, 8, 8, 8>>
                      [] s = 5 -> <<9, 10, 10, 10, 10, 10, 10, 10>>
                      [] s = 6 -> <<11, 11, 11, 11, 11, 11, 11, 11>>]

\* Where the i-th subtag of a tag would begin, and the length of the tag.
StartOf(t, i) ==
  LET at[j \in 1 .. i] == IF j = 1 THEN 0 ELSE at[j - 1] + Form[t[j - 1]].len + 1 IN at[i]

LengthOf(t) == StartOf(t, Len(t) + 1) - 1

\* The state machine before the first subtag: at is the number of characters
\* read, length[f] that of a field and start[f] where it begins.
Start(t) ==
  [state |-> 0, at |-> 0, valid |-> LengthOf(t) \in 2 .. MaximumTagLength, done |-> FALSE,
   map |-> {}, start |-> [f \in Fields |-> 0], length |-> [f \in Fields |-> 0],
   extlang |-> FALSE, extension |-> FALSE, private |-> FALSE, read |-> 0]

\* Faults: the field does not grow, and the state is taken for the field.
Accept_NoGrowth(p, s, ok, field, next) ==
  [p EXCEPT !.map = @ \cup {field},
            !.start[field] = IF field \in p.map THEN @ ELSE p.at,
            !.length[field] = IF field \in p.map THEN @ ELSE Form[s].len,
            !.state = next, !.valid = ok]

Accept_StateIsField(p, s, ok, field, next) ==
  [p EXCEPT !.map = @ \cup {next},
            !.start[field] = IF field \in p.map THEN @ ELSE p.at,
            !.length[field] = IF field \in p.map THEN @ + Form[s].len + 1 ELSE Form[s].len,
            !.state = field + 1, !.valid = ok]

\* operator(): a field that is set already grows by the subtag.
Accept(p, s, ok, field, next) ==
  [p EXCEPT !.map = @ \cup {field},
            !.start[field] = IF field \in p.map THEN @ ELSE p.at,
            !.length[field] = IF field \in p.map THEN @ + Form[s].len + 1 ELSE Form[s].len,
            !.state = next, !.valid = ok]

Reject(p) == [p EXCEPT !.valid = FALSE, !.done = TRUE]

Finish(p, grandfathered) == [p EXCEPT !.done = TRUE, !.valid = grandfathered]

\* A subtag of one character.
Singleton(p, s, grandfathered) ==
  IF p.extension THEN Reject(p)
  ELSE IF Form[s].x THEN Accept(p, s, TRUE, PrivateUse, PrivateUse)
  ELSE IF p.at # 0 THEN [Accept(p, s, TRUE, Extension, 5) EXCEPT !.extension = TRUE]
  ELSE Finish(p, grandfathered)

\* Fault: a second extended language is not noticed.
ExtlangOrRegion_Again(p, s) ==
  IF Form[s].digits
    THEN IF Form[s].letters THEN Reject(p) ELSE Accept(p, s, TRUE, Region, 4)
    ELSE Accept(p, s, TRUE, Extlang, 1)

\* A subtag of three characters after a language.
ExtlangOrRegion(p, s) ==
  IF Form[s].digits
    THEN IF Form[s].letters THEN Reject(p) ELSE Accept(p, s, TRUE, Region, 4)
    ELSE IF p.extlang THEN Reject(p) ELSE [Accept(p, s, TRUE, Extlang, 1) EXCEPT !.extlang = TRUE]

Act(p, s, action, grandfathered) ==
  LET f == Form[s]
  IN  CASE action = 0 -> Reject(p)
        [] action = 1 -> Accept(p, s, ~f.digits, Language, 1)
        [] action = 2 -> ExtlangOrRegion(p, s)
        [] action = 4 -> IF f.digits THEN Accept(p, s, f.digitFirst, Variant, 4) ELSE Accept(p, s, TRUE, Region, 2)
        [] action = 5 -> Accept(p, s, f.digitFirst, Variant, 4)
        [] action = 6 -> IF f.digits THEN Reject(p) ELSE Accept(p, s, TRUE, Region, 4)
        [] action = 7 -> IF f.letters THEN Reject(p) ELSE Accept(p, s, TRUE, Region, 4)
        [] action = 8 -> Accept(p, s, TRUE, Variant, 4)
        [] action = 9 -> Singleton(p, s, grandfathered)
        [] action = 10 -> [Accept(p, s, TRUE, Extension, 5) EXCEPT !.extension = FALSE]
        [] action = 11 -> [Accept(p, s, TRUE, PrivateUse, 6) EXCEPT !.private = TRUE]
        [] action = 12 -> Finish(p, grandfathered)

\* The loop of ParseTag up to the end of a subtag.
Step(p, s, grandfathered) ==
  LET next == IF Form[s].len \in 1 .. 8
                THEN Act(p, s, StateTransitions[p.state][Form[s].len], grandfathered)
                ELSE Reject(p)
  IN  [next EXCEPT !.at = p.at + Form[s].len + 1, !.read = @ + 1]

Running(p) == p.valid /\ ~p.done

\* ~ParserStateMachine
WellFormedTag(p) ==
  /\ p.valid
  /\ p.state = Extension => p.length[Extension] > 3
  /\ p.state = PrivateUse => p.length[PrivateUse] > 2

ParseTag(t, grandfathered) ==
  LET p[i \in 0 .. Len(t)] ==
        IF i = 0 THEN Start(t) ELSE IF Running(p[i - 1]) THEN Step(p[i - 1], t[i], grandfathered) ELSE p[i - 1]
  IN  p[Len(t)]

-----------------------------------------------------------------------------
(* ValidateTag *)

\* A grandfathered tag has a replacement, or is kept as it is.
Replaced(t) ==
  IF t \in DOMAIN Table.grandfathered /\ Table.grandfathered[t] # <<>> THEN Table.grandfathered[t] ELSE t

Grandfathered(t) == t \in DOMAIN Table.grandfathered /\ Table.grandfathered[t] = <<>>

SubtagAt(t, position) == t[CHOOSE i \in DOMAIN t : StartOf(t, i) = position]

Lookup(names, s) == IF s \in names THEN s ELSE None

NoLanguage == [lang |-> None, script |-> None, region |-> None, variant |-> None]

\* TryFindTableEntry of a language: one that is deprecated is replaced.
FindLanguage(s) == IF s \in DOMAIN Table.renamed THEN Table.renamed[s] ELSE Lookup(Table.languages, s)

\* FindInCompactBcp47TagTable: the entry gives a script, so that it is found
\* only for a tag that has one.
InCompactTable(c) == \E e \in Table.compact : <<c.lang, c.script, c.region>> = e

\* TryFindSuppressedScript: the script a language is written in, and whether
\* it goes without saying.
SuppressedScript(c) ==
  LET kept == IF InCompactTable(c) /\ <<c.lang, c.script>> \notin Table.parents
                THEN [c EXCEPT !.region = None] ELSE c
      default == IF c.lang \in DOMAIN Table.suppress THEN Table.suppress[c.lang]
                 ELSE IF c.lang \in DOMAIN Table.written THEN Table.written[c.lang]
                 ELSE None
  IN  IF c.lang = None THEN [to |-> kept, suppressed |-> FALSE]
      ELSE [to |-> IF c.script = None THEN [kept EXCEPT !.script = default] ELSE kept,
            suppressed |-> c.lang \in DOMAIN Table.suppress /\ c.script \in {None, default}]

\* The four lookups, one per kind of subtag: m is the map of the fields.
ExtlangMatches(t, p, lang) ==
  /\ Extlang \in p.map
  /\ SubtagAt(t, p.start[Extlang]) \in DOMAIN Table.extlangs
  /\ Table.extlangs[SubtagAt(t, p.start[Extlang])] = lang

FindRegion(t, p) ==
  LET r == Lookup(Table.regions, SubtagAt(t, p.start[Region]))
  IN  IF r \in DOMAIN Table.regionRenamed THEN Table.regionRenamed[r] ELSE r

FindVariant(t, p, lang) ==
  LET v == SubtagAt(t, p.start[Variant])
  IN  IF Variant \in p.map /\ <<lang, v>> \in Table.variants THEN v ELSE None

\* The language with what the tables say of its script; of the plain tag t.
Filled(t, p, grandfathered, extlang, map, known, to, suppressed) ==
  [wellFormed |-> grandfathered \/ Language \in p.map \/ (p.private /\ p.start[PrivateUse] = 0),
   valid |-> IF known \/ grandfathered THEN to.script # None ELSE FALSE,
   compact |-> to,
   map |-> IF known /\ to.script # None THEN map \cup {Script} ELSE map,
   start |-> IF extlang THEN [p.start EXCEPT ![Language] = p.start[Extlang]] ELSE p.start,
   extlang |-> IF Extlang \in map THEN SubtagAt(t, p.start[Extlang]) ELSE None,
   suppressed |-> known /\ suppressed]

\* A tag that is not a pseudo-locale.
ValidatePlain(t, p, grandfathered) ==
  LET first == IF Language \in p.map THEN FindLanguage(t[1]) ELSE None
      extlang == ExtlangMatches(t, p, first)
      lang == IF extlang THEN SubtagAt(t, p.start[Extlang]) ELSE first
      map == IF extlang THEN p.map \ {Extlang} ELSE p.map
      region == IF Region \in map THEN FindRegion(t, p) ELSE None
      named == [lang |-> lang, script |-> None, region |-> region, variant |-> FindVariant(t, p, lang)]
      found == SuppressedScript(named)
  IN  IF first # None /\ (Region \in map => region # None)
        THEN Filled(t, p, grandfathered, extlang, map, TRUE, found.to, found.suppressed)
        ELSE Filled(t, p, grandfathered, extlang, map, FALSE, named, FALSE)

\* What is left of a tag of which nothing is looked up.
Unknown(p, wellFormed) ==
  [wellFormed |-> wellFormed, valid |-> FALSE, compact |-> NoLanguage, map |-> p.map, start |-> p.start,
   extlang |-> None, suppressed |-> FALSE]

PseudoLocale(p, compact) ==
  [wellFormed |-> TRUE, valid |-> TRUE, compact |-> compact, map |-> p.map, start |-> p.start,
   extlang |-> None, suppressed |-> TRUE]

\* InitSearchKey fails for a tag that begins with a digit: it stays well-formed.
ValidateParsed(v, p, grandfathered) ==
  IF ~WellFormedTag(p) THEN Unknown(p, FALSE)
  ELSE IF Form[v[1]].digits THEN Unknown(p, TRUE)
  ELSE IF v \in DOMAIN Table.pseudo THEN PseudoLocale(p, Table.pseudo[v])
  ELSE ValidatePlain(v, p, grandfathered)

Validate(t) == ValidateParsed(Replaced(t), ParseTag(Replaced(t), Grandfathered(t)), Grandfathered(t))

IsPseudo(t) == Replaced(t) \in DOMAIN Table.pseudo

\* TagGrandfathered, TagPseudo and TagPrivateUse
IsSpecial(t) == Grandfathered(t) \/ IsPseudo(t) \/ ParseTag(Replaced(t), Grandfathered(t)).private

\* Fault: the text of an unknown region is not kept.
KeepsText_NoRegion(l, special) ==
  /\ l.wellFormed \/ special
  /\ \/ special
     \/ l.map \cap {Variant, Extension, PrivateUse} # {}
     \/ ~l.valid /\ (l.compact.lang = None \/ (Script \in l.map /\ l.compact.script = None))

\* The text of a tag is kept if the tables cannot give it back.
KeepsText(l, special) ==
  /\ l.wellFormed \/ special
  /\ \/ special
     \/ l.map \cap {Variant, Extension, PrivateUse} # {}
     \/ ~l.valid /\ \/ l.compact.lang = None
                    \/ Script \in l.map /\ l.compact.script = None
                    \/ Region \in l.map /\ l.compact.region = None

ValidateTagAndInitialize(t, l) ==
  [wellFormed |-> l.wellFormed, valid |-> l.valid, compact |-> l.compact, map |-> l.map, start |-> l.start,
   extlang |-> l.extlang, suppressed |-> l.suppressed, pseudo |-> IsPseudo(t), whole |-> Grandfathered(t),
   text |-> IF KeepsText(l, IsSpecial(t)) /\ LengthOf(t) <= MaximumTagLength THEN t ELSE <<>>]

LanguageOf(t) == ValidateTagAndInitialize(t, Validate(t))

\* IsWellFormedTag
IsWellFormed(t) == Validate(t).wellFormed

-----------------------------------------------------------------------------
(* FormatLanguageTag: GetSubtagFields(BSF_COMMON_FORM) *)

Part(name) == IF name = None THEN <<>> ELSE <<name>>

\* A script that is not in the tag is written unless it goes without saying.
ScriptPart(c, map, suppressed) == IF Script \in map /\ ~suppressed THEN Part(c.script) ELSE <<>>

\* Of a kept text, the fields in their order; an extended language that was
\* recognised has taken the place of the language before it.
FromText(l) ==
  LET body == IF Language \in l.map /\ l.start[Language] # 0 THEN Tail(l.text) ELSE l.text
      lead == Cardinality({Language, Extlang} \cap l.map)
  IN  IF l.whole THEN l.text
      ELSE SubSeq(body, 1, lead) \o ScriptPart(l.compact, l.map, l.suppressed) \o SubSeq(body, lead + 1, Len(body))

\* From the tables.
FromTables(c, extlang, map, suppressed) ==
  Part(c.lang) \o Part(extlang) \o ScriptPart(c, map, suppressed) \o Part(c.region) \o Part(c.variant)

Format(l) ==
  IF ~l.wellFormed THEN <<>>
  ELSE IF l.text # <<>> THEN FromText(l)
  ELSE FromTables(l.compact, l.extlang, l.map, l.suppressed)

\* GetSubtagFields(BSF_SYSTEM_MUI_FORM): the system's form of the language.
CanonicalOf(c) ==
  CASE c \in Table.muiVariants -> c
    [] c \notin Table.muiVariants /\ c.lang \in DOMAIN Table.mui -> Table.mui[c.lang]
    [] OTHER -> NoLanguage

MuiName ==
  [c \in Table.muiVariants \cup Range(Table.mui) |->
     FromTables(c, None, {Script}, SuppressedScript(c).suppressed \/ c.lang \in Table.muiShort)]

MuiForm(l) ==
  IF l.pseudo \/ CanonicalOf(l.compact) = NoLanguage THEN Format(l) ELSE MuiName[CanonicalOf(l.compact)]

-----------------------------------------------------------------------------
(* CompareBcp47Tags *)

Sign(a, b) == IF a < b THEN -1 ELSE IF a > b THEN 1 ELSE 0

\* Fault: only the left tag is looked at for the missing region.
CompareTags_Left(a, b) ==
  LET by(x, y) == Sign(Table.rank[x], Table.rank[y])
  IN  IF by(a.lang, b.lang) # 0 THEN by(a.lang, b.lang)
      ELSE IF by(a.script, b.script) # 0 THEN by(a.script, b.script)
      ELSE IF a.region = None THEN -by(a.region, b.region)
      ELSE by(a.region, b.region)

\* Languages, then scripts, then regions, where no region comes last.
CompareTags(a, b) ==
  LET by(x, y) == Sign(Table.rank[x], Table.rank[y])
  IN  IF by(a.lang, b.lang) # 0 THEN by(a.lang, b.lang)
      ELSE IF by(a.script, b.script) # 0 THEN by(a.script, b.script)
      ELSE IF a.region = None \/ b.region = None THEN -by(a.region, b.region)
      ELSE by(a.region, b.region)

-----------------------------------------------------------------------------
(* CLanguage::Compare, in hundredths *)

\* CRegion::GetCompositeRegionCode: the group of regions one belongs to.
CompositeRegion == [r \in Subtag \cup {None} |-> IF r \in DOMAIN Table.group THEN Table.group[r] ELSE None]

\* CRegion::Compare: the lower the higher b is above a.
CompareRegions(a, b) ==
  LET up == CompositeRegion[a]
      upper == CompositeRegion[up]
  IN  IF a = b THEN 100
      ELSE IF b = up THEN 75 ELSE IF b = upper THEN 50 ELSE IF b = CompositeRegion[upper] THEN 25 ELSE 0

English == "en"
America == "US"
Britain == "GB"

\* The heuristics of English: who reads American and who reads British English.
EnglishAffinity(a, b) ==
  LET other(r) == IF a = r THEN b ELSE a
      american(r) == r \in Table.american
  IN  IF America \in {a, b} THEN IF american(other(America)) THEN 77 ELSE 76
      ELSE IF Britain \in {a, b} THEN IF american(other(Britain)) THEN 76 ELSE 77
      ELSE 75

GroupAffinity(distance) == CASE distance = 25 -> 84 [] distance = 50 -> 86 [] distance = 75 -> 88

NeutralRegions == {None, Table.world}

\* CheckLanguageRegionAffinity: languages and scripts match, regions do not.
RegionAffinity(l, m) ==
  LET a == l.compact.region
      b == m.compact.region
      distances == {CompareRegions(a, b), CompareRegions(b, a)} \ {0}
  IN  IF {a, b} \cap Table.groups # {} /\ None \notin {a, b} /\ distances # {}
        THEN GroupAffinity(Max(distances))
      ELSE IF {a, b} \cap NeutralRegions # {} THEN 80
      ELSE IF l.compact.lang = English /\ EnglishAffinity(a, b) # 75 THEN EnglishAffinity(a, b)
      ELSE IF Format(l) = MuiForm(m) \/ MuiForm(l) = Format(m) THEN 76
      ELSE 75

\* What the compact tags have in common, then the texts.
Closeness(l, m) ==
  LET a == l.compact
      b == m.compact
  IN  IF a.lang = b.lang /\ a.script = b.script
        THEN IF a.region # b.region THEN RegionAffinity(l, m)
             ELSE IF a.variant # b.variant THEN 90
             ELSE IF l.text = m.text THEN 100
             ELSE IF Variant \in l.map THEN 97 ELSE 90
      ELSE IF a.lang = b.lang THEN 50
      ELSE IF a.script = b.script THEN 40
      ELSE IF a.region = b.region THEN 10
      ELSE 0

Closenesses == 0 .. 100

Lowered == [c \in Closenesses |-> IF c >= 75 THEN 40 ELSE IF c = 0 THEN 0 ELSE 10]

Undetermined == "und"
IsAny(l) == l.compact.lang = Undetermined
AnyScript == {None, "Zyyy"}

\* The table of suppressed scripts says that und is written in any script, and
\* no pseudo-locale is undetermined.
ASSUME UndeterminedAssumption ==
  /\ Undetermined \in DOMAIN Table.suppress /\ Table.suppress[Undetermined] \in AnyScript
  /\ \A v \in DOMAIN Table.pseudo : Table.pseudo[v].lang # Undetermined

\* What becomes of a closeness when one of the languages ls is undetermined.
Raised(ls) ==
  [c \in Closenesses |->
     IF c > 65 \/ ~\E l \in ls : IsAny(l) THEN c
     ELSE IF c = 40 THEN 65
     ELSE IF c < 60 /\ \E l \in ls : l.compact.script \in AnyScript THEN 60
     ELSE c]

DifferentPseudo(l, m) == l.pseudo # m.pseudo \/ (l.pseudo /\ l.text # m.text)

\* Zero where the code returns ERROR_NO_MATCH.
Compare(l, m) ==
  IF ~l.valid \/ ~m.valid THEN 0
  ELSE Raised({l, m})[IF DifferentPseudo(l, m) THEN Lowered[Closeness(l, m)] ELSE Closeness(l, m)]

-----------------------------------------------------------------------------
(* FindClosestInList *)

\* The languages of the lists, named once.
Listed == [t \in UNION {ToSet(l) : l \in Lists} |-> LanguageOf(t)]

NotSearched == [index |-> 0, closest |-> 0, score |-> 0, status |-> "NO_MATCH", done |-> FALSE]

TooLong(t) == LengthOf(t) > MaximumTagLength

\* What a search for l makes of the language m.
Adjusted(l) ==
  [c \in Closenesses |->
     IF ~IsAny(l) THEN c
     ELSE IF c = 40 THEN 65
     ELSE IF l.compact.script \in AnyScript /\ c < 60 THEN 60 ELSE c]

Comparison(l, m) == Adjusted(l)[Compare(l, m)]

\* Fault: the item that follows is overlooked.
Reaches_Skips(i, least) ==
  \E j \in i + 2 .. Len(list) :
    /\ Compare(language, listed[j]) >= least
    /\ \A k \in i + 1 .. j : ~TooLong(list[k])

\* TryFindFirstInList: whether an item after i is at least as close.
Reaches(i, least) ==
  \E j \in i + 1 .. Len(list) :
    /\ Compare(language, listed[j]) >= least
    /\ \A k \in i + 1 .. j : ~TooLong(list[k])

LooksTooFar(i, least) == ~Reaches(i, least) /\ \E k \in i + 1 .. Len(list) : TooLong(list[k])

\* What is known after item i, of which the comparison makes c.
Looked(i, c) ==
  LET found == [search EXCEPT !.index = i, !.closest = i, !.score = c]
  IN  IF TooLong(list[i]) THEN [search EXCEPT !.status = "INVALID", !.done = TRUE]
      ELSE IF c <= search.score THEN [search EXCEPT !.index = i]
      ELSE IF c >= 80 \/ IsAny(language) THEN [found EXCEPT !.status = "OK", !.done = TRUE]
      ELSE IF c < 75 THEN found
      ELSE IF Reaches(i, c) THEN [search EXCEPT !.index = i, !.closest = 0, !.score = 0, !.status = "OK"]
      ELSE [found EXCEPT !.status = IF LooksTooFar(i, c) THEN "INVALID" ELSE "OK", !.done = TRUE]

\* One round of the loop.
Look ==
  LET i == search.index + 1
  IN  /\ search.index < Len(list)
      /\ search' = Looked(i, Comparison(language, listed[i]))

\* The score of a qualifier, in units of a two-thousandth: the position in the
\* list comes before the closeness.
Score(i) ==
  [c \in Closenesses |->
     IF c < 50 THEN 0
     ELSE IF i <= 7 THEN 2 * c + 200 * (10 - i)
     ELSE IF i <= 12 THEN c + 100 * (13 - i)
     ELSE c]

Result == IF search.status = "OK" THEN Score(search.closest)[search.score] ELSE 0

-----------------------------------------------------------------------------
(* LanguageQualifierType::GetPackagingInfo *)

\* FormatLanguageTag(BSF_NEUTRAL_FORM): without region and variant.
Neutral(l) ==
  LET text == FromText([l EXCEPT !.whole = FALSE])
      name == IF l.text # <<>> THEN text ELSE FromTables(l.compact, l.extlang, l.map, l.suppressed)
      lead == Cardinality({Language, Extlang} \cap l.map) + Len(ScriptPart(l.compact, l.map, l.suppressed))
  IN  SubSeq(name, 1, lead)

\* The score of l in a list of one language.
Alone(l, m) == [c \in Closenesses |-> IF c >= 75 \/ IsAny(l) THEN Score(1)[c] ELSE 0][Comparison(l, m)]

\* _GetClosestLanguageInList: the first of the values that score best, or zero.
Closest(l) ==
  CHOOSE k \in 0 .. Len(list) :
    \E score \in {[i \in DOMAIN list |-> Alone(l, listed[i])]} :
      IF k = 0 THEN \A i \in DOMAIN list : score[i] = 0
      ELSE /\ score[k] > 0
           /\ \A i \in DOMAIN list : score[i] < score[k] \/ (score[i] = score[k] /\ k <= i)

\* Fault: an exact package does not decide.
Decide_NotExact(exact, neutral) ==
  IF {exact, neutral} = {0} THEN {Default}
  ELSE {list[i] : i \in {exact, neutral} \ {0}}

\* If the tag and its neutral form are closest to different values the one with
\* the higher address is taken, which may be either.
Decide(exact, neutral) ==
  IF exact # 0 /\ Alone(language, listed[exact]) = 2000 THEN {list[exact]}
  ELSE IF {exact, neutral} = {0} THEN {Default}
  ELSE {list[i] : i \in {exact, neutral} \ {0}}

\* The values the package of a candidate may be named after.  If one of those
\* it is looked for in is too long that is an error, and there is no package.
Affinities(fallback, split) ==
  IF fallback THEN {Default}
  ELSE IF list = <<>> THEN {IF split THEN tag ELSE Neutral(language)}
  ELSE IF \E i \in DOMAIN list : TooLong(list[i]) THEN {}
  ELSE UNION {Decide(exact, neutral) :
                exact \in {Closest(language)}, neutral \in {Closest(l) : l \in {LanguageOf(Neutral(language))}}}

-----------------------------------------------------------------------------
Init ==
  /\ tag \in Tags
  /\ list = <<>>
  /\ read = FALSE
  /\ parser = Start(Replaced(tag))
  /\ language = LanguageOf(<<>>)
  /\ listed = <<>>
  /\ search = NotSearched
  /\ affinity = <<>>

ReadSubtag ==
  /\ ~read /\ Running(parser) /\ parser.read < Len(Replaced(tag))
  /\ parser' = Step(parser, Replaced(tag)[parser.read + 1], Grandfathered(tag))
  /\ UNCHANGED <<tag, list, read, language, listed, search, affinity>>

\* The constructor of CLanguage, whose parser has come to the end of the tag;
\* its caller has the list.
Construct ==
  /\ ~read /\ (Running(parser) => parser.read = Len(Replaced(tag)))
  /\ read' = TRUE
  /\ language' = LanguageOf(tag)
  /\ list' \in IF tag \in Requests THEN Lists ELSE {<<>>}
  /\ listed' = [i \in DOMAIN list' |-> Listed[list'[i]]]
  /\ UNCHANGED <<tag, parser, search, affinity>>

FindClosest ==
  /\ read /\ ~search.done /\ affinity = <<>>
  /\ Look
  /\ UNCHANGED <<tag, list, read, parser, language, listed, affinity>>

\* The list is now that of the languages that have a package of their own.
\* fallback: the configuration puts the default language in the main package.
GetPackagingInfo ==
  /\ read /\ language.wellFormed /\ search = NotSearched /\ affinity = <<>>
  /\ \E fallback, split \in BOOLEAN : affinity' \in Affinities(fallback, split)
  /\ affinity' # <<>>
  /\ UNCHANGED <<tag, list, read, parser, language, listed, search>>

Next == ReadSubtag \/ Construct \/ FindClosest \/ GetPackagingInfo

Spec == Init /\ [][Next]_vars

-----------------------------------------------------------------------------
(* Properties *)

\* The machine stays in its states and a search within its list.
TypeOK ==
  /\ parser.state \in 0 .. 6 /\ parser.map \subseteq Fields /\ parser.read \in 0 .. Len(Replaced(tag))
  /\ search.index \in 0 .. Len(list) /\ search.closest \in 0 .. search.index
  /\ search.status \in {"OK", "NO_MATCH", "INVALID"}
  /\ read \in BOOLEAN

EndOf(f) == parser.start[f] + parser.length[f]

\* The tag has been read and not yet looked up.
Constructed == read /\ search = NotSearched /\ affinity = <<>>

\* A tag that ParseTag calls well-formed has been cut into fields that follow
\* each other in the order of their numbers and leave nothing out: a field
\* only has an offset and a length, so that none may be left and taken up again.
FieldsTileTheTag ==
  Constructed /\ WellFormedTag(parser) /\ ~Grandfathered(tag) =>
    /\ \A f \in parser.map :
         \/ parser.start[f] = 0
         \/ \E g \in parser.map : g < f /\ EndOf(g) + 1 = parser.start[f]
    /\ \E f \in parser.map : EndOf(f) = LengthOf(Replaced(tag))
    /\ \A f, g \in parser.map : f < g => EndOf(f) < parser.start[g]

\* The grammar the table of transitions stands for, subtag by subtag.  Unlike
\* that of RFC 5646 it lets any number of scripts come before the region,
\* and a variant that begins with a digit in place of the language.
Is(s, letters, digits, lengths) ==
  Form[s].letters = letters /\ Form[s].digits = digits /\ Form[s].len \in lengths

IsLanguage(s) == Is(s, TRUE, FALSE, 2 .. 3)
IsExtlang(s)  == Is(s, TRUE, FALSE, {3})
IsScript(s)   == Is(s, TRUE, FALSE, {4})
IsRegion(s)   == Is(s, TRUE, FALSE, {2}) \/ Is(s, FALSE, TRUE, {3})
IsYear(s)     == Form[s].len = 4 /\ Form[s].digitFirst
IsVariant(s)  == Form[s].len \in 5 .. 8 \/ IsYear(s)
IsSingleton(s) == Form[s].len = 1 /\ ~Form[s].x
IsPart(s) == Form[s].len \in 1 .. 8

\* The tables have names of their kinds, and a name that stands in place of
\* another is not itself replaced.  A pseudo-locale begins with what is no
\* language, and has no extended language.
ASSUME NamesAssumption ==
  /\ \A n \in Table.languages \cup DOMAIN Table.renamed : IsLanguage(n)
  /\ \A n \in Table.scripts : IsScript(n)
  /\ \A n \in Table.regions : IsRegion(n)
  /\ \A n \in DOMAIN Table.extlangs :
       IsExtlang(n) /\ n \in Table.languages \ DOMAIN Table.renamed /\ Table.extlangs[n] \in Table.languages
  /\ \A e \in Table.compact : e[2] \in Table.scripts
  /\ \A n \in DOMAIN Table.renamed : Table.renamed[n] \notin DOMAIN Table.renamed
  /\ \A n \in DOMAIN Table.regionRenamed : Table.regionRenamed[n] \notin DOMAIN Table.regionRenamed
  /\ \A v \in DOMAIN Table.pseudo :
       Len(v) > 1 /\ v[1] \notin Table.languages \cup DOMAIN Table.renamed /\ ~IsExtlang(v[2])

\* A grandfathered tag is replaced by a language, or by a tag that begins with
\* the same one.  The longest tag of a language, an extended language and a
\* region is of eleven characters.
ASSUME GrandfatheredAssumption ==
  /\ MaximumTagLength \in Nat /\ MaximumTagLength > 10
  /\ \A g \in DOMAIN Table.grandfathered :
       LET r == Table.grandfathered[g]
       IN  /\ g \in Seq(Subtag) /\ Len(g) > 1 /\ LengthOf(g) <= MaximumTagLength
           /\ r # <<>> => r[1] \in Table.languages
           /\ Len(r) > 1 => r[1] = g[1] /\ ~IsExtlang(r[2])

\* Where a part of the grammar may end that begins at one of the places at:
\* one subtag, one or none, or any number of them.
One(t, at, Kind(_)) == {i + 1 : i \in {j \in at : j < Len(t) /\ Kind(t[j + 1])}}
Opt(t, at, Kind(_)) == at \cup One(t, at, Kind)
Many(t, at, Kind(_)) == {j \in 0 .. Len(t) : \E i \in at : i <= j /\ \A k \in i + 1 .. j : Kind(t[k])}

\* Extensions: singletons with at least one longer subtag after each, which
\* the last of several may lack, because only their whole length is looked at.
Extensions(t, at) ==
  LET From(i, j) ==
        /\ i < j /\ IsSingleton(t[i + 1])
        /\ Form[t[j]].len # 1 \/ (j = Len(t) /\ i + 1 < j)
        /\ \A k \in i + 1 .. j : IsPart(t[k]) /\ (Form[t[k]].len = 1 => IsSingleton(t[k]))
        /\ \A k \in i + 1 .. j - 1 : Form[t[k]].len = 1 => Form[t[k + 1]].len # 1
  IN  at \cup {j \in DOMAIN t : \E i \in at : From(i, j)}

\* An x and at least one subtag after it.
Private(t, at) ==
  {j \in DOMAIN t : \E i \in at : /\ i + 1 < j /\ Form[t[i + 1]].x /\ Form[t[i + 1]].len = 1
                                  /\ \A k \in i + 1 .. j : IsPart(t[k])}

Named(t) == Opt(t, One(t, {0}, IsLanguage), IsExtlang)
Scripted(t) == Many(t, Named(t), IsScript)
Placed(t) == Many(t, Opt(t, Scripted(t), IsRegion) \cup One(t, {0}, IsYear), IsVariant)
Extended(t) == Extensions(t, Placed(t))

IsGrammatical(t) == Len(t) \in Extended(t) \cup Private(t, Extended(t) \cup {0})

\* The qualifier values that are refused are those outside this grammar, or
\* too long: the machine, which sees a subtag at a time and remembers a state
\* and three flags, takes no other decision.
AcceptsTheGrammar ==
  Constructed /\ ~Grandfathered(tag) =>
    (language.wellFormed <=> Start(Replaced(tag)).valid /\ IsGrammatical(Replaced(tag)))

\* NormalizeLanguageTag keeps what a tag stands for, unless it writes a script,
\* which the parser takes for a region: fil-PH becomes fil-Latn-PH, a
\* language without a known region.  Packages compare languages so formatted.
FormatKeepsLanguage ==
  LET f == Format(language)
  IN  Constructed /\ language.wellFormed /\ (\A i \in DOMAIN f : ~IsScript(f[i]) \/ f[i] \notin Table.scripts)
        => LanguageOf(f).compact = language.compact

\* The loop over the list, which drops what it has found when it sees an item
\* further on that is as close, ends at the first item that matches in its
\* region or better, or else at the last of those closest in language and script.
Expected(k) ==
  \E c \in {[i \in DOMAIN list |-> Compare(language, listed[i])]} :
    LET strong == {i \in DOMAIN list : c[i] >= 80}
        close == {i \in DOMAIN list : c[i] \in 75 .. 79}
    IN  k = IF IsAny(language) THEN 1
            ELSE IF strong # {} THEN Min(strong)
            ELSE IF close = {} THEN 0
            ELSE CHOOSE i \in close : \A j \in close : c[j] < c[i] \/ (c[j] = c[i] /\ j <= i)

Ended == search.done \/ search.index = Len(list)

FindsTheClosest ==
  read /\ Ended /\ list # <<>> /\ (\A i \in DOMAIN list : ~TooLong(list[i])) =>
    Expected(IF search.status = "OK" THEN search.closest ELSE 0)

\* CompareBcp47Tags orders the qualifiers of a decision; sorting by it makes
\* sense only if it is a total preorder, and the rule that turns the order of
\* regions around for a tag without one must not break that.
OrderIsTotal ==
  LET all == {l.compact : l \in ToSet(listed)} \cup {language.compact}
  IN  Constructed => \A a, b \in all :
        /\ CompareTags(a, b) = -CompareTags(b, a)
        /\ \A c \in all : CompareTags(a, b) <= 0 /\ CompareTags(b, c) <= 0 => CompareTags(a, c) <= 0

\* A candidate goes into the package of exactly its language if there is one,
\* wherever that stands among the packages, and otherwise into one of its
\* language and script; only then may the addresses of the names decide.  A tag
\* with a region that is not known has no script to agree with, and the neutral
\* form of a tag can be grandfathered and another language, as that of no-bok-NO is.
GoesToItsPackage ==
  affinity \notin {<<>>, Default} /\ list # <<>> =>
    LET same == {i \in DOMAIN list : Compare(language, listed[i]) = 100}
        of == {language} \cup {LanguageOf(n) : n \in {Neutral(language)} \cap DOMAIN Table.grandfathered}
    IN  /\ same # {} => affinity \in {list[i] : i \in same}
        /\ \E l \in of :
             IsAny(l) \/ \E i \in DOMAIN list :
               /\ list[i] = affinity /\ listed[i].compact.lang = l.compact.lang
               /\ l.valid => listed[i].compact.script = l.compact.script
=============================================================================
