----------------------------- MODULE MCPriDump -----------------------------
\* PRI files with everything a dump may show or leave out: links, decisions,
\* blobs, empty resources and subtrees, resources at the top, several maps and
\* versions, and texts and qualifiers that cannot be written or read.
EXTENDS PriDump

Q(name, value, score) == [name |-> name, value |-> value, priority |-> 100, score |-> score]
C(type, value, quals) == [type |-> type, value |-> value, qualifiers |-> quals]
Item(link, candidates) == [link |-> link, candidates |-> candidates]

EnglishUS == Q("Language", "en-US", 1000)
English == Q("Language", "en", 955)
Large == Q("Scale", "200", 55)

MCItems ==
  ("title" :> Item(<<>>, <<C("String", <<72, 105>>, <<EnglishUS, English>>), C("String", <<83>>, <<Q("Language", "fr", 0), Large>>)>>)
   @@ "alias" :> Item(<<<<116>>>>, <<C("String", <<88>>, <<>>)>>)
   @@ "pointer" :> Item(<<<<116>>>>, <<>>)
   @@ "bare" :> Item(<<>>, <<>>)
   @@ "logo" :> Item(<<>>, <<C("Path", <<108>>, <<Large>>), C("EmbeddedData", <<77>>, <<>>)>>)
   @@ "blob" :> Item(<<>>, <<C("EmbeddedData", <<255, 0>>, <<Large>>), C("EmbeddedData", <<1, 128, 254>>, <<EnglishUS>>),
                             C("EmbeddedData", <<9, 8, 7, 6>>, <<Q("Scale", "100", 996)>>)>>)
   @@ "hollow" :> Item(<<>>, <<C("EmbeddedData", <<>>, <<>>)>>)
   @@ "bell" :> Item(<<>>, <<C("String", <<65, 7>>, <<>>)>>)
   @@ "and" :> Item(<<>>, <<C("String", <<65, Ampersand, 66>>, <<>>)>>)
   @@ "odd" :> Item(<<>>, <<C("String", <<65>>, <<Q("Planet", "x", 0)>>), C("String", <<66>>, <<>>)>>)
   @@ "barred" :> Item(<<>>, <<C("String", <<65>>, <<Q("Theme", "dark", 0)>>), C("String", <<66>>, <<>>)>>))

MCChildren ==
  [rich |-> <<"resources", "files">>, resources |-> <<"title", "sub", "alias">>, sub |-> <<"bare", "pointer">>,
   files |-> <<"nothing", "logo", "images">>, nothing |-> <<"bare">>, images |-> <<"blob">>,
   plain |-> <<"words">>, words |-> <<"inner">>, inner |-> <<"title">>,
   top |-> <<"bare", "files">>, strange |-> <<"strings">>, strings |-> <<"and", "odd">>,
   noisy |-> <<"sounds">>, sounds |-> <<"bell", "barred">>, broken |-> <<"holes">>, holes |-> <<"hollow">>]

MCNameOf == [n \in DOMAIN MCChildren \cup DOMAIN MCItems |-> n]
MCWithin == {<<<<"Language", "en-US">>, <<"Language", "en">>>>}

Map(name, root, versions) == [name |-> name, root |-> root, versions |-> versions]
Pri(maps, primary) ==
  [maps |-> maps, primary |-> primary, sections |-> 2, sets |-> <<<<EnglishUS, English>>, <<Large>>>>, decisions |-> <<<<1, 2>>>>]

MCPris ==
  {Pri(<<Map("App", "rich", 1)>>, 1), Pri(<<Map("App", "plain", 1)>>, 1), Pri(<<Map("Lib", "plain", 1), Map("App", "rich", 2)>>, 2),
   Pri(<<Map("App", "top", 1)>>, 1), Pri(<<Map("App", "plain", 2)>>, 1), Pri(<<Map("App", "strange", 1)>>, 1),
   Pri(<<Map("App", "noisy", 1)>>, 1), Pri(<<Map("App", "broken", 1)>>, 1), Pri(<<Map("App", "plain", 1)>>, 0)}

\* Every combination of what decides which parts are shown, and the others.
Parts == {"versioninfo", "emptysubtrees", "emptynamedresources", "links", "namedresourcedecision", "candidates", "linkedcandidates"}
MCOptionSets ==
  SUBSET Parts \cup {{"resourcemaps"}, {"sanitizexml"}, {"priheader", "qualifierinfo"}, {"sanitizexml", "namedresourcedecision"}}

MCInvalid == {<<"Planet", "x">>}
MCNotAllowed == {<<"Theme", "dark">>}
MCEmissions == {[t \in {} |-> TRUE], [t \in {"String"} |-> FALSE]}
=============================================================================
