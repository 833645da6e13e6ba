---------------------------- MODULE MCCommandLine ----------------------------
\* Command lines of every command, right and wrong, over folders in which some
\* of the files that are read or written are already there.
EXTENDS CommandLine

MCKeyOrder == <<"Language", "Scale", "Theme", "language", "scale">>
MCAttributeOf == [n \in ToSet(MCKeyOrder) |->
  CASE n \in {"Language", "language"} -> "Language" [] n \in {"Scale", "scale"} -> "Scale" [] OTHER -> n]
MCTokenOf == [n \in {"lang", "theme"} |-> IF n = "lang" THEN "Language" ELSE "Theme"]
MCValues == [a \in {"Language", "Scale", "Theme"} |->
  CASE a = "Language" -> {"en-US", "fr"} [] a = "Scale" -> {"100", "200"} [] a = "Theme" -> {"dark", "light"}]
MCEnvironment == [a \in {"Language", "Scale", "Theme"} |-> CASE a = "Language" -> "en-US" [] a = "Scale" -> "100" [] OTHER -> Empty]

MCProfile == <<"Language", "Scale", "Theme">>

Part(name, value, text) == [name |-> name, value |-> value, text |-> text]
En == Part("en", "US", "en-US")
Fr == Part("none", "none", "fr")
LangFr == Part("lang", "fr", "lang-fr")
lowFr == Part("language", "fr", "language-fr")
Scale(v) == Part("Scale", v, "x")
lowScale(v) == Part("scale", v, "x")
Dark == Part("theme", "dark", "x")
Texts ==
  [d1 |-> <<En>>, d2 |-> <<En, Fr, En>>, d3 |-> <<LangFr, Scale("200"), Dark>>, d4 |-> <<En, En>>, d5 |-> <<En, En, Dark>>,
   d6 |-> <<Scale("100"), lowScale("200")>>, d7 |-> <<lowFr, En>>, d8 |-> <<Scale("100"), Scale("200")>>,
   d9 |-> <<Scale("300"), En>>, d10 |-> <<lowScale("200"), lowFr>>, d11 |-> <<>>,
   d12 |-> <<Scale("200"), Scale("200"), Scale("200"), Dark>>, d13 |-> <<Part("x", "y", "x-y")>>]

Path(folder, name, ext) == [folder |-> folder, name |-> name, ext |-> ext]
Paths ==
  [proj |-> Path(".", "proj", <<>>), out |-> Path(".", "out", <<>>), nowhere |-> Path(".", "nowhere", <<>>),
   config |-> Path(".", "config", <<"xml">>), noext |-> Path(".", "config", <<>>), dotted |-> Path("v1.0", "config", <<>>),
   log |-> Path(".", "log", <<>>), logxml |-> Path(".", "log", <<"xml">>), logtxt |-> Path(".", "log", <<"txt">>),
   lost |-> Path("nowhere", "log", <<"xml">>), pri |-> Path(".", "resources", <<"pri">>),
   schema |-> Path(".", "schema", <<"pri">>), dll |-> Path(".", "extension", <<"dll">>),
   named |-> Path(".", "named", <<"xml">>), nameless |-> Path(".", "nameless", <<"xml">>), broken |-> Path(".", "broken", <<"xml">>)]

Plain == [command |-> "none", option |-> "none", number |-> 0, dumpType |-> FALSE, appx |-> FALSE, platform |-> FALSE,
          path |-> Path(".", "text", <<>>), slash |-> FALSE, malformed |-> FALSE, schema |-> FALSE, tokens |-> <<>>, parts |-> <<>>]
Command(c) == [Plain EXCEPT !.command = c]
Opt(o) == [Plain EXCEPT !.option = o]
Token(name) == <<[name |-> name, value |-> Unset]>>

MCWords ==
  ("new" :> Command("New") @@ "versioned" :> Command("Versioned") @@ "resourcepack" :> Command("ResourcePack")
   @@ "dump" :> Command("Dump") @@ "createconfig" :> Command("CreateConfig") @@ "help" :> Command("Help")
   @@ "/v" :> Opt("verbose") @@ "/?" :> Opt("help") @@ "/o" :> Opt("overwrite") @@ "/am" :> Opt("autoMerge") @@ "/rm" :> Opt("reverseMap")
   @@ "/pr" :> Opt("projectRoot") @@ "/cf" :> Opt("configXml") @@ "/mn" :> Opt("manifest") @@ "/if" :> Opt("indexFile")
   @@ "/ex" :> Opt("extensionDll") @@ "/es" :> Opt("externalSchema") @@ "/of" :> Opt("outputFile") @@ "/il" :> Opt("indexLog")
   @@ "/sf" :> Opt("schemaFile") @@ "/in" :> Opt("indexName") @@ "/dq" :> Opt("defaultQualifiers") @@ "/oo" :> Opt("outputOptions")
   @@ "/io" :> Opt("indexOptions") @@ "/vma" :> Opt("versionMajor") @@ "/dt" :> Opt("dumpType") @@ "/mf" :> Opt("mappingFile")
   @@ "/pv" :> Opt("platformVersion") @@ "/x" :> Opt("unknown")
   @@ "3" :> [Plain EXCEPT !.number = 3] @@ "basic" :> [Plain EXCEPT !.dumpType = TRUE] @@ "appx" :> [Plain EXCEPT !.appx = TRUE]
   @@ "10.0" :> [Plain EXCEPT !.platform = TRUE] @@ "a*b" :> [Plain EXCEPT !.malformed = TRUE]
   @@ "proj/" :> [Plain EXCEPT !.path = Paths.proj, !.slash = TRUE] @@ "logtxt/" :> [Plain EXCEPT !.path = Paths.logtxt, !.slash = TRUE]
   @@ "nowhere/" :> [Plain EXCEPT !.path = Paths.nowhere, !.slash = TRUE]
   @@ "-links" :> [Plain EXCEPT !.tokens = Token("links")] @@ "hiddenfiles" :> [Plain EXCEPT !.tokens = Token("hiddenfiles")]
   @@ "is=schema" :> [Plain EXCEPT !.tokens = Token("linkedfiles") \o <<[name |-> "indexerschema", value |-> "schema"]>>])
  @@ [w \in DOMAIN Paths |-> [Plain EXCEPT !.path = Paths[w], !.schema = w = "schema"]]
  @@ [w \in DOMAIN Texts |-> [Plain EXCEPT !.parts = Texts[w]]]

\* An option that is left out, or given one of some values.
Maybe(option, values) == {<<>>} \cup {<<option, v>> : v \in values}
Either(options) == {<<>>} \cup {<<o>> : o \in options}
Joined(set, more) == {s \o t : s \in set, t \in more}
Project == <<"/pr", "proj", "/cf", "config">>

News ==
  Joined({<<"new">> \o Project},
   Joined(Maybe("/of", {"out"}), Joined(Maybe("/il", {"log"}), Joined(Maybe("/sf", {"logxml", "logtxt/"}),
   Joined(Either({"/o", "/v"}), Joined({<<>>, <<"/in", "3">>} \cup {<<"/mn", m>> : m \in {"named", "nameless"}}, Maybe("/es", {"schema"})))))))
  \cup {<<"new">> \o s : s \in
    {<<>>, <<"/pr", "nowhere/">>, <<"/pr", "proj/">>, <<"/pr", "proj", "/cf", "dotted">>, <<"/pr", "proj", "/cf", "noext">>,
     Project \o <<"/of", "logtxt/">>, Project \o <<"/of", "lost">>, Project \o <<"/sf", "out">>, Project \o <<"/il", "a*b">>,
     Project \o <<"/mn", "broken">>, Project \o <<"/oo", "-links">>, Project \o <<"/io", "hiddenfiles", "/am">>,
     Project \o <<"/io", "-links">>, Project \o <<"/io", "is=schema", "/vma", "3">>, Project \o <<"/in", "3", "/io", "is=schema", "/es", "schema">>,
     Project \o <<"/in", "3", "/ex", "nowhere">>, Project \o <<"/in", "3", "/mf", "appx", "/rm">>}}

Others_ ==
  Joined({<<c>> \o Project : c \in {"versioned", "resourcepack"}},
    Joined(Maybe("/if", {"pri", "config", "nowhere"}), Joined(Maybe("/il", {"logtxt/"}), Maybe("/in", {"3"}))))
  \cup {<<"versioned">> \o Project \o s : s \in {<<"/pv", "10.0">>, <<"/mn", "named">>, <<"/vma", "3">>, <<"/es", "schema", "/of", "pri">>}}

Dumps ==
  Joined({<<"dump">>}, Joined(Maybe("/if", {"pri", "schema"}), Joined(Maybe("/of", {"log", "logxml", "out"}),
    Joined(Either({"/o"}), Joined(Maybe("/oo", {"-links"}), Maybe("/es", {"schema"}))))))
  \cup {<<"dump", "/pr", "proj">>, <<"dump", "/oo", "hiddenfiles">>, <<"dump", "/io", "hiddenfiles">>, <<"dump", "/dt", "basic", "/dt", "basic">>}

Configs ==
  {<<"createconfig", "/cf", c, "/dq", d>> \o o : c \in {"noext", "config"}, d \in DOMAIN Texts, o \in {<<>>, <<"/o">>}}
  \cup Joined({<<"createconfig">>}, Joined(Maybe("/cf", {"log"}), Joined(Maybe("/dq", {"d1"}), Joined(Maybe("/pv", {"10.0"}), Maybe("/ex", {"dll"})))))

\* Arguments in any order, options as values among them.
Argument == {"/o", "/?", "/cf", "/dt", "/x", "basic", "dump", "config"}
Orders == UNION {[1 .. n -> Argument] : n \in 0 .. 3} \cup {<<"help", "/x">>} \cup {<<"createconfig">> \o o : o \in [1 .. 3 -> Argument]}

MCCommandLines == News \cup Others_ \cup Dumps \cup Configs \cup Orders

MCWithin == (Paths.proj :> "proj" @@ Paths.out :> "out")
MCDisks ==
  LET base == {Paths.config, Paths.noext, Paths.dotted, Paths.schema, Paths.dll, Paths.named, Paths.nameless, Paths.broken, Paths.pri,
               Path("proj", "resources", <<"pri">>)}
  IN  {base, base \cup {Paths.log, Paths.logxml, Paths.logtxt, Path("out", "resources", <<"pri">>), Path("proj", "AppxManifest", <<"xml">>),
                        Path(".", "resources", <<"pri", "xml">>)}}
MCManifest == [p \in {Paths.named, Paths.nameless, Paths.broken, Path("proj", "AppxManifest", <<"xml">>)} |->
  CASE p = Paths.broken -> "broken" [] p = Paths.nameless -> "nameless" [] OTHER -> "named"]
MCOthers == {Paths.logxml}
=============================================================================
