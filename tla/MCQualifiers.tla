---------------------------- MODULE MCQualifiers ----------------------------
\* A project of nested folders and files whose names are qualifiers, alone or
\* together, in every combination of a few configurations.
EXTENDS Qualifiers

MCKeyOrder == <<"Language", "Scale", "Theme", "language">>
MCAttributeOf == [n \in ToSet(MCKeyOrder) |-> IF n = "language" THEN "Language" ELSE n]
MCTokenOf == [n \in {"lang", "scale"} |-> IF n = "lang" THEN "Language" ELSE "Scale"] @@ [n \in {"theme"} |-> "Theme"]

MCValues == [a \in {"Language", "Scale", "Theme"} |->
  CASE a = "Language" -> {"en", "fr", "images", "x-y"} [] a = "Scale" -> {"100", "200"} [] a = "Theme" -> {"dark", "light"}]
MCEnvironment == [a \in {"Language", "Scale", "Theme"} |-> CASE a = "Scale" -> "100" [] OTHER -> Empty]

\* A value is worth most against itself; en is near to fr.
MCEvaluate == [a \in DOMAIN MCValues |-> [p \in MCValues[a] \X MCValues[a] |->
  IF p[1] = p[2] THEN 1000 ELSE IF a = "Language" THEN 500 ELSE 250]]

None == "none"
Part(name, value) == [name |-> name, value |-> value, text |-> IF name = None THEN value ELSE "x-y"]
Plain(length) == [length |-> length, parts |-> <<>>, without |-> Empty, extension |-> Empty]
Folder(parts) == [Plain(9) EXCEPT !.parts = parts]
File(parts, without) == [Plain(9) EXCEPT !.parts = parts, !.without = without, !.extension = "png"]

MCTree ==
  [root |-> <<"lang-fr", "bin", "logo.scale-200_lang-en">>,
   bin |-> <<"scale-200_theme-dark", "en", "odd.theme-blue">>,
   en |-> <<"lang-fr", "scale-100", "language-en">>] @@
  ("lang-fr" :> <<"logo.scale-100", "logo">> @@ "scale-200_theme-dark" :> <<"logo.lang-en">>
   @@ "scale-100" :> <<".theme-light", "logo">> @@ "language-en" :> <<"logo.scale-100">>)

MCNames ==
  ("root" :> Plain(0) @@ "bin" :> Folder(<<Part(None, "bin")>>) @@ "en" :> Folder(<<Part(None, "en")>>)
   @@ "lang-fr" :> Folder(<<Part("lang", "fr")>>)
   @@ "scale-200_theme-dark" :> Folder(<<Part("scale", "200"), Part("theme", "dark")>>)
   @@ "scale-100" :> Folder(<<Part("scale", "100")>>)
   @@ "language-en" :> Folder(<<Part("language", "en"), Part("Theme", "light")>>)
   @@ "logo" :> [Plain(5) EXCEPT !.extension = "png"]
   @@ "odd.theme-blue" :> File(<<Part("theme", "blue"), Part("other", "1")>>, "odd")
   @@ "logo.scale-100" :> File(<<Part("scale", "100")>>, "logo")
   @@ "logo.lang-en" :> File(<<Part("lang", "en")>>, "logo")
   @@ "logo.scale-200_lang-en" :> File(<<Part("scale", "200"), Part("lang", "en")>>, "logo")
   @@ ".theme-light" :> File(<<Part("theme", "light")>>, Empty)
   @@ "assets" :> Plain(6))

Default(name, value, list) == [name |-> name, value |-> value, allowed |-> list]
Rule(type, value, flags) == [type |-> type, value |-> value, flags |-> flags]

Defaults ==
  {<<>>,
   <<Default("Language", "en", <<>>)>>,
   <<Default("lang", "en", <<>>), Default("language", "fr", <<>>), Default("Scale", "200", <<>>)>>,
   <<Default("Scale", "200", <<{"100", "200"}>>), Default("Language", "fr", <<{"fr"}>>)>>,
   <<Default("Language", "en", <<{"en", "fr", "images"}>>), Default("Theme", "dark", <<{"light"}>>)>>,
   <<Default("Scale", "200", <<>>)>>,
   <<Default("Scale", Empty, <<>>), Default("Language", "en", <<>>)>>,
   <<Default("Language", "xx", <<>>)>>,
   <<Default("lang", "en", <<{"en"}>>)>>,
   <<Default("other", "1", <<>>)>>}

Bases == {<<>>, <<[name |-> "Theme", value |-> "dark"]>>, <<[name |-> "Theme", value |-> "light"], [name |-> "Scale", value |-> "100"]>>,
          <<[name |-> "theme", value |-> "dark"]>>}

Exclusions ==
  {<<>>,
   <<Rule("tree", <<Empty, "bin", "en", Empty>>, {"index"}), Rule("extension", <<"png">>, {"traverse"})>>,
   <<Rule("name", <<"lang-fr">>, {"traverse"}), Rule("path", <<"bin">>, {"index"}), Rule("path", <<>>, {"index"})>>,
   <<Rule("tree", <<Empty, Empty, Empty>>, {"index"}), Rule("tree", <<"bin">>, {"traverse"}), Rule("tree", <<>>, {"index"})>>,
   <<Rule("name", <<"bin", Empty>>, {"index"}), Rule("path", <<"bin", "a.">>, {"index"})>>,
   <<Rule("name", <<>>, {"index"})>>}

MCConfigurations ==
  {[defaults |-> d, qualifiers |-> b, exclusions |-> x, delimiter |-> ".", folderNames |-> fo, fileNames |-> fi, root |-> <<>>] :
     d \in Defaults, b \in Bases, x \in Exclusions, fo \in BOOLEAN, fi \in BOOLEAN}
  \cup {[defaults |-> <<Default("Language", "en", <<>>)>>, qualifiers |-> <<>>, exclusions |-> <<Rule("tree", <<"assets", "bin">>, {"index"})>>,
         delimiter |-> c, folderNames |-> TRUE, fileNames |-> FALSE, root |-> <<"assets">>] : c \in {".", "-"}}
=============================================================================
