---------------------------- MODULE MCLanguageTag ----------------------------
\* Every tag of up to three of twelve subtags, longer ones that begin with a
\* language, and lists of up to three languages behind others that do not match.
EXTENDS LanguageTag

Text(s) == [len |-> s[1], letters |-> s[2] \in {"L", "M", "DM"}, digits |-> s[2] \in {"D", "M", "DM"},
            digitFirst |-> s[2] \in {"D", "DM"}, x |-> s[3]]

Forms ==
  [en |-> <<2, "L", FALSE>>, und |-> <<3, "L", FALSE>>, fil |-> <<3, "L", FALSE>>, zh |-> <<2, "L", FALSE>>,
   yue |-> <<3, "L", FALSE>>, US |-> <<2, "L", FALSE>>, Latn |-> <<4, "L", FALSE>>, oxendict |-> <<8, "L", FALSE>>,
   a |-> <<1, "L", FALSE>>, x |-> <<1, "L", TRUE>>, i |-> <<1, "L", FALSE>>, e1 |-> <<2, "M", FALSE>>,
   toolongone |-> <<10, "L", FALSE>>, n150 |-> <<3, "D", FALSE>>, n1994 |-> <<4, "D", FALSE>>]

More ==
  [n1a9 |-> <<4, "DM", FALSE>>, GB |-> <<2, "L", FALSE>>, AU |-> <<2, "L", FALSE>>, PH |-> <<2, "L", FALSE>>, qps |-> <<3, "L", FALSE>>,
   ploc |-> <<4, "L", FALSE>>, Zyyy |-> <<4, "L", FALSE>>, Hant |-> <<4, "L", FALSE>>, n154 |-> <<3, "D", FALSE>>,
   n001 |-> <<3, "D", FALSE>>, n053 |-> <<3, "D", FALSE>>, n009 |-> <<3, "D", FALSE>>, de |-> <<2, "L", FALSE>>,
   Jpan |-> <<4, "L", FALSE>>, ja |-> <<2, "L", FALSE>>]

Subtags == DOMAIN Forms \cup DOMAIN More
FormOf == [s \in Subtags |-> Text(IF s \in DOMAIN Forms THEN Forms[s] ELSE More[s])]

Compact(l, s, r) == [lang |-> l, script |-> s, region |-> r, variant |-> None]

Sorted == <<"de", "en", "fil", "ja", "und", "yue", "zh", "Hant", "Jpan", "Latn", "Zyyy", "AU", "GB", "PH", "US",
            "n001", "n009", "n053", "n150", "n154">>

Tables ==
  [languages |-> {"de", "en", "fil", "und", "zh", "yue", "ja"},
   scripts |-> {"Latn", "Zyyy", "Hant", "Jpan"},
   regions |-> {"US", "GB", "AU", "PH", "n001", "n150", "n154", "n053", "n009"},
   rank |-> [s \in Subtags \cup {None} |-> IF s \in ToSet(Sorted) THEN CHOOSE k \in DOMAIN Sorted : Sorted[k] = s ELSE 0],
   renamed |-> [n \in {} |-> None], regionRenamed |-> [n \in {} |-> None],
   extlangs |-> [n \in {"yue"} |-> "zh"],
   variants |-> {},
   suppress |-> [n \in {"en", "de", "und", "ja"} |-> CASE n \in {"en", "de"} -> "Latn" [] n = "und" -> "Zyyy" [] n = "ja" -> "Jpan"],
   written |-> [n \in {"fil"} |-> "Latn"],
   compact |-> {<<"zh", "Hant", "GB">>}, parents |-> {<<"en", "Latn">>, <<"zh", "Hant">>},
   grandfathered |-> (<<"i", "en">> :> <<>>) @@ (<<"zh", "fil">> :> <<"yue">>) @@ (<<"de", "fil">> :> <<"en">>) @@ (<<"en", "oxendict", "US">> :> <<"en", "US", "oxendict">>),
   pseudo |-> <<"qps", "ploc">> :> Compact("en", "Latn", "US"),
   muiVariants |-> {Compact("en", "Latn", "US"), Compact("en", "Latn", "GB")},
   mui |-> [n \in {"en", "de", "fil"} |-> CASE n = "en" -> Compact("en", "Latn", "US") [] n = "de" -> Compact("de", "Latn", "PH")
                                          [] n = "fil" -> Compact("fil", "Latn", "PH")],
   muiShort |-> {"fil"},
   american |-> {"PH"}, world |-> "n001", groups |-> {"n150", "n154", "n053", "n009"},
   group |-> [GB |-> "n154", n154 |-> "n150", n150 |-> "n001", AU |-> "n053", n053 |-> "n009", n009 |-> "n001"]]

Short == DOMAIN Forms \ {"fil", "i", "zh"}

SomeRequests ==
  {<<"en", "US">>, <<"en", "GB">>, <<"en">>, <<"en", "n150">>, <<"fil", "PH">>, <<"und">>, <<"qps", "ploc">>,
   <<"de", "US">>, <<"zh", "US">>, <<"en", "en">>, <<"de", "fil", "US">>}

AllTags ==
  UNION {[1 .. n -> Short] : n \in 1 .. 3} \cup {<<"en">> \o t : t \in [1 .. 3 -> Short]}
    \cup {<<"en", "US", "a">> \o t : t \in [1 .. 2 -> Short]} \cup SomeRequests
    \cup {<<"n1a9">>, <<"n1a9", "n1994">>, <<"en", "n1a9">>, <<"fil", "yue", "n1a9", "US">>}
    \cup {<<"zh", "fil">>, <<"i", "en">>, <<"zh", "yue", "US">>, <<"fil", "PH", "x", "en">>, <<"en", "oxendict", "US">>}

Items ==
  {<<"en", "US">>, <<"en", "GB">>, <<"en", "AU">>, <<"en", "PH">>, <<"en">>, <<"de", "AU">>, <<"und">>, <<"qps", "ploc">>,
   <<"oxendict", "oxendict", "oxendict">>}

SomeLists ==
  {<<>>} \cup {[i \in 1 .. n |-> <<"ja">>] \o t : n \in {0, 6, 10}, t \in UNION {[1 .. k -> Items] : k \in 1 .. 2}}
    \cup [1 .. 3 -> Items \ {<<"de", "AU">>, <<"und">>, <<"en">>}]
=============================================================================
