------------------------------ MODULE MCBuildRun ------------------------------
\* An index that is whole or split into a fat and one resource package, with
\* and without mapping files.
EXTENDS BuildRun, Sequences

Pri(p) == [package |-> p, kind |-> "pri"]
Map(p) == [package |-> p, kind |-> "map"]

AllRequests == { {Pri("main")}, {Pri("main"), Map("main")},
                 {Pri("fat"), Pri("pack")},
                 {Pri("fat"), Map("fat"), Pri("pack"), Map("pack")} }

\* The main and the fat package have the same name.
FileName ==
  [f \in [package : {"main", "fat", "pack"}, kind : {"pri", "map"}] |->
     CASE f.package = "pack" /\ f.kind = "pri" -> "app.language-en.pri"
       [] f.package = "pack" /\ f.kind = "map" -> "app.language-en.map.txt"
       [] f.package # "pack" /\ f.kind = "pri" -> "app.pri"
       [] OTHER -> "app.map.txt"]

AllNames == {"app.language-en.map.txt", "app.language-en.pri", "app.map.txt", "app.pri", "notes"}

PlainOrder == <<".", "..", "app.language-en.map.txt", "app.language-en.pri", "app.map.txt",
                "app.pri", "notes">>

\* As if the names of the output began with a character that sorts before a
\* dot: a hyphen, a parenthesis, a number sign.
EarlyOrder == <<"app.language-en.map.txt", "app.language-en.pri", "app.map.txt", "app.pri",
                ".", "..", "notes">>

RankIn(order) == [n \in AllNames \cup Dots |-> CHOOSE i \in DOMAIN order : order[i] = n]

PlainRank == RankIn(PlainOrder)
EarlyRank == RankIn(EarlyOrder)
=============================================================================
