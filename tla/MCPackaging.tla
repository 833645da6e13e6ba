----------------------------- MODULE MCPackaging -----------------------------
(***************************************************************************)
(* Instances of Packaging: a few qualifiers of five names, every short      *)
(* index made of their sets, and every way to split it.                     *)
(***************************************************************************)
EXTENDS Packaging

QualifierName == [en |-> "language", fr |-> "language", s100 |-> "scale", s200 |-> "scale",
                  hc |-> "contrast", cu |-> "custom", df |-> "family"]

AllQualifiers == DOMAIN QualifierName

\* Two names have no priority.
BuildPriority == [language |-> 3, scale |-> 2, contrast |-> 1, custom |-> 0, family |-> 0]

AllSegments == {"fr", "enX", "s200", "hc", "cu", "other", "p1", "p2"}

\* Lengths that reach every level with a maximum of 10.
SegmentLength ==
  LET Lengths(r, t, v) == [raw |-> r, token |-> t, values |-> v]
  IN  [segment \in AllSegments |->
         CASE segment = "fr" -> Lengths(8, 5, 2)
           [] segment = "enX" -> Lengths(8, 5, 2)
           [] segment = "s200" -> Lengths(11, 9, 3)
           [] segment = "hc" -> Lengths(13, 12, 7)
           [] segment = "cu" -> Lengths(12, 12, 11)
           [] OTHER -> Lengths(5, 5, 5)]

\* en and s100 are the default language and scale, unless split as well.
Affinity ==
  [en |-> "default", fr |-> "fr", s100 |-> "default", s200 |-> "s200", hc |-> "hc", cu |-> "cu",
   df |-> "default"]
GranularAffinity == [Affinity EXCEPT !.en = "enX"]

NoSplit == [mode |-> "fat", arp |-> {}, affinity |-> Affinity, each |-> FALSE, level |-> 0,
            granular |-> FALSE, manual |-> <<>>, declared |-> {}]

AutomaticConfigurations ==
  {[NoSplit EXCEPT !.mode = "auto", !.arp = arp, !.each = by.each, !.level = by.level,
                   !.granular = granular,
                   !.affinity = IF granular THEN GranularAffinity ELSE Affinity] :
     arp \in {{"language"}, {"language", "scale", "contrast"}, {"scale", "custom"}},
     by \in {[each |-> TRUE, level |-> 0], [each |-> FALSE, level |-> 0],
             [each |-> FALSE, level |-> 1]},
     granular \in BOOLEAN}

ManualConfigurations ==
  {[NoSplit EXCEPT !.mode = "manual", !.manual = manual, !.declared = {{"p1"}, {"p2"}}] :
     manual \in {[fr |-> {"p1"}, s200 |-> {"p2"}],
                 [fr |-> {"p1"}, en |-> {"p1"}, hc |-> {"p2"}],
                 [cu |-> {"p1"}, s200 |-> {"p1"}],
                 [cu |-> {"p2"}, df |-> {"p1"}]}}

AllConfigurations == {NoSplit} \cup AutomaticConfigurations \cup ManualConfigurations

ProjectSets == {{}, {"en"}, {"fr"}, {"s200"}, {"cu"}, {"fr", "s200"}, {"en", "s200"},
                {"fr", "s100", "hc"}, {"cu", "hc"}, {"fr", "s200", "cu"}, {"cu", "df"}}

ShortProjects == UNION {[1..n -> ProjectSets] : n \in 0..3}
=============================================================================
