----------------------------- MODULE ProjectIndex -----------------------------
(***************************************************************************)
(* What the index of a project has to hold: how often each resource of the  *)
(* project is found by each pass, counted over the files alone, with no     *)
(* sink, flag of the walk or order of indexers.  IndexIsTheProject compares *)
(* the index of IndexPass with this count.                                  *)
(***************************************************************************)
EXTENDS IndexPass, FiniteSets

\* The first n numbers of d, added up.
Total(d, n) ==
  LET sum[k \in 0..n] == IF k = 0 THEN 0 ELSE sum[k - 1] + d[k]
  IN  sum[n]

\* What an index may hold: files by their paths or contents, and strings.
Resources == [path : Paths, item : {"Path", "String", "Embedded"}]

Has(conf, indexer) == \E n \in DOMAIN conf.main : conf.main[n] = indexer

\* Some indexer of the pass replaces p by what it contains.
Opens(p, conf) ==
  IF FS[p].kind = "dir" THEN Has(conf, "folder")
  ELSE /\ FS[p].format \in Containers /\ Has(conf, FS[p].format)
       /\ ~(FS[p].format \in {"resfiles", "resjson"} /\ FS[p].size = "empty")

\* A pass that embeds files puts their contents in the place of their paths.
ItemOf(p, flags, conf) ==
  IF "traverse" \in flags /\ conf.final # <<>> /\ FS[p].kind = "file" /\ FS[p].size = "normal"
  THEN "Embedded" ELSE "Path"

\* How often the resource r is found at p, and with the flags given to p,
\* when inside says how often it is found in each file or folder.
At(p, flags, r, conf, inside) ==
  IF "traverse" \in flags /\ Opens(p, conf) THEN inside[p]
  ELSE IF "index" \in flags /\ r = [path |-> p, item |-> ItemOf(p, flags, conf)] THEN 1 ELSE 0

\* A hidden member of a folder is ignored; a listing names each file once.
AtMember(p, k, r, conf, inside) ==
  LET c == FS[p].members[k]
  IN  IF FS[p].kind = "dir"
      THEN IF FS[c].hidden THEN 0 ELSE At(c, FS[c].flags, r, conf, inside)
      ELSE IF \E j \in 1..(k - 1) : FS[p].members[j] = c THEN 0 ELSE At(c, Flags, r, conf, inside)

Below(p, r, conf, inside) ==
  IF FS[p].kind = "dir" \/ FS[p].format = "resfiles"
  THEN Total([k \in DOMAIN FS[p].members |-> AtMember(p, k, r, conf, inside)], Len(FS[p].members))
  ELSE IF r = [path |-> p, item |-> "String"] THEN FS[p].strings ELSE 0

Inside(r, conf) ==
  LET inside[p \in Paths] == Below(p, r, conf, inside)
  IN  inside

\* How often a pass finds r: once for every route from its root to r.
Found(r, conf) == At(conf.root, {"traverse"}, r, conf, Inside(r, conf))

Expected(r) == Total([n \in DOMAIN passes |-> Found(r, passes[n])], Len(passes))

Occurrences(sink, r) == Cardinality({k \in DOMAIN sink : sink[k].path = r.path /\ sink[k].item = r.item})

\* A string whose indexer may go on without it when it cannot be read.
Sure(r) == ~(r.item = "String" /\ MayLose(FS[r.path].format))

(***************************************************************************)
(* A successful run indexes exactly the resources the project has: every    *)
(* file reached as often as it is reached, a container or an embedded file  *)
(* never together with what replaces it, nothing excluded or hidden.  When  *)
(* reading may fail, what is missing are strings of .resw, .pri.xml or .pri *)
(* files, each as often as it could not be read: the indexers of these go   *)
(* on after a failure, and no other failure leaves a run successful.        *)
(***************************************************************************)
IndexIsTheProject ==
  pc = "finished" =>
    /\ \A k \in DOMAIN index : [path |-> index[k].path, item |-> index[k].item] \in Resources
    /\ \A r \in Resources : /\ Occurrences(index, r) + Occurrences(lost, r) = Expected(r)
                            /\ Sure(r) => Occurrences(lost, r) = 0

(***************************************************************************)
(* A project whose index can be counted like that, as TLC counts it in the  *)
(* project of MCIndexPass and IndexPass_proof shows of all of them: nothing *)
(* is missing, no text of a file spells a path, a folder has no extension   *)
(* of a container, every file and folder is above what it names (so no      *)
(* listing leads back to itself), and a pass has each indexer once, the one *)
(* that embeds files in the final group and no other there.                 *)
(***************************************************************************)
Regular(height) ==
  /\ \A p \in Paths :
       /\ FS[p].kind # "missing" /\ FS[p].text = NoPath
       /\ FS[p].kind = "dir" => FS[p].format = "plain"
       /\ \A k \in DOMAIN FS[p].members : height[FS[p].members[k]] < height[p]
  /\ \A c \in Configurations : \A n \in DOMAIN c :
       /\ \A j, k \in DOMAIN c[n].main : c[n].main[j] = c[n].main[k] => j = k
       /\ \A j \in DOMAIN c[n].main : c[n].main[j] # "embedfiles"
       /\ c[n].final \in {<<>>, <<"embedfiles">>}
=============================================================================
