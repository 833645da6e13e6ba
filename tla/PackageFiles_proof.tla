-------------------------- MODULE PackageFiles_proof --------------------------
(***************************************************************************)
(* Proofs about PackageFiles, for any number of resource packages, all      *)
(* options and every failure of a library call:                             *)
(*   TypeCorrect       the type invariant,                                  *)
(*   CallsInOrder      no package is called in a state it does not allow,   *)
(*   FilesAfterBuilds  no file is written before every package is built,    *)
(*   ReverseMapWhole   a reverse map covers every file of a success,        *)
(*   BuildIsPromised   the build implements IndexBuild.                     *)
(***************************************************************************)
EXTENDS PackageFiles, TLAPS

AfterWrite == {"status", "statusFat", "statusPack", "validate", "log", "logPack", "dump", "map", "mapPack"}

Succeeded == pc = "done" /\ error = "none"

-----------------------------------------------------------------------------
(***************************************************************************)
(* The state every package is in at every step of a build that has not      *)
(* failed, and what the calls to come rely on: the schema of the main       *)
(* package is its own, and the reader its resource packages need while they *)
(* are reported lives.                                                      *)
(***************************************************************************)
Shape ==
  /\ error \in {"none", "library"} /\ (pc # "done" => error = "none")
  /\ override \subseteq PackSet
  /\ pc \in {"readMain", "buildFat", "buildPack", "writePack", "statusFat", "statusPack", "logPack", "mapPack"}
       => Is("split")
  /\ pc = "buildMain" => state[Main] = "Initial"
  /\ pc = "readMain" => state[Main] = "BuilderCreated"
  /\ pc \in {"buildMain", "readMain", "buildFat"} =>
       state[Fat] = "Initial" /\ \A i \in DOMAIN Packs : state[Packs[i]] = "Initial"
  /\ pc = "buildPack" =>
       /\ state[Fat] = "BuilderCreated"
       /\ \A i \in DOMAIN Packs : state[Packs[i]] = IF i < k THEN "BuilderCreated" ELSE "Initial"
  /\ pc \in {"reverse", "write"} => \A p \in Written : state[p] = "BuilderCreated"
  /\ pc = "writePack" =>
       /\ state[Fat] = "FileWritten"
       /\ \A i \in DOMAIN Packs : state[Packs[i]] = IF i < k THEN "FileWritten" ELSE "BuilderCreated"
  /\ pc \in AfterWrite => \A p \in Written : state[p] = "FileWritten"
  /\ Is("split") /\ pc \notin {"buildMain", "readMain", "done"} => state[Main] = "Finalized"
  /\ pc \notin {"buildMain", "done"} =>
       schema[Main] = IF options.permission = "none" THEN "none" ELSE "input"
  /\ pc \in {"statusFat", "statusPack"} => "status" \in readers

Covers ==
  /\ pc \in {"buildMain", "readMain", "buildFat", "buildPack", "reverse"} => covered = {}
  /\ pc \in {"write", "writePack"} \cup AfterWrite \/ Succeeded =>
       covered = IF Is("reverse") THEN Written ELSE {}

\* The files of a kind of some packages, and the packages a loop has done.
Pri(S)  == {[package |-> p, kind |-> "pri"] : p \in S}
Maps(S) == {[package |-> p, kind |-> "map"] : p \in S}
Upto(n) == {Fat} \cup {Packs[i] : i \in {j \in DOMAIN Packs : j < n}}

Holds ==
  /\ pc \in {"buildMain", "readMain", "buildFat", "buildPack", "reverse", "write"} => files = {}
  /\ pc = "writePack" => files = Pri(Upto(k))
  /\ pc \in AfterWrite \ {"mapPack"} => files = Pri(Written)
  /\ pc = "mapPack" => Is("mapping") /\ files = Pri(Written) \cup Maps(Upto(k))
  /\ Succeeded => files = RequestOf(options)

Inv == TypeOK /\ Shape /\ Covers /\ Holds /\ NoFileUnlessBuilt

-----------------------------------------------------------------------------
LEMMA PacksFacts ==
  /\ Len(Packs) \in Nat /\ DOMAIN Packs = 1..Len(Packs)
  /\ \A i \in DOMAIN Packs : Packs[i] \in PackSet
  /\ \A p \in PackSet : \E i \in DOMAIN Packs : Packs[i] = p
  <1>1. Len(Packs) \in Nat /\ DOMAIN Packs = 1..Len(Packs)
    BY PackagesAssumption
  <1> QED
    BY <1>1 DEF PackSet

LEMMA UptoFacts ==
  /\ Upto(1) = {Fat}
  /\ \A n \in DOMAIN Packs : Upto(n + 1) = Upto(n) \cup {Packs[n]}
  /\ \A n \in (1..(Len(Packs) + 1)) \ DOMAIN Packs : Upto(n) = {Fat} \cup PackSet
  BY PacksFacts DEF Upto

LEMMA WrittenFacts == Written \subseteq Packages /\ Target \in Written /\ Written # {}
  BY DEF Written, WrittenIf, Target, Packages, Is

LEMMA InitInv == Init => Inv
  <1> SUFFICES ASSUME Init PROVE Inv
    OBVIOUS
  <1>1. TypeOK
    BY PacksFacts DEF Init, TypeOK, Steps
  <1>2. Shape
    BY PacksFacts DEF Init, Shape, AfterWrite, Packages
  <1> QED
    BY <1>1, <1>2 DEF Init, Inv, Covers, Holds, AfterWrite, Succeeded, NoFileUnlessBuilt

-----------------------------------------------------------------------------
PkgTypes ==
  /\ state \in [Packages -> {"Initial", "BuilderCreated", "Finalized", "FileWritten"}]
  /\ \A p \in Packages : state[p] \in {"BuilderCreated", "Finalized"} => p \in builder
  /\ \A p \in Packages : state[p] = "FileWritten" => p \notin builder
  /\ schema \in [Packages -> {"none", "input", "build"}]
  /\ builder \subseteq Packages

LEMMA BuildTypes ==
  ASSUME PkgTypes, NEW p \in Packages, NEW o \in {"none", "input", "build"},
         state[p] = "Initial", schema' = [schema EXCEPT ![p] = o],
         \/ state' = [state EXCEPT ![p] = "BuilderCreated"] /\ builder' = builder \cup {p}
         \/ state' = state /\ (builder' = builder \/ builder' = builder \cup {p})
  PROVE  PkgTypes'
  BY DEF PkgTypes

LEMMA ReadTypes ==
  ASSUME PkgTypes, NEW p \in Packages, UNCHANGED <<builder, schema>>,
         \/ state' = state
         \/ state' = [state EXCEPT ![p] = IF @ = "BuilderCreated" THEN "Finalized" ELSE @]
  PROVE  PkgTypes'
  BY DEF PkgTypes

LEMMA WriteTypes ==
  ASSUME PkgTypes, NEW p \in Packages, UNCHANGED schema,
         state' = [state EXCEPT ![p] = "FileWritten"], builder' = builder \ {p}
  PROVE  PkgTypes'
  BY DEF PkgTypes

RestTypes ==
  /\ options \in Options
  /\ pc \in Steps /\ k \in 1..(Len(Packs) + 1)
  /\ override \subseteq Packages
  /\ readers \subseteq {"build", "status"}
  /\ covered \subseteq Packages
  /\ files \subseteq [package : Packages, kind : {"pri", "map"}]
  /\ error \in {"none", "library", "invalid state", "null builder", "dangling schema"}

LEMMA PkgTypesStep == PkgTypes /\ [Next]_vars => PkgTypes'
  <1> SUFFICES ASSUME PkgTypes, [Next]_vars PROVE PkgTypes'
    OBVIOUS
  <1>a. /\ Main \in Packages /\ Fat \in Packages /\ Target \in Packages
        /\ \A i \in DOMAIN Packs : Packs[i] \in Packages
    BY PacksFacts, WrittenFacts DEF Packages
  <1>b. UNCHANGED pkg => PkgTypes'
    BY DEF pkg, PkgTypes
  <1>1. CASE BuildMain
    BY <1>1, <1>a, <1>b, BuildTypes DEF BuildMain, Build, Refuse
  <1>2. CASE BuildFat
    BY <1>2, <1>a, <1>b, BuildTypes DEF BuildFat, Build, Refuse
  <1>3. CASE BuildPack
    BY <1>3, <1>a, <1>b, BuildTypes DEF BuildPack, Build, Refuse
  <1>4. CASE ReadMain \/ ReportMain \/ Validate \/ DumpSchema
    BY <1>4, <1>a, <1>b, ReadTypes DEF ReadMain, ReportMain, Validate, DumpSchema, Read, ReadWith, pkg
  <1>5. CASE ReportFat \/ ReportPack
    BY <1>5, <1>a, <1>b, ReadTypes DEF ReportFat, ReportPack, Report, ReadWith, pkg
  <1>6. CASE WriteTarget
    BY <1>6, <1>a, <1>b, WriteTypes DEF WriteTarget, WriteToFile, Refuse
  <1>7. CASE WritePack
    BY <1>7, <1>a, <1>b, WriteTypes DEF WritePack, WriteToFile, Refuse
  <1>8. CASE UNCHANGED pkg
    BY <1>8, <1>b
  <1> QED
    BY <1>1, <1>2, <1>3, <1>4, <1>5, <1>6, <1>7, <1>8
    DEF Next, Terminated, vars, pkg, AddReverseMap, LogTarget, LogPack, MapTarget, MapPack, Describe, Refuse

LEMMA RestTypesStep == PkgTypes /\ RestTypes /\ [Next]_vars => RestTypes'
  <1> SUFFICES ASSUME PkgTypes, RestTypes, [Next]_vars PROVE RestTypes'
    OBVIOUS
  <1>a. /\ Main \in Packages /\ Fat \in Packages /\ Target \in Packages
        /\ Written \subseteq Packages
        /\ \A i \in DOMAIN Packs : Packs[i] \in Packages
        /\ 1 \in 1..(Len(Packs) + 1)
        /\ k \in DOMAIN Packs => k + 1 \in 1..(Len(Packs) + 1)
    BY PacksFacts, WrittenFacts DEF Packages
  <1>b. \A p \in Packages, kind \in {"pri", "map"} :
          [package |-> p, kind |-> kind] \in [package : Packages, kind : {"pri", "map"}]
    OBVIOUS
  <1> USE <1>a DEF RestTypes, Steps, GoTo, Raise, Refuse, Continue, pkg
  <1>1. CASE BuildMain
    BY <1>1 DEF BuildMain, Build
  <1>2. CASE ReadMain
    BY <1>2 DEF ReadMain, Read, ReadWith
  <1>3. CASE BuildFat
    BY <1>3 DEF BuildFat, Build
  <1>4. CASE BuildPack
    BY <1>4 DEF BuildPack, Build
  <1>5. CASE AddReverseMap
    BY <1>5 DEF AddReverseMap
  <1>6. CASE WriteTarget
    BY <1>6, <1>b DEF WriteTarget, WriteToFile
  <1>7. CASE WritePack
    <2>1. CASE k \in DOMAIN Packs
      <3>1. Packs[k] \in Packages /\ k + 1 \in 1..(Len(Packs) + 1)
        BY <2>1
      <3>2. [package |-> Packs[k], kind |-> "pri"] \in [package : Packages, kind : {"pri", "map"}]
        BY <3>1
      <3> QED
        BY <1>7, <2>1, <3>1, <3>2 DEF WritePack, WriteToFile
    <2>2. CASE k \notin DOMAIN Packs
      BY <1>7, <2>2 DEF WritePack
    <2> QED
      BY <2>1, <2>2
  <1>8. CASE ReportMain
    BY <1>8 DEF ReportMain, Read, ReadWith
  <1>9. CASE ReportFat
    BY <1>9 DEF ReportFat, Report, ReadWith
  <1>10. CASE ReportPack
    <2>1. CASE k \in DOMAIN Packs
      <3>1. Packs[k] \in Packages /\ k + 1 \in 1..(Len(Packs) + 1)
        BY <2>1
      <3> QED
        BY <1>10, <2>1, <3>1 DEF ReportPack, Report, ReadWith, Overridden
    <2>2. CASE k \notin DOMAIN Packs
      BY <1>10, <2>2 DEF ReportPack
    <2> QED
      BY <2>1, <2>2
  <1>11. CASE Validate
    BY <1>11 DEF Validate, Read, ReadWith
  <1>12. CASE LogTarget
    BY <1>12 DEF LogTarget, Describe
  <1>13. CASE LogPack
    BY <1>13 DEF LogPack, Describe
  <1>14. CASE DumpSchema
    BY <1>14 DEF DumpSchema, Read, ReadWith
  <1>15. CASE MapTarget
    BY <1>15, <1>b DEF MapTarget, Describe, MapFile
  <1>16. CASE MapPack
    <2>1. CASE k \in DOMAIN Packs
      <3>1. Packs[k] \in Packages /\ k + 1 \in 1..(Len(Packs) + 1)
        BY <2>1
      <3>2. MapFile(Packs[k]) \subseteq [package : Packages, kind : {"pri", "map"}]
        <4>1. [package |-> Packs[k], kind |-> "map"] \in [package : Packages, kind : {"pri", "map"}]
          BY <3>1
        <4> QED
          BY <4>1 DEF MapFile
      <3>3. Describe(Packs[k], MapFile(Packs[k]), Continue)
        BY <1>16, <2>1 DEF MapPack
      <3>4. CASE state[Packs[k]] # "FileWritten"
        BY <3>3, <3>4 DEF Describe
      <3>5. CASE state[Packs[k]] = "FileWritten"
        <4>1. files' = files \/ files' = files \cup MapFile(Packs[k])
          BY <3>3, <3>5 DEF Describe
        <4>2. files' \subseteq [package : Packages, kind : {"pri", "map"}]
          BY <3>2, <4>1
        <4>3. /\ UNCHANGED <<options, override, covered>>
              /\ (Continue /\ UNCHANGED readers) \/ Raise("library")
          BY <3>3, <3>5 DEF Describe
        <4> QED
          BY <3>1, <4>2, <4>3
      <3> QED
        BY <3>4, <3>5
    <2>2. CASE k \notin DOMAIN Packs
      BY <1>16, <2>2 DEF MapPack
    <2> QED
      BY <2>1, <2>2
  <1>17. CASE UNCHANGED vars
    BY <1>17 DEF vars
  <1> QED
    BY <1>1, <1>2, <1>3, <1>4, <1>5, <1>6, <1>7, <1>8, <1>9, <1>10, <1>11, <1>12, <1>13, <1>14, <1>15,
       <1>16, <1>17 DEF Next, Terminated

LEMMA TypeStep == TypeOK /\ [Next]_vars => TypeOK'
  <1>1. TypeOK <=> PkgTypes /\ RestTypes
    BY DEF TypeOK, PkgTypes, RestTypes
  <1>2. TypeOK' <=> PkgTypes' /\ RestTypes'
    BY DEF TypeOK, PkgTypes, RestTypes
  <1> QED
    BY <1>1, <1>2, PkgTypesStep, RestTypesStep

-----------------------------------------------------------------------------
LEMMA PackageFacts ==
  /\ Main \in Packages /\ Fat \in Packages /\ Main # Fat
  /\ \A p \in PackSet : p \in Packages /\ p # Main /\ p # Fat
  /\ \A i \in DOMAIN Packs : Packs[i] \in PackSet
  /\ \A i, j \in DOMAIN Packs : Packs[i] = Packs[j] => i = j
  BY PackagesAssumption, PacksFacts DEF Packages

\* What is written, and every package of a loop that has come to its end.
LEMMA SplitFacts ==
  /\ Is("split") => Written = {Fat} \cup PackSet /\ Target = Fat
  /\ ~Is("split") => Written = {Main} /\ Target = Main
  BY DEF Is, Written, WrittenIf, Target

LEMMA LoopEnd ==
  ASSUME TypeOK, k \notin DOMAIN Packs, NEW i \in DOMAIN Packs
  PROVE  i < k
  <1>1. k \in 1..(Len(Packs) + 1)
    BY DEF TypeOK
  <1> QED
    BY <1>1, PacksFacts

LEMMA LoopNext ==
  ASSUME TypeOK, k \in DOMAIN Packs, NEW i \in DOMAIN Packs
  PROVE  i < k + 1 <=> i < k \/ i = k
  BY PacksFacts

LEMMA OptionsKept ==
  ASSUME options' = options
  PROVE  /\ Is("split")' = Is("split") /\ Is("reverse")' = Is("reverse") /\ Is("mapping")' = Is("mapping")
         /\ Written' = Written /\ RequestOf(options)' = RequestOf(options)
  BY DEF Is, Written, RequestOf

LEMMA FailShape ==
  ASSUME pc' = "done", error' = "library", override' \subseteq PackSet
  PROVE  Shape'
  BY DEF Shape, AfterWrite

\* Only a package that has been built and not written is changed by reading.
LEMMA ReadKeeps ==
  ASSUME TypeOK, NEW p \in Packages, state[p] # "BuilderCreated"
  PROVE  [state EXCEPT ![p] = IF @ = "BuilderCreated" THEN "Finalized" ELSE @] = state
  BY DEF TypeOK

\* A step that only goes on, from one step to another that wants no more.
LEMMA ReadShape ==
  ASSUME TypeOK, Shape, pc \in AfterWrite, pc' \in AfterWrite \cup {"done"},
         UNCHANGED <<options, state, schema, error>>, override' \subseteq PackSet,
         pc' \in {"statusFat", "statusPack"} => "status" \in readers',
         pc' \in {"statusFat", "statusPack", "logPack", "mapPack"} => Is("split")
  PROVE  Shape'
  <1>1. Is("split")' = Is("split") /\ Written' = Written
    BY OptionsKept
  <1> QED
    BY <1>1 DEF Shape, AfterWrite

LEMMA ShapeStep == TypeOK /\ Shape /\ [Next]_vars => Shape'
  <1> SUFFICES ASSUME TypeOK, Shape, [Next]_vars PROVE Shape'
    OBVIOUS
  <1>1. CASE BuildMain
    <2>1. state[Main] = "Initial" /\ error = "none"
      BY <1>1 DEF BuildMain, Shape
    <2>2. CASE pc' = "done"
      BY <1>1, <2>1, <2>2, FailShape DEF BuildMain, Build, Raise, GoTo, Shape
    <2>3. CASE pc' # "done"
      <3>1. /\ state' = [state EXCEPT ![Main] = "BuilderCreated"]
            /\ schema' = [schema EXCEPT ![Main] = IF options.permission = "none" THEN "none" ELSE "input"]
            /\ pc' = (IF Is("split") THEN "readMain" ELSE "reverse") /\ UNCHANGED <<options, error, override>>
        BY <1>1, <2>1, <2>3 DEF BuildMain, Build, Raise, GoTo
      <3>2. Is("split")' = Is("split") /\ Written' = Written
        BY <3>1, OptionsKept
      <3>3. /\ pc = "buildMain" /\ state \in [Packages -> {"Initial", "BuilderCreated", "Finalized", "FileWritten"}]
            /\ schema \in [Packages -> {"none", "input", "build"}]
        BY <1>1 DEF BuildMain, TypeOK
      <3> QED
        BY <2>1, <3>1, <3>2, <3>3, PackageFacts, SplitFacts DEF Shape, AfterWrite
    <2> QED
      BY <2>2, <2>3
  <1>2. CASE ReadMain
    <2>1. /\ pc = "readMain" /\ state[Main] = "BuilderCreated" /\ error = "none" /\ Is("split")
          /\ schema[Main] = IF options.permission = "none" THEN "none" ELSE "input"
          /\ override \subseteq PackSet
      BY <1>2 DEF ReadMain, Shape
    <2>2. Resolves(Main, override)
      BY <2>1, PackageFacts DEF Resolves, Refers
    <2>3. CASE pc' = "done"
      BY <1>2, <2>1, <2>2, <2>3, FailShape DEF ReadMain, Read, ReadWith, Raise, GoTo
    <2>4. CASE pc' # "done"
      <3>1. /\ state' = [state EXCEPT ![Main] = "Finalized"]
            /\ pc' = "buildFat" /\ UNCHANGED <<options, error, override, schema>>
        BY <1>2, <2>1, <2>2, <2>4 DEF ReadMain, Read, ReadWith, Raise, GoTo
      <3>2. Is("split")' = Is("split") /\ Written' = Written
        BY <3>1, OptionsKept
      <3>3. state \in [Packages -> {"Initial", "BuilderCreated", "Finalized", "FileWritten"}]
        BY DEF TypeOK
      <3> QED
        BY <2>1, <3>1, <3>2, <3>3, PackageFacts DEF Shape, AfterWrite
    <2> QED
      BY <2>3, <2>4
  <1>3. CASE BuildFat
    <2>1. pc = "buildFat" /\ state[Fat] = "Initial" /\ error = "none" /\ Is("split") /\ override \subseteq PackSet
      BY <1>3 DEF BuildFat, Shape
    <2>2. CASE pc' = "done"
      BY <1>3, <2>1, <2>2, FailShape DEF BuildFat, Build, Raise, GoTo
    <2>3. CASE pc' # "done"
      <3>1. /\ state' = [state EXCEPT ![Fat] = "BuilderCreated"] /\ schema' = [schema EXCEPT ![Fat] = "build"]
            /\ pc' = "buildPack" /\ k' = 1 /\ UNCHANGED <<options, error, override>>
        BY <1>3, <2>1, <2>3 DEF BuildFat, Build, Raise, GoTo
      <3>2. Is("split")' = Is("split") /\ Written' = Written
        BY <3>1, OptionsKept
      <3>3. /\ state \in [Packages -> {"Initial", "BuilderCreated", "Finalized", "FileWritten"}]
            /\ schema \in [Packages -> {"none", "input", "build"}]
        BY DEF TypeOK
      <3>4. \A i \in DOMAIN Packs : ~(i < 1)
        BY PacksFacts
      <3> QED
        BY <2>1, <3>1, <3>2, <3>3, <3>4, PackageFacts DEF Shape, AfterWrite
    <2> QED
      BY <2>2, <2>3
  <1>4. CASE BuildPack
    <2>1. /\ pc = "buildPack" /\ error = "none" /\ Is("split") /\ override \subseteq PackSet
          /\ state[Fat] = "BuilderCreated"
          /\ \A i \in DOMAIN Packs : state[Packs[i]] = IF i < k THEN "BuilderCreated" ELSE "Initial"
      BY <1>4 DEF BuildPack, Shape
    <2>2. /\ state \in [Packages -> {"Initial", "BuilderCreated", "Finalized", "FileWritten"}]
          /\ schema \in [Packages -> {"none", "input", "build"}] /\ k \in 1..(Len(Packs) + 1)
      BY DEF TypeOK
    <2>3. ASSUME k \in DOMAIN Packs PROVE Shape'
      <3>1. state[Packs[k]] = "Initial"
        BY <2>1, <2>2, <2>3
      <3>2. CASE pc' = "done"
        BY <1>4, <2>1, <2>3, <3>1, <3>2, FailShape DEF BuildPack, Build, Raise, Continue
      <3>3. CASE pc' # "done"
        <4>1. /\ state' = [state EXCEPT ![Packs[k]] = "BuilderCreated"]
              /\ schema' = [schema EXCEPT ![Packs[k]] = "build"]
              /\ pc' = "buildPack" /\ k' = k + 1 /\ UNCHANGED <<options, error, override>>
          BY <1>4, <2>1, <2>3, <3>1, <3>3 DEF BuildPack, Build, Raise, Continue
        <4>2. Is("split")' = Is("split") /\ Written' = Written
          BY <4>1, OptionsKept
        <4>3. \A i \in DOMAIN Packs : state'[Packs[i]] = IF i < k + 1 THEN "BuilderCreated" ELSE "Initial"
          BY <2>1, <2>2, <2>3, <4>1, LoopNext, PackageFacts
        <4>4. /\ state'[Fat] = "BuilderCreated" /\ state'[Main] = state[Main] /\ schema'[Main] = schema[Main]
          BY <2>1, <2>2, <2>3, <4>1, PackageFacts
        <4> QED
          BY <2>1, <4>1, <4>2, <4>3, <4>4 DEF Shape, AfterWrite
      <3> QED
        BY <3>2, <3>3
    <2>4. ASSUME k \notin DOMAIN Packs PROVE Shape'
      <3>1. pc' = "reverse" /\ UNCHANGED <<options, error, state, schema, override>>
        BY <1>4, <2>4 DEF BuildPack, GoTo, pkg
      <3>2. Is("split")' = Is("split") /\ Written' = Written
        BY <3>1, OptionsKept
      <3>3. \A p \in PackSet : state[p] = "BuilderCreated"
        BY <2>1, <2>4, LoopEnd, PacksFacts
      <3>4. \A p \in Written : state[p] = "BuilderCreated"
        BY <2>1, <3>3, SplitFacts
      <3> QED
        BY <2>1, <3>1, <3>2, <3>4 DEF Shape, AfterWrite
    <2> QED
      BY <2>3, <2>4
  <1>5. CASE AddReverseMap
    <2>1. pc = "reverse" /\ error = "none" /\ override \subseteq PackSet /\ \A p \in Written : state[p] = "BuilderCreated"
      BY <1>5 DEF AddReverseMap, Shape
    <2>2. Written \subseteq builder
      BY <2>1, WrittenFacts DEF TypeOK
    <2>3. CASE pc' = "done"
      BY <1>5, <2>1, <2>2, <2>3, FailShape DEF AddReverseMap, Raise, GoTo, pkg
    <2>4. CASE pc' # "done"
      <3>1. pc' = "write" /\ UNCHANGED <<options, error, state, schema, override>>
        BY <1>5, <2>2, <2>4 DEF AddReverseMap, Raise, GoTo, pkg
      <3>2. Is("split")' = Is("split") /\ Written' = Written
        BY <3>1, OptionsKept
      <3> QED
        BY <2>1, <3>1, <3>2 DEF Shape, AfterWrite
    <2> QED
      BY <2>3, <2>4
  <1>6. CASE WriteTarget
    <2>1. /\ pc = "write" /\ error = "none" /\ override \subseteq PackSet
          /\ \A p \in Written : state[p] = "BuilderCreated"
      BY <1>6 DEF WriteTarget, Shape
    <2>2. state[Target] = "BuilderCreated"
      BY <2>1, WrittenFacts
    <2>3. CASE pc' = "done"
      BY <1>6, <2>1, <2>2, <2>3, FailShape DEF WriteTarget, WriteToFile, Raise, GoTo, pkg
    <2>4. CASE pc' # "done"
      <3>1. /\ state' = [state EXCEPT ![Target] = "FileWritten"]
            /\ pc' = (IF Is("split") THEN "writePack" ELSE "status") /\ k' = 1
            /\ UNCHANGED <<options, error, override, schema>>
        BY <1>6, <2>2, <2>4 DEF WriteTarget, WriteToFile, Raise, GoTo
      <3>2. Is("split")' = Is("split") /\ Written' = Written
        BY <3>1, OptionsKept
      <3>3. state \in [Packages -> {"Initial", "BuilderCreated", "Finalized", "FileWritten"}]
        BY DEF TypeOK
      <3>4. \A i \in DOMAIN Packs : ~(i < 1)
        BY PacksFacts
      <3>5. CASE Is("split")
        <4>1. /\ state'[Fat] = "FileWritten" /\ state'[Main] = state[Main]
              /\ \A i \in DOMAIN Packs : state'[Packs[i]] = "BuilderCreated"
          BY <2>1, <3>1, <3>3, <3>5, PackageFacts, SplitFacts
        <4> QED
          BY <2>1, <3>1, <3>2, <3>4, <3>5, <4>1 DEF Shape, AfterWrite
      <3>6. CASE ~Is("split")
        <4>1. \A p \in Written : state'[p] = "FileWritten"
          BY <3>1, <3>3, <3>6, PackageFacts, SplitFacts
        <4> QED
          BY <2>1, <3>1, <3>2, <3>6, <4>1 DEF Shape, AfterWrite
      <3> QED
        BY <3>5, <3>6
    <2> QED
      BY <2>3, <2>4
  <1>7. CASE WritePack
    <2>1. /\ pc = "writePack" /\ error = "none" /\ Is("split") /\ override \subseteq PackSet
          /\ state[Fat] = "FileWritten"
          /\ \A i \in DOMAIN Packs : state[Packs[i]] = IF i < k THEN "FileWritten" ELSE "BuilderCreated"
      BY <1>7 DEF WritePack, Shape
    <2>2. /\ state \in [Packages -> {"Initial", "BuilderCreated", "Finalized", "FileWritten"}]
          /\ k \in 1..(Len(Packs) + 1)
      BY DEF TypeOK
    <2>3. ASSUME k \in DOMAIN Packs PROVE Shape'
      <3>1. state[Packs[k]] = "BuilderCreated"
        BY <2>1, <2>2, <2>3
      <3>2. CASE pc' = "done"
        BY <1>7, <2>1, <2>3, <3>1, <3>2, FailShape DEF WritePack, WriteToFile, Raise, Continue, pkg
      <3>3. CASE pc' # "done"
        <4>1. /\ state' = [state EXCEPT ![Packs[k]] = "FileWritten"]
              /\ pc' = "writePack" /\ k' = k + 1 /\ UNCHANGED <<options, error, override, schema>>
          BY <1>7, <2>1, <2>3, <3>1, <3>3 DEF WritePack, WriteToFile, Raise, Continue
        <4>2. Is("split")' = Is("split") /\ Written' = Written
          BY <4>1, OptionsKept
        <4>3. \A i \in DOMAIN Packs : state'[Packs[i]] = IF i < k + 1 THEN "FileWritten" ELSE "BuilderCreated"
          BY <2>1, <2>2, <2>3, <4>1, LoopNext, PackageFacts
        <4>4. state'[Fat] = "FileWritten" /\ state'[Main] = state[Main]
          BY <2>1, <2>2, <2>3, <4>1, PackageFacts
        <4> QED
          BY <2>1, <4>1, <4>2, <4>3, <4>4 DEF Shape, AfterWrite
      <3> QED
        BY <3>2, <3>3
    <2>4. ASSUME k \notin DOMAIN Packs PROVE Shape'
      <3>1. pc' = "status" /\ UNCHANGED <<options, error, state, schema, override>>
        BY <1>7, <2>4 DEF WritePack, GoTo, pkg
      <3>2. Is("split")' = Is("split") /\ Written' = Written
        BY <3>1, OptionsKept
      <3>3. \A p \in PackSet : state[p] = "FileWritten"
        BY <2>1, <2>4, LoopEnd, PacksFacts
      <3>4. \A p \in Written : state[p] = "FileWritten"
        BY <2>1, <3>3, SplitFacts
      <3> QED
        BY <2>1, <3>1, <3>2, <3>4 DEF Shape, AfterWrite
    <2> QED
      BY <2>3, <2>4
  <1>8. CASE pc \in AfterWrite
    <2>1. /\ error = "none" /\ override \subseteq PackSet
          /\ \A p \in Written : state[p] = "FileWritten"
          /\ pc \in {"statusFat", "statusPack", "logPack", "mapPack"} => Is("split")
          /\ pc \in {"statusFat", "statusPack"} => "status" \in readers
      BY <1>8 DEF Shape, AfterWrite
    <2>2. state[Main] \in {"Finalized", "FileWritten"} /\ Resolves(Main, override)
      <3>1. schema[Main] = IF options.permission = "none" THEN "none" ELSE "input"
        BY <1>8 DEF Shape, AfterWrite
      <3>2. Is("split") => state[Main] = "Finalized"
        BY <1>8 DEF Shape, AfterWrite
      <3> QED
        BY <2>1, <3>1, <3>2, PackageFacts, SplitFacts DEF Resolves, Refers
    <2>3. state[Target] = "FileWritten"
      BY <2>1, WrittenFacts
    <2>4. Is("split") => state[Fat] = "FileWritten" /\ \A i \in DOMAIN Packs : state[Packs[i]] = "FileWritten"
      BY <2>1, SplitFacts, PackageFacts
    <2>5. [state EXCEPT ![Main] = IF @ = "BuilderCreated" THEN "Finalized" ELSE @] = state
      BY <2>2, ReadKeeps, PackageFacts
    <2>6. CASE ReadMain \/ BuildMain \/ BuildFat \/ BuildPack \/ AddReverseMap \/ WriteTarget \/ WritePack
      BY <1>8, <2>6 DEF ReadMain, BuildMain, BuildFat, BuildPack, AddReverseMap, WriteTarget, WritePack, AfterWrite
    <2>7. CASE ReportMain
      <3>1. CASE pc' = "done"
        BY <2>1, <2>2, <2>7, <3>1, FailShape DEF ReportMain, Read, ReadWith, Raise, GoTo
      <3>2. CASE pc' # "done"
        <4>1. /\ state' = [state EXCEPT ![Main] = IF @ = "BuilderCreated" THEN "Finalized" ELSE @]
              /\ UNCHANGED <<schema, override>>
              /\ \/ GoTo("validate") /\ UNCHANGED readers
                 \/ Is("split") /\ GoTo("statusFat") /\ readers' = {"status"}
          BY <2>2, <2>7, <3>2 DEF ReportMain, Read, ReadWith, Raise
        <4>2. state' = state /\ UNCHANGED <<schema, override>>
          BY <2>5, <4>1
        <4>3. CASE GoTo("validate")
          BY <1>8, <2>1, <4>2, <4>3, ReadShape DEF GoTo, AfterWrite
        <4>4. CASE Is("split") /\ GoTo("statusFat") /\ readers' = {"status"}
          BY <1>8, <2>1, <4>2, <4>4, ReadShape DEF GoTo, AfterWrite
        <4> QED
          BY <4>1, <4>3, <4>4
      <3> QED
        BY <3>1, <3>2
    <2>8. CASE Validate \/ DumpSchema
      <3>1. CASE pc' = "done"
        BY <2>1, <2>2, <2>8, <3>1, FailShape DEF Validate, DumpSchema, Read, ReadWith, Raise, GoTo
      <3>2. CASE pc' # "done"
        <4>1. /\ pc' \in {"log", "map"} /\ UNCHANGED <<options, schema, override, error>>
              /\ \/ state' = [state EXCEPT ![Main] = IF @ = "BuilderCreated" THEN "Finalized" ELSE @]
                 \/ state' = state
          BY <2>1, <2>2, <2>8, <3>2 DEF Validate, DumpSchema, Read, ReadWith, Raise, GoTo, pkg
        <4> QED
          BY <1>8, <2>1, <2>5, <4>1, ReadShape DEF AfterWrite
      <3> QED
        BY <3>1, <3>2
    <2>9. CASE ReportFat
      <3>1. pc = "statusFat" /\ state[Fat] = "FileWritten" /\ Resolves(Fat, override)
        BY <2>1, <2>4, <2>9, PackageFacts DEF ReportFat, Resolves, Refers
      <3>2. CASE pc' = "done"
        BY <2>1, <2>9, <3>1, <3>2, FailShape DEF ReportFat, Report, ReadWith, Raise, GoTo
      <3>3. CASE pc' # "done"
        <4>1. /\ pc' = "statusPack" /\ UNCHANGED <<options, schema, override, error, readers>>
              /\ state' = [state EXCEPT ![Fat] = IF @ = "BuilderCreated" THEN "Finalized" ELSE @]
          BY <2>1, <2>9, <3>1, <3>3 DEF ReportFat, Report, ReadWith, Raise, GoTo
        <4>2. state' = state
          BY <3>1, <4>1, ReadKeeps, PackageFacts
        <4> QED
          BY <1>8, <2>1, <3>1, <4>1, <4>2, ReadShape DEF AfterWrite
      <3> QED
        BY <3>2, <3>3
    <2>10. CASE ReportPack /\ k \in DOMAIN Packs
      <3>1. /\ pc = "statusPack" /\ state[Packs[k]] = "FileWritten"
            /\ Resolves(Packs[k], Overridden(Packs[k])) /\ Overridden(Packs[k]) \subseteq PackSet
        BY <2>1, <2>4, <2>10, PackageFacts DEF ReportPack, Resolves, Overridden
      <3>2. CASE pc' = "done"
        BY <2>1, <2>10, <3>1, <3>2, FailShape DEF ReportPack, Report, ReadWith, Raise, Continue
      <3>3. CASE pc' # "done"
        <4>1. /\ pc' = "statusPack" /\ UNCHANGED <<options, schema, error, readers>>
              /\ override' = Overridden(Packs[k])
              /\ state' = [state EXCEPT ![Packs[k]] = IF @ = "BuilderCreated" THEN "Finalized" ELSE @]
          BY <2>1, <2>10, <3>1, <3>3 DEF ReportPack, Report, ReadWith, Raise, Continue
        <4>2. state' = state
          BY <2>10, <3>1, <4>1, ReadKeeps, PackageFacts
        <4> QED
          BY <1>8, <2>1, <3>1, <4>1, <4>2, ReadShape DEF AfterWrite
      <3> QED
        BY <3>2, <3>3
    <2>11. CASE ReportPack /\ k \notin DOMAIN Packs
      <3>1. pc' = "validate" /\ UNCHANGED <<options, schema, state, override, error>>
        BY <2>11 DEF ReportPack, GoTo, pkg
      <3> QED
        BY <1>8, <2>1, <3>1, ReadShape DEF AfterWrite
    <2>12. CASE LogTarget \/ MapTarget
      <3>1. /\ UNCHANGED <<options, schema, state, override>>
            /\ \/ pc' = "done" /\ error' = "library"
               \/ /\ error' = error /\ pc' \in {"logPack", "dump", "mapPack", "done"}
                  /\ pc' \in {"logPack", "mapPack"} => Is("split")
        BY <2>3, <2>12 DEF LogTarget, MapTarget, Describe, GoTo, Raise, pkg
      <3> QED
        BY <1>8, <2>1, <3>1, ReadShape, FailShape DEF AfterWrite
    <2>13. CASE LogPack \/ MapPack
      <3>1. /\ UNCHANGED <<options, schema, state, override>>
            /\ \/ pc' = "done" /\ error' = "library"
               \/ error' = error /\ (pc' = pc \/ pc' \in {"dump", "done"})
        <4>1. CASE k \in DOMAIN Packs
          <5>1. state[Packs[k]] = "FileWritten"
            BY <2>1, <2>4, <2>13, <4>1 DEF LogPack, MapPack
          <5> QED
            BY <2>13, <4>1, <5>1 DEF LogPack, MapPack, Describe, GoTo, Continue, Raise, pkg
        <4>2. CASE k \notin DOMAIN Packs
          BY <2>13, <4>2 DEF LogPack, MapPack, GoTo, pkg
        <4> QED
          BY <4>1, <4>2
      <3>2. pc \in {"logPack", "mapPack"}
        BY <2>13 DEF LogPack, MapPack
      <3> QED
        BY <1>8, <2>1, <3>1, <3>2, ReadShape, FailShape DEF AfterWrite
    <2>14. CASE UNCHANGED vars
      BY <1>8, <2>1, <2>14, ReadShape DEF vars
    <2> QED
      BY <2>6, <2>7, <2>8, <2>9, <2>10, <2>11, <2>12, <2>13, <2>14 DEF Next, Terminated
  <1>9. CASE UNCHANGED vars
    <2>1. Is("split")' = Is("split") /\ Written' = Written
      BY <1>9, OptionsKept DEF vars
    <2> QED
      BY <1>9, <2>1 DEF vars, Shape, AfterWrite
  <1> QED
    BY <1>1, <1>2, <1>3, <1>4, <1>5, <1>6, <1>7, <1>8, <1>9
    DEF Next, Terminated, AfterWrite, ReportMain, ReportFat, ReportPack, Validate, LogTarget, LogPack,
        DumpSchema, MapTarget, MapPack

-----------------------------------------------------------------------------
LEMMA FailHolds ==
  ASSUME pc' = "done", error' = "library"
  PROVE  Covers' /\ Holds'
  BY DEF Covers, Holds, Succeeded, AfterWrite

\* The steps of a build that has not failed do not go back.
Early == {"buildMain", "readMain", "buildFat", "buildPack", "reverse"}
Late  == {"write", "writePack"} \cup AfterWrite

LEMMA CoversStep == TypeOK /\ Shape /\ Shape' /\ Covers /\ [Next]_vars => Covers'
  <1> SUFFICES ASSUME TypeOK, Shape, Shape', Covers, [Next]_vars PROVE Covers'
    OBVIOUS
  <1>1. CASE AddReverseMap
    <2>1. /\ pc = "reverse" /\ covered = {} /\ \A p \in Written : state[p] = "BuilderCreated"
      BY <1>1 DEF AddReverseMap, Shape, Covers
    <2>2. Written \subseteq builder /\ Target \in builder
      BY <2>1, WrittenFacts DEF TypeOK
    <2>3. CASE pc' = "done"
      BY <1>1, <2>2, <2>3, FailHolds DEF AddReverseMap, Raise, GoTo
    <2>4. CASE pc' # "done"
      <3>1. /\ pc' = "write" /\ options' = options
            /\ covered' = IF Is("reverse") THEN Written ELSE {}
        BY <1>1, <2>1, <2>2, <2>4 DEF AddReverseMap, Raise, GoTo
      <3>2. Is("reverse")' = Is("reverse") /\ Written' = Written
        BY <3>1, OptionsKept
      <3> QED
        BY <3>1, <3>2 DEF Covers, AfterWrite, Succeeded
    <2> QED
      BY <2>3, <2>4
  <1>2. ASSUME UNCHANGED <<covered, options>>,
               \/ pc' = "done" /\ error' # "none"
               \/ pc \in Early /\ pc' \in Early
               \/ pc \in Late /\ (pc' \in Late \/ pc' = "done")
               \/ UNCHANGED <<pc, error>>
        PROVE  Covers'
    <2>1. Is("reverse")' = Is("reverse") /\ Written' = Written
      BY <1>2, OptionsKept
    <2> QED
      BY <1>2, <2>1 DEF Covers, Early, Late, AfterWrite, Succeeded
  <1> USE DEF Early, Late, AfterWrite, Raise, GoTo, Continue, Refuse
  <1>3. CASE BuildMain
    BY <1>2, <1>3 DEF BuildMain, Build
  <1>4. CASE ReadMain
    BY <1>2, <1>4 DEF ReadMain, Read, ReadWith
  <1>5. CASE BuildFat
    BY <1>2, <1>5 DEF BuildFat, Build
  <1>6. CASE BuildPack
    BY <1>2, <1>6 DEF BuildPack, Build
  <1>7. CASE WriteTarget
    BY <1>2, <1>7 DEF WriteTarget, WriteToFile
  <1>8. CASE WritePack
    BY <1>2, <1>8 DEF WritePack, WriteToFile
  <1>9. CASE ReportMain
    BY <1>2, <1>9 DEF ReportMain, Read, ReadWith
  <1>10. CASE ReportFat
    BY <1>2, <1>10 DEF ReportFat, Report, ReadWith
  <1>11. CASE ReportPack
    BY <1>2, <1>11 DEF ReportPack, Report, ReadWith
  <1>12. CASE Validate \/ DumpSchema
    BY <1>2, <1>12 DEF Validate, DumpSchema, Read, ReadWith
  <1>13. CASE LogTarget \/ LogPack
    BY <1>2, <1>13 DEF LogTarget, LogPack, Describe
  <1>14. CASE MapTarget \/ MapPack
    BY <1>2, <1>14 DEF MapTarget, MapPack, Describe
  <1>15. CASE UNCHANGED vars
    BY <1>2, <1>15 DEF vars
  <1> QED
    BY <1>1, <1>3, <1>4, <1>5, <1>6, <1>7, <1>8, <1>9, <1>10, <1>11, <1>12, <1>13, <1>14, <1>15
    DEF Next, Terminated

-----------------------------------------------------------------------------
LEMMA RequestFacts ==
  RequestOf(options) = IF Is("mapping") THEN Pri(Written) \cup Maps(Written) ELSE Pri(Written)
  <1>1. ASSUME NEW W
        PROVE  /\ [package : W, kind : {"pri"}] = Pri(W)
               /\ [package : W, kind : {"pri", "map"}] = Pri(W) \cup Maps(W)
    <2>1. ASSUME NEW K, NEW f \in [package : W, kind : K]
          PROVE  f = [package |-> f.package, kind |-> f.kind] /\ f.package \in W /\ f.kind \in K
      OBVIOUS
    <2>2. ASSUME NEW K, NEW p \in W, NEW x \in K
          PROVE  [package |-> p, kind |-> x] \in [package : W, kind : K]
      OBVIOUS
    <2>3. [package : W, kind : {"pri"}] = Pri(W)
      <3>1. ASSUME NEW f \in [package : W, kind : {"pri"}] PROVE f \in Pri(W)
        BY <2>1 DEF Pri
      <3>2. ASSUME NEW f \in Pri(W) PROVE f \in [package : W, kind : {"pri"}]
        BY <2>2 DEF Pri
      <3> QED
        BY <3>1, <3>2
    <2>4. [package : W, kind : {"pri", "map"}] = Pri(W) \cup Maps(W)
      <3>1. ASSUME NEW f \in [package : W, kind : {"pri", "map"}] PROVE f \in Pri(W) \cup Maps(W)
        BY <2>1 DEF Pri, Maps
      <3>2. ASSUME NEW f \in Pri(W) \cup Maps(W) PROVE f \in [package : W, kind : {"pri", "map"}]
        BY <2>2 DEF Pri, Maps
      <3> QED
        BY <3>1, <3>2
    <2> QED
      BY <2>3, <2>4
  <1> QED
    BY <1>1 DEF RequestOf, Is, Written

LEMMA FilesGrow ==
  ASSUME NEW S, NEW p
  PROVE  /\ Pri(S \cup {p}) = Pri(S) \cup {[package |-> p, kind |-> "pri"]}
         /\ Maps(S \cup {p}) = Maps(S) \cup {[package |-> p, kind |-> "map"]}
         /\ Pri({p}) = {[package |-> p, kind |-> "pri"]}
         /\ Maps({p}) = {[package |-> p, kind |-> "map"]}
  BY DEF Pri, Maps

LEMMA HoldsStep == TypeOK /\ Shape /\ Shape' /\ Holds /\ [Next]_vars => Holds'
  <1> SUFFICES ASSUME TypeOK, Shape, Shape', Holds, [Next]_vars PROVE Holds'
    OBVIOUS
  <1>a. k \in DOMAIN Packs => Upto(k + 1) = Upto(k) \cup {Packs[k]}
    BY UptoFacts
  <1>b. k \notin DOMAIN Packs => Upto(k) = {Fat} \cup PackSet
    BY UptoFacts DEF TypeOK
  <1>1. ASSUME UNCHANGED <<files, options>>,
               pc \in Early /\ pc' \in Early \cup {"write"}
        PROVE  Holds'
    BY <1>1 DEF Holds, Early, AfterWrite, Succeeded
  <1>2. ASSUME UNCHANGED <<files, options>>,
               pc \in AfterWrite \ {"mapPack"}, pc' \in AfterWrite \ {"mapPack"}
        PROVE  Holds'
    <2>1. Written' = Written
      BY <1>2, OptionsKept
    <2> QED
      BY <1>2, <2>1 DEF Holds, AfterWrite, Succeeded, Pri
  <1> USE DEF Raise, GoTo, Continue, Refuse
  <1>3. CASE BuildMain
    BY <1>1, <1>3, FailHolds DEF BuildMain, Build, Early, Shape
  <1>4. CASE ReadMain
    BY <1>1, <1>4, FailHolds DEF ReadMain, Read, ReadWith, Early, Shape
  <1>5. CASE BuildFat
    BY <1>1, <1>5, FailHolds DEF BuildFat, Build, Early, Shape
  <1>6. CASE BuildPack
    BY <1>1, <1>6, FailHolds DEF BuildPack, Build, Early, Shape
  <1>7. CASE AddReverseMap
    BY <1>1, <1>7, FailHolds DEF AddReverseMap, Early, Shape
  <1>8. CASE WriteTarget
    <2>1. pc = "write" /\ files = {} /\ \A p \in Written : state[p] = "BuilderCreated"
      BY <1>8 DEF WriteTarget, Shape, Holds
    <2>2. state[Target] = "BuilderCreated"
      BY <2>1, WrittenFacts
    <2>3. CASE pc' = "done"
      BY <1>8, <2>2, <2>3, FailHolds DEF WriteTarget, WriteToFile, Shape
    <2>4. CASE pc' # "done"
      <3>1. /\ files' = files \cup {[package |-> Target, kind |-> "pri"]} /\ k' = 1 /\ options' = options
            /\ pc' = IF Is("split") THEN "writePack" ELSE "status"
        BY <1>8, <2>2, <2>4 DEF WriteTarget, WriteToFile
      <3>2. files' = Pri({Target})
        BY <2>1, <3>1, FilesGrow
      <3>3. Is("split") => Pri({Target}) = Pri(Upto(1))
        BY UptoFacts, SplitFacts
      <3>4. ~Is("split") => Pri({Target}) = Pri(Written)
        BY SplitFacts
      <3>5. Pri(Upto(k))' = Pri(Upto(1)) /\ Pri(Written)' = Pri(Written)
        BY <3>1, OptionsKept DEF Pri, Upto
      <3> QED
        BY <3>1, <3>2, <3>3, <3>4, <3>5 DEF Holds, AfterWrite, Succeeded
    <2> QED
      BY <2>3, <2>4
  <1>9. CASE WritePack
    <2>1. /\ pc = "writePack" /\ files = Pri(Upto(k)) /\ Is("split") /\ error = "none"
          /\ \A i \in DOMAIN Packs : state[Packs[i]] = IF i < k THEN "FileWritten" ELSE "BuilderCreated"
      BY <1>9 DEF WritePack, Shape, Holds
    <2>2. ASSUME k \in DOMAIN Packs PROVE Holds'
      <3>1. state[Packs[k]] = "BuilderCreated"
        BY <2>1, <2>2, PacksFacts
      <3>2. CASE pc' = "done"
        BY <1>9, <2>1, <2>2, <3>1, <3>2, FailHolds DEF WritePack, WriteToFile
      <3>3. CASE pc' # "done"
        <4>1. /\ files' = files \cup {[package |-> Packs[k], kind |-> "pri"]}
              /\ pc' = "writePack" /\ k' = k + 1
          BY <1>9, <2>1, <2>2, <3>1, <3>3 DEF WritePack, WriteToFile
        <4>2. files' = Pri(Upto(k + 1))
          <5>1. Pri(Upto(k) \cup {Packs[k]}) = Pri(Upto(k)) \cup {[package |-> Packs[k], kind |-> "pri"]}
            BY FilesGrow
          <5>2. Upto(k + 1) = Upto(k) \cup {Packs[k]}
            BY <1>a, <2>2
          <5> QED
            BY <2>1, <4>1, <5>1, <5>2
        <4>3. Pri(Upto(k))' = Pri(Upto(k + 1))
          BY <4>1 DEF Pri, Upto
        <4> QED
          BY <4>1, <4>2, <4>3 DEF Holds, AfterWrite, Succeeded
      <3> QED
        BY <3>2, <3>3
    <2>3. ASSUME k \notin DOMAIN Packs PROVE Holds'
      <3>1. pc' = "status" /\ UNCHANGED <<files, options>>
        BY <1>9, <2>3 DEF WritePack
      <3>2. files' = Pri(Written)'
        BY <1>b, <2>1, <2>3, <3>1, SplitFacts, OptionsKept DEF Pri
      <3> QED
        BY <3>1, <3>2 DEF Holds, AfterWrite, Succeeded
    <2> QED
      BY <2>2, <2>3
  <1>10. CASE ReportMain
    BY <1>2, <1>10, FailHolds DEF ReportMain, Read, ReadWith, AfterWrite, Shape
  <1>11. CASE ReportFat
    BY <1>2, <1>11, FailHolds DEF ReportFat, Report, ReadWith, AfterWrite, Shape
  <1>12. CASE ReportPack
    BY <1>2, <1>12, FailHolds DEF ReportPack, Report, ReadWith, AfterWrite, Shape
  <1>13. CASE Validate \/ DumpSchema
    BY <1>2, <1>13, FailHolds DEF Validate, DumpSchema, Read, ReadWith, AfterWrite, Shape
  <1>14. CASE LogTarget \/ LogPack
    <2>1. files \cup {} = files
      OBVIOUS
    <2> QED
      BY <1>2, <1>14, <2>1, FailHolds DEF LogTarget, LogPack, Describe, AfterWrite, Shape
  <1>15. CASE MapTarget
    <2>1. pc = "map" /\ files = Pri(Written) /\ error = "none" /\ \A p \in Written : state[p] = "FileWritten"
      BY <1>15 DEF MapTarget, Shape, Holds, AfterWrite
    <2>2. state[Target] = "FileWritten"
      BY <2>1, WrittenFacts
    <2>3. CASE pc' = "done" /\ error' = "library"
      BY <2>3, FailHolds
    <2>4. CASE ~(pc' = "done" /\ error' = "library") /\ ~Is("mapping")
      <3>1. pc' = "done" /\ UNCHANGED <<files, options>>
        BY <1>15, <2>4 DEF MapTarget
      <3> QED
        BY <2>1, <2>4, <3>1, RequestFacts, OptionsKept DEF Holds, AfterWrite, Succeeded
    <2>5. CASE ~(pc' = "done" /\ error' = "library") /\ Is("mapping")
      <3>1. /\ files' = files \cup {[package |-> Target, kind |-> "map"]}
            /\ pc' = (IF Is("split") THEN "mapPack" ELSE "done") /\ k' = 1 /\ options' = options
        BY <1>15, <2>2, <2>5 DEF MapTarget, Describe, MapFile
      <3>2. files' = Pri(Written) \cup Maps({Target})
        BY <2>1, <3>1, FilesGrow
      <3>3. Is("mapping")' = Is("mapping") /\ RequestOf(options)' = RequestOf(options) /\ Pri(Written)' = Pri(Written)
        BY <3>1, OptionsKept DEF Pri
      <3>4. Maps(Upto(k))' = Maps(Upto(1))
        BY <3>1 DEF Maps, Upto
      <3>5. Is("split") => Maps({Target}) = Maps(Upto(1))
        BY UptoFacts, SplitFacts
      <3>6. ~Is("split") => Pri(Written) \cup Maps({Target}) = RequestOf(options)
        BY <2>5, SplitFacts, RequestFacts
      <3> QED
        BY <2>5, <3>1, <3>2, <3>3, <3>4, <3>5, <3>6 DEF Holds, AfterWrite, Succeeded
    <2> QED
      BY <2>3, <2>4, <2>5
  <1>16. CASE MapPack
    <2>1. /\ pc = "mapPack" /\ files = Pri(Written) \cup Maps(Upto(k)) /\ Is("mapping") /\ Is("split")
          /\ error = "none" /\ \A p \in Written : state[p] = "FileWritten"
      BY <1>16 DEF MapPack, Shape, Holds, AfterWrite
    <2>2. ASSUME k \in DOMAIN Packs PROVE Holds'
      <3>1. state[Packs[k]] = "FileWritten"
        BY <2>1, <2>2, SplitFacts, PackageFacts
      <3>2. CASE pc' = "done"
        BY <1>16, <2>1, <2>2, <3>1, <3>2, FailHolds DEF MapPack, Describe
      <3>3. CASE pc' # "done"
        <4>1. /\ files' = files \cup {[package |-> Packs[k], kind |-> "map"]}
              /\ pc' = "mapPack" /\ k' = k + 1 /\ options' = options
          BY <1>16, <2>1, <2>2, <3>1, <3>3 DEF MapPack, Describe, MapFile
        <4>2. files' = Pri(Written) \cup Maps(Upto(k + 1))
          <5>1. Maps(Upto(k) \cup {Packs[k]}) = Maps(Upto(k)) \cup {[package |-> Packs[k], kind |-> "map"]}
            BY FilesGrow
          <5>2. Upto(k + 1) = Upto(k) \cup {Packs[k]}
            BY <1>a, <2>2
          <5> QED
            BY <2>1, <4>1, <5>1, <5>2
        <4>3. Maps(Upto(k))' = Maps(Upto(k + 1)) /\ Pri(Written)' = Pri(Written) /\ Is("mapping")' = Is("mapping")
          BY <4>1, OptionsKept DEF Pri, Maps, Upto
        <4> QED
          BY <2>1, <4>1, <4>2, <4>3 DEF Holds, AfterWrite, Succeeded
      <3> QED
        BY <3>2, <3>3
    <2>3. ASSUME k \notin DOMAIN Packs PROVE Holds'
      <3>1. pc' = "done" /\ UNCHANGED <<files, options>>
        BY <1>16, <2>3 DEF MapPack
      <3>2. files' = RequestOf(options)'
        BY <1>b, <2>1, <2>3, <3>1, SplitFacts, RequestFacts, OptionsKept
      <3> QED
        BY <3>1, <3>2 DEF Holds, AfterWrite, Succeeded
    <2> QED
      BY <2>2, <2>3
  <1>17. CASE UNCHANGED vars
    <2>1. /\ UNCHANGED <<pc, k, files, error>> /\ RequestOf(options)' = RequestOf(options)
          /\ Is("mapping")' = Is("mapping") /\ Pri(Written)' = Pri(Written) /\ Maps(Upto(k))' = Maps(Upto(k))
          /\ Pri(Upto(k))' = Pri(Upto(k))
      BY <1>17, OptionsKept DEF vars, Pri, Maps, Upto
    <2> QED
      BY <2>1 DEF Holds, AfterWrite, Succeeded
  <1> QED
    BY <1>3, <1>4, <1>5, <1>6, <1>7, <1>8, <1>9, <1>10, <1>11, <1>12, <1>13, <1>14, <1>15, <1>16, <1>17
    DEF Next, Terminated

-----------------------------------------------------------------------------
\* Every call produces a file of the request or none, whether or not it fails.
LEMMA FileStep ==
  ASSUME TypeOK, Shape, Holds, [Next]_vars
  PROVE  /\ options' = options
         /\ files' = files \/ \E f \in RequestOf(options) : files' = files \cup {f}
  <1>1. ASSUME NEW p \in Written
        PROVE  /\ [package |-> p, kind |-> "pri"] \in RequestOf(options)
               /\ Is("mapping") => [package |-> p, kind |-> "map"] \in RequestOf(options)
    BY <1>1, RequestFacts DEF Pri, Maps
  <1>2. Target \in Written /\ (Is("split") => \A i \in DOMAIN Packs : Packs[i] \in Written)
    BY WrittenFacts, SplitFacts, PackageFacts
  <1>3. /\ pc \in {"writePack", "mapPack"} => Is("split")
        /\ pc = "mapPack" => Is("mapping")
    BY DEF Shape, Holds
  <1>4. files \cup {} = files
    OBVIOUS
  <1> USE DEF Raise, GoTo, Continue, Refuse, pkg
  <1>5. CASE BuildMain \/ BuildFat \/ BuildPack
    BY <1>5 DEF BuildMain, BuildFat, BuildPack, Build
  <1>6. CASE ReadMain \/ ReportMain \/ Validate \/ DumpSchema
    BY <1>6 DEF ReadMain, ReportMain, Validate, DumpSchema, Read, ReadWith
  <1>7. CASE ReportFat \/ ReportPack
    BY <1>7 DEF ReportFat, ReportPack, Report, ReadWith
  <1>8. CASE AddReverseMap
    BY <1>8 DEF AddReverseMap
  <1>9. CASE WriteTarget
    <2>1. options' = options /\ (files' = files \/ files' = files \cup {[package |-> Target, kind |-> "pri"]})
      BY <1>9 DEF WriteTarget, WriteToFile
    <2> QED
      BY <1>1, <1>2, <2>1
  <1>10. CASE WritePack
    <2>1. /\ options' = options /\ pc = "writePack"
          /\ \/ files' = files
             \/ k \in DOMAIN Packs /\ files' = files \cup {[package |-> Packs[k], kind |-> "pri"]}
      BY <1>10 DEF WritePack, WriteToFile
    <2> QED
      BY <1>1, <1>2, <1>3, <2>1
  <1>11. CASE LogTarget \/ LogPack
    BY <1>4, <1>11 DEF LogTarget, LogPack, Describe
  <1>12. CASE MapTarget
    <2>1. /\ options' = options
          /\ \/ files' = files
             \/ Is("mapping") /\ files' = files \cup {[package |-> Target, kind |-> "map"]}
      BY <1>12 DEF MapTarget, Describe, MapFile
    <2> QED
      BY <1>1, <1>2, <2>1
  <1>13. CASE MapPack
    <2>1. /\ options' = options /\ pc = "mapPack"
          /\ \/ files' = files
             \/ k \in DOMAIN Packs /\ files' = files \cup {[package |-> Packs[k], kind |-> "map"]}
      BY <1>13 DEF MapPack, Describe, MapFile
    <2> QED
      BY <1>1, <1>2, <1>3, <2>1
  <1>14. CASE UNCHANGED vars
    BY <1>14 DEF vars
  <1> QED
    BY <1>5, <1>6, <1>7, <1>8, <1>9, <1>10, <1>11, <1>12, <1>13, <1>14 DEF Next, Terminated

(***************************************************************************)
(* Files appear when all packages have been built, and from then on the     *)
(* packages that are written only go forward.                               *)
(***************************************************************************)
Ready == \A p \in Written : state[p] \in {"BuilderCreated", "FileWritten"}

LEMMA ReadyWhenLate == TypeOK /\ Shape /\ pc \in Late => Ready
  <1> SUFFICES ASSUME TypeOK, Shape, pc \in Late PROVE Ready
    OBVIOUS
  <1>1. CASE pc = "writePack"
    <2>1. /\ Is("split") /\ state[Fat] = "FileWritten"
          /\ \A i \in DOMAIN Packs : state[Packs[i]] \in {"BuilderCreated", "FileWritten"}
      BY <1>1 DEF Shape
    <2> QED
      BY <2>1, SplitFacts, PacksFacts DEF Ready
  <1>2. CASE pc \in {"write"} \cup AfterWrite
    BY <1>2 DEF Shape, Ready
  <1> QED
    BY <1>1, <1>2 DEF Late

LEMMA ReadyStep == TypeOK /\ Shape /\ Holds /\ NoFileUnlessBuilt /\ [Next]_vars /\ TypeOK' /\ Shape' /\ Holds'
                     => NoFileUnlessBuilt'
  <1> SUFFICES ASSUME TypeOK, Shape, Holds, NoFileUnlessBuilt, [Next]_vars, TypeOK', Shape', Holds', files' # {}
               PROVE  Ready'
    BY DEF NoFileUnlessBuilt, Ready
  <1>1. Written' = Written
    BY FileStep, OptionsKept
  <1>2. CASE pc' \in Late
    <2>1. (TypeOK /\ Shape /\ pc \in Late => Ready)'
      BY ReadyWhenLate, PTL
    <2> QED
      BY <1>2, <2>1 DEF Late, AfterWrite
  <1>3. CASE pc' \in Early
    BY <1>3 DEF Holds, Early
  <1>4. CASE pc' = "done" /\ pc \in Late
    <2>1. Ready
      BY <1>4, ReadyWhenLate
    <2>2. CASE pc \in {"write", "writePack"}
      <3>1. UNCHANGED state
        BY <1>4, <2>2
        DEF Next, Terminated, vars, pkg, GoTo, Continue, Raise, Refuse, BuildMain, ReadMain, BuildFat, BuildPack, AddReverseMap,
            WriteTarget, WritePack, WriteToFile, ReportMain, ReportFat, ReportPack, Validate, LogTarget, LogPack,
            DumpSchema, MapTarget, MapPack
      <3> QED
        BY <1>1, <2>1, <3>1 DEF Ready
    <2>3. CASE pc \in AfterWrite
      <3>1. \A p \in Written : p \in Packages /\ state[p] = "FileWritten"
        BY <2>3, WrittenFacts DEF Shape
      <3>2. \/ UNCHANGED state
            \/ \E q \in {Main, Fat, Packs[k]} :
                 state' = [state EXCEPT ![q] = IF @ = "BuilderCreated" THEN "Finalized" ELSE @]
        <4>1. CASE ReportMain \/ Validate \/ DumpSchema
          BY <4>1 DEF ReportMain, Validate, DumpSchema, Read, ReadWith, pkg
        <4>2. CASE ReportFat \/ ReportPack
          BY <4>2 DEF ReportFat, ReportPack, Report, ReadWith, pkg
        <4>3. CASE LogTarget \/ LogPack \/ MapTarget \/ MapPack
          BY <4>3 DEF LogTarget, LogPack, MapTarget, MapPack, Describe, Refuse, pkg
        <4>4. CASE Terminated \/ UNCHANGED vars
          BY <4>4 DEF Terminated, vars
        <4>5. ~(BuildMain \/ ReadMain \/ BuildFat \/ BuildPack \/ AddReverseMap \/ WriteTarget \/ WritePack)
          BY <2>3 DEF AfterWrite, BuildMain, ReadMain, BuildFat, BuildPack, AddReverseMap,
                      WriteTarget, WritePack
        <4> QED
          BY <1>4, <4>1, <4>2, <4>3, <4>4, <4>5 DEF Next
      <3>3. \A p \in Written : state'[p] = "FileWritten"
        <4> SUFFICES ASSUME NEW p \in Written PROVE state'[p] = "FileWritten"
          OBVIOUS
        <4>1. state[p] = "FileWritten" /\ p \in DOMAIN state
          BY <3>1 DEF TypeOK
        <4> QED
          BY <3>2, <4>1
      <3> QED
        BY <1>1, <3>3 DEF Ready
    <2> QED
      BY <1>4, <2>2, <2>3 DEF Late
  <1>5. CASE pc' = "done" /\ pc \in Early
    <2>1. UNCHANGED files
      <3> USE DEF Raise, GoTo, Continue, Refuse, pkg
      <3>1. CASE BuildMain \/ BuildFat \/ BuildPack
        BY <1>5, <3>1 DEF BuildMain, BuildFat, BuildPack, Build
      <3>2. CASE ReadMain
        BY <3>2 DEF ReadMain, Read, ReadWith
      <3>3. CASE AddReverseMap
        BY <3>3 DEF AddReverseMap
      <3> QED
        BY <1>5, <3>1, <3>2, <3>3
        DEF Early, Next, Terminated, vars, WriteTarget, WritePack, ReportMain, ReportFat, ReportPack, Validate,
            LogTarget, LogPack, DumpSchema, MapTarget, MapPack
    <2> QED
      BY <1>5, <2>1 DEF Holds, Early
  <1>6. CASE pc = "done"
    <2>1. UNCHANGED vars
      BY <1>6
      DEF Next, Terminated, BuildMain, ReadMain, BuildFat, BuildPack, AddReverseMap, WriteTarget, WritePack, ReportMain,
          ReportFat, ReportPack, Validate, LogTarget, LogPack, DumpSchema, MapTarget, MapPack
    <2> QED
      BY <1>1, <2>1 DEF vars, Ready, NoFileUnlessBuilt
  <1> QED
    BY <1>2, <1>3, <1>4, <1>5, <1>6 DEF TypeOK, Steps, Early, Late, AfterWrite

LEMMA InvStep == Inv /\ [Next]_vars => Inv'
  BY TypeStep, ShapeStep, CoversStep, HoldsStep, ReadyStep DEF Inv

LEMMA InvCorrect == Spec => []Inv
  BY InitInv, InvStep, PTL DEF Spec

-----------------------------------------------------------------------------
\* The build stays within its types, and a package has its builder exactly as
\* long as it needs it.
THEOREM TypeCorrect == Spec => []TypeOK
  <1>1. Inv => TypeOK
    BY DEF Inv
  <1> QED
    BY <1>1, InvCorrect, PTL

\* No package is called in a state it does not allow, no builder is missing and
\* no schema is used after its reader was deleted.
THEOREM CallsInOrder == Spec => []NeverMisused
  <1>1. Inv => NeverMisused
    BY DEF Inv, Shape, NeverMisused
  <1> QED
    BY <1>1, InvCorrect, PTL

\* No index file is written before every package has been built.
THEOREM FilesAfterBuilds == Spec => []NoFileUnlessBuilt
  <1>1. Inv => NoFileUnlessBuilt
    BY DEF Inv
  <1> QED
    BY <1>1, InvCorrect, PTL

\* The reverse map of a build that succeeds covers every file it wrote.
THEOREM ReverseMapWhole == Spec => []ReverseMapComplete
  <1>1. Inv => ReverseMapComplete
    BY DEF Inv, Covers, Succeeded, ReverseMapComplete
  <1> QED
    BY <1>1, InvCorrect, PTL

-----------------------------------------------------------------------------
LEMMA HoldsOrdered == TypeOK /\ Shape /\ Holds /\ (pc # "done" \/ Succeeded) => Promise!Ordered(files)
  <1> SUFFICES ASSUME TypeOK, Shape, Holds, pc # "done" \/ Succeeded PROVE Promise!Ordered(files)
    OBVIOUS
  <1>1. ASSUME NEW S, NEW T, T \subseteq S, files = Pri(S) \cup Maps(T)
        PROVE  Promise!Ordered(files)
    BY <1>1 DEF Promise!Ordered, Pri, Maps
  <1>2. Maps({}) = {} /\ Pri({}) = {}
    BY DEF Pri, Maps
  <1>3. CASE files = {}
    BY <1>3 DEF Promise!Ordered
  <1>4. CASE \E S : files = Pri(S)
    BY <1>1, <1>2, <1>4
  <1>5. CASE pc = "mapPack"
    <2>1. files = Pri(Written) \cup Maps(Upto(k)) /\ Is("split")
      BY <1>5 DEF Holds, Shape
    <2>2. Upto(k) \subseteq Written
      BY <2>1, SplitFacts, PacksFacts DEF Upto
    <2> QED
      BY <1>1, <2>1, <2>2
  <1>6. CASE Succeeded
    BY <1>1, <1>4, <1>6, RequestFacts DEF Holds
  <1> QED
    BY <1>3, <1>4, <1>5, <1>6 DEF Holds, TypeOK, Steps, AfterWrite

LEMMA PromiseInit == Init => Promise!Init
  BY DEF Init, Promise!Init, Outcome

LEMMA PromiseStep == Inv /\ Inv' /\ [Next]_vars => [Promise!Next]_<<RequestOf(options), files, Outcome>>
  <1> SUFFICES ASSUME Inv, Inv', [Next]_vars
               PROVE  Promise!Next \/ UNCHANGED <<RequestOf(options), files, Outcome>>
    OBVIOUS
  <1>1. /\ TypeOK /\ Shape /\ Holds
        /\ Holds' /\ error' \in {"none", "library"} /\ (pc' # "done" => error' = "none")
    BY DEF Inv, Shape
  <1>2. /\ RequestOf(options)' = RequestOf(options)
        /\ files' = files \/ \E f \in RequestOf(options) : files' = files \cup {f}
    BY <1>1, FileStep, OptionsKept
  <1>3. pc' # "done" \/ Succeeded' => Promise!Ordered(files')
    <2>1. (TypeOK /\ Shape /\ Holds /\ (pc # "done" \/ Succeeded) => Promise!Ordered(files))'
      BY HoldsOrdered, PTL
    <2> QED
      BY <2>1 DEF Inv, Promise!Ordered
  <1>4. CASE pc = "done"
    <2>1. UNCHANGED vars
      BY <1>4
      DEF Next, Terminated, BuildMain, ReadMain, BuildFat, BuildPack, AddReverseMap, WriteTarget, WritePack, ReportMain,
          ReportFat, ReportPack, Validate, LogTarget, LogPack, DumpSchema, MapTarget, MapPack
    <2> QED
      BY <1>2, <2>1 DEF vars, Outcome
  <1>5. CASE pc # "done" /\ pc' # "done"
    <2>1. Outcome = "building" /\ Outcome' = "building"
      BY <1>5 DEF Outcome
    <2> QED
      BY <1>2, <1>3, <1>5, <2>1 DEF Promise!Next, Promise!Produce
  <1>6. CASE pc # "done" /\ Succeeded'
    <2>1. Outcome = "building" /\ Outcome' = "built" /\ files' = RequestOf(options)
      BY <1>1, <1>2, <1>6 DEF Outcome, Succeeded, Holds
    <2> QED
      BY <1>2, <1>3, <1>6, <2>1 DEF Promise!Next, Promise!Produce, Promise!Succeed
  <1>7. CASE pc # "done" /\ pc' = "done" /\ error' = "library"
    <2>1. Outcome = "building" /\ Outcome' = "failed"
      BY <1>7 DEF Outcome
    <2> QED
      BY <1>2, <2>1 DEF Promise!Next, Promise!Fail
  <1> QED
    BY <1>1, <1>4, <1>5, <1>6, <1>7 DEF Succeeded

\* The build does what IndexBuild promises to the tool that asks for it.
THEOREM BuildIsPromised == Spec => KeepsPromise
  BY InitInv, InvCorrect, PromiseInit, PromiseStep, PTL DEF Spec, KeepsPromise, Promise!Spec
=============================================================================
