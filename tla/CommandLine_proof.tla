--------------------------- MODULE CommandLine_proof ---------------------------
(***************************************************************************)
(* Proofs that no run of makepri overwrites a file nobody agreed to lose,   *)
(* and that a successful one has forgotten no path it was given, for every  *)
(* command line, every state of the folders and everything other programs   *)
(* do meanwhile.                                                            *)
(***************************************************************************)
EXTENDS CommandLine, TLAPS

Final == {"publish", "writeDump", "writeConfiguration"}

\* The files that must not be lost, and when one of them may be.
Spared == before \ touched
Agreed(p) == p \in Spared => Given("overwrite") \/ p \in agreed

Typed ==
  /\ pc \in {"command", "options", "work", "ended"}
  /\ scenario \in Commands \cup {"None"}
  /\ DOMAIN paths = Inputs \cup Outputs
  /\ pc = "work" => scenario \in Commands /\ at \in DOMAIN Stages(scenario)

Fresh ==
  pc \in {"command", "options"} =>
    written = {} /\ at = 1 /\ \A o \in Inputs \cup Outputs : paths[o] = {}

Kept == Spared \subseteq files

\* What is written without a further question has been asked about.
Cleared ==
  /\ \A p \in paths["indexLog"] \cup paths["schemaFile"] : Agreed(p)
  /\ scenario = "Dump" => \A p \in paths["outputFile"] : Agreed(p)
  /\ scenario = "CreateConfig" => \A p \in paths["configXml"] : Agreed(p)

Wrote == pc # "ended" => \A p \in written : Agreed(p)

Inv == Typed /\ Fresh /\ Kept /\ Cleared /\ Wrote /\ AsksFirst

-----------------------------------------------------------------------------
\* Which command a stage belongs to, and that only the last one ends the work.
LEMMA StageOf ==
  ASSUME NEW c \in Commands, NEW i \in DOMAIN Stages(c)
  PROVE  /\ Stages(c)[i] \in {"output", "configuration", "log", "schemaFile", "writeLog", "writeSchema", "publish"} => c \in Builds
         /\ Stages(c)[i] = "name" => c = "New"
         /\ Stages(c)[i] \in {"dump", "writeDump"} => c = "Dump"
         /\ Stages(c)[i] \in {"configurationFile", "writeConfiguration"} => c = "CreateConfig"
         /\ Stages(c)[i] \notin Final => i + 1 \in DOMAIN Stages(c)
  <1>1. CASE c = "New"
    <2>1. Stages(c) = StagesOfNew  BY <1>1 DEF Stages
    <2> QED  BY <1>1, <2>1 DEF StagesOfNew, Builds, Final
  <1>2. CASE c \in {"Versioned", "ResourcePack"}
    <2>1. Stages(c) = StagesOfRebuild  BY <1>2 DEF Stages
    <2> QED  BY <1>2, <2>1 DEF StagesOfRebuild, Builds, Final
  <1>3. CASE c = "Dump"
    <2>1. Stages(c) = StagesOfDump  BY <1>3 DEF Stages
    <2> QED  BY <1>3, <2>1 DEF StagesOfDump, Builds, Final
  <1>4. CASE c = "CreateConfig"
    <2>1. Stages(c) = StagesOfCreateConfig  BY <1>4 DEF Stages
    <2> QED  BY <1>4, <2>1 DEF StagesOfCreateConfig, Builds, Final
  <1> QED  BY <1>1, <1>2, <1>3, <1>4 DEF Commands

LEMMA BuildStage == TheBuild \in DOMAIN Stages("New")
  <1>1. Stages("New") = StagesOfNew  BY DEF Stages
  <1>2. 10 \in DOMAIN Stages("New") /\ Stages("New")[10] = "build"  BY <1>1 DEF StagesOfNew
  <1> QED  BY <1>2 DEF TheBuild

LEMMA FirstStage ==
  ASSUME NEW c \in Commands
  PROVE  1 \in DOMAIN Stages(c)
  <1>1. Stages(c) \in {StagesOfNew, StagesOfRebuild, StagesOfDump, StagesOfCreateConfig}  BY DEF Stages, Commands
  <1> QED  BY <1>1 DEF StagesOfNew, StagesOfRebuild, StagesOfDump, StagesOfCreateConfig
-----------------------------------------------------------------------------
\* Consent is not taken back, and what others have touched stays touched.
LEMMA AgreedStays ==
  ASSUME NEW p, Agreed(p), inputArgs' = inputArgs, before' = before, touched \subseteq touched', agreed \subseteq agreed'
  PROVE  Agreed(p)'
  BY DEF Agreed, Spared, Given

\* A step of the work that writes only what may be lost.
LEMMA WorkStep ==
  ASSUME Inv, pc = "work", UNCHANGED arguments, before' = before, touched \subseteq touched', agreed \subseteq agreed',
         \A p \in written' : p \in written \/ Agreed(p)', Typed', Kept', Cleared', pc' \in {"work", "ended"}
  PROVE  Inv'
  <1>1. \A p \in written' : Agreed(p)'
    BY AgreedStays DEF Inv, Wrote, arguments
  <1>2. AsksFirst'
    BY <1>1 DEF AsksFirst, Agreed, Spared, Unasked
  <1> QED  BY <1>1, <1>2 DEF Inv, Wrote, Fresh

LEMMA ClearedStays ==
  ASSUME Inv, UNCHANGED arguments, before' = before, touched \subseteq touched', agreed \subseteq agreed', paths' = paths
  PROVE  Cleared'
  BY AgreedStays DEF Inv, Cleared, arguments

\* The work goes from stage to stage, or ends.
LEMMA Stepped ==
  ASSUME Inv, NEW stage, stage \notin Final, Working(stage), scenario' = scenario, DOMAIN paths' = DOMAIN paths,
         Proceed \/ \E r : End(r)
  PROVE  Typed' /\ pc' \in {"work", "ended"}
  <1>1. scenario \in Commands /\ at \in DOMAIN Stages(scenario) /\ Stages(scenario)[at] = stage /\ pc = "work"
    BY DEF Inv, Typed, Working, Stage
  <1>2. at + 1 \in DOMAIN Stages(scenario)  BY <1>1, StageOf
  <1>3. CASE Proceed
    BY <1>1, <1>2, <1>3 DEF Proceed, Inv, Typed
  <1>4. CASE \E r : End(r)
    BY <1>4 DEF End, Inv, Typed
  <1> QED  BY <1>3, <1>4

LEMMA InputKept ==
  ASSUME Inv, pc = "work", UNCHANGED <<arguments, before, disk>>, NEW o \in Inputs, o = "configXml" => scenario # "CreateConfig",
         paths' = paths \/ \E x : paths' = [paths EXCEPT ![o] = x], Typed', pc' \in {"work", "ended"}
  PROVE  Inv'
  <1>1. \A q \in {"indexLog", "schemaFile", "outputFile"} : paths'[q] = paths[q]
    BY DEF Inputs, Outputs, Inv, Typed
  <1>2. scenario = "CreateConfig" => paths'["configXml"] = paths["configXml"]
    BY DEF Inputs, Outputs, Inv, Typed
  <1>3. Cleared'
    BY <1>1, <1>2, AgreedStays DEF Inv, Cleared, arguments, disk
  <1> QED  BY <1>3, WorkStep DEF disk, Inv, Kept, Spared

LEMMA InputStep ==
  ASSUME Inv, NEW stage, stage \notin Final, Working(stage), UNCHANGED <<arguments, before, disk>>,
         NEW o \in Inputs, o = "configXml" => scenario # "CreateConfig",
         paths' = paths \/ \E x : paths' = [paths EXCEPT ![o] = x], Proceed \/ \E r : End(r)
  PROVE  Inv'
  <1>1. DOMAIN paths' = DOMAIN paths  OBVIOUS
  <1>2. Typed' /\ pc' \in {"work", "ended"}  BY <1>1, Stepped DEF arguments
  <1> QED  BY <1>2, InputKept DEF Working

LEMMA OutputStep ==
  ASSUME Inv, NEW stage, stage \notin Final, Working(stage),
         NEW o \in {"outputFile", "indexLog", "schemaFile", "configXml"}, NEW extension, NEW default, NEW allowFolder,
         NEW overwrite \in BOOLEAN, OutputPath(o, extension, default, allowFolder, overwrite),
         (overwrite => Given("overwrite")) \/ (o = "outputFile" /\ scenario \in Builds)
  PROVE  Inv'
  <1> DEFINE given == IF Given(o) THEN Word(o).path ELSE default
             slash == Given(o) /\ Word(o).slash
             path == IF given \in DOMAIN Within THEN [default EXCEPT !.folder = Within[given]] ELSE given
             target == IF slash /\ given \notin DOMAIN Within THEN path ELSE Extended(path, extension)
  <1>1. UNCHANGED <<arguments, before, files, touched, written, used, document>>  BY DEF OutputPath
  <1>2. PICK t :
          \/ UNCHANGED paths /\ UNCHANGED agreed /\ \E r : End(r)
          \/ Initialised(o, t) /\ Proceed /\ UNCHANGED agreed /\ (overwrite \/ ~Exists(t))
          \/ Initialised(o, t) /\ Proceed /\ agreed' = agreed \cup {t}
    <2>1. \/ UNCHANGED paths /\ UNCHANGED agreed /\ \E r : End(r)
          \/ Initialised(o, target) /\ Proceed /\ UNCHANGED agreed /\ (overwrite \/ ~Exists(target))
          \/ Initialised(o, target) /\ Proceed /\ agreed' = agreed \cup {target}
      BY DEF OutputPath, Checked
    <2> QED  BY <2>1
  <1> HIDE DEF given, slash, path, target
  <1>3. pc = "work" /\ agreed \subseteq agreed' /\ DOMAIN paths' = DOMAIN paths
    BY <1>2 DEF Working, Initialised
  <1>4. Typed' /\ pc' \in {"work", "ended"}
    BY <1>1, <1>2, <1>3, Stepped DEF arguments
  <1>5. CASE UNCHANGED paths
    BY <1>1, <1>3, <1>4, <1>5, ClearedStays, WorkStep DEF Inv, Kept, Spared
  <1>6. CASE /\ Initialised(o, t)
             /\ (UNCHANGED agreed /\ (overwrite \/ ~Exists(t))) \/ agreed' = agreed \cup {t}
    <2>1. (o = "outputFile" /\ scenario \in Builds) \/ Agreed(t)'
      <3>1. CASE Given("overwrite")
        BY <1>1, <3>1 DEF Agreed, Given, arguments
      <3>2. CASE ~Exists(t)
        BY <1>1, <3>2 DEF Agreed, Spared, Exists, Inv, Kept
      <3>3. CASE agreed' = agreed \cup {t}
        BY <3>3 DEF Agreed
      <3>4. CASE ~overwrite /\ UNCHANGED agreed
        BY <1>6, <3>2, <3>3, <3>4
      <3>5. CASE ~(overwrite => Given("overwrite"))
        BY <3>5
      <3> QED  BY <1>6, <3>1, <3>2, <3>3, <3>4, <3>5
    <2>2. \A q \in Inputs \cup Outputs : paths'[q] = IF q = o THEN {t} ELSE paths[q]
      BY <1>6 DEF Initialised, Inv, Typed
    <2>3. \A q \in Inputs \cup Outputs : \A p \in paths'[q] : p \in paths[q] \/ (q = o /\ p = t)
      <3> TAKE q \in Inputs \cup Outputs
      <3> QED  BY <2>2
    <2>4. scenario' = scenario /\ (scenario \in Builds => scenario \notin {"Dump", "CreateConfig"})
      BY <1>1 DEF Builds, arguments
    <2>5. \A p : Agreed(p) => Agreed(p)'
      BY <1>1, <1>3, AgreedStays DEF arguments
    <2>6. Cleared'
      <3>1. \A q \in Inputs \cup Outputs : \A p \in paths'[q] : Agreed(p)' \/ p \in paths[q] \/ (q = o /\ o = "outputFile" /\ scenario \in Builds)
        BY <2>1, <2>3
      <3>2. {"indexLog", "schemaFile", "outputFile", "configXml"} \subseteq Inputs \cup Outputs
        BY DEF Inputs, Outputs
      <3>3. \A p \in paths'["indexLog"] \cup paths'["schemaFile"] : Agreed(p)'
        BY <2>5, <3>1, <3>2 DEF Cleared, Inv
      <3>4. scenario' = "Dump" => \A p \in paths'["outputFile"] : Agreed(p)'
        BY <2>4, <2>5, <3>1, <3>2 DEF Cleared, Inv
      <3>5. scenario' = "CreateConfig" => \A p \in paths'["configXml"] : Agreed(p)'
        BY <2>4, <2>5, <3>1, <3>2 DEF Cleared, Inv
      <3> QED  BY <3>3, <3>4, <3>5 DEF Cleared
    <2> QED  BY <1>1, <1>3, <1>4, <2>6, WorkStep DEF Inv, Kept, Spared
  <1> QED  BY <1>2, <1>5, <1>6

LEMMA WriteStep ==
  ASSUME Inv, pc = "work", UNCHANGED <<arguments, before, touched, paths, agreed>>, NEW some, \A p \in some : Agreed(p),
         written' \subseteq written \cup some, files \subseteq files', Typed', pc' \in {"work", "ended"}
  PROVE  Inv'
  <1>1. Cleared'  BY ClearedStays
  <1>2. \A p \in written' : p \in written \/ Agreed(p)'
    BY AgreedStays DEF arguments
  <1> QED  BY <1>1, <1>2, WorkStep DEF Inv, Kept, Spared

-----------------------------------------------------------------------------
LEMMA InitInv ==
  ASSUME Init
  PROVE  Inv
  <1>1. DOMAIN paths = Inputs \cup Outputs /\ \A o \in Inputs \cup Outputs : paths[o] = {}  BY DEF Init
  <1>2. Typed /\ Fresh /\ Kept /\ Wrote /\ AsksFirst
    BY <1>1 DEF Init, Typed, Fresh, Kept, Wrote, AsksFirst, Spared
  <1>3. Cleared  BY <1>1 DEF Cleared, Inputs, Outputs
  <1> QED  BY <1>2, <1>3 DEF Inv

\* Nothing has been written, and nothing found, while arguments are read.
LEMMA ParseInv ==
  ASSUME Inv, Parse
  PROVE  Inv'
  <1>1. pc \in {"command", "options"} /\ UNCHANGED <<at, paths, before, disk, document>>
    BY DEF Parse, ParseCommand, ParseFlag, ParseSetting, RefuseArgument, Dispatch
  <1>2. written' = {} /\ at' = 1 /\ \A o \in Inputs \cup Outputs : paths'[o] = {}
    BY <1>1 DEF Inv, Fresh, disk
  <1>3. \/ pc' \in {"command", "options", "ended"} /\ scenario' \in Commands \cup {"None"}
        \/ pc' = "work" /\ scenario' = scenario /\ scenario # "None"
    BY <1>1 DEF Parse, ParseCommand, ParseFlag, ParseSetting, RefuseArgument, Dispatch, End, arguments, Inv, Typed
  <1>4. Typed'
    BY <1>1, <1>2, <1>3, FirstStage DEF Inv, Typed
  <1>5. Cleared'
    BY <1>2 DEF Cleared, Inputs, Outputs
  <1>6. Fresh' /\ Wrote' /\ AsksFirst'
    BY <1>2 DEF Fresh, Wrote, AsksFirst
  <1>7. Kept'
    BY <1>1 DEF Inv, Kept, Spared, disk
  <1> QED  BY <1>4, <1>5, <1>6, <1>7 DEF Inv

LEMMA VerifyInv ==
  ASSUME Inv, VerifyParams
  PROVE  Inv'
  <1>1. ASSUME NEW stage, Working(stage)
        PROVE  scenario \in Commands /\ at \in DOMAIN Stages(scenario) /\ Stages(scenario)[at] = stage
    BY <1>1 DEF Working, Stage, Inv, Typed
  <1>2. CASE InputFolder
    BY <1>2, InputStep DEF InputFolder, Initialised, Inputs, Final
  <1>3. CASE Configuration
    <2>1. scenario \in Builds  BY <1>1, <1>3, StageOf DEF Configuration
    <2> QED  BY <1>3, <2>1, InputStep DEF Configuration, RequiredFile, Inputs, Final, Builds
  <1>4. CASE IndexFile
    BY <1>4, InputStep DEF IndexFile, RequiredFile, Inputs, Final
  <1>5. CASE ExtensionDll
    BY <1>5, InputStep DEF ExtensionDll, OptionalFile, RequiredFile, Inputs, Final
  <1>6. CASE ExternalSchema
    BY <1>6, InputStep DEF ExternalSchema, OptionalFile, RequiredFile, Inputs, Final
  <1>7. CASE CheckOptions
    BY <1>7, InputStep DEF CheckOptions, Check, Inputs, Final
  <1>8. CASE CheckUnexpected
    BY <1>8, InputStep DEF CheckUnexpected, Check, Inputs, Final
  <1>9. CASE Output
    <2>1. scenario \in Builds  BY <1>1, <1>9, StageOf DEF Output
    <2> QED  BY <1>9, <2>1, OutputStep DEF Output, Final
  <1>10. CASE IndexLog
    BY <1>10, OutputStep, InputStep DEF IndexLog, OptionalOutput, Final, Inputs, Given
  <1>11. CASE SchemaFile
    BY <1>11, OutputStep, InputStep DEF SchemaFile, OptionalOutput, Final, Inputs, Given
  <1>12. CASE DumpFile
    BY <1>12, OutputStep DEF DumpFile, Final, Given
  <1>13. CASE ConfigurationFile
    BY <1>13, OutputStep DEF ConfigurationFile, Final, Given
  <1>14. CASE IndexName
    <2>1. pc = "work" /\ scenario = "New"  BY <1>1, <1>14, StageOf DEF IndexName, Working
    <2>2. UNCHANGED <<arguments, before, disk, document>>  BY <1>14 DEF IndexName
    <2>3. paths' = paths \/ \E x : paths' = [paths EXCEPT !["manifest"] = x]  BY <1>14 DEF IndexName, Initialised
    <2>4. Proceed \/ (\E r : End(r)) \/ (at' = TheBuild /\ pc' = pc)
      BY <1>14 DEF IndexName, Proceed
    <2>5. CASE Proceed \/ \E r : End(r)
      BY <1>14, <2>2, <2>3, <2>5, InputStep DEF IndexName, Inputs, Final
    <2>6. CASE at' = TheBuild /\ pc' = pc
      <3>1. Typed' /\ pc' = "work"  BY BuildStage, <2>1, <2>2, <2>3, <2>6 DEF Typed, Inv, arguments
      <3> QED  BY <2>1, <2>2, <2>3, <3>1, InputKept DEF Inputs
    <2> QED  BY <2>4, <2>5, <2>6
  <1> QED
    BY <1>2, <1>3, <1>4, <1>5, <1>6, <1>7, <1>8, <1>9, <1>10, <1>11, <1>12, <1>13, <1>14 DEF VerifyParams

LEMMA WorkInv ==
  ASSUME Inv, Work
  PROVE  Inv'
  <1>1. pc = "work" /\ scenario \in Commands /\ at \in DOMAIN Stages(scenario)
    BY DEF Work, Build, BuildFails, WriteLog, WriteSchemaFile, Publish, WriteDump, Generate, WriteConfiguration, Working, Inv, Typed
  <1>2. ASSUME \E r : End(r), UNCHANGED <<arguments, paths>>
        PROVE  Typed' /\ pc' = "ended"
    BY <1>2 DEF End, Inv, Typed, arguments
  <1>3. CASE Build
    <2>1. Typed' /\ pc' \in {"work", "ended"}  BY <1>3, Stepped DEF Build, Final, arguments
    <2>2. UNCHANGED <<arguments, before, files, touched, paths, agreed, written>>  BY <1>3 DEF Build
    <2>3. Cleared' /\ Kept'  BY <2>2, ClearedStays DEF Inv, Kept, Spared
    <2> QED  BY <1>1, <2>1, <2>2, <2>3, WorkStep
  <1>4. CASE Generate
    <2>1. Proceed \/ \E r : End(r)  BY <1>4 DEF Generate
    <2> QED  BY <1>4, <2>1, InputStep DEF Generate, Inputs, Final
  <1>5. ASSUME NEW some, \A p \in some : Agreed(p), Fail(some), UNCHANGED agreed
        PROVE  Inv'
    <2>1. Typed' /\ pc' = "ended"  BY <1>2, <1>5 DEF Fail
    <2> QED  BY <1>1, <1>5, <2>1, WriteStep DEF Fail
  <1>6. ASSUME NEW some, \A p \in some : Agreed(p), NEW options, Finish(options, some), UNCHANGED agreed
        PROVE  Inv'
    <2>1. Typed' /\ pc' = "ended"  BY <1>2, <1>6 DEF Finish
    <2> QED  BY <1>1, <1>6, <2>1, WriteStep DEF Finish
  <1>7. ASSUME NEW some, \A p \in some : Agreed(p), NEW o, Write(o, some), NEW stage, Working(stage), stage \notin Final
        PROVE  Inv'
    <2>1. Typed' /\ pc' \in {"work", "ended"}  BY <1>7, Stepped DEF Write, arguments
    <2> QED  BY <1>1, <1>7, <2>1, WriteStep DEF Write
  <1>8. CASE BuildFails
    BY <1>5, <1>8 DEF BuildFails
  <1>9. ASSUME NEW o \in {"indexLog", "schemaFile"}, NEW stage, Working(stage), stage \notin Final, WriteIfPossible(o)
        PROVE  Inv'
    <2>1. \A p \in paths[o] : Agreed(p)  BY <1>9 DEF Inv, Cleared
    <2> QED  BY <1>5, <1>7, <1>9, <2>1 DEF WriteIfPossible
  <1>10. CASE WriteLog
    BY <1>9, <1>10 DEF WriteLog, Final
  <1>11. CASE WriteSchemaFile
    BY <1>9, <1>11 DEF WriteSchemaFile, Final
  <1>12. CASE WriteDump
    <2>1. scenario = "Dump"  BY <1>1, <1>12, StageOf DEF WriteDump, Working, Stage
    <2>2. \A p \in paths["outputFile"] : Agreed(p)  BY <2>1 DEF Inv, Cleared
    <2> QED  BY <1>5, <1>6, <1>12, <2>2 DEF WriteDump, WriteMain
  <1>13. CASE WriteConfiguration
    <2>1. scenario = "CreateConfig"  BY <1>1, <1>13, StageOf DEF WriteConfiguration, Working, Stage
    <2>2. \A p \in paths["configXml"] : Agreed(p)  BY <2>1 DEF Inv, Cleared
    <2> QED  BY <1>5, <1>6, <1>13, <2>2 DEF WriteConfiguration, WriteMain
  <1>14. CASE Publish
    <2>1. scenario \in Builds  BY <1>1, <1>14, StageOf DEF Publish, Working, Stage
    <2>2. UNCHANGED <<arguments, paths, before, touched>> /\ \E r : End(r)  BY <1>14 DEF Publish, Finish, Fail, disk
    <2>3. Typed' /\ pc' = "ended"  BY <1>2, <2>2
    <2>4. agreed \subseteq agreed' /\ files \subseteq files'  BY <1>14 DEF Publish, Finish, Fail, disk
    <2>5. Cleared'  BY <2>2, <2>4, ClearedStays
    <2>6. Kept'  BY <2>2, <2>4 DEF Inv, Kept, Spared
    <2>7. \A p \in written' : p \in written \/ (p \in Index /\ (~Exists(p) \/ Given("overwrite") \/ Given("verbose") \/ Given("autoMerge") \/ p \in agreed'))
      BY <1>14 DEF Publish, Finish, Fail, disk
    <2>8. \A p \in written : Agreed(p)'  BY <1>1, <2>2, <2>4, AgreedStays DEF Inv, Wrote, arguments
    <2>9. AsksFirst'
      <3> SUFFICES ASSUME NEW p \in written', p \in before, p \notin touched
                   PROVE  Unasked(p)' \/ p \in agreed'
        BY <2>2 DEF AsksFirst
      <3>1. CASE p \in written
        BY <2>2, <2>8, <3>1 DEF Agreed, Spared, Unasked
      <3>2. CASE p \in Index /\ ~Exists(p)
        BY <3>2 DEF Exists, Inv, Kept, Spared
      <3>3. Index' = Index /\ \A o : Given(o)' = Given(o)
        BY <2>2 DEF Index, Given, arguments
      <3>4. CASE p \in Index /\ (Given("overwrite") \/ Given("verbose") \/ Given("autoMerge"))
        BY <2>1, <2>2, <3>3, <3>4 DEF Unasked, arguments
      <3> QED  BY <2>7, <3>1, <3>2, <3>4
    <2> QED  BY <2>3, <2>5, <2>6, <2>9 DEF Inv, Fresh, Wrote
  <1> QED  BY <1>3, <1>4, <1>8, <1>10, <1>11, <1>12, <1>13, <1>14 DEF Work

LEMMA InterfereInv ==
  ASSUME Inv, Interfere
  PROVE  Inv'
  <1>1. /\ pc = "work" /\ UNCHANGED <<arguments, pc, at, paths, before, agreed, written>>
        /\ touched \subseteq touched' /\ \A p : p \in files /\ p \notin touched' => p \in files'
    BY DEF Interfere
  <1>2. Typed' /\ pc' = "work"  BY <1>1 DEF Inv, Typed, arguments
  <1>3. Kept'  BY <1>1 DEF Inv, Kept, Spared
  <1>4. Cleared'  BY <1>1, ClearedStays
  <1> QED  BY <1>1, <1>2, <1>3, <1>4, WorkStep

LEMMA NextInv ==
  ASSUME Inv, [Next]_vars
  PROVE  Inv'
  <1>1. CASE Next
    BY <1>1, ParseInv, VerifyInv, WorkInv, InterfereInv DEF Next
  <1>2. CASE UNCHANGED vars
    <2>1. UNCHANGED <<line, rest, scenario, inputArgs, pc, at, paths, before, files, touched, agreed, written>>
      BY <1>2 DEF vars, arguments, disk
    <2>2. Typed' /\ Fresh' /\ Kept' /\ Wrote'
      BY <2>1 DEF Inv, Typed, Fresh, Kept, Wrote, Spared, Agreed, Given
    <2>3. AsksFirst'
      BY <2>1 DEF Inv, AsksFirst, Unasked, Given, Index
    <2>4. Cleared'
      BY <2>1 DEF Inv, Cleared, Spared, Agreed, Given
    <2> QED  BY <2>2, <2>3, <2>4 DEF Inv
  <1> QED  BY <1>1, <1>2

(***************************************************************************)
(* No run of MakePri overwrites a file that was there, and that no other    *)
(* program has touched, unless an option or the user has agreed to it.      *)
(***************************************************************************)
THEOREM NothingLostUnasked == Spec => []AsksFirst
  <1>1. Init => Inv  BY InitInv
  <1>2. Inv /\ [Next]_vars => Inv'  BY NextInv
  <1>3. Inv => AsksFirst  BY DEF Inv
  <1> QED  BY <1>1, <1>2, <1>3, PTL DEF Spec
-----------------------------------------------------------------------------
(***************************************************************************)
(* What was given is used: the option each stage looks at and those whose   *)
(* path each takes up, that every stage that has been passed has found the  *)
(* path it was given, and that it has taken up what had been found.         *)
(***************************************************************************)
OptionOf(stage) ==
  CASE stage = "root" -> "projectRoot"
    [] stage \in {"configuration", "configurationFile"} -> "configXml"
    [] stage \in {"output", "dump"} -> "outputFile"
    [] stage = "log" -> "indexLog"
    [] stage = "schemaFile" -> "schemaFile"
    [] stage = "index" -> "indexFile"
    [] stage = "extension" -> "extensionDll"
    [] stage = "schema" -> "externalSchema"
    [] OTHER -> "none"

Forgettable == {"extensionDll", "externalSchema"}

Due(o) == scenario = "New" /\ o \in Forgettable => HasName

Takes(stage) ==
  CASE stage = "build" -> {"projectRoot", "configXml", "indexFile", "externalSchema"}
    [] stage = "writeLog" -> {"indexLog"}
    [] stage = "writeSchema" -> {"schemaFile"}
    [] stage = "publish" -> {"outputFile"}
    [] stage = "writeDump" -> {"indexFile", "externalSchema", "outputFile"}
    [] stage = "writeConfiguration" -> {"configXml"}
    [] OTHER -> {}

Wanted(o) == o = "externalSchema" => SchemaIsDue

\* A stage takes up what has been found of its options.
Took(stage) ==
  used \subseteq used' /\ \A o \in Takes(stage) : paths[o] # {} /\ Wanted(o) => o \in used'

Passed ==
  \A i \in DOMAIN Stages(scenario) : \A o \in Inputs \cup Outputs :
    i < at /\ OptionOf(Stages(scenario)[i]) = o /\ Given(o) /\ Due(o) => paths[o] # {}

Done ==
  \A i \in DOMAIN Stages(scenario) : \A o \in Takes(Stages(scenario)[i]) \cap Used(scenario) :
    i < at /\ Given(o) /\ Wanted(o) => o \in used

Looked ==
  /\ pc # "ended" => result = "running"
  /\ pc = "command" => scenario = "None"
  /\ pc = "work" => Passed /\ Done
  /\ pc = "work" /\ scenario = "New" /\ at <= 7 => paths["manifest"] = {}
  /\ GivenIsUsed

\* When a stage takes up the path of an option another has looked for it, and
\* when the work ends every option the command works with has been taken up.
LEMMA TakenStage ==
  ASSUME NEW c \in Commands
  PROVE  /\ Used(c) \subseteq Inputs \cup Outputs
         /\ \A i \in DOMAIN Stages(c) : \A o \in Takes(Stages(c)[i]) \cap Used(c) :
              \E j \in DOMAIN Stages(c) : j < i /\ OptionOf(Stages(c)[j]) = o
         /\ \A i \in DOMAIN Stages(c) : Stages(c)[i] \in Final =>
              \A o \in Used(c) : \E j \in DOMAIN Stages(c) : (j < i \/ j = i) /\ o \in Takes(Stages(c)[j])
  <1>1. CASE c = "New"
    <2>1. Stages(c) = StagesOfNew  BY <1>1 DEF Stages
    <2>2. Used(c) = {"projectRoot", "configXml", "outputFile", "indexLog", "schemaFile", "externalSchema"}
      BY <1>1 DEF Used, Builds
    <2>3. DOMAIN Stages(c) = 1..13  BY <2>1 DEF StagesOfNew
    <2>4. /\ OptionOf(Stages(c)[1]) = "projectRoot" /\ OptionOf(Stages(c)[2]) = "configXml"
          /\ OptionOf(Stages(c)[3]) = "outputFile" /\ OptionOf(Stages(c)[4]) = "indexLog"
          /\ OptionOf(Stages(c)[5]) = "schemaFile" /\ OptionOf(Stages(c)[9]) = "externalSchema"
      BY <2>1 DEF StagesOfNew, OptionOf
    <2>5. /\ Takes(Stages(c)[10]) = {"projectRoot", "configXml", "indexFile", "externalSchema"}
          /\ Takes(Stages(c)[11]) = {"indexLog"} /\ Takes(Stages(c)[12]) = {"schemaFile"}
          /\ Takes(Stages(c)[13]) = {"outputFile"}
      BY <2>1 DEF StagesOfNew, Takes
    <2>6. \A i \in 1..9 : Takes(Stages(c)[i]) = {}
      BY <2>1 DEF StagesOfNew, Takes
    <2>7. \A i \in 1..13 : Stages(c)[i] \in Final => i = 13
      BY <2>1 DEF StagesOfNew, Final
    <2>8. \A i \in 1..13 : \A o \in Takes(Stages(c)[i]) \cap Used(c) :
            \E j \in DOMAIN Stages(c) : j < i /\ OptionOf(Stages(c)[j]) = o
      <3> SUFFICES ASSUME NEW i \in 10..13, NEW o \in Takes(Stages(c)[i]) \cap Used(c)
                   PROVE  \E j \in 1..9 : OptionOf(Stages(c)[j]) = o
        BY <2>3, <2>6
      <3> QED  BY <2>2, <2>4
    <2>9. \A o \in Used(c) : \E j \in 10..13 : o \in Takes(Stages(c)[j])
      BY <2>2, <2>5
    <2>10. Used(c) \subseteq Inputs \cup Outputs  BY <2>2 DEF Inputs, Outputs
    <2> QED  BY <2>3, <2>7, <2>8, <2>9, <2>10
  <1>2. CASE c \in {"Versioned", "ResourcePack"}
    <2>1. Stages(c) = StagesOfRebuild  BY <1>2 DEF Stages
    <2>2. Used(c) = {"projectRoot", "configXml", "outputFile", "indexLog", "schemaFile", "externalSchema", "indexFile"}
      BY <1>2 DEF Used, Builds
    <2>3. DOMAIN Stages(c) = 1..14  BY <2>1 DEF StagesOfRebuild
    <2>4. /\ OptionOf(Stages(c)[1]) = "projectRoot" /\ OptionOf(Stages(c)[2]) = "configXml"
          /\ OptionOf(Stages(c)[3]) = "outputFile" /\ OptionOf(Stages(c)[4]) = "indexLog"
          /\ OptionOf(Stages(c)[5]) = "schemaFile" /\ OptionOf(Stages(c)[8]) = "indexFile"
          /\ OptionOf(Stages(c)[10]) = "externalSchema"
      BY <2>1 DEF StagesOfRebuild, OptionOf
    <2>5. /\ Takes(Stages(c)[11]) = {"projectRoot", "configXml", "indexFile", "externalSchema"}
          /\ Takes(Stages(c)[12]) = {"indexLog"} /\ Takes(Stages(c)[13]) = {"schemaFile"}
          /\ Takes(Stages(c)[14]) = {"outputFile"}
      BY <2>1 DEF StagesOfRebuild, Takes
    <2>6. \A i \in 1..10 : Takes(Stages(c)[i]) = {}
      BY <2>1 DEF StagesOfRebuild, Takes
    <2>7. \A i \in 1..14 : Stages(c)[i] \in Final => i = 14
      BY <2>1 DEF StagesOfRebuild, Final
    <2>8. \A i \in 1..14 : \A o \in Takes(Stages(c)[i]) \cap Used(c) :
            \E j \in DOMAIN Stages(c) : j < i /\ OptionOf(Stages(c)[j]) = o
      <3> SUFFICES ASSUME NEW i \in 11..14, NEW o \in Takes(Stages(c)[i]) \cap Used(c)
                   PROVE  \E j \in 1..10 : OptionOf(Stages(c)[j]) = o
        BY <2>3, <2>6
      <3> QED  BY <2>2, <2>4
    <2>9. \A o \in Used(c) : \E j \in 11..14 : o \in Takes(Stages(c)[j])
      BY <2>2, <2>5
    <2>10. Used(c) \subseteq Inputs \cup Outputs  BY <2>2 DEF Inputs, Outputs
    <2> QED  BY <2>3, <2>7, <2>8, <2>9, <2>10
  <1>3. CASE c = "Dump"
    <2>1. Stages(c) = StagesOfDump  BY <1>3 DEF Stages
    <2>2. Used(c) = {"indexFile", "outputFile", "externalSchema"}
      BY <1>3 DEF Used, Builds
    <2>3. DOMAIN Stages(c) = 1..7  BY <2>1 DEF StagesOfDump
    <2>4. /\ OptionOf(Stages(c)[3]) = "indexFile" /\ OptionOf(Stages(c)[4]) = "outputFile"
          /\ OptionOf(Stages(c)[6]) = "externalSchema"
      BY <2>1 DEF StagesOfDump, OptionOf
    <2>5. Takes(Stages(c)[7]) = {"indexFile", "externalSchema", "outputFile"}
      BY <2>1 DEF StagesOfDump, Takes
    <2>6. \A i \in 1..6 : Takes(Stages(c)[i]) = {}
      BY <2>1 DEF StagesOfDump, Takes
    <2>7. \A i \in 1..7 : Stages(c)[i] \in Final => i = 7
      BY <2>1 DEF StagesOfDump, Final
    <2>8. Used(c) \subseteq Inputs \cup Outputs  BY <2>2 DEF Inputs, Outputs
    <2>9. \A o \in Used(c) : \E j \in 1..6 : OptionOf(Stages(c)[j]) = o  BY <2>2, <2>4
    <2>10. \A o \in Used(c) : o \in Takes(Stages(c)[7])  BY <2>2, <2>5
    <2> QED  BY <2>3, <2>6, <2>7, <2>8, <2>9, <2>10
  <1>4. CASE c = "CreateConfig"
    <2>1. Stages(c) = StagesOfCreateConfig  BY <1>4 DEF Stages
    <2>2. Used(c) = {"configXml"}
      BY <1>4 DEF Used, Builds
    <2>3. DOMAIN Stages(c) = 1..7  BY <2>1 DEF StagesOfCreateConfig
    <2>4. OptionOf(Stages(c)[3]) = "configXml" /\ Takes(Stages(c)[7]) = {"configXml"}
      BY <2>1 DEF StagesOfCreateConfig, OptionOf, Takes
    <2>5. \A i \in 1..6 : Takes(Stages(c)[i]) = {}
      BY <2>1 DEF StagesOfCreateConfig, Takes
    <2>6. \A i \in 1..7 : Stages(c)[i] \in Final => i = 7
      BY <2>1 DEF StagesOfCreateConfig, Final
    <2>7. Used(c) \subseteq Inputs \cup Outputs  BY <2>2 DEF Inputs, Outputs
    <2> QED  BY <2>2, <2>3, <2>4, <2>5, <2>6, <2>7
  <1> QED  BY <1>1, <1>2, <1>3, <1>4 DEF Commands

\* The name is the seventh stage of a new index; what it may skip are the extension and the schema.
LEMMA NameStage ==
  ASSUME NEW i \in DOMAIN Stages("New"), Stages("New")[i] = "name"
  PROVE  /\ i = 7 /\ OptionOf("name") = "none" /\ TheBuild = 10
         /\ \A j \in DOMAIN Stages("New") : j < i => OptionOf(Stages("New")[j]) \notin Forgettable
         /\ \A j \in DOMAIN Stages("New") :
              j < TheBuild => j < i \/ OptionOf(Stages("New")[j]) \in {"none"} \cup Forgettable
         /\ \A j \in DOMAIN Stages("New") : j < TheBuild => Takes(Stages("New")[j]) = {}
  <1>1. Stages("New") = StagesOfNew  BY DEF Stages
  <1>2. i = 7 /\ DOMAIN Stages("New") = 1..13  BY <1>1 DEF StagesOfNew
  <1>3. \A j \in 1..13 : StagesOfNew[j] = "build" <=> j = 10  BY DEF StagesOfNew
  <1>4. TheBuild = 10  BY <1>1, <1>2, <1>3 DEF TheBuild
  <1>5. /\ OptionOf(StagesOfNew[7]) = "none" /\ OptionOf("name") = "none"
        /\ OptionOf(StagesOfNew[8]) = "extensionDll" /\ OptionOf(StagesOfNew[9]) = "externalSchema"
    BY DEF StagesOfNew, OptionOf
  <1>6. \A j \in 1..6 : OptionOf(StagesOfNew[j]) \notin Forgettable
    BY DEF StagesOfNew, OptionOf, Forgettable
  <1>7. \A j \in 1..9 : Takes(StagesOfNew[j]) = {}
    BY DEF StagesOfNew, Takes
  <1> QED  BY <1>1, <1>2, <1>4, <1>5, <1>6, <1>7 DEF Forgettable

\* A stage that goes on has found the path of its option, if that was given.
Finds(stage) ==
  /\ \A o \in Inputs \cup Outputs : paths[o] # {} => paths'[o] # {}
  /\ \A o \in Inputs \cup Outputs : OptionOf(stage) = o /\ Given(o) => paths'[o] # {}

LEMMA StagePlaces ==
  ASSUME NEW c \in Commands
  PROVE  DOMAIN Stages(c) \subseteq Nat \ {0}
  <1>1. Stages(c) \in {StagesOfNew, StagesOfRebuild, StagesOfDump, StagesOfCreateConfig}  BY DEF Stages, Commands
  <1> QED  BY <1>1 DEF StagesOfNew, StagesOfRebuild, StagesOfDump, StagesOfCreateConfig

\* What a stage takes up of what was given has been found.
LEMMA LookedFor ==
  ASSUME Looked, pc = "work", scenario \in Commands, at \in DOMAIN Stages(scenario), NEW i \in DOMAIN Stages(scenario),
         i < at \/ i = at, NEW o \in Takes(Stages(scenario)[i]) \cap Used(scenario), Given(o), Wanted(o)
  PROVE  paths[o] # {}
  <1>1. PICK j \in DOMAIN Stages(scenario) : j < i /\ OptionOf(Stages(scenario)[j]) = o
    BY TakenStage
  <1>2. o \in Inputs \cup Outputs  BY TakenStage
  <1>3. j < at  BY <1>1, StagePlaces
  <1>4. o # "extensionDll"  BY DEF Takes
  <1>5. Due(o)  BY <1>4 DEF Wanted, SchemaIsDue, Due, Forgettable
  <1> QED  BY <1>1, <1>2, <1>3, <1>5 DEF Looked, Passed

LEMMA LookedOn ==
  ASSUME Inv, Looked, NEW stage, stage # "name", stage \notin Final, Working(stage), Proceed,
         UNCHANGED arguments, paths'["manifest"] = paths["manifest"], Finds(stage), Took(stage)
  PROVE  Looked'
  <1>1. /\ pc = "work" /\ scenario \in Commands /\ at \in DOMAIN Stages(scenario)
        /\ Stages(scenario)[at] = stage /\ at \in Nat
    <2> QED  BY StagePlaces DEF Inv, Typed, Working, Stage
  <1>2. /\ at' = at + 1 /\ pc' = "work" /\ result' = "running" /\ scenario' = scenario
        /\ inputArgs' = inputArgs
    BY <1>1 DEF Proceed, Looked, arguments
  <1>3. \A o : (Given(o)' <=> Given(o)) /\ (Due(o)' <=> Due(o)) /\ (Wanted(o)' <=> Wanted(o))
    BY <1>2 DEF Given, Due, HasName, Wanted, SchemaIsDue, NamesSchema, Word
  <1>4. \A i \in DOMAIN Stages(scenario) : i < at + 1 => i < at \/ i = at
    <2> QED  BY <1>1, StagePlaces
  <1>5. Passed'
    <2> SUFFICES ASSUME NEW i \in DOMAIN Stages(scenario), NEW o \in Inputs \cup Outputs, i < at + 1,
                        OptionOf(Stages(scenario)[i]) = o, Given(o), Due(o)
                 PROVE  paths'[o] # {}
      BY <1>2, <1>3 DEF Passed
    <2> QED  BY <1>1, <1>4 DEF Looked, Passed, Finds
  <1>6. GivenIsUsed'
    BY <1>2 DEF GivenIsUsed
  <1>7. Done'
    <2> SUFFICES ASSUME NEW i \in DOMAIN Stages(scenario), NEW o \in Takes(Stages(scenario)[i]) \cap Used(scenario),
                        i < at + 1, Given(o), Wanted(o)
                 PROVE  o \in used'
      BY <1>2, <1>3 DEF Done
    <2>1. CASE i < at
      BY <1>1, <2>1 DEF Looked, Done, Took
    <2>2. CASE i = at
      <3>1. paths[o] # {}  BY <1>1, <2>2, LookedFor
      <3> QED  BY <1>1, <2>2, <3>1 DEF Took
    <2> QED  BY <1>4, <2>1, <2>2
  <1> QED  BY <1>1, <1>2, <1>5, <1>6, <1>7 DEF Looked

LEMMA LookedEnd ==
  ASSUME Looked, NEW r, r # "ok", End(r)
  PROVE  Looked'
  BY DEF Looked, End, GivenIsUsed

LEMMA LookedLast ==
  ASSUME Inv, Looked, NEW stage \in Final, Working(stage), NEW r, End(r), UNCHANGED <<arguments, paths>>,
         r = "ok" => Took(stage)
  PROVE  Looked'
  <1>1. /\ pc = "work" /\ scenario \in Commands /\ at \in DOMAIN Stages(scenario)
        /\ Stages(scenario)[at] \in Final
    BY DEF Inv, Typed, Working, Stage
  <1>2. ASSUME r = "ok", NEW o \in Used(scenario), Given(o), Wanted(o)
        PROVE  o \in used'
    <2>1. PICK j \in DOMAIN Stages(scenario) : (j < at \/ j = at) /\ o \in Takes(Stages(scenario)[j])
      BY <1>1, TakenStage
    <2>2. paths[o] # {}  BY <1>1, <1>2, <2>1, LookedFor
    <2>3. CASE j < at
      BY <1>1, <1>2, <2>1, <2>3 DEF Looked, Done, Took
    <2>4. CASE j = at
      BY <1>1, <1>2, <2>1, <2>2, <2>4 DEF Took, Working, Stage
    <2> QED  BY <2>1, <2>3, <2>4
  <1>3. result' = r /\ scenario' = scenario /\ \A o : (Given(o)' <=> Given(o)) /\ (Wanted(o)' <=> Wanted(o))
    BY DEF End, Given, HasName, Wanted, SchemaIsDue, NamesSchema, Word, arguments
  <1>4. GivenIsUsed'
    BY <1>2, <1>3 DEF GivenIsUsed, Wanted
  <1> QED  BY <1>4 DEF Looked, End

\* What an input, an output and a check do to the paths.
Looks(o) ==
  /\ used' = used
  /\ \/ \E r \in {"usage", "declined"} : End(r)
     \/ Proceed /\ \E p : paths' = [paths EXCEPT ![o] = p] /\ p # {}
     \/ Proceed /\ ~Given(o) /\ paths' = paths

LEMMA NoneTaken ==
  ASSUME NEW stage, OptionOf(stage) # "none"
  PROVE  Takes(stage) = {}
  BY DEF OptionOf, Takes

LEMMA PathLooked ==
  ASSUME Inv, Looked, NEW stage, stage # "name", stage \notin Final, Working(stage), UNCHANGED arguments,
         NEW o \in Inputs \cup Outputs, o # "manifest", OptionOf(stage) = o, Looks(o)
  PROVE  Looked'
  <1>1. DOMAIN paths = Inputs \cup Outputs /\ "manifest" \in Inputs  BY DEF Inv, Typed, Inputs
  <1>0. Took(stage)
    <2>1. o # "none"  BY DEF Inputs, Outputs
    <2> QED  BY <2>1, NoneTaken DEF Took, Looks
  <1>2. CASE \E r \in {"usage", "declined"} : End(r)
    BY <1>2, LookedEnd
  <1>3. CASE Proceed /\ \E p : paths' = [paths EXCEPT ![o] = p] /\ p # {}
    <2>1. Finds(stage) /\ paths'["manifest"] = paths["manifest"]  BY <1>1, <1>3 DEF Finds
    <2> QED  BY <1>0, <1>3, <2>1, LookedOn
  <1>4. CASE Proceed /\ ~Given(o) /\ paths' = paths
    <2>1. Finds(stage) /\ paths'["manifest"] = paths["manifest"]  BY <1>4 DEF Finds
    <2> QED  BY <1>0, <1>4, <2>1, LookedOn
  <1> QED  BY <1>2, <1>3, <1>4 DEF Looks

LEMMA RequiredLooks ==
  ASSUME NEW o, NEW extensions, NEW default, RequiredFile(o, extensions, default)
  PROVE  Looks(o) /\ UNCHANGED arguments
  <1>1. \/ End("usage")
        \/ Proceed /\ \E p : paths' = [paths EXCEPT ![o] = p] /\ p # {}
    BY DEF RequiredFile
  <1> QED  BY <1>1 DEF Looks, RequiredFile, disk

LEMMA OutputLooks ==
  ASSUME NEW o, NEW extension, NEW default, NEW allowFolder, NEW overwrite,
         OutputPath(o, extension, default, allowFolder, overwrite)
  PROVE  Looks(o) /\ UNCHANGED arguments
  <1>1. \/ \E r \in {"usage", "declined"} : End(r)
        \/ Proceed /\ \E t : Initialised(o, t)
    BY DEF OutputPath
  <1>2. (\E t : Initialised(o, t)) => \E p : paths' = [paths EXCEPT ![o] = p] /\ p # {}
    BY DEF Initialised
  <1> QED  BY <1>1, <1>2 DEF Looks, OutputPath

\* A check, and the work itself, find nothing and forget nothing.
LEMMA CheckLooked ==
  ASSUME Inv, Looked, NEW stage, stage # "name", stage \notin Final, Working(stage), OptionOf(stage) = "none",
         UNCHANGED <<arguments, paths>>, Took(stage), Proceed \/ \E r : r # "ok" /\ End(r)
  PROVE  Looked'
  <1>1. "none" \notin Inputs \cup Outputs  BY DEF Inputs, Outputs
  <1>2. Finds(stage)  BY <1>1 DEF Finds
  <1>3. CASE Proceed
    BY <1>2, <1>3, LookedOn
  <1>4. CASE \E r : r # "ok" /\ End(r)
    BY <1>4, LookedEnd
  <1> QED  BY <1>3, <1>4

\* Without a name the build begins at once: the extension and the schema are not due.
LEMMA NameLooked ==
  ASSUME Inv, Looked, IndexName
  PROVE  Looked'
  <1>1. /\ pc = "work" /\ scenario \in Commands /\ at \in DOMAIN Stages(scenario)
        /\ Stages(scenario)[at] = "name" /\ UNCHANGED arguments
    BY DEF IndexName, Working, Stage, Inv, Typed
  <1>2. scenario = "New"  BY <1>1, StageOf
  <1>3. /\ at = 7 /\ OptionOf("name") = "none" /\ TheBuild = 10
        /\ \A j \in DOMAIN Stages("New") : j < at => OptionOf(Stages("New")[j]) \notin Forgettable
        /\ \A j \in DOMAIN Stages("New") :
             j < TheBuild => j < at \/ OptionOf(Stages("New")[j]) \in {"none"} \cup Forgettable
        /\ \A j \in DOMAIN Stages("New") : j < TheBuild => Takes(Stages("New")[j]) = {}
    BY <1>1, <1>2, NameStage
  <1>4. paths["manifest"] = {}  BY <1>1, <1>2, <1>3 DEF Looked
  <1>5. DOMAIN paths = Inputs \cup Outputs /\ "manifest" \in Inputs /\ "none" \notin Inputs \cup Outputs
    BY DEF Inv, Typed, Inputs, Outputs
  <1>6. PICK path :
          \/ Given("indexName") /\ Proceed /\ UNCHANGED paths
          \/ ~Given("indexName") /\ at' = TheBuild /\ UNCHANGED <<pc, result, paths>>
          \/ End("usage") /\ UNCHANGED <<at, paths>>
          \/ /\ ~Given("indexName") /\ Initialised("manifest", path) /\ UNCHANGED <<pc, result>>
             /\ \/ Manifest[path] = "nameless" /\ at' = TheBuild
                \/ at' = at + 1
    BY DEF IndexName, IsNameless
  <1>7. CASE End("usage")
    BY <1>7, LookedEnd
  <1>8. CASE UNCHANGED <<pc, result>> /\ (at' = at + 1 \/ at' = TheBuild)
    <2>1. at' \in {8, 10} /\ pc' = "work" /\ result' = "running" /\ scenario' = "New" /\ inputArgs' = inputArgs
      BY <1>1, <1>2, <1>3, <1>8 DEF Looked, arguments
    <2>2. \A o \in Inputs \cup Outputs : o # "manifest" => paths'[o] = paths[o]
      BY <1>5, <1>6 DEF Initialised, End, Proceed
    <2>3. at' = TheBuild => ~HasName'
      <3> SUFFICES ASSUME at' = TheBuild PROVE ~HasName'
        OBVIOUS
      <3>1. at' # at + 1 /\ at' # at  BY <1>3
      <3>2. ~Given("indexName")'  BY <1>6, <2>1, <3>1 DEF Given, Proceed, End
      <3>3. \A p \in paths'["manifest"] : Manifest[p] # "named"
        BY <1>4, <1>5, <1>6, <3>1 DEF Initialised, Proceed
      <3> QED  BY <3>2, <3>3 DEF HasName
    <2>4. Passed'
      <3> SUFFICES ASSUME NEW i \in DOMAIN Stages("New"), NEW o \in Inputs \cup Outputs, i < at',
                          OptionOf(Stages("New")[i]) = o, Given(o), Due(o)'
                   PROVE  paths'[o] # {}
        BY <2>1 DEF Passed, Given
      <3>1. i \in Nat  BY StagePlaces DEF Commands
      <3>2. o # "manifest"
        BY DEF OptionOf
      <3>3. CASE i < at
        <4>1. o \notin Forgettable  BY <1>3, <3>3
        <4>2. Due(o)  BY <4>1 DEF Due
        <4> QED  BY <1>1, <1>2, <2>2, <3>2, <3>3, <4>2 DEF Looked, Passed
      <3>4. CASE i = at
        BY <1>1, <1>2, <1>3, <1>5, <3>4
      <3>5. CASE at' = TheBuild /\ ~(i < at)
        <4>1. o \in Forgettable  BY <1>3, <1>5, <3>5
        <4> QED  BY <2>1, <2>3, <3>5, <4>1 DEF Due
      <3> QED  BY <1>3, <2>1, <3>1, <3>3, <3>4, <3>5
    <2>5. GivenIsUsed'  BY <2>1 DEF GivenIsUsed
    <2>6. Done'
      <3>1. \A i \in DOMAIN Stages("New") : i < at' => Takes(Stages("New")[i]) = {}
        BY <1>3, <2>1, StagePlaces DEF Commands
      <3> QED  BY <2>1, <3>1 DEF Done
    <2> QED  BY <2>1, <2>4, <2>5, <2>6 DEF Looked
  <1> QED  BY <1>6, <1>7, <1>8 DEF Proceed

-----------------------------------------------------------------------------
LEMMA ParseLooked ==
  ASSUME Inv, Looked, Parse
  PROVE  Looked'
  <1>1. pc \in {"command", "options"} /\ UNCHANGED <<at, paths>> /\ result = "running"
    BY DEF Parse, ParseCommand, ParseFlag, ParseSetting, RefuseArgument, Dispatch, Looked
  <1>2. at' = 1 /\ paths'["manifest"] = {}
    BY <1>1 DEF Inv, Fresh, Inputs
  <1>3. \/ pc' = "options" /\ result' = "running"
        \/ pc' = "ended" /\ result' = "usage"
        \/ pc' = "ended" /\ (inputArgs'["help"] # Unset \/ scenario' = "None")
        \/ pc' = "work" /\ result' = "running" /\ scenario' \in Commands
    <2>1. CASE ParseCommand
      BY <1>1, <2>1 DEF ParseCommand, End, Looked
    <2>2. CASE ParseFlag \/ ParseSetting
      BY <1>1, <2>2 DEF ParseFlag, ParseSetting
    <2>3. CASE RefuseArgument
      BY <2>3 DEF RefuseArgument, End, Given, arguments
    <2>4. CASE Dispatch
      BY <1>1, <2>4 DEF Dispatch, End, Given, arguments, Inv, Typed
    <2> QED  BY <2>1, <2>2, <2>3, <2>4 DEF Parse
  <1>4. pc' = "work" => Passed' /\ Done'
    <2> SUFFICES ASSUME pc' = "work" PROVE Passed' /\ Done'
      OBVIOUS
    <2>1. scenario' \in Commands  BY <1>3
    <2>2. \A i \in DOMAIN Stages(scenario') : ~(i < 1)
      BY <2>1, StagePlaces
    <2> QED  BY <1>2, <2>2 DEF Passed, Done
  <1>5. GivenIsUsed'
    BY <1>3 DEF GivenIsUsed, Given
  <1> QED  BY <1>2, <1>3, <1>4, <1>5 DEF Looked

LEMMA VerifyLooked ==
  ASSUME Inv, Looked, VerifyParams
  PROVE  Looked'
  <1>1. CASE InputFolder
    <2>1. Looks("projectRoot")  BY <1>1 DEF InputFolder, Looks, Initialised, disk
    <2> QED  BY <1>1, <2>1, PathLooked DEF InputFolder, OptionOf, Inputs, Final
  <1>2. CASE Configuration
    BY <1>2, RequiredLooks, PathLooked DEF Configuration, OptionOf, Inputs, Final
  <1>3. CASE IndexFile
    BY <1>3, RequiredLooks, PathLooked DEF IndexFile, OptionOf, Inputs, Final
  <1>4. ASSUME NEW o \in Forgettable, NEW extensions, OptionalFile(o, extensions)
        PROVE  Looks(o) /\ UNCHANGED arguments
    <2>1. CASE Given(o)
      BY <1>4, <2>1, RequiredLooks DEF OptionalFile
    <2>2. CASE ~Given(o)
      BY <1>4, <2>2 DEF OptionalFile, Looks, disk
    <2> QED  BY <2>1, <2>2
  <1>5. CASE ExtensionDll
    BY <1>4, <1>5, PathLooked DEF ExtensionDll, OptionOf, Inputs, Final, Forgettable
  <1>6. CASE ExternalSchema
    BY <1>4, <1>6, PathLooked DEF ExternalSchema, OptionOf, Inputs, Final, Forgettable
  <1>7. CASE Output
    BY <1>7, OutputLooks, PathLooked DEF Output, OptionOf, Outputs, Final
  <1>8. CASE DumpFile
    BY <1>8, OutputLooks, PathLooked DEF DumpFile, OptionOf, Outputs, Final
  <1>9. CASE ConfigurationFile
    BY <1>9, OutputLooks, PathLooked DEF ConfigurationFile, OptionOf, Inputs, Final
  <1>10. ASSUME NEW o, OptionalOutput(o)
         PROVE  Looks(o) /\ UNCHANGED arguments
    <2>1. CASE Given(o)
      BY <1>10, <2>1, OutputLooks DEF OptionalOutput
    <2>2. CASE ~Given(o)
      BY <1>10, <2>2 DEF OptionalOutput, Looks, disk
    <2> QED  BY <2>1, <2>2
  <1>11. CASE IndexLog
    BY <1>10, <1>11, PathLooked DEF IndexLog, OptionOf, Outputs, Final
  <1>12. CASE SchemaFile
    BY <1>10, <1>12, PathLooked DEF SchemaFile, OptionOf, Outputs, Final
  <1>13. CASE CheckOptions
    BY <1>13, CheckLooked DEF CheckOptions, Check, OptionOf, Final, Took, Takes, disk
  <1>14. CASE CheckUnexpected
    BY <1>14, CheckLooked DEF CheckUnexpected, Check, OptionOf, Final, Took, Takes, disk
  <1>15. CASE IndexName
    BY <1>15, NameLooked
  <1> QED
    BY <1>1, <1>2, <1>3, <1>5, <1>6, <1>7, <1>8, <1>9, <1>11, <1>12, <1>13, <1>14, <1>15 DEF VerifyParams

LEMMA WorkLooked ==
  ASSUME Inv, Looked, Work
  PROVE  Looked'
  <1>1. ASSUME NEW some, Fail(some)
        PROVE  Looked'
    BY <1>1, LookedEnd DEF Fail
  <1>2. CASE Build
    <2>1. Took("build")
      BY <1>2 DEF Build, TakesUp, Took, Takes, Wanted, SchemaIsDue
    <2> QED  BY <1>2, <2>1, CheckLooked DEF Build, OptionOf, Final
  <1>3. CASE BuildFails
    BY <1>1, <1>3 DEF BuildFails
  <1>4. ASSUME NEW o, NEW some, Write(o, some), NEW stage \in {"writeLog", "writeSchema"}, Working(stage), Takes(stage) = {o}
        PROVE  Looked'
    <2>1. Took(stage)  BY <1>4 DEF Write, TakesUp, Took
    <2> QED  BY <1>4, <2>1, CheckLooked DEF Write, OptionOf, Final
  <1>5. CASE WriteLog
    <2>1. Takes("writeLog") = {"indexLog"}  BY DEF Takes
    <2> QED  BY <1>1, <1>4, <1>5, <2>1 DEF WriteLog, WriteIfPossible
  <1>6. CASE WriteSchemaFile
    <2>1. Takes("writeSchema") = {"schemaFile"}  BY DEF Takes
    <2> QED  BY <1>1, <1>4, <1>6, <2>1 DEF WriteSchemaFile, WriteIfPossible
  <1>7. ASSUME NEW options, NEW some, Finish(options, some) \/ Fail(some), NEW stage \in Final, Working(stage), Takes(stage) = options
        PROVE  Looked'
    <2>1. CASE Finish(options, some)
      <3>1. Took(stage) /\ End("ok") /\ UNCHANGED <<arguments, paths>>
        BY <1>7, <2>1 DEF Finish, TakesUp, Took
      <3> QED  BY <1>7, <3>1, LookedLast
    <2> QED  BY <1>1, <1>7, <2>1
  <1>8. CASE Publish
    <2>1. Takes("publish") = {"outputFile"} /\ "publish" \in Final  BY DEF Takes, Final
    <2>2. CASE End("declined")
      BY <2>2, LookedEnd
    <2>3. CASE \E some : Finish({"outputFile"}, some) \/ Fail(some)
      BY <1>7, <1>8, <2>1, <2>3 DEF Publish
    <2> QED  BY <1>8, <2>2, <2>3 DEF Publish
  <1>9. CASE WriteDump
    <2>1. Takes("writeDump") = {"indexFile", "externalSchema"} \cup {"outputFile"} /\ "writeDump" \in Final
      BY DEF Takes, Final
    <2> QED  BY <1>7, <1>9, <2>1 DEF WriteDump, WriteMain
  <1>10. CASE WriteConfiguration
    <2>1. Takes("writeConfiguration") = {} \cup {"configXml"} /\ "writeConfiguration" \in Final
      BY DEF Takes, Final
    <2> QED  BY <1>7, <1>10, <2>1 DEF WriteConfiguration, WriteMain
  <1>11. CASE Generate
    <2>1. Proceed \/ \E r : r # "ok" /\ End(r)  BY <1>11 DEF Generate
    <2>2. Took("generate")  BY <1>11 DEF Generate, Took, Takes, disk
    <2> QED  BY <1>11, <2>1, <2>2, CheckLooked DEF Generate, OptionOf, Final
  <1> QED  BY <1>2, <1>3, <1>5, <1>6, <1>8, <1>9, <1>10, <1>11 DEF Work

LEMMA NextLooked ==
  ASSUME Inv, Looked, [Next]_vars
  PROVE  Looked'
  <1>1. CASE UNCHANGED <<arguments, pc, at, paths, used, result>>
    <2>1. UNCHANGED <<inputArgs, scenario, pc, at, paths, used, result>>
      BY <1>1 DEF arguments
    <2>2. \A o : (Given(o)' <=> Given(o)) /\ (Due(o)' <=> Due(o)) /\ (Wanted(o)' <=> Wanted(o))
      BY <2>1 DEF Given, Due, HasName, Wanted, SchemaIsDue, NamesSchema, Word
    <2>3. Passed => Passed'
      BY <2>1, <2>2 DEF Passed
    <2>4. Done => Done'
      BY <2>1, <2>2 DEF Done
    <2>5. GivenIsUsed'
      BY <2>1, <2>2 DEF Looked, GivenIsUsed, Wanted, Given
    <2> QED  BY <2>1, <2>3, <2>4, <2>5 DEF Looked
  <1>2. Interfere => UNCHANGED <<arguments, pc, at, paths, used, result>>
    BY DEF Interfere
  <1>3. UNCHANGED vars => UNCHANGED <<arguments, pc, at, paths, used, result>>
    BY DEF vars, disk
  <1> QED  BY <1>1, <1>2, <1>3, ParseLooked, VerifyLooked, WorkLooked DEF Next

(***************************************************************************)
(* A run that succeeds has read from, or gone to write to, every path it    *)
(* was given and its command works with, but for the external schema of an  *)
(* index without a name or with schemas of its own.                         *)
(***************************************************************************)
THEOREM NothingGivenIsForgotten == Spec => []GivenIsUsed
  <1>1. Init => Inv /\ Looked
    BY InitInv DEF Init, Looked, GivenIsUsed
  <1>2. Inv /\ Looked /\ [Next]_vars => (Inv /\ Looked)'
    BY NextInv, NextLooked
  <1>3. Looked => GivenIsUsed  BY DEF Looked
  <1> QED  BY <1>1, <1>2, <1>3, PTL DEF Spec
=============================================================================
