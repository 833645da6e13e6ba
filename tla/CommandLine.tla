------------------------------ MODULE CommandLine ------------------------------
(***************************************************************************)
(* A run of makepri, from its command line to the files it writes.          *)
(* ParameterParser reads the arguments one by one, ParameterManager checks  *)
(* them against the files that are there, asking before one of them would   *)
(* be overwritten, and the command then works.  Other programs go on making *)
(* and deleting files meanwhile.                                            *)
(*                                                                         *)
(* The build of an index is BuildRun, the text of a dump is PriDump; here   *)
(* they succeed or fail, and write.                                        *)
(***************************************************************************)
EXTENDS Naturals, Sequences, PriConfiguration

CONSTANTS
  CommandLines, \* sequences of arguments
  Words,        \* of each argument, what it says wherever it may stand
  Within,       \* of each path that is a folder, the name its files have it by
  Places,       \* those names, and those of other files a path may go through
  Dotted,       \* those in which there is a dot
  Disks,        \* sets of files that may be there at first
  Manifest,     \* of a path what is there as a manifest: "named", "nameless" or "broken"
  Others        \* the paths that other programs make and delete

Commands == {"New", "Versioned", "ResourcePack", "Dump", "CreateConfig"}
Builds == {"New", "Versioned", "ResourcePack"}
Flags == {"verbose", "help", "overwrite", "autoMerge", "reverseMap"}
Inputs == {"projectRoot", "configXml", "manifest", "indexFile", "extensionDll", "externalSchema"}
Outputs == {"outputFile", "indexLog", "schemaFile"}
Settings == Inputs \cup Outputs \cup
  {"indexName", "defaultQualifiers", "outputOptions", "indexOptions", "versionMajor", "dumpType",
   "mappingFile", "platformVersion"}
Options == Flags \cup Settings

Unset == "unset"

ASSUME WordsAssumption ==
  /\ Unset \notin DOMAIN Words
  /\ \A line \in CommandLines : \A i \in DOMAIN line : line[i] \in DOMAIN Words

VARIABLES
  line,      \* the arguments
  rest,      \* those that have not been read
  scenario,  \* the command, or "None"
  inputArgs, \* of each option the argument that sets it, or Unset
  pc,        \* "command", "options", "work" or "ended"
  at,        \* the stage of the work
  paths,     \* of each option that is a path, {} or the path it is
  before,    \* the files that were there when the program started
  files,     \* those that are there now
  touched,   \* the paths that other programs have made or deleted something at
  agreed,    \* those the user has agreed to have overwritten
  written,   \* those the program has written to
  used,      \* the options whose path the work has read from or gone to write to
  document,  \* the defaults of the configuration that has been made
  result     \* "running", "ok", "usage", "failed", "declined" or "crashed"

arguments == <<line, rest, scenario, inputArgs>>
disk == <<files, touched, agreed, written, used>>
vars == <<arguments, pc, at, paths, before, disk, document, result>>

Given(o) == inputArgs[o] # Unset
Word(o) == Words[inputArgs[o]]

Init ==
  /\ line \in CommandLines /\ rest = line /\ scenario = "None"
  /\ inputArgs = [o \in Options |-> Unset]
  /\ pc = "command" /\ at = 1 /\ paths = [o \in Inputs \cup Outputs |-> {}]
  /\ before \in Disks /\ files = before /\ touched = {}
  /\ agreed = {} /\ written = {} /\ used = {} /\ document = <<>> /\ result = "running"

End(r) == pc' = "ended" /\ result' = r

-----------------------------------------------------------------------------
(* ParameterParser *)

\* Parse: without arguments, or with the command Help, there is only the help.
ParseCommand ==
  /\ pc = "command"
  /\ IF line = <<>> \/ Words[Head(line)].command = "Help"
       THEN End("ok") /\ inputArgs' = [inputArgs EXCEPT !["help"] = "help"] /\ UNCHANGED <<rest, scenario>>
       ELSE /\ pc' = "options" /\ UNCHANGED <<inputArgs, result>>
            /\ IF Words[Head(line)].command \in Commands
                 THEN scenario' = Words[Head(line)].command /\ rest' = Tail(line)
                 ELSE UNCHANGED <<rest, scenario>>
  /\ UNCHANGED <<line, at, paths, before, disk, document>>

Option == Words[Head(rest)].option

\* What an option demands of its value.
Admits(option, word) ==
  CASE option = "versionMajor" -> word.number > 0
    [] option = "dumpType" -> word.dumpType
    [] option = "mappingFile" -> word.appx
    [] option = "platformVersion" -> word.platform
    [] OTHER -> TRUE

\* Only these may be given again.
Repeatable == {"dumpType", "mappingFile"}

ParseFlag ==
  /\ pc = "options" /\ rest # <<>> /\ Option \in Flags /\ ~Given(Option)
  /\ inputArgs' = [inputArgs EXCEPT ![Option] = Head(rest)]
  /\ rest' = Tail(rest)
  /\ UNCHANGED <<line, scenario, pc, at, paths, before, disk, document, result>>

\* The argument after the option is its value, whatever it looks like.
ParseSetting ==
  /\ pc = "options" /\ Len(rest) > 1 /\ Option \in Settings
  /\ Given(Option) => Option \in Repeatable
  /\ Admits(Option, Words[rest[2]])
  /\ inputArgs' = [inputArgs EXCEPT ![Option] = rest[2]]
  /\ rest' = Tail(Tail(rest))
  /\ UNCHANGED <<line, scenario, pc, at, paths, before, disk, document, result>>

\* Every other argument is an error, which help that was asked for before hides.
RefuseArgument ==
  /\ pc = "options" /\ rest # <<>>
  /\ \/ Option \notin Options
     \/ Option \in Options \ Repeatable /\ Given(Option)
     \/ Option \in Settings /\ ~(Len(rest) > 1 /\ Admits(Option, Words[rest[2]]))
  /\ End(IF Given("help") THEN "ok" ELSE "usage")
  /\ UNCHANGED <<arguments, at, paths, before, disk, document>>

\* wmain: options without a command are no error, and nothing is done.
Dispatch ==
  /\ pc = "options" /\ rest = <<>>
  /\ IF Given("help") \/ scenario = "None" THEN End("ok") ELSE pc' = "work" /\ UNCHANGED result
  /\ UNCHANGED <<arguments, at, paths, before, disk, document>>

-----------------------------------------------------------------------------
(* ParameterManager, and what each command then does *)

StagesOfNew ==
  <<"root", "configuration", "output", "log", "schemaFile", "options", "name", "extension", "schema",
    "build", "writeLog", "writeSchema", "publish">>
StagesOfRebuild ==
  <<"root", "configuration", "output", "log", "schemaFile", "options", "unexpected", "index", "extension", "schema",
    "build", "writeLog", "writeSchema", "publish">>
StagesOfDump == <<"options", "unexpected", "index", "dump", "extension", "schema", "writeDump">>
StagesOfCreateConfig ==
  <<"options", "unexpected", "configurationFile", "extension", "schema", "generate", "writeConfiguration">>

Stages(command) ==
  CASE command = "New" -> StagesOfNew
    [] command \in {"Versioned", "ResourcePack"} -> StagesOfRebuild
    [] command = "Dump" -> StagesOfDump
    [] command = "CreateConfig" -> StagesOfCreateConfig

Stage == Stages(scenario)[at]
Working(stage) == pc = "work" /\ Stage = stage
Proceed == at' = at + 1 /\ UNCHANGED <<pc, result>>

Exists(path) == path \in DOMAIN Within \cup files

Combine(folder, name, extension) == [folder |-> Within[folder], name |-> name, ext |-> <<extension>>]
Here(name, extension) == [folder |-> ".", name |-> name, ext |-> extension]

\* The default of a file in the project: without a root it is in the current folder.
InProject(name, extension) ==
  IF Given("projectRoot") THEN Combine(Word("projectRoot").path, name, extension) ELSE Here(name, <<extension>>)

\* _GetFileExtension: what follows the last dot, if need be that of a folder.
Extension(path) ==
  IF path.ext # <<>> THEN Last(path.ext) ELSE IF path.folder \in Dotted THEN "dotted" ELSE Empty

\* InitializeForInputFile; a set without extensions stands for all of them.
IsInputFile(malformed, path, extensions) ==
  /\ ~malformed /\ path \in files \ DOMAIN Within
  /\ extensions = {} \/ Extension(path) \in extensions \cup {Empty}

Initialised(o, path) == paths' = [paths EXCEPT ![o] = {path}]

\* InitializeForInputFolder.
InputFolder ==
  /\ Working("root")
  /\ IF Given("projectRoot") /\ ~Word("projectRoot").malformed /\ Word("projectRoot").path \in DOMAIN Within
       THEN Initialised("projectRoot", Word("projectRoot").path) /\ Proceed
       ELSE End("usage") /\ UNCHANGED <<at, paths>>
  /\ UNCHANGED <<arguments, before, disk, document>>

\* An input that must be there: an argument, or a file that is looked for instead.
RequiredFile(o, extensions, default) ==
  LET path == IF Given(o) THEN {Word(o).path} ELSE default
  IN  /\ IF \E p \in path : IsInputFile(Given(o) /\ Word(o).malformed, p, extensions)
           THEN paths' = [paths EXCEPT ![o] = path] /\ Proceed
           ELSE End("usage") /\ UNCHANGED <<at, paths>>
      /\ UNCHANGED <<arguments, before, disk, document>>

OptionalFile(o, extensions) ==
  IF Given(o) THEN RequiredFile(o, extensions, {}) ELSE Proceed /\ UNCHANGED <<arguments, paths, before, disk, document>>

Configuration == Working("configuration") /\ RequiredFile("configXml", {"xml"}, {})
IndexFile == Working("index") /\ RequiredFile("indexFile", {"pri", "xml"}, {InProject("resources", "pri")})
ExtensionDll == Working("extension") /\ OptionalFile("extensionDll", {"dll"})
ExternalSchema == Working("schema") /\ OptionalFile("externalSchema", {"pri"})

Extended(path, extension) ==
  IF Extension(path) = extension THEN path ELSE [path EXCEPT !.ext = Append(@, extension)]

\* MUTANT: whether the file is there is found out before its extension is added.
Checked_Early(path, target) == path

\* The path whose file must not be lost.
Checked(path, target) == target

(***************************************************************************)
(* InitializeForOutputPath.  The path gets the extension if it has another; *)
(* after a slash at its end, which stays as a zero character, that has no   *)
(* effect.  A folder stands for the default file in it where it is allowed, *)
(* and is an error elsewhere.  The question is about the path with its      *)
(* extension, and any answer but yes ends the program.                      *)
(***************************************************************************)
OutputPath(o, extension, default, allowFolder, overwrite) ==
  LET given == IF Given(o) THEN Word(o).path ELSE default
      slash == Given(o) /\ Word(o).slash
      isFolder == given \in DOMAIN Within
      path == IF isFolder THEN [default EXCEPT !.folder = Within[given]] ELSE given
      target == IF slash /\ ~isFolder THEN path ELSE Extended(path, extension)
  IN  /\ IF \/ Given(o) /\ Word(o).malformed
            \/ given.folder \notin Places
            \/ slash /\ ~Exists(given)
            \/ isFolder /\ ~allowFolder
           THEN End("usage") /\ UNCHANGED <<at, paths, agreed>>
           ELSE IF overwrite \/ ~Exists(Checked(path, target))
             THEN Initialised(o, target) /\ Proceed /\ UNCHANGED agreed
             ELSE \/ Initialised(o, target) /\ Proceed /\ agreed' = agreed \cup {Checked(path, target)}
                  \/ End("declined") /\ UNCHANGED <<at, paths, agreed>>
      /\ UNCHANGED <<arguments, before, files, touched, written, used, document>>

OptionalOutput(o) ==
  IF Given(o) THEN OutputPath(o, "xml", Here("unused", <<>>), FALSE, Given("overwrite"))
  ELSE Proceed /\ UNCHANGED <<arguments, paths, before, disk, document>>

\* The index is not asked about before it is published.
Output == Working("output") /\ OutputPath("outputFile", "pri", Here("resources", <<"pri">>), TRUE, TRUE)
IndexLog == Working("log") /\ OptionalOutput("indexLog")
SchemaFile == Working("schemaFile") /\ OptionalOutput("schemaFile")
DumpFile == Working("dump") /\ OutputPath("outputFile", "xml", Here("resources", <<"pri", "xml">>), FALSE, Given("overwrite"))
ConfigurationFile ==
  Working("configurationFile") /\ OutputPath("configXml", "xml", Here("unused", <<>>), FALSE, Given("overwrite"))

Check(condition) ==
  /\ IF condition THEN Proceed ELSE End("usage") /\ UNCHANGED at
  /\ UNCHANGED <<arguments, paths, before, disk, document>>

\* OptionsBase and its two lists: words with a sign, and one that takes a value.
OutputNames == {"priheader", "indexes", "uris", "qualifierinfo", "resourcemaps", "versioninfo", "emptysubtrees",
  "emptynamedresources", "links", "namedresourcedecision", "candidates", "linkedcandidates", "sanitizexml", "rawlocators"}
IndexNames == {"hiddenfiles", "linkedfiles", "disableDeduplication", "contentChecksumCreation"}

\* The value of indexerschema is a path from which schemas can be loaded.
ParseOptionsString(tokens, names, values) ==
  /\ \A i \in DOMAIN tokens : tokens[i].name \in IF tokens[i].value = Unset THEN names ELSE values
  /\ \A i, j \in DOMAIN tokens : tokens[i].value # Unset /\ tokens[j].value # Unset => i = j
  /\ \A i \in DOMAIN tokens : tokens[i].value # Unset => Words[tokens[i].value].schema

CheckOptions ==
  /\ Working("options")
  /\ Check(/\ Given("outputOptions") =>
                /\ scenario \in {"Dump", "CreateConfig"} \/ Given("indexLog") \/ Given("schemaFile")
                /\ ParseOptionsString(Word("outputOptions").tokens, OutputNames, {})
           /\ Given("indexOptions") =>
                /\ scenario \in Builds
                /\ ParseOptionsString(Word("indexOptions").tokens, IndexNames, {"indexerschema"}))

\* MUTANT: a name that is found ends the checks as well.
IsNameless_Never(path) == Manifest[path] \in {"named", "nameless"}

\* GetSingleNodeValue finds no name.
IsNameless(path) == Manifest[path] = "nameless"

TheBuild == CHOOSE i \in DOMAIN Stages("New") : Stages("New")[i] = "build"

(***************************************************************************)
(* GetIndexNameFromAppxManifest.  When there is no manifest, even if one is *)
(* given, or no name in it, the index is called Application and             *)
(* VerifyParams returns at once: the extension and the schema that may have *)
(* been given are forgotten.                                                *)
(***************************************************************************)
IndexName ==
  LET path == IF Given("manifest") THEN Word("manifest").path ELSE InProject("AppxManifest", "xml")
      there == IsInputFile(Given("manifest") /\ Word("manifest").malformed, path, {})
  IN  /\ Working("name")
      /\ \/ Given("indexName") /\ Proceed /\ UNCHANGED paths
         \/ ~Given("indexName") /\ ~there /\ at' = TheBuild /\ UNCHANGED <<pc, result, paths>>
         \/ ~Given("indexName") /\ there /\ Manifest[path] = "broken" /\ End("usage") /\ UNCHANGED <<at, paths>>
         \/ /\ ~Given("indexName") /\ there /\ Manifest[path] # "broken" /\ Initialised("manifest", path)
            /\ at' = IF IsNameless(path) THEN TheBuild ELSE at + 1
            /\ UNCHANGED <<pc, result>>
      /\ UNCHANGED <<arguments, before, disk, document>>

UnexpectedOptions(command) ==
  CASE command = "Versioned" -> {"indexName", "versionMajor", "manifest", "platformVersion"}
    [] command = "ResourcePack" -> {"versionMajor", "manifest", "platformVersion"}
    [] command = "Dump" -> {"projectRoot", "versionMajor", "configXml", "indexName", "manifest", "schemaFile", "platformVersion"}
    [] OTHER -> {}

CheckUnexpected ==
  /\ Working("unexpected")
  /\ Check(/\ \A o \in UnexpectedOptions(scenario) : ~Given(o)
           /\ scenario = "CreateConfig" =>
                /\ Given("configXml") /\ Given("defaultQualifiers")
                /\ ~(Given("platformVersion") /\ Given("extensionDll")))

-----------------------------------------------------------------------------
(* MakePriInternal *)

\* A failure may come at any time, and have begun to write or not.
Fail(some) ==
  /\ pc = "work" /\ End("failed")
  /\ \E p \in SUBSET some : written' = written \cup p /\ files' = files \cup p
  /\ UNCHANGED <<arguments, at, paths, before, touched, used, document>>

\* The work reads the paths of these options, or goes to write to them.
TakesUp(options) == used' = used \cup {o \in options : paths[o] # {}}

\* An index option can name the file of the schemas.
NamesSchema ==
  Given("indexOptions") /\ \E i \in DOMAIN Word("indexOptions").tokens : Word("indexOptions").tokens[i].value # Unset

\* The external schema is read where no index option names one; the extension never is.
Build ==
  /\ Working("build") /\ Proceed
  /\ TakesUp({"projectRoot", "configXml", "indexFile"} \cup (IF NamesSchema THEN {} ELSE {"externalSchema"}))
  /\ UNCHANGED <<arguments, paths, before, files, touched, agreed, written, document>>
BuildFails == Working("build") /\ Fail({}) /\ UNCHANGED agreed

Write(o, some) ==
  /\ Proceed /\ TakesUp({o}) /\ written' = written \cup some /\ files' = files \cup some
  /\ UNCHANGED <<arguments, paths, before, touched, agreed, document>>

\* A log or a schema file that cannot be written need not be an error.
WriteIfPossible(o) == Write(o, paths[o]) \/ Write(o, {}) \/ (Fail(paths[o]) /\ UNCHANGED agreed)
WriteLog == Working("writeLog") /\ WriteIfPossible("indexLog")
WriteSchemaFile == Working("writeSchema") /\ WriteIfPossible("schemaFile")

Finish(options, some) ==
  /\ End("ok") /\ TakesUp(options) /\ written' = written \cup some /\ files' = files \cup some
  /\ UNCHANGED <<arguments, at, paths, before, touched, document>>

\* What the index is called: a build adds the extension in any case.
Index == {Extended(p, "pri") : p \in paths["outputFile"]}

\* MoveFiles: a question unless one of three options answers it.
Publish ==
  /\ Working("publish")
  /\ LET asked == {p \in Index : Exists(p) /\ ~Given("overwrite") /\ ~Given("verbose") /\ ~Given("autoMerge")}
     IN  \/ (Finish({"outputFile"}, Index) \/ Fail(Index)) /\ agreed' = agreed \cup asked
         \/ asked # {} /\ End("declined") /\ UNCHANGED <<arguments, at, paths, before, disk, document>>

WriteMain(o, read) == (Finish(read \cup {o}, paths[o]) \/ Fail(paths[o])) /\ UNCHANGED agreed

WriteDump == Working("writeDump") /\ WriteMain("outputFile", {"indexFile", "externalSchema"})

Generate ==
  /\ Working("generate")
  /\ LET made == GeneratePriConfig(Word("defaultQualifiers").parts)
     IN  \/ made.status = "written" /\ Proceed /\ document' = made.entries
         \/ made.status = "refused" /\ End("failed") /\ UNCHANGED <<at, document>>
         \/ made.status = "crashed" /\ End("crashed") /\ UNCHANGED <<at, document>>
  /\ UNCHANGED <<arguments, paths, before, disk>>

WriteConfiguration == Working("writeConfiguration") /\ WriteMain("configXml", {})

\* Another program makes a file or deletes it.
Interfere ==
  /\ pc = "work"
  /\ \E p \in Others :
       /\ files' = IF p \in files THEN files \ {p} ELSE files \cup {p}
       /\ touched' = touched \cup {p}
  /\ UNCHANGED <<arguments, pc, at, paths, before, agreed, written, used, document, result>>

Parse == ParseCommand \/ ParseFlag \/ ParseSetting \/ RefuseArgument \/ Dispatch
VerifyParams ==
  \/ InputFolder \/ Configuration \/ Output \/ IndexLog \/ SchemaFile
  \/ CheckOptions \/ IndexName \/ CheckUnexpected \/ IndexFile \/ DumpFile \/ ConfigurationFile
  \/ ExtensionDll \/ ExternalSchema
Work == Build \/ BuildFails \/ WriteLog \/ WriteSchemaFile \/ Publish \/ WriteDump \/ Generate \/ WriteConfiguration

Next == Parse \/ VerifyParams \/ Work \/ Interfere

Spec == Init /\ [][Next]_vars

-----------------------------------------------------------------------------
\* What may be overwritten without a question: all of it with /o, and the index
\* with /v or /am as well.
Unasked(path) ==
  \/ Given("overwrite")
  \/ scenario \in Builds /\ path \in Index /\ (Given("verbose") \/ Given("autoMerge"))

(***************************************************************************)
(* A file that was there when the program started, and that no other        *)
(* program has touched since, is not overwritten, by the log, the schema    *)
(* file, a dump, a configuration or the index, unless an option or the user *)
(* has agreed to it: about the very path that is written, not the one that  *)
(* was given.                                                               *)
(***************************************************************************)
AsksFirst == \A p \in (written \cap before) \ touched : Unasked(p) \/ p \in agreed

(***************************************************************************)
(* A configuration that createconfig has written is one that a build reads, *)
(* with the defaults that were given.                                       *)
(***************************************************************************)
DefaultsComeBack ==
  document # <<>> => ReadAsWritten(Word("defaultQualifiers").parts, document)

\* The options whose path a command works with.  Every command checks the
\* extension and none reads it; createconfig does not read the external schema.
Used(command) ==
  CASE command \in Builds -> {"projectRoot", "configXml", "outputFile", "indexLog", "schemaFile", "externalSchema"}
                             \cup (IF command = "New" THEN {} ELSE {"indexFile"})
    [] command = "Dump" -> {"indexFile", "outputFile", "externalSchema"}
    [] command = "CreateConfig" -> {"configXml"}

\* Whether the index gets its name from the options or from a manifest that is there.
HasName ==
  Given("indexName") \/ \E p \in paths["manifest"] : Manifest[p] = "named"

\* A new index without a name, and one with schemas of its own, does without the external one.
SchemaIsDue == (scenario = "New" => HasName) /\ ~NamesSchema

(***************************************************************************)
(* A run that succeeds has read from, or gone to write to, every path it    *)
(* was given and its command works with: none of them is set aside between  *)
(* the arguments, the checks and the work.  The exception is the external   *)
(* schema of a new index that has no name, or of one whose options name a   *)
(* schema.                                                                  *)
(***************************************************************************)
GivenIsUsed ==
  result = "ok" /\ scenario # "None" /\ ~Given("help") =>
    \A o \in Used(scenario) : Given(o) /\ (o = "externalSchema" => SchemaIsDue) => o \in used
=============================================================================
