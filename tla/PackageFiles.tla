----------------------------- MODULE PackageFiles -----------------------------
(***************************************************************************)
(* From packages to index files: CHIndexerBase::_WriteIndexFiles and what   *)
(* follows it in CHIndexerBase::Process and MakePriNewVersionedPack, over   *)
(* the state machine of CPackageInfo.                                       *)
(*                                                                         *)
(* Every package is built, perhaps read, and written.  The calls have to    *)
(* come in an order the package allows: reading a package before it is      *)
(* written freezes it, writing it deletes its builder, and a package keeps  *)
(* a pointer to a schema that belongs to a reader of the main package.      *)
(*                                                                         *)
(* The program is sequential.  Any call of the MRM library, which is not in *)
(* the repository, may fail.                                                *)
(***************************************************************************)
EXTENDS Naturals, Sequences

CONSTANTS
  Main,      \* _pMainPackage
  Fat,       \* _pFatPackage, if the index is split
  Packs,     \* _resourcePackages in the order of their names, if it is split
  Options    \* see OptionsAssumption

PackSet  == {Packs[i] : i \in DOMAIN Packs}
Packages == {Main, Fat} \cup PackSet

ASSUME PackagesAssumption ==
  /\ Packs \in Seq(PackSet)
  /\ Main # Fat /\ Main \notin PackSet /\ Fat \notin PackSet
  /\ \A i, j \in DOMAIN Packs : Packs[i] = Packs[j] => i = j

(***************************************************************************)
(* split: _eRpMode is not FatPack.  permission: _eSchemaPermission.         *)
(* reference: the profile of resource packages refers to the schema of the  *)
(* main package (omitSchemaFromResourcePacks).  reverse, quiet, validate:   *)
(* of IbcOptions.  log, dump, mapping: index log, schema and mapping files  *)
(* are asked for.                                                           *)
(***************************************************************************)
Flags == {"split", "reference", "reverse", "quiet", "validate", "log", "dump", "mapping"}

ASSUME OptionsAssumption ==
  \A o \in Options :
    /\ o \in [flags : SUBSET Flags, permission : {"none", "readOnly", "writable"}]
    /\ o.permission = "readOnly" => "validate" \notin o.flags

VARIABLES
  options,  \* of this build
  pc, k,    \* the step that is next, and the package a loop has come to
  state,    \* _ePackageState of each package
  builder,  \* the packages with a _pPriFileBuilder
  schema,   \* the owner of _pSchema: a reader, the input file or none
  override, \* the packages whose _overrideSchemaFile is the reader "status"
  readers,  \* the readers of the main package that live across calls
  covered,  \* the packages in the reverse map
  files,    \* the files in the output folder
  error     \* what has ended the build

vars == <<options, pc, k, state, builder, schema, override, readers, covered, files, error>>

pkg == <<state, builder, schema, override>>

Is(flag) == flag \in options.flags

\* The packages that get a file, and the one among them that is never a
\* resource package.
WrittenIf(flags) == IF "split" \in flags THEN {Fat} \cup PackSet ELSE {Main}

Written == WrittenIf(options.flags)
Target  == IF Is("split") THEN Fat ELSE Main

Init ==
  /\ options \in Options
  /\ pc = "buildMain" /\ k = 1
  /\ state = [p \in Packages |-> "Initial"]
  /\ builder = {} /\ override = {} /\ readers = {} /\ covered = {} /\ files = {}
  /\ schema = [p \in Packages |-> "none"]
  /\ error = "none"

-----------------------------------------------------------------------------
(***************************************************************************)
(* One call of a package.  A call in the wrong state sets                   *)
(* E_DEF_IBC_INVALID_STATE; any error ends the build, and the readers that  *)
(* live across calls are deleted.                                           *)
(***************************************************************************)
Raise(e) ==
  /\ pc' = "done" /\ error' = e /\ readers' = {}
  /\ UNCHANGED <<options, k, covered>>

GoTo(step) == pc' = step /\ k' = 1 /\ UNCHANGED <<options, error>>
Continue   == k' = k + 1 /\ UNCHANGED <<options, pc, error>>

Refuse == Raise("invalid state") /\ UNCHANGED <<pkg, files>>

\* CPackageInfo::Build with a schema of the given owner.  If the builder cannot
\* be populated it is left behind, in a package that stays in its state.
Build(p, owner, Then) ==
  IF state[p] # "Initial" THEN Refuse
  ELSE \/ /\ state' = [state EXCEPT ![p] = "BuilderCreated"]
          /\ builder' = builder \cup {p}
          /\ schema' = [schema EXCEPT ![p] = owner]
          /\ Then
          /\ UNCHANGED <<override, covered, files>>
       \/ /\ builder' = builder \/ builder' = builder \cup {p}
          /\ schema' = [schema EXCEPT ![p] = owner]
          /\ Raise("library")
          /\ UNCHANGED <<state, override, files>>

(***************************************************************************)
(* The schema a reader of the package resolves references with: that of the *)
(* override, or the one the package was built with if its profile refers to *)
(* schemas.  Only resource packages, and the main package of the command    *)
(* resourcepack, have such a profile.                                       *)
(***************************************************************************)
Refers(p) == Is("reference") /\ (p \in PackSet \/ (p = Main /\ options.permission = "readOnly"))

Resolves(p, overridden) ==
  IF p \in overridden THEN "status" \in readers
  ELSE Refers(p) => schema[p] = "input" \/ schema[p] \in readers

\* CPackageInfo::GetReader, after the packages with an override have become
\* the given ones.
ReadWith(overridden, p, Then) ==
  /\ override' = overridden
  /\ UNCHANGED <<builder, schema, files>>
  /\ \/ /\ state[p] \in {"Initial", "BuilderCreated"}
        /\ Raise(IF state[p] = "Initial" THEN "invalid state" ELSE "library")
        /\ UNCHANGED state
     \/ /\ state[p] # "Initial"
        /\ state' = [state EXCEPT ![p] = IF @ = "BuilderCreated" THEN "Finalized" ELSE @]
        /\ IF Resolves(p, overridden) THEN Then \/ Raise("library") ELSE Raise("dangling schema")

Read(p, Then) == ReadWith(override, p, Then)

\* MUTANT: the builder is deleted and the pointer to it kept.
WriteToFile_KeepsBuilder(p, Then) ==
  IF state[p] \notin {"BuilderCreated", "Finalized"} THEN Refuse
  ELSE \/ /\ state[p] = "BuilderCreated"
          /\ state' = [state EXCEPT ![p] = "FileWritten"]
          /\ files' = files \cup {[package |-> p, kind |-> "pri"]}
          /\ Then
          /\ UNCHANGED <<builder, schema, override, readers, covered>>
       \/ /\ files' = files \/ files' = files \cup {[package |-> p, kind |-> "pri"]}
          /\ Raise("library")
          /\ UNCHANGED pkg

\* CPackageInfo::WriteToFile.  A package that has been read is not written,
\* without an error.
WriteToFile(p, Then) ==
  IF state[p] \notin {"BuilderCreated", "Finalized"} THEN Refuse
  ELSE \/ /\ state[p] = "BuilderCreated"
          /\ state' = [state EXCEPT ![p] = "FileWritten"]
          /\ builder' = builder \ {p}
          /\ files' = files \cup {[package |-> p, kind |-> "pri"]}
          /\ Then
          /\ UNCHANGED <<schema, override, readers, covered>>
       \/ /\ state[p] = "Finalized"
          /\ Then
          /\ UNCHANGED <<pkg, readers, covered, files>>
       \/ /\ files' = files \/ files' = files \cup {[package |-> p, kind |-> "pri"]}
          /\ Raise("library")
          /\ UNCHANGED pkg

-----------------------------------------------------------------------------
\* MUTANT: the main package is also read when it is the one to be written.
BuildMain_ReadsAlways ==
  /\ pc = "buildMain"
  /\ Build(Main, IF options.permission = "none" THEN "none" ELSE "input",
           GoTo("readMain") /\ UNCHANGED readers)

BuildMain ==
  /\ pc = "buildMain"
  /\ Build(Main, IF options.permission = "none" THEN "none" ELSE "input",
           GoTo(IF Is("split") THEN "readMain" ELSE "reverse") /\ UNCHANGED readers)

ReadMain ==
  /\ pc = "readMain"
  /\ Read(Main, GoTo(IF Is("split") THEN "buildFat" ELSE "reverse")
                /\ readers' = {"build"} /\ UNCHANGED covered)

BuildFat ==
  /\ pc = "buildFat"
  /\ Build(Fat, "build", GoTo("buildPack") /\ UNCHANGED readers)

\* MUTANT: a resource package that cannot be built is passed over.
BuildPack_PassesOver ==
  /\ pc = "buildPack"
  /\ IF k \in DOMAIN Packs
     THEN \/ Build(Packs[k], "build", Continue /\ UNCHANGED readers)
          \/ Continue /\ UNCHANGED <<pkg, readers, covered, files>>
     ELSE GoTo("reverse") /\ readers' = {} /\ UNCHANGED <<pkg, covered, files>>

BuildPack ==
  /\ pc = "buildPack"
  /\ IF k \in DOMAIN Packs
     THEN Build(Packs[k], "build", Continue /\ UNCHANGED readers)
     ELSE GoTo("reverse") /\ readers' = {} /\ UNCHANGED <<pkg, covered, files>>

\* MUTANT: only the first file contributes to the reverse map.
AddReverseMap_TargetOnly ==
  /\ pc = "reverse"
  /\ IF Is("reverse") /\ Target \in builder
     THEN covered' = {Target} ELSE UNCHANGED covered
  /\ GoTo("write")
  /\ UNCHANGED <<pkg, readers, files>>

\* _AddReverseMapSection.  Without a builder there is silently no reverse map,
\* and a resource package without one is not expected.
AddReverseMap ==
  /\ pc = "reverse"
  /\ UNCHANGED <<pkg, files>>
  /\ \/ /\ ~(Is("reverse") /\ Target \in builder)
        /\ GoTo("write") /\ UNCHANGED <<readers, covered>>
     \/ /\ Is("reverse") /\ Target \in builder
        /\ \/ Written \subseteq builder /\ GoTo("write") /\ covered' = Written /\ UNCHANGED readers
           \/ Written \subseteq builder /\ Raise("library")
           \/ ~(Written \subseteq builder) /\ Raise("null builder")

WriteTarget ==
  /\ pc = "write"
  /\ WriteToFile(Target, GoTo(IF Is("split") THEN "writePack" ELSE "status"))

WritePack ==
  /\ pc = "writePack"
  /\ IF k \in DOMAIN Packs
     THEN WriteToFile(Packs[k], Continue)
     ELSE GoTo("status") /\ UNCHANGED <<pkg, readers, covered, files>>

-----------------------------------------------------------------------------
\* _WriteStatusToStream.  Nothing is reported of an index without resources.
ReportMain ==
  /\ pc = "status"
  /\ Read(Main, UNCHANGED covered /\
       \/ GoTo("validate") /\ UNCHANGED readers
       \/ ~Is("quiet") /\ Is("split") /\ GoTo("statusFat") /\ readers' = {"status"})

\* CPackageInfo::WriteStatusToStream.
Report(overridden, p, Then) ==
  IF state[p] # "FileWritten"
  THEN override' = overridden /\ Raise("invalid state") /\ UNCHANGED <<state, builder, schema, files>>
  ELSE ReadWith(overridden, p, Then)

ReportFat ==
  /\ pc = "statusFat"
  /\ Report(override, Fat, GoTo("statusPack") /\ UNCHANGED <<readers, covered>>)

\* MUTANT: the resource package is left to the schema it was built with.
Overridden_Never(p) == override

\* The reader of the main package is what references of a resource package are
\* resolved with from here on, when resource packages omit their schema, as every
\* build of this command line asks them to.
Overridden(p) == override \cup {p}

ReportPack ==
  /\ pc = "statusPack"
  /\ IF k \in DOMAIN Packs
     THEN Report(Overridden(Packs[k]), Packs[k], Continue /\ UNCHANGED <<readers, covered>>)
     ELSE GoTo("validate") /\ readers' = {} /\ UNCHANGED <<pkg, covered, files>>

\* _ValidateFullPackage.
Validate ==
  /\ pc = "validate"
  /\ IF Is("validate") THEN Read(Main, GoTo("log") /\ UNCHANGED <<readers, covered>>)
     ELSE GoTo("log") /\ UNCHANGED <<pkg, readers, covered, files>>

(***************************************************************************)
(* Calls that read a package that has been written and leave it as it is:   *)
(* CPackageInfo::AddContentsToLogNode and GenerateMappingFile.              *)
(***************************************************************************)
Describe(p, more, Then) ==
  IF state[p] # "FileWritten" THEN Refuse
  ELSE /\ \/ files' = files \cup more /\ Then /\ UNCHANGED <<readers, covered>>
          \/ (files' = files \/ files' = files \cup more) /\ Raise("library")
       /\ UNCHANGED pkg

\* _CreateMetaDataFile.  The log itself goes to a path of its own, not to the
\* output folder.
LogTarget ==
  /\ pc = "log"
  /\ IF Is("log") THEN Describe(Target, {}, GoTo(IF Is("split") THEN "logPack" ELSE "dump"))
     ELSE GoTo("dump") /\ UNCHANGED <<pkg, readers, covered, files>>

LogPack ==
  /\ pc = "logPack"
  /\ IF k \in DOMAIN Packs THEN Describe(Packs[k], {}, Continue)
     ELSE GoTo("dump") /\ UNCHANGED <<pkg, readers, covered, files>>

\* GetBuiltPriFile, for the schema file.
DumpSchema ==
  /\ pc = "dump"
  /\ IF Is("dump") THEN Read(Main, GoTo("map") /\ UNCHANGED <<readers, covered>>)
     ELSE GoTo("map") /\ UNCHANGED <<pkg, readers, covered, files>>

MapFile(p) == {[package |-> p, kind |-> "map"]}

MapTarget ==
  /\ pc = "map"
  /\ IF Is("mapping")
     THEN Describe(Target, MapFile(Target), GoTo(IF Is("split") THEN "mapPack" ELSE "done"))
     ELSE GoTo("done") /\ UNCHANGED <<pkg, readers, covered, files>>

MapPack ==
  /\ pc = "mapPack"
  /\ IF k \in DOMAIN Packs THEN Describe(Packs[k], MapFile(Packs[k]), Continue)
     ELSE GoTo("done") /\ UNCHANGED <<pkg, readers, covered, files>>

Terminated == pc = "done" /\ UNCHANGED vars

Next == \/ BuildMain \/ ReadMain \/ BuildFat \/ BuildPack \/ AddReverseMap
        \/ WriteTarget \/ WritePack \/ ReportMain \/ ReportFat \/ ReportPack
        \/ Validate \/ LogTarget \/ LogPack \/ DumpSchema \/ MapTarget \/ MapPack
        \/ Terminated

Spec == Init /\ [][Next]_vars

-----------------------------------------------------------------------------
Steps == {"buildMain", "readMain", "buildFat", "buildPack", "reverse", "write", "writePack",
          "status", "statusFat", "statusPack", "validate", "log", "logPack", "dump", "map",
          "mapPack", "done"}

(***************************************************************************)
(* The types, and that a package has its builder as long as it is built but *)
(* not written.                                                             *)
(***************************************************************************)
TypeOK ==
  /\ options \in Options
  /\ pc \in Steps /\ k \in 1..(Len(Packs) + 1)
  /\ state \in [Packages -> {"Initial", "BuilderCreated", "Finalized", "FileWritten"}]
  /\ \A p \in Packages : state[p] \in {"BuilderCreated", "Finalized"} => p \in builder
  /\ \A p \in Packages : state[p] = "FileWritten" => p \notin builder
  /\ schema \in [Packages -> {"none", "input", "build"}]
  /\ builder \subseteq Packages /\ override \subseteq Packages
  /\ readers \subseteq {"build", "status"}
  /\ covered \subseteq Packages
  /\ files \subseteq [package : Packages, kind : {"pri", "map"}]
  /\ error \in {"none", "library", "invalid state", "null builder", "dangling schema"}

(***************************************************************************)
(* However the build ends, the indexer has called its packages only in      *)
(* states they allow, has found the builders it needs, and has resolved no  *)
(* schema reference with a schema whose reader was deleted.                 *)
(***************************************************************************)
NeverMisused == error \in {"none", "library"}

(***************************************************************************)
(* No index file is written before every package has been built: a package  *)
(* that cannot be built leaves nothing in the output folder.                *)
(***************************************************************************)
NoFileUnlessBuilt ==
  files # {} => \A p \in Written : state[p] \in {"BuilderCreated", "FileWritten"}

(***************************************************************************)
(* A reverse map that was asked for covers every file of a build that       *)
(* succeeds, although it is skipped without an error if a builder is gone.  *)
(***************************************************************************)
ReverseMapComplete ==
  pc = "done" /\ error = "none" => covered = IF Is("reverse") THEN Written ELSE {}

(***************************************************************************)
(* The build does what IndexBuild promises: it succeeds only with all files *)
(* of the request written, in spite of the silent branch of WriteToFile.    *)
(***************************************************************************)
RequestOf(o) == [package : WrittenIf(o.flags),
                 kind : IF "mapping" \in o.flags THEN {"pri", "map"} ELSE {"pri"}]

Outcome == IF pc # "done" THEN "building"
           ELSE IF error = "none" THEN "built" ELSE "failed"

Promise == INSTANCE IndexBuild
             WITH Requests <- {RequestOf(o) : o \in Options},
                  request <- RequestOf(options), outcome <- Outcome

KeepsPromise == Promise!Spec
=============================================================================
