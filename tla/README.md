# A TLA+ model of MakePri

MakePri turns a project (a tree of files, string tables and configuration) into
one or more package resource index (`.pri`) files.  This directory holds a
formal model of it: TLA+ modules translated from the C++ sources, TLC
configurations that check them on small instances, and TLAPS proofs of the
properties that matter for every size.

Paths below are relative to the repository.  `PROJECT.json` lists the
components, the runs, the mutations that show each property can fail, the source
lines every definition stands for, the findings, the hazards and the theorems.

    tlc -config MCBuildRunPlain.cfg MCBuildRun.tla       # check a run
    tlapm BuildRun_proof.tla                             # check proofs

## 1. The system

`makepri new | versioned | resourcepack` works in four stages, in one thread;
`createconfig` and `dump` have only the first and a writer of XML:

    command line -> configuration -> index passes -> packages -> .pri files
                                     (indexers)      (split)     -> output folder

| Part | Source | State it keeps | Operations |
|---|---|---|---|
| Index passes | `src/src/mrt/ibc/src/CIndexPass.cpp`, `CItemInstanceSink.cpp`, `CBootStrapIndexer.cpp` | the traversal sink and the index, both shared by all passes; a sink of the pass's own; the entry in hand | run each pass in turn: push the root, pop an entry, offer it to a chain of indexers, keep it or delete it, merge or discard |
| Format specific indexers | `src/src/mrt/fsi/*` (folder, resfiles, resx, resjson, priinfo, prifile, embedfiles) | none across entries | claim an entry, push its contents, fail, or leave an error in the shared status |
| Packaging | `src/src/mrt/ibc/src/CHIndexerBase.cpp` | interned qualifier sets, main, fat and resource packages, caches of qualifier sets, the compression level of ids | pop each entry from the index and move it to the package its qualifiers call for |
| Packages and index files | `CPackageInfo.cpp`, `CHIndexerBase::_WriteIndexFiles` | the state of every package, its file builder, pointers to schemas and readers | build, read, write, report, log, describe |
| Publication | `src/src/mrt/tools/makepri/src/MakePriInternal.cpp`, `FileOperations.cpp`, `src/compat/win32/src/console.cpp` | a temporary folder, a global pointer to its name, the output folder | build there, list, ask, move, delete; a control handler that may run at any time |
| Shared status | `src/src/mrt/mrm/mrmstatus/DefStatus.cpp` | one error record, seen by everybody | set, reset, turn into a result |
| Qualifier applicator | `CQualifierApplicator.cpp`, `CBootStrapIndexer.cpp` | defaults and allowed values of the configuration; the qualifiers of the pass; the sets of the decision builder | read them, complete them, take a name apart, check, merge with those of the parent folder |
| Folder configuration | `CFIXmlConfig.cpp` | exclusion rules | normalise a rule, flags of a path |
| Schema reader, checksums | `CSchemaReader.cpp`, `CContentChecksumData.cpp` | the schema of an earlier version | compare, number versions |
| Language tags | `src/src/mrt/langs/common/src/*`, `QualifierTypes.cpp` | the parser's state and fields; the locals of a search | BCP-47 parsing, validation, formatting, ordering, distance, search, package names |
| JSON parser | `src/src/mrt/tools/jsonparser/src/*` | the value tree | recursive descent |
| Command line | `ParameterParser.cpp`, `ParameterManager.cpp`, `OptionsBase.cpp`, ... | arguments read so far, the paths of inputs and outputs | parse, verify against the files that are there, ask before overwriting, run the command |
| Configuration writer | `MrmXml.cpp`, `CQualifierApplicator.cpp` | the defaults of a new configuration | parse `/Default`, remove what is said twice, complete from the profile |
| Dump | `MrmXml.cpp`, `XmlUtil.cpp` | a document | four kinds of dump, options of what to leave out; `CPriInfoIndexer` reads them back |
| Platform layer | `src/compat/*` | last error | Windows calls on the host |

How they interact.  `CHIndexerBase::Process` calls the passes, which call the
indexers; all of them share one `IDefStatusEx`, so an error one indexer only
records decides what a later one does.  The index the passes fill is emptied by
the packaging, whose packages `_WriteIndexFiles` builds, reads and writes; the
packages share pointers to schemas that belong to readers with a shorter life.
All of that happens inside `MakePriNewVersionedPack`, in a temporary folder, and
its files are moved to the output folder afterwards.  The handler of an interrupt
runs beside all this and reaches it through a global pointer.  Before any of it
the command line has been checked against the files that are there, and other
programs may change those afterwards.  A dump leaves the program as a file and may
come back into it: any `*.pri.xml` of a project is indexed.

What is hard here.  The index work is sequential and never blocks, so its
difficulty lies in the *order* of calls and in *partial failure*: who owns an
entry when an indexer fails, what a failed pass leaves for the next, which
package may still be called after it has been read or written, what is stale in
a cache of qualifier sets, what an error in the shared status does later.  The
names of files and folders carry meaning, and hand-written machines take them
apart (a tag of a language, a qualifier, an exclusion) with few states and many
corner cases.  At the edge there are interleavings (the control handler) and a sequence of file
operations that can stop anywhere.  `PROJECT.json` lists each hazard at its line.

What makes each part correct:

- *Passes*: each entry has one owner until it is deleted; a pass is all or
  nothing; nothing pending leaks into the next pass; the index is exactly what
  the project has, whichever way the indexers are ordered; the walk ends.
- *Packaging*: no entry is lost or doubled; where it goes depends on its own
  qualifiers alone; a package reports the qualifiers of its entries; the ids fit.
- *Index files*: no package is called in a state that forbids it, no dead schema
  is used, no file is written before everything was built, success means every file.
- *Publication*: success means the request is in the output folder and nothing
  else was touched; nothing is replaced unasked; no built file is lost.
- *Qualifiers*: what a path says is in its name or in its qualifier set, whole and
  once; scored by the right default; only allowed values; what is excluded stays out.
- *Language tags*: a tag is cut into its fields and accepted by a grammar; formatting
  keeps the language; the search finds the closest; the order is an order.
- *Dump*: what is dumped can be read back; what is left out is only what is empty.
- *Command line*: no file is overwritten unasked, nothing that is given is ignored, a
  configuration that is created is one the builder reads.
- *The rest* (not modelled yet): a schema version only grows; the JSON parser frees
  what it allocated.

## 2. The modules

`IndexPass`.  One variable per sink (`traversal`, `index`, `output`) plus
`entry`, the popped one.  `pc` is the position in `CIndexPass::Process` and one
action stands for each stage: `Enter` (choose the output sink, bootstrap),
`PopEntry`, `RunIndexer` (one `Process` call of one indexer up to its loop),
`CreateEntry` / `SkipDraft` / `LoseDraft` / `CreationFails` (one turn of that loop: the
entry is created, is left out on purpose, cannot be read and is forgotten, or its failure
ends the pass), `EndGroup`
(main group, then final group), `Drain` (the failure path), `KeepEntry`,
`DisplayQualifierInfo` and `ClosePass` (merge or discard, next pass or end).
What each indexer does is an operator (`FolderStep`, `TextStep`, `ReswStep`,
`PriStep`, `EmbedStep`) from the entry, the handled flag and the shared status to
the set of its outcomes.  Addresses are identities, so that ownership can be
stated; `fresh`, `before`, `freed` and `lost` are history variables.  A file is what the
indexers tell apart: its kind, its format, what it contains, its size class,
whether it is hidden, what the exclusions leave of its flags.

`ProjectIndex`.  What the index has to hold, counted over the files alone: how often
each resource is found in a file or folder (`Inside`), by a pass (`Found`) and by a run
(`Expected`), without sinks, flags of the walk or orders of indexers.
`IndexIsTheProject` compares the two; `Regular` says which projects can be counted so.

`Packaging`.  One action for each way the body of the loop of `_ProcessIndexSink`
can end: moved by its own qualifier set, by a cached one, by one that is
computed and interned, to the fat package, or not at all (the failures), for
automatic and for manual splits.  Qualifier sets are interned in `sets` in the
order the program does it, because caches and reports speak of their indexes.
The calibration of the id compression is an operator of the order in which the
packages are walked.

`PackageFiles`.  The state machine of `CPackageInfo` (`Build`, `Read`,
`WriteToFile`, `Report`, `Describe`, each refusing the states the code refuses)
and one action for every call the build makes of a package, in order.  A call in
a wrong state, a missing builder and a schema whose reader has been deleted are
outcomes of the model, not preconditions: that they never occur is proved.

`IndexBuild`.  What building an index promises, abstractly: files appear one by
one, a mapping file only beside its index file, and success means exactly the
files of the request.  `PackageFiles` implements it (`KeepsPromise`).

`BuildRun`.  Composes `IndexBuild` (`Index == INSTANCE IndexBuild`) with the
temporary folder, the listing, the overwrite question, the move of each file and
the control handler.  `Rank` is the order a listing of a folder uses; the model
keeps it because the program drops the first result of every listing.

`QualifierNames` and `Qualifiers`.  `QualifierNames` holds what
`CQualifierApplicator` makes of a text that may name qualifiers, for the two modules
that need it.  `Qualifiers` is a pass from its configuration on: `ReadAllowed`,
`AddDefault`, `CompleteDefaults` (the defaults of the profile), `AddQualifier` and
`ApplyQualifiers` (the conditions of the pass), `ReadExclusions`, and then
`VisitFolder` and `VisitFile` of the walk, which apply the parts of each name,
check them, inherit the set of the parent folder and intern the result.  A name is a
sequence of parts that are or are not qualifiers, never characters; where two
defaults of one qualifier are kept in a map ordered by address, the model chooses.

`LanguageTag`.  `ParserStateMachine` over subtags: `ReadSubtag` is one turn of
`ParseTag`, with the transition table of the source, and the fields as offsets and
lengths; `Construct` is the constructor, with `ValidateTag` as operators over the
tables; `FindClosest` is one turn of the loop of `FindClosestInList`, and
`GetPackagingInfo` names the package of a candidate.  A subtag is a name with a form
(its length and the kinds of its characters); the tables are constants.

`PriConfiguration`.  The defaults `createconfig` writes and what a build reads of
them, as recursive functions: the removal of duplicates with its two iterators is
translated turn by turn, and a turn that leaves the map is `Undefined`.

`CommandLine`.  A run from its arguments to its files: one action for the command and
each kind of argument (`ParseCommand`, `ParseFlag`, `ParseSetting`, `RefuseArgument`), one
for each check of `VerifyParams` in its order (`Configuration`, `IndexFile`, `Output` with
the overwrite question, `IndexName`, `CheckUnexpected`, ...), one for each file the command
writes (`Publish`, `WriteLog`, `WriteDump`, `WriteConfiguration`, ...), and `Interfere`,
which makes or deletes a file between any two of them.  What is done in which order is
a table, `Stages`, of a sequence for each command.  The history variable `used` has the
options whose paths the work has read from or gone to write to.

`PriDump`.  `Dump`, `Write`, `Read`: a dump is a tree of elements made by an operator
for each function of `StandalonePriFileXml`; `Write` is what the platform's XML library
does to it; `Read` is `CPriInfoIndexer`, behind its schema on Windows and without it
elsewhere.  It uses recursive operators and has no theorems.

`MC*` modules give the constants their values.

The `*_proof` modules hold the theorems, one for each of `IndexPass`, `PackageFiles`,
`BuildRun`, `Packaging`, `Qualifiers`, `LanguageTag` and `CommandLine`.  `Recursion`
holds lemmas that several of them use: induction over the numbers, said of sets, and
the existence of functions that are defined by recursion.

## 3. What is checked

The index, packaging, file and build runs check for deadlock: their models have a
`Terminated` action for the states in which the program has ended.  The other four
models are of one sequential computation that ends, so that a state without a
successor is its end, and their configurations say `CHECK_DEADLOCK FALSE`.

| Run | States | What it shows |
|---|---|---|
| `index_project` | 471 840 | Two passes over a project with every kind of file end, in 120 orders of the indexers and whatever cannot be read; what a run that succeeds has indexed, and what its indexers went on without, are together the resources the project has (`IndexIsTheProject`, `Terminates`). |
| `index_fault` | 2 094 | With every read, parse and qualifier failing at any point: one owner per entry (`OwnedOnce`), all or nothing (`PassIsAtomic`), nothing left over (`NoLeftovers`). |
| `index_missing` | 66 252 | A run that succeeds leaves no error behind, and has a missing file in its index only if the main group of some pass never looks that file up (`MissingNeverIndexed`), though two indexers tell of it only through the shared status. |
| `packaging` | 192 601 | Every short index is split with no entry lost or doubled (`EntryOnce`), each in the package its own qualifiers call for (`EntriesAreHome`); packages report their entries' qualifiers (`ReportsItsEntries`); one walk finds the least compression that fits (`CompressionFits`). |
| `package_files` | 20 308 | Every combination of options, every failure: calls in allowed states (`NeverMisused`), nothing written before all is built (`NoFileUnlessBuilt`), the reverse map is whole (`ReverseMapComplete`), and the build implements `IndexBuild` (`KeepsPromise`). |
| `build_run` | 208 332 | Names that sort after a dot: success publishes everything (`Published`), nothing is replaced unasked (`AsksFirst`), failure and refusal touch nothing (`OutputUntouched`), no file is lost (`NoFileLost`). |
| `language_tag` | 56 197 | Every tag of up to three subtags of twelve kinds, and longer ones: `FieldsTileTheTag`, `AcceptsTheGrammar` (the parser decides as a grammar stated apart from it), `FormatKeepsLanguage`; for lists of up to twelve languages `FindsTheClosest`, `OrderIsTotal`, `GoesToItsPackage`. |
| `qualifiers` | 9 309 | Nested folders and files whose names are qualifiers, in 962 configurations: `NothingIsLost`, `ScoredByTheDefault`, `AllowedOnly`, `ExcludedStaysOut`. |
| `pri_dump` | 106 640 | Every kind of dump of several PRI files with sets of options, on both platforms, read back: `ReadsBack`, `OmitsOnlyTheEmpty`, and `Accepted`, which says of a PRI file whether the reader's schema takes its dump. |
| `command_line` | 75 840 | Some three thousand command lines over two disks, with another program making and deleting a file: `AsksFirst`, `DefaultsComeBack`, and `GivenIsUsed`: a run that succeeds has read from or gone to write to every path that was given and that its command works with. |
| `early_name` | violation | Names that sort before a dot refute `Published`: finding 1. |
| `abort_is_final` | violation | `AbortIsFinal` is refuted: finding 2. |

### Bounds, and why they are enough

- `index_project`: one tree of 16 paths with nested folders, exclusions of every
  kind, hidden, empty and huge files, a listing that names a file twice, another
  listing, and a container of each format; two passes; all 120 orders of five
  indexers behind that of `.resjson` files in one pass and reversed in the other.  Each
  branch of each indexer is taken, and pairs of indexers meet the same entry in both
  orders.  Any read may fail, so that a value is read, left out or ends the run at each
  place; TLC evaluates that the tree is `Regular` (`ProjectIsRegular`).
- `index_fault`: a smaller tree (a folder, a file, a listing, a string table), the
  six orders of three indexers, every failure on.  A failure can strike before,
  between and after the entries an indexer creates, in the first pass (which writes
  to the index) and in the second (which has a sink of its own).
- `index_missing`: every subset and order of five indexers, with and without
  embedding, three roots, one of them missing; a missing `.pri` and a missing
  `.priinfo`; a listing whose text is itself a path.
- `packaging`: every index of up to three entries over eleven qualifier sets
  (seven qualifiers of five names, two of them without a priority) and 23 configurations.
  Three entries are needed to fill a cache, use it, and meet a set interned in
  between; lengths are chosen so that every compression level is reached.
- `package_files`: two resource packages (a loop that has done one and not the
  other) and all 640 option combinations the command line allows.
- `build_run`: an index that is whole or split, with and without mapping files,
  every subset of five names in the output folder, a failure of every call and an
  interrupt at any step.
- `language_tag`: twelve subtags, one for each class the transitions tell apart (length,
  letters or digits, a digit or an x in front) and each state of a table (known, unknown,
  deprecated, suppressed); three subtags reach every pair of transitions, the other tags
  extensions, private use and a variant of letters and digits.  Lists have up to two languages behind none, six or ten
  that do not match, because the score changes its formula after the seventh and the
  twelfth, and up to three languages in any order.
- `qualifiers`: three qualifiers (one of them the language), two folders deep, names with
  no, one and several qualifiers, with known and unknown names, a device family, paths
  that reach `MAX_PATH`; all pairs of what the configuration may say of each.
- `pri_dump`: blobs of zero to four bytes (every padding), resources with and without a
  link, candidates, both or none, at the top or nested, one or two maps, versions.
- `command_line`: each command with each of its arguments, right, misspelt and doubled; an
  output that is there, is a folder, has no extension or is the same as another; an
  external schema beside index options that name another.

No counter needs a cap: the walks are over finite trees and the steps over finite
lists.  A `.resfiles` listing that names itself makes the program loop; the
instances have none, and `Terminates` is stated for those.

### Fairness

Only `Terminates` needs it.  `FairSpec` is `Spec` with `WF_vars(Step)`: the passes
run in one thread, wait for nobody and make no call that blocks, so a step that
can be taken is taken.  All other properties are safety properties of
specifications without fairness.

## 4. What is proved

For every value of the constants that satisfies the named assumptions:

| Module | Theorem | Property |
|---|---|---|
| `IndexPass_proof`, under `Regular` | `IndexCorrect` | `IndexIsTheProject` |
| `IndexPass_proof` | `TypeCorrect`, `OwnershipCorrect`, `AtomicityCorrect`, `LeftoversCorrect`, `MissingCorrect` | `TypeOK`, `OwnedOnce`, `PassIsAtomic`, `NoLeftovers`, `MissingNeverIndexed` |
| `PackageFiles_proof` | `TypeCorrect`, `CallsInOrder`, `FilesAfterBuilds`, `ReverseMapWhole`, `BuildIsPromised` | `TypeOK`, `NeverMisused`, `NoFileUnlessBuilt`, `ReverseMapComplete`, `KeepsPromise` |
| `BuildRun_proof` | `TypeCorrect`, `FilesNeverLost`, `OutputGuarded` | `TypeOK`, `NoFileLost`, `OutputUntouched` |
| `BuildRun_proof`, under `DotFirst` | `SuccessPublishes`, `ConsentAsked` | `Published`, `AsksFirst` |
| `CommandLine_proof` | `NothingLostUnasked`, `NothingGivenIsForgotten` | `AsksFirst`, `GivenIsUsed` |
| `Packaging_proof` | `TypeCorrect`, `NoEntryLost`, `EntriesHome`, `EntriesReported`, `IdsFit` | `TypeOK`, `EntryOnce`, `EntriesAreHome`, `ReportsItsEntries`, `CompressionFits` |
| `Qualifiers_proof` | `TypeCorrect`, `OnlyTheAllowed`, `ScoresAreRight`, `NothingOfThePathIsLost`, `WhatIsExcludedStaysOut` | `TypeOK`, `AllowedOnly`, `ScoredByTheDefault`, `NothingIsLost`, `ExcludedStaysOut` |
| `LanguageTag_proof` | `TypeCorrect`, `TotallyOrdered`, `ClosestIsFound`, `FieldsTile`, `GrammarAccepted`, `PackageFound` | `TypeOK`, `OrderIsTotal`, `FindsTheClosest`, `FieldsTileTheTag`, `AcceptsTheGrammar`, `GoesToItsPackage` |

*Assumptions.*  `IndexPass`: `FSAssumption` (the file system maps paths to
objects, and what the enumeration of a folder finds is there; it may have cycles, as
safety does not need termination),
`ConfigurationsAssumption` (a build has at least one pass), `MayFailAssumption`.
`PackageFiles`: `PackagesAssumption` (distinct packages, any number of them),
`OptionsAssumption` (the command `resourcepack` does not validate).  `BuildRun`:
`NamesAssumption` (the files of one request have different names),
`RankAssumption` (the listing is a strict order).  `Packaging`: finitely many
qualifiers, one priority per name unless it is 0, a token no longer than the name it
abbreviates, and what the parser of the configuration may leave.  `Qualifiers`: what the
maps of names, tokens and default values are to each other (`NamesOfQualifiers`), what a
tree and a configuration are made of (`TreeAssumption`, `ConfigurationsAssumption`), and
that `#`, which the name of no existing language is, is not a value
(`EnvironmentAssumption`).  `LanguageTag`: what can be said of the length and the
characters of a subtag (`FormAssumption`), that the tables refer to each other and that
a rank is 0 only for what is in no table (`TableAssumption`), what a tag and a list are
(`TagsAssumption`), that the undetermined language has an entry of its own
(`UndeterminedAssumption`), and, for `PackageFound`, that the entries of each table have
the form of their kind and none is replaced twice (`NamesAssumption`) and that a
grandfathered tag is replaced by a language or by a tag that begins with the same one
(`GrandfatheredAssumption`): the tables of `SubtagTables.cpp` are such.  TLC evaluates all of them on the instances of the runs.

*IndexPass.*  The sinks are sequences, so the proof starts from lemmas on what
`Append`, `SubSeq`, `\o` and `Reverse` do to the identities of a sink and to their
distinctness.  `OwnedOnce` is inductive together with `TypeOK`; `PassIsAtomic`
needs `Separate` (a pass that found entries has its own sink), and `NoLeftovers`
needs that the traversal is already empty when the qualifiers are displayed
(`TraversalEmptied`).  `MissingNeverIndexed` speaks of a file and of a status that other
files share: `MissingInv` follows an entry for what is not there (`Gone`) from the
traversal sink on, where it is traversed; through a group, in which each indexer that has
run has let it pass and the others have still to run (`Running`); into a sink, which it
reaches only if it is `Excused`: a pass has overlooked it, or the error it left is
recorded and no folder indexer runs in this pass, which alone forgets one (`Held`).  In
the second case the pass fails, and its sink is never merged.

`IndexIsTheProject` is proved for every project that is `Regular`: nothing is missing, no
text of a file spells a path, a folder does not end in the extension of a container, no
listing leads back to itself (each path is higher than what it names, for some heights),
and a pass has each indexer once and embeds files, if at all, in its final group.  Each of
these is needed: a missing file, a listing read as a path and a listing that names itself
are hazards of their own.  The number of passes, their roots, the order of the
indexers, the files and the failures are any.  The invariant is a balance
(`Balanced`): for each resource, what the index and the pass's sink hold, what the pending
entries still yield and what is still to come of the entry in hand add up to what the
passes up to this one have to find; every action moves a number from one of these terms to
another.  A string can leave it unread: the resw indexer resets the status after each item,
and those of `.pri.xml` and `.pri` files overwrite the result of one value with that of the
next.  What these three leave out is counted in `lost`, which is a term of the balance, and
nothing else is there (`Unread`); so every other resource is `Sure`.  The balance needs to know where a run
without errors stands (`Course`): the entries in the sinks are such as the indexers
push, a retained entry is one that no indexer so far claims, and an entry that a later
indexer of the main group claims has not been claimed yet, since no two indexers claim one
entry (`ClaimsOnce`).  `Inside` is a recursive function over the files; that it is defined
and counts what its equation says is shown by induction on the height.

*PackageFiles.*  `Inv` is `TypeOK`, `Shape` (the state of every package at each
step of a build that has not failed, including the index of a loop), `Covers`,
`Holds` (the files at each step) and `NoFileUnlessBuilt`.  `NeverMisused` is not
inductive: that the next call will be allowed follows from the states all earlier
calls have left, which is `Shape`.  For `BuildIsPromised` every step maps to
`Produce`, `Succeed`, `Fail` or a stutter of `IndexBuild`; `Holds` supplies the
files a success has, in spite of the branch of `WriteToFile` that writes nothing
and reports no error.

*BuildRun.*  `Inv` adds `Staged`, what holds at each stage, to the
properties.  Publication needs `Moving`, which ties the output folder to the names
still to move, and this holds only if `DotFirst`: no name sorts before `.`.  The
condition cannot be dropped, as `early_name` shows.  BuildRun uses the files of
the build only through `IndexBuild`, which `PackageFiles` is proved to implement.

*CommandLine.*  No assumption on the command lines, the folders or the other program is
used.  `AsksFirst` speaks of the end of a run, the question is asked in its middle and
a path passes through a default, an extension and a folder in between; `Inv` therefore
says of every output that its path has been agreed to, was not there at the start or has
been touched (`Cleared`), that what a file was at the start it still is until it is
touched or written (`Kept`), and that `-overwrite` and the stages never change once the
arguments are read.  Another program may make a file between question and write; such
a file is `touched` and no promise of this program's.  `GivenIsUsed` needs an
invariant along the table of stages (`Looked`): every stage of the checks that has been
passed has found the path of its option, if that was given (`Passed`), and every stage of
the work that has been passed has taken up the paths that were found (`Done`).  Where
`IndexName` skips two stages the external schema is not due, because there is no name, and
where an index option names a schema the work reads that one (`SchemaIsDue`).

*Packaging.*  Each of the eight kinds of step is first reduced to one description, `SplitStep`: an entry is
popped, the table of qualifier sets only grows (`Extends`), and the entry is placed
where its own qualifiers say or the build fails (`Placed`).  That needs `CacheOK`, the
heart of the argument: what the cache holds for a QSI is what would be computed for its
set now, also after other sets were interned; that a match has one qualifier
(`MatchIsSingle`), so that interning the qualifiers one by one makes it known; and that a
dominant qualifier, where there is one, has the highest priority of all
(`DominantIsTop`).  `NoEntryLost`, `EntriesHome` and `EntriesReported` then look only at
`SplitStep`.  Popped ids are distinct, and an automatic split lists no package without
an entry.  `CompressionFits` is about a walk that never returns to the packages it has
passed.  The packages before the one where a level begins fit at the level before it, and
with a shorter form of each segment an id is no longer (`FitsOn`): so these packages fit
at every later level too.  The length of an id is a fold over the segments of a name; that
it is defined and grows with the lengths is shown by induction on the number of segments
(`FoldExists`, `FoldGrows`), for which names have to be finite (`FinitePacks`): they come
from the qualifiers of an entry.

*Qualifiers.*  Four invariants, each on top of the last.  `ConfigInv` follows the reading
of the defaults: how far it has come, what the values allowed so far are, that after it
the defaults of the profile complete them.  `SetsInv` says that the table of sets has each
set once and that the members of each, and of the set being built, are `Sound`: allowed,
and with the score the default in force gives them.  Defaults are final before the first
set is interned, which is why no score is stale.  `TreeInv` says that what waits has a
parent that is an entry and is traversed, and `EntriesInv` that an entry stands where its
path says and that its name and its set tell its path (`Stands`, `Tells`); the set of a
folder goes down to what is in it.  `AllowedOnly` follows from the first two: what a
folder hands down has been checked when it was read.  The multimap a text is read into is
a sequence with the pairs of the text in an order of its own, and `UpToNumbers` shows
that none is lost or doubled in it.

*LanguageTag.*  A step of the machine is described once by the field it takes the subtag
for (`Takes`), and the theorems look at that description.  `FieldsTileTheTag` is an
invariant of the fields read so far (`Tiled`): each begins where another has ended, in the
order of their kinds, and the last ends before the next subtag.  Where a subtag begins is
a sum over those before it, defined by recursion; `Recursion` shows that there is such a
sum and that it is what the machine counts.  `AcceptsTheGrammar`
compares the machine with a grammar stated without it, so it needs to know at each subtag
where in the grammar the machine is: `Follows` (the fields and flags that the subtags read
so far call for) and `Reads` (each state of the machine is a prefix of the grammar), by
induction over the run of the machine.  `FindsTheClosest` needs `Sought`: no item up to
the index matches in its region, and to each that matches in language and script there is
one behind the index that is as close, for which the loop has let it go.  `OrderIsTotal`
compares what the tables give: the rule that turns the order of regions around for a tag
without one is an order only because every region of the table has a rank above that of
none, and the constructor leaves no other region in a language (`LanguagesInv`).

`PackageFound` takes a candidate through all of these: its tag is read, its language is
looked for among the packages, then its neutral form, which is written from the text or
from the tables and read again.  First, the neutral form begins with the language, perhaps
with a script behind it, and has no extended language of its own (`Neutralises`, by cases
for tags that keep their text, such as the tables give back, pseudo-locales and tags of
digits: `NeutralIs`); `ShapeIs` gives the fields of any tag for it, by induction over the
run of the machine.  Second, such a form read again is of the same language and script or
of none (`ReadsNeutral`), unless it is itself grandfathered.  Third, the search returns a
first best score (`ClosestIs`), a score above zero means language and script in common
(`CloseIs`), and only a language equal to it has the highest (`AloneIs`), so that equal
packages win (`SameIsClosest`).  `PackagesInv` ties this to the run.

*Only model-checked.*  `Terminates` (liveness); everything about `PriDump`, which
is made of recursive operators; `DefaultsComeBack`, whose lists are filtered and folded
by operators of the library that the prover cannot unfold; and, of `LanguageTag`,
`FormatKeepsLanguage`, which is about the whole of a formatted tag: where a region or a
variant follows, the result may be another tag of the table of grandfathered ones, so that
it holds because of what the tables contain and not for every table of the shape the
assumptions describe.

## 5. Findings

1. `_GetListOfSourceFiles` (`FileOperations.cpp:122`) drops what `FindFirstFileW`
   found and lists only what `FindNextFileW` finds.  The compatibility layer sorts
   the listing together with `.` and `..` (`src/compat/win32/src/files.cpp:366`), so
   the dropped name is `.` unless an output name sorts before it: a name that
   begins with a hyphen or a parenthesis, for example.  The first such file is
   not moved, stays in the temporary folder, and the run reports success.
2. The control handler prints "Makepri Aborted" and returns `FALSE` so that a
   default handler ends the process (`MakePriInternal.cpp:33`).
   `DispatchControlSignal` (`console.cpp:25-38`) has none: the program goes on,
   and may print "Successfully Completed".

What the model also shows, without a document that says otherwise: the
temporary folder is deleted only if it is empty, since the names in it are joined
to its path without a separator; and the handler reads a global pointer that is
null before the folder is created and dangles after the run.  Others, each seen while
a property was stated so that it holds:

- *Languages.*  A script in a tag is taken for a region, so that `zh-Hans-CN` has no
  known region and `NormalizeLanguageTag("fil-PH")`, which is `fil-Latn-PH`, reads back
  as another language; `FormatKeepsLanguage` says when it does not.  A tag with an
  unknown region has no script that is compared, and goes to a package of its language in
  whatever script.  The neutral form of `no-bok-NO` is `no-bok`, a grandfathered tag for
  another language, whose package it may go to; `GoesToItsPackage` allows for both.  A tag with an
  empty extension before its last (`en-a-bb-c`), and one that begins with a year
  (`1994`), are well-formed.  Of two packages a candidate may go to, `QualifierTypes.cpp:171`
  compares the addresses of the names where the scores are at hand.
- *Qualifiers.*  The name of an allowed qualifier must not be its token (`lang`).  With two
  defaults of one qualifier the one at the lower address scores.  A path of `MAX_PATH`
  characters escapes every exclusion.  The order of the configuration decides whether a
  value that is not allowed skips the file or fails the build.
- *Dump.*  On the portable platform `put_text` (`src/compat/win32/src/xml.cpp:511`)
  takes markup for markup: a resource whose text has an ampersand is lost or changed.
  Windows refuses the dump of a PRI file with several maps, several versions, or a resource
  at the top, and of a linked resource with a decision (`Acceptable`).
- *Index.*  A value that cannot be read is forgotten, and the build succeeds without it,
  when the item of a `.resw` file is done (`CResxIndexer.cpp:91`), and in a `.pri.xml` or
  `.pri` file when the next one succeeds (`CPriInfoIndexer.cpp:505`,
  `CPriFileIndexer.cpp:185`); `IndexIsTheProject` says that nothing else is lost.
- *Command line.*  A mistyped `/Manifest` gives the index the name `Application` and
  `/ExternalSchema` and `/ExtensionDll` are forgotten (`ParameterManager.cpp:176`).
  `/ExtensionDll` is checked (`ParameterManager.cpp:268`) and then read by no command,
  though the help lists it (`makepri.rc:153`); `GivenIsUsed` is not about it, nor about the
  external schema of `createconfig`, which is checked as well and has no use there.  A
  repeated value at the end of `/Default` moves an iterator past the end
  (`CQualifierApplicator.cpp:976`), and three alike leave two.  `/Verbose` and
  `/AutoMerge` overwrite the index without the question (`MakePriInternal.cpp:451`).  Mapping
  files (`MakePriInternal.cpp:439`) are written to the temporary folder and published behind
  the same question as the index, so that `CommandLine` has no stage for them.

## 6. What is not modelled, and why

- The MRM library (builders, readers, sections) is not in the repository.  A call
  of it succeeds or fails; what a file contains is out of reach.
- Allocation failures.  They are checked everywhere in the code and would add
  a failing branch to each action without a new path.
- Formatting, logging, messages, spelling of paths and encodings.
- Limits of length and special cases: the `qut` of `Language.cpp:286` and `471` and the 84
  characters of `Format` (`591`, `861`); exclusions of `MAX_PATH` characters and more, which
  are ignored (`CFIXmlConfig.cpp:288`); builds that keep the schema in resource packages,
  which this command line never asks for (`CHIndexerBase.cpp:2547`).
- Which passes, indexers and packages a configuration yields: `IndexPass` and
  `Packaging` take any that the parser may leave.
- The payloads of `.resw` and `.resjson` files, the JSON parser, and the merge of
  whole `.pri` files.
- The schema reader and the content checksums; the extension DLL.
- The contents of the tables of subtags and profiles: the models have the lookups
  and a few entries.  Most of the platform layer has no state of its own.

## 7. Plan

In order, with what each adds:

1. `Qualifiers`, the rest of the applicator: the manifest qualifiers and the
   profile's build priorities that `Packaging` takes as constants.
2. `SharedStatus`: the error record and its first-or-last writer rules, with
   `Reset`; `IndexPass` would then implement its two-valued view of it.
3. `SchemaVersion`: schema reader and checksums, and a sequence of builds in
   which each reads what the one before has written.
4. `PackagingConfiguration`: which configurations `ParsePackagingNode` leaves, now an
   assumption of `Packaging`.
5. `JsonParser`: recursive descent over classes of tokens, the ownership of values
   on failure; then the payloads of the text indexers.
6. Composition: `CommandLine` gives `PackageFiles` and `BuildRun` their options,
   `Qualifiers` gives `IndexPass` the flags of its paths; now each takes any.
7. `PriDump` with recursive functions in place of its recursive operators, so that
   `OmitsOnlyTheEmpty` and `ReadsBack` can become theorems; for
   `FormatKeepsLanguage`, the conditions on the tables under which it is one.

Each comes as a module, an MC module and a configuration with its mutants.
