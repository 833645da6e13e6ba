------------------------------ MODULE IndexPass ------------------------------
(***************************************************************************)
(* The index passes of a build: CHIndexerBase::Process runs every          *)
(* CIndexPass in turn, and each pass walks what its root contains, entry    *)
(* by entry, through the chain of format specific indexers.                 *)
(*                                                                         *)
(* An entry popped from the traversal sink is offered to each indexer of    *)
(* the main group and then, if nobody claimed it, of the final group.  An   *)
(* indexer may push new entries (the children of a folder, the contents of  *)
(* a container file), claim the entry (`handled'), record an error in the   *)
(* shared status object, or fail.  An entry nobody claimed and that carries *)
(* the index flag is retained.                                             *)
(*                                                                         *)
(* Entries carry an identity, which the program has as their address, so    *)
(* that ownership can be stated: the program allocates entries with new     *)
(* and must delete each of them once.                                       *)
(***************************************************************************)
EXTENDS Naturals, Sequences, SequencesExt

CONSTANTS
  Paths,     \* files and folders, present or missing, that a pass can meet
  NoPath,    \* not a path
  FS,        \* what each path is: see FSAssumption
  Configurations, \* the configurations a build may be given: sequences of passes
  MayFail    \* TRUE when reading, parsing and qualifying may fail

Containers == {"resfiles", "resw", "resjson", "priinfo", "pri"}
Indexers   == Containers \cup {"folder", "embedfiles"}
Flags      == {"index", "traverse"}   \* IIE_INDEXENTRY = 1, IIE_TRAVERSEENTRY = 2

(***************************************************************************)
(* kind: what GetFileAttributesW says.  format: what the extension says.    *)
(* members: the subfolders and then the files of a folder, or the lines of  *)
(* a .resfiles listing.                                                     *)
(* strings: how many resources the payload of another container gives.      *)
(* size: of the file; more than 0x1000000 bytes is "huge".  text: the path  *)
(* that the whole text of the file spells, if it spells one.  hidden: a     *)
(* file the folder indexer ignores.  flags: what the exclusions leave.      *)
(***************************************************************************)
FSObject == [kind    : {"dir", "file", "missing"},
             format  : Containers \cup {"plain"},
             members : Seq(Paths),
             strings : Nat,
             size    : {"empty", "normal", "huge"},
             text    : Paths \cup {NoPath},
             hidden  : BOOLEAN,
             flags   : SUBSET Flags]

\* What the enumeration of a folder finds is there; what a listing names may not be.
ASSUME FSAssumption ==
  /\ NoPath \notin Paths /\ FS \in [Paths -> FSObject]
  /\ \A p \in Paths : FS[p].kind = "dir" =>
       \A k \in DOMAIN FS[p].members : FS[FS[p].members[k]].kind # "missing"

PassConfig == [root : Paths, main : Seq(Indexers), final : Seq(Indexers)]

ASSUME ConfigurationsAssumption ==
  Configurations \subseteq {c \in Seq(PassConfig) : c # <<>>}

ASSUME MayFailAssumption == MayFail \in BOOLEAN

VARIABLES
  passes,     \* _indexPassList: the passes of the configuration, in order
  pc,         \* where CIndexPass::Process stands
  pass,       \* the pass being run
  traversal,  \* CHIndexerBase::_traversalSink, last entry first to be popped
  index,      \* CHIndexerBase::_indexSink
  output,     \* the pass's own sink, empty while the pass writes to index
  private,    \* pOutputSink # pIndexSink
  entry,      \* the popped entry, as a sequence of at most one
  group,      \* the indexer group being run
  todo,       \* the indexers of that group still to run
  work,       \* the entries the running indexer has still to create
  seen,       \* normalizedPaths: what its listing has named so far
  lost,       \* what could not be read and was left out (history)
  handled, retain, result,
  status,     \* the IDefStatusEx all indexers share
  fresh,      \* the next identity (history)
  before,     \* the index when the pass began (history)
  freed       \* identities of deleted entries (history)

sinks == <<traversal, index, output, entry>>
loop  == <<group, todo, work, seen, lost>>
vars  == <<passes, pc, pass, sinks, private, loop, handled, retain, result,
           status, fresh, before, freed>>

Outcomes == {"ok", "failed"}
Items    == {"Path", "String", "Embedded"} \cup Containers
Draft    == [path : Paths, item : Items, flags : SUBSET Flags]
Entry    == [id : Nat \ {0}, path : Paths, item : Items, flags : SUBSET Flags]

\* A draft becomes an entry, with an identity of its own.
New(draft) ==
  [id |-> fresh, path |-> draft.path, item |-> draft.item, flags |-> draft.flags]

Ids(sink) == {sink[k].id : k \in DOMAIN sink}

-----------------------------------------------------------------------------
(***************************************************************************)
(* What an indexer does to an entry e, given the handled flag h and the     *)
(* status s it finds: the result it returns, the flag and the status it     *)
(* leaves, and the entries it then goes on to create one by one.            *)
(***************************************************************************)
Outcome(r, h, s, new) == [result |-> r, handled |-> h, status |-> s, new |-> new]

Untouched(h, s) == Outcome("ok", h, s, <<>>)
Computed(h, s)  == Outcome(s, h, s, <<>>)        \* ComputeHResult(S_OK, status)
Fails(h)        == Outcome("failed", h, "failed", <<>>)

\* The file cannot be opened or its text cannot be read.
Unreadable(h) == IF MayFail THEN {Fails(h)} ELSE {}

PathEntry(p, f)      == [path |-> p, item |-> "Path", flags |-> f]
ContentEntry(p, fmt) == [path |-> p, item |-> fmt, flags |-> {"traverse"}]
ValueEntry(p, it)    == [path |-> p, item |-> it, flags |-> {"index"}]

\* The source of the entry is "Files": redirected strings have a scope instead.
InFiles(e) == e.item \notin {"resw", "resjson", "String"}

\* The file the indexers find when they read the value of e as a path.
Denotes(e) == CASE e.item = "Path" -> e.path
                [] e.item = "resfiles" -> FS[e.path].text
                [] OTHER -> NoPath

Matches(e, fmt) == InFiles(e) /\ Denotes(e) # NoPath /\ FS[Denotes(e)].format = fmt

Children(p) ==
  [k \in 1..Len(FS[p].members) |-> PathEntry(FS[p].members[k], FS[FS[p].members[k]].flags)]

\* CFolderIndexer: probing a file sets an error, and Reset forgets every error.
FolderStep(e, h, s) ==
  CASE e.item # "Path" -> {Untouched(FALSE, s)}
    [] e.item = "Path" /\ FS[e.path].kind = "file" ->
         {Untouched("index" \notin e.flags, "ok")}
    [] e.item = "Path" /\ FS[e.path].kind = "missing" -> {Fails(h)}
    [] e.item = "Path" /\ FS[e.path].kind = "dir" ->
         IF s = "failed" THEN {Fails(h)}
         ELSE {Outcome("ok", TRUE, s, Children(e.path))} \cup Unreadable(TRUE)

\* The lines of a listing, or the resources of another container.
Contents(e) ==
  IF e.item = "resfiles"
  THEN [k \in 1..Len(FS[e.path].members) |-> PathEntry(FS[e.path].members[k], Flags)]
  ELSE [k \in 1..FS[e.path].strings |-> ValueEntry(e.path, "String")]

\* The redirected contents of a container are parsed by its own indexer.
ParseStep(e, s) ==
  IF s = "failed" THEN {Fails(TRUE)}
  ELSE {Outcome("ok", TRUE, s, Contents(e))} \cup Unreadable(TRUE)

\* The file e names is loaded and its text pushed as an entry of its own.
Redirect(e, fmt) == <<ContentEntry(Denotes(e), fmt)>>

\* CResFilesIndexer and CResJsonIndexer: an empty file stays a plain file.
TextStep(fmt, e, h, s) ==
  CASE e.item = fmt -> ParseStep(e, s)
    [] e.item # fmt /\ ~InFiles(e) -> {Computed(h, s)}
    [] e.item # fmt /\ InFiles(e) /\ ~Matches(e, fmt) -> {Computed(FALSE, s)}
    [] e.item # fmt /\ Matches(e, fmt) ->
         IF FS[Denotes(e)].kind = "missing" \/ s = "failed" THEN {Fails(FALSE)}
         ELSE (IF FS[Denotes(e)].size = "empty" THEN {Untouched(FALSE, s)}
               ELSE {Outcome("ok", TRUE, s, Redirect(e, fmt))}) \cup Unreadable(FALSE)

\* CResxIndexer: claims every .resw that exists, and leaves the flag otherwise.
ReswStep(e, h, s) ==
  CASE e.item = "resw" -> ParseStep(e, s)
    [] e.item # "resw" /\ ~Matches(e, "resw") -> {Computed(h, s)}
    [] e.item # "resw" /\ Matches(e, "resw") ->
         IF FS[Denotes(e)].kind = "missing" THEN {Fails(h)}
         ELSE IF s = "failed" THEN {Fails(TRUE)}
         ELSE {Outcome("ok", TRUE, s, Redirect(e, "resw"))} \cup Unreadable(TRUE)

\* CPriInfoIndexer and CPriFileIndexer: a missing file sets the status but the
\* result stays S_OK.
PriStep(fmt, e, h, s) ==
  CASE e.item = fmt -> ParseStep(e, s)
    [] e.item # fmt /\ ~InFiles(e) -> {Untouched(h, s)}
    [] e.item # fmt /\ InFiles(e) /\ ~Matches(e, fmt) -> {Untouched(FALSE, s)}
    [] e.item # fmt /\ Matches(e, fmt) ->
         IF FS[Denotes(e)].kind = "missing" THEN {Untouched(FALSE, "failed")}
         ELSE IF fmt = "priinfo" /\ s = "failed" THEN {Fails(FALSE)}
         ELSE {Outcome("ok", TRUE, s, Redirect(e, fmt))} \cup Unreadable(FALSE)

\* CEmbedFilesIndexer: an empty or huge file is refused with a warning, and the
\* pass goes on as if the indexer had succeeded.
EmbedStep(e, h, s) ==
  IF ~InFiles(e) \/ Denotes(e) = NoPath THEN {Computed(FALSE, s)}
  ELSE CASE FS[Denotes(e)].kind = "missing" -> {Fails(FALSE)}
         [] FS[Denotes(e)].kind = "dir" -> {Computed(FALSE, s)}
         [] FS[Denotes(e)].kind = "file" ->
              IF s = "failed" THEN {Fails(FALSE)}
              ELSE (IF FS[Denotes(e)].size # "normal" THEN {Untouched(FALSE, s)}
                    ELSE {Outcome("ok", TRUE, s, <<ValueEntry(e.path, "Embedded")>>)})
                   \cup Unreadable(FALSE)

IndexerStep(indexer, e, h, s) ==
  CASE indexer = "folder" -> FolderStep(e, h, s)
    [] indexer \in {"resfiles", "resjson"} -> TextStep(indexer, e, h, s)
    [] indexer = "resw" -> ReswStep(e, h, s)
    [] indexer \in {"priinfo", "pri"} -> PriStep(indexer, e, h, s)
    [] indexer = "embedfiles" -> EmbedStep(e, h, s)

-----------------------------------------------------------------------------
Init ==
  /\ passes \in Configurations
  /\ pc = "enter" /\ pass = 1
  /\ traversal = <<>> /\ index = <<>> /\ output = <<>> /\ entry = <<>>
  /\ private = FALSE /\ group = "main" /\ todo = <<>>
  /\ work = <<>> /\ seen = {} /\ lost = <<>>
  /\ handled = FALSE /\ retain = FALSE /\ result = "ok" /\ status = "ok"
  /\ fresh = 1 /\ before = <<>> /\ freed = {}

\* A pass writes straight to the index only if it is still empty.
OwnSinkNeeded_Never == FALSE   \* MUTANT
OwnSinkNeeded == index # <<>>

\* Choose the output sink, then let the bootstrap indexer push the root.
Enter ==
  /\ pc = "enter"
  /\ private' = OwnSinkNeeded
  /\ traversal' = traversal \o <<New(PathEntry(passes[pass].root, {"traverse"}))>>
  /\ before' = index
  /\ fresh' = fresh + 1
  /\ handled' = TRUE
  /\ pc' = "pop"
  /\ UNCHANGED <<passes, pass, index, output, entry, loop, retain, result, status, freed>>

PopEntry ==
  /\ pc = "pop"
  /\ traversal # <<>>
  /\ LET e == traversal[Len(traversal)]
     IN  /\ entry' = <<e>>
         /\ retain' = ("index" \in e.flags)
         /\ IF "traverse" \in e.flags
            THEN pc' = "index" /\ group' = "main" /\ todo' = passes[pass].main
            ELSE pc' = "keep" /\ UNCHANGED <<group, todo>>
  /\ UNCHANGED <<work, seen, lost>>
  /\ traversal' = SubSeq(traversal, 1, Len(traversal) - 1)
  /\ UNCHANGED <<passes, pass, index, output, private, handled, result, status, fresh, before, freed>>

TraversalDone ==
  /\ pc = "pop"
  /\ traversal = <<>>
  /\ pc' = "display"
  /\ UNCHANGED <<passes, pass, sinks, private, loop, handled, retain, result,
                 status, fresh, before, freed>>

\* An entry is retained when it is to be indexed and no indexer claimed it.
Retains_LastWins(wanted, claimed) == ~claimed   \* MUTANT
Retains(wanted, claimed) == wanted /\ ~claimed

\* One indexer->Process call, up to the loop in which it creates new entries.
RunIndexer ==
  /\ pc = "index"
  /\ todo # <<>>
  /\ \E o \in IndexerStep(Head(todo), entry[1], handled, status) :
       /\ handled' = o.handled
       /\ status' = o.status
       /\ result' = o.result
       /\ work' = o.new
       /\ seen' = {}
       /\ IF o.result = "failed"
          THEN pc' = "drain" /\ UNCHANGED <<retain, todo>>
          ELSE /\ pc' = (IF o.new = <<>> THEN "index" ELSE "create")
               /\ retain' = Retains(retain, o.handled)
               /\ todo' = Tail(todo)
  /\ UNCHANGED <<passes, pass, sinks, private, group, lost, fresh, before, freed>>

\* The folder indexer ignores hidden files; a listing names each file once.
Skipped(draft) ==
  draft.item = "Path" /\ IF entry[1].item = "Path" THEN FS[draft.path].hidden
                                                  ELSE draft.path \in seen

LoopOn == pc' = (IF Tail(work) = <<>> THEN "index" ELSE "create")

CreateEntry ==
  /\ pc = "create"
  /\ ~Skipped(Head(work))
  /\ traversal' = Append(traversal, New(Head(work)))
  /\ fresh' = fresh + 1
  /\ seen' = seen \cup {Head(work).path}
  /\ work' = Tail(work)
  /\ LoopOn
  /\ UNCHANGED <<passes, pass, index, output, entry, private, group, todo, lost, handled,
                 retain, result, status, before, freed>>

SkipDraft ==
  /\ pc = "create"
  /\ Skipped(Head(work))
  /\ work' = Tail(work)
  /\ LoopOn
  /\ UNCHANGED <<passes, pass, sinks, private, group, todo, seen, lost, handled, retain,
                 result, status, fresh, before, freed>>

\* The resw indexer resets the status after each item.
ResetsStatus(fmt) == fmt = "resw"

\* The indexers of index files overwrite the result of a value with that of the
\* next value, link or subtree, be there none in it.
OverwritesResult(fmt) == fmt \in {"priinfo", "pri"}

\* These three go on after a value they could not read, and the run may succeed
\* without it.
MayLose(fmt) == MayFail /\ (ResetsStatus(fmt) \/ OverwritesResult(fmt))

LoseDraft ==
  /\ pc = "create"
  /\ MayLose(entry[1].item)
  /\ lost' = Append(lost, Head(work))
  /\ work' = Tail(work)
  /\ LoopOn
  /\ UNCHANGED <<passes, pass, sinks, private, group, todo, seen, handled, retain,
                 result, status, fresh, before, freed>>

\* What was created before the failure stays in the traversal sink.
CreationFails ==
  /\ pc = "create"
  /\ MayFail
  /\ result' = "failed" /\ status' = "failed"
  /\ work' = <<>>
  /\ pc' = "drain"
  /\ UNCHANGED <<passes, pass, sinks, private, group, todo, seen, lost, handled, retain,
                 fresh, before, freed>>

\* The final group runs only for an entry that is still to be retained.
FinalGroupDue_Always == retain   \* MUTANT
FinalGroupDue == group = "main" /\ retain

EndGroup ==
  /\ pc = "index"
  /\ todo = <<>>
  /\ IF FinalGroupDue
     THEN group' = "final" /\ todo' = passes[pass].final /\ pc' = pc
     ELSE pc' = "keep" /\ UNCHANGED <<group, todo>>
  /\ UNCHANGED <<passes, pass, sinks, private, work, seen, lost, handled, retain, result,
                 status, fresh, before, freed>>

\* MUTANT of Drain: the entry is deleted and stays the current one.
Drain_KeepsEntry ==
  /\ pc = "drain"
  /\ freed' = freed \cup Ids(entry) \cup Ids(traversal)
  /\ entry' = entry /\ traversal' = <<>>
  /\ pc' = "close"
  /\ UNCHANGED <<passes, pass, index, output, private, loop, handled, retain,
                 result, status, fresh, before>>

\* MUTANT of Drain: the pending entries are left in the shared sink.
Drain_EntryOnly ==
  /\ pc = "drain"
  /\ freed' = freed \cup Ids(entry)
  /\ entry' = <<>> /\ traversal' = traversal
  /\ pc' = "close"
  /\ UNCHANGED <<passes, pass, index, output, private, loop, handled, retain,
                 result, status, fresh, before>>

\* A failing indexer ends the pass: the entry and all pending ones are deleted.
Drain ==
  /\ pc = "drain"
  /\ freed' = freed \cup Ids(entry) \cup Ids(traversal)
  /\ entry' = <<>> /\ traversal' = <<>>
  /\ pc' = "close"
  /\ UNCHANGED <<passes, pass, index, output, private, loop, handled, retain,
                 result, status, fresh, before>>

KeepEntry ==
  /\ pc = "keep"
  /\ IF retain
     THEN /\ IF private THEN output' = output \o entry /\ index' = index
                        ELSE index' = index \o entry /\ output' = output
          /\ freed' = freed
     ELSE freed' = freed \cup Ids(entry) /\ UNCHANGED <<index, output>>
  /\ entry' = <<>>
  /\ handled' = FALSE
  /\ pc' = "pop"
  /\ UNCHANGED <<passes, pass, traversal, private, loop, retain, result, status, fresh, before>>

\* _DisplayQualifierInfo: its result also reports an error left in the status.
ReportedResult_Own == result   \* MUTANT
ReportedResult == status

DisplayQualifierInfo ==
  /\ pc = "display"
  /\ result' \in {ReportedResult} \cup (IF MayFail THEN {"failed"} ELSE {})
  /\ pc' = "close"
  /\ UNCHANGED <<passes, pass, sinks, private, loop, handled, retain, status,
                 fresh, before, freed>>

\* The pass's own sink is moved into the index, last entry first, or deleted
\* with what it holds.
Discarded_Nothing == {}   \* MUTANT
Discarded == Ids(output)

\* CHIndexerBase::Process goes on to the next pass only after a success.
ClosePass ==
  /\ pc = "close"
  /\ output' = <<>>
  /\ IF result = "ok"
     THEN index' = index \o Reverse(output) /\ freed' = freed
     ELSE index' = index /\ freed' = freed \cup Discarded
  /\ IF result = "ok" /\ pass < Len(passes)
     THEN pc' = "enter" /\ pass' = pass + 1
     ELSE pc' = (IF result = "ok" THEN "finished" ELSE "aborted") /\ pass' = pass
  /\ UNCHANGED <<passes, traversal, entry, private, loop, handled, retain,
                 result, status, fresh, before>>

Terminated ==
  /\ pc \in {"finished", "aborted"}
  /\ UNCHANGED vars

Step == \/ Enter \/ PopEntry \/ TraversalDone \/ RunIndexer
        \/ CreateEntry \/ SkipDraft \/ LoseDraft \/ CreationFails \/ EndGroup
        \/ Drain \/ KeepEntry \/ DisplayQualifierInfo \/ ClosePass

Next == Step \/ Terminated

Spec     == Init /\ [][Next]_vars
FairSpec == Spec /\ WF_vars(Step)   \* one thread, and no call blocks

-----------------------------------------------------------------------------
TypeOK ==
  /\ passes \in Configurations
  /\ pc \in {"enter", "pop", "index", "create", "drain", "keep", "display", "close",
             "finished", "aborted"}
  /\ pass \in 1..Len(passes)
  /\ traversal \in Seq(Entry) /\ index \in Seq(Entry)
  /\ output \in Seq(Entry) /\ before \in Seq(Entry)
  /\ entry \in Seq(Entry) /\ Len(entry) <= 1
  /\ (pc \in {"index", "create", "drain", "keep"}) <=> (Len(entry) = 1)
  /\ private \in BOOLEAN /\ handled \in BOOLEAN /\ retain \in BOOLEAN
  /\ group \in {"main", "final"} /\ todo \in Seq(Indexers)
  /\ work \in Seq(Draft) /\ lost \in Seq(Draft)
  /\ (pc = "create") <=> (work # <<>>)
  /\ seen \subseteq Paths
  /\ result \in Outcomes /\ status \in Outcomes
  /\ fresh \in Nat \ {0} /\ freed \subseteq Nat

Distinct(sink) == \A j, k \in DOMAIN sink : sink[j].id = sink[k].id => j = k
Owned == Ids(traversal) \cup Ids(index) \cup Ids(output) \cup Ids(entry)

(***************************************************************************)
(* Every entry ever allocated is owned by exactly one of the four owners of *)
(* CIndexPass::Process, once, or has been deleted, and then by nobody: no   *)
(* path through the pass (claimed, retained, failed, merged) leaks an entry *)
(* or leaves one behind in two sinks, whose destructors would delete it     *)
(* twice.                                                                   *)
(***************************************************************************)
OwnedOnce ==
  /\ Owned \cup freed = 1..(fresh - 1)
  /\ Owned \cap freed = {}
  /\ Ids(traversal) \cap Ids(index)  = {} /\ Ids(traversal) \cap Ids(output) = {}
  /\ Ids(traversal) \cap Ids(entry)  = {} /\ Ids(index)     \cap Ids(output) = {}
  /\ Ids(index)     \cap Ids(entry)  = {} /\ Ids(output)    \cap Ids(entry)  = {}
  /\ Distinct(traversal) /\ Distinct(index) /\ Distinct(output)

(***************************************************************************)
(* A pass that finds entries of earlier passes in the index is all or       *)
(* nothing: while it runs, and for good when it fails, the index is what    *)
(* the earlier passes made it.                                              *)
(***************************************************************************)
PassIsAtomic ==
  before # <<>> /\ pc \notin {"enter", "finished"} => index = before

(***************************************************************************)
(* The traversal sink is shared by all passes: whichever way a pass ends,   *)
(* it leaves nothing there for the next one to index as its own.            *)
(***************************************************************************)
NoLeftovers == pc \in {"enter", "close", "finished", "aborted"} => traversal = <<>>

(***************************************************************************)
(* A file that is not there reaches the index of a successful run only if   *)
(* no indexer of some pass looks it up: the pri and priinfo indexers only   *)
(* record the error and return S_OK, so this depends on every later step    *)
(* seeing the shared status, which the folder indexer forgets.              *)
(***************************************************************************)
LooksUp(p, indexer) == indexer \in {"folder", FS[p].format}

MissingNeverIndexed ==
  pc = "finished" =>
    /\ status = "ok"
    /\ \A k \in DOMAIN index :
         index[k].item = "Path" /\ FS[index[k].path].kind = "missing" =>
           \E n \in DOMAIN passes : \A m \in DOMAIN passes[n].main :
             ~LooksUp(index[k].path, passes[n].main[m])

(***************************************************************************)
(* When no listing leads back to itself, the passes come to an end.         *)
(***************************************************************************)
Terminates == <>(pc \in {"finished", "aborted"})
=============================================================================
