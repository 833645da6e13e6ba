----------------------------- MODULE MCIndexPass -----------------------------
(***************************************************************************)
(* Instances of IndexPass: small project folders.                           *)
(***************************************************************************)
EXTENDS ProjectIndex

\* A path as the folder indexer sees it, with nothing excluded.
Object(kind, format, members) ==
  [kind |-> kind, format |-> format, members |-> members, strings |-> 0,
   size |-> "normal", text |-> NoPath, hidden |-> FALSE, flags |-> Flags]

Folder(members)         == Object("dir", "plain", members)
File                    == Object("file", "plain", <<>>)
Listing(members)        == Object("file", "resfiles", members)
Payload(format, n)      == [Object("file", format, <<>>) EXCEPT !.strings = n]
Missing(format)         == Object("missing", format, <<>>)
Sized(size, object)     == [object EXCEPT !.size = size]
Hidden(object)          == [object EXCEPT !.hidden = TRUE]
Flagged(flags, object)  == [object EXCEPT !.flags = flags]
Spelling(path, object)  == [object EXCEPT !.text = path]

IndexPassOf(root, main, final) == [root |-> root, main |-> main, final |-> final]

(***************************************************************************)
(* A project with every kind of file: nested folders, exclusions, hidden    *)
(* files, an empty and a huge file, a listing that names files of the tree  *)
(* and another listing, and one container of every format.                  *)
(***************************************************************************)
ProjectFS == [
  proj |-> Folder(<<"logo", "sub", "old", "lst", "str", "hid", "huge", "nothing">>),
  sub  |-> Folder(<<"logo2", "json", "only">>),
  old  |-> Flagged({"index"}, Folder(<<"logo">>)),
  only |-> Flagged({"traverse"}, File),
  logo |-> File,
  logo2 |-> Flagged({"index"}, File),
  hid  |-> Hidden(File),
  huge |-> Sized("huge", File),
  nothing |-> Flagged({}, File),
  lst  |-> Listing(<<"logo", "lst2", "logo", "none">>),
  lst2 |-> Listing(<<"sub", "bin", "info">>),
  none |-> Sized("empty", Listing(<<>>)),
  bin  |-> Payload("pri", 2),
  info |-> Payload("priinfo", 1),
  json |-> Payload("resjson", 2),
  str  |-> Payload("resw", 1)]

\* The first pass tries every order of the others after resjson, the second the
\* reverse.
ProjectConfigurations ==
  {<<IndexPassOf("proj", <<"resjson">> \o order, <<"embedfiles">>),
     IndexPassOf("sub", Reverse(order) \o <<"resjson">>, <<>>)>> :
     order \in SetToSeqs(Indexers \ {"embedfiles", "resjson"})}

(***************************************************************************)
(* Two passes over a small tree in which everything that can fail may fail. *)
(***************************************************************************)
FaultFS == [
  dir  |-> Folder(<<"pic", "txt", "strs">>),
  pic  |-> File,
  txt  |-> Listing(<<"pic">>),
  strs |-> Payload("resw", 2)]

FaultConfigurations ==
  {<<IndexPassOf("dir", order, <<"embedfiles">>), IndexPassOf("txt", Tail(order), <<>>)>> :
     order \in SetToSeqs({"folder", "resw", "resfiles"})}

(***************************************************************************)
(* Roots and listings that lead to files that are not there, in indexer     *)
(* orders where the indexer that notices only records the error, and a      *)
(* listing whose one line, without a line break, is read as a path.         *)
(***************************************************************************)
MissingFS == [
  home |-> Folder(<<"one", "list", "res">>),
  one  |-> Spelling("res", Listing(<<"res">>)),
  list |-> Listing(<<"gone">>),
  res  |-> Payload("resw", 1),
  gone |-> Missing("pri"),
  lost |-> Missing("priinfo")]

\* Every choice and order of indexers, with and without files embedded.
MissingConfigurations ==
  LET orders == UNION {SetToSeqs(set) :
                         set \in SUBSET {"folder", "resfiles", "resw", "pri", "priinfo"}}
  IN  {<<IndexPassOf(root, order, final), IndexPassOf("lost", order, final)>> :
         root \in {"home", "one", "gone"}, order \in orders, final \in {<<>>, <<"embedfiles">>}}

(***************************************************************************)
(* The height of every file and folder above what it names: the project is  *)
(* one of those whose index ProjectIndex counts.                            *)
(***************************************************************************)
ProjectHeight ==
  [p \in DOMAIN ProjectFS |-> CASE p = "proj" -> 4
                                [] p \in {"old", "sub"} -> 1
                                [] p = "lst2" -> 2
                                [] p = "lst" -> 3
                                [] OTHER -> 0]

ASSUME ProjectIsRegular ==
  Configurations = ProjectConfigurations =>
    ProjectHeight \in [Paths -> Nat] /\ Regular(ProjectHeight)

\* The paths an instance speaks of are those its file system has.
ProjectPaths == DOMAIN ProjectFS
FaultPaths   == DOMAIN FaultFS
MissingPaths == DOMAIN MissingFS
=============================================================================
