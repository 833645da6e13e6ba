------------------------------- MODULE BuildRun -------------------------------
(***************************************************************************)
(* One run of makepri new, versioned or resourcepack, after its parameters  *)
(* have been verified: MakePriNewVersionedPack and FileOperations.          *)
(*                                                                         *)
(* The index is built, as IndexBuild promises, in a temporary folder.  Its  *)
(* files are then moved to the output folder one by one: they are listed,   *)
(* the user is asked about those that are already there, and each is copied *)
(* and deleted.  A control handler may run between any two steps.           *)
(***************************************************************************)
EXTENDS Naturals

CONSTANTS
  Requests,  \* the sets of files a build may be asked for
  NameOf,    \* the name of each file a build may produce
  Names,     \* those names and those of other files of the output folder
  Rank       \* of the names, "." and "..", as a listing of a folder sorts them

Dots == {".", ".."}

ASSUME NamesAssumption ==
  /\ \A r \in Requests : r \subseteq DOMAIN NameOf
  /\ \A r \in Requests : \A f, g \in r : NameOf[f] = NameOf[g] => f = g
  /\ \A f \in DOMAIN NameOf : NameOf[f] \in Names
  /\ Names \cap Dots = {}

ASSUME RankAssumption ==
  /\ Rank \in [Names \cup Dots -> Nat]
  /\ \A m, n \in Names \cup Dots : Rank[m] = Rank[n] => m = n

VARIABLES
  request, files, outcome, \* of the index build
  pc,        \* the step that is next
  overwrite, \* /o, /v, /am or diagnostic logging
  global,    \* g_temporaryFolder: "null", "set" or "dangling"
  temporary, \* whether the temporary folder exists
  folder,    \* the names in it
  existing,  \* the names in the output folder when the run starts
  output,    \* what each name stands for in the output folder now
  sources,   \* the names still to be moved
  answer,    \* of the user: "none" as long as there was no question
  aborted,   \* the result when "Makepri Aborted" was printed, or "no"
  result     \* "running", "succeeded", "failed" or "declined"

index == <<request, files, outcome>>
vars  == <<index, pc, overwrite, global, temporary, folder, existing, output, sources, answer,
           aborted, result>>

Index == INSTANCE IndexBuild

Init ==
  /\ Index!Init
  /\ pc = "start"
  /\ overwrite \in BOOLEAN
  /\ global = "null" /\ temporary = FALSE /\ folder = {}
  /\ existing \in SUBSET Names
  /\ output = [n \in Names |-> IF n \in existing THEN "old" ELSE "absent"]
  /\ sources = {} /\ answer = "none"
  /\ aborted = "no" /\ result = "running"

-----------------------------------------------------------------------------
\* s_CreateUniqueTempFolder.
CreateTempFolder ==
  /\ pc = "start"
  /\ \/ pc' = "build" /\ temporary' = TRUE /\ global' = "set" /\ UNCHANGED result
     \/ pc' = "ended" /\ result' = "failed" /\ UNCHANGED <<temporary, global>>
  /\ UNCHANGED <<index, overwrite, folder, existing, output, sources, answer, aborted>>

\* A failed build leaves the temporary folder as it is.
BuildIndex ==
  /\ pc = "build"
  /\ Index!Next
  /\ folder' = {NameOf[f] : f \in files'}
  /\ \/ outcome' = "building" /\ UNCHANGED <<pc, result>>
     \/ outcome' = "built" /\ pc' = "list" /\ UNCHANGED result
     \/ outcome' = "failed" /\ pc' = "return" /\ result' = "failed"
  /\ UNCHANGED <<overwrite, global, temporary, existing, output, sources, answer, aborted>>

\* MUTANT: "." and ".." are taken for files.
Listed_Dots(names) == {n \in names \cup Dots : \E m \in names \cup Dots : Rank[m] < Rank[n]}

(***************************************************************************)
(* The files a listing finds.  FindFirstFile already returns the first name *)
(* of the folder, and the program looks only at those of FindNextFile: at   *)
(* the names that some other name comes before.                             *)
(***************************************************************************)
Listed(names) == {n \in names : \E m \in names \cup Dots : Rank[m] < Rank[n]}

Finish(r) == pc' = "cleanup" /\ result' = r

ListFails ==
  /\ pc \in {"list", "check"}
  /\ Finish("failed")
  /\ UNCHANGED <<index, overwrite, global, temporary, folder, existing, output, sources, answer, aborted>>

GetListOfSourceFiles ==
  /\ pc = "list"
  /\ sources' = Listed(folder)
  /\ pc' = IF overwrite THEN "move" ELSE "check"
  /\ UNCHANGED <<index, overwrite, global, temporary, folder, existing, output, answer, aborted, result>>

Found == {n \in Names : output[n] # "absent"}

\* MUTANT: there is a collision only if every file is already there.
Collisions_All == {n \in sources : sources \subseteq Listed(Found)}

Collisions == Listed(Found) \cap sources

GetListOfFilesToOverwrite ==
  /\ pc = "check"
  /\ pc' = IF Collisions # {} THEN "ask" ELSE "move"
  /\ UNCHANGED <<index, overwrite, global, temporary, folder, existing, output, sources, answer, aborted, result>>

\* MUTANT: the answer is not looked at.
AskOverwritePermission_NoGoesOn ==
  /\ pc = "ask"
  /\ answer' \in {"yes", "no"} /\ pc' = "move"
  /\ UNCHANGED <<index, overwrite, global, temporary, folder, existing, output, sources, aborted, result>>

AskOverwritePermission ==
  /\ pc = "ask"
  /\ \/ answer' = "yes" /\ pc' = "move" /\ UNCHANGED result
     \/ answer' = "no" /\ Finish("declined")
  /\ UNCHANGED <<index, overwrite, global, temporary, folder, existing, output, sources, aborted>>

\* MUTANT: the source is deleted whether or not it could be copied.
MoveFile_DeletesAlways ==
  /\ pc = "move"
  /\ \E n \in sources :
       /\ folder' = folder \ {n}
       /\ \/ /\ output' = [output EXCEPT ![n] = "new"]
             /\ sources' = sources \ {n}
             /\ UNCHANGED <<pc, result>>
          \/ Finish("failed") /\ UNCHANGED <<output, sources>>
  /\ UNCHANGED <<index, overwrite, global, temporary, existing, answer, aborted>>

\* MUTANT: a file that cannot be copied is passed over.
MoveFile_GoesOn ==
  /\ pc = "move"
  /\ \E n \in sources :
       /\ \/ output' = [output EXCEPT ![n] = "new"] /\ folder' = folder \ {n}
          \/ UNCHANGED <<output, folder>>
       /\ sources' = sources \ {n}
  /\ UNCHANGED <<index, pc, overwrite, global, temporary, existing, answer, aborted, result>>

(***************************************************************************)
(* _MoveFile, of the files in any order.  A copy that fails may have begun  *)
(* to write its destination, and ends the move.  A source that cannot be    *)
(* deleted after its copy, even at the second attempt, stays without error. *)
(***************************************************************************)
MoveFile ==
  /\ pc = "move"
  /\ \E n \in sources :
       \/ /\ output' = [output EXCEPT ![n] = "new"]
          /\ folder' = folder \ {n} \/ folder' = folder
          /\ sources' = sources \ {n}
          /\ UNCHANGED <<pc, result>>
       \/ /\ output' = output \/ output' = [output EXCEPT ![n] = "broken"]
          /\ Finish("failed")
          /\ UNCHANGED <<folder, sources>>
  /\ UNCHANGED <<index, overwrite, global, temporary, existing, answer, aborted>>

MovedAll ==
  /\ pc = "move" /\ sources = {}
  /\ Finish("succeeded")
  /\ UNCHANGED <<index, overwrite, global, temporary, folder, existing, output, sources, answer, aborted>>

(***************************************************************************)
(* s_DeleteFolderAndContents joins the path and each name without a         *)
(* separator, so that nothing of the folder is deleted: RemoveDirectory     *)
(* then succeeds only on a folder that is empty.                            *)
(***************************************************************************)
DeleteFolderAndContents ==
  /\ pc = "cleanup"
  /\ temporary' = (folder # {})
  /\ pc' = "return"
  /\ UNCHANGED <<index, overwrite, global, folder, existing, output, sources, answer, aborted, result>>

\* The string g_temporaryFolder points to is a local of the function.
Return ==
  /\ pc = "return"
  /\ pc' = "ended" /\ global' = "dangling"
  /\ UNCHANGED <<index, overwrite, temporary, folder, existing, output, sources, answer, aborted, result>>

(***************************************************************************)
(* The handler of an interrupt deletes, in the same way, what g_temporary-  *)
(* Folder points to.  Without a string it crashes; with one of the past it  *)
(* may.  It returns FALSE, and the program goes on.                         *)
(***************************************************************************)
MakepriCtrlHandler ==
  /\ pc # "crashed"
  /\ \/ global # "null" /\ aborted = "no" /\ aborted' = result /\ UNCHANGED pc
     \/ global # "set" /\ pc' = "crashed" /\ UNCHANGED aborted
  /\ UNCHANGED <<index, overwrite, global, temporary, folder, existing, output, sources, answer, result>>

Terminated == pc \in {"ended", "crashed"} /\ UNCHANGED vars

Next == \/ CreateTempFolder \/ BuildIndex
        \/ GetListOfSourceFiles \/ GetListOfFilesToOverwrite \/ ListFails
        \/ AskOverwritePermission \/ MoveFile \/ MovedAll
        \/ DeleteFolderAndContents \/ Return
        \/ MakepriCtrlHandler \/ Terminated

Spec == Init /\ [][Next]_vars

-----------------------------------------------------------------------------
TypeOK ==
  /\ request \in Requests /\ files \subseteq request
  /\ outcome \in {"building", "built", "failed"}
  /\ pc \in {"start", "build", "list", "check", "ask", "move", "cleanup", "return", "ended", "crashed"}
  /\ overwrite \in BOOLEAN /\ temporary \in BOOLEAN
  /\ aborted \in {"no", "running", "succeeded", "failed", "declined"}
  /\ global \in {"null", "set", "dangling"}
  /\ folder \subseteq {NameOf[f] : f \in files} /\ existing \subseteq Names
  /\ output \in [Names -> {"absent", "old", "new", "broken"}]
  /\ sources \subseteq folder
  /\ answer \in {"none", "yes", "no"}
  /\ result \in {"running", "succeeded", "failed", "declined"}

Requested == {NameOf[f] : f \in request}

Untouched == \A n \in Names : output[n] = IF n \in existing THEN "old" ELSE "absent"

(***************************************************************************)
(* Success, which is printed as "Successfully Completed", means that every  *)
(* file of the request is in the output folder and that nothing else there  *)
(* has been touched.                                                        *)
(***************************************************************************)
Published ==
  result = "succeeded" =>
    \A n \in Names : output[n] = IF n \in Requested THEN "new"
                                 ELSE IF n \in existing THEN "old" ELSE "absent"

(***************************************************************************)
(* A file that was in the output folder is replaced, or damaged by a copy   *)
(* that fails, only with the option /o or its like or the user's consent.   *)
(***************************************************************************)
AsksFirst ==
  \A n \in existing : output[n] # "old" => overwrite \/ answer = "yes"

(***************************************************************************)
(* A build that does not succeed, however late it fails, leaves the output  *)
(* folder alone; so does a user who declines.                               *)
(***************************************************************************)
OutputUntouched == outcome # "built" \/ answer = "no" => Untouched

(***************************************************************************)
(* No file that was built is lost while it is moved: it is in the temporary *)
(* folder, which then still exists, or in the output folder.                *)
(***************************************************************************)
NoFileLost ==
  \A f \in files : output[NameOf[f]] = "new" \/ (temporary /\ NameOf[f] \in folder)

(***************************************************************************)
(* A run that has said it was aborted while it was building or moving does  *)
(* not succeed afterwards: what the message says, and the program does not. *)
(***************************************************************************)
AbortIsFinal == aborted = "running" => result # "succeeded"
=============================================================================
