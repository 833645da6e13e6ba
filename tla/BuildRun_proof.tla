---------------------------- MODULE BuildRun_proof ----------------------------
(***************************************************************************)
(* Proofs about BuildRun, for all requests, names, states of the output     *)
(* folder, failures and interrupts:                                         *)
(*   TypeCorrect        the type invariant,                                 *)
(*   FilesNeverLost     no file is lost while it is moved,                  *)
(*   OutputGuarded      what has failed or was declined touches nothing,    *)
(* and, if "." is the first name of every listing:                          *)
(*   SuccessPublishes   success publishes the request and nothing else,     *)
(*   ConsentAsked       nothing is replaced without consent.                *)
(* Without that condition the last two are false, as TLC shows.             *)
(***************************************************************************)
EXTENDS BuildRun, TLAPS

-----------------------------------------------------------------------------
\* What the stages of a run have in common.
Before == {"start", "build", "list", "check", "ask"}

Staged ==
  /\ pc \in {"start", "build"} => outcome = "building"
  /\ pc \in {"list", "check", "ask", "move"} => outcome = "built"
  /\ outcome = "built" => files = request
  /\ pc = "start" => files = {}
  /\ pc \in {"build", "list", "check", "ask", "move", "cleanup"} => temporary
  /\ pc \in Before => Untouched /\ answer = "none"
  /\ pc \in {"build", "list", "check", "ask"} => folder = {NameOf[f] : f \in files}
  /\ pc \in Before \cup {"move"} => result = "running"
  /\ pc = "move" => answer # "no"

\* What holds of a run on which no name sorts before ".".
Permitted == overwrite \/ answer = "yes"

DotFirst == \A n \in Names : Rank["."] < Rank[n]

Moving ==
  /\ pc \in {"check", "ask"} => sources = Requested
  /\ pc = "move" =>
       /\ Permitted \/ sources \cap existing = {}
       /\ sources \subseteq Requested
       /\ \A n \in Names : output[n] = IF n \in Requested \ sources THEN "new"
                                       ELSE IF n \in existing THEN "old" ELSE "absent"

Inv == TypeOK /\ Staged /\ NoFileLost /\ OutputUntouched

InvIfDotFirst == Inv /\ Moving /\ Published /\ AsksFirst

-----------------------------------------------------------------------------
\* A step of the build as seen from here.
LEMMA IndexStep ==
  ASSUME request \in Requests, files \subseteq request, Index!Next
  PROVE  /\ outcome = "building"
         /\ request' = request /\ files \subseteq files' /\ files' \subseteq request
         /\ outcome' \in {"building", "built", "failed"}
         /\ outcome' = "built" => files' = request
  BY DEF Index!Next, Index!Produce, Index!Succeed, Index!Fail

LEMMA NamesOfFiles == request \in Requests => Requested \subseteq Names
  BY NamesAssumption DEF Requested

-----------------------------------------------------------------------------
LEMMA InitInv == Init => InvIfDotFirst
  BY DEF Init, Index!Init, InvIfDotFirst, Inv, TypeOK, Staged, Before, Untouched, Moving, NoFileLost,
         OutputUntouched, Published, AsksFirst

LEMMA TypeStep == TypeOK /\ [Next]_vars => TypeOK'
  <1> SUFFICES ASSUME TypeOK, [Next]_vars PROVE TypeOK'
    OBVIOUS
  <1> USE DEF TypeOK
  <1>1. CASE BuildIndex
    <2>1. /\ request' = request /\ files \subseteq files' /\ files' \subseteq request
          /\ outcome' \in {"building", "built", "failed"}
      BY <1>1, IndexStep DEF BuildIndex
    <2> QED
      BY <1>1, <2>1 DEF BuildIndex
  <1>2. CASE CreateTempFolder
    BY <1>2 DEF CreateTempFolder, index
  <1>3. CASE GetListOfSourceFiles
    BY <1>3 DEF GetListOfSourceFiles, Listed, index
  <1>4. CASE GetListOfFilesToOverwrite
    BY <1>4 DEF GetListOfFilesToOverwrite, index
  <1>5. CASE ListFails
    BY <1>5 DEF ListFails, Finish, index
  <1>6. CASE AskOverwritePermission
    BY <1>6 DEF AskOverwritePermission, Finish, index
  <1>7. CASE MoveFile
    BY <1>7 DEF MoveFile, Finish, index
  <1>8. CASE MovedAll
    BY <1>8 DEF MovedAll, Finish, index
  <1>9. CASE DeleteFolderAndContents
    BY <1>9 DEF DeleteFolderAndContents, index
  <1>10. CASE Return
    BY <1>10 DEF Return, index
  <1>11. CASE MakepriCtrlHandler
    BY <1>11 DEF MakepriCtrlHandler, index
  <1>12. CASE UNCHANGED vars
    BY <1>12 DEF vars, index
  <1> QED
    BY <1>1, <1>2, <1>3, <1>4, <1>5, <1>6, <1>7, <1>8, <1>9, <1>10, <1>11, <1>12 DEF Next, Terminated

LEMMA StagedStep == TypeOK /\ Staged /\ [Next]_vars => Staged'
  <1> SUFFICES ASSUME TypeOK, Staged, [Next]_vars PROVE Staged'
    OBVIOUS
  <1> USE DEF Staged, Before, Untouched
  <1>1. CASE BuildIndex
    <2>1. /\ request' = request /\ outcome' \in {"building", "built", "failed"}
          /\ outcome' = "built" => files' = request
      BY <1>1, IndexStep DEF BuildIndex, TypeOK
    <2> QED
      BY <1>1, <2>1 DEF BuildIndex
  <1>2. CASE CreateTempFolder
    BY <1>2 DEF CreateTempFolder, index, Index!Init, TypeOK
  <1>3. CASE GetListOfSourceFiles
    BY <1>3 DEF GetListOfSourceFiles, index
  <1>4. CASE GetListOfFilesToOverwrite
    BY <1>4 DEF GetListOfFilesToOverwrite, index
  <1>5. CASE ListFails
    BY <1>5 DEF ListFails, Finish, index
  <1>6. CASE AskOverwritePermission
    BY <1>6 DEF AskOverwritePermission, Finish, index
  <1>7. CASE MoveFile
    BY <1>7 DEF MoveFile, Finish, index
  <1>8. CASE MovedAll
    BY <1>8 DEF MovedAll, Finish, index
  <1>9. CASE DeleteFolderAndContents
    BY <1>9 DEF DeleteFolderAndContents, index
  <1>10. CASE Return
    BY <1>10 DEF Return, index
  <1>11. CASE MakepriCtrlHandler
    BY <1>11 DEF MakepriCtrlHandler, index
  <1>12. CASE UNCHANGED vars
    BY <1>12 DEF vars, index
  <1> QED
    BY <1>1, <1>2, <1>3, <1>4, <1>5, <1>6, <1>7, <1>8, <1>9, <1>10, <1>11, <1>12 DEF Next, Terminated

-----------------------------------------------------------------------------
(***************************************************************************)
(* Only the build, the move and the cleanup change where files are.  The    *)
(* move takes from the folder what it has just copied, and a folder that    *)
(* still has a file is not removed.                                         *)
(***************************************************************************)
LEMMA LostStep == TypeOK /\ Staged /\ NoFileLost /\ [Next]_vars => NoFileLost'
  <1> SUFFICES ASSUME TypeOK, Staged, NoFileLost, [Next]_vars PROVE NoFileLost'
    OBVIOUS
  <1> USE DEF NoFileLost
  <1>1. CASE BuildIndex
    <2>1. temporary' /\ folder' = {NameOf[f] : f \in files'}
      BY <1>1 DEF BuildIndex, Staged
    <2> QED
      BY <2>1
  <1>2. CASE MoveFile
    <2>1. PICK n \in sources :
            \/ /\ output' = [output EXCEPT ![n] = "new"]
               /\ folder' = folder \ {n} \/ folder' = folder
            \/ /\ output' = output \/ output' = [output EXCEPT ![n] = "broken"]
               /\ folder' = folder
      BY <1>2 DEF MoveFile
    <2>2. files' = files /\ temporary' = temporary /\ temporary
      BY <1>2 DEF MoveFile, index, Staged
    <2>3. \A f \in files : NameOf[f] \in Names
      BY NamesAssumption DEF TypeOK
    <2>4. n \in folder /\ output \in [Names -> {"absent", "old", "new", "broken"}]
      BY DEF TypeOK
    <2> QED
      BY <2>1, <2>2, <2>3, <2>4
  <1>3. CASE DeleteFolderAndContents
    BY <1>3 DEF DeleteFolderAndContents, index
  <1>4. CASE CreateTempFolder
    BY <1>4 DEF CreateTempFolder, index, Staged
  <1>5. ASSUME UNCHANGED <<files, folder, output, temporary>> PROVE NoFileLost'
    BY <1>5
  <1> QED
    BY <1>1, <1>2, <1>3, <1>4, <1>5
    DEF Next, Terminated, vars, index, GetListOfSourceFiles, GetListOfFilesToOverwrite, ListFails, Finish,
        AskOverwritePermission, MovedAll, Return, MakepriCtrlHandler

\* The output changes only in a move, which a failed build or a refusal never
\* reaches.
LEMMA UntouchedStep == TypeOK /\ Staged /\ OutputUntouched /\ [Next]_vars => OutputUntouched'
  <1> SUFFICES ASSUME TypeOK, Staged, OutputUntouched, [Next]_vars PROVE OutputUntouched'
    OBVIOUS
  <1> USE DEF OutputUntouched, Untouched
  <1>1. CASE BuildIndex
    BY <1>1 DEF BuildIndex, Staged
  <1>2. CASE MoveFile
    BY <1>2 DEF MoveFile, index, Staged
  <1>3. CASE AskOverwritePermission
    BY <1>3 DEF AskOverwritePermission, Finish, index, Staged, Before, Untouched
  <1>4. ASSUME UNCHANGED <<outcome, answer, output, existing>> PROVE OutputUntouched'
    BY <1>4
  <1> QED
    BY <1>1, <1>2, <1>3, <1>4
    DEF Next, Terminated, vars, index, GetListOfSourceFiles, GetListOfFilesToOverwrite, ListFails, Finish,
        CreateTempFolder, DeleteFolderAndContents, MovedAll, Return, MakepriCtrlHandler

LEMMA InvStep == Inv /\ [Next]_vars => Inv'
  BY TypeStep, StagedStep, LostStep, UntouchedStep DEF Inv

\* A run stays within its types.
THEOREM TypeCorrect == Spec => []TypeOK
  <1>1. Init => Inv
    BY InitInv DEF InvIfDotFirst
  <1>2. Inv => TypeOK
    BY DEF Inv
  <1> QED
    BY <1>1, <1>2, InvStep, PTL DEF Spec

\* No file that was built is lost while it is moved, wherever the move fails.
THEOREM FilesNeverLost == Spec => []NoFileLost
  <1>1. Init => Inv
    BY InitInv DEF InvIfDotFirst
  <1>2. Inv => NoFileLost
    BY DEF Inv
  <1> QED
    BY <1>1, <1>2, InvStep, PTL DEF Spec

\* A build that has not succeeded and a user who declines leave the output
\* folder as it was.
THEOREM OutputGuarded == Spec => []OutputUntouched
  <1>1. Init => Inv
    BY InitInv DEF InvIfDotFirst
  <1>2. Inv => OutputUntouched
    BY DEF Inv
  <1> QED
    BY <1>1, <1>2, InvStep, PTL DEF Spec

-----------------------------------------------------------------------------
\* If "." is the first name of every listing, a listing finds every file.
LEMMA ListsAll ==
  ASSUME DotFirst, NEW S \in SUBSET Names
  PROVE  Listed(S) = S
  BY DEF Listed, DotFirst, Dots

LEMMA MovingStep == DotFirst /\ Inv /\ Moving /\ [Next]_vars => Moving'
  <1> SUFFICES ASSUME DotFirst, Inv, Moving, [Next]_vars PROVE Moving'
    OBVIOUS
  <1>1. TypeOK /\ Staged /\ Requested \subseteq Names
    BY NamesOfFiles DEF Inv, TypeOK
  <1> USE DEF Moving, Permitted
  <1>2. CASE GetListOfSourceFiles
    <2>1. /\ Requested' = Requested /\ folder = Requested /\ Untouched /\ output' = output
          /\ existing' = existing /\ overwrite' = overwrite
      BY <1>1, <1>2 DEF GetListOfSourceFiles, Staged, Before, index, Requested
    <2>2. sources' = Requested
      BY <1>1, <1>2, <2>1, ListsAll DEF GetListOfSourceFiles
    <2> QED
      BY <1>2, <2>1, <2>2 DEF GetListOfSourceFiles, Untouched
  <1>3. CASE GetListOfFilesToOverwrite
    <2>1. /\ Requested' = Requested /\ sources = Requested /\ sources' = sources /\ Untouched
          /\ UNCHANGED <<output, existing, overwrite, answer>>
      BY <1>1, <1>3 DEF GetListOfFilesToOverwrite, Staged, Before, index, Requested
    <2>2. pc' = "move" => sources \cap existing = {}
      <3>1. SUFFICES ASSUME pc' = "move" PROVE sources \cap existing = {}
        OBVIOUS
      <3>2. Listed(Found) \cap sources = {}
        BY <1>3, <3>1 DEF GetListOfFilesToOverwrite, Collisions
      <3>3. Listed(Found) = Found
        BY ListsAll DEF Found
      <3> QED
        BY <1>1, <2>1, <3>2, <3>3 DEF Found, Untouched
    <2> QED
      BY <1>3, <2>1, <2>2 DEF GetListOfFilesToOverwrite, Untouched
  <1>4. CASE AskOverwritePermission
    BY <1>1, <1>4 DEF AskOverwritePermission, Finish, Staged, Before, Untouched, index, Requested
  <1>5. CASE MoveFile
    <2>1. SUFFICES ASSUME pc' = "move" PROVE Moving'
      BY <1>5 DEF MoveFile, Finish
    <2>2. PICK n \in sources : output' = [output EXCEPT ![n] = "new"] /\ sources' = sources \ {n}
      BY <1>5, <2>1 DEF MoveFile, Finish
    <2>3. /\ Requested' = Requested /\ UNCHANGED <<existing, overwrite, answer>> /\ pc = "move"
          /\ output \in [Names -> {"absent", "old", "new", "broken"}]
      BY <1>1, <1>5 DEF MoveFile, index, Requested, TypeOK
    <2> QED
      BY <1>1, <2>1, <2>2, <2>3
  <1>6. CASE UNCHANGED vars
    BY <1>6 DEF vars, index, Requested
  <1>7. ASSUME \/ pc' \notin {"check", "ask", "move"}
               \/ UNCHANGED <<pc, sources, request, overwrite, answer, existing, output>>
        PROVE  Moving'
    BY <1>7 DEF Requested
  <1> QED
    BY <1>2, <1>3, <1>4, <1>5, <1>6, <1>7
    DEF Next, Terminated, index, ListFails, Finish, CreateTempFolder, BuildIndex, DeleteFolderAndContents,
        MovedAll, Return, MakepriCtrlHandler

\* The last file is moved when the request is in the output folder.
LEMMA PublishedStep == Inv /\ Moving /\ Published /\ [Next]_vars => Published'
  <1> SUFFICES ASSUME Inv, Moving, Published, [Next]_vars PROVE Published'
    OBVIOUS
  <1> USE DEF Published, Requested
  <1>1. CASE MovedAll
    BY <1>1 DEF MovedAll, Finish, Moving, index, Requested
  <1>2. ASSUME result' # "succeeded" PROVE Published'
    BY <1>2
  <1>3. ASSUME UNCHANGED <<result, output, request, existing>> PROVE Published'
    BY <1>3
  <1>4. CASE MoveFile
    BY <1>2, <1>4 DEF MoveFile, Finish, Inv, Staged
  <1>5. CASE BuildIndex
    BY <1>2, <1>5 DEF BuildIndex, Inv, Staged, Before
  <1> QED
    BY <1>1, <1>2, <1>3, <1>4, <1>5
    DEF Next, Terminated, vars, index, ListFails, Finish, CreateTempFolder, GetListOfSourceFiles,
        GetListOfFilesToOverwrite, AskOverwritePermission, DeleteFolderAndContents, Return, MakepriCtrlHandler

\* A file is replaced only while the run moves, and what is still to be moved
\* then has been permitted or was not there.
LEMMA AsksStep == Inv /\ Moving /\ AsksFirst /\ [Next]_vars => AsksFirst'
  <1> SUFFICES ASSUME Inv, Moving, AsksFirst, [Next]_vars PROVE AsksFirst'
    OBVIOUS
  <1> USE DEF AsksFirst
  <1>1. CASE MoveFile
    BY <1>1 DEF MoveFile, Moving, Permitted, Inv, TypeOK
  <1>2. CASE AskOverwritePermission
    BY <1>2 DEF AskOverwritePermission, Inv, Staged, Before, Untouched, TypeOK, index
  <1>3. ASSUME UNCHANGED <<output, existing, overwrite, answer>> PROVE AsksFirst'
    BY <1>3
  <1> QED
    BY <1>1, <1>2, <1>3
    DEF Next, Terminated, vars, index, ListFails, Finish, CreateTempFolder, BuildIndex, GetListOfSourceFiles,
        GetListOfFilesToOverwrite, MovedAll, DeleteFolderAndContents, Return, MakepriCtrlHandler

LEMMA InvIfDotFirstStep ==
  ASSUME DotFirst
  PROVE  InvIfDotFirst /\ [Next]_vars => InvIfDotFirst'
  BY InvStep, MovingStep, PublishedStep, AsksStep DEF InvIfDotFirst

\* If no name sorts before ".", a run that prints "Successfully Completed" has
\* put every file of the request into the output folder, and nothing else.
THEOREM SuccessPublishes ==
  ASSUME DotFirst
  PROVE  Spec => []Published
  <1>1. InvIfDotFirst => Published
    BY DEF InvIfDotFirst
  <1> QED
    BY <1>1, InitInv, InvIfDotFirstStep, PTL DEF Spec

\* If no name sorts before ".", a file of the output folder is replaced only
\* with the option /o or its like or the user's consent.
THEOREM ConsentAsked ==
  ASSUME DotFirst
  PROVE  Spec => []AsksFirst
  <1>1. InvIfDotFirst => AsksFirst
    BY DEF InvIfDotFirst
  <1> QED
    BY <1>1, InitInv, InvIfDotFirstStep, PTL DEF Spec
=============================================================================
