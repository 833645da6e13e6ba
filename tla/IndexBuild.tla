------------------------------ MODULE IndexBuild ------------------------------
(***************************************************************************)
(* What building an index promises to the tool that asks for it: files of   *)
(* the request appear one by one, a mapping file only beside the index file *)
(* it describes, and success means that exactly the files of the request    *)
(* are there.  A failed build may leave any of them behind.                 *)
(***************************************************************************)
CONSTANT
  Requests    \* the sets of files a build may be asked for: of records with
              \* the package a file belongs to and its kind, "pri" or "map"

VARIABLES
  request,  \* the files this build is asked for
  files,    \* those in the output folder
  outcome   \* "building", "built" or "failed"

Init ==
  /\ request \in Requests
  /\ files = {}
  /\ outcome = "building"

Ordered(s) == \A f \in s : [f EXCEPT !.kind = "pri"] \in s

Produce ==
  /\ outcome = "building"
  /\ \E f \in request : files' = files \cup {f}
  /\ Ordered(files')
  /\ outcome' = "building" \/ (outcome' = "built" /\ files' = request)
  /\ UNCHANGED request

Succeed ==
  /\ outcome = "building" /\ files = request
  /\ outcome' = "built"
  /\ UNCHANGED <<request, files>>

Fail ==
  /\ outcome = "building"
  /\ files' = files \/ \E f \in request : files' = files \cup {f}
  /\ outcome' = "failed"
  /\ UNCHANGED request

Next == Produce \/ Succeed \/ Fail

Spec == Init /\ [][Next]_<<request, files, outcome>>
=============================================================================
