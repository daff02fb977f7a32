--------------------------- MODULE EvidenceStore ----------------------------
(***************************************************************************)
(* What the tools promise about the evidence they leave: a path is claimed *)
(* by the tool that creates it, only that tool ever publishes a document   *)
(* there, and a published document is final.  A tool that dies in between  *)
(* leaves the path claimed for ever.                                       *)
(***************************************************************************)
CONSTANTS
    Writers,     \* the invocations of the tools
    Paths,       \* the paths they may be given
    Documents,   \* what they may publish
    Null

VARIABLE files   \* what is at each path

\* A claimed path: who created it, and its document once it has one.
File(w, document) == [by |-> w, document |-> document]

Init == files = [p \in Paths |-> Null]

Claim(w, p) ==
    /\ files[p] = Null
    /\ files' = [files EXCEPT ![p] = File(w, Null)]

Publish(w, p) ==
    /\ files[p] = File(w, Null)
    /\ files'[p].document \in Documents
    /\ files' = [files EXCEPT ![p] = File(w, files'[p].document)]

Next == \E w \in Writers, p \in Paths : Claim(w, p) \/ Publish(w, p)

Spec == Init /\ [][Next]_files
=============================================================================
