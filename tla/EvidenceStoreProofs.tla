------------------------- MODULE EvidenceStoreProofs ------------------------
(***************************************************************************)
(* What follows from EvidenceStore, and so holds of every tool that        *)
(* implements it: the engine's two documents, the real adapter's evidence, *)
(* the reports of the gates.                                               *)
(***************************************************************************)
EXTENDS EvidenceStore, TLAPS

\* A path holds nothing, a claim, or a document.
Entries == {Null} \cup {File(w, document) : w \in Writers, document \in Documents \cup {Null}}

TypeOK == files \in [Paths -> Entries]

\* Nothing is told from a claim, and a claim from a document.
NullIsNothing ==
    /\ Null \notin Documents
    /\ \A w \in Writers, document \in Documents \cup {Null} : File(w, document) # Null

\* A step leaves every claimant at its path and every document as it is.
KeepsEvidence ==
    \A p \in Paths : files[p] # Null =>
        /\ files'[p] # Null /\ files'[p].by = files[p].by
        /\ files[p].document # Null => files'[p] = files[p]

-----------------------------------------------------------------------------

\* Claiming and publishing change one path, from nothing or from a claim.
LEMMA StepKeepsEvidence ==
    ASSUME NullIsNothing, TypeOK, Next
    PROVE  TypeOK' /\ KeepsEvidence
<1>1. PICK w \in Writers, p \in Paths : Claim(w, p) \/ Publish(w, p)
    BY DEF Next
<1>2. CASE Claim(w, p)
    <2> DEFINE claim == File(w, Null)
    <2>1. claim # Null /\ claim \in Entries
        BY DEF NullIsNothing, Entries
    <2>2. files[p] = Null /\ files' = [files EXCEPT ![p] = claim]
        BY <1>2 DEF Claim
    <2> HIDE DEF claim
    <2> QED BY <2>1, <2>2 DEF TypeOK, KeepsEvidence
<1>3. CASE Publish(w, p)
    <2> DEFINE entry == File(w, files'[p].document)
    <2>1. files[p].by = w /\ files[p].document = Null
        BY <1>3 DEF Publish, File
    <2>2. entry \in Entries /\ entry # Null /\ entry.by = w
        BY <1>3 DEF Publish, NullIsNothing, Entries, File
    <2>3. files' = [files EXCEPT ![p] = entry]
        BY <1>3 DEF Publish
    <2> HIDE DEF entry
    <2> QED BY <2>1, <2>2, <2>3 DEF TypeOK, KeepsEvidence
<1> QED BY <1>1, <1>2, <1>3

\* Published evidence is final, and a path stays with the tool that created it.
THEOREM EvidenceIsFinal ==
    ASSUME NullIsNothing
    PROVE  Spec => [][KeepsEvidence]_files
<1>1. Init => TypeOK
    BY DEF Init, TypeOK, Entries
<1>2. TypeOK /\ [Next]_files => TypeOK'
    BY StepKeepsEvidence DEF TypeOK
<1>3. TypeOK /\ [Next]_files => [KeepsEvidence]_files
    BY StepKeepsEvidence
<1> QED BY <1>1, <1>2, <1>3, PTL DEF Spec
=============================================================================
