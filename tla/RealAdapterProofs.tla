------------------------- MODULE RealAdapterProofs --------------------------
(***************************************************************************)
(* Proofs about RealAdapter, for any number of runs, workspaces and gates, *)
(* any series, and edits to files of every kind, those that nothing sees   *)
(* included.                                                               *)
(*                                                                         *)
(* A gate sees two digests and a commit, long after the run that wrote     *)
(* them.  The invariant says at each stage what the tree holds (Holds),    *)
(* what the run recorded of it (Recorded) and what its digests stand for   *)
(* (Digested).  It speaks of a run's values, so that a step of anyone else *)
(* keeps it by leaving them alone.  Of a gate it says that its evidence is *)
(* that of a whole integration (Sound) and what may still be in the part   *)
(* of the tree that was read (Seen).                                       *)
(***************************************************************************)
EXTENDS RealAdapter, SequenceTheorems, TLAPS

Early == {"request", "source", "worktree"}
Patched == {"files", "diff", "recheck"}
Made == {"clean", "recheck"} \cup Integrating

\* s is the beginning of the series.
Begins(s) ==
    /\ Len(s) <= Len(Series)
    /\ \A i \in 1..Len(s) : s[i] = Series[i]

\* The candidate is known once the request was read.
Learnt(p, i) == p \in {"source", "worktree"} \cup Made => i.candidate \in Commits

Recorded(p, o) ==
    /\ Begins(o.applied)
    /\ p \in Working => ~ o.pass
    /\ p \in {"start", "mkdir"} => o.applied = <<>>
    /\ p \in {"materialize", "apply"} \cup Patched => o.status = "PREPARED"
    /\ p = "apply" => Len(o.applied) < Len(Series)
    /\ p \in Patched => Len(o.applied) = Len(Series)

\* What the tree of a run holds, and how it agrees with the record.
Holds(p, i, o, t) ==
    /\ p \in Early => t = Null
    /\ p \in Made => t # Null /\ ~ t.partial
    /\ p \in {"apply"} \cup Patched => t.downstream
    /\ t = Null => o.applied = <<>>
    /\ t # Null =>
        /\ t.applied = o.applied
        /\ t.base = i.candidate
        /\ o.status = "NOT_CREATED" => ~ t.downstream
    /\ o.pass => t # Null /\ ~ t.partial /\ t.downstream

\* Files with every change of the run, and evident edits in x at most.
Whole(c, x) ==
    c.downstream /\ c.applied = Series /\ ~ c.partial /\ c.foreign \ Ignored \subseteq x

Digested(p, o, d, x) ==
    /\ d.files # Null => Whole(d.files, x)
    /\ d.diff # Null => d.diff.foreign \subseteq x
    /\ p \in {"diff", "recheck"} => d.files # Null
    /\ p = "recheck" => d.diff # Null
    /\ o.pass => d.files # Null /\ d.diff # Null

\* Whose workspace it is, and what is published there.
Owned(r) ==
    /\ pc[r] \in {"start", "mkdir"} => ~ Created(r)
    /\ pc[r] \in Early \cup Made => Created(r)
    /\ outcome[r].pass => Created(r)
    /\ Created(r) /\ At(r).evidence # Null =>
        /\ pc[r] = "done"
        /\ At(r).evidence = Document(r)
    /\ Created(r) /\ At(r).evidence = Null /\ pc[r] = "done" =>
        outcome[r].class = "EVIDENCE_WRITE_FAILED" /\ ~ outcome[r].pass

RunInv(r) ==
    /\ Learnt(pc[r], inputs[r])
    /\ Recorded(pc[r], outcome[r])
    /\ Created(r) /\ pc[r] # "dead" => Holds(pc[r], inputs[r], outcome[r], At(r).tree)
    /\ Created(r) /\ pc[r] \in Integrating =>
        At(r).tree.foreign \cap Evident \subseteq touched[r]
    /\ Digested(pc[r], outcome[r], digest[r], touched[r])
    /\ Owned(r)

\* Whoever a workspace belongs to was given its path.
OwnersWereGivenPaths == \A w \in Workspaces : space[w] # Null => path[space[w].owner] = w

\* A gate goes on with the evidence of a PASS only.
Sound(e) ==
    /\ e.outcome.pass
    /\ e.digest.files # Null /\ Whole(e.digest.files, touched[e.by])
    /\ e.digest.diff # Null /\ e.digest.diff.foreign \subseteq touched[e.by]

\* Of the edits f that are in a tree, those the gate has looked for are known.
Seen(k, f, x) ==
    /\ k.stage \in {"untracked", "files"} => f \cap InDiff \subseteq x
    /\ k.stage = "files" =>
        /\ f \ (InDiff \cup InFiles \cup Ignored) \subseteq x
        /\ (f \cap (InFiles \ k.unread)) \ Ignored \subseteq x

ReadsWell(k) ==
    /\ space[k.at] # Null /\ space[k.at].tree # Null
    /\ space[k.at].tree.base = k.evidence.inputs.candidate
    /\ Seen(k, space[k.at].tree.foreign, touched[k.evidence.by] \cup k.meanwhile)

\* AcceptedTreeIsIntegrated, of one gate.
AcceptsWell(k) ==
    /\ k.tree.base = k.evidence.inputs.candidate
    /\ k.tree.downstream /\ k.tree.applied = Series /\ ~ k.tree.partial
    /\ k.tree.foreign \ Ignored \subseteq touched[k.evidence.by] \cup k.meanwhile

GateInv(g) ==
    gate[g] # Null =>
        /\ Sound(gate[g].evidence)
        /\ gate[g].stage # "accepted" => ReadsWell(gate[g])
        /\ gate[g].stage = "accepted" => AcceptsWell(gate[g])

AdapterInv ==
    /\ TypeOK
    /\ \A r \in Runs : RunInv(r)
    /\ OwnersWereGivenPaths
    /\ \A g \in Gates : GateInv(g)

-----------------------------------------------------------------------------
(* Lemmas about sequences and records                                      *)

\* Appending to a sequence keeps what it held.
LEMMA AppendKeeps ==
    ASSUME NEW S, NEW s \in Seq(S), NEW e \in S
    PROVE  /\ Append(s, e) \in Seq(S)
           /\ Len(Append(s, e)) = Len(s) + 1
           /\ \A i \in 1..Len(s) : Append(s, e)[i] = s[i]
           /\ Append(s, e)[Len(s) + 1] = e
OBVIOUS

\* The series is a sequence of patches.
LEMMA SeriesType ==
    /\ Series \in Seq(Patches)
    /\ Len(Series) \in Nat
    /\ \A i \in 1..Len(Series) : Series[i] \in Patches
BY SeriesAssumption, LenProperties, ElementOfSeq

\* A beginning of the series that is as long as the series is all of it.
LEMMA WholeSeries ==
    ASSUME NEW s \in Seq(Patches), Begins(s), Len(s) = Len(Series)
    PROVE  s = Series
BY SeriesType, SeqEqual DEF Begins

\* The next patch exists, and with it the sequence is still a beginning.
LEMMA BeginsAppend ==
    ASSUME NEW s \in Seq(Patches), Begins(s), Len(s) < Len(Series)
    PROVE  /\ Series[Len(s) + 1] \in Patches
           /\ Append(s, Series[Len(s) + 1]) \in Seq(Patches)
           /\ Begins(Append(s, Series[Len(s) + 1]))
<1>1. Len(s) \in Nat /\ Series[Len(s) + 1] \in Patches
    BY SeriesType, LenProperties
<1> DEFINE t == Append(s, Series[Len(s) + 1])
<1>2. /\ t \in Seq(Patches)
      /\ Len(t) = Len(s) + 1
      /\ \A i \in 1..Len(s) : t[i] = s[i]
      /\ t[Len(s) + 1] = Series[Len(s) + 1]
    BY <1>1, AppendKeeps
<1> HIDE DEF t
<1>3. Begins(t)
    BY <1>1, <1>2, SeriesType DEF Begins
<1> QED BY <1>1, <1>2, <1>3 DEF t

\* A beginning of the series is a SubSeq of it.
LEMMA BeginsIsSubSeq ==
    ASSUME NEW s \in Seq(Patches), Begins(s)
    PROVE  s = SubSeq(Series, 1, Len(s))
<1>1. Len(s) \in Nat /\ s = [i \in 1..Len(s) |-> s[i]]
    BY LenProperties
<1>2. \A i \in 1..Len(s) : Series[i] \in Patches
    BY <1>1, SeriesType DEF Begins
<1>3. [i \in 1..Len(s) |-> s[i]] = [i \in 1..Len(s) |-> Series[i]]
    BY DEF Begins
<1>4. [i \in 1..Len(s) |-> Series[i]] = SubSeq(Series, 1, Len(s))
    BY <1>1, <1>2, SeriesType
<1> QED BY <1>1, <1>3, <1>4

\* The constructors build values of their types, with the fields given.
LEMMA OutcomeIs ==
    ASSUME NEW class \in Optional(Failures), NEW attempted \in Seq(Patches),
           NEW applied \in Seq(Patches),
           NEW status \in {"NOT_CREATED", "PREPARED", "FAILED", "COMPLETE"},
           NEW pass \in BOOLEAN
    PROVE  LET o == Outcome(class, attempted, applied, status, pass)
           IN  /\ o \in Outcomes
               /\ o.class = class /\ o.attempted = attempted /\ o.applied = applied
               /\ o.status = status /\ o.pass = pass
BY DEF Outcome, Outcomes

\* The same for a tree.
LEMMA TreeIs ==
    ASSUME NEW base \in Commits, NEW downstream \in BOOLEAN, NEW applied \in Seq(Patches),
           NEW partial \in BOOLEAN, NEW foreign \in SUBSET Edits
    PROVE  LET t == Tree(base, downstream, applied, partial, foreign)
           IN  /\ t \in Trees /\ t # Null
               /\ t.base = base /\ t.downstream = downstream /\ t.applied = applied
               /\ t.partial = partial /\ t.foreign = foreign
BY NullAssumption DEF Tree, Trees

\* For what the digests stand for.
LEMMA ContentIs ==
    ASSUME NEW t \in Trees
    PROVE  /\ FilesContent(t) \in Contents /\ FilesContent(t) # Null
           /\ FilesContent(t).downstream = t.downstream
           /\ FilesContent(t).applied = t.applied
           /\ FilesContent(t).partial = t.partial
           /\ FilesContent(t).foreign = t.foreign \cap InFiles
           /\ DiffContent(t) \in Diffs /\ DiffContent(t) # Null
           /\ DiffContent(t).foreign = t.foreign \cap InDiff
<1>1. t.foreign \subseteq Edits /\ t \in Trees
    BY DEF Trees
<1>2. FilesContent(t) \in Contents
    BY <1>1 DEF FilesContent, Contents, Trees
<1>3. DiffContent(t) \in Diffs
    BY <1>1, SeriesAssumption DEF DiffContent, Diffs
<1> QED BY <1>2, <1>3, NullAssumption DEF FilesContent, DiffContent

\* For a workspace.
LEMMA SpaceIs ==
    ASSUME NEW owner \in Runs, NEW tree \in Optional(Trees),
           NEW evidence \in Optional(Documents)
    PROVE  LET s == Space(owner, tree, evidence)
           IN  /\ s \in Spaces /\ s # Null
               /\ s.owner = owner /\ s.tree = tree /\ s.evidence = evidence
BY NullAssumption DEF Space, Spaces

\* For the evidence a run would write now.
LEMMA DocumentIs ==
    ASSUME TypeOK, NEW r \in Runs
    PROVE  /\ Document(r) \in Documents /\ Document(r) # Null
           /\ Document(r).by = r /\ Document(r).inputs = inputs[r]
           /\ Document(r).digest = digest[r] /\ Document(r).outcome = outcome[r]
BY NullAssumption DEF Document, Documents, TypeOK

\* The values of one run, and what is at its path, have their types.
LEMMA RunTypes ==
    ASSUME TypeOK, NEW r \in Runs
    PROVE  /\ path[r] \in Workspaces /\ pc[r] \in Stages /\ touched[r] \subseteq Edits
           /\ inputs[r] \in InputRecords /\ digest[r] \in Digests
           /\ digest[r].files \in Optional(Contents) /\ digest[r].diff \in Optional(Diffs)
           /\ inputs[r].candidate \in Optional(Commits)
           /\ outcome[r] \in Outcomes /\ outcome[r].class \in Optional(Failures)
           /\ outcome[r].attempted \in Seq(Patches) /\ outcome[r].applied \in Seq(Patches)
           /\ outcome[r].status \in {"NOT_CREATED", "PREPARED", "FAILED", "COMPLETE"}
           /\ outcome[r].pass \in BOOLEAN
           /\ At(r) \in Optional(Spaces)
BY DEF TypeOK, Digests, InputRecords, Outcomes, At

\* The fields of a workspace.
LEMMA SpaceTypes ==
    ASSUME NEW s \in Spaces
    PROVE  s.owner \in Runs /\ s.tree \in Optional(Trees) /\ s.evidence \in Optional(Documents)
BY DEF Spaces

\* The fields of a tree.
LEMMA TreeTypes ==
    ASSUME NEW t \in Trees
    PROVE  /\ t.base \in Commits /\ t.downstream \in BOOLEAN /\ t.applied \in Seq(Patches)
           /\ t.partial \in BOOLEAN /\ t.foreign \subseteq Edits
BY DEF Trees

\* The fields of a gate.
LEMMA CheckTypes ==
    ASSUME NEW k \in Checks
    PROVE  /\ k.evidence \in Documents /\ k.evidence.by \in Runs /\ k.at \in Workspaces
           /\ k.stage \in {"diff", "untracked", "files", "accepted"}
           /\ k.unread \subseteq InFiles /\ k.tree \in Optional(Trees)
           /\ k.meanwhile \subseteq Edits
BY DEF Checks, Documents

-----------------------------------------------------------------------------
(* Steps of one run                                                        *)

\* Only what r holds of these variables changes.
Alone(r) ==
    /\ \A s \in Runs \ {r} :
        /\ pc'[s] = pc[s] /\ inputs'[s] = inputs[s]
        /\ outcome'[s] = outcome[s] /\ digest'[s] = digest[s]
    /\ root' = root /\ path' = path /\ touched' = touched /\ gate' = gate

\* A step of a run, or its death, changes nobody else.
LEMMA RunIsAlone ==
    ASSUME TypeOK, NEW r \in Runs, Run(r) \/ Crash(r)
    PROVE  Alone(r)
<1> USE DEF TypeOK, Goto, Alone
<1>1. CASE Accept(r) \/ MakeWorkspace(r) \/ LoadRequest(r) \/ CheckSource(r)
    BY <1>1 DEF Accept, MakeWorkspace, LoadRequest, CheckSource
<1>2. CASE AddWorktree(r) \/ CheckWorktree(r) \/ BuildPlan(r)
    BY <1>2 DEF AddWorktree, CheckWorktree, BuildPlan
<1>3. CASE MaterializeDownstream(r) \/ ApplyPatch(r)
    BY <1>3 DEF MaterializeDownstream, ApplyPatch, AfterPatch
<1>4. CASE HashFiles(r) \/ HashDiff(r) \/ Recheck(r)
    BY <1>4 DEF HashFiles, HashDiff, Recheck
<1>5. CASE Fails(r) \/ Crash(r)
    BY <1>5 DEF Fails, Fail, Crash
<1>6. CASE WriteEvidence(r) \/ WriteNothing(r) \/ WriteFails(r)
    BY <1>6 DEF WriteEvidence, WriteNothing, WriteFails, WriteFailed
<1> QED BY <1>1, <1>2, <1>3, <1>4, <1>5, <1>6 DEF Run

\* What a tree keeps that a run works on: its commit and the edits of people.
SameTree(t, u) == t # Null => u # Null /\ u.base = t.base /\ u.foreign = t.foreign

TreesKept ==
    \A w \in Workspaces : space[w] # Null =>
        space'[w] # Null /\ SameTree(space[w].tree, space'[w].tree)

\* What belongs to the other runs is as it was, and every path too but r's.
SpaceKept(r) ==
    /\ TreesKept
    /\ space' \in [Workspaces -> Optional(Spaces)]
    /\ \A w \in Workspaces : space'[w] = space[w] \/ (w = path[r] /\ space'[w].owner = r)
    /\ \A s \in Runs \ {r} :
        /\ Created(s)' <=> Created(s)
        /\ Created(s) => At(s)' = At(s)

\* When no path changes, nothing at a path does.
LEMMA SpaceUnchanged ==
    ASSUME TypeOK, NEW r \in Runs, UNCHANGED <<space, path>>
    PROVE  /\ SpaceKept(r)
           /\ At(r)' = At(r)
           /\ Created(r)' <=> Created(r)
BY DEF SpaceKept, TreesKept, SameTree, TypeOK, At, Created

\* When r writes to a path that is free or its own.
LEMMA SpaceStep ==
    ASSUME TypeOK, NEW r \in Runs, path' = path,
           NEW x \in Spaces, x.owner = r, SetSpace(path[r], x),
           At(r) = Null \/ (Created(r) /\ SameTree(At(r).tree, x.tree))
    PROVE  /\ SpaceKept(r)
           /\ At(r)' = x
           /\ Created(r)'
<1>1. /\ path[r] \in Workspaces /\ x # Null
      /\ \A s \in Runs : path[s] \in Workspaces
    BY NullAssumption DEF TypeOK
<1>2. /\ space'[path[r]] = x
      /\ \A w \in Workspaces : w # path[r] => space'[w] = space[w]
      /\ space' \in [Workspaces -> Optional(Spaces)]
    BY <1>1 DEF TypeOK, SetSpace, Optional
<1>3. At(r)' = x /\ Created(r)'
    BY <1>1, <1>2 DEF At, Created
<1>4. ASSUME NEW s \in Runs \ {r}
      PROVE  (Created(s)' <=> Created(s)) /\ (Created(s) => At(s)' = At(s))
    <2>1. CASE path[s] = path[r]
        BY <1>1, <1>2, <2>1 DEF At, Created
    <2>2. CASE path[s] # path[r]
        BY <1>1, <1>2, <2>2 DEF At, Created
    <2> QED BY <2>1, <2>2
<1>5. TreesKept
    BY <1>1, <1>2 DEF TreesKept, SameTree, At
<1> QED BY <1>2, <1>3, <1>4, <1>5 DEF SpaceKept

\* A step that leaves a run's values and workspace alone keeps its part of the
\* invariant.
LEMMA OthersKeep ==
    ASSUME NEW r \in Runs, NEW s \in Runs \ {r}, RunInv(s), Alone(r), SpaceKept(r)
    PROVE  RunInv(s)'
<1>1. /\ pc'[s] = pc[s] /\ inputs'[s] = inputs[s] /\ outcome'[s] = outcome[s]
      /\ digest'[s] = digest[s] /\ touched'[s] = touched[s]
      /\ Created(s)' <=> Created(s)
      /\ Created(s) => At(s)' = At(s)
      /\ Document(s)' = Document(s)
    BY DEF Alone, SpaceKept, Document
<1> QED BY <1>1 DEF RunInv, Learnt, Recorded, Holds, Whole, Digested, Owned

\* What a step of a run has to show.
LEMMA StepKeeps ==
    ASSUME AdapterInv, NEW r \in Runs, Alone(r), SpaceKept(r), RunInv(r)',
           pc' \in [Runs -> Stages], inputs' \in [Runs -> InputRecords],
           outcome' \in [Runs -> Outcomes], digest' \in [Runs -> Digests]
    PROVE  AdapterInv'
<1>1. TypeOK'
    BY DEF AdapterInv, TypeOK, Alone, SpaceKept
<1>2. \A s \in Runs : RunInv(s)'
    BY OthersKeep DEF AdapterInv
<1>3. OwnersWereGivenPaths'
    BY DEF AdapterInv, OwnersWereGivenPaths, SpaceKept, Alone
<1>4. ASSUME NEW g \in Gates, gate[g] # Null PROVE GateInv(g)'
    <2>1. PICK k \in Checks : k = gate[g]
        BY <1>4 DEF AdapterInv, TypeOK, Optional
    <2>2. gate'[g] = k /\ touched' = touched /\ k.at \in Workspaces
        BY <2>1, CheckTypes DEF Alone
    <2>3. Sound(k.evidence) => Sound(k.evidence)'
        BY <2>2 DEF Sound
    <2>4. AcceptsWell(k) => AcceptsWell(k)'
        BY <2>2 DEF AcceptsWell
    <2>5. ReadsWell(k) => ReadsWell(k)'
        BY <2>2 DEF ReadsWell, Seen, SpaceKept, TreesKept, SameTree
    <2> QED BY <1>4, <2>1, <2>2, <2>3, <2>4, <2>5 DEF AdapterInv, GateInv
<1>5. \A g \in Gates : GateInv(g)'
    BY <1>4 DEF GateInv, Alone
<1> QED BY <1>1, <1>2, <1>3, <1>5 DEF AdapterInv

-----------------------------------------------------------------------------
(* Stages before there is a tree                                           *)

\* The path is free.
LEMMA AcceptKeeps ==
    ASSUME AdapterInv, NEW r \in Runs, Accept(r)
    PROVE  AdapterInv'
<1>1. TypeOK /\ RunInv(r) /\ Alone(r)
    BY RunIsAlone DEF AdapterInv, Run
<1>2. /\ pc' \in [Runs -> Stages] /\ inputs' \in [Runs -> InputRecords]
      /\ outcome' \in [Runs -> Outcomes] /\ digest' \in [Runs -> Digests]
      /\ pc[r] = "start" /\ pc'[r] = "mkdir"
      /\ inputs'[r] = inputs[r]
      /\ outcome'[r] = outcome[r]
      /\ digest'[r] = digest[r]
    BY <1>1 DEF TypeOK, Accept, Goto, Stages, Working, Integrating
<1>3. SpaceKept(r) /\ At(r)' = At(r) /\ (Created(r)' <=> Created(r))
    BY <1>1, SpaceUnchanged DEF Accept
<1>4. touched'[r] = touched[r]
    BY <1>1 DEF Alone
<1>5. RunInv(r)'
    BY <1>1, <1>2, <1>3, <1>4
       DEF RunInv, Learnt, Recorded, Holds, Whole, Digested, Owned, Early, Made, Patched,
           Integrating, Working
<1> QED BY <1>1, <1>2, <1>3, <1>5, StepKeeps

\* The directory is new and r's own.
LEMMA MakeWorkspaceKeeps ==
    ASSUME AdapterInv, NEW r \in Runs, MakeWorkspace(r)
    PROVE  AdapterInv'
<1>1. TypeOK /\ RunInv(r) /\ Alone(r)
    BY RunIsAlone DEF AdapterInv, Run
<1>2. /\ pc' \in [Runs -> Stages] /\ inputs' \in [Runs -> InputRecords]
      /\ outcome' \in [Runs -> Outcomes] /\ digest' \in [Runs -> Digests]
      /\ pc[r] = "mkdir" /\ pc'[r] = "request"
      /\ inputs'[r] = inputs[r]
      /\ outcome'[r] = outcome[r]
      /\ digest'[r] = digest[r]
    BY <1>1 DEF TypeOK, MakeWorkspace, Goto, Stages, Working, Integrating
<1>3. /\ Space(r, Null, Null) \in Spaces
      /\ Space(r, Null, Null).owner = r
      /\ Space(r, Null, Null).tree = Null
      /\ Space(r, Null, Null).evidence = Null
    BY SpaceIs DEF Optional
<1>4. SpaceKept(r) /\ At(r)' = Space(r, Null, Null) /\ Created(r)'
    BY <1>1, <1>3, SpaceStep DEF MakeWorkspace, SameTree
<1>5. touched'[r] = touched[r]
    BY <1>1 DEF Alone
<1>6. RunInv(r)'
    BY <1>1, <1>2, <1>3, <1>4, <1>5
       DEF RunInv, Learnt, Recorded, Holds, Whole, Digested, Owned, Early, Made, Patched,
           Integrating, Working
<1> QED BY <1>1, <1>2, <1>4, <1>6, StepKeeps

\* The candidate is one of the commits; nothing is in the workspace yet.
LEMMA LoadRequestKeeps ==
    ASSUME AdapterInv, NEW r \in Runs, LoadRequest(r)
    PROVE  AdapterInv'
<1>1. TypeOK /\ RunInv(r) /\ Alone(r)
    BY RunIsAlone DEF AdapterInv, Run
<1>2. PICK commit \in Commits : inputs' = [inputs EXCEPT ![r] = Inputs(commit, Null)]
    BY DEF LoadRequest
<1>3. Inputs(commit, Null) \in InputRecords /\ Inputs(commit, Null).candidate = commit
    BY DEF Inputs, InputRecords, Optional
<1>4. /\ pc' \in [Runs -> Stages] /\ inputs' \in [Runs -> InputRecords]
      /\ outcome' \in [Runs -> Outcomes] /\ digest' \in [Runs -> Digests]
      /\ pc[r] = "request" /\ pc'[r] = "source"
      /\ inputs'[r].candidate \in Commits
      /\ outcome'[r] = outcome[r]
      /\ digest'[r] = digest[r]
    BY <1>1, <1>2, <1>3 DEF TypeOK, LoadRequest, Goto, Stages, Working, Integrating
<1>5. SpaceKept(r) /\ At(r)' = At(r) /\ (Created(r)' <=> Created(r))
    BY <1>1, SpaceUnchanged DEF LoadRequest
<1>6. touched'[r] = touched[r]
    BY <1>1 DEF Alone
<1>7. RunInv(r)'
    BY <1>1, <1>4, <1>5, <1>6
       DEF RunInv, Learnt, Recorded, Holds, Whole, Digested, Owned, Early, Made, Patched,
           Integrating, Working
<1> QED BY <1>1, <1>4, <1>5, <1>7, StepKeeps

\* The root is recorded beside the candidate it equals.
LEMMA CheckSourceKeeps ==
    ASSUME AdapterInv, NEW r \in Runs, CheckSource(r)
    PROVE  AdapterInv'
<1>1. TypeOK /\ RunInv(r) /\ Alone(r)
    BY RunIsAlone DEF AdapterInv, Run
<1>2. /\ inputs[r].candidate \in Optional(Commits) /\ root \in Optional(Commits)
    BY <1>1, RunTypes DEF TypeOK
<1>3. /\ Inputs(inputs[r].candidate, root) \in InputRecords
      /\ Inputs(inputs[r].candidate, root).candidate = inputs[r].candidate
    BY <1>2 DEF Inputs, InputRecords
<1>4. /\ pc' \in [Runs -> Stages] /\ inputs' \in [Runs -> InputRecords]
      /\ outcome' \in [Runs -> Outcomes] /\ digest' \in [Runs -> Digests]
      /\ pc[r] = "source" /\ pc'[r] = "worktree"
      /\ inputs'[r].candidate = inputs[r].candidate
      /\ outcome'[r] = outcome[r]
      /\ digest'[r] = digest[r]
    BY <1>1, <1>3 DEF TypeOK, CheckSource, Goto, Stages, Working, Integrating
<1>5. SpaceKept(r) /\ At(r)' = At(r) /\ (Created(r)' <=> Created(r))
    BY <1>1, SpaceUnchanged DEF CheckSource
<1>6. touched'[r] = touched[r]
    BY <1>1 DEF Alone
<1>7. RunInv(r)'
    BY <1>1, <1>4, <1>5, <1>6
       DEF RunInv, Learnt, Recorded, Holds, Whole, Digested, Owned, Early, Made, Patched,
           Integrating, Working
<1> QED BY <1>1, <1>4, <1>5, <1>7, StepKeeps

-----------------------------------------------------------------------------
(* Stages with a tree                                                      *)

\* What a run that has its workspace makes of the tree in it.
LEMMA TreeStep ==
    ASSUME TypeOK, NEW r \in Runs, path' = path, Created(r), NEW t \in Trees, SetTree(r, t),
           SameTree(At(r).tree, t)
    PROVE  /\ SpaceKept(r)
           /\ Created(r)'
           /\ At(r)'.tree = t
           /\ At(r)'.evidence = At(r).evidence
<1>1. At(r) \in Spaces /\ At(r).owner = r
    BY RunTypes DEF Created, Optional
<1>2. At(r).evidence \in Optional(Documents) /\ t \in Optional(Trees)
    BY <1>1, SpaceTypes DEF Optional
<1> DEFINE x == Space(At(r).owner, t, At(r).evidence)
<1>3. x \in Spaces /\ x.owner = r /\ x.tree = t /\ x.evidence = At(r).evidence
    BY <1>1, <1>2, SpaceIs
<1>4. SetSpace(path[r], x)
    BY DEF SetTree
<1> HIDE DEF x
<1> QED BY <1>3, <1>4, SpaceStep

\* The worktree is at the candidate and holds nothing else.
LEMMA AddWorktreeKeeps ==
    ASSUME AdapterInv, NEW r \in Runs, AddWorktree(r)
    PROVE  AdapterInv'
<1>1. TypeOK /\ RunInv(r) /\ Alone(r)
    BY RunIsAlone DEF AdapterInv, Run
<1>2. /\ pc' \in [Runs -> Stages] /\ inputs' \in [Runs -> InputRecords]
      /\ outcome' \in [Runs -> Outcomes] /\ digest' \in [Runs -> Digests]
      /\ pc[r] = "worktree" /\ pc'[r] = "clean"
      /\ inputs'[r] = inputs[r]
      /\ outcome'[r] = outcome[r]
      /\ digest'[r] = digest[r]
    BY <1>1 DEF TypeOK, AddWorktree, Goto, Stages, Working, Integrating
<1>3. Created(r) /\ inputs[r].candidate \in Commits /\ At(r).tree = Null
    BY <1>1, <1>2 DEF RunInv, Owned, Learnt, Holds, Early, Made
<1> DEFINE t == Tree(inputs[r].candidate, FALSE, <<>>, FALSE, {})
<1>4. /\ t \in Trees /\ t # Null /\ t.base = inputs[r].candidate /\ ~ t.downstream
      /\ t.applied = <<>> /\ ~ t.partial
    <2>1. /\ t.base = inputs[r].candidate /\ ~ t.downstream
          /\ t.applied = <<>> /\ ~ t.partial
        BY DEF Tree
    <2>2. <<>> \in Seq(Patches)
        OBVIOUS
    <2>3. t \in Trees
        BY <1>3, <2>2 DEF Tree, Trees
    <2> QED BY <2>1, <2>3, NullAssumption
<1>5. SetTree(r, t)
    BY DEF AddWorktree
<1> HIDE DEF t
<1>6. SpaceKept(r) /\ Created(r)' /\ At(r)'.tree = t /\ At(r)'.evidence = At(r).evidence
    BY <1>1, <1>3, <1>4, <1>5, TreeStep DEF Alone, SameTree
<1>7. touched'[r] = touched[r]
    BY <1>1 DEF Alone
<1>8. RunInv(r)'
    BY <1>1, <1>2, <1>3, <1>4, <1>6, <1>7
       DEF RunInv, Learnt, Recorded, Holds, Whole, Digested, Owned, Early, Made, Patched,
           Integrating, Working
<1> QED BY <1>1, <1>2, <1>6, <1>8, StepKeeps

\* Nobody has edited what Git sees of the tree when the integration starts.
LEMMA CheckWorktreeKeeps ==
    ASSUME AdapterInv, NEW r \in Runs, CheckWorktree(r)
    PROVE  AdapterInv'
<1>1. TypeOK /\ RunInv(r) /\ Alone(r)
    BY RunIsAlone DEF AdapterInv, Run
<1>2. /\ pc' \in [Runs -> Stages] /\ inputs' \in [Runs -> InputRecords]
      /\ outcome' \in [Runs -> Outcomes] /\ digest' \in [Runs -> Digests]
      /\ pc[r] = "clean" /\ pc'[r] = "plan" /\ At(r).tree.foreign \cap Evident = {}
      /\ inputs'[r] = inputs[r]
      /\ outcome'[r] = outcome[r]
      /\ digest'[r] = digest[r]
    BY <1>1 DEF TypeOK, CheckWorktree, Goto, Stages, Working, Integrating, Evident
<1>3. SpaceKept(r) /\ At(r)' = At(r) /\ (Created(r)' <=> Created(r))
    BY <1>1, SpaceUnchanged DEF CheckWorktree
<1>4. touched'[r] = touched[r]
    BY <1>1 DEF Alone
<1>5. RunInv(r)'
    BY <1>1, <1>2, <1>3, <1>4
       DEF RunInv, Learnt, Recorded, Holds, Whole, Digested, Owned, Early, Made, Patched,
           Integrating, Working
<1> QED BY <1>1, <1>2, <1>3, <1>5, StepKeeps

\* From here on the status is no longer NOT_CREATED.
LEMMA BuildPlanKeeps ==
    ASSUME AdapterInv, NEW r \in Runs, BuildPlan(r)
    PROVE  AdapterInv'
<1>1. TypeOK /\ RunInv(r) /\ Alone(r)
    BY RunIsAlone DEF AdapterInv, Run
<1> DEFINE o == Outcome(outcome[r].class, outcome[r].attempted, outcome[r].applied,
                     "PREPARED", outcome[r].pass)
<1>2. /\ o \in Outcomes
      /\ o.applied = outcome[r].applied /\ o.status = "PREPARED" /\ o.pass = outcome[r].pass
    BY <1>1, RunTypes, OutcomeIs
<1>3. outcome' = [outcome EXCEPT ![r] = o]
    BY DEF BuildPlan
<1> HIDE DEF o
<1>4. /\ pc' \in [Runs -> Stages] /\ inputs' \in [Runs -> InputRecords]
      /\ outcome' \in [Runs -> Outcomes] /\ digest' \in [Runs -> Digests]
      /\ pc[r] = "plan" /\ pc'[r] = "materialize"
      /\ outcome'[r] = o
      /\ inputs'[r] = inputs[r]
      /\ digest'[r] = digest[r]
    BY <1>1, <1>2, <1>3 DEF TypeOK, BuildPlan, Goto, Stages, Working, Integrating
<1>5. SpaceKept(r) /\ At(r)' = At(r) /\ (Created(r)' <=> Created(r))
    BY <1>1, SpaceUnchanged DEF BuildPlan
<1>6. touched'[r] = touched[r]
    BY <1>1 DEF Alone
<1>7. RunInv(r)'
    BY <1>1, <1>2, <1>4, <1>5, <1>6
       DEF RunInv, Learnt, Recorded, Holds, Whole, Digested, Owned, Early, Made, Patched,
           Integrating, Working
<1> QED BY <1>1, <1>4, <1>5, <1>7, StepKeeps

\* After a patch, or the downstream files, the stage says how much of the
\* series is left.
LEMMA AfterPatchSteps ==
    ASSUME NEW r \in Runs, NEW applied \in Seq(Patches), pc \in [Runs -> Stages],
           Begins(applied), AfterPatch(r, applied)
    PROVE  /\ pc' \in [Runs -> Stages]
           /\ \/ pc'[r] = "apply" /\ Len(applied) < Len(Series)
              \/ pc'[r] = "files" /\ Len(applied) = Len(Series)
<1>1. Len(applied) \in Nat /\ Len(Series) \in Nat /\ Len(applied) <= Len(Series)
    BY SeriesType, LenProperties DEF Begins
<1>2. CASE Len(applied) < Len(Series)
    BY <1>2 DEF AfterPatch, Goto, Stages, Working, Integrating
<1>3. CASE ~ (Len(applied) < Len(Series))
    BY <1>1, <1>3 DEF AfterPatch, Goto, Stages, Working, Integrating
<1> QED BY <1>2, <1>3

\* The tree of a run that is integrating, with its fields.
LEMMA TreeAtWork ==
    ASSUME TypeOK, NEW r \in Runs, RunInv(r), pc[r] \in Made
    PROVE  /\ Created(r) /\ At(r).tree \in Trees
           /\ At(r).tree.base \in Commits /\ At(r).tree.downstream \in BOOLEAN
           /\ At(r).tree.applied \in Seq(Patches) /\ At(r).tree.partial \in BOOLEAN
           /\ At(r).tree.foreign \in SUBSET Edits
<1>1. Created(r) /\ At(r).tree # Null
    BY DEF RunInv, Owned, Holds, Made, Integrating
<1>2. At(r) \in Spaces
    BY <1>1, RunTypes DEF Created, Optional
<1>3. At(r).tree \in Trees
    BY <1>1, <1>2, SpaceTypes DEF Optional
<1> QED BY <1>1, <1>3, TreeTypes

\* The downstream files are in, the series is next.
LEMMA MaterializeDownstreamKeeps ==
    ASSUME AdapterInv, NEW r \in Runs, MaterializeDownstream(r)
    PROVE  AdapterInv'
<1>1. TypeOK /\ RunInv(r) /\ Alone(r)
    BY RunIsAlone DEF AdapterInv, Run
<1>2. /\ pc[r] = "materialize" /\ pc[r] \in Made
      /\ inputs' \in [Runs -> InputRecords] /\ outcome' \in [Runs -> Outcomes]
      /\ digest' \in [Runs -> Digests]
      /\ inputs'[r] = inputs[r] /\ outcome'[r] = outcome[r] /\ digest'[r] = digest[r]
    BY <1>1 DEF TypeOK, MaterializeDownstream, Made, Integrating
<1>3. outcome[r].applied \in Seq(Patches) /\ Begins(outcome[r].applied)
    BY <1>1, RunTypes DEF RunInv, Recorded
<1>4. /\ pc' \in [Runs -> Stages]
      /\ \/ pc'[r] = "apply" /\ Len(outcome[r].applied) < Len(Series)
         \/ pc'[r] = "files" /\ Len(outcome[r].applied) = Len(Series)
    BY <1>1, <1>3, AfterPatchSteps DEF TypeOK, MaterializeDownstream
<1> DEFINE u == At(r).tree
           t == Tree(u.base, TRUE, u.applied, u.partial, u.foreign)
<1>5. /\ t \in Trees /\ t # Null /\ t.base = u.base /\ t.downstream = TRUE
      /\ t.applied = u.applied /\ t.partial = u.partial /\ t.foreign = u.foreign
    <2>1. u \in Trees
        BY <1>1, <1>2, TreeAtWork
    <2> HIDE DEF u
    <2>2. /\ t.base = u.base /\ t.downstream = TRUE
          /\ t.applied = u.applied /\ t.partial = u.partial /\ t.foreign = u.foreign
        BY DEF Tree
    <2>3. t \in Trees
        BY <2>1 DEF Tree, Trees
    <2> QED BY <2>2, <2>3, NullAssumption
<1>6. SetTree(r, t)
    BY DEF MaterializeDownstream
<1> HIDE DEF t
<1>7. SpaceKept(r) /\ Created(r)' /\ At(r)'.tree = t /\ At(r)'.evidence = At(r).evidence
    BY <1>1, <1>2, <1>5, <1>6, TreeAtWork, TreeStep DEF Alone, SameTree
<1>8. touched'[r] = touched[r]
    BY <1>1 DEF Alone
<1>9. RunInv(r)'
    BY <1>1, <1>2, <1>4, <1>5, <1>7, <1>8, TreeAtWork
       DEF RunInv, Learnt, Recorded, Holds, Whole, Digested, Owned, Early, Made, Patched,
           Integrating, Working
<1> QED BY <1>1, <1>2, <1>4, <1>7, <1>9, StepKeeps

\* One more patch, in the record and in the tree.
LEMMA PatchFacts ==
    ASSUME TypeOK, NEW r \in Runs, RunInv(r), pc[r] = "apply"
    PROVE  /\ NextPatch(r) \in Patches
           /\ Append(outcome[r].applied, NextPatch(r)) \in Seq(Patches)
           /\ Begins(Append(outcome[r].applied, NextPatch(r)))
           /\ Attempted(r) \in Outcomes
           /\ Attempted(r).class = outcome[r].class
           /\ Attempted(r).attempted \in Seq(Patches)
           /\ Attempted(r).applied = outcome[r].applied
           /\ Attempted(r).status = outcome[r].status
           /\ Attempted(r).pass = outcome[r].pass
<1>1. /\ outcome[r].applied \in Seq(Patches) /\ Begins(outcome[r].applied)
      /\ Len(outcome[r].applied) < Len(Series)
    BY RunTypes DEF RunInv, Recorded
<1>2. /\ NextPatch(r) \in Patches
      /\ Append(outcome[r].applied, NextPatch(r)) \in Seq(Patches)
      /\ Begins(Append(outcome[r].applied, NextPatch(r)))
    BY <1>1, BeginsAppend DEF NextPatch
<1> DEFINE a == Append(outcome[r].attempted, NextPatch(r))
<1>3. a \in Seq(Patches)
    BY <1>2, RunTypes
<1> HIDE DEF a
<1>4. Attempted(r) = Outcome(outcome[r].class, a, outcome[r].applied, outcome[r].status,
                             outcome[r].pass)
    BY DEF Attempted, a
<1> QED BY <1>2, <1>3, <1>4, RunTypes, OutcomeIs

\* The record and the tree advance together.
LEMMA ApplyPatchKeeps ==
    ASSUME AdapterInv, NEW r \in Runs, ApplyPatch(r)
    PROVE  AdapterInv'
<1>1. TypeOK /\ RunInv(r) /\ Alone(r)
    BY RunIsAlone DEF AdapterInv, Run
<1>2. pc[r] = "apply" /\ pc[r] \in Made
    BY DEF ApplyPatch, Made, Integrating
<1> DEFINE applied == Append(outcome[r].applied, NextPatch(r))
<1>3. applied \in Seq(Patches) /\ Begins(applied)
    BY <1>1, <1>2, PatchFacts
<1> HIDE DEF applied
<1>4. /\ Applied(r) \in Outcomes /\ Applied(r).applied = applied
      /\ Applied(r).status = outcome[r].status /\ Applied(r).pass = outcome[r].pass
    <2>1. Applied(r) = Outcome(Attempted(r).class, Attempted(r).attempted, applied,
                               Attempted(r).status, Attempted(r).pass)
        BY <1>1, <1>2, PatchFacts DEF Applied, applied
    <2> DEFINE o == Attempted(r)
    <2>2. /\ o \in Outcomes /\ o.attempted \in Seq(Patches)
          /\ o.class = outcome[r].class
          /\ o.status = outcome[r].status /\ o.pass = outcome[r].pass
        BY <1>1, <1>2, PatchFacts
    <2> HIDE DEF o
    <2>3. Applied(r) = Outcome(o.class, o.attempted, applied, o.status, o.pass)
        BY <2>1 DEF o
    <2>4. Applied(r) \in Outcomes
        BY <1>3, <2>2, <2>3 DEF Outcome, Outcomes
    <2> QED BY <2>2, <2>3, <2>4 DEF Outcome
<1>5. outcome' = [outcome EXCEPT ![r] = Applied(r)] /\ AfterPatch(r, applied)
    BY <1>4 DEF ApplyPatch
<1>6. /\ inputs' \in [Runs -> InputRecords] /\ outcome' \in [Runs -> Outcomes]
      /\ digest' \in [Runs -> Digests]
      /\ inputs'[r] = inputs[r] /\ outcome'[r] = Applied(r) /\ digest'[r] = digest[r]
    BY <1>1, <1>4, <1>5 DEF TypeOK, ApplyPatch
<1>7. /\ pc' \in [Runs -> Stages]
      /\ \/ pc'[r] = "apply" /\ Len(applied) < Len(Series)
         \/ pc'[r] = "files" /\ Len(applied) = Len(Series)
    BY <1>1, <1>3, <1>5, AfterPatchSteps DEF TypeOK
<1> DEFINE u == At(r).tree
           t == Tree(u.base, u.downstream, applied, u.partial, u.foreign)
<1>8. u \in Trees /\ Created(r) /\ u.applied = outcome[r].applied
    BY <1>1, <1>2, TreeAtWork DEF RunInv, Holds
<1>9. /\ t \in Trees /\ t # Null /\ t.base = u.base /\ t.downstream = u.downstream
      /\ t.applied = applied /\ t.partial = u.partial /\ t.foreign = u.foreign
    <2> HIDE DEF u
    <2>1. /\ t.base = u.base /\ t.downstream = u.downstream
          /\ t.applied = applied /\ t.partial = u.partial /\ t.foreign = u.foreign
        BY DEF Tree
    <2>2. t \in Trees
        BY <1>3, <1>8 DEF Tree, Trees
    <2> QED BY <2>1, <2>2, NullAssumption
<1>10. SetTree(r, t)
    BY <1>8 DEF ApplyPatch, applied
<1> HIDE DEF t
<1>11. SpaceKept(r) /\ Created(r)' /\ At(r)'.tree = t /\ At(r)'.evidence = At(r).evidence
    BY <1>1, <1>8, <1>9, <1>10, TreeStep DEF Alone, SameTree
<1>12. touched'[r] = touched[r]
    BY <1>1 DEF Alone
<1>13. RunInv(r)'
    BY <1>1, <1>2, <1>3, <1>4, <1>6, <1>7, <1>8, <1>9, <1>11, <1>12
       DEF RunInv, Learnt, Recorded, Holds, Whole, Digested, Owned, Early, Made, Patched,
           Integrating, Working
<1> QED BY <1>1, <1>6, <1>7, <1>11, <1>13, StepKeeps

\* The tree of a run that has applied the whole series, seen by the digests.
LEMMA WholeContent ==
    ASSUME TypeOK, NEW r \in Runs, RunInv(r), pc[r] \in {"files", "diff"}
    PROVE  LET t == At(r).tree
           IN  /\ FilesContent(t) \in Contents /\ FilesContent(t) # Null
               /\ Whole(FilesContent(t), touched[r])
               /\ DiffContent(t) \in Diffs /\ DiffContent(t) # Null
               /\ DiffContent(t).foreign \subseteq touched[r]
<1>1. pc[r] \in Made /\ pc[r] \in Patched /\ pc[r] \in Integrating /\ pc[r] # "dead"
    BY DEF Made, Patched, Integrating
<1> DEFINE t == At(r).tree
<1>2. /\ t \in Trees /\ Created(r) /\ t.downstream /\ ~ t.partial
      /\ t.applied = outcome[r].applied /\ t.foreign \cap Evident \subseteq touched[r]
    BY <1>1, TreeAtWork DEF RunInv, Holds
<1>3. outcome[r].applied = Series
    BY <1>1, RunTypes, WholeSeries DEF RunInv, Recorded
<1> HIDE DEF t
<1>4. Whole(FilesContent(t), touched[r])
    BY <1>2, <1>3, ContentIs DEF Whole, Evident
<1>5. DiffContent(t).foreign \subseteq touched[r]
    BY <1>2, ContentIs, EditsAssumption DEF Evident
<1>6. /\ FilesContent(t) \in Contents /\ FilesContent(t) # Null
      /\ DiffContent(t) \in Diffs /\ DiffContent(t) # Null
    BY <1>2, ContentIs
<1> QED BY <1>4, <1>5, <1>6 DEF t

\* The digest of the files stands for the whole integration.
LEMMA HashFilesKeeps ==
    ASSUME AdapterInv, NEW r \in Runs, HashFiles(r)
    PROVE  AdapterInv'
<1>1. TypeOK /\ RunInv(r) /\ Alone(r)
    BY RunIsAlone DEF AdapterInv, Run
<1> DEFINE c == FilesContent(At(r).tree)
<1>2. c \in Contents /\ c # Null /\ Whole(c, touched[r])
    BY <1>1, WholeContent DEF HashFiles
<1>3. digest' = [digest EXCEPT ![r] = Digest(c, Null)]
    BY DEF HashFiles
<1> HIDE DEF c
<1>4. Digest(c, Null) \in Digests /\ Digest(c, Null).files = c /\ Digest(c, Null).diff = Null
    BY <1>2 DEF Digest, Digests, Optional
<1>5. /\ pc' \in [Runs -> Stages] /\ inputs' \in [Runs -> InputRecords]
      /\ outcome' \in [Runs -> Outcomes] /\ digest' \in [Runs -> Digests]
      /\ pc[r] = "files" /\ pc'[r] = "diff"
      /\ inputs'[r] = inputs[r]
      /\ outcome'[r] = outcome[r]
      /\ digest'[r] = Digest(c, Null)
    BY <1>1, <1>3, <1>4 DEF TypeOK, HashFiles, Goto, Stages, Working, Integrating
<1>6. SpaceKept(r) /\ At(r)' = At(r) /\ (Created(r)' <=> Created(r))
    BY <1>1, SpaceUnchanged DEF HashFiles
<1>7. touched'[r] = touched[r]
    BY <1>1 DEF Alone
<1>8. RunInv(r)'
    BY <1>1, <1>2, <1>4, <1>5, <1>6, <1>7
       DEF RunInv, Learnt, Recorded, Holds, Whole, Digested, Owned, Early, Made, Patched,
           Integrating, Working
<1> QED BY <1>1, <1>5, <1>6, <1>8, StepKeeps

\* So does the digest of the diff.
LEMMA HashDiffKeeps ==
    ASSUME AdapterInv, NEW r \in Runs, HashDiff(r)
    PROVE  AdapterInv'
<1>1. TypeOK /\ RunInv(r) /\ Alone(r)
    BY RunIsAlone DEF AdapterInv, Run
<1> DEFINE c == DiffContent(At(r).tree)
           d == Digest(digest[r].files, c)
<1>2. c \in Diffs /\ c # Null /\ c.foreign \subseteq touched[r]
    BY <1>1, WholeContent DEF HashDiff
<1>3. digest' = [digest EXCEPT ![r] = d]
    BY DEF HashDiff
<1> HIDE DEF c
<1>4. d \in Digests /\ d.files = digest[r].files /\ d.diff = c
    BY <1>1, <1>2, RunTypes DEF Digest, Digests, Optional
<1> HIDE DEF d
<1>5. /\ pc' \in [Runs -> Stages] /\ inputs' \in [Runs -> InputRecords]
      /\ outcome' \in [Runs -> Outcomes] /\ digest' \in [Runs -> Digests]
      /\ pc[r] = "diff" /\ pc'[r] = "recheck"
      /\ inputs'[r] = inputs[r]
      /\ outcome'[r] = outcome[r]
      /\ digest'[r] = d
    BY <1>1, <1>3, <1>4 DEF TypeOK, HashDiff, Goto, Stages, Working, Integrating
<1>6. SpaceKept(r) /\ At(r)' = At(r) /\ (Created(r)' <=> Created(r))
    BY <1>1, SpaceUnchanged DEF HashDiff
<1>7. touched'[r] = touched[r]
    BY <1>1 DEF Alone
<1>8. RunInv(r)'
    BY <1>1, <1>2, <1>4, <1>5, <1>6, <1>7
       DEF RunInv, Learnt, Recorded, Holds, Whole, Digested, Owned, Early, Made, Patched,
           Integrating, Working
<1> QED BY <1>1, <1>5, <1>6, <1>8, StepKeeps

\* A PASS has both digests and the whole tree.
LEMMA RecheckKeeps ==
    ASSUME AdapterInv, NEW r \in Runs, Recheck(r)
    PROVE  AdapterInv'
<1>1. TypeOK /\ RunInv(r) /\ Alone(r)
    BY RunIsAlone DEF AdapterInv, Run
<1> DEFINE o == Outcome(outcome[r].class, outcome[r].attempted, outcome[r].applied,
                        "COMPLETE", TRUE)
<1>2. o \in Outcomes /\ o.applied = outcome[r].applied /\ o.status = "COMPLETE"
    BY <1>1, RunTypes DEF Outcome, Outcomes
<1>3. outcome' = [outcome EXCEPT ![r] = o]
    BY DEF Recheck
<1> HIDE DEF o
<1>4. /\ pc' \in [Runs -> Stages] /\ inputs' \in [Runs -> InputRecords]
      /\ outcome' \in [Runs -> Outcomes] /\ digest' \in [Runs -> Digests]
      /\ pc[r] = "recheck" /\ pc'[r] = "judge"
      /\ outcome'[r] = o
      /\ inputs'[r] = inputs[r]
      /\ digest'[r] = digest[r]
    BY <1>1, <1>2, <1>3 DEF TypeOK, Recheck, Goto, Stages, Working, Integrating
<1>5. SpaceKept(r) /\ At(r)' = At(r) /\ (Created(r)' <=> Created(r))
    BY <1>1, SpaceUnchanged DEF Recheck
<1>6. touched'[r] = touched[r]
    BY <1>1 DEF Alone
<1>7. RunInv(r)'
    BY <1>1, <1>2, <1>4, <1>5, <1>6
       DEF RunInv, Learnt, Recorded, Holds, Whole, Digested, Owned, Early, Made, Patched,
           Integrating, Working
<1> QED BY <1>1, <1>4, <1>5, <1>7, StepKeeps

-----------------------------------------------------------------------------
(* The end of a run                                                        *)

\* SetFailure takes the PASS back and keeps what was applied.
LEMMA SetFailureIs ==
    ASSUME NEW o \in Outcomes, NEW class \in Failures
    PROVE  /\ SetFailure(o, class) \in Outcomes
           /\ SetFailure(o, class).class = class
           /\ SetFailure(o, class).applied = o.applied
           /\ SetFailure(o, class).status = "NOT_CREATED" => o.status = "NOT_CREATED"
           /\ ~ SetFailure(o, class).pass
<1>1. CASE o.status = "NOT_CREATED"
    BY <1>1 DEF SetFailure, Outcome, Outcomes, Optional
<1>2. CASE o.status # "NOT_CREATED"
    BY <1>2 DEF SetFailure, Outcome, Outcomes, Optional
<1> QED BY <1>1, <1>2

\* What a tree still has in common with the record of it.
Agrees(r, t) ==
    /\ t = Null => outcome[r].applied = <<>>
    /\ t # Null =>
        /\ t.applied = outcome[r].applied
        /\ t.base = inputs[r].candidate
        /\ outcome[r].status = "NOT_CREATED" => ~ t.downstream
    /\ outcome[r].pass => t # Null /\ ~ t.partial /\ t.downstream

\* A stage that was cut short leaves the record accurate.
LEMMA TornAgrees ==
    ASSUME TypeOK, NEW r \in Runs, RunInv(r), pc[r] \in Working \cup {"judge"},
           path' = path, Torn(r)
    PROVE  /\ SpaceKept(r)
           /\ Created(r)' <=> Created(r)
           /\ Created(r) => At(r)'.evidence = Null /\ Agrees(r, At(r)'.tree)
<1>1. Created(r) => At(r).evidence = Null
    BY DEF RunInv, Owned, Working, Integrating
<1>2. CASE UNCHANGED space
    <2>1. SpaceKept(r) /\ At(r)' = At(r) /\ (Created(r)' <=> Created(r))
        BY <1>2, SpaceUnchanged
    <2> QED BY <1>1, <2>1 DEF RunInv, Holds, Agrees, Working, Integrating
<1>3. ASSUME pc[r] = "worktree", SetTree(r, Tree(inputs[r].candidate, FALSE, <<>>, TRUE, {}))
      PROVE  /\ SpaceKept(r) /\ Created(r)' /\ Created(r)
             /\ At(r)'.evidence = Null /\ Agrees(r, At(r)'.tree)
    <2>1. /\ Created(r) /\ inputs[r].candidate \in Commits /\ outcome[r].applied = <<>>
          /\ ~ outcome[r].pass /\ At(r).tree = Null
        BY <1>3 DEF RunInv, Owned, Learnt, Holds, Recorded, Early, Made, Working
    <2> DEFINE t == Tree(inputs[r].candidate, FALSE, <<>>, TRUE, {})
    <2>2. t.base = inputs[r].candidate /\ ~ t.downstream /\ t.applied = <<>>
        BY DEF Tree
    <2>3. t \in Trees
        BY <2>1 DEF Tree, Trees
    <2>4. t # Null
        BY <2>3, NullAssumption
    <2>5. SetTree(r, t)
        BY <1>3
    <2> HIDE DEF t
    <2>6. SpaceKept(r) /\ Created(r)' /\ At(r)'.tree = t /\ At(r)'.evidence = At(r).evidence
        BY <2>1, <2>3, <2>5, TreeStep DEF SameTree
    <2> QED BY <1>1, <2>1, <2>2, <2>4, <2>6 DEF Agrees
<1>4. ASSUME pc[r] \in {"materialize", "apply"},
             LET t == At(r).tree
             IN  SetTree(r, Tree(t.base, t.downstream, t.applied, TRUE, t.foreign))
      PROVE  /\ SpaceKept(r) /\ Created(r)' /\ Created(r)
             /\ At(r)'.evidence = Null /\ Agrees(r, At(r)'.tree)
    <2>1. pc[r] \in Made /\ pc[r] \in Working
        BY <1>4 DEF Made, Integrating, Working
    <2> DEFINE u == At(r).tree
               t == Tree(u.base, u.downstream, u.applied, TRUE, u.foreign)
    <2>2. /\ Created(r) /\ u \in Trees /\ ~ outcome[r].pass /\ outcome[r].status = "PREPARED"
          /\ u.applied = outcome[r].applied /\ u.base = inputs[r].candidate
        BY <1>4, <2>1, TreeAtWork DEF RunInv, Recorded, Holds
    <2>3. SetTree(r, t)
        BY <1>4
    <2> HIDE DEF u
    <2>4. t.base = u.base /\ t.applied = u.applied /\ t.foreign = u.foreign
        BY DEF Tree
    <2>5. t \in Trees
        BY <2>2 DEF Tree, Trees
    <2>6. t # Null
        BY <2>5, NullAssumption
    <2> HIDE DEF t
    <2>7. SpaceKept(r) /\ Created(r)' /\ At(r)'.tree = t /\ At(r)'.evidence = At(r).evidence
        BY <2>2, <2>3, <2>4, <2>5, <2>6, TreeStep DEF SameTree, u
    <2> QED BY <1>1, <2>2, <2>4, <2>6, <2>7 DEF Agrees
<1> QED BY <1>2, <1>3, <1>4 DEF Torn

\* A failure of any stage goes on the record, which keeps agreeing.
LEMMA FailsKeeps ==
    ASSUME AdapterInv, NEW r \in Runs, Fails(r)
    PROVE  AdapterInv'
<1>1. TypeOK /\ RunInv(r) /\ Alone(r)
    BY RunIsAlone DEF AdapterInv, Run
<1> DEFINE o == IF pc[r] = "apply" THEN Attempted(r) ELSE outcome[r]
           f == SetFailure(o, "STAGE_FAILED")
<1>2. o \in Outcomes /\ o.applied = outcome[r].applied /\ o.status = outcome[r].status
    <2>1. CASE pc[r] = "apply"
        BY <1>1, <2>1, PatchFacts
    <2>2. CASE pc[r] # "apply"
        BY <1>1, <2>2, RunTypes
    <2> QED BY <2>1, <2>2
<1>3. pc[r] \in Working /\ Torn(r) /\ outcome' = [outcome EXCEPT ![r] = f] /\ Goto(r, "judge")
    BY DEF Fails, Fail
<1> HIDE DEF o
<1>4. /\ f \in Outcomes /\ f.applied = outcome[r].applied /\ ~ f.pass
      /\ f.status = "NOT_CREATED" => outcome[r].status = "NOT_CREATED"
    BY <1>2, SetFailureIs DEF Failures
<1> HIDE DEF f
<1>5. /\ pc' \in [Runs -> Stages] /\ inputs' \in [Runs -> InputRecords]
      /\ outcome' \in [Runs -> Outcomes] /\ digest' \in [Runs -> Digests]
      /\ pc'[r] = "judge" /\ outcome'[r] = f
      /\ inputs'[r] = inputs[r] /\ digest'[r] = digest[r]
    BY <1>1, <1>3, <1>4 DEF TypeOK, Fails, Fail, Goto, Stages
<1>6. /\ SpaceKept(r) /\ (Created(r)' <=> Created(r))
      /\ Created(r) => At(r)'.evidence = Null /\ Agrees(r, At(r)'.tree)
    BY <1>1, <1>3, TornAgrees DEF Alone
<1>7. touched'[r] = touched[r]
    BY <1>1 DEF Alone
<1>8. RunInv(r)'
    BY <1>1, <1>3, <1>4, <1>5, <1>6, <1>7
       DEF Agrees, RunInv, Learnt, Recorded, Holds, Whole, Digested, Owned, Early, Made,
           Patched, Integrating, Working
<1> QED BY <1>1, <1>5, <1>6, <1>8, StepKeeps

\* What a run that has done nothing knows.
LEMMA BaseIs ==
    /\ NoInputs \in InputRecords
    /\ BaseOutcome \in Outcomes /\ Begins(BaseOutcome.applied) /\ ~ BaseOutcome.pass
    /\ BaseOutcome.applied = <<>>
    /\ NoDigest \in Digests /\ NoDigest.files = Null /\ NoDigest.diff = Null
<1>1. <<>> \in Seq(Patches) /\ Begins(<<>>)
    BY SeriesType DEF Begins
<1>2. BaseOutcome \in Outcomes /\ BaseOutcome.applied = <<>> /\ ~ BaseOutcome.pass
    BY <1>1 DEF BaseOutcome, Outcome, Outcomes, Optional
<1>3. NoInputs \in InputRecords
    BY DEF NoInputs, Inputs, InputRecords, Optional
<1>4. NoDigest \in Digests /\ NoDigest.files = Null /\ NoDigest.diff = Null
    BY DEF NoDigest, Digest, Digests, Optional
<1> QED BY <1>1, <1>2, <1>3, <1>4

\* A death takes the record with it and leaves no evidence.
LEMMA CrashKeeps ==
    ASSUME AdapterInv, NEW r \in Runs, Crash(r)
    PROVE  AdapterInv'
<1>1. TypeOK /\ RunInv(r) /\ Alone(r)
    BY RunIsAlone DEF AdapterInv
<1>2. /\ pc' \in [Runs -> Stages] /\ inputs' \in [Runs -> InputRecords]
      /\ outcome' \in [Runs -> Outcomes] /\ digest' \in [Runs -> Digests]
      /\ pc'[r] = "dead"
      /\ inputs'[r] = NoInputs
      /\ outcome'[r] = BaseOutcome
      /\ digest'[r] = NoDigest
    BY <1>1, BaseIs DEF TypeOK, Crash, Goto, Stages
<1>3. pc[r] \in Working \cup {"judge"}
    BY <1>1 DEF TypeOK, Crash, Stages
<1>4. /\ SpaceKept(r) /\ (Created(r)' <=> Created(r))
      /\ Created(r) => At(r)'.evidence = Null
    BY <1>1, <1>3, TornAgrees DEF Crash
<1>5. touched'[r] = touched[r]
    BY <1>1 DEF Alone
<1>6. RunInv(r)'
    BY <1>2, <1>4, <1>5, BaseIs
       DEF RunInv, Learnt, Recorded, Holds, Whole, Digested, Owned, Early, Made, Patched,
           Integrating, Working
<1> QED BY <1>1, <1>2, <1>4, <1>6, StepKeeps

\* The evidence is what the run recorded, and the run is done.
LEMMA WriteEvidenceKeeps ==
    ASSUME AdapterInv, NEW r \in Runs, WriteEvidence(r)
    PROVE  AdapterInv'
<1>1. TypeOK /\ RunInv(r) /\ Alone(r)
    BY RunIsAlone DEF AdapterInv, Run
<1>2. /\ pc' \in [Runs -> Stages] /\ inputs' \in [Runs -> InputRecords]
      /\ outcome' \in [Runs -> Outcomes] /\ digest' \in [Runs -> Digests]
      /\ pc[r] = "judge" /\ pc'[r] = "done"
      /\ inputs'[r] = inputs[r]
      /\ outcome'[r] = outcome[r]
      /\ digest'[r] = digest[r]
    BY <1>1 DEF TypeOK, WriteEvidence, Goto, Stages
<1>3. Created(r) /\ At(r) \in Spaces /\ At(r).owner = r
    BY <1>1, RunTypes DEF WriteEvidence, Created, Optional
<1>4. At(r).tree \in Optional(Trees) /\ Document(r) \in Optional(Documents)
    BY <1>1, <1>3, SpaceTypes, DocumentIs DEF Optional
<1> DEFINE x == Space(At(r).owner, At(r).tree, Document(r))
<1>5. x \in Spaces /\ x.owner = r /\ x.tree = At(r).tree /\ x.evidence = Document(r)
    BY <1>3, <1>4, SpaceIs
<1>6. SetSpace(path[r], x)
    BY DEF WriteEvidence
<1> HIDE DEF x
<1>7. SpaceKept(r) /\ At(r)' = x /\ Created(r)'
    BY <1>1, <1>3, <1>5, <1>6, SpaceStep DEF Alone, SameTree
<1>8. touched'[r] = touched[r] /\ Document(r)' = Document(r) /\ Document(r) # Null
    BY <1>1, <1>2, DocumentIs DEF Alone, Document
<1>9. RunInv(r)'
    BY <1>1, <1>2, <1>3, <1>5, <1>7, <1>8
       DEF RunInv, Learnt, Recorded, Holds, Whole, Digested, Owned, Early, Made, Patched,
           Integrating, Working
<1> QED BY <1>1, <1>2, <1>7, <1>9, StepKeeps

\* A run without a workspace has nothing to write.
LEMMA WriteNothingKeeps ==
    ASSUME AdapterInv, NEW r \in Runs, WriteNothing(r)
    PROVE  AdapterInv'
<1>1. TypeOK /\ RunInv(r) /\ Alone(r)
    BY RunIsAlone DEF AdapterInv, Run
<1>2. /\ pc' \in [Runs -> Stages] /\ inputs' \in [Runs -> InputRecords]
      /\ outcome' \in [Runs -> Outcomes] /\ digest' \in [Runs -> Digests]
      /\ pc[r] = "judge" /\ pc'[r] = "done" /\ ~ Created(r)
      /\ inputs'[r] = inputs[r]
      /\ outcome'[r] = outcome[r]
      /\ digest'[r] = digest[r]
    BY <1>1 DEF TypeOK, WriteNothing, Goto, Stages
<1>3. SpaceKept(r) /\ At(r)' = At(r) /\ (Created(r)' <=> Created(r))
    BY <1>1, SpaceUnchanged DEF WriteNothing
<1>4. touched'[r] = touched[r]
    BY <1>1 DEF Alone
<1>5. RunInv(r)'
    BY <1>1, <1>2, <1>3, <1>4
       DEF RunInv, Learnt, Recorded, Holds, Whole, Digested, Owned, Early, Made, Patched,
           Integrating, Working
<1> QED BY <1>1, <1>2, <1>3, <1>5, StepKeeps

\* When the evidence is not written the caller is told so.
LEMMA WriteFailsKeeps ==
    ASSUME AdapterInv, NEW r \in Runs, WriteFails(r)
    PROVE  AdapterInv'
<1>1. TypeOK /\ RunInv(r) /\ Alone(r)
    BY RunIsAlone DEF AdapterInv, Run
<1> DEFINE f == SetFailure(outcome[r], "EVIDENCE_WRITE_FAILED")
<1>2. /\ f \in Outcomes /\ f.applied = outcome[r].applied /\ ~ f.pass
      /\ f.class = "EVIDENCE_WRITE_FAILED"
      /\ f.status = "NOT_CREATED" => outcome[r].status = "NOT_CREATED"
    BY <1>1, RunTypes, SetFailureIs DEF Failures
<1>3. outcome' = [outcome EXCEPT ![r] = f]
    BY DEF WriteFails, WriteFailed
<1> HIDE DEF f
<1>4. /\ pc' \in [Runs -> Stages] /\ inputs' \in [Runs -> InputRecords]
      /\ outcome' \in [Runs -> Outcomes] /\ digest' \in [Runs -> Digests]
      /\ pc[r] = "judge" /\ pc'[r] = "done"
      /\ inputs'[r] = inputs[r] /\ outcome'[r] = f /\ digest'[r] = digest[r]
    BY <1>1, <1>2, <1>3 DEF TypeOK, WriteFails, Goto, Stages
<1>5. SpaceKept(r) /\ At(r)' = At(r) /\ (Created(r)' <=> Created(r))
    BY <1>1, SpaceUnchanged DEF WriteFails
<1>6. touched'[r] = touched[r]
    BY <1>1 DEF Alone
<1>7. RunInv(r)'
    BY <1>1, <1>2, <1>4, <1>5, <1>6
       DEF RunInv, Learnt, Recorded, Holds, Whole, Digested, Owned, Early, Made, Patched,
           Integrating, Working
<1> QED BY <1>1, <1>4, <1>5, <1>7, StepKeeps

-----------------------------------------------------------------------------
(* Gates and people                                                        *)

\* Evidence belongs to the run that owns its workspace.
LEMMA EvidenceOfOwner ==
    ASSUME AdapterInv, NEW w \in Workspaces, space[w] # Null, space[w].evidence # Null
    PROVE  /\ space[w].owner \in Runs /\ At(space[w].owner) = space[w]
           /\ Created(space[w].owner) /\ pc[space[w].owner] = "done"
           /\ space[w].evidence = Document(space[w].owner)
<1> DEFINE r == space[w].owner
<1>1. space[w] \in Spaces
    BY DEF AdapterInv, TypeOK, Optional
<1>2. r \in Runs /\ path[r] = w
    BY <1>1, SpaceTypes DEF AdapterInv, OwnersWereGivenPaths
<1> HIDE DEF r
<1>3. At(r) = space[w] /\ Created(r)
    BY <1>2 DEF At, Created, r
<1>4. pc[r] = "done" /\ At(r).evidence = Document(r)
    BY <1>2, <1>3 DEF AdapterInv, RunInv, Owned
<1> QED BY <1>2, <1>3, <1>4 DEF r

\* For a gate.
LEMMA CheckIs ==
    ASSUME NEW evidence \in Documents, NEW at \in Workspaces,
           NEW stage \in {"diff", "untracked", "files", "accepted"},
           NEW unread \in SUBSET InFiles, NEW tree \in Optional(Trees),
           NEW meanwhile \in SUBSET Edits
    PROVE  LET k == Check(evidence, at, stage, unread, tree, meanwhile)
           IN  /\ k \in Checks /\ k # Null
               /\ k.evidence = evidence /\ k.at = at /\ k.stage = stage
               /\ k.unread = unread /\ k.tree = tree /\ k.meanwhile = meanwhile
BY NullAssumption DEF Check, Checks

\* What a step of a gate has to show.
LEMMA GateKeeps ==
    ASSUME AdapterInv, NEW g \in Gates, NEW k \in Optional(Checks), SetGate(g, k),
           k # Null =>
               /\ Sound(k.evidence)
               /\ k.stage # "accepted" => ReadsWell(k)
               /\ k.stage = "accepted" => AcceptsWell(k)
    PROVE  AdapterInv'
<1>1. /\ gate' \in [Gates -> Optional(Checks)] /\ gate'[g] = k
      /\ \A h \in Gates \ {g} : gate'[h] = gate[h]
    BY DEF AdapterInv, TypeOK, SetGate
<1>2. UNCHANGED <<root, space, path, pc, inputs, outcome, digest, touched>>
    BY DEF SetGate
<1>3. TypeOK'
    BY <1>1, <1>2 DEF AdapterInv, TypeOK
<1>4. \A s \in Runs : RunInv(s)'
    BY <1>2
       DEF AdapterInv, Document, At, Created, RunInv, Learnt, Recorded, Holds, Whole, Digested,
           Owned, Early, Made, Patched, Integrating, Working
<1>5. OwnersWereGivenPaths'
    BY <1>2 DEF AdapterInv, OwnersWereGivenPaths
<1>6. ASSUME NEW h \in Gates PROVE GateInv(h)'
    <2>1. CASE h = g
        BY <1>1, <1>2, <2>1 DEF GateInv, Sound, ReadsWell, Seen, AcceptsWell
    <2>2. CASE h # g
        BY <1>1, <1>2, <2>2 DEF AdapterInv, GateInv, Sound, ReadsWell, Seen, AcceptsWell
    <2> QED BY <2>1, <2>2
<1> QED BY <1>3, <1>4, <1>5, <1>6 DEF AdapterInv

\* A gate that reads, and the tree it reads.
LEMMA GateReads ==
    ASSUME AdapterInv, NEW g \in Gates, gate[g] # Null, gate[g].stage # "accepted"
    PROVE  /\ gate[g] \in Checks /\ Sound(gate[g].evidence) /\ ReadsWell(gate[g])
           /\ Read(g) \in Trees /\ Read(g).foreign \subseteq Edits
<1>1. gate[g] \in Checks /\ Sound(gate[g].evidence) /\ ReadsWell(gate[g])
    BY DEF AdapterInv, TypeOK, Optional, GateInv
<1> DEFINE w == gate[g].at
<1>2. w \in Workspaces
    BY <1>1, CheckTypes
<1>3. space[w] # Null /\ space[w].tree # Null
    BY <1>1 DEF ReadsWell
<1> HIDE DEF w
<1>4. space[w] \in Spaces
    BY <1>2, <1>3 DEF AdapterInv, TypeOK, Optional
<1>5. space[w].tree \in Trees
    BY <1>3, <1>4, SpaceTypes DEF Optional
<1> QED BY <1>1, <1>5, TreeTypes DEF Read, w

\* A gate that goes on with the same evidence and tree.
LEMMA AdvanceKeeps ==
    ASSUME AdapterInv, NEW g \in Gates, gate[g] # Null, gate[g].stage # "accepted",
           NEW stage \in {"untracked", "files"}, NEW unread \in SUBSET InFiles,
           Advance(g, stage, unread, Null),
           LET f == Read(g).foreign
               x == touched[gate[g].evidence.by] \cup gate[g].meanwhile
           IN  /\ f \cap InDiff \subseteq x
               /\ stage = "files" => /\ f \ (InDiff \cup InFiles \cup Ignored) \subseteq x
                                     /\ (f \cap (InFiles \ unread)) \ Ignored \subseteq x
    PROVE  AdapterInv'
<1> DEFINE k == gate[g]
           c == Check(k.evidence, k.at, stage, unread, Null, k.meanwhile)
<1>1. /\ k \in Checks /\ k.evidence \in Documents /\ k.at \in Workspaces
      /\ k.meanwhile \in SUBSET Edits
    BY GateReads, CheckTypes
<1>2. Sound(k.evidence) /\ ReadsWell(k)
    BY GateReads
<1>3. /\ k.stage # "accepted"
      /\ LET f == space[k.at].tree.foreign
             x == touched[k.evidence.by] \cup k.meanwhile
         IN  /\ f \cap InDiff \subseteq x
             /\ stage = "files" => /\ f \ (InDiff \cup InFiles \cup Ignored) \subseteq x
                                   /\ (f \cap (InFiles \ unread)) \ Ignored \subseteq x
    BY DEF Read
<1>4. SetGate(g, c)
    BY DEF Advance
<1> HIDE DEF k
<1>5. /\ c \in Checks /\ c # Null
      /\ c.evidence = k.evidence /\ c.at = k.at /\ c.stage = stage
      /\ c.unread = unread /\ c.meanwhile = k.meanwhile
    BY <1>1, CheckIs DEF Optional
<1> HIDE DEF c
<1>6. ReadsWell(c)
    BY <1>2, <1>3, <1>5 DEF ReadsWell, Seen
<1>7. Sound(c.evidence) /\ c.stage # "accepted"
    BY <1>2, <1>5
<1> QED BY <1>4, <1>5, <1>6, <1>7, GateKeeps DEF Optional

\* A gate takes the evidence of a PASS and a tree of its candidate.
LEMMA CheckHeadKeeps ==
    ASSUME AdapterInv, NEW g \in Gates, NEW w \in Workspaces, NEW v \in Workspaces,
           CheckHead(g, w, v)
    PROVE  AdapterInv'
<1> DEFINE r == space[w].owner
           e == space[w].evidence
           c == Check(e, v, "diff", {}, Null, {})
<1>1. r \in Runs /\ e = Document(r) /\ e.outcome.pass
    BY EvidenceOfOwner DEF CheckHead
<1>2. /\ space[v] # Null /\ space[v].tree # Null
      /\ space[v].tree.base = e.inputs.candidate
    BY DEF CheckHead
<1>3. SetGate(g, c)
    BY DEF CheckHead
<1> HIDE DEF r, e
<1>4. /\ e \in Documents /\ e.by = r /\ e.digest = digest[r] /\ outcome[r].pass
    BY <1>1, DocumentIs DEF AdapterInv
<1>5. Digested(pc[r], outcome[r], digest[r], touched[r])
    BY <1>1 DEF AdapterInv, RunInv
<1>6. Sound(e)
    BY <1>1, <1>4, <1>5 DEF Sound, Digested
<1>7. {} \in SUBSET Edits /\ {} \in SUBSET InFiles /\ Null \in Optional(Trees)
    BY DEF Optional
<1>8. /\ c \in Checks /\ c # Null /\ c.evidence = e /\ c.at = v /\ c.stage = "diff"
    BY <1>4, <1>7, CheckIs
<1> HIDE DEF c
<1>9. ReadsWell(c)
    BY <1>2, <1>8 DEF ReadsWell, Seen
<1>10. Sound(c.evidence) /\ c.stage # "accepted"
    BY <1>6, <1>8
<1> QED BY <1>3, <1>8, <1>9, <1>10, GateKeeps DEF Optional

\* What the diff shows of edits is what it showed to the run.
LEMMA ReadDiffKeeps ==
    ASSUME AdapterInv, NEW g \in Gates, ReadDiff(g)
    PROVE  AdapterInv'
<1>1. /\ gate[g] # Null /\ gate[g].stage = "diff"
      /\ DiffContent(Read(g)) = gate[g].evidence.digest.diff
      /\ Advance(g, "untracked", {}, Null)
    BY DEF ReadDiff, Reading
<1>2. /\ gate[g] \in Checks /\ Sound(gate[g].evidence) /\ Read(g) \in Trees
    BY <1>1, GateReads
<1>3. Read(g).foreign \cap InDiff \subseteq touched[gate[g].evidence.by]
    BY <1>1, <1>2, ContentIs DEF Sound
<1>4. {} \in SUBSET InFiles
    OBVIOUS
<1> QED BY <1>1, <1>3, <1>4, AdvanceKeeps

\* New files that are neither listed nor ignored came later.
LEMMA ListUntrackedKeeps ==
    ASSUME AdapterInv, NEW g \in Gates, ListUntracked(g)
    PROVE  AdapterInv'
<1>1. /\ gate[g] # Null /\ gate[g].stage = "untracked"
      /\ Read(g).foreign \ (InDiff \cup Ignored) \subseteq InFiles
      /\ Advance(g, "files", InFiles, Null)
    BY DEF ListUntracked, Reading
<1>2. /\ gate[g] \in Checks /\ ReadsWell(gate[g]) /\ Read(g) = space[gate[g].at].tree
    BY <1>1, GateReads DEF Read
<1>3. Read(g).foreign \cap InDiff \subseteq touched[gate[g].evidence.by] \cup gate[g].meanwhile
    BY <1>1, <1>2 DEF ReadsWell, Seen
<1>4. Read(g).foreign \ (InDiff \cup InFiles \cup Ignored) = {}
    BY <1>1
<1>5. Read(g).foreign \cap (InFiles \ InFiles) = {} /\ InFiles \in SUBSET InFiles
    OBVIOUS
<1> QED BY <1>1, <1>3, <1>4, <1>5, AdvanceKeeps

\* An edit of a file that was read is one the evidence tells of.
LEMMA ReadFileKeeps ==
    ASSUME AdapterInv, NEW g \in Gates, NEW e \in InFiles, ReadFile(g, e)
    PROVE  AdapterInv'
<1> DEFINE x == touched[gate[g].evidence.by] \cup gate[g].meanwhile
           f == Read(g).foreign
           unread == gate[g].unread \ {e}
<1>1. /\ gate[g] # Null /\ gate[g].stage = "files"
      /\ e \in f <=> e \in gate[g].evidence.digest.files.foreign
      /\ Advance(g, "files", unread, Null)
    BY DEF ReadFile, Reading
<1>2. /\ gate[g] \in Checks /\ Sound(gate[g].evidence) /\ ReadsWell(gate[g])
      /\ f = space[gate[g].at].tree.foreign
    BY <1>1, GateReads DEF Read
<1>3. /\ f \cap InDiff \subseteq x
      /\ f \ (InDiff \cup InFiles \cup Ignored) \subseteq x
      /\ (f \cap (InFiles \ gate[g].unread)) \ Ignored \subseteq x
    BY <1>1, <1>2 DEF ReadsWell, Seen
<1>4. gate[g].evidence.digest.files.foreign \ Ignored \subseteq x
    BY <1>2 DEF Sound, Whole
<1>5. unread \in SUBSET InFiles
    BY <1>2, CheckTypes
<1> HIDE DEF f, x
<1>6. (f \cap (InFiles \ unread)) \ Ignored \subseteq x
    BY <1>1, <1>3, <1>4
<1> HIDE DEF unread
<1>7. /\ Read(g).foreign \cap InDiff
             \subseteq touched[gate[g].evidence.by] \cup gate[g].meanwhile
      /\ Read(g).foreign \ (InDiff \cup InFiles \cup Ignored)
             \subseteq touched[gate[g].evidence.by] \cup gate[g].meanwhile
      /\ (Read(g).foreign \cap (InFiles \ unread)) \ Ignored
             \subseteq touched[gate[g].evidence.by] \cup gate[g].meanwhile
    BY <1>3, <1>6 DEF f, x
<1> QED BY <1>1, <1>5, <1>7, AdvanceKeeps

\* When all is read, every edit in the tree is known, and the rest is whole.
LEMMA AcceptTreeKeeps ==
    ASSUME AdapterInv, NEW g \in Gates, AcceptTree(g)
    PROVE  AdapterInv'
<1> DEFINE k == gate[g]
           t == Read(g)
           c == Check(k.evidence, k.at, "accepted", {}, t, k.meanwhile)
<1>1. /\ k # Null /\ k.stage = "files" /\ k.unread = {}
      /\ t.downstream = k.evidence.digest.files.downstream
      /\ t.applied = k.evidence.digest.files.applied
      /\ t.partial = k.evidence.digest.files.partial
      /\ SetGate(g, c)
    BY DEF AcceptTree, Reading, Advance
<1>2. /\ k \in Checks /\ Sound(k.evidence) /\ ReadsWell(k) /\ t \in Trees
      /\ t = space[k.at].tree
    BY <1>1, GateReads DEF Read
<1>3. /\ k.evidence \in Documents /\ k.at \in Workspaces /\ k.meanwhile \in SUBSET Edits
    BY <1>2, CheckTypes
<1> HIDE DEF k, t
<1>4. /\ c \in Checks /\ c # Null /\ c.evidence = k.evidence /\ c.stage = "accepted"
      /\ c.tree = t /\ c.meanwhile = k.meanwhile
    <2>1. {} \in SUBSET InFiles /\ t \in Optional(Trees)
        BY <1>2 DEF Optional
    <2> QED BY <1>3, <2>1, CheckIs
<1> HIDE DEF c
<1>5. t.base = k.evidence.inputs.candidate
    BY <1>2 DEF ReadsWell
<1>6. t.downstream /\ t.applied = Series /\ ~ t.partial
    BY <1>1, <1>2 DEF Sound, Whole
<1>7. t.foreign \ Ignored \subseteq touched[k.evidence.by] \cup k.meanwhile
    BY <1>1, <1>2 DEF ReadsWell, Seen
<1>8. AcceptsWell(c)
    BY <1>4, <1>5, <1>6, <1>7 DEF AcceptsWell
<1> QED BY <1>1, <1>2, <1>4, <1>8, GateKeeps DEF Optional

\* So a gate keeps the invariant.
LEMMA CheckIntegrationKeeps ==
    ASSUME AdapterInv, NEW g \in Gates, CheckIntegration(g)
    PROVE  AdapterInv'
<1>1. CASE GiveUp(g)
    BY <1>1, GateKeeps DEF GiveUp, Optional
<1> QED BY <1>1, CheckHeadKeeps, ReadDiffKeeps, ListUntrackedKeeps, ReadFileKeeps,
           AcceptTreeKeeps DEF CheckIntegration
\* A gate that is as it was, but for edits it cannot have seen.
Grown(k, c) ==
    /\ c = Null <=> k = Null
    /\ k # Null => /\ c.evidence = k.evidence /\ c.at = k.at /\ c.stage = k.stage
                   /\ c.unread = k.unread /\ c.tree = k.tree
                   /\ k.meanwhile \subseteq c.meanwhile

\* Edits and their removal leave the run's own changes alone; those made while
\* a run integrates, or a gate reads, are known.
LEMMA ForeignKeeps ==
    ASSUME AdapterInv, NEW w \in Workspaces, space[w] # Null, space[w].tree # Null,
           NEW foreign \in SUBSET Edits, SetForeign(w, foreign),
           UNCHANGED <<root, path, pc, inputs, outcome, digest>>,
           touched' \in [Runs -> SUBSET Edits],
           \A r \in Runs : touched[r] \subseteq touched'[r],
           pc[space[w].owner] \in Integrating =>
               foreign \cap Evident \subseteq space[w].tree.foreign \cup touched'[space[w].owner],
           gate' \in [Gates -> Optional(Checks)],
           \A g \in Gates :
               /\ Grown(gate[g], gate'[g])
               /\ gate[g] # Null /\ gate[g].at = w /\ gate[g].stage # "accepted" =>
                      foreign \ Ignored \subseteq space[w].tree.foreign \cup gate'[g].meanwhile
    PROVE  AdapterInv'
<1> DEFINE u == space[w].tree
           t == Tree(u.base, u.downstream, u.applied, u.partial, foreign)
           x == Space(space[w].owner, t, space[w].evidence)
<1>1. space[w] \in Spaces
    BY DEF AdapterInv, TypeOK, Optional
<1>2. /\ space[w].owner \in Runs /\ space[w].evidence \in Optional(Documents) /\ u \in Trees
    BY <1>1, SpaceTypes DEF Optional
<1>3. /\ t \in Trees /\ t # Null /\ t.base = u.base /\ t.downstream = u.downstream
      /\ t.applied = u.applied /\ t.partial = u.partial /\ t.foreign = foreign
    <2> HIDE DEF u
    <2>1. /\ t.base = u.base /\ t.downstream = u.downstream
          /\ t.applied = u.applied /\ t.partial = u.partial /\ t.foreign = foreign
        BY DEF Tree
    <2>2. t \in Trees
        BY <1>2 DEF Tree, Trees
    <2> QED BY <2>1, <2>2, NullAssumption
<1>4. space' = [space EXCEPT ![w] = x]
    BY DEF SetForeign, SetSpace
<1> HIDE DEF t
<1>5. /\ x \in Spaces /\ x # Null /\ x.owner = space[w].owner /\ x.tree = t
      /\ x.evidence = space[w].evidence
    BY <1>2, <1>3, SpaceIs DEF Optional
<1> HIDE DEF x
<1>6. /\ space' \in [Workspaces -> Optional(Spaces)] /\ space'[w] = x
      /\ \A v \in Workspaces \ {w} : space'[v] = space[v]
    BY <1>4, <1>5 DEF AdapterInv, TypeOK, Optional
<1>7. TypeOK'
    BY <1>6 DEF AdapterInv, TypeOK
<1>8. ASSUME NEW r \in Runs PROVE RunInv(r)'
    <2>1. /\ RunInv(r) /\ path[r] \in Workspaces /\ touched[r] \subseteq touched'[r]
          /\ Document(r)' = Document(r)
        BY DEF AdapterInv, TypeOK, Document
    <2>2. CASE path[r] = w
        <3>1. /\ At(r) = space[w] /\ At(r)' = x /\ (Created(r)' <=> Created(r))
              /\ Created(r) => space[w].owner = r
            BY <1>5, <1>6, <2>2 DEF At, Created
        <3>2. Created(r) /\ pc[r] \in Integrating => t.foreign \cap Evident \subseteq touched'[r]
            BY <1>3, <2>1, <3>1 DEF RunInv
        <3> QED BY <1>3, <1>5, <2>1, <3>1, <3>2
                   DEF RunInv, Learnt, Recorded, Holds, Whole, Digested, Owned, Early, Made,
                       Patched, Integrating, Working
    <2>3. CASE path[r] # w
        <3>1. At(r)' = At(r) /\ (Created(r)' <=> Created(r))
            BY <1>6, <2>1, <2>3 DEF At, Created
        <3> QED BY <2>1, <3>1
                   DEF RunInv, Learnt, Recorded, Holds, Whole, Digested, Owned, Early, Made,
                       Patched, Integrating, Working
    <2> QED BY <2>2, <2>3
<1>9. OwnersWereGivenPaths'
    BY <1>5, <1>6 DEF AdapterInv, OwnersWereGivenPaths
<1>10. ASSUME NEW g \in Gates, gate'[g] # Null PROVE GateInv(g)'
    <2>1. PICK k, c : k = gate[g] /\ c = gate'[g]
        OBVIOUS
    <2>2. /\ k \in Checks /\ Sound(k.evidence)
          /\ k.stage # "accepted" => ReadsWell(k)
          /\ k.stage = "accepted" => AcceptsWell(k)
          /\ c.evidence = k.evidence /\ c.at = k.at /\ c.stage = k.stage
          /\ c.unread = k.unread /\ c.tree = k.tree /\ k.meanwhile \subseteq c.meanwhile
        BY <1>10, <2>1 DEF AdapterInv, TypeOK, Optional, GateInv, Grown
    <2>3. k.evidence.by \in Runs /\ k.at \in Workspaces
        BY <2>2, CheckTypes
    <2>4. touched[k.evidence.by] \subseteq touched'[k.evidence.by]
        BY <2>3
    <2>5. Sound(c.evidence)'
        BY <2>2, <2>4 DEF Sound, Whole
    <2>6. ASSUME c.stage = "accepted" PROVE AcceptsWell(c)'
        BY <2>2, <2>4, <2>6 DEF AcceptsWell
    <2>7. ASSUME c.stage # "accepted" PROVE ReadsWell(c)'
        <3>1. CASE k.at = w
            <4>1. foreign \ Ignored \subseteq u.foreign \cup c.meanwhile
                BY <1>10, <2>1, <2>2, <2>7, <3>1 DEF Grown
            <4>2. /\ space'[c.at] # Null /\ space'[c.at].tree # Null
                  /\ space'[c.at].tree.base = c.evidence.inputs.candidate
                  /\ space'[c.at].tree.foreign = foreign
                BY <1>3, <1>5, <1>6, <2>2, <2>7, <3>1 DEF ReadsWell
            <4>3. Seen(k, u.foreign, touched[k.evidence.by] \cup k.meanwhile)
                BY <2>2, <2>7, <3>1 DEF ReadsWell
            <4> HIDE DEF u
            <4>4. Seen(c, foreign, touched'[c.evidence.by] \cup c.meanwhile)
                BY <2>2, <2>4, <4>1, <4>3, EditsAssumption DEF Seen
            <4> QED BY <4>2, <4>4 DEF ReadsWell
        <3>2. CASE k.at # w
            <4>1. space'[c.at] = space[k.at]
                BY <1>6, <2>2, <2>3, <3>2
            <4> QED BY <2>2, <2>4, <2>7, <4>1 DEF ReadsWell, Seen
        <3> QED BY <3>1, <3>2
    <2> QED BY <2>1, <2>5, <2>6, <2>7 DEF GateInv
<1>11. \A g \in Gates : GateInv(g)'
    BY <1>10 DEF GateInv
<1> QED BY <1>7, <1>8, <1>9, <1>11 DEF AdapterInv

\* What a gate makes of an edit.
LEMMA NoticedIs ==
    ASSUME TypeOK, NEW g \in Gates, NEW w \in Workspaces, NEW e \in Edits
    PROVE  /\ Noticed(g, w, e) \in Optional(Checks)
           /\ Grown(gate[g], Noticed(g, w, e))
           /\ gate[g] # Null /\ gate[g].at = w /\ gate[g].stage # "accepted" =>
                  {e} \ Ignored \subseteq Noticed(g, w, e).meanwhile
<1>1. PICK k : k = gate[g]
    OBVIOUS
<1>2. k \in Optional(Checks)
    BY <1>1 DEF TypeOK
<1>3. CASE k # Null /\ k.at = w /\ k.stage # "accepted"
    <2> DEFINE m == k.meanwhile \cup ({e} \ Ignored)
               c == Check(k.evidence, k.at, k.stage, k.unread, k.tree, m)
    <2>1. k \in Checks /\ m \in SUBSET Edits
        BY <1>2, <1>3, CheckTypes DEF Optional
    <2> HIDE DEF m
    <2>2. /\ c \in Checks /\ c # Null
          /\ c.evidence = k.evidence /\ c.at = k.at /\ c.stage = k.stage
          /\ c.unread = k.unread /\ c.tree = k.tree /\ c.meanwhile = m
        BY <2>1, CheckTypes, CheckIs
    <2>3. Noticed(g, w, e) = c
        BY <1>1, <1>3 DEF Noticed, m
    <2> HIDE DEF c
    <2>4. k.meanwhile \subseteq m /\ {e} \ Ignored \subseteq m
        BY DEF m
    <2> QED BY <1>1, <1>3, <2>2, <2>3, <2>4 DEF Grown, Optional
<1>4. CASE ~ (k # Null /\ k.at = w /\ k.stage # "accepted")
    <2>1. Noticed(g, w, e) = k
        BY <1>1, <1>4 DEF Noticed
    <2> QED BY <1>1, <1>2, <1>4, <2>1 DEF Grown
<1> QED BY <1>3, <1>4

\* Edits, and their removal.
LEMMA PeopleKeep ==
    ASSUME AdapterInv, NEW w \in Workspaces, NEW e \in Edits,
           EditTree(w, e) \/ RestoreTree(w, e)
    PROVE  AdapterInv'
<1>1. /\ space[w] # Null /\ space[w].tree # Null /\ TypeOK
      /\ UNCHANGED <<root, path, pc, inputs, outcome, digest>>
    BY DEF EditTree, RestoreTree, AdapterInv
<1>2. space[w].tree.foreign \subseteq Edits
    <2>1. space[w] \in Spaces
        BY <1>1 DEF AdapterInv, TypeOK, Optional
    <2>2. space[w].tree \in Trees
        BY <1>1, <2>1, SpaceTypes DEF Optional
    <2> QED BY <2>2, TreeTypes
<1>3. touched \in [Runs -> SUBSET Edits] /\ space[w].owner \in Runs
    BY <1>1, SpaceTypes DEF AdapterInv, TypeOK, Optional
<1>4. CASE EditTree(w, e)
    <2> DEFINE f == space[w].tree.foreign \cup {e}
    <2>1. f \in SUBSET Edits /\ SetForeign(w, f)
        BY <1>2, <1>4 DEF EditTree
    <2>2. /\ touched' \in [Runs -> SUBSET Edits]
          /\ \A r \in Runs : touched[r] \subseteq touched'[r]
          /\ pc[space[w].owner] \in Integrating =>
                 {e} \cap Evident \subseteq touched'[space[w].owner]
        BY <1>3, <1>4 DEF EditTree
    <2>3. /\ gate' \in [Gates -> Optional(Checks)]
          /\ \A g \in Gates :
              /\ Grown(gate[g], gate'[g])
              /\ gate[g] # Null /\ gate[g].at = w /\ gate[g].stage # "accepted" =>
                     {e} \ Ignored \subseteq gate'[g].meanwhile
        BY <1>1, <1>4, NoticedIs DEF EditTree
    <2>4. pc[space[w].owner] \in Integrating =>
              f \cap Evident \subseteq space[w].tree.foreign \cup touched'[space[w].owner]
        BY <2>2
    <2>5. \A g \in Gates :
              gate[g] # Null /\ gate[g].at = w /\ gate[g].stage # "accepted" =>
                  f \ Ignored \subseteq space[w].tree.foreign \cup gate'[g].meanwhile
        BY <2>3
    <2> HIDE DEF f
    <2> QED BY <1>1, <2>1, <2>2, <2>3, <2>4, <2>5, ForeignKeeps
<1>5. CASE RestoreTree(w, e)
    <2> DEFINE f == space[w].tree.foreign \ {e}
    <2>1. f \in SUBSET Edits /\ SetForeign(w, f) /\ touched' = touched /\ gate' = gate
        BY <1>2, <1>5 DEF RestoreTree
    <2>2. f \subseteq space[w].tree.foreign
        OBVIOUS
    <2>3. gate \in [Gates -> Optional(Checks)] /\ \A g \in Gates : Grown(gate[g], gate[g])
        BY <1>1 DEF TypeOK, Grown
    <2> HIDE DEF f
    <2> QED BY <1>1, <1>3, <2>1, <2>2, <2>3, ForeignKeeps
<1> QED BY <1>4, <1>5

\* Nothing depends on what the root is when no run looks.
LEMMA RootKeeps ==
    ASSUME AdapterInv, root' \in Optional(Commits),
           UNCHANGED <<space, path, pc, inputs, outcome, digest, touched, gate>>
    PROVE  AdapterInv'
<1>1. TypeOK'
    BY DEF AdapterInv, TypeOK
<1>2. \A r \in Runs : RunInv(r)'
    BY DEF AdapterInv, Document, At, Created, RunInv, Learnt, Recorded, Holds, Whole, Digested,
       Owned, Early, Made, Patched, Integrating, Working
<1>3. OwnersWereGivenPaths' /\ \A g \in Gates : GateInv(g)'
    BY DEF AdapterInv, OwnersWereGivenPaths, GateInv, Sound, ReadsWell, Seen, AcceptsWell
<1> QED BY <1>1, <1>2, <1>3 DEF AdapterInv

-----------------------------------------------------------------------------
(* The invariant                                                           *)

\* Nothing has been done yet.
LEMMA InitHolds == Init => AdapterInv
<1> SUFFICES ASSUME Init PROVE AdapterInv
    OBVIOUS
<1>1. TypeOK
    BY BaseIs DEF TypeOK, Init, Stages, Working, Integrating, Optional
<1>2. ASSUME NEW r \in Runs PROVE RunInv(r)
    <2>1. /\ pc[r] = "start" /\ outcome[r] = BaseOutcome /\ ~ Created(r)
          /\ digest[r] = NoDigest
        BY <1>1 DEF Init, TypeOK, Created, At
    <2> QED BY <2>1, BaseIs
               DEF RunInv, Learnt, Recorded, Holds, Whole, Digested, Owned, Early, Made,
                   Patched, Integrating, Working
<1>3. OwnersWereGivenPaths /\ \A g \in Gates : GateInv(g)
    BY DEF Init, OwnersWereGivenPaths, GateInv
<1> QED BY <1>1, <1>2, <1>3 DEF AdapterInv

\* Every step keeps the invariant.
LEMMA NextKeeps == AdapterInv /\ [Next]_vars => AdapterInv'
<1> SUFFICES ASSUME AdapterInv, [Next]_vars PROVE AdapterInv'
    OBVIOUS
<1>1. ASSUME NEW r \in Runs, Run(r) PROVE AdapterInv'
    <2>1. CASE Accept(r) \/ MakeWorkspace(r) \/ LoadRequest(r) \/ CheckSource(r)
        BY <2>1, AcceptKeeps, MakeWorkspaceKeeps, LoadRequestKeeps, CheckSourceKeeps
    <2>2. CASE AddWorktree(r) \/ CheckWorktree(r) \/ BuildPlan(r)
        BY <2>2, AddWorktreeKeeps, CheckWorktreeKeeps, BuildPlanKeeps
    <2>3. CASE MaterializeDownstream(r) \/ ApplyPatch(r)
        BY <2>3, MaterializeDownstreamKeeps, ApplyPatchKeeps
    <2>4. CASE HashFiles(r) \/ HashDiff(r) \/ Recheck(r)
        BY <2>4, HashFilesKeeps, HashDiffKeeps, RecheckKeeps
    <2>5. CASE Fails(r) \/ WriteEvidence(r) \/ WriteNothing(r) \/ WriteFails(r)
        BY <2>5, FailsKeeps, WriteEvidenceKeeps, WriteNothingKeeps, WriteFailsKeeps
    <2> QED BY <1>1, <2>1, <2>2, <2>3, <2>4, <2>5 DEF Run
<1>2. ASSUME NEW r \in Runs, Crash(r) PROVE AdapterInv'
    BY <1>2, CrashKeeps
<1>3. ASSUME NEW g \in Gates, CheckIntegration(g) PROVE AdapterInv'
    BY <1>3, CheckIntegrationKeeps
<1>4. ASSUME NEW w \in Workspaces, NEW e \in Edits, EditTree(w, e) \/ RestoreTree(w, e)
      PROVE  AdapterInv'
    BY <1>4, PeopleKeep
<1>5. CASE ChangeRoot
    BY <1>5, RootKeeps DEF ChangeRoot
<1>6. CASE UNCHANGED vars
    <2>1. root \in Optional(Commits)
        BY DEF AdapterInv, TypeOK
    <2> QED BY <1>6, <2>1, RootKeeps DEF vars
<1> QED BY <1>1, <1>2, <1>3, <1>4, <1>5, <1>6 DEF Next

\* The invariant holds throughout.
LEMMA Invariance == Spec => []AdapterInv
BY InitHolds, NextKeeps, PTL DEF Spec

-----------------------------------------------------------------------------
(* What the adapter promises                                               *)

\* Run, the gates and the people around them keep every variable in its type.
THEOREM TypeCorrect == Spec => []TypeOK
<1>1. AdapterInv => TypeOK
    BY DEF AdapterInv
<1> QED BY <1>1, Invariance, PTL

\* Whatever evidence and whatever tree a gate is given, and whoever edits that
\* tree between two of its reads, what it accepts is a complete integration of
\* the evidence's candidate; the edits in it were made while the run of that
\* evidence was integrating or while the gate was reading, or are of files that
\* .gitignore hides.
THEOREM GateAcceptsIntegrations == Spec => []AcceptedTreeIsIntegrated
<1>1. AdapterInv => AcceptedTreeIsIntegrated
    BY DEF AdapterInv, GateInv, AcceptsWell, AcceptedTreeIsIntegrated
<1> QED BY <1>1, Invariance, PTL

\* After any failure, and under any edits, evidence.json lists exactly the
\* patches that are in the worktree next to it.
THEOREM EvidenceIsAccurate == Spec => []EvidenceDescribesTree
<1>1. AdapterInv => EvidenceDescribesTree
    <2> SUFFICES ASSUME AdapterInv, NEW w \in Workspaces, space[w] # Null,
                        space[w].evidence # Null
                 PROVE  LET o == space[w].evidence.outcome
                            t == space[w].tree
                        IN  /\ o.applied = SubSeq(Series, 1, Len(o.applied))
                            /\ t = Null => o.applied = <<>>
                            /\ t # Null =>
                                /\ t.applied = o.applied
                                /\ t.base = space[w].evidence.inputs.candidate
                                /\ o.status = "NOT_CREATED" => ~ t.downstream
                            /\ o.pass => t # Null /\ ~ t.partial /\ t.downstream
        BY DEF EvidenceDescribesTree
    <2> DEFINE r == space[w].owner
    <2>1. /\ r \in Runs /\ At(r) = space[w] /\ Created(r)
          /\ space[w].evidence = Document(r)
        BY EvidenceOfOwner
    <2> HIDE DEF r
    <2>2. RunInv(r) /\ TypeOK
        BY <2>1 DEF AdapterInv
    <2>3. /\ space[w].evidence.outcome = outcome[r]
          /\ space[w].evidence.inputs = inputs[r]
        BY <2>1, <2>2, DocumentIs
    <2>4. Holds(pc[r], inputs[r], outcome[r], space[w].tree)
        BY <2>1, <2>2, EvidenceOfOwner DEF RunInv, r
    <2>5. outcome[r].applied = SubSeq(Series, 1, Len(outcome[r].applied))
        BY <2>1, <2>2, RunTypes, BeginsIsSubSeq DEF RunInv, Recorded
    <2> QED BY <2>3, <2>4, <2>5 DEF Holds
<1> QED BY <1>1, Invariance, PTL

\* What Run returns is what its evidence.json says, or the caller knows that
\* there is none.
THEOREM ReturnIsHonest == Spec => []ReturnMatchesDisk
<1>1. AdapterInv => ReturnMatchesDisk
    <2> SUFFICES ASSUME AdapterInv, NEW r \in Runs, pc[r] = "done"
                 PROVE  IF Created(r) /\ At(r).evidence = Null
                        THEN outcome[r].class = "EVIDENCE_WRITE_FAILED" /\ ~ outcome[r].pass
                        ELSE IF Created(r) THEN At(r).evidence = Document(r)
                        ELSE ~ outcome[r].pass /\ \A w \in Workspaces :
                                 space[w] # Null /\ space[w].evidence # Null =>
                                     space[w].evidence.by # r
        BY DEF ReturnMatchesDisk
    <2>1. Owned(r)
        BY DEF AdapterInv, RunInv
    <2>2. CASE Created(r)
        BY <2>1, <2>2 DEF Owned
    <2>3. ASSUME ~ Created(r), NEW w \in Workspaces, space[w] # Null,
                 space[w].evidence # Null
          PROVE  space[w].evidence.by # r
        BY <2>3, EvidenceOfOwner, DocumentIs DEF AdapterInv
    <2> QED BY <2>1, <2>2, <2>3 DEF Owned
<1> QED BY <1>1, Invariance, PTL

-----------------------------------------------------------------------------
(* The adapter implements the store of evidence                            *)

Files ==
    [w \in Workspaces |->
        IF space[w] = Null THEN Null
        ELSE [by |-> space[w].owner, document |-> space[w].evidence]]

\* A step that makes trees of trees is none of the store's.
LEMMA TreesAreInvisible ==
    ASSUME TypeOK, NEW w \in Workspaces, NEW x, space' = [space EXCEPT ![w] = x],
           space[w] # Null, x # Null, x.owner = space[w].owner,
           x.evidence = space[w].evidence
    PROVE  Files' = Files
<1>1. /\ space'[w] = x
      /\ \A v \in Workspaces \ {w} : space'[v] = space[v]
    BY DEF TypeOK
<1> QED BY <1>1 DEF Files

\* So a stage that changes only the tree is none of them.
LEMMA SetTreeIsInvisible ==
    ASSUME TypeOK, NEW r \in Runs, Created(r), NEW t, t \in Trees, SetTree(r, t)
    PROVE  Files' = Files
<1>1. At(r) \in Spaces /\ path[r] \in Workspaces /\ space[path[r]] = At(r) /\ At(r) # Null
    BY RunTypes DEF Created, At, Optional
<1> DEFINE x == Space(At(r).owner, t, At(r).evidence)
<1>2. x # Null /\ x.owner = At(r).owner /\ x.evidence = At(r).evidence
    BY <1>1, SpaceTypes, SpaceIs DEF Optional
<1>3. space' = [space EXCEPT ![path[r]] = x]
    BY DEF SetTree, SetSpace
<1> HIDE DEF x
<1> QED BY <1>1, <1>2, <1>3, TreesAreInvisible

\* The stages that write to the tree.
LEMMA TreeStagesInvisible ==
    ASSUME AdapterInv, NEW r \in Runs,
           AddWorktree(r) \/ MaterializeDownstream(r) \/ ApplyPatch(r)
    PROVE  Files' = Files
<1>1. TypeOK /\ RunInv(r)
    BY DEF AdapterInv
<1>2. CASE AddWorktree(r)
    <2>1. Created(r) /\ inputs[r].candidate \in Commits
        BY <1>1, <1>2 DEF AddWorktree, RunInv, Owned, Learnt, Early, Made
    <2>2. Tree(inputs[r].candidate, FALSE, <<>>, FALSE, {}) \in Trees
        BY <2>1 DEF Tree, Trees
    <2> QED BY <1>1, <1>2, <2>1, <2>2, SetTreeIsInvisible DEF AddWorktree
<1>3. CASE MaterializeDownstream(r)
    <2> DEFINE u == At(r).tree
               t == Tree(u.base, TRUE, u.applied, u.partial, u.foreign)
    <2>1. Created(r) /\ u \in Trees
        BY <1>1, <1>3, TreeAtWork DEF MaterializeDownstream, Made, Integrating
    <2>2. SetTree(r, t)
        BY <1>3 DEF MaterializeDownstream
    <2> HIDE DEF u
    <2>3. t \in Trees
        BY <2>1 DEF Tree, Trees
    <2> QED BY <1>1, <2>1, <2>2, <2>3, SetTreeIsInvisible
<1>4. CASE ApplyPatch(r)
    <2> DEFINE u == At(r).tree
               applied == Append(u.applied, NextPatch(r))
               t == Tree(u.base, u.downstream, applied, u.partial, u.foreign)
    <2>1. /\ Created(r) /\ u \in Trees /\ u.applied = outcome[r].applied
          /\ applied \in Seq(Patches)
        BY <1>1, <1>4, TreeAtWork, PatchFacts
           DEF ApplyPatch, Made, Integrating, RunInv, Holds
    <2>2. SetTree(r, t)
        BY <1>4 DEF ApplyPatch
    <2> HIDE DEF u, applied
    <2>3. t \in Trees
        BY <2>1 DEF Tree, Trees
    <2> QED BY <1>1, <2>1, <2>2, <2>3, SetTreeIsInvisible
<1> QED BY <1>2, <1>3, <1>4

\* So is what a stage that was cut short leaves.
LEMMA TornIsInvisible ==
    ASSUME AdapterInv, NEW r \in Runs, Torn(r)
    PROVE  Files' = Files
<1>1. TypeOK /\ RunInv(r)
    BY DEF AdapterInv
<1>2. CASE UNCHANGED space
    BY <1>2 DEF Files
<1>3. ASSUME pc[r] = "worktree", SetTree(r, Tree(inputs[r].candidate, FALSE, <<>>, TRUE, {}))
      PROVE  Files' = Files
    <2>1. Created(r) /\ inputs[r].candidate \in Commits
        BY <1>1, <1>3 DEF RunInv, Owned, Learnt, Early, Made
    <2>2. Tree(inputs[r].candidate, FALSE, <<>>, TRUE, {}) \in Trees
        BY <2>1 DEF Tree, Trees
    <2> QED BY <1>1, <1>3, <2>1, <2>2, SetTreeIsInvisible
<1>4. ASSUME pc[r] \in {"materialize", "apply"},
             LET t == At(r).tree
             IN  SetTree(r, Tree(t.base, t.downstream, t.applied, TRUE, t.foreign))
      PROVE  Files' = Files
    <2> DEFINE u == At(r).tree
               t == Tree(u.base, u.downstream, u.applied, TRUE, u.foreign)
    <2>1. Created(r) /\ u \in Trees
        BY <1>1, <1>4, TreeAtWork DEF Made, Integrating
    <2>2. SetTree(r, t)
        BY <1>4
    <2> HIDE DEF u
    <2>3. t \in Trees
        BY <2>1 DEF Tree, Trees
    <2> QED BY <1>1, <2>1, <2>2, <2>3, SetTreeIsInvisible
<1> QED BY <1>2, <1>3, <1>4 DEF Torn

\* And what people do.
LEMMA EditsAreInvisible ==
    ASSUME AdapterInv, NEW w \in Workspaces, NEW e \in Edits,
           EditTree(w, e) \/ RestoreTree(w, e)
    PROVE  Files' = Files
<1> DEFINE u == space[w].tree
<1>1. space[w] # Null /\ u # Null
    BY DEF EditTree, RestoreTree
<1>2. space[w] \in Spaces
    BY <1>1 DEF AdapterInv, TypeOK, Optional
<1>3. u \in Trees
    BY <1>1, <1>2, SpaceTypes DEF Optional
<1>4. PICK f \in SUBSET Edits : SetForeign(w, f)
    <2>1. u.foreign \subseteq Edits
        BY <1>3, TreeTypes
    <2> QED BY <2>1 DEF EditTree, RestoreTree
<1> DEFINE t == Tree(u.base, u.downstream, u.applied, u.partial, f)
           x == Space(space[w].owner, t, space[w].evidence)
<1>5. space' = [space EXCEPT ![w] = x]
    BY <1>4 DEF SetForeign, SetSpace
<1> HIDE DEF u
<1>6. t \in Trees
    BY <1>3 DEF Tree, Trees
<1> HIDE DEF t
<1>7. x # Null /\ x.owner = space[w].owner /\ x.evidence = space[w].evidence
    BY <1>2, <1>6, SpaceTypes, SpaceIs DEF Optional
<1> HIDE DEF x
<1> QED BY <1>1, <1>5, <1>7, TreesAreInvisible DEF AdapterInv

\* Every step claims a path, publishes, or is invisible.
LEMMA StepOfStore == AdapterInv /\ [Next]_vars => [Store!Next]_Files
<1> SUFFICES ASSUME AdapterInv, [Next]_vars PROVE Store!Next \/ Files' = Files
    OBVIOUS
<1>0. TypeOK
    BY DEF AdapterInv
<1>1. ASSUME NEW r \in Runs, MakeWorkspace(r) PROVE Store!Next
    <2>1. /\ path[r] \in Workspaces /\ space[path[r]] = Null
          /\ space' = [space EXCEPT ![path[r]] = Space(r, Null, Null)]
        BY <1>0, <1>1 DEF TypeOK, MakeWorkspace, At, SetSpace
    <2> DEFINE x == Space(r, Null, Null)
    <2>2. x # Null /\ x.owner = r /\ x.evidence = Null
        BY SpaceIs DEF Optional
    <2>3. space' = [space EXCEPT ![path[r]] = x]
        BY <2>1
    <2> HIDE DEF x
    <2>4. /\ space'[path[r]] = x
          /\ \A w \in Workspaces \ {path[r]} : space'[w] = space[w]
        BY <1>0, <2>1, <2>3 DEF TypeOK
    <2>5. Files[path[r]] = Null
        BY <2>1 DEF Files
    <2>6. Files' = [Files EXCEPT ![path[r]] = Store!File(r, Null)]
        BY <2>1, <2>2, <2>4 DEF Files, Store!File
    <2>7. PICK p \in Workspaces : p = path[r]
        BY <2>1
    <2>8. Store!Claim(r, p)
        BY <2>5, <2>6, <2>7 DEF Store!Claim, Files
    <2> QED BY <2>8 DEF Store!Next
<1>2. ASSUME NEW r \in Runs, WriteEvidence(r) PROVE Store!Next
    <2>1. Created(r) /\ At(r).evidence = Null /\ path[r] \in Workspaces
        BY <1>0, <1>2 DEF AdapterInv, WriteEvidence, RunInv, Owned, TypeOK
    <2>2. At(r) \in Spaces /\ space[path[r]] = At(r) /\ At(r) # Null /\ At(r).owner = r
        BY <1>0, <2>1, RunTypes DEF Created, At, Optional
    <2> DEFINE x == Space(At(r).owner, At(r).tree, Document(r))
    <2>3. /\ x # Null /\ x.owner = r /\ x.evidence = Document(r)
          /\ Document(r) \in Documents
        BY <1>0, <2>2, SpaceTypes, DocumentIs, SpaceIs DEF Optional
    <2>4. space' = [space EXCEPT ![path[r]] = x]
        BY <1>2 DEF WriteEvidence, SetSpace
    <2> HIDE DEF x
    <2>5. /\ space'[path[r]] = x
          /\ \A w \in Workspaces \ {path[r]} : space'[w] = space[w]
        BY <1>0, <2>1, <2>4 DEF TypeOK
    <2>6. Files[path[r]] = Store!File(r, Null)
        BY <2>1, <2>2 DEF Files, Store!File
    <2>7. Files'[path[r]] = Store!File(r, Document(r))
        BY <2>1, <2>3, <2>5 DEF Files, Store!File
    <2>8. Files'[path[r]].document = Document(r)
        BY <2>7 DEF Store!File
    <2>9. Files' = [Files EXCEPT ![path[r]] = Store!File(r, Document(r))]
        BY <2>1, <2>5, <2>7 DEF Files
    <2>10. PICK p \in Workspaces : p = path[r]
        BY <2>1
    <2>11. Store!Publish(r, p)
        BY <2>3, <2>6, <2>8, <2>9, <2>10 DEF Store!Publish, Files
    <2> QED BY <2>11 DEF Store!Next
<1>3. ASSUME NEW r \in Runs, Run(r) PROVE Store!Next \/ Files' = Files
    <2>1. CASE MakeWorkspace(r) \/ WriteEvidence(r)
        BY <1>1, <1>2, <2>1
    <2>2. CASE AddWorktree(r) \/ MaterializeDownstream(r) \/ ApplyPatch(r)
        BY <2>2, TreeStagesInvisible
    <2>3. CASE Fails(r)
        BY <2>3, TornIsInvisible DEF Fails
    <2>4. CASE \/ Accept(r) \/ LoadRequest(r) \/ CheckSource(r) \/ CheckWorktree(r)
               \/ BuildPlan(r) \/ HashFiles(r) \/ HashDiff(r) \/ Recheck(r)
               \/ WriteNothing(r) \/ WriteFails(r)
        <3>1. UNCHANGED space
            BY <2>4 DEF Accept, LoadRequest, CheckSource, CheckWorktree, BuildPlan, HashFiles,
               HashDiff, Recheck, WriteNothing, WriteFails
        <3> QED BY <3>1 DEF Files
    <2> QED BY <1>3, <2>1, <2>2, <2>3, <2>4 DEF Run
<1>4. ASSUME NEW r \in Runs, Crash(r) PROVE Files' = Files
    BY <1>4, TornIsInvisible DEF Crash
<1>5. ASSUME NEW w \in Workspaces, NEW e \in Edits, EditTree(w, e) \/ RestoreTree(w, e)
      PROVE  Files' = Files
    BY <1>5, EditsAreInvisible
<1>6. ASSUME NEW g \in Gates, CheckIntegration(g) PROVE Files' = Files
    <2>1. UNCHANGED space
        BY <1>6 DEF CheckIntegration, CheckHead, ReadDiff, ListUntracked, ReadFile, AcceptTree,
           GiveUp, Advance, SetGate
    <2> QED BY <2>1 DEF Files
<1>7. CASE ChangeRoot \/ UNCHANGED vars
    BY <1>7 DEF ChangeRoot, vars, Files
<1> QED BY <1>3, <1>4, <1>5, <1>6, <1>7 DEF Next

\* The adapter claims a workspace with its mkdir and publishes evidence.json
\* once, as the other tools do: whatever else happens there, the step is one of
\* the abstract store or none.
THEOREM AdapterImplementsEvidenceStore == Spec => ImplementsEvidenceStore
<1>1. Init => Store!Init
    BY DEF Init, Store!Init
<1>2. AdapterInv /\ [Next]_vars => [Store!Next]_Files
    BY StepOfStore
<1>3. AdapterInv /\ [Next]_vars =>
          [Store!Next]_([w \in Workspaces |->
              IF space[w] = Null THEN Null
              ELSE [by |-> space[w].owner, document |-> space[w].evidence]])
    BY <1>2 DEF Files
<1>4. Spec => Store!Spec
    BY <1>1, <1>3, Invariance, PTL DEF Spec, Store!Spec
<1> QED BY <1>4 DEF ImplementsEvidenceStore

StoreFacts ==
    INSTANCE EvidenceStoreProofs WITH Writers <- Runs, Paths <- Workspaces, files <- Files

\* A workspace never changes hands and its evidence is never rewritten or
\* removed, whatever happens to the worktree beside it: what a gate was given
\* once says the same for ever (mkdir in Run, AtomicWriteJson at its end).
THEOREM AdapterEvidenceIsFinal ==
    Spec => [][\A w \in Workspaces : space[w] # Null =>
                  /\ space'[w] # Null /\ space'[w].owner = space[w].owner
                  /\ space[w].evidence # Null => space'[w].evidence = space[w].evidence]_vars
<1>1. StoreFacts!NullIsNothing
    <2>1. ASSUME NEW r \in Runs, NEW document \in Documents \cup {Null}
          PROVE  StoreFacts!File(r, document) \in [by : Runs, document : Optional(Documents)]
        BY <2>1 DEF StoreFacts!File, Optional
    <2> QED BY <2>1, NullAssumption DEF StoreFacts!NullIsNothing
<1>2. StoreFacts!Spec => [][StoreFacts!KeepsEvidence]_Files
    BY <1>1, StoreFacts!EvidenceIsFinal
<1>3. Spec => StoreFacts!Spec
    <2>1. Init => StoreFacts!Init
        BY DEF Init, StoreFacts!Init, Files
    <2>2. AdapterInv /\ [Next]_vars => [StoreFacts!Next]_Files
        BY StepOfStore
        DEF Store!Next, StoreFacts!Next, Store!Claim, StoreFacts!Claim, Store!Publish,
            StoreFacts!Publish, Store!File, StoreFacts!File, Files
    <2> QED BY <2>1, <2>2, Invariance, PTL DEF Spec, StoreFacts!Spec
<1>4. AdapterInv /\ AdapterInv' /\ [StoreFacts!KeepsEvidence]_Files =>
          \A w \in Workspaces : space[w] # Null =>
              /\ space'[w] # Null /\ space'[w].owner = space[w].owner
              /\ space[w].evidence # Null => space'[w].evidence = space[w].evidence
    <2> SUFFICES ASSUME AdapterInv, AdapterInv', [StoreFacts!KeepsEvidence]_Files,
                        NEW w \in Workspaces, space[w] # Null
                 PROVE  /\ space'[w] # Null /\ space'[w].owner = space[w].owner
                        /\ space[w].evidence # Null => space'[w].evidence = space[w].evidence
        OBVIOUS
    <2>1. space[w] \in Spaces /\ space'[w] \in Optional(Spaces)
        BY DEF AdapterInv, TypeOK, Optional
    <2>2. Files[w] = [by |-> space[w].owner, document |-> space[w].evidence]
        BY DEF Files
    <2>3. Files[w] # Null
        BY <2>1, <2>2, NullAssumption DEF Spaces
    <2>4. /\ Files'[w] # Null /\ Files'[w].by = Files[w].by
          /\ Files[w].document # Null => Files'[w] = Files[w]
        BY <2>3 DEF StoreFacts!KeepsEvidence
    <2>5. space'[w] # Null
        BY <2>4 DEF Files
    <2>6. Files'[w] = [by |-> space'[w].owner, document |-> space'[w].evidence]
        BY <2>5 DEF Files
    <2> QED BY <2>2, <2>4, <2>5, <2>6
<1> QED BY <1>2, <1>3, <1>4, Invariance, PTL
=============================================================================
