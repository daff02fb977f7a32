----------------------------- MODULE PatchSeries ----------------------------
(***************************************************************************)
(* The two readers of patches/: ValidatePatches of scripts/                *)
(* validate_repo.py, which runs on every change of the repository, and     *)
(* ReadPatchSeries of scripts/patch_qualify.py, which runs when a          *)
(* candidate is integrated.  Neither calls the other.                      *)
(*                                                                         *)
(* A series is the sequence of entries that both get from patches/series.  *)
(***************************************************************************)
EXTENDS Naturals, Sequences

CONSTANTS
    PatchNames,   \* names that end in .patch
    NumberOf,     \* the number in a name that has the required form, else 0
    Null

ASSUME NumberAssumption == NumberOf \in [PatchNames -> Nat]

\* OTHER is a directory, or a link that leads nowhere.
Kinds == {"FILE", "LINK", "OTHER"}

\* What can be wrong with a patch, by the first reader that sees it.
Contents ==
    {"GOOD",
     "UNREADABLE",    \* as a file, or as UTF-8
     "BLANK",
     "UNMARKED",      \* without one of the markers of a unified diff
     "UNSUPPORTED",   \* binary, a link, too large, with headers or paths of another form
     "UNPARSABLE"}    \* git apply --numstat refuses it

PatchFiles == [kind : Kinds, content : Contents]
ASSUME NullAssumption == Null \notin PatchFiles

Directories == [PatchNames -> PatchFiles \cup {Null}]

Listed(series) == {series[i] : i \in DOMAIN series}
NoDuplicates(series) == \A i, j \in DOMAIN series : series[i] = series[j] => i = j
Existing(patches) == {n \in PatchNames : patches[n] # Null}
IsFile(patches, n) == patches[n] # Null /\ patches[n].kind # "OTHER"

ValidatePatch(content) == content \notin {"UNREADABLE", "BLANK", "UNMARKED"}

\* An entry that is no name of PatchNames' form is refused by its number.
ValidatePatches(series, patches) ==
    /\ NoDuplicates(series)
    /\ Listed(series) = Existing(patches)
    /\ \A i \in DOMAIN series :
        /\ NumberOf[series[i]] = i
        /\ IsFile(patches, series[i]) => ValidatePatch(patches[series[i]].content)

\* Mutated form: the patches that exist are not compared with the series.
ReadListedPatches(series, patches) ==
    /\ NoDuplicates(series)
    /\ \A i \in DOMAIN series :
        /\ NumberOf[series[i]] = i
        /\ IsFile(patches, series[i])
        /\ patches[series[i]].kind = "FILE"
        /\ patches[series[i]].content = "GOOD"

\* InspectPatch takes a good content only.
ReadPatchSeries(series, patches) ==
    /\ NoDuplicates(series)
    /\ \A n \in PatchNames : IsFile(patches, n) => n \in Listed(series)
    /\ \A i \in DOMAIN series :
        /\ NumberOf[series[i]] = i
        /\ IsFile(patches, series[i])
        /\ patches[series[i]].kind = "FILE"
        /\ patches[series[i]].content = "GOOD"
=============================================================================
