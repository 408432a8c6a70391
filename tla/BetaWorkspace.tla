---------------------------- MODULE BetaWorkspace ----------------------------
(***************************************************************************)
(* One Beta rulebook on disk (internal/beta/workspace.go, rulebook.go), the *)
(* commands of cmd/beta that write it, each a process of its own, and the   *)
(* designer's session, one more process.  Init and a promotion save         *)
(* manifest, vocabulary and style rules, in this order, over what is there. *)
(***************************************************************************)
EXTENDS Naturals, Sequences

CONSTANTS
    BetaCommands,   \* processes of the beta command line
    Designer,       \* the process of an interactive session
    BetaVersions,
    Designs,        \* contents of a vocabulary or of style rules
    Stub            \* the vocabulary an import writes

\* "zero" is the JSON of an empty value.  A missing file, and one that is truncated and not
\* written any more, load as an empty value too: YAML takes an empty text for nothing at all.
DefaultVocab == "default"
DesignFiles  == {"vocab", "rules"}
DesignBook   == [DesignFiles -> Designs \union {DefaultVocab, "zero"}]
OnDisk       == Designs \union {DefaultVocab, "zero", "none", "empty", "garbage"}
ZeroBook     == [f \in DesignFiles |-> "zero"]
Parsed(c)    == IF c \in {"none", "empty"} THEN "zero" ELSE c

BetaManifests == [version: BetaVersions \union {"absent", "garbage", "draft"}, hash: DesignBook]
BetaManifest(v, b) == [version |-> v, hash |-> b]

ASSUME BetaAssumption ==
    /\ Designer \notin BetaCommands
    /\ BetaVersions \cap {"absent", "garbage", "draft"} = {}
    /\ Designs \cap {DefaultVocab, "zero", "none", "empty", "garbage"} = {}
    /\ Stub \in Designs

BetaProcs == BetaCommands \union {Designer}

VARIABLES
    betaManifest,   \* beta_manifest.json
    design,         \* render_vocab and style_rules
    betaStep,       \* where each process is
    betaJob,        \* what it does
    betaVersion,    \* the version it saves
    betaBook,       \* what it has loaded, or is to save
    touched         \* ghost: something else was written since the last promotion began to save, or it failed

betaVars == <<betaManifest, design, betaStep, betaJob, betaVersion, betaBook, touched>>

BetaJobs  == {"none", "init", "promote", "import", "interview"}
BetaSteps == {"idle", "check", "vocab", "rules", "manifest", "saveVocab", "saveRules", "produce", "talk"}

BetaInit ==
    /\ betaManifest = BetaManifest("absent", ZeroBook)
    /\ design = [f \in DesignFiles |-> "none"]
    /\ betaStep = [p \in BetaProcs |-> "idle"]
    /\ betaJob = [p \in BetaProcs |-> "none"]
    /\ betaVersion = [p \in BetaProcs |-> "draft"]
    /\ betaBook = [p \in BetaProcs |-> ZeroBook]
    /\ touched = FALSE

BetaMove(p, from, to) == betaStep[p] = from /\ betaStep' = [betaStep EXCEPT ![p] = to]

BetaFinish(p) ==
    /\ betaStep' = [betaStep EXCEPT ![p] = "idle"]
    /\ betaJob' = [betaJob EXCEPT ![p] = "none"]
    /\ betaVersion' = [betaVersion EXCEPT ![p] = "draft"]
    /\ betaBook' = [betaBook EXCEPT ![p] = ZeroBook]

\* Processes that write the files they have loaded or made up.
Saving == {p \in BetaProcs : betaStep[p] \notin {"idle", "produce", "talk"}}

BetaBegin(p, what, v) ==
    /\ BetaMove(p, "idle", CASE what = "promote" -> "vocab"
                             [] what = "import"  -> "produce"
                             [] OTHER            -> "check")
    /\ betaJob' = [betaJob EXCEPT ![p] = what]
    /\ betaVersion' = [betaVersion EXCEPT ![p] = v]
    /\ touched' = (touched \/ Saving # {})
    /\ UNCHANGED <<betaManifest, design, betaBook>>

-------------------------------------------------------------------------------
(* Load and Promote: nothing is linted, and no version is archived *)

LoadDesign(p, f, to) ==
    /\ betaStep[p] = f
    /\ IF betaManifest.version \in {"absent", "garbage"} \/ design[f] = "garbage"
       THEN BetaFinish(p)
       ELSE /\ BetaMove(p, f, to)
            /\ betaBook' = [betaBook EXCEPT ![p][f] = Parsed(design[f])]
            /\ UNCHANGED <<betaJob, betaVersion>>
    /\ UNCHANGED <<betaManifest, design, touched>>

\* Exists and, if nothing is there, Init with the default effects and palette.
BetaCheck(p) ==
    /\ betaStep[p] = "check"
    /\ IF betaManifest.version = "absent"
       THEN /\ BetaMove(p, "check", "manifest")
            /\ betaBook' = [betaBook EXCEPT ![p]["vocab"] = DefaultVocab]
            /\ UNCHANGED <<betaJob, betaVersion>>
       ELSE IF betaJob[p] = "interview"
       THEN BetaMove(p, "check", "talk") /\ UNCHANGED <<betaJob, betaVersion, betaBook>>
       ELSE BetaFinish(p)
    /\ UNCHANGED <<betaManifest, design, touched>>

\* Save.  A draft has no hash yet.
SaveManifest(p) ==
    /\ BetaMove(p, "manifest", "saveVocab")
    /\ betaManifest' = BetaManifest(betaVersion[p], IF betaJob[p] = "promote" THEN betaBook[p] ELSE ZeroBook)
    /\ touched' = (touched /\ (betaJob[p] # "promote" \/ Saving # {p}))
    /\ UNCHANGED <<design, betaJob, betaVersion, betaBook>>

SaveVocab(p) ==
    /\ BetaMove(p, "saveVocab", "saveRules")
    /\ design' = [design EXCEPT !["vocab"] = betaBook[p]["vocab"]]
    /\ UNCHANGED <<betaManifest, betaJob, betaVersion, betaBook, touched>>

SaveRules(p) ==
    /\ betaStep[p] = "saveRules"
    /\ design' = [design EXCEPT !["rules"] = betaBook[p]["rules"]]
    /\ IF betaJob[p] = "interview"
       THEN BetaMove(p, "saveRules", "talk") /\ UNCHANGED <<betaJob, betaVersion, betaBook>>
       ELSE BetaFinish(p)
    /\ UNCHANGED <<betaManifest, touched>>

\* Mutant: a vocabulary that cannot be written does not end the save.
SaveGoesOn(p) ==
    /\ BetaMove(p, "saveVocab", "saveRules")
    /\ design' = [design EXCEPT !["vocab"] = "empty"]
    /\ UNCHANGED <<betaManifest, betaJob, betaVersion, betaBook, touched>>

\* The first write that fails ends it; the files before it are new, those after it old.
SaveFails(p) ==
    /\ \/ /\ betaStep[p] = "manifest"
          /\ betaManifest' \in {betaManifest, BetaManifest("garbage", ZeroBook)}
          /\ UNCHANGED design
       \/ /\ betaStep[p] \in {"saveVocab", "saveRules"}
          /\ \E left \in {"empty", "garbage"} :
                design' \in {design, [design EXCEPT ![IF betaStep[p] = "saveVocab" THEN "vocab" ELSE "rules"] = left]}
          /\ UNCHANGED betaManifest
    /\ BetaFinish(p)
    /\ touched' = TRUE

\* ImportDesign: no check that the rulebook exists; the write fails if its directory does not,
\* which may be there without a manifest.
ImportDesign(p) ==
    /\ betaStep[p] = "produce"
    /\ \/ betaManifest.version = "absent" /\ UNCHANGED <<design, touched>>
       \/ /\ \E left \in {Stub, design["vocab"], "empty", "garbage"} : design' = [design EXCEPT !["vocab"] = left]
          /\ touched' = TRUE
    /\ BetaFinish(p)
    /\ UNCHANGED betaManifest

\* What a file or the manifest may be overwritten with.
BetaTexts == (DesignFiles \X OnDisk) \union ({"manifest"} \X BetaManifests)

\* Something else writes a file or the manifest, and looks at nothing before.
OverwriteDesign(text) ==
    /\ IF text[1] = "manifest"
       THEN betaManifest' = text[2] /\ UNCHANGED design
       ELSE design' = [design EXCEPT ![text[1]] = text[2]] /\ UNCHANGED betaManifest
    /\ touched' = TRUE
    /\ UNCHANGED <<betaStep, betaJob, betaVersion, betaBook>>

BetaDie(p) ==
    /\ betaStep[p] # "idle"
    /\ BetaFinish(p)
    /\ touched' = (touched \/ betaStep[p] \in {"saveVocab", "saveRules"})
    /\ UNCHANGED <<betaManifest, design>>

BetaPerform(p) ==
    \/ LoadDesign(p, "vocab", "rules") \/ LoadDesign(p, "rules", "manifest")
    \/ BetaCheck(p) \/ SaveManifest(p) \/ SaveVocab(p) \/ SaveRules(p) \/ SaveFails(p)
    \/ ImportDesign(p) \/ BetaDie(p)
===============================================================================
