------------------------------- MODULE Workshop -------------------------------
(***************************************************************************)
(* Both rulebooks of a project and everybody who works on them: the         *)
(* commands of cmd/alpha and cmd/beta, the user's editor, and the           *)
(* interviews of the architect (internal/alpha/architect.go) and the        *)
(* designer (internal/beta/designer.go), whose blocks become files.         *)
(*                                                                         *)
(* Bounds: in one behaviour only the members of one cast take part, and    *)
(* commands, sessions and edits are at most Budget[cast]; a graph has at   *)
(* most MaxMessages messages.                                              *)
(***************************************************************************)
EXTENDS AlphaWorkspace, BetaWorkspace, InterviewEngine

CONSTANTS
    User,       \* who edits files by hand
    Casts,      \* sets of processes, and User
    Texts,      \* of each session, pairs of a file and what a block may write there
    Edits,      \* of each session's rulebook, pairs of a file and what the user may write there
    Budget      \* commands, sessions and edits of each cast

Apart == "apart"    \* a file Load does not read

\* The tag of a block is its module and any word.  Those that name a file are told apart.
Categories == {"schema", "rules", "compat", "alpha_manifest",
               "style_rules", "render_vocab", "beta_manifest", "other"}

Blocks == [module: {"alpha", "beta"}, category: Categories]

ASSUME WorkshopAssumption ==
    /\ Sessions = {Architect, Designer}
    /\ Architect # Designer
    /\ Phases[Architect] = AlphaPhases /\ Phases[Designer] = BetaPhases
    /\ Drafts \subseteq Seq(Blocks)
    /\ Texts[Architect] \union Edits[Architect] \subseteq AlphaTexts
    /\ Texts[Designer] \union Edits[Designer] \subseteq BetaTexts

VARIABLES
    cast,
    left        \* of the budget

vars == <<alphaVars, betaVars, engineVars, cast, left>>

Init == AlphaInit /\ BetaInit /\ EngineInit /\ cast \in Casts /\ left = Budget[cast]

Spend == left > 0 /\ left' = left - 1 /\ UNCHANGED cast

\* WriteExtractedBlock: the schemas and rules of alpha go to their directories, and a category
\* it does not know, of either module, to <category>.json in that of the session's rulebook,
\* where compat.json, the vocabulary, the style rules and the manifest are.  The others go to
\* files apart: palettes, effects and animations to render_vocab_<category>s.json.
FileOf(s, block) ==
    CASE s = Architect /\ block.module = "alpha" /\ block.category \in {"schema", "rules"} -> block.category
      [] s = Architect /\ block.category = "compat"         -> "compat"
      [] s = Architect /\ block.category = "alpha_manifest" -> "manifest"
      [] s = Designer /\ block.category = "style_rules"     -> "rules"
      [] s = Designer /\ block.category = "render_vocab"    -> "vocab"
      [] s = Designer /\ block.category = "beta_manifest"   -> "manifest"
      [] OTHER                                              -> Apart

-------------------------------------------------------------------------------

\* alpha init, promote, import; `promote --version ""` is allowed.
AlphaCommand(p) ==
    /\ \/ \E what \in Jobs \ {"none", "promote", "interview"} : Begin(p, what, "draft")
       \/ \E v \in Versions \union {"draft"} : Begin(p, "promote", v)
    /\ Spend
    /\ UNCHANGED <<betaVars, engineVars>>

BetaCommand(p) ==
    /\ \/ \E what \in {"init", "import"} : BetaBegin(p, what, "draft")
       \/ \E v \in BetaVersions \union {"draft"} : BetaBegin(p, "promote", v)
    /\ Spend
    /\ UNCHANGED <<alphaVars, engineVars>>

\* Architect.Start and Resume, Designer.Start and Resume.
StartArchitect(resumed) ==
    /\ Begin(Architect, "interview", "draft")
    /\ Remember(Architect, resumed)
    /\ Spend
    /\ UNCHANGED <<betaVars, turn, phase, graph, pending, lost>>

StartDesigner(resumed) ==
    /\ BetaBegin(Designer, "interview", "draft")
    /\ Remember(Designer, resumed)
    /\ Spend
    /\ UNCHANGED <<alphaVars, turn, phase, graph, pending, lost>>

AlphaStep(p) ==
    /\ Perform(p)
    /\ IF p = Architect /\ job'[p] = "none" THEN EndSession(p) ELSE UNCHANGED engineVars
    /\ UNCHANGED <<betaVars, cast, left>>

BetaStep(p) ==
    /\ BetaPerform(p)
    /\ IF p = Designer /\ betaJob'[p] = "none" THEN EndSession(p) ELSE UNCHANGED engineVars
    /\ UNCHANGED <<alphaVars, cast, left>>

InSession(s) == IF s = Architect THEN step[s] = "talk" ELSE betaStep[s] = "talk"

Interview(s) ==
    /\ InSession(s)
    /\ RunPhase(s)
    /\ UNCHANGED <<alphaVars, betaVars, cast, left>>

\* After the last phase the rulebook is loaded, but only to be shown.
LeaveInterview(s) ==
    /\ InSession(s) /\ MayEnd(s)
    /\ EndSession(s)
    /\ IF s = Architect
       THEN Finish(s) /\ UNCHANGED <<manifest, file, archive, faults, betaVars>>
       ELSE BetaFinish(s) /\ UNCHANGED <<betaManifest, design, touched, alphaVars>>
    /\ UNCHANGED <<cast, left>>

\* What is left of a write that is cut short.
AlphaTorn(f) == {<<f, IF f = "manifest" THEN Manifest("garbage", NoBook) ELSE "garbage">>}
BetaTorn(f)  == IF f = "manifest" THEN {<<f, BetaManifest("garbage", ZeroBook)>>}
                                  ELSE {<<f, "empty">>, <<f, "garbage">>}

\* A block is written as the model wrote it, unread, over what is there; if that fails the
\* interview goes on.
WriteBlock(s) ==
    LET f == FileOf(s, Head(pending[s]))
        written == {text \in Texts[s] : text[1] = f}
    IN  /\ InSession(s)
        /\ BlockDone(s)
        /\ \/ UNCHANGED <<alphaVars, betaVars>>
           \/ /\ f # Apart /\ s = Architect
              /\ \E text \in written \union AlphaTorn(f) : Overwrite(text)
              /\ UNCHANGED betaVars
           \/ /\ f # Apart /\ s = Designer
              /\ \E text \in written \union BetaTorn(f) : OverwriteDesign(text)
              /\ UNCHANGED alphaVars
        /\ UNCHANGED <<cast, left>>

\* The user writes or deletes a file, or the manifest.
Hand ==
    /\ User \in cast
    /\ \/ \E text \in Edits[Architect] : Overwrite(text) /\ UNCHANGED betaVars
       \/ \E text \in Edits[Designer] : OverwriteDesign(text) /\ UNCHANGED alphaVars
    /\ Spend /\ UNCHANGED engineVars

-------------------------------------------------------------------------------

Next ==
    \/ \E p \in Procs \intersect cast : AlphaStep(p)
    \/ \E p \in BetaProcs \intersect cast : BetaStep(p)
    \/ \E p \in Commands \intersect cast : AlphaCommand(p)
    \/ \E p \in BetaCommands \intersect cast : BetaCommand(p)
    \/ \E s \in Sessions \intersect cast : Interview(s) \/ LeaveInterview(s) \/ WriteBlock(s)
    \/ \E resumed \in BOOLEAN :
          \/ Architect \in cast /\ StartArchitect(resumed)
          \/ Designer \in cast /\ StartDesigner(resumed)
    \/ Hand

Spec == Init /\ [][Next]_vars
===============================================================================
