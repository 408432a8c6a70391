----------------------------- MODULE WorkshopProps -----------------------------
(***************************************************************************)
(* What is asserted of the two rulebooks and the interviews.               *)
(***************************************************************************)
EXTENDS Workshop

AlphaTypeOK ==
    /\ manifest \in Manifests
    /\ file \in Books
    /\ archive \in [Versions -> [manifest: Manifests, book: Books]]
    /\ step \in [Procs -> Steps]
    /\ job \in [Procs -> Jobs]
    /\ version \in [Procs -> Versions \union {"draft"}]
    /\ book \in [Procs -> [Files -> Contents \union {"unread"}]]
    /\ faults \subseteq Faults

BetaTypeOK ==
    /\ betaManifest \in BetaManifests
    /\ design \in [DesignFiles -> OnDisk]
    /\ betaStep \in [BetaProcs -> BetaSteps]
    /\ betaJob \in [BetaProcs -> BetaJobs]
    /\ betaVersion \in [BetaProcs -> BetaVersions \union {"draft"}]
    /\ betaBook \in [BetaProcs -> DesignBook]
    /\ touched \in BOOLEAN

Logs == Seq([role: {"user", "assistant"}, phase: Nat])

EngineTypeOK ==
    /\ turn \in [Sessions -> Turns]
    /\ \A s \in Sessions : phase[s] \in 1..Len(Phases[s])
    /\ history \in [Sessions -> Logs]
    /\ graph \in [Sessions -> Logs]
    /\ pending \in [Sessions -> Seq(Blocks)]
    /\ lost \subseteq Sessions

TypeOK == AlphaTypeOK /\ BetaTypeOK /\ EngineTypeOK /\ left \in Nat

-------------------------------------------------------------------------------
(* The archive of the alpha rulebook *)

Kept(v) == archive[v].manifest.version \notin {"absent", "garbage"}

\* compat.json is there, and no file is broken.
Sound(b) == b["compat"] # "none" /\ \A f \in Files : b[f] \notin {"flawed", "garbage", "unread"}

\* A bundle under versions/ is whole: it is of the version it lies under, its hash is that of
\* the book with it, and the book is sound; however other commands, edits, interviews, failed
\* writes and kills fell between the reads of Load and the two writes of the promotion.
ArchiveSound ==
    \A v \in Versions :
        Kept(v) => /\ archive[v].manifest = Manifest(v, archive[v].book)
                   /\ Sound(archive[v].book)

\* A version under versions/, as a reader that compares its manifest with its book takes it.
Shelved(v) ==
    LET m == archive[v].manifest
        b == archive[v].book
    IN  IF m = Manifest(v, b) THEN [state |-> "kept", book |-> b]
        ELSE [state |-> IF m.version = "absent" THEN "empty" ELSE IF m.version = "garbage" THEN "torn" ELSE "mixed",
              book |-> NoBook]

\* The version and the book of a promotion whose manifest is written and whose bundle is not.
Signed(p) ==
    IF step[p] = "archive" /\ version[p] \in Versions
      THEN [version |-> version[p], book |-> book[p]]
      ELSE [version |-> "draft", book |-> NoBook]

Shelves    == [v \in Versions |-> Shelved(v)]
Signatures == [p \in Procs |-> Signed(p)]

TheArchive == INSTANCE RulebookArchive WITH
    Promoters <- Procs, NoVersion <- "draft", shelf <- Shelves, signed <- Signatures

\* The archive implements RulebookArchive: a version holds the book some promotion linted and
\* signed, under the version and with the hash it signed, or is visibly torn, and never vanishes;
\* however other commands, edits, interviews, failed writes and kills fell between the reads of
\* Load, the manifest and the bundle.
ArchiveSpec == TheArchive!Spec

\* Since a promotion went from its manifest to its bundle with no other between, the version the
\* manifest shows is in the archive with the manifest's hash: whatever began beside it, failed,
\* died or was written into the rulebook, and although an earlier promotion was cut short or a
\* block or the user wrote the manifest.  After one of these three it need not be, until the
\* next promotion signs.
ManifestMatchesArchive ==
    /\ "manifest" \notin faults
    /\ \A p \in Procs : step[p] # "archive"
    /\ manifest.version \in Versions
    => archive[manifest.version].manifest = manifest

\* No command and no session makes a draft of a promoted rulebook, when it began with no other
\* about to write the manifest and nothing else wrote it meanwhile, but a promotion to the empty
\* version.  A block alpha:alpha_manifest and the user can, in a step of no process.
PromotedStays ==
    [][manifest.version \in Versions /\ manifest'.version = "draft" /\ step' # step =>
            \/ "overlap" \in faults
            \/ \E p \in Procs : step[p] = "sign" /\ version[p] = "draft"]_vars

\* A rulebook with a manifest has a compat.json that lints, or is being given one, unless the
\* last to take it in hand left it broken: an Init that was cut short, a block alpha:compat, the
\* user, or who wrote a manifest where there was none.  Promotions, imports, other blocks and
\* edits and a manifest that is deleted and made again never take it away.
CompatFollowsManifest ==
    \/ manifest.version = "absent"
    \/ "compat" \in faults
    \/ \E p \in Procs : step[p] = "newCompat"
    \/ SoundCompat(file["compat"])

-------------------------------------------------------------------------------
(* The beta rulebook, and the interviews *)

\* The hash of a promoted beta rulebook is that of the files beside it once its Save is over,
\* unless a write failed, or a block, the user or another Save wrote them or the manifest since.
BetaHashHolds ==
    /\ betaManifest.version \in BetaVersions
    /\ ~touched
    /\ \A p \in BetaProcs : betaStep[p] \notin {"saveVocab", "saveRules"}
    => \A f \in DesignFiles : Parsed(design[f]) = betaManifest.hash[f]

Answered(log) ==
    \A i \in 2..Len(log) :
        log[i].role = "assistant" => log[i - 1] = [role |-> "user", phase |-> log[i].phase]

\* In what the engine remembers, and in the graph, every answer comes right after a message
\* of the user in the same phase: also after turns that failed, a kill in the middle of a
\* turn, and a session recalled from the graph; as long as the graph has missed nothing.
AnswersFollowQuestions ==
    \A s \in Sessions \ lost : Answered(history[s]) /\ Answered(graph[s])
===============================================================================
