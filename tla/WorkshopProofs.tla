---------------------------- MODULE WorkshopProofs ----------------------------
(***************************************************************************)
(* Theorems about the two rulebooks on disk, for every number of processes, *)
(* versions and contents, and whatever the interviews do.                  *)
(***************************************************************************)
EXTENDS WorkshopProps, TLAPS

(* The alpha rulebook *)

AlphaShape ==
    /\ step \in [Procs -> Steps]
    /\ version \in [Procs -> Versions \union {"draft"}]
    /\ DOMAIN book = Procs /\ DOMAIN archive = Versions /\ DOMAIN file = Files

\* What CompatFollowsManifest says of a rulebook with a manifest; it stays when that is deleted.
CompatKept ==
    \/ "compat" \in faults
    \/ \E p \in Procs : step[p] = "newCompat"
    \/ SoundCompat(file["compat"])

\* A book about to be signed has been linted, and was loaded beside a manifest.
BookRead(p) ==
    /\ step[p] \in {"sign", "archive"} => Lint(book[p]) /\ CompatKept
    /\ step[p] = "load" /\ book[p]["compat"] # "unread" => CompatKept
    /\ step[p] = "idle" => book[p] = Unread

\* While no command has begun beside one that writes the manifest, that one is alone, and there
\* is no manifest but the one it makes.
AlphaAlone ==
    "overlap" \notin faults =>
        /\ \A p, q \in Busy : p = q
        /\ \A p \in Procs : step[p] = "newManifest" => manifest.version = "absent"

\* A promotion alone between its manifest and its bundle finds the manifest as it has left it.
Archiving ==
    "manifest" \notin faults =>
        \A p \in Procs : step[p] = "archive" =>
            /\ \A q \in Procs : step[q] = "archive" => q = p
            /\ manifest.version \in Versions => manifest = Manifest(version[p], book[p])

AlphaInv ==
    /\ AlphaShape
    /\ \A p \in Procs : BookRead(p)
    /\ AlphaAlone /\ Archiving
    /\ ArchiveSound /\ ManifestMatchesArchive /\ CompatFollowsManifest

(* The beta rulebook *)

BetaShape ==
    /\ betaStep \in [BetaProcs -> BetaSteps]
    /\ betaVersion \in [BetaProcs -> BetaVersions \union {"draft"}]
    /\ DOMAIN betaJob = BetaProcs /\ DOMAIN betaBook = BetaProcs /\ DOMAIN design = DesignFiles

\* What a process has loaded has been parsed, and only a promotion has a version.
Prepared(p) ==
    /\ DOMAIN betaBook[p] = DesignFiles
    /\ \A f \in DesignFiles : betaBook[p][f] \notin {"none", "empty"}
    /\ betaJob[p] # "promote" => betaVersion[p] = "draft"

\* A Save nothing interferes with is alone, and what it has written so far is there.
BetaAlone ==
    ~touched =>
        /\ \A p, q \in Saving : p = q
        /\ \A p \in BetaProcs :
              /\ betaStep[p] \in {"saveVocab", "saveRules"} =>
                    betaManifest = BetaManifest(betaVersion[p], IF betaJob[p] = "promote" THEN betaBook[p] ELSE ZeroBook)
              /\ betaStep[p] = "saveRules" => design["vocab"] = betaBook[p]["vocab"]

BetaInv ==
    /\ BetaShape
    /\ \A p \in BetaProcs : Prepared(p)
    /\ BetaAlone
    /\ BetaHashHolds

-------------------------------------------------------------------------------
(* What a step may do to the alpha rulebook *)

\* An interview ends.
Leave(p) == step[p] = "talk" /\ Finish(p) /\ UNCHANGED <<manifest, file, archive, faults>>

AlphaNext ==
    \/ \E p \in Procs : Perform(p) \/ Leave(p)
    \/ \E p \in Procs, what \in Jobs, v \in Versions \union {"draft"} : Begin(p, what, v)
    \/ \E text \in AlphaTexts : Overwrite(text)
    \/ UNCHANGED alphaVars

LEMMA AlphaSteps == ASSUME [Next]_vars PROVE AlphaNext
  <1>1. CASE UNCHANGED vars  BY <1>1 DEF vars, AlphaNext
  <1>2. ASSUME NEW p \in Procs, AlphaStep(p) PROVE AlphaNext  BY <1>2 DEF AlphaStep, AlphaNext
  <1>3. ASSUME NEW p \in BetaProcs, BetaStep(p) PROVE AlphaNext  BY <1>3 DEF BetaStep, AlphaNext
  <1>4. ASSUME NEW p \in Commands, AlphaCommand(p) PROVE AlphaNext
    <2>1. PICK what \in Jobs, v \in Versions \union {"draft"} : Begin(p, what, v)
      BY <1>4 DEF AlphaCommand, Jobs
    <2> QED  BY <2>1 DEF AlphaNext, Procs
  <1>5. ASSUME NEW p, BetaCommand(p) PROVE AlphaNext  BY <1>5 DEF BetaCommand, AlphaNext
  <1>6. ASSUME NEW s \in Sessions, Interview(s) \/ LeaveInterview(s) \/ WriteBlock(s) PROVE AlphaNext
    <2>1. CASE Interview(s)  BY <2>1 DEF Interview, AlphaNext
    <2>2. CASE LeaveInterview(s)
      <3>1. CASE s = Architect
        <4>1. Leave(s) /\ s \in Procs  BY <2>2, <3>1 DEF LeaveInterview, InSession, Leave, Procs
        <4> QED  BY <4>1 DEF AlphaNext
      <3>2. CASE s # Architect  BY <2>2, <3>2 DEF LeaveInterview, AlphaNext
      <3> QED  BY <3>1, <3>2
    <2>3. CASE WriteBlock(s)
      <3> DEFINE f == FileOf(s, Head(pending[s]))
      <3>1. CASE UNCHANGED alphaVars  BY <3>1 DEF AlphaNext
      <3>2. ASSUME f # Apart, s = Architect,
                   NEW text \in {t \in Texts[s] : t[1] = f} \union AlphaTorn(f), Overwrite(text)
            PROVE  AlphaNext
        <4>1. f \in {"schema", "rules", "compat", "manifest"}  BY <3>2, WorkshopAssumption DEF FileOf
        <4>2. AlphaTorn(f) \subseteq AlphaTexts
          BY <4>1 DEF AlphaTorn, AlphaTexts, Files, Contents, Manifest, Manifests, NoBook, Books
        <4>3. text \in AlphaTexts  BY <3>2, <4>2, WorkshopAssumption
        <4> QED  BY <3>2, <4>3 DEF AlphaNext
      <3> QED  BY <2>3, <3>1, <3>2 DEF WriteBlock
    <2> QED  BY <1>6, <2>1, <2>2, <2>3
  <1>7. ASSUME NEW resumed \in BOOLEAN, StartArchitect(resumed) PROVE AlphaNext
    BY <1>7 DEF StartArchitect, AlphaNext, Jobs, Procs
  <1>8. ASSUME NEW resumed \in BOOLEAN, StartDesigner(resumed) PROVE AlphaNext
    BY <1>8 DEF StartDesigner, AlphaNext
  <1>9. CASE Hand
    <2>1. CASE \E text \in Edits[Architect] : Overwrite(text)
      BY <2>1, WorkshopAssumption DEF AlphaNext
    <2>2. CASE UNCHANGED alphaVars  BY <2>2 DEF AlphaNext
    <2> QED  BY <1>9, <2>1, <2>2 DEF Hand
  <1> QED  BY <1>1, <1>2, <1>3, <1>4, <1>5, <1>6, <1>7, <1>8, <1>9 DEF Next

\* A process changes nothing of the others, and is idle with nothing in memory.
OnlyOf(p) ==
    /\ AlphaShape'
    /\ \A q \in Procs \ {p} : step'[q] = step[q] /\ version'[q] = version[q] /\ book'[q] = book[q]
    /\ step'[p] = "idle" => book'[p] = Unread

LEMMA AlphaOthers ==
    ASSUME AlphaShape, NEW p \in Procs,
           \/ Perform(p) \/ Leave(p)
           \/ \E what \in Jobs, v \in Versions \union {"draft"} : Begin(p, what, v)
    PROVE  OnlyOf(p)
  <1> USE DEF OnlyOf, AlphaShape, Steps, Step, Finish
  <1>1. CASE Load(p)  BY <1>1 DEF Load
  <1>2. CASE Sign(p) \/ SignFails(p)  BY <1>2 DEF Sign, SignFails
  <1>3. CASE Archive(p) \/ ArchiveFails(p)  BY <1>3 DEF Archive, ArchiveFails
  <1>4. CASE Check(p)  BY <1>4 DEF Check
  <1>5. CASE NewManifest(p) \/ NewCompat(p)  BY <1>5 DEF NewManifest, NewCompat
  <1>6. CASE InitFails(p)  BY <1>6 DEF InitFails
  <1>7. CASE Import(p)  BY <1>7 DEF Import, Put
  <1>8. CASE ImportRefused(p) \/ Leave(p)  BY <1>8 DEF ImportRefused, Leave
  <1>9. CASE Die(p)  BY <1>9 DEF Die
  <1>10. ASSUME NEW what \in Jobs, NEW v \in Versions \union {"draft"}, Begin(p, what, v)
         PROVE  OnlyOf(p)
    BY <1>10 DEF Begin
  <1> QED  BY <1>1, <1>2, <1>3, <1>4, <1>5, <1>6, <1>7, <1>8, <1>9, <1>10 DEF Perform

\* A book that lints is sound.
LEMMA LintIsSound == \A b : Lint(b) => Sound(b)
  BY AlphaAssumption DEF Lint, Sound, Files, DefaultCompat

\* A step of one process that leaves the manifest and the archive alone, and does not come to
\* sign, to archive or to make a manifest.
LEMMA AlphaAside ==
    ASSUME AlphaInv, NEW p \in Procs, OnlyOf(p),
           UNCHANGED <<manifest, archive>>,
           "overlap" \in faults => "overlap" \in faults',
           "manifest" \in faults => "manifest" \in faults',
           step[p] # "archive" \/ "manifest" \in faults',
           step'[p] \in {"idle", "produce", "talk"},
           CompatKept => CompatKept'
    PROVE  AlphaInv'
  <1> USE DEF OnlyOf
  <1>0. AlphaShape /\ (\A q \in Procs : BookRead(q)) /\ AlphaAlone /\ Archiving /\ ArchiveSound
        /\ ManifestMatchesArchive /\ CompatFollowsManifest
    BY DEF AlphaInv
  <1>1. \A q \in Procs : BookRead(q)'  BY <1>0 DEF BookRead
  <1>2. AlphaAlone'
    <2>1. \A q \in Busy' : q \in Busy  BY DEF Busy
    <2> QED  BY <1>0, <2>1 DEF AlphaAlone
  <1>3. Archiving'  BY <1>0 DEF Archiving
  <1>4. ArchiveSound'  BY <1>0 DEF ArchiveSound, Kept
  <1>5. ManifestMatchesArchive'  BY <1>0 DEF ManifestMatchesArchive
  <1>6. CompatFollowsManifest'  BY <1>0 DEF CompatFollowsManifest, CompatKept
  <1> QED  BY <1>1, <1>2, <1>3, <1>4, <1>5, <1>6 DEF AlphaInv

\* compat.json, once it is there, is only lost where the ghost takes note of it.
LEMMA CompatStays == ASSUME AlphaShape, AlphaNext, CompatKept PROVE CompatKept'
  <1> USE DEF OnlyOf
  <1>1. ASSUME NEW p \in Procs,
               \/ Load(p) \/ Sign(p) \/ SignFails(p) \/ Archive(p) \/ ArchiveFails(p) \/ Check(p)
               \/ NewManifest(p) \/ Import(p) \/ ImportRefused(p) \/ Leave(p)
               \/ Die(p) /\ step[p] # "newCompat"
               \/ \E what \in Jobs, v \in Versions \union {"draft"} : Begin(p, what, v)
        PROVE  CompatKept'
    <2>1. OnlyOf(p)  BY <1>1, AlphaOthers DEF Perform
    <2>2. step[p] # "newCompat" /\ ("compat" \in faults => "compat" \in faults')
      <3>1. CASE Load(p) \/ Check(p) \/ ImportRefused(p) \/ Leave(p)
        BY <3>1 DEF Load, Check, ImportRefused, Leave
      <3>2. CASE Sign(p) \/ SignFails(p)  BY <3>2 DEF Sign, SignFails, Step, Fault, Amend
      <3>3. CASE Archive(p) \/ ArchiveFails(p)  BY <3>3 DEF Archive, ArchiveFails, Fault
      <3>4. CASE NewManifest(p) \/ Import(p)  BY <3>4 DEF NewManifest, Import, Step
      <3>5. CASE Die(p) /\ step[p] # "newCompat"  BY <3>5 DEF Die, Fault
      <3>6. CASE \E what \in Jobs, v \in Versions \union {"draft"} : Begin(p, what, v)
        BY <3>6 DEF Begin, Step, Fault, Amend
      <3> QED  BY <1>1, <3>1, <3>2, <3>3, <3>4, <3>5, <3>6
    <2>3. file'["compat"] = file["compat"]
      <3>1. CASE Import(p)
        <4>1. \A what : \A new \in Imported(what) : new[1] # "compat"  BY DEF Imported
        <4> QED  BY <3>1, <4>1 DEF Import, Put, AlphaShape, Files
      <3>2. CASE ~Import(p)
        BY <1>1, <3>2
        DEF Load, Sign, SignFails, Archive, ArchiveFails, Check, NewManifest, ImportRefused, Leave, Die, Begin
      <3> QED  BY <3>1, <3>2
    <2> QED  BY <2>1, <2>2, <2>3 DEF CompatKept
  <1>2. ASSUME NEW p \in Procs, NewCompat(p) PROVE CompatKept'
    BY <1>2 DEF NewCompat, CompatKept, SoundCompat, AlphaShape, Files
  <1>3. ASSUME NEW p \in Procs, InitFails(p) \/ (Die(p) /\ step[p] = "newCompat") PROVE CompatKept'
    BY <1>3 DEF InitFails, Die, Fault, CompatKept
  <1>4. ASSUME NEW text \in AlphaTexts, Overwrite(text) PROVE CompatKept'
    <2>1. CASE OverwriteManifest(text[2])  BY <2>1 DEF OverwriteManifest, CompatKept
    <2>2. CASE OverwriteFile(text[1], text[2]) /\ text[1] # "compat"
      BY <2>2 DEF OverwriteFile, CompatKept, SoundCompat
    <2>3. CASE OverwriteFile(text[1], text[2]) /\ text[1] = "compat"
      BY <2>3 DEF OverwriteFile, CompatKept, Fault, AlphaShape, Files
    <2> QED  BY <1>4, <2>1, <2>2, <2>3 DEF Overwrite
  <1>5. CASE UNCHANGED alphaVars  BY <1>5 DEF alphaVars, CompatKept
  <1> QED  BY <1>1, <1>2, <1>3, <1>4, <1>5 DEF AlphaNext, Perform

LEMMA AlphaKeeps == ASSUME AlphaInv, AlphaNext PROVE AlphaInv'
  <1> USE DEF OnlyOf
  <1>0. AlphaShape /\ (\A q \in Procs : BookRead(q)) /\ AlphaAlone /\ Archiving /\ ArchiveSound
        /\ ManifestMatchesArchive /\ CompatFollowsManifest
    BY DEF AlphaInv
  <1>K. CompatKept => CompatKept'  BY <1>0, CompatStays
  <1>M. CompatKept' \/ manifest'.version = "absent" => CompatFollowsManifest'
    BY DEF CompatFollowsManifest, CompatKept
  <1>N. UNCHANGED manifest => CompatFollowsManifest'
    BY <1>0, <1>K DEF CompatFollowsManifest, CompatKept
  <1>1. ASSUME NEW p \in Procs, ImportRefused(p) \/ Leave(p) \/ Die(p) \/ Import(p) \/ NewCompat(p)
        PROVE  AlphaInv'
    <2>1. OnlyOf(p)
      BY <1>0, <1>1, AlphaOthers DEF Perform
    <2>2. /\ UNCHANGED <<manifest, archive>>
          /\ "overlap" \in faults => "overlap" \in faults'
          /\ "manifest" \in faults => "manifest" \in faults'
          /\ step[p] = "archive" => "manifest" \in faults'
      BY <1>1 DEF ImportRefused, Leave, Die, Import, NewCompat, Step, Fault, Amend
    <2>3. step'[p] \in {"idle", "produce", "talk"}
      BY <1>0, <1>1 DEF ImportRefused, Leave, Die, Import, NewCompat, Step, Finish, AlphaShape
    <2> QED  BY <1>K, <2>1, <2>2, <2>3, AlphaAside
  <1>2. ASSUME NEW p \in Procs, Load(p) PROVE AlphaInv'
    <2>1. OnlyOf(p)
      BY <1>0, <1>2, AlphaOthers DEF Perform
    <2>2. UNCHANGED <<manifest, archive, file, faults>> /\ step[p] = "load"  BY <1>2 DEF Load
    <2>3. CompatFollowsManifest'  BY <1>N, <2>2
    <2>4. CASE step'[p] = "idle"  BY <1>K, <2>1, <2>2, <2>4, AlphaAside
    <2>5. CASE step'[p] # "idle"
      <3>1. PICK i \in 1..Len(Order) :
              LET loaded == [book[p] EXCEPT ![Order[i]] = file[Order[i]]]
              IN  /\ \A j \in 1..Len(Order) : book[p][Order[j]] = "unread" <=> j >= i
                  /\ i = 1 => manifest.version # "absent"
                  /\ i = Len(Order) => Lint(loaded)
                  /\ book' = [book EXCEPT ![p] = loaded]
                  /\ step' = [step EXCEPT ![p] = IF i = Len(Order) THEN "sign" ELSE "load"]
        BY <1>0, <1>2, <2>5 DEF Load, Finish, Step, AlphaShape
      <3>2. Order[1] = "compat" /\ Len(Order) = 5  BY DEF Order
      <3>3. CompatKept'
        <4>1. CASE i = 1
          <5>1. CompatKept  BY <1>0, <3>1, <4>1 DEF CompatFollowsManifest, CompatKept
          <5> QED  BY <1>K, <5>1
        <4>2. CASE i # 1
          <5>1. book[p]["compat"] # "unread"  BY <3>1, <3>2, <4>2
          <5> QED  BY <1>0, <1>K, <2>2, <5>1 DEF BookRead
        <4> QED  BY <4>1, <4>2
      <3>4. step'[p] \in {"sign", "load"} /\ (step'[p] = "sign" => Lint(book'[p]))
        BY <1>0, <3>1 DEF AlphaShape
      <3>5. \A q \in Procs : BookRead(q)'  BY <1>0, <2>1, <2>2, <3>3, <3>4 DEF BookRead
      <3>6. Busy' = Busy  BY <2>1, <2>2, <3>4 DEF Busy
      <3>7. AlphaAlone' /\ Archiving'  BY <1>0, <2>1, <2>2, <3>4, <3>6 DEF AlphaAlone, Archiving
      <3>8. ArchiveSound' /\ ManifestMatchesArchive'
        BY <1>0, <2>1, <2>2, <3>4 DEF ArchiveSound, ManifestMatchesArchive, Kept
      <3> QED  BY <2>1, <2>3, <3>5, <3>7, <3>8 DEF AlphaInv
    <2> QED  BY <2>4, <2>5
  <1>3. ASSUME NEW p \in Procs, Check(p) PROVE AlphaInv'
    <2>1. OnlyOf(p)
      BY <1>0, <1>3, AlphaOthers DEF Perform
    <2>2. UNCHANGED <<manifest, archive, file, faults>> /\ step[p] = "check" /\ p \in Busy
      BY <1>3 DEF Check, Busy
    <2>3. CompatFollowsManifest'  BY <1>N, <2>2
    <2>4. step'[p] \in {"idle", "produce", "talk"} \/ (step'[p] = "newManifest" /\ manifest.version = "absent")
      BY <1>0, <1>3 DEF Check, Finish, Step, AlphaShape
    <2>5. CASE step'[p] \in {"idle", "produce", "talk"}  BY <1>K, <2>1, <2>2, <2>5, AlphaAside
    <2>6. CASE step'[p] = "newManifest" /\ manifest.version = "absent"
      <3>1. \A q \in Procs : BookRead(q)'  BY <1>0, <1>K, <2>1, <2>2, <2>6 DEF BookRead
      <3>2. Busy' = Busy  BY <2>1, <2>2, <2>6 DEF Busy
      <3>3. AlphaAlone' /\ Archiving'
        BY <1>0, <2>1, <2>2, <2>6, <3>2 DEF AlphaAlone, Archiving
      <3>4. ArchiveSound' /\ ManifestMatchesArchive'
        BY <1>0, <2>1, <2>2, <2>6 DEF ArchiveSound, ManifestMatchesArchive, Kept
      <3> QED  BY <2>1, <2>3, <3>1, <3>3, <3>4 DEF AlphaInv
    <2> QED  BY <2>4, <2>5, <2>6
  <1>4. ASSUME NEW p \in Procs, NewManifest(p) \/ InitFails(p) PROVE AlphaInv'
    <2>1. OnlyOf(p)
      BY <1>0, <1>4, AlphaOthers DEF Perform
    <2>2. /\ UNCHANGED archive /\ step[p] \in {"newManifest", "newCompat"} /\ p \in Busy
          /\ "overlap" \in faults => "overlap" \in faults'
          /\ "manifest" \in faults => "manifest" \in faults'
      BY <1>4 DEF NewManifest, InitFails, Step, Fault, Busy
    <2>3. step'[p] = "newCompat" \/ (step'[p] = "idle" /\ "compat" \in faults')
      BY <1>0, <1>4 DEF NewManifest, InitFails, Step, Finish, Fault, AlphaShape
    <2>4. manifest' = manifest \/ manifest'.version \in {"draft", "garbage"}
      BY <1>4 DEF NewManifest, InitFails, Manifest
    <2>5. CompatKept'  BY <2>1, <2>3 DEF CompatKept
    <2>6. \A q \in Procs : BookRead(q)'  BY <1>0, <2>1, <2>2, <2>3, <2>5 DEF BookRead
    <2>7. AlphaAlone'
      <3>1. \A q \in Busy' : q \in Busy  BY <2>1, <2>2 DEF Busy
      <3>2. \A q \in Procs : step'[q] = "newManifest" => q \in Busy /\ q # p
        BY <2>1, <2>3 DEF Busy
      <3> QED  BY <1>0, <2>2, <3>1, <3>2 DEF AlphaAlone
    <2>8. Archiving'  BY <1>0, <2>1, <2>2, <2>3, <2>4, AlphaAssumption DEF Archiving
    <2>9. ArchiveSound'  BY <1>0, <2>2 DEF ArchiveSound, Kept
    <2>10. ManifestMatchesArchive'
      BY <1>0, <2>1, <2>2, <2>4, AlphaAssumption DEF ManifestMatchesArchive
    <2> QED  BY <1>M, <2>1, <2>5, <2>6, <2>7, <2>8, <2>9, <2>10 DEF AlphaInv
  <1>5. ASSUME NEW p \in Procs, Sign(p) \/ SignFails(p) PROVE AlphaInv'
    <2>1. OnlyOf(p)
      BY <1>0, <1>5, AlphaOthers DEF Perform
    <2>2. UNCHANGED <<archive, file>> /\ step[p] = "sign" /\ p \in Busy /\ CompatKept /\ Lint(book[p])
          /\ version[p] \in Versions \union {"draft"}
          /\ ("overlap" \in faults => "overlap" \in faults')
      BY <1>0, <1>5 DEF Sign, SignFails, Step, Busy, BookRead, AlphaShape, Fault, Amend
    <2>3. \/ /\ step'[p] = "archive" /\ manifest' = Manifest(version[p], book[p])
             /\ version'[p] = version[p] /\ book'[p] = book[p]
             /\ "manifest" \notin faults' => \A q \in Procs : step[q] # "archive"
          \/ /\ step'[p] = "idle" /\ (manifest' = manifest \/ manifest'.version = "garbage")
             /\ faults' = faults
      BY <1>0, <1>5 DEF Sign, SignFails, Step, Finish, Fault, AlphaShape, Manifest
    <2>4. CompatKept'  BY <1>K, <2>2
    <2>5. \A q \in Procs : BookRead(q)'  BY <1>0, <2>1, <2>2, <2>3, <2>4 DEF BookRead
    <2>6. AlphaAlone'
      <3>1. \A q \in Busy' : q \in Busy  BY <2>1, <2>2 DEF Busy
      <3>2. \A q \in Procs : step'[q] = "newManifest" => q \in Busy /\ q # p
        BY <2>1, <2>3 DEF Busy
      <3> QED  BY <1>0, <2>2, <3>1, <3>2 DEF AlphaAlone
    <2>7. Archiving'
      <3>1. CASE step'[p] = "archive"  BY <2>1, <2>3, <3>1 DEF Archiving
      <3>2. CASE step'[p] # "archive"
        BY <1>0, <2>1, <2>2, <2>3, <3>2, AlphaAssumption DEF Archiving
      <3> QED  BY <3>1, <3>2
    <2>8. ArchiveSound'  BY <1>0, <2>2 DEF ArchiveSound, Kept
    <2>9. ManifestMatchesArchive'
      <3>1. CASE step'[p] = "archive"  BY <3>1 DEF ManifestMatchesArchive
      <3>2. CASE step'[p] # "archive"
        <4>1. (manifest' = manifest \/ manifest'.version = "garbage") /\ faults' = faults  BY <2>3, <3>2
        <4> QED  BY <1>0, <2>1, <2>2, <4>1, AlphaAssumption DEF ManifestMatchesArchive
      <3> QED  BY <3>1, <3>2
    <2> QED  BY <1>M, <2>1, <2>4, <2>5, <2>6, <2>7, <2>8, <2>9 DEF AlphaInv
  <1>6. ASSUME NEW p \in Procs, Archive(p) \/ ArchiveFails(p) PROVE AlphaInv'
    <2>1. OnlyOf(p)
      BY <1>0, <1>6, AlphaOthers DEF Perform
    <2>2. UNCHANGED <<manifest, file>> /\ step[p] = "archive" /\ step'[p] = "idle" /\ faults \subseteq faults'
          /\ p \in Busy /\ Lint(book[p])
      BY <1>0, <1>6 DEF Archive, ArchiveFails, Finish, Fault, Busy, BookRead, AlphaShape
    <2>3. \/ archive' = archive /\ "manifest" \in faults'
          \/ /\ version[p] \in Versions /\ "manifest" \in faults'
             /\ archive' = [archive EXCEPT ![version[p]] = [manifest |-> Manifest("garbage", NoBook), book |-> NoBook]]
          \/ /\ version[p] \in Versions
             /\ archive' = [archive EXCEPT ![version[p]] = Bundle(p)]
      BY <1>0, <1>6 DEF Archive, ArchiveFails, Fault, AlphaShape
    <2>4. CompatFollowsManifest'  BY <1>N, <2>2
    <2>5. \A q \in Procs : BookRead(q)'  BY <1>0, <1>K, <2>1, <2>2 DEF BookRead
    <2>6. AlphaAlone' /\ Archiving'
      <3>1. \A q \in Busy' : q \in Busy  BY <2>1, <2>2 DEF Busy
      <3> QED  BY <1>0, <2>1, <2>2, <3>1 DEF AlphaAlone, Archiving
    <2>7. ArchiveSound'
      <3> SUFFICES ASSUME NEW v \in Versions, archive'[v].manifest.version \notin {"absent", "garbage"}
                   PROVE  archive'[v].manifest = Manifest(v, archive'[v].book) /\ Sound(archive'[v].book)
        BY DEF ArchiveSound, Kept, Sound
      <3>1. CASE archive'[v] = archive[v]  BY <1>0, <3>1 DEF ArchiveSound, Kept
      <3>2. CASE archive'[v] # archive[v]
        <4>1. v = version[p] /\ (archive'[v] = [manifest |-> Manifest("garbage", NoBook), book |-> NoBook]
                                \/ archive'[v] = Bundle(p))
          BY <1>0, <2>3, <3>2 DEF AlphaShape
        <4>2. archive'[v] = [manifest |-> Manifest(v, book[p]), book |-> book[p]]
          BY <4>1 DEF Manifest, Bundle
        <4>3. Sound(book[p])  BY <2>2, LintIsSound
        <4> QED  BY <4>2, <4>3
      <3> QED  BY <3>1, <3>2
    <2>8. ManifestMatchesArchive'
      <3> SUFFICES ASSUME "manifest" \notin faults', manifest.version \in Versions
                   PROVE  archive'[manifest.version].manifest = manifest
        BY <2>2 DEF ManifestMatchesArchive
      <3>1. manifest = Manifest(version[p], book[p])  BY <1>0, <2>2 DEF Archiving
      <3>2. version[p] = manifest.version  BY <3>1 DEF Manifest
      <3>3. archive'[manifest.version] = Bundle(p)  BY <1>0, <2>3, <3>2 DEF AlphaShape
      <3> QED  BY <3>1, <3>3 DEF Bundle
    <2> QED  BY <2>1, <2>4, <2>5, <2>6, <2>7, <2>8 DEF AlphaInv
  <1>7. ASSUME NEW p \in Procs, NEW what \in Jobs, NEW v \in Versions \union {"draft"}, Begin(p, what, v)
        PROVE  AlphaInv'
    <2>1. OnlyOf(p)
      BY <1>0, <1>7, AlphaOthers
    <2>2. UNCHANGED <<manifest, archive, file, book>> /\ step[p] = "idle"
          /\ (Busy # {} => "overlap" \in faults')
          /\ ("manifest" \in faults => "manifest" \in faults')
      BY <1>7 DEF Begin, Step, Fault, Amend
    <2>3. step'[p] \in {"load", "check"}  BY <1>0, <1>7 DEF Begin, Step, AlphaShape
    <2>4. book[p]["compat"] = "unread"
      BY <1>0, <2>2 DEF BookRead, Unread, Files
    <2>5. \A q \in Procs : BookRead(q)'  BY <1>0, <1>K, <2>1, <2>2, <2>3, <2>4 DEF BookRead
    <2>6. AlphaAlone'
      <3>1. \A q \in Busy' : q = p \/ q \in Busy  BY <2>1 DEF Busy
      <3>2. \A q \in Procs : step'[q] = "newManifest" => q \in Busy  BY <2>1, <2>3 DEF Busy
      <3> QED  BY <2>2, <3>1, <3>2 DEF AlphaAlone
    <2>7. Archiving'  BY <1>0, <2>1, <2>2, <2>3 DEF Archiving
    <2>8. ArchiveSound' /\ ManifestMatchesArchive'
      BY <1>0, <2>1, <2>2, <2>3 DEF ArchiveSound, Kept, ManifestMatchesArchive
    <2> QED  BY <1>N, <2>1, <2>2, <2>5, <2>6, <2>7, <2>8 DEF AlphaInv
  <1>8. ASSUME NEW text \in AlphaTexts, Overwrite(text) PROVE AlphaInv'
    <2>1. UNCHANGED <<archive, step, version, book>> /\ DOMAIN file' = DOMAIN file
      BY <1>8 DEF Overwrite, OverwriteFile, OverwriteManifest
    <2>2. AlphaShape' /\ Busy' = Busy  BY <1>0, <2>1 DEF AlphaShape, Busy
    <2>3. \A q \in Procs : BookRead(q)'  BY <1>0, <1>K, <2>1 DEF BookRead
    <2>4. ArchiveSound'  BY <1>0, <2>1 DEF ArchiveSound, Kept
    <2>5. CASE OverwriteFile(text[1], text[2])
      <3>1. UNCHANGED manifest /\ ("overlap" \in faults => "overlap" \in faults')
            /\ ("manifest" \in faults => "manifest" \in faults')
        BY <2>5 DEF OverwriteFile, Fault, Amend
      <3>2. AlphaAlone' /\ Archiving' /\ ManifestMatchesArchive'
        BY <1>0, <2>1, <2>2, <3>1 DEF AlphaAlone, Archiving, ManifestMatchesArchive
      <3> QED  BY <1>N, <2>2, <2>3, <2>4, <3>1, <3>2 DEF AlphaInv
    <2>6. CASE OverwriteManifest(text[2])
      <3>1. /\ "manifest" \in faults' /\ faults \subseteq faults'
            /\ Busy # {} => "overlap" \in faults'
            /\ CompatKept'
        BY <2>6 DEF OverwriteManifest, CompatKept
      <3>2. AlphaAlone'  BY <2>2, <3>1 DEF AlphaAlone, Busy
      <3>3. Archiving' /\ ManifestMatchesArchive'  BY <3>1 DEF Archiving, ManifestMatchesArchive
      <3> QED  BY <1>M, <2>2, <2>3, <2>4, <3>1, <3>2, <3>3 DEF AlphaInv
    <2> QED  BY <1>8, <2>5, <2>6 DEF Overwrite
  <1>9. CASE UNCHANGED alphaVars
    <2>1. UNCHANGED <<manifest, file, archive, step, job, version, book, faults>>  BY <1>9 DEF alphaVars
    <2>2. AlphaShape' /\ Busy' = Busy  BY <1>0, <2>1 DEF AlphaShape, Busy
    <2>3. \A q \in Procs : BookRead(q)'  BY <1>0, <1>K, <2>1 DEF BookRead
    <2>4. AlphaAlone' /\ Archiving'  BY <1>0, <2>1, <2>2 DEF AlphaAlone, Archiving
    <2>5. ArchiveSound' /\ ManifestMatchesArchive'
      BY <1>0, <2>1 DEF ArchiveSound, Kept, ManifestMatchesArchive
    <2> QED  BY <1>N, <2>1, <2>2, <2>3, <2>4, <2>5 DEF AlphaInv
  <1> QED  BY <1>1, <1>2, <1>3, <1>4, <1>5, <1>6, <1>7, <1>8, <1>9 DEF AlphaNext, Perform

LEMMA AlphaStart == ASSUME Init PROVE AlphaInv
  <1>1. AlphaShape  BY DEF Init, AlphaInit, AlphaShape, Steps, NoBook
  <1>2. /\ \A p \in Procs : step[p] = "idle" /\ book[p] = Unread
        /\ manifest.version = "absent"
        /\ \A v \in Versions : archive[v].manifest.version = "absent"
    BY DEF Init, AlphaInit, Manifest
  <1>3. Busy = {}  BY <1>2 DEF Busy
  <1> QED
    BY <1>1, <1>2, <1>3, AlphaAssumption
    DEF AlphaInv, BookRead, AlphaAlone, Archiving, ArchiveSound, Kept, ManifestMatchesArchive, CompatFollowsManifest

LEMMA AlphaAlways == Spec => []AlphaInv
  <1>1. AlphaInv /\ [Next]_vars => AlphaInv'  BY AlphaSteps, AlphaKeeps
  <1> QED  BY AlphaStart, <1>1, PTL DEF Spec

\* A bundle under versions/ is whole, whatever happens beside and during its promotion.
THEOREM ArchivesAreSound == Spec => []ArchiveSound
  <1>1. AlphaInv => ArchiveSound  BY DEF AlphaInv
  <1> QED  BY <1>1, AlphaAlways, PTL

\* A step that neither writes the archive, nor brings a process to archive or takes it from there.
LEMMA ArchiveAside ==
    ASSUME UNCHANGED archive,
           \A p \in Procs : step[p] = "archive" \/ step'[p] = "archive" =>
              step'[p] = step[p] /\ version'[p] = version[p] /\ book'[p] = book[p]
    PROVE  UNCHANGED <<Shelves, Signatures>>
  <1>1. \A v \in Versions : Shelved(v)' = Shelved(v)  BY DEF Shelved
  <1>2. \A p \in Procs : Signed(p)' = Signed(p)  BY DEF Signed
  <1> QED  BY <1>1, <1>2 DEF Shelves, Signatures

LEMMA ArchiveSteps ==
    ASSUME AlphaInv, AlphaNext
    PROVE  TheArchive!Next \/ UNCHANGED <<Shelves, Signatures>>
  <1> USE DEF OnlyOf
  <1>0. AlphaShape /\ \A q \in Procs : BookRead(q)  BY DEF AlphaInv
  <1>1. ASSUME NEW p \in Procs, Sign(p), version[p] # "draft" PROVE TheArchive!Sign(p, version[p])
    <2>1. OnlyOf(p)  BY <1>0, <1>1, AlphaOthers DEF Perform
    <2>2. /\ step[p] = "sign" /\ step'[p] = "archive" /\ UNCHANGED <<archive, version, book>>
          /\ version[p] \in Versions /\ Sound(book[p])
      BY <1>0, <1>1, LintIsSound DEF Sign, Step, AlphaShape, BookRead
    <2>3. Signed(p) = [version |-> "draft", book |-> NoBook]  BY <2>2 DEF Signed
    <2>4. Signed(p)' = [version |-> version[p], book |-> book[p]]  BY <2>2 DEF Signed
    <2>5. \A q \in Procs \ {p} : Signed(q)' = Signed(q)  BY <2>1 DEF Signed
    <2>6. Signatures' = [Signatures EXCEPT ![p] = [version |-> version[p], book |-> book[p]]]
      BY <2>4, <2>5 DEF Signatures
    <2>7. Signatures[p] = [version |-> "draft", book |-> NoBook]
          /\ Signatures'[p] = [version |-> version[p], book |-> book[p]]
      BY <2>3, <2>4 DEF Signatures
    <2>8. Shelves' = Shelves  BY <2>2 DEF Shelves, Shelved
    <2>9. Sound(Signatures'[p].book) /\ Signatures'[p].book = book[p]  BY <2>2, <2>7
    <2> QED
      BY <2>6, <2>7, <2>8, <2>9
      DEF TheArchive!Sign, TheArchive!Signature, TheArchive!Nothing
  <1>2. ASSUME NEW p \in Procs, Archive(p) \/ ArchiveFails(p) \/ Die(p),
               step[p] = "archive", version[p] # "draft"
        PROVE  TheArchive!End(p)
    <2>1. OnlyOf(p)  BY <1>0, <1>2, AlphaOthers DEF Perform
    <2>2. step'[p] = "idle" /\ version[p] \in Versions
      BY <1>0, <1>2 DEF Archive, ArchiveFails, Die, Finish, AlphaShape
    <2>3. Signed(p) = [version |-> version[p], book |-> book[p]]  BY <1>2, <2>2 DEF Signed
    <2>4. Signed(p)' = [version |-> "draft", book |-> NoBook]  BY <2>2 DEF Signed
    <2>5. \A q \in Procs \ {p} : Signed(q)' = Signed(q)  BY <2>1 DEF Signed
    <2>6. Signatures' = [Signatures EXCEPT ![p] = [version |-> "draft", book |-> NoBook]]
      BY <2>4, <2>5 DEF Signatures
    <2>7. Signatures[p] = [version |-> version[p], book |-> book[p]]  BY <2>3 DEF Signatures
    <2>8. \/ UNCHANGED archive
          \/ archive' = [archive EXCEPT ![version[p]] = [manifest |-> Manifest("garbage", NoBook), book |-> NoBook]]
          \/ archive' = [archive EXCEPT ![version[p]] = Bundle(p)]
      BY <1>2 DEF Archive, ArchiveFails, Die
    <2>9. \/ UNCHANGED Shelves
          \/ Shelves' = [Shelves EXCEPT ![version[p]] = [state |-> "torn", book |-> NoBook]]
          \/ Shelves' = [Shelves EXCEPT ![version[p]] = [state |-> "kept", book |-> book[p]]]
      <3>1. CASE UNCHANGED archive  BY <3>1 DEF Shelves, Shelved
      <3> PICK v \in Versions : v = version[p]  BY <2>2
      <3>2. ASSUME NEW bundle, archive' = [archive EXCEPT ![v] = bundle]
            PROVE  archive'[v] = bundle /\ Shelves' = [Shelves EXCEPT ![v] = Shelved(v)']
        <4>1. archive'[v] = bundle /\ \A w \in Versions \ {v} : archive'[w] = archive[w]
          BY <1>0, <3>2 DEF AlphaShape
        <4>2. \A w \in Versions \ {v} : Shelved(w)' = Shelved(w)  BY <4>1 DEF Shelved
        <4> QED  BY <4>1, <4>2 DEF Shelves
      <3>3. CASE archive' = [archive EXCEPT ![version[p]] = [manifest |-> Manifest("garbage", NoBook), book |-> NoBook]]
        <4>1. archive'[v] = [manifest |-> Manifest("garbage", NoBook), book |-> NoBook]  BY <3>2, <3>3
        <4>2. Shelved(v)' = [state |-> "torn", book |-> NoBook]
          BY <4>1, AlphaAssumption DEF Shelved, Manifest
        <4> QED  BY <3>2, <3>3, <4>2
      <3>4. CASE archive' = [archive EXCEPT ![version[p]] = Bundle(p)]
        <4>1. archive'[v] = Bundle(p)  BY <3>2, <3>4
        <4>2. Shelved(v)' = [state |-> "kept", book |-> book[p]]
          BY <4>1, AlphaAssumption DEF Shelved, Bundle, Manifest
        <4> QED  BY <3>2, <3>4, <4>2
      <3> QED  BY <2>8, <3>1, <3>3, <3>4
    <2> QED
      BY <2>2, <2>6, <2>7, <2>9
      DEF TheArchive!End, TheArchive!Signature, TheArchive!Nothing, TheArchive!Kept, TheArchive!Torn
  <1>3. ASSUME NEW p \in Procs, Sign(p) \/ Archive(p) \/ ArchiveFails(p) \/ Die(p),
               step[p] # "archive" \/ version[p] = "draft", ~Sign(p) \/ version[p] = "draft"
        PROVE  UNCHANGED <<Shelves, Signatures>>
    <2>1. OnlyOf(p)  BY <1>0, <1>3, AlphaOthers DEF Perform
    <2>2. UNCHANGED archive  BY <1>3 DEF Sign, Archive, ArchiveFails, Die
    <2>3. version'[p] = "draft" \/ step'[p] = "idle"
      BY <1>0, <1>3 DEF Sign, Archive, ArchiveFails, Die, Finish, AlphaShape
    <2>4. Signed(p) = [version |-> "draft", book |-> NoBook]  BY <1>3, AlphaAssumption DEF Signed
    <2>5. Signed(p)' = [version |-> "draft", book |-> NoBook]  BY <2>3, AlphaAssumption DEF Signed
    <2>6. \A q \in Procs : Signed(q)' = Signed(q)
      <3>1. ASSUME NEW q \in Procs \ {p} PROVE Signed(q)' = Signed(q)  BY <2>1 DEF Signed
      <3> QED  BY <2>4, <2>5, <3>1
    <2>7. \A v \in Versions : Shelved(v)' = Shelved(v)  BY <2>2 DEF Shelved
    <2> QED  BY <2>6, <2>7 DEF Shelves, Signatures
  <1>4. ASSUME NEW p \in Procs,
               \/ Load(p) \/ SignFails(p) \/ Check(p) \/ NewManifest(p) \/ NewCompat(p) \/ InitFails(p)
               \/ Import(p) \/ ImportRefused(p) \/ Leave(p)
               \/ \E what \in Jobs, v \in Versions \union {"draft"} : Begin(p, what, v)
        PROVE  UNCHANGED <<Shelves, Signatures>>
    <2>1. OnlyOf(p)  BY <1>0, <1>4, AlphaOthers DEF Perform
    <2>2. UNCHANGED archive /\ step[p] # "archive" /\ step'[p] # "archive"
      <3> USE <1>0 DEF Step, Finish, AlphaShape
      <3>1. CASE Load(p)  BY <3>1 DEF Load
      <3>2. CASE SignFails(p) \/ NewManifest(p) \/ NewCompat(p)  BY <3>2 DEF SignFails, NewManifest, NewCompat
      <3>3. CASE Check(p) \/ InitFails(p)  BY <3>3 DEF Check, InitFails
      <3>4. CASE Import(p) \/ ImportRefused(p) \/ Leave(p)  BY <3>4 DEF Import, ImportRefused, Leave
      <3>5. CASE \E what \in Jobs, v \in Versions \union {"draft"} : Begin(p, what, v)  BY <3>5 DEF Begin
      <3> QED  BY <1>4, <3>1, <3>2, <3>3, <3>4, <3>5
    <2> QED  BY <2>1, <2>2, ArchiveAside
  <1>5. ASSUME NEW text \in AlphaTexts, Overwrite(text) PROVE UNCHANGED <<Shelves, Signatures>>
    BY <1>5, ArchiveAside DEF Overwrite, OverwriteFile, OverwriteManifest
  <1>6. CASE UNCHANGED alphaVars  BY <1>6, ArchiveAside DEF alphaVars
  <1>7. ASSUME NEW p \in Procs, Perform(p)
        PROVE  TheArchive!End(p) \/ (\E v \in Versions : TheArchive!Sign(p, v)) \/ UNCHANGED <<Shelves, Signatures>>
    <2>1. CASE Sign(p) /\ version[p] # "draft"
      BY <1>0, <1>1, <2>1 DEF AlphaShape
    <2>2. CASE (Archive(p) \/ ArchiveFails(p) \/ Die(p)) /\ step[p] = "archive" /\ version[p] # "draft"
      BY <1>2, <2>2
    <2>3. CASE /\ Sign(p) \/ Archive(p) \/ ArchiveFails(p) \/ Die(p)
               /\ step[p] # "archive" \/ version[p] = "draft"
               /\ ~Sign(p) \/ version[p] = "draft"
      BY <1>3, <2>3
    <2>4. Sign(p) => step[p] # "archive"  BY DEF Sign, Step
    <2> QED  BY <1>4, <1>7, <2>1, <2>2, <2>3, <2>4 DEF Perform
  <1> QED  BY <1>4, <1>5, <1>6, <1>7 DEF AlphaNext, TheArchive!Next

\* The archive of the rulebook implements RulebookArchive: a version changes only by a promotion
\* to it, to the book that one linted and signed or to a torn bundle, and is never empty again.
THEOREM ArchivesKeep == Spec => ArchiveSpec
  <1>1. Init => TheArchive!Init
    <2> SUFFICES ASSUME Init PROVE TheArchive!Init  OBVIOUS
    <2>1. \A v \in Versions : Shelved(v) = [state |-> "empty", book |-> NoBook]
      BY AlphaAssumption DEF Init, AlphaInit, Shelved, Manifest
    <2>2. \A p \in Procs : Signed(p) = [version |-> "draft", book |-> NoBook]
      BY DEF Init, AlphaInit, Signed
    <2> QED
      BY <2>1, <2>2
      DEF TheArchive!Init, TheArchive!Empty, TheArchive!Nothing, TheArchive!Signature, Shelves, Signatures
  <1>2. AlphaInv /\ [Next]_vars => [TheArchive!Next]_<<Shelves, Signatures>>  BY AlphaSteps, ArchiveSteps
  <1> QED  BY <1>1, <1>2, AlphaAlways, PTL DEF Spec, ArchiveSpec, TheArchive!Spec

\* The version the manifest shows is in the archive with the manifest's hash, if its promotion
\* was the only one between manifest and bundle and went through, and nothing has written the
\* manifest since: whatever else is written, begins, fails or dies.
THEOREM PromotedIsArchived == Spec => []ManifestMatchesArchive
  <1>1. AlphaInv => ManifestMatchesArchive  BY DEF AlphaInv
  <1> QED  BY <1>1, AlphaAlways, PTL

\* A rulebook with a manifest has a sound compat.json, unless the last to take that in hand, an
\* Init, a block, the user or who made the manifest, left it missing or broken.
THEOREM CompatIsThere == Spec => []CompatFollowsManifest
  <1>1. AlphaInv => CompatFollowsManifest  BY DEF AlphaInv
  <1> QED  BY <1>1, AlphaAlways, PTL

\* No step of a command or a session turns a promoted rulebook into a draft, but where one has
\* begun beside another or beside a hand on the manifest, or promotes to the empty version.
THEOREM PromotedIsNoDraft == Spec => PromotedStays
  <1>1. ASSUME AlphaInv, [Next]_vars, manifest.version \in Versions, manifest'.version = "draft", step' # step
        PROVE  "overlap" \in faults \/ \E p \in Procs : step[p] = "sign" /\ version[p] = "draft"
    <2>0. manifest'.version # manifest.version  BY <1>1, AlphaAssumption
    <2>1. AlphaNext  BY <1>1, AlphaSteps
    <2>2. PICK p \in Procs : NewManifest(p) \/ InitFails(p) \/ Sign(p) \/ SignFails(p)
      BY <1>1, <2>0, <2>1
      DEF AlphaNext, Perform, Leave, Overwrite, OverwriteFile, OverwriteManifest, alphaVars, Begin, Load,
          Archive, ArchiveFails, Check, NewCompat, Import, ImportRefused, Die
    <2>3. CASE Sign(p)  BY <1>1, <2>3 DEF Sign, Step, Manifest
    <2>4. CASE SignFails(p)  BY <1>1, <2>0, <2>4 DEF SignFails, Manifest
    <2>5. CASE InitFails(p)  BY <1>1, <2>0, <2>5 DEF InitFails, Manifest
    <2>6. CASE NewManifest(p)
      <3>1. manifest.version # "absent"  BY <1>1, AlphaAssumption
      <3> QED  BY <1>1, <2>6, <3>1 DEF NewManifest, Step, AlphaInv, AlphaAlone
    <2> QED  BY <2>2, <2>3, <2>4, <2>5, <2>6
  <1>2. AlphaInv /\ [Next]_vars
        => [manifest.version \in Versions /\ manifest'.version = "draft" /\ step' # step =>
              \/ "overlap" \in faults
              \/ \E p \in Procs : step[p] = "sign" /\ version[p] = "draft"]_vars
    BY <1>1
  <1> QED  BY <1>2, AlphaAlways, PTL DEF Spec, PromotedStays

-------------------------------------------------------------------------------
(* What a step may do to the beta rulebook *)

\* An interview ends.
BetaLeave(p) == betaStep[p] = "talk" /\ BetaFinish(p) /\ UNCHANGED <<betaManifest, design, touched>>

BetaNext ==
    \/ \E p \in BetaProcs : BetaPerform(p) \/ BetaLeave(p)
    \/ \E p \in BetaProcs, what \in BetaJobs, v \in BetaVersions \union {"draft"} :
          (what # "promote" => v = "draft") /\ BetaBegin(p, what, v)
    \/ \E text : OverwriteDesign(text)
    \/ UNCHANGED betaVars

LEMMA BetaMoves == ASSUME [Next]_vars PROVE BetaNext
  <1>1. CASE UNCHANGED vars  BY <1>1 DEF vars, BetaNext
  <1>2. ASSUME NEW p \in Procs, AlphaStep(p) PROVE BetaNext  BY <1>2 DEF AlphaStep, BetaNext
  <1>3. ASSUME NEW p \in BetaProcs, BetaStep(p) PROVE BetaNext  BY <1>3 DEF BetaStep, BetaNext
  <1>4. ASSUME NEW p, AlphaCommand(p) PROVE BetaNext  BY <1>4 DEF AlphaCommand, BetaNext
  <1>5. ASSUME NEW p \in BetaCommands, BetaCommand(p) PROVE BetaNext
    <2>1. PICK what \in BetaJobs, v \in BetaVersions \union {"draft"} :
            (what # "promote" => v = "draft") /\ BetaBegin(p, what, v)
      BY <1>5 DEF BetaCommand, BetaJobs
    <2> QED  BY <2>1 DEF BetaNext, BetaProcs
  <1>6. ASSUME NEW s \in Sessions, Interview(s) \/ LeaveInterview(s) \/ WriteBlock(s) PROVE BetaNext
    <2>1. CASE Interview(s)  BY <2>1 DEF Interview, BetaNext
    <2>2. CASE LeaveInterview(s)
      <3>1. CASE s = Architect  BY <2>2, <3>1 DEF LeaveInterview, BetaNext
      <3>2. CASE s # Architect
        <4>1. BetaLeave(s) /\ s \in BetaProcs
          BY <2>2, <3>2, WorkshopAssumption DEF LeaveInterview, InSession, BetaLeave, BetaProcs
        <4> QED  BY <4>1 DEF BetaNext
      <3> QED  BY <3>1, <3>2
    <2>3. CASE WriteBlock(s)
      <3>1. CASE UNCHANGED betaVars  BY <3>1 DEF BetaNext
      <3>2. CASE \E text : OverwriteDesign(text)  BY <3>2 DEF BetaNext
      <3> QED  BY <2>3, <3>1, <3>2 DEF WriteBlock
    <2> QED  BY <1>6, <2>1, <2>2, <2>3
  <1>7. ASSUME NEW resumed \in BOOLEAN, StartArchitect(resumed) PROVE BetaNext
    BY <1>7 DEF StartArchitect, BetaNext
  <1>8. ASSUME NEW resumed \in BOOLEAN, StartDesigner(resumed) PROVE BetaNext
    BY <1>8 DEF StartDesigner, BetaNext, BetaJobs, BetaProcs
  <1>9. CASE Hand
    <2>1. CASE UNCHANGED betaVars  BY <2>1 DEF BetaNext
    <2>2. CASE \E text \in Edits[Designer] : OverwriteDesign(text)  BY <2>2 DEF BetaNext
    <2> QED  BY <1>9, <2>1, <2>2 DEF Hand
  <1> QED  BY <1>1, <1>2, <1>3, <1>4, <1>5, <1>6, <1>7, <1>8, <1>9 DEF Next

\* A process changes nothing of the others.
BetaOnlyOf(p) ==
    /\ BetaShape'
    /\ \A q \in BetaProcs : Prepared(q)'
    /\ \A q \in BetaProcs \ {p} :
          /\ betaStep'[q] = betaStep[q] /\ betaJob'[q] = betaJob[q]
          /\ betaVersion'[q] = betaVersion[q] /\ betaBook'[q] = betaBook[q]

LEMMA BetaOthers ==
    ASSUME BetaShape, \A q \in BetaProcs : Prepared(q), NEW p \in BetaProcs,
           \/ BetaPerform(p) \/ BetaLeave(p)
           \/ \E what \in BetaJobs, v \in BetaVersions \union {"draft"} :
                 (what # "promote" => v = "draft") /\ BetaBegin(p, what, v)
    PROVE  BetaOnlyOf(p)
  <1> USE DEF BetaShape, BetaSteps, BetaMove, BetaFinish
  <1> DEFINE Rest == /\ BetaShape'
                     /\ \A q \in BetaProcs \ {p} :
                           /\ betaStep'[q] = betaStep[q] /\ betaJob'[q] = betaJob[q]
                           /\ betaVersion'[q] = betaVersion[q] /\ betaBook'[q] = betaBook[q]
  <1>a. Prepared(p) /\ p \in DOMAIN betaBook  OBVIOUS
  <1>b. BetaFinish(p) => Prepared(p)'  BY DEF Prepared, ZeroBook, DesignFiles
  <1>c. UNCHANGED <<betaJob, betaVersion, betaBook>> => Prepared(p)'  BY <1>a DEF Prepared
  <1> SUFFICES Rest /\ Prepared(p)'
    <2>1. Rest => \A q \in BetaProcs \ {p} : Prepared(q)'  BY DEF Prepared
    <2> QED  BY <2>1 DEF BetaOnlyOf
  <1>1. ASSUME NEW f \in DesignFiles, NEW to \in {"rules", "manifest"}, LoadDesign(p, f, to)
        PROVE  Rest /\ Prepared(p)'
    <2>1. Rest  BY <1>1 DEF LoadDesign
    <2>2. BetaFinish(p) \/ (/\ betaBook'[p] = [betaBook[p] EXCEPT ![f] = Parsed(design[f])]
                            /\ UNCHANGED <<betaJob, betaVersion>>)
      BY <1>a, <1>1 DEF LoadDesign
    <2> QED  BY <1>a, <1>b, <2>1, <2>2 DEF Prepared, Parsed
  <1>2. CASE BetaCheck(p)
    <2>1. Rest  BY <1>2 DEF BetaCheck
    <2>2. BetaFinish(p) \/ UNCHANGED <<betaJob, betaVersion, betaBook>>
          \/ (betaBook'[p] = [betaBook[p] EXCEPT !["vocab"] = DefaultVocab] /\ UNCHANGED <<betaJob, betaVersion>>)
      BY <1>a, <1>2 DEF BetaCheck
    <2> QED  BY <1>a, <1>b, <1>c, <2>1, <2>2 DEF Prepared, DefaultVocab
  <1>3. CASE SaveManifest(p) \/ SaveVocab(p)  BY <1>3, <1>c DEF SaveManifest, SaveVocab
  <1>4. CASE SaveRules(p)
    <2>1. Rest  BY <1>4 DEF SaveRules
    <2> QED  BY <1>4, <1>b, <1>c, <2>1 DEF SaveRules
  <1>5. CASE SaveFails(p)
    <2>1. Rest
      <3>1. DOMAIN design' = DesignFiles  BY <1>5 DEF SaveFails
      <3> QED  BY <3>1, <1>5 DEF SaveFails
    <2> QED  BY <1>5, <1>b, <2>1 DEF SaveFails
  <1>6. CASE ImportDesign(p)
    <2>1. Rest  BY <1>6 DEF ImportDesign
    <2> QED  BY <1>6, <1>b, <2>1 DEF ImportDesign
  <1>7. CASE BetaDie(p) \/ BetaLeave(p)
    <2>1. Rest  BY <1>7 DEF BetaDie, BetaLeave
    <2> QED  BY <1>7, <1>b, <2>1 DEF BetaDie, BetaLeave
  <1>8. ASSUME NEW what \in BetaJobs, NEW v \in BetaVersions \union {"draft"},
               what # "promote" => v = "draft", BetaBegin(p, what, v)
        PROVE  Rest /\ Prepared(p)'
    <2>1. Rest  BY <1>8 DEF BetaBegin, BetaJobs
    <2>2. betaBook'[p] = betaBook[p] /\ betaJob'[p] = what /\ betaVersion'[p] = v  BY <1>8 DEF BetaBegin
    <2> QED  BY <1>a, <1>8, <2>1, <2>2 DEF Prepared
  <1> QED  BY <1>1, <1>2, <1>3, <1>4, <1>5, <1>6, <1>7, <1>8 DEF BetaPerform, DesignFiles

\* A step of one process that leaves the files alone, and does not come to save them.
LEMMA BetaAside ==
    ASSUME BetaInv, NEW p \in BetaProcs, BetaOnlyOf(p),
           UNCHANGED <<betaManifest, design>>, touched => touched',
           betaStep'[p] \notin {"saveVocab", "saveRules"},
           betaStep[p] \notin {"saveVocab", "saveRules"} \/ touched',
           betaStep'[p] \in {"idle", "produce", "talk"} \/ p \in Saving \/ touched' \/ Saving = {}
    PROVE  BetaInv'
  <1> USE DEF BetaOnlyOf
  <1>0. BetaShape /\ BetaAlone /\ BetaHashHolds  BY DEF BetaInv
  <1>1. BetaAlone'
    <2>1. \A q \in Saving' : q = p \/ q \in Saving  BY DEF Saving
    <2>2. p \in Saving' => p \in Saving \/ touched' \/ Saving = {}  BY DEF Saving
    <2>3. ~touched' => \A q, r \in Saving' : q = r  BY <1>0, <2>1, <2>2 DEF BetaAlone
    <2> QED  BY <1>0, <2>3 DEF BetaAlone
  <1>2. BetaHashHolds'  BY <1>0 DEF BetaHashHolds
  <1> QED  BY <1>1, <1>2 DEF BetaInv

\* Once something interferes, nothing is said of the files until the next promotion.
LEMMA BetaTouched ==
    ASSUME BetaShape', \A q \in BetaProcs : Prepared(q)', touched' = TRUE
    PROVE  BetaInv'
  BY DEF BetaInv, BetaAlone, BetaHashHolds

LEMMA BetaKeeps == ASSUME BetaInv, BetaNext PROVE BetaInv'
  <1> USE DEF BetaOnlyOf
  <1>0. BetaShape /\ (\A q \in BetaProcs : Prepared(q)) /\ BetaAlone /\ BetaHashHolds  BY DEF BetaInv
  <1>1. ASSUME NEW p \in BetaProcs,
               \/ LoadDesign(p, "vocab", "rules") \/ LoadDesign(p, "rules", "manifest")
               \/ BetaCheck(p) \/ BetaDie(p) \/ BetaLeave(p)
        PROVE  BetaInv'
    <2>1. BetaOnlyOf(p)  BY <1>0, <1>1, BetaOthers DEF BetaPerform
    <2>2. /\ UNCHANGED <<betaManifest, design>> /\ (touched => touched')
          /\ betaStep[p] \notin {"saveVocab", "saveRules"} \/ touched'
      <3>1. CASE BetaDie(p)
        <4>1. touched' = (touched \/ betaStep[p] \in {"saveVocab", "saveRules"})  BY <3>1 DEF BetaDie
        <4>2. UNCHANGED <<betaManifest, design>>  BY <3>1 DEF BetaDie
        <4> QED  BY <4>1, <4>2
      <3>2. CASE LoadDesign(p, "vocab", "rules") \/ LoadDesign(p, "rules", "manifest")
        BY <3>2 DEF LoadDesign
      <3>3. CASE BetaCheck(p) \/ BetaLeave(p)  BY <3>3 DEF BetaCheck, BetaLeave
      <3> QED  BY <1>1, <3>1, <3>2, <3>3
    <2>3. betaStep'[p] \in {"idle", "talk"} \/ (betaStep'[p] \in {"rules", "manifest"} /\ p \in Saving)
      BY <1>0, <1>1 DEF LoadDesign, BetaCheck, BetaDie, BetaLeave, BetaMove, BetaFinish, Saving, BetaShape
    <2> QED  BY <2>1, <2>2, <2>3, BetaAside
  <1>2. ASSUME NEW p \in BetaProcs, SaveManifest(p) PROVE BetaInv'
    <2>1. BetaOnlyOf(p)  BY <1>0, <1>2, BetaOthers DEF BetaPerform
    <2>2. betaStep[p] = "manifest" /\ betaStep'[p] = "saveVocab" /\ p \in Saving
          /\ UNCHANGED <<design, betaJob, betaVersion, betaBook>>
          /\ betaManifest' = BetaManifest(betaVersion[p], IF betaJob[p] = "promote" THEN betaBook[p] ELSE ZeroBook)
          /\ (~touched' => ~touched \/ Saving = {p})
      BY <1>0, <1>2 DEF SaveManifest, BetaMove, Saving, BetaShape
    <2>3. Saving' = Saving  BY <2>1, <2>2 DEF Saving
    <2>4. BetaAlone'
      <3> SUFFICES ASSUME ~touched'
                   PROVE  /\ \A q, r \in Saving' : q = r
                          /\ \A q \in BetaProcs :
                                /\ betaStep'[q] \in {"saveVocab", "saveRules"} =>
                                      betaManifest' = BetaManifest(betaVersion'[q], IF betaJob'[q] = "promote" THEN betaBook'[q] ELSE ZeroBook)
                                /\ betaStep'[q] = "saveRules" => design'["vocab"] = betaBook'[q]["vocab"]
        BY DEF BetaAlone
      <3>1. Saving = {p}  BY <1>0, <2>2 DEF BetaAlone
      <3>2. \A q \in BetaProcs \ {p} : betaStep'[q] \notin {"saveVocab", "saveRules"}
        BY <2>1, <3>1 DEF Saving
      <3> QED  BY <2>2, <2>3, <3>1, <3>2
    <2>5. BetaHashHolds'  BY <2>2 DEF BetaHashHolds
    <2> QED  BY <2>1, <2>4, <2>5 DEF BetaInv
  <1>3. ASSUME NEW p \in BetaProcs, SaveVocab(p) PROVE BetaInv'
    <2>1. BetaOnlyOf(p)  BY <1>0, <1>3, BetaOthers DEF BetaPerform
    <2>2. betaStep[p] = "saveVocab" /\ betaStep'[p] = "saveRules" /\ p \in Saving
          /\ UNCHANGED <<betaManifest, betaJob, betaVersion, betaBook, touched>>
          /\ design'["vocab"] = betaBook[p]["vocab"]
      BY <1>0, <1>3 DEF SaveVocab, BetaMove, Saving, BetaShape, DesignFiles
    <2>3. Saving' = Saving  BY <2>1, <2>2 DEF Saving
    <2>4. BetaAlone'
      <3>1. ~touched => \A q \in BetaProcs \ {p} : betaStep'[q] \notin {"saveVocab", "saveRules"}
        BY <1>0, <2>1, <2>2 DEF Saving, BetaAlone
      <3> QED  BY <1>0, <2>2, <2>3, <3>1 DEF BetaAlone
    <2>5. BetaHashHolds'  BY <2>2 DEF BetaHashHolds
    <2> QED  BY <2>1, <2>4, <2>5 DEF BetaInv
  <1>4. ASSUME NEW p \in BetaProcs, SaveRules(p) PROVE BetaInv'
    <2>1. BetaOnlyOf(p)  BY <1>0, <1>4, BetaOthers DEF BetaPerform
    <2>2. betaStep[p] = "saveRules" /\ betaStep'[p] \in {"idle", "talk"} /\ p \in Saving
          /\ UNCHANGED <<betaManifest, touched>>
          /\ design'["vocab"] = design["vocab"] /\ design'["rules"] = betaBook[p]["rules"]
      BY <1>0, <1>4 DEF SaveRules, BetaMove, BetaFinish, Saving, BetaShape, DesignFiles
    <2>3. \A q \in Saving' : q \in Saving /\ q # p  BY <2>1, <2>2 DEF Saving
    <2>4. BetaAlone'
      <3>1. ~touched => Saving' = {}  BY <1>0, <2>2, <2>3 DEF BetaAlone
      <3> QED  BY <3>1, <2>2 DEF BetaAlone, Saving
    <2>5. BetaHashHolds'
      <3> SUFFICES ASSUME betaManifest.version \in BetaVersions, ~touched, NEW f \in DesignFiles
                   PROVE  Parsed(design'[f]) = betaManifest.hash[f]
        BY <2>2 DEF BetaHashHolds
      <3>1. /\ betaManifest = BetaManifest(betaVersion[p], IF betaJob[p] = "promote" THEN betaBook[p] ELSE ZeroBook)
            /\ design["vocab"] = betaBook[p]["vocab"]
        BY <1>0, <2>2 DEF BetaAlone
      <3>2. betaVersion[p] # "draft"  BY <3>1, BetaAssumption DEF BetaManifest
      <3>3. betaJob[p] = "promote"  BY <1>0, <3>2 DEF Prepared
      <3>4. betaManifest.hash = betaBook[p]  BY <3>1, <3>3 DEF BetaManifest
      <3>5. design'[f] = betaBook[p][f]  BY <2>2, <3>1 DEF DesignFiles
      <3>6. betaBook[p][f] \notin {"none", "empty"}  BY <1>0 DEF Prepared
      <3> QED  BY <3>4, <3>5, <3>6 DEF Parsed
    <2> QED  BY <2>1, <2>4, <2>5 DEF BetaInv
  <1>5. ASSUME NEW p \in BetaProcs, SaveFails(p) PROVE BetaInv'
    <2>1. BetaOnlyOf(p)  BY <1>0, <1>5, BetaOthers DEF BetaPerform
    <2> QED  BY <1>5, <2>1, BetaTouched DEF SaveFails
  <1>6. ASSUME NEW p \in BetaProcs, ImportDesign(p) PROVE BetaInv'
    <2>1. BetaOnlyOf(p)  BY <1>0, <1>6, BetaOthers DEF BetaPerform
    <2>2. CASE UNCHANGED <<design, touched>>
      <3>1. UNCHANGED <<betaManifest, design, touched>> /\ betaStep[p] = "produce" /\ betaStep'[p] = "idle"
        BY <1>0, <1>6, <2>2 DEF ImportDesign, BetaFinish, BetaShape
      <3> QED  BY <2>1, <3>1, BetaAside
    <2>3. CASE touched' = TRUE  BY <2>1, <2>3, BetaTouched
    <2> QED  BY <1>6, <2>2, <2>3 DEF ImportDesign
  <1>7. ASSUME NEW p \in BetaProcs, NEW what \in BetaJobs, NEW v \in BetaVersions \union {"draft"},
               what # "promote" => v = "draft", BetaBegin(p, what, v)
        PROVE  BetaInv'
    <2>1. BetaOnlyOf(p)  BY <1>0, <1>7, BetaOthers
    <2>2. /\ UNCHANGED <<betaManifest, design>> /\ (touched => touched') /\ (Saving # {} => touched')
          /\ betaStep[p] = "idle" /\ betaStep'[p] \in {"vocab", "produce", "check"}
      BY <1>0, <1>7 DEF BetaBegin, BetaMove, BetaShape
    <2> QED  BY <2>1, <2>2, BetaAside
  <1>8. ASSUME NEW text, OverwriteDesign(text) PROVE BetaInv'
    <2>1. UNCHANGED <<betaStep, betaJob, betaVersion, betaBook>> /\ DOMAIN design' = DOMAIN design /\ touched' = TRUE
      BY <1>8 DEF OverwriteDesign
    <2>2. BetaShape' /\ (\A q \in BetaProcs : Prepared(q)')  BY <1>0, <2>1 DEF BetaShape, Prepared
    <2> QED  BY <2>1, <2>2, BetaTouched
  <1>9. CASE UNCHANGED betaVars
    <2>1. UNCHANGED <<betaManifest, design, betaStep, betaJob, betaVersion, betaBook, touched>>
      BY <1>9 DEF betaVars
    <2>2. BetaShape' /\ (\A q \in BetaProcs : Prepared(q)') /\ Saving' = Saving
      BY <1>0, <2>1 DEF BetaShape, Prepared, Saving
    <2>3. BetaAlone' /\ BetaHashHolds'  BY <1>0, <2>1, <2>2 DEF BetaAlone, BetaHashHolds
    <2> QED  BY <2>2, <2>3 DEF BetaInv
  <1> QED  BY <1>1, <1>2, <1>3, <1>4, <1>5, <1>6, <1>7, <1>8, <1>9 DEF BetaNext, BetaPerform

\* The hash of a promoted beta rulebook is that of its files, unless something interfered.
THEOREM HashIsOfTheFiles == Spec => []BetaHashHolds
  <1>1. Init => BetaInv
    <2> SUFFICES ASSUME Init PROVE BetaInv  OBVIOUS
    <2>1. BetaShape /\ \A p \in BetaProcs : Prepared(p)
      BY DEF Init, BetaInit, BetaShape, BetaSteps, Prepared, ZeroBook, DesignFiles
    <2>2. (\A p \in BetaProcs : betaStep[p] = "idle") /\ betaManifest.version = "absent"
      BY DEF Init, BetaInit, BetaManifest
    <2>3. Saving = {}  BY <2>2 DEF Saving
    <2> QED  BY <2>1, <2>2, <2>3, BetaAssumption DEF BetaInv, BetaAlone, BetaHashHolds
  <1>2. BetaInv /\ [Next]_vars => BetaInv'  BY BetaMoves, BetaKeeps
  <1>3. BetaInv => BetaHashHolds  BY DEF BetaInv
  <1> QED  BY <1>1, <1>2, <1>3, PTL DEF Spec
=============================================================================
