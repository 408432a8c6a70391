---------------------------- MODULE AlphaWorkspace ----------------------------
(***************************************************************************)
(* One Alpha rulebook on disk (internal/alpha/workspace.go, rulebook.go,    *)
(* linter.go, importer.go) and the commands of cmd/alpha that work on it,   *)
(* each a process of its own.  The architect's session is one more process. *)
(*                                                                         *)
(* A file is kept as what Load and Lint make of it.  Files are written by   *)
(* truncating and writing, so a write that fails or is cut short may leave   *)
(* garbage; a reader that meets one half written fails in the same way.    *)
(* A hash stands for the contents it is made of.                           *)
(***************************************************************************)
EXTENDS Naturals, Sequences

CONSTANTS
    Commands,       \* processes of the alpha command line
    Architect,      \* the process of an interactive session
    Versions,
    Clean           \* contents that parse and lint

DefaultCompat == "default"
Contents == Clean \union {DefaultCompat, "none", "flawed", "garbage"}

\* What Load reads: compat.json, a schema, a catalog, the link to a catalog elsewhere, the rules.
Files  == {"compat", "schema", "catalog", "source", "rules"}
Order  == <<"compat", "schema", "catalog", "source", "rules">>
Books  == [Files -> Contents]
NoBook == [f \in Files |-> "none"]
Unread == [f \in Files |-> "unread"]

\* Versions a manifest may show; "draft" is the empty one, and "garbage" also stands for a
\* manifest that parses but lacks the name or the core version Lint asks for.
Manifests == [version: Versions \union {"absent", "garbage", "draft"}, hash: Books]
Manifest(v, b) == [version |-> v, hash |-> b]

ASSUME AlphaAssumption ==
    /\ Architect \notin Commands
    /\ Versions \cap {"absent", "garbage", "draft"} = {}
    /\ Clean \cap {DefaultCompat, "none", "flawed", "garbage", "unread"} = {}

Procs == Commands \union {Architect}

VARIABLES
    manifest,   \* alpha_manifest.json
    file,       \* the other files
    archive,    \* versions/<v>/rulebook.json
    step,       \* where each process is
    job,        \* what it does
    version,    \* --version of a promotion
    book,       \* the files it has loaded
    faults      \* ghost: what has gone wrong and not been put right

alphaVars == <<manifest, file, archive, step, job, version, book, faults>>

Jobs  == {"none", "init", "promote", "db", "openapi", "csv", "url", "interview"}
Steps == {"idle", "check", "newManifest", "newCompat", "produce", "talk", "load", "sign", "archive"}

\* Of the processes about to write the manifest one has begun beside another, or beside a hand;
\* compat.json has been left missing or broken; the manifest is not that of the last promotion
\* to have gone through on its own.
Faults == {"overlap", "compat", "manifest"}

AlphaInit ==
    /\ manifest = Manifest("absent", NoBook)
    /\ file = NoBook
    /\ archive = [v \in Versions |-> [manifest |-> Manifest("absent", NoBook), book |-> NoBook]]
    /\ step = [p \in Procs |-> "idle"]
    /\ job = [p \in Procs |-> "none"]
    /\ version = [p \in Procs |-> "draft"]
    /\ book = [p \in Procs |-> Unread]
    /\ faults = {}

Step(p, from, to) == step[p] = from /\ step' = [step EXCEPT ![p] = to]
Fault(f) == faults' = faults \union {f}
Amend(f) == faults' = faults \ {f}

\* Processes that are about to write the manifest.
Busy == {p \in Procs : step[p] \notin {"idle", "produce", "talk"}}

\* The process returns, and what it had in memory is gone.
Finish(p) ==
    /\ step' = [step EXCEPT ![p] = "idle"]
    /\ job' = [job EXCEPT ![p] = "none"]
    /\ version' = [version EXCEPT ![p] = "draft"]
    /\ book' = [book EXCEPT ![p] = Unread]

-------------------------------------------------------------------------------
(* Load, lint, promote *)

\* Mutant: a rulebook without compat.json is sound.
LintForgiving(b) == \A f \in Files : b[f] \in Clean \union {DefaultCompat, "none"}

\* Lint: compat.json must be there and have a minimum version, the others must be sound if
\* they are there.  A header-only CSV makes the catalog "null", which is sound.
Lint(b) ==
    /\ b["compat"] \in Clean \union {DefaultCompat}
    /\ \A f \in Files \ {"compat"} : b[f] \in Clean \union {"none"}

Begin(p, what, v) ==
    /\ Step(p, "idle", IF what = "promote" THEN "load" ELSE "check")
    /\ job' = [job EXCEPT ![p] = what]
    /\ version' = [version EXCEPT ![p] = v]
    /\ IF Busy # {} THEN Fault("overlap") ELSE Amend("overlap")
    /\ UNCHANGED <<manifest, file, archive, book>>

\* Load reads one file after the other, the manifest with the first; one that is missing or
\* does not parse ends the command, and so does a book that does not lint.
Load(p) ==
    \E i \in 1..Len(Order) :
        LET f == Order[i]
            loaded == [book[p] EXCEPT ![f] = file[f]]
            fails == file[f] = "garbage" \/ (i = 1 /\ manifest.version \in {"absent", "garbage"})
        IN  /\ step[p] = "load"
            /\ \A j \in 1..Len(Order) : book[p][Order[j]] = "unread" <=> j >= i
            /\ IF fails \/ (i = Len(Order) /\ ~Lint(loaded))
               THEN Finish(p)
               ELSE /\ book' = [book EXCEPT ![p] = loaded]
                    /\ Step(p, "load", IF i = Len(Order) THEN "sign" ELSE "load")
                    /\ UNCHANGED <<job, version>>
            /\ UNCHANGED <<manifest, file, archive, faults>>

\* Rulebook.Promote and WriteManifest.
Sign(p) ==
    /\ Step(p, "sign", "archive")
    /\ manifest' = Manifest(version[p], book[p])
    /\ IF \E q \in Procs : step[q] = "archive" THEN Fault("manifest") ELSE Amend("manifest")
    /\ UNCHANGED <<file, archive, job, version, book>>

SignFails(p) ==
    /\ step[p] = "sign"
    /\ manifest' \in {manifest, Manifest("garbage", NoBook)}
    /\ Finish(p)
    /\ UNCHANGED <<file, archive, faults>>

\* Mutant: the bundle is made before the rulebook is promoted.
BundleOfDraft(p) == [manifest |-> Manifest("draft", NoBook), book |-> book[p]]

Bundle(p) == [manifest |-> Manifest(version[p], book[p]), book |-> book[p]]

\* ArchiveVersion, over whatever the version held.
Archive(p) ==
    /\ step[p] = "archive" /\ version[p] # "draft"
    /\ archive' = [archive EXCEPT ![version[p]] = Bundle(p)]
    /\ Finish(p)
    /\ UNCHANGED <<manifest, file, faults>>

\* The manifest shows the version all the same.  The empty version cannot be archived.
ArchiveFails(p) ==
    /\ step[p] = "archive"
    /\ \/ UNCHANGED archive
       \/ /\ version[p] # "draft"
          /\ archive' = [archive EXCEPT ![version[p]] = [manifest |-> Manifest("garbage", NoBook), book |-> NoBook]]
    /\ Finish(p)
    /\ Fault("manifest")
    /\ UNCHANGED <<manifest, file>>

-------------------------------------------------------------------------------
(* Init, and what the imports write *)

\* Mutant: an existing rulebook is initialised anew.
CheckNothing(p) ==
    /\ Step(p, "check", "newManifest")
    /\ UNCHANGED <<manifest, file, archive, job, version, book, faults>>

\* Exists: a manifest is there, whatever is in it.
Check(p) ==
    /\ step[p] = "check"
    /\ IF manifest.version = "absent" THEN Step(p, "check", "newManifest") /\ UNCHANGED <<job, version, book>>
       ELSE IF job[p] = "init" THEN Finish(p)
       ELSE Step(p, "check", IF job[p] = "interview" THEN "talk" ELSE "produce") /\ UNCHANGED <<job, version, book>>
    /\ UNCHANGED <<manifest, file, archive, faults>>

\* Mutant: no default compat.json.
NewManifestOnly(p) ==
    /\ Step(p, "newManifest", IF job[p] = "interview" THEN "talk" ELSE "produce")
    /\ manifest' = Manifest("draft", NoBook)
    /\ UNCHANGED <<file, archive, job, version, book, faults>>

NewManifest(p) ==
    /\ Step(p, "newManifest", "newCompat")
    /\ manifest' = Manifest("draft", NoBook)
    /\ UNCHANGED <<file, archive, job, version, book, faults>>

NewCompat(p) ==
    /\ step[p] = "newCompat"
    /\ file' = [file EXCEPT !["compat"] = DefaultCompat]
    /\ IF job[p] = "init" THEN Finish(p)
       ELSE Step(p, "newCompat", IF job[p] = "interview" THEN "talk" ELSE "produce") /\ UNCHANGED <<job, version, book>>
    /\ Amend("compat")
    /\ UNCHANGED <<manifest, archive>>

\* What is left of an Init that fails passes for a rulebook from then on.
InitFails(p) ==
    /\ \/ step[p] = "newManifest" /\ manifest' \in {manifest, Manifest("garbage", NoBook)} /\ UNCHANGED file
       \/ /\ step[p] = "newCompat"
          /\ \E c \in {file["compat"], "garbage"} : file' = [file EXCEPT !["compat"] = c]
          /\ UNCHANGED manifest
    /\ Finish(p)
    /\ Fault("compat")
    /\ UNCHANGED archive

\* A write of a file, which may fail.
Put(f, c) == \E left \in {c, file[f], "garbage"} : file' = [file EXCEPT ![f] = left]

\* The tables of a database, as what a schema of each allows; a table that cannot be read is
\* left out.  What the model suggests about them goes to a file of its own.
ColumnsToJSONSchema == Clean

\* The rows of a CSV file, or "null" for one that is only a header: both lint.
CatalogFromCSV == Clean

\* The link to a catalog elsewhere is an object, and Load takes every file of catalogs/ for a list.
CatalogFromURL == {"garbage"}

Imported(what) ==
    CASE what = "db"  -> {"schema"} \X ColumnsToJSONSchema
      [] what = "csv" -> {"catalog"} \X CatalogFromCSV
      [] what = "url" -> {"source"} \X CatalogFromURL
      [] OTHER        -> {}

\* ImportFromOpenAPI writes nothing Load reads, or gives up for want of an executor.  The
\* imports that Load afterwards only report what they find.
Import(p) ==
    /\ step[p] = "produce"
    /\ \/ \E new \in Imported(job[p]) : Put(new[1], new[2])
       \/ job[p] = "openapi" /\ UNCHANGED file
    /\ Finish(p)
    /\ UNCHANGED <<manifest, archive, faults>>

\* The database or the source file cannot be read.  (It is read before Init, to the same effect.)
ImportRefused(p) ==
    /\ step[p] = "check" /\ job[p] \in {"db", "openapi", "csv"}
    /\ Finish(p)
    /\ UNCHANGED <<manifest, file, archive, faults>>

\* What a file or the manifest may be overwritten with; "none" and "absent" delete it.
AlphaTexts == (Files \X Contents) \union ({"manifest"} \X Manifests)

SoundCompat(c) == c \in Clean \union {DefaultCompat}

\* Something else writes a file, and looks at nothing before.
OverwriteFile(f, c) ==
    /\ file' = [file EXCEPT ![f] = c]
    /\ IF f # "compat" THEN UNCHANGED faults
       ELSE IF SoundCompat(c) THEN Amend("compat") ELSE Fault("compat")
    /\ UNCHANGED <<manifest, archive, step, job, version, book>>

\* The same for the manifest, which makes a rulebook of whatever lies beside it.
OverwriteManifest(m) ==
    /\ manifest' = m
    /\ faults' = faults \union {"manifest"}
                        \union (IF Busy # {} THEN {"overlap"} ELSE {})
                        \union (IF SoundCompat(file["compat"]) THEN {} ELSE {"compat"})
    /\ UNCHANGED <<file, archive, step, job, version, book>>

Overwrite(text) ==
    IF text[1] = "manifest" THEN OverwriteManifest(text[2]) ELSE OverwriteFile(text[1], text[2])

\* A process is killed.
Die(p) ==
    /\ step[p] # "idle"
    /\ Finish(p)
    /\ CASE step[p] = "archive"   -> Fault("manifest")
         [] step[p] = "newCompat" -> Fault("compat")
         [] OTHER                 -> UNCHANGED faults
    /\ UNCHANGED <<manifest, file, archive>>

Perform(p) ==
    \/ Load(p) \/ Sign(p) \/ SignFails(p) \/ Archive(p) \/ ArchiveFails(p)
    \/ Check(p) \/ NewManifest(p) \/ NewCompat(p) \/ InitFails(p)
    \/ Import(p) \/ ImportRefused(p) \/ Die(p)
===============================================================================
