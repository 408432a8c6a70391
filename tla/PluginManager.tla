---------------------------- MODULE PluginManager ----------------------------
(***************************************************************************)
(* The plugin manager of internal/pluginmgr/manager.go: Install and Update  *)
(* fetch an entry of the remote registry, download the binary, and write it  *)
(* and then its manifest to the plugin directory, two files that a failure   *)
(* or the end of the process may leave out of step.                        *)
(*                                                                         *)
(* Of a binary only the version it is of is kept; the registry is not in    *)
(* the repository, and its versions only go up.                            *)
(***************************************************************************)
EXTENDS Naturals

CONSTANTS
    Managers,       \* processes that install or update
    Slugs,
    MaxVersion,     \* bound: versions of a plugin
    Other,          \* what else a download may give: its status is not looked at
    Torn,           \* a file written in part
    None            \* no file

Versions == 1..MaxVersion
Contents == Versions \union {Other}
Entry    == [version: Versions, hashed: BOOLEAN]
Manifest == [version: Versions, sum: Contents]

ASSUME PluginAssumption ==
    /\ MaxVersion \in Nat \ {0}
    /\ {Other, Torn, None} \cap (Versions \union Manifest) = {}
    /\ Torn # Other

VARIABLES
    offered,    \* the registry's entry of each plugin
    file,       \* its binary in the plugin directory
    manifest,   \* its file in .manifests
    install,    \* what each manager is doing
    overlapped, \* ghost: plugins two managers worked on at once
    repeated    \* ghost: plugins installed at the version their manifest shows already

pluginVars == <<offered, file, manifest, install, overlapped, repeated>>

NoInstall == [at |-> "idle"]
NotFound  == [version |-> 0, hashed |-> FALSE]

PluginInit ==
    /\ offered = [p \in Slugs |-> NotFound]
    /\ file = [p \in Slugs |-> None]
    /\ manifest = [p \in Slugs |-> None]
    /\ install = [m \in Managers |-> NoInstall]
    /\ overlapped = {}
    /\ repeated = {}

Installed(p) == manifest[p] \notin {None, Torn}

\* The registry lists the next version, with or without its hash.
Publish(p) ==
    \E hashed \in BOOLEAN :
        /\ offered[p].version < MaxVersion
        /\ offered' = [offered EXCEPT ![p] = [version |-> @.version + 1, hashed |-> hashed]]
        /\ UNCHANGED <<file, manifest, install, overlapped, repeated>>

WorkedOn(p) == \E m \in Managers : install[m] # NoInstall /\ install[m].slug = p

Begin(m, p, to) ==
    /\ install[m] = NoInstall
    /\ install' = [install EXCEPT ![m] = to]
    /\ overlapped' = IF WorkedOn(p) THEN overlapped \union {p} ELSE overlapped
    /\ UNCHANGED <<offered, file, manifest, repeated>>

InstallPlugin(m, p) == Begin(m, p, [at |-> "fetch", slug |-> p])

\* Update needs a manifest it can read.
UpdatePlugin(m, p) ==
    /\ Installed(p)
    /\ Begin(m, p, [at |-> "compare", slug |-> p, has |-> manifest[p].version])

\* A call returns, with its result or an error.
Leave(m) == install' = [install EXCEPT ![m] = NoInstall]

\* "Already up to date", or installed anew.
Compare(m) ==
    LET p == install[m].slug
    IN  /\ install[m].at = "compare"
        /\ IF install[m].has = offered[p].version
           THEN Leave(m)
           ELSE install' = [install EXCEPT ![m] = [at |-> "fetch", slug |-> p]]
        /\ UNCHANGED <<offered, file, manifest, overlapped, repeated>>

Fetch(m) ==
    LET p == install[m].slug
    IN  /\ install[m].at = "fetch" /\ offered[p] # NotFound
        /\ install' = [install EXCEPT ![m] = [at |-> "download", slug |-> p, entry |-> offered[p]]]
        /\ repeated' = IF Installed(p) /\ manifest[p].version = offered[p].version
                       THEN repeated \union {p} ELSE repeated
        /\ UNCHANGED <<offered, file, manifest, overlapped>>

\* Only an entry with a hash is checked against it.
Download(m) ==
    LET entry == install[m].entry
    IN  /\ install[m].at = "download"
        /\ \E data \in {entry.version, Other} :
              IF entry.hashed /\ data = Other
              THEN Leave(m)
              ELSE install' = [install EXCEPT ![m] = [at |-> "write", slug |-> install[m].slug,
                                                      entry |-> entry, data |-> data]]
        /\ UNCHANGED <<offered, file, manifest, overlapped, repeated>>

WriteBinary(m) ==
    /\ install[m].at = "write"
    /\ file' = [file EXCEPT ![install[m].slug] = install[m].data]
    /\ install' = [install EXCEPT ![m].at = "record"]
    /\ UNCHANGED <<offered, manifest, overlapped, repeated>>

\* Mutant: the error of the write is dropped.
WriteFailsUnseen(m) ==
    /\ install[m].at = "write"
    /\ file' \in {file, [file EXCEPT ![install[m].slug] = Torn]}
    /\ install' = [install EXCEPT ![m].at = "record"]
    /\ UNCHANGED <<offered, manifest, overlapped, repeated>>

\* The directory cannot be made, or the binary is written in part: by an error or a kill.
WriteFails(m) ==
    /\ install[m].at = "write"
    /\ file' \in {file, [file EXCEPT ![install[m].slug] = Torn]}
    /\ Leave(m)
    /\ UNCHANGED <<offered, manifest, overlapped, repeated>>

SaveManifest(m) ==
    /\ install[m].at = "record"
    /\ manifest' \in {[manifest EXCEPT ![install[m].slug] = saved] :
                        saved \in {[version |-> install[m].entry.version, sum |-> install[m].data], Torn}}
    /\ Leave(m)
    /\ UNCHANGED <<offered, file, overlapped, repeated>>

\* A request fails, or the process ends, with nothing written.
Abandon(m) ==
    /\ install[m] # NoInstall
    /\ Leave(m)
    /\ UNCHANGED <<offered, file, manifest, overlapped, repeated>>

ManagerStep(m) ==
    \/ \E p \in Slugs : InstallPlugin(m, p) \/ UpdatePlugin(m, p)
    \/ Compare(m) \/ Fetch(m) \/ Download(m) \/ WriteBinary(m) \/ WriteFails(m) \/ SaveManifest(m)
    \/ Abandon(m)
===============================================================================
