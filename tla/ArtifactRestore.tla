-------------------------- MODULE ArtifactRestore --------------------------
(***************************************************************************)
(* Restore from the content-addressed store, quantbot/artifacts/store.py    *)
(* FilesystemStore.restore: the files of one manifest are copied into a     *)
(* workspace next to the destination, verified there, and published by a    *)
(* rename that never replaces anything.                                    *)
(*                                                                         *)
(* Every restore of one destination uses the same workspace path, and the   *)
(* test that the path is free and the mkdir are two steps.  A failed        *)
(* restore removes the tree it finds at the path, file by file, through the *)
(* directory it opened first: when another restore renames that directory  *)
(* to the destination meanwhile, the removal goes on there.                *)
(*                                                                         *)
(* Abstractions.  A directory is what each file of the manifest is in it;   *)
(* the role directories in between are left out.  A file is copied, and     *)
(* the tree scanned, in one step.                                          *)
(***************************************************************************)
EXTENDS Integers, FiniteSets

CONSTANTS
    Restorers,          \* the restore commands
    NFiles,             \* how many files the manifest lists
    MaxCrashes,         \* bound: process deaths
    MaxRots,            \* bound: store objects that go bad
    MaxSyncFailures,    \* bound: fsyncs that fail
    MaxOutsiders        \* bound: directories others make at the destination

ASSUME NFilesAssumption == NFiles \in Nat \ {0}
ASSUME RestorersAssumption == Restorers \cap {"none", "outsider"} = {}

Files == 1..NFiles
NoDir == [f \in {} |-> "absent"]
Empty == [f \in Files |-> "absent"]
Whole == [f \in Files |-> "good"]

VARIABLES
    object,         \* what the store holds for each file
    workspace,      \* the directory at the workspace path
    destination,    \* the directory at the destination path
    publisher,      \* history: who made the destination
    met,            \* history: a restore ran into the workspace of another
    pc, next,       \* per restorer: its step, and the file it copies
    opened,         \* the directory a removal has open, by the path it has now
    listed,         \* the files that removal has yet to unlink
    result,         \* the outcome of the last command
    faults          \* how much of each fault bound is spent

dirVars == <<workspace, destination, publisher, met>>
rmVars  == <<opened, listed>>
vars    == <<object, dirVars, pc, next, rmVars, result, faults>>

NoFaults == [crash |-> 0, rot |-> 0, sync |-> 0, outsider |-> 0]
MaxFaults ==
    [crash |-> MaxCrashes, rot |-> MaxRots, sync |-> MaxSyncFailures,
     outsider |-> MaxOutsiders]
Spend(kind) ==
    /\ faults[kind] < MaxFaults[kind]
    /\ faults' = [faults EXCEPT ![kind] = @ + 1]

Init ==
    /\ object = Whole
    /\ workspace = NoDir /\ destination = NoDir /\ publisher = "none" /\ met = FALSE
    /\ pc = [p \in Restorers |-> "idle"]
    /\ next = [p \in Restorers |-> 1]
    /\ opened = [p \in Restorers |-> "none"]
    /\ listed = [p \in Restorers |-> {}]
    /\ result = [p \in Restorers |-> "none"]
    /\ faults = NoFaults

Goto(p, label) == pc' = [pc EXCEPT ![p] = label]
End(p, outcome) == Goto(p, "idle") /\ result' = [result EXCEPT ![p] = outcome]

\* The destination must not exist ...
Begin(p) ==
    /\ pc[p] = "idle"
    /\ IF destination = NoDir
       THEN Goto(p, "checkws") /\ result' = [result EXCEPT ![p] = "none"]
       ELSE End(p, "refused")
    /\ UNCHANGED <<object, dirVars, next, rmVars, faults>>
\* ... nor a workspace, which nobody else removes.
CheckWorkspace(p) ==
    /\ pc[p] = "checkws"
    /\ IF workspace = NoDir THEN Goto(p, "load") /\ UNCHANGED result
       ELSE End(p, "refused")
    /\ UNCHANGED <<object, dirVars, next, rmVars, faults>>
\* load_manifest, which fails when the manifest is missing or corrupt.
LoadManifest(p) ==
    /\ pc[p] = "load"
    /\ \/ Goto(p, "mkdir") /\ UNCHANGED result
       \/ End(p, "refused")
    /\ UNCHANGED <<object, dirVars, next, rmVars, faults>>

\* From here on every failure removes the workspace.
MakeWorkspace(p) ==
    /\ pc[p] = "mkdir"
    /\ next' = [next EXCEPT ![p] = 1]
    /\ IF workspace = NoDir
       THEN workspace' = Empty /\ Goto(p, "copy") /\ UNCHANGED met
       ELSE Goto(p, "clean") /\ met' = TRUE /\ UNCHANGED workspace
    /\ UNCHANGED <<object, destination, publisher, rmVars, result, faults>>

\* Mutant: one file too many.
CopyFile_OneMore(p) ==
    /\ pc[p] = "copy"
    /\ next' = [next EXCEPT ![p] = @ + 1]
    /\ UNCHANGED <<object, dirVars, pc, rmVars, result, faults>>
\* Mutant: what was copied is published without being verified.
CopyFile_Unverified(p) ==
    /\ pc[p] = "copy"
    /\ workspace' = [workspace EXCEPT ![next[p]] = object[next[p]]]
    /\ IF next[p] < NFiles
       THEN next' = [next EXCEPT ![p] = @ + 1] /\ UNCHANGED pc
       ELSE Goto(p, "publish") /\ UNCHANGED next
    /\ UNCHANGED <<object, destination, publisher, met, rmVars, result, faults>>
\* The directories of a target are made if they are missing, the target must
\* not exist, and its digest is compared after it is written.
CopyFile(p) ==
    LET f == next[p]
        tree == IF workspace = NoDir THEN Empty ELSE workspace
    IN
    /\ pc[p] = "copy"
    /\ workspace' = [tree EXCEPT ![f] = IF @ = "absent" THEN object[f] ELSE @]
    /\ IF tree[f] # "absent" \/ object[f] # "good"
       THEN Goto(p, "clean") /\ UNCHANGED next
       ELSE IF f < NFiles
       THEN next' = [next EXCEPT ![p] = f + 1] /\ UNCHANGED pc
       ELSE Goto(p, "rebuild") /\ UNCHANGED next
    /\ UNCHANGED <<object, destination, publisher, met, rmVars, result, faults>>
\* build_portable_manifest over the workspace, compared with the manifest.
Rebuild(p) ==
    /\ pc[p] = "rebuild"
    /\ Goto(p, IF workspace = Whole THEN "publish" ELSE "clean")
    /\ UNCHANGED <<object, dirVars, next, rmVars, result, faults>>
\* _fsync_tree_bottom_up, or the fsync of the parent after the rename.
SyncFails(p) ==
    /\ pc[p] \in {"publish", "syncparent"}
    /\ Spend("sync")
    /\ Goto(p, "clean")
    /\ UNCHANGED <<object, dirVars, next, rmVars, result>>
\* Mutant: the rename replaces what is there.
Publish_Replace(p) ==
    /\ pc[p] = "publish"
    /\ workspace # NoDir
    /\ destination' = workspace /\ workspace' = NoDir /\ publisher' = p
    /\ Goto(p, "syncparent")
    /\ UNCHANGED <<object, met, next, rmVars, result, faults>>
\* _rename_directory_no_replace.
Publish(p) ==
    /\ pc[p] = "publish"
    /\ IF workspace # NoDir /\ destination = NoDir
       THEN /\ destination' = workspace /\ workspace' = NoDir
            /\ publisher' = p
            /\ opened' = [q \in Restorers |->
                            IF opened[q] = "workspace" THEN "destination"
                            ELSE opened[q]]
            /\ Goto(p, "syncparent")
       ELSE /\ Goto(p, "clean")
            /\ UNCHANGED <<workspace, destination, publisher, opened>>
    /\ UNCHANGED <<object, met, next, listed, result, faults>>
SyncParent(p) ==
    /\ pc[p] = "syncparent"
    /\ End(p, "ok")
    /\ UNCHANGED <<object, dirVars, next, rmVars, faults>>

(***************************************************************************)
(* shutil.rmtree(workspace, ignore_errors=True).                           *)
(***************************************************************************)
\* Mutant: nothing is removed.
OpenTree_Skip(p) ==
    /\ pc[p] = "clean"
    /\ End(p, "failed")
    /\ UNCHANGED <<object, dirVars, next, rmVars, faults>>
OpenTree(p) ==
    /\ pc[p] = "clean"
    /\ IF workspace = NoDir
       THEN End(p, "failed") /\ UNCHANGED rmVars
       ELSE /\ Goto(p, "remove")
            /\ opened' = [opened EXCEPT ![p] = "workspace"]
            /\ listed' = [listed EXCEPT ![p] =
                            {f \in Files : workspace[f] # "absent"}]
            /\ UNCHANGED result
    /\ UNCHANGED <<object, dirVars, next, faults>>
RemoveFile(p) ==
    /\ pc[p] = "remove"
    /\ \E f \in listed[p] :
         /\ listed' = [listed EXCEPT ![p] = @ \ {f}]
         /\ workspace' = IF opened[p] = "workspace"
                         THEN [workspace EXCEPT ![f] = "absent"] ELSE workspace
         /\ destination' = IF opened[p] = "destination"
                           THEN [destination EXCEPT ![f] = "absent"] ELSE destination
    /\ UNCHANGED <<object, publisher, met, pc, next, opened, result, faults>>
\* The directory at the path goes if it is empty.
RemoveTree(p) ==
    /\ pc[p] = "remove" /\ listed[p] = {}
    /\ End(p, "failed")
    /\ IF workspace = Empty
       THEN /\ workspace' = NoDir
            /\ opened' = [q \in Restorers |->
                            IF q = p \/ opened[q] = "workspace" THEN "none"
                            ELSE opened[q]]
       ELSE opened' = [opened EXCEPT ![p] = "none"] /\ UNCHANGED workspace
    /\ UNCHANGED <<object, destination, publisher, met, next, listed, faults>>

Crash(p) ==
    /\ pc[p] # "idle"
    /\ Spend("crash")
    /\ End(p, "none")
    /\ opened' = [opened EXCEPT ![p] = "none"]
    /\ listed' = [listed EXCEPT ![p] = {}]
    /\ UNCHANGED <<object, dirVars, next>>
\* The medium: an object of the store goes bad.
Rot ==
    /\ Spend("rot")
    /\ \E f \in Files : object[f] = "good" /\ object' = [object EXCEPT ![f] = "bad"]
    /\ UNCHANGED <<dirVars, pc, next, rmVars, result>>
\* Another program makes a directory at the destination path.
OutsiderMakesDestination ==
    /\ destination = NoDir
    /\ Spend("outsider")
    /\ destination' = Empty /\ publisher' = "outsider"
    /\ UNCHANGED <<object, workspace, met, pc, next, rmVars, result>>
\* The operator removes a workspace a dead restore left.
OperatorRemovesStale ==
    /\ \A p \in Restorers : pc[p] = "idle"
    /\ workspace # NoDir
    /\ workspace' = NoDir
    /\ UNCHANGED <<object, destination, publisher, met, pc, next, rmVars,
                   result, faults>>

Next ==
    \/ \E p \in Restorers :
         \/ Begin(p) \/ CheckWorkspace(p) \/ LoadManifest(p)
         \/ MakeWorkspace(p) \/ CopyFile(p) \/ Rebuild(p)
         \/ Publish(p) \/ SyncParent(p) \/ SyncFails(p)
         \/ OpenTree(p) \/ RemoveFile(p) \/ RemoveTree(p) \/ Crash(p)
    \/ Rot \/ OutsiderMakesDestination \/ OperatorRemovesStale

Spec == Init /\ [][Next]_vars

-----------------------------------------------------------------------------
Directories == {NoDir} \cup [Files -> {"absent", "good", "bad"}]
Labels ==
    {"idle", "checkws", "load", "mkdir", "copy", "rebuild", "publish",
     "syncparent", "clean", "remove"}

\* Every directory is one, and every restorer at a step of restore.
TypeOK ==
    /\ object \in [Files -> {"good", "bad"}]
    /\ workspace \in Directories /\ destination \in Directories
    /\ publisher \in Restorers \cup {"none", "outsider"}
    /\ met \in BOOLEAN
    /\ pc \in [Restorers -> Labels]
    /\ next \in [Restorers -> Files]
    /\ opened \in [Restorers -> {"none", "workspace", "destination"}]
    /\ listed \in [Restorers -> SUBSET Files]
    /\ result \in [Restorers -> {"none", "ok", "failed", "refused"}]
    /\ faults \in [DOMAIN NoFaults -> Nat]

\* restore: the manifest "is recomputed from the restored files and must
\* match".  A destination a restore made holds every file, as the manifest
\* has it, from the rename on, whatever happened to the store and to the
\* restores that failed or died, unless two restores met in the workspace.
RestoredIsWhole == publisher \in Restorers /\ ~met => destination = Whole

\* The same of every restore, as store.py has it: an existing workspace is
\* refused, never reused.
MeetingIsHarmless == publisher \in Restorers => destination = Whole

\* "without ever replacing a concurrent entry": once something is at the
\* destination, no restore puts something else there.
DestinationIsNotReplaced ==
    [][publisher # "none" => publisher' = publisher]_vars

\* A restore that did not die leaves no workspace, so that the next one is
\* not refused.
NoWorkspaceStays ==
    (\A p \in Restorers : pc[p] = "idle") /\ faults.crash = 0 => workspace = NoDir
=============================================================================
