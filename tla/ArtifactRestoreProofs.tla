----------------------- MODULE ArtifactRestoreProofs -----------------------
(***************************************************************************)
(* Theorems about ArtifactRestore, for any number of restores and files and *)
(* any faults.                                                             *)
(***************************************************************************)
EXTENDS ArtifactRestore, TLAPS

\* A restore that has the workspace or is about to remove what it finds there.
Building(p) == pc[p] \in {"copy", "rebuild", "publish"}
Active(p) == Building(p) \/ pc[p] \in {"clean", "remove"}

\* A directory is open in a removal only, and the open one is at its path.
OpenedAtPath ==
    \A p \in Restorers :
        /\ opened[p] # "none" => pc[p] = "remove"
        /\ opened[p] = "workspace" => workspace # NoDir
        /\ opened[p] = "destination" => destination # NoDir
\* What is at the destination was put there by somebody, and stays.
PublisherKnown ==
    /\ publisher # "none" <=> destination # NoDir
    /\ \A p \in Restorers : pc[p] = "syncparent" => destination # NoDir

\* As long as nothing is published and no restore met another, one restore has
\* the workspace, and what it is about to publish is what it verified.
OneAtWork ==
    ~met /\ destination = NoDir =>
        /\ \A p, q \in Restorers : Active(p) /\ Active(q) => p = q
        /\ \A p \in Restorers : Active(p) => workspace # NoDir
        /\ \A p \in Restorers : pc[p] = "publish" => workspace = Whole
\* Nor is a removal going on in what one of them published.
WholeAndLeftAlone ==
    publisher \in Restorers /\ ~met =>
        /\ destination = Whole
        /\ \A p \in Restorers : opened[p] # "destination"

\* A workspace has somebody who will publish it or has listed all of it.
Removes(p) ==
    /\ pc[p] = "remove" /\ opened[p] = "workspace"
    /\ \A f \in Files : workspace[f] # "absent" => f \in listed[p]
Attended ==
    faults.crash = 0 /\ workspace # NoDir =>
        \E p \in Restorers : Building(p) \/ pc[p] = "clean" \/ Removes(p)

\* The inductive invariant.
RestoreInv ==
    /\ TypeOK
    /\ OpenedAtPath
    /\ PublisherKnown
    /\ OneAtWork
    /\ WholeAndLeftAlone
    /\ Attended
-----------------------------------------------------------------------------
LEMMA DirectoryFacts ==
    /\ 1 \in Files /\ Files \subseteq Nat
    /\ Empty \in [Files -> {"absent", "good", "bad"}]
    /\ Whole \in [Files -> {"absent", "good", "bad"}]
    /\ NoDir # Empty /\ NoDir # Whole
    /\ \A d \in [Files -> {"absent", "good", "bad"}] : d # NoDir
  <1>1. 1 \in Files /\ Files \subseteq Nat
    BY NFilesAssumption DEF Files
  <1>2. DOMAIN NoDir = {}
    BY DEF NoDir
  <1>3. ASSUME NEW d \in [Files -> {"absent", "good", "bad"}] PROVE d # NoDir
    BY <1>1, <1>2
  <1> QED
    BY <1>1, <1>3 DEF Empty, Whole

LEMMA SpendFacts ==
    ASSUME TypeOK, NEW kind \in {"crash", "rot", "sync", "outsider"}, Spend(kind)
    PROVE  /\ faults' \in [DOMAIN NoFaults -> Nat]
           /\ kind # "crash" => faults'.crash = faults.crash
           /\ kind = "crash" => faults'.crash = faults.crash + 1
           /\ faults.crash \in Nat
  BY DEF TypeOK, Spend, NoFaults

\* A step of one restore, by the actions of Next.
RestoreStep(p) ==
    \/ Begin(p) \/ CheckWorkspace(p) \/ LoadManifest(p)
    \/ MakeWorkspace(p) \/ CopyFile(p) \/ Rebuild(p)
    \/ Publish(p) \/ SyncParent(p) \/ SyncFails(p)
    \/ OpenTree(p) \/ RemoveFile(p) \/ RemoveTree(p) \/ Crash(p)

\* No step changes the shape of the state.
LEMMA TypeStep ==
    ASSUME TypeOK, [Next]_vars
    PROVE  TypeOK'
  <1> USE DirectoryFacts DEF Goto, End
  <1>1. ASSUME NEW p \in Restorers, Begin(p) \/ CheckWorkspace(p) \/ LoadManifest(p)
        PROVE  TypeOK'
    BY <1>1 DEF Begin, CheckWorkspace, LoadManifest, TypeOK, dirVars, rmVars, Labels
  <1>2. ASSUME NEW p \in Restorers, MakeWorkspace(p)
        PROVE  TypeOK'
    BY <1>2, ZenonT(30) DEF MakeWorkspace, TypeOK, rmVars, Labels, Directories
  <1>3. ASSUME NEW p \in Restorers, CopyFile(p)
        PROVE  TypeOK'
    <2> DEFINE tree == IF workspace = NoDir THEN Empty ELSE workspace
    <2>1. tree \in [Files -> {"absent", "good", "bad"}] /\ next[p] \in Files
      BY DEF TypeOK, Directories
    <2>2. workspace' \in Directories
      BY <1>3, <2>1 DEF CopyFile, TypeOK, Directories
    <2>3. next[p] < NFiles => next[p] + 1 \in Files
      BY <2>1, NFilesAssumption DEF Files
    <2>4. next' \in [Restorers -> Files] /\ pc' \in [Restorers -> Labels]
      BY <1>3, <2>3 DEF CopyFile, TypeOK, Labels
    <2> QED
      BY <1>3, <2>2, <2>4 DEF CopyFile, TypeOK, rmVars
  <1>4. ASSUME NEW p \in Restorers, Rebuild(p) \/ SyncParent(p)
        PROVE  TypeOK'
    BY <1>4 DEF Rebuild, SyncParent, TypeOK, dirVars, rmVars, Labels
  <1>5. ASSUME NEW p \in Restorers, Publish(p)
        PROVE  TypeOK'
    BY <1>5 DEF Publish, TypeOK, Labels, Directories
  <1>6. ASSUME NEW p \in Restorers, SyncFails(p) \/ Crash(p)
        PROVE  TypeOK'
    BY <1>6, SpendFacts DEF SyncFails, Crash, TypeOK, dirVars, rmVars, Labels
  <1>7. ASSUME NEW p \in Restorers, OpenTree(p)
        PROVE  TypeOK'
    BY <1>7 DEF OpenTree, TypeOK, dirVars, rmVars, Labels
  <1>8. ASSUME NEW p \in Restorers, RemoveFile(p)
        PROVE  TypeOK'
    <2>1. PICK f \in listed[p] :
            /\ listed' = [listed EXCEPT ![p] = @ \ {f}]
            /\ \/ workspace' = [workspace EXCEPT ![f] = "absent"] /\ destination' = destination
               \/ destination' = [destination EXCEPT ![f] = "absent"] /\ workspace' = workspace
               \/ UNCHANGED <<workspace, destination>>
      BY <1>8 DEF RemoveFile
    <2>2. f \in Files /\ listed' \in [Restorers -> SUBSET Files]
      BY <2>1 DEF TypeOK
    <2>3. ASSUME NEW d \in Directories PROVE [d EXCEPT ![f] = "absent"] \in Directories
      <3>1. CASE d = NoDir
        <4>1. [d EXCEPT ![f] = "absent"] = NoDir
          BY <3>1 DEF NoDir
        <4> QED
          BY <4>1 DEF Directories
      <3>2. CASE d \in [Files -> {"absent", "good", "bad"}]
        BY <3>2, <2>2 DEF Directories
      <3> QED
        BY <3>1, <3>2 DEF Directories
    <2>4. workspace' \in Directories /\ destination' \in Directories
      BY <2>1, <2>3 DEF TypeOK
    <2> QED
      BY <1>8, <2>2, <2>4 DEF RemoveFile, TypeOK
  <1>9. ASSUME NEW p \in Restorers, RemoveTree(p)
        PROVE  TypeOK'
    BY <1>9 DEF RemoveTree, TypeOK, Labels, Directories
  <1>10. CASE Rot
    BY <1>10, SpendFacts DEF Rot, TypeOK, dirVars, rmVars
  <1>11. CASE OutsiderMakesDestination
    BY <1>11, SpendFacts DEF OutsiderMakesDestination, TypeOK, rmVars, Directories
  <1>12. CASE OperatorRemovesStale
    BY <1>12 DEF OperatorRemovesStale, TypeOK, rmVars, Directories
  <1>13. CASE UNCHANGED vars
    BY <1>13 DEF vars, TypeOK, dirVars, rmVars
  <1> QED
    BY <1>1, <1>2, <1>3, <1>4, <1>5, <1>6, <1>7, <1>8, <1>9, <1>10, <1>11, <1>12, <1>13 DEF Next

-----------------------------------------------------------------------------
\* What the actions do to the control of the restores, for those parts of the
\* invariant that speak of nothing else.
LEMMA OpenedStep ==
    ASSUME RestoreInv, [Next]_vars
    PROVE  OpenedAtPath'
  <1> USE DirectoryFacts DEF RestoreInv, Goto, End
  <1>1. ASSUME NEW p \in Restorers,
               Begin(p) \/ CheckWorkspace(p) \/ LoadManifest(p) \/ Rebuild(p)
                 \/ SyncParent(p) \/ SyncFails(p)
        PROVE  OpenedAtPath'
    BY <1>1 DEF Begin, CheckWorkspace, LoadManifest, Rebuild, SyncParent, SyncFails,
                OpenedAtPath, TypeOK, dirVars, rmVars
  <1>2. ASSUME NEW p \in Restorers, MakeWorkspace(p)
        PROVE  OpenedAtPath'
    BY <1>2 DEF MakeWorkspace, OpenedAtPath, TypeOK, rmVars
  <1>3. ASSUME NEW p \in Restorers, CopyFile(p)
        PROVE  OpenedAtPath'
    <2>1. workspace' # NoDir
      <3>1. (IF workspace = NoDir THEN Empty ELSE workspace) \in [Files -> {"absent", "good", "bad"}]
        BY DEF TypeOK, Directories
      <3>2. workspace' \in [Files -> {"absent", "good", "bad"}]
        BY <1>3, <3>1 DEF CopyFile, TypeOK
      <3> QED
        BY <3>2
    <2>2. UNCHANGED <<destination, opened>> /\ \A q \in Restorers : pc'[q] # pc[q] => pc[q] = "copy"
      BY <1>3 DEF CopyFile, TypeOK, rmVars
    <2> QED
      BY <2>1, <2>2 DEF OpenedAtPath
  <1>4. ASSUME NEW p \in Restorers, Publish(p)
        PROVE  OpenedAtPath'
    <2>1. CASE workspace # NoDir /\ destination = NoDir
      BY <1>4, <2>1 DEF Publish, OpenedAtPath, TypeOK
    <2>2. CASE ~(workspace # NoDir /\ destination = NoDir)
      BY <1>4, <2>2 DEF Publish, OpenedAtPath, TypeOK
    <2> QED
      BY <2>1, <2>2
  <1>5. ASSUME NEW p \in Restorers, OpenTree(p)
        PROVE  OpenedAtPath'
    BY <1>5 DEF OpenTree, OpenedAtPath, TypeOK, dirVars, rmVars
  <1>6. ASSUME NEW p \in Restorers, RemoveFile(p)
        PROVE  OpenedAtPath'
    <2>1. /\ workspace # NoDir => workspace' # NoDir
          /\ destination # NoDir => destination' # NoDir
      BY <1>6 DEF RemoveFile, TypeOK, Directories
    <2> QED
      BY <1>6, <2>1 DEF RemoveFile, OpenedAtPath
  <1>7. ASSUME NEW p \in Restorers, RemoveTree(p)
        PROVE  OpenedAtPath'
    BY <1>7 DEF RemoveTree, OpenedAtPath, TypeOK
  <1>8. ASSUME NEW p \in Restorers, Crash(p)
        PROVE  OpenedAtPath'
    BY <1>8 DEF Crash, OpenedAtPath, TypeOK, dirVars
  <1>9. CASE OutsiderMakesDestination \/ Rot \/ UNCHANGED vars
    BY <1>9 DEF OutsiderMakesDestination, Rot, OpenedAtPath, rmVars, dirVars, vars
  <1>10. CASE OperatorRemovesStale
    BY <1>10 DEF OperatorRemovesStale, OpenedAtPath, rmVars
  <1> QED
    BY <1>1, <1>2, <1>3, <1>4, <1>5, <1>6, <1>7, <1>8, <1>9, <1>10 DEF Next

\* The destination is made once, and only when nothing is there.
LEMMA DestinationStep ==
    ASSUME RestoreInv, [Next]_vars
    PROVE  /\ PublisherKnown'
           /\ destination # NoDir => destination' # NoDir /\ publisher' = publisher
           /\ destination = NoDir /\ destination' # NoDir =>
                \/ publisher' = "outsider"
                \/ \E p \in Restorers :
                      /\ Publish(p) /\ publisher' = p /\ destination' = workspace
  <1> USE DirectoryFacts DEF RestoreInv, Goto, End
  <1>1. ASSUME NEW p \in Restorers, Publish(p), workspace # NoDir, destination = NoDir
        PROVE  /\ destination' = workspace /\ publisher' = p
               /\ publisher' # "none" /\ destination' # NoDir
    BY <1>1, RestorersAssumption DEF Publish
  <1>2. ASSUME NEW p \in Restorers, RestoreStep(p), ~(Publish(p) /\ workspace # NoDir /\ destination = NoDir)
        PROVE  /\ publisher' = publisher
               /\ destination # NoDir => destination' # NoDir
               /\ destination = NoDir => destination' = NoDir
               /\ \A q \in Restorers : pc'[q] = "syncparent" => pc[q] = "syncparent"
    <2>1. CASE RemoveFile(p)
      BY <2>1 DEF RemoveFile, TypeOK, Directories, OpenedAtPath
    <2>2. CASE ~RemoveFile(p)
      BY <1>2, <2>2
         DEF RestoreStep, Begin, CheckWorkspace, LoadManifest, MakeWorkspace, CopyFile, Rebuild,
             Publish, SyncParent, SyncFails, OpenTree, RemoveTree, Crash, TypeOK, dirVars
    <2> QED
      BY <2>1, <2>2
  <1>3. ASSUME Rot \/ OperatorRemovesStale \/ UNCHANGED vars
        PROVE  UNCHANGED <<destination, publisher, pc>>
    BY <1>3 DEF Rot, OperatorRemovesStale, vars, dirVars
  <1>4. ASSUME OutsiderMakesDestination
        PROVE  /\ destination = NoDir /\ destination' # NoDir /\ publisher' = "outsider"
               /\ pc' = pc
    BY <1>4 DEF OutsiderMakesDestination
  <1>5. \/ \E p \in Restorers : RestoreStep(p)
        \/ Rot \/ OperatorRemovesStale \/ UNCHANGED vars \/ OutsiderMakesDestination
    BY DEF Next, RestoreStep
  <1> QED
    BY <1>1, <1>2, <1>3, <1>4, <1>5 DEF PublisherKnown

\* A restore that meets nobody is alone with the workspace until it publishes.
LEMMA OneAtWorkStep ==
    ASSUME RestoreInv, [Next]_vars
    PROVE  OneAtWork'
  <1> SUFFICES ASSUME ~met', destination' = NoDir
               PROVE  /\ \A p, q \in Restorers : Active(p)' /\ Active(q)' => p = q
                      /\ \A p \in Restorers : Active(p)' => workspace' # NoDir
                      /\ \A p \in Restorers : pc'[p] = "publish" => workspace' = Whole
    BY DEF OneAtWork
  <1> USE DirectoryFacts DEF RestoreInv, Goto, End, Active, Building
  <1>1. destination = NoDir
    BY DestinationStep
  <1>2. ~met
    BY DEF Next, Begin, CheckWorkspace, LoadManifest, MakeWorkspace, CopyFile, Rebuild, Publish,
           SyncParent, SyncFails, OpenTree, RemoveFile, RemoveTree, Crash, Rot,
           OutsiderMakesDestination, OperatorRemovesStale, dirVars, vars
  <1>3. /\ \A p, q \in Restorers : Active(p) /\ Active(q) => p = q
        /\ \A p \in Restorers : Active(p) => workspace # NoDir
        /\ \A p \in Restorers : pc[p] = "publish" => workspace = Whole
    BY <1>1, <1>2 DEF OneAtWork
  <1>4. ASSUME NEW p \in Restorers,
               Begin(p) \/ CheckWorkspace(p) \/ LoadManifest(p) \/ Rebuild(p) \/ SyncParent(p)
                 \/ OpenTree(p) \/ Crash(p)
        PROVE  /\ workspace' = workspace
               /\ \A q \in Restorers : Active(q)' => Active(q)
               /\ \A q \in Restorers : pc'[q] = "publish" => pc[q] = "publish" \/ workspace = Whole
    BY <1>4 DEF Begin, CheckWorkspace, LoadManifest, Rebuild, SyncParent, OpenTree, Crash,
                TypeOK, dirVars
  <1>5. ASSUME NEW p \in Restorers, MakeWorkspace(p)
        PROVE  /\ workspace = NoDir /\ workspace' # NoDir
               /\ \A q \in Restorers : Active(q)' => q = p
               /\ \A q \in Restorers : pc'[q] # "publish"
    BY <1>2, <1>3, <1>5 DEF MakeWorkspace, TypeOK
  <1>6. ASSUME NEW p \in Restorers, CopyFile(p) \/ RemoveFile(p)
        PROVE  /\ workspace' # NoDir /\ Active(p)
               /\ \A q \in Restorers : Active(q)' => Active(q)
               /\ \A q \in Restorers : pc'[q] # "publish"
    <2>1. Active(p) /\ workspace # NoDir /\ \A q \in Restorers : pc[q] # "publish"
      BY <1>3, <1>6 DEF CopyFile, RemoveFile
    <2>2. workspace \in [Files -> {"absent", "good", "bad"}]
      BY <2>1 DEF TypeOK, Directories
    <2>3. workspace' \in [Files -> {"absent", "good", "bad"}]
      BY <1>6, <2>1, <2>2 DEF CopyFile, RemoveFile, TypeOK
    <2> QED
      BY <1>6, <2>1, <2>3 DEF CopyFile, RemoveFile, TypeOK
  <1>7. ASSUME NEW p \in Restorers, Publish(p)
        PROVE  FALSE
    BY <1>1, <1>3, <1>7 DEF Publish
  <1>8. ASSUME NEW p \in Restorers, SyncFails(p)
        PROVE  /\ workspace' = workspace
               /\ \A q \in Restorers : Active(q)' => Active(q)
               /\ \A q \in Restorers : pc'[q] = "publish" => pc[q] = "publish"
    BY <1>1, <1>8 DEF SyncFails, PublisherKnown, TypeOK, dirVars
  <1>9. ASSUME NEW p \in Restorers, RemoveTree(p)
        PROVE  \A q \in Restorers : ~Active(q)'
    BY <1>3, <1>9 DEF RemoveTree, TypeOK
  <1>10. ASSUME OperatorRemovesStale
         PROVE  \A q \in Restorers : ~Active(q)'
    BY <1>10 DEF OperatorRemovesStale
  <1>11. ASSUME Rot \/ OutsiderMakesDestination \/ UNCHANGED vars
         PROVE  UNCHANGED <<workspace, pc>>
    BY <1>11 DEF Rot, OutsiderMakesDestination, vars, dirVars
  <1> QED
    BY <1>3, <1>4, <1>5, <1>6, <1>7, <1>8, <1>9, <1>10, <1>11 DEF Next

\* What one restore published alone is whole and no removal is going on in it.
LEMMA WholeStep ==
    ASSUME RestoreInv, [Next]_vars
    PROVE  WholeAndLeftAlone'
  <1> SUFFICES ASSUME publisher' \in Restorers, ~met'
               PROVE  /\ destination' = Whole
                      /\ \A p \in Restorers : opened'[p] # "destination"
    BY DEF WholeAndLeftAlone
  <1> USE DEF RestoreInv, Goto, End
  <1>1. ~met
    BY DEF Next, Begin, CheckWorkspace, LoadManifest, MakeWorkspace, CopyFile, Rebuild, Publish,
           SyncParent, SyncFails, OpenTree, RemoveFile, RemoveTree, Crash, Rot,
           OutsiderMakesDestination, OperatorRemovesStale, dirVars, vars
  <1>2. publisher' # "none" /\ publisher' # "outsider"
    BY RestorersAssumption
  <1>3. CASE destination # NoDir
    <2>1. publisher' = publisher
      BY <1>3, DestinationStep
    <2>2. destination = Whole /\ \A p \in Restorers : opened[p] # "destination"
      BY <1>1, <2>1 DEF WholeAndLeftAlone
    <2>3. destination' = destination
      BY <1>3, <2>2
         DEF Next, Begin, CheckWorkspace, LoadManifest, MakeWorkspace, CopyFile, Rebuild, Publish,
             SyncParent, SyncFails, OpenTree, RemoveFile, RemoveTree, Crash, Rot,
             OutsiderMakesDestination, OperatorRemovesStale, dirVars, vars
    <2>4. \A p \in Restorers : opened'[p] # "destination"
      BY <1>3, <2>2
         DEF Next, Begin, CheckWorkspace, LoadManifest, MakeWorkspace, CopyFile, Rebuild, Publish,
             SyncParent, SyncFails, OpenTree, RemoveFile, RemoveTree, Crash, Rot,
             OutsiderMakesDestination, OperatorRemovesStale, dirVars, rmVars, vars, TypeOK
    <2> QED
      BY <2>2, <2>3, <2>4
  <1>4. CASE destination = NoDir
    <2>1. destination' # NoDir
      BY <1>2, DestinationStep DEF PublisherKnown
    <2>2. PICK p \in Restorers : Publish(p) /\ destination' = workspace
      BY <1>2, <1>4, <2>1, DestinationStep
    <2>3. pc[p] = "publish" /\ workspace = Whole
      BY <1>1, <1>4, <2>2 DEF Publish, OneAtWork
    <2>4. ASSUME NEW q \in Restorers PROVE opened'[q] # "destination"
      <3>1. opened[q] # "workspace"
        BY <1>1, <1>4, <2>3 DEF OpenedAtPath, OneAtWork, Active, Building
      <3>2. opened[q] # "destination"
        BY <1>4 DEF OpenedAtPath
      <3> QED
        BY <2>2, <3>1, <3>2 DEF Publish
    <2> QED
      BY <2>2, <2>3, <2>4
  <1> QED
    BY <1>3, <1>4

\* As long as nobody died, the workspace has somebody who deals with it.
LEMMA AttendedStep ==
    ASSUME RestoreInv, [Next]_vars
    PROVE  Attended'
  <1> DEFINE Attends(p) == Building(p) \/ pc[p] = "clean" \/ Removes(p)
  <1> SUFFICES ASSUME faults'.crash = 0, workspace' # NoDir
               PROVE  \E p \in Restorers : Attends(p)'
    BY DEF Attended
  <1> USE DEF RestoreInv, Goto, End
  <1>1. ASSUME NEW p \in Restorers,
               Begin(p) \/ CheckWorkspace(p) \/ LoadManifest(p) \/ SyncParent(p)
        PROVE  /\ UNCHANGED <<workspace, faults>>
               /\ \A q \in Restorers : Attends(q) => Attends(q)'
    BY <1>1 DEF Begin, CheckWorkspace, LoadManifest, SyncParent, TypeOK, dirVars, rmVars,
                Building, Removes
  <1>2. ASSUME NEW p \in Restorers,
               MakeWorkspace(p) \/ CopyFile(p) \/ Rebuild(p) \/ SyncFails(p) \/ Publish(p)
        PROVE  Attends(p)'
    BY <1>2 DEF MakeWorkspace, CopyFile, Rebuild, SyncFails, Publish, TypeOK, Building
  <1>3. ASSUME NEW p \in Restorers, OpenTree(p)
        PROVE  Attends(p)'
    BY <1>3 DEF OpenTree, TypeOK, Removes, dirVars
  <1>4. ASSUME NEW p \in Restorers, RemoveFile(p)
        PROVE  /\ workspace # NoDir /\ faults' = faults
               /\ \A q \in Restorers : Attends(q) => Attends(q)'
    <2>1. PICK f \in listed[p] :
            /\ listed' = [listed EXCEPT ![p] = @ \ {f}]
            /\ workspace' = IF opened[p] = "workspace"
                            THEN [workspace EXCEPT ![f] = "absent"] ELSE workspace
            /\ UNCHANGED <<pc, opened, faults>>
      BY <1>4 DEF RemoveFile
    <2>2. workspace # NoDir
      BY <2>1 DEF OpenedAtPath
    <2>3. f \in Files /\ workspace \in [Files -> {"absent", "good", "bad"}]
      BY <2>1, <2>2 DEF TypeOK, Directories
    <2>4. ASSUME NEW q \in Restorers, Removes(q) PROVE Removes(q)'
      BY <2>1, <2>3, <2>4 DEF Removes, TypeOK
    <2> QED
      BY <2>1, <2>2, <2>4 DEF Building
  <1>5. ASSUME NEW p \in Restorers, RemoveTree(p)
        PROVE  /\ workspace # NoDir /\ faults' = faults
               /\ \A q \in Restorers : Attends(q) => Attends(q)'
    <2>1. workspace # Empty /\ workspace' = workspace
      BY <1>5 DEF RemoveTree
    <2>2. workspace # NoDir /\ workspace \in [Files -> {"absent", "good", "bad"}]
      BY <2>1 DEF TypeOK, Directories
    <2>3. ~Attends(p)
      <3>1. listed[p] = {} /\ pc[p] = "remove"
        BY <1>5 DEF RemoveTree
      <3>2. ~Removes(p)
        BY <2>1, <2>2, <3>1 DEF Removes, Empty
      <3> QED
        BY <3>1, <3>2 DEF Building
    <2>4. ASSUME NEW q \in Restorers, q # p, Attends(q) PROVE Attends(q)'
      BY <1>5, <2>1, <2>4 DEF RemoveTree, TypeOK, Building, Removes
    <2> QED
      BY <1>5, <2>2, <2>3, <2>4 DEF RemoveTree
  <1>6. ASSUME NEW p \in Restorers, Crash(p)
        PROVE  FALSE
    BY <1>6, SpendFacts DEF Crash
  <1>7. ASSUME Rot \/ OutsiderMakesDestination
        PROVE  UNCHANGED <<workspace, pc, opened, listed>> /\ faults'.crash = faults.crash
    BY <1>7, SpendFacts DEF Rot, OutsiderMakesDestination, dirVars, rmVars
  <1>8. ASSUME UNCHANGED vars
        PROVE  UNCHANGED <<workspace, pc, opened, listed, faults>>
    BY <1>8 DEF vars, dirVars, rmVars
  <1>9. ASSUME OperatorRemovesStale
        PROVE  FALSE
    BY <1>9 DEF OperatorRemovesStale
  <1>10. faults.crash = 0 /\ workspace # NoDir => \E p \in Restorers : Attends(p)
    BY DEF Attended
  <1>11. ASSUME Rot \/ OutsiderMakesDestination \/ UNCHANGED vars
         PROVE  \E p \in Restorers : Attends(p)'
    BY <1>7, <1>8, <1>10, <1>11 DEF Building, Removes
  <1> QED
    BY <1>1, <1>2, <1>3, <1>4, <1>5, <1>6, <1>9, <1>10, <1>11 DEF Next

-----------------------------------------------------------------------------
\* The inductive invariant holds when the restores start and after every step.
LEMMA RestoreInvHolds == Spec => []RestoreInv
  <1>1. Init => RestoreInv
    <2> SUFFICES ASSUME Init PROVE RestoreInv
      OBVIOUS
    <2>1. TypeOK
      <3>1. object \in [Files -> {"good", "bad"}] /\ workspace \in Directories
        BY DirectoryFacts DEF Init, Directories, Whole
      <3>2. met \in BOOLEAN
        BY DEF Init
      <3>3. pc \in [Restorers -> Labels] /\ next \in [Restorers -> Files]
        BY DirectoryFacts DEF Init, Labels
      <3>4. faults \in [DOMAIN NoFaults -> Nat]
        BY DEF Init, NoFaults
      <3> QED
        BY <3>1, <3>2, <3>3, <3>4 DEF Init, TypeOK
    <2>2. OpenedAtPath /\ PublisherKnown /\ OneAtWork /\ WholeAndLeftAlone /\ Attended
      BY RestorersAssumption
         DEF Init, OpenedAtPath, PublisherKnown, OneAtWork, WholeAndLeftAlone, Attended,
             Active, Building
    <2> QED
      BY <2>1, <2>2 DEF RestoreInv
  <1>2. RestoreInv /\ [Next]_vars => RestoreInv'
    <2> SUFFICES ASSUME RestoreInv, [Next]_vars PROVE RestoreInv'
      OBVIOUS
    <2>1. TypeOK'
      BY TypeStep DEF RestoreInv
    <2> QED
      BY <2>1, OpenedStep, DestinationStep, OneAtWorkStep, WholeStep, AttendedStep
         DEF RestoreInv
  <1> QED
    BY <1>1, <1>2, PTL DEF Spec

\* Type correctness of restore.
THEOREM RestoreTypeCorrect == Spec => []TypeOK
  <1>1. RestoreInv => TypeOK
    BY DEF RestoreInv
  <1> QED
    BY <1>1, RestoreInvHolds, PTL

\* FilesystemStore.restore, store.py: what a restore published holds every file
\* as the manifest has it, for any number of restores, files and faults, as long
\* as no two restores met in the workspace.
THEOREM PublishedIsWhole == Spec => []RestoredIsWhole
  <1>1. RestoreInv => RestoredIsWhole
    BY DEF RestoreInv, RestoredIsWhole, WholeAndLeftAlone
  <1> QED
    BY <1>1, RestoreInvHolds, PTL

\* restore removes its workspace on every failure: when nobody died and nobody
\* is at work, none is left to refuse the next restore.
THEOREM WorkspaceIsRemoved == Spec => []NoWorkspaceStays
  <1>1. RestoreInv => NoWorkspaceStays
    BY DEF RestoreInv, NoWorkspaceStays, Attended, Building, Removes
  <1> QED
    BY <1>1, RestoreInvHolds, PTL

\* _rename_directory_no_replace: whoever made the destination, no restore puts
\* something else in its place.
THEOREM DestinationStays == Spec => DestinationIsNotReplaced
  <1>1. RestoreInv /\ [Next]_vars => [publisher # "none" => publisher' = publisher]_vars
    <2> SUFFICES ASSUME RestoreInv, [Next]_vars, publisher # "none"
                 PROVE  publisher' = publisher
      OBVIOUS
    <2> QED
      BY DestinationStep DEF RestoreInv, PublisherKnown
  <1> QED
    BY <1>1, RestoreInvHolds, PTL DEF Spec, DestinationIsNotReplaced
=============================================================================
