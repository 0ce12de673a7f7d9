------------------------ MODULE ArtifactStoreProofs ------------------------
(***************************************************************************)
(* Theorems about ArtifactStore, for any processes, manifests and faults.   *)
(***************************************************************************)
EXTENDS ArtifactStore, TLAPS

\* A process that made the file at the path of its item is not done with it.
Holding(p) == pc[p] \in {"unlink", "readback", "discard"}

PathHeld == \A p \in Processes : Holding(p) => store[Item(p)] # "absent"
OneHolder ==
    \A p, q \in Processes :
        Holding(p) /\ Holding(q) /\ Item(p) = Item(q) => p = q
DiscardsBad ==
    \A p \in Processes :
        pc[p] = "discard" => Item(p) \in Objects /\ store[Item(p)] = "bad"
\* Item i is there, or was spoiled by the medium.
Kept(i) == store[i] = "good" \/ i \in rotted
DoneKept ==
    \A p \in Processes :
        pc[p] # "idle" => \A k \in 1..(next[p] - 1) : Kept(Todo(p)[k])

\* The inductive invariant.
StoreInv ==
    /\ TypeOK
    /\ PathHeld
    /\ OneHolder
    /\ DiscardsBad
    /\ DoneKept
    /\ ManifestImpliesObjects

-----------------------------------------------------------------------------
\* The list of a process is the files of its manifest and then the manifest.
LEMMA TodoFacts ==
    ASSUME NEW p \in Processes
    PROVE  /\ Job[p] \in Artifacts
           /\ Files[Job[p]] \in Seq(Objects)
           /\ Len(Files[Job[p]]) \in Nat
           /\ Len(Todo(p)) = Len(Files[Job[p]]) + 1
           /\ \A k \in 1..Len(Files[Job[p]]) :
                Todo(p)[k] = Files[Job[p]][k] /\ Todo(p)[k] \in Objects
           /\ Todo(p)[Len(Todo(p))] = Job[p]
  <1>1. Job[p] \in Artifacts
    BY JobAssumption
  <1>2. Files[Job[p]] \in Seq(Objects)
    BY <1>1, FilesAssumption
  <1> QED
    BY <1>1, <1>2 DEF Todo

\* The item a process works on is an item, and a manifest only at the end.
LEMMA ItemFacts ==
    ASSUME TypeOK, NEW p \in Processes
    PROVE  /\ Item(p) \in Items
           /\ Item(p) \in Artifacts =>
                Item(p) = Job[p] /\ next[p] = Len(Files[Job[p]]) + 1
  <1>1. next[p] \in 1..(Len(Files[Job[p]]) + 1)
    BY TodoFacts DEF TypeOK
  <1>2. CASE next[p] = Len(Files[Job[p]]) + 1
    BY <1>2, TodoFacts DEF Item, Items
  <1>3. CASE next[p] \in 1..Len(Files[Job[p]])
    <2>1. Item(p) \in Objects
      BY <1>3, TodoFacts DEF Item
    <2> QED
      BY <2>1, ItemsAssumption DEF Items
  <1> QED
    BY <1>1, <1>2, <1>3, TodoFacts

\* Advance and Fail move one process, to "check" or "idle".
LEMMA AdvanceFacts ==
    ASSUME NEW p \in Processes, TypeOK, Advance(p) \/ Fail(p)
    PROVE  /\ pc' \in [Processes -> Labels]
           /\ next' \in [Processes -> Nat \ {0}]
           /\ \A q \in Processes : next'[q] <= Len(Todo(q))
           /\ pc'[p] \in {"check", "idle"}
           /\ pc'[p] = "check" => next'[p] = next[p] + 1
           /\ \A q \in Processes \ {p} : pc'[q] = pc[q] /\ next'[q] = next[q]
  <1> USE DEF TypeOK, Labels
  <1>1. CASE Goto(p, "idle") /\ UNCHANGED next
    BY <1>1 DEF Goto
  <1>2. CASE /\ next[p] < Len(Todo(p))
             /\ Goto(p, "check")
             /\ next' = [next EXCEPT ![p] = @ + 1]
    <2>1. next[p] \in Nat \ {0} /\ next[p] + 1 \in Nat \ {0}
      OBVIOUS
    <2>2. next[p] + 1 <= Len(Todo(p))
      BY <1>2, <2>1, TodoFacts
    <2> QED
      BY <1>2, <2>1, <2>2 DEF Goto
  <1> QED
    BY <1>1, <1>2 DEF Advance, Fail

\* One step of a process moves that process and no other.
LEMMA OneMoves ==
    ASSUME NEW p \in Processes, TypeOK,
           Step(p) \/ SourceFails(p) \/ Crash(p)
    PROVE  \A q \in Processes \ {p} : pc'[q] = pc[q] /\ next'[q] = next[q]
  <1>1. \A label : Goto(p, label) => \A q \in Processes \ {p} : pc'[q] = pc[q]
    BY DEF Goto, TypeOK
  <1>2. CASE Start(p)
    BY <1>1, <1>2 DEF Start, TypeOK
  <1>3. CASE CheckExisting(p) \/ Recheck(p) \/ ReadBack(p)
    <2>1. \/ Advance(p) \/ Fail(p)
          \/ \E label : Goto(p, label) /\ UNCHANGED next
      BY <1>3 DEF CheckExisting, Recheck, ReadBack
    <2> QED
      BY <1>1, <2>1, AdvanceFacts
  <1>4. CASE WriteTemp(p) \/ Link(p) \/ RemoveTemp(p) \/ Crash(p)
    BY <1>1, <1>4 DEF WriteTemp, Link, RemoveTemp, Crash
  <1>5. CASE Discard(p) \/ SourceFails(p)
    BY <1>1, <1>5 DEF Discard, SourceFails, Fail
  <1> QED
    BY <1>2, <1>3, <1>4, <1>5 DEF Step

-----------------------------------------------------------------------------
\* The store keeps its shape.
LEMMA TypeStep ==
    ASSUME TypeOK, [Next]_vars
    PROVE  TypeOK'
  <1>1. ASSUME NEW p \in Processes, Step(p) \/ SourceFails(p) \/ Crash(p)
        PROVE  TypeOK'
    <2> USE DEF TypeOK
    <2>1. Item(p) \in Items
      BY ItemFacts
    <2>2. \A kind \in DOMAIN NoFaults :
            Spend(kind) => faults' \in [DOMAIN NoFaults -> Nat]
      BY DEF Spend
    <2>3. \A label \in Labels : Goto(p, label) => pc' \in [Processes -> Labels]
      BY DEF Goto
    <2>4. CASE Start(p)
      <3>1. pc' \in [Processes -> Labels]
        BY <2>3, <2>4 DEF Start, Labels
      <3>2. next' \in [Processes -> Nat \ {0}]
            /\ \A q \in Processes : next'[q] <= Len(Todo(q))
        BY <2>4, TodoFacts DEF Start
      <3> QED
        BY <2>4, <3>1, <3>2 DEF Start, Todo
    <2>5. CASE CheckExisting(p) \/ Recheck(p) \/ ReadBack(p)
      <3>1. \/ Advance(p) \/ Fail(p)
            \/ \E label \in Labels : Goto(p, label) /\ UNCHANGED next
        BY <2>5 DEF CheckExisting, Recheck, ReadBack, Labels
      <3>2. pc' \in [Processes -> Labels]
            /\ next' \in [Processes -> Nat \ {0}]
            /\ \A q \in Processes : next'[q] <= Len(Todo(q))
        BY <2>3, <3>1, AdvanceFacts
      <3>3. UNCHANGED <<store, temps, data, rotted, faults>>
        BY <2>5 DEF CheckExisting, Recheck, ReadBack
      <3> QED
        BY <3>2, <3>3 DEF Todo
    <2>6. CASE WriteTemp(p)
      <3>1. pc' \in [Processes -> Labels]
        BY <2>3, <2>6 DEF WriteTemp, Labels
      <3>2. data' \in [Processes -> {"good", "bad"}]
        BY <2>6 DEF WriteTemp
      <3>3. faults' \in [DOMAIN NoFaults -> Nat]
        BY <2>2, <2>6 DEF WriteTemp, NoFaults
      <3> QED
        BY <2>1, <2>6, <3>1, <3>2, <3>3 DEF WriteTemp, Todo
    <2>7. CASE Link(p)
      <3>1. pc' \in [Processes -> Labels]
        BY <2>3, <2>7 DEF Link, Labels
      <3>2. store' \in [Items -> Contents]
        BY <2>1, <2>7 DEF Link, Contents
      <3> QED
        BY <2>7, <3>1, <3>2 DEF Link, Todo
    <2>8. CASE RemoveTemp(p)
      <3>1. pc' \in [Processes -> Labels]
        BY <2>3, <2>8 DEF RemoveTemp, Labels
      <3> QED
        BY <2>8, <3>1 DEF RemoveTemp, Todo
    <2>9. CASE Discard(p)
      <3>1. pc' \in [Processes -> Labels]
        BY <2>3, <2>9 DEF Discard, Fail, Labels
      <3>2. store' \in [Items -> Contents]
        BY <2>1, <2>9 DEF Discard, Contents
      <3> QED
        BY <2>9, <3>1, <3>2 DEF Discard, Fail, Todo
    <2>10. CASE SourceFails(p)
      <3>1. pc' \in [Processes -> Labels]
        BY <2>3, <2>10 DEF SourceFails, Fail, Labels
      <3>2. faults' \in [DOMAIN NoFaults -> Nat]
        BY <2>2, <2>10 DEF SourceFails, NoFaults
      <3> QED
        BY <2>10, <3>1, <3>2 DEF SourceFails, Fail, Todo
    <2>11. CASE Crash(p)
      <3>1. pc' \in [Processes -> Labels]
        BY <2>3, <2>11 DEF Crash, Labels
      <3>2. faults' \in [DOMAIN NoFaults -> Nat]
        BY <2>2, <2>11 DEF Crash, NoFaults
      <3>3. temps' \subseteq Processes \X Items
        BY <2>1, <2>11 DEF Crash
      <3> QED
        BY <2>11, <3>1, <3>2, <3>3 DEF Crash, Todo
    <2> QED
      BY <1>1, <2>4, <2>5, <2>6, <2>7, <2>8, <2>9, <2>10, <2>11 DEF Step
  <1>2. CASE Rot
    BY <1>2 DEF Rot, Spend, TypeOK, Contents, NoFaults, Todo
  <1>3. CASE UNCHANGED vars
    BY <1>3 DEF vars, TypeOK, Todo
  <1> QED
    BY <1>1, <1>2, <1>3 DEF Next

-----------------------------------------------------------------------------
\* What one step of a process does to the store: nothing, or it makes a file
\* where there was none, or it removes a bad object it holds.
LEMMA StoreStep ==
    ASSUME NEW p \in Processes, StoreInv,
           Step(p) \/ SourceFails(p) \/ Crash(p)
    PROVE  /\ rotted' = rotted
           /\ \A i \in Items \ {Item(p)} : store'[i] = store[i]
           /\ \/ store' = store
              \/ Link(p) /\ store[Item(p)] = "absent"
              \/ Discard(p) /\ store[Item(p)] = "bad"
  <1>1. CASE Link(p)
    BY <1>1 DEF Link, StoreInv, TypeOK
  <1>2. CASE Discard(p)
    BY <1>2 DEF Discard, StoreInv, TypeOK, DiscardsBad
  <1>3. CASE \/ Start(p) \/ CheckExisting(p) \/ WriteTemp(p) \/ RemoveTemp(p)
             \/ Recheck(p) \/ ReadBack(p) \/ SourceFails(p) \/ Crash(p)
    <2>1. UNCHANGED <<store, rotted>>
      BY <1>3 DEF Start, CheckExisting, WriteTemp, RemoveTemp, Recheck,
                  ReadBack, SourceFails, Crash
    <2> QED
      BY <2>1
  <1> QED
    BY <1>1, <1>2, <1>3 DEF Step

\* No step replaces or removes a good file.
LEMMA GoodStep ==
    ASSUME StoreInv, [Next]_vars
    PROVE  GoodKept /\ rotted \subseteq rotted'
  <1>1. ASSUME NEW p \in Processes, Step(p) \/ SourceFails(p) \/ Crash(p)
        PROVE  GoodKept /\ rotted \subseteq rotted'
    BY <1>1, StoreStep DEF GoodKept
  <1>2. CASE Rot
    BY <1>2 DEF Rot, GoodKept, StoreInv, TypeOK
  <1>3. CASE UNCHANGED vars
    BY <1>3 DEF vars, GoodKept
  <1> QED
    BY <1>1, <1>2, <1>3 DEF Next

\* What is there or spoiled stays so.
LEMMA KeptStep ==
    ASSUME StoreInv, [Next]_vars, NEW i \in Items, Kept(i)
    PROVE  Kept(i)'
  BY GoodStep DEF Kept, GoodKept

\* A process that holds a path after its step has made the file in this step
\* or held it before.
LEMMA HoldingStep ==
    ASSUME NEW p \in Processes, StoreInv,
           Step(p) \/ SourceFails(p) \/ Crash(p), Holding(p)'
    PROVE  /\ next'[p] = next[p]
           /\ Holding(p) \/ store[Item(p)] = "absent"
           /\ store'[Item(p)] # "absent"
           /\ pc'[p] = "discard" =>
                Item(p) \in Objects /\ store'[Item(p)] = "bad"
  <1> USE DEF Holding
  <1>1. pc \in [Processes -> Labels] /\ Item(p) \in Items
    BY ItemFacts DEF StoreInv, TypeOK
  <1>2. ASSUME NEW label \in Labels, Goto(p, label)
        PROVE  pc'[p] = label
    BY <1>1, <1>2 DEF Goto
  <1>3. ~Advance(p) /\ ~Fail(p)
    BY AdvanceFacts DEF StoreInv
  <1>4. CASE Link(p)
    <2>1. /\ store[Item(p)] = "absent"
          /\ pc'[p] = "unlink"
          /\ store' = [store EXCEPT ![Item(p)] = data[p]]
      BY <1>2, <1>4 DEF Link, Labels
    <2>2. data[p] # "absent"
      BY DEF StoreInv, TypeOK
    <2> QED
      BY <1>1, <1>4, <2>1, <2>2 DEF Link, StoreInv, TypeOK
  <1>5. CASE RemoveTemp(p)
    <2>1. pc[p] = "unlink" /\ pc'[p] = "readback"
          /\ UNCHANGED <<store, next>>
      BY <1>2, <1>5 DEF RemoveTemp, Labels
    <2> QED
      BY <2>1 DEF StoreInv, PathHeld
  <1>6. CASE ReadBack(p)
    <2>1. /\ pc[p] = "readback"
          /\ store[Item(p)] = "bad" /\ Item(p) \in Objects
          /\ UNCHANGED <<store, next>>
      BY <1>3, <1>6 DEF ReadBack
    <2> QED
      BY <2>1 DEF StoreInv, PathHeld
  <1>7. CASE \/ Start(p) \/ CheckExisting(p) \/ WriteTemp(p) \/ Recheck(p)
             \/ Discard(p) \/ SourceFails(p) \/ Crash(p)
    <2>1. pc'[p] \in {"check", "write", "link", "idle"}
      BY <1>2, <1>3, <1>7 DEF Start, CheckExisting, WriteTemp, Recheck,
         Discard, SourceFails, Crash, Labels
    <2> QED
      BY <2>1
  <1> QED
    BY <1>4, <1>5, <1>6, <1>7 DEF Step

\* The path a process holds is not touched by another.
LEMMA HeldElsewhere ==
    ASSUME NEW p \in Processes, NEW q \in Processes \ {p}, StoreInv,
           Step(p) \/ SourceFails(p) \/ Crash(p), Holding(q)
    PROVE  store'[Item(q)] = store[Item(q)]
  <1>1. Item(q) \in Items /\ store[Item(q)] # "absent"
    BY ItemFacts DEF StoreInv, PathHeld
  <1>2. CASE Item(q) # Item(p)
    BY <1>1, <1>2, StoreStep
  <1>3. CASE Item(q) = Item(p)
    <2>1. ~Holding(p)
      BY <1>3 DEF StoreInv, OneHolder
    <2>2. ~Discard(p)
      BY <2>1 DEF Discard, Holding
    <2> QED
      BY <1>1, <1>3, <2>2, StoreStep
  <1> QED
    BY <1>2, <1>3

\* Who holds which path.
LEMMA HolderStep ==
    ASSUME StoreInv, [Next]_vars
    PROVE  PathHeld' /\ OneHolder' /\ DiscardsBad'
  <1>1. ASSUME NEW p \in Processes, Step(p) \/ SourceFails(p) \/ Crash(p)
        PROVE  PathHeld' /\ OneHolder' /\ DiscardsBad'
    <2>1. \A q \in Processes \ {p} :
            /\ Holding(q)' <=> Holding(q)
            /\ Item(q)' = Item(q)
            /\ pc'[q] = pc[q]
      BY <1>1, OneMoves DEF StoreInv, Holding, Item, Todo
    <2>2. Holding(p)' => Item(p)' = Item(p)
      BY <1>1, HoldingStep DEF Item, Todo
    <2>3. PathHeld'
      <3>1. ASSUME NEW q \in Processes, Holding(q)'
            PROVE  store'[Item(q)'] # "absent"
        <4>1. CASE q = p
          BY <1>1, <2>2, <3>1, <4>1, HoldingStep
        <4>2. CASE q # p
          BY <1>1, <2>1, <3>1, <4>2, HeldElsewhere DEF StoreInv, PathHeld
        <4> QED
          BY <4>1, <4>2
      <3> QED
        BY <3>1 DEF PathHeld
    <2>4. OneHolder'
      <3>1. ASSUME NEW q \in Processes \ {p}, Holding(q)', Holding(p)'
            PROVE  Item(p)' # Item(q)'
        <4>1. store[Item(q)] # "absent"
          BY <2>1, <3>1 DEF StoreInv, PathHeld
        <4>2. Holding(p) \/ store[Item(p)] = "absent"
          BY <1>1, <3>1, HoldingStep
        <4>3. Holding(p) => Item(p) # Item(q)
          BY <2>1, <3>1 DEF StoreInv, OneHolder
        <4> QED
          BY <2>1, <2>2, <3>1, <4>1, <4>2, <4>3
      <3>2. ASSUME NEW q \in Processes \ {p}, NEW r \in Processes \ {p},
                   Holding(q)', Holding(r)', Item(q)' = Item(r)'
            PROVE  q = r
        BY <2>1, <3>2 DEF StoreInv, OneHolder
      <3> QED
        BY <3>1, <3>2 DEF OneHolder
    <2>5. DiscardsBad'
      <3>1. ASSUME NEW q \in Processes, pc'[q] = "discard"
            PROVE  Item(q)' \in Objects /\ store'[Item(q)'] = "bad"
        <4>1. CASE q = p
          BY <1>1, <2>2, <3>1, <4>1, HoldingStep DEF Holding
        <4>2. CASE q # p
          <5>1. Holding(q) /\ Item(q) \in Objects /\ store[Item(q)] = "bad"
            BY <2>1, <3>1, <4>2 DEF StoreInv, DiscardsBad, Holding
          <5> QED
            BY <1>1, <2>1, <4>2, <5>1, HeldElsewhere
        <4> QED
          BY <4>1, <4>2
      <3> QED
        BY <3>1 DEF DiscardsBad
    <2> QED
      BY <2>3, <2>4, <2>5
  <1>2. CASE Rot
    <2>1. UNCHANGED <<pc, next>>
      BY <1>2 DEF Rot
    <2>2. \A i \in Items :
            /\ store[i] # "absent" => store'[i] # "absent"
            /\ store[i] = "bad" => store'[i] = "bad"
      BY <1>2 DEF Rot, StoreInv, TypeOK
    <2>3. \A p \in Processes :
            Item(p)' = Item(p) /\ Item(p) \in Items /\ (Holding(p)' <=> Holding(p))
      BY <2>1, ItemFacts DEF Item, Todo, Holding, StoreInv
    <2> QED
      BY <2>1, <2>2, <2>3 DEF StoreInv, PathHeld, OneHolder, DiscardsBad
  <1>3. CASE UNCHANGED vars
    BY <1>3 DEF vars, StoreInv, PathHeld, OneHolder, DiscardsBad, Holding,
                Item, Todo
  <1> QED
    BY <1>1, <1>2, <1>3 DEF Next

\* What a running process has passed is in the store.
LEMMA DoneStep ==
    ASSUME StoreInv, [Next]_vars
    PROVE  DoneKept'
  <1>1. \A i \in Items : Kept(i) => Kept(i)'
    BY KeptStep
  <1>2. \A p \in Processes : next[p] \in 1..Len(Todo(p))
                             /\ \A k \in 1..Len(Todo(p)) : Todo(p)[k] \in Items
    BY TodoFacts DEF StoreInv, TypeOK, Items
  <1>3. ASSUME NEW p \in Processes, pc[p] # "idle", next'[p] = next[p]
        PROVE  \A k \in 1..(next'[p] - 1) : Kept(Todo(p)[k])'
    <2>1. \A k \in 1..(next[p] - 1) : Kept(Todo(p)[k]) /\ Todo(p)[k] \in Items
      BY <1>2, <1>3 DEF StoreInv, DoneKept
    <2> QED
      BY <1>1, <1>3, <2>1 DEF Todo, Kept
  <1>4. ASSUME NEW p \in Processes, Step(p) \/ SourceFails(p) \/ Crash(p)
        PROVE  DoneKept'
    <2>1. ASSUME NEW q \in Processes, pc'[q] # "idle"
          PROVE  \A k \in 1..(next'[q] - 1) : Kept(Todo(q)[k])'
      <3>1. CASE q # p
        BY <1>3, <1>4, <2>1, <3>1, OneMoves DEF StoreInv
      <3>2. CASE q = p /\ Start(p)
        <4>1. next'[p] = 1
          BY <3>2 DEF Start, StoreInv, TypeOK
        <4> QED
          BY <3>2, <4>1
      <3>3. CASE q = p /\ Advance(p) /\ store[Item(p)] = "good" /\ pc[p] # "idle"
        <4>1. next'[p] = next[p] + 1
          BY <2>1, <3>3, AdvanceFacts DEF StoreInv
        <4>2. \A k \in 1..(next[p] - 1) : Kept(Todo(p)[k])
          BY <3>3 DEF StoreInv, DoneKept
        <4>3. Kept(Todo(p)[next[p]])
          BY <3>3 DEF Kept, Item
        <4>4. \A k \in 1..next[p] : Kept(Todo(p)[k]) /\ Todo(p)[k] \in Items
          BY <1>2, <4>2, <4>3
        <4> QED
          BY <1>1, <1>2, <3>3, <4>1, <4>4 DEF Todo, Kept
      <3>4. CASE q = p /\ pc[p] # "idle" /\ next'[p] = next[p]
        BY <1>3, <3>4
      <3>5. \/ Start(p)
            \/ Advance(p) /\ store[Item(p)] = "good" /\ pc[p] # "idle"
            \/ pc[p] # "idle" /\ next'[p] = next[p]
        <4>1. CASE CheckExisting(p) \/ Recheck(p) \/ ReadBack(p)
          BY <4>1 DEF CheckExisting, Recheck, ReadBack, Fail
        <4>2. CASE \/ Start(p) \/ WriteTemp(p) \/ Link(p) \/ RemoveTemp(p)
                   \/ Discard(p) \/ SourceFails(p) \/ Crash(p)
          BY <4>2 DEF WriteTemp, Link, RemoveTemp, Discard, SourceFails,
                      Crash, Fail
        <4> QED
          BY <1>4, <4>1, <4>2 DEF Step
      <3> QED
        BY <3>1, <3>2, <3>3, <3>4, <3>5
    <2> QED
      BY <2>1 DEF DoneKept, Todo
  <1>5. CASE Rot \/ UNCHANGED vars
    <2>1. UNCHANGED <<pc, next>>
      BY <1>5 DEF Rot, vars
    <2> QED
      BY <1>3, <2>1 DEF DoneKept, Todo
  <1> QED
    BY <1>4, <1>5 DEF Next

\* A manifest that appears has its objects, and they stay.
LEMMA ManifestStep ==
    ASSUME StoreInv, [Next]_vars
    PROVE  ManifestImpliesObjects'
  <1>1. \A i \in Items : Kept(i) => Kept(i)'
    BY KeptStep
  <1>2. ASSUME NEW a \in Artifacts, ObjectsKept(a)
        PROVE  ObjectsKept(a)'
    <2>1. \A k \in 1..Len(Files[a]) : Files[a][k] \in Items
      BY FilesAssumption DEF Items
    <2> QED
      BY <1>1, <1>2, <2>1 DEF ObjectsKept, Kept
  <1>3. ASSUME NEW a \in Artifacts, store[a] = "absent", store'[a] # "absent"
        PROVE  ObjectsKept(a)
    <2>1. ~Rot /\ ~UNCHANGED vars
      <3>1. ~UNCHANGED store
        BY <1>3
      <3>2. ASSUME NEW i \in Items, store[i] = "good",
                   store' = [store EXCEPT ![i] = "bad"]
            PROVE  FALSE
        BY <1>3, <3>2 DEF StoreInv, TypeOK, Items
      <3> QED
        BY <3>1, <3>2 DEF Rot, vars
    <2>2. PICK p \in Processes : Step(p) \/ SourceFails(p) \/ Crash(p)
      BY <2>1 DEF Next
    <2>3. Link(p) /\ Item(p) = a
      <3>1. a \in Items
        BY DEF Items
      <3>2. store'[a] # store[a]
        BY <1>3
      <3>3. Item(p) = a
        BY <2>2, <3>1, <3>2, StoreStep
      <3>4. store[Item(p)] # "bad"
        BY <1>3, <3>3
      <3> QED
        BY <2>2, <3>2, <3>3, <3>4, StoreStep
    <2>4. a = Job[p] /\ next[p] = Len(Files[a]) + 1
      BY <2>3, ItemFacts DEF StoreInv
    <2>5. \A k \in 1..Len(Files[a]) : Kept(Todo(p)[k])
      <3>1. pc[p] # "idle"
        BY <2>3 DEF Link
      <3>2. next[p] - 1 = Len(Files[a])
        BY <2>4, TodoFacts
      <3> QED
        BY <3>1, <3>2 DEF StoreInv, DoneKept
    <2> QED
      BY <2>4, <2>5, TodoFacts DEF ObjectsKept, Kept
  <1> QED
    BY <1>2, <1>3 DEF StoreInv, ManifestImpliesObjects

-----------------------------------------------------------------------------
LEMMA StoreInit == Init => StoreInv
  <1> SUFFICES ASSUME Init PROVE StoreInv
    OBVIOUS
  <1> USE DEF Init
  <1>1. TypeOK
    BY TodoFacts DEF TypeOK, Contents, Labels, NoFaults
  <1>2. PathHeld /\ OneHolder /\ DiscardsBad /\ DoneKept
    BY DEF PathHeld, OneHolder, DiscardsBad, DoneKept, Holding
  <1>3. ManifestImpliesObjects
    BY DEF ManifestImpliesObjects, Items
  <1> QED
    BY <1>1, <1>2, <1>3 DEF StoreInv

\* The invariant holds in every state of every run.
THEOREM StoreInvariant == Spec => []StoreInv
  <1>1. StoreInv /\ [Next]_vars => StoreInv'
    BY TypeStep, HolderStep, DoneStep, ManifestStep DEF StoreInv
  <1> QED
    BY StoreInit, <1>1, PTL DEF Spec

\* The store, its temporary files and its processes keep their shape.
THEOREM TypeCorrect == Spec => []TypeOK
  BY StoreInvariant, PTL DEF StoreInv

\* The claim of ingest: a manifest in the store implies its objects, however
\* many processes ingest, race, discard and die.
THEOREM ManifestLast == Spec => []ManifestImpliesObjects
  BY StoreInvariant, PTL DEF StoreInv

\* No step of any process ever replaces or removes a good file.
THEOREM NeverReplaced == Spec => GoodStays
  <1>1. StoreInv /\ [Next]_vars => [GoodKept]_vars
    BY GoodStep
  <1> QED
    BY <1>1, StoreInvariant, PTL DEF Spec, GoodStays
=============================================================================
