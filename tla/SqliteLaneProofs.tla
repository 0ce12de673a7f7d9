-------------------------- MODULE SqliteLaneProofs --------------------------
(***************************************************************************)
(* Theorems about SqliteLane, for any commands, bars and faults.            *)
(***************************************************************************)
EXTENDS SqliteLane, FiniteSetTheorems, TLAPS

Writing(w)   == pc[w] \in {"account", "emit", "commit"}
Finishing(w) == pc[w] \in {"finish", "mark"}

\* A command inside its transaction has the lock for itself,
Locked == \A w \in Writers : Writing(w) => lock = {w}
\* so that the watermark it has read is the one in the database.
StillCurrent ==
    \A w \in Writers :
        pc[w] \in {"emit", "commit"} => txn[w].from = wm /\ wm < txn[w].to
\* The sidecar it has written is the pending one of its bars.
DocPrepared ==
    \A w \in Writers :
        pc[w] = "commit" =>
            /\ txn[w].doc.state = "pending"
            /\ txn[w].doc.from = txn[w].from /\ txn[w].doc.to = txn[w].to
\* A command that has committed is about to finish a batch whose reference is
\* still the pending one,
StillPending ==
    \A w \in Writers :
        Finishing(w) =>
            /\ txn[w].batch \in 1..Len(batches)
            /\ batches[txn[w].batch].ref = txn[w].doc
            /\ txn[w].doc.state = "pending"
\* and no other command finishes the same one.
OneFinisher ==
    \A v, w \in Writers :
        Finishing(v) /\ Finishing(w) /\ txn[v].batch = txn[w].batch => v = w
\* The reference of a batch is about the bars of the batch.
RefsFit ==
    \A i \in 1..Len(batches) :
        /\ batches[i].ref.from = batches[i].from
        /\ batches[i].ref.to = batches[i].to
\* Batches do not overlap, and none goes beyond the watermark.
Ordered ==
    \A i \in 1..Len(batches) :
        /\ batches[i].to <= wm
        /\ \A j \in 1..Len(batches) : i < j => batches[i].to <= batches[j].from

\* The inductive invariant of the writers.
LaneInv ==
    /\ TypeOK
    /\ Locked
    /\ StillCurrent
    /\ DocPrepared
    /\ StillPending
    /\ OneFinisher
    /\ RefsFit
    /\ Ordered
    /\ BatchesChain

-----------------------------------------------------------------------------
LEMMA FaultsSpent ==
    ASSUME TypeOK, NEW kind \in DOMAIN NoFaults, Spend(kind)
    PROVE  faults' \in [DOMAIN NoFaults -> Nat]
  BY DEF TypeOK, Spend

LEMMA DocFacts ==
    /\ \A from, to, src \in Nat :
         /\ Pending(from, to, src) \in Docs
         /\ Pending(from, to, src).state = "pending"
         /\ Pending(from, to, src).from = from
         /\ Pending(from, to, src).to = to
    /\ \A doc \in Docs, b \in Nat :
         /\ Committed(doc, b) \in Docs
         /\ Committed(doc, b).from = doc.from
         /\ Committed(doc, b).to = doc.to
         /\ Committed(doc, b).src = doc.src
         /\ Path(Committed(doc, b)) = Path(doc)
    /\ NoDoc \in Docs
  BY DEF Docs, Pending, Committed, Path, NoDoc

\* What a command that ends leaves.
LEMMA EndFacts ==
    ASSUME TypeOK, NEW w \in Writers, End(w)
    PROVE  /\ pc' \in [Writers -> Labels] /\ pc'[w] = "idle"
           /\ txn' \in [Writers -> Memory]
           /\ \A v \in Writers \ {w} : pc'[v] = pc[v] /\ txn'[v] = txn[v]
  <1>1. NoTxn \in Memory
    BY DocFacts DEF NoTxn, Memory
  <1> QED
    BY <1>1 DEF TypeOK, End, Goto, Labels

\* Replacing the reference of a batch changes nothing else.
LEMMA RefReplaced ==
    ASSUME batches \in Seq(Batch), NEW b \in 1..Len(batches), NEW d \in Docs,
           batches' = [batches EXCEPT ![b].ref = d]
    PROVE  /\ batches' \in Seq(Batch) /\ Len(batches') = Len(batches)
           /\ \A i \in 1..Len(batches) :
                /\ batches'[i].from = batches[i].from
                /\ batches'[i].to = batches[i].to
                /\ batches'[i].ref = IF i = b THEN d ELSE batches[i].ref
  <1>1. \A i \in 1..Len(batches) : batches[i] \in Batch
    OBVIOUS
  <1>2. [batches[b] EXCEPT !.ref = d] \in Batch
    BY <1>1 DEF Batch
  <1>3. batches' = [batches EXCEPT ![b] = [batches[b] EXCEPT !.ref = d]]
    OBVIOUS
  <1>4. batches' \in Seq(Batch) /\ Len(batches') = Len(batches)
    BY <1>2, <1>3
  <1>5. ASSUME NEW i \in 1..Len(batches)
        PROVE  /\ batches'[i].from = batches[i].from
               /\ batches'[i].to = batches[i].to
               /\ batches'[i].ref = IF i = b THEN d ELSE batches[i].ref
    <2>1. CASE i = b
      BY <1>1, <1>3, <2>1 DEF Batch
    <2>2. CASE i # b
      BY <1>1, <1>3, <2>2
    <2> QED
      BY <2>1, <2>2
  <1> QED
    BY <1>4, <1>5

\* What a transaction adds.
LEMMA BatchAdded ==
    ASSUME TypeOK, NEW w \in Writers, Commit(w)
    PROVE  /\ batches' \in Seq(Batch) /\ Len(batches') = Len(batches) + 1
           /\ \A i \in 1..Len(batches) : batches'[i] = batches[i]
           /\ batches'[Len(batches')].from = txn[w].from
           /\ batches'[Len(batches')].to = txn[w].to
           /\ batches'[Len(batches')].ref = txn[w].doc
  <1> DEFINE new == [from |-> txn[w].from, to |-> txn[w].to,
                     used |-> txn[w].used, ref |-> txn[w].doc]
  <1>1. new \in Batch
    BY DEF TypeOK, Batch, Memory
  <1>2. batches' = Append(batches, new) /\ batches \in Seq(Batch)
    BY DEF Commit, TypeOK
  <1> QED
    BY <1>1, <1>2

-----------------------------------------------------------------------------
\* The lane keeps its shape.
LEMMA TypeStep ==
    ASSUME LaneInv, [Next]_vars
    PROVE  TypeOK'
  <1> USE DEF dbVars
  <1>0. TypeOK
    BY DEF LaneInv
  <1>1. ASSUME NEW w \in Writers, Step(w)
        PROVE  TypeOK'
    <2>1. CASE Begin(w)
      BY <1>0, <2>1 DEF TypeOK, Begin, Goto, Labels
    <2>2. CASE Account(w)
      <3>1. CASE NewBars = {} /\ Release(w)
        <4>1. End(w) /\ lock' \subseteq Writers
          BY <1>0, <3>1 DEF Release, TypeOK
        <4> QED
          BY <1>0, <2>2, <4>1, EndFacts DEF TypeOK, Account
      <3>2. ASSUME NEW to \in NewBars, Goto(w, "emit"), UNCHANGED lock,
                   txn' = [txn EXCEPT ![w] =
                        [NoTxn EXCEPT !.from = wm, !.to = to, !.used = source]]
            PROVE  TypeOK'
        <4>1. [NoTxn EXCEPT !.from = wm, !.to = to, !.used = source] \in Memory
          <5>1. NoTxn \in Memory
            BY DocFacts DEF NoTxn, Memory
          <5>2. to \in Nat /\ wm \in Nat /\ source \in Nat
            BY <1>0 DEF TypeOK, NewBars
          <5> QED
            BY <5>1, <5>2 DEF Memory
        <4> QED
          BY <1>0, <2>2, <3>2, <4>1 DEF TypeOK, Account, Goto, Labels
      <3> QED
        BY <2>2, <3>1, <3>2 DEF Account
    <2>3. CASE Emit(w)
      <3> DEFINE doc == Pending(txn[w].from, txn[w].to, source)
      <3>1. doc \in Docs
        BY <1>0, DocFacts DEF TypeOK, Memory
      <3>2. [txn[w] EXCEPT !.doc = doc] \in Memory
        <4>1. txn[w] \in Memory
          BY <1>0 DEF TypeOK
        <4> QED
          BY <3>1, <4>1 DEF Memory
      <3>3. txn' = [txn EXCEPT ![w] = [txn[w] EXCEPT !.doc = doc]]
        BY <2>3 DEF Emit
      <3>4. sidecar' \subseteq Docs
        BY <1>0, <2>3, <3>1 DEF Emit, Put, TypeOK
      <3> HIDE DEF doc
      <3>5. txn' \in [Writers -> Memory]
        BY <1>0, <3>2, <3>3 DEF TypeOK
      <3>6. pc' \in [Writers -> Labels]
        BY <1>0, <2>3 DEF TypeOK, Emit, Goto, Labels
      <3>7. UNCHANGED <<obs, source, batches, wm, lock, reader, verdict, faults>>
        BY <2>3 DEF Emit
      <3> QED
        BY <1>0, <3>4, <3>5, <3>6, <3>7 DEF TypeOK
    <2>4. CASE Commit(w)
      <3>1. [txn[w] EXCEPT !.batch = Len(batches) + 1] \in Memory
        <4>1. txn[w] \in Memory /\ Len(batches) + 1 \in Nat
          BY <1>0 DEF TypeOK
        <4> QED
          BY <4>1 DEF Memory
      <3>2. txn' = [txn EXCEPT ![w] =
                      [txn[w] EXCEPT !.batch = Len(batches) + 1]]
        BY <2>4 DEF Commit
      <3>3. txn[w].to \in Nat
        BY <1>0 DEF TypeOK, Memory
      <3>4. lock' \subseteq Writers /\ wm' \in Nat
        BY <1>0, <2>4, <3>3 DEF TypeOK, Commit
      <3>5. txn' \in [Writers -> Memory]
        BY <1>0, <3>1, <3>2 DEF TypeOK
      <3>6. pc' \in [Writers -> Labels]
        BY <1>0, <2>4 DEF TypeOK, Commit, Goto, Labels
      <3>7. UNCHANGED <<obs, source, sidecar, reader, verdict, faults>>
        BY <2>4 DEF Commit
      <3>8. batches' \in Seq(Batch)
        BY <1>0, <2>4, BatchAdded
      <3> QED
        BY <1>0, <3>4, <3>5, <3>6, <3>7, <3>8 DEF TypeOK
    <2>5. CASE Finish(w)
      <3>1. sidecar' \subseteq Docs
        BY <1>0, <2>5, DocFacts DEF Finish, Put, TypeOK, Memory
      <3> QED
        BY <1>0, <2>5, <3>1 DEF TypeOK, Finish, Goto, Labels
    <2>6. CASE Mark(w)
      <3>1. txn[w].batch \in 1..Len(batches)
        BY <2>6 DEF LaneInv, StillPending, Finishing, Mark
      <3>2. Committed(txn[w].doc, txn[w].batch) \in Docs
        BY <1>0, DocFacts DEF TypeOK, Memory
      <3>3. batches' \in Seq(Batch)
        BY <1>0, <2>6, <3>1, <3>2, RefReplaced DEF Mark, TypeOK
      <3> QED
        BY <1>0, <2>6, <3>3, EndFacts DEF TypeOK, Mark
    <2> QED
      BY <1>1, <2>1, <2>2, <2>3, <2>4, <2>5, <2>6 DEF Step
  <1>2. ASSUME NEW w \in Writers, Fault(w)
        PROVE  TypeOK'
    <2>1. faults' \in [DOMAIN NoFaults -> Nat]
      BY <1>0, <1>2, FaultsSpent
         DEF Fault, GateAborts, RollBack, FinishFails, Crash, NoFaults
    <2>2. End(w) /\ lock' \subseteq Writers
      BY <1>0, <1>2
         DEF Fault, GateAborts, RollBack, FinishFails, Crash, Release, TypeOK
    <2> QED
      BY <1>0, <1>2, <2>1, <2>2, EndFacts
         DEF TypeOK, Fault, GateAborts, RollBack, FinishFails, Crash
  <1>3. CASE Pin
    BY <1>0, <1>3 DEF TypeOK, Pin, NoReader
  <1>4. CASE ReadSidecar
    <2>1. reader' = [reader EXCEPT !.at = "source", !.seen = reader'.seen]
          /\ reader'.seen \in SUBSET Docs
      BY <1>0, <1>4 DEF TypeOK, ReadSidecar
    <2> QED
      BY <1>0, <1>4, <2>1 DEF TypeOK, ReadSidecar
  <1>5. CASE Publish
    <2>1. Len(reader.view) \in Nat
      BY <1>0 DEF TypeOK
    <2>2. /\ PresentValid(reader.view, reader.seen) \in BOOLEAN
          /\ CleanCarry(reader.view, reader.seen) \in BOOLEAN
      BY DEF PresentValid, CleanCarry
    <2>3. verdict' \in [batch : Nat, valid : BOOLEAN, clean : BOOLEAN]
      BY <1>5, <2>1, <2>2 DEF Publish
    <2> QED
      BY <1>0, <1>5, <2>3 DEF TypeOK, Publish, NoReader
  <1>6. CASE PublishBar
    BY <1>0, <1>6 DEF TypeOK, PublishBar
  <1>7. CASE ReviseSource
    BY <1>0, <1>7, FaultsSpent DEF TypeOK, ReviseSource, NoFaults
  <1>8. CASE UNCHANGED vars
    BY <1>0, <1>8 DEF TypeOK, vars
  <1> QED
    BY <1>1, <1>2, <1>3, <1>4, <1>5, <1>6, <1>7, <1>8 DEF Next, Verify

-----------------------------------------------------------------------------
\* A step of one command moves no other.
LEMMA OneMoves ==
    ASSUME TypeOK, NEW w \in Writers, Step(w) \/ Fault(w)
    PROVE  \A v \in Writers \ {w} : pc'[v] = pc[v] /\ txn'[v] = txn[v]
  <1>1. \A label : Goto(w, label) => \A v \in Writers \ {w} : pc'[v] = pc[v]
    BY DEF TypeOK, Goto
  <1>2. CASE Begin(w)
    BY <1>1, <1>2 DEF Begin
  <1>3. CASE Account(w)
    <2>1. CASE Release(w)
      BY <2>1, EndFacts DEF Release
    <2>2. CASE \E to \in NewBars :
              /\ Goto(w, "emit")
              /\ txn' = [txn EXCEPT ![w] =
                          [NoTxn EXCEPT !.from = wm, !.to = to, !.used = source]]
      BY <1>1, <2>2 DEF TypeOK
    <2> QED
      BY <1>3, <2>1, <2>2 DEF Account
  <1>4. CASE Emit(w)
    <2>1. txn' = [txn EXCEPT ![w] = txn'[w]]
      BY <1>4 DEF Emit, TypeOK
    <2> QED
      BY <1>1, <1>4, <2>1 DEF Emit, TypeOK
  <1>5. CASE Commit(w)
    <2>1. txn' = [txn EXCEPT ![w] = txn'[w]]
      BY <1>5 DEF Commit, TypeOK
    <2> QED
      BY <1>1, <1>5, <2>1 DEF Commit, TypeOK
  <1>6. CASE Finish(w)
    BY <1>1, <1>6 DEF Finish
  <1>7. CASE Mark(w) \/ Fault(w)
    <2>1. End(w)
      BY <1>7 DEF Mark, Fault, GateAborts, RollBack, FinishFails, Crash, Release
    <2> QED
      BY <2>1, EndFacts
  <1> QED
    BY <1>2, <1>3, <1>4, <1>5, <1>6, <1>7 DEF Step

\* Steps after which the command is idle.
LEMMA EndingSteps ==
    ASSUME TypeOK, NEW w \in Writers,
           \/ Fault(w) \/ Mark(w)
           \/ Account(w) /\ Release(w)
    PROVE  /\ pc'[w] = "idle" /\ wm' = wm /\ sidecar' = sidecar
           /\ lock' = lock \/ lock' = lock \ {w}
           /\ Mark(w) \/ batches' = batches
  <1>1. End(w)
    BY DEF Mark, Fault, GateAborts, RollBack, FinishFails, Crash, Release
  <1>2. pc'[w] = "idle"
    BY <1>1, EndFacts
  <1> QED
    BY <1>2 DEF Mark, Fault, GateAborts, RollBack, FinishFails, Crash, Release,
                Account, dbVars

\* What a command remembers of its transaction.
LEMMA AccountFacts ==
    ASSUME TypeOK, NEW w \in Writers, Account(w)
    PROVE  \/ Release(w)
           \/ /\ pc'[w] = "emit" /\ UNCHANGED <<lock, batches, wm, sidecar>>
              /\ txn'[w].from = wm /\ wm < txn'[w].to
  <1>1. ASSUME NEW to \in NewBars, Goto(w, "emit"), UNCHANGED lock,
               txn' = [txn EXCEPT ![w] =
                        [NoTxn EXCEPT !.from = wm, !.to = to, !.used = source]]
        PROVE  /\ pc'[w] = "emit" /\ UNCHANGED <<lock, batches, wm, sidecar>>
               /\ txn'[w].from = wm /\ wm < txn'[w].to
    <2>1. txn'[w] = [NoTxn EXCEPT !.from = wm, !.to = to, !.used = source]
      BY <1>1 DEF TypeOK
    <2>2. NoTxn \in Memory
      BY DocFacts DEF NoTxn, Memory
    <2>3. txn'[w].from = wm /\ txn'[w].to = to
      BY <2>1, <2>2 DEF Memory
    <2>4. wm < to
      BY DEF NewBars, TypeOK
    <2> QED
      BY <1>1, <2>3, <2>4 DEF Goto, TypeOK, Account, dbVars
  <1> QED
    BY <1>1 DEF Account

LEMMA EmitFacts ==
    ASSUME TypeOK, NEW w \in Writers, Emit(w)
    PROVE  /\ pc[w] = "emit" /\ pc'[w] = "commit"
           /\ UNCHANGED <<lock, batches, wm>>
           /\ txn'[w].from = txn[w].from /\ txn'[w].to = txn[w].to
           /\ txn'[w].doc = Pending(txn[w].from, txn[w].to, source)
           /\ sidecar' = Put(txn'[w].doc)
           /\ txn'[w].doc.state = "pending"
           /\ txn'[w].doc.from = txn[w].from /\ txn'[w].doc.to = txn[w].to
  <1> DEFINE doc == Pending(txn[w].from, txn[w].to, source)
  <1>1. txn[w] \in Memory
    BY DEF TypeOK
  <1>2. txn'[w] = [txn[w] EXCEPT !.doc = doc]
    BY DEF Emit, TypeOK
  <1>3. txn'[w].from = txn[w].from /\ txn'[w].to = txn[w].to
        /\ txn'[w].doc = doc
    BY <1>1, <1>2 DEF Memory
  <1>4. /\ doc.state = "pending" /\ doc.from = txn[w].from
        /\ doc.to = txn[w].to
    BY DEF Pending
  <1>5. pc[w] = "emit" /\ pc'[w] = "commit" /\ UNCHANGED <<lock, batches, wm>>
    BY DEF Emit, Goto, TypeOK, dbVars
  <1>6. sidecar' = Put(doc)
    BY DEF Emit
  <1> HIDE DEF doc
  <1> QED
    BY <1>3, <1>4, <1>5, <1>6 DEF doc

LEMMA CommitFacts ==
    ASSUME TypeOK, NEW w \in Writers, Commit(w)
    PROVE  /\ pc[w] = "commit" /\ pc'[w] = "finish"
           /\ lock' = lock \ {w} /\ wm' = txn[w].to
           /\ UNCHANGED sidecar
           /\ txn'[w].doc = txn[w].doc
           /\ txn'[w].batch = Len(batches) + 1
  <1>1. txn[w] \in Memory
    BY DEF TypeOK
  <1>2. txn'[w] = [txn[w] EXCEPT !.batch = Len(batches) + 1]
    BY DEF Commit, TypeOK
  <1>3. txn'[w].doc = txn[w].doc /\ txn'[w].batch = Len(batches) + 1
    BY <1>1, <1>2 DEF Memory
  <1> QED
    BY <1>3 DEF Commit, Goto, TypeOK

LEMMA FinishFacts ==
    ASSUME TypeOK, NEW w \in Writers, Finish(w)
    PROVE  /\ pc[w] = "finish" /\ pc'[w] = "mark"
           /\ UNCHANGED <<lock, batches, wm, txn>>
           /\ sidecar' = Put(Committed(txn[w].doc, txn[w].batch))
  BY DEF Finish, Goto, TypeOK, dbVars

\* The steps of the others leave the writers and their database alone.
LEMMA OthersFacts ==
    ASSUME Verify \/ PublishBar \/ ReviseSource \/ UNCHANGED vars
    PROVE  UNCHANGED <<batches, wm, sidecar, lock, pc, txn>>
  BY DEF Verify, Pin, ReadSidecar, Publish, PublishBar, ReviseSource, vars,
         dbVars

\* The kinds of steps a command can make.
LEMMA Kinds ==
    ASSUME TypeOK, NEW w \in Writers, Step(w) \/ Fault(w)
    PROVE  \/ Begin(w) \/ Emit(w) \/ Commit(w) \/ Finish(w) \/ Mark(w)
           \/ /\ pc[w] = "account" /\ pc'[w] = "emit"
              /\ UNCHANGED <<lock, batches, wm, sidecar>>
              /\ txn'[w].from = wm /\ wm < txn'[w].to
           \/ /\ pc'[w] = "idle" /\ UNCHANGED <<batches, wm, sidecar>>
              /\ lock' = lock \/ lock' = lock \ {w}
  <1>1. CASE Account(w)
    <2>1. pc[w] = "account"
      BY <1>1 DEF Account
    <2>2. CASE Release(w)
      <3>1. batches' = batches
        BY <1>1 DEF Account, dbVars
      <3> QED
        BY <1>1, <2>2, <3>1, EndingSteps
    <2>3. CASE /\ pc'[w] = "emit" /\ UNCHANGED <<lock, batches, wm, sidecar>>
               /\ txn'[w].from = wm /\ wm < txn'[w].to
      BY <2>1, <2>3
    <2> QED
      BY <1>1, <2>2, <2>3, AccountFacts
  <1>2. CASE Fault(w)
    <2>1. batches' = batches
      BY <1>2 DEF Fault, GateAborts, RollBack, FinishFails, Crash, dbVars
    <2> QED
      BY <1>2, <2>1, EndingSteps
  <1> QED
    BY <1>1, <1>2 DEF Step

\* Two commands are never inside a transaction together.
LEMMA LockStep ==
    ASSUME LaneInv, [Next]_vars
    PROVE  Locked'
  <1>0. TypeOK /\ Locked
    BY DEF LaneInv
  <1>1. ASSUME NEW w \in Writers, Step(w) \/ Fault(w)
        PROVE  Locked'
    <2>0. \A v \in Writers \ {w} : pc'[v] = pc[v]
      BY <1>0, <1>1, OneMoves
    <2>1. CASE Begin(w)
      <3>1. lock = {} /\ lock' = {w}
        BY <2>1 DEF Begin
      <3>2. \A v \in Writers \ {w} : ~Writing(v)'
        BY <1>0, <2>0, <3>1 DEF Locked, Writing
      <3> QED
        BY <3>1, <3>2 DEF Locked
    <2>2. CASE Mark(w)
      <3>1. pc'[w] = "idle" /\ lock' = lock
        BY <1>0, <2>2, EndingSteps DEF Mark
      <3> QED
        BY <1>0, <2>0, <3>1 DEF Locked, Writing
    <2>3. CASE Emit(w)
      BY <1>0, <2>0, <2>3, EmitFacts DEF Locked, Writing
    <2>4. CASE Commit(w)
      BY <1>0, <2>0, <2>4, CommitFacts DEF Locked, Writing
    <2>5. CASE Finish(w)
      BY <1>0, <2>0, <2>5, FinishFacts DEF Locked, Writing
    <2>6. CASE pc[w] = "account" /\ pc'[w] = "emit" /\ UNCHANGED lock
      BY <1>0, <2>0, <2>6 DEF Locked, Writing
    <2>7. CASE pc'[w] = "idle" /\ (lock' = lock \/ lock' = lock \ {w})
      BY <1>0, <2>0, <2>7 DEF Locked, Writing
    <2> QED
      BY <1>0, <1>1, <2>1, <2>2, <2>3, <2>4, <2>5, <2>6, <2>7, Kinds
  <1>2. CASE Verify \/ PublishBar \/ ReviseSource \/ UNCHANGED vars
    BY <1>0, <1>2, OthersFacts DEF Locked, Writing
  <1> QED
    BY <1>1, <1>2 DEF Next

\* The watermark moves only under the lock.
LEMMA CurrentStep ==
    ASSUME LaneInv, [Next]_vars
    PROVE  StillCurrent'
  <1>0. TypeOK /\ Locked /\ StillCurrent
    BY DEF LaneInv
  <1>1. ASSUME NEW w \in Writers, Step(w) \/ Fault(w)
        PROVE  StillCurrent'
    <2>0. \A v \in Writers \ {w} : pc'[v] = pc[v] /\ txn'[v] = txn[v]
      BY <1>0, <1>1, OneMoves
    <2>1. CASE Begin(w)
      <3>1. pc'[w] = "account" /\ wm' = wm
        BY <1>0, <2>1 DEF Begin, Goto, TypeOK, dbVars
      <3> QED
        BY <1>0, <2>0, <3>1 DEF StillCurrent
    <2>2. CASE Mark(w)
      <3>1. pc'[w] = "idle" /\ wm' = wm
        BY <1>0, <2>2, EndingSteps
      <3> QED
        BY <1>0, <2>0, <3>1 DEF StillCurrent
    <2>3. CASE Emit(w)
      BY <1>0, <2>0, <2>3, EmitFacts DEF StillCurrent
    <2>4. CASE Commit(w)
      <3>1. pc[w] = "commit" /\ pc'[w] = "finish"
        BY <1>0, <2>4, CommitFacts
      <3>2. \A v \in Writers \ {w} : pc[v] \notin {"emit", "commit"}
        BY <1>0, <3>1 DEF Locked, Writing
      <3> QED
        BY <2>0, <3>1, <3>2 DEF StillCurrent
    <2>5. CASE Finish(w)
      BY <1>0, <2>0, <2>5, FinishFacts DEF StillCurrent
    <2>6. CASE /\ pc'[w] = "emit" /\ wm' = wm
               /\ txn'[w].from = wm /\ wm < txn'[w].to
      BY <1>0, <2>0, <2>6 DEF StillCurrent
    <2>7. CASE pc'[w] = "idle" /\ wm' = wm
      BY <1>0, <2>0, <2>7 DEF StillCurrent
    <2> QED
      BY <1>0, <1>1, <2>1, <2>2, <2>3, <2>4, <2>5, <2>6, <2>7, Kinds
  <1>2. CASE Verify \/ PublishBar \/ ReviseSource \/ UNCHANGED vars
    BY <1>0, <1>2, OthersFacts DEF StillCurrent
  <1> QED
    BY <1>1, <1>2 DEF Next

LEMMA PreparedStep ==
    ASSUME LaneInv, [Next]_vars
    PROVE  DocPrepared'
  <1>0. TypeOK /\ DocPrepared
    BY DEF LaneInv
  <1>1. ASSUME NEW w \in Writers, Step(w) \/ Fault(w)
        PROVE  DocPrepared'
    <2>0. \A v \in Writers \ {w} : pc'[v] = pc[v] /\ txn'[v] = txn[v]
      BY <1>0, <1>1, OneMoves
    <2>1. CASE Emit(w)
      BY <1>0, <2>0, <2>1, EmitFacts DEF DocPrepared
    <2>2. CASE pc'[w] # "commit"
      BY <1>0, <2>0, <2>2 DEF DocPrepared
    <2>3. Begin(w) => pc'[w] = "account"
      BY <1>0 DEF Begin, Goto, TypeOK
    <2>4. Mark(w) => pc'[w] = "idle"
      BY <1>0, EndingSteps
    <2> QED
      BY <1>0, <1>1, <2>1, <2>2, <2>3, <2>4, Kinds, CommitFacts, FinishFacts
  <1>2. CASE Verify \/ PublishBar \/ ReviseSource \/ UNCHANGED vars
    BY <1>0, <1>2, OthersFacts DEF DocPrepared
  <1> QED
    BY <1>1, <1>2 DEF Next

LEMMA MarkFacts ==
    ASSUME LaneInv, NEW w \in Writers, Mark(w)
    PROVE  /\ pc[w] = "mark" /\ pc'[w] = "idle"
           /\ UNCHANGED <<lock, wm, sidecar>>
           /\ Len(batches') = Len(batches)
           /\ \A i \in 1..Len(batches) :
                /\ batches'[i].from = batches[i].from
                /\ batches'[i].to = batches[i].to
                /\ batches'[i].ref =
                     IF i = txn[w].batch
                     THEN Committed(txn[w].doc, txn[w].batch)
                     ELSE batches[i].ref
  <1>0. TypeOK /\ StillPending
    BY DEF LaneInv
  <1>1. pc[w] = "mark" /\ UNCHANGED <<lock, wm, sidecar>>
    BY DEF Mark
  <1>2. pc'[w] = "idle"
    BY <1>0, EndingSteps
  <1>3. txn[w].batch \in 1..Len(batches)
    BY <1>0, <1>1 DEF StillPending, Finishing
  <1>4. Committed(txn[w].doc, txn[w].batch) \in Docs
    BY <1>0, DocFacts DEF TypeOK, Memory
  <1>5. batches \in Seq(Batch)
    BY <1>0 DEF TypeOK
  <1>6. batches' = [batches EXCEPT ![txn[w].batch].ref =
                      Committed(txn[w].doc, txn[w].batch)]
    BY DEF Mark
  <1> QED
    BY <1>1, <1>2, <1>3, <1>4, <1>5, <1>6, RefReplaced

\* Batches, as every step of a command leaves them: the same, one more, or
\* one with another reference.
LEMMA PendingStep ==
    ASSUME LaneInv, [Next]_vars
    PROVE  StillPending' /\ OneFinisher'
  <1>0. TypeOK /\ StillPending /\ OneFinisher /\ DocPrepared
    BY DEF LaneInv
  <1>t. Len(batches) \in Nat
    BY <1>0 DEF TypeOK
  <1>1. ASSUME NEW w \in Writers, Step(w) \/ Fault(w)
        PROVE  StillPending' /\ OneFinisher'
    <2>0. \A v \in Writers \ {w} : pc'[v] = pc[v] /\ txn'[v] = txn[v]
      BY <1>0, <1>1, OneMoves
    <2>1. CASE Commit(w)
      <3>1. /\ Len(batches') = Len(batches) + 1
            /\ \A i \in 1..Len(batches) : batches'[i] = batches[i]
            /\ batches'[Len(batches')].ref = txn[w].doc
        BY <1>0, <2>1, BatchAdded
      <3>2. /\ pc[w] = "commit" /\ pc'[w] = "finish"
            /\ txn'[w].doc = txn[w].doc /\ txn'[w].batch = Len(batches) + 1
        BY <1>0, <2>1, CommitFacts
      <3>3. txn[w].doc.state = "pending"
        BY <1>0, <3>2 DEF DocPrepared
      <3>4. \A v \in Writers \ {w} :
              Finishing(v)' =>
                /\ txn[v].batch \in 1..Len(batches)
                /\ batches[txn[v].batch].ref = txn[v].doc
                /\ txn[v].doc.state = "pending"
        BY <1>0, <2>0 DEF StillPending, Finishing
      <3>5. StillPending'
        BY <1>t, <2>0, <3>1, <3>2, <3>3, <3>4 DEF StillPending
      <3>6. OneFinisher'
        BY <1>0, <1>t, <2>0, <3>2, <3>4 DEF OneFinisher, Finishing
      <3> QED
        BY <3>5, <3>6
    <2>2. CASE Mark(w)
      <3>1. pc'[w] = "idle" /\ pc[w] = "mark"
        BY <2>2, MarkFacts
      <3>2. \A v \in Writers \ {w} :
              Finishing(v)' =>
                /\ txn[v].batch # txn[w].batch
                /\ txn[v].batch \in 1..Len(batches)
                /\ batches[txn[v].batch].ref = txn[v].doc
                /\ txn[v].doc.state = "pending"
        BY <1>0, <2>0, <3>1 DEF StillPending, OneFinisher, Finishing
      <3>3. StillPending'
        BY <2>0, <2>2, <3>1, <3>2, MarkFacts DEF StillPending, Finishing
      <3>4. OneFinisher'
        BY <1>0, <2>0, <3>1 DEF OneFinisher, Finishing
      <3> QED
        BY <3>3, <3>4
    <2>3. CASE Finish(w)
      BY <1>0, <2>0, <2>3, FinishFacts DEF StillPending, OneFinisher, Finishing
    <2>4. CASE batches' = batches /\ ~Finishing(w)'
      BY <1>0, <2>0, <2>4 DEF StillPending, OneFinisher, Finishing
    <2>5. Begin(w) => pc'[w] = "account" /\ batches' = batches
      BY <1>0 DEF Begin, Goto, TypeOK, dbVars
    <2> QED
      BY <1>0, <1>1, <2>1, <2>2, <2>3, <2>4, <2>5, Kinds, EmitFacts
         DEF Finishing
  <1>2. CASE Verify \/ PublishBar \/ ReviseSource \/ UNCHANGED vars
    BY <1>0, <1>2, OthersFacts DEF StillPending, OneFinisher, Finishing
  <1> QED
    BY <1>1, <1>2 DEF Next

\* The chain is extended at its end.
LEMMA ChainStep ==
    ASSUME LaneInv, [Next]_vars
    PROVE  RefsFit' /\ Ordered' /\ BatchesChain'
  <1>0. /\ TypeOK /\ StillPending /\ DocPrepared /\ StillCurrent
        /\ RefsFit /\ Ordered /\ BatchesChain
    BY DEF LaneInv
  <1>t. /\ Len(batches) \in Nat /\ wm \in Nat
        /\ batches = << >> <=> Len(batches) = 0
        /\ \A i \in 1..Len(batches) : batches[i] \in Batch
    BY <1>0 DEF TypeOK
  <1>1. ASSUME NEW w \in Writers, Commit(w)
        PROVE  RefsFit' /\ Ordered' /\ BatchesChain'
    <2> DEFINE n == Len(batches)
    <2>1. /\ batches' \in Seq(Batch) /\ Len(batches') = n + 1
          /\ \A i \in 1..n : batches'[i] = batches[i]
          /\ batches'[n + 1].from = txn[w].from
          /\ batches'[n + 1].to = txn[w].to
          /\ batches'[n + 1].ref = txn[w].doc
      BY <1>0, <1>1, BatchAdded
    <2>2. pc[w] = "commit" /\ wm' = txn[w].to
      BY <1>0, <1>1, CommitFacts
    <2>3. /\ txn[w].from = wm /\ wm < txn[w].to /\ txn[w].to \in Nat
          /\ txn[w].doc.from = txn[w].from /\ txn[w].doc.to = txn[w].to
      BY <1>0, <2>2 DEF StillCurrent, DocPrepared, TypeOK, Memory
    <2>4. batches' # << >>
      BY <1>t, <2>1
    <2> HIDE DEF n
    <2>5. n \in Nat
      BY <1>t DEF n
    <2>6. RefsFit'
      BY <1>0, <2>1, <2>3, <2>5 DEF RefsFit, n
    <2>7. \A i \in 1..n : batches[i].to \in Nat /\ batches[i].to <= wm
      BY <1>0, <1>t DEF Ordered, Batch, n
    <2>8. \A i \in 1..(n + 1) : i = n + 1 \/ i \in 1..n
      BY <2>5
    <2>9. Ordered'
      <3>1. ASSUME NEW i \in 1..(n + 1)
            PROVE  /\ batches'[i].to <= wm'
                   /\ \A j \in 1..(n + 1) :
                        i < j => batches'[i].to <= batches'[j].from
        <4>1. CASE i = n + 1
          BY <1>t, <2>1, <2>2, <2>3, <2>5, <4>1
        <4>2. CASE i \in 1..n
          <5>1. batches'[i].to = batches[i].to
            BY <2>1, <4>2
          <5>2. batches'[i].to <= wm'
            BY <1>t, <2>2, <2>3, <2>7, <4>2, <5>1
          <5>3. ASSUME NEW j \in 1..n, i < j
                PROVE  batches'[i].to <= batches'[j].from
            BY <1>0, <2>1, <4>2, <5>1, <5>3 DEF Ordered, n
          <5>4. batches'[i].to <= batches'[n + 1].from
            BY <2>1, <2>3, <2>7, <4>2, <5>1
          <5> QED
            BY <2>8, <5>2, <5>3, <5>4
        <4> QED
          BY <2>8, <4>1, <4>2
      <3> QED
        BY <2>1, <3>1 DEF Ordered
    <2>10. BatchesChain'
      <3>1. ASSUME NEW i \in 1..(n + 1)
            PROVE  /\ batches'[i].from =
                        IF i = 1 THEN 0 ELSE batches'[i - 1].to
                   /\ batches'[i].from < batches'[i].to
        <4>1. CASE i = n + 1
          <5>1. CASE n = 0
            BY <1>0, <1>t, <2>1, <2>3, <4>1, <5>1 DEF BatchesChain, n
          <5>2. CASE n # 0
            <6>1. n \in 1..n /\ batches'[n] = batches[n]
              BY <2>1, <2>5, <5>2
            <6>2. wm = batches[n].to
              BY <1>0, <1>t, <5>2 DEF BatchesChain, n
            <6>3. i # 1 /\ i - 1 = n
              BY <2>5, <4>1, <5>2
            <6> QED
              BY <2>1, <2>3, <4>1, <6>1, <6>2, <6>3
          <5> QED
            BY <5>1, <5>2
        <4>2. CASE i \in 1..n
          <5>1. batches'[i] = batches[i]
            BY <2>1, <4>2
          <5>2. i # 1 => i - 1 \in 1..n
            BY <2>5, <4>2
          <5>3. i # 1 => batches'[i - 1] = batches[i - 1]
            BY <2>1, <5>2
          <5>4. /\ batches[i].from = IF i = 1 THEN 0 ELSE batches[i - 1].to
                /\ batches[i].from < batches[i].to
            BY <1>0, <4>2 DEF BatchesChain, n
          <5> QED
            BY <5>1, <5>3, <5>4
        <4> QED
          BY <2>8, <4>1, <4>2
      <3> QED
        BY <2>1, <2>2, <2>4, <3>1 DEF BatchesChain
    <2> QED
      BY <2>6, <2>9, <2>10
  <1>2. ASSUME NEW w \in Writers, Mark(w)
        PROVE  RefsFit' /\ Ordered' /\ BatchesChain'
    <2>1. pc[w] = "mark"
      BY <1>2, MarkFacts
    <2>2. /\ txn[w].batch \in 1..Len(batches)
          /\ batches[txn[w].batch].ref = txn[w].doc
      BY <1>0, <2>1 DEF StillPending, Finishing
    <2>3. txn[w].doc \in Docs /\ txn[w].batch \in Nat
      BY <1>0 DEF TypeOK, Memory
    <2>4. /\ Len(batches') = Len(batches) /\ wm' = wm
          /\ \A i \in 1..Len(batches) :
               /\ batches'[i].from = batches[i].from
               /\ batches'[i].to = batches[i].to
               /\ batches'[i].ref.from = batches[i].ref.from
               /\ batches'[i].ref.to = batches[i].ref.to
      <3> DEFINE doc == Committed(txn[w].doc, txn[w].batch)
      <3>1. doc.from = txn[w].doc.from /\ doc.to = txn[w].doc.to
        BY <2>3, DocFacts
      <3> HIDE DEF doc
      <3>2. /\ Len(batches') = Len(batches) /\ wm' = wm
            /\ \A i \in 1..Len(batches) :
                 /\ batches'[i].from = batches[i].from
                 /\ batches'[i].to = batches[i].to
                 /\ batches'[i].ref =
                      IF i = txn[w].batch THEN doc ELSE batches[i].ref
        BY <1>2, MarkFacts DEF doc
      <3> QED
        BY <2>2, <3>1, <3>2
    <2>5. batches' = << >> <=> batches = << >>
      BY <1>0, <1>2, <1>t, <2>4, TypeStep DEF TypeOK, Next, Step
    <2>6. RefsFit' /\ Ordered'
      BY <1>0, <2>4 DEF RefsFit, Ordered
    <2>7. \A i \in 1..Len(batches) : i # 1 => i - 1 \in 1..Len(batches)
      BY <1>t
    <2>8. batches # << >> => Len(batches) \in 1..Len(batches)
      BY <1>t
    <2>9. BatchesChain'
      BY <1>0, <2>4, <2>5, <2>7, <2>8 DEF BatchesChain
    <2> QED
      BY <2>6, <2>9
  <1>3. CASE batches' = batches /\ wm' = wm
    BY <1>0, <1>3 DEF RefsFit, Ordered, BatchesChain
  <1>4. CASE Verify \/ PublishBar \/ ReviseSource \/ UNCHANGED vars
    BY <1>3, <1>4, OthersFacts
  <1>5. ASSUME NEW w \in Writers, Step(w) \/ Fault(w)
        PROVE  RefsFit' /\ Ordered' /\ BatchesChain'
    <2>1. Begin(w) => batches' = batches /\ wm' = wm
      BY DEF Begin, dbVars
    <2> QED
      BY <1>0, <1>1, <1>2, <1>3, <1>5, <2>1, Kinds, EmitFacts, FinishFacts
  <1> QED
    BY <1>4, <1>5 DEF Next

-----------------------------------------------------------------------------
\* The invariant holds at the start and after every step.
LEMMA LaneStart == Init => LaneInv
  <1>1. ASSUME Init PROVE TypeOK
    <2>1. NoTxn \in Memory
      BY DocFacts DEF NoTxn, Memory
    <2>2. NoFaults \in [DOMAIN NoFaults -> Nat]
      BY DEF NoFaults
    <2> QED
      BY <1>1, <2>1, <2>2 DEF Init, TypeOK, Labels, NoReader
  <1>2. ASSUME Init
        PROVE  /\ Locked /\ StillCurrent /\ DocPrepared /\ StillPending
               /\ OneFinisher /\ RefsFit /\ Ordered /\ BatchesChain
    BY <1>2 DEF Init, Locked, StillCurrent, DocPrepared, StillPending,
                OneFinisher, RefsFit, Ordered, BatchesChain, Writing, Finishing
  <1> QED
    BY <1>1, <1>2 DEF LaneInv

LEMMA LaneStep == LaneInv /\ [Next]_vars => LaneInv'
  BY TypeStep, LockStep, CurrentStep, PreparedStep, PendingStep, ChainStep
     DEF LaneInv

THEOREM LaneInvariant == Spec => []LaneInv
  BY LaneStart, LaneStep, PTL DEF Spec

\* Type correctness: whatever runs meet, die or fail, the database, the
\* sidecars and the verifier keep the shape the schema gives them.
THEOREM TypeCorrect == Spec => []TypeOK
  <1>1. LaneInv => TypeOK
    BY DEF LaneInv
  <1> QED
    BY <1>1, LaneInvariant, PTL

\* Every accounted bar is in exactly one batch of run_sqlite_accounting, for
\* any number of commands and deaths.
THEOREM BatchesCorrect == Spec => []BatchesChain
  <1>1. LaneInv => BatchesChain
    BY DEF LaneInv
  <1> QED
    BY <1>1, LaneInvariant, PTL

-----------------------------------------------------------------------------
\* The sidecars of bars beyond those of a batch that carried a position have
\* other names than the sidecar of the batch.
LEMMA PathsDiffer ==
    ASSUME NEW d \in Docs, NEW e \in Docs,
           Windows(d.from, d.to) # {},
           d.to <= e.from \/ e.to <= d.from
    PROVE  Path(d) # Path(e)
  <1>1. PICK h \in Windows(d.from, d.to) : TRUE
    OBVIOUS
  <1>2. h \in Nat /\ d.from < h /\ h <= d.to
    BY HeldAssumption DEF Windows
  <1>3. d.from \in Nat /\ d.to \in Nat /\ e.from \in Nat /\ e.to \in Nat
    BY DEF Docs
  <1>4. h \notin Windows(e.from, e.to)
    BY <1>2, <1>3 DEF Windows
  <1> QED
    BY <1>4 DEF Path

\* No step removes complete evidence.
LEMMA EvidenceStep ==
    ASSUME LaneInv, [Next]_vars
    PROVE  EvidenceKept
  <1>0. /\ TypeOK /\ StillPending /\ OneFinisher /\ StillCurrent
        /\ DocPrepared /\ RefsFit /\ Ordered
    BY DEF LaneInv
  <1>t. \A i \in 1..Len(batches) : batches[i] \in Batch /\ batches[i].ref \in Docs
    <2>1. \A i \in 1..Len(batches) : batches[i] \in Batch
      BY <1>0 DEF TypeOK
    <2> QED
      BY <2>1 DEF Batch
  <1> SUFFICES ASSUME NEW i \in 1..Len(batches), Carries(i), Evidence(i)
               PROVE  /\ batches'[i].ref = batches[i].ref
                      /\ batches[i].ref \in sidecar'
    BY DEF EvidenceKept
  <1> DEFINE ref == batches[i].ref
  <1>i. /\ ref \in Docs /\ ref \in sidecar /\ ref.state = "committed"
        /\ ref.from = batches[i].from /\ ref.to = batches[i].to
        /\ Windows(ref.from, ref.to) # {}
    BY <1>0, <1>t DEF Evidence, Carries, RefsFit
  <1> HIDE DEF ref
  <1>1. CASE batches' = batches /\ sidecar' = sidecar
    BY <1>1, <1>i DEF ref
  <1>2. ASSUME NEW w \in Writers, Emit(w)
        PROVE  batches' = batches /\ ref \in sidecar'
    <2>1. /\ pc[w] = "emit" /\ batches' = batches
          /\ sidecar' = Put(txn'[w].doc)
          /\ txn'[w].doc.from = txn[w].from
      BY <1>0, <1>2, EmitFacts
    <2>2. txn[w].from = wm /\ batches[i].to <= wm
      BY <1>0, <2>1 DEF StillCurrent, Ordered
    <2>3. txn'[w].doc \in Docs
      BY <1>2, TypeStep DEF TypeOK, Memory, Next, Step
    <2>4. Path(ref) # Path(txn'[w].doc)
      BY <1>i, <2>1, <2>2, <2>3, PathsDiffer
    <2> QED
      BY <1>i, <2>1, <2>4 DEF Put
  <1>3. ASSUME NEW w \in Writers, Commit(w)
        PROVE  batches'[i] = batches[i] /\ sidecar' = sidecar
    BY <1>0, <1>3, BatchAdded, CommitFacts
  <1>4. ASSUME NEW w \in Writers, Finishing(w)
        PROVE  /\ txn[w].batch \in 1..Len(batches) /\ i # txn[w].batch
               /\ txn[w].doc \in Docs
               /\ Path(ref) # Path(txn[w].doc)
    <2> DEFINE b == txn[w].batch
    <2>1. /\ b \in 1..Len(batches) /\ batches[b].ref = txn[w].doc
          /\ txn[w].doc.state = "pending"
      BY <1>0, <1>4 DEF StillPending
    <2>2. i # b
      BY <1>i, <2>1 DEF ref
    <2>3. txn[w].doc \in Docs
      BY <1>t, <2>1
    <2>4. txn[w].doc.from = batches[b].from /\ txn[w].doc.to = batches[b].to
      BY <1>0, <2>1 DEF RefsFit
    <2>5. batches[i].to <= batches[b].from \/ batches[b].to <= batches[i].from
      BY <1>0, <2>1, <2>2 DEF Ordered
    <2>6. Path(ref) # Path(txn[w].doc)
      BY <1>i, <2>3, <2>4, <2>5, PathsDiffer
    <2> QED
      BY <2>1, <2>2, <2>3, <2>6
  <1>5. ASSUME NEW w \in Writers, Finish(w)
        PROVE  batches' = batches /\ ref \in sidecar'
    <2>1. /\ batches' = batches /\ Finishing(w)
          /\ sidecar' = Put(Committed(txn[w].doc, txn[w].batch))
      BY <1>0, <1>5, FinishFacts DEF Finishing
    <2>2. Path(Committed(txn[w].doc, txn[w].batch)) = Path(txn[w].doc)
      <3>1. txn[w].doc \in Docs /\ txn[w].batch \in Nat
        BY <1>0 DEF TypeOK, Memory
      <3> QED
        BY <3>1, DocFacts
    <2>3. Path(ref) # Path(txn[w].doc)
      BY <1>4, <2>1
    <2> QED
      BY <1>i, <2>1, <2>2, <2>3 DEF Put
  <1>6. ASSUME NEW w \in Writers, Mark(w)
        PROVE  batches'[i].ref = batches[i].ref /\ sidecar' = sidecar
    <2>1. pc[w] = "mark" /\ i # txn[w].batch
      BY <1>4, <1>6, MarkFacts DEF Finishing
    <2> QED
      BY <1>6, <2>1, MarkFacts
  <1>7. ASSUME NEW w \in Writers, Step(w) \/ Fault(w)
        PROVE  batches'[i].ref = batches[i].ref /\ ref \in sidecar'
    <2>1. Begin(w) => batches' = batches /\ sidecar' = sidecar
      BY DEF Begin, dbVars
    <2> QED
      BY <1>0, <1>1, <1>2, <1>3, <1>5, <1>6, <1>7, <1>i, <2>1, Kinds
         DEF ref
  <1>8. CASE Verify \/ PublishBar \/ ReviseSource \/ UNCHANGED vars
    BY <1>1, <1>8, OthersFacts
  <1> QED
    BY <1>7, <1>8 DEF Next, ref

\* Complete evidence of a batch that carried a position is never overwritten,
\* whichever commands run, roll back, finish late or die: each sidecar of a
\* batch with windows has a path of its own, and its reference is replaced
\* only once.
THEOREM EvidenceCorrect == Spec => EvidenceStays
  <1>1. LaneInv /\ [Next]_vars => [EvidenceKept]_vars
    BY EvidenceStep
  <1> QED
    BY <1>1, LaneInvariant, PTL DEF Spec, EvidenceStays

-----------------------------------------------------------------------------
\* The batch the verifier has pinned, and the reference it found there.
Target    == Len(reader.view)
TargetRef == reader.view[Target].ref

\* A committed reference the verifier has pinned is still in the database,
Pinned ==
    reader.at \in {"sidecar", "source"} =>
        /\ Target \in 1..Len(batches)
        /\ TargetRef.state = "committed" => batches[Target].ref = TargetRef
\* and the sidecar it has found is still there.
Found ==
    reader.at = "source" /\ reader.seen = {TargetRef} /\ Carries(Target)
        /\ TargetRef.state = "committed"
            => TargetRef \in sidecar
VerifierInv == LaneInv /\ Pinned /\ Found /\ PublishedHolds

\* Batches stay, and a committed reference is not replaced.
LEMMA BatchesKept ==
    ASSUME LaneInv, [Next]_vars
    PROVE  /\ Len(batches) \in Nat /\ Len(batches') \in Nat
           /\ Len(batches) <= Len(batches')
           /\ \A i \in 1..Len(batches) :
                /\ batches'[i].from = batches[i].from
                /\ batches'[i].to = batches[i].to
                /\ batches[i].ref.state = "committed" =>
                     batches'[i].ref = batches[i].ref
  <1>0. TypeOK /\ TypeOK' /\ StillPending
    BY TypeStep DEF LaneInv
  <1>t. Len(batches) \in Nat /\ Len(batches') \in Nat
    BY <1>0 DEF TypeOK
  <1>1. CASE batches' = batches
    BY <1>t, <1>1
  <1>2. ASSUME NEW w \in Writers, Commit(w)
        PROVE  /\ Len(batches') = Len(batches) + 1
               /\ \A i \in 1..Len(batches) : batches'[i] = batches[i]
    BY <1>0, <1>2, BatchAdded
  <1>3. ASSUME NEW w \in Writers, Mark(w)
        PROVE  /\ Len(batches') = Len(batches)
               /\ \A i \in 1..Len(batches) :
                    /\ batches'[i].from = batches[i].from
                    /\ batches'[i].to = batches[i].to
                    /\ batches[i].ref.state = "committed" =>
                         batches'[i].ref = batches[i].ref
    <2>1. pc[w] = "mark"
      BY <1>3, MarkFacts
    <2>2. batches[txn[w].batch].ref.state = "pending"
      BY <1>0, <2>1 DEF StillPending, Finishing
    <2> QED
      BY <1>3, <2>2, MarkFacts
  <1>4. ASSUME NEW w \in Writers, Step(w) \/ Fault(w)
        PROVE  Commit(w) \/ Mark(w) \/ batches' = batches
    <2>1. Begin(w) => batches' = batches
      BY DEF Begin, dbVars
    <2> QED
      BY <1>0, <1>4, <2>1, Kinds, EmitFacts, FinishFacts
  <1>5. CASE Verify \/ PublishBar \/ ReviseSource \/ UNCHANGED vars
    BY <1>1, <1>5, OthersFacts
  <1> QED
    BY <1>t, <1>1, <1>2, <1>3, <1>4, <1>5 DEF Next

\* What the verifier has read stays true while runs go on.
LEMMA VerifierStep ==
    ASSUME VerifierInv, [Next]_vars
    PROVE  VerifierInv'
  <1>0. LaneInv /\ TypeOK /\ Pinned /\ Found /\ PublishedHolds
    BY DEF VerifierInv, LaneInv
  <1>l. LaneInv'
    BY <1>0, LaneStep
  <1>1. ASSUME UNCHANGED reader
        PROVE  Pinned' /\ Found'
    <2>1. UNCHANGED <<Target, TargetRef>>
      BY <1>1 DEF Target, TargetRef
    <2>2. Pinned'
      BY <1>0, <1>1, <2>1, BatchesKept DEF Pinned
    <2>3. Found'
      <3> SUFFICES ASSUME reader.at = "source", reader.seen = {TargetRef},
                          Carries(Target)', TargetRef.state = "committed"
                   PROVE  TargetRef \in sidecar'
        BY <1>1, <2>1 DEF Found
      <3>1. /\ Target \in 1..Len(batches)
            /\ batches[Target].ref = TargetRef
        BY <1>0 DEF Pinned
      <3>2. Target' = Target
        BY <2>1
      <3>3. Carries(Target)
        BY <1>0, <3>1, <3>2, BatchesKept DEF Carries, Windows
      <3>4. TargetRef \in sidecar
        BY <1>0, <3>3 DEF Found
      <3>5. Evidence(Target)
        BY <3>1, <3>4 DEF Evidence
      <3>6. EvidenceKept
        BY <1>0, EvidenceStep
      <3> QED
        BY <3>1, <3>3, <3>5, <3>6 DEF EvidenceKept
    <2> QED
      BY <2>2, <2>3
  <1>2. ASSUME verdict' = verdict
        PROVE  PublishedHolds'
    <2> SUFFICES ASSUME verdict.valid
                 PROVE  /\ verdict.batch \in 1..Len(batches')
                        /\ Carries(verdict.batch)' => Evidence(verdict.batch)'
      BY <1>2 DEF PublishedHolds
    <2> DEFINE b == verdict.batch
    <2>1. b \in 1..Len(batches) /\ (Carries(b) => Evidence(b))
      BY <1>0 DEF PublishedHolds
    <2>2. b' = b
      BY <1>2
    <2>3. /\ b \in 1..Len(batches')
          /\ batches'[b].from = batches[b].from
          /\ batches'[b].to = batches[b].to
      BY <1>0, <2>1, BatchesKept
    <2>4. EvidenceKept
      BY <1>0, EvidenceStep
    <2>5. Carries(b)' => Carries(b)
      BY <2>2, <2>3 DEF Carries, Windows
    <2>6. Carries(b) => batches'[b].ref = batches[b].ref /\ batches[b].ref \in sidecar'
      BY <2>1, <2>4 DEF EvidenceKept
    <2>7. Carries(b)' => Evidence(b)'
      BY <2>1, <2>2, <2>5, <2>6 DEF Evidence
    <2> QED
      BY <2>3, <2>7
  <1>3. CASE Pin
    <2>1. UNCHANGED <<batches, sidecar, verdict>>
      BY <1>3 DEF Pin, dbVars
    <2>2. reader'.at = "sidecar" /\ reader'.view = batches
      BY <1>3 DEF Pin, NoReader
    <2>3. Len(batches) \in 1..Len(batches)
      BY <1>0, <1>3 DEF Pin, TypeOK
    <2>4. Pinned' /\ Found'
      BY <2>1, <2>2, <2>3 DEF Pinned, Found, Target, TargetRef
    <2> QED
      BY <1>2, <1>l, <2>1, <2>4 DEF VerifierInv
  <1>4. CASE ReadSidecar
    <2>1. UNCHANGED <<batches, sidecar, verdict>>
      BY <1>4 DEF ReadSidecar, dbVars
    <2>2. /\ reader.at = "sidecar"
          /\ reader'.at = "source" /\ reader'.view = reader.view
          /\ reader'.seen \subseteq sidecar
      BY <1>0, <1>4 DEF ReadSidecar, TypeOK
    <2>3. UNCHANGED <<Target, TargetRef>>
      BY <2>2 DEF Target, TargetRef
    <2>4. Pinned'
      BY <1>0, <2>1, <2>2, <2>3 DEF Pinned
    <2>5. Found'
      BY <2>1, <2>2, <2>3 DEF Found
    <2> QED
      BY <1>2, <1>l, <2>1, <2>4, <2>5 DEF VerifierInv
  <1>5. CASE Publish
    <2>1. UNCHANGED <<batches, sidecar>> /\ reader'.at = "idle"
      BY <1>5 DEF Publish, dbVars, NoReader
    <2>2. Pinned' /\ Found'
      BY <2>1 DEF Pinned, Found
    <2>3. /\ reader.at = "source" /\ verdict'.batch = Target
          /\ verdict'.valid = PresentValid(reader.view, reader.seen)
      BY <1>5 DEF Publish, Target
    <2>4. ASSUME PresentValid(reader.view, reader.seen)
          PROVE  /\ Target \in 1..Len(batches)
                 /\ Carries(Target) => Evidence(Target)
      <3>1. reader.seen = {TargetRef} /\ TargetRef.state = "committed"
        BY <2>4 DEF PresentValid, Target, TargetRef
      <3>2. Target \in 1..Len(batches) /\ batches[Target].ref = TargetRef
        BY <1>0, <2>3, <3>1 DEF Pinned
      <3>3. Carries(Target) => TargetRef \in sidecar
        BY <1>0, <2>3, <3>1 DEF Found
      <3> QED
        BY <3>1, <3>2, <3>3 DEF Evidence
    <2>5. PublishedHolds'
      BY <2>1, <2>3, <2>4 DEF PublishedHolds, Carries, Evidence
    <2> QED
      BY <1>l, <2>2, <2>5 DEF VerifierInv
  <1>6. ASSUME ~Pin, ~ReadSidecar, ~Publish
        PROVE  UNCHANGED <<reader, verdict>>
    <2>1. ASSUME NEW w \in Writers, Step(w) \/ Fault(w)
          PROVE  UNCHANGED <<reader, verdict>>
      BY <2>1 DEF Step, Fault, Begin, Account, Emit, Commit, Finish, Mark,
                  GateAborts, RollBack, FinishFails, Crash
    <2> QED
      BY <1>6, <2>1 DEF Next, Verify, PublishBar, ReviseSource, vars
  <1> QED
    BY <1>1, <1>2, <1>3, <1>4, <1>5, <1>6, <1>l DEF VerifierInv

LEMMA VerifierStart == Init => VerifierInv
  <1>1. ASSUME Init PROVE Pinned /\ Found /\ PublishedHolds
    BY <1>1 DEF Init, NoReader, Pinned, Found, PublishedHolds
  <1> QED
    BY <1>1, LaneStart DEF VerifierInv

\* A verdict of verify_and_publish that the evidence of a batch is valid stays
\* true, although the verifier pins the database first and reads the sidecar
\* and publishes later, with runs going on in between.
THEOREM VerdictCorrect == Spec => []PublishedHolds
  <1>1. VerifierInv => PublishedHolds
    BY DEF VerifierInv
  <1>2. VerifierInv /\ [Next]_vars => VerifierInv'
    BY VerifierStep
  <1> QED
    BY <1>1, <1>2, VerifierStart, PTL DEF Spec

-----------------------------------------------------------------------------
\* A sidecar about the bars of a batch that carried a position is overwritten
\* by nobody but the command that finishes the batch.
LEMMA SidecarKept ==
    ASSUME LaneInv, [Next]_vars,
           NEW i \in 1..Len(batches), Carries(i),
           NEW d \in sidecar, d.from = batches[i].from, d.to = batches[i].to,
           \A v \in Writers : Finish(v) => txn[v].batch # i
    PROVE  d \in sidecar'
  <1>0. /\ TypeOK /\ TypeOK' /\ StillPending /\ StillCurrent /\ RefsFit /\ Ordered
    BY TypeStep DEF LaneInv
  <1>t. batches[i] \in Batch /\ d \in Docs
    BY <1>0 DEF TypeOK
  <1>w. Windows(d.from, d.to) # {}
    BY DEF Carries
  <1>1. ASSUME NEW w \in Writers, Emit(w)
        PROVE  d \in sidecar'
    <2>1. /\ pc[w] = "emit" /\ sidecar' = Put(txn'[w].doc)
          /\ txn'[w].doc.from = txn[w].from
      BY <1>0, <1>1, EmitFacts
    <2>2. txn[w].from = wm /\ batches[i].to <= wm
      BY <1>0, <2>1 DEF StillCurrent, Ordered
    <2>3. txn'[w].doc \in Docs
      BY <1>0 DEF TypeOK, Memory
    <2>4. Path(d) # Path(txn'[w].doc)
      BY <1>t, <1>w, <2>1, <2>2, <2>3, PathsDiffer
    <2> QED
      BY <2>1, <2>4 DEF Put
  <1>2. ASSUME NEW w \in Writers, Finish(w)
        PROVE  d \in sidecar'
    <2> DEFINE b == txn[w].batch
    <2>1. /\ b \in 1..Len(batches) /\ batches[b].ref = txn[w].doc
          /\ sidecar' = Put(Committed(txn[w].doc, b))
      BY <1>0, <1>2, FinishFacts DEF StillPending, Finishing
    <2>2. txn[w].doc \in Docs /\ b \in Nat
      BY <1>0 DEF TypeOK, Memory
    <2>3. txn[w].doc.from = batches[b].from /\ txn[w].doc.to = batches[b].to
      BY <1>0, <2>1 DEF RefsFit
    <2>4. batches[i].to <= batches[b].from \/ batches[b].to <= batches[i].from
      BY <1>0, <1>2, <2>1 DEF Ordered
    <2>5. Path(d) # Path(txn[w].doc)
      BY <1>t, <1>w, <2>2, <2>3, <2>4, PathsDiffer
    <2>6. Path(Committed(txn[w].doc, b)) = Path(txn[w].doc)
      BY <2>2, DocFacts
    <2> QED
      BY <2>1, <2>5, <2>6 DEF Put
  <1>3. ASSUME NEW w \in Writers, Step(w) \/ Fault(w)
        PROVE  d \in sidecar'
    <2>1. Begin(w) => sidecar' = sidecar
      BY DEF Begin
    <2> QED
      BY <1>0, <1>1, <1>2, <1>3, <2>1, Kinds, CommitFacts, MarkFacts
  <1>4. CASE Verify \/ PublishBar \/ ReviseSource \/ UNCHANGED vars
    BY <1>4, OthersFacts
  <1> QED
    BY <1>3, <1>4 DEF Next

\* Between the two last writes of a command the first one is in place.
FinishedThere ==
    \A w \in Writers :
        pc[w] = "mark" /\ Carries(txn[w].batch) =>
            Committed(txn[w].doc, txn[w].batch) \in sidecar
\* The batches whose evidence is missing and that nobody is about to finish.
Abandoned ==
    {i \in 1..Len(batches) :
        /\ Carries(i) /\ ~Evidence(i)
        /\ \A w \in Writers : Finishing(w) => txn[w].batch # i}
\* Each of them is one death or one failure.
AbandonedAreFaults == Cardinality(Abandoned) <= faults.crash + faults.finish
GapInv == LaneInv /\ FinishedThere /\ AbandonedAreFaults

LEMMA FinishedStep ==
    ASSUME GapInv, [Next]_vars
    PROVE  FinishedThere'
  <1>0. /\ LaneInv /\ TypeOK /\ TypeOK' /\ StillPending /\ OneFinisher /\ RefsFit
    BY TypeStep DEF GapInv, LaneInv
  <1> SUFFICES ASSUME NEW w \in Writers, pc'[w] = "mark", Carries(txn[w].batch)'
               PROVE  Committed(txn'[w].doc, txn'[w].batch) \in sidecar'
    BY DEF FinishedThere
  <1>1. ASSUME Finish(w)
        PROVE  Committed(txn'[w].doc, txn'[w].batch) \in sidecar'
    BY <1>0, <1>1, FinishFacts DEF Put
  <1>2. ASSUME ~Finish(w)
        PROVE  pc[w] = "mark" /\ txn'[w] = txn[w]
               /\ (\A v \in Writers : Finish(v) => v # w)
    <2>1. ASSUME Step(w) \/ Fault(w)
          PROVE  FALSE
      <3>1. pc'[w] # "mark"
        BY <1>0, <1>2, <2>1, Kinds, EmitFacts, CommitFacts, MarkFacts DEF Begin, Goto, TypeOK
      <3> QED
        BY <3>1
    <2>2. ASSUME NEW v \in Writers \ {w}, Step(v) \/ Fault(v)
          PROVE  pc'[w] = pc[w] /\ txn'[w] = txn[w]
      BY <1>0, <2>2, OneMoves
    <2>3. CASE Verify \/ PublishBar \/ ReviseSource \/ UNCHANGED vars
      BY <1>2, <2>3, OthersFacts
    <2> QED
      BY <1>2, <2>1, <2>2, <2>3 DEF Next
  <1>3. CASE ~Finish(w)
    <2> DEFINE b == txn[w].batch
               d == Committed(txn[w].doc, b)
    <2>1. /\ pc[w] = "mark" /\ Finishing(w) /\ b \in 1..Len(batches)
          /\ txn[w].doc = batches[b].ref
      BY <1>0, <1>2, <1>3 DEF StillPending, Finishing
    <2>2. txn[w].doc \in Docs /\ b \in Nat
      BY <1>0 DEF TypeOK, Memory
    <2>3. d.from = batches[b].from /\ d.to = batches[b].to
      <3>1. d.from = txn[w].doc.from /\ d.to = txn[w].doc.to
        BY <2>2, DocFacts
      <3> QED
        BY <1>0, <2>1, <3>1 DEF RefsFit
    <2>4. txn'[w] = txn[w]
      BY <1>2, <1>3
    <2>5. Carries(b)
      BY <1>0, <2>1, <2>4, BatchesKept DEF Carries, Windows
    <2>6. d \in sidecar
      BY <2>1, <2>5 DEF GapInv, FinishedThere
    <2>7. ASSUME NEW v \in Writers, Finish(v) PROVE txn[v].batch # b
      BY <1>0, <1>2, <1>3, <2>1, <2>7, FinishFacts DEF OneFinisher, Finishing
    <2> HIDE DEF d
    <2>8. d \in sidecar'
      BY <1>0, <2>1, <2>3, <2>5, <2>6, <2>7, SidecarKept
    <2> QED
      BY <2>4, <2>8 DEF d
  <1> QED
    BY <1>1, <1>3

\* A step abandons one batch if it is a death or a failure after the commit,
\* and none otherwise.
LEMMA AbandonedStep ==
    ASSUME GapInv, [Next]_vars
    PROVE  AbandonedAreFaults'
  <1>0. /\ LaneInv /\ TypeOK /\ TypeOK' /\ StillPending /\ OneFinisher
    BY TypeStep DEF GapInv, LaneInv
  <1>n. /\ faults.crash \in Nat /\ faults.finish \in Nat
        /\ faults'.crash \in Nat /\ faults'.finish \in Nat
        /\ Len(batches) \in Nat /\ Len(batches') \in Nat
    BY <1>0, SMTT(30) DEF TypeOK, NoFaults
  <1>f. /\ IsFiniteSet(Abandoned) /\ Cardinality(Abandoned) \in Nat
        /\ Cardinality(Abandoned) <= faults.crash + faults.finish
    <2>1. IsFiniteSet(1..Len(batches))
      BY <1>n, FS_Interval
    <2>2. IsFiniteSet(Abandoned)
      BY <2>1, FS_Subset DEF Abandoned
    <2> QED
      BY <2>2, FS_CardinalityType DEF GapInv, AbandonedAreFaults
  <1>s. ASSUME Abandoned' \subseteq Abandoned
        PROVE  Cardinality(Abandoned') <= Cardinality(Abandoned)
               /\ Cardinality(Abandoned') \in Nat
    BY <1>f, <1>s, FS_Subset, FS_CardinalityType
  <1>x. ASSUME NEW x, Abandoned' \subseteq Abandoned \cup {x}
        PROVE  Cardinality(Abandoned') <= Cardinality(Abandoned) + 1
               /\ Cardinality(Abandoned') \in Nat
    <2>1. IsFiniteSet(Abandoned \cup {x})
          /\ Cardinality(Abandoned \cup {x}) \in Nat
          /\ Cardinality(Abandoned \cup {x}) <= Cardinality(Abandoned) + 1
      BY <1>f, FS_AddElement
    <2>2. IsFiniteSet(Abandoned') /\ Cardinality(Abandoned') <= Cardinality(Abandoned \cup {x})
      BY <1>x, <2>1, FS_Subset
    <2>3. Cardinality(Abandoned') \in Nat
      BY <2>2, FS_CardinalityType
    <2> QED
      BY <1>f, <2>1, <2>2, <2>3
  <1>k. ASSUME NEW i \in 1..Len(batches), Carries(i)', ~Evidence(i)'
        PROVE  Carries(i) /\ ~Evidence(i)
    <2>1. Carries(i)
      BY <1>0, <1>k, BatchesKept DEF Carries, Windows
    <2>2. Carries(i) /\ Evidence(i) => Evidence(i)'
      BY <1>0, EvidenceStep DEF EvidenceKept, Evidence
    <2> QED
      BY <1>k, <2>1, <2>2
  <1>u. ASSUME NEW X, Len(batches') = Len(batches),
               \A v \in Writers : Finishing(v) =>
                   \/ Finishing(v)' /\ txn'[v].batch = txn[v].batch
                   \/ txn[v].batch \in X
        PROVE  Abandoned' \subseteq Abandoned \cup X
    BY <1>k, <1>u DEF Abandoned
  <1>q. ASSUME faults'.crash + faults'.finish >= faults.crash + faults.finish,
               Abandoned' \subseteq Abandoned
        PROVE  AbandonedAreFaults'
    BY <1>f, <1>n, <1>s, <1>q DEF AbandonedAreFaults
  <1>1. ASSUME NEW w \in Writers, Crash(w) \/ FinishFails(w)
        PROVE  AbandonedAreFaults'
    <2>1. Fault(w) /\ batches' = batches
      BY <1>1 DEF Fault, Crash, FinishFails, dbVars
    <2>2. \A v \in Writers \ {w} : pc'[v] = pc[v] /\ txn'[v] = txn[v]
      BY <1>0, <2>1, OneMoves
    <2>3. Abandoned' \subseteq Abandoned \cup {txn[w].batch}
      BY <1>u, <2>1, <2>2 DEF Finishing
    <2>4. faults'.crash + faults'.finish = faults.crash + faults.finish + 1
      <3>1. CASE Crash(w)
        BY <1>0, <1>n, <3>1 DEF Crash, Spend, TypeOK, NoFaults
      <3>2. CASE FinishFails(w)
        BY <1>0, <1>n, <3>2 DEF FinishFails, Spend, TypeOK, NoFaults
      <3> QED
        BY <1>1, <3>1, <3>2
    <2>5. Cardinality(Abandoned') <= Cardinality(Abandoned) + 1
          /\ Cardinality(Abandoned') \in Nat
      BY <1>x, <2>3
    <2> QED
      BY <1>f, <1>n, <2>4, <2>5 DEF AbandonedAreFaults
  <1>2. ASSUME NEW w \in Writers, GateAborts(w) \/ RollBack(w)
        PROVE  AbandonedAreFaults'
    <2>1. Fault(w) /\ batches' = batches /\ ~Finishing(w)
      BY <1>2 DEF Fault, GateAborts, RollBack, dbVars, Finishing
    <2>2. \A v \in Writers \ {w} : pc'[v] = pc[v] /\ txn'[v] = txn[v]
      BY <1>0, <2>1, OneMoves
    <2>3. Abandoned' \subseteq Abandoned
      BY <1>u, <2>1, <2>2 DEF Finishing
    <2>4. faults'.crash = faults.crash /\ faults'.finish = faults.finish
      BY <1>0, <1>2 DEF GateAborts, RollBack, Spend, TypeOK, NoFaults
    <2> QED
      BY <1>n, <1>q, <2>3, <2>4
  <1>3. ASSUME NEW w \in Writers, Begin(w) \/ Account(w) \/ Emit(w) \/ Finish(w)
        PROVE  AbandonedAreFaults'
    <2>1. batches' = batches /\ faults' = faults /\ Step(w)
      BY <1>3 DEF Step, Begin, Account, Emit, Finish, dbVars
    <2>2. \A v \in Writers \ {w} : pc'[v] = pc[v] /\ txn'[v] = txn[v]
      BY <1>0, <2>1, OneMoves
    <2>3. Finishing(w) => Finishing(w)' /\ txn'[w] = txn[w]
      BY <1>0, <1>3, FinishFacts DEF Begin, Account, Emit, Finishing
    <2>4. Abandoned' \subseteq Abandoned
      BY <1>u, <2>1, <2>2, <2>3 DEF Finishing
    <2> QED
      BY <1>n, <1>q, <2>1, <2>4
  <1>4. ASSUME NEW w \in Writers, Commit(w)
        PROVE  AbandonedAreFaults'
    <2>1. Len(batches') = Len(batches) + 1 /\ faults' = faults /\ Step(w)
      BY <1>0, <1>4, BatchAdded DEF Commit, Step
    <2>2. \A v \in Writers \ {w} : pc'[v] = pc[v] /\ txn'[v] = txn[v]
      BY <1>0, <2>1, OneMoves
    <2>3. ~Finishing(w) /\ Finishing(w)' /\ txn'[w].batch = Len(batches) + 1
      BY <1>0, <1>4, CommitFacts DEF Finishing
    <2>4. Abandoned' \subseteq Abandoned
      <3> SUFFICES ASSUME NEW i \in Abandoned' PROVE i \in Abandoned
        OBVIOUS
      <3>1. i \in 1..Len(batches)
        BY <1>n, <2>1, <2>3 DEF Abandoned
      <3>2. \A v \in Writers : Finishing(v) => txn[v].batch # i
        BY <2>2, <2>3 DEF Abandoned, Finishing
      <3> QED
        BY <1>k, <3>1, <3>2 DEF Abandoned
    <2> QED
      BY <1>n, <1>q, <2>1, <2>4
  <1>5. ASSUME NEW w \in Writers, Mark(w)
        PROVE  AbandonedAreFaults'
    <2>b. PICK b : b = txn[w].batch
      OBVIOUS
    <2>1. /\ Len(batches') = Len(batches) /\ faults' = faults /\ Step(w)
          /\ pc[w] = "mark" /\ sidecar' = sidecar
      BY <1>0, <1>5, MarkFacts DEF Mark, Step
    <2>2. \A v \in Writers \ {w} : pc'[v] = pc[v] /\ txn'[v] = txn[v]
      BY <1>0, <2>1, OneMoves
    <2>3. b \in 1..Len(batches) /\ batches'[b].ref = Committed(txn[w].doc, b)
      BY <1>0, <1>5, <2>1, <2>b, MarkFacts DEF StillPending, Finishing
    <2>4. Carries(b)' => Carries(b)
      BY <1>0, <2>3, BatchesKept DEF Carries, Windows
    <2>5. Carries(b) => Committed(txn[w].doc, b) \in sidecar
      BY <2>1, <2>b DEF GapInv, FinishedThere
    <2>6. Committed(txn[w].doc, b).state = "committed"
      <3>1. txn[w].doc \in Docs
        BY <1>0 DEF TypeOK, Memory
      <3> QED
        BY <3>1 DEF Committed, Docs
    <2>7. b \notin Abandoned'
      BY <2>1, <2>3, <2>4, <2>5, <2>6 DEF Abandoned, Evidence
    <2>8. Abandoned' \subseteq Abandoned \cup {b}
      BY <1>u, <2>1, <2>2, <2>b DEF Finishing
    <2> QED
      BY <1>n, <1>q, <2>1, <2>7, <2>8
  <1>6. CASE Verify \/ PublishBar \/ ReviseSource \/ UNCHANGED vars
    <2>1. UNCHANGED <<batches, pc, txn>>
      BY <1>6, OthersFacts
    <2>2. faults'.crash = faults.crash /\ faults'.finish = faults.finish
      BY <1>0, <1>6 DEF Verify, Pin, ReadSidecar, Publish, PublishBar, ReviseSource, Spend,
                        vars, TypeOK, NoFaults
    <2>3. Abandoned' \subseteq Abandoned
      BY <1>u, <2>1 DEF Finishing
    <2> QED
      BY <1>n, <1>q, <2>2, <2>3
  <1> QED
    BY <1>1, <1>2, <1>3, <1>4, <1>5, <1>6 DEF Next, Step, Fault

LEMMA GapInvHolds == Spec => []GapInv
  <1>1. ASSUME Init PROVE FinishedThere /\ AbandonedAreFaults
    <2>1. batches = << >> /\ faults = NoFaults /\ \A w \in Writers : pc[w] = "idle"
      BY <1>1 DEF Init
    <2>2. Abandoned = {}
      BY <2>1 DEF Abandoned
    <2>3. Cardinality(Abandoned) = 0
      BY <2>2, FS_EmptySet
    <2> QED
      BY <2>1, <2>3 DEF FinishedThere, AbandonedAreFaults, NoFaults
  <1>2. GapInv /\ [Next]_vars => GapInv'
    BY LaneStep, FinishedStep, AbandonedStep DEF GapInv
  <1> QED
    BY <1>1, <1>2, LaneStart, PTL DEF Spec, GapInv

\* A batch that carried a position and is left without evidence is one whose
\* run died or failed after its commit, one batch for each: commands that
\* overlap, roll back or finish late leave no gap.
THEOREM GapsCorrect == Spec => []GapsAreFaults
  <1>1. ASSUME GapInv, Resting
        PROVE  Cardinality({i \in 1..Len(batches) : Carries(i) /\ ~Evidence(i)})
                   <= faults.crash + faults.finish
    <2>1. Abandoned = {i \in 1..Len(batches) : Carries(i) /\ ~Evidence(i)}
      BY <1>1 DEF Abandoned, Resting, Finishing
    <2> QED
      BY <1>1, <2>1 DEF GapInv, AbandonedAreFaults
  <1>2. GapInv => GapsAreFaults
    BY <1>1 DEF GapsAreFaults
  <1> QED
    BY <1>2, GapInvHolds, PTL
=============================================================================
