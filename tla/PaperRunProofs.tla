--------------------------- MODULE PaperRunProofs ---------------------------
(***************************************************************************)
(* Theorems about PaperRun, and about PaperDamage which adds lost rows to    *)
(* it, for any number of bars, any set of rows and any number of faults.    *)
(***************************************************************************)
EXTENDS PaperDamage, InductionFacts

-----------------------------------------------------------------------------
(***************************************************************************)
(* The operators.                                                          *)
(***************************************************************************)

\* append_new is called on the six ledgers, snapshots first.
LEMMA AppendOrderFacts ==
    /\ Len(AppendOrder) = 6
    /\ \A i \in 1..6 : AppendOrder[i] \in Ledgers
    /\ \A f \in Ledgers : \E i \in 1..6 : AppendOrder[i] = f
    /\ AppendOrder[1] = "snapshots"
  BY DEF AppendOrder, Ledgers

\* The latest of some bars is one of them, or 0.
LEMMA LastBarIn ==
    ASSUME NEW S
    PROVE  LastBar(S) \in S \cup {0}
  BY DEF LastBar

\* No member of S is later than LastBar(S), unless S has no latest member.
LEMMA LastBarTop ==
    ASSUME NEW S, LastBar(S) # 0
    PROVE  LastBar(S) \in S /\ \A b \in S : b <= LastBar(S)
  BY DEF LastBar

\* The bars an engine run accounts for follow the watermark of its state.
LEMMA ProcessedBars ==
    ASSUME TypeOK, NEW st \in StateType
    PROVE  /\ Processed(st) \subseteq (st.wm + 1)..Len(obs)
           /\ Processed(st) \subseteq Bars
           /\ \A b \in Processed(st) : obs[b] \in Rows
           /\ \A b \in Processed(st) :
                \A c \in (st.wm + 1)..b : c \in Processed(st)
  <1>1. st.wm \in 0..NBars
    BY DEF StateType
  <1>2. obs \in Seq(Rows) /\ Len(obs) \in Nat /\ Len(obs) <= NBars
    BY DEF TypeOK
  <1>3. Processed(st) \subseteq (st.wm + 1)..Len(obs)
    BY DEF Processed
  <1>4. (st.wm + 1)..Len(obs) \subseteq 1..Len(obs)
    BY <1>1, <1>2
  <1>5. \A b \in 1..Len(obs) : obs[b] \in Rows
    BY <1>2
  <1>6. \A b \in Processed(st) :
            \A c \in (st.wm + 1)..b : c \in Processed(st)
    BY <1>1, <1>2 DEF Processed
  <1> QED
    BY <1>1, <1>2, <1>3, <1>4, <1>5, <1>6, NBarsAssumption DEF Bars

\* run_engine returns rows of bars of the log, with the source row it read.
LEMMA EngineRowsType ==
    ASSUME TypeOK, NEW st \in StateType
    PROVE  /\ EngineRows(st) \in BookType
           /\ \A f \in Ledgers : EngineBars(st, f) \subseteq Processed(st)
  <1>1. \A f \in Ledgers : EngineBars(st, f) \subseteq Processed(st)
    BY DEF EngineBars, Ledgers
  <1>2. \A f \in Ledgers :
            {[bar |-> b, row |-> obs[b]] : b \in EngineBars(st, f)} \in BarSet
    BY <1>1, ProcessedBars DEF BarSet, Entry
  <1> QED
    BY <1>1, <1>2 DEF EngineRows, BookType

\* run_engine returns a state.
LEMMA EngineStateType ==
    ASSUME TypeOK, NEW st \in StateType
    PROVE  EngineState(st) \in StateType /\ EngineState(st).present
  <1> DEFINE last == IF Processed(st) = {} THEN st.wm ELSE LastBar(Processed(st))
             opened(b) == {c \in (st.wm + 1)..(b - 1) : Acts(st, c) /\ Long(obs[c])}
  <1>1. st.wm \in 0..NBars /\ st.entry \in 0..NBars /\ st.sums \in [Summed -> BarSet]
    BY DEF StateType
  <1>2. last \in 0..NBars
    BY <1>1, LastBarIn, ProcessedBars, NBarsAssumption DEF Bars
  <1>3. EntryBefore(st, last) \in 0..NBars
    <2>1. opened(last) \subseteq 0..NBars
      BY <1>1, <1>2, NBarsAssumption
    <2>2. LastBar(opened(last)) \in 0..NBars
      BY <2>1, LastBarIn, NBarsAssumption
    <2> QED
      BY <1>1, <2>2, NBarsAssumption DEF EntryBefore
  <1>4. [f \in Summed |-> st.sums[f] \cup EngineRows(st)[f]] \in [Summed -> BarSet]
    BY <1>1, EngineRowsType DEF Summed, Ledgers, BookType, BarSet
  <1>5. EngineState(st).entry \in 0..NBars
    BY <1>1, <1>2, <1>3, NBarsAssumption DEF EngineState
  <1> HIDE DEF last
  <1> QED
    BY <1>1, <1>2, <1>4, <1>5 DEF EngineState, StateType, last

\* The documents a run publishes are documents.
LEMMA DocFacts ==
    /\ \A status \in Statuses : Doc(status) \in DocType
    /\ AbsentState \in StateType
    /\ NoMem.rows \in BookType
    /\ \A book \in BookType, st \in StateType : OkDoc(book, st) \in DocType
    /\ \A status \in Statuses, doc \in DocType, st \in StateType :
            Manifest(status, doc, st) \in ManifestType
  <1>1. \A status \in Statuses : Doc(status) \in DocType
    BY NBarsAssumption DEF Doc, DocType, BarSet
  <1>2. AbsentState \in StateType
    <2>1. [f \in Summed |-> {}] \in [Summed -> BarSet]
      BY DEF BarSet
    <2>2. NewState \in StateType
      BY <2>1, NBarsAssumption DEF NewState, StateType
    <2> QED
      BY <2>2 DEF AbsentState, StateType
  <1>3. NoMem.rows \in BookType
    BY DEF NoMem, BookType, BarSet
  <1>4. \A book \in BookType, st \in StateType : OkDoc(book, st) \in DocType
    BY DEF OkDoc, DocType, BookType, StateType, Ledgers, Statuses
  <1>5. \A status \in Statuses, doc \in DocType, st \in StateType :
            Manifest(status, doc, st) \in ManifestType
    BY DEF Manifest, ManifestType
  <1> QED
    BY <1>1, <1>2, <1>3, <1>4, <1>5

MemType ==
    [rows : BookType, st : StateType, next : 1..6, doc : DocType,
     clean : SUBSET DocType]

\* TypeOK with the number of ledgers worked out.
LEMMA MemTypeOK ==
    TypeOK => mem \in MemType
  BY AppendOrderFacts DEF TypeOK, MemType

LEMMA NoMemType ==
    NoMem \in MemType
  <1>1. Doc("ABSENT") \in DocType /\ [f \in Ledgers |-> {}] \in BookType
    BY DocFacts DEF Statuses, NoMem
  <1> QED
    BY <1>1, DocFacts DEF NoMem, MemType

LEMMA MemUpdate ==
    ASSUME NEW m \in MemType, NEW rows \in BookType, NEW st \in StateType
    PROVE  [m EXCEPT !.rows = rows, !.st = st, !.next = 1] \in MemType
  <1>1. [m EXCEPT !.rows = rows] \in MemType
    BY DEF MemType
  <1>2. [m EXCEPT !.rows = rows, !.st = st] \in MemType
    BY <1>1 DEF MemType
  <1>3. 1 \in 1..6
    OBVIOUS
  <1> QED
    BY <1>2, <1>3, Zenon DEF MemType

\* The process memory of a run that enters a terminal publication.
LEMMA TerminateType ==
    ASSUME NEW status \in Statuses, NEW clean \in SUBSET DocType,
           Terminate(status, clean)
    PROVE  pc' = "tprov" /\ mem' \in MemType
  BY DocFacts, NoMemType DEF Terminate, Goto, MemType

LEMMA ExitType ==
    ASSUME Exit
    PROVE  pc' = "idle" /\ mem' \in MemType
  BY NoMemType DEF Exit

LEMMA SpendType ==
    ASSUME TypeOK, NEW kind \in DOMAIN NoFaults, Spend(kind)
    PROVE  faults' \in [DOMAIN NoFaults -> Nat]
  BY DEF TypeOK, Spend, NoFaults

-----------------------------------------------------------------------------
(***************************************************************************)
(* Type correctness.                                                       *)
(***************************************************************************)
LEMMA InitTypeOK ==
    Init => TypeOK
  <1> SUFFICES ASSUME Init PROVE TypeOK
    OBVIOUS
  <1>1. obs \in Seq(Rows) /\ Len(obs) <= NBars /\ nextOpen \in BOOLEAN
    BY NBarsAssumption DEF Init
  <1>2. summary \in DocType /\ receipt \in DocType /\ staged \subseteq DocType
    BY DocFacts DEF Init, Statuses
  <1>3. /\ ledger \in BookType /\ committed \in BookType /\ torn \subseteq Ledgers
        /\ unended \subseteq Ledgers /\ state \in StateType
    BY DocFacts DEF Init, BookType, BarSet
  <1>4. prov \in ManifestType
    BY DocFacts DEF Init, NoManifest, Statuses
  <1>5. pc \in Labels /\ mem \in MemType
    BY NoMemType DEF Init, Labels
  <1>6. faults \in [DOMAIN NoFaults -> Nat]
    BY DEF Init, NoFaults
  <1> QED
    BY <1>1, <1>2, <1>3, <1>4, <1>5, <1>6, AppendOrderFacts DEF TypeOK, MemType

LEMMA NextTypeOK ==
    TypeOK /\ [Next]_vars => TypeOK'
  <1> SUFFICES ASSUME TypeOK, [Next]_vars PROVE TypeOK'
    OBVIOUS
  <1> DEFINE Env == obs \in Seq(Rows) /\ Len(obs) <= NBars /\ nextOpen \in BOOLEAN
             Docs == /\ summary \in DocType /\ staged \subseteq DocType
                     /\ prov \in ManifestType /\ receipt \in DocType
             Book == /\ ledger \in BookType /\ torn \subseteq Ledgers
                     /\ unended \subseteq Ledgers /\ state \in StateType
             Run == pc \in Labels /\ mem \in MemType
             Rest == faults \in [DOMAIN NoFaults -> Nat] /\ committed \in BookType
  <1>1. Env /\ Docs /\ Book /\ Run /\ Rest
    BY AppendOrderFacts DEF TypeOK, MemType
  <1>2. ASSUME Env', Docs', Book', Run', Rest' PROVE TypeOK'
    BY <1>2, AppendOrderFacts DEF TypeOK, MemType
  <1>3. CASE RunStep
    <2>1. ASSUME StagePrevious \/ WriteMarker PROVE TypeOK'
      BY <1>1, <1>2, <2>1, DocFacts
         DEF StagePrevious, WriteMarker, Goto, envVars, docVars, bookVars,
             Labels, Statuses
    <2>2. ASSUME HealthGate PROVE TypeOK'
      <3>1. PICK last : IF mem.doc.status # "CORRUPT_LEDGER" /\ HealthyWith(OkDocs, last)
                        THEN Goto("cleanup") /\ mem' = [mem EXCEPT !.clean = staged]
                        ELSE Terminate("CORRUPT_LEDGER", staged)
        BY <2>2 DEF HealthGate
      <3>2. Run'
        BY <1>1, <3>1, TerminateType DEF Goto, Labels, MemType, Statuses
      <3> QED
        BY <1>1, <1>2, <2>2, <3>2 DEF HealthGate, envVars, docVars, bookVars
    <2>3. ASSUME Cleanup PROVE TypeOK'
      <3>1. Run'
        BY <1>1, <2>3, ExitType DEF Cleanup, AfterCleanup, Goto, Labels, MemType
      <3> QED
        BY <1>1, <1>2, <2>3, <3>1 DEF Cleanup, envVars, bookVars
    <2>4. ASSUME ReadInputs PROVE TypeOK'
      <3> DEFINE st == [state EXCEPT !.present = TRUE]
      <3>1. st \in StateType
        BY <1>1 DEF StateType
      <3>2. EngineRows(st) \in BookType /\ EngineState(st) \in StateType
        BY <3>1, EngineRowsType, EngineStateType
      <3>3. Run'
        <4>1. CASE /\ Goto("append")
                   /\ mem' = [mem EXCEPT !.rows = EngineRows(st),
                                         !.st = EngineState(st), !.next = 1]
          <5> HIDE DEF st
          <5>1. mem' \in MemType
            BY <1>1, <3>2, <4>1, MemUpdate
          <5> QED
            BY <4>1, <5>1 DEF Goto, Labels
        <4>2. CASE \E status \in Statuses : Terminate(status, {})
          BY <1>1, <4>2, TerminateType DEF Labels
        <4> QED
          BY <2>4, <4>1, <4>2 DEF ReadInputs, Statuses
      <3> QED
        BY <1>1, <1>2, <2>4, <3>3 DEF ReadInputs, envVars, docVars, bookVars
    <2>5. ASSUME AppendLedger PROVE TypeOK'
      <3>1. Fresh(Current) \subseteq mem.rows[Current] /\ Current \in Ledgers
        BY <1>1, AppendOrderFacts DEF Fresh, Current, MemType
      <3>2. Book'
        BY <1>1, <2>5, <3>1 DEF AppendLedger, MemType, BookType, BarSet
      <3>3. mem.next \in 1..6 /\ Len(AppendOrder) = 6
        BY <1>1, AppendOrderFacts DEF MemType
      <3>4. Run'
        <4>1. CASE mem.next < 6
          <5>1. mem' = [mem EXCEPT !.next = @ + 1] /\ pc' = pc
            BY <2>5, <3>3, <4>1 DEF AppendLedger
          <5>2. mem.next + 1 \in 1..6
            BY <3>3, <4>1
          <5> QED
            BY <1>1, <5>1, <5>2 DEF MemType
        <4>2. CASE ~(mem.next < 6)
          <5>1. mem' = [mem EXCEPT !.next = 1] /\ pc' = "reconcile"
            BY <2>5, <3>3, <4>2 DEF AppendLedger, Goto
          <5> QED
            BY <1>1, <5>1 DEF Labels, MemType
        <4> QED
          BY <4>1, <4>2
      <3> QED
        BY <1>1, <1>2, <2>5, <3>2, <3>4 DEF AppendLedger, envVars, docVars
    <2>6. ASSUME ReconcileGate PROVE TypeOK'
      <3>1. Run'
        BY <1>1, <2>6, TerminateType, DocFacts
           DEF ReconcileGate, Goto, Labels, MemType, Statuses
      <3> QED
        BY <1>1, <1>2, <2>6, <3>1 DEF ReconcileGate, envVars, docVars, bookVars
    <2>7. ASSUME OkManifest \/ OkReceipt \/ OkLog PROVE TypeOK'
      <3>1. Manifest("OK", mem.doc, mem.st) \in ManifestType /\ mem.doc \in DocType
        BY <1>1, DocFacts DEF MemType, Statuses
      <3> QED
        BY <1>1, <1>2, <2>7, <3>1
           DEF OkManifest, OkReceipt, OkLog, Goto, envVars, docVars, bookVars,
               Labels
    <2>8. ASSUME OkGate PROVE TypeOK'
      <3>1. Run'
        BY <1>1, <2>8, TerminateType DEF OkGate, Goto, Labels, Statuses
      <3> QED
        BY <1>1, <1>2, <2>8, <3>1 DEF OkGate, envVars, docVars, bookVars
    <2>9. ASSUME OkState PROVE TypeOK'
      BY <1>1, <1>2, <2>9 DEF OkState, Goto, envVars, docVars, Labels, MemType
    <2>10. ASSUME OkSummary PROVE TypeOK'
      BY <1>1, <1>2, <2>10, ExitType DEF OkSummary, envVars, bookVars, Labels, MemType
    <2>11. ASSUME TerminalManifest PROVE TypeOK'
      <3>1. Manifest(mem.doc.status, mem.doc, state) \in ManifestType
        BY <1>1, DocFacts DEF MemType, DocType
      <3> QED
        BY <1>1, <1>2, <2>11, <3>1
           DEF TerminalManifest, Goto, envVars, bookVars, Labels
    <2>12. ASSUME TerminalLog \/ TerminalReceipt PROVE TypeOK'
      BY <1>1, <1>2, <2>12
         DEF TerminalLog, TerminalReceipt, Goto, envVars, docVars, bookVars,
             Labels, MemType
    <2>13. ASSUME TerminalSummary PROVE TypeOK'
      BY <1>1, <1>2, <2>13, ExitType
         DEF TerminalSummary, Goto, envVars, bookVars, Labels, MemType
    <2> QED
      BY <1>3, <2>1, <2>2, <2>3, <2>4, <2>5, <2>6, <2>7, <2>8, <2>9, <2>10,
         <2>11, <2>12, <2>13 DEF RunStep
  <1>4. CASE Fault
    <2>1. ASSUME ConfigError PROVE TypeOK'
      BY <1>1, <1>2, <2>1, DocFacts, SpendType
         DEF ConfigError, envVars, bookVars, runVars, Statuses, NoFaults
    <2>2. ASSUME StagePreviousFails PROVE TypeOK'
      <3>1. Run'
        BY <1>1, <2>2, DocFacts
           DEF StagePreviousFails, Goto, Labels, MemType, Statuses
      <3> QED
        BY <1>1, <1>2, <2>2, <3>1, SpendType
           DEF StagePreviousFails, envVars, docVars, bookVars, NoFaults
    <2>3. ASSUME HealthGateUnreadable PROVE TypeOK'
      <3>1. Run'
        BY <1>1, <2>3, TerminateType DEF HealthGateUnreadable, Labels, Statuses
      <3> QED
        BY <1>1, <1>2, <2>3, <3>1, SpendType
           DEF HealthGateUnreadable, envVars, docVars, bookVars, NoFaults
    <2>4. ASSUME CleanupLeavesOne PROVE TypeOK'
      <3>1. Run'
        BY <1>1, <2>4, ExitType
           DEF CleanupLeavesOne, AfterCleanup, Goto, Labels, MemType
      <3>2. staged' \subseteq DocType
        BY <1>1, <2>4 DEF CleanupLeavesOne, MemType
      <3> QED
        BY <1>1, <1>2, <2>4, <3>1, <3>2, SpendType
           DEF CleanupLeavesOne, envVars, bookVars, NoFaults
    <2>5. ASSUME InputProblem \/ GateUnreadable PROVE TypeOK'
      <3>1. Run'
        BY <1>1, <2>5, TerminateType DEF InputProblem, GateUnreadable, Labels, Statuses
      <3> QED
        BY <1>1, <1>2, <2>5, <3>1, SpendType
           DEF InputProblem, GateUnreadable, envVars, docVars, bookVars, NoFaults
    <2>6. ASSUME Crash PROVE TypeOK'
      <3>1. Run'
        BY <2>6, ExitType DEF Crash, Labels
      <3>2. Book'
        <4>1. CASE UNCHANGED <<ledger, torn, unended>>
          BY <1>1, <2>6, <4>1 DEF Crash
        <4>2. CASE CutAppend
          <5>1. Current \in Ledgers /\ mem.rows \in BookType
            BY <1>1, AppendOrderFacts DEF Current, MemType
          <5>2. PICK k \in 0..NBars :
                  LET part == {e \in Fresh(Current) : e.bar <= k}
                  IN  /\ ledger' = [ledger EXCEPT ![Current] = @ \cup part]
                      /\ torn' \in {torn, torn \cup {Current}}
                      /\ unended' \in {unended, unended \cup {Current}}
            BY <4>2 DEF CutAppend
          <5>3. {e \in Fresh(Current) : e.bar <= k} \in BarSet
            BY <5>1 DEF Fresh, BookType, BarSet
          <5>4. ledger' \in BookType
            BY <1>1, <5>1, <5>2, <5>3 DEF BookType, BarSet
          <5> QED
            BY <1>1, <2>6, <5>1, <5>2, <5>4 DEF Crash
        <4> QED
          BY <2>6, <4>1, <4>2 DEF Crash
      <3>3. staged' \subseteq DocType
        BY <1>1, <2>6 DEF Crash
      <3> QED
        BY <1>1, <1>2, <2>6, <3>1, <3>2, <3>3, SpendType
           DEF Crash, envVars, NoFaults
    <2> QED
      BY <1>4, <2>1, <2>2, <2>3, <2>4, <2>5, <2>6 DEF Fault
  <1>5. CASE Outside
    <2>1. ASSUME PublishBar PROVE TypeOK'
      <3>1. PICK r \in Rows : obs' = Append(obs, r)
        BY <2>1 DEF PublishBar
      <3>2. Len(obs) \in Nat /\ NBars \in Nat /\ Len(obs) < NBars
        BY <1>1, <2>1, NBarsAssumption DEF PublishBar
      <3>3. obs' \in Seq(Rows) /\ Len(obs') = Len(obs) + 1
        BY <1>1, <3>1
      <3>4. Len(obs') <= NBars
        BY <3>2, <3>3
      <3>5. nextOpen' \in BOOLEAN
        BY <2>1 DEF PublishBar
      <3> QED
        BY <1>1, <1>2, <2>1, <3>3, <3>4, <3>5 DEF PublishBar, docVars, bookVars, runVars
    <2>2. ASSUME MarketBar PROVE TypeOK'
      BY <1>1, <1>2, <2>2 DEF MarketBar, docVars, bookVars, runVars
    <2>3. ASSUME RecomputeBar PROVE TypeOK'
      <3>1. Env'
        BY <1>1, <2>3 DEF RecomputeBar
      <3> QED
        BY <1>1, <1>2, <2>3, <3>1, SpendType
           DEF RecomputeBar, docVars, bookVars, runVars, NoFaults
    <2> QED
      BY <1>5, <2>1, <2>2, <2>3 DEF Outside
  <1>6. CASE UNCHANGED vars
    BY <1>1, <1>2, <1>6 DEF vars, envVars, docVars, bookVars, runVars
  <1> QED
    BY <1>3, <1>4, <1>5, <1>6 DEF Next

\* Whatever crashes, recomputed bars and unreadable files a lane meets, each
\* of its files holds a document of its shape and the runner is at a step of
\* run_once.
THEOREM TypeCorrect ==
    Spec => []TypeOK
  BY InitTypeOK, NextTypeOK, PTL DEF Spec

-----------------------------------------------------------------------------
(***************************************************************************)
(* A visible OK is true.  The inductive invariant follows the publication:  *)
(* what is known of the files grows with every step of run_once from the    *)
(* manifest to the summary, and nothing but a new run can undo it.         *)
(***************************************************************************)
\* The steps after the final gate, and all the steps of the OK publication.
Passed == {"oklog", "okstate", "oksummary"}
Publishing == {"okprov", "okreceipt", "gate"} \cup Passed

\* OK is withdrawn before the run reads anything.
NoOkInRun == summary.status = "OK" => pc \in {"idle", "marker"}

\* Only the OK publication prepares an OK summary, and the state it is for
\* is the engine's.
Prepared ==
    /\ mem.doc.status = "OK" => pc \in Publishing
    /\ pc \in {"append", "reconcile"} \cup Publishing => mem.st.present

Written ==
    /\ pc \in {"okreceipt", "gate"} \cup Passed =>
            prov = Manifest("OK", mem.doc, mem.st)
    /\ pc \in {"gate"} \cup Passed => receipt = mem.doc
    /\ pc = "oksummary" => state = mem.st

\* The summary is computed from the ledgers the reconcile gate read, and
\* nothing appends to them until it is published.
GatePassed ==
    /\ pc \in Publishing => mem.doc = OkDoc(ledger, mem.st)
    /\ pc \in Passed =>
         /\ torn = {} /\ Reconciles(ledger)
         /\ StateTies(ledger, mem.st, TRUE)

\* What an OK attested is never taken back.
CommittedHeld == \A f \in Ledgers : committed[f] \subseteq ledger[f]

OkInv == TypeOK /\ NoOkInRun /\ Prepared /\ Written /\ GatePassed /\ CommittedHeld

LEMMA TerminateDoc ==
    ASSUME NEW status, NEW clean, Terminate(status, clean)
    PROVE  pc' = "tprov" /\ mem'.doc = Doc(status) /\ mem'.doc.status = status
  BY DEF Terminate, Goto, NoMem, Doc

LEMMA ExitDoc ==
    ASSUME Exit
    PROVE  pc' = "idle" /\ mem'.doc.status = "ABSENT"
  BY DEF Exit, NoMem, Doc

\* Ledger rows are only ever added.
LEMMA LedgersGrow ==
    ASSUME TypeOK, [Next]_vars
    PROVE  \A f \in Ledgers : ledger[f] \subseteq ledger'[f]
  <1>1. ledger \in BookType /\ Current \in Ledgers
    BY AppendOrderFacts, MemTypeOK DEF TypeOK, Current, MemType
  <1>2. CASE AppendLedger
    BY <1>1, <1>2 DEF AppendLedger, BookType
  <1>3. CASE Crash
    <2>1. CASE CutAppend
      <3>1. PICK k \in 0..NBars :
               ledger' = [ledger EXCEPT ![Current] =
                            @ \cup {e \in Fresh(Current) : e.bar <= k}]
        BY <2>1 DEF CutAppend
      <3> QED
        BY <1>1, <3>1 DEF BookType
    <2> QED
      BY <1>3, <2>1 DEF Crash
  <1>4. CASE ~AppendLedger /\ ~Crash
    <2>1. ledger' = ledger
      BY <1>4
         DEF Next, RunStep, Fault, Outside, StagePrevious, WriteMarker, HealthGate,
             Cleanup, ReadInputs, ReconcileGate, OkManifest, OkReceipt, OkGate,
             OkLog, OkState, OkSummary, TerminalManifest, TerminalLog,
             TerminalReceipt, TerminalSummary, ConfigError, StagePreviousFails,
             HealthGateUnreadable, CleanupLeavesOne, InputProblem, GateUnreadable,
             PublishBar, MarketBar, RecomputeBar, vars, bookVars
    <2> QED
      BY <2>1
  <1> QED
    BY <1>2, <1>3, <1>4

LEMMA InitOk ==
    Init => OkInv /\ OkIsTrue
  <1> SUFFICES ASSUME Init PROVE OkInv /\ OkIsTrue
    OBVIOUS
  <1>1. pc = "idle" /\ summary.status = "ABSENT" /\ mem.doc.status = "ABSENT"
    BY DEF Init, NoMem, Doc
  <1>2. CommittedHeld
    BY DEF Init, CommittedHeld
  <1> QED
    BY <1>1, <1>2, InitTypeOK
       DEF OkInv, NoOkInRun, Prepared, Written, GatePassed, OkIsTrue,
           Publishing, Passed

\* A step other than the OK publication's keeps the invariant: it does not
\* write what the publication's labels speak of, or it leaves them.
LEMMA NextOk ==
    OkInv /\ OkIsTrue /\ [Next]_vars => (OkInv /\ OkIsTrue)'
  <1> SUFFICES ASSUME OkInv, OkIsTrue, [Next]_vars PROVE (OkInv /\ OkIsTrue)'
    OBVIOUS
  <1> DEFINE Parts == NoOkInRun /\ Prepared /\ Written /\ GatePassed /\ OkIsTrue
             Left == pc' \notin {"append", "reconcile"} \cup Publishing
  <1>1. TypeOK /\ TypeOK'
    BY NextTypeOK DEF OkInv
  <1>2. NoOkInRun /\ Prepared /\ Written /\ GatePassed /\ CommittedHeld
    BY DEF OkInv
  <1>3. CommittedHeld'
    <2>1. CASE OkSummary
      BY <2>1 DEF OkSummary, CommittedHeld, bookVars
    <2>2. CASE ~OkSummary
      <3>1. committed' = committed
        BY <2>2
           DEF Next, RunStep, Fault, Outside, StagePrevious, WriteMarker,
               HealthGate, Cleanup, ReadInputs, AppendLedger, ReconcileGate,
               OkManifest, OkReceipt, OkGate, OkLog, OkState, TerminalManifest,
               TerminalLog, TerminalReceipt, TerminalSummary, ConfigError,
               StagePreviousFails, HealthGateUnreadable, CleanupLeavesOne,
               InputProblem, GateUnreadable, Crash, PublishBar, MarketBar,
               RecomputeBar, vars
      <3> QED
        BY <1>1, <1>2, <3>1, LedgersGrow DEF CommittedHeld
    <2> QED
      BY <2>1, <2>2
  \* The summary stays as it is, with what an OK would be about, or it is
  \* not OK afterwards.
  <1>4. ASSUME \/ UNCHANGED <<summary, ledger, torn, state, prov, receipt, committed>>
               \/ summary'.status # "OK"
        PROVE  OkIsTrue'
    BY <1>4 DEF OkIsTrue, ManifestPins
  \* A step that leaves the publication, or was never in it, and prepares no
  \* OK summary.
  <1>5. ASSUME Left, mem'.doc.status # "OK",
               pc' \notin {"idle", "marker"} => summary'.status # "OK",
               OkIsTrue'
        PROVE  Parts'
    BY <1>5 DEF NoOkInRun, Prepared, Written, GatePassed, Publishing, Passed
  <1>6. CASE RunStep
    <2>1. ASSUME StagePrevious \/ WriteMarker PROVE Parts'
      <3>1. summary'.status # "OK" /\ mem' = mem /\ pc' \in {"marker", "health"}
        BY <2>1 DEF StagePrevious, WriteMarker, Goto, Doc
      <3>2. mem'.doc.status # "OK"
        BY <1>2, <2>1, <3>1
           DEF StagePrevious, WriteMarker, Prepared, Publishing, Passed
      <3> QED
        BY <1>4, <1>5, <3>1, <3>2 DEF Publishing, Passed
    <2>2. ASSUME HealthGate PROVE Parts'
      <3>1. pc = "health" /\ summary' = summary
        BY <2>2 DEF HealthGate, docVars
      <3>2. summary'.status # "OK" /\ mem.doc.status # "OK"
        BY <1>2, <3>1 DEF NoOkInRun, Prepared, Publishing, Passed
      <3>3. \/ pc' = "cleanup" /\ mem'.doc = mem.doc
            \/ pc' = "tprov" /\ mem'.doc.status = "CORRUPT_LEDGER"
        <4>1. PICK last : IF mem.doc.status # "CORRUPT_LEDGER"
                             /\ HealthyWith(OkDocs, last)
                          THEN Goto("cleanup") /\ mem' = [mem EXCEPT !.clean = staged]
                          ELSE Terminate("CORRUPT_LEDGER", staged)
          BY <2>2 DEF HealthGate
        <4> QED
          BY <1>1, <4>1, TerminateDoc, MemTypeOK DEF Goto, MemType
      <3> QED
        BY <1>4, <1>5, <3>2, <3>3 DEF Publishing, Passed
    <2>3. ASSUME Cleanup PROVE Parts'
      <3>1. pc = "cleanup" /\ summary' = summary
        BY <2>3 DEF Cleanup
      <3>2. summary'.status # "OK" /\ mem.doc.status # "OK"
        BY <1>2, <3>1 DEF NoOkInRun, Prepared, Publishing, Passed
      <3>3. pc' \in {"idle", "inputs"} /\ mem'.doc.status # "OK"
        BY <1>1, <2>3, <3>2, ExitDoc, MemTypeOK
           DEF Cleanup, AfterCleanup, Goto, MemType
      <3> QED
        BY <1>4, <1>5, <3>2, <3>3 DEF Publishing, Passed
    <2>4. ASSUME ReadInputs PROVE Parts'
      <3>1. pc = "inputs" /\ summary' = summary
        BY <2>4 DEF ReadInputs, docVars
      <3>2. summary'.status # "OK" /\ mem.doc.status # "OK"
        BY <1>2, <3>1 DEF NoOkInRun, Prepared, Publishing, Passed
      <3>3. CASE \E status \in {"NO_ELIGIBLE_BARS_YET", "ABORTED"} :
                    Terminate(status, {})
        BY <1>4, <1>5, <3>2, <3>3, TerminateDoc DEF Publishing, Passed
      <3>4. CASE /\ Goto("append")
                 /\ LET st == [state EXCEPT !.present = TRUE]
                    IN  mem' = [mem EXCEPT !.rows = EngineRows(st),
                                          !.st = EngineState(st), !.next = 1]
        <4> DEFINE st == [state EXCEPT !.present = TRUE]
        <4>1. st \in StateType
          BY <1>1 DEF TypeOK, StateType
        <4>2. EngineState(st).present
          BY <1>1, <4>1, EngineStateType
        <4>3. pc' = "append" /\ mem'.doc = mem.doc /\ mem'.st.present
          BY <1>1, <3>4, <4>2, MemTypeOK DEF Goto, MemType
        <4> QED
          BY <1>4, <3>2, <4>3
             DEF NoOkInRun, Prepared, Written, GatePassed, Publishing, Passed
      <3> QED
        BY <2>4, <3>3, <3>4 DEF ReadInputs
    <2>5. ASSUME AppendLedger PROVE Parts'
      <3>1. pc = "append" /\ summary' = summary
        BY <2>5 DEF AppendLedger, docVars
      <3>2. summary'.status # "OK" /\ mem.doc.status # "OK" /\ mem.st.present
        BY <1>2, <3>1 DEF NoOkInRun, Prepared, Publishing, Passed
      <3>3. /\ pc' \in {"append", "reconcile"}
            /\ mem'.doc = mem.doc /\ mem'.st = mem.st
        BY <1>1, <2>5, MemTypeOK DEF AppendLedger, Goto, MemType
      <3> QED
        BY <1>4, <3>2, <3>3
           DEF NoOkInRun, Prepared, Written, GatePassed, Publishing, Passed
    <2>6. ASSUME ReconcileGate PROVE Parts'
      <3>1. pc = "reconcile" /\ summary' = summary
        BY <2>6 DEF ReconcileGate, docVars
      <3>2. summary'.status # "OK" /\ mem.st.present
        BY <1>2, <3>1 DEF NoOkInRun, Prepared, Publishing, Passed
      <3>3. \/ /\ pc' = "okprov" /\ mem'.st = mem.st
               /\ mem'.doc = OkDoc(ledger', mem'.st)
            \/ pc' = "tprov" /\ mem'.doc.status # "OK"
        BY <1>1, <2>6, TerminateDoc, MemTypeOK
           DEF ReconcileGate, Goto, MemType, bookVars, OkDoc
      <3> QED
        BY <1>4, <1>5, <3>2, <3>3
           DEF NoOkInRun, Prepared, Written, GatePassed, Publishing, Passed
    <2>7. ASSUME OkManifest \/ OkReceipt \/ OkLog \/ OkState PROVE Parts'
      <3>1. summary' = summary /\ mem' = mem /\ torn' = torn /\ ledger' = ledger
        BY <2>7 DEF OkManifest, OkReceipt, OkLog, OkState, docVars, bookVars
      <3>2. pc \in Publishing /\ pc' \in Publishing
        BY <2>7 DEF OkManifest, OkReceipt, OkLog, OkState, Goto, Publishing, Passed
      <3>3. summary'.status # "OK" /\ mem.st.present
        BY <1>2, <3>1, <3>2 DEF NoOkInRun, Prepared, Publishing, Passed
      <3>4. NoOkInRun' /\ Prepared' /\ OkIsTrue'
        BY <1>4, <3>1, <3>2, <3>3 DEF NoOkInRun, Prepared
      <3>5. GatePassed'
        <4>1. pc' \in Passed => pc \in Passed
          BY <2>7 DEF OkManifest, OkReceipt, OkLog, OkState, Goto, Passed
        <4> QED
          BY <1>2, <3>1, <3>2, <4>1 DEF GatePassed
      <3>6. Written'
        BY <1>2, <2>7, <3>1
           DEF OkManifest, OkReceipt, OkLog, OkState, Goto, docVars, bookVars,
               Written, Passed
      <3> QED
        BY <3>4, <3>5, <3>6
    <2>8. ASSUME OkGate PROVE Parts'
      <3>1. pc = "gate" /\ UNCHANGED <<summary, torn, ledger, prov, receipt>>
        BY <2>8 DEF OkGate, docVars, bookVars
      <3>2. summary'.status # "OK" /\ mem.st.present
        BY <1>2, <3>1 DEF NoOkInRun, Prepared, Publishing, Passed
      <3>3. CASE FinalGate(mem.st, mem.doc) /\ pc' = "oklog" /\ mem' = mem
        <4>1. mem.doc = OkDoc(ledger, mem.st)
          BY <1>2, <3>1 DEF GatePassed, Publishing
        <4>2. GatePassed'
          BY <3>1, <3>3, <4>1 DEF FinalGate, GatePassed, Passed
        <4> QED
          BY <1>2, <1>4, <3>1, <3>2, <3>3, <4>2
             DEF NoOkInRun, Prepared, Written, Publishing, Passed
      <3>4. CASE Terminate("CORRUPT_LEDGER", {})
        BY <1>4, <1>5, <3>2, <3>4, TerminateDoc DEF Publishing, Passed
      <3> QED
        BY <2>8, <3>3, <3>4 DEF OkGate, Goto
    <2>9. ASSUME OkSummary PROVE Parts'
      <3>1. /\ pc = "oksummary" /\ pc' = "idle" /\ mem'.doc.status = "ABSENT"
            /\ summary' = mem.doc /\ committed' = ledger
            /\ UNCHANGED <<ledger, torn, state, prov, receipt>>
        BY <2>9, ExitDoc DEF OkSummary, bookVars
      <3>2. /\ torn = {} /\ Reconciles(ledger) /\ StateTies(ledger, mem.st, TRUE)
            /\ mem.doc = OkDoc(ledger, mem.st)
            /\ prov = Manifest("OK", mem.doc, mem.st) /\ receipt = mem.doc
            /\ state = mem.st /\ mem.st.present
        BY <1>2, <3>1 DEF GatePassed, Written, Prepared, Publishing, Passed
      <3>3. InLockstep(ledger, state)
        BY <3>2 DEF StateTies
      <3>4. prov.status = "OK" /\ prov.summary = mem.doc /\ prov.state = state
        BY <3>2 DEF Manifest
      <3>5. OkIsTrue'
        BY <3>1, <3>2, <3>3, <3>4 DEF OkIsTrue, ManifestPins
      <3> QED
        BY <1>5, <3>1, <3>5 DEF Publishing, Passed
    <2>10. ASSUME TerminalManifest \/ TerminalLog \/ TerminalReceipt PROVE Parts'
      <3>1. /\ summary' = summary /\ mem' = mem
            /\ pc \in {"tprov", "tlog", "treceipt"}
            /\ pc' \in {"tlog", "treceipt", "tsummary"}
        BY <2>10 DEF TerminalManifest, TerminalLog, TerminalReceipt, Goto, docVars
      <3>2. summary'.status # "OK" /\ mem'.doc.status # "OK"
        BY <1>2, <3>1 DEF NoOkInRun, Prepared, Publishing, Passed
      <3> QED
        BY <1>4, <1>5, <3>1, <3>2 DEF Publishing, Passed
    <2>11. ASSUME TerminalSummary PROVE Parts'
      <3>1. summary' = mem.doc /\ pc = "tsummary"
        BY <2>11 DEF TerminalSummary
      <3>2. mem.doc.status # "OK"
        BY <1>2, <3>1 DEF Prepared, Publishing, Passed
      <3>3. pc' \in {"cleanup", "idle"} /\ mem'.doc.status # "OK"
        BY <2>11, <3>2, ExitDoc DEF TerminalSummary, Goto
      <3> QED
        BY <1>4, <1>5, <3>1, <3>2, <3>3 DEF Publishing, Passed
    <2> QED
      BY <1>1, <1>3, <1>6, <2>1, <2>2, <2>3, <2>4, <2>5, <2>6, <2>7, <2>8, <2>9,
         <2>10, <2>11 DEF RunStep, OkInv
  <1>7. CASE Fault
    <2>1. ASSUME ConfigError \/ StagePreviousFails PROVE Parts'
      <3>1. /\ pc = "idle" /\ pc' \in {"idle", "marker"}
            /\ \/ UNCHANGED <<summary, ledger, torn, state, prov, receipt, committed>>
               \/ summary'.status # "OK"
        BY <2>1 DEF ConfigError, StagePreviousFails, Goto, runVars, docVars,
                    bookVars, Doc
      <3>2. mem'.doc.status # "OK"
        <4>1. mem.doc.status # "OK"
          BY <1>2, <3>1 DEF Prepared, Publishing, Passed
        <4>2. CASE mem' = mem
          BY <4>1, <4>2
        <4>3. CASE mem' = [mem EXCEPT !.doc = Doc("CORRUPT_LEDGER")]
          BY <1>1, <4>3, MemTypeOK DEF Doc, MemType
        <4> QED
          BY <2>1, <4>2, <4>3 DEF ConfigError, StagePreviousFails, runVars
      <3> QED
        BY <1>4, <1>5, <3>1, <3>2 DEF Publishing, Passed
    <2>2. ASSUME HealthGateUnreadable \/ InputProblem \/ GateUnreadable PROVE Parts'
      <3>1. /\ summary' = summary /\ pc \in {"health", "inputs", "reconcile", "gate"}
            /\ \E status \in {"CORRUPT_LEDGER", "ABORTED"}, clean \in {{}, staged} :
                  Terminate(status, clean)
        BY <2>2 DEF HealthGateUnreadable, InputProblem, GateUnreadable, docVars
      <3>2. summary'.status # "OK"
        BY <1>2, <3>1 DEF NoOkInRun
      <3>3. pc' = "tprov" /\ mem'.doc.status # "OK"
        BY <3>1, TerminateDoc
      <3> QED
        BY <1>4, <1>5, <3>2, <3>3 DEF Publishing, Passed
    <2>3. ASSUME CleanupLeavesOne PROVE Parts'
      <3>1. pc = "cleanup" /\ summary' = summary
        BY <2>3 DEF CleanupLeavesOne
      <3>2. summary'.status # "OK" /\ mem.doc.status # "OK"
        BY <1>2, <3>1 DEF NoOkInRun, Prepared, Publishing, Passed
      <3>3. pc' \in {"idle", "inputs"} /\ mem'.doc.status # "OK"
        BY <1>1, <2>3, <3>2, ExitDoc, MemTypeOK
           DEF CleanupLeavesOne, AfterCleanup, Goto, MemType
      <3> QED
        BY <1>4, <1>5, <3>2, <3>3 DEF Publishing, Passed
    <2>4. ASSUME Crash PROVE Parts'
      <3>1. /\ pc' = "idle" /\ mem'.doc.status = "ABSENT" /\ pc # "idle"
            /\ UNCHANGED <<summary, state, prov, receipt, committed>>
        BY <2>4, ExitDoc DEF Crash
      <3>2. \/ UNCHANGED <<ledger, torn>>
            \/ summary'.status # "OK"
        BY <1>2, <2>4, <3>1 DEF Crash, NoOkInRun
      <3> QED
        BY <1>4, <1>5, <3>1, <3>2 DEF Publishing, Passed
    <2> QED
      BY <1>1, <1>3, <1>7, <2>1, <2>2, <2>3, <2>4 DEF Fault, OkInv
  <1>8. CASE Outside \/ UNCHANGED vars
    <2>1. UNCHANGED <<summary, ledger, torn, state, prov, receipt,
                      committed, pc, mem>>
      BY <1>8 DEF Outside, PublishBar, MarketBar, RecomputeBar, vars, docVars,
                  bookVars, runVars
    <2>2. Parts'
      BY <1>2, <1>4, <2>1 DEF NoOkInRun, Prepared, Written, GatePassed
    <2> QED
      BY <1>1, <1>3, <2>2 DEF OkInv
  <1> QED
    BY <1>6, <1>7, <1>8 DEF Next

\* A visible OK is never stale, partial or false, whatever crashes, unreadable
\* files, leftover summaries and recomputed bars the runs before it met.
THEOREM OkCorrect ==
    Spec => []OkIsTrue
  BY InitOk, NextOk, PTL DEF Spec

-----------------------------------------------------------------------------
(***************************************************************************)
(* run_once implements the commit marker.                                  *)
(***************************************************************************)
\* Only OkSummary makes a summary say OK, and only it moves what is attested.
LEMMA OnlyOkSummary ==
    ASSUME OkInv, [Next]_vars, ~OkSummary
    PROVE  /\ committed' = committed
           /\ summary'.status = "OK" => summary' = summary
  <1>1. committed' = committed
    BY DEF Next, RunStep, Fault, Outside, StagePrevious, WriteMarker, HealthGate,
           Cleanup, ReadInputs, AppendLedger, ReconcileGate, OkManifest,
           OkReceipt, OkGate, OkLog, OkState, TerminalManifest, TerminalLog,
           TerminalReceipt, TerminalSummary, ConfigError, StagePreviousFails,
           HealthGateUnreadable, CleanupLeavesOne, InputProblem, GateUnreadable,
           Crash, PublishBar, MarketBar, RecomputeBar, vars
  <1>2. CASE StagePrevious \/ WriteMarker \/ ConfigError
    BY <1>1, <1>2 DEF StagePrevious, WriteMarker, ConfigError, Doc
  <1>3. CASE TerminalSummary
    BY <1>1, <1>3 DEF TerminalSummary, OkInv, Prepared, Publishing, Passed
  <1>4. CASE ~(StagePrevious \/ WriteMarker \/ ConfigError \/ TerminalSummary)
    <2>1. summary' = summary
      BY <1>4
         DEF Next, RunStep, Fault, Outside, HealthGate, Cleanup, ReadInputs,
             AppendLedger, ReconcileGate, OkManifest, OkReceipt, OkGate, OkLog,
             OkState, TerminalManifest, TerminalLog, TerminalReceipt,
             StagePreviousFails, HealthGateUnreadable, CleanupLeavesOne,
             InputProblem, GateUnreadable, Crash, PublishBar, MarketBar,
             RecomputeBar, vars, docVars
    <2> QED
      BY <1>1, <2>1
  <1> QED
    BY <1>1, <1>2, <1>3, <1>4

\* A run withdraws OK, or does something no reader of the status sees, or
\* commits: every row an earlier OK attested is attested again.
THEOREM Implementation ==
    Spec => ImplementsOkCommit
  <1> DEFINE Shown == summary.status = "OK"
             Book == {i \in Ledgers \X Entry : i[2] \in committed[i[1]]}
  <1>1. Init => Commit!Init
    BY DEF Init, Doc, Commit!Init
  <1>2. OkInv /\ OkIsTrue /\ [Next]_vars => [Commit!Next]_(Commit!vars)
    <2> SUFFICES ASSUME OkInv, OkIsTrue, [Next]_vars
                 PROVE  [Commit!Next]_(Commit!vars)
      OBVIOUS
    <2>1. CASE OkSummary
      <3>1. ~Shown
        BY <2>1 DEF OkSummary, OkInv, NoOkInRun
      <3>2. Shown'
        BY <2>1 DEF OkSummary, OkInv, GatePassed, Publishing, Passed, OkDoc
      <3>3. committed' = ledger
        BY <2>1 DEF OkSummary
      <3>4. Book' \in SUBSET (Ledgers \X Entry)
        OBVIOUS
      <3>5. Book \subseteq Book'
        BY <3>3 DEF OkInv, CommittedHeld
      <3> QED
        BY <3>1, <3>2, <3>4, <3>5 DEF Commit!Next, Commit!Attest
    <2>2. CASE ~OkSummary
      <3>1. Book' = Book
        BY <2>2, OnlyOkSummary
      <3>2. Shown' => Shown
        BY <2>2, OnlyOkSummary
      <3> QED
        BY <3>1, <3>2 DEF Commit!Next, Commit!Withdraw, Commit!vars
    <2> QED
      BY <2>1, <2>2
  <1> QED
    BY <1>1, <1>2, InitOk, NextOk, PTL DEF Spec, ImplementsOkCommit, Commit!Spec

-----------------------------------------------------------------------------
(***************************************************************************)
(* One source row per bar.  The divergence gate and the skip of known ids   *)
(* together: the rows a run appends agree with every snapshot on disk, and  *)
(* no later ledger is appended to before the snapshots are complete.        *)
(***************************************************************************)
SourceInv ==
    pc = "append" =>
        /\ \A f \in Ledgers : mem.rows[f] \subseteq mem.rows["snapshots"]
        /\ \A d, e \in mem.rows["snapshots"] : d.bar = e.bar => d = e
        /\ \A s \in ledger["snapshots"], r \in mem.rows["snapshots"] :
              s.bar = r.bar => s = r
        /\ mem.next > 1 => mem.rows["snapshots"] \subseteq ledger["snapshots"]

\* What an append, whole or cut short, adds.
LEMMA AppendedRows ==
    ASSUME TypeOK, SourceInv, OneSourcePerBar, pc = "append",
           NEW part \in SUBSET Fresh(Current),
           ledger' = [ledger EXCEPT ![Current] = @ \cup part]
    PROVE  /\ OneSourcePerBar'
           /\ \A s \in ledger'["snapshots"], r \in mem.rows["snapshots"] :
                s.bar = r.bar => s = r
  <1>1. /\ ledger \in BookType /\ Current \in Ledgers /\ mem.next \in 1..6
        /\ mem.next = 1 => Current = "snapshots"
    BY AppendOrderFacts, MemTypeOK DEF TypeOK, Current, MemType
  <1>2. part \subseteq mem.rows["snapshots"]
    BY <1>1 DEF Fresh, SourceInv
  <1>3. \A e \in part : e.bar \notin BarsIn(ledger[Current])
    BY DEF Fresh
  <1>4. \A f \in Ledgers :
            ledger'[f] = IF f = Current THEN ledger[f] \cup part ELSE ledger[f]
    BY <1>1 DEF BookType
  <1>5. Unique(ledger')
    <2>1. \A d \in ledger[Current], e \in part : d.bar # e.bar
      BY <1>3 DEF BarsIn
    <2> QED
      BY <1>2, <1>4, <2>1 DEF SourceInv, OneSourcePerBar, Unique
  <1>6. \A f \in Ledgers : ledger'[f] \subseteq ledger'["snapshots"]
    <2>1. "snapshots" \in Ledgers
      BY DEF Ledgers
    <2>2. CASE Current = "snapshots"
      BY <1>4, <2>1, <2>2 DEF OneSourcePerBar
    <2>3. CASE Current # "snapshots"
      <3>1. part \subseteq ledger["snapshots"]
        BY <1>1, <1>2, <2>3 DEF SourceInv
      <3> QED
        BY <1>4, <2>1, <2>3, <3>1 DEF OneSourcePerBar
    <2> QED
      BY <2>2, <2>3
  <1>7. \A s \in ledger'["snapshots"], r \in mem.rows["snapshots"] :
            s.bar = r.bar => s = r
    BY <1>2, <1>4 DEF SourceInv, Ledgers
  <1> QED
    BY <1>5, <1>6, <1>7 DEF OneSourcePerBar

LEMMA NextSource ==
    TypeOK /\ SourceInv /\ OneSourcePerBar /\ [Next]_vars
        => SourceInv' /\ OneSourcePerBar'
  <1> SUFFICES ASSUME TypeOK, SourceInv, OneSourcePerBar, [Next]_vars
               PROVE  SourceInv' /\ OneSourcePerBar'
    OBVIOUS
  <1>1. mem \in MemType /\ state \in StateType
    BY MemTypeOK DEF TypeOK
  <1>2. CASE AppendLedger
    <2>1. pc = "append" /\ ledger' = [ledger EXCEPT ![Current] = @ \cup Fresh(Current)]
      BY <1>2 DEF AppendLedger
    <2>2. /\ OneSourcePerBar'
          /\ \A s \in ledger'["snapshots"], r \in mem.rows["snapshots"] :
                s.bar = r.bar => s = r
      BY <2>1, AppendedRows
    <2>3. mem'.rows = mem.rows
      BY <1>1, <1>2 DEF AppendLedger, MemType
    <2>4. mem.rows["snapshots"] \subseteq ledger'["snapshots"]
      <3>1. CASE mem.next > 1
        BY <2>1, <3>1, LedgersGrow DEF SourceInv, Ledgers
      <3>2. CASE mem.next = 1
        <4>1. Current = "snapshots"
          BY <3>2, AppendOrderFacts DEF Current
        <4>2. ledger'["snapshots"] = ledger["snapshots"] \cup Fresh("snapshots")
          BY <2>1, <4>1 DEF TypeOK, BookType, Ledgers
        <4>3. ASSUME NEW r \in mem.rows["snapshots"], r \notin Fresh("snapshots")
              PROVE  r \in ledger["snapshots"]
          BY <2>1, <4>3 DEF Fresh, BarsIn, SourceInv
        <4> QED
          BY <4>2, <4>3
      <3> QED
        BY <1>1, <3>1, <3>2 DEF MemType
    <2> QED
      BY <2>1, <2>2, <2>3, <2>4 DEF SourceInv
  <1>3. CASE Crash
    <2>1. pc' = "idle"
      BY <1>3 DEF Crash, Exit
    <2>2. CASE ledger' = ledger
      BY <2>1, <2>2 DEF SourceInv, OneSourcePerBar
    <2>3. CASE pc = "append" /\ CutAppend
      <3>1. PICK k \in 0..NBars :
               ledger' = [ledger EXCEPT ![Current] =
                            @ \cup {e \in Fresh(Current) : e.bar <= k}]
        BY <2>3 DEF CutAppend
      <3>2. {e \in Fresh(Current) : e.bar <= k} \in SUBSET Fresh(Current)
        OBVIOUS
      <3>3. OneSourcePerBar'
        BY <2>3, <3>1, <3>2, AppendedRows
      <3> QED
        BY <2>1, <3>3 DEF SourceInv
    <2> QED
      BY <1>3, <2>2, <2>3 DEF Crash
  <1>4. CASE ReadInputs
    <2>1. ledger' = ledger
      BY <1>4 DEF ReadInputs, bookVars
    <2>2. CASE pc' # "append"
      BY <2>1, <2>2 DEF SourceInv, OneSourcePerBar
    <2>3. CASE pc' = "append"
      <3> DEFINE st == [state EXCEPT !.present = TRUE]
                 rows == EngineRows(st)
      <3>1. ~Diverged /\ mem' = [mem EXCEPT !.rows = rows, !.st = EngineState(st),
                                            !.next = 1]
        BY <1>4, <2>3, TerminateDoc DEF ReadInputs
      <3>2. st \in StateType
        BY <1>1 DEF StateType
      <3> HIDE DEF st
      <3>3. mem'.rows = rows /\ mem'.next = 1
        BY <1>1, <3>1 DEF MemType
      <3>4. \A f \in Ledgers : rows[f] =
                {[bar |-> b, row |-> obs[b]] : b \in EngineBars(st, f)}
        BY DEF EngineRows
      <3>5. /\ \A f \in Ledgers : EngineBars(st, f) \subseteq Processed(st)
            /\ EngineBars(st, "snapshots") = Processed(st)
        BY <3>2, EngineRowsType DEF EngineBars
      <3>6. \A f \in Ledgers : rows[f] \subseteq rows["snapshots"]
        BY <3>4, <3>5 DEF Ledgers
      <3>7. \A r \in rows["snapshots"] : r.bar \in 1..Len(obs) /\ r.row = obs[r.bar]
        <4>1. Processed(st) \subseteq 1..Len(obs)
          BY <1>1, <3>2, ProcessedBars DEF TypeOK, StateType
        <4> QED
          BY <3>4, <3>5, <4>1 DEF Ledgers
      <3>8. \A d, e \in rows["snapshots"] : d.bar = e.bar => d = e
        BY <3>4 DEF Ledgers
      <3>9. \A s \in ledger["snapshots"], r \in rows["snapshots"] :
                s.bar = r.bar => s = r
        <4>1. \A s \in ledger["snapshots"] : s = [bar |-> s.bar, row |-> s.row]
          BY DEF TypeOK, BookType, BarSet, Entry, Ledgers
        <4>2. \A r \in rows["snapshots"] : r = [bar |-> r.bar, row |-> r.row]
          BY <3>4 DEF Ledgers
        <4>3. \A s \in ledger["snapshots"] :
                  s.bar \in 1..Len(obs) => obs[s.bar] = s.row
          BY <3>1 DEF Diverged, TypeOK
        <4> QED
          BY <3>7, <4>1, <4>2, <4>3
      <3> QED
        BY <2>1, <3>3, <3>6, <3>8, <3>9 DEF SourceInv, OneSourcePerBar
    <2> QED
      BY <2>2, <2>3
  <1>5. CASE ~AppendLedger /\ ~Crash /\ ~ReadInputs
    <2>1. ledger' = ledger /\ (pc' = "append" => pc = "append" /\ mem' = mem)
      BY <1>5, TerminateDoc, ExitDoc
         DEF Next, RunStep, Fault, Outside, StagePrevious, WriteMarker, HealthGate,
             Cleanup, ReconcileGate, OkManifest, OkReceipt, OkGate,
             OkLog, OkState, OkSummary, TerminalManifest, TerminalLog,
             TerminalReceipt, TerminalSummary, ConfigError, StagePreviousFails,
             HealthGateUnreadable, CleanupLeavesOne, InputProblem, GateUnreadable,
             PublishBar, MarketBar, RecomputeBar, vars, bookVars, runVars, Goto,
             AfterCleanup
    <2> QED
      BY <2>1 DEF SourceInv, OneSourcePerBar
  <1> QED
    BY <1>2, <1>3, <1>4, <1>5

\* However often runs die in the middle of an append and the observer
\* rewrites published bars, no ledger holds two versions of a bar.
THEOREM SourceCorrect ==
    Spec => []OneSourcePerBar
  <1>1. Init => TypeOK /\ SourceInv /\ OneSourcePerBar
    BY InitTypeOK DEF Init, SourceInv, OneSourcePerBar, Unique
  <1> QED
    BY <1>1, NextTypeOK, NextSource, PTL DEF Spec

-----------------------------------------------------------------------------
(***************************************************************************)
(* The state is backed by the ledgers: from the read of the inputs on, what *)
(* is on disk and what is still to be appended cover the new watermark, and *)
(* what has been appended has reached the disk.                            *)
(***************************************************************************)
PerBar == {"snapshots", "positions", "equity"}

BackInv ==
    /\ pc = "append" =>
         /\ \A f \in PerBar :
              1..mem.st.wm \subseteq BarsIn(ledger[f]) \cup BarsIn(mem.rows[f])
         /\ \A f \in Summed : mem.st.sums[f] \subseteq ledger[f] \cup mem.rows[f]
         /\ \A i \in 1..6 : i < mem.next =>
              mem.rows[AppendOrder[i]] \subseteq ledger[AppendOrder[i]]
    /\ pc \in {"reconcile"} \cup Publishing =>
         /\ \A f \in PerBar : 1..mem.st.wm \subseteq BarsIn(ledger[f])
         /\ \A f \in Summed : mem.st.sums[f] \subseteq ledger[f]

\* A row append_new skips because its id is known is the row on disk.
LEMMA SkippedIsThere ==
    ASSUME TypeOK, SourceInv, OneSourcePerBar, pc = "append",
           NEW f \in Ledgers, NEW r \in mem.rows[f]
    PROVE  r \in Fresh(f) \/ r \in ledger[f]
  <1> SUFFICES ASSUME r \notin Fresh(f) PROVE r \in ledger[f]
    OBVIOUS
  <1>1. PICK e \in ledger[f] : e.bar = r.bar
    BY DEF Fresh, BarsIn
  <1>2. e \in ledger["snapshots"] /\ r \in mem.rows["snapshots"]
    BY <1>1 DEF OneSourcePerBar, SourceInv
  <1>3. e = r
    BY <1>1, <1>2 DEF SourceInv
  <1> QED
    BY <1>1, <1>3

\* The new watermark is the old one moved over the bars just processed.
LEMMA EngineCovers ==
    ASSUME TypeOK, NEW st \in StateType, NEW f \in PerBar
    PROVE  1..EngineState(st).wm \subseteq 1..st.wm \cup BarsIn(EngineRows(st)[f])
  <1> DEFINE P == Processed(st)
             wm == EngineState(st).wm
  <1>1. f \in Ledgers /\ EngineBars(st, f) = P
    BY DEF PerBar, Ledgers, EngineBars
  <1>2. P \subseteq BarsIn(EngineRows(st)[f])
    <2> SUFFICES ASSUME NEW b \in P PROVE b \in BarsIn(EngineRows(st)[f])
      OBVIOUS
    <2> DEFINE row == [bar |-> b, row |-> obs[b]]
    <2>1. row \in EngineRows(st)[f]
      BY <1>1 DEF EngineRows
    <2>2. row.bar = b
      OBVIOUS
    <2> HIDE DEF row
    <2> QED
      BY <2>1, <2>2 DEF BarsIn
  <1>3. wm = IF P = {} THEN st.wm ELSE LastBar(P)
    BY DEF EngineState
  <1>4. st.wm \in 0..NBars /\ P \subseteq Bars
    BY ProcessedBars DEF StateType
  <1>5. CASE P # {} /\ LastBar(P) # 0
    <2>1. LastBar(P) \in P
      BY <1>5, LastBarTop
    <2>2. (st.wm + 1)..LastBar(P) \subseteq P
      BY <2>1, ProcessedBars
    <2>3. 1..LastBar(P) \subseteq 1..st.wm \cup (st.wm + 1)..LastBar(P)
      BY <1>4, <2>1, NBarsAssumption DEF Bars
    <2> HIDE DEF P
    <2> QED
      BY <1>2, <1>3, <1>5, <2>2, <2>3
  <1>6. CASE P # {} /\ LastBar(P) = 0
    BY <1>3, <1>6
  <1>7. CASE P = {}
    BY <1>3, <1>7
  <1> QED
    BY <1>5, <1>6, <1>7

LEMMA NextBacked ==
    OkInv /\ SourceInv /\ OneSourcePerBar /\ BackInv /\ StateIsBacked /\ [Next]_vars
        => (BackInv /\ StateIsBacked)'
  <1> SUFFICES ASSUME OkInv, SourceInv, OneSourcePerBar, BackInv, StateIsBacked,
                      [Next]_vars
               PROVE  BackInv' /\ StateIsBacked'
    OBVIOUS
  <1>1. TypeOK /\ mem \in MemType /\ state \in StateType
    BY MemTypeOK DEF OkInv, TypeOK
  <1>2. \A f \in Ledgers :
            ledger[f] \subseteq ledger'[f] /\ BarsIn(ledger[f]) \subseteq BarsIn(ledger'[f])
    BY <1>1, LedgersGrow DEF BarsIn
  <1>3. ASSUME state' = state PROVE StateIsBacked'
    BY <1>2, <1>3 DEF StateIsBacked, Ledgers, Summed
  <1>4. CASE OkState
    <2>1. /\ ledger' = ledger /\ mem' = mem /\ state' = mem.st
          /\ pc = "okstate" /\ pc' = "oksummary"
      BY <1>4 DEF OkState, Goto
    <2>2. \A f \in PerBar : 1..mem.st.wm \subseteq BarsIn(ledger[f])
      BY <2>1 DEF BackInv, Publishing, Passed
    <2>3. \A f \in Summed : mem.st.sums[f] \subseteq ledger[f]
      BY <2>1 DEF BackInv, Publishing, Passed
    <2>4. BackInv'
      BY <2>1, <2>2, <2>3 DEF BackInv
    <2>5. StateIsBacked'
      BY <2>1, <2>2, <2>3 DEF StateIsBacked, PerBar
    <2> QED
      BY <2>4, <2>5
  <1>5. CASE ReadInputs
    <2>1. state' = state /\ ledger' = ledger
      BY <1>5 DEF ReadInputs, bookVars
    <2>2. CASE pc' = "append"
      <3> DEFINE st == [state EXCEPT !.present = TRUE]
      <3>1. mem' = [mem EXCEPT !.rows = EngineRows(st), !.st = EngineState(st),
                               !.next = 1]
        BY <1>5, <2>2, TerminateDoc DEF ReadInputs
      <3>2. st \in StateType /\ st.wm = state.wm
        BY <1>1 DEF StateType
      <3> HIDE DEF st
      <3>3. mem'.rows = EngineRows(st) /\ mem'.st = EngineState(st) /\ mem'.next = 1
        BY <1>1, <3>1 DEF MemType
      <3>4. \A f \in PerBar : 1..state.wm \subseteq BarsIn(ledger[f])
        BY DEF StateIsBacked, PerBar
      <3>5. \A f \in PerBar :
                1..EngineState(st).wm \subseteq
                    BarsIn(ledger[f]) \cup BarsIn(EngineRows(st)[f])
        BY <1>1, <3>2, <3>4, EngineCovers
      <3>6. \A f \in Summed :
                EngineState(st).sums[f] \subseteq ledger[f] \cup EngineRows(st)[f]
        <4>1. st.sums = state.sums
          BY <1>1 DEF st, StateType
        <4> QED
          BY <4>1 DEF StateIsBacked, EngineState
      <3>7. BackInv'
        BY <2>1, <2>2, <3>3, <3>5, <3>6 DEF BackInv, Publishing, Passed
      <3> QED
        BY <1>3, <2>1, <3>7
    <2>3. CASE pc' # "append"
      <3>1. pc' = "tprov"
        BY <1>5, <2>3, TerminateDoc DEF ReadInputs, Goto
      <3> QED
        BY <1>3, <2>1, <3>1 DEF BackInv, Publishing, Passed
    <2> QED
      BY <2>2, <2>3
  <1>6. CASE AppendLedger
    <2>1. /\ pc = "append" /\ state' = state
          /\ ledger' = [ledger EXCEPT ![Current] = @ \cup Fresh(Current)]
      BY <1>6 DEF AppendLedger
    <2>2. mem'.rows = mem.rows /\ mem'.st = mem.st
      BY <1>1, <1>6 DEF AppendLedger, MemType
    <2>3. \A i \in 1..6 : i <= mem.next =>
              mem.rows[AppendOrder[i]] \subseteq ledger'[AppendOrder[i]]
      <3> SUFFICES ASSUME NEW i \in 1..6, i <= mem.next
                   PROVE  mem.rows[AppendOrder[i]] \subseteq ledger'[AppendOrder[i]]
        OBVIOUS
      <3>1. CASE i < mem.next
        BY <1>2, <2>1, <3>1, AppendOrderFacts DEF BackInv
      <3>2. CASE i = mem.next
        <4>1. AppendOrder[i] = Current /\ Current \in Ledgers
          BY <3>2, AppendOrderFacts DEF Current
        <4>2. ledger'[Current] = ledger[Current] \cup Fresh(Current)
          BY <1>1, <2>1, <4>1 DEF TypeOK, BookType
        <4>3. mem.rows[Current] \subseteq ledger'[Current]
          BY <1>1, <2>1, <4>1, <4>2, SkippedIsThere
        <4> QED
          BY <4>1, <4>3
      <3> QED
        BY <1>1, <3>1, <3>2 DEF MemType
    <2>4. /\ \A f \in PerBar :
              1..mem.st.wm \subseteq BarsIn(ledger'[f]) \cup BarsIn(mem.rows[f])
          /\ \A f \in Summed : mem.st.sums[f] \subseteq ledger'[f] \cup mem.rows[f]
      BY <1>2, <2>1 DEF BackInv, PerBar, Ledgers, Summed
    <2>5. CASE mem.next < 6
      <3>1. pc' = "append" /\ mem'.next = mem.next + 1
        BY <1>1, <1>6, <2>1, <2>5, AppendOrderFacts DEF AppendLedger, MemType
      <3>2. \A i \in 1..6 : i < mem'.next =>
                mem.rows[AppendOrder[i]] \subseteq ledger'[AppendOrder[i]]
        BY <1>1, <2>3, <3>1 DEF MemType
      <3>3. BackInv'
        BY <2>2, <2>4, <3>1, <3>2 DEF BackInv, Publishing, Passed
      <3> QED
        BY <1>3, <2>1, <3>3
    <2>6. CASE mem.next = 6
      <3>1. pc' = "reconcile"
        BY <1>6, <2>6, AppendOrderFacts DEF AppendLedger, Goto
      <3>2. \A f \in Ledgers : mem.rows[f] \subseteq ledger'[f]
        BY <2>3, <2>6, AppendOrderFacts
      <3>3. \A f \in PerBar : 1..mem.st.wm \subseteq BarsIn(ledger'[f])
        BY <2>4, <3>2 DEF PerBar, Ledgers, BarsIn
      <3>4. \A f \in Summed : mem.st.sums[f] \subseteq ledger'[f]
        BY <2>4, <3>2 DEF Summed, Ledgers
      <3>5. BackInv'
        BY <2>2, <3>1, <3>3, <3>4 DEF BackInv
      <3> QED
        BY <1>3, <2>1, <3>5
    <2> QED
      BY <1>1, <2>5, <2>6 DEF MemType
  <1>7. CASE ~OkState /\ ~ReadInputs /\ ~AppendLedger
    <2>1. /\ state' = state
          /\ \/ pc' = pc /\ mem' = mem
             \/ pc' \notin {"append", "reconcile"} \cup Publishing
             \/ pc \in {"reconcile"} \cup Publishing /\ mem'.st = mem.st
                  /\ pc' \in Publishing
      BY <1>1, <1>7, TerminateDoc, ExitDoc
         DEF Next, RunStep, Fault, Outside, StagePrevious, WriteMarker, HealthGate,
             Cleanup, ReconcileGate, OkManifest, OkReceipt, OkGate,
             OkLog, OkSummary, TerminalManifest, TerminalLog,
             TerminalReceipt, TerminalSummary, ConfigError, StagePreviousFails,
             HealthGateUnreadable, CleanupLeavesOne, InputProblem, GateUnreadable,
             Crash, PublishBar, MarketBar, RecomputeBar, vars, bookVars, runVars,
             Goto, AfterCleanup, MemType, Publishing, Passed
    <2>2. CASE pc' = pc /\ mem' = mem
      BY <1>2, <1>3, <2>1, <2>2, AppendOrderFacts DEF BackInv, PerBar, Ledgers, Summed
    <2>3. CASE pc' \notin {"append", "reconcile"} \cup Publishing
      BY <1>3, <2>1, <2>3 DEF BackInv
    <2>4. CASE pc \in {"reconcile"} \cup Publishing /\ mem'.st = mem.st
                  /\ pc' \in Publishing
      BY <1>2, <1>3, <2>1, <2>4 DEF BackInv, PerBar, Ledgers, Summed, Publishing, Passed
    <2> QED
      BY <2>1, <2>2, <2>3, <2>4
  <1> QED
    BY <1>4, <1>5, <1>6, <1>7

\* At every moment of every run, every bar up to the persisted watermark has
\* its snapshot, positions and equity rows on disk, and the persisted
\* accumulators sum rows that are there.
THEOREM StateBacked ==
    Spec => []StateIsBacked
  <1>1. Init => /\ OkInv /\ OkIsTrue /\ SourceInv /\ OneSourcePerBar
                /\ BackInv /\ StateIsBacked
    <2> SUFFICES ASSUME Init
                 PROVE  SourceInv /\ OneSourcePerBar /\ BackInv /\ StateIsBacked
      BY InitOk
    <2>1. /\ pc = "idle" /\ ledger = [f \in Ledgers |-> {}]
          /\ state.wm = 0 /\ state.sums = [f \in Summed |-> {}]
      BY DEF Init, AbsentState, NewState
    <2> QED
      BY <2>1 DEF SourceInv, OneSourcePerBar, Unique, BackInv, StateIsBacked,
                  Publishing, Passed, Summed
  <1>2. OkInv => TypeOK
    BY DEF OkInv
  <1> QED
    BY <1>1, <1>2, NextOk, NextSource, NextBacked, PTL DEF Spec

-----------------------------------------------------------------------------
(***************************************************************************)
(* Lost bars and money are noticed.  What an OK attested is in the sums of   *)
(* the state ever after, and the final gate compares them with the ledgers: *)
(* the fills, the trades and the funding by their sums, the equity rows by   *)
(* their number.  For these the number is enough, because every equity row  *)
(* on disk up to the watermark is one of those counted: it was counted      *)
(* before, or it has a bar of the batch and a snapshot, and the snapshots   *)
(* agree with the batch.  The snapshots, which nothing sums up, are one for *)
(* each equity row.                                                        *)
(***************************************************************************)
SnapshotOfEach(book) ==
    book["snapshots"] \subseteq book["equity"] /\ book["equity"] \subseteq book["snapshots"]

AttestedIsSummed ==
    /\ committed["equity"] \subseteq state.sums["equity"]
    /\ committed["snapshots"] \subseteq committed["equity"]

Batch == {"append", "reconcile"} \cup Publishing

\* The state a run is about to commit sums up all that the last one did.
SumsGrow ==
    /\ mem.doc.status = "OK" => pc \in Publishing
    /\ pc \in Batch =>
          mem.st.present /\ \A f \in Summed : state.sums[f] \subseteq mem.st.sums[f]
    /\ pc = "oksummary" => state = mem.st

\* The rows of a batch: one of equity for each bar between the watermarks,
\* counted by the new state, and none that a snapshot on disk contradicts.
BatchAgrees ==
    pc \in Batch =>
        /\ mem.rows["equity"] = mem.rows["snapshots"]
        /\ mem.rows["equity"] \subseteq mem.st.sums["equity"]
        /\ \A d, e \in mem.rows["snapshots"] : d.bar = e.bar => d = e
        /\ \A s \in ledger["snapshots"], r \in mem.rows["snapshots"] :
              s.bar = r.bar => s = r
        /\ pc # "oksummary" =>
              1..mem.st.wm \subseteq 1..state.wm \cup BarsIn(mem.rows["equity"])
        /\ pc = "append" => \A r \in mem.rows["equity"] : state.wm < r.bar

EquityIsSummed ==
    \A e \in ledger["equity"] : e.bar <= state.wm => e \in state.sums["equity"]

\* Behind the final gate the ledgers amount to what this state sums up.
SummedIsThere ==
    pc \in Passed =>
        /\ SnapshotOfEach(ledger)
        /\ ledger["equity"] = mem.st.sums["equity"]
        /\ \A f \in Charged : SameTotal(f, mem.st.sums[f], ledger[f])

LossInv ==
    /\ TypeOK /\ AttestedIsSummed /\ SumsGrow /\ BatchAgrees /\ EquityIsSummed
    /\ SummedIsThere

\* There are finitely many rows.
LEMMA EntryFinite ==
    IsFiniteSet(Entry)
  <1> DEFINE f == [p \in Bars \X Rows |-> [bar |-> p[1], row |-> p[2]]]
             T == {f[p] : p \in Bars \X Rows}
  <1>1. IsFiniteSet(Bars)
    <2>1. 1 \in Int /\ NBars \in Int
      BY NBarsAssumption
    <2> QED
      BY <2>1, FS_Interval DEF Bars
  <1>2. IsFiniteSet(Bars \X Rows)
    BY <1>1, RowsAssumption, FS_Product
  <1>3. IsFiniteSet(T)
    <2> HIDE DEF f
    <2> QED
      BY <1>2, FiniteImage
  <1>4. Entry \subseteq T
    <2> SUFFICES ASSUME NEW e \in Entry PROVE e \in T
      OBVIOUS
    <2>1. <<e.bar, e.row>> \in Bars \X Rows /\ e = [bar |-> e.bar, row |-> e.row]
      BY DEF Entry
    <2>2. f[<<e.bar, e.row>>] = e
      BY <2>1
    <2> QED
      BY <2>1, <2>2
  <1> HIDE DEF T
  <1> QED
    BY <1>3, <1>4, FS_Subset

\* As many rows, none of them another one: the same rows.
LEMMA CountedRows ==
    ASSUME NEW B \in BarSet, NEW A \in SUBSET B, Cardinality(B) = Cardinality(A)
    PROVE  A = B
  <1>1. IsFiniteSet(B)
    BY EntryFinite, FS_Subset DEF BarSet
  <1> QED
    BY <1>1, FS_Subset

\* A bar of a set of bars is not later than its last one.
LEMMA NotAfterLast ==
    ASSUME NEW S \in SUBSET Bars, NEW b \in S
    PROVE  b <= LastBar(S)
  <1>1. 1 \in Int /\ NBars \in Int /\ S \in SUBSET Int
    BY NBarsAssumption DEF Bars
  <1>2. IsFiniteSet(Bars)
    BY <1>1, FS_Interval DEF Bars
  <1>3. IsFiniteSet(S)
    BY <1>2, FS_Subset
  <1>4. \E m \in S : \A y \in S : y <= m
    BY <1>1, <1>3, FiniteHasBounds
  <1> QED
    BY <1>4 DEF LastBar

\* reconcile: a book that reconciles has one snapshot for each equity row.
LEMMA ReconciledSnapshots ==
    ASSUME NEW book, Reconciles(book)
    PROVE  SnapshotOfEach(book)
  <1>1. book["equity"] \subseteq book["snapshots"]
    BY DEF Reconciles, RowsMatchSnapshots, Ledgers
  <1>2. ASSUME NEW s \in book["snapshots"] PROVE s \in book["equity"]
    <2>1. PICK e \in book["equity"] : e.bar = s.bar
      BY DEF Reconciles, SnapshotsMatchEquity, BarsIn
    <2>2. e = s
      BY <1>1, <2>1 DEF Reconciles, Unique, Ledgers
    <2> QED
      BY <2>1, <2>2
  <1> QED
    BY <1>1, <1>2 DEF SnapshotOfEach

\* run_engine starts from the persisted accumulators and adds to them.
LEMMA EngineAdds ==
    ASSUME NEW st \in StateType
    PROVE  \A f \in Summed : st.sums[f] \subseteq EngineState(st).sums[f]
  BY DEF EngineState, StateType

\* Behind the gate, the equity rows on disk are those the new state counts.
LEMMA GateCounts ==
    ASSUME LossInv, pc = "gate", FinalGate(mem.st, mem.doc)
    PROVE  /\ SnapshotOfEach(ledger)
           /\ ledger["equity"] = mem.st.sums["equity"]
           /\ \A f \in Charged : SameTotal(f, mem.st.sums[f], ledger[f])
  <1>1. /\ mem \in MemType /\ state \in StateType /\ ledger \in BookType
        /\ SumsGrow /\ BatchAgrees /\ EquityIsSummed
    BY MemTypeOK DEF LossInv, TypeOK
  <1>2. pc \in Batch /\ pc # "oksummary"
    BY DEF Batch, Publishing
  <1>3. mem.st.present /\ state.sums["equity"] \subseteq mem.st.sums["equity"]
    BY <1>1, <1>2 DEF SumsGrow, Summed
  <1>4. Reconciles(ledger) /\ InLockstep(ledger, mem.st)
    BY <1>3 DEF FinalGate, StateTies
  <1>5. SnapshotOfEach(ledger)
    BY <1>4, ReconciledSnapshots
  <1>6. ASSUME NEW e \in ledger["equity"] PROVE e \in mem.st.sums["equity"]
    <2>1. e.bar \in BarsIn(ledger["equity"]) /\ BarsIn(ledger["equity"]) \in SUBSET Bars
      BY <1>1 DEF BarsIn, BookType, BarSet, Entry, Ledgers
    <2>2. e.bar \in 1..mem.st.wm
      <3>1. e.bar <= mem.st.wm
        BY <1>4, <2>1, NotAfterLast DEF InLockstep
      <3>2. e.bar \in 1..NBars /\ mem.st.wm \in 0..NBars /\ NBars \in Nat
        BY <1>1, <2>1, NBarsAssumption DEF Bars, MemType, StateType
      <3> QED
        BY <3>1, <3>2
    <2>3. CASE e.bar \in 1..state.wm
      <3>1. e.bar <= state.wm
        BY <1>1, <2>3 DEF StateType
      <3> QED
        BY <1>1, <1>3, <3>1 DEF EquityIsSummed
    <2>4. CASE e.bar \in BarsIn(mem.rows["equity"])
      <3>1. PICK r \in mem.rows["equity"] : r.bar = e.bar
        BY <2>4 DEF BarsIn
      <3>2. e \in ledger["snapshots"] /\ r \in mem.rows["snapshots"]
        BY <1>1, <1>2, <1>5, <3>1 DEF SnapshotOfEach, BatchAgrees
      <3>3. e = r
        BY <1>1, <1>2, <3>1, <3>2 DEF BatchAgrees
      <3> QED
        BY <1>1, <1>2, <3>1, <3>3 DEF BatchAgrees
    <2> QED
      BY <1>1, <1>2, <2>2, <2>3, <2>4 DEF BatchAgrees
  <1>7. ledger["equity"] = mem.st.sums["equity"]
    <2>1. mem.st.sums["equity"] \in BarSet
      BY <1>1 DEF MemType, StateType, Summed
    <2>2. ledger["equity"] \in SUBSET mem.st.sums["equity"]
      BY <1>6
    <2>3. Cardinality(mem.st.sums["equity"]) = Cardinality(ledger["equity"])
      BY <1>4 DEF InLockstep
    <2> QED
      BY <2>1, <2>2, <2>3, CountedRows
  <1> QED
    BY <1>4, <1>5, <1>7 DEF InLockstep

LEMMA BatchStep ==
    ASSUME LossInv, [Next]_vars
    PROVE  BatchAgrees' /\ EquityIsSummed'
  <1>1. /\ TypeOK /\ mem \in MemType /\ state \in StateType /\ ledger \in BookType
        /\ SumsGrow /\ BatchAgrees /\ EquityIsSummed /\ SummedIsThere
    BY MemTypeOK DEF LossInv, TypeOK
  <1>2. CASE ReadInputs
    <2>1. state' = state /\ ledger' = ledger
      BY <1>2 DEF ReadInputs, bookVars
    <2>2. CASE pc' = "append"
      <3> DEFINE st == [state EXCEPT !.present = TRUE]
                 rows == EngineRows(st)
      <3>1. ~Diverged /\ mem' = [mem EXCEPT !.rows = rows, !.st = EngineState(st),
                                            !.next = 1]
        BY <1>2, <2>2, TerminateDoc DEF ReadInputs
      <3>2. st \in StateType /\ st.wm = state.wm
        BY <1>1 DEF StateType
      <3> HIDE DEF st
      <3>3. mem'.rows = rows /\ mem'.st = EngineState(st)
        BY <1>1, <3>1 DEF MemType
      <3>4. \A f \in {"snapshots", "equity"} :
                rows[f] = {[bar |-> b, row |-> obs[b]] : b \in Processed(st)}
        BY DEF EngineRows, EngineBars, Ledgers
      <3>5. \A r \in rows["snapshots"] :
                r.bar \in Processed(st) /\ r.bar \in 1..Len(obs) /\ r.row = obs[r.bar]
        <4>1. Processed(st) \subseteq 1..Len(obs)
          BY <1>1, <3>2, ProcessedBars DEF TypeOK, StateType
        <4> QED
          BY <3>4, <4>1
      <3>6. \A r \in rows["equity"] : state.wm < r.bar
        <4>1. Processed(st) \subseteq (state.wm + 1)..Len(obs)
          BY <1>1, <3>2, ProcessedBars
        <4>2. \A b \in (state.wm + 1)..Len(obs) : state.wm < b
          BY <1>1 DEF StateType
        <4> QED
          BY <3>4, <4>1, <4>2
      <3>7. \A s \in ledger["snapshots"], r \in rows["snapshots"] :
                s.bar = r.bar => s = r
        <4>1. \A s \in ledger["snapshots"] : s = [bar |-> s.bar, row |-> s.row]
          BY <1>1 DEF TypeOK, BookType, BarSet, Entry, Ledgers
        <4>2. \A r \in rows["snapshots"] : r = [bar |-> r.bar, row |-> r.row]
          BY <3>4
        <4>3. \A s \in ledger["snapshots"] :
                  s.bar \in 1..Len(obs) => obs[s.bar] = s.row
          BY <1>1, <3>1 DEF Diverged, TypeOK
        <4> QED
          BY <3>5, <4>1, <4>2, <4>3
      <3>8. 1..EngineState(st).wm \subseteq 1..state.wm \cup BarsIn(rows["equity"])
        BY <1>1, <3>2, EngineCovers DEF PerBar
      <3>9. rows["equity"] \subseteq EngineState(st).sums["equity"]
        BY DEF EngineState, Summed
      <3>10. \A d, e \in rows["snapshots"] : d.bar = e.bar => d = e
        BY <3>4
      <3>11. rows["equity"] = rows["snapshots"]
        BY <3>4
      <3> HIDE DEF rows
      <3> QED
        BY <1>1, <2>1, <2>2, <3>3, <3>6, <3>7, <3>8, <3>9, <3>10, <3>11
           DEF BatchAgrees, EquityIsSummed
    <2>3. CASE pc' # "append"
      <3>1. pc' = "tprov"
        BY <1>2, <2>3, TerminateDoc DEF ReadInputs, Goto
      <3> QED
        BY <1>1, <2>1, <3>1 DEF BatchAgrees, EquityIsSummed, Batch, Publishing, Passed
    <2> QED
      BY <2>2, <2>3
  <1>3. CASE AppendLedger \/ Crash
    <2>1. /\ state' = state
          /\ \/ /\ pc' \in {"append", "reconcile"} /\ pc = "append"
                /\ mem'.st = mem.st /\ mem'.rows = mem.rows
             \/ pc' = "idle"
      BY <1>1, <1>3, ExitDoc DEF AppendLedger, Crash, Goto, MemType
    <2>2. \/ ledger' = ledger
          \/ /\ pc = "append"
             /\ \E part \in SUBSET Fresh(Current) :
                   ledger' = [ledger EXCEPT ![Current] = @ \cup part]
      <3>1. CASE AppendLedger
        BY <3>1 DEF AppendLedger
      <3>2. CASE Crash
        <4>1. CASE CutAppend /\ pc = "append"
          <5>1. PICK k \in 0..NBars :
                   ledger' = [ledger EXCEPT ![Current] =
                                @ \cup {e \in Fresh(Current) : e.bar <= k}]
            BY <4>1 DEF CutAppend
          <5>2. {e \in Fresh(Current) : e.bar <= k} \in SUBSET Fresh(Current)
            OBVIOUS
          <5> QED
            BY <4>1, <5>1, <5>2
        <4> QED
          BY <3>2, <4>1 DEF Crash
      <3> QED
        BY <1>3, <3>1, <3>2
    <2>3. CASE ledger' = ledger
      BY <1>1, <2>1, <2>3 DEF BatchAgrees, EquityIsSummed, Batch, Publishing, Passed
    <2>4. CASE /\ pc = "append"
               /\ \E part \in SUBSET Fresh(Current) :
                     ledger' = [ledger EXCEPT ![Current] = @ \cup part]
      <3>1. PICK part \in SUBSET Fresh(Current) :
               ledger' = [ledger EXCEPT ![Current] = @ \cup part]
        BY <2>4
      <3>2. Current \in Ledgers /\ part \subseteq mem.rows[Current]
        BY <1>1, AppendOrderFacts DEF Current, MemType, Fresh
      <3>3. \A f \in {"snapshots", "equity"} :
                \A e \in ledger'[f] : e \in ledger[f] \/ e \in mem.rows[f]
        BY <1>1, <3>1, <3>2 DEF BookType, Ledgers
      <3>4. EquityIsSummed'
        <4>1. \A r \in mem.rows["equity"] : state.wm < r.bar
          BY <1>1, <2>4 DEF BatchAgrees, Batch
        <4>2. \A r \in mem.rows["equity"] : r.bar \in Int
          BY <1>1, NBarsAssumption DEF MemType, BookType, BarSet, Entry, Bars, Ledgers
        <4>3. state.wm \in Int
          BY <1>1, NBarsAssumption DEF StateType
        <4> QED
          BY <1>1, <2>1, <3>3, <4>1, <4>2, <4>3 DEF EquityIsSummed
      <3>5. \A s \in ledger'["snapshots"], r \in mem.rows["snapshots"] :
                s.bar = r.bar => s = r
        BY <1>1, <2>4, <3>3 DEF BatchAgrees, Batch
      <3>6. BatchAgrees'
        BY <1>1, <2>1, <2>4, <3>5 DEF BatchAgrees, Batch, Publishing, Passed
      <3> QED
        BY <3>4, <3>6
    <2> QED
      BY <2>2, <2>3, <2>4
  <1>4. CASE OkState
    <2>1. /\ pc = "okstate" /\ pc' = "oksummary" /\ state' = mem.st /\ mem' = mem
          /\ ledger' = ledger
      BY <1>4 DEF OkState, Goto
    <2>2. ledger["equity"] = mem.st.sums["equity"]
      BY <1>1, <2>1 DEF SummedIsThere, Passed
    <2> QED
      BY <1>1, <2>1, <2>2 DEF BatchAgrees, EquityIsSummed, Batch, Publishing, Passed
  <1>5. CASE ~(ReadInputs \/ AppendLedger \/ Crash \/ OkState)
    <2>1. /\ state' = state /\ ledger' = ledger
          /\ \/ pc' = pc /\ mem' = mem
             \/ pc' \notin Batch
             \/ /\ pc \in Batch \ {"append", "oksummary"} /\ pc' # "append"
                /\ mem'.rows = mem.rows /\ mem'.st = mem.st
      BY <1>1, <1>5, TerminateDoc, ExitDoc
         DEF Next, RunStep, Fault, Outside, StagePrevious, WriteMarker, HealthGate,
             Cleanup, ReconcileGate, OkManifest, OkReceipt, OkGate,
             OkLog, OkSummary, TerminalManifest, TerminalLog,
             TerminalReceipt, TerminalSummary, ConfigError, StagePreviousFails,
             HealthGateUnreadable, CleanupLeavesOne, InputProblem, GateUnreadable,
             PublishBar, MarketBar, RecomputeBar, vars, bookVars, runVars,
             Goto, AfterCleanup, MemType, Batch, Publishing, Passed
    <2> QED
      BY <1>1, <2>1 DEF BatchAgrees, EquityIsSummed
  <1> QED
    BY <1>2, <1>3, <1>4, <1>5

LEMMA LossStep ==
    ASSUME LossInv, [Next]_vars
    PROVE  LossInv'
  <1>1. /\ TypeOK /\ TypeOK' /\ mem \in MemType /\ state \in StateType /\ ledger \in BookType
        /\ AttestedIsSummed /\ SumsGrow /\ SummedIsThere
        /\ BatchAgrees' /\ EquityIsSummed'
    BY NextTypeOK, BatchStep, MemTypeOK DEF LossInv, TypeOK
  <1>2. CASE ReadInputs
    <2>1. state' = state /\ committed' = committed /\ pc = "inputs"
      BY <1>2 DEF ReadInputs, bookVars
    <2>2. CASE pc' = "append"
      <3> DEFINE st == [state EXCEPT !.present = TRUE]
      <3>1. mem' = [mem EXCEPT !.rows = EngineRows(st), !.st = EngineState(st), !.next = 1]
        BY <1>2, <2>2, TerminateDoc DEF ReadInputs
      <3>2. st \in StateType /\ st.sums = state.sums
        BY <1>1 DEF StateType
      <3> HIDE DEF st
      <3>3. mem'.st = EngineState(st) /\ mem'.doc = mem.doc
        BY <1>1, <3>1 DEF MemType
      <3>4. EngineState(st).present /\ \A f \in Summed : state.sums[f] \subseteq EngineState(st).sums[f]
        BY <1>1, <3>2, EngineAdds, EngineStateType
      <3>5. mem.doc.status # "OK"
        BY <1>1, <2>1 DEF SumsGrow, Batch, Publishing, Passed
      <3> QED
        BY <1>1, <2>1, <2>2, <3>3, <3>4, <3>5
           DEF LossInv, AttestedIsSummed, SumsGrow, SummedIsThere, Batch, Publishing, Passed
    <2>3. CASE pc' # "append"
      <3>1. pc' = "tprov" /\ mem'.doc.status # "OK"
        BY <1>2, <2>3, TerminateDoc DEF ReadInputs, Goto
      <3> QED
        BY <1>1, <2>1, <3>1
           DEF LossInv, AttestedIsSummed, SumsGrow, SummedIsThere, Batch, Publishing, Passed
    <2> QED
      BY <2>2, <2>3
  <1>3. CASE ReconcileGate
    <2>1. state' = state /\ committed' = committed /\ pc = "reconcile"
      BY <1>3 DEF ReconcileGate, bookVars
    <2>2. \/ pc' = "okprov" /\ mem'.st = mem.st
          \/ pc' = "tprov" /\ mem'.doc.status # "OK"
      BY <1>1, <1>3, TerminateDoc DEF ReconcileGate, Goto, MemType
    <2> QED
      BY <1>1, <2>1, <2>2
         DEF LossInv, AttestedIsSummed, SumsGrow, SummedIsThere, Batch, Publishing, Passed
  <1>4. CASE OkGate
    <2>1. state' = state /\ committed' = committed /\ ledger' = ledger /\ pc = "gate"
      BY <1>4 DEF OkGate, bookVars
    <2>2. CASE FinalGate(mem.st, mem.doc)
      <3>1. pc' = "oklog" /\ mem' = mem
        BY <1>4, <2>2 DEF OkGate, Goto
      <3>2. mem.st.present
        BY <1>1, <2>1 DEF SumsGrow, Batch, Publishing
      <3>3. /\ SnapshotOfEach(ledger)
            /\ ledger["equity"] = mem.st.sums["equity"]
            /\ \A f \in Charged : SameTotal(f, mem.st.sums[f], ledger[f])
        BY <2>1, <2>2, GateCounts
      <3> QED
        BY <1>1, <2>1, <3>1, <3>3
           DEF LossInv, AttestedIsSummed, SumsGrow, SummedIsThere, Batch, Publishing, Passed
    <2>3. CASE ~FinalGate(mem.st, mem.doc)
      <3>1. pc' = "tprov" /\ mem'.doc.status # "OK"
        BY <1>4, <2>3, TerminateDoc DEF OkGate
      <3> QED
        BY <1>1, <2>1, <3>1
           DEF LossInv, AttestedIsSummed, SumsGrow, SummedIsThere, Batch, Publishing, Passed
    <2> QED
      BY <2>2, <2>3
  <1>5. CASE OkState
    <2>1. /\ pc = "okstate" /\ pc' = "oksummary" /\ state' = mem.st /\ mem' = mem
          /\ ledger' = ledger /\ committed' = committed
      BY <1>5 DEF OkState, Goto
    <2>2. /\ \A f \in Summed : state.sums[f] \subseteq mem.st.sums[f]
          /\ mem.st.present
      BY <1>1, <2>1 DEF SumsGrow, Batch, Publishing, Passed
    <2> QED
      BY <1>1, <2>1, <2>2
         DEF LossInv, AttestedIsSummed, SumsGrow, SummedIsThere, Batch, Publishing, Passed, Summed
  <1>6. CASE OkSummary
    <2>1. /\ pc = "oksummary" /\ pc' = "idle" /\ mem'.doc.status = "ABSENT"
          /\ state' = state /\ ledger' = ledger /\ committed' = ledger
      BY <1>6, ExitDoc DEF OkSummary, bookVars
    <2>2. ledger["equity"] \subseteq state.sums["equity"]
      BY <1>1, <2>1 DEF SumsGrow, SummedIsThere, Passed
    <2>3. ledger["snapshots"] \subseteq ledger["equity"]
      BY <1>1, <2>1 DEF SummedIsThere, SnapshotOfEach, Passed
    <2> QED
      BY <1>1, <2>1, <2>2, <2>3
         DEF LossInv, AttestedIsSummed, SumsGrow, SummedIsThere, Batch, Publishing, Passed
  <1>7. CASE AppendLedger \/ Crash
    <2>1. state' = state /\ committed' = committed
      BY <1>7 DEF AppendLedger, Crash
    <2>2. \/ pc' \in {"append", "reconcile"} /\ pc = "append" /\ mem'.st = mem.st
             /\ mem'.doc = mem.doc
          \/ pc' = "idle" /\ mem'.doc.status = "ABSENT"
      BY <1>1, <1>7, ExitDoc DEF AppendLedger, Crash, Goto, MemType
    <2> QED
      BY <1>1, <2>1, <2>2
         DEF LossInv, AttestedIsSummed, SumsGrow, SummedIsThere, Batch, Publishing, Passed
  <1>8. CASE ~(ReadInputs \/ ReconcileGate \/ OkGate \/ OkState \/ OkSummary \/ AppendLedger \/ Crash)
    <2>1. pc \notin Publishing => mem.doc.status # "OK"
      BY <1>1 DEF SumsGrow
    <2>2. CASE OkManifest \/ OkReceipt \/ OkLog
      <3>1. /\ state' = state /\ ledger' = ledger /\ committed' = committed /\ mem' = mem
            /\ pc \in Publishing \ {"oksummary"} /\ pc' \in Publishing \ {"oksummary"}
            /\ (pc' \in Passed => pc \in Passed)
        BY <2>2 DEF OkManifest, OkReceipt, OkLog, bookVars, Goto, Batch, Publishing, Passed
      <3> QED
        BY <1>1, <3>1 DEF LossInv, AttestedIsSummed, SumsGrow, SummedIsThere, Batch
    <2>3. CASE Outside \/ UNCHANGED vars
      <3>1. /\ state' = state /\ ledger' = ledger /\ committed' = committed /\ mem' = mem /\ pc' = pc
        BY <2>3 DEF Outside, PublishBar, MarketBar, RecomputeBar, vars, bookVars, runVars
      <3> QED
        BY <1>1, <3>1 DEF LossInv, AttestedIsSummed, SumsGrow, SummedIsThere
    <2>4. CASE ConfigError \/ StagePrevious \/ StagePreviousFails \/ WriteMarker \/ TerminalManifest
               \/ TerminalLog \/ TerminalReceipt \/ TerminalSummary
      <3>1. /\ state' = state /\ ledger' = ledger /\ committed' = committed
            /\ pc' \notin Batch
        BY <2>4, ExitDoc
           DEF ConfigError, StagePrevious, StagePreviousFails, WriteMarker, TerminalManifest,
               TerminalLog, TerminalReceipt, TerminalSummary, bookVars, runVars, Goto, Batch, Publishing, Passed
      <3>2. mem'.doc.status # "OK"
        <4>1. CASE StagePreviousFails
          BY <1>1, <4>1 DEF StagePreviousFails, MemType, Doc
        <4>2. CASE TerminalSummary
          BY <2>1, <4>2, ExitDoc DEF TerminalSummary, Batch, Publishing, Passed
        <4> QED
          BY <2>1, <2>4, <4>1, <4>2
             DEF ConfigError, StagePrevious, WriteMarker, TerminalManifest, TerminalLog,
                 TerminalReceipt, runVars, Batch, Publishing, Passed
      <3> QED
        BY <1>1, <3>1, <3>2 DEF LossInv, AttestedIsSummed, SumsGrow, SummedIsThere, Batch, Publishing, Passed
    <2>5. CASE HealthGate \/ HealthGateUnreadable \/ InputProblem \/ GateUnreadable
      <3>1. /\ state' = state /\ ledger' = ledger /\ committed' = committed
        BY <2>5 DEF HealthGate, HealthGateUnreadable, InputProblem, GateUnreadable, bookVars
      <3>2. pc' \in {"cleanup", "tprov"} /\ mem'.doc.status # "OK"
        <4>1. CASE HealthGate
          <5>1. \/ pc' = "cleanup" /\ mem' = [mem EXCEPT !.clean = staged]
                \/ Terminate("CORRUPT_LEDGER", staged)
            BY <4>1 DEF HealthGate, Goto
          <5>2. pc = "health"
            BY <4>1 DEF HealthGate
          <5> QED
            BY <1>1, <2>1, <5>1, <5>2, TerminateDoc DEF MemType, Batch, Publishing, Passed
        <4> QED
          BY <2>5, <4>1, TerminateDoc DEF HealthGateUnreadable, InputProblem, GateUnreadable
      <3> QED
        BY <1>1, <3>1, <3>2 DEF LossInv, AttestedIsSummed, SumsGrow, SummedIsThere, Batch, Publishing, Passed
    <2>6. CASE Cleanup \/ CleanupLeavesOne
      <3>1. /\ state' = state /\ ledger' = ledger /\ committed' = committed /\ pc = "cleanup" /\ AfterCleanup
        BY <2>6 DEF Cleanup, CleanupLeavesOne, bookVars
      <3>2. pc' \in {"idle", "inputs"} /\ mem'.doc.status # "OK"
        BY <1>1, <2>1, <3>1, ExitDoc DEF AfterCleanup, Goto, MemType, Batch, Publishing, Passed
      <3> QED
        BY <1>1, <3>1, <3>2 DEF LossInv, AttestedIsSummed, SumsGrow, SummedIsThere, Batch, Publishing, Passed
    <2> QED
      BY <1>8, <2>2, <2>3, <2>4, <2>5, <2>6 DEF Next, RunStep, Fault
  <1> QED
    BY <1>2, <1>3, <1>4, <1>5, <1>6, <1>7, <1>8

\* A row that is lost before the final gate changes nothing that was found there.
LEMMA LossKeeps ==
    ASSUME LossInv, LoseRow
    PROVE  LossInv'
  <1>1. /\ pc' = pc /\ mem' = mem /\ state' = state /\ committed' = committed
        /\ pc \notin Passed
    BY DEF LoseRow, runVars, Passed
  <1>2. TypeOK'
    <2>1. PICK f \in Ledgers : \E e : ledger' = [ledger EXCEPT ![f] = @ \ {e}]
      BY DEF LoseRow
    <2>2. ledger' \in BookType
      BY <2>1 DEF LossInv, TypeOK, BookType, BarSet
    <2> QED
      BY <1>1, <2>2 DEF LossInv, TypeOK, LoseRow, envVars, docVars
  <1>3. \A f \in Ledgers : ledger'[f] \subseteq ledger[f]
    <2>1. PICK f \in Ledgers : \E e : ledger' = [ledger EXCEPT ![f] = @ \ {e}]
      BY DEF LoseRow
    <2> QED
      BY <2>1 DEF LossInv, TypeOK, BookType
  <1>4. BatchAgrees' /\ EquityIsSummed'
    BY <1>1, <1>3 DEF LossInv, BatchAgrees, EquityIsSummed, Ledgers
  <1> QED
    BY <1>1, <1>2, <1>4 DEF LossInv, AttestedIsSummed, SumsGrow, SummedIsThere

LEMMA OnlyOkSummaryPublishes ==
    ASSUME LossInv, [Next]_vars, Publishes
    PROVE  OkSummary
  <1>1. mem.doc.status = "OK" => pc \in Publishing
    BY DEF LossInv, SumsGrow
  <1> SUFFICES ASSUME ~OkSummary PROVE FALSE
    OBVIOUS
  <1>2. summary' = summary \/ summary'.status # "OK"
    BY <1>1 DEF Next, RunStep, Fault, Outside, StagePrevious, WriteMarker, HealthGate,
             Cleanup, ReadInputs, AppendLedger, ReconcileGate, OkManifest, OkReceipt, OkGate,
             OkLog, OkState, TerminalManifest, TerminalLog,
             TerminalReceipt, TerminalSummary, ConfigError, StagePreviousFails,
             HealthGateUnreadable, CleanupLeavesOne, InputProblem, GateUnreadable, Crash,
             PublishBar, MarketBar, RecomputeBar, vars, docVars, Doc, Batch, Publishing, Passed
  <1> QED
    BY <1>2 DEF Publishes

\* The persisted state is replaced by a run's last step but one only.
LEMMA StateGrows ==
    ASSUME LossInv, [DamageNext]_dvars
    PROVE  \A f \in Charged : state.sums[f] \subseteq state'.sums[f]
  <1>1. CASE OkState
    <2>1. pc \in Batch /\ state' = mem.st
      BY <1>1 DEF OkState, Batch, Publishing, Passed
    <2> QED
      BY <2>1 DEF LossInv, SumsGrow, Charged, Summed
  <1>2. CASE ~OkState
    <2>1. state' = state
      BY <1>2
         DEF DamageNext, dvars, LoseRow,
             Next, RunStep, Fault, Outside, StagePrevious, WriteMarker, HealthGate,
             Cleanup, ReadInputs, AppendLedger, ReconcileGate, OkManifest, OkReceipt, OkGate,
             OkLog, OkSummary, TerminalManifest, TerminalLog,
             TerminalReceipt, TerminalSummary, ConfigError, StagePreviousFails,
             HealthGateUnreadable, CleanupLeavesOne, InputProblem, GateUnreadable, Crash,
             PublishBar, MarketBar, RecomputeBar, vars, bookVars
    <2> QED
      BY <2>1
  <1> QED
    BY <1>1, <1>2

\* Rows disappear from the ledgers at any moment up to the final gate, runs die
\* and are stopped: a run that says OK still has every snapshot and equity row an
\* earlier OK attested, and its fills, trades and funding add up to all that the
\* state ever counted.  A row of these three that amounts to nothing, or one of
\* the positions, can be lost unnoticed.
\* runner.py: run_once; reconcile.py: reconcile and final_integrity_gate.
THEOREM LossIsNoticed == DamageSpec => LossBlocksOk
  <1>1. DamageInit => LossInv
    <2> SUFFICES ASSUME Init PROVE LossInv
      BY DEF DamageInit
    <2>1. /\ pc = "idle" /\ state.sums = [f \in Summed |-> {}] /\ mem.doc.status = "ABSENT"
          /\ committed = [f \in Ledgers |-> {}] /\ ledger = [f \in Ledgers |-> {}]
      BY DEF Init, AbsentState, NewState, NoMem, Doc
    <2>2. /\ committed["snapshots"] = {} /\ committed["equity"] = {}
          /\ ledger["equity"] = {}
      BY <2>1 DEF Ledgers
    <2> QED
      BY <2>1, <2>2, InitTypeOK
         DEF LossInv, AttestedIsSummed, SumsGrow, BatchAgrees, EquityIsSummed,
             SummedIsThere, Batch, Publishing, Passed
  <1>2. LossInv /\ [DamageNext]_dvars => LossInv'
    BY LossStep, LossKeeps DEF DamageNext, dvars
  <1> DEFINE Whole == /\ \A f \in {"snapshots", "equity"} : committed[f] \subseteq ledger'[f]
                      /\ \A f \in Charged : SameTotal(f, state'.sums[f], ledger'[f])
             Kept == \A f \in Charged : state.sums[f] \subseteq state'.sums[f]
  <1>3. LossInv /\ [DamageNext]_dvars => [Kept /\ (Publishes => Whole)]_dvars
    <2> SUFFICES ASSUME LossInv, [DamageNext]_dvars, Publishes
                 PROVE  Whole
      BY StateGrows
    <2>1. [Next]_vars
      BY DEF DamageNext, dvars, LoseRow, docVars, Publishes
    <2>2. pc = "oksummary" /\ ledger' = ledger /\ state' = state
      BY <2>1, OnlyOkSummaryPublishes DEF OkSummary, bookVars
    <2>3. /\ committed["equity"] \subseteq state.sums["equity"]
          /\ committed["snapshots"] \subseteq committed["equity"]
          /\ ledger["equity"] \subseteq ledger["snapshots"]
          /\ state = mem.st /\ ledger["equity"] = state.sums["equity"]
          /\ \A f \in Charged : SameTotal(f, state.sums[f], ledger[f])
      BY <2>2 DEF LossInv, AttestedIsSummed, SumsGrow, SummedIsThere, SnapshotOfEach, Passed
    <2>4. \A f \in Charged : SameTotal(f, state'.sums[f], ledger'[f])
      BY <2>2, <2>3
    <2> QED
      BY <2>2, <2>3, <2>4
  <1> QED
    BY <1>1, <1>2, <1>3, PTL DEF DamageSpec, LossBlocksOk
=============================================================================
