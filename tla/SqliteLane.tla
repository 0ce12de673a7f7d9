----------------------------- MODULE SqliteLane -----------------------------
(****************************************************************************)
(* The SQLite lane: the writer quantbot/paper/sqlite_writer.py, which turns *)
(* the bars it has not seen into one ledger batch per transaction, and the  *)
(* verifier quantbot/paper/sqlite_verify.py, which reads the result.        *)
(*                                                                          *)
(* A batch's funding evidence is a sidecar file.  It is written as pending  *)
(* inside the transaction, rewritten as committed after it, and then the    *)
(* reference in the database is replaced through a second connection.  A    *)
(* writer may die, and either of the last two writes may fail, without      *)
(* changing the status of the run: the batch then stays caveated.           *)
(*                                                                          *)
(* Abstractions.  A transaction is atomic (SQLite, WAL) and the write lock  *)
(* is given back by a process that dies.  A writer that finds the lock      *)
(* taken returns LEDGER_BUSY, a step that changes nothing.  A batch is the  *)
(* bars after the watermark up to one of those published, since the engine  *)
(* may defer the last ones; the bars in Held are those that need a funding  *)
(* rate.  The funding source is the number of its revision, and its files   *)
(* are digested as a whole.  A sidecar is the fields a verdict depends      *)
(* on, and its digest in the database is the sidecar itself.                *)
(****************************************************************************)
EXTENDS Integers, Sequences, FiniteSets

CONSTANTS
    Writers,            \* the accounting commands: the timer's, an operator's
    NBars,              \* bound: how many bars are published
    Held,               \* the bars that need a funding rate
    MaxCrashes,         \* bound: process deaths
    MaxAborts,          \* bound: transactions a gate or a check ends
    MaxFinishFailures,  \* bound: failures after the commit
    MaxRevisions,       \* bound: revisions of the funding source
    MaxTogether         \* bound: all of these together

ASSUME HeldAssumption == Held \subseteq Nat

VARIABLES
    obs,        \* observation_log.json: the last bar published
    source,     \* the funding CSVs: their revision
    batches,    \* ledger_batches, committed ones
    wm,         \* ledger_state.watermark_bar_ts
    sidecar,    \* funding_source_snapshots/: at most one for each path
    lock,       \* who holds the write lock of the database
    pc, txn,    \* per writer: its step, and what it carries in memory
    reader,     \* the verifier: its step, its snapshot and what it has read
    verdict,    \* paper_verify_report.json
    faults      \* how much of each fault bound is spent

dbVars == <<batches, wm>>
vars   == <<obs, source, dbVars, sidecar, lock, pc, txn, reader, verdict, faults>>

NoFaults == [crash |-> 0, abort |-> 0, finish |-> 0, revision |-> 0]
MaxFaults ==
    [crash |-> MaxCrashes, abort |-> MaxAborts, finish |-> MaxFinishFailures,
     revision |-> MaxRevisions]
Together == faults.crash + faults.abort + faults.finish + faults.revision
Spend(kind) ==
    /\ faults[kind] < MaxFaults[kind] /\ Together < MaxTogether
    /\ faults' = [faults EXCEPT ![kind] = @ + 1]

-----------------------------------------------------------------------------
\* The funding windows of the bars after from up to to.
Windows(from, to) == {b \in Held : from < b /\ b <= to}
\* Mutant: the evidence starts one bar too early.
Pending_OffByOne(from, to, src) ==
    [state |-> "pending", batch |-> 0, from |-> from - 1, to |-> to, src |-> src]
\* The payload of a sidecar, as it is before the commit.
Pending(from, to, src) ==
    [state |-> "pending", batch |-> 0, from |-> from, to |-> to,
     src |-> IF Windows(from, to) = {} THEN 0 ELSE src]
\* The same payload rewritten from memory.
Committed(doc, b) == [doc EXCEPT !.state = "committed", !.batch = b]
\* Mutant: the name of a sidecar does not depend on what it attests.
Path_Fixed(doc) == {}
\* A sidecar is named by the digest of the source files of its windows.
Path(doc) == <<Windows(doc.from, doc.to), doc.src>>
\* os.replace.
Put(doc) == {d \in sidecar : Path(d) # Path(doc)} \cup {doc}

NoDoc == Pending(0, 0, 0)
NoTxn == [from |-> 0, to |-> 0, used |-> 0, batch |-> 0, doc |-> NoDoc]
NoReader == [at |-> "idle", view |-> << >>, seen |-> {}]

Init ==
    /\ obs = 0 /\ source = 0
    /\ batches = << >> /\ wm = 0
    /\ sidecar = {}
    /\ lock = {}
    /\ pc = [w \in Writers |-> "idle"]
    /\ txn = [w \in Writers |-> NoTxn]
    /\ reader = NoReader
    /\ verdict = [batch |-> 0, valid |-> FALSE, clean |-> FALSE]
    /\ faults = NoFaults

Goto(w, label) == pc' = [pc EXCEPT ![w] = label]
End(w) == Goto(w, "idle") /\ txn' = [txn EXCEPT ![w] = NoTxn]
\* rollback, close and return.
Release(w) == End(w) /\ lock' = lock \ {w}

(****************************************************************************)
(* run_sqlite_accounting.                                                   *)
(****************************************************************************)
\* Mutant: BEGIN, which takes no lock until the first write.
Begin_Deferred(w) ==
    /\ pc[w] = "idle"
    /\ Goto(w, "account")
    /\ UNCHANGED <<obs, source, dbVars, sidecar, lock, txn, reader, verdict,
                   faults>>
\* BEGIN IMMEDIATE.
Begin(w) ==
    /\ pc[w] = "idle" /\ lock = {}
    /\ lock' = {w}
    /\ Goto(w, "account")
    /\ UNCHANGED <<obs, source, dbVars, sidecar, txn, reader, verdict, faults>>
\* Mutant: the newest bar waits for the one after it.
NewBars_AllButLast == (wm + 1)..(obs - 1)
\* The published bars after the watermark.
NewBars == (wm + 1)..obs
\* The watermark is read inside the transaction, then the inputs, and the
\* engine runs in memory; a run without new bars ends here.  The engine can
\* defer the last bars of what is published.
Account(w) ==
    /\ pc[w] = "account"
    /\ \/ /\ \E to \in NewBars :
              txn' = [txn EXCEPT ![w] =
                        [NoTxn EXCEPT !.from = wm, !.to = to, !.used = source]]
          /\ Goto(w, "emit") /\ UNCHANGED lock
       \/ NewBars = {} /\ Release(w)
    /\ UNCHANGED <<obs, source, dbVars, sidecar, reader, verdict, faults>>
\* A gate refuses: freshness, divergence, funding coverage or git revision;
\* or every new bar waits for its next price, which leaves the run as early.
GateAborts(w) ==
    /\ pc[w] = "account"
    /\ Spend("abort")
    /\ Release(w)
    /\ UNCHANGED <<obs, source, dbVars, sidecar, reader, verdict>>
\* The pending sidecar, from the funding CSVs read again.
Emit(w) ==
    LET doc == Pending(txn[w].from, txn[w].to, source) IN
    /\ pc[w] = "emit"
    /\ sidecar' = Put(doc)
    /\ txn' = [txn EXCEPT ![w].doc = doc]
    /\ Goto(w, "commit")
    /\ UNCHANGED <<obs, source, dbVars, lock, reader, verdict, faults>>
\* The batch with its pending reference, the rows and the state, checked and
\* committed.
Commit(w) ==
    /\ pc[w] = "commit"
    /\ batches' = Append(batches,
                    [from |-> txn[w].from, to |-> txn[w].to,
                     used |-> txn[w].used, ref |-> txn[w].doc])
    /\ wm' = txn[w].to
    /\ txn' = [txn EXCEPT ![w].batch = Len(batches) + 1]
    /\ lock' = lock \ {w}
    /\ Goto(w, "finish")
    /\ UNCHANGED <<obs, source, sidecar, reader, verdict, faults>>
\* The sidecar cannot be written, or the batch does not reconcile.  Either
\* way what is in the directory stays there.
RollBack(w) ==
    /\ pc[w] \in {"emit", "commit"}
    /\ Spend("abort")
    /\ Release(w)
    /\ UNCHANGED <<obs, source, dbVars, sidecar, reader, verdict>>
\* The committed sidecar, with the lock already released.
Finish(w) ==
    /\ pc[w] = "finish"
    /\ sidecar' = Put(Committed(txn[w].doc, txn[w].batch))
    /\ Goto(w, "mark")
    /\ UNCHANGED <<obs, source, dbVars, lock, txn, reader, verdict, faults>>
\* Mutant: the latest batch is marked.
Mark_Latest(w) ==
    /\ pc[w] = "mark" /\ lock = {}
    /\ batches' = [batches EXCEPT ![Len(batches)].ref =
                    Committed(txn[w].doc, txn[w].batch)]
    /\ End(w)
    /\ UNCHANGED <<obs, source, wm, sidecar, lock, reader, verdict, faults>>
\* The reference of the batch, through a second connection.
Mark(w) ==
    /\ pc[w] = "mark" /\ lock = {}
    /\ batches' = [batches EXCEPT ![txn[w].batch].ref =
                    Committed(txn[w].doc, txn[w].batch)]
    /\ End(w)
    /\ UNCHANGED <<obs, source, wm, sidecar, lock, reader, verdict, faults>>
\* Either of them fails, the second for instance because the lock is taken
\* for too long; the run returns OK with a caveat.
FinishFails(w) ==
    /\ pc[w] \in {"finish", "mark"}
    /\ Spend("finish")
    /\ End(w)
    /\ UNCHANGED <<obs, source, dbVars, sidecar, lock, reader, verdict>>

Crash(w) ==
    /\ pc[w] # "idle"
    /\ Spend("crash")
    /\ Release(w)
    /\ UNCHANGED <<obs, source, dbVars, sidecar, reader, verdict>>

(****************************************************************************)
(* verify_and_publish.  The database is read through one pinned snapshot,   *)
(* the files as they are when it comes to them.                             *)
(****************************************************************************)
\* Mutant: a sidecar that is still pending is accepted.
PresentValid_Pending(view, seen) ==
    LET b == Len(view)  ref == view[b].ref IN
    /\ \A i \in 1..(b - 1) : Path(view[i].ref) # Path(ref)
    /\ seen = {ref}
    /\ ref.from = view[b].from /\ ref.to = view[b].to
\* _classify_db_linked_funding_source_snapshot.
PresentValid(view, seen) ==
    LET b == Len(view)  ref == view[b].ref IN
    /\ \A i \in 1..(b - 1) : Path(view[i].ref) # Path(ref)
    /\ seen = {ref}
    /\ ref.state = "committed" /\ ref.batch = b
    /\ ref.from = view[b].from /\ ref.to = view[b].to
\* _build_funding_clean_carry_batch_stamp, with the CSVs as they are now.  The
\* first and the last window of the payload cover those of the batch.
CleanCarry(view, seen) ==
    LET b == Len(view)  ref == view[b].ref IN
    /\ seen = {ref}
    /\ ref.state = "committed" /\ ref.batch = b
    /\ view[b].from # 0
    /\ {view[b].from + 1, view[b].to} \subseteq Windows(ref.from, ref.to)
    /\ ref.src = source

Pin ==
    /\ reader.at = "idle" /\ batches # << >>
    /\ reader' = [NoReader EXCEPT !.at = "sidecar", !.view = batches]
    /\ UNCHANGED <<obs, source, dbVars, sidecar, lock, pc, txn, verdict, faults>>
ReadSidecar ==
    LET ref == reader.view[Len(reader.view)].ref IN
    /\ reader.at = "sidecar"
    /\ reader' = [reader EXCEPT
                    !.at = "source",
                    !.seen = {d \in sidecar : Path(d) = Path(ref)}]
    /\ UNCHANGED <<obs, source, dbVars, sidecar, lock, pc, txn, verdict, faults>>
Publish ==
    /\ reader.at = "source"
    /\ verdict' = [batch |-> Len(reader.view),
                   valid |-> PresentValid(reader.view, reader.seen),
                   clean |-> CleanCarry(reader.view, reader.seen)]
    /\ reader' = NoReader
    /\ UNCHANGED <<obs, source, dbVars, sidecar, lock, pc, txn, faults>>

(****************************************************************************)
(* The observer and the refresh of the funding data.                        *)
(****************************************************************************)
PublishBar ==
    /\ obs < NBars
    /\ obs' = obs + 1
    /\ UNCHANGED <<source, dbVars, sidecar, lock, pc, txn, reader, verdict,
                   faults>>
ReviseSource ==
    /\ Spend("revision")
    /\ source' = source + 1
    /\ UNCHANGED <<obs, dbVars, sidecar, lock, pc, txn, reader, verdict>>

Step(w) ==
    \/ Begin(w) \/ Account(w) \/ Emit(w) \/ Commit(w) \/ Finish(w) \/ Mark(w)
Fault(w) == GateAborts(w) \/ RollBack(w) \/ FinishFails(w) \/ Crash(w)
Verify == Pin \/ ReadSidecar \/ Publish
Next ==
    \/ \E w \in Writers : Step(w) \/ Fault(w)
    \/ Verify
    \/ PublishBar \/ ReviseSource

Spec == Init /\ [][Next]_vars
\* A run goes on, and the timer starts another one.
FairSpec == Spec /\ \A w \in Writers : WF_vars(Step(w))

-----------------------------------------------------------------------------
Labels == {"idle", "account", "emit", "commit", "finish", "mark"}
Docs ==
    [state : {"pending", "committed"}, batch : Nat, from : Nat, to : Nat,
     src : Nat]
Memory == [from : Nat, to : Nat, used : Nat, batch : Nat, doc : Docs]
Batch == [from : Nat, to : Nat, used : Nat, ref : Docs]

\* The database, the sidecars, the writers and the verifier keep their shape.
TypeOK ==
    /\ obs \in Nat /\ source \in Nat
    /\ batches \in Seq(Batch) /\ wm \in Nat
    /\ sidecar \subseteq Docs
    /\ lock \subseteq Writers
    /\ pc \in [Writers -> Labels]
    /\ txn \in [Writers -> Memory]
    /\ reader \in [at : {"idle", "sidecar", "source"}, view : Seq(Batch),
                   seen : SUBSET Docs]
    /\ verdict \in [batch : Nat, valid : BOOLEAN, clean : BOOLEAN]
    /\ faults \in [DOMAIN NoFaults -> Nat]

\* Each batch starts where the one before ended, the watermark is where the
\* last one ended, and no batch is empty: whichever writers run at the same
\* time and wherever they die, a bar is accounted in one batch.
BatchesChain ==
    /\ \A i \in 1..Len(batches) :
         /\ batches[i].from = IF i = 1 THEN 0 ELSE batches[i - 1].to
         /\ batches[i].from < batches[i].to
    /\ wm = IF batches = << >> THEN 0 ELSE batches[Len(batches)].to

\* What the verifier asks of the sidecar of batch i.
Evidence(i) ==
    batches[i].ref.state = "committed" /\ batches[i].ref \in sidecar
Carries(i) == Windows(batches[i].from, batches[i].to) # {}

\* The evidence of a batch that carried a position, once complete, is never
\* overwritten: not by another writer, not by a run that is rolled back, and
\* not by a run that finishes late.
EvidenceKept ==
    \A i \in 1..Len(batches) :
        Carries(i) /\ Evidence(i) =>
            /\ batches'[i].ref = batches[i].ref
            /\ batches[i].ref \in sidecar'
EvidenceStays == [][EvidenceKept]_vars

\* A published verdict that the evidence of such a batch is valid can be
\* given again at any later time, although the verifier reads the database
\* and the sidecar at different times.
PublishedHolds ==
    verdict.valid =>
        /\ verdict.batch \in 1..Len(batches)
        /\ Carries(verdict.batch) => Evidence(verdict.batch)

Resting == \A w \in Writers : pc[w] = "idle"
\* A batch that carried a position and has no evidence is one whose run died
\* or failed after its commit: two runs that overlap spoil nothing.
GapsAreFaults ==
    Resting =>
        Cardinality({i \in 1..Len(batches) : Carries(i) /\ ~Evidence(i)})
            <= faults.crash + faults.finish

\* Nothing a run leaves behind keeps the next one from accounting every bar.
EveryBarAccounted == (obs = NBars) ~> (wm = NBars)

\* The audit of funding determinism: "Funding source data used for a batch
\* must be snapshotted or otherwise content-addressed."  If so, what a clean
\* batch was charged is what its evidence attests.
CleanIsCharged ==
    verdict.clean =>
        batches[verdict.batch].used = batches[verdict.batch].ref.src
=============================================================================
