--------------------------- MODULE ArtifactStore ---------------------------
(***************************************************************************)
(* Ingest into the content-addressed store, quantbot/artifacts/store.py.    *)
(*                                                                         *)
(* A store is a directory tree without a lock.  Any number of processes     *)
(* ingest into it, each one artifact: the files its manifest lists, in the  *)
(* order of the manifest, then the manifest itself.  A process may die      *)
(* between any two file operations; the command is then repeated.           *)
(*                                                                         *)
(* Abstractions.  An item is a file of the store, an object or a manifest,  *)
(* named by the digest of what it should hold; what it holds is "good",     *)
(* when it has that digest, or "bad".  A temporary file is known by the     *)
(* process that made it and the item it was made for.                       *)
(***************************************************************************)
EXTENDS Integers, Sequences, FiniteSets

CONSTANTS
    Processes,          \* the ingest commands
    Objects,            \* the file digests
    Artifacts,          \* the manifest digests
    Files,              \* Files[a]: the digests manifest a lists, in order
    Job,                \* Job[p]: the artifact process p ingests
    MaxCrashes,         \* bound: process deaths
    MaxSourceFaults,    \* bound: sources that changed or cannot be read
    MaxMiswrites,       \* bound: files that do not hold what was written
    MaxRots             \* bound: stored files that go bad later

ASSUME FilesAssumption == Files \in [Artifacts -> Seq(Objects)]
ASSUME JobAssumption == Job \in [Processes -> Artifacts]
ASSUME ItemsAssumption == Objects \cap Artifacts = {}

Items == Objects \cup Artifacts

VARIABLES
    store,      \* the content of each item's file
    temps,      \* the temporary files present
    pc, next,   \* per process: its step, and its place in its list
    data,       \* per process: what its temporary file holds on the disk
    rotted,     \* history: the items that went bad after they were written
    faults      \* how much of each fault bound is spent

vars == <<store, temps, pc, next, data, rotted, faults>>

\* Mutant: the manifest goes first.
Todo_ManifestFirst(p) == <<Job[p]>> \o Files[Job[p]]
\* What ingest installs: every file of the manifest, the manifest last.
Todo(p) == Append(Files[Job[p]], Job[p])
Item(p) == Todo(p)[next[p]]

NoFaults == [crash |-> 0, source |-> 0, miswrite |-> 0, rot |-> 0]
MaxFaults ==
    [crash |-> MaxCrashes, source |-> MaxSourceFaults,
     miswrite |-> MaxMiswrites, rot |-> MaxRots]
Spend(kind) ==
    /\ faults[kind] < MaxFaults[kind]
    /\ faults' = [faults EXCEPT ![kind] = @ + 1]

Init ==
    /\ store = [i \in Items |-> "absent"]
    /\ temps = {}
    /\ pc = [p \in Processes |-> "idle"]
    /\ next = [p \in Processes |-> 1]
    /\ data = [p \in Processes |-> "good"]
    /\ rotted = {}
    /\ faults = NoFaults

Goto(p, label) == pc' = [pc EXCEPT ![p] = label]
\* Mutant: one item too many.
Advance_TooFar(p) ==
    IF next[p] <= Len(Todo(p))
    THEN Goto(p, "check") /\ next' = [next EXCEPT ![p] = @ + 1]
    ELSE Goto(p, "idle") /\ UNCHANGED next
\* Go on with the item after this one, or return.
Advance(p) ==
    IF next[p] < Len(Todo(p))
    THEN Goto(p, "check") /\ next' = [next EXCEPT ![p] = @ + 1]
    ELSE Goto(p, "idle") /\ UNCHANGED next
\* ArtifactStoreError or OSError: the command fails.
Fail(p) == Goto(p, "idle") /\ UNCHANGED next

Start(p) ==
    /\ pc[p] = "idle"
    /\ Goto(p, "check")
    /\ next' = [next EXCEPT ![p] = 1]
    /\ UNCHANGED <<store, temps, data, rotted, faults>>

\* An item that is there is hashed: the same is idempotent, another is never
\* overwritten.
CheckExisting(p) ==
    /\ pc[p] = "check"
    /\ CASE store[Item(p)] = "absent" -> Goto(p, "write") /\ UNCHANGED next
         [] store[Item(p)] = "good"   -> Advance(p)
         [] OTHER                     -> Fail(p)
    /\ UNCHANGED <<store, temps, data, rotted, faults>>

\* Mutant: the temporary file has a fixed name.
WriteTemp_FixedName(p) ==
    /\ pc[p] = "write"
    /\ <<p, Item(p)>> \notin temps
    /\ Goto(p, "link")
    /\ temps' = temps \cup {<<p, Item(p)>>}
    /\ UNCHANGED <<store, next, data, rotted, faults>>
\* _write_atomic up to the link: a temporary file next to the final one, and
\* the digest of what was read from the source.
WriteTemp(p) ==
    /\ pc[p] = "write"
    /\ Goto(p, "link")
    /\ temps' = temps \cup {<<p, Item(p)>>}
    /\ \/ data' = [data EXCEPT ![p] = "good"] /\ UNCHANGED faults
       \/ data' = [data EXCEPT ![p] = "bad"] /\ Spend("miswrite")
    /\ UNCHANGED <<store, next, rotted>>
\* The source is missing, unreadable or not what the manifest says.
SourceFails(p) ==
    /\ pc[p] = "write"
    /\ Item(p) \in Objects
    /\ Spend("source")
    /\ Fail(p)
    /\ UNCHANGED <<store, temps, data, rotted>>

\* _install_new_file.  The link never replaces a file; when it finds one the
\* temporary file stays where it is.
\* Mutant: os.replace instead of os.link.
Link_Replace(p) ==
    /\ pc[p] = "link"
    /\ store' = [store EXCEPT ![Item(p)] = data[p]]
    /\ Goto(p, "unlink")
    /\ UNCHANGED <<temps, next, data, rotted, faults>>
Link(p) ==
    /\ pc[p] = "link"
    /\ IF store[Item(p)] = "absent"
       THEN /\ store' = [store EXCEPT ![Item(p)] = data[p]]
            /\ Goto(p, "unlink")
       ELSE Goto(p, "recheck") /\ UNCHANGED store
    /\ UNCHANGED <<temps, next, data, rotted, faults>>
RemoveTemp(p) ==
    /\ pc[p] = "unlink"
    /\ Goto(p, "readback")
    /\ temps' = temps \ {<<p, Item(p)>>}
    /\ UNCHANGED <<store, next, data, rotted, faults>>

\* Another process was first.
Recheck(p) ==
    /\ pc[p] = "recheck"
    /\ IF store[Item(p)] = "good" THEN Advance(p) ELSE Fail(p)
    /\ UNCHANGED <<store, temps, data, rotted, faults>>

\* The independent read-back.  A bad object is removed, in a second step; a
\* bad manifest is left.
ReadBack(p) ==
    /\ pc[p] = "readback"
    /\ CASE store[Item(p)] = "good" -> Advance(p)
         [] store[Item(p)] = "bad" /\ Item(p) \in Objects
              -> Goto(p, "discard") /\ UNCHANGED next
         [] OTHER -> Fail(p)
    /\ UNCHANGED <<store, temps, data, rotted, faults>>
Discard(p) ==
    /\ pc[p] = "discard"
    /\ store' = [store EXCEPT ![Item(p)] = "absent"]
    /\ Fail(p)
    /\ UNCHANGED <<temps, data, rotted, faults>>

\* The process dies.  An fsync of the directory that fails after the link
\* ends the command in the same way, with the file in place.
Crash(p) ==
    /\ pc[p] # "idle"
    /\ Spend("crash")
    /\ Goto(p, "idle")
    /\ \/ UNCHANGED temps
       \/ pc[p] = "write" /\ temps' = temps \cup {<<p, Item(p)>>}
    /\ UNCHANGED <<store, next, data, rotted>>
\* The medium: a stored file is not what it was.
Rot ==
    /\ Spend("rot")
    /\ \E i \in Items :
         /\ store[i] = "good"
         /\ store' = [store EXCEPT ![i] = "bad"]
         /\ rotted' = rotted \cup {i}
    /\ UNCHANGED <<temps, pc, next, data>>

Step(p) ==
    \/ Start(p) \/ CheckExisting(p) \/ WriteTemp(p) \/ Link(p) \/ RemoveTemp(p)
    \/ Recheck(p) \/ ReadBack(p) \/ Discard(p)
Next ==
    \/ \E p \in Processes : Step(p) \/ SourceFails(p) \/ Crash(p)
    \/ Rot

Spec == Init /\ [][Next]_vars
\* A process that runs goes on, and a command that failed is repeated.
FairSpec == Spec /\ \A p \in Processes : WF_vars(Step(p))

-----------------------------------------------------------------------------
Contents == {"absent", "good", "bad"}
Labels ==
    {"idle", "check", "write", "link", "unlink", "recheck", "readback", "discard"}

\* Every process is at a step of ingest, inside its list.
TypeOK ==
    /\ store \in [Items -> Contents]
    /\ temps \subseteq Processes \X Items
    /\ pc \in [Processes -> Labels]
    /\ next \in [Processes -> Nat \ {0}]
    /\ \A p \in Processes : next[p] <= Len(Todo(p))
    /\ data \in [Processes -> {"good", "bad"}]
    /\ rotted \subseteq Items
    /\ faults \in [DOMAIN NoFaults -> Nat]

\* All objects of artifact a are there, or were spoiled by the medium.
ObjectsKept(a) ==
    \A k \in 1..Len(Files[a]) :
        store[Files[a][k]] = "good" \/ Files[a][k] \in rotted
\* ingest: "The manifest is stored last so a stored manifest always implies
\* its objects were fully verified."  Whatever other processes install,
\* reject or discard at the same time, a manifest that is in the store has
\* all its objects there, except for those the medium has spoiled since.
ManifestImpliesObjects ==
    \A a \in Artifacts : store[a] # "absent" => ObjectsKept(a)

\* No step replaces or removes a good file.
GoodKept ==
    \A i \in Items \ rotted' : store[i] = "good" => store'[i] = "good"
\* A file that holds what its name says is neither replaced nor removed by
\* anyone, although a process that discards a bad object removes whatever is
\* at its path.
GoodStays == [][GoodKept]_vars

\* Retrying is idempotent and nothing a dead process leaves is in the way: an
\* ingest that is repeated completes, unless an item of its list stays bad.
RepeatCompletes ==
    \A p \in Processes :
        <>[](\A k \in 1..Len(Todo(p)) : store[Todo(p)[k]] # "bad")
            => <>(store[Job[p]] = "good")
=============================================================================
