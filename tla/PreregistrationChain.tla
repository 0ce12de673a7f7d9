------------------------ MODULE PreregistrationChain ------------------------
(***************************************************************************)
(* The seven pre-registration packets of the offline-edge validation,       *)
(* quantbot/experiment/offline_edge_real_validation.py, and the gates over  *)
(* them.  A packet is a JSON file with a sidecar that holds the digest of   *)
(* its bytes; it names the digests of the packets before it.  What a packet *)
(* fails on ends the run.                                                  *)
(*                                                                         *)
(* Abstractions.  A digest is the number of the write that made the bytes,  *)
(* and stands for the id that is declared next to it too.  A packet is       *)
(*   [digest, keys, loosened, authorizes, bound]                            *)
(* where keys is "whole", "missing" (a required one) or "forbidden" (one at   *)
(* some depth), loosened has the frozen declarations the packet departs     *)
(* from, authorizes says that one of the fields that must be false is not,  *)
(* and bound gives the digests it names.  A file is a set of at most one    *)
(* content: an absent one is empty.                                        *)
(***************************************************************************)
EXTENDS Integers, FiniteSets, Sequences

Chain == <<"contract", "manifest", "seal", "null", "testing", "simulation", "economic">>
Packets == {Chain[i] : i \in DOMAIN Chain}
Place(p) == CHOOSE i \in DOMAIN Chain : Chain[i] = p
Before(p) == {Chain[i] : i \in 1..(Place(p) - 1)}

\* The declarations a packet has to make as the code has them frozen.
Declarations ==
    [contract   |-> {"hash", "ceiling", "boundary"},
     manifest   |-> {"hash", "trials", "search", "parameters"},
     seal       |-> {"hash", "boundary", "splits"},
     null       |-> {"hash", "required_gate", "reference", "selection", "count"},
     testing    |-> {"hash", "required_gate", "family", "flags", "counts"},
     simulation |-> {"hash", "required_gate", "policy", "flags"},
     economic   |-> {"hash", "required_gate", "policy", "flags"}]

\* A packet departs from declarations it has to make, and from no others.
IsPacket(p, c) == c.digest \in Nat /\ c.loosened \subseteq Declarations[p]

-----------------------------------------------------------------------------
(* What every packet is read with.                                          *)

\* The sidecar is read after the JSON and has to be the digest of what was read.
SidecarMatches(c, sidecar) == sidecar = {c.digest}
KeysAreRight(c) == c.keys = "whole"
\* seen has the diagnostics of the packets read so far.
Names(c, seen, p) == c.bound[p] = seen[p].digest
Upholds(c, declarations) == c.loosened \cap declarations = {}

\* The commit binding names a commit, and git must show the contract in it.
BlobAt(commits, n) == {commits[i] : i \in DOMAIN commits \cap {n}}
BindsCommit(c, binding, commits) ==
    /\ binding.digest = c.digest
    /\ BlobAt(commits, binding.commit) = {c.digest}

-----------------------------------------------------------------------------
(* The contract.                                                            *)

ContractIsWhole(c, sidecar) == SidecarMatches(c, sidecar) /\ KeysAreRight(c)
ContractIsBounded(c) == Upholds(c, {"ceiling", "boundary"}) /\ ~c.authorizes
\* The binding is optional; without it the contract is read and its gate blocks.
ContractBindingHolds(c, binding, commits) ==
    \A b \in binding : BindsCommit(c, b, commits)
ContractDiagnostics(c, binding) ==
    [digest |-> c.digest, hash |-> Upholds(c, {"hash"}), committed |-> binding # {}]
ContractPacketGate(d) ==
    IF ~d.committed THEN "blocked_by_commit_binding"
    ELSE IF ~d.hash THEN "incomplete" ELSE "passed"
ContractAccepted(c, sidecar, binding, commits) ==
    ContractIsWhole(c, sidecar) /\ ContractIsBounded(c) /\ ContractBindingHolds(c, binding, commits)
ContractSeen(c, binding) ==
    [digest |-> c.digest, gate |-> ContractPacketGate(ContractDiagnostics(c, binding))]

-----------------------------------------------------------------------------
(* The trial manifest.                                                      *)

ManifestIsWhole(c, sidecar) ==
    SidecarMatches(c, sidecar) /\ KeysAreRight(c) /\ Upholds(c, {"hash"})
ManifestBinds(c, seen) == Names(c, seen, "contract") /\ seen["contract"].gate = "passed"
ManifestIsFrozen(c) == Upholds(c, {"trials", "search", "parameters"}) /\ ~c.authorizes
ManifestDiagnostics(c) == [digest |-> c.digest, frozen |-> c.loosened = {}]
ManifestGate(d) == IF d.frozen THEN "passed" ELSE "incomplete"
ManifestSeen(c) == [digest |-> c.digest, gate |-> ManifestGate(ManifestDiagnostics(c))]
ManifestAccepted(c, sidecar, seen) ==
    ManifestIsWhole(c, sidecar) /\ ManifestBinds(c, seen) /\ ManifestIsFrozen(c)

-----------------------------------------------------------------------------
(* The out-of-sample seal.                                                  *)

SealIsWhole(c, sidecar) ==
    SidecarMatches(c, sidecar) /\ KeysAreRight(c) /\ Upholds(c, {"hash"})
SealBinds(c, seen) ==
    /\ Names(c, seen, "contract")
    /\ seen["manifest"].gate = "passed"
    /\ Names(c, seen, "manifest")
SealIsFrozen(c) == Upholds(c, {"boundary", "splits"}) /\ ~c.authorizes
SealDiagnostics(c) == [digest |-> c.digest, frozen |-> c.loosened = {}]
SealGate(d) == IF d.frozen THEN "passed" ELSE "incomplete"
SealSeen(c) == [digest |-> c.digest, gate |-> SealGate(SealDiagnostics(c))]
SealAccepted(c, sidecar, seen) ==
    SealIsWhole(c, sidecar) /\ SealBinds(c, seen) /\ SealIsFrozen(c)

-----------------------------------------------------------------------------
(* The null benchmark; from here on a packet also names the status it        *)
(* requires of the gate before it.                                         *)

NullIsWhole(c, sidecar) ==
    SidecarMatches(c, sidecar) /\ KeysAreRight(c) /\ Upholds(c, {"hash"})
\* Mutant: the manifest is taken to be the one the seal names.
NullBindsTheSeal(c, seen) ==
    /\ Names(c, seen, "contract")
    /\ seen["seal"].gate = "passed" /\ Upholds(c, {"required_gate"})
    /\ Names(c, seen, "seal")
NullBinds(c, seen) ==
    /\ Names(c, seen, "contract") /\ Names(c, seen, "manifest")
    /\ seen["seal"].gate = "passed" /\ Upholds(c, {"required_gate"})
    /\ Names(c, seen, "seal")
NullIsFrozen(c) == Upholds(c, {"reference", "selection", "count"}) /\ ~c.authorizes
NullDiagnostics(c) == [digest |-> c.digest, frozen |-> c.loosened = {}]
NullGate(d) == IF d.frozen THEN "passed" ELSE "incomplete"
NullSeen(c) == [digest |-> c.digest, gate |-> NullGate(NullDiagnostics(c))]
NullAccepted(c, sidecar, seen) ==
    NullIsWhole(c, sidecar) /\ NullBinds(c, seen) /\ NullIsFrozen(c)

-----------------------------------------------------------------------------
(* The multiple-testing control.                                            *)

TestingIsWhole(c, sidecar) ==
    SidecarMatches(c, sidecar) /\ KeysAreRight(c) /\ Upholds(c, {"hash"})
TestingBinds(c, seen) ==
    /\ \A p \in {"contract", "manifest", "seal"} : Names(c, seen, p)
    /\ seen["null"].gate = "passed" /\ Upholds(c, {"required_gate"})
    /\ Names(c, seen, "null")
TestingIsFrozen(c) == Upholds(c, {"family", "flags", "counts"}) /\ ~c.authorizes
TestingDiagnostics(c) == [digest |-> c.digest, frozen |-> c.loosened = {}]
TestingGate(d) == IF d.frozen THEN "passed" ELSE "incomplete"
TestingSeen(c) == [digest |-> c.digest, gate |-> TestingGate(TestingDiagnostics(c))]
TestingAccepted(c, sidecar, seen) ==
    TestingIsWhole(c, sidecar) /\ TestingBinds(c, seen) /\ TestingIsFrozen(c)

-----------------------------------------------------------------------------
(* The simulation policy.                                                   *)

SimulationIsWhole(c, sidecar) ==
    SidecarMatches(c, sidecar) /\ KeysAreRight(c) /\ Upholds(c, {"hash"})
SimulationBinds(c, seen) ==
    /\ \A p \in {"contract", "manifest", "seal", "null"} : Names(c, seen, p)
    /\ seen["testing"].gate = "passed" /\ Upholds(c, {"required_gate"})
    /\ Names(c, seen, "testing")
SimulationIsFrozen(c) == Upholds(c, {"policy", "flags"}) /\ ~c.authorizes
SimulationDiagnostics(c) == [digest |-> c.digest, frozen |-> c.loosened = {}]
SimulationGate(d) == IF d.frozen THEN "passed" ELSE "incomplete"
SimulationSeen(c) == [digest |-> c.digest, gate |-> SimulationGate(SimulationDiagnostics(c))]
SimulationAccepted(c, sidecar, seen) ==
    SimulationIsWhole(c, sidecar) /\ SimulationBinds(c, seen) /\ SimulationIsFrozen(c)

-----------------------------------------------------------------------------
(* The economic accounting policy.                                          *)

EconomicIsWhole(c, sidecar) ==
    SidecarMatches(c, sidecar) /\ KeysAreRight(c) /\ Upholds(c, {"hash"})
EconomicBinds(c, seen) ==
    /\ \A p \in {"contract", "manifest", "seal", "null", "testing"} : Names(c, seen, p)
    /\ seen["simulation"].gate = "passed" /\ Upholds(c, {"required_gate"})
    /\ Names(c, seen, "simulation")
EconomicIsFrozen(c) == Upholds(c, {"policy", "flags"}) /\ ~c.authorizes
EconomicDiagnostics(c) == [digest |-> c.digest, frozen |-> c.loosened = {}]
EconomicGate(d) == IF d.frozen THEN "passed" ELSE "incomplete"
EconomicSeen(c) == [digest |-> c.digest, gate |-> EconomicGate(EconomicDiagnostics(c))]
EconomicAccepted(c, sidecar, seen) ==
    EconomicIsWhole(c, sidecar) /\ EconomicBinds(c, seen) /\ EconomicIsFrozen(c)

-----------------------------------------------------------------------------
(* The packet of each name, and its absence: the simulation diagnostics      *)
(* carry no gate at all when the packet is not given.                       *)

Absent == [digest |-> 0, gate |-> "not_loaded"]
NullAbsent == Absent
TestingAbsent == Absent
SimulationAbsent == [digest |-> 0, gate |-> "missing"]
EconomicPolicyAbsent == [digest |-> 0, gate |-> "not_loaded"]
\* The older record, with that of the policy under it.
EconomicAbsent == EconomicPolicyAbsent
AbsentOf(p) ==
    CASE p \in {"contract", "manifest", "seal"} -> Absent
      [] p = "null"       -> NullAbsent
      [] p = "testing"    -> TestingAbsent
      [] p = "simulation" -> SimulationAbsent
      [] p = "economic"   -> EconomicAbsent

Accepted(p, c, sidecar, seen, binding, commits) ==
    CASE p = "contract"   -> ContractAccepted(c, sidecar, binding, commits)
      [] p = "manifest"   -> ManifestAccepted(c, sidecar, seen)
      [] p = "seal"       -> SealAccepted(c, sidecar, seen)
      [] p = "null"       -> NullAccepted(c, sidecar, seen)
      [] p = "testing"    -> TestingAccepted(c, sidecar, seen)
      [] p = "simulation" -> SimulationAccepted(c, sidecar, seen)
      [] p = "economic"   -> EconomicAccepted(c, sidecar, seen)
SeenOf(p, c, binding) ==
    CASE p = "contract"   -> ContractSeen(c, binding)
      [] p = "manifest"   -> ManifestSeen(c)
      [] p = "seal"       -> SealSeen(c)
      [] p = "null"       -> NullSeen(c)
      [] p = "testing"    -> TestingSeen(c)
      [] p = "simulation" -> SimulationSeen(c)
      [] p = "economic"   -> EconomicSeen(c)

-----------------------------------------------------------------------------
(* The closure is a projection of the seven gates.                          *)

MissingGates(seen) == {p \in Packets : seen[p].gate = "missing"}
FailedGates(seen) == {p \in Packets : seen[p].gate \notin {"missing", "passed"}}
Closure(seen) ==
    [missing |-> MissingGates(seen), failed |-> FailedGates(seen),
     all |-> MissingGates(seen) = {} /\ FailedGates(seen) = {}]
\* Mutant: a gate that is there counts as one that has passed.
ClosureGateOfThePresent(closure) == IF closure.missing # {} THEN "missing_gates" ELSE "passed"
ClosureGate(closure) ==
    IF closure.missing # {} THEN "missing_gates"
    ELSE IF closure.failed # {} THEN "failed_gates"
    ELSE "passed"
=============================================================================
