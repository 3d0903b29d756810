-------------------------------- MODULE Refreeze --------------------------------
(***************************************************************************)
(* The deploy-day re-freeze (src/scripts/refreeze_spender.py) over the     *)
(* files it rewrites, and the coherence gate (src/scripts/                 *)
(* check_coherence.py) that its suites run.  A run may stop between any    *)
(* two of its steps: a suite is red, the RPC fails, a subprocess raises,   *)
(* somebody kills it.  It may also stop inside a write, which leaves the   *)
(* file truncated.  Then the operator runs it again.                       *)
(*                                                                         *)
(* A digest is represented by the spender it was computed for.  The        *)
(* witness does not depend on the spender and never changes.               *)
(***************************************************************************)
EXTENDS Filter, SequencesExt

CONSTANTS
  Digests, Spenders,   \* the files with a digest leg, with a spender leg: SPEC's order
  Pinned,              \* the files with a sentinel leg
  Source,              \* client/order.py
  Generated,           \* the SDK's constants, generated from Source
  Registry, Package, Changelog,  \* deployments.json, package.json, CHANGELOG.md
  Addresses, Placeholder,        \* 0x1111...1111 is an address like others
  Null,                \* the registry's null
  Genuine,             \* the addresses that pass verify_deployment
  MaxVersion           \* bound on the SDK's minor version

LegFiles == ToSet(Digests) \union ToSet(Spenders)
Files == LegFiles \union Pinned \union {Registry, Package, Changelog}

ASSUME RefreezeAssumption ==
  /\ \A list \in {Digests, Spenders, Generated} : list \in Seq(ToSet(list))
  /\ Digests # <<>> /\ Spenders # <<>>
  /\ ToSet(Generated) \subseteq Pinned \ {Source} /\ Source \in Pinned
  /\ (ToSet(Generated) \union {Source}) \intersect LegFiles = {}
  /\ {Registry, Package, Changelog} \intersect (LegFiles \union Pinned) = {}
  /\ Registry # Package /\ Registry # Changelog /\ Package # Changelog
  /\ Placeholder \in Addresses /\ Null \notin Addresses
  /\ Genuine \subseteq Addresses \ {Placeholder} /\ MaxVersion \in Nat

VARIABLES
  tree,      \* the content of each file: its legs, or its address, version, entries
  pc,        \* "idle", "planned", "verified", "writing" or "gated"
  run,       \* the run's target, mode, new version and the files left to write
  outcome,   \* how the last run ended
  asserted   \* history: what the operator vouched for with --i-verified-manually

vars == <<tree, pc, run, outcome, asserted>>

Modes == {"rpc", "offline", "manual", "check"}
KindsOf(f) ==
  (IF f \in ToSet(Digests) THEN {"digest"} ELSE {}) \union
  (IF f \in ToSet(Spenders) THEN {"spender"} ELSE {}) \union
  (IF f \in Pinned THEN {"sentinel"} ELSE {})
Torn == [k \in {} |-> Null]   \* opened for writing, not yet written
NoRun == [target |-> Placeholder, mode |-> "check", version |-> 0, todo |-> <<>>]
-------------------------------------------------------------------------------
(* The coherence gate *)

SpecOf(kind) == {f \in Files : kind \in KindsOf(f)}

\* extract: every anchor of SPEC is found in its file.
Extracted == \A kind \in {"digest", "spender", "sentinel"} :
               \A f \in SpecOf(kind) : kind \in DOMAIN tree[f]

Uniform(kind) == \A f, g \in SpecOf(kind) : tree[f][kind] = tree[g][kind]
Frozen == tree[Spenders[1]].spender
Referee == tree[Digests[1]].digest = Frozen
DeploymentsAgree ==
  tree[Registry] # Torn /\ tree[Registry].address \in {Null, Frozen}

Coherent ==
  /\ Extracted
  /\ \A kind \in {"digest", "spender", "sentinel"} : Uniform(kind)
  /\ tree[Source].sentinel = Placeholder
  /\ Referee
  /\ DeploymentsAgree
-------------------------------------------------------------------------------
(* main, up to the first write *)

Release(target) == target # Placeholder

\* planned_rewrites and the grouping by file: digests come first.
Planned(target) ==
  LET digests == Keep(Digests, {f \in ToSet(Digests) : tree[f].digest # target})
  IN  digests \o Keep(Spenders, {f \in ToSet(Spenders) \ ToSet(digests) :
                                  tree[f].spender # target})

DeployDayUnregistered(target) ==                                   \* mutant
  Generated \o (IF Release(target) THEN <<Package, Changelog>> ELSE <<>>)
DeployDay(target) ==
  Generated \o <<Registry>> \o
  (IF Release(target) THEN <<Package, Changelog>> ELSE <<>>)

SameVersion == tree[Package].version                               \* mutant
BumpedMinor == tree[Package].version + 1

\* An anchor is missing, or a release needs a version and finds none.
BeginUnreadable(target) ==
  /\ pc = "idle"
  /\ \/ ~Extracted
     \/ Extracted /\ Planned(target) # <<>> /\ Release(target) /\ tree[Package] = Torn
  /\ outcome' = "aborted" /\ run' = NoRun
  /\ UNCHANGED <<tree, pc, asserted>>

BeginNothing(target) ==
  /\ pc = "idle" /\ Extracted /\ Planned(target) = <<>>
  /\ outcome' = "nothing to change" /\ run' = NoRun
  /\ UNCHANGED <<tree, pc, asserted>>

Begin(target, mode) ==
  /\ pc = "idle" /\ Extracted /\ Planned(target) # <<>>
  /\ Release(target) => tree[Package] # Torn /\ tree[Package].version < MaxVersion
  /\ pc' = "planned" /\ outcome' = "running"
  /\ run' = [target |-> target, mode |-> mode,
             version |-> IF Release(target) THEN BumpedMinor ELSE 0,
             todo |-> Planned(target) \o DeployDay(target)]
  /\ UNCHANGED <<tree, asserted>>

\* --check prints the plan and writes nothing.
Report ==
  /\ pc = "planned" /\ run.mode = "check"
  /\ pc' = "idle" /\ outcome' = "reported" /\ run' = NoRun
  /\ UNCHANGED <<tree, asserted>>

\* The placeholder needs no verification; without an RPC nothing else is written.
VerifiedAnyCode == run.mode = "rpc" \/ ~Release(run.target)        \* mutant
VerifiedOnChain == (run.mode = "rpc" /\ run.target \in Genuine) \/ ~Release(run.target)

Verify ==
  /\ pc = "planned" /\ run.mode # "check"
  /\ \/ VerifiedOnChain /\ UNCHANGED asserted
     \/ run.mode = "manual" /\ Release(run.target) /\ asserted' = asserted \union {run.target}
  /\ pc' = "verified"
  /\ UNCHANGED <<tree, run, outcome>>

PreflightFailsOpen ==                                              \* mutant
  /\ pc = "verified" /\ Extracted
  /\ pc' = "writing"
  /\ UNCHANGED <<tree, run, outcome, asserted>>

\* The relay's suite runs the gate.
Preflight ==
  /\ pc = "verified" /\ Coherent
  /\ pc' = "writing"
  /\ UNCHANGED <<tree, run, outcome, asserted>>
-------------------------------------------------------------------------------
(* The writes: legs file by file, constants, registry, version, changelog *)

RewrittenVectorOnly(legs) == [k \in DOMAIN legs \ {"sentinel"} |-> run.target]  \* mutant
RewrittenEverywhere(legs) == [k \in DOMAIN legs |-> run.target]    \* mutant
Rewritten(legs) == [k \in DOMAIN legs |-> IF k = "sentinel" THEN legs[k] ELSE run.target]

Entry == [version |-> run.version, address |-> run.target, manual |-> run.mode = "manual"]

\* gen_constants.py copies the sentinel of Source.
Regenerated == [sentinel |-> tree[Source].sentinel]

Written(f) ==
  CASE f \in LegFiles -> Rewritten(tree[f])
    [] f \in ToSet(Generated) -> Regenerated
    [] f = Registry -> [address |-> IF Release(run.target) THEN run.target ELSE Null]
    [] f = Package -> [version |-> run.version]
    [] f = Changelog -> [entries |-> <<Entry>> \o tree[f].entries]

\* prepend_changelog raises when there is no section to prepend to (Stop).
Write ==
  /\ pc = "writing" /\ run.todo # <<>>
  /\ LET f == Head(run.todo) IN
       /\ f = Changelog => tree[f] # Torn
       /\ tree' = [tree EXCEPT ![f] = Written(f)]
  /\ run' = [run EXCEPT !.todo = Tail(@)]
  /\ UNCHANGED <<pc, outcome, asserted>>

Tear ==
  /\ pc = "writing" /\ run.todo # <<>>
  /\ tree' = [tree EXCEPT ![Head(run.todo)] = Torn]
  /\ pc' = "idle" /\ outcome' = "aborted" /\ run' = NoRun
  /\ UNCHANGED asserted

RunCoherence ==
  /\ pc = "writing" /\ run.todo = <<>> /\ Coherent
  /\ pc' = "gated"
  /\ UNCHANGED <<tree, run, outcome, asserted>>

Complete ==
  /\ pc = "gated" /\ Coherent
  /\ pc' = "idle" /\ outcome' = "complete"
  /\ UNCHANGED <<tree, run, asserted>>

\* Any refusal, red suite, failed call or kill; the tree stays as it is.
Stop ==
  /\ pc # "idle"
  /\ pc' = "idle" /\ outcome' = "aborted" /\ run' = NoRun
  /\ UNCHANGED <<tree, asserted>>

Init ==
  /\ tree = [f \in Files |->
       CASE f = Registry -> [address |-> Null]
         [] f = Package -> [version |-> 0]
         [] f = Changelog -> [entries |-> <<>>]
         [] OTHER -> [k \in KindsOf(f) |-> Placeholder]]
  /\ pc = "idle" /\ outcome = "none" /\ asserted = {}
  /\ run = NoRun

Next ==
  \/ \E target \in Addresses :
       \/ BeginUnreadable(target) \/ BeginNothing(target)
       \/ \E mode \in Modes : Begin(target, mode)
  \/ Report \/ Verify \/ Preflight
  \/ Write \/ Tear \/ RunCoherence \/ Complete \/ Stop

Spec == Init /\ [][Next]_vars
-------------------------------------------------------------------------------
(* Properties *)

\* Types: a file holds its own kinds of legs, or nothing when it was torn, and no file
\* a run does not write is ever torn.
TypeOK ==
  /\ DOMAIN tree = Files
  /\ \A f \in LegFiles \union Pinned :
       /\ tree[f] = Torn \/ tree[f] \in [KindsOf(f) -> Addresses]
       /\ f \notin LegFiles \union ToSet(Generated) => tree[f] # Torn
  /\ tree[Registry] = Torn \/ tree[Registry].address \in Addresses \union {Null}
  /\ tree[Package] = Torn \/ tree[Package].version \in 0 .. MaxVersion
  /\ pc \in {"idle", "planned", "verified", "writing", "gated"}
  /\ run.target \in Addresses /\ run.mode \in Modes /\ run.version \in 0 .. MaxVersion
  /\ run.todo \in Seq(Files) /\ asserted \subseteq Addresses

\* No leg and no registry slot ever names an address that was neither verified on
\* chain nor vouched for, at whatever step a run stopped (the sentinel needs neither),
\* and the changelog says which of the two it was: it never claims a verification by
\* the script that did not happen.
FrozenIsProven ==
  LET proven == Genuine \union asserted \union {Placeholder}
  IN  /\ \A f \in LegFiles : \A k \in DOMAIN tree[f] : tree[f][k] \in proven
      /\ tree[Registry] # Torn => tree[Registry].address \in proven \union {Null}
      /\ tree[Changelog] # Torn =>
           \A i \in DOMAIN tree[Changelog].entries :
             LET e == tree[Changelog].entries[i]
             IN  e.address \in IF e.manual THEN asserted ELSE Genuine

\* The placebo sentinels stay 0x1111...1111 in every state, also in the files whose
\* vector leg moves away from it and back.
SentinelNeverMoves ==
  \A f \in Pinned : tree[f] # Torn => tree[f].sentinel = Placeholder

\* "Never re-freeze a red tree", for what it is good for: however many runs stopped, and
\* wherever, the legs and the registry never mix more than two spenders, the one of the
\* last green tree and one target.  (Nothing restores such a tree, and it is red: the
\* runs that follow must not add a third.)
MixesTwoAtMost ==
  \E a, b \in Addresses :
    /\ \A f \in LegFiles : \A k \in DOMAIN tree[f] \ {"sentinel"} : tree[f][k] \in {a, b}
    /\ tree[Registry] # Torn => tree[Registry].address \in {Null, a, b}

\* "RE-FREEZE COMPLETE": the registry names the target (null for the placeholder), and
\* a release is the version of the package and the newest entry of the changelog.
CompleteIsReleased ==
  outcome = "complete" =>
    /\ Frozen = run.target
    /\ tree[Registry].address = IF Release(run.target) THEN run.target ELSE Null
    /\ Release(run.target) =>
         /\ tree[Package].version = run.version
         /\ tree[Changelog].entries[1].address = run.target
         /\ tree[Changelog].entries[1].version = run.version

\* Releases are monotonic: however many runs stopped half way, no two entries of the
\* changelog have one version, and newer entries have newer ones.
ReleasesGrow ==
  tree[Changelog] # Torn =>
    \A i, j \in DOMAIN tree[Changelog].entries :
      i < j => tree[Changelog].entries[i].version > tree[Changelog].entries[j].version

\* What the script's header says: it leaves no tree the gates do not prove.  A run that
\* ends normally, after rewriting or because all was done, leaves a green tree.
NormalEndIsProven == outcome \in {"complete", "nothing to change"} => Coherent
===============================================================================
