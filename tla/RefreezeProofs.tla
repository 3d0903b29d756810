----------------------------- MODULE RefreezeProofs -----------------------------
(***************************************************************************)
(* Theorems about the re-freeze, for any lists of files and any addresses. *)
(* The inductive invariant is about a run that may stop anywhere: each     *)
(* file it plans is either still to be written or already as it should be, *)
(* the changelog comes last, and no version in it is newer than the        *)
(* package's, whichever runs stopped before.                               *)
(***************************************************************************)
EXTENDS Refreeze, FoldLemmas

Writable == LegFiles \union ToSet(Generated) \union {Registry, Package, Changelog}
EntryType == [version : 0 .. MaxVersion, address : Addresses, manual : BOOLEAN]
RunType == [target : Addresses, mode : Modes, version : 0 .. MaxVersion, todo : Seq(Writable)]

Typed ==
  /\ tree = [f \in Files |-> tree[f]]
  /\ \A f \in LegFiles \union Pinned :
       /\ tree[f] = Torn \/ tree[f] \in [KindsOf(f) -> Addresses]
       /\ f \notin LegFiles \union ToSet(Generated) => tree[f] # Torn
  /\ tree[Registry] = Torn \/ tree[Registry] \in [address : Addresses \union {Null}]
  /\ tree[Package] = Torn \/ tree[Package] \in [version : 0 .. MaxVersion]
  /\ tree[Changelog] = Torn \/ tree[Changelog] \in [entries : Seq(EntryType)]
  /\ pc \in {"idle", "planned", "verified", "writing", "gated"}
  /\ run \in RunType /\ asserted \subseteq Addresses

(* A run that may write has its target verified, or vouched for and says so. *)
Vouched ==
  pc \in {"verified", "writing", "gated"} /\ Release(run.target) =>
    run.target \in IF run.mode = "manual" THEN asserted ELSE Genuine

(* What a run has left to do, and what it has done already: while it runs, and after *)
(* it was complete.                                                                  *)
Left == {run.todo[i] : i \in 1 .. Len(run.todo)}
Current == pc # "idle" \/ outcome = "complete"
Done ==
  /\ \A f \in LegFiles :
       /\ tree[f] # Torn
       /\ f \notin Left => \A k \in KindsOf(f) \ {"sentinel"} : tree[f][k] = run.target
  /\ Registry \notin Left =>
       tree[Registry] = [address |-> IF Release(run.target) THEN run.target ELSE Null]
  /\ Release(run.target) =>
       /\ Package \notin Left => tree[Package] = [version |-> run.version]
       /\ Changelog \notin Left =>
            tree[Changelog] # Torn /\ Len(tree[Changelog].entries) > 0
              /\ tree[Changelog].entries[1] = Entry
Ahead ==
  /\ Package \in Left => tree[Package] # Torn /\ tree[Package].version <= run.version
  /\ Changelog \in Left /\ tree[Changelog] # Torn =>
       \A i \in 1 .. Len(tree[Changelog].entries) :
         tree[Changelog].entries[i].version < run.version
  /\ \A i \in 1 .. Len(run.todo) :
       run.todo[i] = Changelog => i = Len(run.todo) /\ Release(run.target)
Progress ==
  /\ Current => Done /\ Ahead
  /\ pc = "gated" \/ outcome = "complete" => run.todo = <<>>
  /\ pc # "idle" => outcome # "complete"

(* No entry of the changelog is newer than the package. *)
Versions ==
  /\ tree[Package] # Torn /\ tree[Changelog] # Torn =>
       \A i \in 1 .. Len(tree[Changelog].entries) :
         tree[Changelog].entries[i].version <= tree[Package].version
  /\ ReleasesGrow

RefreezeInv ==
  /\ Typed /\ Vouched /\ Progress /\ Versions /\ FrozenIsProven /\ SentinelNeverMoves

(* A file that holds anything is not torn. *)
LEMMA NotTorn ==
  ASSUME NEW K, NEW g, DOMAIN g = K, K # {}
  PROVE  g # Torn
  <1>1. DOMAIN Torn = {}
    BY DEF Torn
  <1>. QED
    BY <1>1

(* Which file holds which kinds, and which lists are apart. *)
LEMMA Apart ==
  /\ \A f \in LegFiles :
       /\ f \in Files /\ f \in Writable /\ f \notin ToSet(Generated) /\ f # Source
       /\ f # Registry /\ f # Package /\ f # Changelog
       /\ KindsOf(f) # {} /\ KindsOf(f) \ {"sentinel"} \subseteq {"digest", "spender"}
       /\ KindsOf(f) \ {"sentinel"} # {}
       /\ "digest" \in KindsOf(f) <=> f \in ToSet(Digests)
       /\ "spender" \in KindsOf(f) <=> f \in ToSet(Spenders)
  /\ \A f \in Pinned :
       /\ f \in Files /\ "sentinel" \in KindsOf(f) /\ f # Registry /\ f # Package /\ f # Changelog
  /\ \A f \in ToSet(Generated) : f \in Pinned /\ f # Source /\ KindsOf(f) = {"sentinel"}
  /\ Source \in Pinned /\ Source \notin LegFiles \union ToSet(Generated)
  /\ \A f \in {Registry, Package, Changelog} : f \in Files /\ f \in Writable
  /\ Registry # Package /\ Registry # Changelog /\ Package # Changelog
  /\ Writable \subseteq Files
  <1>1. \A f \in LegFiles : f \in ToSet(Digests) \/ f \in ToSet(Spenders)
    BY DEF LegFiles
  <1>2. \A f \in LegFiles : f \notin ToSet(Generated) /\ f # Source
    BY RefreezeAssumption
  <1>3. \A f \in LegFiles \union Pinned : f # Registry /\ f # Package /\ f # Changelog
    BY RefreezeAssumption
  <1>4. Source \in Pinned /\ \A f \in ToSet(Generated) : f \in Pinned /\ f # Source
    BY RefreezeAssumption
  <1>5. \A f \in ToSet(Generated) : f \notin ToSet(Digests) /\ f \notin ToSet(Spenders)
    BY RefreezeAssumption DEF LegFiles
  <1>6. Registry # Package /\ Registry # Changelog /\ Package # Changelog
    BY RefreezeAssumption
  <1>. QED
    BY <1>1, <1>2, <1>3, <1>4, <1>5, <1>6 DEF Files, Writable, KindsOf

(* The placeholder is an address, and the registry's null is none. *)
LEMMA AddressFacts ==
  /\ Placeholder \in Addresses /\ Null \notin Addresses /\ Genuine \subseteq Addresses
  /\ Placeholder \notin Genuine /\ MaxVersion \in Nat /\ NoRun \in RunType
  <1>1. Placeholder \in Addresses /\ Null \notin Addresses /\ MaxVersion \in Nat
    BY RefreezeAssumption
  <1>2. Genuine \subseteq Addresses /\ Placeholder \notin Genuine
    BY RefreezeAssumption
  <1>3. NoRun \in RunType
    BY <1>1 DEF NoRun, RunType, Modes
  <1>. QED
    BY <1>1, <1>2, <1>3

(* A list that the project gives is a sequence of its elements. *)
LEMMA Lists ==
  /\ Digests \in Seq(LegFiles) /\ Spenders \in Seq(LegFiles)
  /\ Digests \in Seq(ToSet(Digests)) /\ Spenders \in Seq(ToSet(Spenders))
  /\ Generated \in Seq(ToSet(Generated))
  /\ \A i \in 1 .. Len(Digests) : Digests[i] \in ToSet(Digests)
  /\ \A f \in ToSet(Digests) : \E i \in 1 .. Len(Digests) : Digests[i] = f
  /\ \A f \in ToSet(Spenders) : \E i \in 1 .. Len(Spenders) : Spenders[i] = f
  /\ \A i \in 1 .. Len(Generated) : Generated[i] \in ToSet(Generated)
  /\ Digests[1] \in ToSet(Digests) /\ Spenders[1] \in ToSet(Spenders)
  <1>1. /\ Digests \in Seq(ToSet(Digests)) /\ Spenders \in Seq(ToSet(Spenders))
        /\ Generated \in Seq(ToSet(Generated)) /\ Digests # <<>> /\ Spenders # <<>>
    BY RefreezeAssumption
  <1>2. \A s : s \in Seq(ToSet(s)) =>
          /\ \A f \in ToSet(s) : \E i \in 1 .. Len(s) : s[i] = f
          /\ \A i \in 1 .. Len(s) : s[i] \in ToSet(s)
          /\ s # <<>> => s[1] \in ToSet(s)
    <2> SUFFICES ASSUME NEW s, s \in Seq(ToSet(s))
                 PROVE  /\ \A f \in ToSet(s) : \E i \in 1 .. Len(s) : s[i] = f
                        /\ \A i \in 1 .. Len(s) : s[i] \in ToSet(s)
                        /\ s # <<>> => s[1] \in ToSet(s)
      OBVIOUS
    <2>1. DOMAIN s = 1 .. Len(s) /\ Len(s) \in Nat /\ (s # <<>> => 1 \in 1 .. Len(s))
      OBVIOUS
    <2>. QED
      BY <2>1 DEF ToSet
  <1>3. Digests \in Seq(LegFiles) /\ Spenders \in Seq(LegFiles)
    BY <1>1 DEF LegFiles
  <1>. QED
    BY <1>1, <1>2, <1>3

(* The plan covers every file with a leg that is not at the target yet. *)
LEMMA PlanCovers ==
  ASSUME Typed, Extracted, NEW target \in Addresses
  PROVE  /\ Planned(target) \in Seq(LegFiles)
         /\ \A f \in LegFiles :
              \/ \E i \in 1 .. Len(Planned(target)) : Planned(target)[i] = f
              \/ \A k \in KindsOf(f) \ {"sentinel"} : tree[f][k] = target
  <1> DEFINE D == {f \in ToSet(Digests) : tree[f].digest # target}
             ds == Keep(Digests, D)
             P == {f \in ToSet(Spenders) \ ToSet(ds) : tree[f].spender # target}
             ps == Keep(Spenders, P)
             p == Planned(target)
  <1>1. p = ds \o ps
    BY DEF Planned
  <1> HIDE DEF D, P
  <1>2. /\ ds \in Seq(LegFiles)
        /\ \A i \in 1 .. Len(Digests) :
             Digests[i] \in D => \E j \in 1 .. i : j <= Len(ds) /\ ds[j] = Digests[i]
    <2>1. Digests \in Seq(LegFiles)
      BY Lists
    <2>. QED
      BY <2>1, KeepElements
  <1>3. /\ ps \in Seq(LegFiles)
        /\ \A i \in 1 .. Len(Spenders) :
             Spenders[i] \in P => \E j \in 1 .. i : j <= Len(ps) /\ ps[j] = Spenders[i]
    <2>1. Spenders \in Seq(LegFiles)
      BY Lists
    <2>. QED
      BY <2>1, KeepElements
  <1> HIDE DEF ds, ps, p
  <1>4. p \in Seq(LegFiles) /\ Len(p) = Len(ds) + Len(ps)
    BY <1>1, <1>2, <1>3
  <1>5. \A j \in 1 .. Len(ds) : p[j] = ds[j] /\ j \in 1 .. Len(p)
    BY <1>1, <1>2, <1>3
  <1>6. \A j \in 1 .. Len(ps) : p[Len(ds) + j] = ps[j] /\ Len(ds) + j \in 1 .. Len(p)
    BY <1>1, <1>2, <1>3
  <1>7. \A f \in D : \E j \in 1 .. Len(ds) : ds[j] = f
    <2> SUFFICES ASSUME NEW f \in D PROVE \E j \in 1 .. Len(ds) : ds[j] = f
      OBVIOUS
    <2>1. PICK i \in 1 .. Len(Digests) : Digests[i] = f
      BY Lists DEF D
    <2>. QED
      BY <1>2, <2>1
  <1>8. \A f \in P : \E j \in 1 .. Len(ps) : ps[j] = f
    <2> SUFFICES ASSUME NEW f \in P PROVE \E j \in 1 .. Len(ps) : ps[j] = f
      OBVIOUS
    <2>1. PICK i \in 1 .. Len(Spenders) : Spenders[i] = f
      BY Lists DEF P
    <2>. QED
      BY <1>3, <2>1
  <1>9. \A f \in ToSet(ds) : \E j \in 1 .. Len(ds) : ds[j] = f
    BY <1>2 DEF ToSet
  <1>10. ASSUME NEW f \in LegFiles, ~ \E i \in 1 .. Len(p) : p[i] = f,
                NEW k \in KindsOf(f) \ {"sentinel"}
         PROVE  tree[f][k] = target
    <2>1. f \notin ToSet(ds) /\ f \notin D
      BY <1>5, <1>7, <1>9, <1>10
    <2>2. f \notin P
      BY <1>6, <1>8, <1>10
    <2>3. CASE k = "digest"
      BY <2>1, <2>3, <1>10, Apart DEF D
    <2>4. CASE k = "spender"
      BY <2>1, <2>2, <2>4, <1>10, Apart DEF P
    <2>. QED
      BY <2>3, <2>4, Apart
  <1>. QED
    BY <1>4, <1>10 DEF p

(* What a run has to do: its plan, then the constants, the registry and, for a release, *)
(* the package and, last of all, the changelog.                                         *)
IsTodo(target, plan, todo) ==
  /\ todo \in Seq(Writable)
  /\ \A i \in 1 .. Len(plan) : i \in 1 .. Len(todo) /\ todo[i] = plan[i]
  /\ \E i \in 1 .. Len(todo) : todo[i] = Registry
  /\ Release(target) => /\ \E i \in 1 .. Len(todo) : todo[i] = Package
                        /\ \E i \in 1 .. Len(todo) : todo[i] = Changelog
  /\ \A i \in 1 .. Len(todo) :
       /\ todo[i] = Package => Release(target)
       /\ todo[i] = Changelog => i = Len(todo) /\ Release(target)

(* That is what main puts on its list. *)
LEMMA TodoIs ==
  ASSUME NEW target \in Addresses, NEW plan \in Seq(LegFiles), NEW todo,
         todo = plan \o DeployDay(target)
  PROVE  IsTodo(target, plan, todo)
  <1> DEFINE last == IF Release(target) THEN <<Package, Changelog>> ELSE <<>>
             mid == Generated \o <<Registry>>
             m == Len(plan)
             n == Len(Generated)
  <1>1. plan \in Seq(Writable) /\ Generated \in Seq(Writable)
    <2>1. ToSet(Generated) \subseteq Writable /\ LegFiles \subseteq Writable
      BY DEF Writable
    <2>2. plan \in Seq(LegFiles) /\ Generated \in Seq(ToSet(Generated))
      BY Lists
    <2> HIDE DEF m, n, last, mid
    <2>3. \A S, T, s : S \subseteq T /\ s \in Seq(S) => s \in Seq(T)
      OBVIOUS
    <2>. QED
      BY ONLY <2>1, <2>2, <2>3
  <1>2. /\ m \in Nat /\ n \in Nat
        /\ \A i \in 1 .. m : plan[i] \in LegFiles
        /\ \A i \in 1 .. n : Generated[i] \in ToSet(Generated)
    <2>1. Generated \in Seq(ToSet(Generated))
      BY Lists
    <2>. QED
      BY <2>1
  <1>3. /\ <<Registry>> \in Seq(Writable) /\ Len(<<Registry>>) = 1
        /\ <<Registry>>[1] = Registry
    BY Apart
  <1>4. /\ last \in Seq(Writable) /\ Len(last) \in Nat
        /\ Release(target) => Len(last) = 2 /\ last[1] = Package /\ last[2] = Changelog
        /\ ~Release(target) => Len(last) = 0
    <2>1. Package \in Writable /\ Changelog \in Writable
      BY Apart
    <2>2. <<Package, Changelog>> \in Seq(Writable) /\ <<>> \in Seq(Writable)
      BY <2>1
    <2>. QED
      BY <2>2
  <1>5. DeployDay(target) = mid \o last
    BY DEF DeployDay
  <1> HIDE DEF last
  <1>6. /\ mid \in Seq(Writable) /\ Len(mid) = n + 1 /\ mid[n + 1] = Registry
        /\ \A i \in 1 .. n : mid[i] = Generated[i]
    <2>1. 1 \in 1 .. Len(<<Registry>>)
      BY <1>3
    <2> HIDE DEF m, n
    <2>. QED
      BY <1>1, <1>3, <2>1 DEF n
  <1> HIDE DEF mid
  <1> DEFINE day == mid \o last
  <1>7. /\ day \in Seq(Writable) /\ Len(day) = n + 1 + Len(last)
        /\ \A i \in 1 .. n + 1 : day[i] = mid[i]
        /\ \A i \in 1 .. Len(last) : day[n + 1 + i] = last[i]
    <2> HIDE DEF n, m, day
    <2>1. /\ mid \o last \in Seq(Writable) /\ Len(mid \o last) = Len(mid) + Len(last)
          /\ \A i \in 1 .. Len(mid) : (mid \o last)[i] = mid[i]
          /\ \A i \in 1 .. Len(last) : (mid \o last)[Len(mid) + i] = last[i]
      <3>1. mid \in Seq(Writable) /\ last \in Seq(Writable)
        BY <1>4, <1>6
      <3>. QED
        BY ONLY <3>1
    <2>. QED
      BY <1>6, <2>1 DEF day
  <1> HIDE DEF day
  <1>71. /\ todo \in Seq(Writable) /\ Len(todo) = m + Len(day)
         /\ \A i \in 1 .. m : todo[i] = plan[i]
         /\ \A i \in 1 .. Len(day) : todo[m + i] = day[i]
    <2>1. todo = plan \o day
      BY <1>5 DEF day
    <2>2. /\ plan \o day \in Seq(Writable) /\ Len(plan \o day) = Len(plan) + Len(day)
          /\ \A i \in 1 .. Len(plan) : (plan \o day)[i] = plan[i]
          /\ \A i \in 1 .. Len(day) : (plan \o day)[Len(plan) + i] = day[i]
      <3> HIDE DEF m, n
      <3>1. plan \in Seq(Writable) /\ day \in Seq(Writable)
        BY <1>1, <1>7
      <3>. QED
        BY ONLY <3>1
    <2>. QED
      BY <2>1, <2>2
  <1> HIDE DEF m, n
  <1>8. /\ Len(todo) = m + n + 1 + Len(last)
        /\ \A i \in 1 .. n : todo[m + i] = Generated[i]
        /\ todo[m + n + 1] = Registry
        /\ \A i \in 1 .. Len(last) : todo[m + n + 1 + i] = last[i]
    <2>1. \A i \in 1 .. n : i \in 1 .. Len(day) /\ i \in 1 .. n + 1
      BY <1>2, <1>4, <1>7
    <2>2. \A i \in 1 .. n : todo[m + i] = day[i] /\ day[i] = mid[i] /\ mid[i] = Generated[i]
      BY <1>6, <1>7, <1>71, <2>1
    <2>3. n + 1 \in 1 .. Len(day) /\ n + 1 \in 1 .. n + 1 /\ m + (n + 1) = m + n + 1
      BY <1>2, <1>4, <1>7
    <2>4. todo[m + (n + 1)] = day[n + 1] /\ day[n + 1] = mid[n + 1]
      BY <1>7, <1>71, <2>3
    <2>5. \A i \in 1 .. Len(last) :
            n + 1 + i \in 1 .. Len(day) /\ m + (n + 1 + i) = m + n + 1 + i
      BY <1>2, <1>4, <1>7
    <2>6. \A i \in 1 .. Len(last) : todo[m + (n + 1 + i)] = last[i]
      BY <1>7, <1>71, <2>5
    <2>7. Len(todo) = m + n + 1 + Len(last)
      BY <1>2, <1>4, <1>7, <1>71
    <2>. QED
      BY <1>6, <2>2, <2>3, <2>4, <2>5, <2>6, <2>7
  <1>9. \E i \in 1 .. Len(todo) : todo[i] = Registry
    <2>1. m \in Nat /\ n \in Nat /\ Len(last) \in Nat
      BY <1>2, <1>4
    <2>2. m + n + 1 \in 1 .. m + n + 1 + Len(last)
      BY ONLY <2>1
    <2>3. m + n + 1 \in 1 .. Len(todo)
      BY <1>8, <2>2
    <2>. QED
      BY <1>8, <2>3
  <1>10. ASSUME Release(target)
         PROVE  /\ todo[m + n + 2] = Package /\ todo[m + n + 3] = Changelog
                /\ Len(todo) = m + n + 3
    <2>0. Len(last) = 2 /\ last[1] = Package /\ last[2] = Changelog
      BY <1>4, <1>10
    <2>1. 1 \in 1 .. Len(last) /\ 2 \in 1 .. Len(last)
      BY <2>0
    <2>2. todo[m + n + 1 + 1] = last[1] /\ todo[m + n + 1 + 2] = last[2]
      BY <1>8, <2>1
    <2>3. m + n + 1 + 1 = m + n + 2 /\ m + n + 1 + 2 = m + n + 3
      BY <1>2
    <2>. QED
      BY <1>2, <1>8, <2>0, <2>2, <2>3
  <1>11. ~Release(target) => Len(todo) = m + n + 1
    BY <1>2, <1>4, <1>8
  <1>12. ASSUME NEW i \in 1 .. m + n + 1
         PROVE  todo[i] # Package /\ todo[i] # Changelog
    <2>1. CASE i \in 1 .. m
      BY <1>2, <1>71, <2>1, Apart
    <2>2. CASE i = m + n + 1
      BY <1>8, <2>2, Apart
    <2>3. CASE i \notin 1 .. m /\ i # m + n + 1
      <3>1. i - m \in 1 .. n /\ m + (i - m) = i
        BY <1>2, <2>3
      <3>2. todo[i] \in ToSet(Generated)
        BY <1>2, <1>8, <3>1
      <3>. QED
        BY <3>2, Apart
    <2>. QED
      BY <2>1, <2>2, <2>3
  <1>13. ASSUME NEW i \in 1 .. Len(todo)
         PROVE  /\ todo[i] = Package => Release(target)
                /\ todo[i] = Changelog => i = Len(todo) /\ Release(target)
    <2>1. CASE ~Release(target)
      BY <1>11, <1>12, <2>1
    <2>2. CASE Release(target)
      <3>1. i \in 1 .. m + n + 1 \/ i = m + n + 2 \/ i = m + n + 3
        BY <1>2, <1>10, <2>2
      <3>. QED
        BY <1>10, <1>12, <2>2, <3>1, Apart
    <2>. QED
      BY <2>1, <2>2
  <1>14. Release(target) => /\ \E i \in 1 .. Len(todo) : todo[i] = Package
                            /\ \E i \in 1 .. Len(todo) : todo[i] = Changelog
    <2>1. Release(target) => m + n + 2 \in 1 .. Len(todo) /\ m + n + 3 \in 1 .. Len(todo)
      BY <1>2, <1>10
    <2>. QED
      BY <1>10, <2>1
  <1>15. \A i \in 1 .. m : i \in 1 .. Len(todo) /\ todo[i] = plan[i]
    <2>1. m \in Nat /\ Len(todo) = m + Len(day) /\ Len(day) \in Nat
      BY <1>2, <1>4, <1>7, <1>71
    <2>. QED
      BY <1>71, <2>1
  <1>. QED
    BY <1>71, <1>9, <1>13, <1>14, <1>15 DEF m, IsTodo

(* A step that leaves the files alone. *)
LEMMA StillTree ==
  ASSUME RefreezeInv, UNCHANGED tree, asserted \subseteq asserted', asserted' \subseteq Addresses,
         pc' \in {"idle", "planned", "verified", "writing", "gated"}, run' \in RunType,
         Vouched', Progress'
  PROVE  RefreezeInv'
  <1> USE DEF RefreezeInv
  <1>1. Typed'
    BY DEF Typed
  <1>2. Versions'
    BY DEF Versions, ReleasesGrow
  <1>3. FrozenIsProven'
    <2>1. /\ \A f \in LegFiles : \A k \in DOMAIN tree[f] :
               tree[f][k] \in Genuine \union asserted' \union {Placeholder}
          /\ tree[Registry] # Torn =>
               tree[Registry].address \in Genuine \union asserted' \union {Placeholder} \union {Null}
      BY DEF FrozenIsProven
    <2>2. ASSUME tree[Changelog] # Torn, NEW i \in DOMAIN tree[Changelog].entries
          PROVE  tree[Changelog].entries[i].address \in
                   IF tree[Changelog].entries[i].manual THEN asserted' ELSE Genuine
      BY <2>2 DEF FrozenIsProven
    <2>. QED
      BY <2>1, <2>2 DEF FrozenIsProven
  <1>4. SentinelNeverMoves'
    BY DEF SentinelNeverMoves
  <1>. QED
    BY <1>1, <1>2, <1>3, <1>4

(* A run that ends, or that never begins, has nothing left to keep. *)
LEMMA EndStep ==
  ASSUME RefreezeInv, UNCHANGED <<tree, asserted>>, pc' = "idle",
         outcome' \in {"aborted", "nothing to change", "reported"}, run' = NoRun
  PROVE  RefreezeInv'
  <1>1. run' \in RunType
    BY AddressFacts
  <1>2. Vouched' /\ Progress'
    BY DEF Vouched, Progress, Current
  <1>3. asserted \subseteq Addresses
    BY DEF RefreezeInv, Typed
  <1>. QED
    BY <1>1, <1>2, <1>3, StillTree

(* A step of a run that leaves its plan and the files alone. *)
LEMMA GoOnStep ==
  ASSUME RefreezeInv, Current, UNCHANGED <<tree, run>>,
         asserted \subseteq asserted', asserted' \subseteq Addresses,
         pc' \in {"idle", "planned", "verified", "writing", "gated"}, Vouched',
         pc' = "gated" \/ outcome' = "complete" => run.todo = <<>>,
         pc' # "idle" => outcome' # "complete"
  PROVE  RefreezeInv'
  <1>1. run' \in RunType
    BY DEF RefreezeInv, Typed
  <1>2. Done /\ Ahead
    BY DEF RefreezeInv, Progress
  <1>3. Done'
    BY <1>2 DEF Done, Left, Entry
  <1>4. Ahead'
    BY <1>2 DEF Ahead, Left
  <1>5. Progress'
    BY <1>3, <1>4 DEF Progress
  <1>. QED
    BY <1>1, <1>5, StillTree

(* A run begins: what it does not plan is as it should be. *)
LEMMA BeginStep ==
  ASSUME RefreezeInv, NEW target \in Addresses, NEW mode \in Modes, Begin(target, mode)
  PROVE  RefreezeInv'
  <1> DEFINE plan == Planned(target)
             todo == plan \o DeployDay(target)
             version == IF Release(target) THEN BumpedMinor ELSE 0
  <1>1. /\ pc = "idle" /\ Extracted /\ pc' = "planned" /\ outcome' = "running"
        /\ Release(target) => tree[Package] # Torn /\ tree[Package].version < MaxVersion
        /\ run' = [target |-> target, mode |-> mode, version |-> version, todo |-> todo]
        /\ UNCHANGED <<tree, asserted>>
    BY DEF Begin
  <1>2. Typed
    BY DEF RefreezeInv
  <1>3. /\ plan \in Seq(LegFiles)
        /\ \A f \in LegFiles : \/ \E i \in 1 .. Len(plan) : plan[i] = f
                               \/ \A k \in KindsOf(f) \ {"sentinel"} : tree[f][k] = target
    BY <1>1, <1>2, PlanCovers
  <1> HIDE DEF plan
  <1>4. /\ todo \in Seq(Writable)
        /\ \A i \in 1 .. Len(plan) : i \in 1 .. Len(todo) /\ todo[i] = plan[i]
        /\ \E i \in 1 .. Len(todo) : todo[i] = Registry
        /\ Release(target) => /\ \E i \in 1 .. Len(todo) : todo[i] = Package
                              /\ \E i \in 1 .. Len(todo) : todo[i] = Changelog
        /\ \A i \in 1 .. Len(todo) :
             /\ todo[i] = Package => Release(target)
             /\ todo[i] = Changelog => i = Len(todo) /\ Release(target)
    <2>1. todo = plan \o DeployDay(target)
      OBVIOUS
    <2> HIDE DEF todo, version
    <2>2. IsTodo(target, plan, todo)
      BY <1>3, <2>1, TodoIs
    <2>. QED
      BY <2>2 DEF IsTodo
  <1> HIDE DEF todo
  <1>5. /\ Release(target) =>
             /\ version = tree[Package].version + 1
             /\ tree[Package].version \in 0 .. MaxVersion
        /\ version \in 0 .. MaxVersion
    <2>1. CASE ~Release(target)
      BY <2>1, AddressFacts
    <2>2. CASE Release(target)
      <3>1. tree[Package] \in [version : 0 .. MaxVersion]
        BY <1>1, <1>2, <2>2 DEF Typed
      <3>. QED
        BY <1>1, <2>2, <3>1, AddressFacts DEF BumpedMinor
    <2>. QED
      BY <2>1, <2>2
  <1> HIDE DEF version
  <1>6. /\ run' \in RunType /\ run'.target = target /\ run'.version = version /\ run'.todo = todo
    BY <1>1, <1>4, <1>5 DEF RunType
  <1>7. /\ Left' = {todo[i] : i \in 1 .. Len(todo)}
        /\ Registry \in Left'
        /\ Release(target) => Package \in Left' /\ Changelog \in Left'
        /\ Package \in Left' \/ Changelog \in Left' => Release(target)
        /\ \A i \in 1 .. Len(plan) : plan[i] \in Left'
    <2>1. Left' = {todo[i] : i \in 1 .. Len(todo)}
      BY <1>6 DEF Left
    <2>. QED
      BY <1>4, <2>1
  <1>8. \A f \in LegFiles : tree[f] # Torn
    <2> SUFFICES ASSUME NEW f \in LegFiles PROVE tree[f] # Torn
      OBVIOUS
    <2>1. PICK k \in {"digest", "spender"} : k \in KindsOf(f)
      BY Apart
    <2>2. k \in DOMAIN tree[f]
      BY <1>1, <2>1, Apart DEF Extracted, SpecOf
    <2>3. DOMAIN Torn = {}
      BY DEF Torn
    <2>. QED
      BY <2>2, <2>3
  <1>9. Done'
    <2>1. \A f \in LegFiles :
            f \notin Left' => \A k \in KindsOf(f) \ {"sentinel"} : tree'[f][k] = target
      BY <1>1, <1>3, <1>7
    <2>. QED
      BY <1>1, <1>6, <1>7, <1>8, <2>1 DEF Done
  <1>10. Ahead'
    <2>1. Package \in Left' => tree'[Package] # Torn /\ tree'[Package].version <= version
      BY <1>1, <1>5, <1>7
    <2>2. ASSUME Changelog \in Left', tree[Changelog] # Torn,
                 NEW i \in 1 .. Len(tree[Changelog].entries)
          PROVE  tree[Changelog].entries[i].version < version
      <3>1. Release(target) /\ tree[Package] # Torn
        BY <1>1, <1>7, <2>2
      <3>2. tree[Changelog].entries[i].version <= tree[Package].version
        BY <2>2, <3>1 DEF RefreezeInv, Versions
      <3>3. tree[Changelog].entries[i] \in EntryType
        BY <1>2, <2>2 DEF Typed
      <3>. QED
        BY <1>5, <3>1, <3>2, <3>3 DEF EntryType
    <2>. QED
      BY <1>1, <1>4, <1>6, <2>1, <2>2 DEF Ahead
  <1>11. Progress' /\ Vouched'
    BY <1>1, <1>9, <1>10 DEF Progress, Vouched
  <1>12. asserted \subseteq Addresses
    BY <1>2 DEF Typed
  <1>. QED
    BY <1>1, <1>6, <1>11, <1>12, StillTree

(* The other steps that write nothing. *)
LEMMA QuietStep ==
  ASSUME RefreezeInv, Report \/ Verify \/ Preflight \/ RunCoherence \/ Complete \/ Stop
  PROVE  RefreezeInv'
  <1>1. /\ asserted \subseteq Addresses /\ run \in RunType
        /\ pc \in {"idle", "planned", "verified", "writing", "gated"}
    BY DEF RefreezeInv, Typed
  <1>2. /\ Vouched /\ (pc # "idle" => outcome # "complete")
        /\ pc = "gated" \/ outcome = "complete" => run.todo = <<>>
    BY DEF RefreezeInv, Progress
  <1>3. CASE Report \/ Stop
    BY <1>3, EndStep DEF Report, Stop
  <1>4. CASE Verify
    <2>1. asserted \subseteq asserted' /\ asserted' \subseteq Addresses
      BY <1>1, <1>4 DEF Verify, RunType
    <2>2. Vouched'
      BY <1>4 DEF Verify, Vouched, VerifiedOnChain
    <2>. QED
      BY <1>2, <1>4, <2>1, <2>2, GoOnStep DEF Verify, Current
  <1>5. CASE Preflight
    <2>1. Vouched'
      BY <1>2, <1>5 DEF Preflight, Vouched
    <2>. QED
      BY <1>1, <1>2, <1>5, <2>1, GoOnStep DEF Preflight, Current
  <1>6. CASE RunCoherence
    <2>1. Vouched'
      BY <1>2, <1>6 DEF RunCoherence, Vouched
    <2>. QED
      BY <1>1, <1>2, <1>6, <2>1, GoOnStep DEF RunCoherence, Current
  <1>7. CASE Complete
    <2>1. Vouched'
      BY <1>2, <1>7 DEF Complete, Vouched
    <2>. QED
      BY <1>1, <1>2, <1>7, <2>1, GoOnStep DEF Complete, Current
  <1>. QED
    BY <1>3, <1>4, <1>5, <1>6, <1>7

(* A kill inside a write leaves the file torn, and ends the run. *)
LEMMA TearStep ==
  ASSUME RefreezeInv, Tear
  PROVE  RefreezeInv'
  <1> DEFINE f == Head(run.todo)
  <1> USE DEF RefreezeInv
  <1>1. f \in Writable
    BY DEF Tear, Typed, RunType
  <1>2. /\ tree' = [g \in Files |-> IF g = f THEN Torn ELSE tree[g]]
        /\ pc' = "idle" /\ outcome' = "aborted" /\ run' = NoRun /\ UNCHANGED asserted
    BY DEF Tear, Typed
  <1> HIDE DEF f
  <1>3. \A g \in Files : tree'[g] = IF g = f THEN Torn ELSE tree[g]
    BY <1>2
  <1>4. Typed'
    <2>1. \A g \in LegFiles \union Pinned :
            /\ tree'[g] = Torn \/ tree'[g] \in [KindsOf(g) -> Addresses]
            /\ g \notin LegFiles \union ToSet(Generated) => tree'[g] # Torn
      BY <1>1, <1>3, Apart DEF Typed, Writable
    <2>2. /\ tree'[Registry] = Torn \/ tree'[Registry] \in [address : Addresses \union {Null}]
          /\ tree'[Package] = Torn \/ tree'[Package] \in [version : 0 .. MaxVersion]
          /\ tree'[Changelog] = Torn \/ tree'[Changelog] \in [entries : Seq(EntryType)]
      BY <1>3, Apart DEF Typed
    <2>3. tree' = [g \in Files |-> tree'[g]]
      BY <1>2
    <2>4. run' \in RunType /\ asserted' \subseteq Addresses
      BY <1>2, AddressFacts DEF Typed
    <2>. QED
      BY <1>2, <2>1, <2>2, <2>3, <2>4 DEF Typed
  <1>5. Vouched' /\ Progress'
    BY <1>2 DEF Vouched, Progress, Current
  <1>6. Versions'
    BY <1>3, Apart DEF Versions, ReleasesGrow
  <1>7. FrozenIsProven'
    <2>1. \A g \in LegFiles : \A k \in DOMAIN tree'[g] :
            tree'[g][k] \in Genuine \union asserted' \union {Placeholder}
      BY <1>2, <1>3, Apart DEF FrozenIsProven, Torn
    <2>2. tree'[Registry] # Torn =>
            tree'[Registry].address \in Genuine \union asserted' \union {Placeholder} \union {Null}
      BY <1>2, <1>3, Apart DEF FrozenIsProven
    <2>3. tree'[Changelog] # Torn => tree'[Changelog] = tree[Changelog]
      BY <1>3, Apart
    <2>4. tree'[Changelog] # Torn =>
            \A i \in DOMAIN tree'[Changelog].entries :
              tree'[Changelog].entries[i].address \in
                IF tree'[Changelog].entries[i].manual THEN asserted' ELSE Genuine
      BY <1>2, <2>3 DEF FrozenIsProven
    <2>. QED
      BY <2>1, <2>2, <2>4 DEF FrozenIsProven
  <1>8. SentinelNeverMoves'
    BY <1>3, Apart DEF SentinelNeverMoves
  <1>. QED
    BY <1>4, <1>5, <1>6, <1>7, <1>8

(* What a write leaves to do. *)
LEMMA WriteRun ==
  ASSUME RefreezeInv, Write
  PROVE  /\ Head(run.todo) \in Writable /\ Head(run.todo) \in Left
         /\ run' \in RunType
         /\ run'.target = run.target /\ run'.mode = run.mode /\ run'.version = run.version
         /\ Left' \subseteq Left /\ Left \subseteq Left' \union {Head(run.todo)}
         /\ Len(run'.todo) = Len(run.todo) - 1
         /\ \A i \in 1 .. Len(run'.todo) : i + 1 \in 1 .. Len(run.todo) /\ run'.todo[i] = run.todo[i + 1]
         /\ Head(run.todo) = Changelog => Left = {Changelog} /\ Left' = {}
  <1> DEFINE todo == run.todo
             rest == Tail(todo)
  <1>1. run \in RunType /\ todo # <<>> /\ run' = [run EXCEPT !.todo = Tail(@)]
    BY DEF RefreezeInv, Typed, Write
  <1>2. todo \in Seq(Writable)
    BY <1>1 DEF RunType
  <1> HIDE DEF todo
  <1>3. /\ Head(todo) = todo[1] /\ 1 \in 1 .. Len(todo) /\ todo[1] \in Writable
        /\ rest \in Seq(Writable) /\ Len(rest) = Len(todo) - 1 /\ Len(todo) \in Nat
        /\ \A i \in 1 .. Len(rest) : i + 1 \in 1 .. Len(todo) /\ rest[i] = todo[i + 1]
    BY <1>1, <1>2
  <1> HIDE DEF rest
  <1>4. /\ run' \in RunType /\ run'.todo = rest
        /\ run'.target = run.target /\ run'.mode = run.mode /\ run'.version = run.version
    BY <1>1, <1>3 DEF RunType, todo, rest
  <1>5. /\ Left = {todo[i] : i \in 1 .. Len(todo)}
        /\ Left' = {rest[i] : i \in 1 .. Len(rest)}
    BY <1>4 DEF Left, todo
  <1>6. \A i \in 1 .. Len(todo) : i = 1 \/ (i - 1 \in 1 .. Len(rest) /\ rest[i - 1] = todo[i])
    BY <1>3
  <1>7. Left' \subseteq Left /\ Left \subseteq Left' \union {todo[1]} /\ todo[1] \in Left
    <2>1. \A i \in 1 .. Len(rest) : rest[i] \in Left
      BY <1>3, <1>5
    <2>2. \A i \in 1 .. Len(todo) : todo[i] = todo[1] \/ todo[i] \in Left'
      BY <1>5, <1>6
    <2>3. todo[1] \in Left
      BY <1>3, <1>5
    <2>. QED
      BY <1>5, <2>1, <2>2, <2>3
  <1>8. todo[1] = Changelog => Left = {Changelog} /\ Left' = {}
    <2> SUFFICES ASSUME todo[1] = Changelog PROVE Left = {Changelog} /\ Left' = {}
      OBVIOUS
    <2>1. Ahead
      BY DEF RefreezeInv, Progress, Current, Write
    <2>2. \A i \in 1 .. Len(todo) : todo[i] = Changelog => i = Len(todo)
      BY <2>1 DEF Ahead, todo
    <2>3. Len(todo) = 1 /\ Len(rest) = 0
      BY <1>3, <2>2
    <2>. QED
      BY <1>5, <2>3
  <1>9. Head(run.todo) = todo[1] /\ Len(todo) = Len(run.todo) /\ \A i \in 1 .. Len(todo) : todo[i] = run.todo[i]
    BY <1>3 DEF todo
  <1>. QED
    BY <1>3, <1>4, <1>7, <1>8, <1>9

(* What a write makes of its file. *)
LEMMA WriteFile ==
  ASSUME RefreezeInv, Write, NEW f, f = Head(run.todo)
  PROVE  /\ \A g \in Files : g # f => tree'[g] = tree[g]
         /\ tree' = [g \in Files |-> tree'[g]]
         /\ f \in LegFiles =>
              /\ tree'[f] \in [KindsOf(f) -> Addresses] /\ tree'[f] # Torn
              /\ \A k \in KindsOf(f) \ {"sentinel"} : tree'[f][k] = run.target
              /\ "sentinel" \in KindsOf(f) => tree'[f].sentinel = tree[f].sentinel
              /\ tree[f] \in [KindsOf(f) -> Addresses] /\ tree[f] # Torn
         /\ f \in ToSet(Generated) =>
              tree'[f] \in [KindsOf(f) -> Addresses] /\ tree'[f].sentinel = Placeholder
         /\ f = Registry =>
              tree'[f] = [address |-> IF Release(run.target) THEN run.target ELSE Null]
         /\ f = Package => tree'[f] = [version |-> run.version]
         /\ f = Changelog => tree[f] # Torn /\ tree'[f] = [entries |-> <<Entry>> \o tree[f].entries]
         /\ run.target \in Addresses /\ run.version \in 0 .. MaxVersion
  <1>1. /\ pc = "writing" /\ (f = Changelog => tree[f] # Torn)
        /\ tree' = [tree EXCEPT ![f] = Written(f)]
    BY DEF Write
  <1>2. f \in Files
    BY WriteRun, Apart
  <1>3. /\ \A g \in Files : g # f => tree'[g] = tree[g]
        /\ tree' = [g \in Files |-> tree'[g]] /\ tree'[f] = Written(f)
    BY <1>1, <1>2 DEF RefreezeInv, Typed
  <1>4. run.target \in Addresses /\ run.version \in 0 .. MaxVersion
    BY DEF RefreezeInv, Typed, RunType
  <1>5. ASSUME f \in LegFiles
        PROVE  /\ tree'[f] \in [KindsOf(f) -> Addresses] /\ tree'[f] # Torn
               /\ \A k \in KindsOf(f) \ {"sentinel"} : tree'[f][k] = run.target
               /\ "sentinel" \in KindsOf(f) => tree'[f].sentinel = tree[f].sentinel
               /\ tree[f] \in [KindsOf(f) -> Addresses] /\ tree[f] # Torn
    <2>1. tree[f] # Torn
      BY <1>1, <1>5 DEF RefreezeInv, Progress, Current, Done
    <2>2. tree[f] \in [KindsOf(f) -> Addresses]
      BY <1>5, <2>1 DEF RefreezeInv, Typed
    <2>3. tree'[f] = Rewritten(tree[f])
      <3>1. f \notin ToSet(Generated) /\ f # Registry /\ f # Package /\ f # Changelog
        BY <1>5, Apart
      <3>. QED
        BY <1>3, <1>5, <3>1 DEF Written
    <2>4. tree'[f] = [k \in KindsOf(f) |-> IF k = "sentinel" THEN tree[f][k] ELSE run.target]
      BY <2>2, <2>3 DEF Rewritten
    <2>5. tree'[f] \in [KindsOf(f) -> Addresses]
      BY <1>4, <2>2, <2>4
    <2>6. tree'[f] # Torn
      BY <1>5, <2>5, NotTorn, Apart
    <2>. QED
      BY <2>1, <2>2, <2>4, <2>5, <2>6
  <1>6. ASSUME f \in ToSet(Generated)
        PROVE  tree'[f] \in [KindsOf(f) -> Addresses] /\ tree'[f].sentinel = Placeholder
    <2>1. tree'[f] = [sentinel |-> tree[Source].sentinel]
      BY <1>3, <1>6, Apart DEF Written, Regenerated
    <2>2. tree[Source] # Torn
      BY Apart DEF RefreezeInv, Typed
    <2>3. tree[Source].sentinel = Placeholder
      BY <2>2, Apart DEF RefreezeInv, SentinelNeverMoves
    <2>4. [sentinel |-> Placeholder] \in [{"sentinel"} -> Addresses]
      BY AddressFacts
    <2>. QED
      BY <1>6, <2>1, <2>3, <2>4, Apart
  <1>7. f = Registry => tree'[f] = [address |-> IF Release(run.target) THEN run.target ELSE Null]
    <2>1. f = Registry =>
            f \notin LegFiles /\ f \notin ToSet(Generated) /\ f # Package /\ f # Changelog
      BY Apart
    <2>. QED
      BY <1>3, <2>1 DEF Written
  <1>8. f = Package => tree'[f] = [version |-> run.version]
    <2>1. f = Package =>
            f \notin LegFiles /\ f \notin ToSet(Generated) /\ f # Registry /\ f # Changelog
      BY Apart
    <2>. QED
      BY <1>3, <2>1 DEF Written
  <1>9. f = Changelog => tree'[f] = [entries |-> <<Entry>> \o tree[f].entries]
    <2>1. f = Changelog =>
            f \notin LegFiles /\ f \notin ToSet(Generated) /\ f # Registry /\ f # Package
      BY Apart
    <2>. QED
      BY <1>3, <2>1 DEF Written
  <1>. QED
    BY <1>1, <1>3, <1>4, <1>5, <1>6, <1>7, <1>8, <1>9

(* The changelog after a write to it: one entry more, which is the first. *)
LEMMA WriteEntry ==
  ASSUME RefreezeInv, Write, Head(run.todo) = Changelog
  PROVE  LET old == tree[Changelog].entries
             new == tree'[Changelog].entries
         IN  /\ tree'[Changelog] \in [entries : Seq(EntryType)]
             /\ new \in Seq(EntryType) /\ old \in Seq(EntryType)
             /\ Len(new) = Len(old) + 1 /\ new[1] = Entry /\ Entry \in EntryType
             /\ \A i \in 1 .. Len(new) : i = 1 \/ (i - 1 \in 1 .. Len(old) /\ new[i] = old[i - 1])
             /\ \A i \in 1 .. Len(old) : old[i].version < run.version
             /\ Release(run.target) /\ tree[Changelog] # Torn
             /\ tree[Package] = [version |-> run.version]
  <1> DEFINE old == tree[Changelog].entries
             new == tree'[Changelog].entries
  <1>1. tree[Changelog] # Torn /\ tree'[Changelog] = [entries |-> <<Entry>> \o old]
    BY WriteFile
  <1>2. old \in Seq(EntryType)
    BY <1>1 DEF RefreezeInv, Typed
  <1>3. Entry \in EntryType /\ run \in RunType
    BY DEF RefreezeInv, Typed, RunType, Entry, EntryType
  <1>4. Done /\ Ahead /\ 1 \in 1 .. Len(run.todo) /\ run.todo[1] = Changelog
    <2>1. run.todo \in Seq(Writable) /\ run.todo # <<>>
      BY <1>3 DEF Write, RunType
    <2>. QED
      BY <2>1 DEF RefreezeInv, Progress, Current, Write
  <1>5. Release(run.target) /\ \A i \in 1 .. Len(old) : old[i].version < run.version
    BY <1>1, <1>4, WriteRun DEF Ahead
  <1>6. tree[Package] = [version |-> run.version]
    <2>1. Package \notin Left
      BY WriteRun, Apart
    <2>. QED
      BY <1>4, <1>5, <2>1 DEF Done
  <1>7. new = <<Entry>> \o old
    BY <1>1
  <1> HIDE DEF old
  <1>8. /\ new \in Seq(EntryType) /\ Len(new) = Len(old) + 1 /\ new[1] = Entry
        /\ \A i \in 1 .. Len(new) : i = 1 \/ (i - 1 \in 1 .. Len(old) /\ new[i] = old[i - 1])
    <2> DEFINE one == <<Entry>>
               e == Entry
    <2>1. e \in EntryType
      BY <1>3
    <2> HIDE DEF e
    <2>2. one \in Seq(EntryType) /\ Len(one) = 1 /\ one[1] = e
      BY <2>1 DEF e
    <2> HIDE DEF one, new
    <2>3. new = one \o old
      BY <1>7 DEF one
    <2>4. /\ new \in Seq(EntryType) /\ Len(new) = 1 + Len(old) /\ Len(old) \in Nat
          /\ \A i \in 1 .. 1 : new[i] = one[i]
          /\ \A i \in 1 .. Len(old) : new[1 + i] = old[i]
      <3>1. one \in Seq(EntryType) /\ old \in Seq(EntryType)
        BY <1>2, <2>2
      <3>2. /\ one \o old \in Seq(EntryType) /\ Len(one \o old) = Len(one) + Len(old)
            /\ Len(old) \in Nat
            /\ \A i \in 1 .. Len(one) : (one \o old)[i] = one[i]
            /\ \A i \in 1 .. Len(old) : (one \o old)[Len(one) + i] = old[i]
        BY ONLY <3>1
      <3>. QED
        BY <2>2, <2>3, <3>2
    <2>5. \A i \in 1 .. Len(new) : i = 1 \/ (i - 1 \in 1 .. Len(old) /\ 1 + (i - 1) = i)
      BY <2>4
    <2>6. \A i \in 1 .. Len(new) : i = 1 \/ (i - 1 \in 1 .. Len(old) /\ new[i] = old[i - 1])
      BY <2>4, <2>5
    <2>. QED
      BY <2>2, <2>4, <2>6 DEF e
  <1>9. tree'[Changelog] \in [entries : Seq(EntryType)]
    BY <1>1, <1>8
  <1>. QED
    BY <1>1, <1>2, <1>3, <1>5, <1>6, <1>8, <1>9 DEF old

(* A write that completes: the file is as the run wants it, the others as they were. *)
LEMMA WriteStep ==
  ASSUME RefreezeInv, Write
  PROVE  RefreezeInv'
  <1> DEFINE f == Head(run.todo)
  <1> USE DEF RefreezeInv
  <1>1. /\ f \in Writable /\ f \in Left /\ run' \in RunType
        /\ run'.target = run.target /\ run'.mode = run.mode /\ run'.version = run.version
        /\ Left' \subseteq Left /\ Left \subseteq Left' \union {f}
        /\ f = Changelog => Left = {Changelog} /\ Left' = {}
    BY WriteRun
  <1>2. /\ \A i \in 1 .. Len(run'.todo) :
             i + 1 \in 1 .. Len(run.todo) /\ run'.todo[i] = run.todo[i + 1]
        /\ Len(run'.todo) = Len(run.todo) - 1
    BY WriteRun
  <1>3. pc = "writing" /\ pc' = "writing" /\ UNCHANGED <<outcome, asserted>> /\ Current
    BY DEF Write, Current
  <1>4. f = Changelog \/ tree'[Changelog] = tree[Changelog]
    BY WriteFile, Apart
  <1>5. f = Package \/ tree'[Package] = tree[Package]
    BY WriteFile, Apart
  <1>6. f = Registry \/ tree'[Registry] = tree[Registry]
    BY WriteFile, Apart
  <1>7. \A g \in LegFiles \union Pinned : g = f \/ tree'[g] = tree[g]
    BY WriteFile, Apart
  <1>8. /\ f = Registry =>
             tree'[f] = [address |-> IF Release(run.target) THEN run.target ELSE Null]
        /\ f = Package => tree'[f] = [version |-> run.version]
        /\ run.target \in Addresses /\ run.version \in 0 .. MaxVersion
    BY WriteFile
  <1>9. /\ f \in LegFiles =>
             /\ tree'[f] \in [KindsOf(f) -> Addresses] /\ tree'[f] # Torn
             /\ \A k \in KindsOf(f) \ {"sentinel"} : tree'[f][k] = run.target
             /\ "sentinel" \in KindsOf(f) => tree'[f].sentinel = tree[f].sentinel
             /\ tree[f] \in [KindsOf(f) -> Addresses] /\ tree[f] # Torn
        /\ f \in ToSet(Generated) =>
             tree'[f] \in [KindsOf(f) -> Addresses] /\ tree'[f].sentinel = Placeholder
    BY WriteFile
  <1>10. Done /\ Ahead
    BY <1>3 DEF Progress
  <1>11. tree' = [g \in Files |-> tree'[g]]
    BY WriteFile
  <1> HIDE DEF f
  <1>12. f = Changelog =>
           /\ tree'[Changelog] \in [entries : Seq(EntryType)] /\ tree[Changelog] # Torn
           /\ tree'[Changelog].entries[1] = Entry /\ Entry \in EntryType
           /\ Len(tree'[Changelog].entries) = Len(tree[Changelog].entries) + 1
           /\ Len(tree[Changelog].entries) \in Nat
           /\ Release(run.target) /\ tree[Package] = [version |-> run.version]
    BY WriteEntry DEF f
  <1>13. f = Changelog =>
           \A i \in 1 .. Len(tree'[Changelog].entries) :
             \/ i = 1
             \/ /\ i - 1 \in 1 .. Len(tree[Changelog].entries)
                /\ tree'[Changelog].entries[i] = tree[Changelog].entries[i - 1]
                /\ tree[Changelog].entries[i - 1] \in EntryType
                /\ tree[Changelog].entries[i - 1].version < run.version
    BY WriteEntry DEF f
  <1>14. Typed'
    <2>1. \A g \in LegFiles \union Pinned :
            /\ tree'[g] = Torn \/ tree'[g] \in [KindsOf(g) -> Addresses]
            /\ g \notin LegFiles \union ToSet(Generated) => tree'[g] # Torn
      <3> SUFFICES ASSUME NEW g \in LegFiles \union Pinned
                   PROVE  /\ tree'[g] = Torn \/ tree'[g] \in [KindsOf(g) -> Addresses]
                          /\ g \notin LegFiles \union ToSet(Generated) => tree'[g] # Torn
        OBVIOUS
      <3>1. CASE g # f
        BY <1>7, <3>1 DEF Typed
      <3>2. CASE g = f
        <4>1. f \in LegFiles \/ f \in ToSet(Generated)
          BY <1>1, <3>2, Apart DEF Writable
        <4>. QED
          BY <1>9, <3>2, <4>1
      <3>. QED
        BY <3>1, <3>2
    <2>2. tree'[Registry] = Torn \/ tree'[Registry] \in [address : Addresses \union {Null}]
      BY <1>6, <1>8 DEF Typed
    <2>3. tree'[Package] = Torn \/ tree'[Package] \in [version : 0 .. MaxVersion]
      BY <1>5, <1>8 DEF Typed
    <2>4. tree'[Changelog] = Torn \/ tree'[Changelog] \in [entries : Seq(EntryType)]
      BY <1>4, <1>12 DEF Typed
    <2>. QED
      BY <1>1, <1>3, <1>11, <2>1, <2>2, <2>3, <2>4 DEF Typed
  <1>15. Vouched'
    BY <1>1, <1>3 DEF Vouched
  <1>16. Done'
    <2>1. \A g \in LegFiles :
            /\ tree'[g] # Torn
            /\ g \notin Left' => \A k \in KindsOf(g) \ {"sentinel"} : tree'[g][k] = run.target
      <3> SUFFICES ASSUME NEW g \in LegFiles
                   PROVE  /\ tree'[g] # Torn
                          /\ g \notin Left' =>
                               \A k \in KindsOf(g) \ {"sentinel"} : tree'[g][k] = run.target
        OBVIOUS
      <3>1. CASE g # f
        <4>1. tree'[g] = tree[g] /\ (g \notin Left' => g \notin Left)
          BY <1>1, <1>7, <3>1
        <4>. QED
          BY <1>10, <4>1 DEF Done
      <3>2. CASE g = f
        BY <1>9, <3>2
      <3>. QED
        BY <3>1, <3>2
    <2>2. Registry \notin Left' =>
            tree'[Registry] = [address |-> IF Release(run.target) THEN run.target ELSE Null]
      BY <1>1, <1>6, <1>8, <1>10 DEF Done
    <2>3. Release(run.target) /\ Package \notin Left' => tree'[Package] = [version |-> run.version]
      BY <1>1, <1>5, <1>8, <1>10 DEF Done
    <2>4. Release(run.target) /\ Changelog \notin Left' =>
            /\ tree'[Changelog] # Torn /\ Len(tree'[Changelog].entries) > 0
            /\ tree'[Changelog].entries[1] = Entry
      <3>1. CASE f = Changelog
        <4>1. DOMAIN tree'[Changelog] = {"entries"}
          BY <1>12, <3>1
        <4>2. tree'[Changelog] # Torn
          BY <4>1, NotTorn
        <4>. QED
          BY <1>12, <3>1, <4>2
      <3>2. CASE f # Changelog
        BY <1>1, <1>4, <1>10, <3>2 DEF Done
      <3>. QED
        BY <3>1, <3>2
    <2>5. Entry' = Entry
      BY <1>1 DEF Entry
    <2>. QED
      BY <1>1, <2>1, <2>2, <2>3, <2>4, <2>5 DEF Done
  <1>17. Ahead'
    <2>1. Package \in Left' => tree'[Package] # Torn /\ tree'[Package].version <= run.version
      <3>1. CASE f = Package
        <4>1. tree'[Package] = [version |-> run.version]
          BY <1>8, <3>1
        <4>2. DOMAIN tree'[Package] = {"version"} /\ tree'[Package].version = run.version
          BY <4>1
        <4>. QED
          BY <1>8, <4>2, NotTorn, AddressFacts
      <3>2. CASE f # Package
        BY <1>1, <1>5, <1>10, <3>2 DEF Ahead
      <3>. QED
        BY <3>1, <3>2
    <2>2. Changelog \in Left' /\ tree'[Changelog] # Torn =>
            \A i \in 1 .. Len(tree'[Changelog].entries) :
              tree'[Changelog].entries[i].version < run.version
      BY <1>1, <1>4, <1>10 DEF Ahead
    <2>3. \A i \in 1 .. Len(run'.todo) :
            run'.todo[i] = Changelog => i = Len(run'.todo) /\ Release(run.target)
      <3> SUFFICES ASSUME NEW i \in 1 .. Len(run'.todo), run'.todo[i] = Changelog
                   PROVE  i = Len(run'.todo) /\ Release(run.target)
        OBVIOUS
      <3>1. i + 1 = Len(run.todo) /\ Release(run.target)
        BY <1>2, <1>10 DEF Ahead
      <3>2. Len(run.todo) \in Nat
        BY DEF Typed, RunType
      <3>. QED
        BY <1>2, <3>1, <3>2
    <2>. QED
      BY <1>1, <2>1, <2>2, <2>3 DEF Ahead
  <1>18. Progress'
    <2>1. outcome # "complete"
      BY <1>3 DEF Progress
    <2>. QED
      BY <1>3, <1>16, <1>17, <2>1 DEF Progress
  <1>19. Versions'
    <2>1. CASE f = Changelog
      <3>1. tree'[Package] = [version |-> run.version] /\ tree'[Package].version = run.version
        BY <1>5, <1>12, <2>1, Apart
      <3>2. Entry.version = run.version /\ run.version \in Nat
        BY <1>8, AddressFacts DEF Entry
      <3>3. \A i \in 1 .. Len(tree'[Changelog].entries) :
              tree'[Changelog].entries[i].version <= run.version
        <4> SUFFICES ASSUME NEW i \in 1 .. Len(tree'[Changelog].entries)
                     PROVE  tree'[Changelog].entries[i].version <= run.version
          OBVIOUS
        <4>1. CASE i = 1
          BY <1>12, <2>1, <3>2, <4>1
        <4>2. CASE i # 1
          <5>1. /\ tree'[Changelog].entries[i] = tree[Changelog].entries[i - 1]
                /\ tree[Changelog].entries[i - 1] \in EntryType
                /\ tree[Changelog].entries[i - 1].version < run.version
            BY <1>13, <2>1, <4>2
          <5>2. tree[Changelog].entries[i - 1].version \in 0 .. MaxVersion
            BY <5>1 DEF EntryType
          <5>. QED
            BY <3>2, <5>1, <5>2, AddressFacts
        <4>. QED
          BY <4>1, <4>2
      <3>4. DOMAIN tree'[Changelog].entries = 1 .. Len(tree'[Changelog].entries)
        BY <1>12, <2>1
      <3>5. ASSUME NEW i \in 1 .. Len(tree'[Changelog].entries),
                   NEW j \in 1 .. Len(tree'[Changelog].entries), i < j
            PROVE  tree'[Changelog].entries[i].version > tree'[Changelog].entries[j].version
        <4>1. /\ j - 1 \in 1 .. Len(tree[Changelog].entries)
              /\ tree'[Changelog].entries[j] = tree[Changelog].entries[j - 1]
              /\ tree[Changelog].entries[j - 1] \in EntryType
              /\ tree[Changelog].entries[j - 1].version < run.version
          BY <1>13, <2>1, <3>5
        <4>2. CASE i = 1
          BY <1>12, <2>1, <3>2, <4>1, <4>2, AddressFacts DEF EntryType
        <4>3. CASE i # 1
          <5>1. /\ i - 1 \in 1 .. Len(tree[Changelog].entries)
                /\ tree'[Changelog].entries[i] = tree[Changelog].entries[i - 1]
                /\ i - 1 < j - 1
            BY <1>13, <2>1, <3>5, <4>3
          <5>2. DOMAIN tree[Changelog].entries = 1 .. Len(tree[Changelog].entries)
            BY <1>12, <2>1 DEF Typed
          <5>. QED
            BY <1>12, <2>1, <4>1, <5>1, <5>2 DEF Versions, ReleasesGrow
        <4>. QED
          BY <4>2, <4>3
      <3>. QED
        BY <3>1, <3>3, <3>4, <3>5 DEF Versions, ReleasesGrow
    <2>2. CASE f = Package
      <3>1. /\ tree'[Package] = [version |-> run.version] /\ tree'[Package].version = run.version
            /\ tree'[Changelog] = tree[Changelog]
        BY <1>4, <1>8, <2>2, Apart
      <3>2. tree[Package] # Torn /\ tree[Package].version <= run.version
        BY <1>1, <1>10, <2>2 DEF Ahead
      <3>3. tree[Package].version \in 0 .. MaxVersion
        BY <3>2 DEF Typed
      <3>4. tree[Changelog] # Torn =>
              \A i \in 1 .. Len(tree[Changelog].entries) :
                tree[Changelog].entries[i].version <= run.version
        <4> SUFFICES ASSUME tree[Changelog] # Torn, NEW i \in 1 .. Len(tree[Changelog].entries)
                     PROVE  tree[Changelog].entries[i].version <= run.version
          OBVIOUS
        <4>1. tree[Changelog].entries[i].version <= tree[Package].version
          BY <3>2 DEF Versions
        <4>2. tree[Changelog].entries[i] \in EntryType
          BY DEF Typed
        <4>. QED
          BY <1>8, <3>2, <3>3, <4>1, <4>2, AddressFacts DEF EntryType
      <3>. QED
        BY <3>1, <3>4 DEF Versions, ReleasesGrow
    <2>3. CASE f # Changelog /\ f # Package
      BY <1>4, <1>5, <2>3 DEF Versions, ReleasesGrow
    <2>. QED
      BY <2>1, <2>2, <2>3
  <1>20. FrozenIsProven'
    <2>1. run.target \in Genuine \union asserted \union {Placeholder}
      BY <1>3 DEF Vouched, Release
    <2>2. ASSUME NEW g \in LegFiles, NEW k \in DOMAIN tree'[g]
          PROVE  tree'[g][k] \in Genuine \union asserted' \union {Placeholder}
      <3>1. CASE g # f
        BY <1>3, <1>7, <2>2, <3>1 DEF FrozenIsProven
      <3>2. CASE g = f
        <4>1. k \in KindsOf(f) /\ k \in DOMAIN tree[f]
          BY <1>9, <2>2, <3>2
        <4>2. CASE k = "sentinel"
          BY <1>3, <1>9, <2>2, <3>2, <4>1, <4>2 DEF FrozenIsProven
        <4>3. CASE k # "sentinel"
          BY <1>3, <1>9, <2>1, <2>2, <3>2, <4>1, <4>3
        <4>. QED
          BY <4>2, <4>3
      <3>. QED
        BY <3>1, <3>2
    <2>3. tree'[Registry] # Torn =>
            tree'[Registry].address \in Genuine \union asserted' \union {Placeholder} \union {Null}
      BY <1>3, <1>6, <1>8, <2>1 DEF FrozenIsProven
    <2>4. ASSUME tree'[Changelog] # Torn, NEW i \in DOMAIN tree'[Changelog].entries
          PROVE  tree'[Changelog].entries[i].address \in
                   IF tree'[Changelog].entries[i].manual THEN asserted' ELSE Genuine
      <3>1. CASE f # Changelog
        BY <1>3, <1>4, <2>4, <3>1 DEF FrozenIsProven
      <3>2. CASE f = Changelog
        <4>1. i \in 1 .. Len(tree'[Changelog].entries)
          BY <1>12, <2>4, <3>2
        <4>2. CASE i = 1
          <5>1. /\ Entry.address = run.target
                /\ Entry.manual = (run.mode = "manual")
            BY DEF Entry
          <5>2. run.target \in IF run.mode = "manual" THEN asserted ELSE Genuine
            BY <1>3, <1>12, <3>2 DEF Vouched
          <5>. QED
            BY <1>3, <1>12, <3>2, <4>2, <5>1, <5>2
        <4>3. CASE i # 1
          <5>1. /\ i - 1 \in 1 .. Len(tree[Changelog].entries)
                /\ tree'[Changelog].entries[i] = tree[Changelog].entries[i - 1]
            BY <1>13, <3>2, <4>1, <4>3
          <5>2. DOMAIN tree[Changelog].entries = 1 .. Len(tree[Changelog].entries)
            BY <1>12, <3>2 DEF Typed
          <5>. QED
            BY <1>3, <1>12, <3>2, <5>1, <5>2 DEF FrozenIsProven
        <4>. QED
          BY <4>2, <4>3
      <3>. QED
        BY <3>1, <3>2
    <2>. QED
      BY <2>2, <2>3, <2>4 DEF FrozenIsProven
  <1>21. SentinelNeverMoves'
    <2> SUFFICES ASSUME NEW g \in Pinned, tree'[g] # Torn PROVE tree'[g].sentinel = Placeholder
      BY DEF SentinelNeverMoves
    <2>1. CASE g # f
      BY <1>7, <2>1 DEF SentinelNeverMoves
    <2>2. CASE g = f
      <3>1. f \in LegFiles \/ f \in ToSet(Generated)
        BY <1>1, <2>2, Apart DEF Writable
      <3>. QED
        BY <1>9, <2>2, <3>1, Apart DEF SentinelNeverMoves
    <2>. QED
      BY <2>1, <2>2
  <1>. QED
    BY <1>14, <1>15, <1>18, <1>19, <1>20, <1>21

(* The invariant is inductive. *)
LEMMA RefreezeStarts == Init => RefreezeInv
  <1> SUFFICES ASSUME Init PROVE RefreezeInv
    OBVIOUS
  <1>1. /\ tree = [f \in Files |-> tree[f]]
        /\ pc = "idle" /\ outcome = "none" /\ asserted = {} /\ run = NoRun
    BY DEF Init
  <1>2. \A f \in Files : tree[f] = CASE f = Registry -> [address |-> Null]
                                     [] f = Package -> [version |-> 0]
                                     [] f = Changelog -> [entries |-> <<>>]
                                     [] OTHER -> [k \in KindsOf(f) |-> Placeholder]
    BY DEF Init
  <1>3. /\ tree[Registry] = [address |-> Null] /\ tree[Package] = [version |-> 0]
        /\ tree[Changelog] = [entries |-> <<>>]
    BY <1>2, Apart
  <1>4. \A f \in LegFiles \union Pinned : tree[f] = [k \in KindsOf(f) |-> Placeholder]
    BY <1>2, Apart
  <1>5. Typed
    <2>1. \A f \in LegFiles \union Pinned :
            tree[f] \in [KindsOf(f) -> Addresses] /\ tree[f] # Torn
      <3> SUFFICES ASSUME NEW f \in LegFiles \union Pinned
                   PROVE  tree[f] \in [KindsOf(f) -> Addresses] /\ tree[f] # Torn
        OBVIOUS
      <3>1. tree[f] = [k \in KindsOf(f) |-> Placeholder] /\ KindsOf(f) # {}
        BY <1>4, Apart
      <3>2. DOMAIN tree[f] = KindsOf(f)
        BY <3>1
      <3>3. tree[f] # Torn
        BY <3>1, <3>2, NotTorn
      <3>. QED
        BY <3>1, <3>3, AddressFacts
    <2>2. /\ tree[Registry] \in [address : Addresses \union {Null}]
          /\ tree[Package] \in [version : 0 .. MaxVersion]
      BY <1>3, AddressFacts
    <2>3. tree[Changelog] \in [entries : Seq(EntryType)]
      BY <1>3
    <2>. QED
      BY <1>1, <2>1, <2>2, <2>3, AddressFacts DEF Typed
  <1>6. Vouched /\ Progress
    BY <1>1 DEF Vouched, Progress, Current
  <1>7. Versions
    BY <1>3 DEF Versions, ReleasesGrow
  <1>8. FrozenIsProven
    <2>1. \A f \in LegFiles : \A k \in DOMAIN tree[f] : tree[f][k] = Placeholder
      BY <1>4
    <2>2. tree[Registry].address = Null /\ DOMAIN tree[Changelog].entries = {}
      BY <1>3
    <2>. QED
      BY <2>1, <2>2 DEF FrozenIsProven
  <1>9. SentinelNeverMoves
    <2>1. \A f \in Pinned : "sentinel" \in KindsOf(f)
      BY Apart
    <2>2. ASSUME NEW f \in Pinned PROVE tree[f].sentinel = Placeholder
      <3>1. tree[f] = [k \in KindsOf(f) |-> Placeholder]
        BY <1>4
      <3>. QED
        BY ONLY <2>1, <3>1
    <2>. QED
      BY <2>2 DEF SentinelNeverMoves
  <1>. QED
    BY <1>5, <1>6, <1>7, <1>8, <1>9 DEF RefreezeInv

(* Every step of the script, and every way it stops, keeps the invariant. *)
LEMMA RefreezeStep == RefreezeInv /\ [Next]_vars => RefreezeInv'
  <1> SUFFICES ASSUME RefreezeInv, [Next]_vars PROVE RefreezeInv'
    OBVIOUS
  <1>1. ASSUME NEW target \in Addresses, BeginUnreadable(target) \/ BeginNothing(target)
        PROVE  RefreezeInv'
    BY <1>1, EndStep DEF BeginUnreadable, BeginNothing
  <1>2. ASSUME NEW target \in Addresses, NEW mode \in Modes, Begin(target, mode)
        PROVE  RefreezeInv'
    BY <1>2, BeginStep
  <1>3. CASE Write
    BY <1>3, WriteStep
  <1>4. CASE Tear
    BY <1>4, TearStep
  <1>5. CASE Report \/ Verify \/ Preflight \/ RunCoherence \/ Complete \/ Stop
    BY <1>5, QuietStep
  <1>6. CASE UNCHANGED vars
    <2>1. Done' = Done /\ Ahead' = Ahead
      BY <1>6 DEF vars, Done, Ahead, Left, Entry
    <2>2. Vouched' /\ Progress'
      BY <1>6, <2>1 DEF RefreezeInv, vars, Vouched, Progress, Current
    <2>3. /\ asserted \subseteq Addresses /\ run \in RunType
          /\ pc \in {"idle", "planned", "verified", "writing", "gated"}
      BY DEF RefreezeInv, Typed
    <2>. QED
      BY <1>6, <2>2, <2>3, StillTree DEF vars
  <1>. QED
    BY <1>1, <1>2, <1>3, <1>4, <1>5, <1>6 DEF Next

(* Wherever runs stop, and however often they are begun again: what a run has not yet *)
(* to write is already as it wants it, it writes only with its target vouched for, and *)
(* the changelog is never ahead of the package.                                        *)
THEOREM RefreezeInvariant == Spec => []RefreezeInv
  BY RefreezeStarts, RefreezeStep, PTL DEF Spec

(* The types, and that no file a run does not write is ever torn. *)
THEOREM RefreezeTypeCorrect == Spec => []TypeOK
  <1>1. RefreezeInv => TypeOK
    <2> SUFFICES ASSUME Typed PROVE TypeOK
      BY DEF RefreezeInv
    <2>1. DOMAIN tree = Files
      BY DEF Typed
    <2>2. /\ tree[Registry] = Torn \/ tree[Registry].address \in Addresses \union {Null}
          /\ tree[Package] = Torn \/ tree[Package].version \in 0 .. MaxVersion
      BY DEF Typed
    <2>3. /\ run.target \in Addresses /\ run.mode \in Modes /\ run.version \in 0 .. MaxVersion
          /\ run.todo \in Seq(Files)
      <3>1. run.todo \in Seq(Writable) /\ Writable \subseteq Files
        BY Apart DEF Typed, RunType
      <3>. QED
        BY <3>1 DEF Typed, RunType
    <2>. QED
      BY <2>1, <2>2, <2>3 DEF Typed, TypeOK
  <1>. QED
    BY <1>1, RefreezeInvariant, PTL

(* At whatever step a run stops, no leg and no registry slot names an address that was *)
(* neither verified on chain nor vouched for, and the changelog says which of the two. *)
THEOREM OnlyProvenIsFrozen == Spec => []FrozenIsProven
  <1>1. RefreezeInv => FrozenIsProven
    BY DEF RefreezeInv
  <1>. QED
    BY <1>1, RefreezeInvariant, PTL

(* The placebo sentinels are 0x1111...1111 in every state. *)
THEOREM SentinelsStay == Spec => []SentinelNeverMoves
  <1>1. RefreezeInv => SentinelNeverMoves
    BY DEF RefreezeInv
  <1>. QED
    BY <1>1, RefreezeInvariant, PTL

(* A green gate means one address in all legs, and a registry that is null or names it. *)
LEMMA GreenIsOne ==
  ASSUME Typed, Coherent
  PROVE  \E a \in Addresses :
           /\ \A f \in LegFiles : \A k \in DOMAIN tree[f] \ {"sentinel"} : tree[f][k] = a
           /\ tree[Registry] # Torn => tree[Registry].address \in {Null, a}
  <1>1. /\ Spenders[1] \in LegFiles /\ "spender" \in KindsOf(Spenders[1])
        /\ Digests[1] \in LegFiles /\ "digest" \in KindsOf(Digests[1])
    BY Lists, Apart DEF LegFiles
  <1>2. \A f \in LegFiles : DOMAIN tree[f] \subseteq KindsOf(f)
    <2>1. \A f \in LegFiles : tree[f] = Torn \/ tree[f] \in [KindsOf(f) -> Addresses]
      BY DEF Typed
    <2>. QED
      BY <2>1 DEF Torn
  <1>3. Frozen \in Addresses
    <2>1. "spender" \in DOMAIN tree[Spenders[1]]
      BY <1>1, Apart DEF Coherent, Extracted, SpecOf
    <2>2. tree[Spenders[1]] # Torn
      BY <2>1 DEF Torn
    <2>3. tree[Spenders[1]] \in [KindsOf(Spenders[1]) -> Addresses]
      BY <1>1, <2>2 DEF Typed
    <2>. QED
      BY <1>1, <2>3 DEF Frozen
  <1>4. ASSUME NEW f \in LegFiles, NEW k \in KindsOf(f) \ {"sentinel"}
        PROVE  tree[f][k] = Frozen
    <2>1. CASE k = "spender"
      BY <1>1, <1>4, <2>1, Apart DEF Coherent, Uniform, SpecOf, Frozen
    <2>2. CASE k = "digest"
      <3>1. tree[f].digest = tree[Digests[1]].digest
        BY <1>1, <1>4, <2>2, Apart DEF Coherent, Uniform, SpecOf
      <3>. QED
        BY <2>2, <3>1 DEF Coherent, Referee
    <2>. QED
      BY <1>4, <2>1, <2>2, Apart
  <1>5. tree[Registry].address \in {Null, Frozen}
    BY DEF Coherent, DeploymentsAgree
  <1>. QED
    BY <1>2, <1>3, <1>4, <1>5

(* The tree mixes these two addresses and no third. *)
MixesOnly(a, b) ==
  /\ \A f \in LegFiles : \A k \in DOMAIN tree[f] \ {"sentinel"} : tree[f][k] \in {a, b}
  /\ tree[Registry] # Torn => tree[Registry].address \in {Null, a, b}

(* Once a run may write, one of the two is its target. *)
MixesTarget ==
  /\ MixesTwoAtMost
  /\ pc \in {"writing", "gated"} => \E a \in Addresses : MixesOnly(a, run.target)

(* A write brings the target in, and nothing else. *)
LEMMA WriteMixes ==
  ASSUME RefreezeInv, MixesTarget, Write
  PROVE  MixesTarget'
  <1> DEFINE f == Head(run.todo)
  <1>1. PICK a \in Addresses : MixesOnly(a, run.target)
    BY DEF MixesTarget, Write
  <1>2. run'.target = run.target /\ run.target \in Addresses /\ pc' = pc
    <2>1. run'.target = run.target /\ pc' = pc
      BY WriteRun DEF Write
    <2>2. run.target \in Addresses
      BY DEF RefreezeInv, Typed, RunType
    <2>. QED
      BY <2>1, <2>2
  <1>3. /\ f \in LegFiles =>
             /\ tree'[f] \in [KindsOf(f) -> Addresses] /\ tree'[f] # Torn
             /\ \A k \in KindsOf(f) \ {"sentinel"} : tree'[f][k] = run.target
             /\ "sentinel" \in KindsOf(f) => tree'[f].sentinel = tree[f].sentinel
             /\ tree[f] \in [KindsOf(f) -> Addresses] /\ tree[f] # Torn
        /\ f \in ToSet(Generated) =>
             tree'[f] \in [KindsOf(f) -> Addresses] /\ tree'[f].sentinel = Placeholder
    BY WriteFile
  <1>4. f = Registry => tree'[f] = [address |-> IF Release(run.target) THEN run.target ELSE Null]
    BY WriteFile
  <1>5. \A g \in LegFiles \union {Registry} : g = f \/ tree'[g] = tree[g]
    <2>1. \A g \in Files : g # f => tree'[g] = tree[g]
      BY WriteFile
    <2>2. LegFiles \union {Registry} \subseteq Files
      BY Apart
    <2>. QED
      BY <2>1, <2>2
  <1> HIDE DEF f
  <1>6. ASSUME NEW g \in LegFiles, NEW k \in DOMAIN tree'[g] \ {"sentinel"}
        PROVE  tree'[g][k] \in {a, run.target}
    <2>1. CASE g = f
      BY <1>3, <1>6, <2>1
    <2>2. CASE g # f
      <3>1. tree'[g] = tree[g]
        BY <1>5, <2>2
      <3>. QED
        BY <1>1, <1>6, <3>1 DEF MixesOnly
    <2>. QED
      BY <2>1, <2>2
  <1>7. tree'[Registry] # Torn => tree'[Registry].address \in {Null, a, run.target}
    <2>1. CASE Registry = f
      BY <1>4, <2>1
    <2>2. CASE Registry # f
      BY <1>1, <1>5, <2>2 DEF MixesOnly
    <2>. QED
      BY <2>1, <2>2
  <1>8. MixesTwoAtMost'
    BY <1>2, <1>6, <1>7 DEF MixesTwoAtMost
  <1>9. \E c \in Addresses : MixesOnly(c, run.target)'
    BY <1>2, <1>6, <1>7 DEF MixesOnly
  <1>. QED
    BY <1>2, <1>8, <1>9 DEF MixesTarget, MixesOnly

(* A torn file names nothing. *)
LEMMA TearMixes ==
  ASSUME RefreezeInv, MixesTarget, Tear
  PROVE  MixesTarget'
  <1> DEFINE f == Head(run.todo)
  <1>1. f \in Writable
    BY DEF RefreezeInv, Tear, Typed, RunType
  <1>2. pc' = "idle" /\ \A g \in Files : tree'[g] = IF g = f THEN Torn ELSE tree[g]
    BY <1>1, Apart DEF RefreezeInv, Tear, Typed
  <1> HIDE DEF f
  <1>3. PICK a, b \in Addresses :
          /\ \A g \in LegFiles : \A k \in DOMAIN tree[g] \ {"sentinel"} : tree[g][k] \in {a, b}
          /\ tree[Registry] # Torn => tree[Registry].address \in {Null, a, b}
    BY DEF MixesTarget, MixesTwoAtMost
  <1>4. \A g \in LegFiles : \A k \in DOMAIN tree'[g] \ {"sentinel"} : tree'[g][k] \in {a, b}
    BY <1>2, <1>3, Apart DEF Torn
  <1>5. tree'[Registry] # Torn => tree'[Registry].address \in {Null, a, b}
    BY <1>2, <1>3, Apart
  <1>6. MixesTwoAtMost'
    BY <1>4, <1>5 DEF MixesTwoAtMost
  <1>. QED
    BY <1>2, <1>6 DEF MixesTarget

(* Any other step leaves the files alone, and one of them begins to write: on a tree that *)
(* is green, where all there is besides the target is one address.                        *)
LEMMA StepMixes ==
  ASSUME RefreezeInv, MixesTarget, [Next]_vars
  PROVE  MixesTarget'
  <1>1. ASSUME UNCHANGED tree PROVE MixesTwoAtMost'
    BY <1>1 DEF MixesTarget, MixesTwoAtMost
  <1>2. ASSUME UNCHANGED tree, pc' \notin {"writing", "gated"} PROVE MixesTarget'
    BY <1>1, <1>2 DEF MixesTarget
  <1>3. ASSUME UNCHANGED <<tree, run>>, pc \in {"writing", "gated"} PROVE MixesTarget'
    <2>1. \E a \in Addresses : MixesOnly(a, run.target)'
      BY <1>3 DEF MixesTarget, MixesOnly
    <2>. QED
      BY <1>1, <1>3, <2>1 DEF MixesTarget, MixesOnly
  <1>4. CASE Preflight
    <2>1. UNCHANGED <<tree, run>> /\ Typed /\ Coherent
      BY <1>4 DEF Preflight, RefreezeInv
    <2>2. PICK a \in Addresses :
            /\ \A f \in LegFiles : \A k \in DOMAIN tree[f] \ {"sentinel"} : tree[f][k] = a
            /\ tree[Registry] # Torn => tree[Registry].address \in {Null, a}
      BY <2>1, GreenIsOne
    <2>3. MixesOnly(a, run.target)
      BY <2>2 DEF MixesOnly
    <2>4. \E c \in Addresses : MixesOnly(c, run.target)'
      BY <2>1, <2>3 DEF MixesOnly
    <2>. QED
      BY <1>1, <2>1, <2>4 DEF MixesTarget, MixesOnly
  <1>5. CASE RunCoherence
    BY <1>3, <1>5 DEF RunCoherence
  <1>6. CASE UNCHANGED vars
    BY <1>2, <1>3, <1>6 DEF vars
  <1>7. CASE \/ \E target \in Addresses :
                  \/ BeginUnreadable(target) \/ BeginNothing(target)
                  \/ \E mode \in Modes : Begin(target, mode)
             \/ Report \/ Verify \/ Complete \/ Stop
    <2>1. UNCHANGED tree /\ pc' \notin {"writing", "gated"}
      BY <1>7 DEF BeginUnreadable, BeginNothing, Begin, Report, Verify, Complete, Stop
    <2>. QED
      BY <1>2, <2>1
  <1>. QED
    BY <1>4, <1>5, <1>6, <1>7, WriteMixes, TearMixes DEF Next

(* Wherever runs stop, and however many: the legs and the registry never mix more than *)
(* two addresses, because no run writes over a tree that is not green.                 *)
THEOREM TwoSpendersAtMost == Spec => []MixesTwoAtMost
  <1>1. Init => MixesTarget
    <2> SUFFICES ASSUME Init PROVE MixesTarget
      OBVIOUS
    <2>1. \A f \in LegFiles : tree[f] = [k \in KindsOf(f) |-> Placeholder]
      BY Apart DEF Init
    <2>2. tree[Registry] = [address |-> Null] /\ pc = "idle"
      BY Apart DEF Init
    <2>3. \A f \in LegFiles : \A k \in DOMAIN tree[f] : tree[f][k] = Placeholder
      BY <2>1
    <2>4. tree[Registry].address = Null
      BY <2>2
    <2>5. MixesOnly(Placeholder, Placeholder)
      BY <2>3, <2>4 DEF MixesOnly
    <2>. QED
      BY <2>2, <2>5, AddressFacts DEF MixesTarget, MixesTwoAtMost, MixesOnly
  <1>2. RefreezeInv /\ MixesTarget /\ [Next]_vars => MixesTarget'
    BY StepMixes
  <1>3. MixesTarget => MixesTwoAtMost
    BY DEF MixesTarget
  <1>. QED
    BY <1>1, <1>2, <1>3, RefreezeInvariant, PTL DEF Spec

(* "RE-FREEZE COMPLETE": the registry, the package and the changelog say so too. *)
THEOREM CompletedIsReleased == Spec => []CompleteIsReleased
  <1>1. RefreezeInv => CompleteIsReleased
    <2> SUFFICES ASSUME RefreezeInv, outcome = "complete"
                 PROVE  /\ Frozen = run.target
                        /\ tree[Registry].address = IF Release(run.target) THEN run.target ELSE Null
                        /\ Release(run.target) =>
                             /\ tree[Package].version = run.version
                             /\ tree[Changelog].entries[1].address = run.target
                             /\ tree[Changelog].entries[1].version = run.version
      BY DEF CompleteIsReleased
    <2>1. Done /\ run.todo = <<>>
      BY DEF RefreezeInv, Progress, Current
    <2>2. Left = {}
      BY <2>1 DEF Left
    <2>3. Frozen = run.target
      <3>1. /\ Spenders[1] \in LegFiles /\ "spender" \in KindsOf(Spenders[1])
            /\ Spenders[1] \notin Left
        BY <2>2, Lists, Apart DEF LegFiles
      <3>2. tree[Spenders[1]].spender = run.target
        BY <2>1, <3>1 DEF Done
      <3>. QED
        BY <3>2 DEF Frozen
    <2>4. tree[Registry] = [address |-> IF Release(run.target) THEN run.target ELSE Null]
      BY <2>1, <2>2 DEF Done
    <2>5. Release(run.target) => /\ tree[Package] = [version |-> run.version]
                                 /\ tree[Changelog].entries[1] = Entry
      BY <2>1, <2>2 DEF Done
    <2>. QED
      BY <2>3, <2>4, <2>5 DEF Entry
  <1>. QED
    BY <1>1, RefreezeInvariant, PTL

(* However many runs stopped half way, newer entries of the changelog have newer versions. *)
THEOREM ReleasesAreMonotonic == Spec => []ReleasesGrow
  <1>1. RefreezeInv => ReleasesGrow
    BY DEF RefreezeInv, Versions
  <1>. QED
    BY <1>1, RefreezeInvariant, PTL
================================================================================
