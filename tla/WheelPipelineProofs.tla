------------------------- MODULE WheelPipelineProofs -------------------------
(* Theorems about WheelPipeline, for any packages, versions, runtimes and  *)
(* commits and any number of jobs.                                         *)
EXTENDS WheelPipeline, TLAPS

Manifests ==
  [pkg : Packages, version : Versions, abi : Abis, channel : Channels, runtime : Runtimes,
   source : Sources, sha : Wheels, url : Url]

Indexes == [packages : SUBSET Manifests, abi : [Abis -> SUBSET Manifests]]

Trees ==
  [rev : Nat, recipe : [Packages -> Recipe], src : [Packages -> Sources],
   locked : [Packages -> Sources], lock : Lock, manifests : SUBSET Manifests,
   index : [Runtimes -> Indexes]]

-----------------------------------------------------------------------------
(* A checkout, whoever has it                                              *)

(* The manifest tells the truth about its wheel. *)
Locked(m) == m.sha.src = m.source /\ m.sha.abi = m.abi

Known(t) == t.manifests \cup Offered(t)

TreeInv(t) ==
  /\ t \in Trees
  /\ \A m \in Known(t) : Locked(m)
  /\ \A r \in Runtimes, a \in Abis : \A m \in t.index[r].abi[a] : m.abi = a

-----------------------------------------------------------------------------
(* The branch and the jobs                                                 *)

MainInv == TreeInv(main)

FileNames(t) == {File(m) : m \in t.manifests}

(* A job's checkout was the branch once, and is the branch as long as no   *)
(* commit was made since.                                                  *)
Based(j) ==
  /\ base[j] \in Trees /\ base[j].rev <= main.rev
  /\ base[j].rev = main.rev => base[j].manifests = main.manifests
  /\ FileNames(base[j]) \subseteq FileNames(tree[j])

(* To the manifests of the commit it works on it adds its own only. *)
Added(j) ==
  \A m \in tree[j].manifests :
    \/ m \in base[j].manifests
    \/ pc[j] \in {"release", "upload", "push"} /\ m.url = Asset(j) /\ m.sha = wheel[j]

(* The wheel in its hands is what the checkout's recipe says. *)
Built(j) ==
  /\ pc[j] \in {"inspect", "index", "release", "upload", "push"} => wheel[j] \in Wheels
  /\ pc[j] \in {"inspect", "index"} =>
       wheel[j].src = tree[j].recipe[rq[j].pkg].sha /\ wheel[j].abi = rq[j].abi

JobInv(j) ==
  pc[j] \in Running => rq[j] \in Request /\ TreeInv(tree[j]) /\ Based(j) /\ Added(j) /\ Built(j)

Types ==
  /\ pc \in [Jobs -> Running \cup {"new", "ended"}]
  /\ rq \in [Jobs -> Request \cup {None}]
  /\ base \in [Jobs -> Trees \cup {None}] /\ tree \in [Jobs -> Trees \cup {None}]
  /\ wheel \in [Jobs -> Wheels \cup {None}]
  /\ releases \in [Url -> Wheels \cup {None}]

Inv == Types /\ MainInv /\ \A j \in Jobs : JobInv(j)

-----------------------------------------------------------------------------
(* The index, while developers regenerate it for all channels              *)

AllChannels == LocalChannels \subseteq {"all"}

Alike(x, m) == x.pkg = m.pkg /\ x.abi = m.abi

(* No manifest of the same package and ABI is collected after x. *)
Latest(x, ms) == \A y \in ms : Alike(y, x) => ~ CollectedBefore(x, y)

Topped(ms) == \A m \in ms : \E x \in ms : Alike(x, m) /\ Latest(x, ms)

Covers(t) ==
  /\ \A m \in t.manifests : \E r \in Runtimes : \E x \in t.index[r].abi[m.abi] :
       x.pkg = m.pkg /\ ~ CollectedBefore(x, m)
  /\ \A r \in Runtimes : \A m \in t.index[r].packages : m \in t.index[r].abi[m.abi]

Covering(t) == Topped(t.manifests) /\ Covers(t)

CoverInv == Covering(main) /\ \A j \in Jobs : pc[j] \in Running => Covering(tree[j])

-----------------------------------------------------------------------------
(* The scripts                                                             *)

(* The file and what the index offers, spelled out. *)
LEMMA KnownIs ==
  ASSUME NEW t, NEW m
  PROVE  m \in Known(t) <=> m \in t.manifests \/ \E r \in Runtimes, a \in Abis : m \in t.index[r].abi[a]
  BY DEF Known, Offered

(* Only manifests of the checkout are indexed; indexes of other runtimes   *)
(* stay as they are.                                                       *)
LEMMA Generated ==
  ASSUME NEW t \in Trees, NEW c
  PROVE  \E u \in Trees :
           /\ u = GenerateIndex(t, c)
           /\ u.manifests = t.manifests /\ u.rev = t.rev /\ u.recipe = t.recipe /\ u.lock = t.lock
           /\ \A r \in Runtimes : r # t.lock.id => u.index[r] = t.index[r]
           /\ t.lock.id \in Runtimes
           /\ u.index[t.lock.id].packages = GeneratePackagesJson(CollectManifests(t.manifests, c))
           /\ \A a \in Abis :
                u.index[t.lock.id].abi[a] = GenerateAbiJson(CollectManifests(t.manifests, c), a)
<1> DEFINE ms == CollectManifests(t.manifests, c)
           ix == [packages |-> GeneratePackagesJson(ms), abi |-> [a \in Abis |-> GenerateAbiJson(ms, a)]]
           u == [t EXCEPT !.index[t.lock.id] = ix]
<1>1. ms \subseteq Manifests
  BY DEF CollectManifests, Trees
<1>2. ix \in Indexes
  BY <1>1 DEF Indexes, GeneratePackagesJson, GenerateAbiJson
<1>3. u = GenerateIndex(t, c)
  BY DEF GenerateIndex
<1>4. t.lock.id \in Runtimes
  BY DEF Trees, Lock
<1>5. u \in Trees
  BY <1>2, <1>4 DEF Trees
<1>6. u.index[t.lock.id] = ix /\ \A r \in Runtimes : r # t.lock.id => u.index[r] = t.index[r]
  BY <1>4 DEF Trees
<1>7. u.manifests = t.manifests /\ u.rev = t.rev /\ u.recipe = t.recipe /\ u.lock = t.lock
  BY DEF Trees
<1>8. ix.packages = GeneratePackagesJson(ms) /\ \A a \in Abis : ix.abi[a] = GenerateAbiJson(ms, a)
  OBVIOUS
<1> HIDE DEF u, ix, ms
<1>9. u.index[t.lock.id].packages = GeneratePackagesJson(ms)
      /\ \A a \in Abis : u.index[t.lock.id].abi[a] = GenerateAbiJson(ms, a)
  BY <1>6, <1>8
<1>10. /\ u = GenerateIndex(t, c)
       /\ u.manifests = t.manifests /\ u.rev = t.rev /\ u.recipe = t.recipe /\ u.lock = t.lock
       /\ \A r \in Runtimes : r # t.lock.id => u.index[r] = t.index[r]
       /\ t.lock.id \in Runtimes
       /\ u.index[t.lock.id].packages = GeneratePackagesJson(CollectManifests(t.manifests, c))
       /\ \A a \in Abis :
            u.index[t.lock.id].abi[a] = GenerateAbiJson(CollectManifests(t.manifests, c), a)
  BY <1>3, <1>4, <1>6, <1>7, <1>9 DEF ms
<1> QED
  BY <1>5, <1>10

(* So an index made anew offers nothing that was not known. *)
LEMMA GeneratedInv ==
  ASSUME NEW t, TreeInv(t), NEW c
  PROVE  TreeInv(GenerateIndex(t, c)) /\ Known(GenerateIndex(t, c)) \subseteq Known(t)
<1>0. t \in Trees
  BY DEF TreeInv
<1>1. PICK u \in Trees :
        /\ u = GenerateIndex(t, c)
        /\ u.manifests = t.manifests
        /\ \A r \in Runtimes : r # t.lock.id => u.index[r] = t.index[r]
        /\ \A a \in Abis :
             u.index[t.lock.id].abi[a] = GenerateAbiJson(CollectManifests(t.manifests, c), a)
  BY <1>0, Generated
<1>2. ASSUME NEW r \in Runtimes, NEW a \in Abis, NEW m \in u.index[r].abi[a]
      PROVE  m.abi = a /\ m \in Known(t)
  <2>1. CASE r = t.lock.id
    BY <1>1, <1>2, <2>1, KnownIs DEF GenerateAbiJson, GeneratePackagesJson, CollectManifests
  <2>2. CASE r # t.lock.id
    BY <1>1, <1>2, <2>2, KnownIs DEF TreeInv
  <2> QED
    BY <2>1, <2>2
<1>3. ASSUME NEW m \in Known(u)
      PROVE  m \in Known(t)
  BY <1>1, <1>2, <1>3, KnownIs
<1>4. TreeInv(u)
  BY <1>2, <1>3 DEF TreeInv
<1> QED
  BY <1>1, <1>3, <1>4

(* A manifest is what the request, the recipe and the wheel make it. *)
LEMMA ManifestIs ==
  ASSUME NEW t \in Trees, NEW r \in Request, NEW w \in Wheels
  PROVE  /\ GenerateManifest(t, r, w) \in Manifests
         /\ GenerateManifest(t, r, w).url = <<r.pkg, r.version, r.abi, w.tagged>>
         /\ GenerateManifest(t, r, w).sha = w
         /\ GenerateManifest(t, r, w).source = t.recipe[r.pkg].sha
         /\ GenerateManifest(t, r, w).abi = r.abi
<1>1. r.pkg \in Packages /\ r.version \in Versions /\ r.abi \in Abis /\ r.channel \in Channels
  BY DEF Request
<1>2. t.lock.id \in Runtimes /\ t.recipe[r.pkg].sha \in Sources
  BY <1>1 DEF Trees, Lock, Recipe
<1>3. <<r.pkg, r.version, r.abi, w.tagged>> \in Url
  BY <1>1 DEF Url, Wheels
<1> QED
  BY <1>1, <1>2, <1>3 DEF GenerateManifest, Manifests

(* Saving a manifest replaces the file of that name only. *)
LEMMA Saved ==
  ASSUME NEW t \in Trees, NEW m \in Manifests
  PROVE  \E u \in Trees :
           /\ u = [t EXCEPT !.manifests = SaveManifest(@, m)]
           /\ u.manifests = SaveManifest(t.manifests, m)
           /\ u.index = t.index /\ u.rev = t.rev /\ u.recipe = t.recipe /\ u.lock = t.lock
           /\ FileNames(t) \subseteq FileNames(u)
           /\ Known(u) \subseteq Known(t) \cup {m}
<1> DEFINE ms == SaveManifest(t.manifests, m)
           u == [t EXCEPT !.manifests = ms]
<1>1. ms \subseteq t.manifests \cup {m} /\ t.manifests \subseteq Manifests
  BY DEF SaveManifest, Trees
<1>2. {File(x) : x \in t.manifests} \subseteq {File(x) : x \in ms}
  BY DEF SaveManifest
<1> HIDE DEF ms
<1>3. u \in Trees /\ u.manifests = ms /\ u.index = t.index /\ u.rev = t.rev /\ u.recipe = t.recipe /\ u.lock = t.lock
  BY <1>1 DEF Trees
<1>4. u = [t EXCEPT !.manifests = SaveManifest(@, m)]
  BY DEF ms
<1> HIDE DEF u
<1>5. Known(u) \subseteq Known(t) \cup {m}
  BY <1>1, <1>3 DEF Known, Offered
<1>6. FileNames(t) \subseteq FileNames(u)
  BY <1>2, <1>3 DEF FileNames
<1> QED
  BY <1>3, <1>4, <1>5, <1>6 DEF ms

(* The step of a job that writes its manifest and the index. *)
LEMMA Indexed ==
  ASSUME NEW t, TreeInv(t), NEW r \in Request, NEW w \in Wheels,
         w.src = t.recipe[r.pkg].sha, w.abi = r.abi
  PROVE  /\ TreeInv(IndexedTree(t, r, w))
         /\ FileNames(t) \subseteq FileNames(IndexedTree(t, r, w))
         /\ \A m \in IndexedTree(t, r, w).manifests :
             m \in t.manifests \/ (m.url = <<r.pkg, r.version, r.abi, w.tagged>> /\ m.sha = w)
<1>0. t \in Trees
  BY DEF TreeInv
<1>1. PICK m \in Manifests :
        /\ m = GenerateManifest(t, r, w) /\ Locked(m) /\ m.abi = r.abi
        /\ m.url = <<r.pkg, r.version, r.abi, w.tagged>> /\ m.sha = w
  BY <1>0, ManifestIs DEF Locked
<1>2. PICK u \in Trees :
        /\ u = [t EXCEPT !.manifests = SaveManifest(@, m)] /\ u.index = t.index
        /\ u.manifests \subseteq t.manifests \cup {m}
        /\ FileNames(t) \subseteq FileNames(u) /\ Known(u) \subseteq Known(t) \cup {m}
  BY <1>0, Saved DEF SaveManifest
<1>3. TreeInv(u)
  BY <1>1, <1>2 DEF TreeInv
<1>4. IndexedTree(t, r, w) = GenerateIndex(u, "all")
  BY <1>1, <1>2 DEF IndexedTree
<1>5. TreeInv(GenerateIndex(u, "all"))
  BY <1>3, GeneratedInv
<1>6. FileNames(GenerateIndex(u, "all")) = FileNames(u) /\ GenerateIndex(u, "all").manifests = u.manifests
  BY Generated DEF FileNames
<1> QED
  BY <1>1, <1>2, <1>4, <1>5, <1>6

-----------------------------------------------------------------------------
(* The steps of the jobs and of the developers                             *)

(* A commit, of a job or a developer, is a new revision. *)
Moves == main' = main \/ main'.rev = main.rev + 1

(* The jobs that take no step need not care. *)
LEMMA Bystander ==
  ASSUME Inv, NEW k \in Jobs, Moves,
         pc'[k] = pc[k], rq'[k] = rq[k], base'[k] = base[k], tree'[k] = tree[k], wheel'[k] = wheel[k]
  PROVE  JobInv(k)'
<1> SUFFICES ASSUME pc[k] \in Running
             PROVE  (TreeInv(tree[k]) /\ Based(k) /\ Added(k) /\ Built(k) /\ rq[k] \in Request)'
  BY DEF JobInv
<1>0. TreeInv(tree[k]) /\ Based(k) /\ Added(k) /\ Built(k) /\ rq[k] \in Request /\ main \in Trees
  BY DEF Inv, JobInv, MainInv, TreeInv
<1>1. PICK t \in Trees : t = tree[k]
  BY <1>0 DEF TreeInv
<1>2. Added(k)'
  BY <1>0 DEF Added, Asset
<1>3. Based(k)'
  <2>1. base[k].rev \in Nat /\ main.rev \in Nat
    BY <1>0 DEF Based, Trees
  <2>2. CASE main' = main
    BY <1>0, <2>2 DEF Based, FileNames
  <2>3. CASE main'.rev = main.rev + 1
    BY <1>0, <2>1, <2>3 DEF Based, FileNames
  <2> QED
    BY <2>2, <2>3 DEF Moves
<1>4. TreeInv(tree[k])' /\ Built(k)' /\ rq'[k] \in Request
  BY <1>0, <1>1 DEF Built
<1> QED
  BY <1>2, <1>3, <1>4

(* A job ends. *)
LEMMA EndInv ==
  ASSUME Inv, NEW j \in Jobs, End(j), UNCHANGED releases, Moves, TreeInv(main')
  PROVE  Inv'
<1>1. Types'
  BY DEF Inv, Types, End
<1>2. JobInv(j)'
  BY DEF Inv, Types, End, JobInv, Running
<1>3. ASSUME NEW k \in Jobs, k # j
      PROVE  JobInv(k)'
  <2>1. pc'[k] = pc[k] /\ rq'[k] = rq[k] /\ base'[k] = base[k] /\ tree'[k] = tree[k] /\ wheel'[k] = wheel[k]
    BY <1>3 DEF Inv, Types, End
  <2> QED
    BY <2>1, Bystander
<1>4. MainInv'
  BY DEF MainInv
<1> QED
  BY <1>1, <1>2, <1>3, <1>4 DEF Inv

(* A job goes on and leaves the branch alone. *)
LEMMA GoesOn ==
  ASSUME Inv, NEW j \in Jobs, Types', JobInv(j)', main' = main,
         \A k \in Jobs : k # j => /\ pc'[k] = pc[k] /\ rq'[k] = rq[k] /\ base'[k] = base[k]
                                  /\ tree'[k] = tree[k] /\ wheel'[k] = wheel[k]
  PROVE  Inv'
<1>1. MainInv'
  BY DEF Inv, MainInv
<1>2. ASSUME NEW k \in Jobs, k # j
      PROVE  JobInv(k)'
  BY <1>2, Bystander DEF Moves
<1> QED
  BY <1>1, <1>2 DEF Inv

(* A job is given the branch as it is. *)
LEMMA DispatchInv ==
  ASSUME Inv, NEW j \in Jobs, Dispatch(j)
  PROVE  Inv'
<1>1. PICK r \in Request :
        /\ pc' = [pc EXCEPT ![j] = "queued"] /\ rq' = [rq EXCEPT ![j] = r]
        /\ base' = [base EXCEPT ![j] = main] /\ tree' = [tree EXCEPT ![j] = main]
        /\ UNCHANGED <<main, wheel, releases, edits>>
  BY DEF Dispatch, Continue
<1>2. PICK t \in Trees : t = main /\ TreeInv(t) /\ t.rev \in Nat
  BY DEF Inv, MainInv, TreeInv, Trees
<1>3. Types'
  BY <1>1, <1>2 DEF Inv, Types, Running
<1>4. pc'[j] = "queued" /\ rq'[j] = r /\ base'[j] = t /\ tree'[j] = t
  BY <1>1, <1>2 DEF Inv, Types
<1>5. JobInv(j)'
  BY <1>1, <1>2, <1>4 DEF JobInv, Based, Added, Built, FileNames
<1> QED
  BY <1>1, <1>3, <1>5, GoesOn DEF Inv, Types

(* Validation, the build and the inspection lead to a wheel compiled from  *)
(* the locked sources of the checkout.                                     *)
LEMMA BuildInv ==
  ASSUME Inv, NEW j \in Jobs, Validate(j) \/ BuildWheel(j) \/ InspectArtifact(j)
  PROVE  Inv'
<1>0. pc[j] \in Running /\ JobInv(j) /\ UNCHANGED <<main, releases, edits>> /\ Moves
  BY DEF Inv, Validate, BuildWheel, InspectArtifact, Running, Moves
<1>1. PICK t \in Trees, r \in Request : t = tree[j] /\ r = rq[j] /\ TreeInv(t)
  BY <1>0 DEF JobInv, TreeInv
<1>2. CASE End(j)
  BY <1>0, <1>2, EndInv DEF Inv, MainInv
<1>3. CASE /\ UNCHANGED <<rq, base, tree, wheel>>
           /\ \E s \in {"build", "index"} :
                Continue(j, s) /\ pc[j] = (IF s = "index" THEN "inspect" ELSE "queued")
  <2>1. PICK s \in {"build", "index"} :
          Continue(j, s) /\ pc[j] = (IF s = "index" THEN "inspect" ELSE "queued")
    BY <1>3
  <2>2. Types' /\ pc'[j] = s
    BY <1>0, <1>3, <2>1 DEF Inv, Types, Running, Continue
  <2>3. JobInv(j)'
    BY <1>0, <1>3, <2>1, <2>2 DEF JobInv, Based, Added, Built, FileNames, Asset, Running
  <2> QED
    BY <1>0, <1>3, <2>1, <2>2, <2>3, GoesOn DEF Inv, Types, Continue
<1>4. CASE BuildWheel(j)
  <2>1. PICK tagged \in BOOLEAN :
          /\ pc[j] = "build" /\ RunBuildChecks(t, r) /\ t.recipe[r.pkg].local
          /\ pc' = [pc EXCEPT ![j] = "inspect"] /\ wheel' = [wheel EXCEPT ![j] = Wheel(t, r, tagged)]
          /\ UNCHANGED <<rq, base, tree>>
    BY <1>1, <1>4 DEF BuildWheel, Continue
  <2>2. PICK w \in Wheels : w = Wheel(t, r, tagged) /\ w.src = t.recipe[r.pkg].sha /\ w.abi = r.abi
    <3>1. r.pkg \in Packages /\ r.abi \in Abis /\ t.lock.id \in Runtimes /\ t.src[r.pkg] \in Sources
      BY DEF Request, Trees, Lock
    <3>2. t.src[r.pkg] = t.recipe[r.pkg].sha
      BY <2>1 DEF RunBuildChecks
    <3>3. Wheel(t, r, tagged) \in Wheels
      BY <3>1 DEF Wheel, Wheels
    <3>4. Wheel(t, r, tagged).src = t.src[r.pkg] /\ Wheel(t, r, tagged).abi = r.abi
      BY DEF Wheel
    <3> QED
      BY <3>2, <3>3, <3>4
  <2>3. Types' /\ pc'[j] = "inspect" /\ wheel'[j] = w
    BY <1>0, <2>1, <2>2 DEF Inv, Types, Running
  <2>4. JobInv(j)'
    BY <1>0, <1>1, <2>1, <2>2, <2>3 DEF JobInv, Based, Added, Built, FileNames, Asset
  <2> QED
    BY <1>0, <2>1, <2>3, <2>4, GoesOn DEF Inv, Types
<1> QED
  BY <1>2, <1>3, <1>4 DEF Validate, InspectArtifact

(* The manifest and the index are written in the checkout. *)
LEMMA IndexInv ==
  ASSUME Inv, NEW j \in Jobs, ManifestAndIndex(j)
  PROVE  Inv'
<1>0. /\ pc[j] = "index" /\ JobInv(j) /\ UNCHANGED <<main, rq, base, wheel, releases, edits>>
      /\ pc' = [pc EXCEPT ![j] = "release"]
      /\ tree' = [tree EXCEPT ![j] = IndexedTree(tree[j], rq[j], wheel[j])]
  BY DEF Inv, ManifestAndIndex, Continue
<1>1. PICK t \in Trees, r \in Request, w \in Wheels :
        /\ t = tree[j] /\ r = rq[j] /\ w = wheel[j] /\ TreeInv(t) /\ Based(j) /\ Added(j)
        /\ w.src = t.recipe[r.pkg].sha /\ w.abi = r.abi
  BY <1>0 DEF JobInv, TreeInv, Built, Running
<1>2. PICK u \in Trees :
        /\ u = IndexedTree(t, r, w) /\ TreeInv(u) /\ FileNames(t) \subseteq FileNames(u)
        /\ \A m \in u.manifests :
             m \in t.manifests \/ (m.url = <<r.pkg, r.version, r.abi, w.tagged>> /\ m.sha = w)
  BY <1>1, Indexed DEF TreeInv
<1>3. Types' /\ pc'[j] = "release" /\ tree'[j] = u
  BY <1>0, <1>1, <1>2 DEF Inv, Types, Running
<1>4. Based(j)' /\ Added(j)' /\ Built(j)'
  BY <1>0, <1>1, <1>2, <1>3 DEF Based, Added, Built, FileNames, Asset
<1>5. JobInv(j)'
  BY <1>0, <1>1, <1>2, <1>3, <1>4 DEF JobInv
<1> QED
  BY <1>0, <1>3, <1>5, GoesOn DEF Inv, Types

(* The asset is deleted or uploaded. *)
LEMMA ReleaseInv ==
  ASSUME Inv, NEW j \in Jobs, DeleteAsset(j) \/ UploadAsset(j)
  PROVE  Inv'
<1>0. /\ pc[j] \in {"release", "upload"} /\ JobInv(j) /\ UNCHANGED <<main, rq, base, tree, wheel, edits>>
      /\ \E s \in {"upload", "push"} : pc' = [pc EXCEPT ![j] = s]
      /\ \E x \in {wheel[j], None} : releases' = [releases EXCEPT ![Asset(j)] = x]
  BY DEF Inv, DeleteAsset, UploadAsset, Continue
<1>1. wheel[j] \in Wheels
  BY <1>0 DEF JobInv, Built, Running
<1>2. PICK s \in {"upload", "push"} : pc' = [pc EXCEPT ![j] = s]
  BY <1>0
<1>3. Types' /\ pc'[j] = s
  BY <1>0, <1>1, <1>2 DEF Inv, Types, Running
<1>4. JobInv(j)'
  BY <1>0, <1>2, <1>3 DEF JobInv, Based, Added, Built, FileNames, Asset, Running
<1> QED
  BY <1>0, <1>2, <1>3, <1>4, GoesOn DEF Inv, Types

(* A new revision has what the checkout has. *)
LEMMA Revised ==
  ASSUME NEW t \in Trees, NEW n \in Nat
  PROVE  \E u \in Trees : /\ u = [t EXCEPT !.rev = n] /\ u.rev = n /\ u.manifests = t.manifests
                          /\ u.index = t.index /\ Known(u) = Known(t)
                          /\ (TreeInv(t) => TreeInv(u)) /\ (Covering(t) => Covering(u))
<1>1. PICK u \in Trees :
        u = [t EXCEPT !.rev = n] /\ u.rev = n /\ u.manifests = t.manifests /\ u.index = t.index
  <2>1. [t EXCEPT !.rev = n] \in Trees
    BY DEF Trees
  <2> QED
    BY <2>1 DEF Trees
<1>2. Known(u) = Known(t)
  BY <1>1 DEF Known, Offered
<1>3. TreeInv(t) => TreeInv(u)
  BY <1>1, <1>2 DEF TreeInv
<1>4. Covering(t) => Covering(u)
  BY <1>1 DEF Covering, Topped, Covers
<1> QED
  BY <1>1, <1>2, <1>3, <1>4

(* The push, when the branch has not moved. *)
LEMMA PushInv ==
  ASSUME Inv, NEW j \in Jobs, CommitIndex(j)
  PROVE  Inv' /\ Moves
<1>0. pc[j] = "push" /\ JobInv(j) /\ End(j) /\ UNCHANGED <<releases, edits>>
  BY DEF Inv, CommitIndex
<1>1. PICK t \in Trees : t = tree[j] /\ TreeInv(t)
  BY <1>0 DEF JobInv, TreeInv, Running
<1>2. CASE main' = main
  BY <1>0, <1>2, EndInv DEF Moves, Inv, MainInv
<1>3. CASE main' = [t EXCEPT !.rev = main.rev + 1]
  <2>1. main.rev + 1 \in Nat
    BY DEF Inv, MainInv, TreeInv, Trees
  <2>2. TreeInv(main') /\ main'.rev = main.rev + 1
    BY <1>1, <1>3, <2>1, Revised
  <2> QED
    BY <1>0, <2>2, EndInv DEF Moves
<1> QED
  BY <1>1, <1>2, <1>3 DEF CommitIndex

(* A developer's commit. *)
LEMMA CommitInv ==
  ASSUME Inv, NEW t, TreeInv(t), t.rev = main.rev, Commit(t)
  PROVE  Inv' /\ Moves
<1>1. main' = [t EXCEPT !.rev = main.rev + 1] /\ UNCHANGED <<pc, rq, base, tree, wheel, releases>>
  BY DEF Commit
<1>2. t \in Trees /\ main.rev + 1 \in Nat
  BY DEF TreeInv, Inv, MainInv, Trees
<1>3. TreeInv(main') /\ main'.rev = main.rev + 1
  BY <1>1, <1>2, Revised
<1>4. MainInv'
  BY <1>3 DEF MainInv
<1>5. ASSUME NEW k \in Jobs
      PROVE  JobInv(k)'
  BY <1>1, <1>3, Bystander DEF Moves
<1>6. Types'
  BY <1>1 DEF Inv, Types
<1> QED
  BY <1>3, <1>4, <1>5, <1>6 DEF Inv, Moves

(* What a developer commits has the manifests and the index of the branch, *)
(* or an index made anew from those manifests.                             *)
LEMMA DeveloperTree ==
  ASSUME Inv, CommitPackage \/ CommitRuntime \/ CommitLocalIndex
  PROVE  \E t : /\ Commit(t) /\ TreeInv(t)
                /\ t.rev = main.rev /\ t.manifests = main.manifests
                /\ t.index = main.index \/ \E c \in LocalChannels : t = GenerateIndex(main, c)
<1>0. main \in Trees /\ TreeInv(main)
  BY DEF Inv, MainInv, TreeInv
<1>1. ASSUME NEW t \in Trees, t.manifests = main.manifests, t.index = main.index
      PROVE  TreeInv(t)
  <2>1. Known(t) = Known(main)
    BY <1>1 DEF Known, Offered
  <2> QED
    BY <1>0, <1>1, <2>1 DEF TreeInv
<1>2. ASSUME CommitPackage
      PROVE  \E t \in Trees : /\ Commit(t) /\ t.manifests = main.manifests /\ t.index = main.index
                              /\ t.rev = main.rev
  <2>1. PICK e \in [pkg : Packages, recipe : Recipe, src : Sources, locked : Sources] :
          Commit([main EXCEPT !.recipe[e.pkg] = e.recipe, !.src[e.pkg] = e.src, !.locked[e.pkg] = e.locked])
    BY <1>2, PipelineAssumption DEF CommitPackage
  <2> DEFINE u == [main EXCEPT !.recipe[e.pkg] = e.recipe, !.src[e.pkg] = e.src, !.locked[e.pkg] = e.locked]
  <2>2. u \in Trees /\ u.manifests = main.manifests /\ u.index = main.index /\ u.rev = main.rev
    BY <1>0 DEF Trees
  <2> QED
    BY <2>1, <2>2
<1>3. ASSUME CommitRuntime
      PROVE  \E t \in Trees : /\ Commit(t) /\ t.manifests = main.manifests /\ t.index = main.index
                              /\ t.rev = main.rev
  <2>1. PICK l \in Lock : Commit([main EXCEPT !.lock = l])
    BY <1>3, PipelineAssumption DEF CommitRuntime
  <2> DEFINE u == [main EXCEPT !.lock = l]
  <2>2. u \in Trees /\ u.manifests = main.manifests /\ u.index = main.index /\ u.rev = main.rev
    BY <1>0 DEF Trees
  <2> QED
    BY <2>1, <2>2
<1>4. ASSUME CommitLocalIndex
      PROVE  \E t : /\ Commit(t) /\ TreeInv(t)
                    /\ t.rev = main.rev /\ t.manifests = main.manifests
                    /\ \E c \in LocalChannels : t = GenerateIndex(main, c)
  <2>1. PICK c \in LocalChannels : Commit(GenerateIndex(main, c))
    BY <1>4 DEF CommitLocalIndex
  <2>2. GenerateIndex(main, c).rev = main.rev /\ GenerateIndex(main, c).manifests = main.manifests
    BY <1>0, Generated
  <2> QED
    BY <1>0, <2>1, <2>2, GeneratedInv
<1> QED
  BY <1>1, <1>2, <1>3, <1>4

(* The branch at the start has no manifest. *)
LEMMA InitTree ==
  ASSUME Init
  PROVE  main \in Trees /\ main.manifests = {}
         /\ \A r \in Runtimes : main.index[r].packages = {} /\ \A a \in Abis : main.index[r].abi[a] = {}
<1>1. PICK e \in [pkg : Packages, recipe : Recipe, src : Sources, locked : Sources], l \in Lock :
        main = [rev |-> 0, recipe |-> [q \in Packages |-> e.recipe],
                src |-> [q \in Packages |-> e.src], locked |-> [q \in Packages |-> e.src],
                lock |-> l, manifests |-> {}, index |-> [r \in Runtimes |-> EmptyIndex]]
  BY PipelineAssumption DEF Init
<1>2. EmptyIndex \in Indexes
  BY DEF EmptyIndex, Indexes
<1>3. main \in Trees
  BY <1>1, <1>2 DEF Trees
<1>4. main.manifests = {} /\ \A r \in Runtimes : main.index[r] = EmptyIndex
  BY <1>1
<1> QED
  BY <1>3, <1>4 DEF EmptyIndex

(* Nor has anything been built. *)
LEMMA InitInv == Init => Inv
<1> SUFFICES ASSUME Init
             PROVE  Inv
  OBVIOUS
<1>1. Known(main) = {}
  BY InitTree DEF Known, Offered
<1>2. MainInv
  BY <1>1, InitTree DEF MainInv, TreeInv
<1>3. Types
  BY DEF Init, Types
<1>4. \A j \in Jobs : JobInv(j)
  BY DEF Init, JobInv, Running
<1> QED
  BY <1>2, <1>3, <1>4 DEF Inv

(* Every step keeps the invariant, and moves the branch by one revision at *)
(* most.                                                                   *)
LEMMA NextInv == Inv /\ [Next]_vars => Inv'
<1> SUFFICES ASSUME Inv, [Next]_vars
             PROVE  Inv'
  OBVIOUS
<1>1. ASSUME NEW j \in Jobs, JobFails(j) PROVE Inv'
  BY <1>1, EndInv DEF JobFails, Moves, Inv, MainInv
<1>2. ASSUME CommitPackage \/ CommitRuntime \/ CommitLocalIndex PROVE Inv'
  BY <1>2, DeveloperTree, CommitInv
<1>3. ASSUME UNCHANGED vars PROVE Inv'
  <2>1. Types' /\ MainInv'
    BY <1>3 DEF vars, Inv, Types, MainInv
  <2>2. ASSUME NEW k \in Jobs PROVE JobInv(k)'
    BY <1>3, <2>2, Bystander DEF vars, Moves
  <2> QED
    BY <2>1, <2>2 DEF Inv
<1> QED
  BY <1>1, <1>2, <1>3, DispatchInv, BuildInv, IndexInv, ReleaseInv, PushInv DEF Next, JobStep

(* Whatever jobs and developers do to the branch, what anyone has checked  *)
(* out tells the truth about its wheels.                                   *)
THEOREM Invariant == Spec => []Inv
  BY InitInv, NextInv, PTL DEF Spec

(* What the index offers was compiled from the sources its manifest names, *)
(* for the ABI it is filed under (build.py, verify_source_lock.py).        *)
THEOREM FromLockedSource == Spec => []OfferedFromLockedSource
<1>1. Inv => OfferedFromLockedSource
  BY KnownIs DEF Inv, MainInv, TreeInv, Locked, OfferedFromLockedSource
<1> QED
  BY <1>1, Invariant, PTL

-----------------------------------------------------------------------------
(* The release assets                                                      *)

(* The concurrency group: past the queue a job is alone in its group. *)
Begun(j) == pc[j] \in Running \ {"queued"}

Grouped == \A j, k \in Jobs : Begun(j) /\ Begun(k) /\ Group(rq[j]) = Group(rq[k]) => j = k

(* What is about to be pushed is released: nobody else's steps touch it. *)
Released == \A j \in Jobs : pc[j] = "push" => releases[Asset(j)] = wheel[j]

AssetInv == Grouped /\ Released

(* Jobs of different groups have different assets. *)
LEMMA AssetGroup ==
  ASSUME NEW j \in Jobs, NEW k \in Jobs, Asset(j) = Asset(k)
  PROVE  Group(rq[j]) = Group(rq[k])
  BY DEF Asset, Group

(* A job that ends or goes on leaves the others and their assets alone. *)
LEMMA AssetKept ==
  ASSUME AssetInv, NEW j \in Jobs, UNCHANGED releases,
         \A k \in Jobs : k # j => pc'[k] = pc[k] /\ rq'[k] = rq[k] /\ wheel'[k] = wheel[k],
         pc'[j] # "push",
         pc'[j] \in Running \ {"queued"} => Begun(j) /\ rq'[j] = rq[j]
  PROVE  AssetInv'
<1>1. \A k \in Jobs : Begun(k)' => Begun(k) /\ rq'[k] = rq[k]
  BY DEF Begun
<1>2. Grouped'
  BY <1>1 DEF AssetInv, Grouped
<1>3. Released'
  BY DEF AssetInv, Released, Asset
<1> QED
  BY <1>2, <1>3 DEF AssetInv

(* Every step keeps it. *)
LEMMA AssetNext == Inv /\ AssetInv /\ [Next]_vars => AssetInv'
<1> SUFFICES ASSUME Inv, AssetInv, [Next]_vars
             PROVE  AssetInv'
  OBVIOUS
<1>0. Types
  BY DEF Inv
<1>1. ASSUME NEW j \in Jobs, End(j), UNCHANGED releases PROVE AssetInv'
  <2>1. pc'[j] = "ended" /\ \A k \in Jobs : k # j => pc'[k] = pc[k] /\ rq'[k] = rq[k] /\ wheel'[k] = wheel[k]
    BY <1>0, <1>1 DEF End, Types
  <2> QED
    BY <1>1, <2>1, AssetKept DEF Running
<1>2. ASSUME NEW j \in Jobs, Dispatch(j) PROVE AssetInv'
  <2>1. pc'[j] = "queued" /\ \A k \in Jobs : k # j => pc'[k] = pc[k] /\ rq'[k] = rq[k] /\ wheel'[k] = wheel[k]
    BY <1>0, <1>2 DEF Dispatch, Continue, Types
  <2> QED
    BY <1>2, <2>1, AssetKept DEF Dispatch
<1>3. ASSUME NEW j \in Jobs, Validate(j), ~ End(j) PROVE AssetInv'
  <2>1. /\ pc' = [pc EXCEPT ![j] = "build"] /\ UNCHANGED <<rq, wheel, releases>>
        /\ \A k \in Jobs : Begun(k) => Group(rq[k]) # Group(rq[j])
    BY <1>3 DEF Validate, Continue, Begun
  <2>2. \A k \in Jobs : k # j => pc'[k] = pc[k]
    BY <1>0, <2>1 DEF Types
  <2>3. Grouped'
    BY <2>1, <2>2 DEF AssetInv, Grouped, Begun
  <2>4. Released'
    BY <1>0, <2>1, <2>2 DEF AssetInv, Released, Asset, Types
  <2> QED
    BY <2>3, <2>4 DEF AssetInv
<1>4. ASSUME NEW j \in Jobs, BuildWheel(j) \/ InspectArtifact(j) \/ ManifestAndIndex(j), ~ End(j)
      PROVE  AssetInv'
  <2>1. /\ pc[j] \in {"build", "inspect", "index"} /\ UNCHANGED <<rq, releases>>
        /\ \E s \in {"inspect", "index", "release"} : pc' = [pc EXCEPT ![j] = s]
        /\ \E w : wheel' = [wheel EXCEPT ![j] = w] \/ wheel' = wheel
    BY <1>4 DEF BuildWheel, InspectArtifact, ManifestAndIndex, Continue
  <2>2. /\ pc'[j] # "push" /\ Begun(j)
        /\ \A k \in Jobs : k # j => pc'[k] = pc[k] /\ rq'[k] = rq[k] /\ wheel'[k] = wheel[k]
    BY <1>0, <2>1 DEF Types, Begun, Running
  <2> QED
    BY <2>1, <2>2, AssetKept
<1>5. ASSUME NEW j \in Jobs, DeleteAsset(j) \/ UploadAsset(j) PROVE AssetInv'
  <2>1. /\ Begun(j) /\ UNCHANGED <<rq, wheel>>
        /\ \A k \in Jobs : k # j => pc'[k] = pc[k]
        /\ \E x : releases' = [releases EXCEPT ![Asset(j)] = x]
        /\ pc'[j] = "push" => releases' = [releases EXCEPT ![Asset(j)] = wheel[j]]
    BY <1>0, <1>5 DEF DeleteAsset, UploadAsset, Continue, Begun, Running, Types
  <2>2. Asset(j) \in Url
    <3>1. rq[j] \in Request /\ wheel[j] \in Wheels
      BY <1>0, <1>5 DEF DeleteAsset, UploadAsset, Inv, JobInv, Built, Running
    <3> QED
      BY <3>1 DEF Asset, Url, Request, Wheels
  <2>3. Grouped'
    BY <2>1 DEF AssetInv, Grouped, Begun
  <2>4. ASSUME NEW k \in Jobs, k # j, pc[k] = "push" PROVE releases'[Asset(k)] = wheel[k]
    <3>1. Begun(k)
      BY <2>4 DEF Begun, Running
    <3>2. Asset(k) # Asset(j)
      BY <2>1, <2>4, <3>1, AssetGroup DEF AssetInv, Grouped
    <3> QED
      BY <1>0, <2>1, <2>4, <3>2 DEF AssetInv, Released, Types
  <2>5. Released'
    BY <1>0, <2>1, <2>2, <2>4 DEF Released, Asset, Types
  <2> QED
    BY <2>3, <2>5 DEF AssetInv
<1>6. ASSUME UNCHANGED <<pc, rq, wheel, releases>> PROVE AssetInv'
  BY <1>6 DEF AssetInv, Grouped, Begun, Released, Asset
<1>7. CommitPackage \/ CommitRuntime \/ CommitLocalIndex \/ UNCHANGED vars
        => UNCHANGED <<pc, rq, wheel, releases>>
  BY DEF CommitPackage, CommitRuntime, CommitLocalIndex, Commit, vars
<1>8. ASSUME NEW j \in Jobs, JobStep(j) PROVE AssetInv'
  <2>1. CASE End(j) /\ UNCHANGED releases
    BY <1>1, <2>1
  <2>2. CASE CommitIndex(j) \/ JobFails(j)
    BY <2>1, <2>2 DEF CommitIndex, JobFails
  <2>3. CASE Validate(j) \/ BuildWheel(j) \/ InspectArtifact(j) \/ ManifestAndIndex(j)
    <3>1. UNCHANGED releases
      BY <2>3 DEF Validate, BuildWheel, InspectArtifact, ManifestAndIndex
    <3> QED
      BY <1>3, <1>4, <2>1, <2>3, <3>1
  <2> QED
    BY <1>2, <1>5, <1>8, <2>2, <2>3 DEF JobStep
<1> QED
  BY <1>6, <1>7, <1>8 DEF Next

(* A manifest that reaches the branch names an asset that is there, with   *)
(* the hash it gives, however jobs of other groups, deletions and failures *)
(* interleave (build-package.yml:33-35, 199-222).                          *)
THEOREM PublishedIsThere == Spec => PublishedWithItsAsset
<1>1. Init => AssetInv
  BY DEF Init, AssetInv, Grouped, Begun, Released, Running
<1>2. ASSUME Inv, AssetInv, Next, NEW m \in main'.manifests \ main.manifests
      PROVE  releases[m.url] = m.sha
  <2>1. ~ (CommitPackage \/ CommitRuntime \/ CommitLocalIndex)
    <3>1. ASSUME CommitPackage \/ CommitRuntime \/ CommitLocalIndex PROVE FALSE
      <4>1. PICK t : Commit(t) /\ t \in Trees /\ t.manifests = main.manifests
        BY <3>1, DeveloperTree, <1>2 DEF TreeInv
      <4> QED
        BY <1>2, <4>1 DEF Commit, Trees
    <3> QED
      BY <3>1
  <2>2. PICK j \in Jobs : CommitIndex(j) /\ main' # main
    BY <1>2, <2>1 DEF Next, JobStep, Dispatch, Validate, BuildWheel, InspectArtifact,
                      ManifestAndIndex, DeleteAsset, UploadAsset, JobFails
  <2>3. main' = [tree[j] EXCEPT !.rev = main.rev + 1] /\ main.rev = base[j].rev /\ JobInv(j)
        /\ pc[j] = "push"
    BY <1>2, <2>2 DEF CommitIndex, Accepted, Inv
  <2>4. tree[j] \in Trees /\ Based(j) /\ Added(j)
    BY <2>3 DEF JobInv, TreeInv, Running
  <2>5. m \in tree[j].manifests /\ m \notin base[j].manifests
    BY <1>2, <2>3, <2>4 DEF Trees, Based
  <2> QED
    BY <1>2, <2>3, <2>4, <2>5 DEF Added, AssetInv, Released
<1>3. Inv /\ AssetInv /\ [Next]_vars =>
        [\A m \in main'.manifests \ main.manifests : releases[m.url] = m.sha]_vars
  BY <1>2
<1> QED
  BY <1>1, <1>3, AssetNext, Invariant, PTL DEF Spec, PublishedWithItsAsset

(* No push and no commit loses a manifest of the branch, though a job      *)
(* pushes a whole directory made from an older checkout                    *)
(* (build-package.yml, "Commit index update").                             *)
THEOREM NothingUnpublished == Spec => PublishedStays
<1>1. Inv /\ [Next]_vars =>
        [{File(m) : m \in main.manifests} \subseteq {File(m) : m \in main'.manifests}]_vars
  <2> SUFFICES ASSUME Inv, Next
               PROVE  {File(m) : m \in main.manifests} \subseteq {File(m) : m \in main'.manifests}
    BY DEF vars
  <2>1. CASE main' = main
    BY <2>1
  <2>2. ASSUME NEW j \in Jobs, CommitIndex(j), main' # main
        PROVE  FileNames(main) \subseteq {File(m) : m \in main'.manifests}
    <3>1. main' = [tree[j] EXCEPT !.rev = main.rev + 1] /\ main.rev = base[j].rev /\ JobInv(j)
          /\ pc[j] = "push"
      BY <2>2 DEF CommitIndex, Accepted, Inv
    <3>2. tree[j] \in Trees /\ Based(j)
      BY <3>1 DEF JobInv, TreeInv, Running
    <3>3. main'.manifests = tree[j].manifests
      BY <3>1, <3>2 DEF Trees
    <3> QED
      BY <3>1, <3>2, <3>3 DEF Based, FileNames
  <2>3. ASSUME CommitPackage \/ CommitRuntime \/ CommitLocalIndex
        PROVE  main'.manifests = main.manifests
    <3>1. PICK t : Commit(t) /\ t \in Trees /\ t.manifests = main.manifests
      BY <2>3, DeveloperTree DEF TreeInv
    <3> QED
      BY <3>1 DEF Commit, Trees
  <2> QED
    BY <2>1, <2>2, <2>3 DEF Next, JobStep, Dispatch, Validate, BuildWheel, InspectArtifact,
                           ManifestAndIndex, DeleteAsset, UploadAsset, JobFails, FileNames
<1> QED
  BY <1>1, Invariant, PTL DEF Spec, PublishedStays

-----------------------------------------------------------------------------
(* The order of collection                                                 *)

(* The channel and the ABI of a manifest have a place in their order. *)
LEMMA Places ==
  ASSUME NEW m \in Manifests
  PROVE  /\ IndexIn(ChannelOrder, m.channel) \in Nat /\ IndexIn(AbiOrder, m.abi) \in Nat
         /\ m.version \in Nat
<1>1. \E i \in 1 .. 3 : ChannelOrder[i] = m.channel
  BY PipelineAssumption DEF Manifests
<1>2. \E i \in 1 .. 2 : AbiOrder[i] = m.abi
  BY PipelineAssumption DEF Manifests
<1>3. DOMAIN ChannelOrder = 1 .. 3 /\ DOMAIN AbiOrder = 1 .. 2
  BY DEF ChannelOrder, AbiOrder
<1>4. IndexIn(ChannelOrder, m.channel) \in 1 .. 3
  BY <1>1, <1>3 DEF IndexIn
<1>5. IndexIn(AbiOrder, m.abi) \in 1 .. 2
  BY <1>2, <1>3 DEF IndexIn
<1>6. m.version \in Nat
  BY PipelineAssumption DEF Manifests
<1> QED
  BY <1>4, <1>5, <1>6

(* It is a strict order, *)
LEMMA StrictOrder ==
  ASSUME NEW x \in Manifests, NEW y \in Manifests, NEW z \in Manifests
  PROVE  /\ ~ CollectedBefore(x, x)
         /\ CollectedBefore(x, y) /\ CollectedBefore(y, z) => CollectedBefore(x, z)
<1> DEFINE C(m) == IndexIn(ChannelOrder, m.channel)
           A(m) == IndexIn(AbiOrder, m.abi)
<1>1. /\ C(x) \in Nat /\ C(y) \in Nat /\ C(z) \in Nat
      /\ A(x) \in Nat /\ A(y) \in Nat /\ A(z) \in Nat
      /\ x.version \in Nat /\ y.version \in Nat /\ z.version \in Nat
  BY Places
<1>2. \A u, v : CollectedBefore(u, v) <=>
        C(u) < C(v) \/ (C(u) = C(v) /\ u.version < v.version)
                    \/ (C(u) = C(v) /\ u.version = v.version /\ A(u) < A(v))
  BY DEF CollectedBefore
<1> HIDE DEF C, A
<1> QED
  BY <1>1, <1>2

(* which knows a manifest by its file. *)
LEMMA SameFile ==
  ASSUME NEW x, NEW y, File(x) = File(y), NEW z
  PROVE  /\ Alike(x, y) /\ (CollectedBefore(x, z) <=> CollectedBefore(y, z))
         /\ (CollectedBefore(z, x) <=> CollectedBefore(z, y))
<1>1. x.channel = y.channel /\ x.pkg = y.pkg /\ x.version = y.version /\ x.abi = y.abi
  BY DEF File
<1> QED
  BY <1>1 DEF Alike, CollectedBefore

(* With one manifest more, or one replaced, there is still a last one of   *)
(* each package and ABI.                                                   *)
LEMMA ToppedSaved ==
  ASSUME NEW ms \in SUBSET Manifests, Topped(ms), NEW m \in Manifests
  PROVE  Topped(SaveManifest(ms, m))
<1> DEFINE new == SaveManifest(ms, m)
<1>1. /\ m \in new /\ new \subseteq Manifests
      /\ \A k \in new : k = m \/ (k \in ms /\ File(k) # File(m))
      /\ \A k \in ms : File(k) # File(m) => k \in new
  BY DEF SaveManifest
<1> HIDE DEF new
<1>2. ASSUME NEW k \in ms, Alike(k, m)
      PROVE  \E x \in new : Alike(x, m) /\ Latest(x, new)
  <2>1. PICK x \in ms : Alike(x, k) /\ Latest(x, ms)
    BY <1>2 DEF Topped
  <2>2. Alike(x, m)
    BY <1>2, <2>1 DEF Alike
  <2>3. CASE File(x) = File(m) \/ CollectedBefore(x, m)
    <3>1. ASSUME NEW y \in new, Alike(y, m), CollectedBefore(m, y)
          PROVE  FALSE
      <4>1. y # m
        BY <1>1, <3>1, StrictOrder
      <4>2. y \in ms /\ y \in Manifests /\ x \in Manifests
        BY <1>1, <4>1
      <4>3. CollectedBefore(x, y)
        BY <2>3, <3>1, <4>2, SameFile, StrictOrder
      <4>4. Alike(y, x)
        BY <2>2, <3>1 DEF Alike
      <4> QED
        BY <2>1, <4>2, <4>3, <4>4 DEF Latest
    <3> QED
      BY <1>1, <3>1 DEF Latest, Alike
  <2>4. CASE File(x) # File(m) /\ ~ CollectedBefore(x, m)
    <3>1. x \in new
      BY <1>1, <2>4
    <3>2. Latest(x, new)
      BY <1>1, <2>1, <2>4 DEF Latest
    <3> QED
      BY <2>2, <3>1, <3>2
  <2> QED
    BY <2>3, <2>4
<1>3. ASSUME \A k \in ms : ~ Alike(k, m)
      PROVE  \E x \in new : Alike(x, m) /\ Latest(x, new)
  <2>1. Latest(m, new)
    BY <1>1, <1>3, StrictOrder DEF Latest
  <2> QED
    BY <1>1, <2>1 DEF Alike
<1>4. ASSUME NEW k \in ms, ~ Alike(k, m)
      PROVE  \E x \in new : Alike(x, k) /\ Latest(x, new)
  <2>1. PICK x \in ms : Alike(x, k) /\ Latest(x, ms)
    BY <1>4 DEF Topped
  <2>2. ~ Alike(x, m) /\ ~ Alike(m, x)
    BY <1>4, <2>1 DEF Alike
  <2>3. x \in new
    BY <1>1, <2>2, SameFile
  <2>4. Latest(x, new)
    BY <1>1, <2>1, <2>2 DEF Latest
  <2> QED
    BY <2>1, <2>3, <2>4
<1>5. ASSUME NEW k \in new
      PROVE  \E x \in new : Alike(x, k) /\ Latest(x, new)
  <2>1. CASE k = m
    BY <1>2, <1>3, <2>1
  <2>2. CASE k # m /\ Alike(k, m)
    <3>1. PICK x \in new : Alike(x, m) /\ Latest(x, new)
      BY <1>1, <1>2, <2>2
    <3> QED
      BY <2>2, <3>1 DEF Alike
  <2>3. CASE k # m /\ ~ Alike(k, m)
    BY <1>1, <1>4, <2>3
  <2> QED
    BY <2>1, <2>2, <2>3
<1> QED
  BY <1>5 DEF Topped, new

-----------------------------------------------------------------------------
(* The index covers the manifests                                          *)

(* An index of all channels offers the last of each package and ABI. *)
LEMMA CoveringGenerated ==
  ASSUME NEW t \in Trees, Topped(t.manifests),
         \A r \in Runtimes : \A m \in t.index[r].packages : m \in t.index[r].abi[m.abi]
  PROVE  Covering(GenerateIndex(t, "all"))
<1> DEFINE ms == t.manifests
<1>1. CollectManifests(ms, "all") = ms /\ ms \subseteq Manifests
  BY DEF CollectManifests, Trees
<1>2. PICK u \in Trees :
        /\ u = GenerateIndex(t, "all") /\ u.manifests = ms
        /\ \A r \in Runtimes : r # t.lock.id => u.index[r] = t.index[r]
        /\ t.lock.id \in Runtimes /\ u.index[t.lock.id].packages = GeneratePackagesJson(ms)
        /\ \A a \in Abis : u.index[t.lock.id].abi[a] = GenerateAbiJson(ms, a)
  BY <1>1, Generated
<1>3. \A m \in ms : m.abi \in Abis
  BY <1>1 DEF Manifests
<1>4. ASSUME NEW m \in ms
      PROVE  \E x \in u.index[t.lock.id].abi[m.abi] : x.pkg = m.pkg /\ ~ CollectedBefore(x, m)
  <2>1. PICK x \in ms : Alike(x, m) /\ Latest(x, ms)
    BY DEF Topped
  <2>2. x \in GenerateAbiJson(ms, m.abi)
    BY <2>1 DEF GenerateAbiJson, GeneratePackagesJson, Latest, Alike
  <2>3. ~ CollectedBefore(x, m) /\ x.pkg = m.pkg
    BY <2>1 DEF Latest, Alike
  <2> QED
    BY <1>2, <1>3, <2>2, <2>3
<1>5. ASSUME NEW r \in Runtimes, NEW m \in u.index[r].packages
      PROVE  m \in u.index[r].abi[m.abi]
  <2>1. CASE r = t.lock.id
    <3>1. m \in ms /\ m \in GenerateAbiJson(ms, m.abi)
      BY <1>2, <1>5, <2>1 DEF GeneratePackagesJson, GenerateAbiJson
    <3> QED
      BY <1>2, <1>3, <2>1, <3>1
  <2>2. CASE r # t.lock.id
    BY <1>2, <1>5, <2>2
  <2> QED
    BY <2>1, <2>2
<1>6. Covering(u)
  BY <1>2, <1>4, <1>5 DEF Covering, Covers
<1> QED
  BY <1>2, <1>6

(* So does the index a job makes. *)
LEMMA CoveringIndexed ==
  ASSUME NEW t \in Trees, Covering(t), NEW r \in Request, NEW w \in Wheels
  PROVE  Covering(IndexedTree(t, r, w))
<1>1. PICK m \in Manifests : m = GenerateManifest(t, r, w)
  BY ManifestIs
<1>2. PICK u \in Trees :
        /\ u = [t EXCEPT !.manifests = SaveManifest(@, m)]
        /\ u.manifests = SaveManifest(t.manifests, m) /\ u.index = t.index
  BY Saved
<1>3. t.manifests \in SUBSET Manifests
  BY DEF Trees
<1>4. Topped(u.manifests)
  BY <1>2, <1>3, ToppedSaved DEF Covering
<1>5. Covering(GenerateIndex(u, "all"))
  BY <1>2, <1>4, CoveringGenerated DEF Covering, Covers
<1> QED
  BY <1>1, <1>2, <1>5 DEF IndexedTree

(* Every step keeps the index covering, on the branch and in the checkouts. *)
LEMMA CoverNext ==
  ASSUME AllChannels
  PROVE  Inv /\ CoverInv /\ [Next]_vars => CoverInv'
<1> SUFFICES ASSUME Inv, CoverInv, [Next]_vars
             PROVE  CoverInv'
  OBVIOUS
<1>0. Types /\ main \in Trees
  BY DEF Inv, MainInv, TreeInv
<1>1. ASSUME NEW j \in Jobs, JobStep(j), main' = main,
             \A k \in Jobs : k # j => pc'[k] = pc[k] /\ tree'[k] = tree[k],
             pc'[j] \in Running => Covering(tree'[j])
      PROVE  CoverInv'
  BY <1>1 DEF CoverInv
<1>2. ASSUME NEW j \in Jobs, End(j)
      PROVE  pc'[j] \notin Running /\ \A k \in Jobs : k # j => pc'[k] = pc[k] /\ tree'[k] = tree[k]
  BY <1>0, <1>2 DEF End, Types, Running
<1>3. ASSUME NEW j \in Jobs, Dispatch(j) PROVE CoverInv'
  <2>1. tree'[j] = main
    BY <1>0, <1>3 DEF Dispatch, Types
  <2> QED
    BY <1>0, <1>1, <1>3, <2>1 DEF Dispatch, Continue, JobStep, CoverInv, Types
<1>4. ASSUME NEW j \in Jobs, Validate(j) \/ BuildWheel(j) \/ InspectArtifact(j) \/ DeleteAsset(j)
                           \/ UploadAsset(j)
      PROVE  CoverInv'
  <2>1. pc[j] \in Running /\ main' = main
    BY <1>4 DEF Validate, BuildWheel, InspectArtifact, DeleteAsset, UploadAsset, Running
  <2>2. CASE End(j)
    BY <1>1, <1>2, <1>4, <2>1, <2>2 DEF JobStep
  <2>3. CASE UNCHANGED tree /\ \E s : Continue(j, s)
    BY <1>0, <1>1, <1>4, <2>1, <2>3 DEF Continue, Types, JobStep, CoverInv
  <2> QED
    BY <1>4, <2>2, <2>3 DEF Validate, BuildWheel, InspectArtifact, DeleteAsset, UploadAsset
<1>5. ASSUME NEW j \in Jobs, ManifestAndIndex(j) PROVE CoverInv'
  <2>1. pc[j] = "index" /\ JobInv(j) /\ Covering(tree[j]) /\ main' = main
    BY <1>5 DEF ManifestAndIndex, Inv, CoverInv, Running
  <2>2. tree[j] \in Trees /\ rq[j] \in Request /\ wheel[j] \in Wheels
    BY <2>1 DEF JobInv, TreeInv, Built, Running
  <2>3. tree'[j] = IndexedTree(tree[j], rq[j], wheel[j])
        /\ \A k \in Jobs : k # j => pc'[k] = pc[k] /\ tree'[k] = tree[k]
    BY <1>0, <1>5 DEF ManifestAndIndex, Continue, Types
  <2> QED
    BY <1>1, <1>5, <2>1, <2>2, <2>3, CoveringIndexed DEF JobStep
<1>6. ASSUME NEW j \in Jobs, CommitIndex(j) PROVE CoverInv'
  <2>1. pc[j] = "push" /\ End(j) /\ tree[j] \in Trees /\ Covering(tree[j]) /\ main.rev + 1 \in Nat
    BY <1>0, <1>6 DEF CommitIndex, Inv, CoverInv, JobInv, TreeInv, Running, Trees
  <2>2. Covering(main')
    BY <1>6, <2>1, Revised DEF CommitIndex, CoverInv
  <2> QED
    BY <1>2, <2>1, <2>2 DEF CoverInv
<1>7. ASSUME NEW j \in Jobs, JobFails(j) PROVE CoverInv'
  BY <1>1, <1>2, <1>7 DEF JobFails, JobStep
<1>8. ASSUME CommitPackage \/ CommitRuntime \/ CommitLocalIndex PROVE CoverInv'
  <2>1. PICK t : /\ Commit(t) /\ t \in Trees /\ t.manifests = main.manifests
                 /\ t.index = main.index \/ \E c \in LocalChannels : t = GenerateIndex(main, c)
    BY <1>8, DeveloperTree DEF TreeInv
  <2>2. Covering(t)
    <3>1. CASE t.index = main.index
      BY <2>1, <3>1 DEF CoverInv, Covering, Covers
    <3>2. CASE t = GenerateIndex(main, "all")
      BY <1>0, <3>2, CoveringGenerated DEF CoverInv, Covering, Covers
    <3> QED
      BY <2>1, <3>1, <3>2 DEF AllChannels
  <2>3. main.rev + 1 \in Nat
    BY <1>0 DEF Trees
  <2>4. Covering(main')
    BY <2>1, <2>2, <2>3, Revised DEF Commit
  <2> QED
    BY <2>1, <2>4 DEF Commit, CoverInv
<1>9. ASSUME UNCHANGED vars PROVE CoverInv'
  BY <1>9 DEF vars, CoverInv
<1> QED
  BY <1>3, <1>4, <1>5, <1>6, <1>7, <1>8, <1>9 DEF Next, JobStep

(* As long as nobody commits an index of one channel only, the index       *)
(* offers each published manifest, or one collected after it, and          *)
(* packages.json lists only what the file of its ABI offers                *)
(* (generate_index.py).                                                    *)
THEOREM NothingHidden ==
  ASSUME AllChannels
  PROVE  Spec => []IndexCovers
<1>1. Init => CoverInv
  <2> SUFFICES ASSUME Init
               PROVE  CoverInv
    OBVIOUS
  <2>1. Covering(main)
    BY InitTree DEF Covering, Topped, Covers
  <2> QED
    BY <2>1 DEF Init, CoverInv, Running
<1>2. Inv /\ CoverInv /\ [Next]_vars => CoverInv'
  BY CoverNext
<1>3. CoverInv => IndexCovers
  BY DEF CoverInv, Covering, Covers, IndexCovers
<1> QED
  BY <1>1, <1>2, <1>3, Invariant, PTL DEF Spec
=============================================================================
