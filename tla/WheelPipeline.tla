---------------------------- MODULE WheelPipeline ----------------------------
(***************************************************************************)
(* The wheelhouse pipeline: the scripts under scripts/ as the build-package*)
(* workflow strings them together.  A job works on a checkout of the branch*)
(* as it was when the job was dispatched; it validates the request, builds *)
(* and inspects one wheel, writes a manifest, regenerates the index from   *)
(* every manifest of its checkout, replaces the release asset (deletes it, *)
(* then uploads the new one) and at last pushes, which succeeds only if the*)
(* branch has not moved meanwhile.                                         *)
(* Jobs of different packages or ABIs run side by side, developers commit  *)
(* in between, and a job can die between any two steps.                    *)
(*                                                                         *)
(* A hash is modelled by the thing it is the hash of, so two hashes agree  *)
(* exactly when their contents do.  Versions are numbered in the order in  *)
(* which their manifests' file names sort, the only order the code uses.   *)
(***************************************************************************)
EXTENDS Naturals, FiniteSets

CONSTANTS
  Packages, Abis, Sources, Runtimes, Jobs,
  BadSources,      \* what compiles to objects no phone could load
  Versions,        \* 1..n, by file name
  Channels,        \* the channels the workflow offers (some of ChannelOrder)
  LocalChannels,   \* the --channel values developers give generate_index
  Commits,         \* the package edits developers may commit
  Locks,           \* the runtime locks developers may commit
  MaxEdits,        \* bound: commits made by developers
  None

ChannelOrder == <<"experimental", "candidate", "stable">>

\* AbiOrder: the file names of one package and version sort arm64-v8a first.
AbiOrder == <<"arm64-v8a", "armeabi-v7a">>

Recipe == [version : Versions, sha : Sources, local : BOOLEAN,
           abis : SUBSET Abis, complete : BOOLEAN]

Lock == [id : Runtimes, state : {"real", "pending", "M0_PLACEHOLDER"}]

\* What distinguishes two wheels.
Wheels == [pkg : Packages, abi : Abis, src : Sources, runtime : Runtimes, tagged : BOOLEAN]

ASSUME PipelineAssumption ==
  /\ Versions \subseteq Nat /\ MaxEdits \in Nat
  /\ Abis \subseteq {AbiOrder[i] : i \in 1..2}
  /\ Channels \subseteq {ChannelOrder[i] : i \in 1..3}
  /\ Commits \subseteq [pkg : Packages, recipe : Recipe, src : Sources, locked : Sources]
  /\ Locks \subseteq Lock /\ None \notin Wheels

Request == [pkg : Packages, version : Versions, abi : Abis, channel : Channels]

Url == Packages \X Versions \X Abis \X BOOLEAN

VARIABLES
  main,      \* the branch: recipes, sources, locks, index/<channel>, index/v1
  pc, rq,    \* each job's step and request
  base,      \* the commit a job was dispatched on
  tree,      \* its checkout
  wheel,     \* the wheel it put in dist/
  releases,  \* url -> the asset found there
  edits      \* commits developers have made

vars == <<main, pc, rq, base, tree, wheel, releases, edits>>

-----------------------------------------------------------------------------
(* The scripts *)

\* validate_recipes.py: every recipe, and the runtime lock, in which it lets
\* the M0 placeholder through.
RecipeComplete(recipe) == recipe.complete

LockFilled(lock) == lock.state # "pending"

ValidateRecipes(t) == (\A p \in Packages : RecipeComplete(t.recipe[p])) /\ LockFilled(t.lock)

\* verify_source_lock.py: every package locked as local has the locked contents.
VerifySourceLock(t) == \A p \in Packages : t.recipe[p].local => t.src[p] = t.locked[p]

\* validate_recipe and validate_runtime_lock of build.py, which refuses the
\* placeholder too.
ValidateRecipe(recipe, abi) == recipe.complete /\ (recipe.abis = {} \/ abi \in recipe.abis)

ValidateRuntimeLock(lock) == lock.state = "real"

RunBuildChecks_Unlocked(t, r) ==
  LET recipe == t.recipe[r.pkg]
  IN /\ recipe.version = r.version /\ ValidateRecipe(recipe, r.abi)
     /\ ValidateRuntimeLock(t.lock)

\* Steps 1 to 5 of run_build, all that a dry run does.
RunBuildChecks(t, r) ==
  LET recipe == t.recipe[r.pkg]
  IN /\ recipe.version = r.version /\ ValidateRecipe(recipe, r.abi)
     /\ ValidateRuntimeLock(t.lock)
     /\ recipe.local => t.src[r.pkg] = recipe.sha

\* A wheel's bytes follow from what goes into it: the compilation environment
\* is made from the ABI and the locked runtime alone, and SOURCE_DATE_EPOCH
\* makes the build repeatable.  tagged says whether the platform tag, and with
\* it the file name, could be corrected.
Wheel(t, r, tagged) ==
  [pkg |-> r.pkg, abi |-> r.abi, src |-> t.src[r.pkg], runtime |-> t.lock.id, tagged |-> tagged]

\* The exit code of inspect_wheel.py: only a file that is no archive fails it;
\* what the security checks find is printed.
InspectWheel(zip) == zip

\* The exit code of inspect_elf.py.  A readelf that is missing, fails or
\* times out only adds a warning.
InspectElf(w, readable) == readable => w.src \notin BadSources

\* generate_manifest.py on a wheel.
GenerateManifest(t, r, w) ==
  [pkg |-> r.pkg, version |-> r.version, abi |-> r.abi, channel |-> r.channel,
   runtime |-> t.lock.id, source |-> t.recipe[r.pkg].sha, sha |-> w,
   url |-> <<r.pkg, r.version, r.abi, w.tagged>>]

\* The file index/<channel>/<package>-<version>-<abi>.json a manifest is in.
File(m) == <<m.channel, m.pkg, m.version, m.abi>>

SaveManifest(manifests, m) == {x \in manifests : File(x) # File(m)} \cup {m}

IndexIn(order, x) == CHOOSE i \in DOMAIN order : order[i] = x

\* Two manifests of one package in the order collect_manifests returns them:
\* channel by channel, and in a channel by file name.
CollectedBefore(x, y) ==
  LET cx == IndexIn(ChannelOrder, x.channel)
      cy == IndexIn(ChannelOrder, y.channel)
  IN \/ cx < cy
     \/ cx = cy /\ x.version < y.version
     \/ /\ cx = cy /\ x.version = y.version
        /\ IndexIn(AbiOrder, x.abi) < IndexIn(AbiOrder, y.abi)

CollectManifests_First(manifests, c) ==
  {m \in manifests : m.channel = "experimental"}

\* collect_manifests for --channel c.
CollectManifests(manifests, c) == {m \in manifests : c \in {"all", m.channel}}

\* A dictionary keyed by package name keeps the last manifest collected.
GeneratePackagesJson(ms) ==
  {m \in ms : \A x \in ms : x.pkg = m.pkg => ~ CollectedBefore(m, x)}

GenerateAbiJson(ms, abi) == GeneratePackagesJson({m \in ms : m.abi = abi})

\* generate_index.py: the directory of the lock's runtime is written, the
\* directories of other runtimes stay.
GenerateIndex(t, c) ==
  LET ms == CollectManifests(t.manifests, c)
  IN [t EXCEPT !.index[t.lock.id] =
        [packages |-> GeneratePackagesJson(ms),
         abi |-> [a \in Abis |-> GenerateAbiJson(ms, a)]]]

-----------------------------------------------------------------------------
(* The jobs *)

Running == {"queued", "build", "inspect", "index", "release", "upload", "push"}
Group(r) == <<r.pkg, r.version, r.abi>>

\* The job is over, well or badly, and its runner is discarded.
End(j) ==
  /\ pc' = [pc EXCEPT ![j] = "ended"]
  /\ rq' = [rq EXCEPT ![j] = None]
  /\ base' = [base EXCEPT ![j] = None]
  /\ tree' = [tree EXCEPT ![j] = None]
  /\ wheel' = [wheel EXCEPT ![j] = None]

Continue(j, step) == pc' = [pc EXCEPT ![j] = step]

\* workflow_dispatch fixes the commit the job will check out.
Dispatch(j) == \E r \in Request :
  /\ pc[j] = "new"
  /\ Continue(j, "queued")
  /\ rq' = [rq EXCEPT ![j] = r]
  /\ base' = [base EXCEPT ![j] = main]
  /\ tree' = [tree EXCEPT ![j] = main]
  /\ UNCHANGED <<main, wheel, releases, edits>>

\* The step "Validate request, recipes, and source locks"; jobs of one
\* package, version and ABI wait for each other.
ValidRequest(t, r) == ValidateRecipes(t) /\ VerifySourceLock(t) /\ RunBuildChecks(t, r)

\* Faulty variant: no concurrency group.
Validate_Ungrouped(j) ==
  /\ pc[j] = "queued"
  /\ IF ValidRequest(tree[j], rq[j])
     THEN Continue(j, "build") /\ UNCHANGED <<rq, base, tree, wheel>>
     ELSE End(j)
  /\ UNCHANGED <<main, releases, edits>>

Validate(j) ==
  /\ pc[j] = "queued"
  /\ \A k \in Jobs : pc[k] \in Running \ {"queued"} => Group(rq[k]) # Group(rq[j])
  /\ IF ValidRequest(tree[j], rq[j])
     THEN Continue(j, "build") /\ UNCHANGED <<rq, base, tree, wheel>>
     ELSE End(j)
  /\ UNCHANGED <<main, releases, edits>>

\* build.py up to build_wheel.  Anything but a local source ends it; so do a
\* missing NDK or Python distribution and a failing pip wheel (JobFails).
BuildWheel(j) == \E tagged \in BOOLEAN :
  /\ pc[j] = "build"
  /\ RunBuildChecks(tree[j], rq[j]) /\ tree[j].recipe[rq[j].pkg].local
  /\ Continue(j, "inspect")
  /\ wheel' = [wheel EXCEPT ![j] = Wheel(tree[j], rq[j], tagged)]
  /\ UNCHANGED <<main, rq, base, tree, releases, edits>>

\* inspect_artifact: both scripts run, and both must succeed.
Inspected(w, readable, zip) == InspectWheel(zip) /\ InspectElf(w, readable)

\* The rest of run_build: the wheel is copied to dist/ if it passes.  The
\* manifest that build.py writes beside the wheel is never read again.
InspectArtifact(j) == \E readable, zip \in BOOLEAN :
  /\ pc[j] = "inspect"
  /\ IF Inspected(wheel[j], readable, zip)
     THEN Continue(j, "index") /\ UNCHANGED <<rq, base, tree, wheel>>
     ELSE End(j)
  /\ UNCHANGED <<main, releases, edits>>

\* The step "Generate package manifest and merged index".
IndexedTree(t, r, w) ==
  GenerateIndex([t EXCEPT !.manifests = SaveManifest(@, GenerateManifest(t, r, w))], "all")

ManifestAndIndex(j) ==
  /\ pc[j] = "index"
  /\ Continue(j, "release")
  /\ tree' = [tree EXCEPT ![j] = IndexedTree(tree[j], rq[j], wheel[j])]
  /\ UNCHANGED <<main, rq, base, wheel, releases, edits>>

\* Where the job's asset is found.
Asset(j) == <<rq[j].pkg, rq[j].version, rq[j].abi, wheel[j].tagged>>

\* gh release upload --clobber deletes the asset of that name before it
\* uploads the new one.
DeleteAsset(j) ==
  /\ pc[j] = "release" /\ releases[Asset(j)] # None
  /\ Continue(j, "upload")
  /\ releases' = [releases EXCEPT ![Asset(j)] = None]
  /\ UNCHANGED <<main, rq, base, tree, wheel, edits>>

\* The upload after that, or the first one (gh release create).
UploadAsset(j) ==
  /\ pc[j] = "upload" \/ (pc[j] = "release" /\ releases[Asset(j)] = None)
  /\ Continue(j, "push")
  /\ releases' = [releases EXCEPT ![Asset(j)] = wheel[j]]
  /\ UNCHANGED <<main, rq, base, tree, wheel, edits>>

Accepted_Forced(j) == TRUE

\* git diff compares with the job's own checkout; git push is refused when
\* the branch has moved.
Accepted(j) == main.rev = base[j].rev

CommitIndex(j) ==
  /\ pc[j] = "push"
  /\ main' = IF tree[j] # base[j] /\ Accepted(j)
             THEN [tree[j] EXCEPT !.rev = main.rev + 1] ELSE main
  /\ End(j)
  /\ UNCHANGED <<releases, edits>>

\* A command of the job fails, the job is cancelled or runs out of time.
JobFails(j) ==
  /\ pc[j] \in Running
  /\ End(j)
  /\ UNCHANGED <<main, releases, edits>>

-----------------------------------------------------------------------------
(* The developers *)

Commit(t) ==
  /\ edits < MaxEdits /\ edits' = edits + 1
  /\ main' = [t EXCEPT !.rev = main.rev + 1]
  /\ UNCHANGED <<pc, rq, base, tree, wheel, releases>>

CommitPackage == \E e \in Commits :
  Commit([main EXCEPT !.recipe[e.pkg] = e.recipe, !.src[e.pkg] = e.src, !.locked[e.pkg] = e.locked])

CommitRuntime == \E l \in Locks : l # main.lock /\ Commit([main EXCEPT !.lock = l])

\* generate_index.py --channel c, run by hand and committed.
CommitLocalIndex == \E c \in LocalChannels : Commit(GenerateIndex(main, c))

-----------------------------------------------------------------------------
EmptyIndex == [packages |-> {}, abi |-> [a \in Abis |-> {}]]

Init ==
  /\ main \in {[rev |-> 0, recipe |-> [p \in Packages |-> e.recipe],
                src |-> [p \in Packages |-> e.src], locked |-> [p \in Packages |-> e.src],
                lock |-> l, manifests |-> {}, index |-> [r \in Runtimes |-> EmptyIndex]] :
               e \in {c \in Commits : c.recipe.complete /\ c.recipe.sha = c.src}, l \in Locks}
  /\ pc = [j \in Jobs |-> "new"]
  /\ rq = [j \in Jobs |-> None]
  /\ base = [j \in Jobs |-> None]
  /\ tree = [j \in Jobs |-> None]
  /\ wheel = [j \in Jobs |-> None]
  /\ releases = [u \in Url |-> None]
  /\ edits = 0

JobStep(j) ==
  \/ Dispatch(j) \/ Validate(j) \/ BuildWheel(j) \/ InspectArtifact(j)
  \/ ManifestAndIndex(j) \/ DeleteAsset(j) \/ UploadAsset(j) \/ CommitIndex(j) \/ JobFails(j)

Next == (\E j \in Jobs : JobStep(j)) \/ CommitPackage \/ CommitRuntime \/ CommitLocalIndex

Spec == Init /\ [][Next]_vars

-----------------------------------------------------------------------------
(* Properties *)

Offered(t) == UNION {t.index[r].abi[a] : r \in Runtimes, a \in Abis}

\* What the index of the branch offers was compiled from exactly the sources
\* its manifest names, for the ABI it is filed under, whatever developers
\* committed before, during and after the build (build.py, verify_source_lock.py).
OfferedFromLockedSource ==
  \A r \in Runtimes, a \in Abis : \A m \in main.index[r].abi[a] :
    m.sha.src = m.source /\ m.sha.abi = a

\* A manifest that reached the branch is never lost again, though several jobs
\* each push a whole index directory made from an older checkout
\* (build-package.yml, "Commit index update").
PublishedStays == [][{File(m) : m \in main.manifests} \subseteq {File(m) : m \in main'.manifests}]_vars

\* Regenerating the index drops no package of any channel: each published
\* manifest is offered for its ABI, or one collected after it is; and what
\* packages.json lists is what the file of that ABI offers (generate_index.py).
IndexCovers ==
  /\ \A m \in main.manifests : \E r \in Runtimes : \E x \in main.index[r].abi[m.abi] :
       x.pkg = m.pkg /\ ~ CollectedBefore(x, m)
  /\ \A r \in Runtimes : \A m \in main.index[r].packages : m \in main.index[r].abi[m.abi]

\* When a manifest reaches the branch, the asset it names is there and is the
\* wheel whose hash it gives, though jobs replace assets in two steps and die
\* between them (build-package.yml:33-35, 199-222).  It may be gone afterwards.
PublishedWithItsAsset ==
  [][\A m \in main'.manifests \ main.manifests : releases[m.url] = m.sha]_vars
=============================================================================
