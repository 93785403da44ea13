-------------------------- MODULE GitopsBumpProofs --------------------------
(***************************************************************************)
(* What a push may do to the branch, proved for any number of builds,      *)
(* services, revisions, rollbacks and faults, and what a bump does to a    *)
(* values file, for any lines.  The first argument is about heads that are *)
(* known somewhere: two of them with the same commits have the same tags,  *)
(* each tag was set by a commit the head reaches, and what a build started *)
(* from or fetched is always behind the branch.  So a push that is a       *)
(* fast-forward replaces exactly the head its patch was made for.  The     *)
(* second one follows the block of one level that the image heads: writing *)
(* a field moves the lines below it by one or none, and which lines are    *)
(* siblings, open one another, say a field or are the rest is carried over *)
(* line by line.                                                           *)
(***************************************************************************)
EXTENDS GitopsBump, ValuesFile, DataLemmas, SequenceTheorems, TLAPS

-----------------------------------------------------------------------------
(* The inductive invariant.                                                *)

HeadsUpTo(n) == [commits : SUBSET (1 .. n), tags : TagMap]

\* Commit c of the log sets the tag of s to t.
Sets(log, c, s, t) == s \in DOMAIN log[c] /\ log[c][s].new = t

\* Every tag of a head, the placeholders apart, was set by a commit it reaches.
TagsAreSet(log, h) == \A s \in Services : h.tags[s] = 0 \/ \E c \in h.commits : Sets(log, c, s, h.tags[s])

\* The branch has all commits of h.
Behind(h, branch) == h.commits \subseteq (IF branch = NoBranch THEN {} ELSE branch.commits)

\* For every service a build has in its manifest, a commit in C sets its tag.
Delivers(r, log, C) ==
    \A s \in r.services : r.orig.tags[s] = r.tag \/ \E c \in C : Sets(log, c, s, r.tag)

\* The tree of a bump: the build's tag for its services, the rest as it was.
Bumped(r, tags) == \A s \in Services : tags[s] = IF s \in r.services THEN r.tag ELSE r.orig.tags[s]

\* A replayed bump changes only what the build has built and has seen.
Replayed(r) ==
    \A s \in Services : r.head.tags[s] # r.upstream.tags[s] =>
        s \in r.services /\ r.head.tags[s] = r.tag /\ r.upstream.tags[s] = r.orig.tags[s]

\* What a run knows at each of its steps.
RunOK(r, log, branch) ==
    /\ r.tag # 0
    /\ Behind(r.orig, branch) /\ Behind(r.upstream, branch)
    /\ r.pc = "bump" => r.head = r.orig /\ r.tree = r.orig.tags
    /\ r.pc = "commit" => r.head = r.orig /\ r.tree # r.orig.tags /\ Bumped(r, r.tree)
    /\ r.pc \in {"push", "fetch", "rebase"} =>
          /\ r.bump \in 1 .. Len(log)
          /\ r.head.commits = r.orig.commits \cup {r.bump}
          /\ Bumped(r, r.head.tags)
          /\ log[r.bump] = Diff(r.orig.tags, r.head.tags)
    /\ r.pc = "repush" =>
          /\ r.upstream.commits \subseteq r.head.commits
          /\ r.head.commits \subseteq r.upstream.commits \cup {r.bump}
          /\ Replayed(r)
          /\ Delivers(r, log, r.head.commits)
    /\ r.pc = "pushed" => branch # NoBranch /\ Delivers(r, log, branch.commits)

HeadsOf(r) == IF r = NoBuild THEN {} ELSE {r.orig, r.head, r.upstream}
Known == ({main, gitops} \cup UNION {HeadsOf(build[b]) : b \in Builds}) \ {NoBranch}

PatchesChange == \A c \in 1 .. Len(commits) : \A s \in DOMAIN commits[c] : commits[c][s].old # commits[c][s].new
Coherent == \A h, k \in Known : h.commits = k.commits => h.tags = k.tags
HeadsAreSet == \A h \in Known : TagsAreSet(commits, h)
RunsOK == \A b \in Builds : build[b] # NoBuild => RunOK(build[b], commits, gitops)

IInv ==
    /\ TypeOK
    /\ PatchesChange
    /\ Coherent
    /\ HeadsAreSet
    /\ Behind(main, gitops)
    /\ RunsOK

-----------------------------------------------------------------------------
(* Patches, logs and runs.                                                 *)

RunsUpTo(n) ==
    [pc : Active \cup Ended, services : (SUBSET Services) \ {{}}, tag : Tags, orig : HeadsUpTo(n),
     tree : TagMap, head : HeadsUpTo(n), bump : Nat, upstream : HeadsUpTo(n), tries : 0 .. Attempts - 1]

\* A patch speaks of services and tags.
LEMMA PatchShape ==
    ASSUME NEW p \in Patches
    PROVE  /\ DOMAIN p \subseteq Services /\ DOMAIN p # {}
           /\ \A s \in DOMAIN p : p[s].old \in Tags /\ p[s].new \in Tags
  BY DEF Patches, Change

\* The diff of two trees that differ is a patch; it takes each changed tag from
\* the one to the other.
LEMMA DiffIsPatch ==
    ASSUME NEW from \in TagMap, NEW to \in TagMap, from # to
    PROVE  /\ Diff(from, to) \in Patches
           /\ DOMAIN Diff(from, to) = {s \in Services : from[s] # to[s]}
           /\ \A s \in DOMAIN Diff(from, to) :
                 /\ Diff(from, to)[s].old = from[s] /\ Diff(from, to)[s].new = to[s]
                 /\ Diff(from, to)[s].old # Diff(from, to)[s].new
<1> DEFINE D == {s \in Services : from[s] # to[s]}
<1>1. Diff(from, to) = [s \in D |-> [old |-> from[s], new |-> to[s]]]
  BY DEF Diff
<1>2. D \in (SUBSET Services) \ {{}}
  BY DEF TagMap
<1>3. \A s \in D : [old |-> from[s], new |-> to[s]] \in Change
  BY DEF TagMap, Change
<1>4. Diff(from, to) \in [D -> Change]
  BY <1>1, <1>3
<1>5. Diff(from, to) \in Patches
  BY <1>2, <1>4 DEF Patches
<1>6. QED
  BY <1>1, <1>5

\* A commit made is appended to the log and leaves the others where they are.
LEMMA LogGrows ==
    ASSUME NEW log \in Seq(Patches), NEW p \in Patches
    PROVE  /\ Append(log, p) \in Seq(Patches)
           /\ Len(Append(log, p)) = Len(log) + 1
           /\ \A c \in 1 .. Len(log) : Append(log, p)[c] = log[c]
           /\ Append(log, p)[Len(log) + 1] = p
           /\ HeadsUpTo(Len(log)) \subseteq HeadsUpTo(Len(log) + 1)
           /\ RunsUpTo(Len(log)) \subseteq RunsUpTo(Len(log) + 1)
<1>1. 1 .. Len(log) \subseteq 1 .. Len(log) + 1
  OBVIOUS
<1>2. HeadsUpTo(Len(log)) \subseteq HeadsUpTo(Len(log) + 1)
  BY <1>1 DEF HeadsUpTo
<1>3. RunsUpTo(Len(log)) \subseteq RunsUpTo(Len(log) + 1)
  BY <1>2 DEF RunsUpTo
<1>4. QED
  BY <1>2, <1>3

\* What a run knows stays true when the log and the branch grow.
LEMMA RunStaysOK ==
    ASSUME NEW log \in Seq(Patches), NEW log2 \in Seq(Patches),
           Len(log) <= Len(log2), \A c \in 1 .. Len(log) : log2[c] = log[c],
           NEW branch \in {NoBranch} \cup HeadsUpTo(Len(log)), NEW branch2,
           branch # NoBranch => branch2 # NoBranch /\ branch.commits \subseteq branch2.commits,
           NEW r \in RunsUpTo(Len(log)), RunOK(r, log, branch)
    PROVE  RunOK(r, log2, branch2)
<1>1. /\ r.orig \in HeadsUpTo(Len(log)) /\ r.head \in HeadsUpTo(Len(log))
      /\ r.upstream \in HeadsUpTo(Len(log))
  BY DEF RunsUpTo
<1>2. Behind(r.orig, branch2) /\ Behind(r.upstream, branch2)
  BY DEF RunOK, Behind
<1>3. ASSUME NEW C \in SUBSET (1 .. Len(log)), NEW C2, C \subseteq C2, Delivers(r, log, C)
      PROVE  Delivers(r, log2, C2)
  BY <1>3 DEF Delivers, Sets
<1>4. r.pc = "repush" => Delivers(r, log2, r.head.commits)
  BY <1>1, <1>3 DEF RunOK, HeadsUpTo
<1>5. r.pc = "pushed" => branch2 # NoBranch /\ Delivers(r, log2, branch2.commits)
  BY <1>3 DEF RunOK, HeadsUpTo
<1>6. r.pc \in {"push", "fetch", "rebase"} =>
          /\ r.bump \in 1 .. Len(log2)
          /\ log2[r.bump] = Diff(r.orig.tags, r.head.tags)
  BY DEF RunOK
<1>7. QED
  BY <1>2, <1>4, <1>5, <1>6 DEF RunOK

-----------------------------------------------------------------------------
(* Steps.                                                                  *)

LEMMA RunTyped ==
    ASSUME TypeOK, NEW b \in Builds, build[b] # NoBuild
    PROVE  build[b] \in RunsUpTo(Len(commits))
  BY DEF TypeOK, BuildStates, RunsUpTo, Heads, HeadsUpTo

\* The heads known after a step of one run are those known before, the ones
\* it brings in, and N.
LEMMA KnownAfter ==
    ASSUME NEW b \in Builds, NEW N,
           \A c \in Builds \ {b} : build'[c] = build[c],
           HeadsOf(build'[b]) \subseteq Known \cup {N}, main' \in Known \cup {N},
           gitops' \in Known \cup {N, NoBranch}
    PROVE  Known' \subseteq Known \cup {N}
<1>1. ASSUME NEW c \in Builds
      PROVE  HeadsOf(build'[c]) \ {NoBranch} \subseteq Known \cup {N}
  <2>1. CASE c = b
    BY <2>1
  <2>2. CASE c # b
    <3>1. build'[c] = build[c]
      BY <2>2
    <3>2. QED
      BY <3>1 DEF Known
  <2>3. QED
    BY <2>1, <2>2
<1>2. Known' = ({main', gitops'} \cup UNION {HeadsOf(build'[c]) : c \in Builds}) \ {NoBranch}
  BY DEF Known, HeadsOf, NoBuild, NoBranch
<1>3. QED
  BY <1>1, <1>2

LEMMA KnownTyped ==
    ASSUME TypeOK
    PROVE  Known \subseteq HeadsUpTo(Len(commits))
<1>1. ASSUME NEW b \in Builds
      PROVE  HeadsOf(build[b]) \subseteq HeadsUpTo(Len(commits))
  BY RunTyped DEF HeadsOf, RunsUpTo
<1>2. main \in HeadsUpTo(Len(commits)) /\ gitops \in {NoBranch} \cup HeadsUpTo(Len(commits))
  BY DEF TypeOK, Heads, HeadsUpTo
<1>3. QED
  BY <1>1, <1>2 DEF Known

\* What an action has to show: the log and the branch only grow, the runs it
\* touches are as they should be, and a head it makes carries a new commit.
LEMMA StepOK ==
    ASSUME IInv, TypeOK',
           \/ commits' = commits
           \/ \E p \in Patches : /\ commits' = Append(commits, p)
                                 /\ \A s \in DOMAIN p : p[s].old # p[s].new,
           gitops # NoBranch => gitops' # NoBranch /\ gitops.commits \subseteq gitops'.commits,
           Behind(main', gitops'),
           \A c \in Builds : \/ build'[c] = build[c]
                             \/ build'[c] # NoBuild => RunOK(build'[c], commits', gitops'),
           NEW N, Known' \subseteq Known \cup {N},
           N \in Known' => \/ N \in Known
                           \/ Len(commits) + 1 \in N.commits /\ TagsAreSet(commits', N)
    PROVE  IInv'
<1>1. /\ Len(commits) \in Nat /\ Len(commits) <= Len(commits')
      /\ commits \in Seq(Patches) /\ commits' \in Seq(Patches)
      /\ \A c \in 1 .. Len(commits) : commits'[c] = commits[c]
  BY LogGrows DEF IInv, TypeOK
<1>2. PatchesChange'
  <2>1. CASE commits' = commits
    BY <2>1 DEF IInv, PatchesChange
  <2>2. CASE \E p \in Patches : /\ commits' = Append(commits, p)
                                /\ \A s \in DOMAIN p : p[s].old # p[s].new
    <3>1. PICK p \in Patches : /\ commits' = Append(commits, p)
                               /\ \A s \in DOMAIN p : p[s].old # p[s].new
      BY <2>2
    <3>2. /\ Len(commits') = Len(commits) + 1 /\ commits'[Len(commits) + 1] = p
      BY <1>1, <3>1, LogGrows
    <3>3. SUFFICES ASSUME NEW c \in 1 .. Len(commits')
                   PROVE  \A s \in DOMAIN commits'[c] : commits'[c][s].old # commits'[c][s].new
      BY DEF PatchesChange
    <3>4. CASE c = Len(commits) + 1
      BY <3>1, <3>2, <3>4
    <3>5. CASE c \in 1 .. Len(commits)
      BY <1>1, <3>5 DEF IInv, PatchesChange
    <3>6. QED
      BY <1>1, <3>2, <3>4, <3>5
  <2>3. QED
    BY <2>1, <2>2
<1>3. \A h \in Known : Len(commits) + 1 \notin h.commits
  BY <1>1, KnownTyped DEF IInv, HeadsUpTo
<1>4. Coherent'
  BY <1>3 DEF IInv, Coherent
<1>5. \A h \in Known : TagsAreSet(commits', h)
  BY <1>1, KnownTyped DEF IInv, HeadsAreSet, TagsAreSet, Sets, HeadsUpTo
<1>6. HeadsAreSet'
  BY <1>5 DEF HeadsAreSet
<1>7. RunsOK'
  <2>1. SUFFICES ASSUME NEW c \in Builds, build'[c] # NoBuild
                 PROVE  RunOK(build'[c], commits', gitops')
    BY DEF RunsOK, NoBuild
  <2>2. CASE build'[c] = build[c]
    <3>1. build[c] \in RunsUpTo(Len(commits)) /\ RunOK(build[c], commits, gitops)
      BY <2>1, <2>2, RunTyped DEF IInv, RunsOK
    <3>2. gitops \in {NoBranch} \cup HeadsUpTo(Len(commits))
      BY DEF IInv, TypeOK, Heads, HeadsUpTo
    <3>3. QED
      BY <1>1, <2>2, <3>1, <3>2, RunStaysOK
  <2>3. CASE build'[c] # NoBuild => RunOK(build'[c], commits', gitops')
    BY <2>1, <2>3
  <2>4. QED
    BY <2>2, <2>3
<1>8. QED
  BY <1>2, <1>4, <1>6, <1>7 DEF IInv, Behind, NoBranch

\* The heads of the two branches are known ones.
LEMMA BranchesKnown ==
    ASSUME IInv
    PROVE  main \in Known /\ gitops \in Known \cup {NoBranch} /\ main \in HeadsUpTo(Len(commits))
<1>1. main \in Heads
  BY DEF IInv, TypeOK
<1>2. main # NoBranch
  BY <1>1 DEF Heads, NoBranch
<1>3. QED
  BY <1>1, <1>2 DEF Known, Heads, HeadsUpTo

\* The steps of one run: what is left to show is about its record, the branch,
\* and the one head it may make.
LEMMA BuildStep ==
    ASSUME IInv, NEW b \in Builds,
           \/ commits' = commits
           \/ \E p \in Patches : /\ commits' = Append(commits, p)
                                 /\ \A s \in DOMAIN p : p[s].old # p[s].new,
           build' \in [Builds -> {build'[c] : c \in Builds}],
           \A c \in Builds \ {b} : build'[c] = build[c],
           build'[b] \in RunsUpTo(Len(commits')), RunOK(build'[b], commits', gitops'),
           gitops' \in {NoBranch} \cup HeadsUpTo(Len(commits')),
           gitops # NoBranch => gitops' # NoBranch /\ gitops.commits \subseteq gitops'.commits,
           UNCHANGED <<main, revision, rollbacks>>, faults' \in 0 .. MaxFaults,
           NEW N, HeadsOf(build'[b]) \subseteq Known \cup {N}, gitops' \in Known \cup {N, NoBranch},
           N \in Known \/ (Len(commits) + 1 \in N.commits /\ TagsAreSet(commits', N))
    PROVE  IInv'
<1>1. /\ commits \in Seq(Patches) /\ commits' \in Seq(Patches)
      /\ HeadsUpTo(Len(commits)) \subseteq HeadsUpTo(Len(commits'))
      /\ RunsUpTo(Len(commits)) \subseteq RunsUpTo(Len(commits'))
  BY LogGrows DEF IInv, TypeOK
<1>2. main \in HeadsUpTo(Len(commits)) /\ main \in Known
  BY BranchesKnown
<1>3. Behind(main', gitops')
  BY DEF IInv, Behind
<1>4. TypeOK'
  <2>1. \A c \in Builds : build[c] \in {NoBuild} \cup RunsUpTo(Len(commits))
    BY RunTyped DEF IInv
  <2>2. \A c \in Builds : build'[c] \in {NoBuild} \cup RunsUpTo(Len(commits'))
    BY <1>1, <2>1
  <2>3. build' \in [Builds -> {NoBuild} \cup RunsUpTo(Len(commits'))]
    BY <2>2
  <2>4. RunsUpTo(Len(commits')) = BuildStates' /\ HeadsUpTo(Len(commits')) = Heads'
    BY DEF RunsUpTo, BuildStates, HeadsUpTo, Heads
  <2>5. main' \in Heads' /\ gitops' \in {NoBranch} \cup Heads'
    BY <1>1, <1>2, <2>4
  <2>6. revision' \in 1 .. MaxRevision /\ rollbacks' \in 0 .. MaxRollbacks
    BY DEF IInv, TypeOK
  <2>7. QED
    BY <1>1, <2>3, <2>4, <2>5, <2>6 DEF TypeOK, NoBuild, NoBranch
<1>5. Known' \subseteq Known \cup {N}
  BY <1>2, KnownAfter
<1>6. \A c \in Builds : \/ build'[c] = build[c]
                        \/ build'[c] # NoBuild => RunOK(build'[c], commits', gitops')
  OBVIOUS
<1>7. QED
  BY <1>3, <1>4, <1>5, <1>6, StepOK

\* What the invariant says of a run that has begun.
LEMMA RunFacts ==
    ASSUME IInv, NEW b \in Builds, build[b] # NoBuild
    PROVE  /\ build[b] \in RunsUpTo(Len(commits))
           /\ RunOK(build[b], commits, gitops)
           /\ build[b].orig \in Known /\ build[b].head \in Known /\ build[b].upstream \in Known
<1>1. \A h \in HeadsUpTo(Len(commits)) : h # NoBranch
  BY DEF HeadsUpTo, NoBranch
<1>2. build[b] \in RunsUpTo(Len(commits))
  BY RunTyped DEF IInv
<1>3. build[b].orig # NoBranch /\ build[b].head # NoBranch /\ build[b].upstream # NoBranch
  BY <1>1, <1>2 DEF RunsUpTo
<1>4. QED
  BY <1>2, <1>3 DEF IInv, RunsOK, Known, HeadsOf

LEMMA CheckoutPreserves ==
    ASSUME IInv, NEW b \in Builds, NEW S \in (SUBSET Services) \ {{}}, NEW t \in Tags \ {0},
           Checkout(b, S, t)
    PROVE  IInv'
<1> DEFINE q == build'[b]
<1>1. q = [pc |-> "bump", services |-> S, tag |-> t, orig |-> main, tree |-> main.tags, head |-> main,
           bump |-> 0, upstream |-> main, tries |-> 0]
  BY DEF Checkout, IInv, TypeOK
<1>2. main \in HeadsUpTo(Len(commits)) /\ main \in Known
  BY BranchesKnown
<1>3. q \in RunsUpTo(Len(commits))
  BY <1>1, <1>2 DEF RunsUpTo, Active, Attempts, HeadsUpTo
<1>4. RunOK(q, commits, gitops)
  BY <1>1 DEF RunOK, IInv
<1>5. HeadsOf(q) \subseteq Known
  BY <1>1, <1>2 DEF HeadsOf
<1>6. gitops \in {NoBranch} \cup HeadsUpTo(Len(commits)) /\ faults \in 0 .. MaxFaults
  BY DEF IInv, TypeOK, Heads, HeadsUpTo
<1>7. /\ build' \in [Builds -> {build'[c] : c \in Builds}]
      /\ \A c \in Builds \ {b} : build'[c] = build[c]
      /\ UNCHANGED <<commits, main, revision, gitops, rollbacks, faults>>
  BY DEF Checkout, IInv, TypeOK
<1>8. gitops \in Known \cup {NoBranch}
  BY DEF Known
<1>9. QED
  BY <1>2, <1>3, <1>4, <1>5, <1>6, <1>7, <1>8, BuildStep

LEMMA run_bumpPreserves ==
    ASSUME IInv, NEW b \in Builds, run_bump(b)
    PROVE  IInv'
<1> DEFINE r == build[b]
           q == build'[b]
           tree == bump_values(r.tree, r.services, r.tag)
           pc == CASE \E s \in r.services : image_block_state(s) = "malformed" -> "refused"
                   [] tree = r.head.tags -> "nothing"
                   [] OTHER -> "commit"
<1>1. r # NoBuild /\ r.pc = "bump"
  BY DEF run_bump, NoBuild
<1>2. /\ r \in RunsUpTo(Len(commits)) /\ RunOK(r, commits, gitops)
      /\ r.orig \in Known /\ r.head \in Known /\ r.upstream \in Known
  BY <1>1, RunFacts
<1>3. q = [r EXCEPT !.tree = tree, !.pc = pc]
  BY DEF run_bump, IInv, TypeOK
<1>4. /\ pc \in {"refused", "nothing", "commit"}
      /\ pc = "commit" => (\A s \in r.services : image_block_state(s) # "malformed") /\ tree # r.head.tags
  OBVIOUS
<1>5. tree \in TagMap
  BY <1>2 DEF RunsUpTo, bump_values, TagMap
<1> HIDE DEF pc
<1>6. q \in RunsUpTo(Len(commits))
  BY <1>2, <1>3, <1>4, <1>5 DEF RunsUpTo, Active, Ended
<1>7. /\ q.pc = pc /\ q.tree = tree /\ q.orig = r.orig /\ q.head = r.head /\ q.upstream = r.upstream
      /\ q.services = r.services /\ q.tag = r.tag
  BY <1>2, <1>3 DEF RunsUpTo
<1>8. pc = "commit" => Bumped(q, tree)
  BY <1>1, <1>2, <1>4, <1>7 DEF RunOK, Bumped, bump_values, image_block_state
<1>9. RunOK(q, commits, gitops)
  BY <1>1, <1>2, <1>4, <1>7, <1>8 DEF RunOK
<1>10. HeadsOf(q) \subseteq Known
  BY <1>2, <1>7 DEF HeadsOf
<1>11. gitops \in {NoBranch} \cup HeadsUpTo(Len(commits)) /\ faults \in 0 .. MaxFaults
  BY DEF IInv, TypeOK, Heads, HeadsUpTo
<1>12. /\ build' \in [Builds -> {build'[c] : c \in Builds}]
       /\ \A c \in Builds \ {b} : build'[c] = build[c]
       /\ UNCHANGED <<commits, main, revision, gitops, rollbacks, faults>>
  BY DEF run_bump, IInv, TypeOK
<1>13. gitops \in Known \cup {NoBranch}
  BY DEF Known
<1>14. QED
  BY <1>2, <1>6, <1>9, <1>10, <1>11, <1>12, <1>13, BuildStep

\* A run that ends leaves a record without a claim, except "pushed".
LEMMA EndedOK ==
    ASSUME IInv, NEW b \in Builds, build[b] # NoBuild,
           NEW pc \in Ended \ {"pushed"}, EndWith(b, pc),
           UNCHANGED <<commits, main, revision, gitops, rollbacks>>, faults' \in 0 .. MaxFaults
    PROVE  IInv'
<1> DEFINE r == build[b]
           q == build'[b]
<1>1. /\ r \in RunsUpTo(Len(commits)) /\ RunOK(r, commits, gitops)
      /\ r.orig \in Known /\ r.head \in Known /\ r.upstream \in Known
  BY RunFacts
<1>2. q = [r EXCEPT !.head = r.orig, !.tree = r.orig.tags, !.pc = pc]
  BY <1>1 DEF EndWith, restore_workspace, IInv, TypeOK, RunsUpTo
<1>3. q \in RunsUpTo(Len(commits))
  BY <1>1, <1>2 DEF RunsUpTo, HeadsUpTo
<1>4. /\ q.pc = pc /\ q.orig = r.orig /\ q.head = r.orig /\ q.upstream = r.upstream /\ q.tag = r.tag
  BY <1>1, <1>2 DEF RunsUpTo
<1>5. RunOK(q, commits, gitops)
  BY <1>1, <1>4 DEF RunOK, Ended
<1>6. HeadsOf(q) \subseteq Known
  BY <1>1, <1>4 DEF HeadsOf
<1>7. /\ gitops \in {NoBranch} \cup HeadsUpTo(Len(commits)) /\ gitops \in Known \cup {NoBranch}
  BY DEF IInv, TypeOK, Heads, HeadsUpTo, Known
<1>8. /\ build' \in [Builds -> {build'[c] : c \in Builds}]
      /\ \A c \in Builds \ {b} : build'[c] = build[c]
  BY DEF EndWith, IInv, TypeOK
<1>9. QED
  BY <1>1, <1>3, <1>5, <1>6, <1>7, <1>8, BuildStep

LEMMA CommitBumpPreserves ==
    ASSUME IInv, NEW b \in Builds, CommitBump(b)
    PROVE  IInv'
<1> DEFINE r == build[b]
           q == build'[b]
           id == Len(commits) + 1
           head == [commits |-> r.head.commits \cup {id}, tags |-> r.tree]
           patch == Diff(r.head.tags, r.tree)
<1>1. r # NoBuild /\ r.pc = "commit"
  BY DEF CommitBump, NoBuild
<1>2. /\ r \in RunsUpTo(Len(commits)) /\ RunOK(r, commits, gitops)
      /\ r.orig \in Known /\ r.head \in Known /\ r.upstream \in Known
  BY <1>1, RunFacts
<1>3. CASE EndWith(b, "failed") /\ Fault /\ UNCHANGED commits
  <2>1. UNCHANGED <<commits, main, revision, gitops, rollbacks>> /\ faults' \in 0 .. MaxFaults
    BY <1>3, GitopsAssumption DEF CommitBump, Fault, IInv, TypeOK
  <2>2. "failed" \in Ended \ {"pushed"}
    BY DEF Ended
  <2>3. QED
    BY <1>1, <1>3, <2>1, <2>2, EndedOK
<1>4. CASE /\ commits' = Append(commits, patch)
           /\ build' = [build EXCEPT ![b].pc = "push", ![b].bump = id, ![b].head = head]
           /\ UNCHANGED faults
  <2>1. r.head = r.orig /\ r.tree # r.orig.tags /\ Bumped(r, r.tree)
    BY <1>1, <1>2 DEF RunOK
  <2>2. r.orig \in HeadsUpTo(Len(commits)) /\ r.tree \in TagMap /\ r.orig.tags \in TagMap
    BY <1>2 DEF RunsUpTo, HeadsUpTo
  <2>3. /\ patch \in Patches /\ DOMAIN patch = {s \in Services : r.orig.tags[s] # r.tree[s]}
        /\ \A s \in DOMAIN patch : patch[s].new = r.tree[s] /\ patch[s].old # patch[s].new
    <3>1. patch = Diff(r.orig.tags, r.tree)
      BY <2>1
    <3>2. /\ Diff(r.orig.tags, r.tree) \in Patches
          /\ DOMAIN Diff(r.orig.tags, r.tree) = {s \in Services : r.orig.tags[s] # r.tree[s]}
          /\ \A s \in DOMAIN Diff(r.orig.tags, r.tree) :
                /\ Diff(r.orig.tags, r.tree)[s].new = r.tree[s]
                /\ Diff(r.orig.tags, r.tree)[s].old # Diff(r.orig.tags, r.tree)[s].new
      BY <2>1, <2>2, DiffIsPatch
    <3> HIDE DEF patch
    <3>3. QED
      BY <3>1, <3>2
  <2> HIDE DEF patch
  <2>4. /\ Len(commits') = id /\ id \in 1 .. id /\ commits'[id] = patch
        /\ \A c \in 1 .. Len(commits) : commits'[c] = commits[c]
        /\ HeadsUpTo(Len(commits)) \subseteq HeadsUpTo(id)
        /\ RunsUpTo(Len(commits)) \subseteq RunsUpTo(id)
    BY <1>4, <2>3, LogGrows DEF IInv, TypeOK
  <2>5. head \in HeadsUpTo(id)
    BY <2>1, <2>2, <2>4 DEF HeadsUpTo
  <2>6. q = [r EXCEPT !.pc = "push", !.bump = id, !.head = head]
    BY <1>4 DEF IInv, TypeOK
  <2>6a. head.commits = r.orig.commits \cup {id} /\ head.tags = r.tree
    BY <2>1
  <2> HIDE DEF head
  <2>7. q \in RunsUpTo(id)
    <3>1. id \in Nat /\ r \in RunsUpTo(id)
      BY <1>2, <2>4 DEF IInv, TypeOK
    <3>2. QED
      BY <2>5, <2>6, <3>1 DEF RunsUpTo, Active
  <2>8. /\ q.pc = "push" /\ q.bump = id /\ q.head = head /\ q.orig = r.orig /\ q.upstream = r.upstream
        /\ q.tag = r.tag /\ q.services = r.services
    BY <1>2, <2>6 DEF RunsUpTo
  <2>9. RunOK(q, commits', gitops)
    <3>1. Bumped(q, q.head.tags)
      BY <2>1, <2>8, <2>6a DEF Bumped
    <3>2. commits'[q.bump] = Diff(q.orig.tags, q.head.tags)
      BY <2>1, <2>4, <2>8, <2>6a DEF patch
    <3>3. QED
      BY <1>2, <2>1, <2>4, <2>8, <2>6a, <3>1, <3>2 DEF RunOK
  <2>10. TagsAreSet(commits', head)
    <3>1. SUFFICES ASSUME NEW s \in Services, r.tree[s] # 0
                   PROVE  \E c \in head.commits : Sets(commits', c, s, r.tree[s])
      BY <2>6a DEF TagsAreSet
    <3>2. CASE s \in DOMAIN patch
      BY <2>3, <2>4, <2>6a, <3>2 DEF Sets
    <3>3. CASE s \notin DOMAIN patch
      <4>1. r.tree[s] = r.orig.tags[s]
        BY <2>3, <3>3
      <4>2. PICK c \in r.orig.commits : Sets(commits, c, s, r.tree[s])
        BY <1>2, <3>1, <4>1 DEF IInv, HeadsAreSet, TagsAreSet
      <4>3. QED
        BY <2>1, <2>2, <2>4, <2>6a, <4>2 DEF Sets, HeadsUpTo
    <3>4. QED
      BY <3>2, <3>3
  <2>11. HeadsOf(q) \subseteq Known \cup {head}
    BY <1>2, <2>8 DEF HeadsOf
  <2>12. /\ gitops \in {NoBranch} \cup HeadsUpTo(id) /\ gitops \in Known \cup {NoBranch}
         /\ faults' \in 0 .. MaxFaults
    BY <1>4, <2>4 DEF IInv, TypeOK, Heads, HeadsUpTo, Known
  <2>13. /\ build' \in [Builds -> {build'[c] : c \in Builds}]
         /\ \A c \in Builds \ {b} : build'[c] = build[c]
         /\ UNCHANGED <<main, revision, gitops, rollbacks>>
    BY <1>4 DEF CommitBump, IInv, TypeOK
  <2>14. Len(commits) + 1 \in head.commits
    BY <2>6a
  <2>15. QED
    BY <1>4, <2>3, <2>4, <2>7, <2>9, <2>10, <2>11, <2>12, <2>13, <2>14, BuildStep
<1>5. QED
  BY <1>3, <1>4 DEF CommitBump

LEMMA FetchBranchPreserves ==
    ASSUME IInv, NEW b \in Builds, FetchBranch(b)
    PROVE  IInv'
<1> DEFINE r == build[b]
           q == build'[b]
<1>1. r # NoBuild /\ r.pc = "fetch"
  BY DEF FetchBranch, NoBuild
<1>2. /\ r \in RunsUpTo(Len(commits)) /\ RunOK(r, commits, gitops)
      /\ r.orig \in Known /\ r.head \in Known /\ r.upstream \in Known
  BY <1>1, RunFacts
<1>3. CASE EndWith(b, "rejected") /\ (UNCHANGED faults \/ Fault)
  <2>1. UNCHANGED <<commits, main, revision, gitops, rollbacks>> /\ faults' \in 0 .. MaxFaults
    BY <1>3, GitopsAssumption DEF FetchBranch, Fault, IInv, TypeOK
  <2>2. "rejected" \in Ended \ {"pushed"}
    BY DEF Ended
  <2>3. QED
    BY <1>1, <1>3, <2>1, <2>2, EndedOK
<1>4. CASE /\ gitops # NoBranch
           /\ build' = [build EXCEPT ![b].pc = "rebase", ![b].upstream = gitops]
           /\ UNCHANGED faults
  <2>1. q = [r EXCEPT !.pc = "rebase", !.upstream = gitops]
    BY <1>4 DEF IInv, TypeOK
  <2>2. /\ gitops \in HeadsUpTo(Len(commits)) /\ gitops \in Known /\ faults' \in 0 .. MaxFaults
    BY <1>4 DEF IInv, TypeOK, Heads, HeadsUpTo, Known
  <2>3. q \in RunsUpTo(Len(commits))
    BY <1>2, <2>1, <2>2 DEF RunsUpTo, Active
  <2>4. /\ q.pc = "rebase" /\ q.bump = r.bump /\ q.head = r.head /\ q.orig = r.orig
        /\ q.upstream = gitops /\ q.tag = r.tag /\ q.services = r.services
    BY <1>2, <2>1 DEF RunsUpTo
  <2>5. RunOK(q, commits, gitops)
    BY <1>1, <1>2, <1>4, <2>4 DEF RunOK, Behind, Bumped
  <2>6. HeadsOf(q) \subseteq Known
    BY <1>2, <2>2, <2>4 DEF HeadsOf
  <2>7. /\ build' \in [Builds -> {build'[c] : c \in Builds}]
        /\ \A c \in Builds \ {b} : build'[c] = build[c]
        /\ UNCHANGED <<commits, main, revision, gitops, rollbacks>>
    BY <1>4 DEF FetchBranch, IInv, TypeOK
  <2>8. QED
    BY <2>2, <2>3, <2>5, <2>6, <2>7, BuildStep
<1>5. QED
  BY <1>3, <1>4 DEF FetchBranch

\* A bump that has been committed sets the tag of every service it built.
LEMMA BumpDelivers ==
    ASSUME NEW log, NEW branch, NEW n \in Nat, NEW r \in RunsUpTo(n), RunOK(r, log, branch),
           r.pc \in {"push", "fetch", "rebase"}
    PROVE  Delivers(r, log, {r.bump})
<1>1. /\ Bumped(r, r.head.tags) /\ log[r.bump] = Diff(r.orig.tags, r.head.tags)
      /\ r.services \subseteq Services
  BY DEF RunOK, RunsUpTo
<1>2. SUFFICES ASSUME NEW s \in r.services, r.orig.tags[s] # r.tag
               PROVE  Sets(log, r.bump, s, r.tag)
  BY DEF Delivers
<1>3. s \in Services /\ r.head.tags[s] = r.tag
  BY <1>1, <1>2 DEF Bumped
<1>4. QED
  BY <1>1, <1>2, <1>3 DEF Sets, Diff

\* The steps of a run that reach the branch or fail to.
LEMMA PushPreserves ==
    ASSUME IInv, NEW b \in Builds,
           NEW loop, NEW otherwise, <<loop, otherwise>> \in {<<"push", "fetch">>, <<"repush", "rejected">>},
           Push(b, loop, otherwise)
    PROVE  IInv'
<1> DEFINE r == build[b]
           q == build'[b]
<1>1. r # NoBuild /\ r.pc = loop /\ loop \in {"push", "repush"}
  BY DEF Push, NoBuild
<1>2. /\ r \in RunsUpTo(Len(commits)) /\ RunOK(r, commits, gitops)
      /\ r.orig \in Known /\ r.head \in Known /\ r.upstream \in Known
  BY <1>1, RunFacts
<1>3. /\ UNCHANGED <<commits, main, revision, rollbacks>> /\ faults' \in 0 .. MaxFaults
      /\ gitops' = gitops \/ (gitops' = r.head /\ FastForward(r.head))
  BY GitopsAssumption DEF Push, Fault, IInv, TypeOK
<1>4. /\ Len(commits) \in Nat /\ commits \in Seq(Patches)
      /\ gitops \in {NoBranch} \cup HeadsUpTo(Len(commits)) /\ gitops \in Known \cup {NoBranch}
      /\ r.orig \in HeadsUpTo(Len(commits)) /\ r.head \in HeadsUpTo(Len(commits))
  BY <1>2 DEF IInv, TypeOK, Heads, HeadsUpTo, Known, RunsUpTo
<1>5. /\ gitops' \in {NoBranch} \cup HeadsUpTo(Len(commits)) /\ gitops' \in Known \cup {NoBranch}
      /\ gitops # NoBranch => gitops' # NoBranch /\ gitops.commits \subseteq gitops'.commits
      /\ r.head # NoBranch
  BY <1>2, <1>3, <1>4 DEF FastForward, HeadsUpTo, Known
<1>6. RunOK(r, commits', gitops')
  <2>1. RunOK(r, commits, gitops')
    <3>1. Len(commits) <= Len(commits) /\ \A c \in 1 .. Len(commits) : commits[c] = commits[c]
      BY <1>4
    <3> HIDE DEF r
    <3>2. QED
      BY <1>2, <1>4, <1>5, <3>1, RunStaysOK
  <2>2. QED
    BY <1>3, <2>1
<1>7. /\ build' \in [Builds -> {build'[c] : c \in Builds}]
      /\ \A c \in Builds \ {b} : build'[c] = build[c]
  BY DEF Push, ecom_ci_retry, EndWith, IInv, TypeOK
<1>8. ASSUME q \in RunsUpTo(Len(commits)), RunOK(q, commits', gitops'),
             q.orig = r.orig, q.upstream = r.upstream, q.head \in {r.head, r.orig}
      PROVE  IInv'
  <2>1. HeadsOf(q) \subseteq Known
    BY <1>2, <1>8 DEF HeadsOf
  <2> HIDE DEF q
  <2>2. /\ commits' = commits /\ q \in RunsUpTo(Len(commits'))
        /\ gitops' \in {NoBranch} \cup HeadsUpTo(Len(commits'))
    BY <1>3, <1>5, <1>8
  <2>3. QED
    BY <1>2, <1>3, <1>5, <1>7, <1>8, <2>1, <2>2, BuildStep DEF q
<1>9. CASE /\ gitops' = r.head
           /\ build' = [build EXCEPT ![b] =
                  [restore_workspace(@) EXCEPT !.pc = "pushed"]]
  <2>1. q = [r EXCEPT !.head = r.orig, !.tree = r.orig.tags, !.pc = "pushed"]
    BY <1>2, <1>9 DEF restore_workspace, IInv, TypeOK, RunsUpTo
  <2>2. /\ q.pc = "pushed" /\ q.orig = r.orig /\ q.head = r.orig /\ q.upstream = r.upstream
        /\ q.tag = r.tag /\ q.services = r.services
    BY <1>2, <2>1 DEF RunsUpTo
  <2>3. q \in RunsUpTo(Len(commits))
    BY <1>2, <1>4, <2>1 DEF RunsUpTo, HeadsUpTo, Ended
  <2>4. Delivers(r, commits, r.head.commits)
    <3>1. CASE loop = "push"
      <4>1. Delivers(r, commits, {r.bump}) /\ r.bump \in r.head.commits
        BY <1>1, <1>2, <1>4, <3>1, BumpDelivers DEF RunOK
      <4>2. QED
        BY <4>1 DEF Delivers
    <3>2. CASE loop = "repush"
      BY <1>1, <1>2, <3>2 DEF RunOK
    <3>3. QED
      BY <1>1, <3>1, <3>2
  <2>5. RunOK(q, commits', gitops')
    BY <1>3, <1>5, <1>6, <1>9, <2>2, <2>4 DEF RunOK, Delivers
  <2>6. QED
    BY <1>8, <2>2, <2>3, <2>5
<1>10. CASE ecom_ci_retry(b, otherwise)
  <2>1. CASE build' = [build EXCEPT ![b].tries = @ + 1] /\ r.tries + 1 < Attempts
    <3>1. q = [r EXCEPT !.tries = @ + 1]
      BY <2>1 DEF IInv, TypeOK
    <3>2. q \in RunsUpTo(Len(commits))
      <4>1. r.tries \in 0 .. 2 /\ r.tries + 1 < 3
        BY <1>2, <2>1 DEF RunsUpTo, Attempts
      <4>2. r.tries + 1 \in 0 .. Attempts - 1
        BY <4>1 DEF Attempts
      <4> DEFINE tries == r.tries + 1
      <4>3. q = [r EXCEPT !.tries = tries]
        BY <3>1
      <4> HIDE DEF q, tries
      <4>4. tries \in 0 .. Attempts - 1
        BY <4>2 DEF tries
      <4>5. QED
        BY <1>2, <4>3, <4>4 DEF RunsUpTo
    <3>3. /\ q.pc = r.pc /\ q.orig = r.orig /\ q.head = r.head /\ q.upstream = r.upstream
          /\ q.tag = r.tag /\ q.services = r.services /\ q.bump = r.bump /\ q.tree = r.tree
      BY <1>2, <3>1 DEF RunsUpTo
    <3>4. RunOK(q, commits', gitops')
      BY <1>6, <3>3 DEF RunOK, Bumped, Replayed, Delivers
    <3>5. QED
      BY <1>8, <3>2, <3>3, <3>4
  <2>2. CASE EndWith(b, "rejected")
    <3>1. q = [r EXCEPT !.head = r.orig, !.tree = r.orig.tags, !.pc = "rejected"]
      BY <1>2, <2>2 DEF EndWith, restore_workspace, IInv, TypeOK, RunsUpTo
    <3>2. q \in RunsUpTo(Len(commits))
      BY <1>2, <1>4, <3>1 DEF RunsUpTo, HeadsUpTo, Ended
    <3>3. /\ q.pc = "rejected" /\ q.orig = r.orig /\ q.head = r.orig /\ q.upstream = r.upstream
          /\ q.tag = r.tag
      BY <1>2, <3>1 DEF RunsUpTo
    <3>4. RunOK(q, commits', gitops')
      BY <1>6, <3>3 DEF RunOK
    <3>5. QED
      BY <1>8, <3>2, <3>3, <3>4
  <2>3. CASE build' = [build EXCEPT ![b].tries = 0, ![b].pc = otherwise] /\ otherwise # "rejected"
    <3>1. otherwise = "fetch" /\ loop = "push"
      BY <2>3
    <3>2. q = [r EXCEPT !.tries = 0, !.pc = "fetch"]
      BY <2>3, <3>1 DEF IInv, TypeOK
    <3>3. q \in RunsUpTo(Len(commits))
      <4>1. 0 \in 0 .. Attempts - 1 /\ "fetch" \in Active
        BY DEF Attempts, Active
      <4>2. QED
        BY <1>2, <3>2, <4>1 DEF RunsUpTo
    <3>4. /\ q.pc = "fetch" /\ q.orig = r.orig /\ q.head = r.head /\ q.upstream = r.upstream
          /\ q.tag = r.tag /\ q.services = r.services /\ q.bump = r.bump
      BY <1>2, <3>2 DEF RunsUpTo
    <3>5. RunOK(q, commits', gitops')
      BY <1>1, <1>6, <3>1, <3>4 DEF RunOK, Bumped
    <3>6. QED
      BY <1>8, <3>3, <3>4, <3>5
  <2>4. QED
    BY <1>10, <2>1, <2>2, <2>3 DEF ecom_ci_retry
<1>11. QED
  BY <1>9, <1>10 DEF Push

LEMMA RebaseBumpPreserves ==
    ASSUME IInv, NEW b \in Builds, RebaseBump(b)
    PROVE  IInv'
<1> DEFINE r == build[b]
           q == build'[b]
           patch == commits[r.bump]
           tags == Patched(patch, r.upstream.tags)
           id == Len(commits) + 1
           head == [commits |-> r.upstream.commits \cup {id}, tags |-> tags]
<1>1. r # NoBuild /\ r.pc = "rebase"
  BY DEF RebaseBump, NoBuild
<1>2. /\ r \in RunsUpTo(Len(commits)) /\ RunOK(r, commits, gitops)
      /\ r.orig \in Known /\ r.head \in Known /\ r.upstream \in Known
  BY <1>1, RunFacts
<1>3. /\ UNCHANGED <<main, revision, gitops, rollbacks, faults>>
      /\ gitops \in {NoBranch} \cup HeadsUpTo(Len(commits)) /\ gitops \in Known \cup {NoBranch}
      /\ faults \in 0 .. MaxFaults /\ Len(commits) \in Nat /\ commits \in Seq(Patches)
  BY DEF RebaseBump, IInv, TypeOK, Heads, HeadsUpTo, Known
<1>4. /\ r.orig \in HeadsUpTo(Len(commits)) /\ r.head \in HeadsUpTo(Len(commits))
      /\ r.upstream \in HeadsUpTo(Len(commits)) /\ r.services \subseteq Services
      /\ r.orig.tags \in TagMap /\ r.head.tags \in TagMap /\ r.upstream.tags \in TagMap
      /\ r.tag \in Tags
  BY <1>2 DEF RunsUpTo, HeadsUpTo
<1>5. /\ r.tag # 0 /\ r.bump \in 1 .. Len(commits) /\ Bumped(r, r.head.tags)
      /\ patch = Diff(r.orig.tags, r.head.tags) /\ patch \in Patches
  BY <1>1, <1>2, <1>3 DEF RunOK
<1>6. DOMAIN patch = {s \in Services : r.orig.tags[s] # r.head.tags[s]}
  BY <1>5 DEF Diff
<1>7. \A s \in DOMAIN patch :
         /\ s \in r.services /\ r.head.tags[s] = r.tag
         /\ patch[s].old = r.orig.tags[s] /\ patch[s].new = r.tag
  BY <1>5 DEF Diff, Bumped
<1>8. \A s \in r.services : r.orig.tags[s] = r.tag \/ s \in DOMAIN patch
  BY <1>4, <1>5, <1>6 DEF Bumped
<1>9. /\ build' \in [Builds -> {build'[c] : c \in Builds}]
      /\ \A c \in Builds \ {b} : build'[c] = build[c]
  BY DEF RebaseBump, EndWith, IInv, TypeOK
<1>10. CASE /\ Upstream(r)
            /\ build' = [build EXCEPT ![b].pc = "repush", ![b].head = r.upstream,
                                      ![b].tree = r.upstream.tags]
            /\ UNCHANGED commits
  <2>1. q = [r EXCEPT !.pc = "repush", !.head = r.upstream, !.tree = r.upstream.tags]
    BY <1>10 DEF IInv, TypeOK
  <2>2. /\ q.pc = "repush" /\ q.orig = r.orig /\ q.head = r.upstream /\ q.upstream = r.upstream
        /\ q.tag = r.tag /\ q.services = r.services
    BY <1>2, <2>1 DEF RunsUpTo
  <2>3. q \in RunsUpTo(Len(commits))
    BY <1>2, <1>4, <2>1 DEF RunsUpTo, Active
  <2>4. Delivers(r, commits, r.upstream.commits)
    <3>1. SUFFICES ASSUME NEW s \in r.services, s \in DOMAIN patch
                   PROVE  \E c \in r.upstream.commits : Sets(commits, c, s, r.tag)
      BY <1>8 DEF Delivers
    <3>2. CASE r.bump \in r.upstream.commits
      BY <1>7, <3>1, <3>2 DEF Sets
    <3>3. CASE \E c \in r.upstream.commits \ r.head.commits : commits[c] = patch
      BY <1>7, <3>1, <3>3 DEF Sets
    <3>4. CASE \A t \in DOMAIN patch : r.upstream.tags[t] = patch[t].new
      <4>1. r.upstream.tags[s] = r.tag /\ s \in Services
        BY <1>4, <1>7, <3>1, <3>4
      <4>2. QED
        BY <1>2, <1>5, <4>1 DEF IInv, HeadsAreSet, TagsAreSet
    <3>5. QED
      BY <1>10, <3>2, <3>3, <3>4 DEF Upstream
  <2>5. RunOK(q, commits, gitops)
    BY <1>2, <2>2, <2>4 DEF RunOK, Replayed, Delivers
  <2>6. HeadsOf(q) \subseteq Known
    BY <1>2, <2>2 DEF HeadsOf
  <2> HIDE DEF q
  <2>7. /\ q \in RunsUpTo(Len(commits')) /\ RunOK(q, commits', gitops') /\ commits' = commits
        /\ gitops' \in {NoBranch} \cup HeadsUpTo(Len(commits'))
    BY <1>3, <1>10, <2>3, <2>5
  <2>8. QED
    BY <1>2, <1>3, <1>9, <2>6, <2>7, BuildStep DEF q
<1>11. CASE /\ ~Upstream(r) /\ Applies(patch, r.upstream.tags)
            /\ commits' = Append(commits, Diff(r.upstream.tags, tags))
            /\ build' = [build EXCEPT ![b].pc = "repush", ![b].bump = id, ![b].tree = tags,
                   ![b].head = head]
  <2>1. tags \in TagMap
    <3>1. \A s \in DOMAIN patch : patch[s].new \in Tags
      BY <1>4, <1>7
    <3>2. \A s \in Services : r.upstream.tags[s] \in Tags
      BY <1>4 DEF TagMap
    <3> HIDE DEF patch
    <3>3. QED
      BY <3>1, <3>2 DEF Patched, TagMap
  <2>2. \A s \in Services : tags[s] = IF s \in DOMAIN patch THEN r.tag ELSE r.upstream.tags[s]
    BY <1>7 DEF Patched
  <2>3. tags # r.upstream.tags
    BY <1>6, <1>7, <1>11, <2>2 DEF Upstream
  <2> DEFINE p == Diff(r.upstream.tags, tags)
  <2>4. /\ p \in Patches /\ DOMAIN p = {s \in Services : r.upstream.tags[s] # tags[s]}
        /\ \A s \in DOMAIN p : p[s].new = tags[s] /\ p[s].old # p[s].new
    <3> HIDE DEF tags
    <3>1. QED
      BY <1>4, <2>1, <2>3, DiffIsPatch
  <2>5. head.commits = r.upstream.commits \cup {id} /\ head.tags = tags
    OBVIOUS
  <2>6. q = [r EXCEPT !.pc = "repush", !.bump = id, !.tree = tags, !.head = head]
    BY <1>11 DEF IInv, TypeOK
  <2>7. commits' = Append(commits, p)
    BY <1>11
  <2> HIDE DEF p, head, tags
  <2>8. /\ Len(commits') = id /\ id \in 1 .. id /\ commits'[id] = p
        /\ \A c \in 1 .. Len(commits) : commits'[c] = commits[c]
        /\ HeadsUpTo(Len(commits)) \subseteq HeadsUpTo(id)
        /\ RunsUpTo(Len(commits)) \subseteq RunsUpTo(id)
    BY <1>3, <2>4, <2>7, LogGrows
  <2>9. head \in HeadsUpTo(id)
    BY <1>4, <2>1, <2>8 DEF HeadsUpTo, head
  <2>10. q \in RunsUpTo(id)
    <3>1. id \in Nat /\ r \in RunsUpTo(id)
      BY <1>2, <1>3, <2>8
    <3>2. QED
      BY <2>1, <2>6, <2>9, <3>1 DEF RunsUpTo, Active
  <2>11. /\ q.pc = "repush" /\ q.bump = id /\ q.orig = r.orig /\ q.head = head
         /\ q.upstream = r.upstream /\ q.tag = r.tag /\ q.services = r.services
    BY <1>2, <2>6 DEF RunsUpTo
  <2>12. TagsAreSet(commits', head)
    <3>1. SUFFICES ASSUME NEW s \in Services, tags[s] # 0
                   PROVE  \E c \in head.commits : Sets(commits', c, s, tags[s])
      BY <2>5 DEF TagsAreSet
    <3>2. CASE s \in DOMAIN p
      BY <2>4, <2>5, <2>8, <3>2 DEF Sets
    <3>3. CASE s \notin DOMAIN p
      <4>1. tags[s] = r.upstream.tags[s]
        BY <2>4, <3>3
      <4>2. PICK c \in r.upstream.commits : Sets(commits, c, s, tags[s])
        BY <1>2, <3>1, <4>1 DEF IInv, HeadsAreSet, TagsAreSet
      <4>3. QED
        BY <1>4, <2>5, <2>8, <4>2 DEF Sets, HeadsUpTo
    <3>4. QED
      BY <3>2, <3>3
  <2>13. Delivers(q, commits', head.commits)
    <3>1. SUFFICES ASSUME NEW s \in r.services, s \in DOMAIN patch
                   PROVE  \E c \in head.commits : Sets(commits', c, s, r.tag)
      BY <1>8, <2>11 DEF Delivers
    <3>2. s \in Services /\ tags[s] = r.tag
      BY <1>4, <2>2, <3>1
    <3>3. QED
      BY <1>5, <2>5, <2>12, <3>2 DEF TagsAreSet
  <2>14. Replayed(q)
    <3>1. SUFFICES ASSUME NEW s \in Services, tags[s] # r.upstream.tags[s]
                   PROVE  /\ s \in r.services /\ tags[s] = r.tag
                          /\ r.upstream.tags[s] = r.orig.tags[s]
      BY <2>5, <2>11 DEF Replayed
    <3>2. s \in DOMAIN patch
      BY <2>2, <3>1
    <3>3. QED
      BY <1>7, <1>11, <2>2, <3>1, <3>2 DEF Applies
  <2>15. RunOK(q, commits', gitops)
    BY <1>2, <2>5, <2>11, <2>13, <2>14 DEF RunOK
  <2>16. HeadsOf(q) \subseteq Known \cup {head}
    BY <1>2, <2>11 DEF HeadsOf
  <2> HIDE DEF q
  <2>17. /\ q \in RunsUpTo(Len(commits')) /\ RunOK(q, commits', gitops')
         /\ gitops' \in {NoBranch} \cup HeadsUpTo(Len(commits')) /\ gitops' \in Known \cup {NoBranch}
    BY <1>3, <2>8, <2>10, <2>15
  <2>18. \E p2 \in Patches : /\ commits' = Append(commits, p2)
                            /\ \A s \in DOMAIN p2 : p2[s].old # p2[s].new
    BY <2>4, <2>7
  <2>19. Len(commits) + 1 \in head.commits
    BY <2>5
  <2>20. QED
    BY <1>3, <1>9, <2>12, <2>16, <2>17, <2>18, <2>19, BuildStep DEF q
<1>12. CASE EndWith(b, "rejected") /\ UNCHANGED commits
  <2>1. "rejected" \in Ended \ {"pushed"}
    BY DEF Ended
  <2>2. QED
    BY <1>1, <1>3, <1>12, <2>1, EndedOK
<1>13. QED
  BY <1>10, <1>11, <1>12 DEF RebaseBump

\* Merging makes main the branch's head: the branch has everything main has.
LEMMA MergeIntoMainPreserves ==
    ASSUME IInv, MergeIntoMain
    PROVE  IInv'
<1>1. /\ gitops \in HeadsUpTo(Len(commits)) /\ main \in HeadsUpTo(Len(commits)) /\ gitops \in Known
      /\ gitops # NoBranch
  BY DEF MergeIntoMain, IInv, TypeOK, Heads, HeadsUpTo, Known
<1>2. main.commits \cup gitops.commits = gitops.commits
  BY <1>1 DEF IInv, Behind
<1>3. main' = gitops
  BY <1>1, <1>2 DEF MergeIntoMain, HeadsUpTo
<1>4. UNCHANGED <<commits, gitops, build, rollbacks, faults>> /\ revision' \in 1 .. MaxRevision
  BY GitopsAssumption DEF MergeIntoMain, IInv, TypeOK
<1>5. TypeOK'
  BY <1>1, <1>3, <1>4 DEF IInv, TypeOK, Heads, HeadsUpTo, BuildStates, NoBuild, NoBranch
<1>6. Known' \subseteq Known \cup {gitops}
  BY <1>3, <1>4 DEF Known, HeadsOf, NoBuild, NoBranch
<1>7. Behind(main', gitops')
  BY <1>1, <1>3, <1>4 DEF Behind
<1>8. QED
  BY <1>1, <1>4, <1>5, <1>6, <1>7, StepOK

LEMMA SourceCommitPreserves ==
    ASSUME IInv, SourceCommit
    PROVE  IInv'
<1>1. UNCHANGED <<commits, main, gitops, build, rollbacks, faults>> /\ revision' \in 1 .. MaxRevision
  BY GitopsAssumption DEF SourceCommit, IInv, TypeOK
<1>2. TypeOK'
  BY <1>1 DEF IInv, TypeOK, Heads, BuildStates, NoBuild, NoBranch
<1>3. Known' \subseteq Known \cup {main} /\ main \in Known
  BY <1>1, BranchesKnown DEF Known, HeadsOf, NoBuild, NoBranch
<1>4. Behind(main', gitops')
  BY <1>1 DEF IInv
<1>5. QED
  BY <1>1, <1>2, <1>3, <1>4, StepOK

LEMMA RollbackPreserves ==
    ASSUME IInv, NEW c \in 1 .. Len(commits), Rollback(c)
    PROVE  IInv'
<1> DEFINE tags == [s \in Services |->
                       IF s \in DOMAIN commits[c] THEN commits[c][s].old ELSE gitops.tags[s]]
           p == Diff(gitops.tags, tags)
           id == Len(commits) + 1
           head == [commits |-> gitops.commits \cup {id}, tags |-> tags]
<1>1. /\ gitops # NoBranch /\ rollbacks < MaxRollbacks /\ rollbacks' = rollbacks + 1
      /\ \A s \in DOMAIN commits[c] : gitops.tags[s] = commits[c][s].new
      /\ commits' = Append(commits, p) /\ gitops' = head
      /\ UNCHANGED <<main, revision, build, faults>>
  BY DEF Rollback
<1>2. /\ gitops \in HeadsUpTo(Len(commits)) /\ gitops \in Known /\ gitops.tags \in TagMap
      /\ main \in HeadsUpTo(Len(commits)) /\ commits \in Seq(Patches) /\ Len(commits) \in Nat
      /\ commits[c] \in Patches
  BY <1>1 DEF IInv, TypeOK, Heads, HeadsUpTo, Known
<1>3. /\ DOMAIN commits[c] \subseteq Services /\ DOMAIN commits[c] # {}
      /\ \A s \in DOMAIN commits[c] : commits[c][s].old \in Tags
      /\ \A s \in DOMAIN commits[c] : commits[c][s].old # commits[c][s].new
  BY <1>2, PatchShape DEF IInv, PatchesChange
<1>4. tags \in TagMap /\ tags # gitops.tags
  <2>1. tags \in TagMap
    BY <1>2, <1>3 DEF TagMap
  <2>2. PICK s \in DOMAIN commits[c] : TRUE
    BY <1>3
  <2>3. tags[s] # gitops.tags[s]
    BY <1>1, <1>3, <2>2
  <2>4. QED
    BY <2>1, <2>3
<1>5. head.commits = gitops.commits \cup {id} /\ head.tags = tags
  OBVIOUS
<1> HIDE DEF tags, head
<1>6. /\ p \in Patches /\ DOMAIN p = {s \in Services : gitops.tags[s] # tags[s]}
      /\ \A s \in DOMAIN p : p[s].new = tags[s] /\ p[s].old # p[s].new
  BY <1>2, <1>4, DiffIsPatch
<1> HIDE DEF p
<1>7. /\ Len(commits') = id /\ id \in 1 .. id /\ commits'[id] = p /\ commits' \in Seq(Patches)
      /\ \A d \in 1 .. Len(commits) : commits'[d] = commits[d]
      /\ HeadsUpTo(Len(commits)) \subseteq HeadsUpTo(id)
      /\ RunsUpTo(Len(commits)) \subseteq RunsUpTo(id)
  BY <1>1, <1>2, <1>6, LogGrows
<1>8. head \in HeadsUpTo(id)
  BY <1>2, <1>4, <1>7 DEF HeadsUpTo, head
<1>9. TypeOK'
  <2>1. \A b \in Builds : build'[b] \in {NoBuild} \cup RunsUpTo(id)
    BY <1>1, <1>7, RunTyped DEF IInv
  <2>2. build' \in [Builds -> {NoBuild} \cup RunsUpTo(id)]
    BY <1>1, <2>1 DEF IInv, TypeOK
  <2>3. RunsUpTo(id) = BuildStates' /\ HeadsUpTo(id) = Heads'
    BY <1>7 DEF RunsUpTo, BuildStates, HeadsUpTo, Heads
  <2>4. rollbacks' \in 0 .. MaxRollbacks
    BY <1>1, GitopsAssumption DEF IInv, TypeOK
  <2>5. main' \in Heads' /\ gitops' \in Heads'
    BY <1>1, <1>2, <1>7, <1>8, <2>3
  <2>6. revision' \in 1 .. MaxRevision /\ faults' \in 0 .. MaxFaults
    BY <1>1 DEF IInv, TypeOK
  <2>7. QED
    BY <1>7, <2>2, <2>3, <2>4, <2>5, <2>6 DEF TypeOK, NoBuild, NoBranch
<1>10. TagsAreSet(commits', head)
  <2>1. SUFFICES ASSUME NEW s \in Services, tags[s] # 0
                 PROVE  \E d \in head.commits : Sets(commits', d, s, tags[s])
    BY <1>5 DEF TagsAreSet
  <2>2. CASE s \in DOMAIN p
    BY <1>5, <1>6, <1>7, <2>2 DEF Sets
  <2>3. CASE s \notin DOMAIN p
    <3>1. tags[s] = gitops.tags[s]
      BY <1>6, <2>3
    <3>2. PICK d \in gitops.commits : Sets(commits, d, s, tags[s])
      BY <1>2, <2>1, <3>1 DEF IInv, HeadsAreSet, TagsAreSet
    <3>3. QED
      BY <1>2, <1>5, <1>7, <3>2 DEF Sets, HeadsUpTo
  <2>4. QED
    BY <2>2, <2>3
<1>11. Known' \subseteq Known \cup {head}
  BY <1>1 DEF Known, HeadsOf, NoBuild, NoBranch
<1>12. /\ gitops' # NoBranch /\ gitops.commits \subseteq gitops'.commits
       /\ Len(commits) + 1 \in head.commits
  BY <1>1, <1>5, <1>8 DEF HeadsUpTo, NoBranch
<1>13. Behind(main', gitops')
  BY <1>1, <1>12 DEF IInv, Behind
<1>14. \E p2 \in Patches : /\ commits' = Append(commits, p2)
                          /\ \A s \in DOMAIN p2 : p2[s].old # p2[s].new
  BY <1>1, <1>6
<1>15. QED
  BY <1>1, <1>9, <1>10, <1>11, <1>12, <1>13, <1>14, StepOK

-----------------------------------------------------------------------------
(* The theorems.                                                           *)

LEMMA InitIInv == Init => IInv
<1>1. SUFFICES ASSUME Init PROVE IInv
  OBVIOUS
<1>2. 0 \in Tags /\ [s \in Services |-> 0] \in TagMap
  BY GitopsAssumption DEF Tags, TagMap
<1>3. Len(commits) = 0 /\ commits \in Seq(Patches) /\ Placeholders \in Heads
  BY <1>1, <1>2 DEF Init, Placeholders, Heads
<1>4. TypeOK
  BY <1>1, <1>3, GitopsAssumption DEF Init, TypeOK
<1>5. Known \subseteq {Placeholders}
  BY <1>1 DEF Init, Known, HeadsOf
<1>6. HeadsAreSet /\ Coherent
  BY <1>5 DEF HeadsAreSet, Coherent, TagsAreSet, Placeholders
<1>7. PatchesChange /\ RunsOK /\ Behind(main, gitops)
  BY <1>1, <1>3 DEF Init, PatchesChange, RunsOK, Behind, Placeholders
<1>8. QED
  BY <1>4, <1>6, <1>7 DEF IInv

LEMMA NextIInv == IInv /\ [Next]_vars => IInv'
<1>1. SUFFICES ASSUME IInv, [Next]_vars PROVE IInv'
  OBVIOUS
<1>2. CASE UNCHANGED vars
  <2>1. TypeOK'
    BY <1>1, <1>2 DEF vars, IInv, TypeOK, Heads, BuildStates, NoBuild, NoBranch
  <2>2. PatchesChange' /\ Behind(main, gitops)'
    BY <1>1, <1>2 DEF vars, IInv, PatchesChange, Behind, NoBranch
  <2>3. Known' = Known
    BY <1>2 DEF vars, Known, HeadsOf, NoBuild, NoBranch
  <2>4. Coherent' /\ HeadsAreSet'
    BY <1>1, <1>2, <2>3 DEF vars, IInv, Coherent, HeadsAreSet, TagsAreSet, Sets
  <2>5. RunsOK'
    BY <1>1, <1>2 DEF vars, IInv, RunsOK, RunOK, Behind, Delivers, Sets, Bumped, Replayed, NoBuild, NoBranch
  <2>6. QED
    BY <2>1, <2>2, <2>4, <2>5 DEF IInv
<1>3. ASSUME NEW b \in Builds, NEW S \in (SUBSET Services) \ {{}}, NEW t \in Tags \ {0}, Checkout(b, S, t)
      PROVE  IInv'
  BY <1>1, <1>3, CheckoutPreserves
<1>4. ASSUME NEW b \in Builds, Script(b)
      PROVE  IInv'
  <2>1. CASE run_bump(b)
    BY <1>1, <2>1, run_bumpPreserves
  <2>2. CASE CommitBump(b)
    BY <1>1, <2>2, CommitBumpPreserves
  <2>3. CASE PushBump(b)
    BY <1>1, <2>3, PushPreserves DEF PushBump
  <2>4. CASE FetchBranch(b)
    BY <1>1, <2>4, FetchBranchPreserves
  <2>5. CASE RebaseBump(b)
    BY <1>1, <2>5, RebaseBumpPreserves
  <2>6. CASE RepushBump(b)
    BY <1>1, <2>6, PushPreserves DEF RepushBump
  <2>7. QED
    BY <1>4, <2>1, <2>2, <2>3, <2>4, <2>5, <2>6 DEF Script
<1>5. CASE SourceCommit
  BY <1>1, <1>5, SourceCommitPreserves
<1>6. CASE MergeIntoMain
  BY <1>1, <1>6, MergeIntoMainPreserves
<1>7. ASSUME NEW c \in 1 .. Len(commits), Rollback(c)
      PROVE  IInv'
  BY <1>1, <1>7, RollbackPreserves
<1>8. QED
  BY <1>1, <1>2, <1>3, <1>4, <1>5, <1>6, <1>7 DEF Next

\* Every variable keeps its type, heads and logs of any length included
\* (gitops-bump.sh:116-267).
THEOREM TypeCorrect == Spec => []TypeOK
<1>1. IInv => TypeOK
  BY DEF IInv
<1>2. QED
  BY <1>1, InitIInv, NextIInv, PTL DEF Spec

\* A push that was reported has the build's tags in the branch's history for good
\* (gitops-bump.sh:207-236).
THEOREM PushesStay == Spec => []PushedBumpsStay
<1>1. IInv => PushedBumpsStay
  <2>1. SUFFICES ASSUME IInv, NEW b \in Builds, build[b].pc = "pushed", NEW s \in build[b].services
                 PROVE  \/ build[b].orig.tags[s] = build[b].tag
                        \/ \E c \in gitops.commits : /\ s \in DOMAIN commits[c]
                                                    /\ commits[c][s].new = build[b].tag
    BY DEF PushedBumpsStay
  <2>2. build[b] # NoBuild
    BY <2>1 DEF NoBuild
  <2>3. QED
    BY <2>1, <2>2, RunFacts DEF RunOK, Delivers, Sets
<1>2. QED
  BY <1>1, InitIInv, NextIInv, PTL DEF Spec

\* What a push that is accepted replaces: the head the run started from, or the
\* one it fetched, or its own.
LEMMA PushReplaces ==
    ASSUME IInv, NEW b \in Builds, NEW loop \in {"push", "repush"}, build[b].pc = loop,
           gitops # NoBranch, FastForward(build[b].head),
           NEW s \in Services, build[b].head.tags[s] # gitops.tags[s]
    PROVE  /\ s \in build[b].services
           /\ build[b].head.tags[s] = build[b].tag
           /\ gitops.tags[s] = build[b].orig.tags[s]
<1> DEFINE r == build[b]
<1>1. r # NoBuild
  BY DEF NoBuild
<1>2. /\ r \in RunsUpTo(Len(commits)) /\ RunOK(r, commits, gitops)
      /\ r.orig \in Known /\ r.head \in Known /\ r.upstream \in Known
  BY <1>1, RunFacts
<1>3. gitops \in Known /\ gitops.commits \subseteq r.head.commits
  BY DEF Known, FastForward
<1>4. gitops.commits # r.head.commits
  BY <1>2, <1>3 DEF IInv, Coherent
<1>5. CASE loop = "push"
  <2>1. r.head.commits = r.orig.commits \cup {r.bump} /\ r.orig.commits \subseteq gitops.commits
    BY <1>2, <1>5 DEF RunOK, Behind
  <2>2. gitops.commits = r.orig.commits
    BY <1>3, <1>4, <2>1
  <2>3. gitops.tags = r.orig.tags
    BY <1>2, <1>3, <2>2 DEF IInv, Coherent
  <2>4. QED
    BY <1>2, <1>5, <2>3 DEF RunOK, Bumped
<1>6. CASE loop = "repush"
  <2>1. /\ r.head.commits \subseteq r.upstream.commits \cup {r.bump}
        /\ r.upstream.commits \subseteq gitops.commits
    BY <1>2, <1>6 DEF RunOK, Behind
  <2>2. gitops.commits = r.upstream.commits
    BY <1>3, <1>4, <2>1
  <2>3. gitops.tags = r.upstream.tags
    BY <1>2, <1>3, <2>2 DEF IInv, Coherent
  <2>4. QED
    BY <1>2, <1>6, <2>3 DEF RunOK, Replayed
<1>7. QED
  BY <1>5, <1>6

\* No build replaces a tag it has not seen, whatever else happens to the branch
\* (gitops-bump.sh:88, 207-219).
THEOREM NothingUnseen == Spec => NothingUnseenIsReplaced
<1> DEFINE Seen ==
        gitops # NoBranch =>
          \A s \in Services : gitops'.tags[s] # gitops.tags[s] =>
              \/ rollbacks' # rollbacks
              \/ \E b \in Builds : /\ build[b].pc \in {"push", "repush"}
                                   /\ s \in build[b].services
                                   /\ gitops'.tags[s] = build[b].tag
                                   /\ gitops.tags[s] = build[b].orig.tags[s]
<1>1. ASSUME IInv, [Next]_vars
      PROVE  Seen
  <2>1. SUFFICES ASSUME gitops' # gitops, gitops # NoBranch,
                        NEW s \in Services, gitops'.tags[s] # gitops.tags[s]
                 PROVE  \/ rollbacks' # rollbacks
                        \/ \E b \in Builds : /\ build[b].pc \in {"push", "repush"}
                                             /\ s \in build[b].services
                                             /\ gitops'.tags[s] = build[b].tag
                                             /\ gitops.tags[s] = build[b].orig.tags[s]
    OBVIOUS
  <2>2. \/ \E b \in Builds : PushBump(b) \/ RepushBump(b)
        \/ \E c \in 1 .. Len(commits) : Rollback(c)
    BY <1>1, <2>1 DEF Next, vars, Checkout, Script, run_bump, CommitBump, FetchBranch, RebaseBump,
          SourceCommit, MergeIntoMain
  <2>3. ASSUME NEW c \in 1 .. Len(commits), Rollback(c)
        PROVE  rollbacks' # rollbacks
    BY <1>1, <2>3 DEF Rollback, IInv, TypeOK
  <2>4. ASSUME NEW b \in Builds, NEW loop \in {"push", "repush"}, NEW otherwise, Push(b, loop, otherwise)
        PROVE  \E d \in Builds : /\ build[d].pc \in {"push", "repush"}
                                 /\ s \in build[d].services
                                 /\ gitops'.tags[s] = build[d].tag
                                 /\ gitops.tags[s] = build[d].orig.tags[s]
    <3>1. build[b].pc = loop /\ FastForward(build[b].head) /\ gitops' = build[b].head
      BY <2>1, <2>4 DEF Push
    <3>2. QED
      BY <1>1, <2>1, <3>1, PushReplaces
  <2>5. QED
    BY <2>2, <2>3, <2>4 DEF PushBump, RepushBump
<1>2. QED
  BY <1>1, InitIInv, NextIInv, PTL DEF Spec, NothingUnseenIsReplaced

-----------------------------------------------------------------------------
(* Reruns.                                                                 *)

\* The services whose tag a build changes in the revision it started from.
Changes(r) == {s \in r.services : r.orig.tags[s] # r.tag}

\* Two runs from one checkout with one manifest.
Alike(r, q) == r.orig = q.orig /\ r.tag = q.tag /\ r.services = q.services

\* A bump is younger than everything in the revision its run started from.
BumpIsYounger(r, n) == r.bump \in 0 .. n /\ (r.bump # 0 => \A k \in r.orig.commits : k < r.bump)

\* A head with the bump of a run has the run's tags, or later commits set them.
HasTags(r, log, h) ==
    r.bump \in h.commits =>
        \A s \in Changes(r) : \/ h.tags[s] = r.tag
                              \/ \E k \in h.commits : k > r.bump /\ Sets(log, k, s, h.tags[s])

\* A commit in C has set a tag back to what the run found.
IsSetBack(r, log, C) == \E k \in C \ r.orig.commits : \E s \in Changes(r) : Sets(log, k, s, r.orig.tags[s])

\* A head has both bumps of two such runs only if a tag was set back.
Rivals(r, q, log, h) ==
    Alike(r, q) /\ r.bump # q.bump /\ {r.bump, q.bump} \subseteq h.commits => IsSetBack(r, log, h.commits)

RerunInv ==
    \A b \in Builds : build[b] # NoBuild =>
        /\ BumpIsYounger(build[b], Len(commits))
        /\ \A h \in Known : HasTags(build[b], commits, h)
        /\ \A c \in Builds : build[c] # NoBuild =>
              \A h \in Known : Rivals(build[b], build[c], commits, h)

\* What is said of a run is said of its checkout, its manifest and its bump.
LEMMA AlikeRuns ==
    ASSUME NEW r, NEW q, Alike(q, r)
    PROVE  /\ Changes(q) = Changes(r)
           /\ \A log, C : IsSetBack(q, log, C) <=> IsSetBack(r, log, C)
           /\ q.bump = r.bump =>
                 /\ \A n : BumpIsYounger(r, n) => BumpIsYounger(q, n)
                 /\ \A log, h : HasTags(r, log, h) => HasTags(q, log, h)
<1>1. Changes(q) = Changes(r)
  BY DEF Changes, Alike
<1>2. QED
  BY <1>1 DEF Alike, IsSetBack, BumpIsYounger, HasTags

\* Without a new commit nothing changes for the heads that are known; a run that
\* has no bump yet is in none of them.
LEMMA RerunKeeps ==
    ASSUME IInv, RerunInv, UNCHANGED commits, Known' \subseteq Known,
           \A c \in Builds : build'[c] # NoBuild =>
               \/ build'[c].bump = 0
               \/ build[c] # NoBuild /\ Alike(build'[c], build[c]) /\ build'[c].bump = build[c].bump
    PROVE  RerunInv'
<1>1. /\ Len(commits) \in Nat
      /\ \A h \in Known : h.commits \subseteq 1 .. Len(commits)
  BY KnownTyped DEF IInv, TypeOK, HeadsUpTo
<1>2. \A h \in Known : 0 \notin h.commits
  BY <1>1
<1>3. SUFFICES ASSUME NEW b \in Builds, build'[b] # NoBuild
               PROVE  /\ BumpIsYounger(build'[b], Len(commits))
                      /\ \A h \in Known : HasTags(build'[b], commits, h)
                      /\ \A c \in Builds : build'[c] # NoBuild =>
                            \A h \in Known : Rivals(build'[b], build'[c], commits, h)
  BY DEF RerunInv, NoBuild
<1>4. CASE build'[b].bump = 0
  BY <1>1, <1>2, <1>4 DEF BumpIsYounger, HasTags, Rivals
<1>5. CASE build[b] # NoBuild /\ Alike(build'[b], build[b]) /\ build'[b].bump = build[b].bump
  <2>1. BumpIsYounger(build'[b], Len(commits)) /\ \A h \in Known : HasTags(build'[b], commits, h)
    BY <1>5, AlikeRuns DEF RerunInv
  <2>2. ASSUME NEW c \in Builds, build'[c] # NoBuild, NEW h \in Known
        PROVE  Rivals(build'[b], build'[c], commits, h)
    <3>1. CASE build'[c].bump = 0
      BY <1>2, <3>1 DEF Rivals
    <3>2. CASE build[c] # NoBuild /\ Alike(build'[c], build[c]) /\ build'[c].bump = build[c].bump
      <4>1. Rivals(build[b], build[c], commits, h)
        BY <1>5, <3>2 DEF RerunInv
      <4>2. Alike(build'[b], build'[c]) => Alike(build[b], build[c])
        BY <1>5, <3>2 DEF Alike
      <4>3. IsSetBack(build[b], commits, h.commits) => IsSetBack(build'[b], commits, h.commits)
        BY <1>5, AlikeRuns
      <4>4. QED
        BY <1>5, <3>2, <4>1, <4>2, <4>3 DEF Rivals
    <3>3. QED
      BY <2>2, <3>1, <3>2
  <2>3. QED
    BY <2>1, <2>2
<1>6. QED
  BY <1>3, <1>4, <1>5

\* A new commit makes one new head, N, on top of a known one.  If it is the bump
\* of a run, N has the run's tags, and the other bump is below it only if a tag
\* was set back.
LEMMA RerunGrows ==
    ASSUME IInv, RerunInv,
           NEW p \in Patches, commits' = Append(commits, p),
           NEW below \in Known, NEW N, N.commits = below.commits \cup {Len(commits) + 1},
           \A s \in Services : N.tags[s] = below.tags[s] \/ (s \in DOMAIN p /\ p[s].new = N.tags[s]),
           Known' \subseteq Known \cup {N},
           NEW b, \A c \in Builds \ {b} : build'[c] = build[c],
           b \in Builds =>
               \/ build'[b] = build[b]
               \/ /\ build[b] # NoBuild /\ Alike(build'[b], build[b])
                  /\ build'[b].bump = Len(commits) + 1
                  /\ \A s \in Changes(build[b]) : N.tags[s] = build[b].tag
                  /\ \A c \in Builds \ {b} :
                        build[c] # NoBuild /\ Alike(build[b], build[c]) /\ build[c].bump \in below.commits
                            => IsSetBack(build[c], commits, below.commits)
    PROVE  RerunInv'
<1> DEFINE n == Len(commits)
           log == commits'
<1>1. /\ n \in Nat /\ Len(log) = n + 1 /\ log[n + 1] = p
      /\ \A k \in 1 .. n : log[k] = commits[k]
      /\ \A h \in Known : h.commits \subseteq 1 .. n
  BY KnownTyped, LogGrows DEF IInv, TypeOK, HeadsUpTo
<1> HIDE DEF n, log
<1>2. ASSUME NEW c \in Builds, build'[c] # NoBuild
      PROVE  /\ build[c] # NoBuild /\ Alike(build'[c], build[c])
             /\ build[c].services \subseteq Services
             /\ build[c].orig.commits \subseteq 1 .. n
             /\ build[c].bump \in 0 .. n
             /\ build'[c].bump = build[c].bump \/ (c = b /\ build'[c].bump = n + 1)
  <2>1. build[c] # NoBuild /\ Alike(build'[c], build[c])
    BY <1>2 DEF Alike
  <2>2. build[c] \in RunsUpTo(n)
    BY <2>1, RunTyped DEF IInv, n
  <2>3. build[c].bump \in 0 .. n
    BY <2>1 DEF RerunInv, BumpIsYounger, n
  <2>4. QED
    BY <1>2, <2>1, <2>2, <2>3 DEF RunsUpTo, HeadsUpTo, n
<1>3. \* What earlier heads say stays.
      ASSUME NEW r, NEW h \in Known
      PROVE  /\ HasTags(r, commits, h) => HasTags(r, log, h)
             /\ IsSetBack(r, commits, h.commits) => IsSetBack(r, log, h.commits)
             /\ h.commits \subseteq N.commits => (IsSetBack(r, log, h.commits) => IsSetBack(r, log, N.commits))
  BY <1>1 DEF HasTags, IsSetBack, Sets
<1>4. ASSUME NEW c \in Builds, build'[c] # NoBuild
      PROVE  BumpIsYounger(build'[c], n + 1)
  BY <1>1, <1>2, <1>4 DEF RerunInv, BumpIsYounger, Alike, n
<1>5. ASSUME NEW c \in Builds, build'[c] # NoBuild, NEW h \in Known
      PROVE  HasTags(build'[c], log, h)
  <2>1. CASE build'[c].bump = build[c].bump
    BY <1>2, <1>3, <1>5, <2>1, AlikeRuns DEF RerunInv
  <2>2. CASE build'[c].bump = n + 1
    BY <1>1, <2>2 DEF HasTags
  <2>3. QED
    BY <1>2, <1>5, <2>1, <2>2
<1>6. ASSUME NEW c \in Builds, build'[c] # NoBuild
      PROVE  HasTags(build'[c], log, N)
  <2>1. CASE build'[c].bump = build[c].bump
    <3>1. HasTags(build[c], commits, below) /\ Changes(build[c]) \subseteq Services
      BY <1>2, <1>6 DEF RerunInv, Changes
    <3>2. SUFFICES ASSUME build[c].bump \in below.commits, NEW s \in Changes(build[c])
                   PROVE  \/ N.tags[s] = build[c].tag
                          \/ \E k \in N.commits : k > build[c].bump /\ Sets(log, k, s, N.tags[s])
      <4>1. HasTags(build[c], log, N)
        BY <1>1, <1>2, <1>6, <3>2 DEF HasTags, n
      <4>2. QED
        BY <1>2, <1>6, <2>1, <4>1, AlikeRuns
    <3>3. CASE N.tags[s] = below.tags[s]
      <4>1. CASE below.tags[s] = build[c].tag
        BY <3>3, <4>1
      <4>2. CASE \E k \in below.commits : k > build[c].bump /\ Sets(commits, k, s, below.tags[s])
        BY <1>1, <3>3, <4>2 DEF Sets
      <4>3. QED
        BY <3>1, <3>2, <4>1, <4>2 DEF HasTags
    <3>4. CASE s \in DOMAIN p /\ p[s].new = N.tags[s]
      <4>1. n + 1 \in N.commits /\ n + 1 > build[c].bump
        BY <1>1, <1>2, <1>6 DEF n
      <4>2. QED
        BY <1>1, <3>4, <4>1 DEF Sets
    <3>5. QED
      BY <3>1, <3>3, <3>4
  <2>2. CASE c = b /\ build'[c].bump # build[c].bump
    <3>1. \A s \in Changes(build[c]) : N.tags[s] = build[c].tag
      BY <2>2
    <3>2. Changes(build'[c]) = Changes(build[c]) /\ build'[c].tag = build[c].tag
      BY <1>2, <1>6, AlikeRuns DEF Alike
    <3>3. QED
      BY <3>1, <3>2 DEF HasTags
  <2>3. QED
    BY <1>2, <1>6, <2>1, <2>2
<1>7. ASSUME NEW c \in Builds, NEW d \in Builds, build'[c] # NoBuild, build'[d] # NoBuild, NEW h \in Known
      PROVE  Rivals(build'[c], build'[d], log, h)
  <2>1. SUFFICES ASSUME Alike(build'[c], build'[d]), build'[c].bump # build'[d].bump,
                        build'[c].bump \in h.commits, build'[d].bump \in h.commits
                 PROVE  IsSetBack(build'[c], log, h.commits)
    BY DEF Rivals
  <2>2. build'[c].bump = build[c].bump /\ build'[d].bump = build[d].bump
    BY <1>1, <1>2, <1>7, <2>1
  <2>3. Alike(build[c], build[d])
    BY <1>2, <1>7, <2>1 DEF Alike
  <2>4. IsSetBack(build[c], commits, h.commits)
    BY <1>2, <1>7, <2>1, <2>2, <2>3 DEF RerunInv, Rivals
  <2>5. QED
    BY <1>2, <1>3, <1>7, <2>4, AlikeRuns
<1>8. ASSUME NEW c \in Builds, NEW d \in Builds, build'[c] # NoBuild, build'[d] # NoBuild
      PROVE  Rivals(build'[c], build'[d], log, N)
  <2>1. SUFFICES ASSUME Alike(build'[c], build'[d]), build'[c].bump # build'[d].bump,
                        build'[c].bump \in N.commits, build'[d].bump \in N.commits
                 PROVE  IsSetBack(build'[c], log, N.commits)
    BY DEF Rivals
  <2>2. Alike(build[c], build[d])
    BY <1>2, <1>8, <2>1 DEF Alike
  <2>3. IsSetBack(build[c], commits, below.commits) \/ IsSetBack(build[d], commits, below.commits)
    <3>1. CASE build'[c].bump = build[c].bump /\ build'[d].bump = build[d].bump
      <4>1. build[c].bump \in below.commits /\ build[d].bump \in below.commits
        BY <1>1, <1>2, <1>8, <2>1, <3>1 DEF n
      <4>2. QED
        BY <1>2, <1>8, <2>1, <2>2, <3>1, <4>1 DEF RerunInv, Rivals
    <3>2. CASE c = b /\ build'[c].bump # build[c].bump
      <4>1. d # b /\ build'[d].bump = build[d].bump
        BY <2>1, <3>2
      <4>2. build[d].bump \in below.commits
        BY <1>1, <1>2, <1>8, <2>1, <4>1 DEF n
      <4>3. QED
        BY <1>2, <1>8, <2>2, <3>2, <4>1, <4>2
    <3>3. CASE d = b /\ build'[d].bump # build[d].bump
      <4>1. c # b /\ build'[c].bump = build[c].bump
        BY <2>1, <3>3
      <4>2. build[c].bump \in below.commits
        BY <1>1, <1>2, <1>8, <2>1, <4>1 DEF n
      <4>3. Alike(build[d], build[c])
        BY <2>2 DEF Alike
      <4>4. QED
        BY <1>2, <1>8, <3>3, <4>1, <4>2, <4>3
    <3>4. QED
      BY <1>2, <1>8, <3>1, <3>2, <3>3
  <2>4. Alike(build'[c], build[c]) /\ Alike(build'[c], build[d])
    BY <1>2, <1>8, <2>2 DEF Alike
  <2>5. QED
    BY <1>3, <2>3, <2>4, AlikeRuns
<1>9. QED
  <2>1. SUFFICES ASSUME NEW c \in Builds, build'[c] # NoBuild
                 PROVE  /\ BumpIsYounger(build'[c], n + 1)
                        /\ \A h \in Known' : HasTags(build'[c], log, h)
                        /\ \A d \in Builds : build'[d] # NoBuild =>
                              \A h \in Known' : Rivals(build'[c], build'[d], log, h)
    BY <1>1 DEF RerunInv, NoBuild, log
  <2>2. QED
    BY <1>4, <1>5, <1>6, <1>7, <1>8, <2>1

\* The steps of one run that commit nothing.
LEMMA RerunStep ==
    ASSUME IInv, RerunInv, NEW b \in Builds, \A c \in Builds \ {b} : build'[c] = build[c],
           UNCHANGED <<commits, main>>, gitops' \in Known \cup {NoBranch},
           HeadsOf(build'[b]) \subseteq Known,
           \/ build'[b].bump = 0
           \/ build[b] # NoBuild /\ Alike(build'[b], build[b]) /\ build'[b].bump = build[b].bump
    PROVE  RerunInv'
<1>1. main \in Known
  BY BranchesKnown
<1>2. Known' \subseteq Known
  BY <1>1, KnownAfter
<1>3. ASSUME NEW c \in Builds, build'[c] # NoBuild
      PROVE  \/ build'[c].bump = 0
             \/ build[c] # NoBuild /\ Alike(build'[c], build[c]) /\ build'[c].bump = build[c].bump
  BY <1>3 DEF Alike
<1>4. QED
  BY <1>2, <1>3, RerunKeeps

LEMMA RerunEnds ==
    ASSUME IInv, RerunInv, NEW b \in Builds, build[b] # NoBuild, NEW pc, EndWith(b, pc),
           UNCHANGED <<commits, main>>, gitops' \in Known \cup {NoBranch}
    PROVE  RerunInv'
<1> DEFINE r == build[b]
           q == build'[b]
<1>1. r \in RunsUpTo(Len(commits)) /\ {r.orig, r.head, r.upstream} \subseteq Known
  BY RunFacts
<1>2. q = [r EXCEPT !.head = r.orig, !.tree = r.orig.tags, !.pc = pc]
  BY <1>1 DEF EndWith, restore_workspace, IInv, TypeOK, RunsUpTo
<1> HIDE DEF q, r
<1>3. Alike(q, r) /\ q.bump = r.bump /\ q.head = r.orig /\ q.upstream = r.upstream
  BY <1>1, <1>2 DEF RunsUpTo, Alike
<1>4. HeadsOf(q) \subseteq Known
  BY <1>1, <1>3 DEF HeadsOf, Alike
<1>5. \A c \in Builds \ {b} : build'[c] = build[c]
  BY DEF EndWith, IInv, TypeOK
<1>6. QED
  BY <1>3, <1>4, <1>5, RerunStep DEF q, r

LEMMA RerunPush ==
    ASSUME IInv, RerunInv, NEW b \in Builds, NEW loop, NEW otherwise, Push(b, loop, otherwise),
           build[b] # NoBuild
    PROVE  RerunInv'
<1> DEFINE r == build[b]
           q == build'[b]
<1>1. r \in RunsUpTo(Len(commits)) /\ {r.orig, r.head, r.upstream} \subseteq Known
  BY RunFacts
<1>2. /\ UNCHANGED <<commits, main>>
      /\ gitops' \in Known \cup {NoBranch}
      /\ \A c \in Builds \ {b} : build'[c] = build[c]
  <2>1. gitops' \in {gitops, r.head} /\ gitops \in Known \cup {NoBranch}
    BY DEF Push, Known
  <2>2. QED
    BY <1>1, <2>1 DEF Push, ecom_ci_retry, EndWith, IInv, TypeOK
<1>3. Alike(q, r) /\ q.bump = r.bump /\ q.head \in {r.head, r.orig} /\ q.upstream = r.upstream
  <2>1. CASE build' = [build EXCEPT ![b] = [restore_workspace(@) EXCEPT !.pc = "pushed"]]
    <3>1. q = [r EXCEPT !.head = r.orig, !.tree = r.orig.tags, !.pc = "pushed"]
      BY <1>1, <2>1 DEF restore_workspace, IInv, TypeOK, RunsUpTo
    <3>2. QED
      BY <1>1, <3>1 DEF RunsUpTo, Alike
  <2>2. CASE ecom_ci_retry(b, otherwise)
    <3>1. CASE build' = [build EXCEPT ![b].tries = @ + 1]
      <4>1. q = [r EXCEPT !.tries = r.tries + 1]
        BY <3>1 DEF IInv, TypeOK
      <4>2. QED
        BY <1>1, <4>1 DEF RunsUpTo, Alike
    <3>2. CASE EndWith(b, "rejected")
      <4>1. q = [r EXCEPT !.head = r.orig, !.tree = r.orig.tags, !.pc = "rejected"]
        BY <1>1, <3>2 DEF EndWith, restore_workspace, IInv, TypeOK, RunsUpTo
      <4>2. QED
        BY <1>1, <4>1 DEF RunsUpTo, Alike
    <3>3. CASE build' = [build EXCEPT ![b].tries = 0, ![b].pc = otherwise]
      <4>1. q = [r EXCEPT !.tries = 0, !.pc = otherwise]
        BY <3>3 DEF IInv, TypeOK
      <4>2. QED
        BY <1>1, <4>1 DEF RunsUpTo, Alike
    <3>4. QED
      BY <2>2, <3>1, <3>2, <3>3 DEF ecom_ci_retry
  <2>3. QED
    BY <2>1, <2>2 DEF Push
<1> HIDE DEF q, r
<1>4. HeadsOf(q) \subseteq Known
  BY <1>1, <1>3 DEF HeadsOf, Alike
<1>5. QED
  BY <1>2, <1>3, <1>4, RerunStep DEF q, r

\* A new bump on the checkout: no rival's is below it.
LEMMA RerunCommit ==
    ASSUME IInv, RerunInv, NEW b \in Builds, CommitBump(b)
    PROVE  RerunInv'
<1> DEFINE r == build[b]
           q == build'[b]
           id == Len(commits) + 1
           head == [commits |-> r.head.commits \cup {id}, tags |-> r.tree]
           patch == Diff(r.head.tags, r.tree)
<1>1. r # NoBuild /\ r.pc = "commit"
  BY DEF CommitBump, NoBuild
<1>2. /\ r \in RunsUpTo(Len(commits)) /\ RunOK(r, commits, gitops)
      /\ r.orig \in Known /\ r.head \in Known /\ r.upstream \in Known
  BY <1>1, RunFacts
<1>3. /\ UNCHANGED <<main, gitops>> /\ gitops \in Known \cup {NoBranch} /\ main \in Known
      /\ \A c \in Builds \ {b} : build'[c] = build[c]
  <2>1. gitops \in Known \cup {NoBranch} /\ main \in Known
    BY BranchesKnown
  <2>2. QED
    BY <2>1 DEF CommitBump, EndWith, IInv, TypeOK
<1>4. CASE EndWith(b, "failed") /\ UNCHANGED commits
  BY <1>1, <1>3, <1>4, RerunEnds
<1>5. CASE /\ commits' = Append(commits, patch)
           /\ build' = [build EXCEPT ![b].pc = "push", ![b].bump = id, ![b].head = head]
  <2>1. r.head = r.orig /\ r.tree # r.orig.tags /\ Bumped(r, r.tree)
    BY <1>1, <1>2 DEF RunOK
  <2>2. r.orig.tags \in TagMap /\ r.tree \in TagMap /\ r.services \subseteq Services
    BY <1>2 DEF RunsUpTo, HeadsUpTo
  <2>3. /\ patch \in Patches
        /\ \A s \in Services : r.tree[s] = r.orig.tags[s] \/ (s \in DOMAIN patch /\ patch[s].new = r.tree[s])
    <3>1. patch = Diff(r.orig.tags, r.tree)
      BY <2>1
    <3>2. /\ Diff(r.orig.tags, r.tree) \in Patches
          /\ DOMAIN Diff(r.orig.tags, r.tree) = {s \in Services : r.orig.tags[s] # r.tree[s]}
          /\ \A s \in DOMAIN Diff(r.orig.tags, r.tree) : Diff(r.orig.tags, r.tree)[s].new = r.tree[s]
      BY <2>1, <2>2, DiffIsPatch
    <3> HIDE DEF patch
    <3>3. QED
      BY <3>1, <3>2
  <2>4. q = [r EXCEPT !.pc = "push", !.bump = id, !.head = head]
    BY <1>5 DEF IInv, TypeOK
  <2>5. Alike(q, r) /\ q.bump = id /\ q.head = head /\ q.upstream = r.upstream /\ q.orig = r.orig
    BY <1>2, <2>4 DEF RunsUpTo, Alike
  <2>6. head.commits = r.orig.commits \cup {id} /\ head.tags = r.tree
    BY <2>1
  <2> HIDE DEF head, patch, q
  <2>7. Known' \subseteq Known \cup {head}
    <3>1. HeadsOf(q) \subseteq Known \cup {head}
      BY <1>2, <2>5 DEF HeadsOf
    <3>2. QED
      BY <1>3, <3>1, KnownAfter DEF q
  <2>8. \A s \in Changes(r) : head.tags[s] = r.tag
    BY <2>1, <2>2, <2>6 DEF Changes, Bumped
  <2>9. ASSUME NEW c \in Builds, build[c] # NoBuild, Alike(r, build[c])
        PROVE  build[c].bump \notin r.orig.commits
    <3>1. BumpIsYounger(build[c], Len(commits)) /\ build[c].orig = r.orig
      BY <2>9 DEF RerunInv, Alike
    <3>2. r.orig.commits \subseteq 1 .. Len(commits) /\ Len(commits) \in Nat
      BY <1>2 DEF RunsUpTo, HeadsUpTo, IInv, TypeOK
    <3>3. QED
      BY <3>1, <3>2 DEF BumpIsYounger
  <2>10. QED
    <3>1. \A s \in Services : \/ head.tags[s] = r.orig.tags[s]
                              \/ s \in DOMAIN patch /\ patch[s].new = head.tags[s]
      BY <2>3, <2>6
    <3>2. commits' = Append(commits, patch)
      BY <1>5
    <3>3. QED
      BY <1>1, <1>2, <1>3, <2>3, <2>5, <2>6, <2>7, <2>8, <2>9, <3>1, <3>2, RerunGrows DEF q
<1>6. QED
  BY <1>4, <1>5 DEF CommitBump

\* A replayed bump: git has not found it upstream, and it applies, so a tag of
\* its services is what the run found.  If the bump of a rival is upstream, a
\* later commit has set that tag back.
LEMMA RerunRebase ==
    ASSUME IInv, RerunInv, NEW b \in Builds, RebaseBump(b)
    PROVE  RerunInv'
<1> DEFINE r == build[b]
           q == build'[b]
           patch == commits[r.bump]
           tags == Patched(patch, r.upstream.tags)
           id == Len(commits) + 1
           head == [commits |-> r.upstream.commits \cup {id}, tags |-> tags]
<1>1. r # NoBuild /\ r.pc = "rebase"
  BY DEF RebaseBump, NoBuild
<1>2. /\ r \in RunsUpTo(Len(commits)) /\ RunOK(r, commits, gitops)
      /\ r.orig \in Known /\ r.head \in Known /\ r.upstream \in Known
  BY <1>1, RunFacts
<1>3. /\ UNCHANGED <<main, gitops>> /\ gitops \in Known \cup {NoBranch} /\ main \in Known
      /\ \A c \in Builds \ {b} : build'[c] = build[c]
      /\ Len(commits) \in Nat /\ commits \in Seq(Patches)
  <2>1. UNCHANGED <<main, gitops>>
    BY DEF RebaseBump
  <2>2. gitops \in Known \cup {NoBranch} /\ main \in Known
    BY BranchesKnown
  <2>3. \A c \in Builds \ {b} : build'[c] = build[c]
    BY DEF RebaseBump, EndWith, IInv, TypeOK
  <2>4. Len(commits) \in Nat /\ commits \in Seq(Patches)
    BY DEF IInv, TypeOK
  <2>5. QED
    BY <2>1, <2>2, <2>3, <2>4
<1>4. /\ r.orig.tags \in TagMap /\ r.upstream.tags \in TagMap /\ r.services \subseteq Services
      /\ r.orig.commits \subseteq 1 .. Len(commits)
      /\ r.tag \in Tags
  BY <1>2 DEF RunsUpTo, HeadsUpTo
<1>5. Bumped(r, r.head.tags) /\ patch = Diff(r.orig.tags, r.head.tags)
  BY <1>1, <1>2 DEF RunOK
<1>6. /\ DOMAIN patch = Changes(r)
      /\ \A s \in DOMAIN patch : patch[s].old = r.orig.tags[s] /\ patch[s].new = r.tag
  BY <1>4, <1>5 DEF Diff, Bumped, Changes
<1> HIDE DEF patch
<1>7. CASE /\ Upstream(r)
           /\ build' = [build EXCEPT ![b].pc = "repush", ![b].head = r.upstream,
                                     ![b].tree = r.upstream.tags]
           /\ UNCHANGED commits
  <2>1. q = [r EXCEPT !.pc = "repush", !.head = r.upstream, !.tree = r.upstream.tags]
    BY <1>7 DEF IInv, TypeOK
  <2> HIDE DEF q, r
  <2>2. Alike(q, r) /\ q.bump = r.bump /\ q.head = r.upstream /\ q.upstream = r.upstream
    BY <1>2, <2>1 DEF RunsUpTo, Alike
  <2>3. HeadsOf(q) \subseteq Known
    BY <1>2, <2>2 DEF HeadsOf, Alike
  <2>4. QED
    BY <1>1, <1>3, <1>7, <2>2, <2>3, RerunStep DEF q, r
<1>8. CASE /\ ~Upstream(r) /\ Applies(patch, r.upstream.tags)
           /\ commits' = Append(commits, Diff(r.upstream.tags, tags))
           /\ build' = [build EXCEPT ![b].pc = "repush", ![b].bump = id, ![b].tree = tags,
                  ![b].head = head]
  <2>1. \A s \in Services : tags[s] = IF s \in Changes(r) THEN r.tag ELSE r.upstream.tags[s]
    BY <1>6 DEF Patched
  <2>2. PICK t \in Changes(r) : r.upstream.tags[t] # r.tag
    BY <1>6, <1>8 DEF Upstream, patch
  <2>3. t \in Services /\ r.upstream.tags[t] = r.orig.tags[t]
    BY <1>4, <1>6, <1>8, <2>2 DEF Applies, Changes
  <2>4. tags \in TagMap /\ tags # r.upstream.tags
    <3>1. \A s \in Services : tags[s] \in Tags
      BY <1>4, <2>1 DEF TagMap
    <3>2. tags \in TagMap
      BY <3>1 DEF Patched, TagMap
    <3>3. tags[t] # r.upstream.tags[t]
      BY <2>1, <2>2, <2>3
    <3>4. QED
      BY <3>2, <3>3
  <2> DEFINE p == Diff(r.upstream.tags, tags)
  <2>5. q = [r EXCEPT !.pc = "repush", !.bump = id, !.tree = tags, !.head = head]
    BY <1>8 DEF IInv, TypeOK
  <2>6. head.commits = r.upstream.commits \cup {id} /\ head.tags = tags
    OBVIOUS
  <2> HIDE DEF head, tags
  <2>7. /\ p \in Patches
        /\ \A s \in Services : tags[s] = r.upstream.tags[s] \/ (s \in DOMAIN p /\ p[s].new = tags[s])
    <3>1. /\ p \in Patches /\ DOMAIN p = {s \in Services : r.upstream.tags[s] # tags[s]}
          /\ \A s \in DOMAIN p : p[s].new = tags[s]
      BY <1>4, <2>4, DiffIsPatch
    <3> HIDE DEF p
    <3>2. QED
      BY <3>1
  <2>8. commits' = Append(commits, p)
    BY <1>8
  <2>9. Alike(q, r) /\ q.bump = id /\ q.head = head /\ q.upstream = r.upstream /\ q.orig = r.orig
    BY <1>2, <2>5 DEF RunsUpTo, Alike
  <2> HIDE DEF p, q
  <2>10. Known' \subseteq Known \cup {head}
    <3>1. HeadsOf(q) \subseteq Known \cup {head}
      BY <1>2, <2>9 DEF HeadsOf
    <3>2. QED
      BY <1>3, <3>1, KnownAfter DEF q
  <2>11. \A s \in Changes(r) : head.tags[s] = r.tag
    BY <1>4, <2>1, <2>6 DEF Changes
  <2>12. ASSUME NEW c \in Builds, build[c] # NoBuild, Alike(r, build[c]),
                build[c].bump \in r.upstream.commits
         PROVE  IsSetBack(build[c], commits, r.upstream.commits)
    <3>1. build[c].orig = r.orig /\ build[c].tag = r.tag /\ Changes(build[c]) = Changes(r)
      BY <2>12 DEF Alike, Changes
    <3>2. HasTags(build[c], commits, r.upstream) /\ BumpIsYounger(build[c], Len(commits))
      BY <1>2, <2>12 DEF RerunInv
    <3>3. PICK k \in r.upstream.commits : k > build[c].bump /\ Sets(commits, k, t, r.orig.tags[t])
      BY <2>2, <2>3, <2>12, <3>1, <3>2 DEF HasTags
    <3>4. k \notin r.orig.commits
      <4>1. build[c].bump # 0
        BY <1>2, <2>12 DEF RunsUpTo, HeadsUpTo
      <4>2. build[c].bump \in Nat /\ \A j \in r.orig.commits : j < build[c].bump
        BY <1>3, <3>1, <3>2, <4>1 DEF BumpIsYounger
      <4>3. QED
        BY <1>4, <3>3, <4>2
    <3>5. QED
      BY <2>2, <3>1, <3>3, <3>4 DEF IsSetBack
  <2>13. \A s \in Services : \/ head.tags[s] = r.upstream.tags[s]
                             \/ s \in DOMAIN p /\ p[s].new = head.tags[s]
    BY <2>6, <2>7
  <2>14. QED
    BY <1>1, <1>2, <1>3, <2>6, <2>7, <2>8, <2>9, <2>10, <2>11, <2>12, <2>13, RerunGrows DEF q
<1>9. CASE EndWith(b, "rejected") /\ UNCHANGED commits
  BY <1>1, <1>3, <1>9, RerunEnds
<1>10. QED
  BY <1>7, <1>8, <1>9 DEF RebaseBump, patch

\* A rollback is a new commit on the branch, and no bump.
LEMMA RerunRollback ==
    ASSUME IInv, RerunInv, NEW c \in 1 .. Len(commits), Rollback(c)
    PROVE  RerunInv'
<1> DEFINE tags == [s \in Services |->
                       IF s \in DOMAIN commits[c] THEN commits[c][s].old ELSE gitops.tags[s]]
           p == Diff(gitops.tags, tags)
           id == Len(commits) + 1
           head == [commits |-> gitops.commits \cup {id}, tags |-> tags]
<1>1. /\ gitops # NoBranch
      /\ \A s \in DOMAIN commits[c] : gitops.tags[s] = commits[c][s].new
      /\ commits' = Append(commits, p) /\ gitops' = head
      /\ UNCHANGED <<main, build>>
  BY DEF Rollback
<1>2. /\ gitops \in Known /\ gitops.tags \in TagMap /\ commits[c] \in Patches
  BY <1>1 DEF IInv, TypeOK, Heads, Known
<1>3. /\ DOMAIN commits[c] \subseteq Services /\ DOMAIN commits[c] # {}
      /\ \A s \in DOMAIN commits[c] : commits[c][s].old \in Tags
      /\ \A s \in DOMAIN commits[c] : commits[c][s].old # commits[c][s].new
  BY <1>2, PatchShape DEF IInv, PatchesChange
<1>4. tags \in TagMap /\ gitops.tags # tags
  <2>1. tags \in TagMap
    BY <1>2, <1>3 DEF TagMap
  <2>2. PICK s \in DOMAIN commits[c] : TRUE
    BY <1>3
  <2>3. tags[s] # gitops.tags[s]
    BY <1>1, <1>3, <2>2
  <2>4. QED
    BY <2>1, <2>3
<1>5. head.commits = gitops.commits \cup {id} /\ head.tags = tags
  OBVIOUS
<1> HIDE DEF tags, head
<1>6. /\ p \in Patches
      /\ \A s \in Services : tags[s] = gitops.tags[s] \/ (s \in DOMAIN p /\ p[s].new = tags[s])
  <2>1. /\ p \in Patches /\ DOMAIN p = {s \in Services : gitops.tags[s] # tags[s]}
        /\ \A s \in DOMAIN p : p[s].new = tags[s]
    BY <1>2, <1>4, DiffIsPatch
  <2> HIDE DEF p
  <2>2. QED
    BY <2>1
<1> HIDE DEF p
<1>7. Known' \subseteq Known \cup {head}
  BY <1>1 DEF Known, HeadsOf, NoBuild, NoBranch
<1>8. \A s \in Services : \/ head.tags[s] = gitops.tags[s]
                          \/ s \in DOMAIN p /\ p[s].new = head.tags[s]
  BY <1>5, <1>6
<1>9. \A b : build'[b] = build[b]
  BY <1>1
<1>10. QED
  BY <1>1, <1>2, <1>5, <1>6, <1>7, <1>8, <1>9, RerunGrows

\* The other steps commit nothing and start no bump.
LEMMA RerunOthers ==
    ASSUME IInv, RerunInv, NEW b \in Builds,
           \/ \E S \in (SUBSET Services) \ {{}}, t \in Tags \ {0} : Checkout(b, S, t)
           \/ run_bump(b)
           \/ FetchBranch(b)
    PROVE  RerunInv'
<1> DEFINE r == build[b]
           q == build'[b]
<1>1. main \in Known /\ gitops \in Known \cup {NoBranch}
  BY BranchesKnown
<1>2. UNCHANGED <<commits, main, gitops>>
  BY DEF Checkout, run_bump, FetchBranch
<1>3. \A c \in Builds \ {b} : build'[c] = build[c]
  BY DEF Checkout, run_bump, FetchBranch, EndWith, IInv, TypeOK
<1>4. ASSUME NEW S, NEW t, Checkout(b, S, t)
      PROVE  RerunInv'
  <2>1. q.bump = 0 /\ q.orig = main /\ q.head = main /\ q.upstream = main
    BY <1>4 DEF Checkout, IInv, TypeOK
  <2>2. HeadsOf(q) \subseteq Known
    BY <1>1, <2>1 DEF HeadsOf
  <2>3. QED
    BY <1>1, <1>2, <1>3, <2>1, <2>2, RerunStep
<1>5. CASE run_bump(b)
  <2> DEFINE tree == bump_values(r.tree, r.services, r.tag)
             pc == CASE \E s \in r.services : image_block_state(s) = "malformed" -> "refused"
                     [] tree = r.head.tags -> "nothing"
                     [] OTHER -> "commit"
  <2>1. r # NoBuild
    BY <1>5 DEF run_bump, NoBuild
  <2>2. q = [r EXCEPT !.tree = tree, !.pc = pc]
    BY <1>5 DEF run_bump, IInv, TypeOK
  <2>3. r \in RunsUpTo(Len(commits)) /\ {r.orig, r.head, r.upstream} \subseteq Known
    BY <2>1, RunFacts
  <2> HIDE DEF tree, pc, q, r
  <2>4. Alike(q, r) /\ q.bump = r.bump /\ q.head = r.head /\ q.upstream = r.upstream
    BY <2>2, <2>3 DEF RunsUpTo, Alike
  <2>5. HeadsOf(q) \subseteq Known
    BY <2>3, <2>4 DEF HeadsOf, Alike
  <2>6. QED
    BY <1>1, <1>2, <1>3, <2>1, <2>4, <2>5, RerunStep DEF q, r
<1>6. CASE FetchBranch(b)
  <2>1. r # NoBuild
    BY <1>6 DEF FetchBranch, NoBuild
  <2>2. r \in RunsUpTo(Len(commits)) /\ {r.orig, r.head, r.upstream} \subseteq Known
    BY <2>1, RunFacts
  <2>3. CASE EndWith(b, "rejected")
    BY <1>1, <1>2, <2>1, <2>3, RerunEnds
  <2>4. CASE /\ gitops # NoBranch
             /\ build' = [build EXCEPT ![b].pc = "rebase", ![b].upstream = gitops]
    <3>1. q = [r EXCEPT !.pc = "rebase", !.upstream = gitops]
      BY <2>4 DEF IInv, TypeOK
    <3> HIDE DEF q, r
    <3>2. Alike(q, r) /\ q.bump = r.bump /\ q.head = r.head /\ q.upstream = gitops
      BY <2>2, <3>1 DEF RunsUpTo, Alike
    <3>3. HeadsOf(q) \subseteq Known
      BY <1>1, <2>2, <2>4, <3>2 DEF HeadsOf, Alike
    <3>4. QED
      BY <1>1, <1>2, <1>3, <2>1, <3>2, <3>3, RerunStep DEF q, r
  <2>5. QED
    BY <1>6, <2>3, <2>4 DEF FetchBranch
<1>7. QED
  BY <1>4, <1>5, <1>6

LEMMA InitRerunInv == Init => RerunInv
  BY DEF Init, RerunInv

LEMMA NextRerunInv == IInv /\ RerunInv /\ [Next]_vars => RerunInv'
<1>1. SUFFICES ASSUME IInv, RerunInv, [Next]_vars PROVE RerunInv'
  OBVIOUS
<1>2. CASE UNCHANGED <<commits, gitops, build>> /\ main' \in Known
  <2>1. Known' \subseteq Known
    BY <1>2 DEF Known, HeadsOf, NoBuild, NoBranch
  <2>2. \A c \in Builds : build'[c] # NoBuild => build[c] # NoBuild /\ Alike(build'[c], build[c])
    BY <1>2 DEF Alike
  <2>3. QED
    BY <1>1, <1>2, <2>1, <2>2, RerunKeeps
<1>3. CASE UNCHANGED vars \/ SourceCommit \/ MergeIntoMain
  <2>1. main \in Known /\ main.commits \subseteq (IF gitops = NoBranch THEN {} ELSE gitops.commits)
    BY <1>1, BranchesKnown DEF IInv, Behind
  <2>2. CASE UNCHANGED vars \/ SourceCommit
    BY <1>2, <2>1, <2>2 DEF vars, SourceCommit
  <2>3. CASE MergeIntoMain
    <3>1. gitops \in Known /\ gitops \in HeadsUpTo(Len(commits))
      BY <1>1, <2>3, KnownTyped DEF MergeIntoMain, IInv, Known
    <3>2. main' = gitops
      BY <2>1, <2>3, <3>1 DEF MergeIntoMain, HeadsUpTo
    <3>3. QED
      BY <1>2, <2>3, <3>1, <3>2 DEF MergeIntoMain
  <2>4. QED
    BY <1>3, <2>2, <2>3
<1>4. ASSUME NEW b \in Builds, Script(b)
      PROVE  RerunInv'
  <2>1. build[b] # NoBuild
    BY <1>4 DEF Script, run_bump, CommitBump, PushBump, FetchBranch, RebaseBump, RepushBump, Push, NoBuild
  <2>2. CASE run_bump(b) \/ FetchBranch(b)
    BY <1>1, <2>2, RerunOthers
  <2>3. CASE CommitBump(b)
    BY <1>1, <2>3, RerunCommit
  <2>4. CASE PushBump(b) \/ RepushBump(b)
    BY <1>1, <2>1, <2>4, RerunPush DEF PushBump, RepushBump
  <2>5. CASE RebaseBump(b)
    BY <1>1, <2>5, RerunRebase
  <2>6. QED
    BY <1>4, <2>2, <2>3, <2>4, <2>5 DEF Script
<1>5. ASSUME NEW b \in Builds, NEW S \in (SUBSET Services) \ {{}}, NEW t \in Tags \ {0}, Checkout(b, S, t)
      PROVE  RerunInv'
  BY <1>1, <1>5, RerunOthers
<1>6. ASSUME NEW c \in 1 .. Len(commits), Rollback(c)
      PROVE  RerunInv'
  BY <1>1, <1>6, RerunRollback
<1>7. QED
  BY <1>1, <1>3, <1>4, <1>5, <1>6 DEF Next

\* A rerun of a build adds no second bump to the branch, however the two runs
\* overlap with others, unless the branch has a commit that set a tag back
\* (git rebase drops what the branch has, gitops-bump.sh:209-224).
THEOREM RerunsAddNoCommit == Spec => []RerunsAddNothing
<1>1. IInv /\ RerunInv => RerunsAddNothing
  <2>1. SUFFICES ASSUME IInv, RerunInv, NEW b \in Builds, NEW c \in Builds,
                        build[b] # NoBuild, build[c] # NoBuild, gitops # NoBranch,
                        Alike(build[b], build[c]),
                        build[b].bump \in gitops.commits, build[c].bump \in gitops.commits,
                        build[b].bump # build[c].bump
                 PROVE  \E k \in gitops.commits : SetBack(build[b], k)
    BY DEF RerunsAddNothing, Alike
  <2>2. gitops \in Known
    BY <2>1 DEF Known
  <2>3. IsSetBack(build[b], commits, gitops.commits)
    BY <2>1, <2>2 DEF RerunInv, Rivals
  <2>4. QED
    BY <2>3 DEF IsSetBack, Changes, Sets, SetBack
<1>2. Init => IInv /\ RerunInv
  BY InitIInv, InitRerunInv
<1>3. (IInv /\ RerunInv) /\ [Next]_vars => (IInv /\ RerunInv)'
  BY NextIInv, NextRerunInv
<1>4. QED
  BY <1>1, <1>2, <1>3, PTL DEF Spec

-----------------------------------------------------------------------------
(* The lines of a values file.                                            *)

LEMMA LineFacts ==
    ASSUME NEW lines \in Seq(Lines)
    PROVE  /\ Len(lines) \in Nat /\ DOMAIN lines = 1 .. Len(lines)
           /\ \A i \in 1 .. Len(lines) :
                 /\ lines[i] \in Lines /\ lines[i].indent \in Nat /\ lines[i].key \in Texts
                 /\ lines[i].value \in Texts /\ lines[i].remark \in BOOLEAN
<1>1. Len(lines) \in Nat /\ DOMAIN lines = 1 .. Len(lines) /\ \A i \in 1 .. Len(lines) : lines[i] \in Lines
  OBVIOUS
<1>2. QED
  BY <1>1 DEF Lines

LEMMA NewLine ==
    ASSUME NEW indent \in Nat, NEW key \in Texts, NEW value \in Texts
    PROVE  /\ Line(indent, key, value) \in Lines
           /\ Line(indent, key, value).indent = indent /\ Line(indent, key, value).key = key
           /\ Line(indent, key, value).value = value /\ Line(indent, key, value).remark = FALSE
BY DEF Line, Lines

\* A line is inserted after the first p lines.
LEMMA Inserted ==
    ASSUME NEW lines \in Seq(Lines), NEW p \in 0 .. Len(lines), NEW new \in Lines
    PROVE  LET text == InsertAt(lines, p + 1, new)
           IN  /\ text \in Seq(Lines) /\ Len(text) = Len(lines) + 1
               /\ \A i \in 1 .. p : text[i] = lines[i]
               /\ text[p + 1] = new
               /\ \A i \in p + 1 .. Len(lines) : text[i + 1] = lines[i]
<1> DEFINE N == Len(lines)
           first == SubSeq(lines, 1, p)
           last == SubSeq(lines, p + 1, N)
           middle == <<new>>
<1>1. N \in Nat /\ p \in Nat /\ p <= N
  BY LineFacts
<1>2. /\ first \in Seq(Lines) /\ Len(first) = p /\ \A i \in 1 .. p : first[i] = lines[i]
  <2>1. CASE p = 0
    <3>1. first = <<>>
      BY <1>1, <2>1, SubSeqEmpty
    <3>2. QED
      BY <2>1, <3>1
  <2>2. CASE p # 0
    <3>1. 1 \in 1 .. N + 1 /\ p \in 1 - 1 .. N
      BY <1>1, <2>2
    <3>2. QED
      BY <1>1, <2>2, SubSeqProperties
  <2>3. QED
    BY <2>1, <2>2
<1>3. /\ last \in Seq(Lines) /\ Len(last) = N - p /\ \A i \in 1 .. N - p : last[i] = lines[p + i]
  <2>1. p + 1 \in 1 .. N + 1 /\ N \in p .. N
    BY <1>1
  <2>2. QED
    BY <1>1, <2>1, SubSeqProperties
<1>4. middle \in Seq(Lines) /\ Len(middle) = 1 /\ middle[1] = new
  OBVIOUS
<1>5. InsertAt(lines, p + 1, new) = (first \o middle) \o last
  <2>1. (p + 1) - 1 = p
    BY <1>1
  <2>2. InsertAt(lines, p + 1, new) = SubSeq(lines, 1, (p + 1) - 1) \o <<new>> \o SubSeq(lines, p + 1, Len(lines))
    BY DEF InsertAt
  <2>3. QED
    BY <2>1, <2>2
<1> HIDE DEF first, last, middle, N
<1>6. /\ first \o middle \in Seq(Lines) /\ Len(first \o middle) = p + 1
      /\ \A i \in 1 .. p : (first \o middle)[i] = lines[i]
      /\ (first \o middle)[p + 1] = new
  <2>1. /\ first \o middle \in Seq(Lines)
        /\ Len(first \o middle) = Len(first) + Len(middle)
        /\ \A i \in 1 .. Len(first) + Len(middle) :
              (first \o middle)[i] = IF i <= Len(first) THEN first[i] ELSE middle[i - Len(first)]
    BY <1>2, <1>4, ConcatProperties
  <2>2. \A i \in 1 .. p : i \in 1 .. p + 1 /\ i <= p
    BY <1>1
  <2>3. p + 1 \in 1 .. p + 1 /\ ~ (p + 1 <= p) /\ (p + 1) - p = 1
    BY <1>1
  <2>4. QED
    BY <1>2, <1>4, <2>1, <2>2, <2>3
<1> DEFINE begin == first \o middle
<1> HIDE DEF begin
<1>7. begin \in Seq(Lines) /\ Len(begin) = p + 1 /\ (\A i \in 1 .. p : begin[i] = lines[i]) /\ begin[p + 1] = new
  BY <1>6 DEF begin
<1>8. /\ begin \o last \in Seq(Lines) /\ Len(begin \o last) = N + 1
      /\ \A i \in 1 .. p + 1 : (begin \o last)[i] = begin[i]
      /\ \A i \in 1 .. N - p : (begin \o last)[p + 1 + i] = last[i]
  BY <1>1, <1>3, <1>7, ConcatProperties
<1>9. ASSUME NEW i \in p + 1 .. N
      PROVE  (begin \o last)[i + 1] = lines[i]
  <2>1. i - p \in 1 .. N - p /\ p + 1 + (i - p) = i + 1 /\ p + (i - p) = i
    BY <1>1
  <2>2. (begin \o last)[p + 1 + (i - p)] = last[i - p] /\ last[i - p] = lines[p + (i - p)]
    BY <1>3, <1>8, <2>1
  <2>3. QED
    BY <2>1, <2>2
<1>10. \A i \in 1 .. p : i \in 1 .. p + 1
  BY <1>1
<1>11. p + 1 \in 1 .. p + 1
  BY <1>1
<1>12. QED
  BY <1>5, <1>7, <1>8, <1>9, <1>10, <1>11 DEF begin, N

-----------------------------------------------------------------------------
(* Where the image is.                                                     *)

LEMMA ImageIsFirst ==
    ASSUME NEW lines \in Seq(Lines)
    PROVE  /\ ParentIndex(lines) \in 0 .. Len(lines)
           /\ ParentIndex(lines) = 0 => \A i \in 1 .. Len(lines) : lines[i].key # "image"
           /\ ParentIndex(lines) # 0 =>
                 /\ ParentIndex(lines) \in 1 .. Len(lines) /\ lines[ParentIndex(lines)].key = "image"
                 /\ \A i \in 1 .. Len(lines) : lines[i].key = "image" => ParentIndex(lines) <= i
<1> DEFINE I == {i \in DOMAIN lines : lines[i].key = "image"}
<1>1. DOMAIN lines = 1 .. Len(lines) /\ Len(lines) \in Nat
  BY LineFacts
<1>2. I # {} => Min(I) \in I /\ \A i \in I : Min(I) <= i
  BY <1>1, MinOfBounded
<1>3. ParentIndex(lines) = IF I = {} THEN 0 ELSE Min(I)
  BY DEF ParentIndex
<1>4. QED
  BY <1>1, <1>2, <1>3

LEMMA FirstIsImage ==
    ASSUME NEW lines \in Seq(Lines), NEW p \in 1 .. Len(lines), lines[p].key = "image",
           \A i \in 1 .. Len(lines) : i < p => lines[i].key # "image"
    PROVE  ParentIndex(lines) = p
<1>1. Len(lines) \in Nat
  BY LineFacts
<1>2. QED
  BY <1>1, ImageIsFirst

LEMMA FieldFacts == \A field \in Fields : field \in Texts /\ field # "image" /\ field # Remark
<1>1. ASSUME NEW field \in Fields
      PROVE  field # "image" /\ field # Remark
  BY DEF Fields, Remark
<1>2. QED
  BY <1>1, ValuesAssumption

\* A block to write into: the first key `image` is at the top and opens a mapping.
Ready(lines, p) ==
    /\ lines \in Seq(Lines) /\ p \in 1 .. Len(lines) /\ TwoLevel(lines)
    /\ ParentIndex(lines) = p /\ lines[p].value = Null

Block(lines, p) == {i \in 1 .. Len(lines) : i > p /\ InBlock(lines, p, i) /\ lines[i].key # Remark}

LEMMA ReadyBlock ==
    ASSUME NEW lines, NEW p, Ready(lines, p)
    PROVE  /\ lines[p].key = "image" /\ lines[p].indent = 0 /\ lines[p].remark = FALSE
           /\ \A i \in 1 .. Len(lines) : lines[i].key = "image" => p <= i
           /\ \A i \in 1 .. Len(lines) : lines[i].key = "image" /\ lines[i].indent = 0 => i = p
           /\ \A i \in Block(lines, p) : lines[i].indent = 2
           /\ \A i, j \in Block(lines, p) : lines[i].key = lines[j].key => i = j
<1>1. /\ lines \in Seq(Lines) /\ p \in 1 .. Len(lines) /\ Len(lines) \in Nat /\ DOMAIN lines = 1 .. Len(lines)
      /\ \A i \in 1 .. Len(lines) : lines[i].indent \in Nat /\ lines[i].remark \in BOOLEAN
  BY LineFacts DEF Ready
<1>2. lines[p].key = "image" /\ \A i \in 1 .. Len(lines) : lines[i].key = "image" => p <= i
  BY <1>1, ImageIsFirst DEF Ready
<1>3. /\ WellFormed(lines) /\ lines[p].indent = 0 /\ lines[p].remark = FALSE
      /\ \A i \in p + 1 .. Len(lines) : InBlock(lines, p, i) /\ lines[i].key # Remark => lines[i].indent = 2
  <2>1. ParentIndex(lines) = p /\ p # 0 /\ TwoLevel(lines)
    BY <1>1 DEF Ready
  <2>2. QED
    BY <1>1, <2>1 DEF TwoLevel
<1>4. \A i \in Block(lines, p) : lines[i].indent = 2 /\ i \in p + 1 .. Len(lines)
  BY <1>1, <1>3 DEF Block
<1>5. ASSUME NEW i \in 1 .. Len(lines), lines[i].key = "image", lines[i].indent = 0
      PROVE  i = p
  <2>1. SUFFICES ASSUME p < i PROVE FALSE
    BY <1>1, <1>2, <1>5
  <2>2. \A k \in p + 1 .. i - 1 : lines[k].indent >= lines[p].indent
    BY <1>1, <1>3
  <2>3. Siblings(lines, p, i) /\ p \in 1 .. i - 1
    BY <1>1, <1>2, <1>3, <1>5, <2>1, <2>2 DEF Siblings, Remark
  <2>4. QED
    BY <1>1, <1>2, <1>3, <1>5, <2>3 DEF WellFormed, Remark
<1>6. ASSUME NEW i \in Block(lines, p), NEW j \in Block(lines, p), i < j, lines[i].key = lines[j].key
      PROVE  FALSE
  <2>1. i \in 1 .. Len(lines) /\ j \in 1 .. Len(lines) /\ i > p /\ InBlock(lines, p, j)
        /\ lines[i].key # Remark /\ lines[j].key # Remark
    BY DEF Block
  <2>2. ASSUME NEW k \in i + 1 .. j - 1, lines[k].key # Remark
        PROVE  lines[k].indent >= lines[i].indent
    <3>1. k \in 1 .. Len(lines) /\ k > p /\ InBlock(lines, p, k)
      BY <1>1, <2>1 DEF InBlock
    <3>2. k \in Block(lines, p)
      BY <2>2, <3>1 DEF Block
    <3>3. QED
      BY <1>4, <3>2
  <2>3. Siblings(lines, i, j) /\ i \in 1 .. j - 1
    BY <1>1, <1>4, <1>6, <2>1, <2>2 DEF Siblings
  <2>4. QED
    BY <1>1, <1>3, <1>6, <2>1, <2>3 DEF WellFormed
<1>7. ASSUME NEW i \in Block(lines, p), NEW j \in Block(lines, p), lines[i].key = lines[j].key
      PROVE  i = j
  <2>1. i \in Int /\ j \in Int
    BY <1>1 DEF Block
  <2>2. QED
    BY <1>6, <1>7, <2>1
<1>8. QED
  BY <1>2, <1>3, <1>4, <1>5, <1>7

\* The lines that say a field are those of the block with its key.
LEMMA SaysBlock ==
    ASSUME NEW lines, NEW p, Ready(lines, p), NEW field \in Fields
    PROVE  Says(lines, field) = {i \in Block(lines, p) : lines[i].key = field}
<1>1. p \in 1 .. Len(lines) /\ Len(lines) \in Nat /\ DOMAIN lines = 1 .. Len(lines)
  BY LineFacts DEF Ready
<1>2. /\ lines[p].key = "image" /\ lines[p].indent = 0
      /\ \A i \in 1 .. Len(lines) : lines[i].key = "image" /\ lines[i].indent = 0 => i = p
  BY ReadyBlock
<1>3. ASSUME NEW i \in Says(lines, field)
      PROVE  i \in Block(lines, p) /\ lines[i].key = field
  <2>1. i \in 1 .. Len(lines) /\ lines[i].key = field /\ field # Remark
    BY <1>1, FieldFacts DEF Says
  <2>2. PICK q \in 1 .. i - 1 : lines[q].key = "image" /\ lines[q].indent = 0 /\ InBlock(lines, q, i)
    BY DEF Says
  <2>3. q = p
    BY <1>1, <1>2, <2>1, <2>2
  <2>4. QED
    BY <1>1, <2>1, <2>2, <2>3 DEF Block
<1>4. ASSUME NEW i \in Block(lines, p), lines[i].key = field
      PROVE  i \in Says(lines, field)
  <2>1. i \in DOMAIN lines /\ p \in 1 .. i - 1 /\ InBlock(lines, p, i)
    BY <1>1 DEF Block
  <2>2. QED
    BY <1>2, <1>4, <2>1 DEF Says
<1>5. QED
  BY <1>3, <1>4

\* What says a field of the image is known without Ready.
LEMMA SaysInBlock ==
    ASSUME NEW lines \in Seq(Lines), NEW p \in 1 .. Len(lines), lines[p].key = "image", lines[p].indent = 0,
           NEW i \in Block(lines, p)
    PROVE  i \in Says(lines, lines[i].key)
<1>1. Len(lines) \in Nat /\ DOMAIN lines = 1 .. Len(lines)
  BY LineFacts
<1>2. i \in DOMAIN lines /\ p \in 1 .. i - 1 /\ InBlock(lines, p, i)
  BY <1>1 DEF Block
<1>3. QED
  BY <1>2 DEF Says

-----------------------------------------------------------------------------
(* A field is written: its line gets the value (k = 0), or it gets a line  *)
(* right below the image (k = 1).                                          *)

\* Where the line i is found afterwards.
At(p, k, i) == IF i <= p THEN i ELSE i + k

Wrote(lines, p, text, k, field, value) ==
    /\ k \in 0 .. 1 /\ text \in Seq(Lines) /\ Len(text) = Len(lines) + k
    /\ field \in Fields
    /\ \A i \in 1 .. Len(lines) :
          /\ text[At(p, k, i)].indent = lines[i].indent /\ text[At(p, k, i)].key = lines[i].key
          /\ text[At(p, k, i)].remark = lines[i].remark
          /\ IF i \in Block(lines, p) /\ lines[i].key = field
             THEN text[At(p, k, i)].value = value
             ELSE text[At(p, k, i)] = lines[i]
    /\ k = 0 => \E c \in Block(lines, p) : lines[c].key = field
    /\ k = 1 => /\ text[p + 1] = Line(2, field, value)
                /\ \A i \in Block(lines, p) : lines[i].key # field

Shifts(n, p, k) ==
    /\ \A i \in 1 .. n : At(p, k, i) \in 1 .. n + k /\ (k = 1 => At(p, k, i) # p + 1)
    /\ \A i, j \in 1 .. n : i < j <=> At(p, k, i) < At(p, k, j)
    /\ \A j \in 1 .. n + k : (k = 1 /\ j = p + 1) \/ \E i \in 1 .. n : j = At(p, k, i)
    /\ \A i \in 1 .. n : i <= p => At(p, k, i) = i
    /\ \A i \in 1 .. n : i > p => At(p, k, i) > p
    /\ At(p, k, p) = p

LEMMA AtFacts ==
    ASSUME NEW n \in Nat, NEW p \in 1 .. n, NEW k \in 0 .. 1
    PROVE  Shifts(n, p, k)
<1>1. \A i \in 1 .. n : At(p, k, i) \in 1 .. n + k /\ (k = 1 => At(p, k, i) # p + 1)
  BY DEF At
<1>2. \A i, j \in 1 .. n : i < j <=> At(p, k, i) < At(p, k, j)
  BY DEF At
<1>3. ASSUME NEW j \in 1 .. n + k, ~ (k = 1 /\ j = p + 1)
      PROVE  \E i \in 1 .. n : j = At(p, k, i)
  <2>1. CASE j <= p
    <3>1. j \in 1 .. n /\ j = At(p, k, j)
      BY <2>1 DEF At
    <3>2. QED
      BY <3>1
  <2>2. CASE ~ (j <= p)
    <3>1. j - k \in 1 .. n /\ j = At(p, k, j - k)
      BY <1>3, <2>2 DEF At
    <3>2. QED
      BY <3>1
  <2>3. QED
    BY <2>1, <2>2
<1>4. /\ \A i \in 1 .. n : i <= p => At(p, k, i) = i
      /\ \A i \in 1 .. n : i > p => At(p, k, i) > p
      /\ At(p, k, p) = p
  BY DEF At
<1>5. QED
  BY <1>1, <1>2, <1>3, <1>4 DEF Shifts

\* What the lemmas below start from.
Writing(lines, p, text, k, field, value) == Ready(lines, p) /\ Wrote(lines, p, text, k, field, value)

LEMMA WritingFacts ==
    ASSUME NEW lines, NEW p, NEW text, NEW k, NEW field, NEW value, Writing(lines, p, text, k, field, value)
    PROVE  /\ lines \in Seq(Lines) /\ text \in Seq(Lines) /\ Len(lines) \in Nat /\ Len(text) = Len(lines) + k
           /\ p \in 1 .. Len(lines) /\ k \in 0 .. 1 /\ DOMAIN lines = 1 .. Len(lines) /\ DOMAIN text = 1 .. Len(text)
           /\ \A i \in 1 .. Len(lines) : lines[i].indent \in Nat
           /\ \A i \in 1 .. Len(text) : text[i].indent \in Nat
           /\ field \in Fields /\ field \in Texts /\ field # "image" /\ field # Remark /\ Remark # "image"
           /\ \A i \in 1 .. Len(lines) : text[At(p, k, i)].indent = lines[i].indent /\ text[At(p, k, i)].key = lines[i].key
           /\ k = 1 => text[p + 1].indent = 2 /\ text[p + 1].key = field /\ text[p + 1].value = value
           /\ lines[p].key = "image" /\ lines[p].indent = 0 /\ lines[p].value = Null
           /\ text[p] = lines[p] /\ Shifts(Len(lines), p, k)
<1>1. lines \in Seq(Lines) /\ text \in Seq(Lines) /\ p \in 1 .. Len(lines) /\ Len(text) = Len(lines) + k /\ k \in 0 .. 1
      /\ lines[p].value = Null
  BY DEF Writing, Ready, Wrote
<1>2. /\ Len(lines) \in Nat /\ DOMAIN lines = 1 .. Len(lines) /\ DOMAIN text = 1 .. Len(text)
      /\ \A i \in 1 .. Len(lines) : lines[i].indent \in Nat
      /\ \A i \in 1 .. Len(text) : text[i].indent \in Nat
  BY <1>1, LineFacts
<1>3. field \in Fields /\ field \in Texts /\ field # "image" /\ field # Remark /\ Remark # "image"
  BY FieldFacts DEF Writing, Wrote, Remark
<1>4. \A i \in 1 .. Len(lines) : text[At(p, k, i)].indent = lines[i].indent /\ text[At(p, k, i)].key = lines[i].key
  BY DEF Writing, Wrote
<1>5. k = 1 => text[p + 1].indent = 2 /\ text[p + 1].key = field /\ text[p + 1].value = value
  BY DEF Writing, Wrote, Line
<1>6. lines[p].key = "image" /\ lines[p].indent = 0
  BY ReadyBlock DEF Writing
<1>7. Shifts(Len(lines), p, k)
  BY <1>1, <1>2, AtFacts
<1>8. p \notin Block(lines, p)
  BY <1>1, <1>2 DEF Block
<1>9. text[p] = lines[p]
  <2>1. At(p, k, p) = p
    BY <1>7 DEF Shifts
  <2>2. QED
    BY <1>1, <1>8, <2>1 DEF Writing, Wrote
<1>10. QED
  BY <1>1, <1>2, <1>3, <1>4, <1>5, <1>6, <1>7, <1>9

\* The block is the old one, with the new line if there is one.
LEMMA WrittenBlock ==
    ASSUME NEW lines, NEW p, NEW text, NEW k, NEW field, NEW value, Writing(lines, p, text, k, field, value)
    PROVE  /\ \A i \in 1 .. Len(lines) : At(p, k, i) \in Block(text, p) <=> i \in Block(lines, p)
           /\ k = 1 => p + 1 \in Block(text, p)
<1> DEFINE N == Len(lines)
<1>1. /\ N \in Nat /\ Len(text) = N + k /\ p \in 1 .. N /\ k \in 0 .. 1 /\ lines[p].indent = 0 /\ text[p].indent = 0
      /\ \A i \in 1 .. N : text[At(p, k, i)].indent = lines[i].indent /\ text[At(p, k, i)].key = lines[i].key
      /\ k = 1 => text[p + 1].indent = 2 /\ text[p + 1].key = field
      /\ field # Remark
  BY WritingFacts
<1>2. /\ \A i \in 1 .. N : At(p, k, i) \in 1 .. N + k
      /\ \A i, j \in 1 .. N : i < j <=> At(p, k, i) < At(p, k, j)
      /\ \A j \in 1 .. N + k : (k = 1 /\ j = p + 1) \/ \E i \in 1 .. N : j = At(p, k, i)
      /\ \A i \in 1 .. N : i > p => At(p, k, i) > p
      /\ At(p, k, p) = p
  <2>1. Shifts(N, p, k)
    BY WritingFacts
  <2>2. QED
    BY <1>1, <2>1 DEF Shifts
<1> HIDE DEF N
<1>3. ASSUME NEW i \in 1 .. N, i > p, InBlock(text, p, At(p, k, i))
      PROVE  InBlock(lines, p, i)
  <2>1. ASSUME NEW m \in p + 1 .. i
        PROVE  lines[m].key = Remark \/ lines[m].indent > lines[p].indent
    <3>1. m \in 1 .. N /\ (m < i \/ m = i) /\ m > p
      BY <1>1
    <3>2. At(p, k, m) \in p + 1 .. At(p, k, i)
      BY <1>1, <1>2, <3>1
    <3>3. QED
      BY <1>1, <1>3, <3>1, <3>2 DEF InBlock
  <2>2. QED
    BY <2>1 DEF InBlock
<1>4. ASSUME NEW i \in 1 .. N, i > p, InBlock(lines, p, i)
      PROVE  InBlock(text, p, At(p, k, i))
  <2>1. ASSUME NEW j \in p + 1 .. At(p, k, i), ~ (k = 1 /\ j = p + 1)
        PROVE  text[j].key = Remark \/ text[j].indent > text[p].indent
    <3>1. j \in 1 .. N + k
      BY <1>1, <1>2
    <3>2. PICK m \in 1 .. N : j = At(p, k, m)
      BY <1>2, <2>1, <3>1
    <3>3. m \in p + 1 .. i
      BY <1>1, <1>2, <3>2
    <3>4. QED
      BY <1>1, <1>4, <3>2, <3>3 DEF InBlock
  <2>2. QED
    BY <1>1, <2>1 DEF InBlock
<1>5. ASSUME NEW i \in 1 .. N
      PROVE  At(p, k, i) \in Block(text, p) <=> i \in Block(lines, p)
  <2>1. At(p, k, i) > p <=> i > p
    BY <1>1, <1>2
  <2>2. At(p, k, i) \in 1 .. Len(text) /\ text[At(p, k, i)].key = lines[i].key
    BY <1>1, <1>2
  <2>3. QED
    BY <1>3, <1>4, <2>1, <2>2 DEF Block, N
<1>6. ASSUME k = 1
      PROVE  p + 1 \in Block(text, p)
  <2>1. p + 1 \in 1 .. Len(text) /\ p + 1 > p /\ text[p + 1].key # Remark
    BY <1>1, <1>6
  <2>2. InBlock(text, p, p + 1)
    BY <1>1, <1>6 DEF InBlock
  <2>3. QED
    BY <2>1, <2>2 DEF Block
<1>7. QED
  BY <1>5, <1>6 DEF N

\* What the lemmas on a written text say of its lines, for one step.
WrittenLines(lines, p, text, k, field) ==
    /\ Len(lines) \in Nat /\ Len(text) = Len(lines) + k /\ p \in 1 .. Len(lines) /\ k \in 0 .. 1
    /\ \A i \in 1 .. Len(lines) : lines[i].indent \in Nat
    /\ \A i \in 1 .. Len(text) : text[i].indent \in Nat
    /\ \A i \in 1 .. Len(lines) : At(p, k, i) \in 1 .. Len(lines) + k
    /\ \A i, j \in 1 .. Len(lines) : i < j <=> At(p, k, i) < At(p, k, j)
    /\ \A j \in 1 .. Len(lines) + k : (k = 1 /\ j = p + 1) \/ \E i \in 1 .. Len(lines) : j = At(p, k, i)
    /\ \A i \in 1 .. Len(lines) : i <= p => At(p, k, i) = i
    /\ \A i \in 1 .. Len(lines) : i > p => At(p, k, i) > p
    /\ \A i \in 1 .. Len(lines) : k = 1 => At(p, k, i) # p + 1
    /\ \A i \in 1 .. Len(lines) : text[At(p, k, i)].indent = lines[i].indent /\ text[At(p, k, i)].key = lines[i].key
    /\ k = 1 => text[p + 1].indent = 2 /\ text[p + 1].key = field
    /\ lines[p].key = "image" /\ lines[p].indent = 0 /\ Remark # "image" /\ field # Remark
    /\ \A i \in Block(lines, p) : lines[i].indent = 2

LEMMA WritingGivesLines ==
    ASSUME NEW lines, NEW p, NEW text, NEW k, NEW field, NEW value, Writing(lines, p, text, k, field, value)
    PROVE  WrittenLines(lines, p, text, k, field)
<1>1. /\ Len(lines) \in Nat /\ Len(text) = Len(lines) + k /\ p \in 1 .. Len(lines) /\ k \in 0 .. 1
      /\ \A i \in 1 .. Len(lines) : lines[i].indent \in Nat
      /\ \A i \in 1 .. Len(text) : text[i].indent \in Nat
      /\ \A i \in 1 .. Len(lines) : text[At(p, k, i)].indent = lines[i].indent /\ text[At(p, k, i)].key = lines[i].key
      /\ k = 1 => text[p + 1].indent = 2 /\ text[p + 1].key = field
      /\ lines[p].key = "image" /\ lines[p].indent = 0 /\ Remark # "image" /\ field # Remark
  BY WritingFacts
<1>2. Shifts(Len(lines), p, k)
  BY WritingFacts
<1>3. \A i \in Block(lines, p) : lines[i].indent = 2
  BY ReadyBlock DEF Writing
<1>4. QED
  BY <1>1, <1>2, <1>3 DEF Shifts, WrittenLines

\* Two lines are of one mapping afterwards if and only if they were before.
LEMMA WrittenSiblings ==
    ASSUME NEW lines, NEW p, NEW text, NEW k, NEW field, WrittenLines(lines, p, text, k, field),
           NEW i \in 1 .. Len(lines), NEW j \in 1 .. Len(lines), i < j
    PROVE  Siblings(text, At(p, k, i), At(p, k, j)) <=> Siblings(lines, i, j)
<1> DEFINE N == Len(lines)
<1>1. /\ N \in Nat /\ p \in 1 .. N /\ k \in 0 .. 1 /\ i \in 1 .. N /\ j \in 1 .. N
      /\ \A m \in 1 .. N : At(p, k, m) \in 1 .. N + k /\ lines[m].indent \in Nat
      /\ \A m, n \in 1 .. N : m < n <=> At(p, k, m) < At(p, k, n)
      /\ \A m \in 1 .. N + k : (k = 1 /\ m = p + 1) \/ \E n \in 1 .. N : m = At(p, k, n)
      /\ \A m \in 1 .. N : text[At(p, k, m)].indent = lines[m].indent /\ text[At(p, k, m)].key = lines[m].key
  BY DEF WrittenLines
<1>2. ASSUME Siblings(text, At(p, k, i), At(p, k, j))
      PROVE  Siblings(lines, i, j)
  <2>1. ASSUME NEW m \in i + 1 .. j - 1
        PROVE  lines[m].key = Remark \/ lines[m].indent >= lines[i].indent
    <3>1. m \in 1 .. N /\ At(p, k, m) \in At(p, k, i) + 1 .. At(p, k, j) - 1
      <4>1. m \in 1 .. N /\ i < m /\ m < j
        BY <1>1
      <4>2. At(p, k, i) < At(p, k, m) /\ At(p, k, m) < At(p, k, j)
        BY <1>1, <4>1
      <4>3. At(p, k, i) \in Int /\ At(p, k, m) \in Int /\ At(p, k, j) \in Int
        BY <1>1, <4>1
      <4>4. QED
        BY <4>1, <4>2, <4>3
    <3>2. QED
      BY <1>1, <1>2, <3>1 DEF Siblings
  <2>2. QED
    BY <1>1, <1>2, <2>1 DEF Siblings
<1>3. ASSUME Siblings(lines, i, j)
      PROVE  Siblings(text, At(p, k, i), At(p, k, j))
  <2>1. ASSUME NEW m \in At(p, k, i) + 1 .. At(p, k, j) - 1
        PROVE  text[m].key = Remark \/ text[m].indent >= text[At(p, k, i)].indent
    <3>1. m \in 1 .. N + k
      BY <1>1
    <3>2. CASE k = 1 /\ m = p + 1
      <4>1. i <= p /\ p < j
        <5>1. At(p, k, i) <= p /\ p < At(p, k, j)
          BY <1>1, <3>2
        <5>2. At(p, k, p) = p
          BY <1>1 DEF WrittenLines
        <5>3. ~ (p < i) /\ p < j
          BY <1>1, <5>1, <5>2
        <5>4. QED
          BY <1>1, <5>3
      <4>2. lines[i].indent = 0
        <5>1. p \in 1 .. N /\ lines[p].key # Remark /\ lines[p].indent = 0
          BY DEF WrittenLines
        <5>2. i = p \/ p \in i + 1 .. j - 1
          <6>1. i \in Int /\ j \in Int /\ p \in Int
            BY <1>1, <5>1
          <6>2. QED
            BY <4>1, <6>1
        <5>3. p \in i + 1 .. j - 1 => lines[p].indent >= lines[i].indent
          BY <1>3, <5>1 DEF Siblings
        <5>4. lines[i].indent \in Nat
          BY <1>1
        <5>5. QED
          BY <5>1, <5>2, <5>3, <5>4
      <4>3. QED
        BY <1>1, <3>2, <4>2 DEF WrittenLines
    <3>3. CASE \E n \in 1 .. N : m = At(p, k, n)
      <4>1. PICK n \in 1 .. N : m = At(p, k, n)
        BY <3>3
      <4>2. n \in i + 1 .. j - 1
        <5>1. At(p, k, i) < At(p, k, n) /\ At(p, k, n) < At(p, k, j)
          <6>1. At(p, k, i) \in Int /\ At(p, k, j) \in Int
            BY <1>1
          <6>2. QED
            BY <4>1, <6>1
        <5>2. i < n /\ n < j
          BY <1>1, <5>1
        <5>3. QED
          BY <1>1, <5>2
      <4>3. QED
        BY <1>1, <1>3, <4>1, <4>2 DEF Siblings
    <3>4. QED
      BY <1>1, <3>1, <3>2, <3>3
  <2>2. QED
    BY <1>1, <1>3, <2>1 DEF Siblings
<1>4. QED
  BY <1>2, <1>3

\* A line with only deeper lines, or comments, above it up to the image is in the block.
LEMMA OpenedInBlock ==
    ASSUME NEW lines, NEW p, NEW text, NEW k, NEW field, WrittenLines(lines, p, text, k, field),
           NEW i \in 1 .. Len(lines), NEW j \in 1 .. Len(lines), i < j, lines[j].key # Remark, Opens(lines, i, j),
           i = p \/ i \in Block(lines, p)
    PROVE  i = p /\ j \in Block(lines, p) /\ lines[j].indent = 2
<1>1. /\ p \in 1 .. Len(lines) /\ i >= p /\ lines[p].indent = 0
      /\ i \in Block(lines, p) => InBlock(lines, p, i) /\ lines[i].indent = 2
      /\ \A m \in 1 .. Len(lines) : lines[m].indent \in Nat
  <2>1. /\ p \in 1 .. Len(lines) /\ lines[p].indent = 0
        /\ \A m \in 1 .. Len(lines) : lines[m].indent \in Nat
        /\ \A m \in Block(lines, p) : lines[m].indent = 2
    BY DEF WrittenLines
  <2>2. i \in Block(lines, p) => i > p /\ InBlock(lines, p, i)
    BY DEF Block
  <2>3. i >= p
    BY <2>1, <2>2
  <2>4. QED
    BY <2>1, <2>2, <2>3
<1>2. ASSUME NEW m \in p + 1 .. j
      PROVE  lines[m].key = Remark \/ lines[m].indent > lines[p].indent
  <2>1. CASE m <= i
    BY <1>1, <2>1 DEF InBlock
  <2>2. CASE m > i /\ m < j
    <3>1. m \in i + 1 .. j - 1
      BY <1>1, <2>2
    <3>2. QED
      BY <3>1 DEF Opens
  <2>3. CASE m = j
    BY <1>1, <2>3 DEF Opens
  <2>4. QED
    BY <1>1, <2>1, <2>2, <2>3
<1>3. InBlock(lines, p, j) /\ j > p
  BY <1>1, <1>2 DEF InBlock
<1>4. j \in Block(lines, p)
  BY <1>3 DEF Block
<1>5. lines[j].indent = 2
  BY <1>4 DEF WrittenLines
<1>6. QED
  BY <1>1, <1>4, <1>5 DEF Opens

\* A line that opens the mapping of another does so afterwards, or the new line
\* is now the first of that mapping.
LEMMA WrittenOpens ==
    ASSUME NEW lines, NEW p, NEW text, NEW k, NEW field, NEW value, Writing(lines, p, text, k, field, value),
           NEW i \in 1 .. Len(lines), NEW j \in 1 .. Len(lines), i < j, lines[j].key # Remark, Opens(lines, i, j)
    PROVE  \/ Opens(text, At(p, k, i), At(p, k, j))
           \/ k = 1 /\ p + 1 < At(p, k, j) /\ Siblings(text, p + 1, At(p, k, j))
<1> DEFINE N == Len(lines)
<1>1. WrittenLines(lines, p, text, k, field)
  BY WritingGivesLines
<1>2. /\ N \in Nat /\ p \in 1 .. N /\ k \in 0 .. 1 /\ i \in 1 .. N /\ j \in 1 .. N
      /\ \A m \in 1 .. N : At(p, k, m) \in 1 .. N + k /\ lines[m].indent \in Nat
      /\ \A m, n \in 1 .. N : m < n <=> At(p, k, m) < At(p, k, n)
      /\ \A m \in 1 .. N + k : (k = 1 /\ m = p + 1) \/ \E n \in 1 .. N : m = At(p, k, n)
      /\ \A m \in 1 .. N : text[At(p, k, m)].indent = lines[m].indent /\ text[At(p, k, m)].key = lines[m].key
  BY <1>1 DEF WrittenLines
<1>3. ASSUME NEW m \in At(p, k, i) + 1 .. At(p, k, j) - 1, ~ (k = 1 /\ m = p + 1)
      PROVE  text[m].key = Remark
  <2>1. m \in 1 .. N + k
    BY <1>2
  <2>2. PICK n \in 1 .. N : m = At(p, k, n)
    BY <1>2, <1>3, <2>1
  <2>3. At(p, k, i) \in Int /\ At(p, k, j) \in Int
    BY <1>2
  <2>4. At(p, k, i) < At(p, k, n) /\ At(p, k, n) < At(p, k, j)
    BY <2>2, <2>3
  <2>5. i < n /\ n < j
    BY <1>2, <2>4
  <2>6. n \in i + 1 .. j - 1
    BY <1>2, <2>5
  <2>7. QED
    BY <1>2, <2>2, <2>6 DEF Opens
<1>4. CASE k = 1 /\ i = p
  <2>1. lines[j].indent = 2 /\ text[At(p, k, j)].indent = 2
    BY <1>1, <1>2, <1>4, OpenedInBlock
  <2>2. text[p + 1].indent = 2 /\ text[p + 1].key # Remark
    BY <1>1, <1>4 DEF WrittenLines
  <2>3. At(p, k, p) = p /\ p < At(p, k, j) /\ At(p, k, j) # p + 1 /\ At(p, k, j) \in Int
    BY <1>1, <1>2, <1>4 DEF WrittenLines
  <2>4. ASSUME NEW m \in (p + 1) + 1 .. At(p, k, j) - 1
        PROVE  text[m].key = Remark
    <3>1. m \in At(p, k, i) + 1 .. At(p, k, j) - 1 /\ m # p + 1
      BY <1>2, <1>4, <2>3
    <3>2. QED
      BY <1>3, <3>1
  <2>5. p + 1 < At(p, k, j)
    BY <1>2, <2>3
  <2>6. QED
    BY <1>4, <2>1, <2>2, <2>4, <2>5 DEF Siblings
<1>5. CASE ~ (k = 1 /\ i = p)
  <2>1. text[At(p, k, i)].value = lines[i].value
    <3>1. i \notin Block(lines, p) \/ lines[i].key # field
      <4>1. ASSUME i \in Block(lines, p)
            PROVE  FALSE
        <5>1. i = p
          BY <1>1, <4>1, OpenedInBlock
        <5>2. QED
          BY <1>2, <4>1, <5>1 DEF Block
      <4>2. QED
        BY <4>1
    <3>2. QED
      BY <3>1 DEF Writing, Wrote
  <2>2. ASSUME k = 1, p + 1 \in At(p, k, i) + 1 .. At(p, k, j) - 1
        PROVE  FALSE
    <3>1. At(p, k, p) = p /\ At(p, k, i) \in Int /\ At(p, k, j) \in Int
      BY <1>1, <1>2 DEF WrittenLines
    <3>2. At(p, k, i) <= At(p, k, p) /\ At(p, k, p) < At(p, k, j)
      BY <1>2, <2>2, <3>1
    <3>3. ~ (p < i) /\ p < j
      BY <1>2, <3>1, <3>2
    <3>4. p \in i + 1 .. j - 1
      BY <1>2, <1>5, <2>2, <3>3
    <3>5. lines[p].key = Remark
      BY <3>4 DEF Opens
    <3>6. QED
      BY <1>1, <3>5 DEF WrittenLines
  <2>3. \A m \in At(p, k, i) + 1 .. At(p, k, j) - 1 : text[m].key = Remark
    BY <1>3, <2>2
  <2>4. QED
    BY <1>2, <2>1, <2>3 DEF Opens
<1>6. QED
  BY <1>4, <1>5

LEMMA WrittenWellFormed ==
    ASSUME NEW lines, NEW p, NEW text, NEW k, NEW field, NEW value, Writing(lines, p, text, k, field, value)
    PROVE  WellFormed(text)
<1> DEFINE N == Len(lines)
<1>1. WrittenLines(lines, p, text, k, field)
  BY WritingGivesLines
<1>2. /\ N \in Nat /\ p \in 1 .. N /\ k \in 0 .. 1 /\ Len(text) = N + k
      /\ \A m \in 1 .. N : At(p, k, m) \in 1 .. N + k /\ lines[m].indent \in Nat
      /\ \A m, n \in 1 .. N : m < n <=> At(p, k, m) < At(p, k, n)
      /\ \A m \in 1 .. N + k : (k = 1 /\ m = p + 1) \/ \E n \in 1 .. N : m = At(p, k, n)
      /\ \A m \in 1 .. N : text[At(p, k, m)].indent = lines[m].indent /\ text[At(p, k, m)].key = lines[m].key
      /\ At(p, k, p) = p
  BY <1>1 DEF WrittenLines
<1>3. /\ lines[p].key = "image" /\ lines[p].indent = 0 /\ Remark # "image" /\ field # Remark /\ field # "image"
      /\ text[p] = lines[p] /\ text[p].value = Null
      /\ DOMAIN lines = 1 .. N /\ DOMAIN text = 1 .. N + k
      /\ k = 1 => text[p + 1].indent = 2 /\ text[p + 1].key = field
  BY WritingFacts
<1>4. WellFormed(lines)
  BY DEF Writing, Ready, TwoLevel
<1> DEFINE Top(ls, j) == ls[j].indent = 0 /\ \A i \in 1 .. j - 1 : ls[i].key = Remark
           Within(ls, j) == \E i \in 1 .. j - 1 : Siblings(ls, i, j) \/ Opens(ls, i, j)
           Once(ls, j) == \A i \in 1 .. j - 1 : Siblings(ls, i, j) => ls[i].key # ls[j].key
<1>5. \A j \in 1 .. N : lines[j].key # Remark => (Top(lines, j) \/ Within(lines, j)) /\ Once(lines, j)
  BY <1>3, <1>4 DEF WellFormed
<1>6. ASSUME NEW j \in 1 .. N, lines[j].key # Remark
      PROVE  Top(text, At(p, k, j)) \/ Within(text, At(p, k, j))
  <2>1. CASE Top(lines, j)
    <3>1. j <= p
      <4>1. SUFFICES ASSUME p < j PROVE FALSE
        BY <1>2
      <4>2. p \in 1 .. j - 1
        BY <1>2, <4>1
      <4>3. QED
        BY <1>3, <2>1, <4>2
    <3>2. At(p, k, j) = j /\ text[j].indent = 0
      BY <1>1, <1>2, <2>1, <3>1 DEF WrittenLines
    <3>3. ASSUME NEW i \in 1 .. j - 1
          PROVE  text[i].key = Remark
      <4>1. i \in 1 .. N /\ i <= p
        BY <1>2, <3>1
      <4>2. At(p, k, i) = i
        BY <1>1, <4>1 DEF WrittenLines
      <4>3. QED
        BY <1>2, <2>1, <4>1, <4>2
    <3>4. QED
      BY <3>2, <3>3
  <2>2. CASE Within(lines, j)
    <3>1. PICK i \in 1 .. j - 1 : Siblings(lines, i, j) \/ Opens(lines, i, j)
      BY <2>2
    <3>2. i \in 1 .. N /\ i < j
      BY <1>2
    <3>3. At(p, k, i) \in 1 .. At(p, k, j) - 1
      <4>1. At(p, k, i) < At(p, k, j) /\ At(p, k, i) \in 1 .. N + k /\ At(p, k, j) \in 1 .. N + k
        BY <1>2, <3>2
      <4>2. QED
        BY <1>2, <4>1
    <3>4. CASE Siblings(lines, i, j)
      <4>1. Siblings(text, At(p, k, i), At(p, k, j))
        BY <1>1, <3>2, <3>4, WrittenSiblings
      <4>2. QED
        BY <3>3, <4>1
    <3>5. CASE Opens(lines, i, j)
      <4>1. \/ Opens(text, At(p, k, i), At(p, k, j))
            \/ k = 1 /\ p + 1 < At(p, k, j) /\ Siblings(text, p + 1, At(p, k, j))
        BY <1>6, <3>2, <3>5, WrittenOpens
      <4>2. CASE Opens(text, At(p, k, i), At(p, k, j))
        BY <3>3, <4>2
      <4>3. CASE k = 1 /\ p + 1 < At(p, k, j) /\ Siblings(text, p + 1, At(p, k, j))
        <5>1. p + 1 \in 1 .. At(p, k, j) - 1
          BY <1>2, <4>3
        <5>2. QED
          BY <4>3, <5>1
      <4>4. QED
        BY <4>1, <4>2, <4>3
    <3>6. QED
      BY <3>1, <3>4, <3>5
  <2>3. QED
    BY <1>5, <1>6, <2>1, <2>2
<1>7. ASSUME NEW j \in 1 .. N, lines[j].key # Remark, NEW i \in 1 .. At(p, k, j) - 1,
             Siblings(text, i, At(p, k, j))
      PROVE  text[i].key # text[At(p, k, j)].key
  <2>1. At(p, k, j) \in 1 .. N + k /\ i \in 1 .. N + k
    BY <1>2
  <2>2. CASE k = 1 /\ i = p + 1
    <3>1. lines[j].indent = 2 /\ text[p + 1].indent = 2 /\ p < At(p, k, j)
      BY <1>2, <1>3, <1>7, <2>1, <2>2 DEF Siblings
    <3>2. p < j
      BY <1>2, <3>1
    <3>3. ASSUME NEW m \in p + 1 .. j
          PROVE  lines[m].key = Remark \/ lines[m].indent > lines[p].indent
      <4>1. m \in 1 .. N /\ p < m /\ (m < j \/ m = j)
        BY <1>2
      <4>2. CASE m = j
        BY <1>3, <3>1, <4>2
      <4>3. CASE m < j
        <5>1. At(p, k, m) < At(p, k, j) /\ p < At(p, k, m) /\ At(p, k, m) # p + 1 /\ At(p, k, m) \in Int
          BY <1>1, <1>2, <2>2, <4>1, <4>3 DEF WrittenLines
        <5>2. At(p, k, m) \in i + 1 .. At(p, k, j) - 1
          BY <1>2, <2>1, <2>2, <5>1
        <5>3. text[At(p, k, m)].key = Remark \/ text[At(p, k, m)].indent >= 2
          BY <1>7, <2>2, <3>1, <5>2 DEF Siblings
        <5>4. lines[m].key = Remark \/ lines[m].indent >= 2
          BY <1>2, <4>1, <5>3
        <5>5. lines[p].indent = 0 /\ lines[m].indent \in Nat
          BY <1>2, <1>3, <4>1
        <5>6. QED
          BY <5>4, <5>5
      <4>4. QED
        BY <4>1, <4>2, <4>3
    <3>4. j \in Block(lines, p)
      BY <1>2, <1>7, <3>2, <3>3 DEF Block, InBlock
    <3>5. lines[j].key # field
      BY <2>2, <3>4 DEF Writing, Wrote
    <3>6. QED
      BY <1>2, <1>3, <2>2, <3>5
  <2>3. CASE \E n \in 1 .. N : i = At(p, k, n)
    <3>1. PICK n \in 1 .. N : i = At(p, k, n)
      BY <2>3
    <3>2. n < j
      <4>1. At(p, k, n) < At(p, k, j)
        BY <2>1, <3>1
      <4>2. QED
        BY <1>2, <4>1
    <3>3. Siblings(lines, n, j)
      BY <1>1, <1>7, <3>1, <3>2, WrittenSiblings
    <3>4. n \in 1 .. j - 1
      BY <1>2, <3>2
    <3>5. lines[n].key # lines[j].key
      BY <1>5, <1>7, <3>3, <3>4
    <3>6. QED
      BY <1>2, <3>1, <3>5
  <2>4. QED
    BY <1>2, <2>1, <2>2, <2>3
<1>8. ASSUME k = 1
      PROVE  Within(text, p + 1) /\ Once(text, p + 1)
  <2>1. Opens(text, p, p + 1) /\ p \in 1 .. (p + 1) - 1
    BY <1>2, <1>3, <1>8 DEF Opens
  <2>2. ASSUME NEW i \in 1 .. (p + 1) - 1, Siblings(text, i, p + 1)
        PROVE  FALSE
    <3>1. i = p \/ p \in i + 1 .. (p + 1) - 1
      BY <1>2
    <3>2. text[i].indent = 2 /\ (i = p \/ text[p].key = Remark \/ text[p].indent >= 2)
      BY <1>3, <1>8, <2>2, <3>1 DEF Siblings
    <3>3. QED
      BY <1>3, <3>2
  <2>3. QED
    BY <2>1, <2>2
<1>9. ASSUME NEW j \in DOMAIN text, text[j].key # Remark
      PROVE  (Top(text, j) \/ Within(text, j)) /\ Once(text, j)
  <2>1. CASE k = 1 /\ j = p + 1
    BY <1>8, <2>1
  <2>2. CASE \E n \in 1 .. N : j = At(p, k, n)
    <3>1. PICK n \in 1 .. N : j = At(p, k, n)
      BY <2>2
    <3>2. lines[n].key # Remark
      BY <1>2, <1>9, <3>1
    <3> HIDE DEF Top, Within
    <3>3. QED
      BY <1>6, <1>7, <3>1, <3>2
  <2>3. QED
    BY <1>2, <1>3, <2>1, <2>2
<1>10. QED
  BY <1>9 DEF WellFormed

LEMMA WrittenReady ==
    ASSUME NEW lines, NEW p, NEW text, NEW k, NEW field, NEW value, Writing(lines, p, text, k, field, value)
    PROVE  Ready(text, p)
<1> DEFINE N == Len(lines)
<1>1. WrittenLines(lines, p, text, k, field)
  BY WritingGivesLines
<1>2. /\ N \in Nat /\ p \in 1 .. N /\ k \in 0 .. 1 /\ Len(text) = N + k
      /\ \A m \in 1 .. N : At(p, k, m) \in 1 .. N + k
      /\ \A m \in 1 .. N + k : (k = 1 /\ m = p + 1) \/ \E n \in 1 .. N : m = At(p, k, n)
      /\ \A m \in 1 .. N : text[At(p, k, m)].indent = lines[m].indent /\ text[At(p, k, m)].key = lines[m].key
      /\ \A m \in 1 .. N : m <= p => At(p, k, m) = m
      /\ \A m \in Block(lines, p) : lines[m].indent = 2
  BY <1>1 DEF WrittenLines
<1>3. /\ lines[p].key = "image" /\ lines[p].indent = 0 /\ text[p] = lines[p] /\ text[p].value = Null
      /\ text \in Seq(Lines) /\ DOMAIN text = 1 .. N + k /\ DOMAIN lines = 1 .. N
      /\ k = 1 => text[p + 1].indent = 2
  BY WritingFacts
<1>4. lines[p].remark = FALSE /\ \A m \in 1 .. N : lines[m].key = "image" => p <= m
  BY ReadyBlock DEF Writing
<1>5. \A m \in 1 .. N : At(p, k, m) \in Block(text, p) <=> m \in Block(lines, p)
  BY WrittenBlock
<1>6. k = 1 => p + 1 \in Block(text, p)
  BY WrittenBlock
<1>7. ParentIndex(text) = p
  <2>1. \A m \in 1 .. Len(text) : m < p => text[m].key # "image"
    <3>1. ASSUME NEW m \in 1 .. Len(text), m < p
          PROVE  text[m].key # "image"
      <4>1. m \in 1 .. N /\ ~ (p <= m) /\ m <= p
        BY <1>2, <3>1
      <4>2. At(p, k, m) = m /\ lines[m].key # "image"
        BY <1>2, <1>4, <4>1
      <4>3. QED
        BY <1>2, <4>1, <4>2
    <3>2. QED
      BY <3>1
  <2>2. p \in 1 .. Len(text) /\ text[p].key = "image"
    BY <1>2, <1>3
  <2>3. QED
    BY <1>3, <2>1, <2>2, FirstIsImage
<1>8. ASSUME NEW m \in p + 1 .. Len(text), InBlock(text, p, m), text[m].key # Remark
      PROVE  text[m].indent = 2
  <2>1. m \in Block(text, p) /\ m \in 1 .. N + k
    BY <1>2, <1>8 DEF Block
  <2>2. CASE k = 1 /\ m = p + 1
    BY <1>3, <2>2
  <2>3. CASE \E n \in 1 .. N : m = At(p, k, n)
    <3>1. PICK n \in 1 .. N : m = At(p, k, n)
      BY <2>3
    <3>2. lines[n].indent = 2
      BY <1>2, <1>5, <2>1, <3>1
    <3>3. QED
      BY <1>2, <3>1, <3>2
  <2>4. QED
    BY <1>2, <2>1, <2>2, <2>3
<1>9. ASSUME NEW m \in DOMAIN text, text[m].key = "digest"
      PROVE  m \in Says(text, "digest")
  <2>1. m \in Block(text, p)
    <3>1. CASE k = 1 /\ m = p + 1
      BY <1>6, <3>1
    <3>2. CASE \E n \in 1 .. N : m = At(p, k, n)
      <4>1. PICK n \in 1 .. N : m = At(p, k, n)
        BY <3>2
      <4>2. lines[n].key = "digest"
        BY <1>2, <1>9, <4>1
      <4>3. n \in Says(lines, "digest")
        BY <1>3, <4>2 DEF Writing, Ready, TwoLevel
      <4>4. "digest" \in Fields
        BY DEF Fields
      <4>5. n \in Block(lines, p)
        BY <4>3, <4>4, SaysBlock DEF Writing
      <4>6. QED
        BY <1>5, <4>1, <4>5
    <3>3. QED
      BY <1>2, <1>3, <3>1, <3>2
  <2>2. p \in 1 .. Len(text) /\ text[p].key = "image" /\ text[p].indent = 0
    BY <1>2, <1>3
  <2>3. m \in Says(text, text[m].key)
    BY <1>3, <2>1, <2>2, SaysInBlock
  <2>4. QED
    BY <1>9, <2>3
<1>10. TwoLevel(text)
  <2>1. text[p].indent = 0 /\ ~text[p].remark
    BY <1>3, <1>4
  <2>2. WellFormed(text)
    BY WrittenWellFormed
  <2>3. QED
    BY <1>7, <1>8, <1>9, <2>1, <2>2 DEF TwoLevel
<1>11. QED
  BY <1>2, <1>3, <1>7, <1>10 DEF Ready

\* The lines that say a field are those that did, and the new line.
LEMMA WrittenSays ==
    ASSUME NEW lines, NEW p, NEW text, NEW k, NEW field, NEW value, Writing(lines, p, text, k, field, value),
           NEW g \in Fields
    PROVE  /\ \A i \in 1 .. Len(lines) : At(p, k, i) \in Says(text, g) <=> i \in Says(lines, g)
           /\ k = 1 => (p + 1 \in Says(text, g) <=> g = field)
<1>1. Says(lines, g) = {i \in Block(lines, p) : lines[i].key = g}
  BY SaysBlock DEF Writing
<1>2. Says(text, g) = {i \in Block(text, p) : text[i].key = g}
  BY WrittenReady, SaysBlock
<1>3. \A i \in 1 .. Len(lines) : text[At(p, k, i)].key = lines[i].key
  BY WritingFacts
<1>4. k = 1 => text[p + 1].key = field
  BY WritingFacts
<1>5. \A i \in 1 .. Len(lines) : At(p, k, i) \in Block(text, p) <=> i \in Block(lines, p)
  BY WrittenBlock
<1>6. k = 1 => p + 1 \in Block(text, p)
  BY WrittenBlock
<1>7. QED
  BY <1>1, <1>2, <1>3, <1>4, <1>5, <1>6

\* What Helm reads of the field is the value.
Reading(lines, field, value) == \E i \in DOMAIN lines : Says(lines, field) = {i} /\ lines[i].value = value

LEMMA WrittenIsRead ==
    ASSUME NEW lines, NEW p, NEW text, NEW k, NEW field, NEW value, Writing(lines, p, text, k, field, value)
    PROVE  /\ Reading(text, field, value)
           /\ \A g \in Fields \ {field} : /\ Says(lines, g) = {} => Says(text, g) = {}
                                          /\ \A v : Reading(lines, g, v) => Reading(text, g, v)
           /\ \A g \in Fields : Remarked(lines, g) \subseteq Remarked(text, g)
<1> DEFINE N == Len(lines)
<1>1. /\ N \in Nat /\ k \in 0 .. 1 /\ p \in 1 .. N /\ Len(text) = N + k
      /\ DOMAIN text = 1 .. N + k /\ DOMAIN lines = 1 .. N /\ field \in Fields
      /\ k = 1 => text[p + 1].value = value
  BY WritingFacts
<1>2. /\ \A m \in 1 .. N : At(p, k, m) \in 1 .. N + k
      /\ \A m \in 1 .. N + k : (k = 1 /\ m = p + 1) \/ \E n \in 1 .. N : m = At(p, k, n)
  BY WritingGivesLines DEF WrittenLines
<1>3. ASSUME NEW g \in Fields
      PROVE  /\ \A i \in 1 .. N : At(p, k, i) \in Says(text, g) <=> i \in Says(lines, g)
             /\ k = 1 => (p + 1 \in Says(text, g) <=> g = field)
             /\ Says(text, g) \subseteq 1 .. N + k /\ Says(lines, g) \subseteq 1 .. N
  <2>1. \A i \in 1 .. N : At(p, k, i) \in Says(text, g) <=> i \in Says(lines, g)
    BY WrittenSays
  <2>2. k = 1 => (p + 1 \in Says(text, g) <=> g = field)
    BY WrittenSays
  <2>3. Says(text, g) \subseteq 1 .. N + k /\ Says(lines, g) \subseteq 1 .. N
    BY <1>1 DEF Says
  <2>4. QED
    BY <2>1, <2>2, <2>3
<1>4. Reading(text, field, value)
  <2>1. CASE k = 0
    <3>1. PICK c \in Block(lines, p) : lines[c].key = field
      BY <2>1 DEF Writing, Wrote
    <3>2. Says(lines, field) = {i \in Block(lines, p) : lines[i].key = field}
      BY <1>1, SaysBlock DEF Writing
    <3>3. Says(lines, field) = {c} /\ c \in 1 .. N
      <4>1. \A i \in Says(lines, field) : i = c
        <5>1. \A i, j \in Block(lines, p) : lines[i].key = lines[j].key => i = j
          BY ReadyBlock DEF Writing
        <5>2. QED
          BY <3>1, <3>2, <5>1
      <4>2. c \in Says(lines, field)
        BY <3>1, <3>2
      <4>3. QED
        BY <1>1, <1>3, <4>1, <4>2
    <3>4. Says(text, field) = {At(p, k, c)}
      <4>1. At(p, k, c) \in Says(text, field)
        BY <1>1, <1>3, <3>3
      <4>2. ASSUME NEW m \in Says(text, field)
            PROVE  m = At(p, k, c)
        <5>1. PICK n \in 1 .. N : m = At(p, k, n)
          BY <1>1, <1>2, <1>3, <2>1
        <5>2. n = c
          BY <1>1, <1>3, <3>3, <5>1
        <5>3. QED
          BY <5>1, <5>2
      <4>3. QED
        BY <4>1, <4>2
    <3>5. text[At(p, k, c)].value = value
      BY <3>1, <3>3 DEF Writing, Wrote
    <3>6. QED
      BY <1>1, <1>2, <3>3, <3>4, <3>5 DEF Reading
  <2>2. CASE k = 1
    <3>1. Says(lines, field) = {}
      <4>1. Says(lines, field) = {i \in Block(lines, p) : lines[i].key = field}
        BY <1>1, SaysBlock DEF Writing
      <4>2. \A i \in Block(lines, p) : lines[i].key # field
        BY <2>2 DEF Writing, Wrote
      <4>3. QED
        BY <4>1, <4>2
    <3>2. Says(text, field) = {p + 1}
      <4>1. p + 1 \in Says(text, field)
        BY <1>1, <1>3, <2>2
      <4>2. ASSUME NEW m \in Says(text, field)
            PROVE  m = p + 1
        BY <1>1, <1>2, <1>3, <3>1
      <4>3. QED
        BY <4>1, <4>2
    <3>3. p + 1 \in DOMAIN text
      BY <1>1, <2>2
    <3>4. QED
      BY <1>1, <2>2, <3>2, <3>3 DEF Reading
  <2>3. QED
    BY <1>1, <2>1, <2>2
<1>5. ASSUME NEW g \in Fields \ {field}, Says(lines, g) = {}
      PROVE  Says(text, g) = {}
  BY <1>1, <1>2, <1>3, <1>5
<1>6. ASSUME NEW g \in Fields \ {field}, NEW v, Reading(lines, g, v)
      PROVE  Reading(text, g, v)
  <2>1. PICK i \in 1 .. N : Says(lines, g) = {i} /\ lines[i].value = v
    BY <1>1, <1>6 DEF Reading
  <2>2. Says(text, g) = {At(p, k, i)}
    <3>1. At(p, k, i) \in Says(text, g)
      BY <1>3, <2>1
    <3>2. ASSUME NEW m \in Says(text, g)
          PROVE  m = At(p, k, i)
      BY <1>1, <1>2, <1>3, <2>1
    <3>3. QED
      BY <3>1, <3>2
  <2>3. lines[i].key = g
    BY <2>1 DEF Says
  <2>4. text[At(p, k, i)] = lines[i]
    BY <2>3 DEF Writing, Wrote
  <2>5. QED
    BY <1>1, <1>2, <2>1, <2>2, <2>4 DEF Reading
<1>7. ASSUME NEW g \in Fields, NEW r \in Remarked(lines, g)
      PROVE  r \in Remarked(text, g)
  <2>1. PICK i \in Says(lines, g) : r = lines[i].remark
    BY <1>7 DEF Remarked
  <2>2. i \in 1 .. N /\ At(p, k, i) \in Says(text, g)
    BY <1>3, <2>1
  <2>3. text[At(p, k, i)].remark = lines[i].remark
    BY <2>2 DEF Writing, Wrote
  <2>4. QED
    BY <2>1, <2>2, <2>3 DEF Remarked
<1>8. QED
  BY <1>4, <1>5, <1>6, <1>7

-----------------------------------------------------------------------------
(* The lines but those of the three fields.                                *)

\* The table behind Rest.
RestTable(lines, rest) ==
    /\ rest[0] = <<>>
    /\ \A n \in 1 .. Len(lines) : rest[n] = IF IsField(lines, n) THEN rest[n - 1] ELSE Append(rest[n - 1], lines[n])

LEMMA RestHasTable ==
    ASSUME NEW lines \in Seq(Lines)
    PROVE  \E rest : RestTable(lines, rest) /\ Rest(lines) = rest[Len(lines)]
<1> DEFINE N == Len(lines)
           step == [n \in 1 .. N |-> [s \in Seq(Lines) |-> IF IsField(lines, n) THEN s ELSE Append(s, lines[n])]]
           Is(rest) == rest = [n \in 0 .. N |-> IF n = 0 THEN <<>>
                                                ELSE IF IsField(lines, n) THEN rest[n - 1]
                                                ELSE Append(rest[n - 1], lines[n])]
<1>1. N \in Nat /\ \A n \in 1 .. N : lines[n] \in Lines
  BY LineFacts
<1>2. step \in [1 .. N -> [Seq(Lines) -> Seq(Lines)]]
  <2>1. ASSUME NEW n \in 1 .. N, NEW s \in Seq(Lines)
        PROVE  (IF IsField(lines, n) THEN s ELSE Append(s, lines[n])) \in Seq(Lines)
    BY <1>1
  <2>2. QED
    BY <2>1
<1>3. <<>> \in Seq(Lines)
  OBVIOUS
<1>4. \A n \in 1 .. N, s \in Seq(Lines) : step[n][s] = IF IsField(lines, n) THEN s ELSE Append(s, lines[n])
  OBVIOUS
<1> HIDE DEF step, N
<1>5. PICK g \in [0 .. N -> Seq(Lines)] : g[0] = <<>> /\ \A n \in 1 .. N : g[n] = step[n][g[n - 1]]
  <2> DEFINE S == Seq(Lines)
             none == <<>>
  <2>1. step \in [1 .. N -> [S -> S]] /\ none \in S /\ N \in Nat
    BY <1>1, <1>2, <1>3
  <2> HIDE DEF S, none
  <2>2. \E g \in [0 .. N -> S] : StepsTo(N, none, step, g)
    BY <2>1, StepTable
  <2>3. QED
    BY <2>2 DEF S, none, StepsTo
<1>6. ASSUME NEW n \in 1 .. N
      PROVE  g[n] = IF IsField(lines, n) THEN g[n - 1] ELSE Append(g[n - 1], lines[n])
  <2>1. n - 1 \in 0 .. N
    BY <1>1
  <2>2. g[n - 1] \in Seq(Lines)
    BY <2>1
  <2>3. QED
    BY <1>4, <1>5, <2>2
<1>7. Is(g)
  <2>1. \A n \in 0 .. N : n = 0 \/ n \in 1 .. N
    BY <1>1
  <2>2. 0 \notin 1 .. N
    BY <1>1
  <2>3. \A n \in 0 .. N : g[n] = IF n = 0 THEN <<>>
                                 ELSE IF IsField(lines, n) THEN g[n - 1] ELSE Append(g[n - 1], lines[n])
    BY <1>5, <1>6, <2>1, <2>2
  <2>4. QED
    BY <2>3
<1> DEFINE rest == CHOOSE h : Is(h)
<1>8. Is(rest)
  BY <1>7
<1>9. Rest(lines) = rest[N]
  BY DEF Rest, N
<1>10. rest[0] = <<>>
  <2>1. 0 \in 0 .. N
    BY <1>1
  <2>2. QED
    BY <1>8, <2>1
<1>11. \A n \in 1 .. N : rest[n] = IF IsField(lines, n) THEN rest[n - 1] ELSE Append(rest[n - 1], lines[n])
  <2>1. \A n \in 1 .. N : n \in 0 .. N /\ n # 0
    BY <1>1
  <2>2. QED
    BY <1>8, <2>1
<1> HIDE DEF rest
<1>12. RestTable(lines, rest)
  BY <1>10, <1>11 DEF RestTable, N
<1>13. QED
  BY <1>9, <1>12 DEF N

LEMMA RestRow ==
    ASSUME NEW lines, NEW rest, RestTable(lines, rest), NEW n \in 1 .. Len(lines)
    PROVE  /\ IsField(lines, n) => rest[n] = rest[n - 1]
           /\ ~IsField(lines, n) => rest[n] = Append(rest[n - 1], lines[n])
BY DEF RestTable

LEMMA RestTyped ==
    ASSUME NEW lines \in Seq(Lines), NEW rest, RestTable(lines, rest), NEW n \in 0 .. Len(lines)
    PROVE  rest[n] \in Seq(Lines)
<1> DEFINE Bad == {m \in 0 .. Len(lines) : rest[m] \notin Seq(Lines)}
<1>1. Len(lines) \in Nat /\ \A m \in 1 .. Len(lines) : lines[m] \in Lines
  BY LineFacts
<1>2. SUFFICES ASSUME Bad # {} PROVE FALSE
  OBVIOUS
<1>3. PICK m \in Bad : \A y \in Bad : m <= y
  <2>1. Bad \subseteq Nat
    BY <1>1
  <2> HIDE DEF Bad
  <2>2. QED
    BY <1>2, <2>1, LeastNatural
<1>4. m # 0
  <2>1. rest[0] \in Seq(Lines)
    BY DEF RestTable
  <2>2. QED
    BY <1>3, <2>1
<1>5. m \in 1 .. Len(lines) /\ m - 1 \in 0 .. Len(lines) /\ ~ (m <= m - 1)
  BY <1>1, <1>4
<1>6. rest[m - 1] \in Seq(Lines)
  BY <1>3, <1>5
<1>7. rest[m] = rest[m - 1] \/ rest[m] = Append(rest[m - 1], lines[m])
  BY <1>5, RestRow
<1>8. Append(rest[m - 1], lines[m]) \in Seq(Lines)
  BY <1>1, <1>5, <1>6
<1>9. QED
  BY <1>6, <1>7, <1>8

\* Two files whose lines agree from one place to another, k lines apart in the
\* second, have the same rest there if they have it before.
Aligned(a, b, k, lo, hi) ==
    /\ a \in Seq(Lines) /\ b \in Seq(Lines)
    /\ k \in Nat /\ lo \in Nat /\ hi \in Nat /\ lo <= hi /\ hi <= Len(a) /\ hi + k <= Len(b)
    /\ \A i \in lo + 1 .. hi : IF IsField(a, i) THEN IsField(b, i + k) ELSE ~IsField(b, i + k) /\ b[i + k] = a[i]

LEMMA RestShifts ==
    ASSUME NEW a, NEW g, RestTable(a, g), NEW b, NEW h, RestTable(b, h),
           NEW k, NEW lo, NEW hi, Aligned(a, b, k, lo, hi), h[lo + k] = g[lo]
    PROVE  h[hi + k] = g[hi]
<1> DEFINE Bad == {m \in lo .. hi : h[m + k] # g[m]}
<1>1. /\ Len(a) \in Nat /\ Len(b) \in Nat
      /\ k \in Nat /\ lo \in Nat /\ hi \in Nat /\ lo <= hi /\ hi <= Len(a) /\ hi + k <= Len(b)
      /\ \A i \in lo + 1 .. hi : IF IsField(a, i) THEN IsField(b, i + k) ELSE ~IsField(b, i + k) /\ b[i + k] = a[i]
  BY LineFacts DEF Aligned
<1>2. SUFFICES ASSUME Bad # {} PROVE FALSE
  <2>1. hi \in lo .. hi
    BY <1>1
  <2>2. QED
    BY <2>1
<1>3. PICK m \in Bad : \A y \in Bad : m <= y
  <2>1. Bad \subseteq Nat
    BY <1>1
  <2> HIDE DEF Bad
  <2>2. QED
    BY <1>2, <2>1, LeastNatural
<1>4. m # lo /\ m \in lo .. hi /\ h[m + k] # g[m]
  BY <1>3
<1>5. m \in lo + 1 .. hi /\ m - 1 \in lo .. hi /\ ~ (m <= m - 1) /\ m \in 1 .. Len(a) /\ m + k \in 1 .. Len(b)
      /\ (m + k) - 1 = (m - 1) + k
  BY <1>1, <1>4
<1>6. h[(m + k) - 1] = g[m - 1]
  <2>1. m - 1 \notin Bad
    BY <1>3, <1>5
  <2>2. h[(m - 1) + k] = g[m - 1]
    BY <1>5, <2>1
  <2>3. QED
    BY <1>5, <2>2
<1> HIDE DEF Bad
<1>7. CASE IsField(a, m)
  <2>1. IsField(b, m + k)
    BY <1>1, <1>5, <1>7
  <2>2. g[m] = g[m - 1]
    BY <1>5, <1>7, RestRow
  <2>3. h[m + k] = h[(m + k) - 1]
    BY <1>5, <2>1, RestRow
  <2>4. QED
    BY <1>4, <1>6, <2>2, <2>3
<1>8. CASE ~IsField(a, m)
  <2>1. ~IsField(b, m + k) /\ b[m + k] = a[m]
    BY <1>1, <1>5, <1>8
  <2>2. g[m] = Append(g[m - 1], a[m])
    BY <1>5, <1>8, RestRow
  <2>3. h[m + k] = Append(h[(m + k) - 1], b[m + k])
    BY <1>5, <2>1, RestRow
  <2>4. QED
    BY <1>4, <1>6, <2>1, <2>2, <2>3
<1>9. QED
  BY <1>7, <1>8

\* A written field leaves the rest.
LEMMA WrittenRest ==
    ASSUME NEW lines, NEW p, NEW text, NEW k, NEW field, NEW value, Writing(lines, p, text, k, field, value)
    PROVE  Rest(text) = Rest(lines)
<1> DEFINE N == Len(lines)
<1>1. N \in Nat /\ p \in 1 .. N /\ k \in 0 .. 1 /\ Len(text) = N + k /\ lines \in Seq(Lines) /\ text \in Seq(Lines)
      /\ field \in Fields
  BY WritingFacts
<1>2. PICK g : RestTable(lines, g) /\ Rest(lines) = g[N]
  BY <1>1, RestHasTable
<1>3. PICK h : RestTable(text, h) /\ Rest(text) = h[N + k]
  BY <1>1, RestHasTable
<1>4. ASSUME NEW i \in 1 .. N
      PROVE  IF IsField(lines, i) THEN IsField(text, At(p, k, i)) ELSE ~IsField(text, At(p, k, i)) /\ text[At(p, k, i)] = lines[i]
  <2>1. \A f \in Fields : At(p, k, i) \in Says(text, f) <=> i \in Says(lines, f)
    BY WrittenSays
  <2>2. ASSUME ~IsField(lines, i)
        PROVE  text[At(p, k, i)] = lines[i]
    <3>1. i \notin Says(lines, field)
      BY <1>1, <2>2 DEF IsField
    <3>2. Says(lines, field) = {j \in Block(lines, p) : lines[j].key = field}
      BY <1>1, SaysBlock DEF Writing
    <3>3. ~ (i \in Block(lines, p) /\ lines[i].key = field)
      BY <3>1, <3>2
    <3>4. QED
      BY <3>3 DEF Writing, Wrote
  <2>3. QED
    BY <2>1, <2>2 DEF IsField
<1>5. h[p] = g[p]
  <2>1. h[0 + 0] = g[0]
    BY <1>2, <1>3 DEF RestTable
  <2>2. \A i \in 0 + 1 .. p : IF IsField(lines, i) THEN IsField(text, i + 0) ELSE ~IsField(text, i + 0) /\ text[i + 0] = lines[i]
    <3>1. ASSUME NEW i \in 0 + 1 .. p
          PROVE  IF IsField(lines, i) THEN IsField(text, i + 0) ELSE ~IsField(text, i + 0) /\ text[i + 0] = lines[i]
      <4>1. i \in 1 .. N /\ At(p, k, i) = i /\ i + 0 = i
        BY <1>1 DEF At
      <4>2. QED
        BY <1>4, <4>1
    <3>2. QED
      BY <3>1
  <2>3. h[p + 0] = g[p]
    <3>1. Aligned(lines, text, 0, 0, p)
      <4>1. 0 \in Nat /\ p \in Nat /\ 0 <= p /\ p <= Len(lines) /\ p + 0 <= Len(text)
        BY <1>1
      <4>2. QED
        BY <1>1, <2>2, <4>1 DEF Aligned
    <3>2. QED
      BY <1>2, <1>3, <2>1, <3>1, RestShifts
  <2>4. QED
    BY <1>1, <2>3
<1>6. h[p + k] = g[p]
  <2>1. CASE k = 0
    BY <1>1, <1>5, <2>1
  <2>2. CASE k = 1
    <3>1. p + 1 \in Says(text, field)
      BY <1>1, <2>2, WrittenSays
    <3>2. IsField(text, p + 1) /\ p + 1 \in 1 .. Len(text) /\ (p + 1) - 1 = p
      BY <1>1, <2>2, <3>1 DEF IsField
    <3>3. h[p + 1] = h[(p + 1) - 1]
      BY <1>3, <3>2, RestRow
    <3>4. QED
      BY <1>5, <2>2, <3>2, <3>3
  <2>3. QED
    BY <1>1, <2>1, <2>2
<1>7. h[N + k] = g[N]
  <2>1. \A i \in p + 1 .. N : IF IsField(lines, i) THEN IsField(text, i + k) ELSE ~IsField(text, i + k) /\ text[i + k] = lines[i]
    <3>1. ASSUME NEW i \in p + 1 .. N
          PROVE  IF IsField(lines, i) THEN IsField(text, i + k) ELSE ~IsField(text, i + k) /\ text[i + k] = lines[i]
      <4>1. i \in 1 .. N /\ At(p, k, i) = i + k
        BY <1>1 DEF At
      <4>2. QED
        BY <1>4, <4>1
    <3>2. QED
      BY <3>1
  <2>2. Aligned(lines, text, k, p, N)
    <3>1. k \in Nat /\ p \in Nat /\ N \in Nat /\ p <= N /\ N <= Len(lines) /\ N + k <= Len(text)
      BY <1>1
    <3>2. QED
      BY <1>1, <2>1, <3>1 DEF Aligned
  <2>3. QED
    BY <1>2, <1>3, <1>6, <2>2, RestShifts
<1>8. QED
  BY <1>2, <1>3, <1>7

-----------------------------------------------------------------------------
(* set_field                                                               *)

\* In a block of one level, the line that is found is the one Helm reads.
LEMMA FoundInBlock ==
    ASSUME NEW lines, NEW p, Ready(lines, p), NEW field \in Fields
    PROVE  /\ find_key(lines, p, field) = 0 => \A i \in Block(lines, p) : lines[i].key # field
           /\ find_key(lines, p, field) # 0 =>
                 /\ find_key(lines, p, field) \in Block(lines, p) /\ lines[find_key(lines, p, field)].key = field
                 /\ Says(lines, field) = {find_key(lines, p, field)}
<1> DEFINE c == find_key(lines, p, field)
           Inside == {i \in p + 1 .. Len(lines) : lines[i].key = field /\ lines[i].indent > 0 /\ InBlock(lines, p, i)}
<1>1. p \in 1 .. Len(lines) /\ Len(lines) \in Nat /\ field # Remark
  BY LineFacts, FieldFacts DEF Ready
<1>2. /\ \A i \in Block(lines, p) : lines[i].indent = 2
      /\ \A i, j \in Block(lines, p) : lines[i].key = lines[j].key => i = j
  BY ReadyBlock
<1>3. \A i : i \in Inside <=> i \in Block(lines, p) /\ lines[i].key = field
  <2>1. ASSUME NEW i \in Inside
        PROVE  i \in Block(lines, p) /\ lines[i].key = field
    BY <1>1 DEF Block
  <2>2. ASSUME NEW i \in Block(lines, p), lines[i].key = field
        PROVE  i \in Inside
    <3>1. lines[i].indent > 0
      BY <1>2
    <3>2. i \in p + 1 .. Len(lines) /\ InBlock(lines, p, i)
      BY <1>1 DEF Block
    <3>3. QED
      BY <2>2, <3>1, <3>2
  <2>3. QED
    BY <2>1, <2>2
<1>4. c = IF Inside = {} THEN 0 ELSE Min(Inside)
  BY DEF find_key
<1>5. Inside # {} => Min(Inside) \in Inside
  <2>1. Inside \subseteq 1 .. Len(lines)
    BY <1>1
  <2> HIDE DEF Inside
  <2>2. QED
    BY <1>1, <2>1, MinOfBounded
<1>6. \A i \in Inside : i # 0
  BY <1>1
<1> HIDE DEF Inside, c
<1>7. ASSUME c = 0, NEW i \in Block(lines, p)
      PROVE  lines[i].key # field
  BY <1>3, <1>4, <1>5, <1>6, <1>7
<1>8. ASSUME c # 0
      PROVE  c \in Block(lines, p) /\ lines[c].key = field /\ Says(lines, field) = {c}
  <2>1. c \in Block(lines, p) /\ lines[c].key = field
    BY <1>3, <1>4, <1>5, <1>8
  <2>2. Says(lines, field) = {i \in Block(lines, p) : lines[i].key = field}
    BY SaysBlock
  <2>3. \A i \in Says(lines, field) : i = c
    BY <1>2, <2>1, <2>2
  <2>4. QED
    BY <2>1, <2>2, <2>3
<1>9. QED
  BY <1>7, <1>8 DEF c

LEMMA SetFieldOnReady ==
    ASSUME NEW lines, NEW p, Ready(lines, p), NEW field \in Fields, NEW value \in Texts
    PROVE  set_field(lines, field, value) =
             LET c == find_key(lines, p, field)
             IN  IF c = 0 THEN InsertAt(lines, p + 1, Line(2, field, value))
                 ELSE IF lines[c].value = value THEN lines ELSE [lines EXCEPT ![c].value = value]
<1>1. ParentIndex(lines) = p /\ p # 0 /\ lines[p].value = Null
  BY LineFacts DEF Ready
<1>2. lines[p].indent = 0 /\ lines[p].remark = FALSE
  BY ReadyBlock
<1>3. Promoted(lines, p) = lines
  BY <1>1, <1>2 DEF Promoted
<1>4. Child(lines[p], field, value) = Line(2, field, value)
  BY <1>2 DEF Child
<1>5. QED
  BY <1>1, <1>3, <1>4 DEF set_field

LEMMA SetFieldInserts ==
    ASSUME NEW lines, NEW p, Ready(lines, p), NEW field \in Fields, NEW value \in Texts,
           \A i \in Block(lines, p) : lines[i].key # field
    PROVE  Writing(lines, p, InsertAt(lines, p + 1, Line(2, field, value)), 1, field, value)
<1> DEFINE new == Line(2, field, value)
           text == InsertAt(lines, p + 1, new)
<1>1. lines \in Seq(Lines) /\ p \in 1 .. Len(lines) /\ Len(lines) \in Nat /\ p \in 0 .. Len(lines)
  BY LineFacts DEF Ready
<1>2. new \in Lines
  BY FieldFacts, NewLine
<1> HIDE DEF new
<1>3. /\ text \in Seq(Lines) /\ Len(text) = Len(lines) + 1
      /\ \A i \in 1 .. p : text[i] = lines[i]
      /\ text[p + 1] = new
      /\ \A i \in p + 1 .. Len(lines) : text[i + 1] = lines[i]
  BY <1>1, <1>2, Inserted
<1> HIDE DEF text
<1>4. ASSUME NEW i \in 1 .. Len(lines)
      PROVE  text[At(p, 1, i)] = lines[i]
  <2>1. CASE i <= p
    <3>1. i \in 1 .. p /\ At(p, 1, i) = i
      BY <1>1, <2>1 DEF At
    <3>2. QED
      BY <1>3, <3>1
  <2>2. CASE ~ (i <= p)
    <3>1. i \in p + 1 .. Len(lines) /\ At(p, 1, i) = i + 1
      BY <1>1, <2>2 DEF At
    <3>2. QED
      BY <1>3, <3>1
  <2>3. QED
    BY <2>1, <2>2
<1>5. Wrote(lines, p, text, 1, field, value)
  BY <1>3, <1>4 DEF Wrote, new
<1>6. QED
  BY <1>5 DEF Writing, text, new

LEMMA SetFieldReplaces ==
    ASSUME NEW lines, NEW p, Ready(lines, p), NEW field \in Fields, NEW value \in Texts,
           NEW c \in Block(lines, p), lines[c].key = field
    PROVE  Writing(lines, p, [lines EXCEPT ![c].value = value], 0, field, value)
<1> DEFINE text == [lines EXCEPT ![c].value = value]
<1>1. /\ lines \in Seq(Lines) /\ p \in 1 .. Len(lines) /\ Len(lines) \in Nat /\ c \in 1 .. Len(lines)
      /\ \A i \in 1 .. Len(lines) : lines[i] \in Lines
  BY LineFacts DEF Ready, Block
<1>2. [lines[c] EXCEPT !.value = value] \in Lines
  BY <1>1 DEF Lines
<1>3. text \in Seq(Lines) /\ Len(text) = Len(lines)
  BY <1>1, <1>2, ExceptSeq
<1>4. \A i \in 1 .. Len(lines) : text[i] = IF i = c THEN [lines[c] EXCEPT !.value = value] ELSE lines[i]
  BY <1>1
<1>5. /\ [lines[c] EXCEPT !.value = value].indent = lines[c].indent
      /\ [lines[c] EXCEPT !.value = value].key = lines[c].key
      /\ [lines[c] EXCEPT !.value = value].remark = lines[c].remark
      /\ [lines[c] EXCEPT !.value = value].value = value
  BY <1>1 DEF Lines
<1> HIDE DEF text
<1>6. \A i \in Block(lines, p) : lines[i].key = field => i = c
  BY ReadyBlock
<1>7. ASSUME NEW i \in 1 .. Len(lines)
      PROVE  /\ text[i].indent = lines[i].indent /\ text[i].key = lines[i].key /\ text[i].remark = lines[i].remark
             /\ IF i \in Block(lines, p) /\ lines[i].key = field THEN text[i].value = value ELSE text[i] = lines[i]
  BY <1>4, <1>5, <1>6
<1>8. \A i \in 1 .. Len(lines) : At(p, 0, i) = i
  BY DEF At
<1>9. Wrote(lines, p, text, 0, field, value)
  BY <1>1, <1>3, <1>7, <1>8 DEF Wrote
<1>10. QED
  BY <1>9 DEF Writing, text

\* The field reads the value, what the others read and the rest stay.
SetsField(lines, text, field, value) ==
    /\ Reading(text, field, value)
    /\ \A g \in Fields \ {field} : /\ Says(lines, g) = {} => Says(text, g) = {}
                                   /\ \A v : Reading(lines, g, v) => Reading(text, g, v)
    /\ \A g \in Fields : Remarked(lines, g) \subseteq Remarked(text, g)
    /\ Rest(text) = Rest(lines)

LEMMA SetField ==
    ASSUME NEW lines, NEW p, Ready(lines, p), NEW field \in Fields, NEW value \in Texts
    PROVE  /\ Ready(set_field(lines, field, value), p)
           /\ SetsField(lines, set_field(lines, field, value), field, value)
<1> DEFINE text == set_field(lines, field, value)
           c == find_key(lines, p, field)
<1>1. text = IF c = 0 THEN InsertAt(lines, p + 1, Line(2, field, value))
             ELSE IF lines[c].value = value THEN lines ELSE [lines EXCEPT ![c].value = value]
  BY SetFieldOnReady
<1>2. /\ c = 0 => \A i \in Block(lines, p) : lines[i].key # field
      /\ c # 0 => c \in Block(lines, p) /\ lines[c].key = field /\ Says(lines, field) = {c}
  BY FoundInBlock
<1> HIDE DEF text, c
<1>3. ASSUME NEW k, Writing(lines, p, text, k, field, value)
      PROVE  Ready(text, p) /\ SetsField(lines, text, field, value)
  <2>1. Ready(text, p)
    BY <1>3, WrittenReady
  <2>2. Rest(text) = Rest(lines)
    BY <1>3, WrittenRest
  <2>3. /\ Reading(text, field, value)
        /\ \A g \in Fields \ {field} : /\ Says(lines, g) = {} => Says(text, g) = {}
                                       /\ \A v : Reading(lines, g, v) => Reading(text, g, v)
        /\ \A g \in Fields : Remarked(lines, g) \subseteq Remarked(text, g)
    BY <1>3, WrittenIsRead
  <2>4. QED
    BY <2>1, <2>2, <2>3 DEF SetsField
<1>4. CASE c = 0
  <2>1. Writing(lines, p, text, 1, field, value)
    BY <1>1, <1>2, <1>4, SetFieldInserts
  <2>2. QED
    BY <1>3, <2>1 DEF text
<1>5. CASE c # 0 /\ lines[c].value = value
  <2>1. text = lines
    BY <1>1, <1>5
  <2>2. c \in DOMAIN lines
    BY <1>2, <1>5, LineFacts DEF Ready, Block
  <2>3. Reading(lines, field, value)
    BY <1>2, <1>5, <2>2 DEF Reading
  <2>4. QED
    BY <2>1, <2>3 DEF SetsField, text
<1>6. CASE c # 0 /\ lines[c].value # value
  <2>1. Writing(lines, p, text, 0, field, value)
    BY <1>1, <1>2, <1>6, SetFieldReplaces
  <2>2. QED
    BY <1>3, <2>1 DEF text
<1>7. QED
  BY <1>4, <1>5, <1>6

\* A field that reads the value already is left alone.
LEMMA SetFieldAgain ==
    ASSUME NEW lines, NEW p, Ready(lines, p), NEW field \in Fields, NEW value \in Texts, Reading(lines, field, value)
    PROVE  set_field(lines, field, value) = lines
<1> DEFINE c == find_key(lines, p, field)
<1>1. PICK i \in DOMAIN lines : Says(lines, field) = {i} /\ lines[i].value = value
  BY DEF Reading
<1>2. c # 0
  <2>1. Says(lines, field) = {j \in Block(lines, p) : lines[j].key = field}
    BY SaysBlock
  <2>2. i \in Block(lines, p) /\ lines[i].key = field
    BY <1>1, <2>1
  <2>3. QED
    BY <2>2, FoundInBlock
<1>3. Says(lines, field) = {c}
  BY <1>2, FoundInBlock
<1>4. c = i
  BY <1>1, <1>3
<1> HIDE DEF c
<1>5. set_field(lines, field, value) = IF c = 0 THEN InsertAt(lines, p + 1, Line(2, field, value))
             ELSE IF lines[c].value = value THEN lines ELSE [lines EXCEPT ![c].value = value]
  BY SetFieldOnReady DEF c
<1>6. QED
  BY <1>1, <1>2, <1>4, <1>5

-----------------------------------------------------------------------------
(* A block is appended to a file that has none.                            *)

\* Nothing of the image is in the file.
Without(lines) ==
    /\ lines \in Seq(Lines) /\ WellFormed(lines)
    /\ \A i \in 1 .. Len(lines) : lines[i].key # "image" /\ lines[i].key # "digest"

LEMMA NeedsBlock ==
    ASSUME NEW lines \in Seq(Lines), TwoLevel(lines), classify(lines) = "needs-block"
    PROVE  Without(lines)
<1> DEFINE top == {i \in DOMAIN lines : lines[i].key = "image" /\ lines[i].indent = 0}
           opening == {i \in top : lines[i].value = Null}
           after == {i \in DOMAIN lines : i > Min(opening) /\ lines[i].key # Remark}
<1>1. DOMAIN lines = 1 .. Len(lines) /\ Len(lines) \in Nat
  BY LineFacts
<1>2. top = {}
  <2>1. classify(lines) = CASE opening = {} /\ top # {} -> "malformed"
          [] opening = {} /\ top = {} ->
                IF \E i \in DOMAIN lines : lines[i].key \in {"repository", "tag"} THEN "malformed" ELSE "needs-block"
          [] OTHER -> IF after = {} \/ lines[Min(after)].indent = 0 THEN "malformed" ELSE "ok"
    BY DEF classify
  <2> HIDE DEF top, opening, after
  <2>2. QED
    BY <2>1
<1>3. ParentIndex(lines) = 0
  <2>1. SUFFICES ASSUME ParentIndex(lines) # 0 PROVE FALSE
    OBVIOUS
  <2>2. ParentIndex(lines) \in DOMAIN lines /\ lines[ParentIndex(lines)].key = "image"
    BY <1>1, <2>1, ImageIsFirst
  <2>3. lines[ParentIndex(lines)].indent = 0
    BY <2>1 DEF TwoLevel
  <2>4. QED
    BY <1>2, <2>2, <2>3
<1>4. \A i \in 1 .. Len(lines) : lines[i].key # "image"
  BY <1>3, ImageIsFirst
<1>5. ASSUME NEW i \in 1 .. Len(lines), lines[i].key = "digest"
      PROVE  FALSE
  <2>1. i \in Says(lines, "digest")
    BY <1>1, <1>5 DEF TwoLevel
  <2>2. \E q \in 1 .. i - 1 : lines[q].key = "image"
    BY <2>1 DEF Says
  <2>3. QED
    BY <1>1, <1>4, <2>2
<1>6. WellFormed(lines)
  BY DEF TwoLevel
<1>7. QED
  BY <1>4, <1>5, <1>6 DEF Without

LEMMA WithoutSays ==
    ASSUME NEW lines, Without(lines), NEW field
    PROVE  Says(lines, field) = {}
<1>1. DOMAIN lines = 1 .. Len(lines) /\ Len(lines) \in Nat
  BY LineFacts DEF Without
<1>2. ASSUME NEW i \in Says(lines, field)
      PROVE  FALSE
  <2>1. i \in 1 .. Len(lines) /\ \E q \in 1 .. i - 1 : lines[q].key = "image"
    BY <1>1 DEF Says
  <2>2. QED
    BY <1>1, <2>1 DEF Without
<1>3. QED
  BY <1>2

\* The block starts at the line h, below the banner if there is one to add.
Appended(lines, text, h, image) ==
    /\ text \in Seq(Lines) /\ h \in Len(lines) + 1 .. Len(lines) + 2 /\ Len(text) = h + 3
    /\ \A i \in 1 .. Len(lines) : text[i] = lines[i]
    /\ \A i \in Len(lines) + 1 .. h - 1 : text[i] = Banner
    /\ text[h] = Line(0, "image", Null) /\ text[h + 1] = Line(2, "repository", image.repository)
    /\ text[h + 2] = Line(2, "tag", image.tag) /\ text[h + 3] = Line(2, "pullPolicy", "IfNotPresent")

LEMMA BlockTypes ==
    ASSUME NEW image \in Images
    PROVE  /\ NewBlock(image) \in Seq(Lines) /\ Len(NewBlock(image)) = 4
           /\ NewBlock(image)[1] = Line(0, "image", Null)
           /\ NewBlock(image)[2] = Line(2, "repository", image.repository)
           /\ NewBlock(image)[3] = Line(2, "tag", image.tag)
           /\ NewBlock(image)[4] = Line(2, "pullPolicy", "IfNotPresent")
           /\ Line(0, "image", Null) \in Lines /\ Line(2, "pullPolicy", "IfNotPresent") \in Lines
           /\ Banner \in Lines /\ Banner.key = Remark /\ Banner.indent = 0
           /\ image.repository \in Texts /\ image.tag \in Texts /\ image.digest \in Texts
<1>1. image.repository \in Texts /\ image.tag \in Texts /\ image.digest \in Texts
  BY ValuesAssumption
<1>2. {Null, Remark, "image", "pullPolicy", "IfNotPresent", "managed", "repository", "tag"} \subseteq Texts
  BY ValuesAssumption DEF Fields
<1>3. Line(0, "image", Null) \in Lines /\ Line(2, "pullPolicy", "IfNotPresent") \in Lines
  BY <1>2, NewLine
<1>4. Line(2, "repository", image.repository) \in Lines /\ Line(2, "tag", image.tag) \in Lines
  BY <1>1, <1>2, NewLine
<1>5. Banner \in Lines /\ Banner.key = Remark /\ Banner.indent = 0
  <2>1. Remark \in Texts /\ "managed" \in Texts /\ 0 \in Nat
    BY <1>2
  <2>2. /\ Line(0, Remark, "managed") \in Lines
        /\ Line(0, Remark, "managed").key = Remark /\ Line(0, Remark, "managed").indent = 0
    <3>1. Line(0, Remark, "managed") \in Lines
      BY <2>1 DEF Line, Lines
    <3>2. Line(0, Remark, "managed").key = Remark /\ Line(0, Remark, "managed").indent = 0
      BY DEF Line
    <3>3. QED
      BY <3>1, <3>2
  <2>3. QED
    BY <2>2 DEF Banner
<1> DEFINE a == Line(0, "image", Null)
           b == Line(2, "repository", image.repository)
           c == Line(2, "tag", image.tag)
           d == Line(2, "pullPolicy", "IfNotPresent")
<1>6. NewBlock(image) = <<a, b, c, d>>
  BY DEF NewBlock
<1>7. a \in Lines /\ b \in Lines /\ c \in Lines /\ d \in Lines
  BY <1>3, <1>4
<1> HIDE DEF a, b, c, d
<1>8. /\ <<a, b, c, d>> \in Seq(Lines) /\ Len(<<a, b, c, d>>) = 4
      /\ <<a, b, c, d>>[1] = a /\ <<a, b, c, d>>[2] = b /\ <<a, b, c, d>>[3] = c /\ <<a, b, c, d>>[4] = d
  BY <1>7
<1>9. QED
  BY <1>1, <1>3, <1>5, <1>6, <1>8 DEF a, b, c, d

\* One sequence after the other, line by line.
LEMMA Joined ==
    ASSUME NEW a \in Seq(Lines), NEW b \in Seq(Lines)
    PROVE  /\ a \o b \in Seq(Lines) /\ Len(a \o b) = Len(a) + Len(b)
           /\ \A i \in 1 .. Len(a) : (a \o b)[i] = a[i]
           /\ \A i \in 1 .. Len(b) : (a \o b)[Len(a) + i] = b[i]
<1>1. Len(a) \in Nat /\ Len(b) \in Nat
  BY LineFacts
<1>2. /\ a \o b \in Seq(Lines) /\ Len(a \o b) = Len(a) + Len(b)
      /\ \A i \in 1 .. Len(a) + Len(b) : (a \o b)[i] = IF i <= Len(a) THEN a[i] ELSE b[i - Len(a)]
  BY ConcatProperties
<1>3. ASSUME NEW i \in 1 .. Len(a)
      PROVE  (a \o b)[i] = a[i]
  <2>1. i \in 1 .. Len(a) + Len(b) /\ i <= Len(a)
    BY <1>1
  <2>2. QED
    BY <1>2, <2>1
<1>4. ASSUME NEW i \in 1 .. Len(b)
      PROVE  (a \o b)[Len(a) + i] = b[i]
  <2>1. Len(a) + i \in 1 .. Len(a) + Len(b) /\ ~ (Len(a) + i <= Len(a)) /\ (Len(a) + i) - Len(a) = i
    BY <1>1
  <2>2. QED
    BY <1>2, <2>1
<1>5. QED
  BY <1>2, <1>3, <1>4

\* What Appended says of the keys and depths, for one step.
AppendedLines(lines, text, h) ==
    /\ Len(lines) \in Nat /\ h \in Len(lines) + 1 .. Len(lines) + 2 /\ Len(text) = h + 3
    /\ \A i \in 1 .. Len(lines) : lines[i].indent \in Nat
    /\ \A i \in 1 .. Len(lines) : text[i] = lines[i]
    /\ \A i \in Len(lines) + 1 .. h - 1 : text[i].key = Remark
    /\ text[h].key = "image" /\ text[h].indent = 0 /\ text[h].value = Null /\ text[h].remark = FALSE
    /\ text[h + 1].key = "repository" /\ text[h + 1].indent = 2
    /\ text[h + 2].key = "tag" /\ text[h + 2].indent = 2
    /\ text[h + 3].key = "pullPolicy" /\ text[h + 3].indent = 2
    /\ Remark # "image" /\ Remark # "repository" /\ Remark # "tag" /\ Remark # "pullPolicy"

LEMMA AppendedGivesLines ==
    ASSUME NEW lines \in Seq(Lines), NEW text, NEW h, NEW image \in Images, Appended(lines, text, h, image)
    PROVE  AppendedLines(lines, text, h)
<1>1. Len(lines) \in Nat /\ \A i \in 1 .. Len(lines) : lines[i].indent \in Nat
  BY LineFacts
<1>2. \A i \in Len(lines) + 1 .. h - 1 : text[i].key = Remark
  BY BlockTypes DEF Appended
<1>3. /\ text[h].key = "image" /\ text[h].indent = 0 /\ text[h].value = Null /\ text[h].remark = FALSE
      /\ text[h + 1].key = "repository" /\ text[h + 1].indent = 2
      /\ text[h + 2].key = "tag" /\ text[h + 2].indent = 2
      /\ text[h + 3].key = "pullPolicy" /\ text[h + 3].indent = 2
  BY DEF Appended, Line
<1>4. Remark # "image" /\ Remark # "repository" /\ Remark # "tag" /\ Remark # "pullPolicy"
  BY DEF Remark
<1>5. h \in Len(lines) + 1 .. Len(lines) + 2 /\ Len(text) = h + 3 /\ \A i \in 1 .. Len(lines) : text[i] = lines[i]
  BY DEF Appended
<1>6. QED
  BY <1>1, <1>2, <1>3, <1>4, <1>5 DEF AppendedLines

\* The first line that is no comment is at the top.
LEMMA FirstAtTop ==
    ASSUME NEW lines, NEW n \in Nat, n <= Len(lines), lines \in Seq(Lines), WellFormed(lines),
           \E i \in 1 .. n : lines[i].key # Remark
    PROVE  \E m \in 1 .. n : lines[m].key # Remark /\ lines[m].indent = 0
<1> DEFINE Keys == {i \in 1 .. n : lines[i].key # Remark}
<1>1. Len(lines) \in Nat /\ DOMAIN lines = 1 .. Len(lines)
  BY LineFacts
<1>2. PICK m \in Keys : \A y \in Keys : m <= y
  <2>1. Keys \subseteq Nat /\ Keys # {}
    OBVIOUS
  <2> HIDE DEF Keys
  <2>2. QED
    BY <2>1, LeastNatural
<1>3. \A i \in 1 .. m - 1 : lines[i].key = Remark
  <2>1. \A i \in 1 .. m - 1 : i \in 1 .. n /\ ~ (m <= i)
    OBVIOUS
  <2>2. QED
    BY <1>2, <2>1
<1>4. m \in DOMAIN lines /\ lines[m].key # Remark
  BY <1>1
<1>5. ~ \E i \in 1 .. m - 1 : Siblings(lines, i, m) \/ Opens(lines, i, m)
  BY <1>3 DEF Siblings, Opens
<1>6. lines[m].indent = 0
  BY <1>4, <1>5 DEF WellFormed
<1>7. QED
  BY <1>4, <1>6

LEMMA AppendedWellFormed ==
    ASSUME NEW lines, Without(lines), NEW text \in Seq(Lines), NEW h, AppendedLines(lines, text, h)
    PROVE  WellFormed(text)
<1> DEFINE N == Len(lines)
           Top(ls, j) == ls[j].indent = 0 /\ \A i \in 1 .. j - 1 : ls[i].key = Remark
           Within(ls, j) == \E i \in 1 .. j - 1 : Siblings(ls, i, j) \/ Opens(ls, i, j)
           Once(ls, j) == \A i \in 1 .. j - 1 : Siblings(ls, i, j) => ls[i].key # ls[j].key
<1>1. /\ N \in Nat /\ h \in N + 1 .. N + 2 /\ Len(text) = h + 3
      /\ \A i \in 1 .. N : lines[i].indent \in Nat
      /\ \A i \in 1 .. N : text[i] = lines[i]
      /\ \A i \in N + 1 .. h - 1 : text[i].key = Remark
  BY DEF AppendedLines
<1>2. /\ text[h].key = "image" /\ text[h].indent = 0 /\ text[h].value = Null
      /\ text[h + 1].key = "repository" /\ text[h + 1].indent = 2
      /\ text[h + 2].key = "tag" /\ text[h + 2].indent = 2
      /\ text[h + 3].key = "pullPolicy" /\ text[h + 3].indent = 2
      /\ Remark # "image" /\ Remark # "repository" /\ Remark # "tag" /\ Remark # "pullPolicy"
  BY DEF AppendedLines
<1>3. /\ lines \in Seq(Lines) /\ WellFormed(lines) /\ DOMAIN lines = 1 .. N /\ DOMAIN text = 1 .. h + 3
      /\ \A i \in 1 .. N : lines[i].key # "image"
  BY <1>1, LineFacts DEF Without
<1>4. ASSUME NEW j \in 1 .. N, text[j].key # Remark
      PROVE  (Top(text, j) \/ Within(text, j)) /\ Once(text, j)
  <2>1. \A i \in 1 .. j - 1 : Siblings(text, i, j) <=> Siblings(lines, i, j)
    <3>1. ASSUME NEW i \in 1 .. j - 1
          PROVE  Siblings(text, i, j) <=> Siblings(lines, i, j)
      <4>1. text[i] = lines[i] /\ text[j] = lines[j] /\ \A m \in i + 1 .. j - 1 : text[m] = lines[m]
        <5>1. i \in 1 .. N /\ \A m \in i + 1 .. j - 1 : m \in 1 .. N
          BY <1>1
        <5>2. \A m \in 1 .. N : text[m] = lines[m]
          BY <1>1
        <5>3. QED
          BY <5>1, <5>2
      <4>2. QED
        BY <4>1 DEF Siblings
    <3>2. QED
      BY <3>1
  <2>2. \A i \in 1 .. j - 1 : Opens(text, i, j) <=> Opens(lines, i, j)
    <3>1. \A m \in 1 .. j : text[m] = lines[m]
      BY <1>1
    <3>2. \A i \in 1 .. j - 1 : i \in 1 .. j /\ \A m \in i + 1 .. j - 1 : m \in 1 .. j
      BY <1>1
    <3>3. QED
      BY <3>1, <3>2 DEF Opens
  <2>3. text[j] = lines[j] /\ \A i \in 1 .. j - 1 : text[i] = lines[i]
    BY <1>1
  <2>4. (Top(lines, j) \/ Within(lines, j)) /\ Once(lines, j)
    BY <1>3, <1>4, <2>3 DEF WellFormed
  <2>5. QED
    BY <2>1, <2>2, <2>3, <2>4
<1>5. (Top(text, h) \/ Within(text, h)) /\ Once(text, h)
  <2>1. Once(text, h)
    <3>1. \A i \in 1 .. h - 1 : text[i].key # "image"
      BY <1>1, <1>2, <1>3
    <3>2. QED
      BY <1>2, <3>1
  <2>2. CASE \A i \in 1 .. N : lines[i].key = Remark
    <3>1. \A i \in 1 .. h - 1 : text[i].key = Remark
      BY <1>1, <2>2
    <3>2. QED
      BY <1>2, <2>1, <3>1
  <2>3. CASE \E i \in 1 .. N : lines[i].key # Remark
    <3>1. PICK m \in 1 .. N : lines[m].key # Remark /\ lines[m].indent = 0
      <4>1. N \in Nat /\ N <= Len(lines) /\ lines \in Seq(Lines) /\ WellFormed(lines)
        BY <1>1, <1>3
      <4>2. QED
        BY <2>3, <4>1, FirstAtTop
    <3>2. \A i \in m + 1 .. h - 1 : text[i].key = Remark \/ text[i].indent >= 0
      BY <1>1
    <3>3. Siblings(text, m, h) /\ m \in 1 .. h - 1
      BY <1>1, <1>2, <3>1, <3>2 DEF Siblings
    <3>4. QED
      BY <2>1, <3>3
  <2>4. QED
    BY <2>2, <2>3
<1>6. ASSUME NEW j \in h + 1 .. h + 3, NEW i \in 1 .. h, Siblings(text, i, j)
      PROVE  FALSE
  <2>1. text[i].indent = 2
    BY <1>1, <1>2, <1>6 DEF Siblings
  <2>2. i # h /\ h \in i + 1 .. j - 1
    BY <1>1, <1>2, <2>1
  <2>3. text[h].key = Remark \/ text[h].indent >= 2
    BY <1>6, <2>1, <2>2 DEF Siblings
  <2>4. QED
    BY <1>2, <2>3
<1>7. Within(text, h + 1) /\ Once(text, h + 1)
  <2>1. Opens(text, h, h + 1) /\ h \in 1 .. (h + 1) - 1
    BY <1>1, <1>2 DEF Opens
  <2>2. Once(text, h + 1)
    BY <1>1, <1>6
  <2>3. QED
    BY <2>1, <2>2
<1>8. Within(text, h + 2) /\ Once(text, h + 2)
  <2>1. Siblings(text, h + 1, h + 2) /\ h + 1 \in 1 .. (h + 2) - 1
    BY <1>1, <1>2 DEF Siblings
  <2>2. ASSUME NEW i \in 1 .. (h + 2) - 1, Siblings(text, i, h + 2)
        PROVE  text[i].key # text[h + 2].key
    <3>1. i \notin 1 .. h /\ h + 2 \in h + 1 .. h + 3
      BY <1>1, <1>6, <2>2
    <3>2. i = h + 1
      BY <1>1, <3>1
    <3>3. QED
      BY <1>2, <3>2
  <2>3. QED
    BY <2>1, <2>2
<1>9. Within(text, h + 3) /\ Once(text, h + 3)
  <2>1. Siblings(text, h + 2, h + 3) /\ h + 2 \in 1 .. (h + 3) - 1
    BY <1>1, <1>2 DEF Siblings
  <2>2. ASSUME NEW i \in 1 .. (h + 3) - 1, Siblings(text, i, h + 3)
        PROVE  text[i].key # text[h + 3].key
    <3>1. i \notin 1 .. h
      <4>1. h + 3 \in h + 1 .. h + 3
        BY <1>1
      <4>2. QED
        BY <1>6, <2>2, <4>1
    <3>2. i = h + 1 \/ i = h + 2
      BY <1>1, <3>1
    <3>3. QED
      BY <1>2, <3>2
  <2>3. QED
    BY <2>1, <2>2
<1> HIDE DEF Top, Within, Once
<1>10. ASSUME NEW j \in DOMAIN text, text[j].key # Remark
       PROVE  (Top(text, j) \/ Within(text, j)) /\ Once(text, j)
  <2>1. j \in 1 .. N \/ j \in N + 1 .. h - 1 \/ j = h \/ j = h + 1 \/ j = h + 2 \/ j = h + 3
    BY <1>1, <1>3
  <2>2. j \notin N + 1 .. h - 1
    BY <1>1, <1>10
  <2>3. QED
    BY <1>4, <1>5, <1>7, <1>8, <1>9, <1>10, <2>1, <2>2
<1>11. QED
  BY <1>10 DEF WellFormed, Top, Within, Once

LEMMA AppendedReady ==
    ASSUME NEW lines, Without(lines), NEW text, NEW h, NEW image \in Images, Appended(lines, text, h, image)
    PROVE  Ready(text, h) /\ \A i : i \in Block(text, h) <=> i = h + 1 \/ i = h + 2 \/ i = h + 3
<1> DEFINE N == Len(lines)
<1>1. lines \in Seq(Lines) /\ text \in Seq(Lines) /\ \A i \in 1 .. N : lines[i].key # "image" /\ lines[i].key # "digest"
  BY DEF Without, Appended
<1>2. AppendedLines(lines, text, h)
  BY <1>1, AppendedGivesLines
<1>3. /\ N \in Nat /\ h \in N + 1 .. N + 2 /\ Len(text) = h + 3 /\ DOMAIN text = 1 .. h + 3
      /\ \A i \in 1 .. N : text[i] = lines[i]
      /\ \A i \in N + 1 .. h - 1 : text[i].key = Remark
  BY <1>1, <1>2, LineFacts DEF AppendedLines
<1>4. /\ text[h].key = "image" /\ text[h].indent = 0 /\ text[h].value = Null /\ text[h].remark = FALSE
      /\ text[h + 1].key = "repository" /\ text[h + 1].indent = 2
      /\ text[h + 2].key = "tag" /\ text[h + 2].indent = 2
      /\ text[h + 3].key = "pullPolicy" /\ text[h + 3].indent = 2
      /\ Remark # "image" /\ Remark # "repository" /\ Remark # "tag" /\ Remark # "pullPolicy"
  BY <1>2 DEF AppendedLines
<1>5. ParentIndex(text) = h
  <2>1. \A i \in 1 .. Len(text) : i < h => text[i].key # "image"
    <3>1. ASSUME NEW i \in 1 .. Len(text), i < h
          PROVE  text[i].key # "image"
      <4>1. i \in 1 .. N \/ i \in N + 1 .. h - 1
        BY <1>3, <3>1
      <4>2. QED
        BY <1>1, <1>3, <1>4, <4>1
    <3>2. QED
      BY <3>1
  <2>2. h \in 1 .. Len(text)
    BY <1>3
  <2>3. QED
    BY <1>1, <1>4, <2>1, <2>2, FirstIsImage
<1>6. \A i \in h + 1 .. Len(text) : i = h + 1 \/ i = h + 2 \/ i = h + 3
  BY <1>3
<1>7. ASSUME NEW i \in 1 .. Len(text), text[i].key = "digest"
      PROVE  FALSE
  <2>1. i \in 1 .. N \/ i \in N + 1 .. h - 1 \/ i = h \/ i = h + 1 \/ i = h + 2 \/ i = h + 3
    BY <1>3
  <2>2. Remark # "digest"
    BY DEF Remark
  <2>3. i \in 1 .. N
    BY <1>3, <1>4, <1>7, <2>1, <2>2
  <2>4. QED
    BY <1>1, <1>3, <1>7, <2>3
<1>8. TwoLevel(text)
  <2>1. WellFormed(text)
    BY <1>1, <1>2, AppendedWellFormed
  <2>2. \A i \in h + 1 .. Len(text) : text[i].indent = 2
    BY <1>4, <1>6
  <2>3. \A i \in DOMAIN text : text[i].key # "digest"
    BY <1>3, <1>7
  <2>4. QED
    BY <1>4, <1>5, <2>1, <2>2, <2>3 DEF TwoLevel
<1>9. Ready(text, h)
  BY <1>1, <1>3, <1>4, <1>5, <1>8 DEF Ready
<1>10. ASSUME NEW i, i = h + 1 \/ i = h + 2 \/ i = h + 3
       PROVE  i \in Block(text, h)
  <2>1. i \in 1 .. Len(text) /\ i > h
    BY <1>3, <1>10
  <2>2. \A j \in h + 1 .. i : text[j].indent = 2
    <3>1. \A j \in h + 1 .. i : j \in h + 1 .. Len(text)
      BY <1>3, <1>10
    <3>2. QED
      BY <1>4, <1>6, <3>1
  <2>3. InBlock(text, h, i)
    BY <1>4, <2>2 DEF InBlock
  <2>4. text[i].key # Remark
    BY <1>4, <1>10
  <2>5. QED
    BY <2>1, <2>3, <2>4 DEF Block
<1>11. ASSUME NEW i \in Block(text, h)
       PROVE  i = h + 1 \/ i = h + 2 \/ i = h + 3
  <2>1. i \in h + 1 .. Len(text)
    BY <1>3 DEF Block
  <2>2. QED
    BY <1>6, <2>1
<1>12. QED
  BY <1>9, <1>10, <1>11

\* Helm reads the repository and the tag of the block, and no digest.
LEMMA AppendedReads ==
    ASSUME NEW lines, Without(lines), NEW text, NEW h, NEW image \in Images, Appended(lines, text, h, image)
    PROVE  /\ Says(text, "repository") = {h + 1} /\ Says(text, "tag") = {h + 2} /\ Says(text, "digest") = {}
           /\ Reading(text, "repository", image.repository) /\ Reading(text, "tag", image.tag)
<1>1. Ready(text, h) /\ \A i : i \in Block(text, h) <=> i = h + 1 \/ i = h + 2 \/ i = h + 3
  BY AppendedReady
<1>2. AppendedLines(lines, text, h) /\ lines \in Seq(Lines) /\ text \in Seq(Lines)
  BY AppendedGivesLines DEF Without, Appended
<1>3. /\ text[h + 1].key = "repository" /\ text[h + 2].key = "tag" /\ text[h + 3].key = "pullPolicy"
      /\ h + 1 \in DOMAIN text /\ h + 2 \in DOMAIN text
  BY <1>2, LineFacts DEF AppendedLines
<1>4. text[h + 1].value = image.repository /\ text[h + 2].value = image.tag
  BY DEF Appended, Line
<1>5. "repository" \in Fields /\ "tag" \in Fields /\ "digest" \in Fields
  BY DEF Fields
<1>6. \A i : i \in Says(text, "repository") <=> i \in Block(text, h) /\ text[i].key = "repository"
  BY <1>1, <1>5, SaysBlock
<1>7. \A i : i \in Says(text, "tag") <=> i \in Block(text, h) /\ text[i].key = "tag"
  BY <1>1, <1>5, SaysBlock
<1>8. \A i : i \in Says(text, "digest") <=> i \in Block(text, h) /\ text[i].key = "digest"
  BY <1>1, <1>5, SaysBlock
<1>9. Says(text, "repository") = {h + 1}
  <2>1. \A i : i \in Says(text, "repository") <=> i = h + 1
    BY <1>1, <1>3, <1>6
  <2>2. QED
    BY <2>1
<1>10. Says(text, "tag") = {h + 2}
  <2>1. \A i : i \in Says(text, "tag") <=> i = h + 2
    BY <1>1, <1>3, <1>7
  <2>2. QED
    BY <2>1
<1>11. Says(text, "digest") = {}
  BY <1>1, <1>3, <1>8
<1>12. QED
  BY <1>3, <1>4, <1>9, <1>10, <1>11 DEF Reading

LEMMA AppendedRest ==
    ASSUME NEW lines, Without(lines), NEW text, NEW h, NEW image \in Images, Appended(lines, text, h, image)
    PROVE  LET I == Line(0, "image", Null)
               P == Line(2, "pullPolicy", "IfNotPresent")
           IN  Rest(text) = IF h = Len(lines) + 1 THEN Append(Append(Rest(lines), I), P)
                            ELSE Append(Append(Append(Rest(lines), Banner), I), P)
<1> DEFINE N == Len(lines)
           I == Line(0, "image", Null)
           P == Line(2, "pullPolicy", "IfNotPresent")
<1>1. /\ lines \in Seq(Lines) /\ text \in Seq(Lines) /\ N \in Nat /\ h \in N + 1 .. N + 2 /\ Len(text) = h + 3
      /\ \A i \in 1 .. N : text[i] = lines[i]
      /\ \A i \in N + 1 .. h - 1 : text[i] = Banner
      /\ text[h] = I /\ text[h + 3] = P
  BY LineFacts DEF Without, Appended
<1>2. PICK g : RestTable(lines, g) /\ Rest(lines) = g[N]
  BY <1>1, RestHasTable
<1>3. PICK t : RestTable(text, t) /\ Rest(text) = t[h + 3]
  BY <1>1, RestHasTable
<1>4. Says(text, "repository") = {h + 1} /\ Says(text, "tag") = {h + 2} /\ Says(text, "digest") = {}
  BY AppendedReads
<1>5. \A i : IsField(text, i) <=> i = h + 1 \/ i = h + 2
  BY <1>4 DEF IsField, Fields
<1>6. \A i : ~IsField(lines, i)
  BY WithoutSays DEF IsField
<1> HIDE DEF I, P, N
<1>7. t[N] = g[N]
  <2>1. t[0 + 0] = g[0]
    BY <1>2, <1>3 DEF RestTable
  <2>2. ASSUME NEW i \in 0 + 1 .. N
        PROVE  IF IsField(lines, i) THEN IsField(text, i + 0) ELSE ~IsField(text, i + 0) /\ text[i + 0] = lines[i]
    <3>1. i \in 1 .. N /\ i + 0 = i /\ i # h + 1 /\ i # h + 2
      BY <1>1
    <3>2. ~IsField(text, i + 0) /\ text[i + 0] = lines[i]
      BY <1>1, <1>5, <3>1
    <3>3. QED
      BY <1>6, <3>2
  <2>3. Aligned(lines, text, 0, 0, N)
    <3>1. 0 \in Nat /\ N \in Nat /\ 0 <= N /\ N <= Len(lines) /\ N + 0 <= Len(text)
      BY <1>1 DEF N
    <3>2. QED
      BY <1>1, <2>2, <3>1 DEF Aligned
  <2>4. t[N + 0] = g[N]
    BY <1>2, <1>3, <2>1, <2>3, RestShifts
  <2>5. QED
    BY <1>1, <2>4
<1>8. t[h - 1] = IF h = N + 1 THEN g[N] ELSE Append(g[N], Banner)
  <2>1. CASE h = N + 1
    <3>1. h - 1 = N
      BY <1>1, <2>1
    <3>2. QED
      BY <1>7, <2>1, <3>1
  <2>2. CASE h # N + 1
    <3>1. h - 1 = N + 1 /\ h - 1 \in 1 .. Len(text) /\ h - 1 \in N + 1 .. h - 1 /\ (h - 1) - 1 = N
          /\ h - 1 # h + 1 /\ h - 1 # h + 2
      BY <1>1, <2>2
    <3>2. ~IsField(text, h - 1) /\ text[h - 1] = Banner
      BY <1>1, <1>5, <3>1
    <3>3. t[h - 1] = Append(t[(h - 1) - 1], text[h - 1])
      BY <1>3, <3>1, <3>2, RestRow
    <3>4. QED
      BY <1>7, <2>2, <3>1, <3>2, <3>3
  <2>3. QED
    BY <2>1, <2>2
<1>9. t[h] = Append(t[h - 1], I)
  <2>1. h \in 1 .. Len(text) /\ h # h + 1 /\ h # h + 2
    BY <1>1
  <2>2. ~IsField(text, h)
    BY <1>5, <2>1
  <2>3. QED
    BY <1>1, <1>3, <2>1, <2>2, RestRow
<1>10. t[h + 1] = t[h]
  <2>1. h + 1 \in 1 .. Len(text) /\ (h + 1) - 1 = h
    BY <1>1
  <2>2. t[h + 1] = t[(h + 1) - 1]
    BY <1>3, <1>5, <2>1, RestRow
  <2>3. QED
    BY <2>1, <2>2
<1>11. t[h + 2] = t[h + 1]
  <2>1. h + 2 \in 1 .. Len(text) /\ (h + 2) - 1 = h + 1
    BY <1>1
  <2>2. t[h + 2] = t[(h + 2) - 1]
    BY <1>3, <1>5, <2>1, RestRow
  <2>3. QED
    BY <2>1, <2>2
<1>12. t[h + 3] = Append(t[h + 2], P)
  <2>1. h + 3 \in 1 .. Len(text) /\ (h + 3) - 1 = h + 2 /\ h + 3 # h + 1 /\ h + 3 # h + 2
    BY <1>1
  <2>2. ~IsField(text, h + 3)
    BY <1>5, <2>1
  <2>3. t[h + 3] = Append(t[(h + 3) - 1], text[h + 3])
    BY <1>3, <2>1, <2>2, RestRow
  <2>4. QED
    BY <1>1, <2>1, <2>3
<1>13. QED
  BY <1>2, <1>3, <1>8, <1>9, <1>10, <1>11, <1>12 DEF I, P, N

\* The banner and the block go to the end.
LEMMA BlockIsAppended ==
    ASSUME NEW lines \in Seq(Lines), NEW image \in Images, NEW middle, middle = <<>> \/ middle = <<Banner>>
    PROVE  /\ middle \in Seq(Lines) /\ Len(middle) \in {0, 1}
           /\ Len(middle) = 0 <=> middle = <<>>
           /\ Appended(lines, lines \o middle \o NewBlock(image), Len(lines) + Len(middle) + 1, image)
<1> DEFINE N == Len(lines)
           M == Len(middle)
           block == NewBlock(image)
           begin == lines \o middle
           text == begin \o block
           h == N + M + 1
<1>1. N \in Nat
  BY LineFacts
<1>2. middle \in Seq(Lines) /\ M \in {0, 1} /\ (M = 0 <=> middle = <<>>) /\ \A i \in 1 .. M : middle[i] = Banner
  <2>1. CASE middle = <<>>
    BY <2>1
  <2>2. CASE middle = <<Banner>>
    <3>1. Banner \in Lines
      BY BlockTypes
    <3>2. middle \in Seq(Lines) /\ M = 1 /\ middle[1] = Banner /\ middle # <<>>
      BY <2>2, <3>1
    <3>3. QED
      BY <3>2
  <2>3. QED
    BY <2>1, <2>2
<1>3. /\ block \in Seq(Lines) /\ Len(block) = 4
      /\ block[1] = Line(0, "image", Null) /\ block[2] = Line(2, "repository", image.repository)
      /\ block[3] = Line(2, "tag", image.tag) /\ block[4] = Line(2, "pullPolicy", "IfNotPresent")
  BY BlockTypes
<1> HIDE DEF block
<1>4. /\ begin \in Seq(Lines) /\ Len(begin) = N + M
      /\ \A i \in 1 .. N : begin[i] = lines[i]
      /\ \A i \in 1 .. M : begin[N + i] = middle[i]
  BY <1>2, Joined
<1> HIDE DEF begin
<1>5. /\ text \in Seq(Lines) /\ Len(text) = (N + M) + 4
      /\ \A i \in 1 .. N + M : text[i] = begin[i]
      /\ \A i \in 1 .. 4 : text[(N + M) + i] = block[i]
  <2>1. /\ begin \o block \in Seq(Lines) /\ Len(begin \o block) = Len(begin) + Len(block)
        /\ \A i \in 1 .. Len(begin) : (begin \o block)[i] = begin[i]
        /\ \A i \in 1 .. Len(block) : (begin \o block)[Len(begin) + i] = block[i]
    BY <1>3, <1>4, Joined
  <2>2. Len(begin) = N + M /\ Len(block) = 4
    BY <1>3, <1>4
  <2>3. QED
    BY <2>1, <2>2
<1> HIDE DEF text, N, M
<1>6. text[h] = block[1] /\ text[h + 1] = block[2] /\ text[h + 2] = block[3] /\ text[h + 3] = block[4]
  <2>1. h = (N + M) + 1 /\ h + 1 = (N + M) + 2 /\ h + 2 = (N + M) + 3 /\ h + 3 = (N + M) + 4
    BY <1>1, <1>2
  <2>2. QED
    BY <1>5, <2>1
<1>7. \A i \in 1 .. N : text[i] = lines[i]
  BY <1>1, <1>2, <1>4, <1>5
<1>8. ASSUME NEW i \in N + 1 .. h - 1
      PROVE  text[i] = Banner
  <2>1. M = 1 /\ i = N + 1 /\ i \in 1 .. N + M
    BY <1>1, <1>2
  <2>2. begin[N + 1] = middle[1] /\ middle[1] = Banner
    BY <1>2, <1>4, <2>1
  <2>3. QED
    BY <1>5, <2>1, <2>2
<1>9. h \in N + 1 .. N + 2 /\ Len(text) = h + 3
  BY <1>1, <1>2, <1>5
<1>10. Appended(lines, text, h, image)
  BY <1>3, <1>5, <1>6, <1>7, <1>8, <1>9 DEF Appended, N
<1>11. QED
  BY <1>2, <1>10 DEF text, begin, block, M, N

LEMMA AppendTwo ==
    ASSUME NEW S, NEW s \in Seq(S), NEW a \in S, NEW b \in S
    PROVE  Append(Append(s, a), b) = s \o <<a, b>>
<1>1. Append(s, a) \in Seq(S) /\ Append(s, a) = s \o <<a>>
  BY AppendProperties, AppendIsConcat
<1>2. Append(Append(s, a), b) = (s \o <<a>>) \o <<b>>
  BY <1>1, AppendIsConcat
<1>3. <<a>> \in Seq(S) /\ <<b>> \in Seq(S)
  OBVIOUS
<1>4. (s \o <<a>>) \o <<b>> = s \o (<<a>> \o <<b>>)
  BY <1>3, ConcatAssociative
<1>5. <<a>> \o <<b>> = <<a, b>>
  <2>1. Append(<<a>>, b) = <<a>> \o <<b>>
    BY <1>3, AppendIsConcat
  <2>2. Append(<<a>>, b) = <<a, b>>
    <3>1. /\ Append(<<a>>, b) \in Seq(S) /\ Len(Append(<<a>>, b)) = 2
          /\ Append(<<a>>, b)[1] = a /\ Append(<<a>>, b)[2] = b
      OBVIOUS
    <3>2. <<a, b>> \in Seq(S) /\ Len(<<a, b>>) = 2 /\ <<a, b>>[1] = a /\ <<a, b>>[2] = b
      OBVIOUS
    <3>3. \A i \in 1 .. Len(Append(<<a>>, b)) : Append(<<a>>, b)[i] = <<a, b>>[i]
      <4>1. \A i \in 1 .. 2 : i = 1 \/ i = 2
        OBVIOUS
      <4>2. QED
        BY <3>1, <3>2, <4>1
    <3>4. QED
      BY <3>1, <3>2, <3>3, SeqEqual
  <2>3. QED
    BY <2>1, <2>2
<1>6. QED
  BY <1>2, <1>4, <1>5

LEMMA WithImageAppends ==
    ASSUME NEW lines \in Seq(Lines), TwoLevel(lines), classify(lines) = "needs-block", NEW image \in Images
    PROVE  /\ \E h : Appended(lines, WithImage(lines, image), h, image)
           /\ Rest(WithImage(lines, image)) = Rest(lines) \o Header(lines)
<1> DEFINE middle == IF Contains(lines, Banner) THEN <<>> ELSE <<Banner>>
           I == Line(0, "image", Null)
           P == Line(2, "pullPolicy", "IfNotPresent")
           two == <<I, P>>
           h == Len(lines) + Len(middle) + 1
           text == WithImage(lines, image)
<1>1. text = lines \o middle \o NewBlock(image)
  BY DEF WithImage
<1>2. Header(lines) = middle \o two
  BY DEF Header
<1>3. middle = <<>> \/ middle = <<Banner>>
  OBVIOUS
<1> HIDE DEF middle
<1>4. /\ middle \in Seq(Lines) /\ Len(middle) \in {0, 1} /\ (Len(middle) = 0 <=> middle = <<>>)
      /\ Appended(lines, text, h, image)
  BY <1>1, <1>3, BlockIsAppended
<1>5. Without(lines)
  BY NeedsBlock
<1>6. Rest(text) = IF h = Len(lines) + 1 THEN Append(Append(Rest(lines), I), P)
                   ELSE Append(Append(Append(Rest(lines), Banner), I), P)
  BY <1>4, <1>5, AppendedRest
<1>7. I \in Lines /\ P \in Lines /\ Banner \in Lines
  BY BlockTypes
<1>8. Rest(lines) \in Seq(Lines)
  <2>1. PICK g : RestTable(lines, g) /\ Rest(lines) = g[Len(lines)]
    BY RestHasTable
  <2>2. Len(lines) \in 0 .. Len(lines)
    BY LineFacts
  <2>3. QED
    BY <2>1, <2>2, RestTyped
<1> HIDE DEF text, I, P
<1>9. Rest(text) = Rest(lines) \o (middle \o two)
  <2>1. two \in Seq(Lines)
    BY <1>7
  <2>2. CASE middle = <<>>
    <3>1. h = Len(lines) + 1
      BY <1>4, <2>2, LineFacts
    <3>2. Append(Append(Rest(lines), I), P) = Rest(lines) \o two
      BY <1>7, <1>8, AppendTwo
    <3>3. middle \o two = two
      BY <2>1, <2>2, ConcatEmptySeq
    <3>4. QED
      BY <1>6, <3>1, <3>2, <3>3
  <2>3. CASE middle = <<Banner>>
    <3>1. h # Len(lines) + 1
      <4>1. Len(middle) = 1 /\ Len(lines) \in Nat
        BY <2>3, LineFacts
      <4>2. QED
        BY <4>1
    <3>2. Append(Rest(lines), Banner) = Rest(lines) \o middle /\ Append(Rest(lines), Banner) \in Seq(Lines)
      BY <1>7, <1>8, <2>3, AppendIsConcat, AppendProperties
    <3>3. Append(Append(Append(Rest(lines), Banner), I), P) = (Rest(lines) \o middle) \o two
      BY <1>7, <3>2, AppendTwo
    <3>4. (Rest(lines) \o middle) \o two = Rest(lines) \o (middle \o two)
      BY <1>4, <1>8, <2>1, ConcatAssociative
    <3>5. QED
      BY <1>6, <3>1, <3>3, <3>4
  <2>4. QED
    BY <1>3, <2>2, <2>3
<1>10. QED
  BY <1>2, <1>4, <1>9 DEF text

-----------------------------------------------------------------------------
(* classify                                                                *)

\* The image of a file that needs no block opens one.
LEMMA OkIsReady ==
    ASSUME NEW lines \in Seq(Lines), TwoLevel(lines), classify(lines) = "ok"
    PROVE  \E p : Ready(lines, p)
<1> DEFINE top == {i \in DOMAIN lines : lines[i].key = "image" /\ lines[i].indent = 0}
           opening == {i \in top : lines[i].value = Null}
           after == {i \in DOMAIN lines : i > Min(opening) /\ lines[i].key # Remark}
           p == ParentIndex(lines)
<1>1. DOMAIN lines = 1 .. Len(lines) /\ Len(lines) \in Nat /\ \A i \in 1 .. Len(lines) : lines[i].indent \in Nat
  BY LineFacts
<1>2. opening # {}
  <2>1. classify(lines) = CASE opening = {} /\ top # {} -> "malformed"
          [] opening = {} /\ top = {} ->
                IF \E i \in DOMAIN lines : lines[i].key \in {"repository", "tag"} THEN "malformed" ELSE "needs-block"
          [] OTHER -> IF after = {} \/ lines[Min(after)].indent = 0 THEN "malformed" ELSE "ok"
    BY DEF classify
  <2> HIDE DEF top, opening, after
  <2>2. QED
    BY <2>1
<1>3. PICK q \in 1 .. Len(lines) : lines[q].key = "image" /\ lines[q].indent = 0 /\ lines[q].value = Null
  BY <1>1, <1>2
<1>4. /\ p \in 1 .. Len(lines) /\ lines[p].key = "image" /\ p <= q /\ p # 0
  <2>1. p # 0
    BY <1>3, ImageIsFirst
  <2>2. QED
    BY <1>3, <2>1, ImageIsFirst
<1>5. WellFormed(lines) /\ lines[p].indent = 0
  BY <1>4 DEF TwoLevel
<1>6. q = p
  <2>1. SUFFICES ASSUME p < q PROVE FALSE
    BY <1>3, <1>4
  <2>2. \A m \in p + 1 .. q - 1 : lines[m].indent >= lines[p].indent
    BY <1>1, <1>3, <1>4, <1>5
  <2>3. Siblings(lines, p, q) /\ p \in 1 .. q - 1
    BY <1>1, <1>3, <1>4, <1>5, <2>1, <2>2 DEF Siblings, Remark
  <2>4. QED
    BY <1>1, <1>3, <1>4, <1>5, <2>3 DEF WellFormed, Remark
<1>7. Ready(lines, p)
  BY <1>3, <1>4, <1>6 DEF Ready
<1>8. QED
  BY <1>7

\* A block that says a field is one.
LEMMA ReadyIsOk ==
    ASSUME NEW lines, NEW p, Ready(lines, p), NEW field \in Fields, Says(lines, field) # {}
    PROVE  classify(lines) = "ok"
<1> DEFINE top == {i \in DOMAIN lines : lines[i].key = "image" /\ lines[i].indent = 0}
           opening == {i \in top : lines[i].value = Null}
           after == {i \in DOMAIN lines : i > Min(opening) /\ lines[i].key # Remark}
<1>1. /\ DOMAIN lines = 1 .. Len(lines) /\ Len(lines) \in Nat /\ p \in 1 .. Len(lines)
      /\ \A i \in 1 .. Len(lines) : lines[i].indent \in Nat
  BY LineFacts DEF Ready
<1>2. /\ lines[p].key = "image" /\ lines[p].indent = 0
      /\ \A i \in 1 .. Len(lines) : lines[i].key = "image" /\ lines[i].indent = 0 => i = p
      /\ \A i \in Block(lines, p) : lines[i].indent = 2
  BY ReadyBlock
<1>3. opening = {p}
  BY <1>1, <1>2 DEF Ready
<1>4. Min(opening) = p
  <2>1. opening \subseteq 1 .. Len(lines) /\ opening # {}
    BY <1>1, <1>3
  <2>2. Min(opening) \in opening
    BY <1>1, <2>1, MinOfBounded
  <2>3. QED
    BY <1>3, <2>2
<1>5. PICK c : c \in Block(lines, p)
  BY SaysBlock
<1>6. c \in after
  BY <1>1, <1>4, <1>5 DEF Block
<1>7. Min(after) \in after /\ Min(after) <= c
  <2>1. after \subseteq 1 .. Len(lines) /\ after # {}
    BY <1>1, <1>6
  <2> HIDE DEF after
  <2>2. QED
    BY <1>1, <1>6, <2>1, MinOfBounded
<1>8. lines[Min(after)].indent = 2
  <2>1. Min(after) \in p + 1 .. c /\ lines[Min(after)].key # Remark /\ Min(after) \in 1 .. Len(lines)
    BY <1>1, <1>4, <1>5, <1>7 DEF Block
  <2>2. InBlock(lines, p, Min(after))
    BY <1>1, <1>5, <2>1 DEF Block, InBlock
  <2>3. Min(after) \in Block(lines, p)
    BY <1>1, <2>1, <2>2 DEF Block
  <2>4. QED
    BY <1>2, <2>3
<1>9. classify(lines) = CASE opening = {} /\ top # {} -> "malformed"
          [] opening = {} /\ top = {} ->
                IF \E i \in DOMAIN lines : lines[i].key \in {"repository", "tag"} THEN "malformed" ELSE "needs-block"
          [] OTHER -> IF after = {} \/ lines[Min(after)].indent = 0 THEN "malformed" ELSE "ok"
  BY DEF classify
<1> HIDE DEF top, after
<1>10. QED
  BY <1>3, <1>6, <1>8, <1>9

-----------------------------------------------------------------------------
(* Types: a bump nests what it adds by two columns below a line that is at  *)
(* one of the depths of the set deep.                                       *)

Nested(deep) ==
    {line \in Lines : \E indent \in deep : \/ line.indent = indent
                                           \/ line.indent = indent + 2 /\ line.key # "image"}

LEMMA NewIsNested ==
    ASSUME NEW deep, deep \subseteq Nat, NEW indent \in deep, NEW below \in Nat, below = indent + 2,
           NEW key \in Texts, NEW value \in Texts
    PROVE  /\ Line(indent, key, value) \in Nested(deep)
           /\ key # "image" => Line(below, key, value) \in Nested(deep)
<1>1. Line(indent, key, value) \in Lines /\ Line(indent, key, value).indent = indent
  <2>1. indent \in Nat
    OBVIOUS
  <2>2. QED
    BY <2>1 DEF Line, Lines
<1>2. /\ Line(below, key, value) \in Lines /\ Line(below, key, value).indent = below
      /\ Line(below, key, value).key = key
  BY DEF Line, Lines
<1>3. QED
  BY <1>1, <1>2 DEF Nested

LEMMA BlockIsNested ==
    ASSUME NEW deep, deep \subseteq Nat, 0 \in deep, NEW image \in Images
    PROVE  NewBlock(image) \in Seq(Nested(deep)) /\ Banner \in Nested(deep)
<1> DEFINE a == Line(0, "image", Null)
           b == Line(2, "repository", image.repository)
           c == Line(2, "tag", image.tag)
           d == Line(2, "pullPolicy", "IfNotPresent")
<1>1. {Null, Remark, "image", "pullPolicy", "IfNotPresent", "managed", "repository", "tag"} \subseteq Texts
  BY ValuesAssumption DEF Fields
<1>2. image.repository \in Texts /\ image.tag \in Texts
  BY BlockTypes
<1>3. 0 + 2 = 2 /\ 2 \in Nat
  OBVIOUS
<1>4. a \in Nested(deep)
  BY <1>1, <1>3, NewIsNested
<1>5. b \in Nested(deep)
  BY <1>1, <1>2, <1>3, NewIsNested
<1>6. c \in Nested(deep)
  BY <1>1, <1>2, <1>3, NewIsNested
<1>7. d \in Nested(deep)
  BY <1>1, <1>3, NewIsNested
<1>8. Banner \in Nested(deep)
  BY <1>1, <1>3, NewIsNested DEF Banner
<1>9. NewBlock(image) = <<a, b, c, d>>
  BY DEF NewBlock
<1> HIDE DEF a, b, c, d
<1>10. QED
  BY <1>4, <1>5, <1>6, <1>7, <1>8, <1>9

\* A part of a sequence.
LEMMA Part ==
    ASSUME NEW S, NEW s \in Seq(S), NEW m \in 1 .. Len(s) + 1, NEW n \in 0 .. Len(s)
    PROVE  SubSeq(s, m, n) \in Seq(S) /\ (m = 1 => Len(SubSeq(s, m, n)) = n)
<1>1. Len(s) \in Nat /\ m \in Int /\ n \in Int
  OBVIOUS
<1>2. \A i \in m .. n : s[i] \in S
  <2>1. \A i \in m .. n : i \in 1 .. Len(s)
    BY <1>1
  <2>2. QED
    BY <2>1
<1>3. SubSeq(s, m, n) \in Seq(S) /\ Len(SubSeq(s, m, n)) = IF m <= n THEN n - m + 1 ELSE 0
  BY <1>1, <1>2, SubSeqProperties
<1>4. QED
  BY <1>1, <1>3

LEMMA SeqOfNested ==
    ASSUME NEW S, NEW lines \in Seq(Lines), \A i \in DOMAIN lines : lines[i] \in S
    PROVE  lines \in Seq(S)
<1>1. DOMAIN lines = 1 .. Len(lines) /\ Len(lines) \in Nat
  BY LineFacts
<1>2. SubSeq(lines, 1, Len(lines)) \in Seq(S)
  BY <1>1, SubSeqProperties
<1>3. SubSeq(lines, 1, Len(lines)) = lines
  BY SubSeqFull
<1>4. QED
  BY <1>2, <1>3

\* The lines after a promotion, with the image still in its place.
LEMMA PromotedTyped ==
    ASSUME NEW deep, deep \subseteq Nat, NEW lines \in Seq(Nested(deep)), NEW p \in 1 .. Len(lines),
           lines[p].key = "image"
    PROVE  /\ Promoted(lines, p) \in Seq(Nested(deep)) /\ p \in 1 .. Len(Promoted(lines, p))
           /\ Promoted(lines, p)[p].indent \in deep
<1> DEFINE S == Nested(deep)
           line == lines[p]
           a == [line EXCEPT !.value = Null, !.remark = (@ /\ line.value # Null)]
           b == [line EXCEPT !.indent = @ + 2, !.key = "repository", !.remark = (@ /\ line.value = Null)]
           first == SubSeq(lines, 1, p - 1)
           last == SubSeq(lines, p + 1, Len(lines))
           two == <<a, b>>
<1>1. Len(lines) \in Nat /\ p \in Int
  OBVIOUS
<1>2. line \in S /\ line \in Lines /\ line.key = "image" /\ line.indent \in deep
  <2>1. line \in S
    OBVIOUS
  <2>2. line \in Lines /\ \E indent \in deep : line.indent = indent \/ (line.indent = indent + 2 /\ line.key # "image")
    BY <2>1 DEF Nested
  <2>3. QED
    BY <2>1, <2>2
<1>3. line.indent \in Nat /\ line.key \in Texts /\ line.value \in Texts /\ line.remark \in BOOLEAN
  BY <1>2 DEF Lines
<1>4. Null \in Texts /\ "repository" \in Texts
  BY ValuesAssumption DEF Fields
<1> DEFINE noted == line.remark /\ line.value # Null
           unnoted == line.remark /\ line.value = Null
<1>5. a = [line EXCEPT !.value = Null, !.remark = noted] /\ noted \in BOOLEAN
  BY <1>3
<1>6. b = [line EXCEPT !.indent = line.indent + 2, !.key = "repository", !.remark = unnoted] /\ unnoted \in BOOLEAN
  BY <1>3
<1> HIDE DEF line, a, b, noted, unnoted
<1>7. a \in Lines /\ a.indent = line.indent /\ b \in Lines /\ b.indent = line.indent + 2 /\ b.key = "repository"
  <2>1. a \in Lines /\ a.indent = line.indent
    BY <1>2, <1>4, <1>5 DEF Lines
  <2>2. line.indent + 2 \in Nat
    BY <1>3
  <2>3. b \in Lines /\ b.indent = line.indent + 2 /\ b.key = "repository"
    BY <1>2, <1>4, <1>6, <2>2 DEF Lines
  <2>4. QED
    BY <2>1, <2>3
<1>8. a \in S /\ b \in S
  BY <1>2, <1>7 DEF Nested
<1>9. first \in Seq(S) /\ Len(first) = p - 1
  <2>1. p - 1 \in 0 .. Len(lines) /\ 1 \in 1 .. Len(lines) + 1
    BY <1>1
  <2> HIDE DEF S
  <2>2. QED
    BY <2>1, Part DEF S
<1>10. last \in Seq(S)
  <2>1. p + 1 \in 1 .. Len(lines) + 1 /\ Len(lines) \in 0 .. Len(lines)
    BY <1>1
  <2>2. QED
    BY <2>1, Part
<1> HIDE DEF S, a, b, first, last, line
<1>11. two \in Seq(S) /\ Len(two) = 2 /\ two[1] = a
  BY <1>8
<1> HIDE DEF two
<1>12. /\ first \o two \in Seq(S) /\ Len(first \o two) = (p - 1) + 2
       /\ \A i \in 1 .. (p - 1) + 2 : (first \o two)[i] = IF i <= p - 1 THEN first[i] ELSE two[i - (p - 1)]
  <2>1. /\ first \o two \in Seq(S) /\ Len(first \o two) = Len(first) + Len(two)
        /\ \A i \in 1 .. Len(first) + Len(two) :
              (first \o two)[i] = IF i <= Len(first) THEN first[i] ELSE two[i - Len(first)]
    BY <1>9, <1>11, ConcatProperties
  <2>2. QED
    BY <1>9, <1>11, <2>1
<1>13. (first \o two)[p] = a
  <2>1. p \in 1 .. (p - 1) + 2 /\ ~ (p <= p - 1) /\ p - (p - 1) = 1
    BY <1>1
  <2>2. QED
    BY <1>11, <1>12, <2>1
<1>14. /\ (first \o two) \o last \in Seq(S)
       /\ Len((first \o two) \o last) = Len(first \o two) + Len(last)
       /\ \A i \in 1 .. Len(first \o two) + Len(last) :
             ((first \o two) \o last)[i] = IF i <= Len(first \o two) THEN (first \o two)[i] ELSE last[i - Len(first \o two)]
  BY <1>10, <1>12, ConcatProperties
<1>15. p \in 1 .. Len((first \o two) \o last) /\ ((first \o two) \o last)[p] = a
  <2>1. Len(last) \in Nat /\ Len(first \o two) = p + 1
    BY <1>1, <1>10, <1>12
  <2>2. p \in 1 .. Len(first \o two) + Len(last) /\ p <= Len(first \o two)
    BY <1>1, <2>1
  <2>3. QED
    BY <1>13, <1>14, <2>2
<1>16. Promoted(lines, p) = IF line.value = Null /\ ~line.remark THEN lines ELSE (first \o two) \o last
  BY DEF Promoted, line, first, two, last, a, b
<1>17. CASE line.value = Null /\ ~line.remark
  BY <1>2, <1>16, <1>17 DEF line
<1>18. CASE ~ (line.value = Null /\ ~line.remark)
  BY <1>2, <1>7, <1>14, <1>15, <1>16, <1>18 DEF S
<1>19. QED
  BY <1>17, <1>18

LEMMA SetFieldTyped ==
    ASSUME NEW deep, deep \subseteq Nat, 0 \in deep, NEW text \in Seq(Nested(deep)),
           NEW field \in Fields, NEW value \in Texts
    PROVE  set_field(text, field, value) \in Seq(Nested(deep))
<1> DEFINE S == Nested(deep)
           p == ParentIndex(text)
           lines == Promoted(text, p)
           c == find_key(lines, p, field)
<1>1. S \subseteq Lines
  BY DEF Nested
<1>2. text \in Seq(Lines) /\ Len(text) \in Nat
  BY <1>1
<1>3. field \in Texts /\ field # "image" /\ Null \in Texts /\ "image" \in Texts
  BY FieldFacts, ValuesAssumption
<1>4. set_field(text, field, value) =
         CASE p = 0 -> text \o <<Line(0, "image", Null), Line(2, field, value)>>
           [] p # 0 /\ c # 0 -> IF lines[c].value = value THEN text ELSE [lines EXCEPT ![c].value = value]
           [] OTHER -> InsertAt(lines, p + 1, Child(lines[p], field, value))
  BY DEF set_field
<1>5. p \in 0 .. Len(text) /\ (p # 0 => p \in 1 .. Len(text) /\ text[p].key = "image")
  BY <1>2, ImageIsFirst
<1> HIDE DEF p
<1>6. p # 0 => lines \in Seq(S) /\ p \in 1 .. Len(lines) /\ lines[p].indent \in deep
  BY <1>5, PromotedTyped
<1>7. CASE p = 0
  <2>1. Line(0, "image", Null) \in S /\ Line(2, field, value) \in S
    <3>1. 0 + 2 = 2 /\ 2 \in Nat
      OBVIOUS
    <3>2. Line(0, "image", Null) \in Nested(deep)
      BY <1>3, <3>1, NewIsNested
    <3>3. Line(2, field, value) \in Nested(deep)
      BY <1>3, <3>1, NewIsNested
    <3>4. QED
      BY <3>2, <3>3
  <2> HIDE DEF S
  <2>3. <<Line(0, "image", Null), Line(2, field, value)>> \in Seq(S)
    BY <2>1
  <2>4. text \o <<Line(0, "image", Null), Line(2, field, value)>> \in Seq(S)
    BY <2>3, ConcatProperties DEF S
  <2>5. QED
    BY <1>4, <1>7, <2>4 DEF S
<1>8. CASE p # 0 /\ c # 0
  <2>1. lines \in Seq(S) /\ Len(lines) \in Nat /\ p \in 1 .. Len(lines)
    BY <1>6, <1>8
  <2>2. c \in 1 .. Len(lines)
    <3> DEFINE Inside == {i \in p + 1 .. Len(lines) : lines[i].key = field /\ lines[i].indent > 0 /\ InBlock(lines, p, i)}
    <3> HIDE DEF lines
    <3>1. c = IF Inside = {} THEN 0 ELSE Min(Inside)
      BY DEF find_key
    <3>2. Inside \subseteq 1 .. Len(lines)
      BY <2>1
    <3> HIDE DEF Inside, c
    <3>3. Inside # {}
      BY <1>8, <3>1
    <3>4. Min(Inside) \in Inside
      BY <2>1, <3>2, <3>3, MinOfBounded
    <3>5. QED
      BY <3>1, <3>2, <3>3, <3>4
  <2> HIDE DEF c, lines
  <2>3. lines[c] \in S /\ lines[c] \in Lines
    BY <1>1, <2>1, <2>2
  <2>4. [lines[c] EXCEPT !.value = value] \in S
    <3>1. /\ [lines[c] EXCEPT !.value = value] \in Lines
          /\ [lines[c] EXCEPT !.value = value].indent = lines[c].indent
          /\ [lines[c] EXCEPT !.value = value].key = lines[c].key
      BY <2>3 DEF Lines
    <3>2. QED
      BY <2>3, <3>1 DEF Nested
  <2>5. [lines EXCEPT ![c].value = value] \in Seq(S)
    <3> HIDE DEF S
    <3>1. QED
      BY <2>1, <2>2, <2>4, ExceptSeq
  <2>6. QED
    BY <1>4, <1>8, <2>5 DEF c, lines
<1>9. CASE p # 0 /\ c = 0
  <2> DEFINE new == Child(lines[p], field, value)
             first == SubSeq(lines, 1, p)
             last == SubSeq(lines, p + 1, Len(lines))
  <2>1. lines \in Seq(S) /\ Len(lines) \in Nat /\ p \in 1 .. Len(lines) /\ lines[p].indent \in deep
    BY <1>6, <1>9
  <2>2. new \in S
    <3> DEFINE indent == lines[p].indent
    <3>1. indent \in Nat /\ indent \in deep
      BY <2>1
    <3> HIDE DEF indent
    <3>2. indent + 2 \in Nat
      BY <3>1
    <3>3. Line(indent + 2, field, value) \in S
      BY <1>3, <3>1, <3>2, NewIsNested
    <3>4. QED
      BY <3>3 DEF Child, indent
  <2> HIDE DEF lines
  <2>3. first \in Seq(S)
    <3>1. 1 \in 1 .. Len(lines) + 1 /\ p \in 0 .. Len(lines)
      BY <2>1
    <3>2. QED
      BY <2>1, <3>1, Part
  <2>4. last \in Seq(S)
    <3>1. p + 1 \in 1 .. Len(lines) + 1 /\ Len(lines) \in 0 .. Len(lines)
      BY <2>1
    <3>2. QED
      BY <2>1, <3>1, Part
  <2>5. InsertAt(lines, p + 1, new) = (first \o <<new>>) \o last
    <3>1. (p + 1) - 1 = p
      BY <2>1
    <3>2. InsertAt(lines, p + 1, new) = SubSeq(lines, 1, (p + 1) - 1) \o <<new>> \o SubSeq(lines, p + 1, Len(lines))
      BY DEF InsertAt
    <3>3. QED
      BY <3>1, <3>2
  <2> HIDE DEF first, last, new, S
  <2>6. <<new>> \in Seq(S)
    BY <2>2
  <2>7. first \o <<new>> \in Seq(S)
    BY <2>3, <2>6, ConcatProperties
  <2>8. (first \o <<new>>) \o last \in Seq(S)
    BY <2>4, <2>7, ConcatProperties
  <2>9. set_field(text, field, value) = InsertAt(lines, p + 1, new)
    BY <1>4, <1>9 DEF new, lines
  <2>10. QED
    BY <2>5, <2>8, <2>9 DEF S
<1>10. QED
  BY <1>7, <1>8, <1>9

LEMMA RewrittenTyped ==
    ASSUME NEW deep, deep \subseteq Nat, 0 \in deep, NEW lines \in Seq(Nested(deep)), NEW image \in Images, NEW mode
    PROVE  Rewritten(lines, image, mode) \in Seq(Nested(deep))
<1> DEFINE S == Nested(deep)
           text == WithImage(lines, image)
           middle == IF Contains(lines, Banner) THEN <<>> ELSE <<Banner>>
           named == set_field(lines, "repository", image.repository)
<1>1. image.repository \in Texts /\ image.tag \in Texts /\ image.digest \in Texts
  BY BlockTypes
<1>2. "repository" \in Fields /\ "tag" \in Fields /\ "digest" \in Fields
  BY DEF Fields
<1>3. lines \o middle \o NewBlock(image) \in Seq(S)
  <2>1. NewBlock(image) \in Seq(S) /\ Banner \in S
    BY BlockIsNested
  <2>2. middle \in Seq(S)
    <3> HIDE DEF S
    <3>1. QED
      BY <2>1
  <2> HIDE DEF S, middle
  <2>3. lines \o middle \in Seq(S)
    BY <2>2, ConcatProperties DEF S
  <2>4. QED
    BY <2>1, <2>3, ConcatProperties
<1>4. named \in Seq(S)
  BY <1>1, <1>2, SetFieldTyped
<1> HIDE DEF named
<1>5. set_field(named, "tag", image.tag) \in Seq(S)
  BY <1>1, <1>2, <1>4, SetFieldTyped
<1>6. text \in Seq(S)
  BY <1>3, <1>5 DEF WithImage, named
<1> HIDE DEF text
<1>7. set_field(text, "digest", image.digest) \in Seq(S)
  BY <1>1, <1>2, <1>6, SetFieldTyped
<1>8. QED
  BY <1>6, <1>7 DEF Rewritten, text

-----------------------------------------------------------------------------
(* A bump of a file of two levels.                                         *)

\* Helm reads the image in the file, in a block that a next bump finds.
Carries(lines, image, mode) ==
    /\ \E p \in DOMAIN lines : Ready(lines, p)
    /\ Reading(lines, "repository", image.repository) /\ Reading(lines, "tag", image.tag)
    /\ image.digest # "-" /\ (mode = "on" \/ (mode = "if-present" /\ Says(lines, "digest") # {}))
         => Reading(lines, "digest", image.digest)

Added(lines) == IF classify(lines) = "needs-block" THEN Header(lines) ELSE <<>>

\* The rest is that of the file that was found, and the comments of the fields are kept.
Keeps(lines, text, added) ==
    /\ Rest(text) = Rest(lines) \o added
    /\ \A field \in Fields : Remarked(lines, field) \subseteq Remarked(text, field)

LEMMA FieldNames == "repository" \in Fields /\ "tag" \in Fields /\ "digest" \in Fields
BY DEF Fields

LEMMA RestIsSeq ==
    ASSUME NEW lines \in Seq(Lines)
    PROVE  Rest(lines) \in Seq(Lines) /\ Rest(lines) \o <<>> = Rest(lines)
<1>1. PICK g : RestTable(lines, g) /\ Rest(lines) = g[Len(lines)]
  BY RestHasTable
<1>2. Len(lines) \in 0 .. Len(lines)
  BY LineFacts
<1>3. Rest(lines) \in Seq(Lines)
  BY <1>1, <1>2, RestTyped
<1>4. QED
  BY <1>3, ConcatEmptySeq

LEMMA NamesImage ==
    ASSUME NEW lines \in Seq(Lines), TwoLevel(lines), classify(lines) # "malformed", NEW image \in Images
    PROVE  LET text == WithImage(lines, image)
           IN  /\ \E p : Ready(text, p)
               /\ Reading(text, "repository", image.repository) /\ Reading(text, "tag", image.tag)
               /\ Keeps(lines, text, Added(lines))
<1> DEFINE text == WithImage(lines, image)
           named == set_field(lines, "repository", image.repository)
<1>1. image.repository \in Texts /\ image.tag \in Texts
  BY BlockTypes
<1>2. CASE classify(lines) = "needs-block"
  <2>1. Without(lines)
    BY <1>2, NeedsBlock
  <2>2. PICK h : Appended(lines, text, h, image)
    BY <1>2, WithImageAppends
  <2>3. Ready(text, h)
    BY <2>1, <2>2, AppendedReady
  <2>4. Reading(text, "repository", image.repository) /\ Reading(text, "tag", image.tag)
    BY <2>1, <2>2, AppendedReads
  <2>5. Rest(text) = Rest(lines) \o Added(lines)
    BY <1>2, WithImageAppends DEF Added
  <2>6. \A field \in Fields : Remarked(lines, field) = {}
    <3>1. \A field \in Fields : Says(lines, field) = {}
      BY <2>1, WithoutSays
    <3>2. QED
      BY <3>1 DEF Remarked
  <2> HIDE DEF text
  <2>7. QED
    BY <2>3, <2>4, <2>5, <2>6 DEF Keeps, text
<1>3. CASE classify(lines) = "ok"
  <2>1. PICK p : Ready(lines, p)
    BY <1>3, OkIsReady
  <2>2. Ready(named, p) /\ SetsField(lines, named, "repository", image.repository)
    BY <1>1, <2>1, FieldNames, SetField
  <2>3. text = set_field(named, "tag", image.tag)
    BY <1>3 DEF WithImage
  <2> HIDE DEF text, named
  <2>4. Ready(text, p) /\ SetsField(named, text, "tag", image.tag)
    BY <1>1, <2>2, <2>3, FieldNames, SetField
  <2>5. Reading(named, "repository", image.repository) /\ Rest(named) = Rest(lines)
        /\ \A g \in Fields : Remarked(lines, g) \subseteq Remarked(named, g)
    BY <2>2 DEF SetsField
  <2>6. "repository" \in Fields \ {"tag"}
    BY FieldNames
  <2>7. Reading(text, "repository", image.repository) /\ Reading(text, "tag", image.tag)
    BY <2>4, <2>5, <2>6 DEF SetsField
  <2>8. Rest(text) = Rest(named) /\ \A g \in Fields : Remarked(named, g) \subseteq Remarked(text, g)
    BY <2>4 DEF SetsField
  <2>9. Added(lines) = <<>>
    BY <1>3 DEF Added
  <2>10. Keeps(lines, text, Added(lines))
    <3>1. Rest(text) = Rest(lines) \o Added(lines)
      BY <2>5, <2>8, <2>9, RestIsSeq
    <3>2. \A g \in Fields : Remarked(lines, g) \subseteq Remarked(text, g)
      BY <2>5, <2>8
    <3>3. QED
      BY <3>1, <3>2 DEF Keeps
  <2>11. QED
    BY <2>4, <2>7, <2>10 DEF text
<1>4. classify(lines) \in {"malformed", "needs-block", "ok"}
  BY DEF classify
<1>5. QED
  BY <1>2, <1>3, <1>4

\* A digest in a block is one the bump looks for.
LEMMA HasDigest ==
    ASSUME NEW lines, NEW p, Ready(lines, p)
    PROVE  re_has_digest(lines) <=> Says(lines, "digest") # {}
<1>1. DOMAIN lines = 1 .. Len(lines)
  BY LineFacts DEF Ready
<1>2. ASSUME NEW i \in Says(lines, "digest")
      PROVE  re_has_digest(lines)
  <2>1. Says(lines, "digest") = {j \in Block(lines, p) : lines[j].key = "digest"}
    BY FieldNames, SaysBlock
  <2>2. i \in Block(lines, p) /\ lines[i].key = "digest"
    BY <2>1
  <2>3. lines[i].indent = 2
    BY <2>2, ReadyBlock
  <2>4. i \in DOMAIN lines
    BY <1>1, <2>2 DEF Block
  <2>5. QED
    BY <2>2, <2>3, <2>4 DEF re_has_digest
<1>3. ASSUME re_has_digest(lines)
      PROVE  Says(lines, "digest") # {}
  <2>1. PICK i \in DOMAIN lines : lines[i].key = "digest"
    BY <1>3 DEF re_has_digest
  <2>2. i \in Says(lines, "digest")
    BY <2>1 DEF Ready, TwoLevel
  <2>3. QED
    BY <2>2
<1>4. QED
  BY <1>2, <1>3 DEF re_has_digest

LEMMA Rewrites ==
    ASSUME NEW lines \in Seq(Lines), TwoLevel(lines), classify(lines) # "malformed", NEW image \in Images, NEW mode
    PROVE  /\ Carries(Rewritten(lines, image, mode), image, mode)
           /\ Keeps(lines, Rewritten(lines, image, mode), Added(lines))
<1> DEFINE text == WithImage(lines, image)
           done == Rewritten(lines, image, mode)
<1>1. PICK p : Ready(text, p)
  BY NamesImage
<1>2. /\ Reading(text, "repository", image.repository) /\ Reading(text, "tag", image.tag)
      /\ Keeps(lines, text, Added(lines))
  BY NamesImage
<1>3. done = IF WantsDigest(text, image, mode) THEN set_field(text, "digest", image.digest) ELSE text
  BY DEF Rewritten
<1>4. image.digest \in Texts
  BY BlockTypes
<1> HIDE DEF text, done
<1>5. CASE WantsDigest(text, image, mode)
  <2>1. Ready(done, p) /\ SetsField(text, done, "digest", image.digest)
    BY <1>1, <1>3, <1>4, <1>5, FieldNames, SetField
  <2>2. "repository" \in Fields \ {"digest"} /\ "tag" \in Fields \ {"digest"}
    BY FieldNames
  <2>3. Reading(done, "repository", image.repository) /\ Reading(done, "tag", image.tag)
        /\ Reading(done, "digest", image.digest)
    BY <1>2, <2>1, <2>2 DEF SetsField
  <2>4. p \in DOMAIN done
    BY <2>1, LineFacts DEF Ready
  <2>5. Carries(done, image, mode)
    BY <2>1, <2>3, <2>4 DEF Carries
  <2>6. Keeps(lines, done, Added(lines))
    <3>1. Rest(done) = Rest(text) /\ \A g \in Fields : Remarked(text, g) \subseteq Remarked(done, g)
      BY <2>1 DEF SetsField
    <3>2. QED
      BY <1>2, <3>1 DEF Keeps
  <2>7. QED
    BY <2>5, <2>6 DEF done
<1>6. CASE ~WantsDigest(text, image, mode)
  <2>1. done = text /\ p \in DOMAIN done
    BY <1>1, <1>3, <1>6, LineFacts DEF Ready
  <2>2. ~ (image.digest # "-" /\ (mode = "on" \/ (mode = "if-present" /\ Says(text, "digest") # {})))
    BY <1>1, <1>6, HasDigest DEF WantsDigest
  <2>3. Carries(done, image, mode)
    BY <1>1, <1>2, <2>1, <2>2 DEF Carries
  <2>4. QED
    BY <1>2, <2>1, <2>3 DEF done
<1>7. QED
  BY <1>5, <1>6

\* What the next bump finds.
LEMMA CarriedIsOk ==
    ASSUME NEW lines, NEW image, NEW mode, Carries(lines, image, mode)
    PROVE  lines \in Seq(Lines) /\ TwoLevel(lines) /\ classify(lines) = "ok"
<1>1. PICK p \in DOMAIN lines : Ready(lines, p)
  BY DEF Carries
<1>2. Says(lines, "tag") # {}
  BY DEF Carries, Reading
<1>3. QED
  BY <1>1, <1>2, FieldNames, ReadyIsOk DEF Ready

LEMMA Reruns ==
    ASSUME NEW lines, NEW image \in Images, NEW mode, Carries(lines, image, mode)
    PROVE  Rewritten(lines, image, mode) = lines
<1>1. PICK p : Ready(lines, p)
  BY DEF Carries
<1>2. classify(lines) = "ok"
  BY CarriedIsOk
<1>3. image.repository \in Texts /\ image.tag \in Texts /\ image.digest \in Texts
  BY BlockTypes
<1>4. Reading(lines, "repository", image.repository) /\ Reading(lines, "tag", image.tag)
  BY DEF Carries
<1>5. set_field(lines, "repository", image.repository) = lines /\ set_field(lines, "tag", image.tag) = lines
  BY <1>1, <1>3, <1>4, FieldNames, SetFieldAgain
<1>6. WithImage(lines, image) = lines
  BY <1>2, <1>5 DEF WithImage
<1>7. ASSUME WantsDigest(lines, image, mode)
      PROVE  set_field(lines, "digest", image.digest) = lines
  <2>1. image.digest # "-" /\ (mode = "on" \/ (mode = "if-present" /\ Says(lines, "digest") # {}))
    BY <1>1, <1>7, HasDigest DEF WantsDigest
  <2>2. Reading(lines, "digest", image.digest)
    BY <2>1 DEF Carries
  <2>3. QED
    BY <1>1, <1>3, <2>2, FieldNames, SetFieldAgain
<1>8. QED
  BY <1>6, <1>7 DEF Rewritten

-----------------------------------------------------------------------------
(* The invariant of the bumps.                                             *)

FileInv ==
    /\ FileTypeOK
    /\ bumped = NoBump => file = found
    /\ TwoLevel(found) /\ bumped # NoBump =>
          Carries(file, bumped.image, bumped.mode) /\ Keeps(found, file, Added(found))

Depths == {0} \cup {found[j].indent : j \in DOMAIN found}

LEMMA DepthsAreNumbers ==
    ASSUME found \in Seq(Lines)
    PROVE  Depths \subseteq Nat /\ 0 \in Depths
BY LineFacts DEF Depths

LEMMA FileIsNested ==
    ASSUME FileTypeOK
    PROVE  file \in Seq(Nested(Depths))
<1>1. file \in Seq(Lines) /\ DOMAIN file = 1 .. Len(file) /\ \A i \in DOMAIN file : file[i] \in Lines
  BY LineFacts DEF FileTypeOK
<1>2. \A i \in DOMAIN file : \E indent \in Depths :
          \/ file[i].indent = indent
          \/ file[i].indent = indent + 2 /\ file[i].key # "image"
  BY DEF FileTypeOK, Depths
<1>3. \A i \in DOMAIN file : file[i] \in Nested(Depths)
  BY <1>1, <1>2 DEF Nested
<1>4. QED
  BY <1>1, <1>3, SeqOfNested

LEMMA NestedIsTyped ==
    ASSUME found \in Seq(Lines), file' \in Seq(Nested(Depths))
    PROVE  /\ file' \in Seq(Lines)
           /\ \A i \in DOMAIN file' : \E indent \in Depths :
                 \/ file'[i].indent = indent
                 \/ file'[i].indent = indent + 2 /\ file'[i].key # "image"
<1>1. Nested(Depths) \subseteq Lines
  BY DEF Nested
<1>2. \A i \in DOMAIN file' : file'[i] \in Nested(Depths)
  OBVIOUS
<1>3. file' \in Seq(Lines)
  BY <1>1
<1>4. QED
  BY <1>2, <1>3 DEF Nested

LEMMA FileInitInv == FileInit => FileInv
<1> SUFFICES ASSUME FileInit PROVE FileInv
  OBVIOUS
<1>1. file \in Seq(Lines) /\ found = file /\ bumped = NoBump /\ refused = FALSE
  BY ValuesAssumption DEF FileInit
<1>2. \A i \in DOMAIN file : \E indent \in {0} \cup {found[j].indent : j \in DOMAIN found} :
          \/ file[i].indent = indent
          \/ file[i].indent = indent + 2 /\ file[i].key # "image"
  BY <1>1
<1>3. FileTypeOK
  BY <1>1, <1>2 DEF FileTypeOK
<1>4. QED
  BY <1>1, <1>3 DEF FileInv

LEMMA FileNextInv == FileInv /\ [FileNext]_fileVars => FileInv'
<1> SUFFICES ASSUME FileInv, [FileNext]_fileVars PROVE FileInv'
  OBVIOUS
<1>1. /\ FileTypeOK /\ file \in Seq(Lines) /\ found \in Seq(Lines) /\ refused \in BOOLEAN
      /\ bumped \in {NoBump} \cup [image : Images, mode : Modes]
  BY DEF FileInv, FileTypeOK
<1>2. CASE UNCHANGED fileVars
  <2>1. file' = file /\ found' = found /\ bumped' = bumped /\ refused' = refused
    BY <1>2 DEF fileVars
  <2>2. FileTypeOK'
    BY <1>1, <2>1 DEF FileTypeOK
  <2>3. QED
    BY <2>1, <2>2 DEF FileInv
<1>3. ASSUME NEW image \in Images, NEW mode \in Modes, Bump(image, mode)
      PROVE  FileInv'
  <2>1. CASE classify(file) = "malformed"
    <3>1. refused' = TRUE /\ file' = file /\ found' = found /\ bumped' = bumped
      BY <1>3, <2>1 DEF Bump
    <3>2. FileTypeOK'
      BY <1>1, <3>1 DEF FileTypeOK
    <3>3. QED
      BY <3>1, <3>2 DEF FileInv
  <2>2. CASE classify(file) # "malformed"
    <3>1. /\ file' = Rewritten(file, image, mode) /\ bumped' = [image |-> image, mode |-> mode]
          /\ found' = found /\ refused' = refused
      BY <1>3, <2>2 DEF Bump
    <3>2. bumped' # NoBump /\ bumped'.image = image /\ bumped'.mode = mode
          /\ bumped' \in {NoBump} \cup [image : Images, mode : Modes]
      BY <3>1 DEF NoBump
    <3>3. FileTypeOK'
      <4>1. file \in Seq(Nested(Depths)) /\ Depths \subseteq Nat /\ 0 \in Depths
        BY <1>1, FileIsNested, DepthsAreNumbers
      <4>2. file' \in Seq(Nested(Depths))
        BY <3>1, <4>1, RewrittenTyped
      <4>3. /\ file' \in Seq(Lines)
            /\ \A i \in DOMAIN file' : \E indent \in Depths :
                  \/ file'[i].indent = indent
                  \/ file'[i].indent = indent + 2 /\ file'[i].key # "image"
        BY <1>1, <4>2, NestedIsTyped
      <4>4. Depths = {0} \cup {found'[j].indent : j \in DOMAIN found'}
        BY <3>1 DEF Depths
      <4>5. QED
        BY <1>1, <3>1, <3>2, <4>3, <4>4 DEF FileTypeOK
    <3>4. ASSUME TwoLevel(found)
          PROVE  Carries(file', image, mode) /\ Keeps(found, file', Added(found))
      <4>1. CASE bumped = NoBump
        <5>1. file = found
          BY <4>1 DEF FileInv
        <5>2. QED
          BY <1>1, <2>2, <3>1, <3>4, <5>1, Rewrites
      <4>2. CASE bumped # NoBump
        <5>1. Carries(file, bumped.image, bumped.mode) /\ Keeps(found, file, Added(found))
          BY <3>4, <4>2 DEF FileInv
        <5>2. TwoLevel(file) /\ classify(file) = "ok"
          BY <5>1, CarriedIsOk
        <5>3. Carries(file', image, mode) /\ Keeps(file, file', Added(file))
          BY <1>1, <2>2, <3>1, <5>2, Rewrites
        <5>4. Added(file) = <<>>
          BY <5>2 DEF Added
        <5>5. Rest(file') = Rest(file)
          BY <1>1, <5>3, <5>4, RestIsSeq DEF Keeps
        <5>6. Keeps(found, file', Added(found))
          BY <5>1, <5>3, <5>5 DEF Keeps
        <5>7. QED
          BY <5>3, <5>6
      <4>3. QED
        BY <4>1, <4>2
    <3>5. TwoLevel(found') /\ bumped' # NoBump =>
             Carries(file', bumped'.image, bumped'.mode) /\ Keeps(found', file', Added(found'))
      BY <3>1, <3>2, <3>4
    <3>6. QED
      BY <3>2, <3>3, <3>5 DEF FileInv
  <2>3. QED
    BY <2>1, <2>2
<1>4. QED
  BY <1>2, <1>3 DEF FileNext

LEMMA FileInvAlways == FileSpec => []FileInv
BY FileInitInv, FileNextInv, PTL DEF FileSpec

\* A bump turns a file of lines into a file of lines and adds none but at the
\* top or two columns below a line it has found, whatever the file
\* (set_field, bump_values.py).
THEOREM FileTypeCorrect == FileSpec => []FileTypeOK
<1>1. FileInv => FileTypeOK
  BY DEF FileInv
<1>2. QED
  BY <1>1, FileInvAlways, PTL

\* After any sequence of bumps of a file of two levels Helm reads the repository,
\* the tag and the digest of the last build, each from one line (find_key and
\* set_field look at lines, Helm at mappings).
THEOREM HelmAlwaysReadsTheImage == FileSpec => []HelmReadsTheImage
<1>1. FileInv => HelmReadsTheImage
  <2> SUFFICES ASSUME FileInv, TwoLevel(found), bumped # NoBump
               PROVE  /\ TwoLevel(file)
                      /\ Reading(file, "repository", bumped.image.repository)
                      /\ Reading(file, "tag", bumped.image.tag)
                      /\ bumped.image.digest # "-"
                         /\ (bumped.mode = "on" \/ (bumped.mode = "if-present" /\ Says(file, "digest") # {}))
                           => Reading(file, "digest", bumped.image.digest)
    BY DEF HelmReadsTheImage, Reading
  <2>1. Carries(file, bumped.image, bumped.mode)
    BY DEF FileInv
  <2>2. TwoLevel(file)
    BY <2>1, CarriedIsOk
  <2>3. QED
    BY <2>1, <2>2 DEF Carries
<1>2. QED
  BY <1>1, FileInvAlways, PTL

\* Everything but the values of the three fields stays as it was, in its order,
\* and no comment of a field is lost: a file without a block gets one header,
\* the first time (set_yaml_field.py:8).
THEOREM RestIsNeverTouched == FileSpec => []RestIsUntouched
<1>1. FileInv => RestIsUntouched
  <2> SUFFICES ASSUME FileInv, TwoLevel(found)
               PROVE  /\ Rest(file) = Rest(found) \o (IF classify(found) = "needs-block" /\ bumped # NoBump
                                                     THEN Header(found) ELSE <<>>)
                      /\ \A field \in Fields : Remarked(found, field) \subseteq Remarked(file, field)
    BY DEF RestIsUntouched
  <2>1. CASE bumped = NoBump
    <3>1. file = found /\ found \in Seq(Lines)
      BY <2>1 DEF FileInv, FileTypeOK
    <3>2. Rest(found) \o <<>> = Rest(found)
      BY <3>1, RestIsSeq
    <3>3. QED
      BY <2>1, <3>1, <3>2
  <2>2. CASE bumped # NoBump
    <3>1. Keeps(found, file, Added(found))
      BY <2>2 DEF FileInv
    <3>2. Added(found) = IF classify(found) = "needs-block" /\ bumped # NoBump THEN Header(found) ELSE <<>>
      BY <2>2 DEF Added
    <3>3. QED
      BY <3>1, <3>2 DEF Keeps
  <2>3. QED
    BY <2>1, <2>2
<1>2. QED
  BY <1>1, FileInvAlways, PTL

\* A rerun of the build that was written last changes nothing, so that
\* gitops-bump.sh has nothing to commit (bump_values.py, gitops-bump.sh).
THEOREM RerunsNeverChange == FileSpec => []RerunsChangeNothing
<1>1. FileInv => RerunsChangeNothing
  <2> SUFFICES ASSUME FileInv, TwoLevel(found), bumped # NoBump
               PROVE  Rewritten(file, bumped.image, bumped.mode) = file
    BY DEF RerunsChangeNothing
  <2>1. Carries(file, bumped.image, bumped.mode)
    BY DEF FileInv
  <2>2. bumped.image \in Images
    BY DEF FileInv, FileTypeOK
  <2>3. QED
    BY <2>1, <2>2, Reruns
<1>2. QED
  BY <1>1, FileInvAlways, PTL

=============================================================================
