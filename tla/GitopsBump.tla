----------------------------- MODULE GitopsBump -----------------------------
(***************************************************************************)
(* scripts/ci/gitops-bump.sh --push: a build writes the tag of its images  *)
(* into the values file of each service, commits that on the revision of   *)
(* main it has checked out, and pushes the commit to the branch Argo CD    *)
(* watches.  A push that stays rejected is answered by one fetch and one   *)
(* rebase; a conflict ends the build.  Builds overlap (a trunk build, a    *)
(* human with `make gitops-bump PUSH=1`); humans roll back with git revert *)
(* and merge the branch into main.                                         *)
(*                                                                         *)
(* Only commits that change a tag are kept: the source commits between two *)
(* revisions touch no values file, so replaying them changes no tag and    *)
(* conflicts with nothing.  A commit is its patch; a head is the set of    *)
(* commits it reaches, with the tags of its tree.                          *)
(***************************************************************************)
EXTENDS Integers, Sequences

CONSTANTS
    Builds,        \* runs of gitops-bump.sh
    Services,      \* one values file each
    Malformed,     \* services whose `image:` block was hand-edited into a shape that is refused
    MaxRevision,   \* bound: revisions of main that are built
    MaxRollbacks,  \* bound: git reverts
    MaxFaults      \* bound: git commands that fail, lost answers of a push

\* The tag of an image is the revision it was built from; 0 is the placeholder.
Tags == 0 .. MaxRevision

ASSUME GitopsAssumption ==
    /\ Malformed \subseteq Services
    /\ MaxRevision \in Nat \ {0}
    /\ MaxRollbacks \in Nat
    /\ MaxFaults \in Nat

VARIABLES
    commits,    \* every commit made anywhere, as its patch
    main,       \* head of GITOPS_BASE
    revision,   \* the revision main is at
    gitops,     \* head of GITOPS_BRANCH on the remote
    build,      \* the runs of the script
    rollbacks,  \* how many reverts have happened
    faults      \* how many faults have happened

vars == <<commits, main, revision, gitops, build, rollbacks, faults>>

TagMap == [Services -> Tags]
Change == [old : Tags, new : Tags]
Patches == UNION {[S -> Change] : S \in (SUBSET Services) \ {{}}}
Heads == [commits : SUBSET (1 .. Len(commits)), tags : TagMap]
NoBranch == [commits |-> {}]

Attempts == 3  \* ecom_ci_retry 3

\* pc: "push" and "repush" are the two retry loops, tries counts their failures.
\* "pushed" and "nothing" exit 0; "refused" (malformed values) and "rejected"
\* exit 1, "failed" is a commit that failed.
Active == {"bump", "commit", "push", "fetch", "rebase", "repush"}
Ended == {"pushed", "nothing", "refused", "rejected", "failed"}
NoBuild == [pc |-> "none"]
BuildStates ==
    [pc : Active \cup Ended, services : (SUBSET Services) \ {{}}, tag : Tags, orig : Heads,
     tree : TagMap, head : Heads, bump : Nat, upstream : Heads, tries : 0 .. Attempts - 1]

TypeOK ==
    /\ commits \in Seq(Patches)
    /\ main \in Heads
    /\ revision \in 1 .. MaxRevision
    /\ gitops \in {NoBranch} \cup Heads
    /\ build \in [Builds -> {NoBuild} \cup BuildStates]
    /\ rollbacks \in 0 .. MaxRollbacks
    /\ faults \in 0 .. MaxFaults

Placeholders == [commits |-> {}, tags |-> [s \in Services |-> 0]]

Init ==
    /\ commits = <<>>
    /\ main = Placeholders
    /\ revision = 1
    /\ gitops \in {NoBranch, Placeholders}
    /\ build = [b \in Builds |-> NoBuild]
    /\ rollbacks = 0
    /\ faults = 0

Fault == faults < MaxFaults /\ faults' = faults + 1

-----------------------------------------------------------------------------
(* The values files.                                                       *)

image_block_state(s) == IF s \in Malformed THEN "malformed" ELSE "ok"

\* Every file that is not refused is rewritten, also when another one is refused.
bump_values(tags, services, tag) ==
    [s \in Services |-> IF s \in services /\ image_block_state(s) = "ok" THEN tag ELSE tags[s]]

\* The patch between two trees, one values file per service.
Diff(from, to) ==
    [s \in {r \in Services : from[r] # to[r]} |-> [old |-> from[s], new |-> to[s]]]

-----------------------------------------------------------------------------
(* One run of the script.                                                  *)

\* The agent's checkout of main, and an images.txt with the tag of this build,
\* or of an earlier one when a human runs the bump again.
Checkout(b, services, tag) ==
    /\ build[b] = NoBuild
    /\ tag <= revision
    /\ build' = [build EXCEPT ![b] =
           [pc |-> "bump", services |-> services, tag |-> tag, orig |-> main,
            tree |-> main.tags, head |-> main, bump |-> 0, upstream |-> main, tries |-> 0]]
    /\ UNCHANGED <<commits, main, revision, gitops, rollbacks, faults>>

\* A refused file ends the run with the others rewritten.
run_bump(b) ==
    LET r == build[b]
        tree == bump_values(r.tree, r.services, r.tag)
    IN  /\ r.pc = "bump"
        /\ build' = [build EXCEPT ![b].tree = tree, ![b].pc =
               CASE \E s \in r.services : image_block_state(s) = "malformed" -> "refused"
                 [] tree = r.head.tags -> "nothing"
                 [] OTHER -> "commit"]
        /\ UNCHANGED <<commits, main, revision, gitops, rollbacks, faults>>

\* git reset --hard ORIG_HEAD and git clean.
restore_workspace(r) == [r EXCEPT !.head = r.orig, !.tree = r.orig.tags]

EndWith(b, pc) == build' = [build EXCEPT ![b] = [restore_workspace(@) EXCEPT !.pc = pc]]

CommitBump(b) ==
    LET r == build[b]
        id == Len(commits) + 1
    IN  /\ r.pc = "commit"
        /\ \/ /\ commits' = Append(commits, Diff(r.head.tags, r.tree))
              /\ build' = [build EXCEPT ![b].pc = "push", ![b].bump = id,
                     ![b].head = [commits |-> r.head.commits \cup {id}, tags |-> r.tree]]
              /\ UNCHANGED faults
           \/ EndWith(b, "failed") /\ Fault /\ UNCHANGED commits
        /\ UNCHANGED <<main, revision, gitops, rollbacks>>

\* The remote takes a push that is a fast-forward of its branch.
FastForward(head) == gitops = NoBranch \/ gitops.commits \subseteq head.commits

\* Fault: the loop makes one attempt too many.
ecom_ci_retry_once_more(b, pc) ==
    IF build[b].tries < Attempts
    THEN build' = [build EXCEPT ![b].tries = @ + 1]
    ELSE build' = [build EXCEPT ![b].tries = 0, ![b].pc = pc]

\* One failed attempt of a retry loop; after the last one the script goes on at pc.
ecom_ci_retry(b, pc) ==
    IF build[b].tries + 1 < Attempts
    THEN build' = [build EXCEPT ![b].tries = @ + 1]
    ELSE IF pc = "rejected"
         THEN EndWith(b, pc)
         ELSE build' = [build EXCEPT ![b].tries = 0, ![b].pc = pc]

\* Fault: the branch is pushed with --force.
PushForce(b, loop, otherwise) ==
    /\ build[b].pc = loop
    /\ gitops' = build[b].head
    /\ build' = [build EXCEPT ![b] =
           [restore_workspace(@) EXCEPT !.pc = "pushed"]]
    /\ UNCHANGED <<commits, main, revision, rollbacks, faults>>

\* git push HEAD:refs/heads/$BRANCH, once: accepted, accepted with the answer
\* lost, rejected, or not sent at all.
Push(b, loop, otherwise) ==
    LET r == build[b]
    IN  /\ r.pc = loop
        /\ \/ /\ FastForward(r.head)
              /\ gitops' = r.head
              /\ build' = [build EXCEPT ![b] =
                     [restore_workspace(@) EXCEPT !.pc = "pushed"]]
              /\ UNCHANGED faults
           \/ FastForward(r.head) /\ gitops' = r.head /\ ecom_ci_retry(b, otherwise) /\ Fault
           \/ ~FastForward(r.head) /\ ecom_ci_retry(b, otherwise) /\ UNCHANGED <<gitops, faults>>
           \/ ecom_ci_retry(b, otherwise) /\ Fault /\ UNCHANGED gitops
        /\ UNCHANGED <<commits, main, revision, rollbacks>>

PushBump(b) == Push(b, "push", "fetch")
RepushBump(b) == Push(b, "repush", "rejected")

FetchBranch(b) ==
    /\ build[b].pc = "fetch"
    /\ \/ /\ gitops # NoBranch
          /\ build' = [build EXCEPT ![b].pc = "rebase", ![b].upstream = gitops]
          /\ UNCHANGED faults
       \/ gitops = NoBranch /\ EndWith(b, "rejected") /\ UNCHANGED faults
       \/ EndWith(b, "rejected") /\ Fault
    /\ UNCHANGED <<commits, main, revision, gitops, rollbacks>>

\* The three-way merge of a patch: per file, one side changed or both agree.
Applies(patch, tags) == \A s \in DOMAIN patch : tags[s] \in {patch[s].old, patch[s].new}
Patched(patch, tags) == [s \in Services |-> IF s \in DOMAIN patch THEN patch[s].new ELSE tags[s]]

\* git rebase drops a commit that upstream has: the same one, one with the same
\* patch, or one that leaves nothing to change.
Upstream(r) ==
    LET patch == commits[r.bump]
    IN  \/ r.bump \in r.upstream.commits
        \/ \E c \in r.upstream.commits \ r.head.commits : commits[c] = patch
        \/ \A s \in DOMAIN patch : r.upstream.tags[s] = patch[s].new

\* Fault: a conflict is resolved in favour of the build (-X theirs).
RebaseTheirs(b) ==
    LET r == build[b]
        tags == Patched(commits[r.bump], r.upstream.tags)
        id == Len(commits) + 1
    IN  /\ r.pc = "rebase"
        /\ IF Upstream(r)
           THEN /\ build' = [build EXCEPT ![b].pc = "repush", ![b].head = r.upstream, ![b].tree = r.upstream.tags]
                /\ UNCHANGED commits
           ELSE /\ commits' = Append(commits, Diff(r.upstream.tags, tags))
                /\ build' = [build EXCEPT ![b].pc = "repush", ![b].bump = id, ![b].tree = tags,
                       ![b].head = [commits |-> r.upstream.commits \cup {id}, tags |-> tags]]
        /\ UNCHANGED <<main, revision, gitops, rollbacks, faults>>

\* Fault: the bump is replayed even if upstream has it.
RebaseReapplies(b) ==
    LET r == build[b]
        patch == commits[r.bump]
        tags == Patched(patch, r.upstream.tags)
        id == Len(commits) + 1
    IN  /\ r.pc = "rebase"
        /\ commits' = Append(commits, patch)
        /\ build' = [build EXCEPT ![b].pc = "repush", ![b].bump = id, ![b].tree = tags,
               ![b].head = [commits |-> r.upstream.commits \cup {id}, tags |-> tags]]
        /\ UNCHANGED <<main, revision, gitops, rollbacks, faults>>

RebaseBump(b) ==
    LET r == build[b]
        patch == commits[r.bump]
        tags == Patched(patch, r.upstream.tags)
        id == Len(commits) + 1
    IN  /\ r.pc = "rebase"
        /\ \/ /\ Upstream(r)
              /\ build' = [build EXCEPT ![b].pc = "repush", ![b].head = r.upstream,
                                        ![b].tree = r.upstream.tags]
              /\ UNCHANGED commits
           \/ /\ ~Upstream(r) /\ Applies(patch, r.upstream.tags)
              /\ commits' = Append(commits, Diff(r.upstream.tags, tags))
              /\ build' = [build EXCEPT ![b].pc = "repush", ![b].bump = id, ![b].tree = tags,
                     ![b].head = [commits |-> r.upstream.commits \cup {id}, tags |-> tags]]
           \/ /\ ~Upstream(r) /\ ~Applies(patch, r.upstream.tags)
              /\ EndWith(b, "rejected")
              /\ UNCHANGED commits
        /\ UNCHANGED <<main, revision, gitops, rollbacks, faults>>

-----------------------------------------------------------------------------
(* Humans.                                                                 *)

\* A source commit on main.
SourceCommit ==
    /\ revision < MaxRevision
    /\ revision' = revision + 1
    /\ UNCHANGED <<commits, main, gitops, build, rollbacks, faults>>

\* The branch is merged into main, which makes a new revision.
MergeIntoMain ==
    /\ gitops # NoBranch
    /\ gitops.commits # main.commits
    /\ revision < MaxRevision
    /\ main' = [commits |-> main.commits \cup gitops.commits, tags |-> gitops.tags]
    /\ revision' = revision + 1
    /\ UNCHANGED <<commits, gitops, build, rollbacks, faults>>

\* Rollback runbook: git revert of a bump on the branch, and a push.
Rollback(c) ==
    LET tags == [s \in Services |-> IF s \in DOMAIN commits[c] THEN commits[c][s].old ELSE gitops.tags[s]]
    IN  /\ rollbacks < MaxRollbacks
        /\ gitops # NoBranch /\ c \in gitops.commits
        /\ \A s \in DOMAIN commits[c] : gitops.tags[s] = commits[c][s].new
        /\ commits' = Append(commits, Diff(gitops.tags, tags))
        /\ gitops' = [commits |-> gitops.commits \cup {Len(commits) + 1}, tags |-> tags]
        /\ rollbacks' = rollbacks + 1
        /\ UNCHANGED <<main, revision, build, faults>>

-----------------------------------------------------------------------------
Script(b) ==
    run_bump(b) \/ CommitBump(b) \/ PushBump(b) \/ FetchBranch(b) \/ RebaseBump(b) \/ RepushBump(b)

Next ==
    \/ \E b \in Builds :
          \/ \E S \in (SUBSET Services) \ {{}}, t \in Tags \ {0} : Checkout(b, S, t)
          \/ Script(b)
    \/ SourceCommit
    \/ MergeIntoMain
    \/ \E c \in 1 .. Len(commits) : Rollback(c)

Spec == Init /\ [][Next]_vars

-----------------------------------------------------------------------------
(* Properties.                                                             *)

\* A tag on the branch changes by a rollback, or by a build of that service
\* which had the tag it replaces in the revision it started from: no build
\* undoes what it has not seen, and none touches a service it did not build
\* (gitops-bump.sh:201-206, "Never auto-resolved").
NothingUnseenIsReplaced ==
    [][gitops # NoBranch =>
          \A s \in Services : gitops'.tags[s] # gitops.tags[s] =>
              \/ rollbacks' # rollbacks
              \/ \E b \in Builds : /\ build[b].pc \in {"push", "repush"}
                                   /\ s \in build[b].services
                                   /\ gitops'.tags[s] = build[b].tag
                                   /\ gitops.tags[s] = build[b].orig.tags[s]]_vars

\* A build that says it has pushed has, whatever happened on the way: for every
\* service it built, the branch holds a commit that set the service's tag to
\* the build's, unless main had that tag already; and it holds it from then on,
\* whatever other builds push (gitops-bump.sh:207-234).
PushedBumpsStay ==
    \A b \in Builds : build[b].pc = "pushed" =>
        \A s \in build[b].services :
            \/ build[b].orig.tags[s] = build[b].tag
            \/ \E c \in gitops.commits : s \in DOMAIN commits[c] /\ commits[c][s].new = build[b].tag

\* A commit on the branch, made after a run began, that has set the tag of one
\* of its services back to what the run found: a rollback, or the bump of an
\* older image.
SetBack(r, c) ==
    /\ c \in gitops.commits \ r.orig.commits
    /\ \E s \in r.services \cap DOMAIN commits[c] :
          commits[c][s].new = r.orig.tags[s] /\ r.orig.tags[s] # r.tag

\* "Re-running the same commit produces no new bump commit" (setup.md:437): of
\* two runs from one checkout with one manifest, in whatever order and however
\* they overlap with others, at most one commit reaches the branch, unless
\* somebody has set a tag back in the meantime.
RerunsAddNothing ==
    \A b, c \in Builds :
        /\ build[b] # NoBuild /\ build[c] # NoBuild /\ gitops # NoBranch
        /\ build[b].orig = build[c].orig /\ build[b].tag = build[c].tag
        /\ build[b].services = build[c].services
        /\ build[b].bump \in gitops.commits /\ build[c].bump \in gitops.commits
        /\ \A k \in gitops.commits : ~SetBack(build[b], k)
        => build[b].bump = build[c].bump
=============================================================================
