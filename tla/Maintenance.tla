---- MODULE Maintenance ----
(* The typed Git maintenance workflows of repository_maintenance.rs: fetch,   *)
(* update, merge, test, commit, push and pull request, each a chain of        *)
(* bounded child processes with a fresh snapshot between them.                *)
(*                                                                            *)
(* A commit is the set of changes its history holds, so a merge is a union,   *)
(* "ahead" and "behind" are differences and the diff from a merge base is the *)
(* difference of a head and its base. Validation runs source-controlled       *)
(* programs, which may commit, edit, switch branch or reconfigure remotes.    *)
(* Any child may fail or exceed the deadline. The operator edits, commits and *)
(* resolves conflicts between workflows; the canonical repository only grows. *)
(* The checkout is always on a branch and the bounded path lists never        *)
(* overflow.                                                                  *)
EXTENDS Integers, FiniteSets

CONSTANTS
    Change,         \* the changes a commit can hold
    Path,
    PathOf,         \* the path a change touches
    Main, Topic,    \* the default branch and the branch of a pull request
    MaxMeddles,     \* how often validation programs may touch the checkout
    Missing         \* a branch or a remote that is not there

MaintenanceParameters == PathOf \in [Change -> Path] /\ Main # Topic /\ MaxMeddles \in Nat

VARIABLES
    upstream,   \* the default branch of the canonical repository
    fork,       \* the branches of the operator's fork
    prs,        \* the pull requests created
    repo,       \* the checkout; a merge stopped by conflicts is in dirty, and merging
    op,         \* the workflow in progress and its local variables
    meddles

maintenanceVars == <<upstream, fork, prs, repo, op, meddles>>

Branch == {Main, Topic}
RemoteName == {"origin", "upstream"}
History == SUBSET Change
Remotes == [RemoteName -> {"canonical", "fork", "unsafe", "none"}]
Idle == [kind |-> "idle"]

HeadCommit == repo.heads[repo.branch]
Clean == repo.dirty = {}
Paths(changes) == {PathOf[c] : c \in changes}

(* topology and canonical remote of a snapshot *)
CanonicalRemote(remotes) ==
    IF \E n \in RemoteName : remotes[n] = "canonical"
    THEN IF remotes["origin"] = "canonical" THEN "origin" ELSE "upstream"
    ELSE Missing

Topology(remotes) ==
    IF remotes["origin"] = "canonical" THEN "canonical"
    ELSE IF remotes["origin"] # "none"
    THEN IF CanonicalRemote(remotes) # Missing THEN "fork" ELSE "missing"
    ELSE IF CanonicalRemote(remotes) # Missing THEN "canonical" ELSE "unknown"

(* what later checks compare with an earlier snapshot *)
Snapshot == [head |-> HeadCommit, branch |-> repo.branch, dirty |-> repo.dirty, remotes |-> repo.remotes]

SafeRemote(name) == repo.remotes[name] \in {"canonical", "fork"}
OperatorFork == SafeRemote("origin") /\ Topology(repo.remotes) = "fork"
CanonicalUpstream(name) == SafeRemote(name) /\ CanonicalRemote(repo.remotes) = name

SameRemotes(snap) == repo.remotes = snap.remotes
SameCheckout(snap) == HeadCommit = snap.head /\ repo.branch = snap.branch

(* seeded fault: the snapshot after validation is compared without its HEAD *)
PostValidationStateAnyHead(snap) == repo.branch = snap.branch /\ Clean /\ SameRemotes(snap)

PostValidationState(snap) == SameCheckout(snap) /\ Clean /\ SameRemotes(snap)

(* seeded fault: the diff is taken from what the fork already holds *)
ChangedPathsFromFork(head) == Paths(head \ fork[Main])

(* canonical-base diff, from the merge base of the tracking ref and HEAD *)
ChangedPaths(head) == Paths(head \ repo.tracking)

PrDiffScoped(head, scope, needed) ==
    /\ needed => ChangedPaths(head) # {}
    /\ ChangedPaths(head) \subseteq scope

DirtyIsScoped(scope) == Paths(repo.dirty) \subseteq scope

(* ---- effects of the child processes ---- *)

Keep == UNCHANGED <<upstream, fork, prs, meddles>>
Finished == op' = Idle

Fetched == [repo EXCEPT !.tracking = upstream]

(* the branch checked out in r also holds these changes *)
Advanced(r, changes) ==
    [r EXCEPT !.heads = [r.heads EXCEPT ![r.branch] = r.heads[r.branch] \cup changes]]

Committed(r) == [Advanced(r, r.dirty) EXCEPT !.dirty = {}, !.merging = FALSE]

Rewired(name, to) == [repo EXCEPT !.remotes = [repo.remotes EXCEPT ![name] = to]]

(* merging may stop on conflicts when both sides touch a path *)
Merges(target) ==
    LET behind == target \ HeadCommit
    IN  {Advanced(repo, target)} \cup
        IF Paths(HeadCommit \ target) \cap Paths(behind) = {} THEN {}
        ELSE {[repo EXCEPT !.dirty = behind, !.merging = TRUE]}

(* push HEAD to a branch of origin, never by force *)
PushOrigin(branch) ==
    IF repo.remotes["origin"] = "canonical"
    THEN upstream' = upstream \cup HeadCommit /\ UNCHANGED fork
    ELSE /\ fork[branch] # Missing => fork[branch] \subseteq HeadCommit
         /\ fork' = [fork EXCEPT ![branch] = HeadCommit] /\ UNCHANGED upstream

(* switch to a new topic branch, unless it is the one checked out *)
OnTopicBranch(branch) ==
    [repo EXCEPT !.heads = [repo.heads EXCEPT ![branch] = HeadCommit], !.branch = branch]
TopicAvailable(branch) ==
    repo.branch = branch \/ (repo.heads[branch] = Missing /\ ~repo.merging)

(* ---- the workflows ---- *)

Begin(kind, branch, scope, pc) ==
    op' = [kind |-> kind, branch |-> branch, scope |-> scope, snap |-> Snapshot, pc |-> pc]

(* any check that fails, and any child that fails or expires, ends the        *)
(* workflow and leaves everything as it is                                    *)
Abandon == op # Idle /\ Finished /\ UNCHANGED <<upstream, fork, prs, repo, meddles>>

(* fetch and update add the canonical remote a fork is missing *)
EnsureCanonicalRemote ==
    IF Topology(repo.remotes) = "missing" /\ repo.remotes["upstream"] = "none"
    THEN repo' = Rewired("upstream", "canonical")
    ELSE CanonicalRemote(repo.remotes) # Missing /\ UNCHANGED repo

StartFetch(kind) ==
    /\ op = Idle /\ Clean /\ EnsureCanonicalRemote
    /\ Begin(kind, repo.branch, {}, "fetch") /\ Keep

StartMerge ==
    /\ op = Idle /\ Clean
    /\ \E remote \in RemoteName : CanonicalUpstream(remote)
    /\ Begin("merge", repo.branch, {}, "fetch") /\ UNCHANGED repo /\ Keep

StartTest ==
    op = Idle /\ Begin("test", repo.branch, {}, "validate") /\ UNCHANGED repo /\ Keep

StartPush ==
    /\ op = Idle /\ Clean /\ OperatorFork
    /\ Begin("push", repo.branch, {}, "validate") /\ UNCHANGED repo /\ Keep

StartPr(scope) ==
    /\ op = Idle /\ scope # {} /\ DirtyIsScoped(scope)
    /\ OperatorFork /\ CanonicalUpstream(CanonicalRemote(repo.remotes))
    /\ Begin("pr", Topic, scope, "fetch") /\ UNCHANGED repo /\ Keep

(* the commit itself may fail, on the topic branch created for it *)
CommitScoped(scope, branch) ==
    /\ op = Idle /\ scope # {} /\ repo.dirty # {}
    /\ DirtyIsScoped(scope) /\ TopicAvailable(branch)
    /\ repo' \in {OnTopicBranch(branch), Committed(OnTopicBranch(branch))}
    /\ UNCHANGED op /\ Keep

FetchOnly ==
    /\ op.kind = "fetch" /\ repo.remotes["origin"] # "unsafe"
    /\ repo' = Fetched /\ Finished /\ Keep

UpdateFetch ==
    /\ op.kind = "update" /\ op.pc = "fetch"
    /\ Topology(repo.remotes) # "canonical" => repo.remotes["origin"] # "unsafe"
    /\ repo' = Fetched /\ op' = [op EXCEPT !.pc = "integrate"] /\ Keep

(* a canonical checkout is only fast-forwarded, a fork merges *)
UpdateIntegrate ==
    /\ op.kind = "update" /\ op.pc = "integrate" /\ Clean
    /\ LET target == repo.tracking
       IN  IF target \subseteq HeadCommit \/ (Topology(repo.remotes) = "canonical" /\ ~HeadCommit \subseteq target)
           THEN Finished /\ UNCHANGED repo
           ELSE /\ repo' \in Merges(target)
                /\ op' = IF repo'.merging THEN Idle
                         ELSE [op EXCEPT !.pc = "validate", !.snap = Snapshot']
    /\ Keep

MergeFetched ==
    /\ op.kind = "merge"
    /\ SameCheckout(op.snap) /\ SameRemotes(op.snap) /\ Clean
    /\ repo' \in {[r EXCEPT !.tracking = upstream] : r \in Merges(upstream)}
    /\ Finished /\ Keep

(* a clean checkout of the topic branch that already differs from the base is *)
(* reused; otherwise the scoped changes are committed there                   *)
PrPrepare ==
    /\ op.kind = "pr" /\ op.pc = "fetch"
    /\ SameCheckout(op.snap) /\ SameRemotes(op.snap) /\ repo.dirty = op.snap.dirty
    /\ repo' = Fetched /\ op' = [op EXCEPT !.pc = "commit"] /\ Keep

PrCommit ==
    /\ op.kind = "pr" /\ op.pc = "commit"
    /\ PrDiffScoped(HeadCommit, op.scope, FALSE)
    /\ \/ /\ repo.branch = op.branch /\ Clean /\ ChangedPaths(HeadCommit) # {}
          /\ UNCHANGED repo
       \/ /\ ~Clean /\ TopicAvailable(op.branch)
          /\ repo' = Committed(OnTopicBranch(op.branch))
    /\ PrDiffScoped(HeadCommit', op.scope, TRUE)
    /\ op' = [op EXCEPT !.pc = "validate", !.snap = Snapshot'] /\ Keep

ValidationPasses ==
    /\ op # Idle /\ op.pc = "validate"
    /\ op' = IF op.kind = "test" THEN Idle ELSE [op EXCEPT !.pc = "verify"]
    /\ UNCHANGED repo /\ Keep

(* update and push publish HEAD once the state has been verified again *)
Publish ==
    /\ op.kind \in {"update", "push"} /\ op.pc = "verify"
    /\ PostValidationState(op.snap)
    /\ IF op.kind = "update" /\ Topology(repo.remotes) = "canonical" THEN UNCHANGED <<upstream, fork>>
       ELSE OperatorFork /\ PushOrigin(op.branch)
    /\ Finished /\ UNCHANGED <<prs, repo, meddles>>

(* the base is fetched and compared once more before the topic branch is pushed *)
PrVerify ==
    /\ op.kind = "pr" /\ op.pc = "verify"
    /\ PostValidationState(op.snap) /\ CanonicalUpstream(CanonicalRemote(repo.remotes))
    /\ repo' = Fetched /\ op' = [op EXCEPT !.pc = "push"] /\ Keep

PrPush ==
    /\ op.kind = "pr" /\ op.pc = "push"
    /\ PrDiffScoped(HeadCommit, op.scope, TRUE) /\ OperatorFork
    /\ PushOrigin(op.branch)
    /\ op' = [op EXCEPT !.pc = "create"] /\ UNCHANGED <<prs, repo, meddles>>

PrCreate ==
    /\ op.kind = "pr" /\ op.pc = "create" /\ PostValidationState(op.snap)
    /\ prs' = prs \cup {[commit |-> fork[op.branch], scope |-> op.scope]}
    /\ Finished /\ UNCHANGED <<upstream, fork, repo, meddles>>

(* ---- everybody else ---- *)

(* what a validation program may do to the checkout *)
Meddle ==
    /\ op # Idle /\ op.pc = "validate" /\ meddles < MaxMeddles
    /\ repo' \in {[repo EXCEPT !.dirty = @ \cup {c}] : c \in Change \ (HeadCommit \cup repo.dirty)}
            \cup {Advanced(repo, {c}) : c \in Change \ HeadCommit}
            \cup {[repo EXCEPT !.branch = b] : b \in {b \in Branch : repo.heads[b] # Missing}}
            \cup {Rewired("origin", to) : to \in {"canonical", "fork", "unsafe"}}
    /\ meddles' = meddles + 1
    /\ UNCHANGED <<upstream, fork, prs, op>>

(* the operator, between workflows *)
Edit(c) ==
    /\ op = Idle /\ c \notin HeadCommit \cup repo.dirty
    /\ repo' = [repo EXCEPT !.dirty = @ \cup {c}] /\ UNCHANGED op /\ Keep

CommitByHand == op = Idle /\ ~Clean /\ repo' = Committed(repo) /\ UNCHANGED op /\ Keep

Switch(b) ==
    /\ op = Idle /\ Clean /\ b # repo.branch
    /\ repo' = IF repo.heads[b] = Missing THEN OnTopicBranch(b) ELSE [repo EXCEPT !.branch = b]
    /\ UNCHANGED op /\ Keep

Upstream ==
    /\ upstream' \in {upstream \cup {c} : c \in Change} \cup {upstream \cup p.commit : p \in prs}
    /\ UNCHANGED <<fork, prs, repo, op, meddles>>

(* ---- specification ---- *)

MaintenanceInit ==
    /\ upstream = {} /\ prs = {} /\ op = Idle /\ meddles = 0
    /\ fork = [b \in Branch |-> IF b = Main THEN {} ELSE Missing]
    /\ \E origin \in {"canonical", "fork"}, other \in {"canonical", "none"} :
         repo = [branch |-> Main, heads |-> [b \in Branch |-> IF b = Main THEN {} ELSE Missing],
                 dirty |-> {}, merging |-> FALSE, tracking |-> {},
                 remotes |-> [n \in RemoteName |-> IF n = "origin" THEN origin ELSE other]]

Workflow ==
    \/ \E kind \in {"fetch", "update"} : StartFetch(kind)
    \/ StartMerge \/ StartTest \/ StartPush
    \/ \E scope \in SUBSET Path : StartPr(scope) \/ \E b \in Branch : CommitScoped(scope, b)
    \/ FetchOnly \/ UpdateFetch \/ UpdateIntegrate \/ MergeFetched
    \/ PrPrepare \/ PrCommit \/ ValidationPasses \/ Publish
    \/ PrVerify \/ PrPush \/ PrCreate \/ Abandon

MaintenanceNext ==
    Workflow \/ Meddle \/ CommitByHand \/ Upstream
    \/ \E c \in Change : Edit(c)
    \/ \E b \in Branch : Switch(b)

MaintenanceSpec == MaintenanceInit /\ [][MaintenanceNext]_maintenanceVars

(* ---- properties ---- *)

(* A pull request the service opens never carries a change outside the path   *)
(* scope it was given, whatever the fork, the validation programs and the     *)
(* canonical repository did in the meantime: pr_receipt compares the diff     *)
(* from the canonical base before the commit, after it and before the push.   *)
PullRequestScoped ==
    [][\A p \in prs' \ prs : Paths(p.commit \ upstream) \subseteq p.scope]_maintenanceVars

(* What a workflow publishes is the commit its validation was started on, it  *)
(* goes to the branch the workflow was started for, and never to the          *)
(* canonical repository, although validation runs programs that may commit,   *)
(* switch branches and reconfigure remotes (ensure_post_validation_state,     *)
(* ensure_operator_fork_remote).                                              *)
PushedAsValidated ==
    [][/\ op' # op => upstream' = upstream
       /\ fork' # fork => fork' = [fork EXCEPT ![op.branch] = op.snap.head]]_maintenanceVars

(* Nothing leaves the checkout but what was validated and, of that, only what *)
(* was asked for.                                                             *)
PublishedAsValidated == PushedAsValidated /\ PullRequestScoped

====
