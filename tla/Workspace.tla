------------------------------ MODULE Workspace ------------------------------
(***************************************************************************)
(* The workspace and its private Git journal: WorkspaceRuntime in          *)
(* workspace_runtime.rs, the operator tools that change files (operator.rs *)
(* LocalOperatorTools), the managed helper and the seeded files            *)
(* (agent_context.rs), and the start-up of main.rs that runs them in this  *)
(* order.                                                                  *)
(*                                                                         *)
(* A checkpoint takes Git's index lock, compares the files with the        *)
(* snapshot of the last one, and commits what changed, except what was     *)
(* dirty when the process started or is staged now: that is the work of    *)
(* the operator, who edits, stages and commits in the same directory at    *)
(* any moment.  Tools of several lanes write while a checkpoint runs, and  *)
(* the process may be killed between any two of its steps.                 *)
(*                                                                         *)
(* A file is its content, a number, 0 when there is none; a tree gives     *)
(* every path its content.  The log's content is how much was appended.    *)
(* Paths the journal ignores, symbolic links, file modes, the bound on the *)
(* inventory and Git's own failures are left out.                          *)
(***************************************************************************)
EXTENDS Naturals, FiniteSets

CONSTANTS
  File,         \* ordinary files; every one is seeded when it is missing
  Helper,       \* scripts/workspace.py, of which every release ships its own
  LOG,          \* WORKSPACE_LOG.md
  Text,         \* what tools and the operator write
  MaxRelease,
  MAX_LOG,      \* MAX_FILE_BYTES: a log that long must be rotated first
  MaxWrites, MaxGits, MaxCrashes,
  Nothing

Path == File \cup {Helper, LOG}
Tree == [Path -> Nat]
Empty == [p \in Path |-> 0]

\* A checkpoint under way: what it commits, the files and the staged paths it
\* saw, those it reports, and, once built, the tip it replaces, its tree and the
\* next index.
Checkpoint ==
    [step: {"log", "build", "move", "finish"}, changed: SUBSET Path, current: Tree,
     staged: SUBSET Path, protected: SUBSET Path, old: Tree, tree: Tree, next: Tree]

ASSUME WorkspaceAssumption ==
    /\ Text \subseteq Nat
    /\ Nothing \notin Checkpoint \cup Tree

VARIABLES
  work, index, head,  \* the directory, Git's index and the tip's tree
  parent,             \* the tree the tip replaced, or Nothing
  repo,               \* "none" | "unborn" | "born"
  lock,               \* .git/index.lock: "free" | "agent" | "operator" | "stale"
  release, receipt,   \* the running release; the helper's recorded revision
  proc,               \* "down" | "new" | "context" | "receipt" | "ready" | "serve"
  due,                \* finished tools whose checkpoint has not run
  previous,           \* in memory: the last completed snapshot
  preexisting,        \* in memory: paths that were dirty at the start
  ck,                 \* the checkpoint under way, or Nothing
  writes, gits, crashes,
  kept,               \* history: dirty without a break since the start
  theirs,             \* history: reported to, or left behind by, the operator
  raced               \* history: written while a checkpoint was under way

onDisk == <<work, index, head, parent, repo, lock, release, receipt>>
memory == <<previous, preexisting, ck, due>>
bounds == <<writes, gits, crashes>>
history == <<kept, theirs, raced>>
workspaceVars == <<onDisk, proc, memory, bounds, history>>

-----------------------------------------------------------------------------
(* What Git says. *)

\* git diff HEAD, which fails on an unborn branch and then counts as empty,
\* and git ls-files --others.
DirtyIn(r, h, i, w) ==
    {p \in Path :
        \/ r = "born" /\ w[p] # h[p] /\ (h[p] # 0 \/ i[p] # 0)
        \/ w[p] # 0 /\ i[p] = 0}

dirty_paths == DirtyIn(repo, head, index, work)

\* git diff --cached
Staged == {p \in Path : index[p] # head[p]}

\* Every step ends with the history brought up to date.
Remember(reported) ==
    LET now == DirtyIn(repo', head', index', work')
        ahead == {p \in Path : previous'[p] # head'[p]}
    IN  /\ kept' = IF proc = "down" /\ proc' = "new"
                     THEN IF repo = "none" THEN {} ELSE now
                     ELSE kept \cap now
        /\ theirs' = (theirs \cup reported) \cap (now \cup ahead)
        /\ raced' = (raced \cup {p \in Path : ck # Nothing /\ work'[p] # work[p]})
                     \cap (now \cup ahead \cup IF ck' # Nothing THEN Path ELSE {})

-----------------------------------------------------------------------------
(* The checkpoint. *)

\* The checkpoint answers.  While the process starts, an error ends it.
Answer(ok) ==
    /\ ck' = Nothing
    /\ proc' = CASE proc = "new" /\ ok -> "context"
                 [] proc = "ready" /\ ok -> "serve"
                 [] proc = "serve" -> "serve"
                 [] OTHER -> "down"
    \* Serving begins with the source checkout, which ends in a checkpoint.
    /\ due' = IF proc = "serve" THEN due - 1 ELSE 1

\* Mutant: an error forgets what was not journaled.
FailsForgetting == Answer(FALSE) /\ previous' = work

\* An error drops the lock file and leaves the last snapshot as it was.
Fails == Answer(FALSE) /\ UNCHANGED previous

\* Mutant: only what is staged is the operator's.
ProtectedOnceStaged == Staged

Protected == (preexisting \cap dirty_paths) \cup Staged

Changed == {p \in Path : work[p] # previous[p]}

Journaled == Changed \ Protected

Busy ==
    /\ ck = Nothing /\ due > 0 /\ proc \in {"new", "ready", "serve"}
    /\ lock # "free"
    /\ Fails
    /\ UNCHANGED <<onDisk, preexisting, bounds>>
    /\ Remember({})

Begin ==
    /\ ck = Nothing /\ due > 0 /\ proc \in {"new", "ready", "serve"}
    /\ lock = "free"
    /\ preexisting' = preexisting \cap dirty_paths
    /\ UNCHANGED <<work, index, head, parent, repo, release, receipt, bounds>>
    /\ IF Journaled = {}
         THEN /\ IF Changed = {}
                   THEN Answer(TRUE) /\ previous' = work
                   ELSE Fails
              /\ UNCHANGED lock
              /\ Remember(Changed)
         ELSE IF LOG \in Protected
         THEN Fails /\ UNCHANGED lock /\ Remember({})
         ELSE /\ ck' = [step |-> "log", changed |-> Journaled, current |-> work,
                        staged |-> Staged, protected |-> Changed \cap Protected,
                        old |-> Empty, tree |-> Empty, next |-> Empty]
              /\ lock' = "agent"
              /\ UNCHANGED <<proc, due, previous>>
              /\ Remember({})

WriteLog ==
    /\ ck # Nothing /\ ck.step = "log"
    /\ IF work[LOG] < MAX_LOG
         THEN /\ work' = [work EXCEPT ![LOG] = @ + 1]
              /\ ck' = [ck EXCEPT !.step = "build", !.changed = @ \cup {LOG}]
              /\ UNCHANGED <<lock, proc, due, previous>>
         ELSE /\ Fails
              /\ lock' = "free"
              /\ UNCHANGED work
    /\ UNCHANGED <<index, head, parent, repo, release, receipt, preexisting, bounds>>
    /\ Remember({})

Commit(tree) == [p \in Path |-> IF p \in ck.changed THEN work[p] ELSE tree[p]]

\* Every changed file is read again and must be what the snapshot saw, or gone.
Build ==
    /\ ck # Nothing /\ ck.step = "build"
    /\ IF \A p \in ck.changed \ {LOG} : work[p] \in {0, ck.current[p]}
         THEN /\ ck' = [ck EXCEPT !.step = "move", !.old = head,
                                  !.tree = Commit(head), !.next = Commit(index)]
              /\ UNCHANGED <<lock, proc, due, previous>>
         ELSE Fails /\ lock' = "free"
    /\ UNCHANGED <<work, index, head, parent, repo, release, receipt,
                   preexisting, bounds>>
    /\ Remember({})

\* git update-ref HEAD <commit> <old>
MoveHead ==
    /\ ck # Nothing /\ ck.step = "move"
    /\ IF head = ck.old
         THEN /\ head' = ck.tree
              /\ parent' = IF repo = "born" THEN head ELSE Nothing
              /\ repo' = "born"
              /\ ck' = [ck EXCEPT !.step = "finish"]
              /\ UNCHANGED <<lock, proc, due, previous>>
         ELSE /\ Fails
              /\ lock' = "free"
              /\ UNCHANGED <<head, parent, repo>>
    /\ UNCHANGED <<work, index, release, receipt, preexisting, bounds>>
    /\ Remember({})

\* The lock file becomes the index, and a new snapshot the last one.
FinishCheckpoint ==
    /\ ck # Nothing /\ ck.step = "finish"
    /\ index' = ck.next
    /\ lock' = "free"
    /\ previous' = work
    /\ Answer(ck.protected = {})
    /\ UNCHANGED <<work, head, parent, repo, release, receipt, preexisting, bounds>>
    /\ Remember(ck.protected)

-----------------------------------------------------------------------------
(* Starting. *)

\* WorkspaceRuntime::new: a repository that was there is taken as it is, with
\* its dirty paths; a new one adopts every file.
Start ==
    /\ proc = "down"
    /\ proc' = "new" /\ due' = 1
    /\ release' \in release..MaxRelease
    /\ repo' = IF repo = "none" THEN "unborn" ELSE repo
    /\ previous' = IF repo = "none" THEN Empty ELSE work
    /\ preexisting' = IF repo = "none" THEN {} ELSE dirty_paths
    /\ UNCHANGED <<work, index, head, parent, lock, receipt, ck, bounds>>
    /\ Remember(Staged \cup dirty_paths)

\* AgentContext::new: the helper first, then its receipt, then the seeds.
ReplacesHelper == work[Helper] \in {0, release} \cup ({receipt} \ {0})

RefreshHelper ==
    /\ proc = "context"
    /\ work' = [work EXCEPT ![Helper] = IF ReplacesHelper THEN release ELSE @]
    /\ proc' = "receipt"
    /\ UNCHANGED <<index, head, parent, repo, lock, release, receipt, memory, bounds>>
    /\ Remember({})

SeedFiles ==
    /\ proc = "receipt"
    /\ receipt' = IF work[Helper] = release THEN release ELSE receipt
    /\ work' = [p \in Path |-> IF p \in File /\ work[p] = 0 THEN 1 ELSE work[p]]
    /\ proc' = "ready"
    /\ UNCHANGED <<index, head, parent, repo, lock, release, memory, bounds>>
    /\ Remember({})

-----------------------------------------------------------------------------
(* The tools.  Each one, and a tool that was interrupted, ends in a          *)
(* checkpoint, whether it changed anything or not.                          *)

Writes(paths, text) ==
    /\ writes < MaxWrites
    /\ writes' = writes + 1
    /\ work' = [p \in Path |-> IF p \in paths THEN text ELSE work[p]]

ToolEnds ==
    /\ proc = "serve" /\ due < 2
    /\ due' = due + 1
    /\ UNCHANGED <<index, head, parent, repo, lock, release, receipt, proc,
                   previous, preexisting, ck, gits, crashes>>
    /\ Remember({})

\* write_file, create_file, edit_file and delete_file
Tool(p, text) == Writes({p}, text) /\ ToolEnds

\* One shell command changes several files before its one checkpoint.
Exec(text) ==
    \E changed \in SUBSET Path :
        Cardinality(changed) > 1 /\ Writes(changed, text) /\ ToolEnds

\* A tool that reads, or that refuses: create_file of a path that exists.
IdleTool ==
    /\ proc = "serve" /\ due = 0 /\ writes < MaxWrites
    /\ writes' = writes + 1
    /\ due' = 1
    /\ UNCHANGED <<onDisk, proc, previous, preexisting, ck, gits, crashes>>
    /\ Remember({})

-----------------------------------------------------------------------------
(* The operator at the same directory. *)

OperatorEdits(p) ==
    /\ \E text \in Text \cup {0} : Writes({p}, text)
    /\ UNCHANGED <<index, head, parent, repo, lock, release, receipt, proc,
                   memory, gits, crashes>>
    /\ Remember({})

Git ==
    /\ repo # "none" /\ gits < MaxGits
    /\ gits' = gits + 1
    /\ UNCHANGED <<work, release, receipt, proc, memory, writes, crashes>>

\* git add, which refuses while the index is locked
Stages(p) ==
    /\ Git /\ lock = "free"
    /\ index[p] # work[p]
    /\ index' = [index EXCEPT ![p] = work[p]]
    /\ UNCHANGED <<head, parent, repo, lock>>
    /\ Remember({})

\* git commit locks the index, waits for the message and commits the index.
OpensCommit ==
    /\ Git /\ lock = "free" /\ Staged # {}
    /\ lock' = "operator"
    /\ UNCHANGED <<index, head, parent, repo>>
    /\ Remember({})

Commits ==
    /\ lock = "operator"
    /\ head' = index
    /\ parent' = IF repo = "born" THEN head ELSE Nothing
    /\ repo' = "born"
    /\ lock' = "free"
    /\ UNCHANGED <<work, index, release, receipt, proc, memory, bounds>>
    /\ Remember(Path)

\* git reset --soft HEAD~ needs no lock.
ResetsSoftly ==
    /\ Git /\ parent # Nothing
    /\ head' = parent /\ parent' = Nothing
    /\ UNCHANGED <<index, repo, lock>>
    /\ Remember(Path)

RemovesStaleLock ==
    /\ lock = "stale"
    /\ lock' = "free"
    /\ UNCHANGED <<work, index, head, parent, repo, release, receipt, proc,
                   memory, bounds>>
    /\ Remember({})

-----------------------------------------------------------------------------

\* The process is killed: nothing drops the lock file.
Killed ==
    /\ proc # "down" /\ crashes < MaxCrashes
    /\ crashes' = crashes + 1
    /\ proc' = "down" /\ due' = 0
    /\ lock' = IF lock = "agent" THEN "stale" ELSE lock
    /\ ck' = Nothing
    /\ previous' = Empty /\ preexisting' = {}
    /\ UNCHANGED <<work, index, head, parent, repo, release, receipt, writes, gits>>
    /\ Remember({})

\* A directory without a repository, or one with the operator's own, where some
\* work is staged and some is not.
WorkspaceInit ==
    /\ \E f \in File, w \in {0, 1, 2}, i \in {0, 1, 2}, born \in BOOLEAN :
         /\ ~born => i = 0
         /\ repo = IF born THEN "born" ELSE "none"
         /\ work = [Empty EXCEPT ![f] = w]
         /\ index = [Empty EXCEPT ![f] = i]
         /\ head = [Empty EXCEPT ![f] = IF born THEN 1 ELSE 0]
    /\ parent = Nothing /\ lock = "free"
    /\ release = 1 /\ receipt = 0
    /\ proc = "down" /\ due = 0 /\ ck = Nothing
    /\ previous = Empty /\ preexisting = {}
    /\ writes = 0 /\ gits = 0 /\ crashes = 0
    /\ kept = {} /\ theirs = {} /\ raced = {}

WorkspaceNext ==
    \/ Busy \/ Begin \/ WriteLog \/ Build \/ MoveHead \/ FinishCheckpoint
    \/ Start \/ RefreshHelper \/ SeedFiles
    \/ \E p \in Path, text \in Text \cup {0} : Tool(p, text)
    \/ \E text \in Text \cup {0} : Exec(text)
    \/ IdleTool
    \/ \E p \in Path : OperatorEdits(p) \/ Stages(p)
    \/ OpensCommit \/ Commits \/ ResetsSoftly \/ RemovesStaleLock
    \/ Killed

WorkspaceSpec == WorkspaceInit /\ [][WorkspaceNext]_workspaceVars

-----------------------------------------------------------------------------
(* Properties. *)

\* A checkpoint leaves alone, in the commit and in the index it writes, every
\* path that was dirty when the process started and has been since, and every
\* path that was staged when it took the lock, whatever the operator and the tools did while
\* it ran (WorkspaceRuntime::checkpoint).
OperatorsWorkStays ==
    [][ck # Nothing /\ ck' # ck /\ ck.step \in {"move", "finish"} =>
         \A p \in Path :
            p \in kept \cup ck.staged =>
               index'[p] = index[p] /\ head'[p] = head[p]]_workspaceVars

\* Once no checkpoint is under way, a file that differs from the last commit and
\* would not be noticed by the next checkpoint is the operator's, or one somebody
\* wrote to while a checkpoint was under way (WorkspaceRuntime::checkpoint).
JournalKeepsUp ==
    proc = "serve" /\ ck = Nothing =>
        \A p \in dirty_paths :
            previous[p] = work[p] => p \in preexisting \cup Staged \cup theirs \cup raced

=============================================================================
