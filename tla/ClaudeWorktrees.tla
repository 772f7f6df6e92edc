------------------------------ MODULE ClaudeWorktrees ------------------------------
(* What becomes of the files a Claude session writes in its worktree, git command by *)
(* git command: merge, discard and pull request (server/routes/claude.ts) over        *)
(* server/claude/worktree.ts, while turns run, are cancelled and linger, and a human  *)
(* works in the project.                                                             *)
EXTENDS Naturals, FiniteSets

CONSTANTS
  Sessions,
  Requests,  \* bound: requests at a time
  MaxEdits,  \* bound: edits of a session, numbered
  MaxHuman,  \* bound: times the human makes the project dirty
  None

VARIABLES
  agent,     \* agent[s]: "idle", in a "turn", or "lingering" after a cancel
  present,   \* the sessions whose worktree is there
  branches,  \* the sessions whose branch is there
  tip,       \* tip[s]: the edits committed on its branch
  tree,      \* tree[s]: those in its worktree that are not
  index,     \* index[s]: those staged
  main,      \* the edits in the project's HEAD
  project,   \* its working tree: "clean", "dirty" or in "conflict"
  pushed,    \* pushed[s]: the edits on origin
  op,        \* op[r]: the request, and the command it comes to next
  answered,  \* ghost: what the merges and pushes that succeeded were to hold, and held
  made, late, discarded, \* ghost: edits made; made while a merge was under way; given up
  human

git  == <<present, branches, tip, tree, index, main, project, pushed>>
ghost == <<answered, made, late, discarded, human>>
vars == <<agent, git, op, ghost>>

Edits == 1..MaxEdits
Idle == [kind |-> None, s |-> None, pc |-> None, had |-> {}]

Init ==
  /\ agent = [s \in Sessions |-> "idle"] /\ present = Sessions /\ branches = Sessions
  /\ tip = [s \in Sessions |-> {}] /\ tree = [s \in Sessions |-> {}]
  /\ index = [s \in Sessions |-> {}] /\ main = {} /\ project = "clean"
  /\ pushed = [s \in Sessions |-> {}] /\ op = [r \in Requests |-> Idle]
  /\ answered = [whole |-> TRUE, pushed |-> TRUE]
  /\ made = [s \in Sessions |-> {}] /\ late = [s \in Sessions |-> {}] /\ discarded = {}
  /\ human = 0

-------------------------------------------------------------------------------
(* Turns, and the human. *)

Merging(s) == \E r \in Requests : op[r].kind = "merge" /\ op[r].s = s

TurnBegins(s) ==
  /\ agent[s] = "idle" /\ s \in present /\ agent' = [agent EXCEPT ![s] = "turn"]
  /\ UNCHANGED <<git, op, ghost>>
\* Its end, or a cancel: the session is no longer running while its child still may.
TurnEnds(s) ==
  /\ agent[s] = "turn" /\ \E now \in {"idle", "lingering"} : agent' = [agent EXCEPT ![s] = now]
  /\ UNCHANGED <<git, op, ghost>>
ChildDies(s) ==
  /\ agent[s] = "lingering" /\ agent' = [agent EXCEPT ![s] = "idle"]
  /\ UNCHANGED <<git, op, ghost>>

Writes(s) ==
  /\ agent[s] # "idle" /\ s \in present /\ Cardinality(made[s]) < MaxEdits
  /\ LET e == Cardinality(made[s]) + 1 IN
       /\ made' = [made EXCEPT ![s] = @ \union {e}] /\ tree' = [tree EXCEPT ![s] = @ \union {e}]
       /\ late' = IF Merging(s) THEN [late EXCEPT ![s] = @ \union {e}] ELSE late
  /\ UNCHANGED <<agent, present, branches, tip, index, main, project, pushed, op, answered,
                 discarded, human>>

HumanWorks ==
  /\ \/ project = "clean" /\ human < MaxHuman /\ human' = human + 1 /\ project' = "dirty"
     \/ project # "clean" /\ project' = "clean" /\ UNCHANGED human
  /\ UNCHANGED <<agent, present, branches, tip, tree, index, main, pushed, op, answered, made,
                 late, discarded>>

-------------------------------------------------------------------------------
(* The requests. Any of their commands may fail, as they do while another holds the  *)
(* lock: the answer is then an error and nothing more is done.                        *)

Goes(r, pc) == op' = [op EXCEPT ![r].pc = pc]
Ends(r) == op' = [op EXCEPT ![r] = Idle]

Arrives(r, kind, s) ==
  /\ op[r] = Idle /\ UNCHANGED <<git, answered, made, late, human>>
  /\ IF kind = "discard"
       THEN /\ agent' = [agent EXCEPT ![s] = IF @ = "turn" THEN "lingering" ELSE @]
            /\ discarded' = discarded \union {s}
       ELSE agent[s] # "turn" /\ s \in present /\ UNCHANGED <<agent, discarded>>
  /\ op' = [op EXCEPT ![r] = [kind |-> kind, s |-> s, had |-> made[s],
       pc |-> CASE kind = "merge" -> "clean" [] kind = "pr" -> "status" [] OTHER -> "remove"]]

Fails(r) ==
  /\ op[r] # Idle /\ op[r].pc # "branch" /\ Ends(r)
  /\ UNCHANGED <<agent, git, ghost>>

\* The route's isDirty(projectDirectory), then that of mergeWorktree().
Clean(r) ==
  /\ op[r].pc \in {"clean", "clean again"} /\ project = "clean"
  /\ Goes(r, IF op[r].pc = "clean" THEN "clean again" ELSE "status")
  /\ UNCHANGED <<agent, git, ghost>>

Status(r) ==
  LET s == op[r].s IN
  /\ op[r].pc = "status" /\ s \in present /\ Goes(r, IF tree[s] = {} THEN "ahead" ELSE "add")
  /\ UNCHANGED <<agent, git, ghost>>

\* Mutant: only the files git knows are staged.
AddTracked(r) ==
  LET s == op[r].s IN
  /\ op[r].pc = "add" /\ s \in present
  /\ \E known \in SUBSET tree[s] : index' = [index EXCEPT ![s] = known]
  /\ Goes(r, "commit")
  /\ UNCHANGED <<agent, present, branches, tip, tree, main, project, pushed, ghost>>

Add(r) ==
  LET s == op[r].s IN
  /\ op[r].pc = "add" /\ s \in present /\ index' = [index EXCEPT ![s] = tree[s]]
  /\ Goes(r, "commit")
  /\ UNCHANGED <<agent, present, branches, tip, tree, main, project, pushed, ghost>>

Commit(r) ==
  LET s == op[r].s IN
  /\ op[r].pc = "commit" /\ s \in present /\ index[s] # {}
  /\ tip' = [tip EXCEPT ![s] = @ \union index[s]] /\ tree' = [tree EXCEPT ![s] = @ \ index[s]]
  /\ index' = [index EXCEPT ![s] = {}] /\ Goes(r, "ahead")
  /\ UNCHANGED <<agent, present, branches, main, project, pushed, ghost>>

Of(s) == {s} \X tip[s]

Ahead(r) ==
  LET s == op[r].s IN
  /\ op[r].pc = "ahead" /\ s \in branches /\ ~(Of(s) \subseteq main)
  /\ Goes(r, IF op[r].kind = "merge" THEN "merge" ELSE "push")
  /\ UNCHANGED <<agent, git, ghost>>

\* git merge: of the branch as it is now, unless the project is in a conflict.
Merge(r) ==
  LET s == op[r].s IN
  /\ op[r].pc = "merge" /\ s \in branches /\ project # "conflict"
  /\ main' = main \union Of(s) /\ Goes(r, "remove")
  /\ answered' = [answered EXCEPT !.whole = @ /\ (s \in discarded \/ op[r].had \subseteq tip[s])]
  /\ UNCHANGED <<agent, present, branches, tip, tree, index, project, pushed, made, late,
                 discarded, human>>

\* Mutant: what could not be merged is removed all the same.
ConflictsRemoved(r) ==
  /\ op[r].pc = "merge" /\ project # "conflict" /\ project' = "conflict" /\ Goes(r, "remove")
  /\ UNCHANGED <<agent, present, branches, tip, tree, index, main, pushed, ghost>>

Conflicts(r) ==
  /\ op[r].pc = "merge" /\ project # "conflict" /\ project' = "conflict" /\ Ends(r)
  /\ UNCHANGED <<agent, present, branches, tip, tree, index, main, pushed, ghost>>

\* removeWorktree(): forced, or by hand if git does not know it.
Remove(r) ==
  LET s == op[r].s IN
  /\ op[r].pc = "remove" /\ present' = present \ {s}
  /\ tree' = [tree EXCEPT ![s] = {}] /\ index' = [index EXCEPT ![s] = {}]
  /\ Goes(r, "branch") /\ UNCHANGED <<agent, branches, tip, main, project, pushed, ghost>>

\* Then its branch, if that succeeds.
Branch(r) ==
  LET s == op[r].s IN
  /\ op[r].pc = "branch" /\ Ends(r)
  /\ \/ branches' = branches \ {s} /\ tip' = [tip EXCEPT ![s] = {}]
     \/ UNCHANGED <<branches, tip>>
  /\ UNCHANGED <<agent, present, tree, index, main, project, pushed, ghost>>

Push(r) ==
  LET s == op[r].s IN
  /\ op[r].pc = "push" /\ s \in branches /\ s \in present /\ Ends(r)
  /\ pushed' = [pushed EXCEPT ![s] = tip[s]]
  /\ answered' = [answered EXCEPT !.pushed = @ /\ (s \in discarded \/ op[r].had \subseteq tip[s])]
  /\ UNCHANGED <<agent, present, branches, tip, tree, index, main, project, made, late, discarded,
                 human>>

\* The server goes down: its requests end where they are.
Stops ==
  /\ \E r \in Requests : op[r] # Idle
  /\ op' = [r \in Requests |-> Idle] /\ UNCHANGED <<agent, git, ghost>>

Next == \/ HumanWorks \/ Stops
        \/ (\E s \in Sessions : TurnBegins(s) \/ TurnEnds(s) \/ ChildDies(s) \/ Writes(s))
        \/ \E r \in Requests :
             \/ Fails(r) \/ Clean(r) \/ Status(r) \/ Add(r) \/ Commit(r) \/ Ahead(r) \/ Merge(r)
             \/ Conflicts(r) \/ Remove(r) \/ Branch(r) \/ Push(r)
             \/ (\E kind \in {"merge", "discard", "pr"}, s \in Sessions : Arrives(r, kind, s))

Spec == Init /\ [][Next]_vars
-------------------------------------------------------------------------------
TypeOK ==
  /\ agent \in [Sessions -> {"idle", "turn", "lingering"}]
  /\ present \subseteq Sessions /\ branches \subseteq Sessions /\ discarded \subseteq Sessions
  /\ project \in {"clean", "dirty", "conflict"} /\ main \subseteq Sessions \X Edits
  /\ \A s \in Sessions : /\ index[s] \subseteq tree[s] /\ tree[s] \intersect tip[s] = {}
                         /\ tree[s] \union late[s] \subseteq made[s] /\ made[s] \subseteq Edits
                         /\ s \notin present => tree[s] = {}
  /\ op \in [Requests -> [kind : {None, "merge", "discard", "pr"}, s : Sessions \union {None},
       pc : {None, "clean", "clean again", "status", "add", "commit", "ahead", "merge", "push",
             "remove", "branch"}, had : SUBSET Edits]]
  /\ {tip, tree, index, made, late, pushed} \subseteq [Sessions -> SUBSET Edits]
  /\ answered \in [whole : BOOLEAN, pushed : BOOLEAN] /\ human \in 0..MaxHuman

\* A merge that was answered holds all that was written before it was asked for, and
\* so does a pull request, whatever other requests and turns of the session do.
AnswersAreWhole == answered.whole /\ answered.pushed

\* What a session wrote while no merge of it was under way is in the project, on its
\* branch or in its worktree, unless the session was discarded.
NothingLost == \A s \in Sessions \ discarded : \A e \in made[s] \ late[s] :
  <<s, e>> \in main \/ e \in tip[s] \/ e \in tree[s]

\* Why that is so. While a session has its worktree it has its branch, and all it wrote
\* is in the one or on the other.
WorktreeIsWhole ==
  /\ present \subseteq branches
  /\ \A s \in Sessions : tip[s] \subseteq made[s] /\ made[s] = 1..Cardinality(made[s])
  /\ \A s \in present : made[s] \subseteq tip[s] \union tree[s]

\* A request on its way to its merge or push has committed or staged what was written
\* before it; a merge that comes to the removal has it in the project.
RequestsCarryOn == \A r \in Requests : op[r].kind # None =>
  LET s == op[r].s IN
  /\ s \in Sessions /\ op[r].had \subseteq made[s]
  /\ op[r].pc = "commit" /\ s \in present => op[r].had \subseteq tip[s] \union index[s]
  /\ op[r].pc \in {"ahead", "merge", "push"} /\ s \in branches => op[r].had \subseteq tip[s]
  /\ op[r].kind = "merge" => made[s] \ late[s] \subseteq op[r].had
  /\ op[r].kind = "merge" /\ op[r].pc \in {"remove", "branch"} => {s} \X op[r].had \subseteq main
  /\ op[r].kind = "discard" => s \in discarded
  /\ op[r].pc = "branch" => s \notin present

\* Only a merge merges, and only a merge or a discard removes.
KindsKeepTheirWay == \A r \in Requests :
  /\ op[r].kind = None => op[r] = Idle
  /\ op[r].pc = "merge" => op[r].kind = "merge"
  /\ op[r].pc \in {"remove", "branch"} => op[r].kind \in {"merge", "discard"}
  /\ op[r].kind = "discard" => op[r].pc \in {"remove", "branch"}

WorktreeInv ==
  AnswersAreWhole /\ NothingLost /\ WorktreeIsWhole /\ RequestsCarryOn /\ KindsKeepTheirWay

\* What the comment of mergeWorktree says. Violated: a cancelled turn's child, or a new
\* turn, writes after the commit and before the removal.
NothingTheAgentWroteIsLost == \A s \in Sessions \ discarded : \A e \in made[s] :
  <<s, e>> \in main \/ e \in tip[s] \/ e \in tree[s]
================================================================================
