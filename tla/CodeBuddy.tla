------------------------------ MODULE CodeBuddy ------------------------------
(***************************************************************************)
(* The executor that lets CodeBuddy change a workspace: a call runs the    *)
(* tool in a disposable worktree of the commit it inspected, looks at what *)
(* changed there, applies it to the workspace as one patch, and takes the  *)
(* patch back when what it finds afterwards is something else.  Nothing is *)
(* locked: other calls, and whoever works in the workspace, go on between  *)
(* any two of its steps.  A file has one author; its text is left out.     *)
(***************************************************************************)
EXTENDS Naturals, FiniteSets

CONSTANTS
  Call,       \* calls of the adapter on one workspace
  Path,       \* its files
  MaxCommits  \* bound: commits made in the workspace meanwhile

ASSUME CodeBuddyAssumption == Call \cap {"human", "nobody"} = {}

VARIABLES
  head,      \* the commit checked out, by number
  author,    \* for each file, whose text differs from the commit: a call, "human", or "nobody"
  worktrees, \* the calls whose worktree exists
  call       \* for each call: where it stands, its request, what it found and how it ended

codeBuddyVars == <<head, author, worktrees, call>>

NewCall == [pc |-> "idle", allowed |-> {}, canonical |-> TRUE, base |-> 0,
            changed |-> {}, moved |-> FALSE, published |-> FALSE, error |-> "none"]

CodeBuddyInit ==
  /\ head = 0 /\ author = [p \in Path |-> "nobody"] /\ worktrees = {}
  /\ call = [c \in Call |-> NewCall]

Dirty == {p \in Path : author[p] # "nobody"}

MovesTo(c, pc) == call' = [call EXCEPT ![c].pc = pc]
\* An error leaves behind what the call knew of its change.
Errs(c, pc, error) == call' = [call EXCEPT ![c] = [NewCall EXCEPT !.pc = pc, !.error = error]]
Elsewhere == UNCHANGED <<head, author, worktrees>>

\* Paths are normalised here; that they were not canonical is found out later.
InspectWorkspace(c) ==
  /\ call[c].pc = "idle"
  /\ IF Dirty # {} THEN Errs(c, "failed", "RESERVATION_CONFLICT")
     ELSE \E allowed \in (SUBSET Path) \ {{}}, canonical \in BOOLEAN :
            call' = [call EXCEPT ![c] =
              [NewCall EXCEPT !.pc = "create", !.allowed = allowed, !.canonical = canonical, !.base = head]]
  /\ Elsewhere

CreateExecutionWorkspace(c) ==
  /\ call[c].pc = "create"
  /\ \/ worktrees' = worktrees \cup {c} /\ MovesTo(c, "run")
     \/ worktrees' = worktrees /\ Errs(c, "failed", "ADAPTER_FAILURE")
  /\ UNCHANGED <<head, author>>

\* The tool may touch any file and move HEAD; it may fail, hang or be killed.
Execute(c) ==
  /\ call[c].pc = "run"
  /\ \/ \E changed \in SUBSET Path, moved \in BOOLEAN :
          call' = [call EXCEPT ![c].pc = "collect", ![c].changed = changed, ![c].moved = moved]
     \/ \E error \in {"ADAPTER_FAILURE", "ADAPTER_TIMEOUT"} : Errs(c, "cleanup", error)
  /\ Elsewhere

CollectChanges(c) ==
  /\ call[c].pc = "collect"
  /\ IF call[c].moved \/ call[c].changed = {} \/ ~(call[c].changed \subseteq call[c].allowed)
     THEN Errs(c, "cleanup", "INVALID_RESPONSE") ELSE MovesTo(c, "publish")
  /\ Elsewhere

Unchanged(c) == head = call[c].base /\ Dirty = {}

PublishChanges(c) ==
  /\ call[c].pc = "publish"
  /\ IF Unchanged(c) THEN MovesTo(c, "apply") ELSE Errs(c, "cleanup", "RESERVATION_CONFLICT")
  /\ Elsewhere

\* git apply takes the whole patch or none of it.
ApplyPatch(c) ==
  /\ call[c].pc = "apply"
  /\ \/ /\ call[c].changed \cap Dirty = {}
        /\ author' = [p \in Path |-> IF p \in call[c].changed THEN c ELSE author[p]]
        /\ MovesTo(c, "verify")
     \/ author' = author /\ Errs(c, "cleanup", "ADAPTER_FAILURE")
  /\ UNCHANGED <<head, worktrees>>

InPlace(c) == head = call[c].base /\ \A p \in call[c].changed : author[p] = c

\* The files of the patch are compared with the evidence and with the worktree.
VerifyPublished(c) ==
  /\ call[c].pc = "verify"
  /\ \/ InPlace(c) /\ call' = [call EXCEPT ![c].pc = "cleanup", ![c].published = TRUE]
     \/ MovesTo(c, "restore")
  /\ Elsewhere

\* restoreWorkspace: the patch is reversed if it is all there on its own commit.
Reversed(c) == [p \in Path |-> IF p \in call[c].changed /\ InPlace(c) THEN "nobody" ELSE author[p]]

\* Variant: what is not in place any more is not noticed.
RestoreQuietly(c) ==
  /\ call[c].pc = "restore" /\ author' = Reversed(c)
  /\ Errs(c, "cleanup", "ADAPTER_FAILURE")
  /\ UNCHANGED <<head, worktrees>>

\* What is found after the reversal may be somebody else's by then.
RestoreWorkspace(c) ==
  /\ call[c].pc = "restore" /\ author' = Reversed(c)
  /\ \E error \in {"RESTORATION_FAILED"} \cup {e \in {"ADAPTER_FAILURE"} : InPlace(c)} : Errs(c, "cleanup", error)
  /\ UNCHANGED <<head, worktrees>>

\* What was published is taken back when the worktree cannot be removed, if that is possible.
RemoveExecutionWorkspace(c) ==
  /\ call[c].pc = "cleanup"
  /\ \/ /\ worktrees' = worktrees \ {c} /\ UNCHANGED author
        /\ MovesTo(c, IF call[c].error = "none" THEN "judge" ELSE "failed")
     \/ /\ author' = IF call[c].published THEN Reversed(c) ELSE author
        /\ Errs(c, "failed", "CLEANUP_FAILED") /\ UNCHANGED worktrees
  /\ UNCHANGED head

\* validateCodeBuddyImplementReceipt: the paths of the request as they were
\* written, and the changed files inside them.
JudgeEvidence(c) ==
  /\ call[c].pc = "judge"
  /\ MovesTo(c, IF call[c].canonical /\ call[c].changed \subseteq call[c].allowed THEN "accepted" ELSE "rejected")
  /\ Elsewhere

Finished == {"idle", "failed", "accepted", "rejected", "crashed"}

Crash(c) == call[c].pc \notin Finished /\ MovesTo(c, "crashed") /\ Elsewhere

HumanWorks ==
  /\ \/ \E p \in Path, who \in {"human", "nobody"} :
          author[p] # who /\ author' = [author EXCEPT ![p] = who] /\ UNCHANGED head
     \/ head < MaxCommits /\ head' = head + 1 /\ author' = [p \in Path |-> "nobody"]
  /\ UNCHANGED <<worktrees, call>>

CodeBuddyNext ==
  \/ \E c \in Call :
       \/ InspectWorkspace(c) \/ CreateExecutionWorkspace(c) \/ Execute(c) \/ CollectChanges(c)
       \/ PublishChanges(c) \/ ApplyPatch(c) \/ VerifyPublished(c) \/ RestoreWorkspace(c)
       \/ RemoveExecutionWorkspace(c) \/ JudgeEvidence(c) \/ Crash(c)
  \/ HumanWorks

CodeBuddySpec == CodeBuddyInit /\ [][CodeBuddyNext]_codeBuddyVars

----------------------------------------------------------------------------
\* A call that fails without saying that it could not clean up has left none
\* of its text in the workspace and no worktree, whatever others did there
\* between its steps; only a change inside the approved files is accepted as
\* done (CodeBuddyExecutorAdapter.execute, publishChanges, restoreWorkspace).
OutcomeIsHonest ==
  \A c \in Call :
    /\ call[c].pc = "failed" /\ call[c].error \notin {"RESTORATION_FAILED", "CLEANUP_FAILED"} =>
         c \notin worktrees /\ \A p \in Path : author[p] # c
    /\ call[c].pc = "accepted" => call[c].changed # {} /\ call[c].changed \subseteq call[c].allowed
=============================================================================
