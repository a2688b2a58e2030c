--------------------------- MODULE ToolingProofs ----------------------------
(***************************************************************************)
(* The agents' tools.  CodeBuddy, for any calls, files and commits: a call *)
(* that fails without saying so leaves nothing behind.  The browser, for   *)
(* any runs and plans: a run that has ended has closed what it opened.     *)
(* The voice, for any producers, announcements and providers: a receipt    *)
(* means that the announcement was heard.  The CI query, for pages of any  *)
(* size and any number of items and phases: a receipt of success hides     *)
(* nothing, however the lists change while they are read.                  *)
(***************************************************************************)
EXTENDS CodeBuddy, BrowserRuns, VoiceHub, CiQuery, SequenceTheorems, FiniteSetTheorems, TLAPS

-----------------------------------------------------------------------------
(* CodeBuddy's workspace *)

Place == Finished \cup {"create", "run", "collect", "publish", "apply", "verify", "restore", "cleanup", "judge"}
DirtyError == {"RESTORATION_FAILED", "CLEANUP_FAILED"}
CleanError == {"RESERVATION_CONFLICT", "ADAPTER_FAILURE", "ADAPTER_TIMEOUT", "INVALID_RESPONSE"}

CallRow ==
  [pc : Place, allowed : SUBSET Path, canonical : BOOLEAN, base : Nat, changed : SUBSET Path,
   moved : BOOLEAN, published : BOOLEAN, error : DirtyError \cup CleanError \cup {"none"}]

CodeBuddyTypeOK ==
  /\ head \in Nat /\ author \in [Path -> Call \cup {"human", "nobody"}]
  /\ worktrees \subseteq Call /\ call \in [Call -> CallRow]

Traceless(c) == \A p \in Path : author[p] # c

\* A worktree is there from its creation to the clean-up.
WorktreeOK(c) ==
  /\ call[c].pc \in {"idle", "create"} => c \notin worktrees
  /\ call[c].pc = "failed" /\ call[c].error \in CleanError => c \notin worktrees

\* Text of the call is in the workspace only once its patch was applied, and where the patch
\* changed something; a call that errs with nothing to confess has none there.
TextOK(c) ==
  /\ call[c].pc \in {"idle", "create", "run", "collect", "publish", "apply"} => Traceless(c)
  /\ call[c].pc \in {"verify", "restore"} => \A p \in Path : author[p] = c => p \in call[c].changed
  /\ call[c].pc \in {"cleanup", "failed"} /\ call[c].error \in CleanError => Traceless(c)

\* The change was found to be inside the request before it was published.
ChangeOK(c) ==
  (\/ call[c].pc \in {"publish", "apply", "verify", "restore", "judge", "accepted"}
   \/ call[c].pc = "cleanup" /\ call[c].error = "none")
  => call[c].changed # {} /\ call[c].changed \subseteq call[c].allowed

\* A call that still does its work has no error.
UnderWayOK(c) == call[c].pc \notin {"cleanup", "judge"} \cup Finished => call[c].error = "none"

(***************************************************************************)
(* OutcomeIsHonest is not inductive: what a failed call left behind is     *)
(* decided where its patch is applied, verified and reversed.              *)
(***************************************************************************)
CallInv(c) ==
  /\ WorktreeOK(c) /\ TextOK(c) /\ ChangeOK(c) /\ UnderWayOK(c)
  /\ call[c].pc = "failed" => call[c].error # "none"

CodeBuddyInv == CodeBuddyTypeOK /\ \A c \in Call : CallInv(c)

-----------------------------------------------------------------------------
\* A call of whose text the workspace gains none, and that stays where it is, is as it was.
LEMMA OthersStand ==
  ASSUME CodeBuddyTypeOK, NEW d \in Call, CallInv(d), call'[d] = call[d],
         d \in worktrees' => d \in worktrees,
         \A p \in Path : author'[p] = d => author[p] = d
  PROVE  CallInv(d)'
BY DEF CallInv, WorktreeOK, TextOK, ChangeOK, UnderWayOK, Finished, Traceless

\* A call that errs: it has its error, the place it goes to, and no more.
LEMMA Erring ==
  ASSUME CodeBuddyTypeOK, NEW c \in Call, NEW pc \in {"cleanup", "failed"},
         NEW error \in DirtyError \cup CleanError, Errs(c, pc, error),
         author' \in [Path -> Call \cup {"human", "nobody"}], worktrees' \subseteq Call, head' = head,
         error \in CleanError => Traceless(c)',
         error \in CleanError /\ pc = "failed" => c \notin worktrees',
         \A d \in Call \ {c} : d \in worktrees' => d \in worktrees,
         \A d \in Call \ {c}, p \in Path : author'[p] = d => author[p] = d,
         \A d \in Call : CallInv(d)
  PROVE  CodeBuddyInv'
<1>1. call'[c] = [pc |-> pc, allowed |-> {}, canonical |-> TRUE, base |-> 0, changed |-> {},
                  moved |-> FALSE, published |-> FALSE, error |-> error]
  BY DEF Errs, CodeBuddyTypeOK, NewCall
<1>2. /\ call'[c].pc = pc /\ call'[c].error = error /\ call'[c] \in CallRow
  BY <1>1 DEF CallRow, Place, Finished
<1>3. \A d \in Call \ {c} : call'[d] = call[d] BY DEF Errs, CodeBuddyTypeOK
<1>4. CodeBuddyTypeOK' BY <1>2, <1>3 DEF Errs, CodeBuddyTypeOK
<1>5. CallInv(c)' BY <1>2 DEF CallInv, WorktreeOK, TextOK, ChangeOK, UnderWayOK, Finished, DirtyError, CleanError
<1>6. \A d \in Call \ {c} : CallInv(d)' BY <1>3, OthersStand
<1> QED BY <1>4, <1>5, <1>6 DEF CodeBuddyInv

\* A call that goes on with what it has.
LEMMA Moving ==
  ASSUME CodeBuddyTypeOK, NEW c \in Call, NEW pc \in Place, MovesTo(c, pc)
  PROVE  /\ call' \in [Call -> CallRow] /\ \A d \in Call \ {c} : call'[d] = call[d]
         /\ call'[c].pc = pc /\ call'[c].changed = call[c].changed
         /\ call'[c].allowed = call[c].allowed /\ call'[c].error = call[c].error
BY DEF MovesTo, CodeBuddyTypeOK, CallRow

\* Reversing a patch gives no call text it did not have.
LEMMA ReversalTakes ==
  ASSUME CodeBuddyTypeOK, NEW c \in Call
  PROVE  /\ Reversed(c) \in [Path -> Call \cup {"human", "nobody"}]
         /\ \A d \in Call, p \in Path : Reversed(c)[p] = d => author[p] = d
BY CodeBuddyAssumption DEF CodeBuddyTypeOK, Reversed

-----------------------------------------------------------------------------
\* Every step of the calls, and of whoever works in the workspace, keeps the invariant.
LEMMA CodeBuddyStep ==
  ASSUME CodeBuddyInv, [CodeBuddyNext]_codeBuddyVars
  PROVE  CodeBuddyInv'
<1>0. CodeBuddyTypeOK /\ \A c \in Call : CallInv(c) BY DEF CodeBuddyInv
<1> USE <1>0
<1>el. ASSUME NEW c \in Call, Elsewhere, CallInv(c)', call' \in [Call -> CallRow],
              \A d \in Call \ {c} : call'[d] = call[d]
       PROVE  CodeBuddyInv'
  <2>1. \A d \in Call \ {c} : CallInv(d)' BY <1>el, OthersStand DEF Elsewhere
  <2> QED BY <1>el, <2>1 DEF CodeBuddyInv, CodeBuddyTypeOK, Elsewhere
<1>err. ASSUME NEW c \in Call, Elsewhere, NEW pc \in {"cleanup", "failed"}, NEW error \in CleanError,
               Errs(c, pc, error), Traceless(c), pc = "failed" => c \notin worktrees
        PROVE  CodeBuddyInv'
  BY <1>err, Erring DEF Elsewhere, CodeBuddyTypeOK, Traceless
<1>1. ASSUME NEW c \in Call, InspectWorkspace(c) PROVE CodeBuddyInv'
  <2>1. /\ call[c].pc = "idle" /\ Elsewhere /\ c \notin worktrees /\ Traceless(c)
    BY <1>1 DEF InspectWorkspace, CallInv, WorktreeOK, TextOK
  <2>2. CASE Dirty # {}
    BY <1>1, <1>err, <2>1, <2>2 DEF InspectWorkspace, CleanError
  <2>3. CASE Dirty = {}
    <3>1. PICK allowed \in (SUBSET Path) \ {{}}, canonical \in BOOLEAN :
            call' = [call EXCEPT ![c] =
              [NewCall EXCEPT !.pc = "create", !.allowed = allowed, !.canonical = canonical, !.base = head]]
      BY <1>1, <2>3 DEF InspectWorkspace
    <3>2. /\ call'[c] = [pc |-> "create", allowed |-> allowed, canonical |-> canonical, base |-> head,
                          changed |-> {}, moved |-> FALSE, published |-> FALSE, error |-> "none"]
          /\ \A d \in Call \ {c} : call'[d] = call[d]
      BY <3>1 DEF CodeBuddyTypeOK, NewCall
    <3>3. call'[c] \in CallRow BY <3>2 DEF CodeBuddyTypeOK, CallRow, Place
    <3>4. call' \in [Call -> CallRow] BY <3>1, <3>2, <3>3 DEF CodeBuddyTypeOK
    <3>5. CallInv(c)'
      BY <2>1, <3>2 DEF CallInv, WorktreeOK, TextOK, ChangeOK, UnderWayOK, Finished, Traceless, Elsewhere
    <3> QED BY <1>el, <2>1, <3>2, <3>4, <3>5
  <2> QED BY <2>2, <2>3
<1>2. ASSUME NEW c \in Call, CreateExecutionWorkspace(c) PROVE CodeBuddyInv'
  <2>1. call[c].pc = "create" /\ c \notin worktrees /\ Traceless(c) /\ UNCHANGED <<head, author>>
    BY <1>2 DEF CreateExecutionWorkspace, CallInv, WorktreeOK, TextOK
  <2>2. CASE worktrees' = worktrees \cup {c} /\ MovesTo(c, "run")
    <3>1. /\ call' \in [Call -> CallRow] /\ call'[c].pc = "run"
          /\ call'[c].error = call[c].error /\ \A d \in Call \ {c} : call'[d] = call[d]
      BY <2>2, Moving DEF Place
    <3>2. CallInv(c)' BY <2>1, <3>1 DEF CallInv, WorktreeOK, TextOK, ChangeOK, UnderWayOK, Finished, Traceless
    <3>3. \A d \in Call \ {c} : CallInv(d)' BY <2>1, <2>2, <3>1, OthersStand
    <3> QED BY <2>1, <2>2, <3>1, <3>2, <3>3 DEF CodeBuddyInv, CodeBuddyTypeOK
  <2>3. CASE worktrees' = worktrees /\ Errs(c, "failed", "ADAPTER_FAILURE")
    BY <1>err, <2>1, <2>3 DEF CleanError, Elsewhere
  <2> QED BY <1>2, <2>2, <2>3 DEF CreateExecutionWorkspace
<1>3. ASSUME NEW c \in Call, Execute(c) PROVE CodeBuddyInv'
  <2>1. call[c].pc = "run" /\ Traceless(c) /\ Elsewhere BY <1>3 DEF Execute, CallInv, TextOK
  <2>2. ASSUME NEW changed \in SUBSET Path, NEW moved \in BOOLEAN,
               call' = [call EXCEPT ![c].pc = "collect", ![c].changed = changed, ![c].moved = moved]
        PROVE  CodeBuddyInv'
    <3>1. /\ call' \in [Call -> CallRow] /\ call'[c].pc = "collect"
          /\ call'[c].error = call[c].error /\ \A d \in Call \ {c} : call'[d] = call[d]
      <4>1. PICK row : row = [call[c] EXCEPT !.pc = "collect", !.changed = changed, !.moved = moved] OBVIOUS
      <4>2. row \in CallRow /\ row.pc = "collect" /\ row.error = call[c].error
        BY <4>1 DEF CodeBuddyTypeOK, CallRow, Place
      <4>3. call' = [call EXCEPT ![c] = row] BY <2>2, <4>1 DEF CodeBuddyTypeOK
      <4> QED BY <4>2, <4>3 DEF CodeBuddyTypeOK
    <3>2. CallInv(c)' BY <2>1, <3>1 DEF CallInv, WorktreeOK, TextOK, ChangeOK, UnderWayOK, Finished, Traceless, Elsewhere
    <3> QED BY <1>el, <2>1, <3>1, <3>2
  <2>3. ASSUME NEW error \in {"ADAPTER_FAILURE", "ADAPTER_TIMEOUT"}, Errs(c, "cleanup", error)
        PROVE  CodeBuddyInv'
    BY <1>err, <2>1, <2>3 DEF CleanError
  <2> QED BY <1>3, <2>2, <2>3 DEF Execute
<1>4. ASSUME NEW c \in Call, CollectChanges(c) PROVE CodeBuddyInv'
  <2>1. call[c].pc = "collect" /\ Traceless(c) /\ Elsewhere BY <1>4 DEF CollectChanges, CallInv, TextOK
  <2>2. CASE Errs(c, "cleanup", "INVALID_RESPONSE") BY <1>err, <2>1, <2>2 DEF CleanError
  <2>3. CASE MovesTo(c, "publish") /\ call[c].changed # {} /\ call[c].changed \subseteq call[c].allowed
    <3>1. /\ call' \in [Call -> CallRow] /\ \A d \in Call \ {c} : call'[d] = call[d]
          /\ call'[c].pc = "publish" /\ call'[c].changed = call[c].changed
          /\ call'[c].allowed = call[c].allowed /\ call'[c].error = call[c].error
      BY <2>3, Moving DEF Place
    <3>2. CallInv(c)'
      BY <2>1, <2>3, <3>1 DEF CallInv, WorktreeOK, TextOK, ChangeOK, UnderWayOK, Finished, Traceless, Elsewhere
    <3> QED BY <1>el, <2>1, <3>1, <3>2
  <2> QED BY <1>4, <2>2, <2>3 DEF CollectChanges
<1>5. ASSUME NEW c \in Call, PublishChanges(c) PROVE CodeBuddyInv'
  <2>1. call[c].pc = "publish" /\ Traceless(c) /\ Elsewhere BY <1>5 DEF PublishChanges, CallInv, TextOK
  <2>2. CASE Errs(c, "cleanup", "RESERVATION_CONFLICT") BY <1>err, <2>1, <2>2 DEF CleanError
  <2>3. CASE MovesTo(c, "apply")
    <3>1. /\ call' \in [Call -> CallRow] /\ \A d \in Call \ {c} : call'[d] = call[d]
          /\ call'[c].pc = "apply" /\ call'[c].changed = call[c].changed
          /\ call'[c].allowed = call[c].allowed /\ call'[c].error = call[c].error
      BY <2>3, Moving DEF Place
    <3>2. CallInv(c)' BY <2>1, <3>1 DEF CallInv, WorktreeOK, TextOK, ChangeOK, UnderWayOK, Finished, Traceless, Elsewhere
    <3> QED BY <1>el, <2>1, <3>1, <3>2
  <2> QED BY <1>5, <2>2, <2>3 DEF PublishChanges
<1>6. ASSUME NEW c \in Call, ApplyPatch(c) PROVE CodeBuddyInv'
  <2>1. call[c].pc = "apply" /\ Traceless(c) /\ UNCHANGED <<head, worktrees>>
    BY <1>6 DEF ApplyPatch, CallInv, TextOK
  <2>2. CASE author' = author /\ Errs(c, "cleanup", "ADAPTER_FAILURE")
    BY <1>err, <2>1, <2>2 DEF CleanError, Elsewhere
  <2>3. CASE /\ author' = [p \in Path |-> IF p \in call[c].changed THEN c ELSE author[p]]
             /\ MovesTo(c, "verify")
    <3>1. /\ call' \in [Call -> CallRow] /\ \A d \in Call \ {c} : call'[d] = call[d]
          /\ call'[c].pc = "verify" /\ call'[c].changed = call[c].changed
          /\ call'[c].allowed = call[c].allowed /\ call'[c].error = call[c].error
      BY <2>3, Moving DEF Place
    <3>2. \A p \in Path : author'[p] = c => p \in call[c].changed BY <2>1, <2>3 DEF Traceless
    <3>3. CallInv(c)' BY <2>1, <3>1, <3>2 DEF CallInv, WorktreeOK, TextOK, ChangeOK, UnderWayOK, Finished
    <3>4. \A d \in Call \ {c} : CallInv(d)' BY <2>1, <2>3, <3>1, OthersStand
    <3> QED BY <2>1, <2>3, <3>1, <3>3, <3>4 DEF CodeBuddyInv, CodeBuddyTypeOK
  <2> QED BY <1>6, <2>2, <2>3 DEF ApplyPatch
<1>7. ASSUME NEW c \in Call, VerifyPublished(c) PROVE CodeBuddyInv'
  <2>1. call[c].pc = "verify" /\ Elsewhere BY <1>7 DEF VerifyPublished
  <2>2. CASE call' = [call EXCEPT ![c].pc = "cleanup", ![c].published = TRUE]
    <3>1. /\ call' \in [Call -> CallRow] /\ \A d \in Call \ {c} : call'[d] = call[d]
          /\ call'[c].pc = "cleanup" /\ call'[c].changed = call[c].changed
          /\ call'[c].allowed = call[c].allowed /\ call'[c].error = call[c].error
      BY <2>2 DEF CodeBuddyTypeOK, CallRow, Place
    <3>2. call[c].error = "none" BY <2>1 DEF CallInv, UnderWayOK, Finished
    <3>3. CallInv(c)'
      BY <2>1, <3>1, <3>2 DEF CallInv, WorktreeOK, TextOK, ChangeOK, UnderWayOK, Finished, CleanError
    <3> QED BY <1>el, <2>1, <3>1, <3>3
  <2>3. CASE MovesTo(c, "restore")
    <3>1. /\ call' \in [Call -> CallRow] /\ \A d \in Call \ {c} : call'[d] = call[d]
          /\ call'[c].pc = "restore" /\ call'[c].changed = call[c].changed
          /\ call'[c].allowed = call[c].allowed /\ call'[c].error = call[c].error
      BY <2>3, Moving DEF Place
    <3>2. CallInv(c)' BY <2>1, <3>1 DEF CallInv, WorktreeOK, TextOK, ChangeOK, UnderWayOK, Finished, Elsewhere
    <3> QED BY <1>el, <2>1, <3>1, <3>2
  <2> QED BY <1>7, <2>2, <2>3 DEF VerifyPublished
<1>8. ASSUME NEW c \in Call, RestoreWorkspace(c) PROVE CodeBuddyInv'
  <2>1. /\ call[c].pc = "restore" /\ author' = Reversed(c) /\ UNCHANGED <<head, worktrees>>
        /\ \A p \in Path : author[p] = c => p \in call[c].changed
    BY <1>8 DEF RestoreWorkspace, CallInv, TextOK
  <2>2. PICK error \in DirtyError \cup CleanError :
          Errs(c, "cleanup", error) /\ (error \in CleanError => InPlace(c))
    BY <1>8 DEF RestoreWorkspace, DirtyError, CleanError
  <2>3. InPlace(c) => Traceless(c)' BY <2>1, CodeBuddyAssumption DEF Reversed, Traceless
  <2> QED BY <2>1, <2>2, <2>3, ReversalTakes, Erring DEF CodeBuddyTypeOK
<1>9. ASSUME NEW c \in Call, RemoveExecutionWorkspace(c) PROVE CodeBuddyInv'
  <2>1. call[c].pc = "cleanup" /\ head' = head BY <1>9 DEF RemoveExecutionWorkspace
  <2>2. CASE /\ author' = IF call[c].published THEN Reversed(c) ELSE author
             /\ Errs(c, "failed", "CLEANUP_FAILED") /\ UNCHANGED worktrees
    <3>1. /\ author' \in [Path -> Call \cup {"human", "nobody"}]
          /\ \A d \in Call, p \in Path : author'[p] = d => author[p] = d
      BY <2>2, ReversalTakes DEF CodeBuddyTypeOK
    <3>2. "CLEANUP_FAILED" \in DirtyError /\ "CLEANUP_FAILED" \notin CleanError
      BY DEF DirtyError, CleanError
    <3> QED BY <2>1, <2>2, <3>1, <3>2, Erring DEF CodeBuddyTypeOK
  <2>3. ASSUME worktrees' = worktrees \ {c}, UNCHANGED author,
               NEW pc \in {"judge", "failed"}, pc = "judge" <=> call[c].error = "none", MovesTo(c, pc)
        PROVE  CodeBuddyInv'
    <3>1. /\ call' \in [Call -> CallRow] /\ \A d \in Call \ {c} : call'[d] = call[d]
          /\ call'[c].pc = pc /\ call'[c].changed = call[c].changed
          /\ call'[c].allowed = call[c].allowed /\ call'[c].error = call[c].error
      BY <2>3, Moving DEF Place, Finished
    <3>2. CallInv(c)'
      BY <2>1, <2>3, <3>1 DEF CallInv, WorktreeOK, TextOK, ChangeOK, UnderWayOK, Finished, Traceless
    <3>3. \A d \in Call \ {c} : CallInv(d)' BY <2>3, <3>1, OthersStand
    <3> QED BY <2>1, <2>3, <3>1, <3>2, <3>3 DEF CodeBuddyInv, CodeBuddyTypeOK
  <2> QED BY <1>9, <2>2, <2>3 DEF RemoveExecutionWorkspace
<1>10. ASSUME NEW c \in Call, NEW from \in Place, NEW to \in {"accepted", "rejected", "crashed"},
              call[c].pc = from, MovesTo(c, to), Elsewhere,
              to = "accepted" => from = "judge"
       PROVE  CodeBuddyInv'
  <2>1. /\ call' \in [Call -> CallRow] /\ \A d \in Call \ {c} : call'[d] = call[d]
        /\ call'[c].pc = to /\ call'[c].changed = call[c].changed
        /\ call'[c].allowed = call[c].allowed /\ call'[c].error = call[c].error
    BY <1>10, Moving DEF Place, Finished
  <2>2. CallInv(c)'
    BY <1>10, <2>1 DEF CallInv, WorktreeOK, TextOK, ChangeOK, UnderWayOK, Finished, Traceless
  <2> QED BY <1>el, <1>10, <2>1, <2>2
<1>11. ASSUME NEW c \in Call, JudgeEvidence(c) \/ Crash(c) PROVE CodeBuddyInv'
  <2>1. call[c].pc \in Place BY DEF CodeBuddyTypeOK, CallRow
  <2> QED BY <1>10, <1>11, <2>1 DEF JudgeEvidence, Crash
<1>12. CASE HumanWorks
  <2>1. /\ head' \in Nat /\ author' \in [Path -> Call \cup {"human", "nobody"}]
        /\ UNCHANGED <<worktrees, call>>
    BY <1>12 DEF HumanWorks, CodeBuddyTypeOK
  <2>2. \A d \in Call, p \in Path : author'[p] = d => author[p] = d
    BY <1>12, CodeBuddyAssumption DEF HumanWorks, CodeBuddyTypeOK
  <2>3. \A d \in Call : CallInv(d)' BY <2>1, <2>2, OthersStand
  <2> QED BY <2>1, <2>3 DEF CodeBuddyInv, CodeBuddyTypeOK
<1>13. CASE UNCHANGED codeBuddyVars
  BY <1>13, OthersStand DEF codeBuddyVars, CodeBuddyInv, CodeBuddyTypeOK
<1> QED BY <1>1, <1>2, <1>3, <1>4, <1>5, <1>6, <1>7, <1>8, <1>9, <1>11, <1>12, <1>13 DEF CodeBuddyNext

\* What OutcomeIsHonest rests on holds of every reachable state.
THEOREM CodeBuddyInvariant == CodeBuddySpec => []CodeBuddyInv
<1>1. CodeBuddyInit => CodeBuddyInv
  <2> SUFFICES ASSUME CodeBuddyInit PROVE CodeBuddyInv OBVIOUS
  <2>1. \A c \in Call : call[c].pc = "idle" /\ call[c].error = "none" /\ call[c] \in CallRow
    BY DEF CodeBuddyInit, NewCall, CallRow, Place, Finished
  <2>2. CodeBuddyTypeOK BY <2>1 DEF CodeBuddyInit, CodeBuddyTypeOK
  <2>3. \A c \in Call : c \notin worktrees /\ Traceless(c)
    BY CodeBuddyAssumption DEF CodeBuddyInit, Traceless
  <2> QED BY <2>1, <2>2, <2>3
          DEF CodeBuddyInv, CallInv, WorktreeOK, TextOK, ChangeOK, UnderWayOK
<1> QED BY <1>1, CodeBuddyStep, PTL DEF CodeBuddySpec

\* OutcomeIsHonest, for any calls, files and number of commits: a failed call leaves neither
\* text nor worktree unless it says so, and an accepted one kept to the approved files.
THEOREM OutcomesAreHonest == CodeBuddySpec => []OutcomeIsHonest
<1>1. CodeBuddyInv => OutcomeIsHonest
  <2> SUFFICES ASSUME CodeBuddyInv, NEW c \in Call
               PROVE  /\ call[c].pc = "failed" /\ call[c].error \notin {"RESTORATION_FAILED", "CLEANUP_FAILED"} =>
                           c \notin worktrees /\ \A p \in Path : author[p] # c
                      /\ call[c].pc = "accepted" =>
                           call[c].changed # {} /\ call[c].changed \subseteq call[c].allowed
    BY DEF OutcomeIsHonest
  <2>1. CallInv(c) /\ call[c] \in CallRow BY DEF CodeBuddyInv, CodeBuddyTypeOK
  <2>2. call[c].pc = "failed" /\ call[c].error \notin DirtyError => call[c].error \in CleanError
    BY <2>1 DEF CallInv, CallRow
  <2> QED BY <2>1, <2>2 DEF CallInv, WorktreeOK, TextOK, ChangeOK, Traceless, DirtyError
<1> QED BY <1>1, CodeBuddyInvariant, PTL

-----------------------------------------------------------------------------
(* Browser runs *)

RunStatus == {"absent", "PENDING", "RUNNING"} \cup Terminal
Awaits == {"egress", "listen", "launch", "goto", "action", "title", "evidence"}
Stands == {"none", "timer", "finally", "ended"} \cup Awaits
Handle == {"none", "open", "closed"}

BrowserTypeOK ==
  /\ status \in [Run -> RunStatus] /\ at \in [Run -> Stands]
  /\ plans \in [Run -> Nat] /\ todo \in [Run -> Nat]
  /\ browser \in [Run -> Handle] /\ proxy \in [Run -> Handle]
  /\ listed \in [Run -> SUBSET {"browser", "proxy"}]
  /\ waiting \in [Run -> BOOLEAN] /\ disposed \in BOOLEAN

\* Nothing is opened before the execution is under way, which a run that waits for a
\* timer never is; only one under way is running; and what stands at its finally is over.
RunOK(r) ==
  /\ at[r] = "none" <=> status[r] = "absent"
  /\ at[r] = "timer" <=> status[r] = "PENDING"
  /\ at[r] \in {"none", "timer", "ended"} => browser[r] # "open" /\ proxy[r] # "open"
  /\ at[r] \in {"finally", "ended"} => status[r] \in Terminal
  /\ at[r] = "action" => todo[r] > 0

BrowserInv == BrowserTypeOK /\ \A r \in Run : RunOK(r)

-----------------------------------------------------------------------------
\* One run moves, the others stay as they are.
Untouched(r) ==
  \A s \in Run \ {r} : /\ status'[s] = status[s] /\ at'[s] = at[s] /\ todo'[s] = todo[s]
                       /\ browser'[s] = browser[s] /\ proxy'[s] = proxy[s]

\* What holds of every run is kept by a step of one run that keeps it of that run.
LEMMA OneRunMoves ==
  ASSUME BrowserInv, NEW r \in Run, BrowserTypeOK', Untouched(r), RunOK(r)'
  PROVE  BrowserInv'
<1>1. ASSUME NEW s \in Run, s # r PROVE RunOK(s)'
  BY <1>1 DEF BrowserInv, Untouched, RunOK
<1> QED BY <1>1 DEF BrowserInv

\* Closing what is listed opens nothing.
LEMMA ClosingCloses ==
  ASSUME BrowserTypeOK, NEW R \in SUBSET Run, CloseListed(R)
  PROVE  /\ browser' \in [Run -> Handle] /\ proxy' \in [Run -> Handle]
         /\ \A s \in Run : /\ browser[s] # "open" => browser'[s] # "open"
                           /\ proxy[s] # "open" => proxy'[s] # "open"
         /\ \A s \in Run \ R : browser'[s] = browser[s] /\ proxy'[s] = proxy[s]
  BY DEF CloseListed, BrowserTypeOK, Handle

\* A run starts, under a timer or as an execution.
LEMMA StartKeepsInv ==
  ASSUME BrowserInv, NEW r \in Run, StartRun(r) \/ TimerCompletes(r)
  PROVE  BrowserInv'
<1>1. BrowserTypeOK'
  <2>1. CASE StartRun(r)
    <3>1. plans' \in [Run -> Nat] /\ status' \in [Run -> RunStatus] /\ at' \in [Run -> Stands]
      BY <2>1, BrowserAssumption
         DEF StartRun, BrowserInv, BrowserTypeOK, RunStatus, Stands, Awaits
    <3> QED BY <2>1, <3>1 DEF StartRun, Record, resources, BrowserInv, BrowserTypeOK
  <2>2. CASE TimerCompletes(r)
    BY <2>2 DEF TimerCompletes, Record, resources, BrowserInv, BrowserTypeOK, RunStatus, Stands,
                Terminal
  <2> QED BY <2>1, <2>2
<1>2. Untouched(r) /\ RunOK(r)'
  BY DEF StartRun, TimerCompletes, resources, BrowserInv, BrowserTypeOK, RunOK, Untouched, Terminal
<1> QED BY <1>1, <1>2, OneRunMoves

\* The awaits of the execution.
LEMMA AwaitKeepsInv ==
  ASSUME BrowserInv, NEW r \in Run,
         \/ EgressAllowed(r) \/ ProxyListens(r) \/ BrowserLaunched(r)
         \/ PageLoaded(r) \/ ActionDone(r) \/ TitleRead(r)
  PROVE  BrowserInv'
<1> USE DEF BrowserInv, BrowserTypeOK, RunStatus, Stands, Awaits, Handle, Terminal, Record, Silent,
            resources, Resume
<1>1. CASE EgressAllowed(r) 
  <2>1. BrowserTypeOK' BY <1>1 DEF EgressAllowed
  <2>2. Untouched(r) /\ RunOK(r)' BY <1>1 DEF EgressAllowed, RunOK, Untouched
  <2> QED BY <2>1, <2>2, OneRunMoves
<1>2. CASE ProxyListens(r) 
  <2>1. BrowserTypeOK' BY <1>2 DEF ProxyListens
  <2>2. Untouched(r) /\ RunOK(r)' BY <1>2 DEF ProxyListens, RunOK, Untouched
  <2> QED BY <2>1, <2>2, OneRunMoves
<1>3. CASE BrowserLaunched(r) 
  <2>1. BrowserTypeOK' BY <1>3 DEF BrowserLaunched
  <2>2. Untouched(r) /\ RunOK(r)' BY <1>3 DEF BrowserLaunched, RunOK, Untouched
  <2> QED BY <2>1, <2>2, OneRunMoves
<1>4. CASE PageLoaded(r) 
  <2>1. BrowserTypeOK' BY <1>4 DEF PageLoaded
  <2>2. Untouched(r) /\ RunOK(r)' BY <1>4 DEF PageLoaded, RunOK, Untouched
  <2> QED BY <2>1, <2>2, OneRunMoves
<1>5. CASE ActionDone(r) 
  <2>1. todo[r] \in Nat /\ todo[r] > 0 BY <1>5 DEF ActionDone, RunOK
  <2>2. BrowserTypeOK' BY <1>5, <2>1 DEF ActionDone
  <2>3. Untouched(r) /\ RunOK(r)' BY <1>5, <2>1 DEF ActionDone, RunOK, Untouched
  <2> QED BY <2>2, <2>3, OneRunMoves
<1>6. CASE TitleRead(r) 
  <2>1. BrowserTypeOK' BY <1>6 DEF TitleRead
  <2>2. Untouched(r) /\ RunOK(r)' BY <1>6 DEF TitleRead, RunOK, Untouched
  <2> QED BY <2>1, <2>2, OneRunMoves
<1> QED BY <1>1, <1>2, <1>3, <1>4, <1>5, <1>6

\* The execution ends: it completes, throws, and closes what it opened.
LEMMA EndKeepsInv ==
  ASSUME BrowserInv, NEW r \in Run, Complete(r) \/ Throws(r) \/ Finally(r)
  PROVE  BrowserInv'
<1> USE DEF BrowserInv, BrowserTypeOK, RunStatus, Stands, Awaits, Handle, Terminal, Record, Silent,
            resources
<1>1. CASE Complete(r)
  <2>1. BrowserTypeOK' BY <1>1 DEF Complete
  <2>2. Untouched(r) /\ RunOK(r)' BY <1>1 DEF Complete, RunOK, Untouched
  <2> QED BY <2>1, <2>2, OneRunMoves
<1>2. CASE Throws(r)
  <2>1. BrowserTypeOK' BY <1>2 DEF Throws
  <2>2. Untouched(r) /\ RunOK(r)' BY <1>2 DEF Throws, RunOK, Untouched
  <2> QED BY <2>1, <2>2, OneRunMoves
<1>3. CASE Finally(r)
  <2>1. BrowserTypeOK' BY <1>3 DEF Finally
  <2>2. Untouched(r) /\ RunOK(r)' BY <1>3 DEF Finally, RunOK, Untouched
  <2> QED BY <2>1, <2>2, OneRunMoves
<1> QED BY <1>1, <1>2, <1>3

\* Cancellation, timeout and disposal close what is listed, from outside the execution.
LEMMA StopKeepsInv ==
  ASSUME BrowserInv, Dispose \/ \E r \in Run : Cancel(r) \/ TimesOut(r)
  PROVE  BrowserInv'
<1>1. ASSUME NEW r \in Run, Cancel(r) PROVE BrowserInv'
  <2>1. /\ browser' \in [Run -> Handle] /\ proxy' \in [Run -> Handle]
        /\ browser[r] # "open" => browser'[r] # "open"
        /\ proxy[r] # "open" => proxy'[r] # "open"
        /\ \A s \in Run \ {r} : browser'[s] = browser[s] /\ proxy'[s] = proxy[s]
    BY <1>1, ClosingCloses DEF Cancel, BrowserInv
  <2>2. BrowserTypeOK'
    BY <1>1, <2>1 DEF Cancel, BrowserInv, BrowserTypeOK, RunStatus, Stands, Terminal, Record, Silent
  <2>3. Untouched(r) BY <1>1, <2>1 DEF Cancel, BrowserInv, BrowserTypeOK, Untouched
  <2>4. RunOK(r)' BY <1>1, <2>1 DEF Cancel, BrowserInv, BrowserTypeOK, RunOK, Terminal
  <2> QED BY <2>2, <2>3, <2>4, OneRunMoves
<1>2. ASSUME NEW r \in Run, TimesOut(r) PROVE BrowserInv'
  <2>1. /\ browser' \in [Run -> Handle] /\ proxy' \in [Run -> Handle]
        /\ browser[r] # "open" => browser'[r] # "open"
        /\ proxy[r] # "open" => proxy'[r] # "open"
        /\ \A s \in Run \ {r} : browser'[s] = browser[s] /\ proxy'[s] = proxy[s]
    BY <1>2, ClosingCloses DEF TimesOut, BrowserInv
  <2>2. BrowserTypeOK'
    BY <1>2, <2>1 DEF TimesOut, BrowserInv, BrowserTypeOK, RunStatus, Stands, Terminal, Record
  <2>3. Untouched(r) BY <1>2, <2>1 DEF TimesOut, BrowserInv, BrowserTypeOK, Untouched
  <2>4. RunOK(r)' BY <1>2, <2>1 DEF TimesOut, BrowserInv, BrowserTypeOK, RunOK, Terminal
  <2> QED BY <2>2, <2>3, <2>4, OneRunMoves
<1>3. CASE Dispose
  <2>1. /\ browser' \in [Run -> Handle] /\ proxy' \in [Run -> Handle]
        /\ \A s \in Run : /\ browser[s] # "open" => browser'[s] # "open"
                          /\ proxy[s] # "open" => proxy'[s] # "open"
    BY <1>3, ClosingCloses DEF Dispose, BrowserInv
  <2>2. BrowserTypeOK' BY <1>3, <2>1 DEF Dispose, BrowserInv, BrowserTypeOK
  <2>3. \A r \in Run : RunOK(r)' BY <1>3, <2>1 DEF Dispose, BrowserInv, RunOK
  <2> QED BY <2>2, <2>3 DEF BrowserInv
<1> QED BY <1>1, <1>2, <1>3

\* Every step keeps the invariant, action by action.
LEMMA BrowserNextInv ==
  ASSUME BrowserInv, [BrowserNext]_browserVars
  PROVE  BrowserInv'
<1>1. CASE \E r \in Run : StartRun(r) \/ TimerCompletes(r) BY <1>1, StartKeepsInv
<1>2. CASE \E r \in Run : \/ EgressAllowed(r) \/ ProxyListens(r) \/ BrowserLaunched(r)
                          \/ PageLoaded(r) \/ ActionDone(r) \/ TitleRead(r)
  BY <1>2, AwaitKeepsInv
<1>3. CASE \E r \in Run : Complete(r) \/ Throws(r) \/ Finally(r) BY <1>3, EndKeepsInv
<1>4. CASE Dispose \/ \E r \in Run : Cancel(r) \/ TimesOut(r) BY <1>4, StopKeepsInv
<1>5. CASE \E r \in Run : NextEvent(r) \/ WaitTimesOut(r)
  BY <1>5 DEF NextEvent, WaitTimesOut, Record, resources, BrowserInv, BrowserTypeOK, RunOK
<1>6. CASE UNCHANGED browserVars
  BY <1>6 DEF browserVars, resources, BrowserInv, BrowserTypeOK, RunOK
<1> QED BY <1>1, <1>2, <1>3, <1>4, <1>5, <1>6 DEF BrowserNext

\* Once the execution of a run has ended its status is final and its browser and proxy
\* are closed, for any number of runs, plans of any length, and whatever cancellation,
\* timeout or disposal fell between its awaits (PlaywrightBrowserRuntime.execute).
THEOREM EndedRunHasClosed == BrowserSpec => []EndedRunLeavesNothing
<1>1. BrowserInit => BrowserInv
  <2> SUFFICES ASSUME BrowserInit PROVE BrowserInv OBVIOUS
  <2>1. BrowserTypeOK BY DEF BrowserInit, BrowserTypeOK, RunStatus, Stands, Handle
  <2>2. \A r \in Run : RunOK(r) BY DEF BrowserInit, RunOK
  <2> QED BY <2>1, <2>2 DEF BrowserInv
<1>2. BrowserInv => EndedRunLeavesNothing BY DEF BrowserInv, RunOK, EndedRunLeavesNothing
<1> QED BY <1>1, <1>2, BrowserNextInv, PTL DEF BrowserSpec

-----------------------------------------------------------------------------
(* The voice *)

Word == Announcement \cup {Silence}
StatusRow == [of : Word, audio : BOOLEAN, fallback : BOOLEAN, active : BOOLEAN]
ProducerRow == [pc : {"idle", "ask", "speak", "wait", "fallback"}, read : StatusRow, job : Nat]
JobRow == [of : Word, audio : BOOLEAN, status : {"QUEUED", "PLAYING", "DONE", "FAILED"}]
Provider == {Order[i] : i \in DOMAIN Order}
WorkerRow ==
  [pc : {"idle", "cue", "execute", "waiting", "routing", "playing", "closing", "ended"},
   job : Nat, passed : SUBSET Provider, fx : BOOLEAN, outcome : {"none", "DONE", "FAILED"}]

VoiceTypeOK ==
  /\ board \in StatusRow /\ last \in Word /\ producer \in [Producer -> ProducerRow]
  /\ jobs \in Seq(JobRow) /\ worker \in WorkerRow
  /\ tester \in {"idle", "waiting", "playing"} /\ lock \in {"free", "worker", "tester"}
  /\ cooling \subseteq Provider

\* A producer waits for a job that says what it has read.
WaitsForItsWord ==
  \A p \in Producer : producer[p].pc = "wait" =>
    producer[p].job \in DOMAIN jobs /\ jobs[producer[p].job].of = producer[p].read.of

\* The worker's job is playing, so that no job that is done is ended again.
WorkerPlaysItsJob ==
  worker.pc # "idle" => worker.job \in DOMAIN jobs /\ jobs[worker.job].status = "PLAYING"

\* The worker holds the lock from the routing to the end of the execution, and speaks
\* under it only with a provider that has not failed this job.
WorkerRoutes ==
  lock = "worker" =>
    worker.pc \in {"routing", "playing"} /\ (worker.pc = "playing" => Left # {})

VoiceInv ==
  VoiceTypeOK /\ WaitsForItsWord /\ WorkerPlaysItsJob /\ WorkerRoutes /\ ReceiptMeansHeard

-----------------------------------------------------------------------------
\* Every non-empty set of natural numbers has a least element: the intervals below its
\* elements are finite sets, and strict inclusion is well-founded on those.
LEMMA LeastNatural ==
  ASSUME NEW N \in SUBSET Nat, N # {}
  PROVE  \E n \in N : \A k \in N : n <= k
<1> DEFINE Below == {1 .. k : k \in N}
<1>1. Below \subseteq FiniteSubsetsOf(Nat) /\ Below # {}
  <2>1. \A k \in N : 1 .. k \subseteq Nat /\ IsFiniteSet(1 .. k) BY FS_Interval
  <2> QED BY <2>1 DEF FiniteSubsetsOf
<1>2. PICK b \in Below : \A c \in Below : ~ (<<c, b>> \in StrictSubsetOrdering(Nat))
  BY <1>1, WFMin, FS_StrictSubsetOrderingWellFounded
<1>3. PICK n \in N : b = 1 .. n OBVIOUS
<1>4. ASSUME NEW k \in N PROVE n <= k
  <2>1. SUFFICES ASSUME k < n PROVE FALSE OBVIOUS
  <2>2. 1 .. k \in Below /\ 1 .. k \subseteq 1 .. n /\ n \in 1 .. n /\ n \notin 1 .. k
    BY <2>1
  <2>3. <<1 .. k, 1 .. n>> \in StrictSubsetOrdering(Nat)
    BY <2>2 DEF StrictSubsetOrdering
  <2> QED BY <1>2, <1>3, <2>2, <2>3
<1> QED BY <1>4

\* The provider whose turn it is has not failed this job.
LEMMA ChosenIsLeft ==
  ASSUME Left # {}
  PROVE  Chosen \in Provider
<1>1. Left \subseteq DOMAIN Order /\ DOMAIN Order \subseteq Nat
  BY VoiceAssumption, LenProperties DEF Left
<1>2. PICK j \in Left : \A k \in Left : j <= k BY <1>1, LeastNatural
<1>3. (CHOOSE i \in Left : \A k \in Left : i <= k) \in Left BY <1>2
<1> QED BY <1>1, <1>3 DEF Chosen, Provider

\* A job is added behind the others.
LEMMA JobIsAdded ==
  ASSUME VoiceTypeOK, NEW job \in JobRow, jobs' = Append(jobs, job)
  PROVE  /\ jobs' \in Seq(JobRow) /\ Len(jobs) \in Nat
         /\ DOMAIN jobs = 1 .. Len(jobs) /\ DOMAIN jobs' = 1 .. Len(jobs) + 1
         /\ jobs'[Len(jobs) + 1] = job /\ \A i \in DOMAIN jobs : jobs'[i] = jobs[i]
<1>1. jobs \in Seq(JobRow) BY DEF VoiceTypeOK
<1>2. /\ Append(jobs, job) \in Seq(JobRow) /\ Len(Append(jobs, job)) = Len(jobs) + 1
      /\ Append(jobs, job)[Len(jobs) + 1] = job
      /\ \A i \in 1 .. Len(jobs) : Append(jobs, job)[i] = jobs[i]
  BY <1>1, AppendProperties
<1>3. Len(jobs) \in Nat /\ DOMAIN jobs = 1 .. Len(jobs) BY <1>1, LenProperties
<1>4. DOMAIN jobs' = 1 .. Len(jobs') BY <1>2, LenProperties
<1> QED BY <1>2, <1>3, <1>4

\* The status of one job is set, and nothing else of the queue changes.
LEMMA JobIsSet ==
  ASSUME VoiceTypeOK, NEW j \in DOMAIN jobs, NEW s \in {"QUEUED", "PLAYING", "DONE", "FAILED"},
         jobs' = [jobs EXCEPT ![j].status = s]
  PROVE  /\ jobs' \in Seq(JobRow) /\ DOMAIN jobs' = DOMAIN jobs
         /\ jobs'[j].of = jobs[j].of /\ jobs'[j].status = s
         /\ \A i \in DOMAIN jobs \ {j} : jobs'[i] = jobs[i]
<1> DEFINE job == [jobs[j] EXCEPT !.status = s]
<1>1. jobs \in Seq(JobRow) /\ DOMAIN jobs = 1 .. Len(jobs) /\ jobs[j] \in JobRow
  BY LenProperties, ElementOfSeq DEF VoiceTypeOK
<1>2. job \in JobRow /\ job.of = jobs[j].of /\ job.status = s BY <1>1 DEF JobRow
<1>3. jobs' = [jobs EXCEPT ![j] = job] OBVIOUS
<1> HIDE DEF job
<1>4. /\ [jobs EXCEPT ![j] = job] \in Seq(JobRow)
      /\ \A i \in 1 .. Len(jobs) : [jobs EXCEPT ![j] = job][i] = IF i = j THEN job ELSE jobs[i]
  BY <1>1, <1>2, ExceptSeq
<1>5. DOMAIN jobs' = DOMAIN jobs BY <1>3
<1> QED BY <1>1, <1>2, <1>3, <1>4, <1>5

-----------------------------------------------------------------------------
\* A producer that goes on to anything but waiting keeps what is said of the producers.
LEMMA ProducerGoesOn ==
  ASSUME VoiceInv, NEW p \in Producer, NEW row \in ProducerRow, Set(p, row), row.pc # "wait",
         jobs' = jobs
  PROVE  producer' \in [Producer -> ProducerRow] /\ WaitsForItsWord'
<1>1. producer' = [producer EXCEPT ![p] = row] BY DEF Set
<1>2. producer' \in [Producer -> ProducerRow] BY <1>1 DEF VoiceInv, VoiceTypeOK
<1>3. WaitsForItsWord' BY <1>1 DEF VoiceInv, VoiceTypeOK, WaitsForItsWord
<1> QED BY <1>2, <1>3

\* The worker, its queue and the lock stay: what is said of the worker does, too.
LEMMA WorkerStays ==
  ASSUME VoiceInv, worker' = worker, lock' = lock, jobs' = jobs
  PROVE  WorkerPlaysItsJob' /\ WorkerRoutes'
  BY DEF VoiceInv, WorkerPlaysItsJob, WorkerRoutes, Left

\* What a producer does after a refusal is one of its steps.
LEMMA NotConfirmedGoesOn ==
  ASSUME VoiceInv, NEW p \in Producer, NEW audio, NotConfirmed(p, audio), jobs' = jobs
  PROVE  producer' \in [Producer -> ProducerRow] /\ WaitsForItsWord'
<1> DEFINE row == IF audio /\ producer[p].read.fallback THEN [producer[p] EXCEPT !.pc = "fallback"]
                  ELSE Rested
<1>1. producer[p] \in ProducerRow BY DEF VoiceInv, VoiceTypeOK
<1>2. row \in ProducerRow /\ row.pc # "wait"
  BY <1>1 DEF ProducerRow, Rested, NoStatus, StatusRow, Word
<1>3. Set(p, row) BY DEF NotConfirmed
<1> HIDE DEF row
<1> QED BY <1>2, <1>3, ProducerGoesOn

\* The status file, the checkpoint and the reporter's polling touch no job.
LEMMA StatusKeepsInv ==
  ASSUME VoiceInv, Poll \/ AskBusy \/ \E b \in Statuses : SetStatus(b) \/ Checkpoint(b)
  PROVE  VoiceInv'
<1> USE DEF VoiceInv
<1>1. Statuses \subseteq StatusRow BY VoiceAssumption DEF StatusRow, Word
<1>2. ASSUME NEW b \in Statuses, SetStatus(b) PROVE VoiceInv'
  <2>1. VoiceTypeOK' BY <1>1, <1>2 DEF SetStatus, VoiceTypeOK
  <2> QED BY <1>2, <2>1, WorkerStays DEF SetStatus, WaitsForItsWord, ReceiptMeansHeard
<1>3. ASSUME NEW b \in Statuses, Checkpoint(b) PROVE VoiceInv'
  <2> DEFINE row == [pc |-> "speak", read |-> b, job |-> 0]
  <2>1. row \in ProducerRow /\ row.pc # "wait" BY <1>1 DEF ProducerRow
  <2>2. Set("checkpoint", row) /\ jobs' = jobs BY <1>3 DEF Checkpoint
  <2> HIDE DEF row
  <2>3. producer' \in [Producer -> ProducerRow] /\ WaitsForItsWord'
    BY <2>1, <2>2, ProducerGoesOn DEF Producer
  <2>4. VoiceTypeOK' BY <1>1, <1>3, <2>3 DEF Checkpoint, VoiceTypeOK
  <2> QED BY <1>3, <2>3, <2>4, WorkerStays DEF Checkpoint, ReceiptMeansHeard
<1>4. CASE Poll
  <2> DEFINE row == [pc |-> "ask", read |-> board, job |-> 0]
  <2>1. row \in ProducerRow /\ row.pc # "wait" BY DEF ProducerRow, VoiceTypeOK
  <2>2. Set("reporter", row) /\ jobs' = jobs BY <1>4 DEF Poll
  <2> HIDE DEF row
  <2>3. producer' \in [Producer -> ProducerRow] /\ WaitsForItsWord'
    BY <2>1, <2>2, ProducerGoesOn DEF Producer
  <2>4. VoiceTypeOK' BY <1>4, <2>3 DEF Poll, VoiceTypeOK
  <2> QED BY <1>4, <2>3, <2>4, WorkerStays DEF Poll, ReceiptMeansHeard
<1>5. CASE AskBusy
  <2> DEFINE row == IF Busy THEN Rested ELSE [producer["reporter"] EXCEPT !.pc = "speak"]
  <2>1. producer["reporter"] \in ProducerRow BY DEF VoiceTypeOK, Producer
  <2>2. row \in ProducerRow /\ row.pc # "wait"
    BY <2>1 DEF ProducerRow, Rested, NoStatus, StatusRow, Word
  <2>3. Set("reporter", row) /\ jobs' = jobs BY <1>5 DEF AskBusy
  <2> HIDE DEF row
  <2>4. producer' \in [Producer -> ProducerRow] /\ WaitsForItsWord'
    BY <2>2, <2>3, ProducerGoesOn DEF Producer
  <2>5. VoiceTypeOK' BY <1>5, <2>4 DEF AskBusy, VoiceTypeOK
  <2> QED BY <1>5, <2>4, <2>5, WorkerStays DEF AskBusy, ReceiptMeansHeard
<1> QED BY <1>2, <1>3, <1>4, <1>5

\* A job is queued for what the producer has read; the answer makes it the last word
\* only when the job is done, and a failure leaves the last word alone.
LEMMA ProducerKeepsInv ==
  ASSUME VoiceInv, NEW p \in Producer, Enqueue(p) \/ Refused(p) \/ Answered(p) \/ Fails(p)
  PROVE  VoiceInv'
<1> USE DEF VoiceInv
<1>1. producer[p] \in ProducerRow BY DEF VoiceTypeOK
<1>2. CASE Enqueue(p)
  <2> DEFINE r == producer[p]
             job == [of |-> r.read.of, audio |-> r.pc = "speak" /\ r.read.audio, status |-> "QUEUED"]
  <2>0. PICK row : row = [r EXCEPT !.pc = "wait", !.job = Len(jobs) + 1] OBVIOUS
  <2>1. job \in JobRow /\ job.of = r.read.of BY <1>1 DEF JobRow, ProducerRow, StatusRow
  <2>2. jobs' = Append(jobs, job) /\ producer' = [producer EXCEPT ![p] = row]
    BY <1>2, <2>0 DEF Enqueue, Set
  <2> HIDE DEF job
  <2>3. /\ jobs' \in Seq(JobRow) /\ Len(jobs) \in Nat
        /\ DOMAIN jobs = 1 .. Len(jobs) /\ DOMAIN jobs' = 1 .. Len(jobs) + 1
        /\ jobs'[Len(jobs) + 1] = job /\ \A i \in DOMAIN jobs : jobs'[i] = jobs[i]
    BY <2>1, <2>2, JobIsAdded
  <2>4. row \in ProducerRow /\ row.job = Len(jobs) + 1 /\ row.read = r.read
    <3>1. PICK n : n = Len(jobs) + 1 OBVIOUS
    <3>2. PICK q : q = producer[p] OBVIOUS
    <3>3. n \in Nat /\ q \in ProducerRow /\ row = [q EXCEPT !.pc = "wait", !.job = n]
      BY <1>1, <2>0, <2>3, <3>1, <3>2
    <3>4. row \in ProducerRow /\ row.job = n /\ row.read = q.read BY <3>3 DEF ProducerRow
    <3> QED BY <3>1, <3>2, <3>4
  <2>5. VoiceTypeOK' BY <1>2, <2>2, <2>3, <2>4 DEF Enqueue, VoiceTypeOK
  <2>6. WaitsForItsWord'
    BY <2>1, <2>2, <2>3, <2>4 DEF WaitsForItsWord, VoiceTypeOK
  <2>7. WorkerPlaysItsJob' BY <1>2, <2>3 DEF Enqueue, WorkerPlaysItsJob
  <2>8. WorkerRoutes' BY <1>2 DEF Enqueue, WorkerRoutes, Left
  <2>9. ReceiptMeansHeard' BY <1>2, <2>3 DEF Enqueue, ReceiptMeansHeard
  <2> QED BY <2>5, <2>6, <2>7, <2>8, <2>9
<1>3. CASE Refused(p)
  <2>1. producer' \in [Producer -> ProducerRow] /\ WaitsForItsWord'
    BY <1>3, NotConfirmedGoesOn DEF Refused
  <2>2. VoiceTypeOK' BY <1>3, <2>1 DEF Refused, VoiceTypeOK
  <2> QED BY <1>3, <2>1, <2>2, WorkerStays DEF Refused, ReceiptMeansHeard
<1>4. Rested \in ProducerRow /\ Rested.pc # "wait"
  BY DEF Rested, ProducerRow, NoStatus, StatusRow, Word
<1>5. CASE Answered(p)
  <2>1. producer' \in [Producer -> ProducerRow] /\ WaitsForItsWord'
    BY <1>4, <1>5, ProducerGoesOn, NotConfirmedGoesOn DEF Answered
  <2>2. \/ last' = last
        \/ /\ jobs[producer[p].job].status = "DONE" /\ last' = producer[p].read.of
           /\ producer[p].pc = "wait"
    BY <1>5 DEF Answered, JobDone
  <2>3. VoiceTypeOK'
    BY <1>1, <1>5, <2>1, <2>2 DEF Answered, VoiceTypeOK, ProducerRow, StatusRow
  <2>4. ReceiptMeansHeard'
    BY <1>5, <2>2 DEF Answered, ReceiptMeansHeard, WaitsForItsWord
  <2> QED BY <1>5, <2>1, <2>3, <2>4, WorkerStays DEF Answered
<1>6. CASE Fails(p)
  <2>1. producer' \in [Producer -> ProducerRow] /\ WaitsForItsWord'
    BY <1>4, <1>6, ProducerGoesOn, NotConfirmedGoesOn DEF Fails
  <2>2. VoiceTypeOK' BY <1>6, <2>1 DEF Fails, VoiceTypeOK
  <2> QED BY <1>6, <2>1, <2>2, WorkerStays DEF Fails, ReceiptMeansHeard
<1> QED BY <1>2, <1>3, <1>5, <1>6

\* The worker takes a queued job.
LEMMA TakeKeepsInv ==
  ASSUME VoiceInv, NEW fx \in BOOLEAN, TakeJob(fx)
  PROVE  VoiceInv'
<1> USE DEF VoiceInv
<1>1. PICK j \in DOMAIN jobs :
        /\ jobs[j].status = "QUEUED" /\ jobs' = [jobs EXCEPT ![j].status = "PLAYING"]
        /\ worker' = [pc |-> IF fx THEN "cue" ELSE "execute", job |-> j, passed |-> {}, fx |-> fx,
                      outcome |-> "none"]
  BY DEF TakeJob
<1>2. /\ jobs' \in Seq(JobRow) /\ DOMAIN jobs' = DOMAIN jobs
      /\ jobs'[j].of = jobs[j].of /\ jobs'[j].status = "PLAYING"
      /\ \A i \in DOMAIN jobs \ {j} : jobs'[i] = jobs[i]
  BY <1>1, JobIsSet
<1>3. j \in Nat BY <1>1, LenProperties DEF VoiceTypeOK
<1>4. worker' \in WorkerRow /\ worker'.job = j BY <1>1, <1>3 DEF WorkerRow
<1>5. VoiceTypeOK' BY <1>2, <1>4 DEF TakeJob, VoiceTypeOK
<1>6. WaitsForItsWord' BY <1>1, <1>2 DEF TakeJob, WaitsForItsWord
<1>7. WorkerPlaysItsJob' BY <1>2, <1>4 DEF WorkerPlaysItsJob
<1>8. WorkerRoutes' BY DEF TakeJob, WorkerRoutes
<1>9. ReceiptMeansHeard' BY <1>1, <1>2 DEF TakeJob, ReceiptMeansHeard
<1> QED BY <1>5, <1>6, <1>7, <1>8, <1>9

\* The worker goes on with its job: it plays, waits for the lock, routes and cools down.
LEMMA WorkerKeepsInv ==
  ASSUME VoiceInv, \/ ExecuteJob \/ WorkerLocks \/ TryProvider \/ ProviderFails
                   \/ \E o \in {"DONE", "FAILED"} : Executed(o)
  PROVE  VoiceInv'
<1> USE DEF VoiceInv
<1>1. worker \in WorkerRow BY DEF VoiceTypeOK
<1>2. /\ UNCHANGED <<board, last, producer, jobs, tester>>
      /\ worker.pc # "idle" /\ worker'.pc # "idle" /\ worker'.job = worker.job
  BY <1>1 DEF ExecuteJob, WorkerLocks, TryProvider, ProviderFails, Executed, WorkerRow
<1>3. WaitsForItsWord' /\ WorkerPlaysItsJob' /\ ReceiptMeansHeard'
  BY <1>2 DEF WaitsForItsWord, WorkerPlaysItsJob, ReceiptMeansHeard
<1>4. worker' \in WorkerRow /\ lock' \in {"free", "worker", "tester"} /\ cooling' \subseteq Provider
      /\ WorkerRoutes'
  <2>1. CASE ExecuteJob
    BY <1>1, <2>1 DEF ExecuteJob, WorkerRow, VoiceTypeOK, WorkerRoutes
  <2>2. CASE WorkerLocks
    BY <1>1, <2>2 DEF WorkerLocks, WorkerRow, VoiceTypeOK, WorkerRoutes
  <2>3. CASE TryProvider
    <3>1. worker' \in WorkerRow /\ worker'.passed = worker.passed /\ worker'.pc = "playing"
      BY <1>1, <2>3 DEF TryProvider, WorkerRow
    <3>2. Left' = Left BY <3>1 DEF Left
    <3> QED BY <2>3, <3>1, <3>2 DEF TryProvider, VoiceTypeOK, WorkerRoutes
  <2>4. CASE ProviderFails
    <3>1. Chosen \in Provider BY <2>4, ChosenIsLeft DEF ProviderFails, WorkerRoutes
    <3>2. worker' \in WorkerRow /\ worker'.pc = "routing"
      BY <1>1, <2>4, <3>1 DEF ProviderFails, WorkerRow
    <3> QED BY <2>4, <3>1, <3>2 DEF ProviderFails, VoiceTypeOK, WorkerRoutes
  <2>5. CASE \E o \in {"DONE", "FAILED"} : Executed(o)
    BY <1>1, <2>5 DEF Executed, WorkerRow, VoiceTypeOK, WorkerRoutes
  <2> QED BY <2>1, <2>2, <2>3, <2>4, <2>5
<1> QED BY <1>2, <1>3, <1>4 DEF VoiceTypeOK

\* A job that ends was playing: none that is done is ended again.
LEMMA EndJobKeepsInv ==
  ASSUME VoiceInv, NEW o \in {"DONE", "FAILED"}, EndJob(o)
  PROVE  VoiceInv'
<1> USE DEF VoiceInv
<1>1. PICK j : j = worker.job OBVIOUS
<1>2. /\ j \in DOMAIN jobs /\ jobs[j].status = "PLAYING"
      /\ jobs' = [jobs EXCEPT ![j].status = o] /\ worker' = Resting
      /\ UNCHANGED <<board, last, producer, tester, lock, cooling>>
  BY <1>1 DEF EndJob, WorkerPlaysItsJob
<1>3. /\ jobs' \in Seq(JobRow) /\ DOMAIN jobs' = DOMAIN jobs /\ jobs'[j].of = jobs[j].of
      /\ \A i \in DOMAIN jobs \ {j} : jobs'[i] = jobs[i]
  BY <1>2, JobIsSet
<1>4. Resting \in WorkerRow /\ Resting.pc = "idle" BY DEF Resting, WorkerRow
<1>5. VoiceTypeOK' BY <1>2, <1>3, <1>4 DEF VoiceTypeOK
<1>6. WaitsForItsWord' BY <1>2, <1>3 DEF WaitsForItsWord
<1>7. WorkerPlaysItsJob' BY <1>2, <1>4 DEF WorkerPlaysItsJob
<1>8. lock # "worker" BY DEF EndJob, WorkerRoutes
<1>9. WorkerRoutes' BY <1>2, <1>8 DEF WorkerRoutes
<1>10. ReceiptMeansHeard' BY <1>2, <1>3 DEF ReceiptMeansHeard
<1> QED BY <1>5, <1>6, <1>7, <1>9, <1>10

\* Every step keeps the invariant, action by action.
LEMMA VoiceNextInv ==
  ASSUME VoiceInv, [VoiceNext]_voiceVars
  PROVE  VoiceInv'
<1>1. CASE Poll \/ AskBusy \/ \E b \in Statuses : SetStatus(b) \/ Checkpoint(b)
  BY <1>1, StatusKeepsInv
<1>2. CASE \E p \in Producer : Enqueue(p) \/ Refused(p) \/ Answered(p) \/ Fails(p)
  BY <1>2, ProducerKeepsInv
<1>3. CASE \E fx \in BOOLEAN : TakeJob(fx) BY <1>3, TakeKeepsInv
<1>4. CASE \/ ExecuteJob \/ WorkerLocks \/ TryProvider \/ ProviderFails
           \/ \E o \in {"DONE", "FAILED"} : Executed(o)
  BY <1>4, WorkerKeepsInv
<1>5. CASE \E o \in {"DONE", "FAILED"} : EndJob(o) BY <1>5, EndJobKeepsInv
<1>6. CASE TestSpeaks
  <2>1. cooling' \subseteq Provider
    <3>1. cooling \subseteq Provider /\ DOMAIN Order = 1 .. Len(Order) /\ Len(Order) \in Nat
      BY VoiceAssumption, LenProperties DEF VoiceInv, VoiceTypeOK
    <3>2. \A n \in 1 .. Len(Order) + 1 : FailingBefore(n) \subseteq Provider
      BY <3>1 DEF FailingBefore, Provider
    <3> QED BY <1>6, <3>1, <3>2 DEF TestSpeaks
  <2> QED
    BY <1>6, <2>1 DEF TestSpeaks, VoiceInv, VoiceTypeOK, WaitsForItsWord, WorkerPlaysItsJob,
                      WorkerRoutes, Left, ReceiptMeansHeard
<1>7. CASE \E p \in cooling : CoolsDown(p)
  BY <1>7 DEF CoolsDown, VoiceInv, VoiceTypeOK, WaitsForItsWord, WorkerPlaysItsJob, WorkerRoutes,
              Left, ReceiptMeansHeard
<1>8. CASE UNCHANGED voiceVars
  BY <1>8 DEF voiceVars, VoiceInv, VoiceTypeOK, WaitsForItsWord, WorkerPlaysItsJob, WorkerRoutes,
              Left, ReceiptMeansHeard
<1> QED BY <1>1, <1>2, <1>3, <1>4, <1>5, <1>6, <1>7, <1>8 DEF VoiceNext

\* The last-spoken file names only what was played to its end, for any announcements,
\* providers and length of the queue (reporter.py speak, _job_done and save_last).
THEOREM LastWordWasHeard == VoiceSpec => []ReceiptMeansHeard
<1>1. VoiceInit => VoiceInv
  <2> SUFFICES ASSUME VoiceInit PROVE VoiceInv OBVIOUS
  <2>1. VoiceTypeOK
    BY DEF VoiceInit, VoiceTypeOK, NoStatus, StatusRow, Word, Rested, ProducerRow, Resting, WorkerRow
  <2>2. WaitsForItsWord /\ WorkerPlaysItsJob /\ WorkerRoutes /\ ReceiptMeansHeard
    BY DEF VoiceInit, WaitsForItsWord, WorkerPlaysItsJob, WorkerRoutes, ReceiptMeansHeard, Rested,
           Resting
  <2> QED BY <2>1, <2>2 DEF VoiceInv
<1>2. VoiceInv => ReceiptMeansHeard BY DEF VoiceInv
<1> QED BY <1>1, <1>2, VoiceNextInv, PTL DEF VoiceSpec

-----------------------------------------------------------------------------
(* The CI query *)

Results == {"success", "failure", "cancelled", "active"}
Item == [id : 1 .. MaxItems, result : Results, workflow : Workflow \cup {NoFilter}]
Observed == [id : 1 .. MaxItems, run : BOOLEAN, result : Results]
PlaceInList == [list : Lists, page : Nat \ {0}, total : Nat, seen : SUBSET (1 .. MaxItems)]
Reader == [pc : {"reading", "read"}, commit : Commit, filter : Workflow \cup {NoFilter}, at : PlaceInList,
           next : Seq(Lists), observed : SUBSET Observed]
Over == [pc : {"failed", "issued"}, commit : Commit, filter : Workflow \cup {NoFilter}]

CiTypes ==
  /\ items \in 0 .. MaxItems /\ ci \in [Commit -> [Lists -> Seq(Item)]]
  /\ query \in [Phase -> {Quiet} \cup Reader \cup Over]
  /\ DOMAIN standing = Phase /\ DOMAIN verdict = Phase

\* No two items of a commit have the same id, and none has one that is still to be given.
Named(lists, n) ==
  \A s, t \in Lists : \A i \in 1 .. Len(lists[s]), j \in 1 .. Len(lists[t]) :
    /\ lists[s][i].id <= n
    /\ lists[s][i].id = lists[t][j].id => s = t /\ i = j

InList(lists, s, x) == \E i \in 1 .. Len(lists[s]) : lists[s][i].id = x
RunIn(lists, filter, r) ==
  \E i \in 1 .. Len(lists[All("runs")]) :
    lists[All("runs")][i].id = r /\ Matches(lists[All("runs")][i], filter)

\* An item is on the pages to come: what is behind it in its list is less than what the
\* pages that were read leave of the total, which the next page must confirm.
ToCome(lists, place, x) ==
  \E i \in 1 .. Len(lists[place.list]) :
    /\ lists[place.list][i].id = x
    /\ place.page = 1 \/ (Len(lists[place.list]) - i) + (place.page - 1) * PageSize < place.total

SawFailure(observed) == \E o \in observed : o.result # "success"
SawRun(observed, r) == \E o \in observed : o.run /\ o.id = r

\* A query either saw that something is not successful or comes to the item: in a list
\* it is still to read, on a page to come, or among the jobs of a run it saw or comes to.
Covers(q, lists, x) ==
  \/ SawFailure(q.observed)
  \/ \E j \in 1 .. Len(q.next) : InList(lists, q.next[j], x)
  \/ ToCome(lists, q.at, x)
  \/ /\ q.at.list = All("runs")
     /\ \E r \in 1 .. MaxItems :
          InList(lists, JobsOf(r), x) /\ (ToCome(lists, q.at, r) \/ SawRun(q.observed, r))

\* What a query has read accounts for every item that stands.
Sound(q, lists, stands) ==
  /\ stands \subseteq Unsuccessful(lists, q.filter)
  /\ q.pc = "reading" => /\ Cardinality(q.at.seen) <= (q.at.page - 1) * PageSize
                         /\ \A x \in stands : Covers(q, lists, x)
  /\ q.pc = "read" => stands = {} \/ SawFailure(q.observed)

CiInv ==
  /\ CiTypes
  /\ \A k \in Commit : Named(ci[k], items)
  /\ \A p \in Phase : query[p] # Quiet => Sound(query[p], ci[query[p].commit], standing[p])
  /\ \A r \in receipts : /\ r.domain \in Phase /\ query[r.domain] # Quiet
                         /\ r.conclusion = "SUCCESS" => standing[r.domain] = {}
  /\ \A p \in Phase : verdict[p] = "SUCCESS" => query[p] # Quiet /\ standing[p] = {}

-----------------------------------------------------------------------------
\* The lists of a commit have different names.
LEMMA ListNames ==
  /\ All("runs") \in Lists /\ All("checks") \in Lists /\ All("suites") \in Lists
  /\ \A r \in 1 .. MaxItems : JobsOf(r) \in Lists
  /\ All("runs") # All("checks") /\ All("runs") # All("suites")
  /\ \A r, u : /\ JobsOf(r) # All("runs") /\ JobsOf(r) # All("checks") /\ JobsOf(r) # All("suites")
               /\ JobsOf(r) = JobsOf(u) => r = u
  /\ \A s \in Lists : s[1] = "runs" <=> s = All("runs")
<1>1. /\ All("runs") = <<"runs", 0>> /\ All("checks") = <<"checks", 0>> /\ All("suites") = <<"suites", 0>>
      /\ \A r : JobsOf(r) = <<"jobs", r>>
  BY DEF All, JobsOf
<1>2. /\ All("runs") \in Lists /\ All("checks") \in Lists /\ All("suites") \in Lists
      /\ \A r \in 1 .. MaxItems : JobsOf(r) \in Lists
  BY DEF Lists
<1>3. \A s \in Lists : s \in {<<"runs", 0>>, <<"checks", 0>>, <<"suites", 0>>}
                       \/ \E r \in 1 .. MaxItems : s = <<"jobs", r>>
  BY <1>1 DEF Lists
<1>4. \A s \in Lists : s[1] = "runs" <=> s = <<"runs", 0>> BY <1>3
<1> QED BY <1>1, <1>2, <1>4

\* Where an item stands that counts and is not successful.
LEMMA WhereItIs ==
  ASSUME NEW lists \in [Lists -> Seq(Item)], NEW filter, NEW x \in Unsuccessful(lists, filter)
  PROVE  \E s \in Lists : \E i \in 1 .. Len(lists[s]) :
           /\ lists[s][i].id = x /\ lists[s][i].result # "success"
           /\ \/ s = All("runs") /\ Matches(lists[s][i], filter)
              \/ s \in {All("checks"), All("suites")}
              \/ \E r \in 1 .. MaxItems : s = JobsOf(r) /\ RunIn(lists, filter, r)
<1>1. \A s \in Lists : \A y \in ToSet(lists[s]) : \E i \in 1 .. Len(lists[s]) : y = lists[s][i] /\ y \in Item
  <2> SUFFICES ASSUME NEW s \in Lists, NEW y \in ToSet(lists[s])
               PROVE  \E i \in 1 .. Len(lists[s]) : y = lists[s][i] /\ y \in Item
    OBVIOUS
  <2>1. lists[s] \in Seq(Item) OBVIOUS
  <2>2. DOMAIN lists[s] = 1 .. Len(lists[s]) BY <2>1, LenProperties
  <2>3. \A i \in 1 .. Len(lists[s]) : lists[s][i] \in Item BY <2>1, ElementOfSeq
  <2> QED BY <2>2, <2>3 DEF ToSet
<1>2. PICK y \in Relevant(lists, filter) : y.result # "success" /\ y.id = x BY DEF Unsuccessful
<1>3. CASE y \in RunsMatching(lists, filter)
  <2>1. y \in ToSet(lists[All("runs")]) /\ Matches(y, filter) BY <1>3 DEF RunsMatching
  <2> QED BY <1>1, <1>2, <2>1, ListNames
<1>4. CASE y \in ToSet(lists[All("checks")]) \/ y \in ToSet(lists[All("suites")])
  <2>1. PICK s \in {All("checks"), All("suites")} : y \in ToSet(lists[s]) BY <1>4
  <2>2. s \in Lists BY ListNames
  <2>3. PICK i \in 1 .. Len(lists[s]) : y = lists[s][i] BY <1>1, <2>1, <2>2
  <2> QED BY <1>2, <2>2, <2>3
<1>5. CASE \E r \in RunsMatching(lists, filter) : y \in ToSet(lists[JobsOf(r.id)])
  <2>1. PICK r \in RunsMatching(lists, filter) : y \in ToSet(lists[JobsOf(r.id)]) BY <1>5
  <2>2. r \in ToSet(lists[All("runs")]) /\ Matches(r, filter) BY DEF RunsMatching
  <2>3. PICK m \in 1 .. Len(lists[All("runs")]) : r = lists[All("runs")][m] /\ r \in Item
    BY <1>1, <2>2, ListNames
  <2>4. RunIn(lists, filter, r.id) BY <2>2, <2>3 DEF RunIn
  <2>5. r.id \in 1 .. MaxItems /\ JobsOf(r.id) \in Lists BY <2>3, ListNames DEF Item
  <2> QED BY <1>1, <1>2, <2>1, <2>4, <2>5
<1> QED BY <1>2, <1>3, <1>4, <1>5 DEF Relevant

-----------------------------------------------------------------------------
\* What becomes of the lists: an item keeps its list, and nothing comes in behind it.
Ages(old, new, n) ==
  \A s \in Lists : \A j \in 1 .. Len(new[s]) :
    \/ new[s][j].id = n + 1
    \/ \E i \in 1 .. Len(old[s]) : /\ old[s][i].id = new[s][j].id
                                   /\ Len(new[s]) - j <= Len(old[s]) - i

\* An item that was on the pages to come is still on them, whatever came and went.
LEMMA StillCovered ==
  ASSUME NEW old \in [Lists -> Seq(Item)], NEW new \in [Lists -> Seq(Item)], NEW n \in Nat,
         Named(old, n), Ages(old, new, n), NEW q \in Reader,
         NEW x \in Unsuccessful(new, q.filter), Covers(q, old, x)
  PROVE  Covers(q, new, x)
<1>1. \A s \in Lists : Len(old[s]) \in Nat /\ Len(new[s]) \in Nat
      /\ (\A i \in 1 .. Len(old[s]) : old[s][i].id \in Nat)
  <2> SUFFICES ASSUME NEW s \in Lists
               PROVE  Len(old[s]) \in Nat /\ Len(new[s]) \in Nat
                      /\ (\A i \in 1 .. Len(old[s]) : old[s][i].id \in Nat)
    OBVIOUS
  <2>1. old[s] \in Seq(Item) /\ new[s] \in Seq(Item) OBVIOUS
  <2>2. \A i \in 1 .. Len(old[s]) : old[s][i] \in Item BY <2>1, ElementOfSeq
  <2> QED BY <2>1, <2>2, LenProperties DEF Item
<1>2. ASSUME NEW s \in Lists, NEW i \in 1 .. Len(old[s]), NEW t \in Lists, NEW j \in 1 .. Len(new[t]),
             old[s][i].id = new[t][j].id
      PROVE  t = s /\ Len(new[s]) - j <= Len(old[s]) - i
  <2>1. new[t][j].id # n + 1
    <3>1. old[s][i].id <= n /\ old[s][i].id \in Nat BY <1>1 DEF Named
    <3> QED BY <1>2, <3>1
  <2>2. PICK h \in 1 .. Len(old[t]) : /\ old[t][h].id = new[t][j].id
                                      /\ Len(new[t]) - j <= Len(old[t]) - h
    BY <1>2, <2>1 DEF Ages
  <2>3. t = s /\ h = i BY <1>2, <2>2 DEF Named
  <2> QED BY <2>2, <2>3
<1>3. PICK t \in Lists :
        /\ InList(new, t, x)
        /\ \/ t = All("runs")
           \/ t \in {All("checks"), All("suites")}
           \/ \E r \in 1 .. MaxItems : t = JobsOf(r) /\ RunIn(new, q.filter, r)
  <2>1. PICK t \in Lists : \E i \in 1 .. Len(new[t]) :
           /\ new[t][i].id = x /\ new[t][i].result # "success"
           /\ \/ t = All("runs") /\ Matches(new[t][i], q.filter)
              \/ t \in {All("checks"), All("suites")}
              \/ \E r \in 1 .. MaxItems : t = JobsOf(r) /\ RunIn(new, q.filter, r)
    BY WhereItIs
  <2> QED BY <2>1 DEF InList
<1>4. ASSUME NEW s \in Lists, InList(old, s, x) PROVE InList(new, s, x)
  BY <1>2, <1>3, <1>4 DEF InList
<1>5. ASSUME NEW y, ToCome(old, q.at, y), InList(new, q.at.list, y)
      PROVE  ToCome(new, q.at, y)
  <2> DEFINE s == q.at.list
             done == (q.at.page - 1) * PageSize
  <2>1. s \in Lists /\ q.at.page \in Nat \ {0} /\ q.at.total \in Nat BY DEF Reader, PlaceInList
  <2>2. done \in Nat
    <3>1. q.at.page - 1 \in Nat BY <2>1
    <3> QED BY <3>1, CiAssumption
  <2>3. PICK i \in 1 .. Len(old[s]) :
          old[s][i].id = y /\ (q.at.page = 1 \/ (Len(old[s]) - i) + done < q.at.total)
    BY <1>5 DEF ToCome
  <2>4. PICK h \in 1 .. Len(new[s]) : new[s][h].id = y BY <1>5 DEF InList
  <2>5. Len(new[s]) - h <= Len(old[s]) - i BY <1>2, <2>1, <2>3, <2>4
  <2>6. q.at.page = 1 \/ (Len(new[s]) - h) + done < q.at.total
    <3> HIDE DEF done
    <3>1. Len(old[s]) \in Nat /\ Len(new[s]) \in Nat BY <1>1, <2>1
    <3> HIDE DEF s
    <3> QED BY <2>1, <2>2, <2>3, <2>5, <3>1
  <2> QED BY <2>4, <2>6 DEF ToCome
<1>6. q.at.list \in Lists /\ \A m \in 1 .. Len(q.next) : q.next[m] \in Lists
  <2>1. q.next \in Seq(Lists) BY DEF Reader
  <2>2. \A m \in 1 .. Len(q.next) : q.next[m] \in Lists BY <2>1, ElementOfSeq
  <2> QED BY <2>2 DEF Reader, PlaceInList
<1>7. CASE SawFailure(q.observed) BY <1>7 DEF Covers
<1>8. CASE \E m \in 1 .. Len(q.next) : InList(old, q.next[m], x)
  BY <1>4, <1>6, <1>8 DEF Covers
<1>9. CASE ToCome(old, q.at, x)
  <2>1. InList(old, q.at.list, x) BY <1>9 DEF ToCome, InList
  <2> QED BY <1>4, <1>5, <1>6, <1>9, <2>1 DEF Covers
<1>10. CASE /\ q.at.list = All("runs")
            /\ \E r \in 1 .. MaxItems :
                 InList(old, JobsOf(r), x) /\ (ToCome(old, q.at, r) \/ SawRun(q.observed, r))
  <2>1. PICK r \in 1 .. MaxItems :
               InList(old, JobsOf(r), x) /\ (ToCome(old, q.at, r) \/ SawRun(q.observed, r))
    BY <1>10
  <2>2. JobsOf(r) \in Lists BY ListNames
  <2>3. InList(new, JobsOf(r), x) BY <1>4, <2>1, <2>2
  <2>4. t = JobsOf(r) BY <1>2, <1>3, <2>1, <2>2 DEF InList
  <2>5. RunIn(new, q.filter, r) BY <1>3, <2>4, ListNames
  <2>6. InList(new, q.at.list, r) BY <1>10, <2>5 DEF RunIn, InList
  <2> QED BY <1>5, <1>10, <2>1, <2>3, <2>6 DEF Covers
<1> QED BY <1>7, <1>8, <1>9, <1>10 DEF Covers

\* Where a query stands is told by its first field.
LEMMA QueryStages ==
  ASSUME CiTypes, NEW p \in Phase
  PROVE  /\ query[p].pc = "idle" <=> query[p] = Quiet
         /\ query[p] # Quiet => query[p].commit \in Commit /\ query[p].filter \in Workflow \cup {NoFilter}
         /\ query[p].pc \in {"reading", "read"} => query[p] \in Reader
<1>1. query[p] \in {Quiet} \cup Reader \cup Over BY DEF CiTypes
<1>2. CASE query[p] = Quiet BY <1>2 DEF Quiet
<1>3. CASE query[p] \in Reader BY <1>3 DEF Reader, Quiet
<1>4. CASE query[p] \in Over BY <1>4 DEF Over, Quiet
<1> QED BY <1>1, <1>2, <1>3, <1>4

\* GitHub may change a list by a step that keeps the order: every query goes on covering.
LEMMA ChangeKeeps ==
  ASSUME CiInv, NEW k \in Commit, NEW s \in Lists, NEW list \in Seq(Item), Changes(k, s, list),
         items' \in 0 .. MaxItems, NEW lists, lists = [ci[k] EXCEPT ![s] = list],
         Ages(ci[k], lists, items), Named(lists, items'), items <= items'
  PROVE  CiInv'
<1>1. /\ ci' = [ci EXCEPT ![k] = lists]
      /\ standing' = [p \in Phase |-> IF query[p].pc = "idle" \/ query[p].commit # k THEN standing[p]
                                      ELSE standing[p] \cap Unsuccessful(lists, query[p].filter)]
      /\ query' = query /\ receipts' = receipts /\ verdict' = verdict
  BY DEF Changes
<1>2. CiTypes /\ items \in Nat /\ items' \in Nat BY DEF CiInv, CiTypes
<1>3. lists \in [Lists -> Seq(Item)] /\ ci[k] \in [Lists -> Seq(Item)] BY <1>2 DEF CiTypes
<1>4. CiTypes'
  <2>1. ci' \in [Commit -> [Lists -> Seq(Item)]] BY <1>1, <1>2, <1>3 DEF CiTypes
  <2> QED BY <1>1, <1>2, <2>1 DEF CiTypes
<1>5. ASSUME NEW h \in Commit PROVE Named(ci'[h], items')
  <2>1. CASE h = k BY <1>1, <1>2, <2>1 DEF CiTypes
  <2>2. CASE h # k
    <3>1. ci'[h] = ci[h] /\ Named(ci[h], items) BY <1>1, <1>2, <2>2 DEF CiInv, CiTypes
    <3>2. \A t \in Lists : \A i \in 1 .. Len(ci[h][t]) : ci[h][t][i].id \in Nat
      <4> SUFFICES ASSUME NEW t \in Lists, NEW i \in 1 .. Len(ci[h][t]) PROVE ci[h][t][i].id \in Nat
        OBVIOUS
      <4>1. ci[h][t] \in Seq(Item) BY <1>2 DEF CiTypes
      <4>2. ci[h][t][i] \in Item BY <4>1, ElementOfSeq
      <4> QED BY <4>2 DEF Item
    <3> QED BY <1>2, <3>1, <3>2 DEF Named
  <2> QED BY <2>1, <2>2
<1>6. \A p \in Phase : standing'[p] \subseteq standing[p] BY <1>1
<1>7. ASSUME NEW p \in Phase, query[p] # Quiet
      PROVE  Sound(query[p], ci'[query[p].commit], standing'[p])
  <2>1. /\ query[p].pc # "idle" /\ query[p].commit \in Commit
        /\ query[p].pc \in {"reading", "read"} => query[p] \in Reader
    BY <1>2, <1>7, QueryStages
  <2>2. Sound(query[p], ci[query[p].commit], standing[p]) BY <1>7 DEF CiInv
  <2>3. CASE query[p].commit # k
    <3>1. ci'[query[p].commit] = ci[query[p].commit] /\ standing'[p] = standing[p]
      BY <1>1, <1>2, <2>1, <2>3 DEF CiTypes
    <3> QED BY <2>2, <3>1
  <2>4. CASE query[p].commit = k
    <3>1. ci'[k] = lists BY <1>1, <1>2 DEF CiTypes
    <3>2. standing'[p] = standing[p] \cap Unsuccessful(lists, query[p].filter)
      BY <1>1, <2>1, <2>4
    <3>3. ASSUME query[p].pc = "reading", NEW x \in standing'[p] PROVE Covers(query[p], lists, x)
      <4>1. Covers(query[p], ci[k], x) BY <2>2, <2>4, <3>2, <3>3 DEF Sound
      <4>2. Named(ci[k], items) BY DEF CiInv
      <4>3. x \in Unsuccessful(lists, query[p].filter) /\ query[p] \in Reader BY <2>1, <3>2, <3>3
      <4> QED BY <1>2, <1>3, <4>1, <4>2, <4>3, StillCovered
    <3> QED BY <1>6, <2>2, <2>4, <3>1, <3>2, <3>3 DEF Sound
  <2> QED BY <2>3, <2>4
<1>8. \A r \in receipts' : /\ r.domain \in Phase /\ query'[r.domain] # Quiet
                           /\ r.conclusion = "SUCCESS" => standing'[r.domain] = {}
  BY <1>1, <1>6 DEF CiInv
<1>9. \A p \in Phase : verdict'[p] = "SUCCESS" => query'[p] # Quiet /\ standing'[p] = {}
  BY <1>1, <1>6 DEF CiInv
<1> QED BY <1>1, <1>4, <1>5, <1>7, <1>8, <1>9 DEF CiInv

\* What is needed of a new list in the place of an old one: its items are the old ones in
\* the same order, and one at most that is new and comes first.
LEMMA ListChanges ==
  ASSUME CiInv, NEW k \in Commit, NEW s \in Lists, NEW list \in Seq(Item), NEW n \in Nat, items <= n,
         NEW lists, lists = [ci[k] EXCEPT ![s] = list],
         \A j \in 1 .. Len(list) :
           \/ list[j].id = items + 1 /\ items + 1 <= n /\ j = 1
           \/ \E i \in 1 .. Len(ci[k][s]) :
                /\ ci[k][s][i].id = list[j].id /\ Len(list) - j <= Len(ci[k][s]) - i
                /\ i \in {j + Len(ci[k][s]) - Len(list), j}
                /\ \A h \in 1 .. Len(list) : h # j => list[h].id # list[j].id
  PROVE  Ages(ci[k], lists, items) /\ Named(lists, n)
<1>1. ci[k] \in [Lists -> Seq(Item)] /\ items \in Nat /\ Named(ci[k], items) BY DEF CiInv, CiTypes
<1>2. \A t \in Lists : lists[t] = IF t = s THEN list ELSE ci[k][t] BY <1>1
<1>3. \A t \in Lists : Len(lists[t]) \in Nat /\ Len(ci[k][t]) \in Nat
                       /\ \A i \in 1 .. Len(ci[k][t]) : ci[k][t][i].id \in Nat
  <2> SUFFICES ASSUME NEW t \in Lists
               PROVE  Len(lists[t]) \in Nat /\ Len(ci[k][t]) \in Nat
                      /\ \A i \in 1 .. Len(ci[k][t]) : ci[k][t][i].id \in Nat
    OBVIOUS
  <2>1. ci[k][t] \in Seq(Item) /\ lists[t] \in Seq(Item) BY <1>1, <1>2
  <2>2. \A i \in 1 .. Len(ci[k][t]) : ci[k][t][i] \in Item BY <2>1, ElementOfSeq
  <2> QED BY <2>1, <2>2, LenProperties DEF Item
<1>4. Ages(ci[k], lists, items)
  <2> SUFFICES ASSUME NEW t \in Lists, NEW j \in 1 .. Len(lists[t])
               PROVE  \/ lists[t][j].id = items + 1
                      \/ \E i \in 1 .. Len(ci[k][t]) : /\ ci[k][t][i].id = lists[t][j].id
                                                       /\ Len(lists[t]) - j <= Len(ci[k][t]) - i
    BY DEF Ages
  <2>1. CASE t = s BY <1>2, <2>1
  <2>2. CASE t # s
    <3>1. lists[t] = ci[k][t] BY <1>2, <2>2
    <3>2. Len(lists[t]) - j <= Len(ci[k][t]) - j BY <1>3, <3>1
    <3> QED BY <3>1, <3>2
  <2> QED BY <2>1, <2>2
<1>5. ASSUME NEW t \in Lists, NEW j \in 1 .. Len(lists[t])
      PROVE  \/ lists[t][j].id = items + 1 /\ items + 1 <= n /\ j = 1 /\ t = s
             \/ \E i \in 1 .. Len(ci[k][t]) : ci[k][t][i].id = lists[t][j].id
  <2>1. CASE t = s BY <1>2, <2>1
  <2>2. CASE t # s
    <3>1. lists[t] = ci[k][t] BY <1>2, <2>2
    <3> QED BY <3>1
  <2> QED BY <2>1, <2>2
<1>6. ASSUME NEW t \in Lists, NEW u \in Lists, NEW j \in 1 .. Len(lists[t]), NEW h \in 1 .. Len(lists[u])
      PROVE  lists[t][j].id <= n /\ (lists[t][j].id = lists[u][h].id => t = u /\ j = h)
  <2>1. lists[t][j].id <= n
    <3>1. CASE lists[t][j].id = items + 1 /\ items + 1 <= n BY <3>1
    <3>2. CASE \E i \in 1 .. Len(ci[k][t]) : ci[k][t][i].id = lists[t][j].id
      <4>1. PICK i \in 1 .. Len(ci[k][t]) : ci[k][t][i].id = lists[t][j].id BY <3>2
      <4>2. ci[k][t][i].id <= items /\ ci[k][t][i].id \in Nat BY <1>1, <1>3 DEF Named
      <4> QED BY <1>1, <4>1, <4>2
    <3> QED BY <1>5, <3>1, <3>2
  <2>2. ASSUME lists[t][j].id = lists[u][h].id PROVE t = u /\ j = h
    <3>1. CASE lists[t][j].id = items + 1
      <4>1. \A v \in Lists : \A i \in 1 .. Len(ci[k][v]) : ci[k][v][i].id # items + 1
        <5> SUFFICES ASSUME NEW v \in Lists, NEW i \in 1 .. Len(ci[k][v]) PROVE ci[k][v][i].id # items + 1
          OBVIOUS
        <5>1. ci[k][v][i].id <= items /\ ci[k][v][i].id \in Nat BY <1>1, <1>3 DEF Named
        <5> QED BY <1>1, <5>1
      <4>2. t = s /\ j = 1 BY <1>5, <3>1, <4>1
      <4>3. u = s /\ h = 1 BY <1>5, <2>2, <3>1, <4>1
      <4> QED BY <4>2, <4>3
    <3>2. CASE lists[t][j].id # items + 1
      <4>1. PICK i \in 1 .. Len(ci[k][t]) : ci[k][t][i].id = lists[t][j].id BY <1>5, <3>2
      <4>2. PICK m \in 1 .. Len(ci[k][u]) : ci[k][u][m].id = lists[u][h].id BY <1>5, <2>2, <3>2
      <4>3. t = u BY <1>1, <2>2, <4>1, <4>2 DEF Named
      <4>4. CASE t # s
        <5>1. lists[t] = ci[k][t] /\ lists[u] = ci[k][u] BY <1>2, <4>3, <4>4
        <5> QED BY <1>1, <2>2, <4>3, <5>1 DEF Named
      <4>5. CASE t = s BY <1>2, <2>2, <3>2, <4>3, <4>5
      <4> QED BY <4>3, <4>4, <4>5
    <3> QED BY <3>1, <3>2
  <2> QED BY <2>1, <2>2
<1> QED BY <1>4, <1>6 DEF Named

\* A new item comes before the others.
LEMMA AppearsKeeps ==
  ASSUME CiInv, NEW k \in Commit, NEW s \in Lists, Appears(k, s)
  PROVE  CiInv'
<1>1. PICK w \in Workflow \cup {NoFilter} :
        /\ items < MaxItems /\ items' = items + 1
        /\ Changes(k, s, <<[id |-> items + 1, result |-> "active", workflow |-> w]>> \o ci[k][s])
  BY DEF Appears
<1> DEFINE old == ci[k][s]
           first == [id |-> items + 1, result |-> "active", workflow |-> w]
           list == <<first>> \o old
<1>2. items \in Nat /\ items' \in 0 .. MaxItems /\ old \in Seq(Item) /\ first \in Item
  <2>1. items \in 0 .. MaxItems /\ old \in Seq(Item) BY DEF CiInv, CiTypes
  <2>2. items + 1 \in 1 .. MaxItems BY <1>1, <2>1, CiAssumption
  <2>3. first \in Item BY <2>2 DEF Item, Results
  <2> QED BY <1>1, <2>1, <2>2, <2>3
<1>3. /\ list \in Seq(Item) /\ Len(list) = Len(old) + 1 /\ Len(old) \in Nat /\ list[1] = first
      /\ \A j \in 2 .. Len(list) : list[j] = old[j - 1]
  <2>1. <<first>> \in Seq(Item) /\ Len(<<first>>) = 1 /\ <<first>>[1] = first BY <1>2
  <2>2. Len(old) \in Nat BY <1>2, LenProperties
  <2> HIDE DEF first, old
  <2> QED BY <1>2, <2>1, <2>2, ConcatProperties
<1>4. \A i \in 1 .. Len(old) : old[i].id <= items /\ old[i].id \in Nat
                               /\ \A h \in 1 .. Len(old) : old[i].id = old[h].id => i = h
  <2>1. \A i \in 1 .. Len(old) : old[i] \in Item BY <1>2, ElementOfSeq
  <2> QED BY <2>1 DEF CiInv, Named, Item
<1>5. PICK lists : lists = [ci[k] EXCEPT ![s] = list] OBVIOUS
<1>6. ASSUME NEW j \in 1 .. Len(list)
      PROVE  \/ list[j].id = items + 1 /\ items + 1 <= items + 1 /\ j = 1
             \/ \E i \in 1 .. Len(old) :
                  /\ old[i].id = list[j].id /\ Len(list) - j <= Len(old) - i
                  /\ i \in {j + Len(old) - Len(list), j}
                  /\ \A h \in 1 .. Len(list) : h # j => list[h].id # list[j].id
  <2>1. CASE j = 1 BY <1>2, <1>3, <2>1
  <2>2. CASE j # 1
    <3>1. j \in 2 .. Len(list) /\ j - 1 \in 1 .. Len(old) /\ list[j] = old[j - 1]
          /\ Len(list) - j <= Len(old) - (j - 1) /\ j - 1 = j + Len(old) - Len(list)
      BY <1>3, <2>2
    <3>2. ASSUME NEW h \in 1 .. Len(list), h # j PROVE list[h].id # list[j].id
      <4>1. CASE h = 1
        <5>1. list[h].id = items + 1 BY <1>3, <4>1
        <5>2. list[j].id <= items /\ list[j].id \in Nat BY <1>4, <3>1
        <5> QED BY <1>2, <5>1, <5>2
      <4>2. CASE h # 1
        <5>1. h \in 2 .. Len(list) /\ h - 1 \in 1 .. Len(old) /\ h - 1 # j - 1 BY <1>3, <3>2, <4>2
        <5>2. list[h] = old[h - 1] BY <1>3, <5>1
        <5> QED BY <1>4, <3>1, <5>1, <5>2
      <4> QED BY <4>1, <4>2
    <3> QED BY <3>1, <3>2
  <2> QED BY <2>1, <2>2
<1>7. items + 1 \in Nat /\ items <= items + 1 BY <1>2
<1>8. Changes(k, s, list) BY <1>1
<1> HIDE DEF list
<1>9. Ages(ci[k], lists, items) /\ Named(lists, items + 1)
  BY <1>3, <1>5, <1>6, <1>7, ListChanges
<1> QED BY <1>1, <1>2, <1>3, <1>5, <1>7, <1>8, <1>9, ChangeKeeps

\* An item with another result stands where it stood.
LEMMA ProgressesKeeps ==
  ASSUME CiInv, NEW k \in Commit, NEW s \in Lists, Progresses(k, s)
  PROVE  CiInv'
<1>1. PICK m \in DOMAIN ci[k][s], result \in Results :
        items' = items /\ Changes(k, s, [ci[k][s] EXCEPT ![m].result = result])
  BY DEF Progresses, Results
<1> DEFINE old == ci[k][s]
           list == [old EXCEPT ![m].result = result]
<1>2. items \in Nat /\ items' \in 0 .. MaxItems /\ old \in Seq(Item)
  BY <1>1 DEF CiInv, CiTypes
<1>3. /\ DOMAIN old = 1 .. Len(old) /\ Len(old) \in Nat
      /\ \A i \in 1 .. Len(old) : old[i] \in Item
  BY <1>2, LenProperties, ElementOfSeq
<1>4. [old[m] EXCEPT !.result = result] \in Item /\ [old[m] EXCEPT !.result = result].id = old[m].id
  BY <1>1, <1>3 DEF Item
<1>5. list \in Seq(Item) /\ Len(list) = Len(old) /\ \A i \in 1 .. Len(old) : list[i].id = old[i].id
  <2>1. list = [old EXCEPT ![m] = [old[m] EXCEPT !.result = result]] OBVIOUS
  <2>2. PICK item : item = [old[m] EXCEPT !.result = result] OBVIOUS
  <2>3. list = [old EXCEPT ![m] = item] /\ item \in Item /\ item.id = old[m].id BY <1>4, <2>1, <2>2
  <2>4. m \in 1 .. Len(old) BY <1>1, <1>3
  <2> HIDE DEF list, old
  <2>5. /\ [old EXCEPT ![m] = item] \in Seq(Item) /\ Len([old EXCEPT ![m] = item]) = Len(old)
        /\ \A j \in 1 .. Len(old) : [old EXCEPT ![m] = item][j] = IF j = m THEN item ELSE old[j]
    BY <1>2, <2>3, <2>4, ExceptSeq
  <2> QED BY <2>3, <2>5
<1>6. PICK lists : lists = [ci[k] EXCEPT ![s] = list] OBVIOUS
<1>7. \A i, h \in 1 .. Len(old) : old[i].id = old[h].id => i = h BY DEF CiInv, Named
<1>8. ASSUME NEW j \in 1 .. Len(list)
      PROVE  \E i \in 1 .. Len(old) :
                  /\ old[i].id = list[j].id /\ Len(list) - j <= Len(old) - i
                  /\ i \in {j + Len(old) - Len(list), j}
                  /\ \A h \in 1 .. Len(list) : h # j => list[h].id # list[j].id
  <2> HIDE DEF list, old
  <2>1. j \in 1 .. Len(old) /\ old[j].id = list[j].id /\ Len(list) - j <= Len(old) - j BY <1>3, <1>5
  <2>2. \A h \in 1 .. Len(list) : h # j => list[h].id # list[j].id BY <1>5, <1>7, <2>1
  <2> QED BY <2>1, <2>2
<1>9. Changes(k, s, list) /\ items <= items BY <1>1, <1>2
<1> HIDE DEF list
<1>10. Ages(ci[k], lists, items) /\ Named(lists, items)
  BY <1>2, <1>5, <1>6, <1>8, <1>9, ListChanges
<1> QED BY <1>1, <1>2, <1>5, <1>6, <1>9, <1>10, ChangeKeeps

\* An item that vanishes lets those behind it move up.
LEMMA VanishesKeeps ==
  ASSUME CiInv, NEW k \in Commit, NEW s \in Lists, Vanishes(k, s)
  PROVE  CiInv'
<1>1. PICK m \in DOMAIN ci[k][s] : items' = items /\ Changes(k, s, RemoveAt(ci[k][s], m))
  BY DEF Vanishes
<1> DEFINE old == ci[k][s]
           list == RemoveAt(old, m)
<1>2. items \in Nat /\ items' \in 0 .. MaxItems /\ old \in Seq(Item)
  BY <1>1 DEF CiInv, CiTypes
<1>3. /\ DOMAIN old = 1 .. Len(old) /\ Len(old) \in Nat
      /\ \A i \in 1 .. Len(old) : old[i] \in Item
  BY <1>2, LenProperties, ElementOfSeq
<1>4. /\ list \in Seq(Item) /\ Len(list) = Len(old) - 1
      /\ \A j \in 1 .. Len(list) : list[j] = old[IF j < m THEN j ELSE j + 1]
  <2> DEFINE first == SubSeq(old, 1, m - 1)
             tail == SubSeq(old, m + 1, Len(old))
  <2>1. m \in 1 .. Len(old) BY <1>1, <1>3
  <2>2. first \in Seq(Item) /\ Len(first) = m - 1 /\ \A i \in 1 .. m - 1 : first[i] = old[i]
    <3>1. 1 \in Int /\ m - 1 \in Int /\ \A i \in 1 .. m - 1 : old[i] \in Item BY <1>3, <2>1
    <3>2. /\ SubSeq(old, 1, m - 1) \in Seq(Item)
          /\ Len(SubSeq(old, 1, m - 1)) = IF 1 <= m - 1 THEN (m - 1) - 1 + 1 ELSE 0
          /\ \A i \in 1 .. (m - 1) - 1 + 1 : SubSeq(old, 1, m - 1)[i] = old[1 + i - 1]
      BY <3>1, SubSeqProperties
    <3> QED BY <2>1, <3>2
  <2>3. /\ tail \in Seq(Item) /\ Len(tail) = Len(old) - m
        /\ \A i \in 1 .. Len(old) - m : tail[i] = old[m + i]
    <3> HIDE DEF old, list
    <3>1. PICK a, b : a = m + 1 /\ b = Len(old) OBVIOUS
    <3>2. a \in Int /\ b \in Int /\ \A i \in a .. b : old[i] \in Item BY <1>3, <2>1, <3>1
    <3>3. /\ SubSeq(old, a, b) \in Seq(Item)
          /\ Len(SubSeq(old, a, b)) = IF a <= b THEN b - a + 1 ELSE 0
          /\ \A i \in 1 .. b - a + 1 : SubSeq(old, a, b)[i] = old[a + i - 1]
      BY <3>2, SubSeqProperties
    <3>4. b - a + 1 = Len(old) - m /\ (a <= b => b - a + 1 = Len(old) - m)
          /\ (~(a <= b) => Len(old) - m = 0) /\ \A i \in 1 .. Len(old) - m : a + i - 1 = m + i
      BY <1>3, <2>1, <3>1
    <3>5. tail = SubSeq(old, a, b) BY <3>1
    <3> HIDE DEF tail
    <3> QED BY <3>3, <3>4, <3>5
  <2>4. list = first \o tail BY DEF RemoveAt
  <2> HIDE DEF first, tail, list, old
  <2>5. /\ list \in Seq(Item) /\ Len(list) = Len(first) + Len(tail)
        /\ \A i \in 1 .. Len(first) + Len(tail) : list[i] = IF i <= Len(first) THEN first[i] ELSE tail[i - Len(first)]
    BY <2>2, <2>3, <2>4, ConcatProperties
  <2>6. Len(list) = Len(old) - 1 BY <1>3, <2>1, <2>2, <2>3, <2>5
  <2>7. ASSUME NEW j \in 1 .. Len(list) PROVE list[j] = old[IF j < m THEN j ELSE j + 1]
    <3>1. CASE j < m
      <4>1. j \in 1 .. m - 1 BY <2>1, <3>1
      <4> QED BY <2>1, <2>2, <2>3, <2>5, <3>1, <4>1
    <3>2. CASE ~(j < m)
      <4>1. j - (m - 1) \in 1 .. Len(old) - m /\ m + (j - (m - 1)) = j + 1 /\ ~(j <= m - 1)
        BY <1>3, <2>1, <2>6, <3>2
      <4>2. list[j] = tail[j - (m - 1)] BY <2>2, <2>5, <4>1
      <4> QED BY <2>3, <3>2, <4>1, <4>2
    <3> QED BY <3>1, <3>2
  <2> QED BY <2>5, <2>6, <2>7
<1>5. PICK lists : lists = [ci[k] EXCEPT ![s] = list] OBVIOUS
<1>6. \A i, h \in 1 .. Len(old) : old[i].id = old[h].id => i = h BY DEF CiInv, Named
<1>7. ASSUME NEW j \in 1 .. Len(list)
      PROVE  \E i \in 1 .. Len(old) :
                  /\ old[i].id = list[j].id /\ Len(list) - j <= Len(old) - i
                  /\ i \in {j + Len(old) - Len(list), j}
                  /\ \A h \in 1 .. Len(list) : h # j => list[h].id # list[j].id
  <2> DEFINE place(h) == IF h < m THEN h ELSE h + 1
  <2> HIDE DEF list, old
  <2>1. m \in Nat BY <1>1, <1>3 DEF old
  <2>2. \A h \in 1 .. Len(list) : place(h) \in 1 .. Len(old) /\ list[h] = old[place(h)]
    BY <1>3, <1>4, <2>1
  <2>3. Len(list) - j <= Len(old) - place(j) /\ place(j) \in {j + Len(old) - Len(list), j}
    BY <1>3, <1>4, <2>1
  <2>4. ASSUME NEW h \in 1 .. Len(list), h # j PROVE list[h].id # list[j].id
    <3>1. place(h) # place(j) BY <1>3, <1>4, <2>1, <2>4
    <3> HIDE DEF place
    <3> QED BY <1>6, <2>2, <3>1
  <2> QED BY <2>2, <2>3, <2>4
<1>8. Changes(k, s, list) /\ items <= items BY <1>1, <1>2
<1> HIDE DEF list
<1>9. Ages(ci[k], lists, items) /\ Named(lists, items)
  BY <1>2, <1>4, <1>5, <1>7, <1>8, ListChanges
<1> QED BY <1>1, <1>2, <1>4, <1>5, <1>8, <1>9, ChangeKeeps

-----------------------------------------------------------------------------
\* A page has some of the items of its list: those at its places, and no others.
LEMMA PageHolds ==
  ASSUME NEW list \in Seq(Item), NEW n \in Nat \ {0}
  PROVE  /\ IsFiniteSet(PageOf(list, n)) /\ Cardinality(PageOf(list, n)) <= PageSize
         /\ \A y \in PageOf(list, n) : \E i \in 1 .. Len(list) : y = list[i]
         /\ \A i \in 1 .. Len(list) : (n - 1) * PageSize < i /\ i <= (n - 1) * PageSize + PageSize =>
              list[i] \in PageOf(list, n)
<1>1. PICK from, to : from = (n - 1) * PageSize + 1 /\ to = Min({n * PageSize, Len(list)}) OBVIOUS
<1>2. PICK done : done = (n - 1) * PageSize OBVIOUS
<1>3. done \in Nat /\ n * PageSize = done + PageSize /\ PageSize \in Nat /\ PageSize > 0
  <2>1. n - 1 \in Nat /\ PageSize \in Nat BY CiAssumption
  <2>2. (n - 1) * PageSize \in Nat /\ n * PageSize = (n - 1) * PageSize + PageSize BY <2>1
  <2> QED BY <1>2, <2>2, CiAssumption
<1>4. Len(list) \in Nat /\ \A i \in 1 .. Len(list) : list[i] \in Item BY LenProperties, ElementOfSeq
<1>5. to \in {n * PageSize, Len(list)} /\ to <= n * PageSize /\ to <= Len(list)
  <2>1. n * PageSize \in Nat BY <1>3
  <2> DEFINE S == {n * PageSize, Len(list)}
  <2>2. \E x \in S : \A y \in S : x <= y
    <3>1. CASE n * PageSize <= Len(list) BY <1>4, <2>1, <3>1
    <3>2. CASE ~(n * PageSize <= Len(list)) BY <1>4, <2>1, <3>2
    <3> QED BY <3>1, <3>2
  <2>3. to = Min(S) BY <1>1
  <2>4. to \in S /\ \A y \in S : to <= y
    <3> HIDE DEF S
    <3> QED BY <2>2, <2>3 DEF Min
  <2> QED BY <2>4
<1>6. from \in Int /\ to \in Int /\ from = done + 1 BY <1>1, <1>2, <1>3, <1>4, <1>5
<1>7. \A i \in from .. to : i \in 1 .. Len(list) BY <1>3, <1>4, <1>5, <1>6
<1> DEFINE sub == SubSeq(list, from, to)
<1>8. /\ sub \in Seq(Item) /\ Len(sub) = (IF from <= to THEN to - from + 1 ELSE 0)
      /\ \A i \in 1 .. to - from + 1 : sub[i] = list[from + i - 1]
  BY <1>4, <1>6, <1>7, SubSeqProperties
<1>9. PageOf(list, n) = ToSet(sub) BY <1>1 DEF PageOf
<1> HIDE DEF sub
<1>10. DOMAIN sub = 1 .. Len(sub) /\ Len(sub) \in Nat /\ Len(sub) <= PageSize
  <2>1. DOMAIN sub = 1 .. Len(sub) /\ Len(sub) \in Nat BY <1>8, LenProperties
  <2> QED BY <1>3, <1>5, <1>6, <1>8, <2>1
<1>11. IsFiniteSet(PageOf(list, n)) /\ Cardinality(PageOf(list, n)) <= PageSize
  <2>1. IsFiniteSet(1 .. Len(sub)) /\ Cardinality(1 .. Len(sub)) = Len(sub)
    <3>1. 1 \in Int /\ Len(sub) \in Int BY <1>10
    <3>2. IsFiniteSet(1 .. Len(sub))
          /\ Cardinality(1 .. Len(sub)) = IF 1 > Len(sub) THEN 0 ELSE Len(sub) - 1 + 1
      BY <3>1, FS_Interval
    <3> QED BY <1>10, <3>2
  <2> DEFINE f == [i \in 1 .. Len(sub) |-> sub[i]]
  <2>2. f \in Surjection(1 .. Len(sub), ToSet(sub))
    <3>1. f \in [1 .. Len(sub) -> ToSet(sub)] BY <1>10 DEF ToSet
    <3>2. \A y \in ToSet(sub) : \E i \in 1 .. Len(sub) : f[i] = y BY <1>10 DEF ToSet
    <3> QED BY <3>1, <3>2 DEF Surjection
  <2> HIDE DEF f
  <2>3. IsFiniteSet(ToSet(sub)) /\ Cardinality(ToSet(sub)) <= Len(sub) BY <2>1, <2>2, FS_Surjection
  <2>4. Cardinality(ToSet(sub)) \in Nat BY <2>3, FS_CardinalityType
  <2> QED BY <1>3, <1>9, <1>10, <2>3, <2>4
<1>12. ASSUME NEW y \in PageOf(list, n) PROVE \E i \in 1 .. Len(list) : y = list[i]
  <2>1. PICK i \in 1 .. Len(sub) : y = sub[i] BY <1>9, <1>10 DEF ToSet
  <2>2. i \in 1 .. to - from + 1 /\ from + i - 1 \in from .. to BY <1>6, <1>8, <1>10
  <2> QED BY <1>7, <1>8, <2>1, <2>2
<1>13. ASSUME NEW i \in 1 .. Len(list), done < i, i <= done + PageSize
       PROVE  list[i] \in PageOf(list, n)
  <2>1. i \in from .. to BY <1>3, <1>4, <1>5, <1>6, <1>13
  <2>2. i - from + 1 \in 1 .. to - from + 1 /\ from + (i - from + 1) - 1 = i /\ from <= to BY <1>6, <2>1
  <2>3. i - from + 1 \in 1 .. Len(sub) BY <1>8, <2>2
  <2> QED BY <1>8, <1>9, <1>10, <2>2, <2>3 DEF ToSet
<1> QED BY <1>2, <1>11, <1>12, <1>13

\* What the number of items tells: an item to come is on the page that is read, or, if
\* the page is not the last, on a later one.
LEMMA PageBrings ==
  ASSUME NEW lists \in [Lists -> Seq(Item)], NEW place \in PlaceInList, NEW y, ToCome(lists, place, y),
         Cardinality(place.seen) <= (place.page - 1) * PageSize,
         NEW page, page = PageOf(lists[place.list], place.page),
         NEW reply, reply = Pagination(place, lists[place.list], page), reply # "refused"
  PROVE  \/ \E i \in page : i.id = y
         \/ reply = "more" /\ ToCome(lists, NextPage(place, lists[place.list], page), y)
<1>1. PICK list : list = lists[place.list] OBVIOUS
<1>2. place.list \in Lists /\ place.page \in Nat \ {0} /\ place.total \in Nat /\ place.seen \subseteq 1 .. MaxItems
  BY DEF PlaceInList
<1>3. list \in Seq(Item) BY <1>1, <1>2
<1>4. Len(list) \in Nat BY <1>3, LenProperties
<1>5. PICK done : done = (place.page - 1) * PageSize OBVIOUS
<1>6. done \in Nat /\ PageSize \in Nat
  <2>1. place.page - 1 \in Nat /\ PageSize \in Nat BY <1>2, CiAssumption
  <2> QED BY <1>5, <2>1
<1>7. PICK i \in 1 .. Len(list) : /\ list[i].id = y
                                  /\ place.page = 1 \/ (Len(list) - i) + done < place.total
  BY <1>1, <1>5 DEF ToCome
<1>8. place.page = 1 \/ Len(list) = place.total BY <1>1 DEF Pagination
<1>9. done < i
  <2>1. CASE place.page = 1
    <3>1. done = 0 BY <1>2, <1>5, <2>1, CiAssumption
    <3> QED BY <3>1
  <2>2. CASE place.page # 1 BY <1>2, <1>4, <1>6, <1>7, <1>8, <2>2
  <2> QED BY <2>1, <2>2
<1>10. /\ IsFiniteSet(page) /\ Cardinality(page) <= PageSize
       /\ i <= done + PageSize => list[i] \in page
  BY <1>1, <1>2, <1>3, <1>5, <1>9, PageHolds
<1>11. Cardinality(page) \in Nat BY <1>10, FS_CardinalityType
<1>12. IsFiniteSet(place.seen) /\ Cardinality(place.seen) \in Nat
  <2>1. IsFiniteSet(1 .. MaxItems) BY CiAssumption, FS_Interval
  <2> QED BY <1>2, <2>1, FS_Subset, FS_CardinalityType
<1>13. CASE i <= done + PageSize BY <1>7, <1>10, <1>13
<1>14. CASE ~(i <= done + PageSize)
  <2>1. reply # "done"
    <3>1. SUFFICES ASSUME reply = "done" PROVE FALSE OBVIOUS
    <3>2. Cardinality(place.seen) + Cardinality(page) = (IF place.page = 1 THEN Len(list) ELSE place.total)
      BY <1>1, <3>1 DEF Pagination
    <3>3. Cardinality(place.seen) + Cardinality(page) = Len(list) BY <1>8, <3>2
    <3>4. Cardinality(place.seen) <= done BY <1>5
    <3> QED BY <1>4, <1>6, <1>10, <1>11, <1>12, <1>14, <3>3, <3>4
  <2>2. reply = "more" BY <2>1 DEF Pagination
  <2> DEFINE after == NextPage(place, list, page)
  <2>3. after.list = place.list /\ after.page = place.page + 1 /\ after.total = Len(list)
    BY DEF NextPage, PlaceInList
  <2> HIDE DEF after
  <2>4. (after.page - 1) * PageSize = done + PageSize
    <3>1. after.page - 1 = place.page /\ place.page - 1 \in Nat /\ PageSize \in Nat
      BY <1>2, <2>3, CiAssumption
    <3>2. place.page * PageSize = (place.page - 1) * PageSize + PageSize BY <1>2, <3>1
    <3> QED BY <1>5, <3>1, <3>2
  <2>5. (Len(list) - i) + (done + PageSize) < Len(list) BY <1>4, <1>6, <1>14
  <2>6. ToCome(lists, after, y) BY <1>1, <1>7, <2>3, <2>4, <2>5 DEF ToCome
  <2> QED BY <1>1, <2>2, <2>6 DEF after
<1> QED BY <1>13, <1>14

\* The pages that were read hold no more ids than they have places.
LEMMA SeenGrows ==
  ASSUME NEW list \in Seq(Item), NEW place \in PlaceInList,
         Cardinality(place.seen) <= (place.page - 1) * PageSize,
         NEW page, page = PageOf(list, place.page)
  PROVE  /\ NextPage(place, list, page) \in PlaceInList
         /\ Cardinality(NextPage(place, list, page).seen) <= (NextPage(place, list, page).page - 1) * PageSize
<1> DEFINE ids == {i.id : i \in page}
           after == NextPage(place, list, page)
<1>1. place.list \in Lists /\ place.page \in Nat \ {0} /\ place.total \in Nat /\ place.seen \subseteq 1 .. MaxItems
  BY DEF PlaceInList
<1>2. /\ IsFiniteSet(page) /\ Cardinality(page) <= PageSize
      /\ \A y \in page : \E i \in 1 .. Len(list) : y = list[i]
  BY <1>1, PageHolds
<1>3. \A y \in page : y.id \in 1 .. MaxItems
  <2>1. \A i \in 1 .. Len(list) : list[i] \in Item BY ElementOfSeq
  <2> QED BY <1>2, <2>1 DEF Item
<1>4. IsFiniteSet(place.seen) /\ Cardinality(place.seen) \in Nat
  <2>1. IsFiniteSet(1 .. MaxItems) BY CiAssumption, FS_Interval
  <2> QED BY <1>1, <2>1, FS_Subset, FS_CardinalityType
<1>5. IsFiniteSet(ids) /\ Cardinality(ids) <= Cardinality(page) /\ Cardinality(ids) \in Nat
  <2> DEFINE f == [i \in page |-> i.id]
  <2>1. f \in Surjection(page, ids)
    <3>1. f \in [page -> ids] OBVIOUS
    <3>2. \A y \in ids : \E i \in page : f[i] = y OBVIOUS
    <3> QED BY <3>1, <3>2 DEF Surjection
  <2> HIDE DEF f, ids
  <2>2. IsFiniteSet(ids) /\ Cardinality(ids) <= Cardinality(page) BY <1>2, <2>1, FS_Surjection
  <2> QED BY <2>2, FS_CardinalityType
<1>6. Cardinality(place.seen \cup ids) <= Cardinality(place.seen) + Cardinality(ids)
  <2> HIDE DEF ids
  <2>1. Cardinality(place.seen \cup ids) =
          Cardinality(place.seen) + Cardinality(ids) - Cardinality(place.seen \cap ids)
    BY <1>4, <1>5, FS_Union
  <2>2. IsFiniteSet(place.seen \cap ids) BY <1>4, FS_Intersection
  <2>3. Cardinality(place.seen \cap ids) \in Nat BY <2>2, FS_CardinalityType
  <2> QED BY <1>4, <1>5, <2>1, <2>3
<1>7. after = [list |-> place.list, page |-> place.page + 1, total |-> Len(list), seen |-> place.seen \cup ids]
  <2>1. after = [place EXCEPT !.page = @ + 1, !.total = Len(list), !.seen = @ \cup ids] BY DEF NextPage
  <2>2. place = [list |-> place.list, page |-> place.page, total |-> place.total, seen |-> place.seen] BY DEF PlaceInList
  <2> HIDE DEF ids, after
  <2> QED BY <2>1, <2>2
<1>8. after \in PlaceInList
  <2>1. place.seen \cup ids \in SUBSET (1 .. MaxItems) BY <1>1, <1>3
  <2>2. place.page + 1 \in Nat \ {0} /\ Len(list) \in Nat BY <1>1, LenProperties
  <2> HIDE DEF ids, after
  <2> QED BY <1>1, <1>7, <2>1, <2>2 DEF PlaceInList
<1>9. Cardinality(after.seen) <= (after.page - 1) * PageSize
  <2> HIDE DEF ids, after
  <2>1. after.page - 1 = place.page /\ after.seen = place.seen \cup ids BY <1>1, <1>7
  <2>2. PICK done : done = (place.page - 1) * PageSize OBVIOUS
  <2>3. place.page - 1 \in Nat /\ PageSize \in Nat BY <1>1, CiAssumption
  <2>4. done \in Nat /\ place.page * PageSize = done + PageSize BY <1>1, <2>2, <2>3
  <2>5. Cardinality(page) \in Nat BY <1>2, FS_CardinalityType
  <2>6. IsFiniteSet(place.seen \cup ids) BY <1>4, <1>5, FS_Union
  <2>7. Cardinality(place.seen \cup ids) \in Nat BY <2>6, FS_CardinalityType
  <2>8. Cardinality(place.seen \cup ids) <= done + PageSize
    BY <1>2, <1>4, <1>5, <1>6, <2>2, <2>3, <2>4, <2>5, <2>7
  <2> QED BY <2>1, <2>4, <2>8
<1> QED BY <1>8, <1>9

\* A finite set in a sequence: each of its elements has a place, and nothing else has.
LEMMA SetInSequence ==
  ASSUME NEW S, IsFiniteSet(S)
  PROVE  SetToSeq(S) \in Seq(S) /\ \A y \in S : \E i \in 1 .. Len(SetToSeq(S)) : SetToSeq(S)[i] = y
<1> DEFINE n == Cardinality(S)
<1>1. n \in Nat /\ ExistsBijection(1 .. n, S) BY FS_CardinalityType
<1>2. PICK f : f \in Bijection(1 .. n, S) BY <1>1 DEF ExistsBijection
<1>3. f \in [1 .. n -> S] /\ IsInjective(f)
  BY <1>2 DEF Bijection, Injection, IsInjective
<1>4. SetToSeq(S) \in [1 .. n -> S] /\ IsInjective(SetToSeq(S)) BY <1>3 DEF SetToSeq
<1>5. PICK g : g = SetToSeq(S) OBVIOUS
<1> HIDE DEF n
<1>6. g \in Injection(1 .. n, S) BY <1>4, <1>5 DEF Injection, IsInjective
<1>7. Cardinality(1 .. n) = Cardinality(S) /\ IsFiniteSet(1 .. n)
  <2>1. IsFiniteSet(1 .. n) /\ Cardinality(1 .. n) = IF 1 > n THEN 0 ELSE n - 1 + 1
    BY <1>1, FS_Interval
  <2> QED BY <1>1, <2>1 DEF n
<1>8. g \in Surjection(1 .. n, S) BY <1>6, <1>7, FS_Injection
<1>9. g \in Seq(S) /\ Len(g) = n
  <2>1. g \in [1 .. n -> S] BY <1>4, <1>5
  <2> QED BY <1>1, <2>1, SeqDef, LenProperties
<1> QED BY <1>5, <1>8, <1>9 DEF Surjection

\* A query that goes on, or ends, with what it read accounting for what stands.
LEMMA QueryMoves ==
  ASSUME CiInv, NEW p \in Phase, query[p] # Quiet, NEW next \in Reader \cup Over,
         next.commit = query[p].commit, next.filter = query[p].filter,
         query' = [query EXCEPT ![p] = next], UNCHANGED <<ci, items, standing, verdict>>,
         \A r \in receipts' : r \in receipts \/ (/\ r.domain = p
                                                 /\ r.conclusion = "SUCCESS" => standing[p] = {}),
         next.pc = "reading" => /\ Cardinality(next.at.seen) <= (next.at.page - 1) * PageSize
                                /\ \A x \in standing[p] : Covers(next, ci[next.commit], x),
         next.pc = "read" => standing[p] = {} \/ SawFailure(next.observed)
  PROVE  CiInv'
<1>1. next # Quiet BY DEF Reader, Over, Quiet
<1>2. CiTypes' BY DEF CiInv, CiTypes
<1>3. \A h \in Phase : query'[h] = IF h = p THEN next ELSE query[h] BY DEF CiInv, CiTypes
<1>4. ASSUME NEW h \in Phase, query'[h] # Quiet
      PROVE  Sound(query'[h], ci'[query'[h].commit], standing'[h])
  <2>1. CASE h = p
    <3>1. Sound(query[p], ci[query[p].commit], standing[p]) BY DEF CiInv
    <3>2. Sound(next, ci[next.commit], standing[p]) BY <3>1 DEF Sound
    <3> QED BY <1>3, <2>1, <3>2
  <2>2. CASE h # p
    <3>1. query'[h] = query[h] BY <1>3, <2>2
    <3>2. Sound(query[h], ci[query[h].commit], standing[h]) BY <1>4, <3>1 DEF CiInv
    <3> QED BY <3>1, <3>2
  <2> QED BY <2>1, <2>2
<1>5. \A r \in receipts' : /\ r.domain \in Phase /\ query'[r.domain] # Quiet
                           /\ r.conclusion = "SUCCESS" => standing'[r.domain] = {}
  BY <1>1, <1>3 DEF CiInv
<1>6. \A h \in Phase : verdict'[h] = "SUCCESS" => query'[h] # Quiet /\ standing'[h] = {}
  BY <1>1, <1>3 DEF CiInv
<1>7. \A k \in Commit : Named(ci'[k], items') BY DEF CiInv
<1> QED BY <1>2, <1>4, <1>5, <1>6, <1>7 DEF CiInv

\* A query that is refused, or fails, says nothing.
LEMMA RefuseKeeps ==
  ASSUME CiInv, NEW p \in Phase, query[p] # Quiet, Refuse(p),
         UNCHANGED <<ci, items, standing, receipts, verdict>>
  PROVE  CiInv'
<1> DEFINE next == [pc |-> "failed", commit |-> query[p].commit, filter |-> query[p].filter]
<1>1. query' = [query EXCEPT ![p] = next] BY DEF Refuse
<1>2. query[p].commit \in Commit /\ query[p].filter \in Workflow \cup {NoFilter}
  BY QueryStages DEF CiInv
<1>3. next \in Over BY <1>2 DEF Over
<1>4. next.pc = "failed" /\ next.commit = query[p].commit /\ next.filter = query[p].filter OBVIOUS
<1> HIDE DEF next
<1> QED BY <1>1, <1>3, <1>4, QueryMoves

\* A query begins with everything it has to account for still to read.
LEMMA StartKeeps ==
  ASSUME CiInv, NEW p \in Phase, NEW k \in Commit, NEW filter \in Workflow \cup {NoFilter},
         StartQuery(p, k, filter)
  PROVE  CiInv'
<1> DEFINE next == [pc |-> "reading", commit |-> k, filter |-> filter, at |-> Reading(All("runs")),
                    next |-> <<All("checks"), All("suites")>>, observed |-> {}]
<1>1. /\ query[p] = Quiet /\ query' = [query EXCEPT ![p] = next]
      /\ standing' = [standing EXCEPT ![p] = Unsuccessful(ci[k], filter)]
      /\ ci' = ci /\ items' = items /\ receipts' = receipts /\ verdict' = verdict
  <2>1. query[p].pc = "idle" BY DEF StartQuery
  <2> QED BY <2>1, QueryStages DEF StartQuery, CiInv
<1>2. /\ Reading(All("runs")) \in PlaceInList /\ Reading(All("runs")).list = All("runs")
      /\ Reading(All("runs")).page = 1 /\ Reading(All("runs")).seen = {}
  BY ListNames DEF Reading, PlaceInList
<1>3. next \in Reader
  <2>1. <<All("checks"), All("suites")>> \in Seq(Lists) BY ListNames
  <2> QED BY <1>2, <2>1 DEF Reader
<1>4. /\ next.pc = "reading" /\ next.commit = k /\ next.filter = filter
      /\ next.at = Reading(All("runs")) /\ Len(next.next) = 2
      /\ next.next[1] = All("checks") /\ next.next[2] = All("suites")
  OBVIOUS
<1> HIDE DEF next
<1>5. next # Quiet BY <1>4 DEF Quiet
<1>6. CiTypes' BY <1>1, <1>3 DEF CiInv, CiTypes
<1>7. \A h \in Phase : /\ query'[h] = IF h = p THEN next ELSE query[h]
                       /\ standing'[h] = IF h = p THEN Unsuccessful(ci[k], filter) ELSE standing[h]
  BY <1>1 DEF CiInv, CiTypes
<1>8. ci[k] \in [Lists -> Seq(Item)] BY DEF CiInv, CiTypes
<1>9. ASSUME NEW x \in Unsuccessful(ci[k], filter) PROVE Covers(next, ci[k], x)
  <2>1. PICK s \in Lists : /\ InList(ci[k], s, x)
                           /\ \/ s = All("runs") \/ s \in {All("checks"), All("suites")}
                              \/ \E r \in 1 .. MaxItems : s = JobsOf(r) /\ RunIn(ci[k], filter, r)
    BY <1>8, WhereItIs DEF InList
  <2>2. \A y : InList(ci[k], All("runs"), y) => ToCome(ci[k], next.at, y)
    BY <1>2, <1>4 DEF ToCome, InList
  <2>3. CASE s = All("runs") BY <2>1, <2>2, <2>3 DEF Covers
  <2>4. CASE s \in {All("checks"), All("suites")}
    <3>1. \E j \in {1, 2} : s = next.next[j] BY <1>4, <2>4
    <3> QED BY <1>4, <2>1, <3>1 DEF Covers
  <2>5. CASE \E r \in 1 .. MaxItems : s = JobsOf(r) /\ RunIn(ci[k], filter, r)
    <3>1. PICK r \in 1 .. MaxItems : s = JobsOf(r) /\ RunIn(ci[k], filter, r) BY <2>5
    <3>2. ToCome(ci[k], next.at, r) BY <2>2, <3>1 DEF RunIn, InList
    <3> QED BY <1>2, <1>4, <2>1, <3>1, <3>2 DEF Covers
  <2> QED BY <2>1, <2>3, <2>4, <2>5
<1>10. ASSUME NEW h \in Phase, query'[h] # Quiet
       PROVE  Sound(query'[h], ci'[query'[h].commit], standing'[h])
  <2>1. CASE h = p
    <3>1. Cardinality(next.at.seen) <= (next.at.page - 1) * PageSize
      <4>1. Cardinality({}) = 0 BY FS_EmptySet
      <4>2. (1 - 1) * PageSize = 0 BY CiAssumption
      <4> QED BY <1>2, <1>4, <4>1, <4>2
    <3>2. Sound(next, ci[k], Unsuccessful(ci[k], filter)) BY <1>4, <1>9, <3>1 DEF Sound
    <3> QED BY <1>1, <1>4, <1>7, <2>1, <3>2
  <2>2. CASE h # p BY <1>1, <1>7, <1>10, <2>2 DEF CiInv
  <2> QED BY <2>1, <2>2
<1>11. \A r \in receipts' : /\ r.domain \in Phase /\ query'[r.domain] # Quiet
                            /\ r.conclusion = "SUCCESS" => standing'[r.domain] = {}
  BY <1>1, <1>5, <1>7 DEF CiInv
<1>12. \A h \in Phase : verdict'[h] = "SUCCESS" => query'[h] # Quiet /\ standing'[h] = {}
  BY <1>1, <1>5, <1>7 DEF CiInv
<1>13. \A h \in Commit : Named(ci'[h], items') BY <1>1 DEF CiInv
<1> QED BY <1>6, <1>10, <1>11, <1>12, <1>13 DEF CiInv

\* An item of the page that stands is seen without success, and a run with jobs that stand
\* is seen.
Tells(q, lists, page, observed) ==
  /\ observed \in SUBSET Observed /\ q.observed \subseteq observed
  /\ \A x \in Unsuccessful(lists, q.filter) :
       /\ (\E i \in page : i.id = x) => SawFailure(observed)
       /\ q.at.list = All("runs") =>
            \A r \in 1 .. MaxItems :
              InList(lists, JobsOf(r), x) /\ (\E i \in page : i.id = r) => SawRun(observed, r)

\* Every page tells what it must.
LEMMA PageShows ==
  ASSUME NEW q \in Reader, NEW lists \in [Lists -> Seq(Item)], Named(lists, items),
         NEW page, page = PageOf(lists[q.at.list], q.at.page),
         NEW observed, observed = q.observed \cup Shown(q, page)
  PROVE  Tells(q, lists, page, observed)
<1>1. q.at.list \in Lists /\ q.at.page \in Nat \ {0} /\ q.observed \in SUBSET Observed
  BY DEF Reader, PlaceInList
<1>2. PICK list : list = lists[q.at.list] OBVIOUS
<1>3. list \in Seq(Item) BY <1>1, <1>2
<1>4. \A y \in page : \E i \in 1 .. Len(list) : y = list[i] BY <1>1, <1>2, <1>3, PageHolds
<1> DEFINE isRun == q.at.list[1] = "runs"
           kept == {y \in page : isRun => Matches(y, q.filter)}
           seen(i) == [id |-> i.id, run |-> isRun, result |-> i.result]
<1>5. \A i \in 1 .. Len(list) : list[i] \in Item BY <1>3, ElementOfSeq
<1>6. page \subseteq Item /\ kept \subseteq page BY <1>4, <1>5
<1>7. q.at.list[1] = "runs" <=> q.at.list = All("runs") BY <1>1, ListNames
<1>8. Shown(q, page) = {seen(i) : i \in kept} BY DEF Shown
<1> HIDE DEF kept
<1>9. /\ observed \in SUBSET Observed
      /\ \A y \in kept : y.result # "success" => SawFailure(observed)
      /\ q.at.list = All("runs") => \A y \in kept : SawRun(observed, y.id)
  <2>1. \A i \in kept : seen(i) \in Observed BY <1>6 DEF kept, Item, Observed
  <2>2. \A i \in kept : seen(i).id = i.id /\ seen(i).result = i.result /\ seen(i).run = isRun OBVIOUS
  <2> HIDE DEF seen
  <2>3. \A o \in Shown(q, page) : \E i \in kept : o = seen(i) BY <1>8
  <2>4. \A i \in kept : seen(i) \in observed BY <1>8
  <2>5. observed \in SUBSET Observed BY <1>1, <2>1, <2>3
  <2>6. ASSUME NEW i \in kept, i.result # "success" PROVE SawFailure(observed)
    BY <2>2, <2>4, <2>6 DEF SawFailure
  <2>7. ASSUME NEW i \in kept, q.at.list = All("runs") PROVE SawRun(observed, i.id)
    BY <1>7, <2>2, <2>4, <2>7 DEF SawRun
  <2> QED BY <2>5, <2>6, <2>7
<1>10. ASSUME NEW x \in Unsuccessful(lists, q.filter), NEW i \in page, i.id = x
       PROVE  SawFailure(observed)
  <2>1. PICK s \in Lists : \E j \in 1 .. Len(lists[s]) :
           /\ lists[s][j].id = x /\ lists[s][j].result # "success"
           /\ \/ s = All("runs") /\ Matches(lists[s][j], q.filter)
              \/ s \in {All("checks"), All("suites")}
              \/ \E r \in 1 .. MaxItems : s = JobsOf(r) /\ RunIn(lists, q.filter, r)
    BY WhereItIs
  <2>2. PICK j \in 1 .. Len(lists[s]) :
           /\ lists[s][j].id = x /\ lists[s][j].result # "success"
           /\ \/ s = All("runs") /\ Matches(lists[s][j], q.filter)
              \/ s \in {All("checks"), All("suites")}
              \/ \E r \in 1 .. MaxItems : s = JobsOf(r) /\ RunIn(lists, q.filter, r)
    BY <2>1
  <2>3. PICK m \in 1 .. Len(list) : i = list[m] BY <1>4
  <2>4. s = q.at.list /\ j = m BY <1>1, <1>2, <1>10, <2>2, <2>3 DEF Named
  <2>5. i.result # "success" /\ (s = All("runs") => Matches(i, q.filter))
    BY <1>2, <2>2, <2>3, <2>4, ListNames
  <2>6. i \in kept BY <1>7, <2>4, <2>5 DEF kept
  <2>7. i.result # "success" => SawFailure(observed) BY <1>9, <2>6
  <2> QED BY <2>5, <2>7
<1>11. ASSUME NEW x \in Unsuccessful(lists, q.filter), q.at.list = All("runs"), NEW r \in 1 .. MaxItems,
              InList(lists, JobsOf(r), x), NEW i \in page, i.id = r
       PROVE  SawRun(observed, r)
  <2>1. PICK s \in Lists : /\ InList(lists, s, x)
                           /\ \/ s = All("runs") \/ s \in {All("checks"), All("suites")}
                              \/ \E u \in 1 .. MaxItems : s = JobsOf(u) /\ RunIn(lists, q.filter, u)
    BY WhereItIs DEF InList
  <2>2. JobsOf(r) \in Lists BY ListNames
  <2>3. s = JobsOf(r) BY <1>11, <2>1, <2>2 DEF InList, Named
  <2>4. RunIn(lists, q.filter, r) BY <2>1, <2>3, ListNames
  <2>5. PICK h \in 1 .. Len(list) : list[h].id = r /\ Matches(list[h], q.filter)
    BY <1>2, <1>11, <2>4 DEF RunIn
  <2>6. PICK m \in 1 .. Len(list) : i = list[m] BY <1>4
  <2>7. h = m BY <1>1, <1>2, <1>11, <2>5, <2>6 DEF Named
  <2>8. i \in kept BY <1>7, <1>11, <2>5, <2>6, <2>7 DEF kept
  <2>9. SawRun(observed, i.id) BY <1>9, <1>11, <2>8
  <2> QED BY <1>11, <2>9
<1> QED BY <1>9, <1>10, <1>11 DEF Tells

\* What stands was seen, is in a list still to read, or among the jobs of one of the runs.
Followed(q, lists, observed, runs, stands) ==
  \A x \in stands : \/ SawFailure(observed)
                    \/ \E j \in 1 .. Len(q.next) : InList(lists, q.next[j], x)
                    \/ \E r \in runs : InList(lists, JobsOf(r), x)

\* Where the query goes from there accounts for what stands.
Accounts(q, next, lists, stands) ==
  /\ next \in Reader /\ next.commit = q.commit /\ next.filter = q.filter
  /\ next.pc = "reading" => /\ Cardinality(next.at.seen) <= (next.at.page - 1) * PageSize
                            /\ \A x \in stands : Covers(next, lists, x)
  /\ next.pc = "read" => stands = {} \/ SawFailure(next.observed)

\* The lists that follow: those of the jobs of the runs that were seen, then the others.
LEMMA ListsFollow ==
  ASSUME NEW q \in Reader, q.pc = "reading", NEW observed \in SUBSET Observed, NEW runs \in SUBSET (1 .. MaxItems),
         NEW lists, NEW stands,
         Followed(q, lists, observed, runs, stands),
         NEW next, next = NextList(q, observed, runs)
  PROVE  Accounts(q, next, lists, stands)
<1> DEFINE names == {JobsOf(r) : r \in runs}
<1>1. IsFiniteSet(names) /\ names \subseteq Lists
  <2>1. IsFiniteSet(runs)
    <3>1. IsFiniteSet(1 .. MaxItems) BY CiAssumption, FS_Interval
    <3> QED BY <3>1, FS_Subset
  <2> DEFINE f == [r \in runs |-> JobsOf(r)]
  <2>2. f \in Surjection(runs, names)
    <3>1. f \in [runs -> names] OBVIOUS
    <3>2. \A y \in names : \E r \in runs : f[r] = y OBVIOUS
    <3> QED BY <3>1, <3>2 DEF Surjection
  <2>3. names \subseteq Lists BY ListNames
  <2> HIDE DEF f, names
  <2> QED BY <2>1, <2>2, <2>3, FS_Surjection
<1>2. PICK theirs : theirs = SetToSeq(names) OBVIOUS
<1>3. theirs \in Seq(names) /\ \A y \in names : \E i \in 1 .. Len(theirs) : theirs[i] = y
  BY <1>1, <1>2, SetInSequence
<1>4. theirs \in Seq(Lists) /\ q.next \in Seq(Lists) /\ Len(theirs) \in Nat /\ Len(q.next) \in Nat
  <2>1. Len(theirs) \in Nat /\ theirs \in [1 .. Len(theirs) -> names] BY <1>3, LenProperties
  <2>2. theirs \in [1 .. Len(theirs) -> Lists] BY <1>1, <2>1
  <2>3. theirs \in Seq(Lists) BY <2>1, <2>2, SeqDef
  <2>4. q.next \in Seq(Lists) BY DEF Reader
  <2> QED BY <2>1, <2>3, <2>4, LenProperties
<1>5. PICK rest : rest = theirs \o q.next OBVIOUS
<1>6. /\ rest \in Seq(Lists) /\ Len(rest) = Len(theirs) + Len(q.next)
      /\ \A i \in 1 .. Len(theirs) + Len(q.next) :
           rest[i] = IF i <= Len(theirs) THEN theirs[i] ELSE q.next[i - Len(theirs)]
  <2> PICK more : more = q.next OBVIOUS
  <2>1. more \in Seq(Lists) /\ rest = theirs \o more BY <1>4, <1>5
  <2>2. /\ theirs \o more \in Seq(Lists) /\ Len(theirs \o more) = Len(theirs) + Len(more)
        /\ \A i \in 1 .. Len(theirs) + Len(more) :
             (theirs \o more)[i] = IF i <= Len(theirs) THEN theirs[i] ELSE more[i - Len(theirs)]
    BY <1>4, <2>1, ConcatProperties
  <2> QED BY <2>1, <2>2
<1>7. ASSUME NEW x \in stands PROVE SawFailure(observed) \/ \E m \in 1 .. Len(rest) : InList(lists, rest[m], x)
  <2>1. CASE \E j \in 1 .. Len(q.next) : InList(lists, q.next[j], x)
    <3>1. PICK j \in 1 .. Len(q.next) : InList(lists, q.next[j], x) BY <2>1
    <3>2. /\ j + Len(theirs) \in 1 .. Len(theirs) + Len(q.next) /\ ~(j + Len(theirs) <= Len(theirs))
          /\ (j + Len(theirs)) - Len(theirs) = j
      BY <1>4
    <3>3. rest[j + Len(theirs)] = q.next[j] BY <1>6, <3>2
    <3> QED BY <1>6, <3>1, <3>2, <3>3
  <2>2. CASE \E r \in runs : InList(lists, JobsOf(r), x)
    <3>1. PICK r \in runs : InList(lists, JobsOf(r), x) BY <2>2
    <3>2. PICK i \in 1 .. Len(theirs) : theirs[i] = JobsOf(r) BY <1>3
    <3>3. i \in 1 .. Len(theirs) + Len(q.next) /\ i <= Len(theirs) BY <1>4
    <3>4. rest[i] = JobsOf(r) BY <1>6, <3>2, <3>3
    <3> QED BY <1>6, <3>1, <3>3, <3>4
  <2> QED BY <2>1, <2>2 DEF Followed
<1>8. next = IF rest = <<>> THEN [q EXCEPT !.pc = "read", !.observed = observed]
             ELSE [q EXCEPT !.at = Reading(Head(rest)), !.next = Tail(rest), !.observed = observed]
  BY <1>2, <1>5 DEF NextList
<1>9. CASE rest = <<>>
  <2>1. /\ next \in Reader /\ next.pc = "read" /\ next.commit = q.commit /\ next.filter = q.filter
        /\ next.observed = observed
    BY <1>8, <1>9 DEF Reader
  <2>2. 1 .. Len(rest) = {} BY <1>9
  <2>3. stands = {} \/ SawFailure(observed) BY <1>7, <2>2
  <2> QED BY <2>1, <2>3 DEF Accounts
<1>10. CASE rest # <<>>
  <2>1. /\ Head(rest) \in Lists /\ Tail(rest) \in Seq(Lists) /\ Len(Tail(rest)) = Len(rest) - 1
        /\ \A i \in 1 .. Len(Tail(rest)) : Tail(rest)[i] = rest[i + 1]
        /\ Head(rest) = rest[1] /\ Len(rest) \in Nat
    BY <1>6, <1>10, HeadTailProperties, LenProperties
  <2>2. PICK place : place = Reading(Head(rest)) OBVIOUS
  <2>3. place \in PlaceInList /\ place.list = rest[1] /\ place.page = 1 /\ place.seen = {}
    BY <2>1, <2>2 DEF Reading, PlaceInList
  <2>4. PICK tail : tail = Tail(rest) OBVIOUS
  <2>5. next = [q EXCEPT !.at = place, !.next = tail, !.observed = observed] BY <1>8, <1>10, <2>2, <2>4
  <2>6. tail \in Seq(Lists) BY <2>1, <2>4
  <2>7. /\ next \in Reader /\ next.pc = q.pc /\ next.commit = q.commit /\ next.filter = q.filter
        /\ next.at = place /\ next.next = tail /\ next.observed = observed
    BY <2>3, <2>5, <2>6 DEF Reader
  <2>8. Cardinality(next.at.seen) <= (next.at.page - 1) * PageSize
    <3>1. Cardinality({}) = 0 BY FS_EmptySet
    <3>2. (1 - 1) * PageSize = 0 BY CiAssumption
    <3>3. next.at.seen = {} /\ next.at.page = 1 BY <2>3, <2>7
    <3>4. Cardinality(next.at.seen) = 0 BY <3>1, <3>3
    <3>5. (next.at.page - 1) * PageSize = 0 BY <3>2, <3>3
    <3> QED BY <3>4, <3>5
  <2>9. ASSUME NEW x \in stands PROVE Covers(next, lists, x)
    <3>1. CASE SawFailure(observed) BY <2>7, <3>1 DEF Covers
    <3>2. CASE \E m \in 1 .. Len(rest) : InList(lists, rest[m], x)
      <4>1. PICK m \in 1 .. Len(rest) : InList(lists, rest[m], x) BY <3>2
      <4>2. CASE m = 1
        <5>1. ToCome(lists, place, x) BY <2>3, <4>1, <4>2 DEF ToCome, InList
        <5> QED BY <2>7, <5>1 DEF Covers
      <4>3. CASE m # 1
        <5>1. m - 1 \in 1 .. Len(tail) /\ tail[m - 1] = rest[m] BY <2>1, <2>4, <4>3
        <5> QED BY <2>7, <4>1, <5>1 DEF Covers
      <4> QED BY <4>2, <4>3
    <3> QED BY <1>7, <3>1, <3>2
  <2> QED BY <2>7, <2>8, <2>9 DEF Accounts
<1> QED BY <1>9, <1>10

\* A page is read: what stands stays accounted for.
LEMMA ReadKeeps ==
  ASSUME CiInv, NEW p \in Phase, ReadPage(p)
  PROVE  CiInv'
<1> DEFINE q == query[p]
           lists == ci[q.commit]
           list == lists[q.at.list]
           page == PageOf(list, q.at.page)
           observed == q.observed \cup Shown(q, page)
           runs == {o.id : o \in {x \in observed : x.run}}
           reply == Pagination(q.at, list, page)
<1>1. q = query[p] OBVIOUS
<1>2. q.pc = "reading" /\ q \in Reader /\ q # Quiet /\ q.commit \in Commit
  <2>1. q.pc = "reading" BY DEF ReadPage
  <2>2. CiTypes BY DEF CiInv
  <2> HIDE DEF q
  <2> QED BY <1>1, <2>1, <2>2, QueryStages DEF Quiet
<1>3. lists = ci[q.commit] OBVIOUS
<1>4. /\ lists \in [Lists -> Seq(Item)] /\ Named(lists, items)
      /\ Sound(q, lists, standing[p])
  BY <1>1, <1>2, <1>3 DEF CiInv, CiTypes
<1>5. list = lists[q.at.list] OBVIOUS
<1>6. page = PageOf(list, q.at.page) OBVIOUS
<1>8. observed = q.observed \cup Shown(q, page) OBVIOUS
<1>9. runs = {o.id : o \in {x \in observed : x.run}} OBVIOUS
<1>10. reply = Pagination(q.at, list, page) OBVIOUS
<1>11. /\ \/ reply = "refused" /\ Refuse(p)
          \/ /\ reply = "more"
             /\ query' = [query EXCEPT ![p] = [q EXCEPT !.observed = observed, !.at = NextPage(q.at, list, page)]]
          \/ /\ reply = "done"
             /\ IF q.at.list[1] = "runs" /\ q.filter # NoFilter /\ runs = {} THEN Refuse(p)
                ELSE query' = [query EXCEPT ![p] = NextList(q, observed, IF q.at.list[1] = "runs" THEN runs ELSE {})]
       /\ UNCHANGED <<ci, items, standing, receipts, verdict>>
  BY DEF ReadPage
<1> HIDE DEF q, lists, list, page, observed, runs, reply
<1>12. /\ q.at \in PlaceInList /\ q.at.list \in Lists /\ list \in Seq(Item)
       /\ Cardinality(q.at.seen) <= (q.at.page - 1) * PageSize
       /\ standing[p] \subseteq Unsuccessful(lists, q.filter)
       /\ \A x \in standing[p] : Covers(q, lists, x)
  BY <1>2, <1>4, <1>5 DEF Reader, PlaceInList, Sound
<1>13. /\ observed \in SUBSET Observed /\ q.observed \subseteq observed
       /\ \A x \in standing[p] :
            /\ (\E i \in page : i.id = x) => SawFailure(observed)
            /\ q.at.list = All("runs") =>
                 \A r \in 1 .. MaxItems :
                   InList(lists, JobsOf(r), x) /\ (\E i \in page : i.id = r) => SawRun(observed, r)
  <2>1. page = PageOf(lists[q.at.list], q.at.page) BY <1>5, <1>6
  <2>2. Tells(q, lists, page, observed) BY <1>2, <1>4, <1>8, <2>1, PageShows
  <2> QED BY <1>12, <2>2 DEF Tells
<1>14. /\ SawFailure(q.observed) => SawFailure(observed)
       /\ \A r : SawRun(q.observed, r) => SawRun(observed, r)
  BY <1>13 DEF SawFailure, SawRun
<1>15. CASE Refuse(p) BY <1>1, <1>2, <1>11, <1>15, RefuseKeeps
<1>16. CASE /\ reply = "more"
            /\ query' = [query EXCEPT ![p] = [q EXCEPT !.observed = observed, !.at = NextPage(q.at, list, page)]]
  <2>1. PICK place : place = NextPage(q.at, list, page) OBVIOUS
  <2>2. place \in PlaceInList /\ Cardinality(place.seen) <= (place.page - 1) * PageSize /\ place.list = q.at.list
    <3>1. place \in PlaceInList /\ Cardinality(place.seen) <= (place.page - 1) * PageSize
      BY <1>6, <1>12, <2>1, SeenGrows
    <3> QED BY <1>12, <2>1, <3>1 DEF NextPage, PlaceInList
  <2>3. PICK next : next = [q EXCEPT !.observed = observed, !.at = place] OBVIOUS
  <2>4. /\ next \in Reader /\ next.pc = "reading" /\ next.commit = q.commit /\ next.filter = q.filter
        /\ next.at = place /\ next.next = q.next /\ next.observed = observed
    BY <1>2, <1>13, <2>2, <2>3 DEF Reader
  <2>5. query' = [query EXCEPT ![p] = next] BY <1>16, <2>1, <2>3
  <2>6. ASSUME NEW x \in standing[p] PROVE Covers(next, lists, x)
    <3>1. ASSUME NEW y, ToCome(lists, q.at, y) PROVE (\E i \in page : i.id = y) \/ ToCome(lists, place, y)
      <4>1. reply # "refused" BY <1>16
      <4> QED BY <1>4, <1>5, <1>6, <1>10, <1>12, <2>1, <3>1, <4>1, PageBrings
    <3>2. Covers(q, lists, x) BY <1>12
    <3>3. CASE SawFailure(q.observed) BY <1>14, <2>4, <3>3 DEF Covers
    <3>4. CASE \E j \in 1 .. Len(q.next) : InList(lists, q.next[j], x) BY <2>4, <3>4 DEF Covers
    <3>5. CASE ToCome(lists, q.at, x) BY <1>13, <2>4, <3>1, <3>5 DEF Covers
    <3>6. CASE /\ q.at.list = All("runs")
               /\ \E r \in 1 .. MaxItems :
                    InList(lists, JobsOf(r), x) /\ (ToCome(lists, q.at, r) \/ SawRun(q.observed, r))
      <4>1. PICK r \in 1 .. MaxItems :
                    InList(lists, JobsOf(r), x) /\ (ToCome(lists, q.at, r) \/ SawRun(q.observed, r))
        BY <3>6
      <4>2. ToCome(lists, place, r) \/ SawRun(observed, r) BY <1>13, <1>14, <3>1, <3>6, <4>1
      <4> QED BY <2>2, <2>4, <3>6, <4>1, <4>2 DEF Covers
    <3> QED BY <3>2, <3>3, <3>4, <3>5, <3>6 DEF Covers
  <2> QED BY <1>1, <1>2, <1>3, <1>11, <2>2, <2>4, <2>5, <2>6, QueryMoves
<1>17. CASE /\ reply = "done"
            /\ query' = [query EXCEPT ![p] = NextList(q, observed, IF q.at.list[1] = "runs" THEN runs ELSE {})]
  <2>1. PICK those : those = IF q.at.list[1] = "runs" THEN runs ELSE {} OBVIOUS
  <2>2. those \in SUBSET (1 .. MaxItems) BY <1>9, <1>13, <2>1 DEF Observed
  <2>3. PICK next : next = NextList(q, observed, those) OBVIOUS
  <2>4. ASSUME NEW x \in standing[p]
        PROVE  \/ SawFailure(observed)
               \/ \E j \in 1 .. Len(q.next) : InList(lists, q.next[j], x)
               \/ \E r \in those : InList(lists, JobsOf(r), x)
    <3>1. ASSUME NEW y, ToCome(lists, q.at, y) PROVE \E i \in page : i.id = y
      <4>1. reply # "refused" /\ reply # "more" BY <1>17
      <4> QED BY <1>4, <1>5, <1>6, <1>10, <1>12, <3>1, <4>1, PageBrings
    <3>2. Covers(q, lists, x) BY <1>12
    <3>3. CASE ToCome(lists, q.at, x) BY <1>13, <3>1, <3>3
    <3>4. CASE /\ q.at.list = All("runs")
               /\ \E r \in 1 .. MaxItems :
                    InList(lists, JobsOf(r), x) /\ (ToCome(lists, q.at, r) \/ SawRun(q.observed, r))
      <4>1. PICK r \in 1 .. MaxItems :
                    InList(lists, JobsOf(r), x) /\ (ToCome(lists, q.at, r) \/ SawRun(q.observed, r))
        BY <3>4
      <4>2. SawRun(observed, r) BY <1>13, <1>14, <3>1, <3>4, <4>1
      <4>3. q.at.list[1] = "runs" BY <1>12, <3>4, ListNames
      <4>4. r \in those BY <1>9, <2>1, <4>2, <4>3 DEF SawRun
      <4> QED BY <4>1, <4>4
    <3> QED BY <1>14, <3>2, <3>3, <3>4 DEF Covers
  <2>5. /\ next \in Reader /\ next.commit = q.commit /\ next.filter = q.filter
        /\ next.pc = "reading" => /\ Cardinality(next.at.seen) <= (next.at.page - 1) * PageSize
                                  /\ \A x \in standing[p] : Covers(next, lists, x)
        /\ next.pc = "read" => standing[p] = {} \/ SawFailure(next.observed)
    <3>1. Followed(q, lists, observed, those, standing[p]) BY <2>4 DEF Followed
    <3>2. observed \in SUBSET Observed BY <1>13
    <3>3. Accounts(q, next, lists, standing[p]) BY <1>2, <2>2, <2>3, <3>1, <3>2, ListsFollow
    <3> QED BY <3>3 DEF Accounts
  <2>6. query' = [query EXCEPT ![p] = next] BY <1>17, <2>1, <2>3
  <2> QED BY <1>1, <1>2, <1>3, <1>11, <2>5, <2>6, QueryMoves
<1> QED BY <1>11, <1>15, <1>16, <1>17

\* A receipt of success is only issued when nothing stands.
LEMMA IssueKeeps ==
  ASSUME CiInv, NEW p \in Phase, IssueReceipt(p)
  PROVE  CiInv'
<1>1. PICK q : q = query[p] OBVIOUS
<1>2. q.pc = "read" /\ q \in Reader /\ q # Quiet
  <2>1. q.pc = "read" BY <1>1 DEF IssueReceipt
  <2>2. CiTypes BY DEF CiInv
  <2> QED BY <1>1, <2>1, <2>2, QueryStages DEF Quiet
<1>3. PICK results : results = {o.result : o \in q.observed} OBVIOUS
<1>4. PICK receipt : receipt = [domain |-> p, commit |-> q.commit, filter |-> q.filter,
                                observed |-> results, conclusion |-> Aggregate(results)]
  OBVIOUS
<1>5. PICK next : next = [pc |-> "issued", commit |-> q.commit, filter |-> q.filter] OBVIOUS
<1>6. /\ \/ Refuse(p) /\ receipts' = receipts
         \/ receipts' = receipts \cup {receipt} /\ query' = [query EXCEPT ![p] = next]
      /\ UNCHANGED <<ci, items, standing, verdict>>
  BY <1>1, <1>3, <1>4, <1>5 DEF IssueReceipt
<1>7. CASE Refuse(p) /\ receipts' = receipts BY <1>1, <1>2, <1>6, <1>7, RefuseKeeps
<1>8. CASE receipts' = receipts \cup {receipt} /\ query' = [query EXCEPT ![p] = next]
  <2>1. next \in Over /\ next.pc = "issued" /\ next.commit = q.commit /\ next.filter = q.filter
    BY <1>2, <1>5 DEF Reader, Over
  <2>2. receipt.domain = p /\ receipt.conclusion = Aggregate(results) BY <1>4
  <2>3. ASSUME Aggregate(results) = "SUCCESS" PROVE standing[p] = {}
    <3>1. standing[p] = {} \/ SawFailure(q.observed) BY <1>1, <1>2 DEF CiInv, Sound
    <3>2. "failure" \notin results /\ "cancelled" \notin results /\ "active" \notin results
      BY <2>3 DEF Aggregate
    <3>3. \A o \in q.observed : o.result \in Results BY <1>2 DEF Reader, Observed
    <3>4. ~SawFailure(q.observed) BY <1>3, <3>2, <3>3 DEF SawFailure, Results
    <3> QED BY <3>1, <3>4
  <2> QED BY <1>1, <1>2, <1>6, <1>8, <2>1, <2>2, <2>3, QueryMoves
<1> QED BY <1>6, <1>7, <1>8

\* A phase accepts a receipt of its own only.
LEMMA AcceptKeeps ==
  ASSUME CiInv, NEW p \in Phase, NEW r \in receipts, Accept(p, r)
  PROVE  CiInv'
<1>1. /\ r.domain = p /\ verdict' = [verdict EXCEPT ![p] = r.conclusion]
      /\ UNCHANGED <<ci, items, query, standing, receipts>>
  BY DEF Accept, InDomain
<1>2. CiTypes' BY <1>1 DEF CiInv, CiTypes
<1>3. \A h \in Phase : verdict'[h] = "SUCCESS" => query'[h] # Quiet /\ standing'[h] = {}
  BY <1>1 DEF CiInv, CiTypes
<1> QED BY <1>1, <1>2, <1>3 DEF CiInv

\* Every step keeps what was read accounting for what stands.
LEMMA CiKeeps == CiInv /\ [CiNext]_ciVars => CiInv'
<1> SUFFICES ASSUME CiInv, [CiNext]_ciVars PROVE CiInv' OBVIOUS
<1>1. CASE UNCHANGED ciVars BY <1>1 DEF ciVars, CiInv, CiTypes
<1>2. ASSUME NEW p \in Phase, QueryFails(p) PROVE CiInv'
  <2>1. query[p] # Quiet BY <1>2 DEF QueryFails, Quiet
  <2> QED BY <1>2, <2>1, RefuseKeeps DEF QueryFails
<1> QED BY <1>1, <1>2, AppearsKeeps, ProgressesKeeps, VanishesKeeps, StartKeeps, ReadKeeps,
           IssueKeeps, AcceptKeeps DEF CiNext

\* Before the first query nothing was seen and nothing stands.
LEMMA CiStarts == CiInit => CiInv
<1> SUFFICES ASSUME CiInit PROVE CiInv OBVIOUS
<1>1. CiTypes
  <2>1. <<>> \in Seq(Item) OBVIOUS
  <2> QED BY <2>1, CiAssumption DEF CiInit, CiTypes
<1>2. \A k \in Commit : Named(ci[k], items)
  <2>1. \A k \in Commit, s \in Lists : 1 .. Len(ci[k][s]) = {} BY DEF CiInit
  <2> QED BY <2>1 DEF Named
<1> QED BY <1>1, <1>2 DEF CiInit, CiInv

\* A phase is told SUCCESS only when nothing stands, for pages of any size and lists that
\* change in any way between two of them.
THEOREM SuccessIsComplete == CiSpec => []SuccessHidesNothing
<1>1. CiInv => SuccessHidesNothing BY DEF CiInv, SuccessHidesNothing
<1> QED BY <1>1, CiStarts, CiKeeps, PTL DEF CiSpec
=============================================================================
