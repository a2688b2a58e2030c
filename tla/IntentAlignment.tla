--------------------------- MODULE IntentAlignment ---------------------------
(***************************************************************************)
(* Project intake (project-artifacts/, project-intake/ and                 *)
(* mcf-runtime/mission-v11-context.guard.ts).  The intent of a project is  *)
(* kept in files of its repository: revisions of the Project Intent        *)
(* Package (PIP), the receipt of a revision's alignment, and Project       *)
(* Reality Reports.  Each file is written under a lock file of its own, in *)
(* several steps, by operations that have read other files before.         *)
(* A digest stands for the contents it is calculated from, so a reference  *)
(* is the artifact itself; its path is implied by its revision.            *)
(***************************************************************************)
EXTENDS Naturals, FiniteSets

CONSTANTS
  Writers,       \* operations under way at the same time
  Revisions,     \* PIP revisions
  Answers,       \* what a resolved dimension of the intent may say
  Decisions,     \* human decisions
  Replaces,      \* the decision a decision supersedes, or Nothing
  Confirmations, \* [at, source]: a human's confirmation, when and where it was given
  Realities,     \* what a reality read-back may say
  Nothing

\* ProjectIntentPackageV1, IntentAlignmentReceiptV1 and ProjectRealityReportV1.
ProjectIntentPackage ==
  [lifecycle : {"DISCOVERY", "READY", "REOPENED", "ALIGNED"}, says : {"OPEN", "DEFERRED"} \cup Answers,
   alignedAt : {k.at : k \in Confirmations} \cup {Nothing},
   decisions : [Decisions -> {"NONE", "CURRENT", "SUPERSEDED"}]]
AlignmentReceipt ==
  [lifecycle : {"RECEIPT"}, pip : ProjectIntentPackage, confirmation : Confirmations]
RealityReport ==
  [lifecycle : {"REPORT"}, reality : Realities, status : {"CONFIRMED", "CONFIRMED_WITH_CORRECTIONS"}]
Artifacts == ProjectIntentPackage \cup AlignmentReceipt \cup RealityReport

ASSUME IntakeAssumption ==
  /\ Replaces \in [Decisions -> Decisions \cup {Nothing}]
  /\ Nothing \notin Answers \cup Decisions \cup Writers
  /\ Nothing \notin Artifacts
  /\ \A k \in Decisions : Replaces[k] # k

VARIABLES
  file,      \* the artifact under each canonical path
  lockFiles, \* the paths with a .lock file beside them
  op,        \* where each operation stands, and what it has in hand
  confirmed, \* <<confirmation, <<path, PIP>>>>: what a human was shown and confirmed
  relied     \* <<path, artifact>>: what somebody was told is aligned or confirmed

intakeVars == <<file, lockFiles, op, confirmed, relied>>

Pip(r) == <<"pip", r>>
Receipt(r) == <<"receipt", r>>
Prr == <<"prr", "revision">>
Paths == {Pip(r) : r \in Revisions} \cup {Receipt(r) : r \in Revisions} \cup {Prr}

NoOp == [pc |-> "idle", path |-> Nothing, artifact |-> Nothing, then |-> "end",
         confirmation |-> Nothing, base |-> Nothing]

IntakeInit ==
  /\ file = [p \in Paths |-> Nothing]
  /\ lockFiles = {}
  /\ op = [c \in Writers |-> NoOp]
  /\ confirmed = {} /\ relied = {}

\* An operation that has returned or thrown leaves nothing but the files.
OpEnds(c) == op' = [op EXCEPT ![c] = NoOp]

Proceeds(c) == IF op[c].then = "end" THEN OpEnds(c) ELSE op' = [op EXCEPT ![c].pc = op[c].then]

Writes(c, p, a, next) ==
  op' = [op EXCEPT ![c].pc = "open", ![c].path = p, ![c].artifact = a, ![c].then = next]

-----------------------------------------------------------------------------
(* RepositoryProjectArtifactStore.writeArtifact *)

\* assertI3WorkingPip: what discovery may go on with.
Working(pip) == pip.lifecycle \in {"DISCOVERY", "READY", "REOPENED"}

\* An aligned PIP, a receipt and a reality report are never replaced; a PIP that is
\* still worked on is.
WriteAllowed(existing, a) == existing = a \/ Working(existing)

\* After a write that failed: a receipt's writer looks at the pair all the same.
AfterFailure(c) == IF op[c].path[1] = "receipt" THEN op' = [op EXCEPT ![c].pc = "verify"]
                   ELSE OpEnds(c)

\* loadLocal: the artifact under the path must be the one the reference names, which
\* may have no commit of its own.
LoadLocal(p, a) == file[p] # Nothing /\ file[p] = a

\* resolveLocalPipRevision, resolveLocalAlignmentReceipt: whatever is there now.
Resolved(p) == file[p]

\* Variant: the lock file is opened without the flag that makes it exclusive.
OpenShared(c) ==
  /\ op[c].pc = "open"
  /\ lockFiles' = lockFiles \cup {op[c].path} /\ op' = [op EXCEPT ![c].pc = "read"]
  /\ UNCHANGED <<file, confirmed, relied>>

OpenLock(c) ==
  /\ op[c].pc = "open"
  /\ IF op[c].path \in lockFiles
     THEN AfterFailure(c) /\ UNCHANGED lockFiles
     ELSE lockFiles' = lockFiles \cup {op[c].path} /\ op' = [op EXCEPT ![c].pc = "read"]
  /\ UNCHANGED <<file, confirmed, relied>>

ReadExisting(c) ==
  LET existing == file[op[c].path]
  IN /\ op[c].pc = "read"
     /\ IF existing # Nothing /\ ~WriteAllowed(existing, op[c].artifact)
        THEN AfterFailure(c) /\ lockFiles' = lockFiles \ {op[c].path}
        ELSE IF existing = op[c].artifact
             THEN Proceeds(c) /\ lockFiles' = lockFiles \ {op[c].path}
             ELSE op' = [op EXCEPT ![c].pc = "rename"] /\ UNCHANGED lockFiles
     /\ UNCHANGED <<file, confirmed, relied>>

\* The rename is atomic; it may fail, which leaves the prior file, and syncing the
\* directory may fail after it.
WriteAtomically(c) ==
  /\ op[c].pc = "rename"
  /\ \/ /\ file' = [file EXCEPT ![op[c].path] = op[c].artifact]
        /\ op' = [op EXCEPT ![c].pc = "unlink"] /\ UNCHANGED lockFiles
     \/ /\ file' = [file EXCEPT ![op[c].path] = op[c].artifact]
        /\ AfterFailure(c) /\ lockFiles' = lockFiles \ {op[c].path}
     \/ AfterFailure(c) /\ lockFiles' = lockFiles \ {op[c].path} /\ UNCHANGED file
  /\ UNCHANGED <<confirmed, relied>>

UnlinkLock(c) ==
  /\ op[c].pc = "unlink"
  /\ lockFiles' = lockFiles \ {op[c].path} /\ Proceeds(c)
  /\ UNCHANGED <<file, confirmed, relied>>

-----------------------------------------------------------------------------
(* HumanIntentDiscoveryService.  One dimension stands for the twenty: open and      *)
(* blocking, open and not blocking, or answered by a human.                         *)

Says == {"OPEN", "DEFERRED"} \cup Answers

\* assessIntentReadiness.
Assessed(says) == IF says \in Answers THEN "READY" ELSE "DISCOVERY"

\* applyHumanDecisionUpdates: a new decision is CURRENT, the one it replaces must have
\* been and is SUPERSEDED.
MayDecide(decisions, k) ==
  /\ decisions[k] = "NONE"
  /\ Replaces[k] # Nothing => decisions[Replaces[k]] = "CURRENT"

Decided(decisions, k) ==
  [j \in Decisions |-> IF j = k THEN "CURRENT"
                       ELSE IF j = Replaces[k] THEN "SUPERSEDED" ELSE decisions[j]]

\* createIncrementalIntentRevision: what an update makes of a PIP.
Updated(pip, says, k) ==
  [pip EXCEPT !.says = says, !.alignedAt = Nothing,
              !.decisions = IF k = Nothing THEN @ ELSE Decided(@, k)]

\* createDiscoveryPip: every dimension is unknown; one seeded from a product definition
\* is clear when its provenance is human, which leaves others open.
PersistInitialPip(c, r) ==
  /\ op[c].pc = "idle"
  /\ Writes(c, Pip(r), [lifecycle |-> "DISCOVERY", says |-> "OPEN", alignedAt |-> Nothing,
                        decisions |-> [k \in Decisions |-> "NONE"]], "end")
  /\ UNCHANGED <<file, lockFiles, confirmed, relied>>

\* A machine alone neither answers a dimension nor decides.
PersistIncrementalRevision(c, base, r, says, k, human) ==
  LET pip == file[Pip(base)]
  IN /\ op[c].pc = "idle" /\ base # r
     /\ pip # Nothing /\ Working(pip)
     /\ says \in Answers \/ k # Nothing => human
     /\ k # Nothing => MayDecide(pip.decisions, k)
     /\ Writes(c, Pip(r), [Updated(pip, says, k) EXCEPT !.lifecycle = Assessed(says)], "end")
     /\ UNCHANGED <<file, lockFiles, confirmed, relied>>

-----------------------------------------------------------------------------
(* IntentAlignmentService *)

AlignedCandidate(pip, at) == [pip EXCEPT !.lifecycle = "ALIGNED", !.alignedAt = at]
PreAlignmentCandidate(pip) == [pip EXCEPT !.lifecycle = "READY", !.alignedAt = Nothing]

\* assertReadyForAlignment: nothing blocks, nothing conflicts, nobody has aligned it.
ReadyForAlignment(pip) == pip.lifecycle = "READY" /\ pip.says \in Answers /\ pip.alignedAt = Nothing

\* receiptMatchesPair and receiptMatchesCommand.
MatchesPair(receipt, pip) ==
  receipt.pip = pip /\ pip.lifecycle = "ALIGNED" /\ pip.alignedAt = receipt.confirmation.at

MatchesCommand(receipt, k) == receipt.confirmation = k

\* verifyAlignmentPair: an aligned PIP and the receipt that belongs to it.
PassVerified(r, pip) ==
  /\ LoadLocal(Pip(r), pip) /\ pip.lifecycle = "ALIGNED"
  /\ Resolved(Receipt(r)) # Nothing /\ MatchesPair(Resolved(Receipt(r)), pip)

Pair(r) == {<<Pip(r), file[Pip(r)]>>, <<Receipt(r), file[Receipt(r)]>>}

\* createFinalReadbackSnapshot: everything a revision says, and which one it is.
FinalReadback(r) == <<Pip(r), Resolved(Pip(r))>>

\* createFinalIntentReadback, and the human who reads it and confirms it, now or later.
CreateFinalIntentReadback(r, k) ==
  /\ Resolved(Pip(r)) # Nothing /\ Resolved(Pip(r)).lifecycle # "ALIGNED"
  /\ confirmed' = confirmed \cup {<<k, FinalReadback(r)>>}
  /\ UNCHANGED <<file, lockFiles, op, relied>>

\* assertCommand, assertReadbackBinding: one human, and a command that names the very
\* revision and contents of the read-back it comes with.
Bound(readback, expected, authority) == authority = "LEANDRO" /\ readback = expected

\* align up to its first write: the PIP must still be, or have been aligned from, the
\* contents the human confirmed.  A rejection ends here and writes nothing.
Align(c, k, readback, expected, authority, decision) ==
  LET revision == expected[1][2]
      pip == expected[2]
      current == Resolved(Pip(revision))
      source == IF current.lifecycle = "ALIGNED" THEN PreAlignmentCandidate(current) ELSE current
      candidate == AlignedCandidate(pip, k.at)
  IN /\ op[c].pc = "idle" /\ current # Nothing
     /\ IF \/ ~Bound(readback, expected, authority) \/ source # pip
           \/ decision = "REJECTED" \/ ~ReadyForAlignment(pip)
           \/ current.lifecycle = "ALIGNED" /\ current # candidate
        THEN OpEnds(c)
        ELSE op' = [op EXCEPT ![c] = [NoOp EXCEPT !.pc = "open", !.path = Pip(revision),
                       !.artifact = candidate, !.then = "receipt", !.confirmation = k,
                       !.base = <<revision, candidate>>]]
     /\ UNCHANGED <<file, lockFiles, confirmed, relied>>

\* assertAlignmentBinding: a receipt is written for an aligned PIP, the one in hand.
AlignmentBound(receipt, pip) == receipt.pip = pip /\ pip.lifecycle = "ALIGNED"

\* The aligned PIP is on disk; the hook may throw, and then the pair is looked at.
WriteAlignmentReceipt(c) ==
  LET revision == op[c].base[1]
      receipt == [lifecycle |-> "RECEIPT", pip |-> op[c].artifact, confirmation |-> op[c].confirmation]
  IN /\ op[c].pc = "receipt"
     /\ \/ AlignmentBound(receipt, op[c].artifact) /\ Writes(c, Receipt(revision), receipt, "verify")
        \/ op' = [op EXCEPT ![c].pc = "verify"]
     /\ UNCHANGED <<file, lockFiles, confirmed, relied>>

VerifyAlignment(c) ==
  LET revision == op[c].base[1]
  IN /\ op[c].pc = "verify" /\ OpEnds(c)
     /\ relied' = IF /\ PassVerified(revision, op[c].base[2])
                      /\ MatchesCommand(Resolved(Receipt(revision)), op[c].confirmation)
                   THEN relied \cup Pair(revision) ELSE relied
     /\ UNCHANGED <<file, lockFiles, confirmed>>

\* reopenAfterMaterialChange: a human's change makes a successor of an aligned PIP.
ReopenAfterMaterialChange(c, base, r, says, k, human) ==
  LET pip == file[Pip(base)]
  IN /\ op[c].pc = "idle" /\ base # r /\ human /\ PassVerified(base, pip)
     /\ k # Nothing => MayDecide(pip.decisions, k)
     /\ op' = [op EXCEPT ![c] = [NoOp EXCEPT !.pc = "open", !.path = Pip(r), !.then = "reopened",
                  !.artifact = [Updated(pip, says, k) EXCEPT !.lifecycle = "REOPENED"],
                  !.base = <<base, pip>>]]
     /\ UNCHANGED <<file, lockFiles, confirmed, relied>>

VerifyPreserved(c) ==
  LET base == op[c].base[1]
  IN /\ op[c].pc = "reopened" /\ OpEnds(c)
     /\ relied' = IF PassVerified(base, op[c].base[2]) THEN relied \cup Pair(base) ELSE relied
     /\ UNCHANGED <<file, lockFiles, confirmed>>

-----------------------------------------------------------------------------
(* ProjectRealityReportService and MissionV11ContextGuard *)

\* assertRealityConfirmation: the command names the read-back it confirms, and says what
\* was corrected when it corrects.
RealityConfirmed(readback, expected, decision, corrections) ==
  /\ expected = readback
  /\ decision = "CONFIRMED_WITH_CORRECTIONS" => corrections

ConfirmAndPersist(c, readback, expected, decision, corrections) ==
  /\ op[c].pc = "idle" /\ RealityConfirmed(readback, expected, decision, corrections)
  /\ Writes(c, Prr, [lifecycle |-> "REPORT", reality |-> readback, status |-> decision], "reload")
  /\ UNCHANGED <<file, lockFiles, confirmed, relied>>

\* The report is loaded again by its digest.
ReloadReport(c) ==
  /\ op[c].pc = "reload" /\ OpEnds(c)
  /\ relied' = IF LoadLocal(Prr, op[c].artifact) THEN relied \cup {<<Prr, file[Prr]>>} ELSE relied
  /\ UNCHANGED <<file, lockFiles, confirmed>>

\* assertPrr, and the same checks of createGapMap: the report is there and confirmed.
ReportHolds(prr) ==
  LoadLocal(Prr, prr) /\ prr.status \in {"CONFIRMED", "CONFIRMED_WITH_CORRECTIONS"}

CreateGapMap(r) ==
  /\ ReportHolds(file[Prr]) /\ PassVerified(r, file[Pip(r)])
  /\ relied' = relied \cup Pair(r) \cup {<<Prr, file[Prr]>>}
  /\ UNCHANGED <<file, lockFiles, op, confirmed>>

\* validate: a mission is admitted on a pair, and on a report when its contract names one.
AdmitMission(r, reported) ==
  /\ PassVerified(r, file[Pip(r)])
  /\ reported => ReportHolds(file[Prr])
  /\ relied' = relied \cup Pair(r) \cup (IF reported THEN {<<Prr, file[Prr]>>} ELSE {})
  /\ UNCHANGED <<file, lockFiles, op, confirmed>>

\* The process of an operation dies: a lock file it holds stays.
ProcessDies(c) ==
  /\ op[c].pc \in {"open", "read", "rename", "unlink", "receipt", "verify", "reopened", "reload"}
  /\ OpEnds(c)
  /\ UNCHANGED <<file, lockFiles, confirmed, relied>>

-----------------------------------------------------------------------------
StoreStep(c) == OpenLock(c) \/ ReadExisting(c) \/ WriteAtomically(c) \/ UnlinkLock(c)

AlignmentStep ==
  \/ \E r \in Revisions, k \in Confirmations : CreateFinalIntentReadback(r, k)
  \/ \E c \in Writers, s \in confirmed, t \in confirmed, d \in {"PASS", "REJECTED"},
        authority \in {"LEANDRO", "another"} :
        Align(c, s[1], s[2], t[2], authority, d)
  \/ \E c \in Writers : WriteAlignmentReceipt(c) \/ VerifyAlignment(c) \/ VerifyPreserved(c)

DiscoveryStep ==
  \E c \in Writers, r \in Revisions :
     \/ PersistInitialPip(c, r)
     \/ \E base \in Revisions, says \in Says, k \in Decisions \cup {Nothing} :
           \E human \in BOOLEAN :
              \/ PersistIncrementalRevision(c, base, r, says, k, human)
              \/ ReopenAfterMaterialChange(c, base, r, says, k, human)

RealityStep ==
  \/ \E c \in Writers : \/ ReloadReport(c)
                        \/ \E w, x \in Realities, fixed \in BOOLEAN,
                              d \in {"CONFIRMED", "CONFIRMED_WITH_CORRECTIONS"} :
                              ConfirmAndPersist(c, w, x, d, fixed)
  \/ \E r \in Revisions : CreateGapMap(r) \/ \E b \in BOOLEAN : AdmitMission(r, b)

WriterStep == \E c \in Writers : StoreStep(c) \/ ProcessDies(c)

IntakeNext ==
  AlignmentStep \/ DiscoveryStep \/ RealityStep \/ WriterStep

IntakeSpec == IntakeInit /\ [][IntakeNext]_intakeVars

-----------------------------------------------------------------------------
\* What somebody was told is aligned or confirmed stays as it was, whoever writes beside
\* it, dies half-way or tries again; and a receipt speaks of the very contents a human
\* was shown and confirmed (writeArtifact, align, validate).
ConfirmedIntentStands ==
  /\ \A b \in relied : file[b[1]] = b[2]
  /\ \A r \in Revisions : file[Receipt(r)] # Nothing =>
        LET receipt == file[Receipt(r)]
        IN /\ receipt.pip = file[Pip(r)]
           /\ <<receipt.confirmation, <<Pip(r), PreAlignmentCandidate(receipt.pip)>>>> \in confirmed
=============================================================================
