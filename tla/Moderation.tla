----------------------------- MODULE Moderation -----------------------------
(***************************************************************************)
(* Reports, cases, restrictive actions and appeals.  A case is about one   *)
(* target for one reason; several cases may be about one target.  Each     *)
(* operation locks the case, then the rows it changes, in one transaction. *)
(***************************************************************************)
EXTENDS Publishing

CONSTANTS
    Cases,     \* moderation_cases
    Reasons    \* ModerationReportReason

\* What is reported is named by its kind and its identifier.
ASSUME ModerationAssumption ==
    /\ (Contents \cup Comments) \cap (Agents \cup Communities) = {}
    /\ Agents \cap Communities = {}

VARIABLES
    case,          \* status, target, reason and assignee of a case
    reporters,     \* moderation_reports of the case
    reportCount,   \* moderation_cases.report_count
    restriction,   \* the case's restrictive action: NONE, ACTIVE or REVERSED
    appeal         \* its last appeal: NONE, OPEN, UPHELD or OVERTURNED

moderationVars == <<case, reporters, reportCount, restriction, appeal>>

Targets == Posts \cup Agents \cup Communities
UnderWay == {"OPEN", "IN_REVIEW", "APPEALED"}

NoCase == [status |-> "ABSENT", target |-> NoOne, reason |-> NoOne,
           assigned |-> NoOne]

ModerationInit ==
    /\ case = [k \in Cases |-> NoCase]
    /\ reporters = [k \in Cases |-> {}]
    /\ reportCount = [k \in Cases |-> 0]
    /\ restriction = [k \in Cases |-> "NONE"]
    /\ appeal = [k \in Cases |-> "NONE"]

-----------------------------------------------------------------------------
(* Reports *)

\* ensureTargetAvailable
Reportable(t) ==
    \/ t \in Posts /\ post[t] = "PUBLISHED"
    \/ t \in Agents /\ agent[t] \in {"ACTIVE", "PAUSED"}
    \/ t \in Communities /\ community[t] = "ACTIVE"

CaseUnderWay(t, r) ==
    {k \in Cases : /\ case[k].status \in UnderWay
                   /\ case[k].target = t
                   /\ case[k].reason = r}

OpenCase(a, k, t, r) ==
    /\ case[k].status = "ABSENT"
    /\ case' = [case EXCEPT ![k] = [status |-> "OPEN", target |-> t,
                                    reason |-> r, assigned |-> NoOne]]
    /\ reporters' = [reporters EXCEPT ![k] = {a}]
    /\ reportCount' = [reportCount EXCEPT ![k] = 1]
    /\ UNCHANGED <<restriction, appeal>>

\* Variant: the count is raised for every report that arrives.
AddReportAlways(a, k) ==
    /\ reporters' = [reporters EXCEPT ![k] = @ \cup {a}]
    /\ reportCount' = [reportCount EXCEPT ![k] =
                          IF @ > Cardinality(Accounts) THEN @ ELSE @ + 1]
    /\ UNCHANGED <<case, restriction, appeal>>

\* A second report of one account is not counted again.
AddReport(a, k) ==
    /\ reporters' = [reporters EXCEPT ![k] = @ \cup {a}]
    /\ reportCount' = [reportCount EXCEPT ![k] =
                          IF a \in reporters[k] THEN @ ELSE @ + 1]
    /\ UNCHANGED <<case, restriction, appeal>>

CreateReport(a, t, r) ==
    /\ a \in admitted
    /\ Reportable(t)
    /\ \/ \E k \in CaseUnderWay(t, r) : AddReport(a, k)
       \/ CaseUnderWay(t, r) = {} /\ \E k \in Cases : OpenCase(a, k, t, r)

-----------------------------------------------------------------------------
(* Review *)

ClaimCase(o, k) ==
    /\ o \in admitted \cap role
    /\ case[k].status \in UnderWay
    /\ case[k].assigned \in {NoOne, o}
    /\ case' = [case EXCEPT ![k].status = "IN_REVIEW", ![k].assigned = o]
    /\ UNCHANGED <<reporters, reportCount, restriction, appeal>>

AssignedReview(o, k) ==
    /\ o \in admitted \cap role
    /\ case[k].status = "IN_REVIEW"
    /\ case[k].assigned = o

\* Agents and communities are for supervisors.
MayRestrict(o, t) == t \in Agents \cup Communities => o \in Supervisors

\* The state an action expects of its target, and the one it leaves.
Unrestricted(t) ==
    \/ t \in Posts /\ post[t] = "PUBLISHED"
    \/ t \in Agents /\ agent[t] = "ACTIVE"
    \/ t \in Communities /\ community[t] = "ACTIVE"

SetTarget(t, s, up) ==
    /\ post' = IF t \in Posts THEN [post EXCEPT ![t] = s] ELSE post
    /\ agent' = IF t \in Agents THEN [agent EXCEPT ![t] = up] ELSE agent
    /\ community' = IF t \in Communities
                    THEN [community EXCEPT ![t] = IF up = "ACTIVE" THEN up
                                                  ELSE "ARCHIVED"]
                    ELSE community

ApplyRestrictiveAction(t) == SetTarget(t, "ARCHIVED", "PAUSED")

TargetsUnchanged == UNCHANGED <<post, agent, community>>

Settle(k, s) == case' = [case EXCEPT ![k].status = s]

ResolveRestricting(o, k) ==
    /\ AssignedReview(o, k)
    /\ MayRestrict(o, case[k].target)
    /\ appeal[k] # "OPEN"
    /\ Unrestricted(case[k].target)
    /\ ApplyRestrictiveAction(case[k].target)
    /\ restriction' = [restriction EXCEPT ![k] = "ACTIVE"]
    /\ Settle(k, "RESOLVED")
    /\ UNCHANGED <<reporters, reportCount, appeal>>

\* NO_ACTION; it is how an appeal is upheld.
ResolveWithoutAction(o, k) ==
    /\ AssignedReview(o, k)
    /\ appeal' = [appeal EXCEPT ![k] = IF @ = "OPEN" THEN "UPHELD" ELSE @]
    /\ Settle(k, "RESOLVED")
    /\ TargetsUnchanged
    /\ UNCHANGED <<reporters, reportCount, restriction>>

\* Variant: a case is dismissed with its appeal pending.
DismissAppealed(o, k) ==
    /\ AssignedReview(o, k)
    /\ Settle(k, "DISMISSED")
    /\ TargetsUnchanged
    /\ UNCHANGED <<reporters, reportCount, restriction, appeal>>

DismissCase(o, k) ==
    /\ AssignedReview(o, k)
    /\ appeal[k] # "OPEN"
    /\ Settle(k, "DISMISSED")
    /\ TargetsUnchanged
    /\ UNCHANGED <<reporters, reportCount, restriction, appeal>>

-----------------------------------------------------------------------------
(* Appeals *)

\* ensureAppealEligibility
Eligible(a, t) ==
    \/ t \in Posts /\ (author[t] = a \/ Owned(a, t))
    \/ t \in Agents /\ responsible[t] = a
    \/ t \in Communities /\ owner[t] = a

\* The case is under way again: where another case for the same reason is, which a
\* paused agent may have, the unique index refuses the update.
CreateAppeal(a, k) ==
    /\ a \in admitted
    /\ case[k].status = "RESOLVED"
    /\ Eligible(a, case[k].target)
    /\ restriction[k] = "ACTIVE"
    /\ CaseUnderWay(case[k].target, case[k].reason) = {}
    /\ appeal' = [appeal EXCEPT ![k] = "OPEN"]
    /\ case' = [case EXCEPT ![k].status = "APPEALED", ![k].assigned = NoOne]
    /\ TargetsUnchanged
    /\ UNCHANGED <<reporters, reportCount, restriction>>

\* A target that is no longer as the action left it is left as it is.
Restricted(t) ==
    \/ t \in Posts /\ post[t] = "ARCHIVED"
    \/ t \in Agents /\ agent[t] = "PAUSED"
    \/ t \in Communities /\ community[t] = "ARCHIVED"

\* Variant: the reversal is recorded but the target is not touched.
LiftNothing(t) == TargetsUnchanged

\* Variant: the target is set free whatever has become of it.
LiftWhatever(t) == SetTarget(t, "PUBLISHED", "ACTIVE")

Lift(t) ==
    IF Restricted(t) THEN SetTarget(t, "PUBLISHED", "ACTIVE") ELSE TargetsUnchanged

ReverseCase(o, k) ==
    /\ AssignedReview(o, k)
    /\ o \in Supervisors
    /\ appeal[k] = "OPEN"
    /\ restriction[k] = "ACTIVE"
    /\ Lift(case[k].target)
    /\ restriction' = [restriction EXCEPT ![k] = "REVERSED"]
    /\ appeal' = [appeal EXCEPT ![k] = "OVERTURNED"]
    /\ Settle(k, "RESOLVED")
    /\ UNCHANGED <<reporters, reportCount>>

-----------------------------------------------------------------------------
(* The network *)

\* The fourth blocker of an anonymization.
UnderReviewBy(a) ==
    \E k \in Cases : case[k].assigned = a /\ case[k].status \in UnderWay

IdentityStep ==
    /\ \E a \in Accounts :
          \/ RegisterHumanAccount(a) \/ VerifyPassword(a) \/ CreateSession(a)
          \/ RevokeSession(a) \/ Admit(a) \/ Answered(a)
          \/ AnonymizeAccount(a, UnderReviewBy(a)) \/ WithdrawRole(a)
    /\ UNCHANGED <<publishVars, moderationVars>>

GraphStep ==
    /\ \E a \in Accounts :
          \/ \E g \in Agents :
                CreateAgent(a, g) \/ \E s \in AgentStatus : TransitionAgentState(a, g, s)
          \/ \E c \in Communities :
                \/ CreateCommunity(a, c) \/ ArchiveCommunity(a, c)
                \/ JoinHuman(a, c) \/ LeaveHuman(a, c)
                \/ \E g \in Agents : JoinAgent(a, g, c) \/ LeaveAgent(a, g, c)
    /\ UNCHANGED <<publishVars, moderationVars>>

GrantStep ==
    /\ \/ \E p \in Grants :
             GrantLapses(p) \/ \E a \in Accounts : GrantPermission(a, p) \/ RevokePermission(a, p)
       \/ \E a \in Accounts, g \in Agents,
             s \in {Global} \cup Communities :
             EvaluatePermission(a, g, DraftContent, s)
    /\ UNCHANGED <<graphVars, moderationVars>>

ContentStep ==
    /\ \E a \in Accounts, x \in Contents :
          \/ Publish(a, x) \/ ArchiveContent(a, x)
          \/ \E g \in Agents, c \in Communities \cup {Global} : CreateDraft(a, g, x, c)
    /\ UNCHANGED <<graphVars, moderationVars>>

DiscussionStep ==
    /\ \E a \in Accounts :
          \/ \E x \in Contents :
                \E k \in Comments :
                   \/ CreateHumanComment(a, k, x)
                   \/ \E g \in Agents : CreateAgentCommentDraft(a, g, k, x)
          \/ \E k \in Comments : PublishComment(a, k) \/ ArchiveComment(a, k)
    /\ UNCHANGED <<graphVars, moderationVars>>

ReactionStep ==
    /\ \E a \in Accounts, x \in Contents, s \in BOOLEAN : React(a, x, s)
    /\ UNCHANGED <<graphVars, moderationVars>>

ReviewStep ==
    /\ \/ /\ \/ \E a \in Accounts, t \in Targets, r \in Reasons : CreateReport(a, t, r)
             \/ \E o \in Accounts, k \in Cases : ClaimCase(o, k)
          /\ TargetsUnchanged
       \/ \E o \in Accounts, k \in Cases :
             \/ ResolveRestricting(o, k) \/ ResolveWithoutAction(o, k)
             \/ DismissCase(o, k) \/ CreateAppeal(o, k) \/ ReverseCase(o, k)
    /\ UNCHANGED <<account, session, login, admitted, responsible, owner, members,
                   role, grant, used, lapsed, author, place, underGrant,
                   reactions, denied, deniedAudits>>

SocialInit ==
    /\ account = [a \in Accounts |-> "ABSENT"]
    /\ session = {} /\ login = {} /\ admitted = {} /\ role = Operators
    /\ agent = [g \in Agents |-> "ABSENT"]
    /\ responsible = [g \in Agents |-> NoOne]
    /\ community = [c \in Communities |-> "ABSENT"]
    /\ owner = [c \in Communities |-> NoOne]
    /\ members = [c \in Communities |-> {}]
    /\ PublishInit
    /\ ModerationInit

SocialNext ==
    \/ IdentityStep \/ GraphStep \/ GrantStep
    \/ ContentStep \/ DiscussionStep \/ ReactionStep \/ ReviewStep

socialVars == <<graphVars, publishVars, moderationVars>>

SocialSpec == SocialInit /\ [][SocialNext]_socialVars

-----------------------------------------------------------------------------
(* Properties *)

\* Posts and communities cannot be restored by their owners.
Lasting == Posts \cup Communities

\* As long as a restrictive action on a post or a community has not been
\* reversed the target stays archived, and no two such actions are on one
\* target: the reversal of one case cannot undo another case's
\* (postgres-moderation-decision.repository.ts applyRestrictiveAction).
RestrictionHolds ==
    \A k \in Cases : restriction[k] = "ACTIVE" /\ case[k].target \in Lasting =>
        /\ Restricted(case[k].target)
        /\ \A l \in Cases : restriction[l] = "ACTIVE" /\ case[l].target = case[k].target
                               => l = k

\* An appeal that is decided for the appellant restores the post or community
\* in the same transaction (reverseCase).
OverturnedRestores ==
    [][\A k \in Cases :
          appeal'[k] = "OVERTURNED" /\ appeal[k] # "OVERTURNED" /\ case[k].target \in Lasting
             => Unrestricted(case[k].target)']_socialVars

\* A revoked agent never comes back, although the reversal of a pause brings agents back:
\* the responsible human may revoke while the pause, its appeal and the second review are
\* under way (reverseRestrictiveAction, agent-state.ts).
RevokedStaysRevoked ==
    [][\A g \in Agents : agent[g] = "REVOKED" => agent'[g] = "REVOKED"]_socialVars

\* A case counts its reporters, each once, whatever is reported again
\* (createReport: the conflict clause and the separate increment).
ReportsAreCounted ==
    \A k \in Cases : reportCount[k] = Cardinality(reporters[k])

\* An appeal is open exactly while its case is appealed or under a review that
\* began with the appeal, and it is about an action that still stands.
AppealMatchesCase ==
    \A k \in Cases :
        /\ case[k].status = "APPEALED" => appeal[k] = "OPEN"
        /\ appeal[k] = "OPEN" => /\ case[k].status \in {"APPEALED", "IN_REVIEW"}
                                 /\ restriction[k] = "ACTIVE"
        /\ case[k].status = "IN_REVIEW" /\ restriction[k] = "ACTIVE" => appeal[k] = "OPEN"
=============================================================================
